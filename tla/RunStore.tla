------------------------------ MODULE RunStore ------------------------------
(***************************************************************************)
(* The throughput GUI's run store (store.py) and the cross-version         *)
(* comparison read from it (compare.py).                                   *)
(*                                                                         *)
(* Every run is kept twice: as run.json in a directory of its own and as a *)
(* row of an SQLite index.  A server writes the file first and the row     *)
(* second and may die in between.  Two servers may hold the same store     *)
(* open; each migrates the schema and backfills old rows when it opens it. *)
(***************************************************************************)
EXTENDS Naturals, FiniteSets, FiniteSetsExt

CONSTANTS
    Servers,     \* processes that open the store
    NumRuns,     \* bound: runs ever recorded
    NumColumns,  \* the columns added after v1
    Versions,    \* artefact versions
    Keys,        \* params_key values
    Fifos        \* fifo labels

Runs == 1..NumRuns
Columns == 1..NumColumns
Terminal == {"done", "failed", "aborted"}
NoRec == [state |-> "absent", summary |-> "none"]
NoRow == [state |-> "absent", summary |-> "none", cols |-> "null"]
NoOp == [run |-> 0, row |-> NoRow]
Attributes == [ver : Versions, key : Keys, fifo : Fifos]

VARIABLES
    attr,     \* what each run was made with
    rec,      \* run.json
    row,      \* the index row; cols: "null", "known", or "blank" for ""
    columns,  \* the columns added after v1 that the table has
    pc,       \* server: down, migrate, backfill, up
    have,     \* server: the columns it saw when it opened the store
    snap,     \* server: the rows its backfill selected
    hand,     \* server: the run it is taking, 0 if none
    op        \* server: a row update that the file write came before

vars == <<attr, rec, row, columns, pc, have, snap, hand, op>>
opening == <<columns, pc, have, snap>>

-----------------------------------------------------------------------------
(* Opening the store. *)

Open(s) ==
    /\ pc[s] = "down"
    /\ pc' = [pc EXCEPT ![s] = "migrate"]
    /\ have' = [have EXCEPT ![s] = columns]
    /\ UNCHANGED <<attr, rec, row, columns, snap, hand, op>>

(* _migrate adds what it saw missing; another server may have added it in  *)
(* the meantime, and the duplicate is skipped.  The last statement is      *)
(* followed by the backfill's SELECT.                                      *)
Migrate(s) ==
    /\ pc[s] = "migrate"
    /\ IF have[s] = Columns
          THEN /\ pc' = [pc EXCEPT ![s] = "backfill"]
               /\ snap' = [snap EXCEPT ![s] = {r \in Runs : row[r] # NoRow /\ row[r].cols = "null"}]
               /\ UNCHANGED <<columns, have>>
          ELSE LET c == Min(Columns \ have[s])
               IN  /\ columns' = columns \cup {c}
                   /\ have' = [have EXCEPT ![s] = @ \cup {c}]
                   /\ UNCHANGED <<pc, snap>>
    /\ UNCHANGED <<attr, rec, row, hand, op>>

FromFile(r) == IF rec[r] = NoRec THEN "blank" ELSE "known"

(* Faulty: SET without COALESCE. *)
BackfillOverwrites(s) ==
    /\ pc[s] = "backfill"
    /\ row' = [r \in Runs |-> IF r \in snap[s] THEN [row[r] EXCEPT !.cols = FromFile(r)] ELSE row[r]]
    /\ pc' = [pc EXCEPT ![s] = "up"]
    /\ snap' = [snap EXCEPT ![s] = {}]
    /\ UNCHANGED <<attr, rec, columns, have, hand, op>>

(* _backfill, one transaction: a row whose run.json is gone gets "" and is *)
(* not selected again; COALESCE leaves alone what another server filled.   *)
Backfill(s) ==
    /\ pc[s] = "backfill"
    /\ row' = [r \in Runs |-> IF r \in snap[s] /\ row[r].cols = "null"
                              THEN [row[r] EXCEPT !.cols = FromFile(r)] ELSE row[r]]
    /\ pc' = [pc EXCEPT ![s] = "up"]
    /\ snap' = [snap EXCEPT ![s] = {}]
    /\ UNCHANGED <<attr, rec, columns, have, hand, op>>

(* The server dies, between two statements of its own. *)
Die(s) ==
    /\ pc[s] # "down"
    /\ pc' = [pc EXCEPT ![s] = "down"]
    /\ snap' = [snap EXCEPT ![s] = {}]
    /\ op' = [op EXCEPT ![s] = NoOp]
    /\ hand' = [hand EXCEPT ![s] = 0]
    /\ UNCHANGED <<attr, rec, row, columns, have>>

-----------------------------------------------------------------------------
(* Recording a run. *)

Idle(s) == pc[s] = "up" /\ op[s] = NoOp

(* _write_record (temporary file, then replace), and the row's turn next. *)
WriteRecord(s, r, state, summary) ==
    /\ rec' = [rec EXCEPT ![r] = [state |-> state, summary |-> summary]]
    /\ op' = [op EXCEPT ![s] = [run |-> r, row |-> [state |-> state, summary |-> summary, cols |-> "known"]]]
    /\ UNCHANGED row

Free(r) == rec[r] = NoRec /\ row[r] = NoRow

(* create_run, once validate_provenance has accepted both sha256s: a new   *)
(* directory, with what the run is made of.                                *)
CreateRun(s) ==
    /\ Idle(s) /\ hand[s] = 0
    /\ \E r \in Runs, a \in Attributes :
           /\ Free(r) /\ \A q \in Runs : Free(q) => r <= q
           /\ hand' = [hand EXCEPT ![s] = r]
           /\ attr' = [attr EXCEPT ![r] = a]
           /\ WriteRecord(s, r, "created", "none")
    /\ UNCHANGED opening

(* set_state, for the run this server has in hand. *)
SetState(s) ==
    /\ Idle(s) /\ hand[s] # 0
    /\ rec[hand[s]].state = "created"
    /\ WriteRecord(s, hand[s], "running", "none")
    /\ UNCHANGED <<attr, opening, hand>>

(* finish_run: a done run has a summary, with or without errors in it, and *)
(* perhaps without the metric.  A run may fail or be aborted before it was *)
(* ever running.                                                           *)
FinishRun(s) ==
    /\ Idle(s) /\ hand[s] # 0
    /\ \/ \E summary \in {"none", "clean", "errors"} :
             rec[hand[s]].state = "running" /\ WriteRecord(s, hand[s], "done", summary)
       \/ WriteRecord(s, hand[s], "failed", "none")
    /\ hand' = [hand EXCEPT ![s] = 0]
    /\ UNCHANGED <<attr, opening>>

(* INSERT or UPDATE, and commit. *)
WriteRow(s) ==
    /\ pc[s] = "up" /\ op[s] # NoOp
    /\ row' = [row EXCEPT ![op[s].run] =
                  IF @ = NoRow THEN op[s].row ELSE [op[s].row EXCEPT !.cols = row[op[s].run].cols]]
    /\ op' = [op EXCEPT ![s] = NoOp]
    /\ UNCHANGED <<attr, rec, opening, hand>>

(* The directory of a finished run is deleted to make room. *)
DeleteDirectory(r) ==
    /\ rec[r].state \in Terminal
    /\ \A s \in Servers : op[s].run # r
    /\ row[r].state \in Terminal
    /\ rec' = [rec EXCEPT ![r] = NoRec]
    /\ UNCHANGED <<attr, row, opening, hand, op>>

-----------------------------------------------------------------------------
(* compare_versions.  A group is the done runs of one version. *)

KeyOf(r) == attr[r].key
FifoOf(r) == attr[r].fifo
VersionOf(r) == IF row[r].cols = "known" THEN attr[r].ver ELSE "unknown"

(* list_runs and INCLUDED_STATES. *)
Done == {r \in Runs : row[r].state = "done"}
Group(v) == {r \in Done : VersionOf(r) = v}
GroupNames == {VersionOf(r) : r \in Done}

(* _build_group: runs without the metric are counted and left out. *)
Used(v) == {r \in Group(v) : row[r].summary # "none"}
GroupWarnings(v) ==
    LET mixes(f(_)) == Cardinality({f(r) : r \in Group(v)}) > 1
    IN  (IF mixes(KeyOf) \/ mixes(FifoOf) THEN {"confounded"} ELSE {})
        \cup (IF Cardinality(Used(v)) < 3 THEN {"few"} ELSE {})
        \cup (IF \E r \in Group(v) : row[r].summary = "errors" THEN {"errors"} ELSE {})
        \cup (IF Used(v) # Group(v) THEN {"missing"} ELSE {})

(* _cross_group_warnings. *)
CrossWarnings(vs) ==
    LET runs == UNION {Group(v) : v \in vs}
        keys == {KeyOf(r) : r \in runs}
        fifos == {FifoOf(r) : r \in runs}
    IN  IF Cardinality(vs) >= 2 /\ (Cardinality(keys) > 1 \/ Cardinality(fifos) > 1)
        THEN {"confounded"} ELSE {}

(* _fill_deltas gives every other group with a mean a delta if the         *)
(* baseline has one.                                                       *)
HasDelta(v, base) == v # base /\ Used(v) # {} /\ Used(base) # {}

Warnings(vs) == CrossWarnings(vs) \cup UNION {GroupWarnings(v) : v \in vs}

-----------------------------------------------------------------------------
(* A fresh store, or one from the build before the comparison: a v1 table  *)
(* with a finished run in it.                                              *)
Init ==
    /\ attr \in [Runs -> {CHOOSE a \in Attributes : TRUE}]
    /\ \/ rec = [r \in Runs |-> NoRec] /\ row = [r \in Runs |-> NoRow]
       \/ /\ rec = [r \in Runs |-> IF r = 1 THEN [state |-> "done", summary |-> "clean"] ELSE NoRec]
          /\ row = [r \in Runs |-> IF r = 1 THEN [state |-> "done", summary |-> "clean", cols |-> "null"] ELSE NoRow]
    /\ columns = {}
    /\ pc = [s \in Servers |-> "down"]
    /\ have = [s \in Servers |-> {}]
    /\ snap = [s \in Servers |-> {}]
    /\ hand = [s \in Servers |-> 0]
    /\ op = [s \in Servers |-> NoOp]

Next ==
    \/ \E s \in Servers : Open(s) \/ Migrate(s) \/ Backfill(s) \/ Die(s)
    \/ \E s \in Servers : CreateRun(s) \/ SetState(s) \/ FinishRun(s) \/ WriteRow(s)
    \/ \E r \in Runs : DeleteDirectory(r)

Spec == Init /\ [][Next]_vars

-----------------------------------------------------------------------------
(* Properties. *)

(* finish_run writes run.json before the row: whenever a server dies, what *)
(* the index says of a finished run is what its record says, as long as    *)
(* the directory is there.                                                 *)
IndexFollowsRecord ==
    \A r \in Runs : row[r].state \in Terminal /\ rec[r] # NoRec
                    => rec[r] = [state |-> row[r].state, summary |-> row[r].summary]

(* _backfill of two servers, with a directory deleted between their two    *)
(* transactions: what one has learnt of a run is never blanked by the      *)
(* other.                                                                  *)
ColumnsKept == \A r \in Runs : row[r].cols = "known" => row'[r].cols = "known"

(* compare.py: "anything that would make the numbers non-comparable is     *)
(* stated": when a delta is given, of whatever selection of versions and   *)
(* against whatever baseline, and the runs on its two sides do not all     *)
(* share params and FIFO build, a warning says CONFOUNDED.                 *)
ConfoundSaid ==
    \A vs \in SUBSET GroupNames : \A v, base \in vs :
        /\ HasDelta(v, base)
        /\ \E r, q \in Used(v) \cup Used(base) : attr[r].key # attr[q].key \/ attr[r].fifo # attr[q].fifo
        => "confounded" \in Warnings(vs)

-----------------------------------------------------------------------------
(* Why the index follows the records. *)

TypeOK ==
    /\ DOMAIN rec = Runs /\ DOMAIN row = Runs
    /\ \A r \in Runs : DOMAIN rec[r] = DOMAIN NoRec /\ DOMAIN row[r] = DOMAIN NoRow
    /\ DOMAIN hand = Servers /\ DOMAIN op = Servers
    /\ \A s \in Servers : hand[s] \in Runs \cup {0}

(* A row that is still to be written says what its record says. *)
Pending(s) ==
    op[s] = NoOp \/ /\ op[s].run \in Runs /\ rec[op[s].run] # NoRec
                    /\ DOMAIN op[s].row = DOMAIN NoRow
                    /\ rec[op[s].run] = [state |-> op[s].row.state, summary |-> op[s].row.summary]

(* A run in hand is not finished, in its record or in its row, and nobody  *)
(* else writes either.                                                     *)
InHand(s) ==
    hand[s] # 0 =>
        /\ rec[hand[s]].state \in {"created", "running"}
        /\ row[hand[s]].state \notin Terminal
        /\ \A t \in Servers \ {s} : hand[t] # hand[s] /\ op[t].run # hand[s]

OneWriter == \A s, t \in Servers : s # t => op[s] = NoOp \/ op[s].run # op[t].run

IInv ==
    /\ TypeOK /\ IndexFollowsRecord /\ OneWriter
    /\ \A s \in Servers : Pending(s) /\ InHand(s)
=============================================================================
