------------------------------- MODULE SysVal -------------------------------
(***************************************************************************)
(* The system-level validation of the KR260 pair: kr260_sysval.py on the   *)
(* development host, eth_sysval_board.py on the boards.  The host runs     *)
(* T1, T2, T2b, T3, T10 and T6 in this order; every board call is an ssh   *)
(* command that can be cut, hang, crash or run, and is retried only when   *)
(* it never reached the board.                                             *)
(*                                                                         *)
(* A step is one attempt of one board call with what the host does with    *)
(* its answer.  A word of die B's SRAM is the pair of the test whose       *)
(* pattern it carries and the offset added to that pattern's base.         *)
(***************************************************************************)
EXTENDS Naturals

CONSTANTS
    Only,          \* --only: the tests that are run
    SSH_RETRIES,   \* attempts of a call that does not reach the board
    SOAK_N,        \* words of T3
    READ_N, CHUNK, \* words of T10, and how many one call reads
    Beats, STEP    \* values of SYSVAL_ENDUR_BEATS, and how many words one call of T6 writes

least(a, b) == IF a < b THEN a ELSE b

CANARY_N == 1
Words == 0..(SOAK_N + STEP)
Tests == {"T1", "T2", "T2b", "T3", "T10", "T6"}
Running == 99

VARIABLES
    pc,       \* the call the host makes next
    tries,    \* attempts of this call that did not reach the board
    at,       \* words of T10 or T6 done so far
    sram,     \* die B's landing words
    link,     \* "up", "wedged", or "down" after a power-on reset
    results,  \* RESULTS: verdict and kind by test
    exit,     \* the exit code, Running before
    trouble,  \* what has gone wrong so far: "net", "late", "board", "hw"
    dropped,  \* tests of whose words the hardware lost one
    ENDUR_BEATS   \* words of T6, an option

vars == <<pc, tries, at, sram, link, results, exit, trouble, dropped, ENDUR_BEATS>>

(* Ways an attempt ends.  Without an answer: the board script crashed or   *)
(* hung, ssh was cut off with its code 255, or with another code and a     *)
(* message of _TRANSPORT_RE.  Late: the connection broke after the board   *)
(* printed its marker and before its exit code arrived.                    *)
Events == {"ran", "crash", "hang", "cut", "message", "late"}

(* The exit code the host sees; good is what the board script decided. *)
Rc(ev, good) ==
    CASE ev = "ran"   -> IF good THEN 0 ELSE 1
      [] ev \in {"crash", "message"} -> 1
      [] ev = "hang"  -> 124
      [] OTHER        -> 255

Marker(ev) == ev \in {"ran", "late"}

(* _TRANSPORT_RE.search(err) *)
Message(ev) == ev = "message"

(* Faulty: an exit code other than 0 and 124 means the command ran. *)
classify_255(rc, marker, message) ==
    IF rc = 124 THEN "TIMEOUT" ELSE IF rc = 0 THEN "OK" ELSE "RAN"

classify(rc, marker, message) ==
    IF rc = 124 THEN "TIMEOUT"
    ELSE IF rc = 0 THEN "OK"
    ELSE IF ~marker /\ (rc = 255 \/ message) THEN "TRANSPORT_ERROR"
    ELSE "RAN"

Blame(ev) ==
    CASE ev = "ran" -> {} [] ev = "crash" -> {"board"} [] ev = "hang" -> {"hw"}
      [] ev = "late" -> {"late"} [] OTHER -> {"net"}

-----------------------------------------------------------------------------
(* Outcomes. *)

Record(t, v, k) == results' = [results EXCEPT ![t] = [v |-> v, k |-> k]]

(* The call of the next test that is wanted, "summary" after the last. *)
Order == <<"T1", "T2", "T2b", "T3", "T10", "T6">>

FirstCall == [T1 |-> "hash", T2 |-> "probe", T2b |-> "canary", T3 |-> "write",
              T10 |-> "read", T6 |-> "gate"]

After(n) ==
    LET rest == {i \in (n + 1)..6 : Order[i] \in Only}
    IN  IF rest = {} THEN "summary" ELSE FirstCall[Order[CHOOSE i \in rest : \A j \in rest : i <= j]]

Goto(place) == pc' = place /\ tries' = 0 /\ at' = 0

(* _summary(2): what has run so far is reported. *)
Stop == Goto("over") /\ exit' = 2

Advance(n) == Goto(After(n)) /\ UNCHANGED exit

por_die_a == link' = "down"

(* The attempt counts as the call's answer unless it is retried. *)
Settled(kind) == kind # "TRANSPORT_ERROR" \/ tries = SSH_RETRIES - 1

(* An access over the link returns only while the link is up. *)
PeerEvents == IF link = "up" THEN Events ELSE {"hang", "cut", "message"}

-----------------------------------------------------------------------------
(* eth_sysval_board.py. *)

(* write N BASE: words 0..n-1 get the pattern from off on, except the ones *)
(* the hardware loses; a cut command may have run; one that hangs has      *)
(* written some and leaves the link wedged.                                *)
BoardWrite(t, n, off, ev) ==
    \E landed \in SUBSET (0..(n - 1)) :
        /\ ev = "crash" => landed = {}
        /\ sram' = [w \in Words |-> IF w \in landed THEN <<t, off + w>> ELSE sram[w]]
        /\ link' = IF ev = "hang" THEN "wedged" ELSE link
        /\ LET lossy == Marker(ev) /\ \E w \in 0..(n - 1) : sram'[w] # <<t, off + w>>
           IN  /\ dropped' = IF lossy THEN dropped \cup {t} ELSE dropped
               /\ trouble' = trouble \cup Blame(ev) \cup (IF lossy THEN {"hw"} ELSE {})

(* verify N BASE reads die B's words locally; *)
Verifies(t, n) == \A w \in 0..(n - 1) : sram[w] = <<t, w>>

(* read_chunk reads them over the link. *)
ReadsRight(t, from, n) == \A w \in from..(from + n - 1) : sram[w] = <<t, w>>

-----------------------------------------------------------------------------
(* A call that does not reach the board is tried again.  A write may have  *)
(* taken effect all the same.                                              *)
Writing == [canary |-> [t |-> "T2b", n |-> CANARY_N, off |-> 0],
            write  |-> [t |-> "T3", n |-> SOAK_N, off |-> 0],
            endure |-> [t |-> "T6", n |-> least(STEP, ENDUR_BEATS - at), off |-> at]]

Retry ==
    /\ pc \in {"hash", "probe", "canary", "canary_verify", "write", "verify", "read", "read_obs",
               "gate", "endure", "endure_obs", "endure_verify"}
    /\ tries < SSH_RETRIES - 1
    /\ tries' = tries + 1
    /\ IF pc \in DOMAIN Writing
          THEN BoardWrite(Writing[pc].t, Writing[pc].n, Writing[pc].off, "cut")
          ELSE UNCHANGED <<sram, link, dropped>> /\ trouble' = trouble \cup {"net"}
    /\ UNCHANGED <<pc, at, results, exit>>

Quiet == UNCHANGED <<sram, dropped>>

(* T1 reads the hash of the board script on both dies; either can be out   *)
(* of reach, and either can be another than the repository's.              *)
t1_provenance ==
    /\ pc = "hash"
    /\ \E ev \in Events \ {"late"}, same \in BOOLEAN :
        LET kind == classify(Rc(ev, TRUE), FALSE, Message(ev))
        IN  /\ Settled(kind)
            /\ trouble' = trouble \cup Blame(ev) \cup (IF ev = "ran" /\ ~same THEN {"board"} ELSE {})
            /\ IF ev # "ran" THEN Record("T1", "INCONCLUSIVE", "TRANSPORT_ERROR")
               ELSE Record("T1", IF same THEN "PASS" ELSE "FAIL", "none")
    /\ Advance(1) /\ Quiet /\ UNCHANGED link

(* An observation finds the link as it is now; the hardware may have       *)
(* latched a fault since the last one.                                     *)
Seen == IF link = "up" THEN {"up", "wedged"} ELSE {link}

Observe(ev, now) == trouble' = trouble \cup Blame(ev) \cup (IF now # link THEN {"hw"} ELSE {})

(* Without a line of JSON there is no health. *)
healthy(ev, now) == Marker(ev) /\ now = "up"

t2_obs_probe ==
    /\ pc = "probe"
    /\ \E ev \in Events, now \in Seen :
        LET kind == classify(Rc(ev, TRUE), Marker(ev), Message(ev))
        IN  /\ Settled(kind)
            /\ Observe(ev, now) /\ link' = now
            /\ IF ~Marker(ev) THEN Record("T2", "INCONCLUSIVE", kind)
               ELSE Record("T2", IF healthy(ev, now) THEN "PASS" ELSE "FAIL", "none")
            /\ IF healthy(ev, now) THEN Advance(2) ELSE Stop
    /\ Quiet

t2b_canary ==
    /\ pc = "canary"
    /\ \E ev \in PeerEvents :
        LET kind == classify(Rc(ev, TRUE), Marker(ev), Message(ev))
        IN  /\ Settled(kind)
            /\ IF kind = "TRANSPORT_ERROR"
                  THEN BoardWrite("T2b", CANARY_N, 0, ev) /\ Record("T2b", "INCONCLUSIVE", kind) /\ Stop
               ELSE IF kind = "TIMEOUT" \/ ~Marker(ev)
                  THEN /\ \E landed \in SUBSET (0..(CANARY_N - 1)) :
                             sram' = [w \in Words |-> IF w \in landed THEN <<"T2b", w>> ELSE sram[w]]
                       /\ trouble' = trouble \cup Blame(ev) /\ UNCHANGED dropped
                       /\ por_die_a /\ Record("T2b", "FAIL", kind) /\ Stop
               ELSE /\ BoardWrite("T2b", CANARY_N, 0, ev)
                    /\ Goto("canary_verify") /\ UNCHANGED <<results, exit>>

(* The verdict is the exit code and the count, whatever came back. *)
t2b_verify ==
    /\ pc = "canary_verify"
    /\ \E ev \in Events :
        LET good == Verifies("T2b", CANARY_N)
            rc == Rc(ev, good)
            kind == classify(rc, Marker(ev), Message(ev))
        IN  /\ Settled(kind)
            /\ trouble' = trouble \cup Blame(ev)
            /\ IF kind = "TRANSPORT_ERROR"
                  THEN Record("T2b", "INCONCLUSIVE", kind) /\ Stop /\ UNCHANGED link
               ELSE IF rc = 0 THEN Record("T2b", "PASS", kind) /\ Advance(3) /\ UNCHANGED link
               ELSE Record("T2b", "FAIL", "DATA_MISMATCH") /\ por_die_a /\ Stop
    /\ Quiet

t3_write ==
    /\ pc = "write"
    /\ \E ev \in PeerEvents :
        LET kind == classify(Rc(ev, TRUE), Marker(ev), Message(ev))
        IN  /\ Settled(kind)
            /\ IF kind = "TIMEOUT"
                  THEN /\ \E landed \in SUBSET (0..(SOAK_N - 1)) :
                             sram' = [w \in Words |-> IF w \in landed THEN <<"T3", w>> ELSE sram[w]]
                       /\ trouble' = trouble \cup {"hw"} /\ UNCHANGED dropped
                       /\ por_die_a /\ Record("T3", "FAIL", kind) /\ Stop
                  ELSE /\ BoardWrite("T3", SOAK_N, 0, ev)
                       /\ IF kind = "TRANSPORT_ERROR" THEN Record("T3", "INCONCLUSIVE", kind) /\ Stop
                          ELSE IF kind # "OK" THEN Record("T3", "FAIL", "BOARD_ERROR") /\ Stop
                          ELSE Goto("verify") /\ UNCHANGED <<results, exit>>

t3_verify ==
    /\ pc = "verify"
    /\ \E ev \in Events :
        LET rc == Rc(ev, Verifies("T3", SOAK_N))
            kind == classify(rc, Marker(ev), Message(ev))
        IN  /\ Settled(kind)
            /\ trouble' = trouble \cup Blame(ev)
            /\ IF kind = "TRANSPORT_ERROR" THEN Record("T3", "INCONCLUSIVE", kind) /\ Stop
               ELSE IF ~Marker(ev) THEN Record("T3", "INCONCLUSIVE", "BOARD_ERROR") /\ Stop
               ELSE IF rc = 0 THEN Record("T3", "PASS", kind) /\ Advance(4)
               ELSE Record("T3", "FAIL", "DATA_MISMATCH") /\ Stop
    /\ Quiet /\ UNCHANGED link

(* T10 goes on to T6 whatever it finds. *)
t10_read_soak ==
    /\ pc = "read"
    /\ \E ev \in PeerEvents :
        LET rc == Rc(ev, ReadsRight("T3", at, least(CHUNK, READ_N - at)))
            kind == classify(rc, Marker(ev), Message(ev))
        IN  /\ Settled(kind)
            /\ trouble' = trouble \cup Blame(ev)
            /\ IF kind = "TRANSPORT_ERROR" THEN Record("T10", "INCONCLUSIVE", kind) /\ Advance(5) /\ UNCHANGED link
               ELSE IF kind = "TIMEOUT" THEN Record("T10", "FAIL", kind) /\ por_die_a /\ Advance(5)
               ELSE IF ~Marker(ev) THEN Record("T10", "INCONCLUSIVE", "BOARD_ERROR") /\ Advance(5) /\ UNCHANGED link
               ELSE IF rc # 0 THEN Record("T10", "FAIL", "DATA_MISMATCH") /\ Advance(5) /\ UNCHANGED link
               ELSE /\ pc' = "read_obs" /\ tries' = 0
                    /\ at' = at + least(CHUNK, READ_N - at)
                    /\ UNCHANGED <<results, exit, link>>
    /\ Quiet

t10_gate ==
    /\ pc = "read_obs"
    /\ \E ev \in Events, now \in Seen :
        LET kind == classify(Rc(ev, TRUE), Marker(ev), Message(ev))
        IN  /\ Settled(kind)
            /\ Observe(ev, now)
            /\ IF healthy(ev, now)
                  THEN /\ link' = now
                       /\ IF at < READ_N THEN pc' = "read" /\ tries' = 0 /\ UNCHANGED <<at, results, exit>>
                          ELSE Record("T10", "PASS", "none") /\ Advance(5)
               ELSE IF kind = "TRANSPORT_ERROR"
                  THEN link' = now /\ Record("T10", "INCONCLUSIVE", kind) /\ Advance(5)
               ELSE por_die_a /\ Record("T10", "FAIL", "none") /\ Advance(5)
    /\ Quiet

(* main: T6 only on a link that is seen to be healthy. *)
t6_gate ==
    /\ pc = "gate"
    /\ \E ev \in Events, now \in Seen :
        LET kind == classify(Rc(ev, TRUE), Marker(ev), Message(ev))
        IN  /\ Settled(kind)
            /\ Observe(ev, now) /\ link' = now
            /\ IF healthy(ev, now) THEN Goto("endure") /\ UNCHANGED <<results, exit>>
               ELSE Record("T6", "SKIPPED", "none") /\ Advance(6)
    /\ Quiet

(* Every chunk is written from the first landing word on. *)
t6_write ==
    /\ pc = "endure"
    /\ \E ev \in PeerEvents :
        LET n == least(STEP, ENDUR_BEATS - at)
            kind == classify(Rc(ev, TRUE), Marker(ev), Message(ev))
        IN  /\ Settled(kind)
            /\ IF kind = "TRANSPORT_ERROR"
                  THEN BoardWrite("T6", n, at, ev) /\ Record("T6", "INCONCLUSIVE", kind) /\ Advance(6)
               ELSE IF kind = "OK"
                  THEN /\ BoardWrite("T6", n, at, ev)
                       /\ pc' = "endure_obs" /\ tries' = 0 /\ UNCHANGED <<at, results, exit>>
               ELSE /\ \E landed \in SUBSET (0..(n - 1)) :
                          sram' = [w \in Words |-> IF w \in landed THEN <<"T6", at + w>> ELSE sram[w]]
                    /\ trouble' = trouble \cup Blame(ev) /\ UNCHANGED dropped
                    /\ por_die_a /\ Record("T6", "FAIL", kind) /\ Advance(6)

t6_obs ==
    /\ pc = "endure_obs"
    /\ \E ev \in Events, now \in Seen :
        LET n == least(STEP, ENDUR_BEATS - at)
            kind == classify(Rc(ev, TRUE), Marker(ev), Message(ev))
        IN  /\ Settled(kind)
            /\ Observe(ev, now)
            /\ IF healthy(ev, now)
                  THEN /\ link' = now
                       /\ at' = at + n /\ tries' = 0
                       /\ pc' = IF at + n < ENDUR_BEATS THEN "endure" ELSE "endure_verify"
                       /\ UNCHANGED <<results, exit>>
               ELSE IF kind = "TRANSPORT_ERROR"
                  THEN link' = now /\ Record("T6", "INCONCLUSIVE", kind) /\ Advance(6)
               ELSE por_die_a /\ Record("T6", "FAIL", "none") /\ Advance(6)
    /\ Quiet

(* Faulty: the answer of the final check is dropped. *)
verify_dropped(rc, kind, marker) == [v |-> "PASS", k |-> kind]

verify_verdict(rc, kind, marker) ==
    IF kind = "TRANSPORT_ERROR" THEN [v |-> "INCONCLUSIVE", k |-> kind]
    ELSE IF kind = "TIMEOUT" THEN [v |-> "FAIL", k |-> kind]
    ELSE IF ~marker THEN [v |-> "INCONCLUSIVE", k |-> "BOARD_ERROR"]
    ELSE IF rc = 0 THEN [v |-> "PASS", k |-> kind]
    ELSE [v |-> "FAIL", k |-> "DATA_MISMATCH"]

t6_verify ==
    /\ pc = "endure_verify"
    /\ \E ev \in Events :
        LET rc == Rc(ev, Verifies("T6", least(STEP, ENDUR_BEATS)))
            kind == classify(rc, Marker(ev), Message(ev))
            verdict == verify_verdict(rc, kind, Marker(ev))
        IN  /\ Settled(kind)
            /\ trouble' = trouble \cup Blame(ev)
            /\ Record("T6", verdict.v, verdict.k)
            /\ link' = IF verdict.v = "FAIL" /\ kind = "TIMEOUT" THEN "down" ELSE link
    /\ Advance(6) /\ Quiet

Has(v) == \E t \in Tests : results[t].v = v

_summary ==
    /\ pc = "summary"
    /\ pc' = "over"
    /\ exit' = IF Has("FAIL") THEN 1 ELSE IF Has("INCONCLUSIVE") THEN 3 ELSE 0
    /\ UNCHANGED <<tries, at, sram, link, results, trouble, dropped>>

Init ==
    /\ pc = After(0)
    /\ tries = 0 /\ at = 0
    /\ sram = [w \in Words |-> <<"old", w>>]
    /\ link = "up"
    /\ results = [t \in Tests |-> [v |-> "none", k |-> "none"]]
    /\ exit = Running
    /\ trouble = {} /\ dropped = {}
    /\ ENDUR_BEATS \in Beats

Next ==
    /\ \/ Retry
       \/ t1_provenance \/ t2_obs_probe \/ t2b_canary \/ t2b_verify
       \/ t3_write \/ t3_verify \/ t10_read_soak \/ t10_gate
       \/ t6_gate \/ t6_write \/ t6_obs \/ t6_verify
       \/ _summary
    /\ UNCHANGED ENDUR_BEATS

Spec == Init /\ [][Next]_vars

-----------------------------------------------------------------------------
(* Properties. *)

(* Tests whose check looks for words that its options left elsewhere: T10  *)
(* reads what T3 wrote, and every chunk of T6 is written over the words of *)
(* the first, which its final check reads.  With more than one chunk, as   *)
(* in the default of 2000 words by 256, T6 fails on a sound link and can   *)
(* pass only if the later chunks were lost: nothing is claimed of it.      *)
MisreadByOption ==
    {t \in {"T10", "T6"} : IF t = "T10" THEN "T3" \notin Only \/ READ_N > SOAK_N ELSE ENDUR_BEATS > STEP}

(* A run that met nothing but connections lost before the board's marker   *)
(* records no FAIL: the rule the transport repair introduced, over         *)
(* classify(), the retries and every test's own branches.  Exempt are the  *)
(* tests that fail by their options whatever the link does.                *)
NetIsNotAFault ==
    trouble \subseteq {"net"} => \A t \in Tests \ MisreadByOption : results[t].v # "FAIL"

(* The rule as the header of kr260_sysval.py states it: "rc=255 / ssh      *)
(* transport signatures are TRANSPORT_ERROR and can never be reported as a *)
(* data mismatch".  It does not hold of a connection that is lost between  *)
(* the marker and the exit code.                                           *)
NoMismatchFromTransport ==
    trouble \subseteq {"net", "late"} =>
        \A t \in Tests \ MisreadByOption : results[t].k # "DATA_MISMATCH"

(* A delivery test that passed lost none of its words on the way to die B. *)
PassIsDelivered ==
    \A t \in {"T2b", "T3", "T6"} \ MisreadByOption : results[t].v = "PASS" => t \notin dropped

(* The inductive invariant of NetIsNotAFault: while nothing but the net    *)
(* has failed, the link is up and the words the next check looks for are   *)
(* die B's, T3's for as long as T10 reads them.                            *)
TypeOK ==
    /\ results \in [Tests -> [v : {"none", "PASS", "FAIL", "INCONCLUSIVE", "SKIPPED"},
                              k : {"none", "OK", "RAN", "TIMEOUT", "TRANSPORT_ERROR", "BOARD_ERROR",
                                   "DATA_MISMATCH"}]]
    /\ pc \in {"read", "read_obs"} => at \in 0..READ_N
    /\ ENDUR_BEATS \in Nat
    /\ pc \in {"endure", "endure_obs"} /\ ENDUR_BEATS <= STEP => at = 0

Landed ==
    /\ pc = "canary_verify" => Verifies("T2b", CANARY_N)
    /\ pc = "verify" \/ (pc \in {"read", "read_obs"} /\ "T3" \in Only) => Verifies("T3", SOAK_N)
    /\ pc \in {"endure_obs", "endure_verify"} /\ ENDUR_BEATS <= STEP => Verifies("T6", least(STEP, ENDUR_BEATS))

IInv == TypeOK /\ NetIsNotAFault /\ (trouble \subseteq {"net"} => link = "up" /\ Landed)

=============================================================================
