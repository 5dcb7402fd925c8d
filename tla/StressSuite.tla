---------------------------- MODULE StressSuite ----------------------------
(***************************************************************************)
(* The bridge stress suite of pynq_host/stress: runner.py on one board     *)
(* (with the test bodies of bridge_tests.py) and peer_agent.py on the      *)
(* other, joined by a JSON-lines RPC over an ssh pipe.                     *)
(*                                                                         *)
(* A test body is the sequence of its local accesses and RPCs.  Every      *)
(* local access may find what it expects, find something else, or raise;   *)
(* every RPC may be answered, answered with an error, or end in EOF.  The  *)
(* test's alarm can go off between any two of them, and so can SIGTERM.    *)
(* What is on the pipe when a call is abandoned stays there.               *)
(***************************************************************************)
EXTENDS Naturals, Sequences

CONSTANTS
    Lanes,      \* the lane-mask test walks 1..Lanes
    MaxTests    \* bound: tests named on the command line

full_mask == 0          \* mask k > 0 is the full mask without lane k
Idle == [id |-> 0, meth |-> "none", arg |-> 0]

local(what) == [side |-> "local", meth |-> what, arg |-> 0]
peer(meth) == [side |-> "peer", meth |-> meth, arg |-> 0]
mask(side, k) == [side |-> side, meth |-> "mask", arg |-> k]

lane_walk(k) ==
    << mask("local", k), mask("peer", k), local("mask_read"), peer("mask_read"),
       local("probe"), peer("probe") >>

(* The bodies of bridge_tests.py. *)
smoke_pair_alive == << local("credits"), peer("credits"), local("doorbell"), peer("mmio_read") >>

sync_pair ==
    << peer("mmio_read"), local("write"), local("read"), peer("mmio_read"), local("credits"), peer("credits") >>

bidirectional ==
    << peer("mmio_write"), local("write"), peer("mmio_write"), local("read"), peer("mmio_read"), peer("credits") >>

credit_exhaustion == << local("write"), local("credits"), local("read"), peer("credits") >>

doorbell_handshake ==
    << peer("mmio_read"), local("doorbell"), peer("mmio_read"), peer("mmio_write"), peer("idle"),
       local("doorbell"), peer("credits") >>

(* Any of the ten that return False at once. *)
stub == << local("todo") >>

lane_mask_burnt_lane ==
    [i \in 1..(6 * Lanes) |-> lane_walk(1 + ((i - 1) \div 6))[1 + ((i - 1) % 6)]]
    \o << mask("local", full_mask), mask("peer", full_mask) >>

ptp_sync == << local("todo") >>

Body == [ smoke |-> smoke_pair_alive, sync |-> sync_pair, bidirectional |-> bidirectional,
          exhaustion |-> credit_exhaustion, doorbell |-> doorbell_handshake, stub |-> stub,
          lanes |-> lane_mask_burnt_lane, ptp_sync |-> ptp_sync ]

Tests == DOMAIN Body
Tags(t) == CASE t = "ptp_sync" -> {"pair", "skip"} [] t = "stub" -> {"solo", "pair"} [] OTHER -> {"pair"}

(* Where the body goes on after an exception at op i: the probe of a lane  *)
(* is caught and the walk goes on with the next one, anything else in the  *)
(* walk leads to the finally clause, and elsewhere the test ends (0).      *)
Handler(t, i) ==
    IF t # "lanes" \/ i > 6 * Lanes THEN 0
    ELSE IF (i - 1) % 6 >= 4 THEN 1 + (6 * (1 + ((i - 1) \div 6)))
    ELSE 6 * Lanes + 1

VARIABLES
    opt,       \* the command line: mode, fail_fast, run_skipped, and the tests selected
    queue,     \* the selected tests not started yet
    test, at,  \* the running test and its next op, "none" between tests
    errs,      \* the running test has appended an error
    raised,    \* an exception is on its way through the finally clause: "no", "error", "term"
    alarm,     \* "off", "armed", "spent"
    next_id, waiting,  \* the RPC client: the next id, the call it is in
    asked, answers,    \* the two directions of the pipe
    agent,     \* "none", "up", "gone"
    masks,     \* the lane mask of each side
    taken,     \* the call last answered and what it was answered with
    records,   \* what was recorded for each test
    exit       \* 99 while running

vars == <<opt, queue, test, at, errs, raised, alarm, next_id, waiting, asked, answers, agent, masks,
          taken, records, exit>>

Running == 99
rpc == <<next_id, waiting, asked, answers, agent, taken>>
Op == Body[test][at]
Busy == exit = Running /\ test # "none"

-----------------------------------------------------------------------------
(* main: selection, overlay, peer. *)

candidate_ids ==
    {t \in Tests : opt.mode \in Tags(t) /\ (opt.run_skipped \/ "skip" \notin Tags(t))}

(* opt.tests is what the filter leaves of the command line: a test that is *)
(* named but does not fit the mode is dropped without a word, so there may *)
(* be none left.                                                           *)
Init ==
    /\ opt \in [mode : {"solo", "pair"}, fail_fast : BOOLEAN, run_skipped : BOOLEAN,
                tests : UNION {[1..n -> Tests] : n \in 0..MaxTests}]
    /\ \A i \in DOMAIN opt.tests : opt.tests[i] \in candidate_ids
    /\ queue = opt.tests
    /\ test = "none" /\ at = 0 /\ errs = FALSE /\ raised = "no" /\ alarm = "off"
    /\ next_id = 1 /\ waiting = Idle /\ asked = << >> /\ answers = << >> /\ agent = "none"
    /\ masks = [s \in {"local", "peer"} |-> full_mask]
    /\ taken = [want |-> Idle, got |-> Idle]
    /\ records = [t \in Tests |-> "none"]
    /\ exit = Running

(* An empty selection is green.  The overlay loads or the run ends with 2; *)
(* in pair mode the agent is spawned, and the runner goes on whether or    *)
(* not it said ready.                                                      *)
Start ==
    /\ exit = Running /\ test = "none" /\ agent = "none" /\ records = [t \in Tests |-> "none"]
    /\ \/ queue = << >> /\ agent' = "none" /\ exit' = 0
       \/ queue # << >> /\ opt.mode = "pair" /\ agent' \in {"up", "gone"} /\ exit' = Running
       \/ queue # << >> /\ agent' = "none" /\ exit' = 2
    /\ UNCHANGED <<opt, queue, test, at, errs, raised, alarm, next_id, waiting, asked, answers, masks,
                   taken, records>>

Ready == exit = Running /\ test = "none" /\ raised = "no" /\ (opt.mode = "pair" => agent # "none")

(* peer.close() and the end of the runner close the agent's stdin. *)
Leave(code) ==
    /\ exit' = code
    /\ agent' = IF agent = "up" THEN "gone" ELSE agent

overall_ok == \A t \in Tests : records[t] # "fail"

Finish ==
    /\ Ready
    /\ queue = << >> \/ (opt.fail_fast /\ ~overall_ok)
    /\ Leave(IF overall_ok THEN 0 ELSE 1)
    /\ UNCHANGED <<opt, queue, test, at, errs, raised, alarm, next_id, waiting, asked, answers, masks,
                   taken, records>>

(* _run_test. *)
Begin ==
    /\ Ready /\ queue # << >>
    /\ opt.fail_fast => overall_ok
    /\ queue' = Tail(queue)
    /\ IF "skip" \in Tags(Head(queue))
          THEN /\ records' = [records EXCEPT ![Head(queue)] = IF @ = "fail" THEN @ ELSE "skip"]
               /\ UNCHANGED <<test, at, errs, alarm>>
          ELSE test' = Head(queue) /\ at' = 1 /\ errs' = FALSE /\ alarm' = "armed" /\ UNCHANGED records
    /\ UNCHANGED <<opt, raised, rpc, masks, exit>>

-----------------------------------------------------------------------------
(* The body. *)

(* What is recorded.  A test named twice keeps its worst record, as        *)
(* overall_ok does.                                                        *)
Record(ok) ==
    records' = [records EXCEPT ![test] = IF ok /\ @ # "fail" THEN "ok" ELSE "fail"]

EndTest(ok) == Record(ok) /\ test' = "none" /\ at' = 0 /\ alarm' = "off" /\ raised' = "no"

(* After op `at`: the next one, or the end.  An exception that the finally *)
(* clause held up goes on at its end.                                      *)
Advance(err) ==
    /\ errs' = (errs \/ err)
    /\ IF at < Len(Body[test])
          THEN at' = at + 1 /\ UNCHANGED <<test, alarm, raised, records, exit, agent>>
          ELSE IF raised = "term"
                 THEN /\ Leave(130)
                      /\ UNCHANGED <<test, at, alarm, raised, records>>
                 ELSE EndTest(~errs' /\ raised = "no") /\ UNCHANGED <<exit, agent>>

(* SystemExit is no Exception: it runs the finally clause of the walk, and *)
(* main's.  An Exception in the probe, the alarm's among them, is an error *)
(* of that lane; one in the finally clause replaces what it was holding up. *)
Raise(what) ==
    LET h == Handler(test, at)
        f == IF test = "lanes" /\ at <= 6 * Lanes THEN 6 * Lanes + 1 ELSE 0
    IN  IF what = "term"
          THEN IF f = 0
                 THEN Leave(130) /\ UNCHANGED <<test, at, errs, alarm, raised, records>>
                 ELSE at' = f /\ raised' = "term" /\ UNCHANGED <<test, errs, alarm, records, exit, agent>>
          ELSE IF h = 0
                 THEN EndTest(FALSE) /\ UNCHANGED <<errs, exit, agent>>
                 ELSE /\ at' = h
                      /\ errs' = TRUE
                      /\ raised' = IF h = 6 * Lanes + 1 /\ (at - 1) % 6 < 4 THEN "error" ELSE raised
                      /\ UNCHANGED <<test, alarm, records, exit, agent>>

(* TidelinkHw: a local access finds what it should, something else, or     *)
(* raises (the link is not safe for TX, the returner stays busy).          *)
LocalOp ==
    /\ Busy /\ waiting = Idle /\ Op.side = "local" /\ Op.meth # "mask"
    /\ \/ Advance(FALSE) /\ Op.meth # "todo"
       \/ Op.meth # "mask_read" /\ Advance(TRUE)
       \/ Op.meth \in {"doorbell", "write", "read", "probe"} /\ Raise("error")
    /\ UNCHANGED <<opt, queue, next_id, waiting, asked, answers, masks, taken>>

(* _write_mask_both, local half. *)
MaskLocal ==
    /\ Busy /\ waiting = Idle /\ Op.side = "local" /\ Op.meth = "mask"
    /\ masks' = [masks EXCEPT !["local"] = Op.arg]
    /\ Advance(FALSE)
    /\ UNCHANGED <<opt, queue, next_id, waiting, asked, answers, taken>>

(* PeerProxy.call: the request goes out; a pipe to an agent that has gone  *)
(* raises.                                                                 *)
Call ==
    /\ Busy /\ waiting = Idle /\ Op.side = "peer"
    /\ LET req == [id |-> next_id, meth |-> Op.meth, arg |-> Op.arg]
       IN  IF agent = "up"
             THEN /\ asked' = Append(asked, req) /\ waiting' = req /\ next_id' = next_id + 1
                  /\ UNCHANGED <<test, at, errs, alarm, raised, records, exit, agent>>
             ELSE Raise("error") /\ next_id' = next_id + 1 /\ UNCHANGED <<asked, waiting>>
    /\ UNCHANGED <<opt, queue, answers, masks, taken>>

(* peer_agent: one request after the other, each answered under its id. *)
AgentServe ==
    /\ agent = "up" /\ asked # << >>
    /\ LET req == Head(asked)
       IN  /\ \E err \in BOOLEAN :
                /\ answers' = Append(answers, [req EXCEPT !.arg = IF err THEN 1 ELSE 0])
                /\ masks' = IF req.meth = "mask" /\ ~err THEN [masks EXCEPT !["peer"] = req.arg] ELSE masks
           /\ asked' = Tail(asked)
    /\ UNCHANGED <<opt, queue, test, at, errs, raised, alarm, next_id, waiting, agent, taken, records, exit>>

AgentDies ==
    /\ agent = "up" /\ agent' = "gone" /\ asked' = << >>
    /\ UNCHANGED <<opt, queue, test, at, errs, raised, alarm, next_id, waiting, answers, masks, taken,
                   records, exit>>

(* Faulty: the first line is taken for the answer. *)
Mine_any(answer) == TRUE

Mine(answer) == answer.id = waiting.id

(* The call reads the next line of the pipe.  A probe's packet may differ, *)
(* other values may be unexpected; an error raises.  Its limit of 50 lines *)
(* is out of reach: a test leaves at most one answer on the pipe, that of  *)
(* the call its alarm cut off.                                             *)
Answer ==
    /\ Busy /\ waiting # Idle /\ answers # << >>
    /\ answers' = Tail(answers)
    /\ IF Mine(Head(answers))
          THEN /\ waiting' = Idle
               /\ taken' = [want |-> waiting, got |-> Head(answers)]
               /\ IF Head(answers).arg = 1 THEN Raise("error")
                  ELSE \/ Advance(FALSE)
                       \/ Op.meth \notin {"mask", "mask_read"} /\ Advance(TRUE)
                       \/ /\ Op.meth = "mask_read"     \* readback mismatch: next lane
                          /\ at' = at + 3 /\ errs' = TRUE
                          /\ UNCHANGED <<test, alarm, raised, records, exit, agent>>
          ELSE UNCHANGED <<waiting, taken, test, at, errs, alarm, raised, records, exit, agent>>
    /\ UNCHANGED <<opt, queue, next_id, asked, masks>>

(* EOF on the pipe of an agent that has gone. *)
Eof ==
    /\ Busy /\ waiting # Idle /\ answers = << >> /\ agent = "gone"
    /\ waiting' = Idle
    /\ Raise("error")
    /\ UNCHANGED <<opt, queue, next_id, asked, answers, masks, taken>>

(* The alarm of _run_test raises _TestTimeout wherever the body is, the    *)
(* finally clause included, once.                                          *)
Alarm ==
    /\ Busy /\ alarm = "armed"
    /\ waiting' = Idle
    /\ IF Handler(test, at) = 0
          THEN EndTest(FALSE) /\ UNCHANGED <<errs, exit, agent>>
          ELSE /\ alarm' = "spent" /\ at' = Handler(test, at) /\ errs' = TRUE
               /\ raised' = IF (at - 1) % 6 < 4 THEN "error" ELSE raised
               /\ UNCHANGED <<test, records, exit, agent>>
    /\ UNCHANGED <<opt, queue, next_id, asked, answers, masks, taken>>

(* fpgahub revokes the lease. *)
Term ==
    /\ Ready \/ Busy
    /\ waiting' = Idle
    /\ IF Busy THEN Raise("term") ELSE Leave(130) /\ UNCHANGED <<test, at, errs, alarm, raised, records>>
    /\ UNCHANGED <<opt, queue, next_id, asked, answers, masks, taken>>

Next ==
    \/ Start \/ Begin \/ Finish
    \/ LocalOp \/ MaskLocal \/ Call \/ Answer \/ Eof
    \/ AgentServe \/ AgentDies \/ Alarm \/ Term

Spec == Init /\ [][Next]_vars

-----------------------------------------------------------------------------
(* An answer PeerProxy.call returns is the agent's answer to that very     *)
(* call: answers left on the pipe by calls that the alarm cut off are      *)
(* never taken for it.                                                     *)
AnswersMatch == taken.got.id = taken.want.id /\ taken.got.meth = taken.want.meth

(* Exit code 0 means that every selected test that is not tagged skip ran  *)
(* and passed, and that both dies are back at the full lane mask.  A test  *)
(* tagged skip is not run even with --run-skipped, which only selects it.  *)
GreenIsClean ==
    exit = 0 =>
        /\ \A i \in DOMAIN opt.tests : "skip" \notin Tags(opt.tests[i]) => records[opt.tests[i]] = "ok"
        /\ \A s \in {"local", "peer"} : masks[s] = full_mask

(* The inductive invariant of AnswersMatch: every request and every answer *)
(* on the pipe was given an id by this client, and one with the id of the  *)
(* call that waits is for the method of that call.                         *)
IsPipe(s) == s \in Seq({s[k] : k \in DOMAIN s})
Fits(m) ==
    /\ DOMAIN m = {"id", "meth", "arg"}
    /\ m.id \in 1..(next_id - 1)
    /\ m.id = waiting.id => m.meth = waiting.meth

TypeOK ==
    /\ next_id \in Nat /\ next_id > 0
    /\ waiting.id \in 0..(next_id - 1)
    /\ IsPipe(asked) /\ IsPipe(answers)

IInv ==
    /\ TypeOK /\ AnswersMatch
    /\ \A k \in DOMAIN asked : Fits(asked[k])
    /\ \A k \in DOMAIN answers : Fits(answers[k])

(* The inductive invariant of GreenIsClean.  A selected test is recorded,  *)
(* runs or is still to come; outside the lane walk, unless it has failed,  *)
(* both masks are full and no request on the pipe changes one; the walk's  *)
(* last call finds the local mask full, and its answer the peer's.         *)
Verdicts == {"none", "ok", "fail", "skip"}
Last == 6 * Lanes + 2

Placed ==
    /\ test \in Tests \cup {"none"}
    /\ test # "none" => at \in 1..Len(Body[test])
    /\ queue \in Seq(Tests)
    /\ \A k \in DOMAIN opt.tests : opt.tests[k] \in Tests
    /\ records \in [Tests -> Verdicts]
    /\ DOMAIN masks = {"local", "peer"}

Accounted ==
    \A k \in DOMAIN opt.tests : "skip" \notin Tags(opt.tests[k]) =>
        \/ records[opt.tests[k]] \in {"ok", "fail"}
        \/ test = opt.tests[k]
        \/ \E q \in DOMAIN queue : queue[q] = opt.tests[k]

Calling ==
    /\ waiting # Idle => test # "none" /\ Op.side = "peer" /\ waiting.meth = Op.meth /\ waiting.arg = Op.arg
    /\ \A k \in DOMAIN asked : asked[k].id = waiting.id => k = Len(asked) /\ asked[k] = waiting
    /\ \A k \in DOMAIN answers : answers[k].id = waiting.id =>
         asked = << >> /\ (waiting.meth = "mask" /\ answers[k].arg # 1 => masks["peer"] = waiting.arg)

Unmasked ==
    /\ masks["local"] = full_mask /\ masks["peer"] = full_mask
    /\ \A k \in DOMAIN asked : asked[k].meth # "mask"
LanesKept ==
    /\ test # "lanes" /\ records["lanes"] # "fail" => Unmasked
    /\ test = "lanes" /\ at = Last => masks["local"] = full_mask

CleanInv ==
    /\ Placed /\ Accounted /\ Calling /\ LanesKept /\ GreenIsClean
    /\ exit # Running => agent # "up"

=============================================================================
