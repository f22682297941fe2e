--------------------------- MODULE MC_StressTest ---------------------------
(* run_stress_test scaled down.  The code runs user787 with 12 calls on 6  *)
(* workers, then 5 more on 2 workers, then user888 with 4; here the        *)
(* per-user limit is 1 so two concurrent calls already cross it.          *)
EXTENDS StressTest

CONSTANTS ua, p1, p2, p3, p0

MCUsers == {ua}

(* Test 1 and Test 2 of run_stress_test: a burst, then more calls from     *)
(* the same user once the first ones may have ended.                       *)
MCPhases == << [user |-> ua, calls |-> 2, workers |-> 2],
               [user |-> ua, calls |-> 1, workers |-> 1] >>

(* Test 1 and Test 2 with one call each: the second call meets whatever   *)
(* the first left on the B2BUA.                                            *)
MCTwoPhases == << [user |-> ua, calls |-> 1, workers |-> 1],
                  [user |-> ua, calls |-> 1, workers |-> 1] >>

(* Test 1 alone: two concurrent calls on two worker threads.               *)
MCBurst == << [user |-> ua, calls |-> 2, workers |-> 2] >>

MCPorts == {p1, p2, p3}

(* Two ports for two workers: the OS may hand a port out again. *)
MCFewPorts == {p1, p2}
=============================================================================
