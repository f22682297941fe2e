--------------------------- MODULE GrpcLimitTest ---------------------------
(***************************************************************************)
(* The sequential gRPC clients of the B2BUA's session limits:              *)
(*   verify      utilities/verify_session_limits.py                        *)
(*   same_user   testing/python/test_same_user_limits.py                   *)
(*   simple      utilities/simple_session_test.py                          *)
(*   distinct    testing/python/test_simple_session_limits.py              *)
(*   abort       testing/python/test_session_simple.py                     *)
(* Each calls InitiateCall NumCalls times, one call after the other,       *)
(* classifies each outcome, judges the run, then calls TerminateCall for   *)
(* every call id it was given.  The first three place every call for one  *)
(* user; the last two place call k for user 786+k.                         *)
(*                                                                         *)
(* The B2BUA side follows spec.md: InitiateCall runs TryAdmit for the      *)
(* caller (SessionLimits) and answers with a call id or an error whose     *)
(* details tell a limit rejection from a backend failure (section 7).  A  *)
(* call ends when TerminateCall asks, or when the callee hangs up; its     *)
(* ReleaseSession is retried until the counter store answers (4.2).        *)
(* Sessions of the tested user may be left over from earlier runs.  The   *)
(* gRPC channel may break during a call, before or after the server acts. *)
(***************************************************************************)
EXTENDS Naturals, Sequences, SequencesExt, FiniteSets

CONSTANTS
    Scripts,        \* the scripts a run may be (a subset of ScriptNames)
    Users,
    TestedUser,     \* user787
    NextUsers,      \* [call -> user]: user{i+787}, for distinct and abort
    NumCalls,       \* range(6), range(5), range(3) in the scripts
    ExpectedLimit,  \* the limit the verdicts assume (3 in the scripts)
    MaxLeftover,    \* sessions of the tested user left from earlier runs
    DefaultLimit,
    Enabled,
    OverflowAction

ScriptNames == {"verify", "same_user", "simple", "distinct", "abort"}

Calls == 1..NumCalls

(* Session ids: call k of this run is k; leftovers come after the calls.   *)
Leftovers == (NumCalls + 1)..(NumCalls + MaxLeftover)
SessionIds == Calls \cup Leftovers

VARIABLES
    overrides, ledger, seen, rejections, storeUp,  \* SessionLimits
    ending,         \* calls the B2BUA ended whose release awaits the store
    script,         \* the script being run
    pc,             \* "call", "wait", "cleanup", "twait", "done"
    i,              \* the loop index: the call, or the position in testCalls
    rpc,            \* the RPC in flight and its reply
    results,        \* [call -> what the script made of InitiateCall]
    testCalls,      \* the call ids it was given, in order (test_calls)
    termFailed,     \* call ids whose TerminateCall did not end the call
    verdict,        \* "none", "PASS", "FAIL", or "error" (aborted)
    peak            \* history: most sessions the tested user held at once

(* The from_uri of call k: one user for all calls, or user{i+787}.         *)
CallerOf(k) ==
    IF script \in {"distinct", "abort"} THEN NextUsers[k] ELSE TestedUser

SessionUser(s) == IF s \in Calls THEN CallerOf(s) ELSE TestedUser

(* The configuration the scripts are written against: limits enforced with *)
(* the reject overflow action, user787 limited, leftovers within it.       *)
ASSUME /\ Scripts \subseteq ScriptNames
       /\ TestedUser \in Users /\ NextUsers \in [Calls -> Users]
       /\ Enabled /\ OverflowAction = "reject" /\ DefaultLimit > 0
       /\ MaxLeftover <= DefaultLimit

SL == INSTANCE SessionLimits WITH Sessions <- SessionIds, LimitValues <- {}

slVars == <<overrides, ledger, seen, rejections, storeUp>>
serverVars == <<ending, peak>>
clientVars == <<script, pc, i, rpc, results, testCalls, termFailed, verdict>>
vars == <<slVars, serverVars, clientVars>>

NoRpc == [op |-> "none", sid |-> 0, reply |-> "none"]
Replies == {"pending", "ok", "limit", "backend", "unavailable", "notfound"}

(* A call the B2BUA has admitted and not yet ended.                        *)
Live(s) == s \in Range(ledger[SessionUser(s)]) /\ s \notin ending

-----------------------------------------------------------------------------
(* initiate_call's classification.  A call id is SUCCESS; an RpcError is   *)
(* REJECTED when its details contain "session limit exceeded", else ERROR. *)
Outcome(reply) ==
    CASE reply = "ok"    -> "SUCCESS"
      [] reply = "limit" -> "REJECTED"
      [] OTHER           -> "ERROR"

Count(o) == Cardinality({k \in Calls : results[k] = o})

(* The judgement of the run.  verify and same_user: at most 3 successes   *)
(* and at least one rejection; simple: at most 3 successes; distinct      *)
(* returns True; abort has no verdict.                                     *)
Judge(sc) ==
    CASE sc \in {"verify", "same_user"} ->
            IF Count("SUCCESS") <= ExpectedLimit /\ Count("REJECTED") >= 1
            THEN "PASS" ELSE "FAIL"
      [] sc = "simple"   -> IF Count("SUCCESS") <= ExpectedLimit
                            THEN "PASS" ELSE "FAIL"
      [] sc = "distinct" -> "PASS"
      [] sc = "abort"    -> "none"

-----------------------------------------------------------------------------
Init ==
    /\ overrides = [u \in {} |-> 0]
    /\ rejections = 0
    /\ storeUp = TRUE
    /\ \E n \in 0..MaxLeftover :
          /\ ledger = [u \in Users |->
                          IF u = TestedUser THEN [j \in 1..n |-> NumCalls + j]
                          ELSE <<>>]
          /\ seen = {NumCalls + j : j \in 1..n}
          /\ peak = n
    /\ ending = {}
    /\ script \in Scripts
    /\ pc = "call"
    /\ i = 1
    /\ rpc = NoRpc
    /\ results = [k \in Calls |-> "none"]
    /\ testCalls = <<>>
    /\ termFailed = {}
    /\ verdict = "none"

(* The loop runs once more than the calls it has: range(7).                *)
InvokePastEnd ==
    /\ pc = "call"
    /\ i <= NumCalls + 1
    /\ rpc' = [op |-> "initiate", sid |-> i, reply |-> "pending"]
    /\ pc' = "wait"
    /\ UNCHANGED <<slVars, serverVars, script, i, results, testCalls,
                   termFailed, verdict>>

(* stub.InitiateCall(request) for call i: blocking, with no deadline.      *)
Invoke ==
    /\ pc = "call"
    /\ i <= NumCalls
    /\ rpc' = [op |-> "initiate", sid |-> i, reply |-> "pending"]
    /\ pc' = "wait"
    /\ UNCHANGED <<slVars, serverVars, script, i, results, testCalls,
                   termFailed, verdict>>

(* The reply, or the RpcError, of InitiateCall: record the outcome and the *)
(* call id.  test_session_simple.py has one try around the whole run, so   *)
(* an RpcError ends it before the cleanup.                                 *)
Receive ==
    /\ pc = "wait"
    /\ rpc.op = "initiate" /\ rpc.reply # "pending"
    /\ LET o == Outcome(rpc.reply)
       IN /\ results' = [results EXCEPT ![i] = o]
          /\ testCalls' = IF o = "SUCCESS" THEN Append(testCalls, i)
                          ELSE testCalls
          /\ \/ script = "abort" /\ o # "SUCCESS"
                /\ pc' = "done" /\ verdict' = "error"
             \/ ~(script = "abort" /\ o # "SUCCESS")
                /\ pc' = "call" /\ UNCHANGED verdict
    /\ i' = i + 1
    /\ rpc' = NoRpc
    /\ UNCHANGED <<slVars, serverVars, script, termFailed>>

(* After the loop: the results summary and the verdict.                    *)
Analyze ==
    /\ pc = "call"
    /\ i > NumCalls
    /\ verdict' = Judge(script)
    /\ pc' = "cleanup"
    /\ i' = 1
    /\ UNCHANGED <<slVars, serverVars, script, rpc, results, testCalls,
                   termFailed>>

(* TerminateCall for the i-th call id the script was given.               *)
Terminate ==
    /\ pc = "cleanup"
    /\ i <= Len(testCalls)
    /\ rpc' = [op |-> "terminate", sid |-> testCalls[i], reply |-> "pending"]
    /\ pc' = "twait"
    /\ UNCHANGED <<slVars, serverVars, script, i, results, testCalls,
                   termFailed, verdict>>

(* Its reply.  The scripts catch the exception and go on, except           *)
(* test_session_simple.py, which leaves the run.                           *)
Terminated ==
    /\ pc = "twait"
    /\ rpc.op = "terminate" /\ rpc.reply # "pending"
    /\ termFailed' = IF rpc.reply = "ok" THEN termFailed
                     ELSE termFailed \cup {rpc.sid}
    /\ \/ script = "abort" /\ rpc.reply = "unavailable"
          /\ pc' = "done" /\ verdict' = "error"
       \/ ~(script = "abort" /\ rpc.reply = "unavailable")
          /\ pc' = "cleanup" /\ UNCHANGED verdict
    /\ i' = i + 1
    /\ rpc' = NoRpc
    /\ UNCHANGED <<slVars, serverVars, script, results, testCalls>>

(* The cleanup loop stops one call id early.                               *)
CleanupSkipLast ==
    /\ pc = "cleanup"
    /\ i >= Len(testCalls)
    /\ pc' = "done"
    /\ UNCHANGED <<slVars, serverVars, script, i, rpc, results, testCalls,
                   termFailed, verdict>>

(* The cleanup loop has gone through every call id.                        *)
CleanupDone ==
    /\ pc = "cleanup"
    /\ i > Len(testCalls)
    /\ pc' = "done"
    /\ UNCHANGED <<slVars, serverVars, script, i, rpc, results, testCalls,
                   termFailed, verdict>>

-----------------------------------------------------------------------------
(* The B2BUA's InitiateCall handler: TryAdmit for the caller, then a call  *)
(* id, or an error naming the limit or the backend failure.                *)
ServerInitiate ==
    /\ rpc.op = "initiate" /\ rpc.reply = "pending"
    /\ LET s == rpc.sid
           u == CallerOf(s)
       IN \/ SL!Admit(u, s) /\ rpc' = [rpc EXCEPT !.reply = "ok"]
          \/ SL!RejectAtLimit(u, s) /\ rpc' = [rpc EXCEPT !.reply = "limit"]
          \/ SL!FailClosed(u, s) /\ rpc' = [rpc EXCEPT !.reply = "backend"]
    /\ peak' = IF Len(ledger'[TestedUser]) > peak THEN Len(ledger'[TestedUser])
               ELSE peak
    /\ UNCHANGED <<ending, script, pc, i, results, testCalls, termFailed,
                   verdict>>

(* The TerminateCall handler: end the call if it is still up; its release *)
(* follows when the store answers.                                         *)
ServerTerminate ==
    /\ rpc.op = "terminate" /\ rpc.reply = "pending"
    /\ \/ Live(rpc.sid) /\ ending' = ending \cup {rpc.sid}
          /\ rpc' = [rpc EXCEPT !.reply = "ok"]
       \/ ~Live(rpc.sid) /\ UNCHANGED ending
          /\ rpc' = [rpc EXCEPT !.reply = "notfound"]
    /\ UNCHANGED <<slVars, peak, script, pc, i, results,
                   testCalls, termFailed, verdict>>

(* The channel breaks: the client gets UNAVAILABLE, whether the server had *)
(* handled the request or not.                                             *)
ChannelBreaks ==
    /\ rpc.op # "none"
    /\ rpc.reply # "unavailable"
    /\ rpc' = [rpc EXCEPT !.reply = "unavailable"]
    /\ UNCHANGED <<slVars, serverVars, script, pc, i, results, testCalls,
                   termFailed, verdict>>

(* The callee hangs up, or the B2BUA times the call out.                   *)
Hangup(s) ==
    /\ Live(s)
    /\ ending' = ending \cup {s}
    /\ UNCHANGED <<slVars, peak, clientVars>>

(* ReleaseSession of an ended call, once the store answers.                *)
ReleaseEnded(s) ==
    /\ s \in ending
    /\ SL!Release(SessionUser(s), s)
    /\ ending' = ending \ {s}
    /\ UNCHANGED <<peak, clientVars>>

StoreFail == SL!StoreFail /\ UNCHANGED <<serverVars, clientVars>>
StoreRecover == SL!StoreRecover /\ UNCHANGED <<serverVars, clientVars>>

ScriptStep ==
    \/ Invoke \/ Receive \/ Analyze \/ Terminate \/ Terminated \/ CleanupDone

ServerStep == ServerInitiate \/ ServerTerminate

Next ==
    \/ ScriptStep
    \/ ServerStep
    \/ ChannelBreaks
    \/ \E s \in SessionIds : Hangup(s) \/ ReleaseEnded(s)
    \/ StoreFail \/ StoreRecover

(* No fairness: InitiateCall and TerminateCall are called without a       *)
(* deadline (verify_session_limits.py:40, 59), so a B2BUA that never       *)
(* answers stalls the script, and nothing here says that a run ends.       *)
Spec == Init /\ [][Next]_vars

-----------------------------------------------------------------------------
TypeOK ==
    /\ SL!TypeOK
    /\ ending \subseteq SessionIds
    /\ script \in ScriptNames
    /\ pc \in {"call", "wait", "cleanup", "twait", "done"}
    /\ i \in 1..(NumCalls + 1)
    /\ rpc \in {NoRpc} \cup [op : {"initiate", "terminate"}, sid : Calls,
                              reply : Replies]
    /\ results \in [Calls -> {"none", "SUCCESS", "REJECTED", "ERROR"}]
    /\ testCalls \in Seq(Calls)
    /\ termFailed \subseteq Calls
    /\ verdict \in {"none", "PASS", "FAIL", "error"}
    /\ peak \in 0..DefaultLimit

(* When the script has finished, every call it was given a call id for    *)
(* has ended, or its TerminateCall reported that it did not end it: the   *)
(* cleanup loop leaves none of its own calls counted against the user.     *)
KnownCallsEnded ==
    pc = "done" =>
        \A s \in Range(testCalls) : ~Live(s) \/ s \in termFailed

(* The verdict FAIL ("Session limits not working correctly") is printed   *)
(* only when the tested user really held more sessions than the limit.     *)
FailMeansOverAdmission == verdict = "FAIL" => peak > ExpectedLimit

====
