--------------------------- MODULE RegistryClient ---------------------------
(***************************************************************************)
(* The scripts of testing/python/ that drive the Limit Registry through    *)
(* its management API (PUT, GET and DELETE of /api/sessions/limits/<user>, *)
(* GET of /api/sessions/limits, stats and active sessions), one run after  *)
(* another against the same registry:                                      *)
(*   web_ui         test_web_ui_per_user_limits.py                         *)
(*   final          test_web_ui_per_user_limits_final.py                   *)
(*   simple         test_simple_per_user_limits.py                         *)
(*   comprehensive  test_comprehensive_per_user_limits.py                  *)
(* Each script is a fixed list of requests; what differs is the check on   *)
(* each answer, whether a failed check ends the run, and the verdict.  A   *)
(* request is answered as spec.md section 4.1 says, fails with no effect,  *)
(* or takes effect and then loses its answer; the person running a script  *)
(* may interrupt it (Ctrl-C).  The registry is SessionLimits' own.         *)
(***************************************************************************)
EXTENDS Integers, Sequences, FiniteSets

CONSTANTS
    Scripts,       \* the scripts that may be run, a subset of ScriptNames
    MaxRuns,       \* how many runs, one after the other
    MaxFaults,     \* failed requests and interrupts per run
    DefaultLimit   \* GlobalConfig.defaultLimit

ScriptNames == {"web_ui", "final", "simple", "comprehensive"}

ASSUME /\ Scripts \subseteq ScriptNames
       /\ MaxRuns \in Nat \ {0} /\ MaxFaults \in Nat /\ DefaultLimit \in Nat

NoUser == "-"
NoLimit == -1     \* a JSON answer without a limit (data.get("limit") is None)

RegistryUsers == {"alice", "bob", "charlie", "diana", "testuser",
                  "testuser123", "nonexistentuser"}

VARIABLES
    overrides, ledger, seen, rejections, storeUp,  \* the registry (SL)
    runs,         \* runs started so far
    script,       \* the script of the current run
    pc,           \* its next request
    status,       \* "idle", "running", "PASS" or "FAIL"
    passed,       \* log_result entries with success, or success_count etc.
    total,        \* log_result entries, or the tests counted in total_tests
    lastOk,       \* whether the previous request's check passed
    faults,       \* failed requests and interrupts in this run
    interrupted,  \* a KeyboardInterrupt is unwinding through the finally
    clean,        \* history: no request of this run failed, no interrupt
    unapplied     \* history: a reported write of this run the registry never made

SL == INSTANCE SessionLimits WITH Users <- RegistryUsers, Sessions <- {},
        LimitValues <- {}, Enabled <- TRUE, OverflowAction <- "reject"

slVars == <<overrides, ledger, seen, rejections, storeUp>>
runVars == <<runs, script, pc, status, passed, total, lastOk, faults,
             interrupted, clean, unapplied>>
vars == <<slVars, runVars>>

-----------------------------------------------------------------------------
(* A request of a script: method, user, value sent or expected, the check  *)
(* on the answer, how it is logged ("log": counted; "logFail": counted     *)
(* only when it fails; "silent"), whether a failed check ends the run,     *)
(* and whether it is made only when the previous check passed.            *)
Logged(m, u, v, chk) ==
    [m |-> m, u |-> u, v |-> v, chk |-> chk, log |-> "log",
     stop |-> FALSE, dep |-> FALSE]

(* A request whose failure makes the script return False.                  *)
Fatal(m, u, v, chk) == [Logged(m, u, v, chk) EXCEPT !.log = "silent", !.stop = TRUE]

(* One request per user, with that user's value.                          *)
Each(m, chk, us, vs) == [i \in 1..Len(us) |-> Logged(m, us[i], vs[i], chk)]

Four == <<"alice", "bob", "charlie", "diana">>
Zeros(n) == [i \in 1..n |-> 0]

(* test_web_ui_session_limits: login, then steps 2 to 6.  Every request   *)
(* counts towards total_tests (14) and, when it passes, total_passed.      *)
WebUiScript ==
    <<Fatal("login", NoUser, 0, "ok")>>
    \o Each("put", "ok", Four, <<5, 10, 2, 15>>)
    \o Each("get", "eq", Four, <<5, 10, 2, 15>>)
    \o Each("put", "ok", <<"alice", "bob">>, <<8, 12>>)
    \o Each("delete", "ok", <<"charlie", "diana">>, Zeros(2))
    \o Each("get", "gone", <<"charlie", "diana">>, Zeros(2))

(* run_comprehensive_test: every failed step returns False.  The default  *)
(* it expects is max_sessions_per_user from the config it read at step 2. *)
FinalScript ==
    [i \in 1..11 |->
       LET s == << <<"login", NoUser, 0, "ok">>,
                   <<"config", NoUser, 0, "ok">>,
                   <<"get", "testuser123", DefaultLimit, "eq">>,
                   <<"put", "testuser123", 15, "ok">>,
                   <<"get", "testuser123", 15, "eq">>,
                   <<"config", "testuser123", 15, "listed">>,
                   <<"put", "testuser123", 20, "ok">>,
                   <<"get", "testuser123", 20, "eq">>,
                   <<"delete", "testuser123", 0, "ok">>,
                   <<"get", "testuser123", DefaultLimit, "eq">>,
                   <<"config", "testuser123", 0, "unlisted">> >>[i]
       IN Fatal(s[1], s[2], s[3], s[4])]

(* run_per_user_limits_tests: the Redis and API checks (a failed API      *)
(* check, or a failed config read, returns False), then set, get, stats,  *)
(* delete, and get expecting the default again.                           *)
SimpleScript ==
    <<Logged("redis", NoUser, 0, "ok"),
      [Logged("config", NoUser, 0, "ok") EXCEPT !.stop = TRUE],
      [Logged("config", NoUser, 0, "ok") EXCEPT !.stop = TRUE]>>
    \o Each("put", "ok", Four, <<10, 3, 0, 1>>)
    \o Each("get", "eq", Four, <<10, 3, 0, 1>>)
    \o <<Logged("stats", NoUser, 0, "ok")>>
    \o Each("delete", "ok", Four, Zeros(4))
    \o Each("get", "eq", Four, [i \in 1..4 |-> DefaultLimit])

(* run_all_tests, tests 1 to 8, then cleanup_test_data in the finally.    *)
ComprehensiveBody ==
    <<Logged("config", NoUser, 0, "ok")>>
    \o Each("put", "ok", Four, <<10, 3, 1, 0>>)
    \o Each("get", "eq", Four, <<10, 3, 1, 0>>)
    \o <<Logged("stats", NoUser, 0, "ok"), Logged("active", NoUser, 0, "ok"),
         [Logged("put", "alice", 15, "ok") EXCEPT !.log = "logFail"],
         [Logged("get", "alice", 15, "eq") EXCEPT !.dep = TRUE],
         Logged("delete", "charlie", 0, "ok"),
         [Logged("get", "charlie", 0, "ok") EXCEPT !.dep = TRUE],
         Logged("put", "testuser", -5, "any"),
         Logged("get", "nonexistentuser", 0, "any")>>

ComprehensiveCleanup ==
    [i \in 1..5 |-> [Logged("delete", (Four \o <<"testuser">>)[i], 0, "ok")
                       EXCEPT !.log = "silent"]]

Ops(sc) ==
    CASE sc = "web_ui"        -> WebUiScript
      [] sc = "final"         -> FinalScript
      [] sc = "simple"        -> SimpleScript
      [] sc = "comprehensive" -> ComprehensiveBody \o ComprehensiveCleanup

MaxOps == LET ls == {Len(Ops(sc)) : sc \in ScriptNames}
          IN CHOOSE m \in ls : \A l \in ls : l <= m

IsWrite(op) == op.m \in {"put", "delete"}

(* A request whose outcome the verdict depends on: a fatal one, or one     *)
(* whose check is logged and can fail.                                     *)
Reported(op) == op.stop \/ (op.log # "silent" /\ op.chk # "any")

-----------------------------------------------------------------------------
(* The registry's answer to a request it handled (spec.md 4.1 and 6): GET *)
(* of a user reports the effective limit, the default when there is no    *)
(* override; PUT echoes the limit or, for a negative one, is a            *)
(* ConfigError; GET of the config lists the overrides.                    *)
Answer(op) ==
    [code       |-> IF op.m = "put" /\ op.v < 0 THEN 400 ELSE 200,
     limit      |-> CASE op.m = "get"                -> SL!GetEffectiveLimit(op.u)
                      [] op.m = "put" /\ op.v >= 0   -> op.v
                      [] OTHER                       -> NoLimit,
     userLimits |-> overrides]

(* What a script sees of a request that failed: an HTTP error or an       *)
(* exception, both turned into a failure by the script.                   *)
Failed == [code |-> 500, limit |-> NoLimit, userLimits |-> overrides]

(* SetUserLimit or DeleteUserLimit for a write the registry carried out.   *)
Apply(op) ==
    CASE op.m = "put" /\ op.v >= 0 -> SL!SetUserLimit(op.u, op.v)
      [] op.m = "delete"           -> SL!DeleteUserLimit(op.u)
      [] OTHER                     -> UNCHANGED slVars

(* The scripts' checks on an answer r:                                     *)
(*   ok        status 200 (or no 'error' key)                              *)
(*   eq        status 200 and limit == expected                            *)
(*   gone      web_ui step 6: status 404, or limit None                    *)
(*   listed    final step 6: user in user_limits with the limit            *)
(*   unlisted  final step 10: user not in user_limits                      *)
(*   any       comprehensive test 8: logged as passed whatever comes back  *)
Check(op, r) ==
    CASE op.chk = "ok"       -> r.code = 200
      [] op.chk = "eq"       -> r.code = 200 /\ r.limit = op.v
      [] op.chk = "gone"     -> r.code = 404 \/ (r.code = 200 /\ r.limit = NoLimit)
      [] op.chk = "listed"   -> /\ r.code = 200 /\ op.u \in DOMAIN r.userLimits
                                /\ r.userLimits[op.u] = op.v
      [] op.chk = "unlisted" -> r.code = 200 /\ op.u \notin DOMAIN r.userLimits
      [] op.chk = "any"      -> TRUE

(* Whether a request enters the counts: a logged one always, a "logFail"  *)
(* one when its check failed.                                              *)
Counted(op, ok) == op.log = "log" \/ (op.log = "logFail" /\ ~ok)

(* A success counted for every request that is not silent.                 *)
TallyLogFailSuccess(op, ok) ==
    /\ total' = total + (IF Counted(op, ok) THEN 1 ELSE 0)
    /\ passed' = passed + (IF ok /\ op.log # "silent" THEN 1 ELSE 0)

(* log_result / success_count: the counts after one request.               *)
Tally(op, ok) ==
    /\ total' = total + (IF Counted(op, ok) THEN 1 ELSE 0)
    /\ passed' = passed + (IF ok /\ Counted(op, ok) THEN 1 ELSE 0)

(* success_rate >= 90.                                                     *)
WebUiPassesAt90 == passed * 100 >= 90 * total

(* success_rate >= 70.                                                     *)
WebUiPassesAt70 == passed * 100 >= 70 * total

(* test_web_ui_session_limits: success_rate = total_passed / total_tests  *)
(* * 100, and True when it is at least 80.                                 *)
WebUiPasses == passed * 100 >= 80 * total

(* The verdict at the end of the list: web_ui's rate, the others' passed  *)
(* == total (final returns True once every step passed).                   *)
Verdict ==
    IF script = "web_ui" THEN IF WebUiPasses THEN "PASS" ELSE "FAIL"
    ELSE IF passed = total THEN "PASS" ELSE "FAIL"

-----------------------------------------------------------------------------
Init ==
    /\ SL!Init
    /\ runs = 0 /\ script = "none" /\ pc = 1 /\ status = "idle"
    /\ passed = 0 /\ total = 0 /\ lastOk = TRUE /\ faults = 0
    /\ interrupted = FALSE /\ clean = TRUE /\ unapplied = FALSE

(* Someone runs one of the scripts, after the previous run has exited.     *)
StartRun(sc) ==
    /\ status # "running"
    /\ runs < MaxRuns
    /\ runs' = runs + 1 /\ script' = sc /\ pc' = 1 /\ status' = "running"
    /\ passed' = 0 /\ total' = 0 /\ lastOk' = TRUE /\ faults' = 0
    /\ interrupted' = FALSE /\ clean' = TRUE /\ unapplied' = FALSE
    /\ UNCHANGED slVars

(* The script makes its next request; the registry handles it and answers *)
(* ("ok"), fails without acting ("error"), or acts and the answer is lost *)
(* ("lost").  The script checks the answer, logs it, and returns False    *)
(* when a fatal check failed.                                              *)
Request ==
    /\ status = "running"
    /\ pc <= Len(Ops(script))
    /\ LET op == Ops(script)[pc] IN
       /\ ~(op.dep /\ ~lastOk)
       /\ \E out \in {"ok"} \cup IF faults < MaxFaults
                                   THEN {"error"} \cup IF IsWrite(op) THEN {"lost"} ELSE {}
                                   ELSE {} :
            LET ok == Check(op, IF out = "ok" THEN Answer(op) ELSE Failed) IN
            /\ IF out = "error" THEN UNCHANGED slVars ELSE Apply(op)
            /\ Tally(op, ok)
            /\ status' = IF ~ok /\ op.stop THEN "FAIL" ELSE "running"
            /\ pc' = pc + 1
            /\ lastOk' = ok
            /\ faults' = faults + (IF out = "ok" THEN 0 ELSE 1)
            /\ clean' = (clean /\ out = "ok")
            /\ unapplied' = (unapplied \/ (out = "error" /\ IsWrite(op) /\ Reported(op)))
    /\ UNCHANGED <<runs, script, interrupted>>

(* comprehensive: the verification request of an update or removal is not *)
(* made when the request before it failed.                                 *)
SkipDependent ==
    /\ status = "running"
    /\ pc <= Len(Ops(script))
    /\ Ops(script)[pc].dep /\ ~lastOk
    /\ pc' = pc + 1
    /\ UNCHANGED <<slVars, runs, script, status, passed, total, lastOk, faults,
                   interrupted, clean, unapplied>>

(* Ctrl-C in comprehensive's tests: the KeyboardInterrupt runs the finally *)
(* (cleanup_test_data) on its way out.                                     *)
InterruptIntoFinally ==
    /\ status = "running" /\ faults < MaxFaults
    /\ script = "comprehensive" /\ pc <= Len(ComprehensiveBody)
    /\ pc' = Len(ComprehensiveBody) + 1
    /\ interrupted' = TRUE /\ faults' = faults + 1 /\ clean' = FALSE
    /\ UNCHANGED <<slVars, runs, script, status, passed, total, lastOk, unapplied>>

(* Ctrl-C anywhere else: the script exits (final's main catches it and    *)
(* exits 1).                                                               *)
InterruptExit ==
    /\ status = "running" /\ faults < MaxFaults
    /\ ~(script = "comprehensive" /\ pc <= Len(ComprehensiveBody))
    /\ status' = "FAIL" /\ faults' = faults + 1 /\ clean' = FALSE
    /\ UNCHANGED <<slVars, runs, script, pc, passed, total, lastOk,
                   interrupted, unapplied>>

(* The end of the list: the verdict, or the exit of the interrupt.         *)
Finish ==
    /\ status = "running"
    /\ pc > Len(Ops(script))
    /\ status' = IF interrupted THEN "FAIL" ELSE Verdict
    /\ UNCHANGED <<slVars, runs, script, pc, passed, total, lastOk, faults,
                   interrupted, clean, unapplied>>

Next ==
    \/ \E sc \in Scripts : StartRun(sc)
    \/ Request \/ SkipDependent \/ InterruptIntoFinally \/ InterruptExit \/ Finish

Spec == Init /\ [][Next]_vars

-----------------------------------------------------------------------------
TypeOK ==
    /\ SL!TypeOK
    /\ runs \in 0..MaxRuns
    /\ script \in ScriptNames \cup {"none"}
    /\ status \in {"idle", "running", "PASS", "FAIL"}
    /\ pc \in 1..(MaxOps + 1)
    /\ total \in 0..MaxOps /\ passed \in 0..total
    /\ faults \in 0..MaxFaults
    /\ {lastOk, interrupted, clean, unapplied} \subseteq BOOLEAN

(* A run in which every request was answered as spec.md says, and which   *)
(* nobody interrupted, reports success: the scripts' verdicts are about    *)
(* the registry, not about what earlier runs left in it.                   *)
CleanRunPasses == status = "FAIL" => ~clean

(* A run that reports success had every write it reports on (a PUT or a  *)
(* DELETE whose failure it logs or stops on) carried out by the registry.  *)
WritesConfirmed == status = "PASS" => ~unapplied

====
