---------------------------- MODULE StressTest ----------------------------
(***************************************************************************)
(* testing/python/test_session_limits_stress.py driving the B2BUA.         *)
(*                                                                         *)
(* run_stress_test runs phases of concurrent_calls_test; each phase        *)
(* submits `calls` single_call_test tasks to a ThreadPoolExecutor of       *)
(* `workers` threads.  A task builds a SIPClient (which picks a local port *)
(* with _get_free_port), sends one INVITE over UDP from that port, reads   *)
(* the first datagram that reaches the port or times out, classifies it,   *)
(* and bumps the shared test_results counters with unsynchronised `+= 1`.  *)
(* A daemon monitor thread samples GetActiveCalls and keeps the peak.      *)
(*                                                                         *)
(* The B2BUA side is the SessionLimits controller (spec-modelled) behind a *)
(* thin signalling layer: it answers an admitted INVITE with 100 Trying    *)
(* (and 200 OK if the callee answers) and a refused one with 503.          *)
(***************************************************************************)
EXTENDS Naturals, Sequences, FiniteSets, Functions

CONSTANTS
    Users, DefaultLimit, LimitValues, Enabled, OverflowAction,
    Phases,              \* <<[user, calls, workers], ...>> of run_stress_test
    Ports,               \* local UDP ports the OS may hand out
    NoPort,              \* "no port" marker
    FreshPorts,          \* TRUE: the OS never hands out a port twice in a run
    BackendFailureCode   \* the SIP code the B2BUA sends when failing closed

ASSUME /\ Phases \in Seq([user : Users, calls : Nat \ {0}, workers : Nat \ {0}])
       /\ NoPort \notin Ports
       /\ FreshPorts \in BOOLEAN

Calls == UNION {{<<p, i>> : i \in 1..Phases[p].calls} : p \in 1..Len(Phases)}
NumCalls == Cardinality(Calls)
Workers == 1..(CHOOSE m \in {Phases[p].workers : p \in 1..Len(Phases)} :
                  \A p \in 1..Len(Phases) : Phases[p].workers <= m)
NoCall == <<0, 0>>
UserOf(c) == Phases[c[1]].user

ASSUME FreshPorts => Cardinality(Ports) >= NumCalls

VARIABLES
    overrides, ledger, seen, rejections, storeUp,   \* SessionLimits
    active,      \* B2BUA call table (what GetActiveCalls lists)
    answered,    \* calls whose callee sent 200 OK
    granted,     \* history: calls the controller admitted
    refused,     \* history: calls the controller refused
    invites,     \* INVITEs in flight: [call, port]
    net,         \* responses in flight: [port, call, code]
    mainPc, phase, submitted, queue,
    wk,          \* worker threads: [pc, call, port, resp, tmp]
    bound,       \* ports with an open client socket
    usedPorts,   \* ports the OS has handed out so far
    results,     \* self.test_results counters
    enforced,    \* test_results['session_limit_enforced']
    details,     \* call -> status appended to call_details
    peak         \* test_results['concurrent_sessions_peak']

SL == INSTANCE SessionLimits WITH Sessions <- Calls

limitVars == <<overrides, ledger, seen, rejections, storeUp>>

serverVars == <<active, answered, granted, refused, invites, net>>
clientVars == <<mainPc, phase, submitted, queue, wk, bound, usedPorts,
                results, enforced, details, peak>>
vars == <<limitVars, serverVars, clientVars>>

Counters == {"successful_calls", "rejected_calls", "error_calls",
             "total_calls_attempted"}
Statuses == {"SUCCESS", "TRYING", "REJECTED", "ERROR", "TIMEOUT", "UNKNOWN"}
Codes == {"100", "200", "503", BackendFailureCode}
IdleWorker == [pc |-> "idle", call |-> NoCall, port |-> NoPort,
               resp |-> "", tmp |-> 0]

-----------------------------------------------------------------------------
(* single_call_test, lines 216-241: the status of a response string.  A    *)
(* socket timeout reaches here as "ERROR: timed out", so the TIMEOUT       *)
(* branch is dead.                                                         *)
StatusOf(resp) ==
    CASE resp = "200"           -> "SUCCESS"
      [] resp = "100"           -> "TRYING"
      [] resp \in {"486", "503"} -> "REJECTED"
      [] resp = "ERROR"         -> "ERROR"
      [] OTHER                  -> "UNKNOWN"

(* The counter single_call_test bumps for a status ("" for none).          *)
CounterOf(status) ==
    CASE status \in {"SUCCESS", "TRYING"} -> "successful_calls"
      [] status = "REJECTED"              -> "rejected_calls"
      [] status = "ERROR"                 -> "error_calls"
      [] OTHER                            -> ""

-----------------------------------------------------------------------------
(* The per-user limits set through the API before the run.               *)
RegistryConfigs == UNION {[D -> LimitValues] : D \in SUBSET Users}

Init ==
    /\ overrides \in RegistryConfigs
    /\ ledger = [u \in Users |-> <<>>]
    /\ seen = {} /\ rejections = 0 /\ storeUp = TRUE
    /\ active = {} /\ answered = {} /\ granted = {} /\ refused = {}
    /\ invites = {} /\ net = {}
    /\ mainPc = "setup" /\ phase = 1 /\ submitted = 0 /\ queue = <<>>
    /\ wk = [w \in Workers |-> IdleWorker]
    /\ bound = {} /\ usedPorts = {}
    /\ results = [k \in Counters |-> 0]
    /\ enforced = FALSE
    /\ details = [c \in Calls |-> "none"]
    /\ peak = 0

-----------------------------------------------------------------------------
(* Main thread: run_stress_test.                                           *)

(* setup_grpc_client succeeds; the monitor thread starts with it.  Its     *)
(* ListRoutingRules probe (line 142) carries no deadline.                  *)
SetupOk ==
    /\ mainPc = "setup"
    /\ mainPc' = "submit"
    /\ UNCHANGED <<limitVars, serverVars, phase, submitted, queue, wk, bound,
                   usedPorts, results, enforced, details, peak>>

(* setup_grpc_client fails: run_stress_test returns False.                 *)
SetupFails ==
    /\ mainPc = "setup"
    /\ mainPc' = "failed"
    /\ UNCHANGED <<limitVars, serverVars, phase, submitted, queue, wk, bound,
                   usedPorts, results, enforced, details, peak>>

(* concurrent_calls_test: executor.submit of the next call.                *)
Submit ==
    /\ mainPc = "submit"
    /\ submitted < Phases[phase].calls
    /\ queue' = Append(queue, <<phase, submitted + 1>>)
    /\ submitted' = submitted + 1
    /\ UNCHANGED <<limitVars, serverVars, mainPc, phase, wk, bound, usedPorts,
                   results, enforced, details, peak>>

(* Leaving the executor's `with` block once every future is done; then the *)
(* get_active_calls after Test 1 (349) or before the summary (364), whose  *)
(* count is only printed, and the next concurrent_calls_test or            *)
(* print_test_results.  GetActiveCalls carries no deadline.                *)
PhaseDone ==
    /\ mainPc = "submit"
    /\ submitted = Phases[phase].calls
    /\ \A i \in 1..Phases[phase].calls : details[<<phase, i>>] # "none"
    /\ IF phase < Len(Phases)
         THEN /\ phase' = phase + 1 /\ submitted' = 0
              /\ UNCHANGED mainPc
         ELSE /\ mainPc' = "done"
              /\ UNCHANGED <<phase, submitted>>
    /\ UNCHANGED <<limitVars, serverVars, queue, wk, bound, usedPorts,
                   results, enforced, details, peak>>

(* monitor_sessions: one GetActiveCalls sample folded into the peak.       *)
MonitorSample ==
    /\ mainPc \notin {"setup", "failed", "done"}
    /\ peak < Cardinality(active)
    /\ peak' = Cardinality(active)
    /\ UNCHANGED <<limitVars, serverVars, mainPc, phase, submitted, queue, wk,
                   bound, usedPorts, results, enforced, details>>

-----------------------------------------------------------------------------
(* Worker threads: single_call_test and SIPClient.                         *)

(* The ports the OS may return from a bind to port 0: any port with no    *)
(* socket on it, or with FreshPorts one never handed out before (fresh     *)
(* ports are interchangeable, so one of them stands for all).              *)
OfferedPorts ==
    IF FreshPorts
      THEN IF Ports \ usedPorts = {} THEN {}
           ELSE {CHOOSE p \in Ports \ usedPorts : TRUE}
      ELSE Ports \ bound

(* A worker takes the next task; SIPClient() asks the OS for a free port   *)
(* (_get_free_port binds port 0, reads it and closes the socket again).    *)
TakeTask(w) ==
    /\ wk[w].pc = "idle"
    /\ w <= Phases[phase].workers
    /\ queue # <<>>
    /\ \E p \in OfferedPorts :
          /\ wk' = [wk EXCEPT ![w] = [IdleWorker EXCEPT !.pc = "send",
                                        !.call = Head(queue), !.port = p]]
          /\ usedPorts' = usedPorts \cup {p}
    /\ queue' = Tail(queue)
    /\ UNCHANGED <<limitVars, serverVars, mainPc, phase, submitted, bound,
                   results, enforced, details, peak>>

(* send_invite: bind the chosen port and send the INVITE; a bind that      *)
(* fails (another socket took the port) returns "ERROR: ...".              *)
SendInvite(w) ==
    /\ wk[w].pc = "send"
    /\ IF wk[w].port \in bound
         THEN /\ wk' = [wk EXCEPT ![w].pc = "count", ![w].resp = "ERROR"]
              /\ UNCHANGED <<bound, invites>>
         ELSE /\ bound' = bound \cup {wk[w].port}
              /\ invites' = invites \cup {[call |-> wk[w].call,
                                           port |-> wk[w].port]}
              /\ wk' = [wk EXCEPT ![w].pc = "recv"]
    /\ UNCHANGED <<limitVars, active, answered, granted, refused, net, mainPc,
                   phase, submitted, queue, usedPorts, results, enforced,
                   details, peak>>

(* recvfrom returns the first datagram that reaches the port; the socket   *)
(* is closed in the finally clause.                                        *)
Receive(w) ==
    /\ wk[w].pc = "recv"
    /\ \E d \in net :
          /\ d.port = wk[w].port
          /\ net' = net \ {d}
          /\ wk' = [wk EXCEPT ![w].pc = "count", ![w].resp = d.code]
    /\ bound' = bound \ {wk[w].port}
    /\ UNCHANGED <<limitVars, active, answered, granted, refused, invites,
                   mainPc, phase, submitted, queue, usedPorts, results,
                   enforced, details, peak>>

(* recvfrom on a socket without a timeout only returns with a datagram.    *)
TimeoutUnset(w) == Receive(w)

(* settimeout(5) expires: the exception text starts with "ERROR".          *)
Timeout(w) ==
    /\ wk[w].pc = "recv"
    /\ wk' = [wk EXCEPT ![w].pc = "count", ![w].resp = "ERROR"]
    /\ bound' = bound \ {wk[w].port}
    /\ UNCHANGED <<limitVars, serverVars, mainPc, phase, submitted, queue,
                   usedPorts, results, enforced, details, peak>>

(* `self.test_results[k] += 1` is a load, an add and a store; another      *)
(* thread may run between the load and the store.  ReadCounter loads the   *)
(* status counter (or the total, for UNKNOWN), WriteCounter stores it.     *)
ReadCounter(w) ==
    /\ wk[w].pc \in {"count", "total"}
    /\ LET k == IF wk[w].pc = "total" \/ CounterOf(StatusOf(wk[w].resp)) = ""
                  THEN "total_calls_attempted"
                  ELSE CounterOf(StatusOf(wk[w].resp))
       IN wk' = [wk EXCEPT ![w].tmp = results[k],
                           ![w].pc = IF k = "total_calls_attempted"
                                       THEN "totalw" ELSE "countw"]
    /\ UNCHANGED <<limitVars, serverVars, mainPc, phase, submitted, queue,
                   bound, usedPorts, results, enforced, details, peak>>

(* Store of the status counter; a REJECTED status also sets                *)
(* session_limit_enforced.                                                 *)
WriteCounter(w) ==
    /\ wk[w].pc = "countw"
    /\ LET st == StatusOf(wk[w].resp) IN
       /\ results' = [results EXCEPT ![CounterOf(st)] = wk[w].tmp + 1]
       /\ enforced' = (enforced \/ st = "REJECTED")
    /\ wk' = [wk EXCEPT ![w].pc = "total"]
    /\ UNCHANGED <<limitVars, serverVars, mainPc, phase, submitted, queue,
                   bound, usedPorts, details, peak>>

(* The bookkeeping of a finished task runs again instead of returning the  *)
(* worker to the pool.                                                     *)
WriteTotalNoReset(w) ==
    /\ wk[w].pc = "totalw"
    /\ results' = [results EXCEPT !["total_calls_attempted"] = wk[w].tmp + 1]
    /\ details' = [details EXCEPT ![wk[w].call] = StatusOf(wk[w].resp)]
    /\ wk' = [wk EXCEPT ![w].pc = "count"]
    /\ UNCHANGED <<limitVars, serverVars, mainPc, phase, submitted, queue,
                   bound, usedPorts, enforced, peak>>

(* Store of total_calls_attempted, then call_details.append(result); the   *)
(* task's future completes and the worker goes back to the pool.           *)
WriteTotal(w) ==
    /\ wk[w].pc = "totalw"
    /\ results' = [results EXCEPT !["total_calls_attempted"] = wk[w].tmp + 1]
    /\ details' = [details EXCEPT ![wk[w].call] = StatusOf(wk[w].resp)]
    /\ wk' = [wk EXCEPT ![w] = IdleWorker]
    /\ UNCHANGED <<limitVars, serverVars, mainPc, phase, submitted, queue,
                   bound, usedPorts, enforced, peak>>

-----------------------------------------------------------------------------
(* The B2BUA's INVITE handler: TryAdmit for the caller, then the answer to *)
(* the Via port.  An admission with eviction also ends the evicted call.   *)
ServerAdmit(m) ==
    LET c == m.call
        u == UserOf(c)
    IN /\ m \in invites
       /\ \/ SL!AllowUntracked(u, c)
          \/ SL!Admit(u, c)
          \/ SL!EvictOldest(u, c)
       /\ active' = {a \in active :
                        a.call \notin Range(ledger[u]) \ Range(ledger'[u])}
                     \cup {[call |-> c, port |-> m.port]}
       /\ granted' = granted \cup {c}
       /\ invites' = invites \ {m}
       /\ net' = net \cup {[port |-> m.port, call |-> c, code |-> "100"]}
       /\ UNCHANGED <<answered, refused, clientVars>>

(* TryAdmit refuses: 503 at the limit, BackendFailureCode when the counter *)
(* store is down (fail closed).                                            *)
ServerReject(m) ==
    LET c == m.call
        u == UserOf(c)
    IN /\ m \in invites
       /\ \/ SL!RejectAtLimit(u, c) /\ net' = net \cup
                {[port |-> m.port, call |-> c, code |-> "503"]}
          \/ SL!FailClosed(u, c) /\ net' = net \cup
                {[port |-> m.port, call |-> c, code |-> BackendFailureCode]}
       /\ refused' = refused \cup {c}
       /\ invites' = invites \ {m}
       /\ UNCHANGED <<active, answered, granted, clientVars>>

(* The callee (user999) answers an admitted call: 200 OK to the caller.    *)
CalleeAnswers(a) ==
    /\ a \in active
    /\ a.call \notin answered
    /\ answered' = answered \cup {a.call}
    /\ net' = net \cup {[port |-> a.port, call |-> a.call, code |-> "200"]}
    /\ UNCHANGED <<limitVars, active, granted, refused, invites, clientVars>>

(* The call ends (the caller never ACKs or sends BYE, so the B2BUA times   *)
(* it out): ReleaseSession for the caller and the call leaves the table.   *)
SessionEnd(a) ==
    /\ a \in active
    /\ SL!Release(UserOf(a.call), a.call)
    /\ active' = active \ {a}
    /\ UNCHANGED <<answered, granted, refused, invites, net, clientVars>>

(* UDP may drop an INVITE or a response.                                   *)
LoseInvite(m) ==
    /\ m \in invites
    /\ invites' = invites \ {m}
    /\ UNCHANGED <<limitVars, active, answered, granted, refused, net,
                   clientVars>>

LoseResponse(d) ==
    /\ d \in net
    /\ net' = net \ {d}
    /\ UNCHANGED <<limitVars, active, answered, granted, refused, invites,
                   clientVars>>

StoreFail ==
    SL!StoreFail /\ UNCHANGED <<serverVars, clientVars>>

StoreRecover ==
    SL!StoreRecover /\ UNCHANGED <<serverVars, clientVars>>

-----------------------------------------------------------------------------
WorkerStep(w) ==
    \/ TakeTask(w) \/ SendInvite(w) \/ Receive(w) \/ Timeout(w)
    \/ ReadCounter(w) \/ WriteCounter(w) \/ WriteTotal(w)

Next ==
    \/ SetupOk \/ SetupFails \/ Submit \/ PhaseDone \/ MonitorSample
    \/ \E w \in Workers : WorkerStep(w)
    \/ \E m \in invites : ServerAdmit(m) \/ ServerReject(m) \/ LoseInvite(m)
    \/ \E a \in active : CalleeAnswers(a) \/ SessionEnd(a)
    \/ \E d \in net : LoseResponse(d)
    \/ StoreFail \/ StoreRecover

(* The executor's threads are scheduled by the OS and recvfrom returns    *)
(* within the 5 s socket timeout; executor.submit never blocks.  The main  *)
(* thread's gRPC calls (ListRoutingRules, GetActiveCalls) have no          *)
(* deadline, so SetupOk, SetupFails and PhaseDone get no fairness: a       *)
(* B2BUA that never answers them stalls the run.  Nothing is assumed of    *)
(* the network, the B2BUA or the store.                                    *)
Fairness ==
    /\ WF_vars(Submit)
    /\ \A w \in Workers :
          /\ WF_vars(TakeTask(w)) /\ WF_vars(SendInvite(w))
          /\ WF_vars(Timeout(w)) /\ WF_vars(ReadCounter(w))
          /\ WF_vars(WriteCounter(w)) /\ WF_vars(WriteTotal(w))

Spec == Init /\ [][Next]_vars /\ Fairness

-----------------------------------------------------------------------------
WorkerPcs == {"idle", "send", "recv", "count", "countw", "total", "totalw"}

TypeOK ==
    /\ SL!TypeOK
    /\ active \subseteq [call : Calls, port : Ports]
    /\ invites \subseteq [call : Calls, port : Ports]
    /\ net \subseteq [port : Ports, call : Calls, code : Codes]
    /\ answered \subseteq Calls /\ granted \subseteq Calls
    /\ refused \subseteq Calls
    /\ mainPc \in {"setup", "submit", "failed", "done"}
    /\ phase \in 1..Len(Phases)
    /\ queue \in Seq(Calls)
    /\ wk \in [Workers -> [pc : WorkerPcs, call : Calls \cup {NoCall},
                           port : Ports \cup {NoPort},
                           resp : Codes \cup {"ERROR", ""},
                           tmp : 0..NumCalls]]
    /\ bound \subseteq Ports /\ usedPorts \subseteq Ports
    /\ results \in [Counters -> 0..NumCalls]
    /\ enforced \in BOOLEAN
    /\ details \in [Calls -> Statuses \cup {"none"}]
    /\ peak \in 0..NumCalls

(* The status single_call_test records for a call is the B2BUA's verdict   *)
(* on that call: a call counted as successful (200 or 100 Trying) was      *)
(* admitted by TryAdmit, and a call counted as REJECTED (486/503) was      *)
(* refused by it.  This is what print_test_results' "Session limits are    *)
(* being enforced" rests on.                                               *)
CallVerdictSound ==
    \A c \in Calls :
        /\ details[c] \in {"SUCCESS", "TRYING"} => c \in granted
        /\ details[c] = "REJECTED" => c \in refused

(* Every call handed to the executor completes and is recorded in         *)
(* call_details, whatever the B2BUA, the store and the network do: a       *)
(* worker always takes it, and its recvfrom is bounded by the socket       *)
(* timeout, so the future that concurrent_calls_test waits on is done.     *)
EveryCallCompletes ==
    \A c \in Calls : c \in Range(queue) ~> details[c] # "none"

(* When run_stress_test finishes, the counters print_test_results reports *)
(* agree with the calls: total_calls_attempted counts every call           *)
(* single_call_test made, and successful_calls, rejected_calls and          *)
(* error_calls each count the calls whose recorded status belongs to them. *)
CountsMatchCalls ==
    mainPc = "done" =>
        /\ results["total_calls_attempted"] = NumCalls
        /\ \A k \in Counters \ {"total_calls_attempted"} :
              results[k] = Cardinality({c \in Calls : CounterOf(details[c]) = k})

=============================================================================
