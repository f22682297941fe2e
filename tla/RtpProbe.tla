------------------------------ MODULE RtpProbe ------------------------------
(***************************************************************************)
(* The probing scripts of scripts/ against the RTPEngine NG control port.  *)
(* Each walks a list of requests: it sends one over UDP, waits on          *)
(* recvfrom with a socket timeout, judges the answer by its text, and goes *)
(* on with the next request, or, once a request succeeds, with the next   *)
(* list.  The script run is chosen from Scripts; they differ in three      *)
(* things:                                                                 *)
(*   - one socket for the whole run, or one per request;                   *)
(*   - the test that calls an answer a success;                            *)
(*   - whether a success ends the list.                                    *)
(* RTPEngine answers a request with a result, or not at all; UDP may lose  *)
(* or delay any datagram.                                                  *)
(***************************************************************************)
EXTENDS PyText, FiniteSets

CONSTANTS
    Scripts,      \* the scripts that may be run (a subset of ScriptNames)
    Groups,       \* [script -> sizes of its request lists, run in order]
    CookieOf,     \* [script -> [request -> str]]: the cookie of each request
    Results,      \* the results RTPEngine may answer: "pong", "ok", "error"
    ErrorReason,  \* the error-reason text of an error answer
    Ports,        \* the local ports the OS may hand out
    NoPort,
    FreshPorts    \* TRUE: the OS never hands out a port twice

ScriptNames == {"correct-format", "final-format", "patterns", "comprehensive",
                "theories", "rtpengine-bencode", "health", "valid-commands",
                "variations", "simple-connection"}

ASSUME Scripts \subseteq ScriptNames

NumProbes(sc) == FoldLeft(+, 0, Groups[sc])
Probes == 1..Max({NumProbes(sc) : sc \in Scripts})

(* No answer in the model holds a '{': the NG answer is bencode, and the   *)
(* cookies and error reasons here have none.                               *)
ASSUME \A sc \in Scripts : \A k \in 1..NumProbes(sc) :
          ~StrIn(<<"{">>, CookieOf[sc][k]) /\ ~StrIn(<<"{">>, ErrorReason)

VARIABLES
    script,      \* the script being run
    pc,          \* "send", "recv" or "done"
    cur,         \* the request being tried
    sock,        \* the port the script's socket is bound to, or NoPort
    usedPorts,   \* every port handed out so far
    net,         \* datagrams in flight or queued at a port
    got,         \* [request -> the answer the script read for it, or NoReply]
    verdict,     \* [request -> what the script concluded]
    answered     \* history: [to, result] for every answer RTPEngine sent

vars == <<script, pc, cur, sock, usedPorts, net, got, verdict, answered>>

(* The last request of the list holding request k.                         *)
GroupEnd(k) ==
    LET ends == {FoldLeft(+, 0, SubSeq(Groups[script], 1, g)) :
                    g \in 1..Len(Groups[script])}
    IN CHOOSE e \in ends : e >= k /\ \A f \in ends : f >= k => e <= f

SharedSocket == script \in {"correct-format", "final-format", "valid-commands"}
StopOnSuccess == script \in {"patterns", "comprehensive", "theories"}

(* The scripts that judge an answer, rather than only print it.            *)
Judging == script \notin {"correct-format", "valid-commands", "simple-connection"}

NoReply == [kind |-> "none"]
Request(p, k) == [kind |-> "req", port |-> p, probe |-> k]
Reply(p, k, r) == [kind |-> "reply", port |-> p, to |-> k, result |-> r]

(* The NG answer as test-final-format.py prints it:                        *)
(* 'cookie d6:result{len}:{result}e', an error with its error-reason.      *)
ReplyText(m) ==
    CookieOf[script][m.to] \o <<" ">> \o
    CASE m.result = "pong" -> Chars("d6:result4:ponge")
      [] m.result = "ok"   -> Chars("d6:result2:oke")
      [] m.result = "error" ->
            Chars("d6:result5:error12:error-reason") \o LenPrefixed(ErrorReason)
            \o <<"e">>

-----------------------------------------------------------------------------
(* The success tests, one per script, on the decoded answer.               *)

(* test-final-format.py: split off the cookie, look for pong or result.    *)
FinalFormatSuccess(text) ==
    LET parts == SplitOnce(text, " ")
    IN Len(parts) = 2 /\ (StrIn(Chars("pong"), parts[2])
                          \/ StrIn(Chars("result"), parts[2]))

(* test-rtpengine-patterns.py send_and_check_response, and the same test  *)
(* in test-bencode-comprehensive.py: any indicator word in text.lower().  *)
IndicatorSuccess(text) ==
    \E w \in {Chars("ok"), Chars("pong"), Chars("result")} : StrIn(w, Lower(text))

(* test-rtpengine-bencode.py: 'result' in the text, then 'ok' in it.       *)
ResultOkSuccess(text) ==
    StrIn(Chars("result"), text) /\ StrIn(Chars("ok"), text)

(* test-bencode-variations.py: 'ok' in the decoded answer.                *)
OkInTextSuccess(text) == StrIn(Chars("ok"), text)

(* test-rtpengine-health.py parse_response and test_health: the text      *)
(* between the first '{' and the last '}', loaded as JSON, has result ok.  *)
(* Without both, parse_response returns None and the check fails; the     *)
(* json.loads step is not reached under the ASSUME above.                  *)
HealthSuccess(text) == Find(text, "{", 0) # -1 /\ RFind(text, "}") # -1

(* The verdict a script reaches on an answer to request k.                 *)
Judge(k, text) ==
    CASE ~Judging                     -> "read"
      [] script = "final-format"      ->
            IF FinalFormatSuccess(text) THEN "success" ELSE "read"
      [] script = "patterns"          ->
            IF IndicatorSuccess(text) THEN "success" ELSE "fail"
      [] script = "comprehensive"     ->
            IF IndicatorSuccess(text) THEN "success" ELSE "read"
      [] script = "theories"          -> "success"
      [] script = "rtpengine-bencode" ->
            IF ResultOkSuccess(text) THEN "success" ELSE "fail"
      [] script = "variations"        ->
            IF OkInTextSuccess(text) THEN "success" ELSE "read"
      [] script = "health"            ->
            IF k = 1 \/ HealthSuccess(text) THEN "success" ELSE "fail"

(* Request 1 of the health check is test_connectivity, which passes on a  *)
(* timeout too.                                                            *)
TimeoutVerdict(k) == IF script = "health" /\ k = 1 THEN "success" ELSE "timeout"

-----------------------------------------------------------------------------
Init ==
    /\ script \in Scripts
    /\ pc = "send"
    /\ cur = 1
    /\ sock = NoPort
    /\ usedPorts = {}
    /\ net = {}
    /\ got = [k \in Probes |-> NoReply]
    /\ verdict = [k \in Probes |-> "none"]
    /\ answered = {}

(* The port sendto binds an unbound socket to.                             *)
OfferedPorts ==
    IF FreshPorts
      THEN IF Ports \ usedPorts = {} THEN {}
           ELSE {CHOOSE p \in Ports \ usedPorts : TRUE}
      ELSE Ports

(* socket(), settimeout() and sendto() of the request: a socket per        *)
(* request, or the run's one socket, bound at its first sendto.            *)
Send ==
    /\ pc = "send"
    /\ \E p \in IF sock # NoPort THEN {sock} ELSE OfferedPorts :
          /\ sock' = p
          /\ usedPorts' = usedPorts \cup {p}
          /\ net' = net \cup {Request(p, cur)}
    /\ pc' = "recv"
    /\ UNCHANGED <<script, cur, got, verdict, answered>>

(* The end of the list tested one request late.                            *)
AdvancePastEnd(v) ==
    LET next == IF StopOnSuccess /\ v = "success" THEN GroupEnd(cur) + 1
                ELSE cur + 1
    IN /\ pc' = IF next > NumProbes(script) + 1 THEN "done" ELSE "send"
       /\ cur' = IF next > NumProbes(script) + 1 THEN cur ELSE next
       /\ sock' = IF SharedSocket /\ next <= NumProbes(script) THEN sock ELSE NoPort

(* After request cur ends with verdict v: the next request, the first of  *)
(* the next list after a success that ends the list, or the end; a         *)
(* per-request socket is closed.                                           *)
Advance(v) ==
    LET next == IF StopOnSuccess /\ v = "success" THEN GroupEnd(cur) + 1
                ELSE cur + 1
    IN /\ pc' = IF next > NumProbes(script) THEN "done" ELSE "send"
       /\ cur' = IF next > NumProbes(script) THEN cur ELSE next
       /\ sock' = IF SharedSocket /\ next <= NumProbes(script) THEN sock ELSE NoPort

(* recvfrom returns the first datagram queued at the socket's port and the *)
(* script judges it as the answer to the request it just sent.             *)
Recv(m) ==
    /\ pc = "recv"
    /\ m.kind = "reply" /\ m.port = sock
    /\ net' = net \ {m}
    /\ got' = [got EXCEPT ![cur] = m]
    /\ verdict' = [verdict EXCEPT ![cur] = Judge(cur, ReplyText(m))]
    /\ Advance(verdict'[cur])
    /\ UNCHANGED <<script, usedPorts, answered>>

(* No settimeout: recvfrom waits for ever.                                 *)
TimeoutUnset == FALSE

(* socket.timeout: nothing arrived within the timeout.                     *)
Timeout ==
    /\ pc = "recv"
    /\ verdict' = [verdict EXCEPT ![cur] = TimeoutVerdict(cur)]
    /\ Advance(verdict'[cur])
    /\ UNCHANGED <<script, usedPorts, net, got, answered>>

(* RTPEngine answers a request with one of the results, to the port it    *)
(* came from.                                                              *)
Answer(m) ==
    /\ m.kind = "req"
    /\ \E r \in Results :
          /\ net' = (net \ {m}) \cup {Reply(m.port, m.probe, r)}
          /\ answered' = answered \cup {[to |-> m.probe, result |-> r]}
    /\ UNCHANGED <<script, pc, cur, sock, usedPorts, got, verdict>>

(* UDP loses a datagram, or it reaches a port with no socket.              *)
Lose(m) ==
    /\ net' = net \ {m}
    /\ UNCHANGED <<script, pc, cur, sock, usedPorts, got, verdict, answered>>

ScriptStep == Send \/ Timeout \/ \E m \in net : Recv(m)

Next ==
    \/ ScriptStep
    \/ \E m \in net : Answer(m) \/ Lose(m)

(* The script is one thread whose recvfrom always returns within the      *)
(* timeout; RTPEngine and the network promise nothing.                     *)
Spec == Init /\ [][Next]_vars /\ WF_vars(ScriptStep)

-----------------------------------------------------------------------------
Datagrams ==
    {Request(p, k) : p \in Ports, k \in Probes}
    \cup {Reply(p, k, r) : p \in Ports, k \in Probes, r \in Results}

TypeOK ==
    /\ script \in Scripts
    /\ pc \in {"send", "recv", "done"}
    /\ cur \in Probes
    /\ sock \in Ports \cup {NoPort}
    /\ usedPorts \subseteq Ports
    /\ net \subseteq Datagrams
    /\ got \in [Probes -> Datagrams \cup {NoReply}]
    /\ verdict \in [Probes -> {"none", "read", "success", "fail", "timeout"}]
    /\ answered \subseteq [to : Probes, result : Results]

(* What a script prints or judges as the answer to a request is            *)
(* RTPEngine's answer to that request: recvfrom after sendto never hands   *)
(* the script an answer that belongs to an earlier request.  It fails for *)
(* the shared-socket scripts and, with FreshPorts = FALSE, for the others; *)
(* with fresh per-request sockets it holds by construction, so no run      *)
(* checks it.                                                              *)
ReplyIsOwn == \A k \in Probes : got[k] # NoReply => got[k].to = k

(* A request the script reports as a success was answered by RTPEngine,    *)
(* with a result other than error, and that answer is what it read.        *)
SuccessMeansAccepted ==
    \A k \in Probes :
        verdict[k] = "success" /\ ~(script = "health" /\ k = 1) =>
            got[k] # NoReply /\ got[k].to = k /\ got[k].result # "error"

(* A request whose own answer from RTPEngine, pong or ok, the script read  *)
(* is reported as a success by every script that judges answers: the      *)
(* success tests recognise the answer a working RTPEngine gives.  It      *)
(* fails for health, variations and rtpengine-bencode, and holds by the    *)
(* shape of the other success tests, so no run checks it.                 *)
AcceptedMeansSuccess ==
    Judging => \A k \in Probes :
        got[k] # NoReply /\ got[k].to = k /\ got[k].result \in {"pong", "ok"} =>
            verdict[k] = "success"

(* Every run of the script ends: each recvfrom returns or times out.       *)
Termination == <>(pc = "done")

=============================================================================
