---------------------------- MODULE MC_RtpProbe ----------------------------
(* The probing scripts, each with a few of its requests.                   *)
EXTENDS RtpProbe

CONSTANTS p1, p2, p3

MCPorts == {p1, p2, p3}
MCReason == Chars("Unknown command")

(* The request lists of each script, cut to two or three requests:         *)
(*   theories: two theories, of two and one payloads;                      *)
(*   the others: one list (simple-connection's three tests, the cases of  *)
(*   comprehensive and variations, the commands of valid-commands).        *)
MCGroups ==
    [sc \in ScriptNames |->
        CASE sc = "theories" -> <<2, 1>>
          [] sc = "health"   -> <<1, 1>>
          [] OTHER           -> <<2>>]

(* The cookie each request carries:                                        *)
(*   final-format: f"test{int(time.time())}_{i}";                         *)
(*   patterns: the session cookie f"test_{session_id}";                   *)
(*   valid-commands: f"test_{int(time.time())}" for every command;         *)
(*   rtpengine-bencode: generate_cookie(), 16 random characters of        *)
(*   [a-z0-9], one of the draws spelling "ok";                             *)
(*   the others send bencode with no NG cookie in front of it.             *)
MCCookies ==
    [sc \in ScriptNames |->
        CASE sc = "theories"          -> [k \in 1..3 |-> Chars("test")]
          [] sc = "final-format"      -> [k \in 1..2 |-> Chars("test1700000000_") \o Decimal(k)]
          [] sc = "patterns"          -> [k \in 1..2 |-> Chars("test_123456")]
          [] sc = "valid-commands"    -> [k \in 1..2 |-> Chars("test_1700000000")]
          [] sc = "rtpengine-bencode" -> <<Chars("q7v0k2m9x4c1z8ab"), Chars("x0ok3m9a7c1z8b2q")>>
          [] OTHER                    -> [k \in 1..2 |-> <<>>]]
=============================================================================
