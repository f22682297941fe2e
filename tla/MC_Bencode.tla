---------------------------- MODULE MC_Bencode ----------------------------
(* Bounded inputs for the bencode parser, the pre-send validator and the   *)
(* encoders.                                                               *)
EXTENDS Bencode

(* Every payload of up to MaxRawLen characters over the type markers, ':' *)
(* and a digit.                                                            *)
MCRawChars == {"d", "l", "i", "e", ":", "0"}

MCInts == {[t |-> "int", n |-> k] : k \in {-1, 0, 12}}
MCStrs == {Str(s) : s \in {<<>>, <<"e">>, <<"1", ":">>}}
MCAtoms == MCInts \cup MCStrs
MCDicts == {[t |-> "dict", map |-> f] :
              f \in UNION {[K -> MCAtoms] :
                 K \in {K \in SUBSET {Str(<<"a">>), Str(<<"b">>), Str(<<>>)} :
                          Cardinality(K) <= 2}}}
MCLists == {[t |-> "list", items |-> s] : s \in BoundedSeq(MCAtoms, 2)}
MCRefValues == MCAtoms \cup MCDicts \cup MCLists
               \cup {[t |-> "list", items |-> <<d>>] : d \in MCDicts}

(* Cookies around the length boundaries, one with bencode markers in it;   *)
(* a 10-character JSON text so that its length takes two digits,          *)
(* and a command word with a blank in it, as test-valid-commands.py sends  *)
(* ("start recording").                                                    *)
MCCookies == {<<>>, <<"1", "2">>, <<"e", ":", "i">>}
MCCommands == {[word |-> <<"p", "i", "n", "g">>,
                json |-> <<"{", "p", "i", "n", "g", ":", "1", "0", "e", "}">>],
               [word |-> Chars("stop rec"), json |-> Chars("{}")]}

(* A ten-digit str(int(time.time())).                                      *)
MCSessionIds == {Chars("1700000000")}
=============================================================================
