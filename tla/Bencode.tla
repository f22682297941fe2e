------------------------------ MODULE Bencode ------------------------------
(***************************************************************************)
(* The bencode used on the RTPEngine NG control socket, as the scripts     *)
(* under scripts/ build and check it.  A byte string is a sequence of      *)
(* one-character strings; positions are Python's 0-based ones.             *)
(*   ParseBencode    validate-bencode-structure.py parse_bencode           *)
(*   ValidateBencodeStructure  test-bencode-basic.py (pre-send check)      *)
(*   the f-string encoders of test-proper-bencode.py,                      *)
(*   test-rtpengine-patterns.py and test-rtpengine-health.py               *)
(* Values are Python values: [t |-> "str", s], [t |-> "int", n],           *)
(* [t |-> "list", items], [t |-> "dict", map] (keys are strings).          *)
(***************************************************************************)
EXTENDS PyText, SequencesExt, FiniteSets

CONSTANTS
    RawChars,    \* characters of the arbitrary payloads enumerated
    MaxRawLen,   \* longest arbitrary payload
    RefValues,   \* Python values encoded by the reference encoder
    Cookies,     \* cookie strings given to the encoders
    Commands,    \* commands: [word, json] texts
    SessionIds   \* str(int(time.time())) texts of test-duplicate-detection.py

VARIABLES
    input,       \* [origin, data, value]: the payload under test
    parsed,      \* what parse_bencode returned for it
    verdict,     \* what validate_bencode_formats printed
    basic        \* what validate_bencode_structure returned

vars == <<input, parsed, verdict, basic>>

Str(s) == [t |-> "str", s |-> s]
NoValue == [t |-> "none"]
Fail == [ok |-> FALSE, val |-> NoValue, pos |-> -1]
Done(v, p) == [ok |-> TRUE, val |-> v, pos |-> p]
EmptyDict == [k \in {} |-> NoValue]

-----------------------------------------------------------------------------
(* parse_bencode.parse_value: one value starting at pos.                   *)
RECURSIVE ParseValue(_, _), ParseDictItems(_, _, _), ParseListItems(_, _, _),
          ParseDictItemsAnyKey(_, _, _)

ParseValue(data, pos) ==
    IF pos >= Len(data) THEN Fail
    ELSE LET ch == At(data, pos) IN
    CASE ch = "d" -> ParseDictItems(data, pos + 1, EmptyDict)
      [] ch = "l" -> ParseListItems(data, pos + 1, <<>>)
      [] ch = "i" ->
            LET end == Find(data, "e", pos + 1)
                n   == PyInt(Slice(data, pos + 1, end))
            IN IF end = -1 \/ ~n.ok THEN Fail
               ELSE Done([t |-> "int", n |-> n.n], end + 1)
      [] IsDigit(ch) ->
            LET colon  == Find(data, ":", pos)
                length == PyInt(Slice(data, pos, colon))
                start  == colon + 1
            IN IF colon = -1 \/ ~length.ok THEN Fail
               ELSE IF start + length.n > Len(data) THEN Fail
               ELSE Done(Str(Slice(data, start, start + length.n)),
                         start + length.n)
      [] OTHER -> Fail

(* A dictionary loop without the isinstance(key, str) check.              *)
ParseDictItemsAnyKey(data, pos, acc) ==
    IF pos < Len(data) /\ At(data, pos) # "e"
      THEN LET key == ParseValue(data, pos) IN
           IF ~key.ok THEN Fail
           ELSE LET val == ParseValue(data, key.pos) IN
                IF ~val.ok THEN Fail
                ELSE ParseDictItemsAnyKey(data, val.pos,
                                          (key.val :> val.val) @@ acc)
    ELSE IF pos >= Len(data) THEN Fail
    ELSE Done([t |-> "dict", map |-> acc], pos + 1)

(* The `while data[pos] != 'e'` loop of a dictionary: a key that must be a *)
(* str, then its value; a repeated key overwrites (result[key] = value).   *)
ParseDictItems(data, pos, acc) ==
    IF pos < Len(data) /\ At(data, pos) # "e"
      THEN LET key == ParseValue(data, pos) IN
           IF ~key.ok \/ key.val.t # "str" THEN Fail
           ELSE LET val == ParseValue(data, key.pos) IN
                IF ~val.ok THEN Fail
                ELSE ParseDictItems(data, val.pos, (key.val :> val.val) @@ acc)
    ELSE IF pos >= Len(data) THEN Fail
    ELSE Done([t |-> "dict", map |-> acc], pos + 1)

ParseListItems(data, pos, acc) ==
    IF pos < Len(data) /\ At(data, pos) # "e"
      THEN LET item == ParseValue(data, pos) IN
           IF ~item.ok THEN Fail
           ELSE ParseListItems(data, item.pos, Append(acc, item.val))
    ELSE IF pos >= Len(data) THEN Fail
    ELSE Done([t |-> "list", items |-> acc], pos + 1)

(* parse_bencode: one value and nothing after it; any exception becomes    *)
(* the "Parse error: ..." string, here ok = FALSE.                         *)
ParseBencode(data) ==
    LET r == ParseValue(data, 0)
    IN IF r.ok /\ r.pos = Len(data) THEN r ELSE Fail

-----------------------------------------------------------------------------
(* test-bencode-basic.py validate_bencode_structure: "d...e", then walk    *)
(* key/value string lengths until something that is not a digit.  Returns  *)
(* "True", "False", or "raise" when int() raises ValueError (the caller    *)
(* does not catch it).                                                     *)
RECURSIVE ValidateLoop(_, _)
ValidateLoop(s, i) ==
    IF ~(i < Len(s) - 1) \/ ~IsDigit(At(s, i)) THEN "True"
    ELSE LET colon == Find(s, ":", i)
             keyLen == PyInt(Slice(s, i, colon))
             keyEnd == colon + 1 + keyLen.n
         IN IF colon = -1 THEN "False"
            ELSE IF ~keyLen.ok THEN "raise"
            ELSE IF keyEnd >= Len(s) THEN "False"
            ELSE IF keyEnd >= Len(s) - 1 \/ ~IsDigit(At(s, keyEnd)) THEN "True"
            ELSE LET valColon == Find(s, ":", keyEnd)
                     valLen == PyInt(Slice(s, keyEnd, valColon))
                     valEnd == valColon + 1 + valLen.n
                 IN IF valColon = -1 THEN "False"
                    ELSE IF ~valLen.ok THEN "raise"
                    ELSE IF valEnd > Len(s) THEN "False"
                    ELSE ValidateLoop(s, valEnd)

ValidateBencodeStructure(s) ==
    IF s = <<>> \/ Head(s) # "d" \/ Last(s) # "e" THEN "False"
    ELSE ValidateLoop(s, 1)

-----------------------------------------------------------------------------
(* The f-string encoders.  A command is its json.dumps text and, for the   *)
(* raw variants, its bare word; the JSON text itself is not modelled.      *)
KeyCommand == <<"c", "o", "m", "m", "a", "n", "d">>
KeyCookie  == <<"c", "o", "o", "k", "i", "e">>
KeyCallId  == <<"c", "a", "l", "l", "-", "i", "d">>

(* A field whose value length is taken from the key.                      *)
StrFieldKeyLen(k, v) ==
    Decimal(Len(k)) \o <<":">> \o k \o Decimal(Len(k)) \o <<":">> \o v

(* f'{len(k)}:{k}{len(v)}:{v}': one string key and string value.          *)
StrField(k, v) ==
    Decimal(Len(k)) \o <<":">> \o k \o Decimal(Len(v)) \o <<":">> \o v

Dict(fields) == <<"d">> \o FlattenSeq(fields) \o <<"e">>

create_proper_bencode(cookie, command) ==
    Dict(<<StrField(KeyCommand, command.json), StrField(KeyCookie, cookie)>>)

create_minimal_bencode(cookie, command) ==
    Dict(<<StrField(KeyCommand, command.word), StrField(KeyCookie, cookie)>>)

format_standard_ng(cookie, command) ==
    Dict(<<StrField(KeyCookie, cookie), StrField(KeyCommand, command.json)>>)

(* extra_fields is {"call-id": ""} in test_rtpengine_source_patterns.      *)
format_with_call_id(cookie, command) ==
    Dict(<<StrField(KeyCookie, cookie), StrField(KeyCallId, <<>>),
           StrField(KeyCommand, command.json)>>)

(* json.dumps with ", " and ": " separators: another JSON text, same shape. *)
format_kamailio_style(cookie, command) == format_standard_ng(cookie, command)

format_opensips_style(cookie, command) == create_proper_bencode(cookie, command)

format_minimal(cookie, command) ==
    Dict(<<StrField(KeyCookie, cookie), StrField(KeyCommand, command.word)>>)

(* RTPEngineHealthChecker.create_ping_command: no cookie at all.           *)
create_ping_command(command) == Dict(<<StrField(KeyCommand, command.json)>>)

(* test-rtpengine-bencode.py create_bencode_command: cookie, then command. *)
create_bencode_command(cookie, command) ==
    Dict(<<StrField(KeyCookie, cookie), StrField(KeyCommand, command.json)>>)

(* test-valid-commands.py create_rtpengine_message: the raw command word *)
(* alone; the cookie goes in front of the dictionary, 'cookie d...e'.      *)
create_rtpengine_message(command) == Dict(<<StrField(KeyCommand, command.word)>>)

Encoders == {"create_proper_bencode", "create_minimal_bencode",
             "format_standard_ng", "format_with_call_id",
             "format_kamailio_style", "format_opensips_style",
             "format_minimal", "create_ping_command", "create_bencode_command",
             "create_rtpengine_message"}

Encode(name, cookie, command) ==
    CASE name = "create_proper_bencode"  -> create_proper_bencode(cookie, command)
      [] name = "create_minimal_bencode" -> create_minimal_bencode(cookie, command)
      [] name = "format_standard_ng"     -> format_standard_ng(cookie, command)
      [] name = "format_with_call_id"    -> format_with_call_id(cookie, command)
      [] name = "format_kamailio_style"  -> format_kamailio_style(cookie, command)
      [] name = "format_opensips_style"  -> format_opensips_style(cookie, command)
      [] name = "format_minimal"         -> format_minimal(cookie, command)
      [] name = "create_ping_command"    -> create_ping_command(command)
      [] name = "create_bencode_command" -> create_bencode_command(cookie, command)
      [] name = "create_rtpengine_message" -> create_rtpengine_message(command)

(* The dictionary each encoder means to send.                              *)
Intended(name, cookie, command) ==
    LET cmd == IF name \in {"create_minimal_bencode", "format_minimal",
                            "create_rtpengine_message"}
                 THEN command.word ELSE command.json
        base == (Str(KeyCommand) :> Str(cmd))
        withCookie == IF name \in {"create_ping_command", "create_rtpengine_message"}
                      THEN base
                      ELSE (Str(KeyCookie) :> Str(cookie)) @@ base
    IN [t |-> "dict",
        map |-> IF name = "format_with_call_id"
                  THEN (Str(KeyCallId) :> Str(<<>>)) @@ withCookie
                  ELSE withCookie]

-----------------------------------------------------------------------------
(* Payloads whose key lengths, and some value lengths, are typed by hand.  *)
(* A byte \x00..\x07 of a bytes literal is written "#": like it, "#" is    *)
(* no digit, ':' or bencode marker.                                        *)

PingJson == Chars("{\"command\":\"ping\"}")

(* test-duplicate-detection.py create_bencode_variations for one          *)
(* session_id; the numeric cookie is str(int(time.time() * 1000)).         *)
create_bencode_variations(sid) ==
    LET base    == Chars("test_") \o sid
        callId  == Chars("testcall")
        cmd2    == Chars("{\"command\":\"ping\",\"call-id\":\"") \o callId
                   \o Chars("\"}")
        trans   == Chars("trans_") \o sid
        numeric == sid \o Chars("123")
        WithCookie(c) == Chars("d6:cookie") \o LenPrefixed(c)
        PingTail == Chars("7:command") \o LenPrefixed(PingJson) \o <<"e">>
    IN {WithCookie(base) \o PingTail,
        WithCookie(base) \o Chars("7:call-id") \o LenPrefixed(callId)
            \o Chars("7:command") \o LenPrefixed(cmd2) \o <<"e">>,
        WithCookie(base) \o Chars("12:transaction-id") \o LenPrefixed(trans)
            \o PingTail,
        WithCookie(base) \o Chars("7:command4:pinge"),
        WithCookie(Chars("test123")) \o PingTail,
        WithCookie(numeric) \o PingTail}

(* test-bencode-comprehensive.py: the ten test_cases payloads, and the    *)
(* f-string of test_working_kamailio_format.                               *)
ComprehensiveCases ==
  {Chars("d6:cookie10:abc1234567:command18:{\"command\":\"ping\"}e"),
   Chars("d6:cookie10:abc12345677:call-id4:test7:command18:{\"command\":\"ping\"}e"),
   Chars("d7:command18:{\"command\":\"ping\"}6:cookie10:abc123456e"),
   Chars("d6:cookie8:testcook7:command17:{\"command\":\"ping\"}e"),
   Chars("d6:cookie9:test12347:command17:{\"command\":\"ping\"}e"),
   Chars("d6:cookie8:testcook7:command36:{\"command\":\"ping\",\"call-id\":\"\"}e"),
   Chars("d6:cookie8:testcook7:call-id4:test7:command36:{\"command\":\"ping\",\"call-id\":\"test\"}e"),
   Chars("d6:cookie4:test7:command15:{\"command\":\"p\"}e"),
   Chars("d6:cookie12:test123456789:transact12:transaction017:command17:{\"command\":\"ping\"}e"),
   Chars("d6:cookie16:testcookie123457:call-id8:testcall8:from-tag7:fromtag6:to-tag5:totag7:command75:{\"command\":\"ping\",\"call-id\":\"testcall\",\"from-tag\":\"fromtag\",\"to-tag\":\"totag\"}e")}

KamailioTest ==
    LET cookie == Chars("kamailio_test")
        json   == Chars("{\"command\": \"ping\"}")
    IN Chars("d6:cookie") \o LenPrefixed(cookie) \o Chars("7:command")
       \o LenPrefixed(json) \o <<"e">>

(* test-rtpengine-theories.py: the bencode of each theory before any      *)
(* length prefix, magic or re-encoding is put around it.                   *)
BinaryCookieCases ==
  {Chars("d6:cookie4:####7:command17:{\"command\":\"ping\"}e"),
   Chars("d6:cookie8:########7:command17:{\"command\":\"ping\"}e"),
   Chars("d6:cookie5:test#7:command17:{\"command\":\"ping\"}e")}

CaseSensitivityCases ==
  {Chars("d6:Cookie4:test7:command17:{\"command\":\"ping\"}e"),
   Chars("d6:COOKIE4:test7:command17:{\"command\":\"ping\"}e"),
   Chars("d6:cookie4:test7:Command17:{\"command\":\"ping\"}e"),
   Chars("d6:cookie4:test7:COMMAND17:{\"command\":\"ping\"}e")}

ProtocolVersionCases ==
  {Chars("d7:version1:17:command17:{\"command\":\"ping\"}6:cookie4:teste"),
   Chars("d8:protocol2:ng7:command17:{\"command\":\"ping\"}6:cookie4:teste"),
   Chars("d2:ng35:d6:cookie4:test7:command17:{\"command\":\"ping\"}ee")}

(* The payload of test_encoding_variations and test_packet_structure.      *)
TheoryBasePayload == Chars("d6:cookie4:test7:command17:{\"command\":\"ping\"}e")

(* test-bencode-variations.py: the seven test_cases payloads.              *)
VariationCases ==
  {Chars("d6:cookie16:testcookie12347:command18:{\"command\":\"ping\"}e"),
   Chars("d6:cookie18:\"testcookie1234\"7:command18:{\"command\":\"ping\"}e"),
   Chars("d7:command18:{\"command\":\"ping\"}6:cookie16:testcookie1234e"),
   Chars("d6:cookie16:testcookie1234e{\"command\":\"ping\"}"),
   Chars("d6:cookie4:test7:command18:{\"command\":\"ping\"}e"),
   Chars("d6:cookie16:testcookie12347:call-id0:7:command18:{\"command\":\"ping\"}e"),
   Chars("d6:cookie32:74657374636f6f6b69653132333435363738393031327:command18:{\"command\":\"ping\"}e")}

(* test-simple-connection.py, test 3 ("our standard bencode format"); test *)
(* 2 is broken on purpose and test 1 is no bencode.                         *)
SimpleConnectionCase == Chars("d6:cookie8:simple127:command17:{\"command\":\"ping\"}e")

(* test-bencode-basic.py test_basic_bencode_structures: the eight         *)
(* test_cases payloads, each first given to validate_bencode_structure.    *)
BasicCases ==
  {Chars("de"), Chars("d4:test4:datae"), Chars("d6:cookie4:teste"),
   Chars("d7:command4:pinge"), Chars("d6:cookie4:test7:command4:pinge"),
   Chars("d6:cookie4:test7:command17:{\"command\":\"ping\"}e"),
   Chars("d6:cookie12:test_cookie_17:command17:{\"command\":\"ping\"}e"),
   Chars("d6:cookie8:123456787:command17:{\"command\":\"ping\"}e")}

HandTyped ==
    {[origin |-> "test-duplicate-detection", data |-> d, value |-> NoValue] :
        d \in UNION {create_bencode_variations(sid) : sid \in SessionIds}}
    \cup {[origin |-> "test-bencode-comprehensive", data |-> d, value |-> NoValue] :
            d \in ComprehensiveCases \cup {KamailioTest}}
    \cup {[origin |-> "test-rtpengine-theories", data |-> d, value |-> NoValue] :
            d \in BinaryCookieCases \cup CaseSensitivityCases
                   \cup ProtocolVersionCases \cup {TheoryBasePayload}}
    \cup {[origin |-> "test-bencode-variations", data |-> d, value |-> NoValue] :
            d \in VariationCases}
    \cup {[origin |-> "test-simple-connection", data |-> SimpleConnectionCase,
           value |-> NoValue]}
    \cup {[origin |-> "test-bencode-basic", data |-> d, value |-> NoValue] :
            d \in BasicCases}

HandTypedOrigins == {"test-duplicate-detection", "test-bencode-comprehensive",
                     "test-rtpengine-theories", "test-bencode-variations",
                     "test-simple-connection", "test-bencode-basic"}

-----------------------------------------------------------------------------
(* Reference: the canonical bencoding of BEP 3 (no leading zeros, no -0,   *)
(* dictionary keys as raw strings in sorted order).                        *)
ByteOrder == <<"-", "0", "1", "2", "3", "4", "5", "6", "7", "8", "9", ":",
               "a", "b", "c", "d", "e", "f", "g", "h", "i", "j", "k", "l",
               "m", "n", "o", "p", "q", "r", "s", "t", "u", "v", "w", "x",
               "y", "z">>

ByteRank(c) == CHOOSE k \in 1..Len(ByteOrder) : ByteOrder[k] = c

RECURSIVE BytesLess(_, _)
BytesLess(a, b) ==
    /\ b # <<>>
    /\ \/ a = <<>>
       \/ ByteRank(Head(a)) < ByteRank(Head(b))
       \/ Head(a) = Head(b) /\ BytesLess(Tail(a), Tail(b))

IntText(n) == IF n < 0 THEN <<"-">> \o Decimal(-n) ELSE Decimal(n)

RECURSIVE Bencoded(_)
Bencoded(v) ==
    CASE v.t = "int"  -> <<"i">> \o IntText(v.n) \o <<"e">>
      [] v.t = "str"  -> Decimal(Len(v.s)) \o <<":">> \o v.s
      [] v.t = "list" -> <<"l">> \o FlattenSeq([k \in 1..Len(v.items) |->
                                        Bencoded(v.items[k])]) \o <<"e">>
      [] v.t = "dict" ->
            LET keys == SetToSortSeq(DOMAIN v.map,
                                     LAMBDA x, y : BytesLess(x.s, y.s))
            IN <<"d">> \o FlattenSeq([k \in 1..Len(keys) |->
                             Bencoded(keys[k]) \o Bencoded(v.map[keys[k]])])
               \o <<"e">>

-----------------------------------------------------------------------------
Inputs ==
    {[origin |-> "raw", data |-> d, value |-> NoValue] :
        d \in BoundedSeq(RawChars, MaxRawLen)}
    \cup {[origin |-> "reference", data |-> Bencoded(v), value |-> v] :
            v \in RefValues}
    \cup {[origin |-> e, data |-> Encode(e, c, m), value |-> Intended(e, c, m)] :
            e \in Encoders, c \in Cookies, m \in Commands}
    \cup HandTyped

Init ==
    /\ input \in Inputs
    /\ parsed = Fail
    /\ verdict = "pending"
    /\ basic = "pending"

(* One pass of the checking loops: parse_bencode and the printed verdict   *)
(* (validate_bencode_formats), validate_bencode_structure (the warning of  *)
(* test_basic_bencode_structures).                                         *)
CheckPayload ==
    /\ verdict = "pending"
    /\ parsed' = ParseBencode(input.data)
    /\ verdict' =
         IF parsed'.ok /\ parsed'.val.t = "dict"
           THEN IF {Str(KeyCookie), Str(KeyCommand)} \subseteq DOMAIN parsed'.val.map
                  THEN "valid, has cookie and command" ELSE "valid, missing fields"
           ELSE "invalid"
    /\ basic' = ValidateBencodeStructure(input.data)
    /\ UNCHANGED input

Next == CheckPayload

Spec == Init /\ [][Next]_vars

-----------------------------------------------------------------------------
RECURSIVE IsPyValue(_)
IsPyValue(v) ==
    CASE v.t = "str"  -> v.s \in Seq(STRING)
      [] v.t = "int"  -> v.n \in Int
      [] v.t = "list" -> \A k \in 1..Len(v.items) : IsPyValue(v.items[k])
      [] v.t = "dict" -> \A k \in DOMAIN v.map : k.t = "str" /\ IsPyValue(v.map[k])
      [] OTHER        -> FALSE

(* Besides the shapes of the variables: every value parse_bencode returns  *)
(* is a Python value whose dictionaries are keyed by str (its              *)
(* isinstance(key, str) check).                                            *)
TypeOK ==
    /\ input.data \in Seq(STRING)
    /\ parsed.ok => IsPyValue(parsed.val)
    /\ verdict \in {"pending", "invalid", "valid, missing fields",
                    "valid, has cookie and command"}
    /\ basic \in {"pending", "True", "False", "raise"}

(* parse_bencode decodes exactly what was encoded: the canonical bencoding *)
(* of every reference value, and every encoder's payload, parse back to    *)
(* the value they stand for.                                               *)
ParsesToIntended ==
    verdict # "pending" /\ input.origin \in Encoders \cup {"reference"} =>
        parsed.ok /\ parsed.val = input.value

(* validate_bencode_structure says it checks "that string lengths match   *)
(* actual content" (test-bencode-basic.py:102): on the payloads            *)
(* test_basic_bencode_structures gives it, dictionaries of length-prefixed *)
(* strings, it returns True only when every length matches, that is only   *)
(* when parse_bencode accepts the payload.                                 *)
StringLengthsChecked ==
    basic # "pending" /\ input.origin = "test-bencode-basic" =>
        (basic = "True" => parsed.ok)

(* Every dictionary the probing scripts type out by hand, with its length *)
(* prefixes, is one parse_bencode accepts: each script sends them to learn *)
(* how RTPEngine reads a well-formed request, and reads its silence as     *)
(* "this theory doesn't work".                                             *)
HandTypedWellFormed ==
    verdict # "pending" /\ input.origin \in HandTypedOrigins =>
        parsed.ok /\ parsed.val.t = "dict"

(* Every encoder's payload that parse_bencode accepts is canonical bencode *)
(* (test-proper-bencode.py: "Keys must be in lexicographical order").      *)
EncodedCanonical ==
    verdict # "pending" /\ input.origin \in Encoders /\ parsed.ok =>
        Bencoded(parsed.val) = input.data

=============================================================================
