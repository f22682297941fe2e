# TLA+ models of voice-ferry's session-limit machinery and its test clients

voice-ferry is a SIP B2BUA with a per-user session admission controller
(`spec.md`). The B2BUA itself (Go) is not part of `src/`. What `src/` holds is
the Python code that drives it and the RTPEngine media relay beside it. That
code consists of:

- stress and functional test clients speaking raw SIP over UDP;
- gRPC and HTTP clients of the limit registry;
- a family of scripts that build, validate and send bencoded RTPEngine NG
  control messages over UDP.

This project models:

- the admission controller, from `spec.md`, marked `spec_modelled` in
  `PROJECT.json`;
- the Python clients, from their source, with the controller as the server
  they talk to.

## 1. Inventory

### Components and how they interact

| Component | Code | State | Operations |
|---|---|---|---|
| Admission controller | B2BUA (not in `src/`), `spec.md` | limit registry (default, per-user overrides, enabled, overflow action); counter store (per-user counters, reachable or not); session ledger (per-user, oldest first); stats (rejection count since start) | TryAdmit (Allowed, Rejected, AllowedWithEviction, untracked, backend failure), ReleaseSession, SetUserLimit, DeleteUserLimit, store outage and recovery, restart |
| Stress test client | `testing/python/test_session_limits_stress.py` | main thread phase; executor work queue; per worker: task, chosen port, socket, response, counter value read; shared `test_results`; monitor peak | setup, submit, take task, `_get_free_port`, bind and send INVITE, recv or timeout, classify, `+= 1` on counters, append details, monitor sample |
| Bencode tooling | `scripts/validate-bencode-structure.py`, `test-bencode-basic.py`, `test-proper-bencode.py`, the encoders of `test-rtpengine-patterns.py`, `test-rtpengine-health.py`, `test-rtpengine-bencode.py`, `test-duplicate-detection.py`, and the hand-typed payloads of `test-bencode-comprehensive.py` and `test-rtpengine-theories.py` | none beyond the payload under test | `parse_bencode`, `validate_bencode_structure`, ten f-string encoders, 28 hand-typed payloads, the checking loops |
| RTPEngine probe clients | `test-correct-rtpengine-format.py`, `test-final-format.py`, `test-rtpengine-patterns.py`, `test-bencode-comprehensive.py`, `test-rtpengine-theories.py`, `test-rtpengine-bencode.py`, `test-rtpengine-health.py`, and others of the same shape | a UDP socket per request or one per run; the request being tried | send request, recv with timeout, judge the answer by substring, next request or next list |
| Registry API clients | `test_web_ui_per_user_limits*.py`, `test_per_user_limits.py`, `test_comprehensive_per_user_limits.py`, `test_simple_per_user_limits.py` | the registry's overrides, shared by successive runs; per run: next request, pass and total counts, the previous check's result | login, get config, set/get/delete user limit, stats, check each answer, stop or go on, cleanup in a `finally`, verdict |
| Sequential limit tests | `utilities/verify_session_limits.py`, `simple_session_test.py`, `test_same_user_limits.py`, `test_simple_session_limits.py`, `test_session_simple.py` (gRPC); `test_session_limits.py`, `test_minimal_limits.py` (UDP); `quick_test.py` | per-call results, the call ids received | InitiateCall, classify, verdict, TerminateCall for each call id |
| SIP auth clients | `test_full_auth.py`, `test_sip_client.py`, `test_simple_sip.py` | nonce, CSeq | REGISTER, 401, authenticated REGISTER |
| Redis checks | `test_redis_integration.py`, `test_redis_complete.py` | none | sequential API probes of the store |
| Routing utilities | `utilities/add_user888_rule.py`, `fix_routing_rule.py`, `fix_next_hop_uris.py`, `test_grpc_api.py`, `test_connectivity.py` | none | one-shot gRPC calls |

The test clients talk to the B2BUA in three ways:

- UDP SIP on port 5060. Replies go to the port named in the Via header, which
  is the client's bound port.
- gRPC on port 50051: InitiateCall, TerminateCall, GetActiveCalls and
  ListRoutingRules. InitiateCall runs the admission for the caller.
- HTTP for the web UI.

The UDP path carries concurrency, loss and reordering. The gRPC path is
sequential, but a channel can break after the server has acted. The clients share
the controller's per-user counters, so one test's leftover sessions are the
next test's starting state.

### The hard behaviours the code meets

- **Worker threads and shared counters.** The stress test's workers update
  shared counters with `+= 1` and no lock.
- **Port handed out twice.** `_get_free_port` closes its socket before
  `send_invite` binds the port.
- **Replies not matched to calls.** `send_invite` reads whichever datagram
  reaches its port first. It does not match the reply against the Call-ID.
- **Lost and delayed datagrams, and timeouts.** UDP INVITEs and responses can
  be lost or delayed. A socket timeout can race a late answer.
- **Sessions left open.** The stress test never sends ACK or BYE, so admitted
  sessions outlive the call that made them.
- **Fail-closed admission.** When the counter store is down, the controller
  refuses every tracked user.
- **Hand-written encoders and parsers.** The bencode is built and parsed by
  hand. The checks that judge a payload "valid" are heuristics.
- **RTPEngine probes without correlation.** Some probes keep one socket for
  all requests and none compares the answer's cookie with the request's. The
  success tests look for words in the whole answer text.
- **Length prefixes typed by hand.** Many payloads in the probe scripts are
  literals whose length prefixes were counted by hand.
- **One exception handler around a whole run.** A gRPC script whose cleanup
  sits in the same `try` as its calls skips the cleanup on the first error.
- **Registry state that outlives a run.** The registry scripts write
  per-user overrides and delete them at the end. A run that stops in between
  leaves them behind for the next run. An answer can be lost after the write
  took effect.

`PROJECT.json` lists each of these under "hazards" at the line where it bites.

### Properties per component

- **Admission controller.** A user never holds more sessions than the
  effective limit unless the limit was lowered below the current count. A
  rejected or failed admission leaves the counter unchanged. Release is
  idempotent and never drives a counter below zero. The counter equals the
  ledger length. The stats total equals the sum of the counters.
- **Stress client.**
  - The status recorded for a call is the server's verdict on that call
    (violated once ports are reused).
  - The totals count every call (violated by the unlocked counters).
  - Every call handed to the executor completes.
- **Bencode.**
  - The parser inverts the encoders and the canonical encoding.
  - The pre-send validator checks string lengths, as its comment says.
  - The encoders produce canonical bencode.
- **Probe clients.** The script always ends. A success is reported only for
  a non-error answer to that request (violated on a shared socket).
- **Sequential limit tests.** The cleanup ends every call the script was
  given. A FAIL verdict means the limit was exceeded (violated).
- **Registry clients.** A run that the registry served as `spec.md` says,
  and that nobody interrupted, passes, whatever earlier runs left behind. A
  run that passes had every write it reports on carried out.

## 2. Plan

In order of importance:

1. **SessionLimits**: done, spec-modelled. The abstract controller. It serves
   both as the server in client compositions and as the target of refinement.
2. **StressTest**: done. The stress client composed with `SessionLimits` as
   server, over a lossy UDP network.
3. **Bencode**: done. The parser, validators and encoders as operators, checked
   over bounded inputs against a BEP 3 reference encoder.
4. **SessionLimitsStore**: not modelled. The store's code is not in this
   repository, `spec.md` states only the atomic TryAdmit contract, and every
   run slot is taken. The design it would check, the conditional-increment
   implementation of TryAdmit:
   - per-user counter in the store;
   - increment, then roll back if over the limit;
   - ledger kept separately;
   - crash between the steps.

   It is shown to implement `SessionLimits` via
   `INSTANCE SessionLimits WITH ...` (a refinement mapping), checked as a
   PROPERTY. Invariants: the counter equals the ledger length plus the
   increments in flight; never negative.
5. **RtpProbe**: done. The RTPEngine UDP probe clients, composed with an
   RTPEngine that answers or not and a network that loses and delays.
6. **RegistryClient**: done for the four HTTP scripts. It models the
   HTTP CRUD clients against the registry part of `SessionLimits`, including:
   - the delete expectation that disagrees with `spec.md`;
   - the early returns that skip the cleanup.

   `test_per_user_limits.py` (SIPp) is not modelled.
7. **GrpcLimitTest**: done for the gRPC scripts. The sequential
   InitiateCall tests against a controller that holds sessions left over from
   earlier runs, with their verdicts checked for soundness.
8. **SipAuth**: not modelled. Digest authentication is outside the
   session-limit core that `spec.md` describes, there is no registrar to
   compose it with, and the run budget goes to the controller's clients. Its
   hazards are listed in `PROJECT.json` without a property.

Runs stay small:

- 1 to 3 users;
- a per-user limit of 1 or 2;
- 2 or 3 calls per user;
- 2 worker threads;
- 2 or 3 ports.

These bounds are enough for every branch of every handler to fire. The
passing runs must stay under 5 minutes.

## 3. Modules

### SessionLimits.tla (spec-modelled)

**State:**

| Variable | Meaning |
|---|---|
| `overrides` | per-user limit overrides (sparse) |
| `ledger` | user → sequence of session ids, oldest first |
| `seen` | ids already presented to TryAdmit |
| `rejections` | RejectionCount since start |
| `storeUp` | whether the counter store is reachable |

The counter store's per-user count is `Len(ledger[u])`. In the spec's atomic
TryAdmit the two can never differ. A store implementation that could make them
differ (plan step 4) is not modelled.

**Actions:**

- The five TryAdmit outcomes: `AllowUntracked`, `Admit`, `RejectAtLimit`,
  `EvictOldest`, `FailClosed`.
- `Release`, `SetUserLimit`, `DeleteUserLimit`, `StoreFail`, `StoreRecover`,
  `Restart`.

Constants: `Users`, `Sessions`, `DefaultLimit`, `LimitValues`, `Enabled`,
`OverflowAction`.

### StressTest.tla (from `test_session_limits_stress.py`)

The composition instantiates `SessionLimits` as `SL`, with the call ids as
session ids.

**Client state:**

| Variable | Code |
|---|---|
| `mainPc`, `phase`, `submitted` | `run_stress_test` / `concurrent_calls_test` |
| `queue` | the executor's work queue |
| `wk[w]` | one executor thread: `pc`, `call`, `port`, `resp`, and `tmp`, the value its `+= 1` loaded |
| `bound`, `usedPorts` | the OS's socket table |
| `results`, `enforced`, `details` | `self.test_results` |
| `peak` | `concurrent_sessions_peak` |

**Client actions, one per code step:**

| Action | Code |
|---|---|
| `SetupOk` / `SetupFails` | `setup_grpc_client` |
| `Submit` | `executor.submit` |
| `PhaseDone` | the end of the `with` block, `get_active_calls` (349, 364), the next phase, or `print_test_results` |
| `MonitorSample` | one `monitor_sessions` iteration |
| `TakeTask` | `SIPClient()`, which calls `_get_free_port` |
| `SendInvite` | `bind` + `sendto` in `send_invite`; a bind on a taken port returns `ERROR` |
| `Receive` / `Timeout` | `recvfrom` / `socket.timeout`, then `close` |

A counter update `self.test_results[k] += 1` is split in two steps:

1. `ReadCounter` loads the counter; the `if/elif` classification is part of
   this step.
2. `WriteCounter` stores it.

For the total, `ReadCounter` loads and `WriteTotal` stores; `WriteTotal` also
appends `call_details`.

**B2BUA side** (spec-modelled: the signalling layer around the controller):

- `ServerAdmit` answers 100 Trying. This is an assumption about the B2BUA,
  whose code is not here. The test itself treats 100 as an admission only
  provisionally ("For now", lines 221-222).
- `ServerReject` answers 503, or `BackendFailureCode` when failing closed.
- `CalleeAnswers` sends 200 OK.
- `SessionEnd` is the B2BUA tearing down the call and releasing the session.
- `LoseInvite` and `LoseResponse` are UDP loss. Delay and reordering come from
  the network being a set.

An evicting admission also removes the evicted call from the B2BUA's call
table.

**Init and ports.** `Init` starts from any set of per-user overrides drawn
from `LimitValues` (`RegistryConfigs`): limits configured through the API
before the run.

`OfferedPorts` is what `bind(('', 0))` may return:

- With `FreshPorts`, only a port never handed out before. One stands for all,
  since fresh ports are interchangeable.
- Otherwise, any port with no socket on it.

### PyText.tla (Python str helpers)

A str is a sequence of one-character strings, and `Chars("...")` turns a
literal into one. `Slice`, `At`, `Find`, `RFind`, `StrIn`, `Lower` and
`SplitOnce` are `s[a:b]`, `s[k]`, `str.find`, `str.rfind`, `in`,
`str.lower` and `str.split(sep, 1)`, with Python's 0-based positions. `PyInt`
is `int()` on a str; `Decimal` and `LenPrefixed` are `str(n)` and
`f'{len(x)}:{x}'`. `Bencode` and `RtpProbe` extend it.

TLC's integers are 32-bit, while `int()` is unbounded. A digit run with more
than 9 significant digits (the hex payload of `test-bencode-variations.py`
has one) is therefore given the value `IntCap` (10^9). Such a number is only
ever compared with the length of the rest of the payload, which is far
shorter, so the cap changes no verdict.

### Bencode.tla (from the bencode scripts)

- A byte string is a sequence of one-character strings. Positions are
  Python's 0-based ones, with `Slice`, `At` and `Find` matching `s[a:b]`,
  `s[k]` and `str.find`.
- `PyInt` is `int()` on a str: sign, digits, leading zeros and `-0` accepted.
- `ParseValue`, `ParseDictItems` and `ParseListItems` are `parse_value` and
  its two loops, as RECURSIVE operators.
- `ValidateLoop` is the `while` loop of `validate_bencode_structure`. It
  returns `"raise"` where `int()` raises.
- The encoders keep their Python names, `create_rtpengine_message` of
  `test-valid-commands.py` included (the bare command word, no cookie). A command is its `json.dumps` text
  plus its bare word; JSON itself is not modelled.
- `Bencoded` is the reference: the canonical BEP 3 encoding, with keys sorted
  by byte value.
- The hand-typed payloads are the scripts' literals, character for
  character: the six variations of `test-duplicate-detection.py`, the ten
  cases and the Kamailio f-string of `test-bencode-comprehensive.py`, and the
  eleven payloads of `test-rtpengine-theories.py`, the seven of
  `test-bencode-variations.py` and test 3 of `test-simple-connection.py` (the bytes `\x00`-`\x07` of
  its binary cookies are written `#`; only their number matters to a length
  prefix). `HandTyped` gives them to the loop as inputs with no intended value.
- The state machine is the checking loop: `input` is the payload, `parsed` the
  result of `parse_bencode`, `verdict` the printed line, and `basic` the
  result of `validate_bencode_structure`.

### RtpProbe.tla (from the RTPEngine probe scripts)

One module for ten scripts. The variable `script` is chosen in `Init` from
the constant set `Scripts` and never changes, so one run covers several
scripts. It fixes the four ways they differ:

- `SharedSocket`: one socket for the run (`test-correct-rtpengine-format.py`,
  `test-final-format.py`), or one per request;
- `Judge`: the success test on the answer text (`FinalFormatSuccess`,
  `IndicatorSuccess`, `ResultOkSuccess`, `HealthSuccess`, and
  `OkInTextSuccess` of `test-bencode-variations.py`);
- `Judging`: whether the script judges the answer at all
  (`test-correct-rtpengine-format.py`, `test-valid-commands.py` and
  `test-simple-connection.py` only print it);
- `StopOnSuccess`: whether a success ends the current list of requests
  (`return` in the patterns, comprehensive and theories loops).

`Groups` gives the sizes of the request lists (the theories script runs one
list per theory); `CookieOf` the cookie each request carries.

| Variable | Code |
|---|---|
| `pc`, `cur` | the loop and the request being tried |
| `sock`, `usedPorts` | the socket's port; the OS's ports handed out |
| `net` | datagrams in flight or queued at a port |
| `got`, `verdict` | the answer read for each request, and what was printed |
| `answered` | history: every answer RTPEngine sent |

`Send` is `socket()`, `settimeout()` and `sendto()`. `Recv` is `recvfrom`
plus the judgement; `Timeout` is `socket.timeout`. `Advance` closes a
per-request socket and moves to the next request or list. RTPEngine's side
(spec-modelled) is `Answer`, with the NG answer text `ReplyText`
(`cookie d6:result4:ponge`, as `test-final-format.py:80-88` documents), and
`Lose`. The network is a set, so answers are delayed and reordered.

`ReplyIsOwn` and `AcceptedMeansSuccess` are defined so that the hazards in
`PROJECT.json` can be reproduced with one `Scripts` value, but no run checks
them. With a fresh socket per request, `ReplyIsOwn` holds by construction.
`AcceptedMeansSuccess` fails for exactly the scripts it is about (health,
variations, rtpengine-bencode) and holds by the shape of the other success
tests.

### GrpcLimitTest.tla (from the gRPC session-limit scripts)

One module for five scripts. The variable `script` is chosen at the start
from the constant `Scripts`. The scripts differ in the callers (`CallerOf`:
user787 for every call, or user787, user788, ... for successive calls), the
verdict (`Judge`), and whether an error leaves the run (`abort`,
`test_session_simple.py`). The B2BUA side instantiates `SessionLimits` as
`SL`.

| Variable | Code |
|---|---|
| `pc`, `i` | the call loop, then the cleanup loop |
| `rpc` | the blocking RPC in flight and its reply |
| `results`, `testCalls` | `results` and `test_calls` (or `successful_calls`, `active_calls`) |
| `termFailed` | call ids whose TerminateCall did not end the call |
| `verdict` | the printed judgement |
| `ending` | calls the B2BUA ended whose release waits for the store |
| `refusedAtLimit`, `peak` | history: calls refused at the limit; most sessions user787 held |

`Invoke`, `Receive`, `Analyze`, `Terminate`, `Terminated` and `CleanupDone`
are the script's steps. `ServerInitiate` and `ServerTerminate` are the
B2BUA's handlers. `ChannelBreaks` is a broken gRPC channel, before or after
the server acted. `Hangup` is the callee ending a call, and `ReleaseEnded`
the release once the store answers. `Init` starts with up to `MaxLeftover`
sessions of user787 left by earlier runs.

### RegistryClient.tla (from the four registry API scripts)

One module for `test_web_ui_per_user_limits.py` (`web_ui`),
`test_web_ui_per_user_limits_final.py` (`final`),
`test_simple_per_user_limits.py` (`simple`) and
`test_comprehensive_per_user_limits.py` (`comprehensive`).

- **Scripts.** Each script is a constant list of requests (`WebUiScript`,
  `FinalScript`, `SimpleScript`, `ComprehensiveBody` followed by
  `ComprehensiveCleanup`). A request is a record of:
  - method and user;
  - the value sent or expected;
  - the check on the answer (`Check`);
  - how it is logged (`Counted`);
  - whether a failed check returns False (`stop`);
  - whether it is made only after the previous check passed (`dep`, the
    `if success:` of comprehensive tests 6 and 7).
- **Registry.** The registry instantiates `SessionLimits` as `SL` with no
  sessions. `Answer` is its answer by `spec.md` 4.1 and 6: GET reports the
  effective limit. `Apply` is `SetUserLimit` or `DeleteUserLimit`.

| Variable | Code |
|---|---|
| `overrides` (in `SL`) | the registry's per-user limits, kept across runs |
| `runs`, `script`, `status` | the runs made so far, the current script, its exit |
| `pc` | the script's next request |
| `passed`, `total` | `log_result` entries (or web_ui's `total_passed` and `total_tests`) |
| `lastOk` | the previous check's result |
| `faults`, `interrupted` | failed requests and Ctrl-C in this run; an interrupt unwinding through the `finally` |
| `clean`, `unapplied` | history: no failure or interrupt in this run; a reported write that never took effect |

**Actions:**

- `StartRun` is starting a script after the previous one exited.
- `Request` is one request, with three outcomes:
  - answered;
  - failed with no effect;
  - for a write, carried out with its answer lost.

  The check, the tally and the early return are part of the same step.
- `SkipDependent` skips a dependent request.
- `InterruptIntoFinally` and `InterruptExit` are Ctrl-C inside and outside
  comprehensive's `try`.
- `Finish` prints the verdict.

No fairness: a person starts each run.

## 4. Runs

### Passing runs

| Run | Config | Properties | What it shows |
|---|---|---|---|
| `stress_calls_complete` | `MC_StressTest.cfg` | `TypeOK`, `EveryCallCompletes` | Test 1 and Test 2 with one call each, so the second call meets the first one's session. The limit is the default 1 with `terminate_oldest`, or an unlimited override (0). Every call handed to the executor completes and is recorded in `call_details`, under lost and late datagrams, store outages and session teardown, with fairness only for the worker threads. 37k states, 11 s. |
| `probe_all_scripts` | `MC_RtpProbe.cfg` | `TypeOK`, `Termination` | All ten probe scripts, whether their socket is shared or per request, under lost, late and missing answers: every script ends, because every `recvfrom` is bounded by a socket timeout. 3.9k states, 2 s. |
| `grpc_cleanup` | `MC_GrpcLimitTest.cfg` | `TypeOK`, `KnownCallsEnded` | The four gRPC scripts that clean up, against leftover sessions, broken channels and store outages: when a script finishes, every call id it received has ended, or its TerminateCall said it did not. 164k states, 8 s. |
| `registry_clean_runs` | `MC_RegistryClient.cfg` | `TypeOK`, `CleanRunPasses`, `WritesConfirmed` | Three runs of web_ui, simple or comprehensive, in any order, against one registry, with one failed request, lost answer or interrupt per run. A run the registry served correctly passes whatever the runs before it left. A passing run had every write it reports on carried out. 5.9k states, 1 s. |
| `bencode_roundtrip` | `MC_Bencode.cfg` | `TypeOK`, `ParsesToIntended` | `parse_bencode` decodes the canonical encoding of every value in a bounded set, and every encoder's payload, to the value intended. On all 336k payloads of up to 7 characters over `d l i e : 0`, it returns only str-keyed dictionaries. |

### Violation runs

| Run | Config | Property | What it shows |
|---|---|---|---|
| `stress_lost_update` | `MC_StressTest_lost.cfg` | `CountsMatchCalls` | Two workers load `total_calls_attempted = 0`, both store 1. |
| `stress_port_reuse` | `MC_StressTest_reuse.cfg` | `CallVerdictSound` | Call 1 times out on port p1. Call 2 is bound on p1 and reads the late 100 Trying for call 1. |
| `bencode_validator` | `MC_Bencode_validator.cfg` | `StringLengthsChecked` | The script's own case 6, `d6:cookie4:test7:command17:{"command":"ping"}e` ("proper length"), passes `validate_bencode_structure`, which says it checks string lengths, though `17:` is one short and `parse_bencode` rejects it. |
| `bencode_hand_typed` | `MC_Bencode_handtyped.cfg` | `HandTypedWellFormed` | A hand-typed payload that `parse_bencode` rejects, for example case 4 of `test-bencode-variations.py` (`cookie16:` before a 14-character cookie) or any theory payload (`17:` before an 18-character JSON text). |
| `probe_final_shared_socket` | `MC_RtpProbe_final.cfg` | `SuccessMeansAccepted` | Request 1 times out; its late pong is read after request 2 is sent, and request 2 is reported as `SUCCESS: Got pong response!`. |
| `grpc_false_fail` | `MC_GrpcLimitTest_fail.cfg` | `FailMeansOverAdmission` | Two admissions, then a broken channel on the third call: no rejection, so `verify_session_limits.py` prints FAILED although the limit held. Leftover sessions, backend failures or a call that ends mid-run do the same. |
| `registry_final_rerun` | `MC_RegistryClient_final.cfg` | `CleanRunPasses` | Run 1's PUT of 15 for testuser123 takes effect but its answer is lost, and the run fails. Run 2 is served correctly and fails at step 3: it expects the default and reads 15. |

### Bounds and why they are enough

**Stress test.** The code runs 12, 5 and 4 calls on 6, 2 and 2 threads. The
model runs:

- in the passing run, Test 1 and Test 2 with one call each (`MCTwoPhases`),
  so the second call meets the first one's session in every state of
  teardown, and is admitted by evicting it (`terminate_oldest`, limit 1) or
  under an unlimited override;
- in the two violation runs, a burst of 2 calls on 2 workers (`MCBurst`),
  with `reject` and a limit of 1: the burst crosses the limit, and both
  orders of the two workers' steps occur.

Every branch of the classifier that the server can provoke is
reached:

| Response | Status |
|---|---|
| 100 | TRYING |
| 200 | SUCCESS |
| 503 | REJECTED |
| `ERROR` (timeout or bind) | ERROR |
| 500 | UNKNOWN |

Three ports suffice for three calls with fresh ports. Two ports for two
workers make reuse and bind collisions possible.

**Bencode.** Seven characters is the shortest length at which a dictionary
with a non-string key (`di0e0:e`) exists. It is also the shortest at which the
parser's value-after-key path nests. The reference values cover:

- integers -1, 0 and 12;
- strings containing `e` and `:`;
- lists of up to two atoms;
- dictionaries of up to two keys;
- one nested level.

The encoders get cookies of lengths 0, 2 and 3, with `e`, `:` and `i` in
them, and a 10-character JSON text so that its length prefix needs two digits.

**Probes.** Two lists (sizes 2 and 1) make both "success ends the list"
and "move to the next list" happen; two requests on a shared socket are the
fewest for a late answer to meet the next request. Three ports suffice for
three requests with fresh ports.

**Stress test, what the passing run leaves out.** A burst of 2 calls
followed by a third (`MCPhases`) passes `EveryCallCompletes` too, but takes
26 minutes (3.7M states), so the passing run uses one call per phase. The
concurrent burst is kept for the violation runs, whose counterexamples need
two workers.

**Registry scripts.** Three runs are the fewest in which one run's leftovers
can reach a second run and then a third, after a run of another script. One
fault per run is enough. A run that fails twice is never clean, so a second
fault adds nothing to `CleanRunPasses`. web_ui's 80% margin is exactly
absorbed by its two always-failing checks, so one fault already tips it. The
scripts' own users and values are kept.

**gRPC scripts.** Three calls against a limit of 2 (the scripts place six
against 3): the third call is the first that can be refused, and a hang-up
between calls lets it through. Up to one leftover session, three users for
the scripts that change caller per call.

### Fairness

In the stress test, weak fairness is placed on:

- `Submit` (`executor.submit` does not block);
- each worker's steps (take task, send, timeout, the counter steps).

These are OS threads, and the timeout is fair because `settimeout(5)` makes
`recvfrom` return. The main thread's other steps get no fairness: setup's
`ListRoutingRules` (142) and `get_active_calls` (349, 364) are gRPC calls
without a deadline, so a B2BUA that never answers stalls the run. That is why
the liveness property is about the calls (`EveryCallCompletes`) and not about
`run_stress_test` returning. Nothing is assumed of:

- the B2BUA;
- the network;
- the store;
- the monitor thread, a daemon whose samples are not waited for.

For the probes, only the script's steps are fair: `settimeout` makes every
`recvfrom` return. The gRPC scripts get no fairness, and
no liveness is claimed: `InitiateCall` and `TerminateCall` carry no deadline
(`verify_session_limits.py:40, 59`). `spec.md` bounds only the admission step
inside the B2BUA's handler, not the handler itself.

Deadlock is checked for the stress and gRPC runs. Store outages and recoveries can
always happen, so the model never stops. The bencode runs set
`CHECK_DEADLOCK FALSE`, because checking one payload is a finished run of the
loop; so do the probe runs, because the script exits.

### Mutants

Each property of a passing run is broken by one plausible bug, listed in
`PROJECT.json`:

- **A worker that re-runs its bookkeeping instead of returning to the pool**
  makes counters exceed the number of calls, which `TypeOK` catches.
- **A socket without a timeout** breaks `EveryCallCompletes`.
- **A dictionary loop without the `isinstance(key, str)` check** breaks
  `TypeOK` in `Bencode`.
- **A field whose value length is taken from the key** breaks
  `ParsesToIntended`.
- **A probe loop that runs one request past the end** breaks `TypeOK`; a
  probe socket without a timeout breaks `Termination`.
- **A cleanup loop that stops one call id early** breaks `KnownCallsEnded`;
  `range(N + 1)` breaks `TypeOK`.
- **Counting a success for a "log on failure" request** breaks `TypeOK` in
  `RegistryClient`. **A pass threshold of 90%** breaks `CleanRunPasses`:
  web_ui passes only 12 of 14 on a correct registry. **A threshold of 70%**
  breaks `WritesConfirmed`: a PUT that never happened still passes.

## 5. Findings

1. **Lost updates in `test_session_limits_stress.py:243`.** The same holds for
   219, 224, 228 and 233. `test_results` is shared by the pool's threads
   without a lock, so the printed totals and rates can be lower than the truth.
   The GIL makes the race rare; free-threaded CPython makes it likely.
2. **Answers misattributed across calls on one port.**
   `test_session_limits_stress.py:102` reads the first datagram to arrive and
   never checks its Call-ID. `_get_free_port` releases the port before it is
   bound. A reused port therefore delivers a late 100 Trying to a later,
   refused call. That call is counted as a success, and the enforcement
   verdict can come out wrong.
3. **A length check that misses its own wrong length.**
   `validate_bencode_structure` (`test-bencode-basic.py:95-143`) says it
   checks "that string lengths match actual content" (102). After a
   mis-sized string it lands on a non-digit and breaks out at 140-141 with
   True. So the script's cases 6 to 8, all with `17:` before an 18-character
   JSON text, pass with no warning. On other inputs, such as `d0i:e`, its
   `int()` (111, 129) raises an uncaught `ValueError`.
4. **Malformed hand-typed payloads.** Every payload of
   `test-rtpengine-theories.py` says `17:` for an 18-character JSON text, so
   no theory was tested with a well-formed request. 8 of the 10 cases of
   `test-bencode-comprehensive.py` are malformed too, and
   `test-duplicate-detection.py:39` says `12:transaction-id`. Six of the seven
   payloads of `test-bencode-variations.py` are malformed, and so is test 3 of
   `test-simple-connection.py` (`17:` again), the one meant to be correct.
5. **A late answer credited to the next request.** `test-final-format.py`
   keeps one socket and never compares the answer's cookie with its own.
   `test-valid-commands.py:64` does the same, and prints one command's answer
   under the next (`ReplyIsOwn` with `Scripts = {"valid-commands"}`).
6. **A FAIL verdict while the limit held.** `verify_session_limits.py:113`
   (and `test_same_user_limits.py:121`) needs a rejection to pass. A broken
   channel or a backend error in place of the rejection, or a call that ends
   during the run, gives FAIL.
7. **A failed run breaks every later run.**
   `test_web_ui_per_user_limits_final.py` returns at its first failed step and
   has no cleanup. A run that stops between the PUT of step 4 and the DELETE
   of step 8 leaves testuser123's override. This includes a lost answer to
   the PUT, a failed request or a Ctrl-C. Every later run then fails at step 3
   (line 171), against a correct registry, until someone deletes the override
   by hand.

The model also reproduces these, which are kept as hazards rather than runs
(see `PROJECT.json`):

- `test_session_simple.py` has one `try` around its calls and its cleanup, so
  a broken channel leaves calls up (`KnownCallsEnded` with
  `Scripts = {"abort"}`).
- `test_web_ui_per_user_limits.py:163` expects a deleted user to give 404 or
  no limit; `spec.md` says GET gives the default. Its 80% threshold hides
  the two failures this causes.
- The indicator-word test of `test-rtpengine-patterns.py:167` calls an error
  answer a success, because every NG answer holds `result`.
- `test-rtpengine-bencode.py:41` looks for `ok` in the whole answer. Its
  random cookie can contain it, and a pong answer lacks it.
- The health check looks for JSON in a bencode answer, so a pong is never
  healthy (`AcceptedMeansSuccess` with `Scripts = {"health"}`).
- `test-bencode-variations.py:64` looks for `ok` in the answer, which a pong
  never holds (`AcceptedMeansSuccess` with `Scripts = {"variations"}`).
- Four encoders emit `cookie` before `command`, against the comment at
  `test-proper-bencode.py:21`. RTPEngine's parser accepts either order.

## 6. Not modelled, and why

- **The B2BUA and RTPEngine implementations.** They are not in this
  repository. The controller is modelled from `spec.md`, and RTPEngine will
  appear only as a peer that answers, drops or delays.
- **`session_cleanup_test`.** `run_stress_test` never calls it; the call is
  commented out.
- **The exception branch of `single_call_test` (245-249).** It is reachable
  only if `print` or `SIPClient()` raises.
- **SIP message text, SDP, JSON text, emoji output and timing values.** They
  are abstracted to codes and model values. No property is about their text.
- **Routing-rule utilities, gRPC API and connectivity checks.** These are
  one-shot sequential calls with nothing a model checker adds.
- **`test_rtpengine_ping.py`, `debug-simple.py`, `test_minimal_commands` of
  `test-valid-commands.py` and the sending half of
  `test-duplicate-detection.py`.** They send one request and wait, or they
  never read an answer.
- **`test-websocket-rtpengine.py`.** It speaks asyncio WebSocket, a transport
  with no peer in this repository to model.
- **The SIP authentication clients** (`test_full_auth.py`,
  `test_sip_client.py`, `test_simple_sip.py`). See plan step 8. Their Via
  headers name ports the socket is not bound to (5080; 5060, the B2BUA's
  own), and `test_simple_sip.py` reuses a fixed port, branch and Call-ID.
- **`quick_test.py`, and GetActiveCalls in the gRPC scripts.** One call with
  no verdict; counts the scripts only print.
- **`test_session_limits.py` and `test_minimal_limits.py`.** Their
  INVITE/response exchange over UDP is the one `StressTest` models.
- **`test_per_user_limits.py`.** It sets limits with the same PUTs as the
  modelled scripts, then runs SIPp subprocesses and parses their text output.
  Its admission half has the shape `StressTest` models.
- **The components of plan steps 4 and 8.** They are listed in `PROJECT.json` as
  `not_modelled` with the reason.
