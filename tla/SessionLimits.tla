--------------------------- MODULE SessionLimits ---------------------------
(***************************************************************************)
(* The Per-User Session Admission Controller of the B2BUA: the Limit       *)
(* Registry (default limit, per-user overrides), the Session Ledger (the   *)
(* admitted session ids of each user, oldest first), the Stats Reporter's  *)
(* rejection counter and the availability of the Counter Store.            *)
(*                                                                         *)
(* The controller itself is not part of the repository's source tree; this *)
(* module follows spec.md sections 3, 4.1, 4.2, 4.4 and 7.  Each TryAdmit  *)
(* is one atomic step per user, which is what the spec requires of an      *)
(* implementation (section 5); SessionLimitsStore refines it.              *)
(***************************************************************************)
EXTENDS Naturals, Sequences, SequencesExt, FiniteSets, Functions

CONSTANTS
    Users,          \* user names
    Sessions,       \* session ids (Call-IDs) the signalling layer may present
    DefaultLimit,   \* GlobalConfig.defaultLimit
    LimitValues,    \* limit values a management client may submit
    Enabled,        \* GlobalConfig.enabled
    OverflowAction  \* GlobalConfig.overflowAction

ASSUME /\ DefaultLimit \in Nat
       /\ LimitValues \subseteq Int
       /\ Enabled \in BOOLEAN
       /\ OverflowAction \in {"reject", "terminate_oldest"}

VARIABLES
    overrides,   \* Limit Registry: username -> override limit (sparse)
    ledger,      \* Session Ledger: username -> session ids, oldest first
    seen,        \* session ids already presented to TryAdmit
    rejections,  \* Stats Reporter: RejectionCount since process start
    storeUp      \* whether the Counter Store is reachable

slVars == <<overrides, ledger, seen, rejections, storeUp>>

-----------------------------------------------------------------------------
(* GetEffectiveLimit: the override if one exists, else the default.        *)
GetEffectiveLimit(u) ==
    IF u \in DOMAIN overrides THEN overrides[u] ELSE DefaultLimit

(* A user whose admissions are counted: control enabled, limit not 0.      *)
Tracked(u) == Enabled /\ GetEffectiveLimit(u) > 0

Count(u) == Len(ledger[u])

Fresh(s) == s \notin seen

(* Stats Reporter: TotalSessions and ActiveUserCount.                      *)
TotalSessions == SumFunction([u \in Users |-> Count(u)])
ActiveUserCount == Cardinality({u \in Users : Count(u) > 0})

-----------------------------------------------------------------------------
Init ==
    /\ overrides = [u \in {} |-> 0]
    /\ ledger = [u \in Users |-> <<>>]
    /\ seen = {}
    /\ rejections = 0
    /\ storeUp = TRUE

(* TryAdmit steps 1-2: control disabled or limit 0, Allowed untracked.     *)
AllowUntracked(u, s) ==
    /\ Fresh(s)
    /\ ~Tracked(u)
    /\ seen' = seen \cup {s}
    /\ UNCHANGED <<overrides, ledger, rejections, storeUp>>

(* TryAdmit step 3: below the limit, insert the record (and count it).     *)
Admit(u, s) ==
    /\ Fresh(s)
    /\ Tracked(u)
    /\ storeUp
    /\ Count(u) < GetEffectiveLimit(u)
    /\ ledger' = [ledger EXCEPT ![u] = Append(@, s)]
    /\ seen' = seen \cup {s}
    /\ UNCHANGED <<overrides, rejections, storeUp>>

(* TryAdmit step 4: at the limit with overflowAction = Reject.             *)
RejectAtLimit(u, s) ==
    /\ Fresh(s)
    /\ Tracked(u)
    /\ storeUp
    /\ Count(u) >= GetEffectiveLimit(u)
    /\ OverflowAction = "reject"
    /\ rejections' = rejections + 1
    /\ seen' = seen \cup {s}
    /\ UNCHANGED <<overrides, ledger, storeUp>>

(* TryAdmit step 5: at the limit with TerminateOldest, evict the oldest    *)
(* record of u and admit s in the same atomic step.                        *)
EvictOldest(u, s) ==
    /\ Fresh(s)
    /\ Tracked(u)
    /\ storeUp
    /\ Count(u) >= GetEffectiveLimit(u)
    /\ OverflowAction = "terminate_oldest"
    /\ ledger' = [ledger EXCEPT ![u] = Append(Tail(@), s)]
    /\ seen' = seen \cup {s}
    /\ UNCHANGED <<overrides, rejections, storeUp>>

(* Section 4.2 failure semantics: store unreachable, fail closed.          *)
FailClosed(u, s) ==
    /\ Fresh(s)
    /\ Tracked(u)
    /\ ~storeUp
    /\ rejections' = rejections + 1
    /\ seen' = seen \cup {s}
    /\ UNCHANGED <<overrides, ledger, storeUp>>

TryAdmit(u, s) ==
    \/ AllowUntracked(u, s)
    \/ Admit(u, s)
    \/ RejectAtLimit(u, s)
    \/ EvictOldest(u, s)
    \/ FailClosed(u, s)

(* Release: remove s from u's ledger if present; an unknown pair is a      *)
(* no-op.  It needs the store; the caller retries while it is down.        *)
Release(u, s) ==
    /\ storeUp
    /\ ledger' = [ledger EXCEPT ![u] = Remove(@, s)]
    /\ UNCHANGED <<overrides, seen, rejections, storeUp>>

(* SetUserLimit: a negative limit is a ConfigError and changes nothing.    *)
SetUserLimit(u, l) ==
    /\ l >= 0
    /\ overrides' = [x \in DOMAIN overrides \cup {u} |->
                        IF x = u THEN l ELSE overrides[x]]
    /\ UNCHANGED <<ledger, seen, rejections, storeUp>>

(* DeleteUserLimit: idempotent removal of the override.                    *)
DeleteUserLimit(u) ==
    /\ overrides' = Restrict(overrides, DOMAIN overrides \ {u})
    /\ UNCHANGED <<ledger, seen, rejections, storeUp>>

StoreFail ==
    /\ storeUp
    /\ storeUp' = FALSE
    /\ UNCHANGED <<overrides, ledger, seen, rejections>>

StoreRecover ==
    /\ ~storeUp
    /\ storeUp' = TRUE
    /\ UNCHANGED <<overrides, ledger, seen, rejections>>

(* Process restart: RejectionCount is not durable (section 4.4); the       *)
(* registry and the counts live in the store and survive.                  *)
Restart ==
    /\ rejections' = 0
    /\ UNCHANGED <<overrides, ledger, seen, storeUp>>

Next ==
    \/ \E u \in Users, s \in Sessions : TryAdmit(u, s) \/ Release(u, s)
    \/ \E u \in Users, l \in LimitValues : SetUserLimit(u, l)
    \/ \E u \in Users : DeleteUserLimit(u)
    \/ StoreFail \/ StoreRecover \/ Restart

Spec == Init /\ [][Next]_slVars

-----------------------------------------------------------------------------
TypeOK ==
    /\ overrides \in [DOMAIN overrides -> Nat]
    /\ DOMAIN overrides \subseteq Users
    /\ ledger \in [Users -> Seq(Sessions)]
    /\ seen \subseteq Sessions
    /\ rejections \in Nat
    /\ storeUp \in BOOLEAN

=============================================================================
