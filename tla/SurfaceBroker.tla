--------------------------- MODULE SurfaceBroker ---------------------------
(***************************************************************************)
(* The authority half of the Cassi Surface broker (CassiQwen/surface/      *)
(* core.py, class SurfaceBroker): who may deliver input through a bound    *)
(* source, and what every event that ends that right does to it.           *)
(*                                                                         *)
(* Concurrency follows the code's two locks.  A section under a binding's  *)
(* state.lock is one action, except submit_intent's, which holds the lock  *)
(* from its final fence to the end of backend.dispatch (Fence .. Deliver)  *)
(* while sections under the broker-wide lock (reservation, the watchdog's  *)
(* collection of expired grants) still run.  Nothing is locked while the   *)
(* host authorizer is asked, between the two lookups of pause, or between  *)
(* the watchdog's collection of a grant and its neutralisation.            *)
(*                                                                         *)
(* Time is abstracted to one bit per grant: `lapsed' means that now is at  *)
(* or past the earliest of its three deadlines for good.  (A heartbeat     *)
(* that read the clock before it waited for the lock can still renew a     *)
(* lease, even a relinquished one: such a lease has not lapsed yet.)       *)
(* Every grant is for an operation that needs the input lease              *)
(* (_requires_input_lease).                                                *)
(***************************************************************************)
EXTENDS Naturals, FiniteSets

CONSTANTS
    Bindings,        \* binding ids; all bound in the initial state
    Domains,         \* input domains (one keyboard, pointer and focus each)
    DomainOf,        \* the input domain of each binding
    Grants,          \* grant tokens that requests may draw
    Ops,             \* operation ids that submissions may draw
    NoGrant,         \* the absence of a grant
    NoBinding,       \* the absence of a binding
    MaxUpdates,      \* max_updates of every grant
    MaxEpoch,        \* bound on the authority epochs explored
    MaxGeneration,   \* bound on the observation generations explored
    Faults           \* which of the faults below a run explores

ASSUME DomainAssumption == DomainOf \in [Bindings -> Domains]
ASSUME NoGrantAssumption == NoGrant \notin Grants
ASSUME NoBindingAssumption == NoBinding \notin Bindings
\* the source changes or goes, the backend does not confirm a neutralisation or a
\* foreground gate, an outcome is uncertain, the ledger has no unreserved space
ASSUME FaultsAssumption == Faults \subseteq {"source", "backend", "outcome", "ledger"}
ASSUME BoundsAssumption == /\ MaxUpdates \in Nat \ {0}
                           /\ MaxEpoch \in Nat
                           /\ MaxGeneration \in Nat

VARIABLES
    bind,            \* _BindingState of each binding
    grants,          \* _Grant of each token, from its request on
    leases,          \* _domain_leases: the grant that holds each domain
    domainEpoch,     \* _domain_epochs
    ops,             \* _operations, and what dispatch did
    pausing,         \* the state write pause still owes after its revoke
    ledgerFull,      \* no unreserved byte is left in the effect ledger
    watchdogAlive    \* the watchdog thread has not died of an exception

vars == <<bind, grants, leases, domainEpoch, ops, pausing, ledgerFull, watchdogAlive>>

BlockedStates == {"paused", "reconciliation-required", "neutralization-pending",
                  "stale", "lost"}
ReleaseStates == {"release-pending", "detached-neutralization-pending"}
BindingStates == BlockedStates \cup ReleaseStates \cup
                 {"bound", "revoked", "observation-only", "human-control",
                  "lease-expired", "detached"}
GrantPhases == {"new", "asking", "checked", "taking", "live", "expired", "fencing", "ended"}
InputStates == {"available", "suspended", "unavailable"}
\* "certain" stands for a backend's delivered, rejected or not-started, and
\* "uncertain" for its partially-delivered or unknown and for an exception
Dispositions == {"certain", "uncertain"}
Acks == IF "backend" \in Faults THEN BOOLEAN ELSE {TRUE}

Init ==
    /\ bind = [b \in Bindings |->
                 [state |-> "bound", inhibited |-> FALSE, human |-> FALSE, epoch |-> 0,
                  latest |-> 0, boundary |-> 0, inputUp |-> TRUE, detached |-> FALSE,
                  registered |-> TRUE]]
    /\ grants = [g \in Grants |->
                   [phase |-> "new", binding |-> NoBinding, human |-> FALSE, saved |-> 0,
                    leaseEpoch |-> 0, next |-> 1, lapsed |-> FALSE]]
    /\ leases = [d \in Domains |-> NoGrant]
    /\ domainEpoch = [d \in Domains |-> 0]
    /\ ops = [o \in Ops |-> [phase |-> "none", grant |-> NoGrant, seq |-> 0, dep |-> 0,
                             disposition |-> "none", sent |-> FALSE]]
    /\ pausing = [b \in Bindings |-> "no"]
    /\ ledgerFull = FALSE
    /\ watchdogAlive = TRUE

-----------------------------------------------------------------------------
(* State functions and the effects the handlers share. *)

\* grant.active, for a grant that _grants holds
Live(g) == grants[g].phase = "live"
LiveOn(b) == {g \in Grants : Live(g) /\ grants[g].binding = b}

OpBinding(o) == grants[ops[o].grant].binding

\* state.lock of b is held across steps by a submission that is dispatching
Locked(b) == \E o \in Ops : ops[o].phase = "dispatching" /\ OpBinding(o) = b

\* _ensure_attached
Attached(b) == ~bind[b].detached /\ bind[b].state \notin ReleaseStates \cup {"detached"}

\* _require_fresh_capture: `latest' never falls, so the maximum is `latest'
AtBoundary(r) == [r EXCEPT !.boundary = r.latest]

\* one backend.neutralize call with acknowledgement n
Neutralized(r, n, state) ==
    [r EXCEPT !.inhibited = ~n,
              !.state = IF n THEN state ELSE "neutralization-pending"]

Ended(S) == [g \in Grants |-> IF g \in S THEN [grants[g] EXCEPT !.phase = "ended"]
                                         ELSE grants[g]]

\* mutant of DropLeases: the domain's holder is not reset
DropLeasesOnly(S) ==
    /\ leases' = leases
    /\ domainEpoch' = [d \in Domains |-> IF leases[d] \in S THEN domainEpoch[d] + 1
                                                            ELSE domainEpoch[d]]

\* every grant of S that holds its domain's lease gives it up
DropLeases(S) ==
    /\ leases' = [d \in Domains |-> IF leases[d] \in S THEN NoGrant ELSE leases[d]]
    /\ domainEpoch' = [d \in Domains |-> IF leases[d] \in S THEN domainEpoch[d] + 1
                                                            ELSE domainEpoch[d]]

\* _invalidate_binding_grants; the requests in `dying' end with their handler
Invalidate(b, dying) ==
    /\ grants' = Ended(LiveOn(b) \cup dying)
    /\ DropLeases(LiveOn(b))

\* the grant_revoked row has no reserved space: the handler ends right there
Aborts(b) == ledgerFull /\ LiveOn(b) # {}

\* mutants of Cancelled: operations that settled before are cancelled too, or a
\* cancelled operation is forgotten without an outcome
CancelledAll(b) ==
    [o \in Ops |-> IF ops[o].phase # "none" /\ OpBinding(o) = b
                   THEN [ops[o] EXCEPT !.phase = "settled", !.disposition = "not-started"]
                   ELSE ops[o]]
CancelledForgotten(b) ==
    [o \in Ops |-> IF ops[o].phase = "reserved" /\ OpBinding(o) = b
                   THEN [ops[o] EXCEPT !.phase = "none"] ELSE ops[o]]

\* _cancel_reserved_operations
Cancelled(b) ==
    [o \in Ops |-> IF ops[o].phase = "reserved" /\ OpBinding(o) = b
                   THEN [ops[o] EXCEPT !.phase = "settled", !.disposition = "not-started"]
                   ELSE ops[o]]

\* _refresh_source_binding: the source is gone, or is another one
SourceGone(b, dying) ==
    \E s \in {"lost", "stale"}, n \in Acks :
        /\ Invalidate(b, dying)
        /\ bind' = [bind EXCEPT ![b] =
                      IF Aborts(b) THEN [@ EXCEPT !.state = s]
                                   ELSE [@ EXCEPT !.state = s, !.inhibited = ~n]]

\* _refresh_source_binding: geometry, focus, domain epoch or input state changed
Changed(b, r, input, n) ==
    LET seen == [AtBoundary(r) EXCEPT !.inputUp = (input = "available")] IN
    IF Aborts(b) THEN seen
    ELSE [Neutralized(seen, n, "observation-only")
            EXCEPT !.human = (input = "suspended"),
                   !.state = IF input = "suspended" THEN "human-control" ELSE @]

SourceChanged(b, dying) ==
    \E input \in InputStates, n \in Acks :
        /\ Invalidate(b, dying)
        /\ bind' = [bind EXCEPT ![b] = Changed(b, @, input, n)]

\* how a refresh made with capture=False ends its caller
RefreshRaises(b, dying) ==
    /\ "source" \in Faults
    /\ \/ /\ grants' = Ended(dying)
          /\ UNCHANGED <<bind, leases, domainEpoch>>
       \/ SourceGone(b, dying)
       \/ SourceChanged(b, dying)

-----------------------------------------------------------------------------
(* Grants: grant(), around an unlocked call of the host authorizer. *)

\* the locked part before the authorizer is asked
GrantAsk(g, b) ==
    /\ grants[g].phase = "new"
    /\ ~Locked(b) /\ Attached(b)
    /\ ~bind[b].inhibited
    /\ bind[b].state \notin BlockedStates
    /\ bind[b].inputUp
    /\ grants' = [grants EXCEPT ![g].phase = "asking", ![g].binding = b,
                                ![g].saved = bind[b].epoch]
    /\ UNCHANGED <<bind, leases, domainEpoch, ops, pausing, ledgerFull, watchdogAlive>>

\* grant, take_control and resume end without effect of their own when the
\* first refresh raises
FirstRefreshRaises(b) ==
    /\ ~Locked(b) /\ Attached(b)
    /\ RefreshRaises(b, {})
    /\ UNCHANGED <<ops, pausing, ledgerFull, watchdogAlive>>

\* the authorizer declines, raises or answers after the requested expiry
AuthorizerDeclines(g) ==
    /\ grants[g].phase \in {"asking", "taking"}
    /\ grants' = Ended({g})
    /\ UNCHANGED <<bind, leases, domainEpoch, ops, pausing, ledgerFull, watchdogAlive>>

\* mutant of Lease: the domain's epochs start over with every lease
LeaseAtFirstEpoch(g) ==
    LET d == DomainOf[grants[g].binding] IN
    /\ domainEpoch' = [domainEpoch EXCEPT ![d] = 1]
    /\ grants' = [grants EXCEPT ![g].phase = "live", ![g].leaseEpoch = 1]
    /\ leases' = [leases EXCEPT ![d] = g]

\* the lease of g's domain is taken; without room for the grant_issued row
\* _drop_provisional_domain gives it back at the next epoch
Lease(g) ==
    LET d == DomainOf[grants[g].binding] IN
    /\ domainEpoch' = [domainEpoch EXCEPT ![d] = IF ledgerFull THEN @ + 2 ELSE @ + 1]
    /\ IF ledgerFull
       THEN /\ grants' = Ended({g})
            /\ UNCHANGED leases
       ELSE /\ grants' = [grants EXCEPT ![g].phase = "live",
                                        ![g].leaseEpoch = domainEpoch[d] + 1]
            /\ leases' = [leases EXCEPT ![d] = g]

\* mutants of StillGrantable: the human check or the epoch check is missing
StillGrantableToBoth(g) ==
    LET b == grants[g].binding IN
    /\ bind[b].epoch = grants[g].saved
    /\ Attached(b) /\ bind[b].inputUp
    /\ leases[DomainOf[b]] = NoGrant
StillGrantableLater(g) ==
    LET b == grants[g].binding IN
    /\ Attached(b) /\ bind[b].inputUp /\ ~bind[b].human
    /\ leases[DomainOf[b]] = NoGrant

\* what an approved request is checked against, because the lock was free
\* while the authorizer decided
StillGrantable(g) ==
    LET b == grants[g].binding IN
    /\ bind[b].epoch = grants[g].saved
    /\ Attached(b) /\ bind[b].inputUp /\ ~bind[b].human
    /\ leases[DomainOf[b]] = NoGrant

\* the locked part after the approval
GrantIssue(g) ==
    /\ grants[g].phase = "asking"
    /\ ~Locked(grants[g].binding)
    /\ StillGrantable(g)
    /\ Lease(g)
    /\ UNCHANGED <<bind, ops, pausing, ledgerFull, watchdogAlive>>

\* that part raises: the source's authority changed, the binding was detached,
\* input is unavailable, a human or another lease has the domain
GrantRefused(g) ==
    LET b == grants[g].binding IN
    /\ grants[g].phase = "asking"
    /\ ~Locked(b)
    /\ IF bind[b].epoch = grants[g].saved /\ Attached(b)
       THEN \/ RefreshRaises(b, {g})
            \/ /\ ~bind[b].inputUp \/ bind[b].human \/ leases[DomainOf[b]] # NoGrant
               /\ grants' = Ended({g})
               /\ UNCHANGED <<bind, leases, domainEpoch>>
       ELSE /\ grants' = Ended({g})
            /\ UNCHANGED <<bind, leases, domainEpoch>>
    /\ UNCHANGED <<ops, pausing, ledgerFull, watchdogAlive>>

\* now reaches the earliest deadline of a lease; relinquish moves it to now
Lapse(g) ==
    /\ Live(g) /\ ~grants[g].lapsed
    /\ grants' = [grants EXCEPT ![g].lapsed = TRUE]
    /\ UNCHANGED <<bind, leases, domainEpoch, ops, pausing, ledgerFull, watchdogAlive>>

-----------------------------------------------------------------------------
(* Effects: submit_intent. *)

\* _validate_intent_authority
MayUse(g) ==
    LET r == bind[grants[g].binding] IN
    /\ Live(g) /\ ~grants[g].lapsed
    /\ ~r.detached /\ r.state \notin BlockedStates \cup {"detached"}
    /\ ~r.inhibited
    /\ r.human = grants[g].human
    /\ leases[DomainOf[grants[g].binding]] = g
    /\ domainEpoch[DomainOf[grants[g].binding]] = grants[g].leaseEpoch

\* the reservation, under the broker-wide lock only.  `dep' is the observation
\* generation the intent names in dependency_versions
Reserve(o, g, dep) ==
    /\ ops[o].phase = "none"
    /\ MayUse(g)
    /\ grants[g].next <= MaxUpdates
    /\ ~ledgerFull
    /\ ops' = [ops EXCEPT ![o] = [@ EXCEPT !.phase = "reserved", !.grant = g,
                                           !.seq = grants[g].next, !.dep = dep]]
    /\ grants' = [grants EXCEPT ![g].next = @ + 1]
    /\ UNCHANGED <<bind, leases, domainEpoch, pausing, ledgerFull, watchdogAlive>>

\* what _ensure_dispatch_fence requires before it refreshes the source
FenceOpen(o) ==
    /\ Attached(OpBinding(o))
    /\ MayUse(ops[o].grant)

\* the named observation is published and newer than the last safety boundary
Fresh(o) ==
    LET r == bind[OpBinding(o)] IN ops[o].dep > r.boundary /\ ops[o].dep <= r.latest

\* the final fence passes and the dispatching row is durable; state.lock is kept
Fence(o) ==
    /\ ops[o].phase = "reserved"
    /\ ~Locked(OpBinding(o))
    /\ FenceOpen(o)
    /\ bind[OpBinding(o)].inputUp
    /\ Fresh(o)
    /\ ops' = [ops EXCEPT ![o].phase = "dispatching", ![o].sent = TRUE]
    /\ UNCHANGED <<bind, grants, leases, domainEpoch, pausing, ledgerFull, watchdogAlive>>

\* the fence refuses and the operation settles as not-started
FenceRefuses(o) ==
    /\ ops[o].phase = "reserved"
    /\ ~Locked(OpBinding(o))
    /\ IF FenceOpen(o)
       THEN \/ RefreshRaises(OpBinding(o), {})
            \/ /\ ~Fresh(o)
               /\ UNCHANGED <<bind, grants, leases, domainEpoch>>
       ELSE UNCHANGED <<bind, grants, leases, domainEpoch>>
    /\ ops' = [ops EXCEPT ![o].phase = "settled", ![o].disposition = "not-started"]
    /\ UNCHANGED <<pausing, ledgerFull, watchdogAlive>>

\* backend.dispatch returns or raises; _settle_operation, _maybe_block_on_outcome
Deliver(o) ==
    LET b == OpBinding(o) IN
    /\ ops[o].phase = "dispatching"
    /\ \E d \in IF "outcome" \in Faults THEN Dispositions ELSE {"certain"} :
        /\ ops' = [ops EXCEPT ![o].phase = "settled", ![o].disposition = d]
        /\ IF d = "uncertain"
           THEN /\ Invalidate(b, {})
                /\ \E n \in Acks :
                     bind' = [bind EXCEPT ![b] =
                                IF Aborts(b) THEN @
                                ELSE AtBoundary(Neutralized(@, n, "reconciliation-required"))]
           ELSE UNCHANGED <<bind, grants, leases, domainEpoch>>
    /\ UNCHANGED <<pausing, ledgerFull, watchdogAlive>>

-----------------------------------------------------------------------------
(* The host's ways to end authority. *)

\* revoke and release_human without their last row: authority_epoch moves first
\* and _invalidate_binding_grants may already raise
EndAuthority(b, human, state, n) ==
    LET moved == [bind[b] EXCEPT !.epoch = @ + 1] IN
    /\ DropLeases(LiveOn(b))
    /\ IF Aborts(b)
       THEN /\ bind' = [bind EXCEPT ![b] = moved]
            /\ UNCHANGED ops
       ELSE /\ bind' = [bind EXCEPT ![b] =
                          [AtBoundary(Neutralized(moved, n, state)) EXCEPT !.human = human]]
            /\ ops' = Cancelled(b)

\* mutant of MayEndAuthority: it does not wait for an input being delivered
MayEndAuthorityAtOnce(b) ==
    /\ bind[b].registered
    /\ bind[b].epoch < MaxEpoch

MayEndAuthority(b) ==
    /\ bind[b].registered
    /\ ~Locked(b)
    /\ bind[b].epoch < MaxEpoch

Revoke(b) ==
    /\ MayEndAuthority(b)
    /\ \E n \in Acks : EndAuthority(b, bind[b].human, "revoked", n)
    /\ grants' = Ended(LiveOn(b))
    /\ UNCHANGED <<pausing, ledgerFull, watchdogAlive>>

\* pause: revoke, and then, outside the lock, one more write of state.state
Pause(b) ==
    /\ MayEndAuthority(b)
    /\ pausing[b] = "no"
    /\ \E n \in Acks :
        /\ EndAuthority(b, bind[b].human, "revoked", n)
        /\ pausing' = [pausing EXCEPT ![b] = IF ledgerFull THEN "no"
                                             ELSE IF n THEN "confirmed" ELSE "unconfirmed"]
    /\ grants' = Ended(LiveOn(b))
    /\ UNCHANGED <<ledgerFull, watchdogAlive>>

PauseWrites(b) ==
    /\ pausing[b] # "no"
    /\ pausing' = [pausing EXCEPT ![b] = "no"]
    /\ bind' = IF ~bind[b].registered THEN bind
               ELSE [bind EXCEPT ![b].state = IF pausing[b] = "confirmed"
                                              THEN "paused" ELSE "neutralization-pending"]
    /\ UNCHANGED <<grants, leases, domainEpoch, ops, ledgerFull, watchdogAlive>>

ReleaseHuman(b) ==
    /\ MayEndAuthority(b)
    /\ \E n \in Acks : EndAuthority(b, FALSE, "observation-only", n)
    /\ grants' = Ended(LiveOn(b))
    /\ UNCHANGED <<pausing, ledgerFull, watchdogAlive>>

Resume(b) ==
    /\ bind[b].registered
    /\ ~Locked(b) /\ Attached(b)
    /\ ~bind[b].inhibited
    /\ bind' = [bind EXCEPT ![b] = [AtBoundary(@) EXCEPT !.state = "observation-only",
                                                         !.human = FALSE]]
    /\ UNCHANGED <<grants, leases, domainEpoch, ops, pausing, ledgerFull, watchdogAlive>>

\* take_control up to its call of revoke; the lock is dropped in between
TakeCheck(g, b) ==
    /\ grants[g].phase = "new"
    /\ bind[b].registered
    /\ ~Locked(b) /\ Attached(b)
    /\ bind[b].inputUp
    /\ grants' = [grants EXCEPT ![g].phase = "checked", ![g].binding = b,
                                ![g].human = TRUE, ![g].saved = bind[b].epoch]
    /\ UNCHANGED <<bind, leases, domainEpoch, ops, pausing, ledgerFull, watchdogAlive>>

\* its call of revoke; the takeover stays pending unless that is confirmed
TakeRevoke(g) ==
    LET b == grants[g].binding IN
    /\ grants[g].phase = "checked"
    /\ MayEndAuthority(b)
    /\ \E n \in Acks :
        /\ EndAuthority(b, bind[b].human, "revoked", n)
        /\ grants' = IF n /\ ~ledgerFull
                     THEN [Ended(LiveOn(b)) EXCEPT ![g].phase = "taking"]
                     ELSE Ended(LiveOn(b) \cup {g})
    /\ UNCHANGED <<pausing, ledgerFull, watchdogAlive>>

\* the locked part after the host approved the takeover
TakeIssue(g) ==
    LET b == grants[g].binding IN
    /\ grants[g].phase = "taking"
    /\ ~Locked(b)
    /\ bind[b].epoch = grants[g].saved + 1
    /\ Attached(b)
    /\ bind[b].inputUp
    /\ leases[DomainOf[b]] = NoGrant
    /\ Lease(g)
    /\ bind' = IF ledgerFull THEN bind
               ELSE [bind EXCEPT ![b].human = TRUE, ![b].inhibited = FALSE,
                                 ![b].state = "human-control"]
    /\ UNCHANGED <<ops, pausing, ledgerFull, watchdogAlive>>

TakeRefused(g) ==
    LET b == grants[g].binding IN
    /\ \/ grants[g].phase = "checked" /\ ~bind[b].registered
       \/ grants[g].phase = "taking"
    /\ ~Locked(b)
    /\ IF grants[g].phase = "taking" /\ bind[b].epoch = grants[g].saved + 1 /\ Attached(b)
       THEN \/ RefreshRaises(b, {g})
            \/ /\ ~bind[b].inputUp \/ leases[DomainOf[b]] # NoGrant
               /\ grants' = Ended({g})
               /\ UNCHANGED <<bind, leases, domainEpoch>>
       ELSE /\ grants' = Ended({g})
            /\ UNCHANGED <<bind, leases, domainEpoch>>
    /\ UNCHANGED <<ops, pausing, ledgerFull, watchdogAlive>>

-----------------------------------------------------------------------------
(* The source: capture, foreground gating, unbind and release. *)

\* the next observation is published
Observed(r) == [r EXCEPT !.latest = @ + 1]

\* capture: the sample belongs to another source, epoch or geometry
SampleRefused(b) ==
    \E n \in Acks :
        /\ Invalidate(b, {})
        /\ bind' = [bind EXCEPT ![b] =
                      IF Aborts(b) THEN [@ EXCEPT !.state = "stale", !.inhibited = TRUE]
                      ELSE [@ EXCEPT !.state = "stale", !.inhibited = ~n]]

\* capture: a changed source fences its grants and may still be published
CaptureChanged(b) ==
    \E input \in InputStates, n \in Acks, published \in BOOLEAN :
        /\ published => ~Aborts(b)
        /\ Invalidate(b, {})
        /\ bind' = [bind EXCEPT ![b] = IF published THEN Observed(Changed(b, @, input, n))
                                       ELSE Changed(b, @, input, n)]

Capture(b) ==
    /\ bind[b].registered
    /\ ~Locked(b)
    /\ \/ /\ bind' = [bind EXCEPT ![b] = Observed(@)]
          /\ UNCHANGED <<grants, leases, domainEpoch>>
       \/ "source" \in Faults /\ (CaptureChanged(b) \/ SampleRefused(b) \/ SourceGone(b, {}))
    /\ bind'[b].latest <= MaxGeneration
    /\ UNCHANGED <<ops, pausing, ledgerFull, watchdogAlive>>

\* set_follow_foreground or set_demonstration without a matching receipt
ForegroundUnconfirmed(b) ==
    /\ "backend" \in Faults
    /\ bind[b].registered
    /\ ~Locked(b) /\ Attached(b)
    /\ bind' = [bind EXCEPT ![b].inhibited = TRUE, ![b].state = "neutralization-pending"]
    /\ UNCHANGED <<grants, leases, domainEpoch, ops, pausing, ledgerFull, watchdogAlive>>

\* unbind: unless the neutralisation and the source's own unbind are confirmed it raises,
\* and the binding stays as it is, not inhibited; its grants and lease stay in any case
Unbind(b) ==
    /\ bind[b].registered /\ ~bind[b].detached
    /\ ~Locked(b)
    /\ bind' = [bind EXCEPT ![b].detached = TRUE, ![b].inhibited = FALSE, ![b].state = "detached"]
    /\ UNCHANGED <<grants, leases, domainEpoch, ops, pausing, ledgerFull, watchdogAlive>>

\* release: neutralise, release every retained generation, forget the binding
Released(r, n, freed) ==
    LET idle == [r EXCEPT !.human = FALSE, !.inhibited = ~n] IN
    IF ~n THEN [idle EXCEPT !.state = "detached-neutralization-pending"]
    ELSE IF ~freed THEN [idle EXCEPT !.state = "release-pending", !.inhibited = TRUE]
    ELSE [idle EXCEPT !.state = "detached", !.detached = TRUE, !.registered = FALSE]

Release(b) ==
    /\ bind[b].registered
    /\ ~Locked(b)
    /\ IF bind[b].detached
       THEN UNCHANGED <<grants, leases, domainEpoch, ops>>
       ELSE /\ Invalidate(b, {})
            /\ ops' = IF Aborts(b) THEN ops ELSE Cancelled(b)
    /\ \E n \in Acks, freed \in Acks :
         bind' = [bind EXCEPT ![b] = IF ~bind[b].detached /\ Aborts(b) THEN @
                                     ELSE Released(@, n, freed)]
    /\ UNCHANGED <<pausing, ledgerFull, watchdogAlive>>

-----------------------------------------------------------------------------
(* The watchdog thread and the ledger's space. *)

\* mutant of Lapsed: the watchdog skips the grants of unbound sources
LapsedAttached == {g \in Grants : Live(g) /\ grants[g].lapsed /\ Attached(grants[g].binding)}

Lapsed == {g \in Grants : Live(g) /\ grants[g].lapsed}

\* under the broker-wide lock: collect every lapsed grant and free its domain
WatchdogCollects ==
    /\ watchdogAlive
    /\ Lapsed # {}
    /\ \A g \in Grants : grants[g].phase \notin {"expired", "fencing"}
    /\ grants' = [g \in Grants |-> IF g \in Lapsed THEN [grants[g] EXCEPT !.phase = "expired"]
                                                   ELSE grants[g]]
    /\ DropLeases(Lapsed)
    /\ UNCHANGED <<bind, ops, pausing, ledgerFull, watchdogAlive>>

\* later, for each collected grant in turn and under no lock: the grant_expired
\* row, and a look at whether the binding is detached
WatchdogReports(g) ==
    /\ watchdogAlive /\ ~ledgerFull
    /\ grants[g].phase = "expired"
    /\ \A h \in Grants : grants[h].phase # "fencing"
    /\ grants' = [grants EXCEPT ![g].phase = IF bind[grants[g].binding].detached
                                             THEN "ended" ELSE "fencing"]
    /\ UNCHANGED <<bind, leases, domainEpoch, ops, pausing, ledgerFull, watchdogAlive>>

\* then the binding is fenced under its state.lock; the lease_neutralized row
\* may no longer fit
WatchdogNeutralizes(g) ==
    LET b == grants[g].binding IN
    /\ watchdogAlive
    /\ grants[g].phase = "fencing"
    /\ ~Locked(b)
    /\ grants' = Ended({g})
    /\ ops' = Cancelled(b)
    /\ \E n \in Acks :
         bind' = [bind EXCEPT ![b] =
                    [AtBoundary(Neutralized(@, n, "lease-expired")) EXCEPT !.human = FALSE]]
    /\ watchdogAlive' = ~ledgerFull
    /\ UNCHANGED <<leases, domainEpoch, pausing, ledgerFull>>

\* the grant_expired row does not fit and nothing catches the exception
WatchdogDies(g) ==
    /\ watchdogAlive /\ ledgerFull
    /\ grants[g].phase = "expired"
    /\ \A h \in Grants : grants[h].phase # "fencing"
    /\ watchdogAlive' = FALSE
    /\ UNCHANGED <<bind, grants, leases, domainEpoch, ops, pausing, ledgerFull>>

LedgerFills ==
    /\ "ledger" \in Faults /\ ~ledgerFull
    /\ ledgerFull' = TRUE
    /\ UNCHANGED <<bind, grants, leases, domainEpoch, ops, pausing, watchdogAlive>>

Next ==
    \/ \E g \in Grants, b \in Bindings : GrantAsk(g, b) \/ TakeCheck(g, b)
    \/ \E g \in Grants : \/ AuthorizerDeclines(g) \/ GrantIssue(g) \/ GrantRefused(g)
                         \/ Lapse(g) \/ TakeRevoke(g) \/ TakeIssue(g) \/ TakeRefused(g)
                         \/ WatchdogReports(g) \/ WatchdogNeutralizes(g) \/ WatchdogDies(g)
    \/ \E o \in Ops, g \in Grants, dep \in 1..MaxGeneration : Reserve(o, g, dep)
    \/ \E o \in Ops : Fence(o) \/ FenceRefuses(o) \/ Deliver(o)
    \/ \E b \in Bindings : \/ FirstRefreshRaises(b) \/ Revoke(b) \/ Pause(b) \/ PauseWrites(b)
                           \/ ReleaseHuman(b) \/ Resume(b) \/ Capture(b) \/ Release(b)
                           \/ ForegroundUnconfirmed(b) \/ Unbind(b)
    \/ WatchdogCollects \/ LedgerFills

Spec == Init /\ [][Next]_vars

\* the watchdog thread runs while it lives, and a submitting thread gets its
\* binding's lock and returns from backend.dispatch
Fairness ==
    /\ WF_vars(WatchdogCollects)
    /\ \A g \in Grants : WF_vars(WatchdogReports(g)) /\ WF_vars(WatchdogNeutralizes(g))
    /\ \A o \in Ops : WF_vars(Fence(o) \/ FenceRefuses(o)) /\ WF_vars(Deliver(o))

FairSpec == Spec /\ Fairness

-----------------------------------------------------------------------------
(* What holds. *)

BindingType ==
    [state : BindingStates, inhibited : BOOLEAN, human : BOOLEAN, epoch : Nat, latest : Nat,
     boundary : Nat, inputUp : BOOLEAN, detached : BOOLEAN, registered : BOOLEAN]
GrantType ==
    [phase : GrantPhases, binding : Bindings \cup {NoBinding}, human : BOOLEAN, saved : Nat,
     leaseEpoch : Nat, next : Nat, lapsed : BOOLEAN]
OpType ==
    [phase : {"none", "reserved", "dispatching", "settled"}, grant : Grants \cup {NoGrant},
     seq : Nat, dep : Nat, disposition : Dispositions \cup {"none", "not-started"}, sent : BOOLEAN]

\* Every variable keeps its type, a grant that was requested has its binding and
\* an operation that was reserved has its grant.
TypeOK ==
    /\ bind \in [Bindings -> BindingType]
    /\ grants \in [Grants -> GrantType]
    /\ \A g \in Grants : grants[g].phase # "new" => grants[g].binding \in Bindings
    /\ leases \in [Domains -> Grants \cup {NoGrant}]
    /\ domainEpoch \in [Domains -> Nat]
    /\ ops \in [Ops -> OpType]
    /\ \A o \in Ops : ops[o].phase # "none" =>
          ops[o].grant \in Grants /\ grants[ops[o].grant].phase # "new"
    /\ pausing \in [Bindings -> {"no", "confirmed", "unconfirmed"}]
    /\ ledgerFull \in BOOLEAN
    /\ watchdogAlive \in BOOLEAN

\* A domain's lease and the live grants are the same fact kept in two places,
\* whichever of revocation, expiry, takeover, source change and failed issue
\* ends a grant: two live grants never share a domain, no live grant lacks the
\* lease or its epoch, and no dead grant keeps a domain from everybody else.
LeaseIsLive ==
    /\ \A g \in Grants : Live(g) =>
          /\ leases[DomainOf[grants[g].binding]] = g
          /\ domainEpoch[DomainOf[grants[g].binding]] = grants[g].leaseEpoch
    /\ \A d \in Domains : leases[d] # NoGrant =>
          Live(leases[d]) /\ DomainOf[grants[leases[d]].binding] = d

\* Lease epochs are fencing tokens: two grants of one domain never get the same
\* one, though leases are also dropped unused when the grant_issued row fails.
LeaseEpochsUnique ==
    \A g, h \in Grants :
        /\ g # h /\ grants[g].leaseEpoch > 0 /\ grants[h].leaseEpoch > 0
        /\ DomainOf[grants[g].binding] = DomainOf[grants[h].binding]
        => grants[g].leaseEpoch # grants[h].leaseEpoch

\* While a binding says that a human controls it, no grant of Cassi's is live on
\* it, however a takeover interleaves with requests that were already approved.
HumanExcludesCassi ==
    \A b \in Bindings : bind[b].human => \A g \in LiveOn(b) : grants[g].human

\* the authority epoch at which a grant's request stays valid
RequestedAt(g) == grants[g].saved + (IF grants[g].human THEN 1 ELSE 0)

\* No revocation, pause, takeover or release of control has happened on the
\* binding between the request of a grant that is live, or of one that an input
\* now being delivered relies on, and this moment.
AuthorityUnbroken ==
    /\ \A g \in Grants : Live(g) => bind[grants[g].binding].epoch = RequestedAt(g)
    /\ \A o \in Ops : ops[o].phase = "dispatching" =>
          bind[OpBinding(o)].epoch = RequestedAt(ops[o].grant)

\* For as long as a backend delivers an input, nothing another thread does makes
\* the binding detached, inhibited or controlled by the other party, moves the
\* freshness boundary past the observation relied on, or starts a second input.
DeliveryStaysFenced ==
    \A o \in Ops : ops[o].phase = "dispatching" =>
        LET r == bind[OpBinding(o)] IN
        /\ Attached(OpBinding(o)) /\ ~r.inhibited /\ Fresh(o)
        /\ r.human = grants[ops[o].grant].human
        /\ \A p \in Ops : ops[p].phase = "dispatching" /\ OpBinding(p) = OpBinding(o) => p = o

\* an operation as its client sees it, and whether the backend was handed it
Seeing(o) ==
    [status |-> CASE ops[o].phase = "none" -> "none"
                  [] ops[o].phase = "settled" -> "concluded"
                  [] OTHER -> "accepted",
     sent |-> IF ops[o].sent THEN 1 ELSE 0, outcome |-> ops[o].disposition]

Contract == INSTANCE EffectContract WITH effect <- [o \in Ops |-> Seeing(o)]

\* However its own thread, a revocation, the watchdog and a release race for it, an
\* operation is handed to the backend at most once, never after it was cancelled,
\* and its outcome is never replaced by another: the broker keeps EffectContract.
KeepsContract == Contract!Spec

\* A lease whose deadline passed is given up and its binding has been fenced by
\* the watchdog or by whoever ended the grant first.
ExpiryFences ==
    \A g \in Grants : (Live(g) /\ grants[g].lapsed) ~> grants[g].phase = "ended"

\* An operation reserved in the ledger gets an outcome, whatever happens to the
\* grant, the binding and the source between the reservation and the fence.
ReservedSettles ==
    \A o \in Ops : ops[o].phase = "reserved" ~> ops[o].phase = "settled"
=============================================================================
