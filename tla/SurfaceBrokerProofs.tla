------------------------ MODULE SurfaceBrokerProofs ------------------------
(***************************************************************************)
(* Proofs about SurfaceBroker for every set of bindings, domains, grants   *)
(* and operations, every bound and every choice of faults: its types, its  *)
(* safety invariants, and that it implements EffectContract.  For the      *)
(* invariants each step is first summarised: it either ends the authority  *)
(* of a set of live grants and gives their leases back (Ends), or it makes *)
(* one grant live (Issues); what it does to the bindings is fenced by that *)
(* (Fenced).                                                               *)
(***************************************************************************)
EXTENDS SurfaceBroker, TLAPS

USE DomainAssumption, NoGrantAssumption, NoBindingAssumption, BoundsAssumption

-----------------------------------------------------------------------------
(* Types. *)

\* what a step must keep of the grants, of the operations and of the leases
GrantsOK(gs) ==
    /\ gs \in [Grants -> GrantType]
    /\ \A g \in Grants : gs[g].phase # "new" => gs[g].binding \in Bindings
    /\ \A g \in Grants : grants[g].phase # "new" => gs[g].phase # "new"
OpsOK(os) ==
    /\ os \in [Ops -> OpType]
    /\ \A o \in Ops : os[o].phase # "none" =>
          os[o].grant \in Grants /\ grants[os[o].grant].phase # "new"
BindOK(bs) == bs \in [Bindings -> BindingType]
LeasesOK(ls, de) == ls \in [Domains -> Grants \cup {NoGrant}] /\ de \in [Domains -> Nat]
PausingOK(ps) == ps \in [Bindings -> {"no", "confirmed", "unconfirmed"}]

LEMMA CurrentType ==
    ASSUME TypeOK
    PROVE  /\ GrantsOK(grants) /\ OpsOK(ops) /\ BindOK(bind) /\ PausingOK(pausing)
           /\ LeasesOK(leases, domainEpoch) /\ ledgerFull \in BOOLEAN /\ watchdogAlive \in BOOLEAN
BY DEF TypeOK, GrantsOK, OpsOK, BindOK, PausingOK, LeasesOK

LEMMA NextType ==
    ASSUME TypeOK, GrantsOK(grants'), OpsOK(ops'), BindOK(bind'), LeasesOK(leases', domainEpoch'),
           PausingOK(pausing'), ledgerFull' \in BOOLEAN, watchdogAlive' \in BOOLEAN
    PROVE  TypeOK'
BY DEF TypeOK, GrantsOK, OpsOK, BindOK, PausingOK, LeasesOK

\* One requested grant is written.
LEMMA OneGrantType ==
    ASSUME TypeOK, NEW g \in Grants, NEW gs, GrantsOK(gs), NEW r \in GrantType,
           r.phase # "new", r.binding \in Bindings
    PROVE  GrantsOK([gs EXCEPT ![g] = r])
BY DEF GrantsOK

\* One operation of a requested grant is written.
LEMMA OneOpType ==
    ASSUME TypeOK, NEW o \in Ops, NEW r \in OpType, r.grant \in Grants,
           grants[r.grant].phase # "new"
    PROVE  OpsOK([ops EXCEPT ![o] = r])
BY DEF OpsOK, TypeOK

\* One binding is written.
LEMMA OneBindingType ==
    ASSUME TypeOK, NEW b \in Bindings, NEW r \in BindingType
    PROVE  BindOK([bind EXCEPT ![b] = r])
BY DEF BindOK, TypeOK

\* Ending a set of grants that were all requested keeps the types.
LEMMA EndedType ==
    ASSUME TypeOK, NEW S \in SUBSET Grants, \A g \in S : grants[g].phase # "new"
    PROVE  GrantsOK(Ended(S))
BY DEF TypeOK, GrantsOK, Ended, GrantType, GrantPhases

\* The grants that live on a binding were requested.
LEMMA LiveOnType ==
    ASSUME TypeOK, NEW b
    PROVE  LiveOn(b) \in SUBSET Grants /\ \A g \in LiveOn(b) : grants[g].phase # "new"
BY DEF LiveOn, Live

\* Dropping leases keeps the types of the leases and of the domain epochs.
LEMMA DropLeasesType ==
    ASSUME TypeOK, NEW S, DropLeases(S)
    PROVE  LeasesOK(leases', domainEpoch')
BY DEF TypeOK, DropLeases, LeasesOK

\* Cancelling the reserved operations of a binding keeps the types.
LEMMA CancelledType ==
    ASSUME TypeOK, NEW b
    PROVE  OpsOK(Cancelled(b))
<1>1. ASSUME NEW o \in Ops
      PROVE  /\ Cancelled(b)[o] \in OpType
             /\ Cancelled(b)[o].phase # "none" => ops[o].phase # "none"
             /\ Cancelled(b)[o].grant = ops[o].grant
  <2>1. ops[o] \in OpType
    BY DEF TypeOK
  <2>2. CASE ops[o].phase = "reserved" /\ OpBinding(o) = b
    <3>1. Cancelled(b)[o] = [ops[o] EXCEPT !.phase = "settled", !.disposition = "not-started"]
      BY <2>2 DEF Cancelled
    <3> QED BY <2>1, <2>2, <3>1 DEF OpType
  <2>3. CASE ~(ops[o].phase = "reserved" /\ OpBinding(o) = b)
    BY <2>1, <2>3 DEF Cancelled
  <2> QED BY <2>2, <2>3
<1>2. Cancelled(b) \in [Ops -> OpType]
  BY <1>1 DEF Cancelled
<1> QED BY <1>1, <1>2 DEF OpsOK, TypeOK

\* The binding records that the handlers compute have their type.
LEMMA NeutralizedType ==
    ASSUME NEW r \in BindingType, NEW n \in BOOLEAN, NEW s \in BindingStates
    PROVE  Neutralized(r, n, s) \in BindingType /\ AtBoundary(r) \in BindingType
BY DEF Neutralized, AtBoundary, BindingType, BindingStates, BlockedStates

LEMMA ChangedType ==
    ASSUME NEW b, NEW r \in BindingType, NEW input \in InputStates, NEW n \in BOOLEAN
    PROVE  Changed(b, r, input, n) \in BindingType
BY DEF Changed, Neutralized, AtBoundary, BindingType, BindingStates, BlockedStates

LEMMA ObservedType ==
    ASSUME NEW r \in BindingType
    PROVE  Observed(r) \in BindingType
BY DEF Observed, BindingType

LEMMA AcksType == Acks \in SUBSET BOOLEAN
BY DEF Acks

\* Fencing a binding's grants keeps the types.
LEMMA InvalidateType ==
    ASSUME TypeOK, NEW b, NEW dying \in SUBSET Grants,
           \A g \in dying : grants[g].phase # "new", Invalidate(b, dying)
    PROVE  GrantsOK(grants') /\ LeasesOK(leases', domainEpoch')
<1>1. LiveOn(b) \cup dying \in SUBSET Grants /\ \A g \in LiveOn(b) \cup dying : grants[g].phase # "new"
  BY LiveOnType
<1>2. grants' = Ended(LiveOn(b) \cup dying) /\ DropLeases(LiveOn(b))
  BY DEF Invalidate
<1> QED BY <1>1, <1>2, EndedType, DropLeasesType

\* A lost or replaced source keeps the type of its binding.
LEMMA SourceGoneType ==
    ASSUME TypeOK, NEW b \in Bindings, NEW dying, SourceGone(b, dying)
    PROVE  BindOK(bind')
<1>1. PICK s \in {"lost", "stale"}, n \in Acks :
         bind' = [bind EXCEPT ![b] =
                    IF Aborts(b) THEN [@ EXCEPT !.state = s]
                                 ELSE [@ EXCEPT !.state = s, !.inhibited = ~n]]
  BY DEF SourceGone
<1>2. bind[b] \in BindingType /\ s \in BindingStates /\ n \in BOOLEAN
  BY AcksType DEF TypeOK, BindingStates, BlockedStates
<1>3. /\ [bind[b] EXCEPT !.state = s] \in BindingType
      /\ [bind[b] EXCEPT !.state = s, !.inhibited = ~n] \in BindingType
  BY <1>2 DEF BindingType
<1> QED BY <1>1, <1>3, OneBindingType

\* A refresh that raises keeps the types of everything it writes.
LEMMA RefreshRaisesType ==
    ASSUME TypeOK, NEW b \in Bindings, NEW dying \in SUBSET Grants,
           \A g \in dying : grants[g].phase # "new", RefreshRaises(b, dying)
    PROVE  BindOK(bind') /\ GrantsOK(grants') /\ LeasesOK(leases', domainEpoch')
<1>1. CASE grants' = Ended(dying) /\ UNCHANGED <<bind, leases, domainEpoch>>
  BY <1>1, EndedType, CurrentType
<1>2. CASE SourceGone(b, dying)
  BY <1>2, InvalidateType, SourceGoneType DEF SourceGone
<1>3. CASE SourceChanged(b, dying)
  <2>1. PICK input \in InputStates, n \in Acks : bind' = [bind EXCEPT ![b] = Changed(b, @, input, n)]
    BY <1>3 DEF SourceChanged
  <2>2. Changed(b, bind[b], input, n) \in BindingType
    BY AcksType, ChangedType DEF TypeOK
  <2>3. BindOK(bind')
    BY <2>1, <2>2, OneBindingType
  <2> QED BY <1>3, <2>3, InvalidateType DEF SourceChanged
<1> QED BY <1>1, <1>2, <1>3 DEF RefreshRaises

\* A binding whose authority was ended, with or without the neutralisation.
LEMMA EndAuthorityType ==
    ASSUME TypeOK, NEW b \in Bindings, NEW h \in BOOLEAN, NEW n \in Acks,
           NEW s \in BindingStates, EndAuthority(b, h, s, n)
    PROVE  BindOK(bind') /\ OpsOK(ops') /\ LeasesOK(leases', domainEpoch')
<1> DEFINE moved == [bind[b] EXCEPT !.epoch = @ + 1]
<1>1. moved \in BindingType
  BY DEF TypeOK, BindingType
<1>2. [AtBoundary(Neutralized(moved, n, s)) EXCEPT !.human = h] \in BindingType
  <2>1. Neutralized(moved, n, s) \in BindingType
    BY <1>1, AcksType, NeutralizedType
  <2>2. AtBoundary(Neutralized(moved, n, s)) \in BindingType
    BY <2>1 DEF AtBoundary, BindingType
  <2> QED BY <2>2 DEF BindingType
<1>3. BindOK(bind')
  BY <1>1, <1>2, OneBindingType DEF EndAuthority
<1>4. DropLeases(LiveOn(b))
  BY DEF EndAuthority
<1>5. ops' = ops \/ ops' = Cancelled(b)
  BY DEF EndAuthority
<1> QED BY <1>3, <1>4, <1>5, DropLeasesType, CancelledType, CurrentType

-----------------------------------------------------------------------------
(* Type correctness. *)

LEMMA InitType == Init => TypeOK
<1> SUFFICES ASSUME Init PROVE TypeOK
  OBVIOUS
<1>1. BindOK(bind)
  BY DEF Init, BindOK, BindingType, BindingStates
<1>2. grants \in [Grants -> GrantType] /\ \A g \in Grants : grants[g].phase = "new"
  BY DEF Init, GrantType, GrantPhases
<1>3. ops \in [Ops -> OpType] /\ \A o \in Ops : ops[o].phase = "none"
  BY DEF Init, OpType
<1>4. /\ LeasesOK(leases, domainEpoch) /\ PausingOK(pausing)
      /\ ledgerFull \in BOOLEAN /\ watchdogAlive \in BOOLEAN
  BY DEF Init, LeasesOK, PausingOK
<1> QED BY <1>1, <1>2, <1>3, <1>4 DEF TypeOK, BindOK, LeasesOK, PausingOK

\* A request draws a fresh grant and binds it.
LEMMA RequestType ==
    ASSUME TypeOK, NEW g \in Grants, NEW b \in Bindings, GrantAsk(g, b) \/ TakeCheck(g, b)
    PROVE  TypeOK'
<1>1. \E p \in {"asking", "checked"}, h \in BOOLEAN :
        grants' = [grants EXCEPT ![g] = [grants[g] EXCEPT !.phase = p, !.binding = b, !.human = h,
                                                          !.saved = bind[b].epoch]]
  <2>1. CASE GrantAsk(g, b)
    <3>1. grants[g] \in GrantType
      BY DEF TypeOK
    <3>2. grants[g].human \in BOOLEAN
      BY <3>1 DEF GrantType
    <3>3. [grants[g] EXCEPT !.phase = "asking", !.binding = b, !.saved = bind[b].epoch]
            = [grants[g] EXCEPT !.phase = "asking", !.binding = b, !.human = grants[g].human,
                                !.saved = bind[b].epoch]
      BY <3>1 DEF GrantType
    <3>4. grants' = [grants EXCEPT ![g] = [grants[g] EXCEPT !.phase = "asking", !.binding = b,
                                                            !.saved = bind[b].epoch]]
      BY <2>1 DEF GrantAsk, TypeOK
    <3> QED BY <3>2, <3>3, <3>4
  <2>2. CASE TakeCheck(g, b)
    BY <2>2 DEF TakeCheck, TypeOK
  <2> QED BY <2>1, <2>2
<1>2. PICK p \in {"asking", "checked"}, h \in BOOLEAN :
        grants' = [grants EXCEPT ![g] = [grants[g] EXCEPT !.phase = p, !.binding = b, !.human = h,
                                                          !.saved = bind[b].epoch]]
  BY <1>1
<1> DEFINE r == [grants[g] EXCEPT !.phase = p, !.binding = b, !.human = h, !.saved = bind[b].epoch]
<1>3. r \in GrantType /\ r.phase # "new" /\ r.binding \in Bindings
  <2>1. grants[g] \in GrantType /\ bind[b].epoch \in Nat
    BY DEF TypeOK, BindingType
  <2> QED BY <2>1 DEF GrantType, GrantPhases
<1>4. GrantsOK(grants')
  BY <1>2, <1>3, OneGrantType, CurrentType
<1>5. UNCHANGED <<bind, leases, domainEpoch, ops, pausing, ledgerFull, watchdogAlive>>
  BY DEF GrantAsk, TakeCheck
<1> QED BY <1>4, <1>5, CurrentType, NextType

\* The approved part of a grant or of a takeover.
LEMMA LeaseType ==
    ASSUME TypeOK, NEW g \in Grants, grants[g].phase # "new", Lease(g)
    PROVE  GrantsOK(grants') /\ LeasesOK(leases', domainEpoch')
<1> DEFINE d == DomainOf[grants[g].binding]
<1>1. d \in Domains /\ domainEpoch[d] \in Nat /\ grants[g] \in GrantType /\ grants[g].binding \in Bindings
  BY DEF TypeOK
<1>2. domainEpoch' \in [Domains -> Nat]
  BY <1>1 DEF Lease, TypeOK
<1>3. CASE ledgerFull
  <2>1. grants' = Ended({g}) /\ leases' = leases
    BY <1>3 DEF Lease
  <2> QED BY <1>2, <2>1, EndedType DEF TypeOK, LeasesOK
<1>4. CASE ~ledgerFull
  <2> DEFINE r == [grants[g] EXCEPT !.phase = "live", !.leaseEpoch = domainEpoch[d] + 1]
  <2>1. grants' = [grants EXCEPT ![g] = r]
    BY <1>4 DEF Lease, TypeOK
  <2>2. r \in GrantType /\ r.phase # "new" /\ r.binding \in Bindings
    <3>1. \A e \in Nat : LET q == [grants[g] EXCEPT !.phase = "live", !.leaseEpoch = e] IN
                           q \in GrantType /\ q.phase # "new" /\ q.binding \in Bindings
      BY <1>1 DEF GrantType, GrantPhases
    <3>2. domainEpoch[d] + 1 \in Nat
      BY <1>1
    <3> QED BY <3>1, <3>2
  <2>3. leases' \in [Domains -> Grants \cup {NoGrant}]
    BY <1>1, <1>4 DEF Lease, TypeOK
  <2> QED BY <1>2, <2>1, <2>2, <2>3, OneGrantType, CurrentType DEF LeasesOK
<1> QED BY <1>3, <1>4

LEMMA IssueType ==
    ASSUME TypeOK, NEW g \in Grants, GrantIssue(g) \/ TakeIssue(g)
    PROVE  TypeOK'
<1>1. grants[g].phase # "new" /\ grants[g].binding \in Bindings
  BY DEF GrantIssue, TakeIssue, TypeOK
<1>2. GrantsOK(grants') /\ LeasesOK(leases', domainEpoch')
  BY <1>1, LeaseType DEF GrantIssue, TakeIssue
<1>3. BindOK(bind')
  <2> DEFINE r == [bind[grants[g].binding] EXCEPT !.human = TRUE, !.inhibited = FALSE,
                                                  !.state = "human-control"]
  <2>1. bind[grants[g].binding] \in BindingType
    BY <1>1 DEF TypeOK
  <2>2. r \in BindingType
    BY <2>1 DEF BindingType, BindingStates
  <2>3. bind' = bind \/ bind' = [bind EXCEPT ![grants[g].binding] = r]
    BY <1>1 DEF GrantIssue, TakeIssue, TypeOK
  <2> QED BY <1>1, <2>2, <2>3, OneBindingType, CurrentType
<1>4. UNCHANGED <<ops, pausing, ledgerFull, watchdogAlive>>
  BY DEF GrantIssue, TakeIssue
<1> QED BY <1>2, <1>3, <1>4, CurrentType, NextType

\* A request that ends with nothing but the effects of a refresh that raised.
LEMMA RefusedType ==
    ASSUME TypeOK, NEW g \in Grants, AuthorizerDeclines(g) \/ GrantRefused(g) \/ TakeRefused(g)
    PROVE  TypeOK'
<1>1. grants[g].phase # "new" /\ grants[g].binding \in Bindings /\ {g} \in SUBSET Grants
  BY DEF AuthorizerDeclines, GrantRefused, TakeRefused, TypeOK
<1>2. \/ RefreshRaises(grants[g].binding, {g})
      \/ grants' = Ended({g}) /\ UNCHANGED <<bind, leases, domainEpoch>>
  BY DEF AuthorizerDeclines, GrantRefused, TakeRefused
<1>3. UNCHANGED <<ops, pausing, ledgerFull, watchdogAlive>>
  BY DEF AuthorizerDeclines, GrantRefused, TakeRefused
<1>4. BindOK(bind') /\ GrantsOK(grants') /\ LeasesOK(leases', domainEpoch')
  <2>1. CASE RefreshRaises(grants[g].binding, {g})
    BY <1>1, <2>1, RefreshRaisesType
  <2>2. CASE grants' = Ended({g}) /\ UNCHANGED <<bind, leases, domainEpoch>>
    BY <1>1, <2>2, EndedType, CurrentType
  <2> QED BY <1>2, <2>1, <2>2
<1> QED BY <1>3, <1>4, CurrentType, NextType

LEMMA LapseType ==
    ASSUME TypeOK, NEW g \in Grants, Lapse(g)
    PROVE  TypeOK'
<1> DEFINE r == [grants[g] EXCEPT !.lapsed = TRUE]
<1>1. grants[g] \in GrantType /\ grants[g].phase = "live" /\ grants[g].binding \in Bindings
  BY DEF Lapse, Live, TypeOK
<1>2. r \in GrantType /\ r.phase # "new" /\ r.binding \in Bindings
  BY <1>1 DEF GrantType
<1>3. grants' = [grants EXCEPT ![g] = r]
  BY DEF Lapse, TypeOK
<1>4. GrantsOK(grants')
  BY <1>2, <1>3, OneGrantType, CurrentType
<1>5. UNCHANGED <<bind, leases, domainEpoch, ops, pausing, ledgerFull, watchdogAlive>>
  BY DEF Lapse
<1> QED BY <1>4, <1>5, CurrentType, NextType

LEMMA HostEndsType ==
    ASSUME TypeOK, NEW b \in Bindings, Revoke(b) \/ Pause(b) \/ ReleaseHuman(b)
    PROVE  TypeOK'
<1>1. grants' = Ended(LiveOn(b)) /\ UNCHANGED <<ledgerFull, watchdogAlive>>
  BY DEF Revoke, Pause, ReleaseHuman
<1>2. PausingOK(pausing')
  BY DEF Revoke, Pause, ReleaseHuman, TypeOK, PausingOK
<1>3. bind[b].human \in BOOLEAN /\ {"revoked", "observation-only"} \subseteq BindingStates
  BY DEF TypeOK, BindingType, BindingStates
<1>4. PICK h \in BOOLEAN, n \in Acks, s \in BindingStates : EndAuthority(b, h, s, n)
  <2>1. CASE Revoke(b)
    BY <1>3, <2>1 DEF Revoke
  <2>2. CASE Pause(b)
    BY <1>3, <2>2 DEF Pause
  <2>3. CASE ReleaseHuman(b)
    BY <1>3, <2>3 DEF ReleaseHuman
  <2> QED BY <2>1, <2>2, <2>3
<1>5. GrantsOK(grants')
  BY <1>1, LiveOnType, EndedType
<1> QED BY <1>1, <1>2, <1>4, <1>5, EndAuthorityType, CurrentType, NextType

LEMMA TakeRevokeType ==
    ASSUME TypeOK, NEW g \in Grants, TakeRevoke(g)
    PROVE  TypeOK'
<1> DEFINE b == grants[g].binding
<1>1. b \in Bindings /\ grants[g].phase = "checked" /\ grants[g] \in GrantType
  BY DEF TakeRevoke, TypeOK
<1>2. PICK n \in Acks : EndAuthority(b, bind[b].human, "revoked", n)
  BY DEF TakeRevoke
<1>3. bind[b].human \in BOOLEAN /\ "revoked" \in BindingStates
  BY <1>1 DEF TypeOK, BindingType, BindingStates
<1>4. GrantsOK(grants')
  <2>1. CASE grants' = Ended(LiveOn(b) \cup {g})
    <3>1. LiveOn(b) \cup {g} \in SUBSET Grants /\ \A h \in LiveOn(b) \cup {g} : grants[h].phase # "new"
      BY <1>1, LiveOnType
    <3> QED BY <2>1, <3>1, EndedType
  <2>2. CASE grants' = [Ended(LiveOn(b)) EXCEPT ![g].phase = "taking"]
    <3> DEFINE r == [grants[g] EXCEPT !.phase = "taking"]
    <3>1. r \in GrantType /\ r.phase # "new" /\ r.binding \in Bindings
      BY <1>1 DEF GrantType, GrantPhases
    <3>2. Ended(LiveOn(b))[g] = grants[g]
      BY <1>1 DEF Ended, LiveOn, Live
    <3>3. grants' = [Ended(LiveOn(b)) EXCEPT ![g] = r]
      BY <2>2, <3>2 DEF Ended
    <3> QED BY <3>1, <3>3, LiveOnType, EndedType, OneGrantType
  <2> QED BY <2>1, <2>2 DEF TakeRevoke
<1>5. UNCHANGED <<pausing, ledgerFull, watchdogAlive>>
  BY DEF TakeRevoke
<1> QED BY <1>1, <1>2, <1>3, <1>4, <1>5, EndAuthorityType, CurrentType, NextType

LEMMA ReserveType ==
    ASSUME TypeOK, NEW o \in Ops, NEW g \in Grants, NEW dep \in 1..MaxGeneration, Reserve(o, g, dep)
    PROVE  TypeOK'
<1> DEFINE r == [grants[g] EXCEPT !.next = @ + 1]
           q == [ops[o] EXCEPT !.phase = "reserved", !.grant = g, !.seq = grants[g].next, !.dep = dep]
<1>1. grants[g] \in GrantType /\ grants[g].phase = "live" /\ grants[g].binding \in Bindings
  BY DEF Reserve, MayUse, Live, TypeOK
<1>2. r \in GrantType /\ r.phase # "new" /\ r.binding \in Bindings
  BY <1>1 DEF GrantType
<1>3. q \in OpType /\ q.grant = g
  <2>1. ops[o] \in OpType /\ grants[g].next \in Nat /\ dep \in Nat
    BY <1>1 DEF TypeOK, GrantType
  <2> QED BY <2>1 DEF OpType
<1>4. grants' = [grants EXCEPT ![g] = r] /\ ops' = [ops EXCEPT ![o] = q]
  BY DEF Reserve, TypeOK
<1>5. GrantsOK(grants') /\ OpsOK(ops')
  BY <1>1, <1>2, <1>3, <1>4, OneGrantType, OneOpType, CurrentType
<1> QED BY <1>5, CurrentType, NextType DEF Reserve

LEMMA FenceType ==
    ASSUME TypeOK, NEW o \in Ops, Fence(o) \/ FenceRefuses(o)
    PROVE  TypeOK'
<1>1. /\ ops[o] \in OpType /\ ops[o].grant \in Grants /\ grants[ops[o].grant].phase # "new"
      /\ OpBinding(o) \in Bindings
  BY DEF Fence, FenceRefuses, OpBinding, TypeOK
<1>2. OpsOK(ops')
  <2> DEFINE q == [ops[o] EXCEPT !.phase = "dispatching", !.sent = TRUE]
             s == [ops[o] EXCEPT !.phase = "settled", !.disposition = "not-started"]
  <2>1. q \in OpType /\ s \in OpType /\ q.grant = ops[o].grant /\ s.grant = ops[o].grant
    BY <1>1 DEF OpType
  <2>2. ops' = [ops EXCEPT ![o] = q] \/ ops' = [ops EXCEPT ![o] = s]
    BY DEF Fence, FenceRefuses, TypeOK
  <2>3. OpsOK([ops EXCEPT ![o] = q])
    BY <1>1, <2>1, OneOpType
  <2>4. OpsOK([ops EXCEPT ![o] = s])
    BY <1>1, <2>1, OneOpType
  <2> QED BY <2>2, <2>3, <2>4
<1>3. RefreshRaises(OpBinding(o), {}) \/ UNCHANGED <<bind, grants, leases, domainEpoch>>
  BY DEF Fence, FenceRefuses
<1>4. UNCHANGED <<pausing, ledgerFull, watchdogAlive>>
  BY DEF Fence, FenceRefuses
<1>5. BindOK(bind') /\ GrantsOK(grants') /\ LeasesOK(leases', domainEpoch')
  <2>1. CASE RefreshRaises(OpBinding(o), {})
    BY <1>1, <2>1, RefreshRaisesType
  <2>2. CASE UNCHANGED <<bind, grants, leases, domainEpoch>>
    BY <2>2, CurrentType
  <2> QED BY <1>3, <2>1, <2>2
<1> QED BY <1>2, <1>4, <1>5, CurrentType, NextType

LEMMA DeliverType ==
    ASSUME TypeOK, NEW o \in Ops, Deliver(o)
    PROVE  TypeOK'
<1> DEFINE b == OpBinding(o)
<1>1. /\ ops[o] \in OpType /\ ops[o].grant \in Grants /\ grants[ops[o].grant].phase # "new"
      /\ b \in Bindings /\ bind[b] \in BindingType
  BY DEF Deliver, OpBinding, TypeOK
<1>2. OpsOK(ops')
  <2>1. \A d \in Dispositions : /\ [ops[o] EXCEPT !.phase = "settled", !.disposition = d] \in OpType
                                /\ [ops[o] EXCEPT !.phase = "settled", !.disposition = d].grant = ops[o].grant
    BY <1>1 DEF OpType
  <2>2. PICK d \in Dispositions :
          ops' = [ops EXCEPT ![o] = [ops[o] EXCEPT !.phase = "settled", !.disposition = d]]
    BY DEF Deliver, TypeOK, Dispositions
  <2> QED BY <1>1, <2>1, <2>2, OneOpType
<1>3. BindOK(bind') /\ GrantsOK(grants') /\ LeasesOK(leases', domainEpoch')
  <2>1. CASE UNCHANGED <<bind, grants, leases, domainEpoch>>
    BY <2>1, CurrentType
  <2>2. ASSUME Invalidate(b, {}), NEW n \in Acks,
               bind' = [bind EXCEPT ![b] =
                          IF Aborts(b) THEN @
                          ELSE AtBoundary(Neutralized(@, n, "reconciliation-required"))]
        PROVE  BindOK(bind') /\ GrantsOK(grants') /\ LeasesOK(leases', domainEpoch')
    <3>1. Neutralized(bind[b], n, "reconciliation-required") \in BindingType
      BY <1>1, AcksType, NeutralizedType DEF BindingStates, BlockedStates
    <3>2. AtBoundary(Neutralized(bind[b], n, "reconciliation-required")) \in BindingType
      BY <3>1 DEF AtBoundary, BindingType
    <3>3. BindOK(bind')
      BY <1>1, <2>2, <3>2, OneBindingType
    <3> QED BY <2>2, <3>3, InvalidateType
  <2>3. \/ UNCHANGED <<bind, grants, leases, domainEpoch>>
        \/ /\ Invalidate(b, {})
           /\ \E n \in Acks :
                bind' = [bind EXCEPT ![b] =
                           IF Aborts(b) THEN @
                           ELSE AtBoundary(Neutralized(@, n, "reconciliation-required"))]
    BY DEF Deliver
  <2> QED BY <2>1, <2>2, <2>3
<1>4. UNCHANGED <<pausing, ledgerFull, watchdogAlive>>
  BY DEF Deliver
<1> QED BY <1>2, <1>3, <1>4, CurrentType, NextType

LEMMA CaptureType ==
    ASSUME TypeOK, NEW b \in Bindings, Capture(b)
    PROVE  TypeOK'
<1>1. BindOK(bind') /\ GrantsOK(grants') /\ LeasesOK(leases', domainEpoch')
  <2>1. CASE bind' = [bind EXCEPT ![b] = Observed(@)] /\ UNCHANGED <<grants, leases, domainEpoch>>
    <3>1. bind[b] \in BindingType
      BY DEF TypeOK
    <3> QED BY <2>1, <3>1, ObservedType, OneBindingType, CurrentType
  <2>2. CASE CaptureChanged(b)
    <3>1. PICK input \in InputStates, n \in Acks, published \in BOOLEAN :
            bind' = [bind EXCEPT ![b] = IF published THEN Observed(Changed(b, @, input, n))
                                        ELSE Changed(b, @, input, n)]
      BY <2>2 DEF CaptureChanged
    <3>2. Changed(b, bind[b], input, n) \in BindingType
      BY AcksType, ChangedType DEF TypeOK
    <3>3. Observed(Changed(b, bind[b], input, n)) \in BindingType
      BY <3>2, ObservedType
    <3>4. BindOK(bind')
      BY <3>1, <3>2, <3>3, OneBindingType
    <3>5. GrantsOK(grants') /\ LeasesOK(leases', domainEpoch')
      BY <2>2, InvalidateType DEF CaptureChanged
    <3> QED BY <3>4, <3>5
  <2>3. CASE SourceGone(b, {})
    BY <2>3, SourceGoneType, InvalidateType DEF SourceGone
  <2>4. CASE SampleRefused(b)
    <3>1. PICK n \in Acks :
            bind' = [bind EXCEPT ![b] =
                       IF Aborts(b) THEN [@ EXCEPT !.state = "stale", !.inhibited = TRUE]
                       ELSE [@ EXCEPT !.state = "stale", !.inhibited = ~n]]
      BY <2>4 DEF SampleRefused
    <3>2. bind[b] \in BindingType /\ n \in BOOLEAN
      BY AcksType DEF TypeOK
    <3>3. /\ [bind[b] EXCEPT !.state = "stale", !.inhibited = TRUE] \in BindingType
          /\ [bind[b] EXCEPT !.state = "stale", !.inhibited = ~n] \in BindingType
      BY <3>2 DEF BindingType, BindingStates, BlockedStates
    <3>4. BindOK(bind')
      BY <3>1, <3>3, OneBindingType
    <3>5. GrantsOK(grants') /\ LeasesOK(leases', domainEpoch')
      BY <2>4, InvalidateType DEF SampleRefused
    <3> QED BY <3>4, <3>5
  <2> QED BY <2>1, <2>2, <2>3, <2>4 DEF Capture
<1> QED BY <1>1, CurrentType, NextType DEF Capture

LEMMA BindingOnlyType ==
    ASSUME TypeOK, NEW b \in Bindings,
           Resume(b) \/ ForegroundUnconfirmed(b) \/ Unbind(b) \/ PauseWrites(b)
    PROVE  TypeOK'
<1>1. bind[b] \in BindingType
  BY DEF TypeOK
<1>2. /\ [AtBoundary(bind[b]) EXCEPT !.state = "observation-only", !.human = FALSE] \in BindingType
      /\ [bind[b] EXCEPT !.inhibited = TRUE, !.state = "neutralization-pending"] \in BindingType
      /\ [bind[b] EXCEPT !.detached = TRUE, !.inhibited = FALSE, !.state = "detached"]
           \in BindingType
      /\ [bind[b] EXCEPT !.state = "paused"] \in BindingType
      /\ [bind[b] EXCEPT !.state = "neutralization-pending"] \in BindingType
  BY <1>1 DEF AtBoundary, BindingType, BindingStates, BlockedStates
<1>3. BindOK(bind')
  <2>1. CASE Resume(b)
    BY <1>2, <2>1, OneBindingType DEF Resume
  <2>2. CASE ForegroundUnconfirmed(b)
    <3>1. bind' = [bind EXCEPT ![b] = [bind[b] EXCEPT !.inhibited = TRUE, !.state = "neutralization-pending"]]
      BY <2>2 DEF ForegroundUnconfirmed, TypeOK
    <3> QED BY <1>2, <3>1, OneBindingType
  <2>3. CASE Unbind(b)
    <3>1. bind' = [bind EXCEPT ![b] = [bind[b] EXCEPT !.detached = TRUE, !.inhibited = FALSE,
                                                      !.state = "detached"]]
      BY <2>3 DEF Unbind, TypeOK
    <3> QED BY <1>2, <3>1, OneBindingType
  <2>4. CASE PauseWrites(b)
    <3>1. \/ bind' = bind
          \/ bind' = [bind EXCEPT ![b] = [bind[b] EXCEPT !.state = "paused"]]
          \/ bind' = [bind EXCEPT ![b] = [bind[b] EXCEPT !.state = "neutralization-pending"]]
      BY <2>4 DEF PauseWrites, TypeOK
    <3> QED BY <1>2, <3>1, OneBindingType, CurrentType
  <2> QED BY <2>1, <2>2, <2>3, <2>4
<1>4. PausingOK(pausing')
  BY DEF Resume, ForegroundUnconfirmed, Unbind, PauseWrites, PausingOK, TypeOK
<1>5. UNCHANGED <<grants, leases, domainEpoch, ops, ledgerFull, watchdogAlive>>
  BY DEF Resume, ForegroundUnconfirmed, Unbind, PauseWrites
<1> QED BY <1>3, <1>4, <1>5, CurrentType, NextType

LEMMA ReleaseType ==
    ASSUME TypeOK, NEW b \in Bindings, Release(b)
    PROVE  TypeOK'
<1>1. \A n \in BOOLEAN, freed \in BOOLEAN : Released(bind[b], n, freed) \in BindingType
  <2>1. bind[b] \in BindingType
    BY DEF TypeOK
  <2> QED BY <2>1 DEF Released, BindingType, BindingStates, ReleaseStates
<1>2. BindOK(bind')
  <2>1. PICK n \in BOOLEAN, freed \in BOOLEAN :
           bind' = [bind EXCEPT ![b] = IF ~bind[b].detached /\ Aborts(b) THEN @
                                       ELSE Released(@, n, freed)]
    BY AcksType DEF Release
  <2>2. bind[b] \in BindingType
    BY DEF TypeOK
  <2> QED BY <1>1, <2>1, <2>2, OneBindingType
<1>3. GrantsOK(grants') /\ LeasesOK(leases', domainEpoch')
  <2>1. CASE bind[b].detached
    BY <2>1, CurrentType DEF Release
  <2>2. CASE ~bind[b].detached
    BY <2>2, InvalidateType DEF Release
  <2> QED BY <2>1, <2>2
<1>4. OpsOK(ops')
  <2>1. ops' = ops \/ ops' = Cancelled(b)
    BY DEF Release
  <2> QED BY <2>1, CancelledType, CurrentType
<1> QED BY <1>2, <1>3, <1>4, CurrentType, NextType DEF Release

LEMMA WatchdogType ==
    ASSUME TypeOK, WatchdogCollects
    PROVE  TypeOK'
<1>1. GrantsOK(grants')
  BY DEF WatchdogCollects, TypeOK, GrantsOK, GrantType, GrantPhases, Lapsed, Live
<1>2. LeasesOK(leases', domainEpoch')
  BY DropLeasesType DEF WatchdogCollects
<1> QED BY <1>1, <1>2, CurrentType, NextType DEF WatchdogCollects

LEMMA WatchdogReportsType ==
    ASSUME TypeOK, NEW g \in Grants, WatchdogReports(g)
    PROVE  TypeOK'
<1>1. grants[g] \in GrantType /\ grants[g].binding \in Bindings
  BY DEF WatchdogReports, TypeOK
<1>2. PICK p \in {"ended", "fencing"} : grants' = [grants EXCEPT ![g] = [grants[g] EXCEPT !.phase = p]]
  BY DEF WatchdogReports, TypeOK
<1> DEFINE r == [grants[g] EXCEPT !.phase = p]
<1>3. r \in GrantType /\ r.phase # "new" /\ r.binding \in Bindings
  BY <1>1 DEF GrantType, GrantPhases
<1>4. GrantsOK(grants')
  BY <1>2, <1>3, OneGrantType, CurrentType
<1>5. UNCHANGED <<bind, leases, domainEpoch, ops, pausing, ledgerFull, watchdogAlive>>
  BY DEF WatchdogReports
<1> QED BY <1>4, <1>5, CurrentType, NextType

LEMMA WatchdogNeutralizesType ==
    ASSUME TypeOK, NEW g \in Grants, WatchdogNeutralizes(g)
    PROVE  TypeOK'
<1> DEFINE b == grants[g].binding
<1>1. b \in Bindings /\ bind[b] \in BindingType /\ grants[g].phase # "new" /\ {g} \in SUBSET Grants
  BY DEF WatchdogNeutralizes, TypeOK
<1>2. \A n \in BOOLEAN :
        [AtBoundary(Neutralized(bind[b], n, "lease-expired")) EXCEPT !.human = FALSE] \in BindingType
  <2>1. \A n \in BOOLEAN : Neutralized(bind[b], n, "lease-expired") \in BindingType
    BY <1>1, NeutralizedType DEF BindingStates
  <2> QED BY <2>1 DEF AtBoundary, BindingType
<1>3. PICK n \in BOOLEAN :
        bind' = [bind EXCEPT ![b] =
                   [AtBoundary(Neutralized(@, n, "lease-expired")) EXCEPT !.human = FALSE]]
  BY AcksType DEF WatchdogNeutralizes
<1>4. BindOK(bind')
  BY <1>1, <1>2, <1>3, OneBindingType
<1>5. OpsOK(ops')
  BY CancelledType DEF WatchdogNeutralizes
<1>6. GrantsOK(grants')
  BY <1>1, EndedType DEF WatchdogNeutralizes
<1>7. watchdogAlive' \in BOOLEAN /\ UNCHANGED <<leases, domainEpoch, pausing, ledgerFull>>
  BY DEF WatchdogNeutralizes
<1> QED BY <1>4, <1>5, <1>6, <1>7, CurrentType, NextType

LEMMA StepType == TypeOK /\ [Next]_vars => TypeOK'
<1> SUFFICES ASSUME TypeOK, [Next]_vars PROVE TypeOK'
  OBVIOUS
<1>1. ASSUME NEW b \in Bindings, FirstRefreshRaises(b) PROVE TypeOK'
  <2>1. BindOK(bind') /\ GrantsOK(grants') /\ LeasesOK(leases', domainEpoch')
    BY <1>1, RefreshRaisesType DEF FirstRefreshRaises
  <2> QED BY <1>1, <2>1, CurrentType, NextType DEF FirstRefreshRaises
<1>2. ASSUME NEW g \in Grants, WatchdogDies(g) PROVE TypeOK'
  BY <1>2, CurrentType, NextType DEF WatchdogDies
<1>3. CASE LedgerFills
  BY <1>3, CurrentType, NextType DEF LedgerFills
<1>4. CASE UNCHANGED vars
  BY <1>4, CurrentType, NextType DEF vars
<1> QED BY <1>1, <1>2, <1>3, <1>4, RequestType, IssueType, RefusedType, LapseType, HostEndsType,
           TakeRevokeType, ReserveType, FenceType, DeliverType, CaptureType, BindingOnlyType,
           ReleaseType, WatchdogType, WatchdogReportsType, WatchdogNeutralizesType DEF Next

\* Every reachable state is typed: no handler, alone or interleaved with any
\* other, leaves a grant without a binding or an operation without a grant.
THEOREM TypeCorrect == Spec => []TypeOK
BY InitType, StepType, PTL DEF Spec

-----------------------------------------------------------------------------
(* Summaries of a step. *)

\* the grants of S, and no others, stop being live, their domains become free
\* at a later epoch, and no grant that was requested changes what it was for
Ends(S) ==
    /\ \A g \in Grants : (grants'[g].phase = "live") <=> (Live(g) /\ g \notin S)
    /\ \A g \in Grants : grants'[g].leaseEpoch = grants[g].leaseEpoch
    /\ \A g \in Grants : grants[g].phase # "new" =>
          /\ grants'[g].phase # "new"
          /\ grants'[g].binding = grants[g].binding
          /\ grants'[g].human = grants[g].human
          /\ grants'[g].saved = grants[g].saved
    /\ \A d \in Domains : leases'[d] = IF leases[d] \in S THEN NoGrant ELSE leases[d]
    /\ \A d \in Domains : /\ domainEpoch'[d] >= domainEpoch[d]
                          /\ leases[d] \in Grants \ S => domainEpoch'[d] = domainEpoch[d]

\* a binding whose authority epoch moves, or that a human comes to control, has
\* all its grants ended and is not in the middle of a delivery
Fenced(S) ==
    \A b \in Bindings :
        \/ bind'[b].epoch = bind[b].epoch /\ (bind'[b].human => bind[b].human)
        \/ LiveOn(b) \subseteq S /\ ~Locked(b)

\* a grant becomes live
Issues(g) == ~ledgerFull /\ (GrantIssue(g) \/ TakeIssue(g))

\* What Ended does to one grant.
LEMMA EndedFacts ==
    ASSUME TypeOK, NEW S, NEW g \in Grants
    PROVE  /\ Ended(S)[g].phase = IF g \in S THEN "ended" ELSE grants[g].phase
           /\ Ended(S)[g].binding = grants[g].binding
           /\ Ended(S)[g].human = grants[g].human
           /\ Ended(S)[g].saved = grants[g].saved
           /\ Ended(S)[g].leaseEpoch = grants[g].leaseEpoch
<1>1. grants[g] \in GrantType
  BY DEF TypeOK
<1> QED BY <1>1 DEF Ended, GrantType

\* Live grants and requests are ended, and the leases of the live ones dropped.
LEMMA EndedEnds ==
    ASSUME TypeOK, NEW S \in SUBSET Grants, NEW D \in SUBSET Grants,
           \A g \in D : ~Live(g), grants' = Ended(S \cup D), DropLeases(S)
    PROVE  Ends(S)
<1>1. \A g \in Grants : /\ grants'[g].phase = IF g \in S \cup D THEN "ended" ELSE grants[g].phase
                        /\ grants'[g].binding = grants[g].binding
                        /\ grants'[g].human = grants[g].human
                        /\ grants'[g].saved = grants[g].saved
                        /\ grants'[g].leaseEpoch = grants[g].leaseEpoch
  BY EndedFacts
<1>2. \A d \in Domains : /\ leases'[d] = IF leases[d] \in S THEN NoGrant ELSE leases[d]
                         /\ domainEpoch'[d] = IF leases[d] \in S THEN domainEpoch[d] + 1 ELSE domainEpoch[d]
                         /\ domainEpoch[d] \in Nat
  BY DEF DropLeases, TypeOK
<1>3. \A g \in Grants : (grants'[g].phase = "live") <=> (grants[g].phase = "live" /\ g \notin S)
  BY <1>1 DEF Live
<1>4. \A g \in Grants : grants[g].phase # "new" => grants'[g].phase # "new"
  BY <1>1
<1>5. \A d \in Domains : /\ domainEpoch'[d] >= domainEpoch[d]
                         /\ leases[d] \in Grants \ S => domainEpoch'[d] = domainEpoch[d]
  BY <1>2
<1> QED BY <1>1, <1>2, <1>3, <1>4, <1>5 DEF Ends, Live

\* One grant is rewritten, and neither becomes live nor stops being so.
LEMMA RewriteEnds ==
    ASSUME TypeOK, NEW g \in Grants, NEW r,
           grants' = [grants EXCEPT ![g] = r], UNCHANGED <<leases, domainEpoch>>,
           r.phase = "live" <=> Live(g), r.leaseEpoch = grants[g].leaseEpoch,
           grants[g].phase # "new" => /\ r.phase # "new" /\ r.binding = grants[g].binding
                                      /\ r.human = grants[g].human /\ r.saved = grants[g].saved
    PROVE  Ends({})
<1>1. \A h \in Grants : grants'[h] = IF h = g THEN r ELSE grants[h]
  BY DEF TypeOK
<1>2. \A d \in Domains : domainEpoch[d] \in Nat
  BY DEF TypeOK
<1> QED BY <1>1, <1>2 DEF Ends, Live

\* The grants and the leases stay as they are.
LEMMA SameEnds ==
    ASSUME TypeOK, UNCHANGED <<grants, leases, domainEpoch>>
    PROVE  Ends({})
<1>1. \A d \in Domains : domainEpoch[d] \in Nat
  BY DEF TypeOK
<1> QED BY <1>1 DEF Ends, Live

\* One request that is not live is ended.
LEMMA DyingEnds ==
    ASSUME TypeOK, NEW D \in SUBSET Grants, \A g \in D : ~Live(g),
           grants' = Ended(D), UNCHANGED <<leases, domainEpoch>>
    PROVE  Ends({})
<1>1. grants' = Ended({} \cup D)
  OBVIOUS
<1>2. DropLeases({})
  BY DEF DropLeases, TypeOK
<1> QED BY <1>1, <1>2, EndedEnds

LEMMA InvalidateEnds ==
    ASSUME TypeOK, NEW b, NEW D \in SUBSET Grants, \A g \in D : ~Live(g), Invalidate(b, D)
    PROVE  Ends(LiveOn(b))
<1>1. LiveOn(b) \in SUBSET Grants
  BY DEF LiveOn
<1> QED BY <1>1, EndedEnds DEF Invalidate

\* One binding is rewritten.
LEMMA RewriteFenced ==
    ASSUME TypeOK, NEW b \in Bindings, NEW S, NEW r, bind' = [bind EXCEPT ![b] = r],
           \/ r.epoch = bind[b].epoch /\ (r.human => bind[b].human)
           \/ LiveOn(b) \subseteq S /\ ~Locked(b)
    PROVE  Fenced(S)
<1>1. \A c \in Bindings : bind'[c] = IF c = b THEN r ELSE bind[c]
  BY DEF TypeOK
<1> QED BY <1>1 DEF Fenced

LEMMA SameFenced ==
    ASSUME UNCHANGED bind, NEW S
    PROVE  Fenced(S)
BY DEF Fenced

LEMMA RefreshEnds ==
    ASSUME TypeOK, NEW b \in Bindings, ~Locked(b), NEW D \in SUBSET Grants,
           \A g \in D : ~Live(g), RefreshRaises(b, D)
    PROVE  \E S \in SUBSET Grants : Ends(S) /\ Fenced(S)
<1>1. CASE grants' = Ended(D) /\ UNCHANGED <<bind, leases, domainEpoch>>
  BY <1>1, DyingEnds, SameFenced
<1>2. ASSUME Invalidate(b, D), NEW r, bind' = [bind EXCEPT ![b] = r]
      PROVE  \E S \in SUBSET Grants : Ends(S) /\ Fenced(S)
  <2>1. LiveOn(b) \in SUBSET Grants
    BY DEF LiveOn
  <2>2. Ends(LiveOn(b))
    BY <1>2, InvalidateEnds
  <2>3. Fenced(LiveOn(b))
    BY <1>2, RewriteFenced
  <2> QED BY <2>1, <2>2, <2>3
<1>3. CASE SourceGone(b, D)
  BY <1>2, <1>3 DEF SourceGone
<1>4. CASE SourceChanged(b, D)
  BY <1>2, <1>4 DEF SourceChanged
<1> QED BY <1>1, <1>3, <1>4 DEF RefreshRaises

\* Every step but an issue ends some grants' authority, possibly none's.
LEMMA RequestEnds ==
    ASSUME TypeOK, NEW g \in Grants, NEW b \in Bindings, GrantAsk(g, b) \/ TakeCheck(g, b)
    PROVE  \E S \in SUBSET Grants : Ends(S) /\ Fenced(S)
<1>1. grants[g] \in GrantType /\ grants[g].phase = "new"
  BY DEF GrantAsk, TakeCheck, TypeOK
<1>2. PICK r : /\ grants' = [grants EXCEPT ![g] = r]
               /\ r.phase # "live" /\ r.leaseEpoch = grants[g].leaseEpoch
  <2>1. CASE GrantAsk(g, b)
    <3> DEFINE q == [grants[g] EXCEPT !.phase = "asking", !.binding = b, !.saved = bind[b].epoch]
    <3>1. grants' = [grants EXCEPT ![g] = q]
      BY <2>1 DEF GrantAsk, TypeOK
    <3>2. q.phase # "live" /\ q.leaseEpoch = grants[g].leaseEpoch
      BY <1>1 DEF GrantType
    <3> QED BY <3>1, <3>2
  <2>2. CASE TakeCheck(g, b)
    <3> DEFINE q == [grants[g] EXCEPT !.phase = "checked", !.binding = b, !.human = TRUE,
                                      !.saved = bind[b].epoch]
    <3>1. grants' = [grants EXCEPT ![g] = q]
      BY <2>2 DEF TakeCheck, TypeOK
    <3>2. q.phase # "live" /\ q.leaseEpoch = grants[g].leaseEpoch
      BY <1>1 DEF GrantType
    <3> QED BY <3>1, <3>2
  <2> QED BY <2>1, <2>2
<1>3. UNCHANGED <<bind, leases, domainEpoch>>
  BY DEF GrantAsk, TakeCheck
<1>4. Ends({})
  BY <1>1, <1>2, <1>3, RewriteEnds DEF Live
<1> QED BY <1>3, <1>4, SameFenced

LEMMA RefusedEnds ==
    ASSUME TypeOK, NEW g \in Grants, AuthorizerDeclines(g) \/ GrantRefused(g) \/ TakeRefused(g)
    PROVE  \E S \in SUBSET Grants : Ends(S) /\ Fenced(S)
<1>1. {g} \in SUBSET Grants /\ (\A h \in {g} : ~Live(h)) /\ grants[g].binding \in Bindings
  BY DEF AuthorizerDeclines, GrantRefused, TakeRefused, Live, TypeOK
<1>2. \/ RefreshRaises(grants[g].binding, {g}) /\ ~Locked(grants[g].binding)
      \/ grants' = Ended({g}) /\ UNCHANGED <<bind, leases, domainEpoch>>
  BY DEF AuthorizerDeclines, GrantRefused, TakeRefused
<1> QED BY <1>1, <1>2, RefreshEnds, DyingEnds, SameFenced

LEMMA LapseEnds ==
    ASSUME TypeOK, NEW g \in Grants, Lapse(g)
    PROVE  \E S \in SUBSET Grants : Ends(S) /\ Fenced(S)
<1> DEFINE r == [grants[g] EXCEPT !.lapsed = TRUE]
<1>1. grants[g] \in GrantType /\ grants[g].phase = "live"
  BY DEF Lapse, Live, TypeOK
<1>2. grants' = [grants EXCEPT ![g] = r]
  BY DEF Lapse, TypeOK
<1>3. /\ r.phase = "live" /\ r.leaseEpoch = grants[g].leaseEpoch /\ r.binding = grants[g].binding
      /\ r.human = grants[g].human /\ r.saved = grants[g].saved
  BY <1>1 DEF GrantType
<1>4. UNCHANGED <<bind, leases, domainEpoch>>
  BY DEF Lapse
<1>5. Ends({})
  BY <1>1, <1>2, <1>3, <1>4, RewriteEnds DEF Live
<1> QED BY <1>4, <1>5, SameFenced

\* Whatever state and acknowledgement the binding ends up with.
LEMMA EndAuthorityFenced ==
    ASSUME TypeOK, NEW b \in Bindings, NEW h, NEW s, NEW n, ~Locked(b), EndAuthority(b, h, s, n)
    PROVE  Fenced(LiveOn(b)) /\ DropLeases(LiveOn(b)) /\ LiveOn(b) \in SUBSET Grants
<1>1. \E r : bind' = [bind EXCEPT ![b] = r]
  BY DEF EndAuthority
<1>2. LiveOn(b) \in SUBSET Grants
  BY DEF LiveOn
<1>3. DropLeases(LiveOn(b))
  BY DEF EndAuthority
<1>4. Fenced(LiveOn(b))
  BY <1>1, RewriteFenced
<1> QED BY <1>2, <1>3, <1>4

LEMMA HostEnds ==
    ASSUME TypeOK, NEW b \in Bindings, Revoke(b) \/ Pause(b) \/ ReleaseHuman(b)
    PROVE  \E S \in SUBSET Grants : Ends(S) /\ Fenced(S)
<1>1. ~Locked(b) /\ grants' = Ended(LiveOn(b))
  BY DEF Revoke, Pause, ReleaseHuman, MayEndAuthority
<1>2. \E h, s, n : EndAuthority(b, h, s, n)
  BY DEF Revoke, Pause, ReleaseHuman
<1>3. Fenced(LiveOn(b)) /\ DropLeases(LiveOn(b)) /\ LiveOn(b) \in SUBSET Grants
  BY <1>1, <1>2, EndAuthorityFenced
<1>4. grants' = Ended(LiveOn(b) \cup {}) /\ {} \in SUBSET Grants /\ \A g \in {} : ~Live(g)
  BY <1>1
<1>5. Ends(LiveOn(b))
  BY <1>3, <1>4, EndedEnds
<1> QED BY <1>3, <1>5

LEMMA TakeRevokeEnds ==
    ASSUME TypeOK, NEW g \in Grants, TakeRevoke(g)
    PROVE  \E S \in SUBSET Grants : Ends(S) /\ Fenced(S)
<1> DEFINE b == grants[g].binding
<1>1. ~Locked(b) /\ b \in Bindings /\ grants[g].phase = "checked" /\ grants[g] \in GrantType
  BY DEF TakeRevoke, MayEndAuthority, TypeOK
<1>2. \E h, s, n : EndAuthority(b, h, s, n)
  BY DEF TakeRevoke
<1>3. Fenced(LiveOn(b)) /\ DropLeases(LiveOn(b)) /\ LiveOn(b) \in SUBSET Grants
  BY <1>1, <1>2, EndAuthorityFenced
<1>4. Ends(LiveOn(b))
  <2>1. CASE grants' = Ended(LiveOn(b) \cup {g})
    <3>1. {g} \in SUBSET Grants /\ \A h \in {g} : ~Live(h)
      BY <1>1 DEF Live
    <3> QED BY <1>3, <2>1, <3>1, EndedEnds
  <2>2. CASE grants' = [Ended(LiveOn(b)) EXCEPT ![g].phase = "taking"]
    <3>1. g \notin LiveOn(b)
      BY <1>1 DEF LiveOn, Live
    <3>2. \A h \in Grants : /\ grants'[h].phase = IF h = g THEN "taking" ELSE Ended(LiveOn(b))[h].phase
                            /\ grants'[h].binding = Ended(LiveOn(b))[h].binding
                            /\ grants'[h].human = Ended(LiveOn(b))[h].human
                            /\ grants'[h].saved = Ended(LiveOn(b))[h].saved
                            /\ grants'[h].leaseEpoch = Ended(LiveOn(b))[h].leaseEpoch
      <4>1. Ended(LiveOn(b))[g] = grants[g]
        BY <3>1 DEF Ended
      <4>2. \A h \in Grants : grants'[h] = IF h = g THEN [grants[g] EXCEPT !.phase = "taking"]
                                                    ELSE Ended(LiveOn(b))[h]
        BY <2>2, <4>1 DEF Ended
      <4> QED BY <1>1, <4>1, <4>2 DEF GrantType
    <3>3. \A h \in Grants : /\ (grants'[h].phase = "live") <=> (Live(h) /\ h \notin LiveOn(b))
                            /\ grants'[h].leaseEpoch = grants[h].leaseEpoch
                            /\ grants[h].phase # "new" => grants'[h].phase # "new"
                            /\ grants'[h].binding = grants[h].binding
                            /\ grants'[h].human = grants[h].human
                            /\ grants'[h].saved = grants[h].saved
      BY <1>1, <3>1, <3>2, EndedFacts DEF Live
    <3>4. \A d \in Domains : /\ leases'[d] = IF leases[d] \in LiveOn(b) THEN NoGrant ELSE leases[d]
                             /\ domainEpoch'[d] >= domainEpoch[d]
                             /\ leases[d] \in Grants \ LiveOn(b) => domainEpoch'[d] = domainEpoch[d]
      BY <1>3 DEF DropLeases, TypeOK
    <3> QED BY <3>3, <3>4 DEF Ends
  <2> QED BY <2>1, <2>2 DEF TakeRevoke
<1> QED BY <1>3, <1>4

LEMMA ReserveEnds ==
    ASSUME TypeOK, NEW o \in Ops, NEW g \in Grants, NEW dep, Reserve(o, g, dep)
    PROVE  \E S \in SUBSET Grants : Ends(S) /\ Fenced(S)
<1> DEFINE r == [grants[g] EXCEPT !.next = @ + 1]
<1>1. grants[g] \in GrantType /\ grants[g].phase = "live"
  BY DEF Reserve, MayUse, Live, TypeOK
<1>2. grants' = [grants EXCEPT ![g] = r]
  BY DEF Reserve, TypeOK
<1>3. /\ r.phase = "live" /\ r.leaseEpoch = grants[g].leaseEpoch /\ r.binding = grants[g].binding
      /\ r.human = grants[g].human /\ r.saved = grants[g].saved
  BY <1>1 DEF GrantType
<1>4. UNCHANGED <<bind, leases, domainEpoch>>
  BY DEF Reserve
<1>5. Ends({})
  BY <1>1, <1>2, <1>3, <1>4, RewriteEnds DEF Live
<1> QED BY <1>4, <1>5, SameFenced

LEMMA SubmitEnds ==
    ASSUME TypeOK, NEW o \in Ops, Fence(o) \/ FenceRefuses(o)
    PROVE  \E S \in SUBSET Grants : Ends(S) /\ Fenced(S)
<1>1. ~Locked(OpBinding(o)) /\ OpBinding(o) \in Bindings
  BY DEF Fence, FenceRefuses, OpBinding, TypeOK
<1>2. RefreshRaises(OpBinding(o), {}) \/ UNCHANGED <<bind, grants, leases, domainEpoch>>
  BY DEF Fence, FenceRefuses
<1> QED BY <1>1, <1>2, RefreshEnds, SameEnds, SameFenced

LEMMA DeliverEnds ==
    ASSUME TypeOK, NEW o \in Ops, Deliver(o)
    PROVE  \E S \in SUBSET Grants : Ends(S) /\ Fenced(S)
<1> DEFINE b == OpBinding(o)
<1>1. b \in Bindings /\ bind[b] \in BindingType
  BY DEF Deliver, OpBinding, TypeOK
<1>2. CASE UNCHANGED <<bind, grants, leases, domainEpoch>>
  BY <1>2, SameEnds, SameFenced
<1>3. ASSUME Invalidate(b, {}), NEW n \in Acks,
             bind' = [bind EXCEPT ![b] =
                        IF Aborts(b) THEN @
                        ELSE AtBoundary(Neutralized(@, n, "reconciliation-required"))]
      PROVE  \E S \in SUBSET Grants : Ends(S) /\ Fenced(S)
  <2>1. LiveOn(b) \in SUBSET Grants
    BY DEF LiveOn
  <2>2. Ends(LiveOn(b))
    BY <1>3, InvalidateEnds
  <2>3. /\ AtBoundary(Neutralized(bind[b], n, "reconciliation-required")).epoch = bind[b].epoch
        /\ AtBoundary(Neutralized(bind[b], n, "reconciliation-required")).human = bind[b].human
    BY <1>1 DEF AtBoundary, Neutralized, BindingType
  <2>4. Fenced(LiveOn(b))
    <3>1. PICK r : bind' = [bind EXCEPT ![b] = r] /\ r.epoch = bind[b].epoch /\ r.human = bind[b].human
      BY <1>3, <2>3
    <3> QED BY <1>1, <3>1, RewriteFenced
  <2> QED BY <2>1, <2>2, <2>4
<1>4. \/ UNCHANGED <<bind, grants, leases, domainEpoch>>
      \/ /\ Invalidate(b, {})
         /\ \E n \in Acks :
              bind' = [bind EXCEPT ![b] =
                         IF Aborts(b) THEN @
                         ELSE AtBoundary(Neutralized(@, n, "reconciliation-required"))]
  BY DEF Deliver
<1> QED BY <1>2, <1>3, <1>4

LEMMA CaptureEnds ==
    ASSUME TypeOK, NEW b \in Bindings, Capture(b)
    PROVE  \E S \in SUBSET Grants : Ends(S) /\ Fenced(S)
<1>1. ~Locked(b) /\ bind[b] \in BindingType
  BY DEF Capture, TypeOK
<1>2. CASE bind' = [bind EXCEPT ![b] = Observed(@)] /\ UNCHANGED <<grants, leases, domainEpoch>>
  <2>1. Observed(bind[b]).epoch = bind[b].epoch /\ Observed(bind[b]).human = bind[b].human
    BY <1>1 DEF Observed, BindingType
  <2>2. Fenced({})
    <3>1. PICK r : bind' = [bind EXCEPT ![b] = r] /\ r.epoch = bind[b].epoch /\ r.human = bind[b].human
      BY <1>2, <2>1
    <3> QED BY <3>1, RewriteFenced
  <2> QED BY <1>2, <2>2, SameEnds
<1>3. ASSUME Invalidate(b, {}), NEW r, bind' = [bind EXCEPT ![b] = r]
      PROVE  \E S \in SUBSET Grants : Ends(S) /\ Fenced(S)
  <2>1. LiveOn(b) \in SUBSET Grants
    BY DEF LiveOn
  <2>2. Ends(LiveOn(b))
    BY <1>3, InvalidateEnds
  <2>3. Fenced(LiveOn(b))
    BY <1>1, <1>3, RewriteFenced
  <2> QED BY <2>1, <2>2, <2>3
<1>4. \/ bind' = [bind EXCEPT ![b] = Observed(@)] /\ UNCHANGED <<grants, leases, domainEpoch>>
      \/ Invalidate(b, {}) /\ \E r : bind' = [bind EXCEPT ![b] = r]
  BY DEF Capture, CaptureChanged, SampleRefused, SourceGone
<1> QED BY <1>2, <1>3, <1>4

LEMMA BindingOnlyEnds ==
    ASSUME TypeOK, NEW b \in Bindings,
           Resume(b) \/ ForegroundUnconfirmed(b) \/ Unbind(b) \/ PauseWrites(b)
    PROVE  \E S \in SUBSET Grants : Ends(S) /\ Fenced(S)
<1>1. bind[b] \in BindingType
  BY DEF TypeOK
<1>2. PICK r : /\ bind' = [bind EXCEPT ![b] = r]
               /\ r.epoch = bind[b].epoch /\ (r.human => bind[b].human)
  <2>1. CASE Resume(b)
    <3> DEFINE q == [AtBoundary(bind[b]) EXCEPT !.state = "observation-only", !.human = FALSE]
    <3>1. q.epoch = bind[b].epoch /\ ~q.human
      BY <1>1 DEF AtBoundary, BindingType
    <3>2. bind' = [bind EXCEPT ![b] = q]
      BY <2>1 DEF Resume
    <3> QED BY <3>1, <3>2
  <2>2. CASE ForegroundUnconfirmed(b)
    <3> DEFINE q == [bind[b] EXCEPT !.inhibited = TRUE, !.state = "neutralization-pending"]
    <3>1. q.epoch = bind[b].epoch /\ q.human = bind[b].human
      BY <1>1 DEF BindingType
    <3>2. bind' = [bind EXCEPT ![b] = q]
      BY <2>2 DEF ForegroundUnconfirmed, TypeOK
    <3> QED BY <3>1, <3>2
  <2>3. CASE Unbind(b)
    <3> DEFINE q == [bind[b] EXCEPT !.detached = TRUE, !.inhibited = FALSE,
                                    !.state = "detached"]
    <3>1. bind' = [bind EXCEPT ![b] = q]
      BY <2>3 DEF Unbind, TypeOK
    <3>2. q.epoch = bind[b].epoch /\ q.human = bind[b].human
      BY <1>1 DEF BindingType
    <3> QED BY <3>1, <3>2
  <2>4. CASE PauseWrites(b)
    <3>1. PICK q : /\ bind' = [bind EXCEPT ![b] = q]
                   /\ q \in {bind[b], [bind[b] EXCEPT !.state = "paused"],
                             [bind[b] EXCEPT !.state = "neutralization-pending"]}
      <4>1. bind = [bind EXCEPT ![b] = bind[b]]
        BY DEF TypeOK
      <4>2. \/ bind' = bind
            \/ bind' = [bind EXCEPT ![b] = [bind[b] EXCEPT !.state = "paused"]]
            \/ bind' = [bind EXCEPT ![b] = [bind[b] EXCEPT !.state = "neutralization-pending"]]
        BY <2>4 DEF PauseWrites, TypeOK
      <4> QED BY <4>1, <4>2
    <3>2. q.epoch = bind[b].epoch /\ q.human = bind[b].human
      BY <1>1, <3>1 DEF BindingType
    <3> QED BY <3>1, <3>2
  <2> QED BY <2>1, <2>2, <2>3, <2>4
<1>3. Fenced({})
  BY <1>2, RewriteFenced
<1>4. UNCHANGED <<grants, leases, domainEpoch>>
  BY DEF Resume, ForegroundUnconfirmed, Unbind, PauseWrites
<1> QED BY <1>3, <1>4, SameEnds

LEMMA ReleaseEnds ==
    ASSUME TypeOK, NEW b \in Bindings, Release(b)
    PROVE  \E S \in SUBSET Grants : Ends(S) /\ Fenced(S)
<1>1. \A n \in BOOLEAN, freed \in BOOLEAN :
        /\ Released(bind[b], n, freed).epoch = bind[b].epoch
        /\ ~Released(bind[b], n, freed).human
  <2>1. bind[b] \in BindingType
    BY DEF TypeOK
  <2> QED BY <2>1 DEF Released, BindingType
<1>2. PICK r : bind' = [bind EXCEPT ![b] = r] /\ r.epoch = bind[b].epoch /\ (r.human => bind[b].human)
  <2>1. PICK n \in BOOLEAN, freed \in BOOLEAN :
           bind' = [bind EXCEPT ![b] = IF ~bind[b].detached /\ Aborts(b) THEN @
                                       ELSE Released(@, n, freed)]
    BY AcksType DEF Release
  <2>2. CASE ~bind[b].detached /\ Aborts(b)
    BY <2>1, <2>2
  <2>3. CASE ~(~bind[b].detached /\ Aborts(b))
    BY <1>1, <2>1, <2>3
  <2> QED BY <2>2, <2>3
<1>3. \A S : Fenced(S)
  BY <1>2, RewriteFenced
<1>4. \E S \in SUBSET Grants : Ends(S)
  <2>1. CASE bind[b].detached
    BY <2>1, SameEnds DEF Release
  <2>2. CASE ~bind[b].detached
    BY <2>2, InvalidateEnds DEF Release, LiveOn
  <2> QED BY <2>1, <2>2
<1> QED BY <1>3, <1>4

LEMMA WatchdogEnds ==
    ASSUME TypeOK, WatchdogCollects
    PROVE  \E S \in SUBSET Grants : Ends(S) /\ Fenced(S)
<1>1. \A g \in Grants : grants[g] \in GrantType
  BY DEF TypeOK
<1>2. \A g \in Grants : grants'[g] = IF g \in Lapsed THEN [grants[g] EXCEPT !.phase = "expired"]
                                                    ELSE grants[g]
  BY DEF WatchdogCollects
<1>3. \A g \in Grants : /\ (grants'[g].phase = "live") <=> (Live(g) /\ g \notin Lapsed)
                        /\ grants'[g].leaseEpoch = grants[g].leaseEpoch
                        /\ grants[g].phase # "new" => grants'[g].phase # "new"
                        /\ grants'[g].binding = grants[g].binding
                        /\ grants'[g].human = grants[g].human
                        /\ grants'[g].saved = grants[g].saved
  BY <1>1, <1>2 DEF GrantType, Live
<1>4. \A d \in Domains : /\ leases'[d] = IF leases[d] \in Lapsed THEN NoGrant ELSE leases[d]
                         /\ domainEpoch'[d] >= domainEpoch[d]
                         /\ leases[d] \in Grants \ Lapsed => domainEpoch'[d] = domainEpoch[d]
  BY DEF WatchdogCollects, DropLeases, TypeOK
<1>5. Ends(Lapsed)
  BY <1>3, <1>4 DEF Ends
<1>6. UNCHANGED bind /\ Lapsed \in SUBSET Grants
  BY DEF WatchdogCollects, Lapsed
<1> QED BY <1>5, <1>6, SameFenced

LEMMA WatchdogFencesEnds ==
    ASSUME TypeOK, NEW g \in Grants, WatchdogReports(g) \/ WatchdogNeutralizes(g) \/ WatchdogDies(g)
    PROVE  \E S \in SUBSET Grants : Ends(S) /\ Fenced(S)
<1>1. grants[g] \in GrantType /\ ~Live(g) /\ grants[g].phase # "new" /\ {g} \in SUBSET Grants
  BY DEF WatchdogReports, WatchdogNeutralizes, WatchdogDies, Live, TypeOK
<1>2. CASE WatchdogReports(g)
  <2>1. PICK p \in {"ended", "fencing"} : grants' = [grants EXCEPT ![g] = [grants[g] EXCEPT !.phase = p]]
    BY <1>2 DEF WatchdogReports, TypeOK
  <2> DEFINE r == [grants[g] EXCEPT !.phase = p]
  <2>2. /\ r.phase = p /\ r.leaseEpoch = grants[g].leaseEpoch /\ r.binding = grants[g].binding
        /\ r.human = grants[g].human /\ r.saved = grants[g].saved
    BY <1>1 DEF GrantType
  <2>3. UNCHANGED <<bind, leases, domainEpoch>>
    BY <1>2 DEF WatchdogReports
  <2>4. Ends({})
    BY <1>1, <2>1, <2>2, <2>3, RewriteEnds
  <2> QED BY <2>3, <2>4, SameFenced
<1>3. CASE WatchdogNeutralizes(g)
  <2> DEFINE b == grants[g].binding
  <2>1. bind[b] \in BindingType /\ b \in Bindings
    BY <1>1 DEF TypeOK
  <2>2. PICK n \in BOOLEAN :
          bind' = [bind EXCEPT ![b] =
                     [AtBoundary(Neutralized(@, n, "lease-expired")) EXCEPT !.human = FALSE]]
    BY <1>3, AcksType DEF WatchdogNeutralizes
  <2> DEFINE r == [AtBoundary(Neutralized(bind[b], n, "lease-expired")) EXCEPT !.human = FALSE]
  <2>3. r.epoch = bind[b].epoch /\ ~r.human
    BY <2>1 DEF AtBoundary, Neutralized, BindingType
  <2>4. bind' = [bind EXCEPT ![b] = r]
    BY <2>2
  <2>5. Fenced({})
    BY <2>1, <2>3, <2>4, RewriteFenced
  <2>6. Ends({})
    BY <1>1, <1>3, DyingEnds DEF WatchdogNeutralizes
  <2> QED BY <2>5, <2>6
<1>4. CASE WatchdogDies(g)
  BY <1>4, SameEnds, SameFenced DEF WatchdogDies
<1> QED BY <1>2, <1>3, <1>4

\* An issue that finds no room in the ledger gives the domain back.
LEMMA FailedIssueEnds ==
    ASSUME TypeOK, NEW g \in Grants, ledgerFull, GrantIssue(g) \/ TakeIssue(g)
    PROVE  \E S \in SUBSET Grants : Ends(S) /\ Fenced(S)
<1> DEFINE d == DomainOf[grants[g].binding]
<1>1. /\ grants[g].phase \in {"asking", "taking"} /\ {g} \in SUBSET Grants
      /\ d \in Domains /\ leases[d] = NoGrant /\ Lease(g) /\ UNCHANGED bind
  BY DEF GrantIssue, TakeIssue, StillGrantable, TypeOK
<1>2. /\ grants' = Ended({g}) /\ leases' = leases
      /\ domainEpoch' = [domainEpoch EXCEPT ![d] = @ + 2]
  BY <1>1 DEF Lease
<1>3. \A h \in Grants : /\ (grants'[h].phase = "live") <=> Live(h)
                        /\ grants'[h].leaseEpoch = grants[h].leaseEpoch
                        /\ grants[h].phase # "new" => grants'[h].phase # "new"
                        /\ grants'[h].binding = grants[h].binding
                        /\ grants'[h].human = grants[h].human
                        /\ grants'[h].saved = grants[h].saved
  BY <1>1, <1>2, EndedFacts DEF Live
<1>4. \A e \in Domains : /\ domainEpoch[e] \in Nat
                         /\ domainEpoch'[e] = IF e = d THEN domainEpoch[e] + 2 ELSE domainEpoch[e]
  BY <1>2 DEF TypeOK
<1>5. \A e \in Domains : /\ domainEpoch'[e] >= domainEpoch[e]
                         /\ leases[e] \in Grants => domainEpoch'[e] = domainEpoch[e]
  BY <1>1, <1>4
<1>6. Ends({})
  BY <1>2, <1>3, <1>5 DEF Ends
<1> QED BY <1>1, <1>6, SameFenced

\* Every step ends the authority of some live grants, or makes one grant live.
LEMMA StepSummary ==
    ASSUME TypeOK, [Next]_vars
    PROVE  (\E S \in SUBSET Grants : Ends(S) /\ Fenced(S)) \/ (\E g \in Grants : Issues(g))
<1>1. ASSUME NEW b \in Bindings, FirstRefreshRaises(b)
      PROVE  \E S \in SUBSET Grants : Ends(S) /\ Fenced(S)
  BY <1>1, RefreshEnds DEF FirstRefreshRaises
<1>2. ASSUME NEW g \in Grants, GrantIssue(g) \/ TakeIssue(g)
      PROVE  (\E S \in SUBSET Grants : Ends(S) /\ Fenced(S)) \/ Issues(g)
  BY <1>2, FailedIssueEnds DEF Issues
<1>3. CASE LedgerFills \/ UNCHANGED vars
  <2>1. UNCHANGED <<bind, grants, leases, domainEpoch>>
    BY <1>3 DEF LedgerFills, vars
  <2> QED BY <2>1, SameEnds, SameFenced
<1> QED BY <1>1, <1>2, <1>3, RequestEnds, RefusedEnds, LapseEnds, HostEnds, TakeRevokeEnds,
           ReserveEnds, SubmitEnds, DeliverEnds, CaptureEnds, BindingOnlyEnds, ReleaseEnds,
           WatchdogEnds, WatchdogFencesEnds DEF Next

-----------------------------------------------------------------------------
(* Leases. *)

\* What an issue does to the grants, the leases and the domain epochs.
LEMMA IssueFacts ==
    ASSUME TypeOK, NEW g \in Grants, Issues(g)
    PROVE  LET d == DomainOf[grants[g].binding] IN
           /\ grants[g].binding \in Bindings /\ d \in Domains /\ leases[d] = NoGrant
           /\ grants'[g].phase = "live" /\ grants'[g].leaseEpoch = domainEpoch[d] + 1
           /\ \A h \in Grants : /\ h # g => grants'[h] = grants[h]
                                /\ grants'[h].binding = grants[h].binding
                                /\ grants'[h].human = grants[h].human
                                /\ grants'[h].saved = grants[h].saved
           /\ \A e \in Domains : /\ leases'[e] = IF e = d THEN g ELSE leases[e]
                                 /\ domainEpoch'[e] = IF e = d THEN domainEpoch[e] + 1 ELSE domainEpoch[e]
<1> DEFINE d == DomainOf[grants[g].binding]
<1>1. /\ grants[g] \in GrantType /\ grants[g].binding \in Bindings /\ d \in Domains
      /\ leases[d] = NoGrant /\ Lease(g) /\ ~ledgerFull
  BY DEF Issues, GrantIssue, TakeIssue, StillGrantable, TypeOK
<1>2. \A h \in Grants : grants'[h] = IF h = g THEN [grants[g] EXCEPT !.phase = "live",
                                                                    !.leaseEpoch = domainEpoch[d] + 1]
                                              ELSE grants[h]
  BY <1>1 DEF Lease, TypeOK
<1>3. \A h \in Grants : /\ h # g => grants'[h] = grants[h]
                        /\ grants'[h].binding = grants[h].binding
                        /\ grants'[h].human = grants[h].human
                        /\ grants'[h].saved = grants[h].saved
  BY <1>1, <1>2 DEF GrantType
<1>4. grants'[g].phase = "live" /\ grants'[g].leaseEpoch = domainEpoch[d] + 1
  BY <1>1, <1>2 DEF GrantType
<1>5. \A e \in Domains : /\ leases'[e] = IF e = d THEN g ELSE leases[e]
                         /\ domainEpoch'[e] = IF e = d THEN domainEpoch[e] + 1 ELSE domainEpoch[e]
  BY <1>1 DEF Lease, TypeOK
<1> QED BY <1>1, <1>3, <1>4, <1>5

LEMMA LeaseEnds ==
    ASSUME TypeOK, LeaseIsLive, NEW S \in SUBSET Grants, Ends(S)
    PROVE  LeaseIsLive'
<1>1. ASSUME NEW g \in Grants, grants'[g].phase = "live"
      PROVE  /\ leases'[DomainOf[grants'[g].binding]] = g
             /\ domainEpoch'[DomainOf[grants'[g].binding]] = grants'[g].leaseEpoch
  <2>1. Live(g) /\ g \notin S /\ grants'[g].binding = grants[g].binding
    BY <1>1 DEF Ends, Live
  <2>2. DomainOf[grants[g].binding] \in Domains
    BY <2>1 DEF Live, TypeOK
  <2> QED BY <2>1, <2>2 DEF Ends, LeaseIsLive
<1>2. ASSUME NEW d \in Domains, leases'[d] # NoGrant
      PROVE  grants'[leases'[d]].phase = "live" /\ DomainOf[grants'[leases'[d]].binding] = d
  <2>1. leases'[d] = leases[d] /\ leases[d] \in Grants \ S
    BY <1>2 DEF Ends, TypeOK
  <2>2. Live(leases[d]) /\ DomainOf[grants[leases[d]].binding] = d
    BY <1>2, <2>1 DEF LeaseIsLive
  <2> QED BY <2>1, <2>2 DEF Ends, Live
<1> QED BY <1>1, <1>2 DEF LeaseIsLive, Live

LEMMA LeaseIssues ==
    ASSUME TypeOK, LeaseIsLive, NEW g \in Grants, Issues(g)
    PROVE  LeaseIsLive'
<1> DEFINE d == DomainOf[grants[g].binding]
<1>1. ASSUME NEW h \in Grants, grants'[h].phase = "live"
      PROVE  /\ leases'[DomainOf[grants'[h].binding]] = h
             /\ domainEpoch'[DomainOf[grants'[h].binding]] = grants'[h].leaseEpoch
  <2>1. CASE h = g
    BY <2>1, IssueFacts
  <2>2. CASE h # g
    <3>1. grants'[h] = grants[h] /\ Live(h) /\ DomainOf[grants[h].binding] \in Domains
      BY <1>1, <2>2, IssueFacts DEF Live, TypeOK
    <3>2. DomainOf[grants[h].binding] # d
      BY <3>1, IssueFacts DEF LeaseIsLive
    <3> QED BY <3>1, <3>2, IssueFacts DEF LeaseIsLive
  <2> QED BY <2>1, <2>2
<1>2. ASSUME NEW e \in Domains, leases'[e] # NoGrant
      PROVE  grants'[leases'[e]].phase = "live" /\ DomainOf[grants'[leases'[e]].binding] = e
  <2>1. CASE e = d
    BY <2>1, IssueFacts
  <2>2. CASE e # d
    <3>1. leases'[e] = leases[e] /\ leases[e] \in Grants
      BY <1>2, <2>2, IssueFacts DEF TypeOK
    <3>2. Live(leases[e]) /\ DomainOf[grants[leases[e]].binding] = e
      BY <1>2, <3>1 DEF LeaseIsLive
    <3>3. leases[e] # g
      BY <2>2, <3>2
    <3> QED BY <3>1, <3>2, <3>3, IssueFacts DEF Live
  <2> QED BY <2>1, <2>2
<1> QED BY <1>1, <1>2 DEF LeaseIsLive, Live

LEMMA StepLease == TypeOK /\ LeaseIsLive /\ [Next]_vars => LeaseIsLive'
BY StepSummary, LeaseEnds, LeaseIssues

\* No interleaving of expiry, revocation, takeover, source change, release and
\* failed issues lets two live grants share a domain or leaves a domain leased
\* to a grant that ended.
THEOREM LeasesAreLive == Spec => []LeaseIsLive
<1>1. Init => LeaseIsLive
  BY DEF Init, LeaseIsLive, Live
<1> QED BY <1>1, InitType, StepType, StepLease, PTL DEF Spec

\* Every lease gets an epoch above all those its domain gave out before.
EpochsBounded ==
    /\ \A g \in Grants : grants[g].phase = "new" => grants[g].leaseEpoch = 0
    /\ \A g \in Grants : grants[g].leaseEpoch > 0 =>
          grants[g].leaseEpoch <= domainEpoch[DomainOf[grants[g].binding]]

LEMMA EpochsEnds ==
    ASSUME TypeOK, TypeOK', EpochsBounded, LeaseEpochsUnique, NEW S \in SUBSET Grants, Ends(S)
    PROVE  EpochsBounded' /\ LeaseEpochsUnique'
<1>1. \A g \in Grants : grants[g].leaseEpoch \in Nat /\ grants'[g].leaseEpoch = grants[g].leaseEpoch
  BY DEF Ends, TypeOK, GrantType
<1>2. ASSUME NEW g \in Grants, grants[g].leaseEpoch > 0
      PROVE  grants'[g].binding = grants[g].binding /\ DomainOf[grants[g].binding] \in Domains
  <2>1. grants[g].phase # "new"
    BY <1>1, <1>2 DEF EpochsBounded
  <2> QED BY <2>1 DEF Ends, TypeOK
<1>3. \A d \in Domains : domainEpoch[d] \in Nat /\ domainEpoch'[d] \in Nat /\ domainEpoch'[d] >= domainEpoch[d]
  BY DEF Ends, TypeOK
<1>4. \A g \in Grants : grants'[g].phase = "new" => grants[g].phase = "new"
  BY DEF Ends
<1>5. EpochsBounded'
  BY <1>1, <1>2, <1>3, <1>4 DEF EpochsBounded
<1>6. LeaseEpochsUnique'
  BY <1>1, <1>2 DEF LeaseEpochsUnique
<1> QED BY <1>5, <1>6

LEMMA EpochsIssues ==
    ASSUME TypeOK, EpochsBounded, LeaseEpochsUnique, NEW g \in Grants, Issues(g)
    PROVE  EpochsBounded' /\ LeaseEpochsUnique'
<1> DEFINE d == DomainOf[grants[g].binding]
<1>1. \A h \in Grants : /\ grants[h].leaseEpoch \in Nat
                        /\ grants'[h].leaseEpoch = IF h = g THEN domainEpoch[d] + 1 ELSE grants[h].leaseEpoch
                        /\ grants'[h].binding = grants[h].binding
  BY IssueFacts DEF TypeOK, GrantType
<1>2. \A e \in Domains : /\ domainEpoch[e] \in Nat
                         /\ domainEpoch'[e] = IF e = d THEN domainEpoch[e] + 1 ELSE domainEpoch[e]
  BY IssueFacts DEF TypeOK
<1>3. ASSUME NEW h \in Grants, h # g, grants[h].leaseEpoch > 0
      PROVE  /\ DomainOf[grants[h].binding] \in Domains
             /\ grants[h].leaseEpoch <= domainEpoch[DomainOf[grants[h].binding]]
  <2>1. grants[h].phase # "new"
    BY <1>1, <1>3 DEF EpochsBounded
  <2> QED BY <1>3, <2>1 DEF EpochsBounded, TypeOK
<1>4. d \in Domains
  BY IssueFacts
<1>5. \A h \in Grants : grants'[h].phase = "new" => grants'[h].leaseEpoch = 0
  BY IssueFacts DEF EpochsBounded
<1>6. \A h \in Grants : grants'[h].leaseEpoch > 0 =>
         grants'[h].leaseEpoch <= domainEpoch'[DomainOf[grants'[h].binding]]
  BY <1>1, <1>2, <1>3, <1>4
<1>7. LeaseEpochsUnique'
  <2>1. ASSUME NEW h \in Grants, h # g, grants'[h].leaseEpoch > 0,
               DomainOf[grants'[h].binding] = d
        PROVE  grants'[h].leaseEpoch # grants'[g].leaseEpoch
    BY <1>1, <1>2, <1>3, <1>4, <2>1
  <2> QED BY <1>1, <2>1 DEF LeaseEpochsUnique
<1> QED BY <1>5, <1>6, <1>7 DEF EpochsBounded

LEMMA StepEpochs ==
    TypeOK /\ EpochsBounded /\ LeaseEpochsUnique /\ [Next]_vars => EpochsBounded' /\ LeaseEpochsUnique'
BY StepSummary, StepType, EpochsEnds, EpochsIssues

\* A lease epoch names one grant of its domain forever.
THEOREM LeaseEpochsAreUnique == Spec => []LeaseEpochsUnique
<1>1. Init => EpochsBounded /\ LeaseEpochsUnique
  BY DEF Init, EpochsBounded, LeaseEpochsUnique
<1> QED BY <1>1, InitType, StepType, StepEpochs, PTL DEF Spec

-----------------------------------------------------------------------------
(* Authority. *)

\* a request is Cassi's or a human's as its handler says
RequestParty ==
    \A g \in Grants : /\ grants[g].phase \in {"new", "asking"} => ~grants[g].human
                      /\ grants[g].phase \in {"checked", "taking"} => grants[g].human

LEMMA PartyEnded ==
    ASSUME TypeOK, RequestParty, NEW S, grants' = Ended(S)
    PROVE  RequestParty'
<1>1. \A g \in Grants : /\ grants'[g].phase = IF g \in S THEN "ended" ELSE grants[g].phase
                        /\ grants'[g].human = grants[g].human
  BY EndedFacts
<1> QED BY <1>1 DEF RequestParty

\* One grant is rewritten, keeping its party or becoming a human's request.
LEMMA PartyRewrite ==
    ASSUME TypeOK, RequestParty, NEW g \in Grants, NEW r, grants' = [grants EXCEPT ![g] = r],
           r.phase \in {"new", "asking"} => ~r.human,
           r.phase \in {"checked", "taking"} => r.human
    PROVE  RequestParty'
<1>1. \A h \in Grants : grants'[h] = IF h = g THEN r ELSE grants[h]
  BY DEF TypeOK
<1> QED BY <1>1 DEF RequestParty

LEMMA StepParty == TypeOK /\ RequestParty /\ [Next]_vars => RequestParty'
<1> SUFFICES ASSUME TypeOK, RequestParty, [Next]_vars PROVE RequestParty'
  OBVIOUS
<1>1. \A g \in Grants : grants[g] \in GrantType
  BY DEF TypeOK
<1>2. CASE UNCHANGED grants
  BY <1>2 DEF RequestParty
<1>3. CASE \E S : grants' = Ended(S)
  BY <1>3, PartyEnded
<1>4. ASSUME NEW b, NEW D, RefreshRaises(b, D) PROVE \E S : grants' = Ended(S)
  BY <1>4 DEF RefreshRaises, SourceGone, SourceChanged, Invalidate
<1>5. ASSUME NEW g \in Grants, NEW b \in Bindings, GrantAsk(g, b) PROVE RequestParty'
  <2> DEFINE r == [grants[g] EXCEPT !.phase = "asking", !.binding = b, !.saved = bind[b].epoch]
  <2>1. grants' = [grants EXCEPT ![g] = r]
    BY <1>5 DEF GrantAsk, TypeOK
  <2>2. r.phase = "asking" /\ ~r.human
    BY <1>1, <1>5 DEF GrantAsk, RequestParty, GrantType
  <2> QED BY <2>1, <2>2, PartyRewrite
<1>6. ASSUME NEW g \in Grants, NEW b \in Bindings, TakeCheck(g, b) PROVE RequestParty'
  <2> DEFINE r == [grants[g] EXCEPT !.phase = "checked", !.binding = b, !.human = TRUE,
                                    !.saved = bind[b].epoch]
  <2>1. grants' = [grants EXCEPT ![g] = r]
    BY <1>6 DEF TakeCheck, TypeOK
  <2>2. r.phase = "checked" /\ r.human
    BY <1>1 DEF GrantType
  <2> QED BY <2>1, <2>2, PartyRewrite
<1>7. ASSUME NEW g \in Grants, Lease(g), ~ledgerFull PROVE RequestParty'
  <2> DEFINE r == [grants[g] EXCEPT !.phase = "live",
                                    !.leaseEpoch = domainEpoch[DomainOf[grants[g].binding]] + 1]
  <2>1. grants' = [grants EXCEPT ![g] = r]
    BY <1>7 DEF Lease, TypeOK
  <2>2. r.phase = "live"
    BY <1>1 DEF GrantType
  <2> QED BY <2>1, <2>2, PartyRewrite
<1>8. ASSUME NEW g \in Grants, GrantIssue(g) \/ TakeIssue(g) PROVE RequestParty'
  BY <1>3, <1>7, <1>8 DEF GrantIssue, TakeIssue, Lease
<1>9. ASSUME NEW g \in Grants, Lapse(g) PROVE RequestParty'
  <2> DEFINE r == [grants[g] EXCEPT !.lapsed = TRUE]
  <2>1. grants' = [grants EXCEPT ![g] = r] /\ grants[g].phase = "live"
    BY <1>9 DEF Lapse, Live, TypeOK
  <2>2. r.phase = "live"
    BY <1>1, <2>1 DEF GrantType
  <2> QED BY <2>1, <2>2, PartyRewrite
<1>10. ASSUME NEW g \in Grants, TakeRevoke(g) PROVE RequestParty'
  <2> DEFINE b == grants[g].binding
  <2>1. CASE grants' = Ended(LiveOn(b) \cup {g})
    BY <1>3, <2>1
  <2>2. CASE grants' = [Ended(LiveOn(b)) EXCEPT ![g].phase = "taking"]
    <3>1. grants[g].phase = "checked" /\ grants[g].human
      BY <1>10 DEF TakeRevoke, RequestParty
    <3>2. \A h \in Grants : /\ h # g => grants'[h] = Ended(LiveOn(b))[h]
                            /\ grants'[g].human
      <4>1. Ended(LiveOn(b))[g] = grants[g]
        BY <3>1 DEF Ended, LiveOn, Live
      <4>2. \A h \in Grants : grants'[h] = IF h = g THEN [grants[g] EXCEPT !.phase = "taking"]
                                                    ELSE Ended(LiveOn(b))[h]
        BY <2>2, <4>1 DEF Ended
      <4> QED BY <1>1, <3>1, <4>2 DEF GrantType
    <3>3. grants'[g].phase = "taking"
      BY <1>1, <2>2 DEF Ended, GrantType
    <3>4. \A h \in Grants : h # g => /\ grants'[h].phase = IF h \in LiveOn(b) THEN "ended" ELSE grants[h].phase
                                     /\ grants'[h].human = grants[h].human
      BY <3>2, EndedFacts
    <3> QED BY <3>2, <3>3, <3>4 DEF RequestParty
  <2> QED BY <1>10, <2>1, <2>2 DEF TakeRevoke
<1>11. ASSUME NEW o \in Ops, NEW g \in Grants, NEW dep, Reserve(o, g, dep) PROVE RequestParty'
  <2> DEFINE r == [grants[g] EXCEPT !.next = @ + 1]
  <2>1. grants' = [grants EXCEPT ![g] = r] /\ grants[g].phase = "live"
    BY <1>11 DEF Reserve, MayUse, Live, TypeOK
  <2>2. r.phase = "live"
    BY <1>1, <2>1 DEF GrantType
  <2> QED BY <2>1, <2>2, PartyRewrite
<1>12. ASSUME WatchdogCollects PROVE RequestParty'
  <2>1. \A g \in Grants : grants'[g] = IF g \in Lapsed THEN [grants[g] EXCEPT !.phase = "expired"]
                                                      ELSE grants[g]
    BY <1>12 DEF WatchdogCollects
  <2> QED BY <1>1, <2>1 DEF RequestParty, GrantType
<1>13. ASSUME NEW g \in Grants, WatchdogReports(g) PROVE RequestParty'
  <2>1. PICK p \in {"ended", "fencing"} : grants' = [grants EXCEPT ![g] = [grants[g] EXCEPT !.phase = p]]
    BY <1>13 DEF WatchdogReports, TypeOK
  <2>2. [grants[g] EXCEPT !.phase = p].phase = p
    BY <1>1 DEF GrantType
  <2> QED BY <2>1, <2>2, PartyRewrite
<1>14. ASSUME NEW g \in Grants, AuthorizerDeclines(g) \/ GrantRefused(g) \/ TakeRefused(g) \/
                                WatchdogNeutralizes(g) \/ WatchdogDies(g)
       PROVE  RequestParty'
  <2>1. UNCHANGED grants \/ \E S : grants' = Ended(S)
    BY <1>4, <1>14 DEF AuthorizerDeclines, GrantRefused, TakeRefused, WatchdogNeutralizes, WatchdogDies
  <2> QED BY <1>2, <1>3, <2>1
<1>15. ASSUME NEW o \in Ops, Fence(o) \/ FenceRefuses(o) \/ Deliver(o) PROVE RequestParty'
  <2>1. UNCHANGED grants \/ \E S : grants' = Ended(S)
    BY <1>4, <1>15 DEF Fence, FenceRefuses, Deliver, Invalidate
  <2> QED BY <1>2, <1>3, <2>1
<1>16. ASSUME NEW b \in Bindings,
              \/ FirstRefreshRaises(b) \/ Revoke(b) \/ Pause(b) \/ PauseWrites(b) \/ ReleaseHuman(b)
              \/ Resume(b) \/ Capture(b) \/ Release(b) \/ ForegroundUnconfirmed(b) \/ Unbind(b)
       PROVE  RequestParty'
  <2>1. UNCHANGED grants \/ \E S : grants' = Ended(S)
    BY <1>4, <1>16 DEF FirstRefreshRaises, Revoke, Pause, PauseWrites, ReleaseHuman, Resume, Capture,
                       CaptureChanged, SampleRefused,
                       Release, ForegroundUnconfirmed, Unbind, SourceGone, Invalidate
  <2> QED BY <1>2, <1>3, <2>1
<1>17. CASE LedgerFills \/ UNCHANGED vars
  BY <1>2, <1>17 DEF LedgerFills, vars
<1> QED BY <1>5, <1>6, <1>8, <1>9, <1>10, <1>11, <1>12, <1>13, <1>14, <1>15, <1>16, <1>17 DEF Next

\* An operation is dispatching because it was, or because its fence just found
\* its grant live; nothing moves an operation to another grant.
LEMMA StepOps ==
    ASSUME TypeOK, [Next]_vars, NEW o \in Ops, ops'[o].phase = "dispatching"
    PROVE  /\ ops'[o].grant = ops[o].grant /\ ops'[o].dep = ops[o].dep
           /\ \/ ops[o].phase = "dispatching"
              \/ Fence(o)
<1>1. \A p \in Ops : ops[p] \in OpType
  BY DEF TypeOK
<1>2. CASE UNCHANGED ops
  BY <1>2
<1>3. ASSUME NEW b, ops' = Cancelled(b)
      PROVE  ops'[o] = ops[o]
  BY <1>1, <1>3 DEF Cancelled, OpType
<1>4. ASSUME NEW p \in Ops, NEW g \in Grants, NEW dep, Reserve(p, g, dep)
      PROVE  ops'[o] = ops[o]
  <2> DEFINE r == [ops[p] EXCEPT !.phase = "reserved", !.grant = g, !.seq = grants[g].next, !.dep = dep]
  <2>1. ops' = [ops EXCEPT ![p] = r]
    BY <1>4 DEF Reserve, TypeOK
  <2>2. \A q \in Ops : ops'[q] = IF q = p THEN r ELSE ops[q]
    BY <2>1 DEF TypeOK
  <2>3. r.phase = "reserved"
    BY <1>1 DEF OpType
  <2> QED BY <2>2, <2>3
<1>5. ASSUME NEW p \in Ops, Fence(p) 
      PROVE  ops'[o].grant = ops[o].grant /\ ops'[o].dep = ops[o].dep /\ (ops'[o] = ops[o] \/ o = p)
  <2> DEFINE r == [ops[p] EXCEPT !.phase = "dispatching", !.sent = TRUE]
  <2>1. ops' = [ops EXCEPT ![p] = r]
    BY <1>5 DEF Fence, TypeOK
  <2>2. \A q \in Ops : ops'[q] = IF q = p THEN r ELSE ops[q]
    BY <2>1 DEF TypeOK
  <2>3. r.grant = ops[p].grant /\ r.dep = ops[p].dep
    BY <1>1 DEF OpType
  <2> QED BY <2>2, <2>3
<1>6. ASSUME NEW p \in Ops, FenceRefuses(p) \/ Deliver(p) PROVE ops'[o] = ops[o]
  <2>1. PICK d : ops' = [ops EXCEPT ![p] = [ops[p] EXCEPT !.phase = "settled", !.disposition = d]]
    BY <1>6 DEF FenceRefuses, Deliver, TypeOK
  <2>2. \A q \in Ops : ops'[q] = IF q = p THEN [ops[p] EXCEPT !.phase = "settled", !.disposition = d] ELSE ops[q]
    BY <2>1 DEF TypeOK
  <2> QED BY <1>1, <2>2 DEF OpType
<1>7. ASSUME NEW g \in Grants, NEW b \in Bindings, GrantAsk(g, b) \/ TakeCheck(g, b) PROVE UNCHANGED ops
  BY <1>7 DEF GrantAsk, TakeCheck
<1>8. ASSUME NEW g \in Grants,
             \/ AuthorizerDeclines(g) \/ GrantIssue(g) \/ GrantRefused(g) \/ Lapse(g) \/ TakeIssue(g)
             \/ TakeRefused(g) \/ WatchdogReports(g) \/ WatchdogDies(g)
      PROVE  UNCHANGED ops
  BY <1>8 DEF AuthorizerDeclines, GrantIssue, GrantRefused, Lapse, TakeIssue, TakeRefused,
              WatchdogReports, WatchdogDies
<1>9. ASSUME NEW g \in Grants, TakeRevoke(g) \/ WatchdogNeutralizes(g)
      PROVE  UNCHANGED ops \/ \E b : ops' = Cancelled(b)
  BY <1>9 DEF TakeRevoke, EndAuthority, WatchdogNeutralizes
<1>10. ASSUME NEW b \in Bindings,
              \/ FirstRefreshRaises(b) \/ Revoke(b) \/ Pause(b) \/ PauseWrites(b) \/ ReleaseHuman(b)
              \/ Resume(b) \/ Capture(b) \/ Release(b) \/ ForegroundUnconfirmed(b) \/ Unbind(b)
       PROVE  UNCHANGED ops \/ \E c : ops' = Cancelled(c)
  BY <1>10 DEF FirstRefreshRaises, Revoke, Pause, PauseWrites, ReleaseHuman, Resume, Capture,
                       CaptureChanged, SampleRefused,
               Release, ForegroundUnconfirmed, Unbind, EndAuthority
<1>11. CASE WatchdogCollects \/ LedgerFills \/ UNCHANGED vars
  BY <1>2, <1>11 DEF WatchdogCollects, LedgerFills, vars
<1> QED BY <1>2, <1>3, <1>4, <1>5, <1>6, <1>7, <1>8, <1>9, <1>10, <1>11 DEF Next

LEMMA AuthorityEnds ==
    ASSUME TypeOK, AuthorityUnbroken, [Next]_vars, NEW S \in SUBSET Grants, Ends(S), Fenced(S)
    PROVE  AuthorityUnbroken'
<1>1. ASSUME NEW g \in Grants, grants[g].phase # "new"
      PROVE  RequestedAt(g)' = RequestedAt(g) /\ grants'[g].binding = grants[g].binding
             /\ grants[g].binding \in Bindings
  BY <1>1 DEF Ends, RequestedAt, TypeOK
<1>2. ASSUME NEW g \in Grants, Live(g)'
      PROVE  bind'[grants'[g].binding].epoch = RequestedAt(g)'
  <2>1. Live(g) /\ g \notin S /\ grants[g].phase # "new"
    BY <1>2 DEF Ends, Live
  <2>2. g \in LiveOn(grants[g].binding)
    BY <2>1 DEF LiveOn
  <2>3. bind'[grants[g].binding].epoch = bind[grants[g].binding].epoch
    BY <1>1, <2>1, <2>2 DEF Fenced
  <2> QED BY <1>1, <2>1, <2>3 DEF AuthorityUnbroken
<1>3. ASSUME NEW o \in Ops, ops'[o].phase = "dispatching"
      PROVE  (bind[OpBinding(o)].epoch = RequestedAt(ops[o].grant))'
  <2>1. ops'[o].grant = ops[o].grant /\ (ops[o].phase = "dispatching" \/ Fence(o))
    BY <1>3, StepOps
  <2>2. ops[o].grant \in Grants /\ grants[ops[o].grant].phase # "new"
    BY <2>1 DEF TypeOK, Fence
  <2>3. bind[OpBinding(o)].epoch = RequestedAt(ops[o].grant) /\ bind'[OpBinding(o)].epoch = bind[OpBinding(o)].epoch
    <3>1. CASE ops[o].phase = "dispatching"
      <4>1. Locked(OpBinding(o)) /\ OpBinding(o) \in Bindings
        BY <1>1, <2>2, <3>1 DEF Locked, OpBinding
      <4> QED BY <3>1, <4>1 DEF AuthorityUnbroken, Fenced
    <3>2. CASE Fence(o)
      <4>1. Live(ops[o].grant) /\ UNCHANGED bind
        BY <3>2 DEF Fence, FenceOpen, MayUse
      <4> QED BY <2>2, <4>1 DEF AuthorityUnbroken, OpBinding
    <3> QED BY <2>1, <3>1, <3>2
  <2> QED BY <1>1, <2>1, <2>2, <2>3 DEF OpBinding
<1> QED BY <1>2, <1>3 DEF AuthorityUnbroken

LEMMA AuthorityIssues ==
    ASSUME TypeOK, RequestParty, AuthorityUnbroken, NEW g \in Grants, Issues(g)
    PROVE  AuthorityUnbroken'
<1>1. \A h \in Grants : RequestedAt(h)' = RequestedAt(h) /\ grants'[h].binding = grants[h].binding
  BY IssueFacts DEF RequestedAt
<1>2. UNCHANGED ops /\ \A b \in Bindings : bind'[b].epoch = bind[b].epoch
  <2>1. \A b \in Bindings : bind[b] \in BindingType
    BY DEF TypeOK
  <2>2. \/ UNCHANGED bind
        \/ bind' = [bind EXCEPT ![grants[g].binding] = [bind[grants[g].binding] EXCEPT
                      !.human = TRUE, !.inhibited = FALSE, !.state = "human-control"]]
    BY DEF Issues, GrantIssue, TakeIssue, TypeOK
  <2>3. UNCHANGED ops
    BY DEF Issues, GrantIssue, TakeIssue
  <2>4. \A b \in Bindings : bind'[b].epoch = bind[b].epoch
    <3> DEFINE r == [bind[grants[g].binding] EXCEPT !.human = TRUE, !.inhibited = FALSE,
                                                    !.state = "human-control"]
    <3>1. r.epoch = bind[grants[g].binding].epoch
      BY <2>1, IssueFacts DEF BindingType
    <3>2. UNCHANGED bind \/ \A b \in Bindings : bind'[b] = IF b = grants[g].binding THEN r ELSE bind[b]
      BY <2>2 DEF TypeOK
    <3> QED BY <3>1, <3>2
  <2> QED BY <2>3, <2>4
<1>3. bind[grants[g].binding].epoch = RequestedAt(g)
  <2>1. grants[g].saved \in Nat
    BY DEF TypeOK, GrantType
  <2>2. CASE GrantIssue(g)
    BY <2>1, <2>2 DEF GrantIssue, StillGrantable, RequestedAt, RequestParty
  <2>3. CASE TakeIssue(g)
    BY <2>1, <2>3 DEF TakeIssue, RequestedAt, RequestParty
  <2> QED BY <2>2, <2>3 DEF Issues
<1>4. ASSUME NEW h \in Grants, Live(h)'
      PROVE  bind'[grants'[h].binding].epoch = RequestedAt(h)'
  <2>1. (h = g \/ Live(h)) /\ grants[h].binding \in Bindings
    BY <1>4, IssueFacts DEF Live, TypeOK
  <2> QED BY <1>1, <1>2, <1>3, <2>1 DEF AuthorityUnbroken
<1>5. ASSUME NEW o \in Ops, ops'[o].phase = "dispatching"
      PROVE  (bind[OpBinding(o)].epoch = RequestedAt(ops[o].grant))'
  <2>1. ops[o].phase = "dispatching" /\ ops'[o].grant = ops[o].grant /\ ops[o].grant \in Grants
        /\ grants[ops[o].grant].binding \in Bindings
    BY <1>2, <1>5 DEF TypeOK
  <2> QED BY <1>1, <1>2, <2>1 DEF AuthorityUnbroken, OpBinding
<1> QED BY <1>4, <1>5 DEF AuthorityUnbroken

LEMMA StepAuthority ==
    TypeOK /\ RequestParty /\ AuthorityUnbroken /\ [Next]_vars => AuthorityUnbroken'
BY StepSummary, AuthorityEnds, AuthorityIssues

\* A revocation, pause, takeover or release that happened after a grant was
\* requested leaves no live grant and no delivery that rests on that request.
THEOREM AuthorityHolds == Spec => []AuthorityUnbroken
<1>1. Init => RequestParty /\ AuthorityUnbroken
  BY DEF Init, RequestParty, AuthorityUnbroken, Live
<1> QED BY <1>1, InitType, StepType, StepParty, StepAuthority, PTL DEF Spec

-----------------------------------------------------------------------------
(* Human control. *)

LEMMA StepHuman ==
    ASSUME TypeOK, LeaseIsLive, RequestParty, HumanExcludesCassi, [Next]_vars
    PROVE  HumanExcludesCassi'
<1> SUFFICES ASSUME NEW b \in Bindings, bind'[b].human,
                    NEW h \in Grants, Live(h)', grants'[h].binding = b
             PROVE  grants'[h].human
  BY DEF HumanExcludesCassi, LiveOn
<1>1. ASSUME NEW S \in SUBSET Grants, Ends(S), Fenced(S) PROVE grants'[h].human
  <2>1. Live(h) /\ h \notin S /\ grants[h].binding = b /\ grants'[h].human = grants[h].human
    BY <1>1 DEF Ends, Live
  <2>2. h \in LiveOn(b)
    BY <2>1 DEF LiveOn
  <2>3. bind[b].human
    BY <1>1, <2>1, <2>2 DEF Fenced
  <2> QED BY <2>1, <2>2, <2>3 DEF HumanExcludesCassi
<1>2. ASSUME NEW g \in Grants, Issues(g) PROVE grants'[h].human
  <2>1. /\ grants'[h].human = grants[h].human /\ grants[h].binding = b /\ (h = g \/ Live(h))
        /\ leases[DomainOf[grants[g].binding]] = NoGrant
    BY <1>2, IssueFacts DEF Live
  <2>2. grants[g].binding = b => h = g
    BY <2>1 DEF LeaseIsLive
  <2>3. CASE GrantIssue(g)
    <3>1. ~bind[grants[g].binding].human /\ UNCHANGED bind
      BY <2>3 DEF GrantIssue, StillGrantable
    <3>2. h # g /\ h \in LiveOn(b)
      BY <2>1, <3>1 DEF LiveOn
    <3> QED BY <2>1, <3>1, <3>2 DEF HumanExcludesCassi
  <2>4. CASE TakeIssue(g)
    <3>1. CASE h = g
      BY <2>1, <2>4, <3>1 DEF TakeIssue, RequestParty
    <3>2. CASE h # g
      <4>1. bind'[b] = bind[b] /\ h \in LiveOn(b)
        BY <2>1, <2>2, <2>4, <3>2 DEF TakeIssue, LiveOn, TypeOK
      <4> QED BY <2>1, <4>1 DEF HumanExcludesCassi
    <3> QED BY <3>1, <3>2
  <2> QED BY <1>2, <2>3, <2>4 DEF Issues
<1> QED BY <1>1, <1>2, StepSummary

\* However a takeover is interleaved with grants being asked for and approved,
\* none of Cassi's is live on a binding that says a human controls it.
THEOREM HumanIsAlone == Spec => []HumanExcludesCassi
<1>1. Init => LeaseIsLive /\ RequestParty /\ HumanExcludesCassi
  BY DEF Init, LeaseIsLive, RequestParty, HumanExcludesCassi, Live
<1> QED BY <1>1, InitType, StepType, StepLease, StepParty, StepHuman, PTL DEF Spec

-----------------------------------------------------------------------------
(* The lock that a delivery holds. *)

\* A grant that was requested keeps its binding and its party.
LEMMA StepGrants ==
    ASSUME TypeOK, [Next]_vars, NEW g \in Grants, grants[g].phase # "new"
    PROVE  grants'[g].binding = grants[g].binding /\ grants'[g].human = grants[g].human
BY StepSummary, IssueFacts DEF Ends

\* A step that is not the delivery's own leaves a locked binding alone, but for
\* the state that pause writes late.
LEMMA StepLocked ==
    ASSUME TypeOK, [Next]_vars, NEW b \in Bindings, Locked(b)
    PROVE  \/ bind'[b] = bind[b]
           \/ PauseWrites(b)
           \/ \E o \in Ops : Deliver(o) /\ OpBinding(o) = b
<1>1. ASSUME NEW c \in Bindings, ~Locked(c), NEW r, bind' = [bind EXCEPT ![c] = r]
      PROVE  bind'[b] = bind[b]
  BY <1>1 DEF TypeOK
<1>2. ASSUME NEW c \in Bindings, ~Locked(c), NEW D, RefreshRaises(c, D)
      PROVE  bind'[b] = bind[b]
  BY <1>1, <1>2 DEF RefreshRaises, SourceGone, SourceChanged
<1>3. ASSUME NEW c \in Bindings, ~Locked(c), \E h, s, n : EndAuthority(c, h, s, n)
      PROVE  bind'[b] = bind[b]
  BY <1>1, <1>3 DEF EndAuthority
<1>4. ASSUME NEW g \in Grants, NEW c \in Bindings, GrantAsk(g, c) \/ TakeCheck(g, c) PROVE UNCHANGED bind
  BY <1>4 DEF GrantAsk, TakeCheck
<1>5. ASSUME NEW g \in Grants,
             \/ AuthorizerDeclines(g) \/ GrantIssue(g) \/ GrantRefused(g) \/ Lapse(g)
             \/ TakeRefused(g) \/ WatchdogReports(g) \/ WatchdogDies(g)
      PROVE  bind'[b] = bind[b]
  <2>1. \/ UNCHANGED bind
        \/ /\ GrantRefused(g) \/ TakeRefused(g)
           /\ RefreshRaises(grants[g].binding, {g}) /\ ~Locked(grants[g].binding)
    BY <1>5 DEF AuthorizerDeclines, GrantIssue, GrantRefused, Lapse, TakeRefused, WatchdogReports, WatchdogDies
  <2>2. GrantRefused(g) \/ TakeRefused(g) => grants[g].binding \in Bindings
    BY DEF GrantRefused, TakeRefused, TypeOK
  <2> QED BY <1>2, <2>1, <2>2
<1>6. ASSUME NEW g \in Grants, TakeRevoke(g) \/ TakeIssue(g) \/ WatchdogNeutralizes(g)
      PROVE  bind'[b] = bind[b]
  <2>1. grants[g].binding \in Bindings /\ ~Locked(grants[g].binding)
    BY <1>6 DEF TakeRevoke, TakeIssue, WatchdogNeutralizes, MayEndAuthority, TypeOK
  <2>2. CASE TakeRevoke(g)
    BY <1>3, <2>1, <2>2 DEF TakeRevoke
  <2>3. CASE TakeIssue(g) \/ WatchdogNeutralizes(g)
    <3>1. bind' = bind \/ \E r : bind' = [bind EXCEPT ![grants[g].binding] = r]
      BY <2>3 DEF TakeIssue, WatchdogNeutralizes
    <3> QED BY <1>1, <2>1, <3>1
  <2> QED BY <1>6, <2>2, <2>3
<1>7. ASSUME NEW o \in Ops, NEW g \in Grants, NEW dep, Reserve(o, g, dep) PROVE UNCHANGED bind
  BY <1>7 DEF Reserve
<1>8. ASSUME NEW o \in Ops, Fence(o) \/ FenceRefuses(o) PROVE bind'[b] = bind[b]
  <2>1. ~Locked(OpBinding(o)) /\ OpBinding(o) \in Bindings
    BY <1>8 DEF Fence, FenceRefuses, OpBinding, TypeOK
  <2>2. RefreshRaises(OpBinding(o), {}) \/ UNCHANGED bind
    BY <1>8 DEF Fence, FenceRefuses
  <2> QED BY <1>2, <2>1, <2>2
<1>9. ASSUME NEW o \in Ops, Deliver(o), OpBinding(o) # b PROVE bind'[b] = bind[b]
  <2>1. bind' = bind \/ \E r : bind' = [bind EXCEPT ![OpBinding(o)] = r]
    BY <1>9 DEF Deliver
  <2> QED BY <1>9, <2>1 DEF TypeOK
<1>10. ASSUME NEW c \in Bindings,
              \/ FirstRefreshRaises(c) \/ Revoke(c) \/ Pause(c) \/ ReleaseHuman(c)
              \/ Resume(c) \/ Capture(c) \/ Release(c) \/ ForegroundUnconfirmed(c) \/ Unbind(c)
       PROVE  bind'[b] = bind[b]
  <2>1. ~Locked(c)
    BY <1>10 DEF FirstRefreshRaises, Revoke, Pause, ReleaseHuman, MayEndAuthority, Resume, Capture,
                       CaptureChanged, SampleRefused,
                 Release, ForegroundUnconfirmed, Unbind
  <2>2. CASE FirstRefreshRaises(c)
    BY <1>2, <2>1, <2>2 DEF FirstRefreshRaises
  <2>3. CASE Revoke(c) \/ Pause(c) \/ ReleaseHuman(c)
    BY <1>3, <2>1, <2>3 DEF Revoke, Pause, ReleaseHuman
  <2>4. CASE Resume(c) \/ Release(c)
    BY <1>1, <2>1, <2>4 DEF Resume, Release
  <2>5. CASE ForegroundUnconfirmed(c) \/ Unbind(c)
    BY <2>1, <2>5 DEF ForegroundUnconfirmed, Unbind, TypeOK
  <2>6. CASE Capture(c)
    BY <1>1, <2>1, <2>6 DEF Capture, CaptureChanged, SampleRefused, SourceGone
  <2> QED BY <1>10, <2>2, <2>3, <2>4, <2>5, <2>6
<1>11. ASSUME NEW c \in Bindings, c # b, PauseWrites(c) PROVE bind'[b] = bind[b]
  BY <1>11 DEF PauseWrites, TypeOK
<1>12. CASE WatchdogCollects \/ LedgerFills \/ UNCHANGED vars
  BY <1>12 DEF WatchdogCollects, LedgerFills, vars
<1> QED BY <1>4, <1>5, <1>6, <1>7, <1>8, <1>9, <1>10, <1>11, <1>12 DEF Next

\* what the final fence found of an operation's binding still holds
Covered(o) ==
    LET r == bind[OpBinding(o)] IN
    Attached(OpBinding(o)) /\ ~r.inhibited /\ Fresh(o) /\ r.human = grants[ops[o].grant].human

LEMMA StepCovered ==
    ASSUME TypeOK, [Next]_vars, DeliveryStaysFenced, NEW o \in Ops,
           ops[o].phase = "dispatching", ops'[o].phase = "dispatching"
    PROVE  Covered(o)'
<1> DEFINE b == OpBinding(o)
<1>1. /\ ops[o].grant \in Grants /\ grants[ops[o].grant].phase # "new" /\ b \in Bindings
      /\ Locked(b) /\ Covered(o) /\ ops[o] \in OpType
  BY DEF TypeOK, OpBinding, Locked, DeliveryStaysFenced, Covered
<1>2. /\ ops'[o].grant = ops[o].grant /\ ops'[o].dep = ops[o].dep
      /\ grants'[ops[o].grant].binding = b
      /\ grants'[ops[o].grant].human = grants[ops[o].grant].human
  BY <1>1, StepOps, StepGrants DEF OpBinding
<1>3. ASSUME NEW p \in Ops, Deliver(p), OpBinding(p) = b PROVE FALSE
  <2>1. p = o
    BY <1>1, <1>3 DEF DeliveryStaysFenced, Deliver
  <2>2. PICK d : ops' = [ops EXCEPT ![o] = [ops[o] EXCEPT !.phase = "settled", !.disposition = d]]
    BY <1>3, <2>1 DEF Deliver, TypeOK
  <2>3. ops'[o].phase = "settled"
    BY <1>1, <2>2 DEF TypeOK, OpType
  <2> QED BY <2>3
<1>4. CASE bind'[b] = bind[b]
  BY <1>1, <1>2, <1>4 DEF Covered, OpBinding, Attached, Fresh
<1>5. CASE PauseWrites(b)
  <2>1. bind[b] \in BindingType
    BY <1>1 DEF TypeOK
  <2>2. PICK s : bind' = [bind EXCEPT ![b] = [bind[b] EXCEPT !.state = s]]
                 /\ s \in {bind[b].state, "paused", "neutralization-pending"}
    <3>1. bind = [bind EXCEPT ![b] = [bind[b] EXCEPT !.state = bind[b].state]]
      BY <1>1, <2>1 DEF TypeOK, BindingType
    <3>2. \/ bind' = bind
          \/ bind' = [bind EXCEPT ![b] = [bind[b] EXCEPT !.state = "paused"]]
          \/ bind' = [bind EXCEPT ![b] = [bind[b] EXCEPT !.state = "neutralization-pending"]]
      BY <1>5 DEF PauseWrites, TypeOK
    <3> QED BY <3>1, <3>2
  <2>3. bind'[b] = [bind[b] EXCEPT !.state = s]
    BY <1>1, <2>2 DEF TypeOK
  <2>4. /\ bind'[b].state = s /\ bind'[b].detached = bind[b].detached
        /\ bind'[b].inhibited = bind[b].inhibited /\ bind'[b].human = bind[b].human
        /\ bind'[b].boundary = bind[b].boundary /\ bind'[b].latest = bind[b].latest
    BY <2>1, <2>3 DEF BindingType
  <2>5. s \notin ReleaseStates \cup {"detached"}
    BY <1>1, <2>2 DEF Covered, Attached, ReleaseStates
  <2> QED BY <1>1, <1>2, <2>4, <2>5 DEF Covered, OpBinding, Attached, Fresh
<1> QED BY <1>1, <1>3, <1>4, <1>5, StepLocked

LEMMA StepDelivery ==
    ASSUME TypeOK, [Next]_vars, DeliveryStaysFenced
    PROVE  DeliveryStaysFenced'
<1>1. ASSUME NEW o \in Ops, ops'[o].phase = "dispatching"
      PROVE  /\ ops[o].grant \in Grants /\ OpBinding(o)' = OpBinding(o)
             /\ ops'[o].grant = ops[o].grant
             /\ ops[o].phase = "dispatching" \/ (Fence(o) /\ ~Locked(OpBinding(o)))
  <2>1. ops'[o].grant = ops[o].grant /\ (ops[o].phase = "dispatching" \/ Fence(o))
    BY <1>1, StepOps
  <2>2. ops[o].grant \in Grants /\ grants[ops[o].grant].phase # "new"
    BY <2>1 DEF TypeOK, Fence
  <2> QED BY <2>1, <2>2, StepGrants DEF OpBinding, Fence
<1>2. ASSUME NEW o \in Ops, ops'[o].phase = "dispatching" PROVE Covered(o)'
  <2>1. CASE ops[o].phase = "dispatching"
    BY <1>2, <2>1, StepCovered
  <2>2. CASE Fence(o)
    <3>1. UNCHANGED <<bind, grants>> /\ Covered(o)
      BY <2>2 DEF Fence, FenceOpen, MayUse, Covered, OpBinding
    <3>2. ops'[o].grant = ops[o].grant /\ ops'[o].dep = ops[o].dep
      BY <1>2, StepOps
    <3> QED BY <3>1, <3>2 DEF Covered, OpBinding, Attached, Fresh
  <2> QED BY <1>1, <1>2, <2>1, <2>2
<1>3. ASSUME NEW o \in Ops, NEW p \in Ops, ops'[o].phase = "dispatching",
             ops'[p].phase = "dispatching", OpBinding(p)' = OpBinding(o)'
      PROVE  p = o
  <2>1. OpBinding(p) = OpBinding(o)
    BY <1>1, <1>3
  <2>2. CASE ops[o].phase = "dispatching" /\ ops[p].phase = "dispatching"
    BY <2>1, <2>2 DEF DeliveryStaysFenced
  <2>3. CASE ops[o].phase = "dispatching" /\ ~Locked(OpBinding(p))
    BY <2>1, <2>3 DEF Locked
  <2>4. CASE ops[p].phase = "dispatching" /\ ~Locked(OpBinding(o))
    BY <2>1, <2>4 DEF Locked
  <2>5. ASSUME Fence(o), Fence(p), p # o PROVE FALSE
    <3>1. ops[o].phase = "reserved" /\ ops[p].phase = "reserved"
      BY <2>5 DEF Fence
    <3>2. ops'[p] = ops[p]
      BY <2>5 DEF Fence, TypeOK
    <3> QED BY <1>3, <3>1, <3>2
  <2> QED BY <1>1, <1>3, <2>2, <2>3, <2>4, <2>5
<1> QED BY <1>2, <1>3 DEF DeliveryStaysFenced, Covered

\* From the final fence to the backend's answer nothing another thread does
\* changes what the fence checked, although the broker-wide lock is free.
THEOREM DeliveriesStayFenced == Spec => []DeliveryStaysFenced
<1>1. Init => DeliveryStaysFenced
  BY DEF Init, DeliveryStaysFenced
<1> QED BY <1>1, InitType, StepType, StepDelivery, PTL DEF Spec

-----------------------------------------------------------------------------
(* SurfaceBroker implements EffectContract, whichever of an operation's own thread, a
   revocation, the watchdog and a release concludes it: what a step may do to one
   operation. *)

Moved(e, f) ==
    \/ f = e
    \/ e.phase = "none" /\ f.phase = "reserved" /\ f.sent = e.sent /\ f.disposition = e.disposition
    \/ e.phase = "reserved" /\ f.phase = "dispatching" /\ f.sent /\ f.disposition = e.disposition
    \/ e.phase = "reserved" /\ f.phase = "settled" /\ f.sent = e.sent /\ f.disposition = "not-started"
    \/ e.phase = "dispatching" /\ f.phase = "settled" /\ f.sent = e.sent
       /\ f.disposition \in Dispositions

LEMMA StepMoves ==
    ASSUME TypeOK, [Next]_vars, NEW o \in Ops
    PROVE  Moved(ops[o], ops'[o])
<1>1. \A p \in Ops : ops[p] \in OpType
  BY DEF TypeOK
<1>2. CASE UNCHANGED ops
  BY <1>2 DEF Moved
<1>3. ASSUME NEW b, ops' = Cancelled(b)
      PROVE  Moved(ops[o], ops'[o])
  <2> DEFINE r == [ops[o] EXCEPT !.phase = "settled", !.disposition = "not-started"]
  <2>1. ops'[o] = ops[o] \/ (ops[o].phase = "reserved" /\ ops'[o] = r)
    BY <1>3 DEF Cancelled
  <2>2. r.phase = "settled" /\ r.disposition = "not-started" /\ r.sent = ops[o].sent
    BY <1>1 DEF OpType
  <2> QED BY <2>1, <2>2 DEF Moved
<1>4. ASSUME NEW p \in Ops, NEW g \in Grants, NEW dep, Reserve(p, g, dep)
      PROVE  Moved(ops[o], ops'[o])
  <2> DEFINE r == [ops[p] EXCEPT !.phase = "reserved", !.grant = g, !.seq = grants[g].next, !.dep = dep]
  <2>1. ops[p].phase = "none" /\ ops' = [ops EXCEPT ![p] = r]
    BY <1>4 DEF Reserve, TypeOK
  <2>2. ops'[o] = IF o = p THEN r ELSE ops[o]
    BY <2>1 DEF TypeOK
  <2>3. r.phase = "reserved" /\ r.sent = ops[p].sent /\ r.disposition = ops[p].disposition
    BY <1>1 DEF OpType
  <2> QED BY <2>1, <2>2, <2>3 DEF Moved
<1>5. ASSUME NEW p \in Ops, Fence(p)
      PROVE  Moved(ops[o], ops'[o])
  <2> DEFINE r == [ops[p] EXCEPT !.phase = "dispatching", !.sent = TRUE]
  <2>1. ops[p].phase = "reserved" /\ ops' = [ops EXCEPT ![p] = r]
    BY <1>5 DEF Fence, TypeOK
  <2>2. ops'[o] = IF o = p THEN r ELSE ops[o]
    BY <2>1 DEF TypeOK
  <2>3. r.phase = "dispatching" /\ r.sent /\ r.disposition = ops[p].disposition
    BY <1>1 DEF OpType
  <2> QED BY <2>1, <2>2, <2>3 DEF Moved
<1>6. ASSUME NEW p \in Ops, FenceRefuses(p) \/ Deliver(p)
      PROVE  Moved(ops[o], ops'[o])
  <2>1. PICK d : /\ ops' = [ops EXCEPT ![p] = [ops[p] EXCEPT !.phase = "settled", !.disposition = d]]
                 /\ \/ ops[p].phase = "reserved" /\ d = "not-started"
                    \/ ops[p].phase = "dispatching" /\ d \in Dispositions
    BY <1>6 DEF FenceRefuses, Deliver, TypeOK, Dispositions
  <2> DEFINE r == [ops[p] EXCEPT !.phase = "settled", !.disposition = d]
  <2>2. ops'[o] = IF o = p THEN r ELSE ops[o]
    BY <2>1 DEF TypeOK
  <2>3. r.phase = "settled" /\ r.disposition = d /\ r.sent = ops[p].sent
    BY <1>1 DEF OpType
  <2> QED BY <2>1, <2>2, <2>3 DEF Moved
<1>7. ASSUME NEW g \in Grants, NEW b \in Bindings, GrantAsk(g, b) \/ TakeCheck(g, b) PROVE UNCHANGED ops
  BY <1>7 DEF GrantAsk, TakeCheck
<1>8. ASSUME NEW g \in Grants,
             \/ AuthorizerDeclines(g) \/ GrantIssue(g) \/ GrantRefused(g) \/ Lapse(g) \/ TakeIssue(g)
             \/ TakeRefused(g) \/ WatchdogReports(g) \/ WatchdogDies(g)
      PROVE  UNCHANGED ops
  BY <1>8 DEF AuthorizerDeclines, GrantIssue, GrantRefused, Lapse, TakeIssue, TakeRefused,
              WatchdogReports, WatchdogDies
<1>9. ASSUME NEW g \in Grants, TakeRevoke(g) \/ WatchdogNeutralizes(g)
      PROVE  UNCHANGED ops \/ \E b : ops' = Cancelled(b)
  BY <1>9 DEF TakeRevoke, EndAuthority, WatchdogNeutralizes
<1>10. ASSUME NEW b \in Bindings,
              \/ FirstRefreshRaises(b) \/ Revoke(b) \/ Pause(b) \/ PauseWrites(b) \/ ReleaseHuman(b)
              \/ Resume(b) \/ Capture(b) \/ Release(b) \/ ForegroundUnconfirmed(b) \/ Unbind(b)
       PROVE  UNCHANGED ops \/ \E c : ops' = Cancelled(c)
  BY <1>10 DEF FirstRefreshRaises, Revoke, Pause, PauseWrites, ReleaseHuman, Resume, Capture,
               Release, ForegroundUnconfirmed, Unbind, EndAuthority
<1>11. CASE WatchdogCollects \/ LedgerFills \/ UNCHANGED vars
  BY <1>2, <1>11 DEF WatchdogCollects, LedgerFills, vars
<1> QED BY <1>2, <1>3, <1>4, <1>5, <1>6, <1>7, <1>8, <1>9, <1>10, <1>11 DEF Next

-----------------------------------------------------------------------------
(* What an operation's phase says of its delivery, and the contract. *)

Phased(e) ==
    /\ e.phase \in {"none", "reserved"} => ~e.sent /\ e.disposition = "none"
    /\ e.phase = "dispatching" => e.sent /\ e.disposition = "none"
    /\ e.phase = "settled" => e.disposition \in Dispositions \cup {"not-started"}

AllPhased == \A o \in Ops : Phased(ops[o])

LEMMA MovedPhased ==
    ASSUME NEW e \in OpType, NEW f \in OpType, Phased(e), Moved(e, f)
    PROVE  Phased(f)
BY DEF Phased, Moved, OpType

LEMMA StepPhased == TypeOK /\ TypeOK' /\ AllPhased /\ [Next]_vars => AllPhased'
<1> SUFFICES ASSUME TypeOK, TypeOK', AllPhased, [Next]_vars, NEW o \in Ops
             PROVE  Phased(ops'[o])
  BY DEF AllPhased
<1>1. ops[o] \in OpType /\ ops'[o] \in OpType
  BY DEF TypeOK
<1> QED BY <1>1, StepMoves, MovedPhased DEF AllPhased

\* an operation's record as the contract has it
View(e) ==
    [status |-> CASE e.phase = "none" -> "none"
                  [] e.phase = "settled" -> "concluded"
                  [] OTHER -> "accepted",
     sent |-> IF e.sent THEN 1 ELSE 0, outcome |-> e.disposition]

LEMMA ViewType ==
    ASSUME NEW e \in OpType, Phased(e)
    PROVE  View(e) \in Contract!Effects
BY DEF View, Phased, OpType, Dispositions, Contract!Effects, Contract!Outcomes

LEMMA ViewSteps ==
    ASSUME NEW e \in OpType, NEW f \in OpType, Phased(e), Moved(e, f)
    PROVE  Contract!Step(View(e), View(f))
<1> DEFINE v == View(e)
           w == View(f)
<1>1. CASE f = e
  BY <1>1 DEF Contract!Step
<1>2. CASE e.phase = "none" /\ f.phase = "reserved" /\ f.sent = e.sent /\ f.disposition = e.disposition
  <2>1. w = [v EXCEPT !.status = "accepted"] /\ v.status = "none"
    BY <1>2 DEF View
  <2> HIDE DEF v, w
  <2> QED BY <2>1 DEF Contract!Step, Contract!Accepts, v, w
<1>3. CASE e.phase = "reserved" /\ f.phase = "dispatching" /\ f.sent /\ f.disposition = e.disposition
  <2>1. w = [v EXCEPT !.sent = 1] /\ v.status = "accepted" /\ v.sent = 0
    BY <1>3 DEF View, Phased
  <2> QED BY <2>1 DEF Contract!Step, Contract!Delivers
<1>4. CASE /\ f.phase = "settled" /\ f.sent = e.sent /\ e.phase \in {"reserved", "dispatching"}
           /\ \/ f.disposition = "not-started" /\ ~e.sent
              \/ f.disposition \in Dispositions
  <2>1. /\ w = [status |-> "concluded", sent |-> v.sent, outcome |-> f.disposition]
        /\ v.status = "accepted" /\ (f.disposition = "not-started" => v.sent = 0)
    BY <1>4 DEF View, Dispositions
  <2>2. f.disposition \in Contract!Outcomes
    BY <1>4 DEF Contract!Outcomes, Dispositions
  <2> QED BY <2>1, <2>2 DEF Contract!Step, Contract!Concludes
<1> QED BY <1>1, <1>2, <1>3, <1>4 DEF Moved, Phased

LEMMA ContractStep ==
    ASSUME TypeOK, TypeOK', AllPhased, [Next]_vars
    PROVE  [Contract!Next]_[o \in Ops |-> Seeing(o)]
<1>1. ASSUME NEW o \in Ops
      PROVE  /\ Seeing(o)' \in Contract!Effects
             /\ Contract!Step(Seeing(o), Seeing(o)')
  <2>1. ops[o] \in OpType /\ ops'[o] \in OpType /\ Phased(ops[o]) /\ Moved(ops[o], ops'[o])
    BY StepMoves DEF TypeOK, AllPhased
  <2>2. Seeing(o) = View(ops[o]) /\ Seeing(o)' = View(ops'[o])
    BY DEF Seeing, View
  <2> QED BY <2>1, <2>2, MovedPhased, ViewType, ViewSteps
<1> QED BY <1>1 DEF Contract!Next

\* The broker implements EffectContract: an operation is handed to its backend at
\* most once, never after it was cancelled, and its outcome is never replaced.
THEOREM BrokerKeepsContract == Spec => KeepsContract
<1>1. Init => AllPhased /\ Contract!Init
  <2>1. ASSUME Init PROVE AllPhased
    BY <2>1 DEF Init, AllPhased, Phased
  <2>2. ASSUME Init PROVE Contract!Init
    BY <2>2 DEF Init, Contract!Init, Seeing
  <2> QED BY <2>1, <2>2
<1>2. TypeOK /\ TypeOK' /\ AllPhased /\ [Next]_vars
      => AllPhased' /\ [Contract!Next]_[o \in Ops |-> Seeing(o)]
  BY StepPhased, ContractStep
<1> QED BY <1>1, <1>2, TypeCorrect, PTL DEF Spec, KeepsContract, Contract!Spec
=============================================================================
