------------------------ MODULE EffectContractProofs ------------------------
(***************************************************************************)
(* What EffectContract promises, for every set of operations; a module     *)
(* that implements it inherits both theorems.                              *)
(***************************************************************************)
EXTENDS EffectContract, TLAPS

\* an effect that keeps its type and is delivered at most once
Sound(e) == /\ e \in Effects
            /\ e.sent <= 1
            /\ e.outcome = "not-started" => e.sent = 0
            /\ e.status # "concluded" => e.outcome = "none"

Invariant == effect \in [Ops -> Effects] /\ \A o \in Ops : Sound(effect[o])

\* A step of one effect keeps it sound.
LEMMA StepKeepsSound ==
    ASSUME NEW e, NEW f \in Effects, Sound(e), Step(e, f)
    PROVE  Sound(f)
<1>1. CASE f = e
  BY <1>1
<1>2. CASE Accepts(e, f)
  BY <1>2 DEF Accepts, Sound, Effects, Outcomes
<1>3. CASE Delivers(e, f)
  BY <1>3 DEF Delivers, Sound, Effects, Outcomes
<1>4. CASE Concludes(e, f)
  BY <1>4 DEF Concludes, Sound, Effects, Outcomes
<1> QED BY <1>1, <1>2, <1>3, <1>4 DEF Step

\* Every effect stays sound.
LEMMA InvariantHolds == Spec => []Invariant
<1>1. Init => Invariant
  BY DEF Init, Invariant, Sound, Effects, Outcomes
<1>2. Invariant /\ [Next]_effect => Invariant'
  <2> SUFFICES ASSUME Invariant, [Next]_effect PROVE Invariant'
    OBVIOUS
  <2>1. CASE Next
    BY <2>1, StepKeepsSound DEF Next, Invariant
  <2>2. CASE UNCHANGED effect
    BY <2>2 DEF Invariant
  <2> QED BY <2>1, <2>2
<1> QED BY <1>1, <1>2, PTL DEF Spec

\* No operation is delivered twice, and none that is concluded as not started is
\* delivered at all.
THEOREM DeliveredAtMostOnce == Spec => []AtMostOnce
<1>1. Invariant => AtMostOnce
  BY DEF Invariant, Sound, AtMostOnce
<1> QED BY <1>1, InvariantHolds, PTL

\* An operation that is concluded stays as it is.
THEOREM ConclusionsAreFinal == Spec => ConcludedIsFinal
<1>1. Next => \A o \in Ops : effect[o].status = "concluded" => effect'[o] = effect[o]
  BY DEF Next, Step, Accepts, Delivers, Concludes
<1>2. [Next]_effect => [\A o \in Ops : effect[o].status = "concluded"
                                       => effect'[o] = effect[o]]_effect
  BY <1>1
<1> QED BY <1>2, PTL DEF Spec, ConcludedIsFinal
=============================================================================
