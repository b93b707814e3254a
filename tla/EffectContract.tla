--------------------------- MODULE EffectContract ---------------------------
(***************************************************************************)
(* What the Cassi Surface promises of the effects that clients submit,     *)
(* whatever authority, threads, locks and crashes lie behind it: an effect *)
(* is accepted, delivered at most once, and concluded once and for all;    *)
(* one that is concluded as not started was not and will not be delivered. *)
(* SurfaceBroker implements it while a process lives, SurfaceLedger across *)
(* crashes and failed appends.                                             *)
(***************************************************************************)
EXTENDS Naturals

CONSTANT Ops         \* operation ids

VARIABLE effect      \* what a client can see of each operation, and what was sent

\* "certain" and "uncertain" are a backend's answers after a dispatch
Outcomes == {"not-started", "certain", "uncertain"}

Effects == [status : {"none", "accepted", "concluded"}, sent : Nat,
            outcome : Outcomes \cup {"none"}]

Init == effect = [o \in Ops |-> [status |-> "none", sent |-> 0, outcome |-> "none"]]

Accepts(e, f) ==
    /\ e.status = "none"
    /\ f = [e EXCEPT !.status = "accepted"]

Delivers(e, f) ==
    /\ e.status = "accepted" /\ e.sent = 0
    /\ f = [e EXCEPT !.sent = 1]

Concludes(e, f) ==
    \E d \in Outcomes :
        /\ e.status = "accepted"
        /\ d = "not-started" => e.sent = 0
        /\ f = [status |-> "concluded", sent |-> e.sent, outcome |-> d]

Step(e, f) == f = e \/ Accepts(e, f) \/ Delivers(e, f) \/ Concludes(e, f)

\* several operations may step at once: one handler cancels all of a source's
Next ==
    /\ effect' \in [Ops -> Effects]
    /\ \A o \in Ops : Step(effect[o], effect'[o])

Spec == Init /\ [][Next]_effect

-----------------------------------------------------------------------------
\* No operation is delivered twice, and none that is concluded as not started is
\* delivered at all.
AtMostOnce ==
    \A o \in Ops : /\ effect[o].sent <= 1
                   /\ effect[o].outcome = "not-started" => effect[o].sent = 0

\* An operation that is concluded stays as it is.
ConcludedIsFinal ==
    [][\A o \in Ops : effect[o].status = "concluded" => effect'[o] = effect[o]]_effect
=============================================================================
