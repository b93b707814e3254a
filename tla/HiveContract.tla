---------------------------- MODULE HiveContract ----------------------------
(***************************************************************************)
(* What the hive promises its members, without its store, its leaders'     *)
(* races and its crashes: one append-only lineage of bundles, each made    *)
(* for the generation it lands on, and members whose fields follow it in   *)
(* order.  The field commits before an adoption is acknowledged, and an    *)
(* acknowledgement that could not be written is made with a later one: a   *)
(* member's field may be any number of bundles ahead of its record, but it *)
(* passes over none, and its record never counts what the field lacks.     *)
(***************************************************************************)
EXTENDS Naturals, Sequences

CONSTANTS Members, ProgramOf(_), PredecessorOf(_)

VARIABLES
    lineage,   \* the published bundles, in generation order
    held,      \* the programs in each member's field
    acked      \* how much of the lineage each member acknowledged

contractVars == <<lineage, held, acked>>

CInit ==
    /\ lineage = <<>>
    /\ acked = [m \in Members |-> 0]

\* One more bundle, made for this generation.
Extend ==
    /\ Len(lineage') = Len(lineage) + 1
    /\ SubSeq(lineage', 1, Len(lineage)) = lineage
    /\ PredecessorOf(lineage'[Len(lineage')]) = Len(lineage)
    /\ UNCHANGED <<held, acked>>

\* the field of m holds the programs of the first n bundles
Holds(m, n) == \A i \in 1..n : ProgramOf(lineage[i]) \in held[m]

\* The field of m takes a bundle's program when it holds all those before it.
Take(m) ==
    \E n \in (acked[m] + 1)..Len(lineage) :
        /\ Holds(m, n - 1)
        /\ held' = [held EXCEPT ![m] = @ \cup {ProgramOf(lineage[n])}]
        /\ UNCHANGED <<lineage, acked>>

\* m acknowledges one or more further bundles, whose programs its field holds.
Acknowledge(m) ==
    \E n \in (acked[m] + 1)..Len(lineage) :
        /\ Holds(m, n)
        /\ acked' = [acked EXCEPT ![m] = n]
        /\ UNCHANGED <<lineage, held>>

CNext == Extend \/ \E m \in Members : Take(m) \/ Acknowledge(m)

CSpec == CInit /\ [][CNext]_contractVars
=============================================================================
