------------------------- MODULE HiveExchangeProofs -------------------------
(***************************************************************************)
(* Proofs about HiveExchange for every set of leaders, members, candidates *)
(* and reviewers, every bound, and however leaders race and processes      *)
(* crash: the types, that the branch's lineage is dense and stored, that a *)
(* member's field follows it and each adoption it counts has its receipt,  *)
(* that the hive implements HiveContract, and that a single leader         *)
(* publishes nothing twice.                                                *)
(***************************************************************************)
EXTENDS HiveExchange, SequenceTheorems, TLAPS

USE HiveAssumption

-----------------------------------------------------------------------------
(* The inductive invariant. *)

\* a bundle a leader is publishing is in the store before it is an event
LeadersStore ==
    \A l \in Leaders :
        /\ leader[l].pc \in {"index", "publish"} => leader[l].bundle \in files
        /\ leader[l].pc = "publish" => leader[l].bundle \in index

\* the first g bundles are in m's field and have their receipts
Done(m, g) ==
    /\ g <= Len(events)
    /\ Programs(g) \subseteq field[m]
    /\ \A i \in 1..g : \E status \in {"accepted", "replayed"} :
            <<m, events[i], status>> \in receipts

\* A session has done what its memory counts, which is what its file says or
\* more; it works on the next bundle of the lineage, and acknowledges only
\* what its field holds and what has its receipt.
Knows(m) ==
    LET s == member[m] IN
    /\ s.pc # "closed" => saved[m] <= s.gen /\ Done(m, s.gen)
    /\ s.pc \notin {"closed", "idle"} =>
            s.upto <= Len(events) /\ s.at \in (s.gen + 1)..(s.upto + 1)
    /\ s.pc \in {"apply", "heldout", "record", "save"} =>
            s.at = s.gen + 1 /\ s.at <= s.upto
    /\ s.pc = "heldout" => events[s.at].cand \in field[m]
    /\ s.pc \in {"record", "save"} /\ s.status # "refused" =>
            events[s.at].cand \in field[m]
    /\ s.pc = "save" => <<m, events[s.at], s.status>> \in receipts

\* FieldFollowsLineage of one member
Follows(m) ==
    \E n \in saved[m]..Len(events) : field[m] = own[m] \cup Programs(n)

MemberInv(m) == Knows(m) /\ Follows(m) /\ Done(m, saved[m])

Inv ==
    /\ TypeOK /\ LineageDense /\ PublishedIsStored /\ LeadersStore
    /\ \A m \in Members : MemberInv(m)

\* A bundle of a lineage has its type and its predecessor.
LEMMA Events ==
    ASSUME TypeOK, LineageDense, NEW i \in 1..Len(events)
    PROVE  events[i] \in Bundles /\ events[i].cand \in Candidates
           /\ events[i].pred = i - 1
<1>1. events[i] \in Bundles
  BY DEF TypeOK
<1>2. events[i].pred = i - 1
  BY DEF LineageDense
<1> QED
  BY <1>1, <1>2 DEF Bundles

\* A listing is not over when its next bundle is to be applied.
LEMMA Turn ==
    ASSUME Inv, NEW m \in Members,
           member[m].pc \in {"apply", "heldout", "record", "save"}
    PROVE  /\ member[m].at \in 1..Len(events)
           /\ member[m].at = member[m].gen + 1
           /\ saved[m] <= member[m].gen
           /\ Done(m, member[m].gen)
           /\ Current(m) \in Bundles
           /\ Current(m).cand \in Candidates
           /\ Current(m).pred = member[m].gen
<1>1. Knows(m) /\ member[m] \in MemberType
  BY DEF Inv, MemberInv, TypeOK
<1>2. /\ member[m].at \in 1..Len(events)
      /\ member[m].at = member[m].gen + 1
      /\ saved[m] <= member[m].gen /\ Done(m, member[m].gen)
  <2>1. Len(events) \in Nat
    BY DEF Inv, TypeOK
  <2> QED
    BY <1>1, <2>1 DEF Knows, MemberType
<1>3. member[m].at - 1 = member[m].gen
  BY <1>1, <1>2 DEF MemberType
<1> QED
  BY <1>2, <1>3, Events DEF Inv, Current

\* A longer part of the lineage has the programs of a shorter one.
LEMMA Prefix ==
    ASSUME NEW i \in Nat, NEW j \in Nat, i <= j
    PROVE  Programs(i) \subseteq Programs(j)
BY DEF Programs

LEMMA OneMore ==
    ASSUME NEW i \in Nat
    PROVE  Programs(i + 1) = Programs(i) \cup {events[i + 1].cand}
<1>1. 1..(i + 1) = (1..i) \cup {i + 1}
  OBVIOUS
<1> QED
  BY <1>1 DEF Programs

-----------------------------------------------------------------------------
(* The initial states. *)

LEMMA Idles == IdleLeader \in LeaderType /\ Closed \in MemberType
               /\ NoBundle \in Bundles
<1>1. NoBundle \in Bundles
  BY DEF NoBundle, Bundles
<1> QED
  BY <1>1 DEF IdleLeader, LeaderType, Closed, MemberType, Statuses

LEMMA InitInv ==
    ASSUME Init
    PROVE  Inv
<1>1. TypeOK
  BY Idles DEF Init, TypeOK, Closed
<1>2. Len(events) = 0 /\ LineageDense /\ PublishedIsStored /\ LeadersStore
  BY DEF Init, LineageDense, PublishedIsStored, LeadersStore, IdleLeader
<1>3. ASSUME NEW m \in Members
      PROVE  MemberInv(m)
  <2>1. Knows(m)
    BY DEF Init, Knows, Closed
  <2>2. saved[m] = 0 /\ Programs(0) = {} /\ field[m] = own[m]
    BY DEF Init, Programs
  <2>3. 0 \in saved[m]..Len(events)
    BY <1>2, <2>2
  <2>4. Follows(m)
    BY <2>2, <2>3 DEF Follows
  <2>5. Done(m, saved[m])
    BY <1>2, <2>2 DEF Done
  <2> QED
    BY <2>1, <2>4, <2>5 DEF MemberInv
<1> QED
  BY <1>1, <1>2, <1>3 DEF Inv

-----------------------------------------------------------------------------
(* Evidence and leaders *)

\* What a member knows stays true while it and the lineage rest.
LEMMA Rest ==
    ASSUME Inv, UNCHANGED <<events, receipts, own, field, saved, member>>
    PROVE  \A m \in Members : MemberInv(m)'
BY DEF Inv, MemberInv, Knows, Follows, Done, Programs

LEMMA EvidenceKeeps ==
    ASSUME Inv,
           \/ \E c \in Candidates, s \in Scouts : Collect(c, s)
           \/ \E c \in Candidates, r \in Reviews : Review(c, r)
           \/ \E b \in files : Revoke(b)
    PROVE  Inv'
<1>1. /\ UNCHANGED <<events, receipts, own, field, saved, member>>
      /\ UNCHANGED <<files, index, generation, leader, assessed>>
  BY DEF Collect, Review, Revoke, store, fields, evidence
<1>2. /\ capsules' \in [Candidates -> SUBSET Scouts]
      /\ reviews' \in [Candidates -> SUBSET Reviews]
      /\ revoked' \subseteq Bundles
  <2>1. ASSUME NEW c \in Candidates, NEW s \in Scouts, Collect(c, s)
        PROVE  <1>2!:
    BY <2>1 DEF Inv, TypeOK, Collect, store
  <2>2. ASSUME NEW c \in Candidates, NEW r \in Reviews, Review(c, r)
        PROVE  <1>2!:
    BY <2>2 DEF Inv, TypeOK, Review, store
  <2>3. ASSUME NEW b \in files, Revoke(b)
        PROVE  <1>2!:
    BY <2>3 DEF Inv, TypeOK, Revoke, evidence
  <2> QED
    BY <2>1, <2>2, <2>3
<1>3. TypeOK'
  BY <1>1, <1>2 DEF Inv, TypeOK
<1>4. LineageDense' /\ PublishedIsStored' /\ LeadersStore'
  BY <1>1 DEF Inv, LineageDense, PublishedIsStored, LeadersStore
<1> QED
  BY <1>1, <1>3, <1>4, Rest DEF Inv

\* What a leader does short of publishing shows in its own pass and the store.
LEMMA LeaderKeeps ==
    ASSUME Inv, NEW l \in Leaders,
           \/ RunOnce(l) \/ Build(l) \/ PutObject(l) \/ IndexObject(l)
           \/ PassEnds(l)
           \/ \E c \in Candidates : Skip(l, c) \/ Select(l, c)
    PROVE  Inv'
<1> USE Idles DEF Inv, TypeOK
<1>1. /\ UNCHANGED <<events, receipts, own, field, saved, member>>
      /\ UNCHANGED <<capsules, reviews, generation, revoked, assessed>>
  BY DEF RunOnce, Build, PutObject, IndexObject, PassEnds, Skip, Select,
     store, fields, evidence
<1>2. leader[l] \in LeaderType /\ leader[l].bundle \in Bundles
  BY DEF LeaderType
<1>3. /\ leader' \in [Leaders -> LeaderType]
      /\ files' \subseteq Bundles /\ files \subseteq files'
      /\ index' \subseteq Bundles /\ index \subseteq index'
      /\ \A k \in Leaders \ {l} : leader'[k] = leader[k]
      /\ leader'[l].pc \in {"index", "publish"} => leader'[l].bundle \in files'
      /\ leader'[l].pc = "publish" => leader'[l].bundle \in index'
  <2>1. CASE RunOnce(l)
    BY <2>1 DEF RunOnce, LeaderType, IdleLeader, store
  <2>2. ASSUME NEW c \in Candidates, Skip(l, c)
        PROVE  <1>3!:
    BY <1>2, <2>2 DEF Skip, Dismiss, LeaderType, store
  <2>3. ASSUME NEW c \in Candidates, Select(l, c)
        PROVE  <1>3!:
    <3>1. [NoBundle EXCEPT !.cand = c, !.leader = l, !.reviews = reviews[c]]
            \in Bundles
      BY DEF Bundles
    <3> QED
      BY <1>2, <2>3, <3>1 DEF Select, LeaderType, store
  <2>4. CASE Build(l)
    <3>1. [leader[l].bundle EXCEPT
              !.sources = capsules[leader[l].bundle.cand],
              !.pred = generation] \in Bundles
      BY <1>2 DEF Bundles
    <3> QED
      BY <1>2, <2>4, <3>1 DEF Build, LeaderType, store
  <2>5. CASE PutObject(l)
    BY <1>2, <2>5 DEF PutObject, LeaderType
  <2>6. CASE IndexObject(l)
    BY <1>2, <2>6 DEF IndexObject, LeaderType, LeadersStore
  <2>7. CASE PassEnds(l)
    BY <2>7 DEF PassEnds, IdleLeader, store
  <2> QED
    BY <2>1, <2>2, <2>3, <2>4, <2>5, <2>6, <2>7
<1>4. TypeOK'
  BY <1>1, <1>3
<1>5. LineageDense' /\ PublishedIsStored' /\ LeadersStore'
  BY <1>1, <1>3 DEF LineageDense, PublishedIsStored, LeadersStore
<1> QED
  BY <1>1, <1>4, <1>5, Rest

\* A lineage with one bundle more still has what it had.
LEMMA Longer ==
    ASSUME Inv, NEW b \in Bundles, events' = Append(events, b)
    PROVE  /\ events' \in Seq(Bundles) /\ Len(events') = Len(events) + 1
           /\ events'[Len(events) + 1] = b
           /\ \A i \in 1..Len(events) : events'[i] = events[i]
           /\ \A g \in 0..Len(events) : Programs(g)' = Programs(g)
<1>1. events \in Seq(Bundles) /\ Len(events) \in Nat
  BY DEF Inv, TypeOK
<1>2. /\ events' \in Seq(Bundles) /\ Len(events') = Len(events) + 1
      /\ events'[Len(events) + 1] = b
      /\ \A i \in 1..Len(events) : events'[i] = events[i]
  BY <1>1
<1>3. ASSUME NEW g \in 0..Len(events)
      PROVE  Programs(g)' = Programs(g)
  <2>1. \A i \in 1..g : i \in 1..Len(events)
    BY <1>1
  <2> QED
    BY <1>2, <2>1 DEF Programs
<1> QED
  BY <1>2, <1>3

LEMMA PublishKeeps ==
    ASSUME Inv, NEW l \in Leaders, Publish(l)
    PROVE  Inv'
<1>1. /\ UNCHANGED <<receipts, own, field, saved, member>>
      /\ UNCHANGED <<capsules, reviews, files, index, revoked, assessed>>
  BY DEF Publish, evidence, fields
<1>2. leader[l] \in LeaderType /\ leader[l].bundle \in Bundles
  BY DEF Inv, TypeOK, LeaderType
<1>3. leader' \in [Leaders -> LeaderType] /\ LeadersStore'
  <2>1. /\ leader' \in [Leaders -> LeaderType]
        /\ leader'[l].pc = "scan"
        /\ \A k \in Leaders \ {l} : leader'[k] = leader[k]
    BY <1>2, Idles DEF Inv, TypeOK, Publish, Dismiss, LeaderType
  <2> QED
    BY <1>1, <2>1 DEF Inv, LeadersStore
<1>4. CASE UNCHANGED <<events, generation>>
  <2>1. TypeOK'
    BY <1>1, <1>3, <1>4 DEF Inv, TypeOK
  <2>2. LineageDense' /\ PublishedIsStored'
    BY <1>1, <1>4 DEF Inv, LineageDense, PublishedIsStored
  <2> QED
    BY <1>1, <1>3, <1>4, <2>1, <2>2, Rest DEF Inv
<1>5. CASE /\ MayPublish(l)
           /\ events' = Append(events, leader[l].bundle)
           /\ generation' = leader[l].bundle.pred + 1
  <2> DEFINE n == Len(events)
  <2>1. n \in Nat /\ leader[l].bundle.pred = n
    BY <1>5 DEF Inv, TypeOK, LineageDense, MayPublish
  <2>2. /\ events' \in Seq(Bundles) /\ Len(events') = n + 1
        /\ events'[n + 1] = leader[l].bundle
        /\ \A i \in 1..n : events'[i] = events[i]
    BY <1>2, <1>5, Longer
  <2>21. Len(events') = n + 1 /\ member' = member /\ saved' = saved
    BY <1>1, <2>2
  <2>3. TypeOK'
    <3>1. \A m \in Members : member[m].pc \notin {"closed", "idle"} =>
            /\ member'[m].upto <= Len(events')
            /\ member'[m].at \in (member'[m].gen + 1)..(member'[m].upto + 1)
      <4>1. \A m \in Members : member[m] \in MemberType
        BY DEF Inv, TypeOK
      <4>2. \A m \in Members : member[m].upto \in Nat
        BY <4>1 DEF MemberType
      <4>3. \A m \in Members : member[m].pc \notin {"closed", "idle"} =>
              /\ member[m].upto <= n
              /\ member[m].at \in (member[m].gen + 1)..(member[m].upto + 1)
        BY DEF Inv, TypeOK
      <4> QED
        BY <2>1, <2>21, <4>2, <4>3
    <3> QED
      BY <1>1, <1>3, <1>5, <2>1, <2>2, <3>1 DEF Inv, TypeOK
  <2>4. LineageDense'
    <3>1. \A i \in 1..(n + 1) : i \in 1..n \/ i = n + 1
      BY <2>1
    <3> QED
      BY <1>5, <2>1, <2>2, <3>1 DEF Inv, LineageDense
  <2>5. PublishedIsStored'
    <3>1. leader[l].bundle \in files \cap index
      BY DEF Inv, LeadersStore, Publish
    <3>2. \A i \in 1..(n + 1) : i \in 1..n \/ i = n + 1
      BY <2>1
    <3> QED
      BY <1>1, <2>2, <3>1, <3>2 DEF Inv, PublishedIsStored
  <2>6. ASSUME NEW m \in Members
        PROVE  MemberInv(m)'
    <3>1. /\ MemberInv(m) /\ member[m] \in MemberType
          /\ saved[m] \in 0..n /\ member[m].gen \in Nat
      BY <2>1 DEF Inv, TypeOK, MemberInv, Done, MemberType
    <3>2. /\ member'[m] = member[m] /\ saved'[m] = saved[m]
          /\ field'[m] = field[m] /\ own'[m] = own[m]
          /\ receipts' = receipts
      BY <1>1
    <3>3. ASSUME NEW g \in Nat, Done(m, g)
          PROVE  Done(m, g)'
      <4>1. g \in 0..n /\ g <= Len(events')
        BY <2>1, <2>2, <3>3 DEF Done
      <4>2. Programs(g)' = Programs(g)
        BY <1>2, <1>5, <4>1, Longer
      <4>3. \A i \in 1..g : events'[i] = events[i]
        BY <2>1, <2>2, <4>1
      <4> QED
        BY <3>2, <3>3, <4>1, <4>2, <4>3 DEF Done
    <3>4. Done(m, saved[m])'
      <4>1. Done(m, saved[m])
        BY <3>1 DEF MemberInv
      <4>2. \A g \in Nat : Done(m, g) => Done(m, g)'
        BY <3>3
      <4> QED
        BY <1>1, <3>1, <3>2, <4>1, <4>2 DEF Done, Programs
    <3>5. Knows(m)'
      <4>1. member[m].pc \in {"apply", "heldout", "record", "save"} =>
                events'[member[m].at] = events[member[m].at]
        BY <2>2, Turn
      <4>2. member[m].upto \in Nat
        BY <3>1 DEF MemberType
      <4>3. Knows(m)
        BY <3>1 DEF MemberInv
      <4>4. Done(m, member[m].gen) => Done(m, member[m].gen)'
        <5>1. \A g \in Nat : Done(m, g) => Done(m, g)'
          BY <3>3
        <5> QED
          BY <1>1, <3>1, <3>2, <5>1 DEF Done, Programs
      <4> QED
        BY <2>1, <2>21, <3>2, <4>1, <4>2, <4>3, <4>4 DEF Knows
    <3>6. Follows(m)'
      <4>1. PICK k \in saved[m]..n : field[m] = own[m] \cup Programs(k)
        BY <3>1 DEF MemberInv, Follows
      <4>2. k \in 0..n /\ k \in saved'[m]..Len(events')
        BY <2>1, <2>2, <3>1, <3>2, <4>1
      <4>3. Programs(k)' = Programs(k)
        BY <1>2, <1>5, <4>2, Longer
      <4> QED
        BY <3>2, <4>1, <4>2, <4>3 DEF Follows
    <3> QED
      BY <3>4, <3>5, <3>6 DEF MemberInv
  <2> QED
    BY <1>3, <2>3, <2>4, <2>5, <2>6 DEF Inv
<1> QED
  BY <1>4, <1>5 DEF Publish

-----------------------------------------------------------------------------
(* Members *)

\* A member's step touches its own field, files and session and may add to
\* the receipts; the rest of the hive does not see it.
LEMMA MemberKeeps ==
    ASSUME Inv, NEW m \in Members,
           UNCHANGED <<evidence, files, index, events, generation, revoked,
                       leader, own>>,
           receipts \subseteq receipts',
           receipts' \subseteq Members \X Bundles \X Statuses,
           field' \in [Members -> SUBSET Candidates],
           assessed' \in [Members -> SUBSET Candidates],
           saved' \in [Members -> Nat],
           member' \in [Members -> MemberType],
           \A n \in Members \ {m} :
                /\ field'[n] = field[n] /\ saved'[n] = saved[n]
                /\ member'[n] = member[n],
           MemberInv(m)'
    PROVE  Inv'
<1>1. LineageDense' /\ PublishedIsStored' /\ LeadersStore'
  BY DEF Inv, LineageDense, PublishedIsStored, LeadersStore
<1>2. ASSUME NEW n \in Members \ {m}
      PROVE  MemberInv(n)'
  <2>1. MemberInv(n)
    BY <1>2 DEF Inv
  <2>2. \A g : Done(n, g) => Done(n, g)'
    BY <1>2 DEF Done, Programs
  <2>3. Done(n, saved[n])' /\ (Done(n, member[n].gen) => Done(n, member[n].gen)')
    BY <1>2, <2>1, <2>2 DEF MemberInv, Done, Programs
  <2>4. Knows(n)'
    BY <1>2, <2>1, <2>3 DEF MemberInv, Knows
  <2>5. Follows(n)'
    BY <1>2, <2>1 DEF MemberInv, Follows, Programs
  <2> QED
    BY <2>3, <2>4, <2>5 DEF MemberInv
<1>3. \A n \in Members : MemberInv(n)'
  BY <1>2
<1>4. \A n \in Members : member'[n].pc \notin {"closed", "idle"} =>
        /\ member'[n].upto <= Len(events')
        /\ member'[n].at \in (member'[n].gen + 1)..(member'[n].upto + 1)
  BY <1>3 DEF MemberInv, Knows
<1>5. TypeOK'
  BY <1>4 DEF Inv, TypeOK, evidence
<1> QED
  BY <1>1, <1>3, <1>5 DEF Inv

\* When the field, the state file and the receipts rest, only what the
\* session knows can change.
LEMMA SessionKeeps ==
    ASSUME Inv, NEW m \in Members,
           UNCHANGED <<evidence, store, leader, own, field, saved>>,
           assessed' \in [Members -> SUBSET Candidates],
           member' \in [Members -> MemberType],
           \A n \in Members \ {m} : member'[n] = member[n],
           Knows(m)'
    PROVE  Inv'
<1>1. Follows(m)' /\ Done(m, saved[m])'
  BY DEF Inv, MemberInv, Follows, Done, Programs, store
<1>2. MemberInv(m)'
  BY <1>1 DEF MemberInv
<1>3. UNCHANGED <<files, index, events, generation, revoked, receipts>>
  BY DEF store
<1> QED
  BY <1>2, <1>3, MemberKeeps DEF Inv, TypeOK

\* The state of one session before its step.
LEMMA Session ==
    ASSUME Inv, NEW m \in Members
    PROVE  /\ member[m] \in MemberType /\ saved[m] \in Nat
           /\ member[m].gen \in Nat /\ member[m].at \in Nat
           /\ member[m].upto \in Nat /\ Len(events) \in Nat
           /\ Knows(m) /\ Follows(m) /\ Done(m, saved[m])
           /\ member \in [Members -> MemberType]
           /\ assessed \in [Members -> SUBSET Candidates]
<1>1. /\ member[m] \in MemberType /\ saved[m] \in Nat /\ Len(events) \in Nat
      /\ assessed \in [Members -> SUBSET Candidates]
      /\ member \in [Members -> MemberType] /\ MemberInv(m)
  BY DEF Inv, TypeOK
<1> QED
  BY <1>1 DEF MemberType, MemberInv

\* A session at rest is a session.
LEMMA Resting ==
    ASSUME Inv, NEW m \in Members, Rests(m)
    PROVE  /\ member' \in [Members -> MemberType]
           /\ \A n \in Members \ {m} : member'[n] = member[n]
           /\ member'[m].pc = "idle" /\ member'[m].gen = member[m].gen
<1>1. [member[m] EXCEPT !.pc = "idle", !.at = 0, !.upto = 0,
                        !.status = "refused"] \in MemberType
  BY Session DEF MemberType, Statuses
<1>2. /\ member \in [Members -> MemberType]
      /\ member' = [member EXCEPT ![m] =
              [member[m] EXCEPT !.pc = "idle", !.at = 0, !.upto = 0,
                                !.status = "refused"]]
  BY Session DEF Rests
<1> QED
  BY <1>1, <1>2, Session DEF MemberType

\* A session that comes to rest knows what it knew of its generation.
LEMMA RestKeeps ==
    ASSUME Inv, NEW m \in Members, member[m].pc # "closed", Rests(m),
           UNCHANGED <<evidence, store, leader, own, field, saved>>,
           assessed' \in [Members -> SUBSET Candidates]
    PROVE  Inv'
<1>1. member'[m].pc = "idle" /\ member'[m].gen = member[m].gen
  BY Resting
<1>2. saved[m] <= member[m].gen /\ Done(m, member[m].gen)
  BY Session DEF Knows
<1>3. Knows(m)'
  BY <1>1, <1>2 DEF Knows, Done, Programs, store
<1> QED
  BY <1>3, Resting, SessionKeeps

LEMMA OpenKeeps ==
    ASSUME Inv, NEW m \in Members, Open(m)
    PROVE  Inv'
<1>1. [Closed EXCEPT !.pc = "idle", !.gen = saved[m]] \in MemberType
  BY Idles, Session DEF MemberType
<1>2. /\ member' \in [Members -> MemberType]
      /\ \A n \in Members \ {m} : member'[n] = member[n]
      /\ member'[m].pc = "idle" /\ member'[m].gen = saved[m]
  BY <1>1, Session DEF Open, Closed
<1>3. /\ UNCHANGED <<evidence, store, leader, own, field, saved>>
      /\ assessed' = assessed
  BY DEF Open, fields
<1>4. saved[m] <= saved[m] /\ Done(m, saved[m])
  BY Session
<1>5. Knows(m)'
  BY <1>2, <1>3, <1>4 DEF Knows, Done, Programs, store
<1> QED
  BY <1>2, <1>3, <1>5, Session, SessionKeeps

LEMMA SyncKeeps ==
    ASSUME Inv, NEW m \in Members, Sync(m)
    PROVE  Inv'
<1>1. [member[m] EXCEPT !.pc = "check", !.at = member[m].gen + 1,
                        !.upto = Len(events)] \in MemberType
  <2>1. member[m].gen + 1 \in Nat
    BY Session
  <2> QED
    BY <2>1, Session DEF MemberType
<1>2. /\ member' \in [Members -> MemberType]
      /\ \A n \in Members \ {m} : member'[n] = member[n]
      /\ member'[m].pc = "check" /\ member'[m].gen = member[m].gen
      /\ member'[m].at = member[m].gen + 1
      /\ member'[m].upto = Len(events)
  BY <1>1, Session DEF Sync, MemberType
<1>3. /\ UNCHANGED <<evidence, store, leader, own, field, saved>>
      /\ assessed' = assessed /\ events' = events
  BY DEF Sync, fields, store
<1>4. /\ saved[m] <= member[m].gen /\ member[m].gen <= Len(events)
      /\ Done(m, member[m].gen)
  BY Session DEF Sync, Knows, Done
<1>5. member[m].gen + 1 \in (member[m].gen + 1)..(Len(events) + 1)
  BY <1>4, Session
<1>6. Knows(m)'
  BY <1>2, <1>3, <1>4, <1>5, Session DEF Knows, Done, Programs, store
<1> QED
  BY <1>2, <1>3, <1>6, Session, SessionKeeps

\* Only a bundle made for the member's generation is next, and the lineage
\* has just one of those.
LEMMA CheckKeeps ==
    ASSUME Inv, NEW m \in Members, Check(m)
    PROVE  Inv'
<1>1. /\ UNCHANGED <<evidence, store, leader, own, field, saved>>
      /\ assessed' = assessed /\ events' = events
  BY DEF Check, fields, store
<1>2. member[m].pc = "check"
      /\ saved[m] <= member[m].gen /\ Done(m, member[m].gen)
      /\ member[m].upto <= Len(events)
      /\ member[m].at \in (member[m].gen + 1)..(member[m].upto + 1)
  BY Session DEF Check, Knows
<1>3. CASE Rests(m)
  BY <1>1, <1>2, <1>3, Session, RestKeeps
<1>4. CASE ~SyncEnds(m) /\ member' = [member EXCEPT ![m].at = @ + 1]
  <2>1. member[m].at <= member[m].upto
    BY <1>4 DEF SyncEnds, Listed
  <2>2. [member[m] EXCEPT !.at = @ + 1] \in MemberType
    <3>1. member[m].at + 1 \in Nat
      BY Session
    <3> QED
      BY <3>1, Session DEF MemberType
  <2>3. /\ member' \in [Members -> MemberType]
        /\ \A n \in Members \ {m} : member'[n] = member[n]
        /\ member'[m].pc = "check" /\ member'[m].gen = member[m].gen
        /\ member'[m].at = member[m].at + 1
        /\ member'[m].upto = member[m].upto
    BY <1>2, <1>4, <2>2, Session DEF MemberType
  <2>4. member[m].at + 1 \in (member[m].gen + 1)..(member[m].upto + 1)
    BY <1>2, <2>1, Session
  <2>5. Knows(m)'
    BY <1>1, <1>2, <2>3, <2>4 DEF Knows, Done, Programs, store
  <2> QED
    BY <1>1, <2>3, <2>5, Session, SessionKeeps
<1>5. CASE /\ ~SyncEnds(m) /\ Current(m).cand \in Fits[m]
           /\ member' = [member EXCEPT ![m].pc = "apply"]
  <2>1. member[m].at <= member[m].upto /\ Current(m).pred = member[m].gen
    BY <1>5 DEF SyncEnds, Listed
  <2>2. member[m].at \in 1..Len(events)
    BY <1>2, <2>1, Session
  <2>3. member[m].at = member[m].gen + 1
    BY <2>1, <2>2, Session DEF Inv, LineageDense, Current
  <2>4. [member[m] EXCEPT !.pc = "apply"] \in MemberType
    BY Session DEF MemberType
  <2>5. /\ member' \in [Members -> MemberType]
        /\ \A n \in Members \ {m} : member'[n] = member[n]
        /\ member'[m].pc = "apply" /\ member'[m].gen = member[m].gen
        /\ member'[m].at = member[m].at
        /\ member'[m].upto = member[m].upto
    BY <1>5, <2>4, Session DEF MemberType
  <2>6. Knows(m)'
    BY <1>1, <1>2, <2>1, <2>3, <2>5, Session DEF Knows, Done, Programs, store
  <2> QED
    BY <1>1, <2>5, <2>6, Session, SessionKeeps
<1> QED
  BY <1>3, <1>4, <1>5 DEF Check

\* The session of m goes on at the same place of its listing.
Stays(m, pc, status) ==
    /\ member' \in [Members -> MemberType]
    /\ \A n \in Members \ {m} : member'[n] = member[n]
    /\ member'[m].pc = pc /\ member'[m].status = status
    /\ member'[m].gen = member[m].gen /\ member'[m].at = member[m].at
    /\ member'[m].upto = member[m].upto

LEMMA Staying ==
    ASSUME Inv, NEW m \in Members,
           NEW pc \in {"heldout", "record", "save"},
           NEW status \in Statuses,
           member' = [member EXCEPT ![m].pc = pc, ![m].status = status]
    PROVE  Stays(m, pc, status)
<1>1. [member[m] EXCEPT !.pc = pc, !.status = status] \in MemberType
  BY Session DEF MemberType
<1> QED
  BY <1>1, Session DEF MemberType, Stays

\* Where a session is while it adopts a bundle.
LEMMA Turned ==
    ASSUME Inv, NEW m \in Members,
           member[m].pc \in {"apply", "heldout", "record", "save"}
    PROVE  /\ saved[m] <= member[m].gen /\ Done(m, member[m].gen)
           /\ member[m].upto <= Len(events)
           /\ member[m].at = member[m].gen + 1
           /\ member[m].at <= member[m].upto
           /\ member[m].at \in (member[m].gen + 1)..(member[m].upto + 1)
BY Session DEF Knows

LEMMA ApplyKeeps ==
    ASSUME Inv, NEW m \in Members, Apply(m)
    PROVE  Inv'
<1> DEFINE c == Current(m).cand
<1>1. /\ UNCHANGED <<evidence, store, leader, own, assessed, saved>>
      /\ events' = events /\ receipts' = receipts
      /\ member[m].pc = "apply"
  BY DEF Apply, store
<1>2. /\ saved[m] <= member[m].gen /\ Done(m, member[m].gen)
      /\ member[m].upto <= Len(events)
      /\ member[m].at = member[m].gen + 1
      /\ member[m].at <= member[m].upto
      /\ member[m].at \in (member[m].gen + 1)..(member[m].upto + 1)
      /\ member[m].at \in 1..Len(events) /\ c \in Candidates
      /\ c = events[member[m].at].cand
  BY <1>1, Turn, Turned DEF Current
<1>3. ASSUME NEW status \in Statuses, Reports(m, status), UNCHANGED field,
             status # "refused" => c \in field[m]
      PROVE  Inv'
  <2>1. Stays(m, "record", status)
    BY <1>3, Staying DEF Reports
  <2>2. Knows(m)'
    BY <1>1, <1>2, <1>3, <2>1 DEF Knows, Stays, Done, Programs
  <2> QED
    BY <1>1, <1>3, <2>1, <2>2, Session, SessionKeeps DEF Stays
<1>4. ASSUME NEW pc \in {"heldout", "record"}, NEW status \in Statuses,
             Stays(m, pc, status), c \notin field[m],
             field' = [field EXCEPT ![m] = @ \cup {c}]
      PROVE  Inv'
  <2>1. /\ field' \in [Members -> SUBSET Candidates]
        /\ field'[m] = field[m] \cup {c}
        /\ \A n \in Members \ {m} : field'[n] = field[n]
    BY <1>2, <1>4 DEF Inv, TypeOK
  <2>2. Knows(m)'
    BY <1>1, <1>2, <1>4, <2>1 DEF Knows, Stays, Done, Programs
  <2>3. Follows(m)'
    <3>0. PICK g \in Nat : g = member[m].gen
      BY Session
    <3>1. g \in Nat /\ g + 1 \in saved[m]..Len(events) /\ c = events[g + 1].cand
      BY <1>2, <3>0, Session
    <3>2. PICK n \in saved[m]..Len(events) : field[m] = own[m] \cup Programs(n)
      BY Session DEF Follows
    <3>3. n \in Nat
      BY <3>2, Session
    <3>4. n <= g
      <4>1. CASE n > g
        <5>1. g + 1 \in 1..n
          BY <3>1, <3>3, <4>1
        <5>2. c \in Programs(n)
          BY <3>1, <5>1 DEF Programs
        <5> QED
          BY <1>4, <3>2, <5>2
      <4> QED
        BY <3>1, <3>3, <4>1
    <3>5. Programs(n) \subseteq Programs(g) /\ Programs(g) \subseteq field[m]
      BY <1>2, <3>0, <3>1, <3>3, <3>4, Prefix DEF Done
    <3>6. field[m] \cup {c} = own[m] \cup Programs(g + 1)
      BY <3>1, <3>2, <3>5, OneMore
    <3>7. Programs(g + 1)' = Programs(g + 1)
      BY <1>1 DEF Programs
    <3>8. /\ field'[m] = field[m] \cup {c} /\ own'[m] = own[m]
          /\ saved'[m] = saved[m] /\ Len(events') = Len(events)
      BY <1>1, <2>1
    <3> QED
      BY <3>1, <3>6, <3>7, <3>8 DEF Follows
  <2>4. Done(m, saved[m])'
    BY <1>1, <2>1, Session DEF Done, Programs
  <2>5. MemberInv(m)'
    BY <2>2, <2>3, <2>4 DEF MemberInv
  <2>6. UNCHANGED <<evidence, files, index, events, generation, revoked,
                    leader, own>>
    BY <1>1 DEF store
  <2> QED
    BY <1>1, <1>4, <2>1, <2>5, <2>6, MemberKeeps DEF Inv, TypeOK, Stays
<1>5. CASE Same(m, c) /\ Reports(m, "replayed") /\ UNCHANGED field
  BY <1>3, <1>5 DEF Same, Statuses
<1>6. CASE Reports(m, "refused") /\ UNCHANGED field
  BY <1>3, <1>6 DEF Statuses
<1>7. CASE /\ Reports(m, "accepted") /\ c \notin field[m]
           /\ field' = [field EXCEPT ![m] = @ \cup {c}]
  <2>1. Stays(m, "record", "accepted")
    BY <1>7, Staying DEF Reports, Statuses
  <2> QED
    BY <1>4, <1>7, <2>1 DEF Statuses
<1>8. CASE /\ member' = [member EXCEPT ![m].pc = "heldout"] /\ c \notin field[m]
           /\ field' = [field EXCEPT ![m] = @ \cup {c}]
  <2>1. member[m].status \in Statuses
    BY Session DEF MemberType
  <2>2. member' = [member EXCEPT ![m].pc = "heldout",
                                 ![m].status = member[m].status]
    BY <1>8, <2>1, Session DEF MemberType
  <2>3. Stays(m, "heldout", member[m].status)
    BY <2>1, <2>2, Staying
  <2> QED
    BY <1>4, <1>8, <2>1, <2>3
<1> QED
  BY <1>5, <1>6, <1>7, <1>8 DEF Apply

LEMMA AssessKeeps ==
    ASSUME Inv, NEW m \in Members, Assess(m)
    PROVE  Inv'
<1>1. /\ UNCHANGED <<evidence, store, leader, own, field, saved>>
      /\ events' = events /\ member[m].pc = "heldout"
  BY DEF Assess, store
<1>2. /\ saved[m] <= member[m].gen /\ Done(m, member[m].gen)
      /\ member[m].upto <= Len(events)
      /\ member[m].at = member[m].gen + 1
      /\ member[m].at <= member[m].upto
      /\ member[m].at \in (member[m].gen + 1)..(member[m].upto + 1)
      /\ Current(m).cand \in Candidates
      /\ events[member[m].at].cand \in field[m]
  BY <1>1, Turn, Turned, Session DEF Knows
<1>3. assessed' \in [Members -> SUBSET Candidates]
  BY <1>2, Session DEF Assess
<1>4. CASE Rests(m)
  BY <1>1, <1>3, <1>4, RestKeeps
<1>5. CASE Reports(m, "accepted")
  <2>1. Stays(m, "record", "accepted")
    BY <1>5, Staying DEF Reports, Statuses
  <2>2. Knows(m)'
    BY <1>1, <1>2, <2>1 DEF Knows, Stays, Done, Programs, store
  <2> QED
    BY <1>1, <1>3, <2>1, <2>2, SessionKeeps DEF Stays
<1> QED
  BY <1>4, <1>5 DEF Assess

LEMMA RecordKeeps ==
    ASSUME Inv, NEW m \in Members, Record(m)
    PROVE  Inv'
<1>1. /\ UNCHANGED <<evidence, files, index, events, generation, revoked,
                     leader, own>>
      /\ UNCHANGED <<field, assessed, saved>>
      /\ member[m].pc = "record"
  BY DEF Record, fields
<1>2. /\ saved[m] <= member[m].gen /\ Done(m, member[m].gen)
      /\ member[m].upto <= Len(events)
      /\ member[m].at = member[m].gen + 1
      /\ member[m].at <= member[m].upto
      /\ member[m].at \in (member[m].gen + 1)..(member[m].upto + 1)
      /\ Current(m) \in Bundles /\ member[m].status \in Statuses
      /\ member[m].status # "refused" =>
            events[member[m].at].cand \in field[m]
  BY <1>1, Turn, Turned, Session DEF Knows, MemberType
<1>3. /\ receipts' = receipts \cup {<<m, Current(m), member[m].status>>}
      /\ receipts' \subseteq Members \X Bundles \X Statuses
  BY <1>2 DEF Record, Inv, TypeOK
<1>4. Stays(m, "save", member[m].status)
  <2>1. member' = [member EXCEPT ![m].pc = "save",
                                 ![m].status = member[m].status]
    BY <1>2, Session DEF Record, MemberType
  <2> QED
    BY <1>2, <2>1, Staying
<1>5. Knows(m)'
  <2>1. receipts \subseteq receipts'
    BY <1>3
  <2> QED
    BY <1>1, <1>2, <1>3, <1>4, <2>1 DEF Knows, Stays, Current, Done, Programs
<1>6. Follows(m)'
  BY <1>1, Session DEF Follows, Programs
<1>7. Done(m, saved[m])'
  BY <1>1, <1>3, Session DEF Done, Programs
<1>8. MemberInv(m)'
  BY <1>5, <1>6, <1>7 DEF MemberInv
<1> QED
  BY <1>1, <1>3, <1>4, <1>8, MemberKeeps DEF Inv, TypeOK, Stays

\* A write of the state file that counts no more than has been done, and with
\* which the session rests, ends or goes on with its listing.
LEMMA WriteKeeps ==
    ASSUME Inv, NEW m \in Members, NEW g \in Nat, saved[m] <= g, Done(m, g),
           Writes(m, g),
           UNCHANGED <<evidence, store, leader, own, field, assessed>>,
           member' \in [Members -> MemberType],
           \A n \in Members \ {m} : member'[n] = member[n],
           member'[m].pc \in {"closed", "idle", "check"},
           member'[m].pc # "closed" => member'[m].gen = g,
           member'[m].pc = "check" =>
                /\ member'[m].upto <= Len(events)
                /\ member'[m].at \in (g + 1)..(member'[m].upto + 1)
    PROVE  Inv'
<1>1. /\ saved' \in [Members -> Nat] /\ saved'[m] = g
      /\ \A n \in Members \ {m} : saved'[n] = saved[n]
  BY DEF Inv, TypeOK, Writes
<1>2. /\ UNCHANGED <<files, index, events, generation, revoked, receipts>>
      /\ UNCHANGED <<own, field, assessed>>
  BY DEF store
<1>3. Programs(g)' = Programs(g) /\ g <= Len(events)
  BY <1>2 DEF Programs, Done
<1>4. Done(m, g)'
  BY <1>2, <1>3 DEF Done
<1>5. Done(m, saved[m])'
  BY <1>1, <1>2, <1>3 DEF Done, Programs
<1>6. Knows(m)'
  BY <1>1, <1>2, <1>3, <1>4 DEF Knows, Done, Programs
<1>7. Follows(m)'
  <2>1. PICK n \in saved[m]..Len(events) : field[m] = own[m] \cup Programs(n)
    BY Session DEF Follows
  <2>2. n \in Nat /\ Len(events) \in Nat
    BY <2>1, Session
  <2>3. Programs(n)' = Programs(n)
    BY <1>2 DEF Programs
  <2>4. CASE n >= g
    <3>1. n \in saved'[m]..Len(events')
      BY <1>1, <1>2, <2>1, <2>2, <2>4
    <3> QED
      BY <1>2, <2>1, <2>3, <3>1 DEF Follows
  <2>5. CASE n < g
    <3>1. Programs(n) \subseteq Programs(g)
      BY <2>2, <2>5, Prefix
    <3>2. field[m] = own[m] \cup Programs(g)
      BY <2>1, <3>1 DEF Done
    <3>3. g \in saved'[m]..Len(events')
      BY <1>1, <1>2, <1>3, <2>2
    <3> QED
      BY <1>2, <1>3, <3>2, <3>3 DEF Follows
  <2> QED
    BY <2>2, <2>4, <2>5
<1>8. MemberInv(m)'
  BY <1>5, <1>6, <1>7 DEF MemberInv
<1> QED
  BY <1>1, <1>2, <1>8, MemberKeeps DEF Inv, TypeOK

\* What a session that adopted its bundle has done counts one more.
LEMMA Adopted ==
    ASSUME Inv, NEW m \in Members, member[m].pc = "save",
           member[m].status # "refused"
    PROVE  /\ Current(m).pred + 1 = member[m].at
           /\ member[m].at = member[m].gen + 1
           /\ Done(m, member[m].at)
<1>0. PICK g \in Nat : g = member[m].gen
  BY Session
<1>1. /\ g \in Nat /\ member[m].at = g + 1 /\ g + 1 \in 1..Len(events)
      /\ Current(m).pred = g /\ Done(m, g) /\ Len(events) \in Nat
  BY <1>0, Turn, Session
<1>2. /\ events[g + 1].cand \in field[m]
      /\ <<m, events[g + 1], member[m].status>> \in receipts
      /\ member[m].status \in {"accepted", "replayed"}
  BY <1>1, Session DEF Knows, MemberType, Statuses
<1>3. Programs(g + 1) \subseteq field[m]
  BY <1>1, <1>2, OneMore DEF Done
<1>4. \A i \in 1..(g + 1) : i \in 1..g \/ i = g + 1
  BY <1>1
<1>5. \A i \in 1..(g + 1) : \E status \in {"accepted", "replayed"} :
            <<m, events[i], status>> \in receipts
  BY <1>1, <1>2, <1>4 DEF Done
<1>6. Done(m, g + 1)
  BY <1>1, <1>3, <1>5 DEF Done
<1> QED
  BY <1>0, <1>1, <1>6

LEMMA SaveKeeps ==
    ASSUME Inv, NEW m \in Members, Save(m)
    PROVE  Inv'
<1>1. /\ UNCHANGED <<evidence, store, leader, own, field, assessed>>
      /\ member[m].pc = "save"
  BY DEF Save
<1>2. /\ saved[m] <= member[m].gen /\ Done(m, member[m].gen)
      /\ member[m].upto <= Len(events)
      /\ member[m].at = member[m].gen + 1 /\ member[m].at <= member[m].upto
  BY <1>1, Turned
<1>3. CASE Writes(m, member[m].gen) /\ Rests(m)
  <2>1. /\ member' \in [Members -> MemberType]
        /\ \A n \in Members \ {m} : member'[n] = member[n]
        /\ member'[m].pc = "idle" /\ member'[m].gen = member[m].gen
    BY <1>3, Resting
  <2> QED
    BY <1>1, <1>2, <1>3, <2>1, Session, WriteKeeps
<1>4. CASE /\ member[m].status # "refused"
           /\ Writes(m, Current(m).pred + 1)
           /\ member' = [member EXCEPT ![m].pc = "check", ![m].at = @ + 1,
                                       ![m].gen = Current(m).pred + 1,
                                       ![m].status = "refused"]
  <2> DEFINE g == member[m].at
  <2>1. /\ g \in Nat /\ g + 1 \in Nat /\ saved[m] <= g
        /\ Current(m).pred + 1 = g /\ Done(m, g)
        /\ g + 1 \in (g + 1)..(member[m].upto + 1)
    BY <1>1, <1>2, <1>4, Adopted, Session
  <2>2. [member[m] EXCEPT !.pc = "check", !.at = g + 1, !.gen = g,
                          !.status = "refused"] \in MemberType
    BY <2>1, Session DEF MemberType, Statuses
  <2>3. /\ member' \in [Members -> MemberType]
        /\ \A n \in Members \ {m} : member'[n] = member[n]
        /\ member'[m].pc = "check" /\ member'[m].gen = g
        /\ member'[m].at = g + 1 /\ member'[m].upto = member[m].upto
    BY <1>4, <2>1, <2>2, Session DEF MemberType
  <2>4. Writes(m, g)
    BY <1>4, <2>1
  <2> HIDE DEF g
  <2> QED
    BY <1>1, <1>2, <2>1, <2>3, <2>4, WriteKeeps
<1> QED
  BY <1>3, <1>4 DEF Save

\* A session whose file could not be written goes on with what it has done.
LEMMA SaveFailsKeeps ==
    ASSUME Inv, NEW m \in Members, SaveFails(m)
    PROVE  Inv'
<1>1. /\ UNCHANGED <<evidence, store, leader, own, field, saved>>
      /\ assessed' = assessed /\ member[m].pc = "save"
  BY DEF SaveFails, fields
<1>2. CASE Rests(m)
  BY <1>1, <1>2, Session, RestKeeps
<1>3. CASE /\ member[m].status # "refused"
           /\ member' = [member EXCEPT ![m] =
                [Closed EXCEPT !.pc = "idle", !.gen = Current(m).pred + 1]]
  <2> DEFINE g == member[m].at
  <2>1. /\ g \in Nat /\ saved[m] <= g /\ Current(m).pred + 1 = g /\ Done(m, g)
    BY <1>1, <1>3, Turn, Adopted, Session
  <2>2. [Closed EXCEPT !.pc = "idle", !.gen = g] \in MemberType
    BY <2>1, Idles DEF MemberType
  <2>3. /\ member' \in [Members -> MemberType]
        /\ \A n \in Members \ {m} : member'[n] = member[n]
        /\ member'[m].pc = "idle" /\ member'[m].gen = g
    BY <1>3, <2>1, <2>2, Session DEF Closed
  <2> HIDE DEF g
  <2>4. Knows(m)'
    BY <1>1, <2>1, <2>3 DEF Knows, Done, Programs, store
  <2> QED
    BY <1>1, <2>3, <2>4, Session, SessionKeeps
<1> QED
  BY <1>2, <1>3 DEF SaveFails

\* Between its bundles, a session writes what it has done.
LEMMA RewriteKeeps ==
    ASSUME Inv, NEW m \in Members, Rewrite(m) \/ Close(m)
    PROVE  Inv'
<1>1. /\ UNCHANGED <<evidence, store, leader, own, field, assessed>>
      /\ Writes(m, member[m].gen) /\ member[m].pc = "idle"
  BY DEF Rewrite, Close
<1>2. saved[m] <= member[m].gen /\ Done(m, member[m].gen)
  BY <1>1, Session DEF Knows
<1>3. CASE Rewrite(m)
  <2>1. member' = member
    BY <1>3 DEF Rewrite
  <2> QED
    BY <1>1, <1>2, <2>1, Session, WriteKeeps
<1>4. CASE Close(m)
  <2>1. /\ member' \in [Members -> MemberType]
        /\ \A n \in Members \ {m} : member'[n] = member[n]
        /\ member'[m].pc = "closed"
    BY <1>4, Idles, Session DEF Close, Closed
  <2> QED
    BY <1>1, <1>2, <2>1, Session, WriteKeeps
<1> QED
  BY <1>3, <1>4

LEMMA LeaveKeeps ==
    ASSUME Inv, NEW m \in Members, Leave(m)
    PROVE  Inv'
<1>1. /\ UNCHANGED <<evidence, store, leader, own, field, saved>>
      /\ assessed' = assessed
  BY DEF Leave, fields
<1>2. /\ member' \in [Members -> MemberType]
      /\ \A n \in Members \ {m} : member'[n] = member[n]
      /\ member'[m].pc = "closed"
  BY Idles, Session DEF Leave, Closed
<1>3. Knows(m)'
  BY <1>2 DEF Knows
<1> QED
  BY <1>1, <1>2, <1>3, Session, SessionKeeps

LEMMA FollowKeeps ==
    ASSUME Inv, NEW m \in Members, Follow(m)
    PROVE  Inv'
<1>1. CASE RecordFails(m)
  <2>1. /\ UNCHANGED <<evidence, store, leader, own, field, saved>>
        /\ assessed' = assessed /\ member[m].pc = "record" /\ Rests(m)
    BY <1>1 DEF RecordFails, fields
  <2> QED
    BY <2>1, Session, RestKeeps
<1> QED
  BY <1>1, OpenKeeps, SyncKeeps, CheckKeeps, ApplyKeeps, AssessKeeps,
     RecordKeeps, SaveKeeps, SaveFailsKeeps, RewriteKeeps, LeaveKeeps
     DEF Follow

-----------------------------------------------------------------------------
(* The theorems *)

LEMMA NextInv ==
    ASSUME Inv, [Next]_vars
    PROVE  Inv'
<1>1. CASE UNCHANGED vars
  <2>1. UNCHANGED <<events, receipts, own, field, saved, member>>
    BY <1>1 DEF vars
  <2>2. TypeOK' /\ LineageDense' /\ PublishedIsStored' /\ LeadersStore'
    BY <1>1 DEF vars, Inv, TypeOK, LineageDense, PublishedIsStored,
       LeadersStore
  <2> QED
    BY <2>1, <2>2, Rest DEF Inv
<1>2. ASSUME NEW l \in Leaders, Lead(l)
      PROVE  Inv'
  BY <1>2, LeaderKeeps, PublishKeeps DEF Lead
<1> QED
  BY <1>1, <1>2, EvidenceKeeps, FollowKeeps DEF Next

THEOREM Invariant == Spec => []Inv
BY InitInv, NextInv, PTL DEF Spec

\* Every reachable state of the hive has its type.
THEOREM Types == Spec => []TypeOK
<1>1. Inv => TypeOK
  BY DEF Inv
<1> QED
  BY <1>1, Invariant, PTL

\* However many leaders race to publish and crash, the branch has one bundle
\* per generation, made for it.
THEOREM LineageIsDense == Spec => []LineageDense
<1>1. Inv => LineageDense
  BY DEF Inv
<1> QED
  BY <1>1, Invariant, PTL

\* No branch event points at a bundle a crash left out of the store.
THEOREM EventsAreStored == Spec => []PublishedIsStored
<1>1. Inv => PublishedIsStored
  BY DEF Inv
<1> QED
  BY <1>1, Invariant, PTL

\* Whatever crashes and failed writes of its state file it went through, a
\* member's field is its own programs and those of the lineage up to some
\* bundle, no less far than the file counts.
THEOREM FieldsFollow == Spec => []FieldFollowsLineage
<1>1. Inv => FieldFollowsLineage
  BY DEF Inv, MemberInv, Follows, FieldFollowsLineage
<1> QED
  BY <1>1, Invariant, PTL

\* Every adoption a member's state file counts has its receipt.
THEOREM AdoptionsHaveReceipts == Spec => []AdoptionsReceipted
<1>1. Inv => AdoptionsReceipted
  BY DEF Inv, MemberInv, Done, AdoptionsReceipted
<1> QED
  BY <1>1, Invariant, PTL

-----------------------------------------------------------------------------
(* The hive implements its contract. *)

LEMMA PublishExtends ==
    ASSUME Inv, NEW l \in Leaders, Publish(l)
    PROVE  [Contract!CNext]_(Contract!contractVars)
<1>1. field' = field /\ saved' = saved
  BY DEF Publish, fields
<1>2. CASE UNCHANGED <<events, generation>>
  BY <1>1, <1>2 DEF Contract!contractVars
<1>3. CASE MayPublish(l) /\ events' = Append(events, leader[l].bundle)
  <2> DEFINE b == leader[l].bundle
  <2>1. b \in Bundles /\ b.pred = Len(events)
    BY <1>3 DEF Inv, TypeOK, LeaderType, LineageDense, MayPublish
  <2>2. events \in Seq(Bundles)
    BY DEF Inv, TypeOK
  <2>3. /\ Len(events') = Len(events) + 1
        /\ events'[Len(events')] = b
        /\ SubSeq(events', 1, Len(events)) = events
    <3> HIDE DEF b
    <3> QED
      BY <1>3, <2>1, <2>2, AppendProperties, SubSeqProperties DEF b
  <2>4. Contract!Extend
    BY <1>1, <2>1, <2>3 DEF Contract!Extend, PredecessorOf
  <2> QED
    BY <2>4 DEF Contract!CNext
<1> QED
  BY <1>2, <1>3 DEF Publish

LEMMA ApplyTakes ==
    ASSUME Inv, NEW m \in Members, Apply(m)
    PROVE  [Contract!CNext]_(Contract!contractVars)
<1>1. events' = events /\ saved' = saved
  BY DEF Apply, store
<1>2. CASE UNCHANGED field
  BY <1>1, <1>2 DEF Contract!contractVars
<1>3. CASE field' = [field EXCEPT ![m] = @ \cup {Current(m).cand}]
  <2> DEFINE n == member[m].at
  <2>1. /\ n \in (saved[m] + 1)..Len(events) /\ n - 1 = member[m].gen
        /\ Programs(member[m].gen) \subseteq field[m]
    BY Turn, Session DEF Apply, Done
  <2>2. Contract!Holds(m, n - 1)
    BY <2>1 DEF Contract!Holds, Programs, ProgramOf
  <2>3. Contract!Take(m)
    BY <1>1, <1>3, <2>1, <2>2 DEF Contract!Take, ProgramOf, Current
  <2> QED
    BY <2>3 DEF Contract!CNext
<1> QED
  BY <1>2, <1>3 DEF Apply

LEMMA WriteAcknowledges ==
    ASSUME Inv, NEW m \in Members, NEW g \in Nat, saved[m] <= g, Done(m, g),
           Writes(m, g), UNCHANGED <<events, field>>
    PROVE  [Contract!CNext]_(Contract!contractVars)
<1>1. CASE g = saved[m]
  <2>1. saved' = saved
    BY <1>1 DEF Writes, Inv, TypeOK
  <2> QED
    BY <2>1 DEF Contract!contractVars
<1>2. CASE g # saved[m]
  <2>1. g \in (saved[m] + 1)..Len(events)
    BY <1>2, Session DEF Done
  <2>2. Contract!Holds(m, g)
    BY DEF Contract!Holds, Done, Programs, ProgramOf
  <2>3. Contract!Acknowledge(m)
    BY <2>1, <2>2 DEF Contract!Acknowledge, Writes
  <2> QED
    BY <2>3 DEF Contract!CNext
<1> QED
  BY <1>1, <1>2

LEMMA SaveAcknowledges ==
    ASSUME Inv, NEW m \in Members, Save(m) \/ Rewrite(m) \/ Close(m)
    PROVE  [Contract!CNext]_(Contract!contractVars)
<1>1. /\ events' = events /\ field' = field
      /\ member[m].pc \in {"save", "idle"}
  BY DEF Save, Rewrite, Close, store
<1>2. CASE Writes(m, member[m].gen)
  <2>1. saved[m] <= member[m].gen /\ Done(m, member[m].gen)
    BY <1>1, Session DEF Knows
  <2> QED
    BY <1>1, <1>2, <2>1, Session, WriteAcknowledges
<1>3. CASE /\ member[m].pc = "save" /\ member[m].status # "refused"
           /\ Writes(m, Current(m).pred + 1)
  <2>1. /\ Current(m).pred + 1 \in Nat /\ saved[m] <= Current(m).pred + 1
        /\ Done(m, Current(m).pred + 1)
    BY <1>3, Turn, Adopted, Session
  <2> QED
    BY <1>1, <1>3, <2>1, WriteAcknowledges
<1> QED
  BY <1>2, <1>3 DEF Save, Rewrite, Close

\* Whatever the leaders' races, the store's failures, the failed writes and
\* the crashes, what the hive does to the lineage, the fields and the state
\* files is a behaviour of the contract: one bundle at a time is published for
\* the generation it lands on, and taken by a field that holds all those
\* before it; a state file comes to count only bundles the field holds.
THEOREM HiveKeepsContract == Spec => KeepsContract
<1>1. Init => Contract!CInit
  BY DEF Init, Contract!CInit
<1>2. ASSUME Inv, [Next]_vars
      PROVE  [Contract!CNext]_(Contract!contractVars)
  <2>1. CASE UNCHANGED <<events, field, saved>>
    BY <2>1 DEF Contract!contractVars
  <2>2. ASSUME NEW c \in Candidates, NEW s \in Scouts, Collect(c, s)
        PROVE  UNCHANGED <<events, field, saved>>
    BY <2>2 DEF Collect, store, fields
  <2>3. ASSUME NEW c \in Candidates, NEW r \in Reviews, Review(c, r)
        PROVE  UNCHANGED <<events, field, saved>>
    BY <2>3 DEF Review, store, fields
  <2>4. ASSUME NEW b \in files, Revoke(b)
        PROVE  UNCHANGED <<events, field, saved>>
    BY <2>4 DEF Revoke, fields
  <2>5. ASSUME NEW l \in Leaders, Lead(l), ~Publish(l)
        PROVE  UNCHANGED <<events, field, saved>>
    BY <2>5 DEF Lead, RunOnce, Build, PutObject, IndexObject, PassEnds, Skip,
       Select, store, fields
  <2>6. ASSUME NEW m \in Members, Follow(m), ~Apply(m),
               ~(Save(m) \/ Rewrite(m) \/ Close(m))
        PROVE  UNCHANGED <<events, field, saved>>
    BY <2>6 DEF Follow, Open, Sync, Check, Assess, Record, RecordFails,
       SaveFails, Leave, store, fields
  <2>7. CASE UNCHANGED vars
    BY <2>7 DEF vars, Contract!contractVars
  <2> QED
    BY <1>2, <2>1, <2>2, <2>3, <2>4, <2>5, <2>6, <2>7, PublishExtends,
       ApplyTakes, SaveAcknowledges DEF Next
<1> QED
  BY <1>1, <1>2, Invariant, PTL
     DEF Spec, KeepsContract, Contract!CSpec

-----------------------------------------------------------------------------
(* A single leader repeats nothing. *)

\* s is in no published bundle of c
New(c, s) ==
    \A i \in 1..Len(events) : events[i].cand = c => s \notin events[i].sources

\* the groups a leader has still to look at have a capsule no bundle has, and
\* so does the bundle it is making of one of them
Wanted(l) ==
    LET b == leader[l].bundle IN
    /\ leader[l].pc = "idle" => leader[l].todo = {}
    /\ \A c \in leader[l].todo : \E s \in capsules[c] : New(c, s)
    /\ leader[l].pc \in {"build", "put", "index", "publish"} =>
            b.cand \in leader[l].todo
    /\ leader[l].pc \in {"put", "index", "publish"} =>
            \E s \in b.sources : New(b.cand, s)

NewInv == PromotedOnce /\ \A l \in Leaders : Wanted(l)

\* A group that is not all published has a capsule no bundle has.
LEMMA Unpublished ==
    ASSUME TypeOK, NEW c \in Candidates, ~AllPublished(c)
    PROVE  \E s \in capsules[c] : New(c, s)
<1>1. PICK s \in capsules[c] : <<c, s>> \notin PublishedSources
  BY DEF AllPublished
<1>2. ASSUME NEW i \in 1..Len(events), events[i].cand = c,
             s \in events[i].sources
      PROVE  FALSE
  <2>1. <<c, s>> \in {events[i].cand} \X events[i].sources
    BY <1>2
  <2> QED
    BY <1>1, <2>1 DEF PublishedSources
<1> QED
  BY <1>2 DEF New

\* Evidence and members take no capsule away and publish nothing.
LEMMA OthersWant ==
    ASSUME Inv, Inv', NewInv, UNCHANGED <<events, leader>>,
           \A c \in Candidates : capsules[c] \subseteq capsules'[c]
    PROVE  NewInv'
<1>1. PromotedOnce'
  BY DEF NewInv, PromotedOnce
<1>2. ASSUME NEW l \in Leaders
      PROVE  Wanted(l)'
  <2>1. leader[l].todo \subseteq Candidates
    BY DEF Inv, TypeOK, LeaderType
  <2> QED
    BY <2>1 DEF NewInv, Wanted, New
<1> QED
  BY <1>1, <1>2 DEF NewInv

\* A pass before its publication keeps to what no bundle has.
LEMMA LeaderWants ==
    ASSUME Inv, NewInv, NEW l \in Leaders,
           \/ RunOnce(l) \/ Build(l) \/ PutObject(l) \/ IndexObject(l)
           \/ PassEnds(l)
           \/ \E c \in Candidates : Skip(l, c) \/ Select(l, c)
    PROVE  NewInv'
<1>1. events' = events /\ capsules' = capsules
  BY DEF RunOnce, Build, PutObject, IndexObject, PassEnds, Skip, Select,
     store, evidence
<1>2. /\ TypeOK /\ leader \in [Leaders -> LeaderType]
      /\ leader[l] \in LeaderType /\ leader[l].bundle \in Bundles
      /\ leader[l].bundle.cand \in Candidates
      /\ leader[l].todo \subseteq Candidates
  BY DEF Inv, TypeOK, LeaderType, Bundles
<1>3. Wanted(l)
  BY DEF NewInv
<1>4. /\ \A k \in Leaders : k # l => leader'[k] = leader[k]
      /\ Wanted(l)'
  <2>1. CASE RunOnce(l)
    <3>1. /\ leader'[l].pc = "scan"
          /\ leader'[l].todo = {c \in Candidates : ~AllPublished(c)}
          /\ \A k \in Leaders : k # l => leader'[k] = leader[k]
      BY <1>2, <2>1 DEF RunOnce, IdleLeader
    <3> QED
      BY <1>1, <1>2, <3>1, Unpublished DEF Wanted, New
  <2>2. ASSUME NEW c \in Candidates, Skip(l, c)
        PROVE  <1>4!:
    <3>1. /\ leader'[l].pc = "scan"
          /\ leader'[l].todo = leader[l].todo \ {c}
          /\ \A k \in Leaders : k # l => leader'[k] = leader[k]
      BY <1>2, <2>2 DEF Skip, Dismiss, LeaderType
    <3> QED
      BY <1>1, <1>3, <3>1 DEF Wanted, New
  <2>3. ASSUME NEW c \in Candidates, Select(l, c)
        PROVE  <1>4!:
    <3>1. /\ leader'[l].pc = "build" /\ leader'[l].bundle.cand = c
          /\ leader'[l].todo = leader[l].todo /\ c \in leader[l].todo
          /\ \A k \in Leaders : k # l => leader'[k] = leader[k]
      BY <1>2, <2>3, Idles DEF Select, LeaderType, Bundles
    <3> QED
      BY <1>1, <1>3, <3>1 DEF Wanted, New
  <2>4. CASE Build(l)
    <3>1. /\ leader'[l].pc = "put"
          /\ leader'[l].bundle.cand = leader[l].bundle.cand
          /\ leader'[l].bundle.sources = capsules[leader[l].bundle.cand]
          /\ leader'[l].todo = leader[l].todo
          /\ \A k \in Leaders : k # l => leader'[k] = leader[k]
      BY <1>2, <2>4 DEF Build, LeaderType, Bundles
    <3>2. leader[l].bundle.cand \in leader[l].todo
      BY <1>3, <2>4 DEF Build, Wanted
    <3> QED
      BY <1>1, <1>3, <3>1, <3>2 DEF Wanted, New
  <2>5. CASE PutObject(l) \/ IndexObject(l)
    <3>1. /\ leader'[l].pc \in {"index", "publish"}
          /\ leader[l].pc \in {"put", "index"}
          /\ leader'[l].bundle = leader[l].bundle
          /\ leader'[l].todo = leader[l].todo
          /\ \A k \in Leaders : k # l => leader'[k] = leader[k]
      BY <1>2, <2>5 DEF PutObject, IndexObject, LeaderType
    <3> QED
      BY <1>1, <1>3, <3>1 DEF Wanted, New
  <2>6. CASE PassEnds(l)
    <3>1. /\ leader'[l].pc = "idle" /\ leader'[l].todo = {}
          /\ \A k \in Leaders : k # l => leader'[k] = leader[k]
      BY <1>2, <2>6 DEF PassEnds, IdleLeader
    <3> QED
      BY <3>1 DEF Wanted
  <2> QED
    BY <2>1, <2>2, <2>3, <2>4, <2>5, <2>6
<1>5. ASSUME NEW k \in Leaders
      PROVE  Wanted(k)'
  BY <1>1, <1>4, <1>5 DEF NewInv, Wanted, New
<1>6. PromotedOnce'
  BY <1>1 DEF NewInv, PromotedOnce
<1> QED
  BY <1>5, <1>6 DEF NewInv

\* What the only leader publishes is new, and leaves its other groups wanting.
LEMMA PublishWants ==
    ASSUME \A k, l \in Leaders : k = l,
           Inv, NewInv, NEW l \in Leaders, Publish(l)
    PROVE  NewInv'
<1> DEFINE b == leader[l].bundle
           n == Len(events)
<1>1. /\ leader \in [Leaders -> LeaderType] /\ leader[l] \in LeaderType
      /\ b \in Bundles /\ n \in Nat /\ capsules' = capsules
  BY DEF Inv, TypeOK, LeaderType, Publish, evidence
<1>2. /\ leader[l].pc = "publish" /\ leader'[l].pc = "scan"
      /\ leader'[l].todo = leader[l].todo \ {b.cand}
  BY <1>1 DEF Publish, Dismiss, LeaderType
<1>3. Wanted(l)
  BY DEF NewInv
<1>4. PICK s \in b.sources : New(b.cand, s)
  BY <1>2, <1>3 DEF Wanted
<1>5. CASE events' = events
  <2>1. Wanted(l)'
    BY <1>1, <1>2, <1>3, <1>5 DEF Wanted, New
  <2> QED
    BY <1>5, <2>1 DEF NewInv, PromotedOnce
<1>6. CASE events' = Append(events, b)
  <2>1. /\ Len(events') = n + 1 /\ events'[n + 1] = b
        /\ \A i \in 1..n : events'[i] = events[i]
    BY <1>1, <1>6, Longer
  <2>2. \A i \in 1..(n + 1) : i \in 1..n \/ i = n + 1
    BY <1>1
  <2>3. ASSUME NEW i \in 1..(n + 1), NEW j \in 1..(n + 1), i < j,
               events'[i].cand = events'[j].cand
        PROVE  ~(events'[j].sources \subseteq events'[i].sources)
    <3>1. i \in 1..n
      BY <1>1, <2>3
    <3>2. CASE j \in 1..n
      BY <2>1, <2>3, <3>1, <3>2 DEF NewInv, PromotedOnce
    <3>3. CASE j = n + 1
      <4>1. s \notin events[i].sources
        BY <1>4, <2>1, <2>3, <3>1, <3>3 DEF New
      <4> QED
        BY <1>4, <2>1, <3>1, <3>3, <4>1
    <3> QED
      BY <2>2, <3>2, <3>3
  <2>4. ASSUME NEW c \in leader[l].todo, c # b.cand
        PROVE  \E t \in capsules[c] : New(c, t)'
    <3>1. PICK t \in capsules[c] : New(c, t)
      BY <1>3 DEF Wanted
    <3>2. New(c, t)'
      BY <2>1, <2>2, <2>4, <3>1 DEF New
    <3> QED
      BY <3>2
  <2>5. Wanted(l)'
    BY <1>1, <1>2, <2>4 DEF Wanted
  <2>6. PromotedOnce'
    BY <2>1, <2>3 DEF PromotedOnce
  <2> QED
    BY <2>5, <2>6 DEF NewInv
<1> QED
  BY <1>5, <1>6 DEF Publish

\* "One idempotent leader-loop pass": whenever its leader crashes and however
\* often it runs, a hive with one leader publishes no bundle whose capsules an
\* earlier bundle of the candidate had.  Two leaders may: each reads what is
\* published before the other publishes.
THEOREM NothingPromotedTwice ==
    ASSUME \A k, l \in Leaders : k = l
    PROVE  Spec => []PromotedOnce
<1>1. Init => NewInv
  BY DEF Init, NewInv, PromotedOnce, Wanted, IdleLeader
<1>2. ASSUME Inv, NewInv, [Next]_vars
      PROVE  NewInv'
  <2>1. Inv'
    BY <1>2, NextInv
  <2>2. ASSUME UNCHANGED <<events, leader>>,
               \A c \in Candidates : capsules[c] \subseteq capsules'[c]
        PROVE  NewInv'
    BY <1>2, <2>1, <2>2, OthersWant
  <2>3. ASSUME NEW c \in Candidates, NEW s \in Scouts, Collect(c, s)
        PROVE  NewInv'
    BY <1>2, <2>2, <2>3 DEF Collect, store, Inv, TypeOK
  <2>4. CASE \/ \E c \in Candidates, r \in Reviews : Review(c, r)
             \/ \E x \in files : Revoke(x)
             \/ \E m \in Members : Follow(m)
             \/ UNCHANGED vars
    <3>1. UNCHANGED <<events, leader, capsules>>
      BY <2>4 DEF Review, Revoke, Follow, Open, Sync, Check, Apply, Assess,
         Record, RecordFails, Save, SaveFails, Rewrite, Close, Leave, store,
         evidence, vars
    <3> QED
      BY <2>2, <3>1
  <2>5. ASSUME NEW l \in Leaders, Lead(l)
        PROVE  NewInv'
    BY <1>2, <2>5, LeaderWants, PublishWants DEF Lead
  <2> QED
    BY <1>2, <2>3, <2>4, <2>5 DEF Next
<1>3. NewInv => PromotedOnce
  BY DEF NewInv
<1> QED
  BY <1>1, <1>2, <1>3, Invariant, PTL DEF Spec
=============================================================================
