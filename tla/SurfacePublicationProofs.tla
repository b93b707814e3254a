---------------------- MODULE SurfacePublicationProofs ----------------------
(***************************************************************************)
(* The invariants of SurfacePublication, for any sources, samples, bounds  *)
(* and failures.  What the broker retains of one source and what the field *)
(* keeps of it is related by Sound, which each operation of the field is   *)
(* shown to preserve on its own; the steps are then compositions of these  *)
(* operations.  What a step may do to a source's publications (Moves) then *)
(* gives the two action properties.                                        *)
(***************************************************************************)
EXTENDS SurfacePublication, FiniteSetTheorems, WellFoundedInduction, TLAPS

-----------------------------------------------------------------------------
(* The inductive invariant. *)

\* f: the field's part of a source; P: what the broker retains of it; I: what it forgot.
\* A retained generation and the field's record of it show the same frame: without that a
\* replayed admission that is given back could take another publication's pin.
Sound(f, P, I) ==
    /\ \A r \in f.records : r.gen \in 1..f.counter /\ r.pins \in {0, 1}
    /\ f.current \in {0, f.counter}
    /\ \A r, q \in f.records : r.gen = q.gen => r = q
    /\ \A p \in P : p.gen \in 1..f.counter
    /\ \A p, q \in P : p.gen = q.gen => p = q
    /\ \A p \in P, r \in f.records : p.gen = r.gen => p.seq = r.seq
    /\ \A p \in P : p.status = "published" => Pinned(f, p.gen)
    /\ \A r \in f.records : r.gen \notin I =>
          /\ r.pins > 0 => \E p \in P : p.gen = r.gen
          /\ r.pins = 0 => r.gen = f.current

\* n: the boundary, which is never ahead of the field: what is answered as new is new.
Fresh(f, P, n) == n <= f.counter /\ \A p \in P : p.gen > n => p.fresh

Inv == \A b \in Bindings : /\ Sound(field[b], publications[b], ignored[b])
                           /\ Fresh(field[b], publications[b], required[b])

-----------------------------------------------------------------------------
(* The field's operations. *)

LEMMA ReleasedType ==
    ASSUME NEW f \in FieldType, NEW G
    PROVE  Released(f, G) \in FieldType
  BY DEF Released, FieldType, Record

LEMMA InvalidatedType ==
    ASSUME NEW f \in FieldType
    PROVE  Invalidated(f) \in FieldType
  BY DEF Invalidated, FieldType

LEMMA AdvancedType ==
    ASSUME NEW f \in FieldType, NEW s \in Nat
    PROVE  Advanced(f, s) \in FieldType
<1>1. f.counter \in Nat /\ f.records \in SUBSET Record
  BY DEF FieldType
<1>2. [gen |-> f.counter + 1, seq |-> s, structure |-> FALSE, pins |-> 1] \in Record
  BY <1>1 DEF Record
<1>3. {r \in f.records : r.pins > 0 \/ r.gen # f.current}
      \cup {[gen |-> f.counter + 1, seq |-> s, structure |-> FALSE, pins |-> 1]}
      \in SUBSET Record
  BY <1>1, <1>2
<1>4. f.counter + 1 \in Nat
  BY <1>1
<1> QED BY <1>3, <1>4 DEF Advanced, FieldType

LEMMA StructuredType ==
    ASSUME NEW f \in FieldType, NEW g
    PROVE  Structured(f, g) \in FieldType
<1>1. \A r \in Record : [r EXCEPT !.structure = TRUE] \in Record
  BY DEF Record
<1>2. {IF r.gen = g THEN [r EXCEPT !.structure = TRUE] ELSE r : r \in f.records}
      \in SUBSET Record
  BY <1>1 DEF FieldType
<1> QED BY <1>2 DEF Structured, FieldType

\* Some of what is retained is released.
LEMMA ReleasedSound ==
    ASSUME NEW f \in FieldType, NEW P \in SUBSET Publication, NEW I, Sound(f, P, I),
           NEW E \in SUBSET P
    PROVE  Sound(Released(f, {p.gen : p \in E}), P \ E, I)
<1> DEFINE G == {p.gen : p \in E}
           h == Released(f, G)
<1>1. h.current = f.current /\ h.counter = f.counter
  BY DEF Released, FieldType
<1>2. \A q \in h.records : \E r \in f.records :
          /\ r.gen = q.gen /\ r.seq = q.seq
          /\ ~(r.gen \in G /\ r.pins = 1 /\ r.gen # f.current)
          /\ q = IF r.gen \in G /\ r.pins > 0 THEN [r EXCEPT !.pins = @ - 1] ELSE r
          /\ q.pins = IF r.gen \in G /\ r.pins > 0 THEN r.pins - 1 ELSE r.pins
  BY DEF Released, FieldType, Record
<1>3. \A r \in f.records : r.gen \notin G => r \in h.records
  BY DEF Released, FieldType
<1>4. \A p \in P \ E : p.gen \notin G
  BY DEF Sound
<1>5. \A q \in h.records : q.gen \in 1..h.counter /\ q.pins \in {0, 1}
  BY <1>1, <1>2 DEF Sound
<1>6. \A q, t \in h.records : q.gen = t.gen => q = t
  BY <1>2 DEF Sound
<1>7. \A p \in P \ E, q \in h.records : p.gen = q.gen => p.seq = q.seq
  BY <1>2 DEF Sound
<1>8. \A p \in P \ E : p.status = "published" => Pinned(h, p.gen)
  BY <1>3, <1>4 DEF Sound, Pinned
<1>9. \A q \in h.records : q.gen \notin I =>
          /\ q.pins > 0 => \E p \in P \ E : p.gen = q.gen
          /\ q.pins = 0 => q.gen = h.current
  <2> SUFFICES ASSUME NEW q \in h.records, q.gen \notin I
               PROVE  /\ q.pins > 0 => \E p \in P \ E : p.gen = q.gen
                      /\ q.pins = 0 => q.gen = h.current
    OBVIOUS
  <2>1. PICK r \in f.records :
          /\ r.gen = q.gen
          /\ ~(r.gen \in G /\ r.pins = 1 /\ r.gen # f.current)
          /\ q.pins = IF r.gen \in G /\ r.pins > 0 THEN r.pins - 1 ELSE r.pins
    BY <1>2
  <2>2. r.pins \in {0, 1} /\ (r.pins > 0 => \E p \in P : p.gen = r.gen)
        /\ (r.pins = 0 => r.gen = f.current)
    BY <2>1 DEF Sound
  <2> QED BY <1>1, <2>1, <2>2
<1>10. /\ h.current \in {0, h.counter}
       /\ \A p \in P \ E : p.gen \in 1..h.counter
       /\ \A p, q \in P \ E : p.gen = q.gen => p = q
  BY <1>1 DEF Sound
<1> HIDE DEF h
<1>11. Sound(h, P \ E, I)
  BY <1>5, <1>6, <1>7, <1>8, <1>9, <1>10 DEF Sound
<1> QED BY <1>11 DEF h

\* What is retained is forgotten.
LEMMA ForgottenSound ==
    ASSUME NEW f, NEW P, NEW I, Sound(f, P, I)
    PROVE  Sound(f, {}, I \cup {p.gen : p \in P})
  BY DEF Sound

LEMMA InvalidatedSound ==
    ASSUME NEW f \in FieldType, NEW P \in SUBSET Publication, NEW I, Sound(f, P, I)
    PROVE  Sound(Invalidated(f), P, I)
<1> DEFINE h == Invalidated(f)
<1>1. h.current = 0 /\ h.counter = f.counter
      /\ h.records = {r \in f.records : ~(r.gen = f.current /\ r.pins = 0)}
  BY DEF Invalidated, FieldType
<1>2. /\ \A r \in h.records : r.gen \in 1..h.counter /\ r.pins \in {0, 1}
      /\ h.current \in {0, h.counter}
      /\ \A r, q \in h.records : r.gen = q.gen => r = q
      /\ \A p \in P : p.gen \in 1..h.counter
      /\ \A p, q \in P : p.gen = q.gen => p = q
      /\ \A p \in P, r \in h.records : p.gen = r.gen => p.seq = r.seq
  BY <1>1 DEF Sound
<1>3. \A p \in P : p.status = "published" => Pinned(h, p.gen)
  BY <1>1 DEF Sound, Pinned, FieldType, Record
<1>4. \A r \in h.records : r.gen \notin I =>
          /\ r.pins > 0 => \E p \in P : p.gen = r.gen
          /\ r.pins = 0 => r.gen = h.current
  BY <1>1 DEF Sound
<1> HIDE DEF h
<1>5. Sound(h, P, I)
  BY <1>2, <1>3, <1>4 DEF Sound
<1> QED BY <1>5 DEF h

\* More may be forgotten.
LEMMA MoreForgotten ==
    ASSUME NEW f, NEW P, NEW I, NEW J, Sound(f, P, I)
    PROVE  Sound(f, P, I \cup J)
  BY DEF Sound

LEMMA StructuredSound ==
    ASSUME NEW f \in FieldType, NEW P \in SUBSET Publication, NEW I, Sound(f, P, I), NEW g
    PROVE  Sound(Structured(f, g), P, I)
<1> DEFINE h == Structured(f, g)
<1>1. h.current = f.current /\ h.counter = f.counter
  BY DEF Structured, FieldType
<1>2. \A q \in h.records : \E r \in f.records :
          /\ q = IF r.gen = g THEN [r EXCEPT !.structure = TRUE] ELSE r
          /\ r.gen = q.gen /\ r.seq = q.seq /\ r.pins = q.pins
  BY DEF Structured, FieldType, Record
<1>3. \A r \in f.records : \E q \in h.records : r.gen = q.gen /\ r.pins = q.pins
  <2> TAKE r \in f.records
  <2> DEFINE q == IF r.gen = g THEN [r EXCEPT !.structure = TRUE] ELSE r
  <2>1. q \in h.records
    BY DEF Structured, FieldType
  <2>2. r.gen = q.gen /\ r.pins = q.pins
    BY DEF FieldType, Record
  <2> QED BY <2>1, <2>2
<1> HIDE DEF h
<1>4. /\ \A r \in h.records : r.gen \in 1..h.counter /\ r.pins \in {0, 1}
      /\ h.current \in {0, h.counter}
      /\ \A p \in P : p.gen \in 1..h.counter
      /\ \A p, q \in P : p.gen = q.gen => p = q
  BY <1>1, <1>2 DEF Sound
<1>5. \A r, q \in h.records : r.gen = q.gen => r = q
  <2> SUFFICES ASSUME NEW r \in h.records, NEW q \in h.records, r.gen = q.gen
               PROVE  r = q
    OBVIOUS
  <2>1. PICK r0 \in f.records :
          /\ r = IF r0.gen = g THEN [r0 EXCEPT !.structure = TRUE] ELSE r0
          /\ r0.gen = r.gen
    BY <1>2
  <2>2. PICK q0 \in f.records :
          /\ q = IF q0.gen = g THEN [q0 EXCEPT !.structure = TRUE] ELSE q0
          /\ q0.gen = q.gen
    BY <1>2
  <2>3. r0 = q0
    BY <2>1, <2>2 DEF Sound
  <2> QED BY <2>1, <2>2, <2>3
<1>6. \A p \in P, r \in h.records : p.gen = r.gen => p.seq = r.seq
  BY <1>2 DEF Sound
<1>7. \A p \in P : p.status = "published" => Pinned(h, p.gen)
  BY <1>3 DEF Sound, Pinned
<1>8. \A r \in h.records : r.gen \notin I =>
          /\ r.pins > 0 => \E p \in P : p.gen = r.gen
          /\ r.pins = 0 => r.gen = h.current
  BY <1>1, <1>2 DEF Sound
<1>9. Sound(h, P, I)
  BY <1>4, <1>5, <1>6, <1>7, <1>8 DEF Sound
<1> QED BY <1>9 DEF h

LEMMA StructuredFresh ==
    ASSUME NEW f \in FieldType, NEW P, NEW n, Fresh(f, P, n), NEW g
    PROVE  Fresh(Structured(f, g), P, n)
  BY DEF Structured, FieldType, Fresh

\* A new generation is retained.
LEMMA AdvancedSound ==
    ASSUME NEW f \in FieldType, NEW P \in SUBSET Publication, NEW I, Sound(f, P, I),
           NEW s \in Nat, NEW n \in Publication, n.gen = f.counter + 1, n.seq = s
    PROVE  Sound(Advanced(f, s), P \cup {n}, I)
<1> DEFINE h == Advanced(f, s)
           new == [gen |-> f.counter + 1, seq |-> s, structure |-> FALSE, pins |-> 1]
<1>1. /\ f.counter \in Nat
      /\ h.current = f.counter + 1 /\ h.counter = f.counter + 1
      /\ h.records = {r \in f.records : r.pins > 0 \/ r.gen # f.current} \cup {new}
      /\ \A r \in f.records : r.gen \in Nat /\ r.pins \in Nat
      /\ \A p \in P : p.gen \in Nat
  BY DEF Advanced, FieldType, Record, Publication
<1>2. new.gen = f.counter + 1 /\ new.seq = s /\ new.pins = 1
  OBVIOUS
<1> HIDE DEF h, new
<1>3. /\ \A r \in h.records : r.gen \in 1..h.counter /\ r.pins \in {0, 1}
      /\ h.current \in {0, h.counter}
      /\ \A p \in P \cup {n} : p.gen \in 1..h.counter
  BY <1>1, <1>2 DEF Sound
<1>4. \A r, q \in h.records : r.gen = q.gen => r = q
  BY <1>1, <1>2 DEF Sound
<1>5. \A p, q \in P \cup {n} : p.gen = q.gen => p = q
  BY <1>1 DEF Sound
<1>6. \A p \in P \cup {n}, r \in h.records : p.gen = r.gen => p.seq = r.seq
  BY <1>1, <1>2 DEF Sound
<1>7. \A p \in P \cup {n} : p.status = "published" => Pinned(h, p.gen)
  BY <1>1, <1>2 DEF Sound, Pinned
<1>8. \A r \in h.records : r.gen \notin I =>
          /\ r.pins > 0 => \E p \in P \cup {n} : p.gen = r.gen
          /\ r.pins = 0 => r.gen = h.current
  BY <1>1, <1>2 DEF Sound
<1>9. Sound(h, P \cup {n}, I)
  BY <1>3, <1>4, <1>5, <1>6, <1>7, <1>8 DEF Sound
<1> QED BY <1>9 DEF h

\* A new generation is given back: it stays as the baseline.
LEMMA AdvancedReturned ==
    ASSUME NEW f \in FieldType, NEW P \in SUBSET Publication, NEW I, Sound(f, P, I),
           NEW s \in Nat
    PROVE  /\ Sound(Released(Advanced(f, s), {f.counter + 1}), P, I)
           /\ Sound(Advanced(f, s), P, I \cup {f.counter + 1})
<1> DEFINE n == [gen |-> f.counter + 1, seq |-> s, scope |-> "pixels",
                 status |-> "replayed", fresh |-> TRUE]
           h == Advanced(f, s)
<1>1. f.counter \in Nat
  BY DEF FieldType
<1>2. n \in Publication /\ n.gen = f.counter + 1 /\ n.seq = s
  BY <1>1 DEF Publication, Scopes
<1>3. n \notin P
  BY <1>1, <1>2 DEF Sound, Publication
<1> HIDE DEF n
<1>4. h \in FieldType /\ Sound(h, P \cup {n}, I)
  BY <1>2, AdvancedType, AdvancedSound
<1> HIDE DEF h
<1>5. Sound(Released(h, {p.gen : p \in {n}}), (P \cup {n}) \ {n}, I)
  <2>1. P \cup {n} \in SUBSET Publication /\ {n} \in SUBSET (P \cup {n})
    BY <1>2
  <2> QED BY <1>4, <2>1, ReleasedSound
<1>6. {p.gen : p \in {n}} = {f.counter + 1} /\ (P \cup {n}) \ {n} = P
  BY <1>2, <1>3
<1>7. Sound(h, P, I \cup {f.counter + 1})
  BY <1>2, <1>4 DEF Sound
<1> QED BY <1>5, <1>6, <1>7 DEF h

\* The baseline is retained again, and what the broker knew of it replaced.
LEMMA ReplayedSound ==
    ASSUME NEW f \in FieldType, NEW P \in SUBSET Publication, NEW I, Sound(f, P, I),
           NEW r \in f.records, r.gen = f.current,
           NEW n \in Publication, n.gen = f.current, n.seq = r.seq, n.status = "replayed"
    PROVE  Sound(f, {p \in P : p.gen # f.current} \cup {n}, I)
<1> DEFINE Q == {p \in P : p.gen # f.current} \cup {n}
<1>1. /\ \A p \in Q : p.gen \in 1..f.counter
      /\ \A p, q \in Q : p.gen = q.gen => p = q
      /\ \A p \in Q : p.status = "published" => Pinned(f, p.gen)
  BY DEF Sound
<1>2. \A p \in Q, q \in f.records : p.gen = q.gen => p.seq = q.seq
  BY DEF Sound
<1>3. \A q \in f.records : q.gen \notin I =>
          /\ q.pins > 0 => \E p \in Q : p.gen = q.gen
          /\ q.pins = 0 => q.gen = f.current
  BY DEF Sound
<1> HIDE DEF Q
<1>4. Sound(f, Q, I)
  BY <1>1, <1>2, <1>3 DEF Sound
<1> QED BY <1>4 DEF Q

\* The baseline is given back, which takes no pin of what is retained: the broker would
\* have known the frame.
LEMMA ReplayedReturned ==
    ASSUME NEW f \in FieldType, NEW P \in SUBSET Publication, NEW I, Sound(f, P, I),
           NEW r \in f.records, r.gen = f.current,
           \A p \in P : p.gen = f.current => p.seq # r.seq
    PROVE  Sound(Released(f, {f.current}), P, I)
<1> DEFINE n == [gen |-> f.current, seq |-> r.seq, scope |-> "pixels",
                 status |-> "replayed", fresh |-> TRUE]
<1>1. n \in Publication /\ n.gen = f.current /\ n.seq = r.seq /\ n.status = "replayed"
  BY DEF Publication, Scopes, FieldType, Record
<1>2. \A p \in P : p.gen # f.current
  BY DEF Sound
<1> HIDE DEF n
<1>3. Sound(f, {p \in P : p.gen # f.current} \cup {n}, I)
  BY <1>1, ReplayedSound
<1>4. {p \in P : p.gen # f.current} \cup {n} = P \cup {n} /\ n \notin P
  BY <1>1, <1>2
<1>5. Sound(Released(f, {p.gen : p \in {n}}), (P \cup {n}) \ {n}, I)
  <2>1. P \cup {n} \in SUBSET Publication /\ {n} \in SUBSET (P \cup {n})
    BY <1>1
  <2> QED BY <1>3, <1>4, <2>1, ReleasedSound
<1>6. {p.gen : p \in {n}} = {f.current} /\ (P \cup {n}) \ {n} = P
  BY <1>1, <1>4
<1> QED BY <1>5, <1>6

-----------------------------------------------------------------------------
(* The broker's operations: each keeps what the broker and the field hold.  *)

StoreOK ==
    /\ required \in [Bindings -> Nat]
    /\ lastSequence \in [Bindings -> Nat]
    /\ publications \in [Bindings -> SUBSET Publication]
    /\ samples \in SUBSET Sample
    /\ field \in [Bindings -> FieldType]
    /\ ignored \in [Bindings -> SUBSET Nat]

LEMMA StoreType == TypeOK => StoreOK
  BY DEF TypeOK, StoreOK

\* A step changes one binding.
Becomes(b, h, Q, J, n) ==
    /\ field' = [field EXCEPT ![b] = h] /\ publications' = [publications EXCEPT ![b] = Q]
    /\ ignored' = [ignored EXCEPT ![b] = J] /\ required' = [required EXCEPT ![b] = n]

LEMMA OneBinding ==
    ASSUME StoreOK, Inv, NEW b \in Bindings, NEW h, NEW Q, NEW J, NEW n,
           Becomes(b, h, Q, J, n), Sound(h, Q, J), Fresh(h, Q, n)
    PROVE  Inv'
<1> SUFFICES ASSUME NEW c \in Bindings
             PROVE  Sound(field'[c], publications'[c], ignored'[c])
                    /\ Fresh(field'[c], publications'[c], required'[c])
  BY DEF Inv, Sound, Fresh, Pinned
<1>1. CASE c = b
  BY <1>1 DEF StoreOK, Becomes
<1>2. CASE c # b
  <2>1. /\ field'[c] = field[c] /\ publications'[c] = publications[c]
        /\ ignored'[c] = ignored[c] /\ required'[c] = required[c]
    BY <1>2 DEF StoreOK, Becomes
  <2>2. Sound(field[c], publications[c], ignored[c]) /\ Fresh(field[c], publications[c], required[c])
    BY DEF Inv
  <2> QED BY <2>1, <2>2
<1> QED BY <1>1, <1>2

\* Room is made.
LEMMA SparedSound ==
    ASSUME StoreOK, Inv, NEW b \in Bindings
    PROVE  /\ Spared(b) \in FieldType /\ Kept(b) \in SUBSET Publication
           /\ Sound(Spared(b), Kept(b), ignored[b])
           /\ Fresh(Spared(b), Kept(b), required[b])
<1>1. /\ field[b] \in FieldType /\ publications[b] \in SUBSET Publication
      /\ Sound(field[b], publications[b], ignored[b]) /\ Fresh(field[b], publications[b], required[b])
  BY DEF StoreOK, Inv
<1>2. Evicted(b) \in SUBSET publications[b]
  BY DEF Evicted, Oldest
<1>3. Spared(b) \in FieldType /\ Sound(Spared(b), Kept(b), ignored[b])
  BY <1>1, <1>2, ReleasedType, ReleasedSound DEF Spared, Kept
<1>4. Spared(b).counter = field[b].counter
  BY <1>1 DEF Spared, Released, FieldType
<1> QED BY <1>1, <1>3, <1>4 DEF Kept, Fresh

\* What the field may answer.
LEMMA Answers ==
    ASSUME NEW b \in Bindings, NEW f \in FieldType, NEW s \in Nat, NEW a, a = Admitted(b, f, s)
    PROVE  /\ a.field \in FieldType /\ a.gen \in Nat
           /\ \/ /\ a.status = "replayed" /\ a.field = f /\ a.gen = f.current
                 /\ \E r \in f.records : r.gen = f.current /\ r.seq = s
              \/ a.status = "refused" /\ a.field = Invalidated(f)
              \/ a.status = "wait" /\ a.field = f
              \/ a.status = "published" /\ a.gen = f.counter + 1 /\ a.field = Advanced(f, s)
<1>1. f.current \in Nat /\ f.counter \in Nat
  BY DEF FieldType
<1>2. Invalidated(f) \in FieldType /\ Advanced(f, s) \in FieldType
  BY InvalidatedType, AdvancedType
<1>3. CASE \E r \in Baseline(f) : r.seq = s /\ ~r.structure
  <2>1. a = [status |-> "replayed", gen |-> f.current, field |-> f]
    BY <1>3 DEF Admitted
  <2> QED BY <1>1, <1>3, <2>1 DEF Baseline
<1>4. CASE /\ ~\E r \in Baseline(f) : r.seq = s /\ ~r.structure
           /\ \E r \in Baseline(f) : r.seq >= s
  <2>1. a = [status |-> "refused", gen |-> 0, field |-> Invalidated(f)]
    BY <1>4 DEF Admitted
  <2> QED BY <1>2, <2>1
<1>5. CASE /\ ~\E r \in Baseline(f) : r.seq = s /\ ~r.structure
           /\ ~\E r \in Baseline(f) : r.seq >= s
  <2>1. \/ a = [status |-> "wait", gen |-> 0, field |-> f]
        \/ a = [status |-> "published", gen |-> f.counter + 1, field |-> Advanced(f, s)]
    BY <1>5 DEF Admitted
  <2> QED BY <1>1, <1>2, <2>1
<1> QED BY <1>3, <1>4, <1>5

LEMMA RefusesStep ==
    ASSUME StoreOK, Inv, NEW b \in Bindings, NEW s \in Nat, FieldRefuses(b, s)
    PROVE  StoreOK' /\ Inv'
<1> DEFINE a == Answer(b, s)
<1>1. /\ Spared(b) \in FieldType /\ Kept(b) \in SUBSET Publication
      /\ Sound(Spared(b), Kept(b), ignored[b]) /\ Fresh(Spared(b), Kept(b), required[b])
  BY SparedSound
<1>2. a = Admitted(b, Spared(b), s)
  BY DEF Answer
<1>3. /\ a.status \in {"refused", "wait"}
      /\ publications' = [publications EXCEPT ![b] = Kept(b)]
      /\ field' = [field EXCEPT ![b] = a.field]
      /\ UNCHANGED <<required, lastSequence, samples, ignored>>
  BY DEF FieldRefuses
<1> HIDE DEF a
<1>4. a.field \in FieldType /\ (a.field = Spared(b) \/ a.field = Invalidated(Spared(b)))
  BY <1>1, <1>2, <1>3, Answers
<1>5. Sound(a.field, Kept(b), ignored[b]) /\ Fresh(a.field, Kept(b), required[b])
  BY <1>1, <1>4, InvalidatedSound DEF Fresh, Invalidated, FieldType
<1>6. StoreOK'
  BY <1>1, <1>3, <1>4 DEF StoreOK
<1>7. Becomes(b, a.field, Kept(b), ignored[b], required[b])
  BY <1>3 DEF StoreOK, Becomes
<1>8. Inv'
  BY <1>5, <1>7, OneBinding
<1> QED BY <1>6, <1>8

\* Before room was made, the broker would have known the frame of the field's baseline.
LEMMA BaselineKnown ==
    ASSUME StoreOK, Inv, NEW b \in Bindings, NEW s \in Nat, ~Repeats(b, s),
           NEW p \in Kept(b), p.gen = Spared(b).current
    PROVE  p.seq # s
<1>1. Spared(b).current = field[b].current
  BY DEF Spared, Released, StoreOK, FieldType
<1>2. /\ Sound(field[b], publications[b], ignored[b]) /\ publications[b] \in SUBSET Publication
      /\ field[b].counter \in Nat
  BY DEF Inv, StoreOK, FieldType
<1>3. p \in publications[b] /\ p.gen \in 1..field[b].counter
  BY <1>2 DEF Kept, Sound
<1>4. p.gen = field[b].counter
  BY <1>1, <1>2, <1>3 DEF Sound
<1>5. \A q \in publications[b] : q.gen <= p.gen
  BY <1>2, <1>4 DEF Sound
<1>6. p \in Latest(b)
  BY <1>3, <1>5 DEF Latest, Gens
<1> QED BY <1>6 DEF Repeats

LEMMA GivesBackStep ==
    ASSUME StoreOK, Inv, NEW b \in Bindings, NEW s \in Nat, MayAnswer(b, s), GivesBack(b, s)
    PROVE  StoreOK' /\ Inv'
<1> DEFINE a == Answer(b, s)
<1>1. /\ Spared(b) \in FieldType /\ Kept(b) \in SUBSET Publication
      /\ Sound(Spared(b), Kept(b), ignored[b]) /\ Fresh(Spared(b), Kept(b), required[b])
  BY SparedSound
<1>2. a = Admitted(b, Spared(b), s)
  BY DEF Answer
<1>3. /\ a.status \in {"published", "replayed"}
      /\ publications' = [publications EXCEPT ![b] = Kept(b)]
      /\ \/ field' = [field EXCEPT ![b] = Released(a.field, {a.gen})] /\ ignored' = ignored
         \/ /\ field' = [field EXCEPT ![b] = a.field]
            /\ ignored' = [ignored EXCEPT ![b] = @ \cup {a.gen}]
      /\ UNCHANGED <<required, lastSequence, samples>>
  BY DEF MayAnswer, GivesBack
<1> HIDE DEF a
<1>4. /\ a.field \in FieldType /\ a.gen \in Nat
      /\ \/ /\ a.field = Spared(b) /\ a.gen = Spared(b).current
            /\ \E r \in Spared(b).records : r.gen = Spared(b).current /\ r.seq = s
         \/ a.gen = Spared(b).counter + 1 /\ a.field = Advanced(Spared(b), s)
  BY <1>1, <1>2, <1>3, Answers
<1>5. /\ Sound(Released(a.field, {a.gen}), Kept(b), ignored[b])
      /\ Sound(a.field, Kept(b), ignored[b] \cup {a.gen})
      /\ Fresh(Released(a.field, {a.gen}), Kept(b), required[b])
      /\ Fresh(a.field, Kept(b), required[b])
  <2> DEFINE h == Released(a.field, {a.gen})
  <2>3. /\ a.field.counter \in {Spared(b).counter, Spared(b).counter + 1}
        /\ Spared(b).counter \in Nat /\ required[b] \in Nat
    BY <1>1, <1>4 DEF Advanced, FieldType, StoreOK
  <2>4. h.counter = a.field.counter
    BY <1>4 DEF Released, FieldType
  <2> HIDE DEF h
  <2>5. Fresh(h, Kept(b), required[b]) /\ Fresh(a.field, Kept(b), required[b])
    BY <1>1, <2>3, <2>4 DEF Fresh
  <2> USE DEF h
  <2>1. CASE /\ a.field = Spared(b) /\ a.gen = Spared(b).current
             /\ \E r \in Spared(b).records : r.gen = Spared(b).current /\ r.seq = s
    <3>1. PICK r \in Spared(b).records : r.gen = Spared(b).current /\ r.seq = s
      BY <2>1
    <3>2. \A p \in Kept(b) : p.gen = Spared(b).current => p.seq # r.seq
      BY <3>1, BaselineKnown DEF MayAnswer
    <3> QED BY <1>1, <2>1, <2>5, <3>1, <3>2, ReplayedReturned, MoreForgotten
  <2>2. CASE a.gen = Spared(b).counter + 1 /\ a.field = Advanced(Spared(b), s)
    BY <1>1, <2>2, <2>5, AdvancedReturned
  <2> QED BY <1>4, <2>1, <2>2
<1>6. Released(a.field, {a.gen}) \in FieldType
  BY <1>4, ReleasedType
<1>7. StoreOK'
  BY <1>1, <1>3, <1>4, <1>6 DEF StoreOK
<1>9. CASE field' = [field EXCEPT ![b] = Released(a.field, {a.gen})] /\ ignored' = ignored
  <2>1. Becomes(b, Released(a.field, {a.gen}), Kept(b), ignored[b], required[b])
    BY <1>3, <1>9 DEF StoreOK, Becomes
  <2> QED BY <1>5, <1>7, <2>1, OneBinding
<1>10. CASE /\ field' = [field EXCEPT ![b] = a.field]
            /\ ignored' = [ignored EXCEPT ![b] = @ \cup {a.gen}]
  <2>1. Becomes(b, a.field, Kept(b), ignored[b] \cup {a.gen}, required[b])
    BY <1>3, <1>10 DEF StoreOK, Becomes
  <2> QED BY <1>5, <1>7, <2>1, OneBinding
<1> QED BY <1>3, <1>7, <1>9, <1>10

\* An answer from before a boundary is the baseline, and the broker does not retain it.
LEMMA OutdatedStep ==
    ASSUME StoreOK, Inv, NEW b \in Bindings, NEW s \in Nat, NEW scope \in Scopes,
           Outdated(b, s, scope)
    PROVE  StoreOK' /\ Inv'
<1> DEFINE a == Answer(b, s)
           h == Stored(b, s, scope)
           G == {a.gen} \ {p.gen : p \in Kept(b)}
<1>1. /\ Spared(b) \in FieldType /\ Kept(b) \in SUBSET Publication
      /\ Sound(Spared(b), Kept(b), ignored[b]) /\ Fresh(Spared(b), Kept(b), required[b])
  BY SparedSound
<1>2. a = Admitted(b, Spared(b), s)
  BY DEF Answer
<1>3. /\ a.status \in {"published", "replayed"} /\ a.gen <= required[b] /\ ~Repeats(b, s)
      /\ publications' = [publications EXCEPT ![b] = Kept(b)]
      /\ \/ field' = [field EXCEPT ![b] = Released(h, G)]
         \/ field' = [field EXCEPT ![b] = h]
      /\ UNCHANGED <<required, lastSequence, samples, ignored>>
  BY DEF MayAnswer, Outdated
<1>4. h = IF scope = "both" THEN Structured(a.field, a.gen) ELSE a.field
  BY DEF Stored
<1> HIDE DEF a, h
<1>5. Spared(b).counter \in Nat /\ required[b] \in Nat /\ required[b] <= Spared(b).counter
  BY <1>1 DEF FieldType, StoreOK, Fresh
<1>6. /\ a.field = Spared(b) /\ a.gen = Spared(b).current
      /\ \E r \in Spared(b).records : r.gen = Spared(b).current /\ r.seq = s
  BY <1>1, <1>2, <1>3, <1>5, Answers
<1>7. /\ h \in FieldType /\ Sound(h, Kept(b), ignored[b]) /\ Fresh(h, Kept(b), required[b])
      /\ h.current = a.gen
  <2>1. CASE scope = "both"
    <3>1. h = Structured(Spared(b), a.gen)
      BY <1>4, <1>6, <2>1
    <3>2. h.current = a.gen
      BY <1>1, <1>6, <3>1 DEF Structured, FieldType
    <3> QED BY <1>1, <3>1, <3>2, StructuredType, StructuredSound, StructuredFresh
  <2>2. CASE scope # "both"
    BY <1>1, <1>4, <1>6, <2>2
  <2> QED BY <2>1, <2>2
<1>8. PICK r \in h.records : r.gen = h.current /\ r.seq = s
  <2>1. PICK q \in Spared(b).records : q.gen = Spared(b).current /\ q.seq = s
    BY <1>6
  <2>2. CASE scope = "both"
    <3> DEFINE r == IF q.gen = a.gen THEN [q EXCEPT !.structure = TRUE] ELSE q
    <3>1. r \in h.records
      BY <1>1, <1>4, <1>6, <2>2 DEF Structured, FieldType
    <3>2. r.gen = q.gen /\ r.seq = q.seq
      BY <1>1 DEF FieldType, Record
    <3> QED BY <1>6, <1>7, <2>1, <3>1, <3>2
  <2>3. CASE scope # "both"
    BY <1>4, <1>6, <2>1, <2>3
  <2> QED BY <2>2, <2>3
<1>9. \A p \in Kept(b) : p.gen # h.current
  <2>1. \A p \in Kept(b) : p.gen = h.current => p.seq # s
    BY <1>3, <1>6, <1>7, BaselineKnown
  <2> QED BY <1>7, <1>8, <2>1 DEF Sound
<1>10. G = {h.current}
  BY <1>7, <1>9
<1> HIDE DEF G
<1>11. /\ Released(h, G) \in FieldType /\ Sound(Released(h, G), Kept(b), ignored[b])
       /\ Fresh(Released(h, G), Kept(b), required[b])
  <2>1. Released(h, G) \in FieldType
    BY <1>7, ReleasedType
  <2>2. Sound(Released(h, G), Kept(b), ignored[b])
    BY <1>1, <1>7, <1>8, <1>9, <1>10, ReplayedReturned
  <2>3. Released(h, G).counter = h.counter
    BY <1>7 DEF Released, FieldType
  <2> QED BY <1>7, <2>1, <2>2, <2>3 DEF Fresh
<1>12. StoreOK'
  BY <1>1, <1>3, <1>7, <1>11 DEF StoreOK
<1>13. \/ Becomes(b, Released(h, G), Kept(b), ignored[b], required[b])
       \/ Becomes(b, h, Kept(b), ignored[b], required[b])
  BY <1>3 DEF StoreOK, Becomes
<1> QED BY <1>7, <1>11, <1>12, <1>13, OneBinding

LEMMA RetainsStep ==
    ASSUME StoreOK, Inv, NEW b \in Bindings, NEW s \in Nat, NEW scope \in Scopes,
           NEW fresh \in BOOLEAN, MayAnswer(b, s), Retains(b, s, scope, fresh),
           NEW n \in Nat, required' = [required EXCEPT ![b] = n], required[b] <= n,
           n = required[b] \/ n = Answer(b, s).gen, Answer(b, s).gen > n => fresh,
           samples' \in SUBSET Sample
    PROVE  StoreOK' /\ Inv'
<1> DEFINE a == Answer(b, s)
           new == [gen |-> a.gen, seq |-> s, scope |-> scope, status |-> a.status,
                   fresh |-> fresh]
           Q == {p \in Kept(b) : p.gen # a.gen} \cup {new}
           h == Stored(b, s, scope)
<1>1. /\ Spared(b) \in FieldType /\ Kept(b) \in SUBSET Publication
      /\ Sound(Spared(b), Kept(b), ignored[b]) /\ Fresh(Spared(b), Kept(b), required[b])
  BY SparedSound
<1>2. a = Admitted(b, Spared(b), s)
  BY DEF Answer
<1>3. /\ a.status \in {"published", "replayed"}
      /\ publications' = [publications EXCEPT ![b] = Q]
      /\ field' = [field EXCEPT ![b] = h]
      /\ lastSequence' = [lastSequence EXCEPT ![b] = IF s > @ THEN s ELSE @]
      /\ UNCHANGED ignored
  BY DEF MayAnswer, Retains
<1>4. /\ a.gen > n => fresh
      /\ n = required[b] \/ n = a.gen
      /\ h = IF scope = "both" THEN Structured(a.field, a.gen) ELSE a.field
  BY DEF Stored
<1> HIDE DEF a, h
<1>5. /\ a.field \in FieldType /\ a.gen \in Nat
      /\ \/ /\ a.status = "replayed" /\ a.field = Spared(b) /\ a.gen = Spared(b).current
            /\ \E r \in Spared(b).records : r.gen = Spared(b).current /\ r.seq = s
         \/ /\ a.status = "published" /\ a.gen = Spared(b).counter + 1
            /\ a.field = Advanced(Spared(b), s)
  BY <1>1, <1>2, <1>3, Answers
<1>6. new \in Publication /\ new.gen = a.gen /\ new.seq = s /\ new.status = a.status
      /\ new.fresh = fresh
  BY <1>3, <1>5 DEF Publication
<1> HIDE DEF new
<1>7. Sound(a.field, Q, ignored[b])
  <2>1. CASE /\ a.status = "replayed" /\ a.field = Spared(b) /\ a.gen = Spared(b).current
             /\ \E r \in Spared(b).records : r.gen = Spared(b).current /\ r.seq = s
    <3>1. PICK r \in Spared(b).records : r.gen = Spared(b).current /\ r.seq = s
      BY <2>1
    <3> QED BY <1>1, <1>6, <2>1, <3>1, ReplayedSound
  <2>2. CASE /\ a.status = "published" /\ a.gen = Spared(b).counter + 1
             /\ a.field = Advanced(Spared(b), s)
    <3>1. Spared(b).counter \in Nat
      BY <1>1 DEF FieldType
    <3>2. Q = Kept(b) \cup {new}
      BY <1>1, <2>2, <3>1 DEF Sound
    <3> QED BY <1>1, <1>6, <2>2, <3>2, AdvancedSound
  <2> QED BY <1>5, <2>1, <2>2
<1>8. Q \in SUBSET Publication
  BY <1>1, <1>6
<1>9. Fresh(a.field, Q, n)
  <2>1. required[b] \in Nat /\ \A p \in Kept(b) : p.gen \in Nat
    BY <1>1 DEF StoreOK, Publication
  <2>2. required[b] <= a.field.counter /\ a.gen <= a.field.counter
    <3>1. Spared(b).counter \in Nat /\ required[b] <= Spared(b).counter
      BY <1>1 DEF FieldType, Fresh
    <3>2. CASE a.field = Spared(b) /\ a.gen = Spared(b).current
      BY <1>1, <3>1, <3>2 DEF Sound
    <3>3. CASE a.gen = Spared(b).counter + 1 /\ a.field = Advanced(Spared(b), s)
      BY <2>1, <3>1, <3>3 DEF Advanced
    <3> QED BY <1>5, <3>2, <3>3
  <2>3. \A p \in Q : p.gen > n => p.fresh
    BY <1>1, <1>4, <1>6, <2>1 DEF Fresh
  <2> QED BY <1>4, <2>2, <2>3 DEF Fresh
<1> HIDE DEF Q
<1>10. h \in FieldType /\ Sound(h, Q, ignored[b]) /\ Fresh(h, Q, n)
  BY <1>4, <1>5, <1>7, <1>8, <1>9, StructuredType, StructuredSound, StructuredFresh
<1>11. StoreOK'
  BY <1>3, <1>8, <1>10 DEF StoreOK
<1>12. Becomes(b, h, Q, ignored[b], n)
  BY <1>3 DEF StoreOK, Becomes
<1> QED BY <1>10, <1>11, <1>12, OneBinding

-----------------------------------------------------------------------------
(* The steps. *)

\* Nothing that Inv speaks of changes.
LEMMA StoreUnchanged ==
    ASSUME Inv, UNCHANGED <<field, publications, ignored, required>>
    PROVE  Inv'
  BY DEF Inv, Sound, Fresh, Pinned

LEMMA CaptureStep ==
    ASSUME TypeOK, Inv, NEW b \in Bindings, NEW scope \in Scopes,
           Capture(b, scope) \/ CaptureFails(b, scope)
    PROVE  TypeOK' /\ Inv'
<1>1. StoreOK /\ frame[b] \in Nat
  BY StoreType DEF TypeOK
<1>2. StoreOK' /\ Inv'
  <2>1. CASE Capture(b, scope)
    <3> DEFINE fresh == TRUE
    <3>1. required[b] \in Nat /\ required' = [required EXCEPT ![b] = required[b]]
          /\ samples' \in SUBSET Sample /\ required[b] <= required[b]
      BY <1>1, <2>1 DEF Capture, StoreOK
    <3>2. MayAnswer(b, frame[b]) /\ Retains(b, frame[b], scope, fresh)
      BY <2>1 DEF Capture
    <3>3. fresh \in BOOLEAN /\ (Answer(b, frame[b]).gen > required[b] => fresh)
      OBVIOUS
    <3> HIDE DEF fresh
    <3> QED BY <1>1, <3>1, <3>2, <3>3, RetainsStep
  <2>2. CASE CaptureFails(b, scope)
    <3>1. \/ FieldRefuses(b, frame[b])
          \/ MayAnswer(b, frame[b]) /\ GivesBack(b, frame[b])
          \/ Outdated(b, frame[b], scope)
      BY <2>2 DEF CaptureFails, StructureFails
    <3> QED BY <1>1, <3>1, RefusesStep, GivesBackStep, OutdatedStep
  <2> QED BY <2>1, <2>2
<1>3. frame' = frame /\ state' = state /\ closed' = closed
      /\ waiting' = [waiting EXCEPT ![b] = FALSE]
  BY DEF Capture, CaptureFails, CaptureReturns
<1> QED BY <1>2, <1>3 DEF TypeOK, StoreOK

LEMMA AdmitStep ==
    ASSUME TypeOK, Inv, NEW x \in samples, Admit(x) \/ AdmitFails(x)
    PROVE  TypeOK' /\ Inv'
<1> DEFINE b == x.binding
           g == Answer(b, x.seq).gen
           n == IF TooOld(x, g) /\ g > required[b] THEN g ELSE required[b]
<1>1. /\ StoreOK /\ x.binding \in Bindings /\ x.seq \in Nat /\ x.scope \in Scopes
      /\ x.old \in BOOLEAN
  BY StoreType DEF TypeOK, Sample
<1>2. StoreOK' /\ Inv'
  <2>1. CASE Admit(x)
    <3>1. /\ MayAnswer(b, x.seq) /\ Retains(b, x.seq, x.scope, ~x.old)
          /\ required' = [required EXCEPT ![b] = n] /\ samples' = samples \ {x}
      BY <2>1 DEF Admit
    <3>2. Spared(b) \in FieldType
      BY <1>1, SparedSound
    <3>3. required[b] \in Nat /\ g \in Nat
      BY <1>1, <3>2, Answers DEF StoreOK, Answer
    <3>4. n \in Nat /\ (n = required[b] \/ n = g) /\ required[b] <= n /\ (g > n => ~x.old)
      BY <1>1, <3>3 DEF TooOld
    <3>5. samples' \in SUBSET Sample
      BY <1>1, <3>1 DEF StoreOK
    <3> HIDE DEF n
    <3> QED BY <1>1, <3>1, <3>4, <3>5, RetainsStep
  <2>2. CASE AdmitFails(x)
    <3>1. \/ FieldRefuses(b, x.seq)
          \/ MayAnswer(b, x.seq) /\ GivesBack(b, x.seq)
      BY <2>2 DEF AdmitFails, StructureFails
    <3> QED BY <1>1, <3>1, RefusesStep, GivesBackStep
  <2> QED BY <2>1, <2>2
<1>3. UNCHANGED <<frame, state, waiting, closed>>
  BY DEF Admit, AdmitFails, Admits
<1> QED BY <1>2, <1>3 DEF TypeOK, StoreOK

LEMMA BoundaryStep ==
    ASSUME TypeOK, Inv, NEW b \in Bindings, Boundary(b) \/ SourceChanged(b)
    PROVE  TypeOK' /\ Inv'
<1> DEFINE Q == {[p EXCEPT !.fresh = FALSE] : p \in publications[b]}
<1>1. StoreOK
  BY StoreType
<1>2. /\ publications' = [publications EXCEPT ![b] = Q]
      /\ samples' = {IF x.binding = b THEN [x EXCEPT !.old = TRUE] ELSE x : x \in samples}
      /\ UNCHANGED <<frame, waiting, lastSequence, closed, field, ignored>>
      /\ state' = state \/ state' = [state EXCEPT ![b] = "live"]
  BY DEF Boundary, SourceChanged, NeedsFresh
<1>3. PICK n \in Gens(b) \cup {required[b]} :
         /\ \A g \in Gens(b) \cup {required[b]} : g <= n
         /\ required' = [required EXCEPT ![b] = n]
  BY DEF Boundary, SourceChanged, NeedsFresh
<1>4. publications[b] \in SUBSET Publication /\ field[b] \in FieldType
      /\ Sound(field[b], publications[b], ignored[b])
  BY <1>1 DEF StoreOK, Inv
<1>5. n \in Nat
  BY <1>1, <1>3, <1>4 DEF StoreOK, Gens, Publication
<1>6. \A q \in Q : \E p \in publications[b] :
          q = [p EXCEPT !.fresh = FALSE] /\ q \in Publication
          /\ q.gen = p.gen /\ q.seq = p.seq /\ q.status = p.status
  BY <1>4 DEF Publication
<1>7. \A p \in publications[b] : \E q \in Q : q.gen = p.gen
  <2> TAKE p \in publications[b]
  <2>1. [p EXCEPT !.fresh = FALSE] \in Q
    OBVIOUS
  <2>2. [p EXCEPT !.fresh = FALSE].gen = p.gen
    BY <1>4 DEF Publication
  <2> QED BY <2>1, <2>2
<1>8. Q \in SUBSET Publication /\ \A q \in Q : q.gen <= n
  BY <1>3, <1>6 DEF Gens
<1> HIDE DEF Q
<1>9. Sound(field[b], Q, ignored[b])
  <2>1. /\ \A p \in Q : p.gen \in 1..field[b].counter
        /\ \A p \in Q, r \in field[b].records : p.gen = r.gen => p.seq = r.seq
        /\ \A p \in Q : p.status = "published" => Pinned(field[b], p.gen)
    BY <1>4, <1>6 DEF Sound
  <2>2. \A p, q \in Q : p.gen = q.gen => p = q
    <3> SUFFICES ASSUME NEW p \in Q, NEW q \in Q, p.gen = q.gen
                 PROVE  p = q
      OBVIOUS
    <3>1. PICK p0 \in publications[b] : p = [p0 EXCEPT !.fresh = FALSE] /\ p.gen = p0.gen
      BY <1>6
    <3>2. PICK q0 \in publications[b] : q = [q0 EXCEPT !.fresh = FALSE] /\ q.gen = q0.gen
      BY <1>6
    <3>3. p0 = q0
      BY <1>4, <3>1, <3>2 DEF Sound
    <3> QED BY <3>1, <3>2, <3>3
  <2>3. \A r \in field[b].records : r.gen \notin ignored[b] =>
            /\ r.pins > 0 => \E p \in Q : p.gen = r.gen
            /\ r.pins = 0 => r.gen = field[b].current
    BY <1>4, <1>7 DEF Sound
  <2> QED BY <1>4, <2>1, <2>2, <2>3 DEF Sound
<1>10. Fresh(field[b], Q, n)
  <2>1. n <= field[b].counter
    BY <1>1, <1>3, <1>4 DEF Gens, Sound, Inv, Fresh
  <2> QED BY <1>5, <1>8, <2>1 DEF Fresh, Publication
<1>11. Inv'
  <2>1. Becomes(b, field[b], Q, ignored[b], n)
    BY <1>1, <1>2, <1>3 DEF StoreOK, Becomes
  <2> QED BY <1>1, <1>9, <1>10, <2>1, OneBinding
<1>12. samples' \in SUBSET Sample
  <2>1. \A x \in Sample : [x EXCEPT !.old = TRUE] \in Sample
    BY DEF Sample
  <2> QED BY <1>2, <2>1 DEF TypeOK
<1>13. publications' \in [Bindings -> SUBSET Publication] /\ required' \in [Bindings -> Nat]
  BY <1>1, <1>2, <1>3, <1>5, <1>8 DEF StoreOK
<1>14. state' \in [Bindings -> States]
  BY <1>2 DEF TypeOK, States
<1> QED BY <1>2, <1>11, <1>12, <1>13, <1>14 DEF TypeOK

LEMMA ReleaseStep ==
    ASSUME TypeOK, Inv, NEW b \in Bindings, NEW rest \in SUBSET publications[b],
           Release(b, rest)
    PROVE  TypeOK' /\ Inv'
<1> DEFINE h == Released(field[b], {p.gen : p \in publications[b] \ rest})
<1>1. /\ publications' = [publications EXCEPT ![b] = rest]
      /\ field' = [field EXCEPT ![b] = h]
      /\ UNCHANGED <<frame, waiting, required, lastSequence, samples, closed, ignored>>
  BY DEF Release
<1>2. state' \in [Bindings -> States]
  BY DEF Release, TypeOK, States
<1>3. field[b] \in FieldType /\ publications[b] \in SUBSET Publication
      /\ Sound(field[b], publications[b], ignored[b]) /\ Fresh(field[b], publications[b], required[b])
  BY DEF TypeOK, Inv
<1>4. h \in FieldType /\ Sound(h, rest, ignored[b])
  <2>1. publications[b] \ rest \in SUBSET publications[b]
        /\ publications[b] \ (publications[b] \ rest) = rest
    OBVIOUS
  <2> HIDE DEF h
  <2>2. h \in FieldType
    BY <1>3, ReleasedType DEF h
  <2>3. Sound(h, publications[b] \ (publications[b] \ rest), ignored[b])
    BY <1>3, <2>1, ReleasedSound DEF h
  <2> QED BY <2>1, <2>2, <2>3
<1> HIDE DEF h
<1>5. Fresh(h, rest, required[b])
  BY <1>3 DEF h, Released, FieldType, Fresh
<1>6. Becomes(b, h, rest, ignored[b], required[b])
  BY <1>1 DEF TypeOK, Becomes
<1>7. Inv'
  BY <1>4, <1>5, <1>6, StoreType, OneBinding
<1>8. publications' \in [Bindings -> SUBSET Publication] /\ field' \in [Bindings -> FieldType]
  BY <1>1, <1>3, <1>4 DEF TypeOK
<1> QED BY <1>1, <1>2, <1>7, <1>8 DEF TypeOK

LEMMA CloseBindingStep ==
    ASSUME TypeOK, Inv, NEW b \in Bindings, NEW P \in SUBSET publications[b],
           CloseBinding(b, P)
    PROVE  TypeOK' /\ Inv'
<1> DEFINE h == Released(field[b], {p.gen : p \in publications[b] \ P})
           J == {p.gen : p \in P}
<1>1. /\ publications' = [publications EXCEPT ![b] = {}]
      /\ field' = [field EXCEPT ![b] = h]
      /\ ignored' = [ignored EXCEPT ![b] = @ \cup J]
      /\ UNCHANGED <<frame, waiting, required, lastSequence, samples, closed>>
  BY DEF CloseBinding
<1>2. state' \in [Bindings -> States]
  BY DEF CloseBinding, TypeOK, States
<1>3. field[b] \in FieldType /\ publications[b] \in SUBSET Publication
      /\ Sound(field[b], publications[b], ignored[b])
      /\ Fresh(field[b], publications[b], required[b])
  BY DEF TypeOK, Inv
<1>4. h \in FieldType /\ Sound(h, P, ignored[b])
  <2>1. publications[b] \ P \in SUBSET publications[b]
        /\ publications[b] \ (publications[b] \ P) = P
    OBVIOUS
  <2> HIDE DEF h
  <2>2. h \in FieldType
    BY <1>3, ReleasedType DEF h
  <2>3. Sound(h, publications[b] \ (publications[b] \ P), ignored[b])
    BY <1>3, <2>1, ReleasedSound DEF h
  <2> QED BY <2>1, <2>2, <2>3
<1> HIDE DEF h
<1>5. Sound(h, {}, ignored[b] \cup J)
  BY <1>4, ForgottenSound
<1>6. J \in SUBSET Nat
  BY <1>3 DEF Publication
<1> HIDE DEF J
<1>7. Becomes(b, h, {}, ignored[b] \cup J, required[b])
  BY <1>1 DEF TypeOK, Becomes
<1>10. Fresh(h, {}, required[b])
  BY <1>3 DEF h, Released, FieldType, Fresh
<1>8. Inv'
  BY <1>5, <1>7, <1>10, StoreType, OneBinding
<1>9. /\ publications' \in [Bindings -> SUBSET Publication]
      /\ field' \in [Bindings -> FieldType] /\ ignored' \in [Bindings -> SUBSET Nat]
  BY <1>1, <1>4, <1>6 DEF TypeOK
<1> QED BY <1>1, <1>2, <1>8, <1>9 DEF TypeOK

\* What touches neither the field nor what the broker retains of it.
LEMMA OtherStep ==
    ASSUME TypeOK, Inv, UNCHANGED <<field, publications, ignored, required, lastSequence>>,
           samples' \in SUBSET Sample, frame' \in [Bindings -> Nat],
           state' \in [Bindings -> States], waiting' \in [Bindings -> BOOLEAN],
           closed' \in BOOLEAN
    PROVE  TypeOK' /\ Inv'
  BY StoreUnchanged DEF TypeOK

LEMMA NextStep ==
    ASSUME TypeOK, Inv, [Next]_vars
    PROVE  TypeOK' /\ Inv'
<1>1. /\ frame \in [Bindings -> Nat] /\ state \in [Bindings -> States]
      /\ waiting \in [Bindings -> BOOLEAN] /\ closed \in BOOLEAN /\ samples \in SUBSET Sample
  BY DEF TypeOK
<1>2. ASSUME NEW b \in Bindings, AskCapture(b) \/ CaptureLeaves(b)
      PROVE  TypeOK' /\ Inv'
  <2>1. waiting' \in [Bindings -> BOOLEAN]
    BY <1>1, <1>2 DEF AskCapture, CaptureLeaves, CaptureReturns
  <2>2. UNCHANGED <<frame, state, broker, closed, field, ignored>>
    BY <1>2 DEF AskCapture, CaptureLeaves, CaptureReturns
  <2> QED BY <1>1, <2>1, <2>2, OtherStep DEF broker
<1>3. ASSUME NEW b \in Bindings, Unbind(b)
      PROVE  TypeOK' /\ Inv'
  <2>1. state' \in [Bindings -> States] /\ samples' \in SUBSET Sample
    BY <1>1, <1>3 DEF Unbind, States
  <2> QED BY <1>1, <1>3, <2>1, OtherStep DEF Unbind
<1>4. ASSUME NEW b \in Bindings, SourceShows(b)
      PROVE  TypeOK' /\ Inv'
  <2>1. frame' \in [Bindings -> Nat]
    BY <1>1, <1>4 DEF SourceShows
  <2> QED BY <1>1, <1>4, <2>1, OtherStep DEF SourceShows, broker
<1>5. ASSUME Close
      PROVE  TypeOK' /\ Inv'
  BY <1>1, <1>5, OtherStep DEF Close, broker
<1>6. ASSUME NEW b \in Bindings, NEW scope \in Scopes, NEW c \in Captures,
             TakeSample(c, b, scope)
      PROVE  TypeOK' /\ Inv'
  <2>1. samples' \in SUBSET Sample
    <3> DEFINE x == [id |-> c, binding |-> b, seq |-> frame[b], scope |-> scope,
                     old |-> FALSE]
    <3>1. x \in Sample
      BY <1>1 DEF Sample
    <3>2. samples' = samples \cup {x}
      BY <1>6 DEF TakeSample
    <3> HIDE DEF x
    <3> QED BY <1>1, <3>1, <3>2
  <2> QED BY <1>1, <1>6, <2>1, OtherStep DEF TakeSample
<1>7. ASSUME NEW x \in samples, AdmitKnown(x) \/ Discard(x)
      PROVE  TypeOK' /\ Inv'
  <2>1. /\ samples' \in SUBSET Sample
        /\ UNCHANGED <<frame, state, waiting, publications, required, lastSequence, closed,
                       field, ignored>>
    BY <1>1, <1>7 DEF AdmitKnown, Admits, Discard
  <2> QED BY <1>1, <2>1, OtherStep
<1>8. CASE UNCHANGED vars
  BY <1>1, <1>8, OtherStep DEF vars, broker
<1>9. CASE Next
  <2>1. CASE \E b \in Bindings : \/ AskCapture(b) \/ CaptureLeaves(b) \/ Boundary(b)
                                 \/ SourceChanged(b) \/ Unbind(b) \/ SourceShows(b)
    BY <1>2, <1>3, <1>4, <2>1, BoundaryStep
  <2>2. CASE \E b \in Bindings, scope \in Scopes :
                \/ Capture(b, scope) \/ CaptureFails(b, scope)
                \/ \E c \in Captures : TakeSample(c, b, scope)
    BY <1>6, <2>2, CaptureStep
  <2>3. CASE \E x \in samples : AdmitKnown(x) \/ Admit(x) \/ AdmitFails(x) \/ Discard(x)
    BY <1>7, <2>3, AdmitStep
  <2>4. CASE \E b \in Bindings : \E P \in SUBSET publications[b] :
                Release(b, P) \/ CloseBinding(b, P)
    BY <2>4, ReleaseStep, CloseBindingStep
  <2>5. CASE Close
    BY <1>5, <2>5
  <2> QED BY <1>9, <2>1, <2>2, <2>3, <2>4, <2>5 DEF Next
<1> QED BY <1>8, <1>9

LEMMA InitHolds == Init => TypeOK /\ Inv
<1> SUFFICES ASSUME Init
             PROVE  TypeOK /\ Inv
  OBVIOUS
<1> DEFINE none == [records |-> {}, current |-> 0, counter |-> 0]
<1>1. none \in FieldType /\ none.records = {} /\ none.current = 0
  BY DEF FieldType
<1>2. field = [b \in Bindings |-> none]
  BY DEF Init
<1> HIDE DEF none
<1>3. TypeOK
  BY <1>1, <1>2 DEF Init, TypeOK, States
<1>4. Inv
  BY <1>1, <1>2 DEF Init, Inv, Sound, Fresh
<1> QED BY <1>3, <1>4

LEMMA InvHolds == Spec => [](TypeOK /\ Inv)
  BY InitHolds, NextStep, PTL DEF Spec

-----------------------------------------------------------------------------
(* What is promised. *)

\* Every variable keeps its type.
THEOREM Types == Spec => []TypeOK
  BY InvHolds, PTL

\* Whatever fails between the field and the broker, the field keeps nothing for the broker
\* that the broker no longer knows, except where a failed release was ignored
\* (core.py:1073, 2793).
THEOREM Orphans == Spec => []NothingOrphaned
<1>1. TypeOK /\ Inv => NothingOrphaned
  BY DEF Inv, Sound, NothingOrphaned, Gens
<1> QED BY <1>1, InvHolds, PTL

\* What the broker retains and has from the field as new, the field holds.
THEOREM Held == Spec => []RetainedIsHeld
<1>1. TypeOK /\ Inv => RetainedIsHeld
  BY DEF Inv, Sound, RetainedIsHeld
<1> QED BY <1>1, InvHolds, PTL

\* No sample from before a boundary is a basis for control.
THEOREM Freshness == Spec => []UsableIsFresh
<1>1. TypeOK /\ Inv => UsableIsFresh
  BY DEF Inv, Fresh, UsableIsFresh, Usable
<1> QED BY <1>1, InvHolds, PTL

-----------------------------------------------------------------------------
(* What a step does to the publications of a source. *)

\* The source's frames are numbered from 1 and never go back; while the source is bound,
\* what was published last is not used up.
Seen ==
    \A b \in Bindings :
        /\ frame[b] \in Nat \ {0} /\ lastSequence[b] <= frame[b]
        /\ \A p \in publications[b] : p.seq <= lastSequence[b]
        /\ \A x \in samples : x.binding = b => x.seq <= frame[b]
        /\ MaxPublications > 1 /\ state[b] \in {"live", "release-pending"}
              /\ publications[b] = {} => lastSequence[b] = 0

\* nothing is retained or let go; a boundary may have marked what is retained
Stands(b) ==
    /\ lastSequence'[b] = lastSequence[b]
    /\ publications'[b] \in {publications[b], {[p EXCEPT !.fresh = FALSE] : p \in publications[b]}}

\* room was made, and the field did not answer or was given its generation back
MakesRoom(b) ==
    /\ lastSequence'[b] = lastSequence[b]
    /\ publications'[b] = Kept(b)

\* a frame is published; if it may be a basis for control, it is the source's present one
\* or newer than all before it
Adds(b, s) ==
    /\ ~Repeats(b, s) /\ s <= frame[b]
    /\ lastSequence'[b] = IF s > lastSequence[b] THEN s ELSE lastSequence[b]
    /\ \E new \in Publication :
          /\ new.seq = s
          /\ publications'[b] = {p \in Kept(b) : p.gen # new.gen} \cup {new}
          /\ ~(new.gen > required'[b]) \/ s = frame[b] \/ s > lastSequence[b]

\* publications are let go, and the binding with the last of them
LetsGo(b) ==
    /\ lastSequence'[b] = lastSequence[b]
    /\ publications'[b] \subseteq publications[b]
    /\ state'[b] \in {"release-pending", "unbound", "detached", "closed"}
    /\ publications'[b] = {} => state'[b] \notin {"live", "release-pending"}

Moves(b) == Stands(b) \/ MakesRoom(b) \/ (\E s \in Nat : Adds(b, s)) \/ LetsGo(b)

\* A step at one source leaves the others'.
LEMMA OthersStand ==
    ASSUME TypeOK, NEW b \in Bindings, NEW c \in Bindings, c # b, NEW P, NEW n \in Nat,
           publications' = [publications EXCEPT ![b] = P],
           lastSequence' = [lastSequence EXCEPT ![b] = n]
    PROVE  Stands(c)
  BY DEF TypeOK, Stands

LEMMA Retaining ==
    ASSUME TypeOK, Inv, NEW b \in Bindings, NEW s \in Nat, s <= frame[b], NEW scope \in Scopes,
           NEW fresh \in BOOLEAN, MayAnswer(b, s), Retains(b, s, scope, fresh),
           ~(Answer(b, s).gen > required'[b]) \/ s = frame[b] \/ s > lastSequence[b]
    PROVE  Adds(b, s)
<1> DEFINE a == Answer(b, s)
           new == [gen |-> a.gen, seq |-> s, scope |-> scope, status |-> a.status,
                   fresh |-> fresh]
<1>1. a.gen \in Nat
  <2>1. Spared(b) \in FieldType
    BY StoreType, SparedSound
  <2> QED BY <2>1, Answers DEF Answer
<1>2. a.status \in {"published", "replayed"} /\ ~Repeats(b, s)
  BY DEF MayAnswer
<1>3. publications'[b] = {p \in Kept(b) : p.gen # a.gen} \cup {new}
  BY DEF Retains, TypeOK
<1>4. lastSequence'[b] = IF s > lastSequence[b] THEN s ELSE lastSequence[b]
  BY DEF Retains, TypeOK
<1> HIDE DEF a
<1>5. new \in Publication /\ new.gen = a.gen /\ new.seq = s
  BY <1>1, <1>2 DEF Publication
<1>6. ~(new.gen > required'[b]) \/ s = frame[b] \/ s > lastSequence[b]
  BY <1>5 DEF a
<1> HIDE DEF new
<1> QED BY <1>2, <1>3, <1>4, <1>5, <1>6 DEF Adds

LEMMA CaptureMoves ==
    ASSUME TypeOK, Inv, Seen, NEW b \in Bindings, NEW scope \in Scopes,
           Capture(b, scope) \/ CaptureFails(b, scope), NEW c \in Bindings
    PROVE  Moves(c)
<1>1. frame[b] \in Nat /\ frame[b] <= frame[b]
  BY DEF Seen
<1>2. CASE Capture(b, scope)
  <2> DEFINE fresh == TRUE
  <2>1. MayAnswer(b, frame[b]) /\ Retains(b, frame[b], scope, fresh) /\ fresh \in BOOLEAN
    BY <1>2 DEF Capture
  <2> HIDE DEF fresh
  <2>2. Adds(b, frame[b])
    BY <1>1, <2>1, Retaining
  <2>3. CASE c # b
    BY <1>1, <2>1, <2>3 DEF Retains, Moves, Stands, TypeOK
  <2> QED BY <1>1, <2>2, <2>3 DEF Moves
<1>3. CASE CaptureFails(b, scope)
  BY <1>3 DEF CaptureFails, FieldRefuses, StructureFails, GivesBack, Outdated, Moves, Stands,
     MakesRoom, TypeOK
<1> QED BY <1>2, <1>3

LEMMA AdmitMoves ==
    ASSUME TypeOK, Inv, Seen, NEW x \in samples, Admit(x) \/ AdmitFails(x), NEW c \in Bindings
    PROVE  Moves(c)
<1>1. /\ x.binding \in Bindings /\ x.seq \in Nat /\ x.scope \in Scopes /\ x.old \in BOOLEAN
      /\ x.seq <= frame[x.binding]
  BY DEF TypeOK, Sample, Seen
<1>2. CASE Admit(x)
  <2> DEFINE b == x.binding
             g == Answer(b, x.seq).gen
  <2>1. /\ MayAnswer(b, x.seq) /\ Retains(b, x.seq, x.scope, ~x.old)
        /\ required' = [required EXCEPT ![b] = IF TooOld(x, g) /\ g > @ THEN g ELSE @]
    BY <1>2 DEF Admit
  <2>2. required'[b] = IF TooOld(x, g) /\ g > required[b] THEN g ELSE required[b]
    BY <1>1, <2>1 DEF TypeOK
  <2>3. g \in Nat
    <3>1. Spared(b) \in FieldType
      BY <1>1, StoreType, SparedSound
    <3> QED BY <1>1, <3>1, Answers DEF Answer
  <2>4. required[b] \in Nat /\ lastSequence[b] \in Nat
    BY <1>1 DEF TypeOK
  <2> HIDE DEF g
  <2>5. ~(g > required'[b]) \/ x.seq > lastSequence[b]
    BY <1>1, <2>2, <2>3, <2>4 DEF TooOld
  <2>6. (~x.old) \in BOOLEAN
    BY <1>1
  <2>7. Adds(b, x.seq)
    BY <1>1, <2>1, <2>5, <2>6, Retaining DEF g
  <2>8. CASE c # b
    BY <1>1, <2>1, <2>8 DEF Retains, Moves, Stands, TypeOK
  <2> QED BY <1>1, <2>7, <2>8 DEF Moves
<1>3. CASE AdmitFails(x)
  BY <1>1, <1>3 DEF AdmitFails, FieldRefuses, StructureFails, GivesBack, Moves, Stands,
     MakesRoom, TypeOK
<1> QED BY <1>2, <1>3

LEMMA NextMoves ==
    ASSUME TypeOK, Inv, Seen, [Next]_vars, NEW c \in Bindings
    PROVE  Moves(c)
<1>1. CASE UNCHANGED <<publications, lastSequence>>
  BY <1>1 DEF Moves, Stands
<1>2. ASSUME NEW b \in Bindings, Boundary(b) \/ SourceChanged(b)
      PROVE  Moves(c)
  BY <1>2 DEF Boundary, SourceChanged, NeedsFresh, Moves, Stands, TypeOK
<1>3. ASSUME NEW b \in Bindings, NEW P \in SUBSET publications[b],
             Release(b, P) \/ CloseBinding(b, P)
      PROVE  Moves(c)
  <2>1. CASE c # b
    BY <1>3, <2>1 DEF Release, CloseBinding, Moves, Stands, TypeOK
  <2>2. CASE c = b
    <3>1. LetsGo(b)
      BY <1>3 DEF Release, CloseBinding, LetsGo, TypeOK
    <3> QED BY <2>2, <3>1 DEF Moves
  <2> QED BY <2>1, <2>2
<1>4. CASE Next
  <2>1. CASE \E b \in Bindings : \/ AskCapture(b) \/ CaptureLeaves(b) \/ Boundary(b)
                                 \/ SourceChanged(b) \/ Unbind(b) \/ SourceShows(b)
    BY <1>1, <1>2, <2>1 DEF AskCapture, CaptureLeaves, Unbind, SourceShows, broker
  <2>2. CASE \E b \in Bindings, scope \in Scopes :
                \/ Capture(b, scope) \/ CaptureFails(b, scope)
                \/ \E d \in Captures : TakeSample(d, b, scope)
    BY <1>1, <2>2, CaptureMoves DEF TakeSample
  <2>3. CASE \E x \in samples : AdmitKnown(x) \/ Admit(x) \/ AdmitFails(x) \/ Discard(x)
    BY <1>1, <2>3, AdmitMoves DEF AdmitKnown, Discard
  <2>4. CASE \E b \in Bindings : \E P \in SUBSET publications[b] :
                Release(b, P) \/ CloseBinding(b, P)
    BY <1>3, <2>4
  <2>5. CASE Close
    BY <1>1, <2>5 DEF Close, broker
  <2> QED BY <1>4, <2>1, <2>2, <2>3, <2>4, <2>5 DEF Next
<1>5. CASE UNCHANGED vars
  BY <1>1, <1>5 DEF vars, broker
<1> QED BY <1>4, <1>5

-----------------------------------------------------------------------------
(* What control may depend on is new, and is not used up by failures. *)

\* The newest of the publications are one or none, and so are the oldest.
LEMMA OneLatest ==
    ASSUME TypeOK, Inv, NEW b \in Bindings
    PROVE  /\ \A p, q \in publications[b] : p.gen = q.gen => p = q
           /\ \A p, q \in Oldest(b) : p = q
           /\ publications[b] \in SUBSET Publication
           /\ \A p \in publications[b] : p.gen \in 1..field[b].counter
           /\ field[b].counter \in Nat
<1>1. /\ \A p, q \in publications[b] : p.gen = q.gen => p = q
      /\ publications[b] \in SUBSET Publication
      /\ \A p \in publications[b] : p.gen \in 1..field[b].counter
      /\ field[b].counter \in Nat
  BY DEF Inv, Sound, TypeOK, FieldType
<1>2. ASSUME NEW p \in Oldest(b), NEW q \in Oldest(b)
      PROVE  p = q
  <2>1. p \in publications[b] /\ q \in publications[b] /\ p.gen <= q.gen /\ q.gen <= p.gen
    BY DEF Oldest, Gens
  <2>2. p.gen \in Nat /\ q.gen \in Nat
    BY <1>1, <2>1
  <2> QED BY <1>1, <2>1, <2>2
<1> QED BY <1>1, <1>2

\* What is retained has a newest.
LEMMA LatestExists ==
    ASSUME TypeOK, Inv, NEW b \in Bindings, publications[b] # {}
    PROVE  Latest(b) # {}
<1> DEFINE G == Gens(b)
           n == field[b].counter
<1>1. G # {} /\ G \subseteq 1..n /\ n \in Nat
  BY OneLatest DEF Gens
<1>2. PICK m \in G : \A g \in G : g <= m
  <2> DEFINE R == {q \in Nat \X Nat : q[1] < q[2]}
             T == {n - g : g \in G}
  <2>1. IsWellFoundedOn(R, Nat)
    BY NatLessThanWellFounded DEF OpToRel
  <2>2. T \subseteq Nat /\ T # {}
    BY <1>1
  <2>3. PICK k \in T : \A j \in T : <<j, k>> \notin R
    <3> HIDE DEF R, T
    <3> QED BY <2>1, <2>2, WFMin
  <2>4. PICK m \in G : k = n - m
    OBVIOUS
  <2>5. ASSUME NEW g \in G
        PROVE  g <= m
    <3>1. n - g \in T /\ n - g \in Nat /\ k \in Nat /\ g \in Nat /\ m \in Nat
      BY <1>1, <2>4
    <3>2. <<n - g, k>> \notin R
      BY <2>3, <3>1
    <3>3. ~(n - g < k)
      BY <3>1, <3>2
    <3> QED BY <1>1, <2>4, <3>1, <3>3
  <2> QED BY <2>5
<1>3. PICK p \in publications[b] : p.gen = m
  BY DEF Gens
<1> QED BY <1>2, <1>3 DEF Latest

\* As many publications as generations, and finitely many.
LEMMA Counted ==
    ASSUME TypeOK, Inv, NEW b \in Bindings
    PROVE  /\ IsFiniteSet(publications[b]) /\ Cardinality(publications[b]) \in Nat
           /\ IsFiniteSet(Gens(b)) /\ Cardinality(Gens(b)) = Cardinality(publications[b])
<1> DEFINE P == publications[b]
           n == field[b].counter
           f == [p \in P |-> p.gen]
<1>1. f \in Injection(P, 1..n) /\ f \in Injection(P, Gens(b)) /\ f \in Surjection(P, Gens(b))
  BY OneLatest DEF Injection, IsInjective, Surjection, Gens
<1>2. IsFiniteSet(1..n)
  BY OneLatest, FS_Interval
<1> HIDE DEF P, n, f
<1>3. IsFiniteSet(P)
  BY <1>1, <1>2, FS_Injection
<1>4. IsFiniteSet(Gens(b)) /\ Cardinality(Gens(b)) = Cardinality(P)
  BY <1>1, <1>3, FS_Surjection
<1>5. Cardinality(P) \in Nat
  BY <1>3, FS_CardinalityType
<1> QED BY <1>3, <1>4, <1>5 DEF P

\* Room is made for a publication and never of the only one.
LEMMA RoomLeaves ==
    ASSUME TypeOK, Inv, NEW b \in Bindings, MaxPublications \in Nat, MaxPublications > 1,
           publications[b] # {}
    PROVE  Kept(b) # {}
<1> SUFFICES ASSUME Kept(b) = {}
             PROVE  FALSE
  OBVIOUS
<1>1. publications[b] \subseteq Evicted(b)
  BY DEF Kept
<1>2. Cardinality(publications[b]) >= MaxPublications /\ publications[b] \subseteq Oldest(b)
  BY <1>1 DEF Evicted
<1>3. PICK p \in publications[b] : publications[b] = {p}
  BY <1>2, OneLatest
<1>4. Cardinality(publications[b]) = 1
  BY <1>3, FS_Singleton
<1> QED BY <1>2, <1>4

\* Whatever a step publishes has been shown, and only a release takes the last of it.
LEMMA MovesSeen ==
    ASSUME TypeOK, Inv, Seen, MaxPublications \in Nat, NEW b \in Bindings, Moves(b),
           frame'[b] \in Nat, frame[b] <= frame'[b],
           state'[b] \in {"live", "release-pending"} =>
                state[b] \in {"live", "release-pending"}
    PROVE  /\ frame'[b] \in Nat \ {0} /\ lastSequence'[b] <= frame'[b]
           /\ \A p \in publications'[b] : p.seq <= lastSequence'[b]
           /\ MaxPublications > 1 /\ state'[b] \in {"live", "release-pending"}
                 /\ publications'[b] = {} => lastSequence'[b] = 0
<1>1. /\ frame[b] \in Nat \ {0} /\ lastSequence[b] <= frame[b] /\ lastSequence[b] \in Nat
      /\ \A p \in publications[b] : p.seq <= lastSequence[b]
      /\ MaxPublications > 1 /\ state[b] \in {"live", "release-pending"}
            /\ publications[b] = {} => lastSequence[b] = 0
  BY DEF Seen, TypeOK
<1>2. publications[b] \in SUBSET Publication /\ \A p \in Publication : p.seq \in Nat
  BY DEF TypeOK, Publication
<1>3. CASE Stands(b)
  <2>1. lastSequence'[b] = lastSequence[b] /\ (publications'[b] = {} => publications[b] = {})
    BY <1>3 DEF Stands
  <2>2. \A p \in publications'[b] : \E q \in publications[b] : p.seq = q.seq
    BY <1>2, <1>3 DEF Stands, Publication
  <2> QED BY <1>1, <2>1, <2>2
<1>4. CASE MakesRoom(b)
  <2>1. lastSequence'[b] = lastSequence[b] /\ publications'[b] \subseteq publications[b]
    BY <1>4 DEF MakesRoom, Kept
  <2>2. MaxPublications > 1 /\ publications'[b] = {} => publications[b] = {}
    BY <1>4, RoomLeaves DEF MakesRoom
  <2> QED BY <1>1, <2>1, <2>2
<1>5. ASSUME NEW s \in Nat, Adds(b, s)
      PROVE  /\ frame'[b] \in Nat \ {0} /\ lastSequence'[b] <= frame'[b]
             /\ \A p \in publications'[b] : p.seq <= lastSequence'[b]
             /\ publications'[b] # {}
  <2>1. PICK new \in Publication :
          new.seq = s /\ publications'[b] = {p \in Kept(b) : p.gen # new.gen} \cup {new}
    BY <1>5 DEF Adds
  <2>2. lastSequence'[b] = (IF s > lastSequence[b] THEN s ELSE lastSequence[b]) /\ s <= frame[b]
    BY <1>5 DEF Adds
  <2>3. lastSequence'[b] >= lastSequence[b] /\ s <= lastSequence'[b] /\ lastSequence'[b] \in Nat
        /\ lastSequence'[b] <= frame[b]
    BY <1>1, <2>2
  <2>4. \A p \in publications[b] : p.seq <= lastSequence'[b]
    BY <1>1, <1>2, <2>3
  <2> QED BY <1>1, <2>1, <2>3, <2>4 DEF Kept
<1>6. CASE LetsGo(b)
  <2>1. /\ lastSequence'[b] = lastSequence[b] /\ publications'[b] \subseteq publications[b]
        /\ publications'[b] = {} => state'[b] \notin {"live", "release-pending"}
    BY <1>6 DEF LetsGo
  <2> QED BY <1>1, <2>1
<1> QED BY <1>3, <1>4, <1>5, <1>6 DEF Moves

\* Samples are of frames the source has shown.
LEMMA SamplesSeen ==
    ASSUME TypeOK, Seen, [Next]_vars
    PROVE  \A b \in Bindings : \A x \in samples' : x.binding = b => x.seq <= frame'[b]
<1>1. CASE UNCHANGED frame /\ samples' \subseteq samples
  BY <1>1 DEF Seen
<1>2. ASSUME NEW b \in Bindings, NeedsFresh(b)
      PROVE  \A c \in Bindings : \A x \in samples' : x.binding = c => x.seq <= frame'[c]
  <2>1. frame' = frame
    BY <1>2 DEF NeedsFresh
  <2>2. \A x \in samples' : \E y \in samples : x.seq = y.seq /\ x.binding = y.binding
    BY <1>2 DEF NeedsFresh, TypeOK, Sample
  <2> QED BY <2>1, <2>2 DEF Seen
<1>3. ASSUME NEW b \in Bindings, SourceShows(b)
      PROVE  \A c \in Bindings : \A x \in samples' : x.binding = c => x.seq <= frame'[c]
  <2>1. \A c \in Bindings : frame[c] <= frame'[c] /\ frame[c] \in Nat /\ frame'[c] \in Nat
    BY <1>3 DEF SourceShows, TypeOK
  <2>2. samples' = samples /\ \A x \in samples : x.seq \in Nat
    BY <1>3 DEF SourceShows, TypeOK, Sample, broker
  <2> QED BY <2>1, <2>2 DEF Seen
<1>4. ASSUME NEW b \in Bindings, NEW scope \in Scopes, NEW d \in Captures,
             TakeSample(d, b, scope)
      PROVE  \A c \in Bindings : \A x \in samples' : x.binding = c => x.seq <= frame'[c]
  <2> DEFINE x == [id |-> d, binding |-> b, seq |-> frame[b], scope |-> scope, old |-> FALSE]
  <2>1. samples' = samples \cup {x} /\ frame' = frame /\ frame[b] \in Nat
    BY <1>4 DEF TakeSample, TypeOK
  <2>2. x.binding = b /\ x.seq = frame[b]
    OBVIOUS
  <2> HIDE DEF x
  <2> QED BY <2>1, <2>2 DEF Seen
<1>5. CASE Next
  <2>1. CASE \E b \in Bindings : \/ AskCapture(b) \/ CaptureLeaves(b) \/ Boundary(b)
                                 \/ SourceChanged(b) \/ Unbind(b) \/ SourceShows(b)
    BY <1>1, <1>2, <1>3, <2>1 DEF AskCapture, CaptureLeaves, CaptureReturns, Unbind, Boundary,
       SourceChanged, broker
  <2>2. CASE \E b \in Bindings, scope \in Scopes :
                \/ Capture(b, scope) \/ CaptureFails(b, scope)
                \/ \E d \in Captures : TakeSample(d, b, scope)
    BY <1>1, <1>4, <2>2 DEF Capture, CaptureFails, CaptureReturns, FieldRefuses, StructureFails,
       GivesBack, Outdated
  <2>3. CASE \E x \in samples : AdmitKnown(x) \/ Admit(x) \/ AdmitFails(x) \/ Discard(x)
    BY <1>1, <2>3 DEF AdmitKnown, Admit, AdmitFails, Discard, Admits, FieldRefuses,
       StructureFails, GivesBack
  <2>4. CASE \E b \in Bindings : \E P \in SUBSET publications[b] :
                Release(b, P) \/ CloseBinding(b, P)
    BY <1>1, <2>4 DEF Release, CloseBinding
  <2>5. CASE Close
    BY <1>1, <2>5 DEF Close, broker
  <2> QED BY <1>5, <2>1, <2>2, <2>3, <2>4, <2>5 DEF Next
<1>6. CASE UNCHANGED vars
  BY <1>1, <1>6 DEF vars, broker
<1> QED BY <1>5, <1>6

\* Frames go up, and no binding that has ended is live again.
LEMMA SourcesMove ==
    ASSUME TypeOK, [Next]_vars, NEW b \in Bindings
    PROVE  /\ frame'[b] \in Nat /\ frame[b] <= frame'[b]
           /\ state'[b] \in {"live", "release-pending"} =>
                state[b] \in {"live", "release-pending"}
<1>1. /\ frame \in [Bindings -> Nat]
      /\ \A c \in Bindings : frame[c] \in Nat
      /\ state \in [Bindings -> States]
  BY DEF TypeOK
<1> DEFINE Ended == {"release-pending", "unbound", "detached", "closed"}
<1>2. CASE UNCHANGED <<frame, state>>
  BY <1>1, <1>2
<1>3. ASSUME NEW c \in Bindings, SourceShows(c)
      PROVE  /\ frame'[b] \in Nat /\ frame[b] <= frame'[b]
             /\ state' = state
  BY <1>1, <1>3 DEF SourceShows
<1>4. ASSUME NEW c \in Bindings, SourceChanged(c)
      PROVE  /\ frame' = frame
             /\ state'[b] = state[b] \/ state[b] = "release-pending"
  BY <1>1, <1>4 DEF SourceChanged, NeedsFresh
<1>5. ASSUME NEW c \in Bindings, NEW P \in SUBSET publications[c],
             Unbind(c) \/ Release(c, P) \/ CloseBinding(c, P)
      PROVE  /\ frame' = frame
             /\ state'[b] \in {"live", "release-pending"} =>
                   state[b] \in {"live", "release-pending"}
  BY <1>1, <1>5 DEF Unbind, Release, CloseBinding
<1>6. CASE Next
  <2>1. CASE \E c \in Bindings : \/ AskCapture(c) \/ CaptureLeaves(c) \/ Boundary(c)
                                 \/ SourceChanged(c) \/ Unbind(c) \/ SourceShows(c)
    BY <1>1, <1>2, <1>3, <1>4, <1>5, <2>1 DEF AskCapture, CaptureLeaves, CaptureReturns,
       Boundary, NeedsFresh
  <2>2. CASE \E c \in Bindings, scope \in Scopes :
                \/ Capture(c, scope) \/ CaptureFails(c, scope)
                \/ \E d \in Captures : TakeSample(d, c, scope)
    BY <1>2, <2>2 DEF Capture, CaptureFails, CaptureReturns, TakeSample
  <2>3. CASE \E x \in samples : AdmitKnown(x) \/ Admit(x) \/ AdmitFails(x) \/ Discard(x)
    BY <1>2, <2>3 DEF AdmitKnown, Admit, AdmitFails, Discard, Admits
  <2>4. CASE \E c \in Bindings : \E P \in SUBSET publications[c] :
                Release(c, P) \/ CloseBinding(c, P)
    BY <1>1, <1>5, <2>4
  <2>5. CASE Close
    BY <1>2, <2>5 DEF Close
  <2> QED BY <1>6, <2>1, <2>2, <2>3, <2>4, <2>5 DEF Next
<1>7. CASE UNCHANGED vars
  BY <1>2, <1>7 DEF vars
<1> QED BY <1>6, <1>7

LEMMA SeenStep ==
    ASSUME TypeOK, Inv, Seen, MaxPublications \in Nat, [Next]_vars
    PROVE  Seen'
<1> SUFFICES ASSUME NEW b \in Bindings
             PROVE  /\ frame'[b] \in Nat \ {0} /\ lastSequence'[b] <= frame'[b]
                    /\ \A p \in publications'[b] : p.seq <= lastSequence'[b]
                    /\ \A x \in samples' : x.binding = b => x.seq <= frame'[b]
                    /\ MaxPublications > 1 /\ state'[b] \in {"live", "release-pending"}
                          /\ publications'[b] = {} => lastSequence'[b] = 0
  BY DEF Seen
<1>1. Moves(b)
  BY NextMoves
<1>2. /\ frame'[b] \in Nat /\ frame[b] <= frame'[b]
      /\ state'[b] \in {"live", "release-pending"} => state[b] \in {"live", "release-pending"}
  BY SourcesMove
<1>3. \A x \in samples' : x.binding = b => x.seq <= frame'[b]
  BY SamplesSeen
<1> QED BY <1>1, <1>2, <1>3, MovesSeen

LEMMA SeenHolds == Spec => []Seen
<1>1. Init => Seen
  BY DEF Init, Seen
<1>2. TypeOK /\ Inv /\ Seen /\ [Next]_vars => Seen'
  BY SeenStep, PublicationAssumption
<1> QED BY <1>1, <1>2, InvHolds, PTL DEF Spec

\* What stands keeps its generations.
LEMMA StandsGens ==
    ASSUME TypeOK, NEW b \in Bindings, Stands(b)
    PROVE  Gens(b)' = Gens(b)
<1> DEFINE old(p) == [p EXCEPT !.fresh = FALSE]
<1>1. \A p \in publications[b] : old(p).gen = p.gen
  BY DEF TypeOK, Publication
<1>2. CASE publications'[b] = publications[b]
  BY <1>2 DEF Gens
<1>3. CASE publications'[b] = {old(p) : p \in publications[b]}
  <2> HIDE DEF old
  <2> QED BY <1>1, <1>3 DEF Gens
<1> QED BY <1>2, <1>3 DEF Stands

\* What one step makes usable is newer than what was shown before.
LEMMA NewIsNewer ==
    ASSUME TypeOK, Inv, Seen, MaxPublications > 1, NEW b \in Bindings, Moves(b),
           state'[b] \in {"live", "release-pending"} =>
                state[b] \in {"live", "release-pending"},
           NEW p \in Usable(b)', p.gen \notin Gens(b)
    PROVE  p.seq > lastSequence[b] \/ \E q \in Latest(b) : q.seq < lastSequence[b]
<1>1. p \in publications'[b] /\ state'[b] = "live" /\ p.gen > required'[b]
  BY DEF Usable
<1>2. ~Stands(b)
  BY <1>1, StandsGens DEF Gens
<1>3. ~MakesRoom(b) /\ ~LetsGo(b)
  BY <1>1 DEF MakesRoom, LetsGo, Kept, Gens
<1>4. PICK s \in Nat : Adds(b, s)
  BY <1>2, <1>3 DEF Moves
<1>5. PICK new \in Publication :
          /\ new.seq = s
          /\ publications'[b] = {q \in Kept(b) : q.gen # new.gen} \cup {new}
          /\ ~(new.gen > required'[b]) \/ s = frame[b] \/ s > lastSequence[b]
  BY <1>4 DEF Adds
<1>6. p = new
  BY <1>1, <1>5 DEF Kept, Gens
<1>7. s = frame[b] \/ s > lastSequence[b]
  BY <1>1, <1>5, <1>6
<1>8. /\ frame[b] \in Nat \ {0} /\ lastSequence[b] <= frame[b] /\ lastSequence[b] \in Nat
      /\ \A q \in publications[b] : q.seq <= lastSequence[b]
      /\ publications[b] = {} => lastSequence[b] = 0
  BY <1>1 DEF Seen, TypeOK
<1>9. CASE s = lastSequence[b] /\ s = frame[b]
  <2>1. publications[b] # {} /\ ~Repeats(b, s)
    BY <1>4, <1>8, <1>9 DEF Adds
  <2>2. PICK q \in Latest(b) : TRUE
    BY <2>1, LatestExists
  <2>3. q \in publications[b] /\ q.seq \in Nat /\ q.seq # s
    BY <2>1, <2>2, OneLatest DEF Latest, Repeats, Publication
  <2> QED BY <1>8, <1>9, <2>2, <2>3
<1> QED BY <1>5, <1>6, <1>7, <1>8, <1>9

\* A publication control may depend on shows a frame newer than all before it, unless a
\* late sample was admitted in between: whatever is refused, evicted, given back or fenced
\* meanwhile.  It takes room for more than one publication (_MAX_PUBLICATIONS_PER_BINDING
\* is 4): with one, a refused sample uses up the only publication, and the frame it showed
\* counts as new again.
THEOREM UsableIsNewer ==
    ASSUME MaxPublications > 1
    PROVE  Spec => FreshIsNewer
<1> DEFINE Newer == \A b \in Bindings : \A p \in Usable(b)' :
                        \/ p.gen \in Gens(b)
                        \/ p.seq > lastSequence[b]
                        \/ \E q \in Latest(b) : q.seq < lastSequence[b]
<1>1. TypeOK /\ Inv /\ Seen /\ [Next]_vars => [Newer]_vars
  BY NextMoves, SourcesMove, NewIsNewer
<1>2. Spec => [][Newer]_vars
  <2> HIDE DEF Newer
  <2> QED BY <1>1, InvHolds, SeenHolds, PTL DEF Spec
<1> QED BY <1>2 DEF FreshIsNewer

\* Room was made for one publication: at least MaxPublications - 1 newer ones stay.
LEMMA NewerStay ==
    ASSUME TypeOK, Inv, NEW b \in Bindings, MaxPublications \in Nat \ {0},
           NEW p \in publications[b], p \notin Kept(b), IsFiniteSet(Gens(b)'),
           \A q \in Kept(b) : q.gen \in Gens(b)'
    PROVE  Cardinality({g \in Gens(b)' : g > p.gen}) >= MaxPublications - 1
<1> DEFINE G == Gens(b)
           E == {g \in Gens(b)' : g > p.gen}
<1>1. p \in Oldest(b) /\ Cardinality(publications[b]) >= MaxPublications
  BY DEF Kept, Evicted
<1>2. IsFiniteSet(G) /\ Cardinality(G) \in Nat /\ Cardinality(G) >= MaxPublications
  BY <1>1, Counted
<1>3. p.gen \in G
  BY DEF Gens
<1>4. IsFiniteSet(G \ {p.gen}) /\ Cardinality(G \ {p.gen}) = Cardinality(G) - 1
  BY <1>2, <1>3, FS_RemoveElement
<1>5. \A q \in publications[b] : q.gen # p.gen => q.gen > p.gen /\ q \in Kept(b)
  <2> SUFFICES ASSUME NEW q \in publications[b], q.gen # p.gen
               PROVE  q.gen > p.gen /\ q \in Kept(b)
    OBVIOUS
  <2>1. p.gen <= q.gen /\ p.gen \in Nat /\ q.gen \in Nat
    BY <1>1, OneLatest DEF Oldest, Gens
  <2>2. q \notin Oldest(b)
    BY <1>1, OneLatest
  <2> QED BY <2>1, <2>2 DEF Kept, Evicted
<1>6. G \ {p.gen} \subseteq E
  BY <1>5 DEF Gens
<1>7. IsFiniteSet(E)
  <2>1. E \in SUBSET Gens(b)'
    OBVIOUS
  <2> HIDE DEF E
  <2> QED BY <2>1, FS_Subset
<1> HIDE DEF E, G
<1>8. Cardinality(G \ {p.gen}) <= Cardinality(E) /\ Cardinality(E) \in Nat
  BY <1>6, <1>7, FS_Subset, FS_CardinalityType
<1> QED BY <1>2, <1>4, <1>8 DEF E

LEMMA CountedNext == TypeOK' /\ Inv' => \A b \in Bindings : IsFiniteSet(Gens(b)')
<1> DEFINE Finite == \A b \in Bindings : IsFiniteSet(Gens(b))
<1>1. TypeOK /\ Inv => Finite
  BY Counted
<1>2. TypeOK' /\ Inv' => Finite'
  <2> HIDE DEF Finite
  <2> QED BY <1>1, PTL
<1> QED BY <1>2

\* What one step takes of what is usable.
LEMMA UsableStays ==
    ASSUME TypeOK, Inv, TypeOK', Inv', NEW b \in Bindings, Moves(b),
           MaxPublications \in Nat \ {0}, NEW p \in Usable(b)
    PROVE  \/ p.gen \in Gens(b)'
           \/ state[b]' \in {"release-pending", "unbound", "detached", "closed"}
           \/ Cardinality({g \in Gens(b)' : g > p.gen}) >= MaxPublications - 1
<1>1. p \in publications[b]
  BY DEF Usable
<1>2. CASE Stands(b)
  BY <1>1, <1>2, StandsGens DEF Gens
<1>3. CASE LetsGo(b)
  BY <1>3 DEF LetsGo
<1>4. CASE MakesRoom(b) \/ \E s \in Nat : Adds(b, s)
  <2>1. \A q \in Kept(b) : q.gen \in Gens(b)'
    BY <1>4 DEF MakesRoom, Adds, Gens
  <2>2. CASE p \in Kept(b)
    BY <2>1, <2>2
  <2>3. CASE p \notin Kept(b)
    <3>1. IsFiniteSet(Gens(b)')
      BY CountedNext
    <3> QED BY <1>1, <2>1, <2>3, <3>1, NewerStay
  <2> QED BY <2>2, <2>3
<1> QED BY <1>2, <1>3, <1>4 DEF Moves

\* An observation control may depend on is not used up by captures and samples that fail,
\* are refused or are given back: it stays until MaxPublications - 1 newer ones are there.
THEOREM UsableSurvives == Spec => ObservationsSurvive
<1> DEFINE Stays == \A b \in Bindings : \A p \in Usable(b) :
              \/ p.gen \in Gens(b)'
              \/ state[b]' \in {"release-pending", "unbound", "detached", "closed"}
              \/ Cardinality({g \in Gens(b)' : g > p.gen}) >= MaxPublications - 1
<1>1. MaxPublications \in Nat \ {0}
  BY PublicationAssumption
<1>2. TypeOK /\ Inv /\ Seen /\ [Next]_vars => [Stays]_vars
  <2> SUFFICES ASSUME TypeOK, Inv, Seen, [Next]_vars
               PROVE  Stays
    OBVIOUS
  <2>1. TypeOK' /\ Inv'
    BY NextStep
  <2>2. \A b \in Bindings : Moves(b)
    BY NextMoves
  <2> QED BY <1>1, <2>1, <2>2, UsableStays
<1>3. Spec => [][Stays]_vars
  <2> HIDE DEF Stays
  <2> QED BY <1>2, InvHolds, SeenHolds, PTL DEF Spec
<1> QED BY <1>3 DEF ObservationsSurvive
=============================================================================
