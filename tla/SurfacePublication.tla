------------------------- MODULE SurfacePublication -------------------------
(***************************************************************************)
(* The observations of a bound source: src/CassiQwen/surface/core.py       *)
(* (capture, the volatile samples, release, unbind, close) together with   *)
(* the publication store of the field owner that keeps their pages,        *)
(* src/CassiFI/cassi_field_owner.py.  The broker retains the last few      *)
(* generations of a source, each with one pin in the field; the field also *)
(* keeps the newest one as the source's baseline, pinned or not.  A        *)
(* boundary (revocation, pause, lapse, changed source) makes everything    *)
(* retained too old for control.  A volatile sample is kept by the broker  *)
(* alone until it is admitted, perhaps after newer captures or a boundary. *)
(* A call does its work under the source's lock and is one step; a capture *)
(* takes the binding before it waits for the lock, which is a step of its  *)
(* own; so is the boundary that a call draws first if it finds the source  *)
(* changed.  The order of the samples is not kept, since any may expire.   *)
(* Audio, structure without pixels and deltas are left out, and so are the *)
(* authority and the neutralisation, SurfaceBroker's subject.              *)
(***************************************************************************)
EXTENDS Naturals, FiniteSets

CONSTANTS
    Bindings,
    Captures,          \* the ids of volatile samples, as many as there is room for
    MaxPublications,   \* _MAX_PUBLICATIONS_PER_BINDING
    Capacity,          \* the field's page budget, counted in generations
    MaxFrame,          \* bound: the last frame a source renders
    MaxGeneration,     \* bound: the last generation of a binding
    Faults             \* the failures of the field that are explored

ASSUME PublicationAssumption ==
    /\ {MaxPublications, Capacity} \subseteq Nat \ {0}
    /\ MaxFrame \in Nat /\ MaxGeneration \in Nat
    /\ Faults \subseteq {"structure", "release"}

VARIABLES
    frame,          \* the sequence number of the frame a source shows
    state,          \* _BindingState.state, detached and backend_unbound
    waiting,        \* a capture has its binding and waits for the lock
    publications,   \* _BindingState.publications
    required,       \* capture_required_after_generation, 0 for None
    lastSequence,   \* last_sequence
    samples,        \* _volatile_captures
    closed,         \* _closed
    field,          \* the field owner's publications
    ignored         \* history: the generations whose failed release was ignored

broker == <<publications, required, lastSequence, samples>>
vars == <<frame, state, waiting, broker, closed, field, ignored>>

Scopes == {"pixels", "both"}     \* both: pixels and accessibility

\* fresh is history: the sample was taken after the source's last boundary.
Publication == [gen : Nat, seq : Nat, scope : Scopes,
                status : {"published", "replayed"}, fresh : BOOLEAN]

\* old: a boundary lies after captured_at_ns.
Sample == [id : Captures, binding : Bindings, seq : Nat, scope : Scopes, old : BOOLEAN]

Record == [gen : Nat, seq : Nat, structure : BOOLEAN, pins : Nat]

\* current is _surface_current (0 for none), counter the last generation.
FieldType == [records : SUBSET Record, current : Nat, counter : Nat]

States == {"live", "release-pending", "unbound", "detached", "closed"}

Init ==
    /\ frame = [b \in Bindings |-> 1]
    /\ state = [b \in Bindings |-> "live"]
    /\ waiting = [b \in Bindings |-> FALSE]
    /\ publications = [b \in Bindings |-> {}]
    /\ required = [b \in Bindings |-> 0]
    /\ lastSequence = [b \in Bindings |-> 0]
    /\ samples = {}
    /\ closed = FALSE
    /\ field = [b \in Bindings |-> [records |-> {}, current |-> 0, counter |-> 0]]
    /\ ignored = [b \in Bindings |-> {}]

-----------------------------------------------------------------------------
(* The field owner; f is the part of the store that belongs to one binding *)

Pinned(f, g) == \E r \in f.records : r.gen = g /\ r.pins > 0

\* release_surface_publication of the generations G: one that loses its last pin stays
\* only as the baseline.
Released(f, G) ==
    [f EXCEPT !.records =
        {IF r.gen \in G /\ r.pins > 0 THEN [r EXCEPT !.pins = @ - 1] ELSE r :
            r \in {r \in @ : ~(r.gen \in G /\ r.pins = 1 /\ r.gen # f.current)}}]

\* The source's baseline is given up; its pins are not.
Invalidated(f) ==
    [f EXCEPT !.records = {r \in @ : ~(r.gen = f.current /\ r.pins = 0)},
              !.current = 0]

Baseline(f) == {r \in f.records : r.gen = f.current}

\* the generations the other bindings keep
Others(b) == Cardinality(UNION {{<<c, r.gen>> : r \in field[c].records} : c \in Bindings \ {b}})

Full(b, f) ==
    Cardinality({r \in f.records : r.pins > 0 \/ r.gen # f.current}) + Others(b) >= Capacity

\* The next generation becomes the baseline; an unpinned one makes room.
\* mutant of Advanced: the former baseline goes although it is pinned.
AdvancedAlone(f, s) ==
    [records |-> (f.records \ Baseline(f))
                 \cup {[gen |-> f.counter + 1, seq |-> s, structure |-> FALSE, pins |-> 1]},
     current |-> f.counter + 1, counter |-> f.counter + 1]

Advanced(f, s) ==
    [records |-> {r \in f.records : r.pins > 0 \/ r.gen # f.current}
                 \cup {[gen |-> f.counter + 1, seq |-> s, structure |-> FALSE, pins |-> 1]},
     current |-> f.counter + 1, counter |-> f.counter + 1]

Structured(f, g) ==
    [f EXCEPT !.records = {IF r.gen = g THEN [r EXCEPT !.structure = TRUE] ELSE r : r \in @}]

\* admit_surface_publication for pixels: the answer, and the store after it.  A
\* refusal costs the source its baseline, so that the same call may succeed later.
Admitted(b, f, s) ==
    LET base == Baseline(f) IN
    IF \E r \in base : r.seq = s /\ ~r.structure
      THEN [status |-> "replayed", gen |-> f.current, field |-> f]
    ELSE IF \E r \in base : r.seq >= s
      THEN [status |-> "refused", gen |-> 0, field |-> Invalidated(f)]
    ELSE IF Full(b, f)
      THEN [status |-> "wait", gen |-> 0, field |-> f]
    ELSE [status |-> "published", gen |-> f.counter + 1, field |-> Advanced(f, s)]

-----------------------------------------------------------------------------
(* _capture, for a capture and for the admission of a volatile sample *)

Gens(b) == {p.gen : p \in publications[b]}
Latest(b) == {p \in publications[b] : \A g \in Gens(b) : g <= p.gen}
Oldest(b) == {p \in publications[b] : \A g \in Gens(b) : p.gen <= g}

\* mutant of Repeats: after a boundary the last publication is not compared.
RepeatsUsable(b, s) == \E p \in Latest(b) : p.seq = s /\ p.gen > required[b]

\* The last publication shows this frame.
Repeats(b, s) == \E p \in Latest(b) : p.seq = s

\* mutant of Evicted: the newest publication makes room.
EvictedNewest(b) ==
    IF Cardinality(publications[b]) >= MaxPublications THEN Latest(b) ELSE {}

\* Room is made before the field is asked, whatever it answers.
Evicted(b) ==
    IF Cardinality(publications[b]) >= MaxPublications THEN Oldest(b) ELSE {}

Kept(b) == publications[b] \ Evicted(b)
Spared(b) == Released(field[b], {p.gen : p \in Evicted(b)})

Answer(b, s) == Admitted(b, Spared(b), s)

\* The field raises or has no room.
FieldRefuses(b, s) ==
    /\ ~Repeats(b, s)
    /\ Answer(b, s).status \in {"refused", "wait"}
    /\ publications' = [publications EXCEPT ![b] = Kept(b)]
    /\ field' = [field EXCEPT ![b] = Answer(b, s).field]
    /\ UNCHANGED <<required, lastSequence, samples, ignored>>

MayAnswer(b, s) ==
    /\ ~Repeats(b, s)
    /\ Answer(b, s).status \in {"published", "replayed"}
    /\ Answer(b, s).gen <= MaxGeneration

\* mutant of GivesBack: the generation is not given back.
ForgetsToGiveBack(b, s) ==
    /\ publications' = [publications EXCEPT ![b] = Kept(b)]
    /\ field' = [field EXCEPT ![b] = Answer(b, s).field]
    /\ UNCHANGED <<required, lastSequence, samples, ignored>>

\* The generation is given back, and whether that worked is not looked at.
GivesBack(b, s) ==
    LET a == Answer(b, s) IN
    /\ publications' = [publications EXCEPT ![b] = Kept(b)]
    /\ \/ /\ field' = [field EXCEPT ![b] = Released(a.field, {a.gen})]
          /\ UNCHANGED ignored
       \/ /\ "release" \in Faults
          /\ field' = [field EXCEPT ![b] = a.field]
          /\ ignored' = [ignored EXCEPT ![b] = @ \cup {a.gen}]
    /\ UNCHANGED <<required, lastSequence, samples>>

\* The pixels are in the field and their structure is refused.
StructureFails(b, s, scope) ==
    scope = "both" /\ "structure" \in Faults /\ MayAnswer(b, s) /\ GivesBack(b, s)

\* The field with the pixels and, if there is one, their structure.
Stored(b, s, scope) ==
    LET a == Answer(b, s) IN
    IF scope = "both" THEN Structured(a.field, a.gen) ELSE a.field

Retains(b, s, scope, fresh) ==
    LET a == Answer(b, s) IN
    /\ publications' = [publications EXCEPT ![b] =
            {p \in Kept(b) : p.gen # a.gen}
            \cup {[gen |-> a.gen, seq |-> s, scope |-> scope, status |-> a.status,
                   fresh |-> fresh]}]
    /\ field' = [field EXCEPT ![b] = Stored(b, s, scope)]
    /\ lastSequence' = [lastSequence EXCEPT ![b] = IF s > @ THEN s ELSE @]
    /\ UNCHANGED ignored

-----------------------------------------------------------------------------
(* capture *)

\* Afterwards nothing looks at the binding's state again.
AskCapture(b) ==
    /\ ~closed /\ ~waiting[b] /\ state[b] \in {"live", "release-pending"}
    /\ waiting' = [waiting EXCEPT ![b] = TRUE]
    /\ UNCHANGED <<frame, state, broker, closed, field, ignored>>

CaptureReturns(b) ==
    /\ waiting[b]
    /\ waiting' = [waiting EXCEPT ![b] = FALSE]
    /\ UNCHANGED <<frame, state, closed>>

\* The source, its backend or the release that makes room fails, or the source shows the
\* last publication's frame again: that is returned, or refused as a boundary asks for a
\* new one.
CaptureLeaves(b) ==
    /\ CaptureReturns(b)
    /\ UNCHANGED <<broker, field, ignored>>

Capture(b, scope) ==
    /\ CaptureReturns(b) /\ state[b] # "unbound"
    /\ MayAnswer(b, frame[b]) /\ Answer(b, frame[b]).gen > required[b]
    /\ Retains(b, frame[b], scope, TRUE)
    /\ UNCHANGED <<required, samples>>

\* The field answers a generation from before a boundary. It is given back, and the
\* capture refused whether or not that works.
Outdated(b, s, scope) ==
    LET a == Answer(b, s) IN
    /\ MayAnswer(b, s) /\ a.gen <= required[b]
    /\ publications' = [publications EXCEPT ![b] = Kept(b)]
    /\ \/ field' = [field EXCEPT ![b] = Released(Stored(b, s, scope),
                                                 {a.gen} \ {p.gen : p \in Kept(b)})]
       \/ "release" \in Faults /\ field' = [field EXCEPT ![b] = Stored(b, s, scope)]
    /\ UNCHANGED <<required, lastSequence, samples, ignored>>

CaptureFails(b, scope) ==
    /\ CaptureReturns(b) /\ state[b] # "unbound"
    /\ \/ FieldRefuses(b, frame[b])
       \/ StructureFails(b, frame[b], scope)
       \/ Outdated(b, frame[b], scope)

-----------------------------------------------------------------------------
(* Volatile samples *)

TakeSample(c, b, scope) ==
    /\ ~closed /\ state[b] = "live"
    /\ \A x \in samples : x.id # c
    /\ samples' = samples \cup {[id |-> c, binding |-> b, seq |-> frame[b],
                                scope |-> scope, old |-> FALSE]}
    /\ UNCHANGED <<frame, state, waiting, publications, required, lastSequence, closed,
                   field, ignored>>

Admits(x) ==
    /\ ~closed /\ state[x.binding] = "live"
    /\ UNCHANGED <<frame, state, waiting, closed>>

\* The sample is what the last publication shows.
AdmitKnown(x) ==
    /\ Admits(x) /\ Repeats(x.binding, x.seq)
    /\ \A p \in Latest(x.binding) : p.scope = x.scope
    /\ samples' = samples \ {x}
    /\ UNCHANGED <<publications, required, lastSequence, field, ignored>>

\* mutant of TooOld: a boundary after the sample does not count.
TooOldBySequence(x, g) ==
    g <= required[x.binding] \/ x.seq <= lastSequence[x.binding]

\* A sample from before a boundary or of an older frame is evidence, not a basis for
\* control.
TooOld(x, g) ==
    g <= required[x.binding] \/ x.old \/ x.seq <= lastSequence[x.binding]

Admit(x) ==
    LET g == Answer(x.binding, x.seq).gen IN
    /\ Admits(x) /\ MayAnswer(x.binding, x.seq)
    /\ Retains(x.binding, x.seq, x.scope, ~x.old)
    /\ required' = [required EXCEPT ![x.binding] =
                       IF TooOld(x, g) /\ g > @ THEN g ELSE @]
    /\ samples' = samples \ {x}

\* The sample stays and may be admitted again.
AdmitFails(x) ==
    /\ Admits(x)
    /\ FieldRefuses(x.binding, x.seq) \/ StructureFails(x.binding, x.seq, x.scope)

\* discard_volatile, a sample's expiry, or one that gives way to a newer sample
Discard(x) ==
    /\ samples' = samples \ {x}
    /\ UNCHANGED <<frame, state, waiting, publications, required, lastSequence, closed,
                   field, ignored>>

-----------------------------------------------------------------------------
(* Boundaries and the end of a binding *)

\* _require_fresh_capture: the boundary is the newest generation retained, or stays.
NeedsFresh(b) ==
    /\ \E n \in Gens(b) \cup {required[b]} :
          /\ \A g \in Gens(b) \cup {required[b]} : g <= n
          /\ required' = [required EXCEPT ![b] = n]
    /\ publications' = [publications EXCEPT ![b] = {[p EXCEPT !.fresh = FALSE] : p \in @}]
    /\ samples' = {IF x.binding = b THEN [x EXCEPT !.old = TRUE] ELSE x : x \in samples}
    /\ UNCHANGED <<frame, waiting, lastSequence, closed, field, ignored>>

\* A call or the watchdog fences the source.
Boundary(b) ==
    /\ state[b] \in {"live", "release-pending", "unbound"}
    /\ NeedsFresh(b)
    /\ UNCHANGED state

\* A capture finds the source changed and overwrites a release that is pending.
SourceChanged(b) ==
    /\ waiting[b] /\ state[b] = "release-pending"
    /\ NeedsFresh(b)
    /\ state' = [state EXCEPT ![b] = "live"]

\* The native source is let go; its publications stay.
Unbind(b) ==
    /\ ~closed /\ state[b] \in {"live", "release-pending"}
    /\ state' = [state EXCEPT ![b] = "unbound"]
    /\ samples' = {x \in samples : x.binding # b}
    /\ UNCHANGED <<frame, waiting, publications, required, lastSequence, closed, field,
                   ignored>>

\* The oldest go first; at the first one the field does not release, the rest stay.
Release(b, rest) ==
    /\ ~closed /\ state[b] \in {"live", "release-pending", "unbound"}
    /\ \A p \in publications[b] \ rest, q \in rest : p.gen < q.gen
    /\ rest # {} => "release" \in Faults
    /\ publications' = [publications EXCEPT ![b] = rest]
    /\ field' = [field EXCEPT ![b] =
            Released(@, {p.gen : p \in publications[b] \ rest})]
    /\ state' = [state EXCEPT ![b] =
            IF rest = {} THEN "detached" ELSE IF @ = "unbound" THEN @ ELSE "release-pending"]
    /\ UNCHANGED <<frame, waiting, required, lastSequence, samples, closed, ignored>>

Close ==
    /\ ~closed
    /\ closed' = TRUE
    /\ UNCHANGED <<frame, state, waiting, broker, field, ignored>>

\* close at one binding: what the field does not release is forgotten too.
CloseBinding(b, unreleased) ==
    /\ closed /\ state[b] \in {"live", "release-pending", "unbound"}
    /\ unreleased # {} => "release" \in Faults
    /\ state' = [state EXCEPT ![b] = "closed"]
    /\ publications' = [publications EXCEPT ![b] = {}]
    /\ field' = [field EXCEPT ![b] =
            Released(@, {p.gen : p \in publications[b] \ unreleased})]
    /\ ignored' = [ignored EXCEPT ![b] = @ \cup {p.gen : p \in unreleased}]
    /\ UNCHANGED <<frame, waiting, required, lastSequence, samples, closed>>

\* The environment: the source shows another frame.
SourceShows(b) ==
    /\ frame[b] < MaxFrame
    /\ frame' = [frame EXCEPT ![b] = @ + 1]
    /\ UNCHANGED <<state, waiting, broker, closed, field, ignored>>

Next ==
    \/ \E b \in Bindings : \/ AskCapture(b) \/ CaptureLeaves(b)
                          \/ Boundary(b) \/ SourceChanged(b) \/ Unbind(b) \/ SourceShows(b)
    \/ \E b \in Bindings, scope \in Scopes :
          \/ Capture(b, scope) \/ CaptureFails(b, scope)
          \/ \E c \in Captures : TakeSample(c, b, scope)
    \/ \E x \in samples : AdmitKnown(x) \/ Admit(x) \/ AdmitFails(x) \/ Discard(x)
    \/ \E b \in Bindings : \E P \in SUBSET publications[b] : Release(b, P) \/ CloseBinding(b, P)
    \/ Close

Spec == Init /\ [][Next]_vars

-----------------------------------------------------------------------------
(* Properties *)

TypeOK ==
    /\ frame \in [Bindings -> Nat] /\ required \in [Bindings -> Nat]
    /\ lastSequence \in [Bindings -> Nat]
    /\ state \in [Bindings -> States]
    /\ waiting \in [Bindings -> BOOLEAN]
    /\ publications \in [Bindings -> SUBSET Publication]
    /\ samples \in SUBSET Sample
    /\ closed \in BOOLEAN
    /\ field \in [Bindings -> FieldType]
    /\ ignored \in [Bindings -> SUBSET Nat]

\* The field keeps a generation only while the broker retains it or it is the source's
\* baseline, and a baseline the broker does not retain is not pinned: whatever fails in
\* between, a pin is given back, except where the code ignores that the release failed
\* (GivesBack, CloseBinding).
NothingOrphaned ==
    \A b \in Bindings : \A r \in field[b].records :
        r.gen \notin ignored[b] =>
            /\ r.pins > 0 => r.gen \in Gens(b)
            /\ r.pins = 0 => r.gen = field[b].current

\* Every publication the broker retains, and so lets be read and depended on, is pinned in
\* the field, unless the field answered "replayed" when it was admitted: then it was
\* given back before and has no pin, and goes with the next generation.
RetainedIsHeld ==
    \A b \in Bindings : \A p \in publications[b] :
        p.status = "published" => Pinned(field[b], p.gen)

Usable(b) == {p \in publications[b] : state[b] = "live" /\ p.gen > required[b]}

\* Control never depends on a sample from before the source's last boundary, however the
\* sample reached the field: captured, admitted late, refused and admitted again.
UsableIsFresh == \A b \in Bindings : \A p \in Usable(b) : p.fresh

\* A publication control may depend on shows a newer frame than every earlier one ("a new
\* source sample is required before control"), unless the one before it was an older
\* sample, admitted late: after it a frame that was published already counts as new.
FreshIsNewer ==
    [][\A b \in Bindings : \A p \in Usable(b)' :
          \/ p.gen \in Gens(b)
          \/ p.seq > lastSequence[b]
          \/ \E q \in Latest(b) : q.seq < lastSequence[b]]_vars

\* An observation control may depend on is lost only to a release, or to the last of
\* MaxPublications - 1 newer ones: refused and failed calls do not use it up.
ObservationsSurvive ==
    [][\A b \in Bindings : \A p \in Usable(b) :
          \/ p.gen \in Gens(b)'
          \/ state[b]' \in {"release-pending", "unbound", "detached", "closed"}
          \/ Cardinality({g \in Gens(b)' : g > p.gen}) >= MaxPublications - 1]_vars
=============================================================================
