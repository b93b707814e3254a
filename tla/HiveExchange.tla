---------------------------- MODULE HiveExchange ----------------------------
(***************************************************************************)
(* The shared hive of src/CassiFI: the content-addressed store with its    *)
(* SQLite index (cassi_hive_store.py), leaders that promote reviewed       *)
(* candidates (cassi_hive_promotion.py, cassi_hive_coordinator.py), and    *)
(* members that apply published bundles to the field they own              *)
(* (cassi_hive_runtime.py, cassi_field_hive.py).  Each of them is a        *)
(* process of its own that may crash between any two steps; what is        *)
(* durable is the object files, the SQLite rows, the members' fields and   *)
(* the members' session state files.  A step is one store call, one        *)
(* transaction, one owner commit or one atomic file replacement.           *)
(***************************************************************************)
EXTENDS Naturals, Sequences, FiniteSets

CONSTANTS
    Leaders, Members,
    Candidates,      \* candidate groups: compatible capsules of one program
    Scouts,          \* instances whose capsules support a candidate
    Reviewers,
    Results,         \* bound: the verdicts reviewers give
    MinSupport,      \* minimum_support_reviews
    MaxGeneration,   \* bound: bundles published
    MaxStored,       \* bound: bundle objects stored, published or not
    MaxRevoked,      \* bound: bundles revoked
    Fits,            \* candidates whose bundles _bundle_allowed lets through
    Clashes,         \* candidates whose program id a field uses otherwise
    Promoting,       \* candidates applied by promote-program, not configure
    HeldOut          \* candidates whose bundle carries a held-out witness

Reviews == Reviewers \X Results

\* A bundle is named by its content; equal content is the same object.
Bundles == [cand : Candidates, pred : Nat, leader : Leaders,
            sources : SUBSET Scouts, reviews : SUBSET Reviews]

ASSUME HiveAssumption ==
    /\ Candidates # {} /\ Leaders # {}
    /\ MaxGeneration \in Nat
    /\ MaxStored \in Nat
    /\ MaxRevoked \in Nat
    /\ Results \subseteq {"supports", "refutes"}
    /\ MinSupport \in Nat
    /\ Fits \in [Members -> SUBSET Candidates]
    /\ Clashes \in [Members -> SUBSET Candidates]
    /\ Promoting \subseteq Candidates
    /\ HeldOut \subseteq Candidates

VARIABLES
    capsules,    \* indexed capsules, by candidate
    reviews,     \* indexed reviews, by candidate
    files,       \* bundle object files
    index,       \* bundles with an objects row
    events,      \* the branch's bundle events, in generation order
    generation,  \* the branch's generation row
    revoked,     \* bundles with a revocations row
    receipts,    \* adoptions rows: member, bundle, status
    leader,      \* the leaders' passes
    own,         \* programs each member's field made itself
    field,       \* programs in each member's field
    assessed,    \* programs with a held-out assessment added to them
    saved,       \* the members' session state files
    member       \* the members' sessions

vars == <<capsules, reviews, files, index, events, generation, revoked,
          receipts, leader, own, field, assessed, saved, member>>

evidence == <<capsules, reviews>>
store == <<files, index, events, generation, revoked, receipts>>
fields == <<own, field, assessed, saved>>

NoBundle == [cand |-> CHOOSE c \in Candidates : TRUE, pred |-> 0,
             leader |-> CHOOSE l \in Leaders : TRUE,
             sources |-> {}, reviews |-> {}]

Statuses == {"accepted", "replayed", "refused"}

\* todo: the groups run_once has still to look at; expected: what
\* publish_bundle was told the generation is.
LeaderType ==
    [pc : {"idle", "scan", "build", "put", "index", "publish"},
     todo : SUBSET Candidates, bundle : Bundles, expected : Nat]

IdleLeader == [pc |-> "idle", todo |-> {}, bundle |-> NoBundle,
               expected |-> 0]

\* The documents of a sync are events[at .. upto]: listed once, in order.
MemberType ==
    [pc : {"closed", "idle", "check", "apply", "heldout", "record", "save"},
     gen : Nat, at : Nat, upto : Nat, status : Statuses]

Closed == [pc |-> "closed", gen |-> 0, at |-> 0, upto |-> 0,
           status |-> "refused"]

Init ==
    /\ capsules = [c \in Candidates |-> {}]
    /\ reviews = [c \in Candidates |-> {}]
    /\ files = {}
    /\ index = {}
    /\ events = <<>>
    /\ generation = 0
    /\ revoked = {}
    /\ receipts = {}
    /\ leader = [l \in Leaders |-> IdleLeader]
    /\ own \in [Members -> SUBSET Candidates]
    /\ \A m \in Members : own[m] \cap Clashes[m] = {}
    /\ field = own
    /\ assessed = [m \in Members |-> {}]
    /\ saved = [m \in Members |-> 0]
    /\ member = [m \in Members |-> Closed]

-----------------------------------------------------------------------------
(* Evidence and its review *)

\* put_capsule: the candidate groups see a capsule once it is indexed.
Collect(c, s) ==
    /\ capsules' = [capsules EXCEPT ![c] = @ \cup {s}]
    /\ UNCHANGED <<reviews, store, leader, fields, member>>

\* put_review, through DeterministicReviewer.admit: the group must exist and
\* an originating instance is not asked to review its own capsule.
Review(c, r) ==
    /\ capsules[c] # {}
    /\ reviews' = [reviews EXCEPT ![c] = @ \cup {r}]
    /\ UNCHANGED <<capsules, store, leader, fields, member>>

\* revoke_bundle: any stored bundle, published or not.
Revoke(b) ==
    /\ b \in files
    /\ Cardinality(revoked) < MaxRevoked
    /\ revoked' = revoked \cup {b}
    /\ UNCHANGED <<evidence, files, index, events, generation, receipts,
                   leader, fields, member>>

-----------------------------------------------------------------------------
(* Leaders: PromotionLoop.run_once *)

Supports(rs) == Cardinality({r \in rs : r[2] = "supports"})

Eligible(rs) == Supports(rs) >= MinSupport /\ \A r \in rs : r[2] # "refutes"

\* the bundles list_bundles returns, as the sources they were built from
PublishedSources ==
    UNION {{events[i].cand} \X events[i].sources : i \in 1..Len(events)}

AllPublished(c) == {c} \X capsules[c] \subseteq PublishedSources

\* mutant of RunOnce: every group is taken up, published or not
RunOnceAfresh(l) ==
    /\ leader[l].pc = "idle"
    /\ leader' = [leader EXCEPT ![l] =
            [IdleLeader EXCEPT !.pc = "scan",
                               !.todo = {c \in Candidates : capsules[c] # {}}]]
    /\ UNCHANGED <<evidence, store, fields, member>>

\* The groups and the published sources are read once, before any group is
\* looked at; a group whose capsules are all published is skipped.
RunOnce(l) ==
    /\ leader[l].pc = "idle"
    /\ leader' = [leader EXCEPT ![l] =
            [IdleLeader EXCEPT !.pc = "scan",
                               !.todo = {c \in Candidates : ~AllPublished(c)}]]
    /\ UNCHANGED <<evidence, store, fields, member>>

Dismiss(l, c) ==
    leader' = [leader EXCEPT ![l].pc = "scan", ![l].todo = @ \ {c},
                             ![l].bundle = NoBundle, ![l].expected = 0]

Skip(l, c) ==
    /\ leader[l].pc = "scan" /\ c \in leader[l].todo
    /\ ~Eligible(reviews[c])
    /\ Dismiss(l, c)
    /\ UNCHANGED <<evidence, store, fields, member>>

\* The reviews read here are the ones the bundle will carry.
Select(l, c) ==
    /\ leader[l].pc = "scan" /\ c \in leader[l].todo
    /\ Eligible(reviews[c])
    /\ leader' = [leader EXCEPT ![l].pc = "build",
                                ![l].bundle = [NoBundle EXCEPT
                                    !.cand = c, !.leader = l,
                                    !.reviews = reviews[c]]]
    /\ UNCHANGED <<evidence, store, fields, member>>

\* promote reads the groups and the generation again and builds the bundle.
Build(l) ==
    /\ leader[l].pc = "build"
    /\ generation < MaxGeneration
    /\ leader' = [leader EXCEPT ![l].pc = "put",
                    ![l].bundle.sources = capsules[leader[l].bundle.cand],
                    ![l].bundle.pred = generation]
    /\ UNCHANGED <<evidence, store, fields, member>>

\* put_document, first half: the object file.  The expected generation was
\* read, once more, when publish_bundle was called.
PutObject(l) ==
    /\ leader[l].pc = "put"
    /\ files' = files \cup {leader[l].bundle}
    /\ Cardinality(files') <= MaxStored
    /\ leader' = [leader EXCEPT ![l].pc = "index",
                                ![l].expected = generation]
    /\ UNCHANGED <<evidence, index, events, generation, revoked, receipts,
                   fields, member>>

\* mutant of IndexObject: the branch event is the index
IndexObjectLater(l) ==
    /\ leader[l].pc = "index"
    /\ leader' = [leader EXCEPT ![l].pc = "publish"]
    /\ UNCHANGED <<evidence, store, fields, member>>

\* put_document, second half: the objects row.
IndexObject(l) ==
    /\ leader[l].pc = "index"
    /\ index' = index \cup {leader[l].bundle}
    /\ leader' = [leader EXCEPT ![l].pc = "publish"]
    /\ UNCHANGED <<evidence, files, events, generation, revoked, receipts,
                   fields, member>>

HasEvent(b) == \E i \in 1..Len(events) : events[i] = b

\* mutant of MayPublish: the generation is compared before the transaction
MayPublishUnlocked(l) == leader[l].expected = leader[l].bundle.pred

MayPublish(l) ==
    /\ leader[l].expected = leader[l].bundle.pred
    /\ generation = leader[l].expected

\* The transaction of publish_bundle: event and generation, or neither.
Publish(l) ==
    /\ leader[l].pc = "publish"
    /\ \/ /\ MayPublish(l) /\ ~HasEvent(leader[l].bundle)
          /\ events' = Append(events, leader[l].bundle)
          /\ generation' = leader[l].bundle.pred + 1
       \/ /\ ~MayPublish(l) \/ HasEvent(leader[l].bundle)
          /\ UNCHANGED <<events, generation>>
    /\ Dismiss(l, leader[l].bundle.cand)
    /\ UNCHANGED <<evidence, files, index, revoked, receipts, fields, member>>

\* The end of a pass, or of the leader's process.
PassEnds(l) ==
    /\ leader[l].pc # "idle"
    /\ leader' = [leader EXCEPT ![l] = IdleLeader]
    /\ UNCHANGED <<evidence, store, fields, member>>

-----------------------------------------------------------------------------
(* Members: HiveField.sync and _apply_available *)

\* mutant of Open: the session starts from the generation of the hive
OpenAtHead(m) ==
    /\ member[m].pc = "closed"
    /\ member' = [member EXCEPT ![m] = [Closed EXCEPT !.pc = "idle",
                                                      !.gen = generation]]
    /\ UNCHANGED <<evidence, store, leader, fields>>

\* The state is loaded, and written back as it is.
Open(m) ==
    /\ member[m].pc = "closed"
    /\ member' = [member EXCEPT ![m] = [Closed EXCEPT !.pc = "idle",
                                                      !.gen = saved[m]]]
    /\ UNCHANGED <<evidence, store, leader, fields>>

\* list_bundle_documents(after_generation=common_generation)
Sync(m) ==
    /\ member[m].pc = "idle"
    /\ member' = [member EXCEPT ![m].pc = "check",
                                ![m].at = member[m].gen + 1,
                                ![m].upto = Len(events)]
    /\ UNCHANGED <<evidence, store, leader, fields>>

Current(m) == events[member[m].at]
Rests(m) == member' = [member EXCEPT ![m].pc = "idle", ![m].at = 0,
                                     ![m].upto = 0, ![m].status = "refused"]

Listed(m) == member[m].at <= member[m].upto

\* Nothing is left, or the bundle is revoked or out of turn: the pass ends.
SyncEnds(m) ==
    Listed(m) => ~(/\ Current(m) \notin revoked
                   /\ Current(m).cand \in Fits[m] =>
                        Current(m).pred = member[m].gen)

\* One turn of the loop up to the call of the adapter: a bundle that is not
\* allowed is passed over, and the next one is then out of turn.
Check(m) ==
    /\ member[m].pc = "check"
    /\ \/ /\ SyncEnds(m)
          /\ Rests(m)
       \/ /\ ~SyncEnds(m)
          /\ Current(m).cand \notin Fits[m]
          /\ member' = [member EXCEPT ![m].at = @ + 1]
       \/ /\ ~SyncEnds(m)
          /\ Current(m).cand \in Fits[m]
          /\ member' = [member EXCEPT ![m].pc = "apply"]
    /\ UNCHANGED <<evidence, store, leader, fields>>

Reports(m, status) ==
    member' = [member EXCEPT ![m].pc = "record", ![m].status = status]

\* mutant of Same: a promotion is compared with its assessments
SameExact(m, c) == c \in field[m] /\ c \notin assessed[m]

\* The field already has the bundle's program, equal to the bundle's copy: a
\* held-out assessment changes a configured program, and a promotion is
\* compared without its assessments.
Same(m, c) == c \in field[m] /\ (c \in Promoting \/ c \notin assessed[m])

\* apply_bundle_to_owner, which is not told what has been revoked.  What the
\* field already has is a replay, another program with its identity is
\* refused, and a new one is committed at once.  A promotion commits its
\* candidate and its witnesses first; a retry goes on with those, so only the
\* promotion counts as being in the field.
Apply(m) ==
    LET c == Current(m).cand IN
    /\ member[m].pc = "apply"
    /\ \/ /\ Same(m, c)
          /\ Reports(m, "replayed")
          /\ UNCHANGED field
       \/ /\ ~Same(m, c) /\ c \in field[m] \cup Clashes[m]
          /\ Reports(m, "refused")
          /\ UNCHANGED field
       \/ /\ c \notin field[m] \cup Clashes[m]
          /\ field' = [field EXCEPT ![m] = @ \cup {c}]
          /\ IF c \in HeldOut
             THEN member' = [member EXCEPT ![m].pc = "heldout"]
             ELSE Reports(m, "accepted")
    /\ UNCHANGED <<evidence, store, leader, own, assessed, saved>>

\* The held-out assessment follows the commit.  When it cannot be made, or
\* does not resolve, apply_bundle_to_owner raises.
Assess(m) ==
    /\ member[m].pc = "heldout"
    /\ \/ /\ assessed' = [assessed EXCEPT ![m] = @ \cup {Current(m).cand}]
          /\ Reports(m, "accepted") \/ Rests(m)
       \/ /\ Rests(m)
          /\ UNCHANGED assessed
    /\ UNCHANGED <<evidence, store, leader, own, field, saved>>

\* record_adoption: the adoptions row
Record(m) ==
    /\ member[m].pc = "record"
    /\ receipts' = receipts \cup {<<m, Current(m), member[m].status>>}
    /\ member' = [member EXCEPT ![m].pc = "save"]
    /\ UNCHANGED <<evidence, files, index, events, generation, revoked,
                   leader, fields>>

\* mutant of RecordFails: an adoption that was not recorded is saved
RecordFailsQuietly(m) ==
    /\ member[m].pc = "record"
    /\ member' = [member EXCEPT ![m].pc = "save"]
    /\ UNCHANGED <<evidence, store, leader, fields>>

RecordFails(m) ==
    /\ member[m].pc = "record"
    /\ Rests(m)
    /\ UNCHANGED <<evidence, store, leader, fields>>

\* mutant of Writes: the file says one bundle more
WritesAhead(m, gen) == saved' = [saved EXCEPT ![m] = gen + 1]

\* _save_state: the state file comes to say what the session's memory does.
Writes(m, gen) == saved' = [saved EXCEPT ![m] = gen]

\* mutant of Save: a bundle the field refused is counted like any other
SaveAny(m) ==
    /\ member[m].pc = "save"
    /\ Writes(m, Current(m).pred + 1)
    /\ member' = [member EXCEPT ![m].pc = "check", ![m].at = @ + 1,
                                ![m].gen = Current(m).pred + 1,
                                ![m].status = "refused"]
    /\ UNCHANGED <<evidence, store, leader, own, field, assessed>>

\* The session state in memory, then its file: a refused bundle, too, has the
\* whole state written, with whatever generation memory has reached.
Save(m) ==
    /\ member[m].pc = "save"
    /\ \/ /\ member[m].status # "refused"
          /\ Writes(m, Current(m).pred + 1)
          /\ member' = [member EXCEPT ![m].pc = "check", ![m].at = @ + 1,
                                      ![m].gen = Current(m).pred + 1,
                                      ![m].status = "refused"]
       \/ /\ member[m].status = "refused"
          /\ Writes(m, member[m].gen)
          /\ Rests(m)
    /\ UNCHANGED <<evidence, store, leader, own, field, assessed>>

\* The file cannot be written.  The error leaves sync and not the session,
\* whose memory has counted the bundle: its next sync goes on from there.
SaveFails(m) ==
    /\ member[m].pc = "save"
    /\ \/ /\ member[m].status # "refused"
          /\ member' = [member EXCEPT ![m] =
                [Closed EXCEPT !.pc = "idle", !.gen = Current(m).pred + 1]]
       \/ /\ member[m].status = "refused"
          /\ Rests(m)
    /\ UNCHANGED <<evidence, store, leader, fields>>

\* Other calls write the session state as well: configure_exchange,
\* publish_experience, a sync that only stages.
Rewrite(m) ==
    /\ member[m].pc = "idle"
    /\ Writes(m, member[m].gen)
    /\ UNCHANGED <<evidence, store, leader, own, field, assessed, member>>

\* close, with a last write of the session state
Close(m) ==
    /\ member[m].pc = "idle"
    /\ Writes(m, member[m].gen)
    /\ member' = [member EXCEPT ![m] = Closed]
    /\ UNCHANGED <<evidence, store, leader, own, field, assessed>>

\* A close that could not write, or a crash: only what is durable remains.
Leave(m) ==
    /\ member[m].pc # "closed"
    /\ member' = [member EXCEPT ![m] = Closed]
    /\ UNCHANGED <<evidence, store, leader, fields>>

-----------------------------------------------------------------------------
Lead(l) ==
    \/ RunOnce(l) \/ Build(l) \/ PutObject(l) \/ IndexObject(l)
    \/ Publish(l) \/ PassEnds(l)
    \/ \E c \in Candidates : Skip(l, c) \/ Select(l, c)

Follow(m) ==
    \/ Open(m) \/ Sync(m) \/ Check(m) \/ Apply(m) \/ Assess(m)
    \/ Record(m) \/ RecordFails(m) \/ Save(m) \/ SaveFails(m)
    \/ Rewrite(m) \/ Close(m) \/ Leave(m)

Next ==
    \/ \E c \in Candidates, s \in Scouts : Collect(c, s)
    \/ \E c \in Candidates, r \in Reviews : Review(c, r)
    \/ \E b \in files : Revoke(b)
    \/ \E l \in Leaders : Lead(l)
    \/ \E m \in Members : Follow(m)

Spec == Init /\ [][Next]_vars

\* A member keeps opening, syncing and closing, and no crash, store error or
\* failed write strikes one and the same step for ever.
MemberFairness(m) ==
    /\ SF_vars(Open(m)) /\ SF_vars(Sync(m)) /\ SF_vars(Check(m))
    /\ SF_vars(Apply(m)) /\ SF_vars(Assess(m)) /\ SF_vars(Record(m))
    /\ SF_vars(Save(m)) /\ SF_vars(Close(m))

FairSpec == Spec /\ \A m \in Members : MemberFairness(m)

-----------------------------------------------------------------------------
\* The shape of the state; a session that works on a listing is inside it
\* and past what it acknowledged.
TypeOK ==
    /\ capsules \in [Candidates -> SUBSET Scouts]
    /\ reviews \in [Candidates -> SUBSET Reviews]
    /\ files \subseteq Bundles
    /\ index \subseteq Bundles
    /\ events \in Seq(Bundles)
    /\ generation \in Nat
    /\ revoked \subseteq Bundles
    /\ receipts \subseteq Members \X Bundles \X Statuses
    /\ leader \in [Leaders -> LeaderType]
    /\ own \in [Members -> SUBSET Candidates]
    /\ field \in [Members -> SUBSET Candidates]
    /\ assessed \in [Members -> SUBSET Candidates]
    /\ saved \in [Members -> Nat]
    /\ member \in [Members -> MemberType]
    /\ \A m \in Members : member[m].pc \notin {"closed", "idle"} =>
        /\ member[m].upto <= Len(events)
        /\ member[m].at \in (member[m].gen + 1)..(member[m].upto + 1)

\* publish_bundle: however leaders race and crash, the branch has one bundle
\* per generation, each built for the generation it follows, and the
\* generation row counts them.
LineageDense ==
    /\ generation = Len(events)
    /\ \A i \in 1..Len(events) : events[i].pred = i - 1

\* A branch event never points at a bundle whose object a crash left out of
\* the store or of its index.
PublishedIsStored ==
    \A i \in 1..Len(events) : events[i] \in files \cap index

\* The programs of the first n bundles
Programs(n) == {events[i].cand : i \in 1..n}

\* Across crashes, reopened sessions and state files that could not be
\* written, a member's field is its own programs and those of the lineage up
\* to some bundle: none is passed over, none is taken out of turn, and the
\* state file counts none that is not there.
FieldFollowsLineage ==
    \A m \in Members : \E n \in saved[m]..Len(events) :
        field[m] = own[m] \cup Programs(n)

\* Every adoption a state file counts has its receipt in the hive.
AdoptionsReceipted ==
    \A m \in Members : \A i \in 1..saved[m] :
        \E status \in {"accepted", "replayed"} :
            <<m, events[i], status>> \in receipts

\* PromotionReport: "One idempotent leader-loop pass".  With one leader,
\* whenever it crashes and however often it runs, a published bundle brings
\* at least one capsule that no earlier bundle of its candidate had.
PromotedOnce ==
    \A i, j \in 1..Len(events) :
        i < j /\ events[i].cand = events[j].cand
            => ~(events[j].sources \subseteq events[i].sources)

\* The bundles that stop a member: revoked, bound to another profile, at odds
\* with the member's field, or of a configured program the field has already
\* assessed, which is no longer equal to the bundle's copy.  That is the case
\* of a bundle whose adoption was interrupted before the state file counted
\* it, and of every further bundle of such a program.
Stalls(m, b) == \/ b \in revoked
                \/ b.cand \notin Fits[m]
                \/ b.cand \in Clashes[m]
                \/ b.cand \in assessed[m] \ Promoting

\* Once no more is published, a member has acknowledged the whole lineage,
\* whatever crashes of its sessions and failures of the store and of its state
\* file it met, or the next bundle is one that stops it for good.
MembersCatchUp ==
    \A m \in Members :
        <>[](saved[m] < generation => Stalls(m, events[saved[m] + 1]))

\* README.md, on what crosses field profiles: "generation, revocation, and
\* real owner checkpoint guards are still verified at admission".  A member
\* never admits a bundle that has been revoked.
RevocationVerified ==
    [][\A m \in Members : field'[m] # field[m] => Current(m) \notin revoked]_vars

ProgramOf(b) == b.cand
PredecessorOf(b) == b.pred

Contract == INSTANCE HiveContract WITH
    lineage <- events, held <- field, acked <- saved

\* The hive, with its store, races and crashes, is the contract's lineage.
KeepsContract == Contract!CSpec
=============================================================================
