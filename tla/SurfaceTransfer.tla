-------------------------- MODULE SurfaceTransfer --------------------------
(***************************************************************************)
(* The artifact transfer of src/CassiQwen/surface/transfer.py:             *)
(* ScopedArtifactTransfer.transfer on a POSIX file system.  Calls of any   *)
(* number of processes are serialised by the ledger's file lock, so one    *)
(* job stands for whichever call holds it; it may fail or crash between    *)
(* any two steps.  Records are replaced atomically, a file is published by *)
(* linking the staged one to its destination and then unlinking the stage. *)
(* Other programs create and remove files at the destinations meanwhile.   *)
(***************************************************************************)
EXTENDS Integers, FiniteSets, FiniteSetsExt

CONSTANTS
    Requests,     \* the metadata of the calls: id, dest, want, size and
                  \* meta, the size of the record that names no source yet
    Sources,      \* source contents callers supply
    Contents,     \* what files hold
    Converted,    \* the content each source converts to; itself if exact
    Limit,        \* max_retained_bytes
    Reservation,  \* _MAX_RECEIPT_RESERVATION
    Published,    \* what naming a source adds to a record,
    Finished,     \* and what it adds once the record is complete
    MaxFailures,  \* bound: calls that fail or crash
    MaxRemoved    \* bound: files other programs remove, one per destination

Ids == {r.id : r \in Requests}
Dests == {r.dest : r \in Requests}

ASSUME TransferAssumption ==
    /\ Requests # {} /\ IsFiniteSet(Requests) /\ Sources # {}
    /\ Converted \in [Sources -> Contents]
    /\ \A r \in Requests : /\ r.want \in Contents /\ r.size \in Nat
                           /\ r.meta \in 0..Reservation
    /\ "none" \notin Contents \cup Sources \cup Ids /\ "other" \notin Ids
    /\ Limit \in Nat
    /\ Reservation \in Nat
    /\ Published \in [Sources -> Nat]
    /\ Finished \in [Sources -> Nat]
    /\ MaxFailures \in Nat
    /\ MaxRemoved \in Nat

VARIABLES
    record,    \* the ledger's records, by transfer id
    stage,     \* the staging files, by transfer id
    file,      \* the destinations
    job,       \* the call that holds the lock
    failures,  \* calls that failed or crashed so far
    removed    \* destinations other programs have removed files from

vars == <<record, stage, file, job, failures, removed>>

\* status "none" is no record and source "none" no source_sha256.
RecordType ==
    [status : {"none", "incomplete", "publishing", "complete"},
     request : Requests, source : Sources \cup {"none"}]

\* by tells one inode from another: the transfer that staged it, or nobody.
Absent == [bytes |-> "none", by |-> "none"]
FileType == [bytes : Contents \cup {"partial"}, by : Ids \cup {"other"}] \cup {Absent}

JobType ==
    [pc : {"idle", "look", "source", "writing", "check", "publish", "link",
           "unlink", "verify", "finalize"},
     id : Ids, source : Sources, present : BOOLEAN]

Idle == [pc |-> "idle", id |-> CHOOSE i \in Ids : TRUE,
         source |-> CHOOSE s \in Sources : TRUE, present |-> FALSE]

Init ==
    /\ record = [i \in Ids |->
            [status |-> "none", source |-> "none",
             request |-> CHOOSE r \in Requests : r.id = i]]
    /\ stage = [i \in Ids |-> "none"]
    /\ file = [d \in Dests |-> Absent]
    /\ job = Idle
    /\ failures = 0
    /\ removed = {}

-----------------------------------------------------------------------------
(* Helpers: the record, the destination and the stage of a transfer *)

Named(i) == record[i].status # "none"
Complete(i) == record[i].status = "complete"
Want(i) == record[i].request.want
Dest(i) == record[i].request.dest

Present(i) == file[Dest(i)] # Absent
Holds(i) == file[Dest(i)].bytes = Want(i)

\* mutant of Verified: the file is there, its digest is not compared
VerifiedPresence(i) == Present(i)

\* _verify_file of the destination
Verified(i) == Holds(i)

Staged(i) == stage[i] # "none"

\* mutant of SameFile: a second name for the stage is not recognised
SameFileNever(i) == FALSE

\* os.path.samefile(stage, destination)
SameFile(i) == Staged(i) /\ file[Dest(i)].by = i

\* The bytes of a record.  _identity_record compares the record that names
\* no source with its reservation; the source and the status come later.
RecordSize(i) ==
    LET s == record[i].source IN
    record[i].request.meta + IF s = "none" THEN 0
                             ELSE IF Complete(i) THEN Finished[s] ELSE Published[s]

TooLong(i) == Named(i) /\ RecordSize(i) > Reservation

\* _read_record and _retained_usage raise at the first record too long.
Readable == \A i \in Ids : ~TooLong(i)

\* what a record counts for in _retained_usage
Usage(i) ==
    IF ~Named(i) THEN 0
    ELSE record[i].request.size + IF Complete(i) THEN RecordSize(i) ELSE Reservation

RetainedUsage == MapThenSumSet(Usage, Ids)

At(pc) == job.pc = pc
Goes(pc) == job' = [job EXCEPT !.pc = pc]
Returns == job' = Idle

-----------------------------------------------------------------------------
(* The call *)

\* mutant of HasRoom: a record's reservation is not counted
HasRoomForBytes(r) == RetainedUsage + r.size <= Limit

HasRoom(r) == RetainedUsage + r.size + Reservation <= Limit

\* transfer, once it holds the lock: a new identity gets its record, a known
\* one goes on with the record it has.  Every other call raises, and every
\* call does while a record is too long.
Call(r, s) ==
    /\ At("idle") /\ Readable
    /\ \/ /\ ~Named(r.id) /\ HasRoom(r)
          /\ record' = [record EXCEPT ![r.id] =
                [status |-> "incomplete", request |-> r, source |-> "none"]]
       \/ /\ Named(r.id) /\ record[r.id].request = r
          /\ RetainedUsage <= Limit
          /\ UNCHANGED record
    /\ job' = [pc |-> "look", id |-> r.id, source |-> s, present |-> FALSE]
    /\ UNCHANGED <<stage, file, failures, removed>>

\* The destination as it is before the source is read
Look ==
    /\ At("look")
    /\ IF Present(job.id) => Verified(job.id)
       THEN job' = [job EXCEPT !.pc = "source", !.present = Present(job.id)]
       ELSE Returns
    /\ UNCHANGED <<record, stage, file, failures, removed>>

\* A copy is staged only for a transfer that has none and is not complete.
Source ==
    LET i == job.id IN
    /\ At("source")
    /\ \/ /\ Complete(i) \/ job.present
          /\ Goes("check")
          /\ UNCHANGED stage
       \/ /\ ~Complete(i) /\ ~job.present /\ Staged(i)
          /\ Returns
          /\ UNCHANGED stage
       \/ /\ ~Complete(i) /\ ~job.present /\ ~Staged(i)
          /\ stage' = [stage EXCEPT ![i] = "partial"]
          /\ Goes("writing")
    /\ UNCHANGED <<record, file, failures, removed>>

Written ==
    /\ At("writing")
    /\ Staged(job.id)
    /\ stage' = [stage EXCEPT ![job.id] = Converted[job.source]]
    /\ Goes("check")
    /\ UNCHANGED <<record, file, failures, removed>>

\* mutant of SourceAgrees: only the converted content is compared
SourceAgreesOutput(i) == Converted[job.source] = Want(i)

\* _check_content_identity
SourceAgrees(i) ==
    /\ Converted[job.source] = Want(i)
    /\ record[i].source \in {"none", job.source}

\* A complete transfer ends here, with its receipt or an error; any other
\* is recorded as publishing before its destination is touched.
Check ==
    LET i == job.id IN
    /\ At("check")
    /\ IF SourceAgrees(i) /\ ~Complete(i)
       THEN /\ record' = [record EXCEPT ![i].status = "publishing",
                                        ![i].source = job.source]
            /\ Goes("publish")
       ELSE Returns /\ UNCHANGED record
    /\ UNCHANGED <<stage, file, failures, removed>>

\* The destination is there: an earlier attempt of this transfer crashed
\* before it was finalized, or somebody else made the same file.
MayRecover(i) ==
    /\ Present(i) /\ Verified(i)
    /\ Staged(i) => SameFile(i)

\* mutant of StageVerified: the stage is what this call has just written
StageVerifiedBefore(i) == Staged(i)

StageVerified(i) == stage[i] = Want(i)

Publish ==
    LET i == job.id IN
    /\ At("publish")
    /\ \/ /\ MayRecover(i)
          /\ stage' = [stage EXCEPT ![i] = "none"]
          /\ Goes("finalize")
       \/ /\ ~Present(i) /\ StageVerified(i)
          /\ Goes("link")
          /\ UNCHANGED stage
       \/ /\ IF Present(i) THEN ~MayRecover(i) ELSE ~StageVerified(i)
          /\ Returns
          /\ UNCHANGED stage
    /\ UNCHANGED <<record, file, failures, removed>>

\* os.link, which never replaces what has appeared at the destination
Link ==
    LET i == job.id IN
    /\ At("link")
    /\ \/ /\ ~Present(i) /\ Staged(i)
          /\ file' = [file EXCEPT ![Dest(i)] = [bytes |-> stage[i], by |-> i]]
          /\ Goes("unlink")
       \/ /\ Present(i) \/ ~Staged(i)
          /\ Returns
          /\ UNCHANGED file
    /\ UNCHANGED <<record, stage, failures, removed>>

\* mutant of Unlink: the stage keeps its name beside the destination
UnlinkForgotten ==
    /\ At("unlink")
    /\ Goes("verify")
    /\ UNCHANGED <<record, stage, file, failures, removed>>

Unlink ==
    /\ At("unlink")
    /\ stage' = [stage EXCEPT ![job.id] = "none"]
    /\ Goes("verify")
    /\ UNCHANGED <<record, file, failures, removed>>

Verify ==
    /\ At("verify")
    /\ IF Verified(job.id) THEN Goes("finalize") ELSE Returns
    /\ UNCHANGED <<record, stage, file, failures, removed>>

Finalize ==
    /\ At("finalize")
    /\ record' = [record EXCEPT ![job.id].status = "complete"]
    /\ Returns
    /\ UNCHANGED <<stage, file, failures, removed>>

\* An error of the source or the file system, or a crash of the process
Fails ==
    /\ ~At("idle") /\ failures < MaxFailures
    /\ failures' = failures + 1
    /\ Returns
    /\ UNCHANGED <<record, stage, file, removed>>

-----------------------------------------------------------------------------
(* Other programs *)

Creates(d, bytes) ==
    /\ file[d] = Absent
    /\ file' = [file EXCEPT ![d] = [bytes |-> bytes, by |-> "other"]]
    /\ UNCHANGED <<record, stage, job, failures, removed>>

Removes(d) ==
    /\ file[d] # Absent
    /\ d \notin removed /\ Cardinality(removed) < MaxRemoved
    /\ file' = [file EXCEPT ![d] = Absent]
    /\ removed' = removed \cup {d}
    /\ UNCHANGED <<record, stage, job, failures>>

-----------------------------------------------------------------------------
Step ==
    \/ Look \/ Source \/ Written \/ Check \/ Publish \/ Link \/ Unlink
    \/ Verify \/ Finalize

Next ==
    \/ \E r \in Requests, s \in Sources : Call(r, s)
    \/ Step
    \/ Fails
    \/ \E d \in Dests, bytes \in Contents : Creates(d, bytes)
    \/ \E d \in Dests : Removes(d)

Spec == Init /\ [][Next]_vars

\* A call of transfer i with the content it declares and the source it used
Retries(i) ==
    \E r \in Requests, s \in Sources :
        /\ r.id = i /\ Converted[s] = r.want
        /\ record[i].source \in {"none", s}
        /\ Call(r, s)

\* The lock is always let go and the callers of a transfer keep retrying it
\* with the content they declared; the failures are bounded, so they end.
FairSpec == Spec /\ WF_vars(Step) /\ \A i \in Ids : SF_vars(Retries(i))

-----------------------------------------------------------------------------
\* The shape of the state; a call works on a transfer the ledger names.
TypeOK ==
    /\ record \in [Ids -> RecordType]
    /\ stage \in [Ids -> Contents \cup {"none", "partial"}]
    /\ file \in [Dests -> FileType]
    /\ job \in JobType
    /\ failures \in 0..MaxFailures
    /\ removed \subseteq Dests
    /\ ~At("idle") => Named(job.id)

\* CASSI-SURFACE-DESIGN.md: a crash leaves no fictitious finished file.  What
\* a transfer put at its destination is whole and what was declared, however
\* often it was retried and whatever stages earlier attempts left.
FinishedIsWhole ==
    \A i \in Ids : Named(i) /\ file[Dest(i)].by = i => Holds(i)

\* What a crash leaves is a named incomplete transfer: a stage belongs to a
\* record that is not complete, and a complete one has no stage left.
LeftoversNamed ==
    \A i \in Ids : Staged(i) => Named(i) /\ ~Complete(i)

\* A complete transfer's destination holds its bytes, be they its own or
\* found there, unless somebody has removed files from it.
CompleteIsThere ==
    \A i \in Ids : Complete(i) => Holds(i) \/ Dest(i) \in removed

\* By how much a receipt is longer than what was set aside for it
Excess(i) == IF Complete(i) /\ TooLong(i) THEN RecordSize(i) - Reservation ELSE 0

\* Whatever mixture of new, retried and completed transfers is retained, the
\* receipts with their reservations stay within the limit, but for what one
\* of them may have outgrown its reservation by: after that no call is let in.
RetainedBounded ==
    \E i \in Ids : /\ \A j \in Ids : TooLong(j) => j = i
                   /\ RetainedUsage <= Limit + Excess(i)

\* A transfer's record keeps its identity and, once it is known, its source,
\* and its status never goes back.
RecordsFinal ==
    [][\A i \in Ids : Named(i) =>
        /\ record'[i].request = record[i].request
        /\ record[i].source # "none" => record'[i].source = record[i].source
        /\ Complete(i) => Complete(i)']_vars

\* The transfers no retry can end: a stage an earlier attempt left behind,
\* another file at the destination, or a ledger with a record too long, be
\* it this transfer's or another's.
Blocked(i) ==
    \/ ~Readable
    \/ Staged(i) /\ file[Dest(i)].by # i
    \/ Present(i) /\ ~Holds(i)

\* A transfer that keeps being retried completes, also from a crash between
\* its link and its unlink, unless it stays blocked.
RetriesComplete ==
    \A i \in Ids : <>Named(i) => <>Complete(i) \/ <>[]Blocked(i)
=============================================================================
