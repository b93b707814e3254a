----------------------- MODULE SurfaceTransferProofs -----------------------
(***************************************************************************)
(* Proofs about SurfaceTransfer for every set of requests, contents and    *)
(* conversions, every number of failures and whatever other programs do at *)
(* the destinations: the types, that no crash leaves a fictitious finished *)
(* file, that what it leaves is named, that completed transfers are there, *)
(* that records are final, and that what is retained is within its limit   *)
(* but for what one receipt may have outgrown its reservation by.          *)
(***************************************************************************)
EXTENDS SurfaceTransfer, FiniteSetTheorems, WellFoundedInduction, TLAPS

USE TransferAssumption

-----------------------------------------------------------------------------
(* The inductive invariant. *)

\* whatever bears a transfer's inode stands at its destination, whole
FilesOwned ==
    \A d \in Dests, i \in Ids :
        file[d].by = i => Named(i) /\ Dest(i) = d /\ Holds(i)

\* a call past its checks works on an incomplete transfer, links only what
\* it has verified, and finalizes with no stage left and the bytes there
JobKnows ==
    LET i == job.id IN
    /\ job.pc \in {"writing", "publish", "link", "unlink", "verify",
                   "finalize"} => ~Complete(i)
    /\ job.pc = "link" => stage[i] = Want(i)
    /\ job.pc \in {"verify", "finalize"} => ~Staged(i)
    /\ job.pc = "finalize" => Holds(i) \/ Dest(i) \in removed

Inv == TypeOK /\ LeftoversNamed /\ FilesOwned /\ CompleteIsThere /\ JobKnows

\* What the parts of a state are, for those who need one of them.
LEMMA Parts ==
    ASSUME TypeOK, NEW i \in Ids
    PROVE  /\ record[i] \in RecordType
           /\ record[i].request \in Requests
           /\ Dest(i) \in Dests
           /\ Want(i) \in Contents /\ Want(i) # "none"
           /\ file[Dest(i)] \in FileType
           /\ stage[i] \in Contents \cup {"none", "partial"}
           /\ job.id \in Ids
           /\ job.source \in Sources
BY DEF TypeOK, RecordType, JobType, Dest, Dests, Want

\* The job record of a call that goes on is a job, and so is the idle one.
LEMMA Jobs ==
    ASSUME TypeOK
    PROVE  /\ Idle \in JobType /\ Idle.pc = "idle"
           /\ \A pc \in {"idle", "look", "source", "writing", "check",
                         "publish", "link", "unlink", "verify", "finalize"} :
                /\ [job EXCEPT !.pc = pc] \in JobType
                /\ [job EXCEPT !.pc = pc].pc = pc
                /\ [job EXCEPT !.pc = pc].id = job.id
BY DEF TypeOK, JobType, Idle, Ids

\* A call works on a transfer the ledger names.
LEMMA Busy ==
    ASSUME TypeOK
    PROVE  job.id \in Ids /\ (job.pc # "idle" => Named(job.id))
BY DEF TypeOK, JobType, At

-----------------------------------------------------------------------------
(* The types. *)

LEMMA InitTypes ==
    ASSUME Init
    PROVE  TypeOK
<1>1. \A i \in Ids : (CHOOSE r \in Requests : r.id = i) \in Requests
  BY DEF Ids
<1>2. Idle \in JobType
  BY DEF Idle, JobType, Ids
<1>3. record \in [Ids -> RecordType]
  BY <1>1 DEF Init, RecordType
<1>4. job = Idle /\ job.pc = "idle"
  BY DEF Init, Idle
<1> QED
  BY <1>2, <1>3, <1>4 DEF Init, TypeOK, FileType, At

LEMMA NextTypes ==
    ASSUME TypeOK, [Next]_vars
    PROVE  TypeOK'
<1> USE Jobs
<1> USE DEF TypeOK, At, Goes, Returns, Named
<1>1. ASSUME NEW r \in Requests, NEW s \in Sources, Call(r, s)
      PROVE  TypeOK'
  <2>1. r.id \in Ids
    BY DEF Ids
  <2>2. record' \in [Ids -> RecordType]
    BY <1>1, <2>1 DEF Call, RecordType
  <2>3. job' \in JobType /\ job'.id = r.id
    BY <1>1, <2>1 DEF Call, JobType
  <2>4. record'[r.id].status # "none"
    BY <1>1, <2>1 DEF Call
  <2> QED
    BY <1>1, <2>2, <2>3, <2>4 DEF Call
<1>2. CASE Look
  <2>1. CASE job' = Idle
    BY <1>2, <2>1 DEF Look
  <2>2. CASE job' = [job EXCEPT !.pc = "source", !.present = Present(job.id)]
    <3>1. Present(job.id) \in BOOLEAN
      BY DEF Present
    <3>2. job' \in JobType /\ job'.id = job.id /\ job.pc = "look"
      BY <1>2, <2>2, <3>1 DEF Look, JobType
    <3> QED
      BY <1>2, <3>2 DEF Look
  <2> QED
    BY <1>2, <2>1, <2>2 DEF Look
<1>3. CASE Source
  <2>1. job' \in JobType
    BY <1>3 DEF Source
  <2> QED
    BY <1>3, <2>1 DEF Source, Idle, JobType
<1>4. CASE Written
  <2>1. job' \in JobType /\ Converted[job.source] \in Contents
    BY <1>4, Parts DEF Written, JobType
  <2> QED
    BY <1>4, <2>1 DEF Written, JobType
<1>5. CASE Check
  <2>1. job' \in JobType /\ job.id \in Ids /\ job.source \in Sources
    BY <1>5 DEF Check, JobType
  <2>2. record' \in [Ids -> RecordType]
    <3>1. record[job.id] \in RecordType
      BY <2>1
    <3>2. [record[job.id] EXCEPT !.status = "publishing",
                                 !.source = job.source] \in RecordType
      BY <2>1, <3>1 DEF RecordType
    <3>3. \/ record' = record
          \/ record' = [record EXCEPT ![job.id] =
                [record[job.id] EXCEPT !.status = "publishing",
                                       !.source = job.source]]
      BY <1>5, <2>1 DEF Check
    <3> QED
      BY <2>1, <3>2, <3>3
  <2>3. CASE job' = Idle
    BY <1>5, <2>1, <2>2, <2>3 DEF Check
  <2>4. CASE job' = [job EXCEPT !.pc = "publish"]
    <3>1. record[job.id].status # "none"
      BY <1>5 DEF Check
    <3>2. record'[job.id].status # "none"
      <4>1. record[job.id] \in RecordType
        BY <2>1
      <4>2. record' = [record EXCEPT ![job.id].status = "publishing",
                                     ![job.id].source = job.source]
            \/ record' = record
        BY <1>5 DEF Check
      <4> QED
        BY <2>1, <3>1, <4>1, <4>2 DEF RecordType
    <3> QED
      BY <1>5, <2>1, <2>2, <2>4, <3>2 DEF Check
  <2> QED
    BY <1>5, <2>3, <2>4 DEF Check
<1>6. CASE Publish
  <2>1. job' \in JobType
    BY <1>6 DEF Publish
  <2> QED
    BY <1>6, <2>1 DEF Publish, Idle, JobType
<1>7. CASE Link
  <2>1. job' \in JobType
    BY <1>7 DEF Link
  <2>2. job.id \in Ids /\ Dest(job.id) \in Dests
    BY Parts DEF JobType
  <2>3. ASSUME Staged(job.id)
        PROVE  [bytes |-> stage[job.id], by |-> job.id] \in FileType
    BY <2>2, <2>3 DEF FileType, Staged
  <2>4. file' \in [Dests -> FileType]
    BY <1>7, <2>2, <2>3 DEF Link
  <2> QED
    BY <1>7, <2>1, <2>4 DEF Link, Idle, JobType
<1>8. CASE Unlink
  BY <1>8 DEF Unlink, JobType
<1>9. CASE Verify
  <2>1. job' \in JobType
    BY <1>9 DEF Verify
  <2> QED
    BY <1>9, <2>1 DEF Verify, Idle, JobType
<1>10. CASE Finalize
  <2>1. job.id \in Ids /\ record[job.id] \in RecordType
    BY DEF JobType
  <2>2. [record[job.id] EXCEPT !.status = "complete"] \in RecordType
    BY <2>1 DEF RecordType
  <2>3. record' \in [Ids -> RecordType]
    BY <1>10, <2>1, <2>2 DEF Finalize
  <2> QED
    BY <1>10, <2>3 DEF Finalize
<1>11. CASE Fails
  BY <1>11 DEF Fails, Idle
<1>12. ASSUME NEW d \in Dests, NEW bytes \in Contents, Creates(d, bytes)
       PROVE  TypeOK'
  BY <1>12 DEF Creates, FileType
<1>13. ASSUME NEW d \in Dests, Removes(d)
       PROVE  TypeOK'
  BY <1>13 DEF Removes, FileType
<1>14. CASE UNCHANGED vars
  BY <1>14 DEF vars
<1> QED
  BY <1>1, <1>2, <1>3, <1>4, <1>5, <1>6, <1>7, <1>8, <1>9, <1>10, <1>11,
     <1>12, <1>13, <1>14 DEF Next, Step

-----------------------------------------------------------------------------
(* The rest of the invariant. *)

LEMMA InitInv ==
    ASSUME Init
    PROVE  Inv
<1>1. TypeOK
  BY InitTypes
<1> QED
  BY <1>1, Parts DEF Init, Inv, LeftoversNamed, FilesOwned, CompleteIsThere,
     JobKnows, Idle, Staged, Named, Complete, Absent

\* A step that leaves the ledger, the stages and the destinations alone keeps
\* what they say of each other, and an idle job knows nothing.
LEMMA OnlyJobs ==
    ASSUME Inv, UNCHANGED <<record, stage, file, removed>>
    PROVE  LeftoversNamed' /\ FilesOwned' /\ CompleteIsThere'
BY DEF Inv, LeftoversNamed, FilesOwned, CompleteIsThere, Staged, Named,
       Complete, Dest, Holds, Want

LEMMA IdleKnows == ASSUME job' = Idle PROVE JobKnows'
BY DEF JobKnows, Idle

LEMMA CallKeeps ==
    ASSUME Inv, NEW r \in Requests, NEW s \in Sources, Call(r, s)
    PROVE  LeftoversNamed' /\ FilesOwned' /\ CompleteIsThere' /\ JobKnows'
<1>1. r.id \in Ids
  BY DEF Ids
<1>2. JobKnows'
  BY DEF Call, JobKnows
<1>3. CASE UNCHANGED record
  BY <1>2, <1>3, OnlyJobs DEF Call
<1>4. CASE /\ ~Named(r.id)
           /\ record' = [record EXCEPT ![r.id] =
                [status |-> "incomplete", request |-> r, source |-> "none"]]
  <2>1. /\ \A i \in Ids \ {r.id} : record'[i] = record[i]
        /\ record'[r.id].status = "incomplete"
    BY <1>1, <1>4 DEF Inv, TypeOK
  <2>2. ~Staged(r.id) /\ \A d \in Dests : file[d].by # r.id
    BY <1>1, <1>4 DEF Inv, LeftoversNamed, FilesOwned
  <2>3. stage' = stage /\ file' = file /\ removed' = removed
    BY DEF Call
  <2>4. LeftoversNamed'
    BY <2>1, <2>2, <2>3 DEF Inv, LeftoversNamed, Staged, Named, Complete
  <2>5. FilesOwned'
    BY <2>1, <2>2, <2>3 DEF Inv, FilesOwned, Named, Dest, Holds, Want
  <2>6. CompleteIsThere'
    BY <2>1, <2>3 DEF Inv, CompleteIsThere, Complete, Dest, Holds, Want
  <2> QED
    BY <1>2, <2>4, <2>5, <2>6
<1> QED
  BY <1>3, <1>4 DEF Call

LEMMA LookKeeps ==
    ASSUME Inv, Look
    PROVE  LeftoversNamed' /\ FilesOwned' /\ CompleteIsThere' /\ JobKnows'
<1>1. JobKnows'
  <2>1. CASE job' = Idle
    BY <2>1, IdleKnows
  <2>2. CASE job' = [job EXCEPT !.pc = "source", !.present = Present(job.id)]
    <3>1. job'.pc = "source"
      BY <2>2 DEF Inv, TypeOK, JobType
    <3> QED
      BY <3>1 DEF JobKnows
  <2> QED
    BY <2>1, <2>2 DEF Look, Returns
<1> QED
  BY <1>1, OnlyJobs DEF Look

LEMMA SourceKeeps ==
    ASSUME Inv, Source
    PROVE  LeftoversNamed' /\ FilesOwned' /\ CompleteIsThere' /\ JobKnows'
<1>1. CASE Returns /\ UNCHANGED stage
  BY <1>1, OnlyJobs, IdleKnows DEF Source, Returns
<1>2. CASE Goes("check") /\ UNCHANGED stage
  <2>1. job'.pc = "check"
    BY <1>2, Jobs DEF Inv, Goes
  <2>2. JobKnows'
    BY <2>1 DEF JobKnows
  <2> QED
    BY <1>2, <2>2, OnlyJobs DEF Source
<1>3. CASE /\ ~Complete(job.id)
           /\ stage' = [stage EXCEPT ![job.id] = "partial"]
           /\ Goes("writing")
  <2>1. job.id \in Ids /\ Named(job.id)
    BY Busy DEF Inv, Source, At
  <2>2. record' = record /\ file' = file /\ removed' = removed
    BY DEF Source
  <2>3. \A i \in Ids \ {job.id} : stage'[i] = stage[i]
    BY <1>3 DEF Inv, TypeOK
  <2>4. LeftoversNamed'
    BY <1>3, <2>1, <2>2, <2>3 DEF Inv, LeftoversNamed, Staged, Named, Complete
  <2>5. FilesOwned' /\ CompleteIsThere'
    BY <2>2 DEF Inv, FilesOwned, CompleteIsThere, Named, Complete, Dest, Holds,
       Want
  <2>6. job'.pc = "writing" /\ job'.id = job.id
    BY <1>3, Jobs DEF Inv, Goes
  <2>7. JobKnows'
    BY <1>3, <2>2, <2>6 DEF JobKnows, Complete
  <2> QED
    BY <2>4, <2>5, <2>7
<1> QED
  BY <1>1, <1>2, <1>3 DEF Source

LEMMA WrittenKeeps ==
    ASSUME Inv, Written
    PROVE  LeftoversNamed' /\ FilesOwned' /\ CompleteIsThere' /\ JobKnows'
<1>1. job.id \in Ids /\ Named(job.id) /\ ~Complete(job.id)
  BY Busy DEF Inv, JobKnows, Written, At
<1>2. record' = record /\ file' = file /\ removed' = removed
  BY DEF Written
<1>3. \A i \in Ids \ {job.id} : stage'[i] = stage[i]
  BY DEF Inv, TypeOK, Written
<1>4. LeftoversNamed'
  BY <1>1, <1>2, <1>3 DEF Inv, LeftoversNamed, Staged, Named, Complete
<1>5. FilesOwned' /\ CompleteIsThere'
  BY <1>2 DEF Inv, FilesOwned, CompleteIsThere, Named, Complete, Dest, Holds,
     Want
<1>6. job'.pc = "check"
  BY Jobs DEF Inv, Goes, Written
<1>7. JobKnows'
  BY <1>6 DEF JobKnows
<1> QED
  BY <1>4, <1>5, <1>7

LEMMA CheckKeeps ==
    ASSUME Inv, Check
    PROVE  LeftoversNamed' /\ FilesOwned' /\ CompleteIsThere' /\ JobKnows'
<1>1. CASE Returns /\ UNCHANGED record
  BY <1>1, OnlyJobs, IdleKnows DEF Check, Returns
<1>2. CASE /\ ~Complete(job.id)
           /\ record' = [record EXCEPT ![job.id].status = "publishing",
                                       ![job.id].source = job.source]
           /\ Goes("publish")
  <2>1. job.id \in Ids /\ record[job.id] \in RecordType
    BY Busy, Parts DEF Inv
  <2>2. /\ \A i \in Ids \ {job.id} : record'[i] = record[i]
        /\ record'[job.id].request = record[job.id].request
        /\ record'[job.id].status = "publishing"
    BY <1>2, <2>1 DEF Inv, TypeOK, RecordType
  <2>3. stage' = stage /\ file' = file /\ removed' = removed
    BY DEF Check
  <2>4. LeftoversNamed'
    BY <2>2, <2>3 DEF Inv, LeftoversNamed, Staged, Named, Complete
  <2>5. FilesOwned'
    BY <2>2, <2>3 DEF Inv, FilesOwned, Named, Dest, Holds, Want
  <2>6. CompleteIsThere'
    BY <2>2, <2>3 DEF Inv, CompleteIsThere, Complete, Dest, Holds, Want
  <2>7. job'.pc = "publish" /\ job'.id = job.id
    BY <1>2, Jobs DEF Inv, Goes
  <2>8. JobKnows'
    BY <2>2, <2>7 DEF JobKnows, Complete
  <2> QED
    BY <2>4, <2>5, <2>6, <2>8
<1> QED
  BY <1>1, <1>2 DEF Check

LEMMA PublishKeeps ==
    ASSUME Inv, Publish
    PROVE  LeftoversNamed' /\ FilesOwned' /\ CompleteIsThere' /\ JobKnows'
<1>1. CASE Returns /\ UNCHANGED stage
  BY <1>1, OnlyJobs, IdleKnows DEF Publish, Returns
<1>2. job.id \in Ids /\ ~Complete(job.id)
  BY Busy DEF Inv, JobKnows, Publish, At
<1>3. CASE StageVerified(job.id) /\ Goes("link") /\ UNCHANGED stage
  <2>1. job'.pc = "link" /\ job'.id = job.id
    BY <1>3, Jobs DEF Inv, Goes
  <2>2. JobKnows'
    BY <1>2, <1>3, <2>1 DEF JobKnows, StageVerified, Publish, Complete, Want
  <2> QED
    BY <1>3, <2>2, OnlyJobs DEF Publish
<1>4. CASE /\ MayRecover(job.id)
           /\ stage' = [stage EXCEPT ![job.id] = "none"]
           /\ Goes("finalize")
  <2>1. record' = record /\ file' = file /\ removed' = removed
    BY DEF Publish
  <2>2. /\ stage'[job.id] = "none"
        /\ \A i \in Ids \ {job.id} : stage'[i] = stage[i]
    BY <1>2, <1>4 DEF Inv, TypeOK
  <2>3. LeftoversNamed'
    BY <2>1, <2>2 DEF Inv, LeftoversNamed, Staged, Named, Complete
  <2>4. FilesOwned' /\ CompleteIsThere'
    BY <2>1 DEF Inv, FilesOwned, CompleteIsThere, Named, Complete, Dest, Holds,
       Want
  <2>5. job'.pc = "finalize" /\ job'.id = job.id
    BY <1>4, Jobs DEF Inv, Goes
  <2>6. JobKnows'
    BY <1>2, <1>4, <2>1, <2>2, <2>5 DEF JobKnows, Complete, Staged, MayRecover,
       Verified, Holds, Dest, Want
  <2> QED
    BY <2>3, <2>4, <2>6
<1> QED
  BY <1>1, <1>3, <1>4 DEF Publish

LEMMA LinkKeeps ==
    ASSUME Inv, Link
    PROVE  LeftoversNamed' /\ FilesOwned' /\ CompleteIsThere' /\ JobKnows'
<1>1. CASE Returns /\ UNCHANGED file
  BY <1>1, OnlyJobs, IdleKnows DEF Link, Returns
<1>2. CASE /\ ~Present(job.id)
           /\ file' = [file EXCEPT ![Dest(job.id)] =
                            [bytes |-> stage[job.id], by |-> job.id]]
           /\ Goes("unlink")
  <2>0. job.id \in Ids /\ Named(job.id) /\ Dest(job.id) \in Dests
    BY Busy, Parts DEF Inv, Link, At
  <2>1. ~Complete(job.id) /\ stage[job.id] = Want(job.id)
    BY DEF Inv, JobKnows, Link, At
  <2>2. record' = record /\ stage' = stage /\ removed' = removed
    BY DEF Link
  <2>3. /\ file'[Dest(job.id)] = [bytes |-> Want(job.id), by |-> job.id]
        /\ \A d \in Dests \ {Dest(job.id)} : file'[d] = file[d]
    BY <1>2, <2>0, <2>1 DEF Inv, TypeOK
  <2>4. LeftoversNamed'
    BY <2>2 DEF Inv, LeftoversNamed, Staged, Named, Complete
  <2>5. FilesOwned'
    BY <2>0, <2>1, <2>2, <2>3 DEF Inv, FilesOwned, Named, Dest, Holds, Want
  <2>6. ASSUME NEW i \in Ids, Complete(i)
        PROVE  Dest(i) # Dest(job.id) \/ Dest(i) \in removed
    <3>1. Holds(i) \/ Dest(i) \in removed
      BY <2>6 DEF Inv, CompleteIsThere
    <3>2. Holds(i) => file[Dest(i)] # Absent
      BY Parts DEF Inv, Holds, Absent
    <3> QED
      BY <1>2, <3>1, <3>2 DEF Present
  <2>7. CompleteIsThere'
    BY <2>2, <2>3, <2>6, Parts DEF Inv, CompleteIsThere, Complete, Dest, Holds,
       Want
  <2>8. job'.pc = "unlink" /\ job'.id = job.id
    BY <1>2, Jobs DEF Inv, Goes
  <2>9. JobKnows'
    BY <2>1, <2>2, <2>8 DEF JobKnows, Complete
  <2> QED
    BY <2>4, <2>5, <2>7, <2>9
<1> QED
  BY <1>1, <1>2 DEF Link

LEMMA UnlinkKeeps ==
    ASSUME Inv, Unlink
    PROVE  LeftoversNamed' /\ FilesOwned' /\ CompleteIsThere' /\ JobKnows'
<1>1. job.id \in Ids /\ ~Complete(job.id)
  BY Busy DEF Inv, JobKnows, Unlink, At
<1>2. record' = record /\ file' = file /\ removed' = removed
  BY DEF Unlink
<1>3. /\ stage'[job.id] = "none"
      /\ \A i \in Ids \ {job.id} : stage'[i] = stage[i]
  BY <1>1 DEF Inv, TypeOK, Unlink
<1>4. LeftoversNamed'
  BY <1>2, <1>3 DEF Inv, LeftoversNamed, Staged, Named, Complete
<1>5. FilesOwned' /\ CompleteIsThere'
  BY <1>2 DEF Inv, FilesOwned, CompleteIsThere, Named, Complete, Dest, Holds,
     Want
<1>6. job'.pc = "verify" /\ job'.id = job.id
  BY Jobs DEF Inv, Goes, Unlink
<1>7. JobKnows'
  BY <1>1, <1>2, <1>3, <1>6 DEF JobKnows, Complete, Staged
<1> QED
  BY <1>4, <1>5, <1>7

LEMMA VerifyKeeps ==
    ASSUME Inv, Verify
    PROVE  LeftoversNamed' /\ FilesOwned' /\ CompleteIsThere' /\ JobKnows'
<1>1. CASE Returns
  BY <1>1, OnlyJobs, IdleKnows DEF Verify, Returns
<1>2. CASE Verified(job.id) /\ Goes("finalize")
  <2>1. job'.pc = "finalize" /\ job'.id = job.id
    BY <1>2, Jobs DEF Inv, Goes
  <2>2. JobKnows'
    BY <1>2, <2>1 DEF Inv, JobKnows, Verify, At, Complete, Staged, Verified,
       Holds, Dest, Want
  <2> QED
    BY <2>2, OnlyJobs DEF Verify
<1> QED
  BY <1>1, <1>2 DEF Verify

LEMMA FinalizeKeeps ==
    ASSUME Inv, Finalize
    PROVE  LeftoversNamed' /\ FilesOwned' /\ CompleteIsThere' /\ JobKnows'
<1>0. job.id \in Ids /\ Named(job.id) /\ record[job.id] \in RecordType
  BY Busy, Parts DEF Inv, Finalize, At
<1>1. /\ ~Staged(job.id)
      /\ Holds(job.id) \/ Dest(job.id) \in removed
  BY DEF Inv, JobKnows, Finalize, At
<1>2. /\ \A i \in Ids \ {job.id} : record'[i] = record[i]
      /\ record'[job.id].request = record[job.id].request
      /\ record'[job.id].status = "complete"
  BY <1>0 DEF Inv, TypeOK, RecordType, Finalize
<1>3. stage' = stage /\ file' = file /\ removed' = removed
  BY DEF Finalize
<1>4. LeftoversNamed'
  BY <1>0, <1>1, <1>2, <1>3 DEF Inv, LeftoversNamed, Staged, Named, Complete
<1>5. FilesOwned'
  BY <1>2, <1>3 DEF Inv, FilesOwned, Named, Dest, Holds, Want
<1>6. CompleteIsThere'
  BY <1>1, <1>2, <1>3 DEF Inv, CompleteIsThere, Complete, Dest, Holds, Want
<1>7. JobKnows'
  BY IdleKnows DEF Finalize, Returns
<1> QED
  BY <1>4, <1>5, <1>6, <1>7

LEMMA CreatesKeeps ==
    ASSUME Inv, NEW d \in Dests, NEW bytes \in Contents, Creates(d, bytes)
    PROVE  LeftoversNamed' /\ FilesOwned' /\ CompleteIsThere' /\ JobKnows'
<1>1. /\ record' = record /\ stage' = stage /\ removed' = removed
      /\ job' = job
  BY DEF Creates
<1>2. /\ file[d] = Absent
      /\ file'[d] = [bytes |-> bytes, by |-> "other"]
      /\ \A e \in Dests \ {d} : file'[e] = file[e]
  BY DEF Inv, TypeOK, Creates
<1>3. \A i \in Ids : Holds(i) => Dest(i) # d
  BY <1>2, Parts DEF Inv, Holds, Absent
<1>4. \A i \in Ids : Holds(i) => Holds(i)'
  BY <1>1, <1>2, <1>3, Parts DEF Inv, Holds, Dest, Want
<1>5. LeftoversNamed'
  BY <1>1 DEF Inv, LeftoversNamed, Staged, Named, Complete
<1>6. FilesOwned'
  BY <1>1, <1>2, <1>4 DEF Inv, FilesOwned, Named, Dest
<1>7. CompleteIsThere'
  BY <1>1, <1>4 DEF Inv, CompleteIsThere, Complete, Dest
<1>8. JobKnows'
  <2>1. job.id \in Ids
    BY Busy DEF Inv
  <2>2. Holds(job.id) => Holds(job.id)'
    BY <1>1, <1>4, <2>1 DEF Holds, Dest, Want
  <2> QED
    BY <1>1, <2>2 DEF Inv, JobKnows, Complete, Staged, Want, Holds, Dest
<1> QED
  BY <1>5, <1>6, <1>7, <1>8

LEMMA RemovesKeeps ==
    ASSUME Inv, NEW d \in Dests, Removes(d)
    PROVE  LeftoversNamed' /\ FilesOwned' /\ CompleteIsThere' /\ JobKnows'
<1>1. /\ record' = record /\ stage' = stage /\ job' = job
      /\ removed' = removed \cup {d}
  BY DEF Removes
<1>2. /\ file'[d] = Absent
      /\ \A e \in Dests \ {d} : file'[e] = file[e]
  BY DEF Inv, TypeOK, Removes
<1>3. \A i \in Ids : Holds(i) \/ Dest(i) \in removed
                        => Holds(i)' \/ Dest(i) \in removed'
  BY <1>1, <1>2, Parts DEF Inv, Holds, Dest, Want
<1>4. LeftoversNamed'
  BY <1>1 DEF Inv, LeftoversNamed, Staged, Named, Complete
<1>5. FilesOwned'
  BY <1>1, <1>2 DEF Inv, FilesOwned, Named, Dest, Holds, Want, Absent
<1>6. CompleteIsThere'
  BY <1>1, <1>3 DEF Inv, CompleteIsThere, Complete, Dest
<1>7. JobKnows'
  <2>1. job.id \in Ids
    BY Busy DEF Inv
  <2>2. Holds(job.id) \/ Dest(job.id) \in removed
            => Holds(job.id)' \/ Dest(job.id) \in removed'
    BY <1>1, <1>3, <2>1 DEF Holds, Dest, Want
  <2> QED
    BY <1>1, <2>2 DEF Inv, JobKnows, Complete, Staged, Want, Holds, Dest
<1> QED
  BY <1>4, <1>5, <1>6, <1>7

LEMMA NextInv ==
    ASSUME Inv, [Next]_vars
    PROVE  Inv'
<1>1. TypeOK'
  BY NextTypes DEF Inv
<1>2. LeftoversNamed' /\ FilesOwned' /\ CompleteIsThere' /\ JobKnows'
  <2>1. CASE UNCHANGED vars
    BY <2>1, OnlyJobs DEF vars, Inv, JobKnows, Complete, Staged, Want, Holds,
       Dest
  <2>2. CASE Fails
    BY <2>2, OnlyJobs, IdleKnows DEF Fails, Returns
  <2> QED
    BY <2>1, <2>2, CallKeeps, LookKeeps, SourceKeeps, WrittenKeeps, CheckKeeps,
       PublishKeeps, LinkKeeps, UnlinkKeeps, VerifyKeeps, FinalizeKeeps,
       CreatesKeeps, RemovesKeeps DEF Next, Step
<1> QED
  BY <1>1, <1>2 DEF Inv

THEOREM Invariant == Spec => []Inv
BY InitInv, NextInv, PTL DEF Spec

-----------------------------------------------------------------------------
(* The theorems. *)

\* Every reachable state has its type, and a call works on a named transfer.
THEOREM Types == Spec => []TypeOK
<1>1. Inv => TypeOK
  BY DEF Inv
<1> QED
  BY <1>1, Invariant, PTL

\* However often a transfer is retried, whatever crashed attempts left behind
\* and whatever others do at its destination, what it puts there is whole.
THEOREM NoFictitiousFile == Spec => []FinishedIsWhole
<1>1. Inv => FinishedIsWhole
  BY Parts DEF Inv, FilesOwned, FinishedIsWhole
<1> QED
  BY <1>1, Invariant, PTL

\* Whatever a crash leaves is named by a record that is not complete.
THEOREM IncompleteIsNamed == Spec => []LeftoversNamed
<1>1. Inv => LeftoversNamed
  BY DEF Inv
<1> QED
  BY <1>1, Invariant, PTL

\* A transfer is only ever complete with its bytes at its destination.
THEOREM CompleteStands == Spec => []CompleteIsThere
<1>1. Inv => CompleteIsThere
  BY DEF Inv
<1> QED
  BY <1>1, Invariant, PTL

\* A record never changes what it was made for, its source or its completion.
THEOREM RecordsStand == Spec => RecordsFinal
<1> DEFINE Kept == \A i \in Ids : Named(i) =>
        /\ record'[i].request = record[i].request
        /\ record[i].source # "none" => record'[i].source = record[i].source
        /\ Complete(i) => Complete(i)'
<1>1. ASSUME Inv, [Next]_vars
      PROVE  [Kept]_vars
  <2> SUFFICES ASSUME NEW i \in Ids, Named(i)
               PROVE  /\ record'[i].request = record[i].request
                      /\ record[i].source # "none" =>
                            record'[i].source = record[i].source
                      /\ Complete(i) => Complete(i)'
    BY DEF Kept
  <2>1. record[i] \in RecordType /\ job.id \in Ids
    BY <1>1, Parts DEF Inv
  <2>2. CASE UNCHANGED record
    BY <2>2 DEF Complete
  <2>3. ASSUME NEW r \in Requests, NEW s \in Sources, Call(r, s)
        PROVE  record'[i] = record[i]
    BY <1>1, <2>3 DEF Inv, TypeOK, Call, Named, Ids
  <2>4. CASE Check
    BY <1>1, <2>1, <2>4 DEF Inv, TypeOK, RecordType, Check, SourceAgrees,
       Complete
  <2>5. CASE Finalize
    BY <1>1, <2>1, <2>5 DEF Inv, TypeOK, RecordType, Finalize, Complete
  <2> QED
    BY <1>1, <2>2, <2>3, <2>4, <2>5 DEF Next, Step, Look, Source, Written,
       Publish, Link, Unlink, Verify, Fails, Creates, Removes, vars, Complete
<1> QED
  BY <1>1, Invariant, PTL DEF Spec, RecordsFinal, Kept

-----------------------------------------------------------------------------
(* What is retained.  RetainedUsage is a fold over the transfers, in the   *)
(* order CHOOSE takes them; these lemmas do its induction, over the number *)
(* of transfers taken, with a set where a rule would have a predicate.     *)

Chosen(s) == CHOOSE i \in s : TRUE

\* g gives every set of transfers in D the sum of the weights u.
Sums(u, D, g) ==
    \A s \in D :
        g[s] = IF s = {} THEN 0 ELSE u[Chosen(s)] + g[s \ {Chosen(s)}]

Usages == [i \in Ids |-> Usage(i)]

\* A set of numbers that is not empty has a least one.
LEMMA Least ==
    ASSUME NEW T \in SUBSET Nat, T # {}
    PROVE  \E n \in T : \A m \in T : ~(m < n)
<1> DEFINE R == {p \in Nat \X Nat : p[1] < p[2]}
<1>1. \E x \in T : \A y \in T : <<y, x>> \notin R
  <2>1. IsWellFoundedOn(R, Nat)
    BY NatLessThanWellFounded DEF OpToRel
  <2> HIDE DEF R
  <2> QED
    BY <2>1, WFMin
<1>2. \A x, y \in T : y < x => <<y, x>> \in R
  OBVIOUS
<1> HIDE DEF R
<1> QED
  BY <1>1, <1>2

\* What the fold takes from a set of transfers leaves a smaller one.
LEMMA Smaller ==
    ASSUME NEW s \in SUBSET Ids
    PROVE  /\ IsFiniteSet(s) /\ Cardinality(s) \in Nat
           /\ Cardinality(s) = 0 <=> s = {}
           /\ s # {} =>
                /\ Chosen(s) \in s
                /\ s \ {Chosen(s)} \in SUBSET Ids
                /\ Cardinality(s \ {Chosen(s)}) = Cardinality(s) - 1
<1>1. IsFiniteSet(Ids)
  <2> DEFINE f == [r \in Requests |-> r.id]
  <2>1. f \in Surjection(Requests, Ids)
    BY DEF Surjection, Ids
  <2> HIDE DEF f
  <2>2. IsFiniteSet(Requests)
    BY TransferAssumption
  <2> QED
    BY <2>1, <2>2, FS_Surjection
<1>2. IsFiniteSet(s)
  BY <1>1, FS_Subset
<1>3. s # {} => Chosen(s) \in s
  BY DEF Chosen
<1> QED
  BY <1>2, <1>3, FS_CardinalityType, FS_EmptySet, FS_RemoveElement

\* The induction: whatever holds of the empty set, and of a set whenever it
\* holds of what the fold leaves of it, holds of every set of transfers.
LEMMA FoldInduction ==
    ASSUME NEW B, {} \in B,
           \A s \in SUBSET Ids : s # {} /\ s \ {Chosen(s)} \in B => s \in B
    PROVE  \A s \in SUBSET Ids : s \in B
<1> DEFINE T == {Cardinality(s) : s \in {s \in SUBSET Ids : s \notin B}}
<1> SUFFICES ASSUME T # {}
             PROVE  FALSE
  OBVIOUS
<1>1. T \in SUBSET Nat
  <2>1. \A s \in SUBSET Ids : Cardinality(s) \in Nat
    BY Smaller
  <2> QED
    BY <2>1
<1>2. PICK n \in T : \A m \in T : ~(m < n)
  <2> HIDE DEF T
  <2> QED
    BY <1>1, Least
<1>3. PICK s \in SUBSET Ids : s \notin B /\ Cardinality(s) = n
  OBVIOUS
<1>4. s # {} /\ s \ {Chosen(s)} \in SUBSET Ids /\ s \ {Chosen(s)} \notin B
  BY <1>3, Smaller
<1>5. Cardinality(s \ {Chosen(s)}) \in T
  BY <1>4
<1>6. Cardinality(s \ {Chosen(s)}) = n - 1 /\ n \in Nat
  BY <1>3, <1>4, Smaller
<1>7. n - 1 < n
  BY <1>6
<1> HIDE DEF T
<1> QED
  BY <1>2, <1>5, <1>6, <1>7

\* The fold is defined: there is a function that sums.
LEMMA SumExists ==
    ASSUME NEW u \in [Ids -> Nat]
    PROVE  \E g \in [SUBSET Ids -> Nat] : Sums(u, SUBSET Ids, g)
<1> DEFINE D(n) == {s \in SUBSET Ids : ~(n < Cardinality(s))}
           Bad == {n \in Nat : ~\E g \in [D(n) -> Nat] : Sums(u, D(n), g)}
<1>1. Bad = {}
  <2> SUFFICES ASSUME Bad # {}
               PROVE  FALSE
    OBVIOUS
  <2>1. PICK n \in Bad : \A m \in Bad : ~(m < n)
    <3>1. Bad \in SUBSET Nat
      OBVIOUS
    <3> HIDE DEF Bad
    <3> QED
      BY <3>1, Least
  <2>2. CASE n = 0
    <3> DEFINE g == [s \in D(0) |-> 0]
    <3>1. ASSUME NEW s \in D(0)
          PROVE  s = {}
      <4>1. Cardinality(s) \in Nat /\ (Cardinality(s) = 0 <=> s = {})
        BY Smaller
      <4> QED
        BY <4>1
    <3>2. g \in [D(0) -> Nat] /\ Sums(u, D(0), g)
      BY <3>1 DEF Sums
    <3> QED
      BY <2>1, <2>2, <3>2
  <2>3. CASE n # 0
    <3>1. n - 1 \in Nat /\ n - 1 < n
      BY <2>1, <2>3
    <3>2. PICK g \in [D(n - 1) -> Nat] : Sums(u, D(n - 1), g)
      BY <2>1, <3>1
    <3> DEFINE h == [s \in D(n) |-> IF s \in D(n - 1) THEN g[s]
                        ELSE u[Chosen(s)] + g[s \ {Chosen(s)}]]
    <3>3. ASSUME NEW s \in D(n)
          PROVE  /\ s # {} => s \ {Chosen(s)} \in D(n - 1)
                 /\ s \notin D(n - 1) => s # {}
      <4>1. s \in SUBSET Ids /\ Cardinality(s) \in Nat
        BY Smaller
      <4>2. s # {} => Cardinality(s \ {Chosen(s)}) = Cardinality(s) - 1
        BY <4>1, Smaller
      <4>3. s = {} => Cardinality(s) = 0
        BY <4>1, Smaller
      <4>4. s \ {Chosen(s)} \in SUBSET Ids
        BY <4>1
      <4> QED
        BY <2>1, <3>1, <4>1, <4>2, <4>3, <4>4
    <3>4. \A s \in D(n) : s # {} => u[Chosen(s)] \in Nat
      BY Smaller
    <3>5. D(n - 1) \subseteq D(n)
      <4>1. \A s \in SUBSET Ids : Cardinality(s) \in Nat
        BY Smaller
      <4>2. n \in Nat
        BY <2>1
      <4> QED
        BY <3>1, <4>1, <4>2
    <3>6. h \in [D(n) -> Nat]
      BY <3>2, <3>3, <3>4
    <3>7. ASSUME NEW s \in D(n)
          PROVE  h[s] = IF s = {} THEN 0
                        ELSE u[Chosen(s)] + h[s \ {Chosen(s)}]
      <4>1. CASE s = {}
        BY <3>2, <3>3, <4>1 DEF Sums
      <4>2. CASE s # {}
        <5>1. h[s \ {Chosen(s)}] = g[s \ {Chosen(s)}]
          BY <3>3, <3>5, <4>2
        <5>2. h[s] = u[Chosen(s)] + g[s \ {Chosen(s)}]
          BY <3>2, <4>2 DEF Sums
        <5> QED
          BY <4>2, <5>1, <5>2
      <4> QED
        BY <4>1, <4>2
    <3>8. Sums(u, D(n), h)
      BY <3>7 DEF Sums
    <3> QED
      BY <2>1, <3>6, <3>8
  <2> QED
    BY <2>2, <2>3
<1>2. Cardinality(Ids) \in Nat /\ D(Cardinality(Ids)) = SUBSET Ids
  <2>1. IsFiniteSet(Ids) /\ Cardinality(Ids) \in Nat
    BY Smaller
  <2>2. ASSUME NEW s \in SUBSET Ids
        PROVE  ~(Cardinality(Ids) < Cardinality(s))
    <3>1. Cardinality(s) <= Cardinality(Ids)
      BY <2>1, FS_Subset
    <3>2. Cardinality(s) \in Nat
      BY Smaller
    <3> QED
      BY <2>1, <3>1, <3>2
  <2> QED
    BY <2>1, <2>2
<1>3. \E g \in [D(Cardinality(Ids)) -> Nat] : Sums(u, D(Cardinality(Ids)), g)
  BY <1>1, <1>2
<1> HIDE DEF D
<1> QED
  BY <1>2, <1>3

\* Two such functions agree, whatever the values of one of them are.
LEMMA SumUnique ==
    ASSUME NEW u \in [Ids -> Nat], NEW f, NEW g,
           Sums(u, SUBSET Ids, f), Sums(u, SUBSET Ids, g)
    PROVE  \A s \in SUBSET Ids : f[s] = g[s]
<1> DEFINE B == {s \in SUBSET Ids : f[s] = g[s]}
<1>1. {} \in B
  BY DEF Sums
<1>2. ASSUME NEW s \in SUBSET Ids, s # {}, s \ {Chosen(s)} \in B
      PROVE  s \in B
  BY <1>2 DEF Sums
<1>3. \A s \in SUBSET Ids : s \in B
  <2> HIDE DEF B
  <2> QED
    BY <1>1, <1>2, FoldInduction
<1> QED
  BY <1>3

\* the sum the proofs speak of is what RetainedUsage is
UsageIsSum ==
    \E u \in [Ids -> Nat], g \in [SUBSET Ids -> Nat] :
        /\ \A i \in Ids : u[i] = Usage(i)
        /\ Sums(u, SUBSET Ids, g)
        /\ RetainedUsage = g[Ids]

\* A record has a size.
LEMMA Sizes ==
    ASSUME TypeOK, NEW i \in Ids
    PROVE  RecordSize(i) \in Nat
<1>1. record[i].request.meta \in Nat /\ record[i].source \in Sources \cup {"none"}
  BY Parts, TransferAssumption DEF RecordType
<1>2. "none" \notin Sources
  BY TransferAssumption
<1>3. \A s \in Sources : Published[s] \in Nat /\ Finished[s] \in Nat
  BY TransferAssumption
<1> QED
  BY <1>1, <1>2, <1>3 DEF RecordSize

\* What is retained is such a sum of what the records count for.
LEMMA UsageSums ==
    ASSUME TypeOK
    PROVE  UsageIsSum
<1> DEFINE Eq(g) == g = [s \in SUBSET Ids |->
                IF s = {} THEN 0 ELSE Usage(Chosen(s)) + g[s \ {Chosen(s)}]]
           fold == CHOOSE g : Eq(g)
<1>0. Usages \in [Ids -> Nat]
  <2>1. ASSUME NEW i \in Ids
        PROVE  Usage(i) \in Nat
    <3>1. record[i].request.size \in Nat
      BY Parts, TransferAssumption
    <3>2. Reservation \in Nat /\ RecordSize(i) \in Nat
      BY Sizes, TransferAssumption
    <3> QED
      BY <3>1, <3>2 DEF Usage
  <2> QED
    BY <2>1 DEF Usages
<1>1. RetainedUsage = fold[Ids]
  BY DEF RetainedUsage, MapThenSumSet, MapThenFoldSet, Chosen
<1>2. PICK g \in [SUBSET Ids -> Nat] : Sums(Usages, SUBSET Ids, g)
  BY <1>0, SumExists
<1>3. \A s \in SUBSET Ids : s # {} => Usages[Chosen(s)] = Usage(Chosen(s))
  BY Smaller DEF Usages
<1>4. Eq(g)
  BY <1>2, <1>3 DEF Sums
<1>5. Eq(fold)
  <2> HIDE DEF Eq
  <2> QED
    BY <1>4
<1>6. Sums(Usages, SUBSET Ids, fold)
  <2> HIDE DEF fold
  <2> QED
    BY <1>3, <1>5 DEF Sums
<1>7. fold[Ids] = g[Ids]
  <2> HIDE DEF fold
  <2>1. \A s \in SUBSET Ids : fold[s] = g[s]
    BY <1>0, <1>2, <1>6, SumUnique
  <2> QED
    BY <2>1
<1> QED
  BY <1>0, <1>1, <1>2, <1>7 DEF UsageIsSum, Usages

\* g sums the weights u of the transfers
Summing(u, g) ==
    u \in [Ids -> Nat] /\ g \in [SUBSET Ids -> Nat] /\ Sums(u, SUBSET Ids, g)

\* the weights u and v are the same but for i's
SameBut(u, v, i) == \A j \in Ids : j # i => u[j] = v[j]

\* A sum changes by what one of its weights does.
LEMMA SumChanges ==
    ASSUME NEW u, NEW v, NEW f, NEW g, Summing(u, f), Summing(v, g),
           NEW i \in Ids, SameBut(u, v, i)
    PROVE  f[Ids] + v[i] = g[Ids] + u[i]
<1>0. /\ u \in [Ids -> Nat] /\ f \in [SUBSET Ids -> Nat] /\ Sums(u, SUBSET Ids, f)
      /\ v \in [Ids -> Nat] /\ g \in [SUBSET Ids -> Nat] /\ Sums(v, SUBSET Ids, g)
  BY DEF Summing
<1> DEFINE B == {s \in SUBSET Ids :
                    IF i \in s THEN f[s] + v[i] = g[s] + u[i] ELSE f[s] = g[s]}
<1>1. {} \in B
  BY <1>0 DEF Sums
<1>2. ASSUME NEW s \in SUBSET Ids, s # {}, s \ {Chosen(s)} \in B
      PROVE  s \in B
  <2> DEFINE j == Chosen(s)
             r == s \ {j}
  <2>1. j \in s /\ j \in Ids /\ r \in SUBSET Ids
    BY <1>2, Smaller
  <2>2. f[s] = u[j] + f[r] /\ g[s] = v[j] + g[r]
    BY <1>0, <1>2 DEF Sums
  <2>3. IF i \in r THEN f[r] + v[i] = g[r] + u[i] ELSE f[r] = g[r]
    BY <1>2
  <2>4. {f[s], f[r], g[s], g[r], u[i], v[i], u[j], v[j]} \subseteq Nat
    BY <1>0, <2>1
  <2> HIDE DEF j
  <2>5. CASE i = j
    BY <2>1, <2>2, <2>3, <2>4, <2>5
  <2>6. CASE i # j
    <3>1. u[j] = v[j] /\ (i \in r <=> i \in s)
      BY <2>1, <2>6 DEF SameBut
    <3> QED
      BY <2>2, <2>3, <2>4, <3>1
  <2> QED
    BY <2>5, <2>6
<1>3. \A s \in SUBSET Ids : s \in B
  <2> HIDE DEF B
  <2> QED
    BY <1>1, <1>2, FoldInduction
<1> QED
  BY <1>3

\* every record has a size
Sized == \A i \in Ids : RecordSize(i) \in Nat

LEMMA SizesNext == TypeOK' => Sized'
<1>1. TypeOK => Sized
  BY Sizes DEF Sized
<1> QED
  BY <1>1, PTL

LEMMA UsageSumsNext == TypeOK' => UsageIsSum'
<1>1. TypeOK => UsageIsSum
  BY UsageSums
<1> QED
  BY <1>1, PTL

\* A step that touches one record changes what is retained by what that
\* record comes to count for.
LEMMA RetainedChanges ==
    ASSUME TypeOK, TypeOK', NEW i \in Ids,
           \A j \in Ids \ {i} : record'[j] = record[j]
    PROVE  /\ RetainedUsage \in Nat /\ RetainedUsage' \in Nat
           /\ Usage(i) \in Nat /\ Usage(i)' \in Nat
           /\ RetainedUsage' + Usage(i) = RetainedUsage + Usage(i)'
<1>1. UsageIsSum /\ UsageIsSum'
  BY UsageSums, UsageSumsNext
<1>2. PICK u \in [Ids -> Nat], f \in [SUBSET Ids -> Nat] :
        /\ \A j \in Ids : u[j] = Usage(j)
        /\ Sums(u, SUBSET Ids, f)
        /\ RetainedUsage = f[Ids]
  BY <1>1 DEF UsageIsSum
<1>3. PICK v \in [Ids -> Nat], g \in [SUBSET Ids -> Nat] :
        /\ \A j \in Ids : v[j] = Usage(j)'
        /\ Sums(v, SUBSET Ids, g)
        /\ RetainedUsage' = g[Ids]
  BY <1>1 DEF UsageIsSum, Sums
<1>4. SameBut(u, v, i)
  BY <1>2, <1>3 DEF SameBut, Usage, RecordSize, Named, Complete
<1>5. f[Ids] + v[i] = g[Ids] + u[i]
  <2>1. Summing(u, f) /\ Summing(v, g)
    BY <1>2, <1>3 DEF Summing
  <2> QED
    BY <1>4, <2>1, SumChanges
<1>6. {f[Ids], g[Ids], u[i], v[i]} \subseteq Nat
  OBVIOUS
<1> QED
  BY <1>2, <1>3, <1>5, <1>6

-----------------------------------------------------------------------------
(* The retention limit *)

\* Only i may be too long, and only by what it is too long is the limit passed.
Bounded(i) ==
    /\ \A j \in Ids : TooLong(j) => j = i
    /\ RetainedUsage <= Limit + Excess(i)

\* The record a call works on is the one that may be or become too long: the
\* call was let in when none was.
Retaining == \E i \in Ids : (~At("idle") => i = job.id) /\ Bounded(i)

\* A step that touches no record keeps them bounded.
LEMMA SameRetains ==
    ASSUME TypeOK, TypeOK', NEW i \in Ids, Bounded(i), UNCHANGED record
    PROVE  Bounded(i)'
<1>1. \A j \in Ids : /\ Usage(j)' = Usage(j) /\ Excess(j)' = Excess(j)
                    /\ TooLong(j)' = TooLong(j)
  BY DEF Usage, RecordSize, TooLong, Excess, Named, Complete
<1>2. /\ RetainedUsage \in Nat /\ RetainedUsage' \in Nat /\ Usage(i) \in Nat
      /\ RetainedUsage' + Usage(i) = RetainedUsage + Usage(i)'
  BY RetainedChanges
<1>3. \A a, b, c \in Nat : a + b = c + b => a = c
  OBVIOUS
<1>4. RetainedUsage' = RetainedUsage
  BY <1>1, <1>2, <1>3
<1> QED
  BY <1>1, <1>4 DEF Bounded

\* A record that has not outgrown its reservation has no excess.
LEMMA NoExcess ==
    ASSUME NEW i \in Ids, ~Complete(i) \/ ~TooLong(i)
    PROVE  Excess(i) = 0
BY DEF Excess

\* A call is let in while no record is too long, and then with its reservation
\* or with all that is retained within the limit.
LEMMA CallRetains ==
    ASSUME TypeOK, TypeOK', NEW r \in Requests, NEW s \in Sources, Call(r, s)
    PROVE  Retaining'
<1>1. /\ r.id \in Ids /\ r.size \in Nat /\ {Limit, Reservation} \subseteq Nat
      /\ r.meta \in 0..Reservation
  BY TransferAssumption DEF Ids
<1>2. job'.id = r.id /\ \A j \in Ids : ~TooLong(j)
  BY DEF Call, Readable
<1>3. CASE UNCHANGED record /\ RetainedUsage <= Limit
  <2>1. RetainedUsage \in Nat
    BY <1>1, <1>3, RetainedChanges
  <2>2. Bounded(r.id)
    BY <1>1, <1>2, <1>3, <2>1, NoExcess DEF Bounded
  <2> QED
    BY <1>1, <1>2, <1>3, <2>2, SameRetains DEF Retaining
<1>4. CASE /\ ~Named(r.id) /\ HasRoom(r)
           /\ record' = [record EXCEPT ![r.id] =
                [status |-> "incomplete", request |-> r, source |-> "none"]]
  <2>1. record'[r.id] = [status |-> "incomplete", request |-> r, source |-> "none"]
    BY <1>1, <1>4 DEF TypeOK
  <2>2. \A j \in Ids \ {r.id} : record'[j] = record[j]
    BY <1>4 DEF TypeOK
  <2>3. Usage(r.id) = 0
    BY <1>4 DEF Usage
  <2>4. Usage(r.id)' = r.size + Reservation /\ RecordSize(r.id)' = r.meta
    BY <1>1, <2>1 DEF Usage, RecordSize, Named, Complete
  <2>5. /\ RetainedUsage \in Nat /\ RetainedUsage' \in Nat
        /\ RetainedUsage' + Usage(r.id) = RetainedUsage + Usage(r.id)'
    BY <1>1, <2>2, RetainedChanges
  <2>6. RetainedUsage + r.size + Reservation <= Limit
    BY <1>4 DEF HasRoom
  <2>7. \A a, b, c, d, e \in Nat : a + 0 = b + (c + d) /\ b + c + d <= e => a <= e
    OBVIOUS
  <2>8. RetainedUsage' <= Limit
    BY <1>1, <2>3, <2>4, <2>5, <2>6, <2>7
  <2>9. ASSUME NEW j \in Ids
        PROVE  ~TooLong(j)'
    <3>1. CASE j = r.id
      BY <1>1, <2>4, <3>1 DEF TooLong
    <3>2. CASE j # r.id
      BY <1>2, <2>2, <3>2 DEF TooLong, RecordSize, Named, Complete
    <3> QED
      BY <3>1, <3>2
  <2>10. Excess(r.id)' = 0
    BY <1>1, <2>9 DEF Excess
  <2>11. Bounded(r.id)'
    BY <1>1, <2>5, <2>8, <2>9, <2>10 DEF Bounded
  <2> QED
    BY <1>1, <1>2, <2>11 DEF Retaining
<1> QED
  BY <1>3, <1>4 DEF Call

\* A check leaves what its record counts for, and what it may outgrow.
LEMMA CheckRetains ==
    ASSUME TypeOK, TypeOK', NEW i \in Ids, i = job.id, Bounded(i), Check
    PROVE  Bounded(i)'
<1>1. CASE UNCHANGED record
  BY <1>1, SameRetains
<1>2. CASE ~UNCHANGED record
  <2>1. record[i] \in RecordType /\ Named(i)
    BY Parts, Busy DEF Check, At
  <2>2. /\ ~Complete(i)
        /\ record' = [record EXCEPT ![i].status = "publishing",
                                    ![i].source = job.source]
    BY <1>2 DEF Check
  <2>3. record'[i] = [record[i] EXCEPT !.status = "publishing", !.source = job.source]
    BY <2>1, <2>2 DEF TypeOK
  <2>4. record'[i].status = "publishing" /\ record'[i].request = record[i].request
    BY <2>1, <2>3 DEF RecordType
  <2>5. \A j \in Ids \ {i} : record'[j] = record[j]
    BY <2>2 DEF TypeOK
  <2>6. Usage(i)' = Usage(i)
    BY <2>1, <2>2, <2>4 DEF Usage, Named, Complete
  <2>7. Excess(i) = 0 /\ Excess(i)' = 0
    BY <2>2, <2>4 DEF Excess, Complete
  <2>8. /\ RetainedUsage \in Nat /\ RetainedUsage' \in Nat /\ Usage(i) \in Nat
        /\ RetainedUsage' + Usage(i) = RetainedUsage + Usage(i)'
    BY <2>5, RetainedChanges
  <2>9. \A a, b, c \in Nat : a + b = c + b => a = c
    OBVIOUS
  <2>10. RetainedUsage' = RetainedUsage
    BY <2>6, <2>8, <2>9
  <2>11. \A j \in Ids \ {i} : ~TooLong(j)'
    BY <2>5 DEF Bounded, TooLong, RecordSize, Named, Complete
  <2> QED
    BY <2>7, <2>10, <2>11 DEF Bounded
<1> QED
  BY <1>1, <1>2

\* The receipt a call ends with may take more than was set aside for it, by
\* its excess.
LEMMA FinalizeRetains ==
    ASSUME TypeOK, TypeOK', JobKnows, NEW i \in Ids, i = job.id, Bounded(i),
           Finalize
    PROVE  Bounded(i)'
<1>1. record[i] \in RecordType /\ Named(i) /\ ~Complete(i)
  BY Parts, Busy DEF Finalize, At, JobKnows
<1>2. /\ record[i].request.size \in Nat /\ {Limit, Reservation} \subseteq Nat
      /\ RecordSize(i)' \in Nat
  BY SizesNext, Parts, TransferAssumption DEF Sized
<1>3. record' = [record EXCEPT ![i].status = "complete"]
  BY DEF Finalize
<1>4. record'[i] = [record[i] EXCEPT !.status = "complete"]
  BY <1>1, <1>3 DEF TypeOK
<1>5. record'[i].status = "complete" /\ record'[i].request = record[i].request
  BY <1>1, <1>4 DEF RecordType
<1>6. \A j \in Ids \ {i} : record'[j] = record[j]
  BY <1>3 DEF TypeOK
<1>7. Usage(i) = record[i].request.size + Reservation
  BY <1>1 DEF Usage
<1>8. Usage(i)' = record[i].request.size + RecordSize(i)'
  BY <1>5 DEF Usage, Named, Complete
<1>9. Excess(i) = 0 /\ Excess(i)' \in Nat /\ RecordSize(i)' <= Reservation + Excess(i)'
  <2>1. Complete(i)' /\ Named(i)'
    BY <1>5 DEF Complete, Named
  <2>2. TooLong(i)' <=> RecordSize(i)' > Reservation
    BY <2>1 DEF TooLong
  <2>3. Excess(i)' = IF RecordSize(i)' > Reservation
                     THEN RecordSize(i)' - Reservation ELSE 0
    BY <2>1, <2>2 DEF Excess
  <2> QED
    BY <1>1, <1>2, <2>3, NoExcess
<1>10. /\ RetainedUsage \in Nat /\ RetainedUsage' \in Nat
       /\ RetainedUsage' + Usage(i) = RetainedUsage + Usage(i)'
  BY <1>6, RetainedChanges
<1>11. \A a, b, c, d, e, f, k \in Nat :
            a + (c + d) = b + (c + e) /\ b <= k + 0 /\ e <= d + f => a <= k + f
  OBVIOUS
<1>12. RetainedUsage' <= Limit + Excess(i)'
  BY <1>2, <1>7, <1>8, <1>9, <1>10, <1>11 DEF Bounded
<1>13. \A j \in Ids \ {i} : ~TooLong(j)'
  BY <1>6 DEF Bounded, TooLong, RecordSize, Named, Complete
<1> QED
  BY <1>12, <1>13 DEF Bounded

LEMMA NextRetains ==
    ASSUME Inv, Retaining, [Next]_vars
    PROVE  Retaining'
<1>1. TypeOK /\ TypeOK' /\ JobKnows
  BY NextTypes DEF Inv
<1>2. PICK i \in Ids : (~At("idle") => i = job.id) /\ Bounded(i)
  BY DEF Retaining
<1>3. CASE \E r \in Requests, s \in Sources : Call(r, s)
  BY <1>1, <1>3, CallRetains
<1>4. CASE Check \/ Finalize
  <2>1. i = job.id /\ (~At("idle")' => i = job'.id)
    BY <1>1, <1>2, <1>4, Jobs DEF Check, Finalize, At, Goes, Returns
  <2> QED
    BY <1>1, <1>2, <1>4, <2>1, CheckRetains, FinalizeRetains DEF Retaining
<1>5. CASE UNCHANGED record /\ (~At("idle")' => ~At("idle") /\ job'.id = job.id)
  BY <1>1, <1>2, <1>5, SameRetains DEF Retaining
<1>6. ASSUME NEW pc \in {"look", "source", "writing", "check", "publish",
                          "link", "unlink", "verify", "finalize"},
             At(pc),
             \/ Returns
             \/ \E to \in {"check", "writing", "publish", "finalize", "link",
                           "unlink", "verify"} : Goes(to)
      PROVE  ~At("idle")' => ~At("idle") /\ job'.id = job.id
  <2>1. ~At("idle")
    BY <1>6 DEF At
  <2>2. CASE Returns
    <3>1. Idle.pc = "idle"
      BY <1>1, Jobs
    <3> QED
      BY <2>2, <3>1 DEF At, Returns
  <2>3. ASSUME NEW to \in {"check", "writing", "publish", "finalize", "link",
                           "unlink", "verify"}, Goes(to)
        PROVE  job'.id = job.id
    <3>1. [job EXCEPT !.pc = to].id = job.id
      BY <1>1, Jobs
    <3> QED
      BY <2>3, <3>1 DEF Goes
  <2> QED
    BY <1>6, <2>1, <2>2, <2>3
<1>7. ASSUME Look \/ Source \/ Written \/ Publish \/ Link \/ Unlink \/ Verify
      PROVE  UNCHANGED record /\ (~At("idle")' => ~At("idle") /\ job'.id = job.id)
  <2>1. CASE Look
    <3>1. [job EXCEPT !.pc = "source", !.present = Present(job.id)].id = job.id
      BY <1>1 DEF TypeOK, JobType
    <3> QED
      BY <1>1, <2>1, <3>1, Jobs DEF Look, At, Returns
  <2>2. CASE Source \/ Written
    BY <1>6, <2>2 DEF Source, Written
  <2>3. CASE Publish \/ Link
    BY <1>6, <2>3 DEF Publish, Link
  <2>4. CASE Unlink \/ Verify
    BY <1>6, <2>4 DEF Unlink, Verify
  <2> QED
    BY <1>7, <2>1, <2>2, <2>3, <2>4
<1>8. ASSUME \/ Fails \/ UNCHANGED vars
             \/ \E d \in Dests, bytes \in Contents : Creates(d, bytes)
             \/ \E d \in Dests : Removes(d)
      PROVE  UNCHANGED record /\ (~At("idle")' => ~At("idle") /\ job'.id = job.id)
  <2>1. CASE Fails
    BY <1>1, <2>1, Jobs DEF Fails, At, Returns
  <2>2. ASSUME ~Fails
        PROVE  job' = job /\ record' = record
    BY <1>8, <2>2 DEF Creates, Removes, vars
  <2> QED
    BY <2>1, <2>2 DEF At
<1> QED
  BY <1>3, <1>4, <1>5, <1>7, <1>8 DEF Next, Step

\* Nothing is retained at first.
LEMMA InitRetains ==
    ASSUME Init
    PROVE  Retaining
<1>1. PICK u \in [Ids -> Nat], g \in [SUBSET Ids -> Nat] :
        /\ \A j \in Ids : u[j] = Usage(j)
        /\ Sums(u, SUBSET Ids, g)
        /\ RetainedUsage = g[Ids]
  BY InitTypes, UsageSums DEF UsageIsSum
<1>2. \A j \in Ids : u[j] = 0
  BY <1>1 DEF Init, Usage, Named
<1> DEFINE B == {s \in SUBSET Ids : g[s] = 0}
<1>3. {} \in B
  BY <1>1 DEF Sums
<1>4. ASSUME NEW s \in SUBSET Ids, s # {}, s \ {Chosen(s)} \in B
      PROVE  s \in B
  <2>1. Chosen(s) \in Ids /\ s \ {Chosen(s)} \in SUBSET Ids
    BY <1>4, Smaller
  <2>2. g[s] = u[Chosen(s)] + g[s \ {Chosen(s)}]
    BY <1>1, <1>4 DEF Sums
  <2> QED
    BY <1>2, <1>4, <2>1, <2>2
<1>5. \A s \in SUBSET Ids : s \in B
  <2> HIDE DEF B
  <2> QED
    BY <1>3, <1>4, FoldInduction
<1>6. g[Ids] = 0
  BY <1>5
<1>7. job.id \in Ids /\ \A i \in Ids : ~Named(i)
  BY InitTypes DEF Init, Named, TypeOK, JobType
<1>8. RetainedUsage = 0 /\ \A i \in Ids : ~TooLong(i) /\ Excess(i) = 0
  BY <1>1, <1>6, <1>7 DEF TooLong, Excess
<1>9. Bounded(job.id)
  BY <1>7, <1>8, TransferAssumption DEF Bounded
<1> QED
  BY <1>7, <1>9 DEF Retaining

\* Whatever mixture of new, retried, failed and completed transfers there
\* is, the bytes retained with their reservations stay within the limit, but
\* for what the receipt of a single transfer, after which no call is let in,
\* may have outgrown its reservation by.
THEOREM RetainedWithinLimit == Spec => []RetainedBounded
<1>1. Init => Retaining
  BY InitRetains
<1>2. Inv /\ Retaining /\ [Next]_vars => Retaining'
  BY NextRetains
<1>3. Retaining => RetainedBounded
  BY DEF Retaining, Bounded, RetainedBounded
<1> QED
  BY <1>1, <1>2, <1>3, Invariant, PTL DEF Spec
=============================================================================
