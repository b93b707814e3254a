------------------------- MODULE SurfaceLeaseProofs -------------------------
(***************************************************************************)
(* Proofs about SurfaceLease for any number of grants and threads and any  *)
(* durations: the types, that the watchdog never misses a wakeup, that no  *)
(* lease leaves its envelope, that what was ended stays ended and that     *)
(* only a call that was overtaken prolongs a lapsed lease.                 *)
(***************************************************************************)
EXTENDS SurfaceLease, TLAPS

USE LeaseAssumption

-----------------------------------------------------------------------------
(* The inductive invariant. *)

\* a grant is issued once, by the one call that has its identity
IssuesOnce ==
    \A t \in Threads : thread[t].pc = "issue" =>
        /\ grant[thread[t].grant].phase = "none"
        /\ \A u \in Threads \ {t} :
                ~(thread[u].pc = "issue" /\ thread[u].grant = thread[t].grant)

\* while a reservation keeps the lock its lease is the one it validated
ReservesLive ==
    \A t \in Threads : thread[t].pc = "reserve" =>
        Live(thread[t].grant) /\ thread[t].at < Deadline(thread[t].grant)

Inv == TypeOK /\ SleepIsShort /\ WithinEnvelope /\ IssuesOnce /\ ReservesLive

\* What a state is made of.
LEMMA Parts ==
    ASSUME TypeOK
    PROVE  /\ now \in Nat
           /\ \A g \in Grants :
                /\ grant[g] \in GrantType
                /\ grant[g].absolute \in Nat /\ grant[g].lease \in Nat
                /\ grant[g].updates \in Nat /\ grant[g].beats \in Nat
           /\ \A t \in Threads :
                /\ thread[t] \in ThreadType
                /\ thread[t].grant \in Grants
                /\ thread[t].at \in Nat /\ thread[t].seq \in Nat
                /\ thread[t].at <= now
BY DEF TypeOK, GrantType, ThreadType

\* The watchdog keeps its shape when it is notified, and then sleeps no more
\* without knowing.
LEMMA Notified ==
    ASSUME TypeOK, Notifies
    PROVE  watchdog' \in WatchdogType /\ SleepIsShort'
BY DEF TypeOK, Notifies, WatchdogType, SleepIsShort

\* Whoever returns reads no clock and keeps no lock.
LEMMA Returned ==
    ASSUME TypeOK, NEW t \in Threads, Returns(t)
    PROVE  /\ thread' \in [Threads -> ThreadType]
           /\ thread'[t].pc = "idle" /\ thread'[t].at = 0
           /\ \A u \in Threads \ {t} : thread'[u] = thread[u]
<1>1. Idle \in ThreadType /\ Idle.pc = "idle" /\ Idle.at = 0
  BY DEF Idle, ThreadType
<1> QED
  BY <1>1 DEF TypeOK, Returns

\* A call begins with the present time.
LEMMA Called ==
    ASSUME TypeOK, NEW t \in Threads, NEW g \in Grants, NEW seq \in Nat,
           NEW pc, pc \in {"issue", "beat", "relinquish", "reserve"},
           Calls(t, pc, g, seq)
    PROVE  /\ thread' \in [Threads -> ThreadType]
           /\ thread[t].pc = "idle"
           /\ thread'[t].pc = pc /\ thread'[t].grant = g /\ thread'[t].at = now
           /\ \A u \in Threads \ {t} : thread'[u] = thread[u]
BY DEF TypeOK, Calls, ThreadType

-----------------------------------------------------------------------------
(* The initial states. *)

LEMMA InitInv ==
    ASSUME Init
    PROVE  Inv
<1>1. Idle \in ThreadType /\ Idle.pc = "idle" /\ Idle.at = 0
  BY DEF Idle, ThreadType
<1>2. TypeOK
  BY <1>1 DEF Init, TypeOK, GrantType, WatchdogType
<1>3. SleepIsShort /\ WithinEnvelope
  BY DEF Init, SleepIsShort, WithinEnvelope, Live
<1>4. IssuesOnce /\ ReservesLive
  BY <1>1 DEF Init, IssuesOnce, ReservesLive
<1> QED
  BY <1>2, <1>3, <1>4 DEF Inv

-----------------------------------------------------------------------------
(* The steps that leave the grants alone. *)

\* A new call.
LEMMA RequestKeeps ==
    ASSUME Inv, NEW t \in Threads, Request(t)
    PROVE  Inv'
<1>1. PICK g \in Grants :
        \/ CallIssue(t, g)
        \/ \E seq \in 1..MaxBeats : CallBeat(t, g, seq)
        \/ CallRelinquish(t, g)
        \/ Reserve(t, g)
  BY DEF Request
<1>2. TypeOK /\ SleepIsShort /\ WithinEnvelope /\ IssuesOnce /\ ReservesLive
  BY DEF Inv
<1>3. now' = now /\ grant' = grant /\ watchdog' = watchdog
  BY <1>1 DEF CallIssue, CallBeat, CallRelinquish, Reserve
<1>4. SleepIsShort' /\ WithinEnvelope'
  BY <1>2, <1>3 DEF SleepIsShort, WithinEnvelope, Live, Deadline
<1>5. PICK seq \in Nat, pc \in {"issue", "beat", "relinquish", "reserve"} :
        /\ Calls(t, pc, g, seq)
        /\ pc = "issue" => CallIssue(t, g)
        /\ IF pc = "reserve"
           THEN lock = NoThread /\ lock' = t /\ Live(g) /\ now < Deadline(g)
           ELSE lock' = lock
  <2>1. 0 \in Nat /\ \A seq \in 1..MaxBeats : seq \in Nat
    OBVIOUS
  <2>2. CASE CallIssue(t, g)
    <3>1. Calls(t, "issue", g, 0) /\ lock' = lock
      BY <2>2 DEF CallIssue
    <3> QED
      BY <2>1, <2>2, <3>1
  <2>3. CASE \E seq \in 1..MaxBeats : CallBeat(t, g, seq)
    <3>1. PICK seq \in 1..MaxBeats : Calls(t, "beat", g, seq) /\ lock' = lock
      BY <2>3 DEF CallBeat
    <3> QED
      BY <2>1, <3>1
  <2>4. CASE CallRelinquish(t, g)
    <3>1. Calls(t, "relinquish", g, 0) /\ lock' = lock
      BY <2>4 DEF CallRelinquish
    <3> QED
      BY <2>1, <3>1
  <2>5. CASE Reserve(t, g)
    <3>1. /\ Calls(t, "reserve", g, 0)
          /\ lock = NoThread /\ lock' = t /\ Live(g) /\ now < Deadline(g)
      BY <2>5 DEF Reserve, Free
    <3> QED
      BY <2>1, <3>1
  <2> QED
    BY <1>1, <2>2, <2>3, <2>4, <2>5
<1>6. /\ thread' \in [Threads -> ThreadType] /\ thread[t].pc = "idle"
      /\ thread'[t].pc = pc /\ thread'[t].grant = g /\ thread'[t].at = now
      /\ \A u \in Threads \ {t} : thread'[u] = thread[u]
  BY <1>2, <1>5, Called
<1>7. TypeOK'
  <2>1. \A u \in Threads : thread'[u].at <= now
    BY <1>2, <1>6, Parts
  <2>2. lock' \in Threads \cup {NoThread}
    BY <1>2, <1>5 DEF TypeOK
  <2>3. \A u \in Threads : lock' = u <=> thread'[u].pc = "reserve"
    BY <1>2, <1>5, <1>6 DEF TypeOK
  <2> QED
    BY <1>2, <1>3, <1>6, <2>1, <2>2, <2>3 DEF TypeOK
<1>8. IssuesOnce'
  <2>1. pc = "issue" =>
            /\ grant[g].phase = "none"
            /\ \A u \in Threads : ~(thread[u].pc = "issue" /\ thread[u].grant = g)
    BY <1>5 DEF CallIssue
  <2> QED
    BY <1>2, <1>3, <1>6, <2>1 DEF IssuesOnce
<1>9. ReservesLive'
  BY <1>2, <1>3, <1>5, <1>6 DEF ReservesLive, Live, Deadline
<1> QED
  BY <1>4, <1>7, <1>8, <1>9 DEF Inv

\* A call that returns without a trace, and gives the lock back if it kept it.
LEMMA ReturnKeeps ==
    ASSUME Inv, NEW t \in Threads, Returns(t),
           now' = now, grant' = grant, watchdog' = watchdog,
           thread[t].pc # "idle",
           lock' = IF thread[t].pc = "reserve" THEN NoThread ELSE lock
    PROVE  Inv'
<1>1. TypeOK /\ SleepIsShort /\ WithinEnvelope /\ IssuesOnce /\ ReservesLive
  BY DEF Inv
<1>2. /\ thread' \in [Threads -> ThreadType]
      /\ thread'[t].pc = "idle" /\ thread'[t].at = 0
      /\ \A u \in Threads \ {t} : thread'[u] = thread[u]
  BY <1>1, Returned
<1>3. TypeOK'
  BY <1>1, <1>2 DEF TypeOK
<1>4. SleepIsShort' /\ WithinEnvelope'
  BY <1>1 DEF SleepIsShort, WithinEnvelope, Live, Deadline
<1>5. IssuesOnce' /\ ReservesLive'
  BY <1>1, <1>2 DEF IssuesOnce, ReservesLive, Live, Deadline
<1> QED
  BY <1>3, <1>4, <1>5 DEF Inv

-----------------------------------------------------------------------------
(* The steps that move deadlines. *)

\* A lease that is renewed from a reading of the clock that is not ahead stays
\* in its envelope.
LEMMA Envelope ==
    ASSUME NEW absolute \in Nat, NEW at \in Nat
    PROVE  /\ Extended(absolute, at) \in Nat
           /\ Extended(absolute, at) <= absolute
           /\ Extended(absolute, at) <= at + Timeout
BY DEF Extended, Earlier

\* A call that returns after it changed the lease of its own live grant, or of
\* the grant it issues.
LEMMA MoveKeeps ==
    ASSUME Inv, NEW t \in Threads, NEW new \in GrantType,
           thread[t].pc # "idle",
           lock' = IF thread[t].pc = "reserve" THEN NoThread ELSE lock,
           grant' = [grant EXCEPT ![thread[t].grant] = new],
           new.phase = "live", new.lease <= new.absolute,
           new.lease <= now + Timeout,
           thread[t].pc = "issue" \/ Live(thread[t].grant),
           Free \/ lock = t,
           Notifies, Returns(t), now' = now
    PROVE  Inv'
<1>1. TypeOK /\ SleepIsShort /\ WithinEnvelope /\ IssuesOnce /\ ReservesLive
  BY DEF Inv
<1>2. /\ thread' \in [Threads -> ThreadType]
      /\ thread'[t].pc = "idle" /\ thread'[t].at = 0
      /\ \A u \in Threads \ {t} : thread'[u] = thread[u]
  BY <1>1, Returned
<1>3. watchdog' \in WatchdogType /\ SleepIsShort'
  BY <1>1, Notified
<1> DEFINE g == thread[t].grant
<1>4. /\ g \in Grants /\ grant' \in [Grants -> GrantType] /\ grant'[g] = new
      /\ \A h \in Grants \ {g} : grant'[h] = grant[h]
  BY <1>1, Parts DEF TypeOK
<1>5. TypeOK'
  <2>1. lock' \in Threads \cup {NoThread}
    BY <1>1 DEF TypeOK
  <2>2. \A u \in Threads : thread'[u].at <= now
    BY <1>1, <1>2, Parts
  <2>3. \A u \in Threads : lock' = u <=> thread'[u].pc = "reserve"
    BY <1>1, <1>2 DEF TypeOK
  <2> QED
    BY <1>1, <1>2, <1>3, <1>4, <2>1, <2>2, <2>3 DEF TypeOK
<1>6. WithinEnvelope'
  BY <1>1, <1>4 DEF WithinEnvelope, Live
<1>7. IssuesOnce'
  <2> SUFFICES ASSUME NEW u \in Threads, thread'[u].pc = "issue"
               PROVE  /\ grant'[thread'[u].grant].phase = "none"
                      /\ \A v \in Threads \ {u} :
                            ~(/\ thread'[v].pc = "issue"
                              /\ thread'[v].grant = thread'[u].grant)
    BY DEF IssuesOnce
  <2>1. u # t /\ thread'[u] = thread[u]
    BY <1>2
  <2>2. /\ grant[thread[u].grant].phase = "none"
        /\ \A v \in Threads \ {u} :
                ~(thread[v].pc = "issue" /\ thread[v].grant = thread[u].grant)
    BY <1>1, <2>1 DEF IssuesOnce
  <2>3. thread[u].grant # g
    BY <2>1, <2>2 DEF Live
  <2>4. thread[u].grant \in Grants
    BY <1>1, Parts
  <2> QED
    BY <1>2, <1>4, <2>1, <2>2, <2>3, <2>4
<1>8. ReservesLive'
  <2> SUFFICES ASSUME NEW u \in Threads, thread'[u].pc = "reserve"
               PROVE  FALSE
    BY DEF ReservesLive
  <2>1. u # t /\ thread[u].pc = "reserve"
    BY <1>2
  <2>2. lock = u /\ lock' = u
    BY <1>1, <1>5, <2>1 DEF TypeOK
  <2> QED
    BY <1>1, <2>1, <2>2 DEF Free, TypeOK
<1> QED
  BY <1>3, <1>5, <1>6, <1>7, <1>8 DEF Inv

\* An answer.
LEMMA AnswerKeeps ==
    ASSUME Inv, NEW t \in Threads, Answer(t)
    PROVE  Inv'
<1>1. TypeOK /\ SleepIsShort /\ WithinEnvelope /\ IssuesOnce /\ ReservesLive
  BY DEF Inv
<1> DEFINE g == thread[t].grant
           at == thread[t].at
<1>2. /\ g \in Grants /\ grant[g] \in GrantType /\ at \in Nat /\ now \in Nat
      /\ at <= now /\ thread[t].seq \in Nat
      /\ grant[g].absolute \in Nat /\ grant[g].lease \in Nat
      /\ grant[g].updates \in Nat /\ grant[g].beats \in Nat
  BY <1>1, Parts
<1>3. CASE IssueFails(t) \/ ReserveFails(t)
  BY <1>3, ReturnKeeps DEF IssueFails, ReserveFails
<1>4. CASE Issue(t)
  <2> DEFINE absolute == at + Duration
             new == [phase |-> "live", absolute |-> absolute,
                     lease |-> Extended(absolute, at),
                     beats |-> 0, updates |-> 0]
  <2>1. absolute \in Nat
    BY <1>2
  <2>2. /\ Extended(absolute, at) \in Nat
        /\ Extended(absolute, at) <= absolute
        /\ Extended(absolute, at) <= at + Timeout
    BY <1>2, <2>1, Envelope
  <2>3. /\ new \in GrantType /\ new.phase = "live"
        /\ new.lease <= new.absolute /\ new.lease <= now + Timeout
    BY <1>2, <2>1, <2>2 DEF GrantType
  <2>4. /\ thread[t].pc = "issue" /\ Free /\ Notifies /\ Returns(t)
        /\ now' = now /\ lock' = lock
        /\ grant' = [grant EXCEPT ![g] = new]
    BY <1>4 DEF Issue
  <2> HIDE DEF new
  <2> QED
    BY <2>3, <2>4, MoveKeeps
<1>5. CASE Beat(t)
  <2>1. CASE MayBeat(t)
    <3> DEFINE lease == Extended(grant[g].absolute, at)
               new == [grant[g] EXCEPT !.beats = thread[t].seq, !.lease = lease]
    <3>1. lease \in Nat /\ lease <= grant[g].absolute /\ lease <= at + Timeout
      BY <1>2, Envelope
    <3>2. /\ thread[t].pc = "beat" /\ Free /\ Notifies /\ Returns(t) /\ Live(g)
          /\ now' = now /\ lock' = lock
          /\ grant' = [grant EXCEPT ![g].beats = thread[t].seq,
                                    ![g].lease = lease]
      BY <1>5, <2>1 DEF Beat, MayBeat
    <3> HIDE DEF lease
    <3>3. /\ new \in GrantType /\ new.phase = "live"
          /\ new.lease = lease /\ new.absolute = grant[g].absolute
      BY <1>2, <3>1, <3>2 DEF GrantType, Live
    <3>4. grant' = [grant EXCEPT ![g] = new]
      BY <1>1, <1>2, <3>2 DEF TypeOK, GrantType
    <3>5. new.lease <= new.absolute /\ new.lease <= now + Timeout
      BY <1>2, <3>1, <3>3
    <3> HIDE DEF new
    <3> QED
      BY <3>2, <3>3, <3>4, <3>5, MoveKeeps
  <2>2. CASE ~MayBeat(t)
    BY <1>5, <2>2, ReturnKeeps DEF Beat
  <2> QED
    BY <2>1, <2>2
<1>6. CASE Relinquish(t)
  <2>1. CASE Live(g)
    <3> DEFINE lease == Earlier(grant[g].lease, at)
               new == [grant[g] EXCEPT !.lease = lease]
    <3>1. lease \in Nat /\ lease <= grant[g].lease
      BY <1>2 DEF Earlier
    <3>2. /\ thread[t].pc = "relinquish" /\ Free /\ Notifies /\ Returns(t)
          /\ now' = now /\ lock' = lock
          /\ grant' = [grant EXCEPT ![g].lease = lease]
      BY <1>1, <1>2, <1>6, <2>1 DEF Relinquish, TypeOK
    <3>3. grant[g].lease <= grant[g].absolute /\ grant[g].lease <= now + Timeout
      BY <1>1, <1>2, <2>1 DEF WithinEnvelope
    <3>4. /\ new \in GrantType /\ new.phase = "live"
          /\ new.lease <= new.absolute /\ new.lease <= now + Timeout
      BY <1>2, <2>1, <3>1, <3>3 DEF GrantType, Live
    <3>5. grant' = [grant EXCEPT ![g] = new]
      BY <1>1, <1>2, <3>2 DEF TypeOK, GrantType
    <3> HIDE DEF new, lease
    <3> QED
      BY <2>1, <3>2, <3>4, <3>5, MoveKeeps
  <2>2. CASE ~Live(g)
    BY <1>6, <2>2, ReturnKeeps DEF Relinquish
  <2> QED
    BY <2>1, <2>2
<1>7. CASE Renew(t)
  <2> DEFINE lease == Extended(grant[g].absolute, now)
             new == [grant[g] EXCEPT !.updates = @ + 1, !.lease = lease]
  <2>1. lease \in Nat /\ lease <= grant[g].absolute /\ lease <= now + Timeout
    BY <1>2, Envelope
  <2>2. /\ thread[t].pc = "reserve" /\ lock' = NoThread
        /\ Notifies /\ Returns(t) /\ now' = now
        /\ grant' = [grant EXCEPT ![g].updates = @ + 1, ![g].lease = lease]
    BY <1>7 DEF Renew
  <2>3. Live(g) /\ lock = t
    BY <1>1, <2>2 DEF ReservesLive, TypeOK
  <2> HIDE DEF lease
  <2>4. grant[g].updates + 1 \in Nat
    BY <1>2
  <2>5. /\ new \in GrantType /\ new.phase = "live"
        /\ new.lease = lease /\ new.absolute = grant[g].absolute
    BY <1>2, <2>1, <2>3, <2>4 DEF GrantType, Live
  <2>6. /\ grant' = [grant EXCEPT ![g] = new]
        /\ new.lease <= new.absolute /\ new.lease <= now + Timeout
    BY <1>1, <1>2, <2>1, <2>2, <2>5 DEF TypeOK, GrantType
  <2> HIDE DEF new
  <2> QED
    BY <2>2, <2>3, <2>5, <2>6, MoveKeeps
<1> QED
  BY <1>3, <1>4, <1>5, <1>6, <1>7 DEF Answer

-----------------------------------------------------------------------------
(* The other steps. *)

\* A revocation, and the watchdog that collects the lapsed grants.
LEMMA EndKeeps ==
    ASSUME Inv, NEW ends \in SUBSET Grants,
           \A g \in ends : Live(g),
           Free, lock' = lock, thread' = thread, now' = now,
           grant' = [g \in Grants |-> IF g \in ends
                                      THEN [grant[g] EXCEPT !.phase = "ended"]
                                      ELSE grant[g]],
           watchdog' \in WatchdogType, SleepIsShort'
    PROVE  Inv'
<1>1. TypeOK /\ WithinEnvelope /\ IssuesOnce /\ ReservesLive
  BY DEF Inv
<1>2. grant' \in [Grants -> GrantType]
  BY <1>1 DEF TypeOK, GrantType
<1>3. TypeOK'
  BY <1>1, <1>2 DEF TypeOK
<1>4. \A g \in Grants : Live(g)' => Live(g) /\ grant'[g] = grant[g]
  BY <1>1 DEF Live, TypeOK, GrantType
<1>5. WithinEnvelope'
  BY <1>1, <1>4 DEF WithinEnvelope
<1>6. IssuesOnce'
  BY <1>1, Parts DEF IssuesOnce, Live
<1>7. ReservesLive'
  BY <1>1 DEF ReservesLive, TypeOK, Free
<1> QED
  BY <1>3, <1>5, <1>6, <1>7 DEF Inv

\* Time, and the watchdog's sleep.
LEMMA WaitKeeps ==
    ASSUME Inv, Sleep \/ Wake \/ Fenced \/ Tick
    PROVE  Inv'
<1>1. TypeOK /\ SleepIsShort /\ WithinEnvelope /\ IssuesOnce /\ ReservesLive
  BY DEF Inv
<1>2. grant' = grant /\ thread' = thread /\ lock' = lock
  BY DEF Sleep, Wake, Fenced, Tick
<1>3. now' \in Nat /\ now <= now'
  BY <1>1 DEF Sleep, Wake, Fenced, Tick, TypeOK
<1>4. watchdog' \in WatchdogType /\ SleepIsShort'
  <2>1. CASE Sleep
    <3>1. PICK wake \in {Deadline(g) : g \in {h \in Grants : Live(h)}}
                            \cup {Never} :
            /\ \A g \in Grants : Live(g) => wake <= Deadline(g)
            /\ watchdog' = [pc |-> "asleep", wake |-> wake, notified |-> FALSE]
      BY <2>1 DEF Sleep
    <3>2. wake \in Nat
      BY <1>1, Parts DEF Never, Deadline, Earlier
    <3> QED
      BY <1>2, <3>1, <3>2 DEF WatchdogType, SleepIsShort, Live, Deadline
  <2>2. CASE Wake \/ Fenced
    <3>1. watchdog' \in WatchdogType
      <4>1. CASE Wake
        BY <4>1 DEF Wake, WatchdogType
      <4>2. CASE Fenced
        BY <1>1, <4>2 DEF Fenced, WatchdogType, TypeOK
      <4> QED
        BY <2>2, <4>1, <4>2
    <3>2. watchdog'.pc = "running"
      BY <1>1, <2>2 DEF Wake, Fenced, WatchdogType, TypeOK
    <3> QED
      BY <3>1, <3>2 DEF SleepIsShort
  <2>3. CASE Tick
    BY <1>1, <1>2, <2>3 DEF Tick, TypeOK, SleepIsShort, Live, Deadline
  <2> QED
    BY <2>1, <2>2, <2>3
<1>5. TypeOK'
  BY <1>1, <1>2, <1>3, <1>4, Parts DEF TypeOK
<1>6. WithinEnvelope'
  BY <1>1, <1>2, <1>3, Parts DEF WithinEnvelope, Live
<1>7. IssuesOnce' /\ ReservesLive'
  BY <1>1, <1>2 DEF IssuesOnce, ReservesLive, Live, Deadline
<1> QED
  BY <1>4, <1>5, <1>6, <1>7 DEF Inv

LEMMA NextInv ==
    ASSUME Inv, [Next]_vars
    PROVE  Inv'
<1>1. TypeOK /\ SleepIsShort /\ WithinEnvelope /\ IssuesOnce /\ ReservesLive
  BY DEF Inv
<1>2. CASE \E t \in Threads : Request(t) \/ Answer(t)
  BY <1>2, RequestKeeps, AnswerKeeps
<1>3. CASE \E g \in Grants : Revoke(g)
  <2>1. PICK g \in Grants : Revoke(g)
    BY <1>3
  <2>2. watchdog' \in WatchdogType /\ SleepIsShort'
    BY <1>1, <2>1, Notified DEF Revoke
  <2>3. grant' = [h \in Grants |-> IF h \in {g}
                                   THEN [grant[h] EXCEPT !.phase = "ended"]
                                   ELSE grant[h]]
    BY <1>1, <2>1 DEF Revoke, TypeOK
  <2>4. /\ {g} \in SUBSET Grants /\ \A h \in {g} : Live(h)
        /\ Free /\ lock' = lock /\ thread' = thread /\ now' = now
    BY <2>1 DEF Revoke
  <2> QED
    BY <2>2, <2>3, <2>4, EndKeeps
<1>4. CASE Collect
  <2>1. watchdog' \in WatchdogType /\ watchdog'.pc = "fencing"
    BY <1>1, <1>4 DEF Collect, TypeOK, WatchdogType
  <2>2. SleepIsShort'
    BY <2>1 DEF SleepIsShort
  <2>3. grant' = [h \in Grants |-> IF h \in Lapsed
                                   THEN [grant[h] EXCEPT !.phase = "ended"]
                                   ELSE grant[h]]
    BY <1>4 DEF Collect
  <2>4. Lapsed \in SUBSET Grants /\ \A h \in Lapsed : Live(h)
    BY DEF Lapsed
  <2>5. Free /\ lock' = lock /\ thread' = thread /\ now' = now
    BY <1>4 DEF Collect
  <2> QED
    BY <2>1, <2>2, <2>3, <2>4, <2>5, EndKeeps
<1>5. CASE Sleep \/ Wake \/ Fenced \/ Tick
  BY <1>5, WaitKeeps
<1>6. CASE UNCHANGED vars
  BY <1>1, <1>6 DEF Inv, vars, TypeOK, SleepIsShort, WithinEnvelope, IssuesOnce,
                    ReservesLive, Live, Deadline
<1> QED
  BY <1>2, <1>3, <1>4, <1>5, <1>6 DEF Next, Watchdog

-----------------------------------------------------------------------------
(* The theorems. *)

\* The invariant holds throughout.
THEOREM Invariant == Spec => []Inv
<1>1. Init => Inv
  BY InitInv
<1>2. Inv /\ [Next]_vars => Inv'
  BY NextInv
<1> QED
  BY <1>1, <1>2, PTL DEF Spec

\* The state keeps its shape, only a reservation keeps the lock, and no call
\* has read a clock that is ahead.
THEOREM Types == Spec => []TypeOK
<1>1. Inv => TypeOK
  BY DEF Inv
<1> QED
  BY <1>1, Invariant, PTL

\* Whatever issues, heartbeats, relinquishments and submissions do to the
\* deadlines, a watchdog that sleeps on is due in time for all of them.
THEOREM NoLostWakeup == Spec => []SleepIsShort
<1>1. Inv => SleepIsShort
  BY DEF Inv
<1> QED
  BY <1>1, Invariant, PTL

\* No lease exceeds its grant or one heartbeat timeout from now.
THEOREM LeaseWithinEnvelope == Spec => []WithinEnvelope
<1>1. Inv => WithinEnvelope
  BY DEF Inv
<1> QED
  BY <1>1, Invariant, PTL

\* A grant that was ended is never touched again: every call that could is
\* refused when it gets the lock.
THEOREM EndedStaysEnded == Spec => EndedIsFinal
<1>1. Inv /\ [Next]_vars =>
        \A g \in Grants : grant[g].phase = "ended" => grant'[g] = grant[g]
  <2> SUFFICES ASSUME Inv, [Next]_vars, NEW g \in Grants,
                      grant[g].phase = "ended"
               PROVE  grant'[g] = grant[g]
    OBVIOUS
  <2>1. TypeOK /\ IssuesOnce /\ ReservesLive /\ ~Live(g)
    BY DEF Inv, Live
  <2>2. ASSUME NEW t \in Threads, Request(t)
        PROVE  grant'[g] = grant[g]
    BY <2>2 DEF Request, CallIssue, CallBeat, CallRelinquish, Reserve
  <2>3. ASSUME NEW t \in Threads, Answer(t)
        PROVE  grant'[g] = grant[g]
    <3>1. thread[t].pc = "issue" => thread[t].grant # g
      BY <2>1 DEF IssuesOnce
    <3>2. thread[t].pc = "reserve" => thread[t].grant # g
      BY <2>1 DEF ReservesLive
    <3>3. Live(thread[t].grant) => thread[t].grant # g
      BY <2>1
    <3> QED
      BY <2>1, <2>3, <3>1, <3>2, <3>3
      DEF Answer, Issue, IssueFails, Beat, MayBeat, Relinquish, Renew,
          ReserveFails, TypeOK
  <2>4. ASSUME NEW h \in Grants, Revoke(h)
        PROVE  grant'[g] = grant[g]
    BY <2>1, <2>4 DEF Revoke, TypeOK
  <2>5. CASE Watchdog
    BY <2>1, <2>5 DEF Watchdog, Collect, Sleep, Wake, Fenced, Lapsed
  <2>6. CASE Tick \/ UNCHANGED vars
    BY <2>6 DEF Tick, vars
  <2> QED
    BY <2>2, <2>3, <2>4, <2>5, <2>6 DEF Next
<1> QED
  BY <1>1, Invariant, PTL DEF Spec, EndedIsFinal

\* A lease that lapsed is prolonged only by a call that began before that.
THEOREM LapsedStaysLapsed == Spec => LapsedNotRevived
<1>1. Inv /\ [Next]_vars =>
        \A g \in Grants :
            Live(g) /\ now >= Deadline(g) /\ grant'[g].lease > grant[g].lease =>
                \E t \in Threads :
                    /\ thread[t].pc \in {"beat", "reserve"}
                    /\ thread[t].grant = g
                    /\ thread[t].at < Deadline(g)
  <2> SUFFICES ASSUME Inv, [Next]_vars, NEW g \in Grants, Live(g),
                      grant'[g].lease > grant[g].lease
               PROVE  \E t \in Threads :
                        /\ thread[t].pc \in {"beat", "reserve"}
                        /\ thread[t].grant = g
                        /\ thread[t].at < Deadline(g)
    OBVIOUS
  <2>1. TypeOK /\ IssuesOnce /\ ReservesLive
    BY DEF Inv
  <2>2. grant[g].lease \in Nat /\ grant' # grant /\ grant'[g] # grant[g]
    BY <2>1, Parts
  <2>3. PICK t \in Threads : Answer(t)
    <3>1. ~\E t \in Threads : Request(t)
      BY <2>2 DEF Request, CallIssue, CallBeat, CallRelinquish, Reserve
    <3>2. ~\E h \in Grants : Revoke(h)
      <4> SUFFICES ASSUME NEW h \in Grants, Revoke(h)
                   PROVE  grant'[g].lease = grant[g].lease
        BY <2>2
      <4> QED
        BY <2>1 DEF Revoke, TypeOK, GrantType
    <3>3. ~Watchdog
      <4> SUFFICES ASSUME Watchdog
                   PROVE  grant'[g].lease = grant[g].lease
        BY <2>2
      <4> QED
        BY <2>1 DEF Watchdog, Collect, Sleep, Wake, Fenced, TypeOK, GrantType
    <3>4. ~Tick /\ ~UNCHANGED vars
      BY <2>2 DEF Tick, vars
    <3> QED
      BY <3>1, <3>2, <3>3, <3>4 DEF Next
  <2>4. thread[t].grant \in Grants
    BY <2>1, Parts
  <2>5. CASE Issue(t)
    <3>1. thread[t].grant # g
      BY <2>1, <2>5 DEF Issue, IssuesOnce, Live
    <3> QED
      BY <2>1, <2>2, <2>5, <3>1 DEF Issue, TypeOK
  <2>6. CASE Beat(t)
    <3>1. MayBeat(t)
      BY <2>2, <2>6 DEF Beat
    <3>2. thread[t].grant = g
      BY <2>1, <2>2, <2>6 DEF Beat, TypeOK
    <3> QED
      BY <2>6, <3>1, <3>2 DEF Beat, MayBeat
  <2>7. CASE Relinquish(t)
    <3>1. thread[t].at \in Nat
      BY <2>1, Parts
    <3>2. \A h \in Grants : grant'[h].lease = grant[h].lease
                                \/ grant'[h].lease
                                        = Earlier(grant[h].lease, thread[t].at)
      BY <2>1, <2>4, <2>7 DEF Relinquish, TypeOK, GrantType
    <3>3. grant'[g].lease <= grant[g].lease
      BY <2>2, <3>1, <3>2 DEF Earlier
    <3>4. grant'[g].lease \in Nat
      BY <2>2, <3>1, <3>2 DEF Earlier
    <3> QED
      BY <2>2, <3>3, <3>4
  <2>8. CASE Renew(t)
    <3>1. thread[t].pc = "reserve" /\ thread[t].grant = g
      BY <2>1, <2>2, <2>8 DEF Renew, TypeOK
    <3> QED
      BY <2>1, <3>1 DEF ReservesLive
  <2>9. CASE IssueFails(t) \/ ReserveFails(t)
    BY <2>2, <2>9 DEF IssueFails, ReserveFails
  <2> QED
    BY <2>3, <2>5, <2>6, <2>7, <2>8, <2>9 DEF Answer
<1> QED
  BY <1>1, Invariant, PTL DEF Spec, LapsedNotRevived
=============================================================================
