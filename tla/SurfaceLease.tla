---------------------------- MODULE SurfaceLease ----------------------------
(***************************************************************************)
(* The clock of the control leases, src/CassiQwen/surface/core.py: grant,  *)
(* heartbeat, relinquish, the reservation in submit_intent and the         *)
(* watchdog's sleep.  A caller reads the clock before it waits for the     *)
(* broker's lock (grant, heartbeat, relinquish) or twice while it holds it *)
(* (submit_intent); the watchdog sleeps until the earliest deadline it saw *)
(* unless it is notified.  What a lapsed lease means for its source and    *)
(* its input is SurfaceBroker's; there time is one bit per grant.          *)
(***************************************************************************)
EXTENDS Naturals, FiniteSets

CONSTANTS
    Grants, Threads,
    NoThread,
    Horizon,      \* bound: the last instant of the clock
    Duration,     \* max_duration_ns of a grant
    Timeout,      \* heartbeat_timeout_ns
    MaxBeats,     \* bound: the highest heartbeat number a holder sends
    MaxUpdates    \* max_updates

ASSUME LeaseAssumption ==
    /\ NoThread \notin Threads
    /\ Grants # {}
    /\ Horizon \in Nat
    /\ Duration \in Nat \ {0}
    /\ Timeout \in Nat \ {0}
    /\ MaxBeats \in Nat
    /\ MaxUpdates \in Nat

VARIABLES
    now,        \* time.monotonic_ns()
    lock,       \* who keeps _lock over more than one step
    grant,      \* the grants that need an input lease
    thread,     \* the calls in progress
    watchdog    \* the watchdog thread

vars == <<now, lock, grant, thread, watchdog>>

\* absolute is absolute_deadline_ns, which never exceeds expires_ns; beats is
\* heartbeat_sequence and updates is next_sequence - 1.
GrantType == [phase : {"none", "live", "ended"}, absolute : Nat, lease : Nat,
              beats : Nat, updates : Nat]

\* at: what the call read from the clock.
ThreadType == [pc : {"idle", "issue", "beat", "relinquish", "reserve"},
               grant : Grants, at : Nat, seq : Nat]

WatchdogType == [pc : {"running", "asleep", "fencing"}, wake : Nat,
                 notified : BOOLEAN]

Idle == [pc |-> "idle", grant |-> CHOOSE g \in Grants : TRUE, at |-> 0,
         seq |-> 0]

Init ==
    /\ now = 0
    /\ lock = NoThread
    /\ grant = [g \in Grants |-> [phase |-> "none", absolute |-> 0,
                                  lease |-> 0, beats |-> 0, updates |-> 0]]
    /\ thread = [t \in Threads |-> Idle]
    /\ watchdog = [pc |-> "running", wake |-> 0, notified |-> FALSE]

-----------------------------------------------------------------------------
(* Helpers *)

\* the wake of a watchdog that sleeps without a deadline
Never == Horizon + 1

Earlier(a, b) == IF a <= b THEN a ELSE b

Live(g) == grant[g].phase = "live"
Deadline(g) == Earlier(grant[g].absolute, grant[g].lease)

\* mutant of Extended: a renewal is not cut at the absolute deadline.
ExtendedFreely(absolute, at) == at + Timeout

Extended(absolute, at) == Earlier(absolute, at + Timeout)

Free == lock = NoThread
\* notify_all, which only a sleeping watchdog hears
Notifies ==
    watchdog' = [watchdog EXCEPT !.notified = watchdog.pc = "asleep"]
Returns(t) == thread' = [thread EXCEPT ![t] = Idle]

\* A call takes its clock reading and goes to wait for the lock.
Calls(t, pc, g, seq) ==
    /\ thread[t].pc = "idle"
    /\ thread' = [thread EXCEPT ![t] =
                    [pc |-> pc, grant |-> g, at |-> now, seq |-> seq]]

-----------------------------------------------------------------------------
(* grant, from the host's approval on *)

CallIssue(t, g) ==
    /\ grant[g].phase = "none"
    /\ \A u \in Threads : ~(thread[u].pc = "issue" /\ thread[u].grant = g)
    /\ now + Duration <= Horizon
    /\ Calls(t, "issue", g, 0)
    /\ UNCHANGED <<now, lock, grant, watchdog>>

\* mutant of Issue: the sleeping watchdog is not told of the new deadline.
IssueUnnoticed(t) ==
    LET absolute == thread[t].at + Duration IN
    /\ thread[t].pc = "issue" /\ Free
    /\ grant' = [grant EXCEPT ![thread[t].grant] =
            [phase |-> "live", absolute |-> absolute,
             lease |-> Extended(absolute, thread[t].at),
             beats |-> 0, updates |-> 0]]
    /\ Returns(t)
    /\ UNCHANGED <<now, lock, watchdog>>

\* The deadlines count from the approval, however long the issue took.
Issue(t) ==
    LET absolute == thread[t].at + Duration IN
    /\ thread[t].pc = "issue" /\ Free
    /\ grant' = [grant EXCEPT ![thread[t].grant] =
            [phase |-> "live", absolute |-> absolute,
             lease |-> Extended(absolute, thread[t].at),
             beats |-> 0, updates |-> 0]]
    /\ Notifies
    /\ Returns(t)
    /\ UNCHANGED <<now, lock>>

IssueFails(t) ==
    /\ thread[t].pc = "issue"
    /\ Returns(t)
    /\ UNCHANGED <<now, lock, grant, watchdog>>

-----------------------------------------------------------------------------
(* heartbeat and relinquish *)

\* A call that begins after its grant ended is refused and leaves no trace.
CallBeat(t, g, seq) ==
    /\ Live(g)
    /\ Calls(t, "beat", g, seq)
    /\ UNCHANGED <<now, lock, grant, watchdog>>

\* mutants of MayBeat: a heartbeat that was overtaken by the end of its
\* lease, or by the lease's deadline, is still taken.
MayBeatEnded(t) ==
    LET g == thread[t].grant IN
    /\ thread[t].at < Deadline(g)
    /\ thread[t].seq = grant[g].beats + 1

MayBeatLate(t) ==
    LET g == thread[t].grant IN
    /\ Live(g)
    /\ thread[t].seq = grant[g].beats + 1

\* The clock was read before the lock, everything else is read under it.
MayBeat(t) ==
    LET g == thread[t].grant IN
    /\ Live(g)
    /\ thread[t].at < Deadline(g)
    /\ thread[t].seq = grant[g].beats + 1

Beat(t) ==
    LET g == thread[t].grant IN
    /\ thread[t].pc = "beat" /\ Free
    /\ \/ /\ MayBeat(t)
          /\ grant' = [grant EXCEPT
                ![g].beats = thread[t].seq,
                ![g].lease = Extended(grant[g].absolute, thread[t].at)]
          /\ Notifies
       \/ /\ ~MayBeat(t)
          /\ UNCHANGED <<grant, watchdog>>
    /\ Returns(t)
    /\ UNCHANGED <<now, lock>>

CallRelinquish(t, g) ==
    /\ Live(g)
    /\ Calls(t, "relinquish", g, 0)
    /\ UNCHANGED <<now, lock, grant, watchdog>>

\* mutant of Relinquish: the sleeping watchdog is not told.
RelinquishUnnoticed(t) ==
    LET g == thread[t].grant IN
    /\ thread[t].pc = "relinquish" /\ Free
    /\ grant' = IF Live(g)
                THEN [grant EXCEPT ![g].lease = Earlier(@, thread[t].at)]
                ELSE grant
    /\ Returns(t)
    /\ UNCHANGED <<now, lock, watchdog>>

\* The lease is let lapse, for the watchdog to end.
Relinquish(t) ==
    LET g == thread[t].grant IN
    /\ thread[t].pc = "relinquish" /\ Free
    /\ \/ /\ Live(g)
          /\ grant' = [grant EXCEPT ![g].lease = Earlier(@, thread[t].at)]
          /\ Notifies
       \/ /\ ~Live(g)
          /\ UNCHANGED <<grant, watchdog>>
    /\ Returns(t)
    /\ UNCHANGED <<now, lock>>

-----------------------------------------------------------------------------
(* submit_intent: the reservation *)

\* The authority is validated and the row appended under one lock; the lease
\* is renewed after that, by another reading of the clock.
Reserve(t, g) ==
    /\ Free
    /\ Live(g) /\ now < Deadline(g)
    /\ grant[g].updates < MaxUpdates
    /\ Calls(t, "reserve", g, 0)
    /\ lock' = t
    /\ UNCHANGED <<now, grant, watchdog>>

Renew(t) ==
    LET g == thread[t].grant IN
    /\ thread[t].pc = "reserve"
    /\ grant' = [grant EXCEPT ![g].updates = @ + 1,
                    ![g].lease = Extended(grant[g].absolute, now)]
    /\ Notifies
    /\ lock' = NoThread
    /\ Returns(t)
    /\ UNCHANGED now

\* The row could not be appended.
ReserveFails(t) ==
    /\ thread[t].pc = "reserve"
    /\ lock' = NoThread
    /\ Returns(t)
    /\ UNCHANGED <<now, grant, watchdog>>

-----------------------------------------------------------------------------
(* Revocation and the watchdog *)

\* _invalidate_binding_grants, of whichever handler
Revoke(g) ==
    /\ Live(g) /\ Free
    /\ grant' = [grant EXCEPT ![g].phase = "ended"]
    /\ Notifies
    /\ UNCHANGED <<now, lock, thread>>

Lapsed == {g \in Grants : Live(g) /\ now >= Deadline(g)}

Collect ==
    /\ watchdog.pc = "running" /\ Free
    /\ Lapsed # {}
    /\ grant' = [g \in Grants |-> IF g \in Lapsed
                                  THEN [grant[g] EXCEPT !.phase = "ended"]
                                  ELSE grant[g]]
    /\ watchdog' = [watchdog EXCEPT !.pc = "fencing"]
    /\ UNCHANGED <<now, lock, thread>>

\* _watch.wait: until the earliest deadline there is, or until a notification
Sleep ==
    /\ watchdog.pc = "running" /\ Free
    /\ Lapsed = {}
    /\ \E wake \in {Deadline(g) : g \in {h \in Grants : Live(h)}} \cup {Never} :
        /\ \A g \in Grants : Live(g) => wake <= Deadline(g)
        /\ watchdog' = [pc |-> "asleep", wake |-> wake, notified |-> FALSE]
    /\ UNCHANGED <<now, lock, grant, thread>>

Wake ==
    /\ watchdog.pc = "asleep"
    /\ watchdog.notified \/ now >= watchdog.wake
    /\ watchdog' = [pc |-> "running", wake |-> 0, notified |-> FALSE]
    /\ UNCHANGED <<now, lock, grant, thread>>

\* The sources of the collected grants have been neutralised.
Fenced ==
    /\ watchdog.pc = "fencing"
    /\ watchdog' = [watchdog EXCEPT !.pc = "running"]
    /\ UNCHANGED <<now, lock, grant, thread>>

Tick ==
    /\ now < Horizon
    /\ now' = now + 1
    /\ UNCHANGED <<lock, grant, thread, watchdog>>

-----------------------------------------------------------------------------
Request(t) ==
    \E g \in Grants :
        \/ CallIssue(t, g)
        \/ \E seq \in 1..MaxBeats : CallBeat(t, g, seq)
        \/ CallRelinquish(t, g)
        \/ Reserve(t, g)

Answer(t) ==
    \/ Issue(t) \/ IssueFails(t) \/ Beat(t) \/ Relinquish(t)
    \/ Renew(t) \/ ReserveFails(t)

Watchdog == Collect \/ Sleep \/ Wake \/ Fenced

Next ==
    \/ \E t \in Threads : Request(t) \/ Answer(t)
    \/ \E g \in Grants : Revoke(g)
    \/ Watchdog
    \/ Tick

Spec == Init /\ [][Next]_vars

\* Time passes, the watchdog runs whenever it may, and a call that keeps the
\* lock gives it back; holders and hosts owe nothing.
Fairness ==
    /\ WF_vars(Tick)
    /\ WF_vars(Watchdog)
    /\ \A t \in Threads : WF_vars(Renew(t) \/ ReserveFails(t))

FairSpec == Spec /\ Fairness

-----------------------------------------------------------------------------
\* The shape of the state; the lock is kept by a reservation only, and no
\* call has read a clock that is ahead.
TypeOK ==
    /\ now \in Nat
    /\ lock \in Threads \cup {NoThread}
    /\ grant \in [Grants -> GrantType]
    /\ thread \in [Threads -> ThreadType]
    /\ watchdog \in WatchdogType
    /\ \A t \in Threads : thread[t].at <= now
    /\ \A t \in Threads : lock = t <=> thread[t].pc = "reserve"

\* A watchdog that sleeps on is never due later than a live lease's deadline,
\* although issues, heartbeats, relinquishments and submissions move the
\* deadlines both ways under it: there is no lost wakeup.
SleepIsShort ==
    watchdog.pc = "asleep" /\ ~watchdog.notified =>
        \A g \in Grants : Live(g) => watchdog.wake <= Deadline(g)

\* CASSI-SURFACE-DESIGN.md: a control lease "cannot grow its own authority".
\* However renewals and late calls mix, a lease ends with its grant and one
\* heartbeat timeout from now at the latest.
WithinEnvelope ==
    \A g \in Grants : Live(g) =>
        grant[g].lease <= grant[g].absolute /\ grant[g].lease <= now + Timeout

\* What the watchdog or a revocation ended stays ended, for the heartbeats
\* and submissions that are still waiting for the lock as well.
EndedIsFinal ==
    [][\A g \in Grants : grant[g].phase = "ended" => grant'[g] = grant[g]]_vars

\* A lease that has lapsed is prolonged only by a call that had begun before
\* it lapsed and was kept from the lock: never by a late heartbeat or a
\* repeated one, nor by a submission that was validated too late.
LapsedNotRevived ==
    [][\A g \in Grants :
        Live(g) /\ now >= Deadline(g) /\ grant'[g].lease > grant[g].lease =>
            \E t \in Threads :
                /\ thread[t].pc \in {"beat", "reserve"}
                /\ thread[t].grant = g
                /\ thread[t].at < Deadline(g)]_vars

\* Every lease ends, whatever its holder and the others keep sending.
LeaseEnds == \A g \in Grants : Live(g) ~> ~Live(g)
=============================================================================
