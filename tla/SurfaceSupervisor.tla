------------------------- MODULE SurfaceSupervisor -------------------------
(***************************************************************************)
(* The supervisor of one helper process, src/CassiQwen/surface/            *)
(* supervisor.py: BoundedProcessSupervisor.  Three kinds of thread run     *)
(* here and meet only in the sections that hold _condition:                *)
(*   - callers of start, stop, restart and close;                          *)
(*   - controllers, one per start or restart: _control_loop, which spawns  *)
(*     children, and _watch_child, which watches one of them;              *)
(*   - readers, one per published child: _read_status.                     *)
(* One locked section is one action; a controller's read of _stop_event or *)
(* of the state outside the lock is an action of its own where the code    *)
(* acts on it later.  A child is numbered in the order of its Popen; the   *)
(* number stands for its handle, process id and incarnation.               *)
(***************************************************************************)
EXTENDS Naturals, FiniteSets

CONSTANTS
    Callers,             \* threads that use the supervisor
    May,                 \* the calls each of them makes
    MaxControllers,      \* bound: controller threads ever started
    MaxChildren,         \* bound: children ever spawned
    MaxExpired,          \* bound: restarts that leave the window
    MaxRestarts,         \* restart_policy.max_restarts
    Enabled,             \* restart_policy.enabled
    RestartOnUnhealthy,  \* restart_policy.restart_on_unhealthy
    Stubborn             \* can a child outlive kill() and its wait?

Calls == {"start", "stop", "restart", "close"}

ASSUME SupervisorAssumption ==
    /\ May \in [Callers -> SUBSET Calls]
    /\ MaxControllers \in Nat \ {0}
    /\ MaxChildren \in Nat \ {0}
    /\ MaxExpired \in Nat
    /\ MaxRestarts \in Nat
    /\ Enabled \in BOOLEAN
    /\ RestartOnUnhealthy \in BOOLEAN
    /\ Stubborn \in BOOLEAN

Controllers == 1..MaxControllers
Children == 1..MaxChildren

VARIABLES
    stopEvent,   \* _stop_event
    controller,  \* _controller: the last controller started, 0 for None
    process,     \* _process: a child, 0 for None
    generation,  \* _generation
    state,       \* _state
    charged,     \* restart times ever appended to _restart_times
    expired,     \* restart times that have left the window
    closed,      \* _closed
    ctl,         \* the controller threads
    reader,      \* the status readers, by child
    child,       \* the children, as the operating system has them
    caller       \* the calls in progress

vars == <<stopEvent, controller, process, generation, state, charged,
          expired, closed, ctl, reader, child, caller>>

Phases == {"configured", "starting", "ready", "degraded", "quiescing",
           "stopped"}

\* What of EnvironmentState is used: limited is the one readiness_reason the
\* code tests, stdout_rate_budget_exceeded.
StateType == [phase : Phases, env : 0..MaxChildren, eligible : BOOLEAN,
              limited : BOOLEAN]

\* charge: the next turn of the loop takes a restart; retry: attempt > 0;
\* seen: the phase _watch_child read; why and ended: of a _terminate_child.
CtlType ==
    [pc : {"none", "loop", "backoff", "spawn", "register", "validate",
           "watch", "poll", "unhealthy", "stopping", "final", "term",
           "terminated", "done"},
     charge : BOOLEAN, retry : BOOLEAN, proc : 0..MaxChildren,
     seen : Phases, ended : BOOLEAN,
     why : {"none", "stop", "limited", "session", "runtime", "unhealthy"}]

CallerType ==
    [pc : {"idle", "joining", "killing", "killed", "returned"},
     call : Calls, of : Nat, stopped : BOOLEAN]

Idle == [pc |-> "idle", call |-> "stop", of |-> 0, stopped |-> FALSE]

NewController(charge) ==
    [pc |-> "loop", charge |-> charge, retry |-> FALSE, proc |-> 0,
     seen |-> "configured", ended |-> FALSE, why |-> "none"]

Init ==
    /\ stopEvent = FALSE
    /\ controller = 0
    /\ process = 0
    /\ generation = 0
    /\ state = [phase |-> "configured", env |-> 0, eligible |-> FALSE,
                limited |-> FALSE]
    /\ charged = 0
    /\ expired = 0
    /\ closed = FALSE
    /\ ctl = [k \in Controllers |->
                 [NewController(FALSE) EXCEPT !.pc = "none"]]
    /\ reader = [c \in Children |-> "none"]
    /\ child = [c \in Children |-> "none"]
    /\ caller = [p \in Callers |-> Idle]

-----------------------------------------------------------------------------
(* Helpers *)

Alive(k) == k # 0 /\ ctl[k].pc \notin {"none", "done"}
Live(c) == c # 0 /\ child[c] = "live"

\* _set_state_locked(phase=..., sensing_ready=False, input_eligible=False,
\* readiness_reason=...)
Down(phase) == [state EXCEPT !.phase = phase, !.eligible = FALSE,
                             !.limited = FALSE]

Starting(c) == [phase |-> "starting", env |-> c, eligible |-> FALSE,
                limited |-> FALSE]

\* mutant of RestartRoom: a restart is allowed when the window is already full.
RestartRoomOneMore == Enabled /\ charged - expired <= MaxRestarts

\* _has_restart_room, and the test of _reserve_restart_locked
RestartRoom == Enabled /\ charged - expired < MaxRestarts

At(k, pc) == ctl[k].pc = pc

\* a thread that returned keeps nothing
Goes(k, pc) ==
    ctl' = [ctl EXCEPT ![k] =
        IF pc = "done" THEN [NewController(FALSE) EXCEPT !.pc = "done"]
        ELSE [@ EXCEPT !.pc = pc, !.seen = "configured"]]

\* after a failed child: one more turn of the loop, charged as a restart
Retries(k) ==
    IF RestartRoom
    THEN ctl' = [ctl EXCEPT ![k] = [NewController(TRUE) EXCEPT !.retry = TRUE]]
    ELSE Goes(k, "done")

Terminates(k, c, why) ==
    ctl' = [ctl EXCEPT ![k].pc = "term", ![k].proc = c, ![k].why = why,
                       ![k].seen = "configured"]

\* One more controller thread, as start and restart make it.
Launches(charge) ==
    /\ controller < MaxControllers
    /\ controller' = controller + 1
    /\ ctl' = [ctl EXCEPT ![controller + 1] = NewController(charge)]
    /\ stopEvent' = FALSE
    /\ state' = Starting(0)

-----------------------------------------------------------------------------
(* Callers *)

\* mutant of MayStart: it looks at the child and not at the running controller.
MayStartBesideController == ~closed /\ ~Live(process)

MayStart == ~closed /\ ~Alive(controller) /\ ~Live(process)

Start(p) ==
    /\ caller[p].pc = "idle"
    /\ "start" \in May[p]
    /\ MayStart
    /\ Launches(generation > 0)
    /\ process' = 0
    /\ UNCHANGED <<generation, charged, expired, closed, reader, child,
                   caller>>

\* The state a stop returns ends a plain stop; restart and close go on.
Returns(p, phase) ==
    caller' = [caller EXCEPT ![p] =
        IF @.call = "stop" THEN Idle
        ELSE [@ EXCEPT !.pc = "returned", !.of = 0,
                       !.stopped = phase = "stopped"]]

\* The first locked section of stop, for stop itself, restart and close
StopBegins(p, call) ==
    /\ caller[p].pc = "idle"
    /\ call \in May[p] \ {"start"}
    /\ \/ /\ ~Alive(controller) /\ ~Live(process)
          /\ process' = 0
          /\ state' = Down("stopped")
          /\ caller' = [caller EXCEPT ![p] =
                IF call = "stop" THEN Idle
                ELSE [Idle EXCEPT !.pc = "returned", !.call = call,
                                  !.stopped = TRUE]]
          /\ UNCHANGED stopEvent
       \/ /\ Alive(controller) \/ Live(process)
          /\ state' = Down("quiescing")
          /\ stopEvent' = TRUE
          /\ caller' = [caller EXCEPT ![p] =
                [pc |-> IF Alive(controller) THEN "joining" ELSE "killing",
                 call |-> call, stopped |-> FALSE,
                 of |-> IF Alive(controller) THEN controller ELSE process]]
          /\ UNCHANGED process
    /\ UNCHANGED <<controller, generation, charged, expired, closed, ctl,
                   reader, child>>

\* _terminate_child of c: the child is gone, or is not confirmed gone
Ended(c) ==
    /\ child' = [child EXCEPT ![c] = "dead"]
    /\ process' = IF process = c THEN 0 ELSE process

Unconfirmed(c) == Stubborn /\ Live(c) /\ UNCHANGED <<child, process>>

StopKills(p) ==
    /\ caller[p].pc = "killing"
    /\ \/ /\ Ended(caller[p].of)
          /\ caller' = [caller EXCEPT ![p].pc = "killed",
                                      ![p].stopped = TRUE]
       \/ /\ Unconfirmed(caller[p].of)
          /\ caller' = [caller EXCEPT ![p].pc = "killed"]
    /\ UNCHANGED <<stopEvent, controller, generation, state, charged,
                   expired, closed, ctl, reader>>

StopKilled(p) ==
    /\ caller[p].pc = "killed"
    /\ state' = Down(IF caller[p].stopped THEN "stopped" ELSE "degraded")
    /\ Returns(p, state'.phase)
    /\ UNCHANGED <<stopEvent, controller, process, generation, charged,
                   expired, closed, ctl, reader, child>>

\* The controller a stop joined has ended; what is current now may be newer.
StopJoined(p) ==
    /\ caller[p].pc = "joining"
    /\ ~Alive(caller[p].of)
    /\ state' = IF Live(process) THEN Down("degraded")
                ELSE IF state.phase # "stopped" THEN Down("stopped")
                ELSE state
    /\ Returns(p, state'.phase)
    /\ UNCHANGED <<stopEvent, controller, process, generation, charged,
                   expired, closed, ctl, reader, child>>

StopGivesUp(p) ==
    /\ caller[p].pc = "joining"
    /\ Alive(caller[p].of)
    /\ Returns(p, state.phase)
    /\ UNCHANGED <<stopEvent, controller, process, generation, state,
                   charged, expired, closed, ctl, reader, child>>

\* The second half of restart: it asks for the budget, not for the threads.
RestartBegins(p) ==
    /\ caller[p].pc = "returned" /\ caller[p].call = "restart"
    /\ caller' = [caller EXCEPT ![p] = Idle]
    /\ \/ /\ ~caller[p].stopped \/ closed
          /\ UNCHANGED <<controller, ctl, stopEvent, state, charged>>
       \/ /\ caller[p].stopped /\ ~closed /\ ~RestartRoom
          /\ state' = Down("degraded")
          /\ UNCHANGED <<controller, ctl, stopEvent, charged>>
       \/ /\ caller[p].stopped /\ ~closed /\ RestartRoom
          /\ charged' = charged + 1
          /\ Launches(FALSE)
    /\ UNCHANGED <<process, generation, expired, closed, reader, child>>

CloseEnds(p) ==
    /\ caller[p].pc = "returned" /\ caller[p].call = "close"
    /\ closed' = TRUE
    /\ caller' = [caller EXCEPT ![p] = Idle]
    /\ UNCHANGED <<stopEvent, controller, process, generation, state,
                   charged, expired, ctl, reader, child>>

-----------------------------------------------------------------------------
(* Controllers: the loop *)

\* The head of the loop; a refused restart ends the controller.
Turn(k) ==
    /\ At(k, "loop")
    /\ \/ /\ stopEvent
          /\ Goes(k, "final")
          /\ UNCHANGED <<state, charged>>
       \/ /\ ~stopEvent /\ ctl[k].charge /\ ~RestartRoom
          /\ state' = Down("degraded")
          /\ Goes(k, "done")
          /\ UNCHANGED charged
       \/ /\ ~stopEvent /\ (ctl[k].charge => RestartRoom)
          /\ charged' = IF ctl[k].charge THEN charged + 1 ELSE charged
          /\ Goes(k, IF ctl[k].retry THEN "backoff" ELSE "spawn")
          /\ UNCHANGED state
    /\ UNCHANGED <<stopEvent, controller, process, generation, expired,
                   closed, reader, child, caller>>

Backoff(k) ==
    /\ At(k, "backoff")
    /\ Goes(k, IF stopEvent THEN "final" ELSE "spawn")
    /\ UNCHANGED <<stopEvent, controller, process, generation, state,
                   charged, expired, closed, reader, child, caller>>

\* Popen, outside the lock: nothing yet names the new child but its thread.
Spawn(k) ==
    /\ At(k, "spawn")
    /\ \E c \in Children :
        /\ child[c] = "none" /\ (c > 1 => child[c - 1] # "none")
        /\ child' = [child EXCEPT ![c] = "live"]
        /\ ctl' = [ctl EXCEPT ![k].pc = "register", ![k].proc = c]
    /\ UNCHANGED <<stopEvent, controller, process, generation, state,
                   charged, expired, closed, reader, caller>>

SpawnFails(k) ==
    /\ At(k, "spawn")
    /\ state' = Down("degraded")
    /\ Retries(k)
    /\ UNCHANGED <<stopEvent, controller, process, generation, charged,
                   expired, closed, reader, child, caller>>

Register(k) ==
    /\ At(k, "register")
    /\ process' = ctl[k].proc
    /\ Goes(k, "validate")
    /\ UNCHANGED <<stopEvent, controller, generation, state, charged,
                   expired, closed, reader, child, caller>>

SessionRefused(k) ==
    /\ At(k, "validate")
    /\ Terminates(k, ctl[k].proc, "session")
    /\ UNCHANGED <<stopEvent, controller, process, generation, state,
                   charged, expired, closed, reader, child, caller>>

\* The child becomes the current environment and its reader starts.
Publish(k) ==
    /\ At(k, "validate")
    /\ generation' = generation + 1
    /\ process' = ctl[k].proc
    /\ state' = Starting(ctl[k].proc)
    /\ reader' = [reader EXCEPT ![ctl[k].proc] = "on"]
    /\ Goes(k, "watch")
    /\ UNCHANGED <<stopEvent, controller, charged, expired, closed, child,
                   caller>>

\* The end of the loop: whatever child is current is terminated.
Final(k) ==
    /\ At(k, "final")
    /\ \/ /\ process = 0
          /\ state' = Down("stopped")
          /\ Goes(k, "done")
       \/ /\ process # 0
          /\ state' = Down("quiescing")
          /\ Terminates(k, process, "stop")
    /\ UNCHANGED <<stopEvent, controller, process, generation, charged,
                   expired, closed, reader, child, caller>>

Terminate(k) ==
    /\ At(k, "term")
    /\ \/ /\ Ended(ctl[k].proc)
          /\ ctl' = [ctl EXCEPT ![k].pc = "terminated", ![k].ended = TRUE]
       \/ /\ Unconfirmed(ctl[k].proc)
          /\ ctl' = [ctl EXCEPT ![k].pc = "terminated", ![k].ended = FALSE]
    /\ UNCHANGED <<stopEvent, controller, generation, state, charged,
                   expired, closed, reader, caller>>

\* mutant of StoppedState: nobody asks whether the child is confirmed gone.
StoppedStateUnchecked(k) ==
    IF ctl[k].why = "limited" THEN [Down("degraded") EXCEPT !.limited = TRUE]
    ELSE Down("stopped")

\* What is recorded once the termination of a stopped child returned
StoppedState(k) ==
    IF ctl[k].why = "limited" THEN [Down("degraded") EXCEPT !.limited = TRUE]
    ELSE Down(IF ctl[k].ended THEN "stopped" ELSE "degraded")

Terminated(k) ==
    /\ At(k, "terminated")
    /\ \/ /\ ctl[k].why \in {"stop", "limited"}
          /\ state' = StoppedState(k)
          /\ Goes(k, "done")
       \/ /\ ctl[k].why = "session"
          /\ state' = Down("degraded")
          /\ IF ctl[k].ended THEN Retries(k) ELSE Goes(k, "done")
       \/ /\ \/ ctl[k].why = "runtime"
             \/ ctl[k].why = "unhealthy" /\ ~(ctl[k].ended /\ Enabled)
          /\ state' = [state EXCEPT !.phase = "degraded", !.limited = FALSE]
          /\ Goes(k, "done")
       \/ /\ ctl[k].why = "unhealthy" /\ ctl[k].ended /\ Enabled
          /\ state' = IF RestartRoom \/ state.phase = "degraded" THEN state
                      ELSE Down("degraded")
          /\ Retries(k)
    /\ UNCHANGED <<stopEvent, controller, process, generation, charged,
                   expired, closed, reader, child, caller>>

-----------------------------------------------------------------------------
(* Controllers: _watch_child *)

\* mutant of Watch: it never looks at the stop event.
WatchDeaf(k) ==
    /\ At(k, "watch")
    /\ ctl' = [ctl EXCEPT ![k].pc = "poll", ![k].seen = state.phase]
    /\ UNCHANGED <<stopEvent, controller, process, generation, state,
                   charged, expired, closed, reader, child, caller>>

\* The state is read under the lock and used after it.
Watch(k) ==
    /\ At(k, "watch")
    /\ ctl' = [ctl EXCEPT
         ![k].pc = IF stopEvent THEN "stopping"
                   ELSE IF state.phase = "degraded" /\ RestartOnUnhealthy
                   THEN "unhealthy" ELSE "poll",
         ![k].seen = state.phase]
    /\ UNCHANGED <<stopEvent, controller, process, generation, state,
                   charged, expired, closed, reader, child, caller>>

Exited(k) ==
    /\ At(k, "poll") /\ ~Live(ctl[k].proc)
    /\ state' = Down("degraded")
    /\ Retries(k)
    /\ UNCHANGED <<stopEvent, controller, process, generation, charged,
                   expired, closed, reader, child, caller>>

RuntimeOver(k) ==
    /\ At(k, "poll")
    /\ state' = Down("quiescing")
    /\ Terminates(k, ctl[k].proc, "runtime")
    /\ UNCHANGED <<stopEvent, controller, process, generation, charged,
                   expired, closed, reader, child, caller>>

\* No readiness by the deadline, or no heartbeat within its timeout; by now
\* the reader may have moved the state on.
TimesOut(k) ==
    /\ At(k, "poll")
    /\ ctl[k].seen \in {"starting", "ready"}
    /\ state' = Down("degraded")
    /\ Goes(k, IF RestartOnUnhealthy THEN "unhealthy" ELSE "watch")
    /\ UNCHANGED <<stopEvent, controller, process, generation, charged,
                   expired, closed, reader, child, caller>>

\* mutant of WatchAgain: it forgets to poll the child.
WatchAgainUnpolled(k) ==
    /\ At(k, "poll")
    /\ Goes(k, "watch")
    /\ UNCHANGED <<stopEvent, controller, process, generation, state,
                   charged, expired, closed, reader, child, caller>>

WatchAgain(k) ==
    /\ At(k, "poll") /\ Live(ctl[k].proc)
    /\ Goes(k, "watch")
    /\ UNCHANGED <<stopEvent, controller, process, generation, state,
                   charged, expired, closed, reader, child, caller>>

Unhealthy(k) ==
    /\ At(k, "unhealthy")
    /\ state' = Down("quiescing")
    /\ Terminates(k, ctl[k].proc, "unhealthy")
    /\ UNCHANGED <<stopEvent, controller, process, generation, charged,
                   expired, closed, reader, child, caller>>

Stopping(k) ==
    /\ At(k, "stopping")
    /\ state' = [Down(IF state.limited THEN "degraded" ELSE "quiescing")
                    EXCEPT !.limited = state.limited]
    /\ Terminates(k, ctl[k].proc, IF state.limited THEN "limited" ELSE "stop")
    /\ UNCHANGED <<stopEvent, controller, process, generation, charged,
                   expired, closed, reader, child, caller>>

-----------------------------------------------------------------------------
(* Readers, the operating system and the clock *)

\* mutant of MayReport: the incarnation is compared and not the process.
MayReportLate(c) == ~stopEvent /\ state.phase # "quiescing" /\ state.env = c

\* The reader of c may still write: its child is the current one, alive, and
\* nobody is stopping it.
MayReport(c) ==
    /\ ~stopEvent
    /\ process = c
    /\ state.phase # "quiescing"
    /\ state.env = c
    /\ Live(c)

\* A ready or degraded line; a heartbeat only moves a time stamp.  Both may
\* carry input_eligible, and a ready line without a channel is degraded.
Reports(c) ==
    /\ reader[c] = "on"
    /\ \/ /\ MayReport(c)
          /\ \E phase \in {"ready", "degraded"}, eligible \in BOOLEAN :
                state' = [state EXCEPT !.phase = phase, !.limited = FALSE,
                                       !.eligible = eligible]
          /\ UNCHANGED reader
       \/ /\ ~MayReport(c)
          /\ reader' = [reader EXCEPT ![c] = "off"]
          /\ UNCHANGED state
    /\ UNCHANGED <<stopEvent, controller, process, generation, charged,
                   expired, closed, ctl, child, caller>>

\* exhaust_output_budget: also for output a dead child left in the pipe, and
\* the stop event it sets is the current controller's, whoever's that is.
Overflows(c) ==
    /\ reader[c] = "on"
    /\ reader' = [reader EXCEPT ![c] = "off"]
    /\ stopEvent' = TRUE
    /\ state' = IF process = c THEN [Down("degraded") EXCEPT !.limited = TRUE]
                ELSE state
    /\ UNCHANGED <<controller, process, generation, charged, expired,
                   closed, ctl, child, caller>>

ReaderEnds(c) ==
    /\ reader[c] = "on"
    /\ stopEvent \/ ~Live(c)
    /\ reader' = [reader EXCEPT ![c] = "off"]
    /\ UNCHANGED <<stopEvent, controller, process, generation, state,
                   charged, expired, closed, ctl, child, caller>>

Dies(c) ==
    /\ Live(c)
    /\ child' = [child EXCEPT ![c] = "dead"]
    /\ UNCHANGED <<stopEvent, controller, process, generation, state,
                   charged, expired, closed, ctl, reader, caller>>

\* mutant of Expire: the window is pruned when it is empty.
ExpireNothing ==
    /\ expired < MaxExpired
    /\ expired' = expired + 1
    /\ UNCHANGED <<stopEvent, controller, process, generation, state,
                   charged, closed, ctl, reader, child, caller>>

\* _prune_restart_times_locked drops the oldest restart of the window.
Expire ==
    /\ expired < charged /\ expired < MaxExpired
    /\ expired' = expired + 1
    /\ UNCHANGED <<stopEvent, controller, process, generation, state,
                   charged, closed, ctl, reader, child, caller>>

-----------------------------------------------------------------------------
StopEnds(p) == StopKills(p) \/ StopKilled(p) \/ StopJoined(p)

Call(p) ==
    \/ Start(p)
    \/ \E call \in {"stop", "restart", "close"} : StopBegins(p, call)
    \/ StopEnds(p)
    \/ StopGivesUp(p)
    \/ RestartBegins(p)
    \/ CloseEnds(p)

Control(k) ==
    \/ Turn(k) \/ Backoff(k) \/ Spawn(k) \/ SpawnFails(k) \/ Register(k)
    \/ SessionRefused(k) \/ Publish(k) \/ Final(k) \/ Terminate(k)
    \/ Terminated(k) \/ Watch(k) \/ Exited(k) \/ RuntimeOver(k)
    \/ TimesOut(k) \/ WatchAgain(k) \/ Unhealthy(k) \/ Stopping(k)

Helper(c) == Reports(c) \/ Overflows(c) \/ ReaderEnds(c) \/ Dies(c)

Next ==
    \/ \E p \in Callers : Call(p)
    \/ \E k \in Controllers : Control(k)
    \/ \E c \in Children : Helper(c)
    \/ Expire

Spec == Init /\ [][Next]_vars

\* Every thread the supervisor started keeps running: each wait of its loop
\* is bounded.  Callers, children and the clock owe nothing.
FairSpec == Spec /\ \A k \in Controllers : WF_vars(Control(k))

-----------------------------------------------------------------------------
\* The shape of the state; the window never loses more restarts than were
\* charged to it.
TypeOK ==
    /\ stopEvent \in BOOLEAN
    /\ controller \in 0..MaxControllers
    /\ process \in 0..MaxChildren
    /\ generation \in Nat
    /\ state \in StateType
    /\ charged \in Nat
    /\ expired \in 0..charged
    /\ closed \in BOOLEAN
    /\ ctl \in [Controllers -> CtlType]
    /\ reader \in [Children -> {"none", "on", "off"}]
    /\ child \in [Children -> {"none", "live", "dead"}]
    /\ caller \in [Callers -> CallerType]

\* describe() reports "max_direct_children": 1: however starts, restarts,
\* stops, exits and unconfirmed terminations interleave, the supervisor never
\* has two living children.
OneChild == Cardinality({c \in Children : Live(c)}) <= 1

\* Input eligibility always speaks of the child the supervisor holds now: a
\* reader of an earlier incarnation, a late line or a child that has been
\* reaped never leaves it set.
EligibleIsCurrent == state.eligible => state.env # 0 /\ state.env = process

\* Once no controller runs, a supervisor that says "stopped" has no living
\* child, whichever of stop, the final section and a termination that was not
\* confirmed wrote last.
StoppedHasNoChild ==
    state.phase = "stopped" /\ (\A k \in Controllers : ~Alive(k))
        => \A c \in Children : ~Live(c)

\* Every incarnation but the first is paid for from the window's budget,
\* whether a controller, a restart or a reused start made it.
RestartsBudgeted ==
    generation <= 1 + expired + (IF Enabled THEN MaxRestarts ELSE 0)

\* A stop that has been asked for is carried out by every running controller,
\* wherever in its loop the event finds it.
StopIsCarriedOut ==
    stopEvent ~> (~stopEvent \/ \A k \in Controllers : ~Alive(k))

\* An eligible helper that dies does not stay eligible while it is watched.
DeadIsNotEligible ==
    \A c \in Children :
        (/\ state.eligible /\ state.env = c /\ child[c] = "dead"
         /\ Alive(controller))
            ~> ~(state.eligible /\ state.env = c /\ Alive(controller))
=============================================================================
