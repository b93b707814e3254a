---------------------- MODULE SurfaceSupervisorProofs ----------------------
(***************************************************************************)
(* Proofs about SurfaceSupervisor, for every policy, every number of       *)
(* threads and children, and children that may outlive kill().             *)
(*                                                                         *)
(* Types and RestartsWithinBudget hold of any callers.  The others speak   *)
(* of fewer: two living children are excluded when a caller that may       *)
(* restart is the only caller, and what the state says of the child when   *)
(* there is one caller at a time.  Neither is an artefact of the proof:    *)
(* a restart asks for the budget and not for the threads, and the last     *)
(* section of a stop writes what it saw of a controller that may have been *)
(* replaced.                                                               *)
(***************************************************************************)
EXTENDS SurfaceSupervisor, FiniteSetTheorems, TLAPS

USE SupervisorAssumption DEF Controllers, Children

\* where a controller thread may be
Pcs == {"none", "loop", "backoff", "spawn", "register", "validate", "watch",
        "poll", "unhealthy", "stopping", "final", "term", "terminated",
        "done"}

-----------------------------------------------------------------------------
(* What the helpers do to a controller's record. *)

\* A new controller's record is one, and stands at the head of the loop.
LEMMA NewControllers ==
    ASSUME NEW charge \in BOOLEAN
    PROVE  /\ NewController(charge) \in CtlType
           /\ NewController(charge).pc = "loop"
           /\ NewController(charge).charge = charge
           /\ NewController(charge).proc = 0
BY DEF NewController, CtlType, Phases

\* A state the code sets down is one, and is not eligible.
LEMMA Downs ==
    ASSUME TypeOK, NEW phase \in Phases
    PROVE  /\ Down(phase) \in StateType
           /\ Down(phase).phase = phase
           /\ Down(phase).env = state.env
           /\ Down(phase).eligible = FALSE
           /\ Down(phase).limited = FALSE
BY DEF Down, StateType, TypeOK

\* Goes moves one controller, which keeps its child unless it returns.
LEMMA Going ==
    ASSUME TypeOK, NEW k \in Controllers, NEW pc \in Pcs, Goes(k, pc)
    PROVE  /\ ctl' \in [Controllers -> CtlType]
           /\ ctl'[k].pc = pc
           /\ pc # "done" => /\ ctl'[k].proc = ctl[k].proc
                             /\ ctl'[k].charge = ctl[k].charge
                             /\ ctl'[k].ended = ctl[k].ended
           /\ \A j \in Controllers : j # k => ctl'[j] = ctl[j]
<1>1. CASE pc = "done"
  <2>1. /\ [NewController(FALSE) EXCEPT !.pc = "done"] \in CtlType
        /\ [NewController(FALSE) EXCEPT !.pc = "done"].pc = "done"
    BY NewControllers DEF CtlType
  <2> QED
    BY <1>1, <2>1 DEF TypeOK, Goes
<1>2. CASE pc # "done"
  <2>1. ctl[k] \in CtlType
    BY DEF TypeOK
  <2>2. /\ [ctl[k] EXCEPT !.pc = pc, !.seen = "configured"] \in CtlType
        /\ [ctl[k] EXCEPT !.pc = pc, !.seen = "configured"].pc = pc
    BY <2>1 DEF CtlType, Phases, Pcs
  <2>3. ctl'[k] = [ctl[k] EXCEPT !.pc = pc, !.seen = "configured"]
    BY <1>2 DEF TypeOK, Goes
  <2>4. \A j \in Controllers : j # k => ctl'[j] = ctl[j]
    BY DEF TypeOK, Goes
  <2>5. ctl' = [ctl EXCEPT ![k] = ctl'[k]]
    BY <1>2 DEF TypeOK, Goes
  <2> QED
    <3>1. ctl' \in [Controllers -> CtlType]
      BY <2>2, <2>3, <2>5 DEF TypeOK
    <3>2. /\ ctl'[k].proc = ctl[k].proc
          /\ ctl'[k].charge = ctl[k].charge
          /\ ctl'[k].ended = ctl[k].ended
      BY <2>1, <2>3 DEF CtlType
    <3> QED
      BY <2>2, <2>3, <2>4, <3>1, <3>2
<1> QED
  BY <1>1, <1>2

\* A failed child sends its controller to another turn, or home.
LEMMA Retrying ==
    ASSUME TypeOK, NEW k \in Controllers, Retries(k)
    PROVE  /\ ctl' \in [Controllers -> CtlType]
           /\ \/ /\ ctl'[k].pc = "loop" /\ ctl'[k].charge
                 /\ ctl'[k].proc = 0 /\ RestartRoom
              \/ ctl'[k].pc = "done"
           /\ \A j \in Controllers : j # k => ctl'[j] = ctl[j]
<1>1. CASE RestartRoom
  <2>1. /\ [NewController(TRUE) EXCEPT !.retry = TRUE] \in CtlType
        /\ [NewController(TRUE) EXCEPT !.retry = TRUE].pc = "loop"
        /\ [NewController(TRUE) EXCEPT !.retry = TRUE].charge = TRUE
        /\ [NewController(TRUE) EXCEPT !.retry = TRUE].proc = 0
    BY NewControllers DEF CtlType
  <2> QED
    BY <1>1, <2>1 DEF Retries, TypeOK
<1>2. CASE ~RestartRoom
  BY <1>2, Going DEF Retries, Pcs
<1> QED
  BY <1>1, <1>2

\* A termination names the child it ends.
LEMMA Terminating ==
    ASSUME TypeOK, NEW k \in Controllers, NEW c \in 0..MaxChildren,
           NEW why \in {"stop", "limited", "session", "runtime", "unhealthy"},
           Terminates(k, c, why)
    PROVE  /\ ctl' \in [Controllers -> CtlType]
           /\ ctl'[k].pc = "term" /\ ctl'[k].proc = c
           /\ \A j \in Controllers : j # k => ctl'[j] = ctl[j]
<1>1. ctl[k] \in CtlType
  BY DEF TypeOK
<1>2. ctl'[k] = [ctl[k] EXCEPT !.pc = "term", !.proc = c, !.why = why,
                               !.seen = "configured"]
  BY <1>1 DEF TypeOK, Terminates, CtlType
<1>3. ctl'[k] \in CtlType /\ ctl'[k].pc = "term" /\ ctl'[k].proc = c
  BY <1>1, <1>2 DEF CtlType, Phases
<1> QED
  BY <1>3 DEF TypeOK, Terminates

\* A launch makes the next controller the current one.
LEMMA Launching ==
    ASSUME TypeOK, NEW charge \in BOOLEAN, Launches(charge)
    PROVE  /\ ctl' \in [Controllers -> CtlType]
           /\ controller' \in Controllers /\ controller' = controller + 1
           /\ ctl'[controller'] = NewController(charge)
           /\ \A j \in Controllers : j # controller' => ctl'[j] = ctl[j]
           /\ stopEvent' = FALSE
           /\ state' \in StateType /\ state'.phase = "starting"
           /\ state'.env = 0 /\ state'.eligible = FALSE
BY NewControllers DEF TypeOK, Launches, Starting, StateType, Phases

\* A stop returns to its caller, or goes on as the restart or close it is.
LEMMA Returning ==
    ASSUME TypeOK, NEW p \in Callers, NEW phase \in Phases, Returns(p, phase)
    PROVE  /\ caller' \in [Callers -> CallerType]
           /\ \/ caller'[p].pc = "idle"
              \/ /\ caller'[p].pc = "returned"
                 /\ caller'[p].call = caller[p].call
                 /\ caller'[p].stopped => phase = "stopped"
           /\ \A q \in Callers : q # p => caller'[q] = caller[q]
<1>1. caller[p] \in CallerType
  BY DEF TypeOK
<1>2. CASE caller[p].call = "stop"
  <2>1. Idle \in CallerType /\ Idle.pc = "idle"
    BY DEF Idle, CallerType, Calls
  <2> QED
    BY <1>2, <2>1 DEF Returns, TypeOK
<1>3. CASE caller[p].call # "stop"
  <2>1. caller'[p] = [caller[p] EXCEPT !.pc = "returned", !.of = 0,
                                       !.stopped = phase = "stopped"]
    BY <1>3 DEF Returns, TypeOK
  <2>2. ASSUME NEW s \in BOOLEAN
        PROVE  LET r == [caller[p] EXCEPT !.pc = "returned", !.of = 0,
                                          !.stopped = s]
               IN  /\ r \in CallerType /\ r.pc = "returned"
                   /\ r.call = caller[p].call /\ r.stopped = s
    BY <1>1 DEF CallerType
  <2>3. /\ caller'[p] \in CallerType /\ caller'[p].pc = "returned"
        /\ caller'[p].call = caller[p].call
        /\ caller'[p].stopped => phase = "stopped"
    <3>1. CASE phase = "stopped"
      BY <2>1, <2>2, <3>1
    <3>2. CASE phase # "stopped"
      <4>1. (phase = "stopped") = FALSE
        BY <3>2
      <4> QED
        BY <2>1, <2>2, <4>1
    <3> QED
      BY <3>1, <3>2
  <2> QED
    BY <2>3 DEF Returns, TypeOK
<1> QED
  BY <1>2, <1>3

\* A stop kills the child it read, or does not see it gone.
LEMMA Killing ==
    ASSUME TypeOK, NEW p \in Callers, StopKills(p)
    PROVE  /\ caller' \in [Callers -> CallerType]
           /\ caller'[p].pc = "killed"
           /\ caller'[p].call = caller[p].call
           /\ \/ Ended(caller[p].of)
              \/ /\ Unconfirmed(caller[p].of)
                 /\ caller'[p].stopped = caller[p].stopped
           /\ \A q \in Callers : q # p => caller'[q] = caller[q]
<1>1. caller[p] \in CallerType
  BY DEF TypeOK
<1>2. \/ caller'[p] = [caller[p] EXCEPT !.pc = "killed", !.stopped = TRUE]
      \/ caller'[p] = [caller[p] EXCEPT !.pc = "killed"]
  BY <1>1 DEF TypeOK, StopKills, CallerType
<1>3. /\ caller'[p] \in CallerType /\ caller'[p].pc = "killed"
      /\ caller'[p].call = caller[p].call
  BY <1>1, <1>2 DEF CallerType
<1>4. Unconfirmed(caller[p].of) /\ caller' = [caller EXCEPT ![p].pc = "killed"]
          => caller'[p].stopped = caller[p].stopped
  BY <1>1 DEF TypeOK, CallerType
<1> QED
  BY <1>3, <1>4 DEF StopKills, TypeOK

\* A stop that begins either finds nothing running, or waits for the current
\* controller, or kills the current child.
LEMMA Beginning ==
    ASSUME TypeOK, NEW p \in Callers,
           NEW call \in {"stop", "restart", "close"}, StopBegins(p, call)
    PROVE  /\ caller' \in [Callers -> CallerType]
           /\ \/ caller'[p].pc = "idle"
              \/ /\ caller'[p].pc \in {"joining", "killing", "returned"}
                 /\ caller'[p].call = call
           /\ caller'[p].pc = "joining" =>
                Alive(controller) /\ caller'[p].of = controller
           /\ caller'[p].pc = "killing" =>
                /\ ~Alive(controller) /\ Live(process)
                /\ caller'[p].of = process /\ ~caller'[p].stopped
           /\ caller'[p].pc = "returned" =>
                ~Alive(controller) /\ ~Live(process)
           /\ \A q \in Callers : q # p => caller'[q] = caller[q]
<1>1. Idle \in CallerType /\ Idle.pc = "idle"
  BY DEF Idle, CallerType, Calls
<1>2. CASE ~Alive(controller) /\ ~Live(process)
  <2>1. LET r == [Idle EXCEPT !.pc = "returned", !.call = call,
                              !.stopped = TRUE]
        IN  r \in CallerType /\ r.pc = "returned" /\ r.call = call
    BY <1>1 DEF CallerType, Calls
  <2>2. \/ caller' = [caller EXCEPT ![p] = Idle]
        \/ caller' = [caller EXCEPT ![p] =
             [Idle EXCEPT !.pc = "returned", !.call = call, !.stopped = TRUE]]
    BY <1>2 DEF StopBegins
  <2> QED
    BY <1>1, <1>2, <2>1, <2>2 DEF TypeOK
<1>3. ASSUME NEW pc \in {"joining", "killing"}, NEW of \in Nat,
             caller' = [caller EXCEPT ![p] =
                 [pc |-> pc, call |-> call, stopped |-> FALSE, of |-> of]]
      PROVE  /\ caller' \in [Callers -> CallerType]
             /\ caller'[p].pc = pc /\ caller'[p].call = call
             /\ caller'[p].of = of /\ ~caller'[p].stopped
             /\ \A q \in Callers : q # p => caller'[q] = caller[q]
  BY <1>3 DEF TypeOK, CallerType, Calls
<1>4. controller \in Nat /\ process \in Nat
  BY DEF TypeOK
<1>5. CASE Alive(controller)
  BY <1>3, <1>4, <1>5 DEF StopBegins
<1>6. CASE ~Alive(controller) /\ Live(process)
  BY <1>3, <1>4, <1>6 DEF StopBegins
<1> QED
  BY <1>2, <1>5, <1>6

\* A spawned child is a new one, and the controller holds it.
LEMMA Spawning ==
    ASSUME TypeOK, NEW k \in Controllers, Spawn(k)
    PROVE  \E c \in Children :
             /\ child[c] = "none" /\ child' = [child EXCEPT ![c] = "live"]
             /\ ctl' \in [Controllers -> CtlType]
             /\ ctl'[k].pc = "register" /\ ctl'[k].proc = c
             /\ \A j \in Controllers : j # k => ctl'[j] = ctl[j]
<1>1. PICK c \in Children :
        /\ child[c] = "none" /\ child' = [child EXCEPT ![c] = "live"]
        /\ ctl' = [ctl EXCEPT ![k].pc = "register", ![k].proc = c]
  BY DEF Spawn
<1>2. ctl[k] \in CtlType
  BY DEF TypeOK
<1>3. ctl'[k] = [ctl[k] EXCEPT !.pc = "register", !.proc = c]
  BY <1>1, <1>2 DEF TypeOK, CtlType
<1>4. /\ ctl'[k] \in CtlType
      /\ ctl'[k].pc = "register" /\ ctl'[k].proc = c
  <2>1. ctl[k].pc \in Pcs /\ c \in 0..MaxChildren
    BY <1>2 DEF CtlType, Pcs
  <2> QED
    BY <1>2, <1>3, <2>1 DEF CtlType
<1>5. ctl' \in [Controllers -> CtlType]
  BY <1>1, <1>4 DEF TypeOK
<1>6. \A j \in Controllers : j # k => ctl'[j] = ctl[j]
  BY <1>1 DEF TypeOK
<1> QED
  BY <1>1, <1>4, <1>5, <1>6

\* A termination ends its child, or does not see it gone.
LEMMA TerminateEnds ==
    ASSUME TypeOK, NEW k \in Controllers, Terminate(k)
    PROVE  /\ ctl' \in [Controllers -> CtlType]
           /\ ctl'[k].pc = "terminated"
           /\ \/ Ended(ctl[k].proc)
              \/ Unconfirmed(ctl[k].proc) /\ ~ctl'[k].ended
           /\ \A j \in Controllers : j # k => ctl'[j] = ctl[j]
<1>1. ctl[k] \in CtlType
  BY DEF TypeOK
<1>2. ASSUME NEW ended \in BOOLEAN,
             ctl' = [ctl EXCEPT ![k].pc = "terminated", ![k].ended = ended]
      PROVE  /\ ctl' \in [Controllers -> CtlType]
             /\ ctl'[k].pc = "terminated" /\ ctl'[k].ended = ended
             /\ \A j \in Controllers : j # k => ctl'[j] = ctl[j]
  <2>1. ctl'[k] = [ctl[k] EXCEPT !.pc = "terminated", !.ended = ended]
    BY <1>1, <1>2 DEF TypeOK, CtlType
  <2>2. /\ ctl'[k] \in CtlType
        /\ ctl'[k].pc = "terminated" /\ ctl'[k].ended = ended
    BY <1>1, <2>1 DEF CtlType
  <2> QED
    BY <1>2, <2>2 DEF TypeOK
<1> QED
  BY <1>2 DEF Terminate

\* Watching moves a controller only; it stops when the event is set.
LEMMA Watching ==
    ASSUME TypeOK, NEW k \in Controllers, Watch(k)
    PROVE  /\ ctl' \in [Controllers -> CtlType]
           /\ ctl'[k].pc \in {"stopping", "unhealthy", "poll"}
           /\ ctl'[k].pc = "stopping" => stopEvent
           /\ ctl'[k].proc = ctl[k].proc
           /\ \A j \in Controllers : j # k => ctl'[j] = ctl[j]
<1>1. ctl[k] \in CtlType /\ state.phase \in Phases
  BY DEF TypeOK, StateType
<1>2. ASSUME NEW pc \in {"stopping", "unhealthy", "poll"},
             ctl' = [ctl EXCEPT ![k].pc = pc, ![k].seen = state.phase]
      PROVE  /\ ctl' \in [Controllers -> CtlType]
             /\ ctl'[k].pc = pc /\ ctl'[k].proc = ctl[k].proc
             /\ \A j \in Controllers : j # k => ctl'[j] = ctl[j]
  <2>1. ctl'[k] = [ctl[k] EXCEPT !.pc = pc, !.seen = state.phase]
    BY <1>1, <1>2 DEF TypeOK, CtlType
  <2>2. /\ ctl'[k] \in CtlType
        /\ ctl'[k].pc = pc /\ ctl'[k].proc = ctl[k].proc
    BY <1>1, <2>1 DEF CtlType
  <2> QED
    BY <1>2, <2>2 DEF TypeOK
<1>3. CASE stopEvent
  BY <1>2, <1>3 DEF Watch
<1>4. CASE ~stopEvent /\ state.phase = "degraded" /\ RestartOnUnhealthy
  BY <1>2, <1>4 DEF Watch
<1>5. CASE ~stopEvent /\ ~(state.phase = "degraded" /\ RestartOnUnhealthy)
  BY <1>2, <1>5 DEF Watch
<1> QED
  BY <1>3, <1>4, <1>5

-----------------------------------------------------------------------------
(* The types. *)

LEMMA InitTypes ==
    ASSUME Init
    PROVE  TypeOK
<1>1. [NewController(FALSE) EXCEPT !.pc = "none"] \in CtlType
  BY NewControllers DEF CtlType
<1>2. Idle \in CallerType
  BY DEF Idle, CallerType, Calls
<1>3. state \in StateType
  BY DEF Init, StateType, Phases
<1>4. ctl \in [Controllers -> CtlType]
  <2>1. \A r : r \in CtlType => [k \in Controllers |-> r]
                                     \in [Controllers -> CtlType]
    OBVIOUS
  <2> QED
    BY <1>1, <2>1, Zenon DEF Init
<1>5. /\ stopEvent \in BOOLEAN /\ controller \in 0..MaxControllers
      /\ process \in 0..MaxChildren /\ generation \in Nat
      /\ charged \in Nat /\ expired \in 0..charged /\ closed \in BOOLEAN
  <2>1. /\ stopEvent = FALSE /\ controller = 0 /\ process = 0
        /\ generation = 0 /\ charged = 0 /\ expired = 0 /\ closed = FALSE
    BY Zenon DEF Init
  <2>2. stopEvent \in BOOLEAN /\ closed \in BOOLEAN
    BY <2>1, Zenon
  <2>3. /\ controller \in 0..MaxControllers /\ process \in 0..MaxChildren
        /\ generation \in Nat /\ charged \in Nat /\ expired \in 0..charged
    <3> HIDE DEF Init
    <3> QED
      BY <2>1
  <2> QED
    BY <2>2, <2>3
<1>6. /\ reader \in [Children -> {"none", "on", "off"}]
      /\ child \in [Children -> {"none", "live", "dead"}]
      /\ caller \in [Callers -> CallerType]
  BY <1>2 DEF Init
<1> QED
  BY <1>3, <1>4, <1>5, <1>6 DEF TypeOK

\* A call keeps the types.
LEMMA CallTypes ==
    ASSUME TypeOK, NEW p \in Callers, Call(p)
    PROVE  TypeOK'
<1>0. caller[p] \in CallerType /\ state.phase \in Phases
  BY DEF TypeOK, StateType
<1>i. Idle \in CallerType
  BY DEF Idle, CallerType, Calls
<1>1. CASE Start(p)
  <2>1. PICK charge \in BOOLEAN : Launches(charge)
    <3>1. (generation > 0) \in BOOLEAN
      OBVIOUS
    <3> QED
      BY <1>1, <3>1, Zenon DEF Start
  <2>2. /\ ctl' \in [Controllers -> CtlType] /\ controller' \in Controllers
        /\ stopEvent' = FALSE /\ state' \in StateType
    BY <2>1, Launching
  <2>3. UNCHANGED <<generation, charged, expired, closed, reader, child,
                    caller>> /\ process' = 0
    BY <1>1 DEF Start
  <2>4. stopEvent' \in BOOLEAN
    BY <2>2, Zenon
  <2>5. /\ ctl' \in [Controllers -> CtlType] /\ controller' \in Controllers
        /\ state' \in StateType
    BY <2>2
  <2> QED
    BY <2>3, <2>4, <2>5 DEF TypeOK
<1>2. ASSUME NEW call \in {"stop", "restart", "close"}, StopBegins(p, call)
      PROVE  TypeOK'
  <2>1. Down("stopped") \in StateType /\ Down("quiescing") \in StateType
    BY Downs DEF Phases
  <2>2. caller' \in [Callers -> CallerType]
    BY <1>2, Beginning
  <2>3. process' \in 0..MaxChildren /\ state' \in StateType /\ stopEvent' \in BOOLEAN
    <3>1. process' \in {0, process}
      BY <1>2 DEF StopBegins
    <3>2. state' \in {Down("stopped"), Down("quiescing")}
      BY <1>2 DEF StopBegins
    <3>3. stopEvent' \in {stopEvent, TRUE}
      BY <1>2 DEF StopBegins
    <3>4. stopEvent' \in BOOLEAN
      BY <3>3, Zenon DEF TypeOK
    <3> QED
      BY <2>1, <3>1, <3>2, <3>4 DEF TypeOK
  <2> QED
    BY <1>2, <2>2, <2>3 DEF StopBegins, TypeOK
<1>3. CASE StopKills(p)
  <2>1. caller' \in [Callers -> CallerType]
    BY <1>3, Killing
  <2>2. caller[p].of \in Nat
    BY <1>0 DEF CallerType
  <2>3. /\ child' \in [Children -> {"none", "live", "dead"}]
        /\ process' \in 0..MaxChildren
    <3>1. Ended(caller[p].of) \/ Unconfirmed(caller[p].of)
      BY <1>3, Killing
    <3> QED
      BY <3>1 DEF Ended, Unconfirmed, TypeOK
  <2> QED
    BY <1>3, <2>1, <2>3 DEF StopKills, TypeOK
<1>4. CASE StopKilled(p)
  <2>1. state' \in StateType /\ state'.phase \in Phases
    BY <1>4, Downs DEF StopKilled, Phases
  <2> QED
    BY <1>4, <2>1, Returning DEF StopKilled, TypeOK
<1>5. CASE StopJoined(p)
  <2>1. state' \in StateType /\ state'.phase \in Phases
    BY <1>0, <1>5, Downs DEF StopJoined, Phases, TypeOK
  <2> QED
    BY <1>5, <2>1, Returning DEF StopJoined, TypeOK
<1>6. CASE StopGivesUp(p)
  BY <1>0, <1>6, Returning DEF StopGivesUp, TypeOK
<1>7. CASE RestartBegins(p)
  <2>1. caller' \in [Callers -> CallerType]
    BY <1>7, <1>i DEF RestartBegins, TypeOK
  <2>2. Down("degraded") \in StateType
    BY Downs DEF Phases
  <2>3. /\ controller' \in 0..MaxControllers /\ stopEvent' \in BOOLEAN
        /\ ctl' \in [Controllers -> CtlType] /\ state' \in StateType
        /\ charged' \in Nat /\ charged' >= charged
    <3>1. CASE Launches(FALSE) /\ charged' = charged + 1
      <4>1. /\ ctl' \in [Controllers -> CtlType]
            /\ controller' \in Controllers
            /\ stopEvent' = FALSE /\ state' \in StateType
        BY <3>1, Launching
      <4>2. stopEvent' \in BOOLEAN
        BY <4>1, Zenon
      <4>3. /\ controller' \in 0..MaxControllers
            /\ ctl' \in [Controllers -> CtlType] /\ state' \in StateType
            /\ charged' \in Nat /\ charged' >= charged
        BY <3>1, <4>1 DEF TypeOK
      <4> QED
        BY <4>2, <4>3, Zenon
    <3>2. CASE UNCHANGED <<controller, ctl, stopEvent, charged>>
      <4>1. state' \in {state, Down("degraded"), Starting(0)}
        BY <1>7 DEF RestartBegins, Launches
      <4>2. Starting(0) \in StateType
        BY DEF Starting, StateType, Phases
      <4>3. stopEvent' \in BOOLEAN
        BY <3>2, Zenon DEF TypeOK
      <4>4. state' \in StateType
        BY <2>2, <4>1, <4>2 DEF TypeOK
      <4>5. /\ controller' \in 0..MaxControllers
            /\ ctl' \in [Controllers -> CtlType]
            /\ charged' \in Nat /\ charged' >= charged
        BY <3>2 DEF TypeOK
      <4> QED
        BY <4>3, <4>4, <4>5, Zenon
    <3> QED
      BY <1>7, <3>1, <3>2 DEF RestartBegins
  <2> QED
    BY <1>7, <2>1, <2>3 DEF RestartBegins, TypeOK
<1>8. CASE CloseEnds(p)
  BY <1>8, <1>i DEF CloseEnds, TypeOK
<1> QED
  BY <1>1, <1>2, <1>3, <1>4, <1>5, <1>6, <1>7, <1>8 DEF Call, StopEnds

\* A turn of a controller keeps the types.
LEMMA ControlTypes ==
    ASSUME TypeOK, NEW k \in Controllers, Control(k)
    PROVE  TypeOK'
<1>0. ctl[k] \in CtlType /\ ctl[k].proc \in 0..MaxChildren
  BY DEF TypeOK, CtlType
<1>d. /\ Down("stopped") \in StateType /\ Down("quiescing") \in StateType
      /\ Down("degraded") \in StateType
  BY Downs DEF Phases
<1> USE DEF Pcs
<1>1. CASE Turn(k)
  BY <1>1, <1>d, Going DEF Turn, TypeOK
<1>2. CASE Backoff(k)
  BY <1>2, Going DEF Backoff, TypeOK
<1>3. CASE Spawn(k)
  BY <1>3, Spawning DEF Spawn, TypeOK
<1>4. CASE SpawnFails(k)
  BY <1>4, <1>d, Retrying DEF SpawnFails, TypeOK
<1>5. CASE Register(k)
  BY <1>0, <1>5, Going DEF Register, TypeOK
<1>6. CASE SessionRefused(k)
  BY <1>0, <1>6, Terminating DEF SessionRefused, TypeOK
<1>7. CASE Publish(k)
  <2>1. Starting(ctl[k].proc) \in StateType
    BY <1>0 DEF Starting, StateType, Phases
  <2>2. ctl' \in [Controllers -> CtlType]
    BY <1>7, Going DEF Publish
  <2>3. reader' \in [Children -> {"none", "on", "off"}]
    BY <1>7 DEF Publish, TypeOK
  <2> QED
    BY <1>0, <1>7, <2>1, <2>2, <2>3 DEF Publish, TypeOK
<1>8. CASE Final(k)
  BY <1>8, <1>d, Going, Terminating DEF Final, TypeOK
<1>9. CASE Terminate(k)
  <2>1. ctl' \in [Controllers -> CtlType]
    BY <1>9, TerminateEnds
  <2>2. /\ child' \in [Children -> {"none", "live", "dead"}]
        /\ process' \in 0..MaxChildren
    <3>1. Ended(ctl[k].proc) \/ Unconfirmed(ctl[k].proc)
      BY <1>9, TerminateEnds
    <3> QED
      BY <3>1 DEF Ended, Unconfirmed, TypeOK
  <2> QED
    BY <1>9, <2>1, <2>2 DEF Terminate, TypeOK
<1>10. CASE Terminated(k)
  <2>1. state' \in StateType
    <3>1. [Down("degraded") EXCEPT !.limited = TRUE] \in StateType
      BY <1>d DEF StateType
    <3>2. [state EXCEPT !.phase = "degraded", !.limited = FALSE] \in StateType
      BY DEF TypeOK, StateType, Phases
    <3> QED
      BY <1>10, <1>d, <3>1, <3>2 DEF Terminated, StoppedState, TypeOK
  <2>2. ctl' \in [Controllers -> CtlType]
    BY <1>10, Going, Retrying DEF Terminated
  <2> QED
    BY <1>10, <2>1, <2>2 DEF Terminated, TypeOK
<1>11. CASE Watch(k)
  BY <1>11, Watching DEF Watch, TypeOK
<1>12. CASE Exited(k)
  BY <1>12, <1>d, Retrying DEF Exited, TypeOK
<1>13. CASE RuntimeOver(k)
  BY <1>0, <1>13, <1>d, Terminating DEF RuntimeOver, TypeOK
<1>14. CASE TimesOut(k)
  BY <1>14, <1>d, Going DEF TimesOut, TypeOK
<1>15. CASE WatchAgain(k)
  BY <1>15, Going DEF WatchAgain, TypeOK
<1>16. CASE Unhealthy(k)
  BY <1>0, <1>16, <1>d, Terminating DEF Unhealthy, TypeOK
<1>17. CASE Stopping(k)
  <2>1. state' \in StateType
    BY <1>17, <1>d DEF Stopping, StateType, TypeOK
  <2>2. ctl' \in [Controllers -> CtlType]
    BY <1>0, <1>17, Terminating DEF Stopping
  <2> QED
    BY <1>17, <2>1, <2>2 DEF Stopping, TypeOK
<1> QED
  BY <1>1, <1>2, <1>3, <1>4, <1>5, <1>6, <1>7, <1>8, <1>9, <1>10, <1>11,
     <1>12, <1>13, <1>14, <1>15, <1>16, <1>17 DEF Control

\* So does every step.
LEMMA NextTypes ==
    ASSUME TypeOK, [Next]_vars
    PROVE  TypeOK'
<1>1. ASSUME NEW p \in Callers, Call(p)
      PROVE  TypeOK'
  BY <1>1, CallTypes
<1>2. ASSUME NEW k \in Controllers, Control(k)
      PROVE  TypeOK'
  BY <1>2, ControlTypes
<1>3. ASSUME NEW c \in Children, Helper(c)
      PROVE  TypeOK'
  <2>1. CASE Reports(c)
    BY <2>1 DEF Reports, TypeOK, StateType, Phases
  <2>2. CASE Overflows(c)
    <3>1. [Down("degraded") EXCEPT !.limited = TRUE] \in StateType
      BY Downs DEF StateType, Phases
    <3> QED
      BY <2>2, <3>1 DEF Overflows, TypeOK
  <2>3. CASE ReaderEnds(c)
    BY <2>3 DEF ReaderEnds, TypeOK
  <2>4. CASE Dies(c)
    BY <2>4 DEF Dies, TypeOK
  <2> QED
    BY <1>3, <2>1, <2>2, <2>3, <2>4 DEF Helper
<1>4. CASE Expire
  BY <1>4 DEF Expire, TypeOK
<1>5. CASE UNCHANGED vars
  BY <1>5 DEF vars, TypeOK
<1> QED
  BY <1>1, <1>2, <1>3, <1>4, <1>5 DEF Next

\* The supervisor's state keeps its shape, and no restart leaves the window
\* that was not charged to it.
THEOREM Types == Spec => []TypeOK
<1>1. Init => TypeOK
  BY InitTypes
<1>2. TypeOK /\ [Next]_vars => TypeOK'
  BY NextTypes
<1> QED
  BY <1>1, <1>2, PTL DEF Spec

-----------------------------------------------------------------------------
(* The restart budget.  A controller that is on its way to a child has paid *)
(* for it, or is the first: what is charged covers the children published   *)
(* and those on their way.                                                  *)

\* the controller owes nothing for the child it is about to publish
Paid(k) == \/ ctl[k].pc \in {"backoff", "spawn", "register", "validate"}
           \/ At(k, "loop") /\ ~ctl[k].charge

Ready == {k \in Controllers : Paid(k)}

\* controllers are started in order
Unstarted == \A k \in Controllers : k > controller => At(k, "none")

\* the restarts a window has room for
Allowance == IF Enabled THEN MaxRestarts ELSE 0

\* before the first child the current controller is the one that may be free
Budget ==
    /\ charged <= expired + Allowance
    /\ generation = 0 => Cardinality(Ready \ {controller}) <= charged
    /\ generation # 0 => generation + Cardinality(Ready) <= 1 + charged

\* Controllers are finitely many, and so are those of them that have paid.
LEMMA Counting ==
    ASSUME NEW S \in SUBSET Controllers
    PROVE  /\ IsFiniteSet(S) /\ Cardinality(S) \in Nat
           /\ \A x : /\ Cardinality(S \cup {x}) =
                          IF x \in S THEN Cardinality(S) ELSE Cardinality(S) + 1
                     /\ Cardinality(S \ {x}) =
                          IF x \in S THEN Cardinality(S) - 1 ELSE Cardinality(S)
           /\ \A T : T \subseteq S => /\ Cardinality(T) \in Nat
                                      /\ Cardinality(T) <= Cardinality(S)
<1>1. IsFiniteSet(Controllers)
  BY FS_Interval
<1>2. \A T : T \subseteq Controllers => IsFiniteSet(T)
  BY <1>1, FS_Subset
<1>3. \A T : T \subseteq Controllers => Cardinality(T) \in Nat
  BY <1>2, FS_CardinalityType
<1> QED
  BY <1>2, <1>3, FS_AddElement, FS_RemoveElement, FS_Subset

\* The room a restart finds is within the allowance.
LEMMA Room ==
    ASSUME TypeOK
    PROVE  /\ Allowance \in Nat /\ charged \in Nat /\ expired \in Nat
           /\ generation \in Nat
           /\ RestartRoom => charged + 1 <= expired + Allowance
<1>1. Allowance \in Nat
  BY DEF Allowance
<1>2. charged \in Nat /\ expired \in Nat /\ generation \in Nat
  BY DEF TypeOK
<1>3. ASSUME RestartRoom
      PROVE  charged + 1 <= expired + Allowance
  <2>1. Allowance = MaxRestarts /\ charged - expired < MaxRestarts
    BY <1>3 DEF Allowance, RestartRoom
  <2> QED
    BY <1>2, <2>1
<1> QED
  BY <1>1, <1>2, <1>3

\* A step that makes no controller ready and charges nothing keeps to it.
LEMMA NobodyReady ==
    ASSUME TypeOK, TypeOK', Budget, Ready' \subseteq Ready,
           controller' = controller, generation' = generation,
           charged' = charged, expired' >= expired
    PROVE  Budget'
<1>1. Ready \in SUBSET Controllers /\ Ready' \in SUBSET Controllers
  BY DEF Ready
<1>2. /\ Cardinality(Ready') <= Cardinality(Ready)
      /\ Cardinality(Ready') \in Nat /\ Cardinality(Ready) \in Nat
  BY <1>1, Counting
<1>3. /\ (Ready \ {controller}) \in SUBSET Controllers
      /\ (Ready' \ {controller'}) \subseteq (Ready \ {controller})
  BY <1>1
<1>4. /\ Cardinality(Ready' \ {controller'}) <= Cardinality(Ready \ {controller})
      /\ Cardinality(Ready' \ {controller'}) \in Nat
      /\ Cardinality(Ready \ {controller}) \in Nat
  BY <1>3, Counting
<1>5. expired' \in Nat
  BY DEF TypeOK
<1>6. /\ Allowance' = Allowance /\ Allowance \in Nat
      /\ charged \in Nat /\ expired \in Nat /\ generation \in Nat
  BY Room DEF Allowance
<1>7. charged' <= expired' + Allowance'
  <2>1. charged <= expired + Allowance
    BY DEF Budget
  <2>2. ASSUME NEW a \in Nat, NEW b \in Nat, NEW c \in Nat, NEW d \in Nat,
               a <= b + d, c >= b
        PROVE  a <= c + d
    BY <2>2
  <2> QED
    BY <1>5, <1>6, <2>1, <2>2
<1>8. generation' = 0 => Cardinality(Ready' \ {controller'}) <= charged'
  BY <1>4, <1>6 DEF Budget
<1>9. generation' # 0 => generation' + Cardinality(Ready') <= 1 + charged'
  BY <1>2, <1>6 DEF Budget
<1> QED
  BY <1>7, <1>8, <1>9 DEF Budget

\* A charge makes room for one more controller on its way to a child.
LEMMA ChargeMakesRoom ==
    ASSUME TypeOK, TypeOK', Budget, RestartRoom, NEW k \in Controllers,
           Ready' \subseteq Ready \cup {k},
           controller' \in {controller, k}, generation' = generation,
           charged' = charged + 1, expired' = expired
    PROVE  Budget'
<1>1. Ready \in SUBSET Controllers /\ Ready' \in SUBSET Controllers
      /\ (Ready \cup {k}) \in SUBSET Controllers
  BY DEF Ready
<1>2. /\ Cardinality(Ready') <= Cardinality(Ready) + 1
      /\ Cardinality(Ready') \in Nat /\ Cardinality(Ready) \in Nat
  <2>1. Cardinality(Ready') <= Cardinality(Ready \cup {k})
    BY <1>1, Counting
  <2>2. /\ Cardinality(Ready') \in Nat /\ Cardinality(Ready) \in Nat
        /\ Cardinality(Ready \cup {k}) \in Nat
    BY <1>1, Counting
  <2>3. Cardinality(Ready \cup {k}) <= Cardinality(Ready) + 1
    BY <1>1, <2>2, Counting
  <2> QED
    BY <2>1, <2>2, <2>3
<1>3. /\ Cardinality(Ready' \ {controller'}) <= Cardinality(Ready \ {controller}) + 1
      /\ Cardinality(Ready' \ {controller'}) \in Nat
      /\ Cardinality(Ready \ {controller}) \in Nat
  <2>1. (Ready \ {controller}) \in SUBSET Controllers
        /\ ((Ready \ {controller}) \cup {k}) \in SUBSET Controllers
        /\ (Ready' \ {controller'}) \in SUBSET Controllers
    BY <1>1
  <2>2. CASE controller' = controller
    <3>1. (Ready' \ {controller'}) \subseteq ((Ready \ {controller}) \cup {k})
      BY <2>2
    <3>2. /\ Cardinality(Ready' \ {controller'}) \in Nat
          /\ Cardinality(Ready \ {controller}) \in Nat
          /\ Cardinality((Ready \ {controller}) \cup {k}) \in Nat
      BY <2>1, Counting
    <3>3. Cardinality(Ready' \ {controller'}) <=
              Cardinality((Ready \ {controller}) \cup {k})
      BY <2>1, <3>1, Counting
    <3>4. Cardinality((Ready \ {controller}) \cup {k}) <=
              Cardinality(Ready \ {controller}) + 1
      BY <2>1, <3>2, Counting
    <3> QED
      BY <3>2, <3>3, <3>4
  <2>3. CASE controller' = k
    <3>1. (Ready' \ {controller'}) \subseteq Ready
      BY <2>3
    <3>2. Cardinality(Ready' \ {controller'}) <= Cardinality(Ready)
      BY <1>1, <3>1, Counting
    <3>3. Cardinality(Ready) <= Cardinality(Ready \ {controller}) + 1
      BY <1>1, <1>2, Counting
    <3> QED
      BY <1>2, <2>1, <3>2, <3>3, Counting
  <2> QED
    BY <2>2, <2>3
<1>4. charged' <= expired' + Allowance' /\ charged \in Nat /\ generation \in Nat
  BY Room DEF Allowance
<1> QED
  BY <1>2, <1>3, <1>4 DEF Budget

\* A controller whose record did not change owes what it owed.
LEMMA OneMoves ==
    ASSUME TypeOK, NEW k \in Controllers,
           \A j \in Controllers : j # k => ctl'[j] = ctl[j]
    PROVE  /\ Ready' \subseteq Ready \cup {k}
           /\ Paid(k) => Ready' \subseteq Ready
           /\ ~Paid(k)' => Ready' \subseteq Ready
           /\ ~Paid(k)' => Ready' = Ready \ {k}
BY DEF Ready, Paid, At

LEMMA CallBudget ==
    ASSUME TypeOK, TypeOK', Unstarted, Budget, NEW p \in Callers, Call(p)
    PROVE  Unstarted' /\ Budget'
<1>0. controller \in Nat /\ generation \in Nat /\ charged \in Nat
      /\ expired \in Nat
  BY DEF TypeOK
<1>1. ASSUME UNCHANGED <<controller, ctl, generation, charged, expired>>
      PROVE  Unstarted' /\ Budget'
  BY <1>0, <1>1, NobodyReady DEF Unstarted, At, Ready, Paid
<1>2. CASE Start(p)
  <2>1. PICK charge \in BOOLEAN : /\ Launches(charge)
                                  /\ charge <=> generation > 0
    <3>1. (generation > 0) \in BOOLEAN
      OBVIOUS
    <3> QED
      BY <1>2, <3>1, Zenon DEF Start
  <2>2. /\ controller' \in Controllers /\ controller' = controller + 1
        /\ ctl'[controller'].pc = "loop"
        /\ ctl'[controller'].charge = charge
        /\ \A j \in Controllers : j # controller' => ctl'[j] = ctl[j]
    BY <2>1, Launching, NewControllers
  <2>3. Unstarted'
    BY <1>0, <2>2 DEF Unstarted, At
  <2>4. UNCHANGED <<generation, charged, expired>>
    BY <1>2 DEF Start
  <2>5. ~Paid(controller') /\ controller' \notin Ready
    BY <1>0, <2>2 DEF Unstarted, Ready, Paid, At
  <2>6. Ready \in SUBSET Controllers /\ Ready' \in SUBSET Controllers
    BY DEF Ready
  <2>7. CASE charge
    <3>1. Ready' = Ready
      BY <2>2, <2>5, <2>7 DEF Ready, Paid, At
    <3>2. generation # 0
      BY <1>0, <2>1, <2>7
    <3> QED
      BY <1>0, <2>3, <2>4, <3>1, <3>2 DEF Budget
  <2>8. CASE ~charge
    <3>1. Ready' \subseteq Ready \cup {controller'}
      BY <2>2 DEF Ready, Paid, At
    <3>2. ~Alive(controller)
      BY <1>2 DEF Start, MayStart
    <3>3. controller \notin Ready
      BY <1>0, <3>2 DEF Ready, Paid, Alive, At
    <3>4. Ready \ {controller} = Ready
      BY <3>3
    <3>5. Cardinality(Ready' \ {controller'}) <= Cardinality(Ready)
      <4>1. (Ready' \ {controller'}) \subseteq Ready
        BY <3>1
      <4> QED
        BY <2>6, <4>1, Counting
    <3>6. generation = 0
      BY <1>0, <2>1, <2>8
    <3>7. /\ Cardinality(Ready' \ {controller'}) \in Nat
          /\ Cardinality(Ready) \in Nat
      BY <2>6, Counting
    <3>8. Cardinality(Ready) <= charged
      BY <3>4, <3>6 DEF Budget
    <3>9. Cardinality(Ready' \ {controller'}) <= charged
      BY <1>0, <3>5, <3>7, <3>8
    <3> QED
      BY <2>3, <2>4, <3>6, <3>9 DEF Budget
  <2> QED
    BY <2>7, <2>8
<1>3. CASE RestartBegins(p) /\ charged' # charged
  <2>1. /\ Launches(FALSE) /\ charged' = charged + 1 /\ RestartRoom
        /\ generation' = generation /\ expired' = expired
    BY <1>3 DEF RestartBegins
  <2>2. /\ controller' \in Controllers /\ controller' = controller + 1
        /\ \A j \in Controllers : j # controller' => ctl'[j] = ctl[j]
    BY <2>1, Launching
  <2>3. Unstarted'
    BY <1>0, <2>2 DEF Unstarted, At
  <2>4. Ready' \subseteq Ready \cup {controller'}
    BY <2>2 DEF Ready, Paid, At
  <2> QED
    BY <2>1, <2>2, <2>3, <2>4, ChargeMakesRoom
<1>4. CASE RestartBegins(p) /\ charged' = charged
  <2>1. UNCHANGED <<controller, ctl, generation, charged, expired>>
    <3>1. charged' # charged + 1
      BY <1>0, <1>4
    <3> QED
      BY <1>4, <3>1 DEF RestartBegins
  <2> QED
    BY <1>1, <2>1
<1>5. ASSUME NEW call \in {"stop", "restart", "close"}, StopBegins(p, call)
      PROVE  UNCHANGED <<controller, ctl, generation, charged, expired>>
  BY <1>5 DEF StopBegins
<1>6. CASE StopKills(p)
  BY <1>1, <1>6 DEF StopKills
<1>7. CASE StopKilled(p)
  BY <1>1, <1>7 DEF StopKilled
<1>8. CASE StopJoined(p)
  BY <1>1, <1>8 DEF StopJoined
<1>9. CASE StopGivesUp(p)
  BY <1>1, <1>9 DEF StopGivesUp
<1>10. CASE CloseEnds(p)
  BY <1>1, <1>10 DEF CloseEnds
<1> QED
  BY <1>1, <1>2, <1>3, <1>4, <1>5, <1>6, <1>7, <1>8, <1>9, <1>10
     DEF Call, StopEnds

LEMMA ControlBudget ==
    ASSUME TypeOK, TypeOK', Unstarted, Budget, NEW k \in Controllers,
           Control(k)
    PROVE  Unstarted' /\ Budget'
<1>0. controller' = controller /\ expired' = expired
  BY DEF Control, Turn, Backoff, Spawn, SpawnFails, Register, SessionRefused,
         Publish, Final, Terminate, Terminated, Watch, Exited, RuntimeOver,
         TimesOut, WatchAgain, Unhealthy, Stopping
<1>1. ASSUME \A j \in Controllers : j # k => ctl'[j] = ctl[j], ~At(k, "none")
      PROVE  Unstarted'
  BY <1>0, <1>1 DEF Unstarted, At
<1>2. ASSUME ~At(k, "none"), Paid(k) \/ ~Paid(k)',
             \A j \in Controllers : j # k => ctl'[j] = ctl[j],
             generation' = generation, charged' = charged
      PROVE  Unstarted' /\ Budget'
  <2>1. Ready' \subseteq Ready
    BY <1>2, OneMoves
  <2>2. expired' >= expired
    BY <1>0 DEF TypeOK
  <2> QED
    BY <1>0, <1>1, <1>2, <2>1, <2>2, NobodyReady
<1> USE DEF Pcs
<1>3. CASE Turn(k)
  <2>1. ~At(k, "none") /\ generation' = generation
    BY <1>3 DEF Turn, At
  <2>2. CASE stopEvent /\ Goes(k, "final") /\ charged' = charged
    BY <1>2, <2>1, <2>2, Going DEF Paid, At
  <2>3. CASE Goes(k, "done") /\ charged' = charged
    BY <1>2, <2>1, <2>3, Going DEF Paid, At
  <2>4. CASE /\ ctl[k].charge => RestartRoom
             /\ charged' = IF ctl[k].charge THEN charged + 1 ELSE charged
             /\ Goes(k, IF ctl[k].retry THEN "backoff" ELSE "spawn")
    <3>1. /\ ctl'[k].pc \in {"backoff", "spawn"}
          /\ \A j \in Controllers : j # k => ctl'[j] = ctl[j]
      BY <2>4, Going
    <3>2. CASE ctl[k].charge
      <4>1. Ready' \subseteq Ready \cup {k}
        BY <3>1, OneMoves
      <4> QED
        BY <1>0, <1>1, <2>1, <2>4, <3>1, <3>2, <4>1, ChargeMakesRoom
    <3>3. CASE ~ctl[k].charge
      <4>1. Paid(k)
        BY <1>3, <3>3 DEF Turn, Paid, At
      <4> QED
        BY <1>2, <2>1, <2>4, <3>1, <3>3, <4>1
    <3> QED
      BY <3>2, <3>3
  <2> QED
    BY <1>3, <2>2, <2>3, <2>4 DEF Turn
<1>4. CASE Backoff(k)
  <2>1. Paid(k) /\ ~At(k, "none")
    BY <1>4 DEF Backoff, Paid, At
  <2>2. \A j \in Controllers : j # k => ctl'[j] = ctl[j]
    BY <1>4, Going DEF Backoff
  <2> QED
    BY <1>2, <1>4, <2>1, <2>2 DEF Backoff
<1>5. CASE Spawn(k)
  <2>1. Paid(k) /\ ~At(k, "none")
    BY <1>5 DEF Spawn, Paid, At
  <2>2. \A j \in Controllers : j # k => ctl'[j] = ctl[j]
    BY <1>5, Spawning
  <2> QED
    BY <1>2, <1>5, <2>1, <2>2 DEF Spawn
<1>6. CASE SpawnFails(k)
  BY <1>2, <1>6, Retrying DEF SpawnFails, Paid, At
<1>7. CASE Register(k)
  <2>1. Paid(k) /\ ~At(k, "none")
    BY <1>7 DEF Register, Paid, At
  <2>2. \A j \in Controllers : j # k => ctl'[j] = ctl[j]
    BY <1>7, Going DEF Register
  <2> QED
    BY <1>2, <1>7, <2>1, <2>2 DEF Register
<1>8. CASE SessionRefused(k)
  <2>1. /\ \A j \in Controllers : j # k => ctl'[j] = ctl[j]
        /\ ctl'[k].pc = "term"
    <3>1. ctl[k].proc \in 0..MaxChildren
      BY DEF TypeOK, CtlType
    <3> QED
      BY <1>8, <3>1, Terminating DEF SessionRefused
  <2> QED
    BY <1>2, <1>8, <2>1 DEF SessionRefused, Paid, At
<1>9. CASE Publish(k)
  <2>1. /\ Paid(k) /\ ~At(k, "none") /\ k \in Ready
        /\ generation' = generation + 1 /\ charged' = charged
    BY <1>9 DEF Publish, Paid, At, Ready
  <2>2. /\ \A j \in Controllers : j # k => ctl'[j] = ctl[j]
        /\ ~Paid(k)'
    BY <1>9, Going DEF Publish, Paid, At
  <2>3. Ready' = Ready \ {k} /\ Ready \in SUBSET Controllers
    BY <2>2, OneMoves DEF Ready
  <2>4. /\ Cardinality(Ready') = Cardinality(Ready) - 1
        /\ Cardinality(Ready) \in Nat /\ Cardinality(Ready') \in Nat
    <3>1. Ready' \in SUBSET Controllers
      BY <2>3
    <3> QED
      BY <2>1, <2>3, <3>1, Counting
  <2>5. Cardinality(Ready) <= Cardinality(Ready \ {controller}) + 1
    BY <2>3, <2>4, Counting
  <2>6. Cardinality(Ready \ {controller}) \in Nat
    <3>1. (Ready \ {controller}) \in SUBSET Controllers
      BY <2>3
    <3> QED
      BY <3>1, Counting
  <2>7. Allowance' = Allowance /\ charged \in Nat /\ generation \in Nat
    BY Room DEF Allowance
  <2>8. generation' # 0 /\ generation' + Cardinality(Ready') <= 1 + charged'
    BY <2>1, <2>4, <2>5, <2>6, <2>7 DEF Budget
  <2> QED
    BY <1>0, <1>1, <2>1, <2>2, <2>7, <2>8 DEF Budget
<1>10. CASE Final(k)
  <2>1. /\ \A j \in Controllers : j # k => ctl'[j] = ctl[j]
        /\ ctl'[k].pc \in {"done", "term"}
    <3>1. process \in 0..MaxChildren
      BY DEF TypeOK
    <3> QED
      BY <1>10, <3>1, Going, Terminating DEF Final
  <2> QED
    BY <1>2, <1>10, <2>1 DEF Final, Paid, At
<1>11. CASE Terminate(k)
  BY <1>2, <1>11, TerminateEnds DEF Terminate, Paid, At
<1>12. CASE Terminated(k)
  <2>1. /\ \A j \in Controllers : j # k => ctl'[j] = ctl[j]
        /\ \/ ctl'[k].pc = "loop" /\ ctl'[k].charge
           \/ ctl'[k].pc = "done"
    BY <1>12, Going, Retrying DEF Terminated
  <2> QED
    BY <1>2, <1>12, <2>1 DEF Terminated, Paid, At
<1>13. CASE Watch(k)
  BY <1>2, <1>13, Watching DEF Watch, Paid, At
<1>14. CASE Exited(k)
  BY <1>2, <1>14, Retrying DEF Exited, Paid, At
<1>15. CASE RuntimeOver(k) \/ Unhealthy(k) \/ Stopping(k)
  <2>1. ctl[k].proc \in 0..MaxChildren
    BY DEF TypeOK, CtlType
  <2>2. /\ \A j \in Controllers : j # k => ctl'[j] = ctl[j]
        /\ ctl'[k].pc = "term"
    BY <1>15, <2>1, Terminating DEF RuntimeOver, Unhealthy, Stopping
  <2> QED
    BY <1>2, <1>15, <2>2 DEF RuntimeOver, Unhealthy, Stopping, Paid, At
<1>16. CASE TimesOut(k) \/ WatchAgain(k)
  <2>1. /\ \A j \in Controllers : j # k => ctl'[j] = ctl[j]
        /\ ctl'[k].pc \in {"unhealthy", "watch"}
    BY <1>16, Going DEF TimesOut, WatchAgain
  <2> QED
    BY <1>2, <1>16, <2>1 DEF TimesOut, WatchAgain, Paid, At
<1> QED
  BY <1>3, <1>4, <1>5, <1>6, <1>7, <1>8, <1>9, <1>10, <1>11, <1>12, <1>13,
     <1>14, <1>15, <1>16 DEF Control

\* A step of a helper, the clock or nobody leaves the budget as it was.
LEMMA OthersBudget ==
    ASSUME TypeOK, TypeOK', Unstarted, Budget,
           \/ \E c \in Children : Helper(c)
           \/ Expire
           \/ UNCHANGED vars
    PROVE  Unstarted' /\ Budget'
<1>1. /\ controller' = controller /\ ctl' = ctl /\ generation' = generation
      /\ charged' = charged /\ expired' >= expired
  <2>1. ASSUME NEW c \in Children, Helper(c)
        PROVE  UNCHANGED <<controller, ctl, generation, charged, expired>>
    BY <2>1 DEF Helper, Reports, Overflows, ReaderEnds, Dies
  <2>2. expired \in Nat
    BY DEF TypeOK
  <2> QED
    BY <2>1, <2>2 DEF Expire, vars
<1>2. Ready' \subseteq Ready /\ Unstarted'
  BY <1>1 DEF Ready, Paid, At, Unstarted
<1> QED
  BY <1>1, <1>2, NobodyReady

\* Every incarnation of the helper but the first is paid for from the
\* window's budget, whoever asks for how many of them.
THEOREM RestartsWithinBudget == Spec => []RestartsBudgeted
<1> DEFINE Inv == TypeOK /\ Unstarted /\ Budget
<1>1. Init => Inv
  <2> SUFFICES ASSUME Init PROVE Inv
    OBVIOUS
  <2>1. /\ controller = 0 /\ generation = 0 /\ charged = 0 /\ expired = 0
        /\ \A k \in Controllers : ctl[k].pc = "none"
    <3>1. \A k \in Controllers : ctl[k] = [NewController(FALSE) EXCEPT !.pc = "none"]
      BY Zenon DEF Init
    <3>2. [NewController(FALSE) EXCEPT !.pc = "none"].pc = "none"
      BY NewControllers DEF CtlType
    <3>3. controller = 0 /\ generation = 0 /\ charged = 0 /\ expired = 0
      BY Zenon DEF Init
    <3> QED
      BY <3>1, <3>2, <3>3
  <2>2. Ready = {}
    BY <2>1 DEF Ready, Paid, At
  <2>3. Cardinality(Ready \ {controller}) = 0
    BY <2>2, FS_EmptySet
  <2>4. Allowance \in Nat
    BY DEF Allowance
  <2> QED
    BY <2>1, <2>3, <2>4, InitTypes DEF Unstarted, At, Budget
<1>2. Inv /\ [Next]_vars => Inv'
  <2> SUFFICES ASSUME Inv, [Next]_vars PROVE Inv'
    OBVIOUS
  <2>1. TypeOK'
    BY NextTypes
  <2> QED
    BY <2>1, CallBudget, ControlBudget, OthersBudget DEF Next
<1>3. Inv => RestartsBudgeted
  <2> SUFFICES ASSUME Inv PROVE RestartsBudgeted
    OBVIOUS
  <2>1. /\ Allowance \in Nat /\ charged \in Nat /\ expired \in Nat
        /\ generation \in Nat
    BY Room
  <2>2. Cardinality(Ready) \in Nat
    BY Counting DEF Ready
  <2>3. generation <= 1 + expired + Allowance
    BY <2>1, <2>2 DEF Budget
  <2> QED
    BY <2>3 DEF RestartsBudgeted, Allowance
<1> QED
  BY <1>1, <1>2, <1>3, PTL DEF Spec

-----------------------------------------------------------------------------
(* One child at a time.  Inv says who holds a living child and what a       *)
(* caller on its way to kill one has read; Current, which needs a single    *)
(* caller, says what the state and a returned stop tell of it.  A restart   *)
(* launches a controller on the word of the stop before it, so Inv needs    *)
(* Current when there are restarts.                                         *)

\* there is one caller at a time
Solo == \A p, q \in Callers : p = q

\* a caller that may restart is the only caller
RestartsAlone == \A p, q \in Callers : "restart" \in May[p] => p = q

\* where a controller has a child it published, or is about to; where none
HasChild == {"validate", "watch", "poll", "unhealthy", "stopping", "term"}
Childless == {"loop", "backoff", "spawn", "register", "final"}

OnlyCurrent == \A k \in Controllers : k # controller => ~Alive(k)

\* a living child is the process, or is being registered
ChildHeld ==
    /\ \A c \in Children : Live(c) =>
         \/ c = process
         \/ /\ controller # 0 /\ At(controller, "register")
            /\ c = ctl[controller].proc
    /\ process # 0 => child[process] # "none"

\* what a controller knows of its child
Knows(k) ==
    /\ ctl[k].pc \in Childless => ~Live(process)
    /\ ctl[k].pc \in HasChild => process = ctl[k].proc
    /\ ctl[k].pc \in HasChild \cup {"register"} =>
         ctl[k].proc # 0 /\ child[ctl[k].proc] # "none"
    /\ ctl[k].pc = "terminated" /\ ctl[k].ended => process = 0

\* whom a caller is about to kill: nobody a controller now holds
KillsKnow ==
    \A p \in Callers :
        /\ caller[p].pc # "idle" => caller[p].call \in May[p]
        /\ caller[p].pc = "killing" =>
             /\ caller[p].of \in Children /\ child[caller[p].of] # "none"
             /\ Alive(controller) =>
                  caller[p].of # process /\ caller[p].of # ctl[controller].proc

Held == /\ OnlyCurrent /\ ChildHeld /\ KillsKnow
        /\ controller # 0 => Knows(controller)

\* what the state says of a controller's child
Shown(k) ==
    /\ ctl[k].pc \in {"loop", "backoff", "spawn", "register", "validate",
                      "term"} => ~state.eligible
    /\ ctl[k].pc \in {"register", "validate"} => ctl[k].proc # state.env
    /\ ctl[k].pc \in {"stopping", "final"} => stopEvent
    /\ ctl[k].pc = "term" => \/ state.phase = "quiescing"
                             \/ stopEvent
                             \/ state.env # ctl[k].proc

\* what a stop in progress may rely on
StopKnows(p) ==
    /\ caller[p].pc = "joining" => controller # 0 /\ caller[p].of = controller
    /\ caller[p].pc \in {"killing", "killed"} => ~Alive(controller)
    /\ caller[p].pc = "killing" =>
         process = caller[p].of /\ stopEvent /\ ~state.eligible /\ ~caller[p].stopped
    /\ caller[p].pc \in {"killed", "returned"} /\ caller[p].stopped =>
         ~Alive(controller) /\ ~Live(process)

Current ==
    /\ EligibleIsCurrent
    /\ state.env # 0 => child[state.env] # "none"
    /\ state.phase = "stopped" => ~Alive(controller) /\ ~Live(process)
    /\ controller # 0 => Shown(controller)
    /\ \A p \in Callers : StopKnows(p)

Inv == TypeOK /\ Unstarted /\ Held /\ (Solo => Current)

\* The controller that takes a step is the current one, and runs.
LEMMA Runs ==
    ASSUME TypeOK, OnlyCurrent, NEW k \in Controllers, Control(k)
    PROVE  /\ Alive(k) /\ k = controller
           /\ ctl[k].pc \notin {"none", "done"}
<1>1. ctl[k].pc \notin {"none", "done"}
  BY DEF Control, Turn, Backoff, Spawn, SpawnFails, Register, SessionRefused,
         Publish, Final, Terminate, Terminated, Watch, Exited, RuntimeOver,
         TimesOut, WatchAgain, Unhealthy, Stopping, At
<1> QED
  BY <1>1 DEF Alive, OnlyCurrent

\* When no controller runs and the process is dead, no child lives.
LEMMA NoneLives ==
    ASSUME TypeOK, Held, ~Alive(controller), ~Live(process)
    PROVE  \A c \in Children : ~Live(c)
BY DEF Held, ChildHeld, Alive, At

\* A controller launched when nothing runs and nothing lives holds nothing.
LEMMA LaunchHolds ==
    ASSUME TypeOK, TypeOK', Unstarted, Held, ~Alive(controller), ~Live(process),
           NEW charge \in BOOLEAN, Launches(charge), child' = child,
           \/ process' = 0
           \/ process' = process /\ \A p \in Callers : caller'[p].pc = "idle",
           \A p \in Callers : caller'[p] = caller[p] \/ caller'[p].pc = "idle"
    PROVE  Unstarted' /\ Held'
<1>0. controller \in Nat
  BY DEF TypeOK
<1>1. /\ controller' \in Controllers /\ controller' = controller + 1
      /\ ctl'[controller'].pc = "loop" /\ ctl'[controller'].proc = 0
      /\ \A j \in Controllers : j # controller' => ctl'[j] = ctl[j]
  BY Launching, NewControllers
<1>2. \A c \in Children : ~Live(c)
  BY NoneLives
<1>3. Unstarted'
  BY <1>0, <1>1 DEF Unstarted, At
<1>4. OnlyCurrent'
  <2>1. \A j \in Controllers : ctl[j].pc \in {"none", "done"}
    BY DEF Held, OnlyCurrent, Alive
  <2> QED
    BY <1>1, <2>1 DEF OnlyCurrent, Alive
<1>5. ChildHeld'
  BY <1>2 DEF Held, ChildHeld, Live, TypeOK
<1>6. Knows(controller)'
  BY <1>1, <1>2 DEF Knows, Childless, HasChild, Live, TypeOK
<1>7. KillsKnow'
  <2>1. CASE \A p \in Callers : caller'[p].pc = "idle"
    BY <2>1 DEF KillsKnow
  <2>2. CASE process' = 0
    <3>1. \A p \in Callers : caller[p].pc = "killing" =>
            caller[p].of \in Children /\ child[caller[p].of] # "none"
      BY DEF Held, KillsKnow
    <3>2. \A p \in Callers : caller[p].pc # "idle" => caller[p].call \in May[p]
      BY DEF Held, KillsKnow
    <3> QED
      BY <1>1, <2>2, <3>1, <3>2 DEF KillsKnow
  <2> QED
    BY <2>1, <2>2
<1> QED
  BY <1>3, <1>4, <1>5, <1>6, <1>7 DEF Held

-----------------------------------------------------------------------------
(* Who holds the living child: every step keeps Held. *)

LEMMA CallHeld ==
    ASSUME RestartsAlone, Inv, TypeOK', NEW p \in Callers, Call(p)
    PROVE  Unstarted' /\ Held'
<1>0. TypeOK /\ Unstarted /\ Held
  BY DEF Inv
<1>1. ASSUME UNCHANGED <<controller, ctl, process, child>>,
             \/ caller'[p].pc = "idle"
             \/ /\ caller'[p].pc # "killing"
                /\ caller'[p].call \in May[p],
             \A q \in Callers : q # p => caller'[q] = caller[q]
      PROVE  Unstarted' /\ Held'
  <2>1. Unstarted' /\ OnlyCurrent' /\ ChildHeld'
    BY <1>0, <1>1 DEF Held, Unstarted, OnlyCurrent, ChildHeld, At, Alive, Live
  <2>2. controller # 0 => Knows(controller)'
    BY <1>0, <1>1 DEF Held, Knows, Live
  <2>3. KillsKnow'
    BY <1>0, <1>1 DEF Held, KillsKnow, Alive
  <2> QED
    BY <1>1, <2>1, <2>2, <2>3 DEF Held
<1>2. CASE Start(p)
  <2>1. PICK charge \in BOOLEAN : Launches(charge)
    <3>1. (generation > 0) \in BOOLEAN
      BY <1>0 DEF TypeOK
    <3> QED
      BY <1>2, <3>1, Zenon DEF Start
  <2>2. /\ ~Alive(controller) /\ ~Live(process) /\ process' = 0
        /\ child' = child /\ caller' = caller
    BY <1>2 DEF Start, MayStart
  <2> QED
    BY <1>0, <2>1, <2>2, LaunchHolds
<1>3. ASSUME NEW call \in {"stop", "restart", "close"}, StopBegins(p, call)
      PROVE  Unstarted' /\ Held'
  <2>1. /\ \/ caller'[p].pc = "idle"
           \/ caller'[p].call = call /\ call \in May[p]
        /\ caller'[p].pc = "killing" =>
             ~Alive(controller) /\ Live(process) /\ caller'[p].of = process
        /\ \A q \in Callers : q # p => caller'[q] = caller[q]
    BY <1>0, <1>3, Beginning DEF StopBegins
  <2>2. UNCHANGED <<controller, ctl, child>>
    BY <1>3 DEF StopBegins
  <2>3. \/ process' = process
        \/ ~Alive(controller) /\ ~Live(process) /\ process' = 0
    BY <1>3 DEF StopBegins
  <2>4. Unstarted' /\ OnlyCurrent'
    BY <1>0, <2>2 DEF Held, Unstarted, OnlyCurrent, At, Alive
  <2>5. ChildHeld'
    <3>1. CASE process' = process
      BY <1>0, <2>2, <3>1 DEF Held, ChildHeld, Live, At
    <3>2. CASE ~Alive(controller) /\ ~Live(process) /\ process' = 0
      BY <1>0, <2>2, <3>2, NoneLives DEF ChildHeld, Live
    <3> QED
      BY <2>3, <3>1, <3>2
  <2>6. controller # 0 => Knows(controller)'
    <3>1. CASE process' = process
      BY <1>0, <2>2, <3>1 DEF Held, Knows, Live
    <3>2. CASE ~Alive(controller) /\ process' = 0
      BY <2>2, <3>2 DEF Knows, Alive, Childless, HasChild
    <3> QED
      BY <2>3, <3>1, <3>2
  <2>7. KillsKnow'
    <3>1. caller'[p].pc = "killing" =>
             /\ caller'[p].of \in Children /\ child'[caller'[p].of] # "none"
             /\ ~Alive(controller)'
      BY <1>0, <2>1, <2>2 DEF Live, Alive, TypeOK
    <3>2. Alive(controller)' => Alive(controller) /\ process' = process
      BY <2>2, <2>3 DEF Alive
    <3>3. \A q \in Callers : q # p =>
            /\ caller'[q].pc # "idle" => caller'[q].call \in May[q]
            /\ caller'[q].pc = "killing" =>
                 /\ caller'[q].of \in Children /\ child'[caller'[q].of] # "none"
                 /\ Alive(controller)' => /\ caller'[q].of # process'
                                          /\ caller'[q].of # ctl'[controller'].proc
      BY <1>0, <2>1, <2>2, <3>2 DEF Held, KillsKnow
    <3> QED
      BY <2>1, <3>1, <3>3 DEF KillsKnow
  <2> QED
    BY <2>2, <2>4, <2>5, <2>6, <2>7 DEF Held
<1>4. CASE StopKills(p)
  <2> DEFINE of == caller[p].of
  <2>1. /\ caller'[p].pc = "killed" /\ caller'[p].call = caller[p].call
        /\ Ended(of) \/ Unconfirmed(of)
        /\ \A q \in Callers : q # p => caller'[q] = caller[q]
    BY <1>0, <1>4, Killing
  <2>2. UNCHANGED <<controller, ctl>> /\ caller[p].pc = "killing"
    BY <1>4 DEF StopKills
  <2>3. caller[p].call \in May[p]
    BY <1>0, <2>2 DEF Held, KillsKnow
  <2>4. CASE Unconfirmed(of)
    BY <1>1, <2>1, <2>2, <2>3, <2>4 DEF Unconfirmed
  <2>5. CASE Ended(of)
    <3>1. /\ of \in Children /\ child[of] # "none"
          /\ Alive(controller) => of # process /\ of # ctl[controller].proc
      BY <1>0, <2>2 DEF Held, KillsKnow
    <3>2. /\ child' = [child EXCEPT ![of] = "dead"]
          /\ process' = IF process = of THEN 0 ELSE process
      BY <2>5 DEF Ended
    <3>3. \A c \in Children : /\ c # of => child'[c] = child[c]
                              /\ child'[c] = "none" => child[c] = "none"
                              /\ child'[c] = "live" => child[c] = "live" /\ c # of
      BY <1>0, <3>1, <3>2 DEF TypeOK
    <3>4. Unstarted' /\ OnlyCurrent'
      BY <1>0, <2>2 DEF Held, Unstarted, OnlyCurrent, At, Alive
    <3>5. ChildHeld'
      <4>1. process' # 0 => process' = process /\ process \in Children
        BY <1>0, <3>2 DEF TypeOK
      <4>2. process' # 0 => child'[process'] # "none"
        BY <1>0, <3>3, <4>1 DEF Held, ChildHeld
      <4>3. ASSUME NEW c \in Children, Live(c)'
            PROVE  \/ c = process'
                   \/ controller' # 0 /\ At(controller, "register")' /\ c = ctl'[controller'].proc
        <5>1. Live(c) /\ c # of
          BY <3>3, <4>3 DEF Live
        <5>2. \/ c = process
              \/ controller # 0 /\ At(controller, "register") /\ c = ctl[controller].proc
          BY <1>0, <5>1 DEF Held, ChildHeld
        <5> QED
          BY <2>2, <3>2, <5>1, <5>2 DEF At
      <4> QED
        BY <4>2, <4>3 DEF ChildHeld
    <3>6. controller # 0 => Knows(controller)'
      <4>1. CASE ~Alive(controller)
        BY <2>2, <4>1 DEF Knows, Alive, Childless, HasChild
      <4>2. CASE Alive(controller)
        <5>1. process' = process
          BY <3>1, <3>2, <4>2
        <5>2. ctl[controller].proc \in 0..MaxChildren /\ process \in 0..MaxChildren
          BY <1>0, <4>2 DEF TypeOK, CtlType, Alive
        <5>3. Live(process)' => Live(process)
          BY <3>3, <5>1, <5>2 DEF Live
        <5>4. ctl[controller].proc # 0 =>
                 (child[ctl[controller].proc] # "none" => child'[ctl[controller].proc] # "none")
          BY <3>3, <5>2
        <5>5. controller # 0 => Knows(controller)
          BY <1>0 DEF Held
        <5> QED
          BY <2>2, <5>1, <5>3, <5>4, <5>5 DEF Knows
      <4> QED
        BY <4>1, <4>2
    <3>7. KillsKnow'
      <4>1. ASSUME NEW q \in Callers, q # p, caller'[q].pc = "killing"
            PROVE  /\ caller'[q].of \in Children /\ child'[caller'[q].of] # "none"
                   /\ Alive(controller)' => /\ caller'[q].of # process'
                                            /\ caller'[q].of # ctl'[controller'].proc
        <5>1. caller[q].pc = "killing" /\ caller'[q].of = caller[q].of
          BY <2>1, <4>1
        <5>2. /\ caller[q].of \in Children /\ child[caller[q].of] # "none"
              /\ Alive(controller) => caller[q].of # process /\ caller[q].of # ctl[controller].proc
          BY <1>0, <5>1 DEF Held, KillsKnow
        <5>3. Alive(controller)' => Alive(controller) /\ process' = process
          BY <2>2, <3>1, <3>2 DEF Alive
        <5> QED
          BY <2>2, <3>3, <5>1, <5>2, <5>3
      <4>2. \A q \in Callers : caller'[q].pc # "idle" => caller'[q].call \in May[q]
        BY <1>0, <2>1, <2>3 DEF Held, KillsKnow
      <4> QED
        BY <2>1, <4>1, <4>2 DEF KillsKnow
    <3> QED
      BY <2>2, <3>4, <3>5, <3>6, <3>7 DEF Held
  <2> QED
    BY <2>1, <2>4, <2>5
<1>5. ASSUME NEW phase \in Phases, Returns(p, phase), caller[p].pc # "idle",
             UNCHANGED <<controller, ctl, process, child>>
      PROVE  Unstarted' /\ Held'
  <2>1. caller[p].call \in May[p]
    BY <1>0, <1>5 DEF Held, KillsKnow
  <2> QED
    BY <1>0, <1>1, <1>5, <2>1, Returning
<1>6. CASE StopKilled(p)
  <2>1. state'.phase \in Phases
    BY DEF TypeOK, StateType
  <2> QED
    BY <1>5, <1>6, <2>1 DEF StopKilled
<1>7. CASE StopJoined(p)
  <2>1. state'.phase \in Phases
    BY DEF TypeOK, StateType
  <2> QED
    BY <1>5, <1>7, <2>1 DEF StopJoined
<1>8. CASE StopGivesUp(p)
  <2>1. state.phase \in Phases
    BY <1>0 DEF TypeOK, StateType
  <2> QED
    BY <1>5, <1>8, <2>1 DEF StopGivesUp
<1>9. CASE CloseEnds(p) \/ RestartBegins(p)
  <2>1. /\ caller'[p].pc = "idle"
        /\ \A q \in Callers : q # p => caller'[q] = caller[q]
    <3>1. caller' = [caller EXCEPT ![p] = Idle]
      BY <1>9 DEF CloseEnds, RestartBegins
    <3> QED
      BY <1>0, <3>1 DEF TypeOK, Idle
  <2>2. UNCHANGED <<process, child>>
    BY <1>9 DEF CloseEnds, RestartBegins
  <2>3. CASE UNCHANGED <<controller, ctl>>
    BY <1>1, <2>1, <2>2, <2>3
  <2>4. CASE RestartBegins(p) /\ caller[p].stopped /\ Launches(FALSE)
    <3>1. /\ caller[p].pc = "returned" /\ caller[p].call = "restart"
          /\ caller[p].stopped
      BY <2>4 DEF RestartBegins
    <3>2. Solo
      <4>1. "restart" \in May[p]
        BY <1>0, <3>1 DEF Held, KillsKnow
      <4> QED
        BY <4>1 DEF RestartsAlone, Solo
    <3>3. ~Alive(controller) /\ ~Live(process)
      BY <3>1, <3>2 DEF Inv, Current, StopKnows
    <3>4. \A q \in Callers : caller'[q].pc = "idle"
      BY <2>1, <3>2 DEF Solo
    <3> QED
      BY <1>0, <2>1, <2>2, <2>4, <3>3, <3>4, LaunchHolds
  <2> QED
    BY <1>9, <2>3, <2>4 DEF CloseEnds, RestartBegins
<1> QED
  BY <1>2, <1>3, <1>4, <1>6, <1>7, <1>8, <1>9 DEF Call, StopEnds

\* A controller that goes home, or for another turn, from where no child
\* lives; that goes to terminate the child it has; or that moves with it.
LEMMA Homeward ==
    ASSUME TypeOK, NEW k \in Controllers, Held, k = controller, ctl[k].pc # "none",
           UNCHANGED <<process, child>>,
           \/ ctl'[k].pc = "done"
           \/ ctl'[k].pc \in {"loop", "backoff", "spawn", "final"} /\ ~Live(process)
           \/ /\ ctl'[k].pc \in HasChild /\ ctl'[k].proc = process
              /\ process # 0
    PROVE  Knows(k)'
BY DEF Held, ChildHeld, Knows, Childless, HasChild, Live

LEMMA ControlHeld ==
    ASSUME Inv, TypeOK', NEW k \in Controllers, Control(k)
    PROVE  Unstarted' /\ Held'
<1>0. TypeOK /\ Unstarted /\ Held
  BY DEF Inv
<1>1. /\ Alive(k) /\ k = controller /\ k # 0 /\ Knows(k)
      /\ ctl[k].pc \notin {"none", "done"}
  BY <1>0, Runs DEF Held
<1>2. controller' = controller /\ caller' = caller
  BY DEF Control, Turn, Backoff, Spawn, SpawnFails, Register, SessionRefused,
         Publish, Final, Terminate, Terminated, Watch, Exited, RuntimeOver,
         TimesOut, WatchAgain, Unhealthy, Stopping
<1>3. /\ ctl[k] \in CtlType /\ ctl[k].proc \in 0..MaxChildren
      /\ process \in 0..MaxChildren
  BY <1>0 DEF TypeOK, CtlType
<1>4. ASSUME \A j \in Controllers : j # k => ctl'[j] = ctl[j]
      PROVE  Unstarted' /\ OnlyCurrent'
  BY <1>0, <1>1, <1>2, <1>4 DEF Unstarted, At, Held, OnlyCurrent, Alive
<1>5. ASSUME UNCHANGED <<process, child>>, ~At(k, "register"),
             \A j \in Controllers : j # k => ctl'[j] = ctl[j],
             \/ ctl'[k].pc = "done"
             \/ /\ ctl'[k].pc \in {"loop", "backoff", "spawn", "final"}
                /\ ctl'[k].proc \in {0, ctl[k].proc} /\ ~Live(process)
             \/ /\ ctl'[k].pc \in HasChild /\ ctl'[k].proc = process
                /\ process # 0
      PROVE  Unstarted' /\ Held'
  <2>1. Knows(k)'
    BY <1>0, <1>1, <1>5, Homeward
  <2>2. ChildHeld'
    BY <1>0, <1>1, <1>2, <1>5 DEF Held, ChildHeld, Live, At
  <2>3. KillsKnow'
    <3>1. Alive(k)' => ctl'[k].proc \in {0, process, ctl[k].proc}
      BY <1>5 DEF Alive
    <3>2. ASSUME NEW p \in Callers, caller[p].pc = "killing"
          PROVE  /\ caller[p].of \in Children /\ child[caller[p].of] # "none"
                 /\ caller[p].of # process /\ caller[p].of # 0
                 /\ caller[p].of # ctl[k].proc
      BY <1>0, <1>1, <3>2 DEF Held, KillsKnow
    <3> QED
      BY <1>0, <1>1, <1>2, <1>5, <3>1, <3>2 DEF Held, KillsKnow
  <2> QED
    BY <1>1, <1>2, <1>4, <1>5, <2>1, <2>2, <2>3 DEF Held
<1> USE DEF Pcs
<1>6. CASE Turn(k)
  <2>1. ~Live(process) /\ ~At(k, "register")
    BY <1>1, <1>6 DEF Turn, At, Knows, Childless
  <2>2. /\ ctl'[k].pc \in {"final", "done", "backoff", "spawn"}
        /\ ctl'[k].pc # "done" => ctl'[k].proc = ctl[k].proc
        /\ \A j \in Controllers : j # k => ctl'[j] = ctl[j]
    BY <1>0, <1>6, Going DEF Turn
  <2> QED
    BY <1>5, <1>6, <2>1, <2>2 DEF Turn
<1>7. CASE Backoff(k)
  <2>1. ~Live(process) /\ ~At(k, "register")
    BY <1>1, <1>7 DEF Backoff, At, Knows, Childless
  <2>2. /\ ctl'[k].pc \in {"final", "spawn"} /\ ctl'[k].proc = ctl[k].proc
        /\ \A j \in Controllers : j # k => ctl'[j] = ctl[j]
    BY <1>0, <1>7, Going DEF Backoff
  <2> QED
    BY <1>5, <1>7, <2>1, <2>2 DEF Backoff
<1>8. CASE Spawn(k)
  <2>1. ~Live(process) /\ ~At(k, "register")
    BY <1>1, <1>8 DEF Spawn, At, Knows, Childless
  <2>2. PICK c \in Children :
          /\ child[c] = "none" /\ child' = [child EXCEPT ![c] = "live"]
          /\ ctl'[k].pc = "register" /\ ctl'[k].proc = c
          /\ \A j \in Controllers : j # k => ctl'[j] = ctl[j]
    BY <1>0, <1>8, Spawning
  <2>3. process' = process /\ c # process
    BY <1>0, <1>8, <2>2 DEF Spawn, Held, ChildHeld
  <2>4. \A d \in Children : /\ d # c => child'[d] = child[d]
                            /\ child'[c] = "live"
    BY <1>0, <2>2 DEF TypeOK
  <2>5. \A d \in Children : ~Live(d)
    BY <1>0, <1>1, <2>1 DEF Held, ChildHeld
  <2>6. ChildHeld'
    BY <1>0, <1>1, <1>2, <1>3, <2>2, <2>3, <2>4, <2>5 DEF Held, ChildHeld, Live, At
  <2>7. Knows(k)'
    BY <1>3, <2>1, <2>2, <2>3, <2>4 DEF Knows, Childless, HasChild, Live
  <2>8. KillsKnow'
    <3>1. ASSUME NEW p \in Callers, caller[p].pc = "killing"
          PROVE  /\ caller[p].of \in Children /\ child'[caller[p].of] # "none"
                 /\ caller[p].of # process /\ caller[p].of # c
      BY <1>0, <1>1, <2>2, <2>4, <3>1 DEF Held, KillsKnow
    <3> QED
      BY <1>0, <1>1, <1>2, <2>2, <2>3, <3>1 DEF Held, KillsKnow
  <2> QED
    BY <1>1, <1>2, <1>4, <2>2, <2>6, <2>7, <2>8 DEF Held
<1>9. CASE SpawnFails(k)
  <2>1. ~Live(process) /\ ~At(k, "register")
    BY <1>1, <1>9 DEF SpawnFails, At, Knows, Childless
  <2>2. /\ \/ ctl'[k].pc = "done"
           \/ ctl'[k].pc = "loop" /\ ctl'[k].proc = 0
        /\ \A j \in Controllers : j # k => ctl'[j] = ctl[j]
    BY <1>0, <1>9, Retrying DEF SpawnFails
  <2> QED
    BY <1>5, <1>9, <2>1, <2>2 DEF SpawnFails
<1>10. CASE Register(k) \/ Publish(k)
  <2>1. /\ ctl'[k].pc \in {"validate", "watch"}
        /\ ctl'[k].proc = ctl[k].proc
        /\ \A j \in Controllers : j # k => ctl'[j] = ctl[j]
    BY <1>0, <1>10, Going DEF Register, Publish
  <2>2. /\ ctl[k].pc \in {"register", "validate"} /\ process' = ctl[k].proc
        /\ child' = child
    BY <1>10 DEF Register, Publish, At
  <2>3. ctl[k].proc # 0 /\ child[ctl[k].proc] # "none"
    BY <1>1, <2>2 DEF Knows, HasChild
  <2>4. ChildHeld'
    <3>1. ASSUME NEW c \in Children, Live(c)
          PROVE  c = ctl[k].proc
      BY <1>0, <1>1, <2>2, <3>1 DEF Held, ChildHeld, Knows, Childless, HasChild, At
    <3> QED
      BY <2>2, <2>3, <3>1 DEF ChildHeld, Live
  <2>5. Knows(k)'
    BY <2>1, <2>2, <2>3 DEF Knows, Childless, HasChild
  <2>6. KillsKnow'
    BY <1>0, <1>1, <1>2, <2>1, <2>2 DEF Held, KillsKnow
  <2> QED
    BY <1>1, <1>2, <1>4, <2>1, <2>4, <2>5, <2>6 DEF Held
<1>11. CASE SessionRefused(k) \/ RuntimeOver(k) \/ Unhealthy(k) \/ Stopping(k)
  <2>1. /\ ctl[k].pc \in HasChild /\ ~At(k, "register")
        /\ UNCHANGED <<process, child>>
    BY <1>11 DEF SessionRefused, RuntimeOver, Unhealthy, Stopping, At, HasChild
  <2>2. /\ ctl'[k].pc = "term" /\ ctl'[k].proc = ctl[k].proc
        /\ \A j \in Controllers : j # k => ctl'[j] = ctl[j]
    BY <1>0, <1>3, <1>11, Terminating
       DEF SessionRefused, RuntimeOver, Unhealthy, Stopping
  <2>3. process = ctl[k].proc /\ process # 0 /\ ctl'[k].pc \in HasChild
    BY <1>1, <2>1, <2>2 DEF Knows, HasChild
  <2> QED
    BY <1>5, <2>1, <2>2, <2>3
<1>12. CASE Final(k)
  <2>1. ~Live(process) /\ ~At(k, "register") /\ UNCHANGED <<process, child>>
    BY <1>1, <1>12 DEF Final, At, Knows, Childless
  <2>2. /\ \/ ctl'[k].pc = "done"
           \/ ctl'[k].pc = "term" /\ ctl'[k].proc = process /\ process # 0
        /\ \A j \in Controllers : j # k => ctl'[j] = ctl[j]
    BY <1>0, <1>3, <1>12, Going, Terminating DEF Final
  <2> QED
    BY <1>5, <2>1, <2>2 DEF HasChild
<1>13. CASE Terminate(k)
  <2>1. /\ ctl'[k].pc = "terminated"
        /\ \/ Ended(ctl[k].proc)
           \/ Unconfirmed(ctl[k].proc) /\ ~ctl'[k].ended
        /\ \A j \in Controllers : j # k => ctl'[j] = ctl[j]
    BY <1>0, <1>13, TerminateEnds
  <2>2. process = ctl[k].proc /\ process \in Children /\ child[process] # "none"
    BY <1>1, <1>3, <1>13 DEF Terminate, At, Knows, HasChild
  <2>3. ctl'[k].proc = process
    BY <1>0, <1>3, <1>13, <2>2 DEF Terminate, TypeOK, CtlType
  <2>4. \A c \in Children : /\ child'[c] = "none" => child[c] = "none"
                            /\ Live(c)' => Live(c)
    BY <1>0, <2>1, <2>2 DEF Ended, Unconfirmed, TypeOK, Live
  <2>5. \/ process' = 0 /\ child' = [child EXCEPT ![process] = "dead"]
        \/ process' = process /\ child' = child /\ ~ctl'[k].ended
    BY <2>1, <2>2 DEF Ended, Unconfirmed
  <2>6. ChildHeld'
    <3>1. \A c \in Children : Live(c) => c = process
      BY <1>0, <1>1, <1>13 DEF Held, ChildHeld, Terminate, At
    <3>2. CASE process' = 0 /\ child' = [child EXCEPT ![process] = "dead"]
      <4>1. \A c \in Children : ~Live(c)'
        BY <1>0, <2>2, <2>4, <3>1, <3>2 DEF Live, TypeOK
      <4> QED
        BY <3>2, <4>1 DEF ChildHeld
    <3>3. CASE process' = process /\ child' = child
      BY <2>2, <2>4, <3>1, <3>3 DEF ChildHeld
    <3> QED
      BY <2>5, <3>2, <3>3
  <2>7. Knows(k)'
    BY <2>1, <2>5 DEF Knows, Childless, HasChild
  <2>8. KillsKnow'
    <3>1. ASSUME NEW p \in Callers, caller[p].pc = "killing"
          PROVE  /\ caller[p].of \in Children /\ child'[caller[p].of] # "none"
                 /\ caller[p].of # process /\ caller[p].of # 0
      BY <1>0, <1>1, <2>4, <3>1 DEF Held, KillsKnow
    <3> QED
      BY <1>0, <1>1, <1>2, <2>3, <2>5, <3>1 DEF Held, KillsKnow
  <2> QED
    BY <1>1, <1>2, <1>4, <2>1, <2>6, <2>7, <2>8 DEF Held
<1>14. CASE Terminated(k)
  <2>1. ~At(k, "register") /\ UNCHANGED <<process, child>>
    BY <1>14 DEF Terminated, At
  <2>2. /\ \/ ctl'[k].pc = "done"
           \/ ctl'[k].pc = "loop" /\ ctl'[k].proc = 0 /\ ctl[k].ended
        /\ \A j \in Controllers : j # k => ctl'[j] = ctl[j]
    BY <1>0, <1>14, Going, Retrying DEF Terminated
  <2>3. ctl[k].ended => ~Live(process)
    BY <1>1, <1>14 DEF Terminated, At, Knows, Live
  <2> QED
    BY <1>5, <2>1, <2>2, <2>3
<1>15. CASE Watch(k)
  <2>1. /\ ctl'[k].pc \in {"stopping", "unhealthy", "poll"}
        /\ ctl'[k].proc = ctl[k].proc
        /\ \A j \in Controllers : j # k => ctl'[j] = ctl[j]
    BY <1>0, <1>15, Watching
  <2>2. /\ UNCHANGED <<process, child>> /\ ~At(k, "register")
        /\ process = ctl[k].proc /\ process # 0
    BY <1>1, <1>15 DEF Watch, At, Knows, HasChild
  <2> QED
    BY <1>5, <2>1, <2>2 DEF HasChild
<1>16. CASE Exited(k)
  <2>1. ~At(k, "register") /\ UNCHANGED <<process, child>> /\ ~Live(process)
    BY <1>1, <1>16 DEF Exited, At, Knows, HasChild
  <2>2. /\ \/ ctl'[k].pc = "done"
           \/ ctl'[k].pc = "loop" /\ ctl'[k].proc = 0
        /\ \A j \in Controllers : j # k => ctl'[j] = ctl[j]
    BY <1>0, <1>16, Retrying DEF Exited
  <2> QED
    BY <1>5, <2>1, <2>2
<1>17. CASE TimesOut(k) \/ WatchAgain(k)
  <2>1. /\ ctl'[k].pc \in {"unhealthy", "watch"}
        /\ ctl'[k].proc = ctl[k].proc
        /\ \A j \in Controllers : j # k => ctl'[j] = ctl[j]
    BY <1>0, <1>17, Going DEF TimesOut, WatchAgain
  <2>2. /\ UNCHANGED <<process, child>> /\ ~At(k, "register")
        /\ process = ctl[k].proc /\ process # 0
    BY <1>1, <1>17 DEF TimesOut, WatchAgain, At, Knows, HasChild
  <2> QED
    BY <1>5, <2>1, <2>2 DEF HasChild
<1> QED
  BY <1>6, <1>7, <1>8, <1>9, <1>10, <1>11, <1>12, <1>13, <1>14, <1>15, <1>16,
     <1>17 DEF Control

\* A step of a helper, the clock or nobody brings no child to life.
LEMMA OthersHeld ==
    ASSUME TypeOK, Unstarted, Held,
           \/ \E c \in Children : Helper(c)
           \/ Expire
           \/ UNCHANGED vars
    PROVE  Unstarted' /\ Held'
<1>1. UNCHANGED <<controller, ctl, process, caller>>
  <2>1. ASSUME NEW c \in Children, Helper(c)
        PROVE  UNCHANGED <<controller, ctl, process, caller>>
    BY <2>1 DEF Helper, Reports, Overflows, ReaderEnds, Dies
  <2> QED
    BY <2>1 DEF Expire, vars
<1>2. \A c \in Children : /\ child'[c] = "none" <=> child[c] = "none"
                          /\ Live(c)' => Live(c)
  <2>1. ASSUME NEW c \in Children, Dies(c)
        PROVE  \A d \in Children : /\ child'[d] = "none" <=> child[d] = "none"
                                   /\ Live(d)' => Live(d)
    BY <2>1 DEF Dies, Live, TypeOK
  <2>2. CASE child' = child
    BY <2>2 DEF Live
  <2> QED
    BY <2>1, <2>2 DEF Helper, Reports, Overflows, ReaderEnds, Expire, vars
<1>3. Unstarted' /\ OnlyCurrent'
  BY <1>1 DEF Unstarted, At, Held, OnlyCurrent, Alive
<1>4. ChildHeld'
  <2>1. process # 0 => process \in Children
    BY DEF TypeOK
  <2> QED
    BY <1>1, <1>2, <2>1 DEF Held, ChildHeld, At
<1>5. KillsKnow'
  BY <1>1, <1>2 DEF Held, KillsKnow, Alive
<1>6. controller # 0 => Knows(controller)'
  <2>1. controller # 0 => /\ ctl[controller].proc \in 0..MaxChildren
                          /\ Knows(controller)
    BY DEF TypeOK, CtlType, Held
  <2>2. Live(process)' => Live(process)
    <3>1. process # 0 => process \in Children
      BY DEF TypeOK
    <3> QED
      BY <1>1, <1>2, <3>1 DEF Live
  <2> QED
    BY <1>1, <1>2, <2>1, <2>2 DEF Knows
<1> QED
  BY <1>1, <1>3, <1>4, <1>5, <1>6 DEF Held

-----------------------------------------------------------------------------
(* What the state says of the child, for one caller at a time. *)

LEMMA CallCurrent ==
    ASSUME Solo, Inv, TypeOK', Held', NEW p \in Callers, Call(p)
    PROVE  Current'
<1>0. TypeOK /\ Held /\ Current
  BY DEF Inv
<1>s. \A q \in Callers : q = p
  BY DEF Solo
<1>k. controller # 0 => controller \in Controllers /\ Shown(controller)
  BY <1>0 DEF TypeOK, Current
<1>1. ASSUME ~Alive(controller), UNCHANGED <<controller, ctl, process, child>>,
             state'.env = state.env,
             \/ state'.eligible = FALSE
             \/ state'.eligible = state.eligible,
             state'.phase = "stopped" => ~Live(process),
             caller'[p].pc \in {"idle", "killed", "returned"},
             caller'[p].pc # "idle" /\ caller'[p].stopped => ~Live(process)
      PROVE  Current'
  <2>1. ~Alive(controller)' /\ (Live(process)' <=> Live(process))
    BY <1>1 DEF Alive, Live
  <2>2. EligibleIsCurrent'
    BY <1>0, <1>1 DEF Current, EligibleIsCurrent
  <2>3. state'.env # 0 => child'[state'.env] # "none"
    BY <1>0, <1>1 DEF Current
  <2>4. controller' # 0 => Shown(controller)'
    BY <1>1 DEF Shown, Alive
  <2>5. StopKnows(p)'
    BY <1>1, <2>1 DEF StopKnows
  <2> QED
    BY <1>s, <1>1, <2>1, <2>2, <2>3, <2>4, <2>5 DEF Current
<1>2. ASSUME NEW charge \in BOOLEAN, Launches(charge), ~Live(process),
             process' \in {0, process}, child' = child,
             caller'[p].pc = "idle"
      PROVE  Current'
  <2>1. /\ controller' \in Controllers /\ ctl'[controller'].pc = "loop"
        /\ state'.phase = "starting" /\ state'.env = 0
        /\ state'.eligible = FALSE
    BY <1>0, <1>2, Launching, NewControllers
  <2>2. EligibleIsCurrent' /\ Shown(controller)'
    BY <2>1 DEF EligibleIsCurrent, Shown
  <2>3. StopKnows(p)'
    BY <1>2 DEF StopKnows
  <2> QED
    BY <1>s, <2>1, <2>2, <2>3 DEF Current
<1>3. CASE Start(p)
  <2>1. PICK charge \in BOOLEAN : Launches(charge)
    <3>1. (generation > 0) \in BOOLEAN
      BY <1>0 DEF TypeOK
    <3> QED
      BY <1>3, <3>1, Zenon DEF Start
  <2>2. /\ ~Live(process) /\ process' = 0 /\ child' = child
        /\ caller'[p].pc = "idle"
    BY <1>3 DEF Start, MayStart
  <2> QED
    BY <1>2, <2>1, <2>2
<1>4. ASSUME NEW call \in {"stop", "restart", "close"}, StopBegins(p, call)
      PROVE  Current'
  <2>1. /\ caller'[p].pc \in {"idle", "joining", "killing", "returned"}
        /\ caller'[p].pc = "joining" =>
             Alive(controller) /\ caller'[p].of = controller
        /\ caller'[p].pc = "killing" =>
             /\ ~Alive(controller) /\ Live(process)
             /\ caller'[p].of = process /\ ~caller'[p].stopped
        /\ caller'[p].pc = "returned" => ~Alive(controller) /\ ~Live(process)
    BY <1>0, <1>4, Beginning
  <2>2. UNCHANGED <<controller, ctl, child>>
    BY <1>4 DEF StopBegins
  <2>3. state'.env = state.env /\ state'.eligible = FALSE
    BY <1>0, <1>4, Downs DEF StopBegins, Phases
  <2>4. EligibleIsCurrent'
    BY <2>3 DEF EligibleIsCurrent
  <2>5. state'.env # 0 => child'[state'.env] # "none"
    BY <1>0, <2>2, <2>3 DEF Current
  <2>6. CASE ~Alive(controller) /\ ~Live(process)
    <3>1. process' = 0 /\ caller'[p].pc \in {"idle", "returned"}
      BY <1>4, <2>1, <2>6 DEF StopBegins
    <3>2. ~Live(process)' /\ ~Alive(controller)'
      BY <2>2, <2>6, <3>1 DEF Live, Alive
    <3>3. controller' # 0 => Shown(controller)'
      BY <3>2 DEF Shown, Alive
    <3>4. StopKnows(p)'
      BY <3>1, <3>2 DEF StopKnows
    <3> QED
      BY <1>s, <2>4, <2>5, <3>2, <3>3, <3>4 DEF Current
  <2>7. CASE Alive(controller) \/ Live(process)
    <3>1. process' = process /\ stopEvent' = TRUE /\ state' = Down("quiescing")
      BY <1>4, <2>7 DEF StopBegins
    <3>2. state'.phase = "quiescing"
      BY <1>0, <3>1, Downs DEF Phases
    <3>3. controller' # 0 => Shown(controller)'
      BY <1>k, <2>2, <2>3, <3>1, <3>2 DEF Shown
    <3>4. StopKnows(p)'
      BY <2>1, <2>2, <2>3, <2>7, <3>1 DEF StopKnows, Alive
    <3> QED
      BY <1>s, <2>4, <2>5, <3>2, <3>3, <3>4 DEF Current
  <2> QED
    BY <2>6, <2>7
<1>5. CASE StopKills(p)
  <2> DEFINE of == caller[p].of
  <2>1. /\ caller'[p].pc = "killed"
        /\ \/ Ended(of)
           \/ Unconfirmed(of) /\ caller'[p].stopped = caller[p].stopped
    BY <1>0, <1>5, Killing
  <2>2. /\ ~Alive(controller) /\ process = of /\ ~state.eligible
        /\ ~caller[p].stopped
    BY <1>0, <1>5 DEF Current, StopKnows, StopKills
  <2>3. UNCHANGED <<controller, ctl, state, stopEvent>>
    BY <1>5 DEF StopKills
  <2>4. CASE Unconfirmed(of) /\ caller'[p].stopped = caller[p].stopped
    <3>1. state'.phase = "stopped" => ~Live(process)
      BY <1>0, <2>3 DEF Current
    <3> QED
      BY <1>1, <2>1, <2>2, <2>3, <2>4, <3>1 DEF Unconfirmed
  <2>5. CASE Ended(of)
    <3>1. process' = 0 /\ child' = [child EXCEPT ![of] = "dead"]
      BY <2>2, <2>5 DEF Ended
    <3>2. ~Live(process)' /\ ~Alive(controller)'
      BY <2>2, <2>3, <3>1 DEF Live, Alive
    <3>3. state.env # 0 => child'[state.env] # "none"
      BY <1>0, <3>1 DEF Current, TypeOK, StateType
    <3>4. EligibleIsCurrent'
      BY <2>2, <2>3 DEF EligibleIsCurrent
    <3>5. controller' # 0 => Shown(controller)'
      BY <3>2 DEF Shown, Alive
    <3>6. StopKnows(p)'
      BY <2>1, <3>2 DEF StopKnows
    <3> QED
      BY <1>s, <2>3, <3>2, <3>3, <3>4, <3>5, <3>6 DEF Current
  <2> QED
    BY <2>1, <2>4, <2>5
<1>6. CASE StopKilled(p)
  <2>1. caller[p].stopped => ~Live(process)
    BY <1>0, <1>6 DEF Current, StopKnows, StopKilled
  <2>2. ~Alive(controller) /\ UNCHANGED <<controller, ctl, process, child>>
    BY <1>0, <1>6 DEF Current, StopKnows, StopKilled
  <2>3. /\ state'.env = state.env /\ state'.eligible = FALSE
        /\ state'.phase \in Phases
        /\ state'.phase = "stopped" <=> caller[p].stopped
    BY <1>0, <1>6, Downs DEF StopKilled, Phases
  <2>4. /\ caller'[p].pc \in {"idle", "returned"}
        /\ caller'[p].pc # "idle" /\ caller'[p].stopped => state'.phase = "stopped"
    BY <1>0, <1>6, <2>3, Returning DEF StopKilled
  <2> QED
    BY <1>1, <2>1, <2>2, <2>3, <2>4
<1>7. CASE StopJoined(p)
  <2>1. ~Alive(controller) /\ UNCHANGED <<controller, ctl, process, child>>
    BY <1>0, <1>7 DEF Current, StopKnows, StopJoined
  <2>2. /\ state'.env = state.env
        /\ state'.eligible = FALSE \/ state'.eligible = state.eligible
        /\ state'.phase \in Phases
        /\ state'.phase = "stopped" => ~Live(process)
    <3>1. state.phase \in Phases
      BY <1>0 DEF TypeOK, StateType
    <3>2. \/ Live(process) /\ state' = Down("degraded")
          \/ ~Live(process) /\ state' \in {Down("stopped"), state}
      BY <1>7 DEF StopJoined
    <3> QED
      BY <1>0, <3>1, <3>2, Downs DEF Phases
  <2>3. /\ caller'[p].pc \in {"idle", "returned"}
        /\ caller'[p].pc # "idle" /\ caller'[p].stopped => state'.phase = "stopped"
    BY <1>0, <1>7, <2>2, Returning DEF StopJoined
  <2> QED
    BY <1>1, <2>1, <2>2, <2>3
<1>8. ASSUME UNCHANGED <<controller, ctl, process, child, state, stopEvent>>,
             StopKnows(p)'
      PROVE  Current'
  BY <1>0, <1>s, <1>8 DEF Current, EligibleIsCurrent, Shown, Alive, Live
<1>9. CASE StopGivesUp(p)
  <2>1. state.phase # "stopped"
    BY <1>0, <1>9 DEF StopGivesUp, Current, StopKnows
  <2>2. state.phase \in Phases
    BY <1>0 DEF TypeOK, StateType
  <2>3. /\ caller'[p].pc \in {"idle", "returned"}
        /\ caller'[p].pc # "idle" => ~caller'[p].stopped
    BY <1>0, <1>9, <2>1, <2>2, Returning DEF StopGivesUp
  <2>4. StopKnows(p)'
    BY <2>3 DEF StopKnows
  <2> QED
    BY <1>8, <1>9, <2>4 DEF StopGivesUp
<1>10. CASE CloseEnds(p) \/ RestartBegins(p)
  <2>1. /\ caller'[p].pc = "idle" /\ StopKnows(p)'
        /\ UNCHANGED <<process, child>>
    <3>1. caller' = [caller EXCEPT ![p] = Idle] /\ UNCHANGED <<process, child>>
      BY <1>10 DEF CloseEnds, RestartBegins
    <3> QED
      BY <1>0, <3>1 DEF TypeOK, Idle, StopKnows
  <2>2. RestartBegins(p) /\ caller[p].stopped => ~Alive(controller) /\ ~Live(process)
    BY <1>0 DEF RestartBegins, Current, StopKnows
  <2>3. CASE UNCHANGED <<controller, ctl, state, stopEvent>>
    BY <1>8, <2>1, <2>3
  <2>4. CASE /\ RestartBegins(p) /\ caller[p].stopped /\ state' = Down("degraded")
             /\ UNCHANGED <<controller, ctl, stopEvent>>
    <3>1. /\ state'.env = state.env /\ state'.eligible = FALSE
          /\ state'.phase = "degraded"
      BY <1>0, <2>4, Downs DEF Phases
    <3> QED
      BY <1>1, <2>1, <2>2, <2>4, <3>1
  <2>5. CASE RestartBegins(p) /\ caller[p].stopped /\ Launches(FALSE)
    BY <1>2, <2>1, <2>2, <2>5
  <2> QED
    BY <1>10, <2>3, <2>4, <2>5 DEF CloseEnds, RestartBegins
<1> QED
  BY <1>3, <1>4, <1>5, <1>6, <1>7, <1>9, <1>10 DEF Call, StopEnds

\* A running controller, with no stop past its wait for it: the state may
\* be set down, and the child kept.
LEMMA Busy ==
    ASSUME Solo, Inv, NEW k \in Controllers, k = controller, Alive(k)
    PROVE  /\ state.phase # "stopped" /\ Shown(k)
           /\ \A p \in Callers :
                /\ caller[p].pc \notin {"killing", "killed"}
                /\ caller[p].pc = "returned" => ~caller[p].stopped
                /\ caller[p].pc = "joining" => caller[p].of = controller
BY DEF Inv, Current, StopKnows

LEMMA ControlCurrent ==
    ASSUME Solo, Inv, TypeOK', Held', NEW k \in Controllers, Control(k)
    PROVE  Current'
<1>0. TypeOK /\ Held /\ Current
  BY DEF Inv
<1>1. /\ Alive(k) /\ k = controller /\ k # 0 /\ Knows(k)
      /\ ctl[k].pc \notin {"none", "done"}
  BY <1>0, Runs DEF Held
<1>2. controller' = controller /\ caller' = caller /\ stopEvent' = stopEvent
  BY DEF Control, Turn, Backoff, Spawn, SpawnFails, Register, SessionRefused,
         Publish, Final, Terminate, Terminated, Watch, Exited, RuntimeOver,
         TimesOut, WatchAgain, Unhealthy, Stopping
<1>3. /\ ctl[k] \in CtlType /\ ctl[k].proc \in 0..MaxChildren
      /\ process \in 0..MaxChildren /\ state \in StateType
  BY <1>0 DEF TypeOK, CtlType
<1>4. /\ state.phase # "stopped" /\ Shown(k)
      /\ \A p \in Callers :
           /\ caller[p].pc \notin {"killing", "killed"}
           /\ caller[p].pc = "returned" => ~caller[p].stopped
           /\ caller[p].pc = "joining" => caller[p].of = controller
  BY <1>1, Busy
<1>5. \A p \in Callers : StopKnows(p)'
  BY <1>1, <1>2, <1>4 DEF StopKnows
<1>6. ASSUME state' = state,
             UNCHANGED <<process, child>> \/ ~state.eligible,
             \A c \in Children : child'[c] = "none" => child[c] = "none",
             Shown(k)'
      PROVE  Current'
  <2>1. EligibleIsCurrent'
    BY <1>0, <1>6 DEF Current, EligibleIsCurrent
  <2>2. state'.env # 0 => child'[state'.env] # "none"
    BY <1>0, <1>3, <1>6 DEF Current, StateType
  <2> QED
    BY <1>1, <1>2, <1>4, <1>5, <1>6, <2>1, <2>2 DEF Current
<1>7. ASSUME NEW phase \in Phases, state' = Down(phase), child' = child,
             phase = "stopped" => ctl'[k].pc = "done" /\ ~Live(process)',
             Shown(k)'
      PROVE  Current'
  <2>1. /\ state'.phase = phase /\ state'.env = state.env
        /\ state'.eligible = FALSE
    BY <1>0, <1>7, Downs
  <2>2. EligibleIsCurrent' /\ (state'.env # 0 => child'[state'.env] # "none")
    BY <1>0, <1>7, <2>1 DEF EligibleIsCurrent, Current
  <2>3. state'.phase = "stopped" => ~Alive(controller)' /\ ~Live(process)'
    BY <1>1, <1>2, <1>7, <2>1 DEF Alive
  <2> QED
    BY <1>1, <1>2, <1>5, <1>7, <2>2, <2>3 DEF Current
<1>d. \A phase \in Phases : Down(phase).phase = phase /\ Down(phase).env = state.env
                            /\ Down(phase).eligible = FALSE
  BY <1>0, Downs
<1>p. {"degraded", "quiescing", "stopped"} \subseteq Phases
  BY DEF Phases
<1> USE DEF Pcs
<1>8. CASE Turn(k)
  <2>1. ~state.eligible /\ UNCHANGED <<process, child>>
    BY <1>4, <1>8 DEF Turn, At, Shown
  <2>2. CASE stopEvent /\ Goes(k, "final") /\ state' = state
    <3>1. Shown(k)'
      BY <1>0, <1>2, <2>2, Going DEF Shown
    <3> QED
      BY <1>6, <2>1, <2>2, <3>1
  <2>3. CASE Goes(k, "done") /\ state' = Down("degraded")
    <3>1. Shown(k)'
      BY <1>0, <2>3, Going DEF Shown
    <3> QED
      BY <1>7, <1>p, <2>1, <2>3, <3>1
  <2>4. CASE /\ Goes(k, IF ctl[k].retry THEN "backoff" ELSE "spawn")
             /\ state' = state
    <3>1. Shown(k)'
      BY <1>0, <2>1, <2>4, Going DEF Shown
    <3> QED
      BY <1>6, <2>1, <2>4, <3>1
  <2> QED
    BY <1>8, <2>2, <2>3, <2>4 DEF Turn
<1>9. CASE Backoff(k)
  <2>1. ~state.eligible /\ UNCHANGED <<process, child, state>>
    BY <1>4, <1>9 DEF Backoff, At, Shown
  <2>2. \/ ctl'[k].pc = "final" /\ stopEvent
        \/ ctl'[k].pc = "spawn"
    BY <1>0, <1>9, Going DEF Backoff
  <2>3. Shown(k)'
    BY <1>2, <2>1, <2>2 DEF Shown
  <2> QED
    BY <1>6, <2>1, <2>3
<1>10. CASE Spawn(k)
  <2>1. ~state.eligible /\ UNCHANGED <<process, state>>
    BY <1>4, <1>10 DEF Spawn, At, Shown
  <2>2. PICK c \in Children :
          /\ child[c] = "none" /\ child' = [child EXCEPT ![c] = "live"]
          /\ ctl'[k].pc = "register" /\ ctl'[k].proc = c
    BY <1>0, <1>10, Spawning
  <2>3. c # state.env
    BY <1>0, <2>2 DEF Current
  <2>4. Shown(k)'
    BY <2>1, <2>2, <2>3 DEF Shown
  <2>5. \A d \in Children : child'[d] = "none" => child[d] = "none"
    BY <1>0, <2>2 DEF TypeOK
  <2> QED
    BY <1>6, <2>1, <2>4, <2>5
<1>11. CASE SpawnFails(k) \/ Exited(k)
  <2>1. state' = Down("degraded") /\ UNCHANGED <<process, child>>
    BY <1>11 DEF SpawnFails, Exited
  <2>2. ctl'[k].pc \in {"loop", "done"}
    BY <1>0, <1>11, Retrying DEF SpawnFails, Exited
  <2>3. Shown(k)'
    BY <1>d, <1>p, <2>1, <2>2 DEF Shown
  <2> QED
    BY <1>7, <1>p, <2>1, <2>3
<1>12. CASE Register(k)
  <2>1. /\ ~state.eligible /\ ctl[k].proc # state.env
        /\ UNCHANGED <<child, state>>
    BY <1>4, <1>12 DEF Register, At, Shown
  <2>2. ctl'[k].pc = "validate" /\ ctl'[k].proc = ctl[k].proc
    BY <1>0, <1>12, Going DEF Register
  <2>3. Shown(k)'
    BY <2>1, <2>2 DEF Shown
  <2> QED
    BY <1>6, <2>1, <2>3
<1>13. CASE SessionRefused(k)
  <2>1. /\ ~state.eligible /\ ctl[k].proc # state.env
        /\ UNCHANGED <<process, child, state>>
    BY <1>4, <1>13 DEF SessionRefused, At, Shown
  <2>2. ctl'[k].pc = "term" /\ ctl'[k].proc = ctl[k].proc
    BY <1>0, <1>3, <1>13, Terminating DEF SessionRefused
  <2>3. Shown(k)'
    BY <2>1, <2>2 DEF Shown
  <2> QED
    BY <1>6, <2>1, <2>3
<1>14. CASE Publish(k)
  <2>1. /\ state' = Starting(ctl[k].proc) /\ child' = child
        /\ ctl[k].pc = "validate"
    BY <1>14 DEF Publish, At
  <2>2. /\ state'.phase = "starting" /\ state'.env = ctl[k].proc
        /\ state'.eligible = FALSE
    BY <2>1 DEF Starting
  <2>3. child[ctl[k].proc] # "none"
    BY <1>1, <2>1 DEF Knows, HasChild
  <2>4. ctl'[k].pc = "watch"
    BY <1>0, <1>14, Going DEF Publish
  <2>5. Shown(k)' /\ EligibleIsCurrent'
    BY <2>2, <2>4 DEF Shown, EligibleIsCurrent
  <2> QED
    BY <1>1, <1>2, <1>5, <2>1, <2>2, <2>3, <2>5 DEF Current
<1>15. CASE Final(k)
  <2>1. CASE process = 0 /\ state' = Down("stopped") /\ Goes(k, "done")
    <3>1. ctl'[k].pc = "done" /\ UNCHANGED <<process, child>>
      BY <1>0, <1>15, <2>1, Going DEF Final
    <3>2. Shown(k)' /\ ~Live(process)'
      BY <2>1, <3>1 DEF Shown, Live
    <3> QED
      BY <1>7, <1>p, <2>1, <3>1, <3>2
  <2>2. CASE /\ process # 0 /\ state' = Down("quiescing")
             /\ Terminates(k, process, "stop")
    <3>1. ctl'[k].pc = "term" /\ UNCHANGED <<process, child>>
      BY <1>0, <1>3, <1>15, <2>2, Terminating DEF Final
    <3>2. Shown(k)'
      BY <1>d, <1>p, <2>2, <3>1 DEF Shown
    <3> QED
      BY <1>7, <1>p, <2>2, <3>1, <3>2
  <2> QED
    BY <1>15, <2>1, <2>2 DEF Final
<1>16. CASE Terminate(k)
  <2>1. ~state.eligible /\ state' = state
    BY <1>4, <1>16 DEF Terminate, At, Shown
  <2>2. /\ ctl'[k].pc = "terminated"
        /\ Ended(ctl[k].proc) \/ Unconfirmed(ctl[k].proc)
    BY <1>0, <1>16, TerminateEnds
  <2>3. Shown(k)'
    BY <2>2 DEF Shown
  <2>4. \A c \in Children : child'[c] = "none" => child[c] = "none"
    BY <1>0, <2>2 DEF Ended, Unconfirmed, TypeOK
  <2> QED
    BY <1>6, <2>1, <2>3, <2>4
<1>17. CASE Terminated(k)
  <2>1. UNCHANGED <<process, child>> /\ ctl[k].pc = "terminated"
    BY <1>17 DEF Terminated, At
  <2>2. CASE /\ ctl[k].why \in {"stop", "limited"} /\ state' = StoppedState(k)
             /\ Goes(k, "done")
    <3>1. ctl'[k].pc = "done"
      BY <1>0, <2>2, Going
    <3>2. CASE ctl[k].why = "limited"
      <4>1. state' = [Down("degraded") EXCEPT !.limited = TRUE]
        BY <2>2, <3>2 DEF StoppedState
      <4>2. Down("degraded") \in StateType
        BY <1>0, <1>p, Downs
      <4>3. /\ state'.phase = "degraded" /\ state'.env = state.env
            /\ state'.eligible = FALSE
        BY <1>d, <1>p, <4>1, <4>2 DEF StateType
      <4>4. EligibleIsCurrent' /\ Shown(k)'
        BY <3>1, <4>3 DEF EligibleIsCurrent, Shown
      <4> QED
        BY <1>0, <1>1, <1>2, <1>5, <2>1, <4>3, <4>4 DEF Current
    <3>3. CASE ctl[k].why # "limited"
      <4>1. state' = Down(IF ctl[k].ended THEN "stopped" ELSE "degraded")
        BY <2>2, <3>3 DEF StoppedState
      <4>2. ctl[k].ended => ~Live(process)'
        BY <1>1, <2>1 DEF Knows, Live
      <4>3. Shown(k)'
        BY <3>1 DEF Shown
      <4> QED
        BY <1>7, <1>p, <2>1, <3>1, <4>1, <4>2, <4>3
    <3> QED
      BY <3>2, <3>3
  <2>3. CASE /\ ctl[k].why = "session" /\ state' = Down("degraded")
             /\ IF ctl[k].ended THEN Retries(k) ELSE Goes(k, "done")
    <3>1. ctl'[k].pc \in {"loop", "done"}
      BY <1>0, <2>3, Going, Retrying
    <3>2. Shown(k)'
      BY <1>d, <1>p, <2>3, <3>1 DEF Shown
    <3> QED
      BY <1>7, <1>p, <2>1, <2>3, <3>2
  <2>4. CASE /\ state' = [state EXCEPT !.phase = "degraded", !.limited = FALSE]
             /\ Goes(k, "done")
    <3>1. /\ state'.phase = "degraded" /\ state'.env = state.env
          /\ state'.eligible = state.eligible
      BY <1>3, <2>4 DEF StateType
    <3>2. ctl'[k].pc = "done"
      BY <1>0, <2>4, Going
    <3>3. EligibleIsCurrent' /\ Shown(k)'
      BY <1>0, <2>1, <3>1, <3>2 DEF EligibleIsCurrent, Shown, Current
    <3> QED
      BY <1>0, <1>1, <1>2, <1>5, <2>1, <3>1, <3>3 DEF Current
  <2>5. CASE ctl[k].ended /\ Retries(k) /\ state' \in {state, Down("degraded")}
    <3>1. ctl'[k].pc \in {"loop", "done"}
      BY <1>0, <2>5, Retrying
    <3>2. ~state.eligible
      BY <1>0, <1>1, <2>1, <2>5 DEF Current, EligibleIsCurrent, Knows
    <3>3. Shown(k)'
      BY <1>d, <1>p, <2>5, <3>1, <3>2 DEF Shown
    <3> QED
      BY <1>6, <1>7, <1>p, <2>1, <2>5, <3>3
  <2> QED
    BY <1>17, <2>2, <2>3, <2>4, <2>5 DEF Terminated
<1>18. CASE Watch(k)
  <2>1. /\ ctl'[k].pc \in {"stopping", "unhealthy", "poll"}
        /\ ctl'[k].pc = "stopping" => stopEvent
    BY <1>0, <1>18, Watching
  <2>2. UNCHANGED <<process, child, state>>
    BY <1>18 DEF Watch
  <2>3. Shown(k)'
    BY <1>2, <2>1, <2>2 DEF Shown
  <2> QED
    BY <1>6, <2>2, <2>3
<1>19. CASE RuntimeOver(k) \/ Unhealthy(k)
  <2>1. /\ state' = Down("quiescing") /\ UNCHANGED <<process, child>>
        /\ ctl'[k].pc = "term"
    BY <1>0, <1>3, <1>19, Terminating DEF RuntimeOver, Unhealthy
  <2>2. Shown(k)'
    BY <1>d, <1>p, <2>1 DEF Shown
  <2> QED
    BY <1>7, <1>p, <2>1, <2>2
<1>20. CASE TimesOut(k)
  <2>1. /\ state' = Down("degraded") /\ UNCHANGED <<process, child>>
        /\ ctl'[k].pc \in {"unhealthy", "watch"}
    BY <1>0, <1>20, Going DEF TimesOut
  <2>2. Shown(k)'
    BY <2>1 DEF Shown
  <2> QED
    BY <1>7, <1>p, <2>1, <2>2
<1>21. CASE WatchAgain(k)
  <2>1. UNCHANGED <<process, child, state>> /\ ctl'[k].pc = "watch"
    BY <1>0, <1>21, Going DEF WatchAgain
  <2>2. Shown(k)'
    BY <2>1 DEF Shown
  <2> QED
    BY <1>6, <2>1, <2>2
<1>22. CASE Stopping(k)
  <2>1. /\ UNCHANGED <<process, child>> /\ ctl'[k].pc = "term" /\ stopEvent
    <3>1. ctl'[k].pc = "term"
      BY <1>0, <1>3, <1>22, Terminating DEF Stopping
    <3> QED
      BY <1>4, <1>22, <3>1 DEF Stopping, At, Shown
  <2>2. /\ state'.phase # "stopped" /\ state'.env = state.env
        /\ state'.eligible = FALSE
    <3>1. PICK phase \in {"degraded", "quiescing"} :
            state' = [Down(phase) EXCEPT !.limited = state.limited]
      BY <1>22 DEF Stopping
    <3>2. Down(phase) \in StateType
      BY <1>0, <1>p, Downs
    <3> QED
      BY <1>d, <1>p, <3>1, <3>2 DEF StateType
  <2>3. EligibleIsCurrent' /\ Shown(k)'
    BY <1>2, <2>1, <2>2 DEF EligibleIsCurrent, Shown
  <2> QED
    BY <1>0, <1>1, <1>2, <1>5, <2>1, <2>2, <2>3 DEF Current
<1> QED
  BY <1>8, <1>9, <1>10, <1>11, <1>12, <1>13, <1>14, <1>15, <1>16, <1>17,
     <1>18, <1>19, <1>20, <1>21, <1>22 DEF Control

\* A reader writes only of the process, while nobody stops it; whatever else
\* a helper does leaves the child no more alive and input no more eligible.
LEMMA OthersCurrent ==
    ASSUME Solo, Inv, TypeOK', Held',
           \/ \E c \in Children : Helper(c)
           \/ Expire
           \/ UNCHANGED vars
    PROVE  Current'
<1>0. TypeOK /\ Held /\ Current
  BY DEF Inv
<1>1. UNCHANGED <<controller, ctl, process, caller>>
  <2>1. ASSUME NEW c \in Children, Helper(c)
        PROVE  UNCHANGED <<controller, ctl, process, caller>>
    BY <2>1 DEF Helper, Reports, Overflows, ReaderEnds, Dies
  <2> QED
    BY <2>1 DEF Expire, vars
<1>2. Alive(controller)' <=> Alive(controller)
  BY <1>1 DEF Alive
<1>3. ASSUME UNCHANGED <<state, stopEvent>>,
             \A c \in Children : /\ child'[c] = "none" => child[c] = "none"
                                 /\ Live(c)' => Live(c)
      PROVE  Current'
  <2>1. Live(process)' => Live(process)
    BY <1>0, <1>1, <1>3 DEF Live, TypeOK
  <2>2. state'.env # 0 => child'[state'.env] # "none"
    BY <1>0, <1>3 DEF Current, TypeOK, StateType
  <2>3. EligibleIsCurrent'
    BY <1>0, <1>1, <1>3 DEF Current, EligibleIsCurrent
  <2>4. controller' # 0 => Shown(controller)'
    BY <1>0, <1>1, <1>3 DEF Current, Shown
  <2>5. \A p \in Callers : StopKnows(p)'
    BY <1>0, <1>1, <1>2, <1>3, <2>1 DEF Current, StopKnows
  <2> QED
    BY <1>0, <1>2, <1>3, <2>1, <2>2, <2>3, <2>4, <2>5 DEF Current
<1>4. ASSUME NEW c \in Children, Reports(c)
      PROVE  Current'
  <2>1. CASE ~MayReport(c)
    <3>1. UNCHANGED <<state, stopEvent, child>>
      BY <1>4, <2>1 DEF Reports
    <3> QED
      BY <1>3, <3>1 DEF Live
  <2>2. CASE MayReport(c)
    <3>1. PICK phase \in {"ready", "degraded"}, eligible \in BOOLEAN :
            state' = [state EXCEPT !.phase = phase, !.limited = FALSE,
                                   !.eligible = eligible]
      BY <1>4, <2>2 DEF Reports
    <3>2. state'.env = state.env /\ state'.phase = phase
      BY <1>0, <3>1 DEF TypeOK, StateType
    <3>3. /\ ~stopEvent /\ process = c /\ state.env = c /\ Live(process)
          /\ c # 0 /\ state.phase # "quiescing"
          /\ UNCHANGED <<stopEvent, child>>
      <4>1. UNCHANGED <<stopEvent, child>>
        BY <1>4 DEF Reports
      <4> QED
        BY <2>2, <4>1 DEF MayReport
    <3>4. EligibleIsCurrent' /\ (state'.env # 0 => child'[state'.env] # "none")
      BY <1>0, <1>1, <3>2, <3>3 DEF EligibleIsCurrent, Current
    <3>5. controller # 0 => Shown(controller)'
      <4>1. ASSUME controller # 0
            PROVE  ctl[controller].pc \notin
                     {"loop", "backoff", "spawn", "register", "validate",
                      "stopping", "final", "term"}
        <5>1. Knows(controller) /\ Shown(controller)
          BY <1>0, <4>1 DEF Held, Current
        <5>2. ctl[controller].pc \notin Childless
          BY <3>3, <5>1 DEF Knows
        <5>3. ctl[controller].pc \in {"validate", "term"} =>
                 ctl[controller].proc = state.env
          BY <3>3, <5>1 DEF Knows, HasChild
        <5> QED
          BY <3>3, <5>1, <5>2, <5>3 DEF Shown, Childless
      <4> QED
        BY <1>1, <4>1 DEF Shown
    <3>6. \A p \in Callers : StopKnows(p)'
      BY <1>0, <1>1, <1>2, <3>3 DEF Current, StopKnows, Live
    <3> QED
      BY <1>1, <3>2, <3>4, <3>5, <3>6 DEF Current
  <2> QED
    BY <2>1, <2>2
<1>5. ASSUME NEW c \in Children, Overflows(c)
      PROVE  Current'
  <2>1. stopEvent' = TRUE /\ child' = child
    BY <1>5 DEF Overflows
  <2>2. /\ state'.env = state.env
        /\ state'.eligible = FALSE \/ state'.eligible = state.eligible
        /\ state'.phase = "stopped" => state.phase = "stopped"
    <3>1. CASE process = c
      <4>1. state' = [Down("degraded") EXCEPT !.limited = TRUE]
        BY <1>5, <3>1 DEF Overflows
      <4>2. /\ Down("degraded") \in StateType /\ Down("degraded").eligible = FALSE
            /\ Down("degraded").phase = "degraded"
            /\ Down("degraded").env = state.env
        BY <1>0, Downs DEF Phases
      <4> QED
        BY <4>1, <4>2 DEF StateType
    <3>2. CASE process # c
      BY <1>5, <3>2 DEF Overflows
    <3> QED
      BY <3>1, <3>2
  <2>3. EligibleIsCurrent' /\ (state'.env # 0 => child'[state'.env] # "none")
    BY <1>0, <1>1, <2>1, <2>2 DEF EligibleIsCurrent, Current
  <2>4. controller' # 0 => Shown(controller)'
    BY <1>0, <1>1, <2>1, <2>2 DEF Current, Shown
  <2>5. \A p \in Callers : StopKnows(p)'
    BY <1>0, <1>1, <1>2, <2>1, <2>2 DEF Current, StopKnows, Live
  <2>6. state'.phase = "stopped" => ~Alive(controller)' /\ ~Live(process)'
    BY <1>0, <1>1, <1>2, <2>1, <2>2 DEF Current, Live
  <2> QED
    BY <2>3, <2>4, <2>5, <2>6 DEF Current
<1>6. ASSUME NEW c \in Children, ReaderEnds(c)
      PROVE  Current'
  BY <1>3, <1>6 DEF ReaderEnds, Live
<1>7. ASSUME NEW c \in Children, Dies(c)
      PROVE  Current'
  <2>1. \A d \in Children : /\ child'[d] = "none" => child[d] = "none"
                            /\ Live(d)' => Live(d)
    BY <1>0, <1>7 DEF Dies, Live, TypeOK
  <2> QED
    BY <1>3, <1>7, <2>1 DEF Dies
<1>8. CASE Expire \/ UNCHANGED vars
  BY <1>3, <1>8 DEF Expire, vars, Live
<1> QED
  BY <1>4, <1>5, <1>6, <1>7, <1>8 DEF Helper

-----------------------------------------------------------------------------
(* The theorems. *)

LEMMA InitInv ==
    ASSUME Init
    PROVE  Inv
<1>1. /\ controller = 0 /\ process = 0 /\ state.phase = "configured"
      /\ state.env = 0 /\ state.eligible = FALSE
  <2>1. state = [phase |-> "configured", env |-> 0, eligible |-> FALSE,
                 limited |-> FALSE]
    BY Zenon DEF Init
  <2>2. controller = 0 /\ process = 0
    BY Zenon DEF Init
  <2> QED
    BY <2>1, <2>2
<1>2. \A k \in Controllers : ctl[k].pc = "none"
  <2>1. \A k \in Controllers :
          ctl[k] = [NewController(FALSE) EXCEPT !.pc = "none"]
    BY Zenon DEF Init
  <2>2. [NewController(FALSE) EXCEPT !.pc = "none"].pc = "none"
    BY NewControllers DEF CtlType
  <2> QED
    BY <2>1, <2>2
<1>3. \A p \in Callers : caller[p].pc = "idle"
  <2>1. \A p \in Callers : caller[p] = Idle
    BY Zenon DEF Init
  <2> QED
    BY <2>1 DEF Idle
<1>4. \A c \in Children : child[c] = "none"
  BY Zenon DEF Init
<1>5. Unstarted
  BY <1>2 DEF Unstarted, At
<1>6. Held
  BY <1>1, <1>2, <1>3, <1>4
     DEF Held, OnlyCurrent, ChildHeld, KillsKnow, Alive, Live
<1>7. Current
  BY <1>1, <1>3 DEF Current, EligibleIsCurrent, StopKnows, Alive, Live
<1> QED
  BY <1>5, <1>6, <1>7, InitTypes DEF Inv

\* Where a caller that may restart is the only caller, every step keeps the
\* invariant.
LEMMA NextInv ==
    ASSUME RestartsAlone, Inv, [Next]_vars
    PROVE  Inv'
<1>1. TypeOK'
  BY NextTypes DEF Inv
<1>2. Unstarted' /\ Held'
  BY <1>1, CallHeld, ControlHeld, OthersHeld DEF Next, Inv
<1>3. ASSUME Solo
      PROVE  Current'
  BY <1>1, <1>2, <1>3, CallCurrent, ControlCurrent, OthersCurrent DEF Next
<1> QED
  BY <1>1, <1>2, <1>3 DEF Inv, Solo

\* However starts, stops, exits, late readers and unconfirmed terminations
\* interleave, the supervisor never has two living children, as describe()
\* reports; a caller that may restart has to be the only one.
THEOREM OneChildLives ==
    ASSUME RestartsAlone
    PROVE  Spec => []OneChild
<1>1. Init => Inv
  BY InitInv
<1>2. Inv /\ [Next]_vars => Inv'
  BY NextInv
<1>3. Inv => OneChild
  <2> SUFFICES ASSUME Inv PROVE OneChild
    OBVIOUS
  <2> DEFINE Living == {c \in Children : Live(c)}
  <2>1. PICK x : Living \subseteq {x}
    <3>1. ASSUME NEW c \in Living, NEW d \in Living
          PROVE  c = d
      <4>1. ASSUME NEW e \in Living
            PROVE  \/ e = process /\ Live(process)
                   \/ /\ controller # 0 /\ At(controller, "register")
                      /\ e = ctl[controller].proc
        BY DEF Inv, Held, ChildHeld
      <4>2. controller # 0 /\ At(controller, "register") => ~Live(process)
        BY DEF Inv, Held, Knows, Childless, At
      <4> QED
        BY <4>1, <4>2
    <3> QED
      BY <3>1
  <2>2. IsFiniteSet({x}) /\ Cardinality({x}) = 1
    BY FS_Singleton
  <2>3. Cardinality(Living) <= 1
    BY <2>1, <2>2, FS_Subset
  <2> QED
    BY <2>3 DEF OneChild
<1> QED
  BY <1>1, <1>2, <1>3, PTL DEF Spec

\* With one caller at a time, input eligibility always speaks of the child
\* the supervisor holds now: no reader of an earlier incarnation, late line
\* or reaped child leaves it set.
THEOREM EligibleSpeaksOfCurrent ==
    ASSUME Solo
    PROVE  Spec => []EligibleIsCurrent
<1>1. Init => Inv
  BY InitInv
<1>2. Inv /\ [Next]_vars => Inv'
  BY NextInv DEF Solo, RestartsAlone
<1>3. Inv => EligibleIsCurrent
  BY DEF Inv, Current
<1> QED
  BY <1>1, <1>2, <1>3, PTL DEF Spec

\* With one caller at a time, a supervisor that says "stopped" once no
\* controller runs has no living child, even where kill() was not confirmed.
THEOREM StoppedIsChildless ==
    ASSUME Solo
    PROVE  Spec => []StoppedHasNoChild
<1>1. Init => Inv
  BY InitInv
<1>2. Inv /\ [Next]_vars => Inv'
  BY NextInv DEF Solo, RestartsAlone
<1>3. Inv => StoppedHasNoChild
  <2> SUFFICES ASSUME Inv, state.phase = "stopped" PROVE \A c \in Children : ~Live(c)
    BY DEF StoppedHasNoChild
  <2> QED
    BY NoneLives DEF Inv, Current
<1> QED
  BY <1>1, <1>2, <1>3, PTL DEF Spec
=============================================================================
