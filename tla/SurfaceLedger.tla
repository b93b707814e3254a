--------------------------- MODULE SurfaceLedger ---------------------------
(***************************************************************************)
(* The durable effect ledger of the Cassi Surface broker (CassiQwen/       *)
(* surface/core.py): the rows that submit_intent, cancellation, recovery   *)
(* and reconciliation append, what a process that replays them knows, and  *)
(* what crashes and failed appends leave behind.                           *)
(*                                                                         *)
(* The file is kept as the records that _replay_ledger would make of it:   *)
(* rows are only ever appended and replay applies them in order, so each   *)
(* append applies its row to `durable'.  Authority is abstracted away: a   *)
(* fence may refuse any operation and any reserved operation may be        *)
(* cancelled (SurfaceBroker says when); each operation has a source, and   *)
(* so a state.lock, of its own.                                            *)
(***************************************************************************)
EXTENDS Naturals

CONSTANTS
    Ops,             \* operation ids
    Requests,        \* request digests that may come with an operation id
    Verdicts,        \* reconciliation records of the host owner
    Reconcilers,     \* threads in reconcile()
    NoRequest,       \* the absence of a request
    NoVerdict,       \* the absence of a reconciliation
    NoOp,            \* the absence of an operation
    MaxCrashes,      \* bound on the crashes explored
    Faults           \* which ways to fail a run explores

ASSUME AbsenceAssumption == NoVerdict \notin Verdicts /\ NoOp \notin Ops
\* an append is refused, is written but not synced, or is torn
ASSUME FaultsAssumption == Faults \subseteq {"refused", "unsynced", "torn"}
ASSUME CrashesAssumption == MaxCrashes \in Nat

VARIABLES
    durable,         \* per operation, what a replay of the file makes of its rows
    unreadable,      \* replay would refuse the file
    process,         \* "down", "recovering" or "up"
    mem,             \* _operations
    thread,          \* where the submission of each operation is
    sent,            \* how often a backend delivered each operation
    reconciler,      \* where each thread in reconcile() is
    crashes

vars == <<durable, unreadable, process, mem, thread, sent, reconciler, crashes>>

Phases == {"none", "reserved", "dispatching", "settled", "reconciled"}
Concluded == {"settled", "reconciled"}
Dispositions == {"not-started", "certain", "uncertain"}

Unknown == [phase |-> "none", request |-> NoRequest, disposition |-> "none", verdict |-> NoVerdict]
Idle == [stage |-> "idle", op |-> NoOp, verdict |-> NoVerdict]

Init ==
    /\ durable = [o \in Ops |-> Unknown]
    /\ unreadable = FALSE
    /\ process = "up"
    /\ mem = [o \in Ops |-> Unknown]
    /\ thread = [o \in Ops |-> "idle"]
    /\ sent = [o \in Ops |-> 0]
    /\ reconciler = [r \in Reconcilers |-> Idle]
    /\ crashes = 0

-----------------------------------------------------------------------------
(* Rows and appends. *)

\* _apply_ledger_row, which the live process's own updates repeat
Reserved(q) == [Unknown EXCEPT !.phase = "reserved", !.request = q]
Dispatching(rec) == [rec EXCEPT !.phase = "dispatching"]
Settled(rec, d) == [rec EXCEPT !.phase = "settled", !.disposition = d]
Reconciled(rec, v) == [rec EXCEPT !.phase = "reconciled", !.verdict = v]

\* how _append_event ends: it returns, or raises with nothing, all or a part of
\* the line written
Appends == {"ok"} \cup Faults

\* the row that makes rec of o's records is appended with result w
Append(o, rec, w) ==
    /\ durable' = IF w \in {"ok", "unsynced"} THEN [durable EXCEPT ![o] = rec] ELSE durable
    /\ unreadable' = (unreadable \/ w = "torn")

\* memory follows the row only if _append_event returned
Remember(o, rec, w) == mem' = IF w = "ok" THEN [mem EXCEPT ![o] = rec] ELSE mem

-----------------------------------------------------------------------------
(* Submissions. *)

\* submit_intent up to the reservation; replay refuses a second reservation of an
\* operation id under another request
Submit(o, q) ==
    /\ process = "up"
    /\ mem[o].phase = "none"
    /\ \E w \in Appends :
        /\ durable' = IF w \in {"ok", "unsynced"} THEN [durable EXCEPT ![o] = Reserved(q)]
                                                  ELSE durable
        /\ unreadable' = \/ unreadable
                         \/ w = "torn"
                         \/ w # "refused" /\ durable[o].request \notin {NoRequest, q}
        /\ Remember(o, Reserved(q), w)
        /\ thread' = IF w = "ok" THEN [thread EXCEPT ![o] = "waiting"] ELSE thread
    /\ UNCHANGED <<process, sent, reconciler, crashes>>

\* the fence refuses; _settle_operation settles whatever the record says by now
FenceRefuses(o) ==
    /\ thread[o] = "waiting"
    /\ \E w \in Appends :
        /\ Append(o, Settled(durable[o], "not-started"), w)
        /\ Remember(o, Settled(mem[o], "not-started"), w)
    /\ thread' = [thread EXCEPT ![o] = "idle"]
    /\ UNCHANGED <<process, sent, reconciler, crashes>>

\* mutant of MayDispatch: the fence does not look at the record
MayDispatchAny(o) == thread[o] = "waiting"

\* what _ensure_dispatch_fence asks of the record
MayDispatch(o) == thread[o] = "waiting" /\ mem[o].phase = "reserved"

\* the fence passes and the operation_dispatching row is appended; if that raises,
\* submit_intent ends there and the operation stays reserved
Fence(o) ==
    /\ MayDispatch(o)
    /\ \E w \in Appends :
        /\ Append(o, Dispatching(durable[o]), w)
        /\ Remember(o, Dispatching(mem[o]), w)
        /\ thread' = [thread EXCEPT ![o] = IF w = "ok" THEN "dispatching" ELSE "idle"]
    /\ UNCHANGED <<process, sent, reconciler, crashes>>

\* inside backend.dispatch
Deliver(o) ==
    /\ thread[o] = "dispatching"
    /\ sent' = [sent EXCEPT ![o] = @ + 1]
    /\ thread' = [thread EXCEPT ![o] = "delivered"]
    /\ UNCHANGED <<durable, unreadable, process, mem, reconciler, crashes>>

\* backend.dispatch returns or raises, having delivered or not
Settle(o) ==
    /\ thread[o] \in {"dispatching", "delivered"}
    /\ \E d \in {"certain", "uncertain"}, w \in Appends :
        /\ Append(o, Settled(durable[o], d), w)
        /\ Remember(o, Settled(mem[o], d), w)
    /\ thread' = [thread EXCEPT ![o] = "idle"]
    /\ UNCHANGED <<process, sent, reconciler, crashes>>

\* under the state.lock that a dispatching submission holds
MayCancel(o) ==
    /\ process = "up"
    /\ mem[o].phase = "reserved"
    /\ thread[o] \notin {"dispatching", "delivered"}

\* _cancel_reserved_operations
Cancel(o) ==
    /\ MayCancel(o)
    /\ \E w \in Appends :
        /\ Append(o, Settled(durable[o], "not-started"), w)
        /\ Remember(o, Settled(mem[o], "not-started"), w)
    /\ UNCHANGED <<process, thread, sent, reconciler, crashes>>

-----------------------------------------------------------------------------
(* Reconciliation: a check and an update under the lock, an append between. *)

ReconcileChecks(r, o, v) ==
    /\ process = "up"
    /\ reconciler[r].stage = "idle"
    /\ mem[o].phase \in Concluded
    /\ mem[o].verdict = NoVerdict
    /\ reconciler' = [reconciler EXCEPT ![r] = [stage |-> "checked", op |-> o, verdict |-> v]]
    /\ UNCHANGED <<durable, unreadable, process, mem, thread, sent, crashes>>

ReconcileAppends(r) ==
    LET o == reconciler[r].op IN
    /\ reconciler[r].stage = "checked"
    /\ \E w \in Appends :
        /\ Append(o, Reconciled(durable[o], reconciler[r].verdict), w)
        /\ reconciler' = [reconciler EXCEPT ![r] = IF w = "ok" THEN [@ EXCEPT !.stage = "appended"]
                                                   ELSE Idle]
    /\ UNCHANGED <<process, mem, thread, sent, crashes>>

ReconcileRecords(r) ==
    LET o == reconciler[r].op IN
    /\ reconciler[r].stage = "appended"
    /\ mem' = [mem EXCEPT ![o] = Reconciled(@, reconciler[r].verdict)]
    /\ reconciler' = [reconciler EXCEPT ![r] = Idle]
    /\ UNCHANGED <<durable, unreadable, process, thread, sent, crashes>>

-----------------------------------------------------------------------------
(* Crash, replay and recovery. *)

\* the process, its memory and its threads are gone
Down ==
    /\ process' = "down"
    /\ mem' = [o \in Ops |-> Unknown]
    /\ thread' = [o \in Ops |-> "idle"]
    /\ reconciler' = [r \in Reconcilers |-> Idle]

Crash ==
    /\ process # "down"
    /\ crashes < MaxCrashes
    /\ crashes' = crashes + 1
    /\ Down
    /\ UNCHANGED <<durable, unreadable, sent>>

\* _replay_ledger; an unreadable file keeps the broker from starting
Replay ==
    /\ process = "down"
    /\ ~unreadable
    /\ process' = "recovering"
    /\ mem' = durable
    /\ UNCHANGED <<durable, unreadable, thread, sent, reconciler, crashes>>

\* reserved means never dispatched; dispatching may have been delivered
RecoveredAs(rec) == IF rec.phase = "reserved" THEN "not-started" ELSE "uncertain"

\* _recover_inflight, for one operation; if the append raises, so does __init__
Recover(o) ==
    /\ process = "recovering"
    /\ mem[o].phase \in {"reserved", "dispatching"}
    /\ \E w \in Appends :
        /\ Append(o, Settled(durable[o], RecoveredAs(mem[o])), w)
        /\ IF w = "ok"
           THEN /\ Remember(o, Settled(mem[o], RecoveredAs(mem[o])), w)
                /\ UNCHANGED <<process, thread, reconciler>>
           ELSE Down
    /\ UNCHANGED <<sent, crashes>>

Start ==
    /\ process = "recovering"
    /\ \A o \in Ops : mem[o].phase \notin {"reserved", "dispatching"}
    /\ process' = "up"
    /\ UNCHANGED <<durable, unreadable, mem, thread, sent, reconciler, crashes>>

Next ==
    \/ \E o \in Ops : \/ \E q \in Requests : Submit(o, q)
                      \/ FenceRefuses(o) \/ Fence(o) \/ Deliver(o) \/ Settle(o) \/ Cancel(o)
                      \/ Recover(o)
    \/ \E r \in Reconcilers : \/ \E o \in Ops, v \in Verdicts : ReconcileChecks(r, o, v)
                              \/ ReconcileAppends(r) \/ ReconcileRecords(r)
    \/ Crash \/ Replay \/ Start

Spec == Init /\ [][Next]_vars

-----------------------------------------------------------------------------
(* What holds. *)

Record == [phase : Phases, request : Requests \cup {NoRequest},
           disposition : Dispositions \cup {"none"}, verdict : Verdicts \cup {NoVerdict}]

\* Every variable keeps its type, and threads exist only in a process that is up.
TypeOK ==
    /\ durable \in [Ops -> Record]
    /\ unreadable \in BOOLEAN
    /\ process \in {"down", "recovering", "up"}
    /\ mem \in [Ops -> Record]
    /\ thread \in [Ops -> {"idle", "waiting", "dispatching", "delivered"}]
    /\ sent \in [Ops -> Nat]
    /\ reconciler \in [Reconcilers -> [stage : {"idle", "checked", "appended"},
                                       op : Ops \cup {NoOp}, verdict : Verdicts \cup {NoVerdict}]]
    /\ crashes \in Nat
    /\ process # "up" => /\ \A o \in Ops : thread[o] = "idle"
                         /\ \A r \in Reconcilers : reconciler[r] = Idle

\* what a client would be told: by the process that runs, or by the one that will
\* replay the file
Seen(o) == IF process = "down" THEN durable[o] ELSE mem[o]

Status(rec) == CASE rec.phase = "none" -> "none"
                 [] rec.phase \in {"reserved", "dispatching"} -> "accepted"
                 [] OTHER -> "concluded"

Seeing(o) == [status |-> Status(Seen(o)), sent |-> sent[o],
              outcome |-> IF Status(Seen(o)) = "concluded" THEN Seen(o).disposition ELSE "none"]

Contract == INSTANCE EffectContract WITH effect <- [o \in Ops |-> Seeing(o)]

\* The ledger keeps the effect contract across crashes, restarts and failed
\* appends: what a client was told of an outcome is what every later process says,
\* and nothing is delivered twice or after it was called not started.
KeepsContract == Contract!Spec

-----------------------------------------------------------------------------
(* What the code or the design document says and the code does not keep. *)

\* A reconciliation that was recorded is never replaced by a different one.
ReconciliationIsFinal ==
    [][\A o \in Ops : Seen(o).verdict # NoVerdict => Seen(o)'.verdict = Seen(o).verdict]_vars
=============================================================================
