# A verification of the Cassi Surface and the Cassi Hive

This directory models the two parts of the repository whose correctness is a matter of
ordering, failure and concurrency: the *Cassi Surface* (`src/CassiQwen/surface/`), through
which the Cassi entity sees and operates computers, and the *Cassi Hive*
(`src/CassiFI/cassi_hive_*.py`, `cassi_field_hive.py`), through which field programs that
were learned by one instance reach the others. There are TLA+ modules translated from the
source, TLC configurations that check them on small instances, and proofs, checked by
TLAPS, for every value of the constants. `PROJECT.json` lists the components, runs,
mutants, the lines each definition stands for, findings, hazards and theorems; this file
explains them. Line numbers `core.py:N`, `supervisor.py:N`, `transfer.py:N` are those of
files in `src/CassiQwen/surface/`, `cassi_*.py:N` of files in `src/CassiFI/`.

    tlc -config broker_faults.cfg MCSurfaceBroker.tla      # a run
    tlapm SurfaceBrokerProofs.tla                          # a proof module

## 1. The system

The repository holds some 8,900 files, most of them research: field-learning numerics
(`CassiFI`), theory (`CassiTheory`), a vendored inference engine (`CassiQwen/native`),
archived TypeScript and Python cores (`CassiCore`, `CassiAI`), games and simulations
(`CassiCraft`, `CassiCosmos`), a trading study (`CassiTrading`) and editor integration
(`CassiPi`). Two parts carry control logic in which ordering, failure and concurrency
matter: the Surface and the Hive. The Surface came first because what it protects, a real
keyboard and pointer, cannot be rolled back.

### Components

| component | state | operations | interacts with |
|---|---|---|---|
| **Broker** `core.py`, `SurfaceBroker` | bindings (`_BindingState`), grants (`_Grant`), domain leases and epochs, operations, observation publications, volatile captures | `bind`, `capture`, `grant`, `heartbeat`, `relinquish`, `submit_intent`, `revoke`, `pause`, `resume`, `take_control`, `release_human`, `unbind`, `release`, `reconcile`, `close`; a watchdog thread | host authorizer (callback, under no lock), backends (calls under a source's lock), ledger (file), field owner |
| **Effect ledger** `core.py`, `_append_event`, `_replay_ledger`, `_recover_inflight` | an append-only file of JSON rows; byte reservations | append, replay at start, recovery | the broker; other processes through the file lock |
| **Records** `records.py` | none | validation and canonical form of intents, grants, outcomes | broker |
| **Supervisor** `supervisor.py`, `BoundedProcessSupervisor` | one helper process, the state reported of it, a stop event, the restart window | `start`, `stop`, `restart`, `close`; controller threads that spawn and watch, reader threads that take the child's status lines | the child (stdin, stdout, signals); those who read `input_eligible` |
| **Linux session supervisor** `linux_session.py`, `LinuxSessionSupervisor` | one configured foreground process, its readiness, a restart count | `start`, `status`, `wait_ready`, `poll`, `stop`, `close`; probes readiness with a command, restarts on failure up to a cap, stops by a scoped command and never kills | the process, the server that polls |
| **Mission authority** `mission_authority.py` | the current mission's scope | decides grant proposals | is the broker's authorizer |
| **Transfer** `transfer.py`, `ScopedArtifactTransfer` | records by transfer id, staged files, retained bytes | `transfer`, under a file lock shared by processes | host authorizer, the file system and whoever else writes to the destination |
| **Backends** `windows.py`, `portal.py`, `rfb.py`, `pyboy.py`, `field_native.py`, `trading_paper.py`, audio | operating-system handles | `bind`, `revalidate`, `capture`, `dispatch`, `neutralize`, `unbind`, `release` | operating systems |
| **Hive store** `cassi_hive_store.py` | content-addressed object files; SQLite rows for objects, branch events, the generation, adoptions, revocations | `put_document`, `publish_bundle`, `record_adoption`, `revoke_bundle`, listings | leaders, members, reviewers, each a process of its own |
| **Coordinator, promotion** `cassi_hive_coordinator.py`, `cassi_hive_promotion.py` | none of their own | `collect`, `admit` (a review), `run_once`, `promote` | the store |
| **Hive runtime, adapters, admission** `cassi_hive_runtime.py`, `cassi_hive_adapters.py`, `cassi_field_hive.py` | a session state file per member; the member's field | `open`, `sync`, `adopt`, `close`, `apply_bundle_to_owner` | the store, the field owner |
| **Hive rollout** `cassi_hive_rollout.py` (and session protocol, bridge, policy) | a ledger of a population's outcomes | rounds in which each of several members adopts one verified bundle; failures stay in the ledger | runtime |
| **Entity, researcher, field** | model, missions, field | drive the surface | are the broker's environment |

### What is hard in it, and what would be correct

* **Two kinds of locks.** A binding has a `state.lock`; the broker has `_lock`.
  `submit_intent` reserves an operation under the second, then holds the first from the
  final fence to the end of `backend.dispatch`; `grant` and `take_control` drop every lock
  while the host is asked; the watchdog collects expired grants under `_lock` and fences
  their sources later. *Correct*: authority that ended stays ended; what the fence found
  is true for as long as the backend delivers; lease table and grants agree.
* **Safety actions that can fail.** A neutralisation may not be confirmed, and any row may
  not fit in the ledger, in the middle of a handler. *Correct*: nothing stays leased to a
  dead grant, no dead grant delivers.
* **Crashes.** The outcome of an input under way is unknown after one. *Correct*: an effect
  is delivered at most once, never after a client was told it was not started, and what
  was said of an outcome is what every later process says.
* **Liveness.** The watchdog is one thread. *Correct*: every lapsed lease is fenced, every
  reserved operation gets an outcome.
* **Clocks read early** (lease clock). A call reads the clock and then waits for the lock,
  while the watchdog sleeps towards a deadline that the call moves. *Correct*: no wakeup
  is lost, a lapsed lease is not prolonged by a late or repeated call, an ended one by none.
* **Pages kept elsewhere** (observations). The broker lists the last few observations of
  a source, the field owner keeps their pages and counts pins; either side may refuse or
  fail half-way, and a sample may be admitted long after it was taken. *Correct*: every
  listed observation is pinned, nothing stays pinned that is not listed, and control depends
  on nothing from before a revocation, pause or lapse.
* **A child that does not go** (supervisor). Callers, controllers and readers share one
  condition variable and act on what they read before; a child may survive `kill`.
  *Correct*: never two children, eligibility is the present child's, restarts stay in
  their budget, a stop is carried out.
* **Two files and a record** (transfer). Link, unlink and receipt are separate, calls
  fail between them and are retried, others use the destination. *Correct*: nothing
  partial is ever published, what is left over is named, retries finish.
* **Optimistic publication** (hive). Leaders read, build and store before a transaction
  decides; members commit to a field, then to the hive, then to memory, then to a file,
  and go on when the file could not be written. *Correct*: one lineage without gaps, whose
  bundles are stored; a field holds a prefix of it, and its file counts no more than that
  prefix; a member reaches every generation.

The hazards are listed with their lines in `PROJECT.json`; the open ones have a note.

## 2. The modules

    EffectContract                     what a client is promised of an effect
       ^                 ^
       | refines         | refines
    SurfaceBroker     SurfaceLedger    authority and leases  |  rows, crashes, recovery

    SurfaceLease                       the deadlines of leases, against one clock
    SurfacePublication                 observations, and the field that keeps them
    SurfaceSupervisor                  one helper process and the threads around it
    SurfaceTransfer                    artifact transfers and the file system

    HiveContract                       one lineage, and fields that follow it
       ^
       | refines
    HiveExchange                       store + leaders + members, composed

The instances for TLC are `MCSurfaceBroker`, `MCSurfaceLease`, `MCSurfaceLedger`,
`MCSurfacePublication`, `MCSurfaceSupervisor`, `MCSurfaceTransfer` and `MCHiveExchange`.
The TLAPS proofs are in `SurfaceBrokerProofs`, `SurfaceLeaseProofs`, `SurfaceLedgerProofs`,
`SurfacePublicationProofs`, `SurfaceSupervisorProofs`, `SurfaceTransferProofs`,
`EffectContractProofs` and `HiveExchangeProofs`.

### EffectContract (abstract)

One variable: per operation its `status` as `inspect` shows it (none, accepted,
concluded), its outcome, and how often it was delivered. Three steps: accept, deliver (only
once, only while accepted), conclude (as *not-started* only if it was not delivered). A
step may move several operations, since one revocation cancels all of a source's.

### SurfaceBroker (authority)

| variable | code |
|---|---|
| `bind[b]` | `_BindingState`: `state`, `inhibited`, `human` (`human_control`), `epoch` (`authority_epoch`), `latest` and `boundary` (the newest published generation, and the one an intent's dependency must exceed, `_require_fresh_capture`), `inputUp`, `detached`, `registered` (still in `_bindings`) |
| `grants[g]` | `_Grant`, from the request on. `phase`: *new*; *asking* (`grant` waits for the authorizer); *checked*, *taking* (the two halves of `take_control` before its approval); *live* (`active`); *expired*, *fencing* (collected by the watchdog, not yet neutralised); *ended* |
| `leases`, `domainEpoch` | `_domain_leases`, `_domain_epochs` |
| `ops[o]` | `_operations`; `sent` once the backend is entered |
| `pausing` | `pause` calls `revoke` and writes `state.state` again after it returned |
| `ledgerFull`, `watchdogAlive` | no unreserved byte fits; the watchdog thread has not died |

A section under one lock is one action. Where the code drops its locks the handler is
several actions: `GrantAsk`, then `AuthorizerDeclines`, `GrantIssue` or `GrantRefused`;
`TakeCheck`, `TakeRevoke`, `TakeIssue` or `TakeRefused`; `Reserve`, then `Fence` or
`FenceRefuses`, then `Deliver`; `Pause`, `PauseWrites`; `WatchdogCollects`,
`WatchdogReports`, `WatchdogNeutralizes`. `Locked(b)` holds from `Fence` to `Deliver` and
guards every action that takes `state.lock`. The others are whole handlers: `Revoke`,
`ReleaseHuman`, `Resume`, `Capture`, `Unbind`, `Release`, `ForegroundUnconfirmed`
(`set_follow_foreground`, `set_demonstration` without a receipt), `FirstRefreshRaises`
(the refresh with which `grant`, `take_control` and `resume` begin ends them). `Aborts(b)`
is a `grant_revoked` row that does not fit: the handler ends there.

Abstractions. Time is one bit per grant, `lapsed`. A heartbeat that read the clock before
it got the lock can renew a lease after another call moved its deadline
(`core.py:1832`): such a lease has not lapsed *for good* yet, so `lapsed` never falls. An
approval that comes after the requested expiry ends as a failed issue does. A backend's
six dispositions are two, by what the broker does about them (`_maybe_block_on_outcome`).
A second settlement of an operation by its own thread, after another thread cancelled it,
writes what is there and is left out here (`SurfaceLedger` has it). All grants need an
input lease; audio grants do not and are not modelled.

### SurfaceLease (time)

| variable | code |
|---|---|
| `now`, `lock` | `time.monotonic_ns()`; who keeps `_lock` (and `_watch`, which is built on it) over more than one step |
| `grant[g]` | `_Grant`: `absolute` is `absolute_deadline_ns` (which never exceeds `expires_ns`), `lease` is `lease_deadline_ns`, `beats` is `heartbeat_sequence`, `updates` is `next_sequence - 1` |
| `thread[t]` | a call that has read the clock (`at`) and waits for the lock, or a reservation that holds it |
| `watchdog` | `_watchdog_loop`: running, asleep until `wake` unless `notified`, or fencing what it collected |

`SurfaceBroker` reduces time to one bit; here is the arithmetic it leaves out. A call is two
actions because the clock is read before the lock is taken: `CallBeat` then `Beat`,
`CallRelinquish` then `Relinquish`, `CallIssue` (the approval) then `Issue` or `IssueFails`.
A submission holds the lock for both its readings: `Reserve` validates by the first,
`Renew` renews by the second, `Tick` may come between. `Revoke` is any handler that ends the
source's grants. `Collect`, `Sleep`, `Wake`, `Fenced` are the watchdog. Calls on a grant that
had ended before they began are refused and leave no trace; they are left out. The
fencing of sources is one step here, and the watchdog does not die of a full ledger.

### SurfacePublication (observations)

| variable | code |
|---|---|
| `publications[b]`, `required[b]`, `lastSequence[b]` | `_BindingState.publications`, `capture_required_after_generation`, `last_sequence`; a publication's `status` is what the field answered when it was admitted |
| `samples` | `_volatile_captures`; `old` stands for the comparison of `captured_at_ns` with `capture_required_after_ns` |
| `state[b]`, `closed` | what of `state.state`, `detached` and `backend_unbound` decides which calls are possible; `_closed` |
| `waiting[b]` | a capture that has its binding and waits for the source's lock: nothing looks at the binding's state after that |
| `field[b]` | the field owner's records of one binding with their pins, the baseline (`_surface_current`) and the generation counter |
| `frame[b]`, `ignored[b]`, `fresh` | the frame the source shows; history: generations whose failed release was ignored, and whether a sample was taken after the last boundary |

Calls that hold the source's lock are one step: `Capture`, `CaptureLeaves`, `CaptureFails`,
`TakeSample`, `Admit`, `AdmitKnown`, `AdmitFails`, `Unbind`, `Release`, and `CloseBinding` for
each source after `Close`. `Boundary` is `_require_fresh_capture` as any handler or the
watchdog calls it; a call that finds its source changed draws the boundary first, as a step
of its own. `Admitted` is `admit_surface_publication` with its three answers, and
`Structured` the second admission that attaches the accessibility tree to the pixels'
generation. `Evicted` is the room that is made before the field is asked. A frame is a
sequence number and its content; the page budget is counted in generations. Authority and
neutralisation are `SurfaceBroker`'s; audio, structure without pixels, deltas, reads and
previews are left out.

### SurfaceLedger (durability)

`durable` is what a replay of the file would make of it: rows are only appended and
`_apply_ledger_row` folds them in order, so each append applies its row. `mem` is
`_operations`. An append returns, is refused before a byte is written, is written although
`fsync` raised (*unsynced*), or is *torn* (then replay refuses the file: `unreadable`);
memory changes only if it returned, because every caller updates memory after
`_append_event`. `Submit`, `Fence`, `FenceRefuses`, `Deliver`, `Settle`, `Cancel` are the
appends of a running process; `ReconcileChecks`, `ReconcileAppends`, `ReconcileRecords`
the three parts of `reconcile`, of which only the first and last hold the lock;
`Crash`, `Replay`, `Recover`, `Start` a process that dies at any moment and `__init__`.
Authority is abstracted to nondeterminism: a fence may refuse, a reserved operation may be
cancelled, whenever the operation's own lock allows. A crash is the process's: rows that
reached the file stay there. Loss of unsynced rows with the machine is not modelled.

### SurfaceSupervisor

| variable | code |
|---|---|
| `stopEvent`, `controller`, `process`, `generation`, `closed` | `_stop_event`, `_controller`, `_process`, `_generation`, `_closed` |
| `state` | what of `EnvironmentState` is used: phase, incarnation, `input_eligible`, and the one readiness reason the code tests (`limited`) |
| `charged`, `expired` | `_restart_times`: restarts ever appended, and those that left the window |
| `ctl[k]` | a controller thread: where it is in `_control_loop`, `_watch_child`, `_terminate_child`, and what it read |
| `reader[c]`, `child[c]` | the status reader of a child; the child as the operating system has it |
| `caller[p]` | a call of `stop`, `restart` or `close` between its locked sections |

Every section under `_condition` is one action. What is read outside it, or before a wait,
and used afterwards is an action of its own: `Watch` reads the phase that `TimesOut` acts
on; `Spawn` is `Popen`, before `Register` gives the child a name that others can see;
`Terminate` or `StopKills` is the termination, before `Terminated` or `StopKilled` records
it. `Unconfirmed` is a child that is still there after `kill` and its wait. `Overflows`
(the output budget) is done by the reader of *any* incarnation and sets the one stop event
there is. Deadlines, heartbeats and budgets are abstracted to whether they are exceeded.

### SurfaceTransfer

`record`, `stage` and `file` are the ledger's records, the staging files and the
destinations; `by` tells whose inode a destination is (`os.path.samefile`). `job` is the
one call that holds the file lock, at the step it has reached; `Fails` ends it anywhere,
by an error or a crash, with what is on disk left as it is. `Call` to `Finalize` are the
steps of `transfer` in the code's order; `Creates` and `Removes` are other programs.
The digest of a file is its content, of which there are two and a partial one; a
conversion maps a source to a content, so two sources may have one content
(`RecordsFinal` is about telling them apart). The path taken when `os.link` finds a
destination that is the stage's own file is absent: the destination was not there a step
before and nobody else links a stage. POSIX only: the rename of Windows is not modelled.

The size of a record (`RecordSize`) is `meta` while it names no source, which
`_identity_record` compares with the reservation of 4096 bytes (`transfer.py:782`), and
longer by what the source and the status add: `Published` and `Finished`, which nothing
compares with it (`:999`, `:866`). A destination of up to 2048 bytes, a provenance and the
rest can bring the first form close enough for the later ones to exceed it. `Readable` is
what `_read_record` and `_retained_usage` then raise on (`:653`, `:678`): no call of that
ledger gets past them. The call that made the record too long still finishes, since it does
not read it again, and so the receipts may exceed the limit by that record's `Excess`.

### HiveContract (abstract)

`lineage`, `held`, `acked`: bundles are appended, each made for the generation it lands on;
a member's field takes a bundle's program when it holds those of all bundles before it
(`Holds`); a member acknowledges one or more further bundles once its field holds their
programs. How far a field may be ahead of its acknowledgements is left open, because an
acknowledgement that could not be written is made with a later one. Nothing else happens to
the three.

### HiveExchange

| variable | code |
|---|---|
| `capsules`, `reviews` | indexed capsules and reviews, by candidate group |
| `files`, `index`, `events`, `generation`, `revoked`, `receipts` | object files; the rows of `objects`, the branch's events, its generation, revocations, adoptions |
| `leader[l]` | a pass of `run_once`: the groups still to look at, the bundle in work, the generation `publish_bundle` was told |
| `field[m]`, `own[m]`, `assessed[m]` | programs in a member's field, those it made itself, those a held-out assessment was added to |
| `saved[m]`, `member[m]` | the generation in the session state file; the session and its listing |

A step is one store call, one transaction, one owner commit or one replacement of a file;
`PassEnds` and `Leave` are crashes as well as ends. A bundle is a record of what it is
built from, so equal bundles are equal objects. `MayPublish` is the comparison inside the
transaction of `publish_bundle`. `Apply` is what `apply_bundle_to_owner` commits:
`Promoting` candidates go through `promote-program`, the others through `configure-program`,
whose program a held-out assessment changes afterwards (`Assess`), so that a retry no
longer finds it equal to the bundle's (`Same`). `Fits` is `_bundle_allowed`; `Clashes` are
programs whose identity a field already uses for another one. `_apply_available` replaces
`self._state` and then calls `_save_state` (`cassi_hive_runtime.py:1113-1137`): `Save` is both,
`SaveFails` the first alone, when the file cannot be written. Its `OSError` is caught by nobody
on the way out of `sync`, so the session lives on with its memory ahead of its file, the next
`Sync` lists from the memory, and whichever call writes next (`Save`, `Rewrite`, `Close`; `Writes`
in each) counts several bundles at once. `Leave` loses what the file does not say. A promotion's candidate and
witnesses are committed before the promotion and are taken up by a retry; they are part of
`Apply`.

## 3. The runs

`CHECK_DEADLOCK FALSE` everywhere: grants, operation ids, children, generations, crashes
and failures are finite in an instance, and a system whose requests are used up may stop.

| run | instance | shows |
|---|---|---|
| `broker_faults` | 1 source, 2 requests (each a grant or a takeover), 1 operation, 1 ending of authority per call chain, faults of source, backend and outcome | `DeliveryStaysFenced`, `HumanExcludesCassi`, `AuthorityUnbroken`, refinement `KeepsContract` |
| `broker_domain` | 2 sources of one input domain, 2 requests, full ledger | `LeaseIsLive`, `LeaseEpochsUnique` |
| `broker_live` | 1 source, 2 requests, 1 operation, fair watchdog and submitters | `ExpiryFences`, `ReservedSettles` |
| `publication_store` | 1 source, 1 sample at a time, 2 retained, a field of 2, frames 1 to 3, 3 generations, structure refused, releases that fail | `NothingOrphaned`, `RetainedIsHeld`, `UsableIsFresh`, `FreshIsNewer`, `ObservationsSurvive` |
| `ledger_contract` | 2 operations, 2 requests per id, 2 reconcilers, 2 crashes, every kind of failed append | refinement `KeepsContract` |
| `lease_clock` | 1 grant, 2 threads, instants 0 to 5, duration 4, timeout 2, 2 heartbeats, 2 updates | `SleepIsShort`, `WithinEnvelope`, `EndedIsFinal`, `LapsedNotRevived`, `LeaseEnds` |
| `supervisor_life` | 1 caller, 2 controllers, 4 children, 1 restart per window, 1 that leaves it, children that outlive `kill` | `TypeOK`, `OneChild`, `EligibleIsCurrent`, `StoppedHasNoChild`, `RestartsBudgeted`, `StopIsCarriedOut`, `DeadIsNotEligible` |
| `transfer_recovery` | 2 transfers, 3 requests, 2 destinations, 3 sources of 2 contents, 2 failures, 1 removal; records of 1 to 3 bytes against a reservation of 3, 2 more while publishing, 1 more once complete | `FinishedIsWhole`, `LeftoversNamed`, `CompleteIsThere`, `RetainedBounded`, `RecordsFinal`, `RetriesComplete` |
| `hive_lineage` | 2 leaders, 2 members (one with a clashing program, one without the profile), 1 candidate with a held-out witness, supporting and refuting reviews, 2 generations, 3 stored bundles | `LineageDense`, `PublishedIsStored`, refinement `KeepsContract` |
| `hive_live` | 1 leader, 1 member, 2 candidates (one promoted, one configured, both with a held-out witness), 1 revocation, 2 generations, 2 stored bundles, state files that cannot be written | `FieldFollowsLineage`, `AdoptionsReceipted`, `PromotedOnce`, refinement `KeepsContract`, `MembersCatchUp` |
| `ledger_reconcile`, `hive_revoked` | | the findings of section 5 |

The bounds. Every race in `broker_faults` is between one ending of authority and one
approval or one delivery, so two requests (an old grant and a newcomer, or a grant and a
takeover) and one operation produce each of them; `MaxEpoch = 1` allows one revocation,
pause, takeover or release, after which further ones repeat it; `MaxGeneration = 1` allows
an observation that is fresh and one that a boundary made stale. `broker_domain` needs two
sources for a shared domain and no operations. Two crashes cover a crash during recovery
from a crash; two operations cover rows interleaved in one file and a crash with one
settled and one under way; two requests for one id cover conflicting resubmissions. The
safety properties hold for all other values by the theorems below. Grants and operations
are interchangeable (symmetry), except in the liveness runs, which use none.

`lease_clock`: two threads, since every race is between one call that waits for the lock and
one that overtakes it; a duration of two timeouts lets a lease be renewed, cut at its
absolute deadline and lapse before it; the horizon lets the lease run out after an issue at
instant 1. The watchdog's deadline with several grants is a minimum over them; two grants
are beyond TLC here and are covered by the theorems, which hold for any number.

`publication_store`: two retained publications, so that one can make room and one is left;
a field of two, so that it can be full of a baseline and a retained generation; three
frames, so that a sample can be older than one that was published and newer than another;
three generations, so that one is evicted. A second source only takes room in the field
(`Others`), which `Full` counts and the theorems cover.

Types are an invariant of `supervisor_life` only: of all modules they are theorems.

`supervisor_life`: a controller that is joined and the one after it, and four children, so
that one is retried, one restarted, and a reader of an earlier one is still there; one
restart in the window and one that has left it let the budget be exhausted and renewed.
One thread makes the calls: with two, restart may launch a second controller beside one
that start made in between (`supervisor.py:310` looks at neither), and the repository
nowhere says whether callers may do that. `transfer_recovery`: two transfers meet at one
destination, one of them is also asked for with another identity, one content has two
sources; two failures cover a crash in the retry after a crash. The record of `t1` always fits
its reservation; that of `t2` outgrows it with one identity only while it is publishing (so
that a crash then blocks the ledger and a finished call does not), with the other for good;
the limit is short of what both may then take. `hive_lineage`: two leaders
and two generations race for a generation and lose it; `MaxStored`, the bundle objects that are
stored, published or not, leaves room for one that lost. Its members take nothing: one refuses
the bundle and one passes over it, which is where a bundle might be counted wrongly; the member
that takes bundles is in `hive_live`, which checks the same contract, and the hive's proofs
cover all other values. `hive_live`: the member admits either candidate, in either order, so
that its field can be two bundles ahead of its file, and an interrupted adoption of the
configured program stops it at either generation; one leader because `PromotedOnce` is about a leader's repeated passes
(two leaders do publish the same capsules, one after the other, and nothing in the code is
meant to prevent it). With one scout each candidate is published once: a further bundle of an
assessed configured program, which `Stalls` names and excepts from `MembersCatchUp`, does not
occur in the run, and neither do capsules added between two bundles, which the proof of
`NothingPromotedTwice` covers. A second scout or a third candidate takes the check of the
liveness property beyond five minutes.

Fairness (`SurfaceBroker!Fairness`), weak in every part. The watchdog is a daemon thread
that wakes at the next deadline (`core.py:2813`), so collecting, reporting and
neutralising do happen while it lives. The thread in `submit_intent` gets its
source's lock in the end, since holders of it leave: each is a handler or a
delivery, and a delivery returns or raises. Nothing is assumed of clients, the host or
time: nobody has to revoke, ask, approve or capture, and a lease need not lapse.

`SurfaceLease`: weak for the clock, for the watchdog, and for the reservation that keeps the
lock, whose append returns or raises; nothing of holders and hosts. That the watchdog comes
back from fencing means that a delivery which holds the source's lock ends.

`SurfaceSupervisor`: weak for every controller thread, whose waits all have timeouts; nothing
of callers, children, readers or time. `SurfaceTransfer`: weak for the steps of the call
that holds the lock, strong for retries with the content the caller declared, which is
what "keeps being retried" means: a removed or foreign file may make a retry impossible for a while.
`HiveExchange`: strong for each step of a member's session, from its opening to its close,
because a crash, a store error or a failed write may come in place of any of them any number of
times, but not for ever in place of the same one; the close is among them because a session
whose last write failed may have nothing else to write its file for. Nothing of leaders,
reviewers or revocations.

Every property of a passing run has a mutant in `PROJECT.json`: a plausible bug in a
mapped definition (an epoch check dropped from `grant`, a revocation that does not wait for
the source's lock, a lease table not reset, a fence that does not look at the record...)
which makes TLC find that property violated under the same configuration.

## 4. What is proved

For all sets of bindings, domains, grants, operations and so on, all bounds, all choices of
faults. The only assumptions are those named in the modules: the absent values are not among the
present ones, `DomainOf` is a function from bindings to domains, bounds are numbers, faults are
those listed, the requests of transfers are finitely many. Every safety property of a passing
run, invariant, action property or refinement, is the subject of a theorem. Five theorems assume
more, and say so in their statements: that there is one leader (`NothingPromotedTwice`), room
for more than one publication (`UsableIsNewer`), or that the supervisor's callers do not race
each other (three of `SurfaceSupervisorProofs`).

* `SurfaceBrokerProofs`: `TypeCorrect`, `LeasesAreLive`, `LeaseEpochsAreUnique`,
  `AuthorityHolds`, `HumanIsAlone`, `DeliveriesStayFenced`: the types and the five safety
  invariants of the runs. Every step is first summarised: it *ends* the authority of a set of
  live grants and gives back their leases (`Ends`), with the bindings changed as that allows
  (`Fenced`), or it *issues* one grant (`Issues`). `LeaseIsLive` is inductive with the types
  alone. `LeaseEpochsUnique` needs `EpochsBounded` (no grant has an epoch its domain has not
  reached). `AuthorityUnbroken` needs `RequestParty` (which party may be in which phase) and
  `LeaseIsLive`. `HumanExcludesCassi` needs that a takeover's revocation already ended what
  lived. `DeliveryStaysFenced` is inductive because every action that writes the binding is
  guarded by the lock (`StepLocked`), with one exception, `PauseWrites`, which is shown not to
  touch what the fence looked at (`StepCovered`).
* `SurfaceBrokerProofs!BrokerKeepsContract`: the broker implements `EffectContract`, from what
  each phase says about deliveries (`Phased`) and what a step may do to one operation (`Moved`).
* `SurfaceLedgerProofs!TypeCorrect`, `LedgerKeepsContract`: the ledger implements
  `EffectContract`. The inductive invariant (`Consistent`, `Following`) says how file and memory
  may differ: memory is empty while the process is down, equal to the file while it recovers,
  and otherwise the file is never behind memory and is ahead only by rows whose append raised.
  So a crash, which replaces memory by the file, is a step that the contract allows
  (`FileFollows`).
* `EffectContractProofs`: `DeliveredAtMostOnce`, `ConclusionsAreFinal`, which both refinements
  inherit.
* `SurfaceLeaseProofs`: `Types`, `NoLostWakeup`, `LeaseWithinEnvelope`, `EndedStaysEnded`,
  `LapsedStaysLapsed`, for any number of grants and threads. The inductive invariant adds that a
  grant is issued by one call only (`IssuesOnce`; an issue overwrites the grant) and that a
  reservation's lease was live and not lapsed at the reading it validated by (`ReservesLive`:
  nobody can end it while the lock is kept). Every call that moves a deadline is one case of
  `MoveKeeps`.
* `SurfacePublicationProofs`: `Types`, `Orphans`, `Held`, `Freshness`, `UsableIsNewer` and
  `UsableSurvives`, for any sources, capacities and faults. The inductive invariant (`Sound`) is
  about one source: the field has one record per generation, none above the counter; what is
  pinned and not ignored is retained; what was retained as published is pinned. The delicate
  case is a generation that is given back after a replayed answer: it takes no other
  publication's pin, because the broker would have known the frame had the publication been its
  newest. `Fresh` says that a boundary never exceeds the counter and that everything retained
  above it is fresh, so the next generation is always above the boundary. The two action
  properties rest on a summary of what a step may do to the publications of one source (`Moves`:
  they stand, room is made, one is added, some are let go) and on `Seen`: nothing was published
  or sampled that the source has not shown, and while it is bound the last publication is not
  used up. That last part needs room for more than one publication (the code has 4): with room
  for one, a late sample evicts the only publication before the field refuses it, the field
  gives up its baseline too, and the frame that was published counts as new. `UsableSurvives`
  counts: generations and publications are equally many, and all but the oldest are newer than
  it.
* `SurfaceSupervisorProofs`: `Types` and `RestartsWithinBudget` for any callers, controllers
  and children. The budget is not inductive by itself: a controller that was charged and has
  not spawned yet holds a generation still to come, so the invariant counts those (`Ready`) as
  spent. `OneChildLives`, `EligibleSpeaksOfCurrent` and `StoppedIsChildless` are about callers
  that do not race: a caller that may restart is the only one (`RestartsAlone`), or there is
  one caller (`Solo`). These hypotheses are of the code, not of the proof: `restart` asks for
  the budget and not whether a controller that another caller's `start` made is running
  (`supervisor.py:310`), and the last writes of a stop record what it saw before it let go of
  the lock. With two callers TLC finds each of the three violated. One caller still leaves a
  controller, its predecessor, every reader and every child, also one that outlives `kill`, to
  interleave. `Held` says who may have a living child (the supervisor's process, or the
  controller that has spawned and not yet registered it, never both), `Current` what the state
  may say of it.
* `SurfaceTransferProofs`: `Types`, `NoFictitiousFile`, `IncompleteIsNamed`, `CompleteStands`,
  `RecordsStand` and `RetainedWithinLimit`. `FinishedIsWhole` is not inductive: it needs that a
  file linked from a stage is its transfer's and no other's (`FilesOwned`), and what the call
  holding the lock has established when it reaches each step (`JobKnows`: the stage it links was
  verified, the destination it finalizes holds the content unless somebody removed it).
  `RetainedBounded` is inductive; what takes work is that it is a sum, which the community
  modules fold in the order `CHOOSE` takes the elements. The lemmas before it prove that the
  fold is defined, and that it changes by what one summand changes (`SumChanges`), by induction
  over the number of transfers: the least number of transfers for which a statement fails
  (`Least`, `FoldInduction`), since no rule of the library that takes a predicate can be used.
  Then a call adds what its check found room for. The invariant (`Retaining`) names the one
  transfer whose record may be too long: a call is let in while none is (`Readable`), it then
  works on one transfer until it ends, and that transfer's receipt takes no more than its
  reservation and its excess. Nothing is assumed of how much a source adds to a record.
* `HiveExchangeProofs`: `Types`, `LineageIsDense`, `EventsAreStored`, `FieldsFollow`,
  `AdoptionsHaveReceipts`, `HiveKeepsContract` and `NothingPromotedTwice`. The inductive
  invariant adds what a leader that publishes has stored (`LeadersStore`) and, per member, what
  its session knows (`Knows`): the generation of its memory is that of its file or a later one,
  everything up to it is in the field and has its receipt (`Done`), and it works on the very next
  bundle. `FieldsFollow` then rests on this: the field is its own programs and those of a prefix;
  a program that is not in the field comes from a bundle beyond that prefix, and since the
  session works on the bundle after those it has done, the prefix is exactly those, and grows by
  that one. A write of the file (`WriteKeeps`) counts no more than has been done, and a crash
  forgets the session and keeps the rest. A single leader repeats nothing (`NothingPromotedTwice`), because in each bundle it
  still wants to publish there is a capsule that no event of that candidate has (`Wanted`),
  whoever adds capsules meanwhile; of two leaders each may read the events before the other
  publishes.

Only model-checked: the liveness properties (`ExpiryFences`, `ReservedSettles`, `LeaseEnds`,
`StopIsCarriedOut`, `DeadIsNotEligible`, `RetriesComplete`, `MembersCatchUp`), since fairness
and `ENABLED` are beyond the prover. Three properties of the supervisor are neither checked
nor proved for callers that race; see section 3.

## 5. Findings

Each is a run that TLC finds violated, quoted in `PROJECT.json`.

1. `ledger_reconcile` (`core.py:2282`): two reconciliations both pass the check, and the second
   replaces the first.
2. `hive_revoked` (`cassi_hive_adapters.py:138`): revocation is looked up before the
   admission and not handed to it, so a bundle revoked in between is committed.

Behaviours met on the way and kept as hazards with a note: the watchdog frees a domain
while the expired grant's input is under way (`core.py:2819`); updates of one grant can
overtake each other between the two locks (`core.py:1911`); a full ledger ends the watchdog
thread (`core.py:2824`); a reservation that was written but not synced can be followed by
a conflicting one, after which no broker starts on the file (`core.py:1901`); a member whose
session ended after a held-out assessment and before the receipt is refused its own retry
(`cassi_field_hive.py:1374`), and so is every member that has assessed a configured program the
next bundle of that program; a transfer record that outgrows its 4096 bytes when it names its
source makes every later call of its ledger raise, until it is removed by hand
(`transfer.py:782`, `:679`); when an unhealthy child of the supervisor outlives its
termination, the controller records *degraded* and ends, and the child's next ready line
makes the helper *ready* again with nobody watching it (`supervisor.py:592`, `:806`); a
heartbeat that read the clock before a relinquishment and gets the lock after it takes the
relinquishment back, and a submission whose append outlasts its lease revives it
(`core.py:1832`, `:1907`); an unbind whose neutralisation is not confirmed leaves the source
uninhibited, and the second half of a takeover clears the flag whatever it stood for
(`core.py:569`, `:2635`), where `CASSI-SURFACE-DESIGN.md:375` asks to inhibit further control.

Of observations: a generation whose structure was refused is given back, and a retry gets it
as *replayed*, without a pin, so its pages go while the broker still lists it
(`core.py:1069`); after the late admission of an older sample a frame that was already
published counts as new again (`core.py:985` compares with the last publication only); a
capture that had its binding before a release or close is admitted after it, and its pin is
never given back; the baseline of a released source stays in the field for good, since the
broker calls `invalidate_surface_baseline` nowhere; samples of a released source stay until
they expire.

## 6. Not modelled, and the plan

Not modelled in the Surface so far: `bind` and rebinding of a source (all bindings are
bound in the initial state), what `close` does to authority, audio grants and audio
publications, deltas, reads of pages, previews, a change of input domain on refresh, the byte reservations of
the ledger, the mission authority, the Linux session supervisor. In the Hive: weighted
quorums and reviewer profiles, `adopt` of chosen or unpublished bundles, bundles of several
programs, capture of a member's own experience, rollouts. Backends, audio, the entity, the
field and the other projects are I/O, numerics or research programs; they appear as
nondeterministic answers where the modelled code calls them. They are also most of the
repository's lines: the field's numerics and their vendored copies alone are hundreds of
thousands, so the share of all lines that the modules stand for stays small.

Next, in this order:

1. **SurfaceBinding**: `bind`, rebinding and `close`, composed with `SurfaceBroker`: one binding
   per source, and no delivery under way when a backend is closed.
2. **SurfaceSpace**: byte reservations against the ledger's limit with scaled sizes:
   a reserved operation's rows always fit.
3. **MissionAuthority**, composed with `GrantAsk` and `GrantIssue`.
4. **LinuxSession**: `wait_ready`, `poll` and `stop` from different threads: readiness that is
   recorded after a stop, a relaunch beside one.
5. **HiveRollout**: rounds over a population, its ledger, and a member that fails half-way.
