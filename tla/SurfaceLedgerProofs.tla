------------------------ MODULE SurfaceLedgerProofs ------------------------
(***************************************************************************)
(* Proofs about SurfaceLedger for every set of operations, requests,       *)
(* verdicts and reconciling threads, every number of crashes and every way *)
(* in which appends may fail: the types, and that it implements            *)
(* EffectContract.                                                         *)
(***************************************************************************)
EXTENDS SurfaceLedger, TLAPS

USE AbsenceAssumption, FaultsAssumption, CrashesAssumption

-----------------------------------------------------------------------------
(* The inductive invariant. *)

\* what the file says rules out a delivery
NeverSent(d) == \/ d.phase \in {"none", "reserved"}
                \/ d.phase \in Concluded /\ d.disposition = "not-started"

\* memory m, file d, thread t and deliveries s of one operation, while the process
\* is up: the file is never behind memory, and may only be ahead by rows that raised
Following(m, d, t, s) ==
    /\ m.phase = "none" => d.phase \in {"none", "reserved"} /\ t = "idle"
    /\ m.phase = "reserved" =>
          /\ t \in {"idle", "waiting"} /\ s = 0
          /\ \/ d.phase \in {"reserved", "dispatching"}
             \/ d.phase = "settled" /\ d.disposition = "not-started"
    /\ m.phase = "dispatching" =>
          /\ t # "waiting" /\ (t = "dispatching" => s = 0)
          /\ \/ d.phase = "dispatching"
             \/ d.phase = "settled" /\ d.disposition \in {"certain", "uncertain"} /\ t = "idle"
    /\ m.phase \in Concluded =>
          /\ d.phase \in Concluded /\ d.disposition = m.disposition
          /\ t = "idle" \/ (t = "waiting" /\ m.disposition = "not-started")

Consistent(p, m, d, t, s) ==
    /\ s <= 1 /\ (NeverSent(d) => s = 0)
    /\ d.phase \in Concluded => d.disposition \in Dispositions
    /\ p = "down" => m = Unknown
    /\ p = "recovering" => m = d
    /\ p = "up" => Following(m, d, t, s)

AllConsistent == \A o \in Ops : Consistent(process, mem[o], durable[o], thread[o], sent[o])

\* a thread in reconcile() has seen its operation concluded
ReconcilersConsistent ==
    \A r \in Reconcilers : reconciler[r].stage # "idle" =>
        process = "up" /\ reconciler[r].op \in Ops /\ mem[reconciler[r].op].phase \in Concluded

Inv == TypeOK /\ AllConsistent /\ ReconcilersConsistent

-----------------------------------------------------------------------------
(* Records and the contract. *)

\* What each row makes of a record.
LEMMA ReservedRow ==
    ASSUME NEW q \in Requests
    PROVE  Reserved(q) \in Record /\ Reserved(q).phase = "reserved"
BY DEF Record, Phases, Reserved, Unknown

LEMMA DispatchingRow ==
    ASSUME NEW rec \in Record
    PROVE  Dispatching(rec) \in Record /\ Dispatching(rec).phase = "dispatching"
BY DEF Record, Phases, Dispatching

LEMMA SettledRow ==
    ASSUME NEW rec \in Record, NEW d \in Dispositions
    PROVE  /\ Settled(rec, d) \in Record
           /\ Settled(rec, d).phase = "settled" /\ Settled(rec, d).disposition = d
BY DEF Record, Phases, Settled, Dispositions

LEMMA ReconciledRow ==
    ASSUME NEW rec \in Record, NEW v \in Verdicts \cup {NoVerdict}
    PROVE  /\ Reconciled(rec, v) \in Record
           /\ Reconciled(rec, v).phase = "reconciled"
           /\ Reconciled(rec, v).disposition = rec.disposition
BY DEF Record, Phases, Reconciled

LEMMA AppendsType == Appends \in SUBSET {"ok", "refused", "unsynced", "torn"}
BY DEF Appends

LEMMA UnknownType == Unknown \in Record /\ Unknown.phase = "none" /\ Unknown.disposition = "none"
BY DEF Unknown, Record, Phases

\* what a client is told about one operation of record rec that was delivered s times
View(rec, s) == [status |-> Status(rec), sent |-> s,
                 outcome |-> IF Status(rec) = "concluded" THEN rec.disposition ELSE "none"]

LEMMA SeeingIsView ==
    ASSUME NEW o \in Ops
    PROVE  /\ Seeing(o) = View(Seen(o), sent[o])
           /\ Seeing(o)' = View(Seen(o)', sent'[o])
BY DEF Seeing, View

LEMMA ViewType ==
    ASSUME NEW rec \in Record, NEW s \in Nat,
           rec.phase \in Concluded => rec.disposition \in Dispositions
    PROVE  View(rec, s) \in Contract!Effects
BY DEF View, Status, Record, Phases, Concluded, Dispositions, Contract!Effects, Contract!Outcomes

\* A step of the contract, from the phases before and after it.
LEMMA ViewSteps ==
    ASSUME NEW rec \in Record, NEW rec2 \in Record, NEW s \in Nat, NEW s2 \in Nat
    PROVE  /\ Status(rec) = "none" /\ Status(rec2) = "accepted" /\ s2 = s
              => Contract!Step(View(rec, s), View(rec2, s2))
           /\ Status(rec) = Status(rec2) /\ Status(rec) # "concluded" /\ s2 = s
              => Contract!Step(View(rec, s), View(rec2, s2))
           /\ /\ Status(rec) = "concluded" /\ Status(rec2) = "concluded"
              /\ rec2.disposition = rec.disposition /\ s2 = s
              => Contract!Step(View(rec, s), View(rec2, s2))
           /\ Status(rec) = "accepted" /\ Status(rec2) = "accepted" /\ s = 0 /\ s2 = 1
              => Contract!Step(View(rec, s), View(rec2, s2))
           /\ /\ Status(rec) = "accepted" /\ Status(rec2) = "concluded" /\ s2 = s
              /\ rec2.disposition \in Dispositions
              /\ rec2.disposition = "not-started" => s = 0
              => Contract!Step(View(rec, s), View(rec2, s2))
<1> DEFINE e == View(rec, s)
           f == View(rec2, s2)
<1>1. ASSUME Status(rec) = "none", Status(rec2) = "accepted", s2 = s
      PROVE  f = [e EXCEPT !.status = "accepted"] /\ e.status = "none"
  BY <1>1 DEF View
<1>2. ASSUME Status(rec) = Status(rec2), s2 = s,
             Status(rec) = "concluded" => rec2.disposition = rec.disposition
      PROVE  f = e
  BY <1>2 DEF View
<1>3. ASSUME Status(rec) = "accepted", Status(rec2) = "accepted", s = 0, s2 = 1
      PROVE  f = [e EXCEPT !.sent = 1] /\ e.status = "accepted" /\ e.sent = 0
  BY <1>3 DEF View
<1>4. ASSUME Status(rec) = "accepted", Status(rec2) = "concluded", s2 = s
      PROVE  /\ f = [status |-> "concluded", sent |-> e.sent, outcome |-> rec2.disposition]
             /\ e.status = "accepted" /\ e.sent = s
  BY <1>4 DEF View
<1> HIDE DEF e, f
<1>5. Status(rec) = "none" /\ Status(rec2) = "accepted" /\ s2 = s => Contract!Step(e, f)
  BY <1>1 DEF Contract!Step, Contract!Accepts
<1>6. /\ Status(rec) = Status(rec2) /\ s2 = s
      /\ Status(rec) = "concluded" => rec2.disposition = rec.disposition
      => Contract!Step(e, f)
  BY <1>2 DEF Contract!Step
<1>7. Status(rec) = "accepted" /\ Status(rec2) = "accepted" /\ s = 0 /\ s2 = 1
      => Contract!Step(e, f)
  BY <1>3 DEF Contract!Step, Contract!Delivers
<1>8. /\ Status(rec) = "accepted" /\ Status(rec2) = "concluded" /\ s2 = s
      /\ rec2.disposition \in Dispositions
      /\ rec2.disposition = "not-started" => s = 0
      => Contract!Step(e, f)
  BY <1>4 DEF Contract!Step, Contract!Concludes, Contract!Outcomes, Dispositions
<1> QED BY <1>5, <1>6, <1>7, <1>8 DEF e, f

-----------------------------------------------------------------------------
(* What every step shares. *)

\* What is seen of a consistent operation has an outcome once it is concluded.
LEMMA SeenConcluded ==
    ASSUME NEW p, NEW m \in Record, NEW d \in Record, NEW t, NEW s, Consistent(p, m, d, t, s),
           p \in {"down", "recovering", "up"}, NEW seen, seen = IF p = "down" THEN d ELSE m
    PROVE  seen \in Record /\ (seen.phase \in Concluded => seen.disposition \in Dispositions)
BY DEF Consistent, Following

\* Consistent operations make a state of the contract.
LEMMA ContractState ==
    ASSUME TypeOK', AllConsistent'
    PROVE  [o \in Ops |-> Seeing(o)]' \in [Ops -> Contract!Effects]
<1>1. ASSUME NEW o \in Ops PROVE Seeing(o)' \in Contract!Effects
  <2>1. /\ mem'[o] \in Record /\ durable'[o] \in Record /\ sent'[o] \in Nat
        /\ process' \in {"down", "recovering", "up"}
        /\ Consistent(process', mem'[o], durable'[o], thread'[o], sent'[o])
    BY DEF TypeOK, AllConsistent
  <2>2. Seen(o)' = IF process' = "down" THEN durable'[o] ELSE mem'[o]
    BY DEF Seen
  <2>3. Seen(o)' \in Record /\ (Seen(o)'.phase \in Concluded => Seen(o)'.disposition \in Dispositions)
    BY <2>1, <2>2, SeenConcluded
  <2> QED BY <2>1, <2>3, ViewType, SeeingIsView
<1> QED BY <1>1

\* A step of the contract is one of each operation's.
LEMMA ContractStep ==
    ASSUME TypeOK', AllConsistent', \A o \in Ops : Contract!Step(Seeing(o), Seeing(o)')
    PROVE  Contract!Next
BY ContractState DEF Contract!Next

\* A handler that writes one operation only has to keep that one consistent and to
\* take a step of the contract with it.
LEMMA OneOperation ==
    ASSUME Inv, TypeOK', NEW o \in Ops, process' = process,
           \A p \in Ops : p # o => /\ mem'[p] = mem[p] /\ durable'[p] = durable[p]
                                  /\ thread'[p] = thread[p] /\ sent'[p] = sent[p],
           Consistent(process, mem'[o], durable'[o], thread'[o], sent'[o]),
           Contract!Step(Seeing(o), Seeing(o)')
    PROVE  AllConsistent' /\ Contract!Next
<1>1. AllConsistent'
  <2> SUFFICES ASSUME NEW p \in Ops
               PROVE  Consistent(process', mem'[p], durable'[p], thread'[p], sent'[p])
    BY DEF AllConsistent
  <2>1. CASE p = o
    BY <2>1
  <2>2. CASE p # o
    BY <2>2 DEF Inv, AllConsistent
  <2> QED BY <2>1, <2>2
<1>2. ASSUME NEW p \in Ops, p # o PROVE Seeing(p)' = Seeing(p)
  BY <1>2 DEF Seeing, Seen
<1>3. \A p \in Ops : Contract!Step(Seeing(p), Seeing(p)')
  BY <1>2 DEF Contract!Step
<1> QED BY <1>1, <1>3, ContractStep

\* A thread in reconcile() keeps its operation concluded.
LEMMA ReconcilersStay ==
    ASSUME ReconcilersConsistent, process' = process, reconciler' = reconciler,
           \A o \in Ops : mem[o].phase \in Concluded => mem'[o].phase \in Concluded
    PROVE  ReconcilersConsistent'
BY DEF ReconcilersConsistent

\* An append writes its record to the file, or not, and to memory if it returned.
LEMMA AppendsRecord ==
    ASSUME TypeOK, NEW o \in Ops, NEW rd \in Record, NEW rm \in Record, NEW w \in Appends,
           Append(o, rd, w), Remember(o, rm, w)
    PROVE  /\ durable' \in [Ops -> Record] /\ mem' \in [Ops -> Record] /\ unreadable' \in BOOLEAN
           /\ \A p \in Ops : p # o => mem'[p] = mem[p] /\ durable'[p] = durable[p]
           /\ w = "ok" => durable'[o] = rd /\ mem'[o] = rm
           /\ w # "ok" => mem'[o] = mem[o] /\ durable'[o] \in {durable[o], rd}
BY AppendsType DEF TypeOK, Append, Remember

\* What a handler of a running process owes about the operation it handles.
LEMMA Handler ==
    ASSUME Inv, NEW o \in Ops, process = "up",
           UNCHANGED <<process, reconciler, crashes>>,
           durable' \in [Ops -> Record], mem' \in [Ops -> Record], unreadable' \in BOOLEAN,
           thread' \in [Ops -> {"idle", "waiting", "dispatching", "delivered"}],
           sent' \in [Ops -> Nat],
           \A p \in Ops : p # o => /\ mem'[p] = mem[p] /\ durable'[p] = durable[p]
                                  /\ thread'[p] = thread[p] /\ sent'[p] = sent[p],
           mem[o].phase \in Concluded => mem'[o].phase \in Concluded,
           Consistent("up", mem'[o], durable'[o], thread'[o], sent'[o]),
           Contract!Step(View(mem[o], sent[o]), View(mem'[o], sent'[o]))
    PROVE  Inv' /\ Contract!Next
<1>1. TypeOK'
  BY DEF Inv, TypeOK
<1>2. Contract!Step(Seeing(o), Seeing(o)')
  BY SeeingIsView DEF Seen
<1>3. AllConsistent' /\ Contract!Next
  BY <1>1, <1>2, OneOperation
<1>4. ReconcilersConsistent'
  BY ReconcilersStay DEF Inv
<1> QED BY <1>1, <1>3, <1>4 DEF Inv

\* What is known of one operation of a running process.
LEMMA Running ==
    ASSUME Inv, NEW o \in Ops, process = "up"
    PROVE  /\ mem[o] \in Record /\ durable[o] \in Record /\ sent[o] \in Nat
           /\ thread[o] \in {"idle", "waiting", "dispatching", "delivered"}
           /\ Consistent("up", mem[o], durable[o], thread[o], sent[o])
BY DEF Inv, TypeOK, AllConsistent

LEMMA SubmitSteps ==
    ASSUME Inv, NEW o \in Ops, NEW q \in Requests, Submit(o, q)
    PROVE  Inv' /\ Contract!Next
<1>1. PICK w \in Appends :
        /\ durable' = IF w \in {"ok", "unsynced"} THEN [durable EXCEPT ![o] = Reserved(q)] ELSE durable
        /\ unreadable' \in BOOLEAN
        /\ mem' = IF w = "ok" THEN [mem EXCEPT ![o] = Reserved(q)] ELSE mem
        /\ thread' = IF w = "ok" THEN [thread EXCEPT ![o] = "waiting"] ELSE thread
  BY DEF Submit, Remember, Inv, TypeOK
<1>2. /\ process = "up" /\ mem[o].phase = "none" /\ sent' = sent
      /\ UNCHANGED <<process, reconciler, crashes>>
  BY DEF Submit
<1>3. Reserved(q) \in Record /\ Reserved(q).phase = "reserved"
  BY ReservedRow
<1>4. /\ mem \in [Ops -> Record] /\ durable \in [Ops -> Record] /\ sent \in [Ops -> Nat]
      /\ thread \in [Ops -> {"idle", "waiting", "dispatching", "delivered"}]
  BY DEF Inv, TypeOK
<1>5. /\ durable[o].phase \in {"none", "reserved"} /\ thread[o] = "idle" /\ sent[o] = 0
      /\ Consistent("up", mem[o], durable[o], thread[o], sent[o])
  BY <1>2, Running DEF Consistent, Following, NeverSent
<1>6. /\ mem' \in [Ops -> Record] /\ durable' \in [Ops -> Record]
      /\ thread' \in [Ops -> {"idle", "waiting", "dispatching", "delivered"}]
      /\ \A p \in Ops : p # o => /\ mem'[p] = mem[p] /\ durable'[p] = durable[p]
                             /\ thread'[p] = thread[p]
  BY <1>1, <1>3, <1>4
<1>7. durable'[o] = durable[o] \/ durable'[o] = Reserved(q)
  BY <1>1, <1>4
<1>8. CASE w = "ok"
  <2>1. /\ mem'[o] = Reserved(q) /\ durable'[o] = Reserved(q) /\ thread'[o] = "waiting"
        /\ sent'[o] = 0
    BY <1>1, <1>2, <1>4, <1>5, <1>8
  <2>2. Consistent("up", mem'[o], durable'[o], thread'[o], sent'[o])
    BY <2>1, <1>3 DEF Consistent, Following, NeverSent, Concluded
  <2>3. Status(mem[o]) = "none" /\ Status(mem'[o]) = "accepted"
    BY <2>1, <1>2, <1>3 DEF Status
  <2>4. Contract!Step(View(mem[o], sent[o]), View(mem'[o], sent'[o]))
    BY <2>3, <1>2, <1>4, <1>6, ViewSteps
  <2> QED BY <1>1, <1>2, <1>4, <1>6, <2>2, <2>4, Handler DEF Concluded
<1>9. CASE w # "ok"
  <2>1. mem'[o] = mem[o] /\ thread'[o] = "idle" /\ sent'[o] = 0
    BY <1>1, <1>2, <1>4, <1>5, <1>9
  <2>2. Consistent("up", mem'[o], durable'[o], thread'[o], sent'[o])
    BY <2>1, <1>2, <1>3, <1>5, <1>7 DEF Consistent, Following, NeverSent, Concluded
  <2>3. Contract!Step(View(mem[o], sent[o]), View(mem'[o], sent'[o]))
    BY <2>1, <1>2 DEF Contract!Step
  <2> QED BY <1>1, <1>2, <1>4, <1>6, <2>1, <2>2, <2>3, Handler
<1> QED BY <1>8, <1>9

\* A handler that appends one row of an operation and remembers it if that returned.
LEMMA AppendingHandler ==
    ASSUME Inv, NEW o \in Ops, process = "up", UNCHANGED <<process, sent, reconciler, crashes>>,
           NEW rd \in Record, NEW rm \in Record, NEW w \in Appends,
           Append(o, rd, w), Remember(o, rm, w),
           NEW t \in {"idle", "waiting", "dispatching", "delivered"},
           thread' = [thread EXCEPT ![o] = t],
           mem[o].phase \in Concluded => rm.phase \in Concluded,
           w = "ok" => /\ Consistent("up", rm, rd, t, sent[o])
                       /\ Contract!Step(View(mem[o], sent[o]), View(rm, sent[o])),
           w # "ok" => \A d \in {durable[o], rd} : Consistent("up", mem[o], d, t, sent[o])
    PROVE  Inv' /\ Contract!Next
<1>1. /\ durable' \in [Ops -> Record] /\ mem' \in [Ops -> Record] /\ unreadable' \in BOOLEAN
      /\ \A p \in Ops : p # o => mem'[p] = mem[p] /\ durable'[p] = durable[p]
      /\ w = "ok" => durable'[o] = rd /\ mem'[o] = rm
      /\ w # "ok" => mem'[o] = mem[o] /\ durable'[o] \in {durable[o], rd}
  BY AppendsRecord DEF Inv
<1>2. /\ thread' \in [Ops -> {"idle", "waiting", "dispatching", "delivered"}]
      /\ thread'[o] = t /\ \A p \in Ops : p # o => thread'[p] = thread[p]
      /\ sent' = sent /\ sent' \in [Ops -> Nat]
  BY DEF Inv, TypeOK
<1>3. Consistent("up", mem'[o], durable'[o], thread'[o], sent'[o])
  BY <1>1, <1>2
<1>4. Contract!Step(View(mem[o], sent[o]), View(mem'[o], sent'[o]))
  BY <1>1, <1>2 DEF Contract!Step
<1>5. mem[o].phase \in Concluded => mem'[o].phase \in Concluded
  BY <1>1
<1> QED BY <1>1, <1>2, <1>3, <1>4, <1>5, Handler

LEMMA FenceRefusesSteps ==
    ASSUME Inv, NEW o \in Ops, FenceRefuses(o)
    PROVE  Inv' /\ Contract!Next
<1> DEFINE rd == Settled(durable[o], "not-started")
           rm == Settled(mem[o], "not-started")
<1>1. PICK w \in Appends : Append(o, rd, w) /\ Remember(o, rm, w)
  BY DEF FenceRefuses
<1>2. /\ thread[o] = "waiting" /\ thread' = [thread EXCEPT ![o] = "idle"]
      /\ UNCHANGED <<process, sent, reconciler, crashes>>
  BY DEF FenceRefuses
<1>3. process = "up"
  BY <1>2 DEF Inv, TypeOK
<1>4. /\ mem[o] \in Record /\ durable[o] \in Record /\ sent[o] \in Nat
      /\ Consistent("up", mem[o], durable[o], thread[o], sent[o])
  BY <1>3, Running
<1>5. /\ rd \in Record /\ rd.phase = "settled" /\ rd.disposition = "not-started"
      /\ rm \in Record /\ rm.phase = "settled" /\ rm.disposition = "not-started"
  BY <1>4, SettledRow DEF Dispositions
<1>6. /\ sent[o] = 0
      /\ \/ mem[o].phase = "reserved"
         \/ mem[o].phase \in Concluded /\ mem[o].disposition = "not-started"
  BY <1>2, <1>4 DEF Consistent, Following, NeverSent, Record, Phases, Concluded
<1> HIDE DEF rd, rm
<1>7. Consistent("up", rm, rd, "idle", sent[o])
  BY <1>5, <1>6 DEF Consistent, Following, NeverSent, Concluded, Dispositions
<1>8. Contract!Step(View(mem[o], sent[o]), View(rm, sent[o]))
  BY <1>4, <1>5, <1>6, ViewSteps DEF Status, Concluded, Dispositions
<1>9. \A d \in {durable[o], rd} : Consistent("up", mem[o], d, "idle", sent[o])
  BY <1>2, <1>4, <1>5, <1>6 DEF Consistent, Following, NeverSent, Concluded, Dispositions
<1>10. rm.phase \in Concluded
  BY <1>5 DEF Concluded
<1> QED BY <1>1, <1>2, <1>3, <1>5, <1>7, <1>8, <1>9, <1>10, AppendingHandler

LEMMA FenceSteps ==
    ASSUME Inv, NEW o \in Ops, Fence(o)
    PROVE  Inv' /\ Contract!Next
<1> DEFINE rd == Dispatching(durable[o])
           rm == Dispatching(mem[o])
<1>1. PICK w \in Appends :
        /\ Append(o, rd, w) /\ Remember(o, rm, w)
        /\ thread' = [thread EXCEPT ![o] = IF w = "ok" THEN "dispatching" ELSE "idle"]
  BY DEF Fence
<1>2. /\ thread[o] = "waiting" /\ mem[o].phase = "reserved"
      /\ UNCHANGED <<process, sent, reconciler, crashes>>
  BY DEF Fence, MayDispatch
<1>3. process = "up"
  BY <1>2 DEF Inv, TypeOK
<1>4. /\ mem[o] \in Record /\ durable[o] \in Record /\ sent[o] \in Nat
      /\ Consistent("up", mem[o], durable[o], thread[o], sent[o])
  BY <1>3, Running
<1>5. rd \in Record /\ rd.phase = "dispatching" /\ rm \in Record /\ rm.phase = "dispatching"
  BY <1>4, DispatchingRow
<1>6. sent[o] = 0
  BY <1>2, <1>4 DEF Consistent, Following
<1> HIDE DEF rd, rm
<1>7. Consistent("up", rm, rd, "dispatching", sent[o])
  BY <1>5, <1>6 DEF Consistent, Following, NeverSent, Concluded
<1>8. Contract!Step(View(mem[o], sent[o]), View(rm, sent[o]))
  BY <1>2, <1>4, <1>5, ViewSteps DEF Status
<1>9. \A d \in {durable[o], rd} : Consistent("up", mem[o], d, "idle", sent[o])
  BY <1>2, <1>4, <1>5, <1>6 DEF Consistent, Following, NeverSent, Concluded
<1>10. mem[o].phase \notin Concluded
  BY <1>2 DEF Concluded
<1>11. CASE w = "ok"
  BY <1>1, <1>2, <1>3, <1>5, <1>7, <1>8, <1>10, <1>11, AppendingHandler
<1>12. CASE w # "ok"
  BY <1>1, <1>2, <1>3, <1>5, <1>9, <1>10, <1>12, AppendingHandler
<1> QED BY <1>11, <1>12

LEMMA DeliverSteps ==
    ASSUME Inv, NEW o \in Ops, Deliver(o)
    PROVE  Inv' /\ Contract!Next
<1>1. /\ thread[o] = "dispatching" /\ thread' = [thread EXCEPT ![o] = "delivered"]
      /\ sent' = [sent EXCEPT ![o] = @ + 1]
      /\ UNCHANGED <<durable, unreadable, process, mem, reconciler, crashes>>
  BY DEF Deliver
<1>2. process = "up"
  BY <1>1 DEF Inv, TypeOK
<1>3. /\ mem[o] \in Record /\ durable[o] \in Record /\ sent[o] \in Nat
      /\ Consistent("up", mem[o], durable[o], thread[o], sent[o])
  BY <1>2, Running
<1>4. mem[o].phase = "dispatching" /\ durable[o].phase = "dispatching" /\ sent[o] = 0
  BY <1>1, <1>3 DEF Consistent, Following, Record, Phases, Concluded
<1>5. /\ thread' \in [Ops -> {"idle", "waiting", "dispatching", "delivered"}]
      /\ sent' \in [Ops -> Nat] /\ thread'[o] = "delivered" /\ sent'[o] = 1
      /\ \A p \in Ops : p # o => thread'[p] = thread[p] /\ sent'[p] = sent[p]
      /\ durable' \in [Ops -> Record] /\ mem' \in [Ops -> Record] /\ unreadable' \in BOOLEAN
  BY <1>1, <1>4 DEF Inv, TypeOK
<1>6. Consistent("up", mem'[o], durable'[o], thread'[o], sent'[o])
  BY <1>1, <1>4, <1>5 DEF Consistent, Following, NeverSent, Concluded
<1>7. Contract!Step(View(mem[o], sent[o]), View(mem'[o], sent'[o]))
  BY <1>1, <1>3, <1>4, <1>5, ViewSteps DEF Status
<1> QED BY <1>1, <1>2, <1>5, <1>6, <1>7, Handler

LEMMA SettleSteps ==
    ASSUME Inv, NEW o \in Ops, Settle(o)
    PROVE  Inv' /\ Contract!Next
<1>1. PICK e \in {"certain", "uncertain"}, w \in Appends :
        Append(o, Settled(durable[o], e), w) /\ Remember(o, Settled(mem[o], e), w)
  BY DEF Settle
<1> DEFINE rd == Settled(durable[o], e)
           rm == Settled(mem[o], e)
<1>2. /\ thread[o] \in {"dispatching", "delivered"} /\ thread' = [thread EXCEPT ![o] = "idle"]
      /\ UNCHANGED <<process, sent, reconciler, crashes>>
  BY DEF Settle
<1>3. process = "up"
  BY <1>2 DEF Inv, TypeOK
<1>4. /\ mem[o] \in Record /\ durable[o] \in Record /\ sent[o] \in Nat
      /\ Consistent("up", mem[o], durable[o], thread[o], sent[o])
  BY <1>3, Running
<1>5. /\ rd \in Record /\ rd.phase = "settled" /\ rd.disposition = e
      /\ rm \in Record /\ rm.phase = "settled" /\ rm.disposition = e
  <2>1. e \in Dispositions
    BY DEF Dispositions
  <2>2. rd \in Record /\ rd.phase = "settled" /\ rd.disposition = e
    BY <2>1, <1>4, SettledRow
  <2>3. rm \in Record /\ rm.phase = "settled" /\ rm.disposition = e
    BY <2>1, <1>4, SettledRow
  <2> QED BY <2>2, <2>3
<1>6. mem[o].phase = "dispatching" /\ durable[o].phase = "dispatching" /\ sent[o] <= 1
  BY <1>2, <1>4 DEF Consistent, Following, Record, Phases, Concluded
<1> HIDE DEF rd, rm
<1>7. Consistent("up", rm, rd, "idle", sent[o])
  BY <1>5, <1>6 DEF Consistent, Following, NeverSent, Concluded, Dispositions
<1>8. Contract!Step(View(mem[o], sent[o]), View(rm, sent[o]))
  BY <1>4, <1>5, <1>6, ViewSteps DEF Status, Dispositions
<1>9. \A d \in {durable[o], rd} : Consistent("up", mem[o], d, "idle", sent[o])
  BY <1>4, <1>5, <1>6 DEF Consistent, Following, NeverSent, Concluded, Dispositions
<1>10. rm.phase \in Concluded
  BY <1>5 DEF Concluded
<1>11. Append(o, rd, w) /\ Remember(o, rm, w)
  BY <1>1 DEF rd, rm
<1> QED BY <1>2, <1>3, <1>5, <1>7, <1>8, <1>9, <1>10, <1>11, AppendingHandler

LEMMA CancelSteps ==
    ASSUME Inv, NEW o \in Ops, Cancel(o)
    PROVE  Inv' /\ Contract!Next
<1> DEFINE rd == Settled(durable[o], "not-started")
           rm == Settled(mem[o], "not-started")
<1>1. PICK w \in Appends : Append(o, rd, w) /\ Remember(o, rm, w)
  BY DEF Cancel
<1>2. /\ process = "up" /\ mem[o].phase = "reserved"
      /\ UNCHANGED <<process, thread, sent, reconciler, crashes>>
  BY DEF Cancel, MayCancel
<1>3. /\ mem[o] \in Record /\ durable[o] \in Record /\ sent[o] \in Nat
      /\ thread[o] \in {"idle", "waiting", "dispatching", "delivered"}
      /\ Consistent("up", mem[o], durable[o], thread[o], sent[o])
  BY <1>2, Running
<1>4. rd \in Record /\ rm \in Record
  BY <1>3, SettledRow DEF Dispositions
<1>5. /\ rd.phase = "settled" /\ rd.disposition = "not-started"
      /\ rm.phase = "settled" /\ rm.disposition = "not-started"
  BY <1>3, SettledRow DEF Dispositions
<1>6. sent[o] = 0 /\ thread[o] \in {"idle", "waiting"}
  BY <1>2, <1>3 DEF Consistent, Following
<1> HIDE DEF rd, rm
<1>7. \A t \in {"idle", "waiting"} : Consistent("up", rm, rd, t, sent[o])
  BY <1>5, <1>6 DEF Consistent, Following, NeverSent, Concluded, Dispositions
<1>8. Contract!Step(View(mem[o], sent[o]), View(rm, sent[o]))
  BY <1>2, <1>3, <1>4, <1>5, <1>6, ViewSteps DEF Status, Dispositions
<1>9. \A d \in {durable[o], rd} : Consistent("up", mem[o], d, thread[o], sent[o])
  BY <1>2, <1>3, <1>5, <1>6 DEF Consistent, Following, NeverSent, Concluded, Dispositions
<1>10. rm.phase \in Concluded
  BY <1>5 DEF Concluded
<1>11. process = "up" /\ UNCHANGED <<process, sent, reconciler, crashes>>
  BY <1>2
<1>12. CASE thread[o] = "idle"
  <2>1. thread' = [thread EXCEPT ![o] = "idle"]
    BY <1>2, <1>12 DEF Inv, TypeOK
  <2>2. Consistent("up", rm, rd, "idle", sent[o])
    BY <1>7
  <2>3. \A d \in {durable[o], rd} : Consistent("up", mem[o], d, "idle", sent[o])
    BY <1>9, <1>12
  <2> QED BY <1>1, <1>4, <1>8, <1>10, <1>11, <2>1, <2>2, <2>3, AppendingHandler
<1>13. CASE thread[o] = "waiting"
  <2>1. thread' = [thread EXCEPT ![o] = "waiting"]
    BY <1>2, <1>13 DEF Inv, TypeOK
  <2>2. Consistent("up", rm, rd, "waiting", sent[o])
    BY <1>7
  <2>3. \A d \in {durable[o], rd} : Consistent("up", mem[o], d, "waiting", sent[o])
    BY <1>9, <1>13
  <2> QED BY <1>1, <1>4, <1>8, <1>10, <1>11, <2>1, <2>2, <2>3, AppendingHandler
<1> QED BY <1>6, <1>12, <1>13

\* A step that changes nothing a client sees is a stutter of the contract.
LEMMA Unseen ==
    ASSUME TypeOK', AllConsistent', \A o \in Ops : Seeing(o)' = Seeing(o)
    PROVE  Contract!Next
<1>1. \A o \in Ops : Contract!Step(Seeing(o), Seeing(o)')
  BY DEF Contract!Step
<1> QED BY <1>1, ContractStep

LEMMA ReconcileChecksSteps ==
    ASSUME Inv, NEW r \in Reconcilers, NEW o \in Ops, NEW v \in Verdicts, ReconcileChecks(r, o, v)
    PROVE  Inv' /\ Contract!Next
<1> DEFINE new == [stage |-> "checked", op |-> o, verdict |-> v]
<1>1. /\ process = "up" /\ mem[o].phase \in Concluded
      /\ reconciler' = [reconciler EXCEPT ![r] = new]
      /\ UNCHANGED <<durable, unreadable, process, mem, thread, sent, crashes>>
  BY DEF ReconcileChecks
<1>2. new \in [stage : {"idle", "checked", "appended"}, op : Ops \cup {NoOp},
               verdict : Verdicts \cup {NoVerdict}]
  OBVIOUS
<1>3. new.op = o
  OBVIOUS
<1> HIDE DEF new
<1>4. TypeOK'
  BY <1>1, <1>2 DEF Inv, TypeOK
<1>5. AllConsistent'
  BY <1>1 DEF Inv, AllConsistent
<1>6. ReconcilersConsistent'
  BY <1>1, <1>3 DEF Inv, TypeOK, ReconcilersConsistent
<1>7. \A p \in Ops : Seeing(p)' = Seeing(p)
  BY <1>1 DEF Seeing, Seen
<1> QED BY <1>4, <1>5, <1>6, <1>7, Unseen DEF Inv

\* A thread in reconcile() that goes on, or leaves it.
LEMMA ReconcilerType ==
    ASSUME TypeOK, NEW r \in Reconcilers
    PROVE  LET T == [stage : {"idle", "checked", "appended"}, op : Ops \cup {NoOp},
                     verdict : Verdicts \cup {NoVerdict}]
           IN  /\ reconciler[r] \in T /\ Idle \in T /\ Idle.stage = "idle"
               /\ [reconciler[r] EXCEPT !.stage = "appended"] \in T
               /\ [reconciler[r] EXCEPT !.stage = "appended"].op = reconciler[r].op
BY DEF TypeOK, Idle

LEMMA ReconcileAppendsSteps ==
    ASSUME Inv, NEW r \in Reconcilers, ReconcileAppends(r)
    PROVE  Inv' /\ Contract!Next
<1>0. PICK o \in Ops : o = reconciler[r].op /\ process = "up" /\ mem[o].phase \in Concluded
  BY DEF ReconcileAppends, Inv, ReconcilersConsistent
<1> DEFINE rd == Reconciled(durable[o], reconciler[r].verdict)
           on == [reconciler[r] EXCEPT !.stage = "appended"]
           T == [stage : {"idle", "checked", "appended"}, op : Ops \cup {NoOp},
                 verdict : Verdicts \cup {NoVerdict}]
<1>1. PICK w \in Appends :
        /\ Append(o, rd, w)
        /\ reconciler' = [reconciler EXCEPT ![r] = IF w = "ok" THEN on ELSE Idle]
  BY <1>0 DEF ReconcileAppends
<1>2. reconciler[r].stage = "checked" /\ UNCHANGED <<process, mem, thread, sent, crashes>>
  BY DEF ReconcileAppends
<1>3. process = "up" /\ mem[o].phase \in Concluded
  BY <1>0
<1>4. reconciler[r].verdict \in Verdicts \cup {NoVerdict} /\ reconciler[r] \in T
  BY DEF Inv, TypeOK
<1>5. /\ mem[o] \in Record /\ durable[o] \in Record
      /\ Consistent("up", mem[o], durable[o], thread[o], sent[o])
  BY <1>3, Running
<1>6. rd \in Record /\ rd.phase = "reconciled" /\ rd.disposition = durable[o].disposition
  BY <1>4, <1>5, ReconciledRow
<1>7. on \in T /\ on.op = o /\ Idle \in T /\ Idle.stage = "idle"
  BY <1>0, ReconcilerType DEF Inv
<1>8. /\ reconciler \in [Reconcilers -> T] /\ durable \in [Ops -> Record]
      /\ thread \in [Ops -> {"idle", "waiting", "dispatching", "delivered"}]
  BY DEF Inv, TypeOK
<1> HIDE DEF rd, on, T
<1>9. /\ durable' \in [Ops -> Record] /\ unreadable' \in BOOLEAN
      /\ durable'[o] \in {durable[o], rd}
      /\ \A p \in Ops : p # o => durable'[p] = durable[p]
  BY <1>1, <1>3, <1>6, <1>8 DEF Append, Inv, TypeOK
<1>10. reconciler' \in [Reconcilers -> T]
  BY <1>1, <1>7, <1>8
<1>11. TypeOK'
  BY <1>2, <1>3, <1>9, <1>10 DEF Inv, TypeOK, T
<1>12. Consistent("up", mem[o], durable'[o], thread[o], sent[o])
  BY <1>3, <1>5, <1>6, <1>9 DEF Consistent, Following, NeverSent, Concluded
<1>13. AllConsistent'
  BY <1>2, <1>3, <1>9, <1>12 DEF Inv, AllConsistent
<1>14. ReconcilersConsistent'
  BY <1>1, <1>2, <1>3, <1>7, <1>8 DEF Inv, ReconcilersConsistent
<1>15. \A p \in Ops : Seeing(p)' = Seeing(p)
  BY <1>2, <1>3 DEF Seeing, Seen
<1> QED BY <1>11, <1>13, <1>14, <1>15, Unseen DEF Inv

LEMMA ReconcileRecordsSteps ==
    ASSUME Inv, NEW r \in Reconcilers, ReconcileRecords(r)
    PROVE  Inv' /\ Contract!Next
<1>0. PICK o \in Ops : o = reconciler[r].op /\ process = "up" /\ mem[o].phase \in Concluded
  BY DEF ReconcileRecords, Inv, ReconcilersConsistent
<1> DEFINE rm == Reconciled(mem[o], reconciler[r].verdict)
<1>1. /\ reconciler[r].stage = "appended" /\ mem' = [mem EXCEPT ![o] = rm]
      /\ reconciler' = [reconciler EXCEPT ![r] = Idle]
      /\ UNCHANGED <<durable, unreadable, process, thread, sent, crashes>>
  BY <1>0 DEF ReconcileRecords
<1>2. process = "up" /\ mem[o].phase \in Concluded
  BY <1>0
<1>3. /\ mem[o] \in Record /\ durable[o] \in Record /\ sent[o] \in Nat
      /\ Consistent("up", mem[o], durable[o], thread[o], sent[o])
  BY <1>2, Running
<1>4. reconciler[r].verdict \in Verdicts \cup {NoVerdict}
  BY DEF Inv, TypeOK
<1>5. rm \in Record /\ rm.phase = "reconciled" /\ rm.disposition = mem[o].disposition
  BY <1>3, <1>4, ReconciledRow
<1> HIDE DEF rm
<1>6. /\ mem' \in [Ops -> Record] /\ mem'[o] = rm
      /\ \A p \in Ops : p # o => mem'[p] = mem[p]
  BY <1>1, <1>2, <1>5 DEF Inv, TypeOK
<1>7. TypeOK'
  BY <1>1, <1>2, <1>6, ReconcilerType DEF Inv, TypeOK
<1>8. Consistent("up", mem'[o], durable'[o], thread'[o], sent'[o])
  BY <1>1, <1>2, <1>3, <1>5, <1>6 DEF Consistent, Following, NeverSent, Concluded
<1>9. Contract!Step(View(mem[o], sent[o]), View(mem'[o], sent'[o]))
  BY <1>1, <1>2, <1>3, <1>5, <1>6, ViewSteps DEF Status, Concluded
<1>10. Contract!Step(Seeing(o), Seeing(o)')
  BY <1>1, <1>2, <1>9, SeeingIsView DEF Seen
<1>11. AllConsistent' /\ Contract!Next
  BY <1>1, <1>2, <1>6, <1>7, <1>8, <1>10, OneOperation
<1>12. \A p \in Ops : mem[p].phase \in Concluded => mem'[p].phase \in Concluded
  BY <1>5, <1>6 DEF Concluded
<1>13. ReconcilersConsistent'
  BY <1>1, <1>2, <1>12, ReconcilerType DEF Inv, ReconcilersConsistent, TypeOK
<1> QED BY <1>7, <1>11, <1>13 DEF Inv

-----------------------------------------------------------------------------
(* Crashes, replay and recovery. *)

\* When memory is lost, what the file says is a step of the contract from it.
LEMMA FileFollows ==
    ASSUME NEW p \in {"recovering", "up"}, NEW m \in Record, NEW d \in Record, NEW t, NEW s \in Nat,
           Consistent(p, m, d, t, s)
    PROVE  Contract!Step(View(m, s), View(d, s))
<1>1. CASE p = "recovering"
  BY <1>1 DEF Consistent, Contract!Step
<1>2. CASE p = "up"
  <2>1. Following(m, d, t, s) /\ (d.phase \in Concluded => d.disposition \in Dispositions)
    BY <1>2 DEF Consistent
  <2>2. CASE m.phase = "none"
    BY <2>1, <2>2, ViewSteps DEF Following, Status
  <2>3. CASE m.phase = "reserved"
    BY <2>1, <2>3, ViewSteps DEF Following, Status, Concluded, Dispositions
  <2>4. CASE m.phase = "dispatching"
    BY <2>1, <2>4, ViewSteps DEF Following, Status, Concluded, Dispositions
  <2>5. CASE m.phase \in Concluded
    BY <2>1, <2>5, ViewSteps DEF Following, Status, Concluded, Dispositions
  <2> QED BY <2>2, <2>3, <2>4, <2>5 DEF Record, Phases, Concluded
<1> QED BY <1>1, <1>2

\* A process that goes down leaves everything consistent.
LEMMA DownConsistent ==
    ASSUME Inv, Down, durable' \in [Ops -> Record], unreadable' \in BOOLEAN, crashes' \in Nat,
           sent' = sent,
           \A o \in Ops : Consistent("down", Unknown, durable'[o], "idle", sent[o])
    PROVE  TypeOK' /\ AllConsistent' /\ ReconcilersConsistent'
<1>1. TypeOK'
  BY UnknownType, ReconcilerType DEF Inv, TypeOK, Down
<1>2. AllConsistent'
  BY DEF AllConsistent, Down
<1>3. ReconcilersConsistent'
  BY DEF ReconcilersConsistent, Down, Idle
<1> QED BY <1>1, <1>2, <1>3

LEMMA CrashSteps ==
    ASSUME Inv, Crash
    PROVE  Inv' /\ Contract!Next
<1>1. /\ process # "down" /\ crashes' = crashes + 1 /\ Down
      /\ durable' = durable /\ unreadable' = unreadable /\ sent' = sent
  BY DEF Crash
<1>2. \A o \in Ops : /\ mem[o] \in Record /\ durable[o] \in Record /\ sent[o] \in Nat
                     /\ Consistent(process, mem[o], durable[o], thread[o], sent[o])
  BY DEF Inv, TypeOK, AllConsistent
<1>3. \A o \in Ops : Consistent("down", Unknown, durable'[o], "idle", sent[o])
  BY <1>1, <1>2 DEF Consistent
<1>4. TypeOK' /\ AllConsistent' /\ ReconcilersConsistent'
  BY <1>1, <1>3, DownConsistent DEF Inv, TypeOK
<1>5. ASSUME NEW o \in Ops PROVE Contract!Step(Seeing(o), Seeing(o)')
  <2>1. Seen(o) = mem[o] /\ Seen(o)' = durable[o]
    BY <1>1 DEF Seen, Down
  <2>2. process \in {"recovering", "up"}
    BY <1>1 DEF Inv, TypeOK
  <2>3. Contract!Step(View(mem[o], sent[o]), View(durable[o], sent[o]))
    BY <1>2, <2>2, FileFollows
  <2> QED BY <1>1, <2>1, <2>3, SeeingIsView
<1> QED BY <1>4, <1>5, ContractStep DEF Inv

LEMMA ReplaySteps ==
    ASSUME Inv, Replay
    PROVE  Inv' /\ Contract!Next
<1>1. /\ process = "down" /\ process' = "recovering" /\ mem' = durable
      /\ UNCHANGED <<durable, unreadable, thread, sent, reconciler, crashes>>
  BY DEF Replay
<1>2. TypeOK'
  BY <1>1 DEF Inv, TypeOK
<1>3. AllConsistent'
  BY <1>1 DEF Inv, AllConsistent, Consistent
<1>4. ReconcilersConsistent'
  BY <1>1 DEF Inv, ReconcilersConsistent
<1>5. \A o \in Ops : Seeing(o)' = Seeing(o)
  BY <1>1 DEF Seeing, Seen
<1> QED BY <1>2, <1>3, <1>4, <1>5, Unseen DEF Inv

LEMMA StartSteps ==
    ASSUME Inv, Start
    PROVE  Inv' /\ Contract!Next
<1>1. /\ process = "recovering" /\ process' = "up"
      /\ \A o \in Ops : mem[o].phase \notin {"reserved", "dispatching"}
      /\ UNCHANGED <<durable, unreadable, mem, thread, sent, reconciler, crashes>>
  BY DEF Start
<1>2. TypeOK'
  BY <1>1 DEF Inv, TypeOK
<1>3. ASSUME NEW o \in Ops
      PROVE  Consistent("up", mem[o], durable[o], thread[o], sent[o])
  <2>1. /\ thread[o] = "idle" /\ mem[o] = durable[o] /\ mem[o] \in Record
        /\ mem[o].phase \notin {"reserved", "dispatching"}
        /\ Consistent("recovering", mem[o], durable[o], thread[o], sent[o])
    BY <1>1 DEF Inv, TypeOK, AllConsistent, Consistent
  <2> QED BY <2>1 DEF Consistent, Following, Record, Phases, Concluded
<1>4. AllConsistent'
  BY <1>1, <1>3 DEF AllConsistent
<1>5. ReconcilersConsistent'
  BY <1>1 DEF Inv, ReconcilersConsistent
<1>6. \A o \in Ops : Seeing(o)' = Seeing(o)
  BY <1>1 DEF Seeing, Seen
<1> QED BY <1>2, <1>4, <1>5, <1>6, Unseen DEF Inv

LEMMA RecoverSteps ==
    ASSUME Inv, NEW o \in Ops, Recover(o)
    PROVE  Inv' /\ Contract!Next
<1> DEFINE e == RecoveredAs(mem[o])
           rec == Settled(mem[o], e)
<1>1. /\ process = "recovering" /\ mem[o].phase \in {"reserved", "dispatching"}
      /\ sent' = sent /\ crashes' = crashes
  BY DEF Recover
<1>2. \A p \in Ops : /\ mem[p] \in Record /\ durable[p] = mem[p] /\ sent[p] \in Nat
                     /\ thread[p] = "idle"
                     /\ Consistent("recovering", mem[p], mem[p], "idle", sent[p])
  BY <1>1 DEF Inv, TypeOK, AllConsistent, Consistent
<1>3. PICK w \in Appends :
        /\ Append(o, rec, w)
        /\ IF w = "ok" THEN Remember(o, rec, w) /\ UNCHANGED <<process, thread, reconciler>>
                       ELSE Down
  BY <1>2 DEF Recover
<1>4. e \in {"not-started", "uncertain"} /\ (e = "not-started" => sent[o] = 0)
  BY <1>1, <1>2 DEF RecoveredAs, Consistent, NeverSent
<1>5. rec \in Record /\ rec.phase = "settled" /\ rec.disposition = e
  BY <1>2, <1>4, SettledRow DEF Dispositions
<1> HIDE DEF e, rec
<1>6. /\ Consistent("recovering", rec, rec, "idle", sent[o])
      /\ Contract!Step(View(mem[o], sent[o]), View(rec, sent[o]))
  <2>1. Consistent("recovering", rec, rec, "idle", sent[o])
    BY <1>2, <1>4, <1>5 DEF Consistent, NeverSent, Concluded, Dispositions
  <2>2. Contract!Step(View(mem[o], sent[o]), View(rec, sent[o]))
    BY <1>1, <1>2, <1>4, <1>5, ViewSteps DEF Status, Dispositions
  <2> QED BY <2>1, <2>2
<1>7. /\ durable' \in [Ops -> Record] /\ unreadable' \in BOOLEAN /\ crashes' \in Nat
      /\ durable'[o] \in {mem[o], rec} /\ (w = "ok" => durable'[o] = rec)
      /\ \A p \in Ops : p # o => durable'[p] = mem[p]
  BY <1>1, <1>2, <1>3, <1>5 DEF Append, Inv, TypeOK
<1>8. /\ \A p \in Ops : Consistent("recovering", durable'[p], durable'[p], "idle", sent[p])
      /\ \A p \in Ops : Contract!Step(View(mem[p], sent[p]), View(durable'[p], sent[p]))
  BY <1>2, <1>6, <1>7 DEF Contract!Step
<1>9. TypeOK' /\ AllConsistent' /\ ReconcilersConsistent' /\ \A p \in Ops : Seen(p)' = durable'[p]
  <2>1. CASE w = "ok"
    <3>1. /\ mem' = durable' /\ UNCHANGED <<process, thread, reconciler>>
      BY <1>2, <1>3, <2>1 DEF Remember, Append, Inv, TypeOK
    <3>2. TypeOK'
      BY <1>1, <1>7, <3>1 DEF Inv, TypeOK
    <3>3. AllConsistent'
      BY <1>1, <1>2, <1>8, <3>1 DEF AllConsistent
    <3>4. ReconcilersConsistent'
      BY <1>1, <3>1 DEF Inv, ReconcilersConsistent
    <3> QED BY <3>1, <3>2, <3>3, <3>4 DEF Seen
  <2>2. CASE w # "ok"
    <3>1. Down
      BY <1>3, <2>2
    <3>2. \A p \in Ops : Consistent("down", Unknown, durable'[p], "idle", sent[p])
      BY <1>8 DEF Consistent
    <3>3. TypeOK' /\ AllConsistent' /\ ReconcilersConsistent'
      BY <1>1, <1>7, <3>1, <3>2, DownConsistent
    <3> QED BY <3>1, <3>3 DEF Seen, Down
  <2> QED BY <2>1, <2>2
<1>10. ASSUME NEW p \in Ops PROVE Contract!Step(Seeing(p), Seeing(p)')
  <2>1. Seen(p) = mem[p]
    BY <1>1 DEF Seen
  <2> QED BY <1>1, <1>8, <1>9, <2>1, SeeingIsView
<1> QED BY <1>9, <1>10, ContractStep DEF Inv

-----------------------------------------------------------------------------
(* The theorems. *)

LEMMA InitHolds ==
    ASSUME Init
    PROVE  Inv /\ Contract!Init
<1>1. TypeOK
  BY UnknownType DEF Init, TypeOK, Idle
<1>2. AllConsistent
  <2>1. Consistent("up", Unknown, Unknown, "idle", 0)
    BY UnknownType DEF Consistent, Following, NeverSent, Concluded
  <2> QED BY <2>1 DEF Init, AllConsistent
<1>3. ReconcilersConsistent
  BY DEF Init, ReconcilersConsistent, Idle
<1>4. Contract!Init
  BY UnknownType DEF Init, Contract!Init, Seeing, Seen, Status
<1> QED BY <1>1, <1>2, <1>3, <1>4 DEF Inv

LEMMA Steps ==
    ASSUME Inv, [Next]_vars
    PROVE  Inv' /\ [Contract!Next]_[o \in Ops |-> Seeing(o)]
<1>1. ASSUME NEW o \in Ops, NEW q \in Requests, Submit(o, q) PROVE Inv' /\ Contract!Next
  BY <1>1, SubmitSteps
<1>2. ASSUME NEW o \in Ops,
             FenceRefuses(o) \/ Fence(o) \/ Deliver(o) \/ Settle(o) \/ Cancel(o) \/ Recover(o)
      PROVE  Inv' /\ Contract!Next
  BY <1>2, FenceRefusesSteps, FenceSteps, DeliverSteps, SettleSteps, CancelSteps, RecoverSteps
<1>3. ASSUME NEW r \in Reconcilers, NEW o \in Ops, NEW v \in Verdicts, ReconcileChecks(r, o, v)
      PROVE  Inv' /\ Contract!Next
  BY <1>3, ReconcileChecksSteps
<1>4. ASSUME NEW r \in Reconcilers, ReconcileAppends(r) \/ ReconcileRecords(r)
      PROVE  Inv' /\ Contract!Next
  BY <1>4, ReconcileAppendsSteps, ReconcileRecordsSteps
<1>5. CASE Crash \/ Replay \/ Start
  BY <1>5, CrashSteps, ReplaySteps, StartSteps
<1>6. CASE UNCHANGED vars
  <2>1. UNCHANGED <<durable, unreadable, process, mem, thread, sent, reconciler, crashes>>
    BY <1>6 DEF vars
  <2>2. Inv'
    BY <2>1 DEF Inv, TypeOK, AllConsistent, ReconcilersConsistent
  <2>3. UNCHANGED [o \in Ops |-> Seeing(o)]
    BY <2>1 DEF Seeing, Seen
  <2> QED BY <2>2, <2>3
<1> QED BY <1>1, <1>2, <1>3, <1>4, <1>5, <1>6 DEF Next

LEMMA InvHolds == Spec => []Inv
BY InitHolds, Steps, PTL DEF Spec

\* Every variable keeps its type in every reachable state, whatever crashes and
\* whichever append fails.
THEOREM TypeCorrect == Spec => []TypeOK
<1>1. Inv => TypeOK
  BY DEF Inv
<1> QED BY <1>1, InvHolds, PTL

\* The ledger implements EffectContract: across crashes, restarts and failed appends
\* an effect is delivered at most once, never after it was concluded, and no outcome
\* is replaced by another.
THEOREM LedgerKeepsContract == Spec => KeepsContract
BY InitHolds, Steps, InvHolds, PTL DEF Spec, KeepsContract, Contract!Spec
=============================================================================
