--------------------------- MODULE GiGaPoolProofs ---------------------------
(* Theorems about the Geant4 worker pool, for any number of workers,       *)
(* callers and payloads: ownership of events and the refinement of the     *)
(* simulation service; start, sentinel, tear-down and accounts; who        *)
(* deletes events.                                                         *)
EXTENDS GiGaPool, FiniteSetTheorems, TLAPS

-----------------------------------------------------------------------------
(* Type correctness.                                                       *)

\* The number of workers is a natural number and the barriers' counters,
\* wrapping included, stay within a size_t.
LEMMA BarrierTypes ==
  /\ N \in Nat /\ N + 1 \in 0..Unmade /\ Unmade \in Nat
  /\ \A n \in 0..Unmade : Decrement(n) \in 0..Unmade
  /\ \A n \in 0..Unmade : Get(n, N + 1) \in 0..Unmade
  /\ \A n \in 0..Unmade : Decrement(Get(n, 0)) \in 0..Unmade
<1>1. N \in Nat
  BY PoolAssumption, FS_CardinalityType DEF N
<1>2. QED
  BY <1>1, PoolAssumption DEF N, Unmade, Decrement, Get

\* CleanUp keeps the types of what it changes.
LEMMA CleanUpTypes ==
  ASSUME TypeOK, NEW w \in Workers, NEW force \in BOOLEAN, CleanUp(w, force)
  PROVE  /\ deletions' \in [Payloads -> Nat]
         /\ nDeleted' \in [Workers -> Nat]
         /\ nToProcess' \in [Workers -> Nat]
         /\ forCleanup' \in [Workers -> SUBSET Payloads]
<1>1. CASE forCleanup[w] = {}
  BY <1>1 DEF CleanUp, TypeOK
<1>2. CASE forCleanup[w] # {}
  <2>1. Postponed(w, force) \cup Doomed(w, force) \subseteq Payloads
    BY DEF TypeOK, Postponed, Doomed
  <2>2. /\ Cardinality(Postponed(w, force)) \in Nat
        /\ Cardinality(Doomed(w, force)) \in Nat
    BY <2>1, PoolAssumption, FS_Subset, FS_CardinalityType
  <2>3. /\ deletions' = [p \in Payloads |->
             IF p \in Doomed(w, force) THEN deletions[p] + 1 ELSE deletions[p]]
        /\ nDeleted' = [nDeleted EXCEPT ![w] = @ + Cardinality(Doomed(w, force))]
        /\ nToProcess' = [nToProcess EXCEPT ![w] = Cardinality(Postponed(w, force))]
        /\ forCleanup' = [forCleanup EXCEPT ![w] = Postponed(w, force)]
    BY <1>2 DEF CleanUp
  <2>4. QED
    BY <2>1, <2>2, <2>3 DEF TypeOK
<1>3. QED
  BY <1>1, <1>2

\* Where in operator() a worker has a payload in its hands.
Occupied ==
  {"cleanup", "build", "simulate", "store", "storing", "publish", "count"}

\* TypeOK is not inductive: StoreEvent and ProcessEvent act on the payload a
\* worker holds, so it has to hold one there.
OccupiedOK == \A w \in Workers : wpc[w] \in Occupied <=> cur[w] # NoPayload

TypeInv == TypeOK /\ OccupiedOK

\* A step of the pool keeps the types and the payload of every worker.
LEMMA TypeStep == TypeInv /\ [Next]_vars => TypeInv'
<1> SUFFICES ASSUME TypeOK, OccupiedOK, [Next]_vars PROVE TypeInv'
  BY DEF TypeInv
<1> USE DEF vars, workerVars, counterVars, queueVars, callerVars, eventVars,
            barrierVars, TypeInv, OccupiedOK, Occupied, WorkerStates,
            MasterStates
<1>1. ASSUME NEW c \in Callers, CallSimulate(c) PROVE TypeInv'
  BY <1>1 DEF CallSimulate, TypeOK
<1>2. ASSUME NEW c \in Callers, Return(c) PROVE TypeInv'
  BY <1>2 DEF Return, TypeOK
<1>3. ASSUME NEW c \in Callers, NEW p \in Payloads, Submit(c, p)
     PROVE TypeInv'
  BY <1>3 DEF Submit, TypeOK
<1>4. ASSUME NEW c \in Callers, NEW p \in Payloads, ReleaseProxy(c, p)
     PROVE TypeInv'
  <2>1. lost' \subseteq Payloads
    BY <1>4 DEF ReleaseProxy, TypeOK
  <2>2. forCleanup' \in [Workers -> SUBSET Payloads]
    BY <1>4 DEF ReleaseProxy, TypeOK
  <2>3. QED
    BY <1>4, <2>1, <2>2 DEF ReleaseProxy, TypeOK
<1>5. ASSUME NEW w \in Workers, InitializeWorker(w) PROVE TypeInv'
  BY <1>5, BarrierTypes DEF InitializeWorker, Goto, TypeOK
<1>6. ASSUME NEW w \in Workers, LeaveInitBarrier(w) PROVE TypeInv'
  BY <1>6 DEF LeaveInitBarrier, Goto, TypeOK
<1>7. ASSUME NEW w \in Workers, NEW p \in Payloads, Dequeue(w, p)
     PROVE TypeInv'
  BY <1>7, PoolAssumption DEF Dequeue, Goto, TypeOK
<1>8. ASSUME NEW w \in Workers, DequeueSentinel(w) PROVE TypeInv'
  BY <1>8 DEF DequeueSentinel, Goto, TypeOK
<1>9. ASSUME NEW w \in Workers, RelaySentinel(w) PROVE TypeInv'
  BY <1>9 DEF RelaySentinel, Goto, TypeOK
<1>10. ASSUME NEW w \in Workers, CleanUpBeforeEvent(w) PROVE TypeInv'
  <2>1. CleanUp(w, FALSE) BY <1>10 DEF CleanUpBeforeEvent
  <2>2. QED
    BY <1>10, <2>1, CleanUpTypes DEF CleanUpBeforeEvent, Goto, TypeOK
<1>11. ASSUME NEW w \in Workers, BuildEvent(w) PROVE TypeInv'
  BY <1>11 DEF BuildEvent, Goto, TypeOK
<1>12. ASSUME NEW w \in Workers, RejectStructure(w) PROVE TypeInv'
  BY <1>12 DEF RejectStructure, TypeOK
<1>13. ASSUME NEW w \in Workers, Simulate(w) PROVE TypeInv'
  <2>1. PICK toBeKept \in BOOLEAN, g \in 0..MaxGrips :
          /\ ~PostProcessing => ~toBeKept /\ g = 0
          /\ keep' = IF toBeKept THEN keep \cup {cur[w]} ELSE keep
          /\ grips' = [grips EXCEPT ![cur[w]] = g]
          /\ Goto(w, "simulate", IF toBeKept THEN "store" ELSE "publish")
    BY <1>13 DEF Simulate
  <2>2. QED
    BY <1>13, <2>1, PoolAssumption DEF Simulate, Goto, TypeOK
<1>14. ASSUME NEW w \in Workers, BeginStoreEvent(w) PROVE TypeInv'
  BY <1>14 DEF BeginStoreEvent, Goto, TypeOK
<1>15. ASSUME NEW w \in Workers, EndStoreEvent(w) PROVE TypeInv'
  BY <1>15 DEF EndStoreEvent, Goto, TypeOK
<1>16. ASSUME NEW w \in Workers, Publish(w) PROVE TypeInv'
  BY <1>16 DEF Publish, Goto, TypeOK
<1>17. ASSUME NEW w \in Workers, CountCreated(w) PROVE TypeInv'
  BY <1>17 DEF CountCreated, Goto, TypeOK
<1>18. ASSUME NEW w \in Workers, PostProcess(w) PROVE TypeInv'
  <2>1. CleanUp(w, FALSE) BY <1>18 DEF PostProcess
  <2>2. QED
    BY <1>18, <2>1, CleanUpTypes DEF PostProcess, TypeOK
<1>19. ASSUME NEW w \in Workers, ArrivePostBarrier(w) PROVE TypeInv'
  BY <1>19, BarrierTypes DEF ArrivePostBarrier, Goto, TypeOK
<1>20. ASSUME NEW w \in Workers, LeavePostBarrier(w) PROVE TypeInv'
  BY <1>20 DEF LeavePostBarrier, Goto, TypeOK
<1>21. ASSUME NEW w \in Workers, ArriveFinalBarrier(w) PROVE TypeInv'
  BY <1>21, BarrierTypes DEF ArriveFinalBarrier, Goto, TypeOK
<1>22. ASSUME NEW w \in Workers, LeaveFinalBarrier(w) PROVE TypeInv'
  BY <1>22 DEF LeaveFinalBarrier, Goto, TypeOK
<1>23. ASSUME NEW w \in Workers, FinalizeWorker(w) PROVE TypeInv'
  <2>1. CleanUp(w, TRUE) BY <1>23 DEF FinalizeWorker
  <2>2. QED
    BY <1>23, <2>1, CleanUpTypes DEF FinalizeWorker, Goto, TypeOK
<1>24. CASE MasterStep
  <2>1. CASE ArriveInitBarrier \/ StartEventLoop \/ BeginFinalize
    BY <2>1, BarrierTypes
    DEF ArriveInitBarrier, StartEventLoop, BeginFinalize, MasterGoto, TypeOK
  <2>2. CASE MakePostBarrier \/ MakeFinalBarrier
    BY <2>2, BarrierTypes
    DEF MakePostBarrier, MakeFinalBarrier, MasterGoto, TypeOK
  <2>3. CASE MasterArrivePostBarrier \/ EndOfRunAction
    BY <2>3, BarrierTypes
    DEF MasterArrivePostBarrier, EndOfRunAction, MasterGoto, TypeOK
  <2>4. CASE MasterArriveFinalBarrier \/ MasterLeaveFinalBarrier
    BY <2>4, BarrierTypes
    DEF MasterArriveFinalBarrier, MasterLeaveFinalBarrier, MasterGoto, TypeOK
  <2>5. CASE JoinWorkers
    BY <2>5 DEF JoinWorkers, MasterGoto, TypeOK
  <2>6. QED
    BY <1>24, <2>1, <2>2, <2>3, <2>4, <2>5 DEF MasterStep
<1>25. ASSUME NEW p \in Payloads, ReleaseGrip(p) PROVE TypeInv'
  BY <1>25 DEF ReleaseGrip, TypeOK
<1>26. CASE UNCHANGED vars
  BY <1>26 DEF TypeOK
<1>27. QED
  BY <1>1, <1>2, <1>3, <1>4, <1>5, <1>6, <1>7, <1>8, <1>9, <1>10, <1>11,
     <1>12, <1>13, <1>14, <1>15, <1>16, <1>17, <1>18, <1>19, <1>20, <1>21,
     <1>22, <1>23, <1>24, <1>25, <1>26
  DEF Next, CallerProgress, WorkerStep, Terminated

\* The pool starts with the right types.
LEMMA TypeInit == Init => TypeInv
<1> SUFFICES ASSUME Init PROVE TypeInv
  OBVIOUS
<1>1. N + 1 \in 0..Unmade /\ Unmade \in 0..Unmade
  BY BarrierTypes
<1>2. /\ wpc \in [Workers -> WorkerStates]
      /\ cur \in [Workers -> Payloads \cup {NoPayload}]
      /\ mpc \in MasterStates
  BY DEF Init, WorkerStates, MasterStates
<1>3. OccupiedOK
  BY DEF Init, OccupiedOK, Occupied
<1>4. QED
  BY <1>1, <1>2, <1>3 DEF Init, TypeOK, TypeInv

\* Both hold in every behaviour of the pool.
LEMMA TypeInvariant == Spec => []TypeInv
BY TypeInit, TypeStep, PTL DEF Spec

\* Every variable keeps its type in every behaviour of the pool.
THEOREM TypeCorrect == Spec => []TypeOK
BY TypeInvariant, PTL DEF TypeInv

-----------------------------------------------------------------------------
(* Ownership of events.  Reachable events are live because each event has, *)
(* at any time, one party in charge of it: its worker while it works on    *)
(* it, then the promise and the caller, then the clean-up list of its      *)
(* worker or, if Geant4 keeps it, the run.  With post-processing a service *)
(* must not keep proxies beyond the event loop: a forced CleanUp would not *)
(* respect grips and kept events.                                          *)

\* A worker that has left the post-processing loop, and one that has taken
\* the sentinel.
PastPost ==
  {"postBar", "postWait", "finalBar", "finalWait", "finalize", "exited"}
PastLoop == {"relay", "post"} \cup PastPost

\* What a caller has: payloads to submit, running ones and results, each of
\* them belonging to one caller and in one of these three sets.
CallerOK ==
  \A c \in Callers, p \in Payloads :
    /\ p \in todo[c] => promise[p] = "none"
    /\ p \in futures[c] => promise[p] # "none"
    /\ p \in held[c] => promise[p] = "set" /\ p \notin futures[c]
    /\ p \in futures[c] \cup held[c] =>
         /\ deletions[p] = 0
         /\ \A w \in Workers : p \notin forCleanup[w]
    /\ \A d \in Callers \ {c} :
         /\ p \notin todo[c] \cap todo[d]
         /\ p \notin (futures[c] \cup held[c]) \cap (futures[d] \cup held[d])

\* Somebody waits for every payload that has been submitted.
AskedOK ==
  \A p \in Payloads :
    promise[p] = "pending" => \E c \in Callers : p \in futures[c]

\* A payload in the queue has no event yet and is in nobody's hands.
QueueOK ==
  \A p \in queued :
    /\ promise[p] = "pending" /\ creator[p] = NoWorker
    /\ \A w \in Workers : cur[w] # p

\* A worker's payload is its own, and it made the event it holds.
WorkerOK ==
  \A w \in Workers :
    /\ wpc[w] \in Occupied =>
         /\ promise[cur[w]] = IF wpc[w] = "count" THEN "set" ELSE "pending"
         /\ creator[cur[w]] = IF HoldsEvent(w) THEN w ELSE NoWorker
         /\ \A v \in Workers : cur[v] = cur[w] => v = w
         /\ deletions[cur[w]] = 0
    /\ wpc[w] \in {"store", "storing"} => cur[w] \in keep
    /\ wpc[w] # "storing" => snap[w] = {}
    /\ nToProcess[w] > 0 => forCleanup[w] # {}

\* A clean-up list has only live, finished events of its own worker.
CleanupOK ==
  \A w \in Workers : \A p \in forCleanup[w] :
    promise[p] = "set" /\ creator[p] = w /\ deletions[p] = 0

\* The life of an event.
EventOK ==
  \A p \in Payloads :
    /\ promise[p] = "none" => creator[p] = NoWorker
    /\ creator[p] = NoWorker =>
         promise[p] # "set" /\ grips[p] = 0 /\ p \notin keep
    /\ creator[p] # NoWorker /\ promise[p] # "set" =>
         cur[creator[p]] = p /\ HoldsEvent(creator[p])
    /\ promise[p] # "set" => deletions[p] = 0
    /\ deletions[p] \in 0..1
    /\ grips[p] > 0 \/ p \in keep => PostProcessing
    /\ grips[p] > 0 => deletions[p] = 0
    /\ p \in keep /\ deletions[p] > 0 => mpc = "done"
    /\ p \in run => p \in keep
    /\ \A w \in Workers : p \in snap[w] => p \in keep

\* A finished event is with a caller or in its worker's list, or it is gone:
\* deleted, left to the run without a grip on it, or lost with its pilot.
OwnedOK ==
  \A p \in Payloads : promise[p] = "set" =>
    \/ \E c \in Callers : p \in futures[c] \cup held[c]
    \/ p \in forCleanup[creator[p]]
    \/ deletions[p] = 1
    \/ p \in keep /\ grips[p] = 0
    \/ p \in lost

\* What finalize may rely on.
FinalOK ==
  /\ sentinels > 0 => Finalizing
  /\ ~Hoard => lost = {}
  /\ Finalizing => \A c \in Callers : ~Busy(c) /\ (Hoard \/ held[c] = {})
  /\ \A w \in Workers :
       /\ wpc[w] \in PastLoop => Finalizing
       /\ wpc[w] \in PastPost /\ PostProcessing /\ ~Hoard => forCleanup[w] = {}
       /\ mpc = "done" => wpc[w] = "exited"
  /\ mpc = "done" => run = {}

OwnershipInv ==
  /\ TypeInv
  /\ CallerOK /\ AskedOK /\ QueueOK /\ WorkerOK /\ CleanupOK /\ EventOK
  /\ OwnedOK /\ FinalOK

\* Without a visualisation there are neither grips nor kept events, and with
\* one no service may hoard results.
Ordered == PostProcessing => ~Hoard

\* What CleanUp does to the list and to the deletions, whatever was in it.
LEMMA CleanUpEffect ==
  ASSUME TypeOK, NEW w \in Workers, NEW force \in BOOLEAN, CleanUp(w, force),
         nToProcess[w] > 0 => forCleanup[w] # {}
  PROVE  /\ forCleanup' = [forCleanup EXCEPT ![w] = Postponed(w, force)]
         /\ deletions' = [p \in Payloads |->
              IF p \in Doomed(w, force) THEN deletions[p] + 1 ELSE deletions[p]]
         /\ \A v \in Workers \ {w} : nToProcess'[v] = nToProcess[v]
         /\ nToProcess'[w] = 0 <=> Postponed(w, force) = {}
<1>1. CASE forCleanup[w] = {}
  BY <1>1 DEF CleanUp, TypeOK, Postponed, Doomed
<1>2. CASE forCleanup[w] # {}
  <2>1. Postponed(w, force) \subseteq Payloads
    BY DEF TypeOK, Postponed
  <2>2. Cardinality(Postponed(w, force)) = 0 <=> Postponed(w, force) = {}
    BY <2>1, PoolAssumption, FS_Subset, FS_EmptySet
  <2>3. QED
    BY <1>2, <2>2 DEF CleanUp, TypeOK
<1>3. QED
  BY <1>1, <1>2

\* Every step of the pool keeps the ownership of events.
LEMMA OwnershipStep ==
  ASSUME Ordered PROVE OwnershipInv /\ [Next]_vars => OwnershipInv'
<1> SUFFICES ASSUME OwnershipInv, [Next]_vars PROVE OwnershipInv'
  OBVIOUS
<1> TypeInv /\ TypeInv'
  BY TypeStep DEF OwnershipInv
<1> USE PoolAssumption
    DEF Ordered, OwnershipInv, TypeInv, TypeOK, OccupiedOK, Occupied,
        HoldsEvent, CallerOK, AskedOK, QueueOK, WorkerOK, CleanupOK, EventOK, OwnedOK,
        FinalOK, PastLoop, PastPost, Finalizing, Busy, MasterStates, Goto,
        MasterGoto, workerVars, counterVars, queueVars, callerVars, eventVars,
        barrierVars
<1>1. ASSUME NEW c \in Callers, CallSimulate(c) PROVE OwnershipInv'
  BY <1>1 DEF CallSimulate, Fresh
<1>2. ASSUME NEW c \in Callers, Return(c) PROVE OwnershipInv'
  BY <1>2 DEF Return
<1>3. ASSUME NEW c \in Callers, NEW p \in Payloads, Submit(c, p)
      PROVE OwnershipInv'
  BY <1>3 DEF Submit
<1>4. ASSUME NEW c \in Callers, NEW p \in Payloads, ReleaseProxy(c, p)
      PROVE OwnershipInv'
  <2>1. creator[p] \in Workers /\ p \in held[c] /\ deletions[p] = 0
    BY <1>4 DEF ReleaseProxy
  <2>2. CASE wpc[creator[p]] = "exited"
    BY <1>4, <2>1, <2>2 DEF ReleaseProxy
  <2>3. CASE wpc[creator[p]] # "exited"
    <3>1. /\ held' = [held EXCEPT ![c] = @ \ {p}]
          /\ forCleanup' = [forCleanup EXCEPT ![creator[p]] = @ \cup {p}]
          /\ UNCHANGED <<wpc, cur, snap, nToProcess, queued, sentinels, todo,
                         futures, promise, creator, deletions, keep, grips, run,
                         mpc, lost>>
      BY <1>4, <2>3 DEF ReleaseProxy
    <3>2. /\ promise[p] = "set" /\ p \notin queued
          /\ \A d \in Callers : p \notin futures[d]
          /\ \A d \in Callers \ {c} : p \notin held[d]
      BY <2>1
    <3>3. PostProcessing /\ wpc[creator[p]] \in PastPost => Hoard
      BY <2>1
    <3>4. CallerOK' /\ AskedOK' /\ QueueOK'
      BY <2>1, <3>1, <3>2
    <3>5. WorkerOK' /\ CleanupOK' /\ EventOK'
      BY <2>1, <3>1, <3>2
    <3>6. OwnedOK' /\ FinalOK'
      BY <2>1, <3>1, <3>2, <3>3
    <3>7. QED
      BY <3>4, <3>5, <3>6
  <2>4. QED
    BY <2>2, <2>3
<1>5. ASSUME NEW w \in Workers,
             InitializeWorker(w) \/ LeaveInitBarrier(w)
      PROVE OwnershipInv'
  <2>1. CASE InitializeWorker(w) BY <2>1 DEF InitializeWorker
  <2>2. CASE LeaveInitBarrier(w) BY <2>2 DEF LeaveInitBarrier
  <2>3. QED BY <1>5, <2>1, <2>2
<1>6. ASSUME NEW w \in Workers, NEW p \in Payloads, Dequeue(w, p)
      PROVE OwnershipInv'
  BY <1>6 DEF Dequeue
<1>7. ASSUME NEW w \in Workers, DequeueSentinel(w) PROVE OwnershipInv'
  BY <1>7 DEF DequeueSentinel
<1>8. ASSUME NEW w \in Workers, RelaySentinel(w) PROVE OwnershipInv'
  BY <1>8 DEF RelaySentinel
<1>9. ASSUME NEW w \in Workers, CleanUpBeforeEvent(w) PROVE OwnershipInv'
  <2>1. CleanUp(w, FALSE)
    BY <1>9 DEF CleanUpBeforeEvent
  <2>2. /\ forCleanup' = [forCleanup EXCEPT ![w] = Postponed(w, FALSE)]
        /\ deletions' = [p \in Payloads |->
             IF p \in Doomed(w, FALSE) THEN deletions[p] + 1 ELSE deletions[p]]
        /\ \A v \in Workers \ {w} : nToProcess'[v] = nToProcess[v]
        /\ nToProcess'[w] = 0 <=> Postponed(w, FALSE) = {}
    BY <2>1, CleanUpEffect
  <2>3. QED
    BY <1>9, <2>2 DEF CleanUpBeforeEvent, Postponed, Doomed
<1>10. ASSUME NEW w \in Workers, BuildEvent(w) PROVE OwnershipInv'
  BY <1>10 DEF BuildEvent
<1>11. ASSUME NEW w \in Workers, RejectStructure(w) PROVE OwnershipInv'
  BY <1>11 DEF RejectStructure
<1>12. ASSUME NEW w \in Workers, Simulate(w) PROVE OwnershipInv'
  BY <1>12 DEF Simulate
<1>13. ASSUME NEW w \in Workers, BeginStoreEvent(w) PROVE OwnershipInv'
  BY <1>13 DEF BeginStoreEvent
<1>14. ASSUME NEW w \in Workers, EndStoreEvent(w) PROVE OwnershipInv'
  BY <1>14 DEF EndStoreEvent
<1>15. ASSUME NEW w \in Workers, Publish(w) PROVE OwnershipInv'
  BY <1>15 DEF Publish
<1>16. ASSUME NEW w \in Workers, CountCreated(w) PROVE OwnershipInv'
  BY <1>16 DEF CountCreated
<1>17. ASSUME NEW w \in Workers, PostProcess(w) PROVE OwnershipInv'
  <2>1. CleanUp(w, FALSE)
    BY <1>17 DEF PostProcess
  <2>2. /\ forCleanup' = [forCleanup EXCEPT ![w] = Postponed(w, FALSE)]
        /\ deletions' = [p \in Payloads |->
             IF p \in Doomed(w, FALSE) THEN deletions[p] + 1 ELSE deletions[p]]
        /\ \A v \in Workers \ {w} : nToProcess'[v] = nToProcess[v]
        /\ nToProcess'[w] = 0 <=> Postponed(w, FALSE) = {}
    BY <2>1, CleanUpEffect
  <2>3. QED
    BY <1>17, <2>2 DEF PostProcess, Postponed, Doomed
<1>18. ASSUME NEW w \in Workers,
              ArrivePostBarrier(w) \/ LeavePostBarrier(w)
       PROVE OwnershipInv'
  <2>1. CASE ArrivePostBarrier(w) BY <2>1 DEF ArrivePostBarrier
  <2>2. CASE LeavePostBarrier(w)  BY <2>2 DEF LeavePostBarrier
  <2>3. QED BY <1>18, <2>1, <2>2
<1>19. ASSUME NEW w \in Workers,
              ArriveFinalBarrier(w) \/ LeaveFinalBarrier(w)
       PROVE OwnershipInv'
  <2>1. CASE ArriveFinalBarrier(w) BY <2>1 DEF ArriveFinalBarrier
  <2>2. CASE LeaveFinalBarrier(w)  BY <2>2 DEF LeaveFinalBarrier
  <2>3. QED BY <1>19, <2>1, <2>2
<1>20. ASSUME NEW w \in Workers, FinalizeWorker(w) PROVE OwnershipInv'
  <2>1. CleanUp(w, TRUE)
    BY <1>20 DEF FinalizeWorker
  <2>2. /\ forCleanup' = [forCleanup EXCEPT ![w] = Postponed(w, TRUE)]
        /\ deletions' = [p \in Payloads |->
             IF p \in Doomed(w, TRUE) THEN deletions[p] + 1 ELSE deletions[p]]
        /\ \A v \in Workers \ {w} : nToProcess'[v] = nToProcess[v]
        /\ nToProcess'[w] = 0 <=> Postponed(w, TRUE) = {}
    BY <2>1, CleanUpEffect
  <2>3. QED
    BY <1>20, <2>2 DEF FinalizeWorker, Postponed, Doomed
<1>21. CASE ArriveInitBarrier \/ StartEventLoop
  BY <1>21 DEF ArriveInitBarrier, StartEventLoop
<1>22. CASE BeginFinalize
  BY <1>22 DEF BeginFinalize
<1>23. CASE MakePostBarrier \/ MakeFinalBarrier
  BY <1>23 DEF MakePostBarrier, MakeFinalBarrier
<1>24. CASE MasterArrivePostBarrier \/ EndOfRunAction
  BY <1>24 DEF MasterArrivePostBarrier, EndOfRunAction
<1>25. CASE MasterArriveFinalBarrier \/ MasterLeaveFinalBarrier
  BY <1>25 DEF MasterArriveFinalBarrier, MasterLeaveFinalBarrier
<1>26. CASE JoinWorkers
  <2>1. mpc = "join" /\ \A w \in Workers : wpc[w] = "exited"
    BY <1>26 DEF JoinWorkers
  <2>2. ASSUME NEW p \in run
        PROVE  /\ ~Hoard /\ PostProcessing /\ deletions[p] = 0
               /\ promise[p] = "set" /\ creator[p] \in Workers /\ grips[p] = 0
               /\ \A c \in Callers : p \notin futures[c] \cup held[c]
               /\ \A w \in Workers : p \notin forCleanup[w]
    <3>1. p \in keep /\ PostProcessing /\ ~Hoard /\ deletions[p] = 0
      BY <2>1
    <3>2. creator[p] \in Workers /\ promise[p] = "set"
      BY <2>1, <3>1
    <3>3. /\ \A c \in Callers : p \notin futures[c] \cup held[c]
          /\ \A w \in Workers : p \notin forCleanup[w]
          /\ p \notin lost
      BY <2>1, <3>1
    <3>4. \/ \E c \in Callers : p \in futures[c] \cup held[c]
          \/ p \in forCleanup[creator[p]] \/ deletions[p] = 1
          \/ (p \in keep /\ grips[p] = 0) \/ p \in lost
      <4>1. p \in Payloads /\ OwnedOK
        OBVIOUS
      <4>2. QED
        BY <4>1, <3>2 DEF OwnedOK
    <3>5. grips[p] = 0
      BY <3>1, <3>2, <3>3, <3>4
    <3>6. QED
      BY <3>1, <3>2, <3>3, <3>5
  <2>3. QED
    BY <1>26, <2>1, <2>2 DEF JoinWorkers
<1>27. ASSUME NEW p \in Payloads, ReleaseGrip(p) PROVE OwnershipInv'
  BY <1>27 DEF ReleaseGrip
<1>28. CASE UNCHANGED vars
  BY <1>28 DEF vars
<1>29. QED
  BY <1>1, <1>2, <1>3, <1>4, <1>5, <1>6, <1>7, <1>8, <1>9, <1>10, <1>11,
     <1>12, <1>13, <1>14, <1>15, <1>16, <1>17, <1>18, <1>19, <1>20, <1>21,
     <1>22, <1>23, <1>24, <1>25, <1>26, <1>27, <1>28
  DEF Next, CallerProgress, WorkerStep, MasterStep, Terminated

\* Every event has its owner in every behaviour of the pool.
LEMMA OwnershipInvariant == ASSUME Ordered PROVE Spec => []OwnershipInv
<1>1. Init => OwnershipInv
  BY TypeInit
  DEF Init, OwnershipInv, CallerOK, AskedOK, QueueOK, WorkerOK, CleanupOK,
      EventOK, OwnedOK, FinalOK, Finalizing, Busy, Occupied, PastLoop, PastPost,
      HoldsEvent
<1>2. QED
  BY <1>1, OwnershipStep, PTL DEF Spec

\* No G4Event is deleted while somebody can still reach it.
THEOREM EventsOutliveTheirUsers ==
  ASSUME Ordered PROVE Spec => []ReachableEventsLive
<1>1. OwnershipInv => ReachableEventsLive
  BY PoolAssumption
  DEF OwnershipInv, TypeInv, TypeOK, CallerOK, WorkerOK, CleanupOK, EventOK,
      FinalOK, ReachableEventsLive, Reachable, Live, HoldsEvent, Occupied
<1>2. QED
  BY <1>1, OwnershipInvariant, PTL

\* No G4Event is ever freed twice, by pilots or by the end of the run.
THEOREM NoDoubleDelete == ASSUME Ordered PROVE Spec => []NeverDeletedTwice
<1>1. OwnershipInv => NeverDeletedTwice
  BY DEF OwnershipInv, EventOK, NeverDeletedTwice
<1>2. QED
  BY <1>1, OwnershipInvariant, PTL

-----------------------------------------------------------------------------
(* The control of the threads: who moves where, and what the sentinel and  *)
(* the barriers see of it.                                                 *)

controlVars == <<wpc, mpc, sentinels, initBar, postBar, finalBar>>

WorkerMove(w, to) ==
  /\ wpc' = [wpc EXCEPT ![w] = to]
  /\ mpc' = mpc
  /\ \/ /\ wpc[w] = "start" /\ to = "initWait"
        /\ initBar' = Decrement(initBar)
        /\ UNCHANGED <<sentinels, postBar, finalBar>>
     \/ /\ wpc[w] = "initWait" /\ to = "loop" /\ initBar = 0
        /\ UNCHANGED <<sentinels, initBar, postBar, finalBar>>
     \/ /\ wpc[w] = "loop" /\ to = "relay"
        /\ sentinels > 0 /\ sentinels' = sentinels - 1
        /\ UNCHANGED <<initBar, postBar, finalBar>>
     \/ /\ wpc[w] = "relay" /\ to = IF PostProcessing THEN "post" ELSE "finalize"
        /\ sentinels' = sentinels + 1
        /\ UNCHANGED <<initBar, postBar, finalBar>>
     \/ /\ wpc[w] \in {"loop"} \cup Occupied /\ to \in {"loop"} \cup Occupied
        /\ UNCHANGED <<sentinels, initBar, postBar, finalBar>>
     \/ /\ wpc[w] = "post" /\ to \in {"post", "postBar"}
        /\ UNCHANGED <<sentinels, initBar, postBar, finalBar>>
     \/ /\ wpc[w] = "postBar" /\ to = "postWait"
        /\ postBar' = Decrement(Get(postBar, 0))
        /\ UNCHANGED <<sentinels, initBar, finalBar>>
     \/ /\ wpc[w] = "postWait" /\ to = "finalBar" /\ postBar = 0
        /\ UNCHANGED <<sentinels, initBar, postBar, finalBar>>
     \/ /\ wpc[w] = "finalBar" /\ to = "finalWait"
        /\ finalBar' = Decrement(Get(finalBar, 0))
        /\ UNCHANGED <<sentinels, initBar, postBar>>
     \/ /\ wpc[w] = "finalWait" /\ to = "finalize" /\ finalBar = 0
        /\ UNCHANGED <<sentinels, initBar, postBar, finalBar>>
     \/ /\ wpc[w] = "finalize" /\ to = "exited"
        /\ UNCHANGED <<sentinels, initBar, postBar, finalBar>>

MasterMove ==
  /\ wpc' = wpc
  /\ \/ /\ MasterGoto("init", "initWait")
        /\ initBar' = Decrement(initBar)
        /\ UNCHANGED <<sentinels, postBar, finalBar>>
     \/ /\ MasterGoto("initWait", "running") /\ initBar = 0
        /\ UNCHANGED <<sentinels, initBar, postBar, finalBar>>
     \/ /\ MasterGoto("running", IF PostProcessing THEN "getPost" ELSE "join")
        /\ sentinels' = sentinels + 1
        /\ UNCHANGED <<initBar, postBar, finalBar>>
     \/ /\ MasterGoto("getPost", "getFinal")
        /\ postBar' = Get(postBar, N + 1)
        /\ UNCHANGED <<sentinels, initBar, finalBar>>
     \/ /\ MasterGoto("getFinal", "postBar")
        /\ finalBar' = Get(finalBar, N + 1)
        /\ UNCHANGED <<sentinels, initBar, postBar>>
     \/ /\ MasterGoto("postBar", "postWait")
        /\ postBar' = Decrement(postBar)
        /\ UNCHANGED <<sentinels, initBar, finalBar>>
     \/ /\ MasterGoto("postWait", "finalBar") /\ postBar = 0
        /\ UNCHANGED <<sentinels, initBar, postBar, finalBar>>
     \/ /\ MasterGoto("finalBar", "finalWait")
        /\ finalBar' = Decrement(finalBar)
        /\ UNCHANGED <<sentinels, initBar, postBar>>
     \/ /\ MasterGoto("finalWait", "join") /\ finalBar = 0
        /\ UNCHANGED <<sentinels, initBar, postBar, finalBar>>
     \/ /\ MasterGoto("join", "done")
        /\ UNCHANGED <<sentinels, initBar, postBar, finalBar>>

\* A step moves one worker, or the main thread, or nobody.
LEMMA ControlStep ==
  ASSUME TypeInv, [Next]_vars
  PROVE  \/ \E w \in Workers, to \in WorkerStates : WorkerMove(w, to)
         \/ MasterMove
         \/ UNCHANGED controlVars
<1> USE DEF workerVars, counterVars, queueVars, callerVars, eventVars,
            barrierVars, controlVars, Goto, Occupied, WorkerStates
<1>1. ASSUME NEW w \in Workers, WorkerStep(w)
      PROVE  \E to \in WorkerStates : WorkerMove(w, to)
  <2>1. CASE InitializeWorker(w) \/ LeaveInitBarrier(w)
    BY <2>1 DEF InitializeWorker, LeaveInitBarrier, WorkerMove
  <2>2. CASE DequeueSentinel(w) \/ RelaySentinel(w)
    BY <2>2 DEF DequeueSentinel, RelaySentinel, WorkerMove
  <2>3. CASE \E p \in Payloads : Dequeue(w, p)
    BY <2>3 DEF Dequeue, WorkerMove
  <2>4. CASE CleanUpBeforeEvent(w) \/ BuildEvent(w) \/ BeginStoreEvent(w)
             \/ EndStoreEvent(w) \/ Publish(w) \/ CountCreated(w)
    BY <2>4 DEF CleanUpBeforeEvent, BuildEvent, BeginStoreEvent, EndStoreEvent,
                Publish, CountCreated, WorkerMove
  <2>5. CASE Simulate(w)
    BY <2>5 DEF Simulate, WorkerMove
  <2>6. CASE PostProcess(w)
    BY <2>6 DEF PostProcess, WorkerMove
  <2>7. CASE ArrivePostBarrier(w) \/ LeavePostBarrier(w)
    BY <2>7 DEF ArrivePostBarrier, LeavePostBarrier, WorkerMove
  <2>8. CASE ArriveFinalBarrier(w) \/ LeaveFinalBarrier(w) \/ FinalizeWorker(w)
    BY <2>8 DEF ArriveFinalBarrier, LeaveFinalBarrier, FinalizeWorker, WorkerMove
  <2>9. QED
    BY <1>1, <2>1, <2>2, <2>3, <2>4, <2>5, <2>6, <2>7, <2>8 DEF WorkerStep
<1>2. CASE MasterStep
  <2>1. CASE ArriveInitBarrier \/ StartEventLoop \/ BeginFinalize
             \/ MakePostBarrier \/ MakeFinalBarrier
    BY <2>1 DEF ArriveInitBarrier, StartEventLoop, BeginFinalize,
                MakePostBarrier, MakeFinalBarrier, MasterMove
  <2>2. CASE MasterArrivePostBarrier \/ EndOfRunAction \/ MasterArriveFinalBarrier
             \/ MasterLeaveFinalBarrier \/ JoinWorkers
    BY <2>2 DEF MasterArrivePostBarrier, EndOfRunAction, MasterArriveFinalBarrier,
                MasterLeaveFinalBarrier, JoinWorkers, MasterMove
  <2>3. QED
    BY <1>2, <2>1, <2>2 DEF MasterStep
<1>3. CASE \E c \in Callers : CallSimulate(c) \/ CallerProgress(c)
  BY <1>3 DEF CallSimulate, CallerProgress, Return, Submit, ReleaseProxy
<1>4. CASE \/ \E w \in Workers : RejectStructure(w)
           \/ \E p \in Payloads : ReleaseGrip(p)
           \/ UNCHANGED vars
  BY <1>4 DEF RejectStructure, ReleaseGrip, vars
<1>5. QED
  BY <1>1, <1>2, <1>3, <1>4 DEF Next, Terminated

-----------------------------------------------------------------------------
(* Counting the workers in a part of operator().                           *)

At(S) == {w \in Workers : wpc[w] \in S}

LEMMA AtFinite ==
  \A S : /\ IsFiniteSet(At(S)) /\ Cardinality(At(S)) \in Nat
         /\ Cardinality(At(S)) <= N
         /\ Cardinality(At(S)) = 0 <=> At(S) = {}
         /\ Cardinality(At(S)) = N <=> At(S) = Workers
<1> SUFFICES ASSUME NEW S
             PROVE  /\ IsFiniteSet(At(S)) /\ Cardinality(At(S)) \in Nat
                    /\ Cardinality(At(S)) <= N
                    /\ Cardinality(At(S)) = 0 <=> At(S) = {}
                    /\ Cardinality(At(S)) = N <=> At(S) = Workers
  OBVIOUS
<1>1. At(S) \subseteq Workers /\ IsFiniteSet(Workers)
  BY PoolAssumption DEF At
<1>2. IsFiniteSet(At(S)) /\ Cardinality(At(S)) \in Nat
  BY <1>1, FS_Subset, FS_CardinalityType
<1>3. Cardinality(At(S)) <= N /\ (Cardinality(At(S)) = N <=> At(S) = Workers)
  BY <1>1, FS_Subset DEF N
<1>4. Cardinality(At(S)) = 0 <=> At(S) = {}
  BY <1>2, FS_EmptySet
<1>5. QED
  BY <1>2, <1>3, <1>4

\* A worker that moves enters a part, leaves it, or does neither.
LEMMA AtMove ==
  ASSUME TypeOK, NEW w \in Workers, NEW to, wpc' = [wpc EXCEPT ![w] = to], NEW S
  PROVE  /\ wpc[w] \notin S /\ to \in S => Cardinality(At(S)') = Cardinality(At(S)) + 1
         /\ wpc[w] \in S /\ to \notin S => Cardinality(At(S)') = Cardinality(At(S)) - 1
         /\ (wpc[w] \in S <=> to \in S) => At(S)' = At(S)
<1>1. \A v \in Workers : wpc'[v] = IF v = w THEN to ELSE wpc[v]
  BY DEF TypeOK
<1>2. ASSUME wpc[w] \notin S, to \in S
      PROVE  Cardinality(At(S)') = Cardinality(At(S)) + 1
  <2>1. At(S)' = At(S) \cup {w} /\ w \notin At(S)
    BY <1>1, <1>2 DEF At
  <2>2. QED
    BY <2>1, AtFinite, FS_AddElement
<1>3. ASSUME wpc[w] \in S, to \notin S
      PROVE  Cardinality(At(S)') = Cardinality(At(S)) - 1
  <2>1. At(S)' = At(S) \ {w} /\ w \in At(S)
    BY <1>1, <1>3 DEF At
  <2>2. QED
    BY <2>1, AtFinite, FS_RemoveElement
<1>4. (wpc[w] \in S <=> to \in S) => At(S)' = At(S)
  BY <1>1 DEF At
<1>5. QED
  BY <1>2, <1>3, <1>4

-----------------------------------------------------------------------------
(* The sentinel and the start.                                             *)

Relaying == {"relay"}
Starting == {"start"}
NotStarted == {"start", "initWait"}

SentinelInv ==
  sentinels + Cardinality(At(Relaying)) = IF Finalizing THEN 1 ELSE 0

\* The barrier counts those who have still to come; nobody gets past it before.
StartInv ==
  /\ initBar = Cardinality(At(Starting)) + (IF mpc = "init" THEN 1 ELSE 0)
  /\ mpc \notin {"init", "initWait"} => initBar = 0
  /\ (\E w \in Workers : wpc[w] \notin NotStarted) => initBar = 0

\* The counters of a barrier are far from wrapping around while it counts.
LEMMA Decrements ==
  /\ N \in Nat /\ SizeMax \in Nat /\ SizeMax > N + 1 /\ Unmade = SizeMax + 1
  /\ \A n \in Nat : n > 0 => Decrement(n) = n - 1
  /\ Decrement(0) = SizeMax
BY BarrierTypes, PoolAssumption DEF Decrement, Unmade, N

LEMMA SentinelStep ==
  ASSUME TypeInv, SentinelInv, [Next]_vars
  PROVE  SentinelInv'
<1>1. sentinels \in Nat /\ Cardinality(At(Relaying)) \in Nat
  BY AtFinite DEF TypeInv, TypeOK
<1>2. ASSUME NEW w \in Workers, NEW to \in WorkerStates, WorkerMove(w, to)
      PROVE  SentinelInv'
  <2>1. Finalizing' = Finalizing /\ wpc' = [wpc EXCEPT ![w] = to] /\ TypeOK
    BY <1>2 DEF WorkerMove, Finalizing, TypeInv
  <2>2. CASE to = "relay"
    <3>1. wpc[w] = "loop" /\ sentinels' = sentinels - 1
      BY <1>2, <2>2 DEF WorkerMove, Occupied
    <3>2. Cardinality(At(Relaying)') = Cardinality(At(Relaying)) + 1
      BY <2>1, <2>2, <3>1, AtMove DEF Relaying
    <3>3. QED
      BY <1>1, <2>1, <3>1, <3>2 DEF SentinelInv
  <2>3. CASE wpc[w] = "relay"
    <3>1. to \notin Relaying /\ sentinels' = sentinels + 1
      BY <1>2, <2>3 DEF WorkerMove, Occupied, Relaying
    <3>2. Cardinality(At(Relaying)') = Cardinality(At(Relaying)) - 1
      BY <2>1, <2>3, <3>1, AtMove DEF Relaying
    <3>3. QED
      BY <1>1, <2>1, <3>1, <3>2 DEF SentinelInv
  <2>4. CASE to # "relay" /\ wpc[w] # "relay"
    <3>1. UNCHANGED sentinels
      BY <1>2, <2>4 DEF WorkerMove
    <3>2. At(Relaying)' = At(Relaying)
      BY <2>1, <2>4, AtMove DEF Relaying
    <3>3. QED
      BY <2>1, <3>1, <3>2 DEF SentinelInv
  <2>5. QED
    BY <2>2, <2>3, <2>4
<1>3. CASE MasterMove
  <2>1. At(Relaying)' = At(Relaying)
    BY <1>3 DEF MasterMove, At
  <2>2. \/ sentinels' = sentinels /\ Finalizing' = Finalizing
        \/ sentinels' = sentinels + 1 /\ ~Finalizing /\ Finalizing'
    BY <1>3 DEF MasterMove, MasterGoto, Finalizing
  <2>3. QED
    BY <1>1, <2>1, <2>2 DEF SentinelInv
<1>4. CASE UNCHANGED controlVars
  BY <1>4 DEF controlVars, SentinelInv, At, Finalizing
<1>5. QED
  BY <1>2, <1>3, <1>4, ControlStep

LEMMA StartStep ==
  ASSUME TypeInv, StartInv, [Next]_vars
  PROVE  StartInv'
<1>1. initBar \in Nat /\ Cardinality(At(Starting)) \in Nat
  BY AtFinite DEF StartInv
<1>2. ASSUME NEW w \in Workers, NEW to \in WorkerStates, WorkerMove(w, to)
      PROVE  StartInv'
  <2>1. /\ mpc' = mpc /\ wpc' = [wpc EXCEPT ![w] = to] /\ TypeOK
        /\ \A v \in Workers : wpc'[v] = IF v = w THEN to ELSE wpc[v]
    BY <1>2 DEF WorkerMove, TypeInv, TypeOK
  <2>2. CASE wpc[w] = "start"
    <3>1. to = "initWait" /\ initBar' = Decrement(initBar)
      BY <1>2, <2>2 DEF WorkerMove, Occupied
    <3>2. Cardinality(At(Starting)') = Cardinality(At(Starting)) - 1
      <4>1. wpc[w] \in Starting /\ to \notin Starting
        BY <2>2, <3>1 DEF Starting
      <4>2. QED
        BY <2>1, <4>1, AtMove
    <3>3. Cardinality(At(Starting)) > 0
      <4>1. At(Starting) # {}
        BY <2>2 DEF At, Starting
      <4>2. QED
        BY <1>1, <4>1, AtFinite
    <3>4. initBar > 0 /\ initBar' = initBar - 1
      BY <1>1, <3>1, <3>3, Decrements DEF StartInv
    <3>5. QED
      BY <1>1, <2>1, <3>1, <3>2, <3>4 DEF StartInv, NotStarted
  <2>3. CASE wpc[w] # "start"
    <3>1. initBar' = initBar /\ to # "start" /\ (wpc[w] = "initWait" => initBar = 0)
      BY <1>2, <2>3 DEF WorkerMove, Occupied
    <3>2. At(Starting)' = At(Starting)
      BY <2>1, <2>3, <3>1, AtMove DEF Starting
    <3>3. QED
      BY <2>1, <2>3, <3>1, <3>2 DEF StartInv, NotStarted
  <2>4. QED
    BY <2>2, <2>3
<1>3. CASE MasterMove
  <2>1. At(Starting)' = At(Starting) /\ wpc' = wpc
    BY <1>3 DEF MasterMove, At
  <2>2. CASE mpc = "init"
    <3>1. mpc' = "initWait" /\ initBar' = Decrement(initBar)
      BY <1>3, <2>2 DEF MasterMove, MasterGoto
    <3>2. initBar > 0 /\ initBar' = initBar - 1
      BY <1>1, <2>2, <3>1, Decrements DEF StartInv
    <3>3. QED
      BY <1>1, <2>1, <2>2, <3>1, <3>2 DEF StartInv
  <2>3. CASE mpc # "init"
    <3>1. initBar' = initBar /\ mpc' # "init" /\ (mpc = "initWait" => initBar = 0)
      BY <1>3, <2>3 DEF MasterMove, MasterGoto
    <3>2. QED
      BY <2>1, <2>3, <3>1 DEF StartInv
  <2>4. QED
    BY <2>2, <2>3
<1>4. CASE UNCHANGED controlVars
  BY <1>4 DEF controlVars, StartInv, At
<1>5. QED
  BY <1>2, <1>3, <1>4, ControlStep

LEMMA InitControl == Init => SentinelInv /\ StartInv
<1> SUFFICES ASSUME Init PROVE SentinelInv /\ StartInv
  OBVIOUS
<1>1. At(Relaying) = {} /\ At(Starting) = Workers
  BY DEF Init, At, Relaying, Starting
<1>2. Cardinality(At(Relaying)) = 0 /\ Cardinality(At(Starting)) = N
  BY <1>1, AtFinite
<1>3. SentinelInv
  BY <1>2 DEF Init, SentinelInv, Finalizing
<1>4. StartInv
  BY <1>2 DEF Init, StartInv, NotStarted
<1>5. QED
  BY <1>3, <1>4

\* One sentinel for all workers: before finalize there is none, afterwards
\* exactly one, in the queue or in the hands of the worker that puts it back.
THEOREM SentinelIsConserved == Spec => []SentinelConserved
<1>1. TypeInv /\ SentinelInv /\ [Next]_vars => SentinelInv'
  BY SentinelStep
<1>2. SentinelInv => SentinelConserved
  <2>1. At(Relaying) = {w \in Workers : wpc[w] = "relay"}
    BY DEF At, Relaying
  <2>2. QED
    BY <2>1 DEF SentinelInv, SentinelConserved
<1>3. QED
  BY <1>1, <1>2, InitControl, TypeInvariant, PTL DEF Spec

\* No event is processed before every worker has initialised its Geant4.
THEOREM AllStartTogether == Spec => []StartsTogether
<1>1. TypeInv /\ StartInv /\ [Next]_vars => StartInv'
  BY StartStep
<1>2. StartInv => StartsTogether
  <2> SUFFICES ASSUME StartInv,
                      mpc \notin {"init", "initWait"}
                        \/ \E w \in Workers : wpc[w] \notin {"start", "initWait"}
               PROVE  mpc # "init" /\ \A w \in Workers : wpc[w] # "start"
    BY DEF StartsTogether
  <2>1. initBar = 0
    BY DEF StartInv, NotStarted
  <2>2. mpc # "init" /\ Cardinality(At(Starting)) = 0
    BY <2>1, AtFinite DEF StartInv
  <2>3. At(Starting) = {}
    BY <2>2, AtFinite
  <2>4. QED
    BY <2>2, <2>3 DEF At, Starting
<1>3. QED
  BY <1>1, <1>2, InitControl, TypeInvariant, PTL DEF Spec

-----------------------------------------------------------------------------
(* The tear-down.                                                          *)

AtFinal == {"finalWait", "finalize", "exited"}
MasterAtFinal == {"finalWait", "join", "done"}

\* The final barrier counts those who have still to come.  If a worker were
\* to ask for it before the main thread has made it, the counter would wrap
\* around and stay far from 0; either way it is 0 only when all have come.
FinalInv ==
  /\ finalBar + Cardinality(At(AtFinal))
       + (IF mpc \in MasterAtFinal THEN 1 ELSE 0) \in {N + 1, SizeMax + 1}
  /\ At({"finalize", "exited"}) # {} =>
       At(AtFinal) = Workers /\ mpc \in MasterAtFinal

\* The barrier opens only when the workers and the main thread are there.
LEMMA FinalBarrierOpens ==
  ASSUME TypeOK, FinalInv, finalBar = 0
  PROVE  At(AtFinal) = Workers /\ mpc \in MasterAtFinal
<1>1. Cardinality(At(AtFinal)) \in Nat /\ Cardinality(At(AtFinal)) <= N
  BY AtFinite
<1>2. Cardinality(At(AtFinal)) = N /\ mpc \in MasterAtFinal
  BY <1>1, Decrements DEF FinalInv
<1>3. QED
  BY <1>2, AtFinite

LEMMA FinalStep ==
  ASSUME PostProcessing, TypeInv, FinalInv, [Next]_vars
  PROVE  FinalInv'
<1> DEFINE a == Cardinality(At(AtFinal))
           m == IF mpc \in MasterAtFinal THEN 1 ELSE 0
<1>1. /\ finalBar \in Nat /\ finalBar <= Unmade /\ a \in Nat /\ a <= N
      /\ finalBar + a + m \in {N + 1, SizeMax + 1} /\ TypeOK
  BY AtFinite, BarrierTypes DEF FinalInv, TypeInv, TypeOK
<1>2. ASSUME NEW w \in Workers, NEW to \in WorkerStates, WorkerMove(w, to)
      PROVE  FinalInv'
  <2>1. /\ mpc' = mpc /\ wpc' = [wpc EXCEPT ![w] = to]
        /\ \A v \in Workers : wpc'[v] = IF v = w THEN to ELSE wpc[v]
    BY <1>1, <1>2 DEF WorkerMove, TypeOK
  <2>2. CASE to = "finalWait"
    <3>1. /\ wpc[w] = "finalBar" /\ wpc[w] \notin AtFinal /\ to \in AtFinal
          /\ finalBar' = Decrement(Get(finalBar, 0))
      BY <1>2, <2>2 DEF WorkerMove, Occupied, AtFinal
    <3>2. a' = a + 1
      BY <1>1, <2>1, <3>1, AtMove
    <3>3. finalBar # 0 /\ At({"finalize", "exited"}) = {}
      <4>1. w \notin At(AtFinal)
        BY <3>1 DEF At
      <4>2. QED
        BY <1>1, <4>1, FinalBarrierOpens DEF FinalInv
    <3>4. a \in Nat /\ a < N /\ m \in Nat
      <4>1. w \notin At(AtFinal)
        BY <3>1 DEF At
      <4>2. At(AtFinal) # Workers
        BY <4>1
      <4>3. a # N
        BY <4>2, AtFinite
      <4>4. QED
        BY <1>1, <4>3, Decrements
    <3>5. finalBar' = finalBar - 1
      <4>1. CASE finalBar = Unmade
        BY <4>1, <3>1, Decrements DEF Get
      <4>2. CASE finalBar # Unmade
        BY <1>1, <4>2, <3>1, <3>3, Decrements DEF Get
      <4>3. QED
        BY <4>1, <4>2
    <3>6. finalBar' + a' + m \in {N + 1, SizeMax + 1}
      BY <1>1, <3>2, <3>4, <3>5
    <3>7. At({"finalize", "exited"})' = {}
      BY <2>1, <2>2, <3>3 DEF At
    <3>8. QED
      BY <2>1, <3>6, <3>7 DEF FinalInv
  <2>3. CASE to # "finalWait"
    <3>1. finalBar' = finalBar /\ (wpc[w] \in AtFinal <=> to \in AtFinal)
      BY <1>2, <2>3 DEF WorkerMove, Occupied, AtFinal
    <3>2. At(AtFinal)' = At(AtFinal)
      BY <1>1, <2>1, <3>1, AtMove
    <3>3. At({"finalize", "exited"})' # {} =>
            At({"finalize", "exited"}) # {} \/ finalBar = 0
      <4>1. to \in {"finalize", "exited"} =>
              finalBar = 0 \/ wpc[w] = "finalize" \/ ~PostProcessing
        BY <1>2 DEF WorkerMove, Occupied
      <4>2. QED
        BY <2>1, <4>1 DEF At
    <3>4. QED
      BY <1>1, <2>1, <3>1, <3>2, <3>3, FinalBarrierOpens DEF FinalInv
  <2>4. QED
    BY <2>2, <2>3
<1>3. CASE MasterMove
  <2>1. /\ At(AtFinal)' = At(AtFinal)
        /\ At({"finalize", "exited"})' = At({"finalize", "exited"})
    BY <1>3 DEF MasterMove, At
  <2>2. CASE mpc = "finalBar"
    <3>1. mpc' = "finalWait" /\ finalBar' = Decrement(finalBar)
      BY <1>3, <2>2 DEF MasterMove, MasterGoto
    <3>2. finalBar # 0
      BY <1>1, <2>2, FinalBarrierOpens DEF MasterAtFinal
    <3>3. finalBar' = finalBar - 1
      BY <1>1, <3>1, <3>2, Decrements
    <3>4. mpc' \in MasterAtFinal /\ mpc \notin MasterAtFinal
      BY <2>2, <3>1 DEF MasterAtFinal
    <3>5. QED
      BY <1>1, <2>1, <3>3, <3>4, Decrements DEF FinalInv
  <2>3. CASE mpc = "getFinal"
    <3>1. mpc' = "postBar" /\ finalBar' = Get(finalBar, N + 1)
      BY <1>3, <2>3 DEF MasterMove, MasterGoto
    <3>2. mpc' \notin MasterAtFinal /\ mpc \notin MasterAtFinal
      BY <2>3, <3>1 DEF MasterAtFinal
    <3>3. finalBar' + a \in {N + 1, SizeMax + 1}
      BY <1>1, <3>1, <3>2, Decrements DEF Get
    <3>4. QED
      BY <1>1, <2>1, <3>2, <3>3, Decrements DEF FinalInv
  <2>4. CASE mpc \notin {"finalBar", "getFinal"}
    <3>1. finalBar' = finalBar /\ (mpc' \in MasterAtFinal <=> mpc \in MasterAtFinal)
      BY <1>3, <2>4 DEF MasterMove, MasterGoto, MasterAtFinal
    <3>2. QED
      BY <2>1, <3>1 DEF FinalInv
  <2>5. QED
    BY <2>2, <2>3, <2>4
<1>4. CASE UNCHANGED controlVars
  BY <1>4 DEF controlVars, FinalInv, At
<1>5. QED
  BY <1>2, <1>3, <1>4, ControlStep

LEMMA FinalInit == Init => FinalInv
<1> SUFFICES ASSUME Init PROVE FinalInv
  OBVIOUS
<1>1. At(AtFinal) = {} /\ At({"finalize", "exited"}) = {}
  BY DEF Init, At, AtFinal
<1>2. Cardinality(At(AtFinal)) = 0
  BY <1>1, AtFinite
<1>3. finalBar = SizeMax + 1 /\ mpc \notin MasterAtFinal
  BY DEF Init, Unmade, MasterAtFinal
<1>4. QED
  BY <1>1, <1>2, <1>3, Decrements DEF FinalInv

\* No worker tears its Geant4 down while the visualisation may still look at
\* an event.
THEOREM TeardownComesLast ==
  ASSUME ~Hoard PROVE Spec => []TeardownAfterPostProcessing
<1>1. CASE PostProcessing
  <2>1. TypeInv /\ FinalInv /\ [Next]_vars => FinalInv'
    BY <1>1, FinalStep
  <2>2. FinalInv /\ OwnershipInv => TeardownAfterPostProcessing
    <3> SUFFICES ASSUME FinalInv, OwnershipInv,
                        NEW w \in Workers, wpc[w] \in {"finalize", "exited"}
                 PROVE  /\ mpc \in {"finalWait", "join", "done"}
                        /\ \A p \in Payloads : grips[p] = 0
      BY DEF TeardownAfterPostProcessing
    <3>1. At({"finalize", "exited"}) # {}
      BY DEF At
    <3>2. At(AtFinal) = Workers /\ mpc \in MasterAtFinal
      BY <3>1 DEF FinalInv
    <3>3. \A v \in Workers : wpc[v] \in PastPost /\ ~HoldsEvent(v)
      BY <3>2 DEF At, AtFinal, PastPost, HoldsEvent
    <3>4. Finalizing
      BY <3>2 DEF MasterAtFinal, Finalizing
    <3>5. /\ \A v \in Workers : forCleanup[v] = {}
          /\ \A c \in Callers : futures[c] = {} /\ held[c] = {}
          /\ lost = {}
      BY <1>1, <3>3, <3>4 DEF OwnershipInv, FinalOK, Busy
    <3>6. ASSUME NEW p \in Payloads, grips[p] # 0 PROVE FALSE
      <4>1. grips[p] > 0 /\ creator[p] \in Workers
        BY <3>6, PoolAssumption DEF OwnershipInv, TypeInv, TypeOK, EventOK
      <4>2. promise[p] = "set" /\ deletions[p] = 0
        BY <3>3, <4>1, PoolAssumption DEF OwnershipInv, EventOK
      <4>3. QED
        BY <3>5, <4>1, <4>2 DEF OwnershipInv, OwnedOK
    <3>7. QED
      BY <3>2, <3>6 DEF MasterAtFinal
  <2>3. Ordered
    BY DEF Ordered
  <2>4. Spec => []OwnershipInv
    BY <2>3, OwnershipInvariant
  <2>5. QED
    BY <2>1, <2>2, <2>4, FinalInit, TypeInvariant, PTL DEF Spec
<1>2. CASE ~PostProcessing
  <2>1. TypeInv => TeardownAfterPostProcessing
    BY <1>2 DEF TeardownAfterPostProcessing
  <2>2. QED
    BY <2>1, TypeInvariant, PTL
<1>3. QED
  BY <1>1, <1>2

-----------------------------------------------------------------------------
(* The accounts of the workers.                                            *)

Made(w) == {p \in Payloads : creator[p] = w}
Freed(w) == {p \in Made(w) \ keep : deletions[p] # 0}
InWork(w) == IF HoldsEvent(w) THEN 1 ELSE 0

\* A pilot counts an event when its loop's body ends, some time after the
\* event has been made, and a deletion with the deletion; its clean-up list is
\* empty when its thread has ended.
AccountsInv ==
  \A w \in Workers :
    /\ Cardinality(Made(w)) = nCreated[w] + InWork(w)
    /\ Cardinality(Freed(w)) = nDeleted[w]
    /\ wpc[w] = "exited" => forCleanup[w] = {}

\* The part of a step that a worker's accounts depend on.
BookKept(w) ==
  /\ Made(w)' = Made(w) /\ Freed(w)' = Freed(w) /\ InWork(w)' = InWork(w)
  /\ nCreated'[w] = nCreated[w] /\ nDeleted'[w] = nDeleted[w]
  /\ wpc'[w] = "exited" =>
       forCleanup'[w] = {} \/ (wpc[w] = "exited" /\ forCleanup'[w] = forCleanup[w])

LEMMA BooksFinite ==
  \A w : IsFiniteSet(Made(w)) /\ IsFiniteSet(Freed(w))
BY PoolAssumption, FS_Subset DEF Made, Freed

\* CleanUp deletes events of its own worker, each for the first time, and
\* counts them; events to be kept are not among them.
LEMMA CleanUpAccounts ==
  ASSUME ~Hoard, OwnershipInv, AccountsInv, NEW w \in Workers,
         NEW force \in BOOLEAN, CleanUp(w, force),
         force => wpc[w] \in PastPost,
         UNCHANGED <<creator, keep, nCreated>>
  PROVE  /\ \A v \in Workers : Made(v)' = Made(v)
         /\ \A v \in Workers : Cardinality(Freed(v)') = nDeleted'[v]
<1> TypeOK
  BY DEF OwnershipInv, TypeInv
<1>1. \A v \in Workers : Made(v)' = Made(v)
  BY DEF Made
<1>2. Doomed(w, force) \subseteq Made(w) \ keep
  <2> SUFFICES ASSUME NEW p \in Doomed(w, force)
               PROVE  p \in Made(w) /\ p \notin keep
    OBVIOUS
  <2>1. p \in forCleanup[w] /\ p \in Payloads
    BY DEF Doomed, TypeOK
  <2>2. creator[p] = w
    BY <2>1 DEF OwnershipInv, CleanupOK
  <2>3. p \in keep => PostProcessing /\ ~force
    BY <2>1 DEF OwnershipInv, EventOK, FinalOK
  <2>4. QED
    BY <2>1, <2>2, <2>3 DEF Made, Doomed
<1>3. \A p \in Doomed(w, force) : deletions[p] = 0
  BY DEF Doomed, OwnershipInv, CleanupOK
<1>4. /\ \A p \in Payloads : deletions'[p] # 0 <=>
                               deletions[p] # 0 \/ p \in Doomed(w, force)
  <2>1. nToProcess[w] > 0 => forCleanup[w] # {}
    BY DEF OwnershipInv, WorkerOK
  <2>2. deletions' = [p \in Payloads |->
          IF p \in Doomed(w, force) THEN deletions[p] + 1 ELSE deletions[p]]
    BY <2>1, CleanUpEffect
  <2>3. QED
    BY <2>2 DEF TypeOK
<1>5. Freed(w)' = Freed(w) \cup Doomed(w, force)
      /\ Freed(w) \cap Doomed(w, force) = {}
  BY <1>1, <1>2, <1>3, <1>4 DEF Freed, Made
<1>6. \A v \in Workers \ {w} : Freed(v)' = Freed(v)
  <2>1. \A v \in Workers \ {w} : \A p \in Made(v) : p \notin Made(w)
    BY DEF Made
  <2>2. QED
    BY <1>1, <1>2, <1>4, <2>1 DEF Freed, Made
<1>7. /\ nDeleted'[w] = nDeleted[w] + Cardinality(Doomed(w, force))
      /\ \A v \in Workers \ {w} : nDeleted'[v] = nDeleted[v]
  <2>1. CASE forCleanup[w] = {}
    <3>1. Doomed(w, force) = {} /\ nDeleted' = nDeleted
      BY <2>1 DEF CleanUp, Doomed
    <3>2. Cardinality(Doomed(w, force)) = 0
      BY <3>1, FS_EmptySet
    <3>3. QED
      BY <3>1, <3>2 DEF TypeOK
  <2>2. CASE forCleanup[w] # {}
    BY <2>2 DEF CleanUp, TypeOK
  <2>3. QED
    BY <2>1, <2>2
<1>8. Cardinality(Freed(w)') =
        Cardinality(Freed(w)) + Cardinality(Doomed(w, force))
  <2>1. IsFiniteSet(Doomed(w, force)) /\ IsFiniteSet(Freed(w))
    BY <1>2, BooksFinite, FS_Subset
  <2>2. Cardinality(Freed(w) \cap Doomed(w, force)) = 0
    BY <1>5, FS_EmptySet
  <2>3. /\ Cardinality(Freed(w)) \in Nat
        /\ Cardinality(Doomed(w, force)) \in Nat
    BY <2>1, FS_CardinalityType
  <2>4. Cardinality(Freed(w) \cup Doomed(w, force)) =
          Cardinality(Freed(w)) + Cardinality(Doomed(w, force))
            - Cardinality(Freed(w) \cap Doomed(w, force))
    BY <2>1, FS_Union
  <2>5. QED
    BY <1>5, <2>2, <2>3, <2>4
<1>9. QED
  BY <1>1, <1>6, <1>7, <1>8 DEF AccountsInv

LEMMA AccountsStep ==
  ASSUME ~Hoard, OwnershipInv, AccountsInv, [Next]_vars
  PROVE  AccountsInv'
<1> TypeOK /\ OccupiedOK
  BY DEF OwnershipInv, TypeInv
<1> USE DEF workerVars, counterVars, queueVars, callerVars, eventVars,
            barrierVars, Goto, MasterGoto
<1>1. (\A w \in Workers : BookKept(w)) => AccountsInv'
  BY DEF AccountsInv, BookKept
<1>2. ASSUME NEW c \in Callers, CallSimulate(c) \/ Return(c)
             \/ \E p \in Payloads : Submit(c, p)
      PROVE  \A w \in Workers : BookKept(w)
  BY <1>2 DEF CallSimulate, Return, Submit, BookKept, Made, Freed, InWork,
              HoldsEvent
<1>3. ASSUME NEW c \in Callers, NEW p \in Payloads, ReleaseProxy(c, p)
      PROVE  \A w \in Workers : BookKept(w)
  <2>1. \A w \in Workers : wpc[w] = "exited" => forCleanup'[w] = forCleanup[w]
    BY <1>3 DEF ReleaseProxy, TypeOK
  <2>2. QED
    BY <1>3, <2>1 DEF ReleaseProxy, BookKept, Made, Freed, InWork, HoldsEvent
<1>4. ASSUME NEW w \in Workers,
             \/ InitializeWorker(w) \/ LeaveInitBarrier(w)
             \/ \E p \in Payloads : Dequeue(w, p)
             \/ DequeueSentinel(w) \/ RelaySentinel(w)
             \/ ArrivePostBarrier(w) \/ LeavePostBarrier(w)
             \/ ArriveFinalBarrier(w) \/ LeaveFinalBarrier(w)
             \/ RejectStructure(w) \/ BeginStoreEvent(w) \/ EndStoreEvent(w)
             \/ Publish(w)
      PROVE  \A v \in Workers : BookKept(v)
  <2>1. /\ UNCHANGED <<creator, deletions, keep, nCreated, nDeleted, forCleanup>>
        /\ wpc' = wpc \/ \E to : wpc' = [wpc EXCEPT ![w] = to] /\ to # "exited"
    BY <1>4
    DEF InitializeWorker, LeaveInitBarrier, Dequeue, DequeueSentinel,
        RelaySentinel, ArrivePostBarrier, LeavePostBarrier, ArriveFinalBarrier,
        LeaveFinalBarrier, RejectStructure, BeginStoreEvent, EndStoreEvent, Publish
  <2>2. \A v \in Workers : HoldsEvent(v)' <=> HoldsEvent(v)
    BY <1>4
    DEF InitializeWorker, LeaveInitBarrier, Dequeue, DequeueSentinel,
        RelaySentinel, ArrivePostBarrier, LeavePostBarrier, ArriveFinalBarrier,
        LeaveFinalBarrier, RejectStructure, BeginStoreEvent, EndStoreEvent,
        Publish, HoldsEvent, TypeOK
  <2>3. QED
    BY <2>1, <2>2 DEF BookKept, Made, Freed, InWork, TypeOK
<1>5. ASSUME NEW w \in Workers, Simulate(w) PROVE \A v \in Workers : BookKept(v)
  <2>1. /\ UNCHANGED <<creator, deletions, nCreated, nDeleted, forCleanup>>
        /\ wpc' \in {[wpc EXCEPT ![w] = "store"], [wpc EXCEPT ![w] = "publish"]}
        /\ wpc[w] = "simulate"
        /\ keep \subseteq keep' /\ keep' \subseteq keep \cup {cur[w]}
    BY <1>5 DEF Simulate
  <2>2. deletions[cur[w]] = 0
    BY <2>1 DEF OwnershipInv, WorkerOK, Occupied
  <2>3. \A v \in Workers : HoldsEvent(v)' <=> HoldsEvent(v)
    BY <2>1 DEF HoldsEvent, TypeOK
  <2>4. \A v \in Workers : Freed(v)' = Freed(v)
    BY <2>1, <2>2 DEF Freed, Made
  <2>5. \A v \in Workers : wpc'[v] = "exited" => wpc[v] = "exited"
    BY <2>1 DEF TypeOK
  <2>6. QED
    BY <2>1, <2>3, <2>4, <2>5 DEF BookKept, Made, InWork
<1>6. ASSUME NEW w \in Workers, BuildEvent(w) PROVE AccountsInv'
  <2>1. /\ UNCHANGED <<deletions, keep, nCreated, nDeleted, forCleanup>>
        /\ wpc' = [wpc EXCEPT ![w] = "simulate"] /\ wpc[w] = "build"
        /\ creator' = [creator EXCEPT ![cur[w]] = w]
    BY <1>6 DEF BuildEvent
  <2>2. /\ cur[w] \in Payloads /\ deletions[cur[w]] = 0
        /\ creator[cur[w]] = NoWorker
    BY <2>1, PoolAssumption
    DEF OwnershipInv, WorkerOK, Occupied, HoldsEvent, TypeOK, OccupiedOK
  <2>3. /\ Made(w)' = Made(w) \cup {cur[w]} /\ cur[w] \notin Made(w)
        /\ \A v \in Workers \ {w} : Made(v)' = Made(v)
    BY <2>1, <2>2, PoolAssumption DEF Made, TypeOK
  <2>4. \A v \in Workers : Freed(v)' = Freed(v)
    BY <2>1, <2>2, <2>3 DEF Freed
  <2>5. /\ InWork(w)' = 1 /\ InWork(w) = 0
        /\ \A v \in Workers \ {w} : InWork(v)' = InWork(v)
    BY <2>1 DEF InWork, HoldsEvent, TypeOK
  <2>6. Cardinality(Made(w)') = Cardinality(Made(w)) + 1
    <3>1. IsFiniteSet(Made(w))
      BY BooksFinite
    <3>2. QED
      BY <2>3, <3>1, FS_AddElement, SMTT(20)
  <2>7. \A v \in Workers : wpc'[v] = "exited" => wpc[v] = "exited"
    BY <2>1 DEF TypeOK
  <2>8. /\ Cardinality(Made(w)') = nCreated'[w] + InWork(w)'
        /\ \A v \in Workers \ {w} : Cardinality(Made(v)') = nCreated'[v] + InWork(v)'
    <3>1. Cardinality(Made(w)) = nCreated[w] + 0 /\ nCreated[w] \in Nat
      BY <2>5 DEF AccountsInv, TypeOK
    <3>2. nCreated'[w] = nCreated[w]
      BY <2>1
    <3>3. Cardinality(Made(w)') = nCreated'[w] + InWork(w)'
      BY <2>5, <2>6, <3>1, <3>2
    <3>4. QED
      BY <2>1, <2>3, <2>5, <3>3 DEF AccountsInv
  <2>9. QED
    BY <2>1, <2>4, <2>7, <2>8 DEF AccountsInv
<1>7. ASSUME NEW w \in Workers, CountCreated(w) PROVE AccountsInv'
  <2>1. /\ UNCHANGED <<deletions, keep, creator, nDeleted, forCleanup>>
        /\ wpc' = [wpc EXCEPT ![w] = "loop"] /\ wpc[w] = "count"
        /\ nCreated' = [nCreated EXCEPT ![w] = @ + 1]
    BY <1>7 DEF CountCreated
  <2>2. \A v \in Workers : Made(v)' = Made(v) /\ Freed(v)' = Freed(v)
    BY <2>1 DEF Made, Freed
  <2>3. /\ InWork(w)' = 0 /\ InWork(w) = 1
        /\ \A v \in Workers \ {w} : InWork(v)' = InWork(v)
    BY <2>1 DEF InWork, HoldsEvent, TypeOK
  <2>4. \A v \in Workers : wpc'[v] = "exited" => wpc[v] = "exited"
    BY <2>1 DEF TypeOK
  <2>5. QED
    BY <2>1, <2>2, <2>3, <2>4 DEF AccountsInv, TypeOK
<1>8. ASSUME NEW w \in Workers,
             CleanUpBeforeEvent(w) \/ PostProcess(w) \/ FinalizeWorker(w)
      PROVE  AccountsInv'
  <2>1. PICK force \in BOOLEAN :
          /\ CleanUp(w, force)
          /\ force => wpc[w] = "finalize"
          /\ UNCHANGED <<creator, keep, nCreated>>
          /\ ~force => wpc'[w] # "exited"
          /\ \E to : wpc' = [wpc EXCEPT ![w] = to]
          /\ ~HoldsEvent(w) /\ ~HoldsEvent(w)'
    <3>1. CASE CleanUpBeforeEvent(w)
      BY <3>1 DEF CleanUpBeforeEvent, HoldsEvent, TypeOK
    <3>2. CASE PostProcess(w)
      BY <3>2 DEF PostProcess, HoldsEvent, TypeOK
    <3>3. CASE FinalizeWorker(w)
      BY <3>3 DEF FinalizeWorker, HoldsEvent, TypeOK
    <3>4. QED
      BY <1>8, <3>1, <3>2, <3>3
  <2>2. /\ \A v \in Workers : Made(v)' = Made(v)
        /\ \A v \in Workers : Cardinality(Freed(v)') = nDeleted'[v]
    BY <2>1, CleanUpAccounts DEF PastPost
  <2>3. \A v \in Workers : InWork(v)' = InWork(v)
    BY <2>1 DEF InWork, HoldsEvent, TypeOK
  <2>4. \A v \in Workers : wpc'[v] = "exited" => forCleanup'[v] = {}
    <3>1. nToProcess[w] > 0 => forCleanup[w] # {}
      BY DEF OwnershipInv, WorkerOK
    <3>2. forCleanup' = [forCleanup EXCEPT ![w] = Postponed(w, force)]
      BY <2>1, <3>1, CleanUpEffect
    <3>3. force => Postponed(w, force) = {}
      BY DEF Postponed
    <3>4. \A v \in Workers \ {w} : wpc'[v] = wpc[v]
      BY <2>1 DEF TypeOK
    <3>5. QED
      BY <2>1, <3>2, <3>3, <3>4 DEF AccountsInv, TypeOK
  <2>5. QED
    BY <2>1, <2>2, <2>3, <2>4 DEF AccountsInv
<1>9. CASE MasterStep /\ ~JoinWorkers
  BY <1>9
  DEF MasterStep, ArriveInitBarrier, StartEventLoop, BeginFinalize,
      MakePostBarrier, MakeFinalBarrier, MasterArrivePostBarrier,
      EndOfRunAction, MasterArriveFinalBarrier, MasterLeaveFinalBarrier,
      AccountsInv, Made, Freed, InWork, HoldsEvent
<1>10. CASE JoinWorkers
  <2>1. /\ UNCHANGED <<creator, keep, wpc, nCreated, nDeleted, forCleanup>>
        /\ \A p \in Payloads : p \notin run => deletions'[p] = deletions[p]
    BY <1>10 DEF JoinWorkers
  <2>2. run \subseteq keep
    BY DEF OwnershipInv, EventOK, TypeOK
  <2>3. \A w \in Workers : Freed(w)' = Freed(w)
    BY <2>1, <2>2 DEF Freed, Made
  <2>4. QED
    BY <1>1, <2>1, <2>3 DEF BookKept, Made, InWork, HoldsEvent
<1>11. CASE (\E p \in Payloads : ReleaseGrip(p)) \/ UNCHANGED vars
  BY <1>11 DEF ReleaseGrip, vars, AccountsInv, Made, Freed, InWork, HoldsEvent
<1>12. QED
  BY <1>1, <1>2, <1>3, <1>4, <1>5, <1>6, <1>7, <1>8, <1>9, <1>10, <1>11
  DEF Next, CallerProgress, WorkerStep, Terminated

LEMMA AccountsInvariant == ASSUME ~Hoard PROVE Spec => []AccountsInv
<1>1. Init => AccountsInv
  <2> SUFFICES ASSUME Init PROVE AccountsInv
    OBVIOUS
  <2>1. \A w \in Workers : Made(w) = {} /\ Freed(w) = {} /\ InWork(w) = 0
    BY PoolAssumption DEF Init, Made, Freed, InWork, HoldsEvent
  <2>2. Cardinality({}) = 0
    BY FS_EmptySet
  <2>3. ASSUME NEW w \in Workers
        PROVE  /\ Cardinality(Made(w)) = 0 /\ Cardinality(Freed(w)) = 0
               /\ nCreated[w] = 0 /\ nDeleted[w] = 0 /\ wpc[w] # "exited"
    BY <2>1, <2>2 DEF Init
  <2>4. QED
    BY <2>1, <2>3 DEF AccountsInv
<1>2. OwnershipInv /\ AccountsInv /\ [Next]_vars => AccountsInv'
  BY AccountsStep
<1>3. Spec => []OwnershipInv
  BY OwnershipInvariant DEF Ordered
<1>4. QED
  BY <1>1, <1>2, <1>3, PTL DEF Spec

\* When a worker has left, each of its events has been deleted or is kept.
LEMMA NothingLeftBehind ==
  ASSUME ~Hoard, OwnershipInv, AccountsInv, NEW w \in Workers,
         wpc[w] = "exited", NEW p \in Made(w), p \notin keep
  PROVE  deletions[p] = 1
<1>1. p \in Payloads /\ creator[p] = w /\ creator[p] # NoWorker
  BY PoolAssumption DEF Made
<1>2. promise[p] = "set"
  BY <1>1 DEF OwnershipInv, EventOK, HoldsEvent
<1>3. /\ \A c \in Callers : p \notin futures[c] \cup held[c]
      /\ p \notin lost /\ forCleanup[w] = {}
  BY DEF OwnershipInv, FinalOK, PastLoop, PastPost, Busy, AccountsInv
<1>4. QED
  BY <1>1, <1>2, <1>3 DEF OwnershipInv, OwnedOK

\* Every pilot's books are balanced when it leaves.
THEOREM BooksAreBalanced == ASSUME ~Hoard PROVE Spec => []AccountsBalance
<1>1. OwnershipInv /\ AccountsInv => AccountsBalance
  <2> SUFFICES ASSUME OwnershipInv, AccountsInv,
                      NEW w \in Workers, wpc[w] = "exited"
               PROVE  nCreated[w] = nDeleted[w]
                        + Cardinality({p \in keep : creator[p] = w})
    BY DEF AccountsBalance
  <2> DEFINE kept == {p \in keep : creator[p] = w}
  <2>1. kept \subseteq Payloads /\ IsFiniteSet(kept)
    BY PoolAssumption, FS_Subset DEF OwnershipInv, TypeInv, TypeOK
  <2>2. Made(w) = Freed(w) \cup kept /\ Freed(w) \cap kept = {}
    BY <2>1, NothingLeftBehind DEF Freed, Made
  <2>3. Cardinality(Freed(w) \cap kept) = 0
    BY <2>2, FS_EmptySet
  <2>4. Cardinality(Freed(w)) \in Nat /\ Cardinality(kept) \in Nat
    BY <2>1, BooksFinite, FS_CardinalityType
  <2>5. Cardinality(Made(w)) = Cardinality(Freed(w)) + Cardinality(kept)
    <3>1. IsFiniteSet(Freed(w))
      BY BooksFinite
    <3>2. Cardinality(Freed(w) \cup kept) =
            Cardinality(Freed(w)) + Cardinality(kept)
              - Cardinality(Freed(w) \cap kept)
      BY <2>1, <3>1, FS_Union
    <3>3. QED
      BY <2>2, <2>3, <2>4, <3>2
  <2>6. InWork(w) = 0 /\ nCreated[w] \in Nat
    BY DEF InWork, HoldsEvent, OwnershipInv, TypeInv, TypeOK
  <2>7. QED
    BY <2>5, <2>6 DEF AccountsInv
<1>2. Spec => []OwnershipInv
  BY OwnershipInvariant DEF Ordered
<1>3. QED
  BY <1>1, <1>2, AccountsInvariant, PTL

\* At the end of the process no event is left over.
THEOREM EventsAreNotLost == ASSUME ~Hoard PROVE Spec => []NoEventLost
<1>1. OwnershipInv /\ AccountsInv => NoEventLost
  <2> SUFFICES ASSUME OwnershipInv, AccountsInv, mpc = "done",
                      NEW p \in Payloads \ keep, creator[p] # NoWorker
               PROVE  deletions[p] = 1
    BY DEF NoEventLost
  <2>1. creator[p] \in Workers /\ p \in Made(creator[p])
    BY DEF Made, OwnershipInv, TypeInv, TypeOK
  <2>2. wpc[creator[p]] = "exited"
    BY <2>1 DEF OwnershipInv, FinalOK
  <2>3. QED
    BY <2>1, <2>2, NothingLeftBehind
<1>2. Spec => []OwnershipInv
  BY OwnershipInvariant DEF Ordered
<1>3. QED
  BY <1>1, <1>2, AccountsInvariant, PTL

-----------------------------------------------------------------------------
(* Who deletes events.  Which worker made an event is settled before the   *)
(* event can be released, whatever becomes of it later, so a clean-up list *)
(* only has events of its own worker; this needs no order at the end of    *)
(* the run and holds with hoarding services and a visualisation, too.      *)

\* A payload is asked for once, is in one hand while it is pending, and has
\* a maker when its result is out; the lists of pilots are their own events.
MakerInv ==
  /\ TypeInv
  /\ \A c \in Callers, p \in Payloads :
       /\ p \in todo[c] => promise[p] = "none"
       /\ p \in todo[c] => \A d \in Callers \ {c} : p \notin todo[d]
       /\ p \in futures[c] => promise[p] # "none"
       /\ p \in held[c] => promise[p] = "set"
  /\ \A p \in queued : promise[p] = "pending" /\ \A w \in Workers : cur[w] # p
  /\ \A w \in Workers : wpc[w] \in Occupied =>
       /\ promise[cur[w]] = IF wpc[w] = "count" THEN "set" ELSE "pending"
       /\ HoldsEvent(w) => creator[cur[w]] = w
       /\ \A v \in Workers : cur[v] = cur[w] => v = w
  /\ \A p \in Payloads : promise[p] = "set" => creator[p] \in Workers
  /\ \A w \in Workers : \A p \in forCleanup[w] :
       promise[p] = "set" /\ creator[p] = w

LEMMA MakerStep == MakerInv /\ [Next]_vars => MakerInv'
<1> SUFFICES ASSUME MakerInv, [Next]_vars PROVE MakerInv'
  OBVIOUS
<1> TypeInv /\ TypeInv'
  BY TypeStep DEF MakerInv
<1> USE PoolAssumption
    DEF MakerInv, TypeInv, TypeOK, OccupiedOK, Occupied, HoldsEvent, Goto,
        Busy, workerVars, counterVars, queueVars, callerVars, eventVars,
        barrierVars
<1>1. ASSUME NEW c \in Callers, CallSimulate(c) PROVE MakerInv'
  BY <1>1 DEF CallSimulate, Fresh
<1>2. ASSUME NEW c \in Callers, Return(c) PROVE MakerInv'
  BY <1>2 DEF Return
<1>3. ASSUME NEW c \in Callers, NEW p \in Payloads,
             Submit(c, p) \/ ReleaseProxy(c, p)
      PROVE  MakerInv'
  <2>1. CASE Submit(c, p)
    BY <2>1 DEF Submit
  <2>2. CASE ReleaseProxy(c, p)
    <3>1. promise[p] = "set" /\ creator[p] \in Workers
      BY <2>2 DEF ReleaseProxy
    <3>2. \A w \in Workers : \A q \in forCleanup'[w] :
            q \in forCleanup[w] \/ (q = p /\ creator[p] = w)
      BY <2>2, <3>1 DEF ReleaseProxy
    <3>3. \A d \in Callers : held'[d] \subseteq held[d]
      BY <2>2 DEF ReleaseProxy
    <3>4. UNCHANGED <<wpc, cur, queued, todo, futures, promise, creator>>
      BY <2>2 DEF ReleaseProxy
    <3>5. QED
      BY <3>1, <3>2, <3>3, <3>4
  <2>3. QED
    BY <1>3, <2>1, <2>2
<1>4. ASSUME NEW w \in Workers,
             \/ InitializeWorker(w) \/ LeaveInitBarrier(w)
             \/ DequeueSentinel(w) \/ RelaySentinel(w)
             \/ ArrivePostBarrier(w) \/ LeavePostBarrier(w)
             \/ ArriveFinalBarrier(w) \/ LeaveFinalBarrier(w)
             \/ BeginStoreEvent(w) \/ RejectStructure(w)
      PROVE  MakerInv'
  BY <1>4 DEF InitializeWorker, LeaveInitBarrier, DequeueSentinel,
    RelaySentinel, ArrivePostBarrier, LeavePostBarrier, ArriveFinalBarrier,
    LeaveFinalBarrier, BeginStoreEvent, RejectStructure
<1>5. ASSUME NEW w \in Workers, NEW p \in Payloads, Dequeue(w, p)
      PROVE  MakerInv'
  BY <1>5 DEF Dequeue
<1>6. ASSUME NEW w \in Workers,
             BuildEvent(w) \/ Simulate(w) \/ EndStoreEvent(w) \/ Publish(w)
             \/ CountCreated(w)
      PROVE  MakerInv'
  <2>1. CASE BuildEvent(w)    BY <2>1 DEF BuildEvent
  <2>2. CASE Simulate(w)      BY <2>2 DEF Simulate
  <2>3. CASE EndStoreEvent(w) BY <2>3 DEF EndStoreEvent
  <2>4. CASE Publish(w)       BY <2>4 DEF Publish
  <2>5. CASE CountCreated(w)  BY <2>5 DEF CountCreated
  <2>6. QED
    BY <1>6, <2>1, <2>2, <2>3, <2>4, <2>5
<1>7. ASSUME NEW w \in Workers,
             \/ CleanUpBeforeEvent(w) \/ PostProcess(w) \/ FinalizeWorker(w)
      PROVE  MakerInv'
  <2>1. PICK force \in BOOLEAN : CleanUp(w, force)
    BY <1>7 DEF CleanUpBeforeEvent, PostProcess, FinalizeWorker
  <2>2. \A v \in Workers : forCleanup'[v] \subseteq forCleanup[v]
    <3>1. Postponed(w, force) \subseteq forCleanup[w]
      BY DEF Postponed
    <3>2. \/ forCleanup' = forCleanup
          \/ forCleanup' = [forCleanup EXCEPT ![w] = Postponed(w, force)]
      BY <2>1 DEF CleanUp
    <3>3. \A v \in Workers : forCleanup'[v] =
            IF v = w /\ forCleanup' # forCleanup THEN Postponed(w, force)
            ELSE forCleanup[v]
      BY <3>2
    <3>4. QED
      BY ONLY <3>1, <3>3
  <2>3. PICK to \in {"build", "post", "postBar", "exited"} :
          wpc' = [wpc EXCEPT ![w] = to]
          /\ (to = "build" => wpc[w] = "cleanup")
    BY <1>7 DEF CleanUpBeforeEvent, PostProcess, FinalizeWorker
  <2>4. UNCHANGED <<cur, queued, todo, futures, held, promise, creator>>
    BY <1>7 DEF CleanUpBeforeEvent, PostProcess, FinalizeWorker
  <2>5. QED
    BY <2>2, <2>3, <2>4
<1>8. CASE MasterStep \/ (\E p \in Payloads : ReleaseGrip(p)) \/ UNCHANGED vars
  BY <1>8 DEF MasterStep, ArriveInitBarrier, StartEventLoop, BeginFinalize,
    MakePostBarrier, MakeFinalBarrier, MasterArrivePostBarrier,
    EndOfRunAction, MasterArriveFinalBarrier, MasterLeaveFinalBarrier,
    JoinWorkers, ReleaseGrip, vars
<1>9. QED
  BY <1>1, <1>2, <1>3, <1>4, <1>5, <1>6, <1>7, <1>8
  DEF Next, CallerProgress, WorkerStep, Terminated

\* CleanUp counts what it deletes, and deletes its own worker's events.
LEMMA CleanUpCounts ==
  ASSUME MakerInv, NEW w \in Workers, NEW force \in BOOLEAN, CleanUp(w, force),
         NEW p \in Payloads, deletions'[p] # deletions[p]
  PROVE  creator[p] = w /\ nDeleted'[w] > nDeleted[w]
<1>1. TypeOK
  BY DEF MakerInv, TypeInv
<1>2. forCleanup[w] # {} /\ p \in Doomed(w, force)
  BY <1>1 DEF CleanUp, TypeOK
<1>3. creator[p] = w
  BY <1>2 DEF Doomed, MakerInv
<1>4. IsFiniteSet(Doomed(w, force))
  BY <1>1, PoolAssumption, FS_Subset DEF Doomed, TypeOK
<1>5. Cardinality(Doomed(w, force)) \in Nat \ {0}
  BY <1>2, <1>4, FS_CardinalityType, FS_EmptySet
<1>6. QED
  BY <1>1, <1>2, <1>3, <1>5 DEF CleanUp, TypeOK

\* Only the worker that made an event deletes it, or the end of the run.
LEMMA DeletionStep ==
  ASSUME MakerInv, [Next]_vars,
         NEW p \in Payloads, deletions'[p] # deletions[p]
  PROVE  \/ nDeleted'[creator[p]] > nDeleted[creator[p]]
         \/ mpc' = "done"
<1>1. ASSUME NEW w \in Workers, NEW force \in BOOLEAN, CleanUp(w, force)
      PROVE  nDeleted'[creator[p]] > nDeleted[creator[p]]
  BY <1>1, CleanUpCounts
<1>2. CASE deletions' = deletions
  BY <1>2
<1>3. CASE JoinWorkers
  BY <1>3 DEF JoinWorkers, MasterGoto
<1>4. CASE \E w \in Workers, force \in BOOLEAN : CleanUp(w, force)
  BY <1>1, <1>4
<1>5. ASSUME NEW w \in Workers, WorkerStep(w)
      PROVE  deletions' = deletions \/ \E force \in BOOLEAN : CleanUp(w, force)
  BY <1>5 DEF WorkerStep, InitializeWorker, LeaveInitBarrier, Dequeue,
    DequeueSentinel, RelaySentinel, CleanUpBeforeEvent, BuildEvent, Simulate,
    BeginStoreEvent, EndStoreEvent, Publish, CountCreated, PostProcess,
    ArrivePostBarrier, LeavePostBarrier, ArriveFinalBarrier,
    LeaveFinalBarrier, FinalizeWorker, eventVars
<1>6. ASSUME MasterStep PROVE deletions' = deletions \/ JoinWorkers
  BY <1>6 DEF MasterStep, ArriveInitBarrier, StartEventLoop, BeginFinalize,
    MakePostBarrier, MakeFinalBarrier, MasterArrivePostBarrier,
    EndOfRunAction, MasterArriveFinalBarrier, MasterLeaveFinalBarrier,
    eventVars
<1>7. ASSUME NEW c \in Callers, CallSimulate(c) \/ CallerProgress(c)
      PROVE  deletions' = deletions
  BY <1>7 DEF CallSimulate, CallerProgress, Return, Submit, ReleaseProxy,
    eventVars
<1>8. QED
  BY <1>2, <1>3, <1>4, <1>5, <1>6, <1>7
  DEF Next, RejectStructure, ReleaseGrip, Terminated, vars, eventVars

\* Only the worker that made an event deletes it, or the main thread at the
\* end of the run: RegisterForCleanUp hands each event to its own pilot.
THEOREM OnlyTheMakerDeletes == Spec => DeletedByCreator
<1>1. Init => MakerInv
  BY TypeInit
  DEF Init, MakerInv, TypeInv, OccupiedOK, Occupied, HoldsEvent, TypeOK
<1>2. MakerInv /\ [Next]_vars =>
        [\A p \in Payloads : deletions'[p] # deletions[p] =>
           \/ nDeleted'[creator[p]] > nDeleted[creator[p]]
           \/ mpc' = "done"]_vars
  BY DeletionStep
<1>3. QED
  BY <1>1, <1>2, MakerStep, PTL DEF Spec, DeletedByCreator

-----------------------------------------------------------------------------
(* What callers may rely on, whatever becomes of their events afterwards.  *)

\* Somebody waits for each submitted payload, and calls end before finalize.
CallInv ==
  /\ MakerInv /\ AskedOK
  /\ sentinels > 0 => Finalizing
  /\ \A w \in Workers : wpc[w] \in PastLoop => Finalizing
  /\ Finalizing => \A c \in Callers : ~Busy(c)

LEMMA CallStep == CallInv /\ [Next]_vars => CallInv'
<1> SUFFICES ASSUME CallInv, [Next]_vars PROVE CallInv'
  OBVIOUS
<1>1. TypeInv /\ TypeOK /\ MakerInv'
  BY MakerStep DEF CallInv, MakerInv, TypeInv
<1>2. \/ \E c \in Callers : CallSimulate(c) \/ CallerProgress(c)
      \/ \E w \in Workers : Publish(w)
      \/ BeginFinalize
      \/ UNCHANGED <<todo, futures, promise>> /\ (Finalizing' => Finalizing)
  <2>1. ASSUME NEW w \in Workers, WorkerStep(w), ~Publish(w)
        PROVE  UNCHANGED <<todo, futures, promise, mpc>>
    BY <2>1
    DEF WorkerStep, InitializeWorker, LeaveInitBarrier, Dequeue, CleanUp,
        DequeueSentinel, RelaySentinel, CleanUpBeforeEvent, BuildEvent,
        Simulate, BeginStoreEvent, EndStoreEvent, CountCreated, PostProcess,
        ArrivePostBarrier, LeavePostBarrier, ArriveFinalBarrier,
        LeaveFinalBarrier, FinalizeWorker, callerVars, barrierVars
  <2>2. ASSUME MasterStep, ~BeginFinalize
        PROVE  UNCHANGED <<todo, futures, promise>> /\ (Finalizing' => Finalizing)
    BY <2>2
    DEF MasterStep, ArriveInitBarrier, StartEventLoop, MakePostBarrier,
        MakeFinalBarrier, MasterArrivePostBarrier, EndOfRunAction,
        MasterArriveFinalBarrier, MasterLeaveFinalBarrier, JoinWorkers,
        MasterGoto, Finalizing, callerVars
  <2>3. ASSUME \/ \E w \in Workers : RejectStructure(w)
               \/ \E p \in Payloads : ReleaseGrip(p)
               \/ UNCHANGED vars
        PROVE  UNCHANGED <<todo, futures, promise, mpc>>
    BY <2>3 DEF RejectStructure, ReleaseGrip, vars, callerVars
  <2>4. QED
    BY <2>1, <2>2, <2>3 DEF Next, Terminated, Finalizing
<1>3. AskedOK'
  <2>1. ASSUME NEW c \in Callers, CallSimulate(c) \/ CallerProgress(c)
        PROVE  AskedOK'
    BY <1>1, <2>1
    DEF CallInv, AskedOK, CallSimulate, CallerProgress, Submit, Return,
        ReleaseProxy, TypeOK
  <2>2. ASSUME NEW w \in Workers, Publish(w) PROVE AskedOK'
    BY <1>1, <2>2 DEF CallInv, AskedOK, Publish, TypeOK, callerVars
  <2>3. ASSUME BeginFinalize PROVE AskedOK'
    BY <2>3 DEF CallInv, AskedOK, BeginFinalize, callerVars
  <2>4. QED
    BY <1>2, <2>1, <2>2, <2>3 DEF CallInv, AskedOK
<1>4. Finalizing' => \A c \in Callers : ~Busy(c)'
  <2>1. ASSUME NEW c \in Callers, CallSimulate(c) \/ CallerProgress(c)
        PROVE  Finalizing' => \A d \in Callers : ~Busy(d)'
    <3>1. CASE CallSimulate(c)
      BY <3>1 DEF CallSimulate, Finalizing
    <3>2. CASE Return(c) \/ \E p \in Payloads : Submit(c, p)
      BY <3>2 DEF CallInv, Return, Submit, Finalizing, Busy
    <3>3. CASE \E p \in Payloads : ReleaseProxy(c, p)
      BY <3>3 DEF CallInv, ReleaseProxy, Finalizing, Busy
    <3>4. QED
      BY <2>1, <3>1, <3>2, <3>3 DEF CallerProgress
  <2>2. ASSUME NEW w \in Workers, Publish(w)
        PROVE  Finalizing' => \A c \in Callers : ~Busy(c)'
    BY <2>2 DEF CallInv, Publish, Finalizing, Busy, callerVars
  <2>3. ASSUME BeginFinalize PROVE \A c \in Callers : ~Busy(c)'
    BY <2>3 DEF BeginFinalize, Busy, callerVars
  <2>4. QED
    BY <1>2, <2>1, <2>2, <2>3 DEF CallInv, Busy
<1>5. /\ sentinels' > 0 => Finalizing'
      /\ \A w \in Workers : wpc'[w] \in PastLoop => Finalizing'
  <2>1. ASSUME NEW w \in Workers, NEW to \in WorkerStates, WorkerMove(w, to)
        PROVE  /\ sentinels' > 0 => Finalizing'
               /\ \A v \in Workers : wpc'[v] \in PastLoop => Finalizing'
    <3>1. Finalizing' <=> Finalizing
      BY <2>1 DEF WorkerMove, Finalizing
    <3>2. \A v \in Workers : wpc'[v] = IF v = w THEN to ELSE wpc[v]
      BY <1>1, <2>1 DEF WorkerMove, TypeOK
    <3>3. to \in PastLoop \/ sentinels' > 0 => Finalizing
      BY <1>1, <2>1
      DEF WorkerMove, CallInv, PastLoop, PastPost, TypeOK, Occupied
    <3>4. QED
      BY <3>1, <3>2, <3>3 DEF CallInv
  <2>2. CASE MasterMove
    BY <2>2 DEF MasterMove, MasterGoto, CallInv, Finalizing
  <2>3. CASE UNCHANGED controlVars
    BY <2>3 DEF controlVars, CallInv, Finalizing
  <2>4. QED
    BY <1>1, <2>1, <2>2, <2>3, ControlStep
<1>6. QED
  BY <1>1, <1>3, <1>4, <1>5 DEF CallInv

LEMMA CallInvariant == Spec => []CallInv
<1>1. Init => MakerInv
  BY TypeInit
  DEF Init, MakerInv, TypeInv, OccupiedOK, Occupied, HoldsEvent, TypeOK
<1>2. Init => CallInv
  BY <1>1 DEF Init, CallInv, AskedOK, Finalizing, Busy, PastLoop, PastPost
<1>3. QED
  BY <1>2, CallStep, PTL DEF Spec

\* A worker that leaves the event loop leaves nobody waiting behind.
THEOREM NobodyLeftWaiting == Spec => []NothingStranded
<1>1. CallInv => NothingStranded
  <2> SUFFICES ASSUME CallInv,
                      NEW w \in Workers,
                      wpc[w] \in {"relay", "post", "finalize", "exited"}
               PROVE  queued = {} /\ \A p \in Payloads : promise[p] # "pending"
    BY DEF NothingStranded
  <2>1. \A c \in Callers : ~Busy(c)
    BY DEF CallInv, PastLoop, PastPost
  <2>2. \A p \in Payloads : promise[p] # "pending"
    BY <2>1 DEF Busy, CallInv, AskedOK
  <2>3. QED
    BY <2>2 DEF CallInv, MakerInv, TypeInv, TypeOK
<1>2. QED
  BY <1>1, CallInvariant, PTL

-----------------------------------------------------------------------------
(* The pool implements the service.                                        *)

\* What a caller can see of a step is a step of the service.
LEMMA ServiceStep ==
  ASSUME CallInv, [Next]_vars
  PROVE  [Service!Next]_(Service!vars)
<1> USE DEF workerVars, counterVars, queueVars, callerVars, eventVars,
            barrierVars, Service!vars, Goto, MasterGoto
<1> /\ todo \in [Callers -> SUBSET Payloads]
    /\ futures \in [Callers -> SUBSET Payloads]
    /\ held \in [Callers -> SUBSET Payloads]
    /\ promise \in [Payloads -> {"none", "pending", "set"}]
  BY DEF CallInv, MakerInv, TypeInv, TypeOK
<1>0. ASSUME NEW c \in Callers, NEW batch,
             \A d \in Callers : todo'[d] \cup futures'[d] =
               IF d = c THEN batch ELSE todo[d] \cup futures[d]
      PROVE [d \in Callers |-> todo'[d] \cup futures'[d]] =
            [[d \in Callers |-> todo[d] \cup futures[d]] EXCEPT ![c] = batch]
  <2> DEFINE old == [d \in Callers |-> todo[d] \cup futures[d]]
             new == [d \in Callers |-> todo'[d] \cup futures'[d]]
  <2>1. \A d \in Callers : new[d] = IF d = c THEN batch ELSE old[d]
    BY <1>0
  <2>2. old = [d \in Callers |-> old[d]] /\ new = [d \in Callers |-> new[d]]
    OBVIOUS
  <2> HIDE DEF old, new
  <2>3. new = [old EXCEPT ![c] = batch]
    BY <2>1, <2>2
  <2>4. QED
    BY <2>3 DEF old, new
<1>1. ASSUME NEW c \in Callers, CallSimulate(c) PROVE Service!Next
  <2>1. PICK batch \in SUBSET Payloads :
          /\ \A p \in batch : Fresh(p)
          /\ todo' = [todo EXCEPT ![c] = batch]
    BY <1>1 DEF CallSimulate
  <2>2. todo[c] = {} /\ futures[c] = {} /\ UNCHANGED <<futures, held, promise>>
    BY <1>1 DEF CallSimulate, Busy
  <2>3. \A p \in batch : promise[p] = "none" /\
                          \A d \in Callers : p \notin todo[d] \cup futures[d]
    BY <2>1 DEF Fresh, CallInv, MakerInv
  <2>4. \A d \in Callers : todo'[d] \cup futures'[d] =
          IF d = c THEN batch ELSE todo[d] \cup futures[d]
    BY <2>1, <2>2
  <2>5. [d \in Callers |-> todo'[d] \cup futures'[d]] =
        [[d \in Callers |-> todo[d] \cup futures[d]] EXCEPT ![c] = batch]
    BY <1>0, <2>4
  <2>6. Service!Ask(c, batch)
    BY <2>2, <2>3, <2>5 DEF Service!Ask
  <2>7. QED
    BY <2>6 DEF Service!Next
<1>2. ASSUME NEW c \in Callers, NEW p \in Payloads, Submit(c, p)
      PROVE UNCHANGED Service!vars
  <2>1. promise[p] = "none"
    BY <1>2 DEF Submit, CallInv, MakerInv
  <2>2. /\ \A d \in Callers : todo'[d] \cup futures'[d] = todo[d] \cup futures[d]
        /\ \A q \in Payloads : promise'[q] = "set" <=> promise[q] = "set"
        /\ held' = held
    BY <1>2, <2>1 DEF Submit
  <2>3. QED
    BY <2>2
<1>3. ASSUME NEW c \in Callers, Return(c) PROVE Service!Next
  <2>1. \A d \in Callers : todo'[d] \cup futures'[d] =
          IF d = c THEN {} ELSE todo[d] \cup futures[d]
    BY <1>3 DEF Return
  <2>2. held' = [held EXCEPT ![c] = @ \cup (todo[c] \cup futures[c])]
    BY <1>3 DEF Return
  <2>3. Service!Collect(c)
    BY <1>0, <1>3, <2>1, <2>2 DEF Return, Service!Collect
  <2>4. QED
    BY <2>3 DEF Service!Next
<1>4. ASSUME NEW c \in Callers, NEW p \in Payloads, ReleaseProxy(c, p)
      PROVE Service!Next
  <2>1. Service!Drop(c, p)
    BY <1>4 DEF ReleaseProxy, Service!Drop
  <2>2. QED
    BY <2>1 DEF Service!Next
<1>5. ASSUME NEW w \in Workers, Publish(w) PROVE Service!Next
  <2>1. PICK p \in Payloads : p = cur[w] /\ promise[p] = "pending"
    BY <1>5, PoolAssumption
    DEF Publish, CallInv, MakerInv, TypeInv, TypeOK, OccupiedOK, Occupied
  <2>2. Service!Answer(p)
    BY <1>5, <2>1 DEF Publish, Service!Answer, CallInv, AskedOK
  <2>3. QED
    BY <2>1, <2>2 DEF Service!Next
<1>6. ASSUME NEW w \in Workers, WorkerStep(w), ~Publish(w)
      PROVE UNCHANGED Service!vars
  <2>1. UNCHANGED <<todo, futures, held, promise>>
    BY <1>6
    DEF WorkerStep, InitializeWorker, LeaveInitBarrier, Dequeue,
        DequeueSentinel, RelaySentinel, CleanUpBeforeEvent, BuildEvent,
        Simulate, BeginStoreEvent, EndStoreEvent, CountCreated, PostProcess,
        ArrivePostBarrier, LeavePostBarrier, ArriveFinalBarrier,
        LeaveFinalBarrier, FinalizeWorker
  <2>2. QED
    BY <2>1
<1>7. CASE MasterStep
  BY <1>7
  DEF MasterStep, ArriveInitBarrier, StartEventLoop, BeginFinalize,
      MakePostBarrier, MakeFinalBarrier, MasterArrivePostBarrier,
      EndOfRunAction, MasterArriveFinalBarrier, MasterLeaveFinalBarrier,
      JoinWorkers
<1>8. CASE \/ \E w \in Workers : RejectStructure(w)
           \/ \E p \in Payloads : ReleaseGrip(p)
           \/ UNCHANGED vars
  BY <1>8 DEF RejectStructure, ReleaseGrip, vars
<1>9. QED
  BY <1>1, <1>2, <1>3, <1>4, <1>5, <1>6, <1>7, <1>8
  DEF Next, CallerProgress, Terminated

\* Every behaviour of the pool is one of the service: simulate returns with
\* the answers to its own converters, all of them, each given once.
THEOREM PoolImplementsService == Spec => ImplementsService
<1>1. Init => Service!Init
  BY DEF Init, Service!Init
<1>2. QED
  BY <1>1, CallInvariant, ServiceStep, PTL
  DEF Spec, ImplementsService, Service!Spec
=============================================================================
