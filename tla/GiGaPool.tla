------------------------------ MODULE GiGaPool ------------------------------
(***************************************************************************)
(* The Geant4 worker pool of Sim/GiGaMT and Sim/GiGaMTCore.                *)
(*                                                                         *)
(* GiGaMT::simulate, called on a Gaudi thread, turns every converter it is *)
(* given into a payload (converter, engine, pointer to a promise), puts    *)
(* the payloads into the shared queue and blocks on the futures.  Worker   *)
(* threads (GiGaWorkerPilot::operator()) take payloads, create and process *)
(* a G4Event for each and fulfil the promise with a proxy of that event.   *)
(* The last owner of a proxy hands the event back to the pilot that made   *)
(* it (RegisterForCleanUp), which deletes it later on its own thread       *)
(* (CleanUp).  GiGaMT::finalize pushes one sentinel, which every worker    *)
(* puts back before it leaves; with a visualisation manager two more       *)
(* barriers make master and workers wait for the post-processing.          *)
(*                                                                         *)
(* A payload and the G4Event, promise, proxy and truth made from it share  *)
(* one identity.  The vendored queue promises no order between producers,  *)
(* so its content is a set of payloads and a number of sentinels.  A       *)
(* pilot's clean-up list is a set: its order is never looked at.           *)
(***************************************************************************)
EXTENDS Naturals, FiniteSets

CONSTANTS
  Workers,         \* the worker threads, GiGaMT.m_workerThreads
  Callers,         \* the Gaudi threads that call GiGaMT::simulate
  Payloads,        \* identities for the payloads of the whole job (a bound)
  MaxPileUp,       \* most converters one call may bring (a bound)
  SplitPileUp,     \* GiGaMT.m_splitPileUp
  PostProcessing,  \* a visualisation manager is configured
  MaxGrips,        \* most grips Geant4 takes on one event (a bound)
  MayReject,       \* VerifyStructure may find a broken event
  Hoard,           \* a service may keep proxies beyond the event loop
  SizeMax,         \* the largest size_t of a barrier's counter (scaled down)
  NoWorker, NoPayload

ASSUME PoolAssumption ==
  /\ IsFiniteSet(Workers) /\ Workers # {}
  /\ IsFiniteSet(Payloads)
  /\ NoWorker \notin Workers
  /\ NoPayload \notin Payloads
  /\ MaxPileUp \in Nat \ {0}
  /\ MaxGrips \in Nat
  /\ SplitPileUp \in BOOLEAN /\ PostProcessing \in BOOLEAN
  /\ MayReject \in BOOLEAN /\ Hoard \in BOOLEAN
  /\ SizeMax \in Nat /\ SizeMax > Cardinality(Workers) + 1

VARIABLES
  wpc,         \* where each worker thread is in operator()
  cur,         \* the payload a worker is processing
  snap,        \* the run's event list as a worker inside StoreEvent has read it
  nCreated, nDeleted, nToProcess,   \* the pilot's counters
  forCleanup,  \* GiGaWorkerPilot.m_for_cleanup
  queued,      \* payloads in GiGaMT.m_payloadQueue
  sentinels,   \* empty payloads (std::nullopt) in the same queue
  todo,        \* payloads a running simulate has still to submit
  futures,     \* payloads whose future a running simulate holds
  held,        \* proxies in the event store (or a service) of each caller
  promise,     \* "none", "pending" or "set"
  creator,     \* the worker that made the G4Event of a payload (its m_vec)
  deletions,   \* how often the G4Event has been deleted
  keep,        \* events Geant4 asked to keep (G4Event::ToBeKept)
  grips,       \* post-processing grips on an event (GetNumberOfGrips)
  run,         \* events in the master's current G4Run
  initBar, postBar, finalBar,       \* m_n_waiting of the three barriers
  mpc,         \* where the master thread is
  lost,        \* events handed to a pilot that no longer exists
  aborted      \* std::terminate was called

workerVars  == <<wpc, cur, snap>>
counterVars == <<nCreated, nDeleted, nToProcess>>
queueVars   == <<queued, sentinels>>
callerVars  == <<todo, futures, held>>
eventVars   == <<creator, deletions, keep, grips>>
barrierVars == <<initBar, postBar, finalBar>>

vars == <<workerVars, counterVars, forCleanup, queueVars, callerVars, promise,
          eventVars, run, barrierVars, mpc, lost, aborted>>

N == Cardinality(Workers)

\* A function-local static barrier that nobody has asked for yet.
Unmade == SizeMax + 1

\* Operators whose names begin with Bad are plausible bugs of the definition
\* they precede; nothing uses them, PROJECT.json says which property each breaks.

BadDecrement(n) == 0    \* the first to arrive opens the barrier

\* --m_n_waiting of a size_t.
Decrement(n) == IF n = 0 THEN SizeMax ELSE n - 1

\* Get...Barrier(num): the first call fixes the number of threads to wait for.
Get(bar, num) == IF bar = Unmade THEN num ELSE bar

Live(p) == creator[p] # NoWorker /\ deletions[p] = 0

BadBusy(c) == todo[c] # {}    \* a call has ended when all is submitted

Busy(c) == todo[c] # {} \/ futures[c] # {}

Fresh(p) == promise[p] = "none" /\ \A c \in Callers : p \notin todo[c]

WorkerStates ==
  {"start", "initWait", "loop", "cleanup", "build", "simulate", "store",
   "storing", "publish", "count", "relay", "post", "postBar", "postWait",
   "finalBar", "finalWait", "finalize", "exited"}

MasterStates ==
  {"init", "initWait", "running", "getPost", "getFinal", "postBar", "postWait",
   "finalBar", "finalWait", "join", "done"}

TypeOK ==
  /\ wpc \in [Workers -> WorkerStates]
  /\ cur \in [Workers -> Payloads \cup {NoPayload}]
  /\ snap \in [Workers -> SUBSET Payloads]
  /\ nCreated \in [Workers -> Nat]
  /\ nDeleted \in [Workers -> Nat]
  /\ nToProcess \in [Workers -> Nat]
  /\ forCleanup \in [Workers -> SUBSET Payloads]
  /\ queued \subseteq Payloads
  /\ sentinels \in Nat
  /\ todo \in [Callers -> SUBSET Payloads]
  /\ futures \in [Callers -> SUBSET Payloads]
  /\ held \in [Callers -> SUBSET Payloads]
  /\ promise \in [Payloads -> {"none", "pending", "set"}]
  /\ creator \in [Payloads -> Workers \cup {NoWorker}]
  /\ deletions \in [Payloads -> Nat]
  /\ keep \subseteq Payloads
  /\ grips \in [Payloads -> Nat]
  /\ run \subseteq Payloads
  /\ initBar \in 0..Unmade /\ postBar \in 0..Unmade /\ finalBar \in 0..Unmade
  /\ mpc \in MasterStates
  /\ lost \subseteq Payloads
  /\ aborted \in BOOLEAN

\* InitializeWorkerThreads asks for the init barrier with N + 1 before it
\* starts the first thread.
Init ==
  /\ wpc = [w \in Workers |-> "start"]
  /\ cur = [w \in Workers |-> NoPayload]
  /\ snap = [w \in Workers |-> {}]
  /\ nCreated = [w \in Workers |-> 0]
  /\ nDeleted = [w \in Workers |-> 0]
  /\ nToProcess = [w \in Workers |-> 0]
  /\ forCleanup = [w \in Workers |-> {}]
  /\ queued = {}
  /\ sentinels = 0
  /\ todo = [c \in Callers |-> {}]
  /\ futures = [c \in Callers |-> {}]
  /\ held = [c \in Callers |-> {}]
  /\ promise = [p \in Payloads |-> "none"]
  /\ creator = [p \in Payloads |-> NoWorker]
  /\ deletions = [p \in Payloads |-> 0]
  /\ keep = {}
  /\ grips = [p \in Payloads |-> 0]
  /\ run = {}
  /\ initBar = N + 1 /\ postBar = Unmade /\ finalBar = Unmade
  /\ mpc = "init"
  /\ lost = {}
  /\ aborted = FALSE

Goto(w, from, to) == wpc[w] = from /\ wpc' = [wpc EXCEPT ![w] = to]

MasterGoto(from, to) == mpc = from /\ mpc' = to

-----------------------------------------------------------------------------
(* GiGaMT::simulate and the owners of its results, on Gaudi threads.       *)

\* The number of payloads of one call: one for each converter, or a single
\* one for all of them merged.
BatchSizes == IF SplitPileUp THEN 1..MaxPileUp ELSE {1}

CallSimulate(c) ==
  /\ mpc = "running"
  /\ ~Busy(c)
  /\ \E batch \in SUBSET {p \in Payloads : Fresh(p)} :
       /\ Cardinality(batch) \in BatchSizes
       /\ todo' = [todo EXCEPT ![c] = batch]
  /\ UNCHANGED <<workerVars, counterVars, forCleanup, queueVars, futures, held,
                 promise, eventVars, run, barrierVars, mpc, lost, aborted>>

\* The payload does not reach the queue.
BadSubmit(c, p) ==
  /\ p \in todo[c]
  /\ todo' = [todo EXCEPT ![c] = @ \ {p}]
  /\ promise' = [promise EXCEPT ![p] = "pending"]
  /\ futures' = [futures EXCEPT ![c] = @ \cup {p}]
  /\ UNCHANGED <<workerVars, counterVars, forCleanup, queueVars, held,
                 eventVars, run, barrierVars, mpc, lost, aborted>>

Submit(c, p) ==
  /\ p \in todo[c]
  /\ todo' = [todo EXCEPT ![c] = @ \ {p}]
  /\ promise' = [promise EXCEPT ![p] = "pending"]
  /\ futures' = [futures EXCEPT ![c] = @ \cup {p}]
  /\ queued' = queued \cup {p}
  /\ UNCHANGED <<workerVars, counterVars, forCleanup, sentinels, held,
                 eventVars, run, barrierVars, mpc, lost, aborted>>

\* One result is enough to return.
BadReturn(c) ==
  /\ todo[c] = {}
  /\ \E p \in futures[c] : promise[p] = "set"
  /\ held' = [held EXCEPT ![c] = @ \cup futures[c]]
  /\ futures' = [futures EXCEPT ![c] = {}]
  /\ UNCHANGED <<workerVars, counterVars, forCleanup, queueVars, todo, promise,
                 eventVars, run, barrierVars, mpc, lost, aborted>>

\* The futures are read one after the other, each read blocking; nothing is
\* done with a result before the last one is there.
Return(c) ==
  /\ todo[c] = {}
  /\ futures[c] # {}
  /\ \A p \in futures[c] : promise[p] = "set"
  /\ held' = [held EXCEPT ![c] = @ \cup futures[c]]
  /\ futures' = [futures EXCEPT ![c] = {}]
  /\ UNCHANGED <<workerVars, counterVars, forCleanup, queueVars, todo, promise,
                 eventVars, run, barrierVars, mpc, lost, aborted>>

\* The event is handed to whichever pilot is at hand.
BadReleaseProxy(c, p) ==
  /\ ~Busy(c)
  /\ p \in held[c]
  /\ held' = [held EXCEPT ![c] = @ \ {p}]
  /\ \E w \in Workers :
       forCleanup' = [forCleanup EXCEPT ![w] = @ \cup {p}]
  /\ UNCHANGED <<workerVars, counterVars, queueVars, todo, futures, promise,
                 eventVars, run, barrierVars, mpc, lost, aborted>>

\* ~G4EventProxy and RegisterForCleanUp.  The pilot lives in its thread's
\* state and is gone when the thread has ended.
ReleaseProxy(c, p) ==
  /\ ~Busy(c)
  /\ p \in held[c]
  /\ held' = [held EXCEPT ![c] = @ \ {p}]
  /\ IF wpc[creator[p]] = "exited"
     THEN /\ lost' = lost \cup {p}
          /\ UNCHANGED forCleanup
     ELSE /\ forCleanup' = [forCleanup EXCEPT ![creator[p]] = @ \cup {p}]
          /\ UNCHANGED lost
  /\ UNCHANGED <<workerVars, counterVars, queueVars, todo, futures, promise,
                 eventVars, run, barrierVars, mpc, aborted>>

-----------------------------------------------------------------------------
(* GiGaWorkerPilot::operator(), on the worker threads.                     *)

\* InitializeWorker, then the first half of GetInitBarrier().wait().
InitializeWorker(w) ==
  /\ Goto(w, "start", "initWait")
  /\ initBar' = Decrement(initBar)
  /\ UNCHANGED <<cur, snap, counterVars, forCleanup, queueVars, callerVars,
                 promise, eventVars, run, postBar, finalBar, mpc, lost, aborted>>

LeaveInitBarrier(w) ==
  /\ Goto(w, "initWait", "loop")
  /\ initBar = 0
  /\ UNCHANGED <<cur, snap, counterVars, forCleanup, queueVars, callerVars,
                 promise, eventVars, run, barrierVars, mpc, lost, aborted>>

Dequeue(w, p) ==
  /\ Goto(w, "loop", "cleanup")
  /\ p \in queued
  /\ queued' = queued \ {p}
  /\ cur' = [cur EXCEPT ![w] = p]
  /\ UNCHANGED <<snap, counterVars, forCleanup, sentinels, callerVars, promise,
                 eventVars, run, barrierVars, mpc, lost, aborted>>

DequeueSentinel(w) ==
  /\ Goto(w, "loop", "relay")
  /\ sentinels > 0
  /\ sentinels' = sentinels - 1
  /\ UNCHANGED <<cur, snap, counterVars, forCleanup, queued, callerVars,
                 promise, eventVars, run, barrierVars, mpc, lost, aborted>>

\* The sentinel is not put back.
BadRelaySentinel(w) ==
  /\ Goto(w, "relay", IF PostProcessing THEN "post" ELSE "finalize")
  /\ UNCHANGED <<cur, snap, counterVars, forCleanup, queueVars, callerVars,
                 promise, eventVars, run, barrierVars, mpc, lost, aborted>>

\* The sentinel is put back: a cascading shutdown of all threads.
RelaySentinel(w) ==
  /\ Goto(w, "relay", IF PostProcessing THEN "post" ELSE "finalize")
  /\ sentinels' = sentinels + 1
  /\ UNCHANGED <<cur, snap, counterVars, forCleanup, queued, callerVars,
                 promise, eventVars, run, barrierVars, mpc, lost, aborted>>

BadPostponed(w, force) == {}    \* grips are not respected

\* The part of the clean-up list that CleanUp(force) leaves for later, and the
\* part it deletes; what is in neither is handed over to the G4Run.
Postponed(w, force) ==
  {p \in forCleanup[w] : ~force /\ PostProcessing /\ grips[p] > 0}

\* Kept events are deleted all the same.
BadDoomedKept(w, force) == forCleanup[w] \ Postponed(w, force)

\* Only a forced clean-up deletes what it takes off the list.
BadDoomedLost(w, force) == {p \in forCleanup[w] : force}

Doomed(w, force) ==
  {p \in forCleanup[w] \ Postponed(w, force) :
     force \/ ~PostProcessing \/ p \notin keep}

\* GiGaWorkerPilot::CleanUp.  The list's size is read without the lock; a
\* registration that races with the read counts as one that comes after it.
CleanUp(w, force) ==
  \/ /\ forCleanup[w] = {}
     /\ UNCHANGED <<deletions, nDeleted, nToProcess, forCleanup>>
  \/ /\ forCleanup[w] # {}
     /\ deletions' = [p \in Payloads |->
          IF p \in Doomed(w, force) THEN deletions[p] + 1 ELSE deletions[p]]
     /\ nDeleted' = [nDeleted EXCEPT ![w] = @ + Cardinality(Doomed(w, force))]
     /\ nToProcess' = [nToProcess EXCEPT ![w] = Cardinality(Postponed(w, force))]
     /\ forCleanup' = [forCleanup EXCEPT ![w] = Postponed(w, force)]

CleanUpBeforeEvent(w) ==
  /\ Goto(w, "cleanup", "build")
  /\ CleanUp(w, FALSE)
  /\ UNCHANGED <<cur, snap, nCreated, queueVars, callerVars, promise, creator,
                 keep, grips, run, barrierVars, mpc, lost, aborted>>

\* new G4Event and the linking of the converter's particles.
BuildEvent(w) ==
  /\ Goto(w, "build", "simulate")
  /\ creator' = [creator EXCEPT ![cur[w]] = w]
  /\ UNCHANGED <<cur, snap, counterVars, forCleanup, queueVars, callerVars,
                 promise, deletions, keep, grips, run, barrierVars, mpc, lost,
                 aborted>>

\* One of the three VerifyStructure calls returns 1 or 2.  The exception
\* leaves the thread's function and ends the process.
RejectStructure(w) ==
  /\ MayReject
  /\ wpc[w] \in {"simulate", "publish"}
  /\ aborted' = TRUE
  /\ UNCHANGED <<workerVars, counterVars, forCleanup, queueVars, callerVars,
                 promise, eventVars, run, barrierVars, mpc, lost>>

\* ProcessEvent.  Geant4 may ask to keep the event and its visualisation may
\* take grips on it, which is looked at only with post-processing.
Simulate(w) ==
  /\ \E toBeKept \in BOOLEAN, g \in 0..MaxGrips :
       /\ ~PostProcessing => ~toBeKept /\ g = 0
       /\ Goto(w, "simulate", IF toBeKept THEN "store" ELSE "publish")
       /\ keep' = IF toBeKept THEN keep \cup {cur[w]} ELSE keep
       /\ grips' = [grips EXCEPT ![cur[w]] = g]
  /\ UNCHANGED <<cur, snap, counterVars, forCleanup, queueVars, callerVars,
                 promise, creator, deletions, run, barrierVars, mpc, lost,
                 aborted>>

\* G4Run::StoreEvent appends to the master's run from any worker, unlocked:
\* the list is read in one step and written back in another.
BeginStoreEvent(w) ==
  /\ Goto(w, "store", "storing")
  /\ snap' = [snap EXCEPT ![w] = run]
  /\ UNCHANGED <<cur, counterVars, forCleanup, queueVars, callerVars, promise,
                 eventVars, run, barrierVars, mpc, lost, aborted>>

EndStoreEvent(w) ==
  /\ Goto(w, "storing", "publish")
  /\ run' = snap[w] \cup {cur[w]}
  /\ snap' = [snap EXCEPT ![w] = {}]
  /\ UNCHANGED <<cur, counterVars, forCleanup, queueVars, callerVars, promise,
                 eventVars, barrierVars, mpc, lost, aborted>>

\* ret_promise->set_value with the proxy and the truth.
Publish(w) ==
  /\ Goto(w, "publish", "count")
  /\ promise' = [promise EXCEPT ![cur[w]] = "set"]
  /\ UNCHANGED <<cur, snap, counterVars, forCleanup, queueVars, callerVars,
                 eventVars, run, barrierVars, mpc, lost, aborted>>

\* nCreated++ comes after the result is out.
CountCreated(w) ==
  /\ Goto(w, "count", "loop")
  /\ nCreated' = [nCreated EXCEPT ![w] = @ + 1]
  /\ cur' = [cur EXCEPT ![w] = NoPayload]
  /\ UNCHANGED <<snap, nDeleted, nToProcess, forCleanup, queueVars, callerVars,
                 promise, eventVars, run, barrierVars, mpc, lost, aborted>>

\* One round of clean-up, whatever is still to be processed.
BadPostProcess(w) ==
  /\ Goto(w, "post", "postBar")
  /\ CleanUp(w, FALSE)
  /\ UNCHANGED <<cur, snap, nCreated, queueVars, callerVars, promise, creator,
                 keep, grips, run, barrierVars, mpc, lost, aborted>>

\* do { CleanUp(); sleep } while ( nToProcess > 0 )
PostProcess(w) ==
  /\ wpc[w] = "post"
  /\ CleanUp(w, FALSE)
  /\ wpc' = [wpc EXCEPT ![w] = IF nToProcess'[w] > 0 THEN "post" ELSE "postBar"]
  /\ UNCHANGED <<cur, snap, nCreated, queueVars, callerVars, promise, creator,
                 keep, grips, run, barrierVars, mpc, lost, aborted>>

\* GetPostProcessingBarrier() without a number, then wait().
ArrivePostBarrier(w) ==
  /\ Goto(w, "postBar", "postWait")
  /\ postBar' = Decrement(Get(postBar, 0))
  /\ UNCHANGED <<cur, snap, counterVars, forCleanup, queueVars, callerVars,
                 promise, eventVars, run, initBar, finalBar, mpc, lost, aborted>>

LeavePostBarrier(w) ==
  /\ Goto(w, "postWait", "finalBar")
  /\ postBar = 0
  /\ UNCHANGED <<cur, snap, counterVars, forCleanup, queueVars, callerVars,
                 promise, eventVars, run, barrierVars, mpc, lost, aborted>>

ArriveFinalBarrier(w) ==
  /\ Goto(w, "finalBar", "finalWait")
  /\ finalBar' = Decrement(Get(finalBar, 0))
  /\ UNCHANGED <<cur, snap, counterVars, forCleanup, queueVars, callerVars,
                 promise, eventVars, run, initBar, postBar, mpc, lost, aborted>>

LeaveFinalBarrier(w) ==
  /\ Goto(w, "finalWait", "finalize")
  /\ finalBar = 0
  /\ UNCHANGED <<cur, snap, counterVars, forCleanup, queueVars, callerVars,
                 promise, eventVars, run, barrierVars, mpc, lost, aborted>>

\* FinalizeWorker: CleanUp(true), then the thread ends and its pilot with it.
FinalizeWorker(w) ==
  /\ Goto(w, "finalize", "exited")
  /\ CleanUp(w, TRUE)
  /\ UNCHANGED <<cur, snap, nCreated, queueVars, callerVars, promise, creator,
                 keep, grips, run, barrierVars, mpc, lost, aborted>>

-----------------------------------------------------------------------------
(* GiGaMT::initialize and GiGaMT::finalize, on the main thread, and the    *)
(* visualisation thread of Geant4.                                         *)

ArriveInitBarrier ==
  /\ MasterGoto("init", "initWait")
  /\ initBar' = Decrement(initBar)
  /\ UNCHANGED <<workerVars, counterVars, forCleanup, queueVars, callerVars,
                 promise, eventVars, run, postBar, finalBar, lost, aborted>>

StartEventLoop ==
  /\ MasterGoto("initWait", "running")
  /\ initBar = 0
  /\ UNCHANGED <<workerVars, counterVars, forCleanup, queueVars, callerVars,
                 promise, eventVars, run, barrierVars, lost, aborted>>

\* The event loop has ended: no call is running and every event store is
\* cleared; only another service may still hold proxies.  One sentinel.
BeginFinalize ==
  /\ MasterGoto("running", IF PostProcessing THEN "getPost" ELSE "join")
  /\ \A c \in Callers : ~Busy(c) /\ (Hoard \/ held[c] = {})
  /\ sentinels' = sentinels + 1
  /\ UNCHANGED <<workerVars, counterVars, forCleanup, queued, callerVars,
                 promise, eventVars, run, barrierVars, lost, aborted>>

MakePostBarrier ==
  /\ MasterGoto("getPost", "getFinal")
  /\ postBar' = Get(postBar, N + 1)
  /\ UNCHANGED <<workerVars, counterVars, forCleanup, queueVars, callerVars,
                 promise, eventVars, run, initBar, finalBar, lost, aborted>>

MakeFinalBarrier ==
  /\ MasterGoto("getFinal", "postBar")
  /\ finalBar' = Get(finalBar, N + 1)
  /\ UNCHANGED <<workerVars, counterVars, forCleanup, queueVars, callerVars,
                 promise, eventVars, run, initBar, postBar, lost, aborted>>

MasterArrivePostBarrier ==
  /\ MasterGoto("postBar", "postWait")
  /\ postBar' = Decrement(postBar)
  /\ UNCHANGED <<workerVars, counterVars, forCleanup, queueVars, callerVars,
                 promise, eventVars, run, initBar, finalBar, lost, aborted>>

\* EndOfRunAction sees the kept events here.
EndOfRunAction ==
  /\ MasterGoto("postWait", "finalBar")
  /\ postBar = 0
  /\ UNCHANGED <<workerVars, counterVars, forCleanup, queueVars, callerVars,
                 promise, eventVars, run, barrierVars, lost, aborted>>

MasterArriveFinalBarrier ==
  /\ MasterGoto("finalBar", "finalWait")
  /\ finalBar' = Decrement(finalBar)
  /\ UNCHANGED <<workerVars, counterVars, forCleanup, queueVars, callerVars,
                 promise, eventVars, run, initBar, postBar, lost, aborted>>

MasterLeaveFinalBarrier ==
  /\ MasterGoto("finalWait", "join")
  /\ finalBar = 0
  /\ UNCHANGED <<workerVars, counterVars, forCleanup, queueVars, callerVars,
                 promise, eventVars, run, barrierVars, lost, aborted>>

\* All threads joined; SafeRunTermination ends the run, which owns the events
\* stored in it.
JoinWorkers ==
  /\ MasterGoto("join", "done")
  /\ \A w \in Workers : wpc[w] = "exited"
  /\ deletions' = [p \in Payloads |->
       IF p \in run THEN deletions[p] + 1 ELSE deletions[p]]
  /\ run' = {}
  /\ UNCHANGED <<workerVars, counterVars, forCleanup, queueVars, callerVars,
                 promise, creator, keep, grips, barrierVars, lost, aborted>>

\* Geant4's visualisation thread is done with one look at an event.
ReleaseGrip(p) ==
  /\ grips[p] > 0
  /\ grips' = [grips EXCEPT ![p] = @ - 1]
  /\ UNCHANGED <<workerVars, counterVars, forCleanup, queueVars, callerVars,
                 promise, creator, deletions, keep, run, barrierVars, mpc, lost,
                 aborted>>

\* The process has ended.
Terminated ==
  /\ aborted \/ (mpc = "done" /\ \A c \in Callers : held[c] = {})
  /\ UNCHANGED vars

-----------------------------------------------------------------------------

CallerProgress(c) ==
  \/ Return(c)
  \/ \E p \in Payloads : Submit(c, p) \/ ReleaseProxy(c, p)

WorkerStep(w) ==
  \/ InitializeWorker(w) \/ LeaveInitBarrier(w)
  \/ \E p \in Payloads : Dequeue(w, p)
  \/ DequeueSentinel(w) \/ RelaySentinel(w)
  \/ CleanUpBeforeEvent(w) \/ BuildEvent(w) \/ Simulate(w)
  \/ BeginStoreEvent(w) \/ EndStoreEvent(w)
  \/ Publish(w) \/ CountCreated(w)
  \/ PostProcess(w)
  \/ ArrivePostBarrier(w) \/ LeavePostBarrier(w)
  \/ ArriveFinalBarrier(w) \/ LeaveFinalBarrier(w)
  \/ FinalizeWorker(w)

MasterStep ==
  \/ ArriveInitBarrier \/ StartEventLoop \/ BeginFinalize
  \/ MakePostBarrier \/ MakeFinalBarrier
  \/ MasterArrivePostBarrier \/ EndOfRunAction
  \/ MasterArriveFinalBarrier \/ MasterLeaveFinalBarrier
  \/ JoinWorkers

Next ==
  \/ /\ ~aborted
     /\ \/ \E c \in Callers : CallSimulate(c) \/ CallerProgress(c)
        \/ \E w \in Workers : WorkerStep(w) \/ RejectStructure(w)
        \/ MasterStep
        \/ \E p \in Payloads : ReleaseGrip(p)
  \/ Terminated

Spec == Init /\ [][Next]_vars

\* Every thread is scheduled by the operating system; a caller is free not to
\* call simulate again, the main thread finalizes when the event loop is over.
Fairness ==
  /\ \A w \in Workers : WF_vars(~aborted /\ WorkerStep(w))
  /\ \A c \in Callers : WF_vars(~aborted /\ CallerProgress(c))
  /\ WF_vars(~aborted /\ MasterStep)
  /\ \A p \in Payloads : WF_vars(~aborted /\ ReleaseGrip(p))

FairSpec == Spec /\ Fairness

-----------------------------------------------------------------------------
(* What the pool promises to its callers: an answer is a fulfilled promise, *)
(* a call lasts from the first payload to submit to the last future read.   *)

Service == INSTANCE SimulationService WITH
  asked    <- [c \in Callers |-> todo[c] \cup futures[c]],
  answered <- {p \in Payloads : promise[p] = "set"},
  results  <- held

\* simulate returns exactly its own results and only complete: every step of
\* the pool is a step of the service or changes nothing a caller can see.
ImplementsService == Service!Spec

\* ... and every call returns (when VerifyStructure accepts all events).
ImplementsFairService == Service!FairSpec

-----------------------------------------------------------------------------
(* Properties.                                                             *)

Finalizing == mpc \notin {"init", "initWait", "running"}

\* From new G4Event to the end of the loop's body.
HoldsEvent(w) == wpc[w] \in {"simulate", "store", "storing", "publish", "count"}

\* An event somebody can still get at: through a result, through a clean-up
\* list, as the event in work, on the visualisation thread, through the run.
Reachable(p) ==
  \/ \E c \in Callers :
       p \in held[c] \/ (p \in futures[c] /\ promise[p] = "set")
  \/ \E w \in Workers :
       p \in forCleanup[w] \/ (cur[w] = p /\ HoldsEvent(w))
  \/ grips[p] > 0
  \/ p \in run

\* No G4Event is deleted while a Gaudi thread, its worker, the visualisation
\* or the run can still reach it, whatever the order in which proxies die,
\* pilots clean up and threads finalize.
ReachableEventsLive == \A p \in Payloads : Reachable(p) => Live(p)

\* CleanUp, the forced CleanUp of FinalizeWorker and the end of the run never
\* free one event twice.
NeverDeletedTwice == \A p \in Payloads : deletions[p] <= 1

\* Only the worker that made an event deletes it (RegisterForCleanUp exists
\* for that), or the main thread when all workers are gone.
DeletedByCreator ==
  [][\A p \in Payloads : deletions'[p] # deletions[p] =>
       \/ nDeleted'[creator[p]] > nDeleted[creator[p]]
       \/ mpc' = "done"]_vars

\* From finalize on there is one sentinel, in the queue or on its way back to
\* it: no worker can miss the cascade, none sees a sentinel before.
SentinelConserved ==
  sentinels + Cardinality({w \in Workers : wpc[w] = "relay"})
    = IF Finalizing THEN 1 ELSE 0

\* A worker leaves the event loop only when no payload waits for an answer:
\* the sentinel cannot overtake one.
NothingStranded ==
  (\E w \in Workers : wpc[w] \in {"relay", "post", "finalize", "exited"})
    => queued = {} /\ \A p \in Payloads : promise[p] # "pending"

\* No worker takes a payload and initialize does not return before every
\* worker thread is initialised.
StartsTogether ==
  (mpc \notin {"init", "initWait"}
    \/ \E w \in Workers : wpc[w] \notin {"start", "initWait"})
  => mpc # "init" /\ \A w \in Workers : wpc[w] # "start"

\* FinalizeWorker's own check: a worker that leaves has deleted all it has
\* created, but for the events it left to the run.
AccountsBalance ==
  \A w \in Workers : wpc[w] = "exited" =>
    nCreated[w] = nDeleted[w]
                  + Cardinality({p \in keep : creator[p] = w})

\* "no events can get lost": at the end of the process every event that
\* was not to be kept has been deleted (GiGaWorkerPilot.cpp:249).
NoEventLost ==
  (mpc = "done" /\ \A c \in Callers : held[c] = {}) =>
    \A p \in Payloads \ keep : creator[p] # NoWorker => deletions[p] = 1

\* A worker tears its Geant4 down only after EndOfRunAction and when the
\* visualisation has let go of every event.
TeardownAfterPostProcessing ==
  (\E w \in Workers : wpc[w] \in {"finalize", "exited"}) /\ PostProcessing =>
    /\ mpc \in {"finalWait", "join", "done"}
    /\ \A p \in Payloads : grips[p] = 0

\* One sentinel shuts every worker down and finalize returns: "a cascading
\* shut down of all threads" (GiGaWorkerPilot.cpp:140).
ShutdownCompletes == Finalizing ~> mpc = "done" \/ aborted

=============================================================================
