# Gaussino in TLA+

A verification development of Gaussino, the simulation framework of LHCb built
on Gaudi and Geant4. It holds TLA+ modules of the parts of Gaussino in which
threads, queues, counters and shared objects interact, TLC configurations that
check them on small instances, and TLAPS proofs about them for every instance.
Paths below are relative to `src/`, the root of the repository.

## 1. The system

A Gaussino job is a Gaudi job. Python (`Sim/Gaussino/python`) assembles the
algorithms of one event: initialise the random numbers, generate with a
generator (HepMC3 events), convert to a truth graph, simulate with Geant4,
convert the result to the event model, monitor. Gaudi's Avalanche scheduler runs
`EventSlots` events at once on `ThreadPoolSize` threads. Geant4 has worker
threads of its own; a Gaudi thread hands events over and waits.

| component | state it keeps | operations | who it talks to |
|---|---|---|---|
| **A. Geant4 worker pool** (`Sim/GiGaMT`, `Sim/GiGaMTCore`): service `GiGaMT`, pilots `GiGaWorkerPilot`, proxies `G4EventProxy` | payload queue, promises, per-pilot clean-up list and counters, three barriers, the run with the kept events | `initialize`, `simulate`, `finalize`; per worker initialise, take a payload, process, clean up, finalise | called by the simulation algorithms on Gaudi threads; calls Geant4; queue from `Utils` |
| **B. ReDecay** (`Sim/GiGaMTReDecay`): `ReDecaySvc`, `Token`, init algorithm, generation and simulation | available originals with two counters and a promise each, stores of HepMC events and results, `m_processed` | `obtainToken`, `removeToken`, `storeOriginal...`, `getOriginal...` | algorithms of every event in flight; results are proxies of A |
| **C. Monte-Carlo truth** (`MCTruthConverter`, `LinkedParticle`, `HepMC3ToMCTruthConverter`, track actions) | per event: a graph of linked particles, converter infos, map from track to particle | add a converter, link, register primaries, declare, buffer, clean up | built on a Gaudi thread, finished on a worker of A, read on a Gaudi thread again |
| **D. Generation** (`Gen/Generators`, `Gen/LbPythia8`, `Gen/RndInit`, `NewRnd`) | counters of the retry loop, one Pythia per thread, the random engines, the barrier around the first timed event | generate with retries, decay the signal repeatedly, seed, number events | Gaudi threads |
| **E. Models** (`GaussinoML`) | a pool of ONNX sessions, a map of servers | `evaluate` | fast simulation on the workers of A |
| **F. Fast and custom simulation, geometry, output, monitoring, visualisation** | caches of geometry, histograms | callbacks of Geant4 and Gaudi | A and C |
| **G. Utilities** (`Utils`: queue, `LocalTL`) | lock-free queue (vendored), thread-local slots by instance number | enqueue, dequeue, access | A and D |

`PROJECT.json` lists the same parts in finer grain, modelled or not.

**What is hard here.** Ownership of a `G4Event` passes from a worker to a proxy,
from the proxy (dropped on any Gaudi thread) back to the pilot that made the
event, and from there to deletion, to Geant4's visualisation or to the run (A).
Shutdown is a cascade: one sentinel goes round, and barriers are created by
whoever asks first (A). ReDecay decides with counters when an original event is
made, reused, complete and disposable, while events begin, block, fail and end in
any order (B). Its redecays block threads of the pool that runs them (B), and
its look-ups take no lock (B). Truth graphs are pruned while they are walked (C).
Per-thread caches are set up lazily and may go stale or half-built (D, E).

**What makes each part correct.** A: no event is used after it is deleted,
deleted twice or lost; a call returns its own, complete results; every worker
stops, and none leaves work behind. B: no use of an original is counted twice or
forgotten; an event that may not be an original finds one; data live exactly as
long as they are needed; nobody waits for ever. C: every particle is simulated
once, every hit and every daughter finds its recorded ancestor, and the cleaned graph
keeps its ancestry. D: a retried event leaves the
state of a fresh one, and thread count does not change the physics. E: a session
that was reserved is given back.

## 2. Modules

| module | what it is |
|---|---|
| `SimulationService` | what `IGiGaMTSvc::simulate` promises to its callers, without threads, queue or memory |
| `GiGaPool` | component A in detail; implements `SimulationService` |
| `GiGaPoolProofs` | theorems about `GiGaPool`: ownership of events and the refinement; start, sentinel, tear-down and accounts; who deletes an event |
| `BlockingBag` | what A expects of the queue in component G |
| `PayloadQueue` | that queue, access by access; implements `BlockingBag` |
| `PayloadQueueProofs` | theorems about `PayloadQueue`: claims and permits; blocks and the refinement |
| `FreeBlocks` | what `PayloadQueue` expects of its list of free blocks: a set |
| `BlockFreeList`, `BlockFreeListProofs` | that list, lock-free, access by access, and theorems about it; implements `FreeBlocks` |
| `EventReuse` | what the ReDecay service promises to the events of a job, without threads, tokens or counters |
| `ReDecay`, `ReDecayProofs` | component B under the Gaudi event loop, and theorems about it; implements `EventReuse` |
| `TruthTracking`, `TruthTrackingProofs` | the part of component C that runs while Geant4 tracks: what gets into the truth record |
| `TruthGraph`, `TruthGraphProofs` | the rest of component C: the graph of particles, linked before Geant4 tracks and pruned after it, and theorems about it |
| `Generation`, `GenerationProofs` | the retry loop of component D on one thread, with its methods, production tools and counters |
| `TimingBarrier`, `TimingBarrierProofs` | event numbers and the barrier before the first timed event, component D |
| `MC...` | definitions for TLC: symmetry, a decay tree, a quota |

The abstract modules connect the others. `GiGaPool` takes payloads from a set as
`BlockingBag` allows; `PayloadQueue` shows that the vendored queue is such a bag, with its
free blocks in a set that it uses as `FreeBlocks` says; `BlockFreeList` shows that the
lock-free list is such a set.
`TruthGraph` takes from `TruthTracking` that a decay is recorded as a whole (`SiblingsAgree`).
`ReDecay` treats `simulate` as one step, which is what `SimulationService` gives a caller.
`Generation` is one thread's work; between threads only the random engines and the event
counter are shared, and the counter is in `TimingBarrier`.

Operators whose name begins with `Bad` are plausible bugs of the definition that
follows them. No specification uses them; `PROJECT.json` (`mutants`) names the
property that notices each of them.

### GiGaPool

| TLA+ | code |
|---|---|
| `CallSimulate`, `Submit`, `Return` | `GiGaMT::simulate`: the batch, one enqueue per payload, the futures read in turn. With `m_splitPileUp` a batch has one payload per converter, without it a single one. |
| `ReleaseProxy` | `~G4EventProxy`, `RegisterForCleanUp` |
| `InitializeWorker` ... `FinalizeWorker` | `GiGaWorkerPilot::operator()` from top to bottom, one action per point where another thread can step in |
| `CleanUp(w, force)` | `GiGaWorkerPilot::CleanUp`: what stays (`Postponed`), what is deleted (`Doomed`), what is handed to the run |
| `BeginStoreEvent`, `EndStoreEvent` | `StoreEvent` on the master's run, a read and a write without a lock |
| `ArriveInitBarrier` ... `JoinWorkers` | the main thread in `initialize` and `finalize` |
| `Get(bar, n)`, `Decrement` | the function-local static barriers: the first caller fixes the count; `size_t` wraps |
| `ReleaseGrip` | the visualisation thread of Geant4, as `CleanUp` sees it (external) |

`wpc` and `mpc` say where a worker and the main thread are. A payload, its
promise, its event and its proxy share one identity. The queue is a set, since
the vendored queue keeps no order between producers; the sentinel is a number.
`forCleanup` is a set: order is never looked at. The `noexcept`-less thread
function turns an exception of `VerifyStructure` into the end of the process
(`RejectStructure`, `aborted`).

`CleanUp` reads the list's size before it takes the lock. A registration that
races with this read is modelled as one that comes after it; in both cases the
event stays on the list and the next call, at the latest the forced one, finds it.

### ReDecay

| TLA+ | code |
|---|---|
| `StartEvent`, `ThreadFree`, `InSlot` | Gaudi's event loop: a free slot takes an event, an algorithm needs a free thread (external, set up in `Configuration.py`) |
| `EnterObtainToken` | `GenReDecayInit` calls `obtainToken`; `m_processed` is counted before the lock |
| `MakeOriginal`, `ReuseOriginal` | the critical section of `obtainToken`: `MayBeOriginal`, then the choice among `Candidates` |
| `AwaitOriginal` | `fut.get()` after the lock |
| `StoreOriginalHepMC`, `StoreOriginalSimResult` | `ReDecayGeneration` and `ReDecaySimAlg` of an original |
| `BeginGet...`, `EndGet...` | the same algorithms of a redecay: look-ups without a lock, with a beginning and an end |
| `FailAlgorithm` | an algorithm after `GenReDecayInit` that throws, before or after the event's results are stored: `ReDecaySimAlg` stores those of an original (l. 41) and goes on simulating (l. 78), `ReDecayMCTruthToEDM` throws later (l. 168, l. 172) |
| `ClearStore`, `RemoveToken` | the event store is cleared, `~Token` calls `removeToken` |

An event and its seed pair are one identity. The code takes the first candidate
in the order of the seed pairs; the model any. `torn` marks a look-up during
which the map changed: reading a `std::map` while another thread changes it is
undefined, and the model allows such a look-up to find its entry or to miss it.

`EventReuse` sees of an event its original, whether it is new, waits, works or has ended
(`Stage`), and of the service the originals that are kept and those whose results are
complete (`Complete` is `storeOriginalSimResult`). Counters, promises, the HepMC store and
the torn look-ups are hidden: that what they decide is right is the refinement.

### TruthTracking

| TLA+ | code |
|---|---|
| `MakePrimary`, `MakeSecondary`, `DecayInto`, `BackToStack`, the suspension in `FlagTruth` | Geant4, as far as the actions see it (external): tracks and their numbers, decays given by the generator, the stack |
| `StartTracking` | `TruthFlaggingTrackAction::PreUserTrackingAction` |
| `ProcessHits` | `MCCollector::SensDet`, with or without `ForceStoreTruth` |
| `FlagTruth` | `TruthFlaggingTrackAction::PostUserTrackingAction`: `ForcedDaughters` is its part (3.5), `Adopt`, `Orphans` and `MovedHits` its end |
| `RecordTruth`, `PassOver` | `TruthStoringTrackAction::PostUserTrackingAction` for a track that is flagged or not |
| `RegisterPrimary`, `Declare`, `DeclareEnd`, `BufferEnd` | `MCTruthTracker` |

`m_storeTruth`, `m_directParent`, `m_wasSuspended` of `GaussinoTrackInformation` are the
sets `storeTruth`, (not) `indirect`, `savedEarly`. `linked` holds the keys of
`m_tracking_to_linked`. The reasons to store a track by energy, type, process or position,
of its own or of its secondaries, are one free choice (`wanted`), made anew for each part
of a suspended track; `StoreAll` is off (`Simulation.py` l. 234). Both post-tracking
actions run one after the other on one worker; they are two steps because the second
decides with what the first has left. The order in which waiting tracks are tracked is
free. A second `RegisterPrimary` of one particle throws; the model goes on and remembers
it in `clash`.

### TruthGraph

| TLA+ | code |
|---|---|
| `Init` | a HepMC event, and what `HepMC3ToMCTruthConverter` made of it: which particles are kept, which travel, which oscillate |
| `MakeTracker`, `ChildConverter` | the constructor of `MCTruthTracker`, which calls `DoInitialLinking`; a call of `child_converter` (`Linked`, with `AddLink` and `Delete`) |
| `AddToG4Event`, `Convert` | the check of the roots, and `AddToG4Event`, unless there is no event for Geant4; a call of `convert` (`Given`) |
| `Return`, `StartTracking` | a call of either returns; the last one has |
| `AddParent`, `JoinVertex` | `LinkedParticle::AddParent`, which looks for a vertex, takes the child's or makes one |
| `RegisterPrimary`, `Declare` | `MCTruthTracker`, called by the actions of `TruthTracking` |
| `MakeTruth`, `HeadsToDelete` | `MCTruth::DoCleanup`: the heads of the decays that did not happen |
| `EraseNext`, `Deliver` | the same function, which erases them in the order of their addresses: in any order here |
| `EraseDecayTree`, `EraseParent` | a call of `EraseDecayTree` for a child; its end, with `EraseLinkedParticle` |

The code has three recursions over particles. Each call is a step; `loops` is their stack:
for every call that has not ended, what its loop over the daughters has left and whose
daughters they are. A loop over a set takes its members in the order of their IDs.

All events of up to the bound are initial states, subject to what HepMC and the generator
of decays guarantee (`Histories`, `MayTravel`, `MayOscillate`). A HepMC vertex is named by
the particles that end there, a linked vertex by the particle whose ID the code gives it. A
recursion that would not end (`Endless`, in `VerifyStructure`) and an exception set
`failed`; a use of an erased particle sets `stale`. `TrackingOver` says what Geant4 has
done when the record is made: of the daughters of a decay given by the generator all are
recorded or none, which `TruthTracking` shows.

### PayloadQueue

| TLA+ | code (`Utils/concurrentqueue.h`, `Utils/blockingconcurrentqueue.h`) |
|---|---|
| `GetProducer`, `StartBlock`, `WriteElement`, `Publish` | `ImplicitProducer::enqueue`: a block when the last is full (`Requisition`: from the pool, the free list or the heap), the element, the new tail |
| `Signal`, `Post` | `LightweightSemaphore::signal`, and the kernel semaphore for those asleep |
| `WaitSemaphore`, `WakeUp` | `wait`: a count if there is one, else sleep |
| `PickBest`, `NextProducer` | `try_dequeue`: the fullest of the first three producers, then the others in turn |
| `ReadOvercommit`, `Filter`, `Claim`, `Check`, `GiveUp`, `TakeIndex` | `ImplicitProducer::dequeue`: the optimistic claim and its return |
| `MoveElement`, `SetEmpty`, `RetireBlock` | the element is moved out; the last consumer of a block hands it back |

A step is one access to shared memory, sequentially consistent. A block's index entry
is a function of its number. Explicit tokens, bulk operations and the growth of the index
are not used by Gaussino or left out; a dequeue cannot throw, since a payload's move does
not. `content` of the bag is what lies between a producer's `headIndex` and `tailIndex`.

### BlockFreeList

`BeginGet`, `LoadHead`, `Acquire`, `ReadNext`, `CasPop`, `Keep`, `Release` are `try_get`;
`Add`, `LoadTop`, `Link`, `Expose`, `CasPush`, `Retract` are `add` and
`add_knowing_refcount_is_zero`. `freeListRefs` is split into the references `refs` and its
top bit `should`; one atomic operation on the word is one step on both. `list` is the
stack as the successful compare-and-swaps make it; nothing reads it but the properties.

### TimingBarrier

`CreateEvent`, `BeginWork`, `EndWork` are Gaudi's event loop (external). `TakeNumber` is
`increaseEventCounter`, `SeeClock`, `SeeNoClock`, `StartClock`, `WaitForClock` are the
rest of `GenRndInit::operator()`: the flag `m_timingStarted` is read without its mutex, so
once it is set a reader sees either value. A wake-up without the flag goes back to
sleep. The number of timed events divides the measured time in `finalize`.

### Generation

| TLA+ | code |
|---|---|
| `StartTry`, `Account`, `Crash`, `Accept`, `NextEvent` | `Generation::operator()` and `callOperatorImplementation`: the loop over tries, counters, decays and the cut on the full event |
| `DecaySignalAtRest` | the beginning of `SignalForcedFragmentation::generate` |
| `Generate`, `GenerateFails` | `prepareInteraction` and `generateEvent`, with the thread's lazy generator (`Pythia8ProductionMT`) or the tool's own (`Pythia8Production`) |
| `Hadronize`, `HadronizeAgain` | `SignalRepeatedHadronization`: partons are saved, hadronised, retrieved |
| `SignalAbsent`, `SignalUnusable`, `SignalDecayFails`, `SignalCut`, `SignalKept` | what each method does with what it finds in an interaction; `MinimumBias` looks for nothing |
| `SignalNotIsolated` | a signal that is kept, with the property `Clean`: `isolateSignal` always fails, and the tool throws |
| `Count` | the counters of the thread's generator record (`GenFSRMTManager`) |

Partons are named by the interaction, try and event they were generated for; this is
what `OwnPartons` compares. Whether a signal is there, usable and inside the
acceptance is free, except that an interaction without hadrons has none, and that a
signal in partons without a signal quark needs `SignalFromOthers`. `theIntCounter` is
declared in `callOperatorImplementation` (l. 172) and nothing gives it a value:
`intCounter` starts each event anywhere in `UInt`, and wraps at `UIntSize`.

## 3. What is checked

### Runs that hold

| run | instance | what it shows |
|---|---|---|
| `pool` | 2 workers, 2 callers, 3 payloads, calls of up to 2 split over the workers, fair threads; 50,840 states | `SimulationService` is implemented, with its fairness (`ImplementsFairService`, which contains `ImplementsService`): every call returns its own results; one sentinel serves all workers and overtakes nothing; workers start together; the shutdown ends |
| `pool_vis` | 2 workers, 2 callers, 3 payloads, merged pile-up, a visualisation with 1 grip, structure checks may fail; 132,116 states | an event is live while anything can reach it, deleted once, by its creator or with the run, never lost; the accounts of `FinalizeWorker` balance; tear-down comes after the post-processing |
| `queue` | 2 producers (3 and 1 elements), 2 consumers, one thread being both; 2 blocks of 2 elements; 131,961 states | `BlockingBag` is implemented, with its fairness: each element reaches exactly one consumer, intact, and none lies beside a sleeping consumer; no consumer gets past the tail; permits match elements |
| `freelist` | 3 threads, 3 nodes; 299,119 states | no compare-and-swap succeeds with a stale successor; each node is in one place |
| `redecay` | 4 events, 3 uses per original, 2 originals at a time, 4 slots and threads, algorithms may fail; 97,185 states | uses balance; every event that is no original finds one; data live exactly as long as a use is left; `tofinish < NRedecay` means ended; no superfluous original; every event leaves its slot; `EventReuse` is implemented, so that no event succeeds without complete results of its original |
| `truth_tracking` | 6 tracks, a decay into two, default options, 1 suspension | no flagged track, parent or particle of a hit is missing from the record unless a track is lost as in finding 1; the parent in the record is the closest recorded ancestor; generated decays are recorded as a whole; none is registered twice |
| `truth_graph` | every event of 5 particles, 2 tracks of Geant4 besides; 908,971 states | linking follows the HepMC event and no check of the structure ever fails; the clean-up uses nothing it has erased, keeps every recorded track, and leaves exactly what has happened |
| `generation` | 2 events of up to 2 tries and 2 interactions, all methods, with and without `Clean`, both production tools, 2 repetitions, `unsigned` counts modulo 2; 5.45 million states | an accepted event has exactly one kept signal and nothing of rejected ones; partons are an interaction's own; the counters of the efficiencies agree, whatever those of interactions start from |
| `timing` | 8 events, the fifth is timed first, 3 threads, 4 slots; 11,561 states | the number of timed events is right though the flag is read without a lock; the clock starts when all threads are at the barrier; the barrier lets every event go |

**Bounds.** Two workers are the least for which the sentinel is relayed while another
worker is at work; two callers let one hold results while the other submits; three
payloads in calls of two split one call over both workers while another is open.
`SizeMax` scales `size_t` down; it has to exceed the largest thread count of a barrier, so
that a wrapped counter is no count. One grip is enough for an event to be gripped when
its clean-up comes. In `queue` a block is filled, emptied, retired and taken again, and
each consumer can claim one element too many at either producer. Three threads are the
least for ABA on the free list: one is interrupted, one takes, one returns. In
`redecay` all four events are in flight at once: an original can have two redecays, which
end in either order, beside a second original; once three events have entered
`obtainToken`, `queuedEvents` and not the limit forbids the second original. Four slots on three threads let an event wait for
a thread while the barrier holds three; FirstTiming = 5 = Threads + 2 is the smallest that
`initialize` accepts. Two events of two tries let partons, counters and a generator
outlive a try and an event, and two interactions let one be kept and the other dropped.
`UIntSize` = 2 lets a count start at nothing or at garbage, and wrap; the property only
compares counts.
One suspension gives every order of flagging, suspending and making secondaries in two
parts of a track. In an event of five particles two lines of descent part, one of them
with a particle passed over, and meet again with a third; a travelling particle may have
daughters that travel.

**Fairness.** `GiGaPool` and `PayloadQueue` assume that each operating-system thread keeps
running: weak fairness for each worker, each running call or dequeue, for the main thread,
and for the visualisation thread to let go of an event. They do not assume that callers
call or producers produce, nor that a particular payload is taken: that follows.
`ReDecay` and `TimingBarrier` assume weak fairness of each event's algorithms, which is
what a scheduler that gives free threads to ready algorithms provides, and that the loop
clears the store of a finished event; `TimingBarrier` also that the loop fills its slots.
The mutex of `ReDecaySvc` is held without blocking, so a critical section is one
action. `TruthTracking`, `TruthGraph`, `BlockFreeList` and `Generation` have no liveness: a
track is tracked as long as Geant4 likes, the list is lock-free but not wait-free, and the number
of tries of an event is unbounded in the code.

**Deadlock** is checked except where the system really may stop: `pool_vis`
(see "Modelled, and false" below) and runs of findings. `Quiet`, `Terminated`, `Finished` and `Stopped`
are the ends a job may have.

### Findings

Each is a run that TLC ends with a counterexample to something the repository says.

1. `truth_lost`: a track that is suspended before anything has flagged it is marked as
   "suspended and saved" by the branch that declares end vertices
   (`TruthStoringTrackAction.cpp` l. 188). If a later part of the same track is flagged,
   l. 143 skips it ("Skip if the track has already been saved"), and its own hits and its
   later secondaries have no particle. This needs end vertices, the default, and a process
   that suspends tracks, such as the Cerenkov process of `G4OpticalPhysics`; under its
   Geant4 name that process is not among the `StoredChildProcesses` of `Simulation.py`.
2. `generation_partons`: when repeated hadronisation meets a signal hadron it does not
   keep, it retrieves the saved partons without asking whether this interaction has saved
   any (`SignalRepeatedHadronization.cpp` l. 225, unlike l. 236). If the hadron came from
   partons without a signal quark (charm from beauty), they are those of an earlier
   interaction, try or event of the thread.
3. `truth_vertices`: the comment in `LinkedParticle.cpp` l. 172 assigns "the production
   vertex of the child to the vertex" that is new; l. 175 assigns the vertex where the
   parent ends. Where a particle between the two is passed over these differ, the next
   child does not find the vertex, and particles of one HepMC vertex leave different
   vertices of the record. If such lines of descent meet, a link may even be refused or
   wrong, which is why `StructureVerified` and `ParentsFromHepMC` speak of `Unmixed`
   events. Without any mixing a link is refused (l. 162) when a particle that is kept
   beside one that is passed over descends on two lines: at its second visit it finds
   another of the parent's vertices than the one it joined first. The attempt
   to prove `StructureVerified` showed this, in an event larger than those of the run: 3 comes
   from 1 and 2 and decays to 4, 5 and 6, of which 5 alone is kept; 7 comes from 6 and 8
   from 4. Its other hypothesis, `Undoubled`, excludes such events. With the vertex that the comment names, TLC finds `OneVertex` and the other
   properties to hold for every event of five particles, mixed or not.

Modelled, and false, but with no run of their own:

* `ShutdownCompletes` with `PostProcessing = TRUE`: a worker that reaches
  `GetPostProcessingBarrier()` before `finalize` has asked for it with the number of threads
  creates the barrier with the count 0; the decrement wraps and the shutdown waits for ever.
  The comment in `GiGaWorkerPilot.cpp` l. 140 promises "a cascading shut down of all threads".
* `WaitersWake` of `ReDecay` with more slots than threads: redecays that wait for their
  original can hold all threads, so that the original never runs. The shipped options use
  as many slots as threads; `redecay` shows that every event then leaves.
* With `Hoard = TRUE` (a service keeps proxies beyond `finalize`, as `ReDecaySvc` does
  for unfinished originals) `GiGaPool` loses events: the pilot that is to free them is gone.
  The comment at `GiGaWorkerPilot.cpp` l. 249 says "no events can get lost".
* `BeginStoreEvent` and `EndStoreEvent`: workers append to the list of kept events of the
  master's run without a lock; one may be dropped before `EndOfRunAction` uses it.
* The look-ups of a redecay take no lock; one that meets a change of the map may miss its
  entry, and the event fails with an exception the code means to be impossible. The model
  allows this (`torn`); `EventsLeave` says that the event leaves its slot all the same.
* An original that fails after its results are stored (`ReDecaySimAlg.cpp` l. 41 stores,
  l. 78 simulates on; `ReDecayMCTruthToEDM.cpp` l. 168 and l. 172 throw) fulfils its
  promise all the same (`~Token`), and its redecays succeed with its data. "completely processed"
  (`ReDecaySvc.cpp` l. 158) therefore means ended, not succeeded; `EventReuse` says no more.
* `theIntCounter` (`Generation.cpp` l. 172) is never initialised (the loop that would do
  it, l. 207, is commented out) nor reset between the tries of an event, so the counts of
  interactions with a quark in the generator record are garbage, and there may be more
  of them than interactions. `CountersAgree` only says that generated and accepted ones agree.
* With `Clean` ("only the signal decay tree is kept", `Signal.h` l. 59) `isolateSignal`
  deletes what it has made and returns an error (`Signal.cpp` l. 225), and the tools throw:
  no event with a signal is ever accepted. The signal has by then been counted by the
  cut (`SignalPlain.cpp` l. 130, `SignalRepeatedHadronization.cpp` l. 187,
  `SignalForcedFragmentation.cpp` l. 192).
* `Generation.cpp` l. 234 copies the first interaction of a try that may have none
  (`Crash`), and `SignalForcedFragmentation` may use the generator of a thread of
  `Pythia8ProductionMT` before it exists (`DecaySignalAtRest`).
* A rejected signal of `SignalForcedFragmentation` leaves its forced decay in the
  interaction, and `SignalRepeatedHadronization` sets `isSignal` of the first interaction
  whichever holds the signal; `SignalUnique` excepts both.

## 4. What is proved

Each theorem holds for every value of the constants that the module's assumption
(`PoolAssumption`, `QueueAssumption`, `FreeListAssumption`, `ReDecayAssumption`,
`TruthAssumption`, `GraphAssumption`, `TimingAssumption`, `GenerationAssumption`) allows: any finite sets of
workers, callers' payloads, threads, events or particles, any set of blocks, and any bounds. The assumptions give types,
non-emptiness and what the code checks or its options set: `SizeMax` above the thread
count, at most `EvtMax` events in the job, at least as many slots as threads in
`TimingBarrier`.

### GiGaPool

`TypeCorrect`, `EventsOutliveTheirUsers`, `NoDoubleDelete`, `NobodyLeftWaiting` and
`PoolImplementsService`: `Spec` implies, always, `TypeOK`, `ReachableEventsLive`,
`NeverDeletedTwice`, `NothingStranded`, and `Service!Spec`.

None of the invariants is inductive. That a reachable event is live depends on the
event being reachable in one way only: an event in two clean-up lists would be freed
twice although it is live now. The proofs therefore use `OwnershipInv`, which says of
every payload where it is (in a caller's batch, in the queue, in work with exactly one
worker, answered, in the hands of one caller, on the list of its creator, in the run,
or deleted), that these places exclude each other, and what the threads' program
counters say about it. Each action moves one payload from one place to the next.

`EventsOutliveTheirUsers` and `NoDoubleDelete` assume `Ordered`: a job with a
visualisation manager has no service that keeps proxies beyond `finalize`
(`PostProcessing => ~Hoard`). Without it an event may be released when its worker has
left.

`OnlyTheMakerDeletes` (`DeletedByCreator`) needs no such order: it holds with a
visualisation and services that keep proxies at once, where an event may be lost or its
worker gone. Its invariant `MakerInv` is smaller than `OwnershipInv` and does not say where
an event is once its result is out. It says only that a payload is asked for once and is
in one hand while its promise is pending, so that it has one maker before anybody can
release it, and that the clean-up list of a pilot has events of its own worker only.

What callers may rely on needs no order either. `CallInv` adds to `MakerInv` that somebody
waits for each payload that is pending, that calls are over before `finalize`, and that only
`finalize` sends a worker out of the event loop. `NobodyLeftWaiting` follows at once, and
`PoolImplementsService` step by step: `Submit` cannot be seen by a caller, `Publish` is
`Answer` for somebody who asked, `Return` is `Collect`. So the service is implemented even
where events are lost afterwards.

`SentinelIsConserved` and `AllStartTogether` are there with no
further assumption, and, for jobs without `Hoard`, `TeardownComesLast`,
`BooksAreBalanced` and `EventsAreNotLost`. They look at the threads' control alone
(`ControlStep`: every step is a `WorkerMove`, a `MasterMove` or neither). `StartInv` and
`FinalInv` say that a barrier counts those still to come. If a worker were to make the
final barrier before the main thread, the counter would wrap; `FinalInv` allows this and
shows that it does not reach 0 early. `AccountsInv` compares what a pilot has counted
with what it has made and freed.

### PayloadQueue

`ClaimsStayBehindTail`, `ElementsHaveCounts`, `TypeCorrect`, `QueueImplementsBag`: `Spec`
implies, always, `NeverPastTail`, `CountsMatchElements`, `TypeOK`, and `Bag!BagSpec`.

That a consumer that passes the check finds an element rests on a ledger of the
claims of each producer (`ClaimInv`). Every value `dequeueOptimisticCount` has had is a
claim that was won, lost or is undecided. The lost ones were given back in
`dequeueOvercommit`; a consumer subtracts the overcommit it has read from its claim, and
what it has read is at most the number of lost claims below its own. So the largest
claim won, less the lost ones below it, is behind the tail, and the winners are no more
than the elements. The ledger is existentially quantified in the invariant: no state of
the code holds it.

`CountInv` counts threads by state. `BlockInv` is about reuse: the block of an element
that is still of use is entered in one producer's index, with the element in its slot,
and the count of emptied slots is that of the elements consumers are done with, so the
consumer that brings it to `BlockSize` is the last in the block. The refinement needs
`ClaimInv`, so that an index is only taken below the tail, and `BlockInv`, so that what
is moved out is the element of that index.

`QueueUsesFreeBlocks`: a block that is retired is in the index of its producer, hence not
free, so a block is put on the free list once and only while it is not there.

### BlockFreeList

`TypeCorrect`, `ListStaysIntact`, `NodesAreConserved`, `ListImplementsFreeBlocks`: `Spec`
implies, always, `TypeOK`, `ListIntact` (the links from the head spell the list that the
successful compare-and-swaps have made) and `NodesConserved` (each node is in one place),
and `FreeBlocks` with the nodes nobody owns as the free ones.

The two properties are not inductive: a swap that is about to succeed with a stale successor
violates neither. `FreeListInv` counts references (`RefsInv`): a node has one of each thread
that has acquired it, and one of the list, unless it is owned or should be put on the list.
A thread that carries a node to the list has seen the count at zero, and
nobody acquires a node without references; so the writer of a link is alone with its node
(`CarrierInv`), and what a thread has read of the link of a node to which it holds a
reference is still true when it swaps the head (`LocalInv`): the head can have been away
and back, its successor cannot have changed. That the last to drop a reference to a node
that should be on the list becomes its only carrier is `UniqueInv` and `PlaceInv`.

Together with `QueueUsesFreeBlocks` this justifies the set of free blocks in `PayloadQueue`:
the queue uses it, and the list provides it, as `FreeBlocks` says. A list that seems empty
while others work on it is allowed by both sides (`Requisition` may take a block from the
heap at any time).

### ReDecay

`TypeCorrect`, `UsesAreBalanced`, `CountersAreRight`, `DataAreKept`,
`OriginalsAreErased`, `SomeOriginalIsFound`, `NoOriginalIsSuperfluous` and
`OriginalsAreBounded`: `Spec` implies, always, `TypeOK`, `UsesBalance`,
`CountersTellCompletion`, `OriginalDataKept`, `ErasedWhenUsedUp`, `NeverOrphaned`,
`NoSuperfluousOriginal` and `OriginalsBounded`.

The inductive invariant is `ReuseInv`. `TokenOK` ties an event's token to its place in
the chain of algorithms, and the promise of an original to its end; `CountersOK` ties
the two counters to the set of tokens in flight; `DataOK` says which data an available
original has stored. The counters alone are not inductive: that `removeToken` counts
`tofinish` down from a positive number is known only because the token that ends is
itself one of the users counted, and that data are not erased too early only because a
token in flight keeps `tofinish` positive (`UsersKeep`). `SomeOriginalIsFound` needs
`ProcessedOK`: `m_processed` is the number of events that have entered `obtainToken`,
hence at most `EvtMax` in total, so that with no use left a new original is always
allowed. The number of originals needs `BoundsInv`: every use of every original has been
taken by a token or is free, so that the number of originals follows from the number of
events that have decided.

`ReDecayImplementsReuse`: `Spec` implies `ImplementsReuse`. The refinement needs two facts
about what is past, `PromiseInv`. `EventReuse` looks at all events that have ever used an
original, the code at a counter: `ServedOK` says that these events and the free uses are
`NRedecay`, and `LastUseCounted` concludes that the token with which `tofinish` reaches
zero is the one that `EventReuse` takes for the last. `ResultOK` says that who is about to
succeed has found the results of its original, with a look-up that no lock protects, and
that they are still there: an original with two tokens in flight is not at its last use
(`TwoUsers`), so that nobody else's end has erased them. It says nothing of the original's own
end, which may be a failure.

### TruthTracking

`TypeCorrect`, `PrimariesAreRegisteredOnce`, `EndsAreOwn` and `EndsAreBuffered` hold for
all options. They rest on `StackInv` (a track is on the stack, at work or done with; at
most one track stands for a particle; a recorded track that will be tracked again is
marked as saved) and `EndInv` (a track either keeps the track that made it as its parent
or has lost `m_directParent`; recorded tracks whose end is missing are still to be
tracked).

`ParentsAreRecorded`, `FlaggedAreRecorded` and `HitsPointToParticles` assume
`StorePrimaries` (the default), and the properties themselves speak of events in which
every track that counts as suspended and saved is in the record (`MarkedAreSaved`): what
happens otherwise is finding 1. That a track marked without having been saved never
enters the record later (`MarkedBefore`) lets the proof assume it of both states of a
step. The invariant is `RecordInv`: while a track is being tracked its secondaries may
have a parent that is not in the record yet, but then that parent is the current track,
and after the flagging action it is one that will be stored. `ParentsAreClosest`
(`LineageInv`, without suspensions) and `SiblingsStayTogether` (`DecayInv`, with
`StoreDecayProducts`) follow the parent of a track, and the daughters of a decay, from
the stack to the record.

### TimingBarrier and Generation

`TimedEventsAreKnown` and `ClockStartsWithAll`: `TimingInv` says that the event
`FirstTiming` alone starts the clock and that no event before it is still to read the flag
by then, so that a late look at the flag changes no count. With `Threads` tasks on
`Threads` threads, the events that wait are all the others.

`PartonsAreOwn` (for `~SignalFromOthers`; otherwise finding 2), `SignalIsUnique` and
`CountersDoAgree`: the first two follow the last interaction through the steps of the
tool and say of the earlier ones that they are done with; the third relates the counters
at every program point to those at the beginning of the try (`TriesOK`): what an event is
still due to be counted as accepted has been counted as generated, whatever
`theIntCounter` started from.

### TruthGraph

`LinkInvHolds`, `ParentsAreFromHepMC`, `StructureIsVerified`, `RecordInvHolds`,
`NothingIsStale` and `RecordTellsWhatHappened`: `Spec` implies, always, `LinkInv`,
`ParentsFromHepMC`, `StructureVerified`, `RecordInv`, `NothingStale` and
`RecordIsWhatHappened`, for any number of particles and any event that `Histories`,
`MayTravel` and `MayOscillate` allow.

The properties speak of the end of a phase, the code gets there by recursions that
share and change the graph. So the invariants say what holds between two calls: what has
been done is right, and the rest is below a particle that some loop has left.

*Reachability.* `Reached` takes as many rounds of a step as there are particles. That they
exist as a function and that nothing is added by then (`RoundsExist`, `ReachedLeast`) rests on
the least number in a set of numbers, since the induction theorems of the library cannot be
instantiated here; the rest uses only that `Reached` is the least set closed under the step.
`Nearest` and `Above` are the nearest kept particles, and the particles
that hand a parent down.

*Linking* (`Linking`, of `LinkInv`). `Complete`: a particle whose parents are
not all linked has a call ahead, its own or one of a particle above it (`Pending`).
`LinkFrames`: what is called for a parent may be linked to it. For a set of particles
whose lines do not mix with others (`Separate`), all parents at a vertex come from one HepMC
vertex (`OneOrigin`); this is inductive only for all such sets at once. That no link is refused and
no particle becomes its own ancestor (`OrderGraph`, `OrderFrames`, `Once`)
uses `Unmixed` and `Undoubled`: the order of the calls decides which vertices a parent
already has. From linking on the graph grows by tracks of Geant4 alone (`Grown`), and `Structure` (no
cycle, links known from both sides, everything but a root is the child of an earlier particle)
gives both checks of `VerifyStructure`.

*The record* (`RecordInv`). `Converting`: the mother of a primary is the nearest
particle above it that travels, and whatever Geant4 is still to be given lies in a loop.
`Tracked`: a primary is tracked after its mother. `Lost` is what lies below a particle
that did not decay as generated. The heads that `HeadsToDelete` finds do not lie
above one another, none of them has been tracked, and all that is lost lies below them
(`CleanBegins`); here `TrackingOver` is needed, that a decay is recorded as a whole.
While trees are being erased (`Cleaned`), they and the waiting heads stay disjoint
(`AllClear`), so none is erased twice whatever the order, and cover what is lost and still there
(`Covered`), so nothing is forgotten. That descendants of a travelling particle meet
nothing else, and are all kept (`MayTravel`), is what makes the trees disjoint.

### Only model-checked

* Everything under fairness, which TLAPS does not reason about: `ShutdownCompletes`,
  `ImplementsFairService`, the fairness part of `ImplementsFairBag`, `EventsLeave`,
  `EveryEventDone`.

Every invariant and every action property of a passing run is proved.

The other way round, the type invariants of `GiGaPool`, `BlockFreeList`, `ReDecay` and
`TruthTracking`, the bound on the originals (`OriginalsBounded`) and the refinement of
`FreeBlocks` by `BlockFreeList` and of its use by `PayloadQueue` are proved and in no run
(TLC finds both refinements to hold on the instances of `freelist` and `queue`).

## 5. What is not modelled

* Start-up and shutdown of Geant4 itself, and the physics of an event: `Simulate` only
  decides whether the event is kept and gripped.
* `finalize` without a run (an early `FAILURE`), which `initialize` excludes.
* The iteration over the interactions of an original event (`getNPileUp`,
  `getHepMCDataIterated`): state of one thread.
* After a failed event Gaudi drains what is in flight and takes nothing new; this is
  assumed of the framework, not translated.
* `ReDecaySvc` identifies an original by seeds and stores run and event number in a
  pairing function; collisions are not modelled.
* In the truth graph: positions, momenta and `processID`; the signal flag and the conversion
  type REDECAY; the merging of several converters; end vertices without outgoing
  particles; the tables and distances by which `keep` selects a particle (which particles
  are kept is free); `RemoveDecayTreesWithSimResults`, which nobody calls. `HitsHaveParticle`
  speaks of the record before the clean-up, `NothingStale` says that the clean-up keeps
  its particles. Of the sensitive detectors only that of `MCCollector` is modelled.
* The memory orders of the queue: a step is sequentially consistent, and the x86 build
  is not the only one. Its hash of producers and the growth of its index.
* Generation: vertex smearing, the distributions of pile-up, the merging of the threads'
  generator records, the settings and the statistics of Pythia.
* The components marked `not_modelled` in `PROJECT.json`, each with its reason there:
  pure conversions, numerics, sequential start-up and configuration. They have no state
  that two actors share and no order of calls that could go wrong.

## 6. Plan

The order was: the most important behaviour first.

1. `GiGaPool` with `SimulationService`, checked and proved. *Done.*
2. `ReDecay` with `EventReuse`. *Done.* To add: the iteration over interactions.
3. `TruthTracking`. *Done.*
4. `PayloadQueue` with `BlockingBag`, and `BlockFreeList` with `FreeBlocks`. *Done*,
   proofs included. To add: the growth of the block index.
5. `TimingBarrier`. *Done.*
6. `Generation` with the generators of threads. *Done.* To add: the combination of the
   threads' records.
7. `TruthGraph`. *Done*, proofs included.
8. `ModelServer`: the reservation of sessions, one failing.
9. Composition: `ReDecay` over `SimulationService`, so that the life of a proxy in the
   stores of B meets the clean-up of A.
