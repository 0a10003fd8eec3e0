------------------------------ MODULE ReDecay ------------------------------
(***************************************************************************)
(* The event reuse of Sim/GiGaMTReDecay, under the Gaudi event loop.       *)
(*                                                                         *)
(* With ReDecay one original event is simulated in full and its            *)
(* underlying event is reused by NRedecay - 1 later events, which only     *)
(* redo the decay of interest.  ReDecaySvc::obtainToken decides, when an   *)
(* event begins, whether it becomes an original or which original it       *)
(* reuses; a redecay then blocks on a future until its original is done.   *)
(* The token lives in the event's store.  When the event loop clears the   *)
(* store, ~Token calls removeToken, which counts the use down, fulfils the *)
(* promise of an original and erases an original nobody needs any more.    *)
(*                                                                         *)
(* An event is known by its seed pair.  Slots events are in flight at a    *)
(* time; their algorithms run, in this order, as tasks of a pool of        *)
(* Threads threads: GenReDecayInit, ReDecayGeneration, ReDecaySimAlg (the  *)
(* algorithms in between change nothing here).  A task that blocks keeps   *)
(* its thread.  An event with a failed algorithm ends the event loop.      *)
(***************************************************************************)
EXTENDS Integers, FiniteSets

CONSTANTS
  Events,            \* the events of the job, by seed pair
  NRedecay,          \* ReDecaySvc.m_max_rd_counter
  ParallelOriginal,  \* ReDecaySvc.m_parallel_original_events
  EvtMax,            \* ReDecaySvc.m_evtMax
  Threads,           \* ThreadPoolSize
  Slots,             \* EventSlots
  MayFail,           \* an algorithm may throw
  NoEvent

ASSUME ReDecayAssumption ==
  /\ IsFiniteSet(Events) /\ NoEvent \notin Events
  /\ NRedecay \in Nat \ {0}
  /\ ParallelOriginal \in Nat \ {0}
  /\ EvtMax \in Nat /\ Cardinality(Events) <= EvtMax
  /\ Threads \in Nat \ {0} /\ Slots \in Nat \ {0}
  /\ MayFail \in BOOLEAN

VARIABLES
  pc,         \* where each event is in its chain of algorithms
  org,        \* m_original_event_seedpair of the event's token
  processed,  \* m_processed
  available,  \* the keys of m_original_events_available, promises and futures
  toprocess, tofinish,   \* the counters of an available original
  promised,   \* originals whose promise has been fulfilled
  hepmc,      \* the keys of m_original_hepmc_store
  simresult,  \* the keys of m_original_simresult_store
  torn        \* events whose unlocked look-up has met a change of the map

svcVars  == <<processed, available, toprocess, tofinish, promised>>
dataVars == <<hepmc, simresult>>
vars     == <<pc, org, svcVars, dataVars, torn>>

EventStates ==
  {"waiting", "ready", "entering", "awaiting", "token", "readHepMC",
   "generated", "readSim", "simulated", "failed", "done", "dropped"}

Gone == {"done", "dropped"}    \* processed or failed, its store cleared

\* A task of the event is on a thread.
Running(e) == pc[e] \in {"entering", "awaiting", "readHepMC", "readSim"}

\* The event is in the white board.
InSlot(e) == pc[e] # "waiting" /\ pc[e] \notin Gone

\* The event's token exists.
Live(e) == org[e] # NoEvent /\ pc[e] \notin Gone

IsOriginal(e) == org[e] = e

ThreadFree == Cardinality({e \in Events : Running(e)}) < Threads

TypeOK ==
  /\ pc \in [Events -> EventStates]
  /\ org \in [Events -> Events \cup {NoEvent}]
  /\ processed \in Nat
  /\ available \subseteq Events
  /\ toprocess \in [Events -> 0..NRedecay]
  /\ tofinish \in [Events -> 0..NRedecay]
  /\ promised \subseteq Events
  /\ hepmc \subseteq Events
  /\ simresult \subseteq Events
  /\ torn \subseteq Events

Init ==
  /\ pc = [e \in Events |-> "waiting"]
  /\ org = [e \in Events |-> NoEvent]
  /\ processed = 0
  /\ available = {}
  /\ toprocess = [e \in Events |-> 0]
  /\ tofinish = [e \in Events |-> 0]
  /\ promised = {} /\ hepmc = {} /\ simresult = {} /\ torn = {}

Goto(e, from, to) == pc[e] = from /\ pc' = [pc EXCEPT ![e] = to]

-----------------------------------------------------------------------------
(* obtainToken.                                                            *)

\* Operators whose names begin with Bad are plausible bugs of the definition
\* they precede; nothing uses them, PROJECT.json says which property each breaks.

BadFreeUses ==   \* originals that have not ended are not counted
  {use \in available \X (1..NRedecay) :
     use[2] <= toprocess[use[1]] /\ tofinish[use[1]] < NRedecay}

\* QueuedEvents(): the sum of toprocess, as the number of uses still free.
FreeUses == {use \in available \X (1..NRedecay) : use[2] <= toprocess[use[1]]}

QueuedEvents == Cardinality(FreeUses)

BadCount ==   \* the event itself counts as one already served
  /\ Cardinality(available) < ParallelOriginal \/ QueuedEvents = 0
  /\ processed + QueuedEvents < EvtMax

\* A new original is added only when there is room for one and the events
\* still to come need it.
MayBeOriginal ==
  /\ Cardinality(available) < ParallelOriginal \/ QueuedEvents = 0
  /\ processed - 1 + QueuedEvents < EvtMax

\* Originals that can be reused at once, and the ones to choose from.
Completed == {o \in available : toprocess[o] > 0 /\ tofinish[o] < NRedecay}

Candidates ==
  IF Completed # {} THEN Completed ELSE {o \in available : toprocess[o] > 0}

\* The event loop puts the next event into a free slot, until it has seen one
\* fail.
StartEvent(e) ==
  /\ Goto(e, "waiting", "ready")
  /\ Cardinality({f \in Events : InSlot(f)}) < Slots
  /\ \A f \in Events : pc[f] # "dropped"
  /\ UNCHANGED <<org, svcVars, dataVars, torn>>

\* m_processed is counted before the lock is taken.
EnterObtainToken(e) ==
  /\ Goto(e, "ready", "entering")
  /\ ThreadFree
  /\ processed' = processed + 1
  /\ UNCHANGED <<org, available, toprocess, tofinish, promised, dataVars, torn>>

\* The event becomes an original; its own processing is one of the uses.
MakeOriginal(e) ==
  /\ Goto(e, "entering", "token")
  /\ MayBeOriginal
  /\ org' = [org EXCEPT ![e] = e]
  /\ available' = available \cup {e}
  /\ toprocess' = [toprocess EXCEPT ![e] = NRedecay - 1]
  /\ tofinish' = [tofinish EXCEPT ![e] = NRedecay]
  /\ UNCHANGED <<processed, promised, dataVars, torn>>

\* The use is not taken off the original.
BadReuseOriginal(e, o) ==
  /\ Goto(e, "entering", "awaiting")
  /\ ~MayBeOriginal
  /\ o \in Candidates
  /\ org' = [org EXCEPT ![e] = o]
  /\ UNCHANGED <<svcVars, dataVars, torn>>

\* The event reuses an original.  The code takes the first in the order of
\* the seed pairs, the model any.
ReuseOriginal(e, o) ==
  /\ Goto(e, "entering", "awaiting")
  /\ ~MayBeOriginal
  /\ o \in Candidates
  /\ org' = [org EXCEPT ![e] = o]
  /\ toprocess' = [toprocess EXCEPT ![o] = @ - 1]
  /\ UNCHANGED <<processed, available, tofinish, promised, dataVars, torn>>

BadAwaitOriginal(e) ==    \* the future is not waited for
  /\ Goto(e, "awaiting", "token")
  /\ UNCHANGED <<org, svcVars, dataVars, torn>>

\* fut.get(), outside the lock, on a thread of the pool.
AwaitOriginal(e) ==
  /\ Goto(e, "awaiting", "token")
  /\ org[e] \in promised
  /\ UNCHANGED <<org, svcVars, dataVars, torn>>

-----------------------------------------------------------------------------
(* The data of the originals.  They are stored and erased under the lock   *)
(* but looked up without it, so a look-up has a beginning and an end; when *)
(* the map changes in between it may find the entry or miss it.            *)

\* A change of a map disturbs the look-ups in it.
DisturbLookUps ==
  torn' = torn \cup {f \in Events :
            \/ pc[f] = "readHepMC" /\ hepmc' # hepmc
            \/ pc[f] = "readSim" /\ simresult' # simresult}

StoreOriginalHepMC(e) ==
  /\ Goto(e, "token", "generated")
  /\ IsOriginal(e)
  /\ ThreadFree
  /\ hepmc' = hepmc \cup {e}
  /\ UNCHANGED <<org, svcVars, simresult>>
  /\ DisturbLookUps

StoreOriginalSimResult(e) ==
  /\ Goto(e, "generated", "simulated")
  /\ IsOriginal(e)
  /\ ThreadFree
  /\ simresult' = simresult \cup {e}
  /\ UNCHANGED <<org, svcVars, hepmc>>
  /\ DisturbLookUps

BeginLookUp(e, from, during) ==
  /\ Goto(e, from, during)
  /\ ~IsOriginal(e)
  /\ ThreadFree
  /\ UNCHANGED <<org, svcVars, dataVars, torn>>

\* A look-up that misses returns nothing, and the event goes on.
BadEndLookUp(e, during, store, to) ==
  /\ Goto(e, during, to)
  /\ torn' = torn \ {e}
  /\ UNCHANGED <<org, svcVars, dataVars>>

\* A look-up that misses throws, and the event fails.
EndLookUp(e, during, store, to) ==
  /\ \/ Goto(e, during, to) /\ org[e] \in store
     \/ Goto(e, during, "failed") /\ (org[e] \notin store \/ e \in torn)
  /\ torn' = torn \ {e}
  /\ UNCHANGED <<org, svcVars, dataVars>>

BeginGetHepMC(e)     == BeginLookUp(e, "token", "readHepMC")
EndGetHepMC(e)       == EndLookUp(e, "readHepMC", hepmc, "generated")
BeginGetSimResult(e) == BeginLookUp(e, "generated", "readSim")
EndGetSimResult(e)   == EndLookUp(e, "readSim", simresult, "simulated")

\* An algorithm after GenReDecayInit throws for a reason of its own: before
\* or after the event has its simulation results.  An original may so fail
\* when its redecays already have all they need.
FailAlgorithm(e) ==
  /\ MayFail
  /\ ThreadFree
  /\ \/ Goto(e, "token", "failed")
     \/ Goto(e, "generated", "failed")
     \/ Goto(e, "simulated", "failed")
  /\ UNCHANGED <<org, svcVars, dataVars, torn>>

-----------------------------------------------------------------------------

\* The original is erased as soon as its last use is taken.
BadErase(e) ==
  LET o    == org[e]
      last == toprocess[o] = 0
  IN  /\ tofinish' = [tofinish EXCEPT ![o] = @ - 1]
      /\ promised' = IF IsOriginal(e) THEN promised \cup {e} ELSE promised
      /\ available' = IF last THEN available \ {o} ELSE available
      /\ hepmc' = IF last THEN hepmc \ {o} ELSE hepmc
      /\ simresult' = IF last THEN simresult \ {o} ELSE simresult
      /\ DisturbLookUps

\* The promise is fulfilled by the last user.
BadFulfil(e) ==
  LET o    == org[e]
      last == tofinish[o] = 1
  IN  /\ tofinish' = [tofinish EXCEPT ![o] = @ - 1]
      /\ promised' = IF last THEN promised \cup {o} ELSE promised
      /\ available' = IF last THEN available \ {o} ELSE available
      /\ hepmc' = IF last THEN hepmc \ {o} ELSE hepmc
      /\ simresult' = IF last THEN simresult \ {o} ELSE simresult
      /\ DisturbLookUps

\* The last user does not clean up.
BadRemoveToken(e) ==
  LET o == org[e]
  IN  /\ tofinish' = [tofinish EXCEPT ![o] = @ - 1]
      /\ promised' = IF IsOriginal(e) THEN promised \cup {e} ELSE promised
      /\ UNCHANGED <<available, dataVars, torn>>

\* removeToken, under the lock.
RemoveToken(e) ==
  LET o    == org[e]
      last == tofinish[o] = 1
  IN  /\ tofinish' = [tofinish EXCEPT ![o] = @ - 1]
      /\ promised' = IF IsOriginal(e) THEN promised \cup {e} ELSE promised
      /\ available' = IF last THEN available \ {o} ELSE available
      /\ hepmc' = IF last THEN hepmc \ {o} ELSE hepmc
      /\ simresult' = IF last THEN simresult \ {o} ELSE simresult
      /\ DisturbLookUps

\* The event loop clears the store of a finished or failed event, and ~Token
\* runs.
ClearStore(e) ==
  /\ \/ Goto(e, "simulated", "done")
     \/ Goto(e, "failed", "dropped")
  /\ RemoveToken(e)
  /\ UNCHANGED <<org, processed, toprocess>>

\* The event loop is over.
Terminated ==
  /\ \A e \in Events : ~InSlot(e)
  /\ \/ \A e \in Events : pc[e] # "waiting"
     \/ \E e \in Events : pc[e] = "dropped"
  /\ UNCHANGED vars

-----------------------------------------------------------------------------

EventStep(e) ==
  \/ EnterObtainToken(e) \/ MakeOriginal(e)
  \/ \E o \in Events : ReuseOriginal(e, o)
  \/ AwaitOriginal(e)
  \/ StoreOriginalHepMC(e) \/ StoreOriginalSimResult(e)
  \/ BeginGetHepMC(e) \/ EndGetHepMC(e)
  \/ BeginGetSimResult(e) \/ EndGetSimResult(e)
  \/ ClearStore(e)

Next ==
  \/ \E e \in Events : StartEvent(e) \/ EventStep(e) \/ FailAlgorithm(e)
  \/ Terminated

Spec == Init /\ [][Next]_vars

\* The scheduler gives a free thread to an algorithm that is ready, threads
\* are scheduled by the operating system, and the event loop drains finished
\* events; whether it takes another event is its own affair.
Fairness == \A e \in Events : WF_vars(EventStep(e))

FairSpec == Spec /\ Fairness

-----------------------------------------------------------------------------
(* Properties.                                                             *)

Users(o) == {e \in Events : org[e] = o /\ pc[e] \notin Gone}

Originals == {o \in Events : org[o] = o}

\* The uses of an original that are not finished are those nobody has taken
\* yet and those of the tokens in the event stores: no use is counted twice
\* or forgotten, whatever the order in which events come and go.
UsesBalance ==
  \A o \in available : tofinish[o] = toprocess[o] + Cardinality(Users(o))

\* "Not original but no valid original found!" (ReDecaySvc.cpp:189) is never
\* thrown: an event that may not be an original finds one to reuse.
NeverOrphaned ==
  \A e \in Events :
    pc[e] = "entering" /\ ~MayBeOriginal => Candidates # {}

\* tofinish < NRedecay is a sound and complete sign that the original has
\* ended (ReDecaySvc.cpp:158 takes it for "completely processed", though it may
\* have failed): a redecay that follows it never waits, one that does not
\* always has to.
CountersTellCompletion ==
  \A o \in available : tofinish[o] < NRedecay <=> o \in promised

\* The data of a completed original stays in both stores as long as a redecay
\* that has been woken for it is still in flight.
OriginalDataKept ==
  \A e \in Events :
    Live(e) /\ ~IsOriginal(e) /\ pc[org[e]] = "done"
      => org[e] \in hepmc \cap simresult

\* An original is erased with all its data when, and not before, its last use
\* is finished.
ErasedWhenUsedUp ==
  /\ available = {o \in Originals : tofinish[o] > 0}
  /\ hepmc \cup simresult \subseteq available

\* No more originals are made than EvtMax events need.
NoSuperfluousOriginal ==
  Cardinality(Originals) * NRedecay < EvtMax + NRedecay

\* At most ParallelOriginal originals have uses left ("There are less than
\* m_parallel_original_events in the store", ReDecaySvc.cpp:120).
OriginalsBounded ==
  Cardinality({o \in available : toprocess[o] > 0}) <= ParallelOriginal

\* What EventReuse knows of an event's chain of algorithms.
Stage(e) ==
  CASE pc[e] \in {"waiting", "ready", "entering"} -> "new"
    [] pc[e] = "awaiting" -> "waits"
    [] pc[e] \in Gone -> pc[e]
    [] OTHER -> "works"

Service == INSTANCE EventReuse
  WITH origin <- org, stage <- [e \in Events |-> Stage(e)], kept <- available,
       results <- simresult

\* Tokens, counters, promises and look-ups that race with the erasure amount to
\* the reuse that EventReuse describes: an original serves NRedecay events and
\* is then erased, and no event succeeds without complete results of its
\* original, whether the original itself succeeds or fails after them.
ImplementsReuse == Service!Spec

\* Every event in a slot is processed to the end, if every event in flight can
\* have a thread.
EventsLeave == \A e \in Events : InSlot(e) ~> ~InSlot(e)

\* "This should wake up all other threads currently waiting for this original
\* event" (ReDecaySvc.cpp:208): no redecay waits for ever.
WaitersWake == \A e \in Events : pc[e] = "awaiting" ~> pc[e] # "awaiting"

=============================================================================
