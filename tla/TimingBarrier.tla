---------------------------- MODULE TimingBarrier ----------------------------
(***************************************************************************)
(* Event numbers and the start of the clock: GenRndInit, the first         *)
(* algorithm of every event, on the threads of the Gaudi event loop.       *)
(*                                                                         *)
(* Each event takes the next number.  The clock that measures the loop is  *)
(* started by the event FirstTimingEvent; the numThreads - 1 events before *)
(* it wait until it comes, so that the measurement begins with all threads *)
(* at the same point.  The flag that says whether the clock runs is a      *)
(* plain bool, read without the mutex: once it is set a reader may see     *)
(* either value.                                                           *)
(*                                                                         *)
(* An event is known by its number in the job (FirstEventNumber is 1 here: *)
(* it shifts both sides of every comparison).  An event in a slot whose    *)
(* GenRndInit has not begun has no number and is only counted.  A task     *)
(* keeps its thread while it waits; between two algorithms an event has    *)
(* none.                                                                   *)
(***************************************************************************)
EXTENDS Integers, FiniteSets

CONSTANTS
  EvtMax,        \* ApplicationMgr.EvtMax
  FirstTiming,   \* GenRndInit.FirstTimingEvent
  Threads,       \* numThreads(), the threads of the pool
  Slots          \* EventSlots

\* What initialize checks; as many slots as threads is what the options of the
\* repository set (with fewer the events before the first timed one would fill
\* them and wait for ever).
ASSUME TimingAssumption ==
  /\ EvtMax \in Nat /\ FirstTiming \in Nat \ {0} /\ FirstTiming <= EvtMax
  /\ Threads \in Nat \ {0} /\ Slots \in Nat /\ Slots >= Threads
  /\ FirstTiming # 1 => FirstTiming >= Threads + 2

Numbers == 1..EvtMax

VARIABLES
  stage,        \* where each numbered event is
  created,      \* events the loop has put into slots
  evtCounter,   \* m_evtCounter
  started,      \* m_timingStarted
  timingCounter \* m_evtTimingCounter

vars == <<stage, created, evtCounter, started, timingCounter>>

Stages == {"none", "read", "start", "wait", "passed", "working", "done"}

TypeOK ==
  /\ stage \in [Numbers -> Stages]
  /\ created \in 0..EvtMax
  /\ evtCounter \in 0..EvtMax
  /\ started \in BOOLEAN
  /\ timingCounter \in Nat

Init ==
  /\ stage = [n \in Numbers |-> "none"]
  /\ created = 0 /\ evtCounter = 0
  /\ started = FALSE
  /\ timingCounter = 0

Goto(n, from, to) == stage[n] = from /\ stage' = [stage EXCEPT ![n] = to]

\* Events with a task on a thread.
Running == {n \in Numbers : stage[n] \in {"read", "start", "wait", "working"}}

ThreadFree == Cardinality(Running) < Threads

Done == {n \in Numbers : stage[n] = "done"}

-----------------------------------------------------------------------------

\* The event loop fills a free slot.
CreateEvent ==
  /\ created < EvtMax
  /\ created - Cardinality(Done) < Slots
  /\ created' = created + 1
  /\ UNCHANGED <<stage, evtCounter, started, timingCounter>>

\* increaseEventCounter
TakeNumber(n) ==
  /\ n = evtCounter + 1 /\ n <= created
  /\ ThreadFree
  /\ Goto(n, "none", "read")
  /\ evtCounter' = n
  /\ UNCHANGED <<created, started, timingCounter>>

BadWaits(n) == n > FirstTiming - Threads + 1    \* one event too few

\* The event FirstTiming waits for nobody, see SeeNoClock.
Waits(n) == n > FirstTiming - Threads

\* Without the mutex: a clock that runs may be seen or not.
SeeClock(n) ==
  /\ Goto(n, "read", "passed")
  /\ started
  /\ timingCounter' = timingCounter + 1
  /\ UNCHANGED <<created, evtCounter, started>>

SeeNoClock(n) ==
  /\ Goto(n, "read", IF n = FirstTiming THEN "start"
                     ELSE IF Waits(n) THEN "wait" ELSE "passed")
  /\ UNCHANGED <<created, evtCounter, started, timingCounter>>

\* The first timed event starts the clock and wakes the others, under the
\* mutex.
BadStartClock(n) ==    \* the flag is forgotten
  /\ Goto(n, "start", "passed")
  /\ timingCounter' = timingCounter + 1
  /\ UNCHANGED <<created, evtCounter, started>>

StartClock(n) ==
  /\ Goto(n, "start", "passed")
  /\ started' = TRUE
  /\ timingCounter' = timingCounter + 1
  /\ UNCHANGED <<created, evtCounter>>

BadWaitForClock(n) ==    \* any wake-up is taken for the signal
  /\ Goto(n, "wait", "passed")
  /\ timingCounter' = timingCounter + 1
  /\ UNCHANGED <<created, evtCounter, started>>

\* wait( lock, [&] { return m_timingStarted; } ): a wake-up without the flag,
\* which a condition variable may have at any time, goes back to sleep.
WaitForClock(n) ==
  /\ Goto(n, "wait", IF started THEN "passed" ELSE "wait")
  /\ timingCounter' = IF started THEN timingCounter + 1 ELSE timingCounter
  /\ UNCHANGED <<created, evtCounter, started>>

\* The other algorithms of the event.
BeginWork(n) ==
  /\ ThreadFree
  /\ Goto(n, "passed", "working")
  /\ UNCHANGED <<created, evtCounter, started, timingCounter>>

EndWork(n) ==
  /\ Goto(n, "working", "done")
  /\ UNCHANGED <<created, evtCounter, started, timingCounter>>

\* The event loop is over.
Finished == Done = Numbers /\ UNCHANGED vars

-----------------------------------------------------------------------------

EventStep(n) ==
  \/ TakeNumber(n) \/ SeeClock(n) \/ SeeNoClock(n) \/ StartClock(n)
  \/ WaitForClock(n) \/ BeginWork(n) \/ EndWork(n)

Next == CreateEvent \/ (\E n \in Numbers : EventStep(n)) \/ Finished

Spec == Init /\ [][Next]_vars

\* The event loop refills its slots, a ready task gets a free thread, threads
\* are scheduled.
FairSpec ==
  Spec /\ WF_vars(CreateEvent) /\ \A n \in Numbers : WF_vars(EventStep(n))

-----------------------------------------------------------------------------
(* Properties.                                                             *)

Past(n) == stage[n] \in {"passed", "working", "done"}

\* The last of the events before the first timed one, one per other thread.
Before(n) == FirstTiming - Threads < n /\ n < FirstTiming

\* "measured with the last N / EvtMax events i.e. EvtMax - (FirstTimingEvent
\* - 1) + (ThreadsNo - 1)" (GenRndInit::finalize): the timed events are those
\* that waited at the barrier and all after, however late an earlier event
\* looks at the clock.
TimedEventsKnown ==
  timingCounter = Cardinality({n \in Numbers : Past(n)
                                 /\ (Before(n) \/ n >= FirstTiming)})

\* The clock starts "when the event loop is in full swing": when the first
\* timed event starts it, each of the other threads holds one of the events
\* just before it at the barrier, and none is at work.
ClockStartsTogether ==
  \A f \in Numbers :
    stage[f] = "start" /\ FirstTiming > 1 =>
      /\ Cardinality(Running) = Threads
      /\ \A n \in Running \ {f} : stage[n] \in {"read", "wait"} /\ Before(n)

\* No event is left waiting.
EveryEventDone == <>(Done = Numbers)

=============================================================================
