------------------------- MODULE TimingBarrierProofs -------------------------
(* Theorems about the numbering of events and the barrier before the first *)
(* timed one, for any number of events, threads and slots.                 *)
EXTENDS TimingBarrier, FiniteSetTheorems, TLAPS

-----------------------------------------------------------------------------
(* The inductive invariant.                                                *)

\* The events that are counted, see TimedEventsKnown.
Timed == {n \in Numbers : Past(n) /\ (Before(n) \/ n >= FirstTiming)}

\* Numbers are given out in order, and no more tasks run than there are
\* threads.
Numbered ==
  /\ \A n \in Numbers : stage[n] = "none" <=> n > evtCounter
  /\ Cardinality(Running) <= Threads

\* Only the first timed event starts the clock; none of the events before it
\* gets past the barrier until then, and when it does no earlier event is
\* left to read the flag.
ClockOK ==
  /\ started <=> Past(FirstTiming)
  /\ stage[FirstTiming] # "wait"
  /\ \A n \in Numbers : stage[n] = "start" => n = FirstTiming
  /\ \A n \in Numbers : Before(n) /\ Past(n) => started
  /\ \A n \in Numbers : stage[n] = "wait" => Waits(n)
  /\ started => \A n \in Numbers :
       n <= FirstTiming - Threads => stage[n] \notin {"none", "read"}

TimingInv == TypeOK /\ Numbered /\ ClockOK /\ timingCounter = Cardinality(Timed)

LEMMA FirstInNumbers ==
  FirstTiming \in Numbers /\ Threads \in Nat \ {0} /\ EvtMax \in Nat
BY TimingAssumption DEF Numbers

LEMMA SetsFinite ==
  /\ IsFiniteSet(Running) /\ IsFiniteSet(Timed)
  /\ Cardinality(Running) \in Nat /\ Cardinality(Timed) \in Nat
<1>1. IsFiniteSet(Numbers)
  BY FirstInNumbers, FS_Interval DEF Numbers
<1>2. Running \subseteq Numbers /\ Timed \subseteq Numbers
  BY DEF Running, Timed
<1>3. QED
  BY <1>1, <1>2, FS_Subset, FS_CardinalityType

\* An event at the start of the clock has every other thread at the barrier:
\* the events just before it are as many as the other threads, each of them
\* holds one, and that leaves no thread for anything else.
LEMMA StartIsFull ==
  ASSUME TimingInv, FirstTiming > 1, stage[FirstTiming] = "start"
  PROVE  /\ Running = (FirstTiming - Threads + 1)..FirstTiming
         /\ Cardinality(Running) = Threads
         /\ \A n \in Running \ {FirstTiming} :
              stage[n] \in {"read", "wait"} /\ Before(n)
<1> DEFINE Last == (FirstTiming - Threads + 1)..FirstTiming
<1> USE DEF TimingInv
<1>1. FirstTiming \in Nat /\ Threads \in Nat \ {0} /\ FirstTiming >= Threads + 2
  BY FirstInNumbers, TimingAssumption
<1>2. ~started /\ FirstTiming <= evtCounter /\ evtCounter \in Nat
  BY FirstInNumbers DEF ClockOK, Past, Numbered, Numbers, TypeOK
<1>3. \A n \in Last : n \in Numbers /\ n <= evtCounter
                        /\ (n # FirstTiming => Before(n))
  BY <1>1, <1>2, TimingAssumption DEF Before, Numbers
<1>4. \A n \in Last \ {FirstTiming} : stage[n] \in {"read", "wait"}
  <2> SUFFICES ASSUME NEW n \in Last \ {FirstTiming} PROVE stage[n] \in {"read", "wait"}
    OBVIOUS
  <2>1. n \in Numbers /\ Before(n) /\ ~(n > evtCounter)
    BY <1>1, <1>2, <1>3
  <2>2. stage[n] # "none" /\ stage[n] # "start" /\ ~Past(n)
    BY <2>1, <1>2 DEF Numbered, ClockOK
  <2>3. QED
    BY <2>1, <2>2 DEF TypeOK, Stages, Past
<1>5. Last \subseteq Running
  BY <1>3, <1>4 DEF Running
<1>6. IsFiniteSet(Last) /\ Cardinality(Last) = Threads
  BY <1>1, FS_Interval
<1>7. Running = Last
  <2>1. Cardinality(Last) <= Cardinality(Running)
    BY <1>5, SetsFinite, FS_Subset
  <2>2. Cardinality(Last) = Cardinality(Running)
    BY <2>1, <1>1, <1>6, SetsFinite DEF Numbered
  <2>3. QED
    BY <1>5, <2>2, SetsFinite, FS_Subset
<1>8. QED
  BY <1>3, <1>4, <1>6, <1>7

-----------------------------------------------------------------------------
(* The steps.                                                              *)

\* A task that keeps or gives back its thread.
LEMMA RunningStep ==
  ASSUME TimingInv, NEW n \in Numbers, NEW s \in Stages,
         stage' = [stage EXCEPT ![n] = s]
  PROVE  /\ \A m \in Numbers : stage'[m] = IF m = n THEN s ELSE stage[m]
         /\ n \in Running => Cardinality(Running)' <= Threads
         /\ ThreadFree => Cardinality(Running)' <= Threads
<1>1. \A m \in Numbers : stage'[m] = IF m = n THEN s ELSE stage[m]
  BY DEF TimingInv, TypeOK
<1>2. Running' \subseteq Running \cup {n}
  BY <1>1 DEF Running
<1>3. CASE n \in Running
  <2>1. Running' \subseteq Running
    BY <1>2, <1>3
  <2>2. Cardinality(Running') <= Cardinality(Running) /\ Cardinality(Running') \in Nat
    BY <2>1, SetsFinite, FS_Subset, FS_CardinalityType
  <2>3. QED
    BY <1>1, <2>2, SetsFinite, FirstInNumbers DEF TimingInv, Numbered
<1>4. CASE n \notin Running
  <2>1. IsFiniteSet(Running \cup {n}) /\ Cardinality(Running \cup {n}) = Cardinality(Running) + 1
    BY <1>4, SetsFinite, FS_AddElement
  <2>2. Cardinality(Running') <= Cardinality(Running) + 1 /\ Cardinality(Running') \in Nat
    BY <1>2, <2>1, FS_Subset, FS_CardinalityType
  <2>3. QED
    BY <1>1, <1>4, <2>2, SetsFinite, FirstInNumbers DEF ThreadFree
<1>5. QED
  BY <1>3, <1>4

\* An event that passes is counted if it is a timed one, and the count does
\* not change otherwise.
LEMMA CountStep ==
  ASSUME TimingInv, NEW n \in Numbers, NEW s \in Stages,
         stage' = [stage EXCEPT ![n] = s], ~Past(n)
  PROVE  /\ s = "passed" /\ Waits(n) =>
              Cardinality(Timed)' = timingCounter + 1
         /\ s \notin {"passed", "working", "done"} \/ ~Waits(n) =>
              Cardinality(Timed)' = timingCounter
<1>1. \A m \in Numbers : stage'[m] = IF m = n THEN s ELSE stage[m]
  BY DEF TimingInv, TypeOK
<1>2. n \notin Timed
  BY DEF Timed
<1>3. \A m \in Numbers : Waits(m) <=> Before(m) \/ m >= FirstTiming
  BY FirstInNumbers DEF Waits, Before, Numbers
<1>4. CASE s = "passed" /\ Waits(n)
  <2>1. Timed' = Timed \cup {n}
    BY <1>1, <1>3, <1>4 DEF Timed, Past, Before
  <2>2. QED
    BY <2>1, <1>2, <1>4, SetsFinite, FS_AddElement DEF TimingInv
<1>5. CASE s \notin {"passed", "working", "done"} \/ ~Waits(n)
  <2>1. Timed' = Timed
    BY <1>1, <1>2, <1>3, <1>5 DEF Timed, Past, Before
  <2>2. QED
    BY <2>1, <1>5 DEF TimingInv
<1>6. QED
  BY <1>4, <1>5

LEMMA SeeStep ==
  ASSUME TimingInv, NEW n \in Numbers, SeeClock(n) \/ SeeNoClock(n)
  PROVE  TimingInv'
<1> USE DEF TimingInv
<1>1. PICK s \in {"start", "wait", "passed"} :
        /\ stage[n] = "read" /\ stage' = [stage EXCEPT ![n] = s]
        /\ UNCHANGED <<created, evtCounter, started>>
        /\ \/ s = "passed" /\ started /\ timingCounter' = timingCounter + 1
           \/ /\ timingCounter' = timingCounter
              /\ s = "start" <=> n = FirstTiming
              /\ s = "wait" => Waits(n)
              /\ s = "passed" => ~Waits(n)
  BY DEF SeeClock, SeeNoClock, Goto
<1>2. s \in Stages /\ n \in Running /\ ~Past(n)
  BY <1>1 DEF Stages, Running, Past
<1>3. /\ \A m \in Numbers : stage'[m] = IF m = n THEN s ELSE stage[m]
      /\ Cardinality(Running)' <= Threads
  BY <1>1, <1>2, RunningStep
<1>4. started => Waits(n)
  BY <1>1, FirstInNumbers DEF ClockOK, Waits, Numbers
<1>5. started => n # FirstTiming
  BY <1>1 DEF ClockOK, Past
<1>6. timingCounter' = Cardinality(Timed)'
  <2>1. /\ s = "passed" /\ Waits(n) => Cardinality(Timed)' = timingCounter + 1
        /\ s \notin {"passed", "working", "done"} \/ ~Waits(n) =>
             Cardinality(Timed)' = timingCounter
    BY <1>1, <1>2, CountStep
  <2>2. QED
    BY <1>1, <1>4, <2>1
<1>7. TypeOK'
  BY <1>1, <1>2 DEF TypeOK
<1>8. Numbered'
  BY <1>1, <1>3 DEF Numbered
<1>9. ClockOK'
  <2>1. \A m \in Numbers : m # n => (Past(m)' <=> Past(m))
    BY <1>3 DEF Past
  <2>2. Before(n) => Waits(n) /\ n # FirstTiming
    BY FirstInNumbers DEF Before, Waits, Numbers
  <2>3. Past(n)' => started \/ ~Waits(n)
    BY <1>1, <1>3 DEF Past
  <2>4. Waits(FirstTiming)
    BY FirstInNumbers DEF Waits, Numbers
  <2>5. (started <=> Past(FirstTiming))'
    BY <1>1, <1>5, <2>1, <2>3, <2>4, FirstInNumbers DEF ClockOK
  <2>6. stage'[FirstTiming] # "wait"
    BY <1>1, <1>3, <1>5, FirstInNumbers DEF ClockOK
  <2>7. \A m \in Numbers : stage'[m] = "start" => m = FirstTiming
    BY <1>1, <1>3 DEF ClockOK
  <2>8. \A m \in Numbers : Before(m)' /\ Past(m)' => started'
    BY <1>1, <2>1, <2>2, <2>3 DEF ClockOK, Before
  <2>9. \A m \in Numbers : stage'[m] = "wait" => Waits(m)'
    BY <1>1, <1>3 DEF ClockOK, Waits
  <2>10. started' => \A m \in Numbers :
          m <= FirstTiming - Threads => stage'[m] \notin {"none", "read"}
    BY <1>1, <1>3 DEF ClockOK
  <2>11. QED
    BY <2>5, <2>6, <2>7, <2>8, <2>9, <2>10 DEF ClockOK
<1>10. QED
  BY <1>6, <1>7, <1>8, <1>9

LEMMA StartStep ==
  ASSUME TimingInv, NEW n \in Numbers, StartClock(n)
  PROVE  TimingInv'
<1> USE DEF TimingInv
<1>1. /\ stage[n] = "start" /\ stage' = [stage EXCEPT ![n] = "passed"]
      /\ started' = TRUE /\ timingCounter' = timingCounter + 1
      /\ UNCHANGED <<created, evtCounter>>
  BY DEF StartClock, Goto
<1>2. n = FirstTiming /\ ~Past(n) /\ Waits(n) /\ "passed" \in Stages /\ n \in Running
  BY <1>1, FirstInNumbers DEF ClockOK, Past, Waits, Numbers, Stages, Running
<1>3. /\ \A m \in Numbers : stage'[m] = IF m = n THEN "passed" ELSE stage[m]
      /\ Cardinality(Running)' <= Threads
  BY <1>1, <1>2, RunningStep
<1>4. timingCounter' = Cardinality(Timed)'
  BY <1>1, <1>2, CountStep
<1>5. TypeOK'
  BY <1>1, <1>2 DEF TypeOK
<1>6. Numbered'
  BY <1>1, <1>3 DEF Numbered
<1>7. \A m \in Numbers : m <= FirstTiming - Threads => stage[m] \notin {"none", "read"}
  <2> SUFFICES ASSUME NEW m \in Numbers, m <= FirstTiming - Threads
               PROVE  stage[m] \notin {"none", "read"}
    OBVIOUS
  <2>1. FirstTiming > 1 /\ m < FirstTiming - Threads + 1 /\ m < FirstTiming
    BY FirstInNumbers DEF Numbers
  <2>2. m \notin Running
    BY <1>1, <1>2, <2>1, StartIsFull, FirstInNumbers DEF Numbers
  <2>3. stage[m] # "none"
    BY <1>1, <1>2, <2>1, FirstInNumbers DEF Numbered, TypeOK, Numbers
  <2>4. QED
    BY <2>2, <2>3 DEF Running
<1>8. ClockOK'
  BY <1>1, <1>2, <1>3, <1>7 DEF ClockOK, Past, Before, Waits
<1>9. QED
  BY <1>4, <1>5, <1>6, <1>8

LEMMA WaitStep ==
  ASSUME TimingInv, NEW n \in Numbers, WaitForClock(n)
  PROVE  TimingInv'
<1> USE DEF TimingInv
<1>1. PICK s \in {"wait", "passed"} :
        /\ stage[n] = "wait" /\ stage' = [stage EXCEPT ![n] = s]
        /\ s = "passed" <=> started
        /\ timingCounter' = IF started THEN timingCounter + 1 ELSE timingCounter
        /\ UNCHANGED <<created, evtCounter, started>>
  BY DEF WaitForClock, Goto
<1>2. s \in Stages /\ n \in Running /\ ~Past(n) /\ Waits(n) /\ n # FirstTiming
  BY <1>1 DEF Stages, Running, Past, ClockOK
<1>3. /\ \A m \in Numbers : stage'[m] = IF m = n THEN s ELSE stage[m]
      /\ Cardinality(Running)' <= Threads
  BY <1>1, <1>2, RunningStep
<1>4. timingCounter' = Cardinality(Timed)'
  BY <1>1, <1>2, CountStep
<1>5. TypeOK'
  BY <1>1, <1>2 DEF TypeOK
<1>6. Numbered'
  BY <1>1, <1>3 DEF Numbered
<1>7. ClockOK'
  BY <1>1, <1>2, <1>3, FirstInNumbers DEF ClockOK, Past, Before, Waits
<1>8. QED
  BY <1>4, <1>5, <1>6, <1>7

LEMMA NumberStep ==
  ASSUME TimingInv, NEW n \in Numbers, TakeNumber(n)
  PROVE  TimingInv'
<1> USE DEF TimingInv
<1>1. /\ n = evtCounter + 1 /\ evtCounter' = n /\ ThreadFree
      /\ stage[n] = "none" /\ stage' = [stage EXCEPT ![n] = "read"]
      /\ UNCHANGED <<created, started, timingCounter>>
  BY DEF TakeNumber, Goto
<1>2. ~Past(n) /\ "read" \in Stages
  BY <1>1 DEF Past, Stages
<1>3. /\ \A m \in Numbers : stage'[m] = IF m = n THEN "read" ELSE stage[m]
      /\ Cardinality(Running)' <= Threads
  BY <1>1, <1>2, RunningStep
<1>4. timingCounter' = Cardinality(Timed)'
  BY <1>1, <1>2, CountStep
<1>5. TypeOK'
  BY <1>1, <1>2, FirstInNumbers DEF TypeOK, Numbers
<1>6. Numbered'
  BY <1>1, <1>3, FirstInNumbers DEF Numbered, Numbers, TypeOK
<1>7. started => n > FirstTiming
  <2>1. started => stage[FirstTiming] # "none"
    BY DEF ClockOK, Past
  <2>2. QED
    BY <1>1, <2>1, FirstInNumbers DEF Numbered, Numbers, TypeOK
<1>8. ClockOK'
  BY <1>1, <1>3, <1>7, FirstInNumbers DEF ClockOK, Past, Before, Waits, Numbers
<1>9. QED
  BY <1>4, <1>5, <1>6, <1>8

LEMMA WorkStep ==
  ASSUME TimingInv, NEW n \in Numbers, BeginWork(n) \/ EndWork(n)
  PROVE  TimingInv'
<1> USE DEF TimingInv
<1>1. PICK s \in {"working", "done"} :
        /\ Past(n) /\ stage' = [stage EXCEPT ![n] = s]
        /\ ThreadFree \/ n \in Running
        /\ UNCHANGED <<created, evtCounter, started, timingCounter>>
  BY DEF BeginWork, EndWork, Goto, Past, Running
<1>2. s \in Stages
  BY DEF Stages
<1>3. /\ \A m \in Numbers : stage'[m] = IF m = n THEN s ELSE stage[m]
      /\ Cardinality(Running)' <= Threads
  BY <1>1, <1>2, RunningStep
<1>4. \A m \in Numbers : Past(m)' <=> Past(m)
  BY <1>1, <1>3 DEF Past
<1>5. Timed' = Timed
  BY <1>4 DEF Timed, Before
<1>6. TypeOK'
  BY <1>1, <1>2 DEF TypeOK
<1>7. Numbered'
  BY <1>1, <1>3 DEF Numbered, Past
<1>8. ClockOK'
  BY <1>1, <1>3, <1>4, FirstInNumbers DEF ClockOK, Before, Waits
<1>9. QED
  BY <1>1, <1>5, <1>6, <1>7, <1>8

LEMMA TimingInvariant == Spec => []TimingInv
<1>1. Init => TimingInv
  <2> SUFFICES ASSUME Init PROVE TimingInv
    OBVIOUS
  <2>1. Running = {} /\ Timed = {}
    BY DEF Init, Running, Timed, Past
  <2>2. Cardinality({}) = 0
    BY FS_EmptySet
  <2>3. TypeOK
    <3>1. stage \in [Numbers -> Stages]
      BY DEF Init, Stages
    <3>2. started \in BOOLEAN
      BY Zenon DEF Init
    <3>3. QED
      BY <3>1, <3>2, FirstInNumbers DEF Init, TypeOK
  <2>4. Numbered
    BY <2>1, <2>2, FirstInNumbers DEF Init, Numbered, Numbers
  <2>5. ClockOK
    BY FirstInNumbers DEF Init, ClockOK, Past
  <2>6. QED
    BY <2>1, <2>2, <2>3, <2>4, <2>5 DEF Init, TimingInv
<1>2. TimingInv /\ [Next]_vars => TimingInv'
  <2> SUFFICES ASSUME TimingInv, [Next]_vars PROVE TimingInv'
    OBVIOUS
  <2>1. CASE CreateEvent
    <3>1. UNCHANGED <<stage, evtCounter, started, timingCounter>> /\ created' \in 0..EvtMax
      BY <2>1, FirstInNumbers DEF CreateEvent, TimingInv, TypeOK
    <3>2. QED
      BY <3>1 DEF TimingInv, TypeOK, Numbered, ClockOK, Timed, Running, Past, Before, Waits
  <2>2. ASSUME NEW n \in Numbers, EventStep(n) PROVE TimingInv'
    BY <2>2, NumberStep, SeeStep, StartStep, WaitStep, WorkStep DEF EventStep
  <2>3. CASE UNCHANGED vars
    BY <2>3 DEF vars, TimingInv, TypeOK, Numbered, ClockOK, Timed, Running, Past, Before, Waits
  <2>4. QED
    BY <2>1, <2>2, <2>3 DEF Next, Finished
<1>3. QED
  BY <1>1, <1>2, PTL DEF Spec

-----------------------------------------------------------------------------

\* The variables of GenRndInit keep their types.
THEOREM TypeCorrect == Spec => []TypeOK
BY TimingInvariant, PTL DEF TimingInv

\* The timed events are those that GenRndInit::finalize divides by, although
\* the flag is read without its mutex.
THEOREM TimedEventsAreKnown == Spec => []TimedEventsKnown
<1>1. TimingInv => TimedEventsKnown
  BY DEF TimingInv, Timed, TimedEventsKnown
<1>2. QED
  BY <1>1, TimingInvariant, PTL

\* Whatever the number of threads, all of them are at the barrier when the
\* clock is started.
THEOREM ClockStartsWithAll == Spec => []ClockStartsTogether
<1>1. TimingInv => ClockStartsTogether
  <2> SUFFICES ASSUME TimingInv, NEW f \in Numbers,
                      stage[f] = "start", FirstTiming > 1
               PROVE  /\ Cardinality(Running) = Threads
                      /\ \A n \in Running \ {f} :
                           stage[n] \in {"read", "wait"} /\ Before(n)
    BY DEF ClockStartsTogether
  <2>1. f = FirstTiming
    BY DEF TimingInv, ClockOK
  <2>2. QED
    BY <2>1, StartIsFull
<1>2. QED
  BY <1>1, TimingInvariant, PTL

=============================================================================
