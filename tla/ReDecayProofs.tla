--------------------------- MODULE ReDecayProofs ---------------------------
(* Theorems about the ReDecay service, for any number of events, slots and *)
(* threads.                                                                *)
EXTENDS ReDecay, FiniteSetTheorems, TLAPS

-----------------------------------------------------------------------------
(* The inductive invariant: what an event's place in its chain says of its *)
(* token, what the counters of an original count, where the data are.      *)

TokenOK ==
  /\ \A e \in Events :
       org[e] = NoEvent <=> pc[e] \in {"waiting", "ready", "entering"}
  /\ \A e \in Events : pc[e] \in {"awaiting", "readHepMC", "readSim"} => org[e] # e
  /\ \A e \in Events : org[e] # NoEvent => org[org[e]] = org[e]
  /\ \A e \in Events :
       org[e] # NoEvent /\ org[e] # e /\ pc[e] # "awaiting" => org[e] \in promised
  /\ \A o \in Events : o \in promised <=> org[o] = o /\ pc[o] \in Gone

CountersOK ==
  /\ available = {o \in Originals : tofinish[o] > 0}
  /\ \A o \in Originals : tofinish[o] = toprocess[o] + Cardinality(Users(o))
  /\ \A o \in Originals : tofinish[o] < NRedecay <=> o \in promised

DataOK ==
  /\ hepmc \cup simresult \subseteq available
  /\ \A o \in available : pc[o] \in {"generated", "simulated", "done"} => o \in hepmc
  /\ \A o \in available : pc[o] \in {"simulated", "done"} => o \in simresult

ReuseInv == TypeOK /\ TokenOK /\ CountersOK /\ DataOK

\* The tokens of an original are a finite set.
LEMMA UsersFinite ==
  \A o \in Events : IsFiniteSet(Users(o)) /\ Cardinality(Users(o)) \in Nat
<1>1. \A o \in Events : Users(o) \subseteq Events
  BY DEF Users
<1>2. QED
  BY <1>1, ReDecayAssumption, FS_Subset, FS_CardinalityType

\* A step that creates and ends no token leaves the counters right.
LEMMA NoTokenStep ==
  ASSUME CountersOK,
         UNCHANGED <<org, available, toprocess, tofinish, promised>>,
         \A f \in Events : pc'[f] \in Gone <=> pc[f] \in Gone
  PROVE  CountersOK'
<1>1. \A o : Users(o)' = Users(o)
  BY DEF Users
<1>2. Originals' = Originals
  BY DEF Originals
<1>3. QED
  BY <1>1, <1>2 DEF CountersOK

\* A new original is its own first user.
LEMMA MakeStep ==
  ASSUME ReuseInv, NEW e \in Events, MakeOriginal(e)
  PROVE  ReuseInv'
<1> USE DEF ReuseInv
<1>1. /\ pc[e] = "entering" /\ pc' = [pc EXCEPT ![e] = "token"]
      /\ org' = [org EXCEPT ![e] = e]
      /\ available' = available \cup {e}
      /\ toprocess' = [toprocess EXCEPT ![e] = NRedecay - 1]
      /\ tofinish' = [tofinish EXCEPT ![e] = NRedecay]
      /\ UNCHANGED <<processed, promised, hepmc, simresult, torn>>
  BY DEF MakeOriginal, Goto, dataVars
<1>2. org[e] = NoEvent /\ NoEvent \notin Events
  BY <1>1, ReDecayAssumption DEF TokenOK
<1>3. TypeOK'
  BY <1>1, ReDecayAssumption DEF TypeOK, EventStates
<1>4. TokenOK'
  BY <1>1, <1>2 DEF TokenOK, TypeOK, Gone
<1>5. Originals' = Originals \cup {e} /\ e \notin Originals
  BY <1>1, <1>2 DEF Originals, TypeOK
<1>6. Users(e)' = {e}
  BY <1>1, <1>2 DEF Users, TokenOK, TypeOK, Gone
<1>7. \A o \in Originals : Users(o)' = Users(o)
  BY <1>1, <1>2, <1>5 DEF Users, TypeOK, Originals, Gone
<1>8. CountersOK'
  <2>1. Cardinality(Users(e)') = 1
    BY <1>6, FS_Singleton
  <2>2. e \notin promised
    BY <1>2 DEF TokenOK
  <2>3. available' = {o \in Originals' : tofinish'[o] > 0}
    BY <1>1, <1>5, ReDecayAssumption DEF CountersOK, TypeOK, Originals
  <2>4. \A o \in Originals' :
          tofinish'[o] = toprocess'[o] + Cardinality(Users(o)')
    <3>1. tofinish'[e] = toprocess'[e] + Cardinality(Users(e)')
      BY <1>1, <2>1, ReDecayAssumption DEF TypeOK
    <3>2. \A o \in Originals : tofinish'[o] = tofinish[o] /\ toprocess'[o] = toprocess[o]
      BY <1>1, <1>5 DEF TypeOK, Originals
    <3>3. QED
      BY <3>1, <3>2, <1>5, <1>7 DEF CountersOK
  <2>5. \A o \in Originals' : tofinish'[o] < NRedecay <=> o \in promised'
    BY <1>1, <1>5, <2>2, ReDecayAssumption DEF CountersOK, TypeOK, Originals
  <2>6. QED
    BY <2>3, <2>4, <2>5 DEF CountersOK
<1>9. DataOK'
  <2>1. \A o \in available : o # e /\ o \in Events
    BY <1>5 DEF CountersOK, Originals
  <2>2. pc'[e] = "token" /\ \A o \in available : pc'[o] = pc[o]
    BY <1>1, <2>1 DEF TypeOK
  <2>3. QED
    BY <1>1, <2>2 DEF DataOK
<1>10. QED
  BY <1>3, <1>4, <1>8, <1>9

\* A redecay becomes one more user, and one use less is left to take.
LEMMA ReuseStep ==
  ASSUME ReuseInv, NEW e \in Events, NEW o \in Events, ReuseOriginal(e, o)
  PROVE  ReuseInv'
<1> USE DEF ReuseInv
<1>1. /\ pc[e] = "entering" /\ pc' = [pc EXCEPT ![e] = "awaiting"]
      /\ org' = [org EXCEPT ![e] = o]
      /\ toprocess' = [toprocess EXCEPT ![o] = @ - 1]
      /\ UNCHANGED <<processed, available, tofinish, promised, hepmc, simresult, torn>>
  BY DEF ReuseOriginal, Goto, dataVars
<1>2. o \in available /\ toprocess[o] > 0
  BY DEF ReuseOriginal, Candidates, Completed
<1>3. /\ org[e] = NoEvent /\ NoEvent \notin Events
      /\ o \in Originals /\ org[o] = o /\ o # e
  BY <1>1, <1>2, ReDecayAssumption DEF TokenOK, CountersOK, Originals
<1>4. TypeOK'
  BY <1>1, <1>2, ReDecayAssumption DEF TypeOK, EventStates
<1>5. TokenOK'
  BY <1>1, <1>3 DEF TokenOK, TypeOK, Gone
<1>6. Originals' = Originals /\ e \notin Originals
  BY <1>1, <1>3 DEF Originals, TypeOK
<1>7. Users(o)' = Users(o) \cup {e} /\ e \notin Users(o)
  BY <1>1, <1>3 DEF Users, TypeOK, Gone
<1>8. \A q \in Originals : q # o => Users(q)' = Users(q)
  BY <1>1, <1>3 DEF Users, TypeOK, Originals, Gone
<1>9. CountersOK'
  <2>1. Cardinality(Users(o)') = Cardinality(Users(o)) + 1
    BY <1>7, UsersFinite, FS_AddElement
  <2>2. toprocess'[o] + Cardinality(Users(o)') = toprocess[o] + Cardinality(Users(o))
    BY <1>1, <2>1, UsersFinite DEF TypeOK
  <2>3. \A q \in Originals : q # o => toprocess'[q] = toprocess[q]
    BY <1>1 DEF TypeOK, Originals
  <2>4. \A q \in Originals : tofinish'[q] = toprocess'[q] + Cardinality(Users(q)')
    BY <1>1, <1>3, <1>8, <2>2, <2>3 DEF CountersOK
  <2>5. QED
    BY <1>1, <1>6, <2>4 DEF CountersOK
<1>10. DataOK'
  <2>1. \A q \in available : q # e
    BY <1>6 DEF CountersOK
  <2>2. QED
    BY <1>1, <2>1 DEF DataOK, TypeOK
<1>11. QED
  BY <1>4, <1>5, <1>9, <1>10

\* An event that ends gives its use back; the last one takes the original
\* and its data with it.
LEMMA ClearStep ==
  ASSUME ReuseInv, NEW e \in Events, ClearStore(e)
  PROVE  ReuseInv'
<1> USE DEF ReuseInv
<1> DEFINE o == org[e]
           last == tofinish[o] = 1
<1>1. /\ pc[e] \in {"simulated", "failed"}
      /\ \E to \in Gone : pc' = [pc EXCEPT ![e] = to]
      /\ (pc[e] = "failed" => pc'[e] = "dropped")
      /\ tofinish' = [tofinish EXCEPT ![o] = @ - 1]
      /\ promised' = IF o = e THEN promised \cup {e} ELSE promised
      /\ available' = IF last THEN available \ {o} ELSE available
      /\ hepmc' = IF last THEN hepmc \ {o} ELSE hepmc
      /\ simresult' = IF last THEN simresult \ {o} ELSE simresult
      /\ torn' \subseteq torn \cup Events
      /\ UNCHANGED <<org, processed, toprocess>>
  BY DEF ClearStore, RemoveToken, Goto, Gone, IsOriginal, DisturbLookUps, TypeOK
<1>2. /\ o \in Events /\ org[o] = o /\ o \in Originals
      /\ pc[e] \notin Gone /\ e \in Users(o)
  BY <1>1 DEF TokenOK, TypeOK, Originals, Users, Gone
<1>3. \A f \in Events : f # e => pc'[f] = pc[f]
  BY <1>1 DEF TypeOK
<1>4. pc'[e] \in Gone
  BY <1>1 DEF TypeOK
<1>5. Originals' = Originals
  BY <1>1 DEF Originals
<1>6. Users(o)' = Users(o) \ {e}
  BY <1>1, <1>2, <1>3, <1>4 DEF Users
<1>7. \A q \in Originals : q # o => Users(q)' = Users(q)
  BY <1>1, <1>2, <1>3 DEF Users
<1>8. Cardinality(Users(o)') = Cardinality(Users(o)) - 1 /\ Cardinality(Users(o)) >= 1
  <2>1. IsFiniteSet(Users(o)') /\ Cardinality(Users(o)') \in Nat
    BY <1>2, <1>6, UsersFinite, FS_Subset, FS_CardinalityType
  <2>2. Cardinality(Users(o)') = Cardinality(Users(o)) - 1
    <3>1. IsFiniteSet(Users(o))
      BY <1>2, UsersFinite
    <3>2. QED
      BY <1>2, <1>6, <3>1, FS_RemoveElement, ZenonT(30)
  <2>3. QED
    BY <2>1, <2>2, <1>2, UsersFinite
<1>9. /\ tofinish[o] = toprocess[o] + Cardinality(Users(o))
      /\ tofinish[o] \in 1..NRedecay /\ o \in available
  BY <1>2, <1>8, UsersFinite, ReDecayAssumption DEF CountersOK, TypeOK
<1>10. TypeOK'
  BY <1>1, <1>2, <1>9, ReDecayAssumption DEF TypeOK, EventStates, Gone
<1>11. TokenOK'
  BY <1>1, <1>2, <1>3, <1>4, <1>10 DEF TokenOK, TypeOK, Gone
<1>12. CountersOK'
  <2>1. \A q \in Originals : q # o => tofinish'[q] = tofinish[q]
    BY <1>1, <1>2 DEF TypeOK, Originals
  <2>2. tofinish'[o] = tofinish[o] - 1
    BY <1>1, <1>2 DEF TypeOK
  <2>3. available' = {q \in Originals : tofinish'[q] > 0}
    BY <1>1, <1>2, <1>9, <2>1, <2>2 DEF CountersOK, TypeOK, Originals
  <2>4. \A q \in Originals : tofinish'[q] = toprocess[q] + Cardinality(Users(q)')
    <3>1. tofinish'[o] = toprocess[o] + Cardinality(Users(o)')
      BY <1>2, <1>8, <1>9, <2>2, UsersFinite DEF TypeOK
    <3>2. \A q \in Originals : q # o =>
            tofinish'[q] = toprocess[q] + Cardinality(Users(q)')
      BY <1>7, <2>1, Zenon DEF CountersOK
    <3>3. ASSUME NEW q \in Originals
         PROVE  tofinish'[q] = toprocess[q] + Cardinality(Users(q)')
      <4>1. CASE q = o BY <4>1, <3>1, <1>1
      <4>2. CASE q # o BY <4>2, <3>2
      <4>3. QED BY <4>1, <4>2
    <3>4. QED
      BY <3>3
  <2>5. \A q \in Originals : tofinish'[q] < NRedecay <=> q \in promised'
    <3>1. o \in promised'
      BY <1>1, <1>2 DEF TokenOK
    <3>2. tofinish'[o] < NRedecay
      BY <1>9, <2>2, ReDecayAssumption
    <3>3. \A q \in Originals : q # o => (q \in promised' <=> q \in promised)
      BY <1>1
    <3>4. QED
      BY <2>1, <3>1, <3>2, <3>3 DEF CountersOK
  <2>6. QED
    BY <1>1, <1>5, <2>3, <2>4, <2>5 DEF CountersOK
<1>13. DataOK'
  <2>1. \A q \in available : q = e /\ pc[e] = "failed" => pc'[e] = "dropped"
    BY <1>1
  <2>2. QED
    BY <1>1, <1>2, <1>3, <1>4, <2>1 DEF DataOK, Gone
<1>14. QED
  BY <1>10, <1>11, <1>12, <1>13

\* An original with a token in flight is still available.
LEMMA UsersKeep ==
  ASSUME ReuseInv, NEW e \in Events, org[e] # NoEvent, pc[e] \notin Gone
  PROVE  org[e] \in available
<1> USE DEF ReuseInv
<1>1. org[e] \in Originals /\ org[e] \in Events /\ e \in Users(org[e])
  BY DEF TokenOK, TypeOK, Originals, Users
<1>2. Cardinality(Users(org[e])) >= 1
  BY <1>1, UsersFinite, FS_EmptySet
<1>3. tofinish[org[e]] > 0
  BY <1>1, <1>2, UsersFinite DEF CountersOK, TypeOK
<1>4. QED
  BY <1>1, <1>3 DEF CountersOK

\* The other steps of an event do not touch tokens and counters.
LEMMA OtherStep ==
  ASSUME ReuseInv, NEW e \in Events,
         \/ StartEvent(e) \/ EnterObtainToken(e) \/ AwaitOriginal(e)
         \/ StoreOriginalHepMC(e) \/ StoreOriginalSimResult(e)
         \/ BeginGetHepMC(e) \/ EndGetHepMC(e)
         \/ BeginGetSimResult(e) \/ EndGetSimResult(e)
         \/ FailAlgorithm(e)
  PROVE  ReuseInv'
<1> USE DEF ReuseInv
<1> DEFINE Kept ==
             /\ UNCHANGED <<org, available, toprocess, tofinish, promised>>
             /\ \A f \in Events : pc'[f] \in Gone <=> pc[f] \in Gone
             /\ TypeOK' /\ TokenOK' /\ DataOK'
<1> SUFFICES Kept
  BY NoTokenStep
<1>1. ASSUME StartEvent(e) PROVE Kept
  BY <1>1 DEF StartEvent, Goto, svcVars, dataVars, TypeOK, TokenOK, DataOK,
               EventStates, Gone
<1>2. ASSUME EnterObtainToken(e) PROVE Kept
  <2>1. TypeOK'
    BY <1>2 DEF EnterObtainToken, Goto, dataVars, TypeOK, EventStates
  <2>2. TokenOK'
    BY <1>2 DEF EnterObtainToken, Goto, dataVars, TypeOK, TokenOK, Gone
  <2>3. DataOK'
    BY <1>2 DEF EnterObtainToken, Goto, dataVars, TypeOK, DataOK
  <2>4. QED
    BY <1>2, <2>1, <2>2, <2>3 DEF EnterObtainToken, Goto, dataVars, TypeOK, Gone
<1>3. ASSUME AwaitOriginal(e) PROVE Kept
  <2>1. TypeOK'
    BY <1>3 DEF AwaitOriginal, Goto, svcVars, dataVars, TypeOK, EventStates
  <2>2. TokenOK'
    BY <1>3 DEF AwaitOriginal, Goto, svcVars, dataVars, TypeOK, TokenOK, Gone
  <2>3. DataOK'
    BY <1>3 DEF AwaitOriginal, Goto, svcVars, dataVars, TypeOK, DataOK
  <2>4. QED
    BY <1>3, <2>1, <2>2, <2>3 DEF AwaitOriginal, Goto, svcVars, dataVars, TypeOK, Gone
<1>4. ASSUME StoreOriginalHepMC(e) PROVE Kept
  <2>1. e \in available
    BY <1>4, UsersKeep, ReDecayAssumption DEF StoreOriginalHepMC, Goto, IsOriginal, Gone
  <2>2. QED
    BY <1>4, <2>1 DEF StoreOriginalHepMC, Goto, svcVars, IsOriginal,
          DisturbLookUps, TypeOK, TokenOK, DataOK, EventStates, Gone
<1>5. ASSUME StoreOriginalSimResult(e) PROVE Kept
  <2>1. TypeOK'
    BY <1>5 DEF StoreOriginalSimResult, Goto, svcVars, IsOriginal, DisturbLookUps, TypeOK, EventStates
  <2>2. TokenOK'
    BY <1>5 DEF StoreOriginalSimResult, Goto, svcVars, IsOriginal, DisturbLookUps, TypeOK, TokenOK, Gone
  <2>3. e \in available
    BY <1>5, UsersKeep, ReDecayAssumption DEF StoreOriginalSimResult, Goto, IsOriginal, Gone
  <2>4. DataOK'
    BY <1>5, <2>3 DEF StoreOriginalSimResult, Goto, svcVars, IsOriginal, DisturbLookUps, TypeOK, DataOK
  <2>5. QED
    BY <1>5, <2>1, <2>2, <2>4 DEF StoreOriginalSimResult, Goto, svcVars, IsOriginal, DisturbLookUps, TypeOK, Gone
<1>6. ASSUME BeginGetHepMC(e) PROVE Kept
  BY <1>6 DEF BeginGetHepMC, BeginLookUp, Goto, svcVars, dataVars, IsOriginal, TypeOK, TokenOK, DataOK,
               EventStates, Gone
<1>7. ASSUME EndGetHepMC(e) PROVE Kept
  <2>1. TypeOK'
    BY <1>7 DEF EndGetHepMC, EndLookUp, Goto, svcVars, dataVars, TypeOK, EventStates
  <2>2. TokenOK'
    BY <1>7 DEF EndGetHepMC, EndLookUp, Goto, svcVars, dataVars, TypeOK, TokenOK, Gone
  <2>3. e \notin available
    BY <1>7 DEF EndGetHepMC, EndLookUp, Goto, CountersOK, Originals, TokenOK
  <2>4. \A f \in available : pc'[f] = pc[f]
    BY <1>7, <2>3 DEF EndGetHepMC, EndLookUp, Goto, TypeOK
  <2>5. DataOK'
    BY <1>7, <2>4 DEF EndGetHepMC, EndLookUp, svcVars, dataVars, DataOK
  <2>6. QED
    BY <1>7, <2>1, <2>2, <2>5 DEF EndGetHepMC, EndLookUp, Goto, svcVars, dataVars, TypeOK, Gone
<1>8. ASSUME BeginGetSimResult(e) PROVE Kept
  BY <1>8 DEF BeginGetSimResult, BeginLookUp, Goto, svcVars, dataVars, IsOriginal, TypeOK, TokenOK, DataOK,
               EventStates, Gone
<1>9. ASSUME EndGetSimResult(e) PROVE Kept
  <2>1. TypeOK'
    BY <1>9 DEF EndGetSimResult, EndLookUp, Goto, svcVars, dataVars, TypeOK, EventStates
  <2>2. TokenOK'
    BY <1>9 DEF EndGetSimResult, EndLookUp, Goto, svcVars, dataVars, TypeOK, TokenOK, Gone
  <2>3. e \notin available
    BY <1>9 DEF EndGetSimResult, EndLookUp, Goto, CountersOK, Originals, TokenOK
  <2>4. \A f \in available : pc'[f] = pc[f]
    BY <1>9, <2>3 DEF EndGetSimResult, EndLookUp, Goto, TypeOK
  <2>5. DataOK'
    BY <1>9, <2>4 DEF EndGetSimResult, EndLookUp, svcVars, dataVars, DataOK
  <2>6. QED
    BY <1>9, <2>1, <2>2, <2>5 DEF EndGetSimResult, EndLookUp, Goto, svcVars, dataVars, TypeOK, Gone
<1>10. ASSUME FailAlgorithm(e) PROVE Kept
  BY <1>10 DEF FailAlgorithm, Goto, svcVars, dataVars, TypeOK, TokenOK, DataOK,
               EventStates, Gone
<1>11. QED
  BY <1>1, <1>2, <1>3, <1>4, <1>5, <1>6, <1>7, <1>8, <1>9, <1>10

\* Every step preserves the invariant.
LEMMA ReuseStepInv == ReuseInv /\ [Next]_vars => ReuseInv'
<1> SUFFICES ASSUME ReuseInv, [Next]_vars PROVE ReuseInv'
  OBVIOUS
<1>1. ASSUME NEW e \in Events, StartEvent(e) \/ FailAlgorithm(e) PROVE ReuseInv'
  BY <1>1, OtherStep
<1>2. ASSUME NEW e \in Events, EventStep(e) PROVE ReuseInv'
  BY <1>2, MakeStep, ReuseStep, ClearStep, OtherStep DEF EventStep
<1>3. CASE UNCHANGED vars
  <2>1. UNCHANGED <<org, available, toprocess, tofinish, promised>>
    BY <1>3 DEF vars, svcVars, dataVars
  <2>2. CountersOK'
    BY <1>3, <2>1, NoTokenStep DEF ReuseInv, vars
  <2>3. QED
    BY <1>3, <2>1, <2>2 DEF vars, svcVars, dataVars, ReuseInv, TypeOK, TokenOK, DataOK
<1>4. QED
  BY <1>1, <1>2, <1>3 DEF Next, Terminated

\* The service starts without originals.
LEMMA ReuseInit == Init => ReuseInv
<1> SUFFICES ASSUME Init PROVE ReuseInv
  OBVIOUS
<1>1. TypeOK /\ TokenOK /\ DataOK
  BY ReDecayAssumption DEF Init, TypeOK, TokenOK, DataOK, EventStates, Gone
<1>2. Originals = {}
  BY ReDecayAssumption DEF Init, Originals
<1>3. CountersOK
  BY <1>2 DEF Init, CountersOK
<1>4. QED
  BY <1>1, <1>3 DEF ReuseInv

\* The inductive invariant holds throughout.
LEMMA ReuseInvariant == Spec => []ReuseInv
<1>1. QED
  BY ReuseInit, ReuseStepInv, PTL DEF Spec

-----------------------------------------------------------------------------
(* m_processed.                                                            *)

Entered == {e \in Events : pc[e] \notin {"waiting", "ready"}}

ProcessedOK == processed = Cardinality(Entered)

\* Each event is counted once, when it enters obtainToken.
LEMMA EnterStep ==
  ASSUME TypeOK, ProcessedOK, NEW e \in Events, EnterObtainToken(e)
  PROVE  ProcessedOK'
<1>1. /\ pc[e] = "ready" /\ pc' = [pc EXCEPT ![e] = "entering"]
      /\ processed' = processed + 1
  BY DEF EnterObtainToken, Goto
<1>2. Entered' = Entered \cup {e} /\ e \notin Entered
  BY <1>1 DEF Entered, TypeOK
<1>3. IsFiniteSet(Entered)
  BY ReDecayAssumption, FS_Subset DEF Entered
<1>4. QED
  BY <1>1, <1>2, <1>3, FS_AddElement DEF ProcessedOK

\* No other step counts.
LEMMA ProcessedStep ==
  ASSUME TypeOK, ProcessedOK, [Next]_vars
  PROVE  ProcessedOK'
<1> DEFINE Kept == processed' = processed /\ Entered' = Entered
<1>1. SUFFICES ASSUME ~ \E e \in Events : EnterObtainToken(e) PROVE Kept
  BY EnterStep DEF ProcessedOK
<1>2. ASSUME NEW e \in Events, StartEvent(e) \/ FailAlgorithm(e) PROVE Kept
  BY <1>2 DEF StartEvent, FailAlgorithm, Goto, svcVars, Entered, TypeOK
<1>3. ASSUME NEW e \in Events, EventStep(e) PROVE Kept
  <2>1. ASSUME MakeOriginal(e) \/ \E o \in Events : ReuseOriginal(e, o) PROVE Kept
    BY <2>1 DEF MakeOriginal, ReuseOriginal, Goto, Entered, TypeOK
  <2>2. ASSUME AwaitOriginal(e) PROVE Kept
    BY <2>2 DEF AwaitOriginal, Goto, svcVars, Entered, TypeOK
  <2>3. ASSUME StoreOriginalHepMC(e) \/ StoreOriginalSimResult(e) PROVE Kept
    BY <2>3 DEF StoreOriginalHepMC, StoreOriginalSimResult, Goto, svcVars, Entered, TypeOK
  <2>4. ASSUME BeginGetHepMC(e) \/ BeginGetSimResult(e) PROVE Kept
    BY <2>4 DEF BeginGetHepMC, BeginGetSimResult, BeginLookUp, Goto, svcVars, Entered, TypeOK
  <2>5. ASSUME EndGetHepMC(e) \/ EndGetSimResult(e) PROVE Kept
    BY <2>5 DEF EndGetHepMC, EndGetSimResult, EndLookUp, Goto, svcVars, Entered, TypeOK
  <2>6. ASSUME ClearStore(e) PROVE Kept
    BY <2>6 DEF ClearStore, Goto, Entered, TypeOK
  <2>7. QED
    BY <1>1, <1>3, <2>1, <2>2, <2>3, <2>4, <2>5, <2>6 DEF EventStep
<1>4. CASE UNCHANGED vars
  BY <1>4 DEF vars, svcVars, Entered
<1>5. QED
  BY <1>2, <1>3, <1>4 DEF Next, Terminated

\* m_processed is the number of events that have entered obtainToken.
LEMMA ProcessedInvariant == Spec => []ProcessedOK
<1>1. Init => ProcessedOK
  <2>1. Init => Entered = {}
    BY DEF Init, Entered
  <2>2. QED
    BY <2>1, FS_EmptySet DEF Init, ProcessedOK
<1>2. TypeOK /\ ProcessedOK /\ [Next]_vars => ProcessedOK'
  BY ProcessedStep
<1>3. ReuseInv => TypeOK
  BY DEF ReuseInv
<1>4. QED
  BY <1>1, <1>2, <1>3, ReuseInvariant, PTL DEF Spec

-----------------------------------------------------------------------------
(* The theorems.                                                           *)

\* Type correctness; in particular no counter of an original goes below zero
\* or above NRedecay.
THEOREM TypeCorrect == Spec => []TypeOK
<1>1. ReuseInv => TypeOK
  BY DEF ReuseInv
<1>2. QED
  BY <1>1, ReuseInvariant, PTL

\* The counters of obtainToken and removeToken balance: the unfinished uses of
\* an original are those not taken and those of the tokens in flight.
THEOREM UsesAreBalanced == Spec => []UsesBalance
<1>1. ReuseInv => UsesBalance
  BY DEF ReuseInv, CountersOK, UsesBalance
<1>2. QED
  BY <1>1, ReuseInvariant, PTL

\* The test tofinish < NRedecay of obtainToken is right about which originals
\* are complete.
THEOREM CountersAreRight == Spec => []CountersTellCompletion
<1>1. ReuseInv => CountersTellCompletion
  BY DEF ReuseInv, CountersOK, CountersTellCompletion
<1>2. QED
  BY <1>1, ReuseInvariant, PTL

\* removeToken never takes the data of a completed original away from a redecay
\* in flight.
THEOREM DataAreKept == Spec => []OriginalDataKept
<1>1. ReuseInv => OriginalDataKept
  <2>1. SUFFICES ASSUME ReuseInv, NEW e \in Events, Live(e), pc[org[e]] = "done"
                 PROVE  org[e] \in hepmc \cap simresult
    BY DEF OriginalDataKept
  <2>2. org[e] \in available
    BY <2>1, UsersKeep DEF Live
  <2>3. QED
    BY <2>1, <2>2 DEF ReuseInv, DataOK
<1>2. QED
  BY <1>1, ReuseInvariant, PTL

\* removeToken erases an original, its HepMC events and its results exactly
\* when its last use is finished.
THEOREM OriginalsAreErased == Spec => []ErasedWhenUsedUp
<1>1. ReuseInv => ErasedWhenUsedUp
  BY DEF ReuseInv, CountersOK, DataOK, ErasedWhenUsedUp
<1>2. QED
  BY <1>1, ReuseInvariant, PTL

\* obtainToken never throws "Not original but no valid original found!".
THEOREM SomeOriginalIsFound == Spec => []NeverOrphaned
<1>1. ReuseInv /\ ProcessedOK => NeverOrphaned
  <2>1. SUFFICES ASSUME ReuseInv, ProcessedOK, Candidates = {}, ~MayBeOriginal
                 PROVE  FALSE
    BY DEF NeverOrphaned
  <2>2. \A o \in available : ~(toprocess[o] > 0)
    BY <2>1 DEF Candidates, Completed
  <2>3. FreeUses = {}
    BY <2>1, <2>2, ReDecayAssumption DEF FreeUses, ReuseInv, TypeOK
  <2>4. QueuedEvents = 0
    BY <2>3, FS_EmptySet DEF QueuedEvents
  <2>5. ~(processed - 1 < EvtMax)
    BY <2>1, <2>4 DEF MayBeOriginal, ReuseInv, TypeOK
  <2>6. processed <= Cardinality(Events)
    BY <2>1, ReDecayAssumption, FS_Subset DEF ProcessedOK, Entered
  <2>7. Cardinality(Events) \in Nat
    BY ReDecayAssumption, FS_CardinalityType
  <2>8. QED
    BY <2>1, <2>5, <2>6, <2>7, ReDecayAssumption DEF ReuseInv, TypeOK
<1>2. QED
  BY <1>1, ReuseInvariant, ProcessedInvariant, PTL

-----------------------------------------------------------------------------
(* How many originals there are.                                           *)

Tokens == {e \in Events : org[e] # NoEvent}

InUse == {o \in available : toprocess[o] > 0}

\* Every use of every original has been taken by a token or is still free.
UsesOK == Cardinality(Originals) * NRedecay = Cardinality(Tokens) + QueuedEvents

BoundsInv == UsesOK /\ NoSuperfluousOriginal /\ OriginalsBounded

LEMMA CountsFinite ==
  ASSUME ReuseInv
  PROVE  /\ IsFiniteSet(Originals) /\ Cardinality(Originals) \in Nat
         /\ IsFiniteSet(Tokens) /\ Cardinality(Tokens) \in Nat
         /\ IsFiniteSet(FreeUses) /\ QueuedEvents \in Nat
         /\ IsFiniteSet(available) /\ IsFiniteSet(InUse)
<1>1. /\ Originals \subseteq Events /\ Tokens \subseteq Events
      /\ available \subseteq Events /\ InUse \subseteq Events
      /\ FreeUses \subseteq Events \X (1..NRedecay)
  BY DEF Originals, Tokens, InUse, FreeUses, ReuseInv, TypeOK
<1>2. IsFiniteSet(Events \X (1..NRedecay))
  <2>1. IsFiniteSet(1..NRedecay) /\ IsFiniteSet(Events)
    BY ReDecayAssumption, FS_Interval
  <2>2. QED
    BY <2>1, FS_Product
<1>3. /\ IsFiniteSet(Originals) /\ IsFiniteSet(Tokens) /\ IsFiniteSet(available)
      /\ IsFiniteSet(InUse) /\ IsFiniteSet(FreeUses)
  BY <1>1, <1>2, ReDecayAssumption, FS_Subset
<1>4. QED
  BY <1>3, FS_CardinalityType DEF QueuedEvents

\* When no use is free, no original has any left.
LEMMA NothingQueued ==
  ASSUME ReuseInv, QueuedEvents = 0
  PROVE  InUse = {}
<1>1. FreeUses = {}
  BY CountsFinite, FS_EmptySet DEF QueuedEvents
<1>2. \A o \in InUse : <<o, 1>> \in FreeUses
  BY ReDecayAssumption DEF InUse, FreeUses, ReuseInv, TypeOK
<1>3. QED
  BY <1>1, <1>2

\* A step that makes no original and takes no use.
LEMMA NoUseStep ==
  ASSUME ReuseInv, BoundsInv, org' = org, toprocess' = toprocess,
         available' \subseteq available,
         \A o \in available \ available' : toprocess[o] = 0
  PROVE  BoundsInv'
<1>1. /\ Originals' = Originals /\ Tokens' = Tokens /\ InUse' = InUse
      /\ FreeUses' = FreeUses
  BY DEF Originals, Tokens, InUse, FreeUses, ReuseInv, TypeOK
<1>2. QED
  BY <1>1 DEF BoundsInv, UsesOK, NoSuperfluousOriginal, OriginalsBounded, InUse,
              QueuedEvents

\* MakeOriginal makes one only if the events to come need it, and only if few
\* enough are there.
LEMMA MakeBounds ==
  ASSUME ReuseInv, ProcessedOK, BoundsInv, NEW e \in Events, MakeOriginal(e)
  PROVE  BoundsInv'
<1>1. /\ pc[e] = "entering" /\ MayBeOriginal
      /\ org' = [org EXCEPT ![e] = e]
      /\ available' = available \cup {e}
      /\ toprocess' = [toprocess EXCEPT ![e] = NRedecay - 1]
  BY DEF MakeOriginal, Goto
<1>2. org[e] = NoEvent /\ NoEvent \notin Events
  BY <1>1, ReDecayAssumption DEF ReuseInv, TokenOK
<1>3. /\ Originals' = Originals \cup {e} /\ e \notin Originals
      /\ Tokens' = Tokens \cup {e} /\ e \notin Tokens
  BY <1>1, <1>2 DEF Originals, Tokens, ReuseInv, TypeOK
<1>4. e \notin available
  BY <1>3 DEF ReuseInv, CountersOK
<1>5. /\ Cardinality(Originals)' = Cardinality(Originals) + 1
      /\ Cardinality(Tokens)' = Cardinality(Tokens) + 1
  BY <1>3, CountsFinite, FS_AddElement
<1>6. QueuedEvents' = QueuedEvents + (NRedecay - 1)
  <2> DEFINE new == {e} \X (1..(NRedecay - 1))
  <2>1. FreeUses' = FreeUses \cup new
    <3>1. /\ toprocess'[e] = NRedecay - 1
          /\ \A o \in available : toprocess'[o] = toprocess[o]
      BY <1>1, <1>4 DEF ReuseInv, TypeOK
    <3>2. \A n \in 1..NRedecay : n <= NRedecay - 1 <=> n \in 1..(NRedecay - 1)
      BY ReDecayAssumption
    <3>3. 1..(NRedecay - 1) \subseteq 1..NRedecay
      BY ReDecayAssumption
    <3>4. QED
      BY <1>1, <3>1, <3>2, <3>3 DEF FreeUses
  <2>2. FreeUses \cap new = {}
    BY <1>4 DEF FreeUses
  <2>3. IsFiniteSet(new) /\ Cardinality(new) = NRedecay - 1
    <3>1. /\ IsFiniteSet(1..(NRedecay - 1))
          /\ Cardinality(1..(NRedecay - 1)) = NRedecay - 1
      BY ReDecayAssumption, FS_Interval
    <3>2. IsFiniteSet({e}) /\ Cardinality({e}) = 1
      BY FS_Singleton
    <3>3. IsFiniteSet(new) /\ Cardinality(new) = 1 * (NRedecay - 1)
      BY <3>1, <3>2, FS_Product, ZenonT(30)
    <3>4. QED
      BY <3>3, ReDecayAssumption
  <2> HIDE DEF new
  <2>4. Cardinality(FreeUses \cap new) = 0
    BY <2>2, FS_EmptySet
  <2>5. Cardinality(FreeUses \cup new) =
          Cardinality(FreeUses) + Cardinality(new) - Cardinality(FreeUses \cap new)
    BY <2>3, CountsFinite, FS_Union
  <2>6. QED
    BY <2>1, <2>3, <2>4, <2>5, CountsFinite, ReDecayAssumption DEF QueuedEvents
<1>7. processed >= Cardinality(Tokens) + 1 /\ processed \in Nat
  <2>1. Tokens \cup {e} \subseteq Entered /\ IsFiniteSet(Entered)
    BY <1>1, ReDecayAssumption, FS_Subset DEF Tokens, Entered, ReuseInv, TokenOK
  <2>2. Cardinality(Tokens \cup {e}) <= Cardinality(Entered)
    BY <2>1, FS_Subset
  <2>3. Cardinality(Entered) \in Nat
    BY <2>1, FS_CardinalityType
  <2>4. Cardinality(Tokens \cup {e}) = Cardinality(Tokens) + 1
    BY <1>3, CountsFinite, FS_AddElement
  <2>5. QED
    BY <2>2, <2>3, <2>4, CountsFinite DEF ProcessedOK
<1>8. (Cardinality(Originals) + 1) * NRedecay
        = Cardinality(Originals) * NRedecay + NRedecay
      /\ Cardinality(Originals) * NRedecay \in Nat
  BY CountsFinite, ReDecayAssumption
<1>9. UsesOK'
  BY <1>5, <1>6, <1>8, CountsFinite, ReDecayAssumption DEF BoundsInv, UsesOK
<1>10. NoSuperfluousOriginal'
  <2>1. Cardinality(Originals) * NRedecay < EvtMax
    BY <1>1, <1>7, CountsFinite, ReDecayAssumption
       DEF MayBeOriginal, BoundsInv, UsesOK
  <2>2. QED
    BY <1>5, <1>8, <2>1, ReDecayAssumption DEF NoSuperfluousOriginal
<1>11. OriginalsBounded'
  <2>1. InUse' \subseteq InUse \cup {e}
    BY <1>1, <1>4 DEF InUse, ReuseInv, TypeOK
  <2>2. IsFiniteSet(InUse \cup {e})
    BY CountsFinite, FS_AddElement
  <2>3. Cardinality(InUse \cup {e}) <= ParallelOriginal
    <3>1. CASE QueuedEvents = 0
      <4>1. InUse \cup {e} = {e}
        BY <3>1, NothingQueued
      <4>2. Cardinality(InUse \cup {e}) = 1
        BY <4>1, FS_Singleton
      <4>3. QED
        BY <4>2, ReDecayAssumption
    <3>2. CASE Cardinality(available) < ParallelOriginal
      <4>1. InUse \cup {e} \subseteq available \cup {e}
        BY DEF InUse
      <4>2. /\ IsFiniteSet(available \cup {e})
            /\ Cardinality(available \cup {e}) = Cardinality(available) + 1
        BY <1>4, CountsFinite, FS_AddElement
      <4>3. Cardinality(InUse \cup {e}) <= Cardinality(available) + 1
        BY <4>1, <4>2, FS_Subset
      <4>4. Cardinality(available) \in Nat /\ Cardinality(InUse \cup {e}) \in Nat
        BY <2>2, CountsFinite, FS_CardinalityType
      <4>5. QED
        BY <3>2, <4>3, <4>4, ReDecayAssumption
    <3>3. QED
      BY <1>1, <3>1, <3>2 DEF MayBeOriginal
  <2>4. /\ Cardinality(InUse)' <= Cardinality(InUse \cup {e})
        /\ Cardinality(InUse)' \in Nat /\ Cardinality(InUse \cup {e}) \in Nat
    BY <2>1, <2>2, FS_Subset, FS_CardinalityType
  <2>5. QED
    BY <2>3, <2>4, ReDecayAssumption DEF OriginalsBounded, InUse
<1>12. QED
  BY <1>9, <1>10, <1>11 DEF BoundsInv

\* A redecay takes one free use.
LEMMA ReuseBounds ==
  ASSUME ReuseInv, BoundsInv, NEW e \in Events, NEW o \in Events,
         ReuseOriginal(e, o)
  PROVE  BoundsInv'
<1>1. /\ pc[e] = "entering"
      /\ org' = [org EXCEPT ![e] = o]
      /\ toprocess' = [toprocess EXCEPT ![o] = @ - 1]
      /\ available' = available
  BY DEF ReuseOriginal, Goto
<1>2. o \in available /\ toprocess[o] \in 1..NRedecay
  BY ReDecayAssumption
     DEF ReuseOriginal, Candidates, Completed, ReuseInv, TypeOK
<1>3. /\ org[e] = NoEvent /\ NoEvent \notin Events /\ o # e
  BY <1>1, <1>2, ReDecayAssumption DEF ReuseInv, TokenOK, CountersOK, Originals
<1>4. /\ Originals' = Originals
      /\ Tokens' = Tokens \cup {e} /\ e \notin Tokens
  BY <1>1, <1>3 DEF Originals, Tokens, ReuseInv, TypeOK
<1>5. FreeUses' = FreeUses \ {<<o, toprocess[o]>>}
      /\ <<o, toprocess[o]>> \in FreeUses
  <2>1. /\ toprocess'[o] = toprocess[o] - 1
        /\ \A q \in available : q # o => toprocess'[q] = toprocess[q]
    BY <1>1 DEF ReuseInv, TypeOK
  <2>2. \A n \in 1..NRedecay : n <= toprocess[o] - 1
                                 <=> n <= toprocess[o] /\ n # toprocess[o]
    BY <1>2, ReDecayAssumption
  <2>3. QED
    BY <1>1, <1>2, <2>1, <2>2 DEF FreeUses
<1>6. /\ Cardinality(Tokens)' = Cardinality(Tokens) + 1
      /\ QueuedEvents' = QueuedEvents - 1
  BY <1>4, <1>5, CountsFinite, FS_AddElement, FS_RemoveElement DEF QueuedEvents
<1>7. InUse' \subseteq InUse
  BY <1>1, <1>2 DEF InUse, ReuseInv, TypeOK
<1>8. Cardinality(InUse)' <= Cardinality(InUse)
      /\ Cardinality(InUse)' \in Nat /\ Cardinality(InUse) \in Nat
  BY <1>7, CountsFinite, FS_Subset, FS_CardinalityType
<1>9. UsesOK'
  BY <1>4, <1>6, CountsFinite DEF BoundsInv, UsesOK
<1>10. QED
  BY <1>4, <1>8, <1>9, ReDecayAssumption
     DEF BoundsInv, NoSuperfluousOriginal, OriginalsBounded, InUse

LEMMA BoundsStep ==
  ASSUME ReuseInv, ProcessedOK, BoundsInv, [Next]_vars
  PROVE  BoundsInv'
<1>1. ASSUME NEW e \in Events, ClearStore(e) PROVE BoundsInv'
  <2>1. /\ org' = org /\ toprocess' = toprocess
        /\ available' = IF tofinish[org[e]] = 1 THEN available \ {org[e]}
                        ELSE available
        /\ pc[e] \in {"simulated", "failed"}
    BY <1>1 DEF ClearStore, RemoveToken, Goto
  <2>2. tofinish[org[e]] = 1 => toprocess[org[e]] = 0
    <3>1. org[e] \in Originals /\ org[e] \in Events /\ e \in Users(org[e])
      BY <2>1 DEF ReuseInv, TokenOK, TypeOK, Originals, Users, Gone
    <3>2. /\ Cardinality(Users(org[e])) \in Nat
          /\ Cardinality(Users(org[e])) # 0
      BY <3>1, UsersFinite, FS_EmptySet
    <3>3. tofinish[org[e]] = toprocess[org[e]] + Cardinality(Users(org[e]))
      BY <3>1 DEF ReuseInv, CountersOK
    <3>4. toprocess[org[e]] \in Nat
      BY <3>1 DEF ReuseInv, TypeOK
    <3>5. QED
      BY <3>2, <3>3, <3>4
  <2>3. QED
    BY <2>1, <2>2, NoUseStep
<1>2. ASSUME NEW e \in Events, ~ClearStore(e), ~MakeOriginal(e),
             \A o \in Events : ~ReuseOriginal(e, o),
             EventStep(e) \/ StartEvent(e) \/ FailAlgorithm(e)
      PROVE  BoundsInv'
  <2>1. UNCHANGED <<org, toprocess, available>>
    BY <1>2
    DEF EventStep, StartEvent, FailAlgorithm, EnterObtainToken, AwaitOriginal,
        StoreOriginalHepMC, StoreOriginalSimResult, BeginGetHepMC, EndGetHepMC,
        BeginGetSimResult, EndGetSimResult, BeginLookUp, EndLookUp, svcVars
  <2>2. QED
    BY <2>1, NoUseStep
<1>3. CASE UNCHANGED vars
  BY <1>3, NoUseStep DEF vars, svcVars
<1>4. QED
  BY <1>1, <1>2, <1>3, MakeBounds, ReuseBounds DEF Next, Terminated

LEMMA BoundsInvariant == Spec => []BoundsInv
<1>1. Init => BoundsInv
  <2> SUFFICES ASSUME Init PROVE BoundsInv
    OBVIOUS
  <2>1. /\ Originals = {} /\ Tokens = {} /\ FreeUses = {} /\ InUse = {}
    BY ReDecayAssumption DEF Init, Originals, Tokens, FreeUses, InUse
  <2>2. /\ Cardinality(Originals) = 0 /\ Cardinality(Tokens) = 0
        /\ QueuedEvents = 0 /\ Cardinality(InUse) = 0
    BY <2>1, FS_EmptySet DEF QueuedEvents
  <2>3. QED
    BY <2>2, ReDecayAssumption
       DEF BoundsInv, UsesOK, NoSuperfluousOriginal, OriginalsBounded, InUse
<1>2. ReuseInv /\ ProcessedOK /\ BoundsInv /\ [Next]_vars => BoundsInv'
  BY BoundsStep
<1>3. QED
  BY <1>1, <1>2, ReuseInvariant, ProcessedInvariant, PTL DEF Spec

\* obtainToken makes no more originals than the events of the job need.
THEOREM NoOriginalIsSuperfluous == Spec => []NoSuperfluousOriginal
<1>1. BoundsInv => NoSuperfluousOriginal
  BY DEF BoundsInv
<1>2. QED
  BY <1>1, BoundsInvariant, PTL

\* No more originals than ParallelOriginal wait to be reused.
THEOREM OriginalsAreBounded == Spec => []OriginalsBounded
<1>1. BoundsInv => OriginalsBounded
  BY DEF BoundsInv
<1>2. QED
  BY <1>1, BoundsInvariant, PTL

-----------------------------------------------------------------------------
(* The refinement of EventReuse.                                           *)

\* All events that have ever used o, the ones that have ended included.
Served(o) == {f \in Events : org[f] = o}

\* The uses taken from an original are those it has served.
ServedOK == \A o \in Originals : toprocess[o] + Cardinality(Served(o)) = NRedecay

\* Who is about to succeed has found the results of its original, and they
\* are still there.
ResultOK == \A e \in Events : pc[e] = "simulated" => org[e] \in simresult

PromiseInv == ServedOK /\ ResultOK

LEMMA ServedFinite ==
  \A o : IsFiniteSet(Served(o)) /\ Cardinality(Served(o)) \in Nat
<1>1. \A o : Served(o) \subseteq Events
  BY DEF Served
<1>2. QED
  BY <1>1, ReDecayAssumption, FS_Subset, FS_CardinalityType

\* The two ways to take a use, and the steps that take none.
LEMMA ServedStep ==
  ASSUME ReuseInv, ServedOK, [Next]_vars PROVE ServedOK'
<1> USE DEF ReuseInv
<1>1. ASSUME NEW e \in Events, MakeOriginal(e) PROVE ServedOK'
  <2>1. /\ org' = [org EXCEPT ![e] = e] /\ pc[e] = "entering"
        /\ toprocess' = [toprocess EXCEPT ![e] = NRedecay - 1]
    BY <1>1 DEF MakeOriginal, Goto
  <2>2. org[e] = NoEvent /\ \A f \in Events : org[f] # e
    BY <2>1, ReDecayAssumption DEF TokenOK
  <2>3. Served(e)' = {e} /\ \A o \in Originals : Served(o)' = Served(o) /\ o # e
    BY <2>1, <2>2, ReDecayAssumption DEF Served, TypeOK, Originals
  <2>4. Cardinality(Served(e)') = 1
    BY <2>3, FS_Singleton
  <2>5. Originals' = Originals \cup {e}
    BY <2>1, <2>2 DEF Originals, TypeOK
  <2>6. /\ toprocess'[e] = NRedecay - 1
        /\ \A o \in Originals : toprocess'[o] = toprocess[o]
    BY <2>1, <2>3 DEF TypeOK, Originals
  <2>7. NRedecay - 1 + 1 = NRedecay
    BY ReDecayAssumption
  <2>8. ASSUME NEW o \in Originals'
        PROVE  toprocess'[o] + Cardinality(Served(o)') = NRedecay
    <3>1. CASE o = e
      BY <3>1, <2>4, <2>6, <2>7
    <3>2. CASE o \in Originals
      BY <3>2, <2>3, <2>6 DEF ServedOK
    <3>3. QED
      BY <2>5, <2>8, <3>1, <3>2
  <2>9. QED
    BY <2>8 DEF ServedOK
<1>2. ASSUME NEW e \in Events, NEW o \in Events, ReuseOriginal(e, o)
      PROVE  ServedOK'
  <2>1. /\ org' = [org EXCEPT ![e] = o] /\ pc[e] = "entering"
        /\ toprocess' = [toprocess EXCEPT ![o] = @ - 1]
        /\ o \in available /\ toprocess[o] \in Nat
    BY <1>2 DEF ReuseOriginal, Goto, Candidates, Completed, TypeOK
  <2>2. org[e] = NoEvent /\ o \in Originals /\ o # e
    BY <2>1, ReDecayAssumption DEF TokenOK, CountersOK, Originals
  <2>3. /\ Served(o)' = Served(o) \cup {e} /\ e \notin Served(o)
        /\ \A q \in Originals : q # o => Served(q)' = Served(q)
    BY <2>1, <2>2, ReDecayAssumption DEF Served, TypeOK, Originals
  <2>4. Cardinality(Served(o)') = Cardinality(Served(o)) + 1
    BY <2>3, ServedFinite, FS_AddElement
  <2>5. Originals' = Originals
    BY <2>1, <2>2, ReDecayAssumption DEF Originals, TypeOK
  <2>6. toprocess'[o] + Cardinality(Served(o)') = NRedecay
    BY <2>1, <2>2, <2>4, ServedFinite DEF ServedOK, TypeOK
  <2>7. ASSUME NEW q \in Originals, q # o
        PROVE  toprocess'[q] + Cardinality(Served(q)') = NRedecay
    <3>1. toprocess'[q] = toprocess[q]
      BY <2>1, <2>7 DEF TypeOK, Originals
    <3>2. QED
      BY <2>3, <2>7, <3>1 DEF ServedOK
  <2>8. QED
    BY <2>5, <2>6, <2>7 DEF ServedOK
<1>3. ASSUME UNCHANGED <<org, toprocess>> PROVE ServedOK'
  BY <1>3 DEF ServedOK, Served, Originals
<1>4. ASSUME NEW e \in Events, ~MakeOriginal(e),
             \A o \in Events : ~ReuseOriginal(e, o),
             EventStep(e) \/ StartEvent(e) \/ FailAlgorithm(e)
      PROVE  UNCHANGED <<org, toprocess>>
  BY <1>4
  DEF EventStep, StartEvent, FailAlgorithm, EnterObtainToken, AwaitOriginal,
      StoreOriginalHepMC, StoreOriginalSimResult, BeginGetHepMC, EndGetHepMC,
      BeginGetSimResult, EndGetSimResult, BeginLookUp, EndLookUp, ClearStore,
      svcVars
<1>5. QED
  BY <1>1, <1>2, <1>3, <1>4 DEF Next, Terminated, vars, svcVars

\* An original with two tokens in flight is not at its last use.
LEMMA TwoUsers ==
  ASSUME ReuseInv, NEW e \in Events, NEW f \in Events, e # f,
         org[e] # NoEvent, org[f] = org[e], pc[e] \notin Gone, pc[f] \notin Gone
  PROVE  tofinish[org[e]] # 1
<1> USE DEF ReuseInv
<1> DEFINE o == org[e]
<1>1. o \in Originals /\ o \in Events /\ e \in Users(o) /\ f \in Users(o) \ {e}
  BY DEF TokenOK, TypeOK, Originals, Users
<1>2. IsFiniteSet(Users(o)) /\ Cardinality(Users(o)) \in Nat
  BY <1>1, UsersFinite
<1>3. IsFiniteSet(Users(o) \ {e})
  BY <1>2, FS_RemoveElement
<1>4. Cardinality(Users(o) \ {e}) = Cardinality(Users(o)) - 1
  BY <1>1, <1>2, FS_RemoveElement
<1>5. Cardinality(Users(o) \ {e}) \in Nat /\ Cardinality(Users(o) \ {e}) # 0
  BY <1>1, <1>3, FS_CardinalityType, FS_EmptySet
<1>6. tofinish[o] = toprocess[o] + Cardinality(Users(o)) /\ toprocess[o] \in Nat
  BY <1>1 DEF CountersOK, TypeOK
<1>7. QED
  BY <1>2, <1>4, <1>5, <1>6

\* The results outlast everyone who is about to use them.
LEMMA ResultStep ==
  ASSUME ReuseInv, ResultOK, [Next]_vars PROVE ResultOK'
<1> USE DEF ReuseInv
<1>1. ASSUME NEW e \in Events, NEW to,
             pc' = [pc EXCEPT ![e] = to], pc[e] # "simulated" \/ to = "failed",
             to # "simulated", simresult' = simresult,
             \A f \in Events : f # e => org'[f] = org[f]
      PROVE  ResultOK'
  <2>1. pc'[e] = to /\ \A f \in Events : f # e => pc'[f] = pc[f]
    BY <1>1 DEF TypeOK
  <2>2. QED
    BY <1>1, <2>1 DEF ResultOK
<1>2. ASSUME NEW e \in Events,
             \/ StartEvent(e) \/ EnterObtainToken(e) \/ MakeOriginal(e)
             \/ \E o \in Events : ReuseOriginal(e, o)
             \/ AwaitOriginal(e) \/ StoreOriginalHepMC(e)
             \/ BeginGetHepMC(e) \/ EndGetHepMC(e) \/ BeginGetSimResult(e)
             \/ FailAlgorithm(e)
      PROVE  ResultOK'
  <2>1. PICK to : /\ pc' = [pc EXCEPT ![e] = to]
                  /\ pc[e] # "simulated" \/ to = "failed"
                  /\ to # "simulated"
    BY <1>2
    DEF StartEvent, EnterObtainToken, MakeOriginal, ReuseOriginal, Goto,
        AwaitOriginal, StoreOriginalHepMC, BeginGetHepMC, BeginGetSimResult,
        EndGetHepMC, BeginLookUp, EndLookUp, FailAlgorithm
  <2>2. simresult' = simresult /\ \A f \in Events : f # e => org'[f] = org[f]
    BY <1>2
    DEF StartEvent, EnterObtainToken, MakeOriginal, ReuseOriginal, dataVars,
        AwaitOriginal, StoreOriginalHepMC, BeginGetHepMC, BeginGetSimResult,
        EndGetHepMC, BeginLookUp, EndLookUp, FailAlgorithm, TypeOK
  <2>3. QED
    BY <1>1, <2>1, <2>2
<1>3. ASSUME NEW e \in Events, StoreOriginalSimResult(e) PROVE ResultOK'
  BY <1>3
  DEF StoreOriginalSimResult, Goto, IsOriginal, ResultOK, TypeOK
<1>4. ASSUME NEW e \in Events, EndGetSimResult(e) PROVE ResultOK'
  <2>1. simresult' = simresult /\ org' = org
    BY <1>4 DEF EndGetSimResult, EndLookUp, dataVars
  <2>2. CASE pc' = [pc EXCEPT ![e] = "failed"]
    BY <1>1, <2>1, <2>2
  <2>3. CASE pc' = [pc EXCEPT ![e] = "simulated"] /\ org[e] \in simresult
    BY <2>1, <2>3 DEF ResultOK, TypeOK
  <2>4. QED
    BY <1>4, <2>2, <2>3 DEF EndGetSimResult, EndLookUp, Goto
<1>5. ASSUME NEW e \in Events, ClearStore(e) PROVE ResultOK'
  <2>1. /\ org' = org /\ pc[e] \in {"simulated", "failed"}
        /\ \E to \in Gone : pc' = [pc EXCEPT ![e] = to]
        /\ simresult' = IF tofinish[org[e]] = 1 THEN simresult \ {org[e]}
                        ELSE simresult
    BY <1>5 DEF ClearStore, RemoveToken, Goto, Gone
  <2>2. ASSUME NEW f \in Events, pc'[f] = "simulated"
        PROVE  org'[f] \in simresult'
    <3>1. f # e /\ pc[f] = "simulated"
      BY <2>1, <2>2 DEF TypeOK, Gone
    <3>2. org[f] \in simresult
      BY <3>1 DEF ResultOK
    <3>3. pc[e] \notin Gone /\ pc[f] \notin Gone
      BY <2>1, <3>1 DEF Gone
    <3>4. org[e] # NoEvent
      BY <2>1 DEF TokenOK
    <3>5. tofinish[org[e]] = 1 => org[f] # org[e]
      BY <3>1, <3>3, <3>4, TwoUsers
    <3>6. QED
      BY <2>1, <3>2, <3>5
  <2>3. QED
    BY <2>2 DEF ResultOK
<1>6. CASE UNCHANGED vars
  BY <1>6 DEF ResultOK, vars, svcVars, dataVars
<1>7. QED
  BY <1>2, <1>3, <1>4, <1>5, <1>6 DEF Next, EventStep, Terminated

LEMMA PromiseInvariant == Spec => []PromiseInv
<1>1. Init => PromiseInv
  BY ReDecayAssumption DEF Init, PromiseInv, ServedOK, ResultOK, Originals
<1>2. ReuseInv /\ PromiseInv /\ [Next]_vars => PromiseInv'
  BY ServedStep, ResultStep DEF PromiseInv
<1>3. QED
  BY <1>1, <1>2, ReuseInvariant, PTL DEF Spec

\* The uses of an original that EventReuse counts.
LEMMA UsesServed ==
  \A o : /\ Service!Uses(o) = Served(o)
         /\ Service!Cardinality(Service!Uses(o)) = Cardinality(Served(o))
<1>1. \A S : Service!Cardinality(S) = Cardinality(S)
  BY DEF Service!Cardinality, Cardinality
<1>2. QED
  BY <1>1 DEF Service!Uses, Served

Stages == [e \in Events |-> Stage(e)]

\* One event moves.
LEMMA StagesMove ==
  ASSUME TypeOK, NEW e \in Events, NEW to \in EventStates,
         pc' = [pc EXCEPT ![e] = to]
  PROVE  Stages' = [Stages EXCEPT ![e] = Stage(e)'] /\ pc'[e] = to
<1>1. pc'[e] = to /\ \A f \in Events : f # e => pc'[f] = pc[f]
  BY DEF TypeOK
<1>2. \A f \in Events : f # e => Stage(f)' = Stage(f)
  BY <1>1 DEF Stage
<1>3. /\ Stages = [f \in Events |-> Stage(f)]
      /\ Stages' = [f \in Events |-> Stage(f)']
  BY DEF Stages
<1>4. \A f \in Events :
        Stage(f)' = IF f = e THEN Stage(e)' ELSE Stage(f)
  BY <1>2
<1>5. Stages' = [f \in Events |-> IF f = e THEN Stage(e)' ELSE Stages[f]]
  BY <1>3, <1>4
<1>6. QED
  BY <1>1, <1>3, <1>5

\* The token that EventReuse takes for the last is the one with which the
\* counter of unfinished uses reaches zero.
LEMMA LastUseCounted ==
  ASSUME ReuseInv, PromiseInv, NEW e \in Events,
         org[e] # NoEvent, pc[e] \notin Gone
  PROVE  Service!LastUse(e, org[e]) <=> tofinish[org[e]] = 1
<1> USE DEF ReuseInv
<1> DEFINE o == org[e]
<1>1. o \in Originals /\ o \in Events /\ e \in Users(o)
  BY DEF TokenOK, TypeOK, Originals, Users
<1>2. /\ tofinish[o] = toprocess[o] + Cardinality(Users(o))
      /\ toprocess[o] + Cardinality(Served(o)) = NRedecay
      /\ toprocess[o] \in Nat
  BY <1>1 DEF CountersOK, PromiseInv, ServedOK, TypeOK
<1>3. IsFiniteSet(Users(o)) /\ Cardinality(Users(o)) \in Nat
  BY <1>1, UsersFinite
<1>4. IsFiniteSet(Users(o) \ {e}) /\ Cardinality(Users(o) \ {e}) \in Nat
      /\ Cardinality(Users(o) \ {e}) = Cardinality(Users(o)) - 1
  <2>1. IsFiniteSet(Users(o) \ {e})
    BY <1>3, FS_RemoveElement
  <2>2. Cardinality(Users(o) \ {e}) = Cardinality(Users(o)) - 1
    BY <1>1, <1>3, FS_RemoveElement
  <2>3. QED
    BY <2>1, <2>2, FS_CardinalityType
<1>5. Users(o) \ {e} = {} <=> Cardinality(Users(o)) = 1
  <2>1. Users(o) \ {e} = {} <=> Cardinality(Users(o) \ {e}) = 0
    BY <1>4, FS_EmptySet
  <2>2. QED
    BY <1>3, <1>4, <2>1
<1>6. (\A f \in Served(o) \ {e} : Stages[f] \in {"done", "dropped"})
        <=> Users(o) \ {e} = {}
  <2>1. \A f \in Events : Stages[f] \in {"done", "dropped"} <=> pc[f] \in Gone
    BY DEF Stages, Stage, Gone
  <2>2. Users(o) = {f \in Served(o) : pc[f] \notin Gone}
    BY DEF Users, Served
  <2>3. Served(o) \subseteq Events
    BY DEF Served
  <2>4. QED
    BY <2>1, <2>2, <2>3
<1>7. Service!LastUse(e, o)
        <=> Cardinality(Served(o)) = NRedecay /\ Users(o) \ {e} = {}
  BY <1>6, UsesServed DEF Service!LastUse, Service!Ended, Stages
<1>8. Cardinality(Users(o)) >= 1
  BY <1>3, <1>4
<1>9. Cardinality(Served(o)) \in Nat /\ NRedecay \in Nat
  BY ServedFinite, ReDecayAssumption
<1>10. QED
  BY <1>2, <1>3, <1>5, <1>7, <1>8, <1>9

\* Every step of the service is one of EventReuse, or invisible in it.
LEMMA ServiceStep ==
  ASSUME ReuseInv, PromiseInv, [Next]_vars
  PROVE  [Service!Next]_(Service!vars)
<1> USE DEF ReuseInv
<1> DEFINE Quiet == /\ org' = org /\ available' = available
                    /\ simresult' = simresult /\ Stages' = Stages
<1>1. ASSUME Quiet PROVE [Service!Next]_(Service!vars)
  BY <1>1 DEF Service!vars, Stages
<1>2. ASSUME NEW e \in Events, NEW to \in EventStates,
             pc' = [pc EXCEPT ![e] = to],
             \/ {pc[e], to} \subseteq {"waiting", "ready", "entering"}
             \/ {pc[e], to} \cap ({"waiting", "ready", "entering", "awaiting"}
                                  \cup Gone) = {}
      PROVE  Stages' = Stages
  <2>1. Stages' = [Stages EXCEPT ![e] = Stage(e)'] /\ pc'[e] = to
    BY <1>2, StagesMove
  <2>2. Stage(e)' = Stage(e)
    BY <1>2, <2>1 DEF Stage, Gone
  <2>3. QED
    BY <1>2, <2>1, <2>2 DEF Stages
<1>3. ASSUME NEW e \in Events,
             \/ StartEvent(e) \/ EnterObtainToken(e)
             \/ StoreOriginalHepMC(e) \/ BeginGetHepMC(e) \/ EndGetHepMC(e)
             \/ BeginGetSimResult(e) \/ EndGetSimResult(e) \/ FailAlgorithm(e)
      PROVE  Quiet
  <2>1. PICK to \in EventStates :
          /\ pc' = [pc EXCEPT ![e] = to]
          /\ \/ {pc[e], to} \subseteq {"waiting", "ready", "entering"}
             \/ {pc[e], to} \cap ({"waiting", "ready", "entering", "awaiting"}
                                  \cup Gone) = {}
    BY <1>3
    DEF StartEvent, EnterObtainToken, StoreOriginalHepMC, BeginGetHepMC,
        BeginGetSimResult, EndGetHepMC,
        EndGetSimResult, BeginLookUp, EndLookUp, FailAlgorithm, Goto,
        EventStates, Gone
  <2>2. org' = org /\ available' = available /\ simresult' = simresult
    BY <1>3
    DEF StartEvent, EnterObtainToken, StoreOriginalHepMC, BeginGetHepMC,
        BeginGetSimResult, EndGetHepMC,
        EndGetSimResult, BeginLookUp, EndLookUp, FailAlgorithm, svcVars, dataVars
  <2>3. QED
    BY <1>2, <2>1, <2>2
<1>4. ASSUME NEW e \in Events, MakeOriginal(e)
      PROVE  Service!BecomeOriginal(e)
  <2>1. /\ pc[e] = "entering" /\ pc' = [pc EXCEPT ![e] = "token"]
        /\ org' = [org EXCEPT ![e] = e] /\ available' = available \cup {e}
        /\ simresult' = simresult
    BY <1>4 DEF MakeOriginal, Goto, dataVars
  <2>2. Stages' = [Stages EXCEPT ![e] = Stage(e)'] /\ pc'[e] = "token"
    BY <2>1, StagesMove DEF EventStates
  <2>3. Stages[e] = "new" /\ Stage(e)' = "works"
    BY <2>1, <2>2 DEF Stages, Stage, Gone
  <2>4. QED
    BY <2>1, <2>2, <2>3 DEF Service!BecomeOriginal, Service!Advance, Stages
<1>5. ASSUME NEW e \in Events, NEW o \in Events, ReuseOriginal(e, o)
      PROVE  Service!Reuse(e, o)
  <2>1. /\ pc[e] = "entering" /\ pc' = [pc EXCEPT ![e] = "awaiting"]
        /\ org' = [org EXCEPT ![e] = o] /\ available' = available
        /\ o \in available /\ toprocess[o] > 0 /\ simresult' = simresult
    BY <1>5 DEF ReuseOriginal, Goto, Candidates, Completed, dataVars
  <2>2. Stages' = [Stages EXCEPT ![e] = Stage(e)'] /\ pc'[e] = "awaiting"
    BY <2>1, StagesMove DEF EventStates
  <2>3. Stages[e] = "new" /\ Stage(e)' = "waits"
    BY <2>1, <2>2 DEF Stages, Stage, Gone
  <2>4. Service!Cardinality(Service!Uses(o)) < NRedecay
    <3>1. o \in Originals /\ toprocess[o] \in Nat
      BY <2>1 DEF CountersOK, Originals, TypeOK
    <3>2. toprocess[o] + Cardinality(Served(o)) = NRedecay
      BY <3>1 DEF PromiseInv, ServedOK
    <3>3. Cardinality(Served(o)) < NRedecay
      BY <2>1, <3>1, <3>2, ServedFinite, ReDecayAssumption
    <3>4. QED
      BY <3>3, UsesServed
  <2>5. QED
    BY <2>1, <2>2, <2>3, <2>4 DEF Service!Reuse, Service!Advance, Stages
<1>6. ASSUME NEW e \in Events, AwaitOriginal(e) PROVE Service!Wake(e)
  <2>1. /\ pc[e] = "awaiting" /\ pc' = [pc EXCEPT ![e] = "token"]
        /\ org[e] \in promised /\ org' = org /\ available' = available
        /\ simresult' = simresult
    BY <1>6 DEF AwaitOriginal, Goto, svcVars, dataVars
  <2>2. Stages' = [Stages EXCEPT ![e] = Stage(e)'] /\ pc'[e] = "token"
    BY <2>1, StagesMove DEF EventStates
  <2>3. Stages[e] = "waits" /\ Stage(e)' = "works"
    BY <2>1, <2>2 DEF Stages, Stage, Gone
  <2>4. org[e] \in Events /\ pc[org[e]] \in Gone
    BY <2>1 DEF TokenOK, TypeOK
  <2>5. Stages[org[e]] \in {"done", "dropped"}
    BY <2>4 DEF Stages, Stage, Gone
  <2>6. QED
    BY <2>1, <2>2, <2>3, <2>5
    DEF Service!Wake, Service!Advance, Service!Ended, Stages
<1>7. ASSUME NEW e \in Events, ClearStore(e)
      PROVE  \E how \in Service!Ended : Service!End(e, how)
  <2>1. PICK how \in {"done", "dropped"} :
          /\ pc' = [pc EXCEPT ![e] = how]
          /\ pc[e] = IF how = "done" THEN "simulated" ELSE "failed"
    BY <1>7 DEF ClearStore, Goto
  <2>2. /\ org' = org
        /\ available' = IF tofinish[org[e]] = 1 THEN available \ {org[e]}
                        ELSE available
        /\ simresult' = IF tofinish[org[e]] = 1 THEN simresult \ {org[e]}
                        ELSE simresult
    BY <1>7 DEF ClearStore, RemoveToken
  <2>3. Stages' = [Stages EXCEPT ![e] = Stage(e)'] /\ pc'[e] = how
    BY <2>1, StagesMove DEF EventStates
  <2>4. Stages[e] = "works" /\ Stage(e)' = how
    BY <2>1, <2>3 DEF Stages, Stage, Gone
  <2>5. org[e] # NoEvent /\ org[e] \in Events /\ pc[e] \notin Gone
    BY <2>1 DEF TokenOK, TypeOK, Gone
  <2>6. how = "done" => org[e] \in simresult
    BY <2>1 DEF PromiseInv, ResultOK
  <2>7. Service!LastUse(e, org[e]) <=> tofinish[org[e]] = 1
    BY <2>5, LastUseCounted
  <2>8. Service!End(e, how)
    BY <2>2, <2>3, <2>4, <2>6, <2>7 DEF Service!End, Service!Advance, Stages
  <2>9. QED
    BY <2>8 DEF Service!Ended
<1>8. ASSUME NEW e \in Events, StoreOriginalSimResult(e)
      PROVE  Service!Complete(e)
  <2>1. /\ pc[e] = "generated" /\ pc' = [pc EXCEPT ![e] = "simulated"]
        /\ org[e] = e /\ org' = org /\ available' = available
        /\ simresult' = simresult \cup {e}
    BY <1>8 DEF StoreOriginalSimResult, Goto, IsOriginal, svcVars
  <2>2. Stages' = Stages
    BY <1>2, <2>1 DEF EventStates, Gone
  <2>3. Stages[e] = "works"
    BY <2>1 DEF Stages, Stage, Gone
  <2>4. QED
    BY <2>1, <2>2, <2>3 DEF Service!Complete, Stages
<1>9. CASE UNCHANGED vars
  <2>1. Quiet
    BY <1>9 DEF vars, svcVars, dataVars, Stages, Stage
  <2>2. QED
    BY <1>1, <2>1
<1>10. QED
  BY <1>1, <1>3, <1>4, <1>5, <1>6, <1>7, <1>8, <1>9
  DEF Next, EventStep, Terminated, Service!Next

\* The ReDecay service implements EventReuse: whatever the order in which
\* events obtain and drop their tokens and whichever of them fail.
THEOREM ReDecayImplementsReuse == Spec => ImplementsReuse
<1>1. Init => Service!Init
  <2> SUFFICES ASSUME Init PROVE Service!Init
    OBVIOUS
  <2>1. \A e \in Events : Stage(e) = "new"
    BY DEF Init, Stage, Gone
  <2>2. [e \in Events |-> Stage(e)] = [e \in Events |-> "new"]
    BY <2>1
  <2>3. QED
    BY <2>2 DEF Init, Service!Init
<1>2. ReuseInv /\ PromiseInv /\ [Next]_vars => [Service!Next]_(Service!vars)
  BY ServiceStep
<1>3. QED
  BY <1>1, <1>2, ReuseInvariant, PromiseInvariant, PTL
  DEF Spec, ImplementsReuse, Service!Spec
=============================================================================
