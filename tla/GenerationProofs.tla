--------------------------- MODULE GenerationProofs ---------------------------
(* Theorems about the Generation algorithm, for any number of events,      *)
(* tries, interactions and repetitions.                                    *)
EXTENDS Generation, FiniteSetTheorems, SequenceTheorems, TLAPS

-----------------------------------------------------------------------------
(* The interactions of a try, and what the steps do to them.               *)

\* Where the tool is in its loop: at an interaction, or between two.
AtInteraction ==
  /\ pc \in {"hadronize", "look"} => theEvents # <<>>
  /\ pc = "generate" => Len(theEvents) < nPile
  /\ pc = "signal" => theEvents = <<>> /\ nPile > 0 /\ method = "Forced"
  /\ pc \in {"start", "signal", "look"} => ~good
  /\ pc \in {"accept", "accepted"} => good
  /\ pc = "generate" /\ method = "MinimumBias" => good
  /\ pc \in {"look", "hadronize"} => method # "MinimumBias"
  /\ pc = "hadronize" => method = "Repeated"
  /\ pc = "look" => nRepetitions < MaxRepetitions
  /\ method # "Repeated" => nRepetitions = 0

TypeInv == TypeOK /\ AtInteraction

\* The last interaction is changed to e.
LastBecomes(e) ==
  /\ theEvents' \in Seq(Interaction)
  /\ Len(theEvents') = Len(theEvents)
  /\ theEvents'[Len(theEvents)] = e
  /\ \A k \in 1..Len(theEvents) : k # Len(theEvents) => theEvents'[k] = theEvents[k]

\* A new last interaction e.
IsAppended(e) ==
  /\ theEvents' \in Seq(Interaction)
  /\ Len(theEvents') = Len(theEvents) + 1
  /\ theEvents'[Len(theEvents) + 1] = e
  /\ \A k \in 1..Len(theEvents) : theEvents'[k] = theEvents[k]

LEMMA CurrentType ==
  ASSUME TypeOK, theEvents # <<>>
  PROVE  Current \in Interaction /\ Len(theEvents) \in 1..Len(theEvents)
<1>1. theEvents \in Seq(Interaction)
  BY DEF TypeOK
<1>2. Len(theEvents) \in Nat /\ Len(theEvents) # 0
  BY <1>1, EmptySeq, LenProperties
<1>3. QED
  BY <1>1, <1>2, ElementOfSeq DEF Current

LEMMA LastChanged ==
  ASSUME TypeOK, theEvents # <<>>, NEW e \in Interaction,
         theEvents' = [theEvents EXCEPT ![Len(theEvents)] = e]
  PROVE  LastBecomes(e)
<1>1. theEvents \in Seq(Interaction) /\ Len(theEvents) \in 1..Len(theEvents)
  BY CurrentType DEF TypeOK
<1>2. QED
  BY <1>1, ExceptSeq DEF LastBecomes

\* Clear and hadronize keep what the method knows of the interaction.
RebuiltAs(e, partons, ok) ==
  /\ e \in Interaction
  /\ e.partons = partons /\ ~e.forced
  /\ e.level = (IF ok THEN "hadron" ELSE "empty")
  /\ e.signal = Current.signal /\ e.isSignal = Current.isSignal

LEMMA RebuiltStep ==
  ASSUME TypeOK, theEvents # <<>>, NEW partons \in PartonEvent, NEW ok \in BOOLEAN,
         Rebuilt(partons, ok)
  PROVE  \E e \in Interaction : RebuiltAs(e, partons, ok) /\ LastBecomes(e)
<1> DEFINE e == [Current EXCEPT !.partons = partons, !.forced = FALSE,
                                !.level = IF ok THEN "hadron" ELSE "empty"]
<1>1. Current \in Interaction
  BY CurrentType
<1>2. RebuiltAs(e, partons, ok)
  BY <1>1 DEF Interaction, RebuiltAs
<1>3. theEvents' = [theEvents EXCEPT ![Len(theEvents)] = e]
  BY DEF Rebuilt, Current
<1>4. LastBecomes(e)
  BY <1>2, <1>3, LastChanged DEF RebuiltAs
<1>5. QED
  BY <1>2, <1>4 DEF RebuiltAs

LEMMA ForcedStep ==
  ASSUME TypeOK, theEvents # <<>>, NEW b \in BOOLEAN,
         theEvents' = [theEvents EXCEPT ![Len(theEvents)].forced = b]
  PROVE  \E e \in Interaction :
           /\ e.partons = Current.partons /\ e.level = Current.level
           /\ e.signal = Current.signal /\ e.isSignal = Current.isSignal
           /\ e.forced = b
           /\ LastBecomes(e)
<1> DEFINE e == [Current EXCEPT !.forced = b]
<1>1. Current \in Interaction
  BY CurrentType
<1>2. /\ e \in Interaction
      /\ e.partons = Current.partons /\ e.level = Current.level
      /\ e.signal = Current.signal /\ e.isSignal = Current.isSignal
      /\ e.forced = b
  BY <1>1 DEF Interaction
<1>3. theEvents' = [theEvents EXCEPT ![Len(theEvents)] = e]
  BY DEF Current
<1>4. LastBecomes(e)
  BY <1>2, <1>3, LastChanged
<1>5. QED
  BY <1>2, <1>4

\* The interaction that is kept.
KeptAs(e) ==
  /\ e.partons = Current.partons /\ e.level = Current.level
  /\ e.signal /\ e.forced = (method # "Inclusive")
  /\ e.isSignal = (Current.isSignal \/ method # "Repeated")

LEMMA KeptStep ==
  ASSUME TypeOK, theEvents # <<>>,
         theEvents' = [theEvents EXCEPT ![Len(theEvents)] =
                     [@ EXCEPT !.signal = TRUE, !.forced = method # "Inclusive",
                               !.isSignal = Current.isSignal \/ method # "Repeated"]]
  PROVE  \E e \in Interaction : KeptAs(e) /\ LastBecomes(e)
<1> DEFINE e == [Current EXCEPT !.signal = TRUE, !.forced = method # "Inclusive",
                               !.isSignal = Current.isSignal \/ method # "Repeated"]
<1>1. Current \in Interaction
  BY CurrentType
<1>2. e \in Interaction /\ KeptAs(e)
  BY <1>1 DEF Interaction, KeptAs
<1>3. theEvents' = [theEvents EXCEPT ![Len(theEvents)] = e]
  BY DEF Current
<1>4. LastBecomes(e)
  BY <1>2, <1>3, LastChanged
<1>5. QED
  BY <1>2, <1>4

LEMMA AppendStep ==
  ASSUME TypeOK, NEW e \in Interaction, theEvents' = Append(theEvents, e)
  PROVE  IsAppended(e)
BY AppendProperties DEF TypeOK, IsAppended

LEMMA NoEvents ==
  ASSUME theEvents' = <<>>
  PROVE  theEvents' \in Seq(Interaction) /\ Len(theEvents') = 0
BY EmptySeq

-----------------------------------------------------------------------------
(* Types, and the place in the loop over the interactions.                 *)

\* The counters of the record stay natural numbers.
LEMMA CountType ==
  ASSUME TypeOK, NEW cs, Count(cs)
  PROVE  n' \in [Counters -> Nat]
BY DEF TypeOK, Count

LEMMA NextType ==
  ASSUME TypeOK, NEW k \in Nat, k <= nPile
  PROVE  /\ NextInteraction(k) \in {"account", "generate"}
         /\ NextInteraction(k) = "generate" => k < nPile
BY DEF TypeOK, NextInteraction

LEMMA StartTryType ==
  ASSUME TypeInv, NEW k \in 0..MaxPile, StartTry(k)
  PROVE  TypeInv'
<1>1. theEvents' \in Seq(Interaction) /\ Len(theEvents') = 0
  BY NoEvents DEF StartTry
<1>2. good' \in BOOLEAN
  BY Zenon DEF StartTry
<1>3. TypeOK'
  BY <1>1, <1>2, GenerationAssumption DEF TypeInv, TypeOK, StartTry, config, pythia
<1>4. good' <=> k = 0 \/ method = "MinimumBias"
  BY Zenon DEF StartTry
<1>5. k = 0 => pc' = "account"
  BY DEF StartTry
<1>6. AtInteraction'
  BY <1>1, <1>4, <1>5 DEF TypeInv, TypeOK, AtInteraction, StartTry, config
<1>7. QED
  BY <1>3, <1>6 DEF TypeInv

LEMMA DecayAtRestType ==
  ASSUME TypeInv, DecaySignalAtRest
  PROVE  TypeInv'
<1>1. TypeOK'
  BY DEF TypeInv, TypeOK, DecaySignalAtRest, config, position, pythia
<1>2. Len(<<>>) = 0
  BY EmptySeq
<1>3. AtInteraction'
  BY <1>2 DEF TypeInv, AtInteraction, DecaySignalAtRest, config, position
<1>4. QED
  BY <1>1, <1>3 DEF TypeInv

LEMMA GenerateType ==
  ASSUME TypeInv, NEW quark \in BOOLEAN, Generate(quark)
  PROVE  /\ TypeInv'
         /\ \E e \in Interaction :
              /\ e.partons = [origin |-> <<event, tries, Len(theEvents) + 1>>,
                              quark |-> quark]
              /\ record' = e.partons
              /\ ~e.signal /\ ~e.forced
              /\ e.level = (IF PartonLevel THEN "parton" ELSE "hadron")
              /\ method # "Repeated" => ~e.isSignal
              /\ IsAppended(e)
<1> DEFINE k == Len(theEvents) + 1
           p == [origin |-> <<event, tries, k>>, quark |-> quark]
           e == [partons |-> p, signal |-> FALSE, forced |-> FALSE,
                 level |-> IF PartonLevel THEN "parton" ELSE "hadron",
                 isSignal |-> PartonLevel /\ k = 1]
<1>1. Len(theEvents) \in Nat /\ k \in 1..nPile /\ nPile \in 0..MaxPile
  BY LenProperties DEF TypeInv, TypeOK, AtInteraction, Generate
<1>2. p \in PartonEvent /\ p.origin = <<event, tries, k>>
  <2>1. event \in 0..Events /\ tries \in 0..MaxTries /\ k \in 0..MaxPile
    BY <1>1, GenerationAssumption DEF TypeInv, TypeOK
  <2>2. QED
    BY <2>1 DEF PartonEvent, Origins
<1>3. /\ e \in Interaction /\ e.partons = p /\ ~e.signal /\ ~e.forced
      /\ e.level = (IF PartonLevel THEN "parton" ELSE "hadron")
      /\ method # "Repeated" => ~e.isSignal
  BY <1>2 DEF Interaction, PartonLevel
<1>4. record' = p /\ theEvents' = Append(theEvents, e)
  BY DEF Generate
<1>5. IsAppended(e)
  BY <1>3, <1>4, AppendStep DEF TypeInv
<1>6. Len(theEvents') = k /\ theEvents' # <<>>
  BY <1>1, <1>5, EmptySeq DEF IsAppended
<1>7. /\ pc' = IF method = "Repeated" /\ ~(good /\ mt) THEN "hadronize"
                ELSE IF good THEN NextInteraction(k) ELSE "look"
      /\ pc = "generate" /\ gen' = "ready"
      /\ UNCHANGED <<config, position, good, nRepetitions, saved, intCounter, n>>
  BY DEF Generate
<1>8. NextInteraction(k) \in {"account", "generate"}
         /\ (NextInteraction(k) = "generate" => k < nPile)
  BY <1>1, NextType DEF TypeInv
<1>9. TypeOK'
  BY <1>1, <1>2, <1>4, <1>5, <1>6, <1>7, <1>8
     DEF TypeInv, TypeOK, IsAppended, config, position
<1>10. AtInteraction'
  BY <1>6, <1>7, <1>8, GenerationAssumption
     DEF TypeInv, TypeOK, AtInteraction, config, position
<1>11. QED
  BY <1>3, <1>4, <1>5, <1>9, <1>10 DEF TypeInv

LEMMA FailsType ==
  ASSUME TypeInv, GenerateFails
  PROVE  TypeInv'
<1>1. gen' \in {"none", "raw", "ready"}
  BY DEF TypeInv, TypeOK, GenerateFails
<1>2. TypeOK'
  BY <1>1 DEF TypeInv, TypeOK, GenerateFails, config, position
<1>3. AtInteraction'
  BY DEF TypeInv, AtInteraction, GenerateFails, config, position
<1>4. QED
  BY <1>2, <1>3 DEF TypeInv

\* A step that changes the last interaction and goes on.
LEMMA LastType ==
  ASSUME TypeInv, NEW e \in Interaction, LastBecomes(e),
         theEvents # <<>>, pc \in {"hadronize", "look"},
         UNCHANGED <<config, position>>,
         good' \in BOOLEAN, record' \in PartonEvent, saved' \in PartonEvent,
         gen' = gen, intCounter' = intCounter, n' \in [Counters -> Nat],
         nRepetitions' \in 0..MaxRepetitions,
         method # "Repeated" => nRepetitions' = 0,
         \/ pc' = NextInteraction(Len(theEvents))
         \/ pc' = "look" /\ nRepetitions' < MaxRepetitions /\ ~good'
  PROVE  TypeInv'
<1>1. Len(theEvents) \in 1..nPile /\ nPile \in 0..MaxPile
  BY CurrentType DEF TypeInv, TypeOK
<1>2. Len(theEvents') = Len(theEvents) /\ theEvents' # <<>>
  BY <1>1, EmptySeq DEF LastBecomes
<1>3. NextInteraction(Len(theEvents)) \in {"account", "generate"}
         /\ (NextInteraction(Len(theEvents)) = "generate" => Len(theEvents) < nPile)
  BY <1>1, NextType DEF TypeInv
<1>4. TypeOK'
  BY <1>1, <1>2, <1>3 DEF TypeInv, TypeOK, LastBecomes, config, position
<1>5. AtInteraction'
  BY <1>2, <1>3 DEF TypeInv, AtInteraction, config, position
<1>6. QED
  BY <1>4, <1>5 DEF TypeInv

LEMMA HadronizeType ==
  ASSUME TypeInv, NEW ok \in BOOLEAN, Hadronize(ok)
  PROVE  /\ TypeInv'
         /\ \E e \in Interaction : RebuiltAs(e, record, ok) /\ LastBecomes(e)
<1>1. theEvents # <<>> /\ record \in PartonEvent /\ saved \in PartonEvent
  BY DEF TypeInv, TypeOK, AtInteraction, Hadronize
<1>2. PICK e \in Interaction : RebuiltAs(e, record, ok) /\ LastBecomes(e)
  BY <1>1, RebuiltStep DEF TypeInv, Hadronize
<1>3. saved' \in PartonEvent /\ n' \in [Counters -> Nat] /\ good' \in BOOLEAN
  BY <1>1 DEF TypeInv, TypeOK, Hadronize
<1>4. nRepetitions' = 0 /\ MaxRepetitions > 0 /\ nRepetitions' \in 0..MaxRepetitions
  BY GenerationAssumption DEF Hadronize
<1>5. TypeInv'
  BY <1>1, <1>2, <1>3, <1>4, LastType DEF Hadronize
<1>6. QED
  BY <1>2, <1>5

LEMMA AgainStep ==
  ASSUME TypeInv, theEvents # <<>>, NEW ok \in BOOLEAN, HadronizeAgain(ok),
         pc = "look"
  PROVE  /\ nRepetitions' \in 0..MaxRepetitions /\ nRepetitions' = nRepetitions + 1
         /\ record' \in PartonEvent /\ record' = saved
         /\ saved' \in PartonEvent /\ saved' = saved /\ gen' = gen
         /\ \E e \in Interaction : RebuiltAs(e, saved, ok) /\ LastBecomes(e)
<1>1. nRepetitions \in 0..(MaxRepetitions - 1) /\ saved \in PartonEvent
  BY GenerationAssumption DEF TypeInv, TypeOK, AtInteraction
<1>2. \E e \in Interaction : RebuiltAs(e, saved, ok) /\ LastBecomes(e)
  BY <1>1, RebuiltStep DEF TypeInv, HadronizeAgain
<1>3. QED
  BY <1>1, <1>2, GenerationAssumption DEF HadronizeAgain

LEMMA AbsentType ==
  ASSUME TypeInv, NEW ok \in BOOLEAN, SignalAbsent(ok)
  PROVE  TypeInv'
<1>1. /\ pc = "look" /\ theEvents # <<>>
      /\ UNCHANGED <<config, position, good, intCounter, n>>
      /\ good' \in BOOLEAN /\ ~good' /\ n' \in [Counters -> Nat]
  BY DEF TypeInv, TypeOK, AtInteraction, SignalAbsent
<1>2. CASE method = "Repeated" /\ Current.partons.quark
  <2>1. /\ HadronizeAgain(ok)
        /\ pc' = IF nRepetitions + 1 < MaxRepetitions
                 THEN "look" ELSE NextInteraction(Len(theEvents))
    BY <1>2 DEF SignalAbsent
  <2>2. PICK e \in Interaction : LastBecomes(e)
    BY <1>1, <2>1, AgainStep
  <2>3. QED
    BY <1>1, <1>2, <2>1, <2>2, AgainStep, LastType
<1>3. CASE ~(method = "Repeated" /\ Current.partons.quark)
  <2>1. /\ pc' = NextInteraction(Len(theEvents))
        /\ UNCHANGED <<theEvents, nRepetitions, pythia>>
    BY <1>3 DEF SignalAbsent
  <2>2. LastBecomes(Current) /\ Current \in Interaction
    BY <1>1, <2>1, CurrentType DEF TypeInv, TypeOK, LastBecomes, Current
  <2>3. QED
    BY <1>1, <2>1, <2>2, LastType DEF TypeInv, TypeOK, AtInteraction, pythia
<1>4. QED
  BY <1>2, <1>3

LEMMA DroppedType ==
  ASSUME TypeInv, NEW withDecay \in BOOLEAN, NEW ok \in BOOLEAN,
         Dropped(withDecay, ok), pc = "look", n' \in [Counters -> Nat],
         UNCHANGED <<config, position, good, intCounter>>
  PROVE  TypeInv'
<1>1. theEvents # <<>> /\ good' \in BOOLEAN
  BY DEF TypeInv, TypeOK, AtInteraction
<1>2. CASE method = "Repeated"
  <2>1. HadronizeAgain(ok) /\ pc' = NextInteraction(Len(theEvents))
    BY <1>2 DEF Dropped
  <2>2. PICK e \in Interaction : LastBecomes(e)
    BY <1>1, <2>1, AgainStep
  <2>3. QED
    BY <1>1, <1>2, <2>1, <2>2, AgainStep, LastType
<1>3. CASE method # "Repeated"
  <2>1. /\ theEvents' = [theEvents EXCEPT ![Len(theEvents)].forced = withDecay]
        /\ pc' = NextInteraction(Len(theEvents))
        /\ UNCHANGED <<nRepetitions, pythia>>
    BY <1>3 DEF Dropped
  <2>2. PICK e \in Interaction : LastBecomes(e)
    BY <1>1, <2>1, ForcedStep DEF TypeInv
  <2>3. QED
    BY <1>1, <2>1, <2>2, LastType DEF TypeInv, TypeOK, AtInteraction, pythia
<1>4. QED
  BY <1>2, <1>3

LEMMA UnusableType ==
  ASSUME TypeInv, NEW ok \in BOOLEAN, SignalUnusable(ok)
  PROVE  TypeInv'
<1>1. FALSE \in BOOLEAN
  OBVIOUS
<1>2. n' \in [Counters -> Nat]
  BY DEF TypeInv, TypeOK, SignalUnusable
<1>3. QED
  BY <1>1, <1>2, DroppedType DEF SignalUnusable

LEMMA CutType ==
  ASSUME TypeInv, NEW ok \in BOOLEAN, SignalCut(ok)
  PROVE  TypeInv'
<1>1. (method = "Forced") \in BOOLEAN
  OBVIOUS
<1>2. n' \in [Counters -> Nat]
  BY CountType DEF TypeInv, SignalCut
<1>3. QED
  BY <1>1, <1>2, DroppedType DEF SignalCut

LEMMA DecayFailsType ==
  ASSUME TypeInv, SignalDecayFails
  PROVE  TypeInv'
<1>1. n' \in [Counters -> Nat]
  BY CountType DEF TypeInv, SignalDecayFails
<1>2. TypeOK'
  BY <1>1 DEF TypeInv, TypeOK, SignalDecayFails, config, position, pythia
<1>3. AtInteraction'
  BY DEF TypeInv, AtInteraction, SignalDecayFails, config, position
<1>4. QED
  BY <1>2, <1>3 DEF TypeInv

LEMMA KeptType ==
  ASSUME TypeInv, NEW inverted \in BOOLEAN, SignalKept(inverted)
  PROVE  /\ TypeInv'
         /\ theEvents # <<>>
         /\ \E e \in Interaction : KeptAs(e) /\ LastBecomes(e)
<1>1. theEvents # <<>> /\ pc = "look" /\ pc' = NextInteraction(Len(theEvents))
  BY DEF TypeInv, AtInteraction, SignalKept
<1>2. PICK e \in Interaction : KeptAs(e) /\ LastBecomes(e)
  BY <1>1, KeptStep DEF TypeInv, SignalKept
<1>3. n' \in [Counters -> Nat]
  BY CountType DEF TypeInv, SignalKept
<1>4. good' \in BOOLEAN
  BY Zenon DEF SignalKept
<1>5. TypeInv'
  BY <1>1, <1>2, <1>3, <1>4, LastType
     DEF TypeInv, TypeOK, AtInteraction, SignalKept, pythia
<1>6. QED
  BY <1>1, <1>2, <1>5

\* A tool that throws with the signal in its hands.
LEMMA NotIsolatedType ==
  ASSUME TypeInv, NEW inverted \in BOOLEAN, SignalNotIsolated(inverted)
  PROVE  TypeInv'
<1>1. n' \in [Counters -> Nat]
  BY CountType DEF TypeInv, SignalNotIsolated
<1>2. TypeOK'
  BY <1>1 DEF TypeInv, TypeOK, SignalNotIsolated, config, position, pythia
<1>3. AtInteraction'
  BY DEF TypeInv, AtInteraction, SignalNotIsolated, config, position
<1>4. QED
  BY <1>2, <1>3 DEF TypeInv

LEMMA WithQuarkType ==
  ASSUME TypeInv
  PROVE  WithQuark \in Nat
<1> DEFINE withQuark == {k \in DOMAIN theEvents :
                           theEvents[k].level # "empty" /\ theEvents[k].partons.quark}
           length == Len(theEvents)
<1>1. length \in Nat /\ withQuark \subseteq 1..length
  BY LenProperties DEF TypeInv, TypeOK
<1> HIDE DEF length
<1>2. IsFiniteSet(1..length)
  BY <1>1, FS_Interval
<1>3. IsFiniteSet(withQuark)
  BY <1>1, <1>2, FS_Subset
<1>4. Cardinality(withQuark) \in Nat
  BY <1>3, FS_CardinalityType
<1>5. QED
  BY <1>4 DEF WithQuark

LEMMA UIntNat == UInt \subseteq Nat
BY GenerationAssumption DEF UInt

LEMMA UIntWraps ==
  ASSUME NEW k \in Nat
  PROVE  k % UIntSize \in UInt
BY GenerationAssumption DEF UInt

\* What the end of a try does to the counters.
LEMMA AccountCounts ==
  ASSUME TypeInv, NEW decayed \in BOOLEAN, NEW cut \in BOOLEAN, Account(decayed, cut)
  PROVE  \E before \in 0..1, after \in 0..1 :
           /\ intCounter' \in UInt /\ n' \in [Counters -> Nat]
           /\ after <= before
           /\ before = 1 => nPile > 0 /\ good
           /\ after = 1 => nPile > 0
           /\ pc' = IF nPile = 0 \/ after = 1 THEN "accept" ELSE "start"
           /\ n'.EvtGenerated = n.EvtGenerated + 1
           /\ n'.IntGenerated = n.IntGenerated + nPile
           /\ n'.OnebGen = n.OnebGen + (IF nPile = 0 THEN 0 ELSE intCounter')
           /\ n'.BeforeFullEvt = n.BeforeFullEvt + before
           /\ n'.AfterFullEvt = n.AfterFullEvt + after
           /\ \A c \in Counters \ {"EvtGenerated", "IntGenerated", "OnebGen",
                                 "BeforeFullEvt", "AfterFullEvt"} : n'[c] = n[c]
<1> DEFINE before == IF nPile > 0 /\ good /\ decayed THEN 1 ELSE 0
           after == IF nPile > 0 /\ good /\ decayed /\ cut THEN 1 ELSE 0
           count == (intCounter + (IF nPile = 0 THEN 0 ELSE WithQuark)) % UIntSize
           oneb == n.OnebGen + (IF nPile = 0 THEN 0 ELSE count)
           evts == n.EvtGenerated + 1
           ints == n.IntGenerated + nPile
           full == n.BeforeFullEvt + before
           passed == n.AfterFullEvt + after
<1>1. nPile \in Nat /\ WithQuark \in Nat /\ intCounter \in Nat
  BY WithQuarkType, UIntNat, GenerationAssumption DEF TypeInv, TypeOK
<1>2. intCounter' = count
  BY DEF Account
<1>3. intCounter' \in UInt /\ count \in Nat
  BY <1>1, <1>2, UIntNat, UIntWraps
<1>4. \A c \in Counters : n[c] \in Nat
  BY DEF TypeInv, TypeOK
<1> HIDE DEF count
<1>5. oneb \in Nat /\ evts \in Nat /\ ints \in Nat /\ full \in Nat /\ passed \in Nat
  BY <1>1, <1>3, <1>4 DEF Counters
<1>6. n' = [n EXCEPT !.EvtGenerated = evts, !.IntGenerated = ints, !.OnebGen = oneb,
                     !.BeforeFullEvt = full, !.AfterFullEvt = passed]
  BY DEF Account, count
<1>7. pc' = IF nPile = 0 \/ after = 1 THEN "accept" ELSE "start"
  BY DEF Account
<1>8. /\ before \in 0..1 /\ after \in 0..1 /\ after <= before
      /\ before = 1 => nPile > 0 /\ good
      /\ after = 1 => nPile > 0
  OBVIOUS
<1>9. n \in [Counters -> Nat]
  BY DEF TypeInv, TypeOK
<1> HIDE DEF oneb, evts, ints, full, passed
<1>10. /\ n' \in [Counters -> Nat]
       /\ n'.EvtGenerated = evts /\ n'.IntGenerated = ints /\ n'.OnebGen = oneb
       /\ n'.BeforeFullEvt = full /\ n'.AfterFullEvt = passed
       /\ \A c \in Counters \ {"EvtGenerated", "IntGenerated", "OnebGen",
                             "BeforeFullEvt", "AfterFullEvt"} : n'[c] = n[c]
  BY <1>5, <1>6, <1>9 DEF Counters
<1> HIDE DEF before, after
<1>11. QED
  BY <1>2, <1>3, <1>7, <1>8, <1>10 DEF oneb, evts, ints, full, passed

LEMMA AcceptCounts ==
  ASSUME TypeInv, Accept
  PROVE  /\ n' \in [Counters -> Nat]
         /\ n'.EvtAccepted = n.EvtAccepted + 1
         /\ n'.IntAccepted = n.IntAccepted + nPile
         /\ n'.OnebAcc = n.OnebAcc + (IF nPile = 0 THEN 0 ELSE intCounter)
         /\ \A c \in Counters \ {"EvtAccepted", "IntAccepted", "OnebAcc"} : n'[c] = n[c]
<1> DEFINE evts == n.EvtAccepted + 1
           ints == n.IntAccepted + nPile
           oneb == n.OnebAcc + (IF nPile = 0 THEN 0 ELSE intCounter)
<1>1. nPile \in Nat /\ intCounter \in Nat /\ n \in [Counters -> Nat]
  BY GenerationAssumption, UIntNat DEF TypeInv, TypeOK
<1>2. evts \in Nat /\ ints \in Nat /\ oneb \in Nat
  BY <1>1 DEF Counters
<1>3. n' = [n EXCEPT !.EvtAccepted = evts, !.IntAccepted = ints, !.OnebAcc = oneb]
  BY DEF Accept
<1> HIDE DEF evts, ints, oneb
<1>4. /\ n' \in [Counters -> Nat]
      /\ n'.EvtAccepted = evts /\ n'.IntAccepted = ints /\ n'.OnebAcc = oneb
      /\ \A c \in Counters \ {"EvtAccepted", "IntAccepted", "OnebAcc"} : n'[c] = n[c]
  BY <1>1, <1>2, <1>3 DEF Counters
<1>5. QED
  BY <1>4 DEF evts, ints, oneb

LEMMA AccountType ==
  ASSUME TypeInv, NEW decayed \in BOOLEAN, NEW cut \in BOOLEAN, Account(decayed, cut)
  PROVE  TypeInv'
<1>1. intCounter' \in UInt /\ n' \in [Counters -> Nat]
  BY AccountCounts
<1>2. good' <=> nPile = 0 \/ (nPile > 0 /\ good /\ decayed /\ cut)
  BY Zenon DEF Account
<1>3. good' \in BOOLEAN
  BY Zenon DEF Account
<1>4. /\ pc' \in {"accept", "start"} /\ (pc' = "accept" <=> good')
      /\ UNCHANGED <<config, position, theEvents, nRepetitions, pythia>>
  BY <1>2 DEF Account
<1>5. TypeOK'
  BY <1>1, <1>3, <1>4 DEF TypeInv, TypeOK, config, position, pythia
<1>6. AtInteraction'
  BY <1>4 DEF TypeInv, AtInteraction, config, position
<1>7. QED
  BY <1>5, <1>6 DEF TypeInv

LEMMA CrashType ==
  ASSUME TypeInv, Crash
  PROVE  TypeInv'
BY DEF TypeInv, TypeOK, AtInteraction, Crash, config, position, pythia

LEMMA AcceptType ==
  ASSUME TypeInv, Accept
  PROVE  TypeInv'
<1>1. n' \in [Counters -> Nat]
  BY AcceptCounts
<1>2. QED
  BY <1>1 DEF TypeInv, TypeOK, AtInteraction, Accept, config, position, pythia

LEMMA NextEventType ==
  ASSUME TypeInv, NextEvent
  PROVE  TypeInv'
<1>1. theEvents' \in Seq(Interaction) /\ Len(theEvents') = 0
  BY NoEvents DEF NextEvent
<1>2. ~good' /\ good' \in BOOLEAN
  BY Zenon DEF NextEvent
<1>3. event' \in 1..Events /\ 0 \in 0..MaxTries /\ 0 \in 0..MaxPile
  BY GenerationAssumption DEF TypeInv, TypeOK, NextEvent
<1>4. TypeOK'
  BY <1>1, <1>2, <1>3 DEF TypeInv, TypeOK, NextEvent, config, pythia
<1>5. AtInteraction'
  BY <1>2 DEF TypeInv, AtInteraction, NextEvent, config
<1>6. QED
  BY <1>4, <1>5 DEF TypeInv

LEMMA InitType == Init => TypeInv
<1> SUFFICES ASSUME Init PROVE TypeInv
  OBVIOUS
<1>1. theEvents \in Seq(Interaction) /\ Len(theEvents) = 0
  BY EmptySeq DEF Init
<1>2. NoPartons \in PartonEvent
  <2>1. <<0, 0, 0>> \in Origins
    BY GenerationAssumption DEF Origins
  <2>2. QED
    BY <2>1 DEF NoPartons, PartonEvent
<1>3. good \in BOOLEAN /\ ~good
  BY Zenon DEF Init
<1>4. clean \in BOOLEAN
  BY Zenon DEF Init
<1>5. TypeOK
  BY <1>1, <1>2, <1>3, <1>4, GenerationAssumption DEF Init, TypeOK
<1>6. AtInteraction
  BY <1>3 DEF Init, AtInteraction
<1>7. QED
  BY <1>5, <1>6 DEF TypeInv

LEMMA StutterType ==
  ASSUME TypeInv, UNCHANGED vars
  PROVE  TypeInv'
BY DEF TypeInv, TypeOK, AtInteraction, vars

LEMMA NextTypeInv ==
  ASSUME TypeInv, [Next]_vars
  PROVE  TypeInv'
<1>1. ASSUME NEW b \in BOOLEAN,
             \/ Generate(b) \/ Hadronize(b) \/ SignalAbsent(b)
             \/ SignalUnusable(b) \/ SignalCut(b) \/ SignalKept(b)
             \/ SignalNotIsolated(b)
             \/ \E c \in BOOLEAN : Account(b, c)
      PROVE  TypeInv'
  BY <1>1, GenerateType, HadronizeType, AbsentType, UnusableType, CutType,
     KeptType, NotIsolatedType, AccountType
<1>2. CASE \/ \E k \in 0..MaxPile : StartTry(k)
           \/ DecaySignalAtRest \/ GenerateFails \/ SignalDecayFails
           \/ Crash \/ Accept \/ NextEvent \/ Stopped \/ UNCHANGED vars
  BY <1>2, StartTryType, DecayAtRestType, FailsType, DecayFailsType, CrashType,
     AcceptType, NextEventType, StutterType DEF Stopped
<1>3. QED
  BY <1>1, <1>2 DEF Next

LEMMA TypeInvariant == Spec => []TypeInv
BY InitType, NextTypeInv, PTL DEF Spec

\* The variables of the tool, the thread and the record keep their types, and
\* no try has more interactions than were drawn.
THEOREM TypeCorrect == Spec => []TypeOK
BY TypeInvariant, PTL DEF TypeInv

-----------------------------------------------------------------------------
(* Own partons.                                                            *)

\* What waits to be hadronised is the interaction's own, and so is what was
\* saved when it is hadronised again.
PartonsOwn ==
  /\ \A k \in 1..Len(theEvents) : theEvents[k].partons.origin = <<event, tries, k>>
  /\ pc = "hadronize" => record = Current.partons
  /\ pc = "look" /\ method = "Repeated" /\ Current.partons.quark =>
       saved = Current.partons

\* The interaction keeps its partons.
LEMMA SamePartons ==
  ASSUME TypeInv, PartonsOwn, theEvents # <<>>, NEW e \in Interaction,
         LastBecomes(e), e.partons = Current.partons,
         UNCHANGED <<config, position>>,
         pc' # "hadronize",
         pc' = "look" /\ method = "Repeated" /\ e.partons.quark => saved' = e.partons
  PROVE  PartonsOwn'
<1>1. Len(theEvents) \in 1..Len(theEvents) /\ Len(theEvents') = Len(theEvents)
  BY CurrentType DEF TypeInv, LastBecomes
<1>2. Current' = e
  BY <1>1 DEF LastBecomes, Current
<1>3. \A k \in 1..Len(theEvents) : theEvents'[k].partons = theEvents[k].partons
  BY <1>1 DEF LastBecomes, Current
<1>4. QED
  BY <1>1, <1>2, <1>3 DEF PartonsOwn, config, position

LEMMA NextNotHere ==
  ASSUME NEW k PROVE NextInteraction(k) \notin {"hadronize", "look"}
BY DEF NextInteraction

LEMMA GenerateOwn ==
  ASSUME TypeInv, PartonsOwn, NEW quark \in BOOLEAN, Generate(quark)
  PROVE  PartonsOwn'
<1>1. PICK e \in Interaction :
        /\ e.partons = [origin |-> <<event, tries, Len(theEvents) + 1>>,
                        quark |-> quark]
        /\ record' = e.partons /\ IsAppended(e)
  BY GenerateType
<1>2. /\ UNCHANGED <<event, tries, method>>
      /\ method = "Repeated" => pc' # "look"
  BY NextNotHere DEF Generate, config, position, TypeInv, TypeOK
<1>3. Len(theEvents) \in Nat /\ Len(theEvents') = Len(theEvents) + 1
  BY <1>1, LenProperties DEF TypeInv, TypeOK, IsAppended
<1>4. Current' = e
  BY <1>1, <1>3 DEF IsAppended, Current
<1>5. \A k \in 1..Len(theEvents') :
        theEvents'[k].partons.origin = <<event, tries, k>>
  BY <1>1, <1>3 DEF IsAppended, PartonsOwn
<1>6. QED
  BY <1>1, <1>2, <1>4, <1>5 DEF PartonsOwn

LEMMA HadronizeOwn ==
  ASSUME TypeInv, PartonsOwn, NEW ok \in BOOLEAN, Hadronize(ok)
  PROVE  PartonsOwn'
<1>1. PICK e \in Interaction : RebuiltAs(e, record, ok) /\ LastBecomes(e)
  BY HadronizeType
<1>2. theEvents # <<>> /\ record = Current.partons /\ e.partons = record
  BY <1>1 DEF TypeInv, AtInteraction, PartonsOwn, Hadronize, RebuiltAs
<1>3. /\ UNCHANGED <<config, position>> /\ pc' # "hadronize"
      /\ pc' = "look" /\ e.partons.quark => saved' = e.partons
  BY <1>2, NextNotHere DEF Hadronize, Saves
<1>4. QED
  BY <1>1, <1>2, <1>3, SamePartons

\* Hadronised again: the saved partons are the interaction's own.
LEMMA AgainOwn ==
  ASSUME TypeInv, PartonsOwn, NEW ok \in BOOLEAN, HadronizeAgain(ok),
         pc = "look", method = "Repeated", Current.partons.quark,
         UNCHANGED <<config, position>>, pc' # "hadronize"
  PROVE  PartonsOwn'
<1>1. theEvents # <<>> /\ saved = Current.partons
  BY DEF TypeInv, AtInteraction, PartonsOwn
<1>2. PICK e \in Interaction : RebuiltAs(e, saved, ok) /\ LastBecomes(e)
  BY <1>1, AgainStep
<1>3. saved' = saved /\ e.partons = saved
  BY <1>2 DEF HadronizeAgain, RebuiltAs
<1>4. QED
  BY <1>1, <1>2, <1>3, SamePartons

LEMMA DroppedOwn ==
  ASSUME TypeInv, PartonsOwn, ~SignalFromOthers, SignalMayBePresent,
         NEW withDecay \in BOOLEAN, NEW ok \in BOOLEAN,
         Dropped(withDecay, ok), pc = "look", UNCHANGED <<config, position>>
  PROVE  PartonsOwn'
<1>1. pc' \notin {"hadronize", "look"} /\ Current.partons.quark /\ theEvents # <<>>
  BY NextNotHere DEF Dropped, SignalMayBePresent, TypeInv, AtInteraction
<1>2. CASE method = "Repeated"
  BY <1>1, <1>2, AgainOwn DEF Dropped
<1>3. CASE method # "Repeated"
  <2>1. theEvents' = [theEvents EXCEPT ![Len(theEvents)].forced = withDecay]
    BY <1>3 DEF Dropped
  <2>2. PICK e \in Interaction : e.partons = Current.partons /\ LastBecomes(e)
    BY <1>1, <2>1, ForcedStep DEF TypeInv
  <2>3. QED
    BY <1>1, <2>2, SamePartons
<1>4. QED
  BY <1>2, <1>3

LEMMA NextOwn ==
  ASSUME TypeInv, PartonsOwn, ~SignalFromOthers, [Next]_vars
  PROVE  PartonsOwn'
<1>1. ASSUME NEW k \in 0..MaxPile, StartTry(k) PROVE PartonsOwn'
  <2>1. Len(theEvents') = 0 /\ pc' \notin {"hadronize", "look"}
    BY <1>1, NoEvents DEF StartTry
  <2>2. QED
    BY <2>1 DEF PartonsOwn
<1>2. CASE NextEvent
  <2>1. Len(theEvents') = 0 /\ pc' \notin {"hadronize", "look"}
    BY <1>2, NoEvents DEF NextEvent
  <2>2. QED
    BY <2>1 DEF PartonsOwn
<1>3. CASE \/ DecaySignalAtRest \/ GenerateFails \/ SignalDecayFails
           \/ Crash \/ Accept \/ \E b, c \in BOOLEAN : Account(b, c)
           \/ \E b \in BOOLEAN : SignalNotIsolated(b)
  <2>1. UNCHANGED <<event, tries, theEvents>> /\ pc' \notin {"hadronize", "look"}
    BY <1>3 DEF DecaySignalAtRest, GenerateFails, SignalDecayFails, Crash, Accept,
                Account, SignalNotIsolated, position
  <2>2. QED
    BY <2>1 DEF PartonsOwn
<1>4. ASSUME NEW b \in BOOLEAN, SignalAbsent(b) PROVE PartonsOwn'
  <2>1. CASE method = "Repeated" /\ Current.partons.quark
    <3>1. HadronizeAgain(b) /\ pc = "look" /\ pc' # "hadronize"
      BY <1>4, <2>1, NextNotHere DEF SignalAbsent
    <3>2. QED
      BY <1>4, <2>1, <3>1, AgainOwn DEF SignalAbsent
  <2>2. CASE ~(method = "Repeated" /\ Current.partons.quark)
    <3>1. UNCHANGED <<event, tries, theEvents>> /\ pc' \notin {"hadronize", "look"}
      BY <1>4, <2>2, NextNotHere DEF SignalAbsent, position
    <3>2. QED
      BY <3>1 DEF PartonsOwn
  <2>3. QED
    BY <2>1, <2>2
<1>5. ASSUME NEW b \in BOOLEAN, SignalUnusable(b) \/ SignalCut(b) PROVE PartonsOwn'
  <2>1. FALSE \in BOOLEAN /\ (method = "Forced") \in BOOLEAN
    OBVIOUS
  <2>2. QED
    BY <1>5, <2>1, DroppedOwn DEF SignalUnusable, SignalCut
<1>6. ASSUME NEW b \in BOOLEAN, SignalKept(b) PROVE PartonsOwn'
  <2>1. PICK e \in Interaction : KeptAs(e) /\ LastBecomes(e)
    BY <1>6, KeptType
  <2>2. theEvents # <<>> /\ pc' \notin {"hadronize", "look"}
    BY <1>6, KeptType, NextNotHere DEF SignalKept
  <2>3. QED
    BY <1>6, <2>1, <2>2, SamePartons DEF SignalKept, KeptAs
<1>7. CASE UNCHANGED vars
  BY <1>7 DEF vars, PartonsOwn, Current
<1>8. QED
  BY <1>1, <1>2, <1>3, <1>4, <1>5, <1>6, <1>7, GenerateOwn, HadronizeOwn
     DEF Next, Stopped

\* However often an interaction is hadronised again, in whatever try of
\* whatever event of the thread, it is made of the partons that were generated
\* for it, if a signal hadron only comes from a parton event with a signal quark.
THEOREM PartonsAreOwn == Spec => [](~SignalFromOthers => OwnPartons)
<1>1. Init => (~SignalFromOthers => PartonsOwn)
  <2> SUFFICES ASSUME Init PROVE PartonsOwn
    OBVIOUS
  <2>1. Len(theEvents) = 0
    BY EmptySeq DEF Init
  <2>2. QED
    BY <2>1 DEF Init, PartonsOwn
<1>2. TypeInv /\ (~SignalFromOthers => PartonsOwn) /\ [Next]_vars
        => (~SignalFromOthers => PartonsOwn)'
  BY NextOwn
<1>3. TypeInv /\ (~SignalFromOthers => PartonsOwn) => (~SignalFromOthers => OwnPartons)
  <2>1. TypeInv => DOMAIN theEvents = 1..Len(theEvents)
    BY LenProperties DEF TypeInv, TypeOK
  <2>2. QED
    BY <2>1 DEF PartonsOwn, OwnPartons
<1>4. QED
  BY <1>1, <1>2, <1>3, TypeInvariant, PTL DEF Spec

-----------------------------------------------------------------------------
(* One signal.                                                             *)

\* What an interaction may be: only the one being hadronised is at parton
\* level; only the one kept has a forced decay, unless the method is
\* SignalForcedFragmentation; the one kept has been hadronised.
InteractionOK(k) ==
  /\ theEvents[k].level = "parton" => pc = "hadronize" /\ k = Len(theEvents)
  /\ theEvents[k].forced /\ ~theEvents[k].signal => method = "Forced"
  /\ theEvents[k].signal =>
       /\ theEvents[k].level = "hadron"
       /\ theEvents[k].forced = (method # "Inclusive")
  /\ method # "Repeated" => theEvents[k].isSignal = theEvents[k].signal

Kept == {k \in 1..Len(theEvents) : theEvents[k].signal}

InTool == pc \in {"generate", "hadronize", "look"}

SignalOK ==
  /\ \A k \in 1..Len(theEvents) : InteractionOK(k)
  /\ InTool /\ Kept # {} => good
  /\ pc = "hadronize" => ~Current.signal
  /\ \A j, k \in Kept : j = k
  /\ /\ good /\ nPile > 0 /\ method # "MinimumBias"
     /\ InTool \/ pc \in {"account", "accept", "accepted"}
     => Kept # {}

\* The last interaction is changed, but not kept.
LEMMA LastNotKept ==
  ASSUME TypeInv, SignalOK, pc \in {"hadronize", "look"},
         NEW e \in Interaction, LastBecomes(e),
         e.signal = Current.signal, e.level # "parton",
         e.forced => method = "Forced",
         method # "Repeated" => e.isSignal = e.signal,
         UNCHANGED <<method, nPile, good>>, pc' # "hadronize",
         pc' \in {"look", "generate", "account"}
  PROVE  SignalOK'
<1>1. theEvents # <<>> /\ Len(theEvents) \in 1..Len(theEvents)
  BY CurrentType DEF TypeInv, AtInteraction
<1>2. Current \in Interaction /\ ~Current.signal
  <2>1. Current.signal => Len(theEvents) \in Kept
    BY <1>1 DEF Kept, Current
  <2>2. QED
    BY <1>1, <2>1, CurrentType DEF TypeInv, AtInteraction, SignalOK, InTool
<1>3. /\ Len(theEvents') = Len(theEvents)
      /\ \A k \in 1..Len(theEvents) :
           theEvents'[k] = IF k = Len(theEvents) THEN e ELSE theEvents[k]
  BY DEF LastBecomes
<1>4. Kept' = Kept
  BY <1>1, <1>2, <1>3 DEF Kept, Current
<1>5. \A k \in 1..Len(theEvents') : InteractionOK(k)'
  <2> SUFFICES ASSUME NEW k \in 1..Len(theEvents) PROVE InteractionOK(k)'
    BY <1>3
  <2>1. CASE k = Len(theEvents)
    BY <1>2, <1>3, <2>1 DEF InteractionOK, Interaction
  <2>2. CASE k # Len(theEvents)
    BY <1>3, <2>2 DEF InteractionOK, SignalOK
  <2>3. QED
    BY <2>1, <2>2
<1>6. QED
  BY <1>4, <1>5 DEF SignalOK, InTool

LEMMA AppendSignal ==
  ASSUME TypeInv, SignalOK, NEW quark \in BOOLEAN, Generate(quark)
  PROVE  SignalOK'
<1>1. PICK e \in Interaction :
        /\ ~e.signal /\ ~e.forced
        /\ e.level = (IF PartonLevel THEN "parton" ELSE "hadron")
        /\ method # "Repeated" => ~e.isSignal
        /\ IsAppended(e)
  BY GenerateType
<1>2. Len(theEvents) \in Nat /\ nPile > 0
  BY LenProperties DEF TypeInv, TypeOK, AtInteraction, Generate
<1>3. /\ Len(theEvents') = Len(theEvents) + 1
      /\ \A k \in 1..Len(theEvents) : theEvents'[k] = theEvents[k]
      /\ theEvents'[Len(theEvents) + 1] = e
  BY <1>1 DEF IsAppended
<1>4. /\ pc = "generate" /\ pc' \in {"hadronize", "look", "generate", "account"}
      /\ PartonLevel => pc' = "hadronize"
      /\ UNCHANGED <<method, nPile, good>>
  BY DEF Generate, NextInteraction, config, position, PartonLevel
<1>5. Kept' = Kept
  BY <1>1, <1>2, <1>3 DEF Kept
<1>6. \A k \in 1..Len(theEvents') : InteractionOK(k)'
  <2> SUFFICES ASSUME NEW k \in 1..(Len(theEvents) + 1) PROVE InteractionOK(k)'
    BY <1>3
  <2>1. CASE k = Len(theEvents) + 1
    <3>1. theEvents'[k] = e
      BY <1>3, <2>1
    <3>2. e.level = "parton" => pc' = "hadronize"
      BY <1>1, <1>4
    <3>3. ~e.forced /\ ~e.signal /\ (method' # "Repeated" => e.isSignal = e.signal)
      BY <1>1, <1>4 DEF Interaction
    <3>4. QED
      BY <1>3, <2>1, <3>1, <3>2, <3>3 DEF InteractionOK
  <2>2. CASE k # Len(theEvents) + 1
    <3>1. k \in 1..Len(theEvents) /\ theEvents'[k] = theEvents[k]
      BY <1>2, <1>3, <2>2
    <3>2. InteractionOK(k)
      BY <3>1 DEF SignalOK
    <3>3. QED
      BY <1>4, <3>1, <3>2 DEF InteractionOK
  <2>3. QED
    BY <2>1, <2>2
<1>7. ~Current'.signal
  BY <1>1, <1>2, <1>3 DEF Current
<1>8. QED
  BY <1>2, <1>4, <1>5, <1>6, <1>7 DEF SignalOK, InTool

LEMMA HadronizeSignal ==
  ASSUME TypeInv, SignalOK, NEW ok \in BOOLEAN, Hadronize(ok)
  PROVE  SignalOK'
<1>1. PICK e \in Interaction : RebuiltAs(e, record, ok) /\ LastBecomes(e)
  BY HadronizeType
<1>2. pc = "hadronize" /\ pc' \in {"look", "generate", "account"} /\ method = "Repeated"
  BY DEF Hadronize, NextInteraction, TypeInv, AtInteraction
<1>3. QED
  BY <1>1, <1>2, LastNotKept DEF RebuiltAs, Hadronize, config, position

LEMMA AgainSignal ==
  ASSUME TypeInv, SignalOK, NEW ok \in BOOLEAN, HadronizeAgain(ok),
         pc = "look", method = "Repeated", UNCHANGED <<config, position, good>>,
         pc' \in {"look", "generate", "account"}
  PROVE  SignalOK'
<1>1. theEvents # <<>>
  BY DEF TypeInv, AtInteraction
<1>2. PICK e \in Interaction : RebuiltAs(e, saved, ok) /\ LastBecomes(e)
  BY <1>1, AgainStep
<1>3. QED
  BY <1>2, LastNotKept DEF RebuiltAs, config, position

LEMMA DroppedSignal ==
  ASSUME TypeInv, SignalOK, NEW withDecay \in BOOLEAN, NEW ok \in BOOLEAN,
         withDecay => method = "Forced",
         Dropped(withDecay, ok), pc = "look", UNCHANGED <<config, position, good>>
  PROVE  SignalOK'
<1>1. pc' \in {"generate", "account"} /\ theEvents # <<>>
  BY DEF Dropped, NextInteraction, TypeInv, AtInteraction
<1>2. CASE method = "Repeated"
  BY <1>1, <1>2, AgainSignal DEF Dropped
<1>3. CASE method # "Repeated"
  <2>1. theEvents' = [theEvents EXCEPT ![Len(theEvents)].forced = withDecay]
    BY <1>3 DEF Dropped
  <2>2. PICK e \in Interaction :
           /\ e.level = Current.level
           /\ e.signal = Current.signal /\ e.isSignal = Current.isSignal
           /\ e.forced = withDecay
           /\ LastBecomes(e)
    BY <1>1, <2>1, ForcedStep DEF TypeInv
  <2>3. InteractionOK(Len(theEvents))
    BY <1>1, CurrentType DEF TypeInv, SignalOK
  <2>4. Current.level # "parton" /\ Current.isSignal = Current.signal
    BY <1>3, <2>3 DEF InteractionOK, Current
  <2>5. QED
    BY <1>1, <2>2, <2>4, LastNotKept DEF config, position
<1>4. QED
  BY <1>2, <1>3

LEMMA KeptSignal ==
  ASSUME TypeInv, SignalOK, NEW inverted \in BOOLEAN, SignalKept(inverted)
  PROVE  SignalOK'
<1>1. PICK e \in Interaction : KeptAs(e) /\ LastBecomes(e)
  BY KeptType
<1>2. /\ theEvents # <<>> /\ Len(theEvents) \in 1..Len(theEvents)
      /\ Current \in Interaction /\ Current.level = "hadron"
  BY KeptType, CurrentType DEF TypeInv, SignalKept, SignalMayBePresent
<1>3. /\ pc = "look" /\ ~good /\ good' /\ pc' \in {"generate", "account"}
      /\ UNCHANGED <<method, nPile>>
  BY DEF SignalKept, NextInteraction, TypeInv, AtInteraction, config, position
<1>4. Kept = {}
  BY <1>3 DEF SignalOK, InTool
<1>5. /\ Len(theEvents') = Len(theEvents)
      /\ \A k \in 1..Len(theEvents) :
           theEvents'[k] = IF k = Len(theEvents) THEN e ELSE theEvents[k]
  BY <1>1 DEF LastBecomes
<1>6. Kept' = {Len(theEvents)}
  BY <1>1, <1>2, <1>4, <1>5 DEF Kept, KeptAs
<1>7. \A k \in 1..Len(theEvents') : InteractionOK(k)'
  <2> SUFFICES ASSUME NEW k \in 1..Len(theEvents) PROVE InteractionOK(k)'
    BY <1>5
  <2>1. CASE k = Len(theEvents)
    <3>1. /\ e.level = "hadron" /\ e.signal /\ e.forced = (method # "Inclusive")
          /\ method # "Repeated" => e.isSignal = e.signal
      BY <1>1, <1>2 DEF KeptAs, Interaction
    <3>2. QED
      BY <1>3, <1>5, <2>1, <3>1 DEF InteractionOK
  <2>2. CASE k # Len(theEvents)
    BY <1>3, <1>5, <2>2 DEF InteractionOK, SignalOK
  <2>3. QED
    BY <2>1, <2>2
<1>8. QED
  BY <1>3, <1>6, <1>7 DEF SignalOK

\* The interactions stay and the tool has been left.
LEMMA LeftSignal ==
  ASSUME TypeInv, SignalOK, UNCHANGED <<method, nPile, theEvents>>,
         pc # "hadronize", ~InTool',
         good' /\ nPile > 0 =>
           good /\ (InTool \/ pc \in {"account", "accept", "accepted"})
  PROVE  SignalOK'
<1>1. Kept' = Kept
  BY DEF Kept
<1>2. \A k \in 1..Len(theEvents') : InteractionOK(k)'
  BY DEF SignalOK, InteractionOK
<1>3. QED
  BY <1>1, <1>2 DEF SignalOK, InTool

LEMMA ResetSignal ==
  ASSUME theEvents' = <<>>, pc' # "hadronize",
         good' /\ nPile' > 0 /\ method' # "MinimumBias" =>
           pc' \notin {"generate", "look", "account", "accept", "accepted"}
  PROVE  SignalOK'
<1>1. Len(theEvents') = 0
  BY NoEvents
<1>2. Kept' = {}
  BY <1>1 DEF Kept
<1>3. QED
  BY <1>1, <1>2 DEF SignalOK, InTool

LEMMA NextSignal ==
  ASSUME TypeInv, SignalOK, [Next]_vars
  PROVE  SignalOK'
<1>1. ASSUME NEW k \in 0..MaxPile, StartTry(k) PROVE SignalOK'
  <2>1. good' <=> k = 0 \/ method = "MinimumBias"
    BY <1>1, Zenon DEF StartTry
  <2>2. /\ theEvents' = <<>> /\ pc' # "hadronize" /\ nPile' = k /\ method' = method
        /\ k = 0 => pc' = "account"
    BY <1>1 DEF StartTry, config
  <2>3. QED
    BY <2>1, <2>2, GenerationAssumption, ResetSignal
<1>2. CASE NextEvent
  <2>1. ~good' /\ theEvents' = <<>> /\ pc' = "start"
    BY <1>2, Zenon DEF NextEvent
  <2>2. QED
    BY <2>1, ResetSignal
<1>3. CASE DecaySignalAtRest
  <2>1. theEvents' = <<>> /\ ~good' /\ pc' # "hadronize"
    BY <1>3 DEF DecaySignalAtRest, TypeInv, AtInteraction
  <2>2. QED
    BY <2>1, ResetSignal
<1>4. CASE \/ GenerateFails \/ SignalDecayFails \/ Crash \/ Accept
           \/ \E b \in BOOLEAN : SignalNotIsolated(b)
  <2>1. /\ UNCHANGED <<method, nPile, theEvents, good>> /\ ~InTool'
        /\ InTool \/ pc \in {"account", "accept", "accepted"}
        /\ pc # "hadronize"
    BY <1>4 DEF GenerateFails, SignalDecayFails, SignalNotIsolated, Crash, Accept,
                config, position, InTool
  <2>2. QED
    BY <2>1, LeftSignal
<1>5. ASSUME NEW b \in BOOLEAN, NEW c \in BOOLEAN, Account(b, c) PROVE SignalOK'
  <2>1. good' <=> nPile = 0 \/ (nPile > 0 /\ good /\ b /\ c)
    BY <1>5, Zenon DEF Account
  <2>2. UNCHANGED <<method, nPile, theEvents>> /\ ~InTool' /\ pc = "account"
    BY <1>5 DEF Account, config, position, InTool
  <2>3. QED
    BY <2>1, <2>2, LeftSignal
<1>6. ASSUME NEW b \in BOOLEAN, SignalAbsent(b) PROVE SignalOK'
  <2>1. pc = "look" /\ UNCHANGED <<config, position, good>>
    BY <1>6 DEF SignalAbsent
  <2>2. CASE method = "Repeated" /\ Current.partons.quark
    <3>1. HadronizeAgain(b) /\ pc' \in {"look", "generate", "account"}
      BY <1>6, <2>2 DEF SignalAbsent, NextInteraction
    <3>2. QED
      BY <2>1, <2>2, <3>1, AgainSignal
  <2>3. CASE ~(method = "Repeated" /\ Current.partons.quark)
    <3>1. UNCHANGED theEvents /\ pc' \in {"generate", "account"}
      BY <1>6, <2>3 DEF SignalAbsent, NextInteraction
    <3>2. Kept' = Kept
      BY <3>1 DEF Kept
    <3>3. \A k \in 1..Len(theEvents') : InteractionOK(k)'
      BY <2>1, <3>1 DEF SignalOK, InteractionOK, config
    <3>4. QED
      BY <2>1, <3>1, <3>2, <3>3 DEF SignalOK, InTool, config, position
  <2>4. QED
    BY <2>2, <2>3
<1>7. ASSUME NEW b \in BOOLEAN, SignalUnusable(b) PROVE SignalOK'
  <2>1. FALSE \in BOOLEAN
    OBVIOUS
  <2>2. QED
    BY <1>7, <2>1, DroppedSignal DEF SignalUnusable
<1>8. ASSUME NEW b \in BOOLEAN, SignalCut(b) PROVE SignalOK'
  <2>1. (method = "Forced") \in BOOLEAN
    OBVIOUS
  <2>2. QED
    BY <1>8, <2>1, DroppedSignal DEF SignalCut
<1>9. CASE UNCHANGED vars
  BY <1>9 DEF vars, SignalOK, InteractionOK, Kept, Current, InTool
<1>10. QED
  BY <1>1, <1>2, <1>3, <1>4, <1>5, <1>6, <1>7, <1>8, <1>9, AppendSignal,
     HadronizeSignal, KeptSignal DEF Next, Stopped

\* An accepted event has one interaction that the method kept, and nothing else
\* of what was tried is left in it.
THEOREM SignalIsUnique == Spec => []SignalUnique
<1>1. Init => SignalOK
  <2> SUFFICES ASSUME Init PROVE SignalOK
    OBVIOUS
  <2>1. Len(theEvents) = 0
    BY EmptySeq DEF Init
  <2>2. QED
    BY <2>1 DEF Init, SignalOK, InTool, Kept
<1>2. TypeInv /\ SignalOK /\ [Next]_vars => SignalOK'
  BY NextSignal
<1>3. TypeInv /\ SignalOK => SignalUnique
  <2> SUFFICES ASSUME TypeInv, SignalOK, pc = "accepted", nPile > 0,
                      method # "MinimumBias"
               PROVE  /\ \E k \in 1..Len(theEvents) :
                           /\ theEvents[k].signal /\ theEvents[k].level = "hadron"
                           /\ theEvents[k].forced = (method # "Inclusive")
                           /\ \A j \in (1..Len(theEvents)) \ {k} :
                                /\ ~theEvents[j].signal
                                /\ theEvents[j].level # "parton"
                                /\ theEvents[j].forced => method = "Forced"
                      /\ method # "Repeated" => \A k \in 1..Len(theEvents) :
                           theEvents[k].isSignal = theEvents[k].signal
    BY LenProperties DEF TypeInv, TypeOK, SignalUnique
  <2>1. good
    BY DEF TypeInv, AtInteraction
  <2>2. PICK k \in Kept : TRUE
    BY <2>1 DEF SignalOK
  <2>3. \A j \in 1..Len(theEvents) : InteractionOK(j)
    BY DEF SignalOK
  <2>4. \A j \in (1..Len(theEvents)) \ {k} : ~theEvents[j].signal
    BY <2>2 DEF SignalOK, Kept
  <2>5. QED
    BY <2>2, <2>3, <2>4 DEF InteractionOK, Kept
<1>4. QED
  BY <1>1, <1>2, <1>3, TypeInvariant, PTL DEF Spec

-----------------------------------------------------------------------------
(* The counters of the generator record.                                   *)

CutPassed == n.AfterLevelCut + n.EvtInverted

\* A kept signal that the cut on the full event has still to see, and an event
\* that has passed it and is still to be counted as accepted, with what is due.
Pending == good /\ nPile > 0 /\ pc \in {"generate", "hadronize", "account"}
EvtDue  == IF pc = "accept" THEN 1 ELSE 0
IntDue  == IF pc = "accept" THEN nPile ELSE 0
OnebDue == IF pc = "accept" /\ nPile > 0 THEN intCounter ELSE 0

LevelOK ==
  /\ CutPassed <= n.BeforeLevelCut
  /\ method \in SignalMethods => n.EvtSignal = IF clean THEN 0 ELSE CutPassed
  /\ method # "MinimumBias" =>
       n.BeforeFullEvt + (IF Pending THEN 1 ELSE 0) <= SignalsKept

FullOK ==
  /\ n.AfterFullEvt <= n.BeforeFullEvt
  /\ n.AfterFullEvt <= n.EvtAccepted + (IF nPile > 0 THEN EvtDue ELSE 0)

\* The accepted counts follow the generated ones, by what is due between the
\* last try of an event and its end; they lose ground when a try is rejected.
TriesOK ==
  /\ n.EvtAccepted + EvtDue <= n.EvtGenerated
  /\ n.IntAccepted + IntDue <= n.IntGenerated
  /\ n.OnebAcc + OnebDue <= n.OnebGen
  /\ n.EvtAccepted + EvtDue = n.EvtGenerated =>
       /\ n.IntAccepted + IntDue = n.IntGenerated
       /\ n.OnebAcc + OnebDue = n.OnebGen

CountersOK == LevelOK /\ FullOK /\ TriesOK

LEMMA CounterTypes ==
  ASSUME TypeInv
  PROVE  /\ n.EvtGenerated \in Nat /\ n.IntGenerated \in Nat /\ n.OnebGen \in Nat
         /\ n.BeforeLevelCut \in Nat /\ n.AfterLevelCut \in Nat
         /\ n.EvtInverted \in Nat /\ n.EvtSignal \in Nat
         /\ n.BeforeFullEvt \in Nat /\ n.AfterFullEvt \in Nat
         /\ n.EvtAccepted \in Nat /\ n.IntAccepted \in Nat /\ n.OnebAcc \in Nat
         /\ nPile \in Nat /\ intCounter \in Nat
BY GenerationAssumption, UIntNat DEF TypeInv, TypeOK, Counters

\* Steps that count nothing but the cut on the generator level.
LEMMA SameCounters ==
  ASSUME TypeInv, CountersOK, UNCHANGED <<method, clean>>,
         \A c \in Counters \ {"BeforeLevelCut"} : n'[c] = n[c],
         n'.BeforeLevelCut \in Nat, n'.BeforeLevelCut >= n.BeforeLevelCut,
         Pending' => Pending,
         pc \notin {"accept", "accepted"}, pc' \notin {"accept", "accepted"}
  PROVE  CountersOK'
<1>1. /\ n'.AfterLevelCut = n.AfterLevelCut /\ n'.EvtInverted = n.EvtInverted
      /\ n'.EvtSignal = n.EvtSignal /\ n'.BeforeFullEvt = n.BeforeFullEvt
      /\ n'.AfterFullEvt = n.AfterFullEvt /\ n'.EvtAccepted = n.EvtAccepted
      /\ n'.EvtGenerated = n.EvtGenerated /\ n'.IntGenerated = n.IntGenerated
      /\ n'.OnebGen = n.OnebGen /\ n'.OnebAcc = n.OnebAcc
      /\ n'.IntAccepted = n.IntAccepted
  BY DEF Counters
<1>2. LevelOK'
  BY <1>1, CounterTypes DEF CountersOK, LevelOK, CutPassed, SignalsKept
<1>3. FullOK'
  BY <1>1, CounterTypes DEF CountersOK, FullOK, EvtDue
<1>4. TriesOK'
  BY <1>1, CounterTypes DEF CountersOK, TriesOK, EvtDue, IntDue, OnebDue
<1>5. QED
  BY <1>2, <1>3, <1>4 DEF CountersOK

LEMMA KeptCount ==
  ASSUME TypeInv, CountersOK, NEW inverted \in BOOLEAN, SignalKept(inverted)
  PROVE  CountersOK'
<1>1. /\ pc = "look" /\ pc' \in {"generate", "account"} /\ ~good
      /\ UNCHANGED <<method, clean, nPile>> /\ ~clean
      /\ Count(KeptCounters(inverted))
      /\ method # "MinimumBias"
  BY DEF SignalKept, NextInteraction, TypeInv, AtInteraction, config, position
<1>2. /\ n'.BeforeLevelCut = n.BeforeLevelCut + 1
      /\ n'.AfterLevelCut = n.AfterLevelCut + (IF inverted THEN 0 ELSE 1)
      /\ n'.EvtInverted = n.EvtInverted + (IF inverted THEN 1 ELSE 0)
      /\ n'.EvtSignal = n.EvtSignal + (IF method = "Inclusive" THEN 0 ELSE 1)
  BY <1>1, CounterTypes DEF Count, KeptCounters, Counters
<1>3. \A c \in Counters \ {"BeforeLevelCut", "AfterLevelCut", "EvtInverted",
                           "EvtSignal"} : n'[c] = n[c]
  BY <1>1 DEF Count, KeptCounters, Counters
<1>4. /\ n'.BeforeFullEvt = n.BeforeFullEvt
      /\ n'.AfterFullEvt = n.AfterFullEvt /\ n'.EvtAccepted = n.EvtAccepted
      /\ n'.EvtGenerated = n.EvtGenerated /\ n'.IntGenerated = n.IntGenerated
      /\ n'.OnebGen = n.OnebGen /\ n'.OnebAcc = n.OnebAcc
      /\ n'.IntAccepted = n.IntAccepted
  BY <1>3 DEF Counters
<1>5. CutPassed' = CutPassed + 1
  BY <1>2, CounterTypes DEF CutPassed
<1>6. LevelOK'
  BY <1>1, <1>2, <1>4, <1>5, CounterTypes
     DEF CountersOK, LevelOK, Pending, CutPassed, SignalsKept, SignalMethods
<1>7. FullOK'
  BY <1>1, <1>4, CounterTypes DEF CountersOK, FullOK, EvtDue
<1>8. TriesOK'
  BY <1>1, <1>4, CounterTypes DEF CountersOK, TriesOK, EvtDue, IntDue, OnebDue
<1>9. QED
  BY <1>6, <1>7, <1>8 DEF CountersOK

\* The cut has been counted when the tool throws, the signal has not.
LEMMA NotIsolatedCount ==
  ASSUME TypeInv, CountersOK, NEW inverted \in BOOLEAN, SignalNotIsolated(inverted)
  PROVE  CountersOK'
<1>1. /\ pc = "look" /\ pc' = "failed" /\ clean
      /\ UNCHANGED <<method, clean, nPile>>
      /\ Count(KeptCounters(inverted) \ {"EvtSignal"})
  BY DEF SignalNotIsolated, config, position
<1>2. /\ n'.BeforeLevelCut = n.BeforeLevelCut + 1
      /\ n'.AfterLevelCut = n.AfterLevelCut + (IF inverted THEN 0 ELSE 1)
      /\ n'.EvtInverted = n.EvtInverted + (IF inverted THEN 1 ELSE 0)
  BY <1>1, CounterTypes DEF Count, KeptCounters, Counters
<1>3. \A c \in Counters \ {"BeforeLevelCut", "AfterLevelCut", "EvtInverted"} :
        n'[c] = n[c]
  BY <1>1 DEF Count, KeptCounters, Counters
<1>4. /\ n'.EvtSignal = n.EvtSignal /\ n'.BeforeFullEvt = n.BeforeFullEvt
      /\ n'.AfterFullEvt = n.AfterFullEvt /\ n'.EvtAccepted = n.EvtAccepted
      /\ n'.EvtGenerated = n.EvtGenerated /\ n'.IntGenerated = n.IntGenerated
      /\ n'.OnebGen = n.OnebGen /\ n'.OnebAcc = n.OnebAcc
      /\ n'.IntAccepted = n.IntAccepted
  BY <1>3 DEF Counters
<1>5. CutPassed' = CutPassed + 1
  BY <1>2, CounterTypes DEF CutPassed
<1>6. LevelOK'
  BY <1>1, <1>2, <1>4, <1>5, CounterTypes
     DEF CountersOK, LevelOK, Pending, CutPassed, SignalsKept
<1>7. FullOK'
  BY <1>1, <1>4, CounterTypes DEF CountersOK, FullOK, EvtDue
<1>8. TriesOK'
  BY <1>1, <1>4, CounterTypes DEF CountersOK, TriesOK, EvtDue, IntDue, OnebDue
<1>9. QED
  BY <1>6, <1>7, <1>8 DEF CountersOK

LEMMA AccountCount ==
  ASSUME TypeInv, CountersOK, NEW decayed \in BOOLEAN, NEW cut \in BOOLEAN,
         Account(decayed, cut)
  PROVE  CountersOK'
<1>1. PICK before \in 0..1, after \in 0..1 :
           /\ intCounter' \in UInt
           /\ after <= before
           /\ before = 1 => nPile > 0 /\ good
           /\ after = 1 => nPile > 0
           /\ pc' = IF nPile = 0 \/ after = 1 THEN "accept" ELSE "start"
           /\ n'.EvtGenerated = n.EvtGenerated + 1
           /\ n'.IntGenerated = n.IntGenerated + nPile
           /\ n'.OnebGen = n.OnebGen + (IF nPile = 0 THEN 0 ELSE intCounter')
           /\ n'.BeforeFullEvt = n.BeforeFullEvt + before
           /\ n'.AfterFullEvt = n.AfterFullEvt + after
           /\ \A c \in Counters \ {"EvtGenerated", "IntGenerated", "OnebGen",
                                 "BeforeFullEvt", "AfterFullEvt"} : n'[c] = n[c]
  BY AccountCounts
<1>2. /\ n'.BeforeLevelCut = n.BeforeLevelCut /\ n'.AfterLevelCut = n.AfterLevelCut
      /\ n'.EvtInverted = n.EvtInverted /\ n'.EvtSignal = n.EvtSignal
      /\ n'.EvtAccepted = n.EvtAccepted /\ n'.OnebAcc = n.OnebAcc
      /\ n'.IntAccepted = n.IntAccepted
  BY <1>1 DEF Counters
<1>3. pc = "account" /\ UNCHANGED <<method, clean, nPile>>
  BY DEF Account, config, position
<1>4. LevelOK'
  BY <1>1, <1>2, <1>3, CounterTypes DEF CountersOK, LevelOK, CutPassed, Pending, SignalsKept
<1>5. FullOK'
  BY <1>1, <1>2, <1>3, CounterTypes DEF CountersOK, FullOK, EvtDue
<1>6. TriesOK'
  <2>1. intCounter' \in Nat
    BY <1>1, UIntNat
  <2>2. EvtDue = 0 /\ IntDue = 0 /\ OnebDue = 0
    BY <1>3 DEF EvtDue, IntDue, OnebDue
  <2>3. CASE pc' = "start"
    <3>1. EvtDue' = 0 /\ IntDue' = 0 /\ OnebDue' = 0
      BY <2>3 DEF EvtDue, IntDue, OnebDue
    <3>2. QED
      BY <1>1, <1>2, <2>1, <2>2, <3>1, CounterTypes DEF CountersOK, TriesOK
  <2>4. CASE pc' = "accept"
    <3>1. /\ EvtDue' = 1 /\ IntDue' = nPile
          /\ OnebDue' = IF nPile = 0 THEN 0 ELSE intCounter'
      BY <1>3, <2>4, CounterTypes DEF EvtDue, IntDue, OnebDue
    <3>2. QED
      BY <1>1, <1>2, <2>1, <2>2, <3>1, CounterTypes DEF CountersOK, TriesOK
  <2>5. QED
    BY <1>1, <2>3, <2>4
<1>7. QED
  BY <1>4, <1>5, <1>6 DEF CountersOK

LEMMA AcceptCount ==
  ASSUME TypeInv, CountersOK, Accept
  PROVE  CountersOK'
<1>1. /\ n'.EvtAccepted = n.EvtAccepted + 1
      /\ n'.IntAccepted = n.IntAccepted + nPile
      /\ n'.OnebAcc = n.OnebAcc + (IF nPile = 0 THEN 0 ELSE intCounter)
      /\ \A c \in Counters \ {"EvtAccepted", "IntAccepted", "OnebAcc"} : n'[c] = n[c]
  BY AcceptCounts
<1>2. /\ n'.BeforeLevelCut = n.BeforeLevelCut /\ n'.AfterLevelCut = n.AfterLevelCut
      /\ n'.EvtInverted = n.EvtInverted /\ n'.EvtSignal = n.EvtSignal
      /\ n'.BeforeFullEvt = n.BeforeFullEvt /\ n'.AfterFullEvt = n.AfterFullEvt
      /\ n'.EvtGenerated = n.EvtGenerated /\ n'.IntGenerated = n.IntGenerated
      /\ n'.OnebGen = n.OnebGen
  BY <1>1 DEF Counters
<1>3. /\ pc = "accept" /\ pc' = "accepted"
      /\ UNCHANGED <<method, clean, nPile, intCounter>>
  BY DEF Accept, config, position
<1>4. LevelOK'
  BY <1>2, <1>3, CounterTypes DEF CountersOK, LevelOK, CutPassed, Pending, SignalsKept
<1>5. FullOK'
  BY <1>1, <1>2, <1>3, CounterTypes DEF CountersOK, FullOK, EvtDue
<1>6. TriesOK'
  BY <1>1, <1>2, <1>3, CounterTypes DEF CountersOK, TriesOK, EvtDue, IntDue, OnebDue
<1>7. QED
  BY <1>4, <1>5, <1>6 DEF CountersOK

\* The counters start again for the next event of the thread.
LEMMA NextEventCount ==
  ASSUME TypeInv, CountersOK, NextEvent
  PROVE  CountersOK'
<1>1. /\ pc \in {"accepted", "failed"} /\ pc' = "start"
      /\ UNCHANGED <<method, clean, n>>
  BY DEF NextEvent, config
<1>2. LevelOK'
  BY <1>1, CounterTypes DEF CountersOK, LevelOK, CutPassed, Pending, SignalsKept
<1>3. FullOK'
  BY <1>1, CounterTypes DEF CountersOK, FullOK, EvtDue
<1>4. TriesOK'
  BY <1>1, CounterTypes DEF CountersOK, TriesOK, EvtDue, IntDue, OnebDue
<1>5. QED
  BY <1>2, <1>3, <1>4 DEF CountersOK

\* The cut on the generator level says no, or the signal's decay fails.
LEMMA CutCount ==
  ASSUME TypeInv, NEW cs \in SUBSET {"BeforeLevelCut"}, Count(cs)
  PROVE  /\ \A c \in Counters \ {"BeforeLevelCut"} : n'[c] = n[c]
         /\ n'.BeforeLevelCut \in Nat /\ n'.BeforeLevelCut >= n.BeforeLevelCut
<1>1. n.BeforeLevelCut \in Nat
  BY CounterTypes
<1>2. n'.BeforeLevelCut \in {n.BeforeLevelCut, n.BeforeLevelCut + 1}
  BY DEF Count, Counters
<1>3. \A c \in Counters \ {"BeforeLevelCut"} : n'[c] = n[c]
  BY DEF Count
<1>4. QED
  BY <1>1, <1>2, <1>3

\* The steps that leave the record alone.
LEMMA NothingCounted ==
  ASSUME TypeInv, CountersOK, UNCHANGED <<method, clean, n>>,
         Pending' => Pending,
         pc \notin {"accept", "accepted"}, pc' \notin {"accept", "accepted"}
  PROVE  CountersOK'
BY CounterTypes, SameCounters

LEMMA NextCount ==
  ASSUME TypeInv, CountersOK, [Next]_vars
  PROVE  CountersOK'
<1>1. ASSUME NEW k \in 0..MaxPile, StartTry(k) PROVE CountersOK'
  <2>1. /\ pc = "start" /\ pc' \in {"account", "signal", "generate"}
        /\ UNCHANGED <<method, clean, n>> /\ nPile' = k
    BY <1>1 DEF StartTry, config
  <2>2. good' <=> k = 0 \/ method = "MinimumBias"
    BY <1>1, Zenon DEF StartTry
  <2>3. CASE method = "MinimumBias"
    BY <2>1, <2>3, CounterTypes
       DEF CountersOK, LevelOK, FullOK, TriesOK, CutPassed, EvtDue, IntDue, OnebDue,
           SignalMethods
  <2>4. CASE method # "MinimumBias"
    BY <2>1, <2>2, <2>4, GenerationAssumption, NothingCounted DEF Pending
  <2>5. QED
    BY <2>3, <2>4
<1>2. CASE \E b \in BOOLEAN : Generate(b) \/ Hadronize(b) \/ SignalAbsent(b)
  <2>1. /\ UNCHANGED <<method, clean, n, good, nPile>>
        /\ pc \in {"generate", "hadronize", "look"}
        /\ pc' \in {"generate", "hadronize", "look", "account"}
        /\ pc = "look" => ~good
    BY <1>2 DEF Generate, Hadronize, SignalAbsent, NextInteraction, config, position,
                TypeInv, AtInteraction
  <2>2. QED
    BY <2>1, NothingCounted DEF Pending
<1>3. CASE DecaySignalAtRest \/ GenerateFails \/ Crash
  <2>1. /\ UNCHANGED <<method, clean, n, good, nPile>>
        /\ pc \in {"signal", "generate", "account"}
        /\ pc' \in {"account", "generate", "crashed", "failed"}
        /\ pc = "signal" => ~good
    BY <1>3 DEF DecaySignalAtRest, GenerateFails, Crash, config, position,
                TypeInv, AtInteraction
  <2>2. QED
    BY <2>1, NothingCounted DEF Pending
<1>4. CASE \E b \in BOOLEAN : SignalUnusable(b)
  <2>1. /\ UNCHANGED <<method, clean, n, good, nPile>>
        /\ pc = "look" /\ ~good /\ pc' \in {"generate", "account"}
    BY <1>4 DEF SignalUnusable, Dropped, NextInteraction, config, position,
                TypeInv, AtInteraction
  <2>2. QED
    BY <2>1, NothingCounted DEF Pending
<1>5. CASE SignalDecayFails \/ \E b \in BOOLEAN : SignalCut(b)
  <2>1. /\ UNCHANGED <<method, clean, good, nPile>>
        /\ pc = "look" /\ ~good /\ pc' \in {"generate", "account"}
        /\ \E cs \in SUBSET {"BeforeLevelCut"} : Count(cs)
    BY <1>5 DEF SignalDecayFails, SignalCut, Dropped, NextInteraction, config,
                position, TypeInv, AtInteraction
  <2>2. /\ \A c \in Counters \ {"BeforeLevelCut"} : n'[c] = n[c]
        /\ n'.BeforeLevelCut \in Nat /\ n'.BeforeLevelCut >= n.BeforeLevelCut
    BY <2>1, CutCount
  <2>3. QED
    BY <2>1, <2>2, SameCounters DEF Pending
<1>6. CASE UNCHANGED vars
  BY <1>6 DEF vars, CountersOK, LevelOK, FullOK, TriesOK, CutPassed, SignalsKept,
              Pending, EvtDue, IntDue, OnebDue
<1>7. QED
  BY <1>1, <1>2, <1>3, <1>4, <1>5, <1>6, KeptCount, NotIsolatedCount, AccountCount, AcceptCount,
     NextEventCount DEF Next, Stopped

\* The counters of the thread's record, from which the efficiencies are made,
\* agree after every try and every event, whatever theIntCounter starts from and
\* wherever a tool throws.
THEOREM CountersDoAgree == Spec => []CountersAgree
<1>1. Init => CountersOK
  <2> SUFFICES ASSUME Init PROVE CountersOK
    OBVIOUS
  <2>1. \A c \in Counters : n[c] = 0
    BY DEF Init
  <2>2. /\ n.EvtGenerated = 0 /\ n.IntGenerated = 0 /\ n.OnebGen = 0
        /\ n.BeforeLevelCut = 0 /\ n.AfterLevelCut = 0 /\ n.EvtInverted = 0
        /\ n.EvtSignal = 0 /\ n.BeforeFullEvt = 0 /\ n.AfterFullEvt = 0
        /\ n.EvtAccepted = 0 /\ n.IntAccepted = 0 /\ n.OnebAcc = 0
    BY <2>1 DEF Counters
  <2>3. QED
    BY <2>2 DEF Init, CountersOK, LevelOK, FullOK, TriesOK, CutPassed, SignalsKept,
                Pending, EvtDue, IntDue, OnebDue
<1>2. TypeInv /\ CountersOK /\ [Next]_vars => CountersOK'
  BY NextCount
<1>3. TypeInv /\ CountersOK => CountersAgree
  BY CounterTypes
     DEF CountersOK, LevelOK, FullOK, TriesOK, CutPassed, Pending, EvtDue, IntDue,
         OnebDue, CountersAgree
<1>4. QED
  BY <1>1, <1>2, <1>3, TypeInvariant, PTL DEF Spec

=============================================================================
