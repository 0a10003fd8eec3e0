-------------------------- MODULE TruthTrackingProofs --------------------------
(***************************************************************************)
(* Proofs about the recording of the truth, for any number of tracks and   *)
(* particles and any decay tree.                                           *)
(*                                                                         *)
(* StackInv says where a track is (on Geant4's stack, being tracked, a new *)
(* secondary of the current one, or done with), that at most one track     *)
(* stands for a particle, and that a track that is in the record and still *)
(* has to be tracked is marked as saved.  EndInv relates the parent IDs    *)
(* to the tracks that made the secondaries, and the buffered ends to the   *)
(* record.  Both hold for all options.  RecordInv says that parents are    *)
(* recorded before their daughters' turn comes; it needs that primaries    *)
(* are stored, and that no track has been marked as saved that was not.    *)
(* LineageInv knows the parent of each track from the one that made it, as *)
(* long as none has been suspended.  DecayInv follows the daughters of a   *)
(* decay from the stack to the record; it needs that decay products are    *)
(* stored.                                                                 *)
(***************************************************************************)
EXTENDS TruthTracking, TLAPS

Busy == phase # "idle"

PostTracking == phase \in {"ended", "suspended"}

\* Tracks at work: the current one and its new secondaries.
AtWork == IF Busy THEN {current} \cup secondaries ELSE {}

StackOK ==
  /\ waiting \subseteq Made
  /\ Busy => /\ current \in Made /\ current \notin waiting
             /\ secondaries \subseteq Made
             /\ secondaries \cap (waiting \cup linked \cup {current}) = {}
  /\ linked \subseteq Made

OneTrackEach ==
  \A s, t \in Made : particle[s] # NoParticle /\ particle[s] = particle[t] => s = t

\* A particle gets its truth from its own track; a track that is recorded and
\* not done with is marked as saved.
TruthOnce ==
  /\ \A g \in truth : \E t \in linked : particle[t] = g
  /\ \A t \in linked : t \in waiting \/ (Busy /\ t = current) => t \in savedEarly

StackInv == TypeOK /\ StackOK /\ OneTrackEach /\ TruthOnce /\ RegisteredOnce

\* Primaries, and who made the others.
Makers ==
  \A t \in Made :
    /\ Primary(t) => parentID[t] = Root /\ particle[t] # NoParticle
    /\ Primary(t) /\ Busy => t \notin secondaries
    /\ Primary(t) \/ t \in indirect \/ parentID[t] = maker[t]

EndsKept ==
  /\ linked \subseteq storeTruth
  /\ ended \subseteq linked
  /\ AddEndVertices =>
       \A t \in linked : t \in ended \/ t \in waiting \/ (Busy /\ t = current)

EndsOwned == \A v \in endVertices : v[2] \in Made /\ maker[v[2]] = v[1]

EndInv == Makers /\ EndsKept /\ EndsOwned

Parents ==
  \A t \in Made : ~Primary(t) =>
    \/ parentID[t] \in linked
    \/ /\ Busy /\ t \in secondaries /\ parentID[t] = current
       /\ PostTracking => current \in storeTruth

Flagged == storeTruth \subseteq linked \cup waiting \cup AtWork

Hits ==
  \A t \in Tracks : \A i \in hitIDs[t] :
    \/ i \in linked
    \/ Busy /\ t = current /\ i = current /\ (PostTracking => current \in storeTruth)

RecordInv == MarkedAreSaved => Parents /\ Flagged /\ Hits

-----------------------------------------------------------------------------
(* Types.                                                                  *)

\* A new track gets the next number.
LEMMA NewTrackNumber ==
  ASSUME TypeOK, NEW g, NEW by, NEW parent, NewTrack(g, by, parent)
  PROVE  /\ next \in Tracks /\ next \notin Made
         /\ Made' = Made \cup {next}
         /\ maker' = [maker EXCEPT ![next] = by]
         /\ particle' = [particle EXCEPT ![next] = g]
         /\ parentID' = [parentID EXCEPT ![next] = parent]
<1>1. next \in 1..(MaxTracks + 1) /\ next <= MaxTracks /\ next' = next + 1
  BY DEF TypeOK, NewTrack
<1>2. next \in Nat /\ MaxTracks \in Nat /\ next > 0  BY <1>1, TruthAssumption
<1>3. next \in Tracks /\ next \notin Made  BY <1>1, <1>2 DEF Made, Tracks
<1>4. Made' = 1..next  BY <1>1, <1>2 DEF Made
<1>5. 1..next = Made \cup {next}  BY <1>2 DEF Made
<1>. QED  BY <1>3, <1>4, <1>5 DEF NewTrack

LEMMA MadeAreTracks == ASSUME TypeOK PROVE Made \subseteq Tracks
  BY TruthAssumption DEF TypeOK, Made, Tracks

LEMMA AdoptType ==
  ASSUME TypeOK, NEW stored \in BOOLEAN
  PROVE  /\ Adopt(stored) \in [Tracks -> Tracks \cup {Root}]
         /\ MovedHits(stored) \in SUBSET (Tracks \cup {Root})
  BY DEF TypeOK, Adopt, MovedHits

LEMMA TypeInit == Init => TypeOK
<1>1. 1 \in 1..(MaxTracks + 1) /\ 1 \in Tracks /\ 0 \in 0..MaxSuspensions
  BY TruthAssumption DEF Tracks
<1>. QED  BY <1>1 DEF Init, TypeOK, Root, Phases

LEMMA TypeStep == ASSUME TypeOK, [Next]_vars PROVE TypeOK'
<1>. USE TruthAssumption
<1>1. ASSUME NEW g \in Particles, MakePrimary(g) PROVE TypeOK'
  <2>1. NewTrack(g, next, Root)  BY <1>1 DEF MakePrimary
  <2>2. next \in Tracks  BY <2>1, NewTrackNumber
  <2>3. next' \in 1..(MaxTracks + 1)  BY <2>1 DEF NewTrack, TypeOK
  <2>. QED  BY <1>1, <2>1, <2>2, <2>3
           DEF MakePrimary, NewTrack, TypeOK, infoVars, truthVars
<1>2. ASSUME NEW d \in Particles, DecayInto(d) PROVE TypeOK'
  <2>1. NewTrack(d, current, current)  BY <1>2 DEF DecayInto
  <2>2. next \in Tracks  BY <2>1, NewTrackNumber
  <2>3. next' \in 1..(MaxTracks + 1)  BY <2>1 DEF NewTrack, TypeOK
  <2>. QED  BY <1>2, <2>1, <2>2, <2>3
           DEF DecayInto, NewTrack, TypeOK, infoVars, truthVars, Phases
<1>3. CASE MakeSecondary
  <2>1. NewTrack(NoParticle, current, current)  BY <1>3 DEF MakeSecondary
  <2>2. next \in Tracks  BY <2>1, NewTrackNumber
  <2>3. next' \in 1..(MaxTracks + 1)  BY <2>1 DEF NewTrack, TypeOK
  <2>. QED  BY <1>3, <2>1, <2>2, <2>3
           DEF MakeSecondary, NewTrack, TypeOK, infoVars, truthVars
<1>4. ASSUME NEW t \in Tracks, StartTracking(t) PROVE TypeOK'
  BY <1>4 DEF StartTracking, TypeOK, Phases, truthVars
<1>5. CASE ProcessHits
  BY <1>5 DEF ProcessHits, TypeOK, g4Vars, truthVars
<1>6. ASSUME NEW why \in {"ended", "suspended"}, FlagTruth(why) PROVE TypeOK'
  <2>1. PICK stored \in BOOLEAN, forced \in BOOLEAN :
          /\ storeTruth' = storeTruth \cup ForcedDaughters(forced)
                                      \cup (IF stored THEN {current} ELSE {})
          /\ parentID' = Adopt(stored)
          /\ indirect' = indirect \cup Orphans(stored)
          /\ hitIDs' = [hitIDs EXCEPT ![current] = MovedHits(stored)]
    BY <1>6 DEF FlagTruth, Assigned, TypeOK
  <2>2. suspends' \in 0..MaxSuspensions  BY <1>6 DEF FlagTruth, TypeOK
  <2>. QED  BY <1>6, <2>1, <2>2, AdoptType, ZenonT(30)
           DEF FlagTruth, TypeOK, Phases, ForcedDaughters, Orphans, truthVars
<1>7. CASE RecordTruth
  <2>1. /\ savedEarly' \subseteq Tracks /\ truth' \subseteq Particles
        /\ linked' \subseteq Tracks /\ parentLP' \in [Tracks -> Tracks]
        /\ clash' \in BOOLEAN
    BY <1>7 DEF RecordTruth, RegisterPrimary, Declare, MarkSaved, TypeOK
  <2>. QED  BY <1>7, <2>1 DEF RecordTruth, BufferEnd, BackToStack, TypeOK, Phases
<1>8. CASE PassOver
  <2>1. savedEarly' \subseteq Tracks  BY <1>8 DEF PassOver, MarkSaved, TypeOK
  <2>2. endVertices' \subseteq Tracks \X Tracks
    BY <1>8 DEF PassOver, DeclareEnd, TypeOK
  <2>. QED  BY <1>8, <2>1, <2>2 DEF PassOver, BackToStack, TypeOK, Phases
<1>9. CASE UNCHANGED vars
  BY <1>9 DEF vars, g4Vars, infoVars, truthVars, TypeOK
<1>. QED  BY <1>1, <1>2, <1>3, <1>4, <1>5, <1>6, <1>7, <1>8, <1>9
         DEF Next, Terminated

\* The variables keep their types.
THEOREM TypeCorrect == Spec => []TypeOK
  BY TypeInit, TypeStep, PTL DEF Spec

-----------------------------------------------------------------------------
(* Where tracks are, and that none is registered twice.                    *)

LEMMA StackInit == Init => StackInv
<1>1. ASSUME Init PROVE Made = {}  BY <1>1 DEF Init, Made
<1>. QED
  BY <1>1, TypeInit DEF Init, StackInv, StackOK, OneTrackEach, TruthOnce,
                        RegisteredOnce, Busy

\* A new track stands for a particle that no other stands for, or for none.
LEMMA NewTrackIsNew ==
  ASSUME StackInv, NEW g, NEW by, NEW parent, NewTrack(g, by, parent),
         g # NoParticle => ~Tracked(g)
  PROVE  /\ OneTrackEach'
         /\ \A t \in Made : particle'[t] = particle[t]
<1>1. /\ next \in Tracks /\ next \notin Made /\ Made' = Made \cup {next}
      /\ particle' = [particle EXCEPT ![next] = g]
  BY NewTrackNumber DEF StackInv
<1>2. /\ particle \in [Tracks -> Particles \cup {NoParticle}]
      /\ truth \subseteq Particles /\ NoParticle \notin Particles
  BY TruthAssumption DEF StackInv, TypeOK
<1>3. Made \subseteq Tracks  BY MadeAreTracks DEF StackInv
<1>4. /\ particle'[next] = g
      /\ \A t \in Made : particle'[t] = particle[t]
  BY <1>1, <1>2, <1>3
<1>5. ~(g # NoParticle /\ \E t \in Made : particle[t] = g)
  BY DEF Tracked, Made
<1>. QED  BY <1>1, <1>4, <1>5 DEF StackInv, OneTrackEach

\* A new secondary of the current track.
LEMMA SecondaryStack ==
  ASSUME StackInv, NEW g, NewTrack(g, current, current),
         g # NoParticle => ~Tracked(g), Busy, Busy',
         secondaries' = secondaries \cup {next},
         waiting' = waiting, current' = current, linked' = linked,
         truth' = truth, savedEarly' = savedEarly, clash' = clash
  PROVE  StackOK' /\ OneTrackEach' /\ TruthOnce' /\ RegisteredOnce'
<1>1. next \notin Made /\ Made' = Made \cup {next}
  BY NewTrackNumber DEF StackInv
<1>2. OneTrackEach' /\ \A t \in Made : particle'[t] = particle[t]
  BY NewTrackIsNew
<1>3. StackOK'  BY <1>1 DEF StackInv, StackOK, Busy
<1>4. TruthOnce'  BY <1>2 DEF StackInv, StackOK, TruthOnce, Busy
<1>. QED  BY <1>2, <1>3, <1>4 DEF StackInv, RegisteredOnce

LEMMA StackStep == ASSUME StackInv, [Next]_vars PROVE StackInv'
<1>0. TypeOK'  BY TypeStep DEF StackInv
<1>a. MaxTracks \in Nat /\ NoParticle \notin Particles  BY TruthAssumption
<1>1. ASSUME NEW g \in Particles, MakePrimary(g) PROVE StackInv'
  <2>1. NewTrack(g, next, Root) /\ ~Tracked(g) /\ waiting' = waiting \cup {next}
    BY <1>1 DEF MakePrimary
  <2>2. next \notin Made /\ Made' = Made \cup {next}
    BY <2>1, NewTrackNumber DEF StackInv
  <2>3. OneTrackEach' /\ \A t \in Made : particle'[t] = particle[t]
    BY <2>1, NewTrackIsNew
  <2>4. StackOK'
    BY <1>1, <2>1, <2>2 DEF MakePrimary, truthVars, StackInv, StackOK, Busy
  <2>5. TruthOnce'
    BY <1>1, <2>1, <2>2, <2>3
       DEF MakePrimary, truthVars, infoVars, StackInv, StackOK, TruthOnce, Busy
  <2>. QED  BY <1>0, <1>1, <2>3, <2>4, <2>5
           DEF MakePrimary, truthVars, StackInv, RegisteredOnce
<1>2. ASSUME NEW d \in Particles, DecayInto(d) PROVE StackInv'
  BY <1>0, <1>2, SecondaryStack
     DEF DecayInto, infoVars, truthVars, Busy, StackInv
<1>3. CASE MakeSecondary
  BY <1>0, <1>3, SecondaryStack
     DEF MakeSecondary, infoVars, truthVars, Busy, StackInv
<1>4. ASSUME NEW t \in Tracks, StartTracking(t) PROVE StackInv'
  <2>1. /\ t \in waiting /\ waiting' = waiting \ {t} /\ Busy' /\ ~Busy
        /\ current' = t /\ secondaries' = {} /\ next' = next
        /\ particle' = particle /\ linked' = linked /\ truth' = truth
        /\ savedEarly' = savedEarly /\ clash' = clash
    BY <1>4 DEF StartTracking, Busy, truthVars
  <2>2. Made' = Made  BY <2>1 DEF Made
  <2>3. StackOK'  BY <2>1, <2>2 DEF StackInv, StackOK
  <2>4. TruthOnce'  BY <2>1 DEF StackInv, TruthOnce
  <2>. QED  BY <1>0, <2>1, <2>2, <2>3, <2>4
           DEF StackInv, OneTrackEach, RegisteredOnce
<1>5. CASE ProcessHits
  BY <1>0, <1>5 DEF ProcessHits, g4Vars, truthVars, StackInv, StackOK,
                    OneTrackEach, TruthOnce, RegisteredOnce, Busy, Made
<1>6. ASSUME NEW why \in {"ended", "suspended"}, FlagTruth(why) PROVE StackInv'
  <2>1. Busy /\ Busy'  BY <1>6 DEF FlagTruth, Busy
  <2>. QED  BY <1>0, <1>6, <2>1
           DEF FlagTruth, truthVars, StackInv, StackOK, OneTrackEach, TruthOnce,
               RegisteredOnce, Made
<1>7. CASE RecordTruth
  <2>1. /\ Busy /\ ~Busy' /\ next' = next /\ particle' = particle
        /\ waiting' = waiting \cup secondaries
                        \cup (IF phase = "suspended" THEN {current} ELSE {})
    BY <1>7 DEF RecordTruth, BackToStack, Busy
  <2>2. Made' = Made  BY <2>1 DEF Made
  <2>3. \/ linked' = linked /\ truth' = truth
        \/ linked' = linked \cup {current} /\ truth' = truth
        \/ /\ linked' = linked \cup {current}
           /\ truth' = truth \cup {particle[current]}
    BY <1>7 DEF RecordTruth, RegisterPrimary, Declare
  <2>4. StackOK'  BY <2>1, <2>2, <2>3 DEF StackInv, StackOK
  <2>5. savedEarly \subseteq savedEarly'
    BY <1>7 DEF RecordTruth, MarkSaved
  <2>6. phase = "suspended" => current \in savedEarly'
    BY <1>7 DEF RecordTruth, MarkSaved
  <2>7. \A g \in truth' : \E t \in linked' : particle'[t] = g
    BY <2>1, <2>3 DEF StackInv, TruthOnce
  <2>8. \A t \in linked' : t \in waiting' => t \in savedEarly'
    BY <2>1, <2>3, <2>5, <2>6 DEF StackInv, StackOK, TruthOnce
  <2>9. current \notin savedEarly => particle[current] \notin truth
    BY <2>1, <1>a DEF StackInv, StackOK, TypeOK, OneTrackEach, TruthOnce
  <2>10. clash' = clash
    BY <1>7, <2>9 DEF RecordTruth, RegisterPrimary, Declare
  <2>. QED  BY <1>0, <2>1, <2>2, <2>4, <2>7, <2>8, <2>10
           DEF StackInv, OneTrackEach, TruthOnce, RegisteredOnce
<1>8. CASE PassOver
  <2>1. /\ Busy /\ ~Busy' /\ next' = next /\ particle' = particle
        /\ waiting' = waiting \cup secondaries
                        \cup (IF phase = "suspended" THEN {current} ELSE {})
        /\ linked' = linked /\ truth' = truth /\ clash' = clash
    BY <1>8 DEF PassOver, BackToStack, Busy
  <2>2. Made' = Made  BY <2>1 DEF Made
  <2>3. savedEarly \subseteq savedEarly'
    BY <1>8 DEF PassOver, MarkSaved
  <2>4. StackOK'  BY <2>1, <2>2 DEF StackInv, StackOK
  <2>5. TruthOnce'  BY <2>1, <2>3 DEF StackInv, StackOK, TruthOnce
  <2>. QED  BY <1>0, <2>1, <2>2, <2>4, <2>5
           DEF StackInv, OneTrackEach, RegisteredOnce
<1>9. CASE UNCHANGED vars
  BY <1>0, <1>9 DEF vars, g4Vars, infoVars, truthVars, StackInv, StackOK,
                    OneTrackEach, TruthOnce, RegisteredOnce, Busy, Made
<1>. QED  BY <1>1, <1>2, <1>3, <1>4, <1>5, <1>6, <1>7, <1>8, <1>9
         DEF Next, Terminated

LEMMA StackAlways == Spec => []StackInv
  BY StackInit, StackStep, PTL DEF Spec

\* However often a track is suspended, its particle gets its truth once:
\* RegisterPrimary never finds one there.
THEOREM PrimariesAreRegisteredOnce == Spec => []RegisteredOnce
<1>1. StackInv => RegisteredOnce  BY DEF StackInv
<1>. QED  BY <1>1, StackAlways, PTL

-----------------------------------------------------------------------------
(* End vertices.                                                           *)

LEMMA EndInit == Init => EndInv
<1>1. ASSUME Init PROVE Made = {}  BY <1>1 DEF Init, Made
<1>. QED  BY <1>1 DEF Init, EndInv, Makers, EndsKept, EndsOwned

LEMMA NewTrackMakers ==
  ASSUME StackInv, EndInv, NEW g, NEW by \in Tracks, NEW parent \in Tracks \cup {Root},
         NewTrack(g, by, parent), indirect' = indirect,
         \/ by = next /\ parent = Root /\ g # NoParticle
            /\ secondaries' = secondaries
         \/ by # next /\ parent = by /\ secondaries' = secondaries \cup {next},
         Busy' = Busy
  PROVE  Makers' /\ \A t \in Made : maker'[t] = maker[t]
<1>1. /\ next \in Tracks /\ next \notin Made /\ Made' = Made \cup {next}
      /\ maker' = [maker EXCEPT ![next] = by]
      /\ particle' = [particle EXCEPT ![next] = g]
      /\ parentID' = [parentID EXCEPT ![next] = parent]
  BY NewTrackNumber DEF StackInv
<1>2. /\ maker \in [Tracks -> Tracks]
      /\ particle \in [Tracks -> Particles \cup {NoParticle}]
      /\ parentID \in [Tracks -> Tracks \cup {Root}]
  BY DEF StackInv, TypeOK
<1>3. Made \subseteq Tracks  BY MadeAreTracks DEF StackInv
<1>4. /\ maker'[next] = by /\ particle'[next] = g /\ parentID'[next] = parent
      /\ \A t \in Made : /\ maker'[t] = maker[t] /\ particle'[t] = particle[t]
                         /\ parentID'[t] = parentID[t]
  BY <1>1, <1>2, <1>3
<1>5. Busy => secondaries \subseteq Made  BY DEF StackInv, StackOK
<1>. QED  BY <1>1, <1>4, <1>5 DEF EndInv, Makers, Primary

LEMMA EndStep == ASSUME StackInv, EndInv, [Next]_vars PROVE EndInv'
<1>0. StackInv' /\ Made \subseteq Tracks  BY StackStep, MadeAreTracks DEF StackInv
<1>1. ASSUME NEW g \in Particles, MakePrimary(g) PROVE EndInv'
  <2>1. /\ NewTrack(g, next, Root) /\ next \in Tracks /\ g # NoParticle
        /\ Made \subseteq Made' /\ indirect' = indirect
        /\ secondaries' = secondaries /\ Busy' = Busy
    BY <1>1, NewTrackNumber, TruthAssumption
       DEF MakePrimary, StackInv, infoVars, Busy
  <2>2. Makers' /\ \A t \in Made : maker'[t] = maker[t]
    BY <2>1, NewTrackMakers
  <2>3. EndsOwned'  BY <1>1, <2>1, <2>2 DEF MakePrimary, truthVars, EndInv, EndsOwned
  <2>4. EndsKept'
    BY <1>1, <2>1 DEF MakePrimary, infoVars, truthVars, EndInv, EndsKept
  <2>. QED  BY <2>2, <2>3, <2>4 DEF EndInv
<1>2. ASSUME NEW g, NewTrack(g, current, current), Busy, Busy',
             secondaries' = secondaries \cup {next},
             UNCHANGED <<waiting, current, infoVars, truthVars>>
      PROVE  EndInv'
  <2>1. /\ current \in Tracks /\ current # next
        /\ Made \subseteq Made' /\ indirect' = indirect
    BY <1>2, NewTrackNumber DEF StackInv, StackOK, TypeOK, infoVars
  <2>2. Makers' /\ \A t \in Made : maker'[t] = maker[t]
    BY <1>2, <2>1, NewTrackMakers
  <2>3. EndsOwned'  BY <1>2, <2>1, <2>2 DEF truthVars, EndInv, EndsOwned
  <2>4. EndsKept'  BY <1>2, <2>1 DEF infoVars, truthVars, EndInv, EndsKept
  <2>. QED  BY <2>2, <2>3, <2>4 DEF EndInv
<1>3. ASSUME NEW d \in Particles, DecayInto(d) PROVE EndInv'
  BY <1>2, <1>3 DEF DecayInto, Busy
<1>4. CASE MakeSecondary
  BY <1>2, <1>4 DEF MakeSecondary, Busy
<1>5. ASSUME NEW t \in Tracks, StartTracking(t) PROVE EndInv'
  <2>1. /\ t \in waiting /\ waiting' = waiting \ {t} /\ Busy' /\ ~Busy
        /\ current' = t /\ secondaries' = {} /\ next' = next
        /\ maker' = maker /\ particle' = particle /\ parentID' = parentID
        /\ indirect' = indirect /\ linked' = linked /\ ended' = ended
        /\ endVertices' = endVertices /\ storeTruth \subseteq storeTruth'
    BY <1>5 DEF StartTracking, Busy, truthVars
  <2>2. Made' = Made  BY <2>1 DEF Made
  <2>. QED  BY <2>1, <2>2 DEF EndInv, Makers, Primary, EndsKept, EndsOwned
<1>6. CASE ProcessHits
  <2>1. /\ storeTruth \subseteq storeTruth' /\ Busy' = Busy /\ Made' = Made
    BY <1>6 DEF ProcessHits, g4Vars, Busy, Made
  <2>. QED  BY <1>6, <2>1 DEF ProcessHits, g4Vars, truthVars, EndInv, Makers,
                              Primary, EndsKept, EndsOwned
<1>7. ASSUME NEW why \in {"ended", "suspended"}, FlagTruth(why) PROVE EndInv'
  <2>1. /\ Busy /\ Busy' /\ Made' = Made /\ maker' = maker /\ particle' = particle
        /\ secondaries' = secondaries /\ current' = current /\ waiting' = waiting
        /\ linked' = linked /\ ended' = ended /\ endVertices' = endVertices
    BY <1>7 DEF FlagTruth, Busy, truthVars, Made
  <2>2. PICK stored \in BOOLEAN, forced \in BOOLEAN :
          /\ storeTruth' = storeTruth \cup ForcedDaughters(forced)
                                      \cup (IF stored THEN {current} ELSE {})
          /\ parentID' = Adopt(stored)
          /\ indirect' = indirect \cup Orphans(stored)
    BY <1>7 DEF FlagTruth, Assigned, StackInv, TypeOK
  <2>3. \A t \in Made : \/ parentID'[t] = parentID[t]
                        \/ ~stored /\ t \in secondaries
    BY <1>0, <2>2 DEF Adopt
  <2>4. indirect \subseteq indirect' /\ (~stored => secondaries \subseteq indirect')
    BY <2>2 DEF Orphans
  <2>5. Makers'  BY <2>1, <2>3, <2>4 DEF EndInv, Makers, Primary
  <2>6. EndsKept'  BY <2>1, <2>2 DEF EndInv, EndsKept
  <2>. QED  BY <2>1, <2>5, <2>6 DEF EndInv, EndsOwned
<1>8. CASE RecordTruth
  <2>1. /\ Busy /\ ~Busy' /\ Made' = Made /\ maker' = maker /\ particle' = particle
        /\ waiting' = waiting \cup secondaries
                        \cup (IF phase = "suspended" THEN {current} ELSE {})
        /\ parentID' = parentID /\ indirect' = indirect /\ current \in storeTruth
        /\ storeTruth' = storeTruth /\ endVertices' = endVertices
        /\ phase \in {"ended", "suspended"}
    BY <1>8 DEF RecordTruth, BackToStack, Busy, Made
  <2>2. linked' = linked \/ linked' = linked \cup {current}
    BY <1>8 DEF RecordTruth, RegisterPrimary, Declare
  <2>3. ended' = IF AddEndVertices /\ phase = "ended" /\ current \in linked'
                 THEN ended \cup {current} ELSE ended
    BY <1>8 DEF RecordTruth, BufferEnd
  <2>4. EndsKept'  BY <2>1, <2>2, <2>3 DEF EndInv, EndsKept
  <2>. QED  BY <2>1, <2>4 DEF EndInv, Makers, Primary, EndsOwned
<1>9. CASE PassOver
  <2>1. /\ Busy /\ ~Busy' /\ Made' = Made /\ maker' = maker /\ particle' = particle
        /\ waiting' = waiting \cup secondaries
                        \cup (IF phase = "suspended" THEN {current} ELSE {})
        /\ parentID' = parentID /\ indirect' = indirect /\ current \notin storeTruth
        /\ storeTruth' = storeTruth /\ linked' = linked /\ ended' = ended
    BY <1>9 DEF PassOver, BackToStack, Busy, Made
  <2>2. \/ endVertices' = endVertices
        \/ /\ endVertices' = endVertices \cup {<<parentID[current], current>>}
           /\ parentID[current] \in linked /\ current \notin indirect
    BY <1>9 DEF PassOver, DeclareEnd
  <2>3. current \in Made /\ linked \subseteq Tracks /\ Root \notin Tracks
    BY <2>1, TruthAssumption DEF StackInv, StackOK, TypeOK, Root, Tracks
  <2>4. parentID[current] \in linked /\ current \notin indirect
          => maker[current] = parentID[current]
    BY <2>3 DEF EndInv, Makers
  <2>5. EndsOwned'  BY <2>1, <2>2, <2>3, <2>4 DEF EndInv, EndsOwned
  <2>. QED  BY <2>1, <2>5 DEF EndInv, Makers, Primary, EndsKept
<1>10. CASE UNCHANGED vars
  BY <1>10 DEF vars, g4Vars, infoVars, truthVars, EndInv, Makers, Primary,
               EndsKept, EndsOwned, Busy, Made
<1>. QED  BY <1>1, <1>3, <1>4, <1>5, <1>6, <1>7, <1>8, <1>9, <1>10
         DEF Next, Terminated

LEMMA EndAlways == Spec => []EndInv
  BY EndInit, EndStep, StackAlways, PTL DEF Spec

\* DeclareEnd gives an end vertex only to the track that the track beginning
\* there came from.
THEOREM EndsAreOwn == Spec => []OwnEndVertices
<1>1. EndInv => OwnEndVertices  BY DEF EndInv, EndsOwned, OwnEndVertices
<1>. QED  BY <1>1, EndAlways, PTL

\* Once all is tracked, every recorded track has its end in the buffer,
\* however often it was suspended.
THEOREM EndsAreBuffered == Spec => []EndsBuffered
<1>1. EndInv => EndsBuffered
  BY DEF EndInv, EndsKept, EndsBuffered, EventOver, Busy
<1>. QED  BY <1>1, EndAlways, PTL

-----------------------------------------------------------------------------
(* Parents, flagged tracks and hits.                                       *)

LEMMA RecordInit == Init => RecordInv
<1>1. ASSUME Init PROVE Made = {}  BY <1>1 DEF Init, Made
<1>. QED  BY <1>1 DEF Init, RecordInv, Parents, Flagged, Hits

\* A primary and a secondary find the invariant as it was.
LEMMA NewTrackRecord ==
  ASSUME StackInv, MarkedAreSaved, RecordInv, Makers', NEW g, NEW by, NEW parent,
         NewTrack(g, by, parent),
         \/ by = next /\ secondaries' = secondaries /\ UNCHANGED phase
         \/ /\ by # next /\ by = current /\ parent = current
            /\ secondaries' = secondaries \cup {next}
            /\ Busy /\ Busy' /\ ~PostTracking /\ ~PostTracking',
         waiting \subseteq waiting',
         UNCHANGED <<current, infoVars, truthVars>>
  PROVE  RecordInv'
<1>1. /\ next \in Tracks /\ next \notin Made /\ Made' = Made \cup {next}
      /\ maker' = [maker EXCEPT ![next] = by]
      /\ parentID' = [parentID EXCEPT ![next] = parent]
  BY NewTrackNumber DEF StackInv
<1>2. /\ maker \in [Tracks -> Tracks]
      /\ parentID \in [Tracks -> Tracks \cup {Root}]
  BY DEF StackInv, TypeOK
<1>3. Made \subseteq Tracks  BY MadeAreTracks DEF StackInv
<1>4. /\ maker'[next] = by /\ parentID'[next] = parent
      /\ \A t \in Made : maker'[t] = maker[t] /\ parentID'[t] = parentID[t]
  BY <1>1, <1>2, <1>3
<1>5. Parents'
  BY <1>1, <1>4 DEF RecordInv, Parents, Primary, truthVars, infoVars, Busy, PostTracking
<1>6. Flagged'  BY DEF RecordInv, Flagged, AtWork, truthVars, infoVars, Busy
<1>7. Hits'  BY DEF RecordInv, Hits, truthVars, infoVars, Busy, PostTracking
<1>. QED  BY <1>5, <1>6, <1>7 DEF RecordInv

\* A track whose turn it is has a recorded parent, or is a primary.
LEMMA CurrentParent ==
  ASSUME StackInv, EndInv, MarkedAreSaved, RecordInv, Busy
  PROVE  /\ Primary(current) => parentID[current] = Root
         /\ ~Primary(current) => parentID[current] \in linked
  BY DEF StackInv, StackOK, EndInv, Makers, RecordInv, Parents

\* A track that was marked and not saved stays out of the record.
LEMMA MarkedBefore ==
  ASSUME [Next]_vars, MarkedAreSaved'
  PROVE  MarkedAreSaved
<1>1. CASE RecordTruth
  BY <1>1 DEF RecordTruth, MarkSaved, RegisterPrimary, Declare, MarkedAreSaved
<1>2. CASE PassOver
  BY <1>2 DEF PassOver, MarkSaved, MarkedAreSaved
<1>. QED
  BY <1>1, <1>2
     DEF Next, Terminated, vars, infoVars, truthVars, MarkedAreSaved, MakePrimary,
         DecayInto, StartTracking, MakeSecondary, ProcessHits, FlagTruth

LEMMA RecordStep ==
  ASSUME StorePrimaries, StackInv, EndInv, RecordInv, [Next]_vars
  PROVE  RecordInv'
<1>. SUFFICES ASSUME MarkedAreSaved, MarkedAreSaved' PROVE RecordInv'
  BY MarkedBefore DEF RecordInv
<1>0. StackInv' /\ EndInv' /\ Made \subseteq Tracks
  BY StackStep, EndStep, MadeAreTracks DEF StackInv
<1>1. ASSUME NEW g \in Particles, MakePrimary(g) PROVE RecordInv'
  BY <1>0, <1>1, NewTrackRecord DEF MakePrimary, EndInv
<1>2. ASSUME NEW g, NewTrack(g, current, current), Busy, Busy', ~PostTracking,
             ~PostTracking', secondaries' = secondaries \cup {next},
             UNCHANGED <<waiting, current, infoVars, truthVars>>
      PROVE  RecordInv'
  <2>1. current # next
    BY <1>2, NewTrackNumber DEF StackInv, StackOK
  <2>. QED  BY <1>0, <1>2, <2>1, NewTrackRecord DEF EndInv
<1>3. ASSUME NEW d \in Particles, DecayInto(d) PROVE RecordInv'
  BY <1>2, <1>3 DEF DecayInto, Busy, PostTracking
<1>4. CASE MakeSecondary
  BY <1>2, <1>4 DEF MakeSecondary, Busy, PostTracking
<1>5. ASSUME NEW t \in Tracks, StartTracking(t) PROVE RecordInv'
  <2>1. /\ t \in waiting /\ waiting' = waiting \ {t} /\ Busy' /\ ~Busy
        /\ ~PostTracking'
        /\ current' = t /\ secondaries' = {} /\ next' = next
        /\ maker' = maker /\ parentID' = parentID /\ hitIDs' = hitIDs
        /\ linked' = linked /\ savedEarly' = savedEarly
        /\ storeTruth' \subseteq storeTruth \cup {t}
    BY <1>5 DEF StartTracking, Busy, PostTracking, truthVars
  <2>2. Made' = Made  BY <2>1 DEF Made
  <2>. QED  BY <2>1, <2>2
           DEF RecordInv, Parents, Primary, Flagged, AtWork, Hits
<1>6. CASE ProcessHits
  <2>1. /\ Busy /\ ~PostTracking /\ Busy' /\ ~PostTracking' /\ Made' = Made
        /\ maker' = maker /\ parentID' = parentID /\ linked' = linked
        /\ savedEarly' = savedEarly /\ current' = current
        /\ secondaries' = secondaries /\ waiting' = waiting
        /\ hitIDs' = [hitIDs EXCEPT ![current] = @ \cup {current}]
        /\ storeTruth' \subseteq storeTruth \cup {current}
    BY <1>6 DEF ProcessHits, g4Vars, truthVars, Busy, PostTracking, Made
  <2>2. Hits'
    <3>1. hitIDs \in [Tracks -> SUBSET (Tracks \cup {Root})] /\ current \in Tracks
      BY DEF StackInv, TypeOK
    <3>2. /\ hitIDs'[current] = hitIDs[current] \cup {current}
          /\ \A t \in Tracks : t # current => hitIDs'[t] = hitIDs[t]
      BY <2>1, <3>1
    <3>. QED  BY <2>1, <3>2 DEF RecordInv, Hits
  <2>. QED  BY <2>1, <2>2 DEF RecordInv, Parents, Primary, Flagged, AtWork
<1>7. ASSUME NEW why \in {"ended", "suspended"}, FlagTruth(why) PROVE RecordInv'
  <2>1. /\ Busy /\ ~PostTracking /\ Busy' /\ PostTracking' /\ Made' = Made
        /\ maker' = maker /\ secondaries' = secondaries /\ current' = current
        /\ waiting' = waiting /\ linked' = linked /\ savedEarly' = savedEarly
    BY <1>7 DEF FlagTruth, Busy, PostTracking, truthVars, Made
  <2>2. PICK stored \in BOOLEAN, forced \in BOOLEAN :
          /\ storeTruth' = storeTruth \cup ForcedDaughters(forced)
                                      \cup (IF stored THEN {current} ELSE {})
          /\ parentID' = Adopt(stored)
          /\ hitIDs' = [hitIDs EXCEPT ![current] = MovedHits(stored)]
          /\ StorePrimaries /\ parentID[current] = Root => stored
    BY <1>7 DEF FlagTruth, Assigned, StackInv, TypeOK
  <2>3. current \in Made /\ secondaries \subseteq Made
    BY <2>1 DEF StackInv, StackOK
  <2>4. ~stored => parentID[current] \in linked
    BY <2>1, <2>2, CurrentParent
  <2>5. \A t \in Made : parentID'[t] = IF ~stored /\ t \in secondaries
                                      THEN parentID[current] ELSE parentID[t]
    BY <1>0, <2>2 DEF Adopt
  <2>6. stored => current \in storeTruth'  BY <2>2
  <2>7. Parents'
    <3>. SUFFICES ASSUME NEW t \in Made, ~Primary(t)
                  PROVE  \/ parentID'[t] \in linked
                         \/ /\ t \in secondaries /\ parentID'[t] = current
                            /\ current \in storeTruth'
      BY <2>1 DEF Parents, Primary
    <3>1. CASE stored
      BY <2>1, <2>5, <2>6, <3>1 DEF RecordInv, Parents
    <3>2. CASE ~stored
      BY <2>1, <2>4, <2>5, <3>2 DEF RecordInv, Parents
    <3>. QED  BY <3>1, <3>2
  <2>8. Flagged'
    BY <2>1, <2>2 DEF RecordInv, Flagged, AtWork, ForcedDaughters
  <2>9. Hits'
    <3>1. hitIDs \in [Tracks -> SUBSET (Tracks \cup {Root})] /\ current \in Tracks
      BY DEF StackInv, TypeOK
    <3>2. /\ hitIDs'[current] = MovedHits(stored)
          /\ \A t \in Tracks : t # current => hitIDs'[t] = hitIDs[t]
      BY <2>2, <3>1
    <3>3. \A i \in MovedHits(stored) : i \in linked \/ (i = current /\ stored)
      BY <2>1, <2>4, <3>1 DEF RecordInv, Hits, MovedHits
    <3>. QED  BY <2>1, <2>6, <3>2, <3>3 DEF RecordInv, Hits
  <2>. QED  BY <2>1, <2>7, <2>8, <2>9 DEF RecordInv
<1>8. CASE RecordTruth
  <2>1. /\ Busy /\ ~Busy' /\ Made' = Made /\ maker' = maker /\ PostTracking
        /\ waiting' = waiting \cup secondaries
                        \cup (IF phase = "suspended" THEN {current} ELSE {})
        /\ parentID' = parentID /\ hitIDs' = hitIDs /\ current \in storeTruth
        /\ storeTruth' = storeTruth
    BY <1>8 DEF RecordTruth, BackToStack, Busy, PostTracking, Made
  <2>2. savedEarly' \subseteq savedEarly \cup {current} /\ linked \subseteq linked'
    BY <1>8 DEF RecordTruth, MarkSaved, RegisterPrimary, Declare
  <2>3. current \in linked'
    <3>1. CASE current \in savedEarly
      BY <2>2, <3>1 DEF MarkedAreSaved
    <3>2. CASE RegisterPrimary(current)
      BY <1>0, <3>2 DEF RegisterPrimary, StackInv, RegisteredOnce
    <3>3. CASE Declare(current)
      <4>1. ~Primary(current)
        BY <2>1, <3>3 DEF Declare, StackInv, StackOK, EndInv, Makers
      <4>. QED  BY <2>1, <3>3, <4>1, CurrentParent DEF Declare
    <3>. QED  BY <1>8, <3>1, <3>2, <3>3 DEF RecordTruth
  <2>4. Parents'  BY <2>1, <2>2, <2>3 DEF RecordInv, Parents, Primary
  <2>5. Flagged'  BY <2>1, <2>2, <2>3 DEF RecordInv, Flagged, AtWork
  <2>6. Hits'  BY <2>1, <2>2, <2>3 DEF RecordInv, Hits
  <2>. QED  BY <2>4, <2>5, <2>6 DEF RecordInv
<1>9. CASE PassOver
  <2>1. /\ Busy /\ ~Busy' /\ Made' = Made /\ maker' = maker /\ PostTracking
        /\ waiting' = waiting \cup secondaries
                        \cup (IF phase = "suspended" THEN {current} ELSE {})
        /\ parentID' = parentID /\ hitIDs' = hitIDs /\ current \notin storeTruth
        /\ storeTruth' = storeTruth /\ linked' = linked
    BY <1>9 DEF PassOver, BackToStack, Busy, PostTracking, Made
  <2>. QED  BY <2>1
           DEF RecordInv, Parents, Primary, Flagged, AtWork, Hits
<1>10. CASE UNCHANGED vars
  BY <1>10 DEF vars, g4Vars, infoVars, truthVars, RecordInv, Parents,
               Primary, Flagged, AtWork, Hits, Busy, PostTracking, Made
<1>. QED  BY <1>1, <1>3, <1>4, <1>5, <1>6, <1>7, <1>8, <1>9, <1>10
         DEF Next, Terminated

LEMMA RecordAlways == StorePrimaries /\ Spec => []RecordInv
<1>1. ASSUME StorePrimaries PROVE Spec => []RecordInv
  <2>1. StackInv /\ EndInv /\ RecordInv /\ [Next]_vars => RecordInv'
    BY <1>1, RecordStep
  <2>. QED  BY <2>1, RecordInit, StackAlways, EndAlways, PTL DEF Spec
<1>. QED  BY <1>1

\* When a track's turn comes its parent is in the record: Declare drops none.
THEOREM ParentsAreRecorded == StorePrimaries /\ Spec => []ParentsRecorded
<1>1. StackInv /\ RecordInv => ParentsRecorded
  BY DEF StackInv, StackOK, RecordInv, Parents, ParentsRecorded
<1>. QED  BY <1>1, StackAlways, RecordAlways, PTL

\* Every track flagged for the record is in it when all is tracked.
THEOREM FlaggedAreRecorded == StorePrimaries /\ Spec => []FlaggedRecorded
<1>1. RecordInv => FlaggedRecorded
  BY DEF RecordInv, Flagged, AtWork, FlaggedRecorded, EventOver, Busy
<1>. QED  BY <1>1, RecordAlways, PTL

\* Every hit points to a particle of the record when all is tracked.
THEOREM HitsPointToParticles == StorePrimaries /\ Spec => []HitsRecorded
<1>1. StackInv /\ RecordInv => HitsRecorded
  BY MadeAreTracks
     DEF StackInv, RecordInv, Hits, HitsRecorded, HitsHaveParticle, EventOver, Busy
<1>. QED  BY <1>1, StackAlways, RecordAlways, PTL

-----------------------------------------------------------------------------
(* The closest recorded ancestor.                                          *)

\* As long as no track is suspended, what a track has made is known when it
\* stops: the secondaries of the current track, and nothing of one that has
\* still to be tracked.
Families ==
  /\ savedEarly = {} /\ phase # "suspended"
  /\ Busy => \A t \in secondaries : maker[t] = current
  /\ \A t \in Made : ~Primary(t) =>
       /\ maker[t] \in Made \ waiting
       /\ Busy => maker[t] \notin secondaries
       /\ Busy /\ maker[t] = current => t \in secondaries

\* The parent a track has when its maker stores itself or does not.
Lineage ==
  \A t \in Made : ~Primary(t) =>
    IF Busy /\ maker[t] = current
    THEN parentID[t] = IF phase = "ended" /\ current \notin storeTruth
                       THEN parentID[current] ELSE current
    ELSE parentID[t] = IF maker[t] \in linked THEN maker[t] ELSE parentID[maker[t]]

LineageInv == suspends = 0 => Families /\ Lineage

\* A new track, a primary or a secondary of the current one.
LEMMA NewTrackLineage ==
  ASSUME StackInv, Families, Lineage, NEW g, NEW by, NEW parent,
         NewTrack(g, by, parent),
         \/ /\ by = next /\ secondaries' = secondaries /\ phase' = phase
            /\ waiting' = waiting \cup {next}
         \/ /\ by = current /\ parent = current
            /\ secondaries' = secondaries \cup {next}
            /\ Busy /\ Busy' /\ ~PostTracking /\ ~PostTracking'
            /\ waiting' = waiting,
         UNCHANGED <<current, infoVars, truthVars>>
  PROVE  Families' /\ Lineage'
<1>1. /\ next \in Tracks /\ next \notin Made /\ Made' = Made \cup {next}
      /\ maker' = [maker EXCEPT ![next] = by]
      /\ parentID' = [parentID EXCEPT ![next] = parent]
  BY NewTrackNumber DEF StackInv
<1>2. /\ maker \in [Tracks -> Tracks]
      /\ parentID \in [Tracks -> Tracks \cup {Root}]
  BY DEF StackInv, TypeOK
<1>3. Made \subseteq Tracks  BY MadeAreTracks DEF StackInv
<1>4. /\ maker'[next] = by /\ parentID'[next] = parent
      /\ \A t \in Made : maker'[t] = maker[t] /\ parentID'[t] = parentID[t]
  BY <1>1, <1>2, <1>3
<1>5. /\ waiting \subseteq Made
      /\ Busy => /\ current \in Made /\ current \notin waiting \cup secondaries
                 /\ secondaries \subseteq Made
  BY DEF StackInv, StackOK
<1>6. Families'
  BY <1>1, <1>4, <1>5 DEF Families, Primary, PostTracking, infoVars, Busy
<1>7. Lineage'
  BY <1>1, <1>4, <1>5
     DEF Families, Lineage, Primary, PostTracking, infoVars, truthVars, Busy
<1>. QED  BY <1>6, <1>7

LEMMA LineageStep ==
  ASSUME StorePrimaries, StackInv, EndInv, RecordInv, LineageInv, [Next]_vars
  PROVE  LineageInv'
<1>. SUFFICES ASSUME suspends' = 0 PROVE Families' /\ Lineage'
  BY DEF LineageInv
<1>a. Families /\ Lineage /\ suspends = 0
  <2>1. suspends \in Nat
    BY TruthAssumption DEF StackInv, TypeOK
  <2>2. suspends' = suspends \/ suspends' = suspends + 1
    BY DEF Next, Terminated, vars, g4Vars, MakePrimary, DecayInto, StartTracking,
           MakeSecondary, ProcessHits, FlagTruth, RecordTruth, PassOver, BackToStack
  <2>. QED  BY <2>1, <2>2 DEF LineageInv
<1>b. Made \subseteq Tracks
  BY MadeAreTracks DEF StackInv
<1>c. /\ waiting \subseteq Made /\ linked \subseteq Made /\ linked \subseteq storeTruth
      /\ Busy => /\ current \in Made /\ current \notin waiting \cup secondaries
                 /\ secondaries \subseteq Made
  BY DEF StackInv, StackOK, EndInv, EndsKept
<1>1. ASSUME NEW g \in Particles, MakePrimary(g) PROVE Families' /\ Lineage'
  <2>1. NewTrack(g, next, Root)  BY <1>1 DEF MakePrimary
  <2>. QED  BY <1>a, <1>1, <2>1, NewTrackLineage DEF MakePrimary
<1>2. ASSUME NEW d \in Particles, DecayInto(d) PROVE Families' /\ Lineage'
  <2>1. NewTrack(d, current, current)  BY <1>2 DEF DecayInto
  <2>. QED  BY <1>a, <1>2, <2>1, NewTrackLineage DEF DecayInto, Busy, PostTracking
<1>3. CASE MakeSecondary
  <2>1. NewTrack(NoParticle, current, current)  BY <1>3 DEF MakeSecondary
  <2>. QED  BY <1>a, <1>3, <2>1, NewTrackLineage
           DEF MakeSecondary, Busy, PostTracking
<1>4. ASSUME NEW t \in Tracks, StartTracking(t) PROVE Families' /\ Lineage'
  <2>1. /\ t \in waiting /\ waiting' = waiting \ {t} /\ Busy' /\ ~Busy
        /\ current' = t /\ secondaries' = {} /\ Made' = Made /\ phase' = "tracking"
        /\ maker' = maker /\ parentID' = parentID /\ linked' = linked
        /\ savedEarly' = savedEarly
    BY <1>4 DEF StartTracking, Busy, truthVars, Made
  <2>. QED  BY <1>a, <2>1 DEF Families, Lineage, Primary
<1>5. CASE ProcessHits
  <2>1. /\ phase = "tracking" /\ Made' = Made
        /\ UNCHANGED <<waiting, phase, current, secondaries, maker, parentID, linked,
                       savedEarly>>
    BY <1>5 DEF ProcessHits, g4Vars, truthVars, Made
  <2>. QED  BY <1>a, <2>1 DEF Families, Lineage, Primary, Busy
<1>6. ASSUME NEW why \in {"ended", "suspended"}, FlagTruth(why)
      PROVE  Families' /\ Lineage'
  <2>1. /\ Busy /\ Busy' /\ why = "ended" /\ phase' = "ended" /\ phase # "ended"
        /\ Made' = Made
        /\ UNCHANGED <<waiting, current, secondaries, maker, linked, savedEarly>>
    <3>1. why # "suspended"
      BY <1>a, <1>6 DEF FlagTruth
    <3>. QED  BY <1>6, <3>1 DEF FlagTruth, Busy, truthVars, Made
  <2>2. PICK stored \in BOOLEAN, forced \in BOOLEAN :
          /\ storeTruth' = storeTruth \cup ForcedDaughters(forced)
                                      \cup (IF stored THEN {current} ELSE {})
          /\ parentID' = Adopt(stored)
          /\ current \in storeTruth => stored
    BY <1>6 DEF FlagTruth, Assigned, StackInv, TypeOK
  <2>3. current \in storeTruth' <=> stored
    BY <1>c, <2>1, <2>2 DEF ForcedDaughters
  <2>4. \A t \in Made : parentID'[t] = IF ~stored /\ t \in secondaries
                                      THEN parentID[current] ELSE parentID[t]
    BY <1>b, <2>2 DEF Adopt
  <2>5. Families'
    BY <1>a, <2>1 DEF Families, Primary
  <2>6. Lineage'
    <3>. SUFFICES ASSUME NEW t \in Made, ~Primary(t)
                  PROVE  IF maker[t] = current
                         THEN parentID'[t] = IF ~stored THEN parentID'[current]
                                             ELSE current
                         ELSE parentID'[t] = IF maker[t] \in linked THEN maker[t]
                                             ELSE parentID'[maker[t]]
      BY <2>1, <2>3 DEF Lineage, Primary
    <3>1. CASE maker[t] = current
      <4>1. t \in secondaries /\ parentID[t] = current
        BY <1>a, <2>1, <3>1 DEF Families, Lineage
      <4>. QED  BY <1>c, <2>1, <2>4, <3>1, <4>1
    <3>2. CASE maker[t] # current
      <4>1. t \notin secondaries /\ maker[t] \in Made \ secondaries
        BY <1>a, <2>1, <3>2 DEF Families
      <4>2. parentID'[t] = parentID[t] /\ parentID'[maker[t]] = parentID[maker[t]]
        BY <2>4, <4>1
      <4>. QED  BY <1>a, <2>1, <3>2, <4>2 DEF Lineage
    <3>. QED  BY <3>1, <3>2
  <2>. QED  BY <2>5, <2>6
<1>7. CASE RecordTruth
  <2>1. /\ Busy /\ ~Busy' /\ phase = "ended" /\ phase' = "idle" /\ Made' = Made
        /\ waiting' = waiting \cup secondaries /\ current \in storeTruth
        /\ UNCHANGED <<maker, parentID>>
    BY <1>a, <1>7 DEF RecordTruth, BackToStack, Busy, Made, Families
  <2>2. savedEarly' = {}
    BY <1>a, <1>7, <2>1 DEF RecordTruth, MarkSaved, Families
  <2>3. linked' = linked \cup {current}
    <3>1. MarkedAreSaved /\ MarkedAreSaved'
      BY <1>a, <2>2 DEF MarkedAreSaved, Families
    <3>2. RecordInv'
      BY RecordStep
    <3>3. current \in linked'
      BY <1>c, <2>1, <3>1, <3>2, <1>7
         DEF RecordInv, Flagged, AtWork, RecordTruth
    <3>4. linked \subseteq linked' /\ linked' \subseteq linked \cup {current}
      BY <1>7 DEF RecordTruth, RegisterPrimary, Declare
    <3>. QED  BY <3>3, <3>4
  <2>4. Families'
    BY <1>a, <1>c, <2>1, <2>2 DEF Families, Primary
  <2>5. Lineage'
    BY <1>a, <2>1, <2>3 DEF Lineage, Primary
  <2>. QED  BY <2>4, <2>5
<1>8. CASE PassOver
  <2>1. /\ Busy /\ ~Busy' /\ phase = "ended" /\ phase' = "idle" /\ Made' = Made
        /\ waiting' = waiting \cup secondaries /\ current \notin storeTruth
        /\ UNCHANGED <<maker, parentID, linked>>
    BY <1>a, <1>8 DEF PassOver, BackToStack, Busy, Made, Families
  <2>2. savedEarly' = {}
    BY <1>a, <1>8, <2>1 DEF PassOver, MarkSaved, Families
  <2>3. Families'
    BY <1>a, <1>c, <2>1, <2>2 DEF Families, Primary
  <2>4. Lineage'
    BY <1>a, <1>c, <2>1 DEF Lineage, Primary
  <2>. QED  BY <2>3, <2>4
<1>9. CASE UNCHANGED vars
  BY <1>a, <1>9 DEF vars, g4Vars, infoVars, truthVars, Families, Lineage, Primary,
                    Busy, Made
<1>. QED  BY <1>1, <1>2, <1>3, <1>4, <1>5, <1>6, <1>7, <1>8, <1>9
         DEF Next, Terminated

LEMMA LineageAlways == StorePrimaries /\ Spec => []LineageInv
<1>1. ASSUME StorePrimaries PROVE Spec => []LineageInv
  <2>1. Init => LineageInv
    <3>1. ASSUME Init PROVE Made = {}  BY <3>1 DEF Init, Made
    <3>. QED  BY <3>1 DEF Init, LineageInv, Families, Lineage, Busy
  <2>2. StackInv /\ EndInv /\ RecordInv /\ LineageInv /\ [Next]_vars => LineageInv'
    BY <1>1, LineageStep
  <2>3. Spec => []RecordInv
    BY <1>1, RecordAlways, PTL
  <2>. QED  BY <2>1, <2>2, <2>3, StackAlways, EndAlways, PTL DEF Spec
<1>. QED  BY <1>1

\* Without suspensions the parent of each track is its closest recorded
\* ancestor.
THEOREM ParentsAreClosest == StorePrimaries /\ Spec => []ClosestAncestor
<1>1. LineageInv => ClosestAncestor
  BY DEF LineageInv, Lineage, ClosestAncestor, EventOver, Busy
<1>. QED  BY <1>1, LineageAlways, PTL

-----------------------------------------------------------------------------
(* The daughters of a generated decay.                                     *)

\* A track of a particle that another particle of the generator decays into.
Daughter(t) == particle[t] # NoParticle /\ particle[t] \notin Primaries

\* A decay is simulated to its end before anything else happens.
Complete ==
  \A d, e \in Particles :
    Mother[d] # NoParticle /\ Mother[d] = Mother[e] /\ Tracked(d) =>
      Tracked(e) \/ (phase = "decaying" /\ particle[current] = Mother[d])

\* Daughters are flagged at the end of the decay, or, when they decay as well,
\* at the end of their own tracking.
DaughterOK(t) ==
  /\ t \in savedEarly => particle[t] \in truth
  /\ t \in waiting \/ (Busy /\ t = current) \/ (PostTracking /\ t \in secondaries)
       => Assigned(t) \/ t \in storeTruth
  /\ PostTracking /\ t = current => t \in storeTruth
  /\ Busy /\ t \in secondaries /\ ~PostTracking =>
       phase = "decaying" /\ Assigned(current)
  /\ \/ particle[t] \in truth \/ t \in waiting
     \/ Busy /\ t \in {current} \cup secondaries

DecayInv ==
  Complete /\ savedEarly \subseteq Made /\ \A t \in Made : Daughter(t) => DaughterOK(t)

\* A primary, a secondary, or a daughter of the current track.
LEMMA NewTrackDecay ==
  ASSUME StackInv, DecayInv, NEW g \in Particles \cup {NoParticle}, NEW by, NEW parent,
         NewTrack(g, by, parent), UNCHANGED <<current, infoVars, truthVars>>,
         \/ /\ g \in Primaries
            /\ UNCHANGED <<phase, secondaries>> /\ waiting' = waiting \cup {next}
         \/ /\ g = NoParticle /\ phase = "tracking"
            /\ UNCHANGED <<phase, waiting>> /\ secondaries' = secondaries \cup {next}
         \/ /\ g \in Particles /\ phase \in {"tracking", "decaying"}
            /\ phase' = "decaying" /\ particle[current] = Mother[g]
            /\ particle[current] # NoParticle
            /\ UNCHANGED waiting /\ secondaries' = secondaries \cup {next}
  PROVE  DecayInv'
<1>1. /\ next \in Tracks /\ next \notin Made /\ Made' = Made \cup {next}
      /\ particle' = [particle EXCEPT ![next] = g]
  BY NewTrackNumber DEF StackInv
<1>2. /\ particle \in [Tracks -> Particles \cup {NoParticle}]
      /\ NoParticle \notin Particles
  BY TruthAssumption DEF StackInv, TypeOK
<1>3. Made \subseteq Tracks  BY MadeAreTracks DEF StackInv
<1>4. /\ particle'[next] = g
      /\ \A t \in Made : particle'[t] = particle[t]
  BY <1>1, <1>2, <1>3
<1>5. /\ waiting \subseteq Made
      /\ Busy => current \in Made /\ secondaries \subseteq Made
      /\ savedEarly' = savedEarly /\ storeTruth' = storeTruth /\ truth' = truth
      /\ current' = current
  BY DEF StackInv, StackOK, infoVars, truthVars
<1>6. \A e : Tracked(e)' <=> Tracked(e) \/ e = g
  BY <1>1, <1>4 DEF Tracked, Made
<1>7. Complete'
  <2>. SUFFICES ASSUME NEW d \in Particles, NEW e \in Particles,
                       Mother[d] # NoParticle, Mother[d] = Mother[e], Tracked(d)'
                PROVE  Tracked(e)' \/ (phase' = "decaying"
                                         /\ particle'[current] = Mother[d])
    BY <1>5 DEF Complete
  <2>1. CASE Tracked(d)
    <3>1. Tracked(e) \/ (phase = "decaying" /\ particle[current] = Mother[d])
      BY <2>1 DEF DecayInv, Complete
    <3>2. phase = "decaying" => phase' = "decaying" /\ current \in Made
      BY <1>5 DEF Busy
    <3>. QED  BY <1>4, <1>6, <3>1, <3>2
  <2>2. CASE d = g
    <3>1. phase' = "decaying" /\ particle[current] = Mother[d] /\ current \in Made
      BY <1>2, <1>5, <2>2 DEF Primaries, Busy
    <3>. QED  BY <1>4, <3>1
  <2>. QED  BY <1>6, <2>1, <2>2
<1>8. ASSUME NEW t \in Made, Daughter(t) PROVE DaughterOK(t)'
  <2>1. DaughterOK(t) /\ t # next /\ particle'[t] = particle[t]
    BY <1>1, <1>4, <1>8 DEF DecayInv
  <2>2. Assigned(t)' <=> Assigned(t)
    BY <2>1 DEF Assigned
  <2>3. Busy => (Assigned(current)' <=> Assigned(current))
    BY <1>4, <1>5 DEF Assigned
  <2>. QED  BY <1>5, <2>1, <2>2, <2>3 DEF DaughterOK, Busy, PostTracking
<1>9. ASSUME NEW t \in {next}, Daughter(t)' PROVE DaughterOK(t)'
  <2>1. /\ g \in Particles /\ g \notin Primaries /\ phase' = "decaying"
        /\ particle[current] = Mother[g] /\ current \in Made
        /\ secondaries' = secondaries \cup {next} /\ waiting' = waiting
        /\ particle[current] # NoParticle
    BY <1>4, <1>5, <1>9 DEF Daughter, Busy, Primaries
  <2>2. Assigned(current)'
    BY <1>4, <1>5, <2>1 DEF Assigned, Daughters
  <2>3. next # current /\ next \notin waiting /\ next \notin savedEarly
    BY <1>1, <1>5, <2>1 DEF DecayInv
  <2>. QED  BY <1>5, <1>9, <2>1, <2>2, <2>3 DEF DaughterOK, Busy, PostTracking
<1>10. \A t \in Made' : Daughter(t)' => DaughterOK(t)'
  BY <1>1, <1>4, <1>8, <1>9 DEF Daughter
<1>. QED
  BY <1>1, <1>5, <1>7, <1>10 DEF DecayInv

LEMMA DecayStep ==
  ASSUME StoreDecayProducts, StackInv, DecayInv, [Next]_vars
  PROVE  DecayInv'
<1>a. /\ StackInv' /\ Made \subseteq Tracks /\ NoParticle \notin Particles
      /\ waiting \subseteq Made
      /\ Busy => /\ current \in Made /\ current \notin waiting \cup secondaries
                 /\ secondaries \subseteq Made
      /\ particle \in [Tracks -> Particles \cup {NoParticle}]
      /\ savedEarly \subseteq Made
  BY StackStep, MadeAreTracks, TruthAssumption
     DEF StackInv, TypeOK, StackOK, DecayInv
<1>1. ASSUME NEW g \in Particles, MakePrimary(g) PROVE DecayInv'
  BY <1>1, NewTrackDecay DEF MakePrimary
<1>2. ASSUME NEW d \in Particles, DecayInto(d) PROVE DecayInv'
  BY <1>2, NewTrackDecay DEF DecayInto, Daughters
<1>3. CASE MakeSecondary
  BY <1>3, NewTrackDecay DEF MakeSecondary
<1>4. ASSUME NEW t \in Tracks, StartTracking(t) PROVE DecayInv'
  <2>1. /\ t \in waiting /\ waiting' = waiting \ {t} /\ Busy' /\ ~Busy
        /\ current' = t /\ secondaries' = {} /\ Made' = Made /\ phase' = "tracking"
        /\ particle' = particle /\ truth' = truth /\ savedEarly' = savedEarly
        /\ storeTruth \subseteq storeTruth' /\ next' = next /\ phase = "idle"
    BY <1>4 DEF StartTracking, Busy, truthVars, Made
  <2>. QED
    BY <2>1 DEF DecayInv, Complete, Tracked, Daughter, DaughterOK, Assigned,
                PostTracking
<1>5. CASE ProcessHits
  <2>1. /\ Made' = Made /\ storeTruth \subseteq storeTruth'
        /\ UNCHANGED <<next, particle, waiting, phase, current, secondaries, truth,
                       savedEarly>>
    BY <1>5 DEF ProcessHits, g4Vars, truthVars, Made
  <2>. QED
    BY <2>1 DEF DecayInv, Complete, Tracked, Daughter, DaughterOK, Assigned,
                PostTracking, Busy
<1>6. ASSUME NEW why \in {"ended", "suspended"}, FlagTruth(why) PROVE DecayInv'
  <2>1. /\ Busy /\ Busy' /\ ~PostTracking /\ PostTracking' /\ Made' = Made
        /\ phase = "decaying" =>
             \A d \in Daughters(particle[current]) : Tracked(d)
        /\ UNCHANGED <<next, particle, waiting, current, secondaries, truth,
                       savedEarly>>
    BY <1>6 DEF FlagTruth, Busy, PostTracking, truthVars, Made
  <2>2. /\ storeTruth \subseteq storeTruth'
        /\ Assigned(current) => ForcedDaughters(TRUE) \subseteq storeTruth'
                                /\ current \in storeTruth'
        /\ current \in storeTruth => current \in storeTruth'
    BY <1>6 DEF FlagTruth
  <2>3. Complete'
    BY <2>1 DEF DecayInv, Complete, Tracked, Daughters
  <2>4. ASSUME NEW t \in Made, Daughter(t) PROVE DaughterOK(t)'
    <3>1. DaughterOK(t) /\ (Assigned(t)' <=> Assigned(t))
      BY <2>1, <2>4 DEF DecayInv, Assigned
    <3>2. t \in secondaries => Assigned(t) \/ t \in storeTruth'
      BY <2>1, <2>2, <3>1 DEF DaughterOK, ForcedDaughters
    <3>3. t = current => t \in storeTruth'
      BY <2>1, <2>2, <3>1 DEF DaughterOK
    <3>. QED  BY <2>1, <2>2, <3>1, <3>2, <3>3 DEF DaughterOK
  <2>. QED  BY <1>a, <2>1, <2>3, <2>4 DEF DecayInv, Daughter
<1>7. CASE RecordTruth \/ PassOver
  <2>1. /\ Busy /\ PostTracking /\ ~Busy' /\ Made' = Made
        /\ phase # "decaying"
        /\ waiting' = waiting \cup secondaries
                        \cup (IF phase = "suspended" THEN {current} ELSE {})
        /\ UNCHANGED <<next, particle, current, secondaries, storeTruth>>
    BY <1>7 DEF RecordTruth, PassOver, BackToStack, Busy, PostTracking, Made
  <2>2. /\ truth \subseteq truth' /\ savedEarly' \subseteq savedEarly \cup {current}
    BY <1>7 DEF RecordTruth, PassOver, RegisterPrimary, Declare, MarkSaved
  <2>3. Daughter(current) => particle[current] \in truth'
    <3>. SUFFICES ASSUME Daughter(current) PROVE particle[current] \in truth'
      OBVIOUS
    <3>1. DaughterOK(current)
      BY <1>a, <2>1 DEF DecayInv
    <3>2. RecordTruth
      BY <1>7, <2>1, <3>1 DEF PassOver, DaughterOK
    <3>3. CASE current \in savedEarly
      BY <2>2, <3>1, <3>3 DEF DaughterOK
    <3>4. CASE current \notin savedEarly
      BY <3>2, <3>4 DEF RecordTruth, RegisterPrimary, Declare, Daughter
    <3>. QED  BY <3>3, <3>4
  <2>4. Complete'
    BY <2>1 DEF DecayInv, Complete, Tracked
  <2>5. ASSUME NEW t \in Made, Daughter(t) PROVE DaughterOK(t)'
    <3>1. DaughterOK(t) /\ (Assigned(t)' <=> Assigned(t))
      BY <2>1, <2>5 DEF DecayInv, Assigned
    <3>2. t = current => particle[t] \in truth'
      BY <2>3, <2>5
    <3>. QED  BY <2>1, <2>2, <2>5, <3>1, <3>2 DEF DaughterOK, PostTracking, Busy
  <2>. QED  BY <1>a, <2>1, <2>2, <2>4, <2>5 DEF DecayInv, Daughter
<1>8. CASE UNCHANGED vars
  BY <1>8 DEF vars, g4Vars, infoVars, truthVars, DecayInv, Complete, Tracked,
              Daughter, DaughterOK, Assigned, PostTracking, Busy, Made
<1>. QED  BY <1>1, <1>2, <1>3, <1>4, <1>5, <1>6, <1>7, <1>8
         DEF Next, Terminated

LEMMA DecayAlways == StoreDecayProducts /\ Spec => []DecayInv
<1>1. ASSUME StoreDecayProducts PROVE Spec => []DecayInv
  <2>1. Init => DecayInv
    <3>1. ASSUME Init PROVE Made = {}  BY <3>1 DEF Init, Made
    <3>2. ASSUME Init PROVE \A g : ~Tracked(g)  BY <3>1, <3>2 DEF Tracked, Made
    <3>. QED  BY <3>1, <3>2 DEF Init, DecayInv, Complete
  <2>2. StackInv /\ DecayInv /\ [Next]_vars => DecayInv'
    BY <1>1, DecayStep
  <2>. QED  BY <2>1, <2>2, StackAlways, PTL DEF Spec
<1>. QED  BY <1>1

\* If decay products are stored, a generated decay is in the record as a whole
\* or not at all.
THEOREM SiblingsStayTogether == StoreDecayProducts /\ Spec => []SiblingsAgree
<1>1. StackInv /\ DecayInv => SiblingsAgree
  <2>. SUFFICES ASSUME StackInv, DecayInv, EventOver, NEW g \in Particles,
                       NEW d \in Daughters(g) \cap truth, NEW e \in Daughters(g)
                PROVE  e \in truth
    BY DEF SiblingsAgree
  <2>1. /\ Mother[d] = g /\ Mother[e] = g /\ g # NoParticle
        /\ d \in Particles /\ e \in Particles /\ e # NoParticle /\ e \notin Primaries
    BY TruthAssumption DEF Daughters, Primaries
  <2>2. Tracked(d)
    BY DEF StackInv, StackOK, TruthOnce, Tracked, Made
  <2>3. Tracked(e)
    BY <2>1, <2>2 DEF DecayInv, Complete, EventOver
  <2>4. PICK t \in Made : particle[t] = e
    BY <2>3 DEF Tracked, Made
  <2>. QED  BY <2>1, <2>4 DEF DecayInv, Daughter, DaughterOK, EventOver, Busy
<1>. QED  BY <1>1, StackAlways, DecayAlways, PTL
==============================================================================
