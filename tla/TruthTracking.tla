---------------------------- MODULE TruthTracking ----------------------------
(***************************************************************************)
(* Recording the truth of one event while Geant4 tracks it.                *)
(*                                                                         *)
(* TruthFlaggingTrackAction decides, at the end of the tracking of a       *)
(* track, whether the track goes into the truth record; if it does not,    *)
(* its secondaries become children of its own parent.  After it            *)
(* TruthStoringTrackAction enters the track into the MCTruthTracker of the *)
(* event: RegisterPrimary for a particle that came from the generator,     *)
(* Declare for any other, and the end vertices.  Geant4 may suspend a      *)
(* track, track its secondaries first and resume it later; then both       *)
(* actions run at the end of each part.                                    *)
(*                                                                         *)
(* Tracks are numbered in the order in which they are made.  Which of the  *)
(* waiting tracks is next is left open: a user may install a stacking      *)
(* action.  A linked particle is known by its track, or by its particle    *)
(* of the generator.  Positions are not modelled: an end vertex is known   *)
(* by the track that begins or ends there.                                 *)
(***************************************************************************)
EXTENDS Naturals, FiniteSets

CONSTANTS
  MaxTracks,           \* tracks of the event (a bound)
  Particles,           \* particles of the generator given to Geant4
  Mother,              \* the mother of each of them, NoParticle for a root
  NoParticle,
  StorePrimaries, StoreDecayProducts,   \* options of TruthFlaggingTrackAction
  AddEndVertices,      \* option of TruthStoringTrackAction
  MaxSuspensions       \* how often Geant4 suspends a track (a bound)

Tracks == 1..MaxTracks
Root == 0              \* the parent ID of a primary track

ASSUME TruthAssumption ==
  /\ MaxTracks \in Nat \ {0} /\ MaxSuspensions \in Nat
  /\ NoParticle \notin Particles
  /\ Mother \in [Particles -> Particles \cup {NoParticle}]
  /\ StorePrimaries \in BOOLEAN /\ StoreDecayProducts \in BOOLEAN
  /\ AddEndVertices \in BOOLEAN

VARIABLES
  next,         \* the ID of the next track
  maker,        \* the track that made a track, for a primary the track itself
  particle,     \* the particle of the generator that a track stands for
  parentID,     \* G4Track's parent ID, as the actions have changed it
  waiting,      \* the tracks Geant4 still has to track, or to resume
  phase,        \* what Geant4 is doing with the current track; "ended" and
                \* "suspended": the flagging action has run, the other not yet
  current,      \* the current track
  secondaries,  \* what it has made since it was started or resumed
  suspends,     \* how often Geant4 has suspended a track
  storeTruth, indirect, savedEarly,  \* tracks with m_storeTruth, with
                \* m_directParent = false, with m_wasSuspended
  hitIDs,       \* the track IDs in the hits a track has made
  truth,        \* particles of the generator that have a G4Truth
  linked,       \* the keys of m_tracking_to_linked
  parentLP,     \* the track whose linked particle is the parent of a declared one
  ended,        \* the keys of m_buffered_endvertices
  endVertices,  \* the end vertices of DeclareEnd: <<linked, track begun there>>
  clash         \* RegisterPrimary has found a G4Truth already there

g4Vars    == <<next, maker, particle, waiting, phase, current, secondaries, suspends>>
infoVars  == <<storeTruth, indirect, savedEarly, hitIDs>>
truthVars == <<truth, linked, parentLP, ended, endVertices, clash>>
vars      == <<g4Vars, parentID, infoVars, truthVars>>

Phases == {"idle", "tracking", "decaying", "ended", "suspended"}

Daughters(g) == {d \in Particles : Mother[d] = g}

\* The track's particle has a decay from the generator
\* (GetPreAssignedDecayProducts).
Assigned(t) == particle[t] # NoParticle /\ Daughters(particle[t]) # {}

Tracked(g) == \E t \in 1..(next - 1) : particle[t] = g

Untracked == {g \in Particles : ~Tracked(g)}

Primaries == {g \in Particles : Mother[g] = NoParticle}

\* All tracking is done.
EventOver ==
  phase = "idle" /\ waiting = {} /\ \A g \in Primaries : Tracked(g)

TypeOK ==
  /\ next \in 1..(MaxTracks + 1)
  /\ maker \in [Tracks -> Tracks]
  /\ particle \in [Tracks -> Particles \cup {NoParticle}]
  /\ parentID \in [Tracks -> Tracks \cup {Root}]
  /\ waiting \subseteq Tracks
  /\ phase \in Phases
  /\ current \in Tracks
  /\ secondaries \subseteq Tracks
  /\ suspends \in 0..MaxSuspensions
  /\ storeTruth \subseteq Tracks /\ indirect \subseteq Tracks
  /\ savedEarly \subseteq Tracks
  /\ hitIDs \in [Tracks -> SUBSET (Tracks \cup {Root})]
  /\ truth \subseteq Particles
  /\ linked \subseteq Tracks
  /\ parentLP \in [Tracks -> Tracks]
  /\ ended \subseteq Tracks
  /\ endVertices \subseteq Tracks \X Tracks
  /\ clash \in BOOLEAN

Init ==
  /\ next = 1
  /\ maker = [t \in Tracks |-> t]
  /\ particle = [t \in Tracks |-> NoParticle]
  /\ parentID = [t \in Tracks |-> Root]
  /\ waiting = {}
  /\ phase = "idle" /\ current = 1 /\ secondaries = {} /\ suspends = 0
  /\ storeTruth = {} /\ indirect = {} /\ savedEarly = {}
  /\ hitIDs = [t \in Tracks |-> {}]
  /\ truth = {} /\ linked = {}
  /\ parentLP = [t \in Tracks |-> t]
  /\ ended = {} /\ endVertices = {}
  /\ clash = FALSE

-----------------------------------------------------------------------------
(* Geant4, as far as the actions see it.                                   *)

NewTrack(g, by, parent) ==
  /\ next <= MaxTracks
  /\ next' = next + 1
  /\ maker' = [maker EXCEPT ![next] = by]
  /\ particle' = [particle EXCEPT ![next] = g]
  /\ parentID' = [parentID EXCEPT ![next] = parent]

\* Before the event all root particles become tracks.
MakePrimary(g) ==
  /\ g \in Primaries /\ ~Tracked(g)
  /\ NewTrack(g, next, Root)
  /\ waiting' = waiting \cup {next}
  /\ UNCHANGED <<phase, current, secondaries, suspends, infoVars, truthVars>>

\* Tracking begins, or goes on; PreUserTrackingAction.
StartTracking(t) ==
  /\ phase = "idle" /\ \A g \in Primaries : Tracked(g)
  /\ t \in waiting
  /\ waiting' = waiting \ {t}
  /\ phase' = "tracking" /\ current' = t /\ secondaries' = {}
  /\ storeTruth' = IF StorePrimaries /\ parentID[t] = Root
                   THEN storeTruth \cup {t} ELSE storeTruth
  /\ UNCHANGED <<next, maker, particle, parentID, suspends, indirect,
                 savedEarly, hitIDs, truthVars>>

\* The track makes a secondary.  Numbers are kept for the particles of the
\* generator.
MakeSecondary ==
  /\ phase = "tracking"
  /\ next + Cardinality(Untracked) <= MaxTracks
  /\ NewTrack(NoParticle, current, current)
  /\ secondaries' = secondaries \cup {next}
  /\ UNCHANGED <<waiting, phase, current, suspends, infoVars, truthVars>>

\* The track makes a hit; a sensitive detector may want its truth.
ProcessHits ==
  /\ phase = "tracking"
  /\ hitIDs' = [hitIDs EXCEPT ![current] = @ \cup {current}]
  /\ storeTruth' \in {storeTruth, storeTruth \cup {current}}
  /\ UNCHANGED <<g4Vars, parentID, indirect, savedEarly, truthVars>>

\* The track decays as the generator said: one daughter after the other.
DecayInto(d) ==
  /\ phase \in {"tracking", "decaying"}
  /\ particle[current] # NoParticle
  /\ d \in Daughters(particle[current]) /\ ~Tracked(d)
  /\ NewTrack(d, current, current)
  /\ secondaries' = secondaries \cup {next}
  /\ phase' = "decaying"
  /\ UNCHANGED <<waiting, current, suspends, infoVars, truthVars>>

-----------------------------------------------------------------------------
(* TruthFlaggingTrackAction::PostUserTrackingAction.                       *)

\* Operators whose names begin with Bad are plausible bugs of the definition
\* they precede; nothing uses them, PROJECT.json says which property each breaks.

\* The secondaries keep their parent.
BadAdopt(stored) == parentID

\* The secondaries of a track that is not stored get its own parent.
Adopt(stored) ==
  [s \in Tracks |-> IF ~stored /\ s \in secondaries THEN parentID[current]
                                                    ELSE parentID[s]]

\* The daughters of a forced decay are flagged only when they are primaries.
BadForcedDaughters(forced) == {s \in secondaries : forced /\ parentID[s] = Root}

ForcedDaughters(forced) == {s \in secondaries : forced /\ ~Assigned(s)}

Orphans(stored) == IF stored THEN {} ELSE secondaries

\* The hits keep the track's ID.
BadMovedHits(stored) == hitIDs[current]

\* The hits of a track that is not stored go to its parent.
MovedHits(stored) ==
  IF stored \/ hitIDs[current] = {} THEN hitIDs[current] ELSE {parentID[current]}

\* Geant4 stops tracking because the track has ended or is suspended, and the
\* action runs.  Energy, type, process and position of the track and of its
\* secondaries may each be a reason to store it (wanted); the option StoreAll
\* is off, as it is by default.
FlagTruth(why) ==
  /\ \/ phase = "tracking" /\ why = "ended"
     \/ /\ phase = "decaying" /\ why = "ended"
        /\ \A d \in Daughters(particle[current]) : Tracked(d)
     \/ phase = "tracking" /\ why = "suspended" /\ suspends < MaxSuspensions
  /\ \E wanted \in BOOLEAN :
       LET forced == StoreDecayProducts /\ Assigned(current)
           stored == \/ wanted \/ forced
                     \/ current \in storeTruth
                     \/ StorePrimaries /\ parentID[current] = Root
       IN  /\ storeTruth' = storeTruth \cup ForcedDaughters(forced)
                                       \cup (IF stored THEN {current} ELSE {})
           /\ parentID' = Adopt(stored)
           /\ indirect' = indirect \cup Orphans(stored)
           /\ hitIDs' = [hitIDs EXCEPT ![current] = MovedHits(stored)]
  /\ phase' = why
  /\ suspends' = IF why = "suspended" THEN suspends + 1 ELSE suspends
  /\ UNCHANGED <<next, maker, particle, waiting, current, secondaries,
                 savedEarly, truthVars>>

-----------------------------------------------------------------------------
(* TruthStoringTrackAction::PostUserTrackingAction and MCTruthTracker.     *)

\* Then Geant4 puts the secondaries, and a suspended track, on its stack.
BackToStack ==
  /\ waiting' = waiting \cup secondaries
                        \cup (IF phase = "suspended" THEN {current} ELSE {})
  /\ phase' = "idle"
  /\ UNCHANGED <<next, maker, particle, current, secondaries, suspends>>

\* The generator's particle gets its G4Truth; a second one is refused.
RegisterPrimary(t) ==
  /\ particle[t] # NoParticle
  /\ IF particle[t] \in truth
     THEN clash' = TRUE /\ UNCHANGED <<truth, linked>>
     ELSE /\ truth' = truth \cup {particle[t]}
          /\ linked' = linked \cup {t}
          /\ UNCHANGED clash
  /\ UNCHANGED parentLP

\* A new linked particle, unless its parent has none ("Skipping!").
Declare(t) ==
  /\ particle[t] = NoParticle
  /\ IF parentID[t] \in linked
     THEN /\ linked' = linked \cup {t}
          /\ parentLP' = [parentLP EXCEPT ![t] = parentID[t]]
     ELSE UNCHANGED <<linked, parentLP>>
  /\ UNCHANGED <<truth, clash>>

\* The track is never marked.
BadMarkSaved(t) == UNCHANGED savedEarly

MarkSaved(t) ==
  savedEarly' = IF phase = "suspended" THEN savedEarly \cup {t} ELSE savedEarly

BufferEnd(t) ==
  ended' = IF AddEndVertices /\ phase = "ended" /\ t \in linked'
           THEN ended \cup {t} ELSE ended

\* The current track is flagged.
RecordTruth ==
  /\ phase \in {"ended", "suspended"}
  /\ current \in storeTruth
  /\ \/ /\ current \notin savedEarly
        /\ MarkSaved(current)
        /\ RegisterPrimary(current) \/ Declare(current)
     \/ /\ current \in savedEarly
        /\ UNCHANGED <<savedEarly, truth, linked, parentLP, clash>>
  /\ BufferEnd(current)
  /\ BackToStack
  /\ UNCHANGED <<parentID, storeTruth, indirect, hitIDs, endVertices>>

\* The parent of a track, if it is in the record, gets an end vertex where the
\* track began.
DeclareEnd(t) ==
  endVertices' = IF parentID[t] \in linked
                 THEN endVertices \cup {<<parentID[t], t>>} ELSE endVertices

\* It is not.  A track that is suspended here counts as saved.
PassOver ==
  /\ phase \in {"ended", "suspended"}
  /\ current \notin storeTruth
  /\ IF AddEndVertices /\ current \notin indirect /\ current \notin savedEarly
     THEN MarkSaved(current) /\ DeclareEnd(current)
     ELSE UNCHANGED <<savedEarly, endVertices>>
  /\ BackToStack
  /\ UNCHANGED <<parentID, storeTruth, indirect, hitIDs, truth, linked, parentLP,
                 ended, clash>>

Terminated == EventOver /\ UNCHANGED vars

-----------------------------------------------------------------------------

Next ==
  \/ \E g \in Particles : MakePrimary(g) \/ DecayInto(g)
  \/ \E t \in Tracks : StartTracking(t)
  \/ MakeSecondary \/ ProcessHits
  \/ \E why \in {"ended", "suspended"} : FlagTruth(why)
  \/ RecordTruth \/ PassOver
  \/ Terminated

Spec == Init /\ [][Next]_vars

-----------------------------------------------------------------------------
(* Properties.                                                             *)

Made == 1..(next - 1)

Primary(t) == maker[t] = t

\* A track that counts as suspended and saved has been saved, as the comment at
\* TruthStoringTrackAction.cpp:141 says.  PassOver may mark another; once that has
\* happened the track is lost, and the following three speak of events without.
MarkedAreSaved == savedEarly \subseteq linked

\* "propagate it's parent ID (stored) to its secondaries"
\* (TruthFlaggingTrackAction.cpp:315): when a track's turn comes, its parent
\* ID is that of a recorded track.  Otherwise Declare would drop it, and with
\* it everything that descends from it.
ParentsRecorded ==
  MarkedAreSaved => \A t \in waiting : ~Primary(t) => parentID[t] \in linked

\* Every track that was flagged is in the record when the event is over.
FlaggedRecorded == MarkedAreSaved /\ EventOver => storeTruth \subseteq linked

\* A hit points to a particle of the record; otherwise "Something went
\* seriously wrong" (GetMCCollectorHitsAlg.cpp:76).
HitsHaveParticle == EventOver => \A t \in Made : hitIDs[t] \subseteq linked

\* The same, of events in which no track is lost.
HitsRecorded == MarkedAreSaved => HitsHaveParticle

\* The parent of a track in the record is the track that made it or, when that
\* one is not recorded, the parent of that one: the closest recorded ancestor.
\* (A track may be suspended, give its secondaries away and be recorded later.)
ClosestAncestor ==
  EventOver /\ suspends = 0 => \A t \in Made :
    ~Primary(t) => parentID[t] = IF maker[t] \in linked THEN maker[t]
                                 ELSE parentID[maker[t]]

\* Either all daughters of a generated decay have been simulated or none:
\* DoCleanup (MCTruthConverter.cpp:417) removes the whole decay when it finds
\* one that has not.
SiblingsAgree ==
  EventOver => \A g \in Particles :
    Daughters(g) \subseteq truth \/ Daughters(g) \cap truth = {}

\* RegisterPrimary is called once for a particle, however often its track is
\* suspended (TruthStoringTrackAction.cpp:159).
RegisteredOnce == ~clash

\* An end vertex is only given to the track that the track beginning there
\* came from, not to the ancestor that adopted it.
OwnEndVertices == \A v \in endVertices : maker[v[2]] = v[1]

\* Each recorded track has its end in the buffer, resumed tracks included.
EndsBuffered == EventOver /\ AddEndVertices => ended = linked

==============================================================================
