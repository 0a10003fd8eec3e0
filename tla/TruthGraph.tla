------------------------------ MODULE TruthGraph ------------------------------
(***************************************************************************)
(* The truth record of one event as a graph of linked particles.           *)
(*                                                                         *)
(* HepMC3ToMCTruthConverter declares the particles of a HepMC event that   *)
(* are to be kept.  MCTruthTracker links them, passing over the ones that  *)
(* are not kept, and gives the travelling ones to Geant4.  While Geant4    *)
(* tracks, RegisterPrimary notes which of them it has met, and Declare     *)
(* adds the tracks it made itself.  MCTruth prunes the decays that the     *)
(* generator made but that did not happen.  The worker calls               *)
(* VerifyStructure after each of the three.                                *)
(*                                                                         *)
(* A particle is known by its number in the HepMC event, which is in the   *)
(* order of the IDs of the linked particles; a HepMC vertex by the set of  *)
(* particles that end there; a LinkedVertex by the linked particle whose   *)
(* ID it has.  Positions are not modelled: only particles that travel end  *)
(* elsewhere than they begin.  End vertices without outgoing particles,    *)
(* the signal flag and the conversion type REDECAY are left out.           *)
(***************************************************************************)
EXTENDS Naturals, Sequences, FiniteSets

CONSTANTS
  Generated,    \* particles of the HepMC event (a bound)
  MaxDeclared   \* tracks that Geant4 makes itself and that are recorded (a bound)

ASSUME GraphAssumption == Generated \in Nat \ {0} /\ MaxDeclared \in Nat

Particles == 1..Generated
LPs       == 1..(Generated + MaxDeclared)
None      == 0
NoVertex  == {}      \* no particle of the event ends where a root begins

VARIABLES
  mothers,     \* of the HepMC event: the mothers of each particle, which are
               \* its production vertex
  kept,        \* the particles to be kept, of these ...
  travels,     \* ... the ones that decay elsewhere than they are made, and
  oscillates,  \* ... the ones whose only daughter is their antiparticle
  graph,       \* the linked particles and vertices, see Unlinked
  phase,       \* how far the event has come
  loops,       \* of the recursion under way, the innermost first: what each
               \* loop has left, and whose children they are
  next,        \* m_pcounter
  heads        \* to_delete

hepmc == <<mothers, kept, travels, oscillates>>
vars  == <<hepmc, graph, phase, loops, next, heads>>

-----------------------------------------------------------------------------
(* The HepMC event.                                                        *)

Daughters(p) == {d \in Particles : p \in mothers[d]}

\* The vertex where p ends.
EndVertex(p) == IF Daughters(p) = {} THEN NoVertex
                ELSE mothers[CHOOSE d \in Daughters(p) : TRUE]

\* HepMCUtils::hasOscillated: the antiparticle that p has become, or None.
HasOscillated(p) ==
  IF p \in oscillates THEN CHOOSE d \in Daughters(p) : TRUE ELSE None

OscillatedVersions == {HasOscillated(p) : p \in oscillates}

\* What is reached from the set S along step, in as many rounds as there are
\* particles.
Rounds(S, step) ==
  LET after[n \in 0..Cardinality(DOMAIN step)] ==
        IF n = 0 THEN S ELSE UNION {{p} \cup step[p] : p \in after[n - 1]}
  IN  after

Reached(S, step) == Rounds(S, step)[Cardinality(DOMAIN step)]

\* Ancestors in the HepMC event.
AncestorsOf == [p \in Particles |-> Reached(mothers[p], mothers)]

Descendants(p) == {d \in Particles : p \in AncestorsOf[d]}

\* The events: a particle ends in one vertex.
Histories ==
  {m \in [Particles -> SUBSET Particles] :
     /\ \A p \in Particles : m[p] \subseteq 1..(p - 1)
     /\ \A c, d \in Particles : m[c] = m[d] \/ m[c] \cap m[d] = {}}

\* What descends from a particle that travels meets nothing else, and the
\* generator of decays marks it as to be kept.  Nothing that is not kept
\* travels: AddParent finds the child where the parent ends.
MayTravel(p) ==
  /\ Daughters(p) # {} /\ Descendants(p) \subseteq kept
  /\ UNION {mothers[d] : d \in Descendants(p)} \subseteq Descendants(p) \cup {p}

\* Oscillation has one step, and the antiparticle decays.
MayOscillate(p) ==
  /\ EndVertex(p) = {p} /\ Cardinality(Daughters(p)) = 1
  /\ \A d \in Daughters(p) : EndVertex(d) = {d}

\* IsTraveling and GetConversionType: what Geant4 is to track.
ForGeant4(p) == p \in kept /\ (Daughters(p) = {} \/ p \in travels)

-----------------------------------------------------------------------------
(* LinkedParticle and LinkedVertex.                                        *)

\* Declare: nothing is linked.  lps: m_linkedParticles; prod: m_prodvtx; ends: m_endvtxs;
\* incoming, outgoing, hepmcVtx: of the vertices; primaries, truth: the particles
\* with a G4Primary, a G4Truth; mother: the primary to which AddToG4Event gave
\* it as a daughter; failed: linking threw an exception, or a recursion over the
\* links would not end; stale: a use of an erased particle.
Unlinked ==
  [lps |-> kept,
   prod |-> [p \in LPs |-> None],        ends |-> [p \in LPs |-> {}],
   incoming |-> [v \in LPs |-> {}],      outgoing |-> [v \in LPs |-> {}],
   hepmcVtx |-> [v \in LPs |-> NoVertex],
   primaries |-> {}, truth |-> {}, mother |-> [p \in LPs |-> None],
   failed |-> FALSE, stale |-> FALSE]

Children(g, p) == UNION {g.outgoing[v] : v \in g.ends[p]}

Parents(g, p) == IF g.prod[p] = None THEN {} ELSE g.incoming[g.prod[p]]

\* c leaves the vertex v of its parent p, one with the ID of c being new.
JoinVertex(g, c, p, v) ==
  [g EXCEPT !.prod[c] = v, !.ends[p] = @ \cup {v},
            !.incoming[v] = @ \cup {p}, !.outgoing[v] = @ \cup {c}]

\* AddParent of two particles of the generator: the parent's vertex that stands
\* for the production vertex of the child, else the one the child has, else a
\* new one, which stands for the vertex where the parent ends.
AddParent(g, c, p) ==
  LET found == {v \in g.ends[p] : g.hepmcVtx[v] = mothers[c]}
      v == IF found # {} THEN CHOOSE w \in found : \A x \in found : w <= x
           ELSE IF g.prod[c] # None THEN g.prod[c] ELSE c
      new == found = {} /\ g.prod[c] = None
  IN  IF g.prod[c] \notin {None, v} THEN [g EXCEPT !.failed = TRUE]
      ELSE JoinVertex(IF new THEN [g EXCEPT !.hepmcVtx[c] = EndVertex(p)] ELSE g,
                      c, p, v)

\* AddParent and AddChild, which is AddParent once more.
AddLink(g, c, p) == AddParent(AddParent(g, c, p), c, p)

\* ~LinkedParticle
Delete(g, p) ==
  [g EXCEPT !.lps = @ \ {p},
            !.outgoing = [v \in LPs |-> @[v] \ {p}],
            !.incoming = [v \in LPs |-> @[v] \ {p}]]

-----------------------------------------------------------------------------
(* MCTruthTracker: DoInitialLinking and AddToG4Event.                      *)

\* Operators whose names begin with Bad are plausible bugs of the definition
\* they precede; nothing uses them, PROJECT.json says which property each breaks.

\* Only the mothers are looked at.
BadRoots == {p \in kept : mothers[p] \cap kept = {}}

\* IdentifyRootParticles
Roots == {p \in kept : AncestorsOf[p] \cap kept = {}}

\* A particle that is not kept has no linked particle to hand down.
BadNewParent(g, part, parent) == IF part \in g.lps THEN part ELSE None

\* The linked particle to which the daughters of part are linked.
NewParent(g, part, parent) == IF part \in g.lps THEN part ELSE parent

\* What child_converter does to a particle before it calls itself for the
\* daughters: of a particle that oscillates these are the daughters of its
\* antiparticle, whose linked particle is removed.
Linked(g, part, parent) ==
  LET linked == IF part \in g.lps /\ parent # None THEN AddLink(g, part, parent) ELSE g
      oscillated == HasOscillated(part)
  IN  IF oscillated \in linked.lps THEN Delete(linked, oscillated) ELSE linked

Last(part) == IF HasOscillated(part) # None THEN HasOscillated(part) ELSE part

\* Some particle descends from itself: the recursions over children never end.
Endless(g) ==
  LET children == [p \in LPs |-> Children(g, p)]
  IN  \E p \in g.lps : p \in Reached(children[p], children)

\* convert, likewise: parent is the last particle given to Geant4 on the way down.
Given(g, part, parent) ==
  IF ForGeant4(part)
  THEN [g EXCEPT !.primaries = @ \cup {part}, !.mother[part] = parent]
  ELSE g

-----------------------------------------------------------------------------
(* LPUtils and MCTruth.                                                    *)

\* ShouldHaveButWasNotSimulated
NotSimulated(g, p) == p \in g.primaries \ g.truth

\* The parents of the parents are asked as well (HasSimulatedG4Ancestor).
BadHasSimulatedG4Parent(g, p) ==
  \E m \in Parents(g, p) \cup UNION {Parents(g, m) : m \in Parents(g, p)} :
    m \in g.primaries \cap g.truth

HasSimulatedG4Parent(g, p) == Parents(g, p) \cap g.primaries \cap g.truth # {}

\* The children alone are asked.
BadHasG4ChildWithoutG4Truth(g, p) == \E c \in Children(g, p) : NotSimulated(g, c)

\* hasG4ChildWithoutG4Truth, on the way down through what Geant4 does not track.
HasG4ChildWithoutG4Truth(g, p) ==
  LET down == [c \in LPs |->
                 IF c \in Particles /\ ~ForGeant4(c) THEN Children(g, c) ELSE {}]
  IN  \E c \in Reached(Children(g, p), down) : NotSimulated(g, c)

\* The heads of the decays that did not happen.
HeadsToDelete(g) ==
  {p \in g.lps \cap Particles :
     /\ HasSimulatedG4Parent(g, p)
     /\ IF ForGeant4(p) THEN NotSimulated(g, p) ELSE HasG4ChildWithoutG4Truth(g, p)}

\* EraseLinkedParticle of a particle without children: EraseDecayTree has
\* erased them, and nothing remains to be connected anew.
EraseLinkedParticle(g, p) ==
  LET deleted == Delete(g, p)
      v == g.prod[p]
      empty == v # None /\ deleted.outgoing[v] = {}
  IN  [deleted EXCEPT
         !.stale = @ \/ p \notin g.lps \/ Children(g, p) # {},
         !.ends = [m \in LPs |-> IF empty /\ m \in deleted.incoming[v]
                                 THEN @[m] \ {v} ELSE @[m]]]

-----------------------------------------------------------------------------
(* The recursions, call by call: a loop over a set takes its members in the  *)
(* order of their IDs.                                                       *)

Least(S) == CHOOSE x \in S : \A y \in S : x <= y

Part   == Least(Head(loops).left)
Parent == Head(loops).parent

InLoop    == loops # <<>> /\ Head(loops).left # {}
LoopEnded == loops # <<>> /\ Head(loops).left = {}

\* The innermost loop goes on; a call for its next particle enters a loop.
Rest == [loops EXCEPT ![1].left = @ \ {Part}]

Enter(S, parent) == <<[left |-> S, parent |-> parent]>>

-----------------------------------------------------------------------------

Init ==
  /\ mothers \in Histories
  /\ kept \in SUBSET Particles
  /\ travels \in SUBSET {p \in kept : MayTravel(p)}
  /\ oscillates \in SUBSET {p \in kept : MayOscillate(p)}
  /\ oscillates \cap OscillatedVersions = {}
  /\ graph = Unlinked
  /\ phase = "declared" /\ loops = <<>> /\ next = Generated + 1 /\ heads = {}

\* The constructor of MCTruthTracker calls DoInitialLinking ...
MakeTracker ==
  /\ phase = "declared"
  /\ phase' = "linking" /\ loops' = Enter(Roots, None)
  /\ UNCHANGED <<hepmc, graph, next, heads>>

ChildConverter ==
  /\ phase = "linking" /\ InLoop
  /\ graph' = Linked(graph, Part, Parent)
  /\ IF graph'.failed
     THEN phase' = "failed" /\ loops' = <<>>
     ELSE /\ loops' = Enter(Daughters(Last(Part)), NewParent(graph, Part, Parent)) \o Rest
          /\ phase' = phase
  /\ UNCHANGED <<hepmc, next, heads>>

\* ... which looks at the roots once more, and with an event of Geant4 (without
\* one when the simulation is skipped) AddToG4Event.
AddToG4Event ==
  /\ phase = "linking" /\ loops = <<>>
  /\ IF Endless(graph) \/ \E r \in Roots : graph.prod[r] # None
     THEN /\ graph' = [graph EXCEPT !.failed = TRUE]
          /\ phase' = "failed" /\ loops' = <<>>
     ELSE /\ graph' = graph
          /\ \/ phase' = "converting" /\ loops' = Enter(Roots, None)
             \/ phase' = "tracking" /\ loops' = <<>>
  /\ UNCHANGED <<hepmc, next, heads>>

Convert ==
  /\ phase = "converting" /\ InLoop
  /\ IF Part \in graph.primaries
     THEN graph' = graph /\ loops' = Rest
     ELSE /\ graph' = Given(graph, Part, Parent)
          /\ loops' = Enter(Children(graph, Part),
                            IF ForGeant4(Part) THEN Part ELSE Parent) \o Rest
  /\ UNCHANGED <<hepmc, phase, next, heads>>

\* A call returns.
Return ==
  /\ phase \in {"linking", "converting"} /\ LoopEnded
  /\ loops' = Tail(loops)
  /\ UNCHANGED <<hepmc, graph, phase, next, heads>>

StartTracking ==
  /\ phase = "converting" /\ loops = <<>>
  /\ phase' = "tracking"
  /\ UNCHANGED <<hepmc, graph, loops, next, heads>>

\* Geant4 has tracked p, which it makes when the primary before it decays; with
\* the default options all of them are recorded.
RegisterPrimary(p) ==
  /\ phase = "tracking"
  /\ p \in graph.primaries \ graph.truth
  /\ graph.mother[p] \in graph.truth \cup {None}
  /\ graph' = [graph EXCEPT !.truth = @ \cup {p}]
  /\ UNCHANGED <<hepmc, phase, loops, next, heads>>

\* A track that Geant4 made itself.  It leaves the parent where an earlier one
\* did, in the same process, or somewhere else.
Declare(p) ==
  /\ phase = "tracking" /\ next \in LPs
  /\ p \in graph.truth
  /\ \E v \in {w \in graph.ends[p] : w > Generated} \cup {next} :
       graph' = JoinVertex([graph EXCEPT !.lps = @ \cup {next},
                                         !.truth = @ \cup {next}], next, p, v)
  /\ next' = next + 1
  /\ UNCHANGED <<hepmc, phase, loops, heads>>

\* Tracking is over: every primary without a mother has been tracked, and of
\* the daughters of another all or none (SiblingsAgree of TruthTracking).
TrackingOver ==
  \A m \in graph.primaries \cup {None} :
    LET daughters == {p \in graph.primaries : graph.mother[p] = m}
    IN  \/ daughters \subseteq graph.truth
        \/ m # None /\ daughters \cap graph.truth = {}

\* The constructor of MCTruth calls DoCleanup, which finds the heads ...
MakeTruth ==
  /\ phase = "tracking" /\ TrackingOver
  /\ heads' = HeadsToDelete(graph)
  /\ phase' = "cleaning"
  /\ UNCHANGED <<hepmc, graph, loops, next>>

\* ... and erases their trees, in the order of their addresses.
EraseNext(p) ==
  /\ phase = "cleaning" /\ loops = <<>> /\ p \in heads
  /\ loops' = Enter(Children(graph, p), p)
  /\ heads' = heads \ {p}
  /\ UNCHANGED <<hepmc, graph, phase, next>>

EraseDecayTree ==
  /\ phase = "cleaning" /\ InLoop
  /\ loops' = Enter(Children(graph, Part), Part) \o Rest
  /\ UNCHANGED <<hepmc, graph, phase, next, heads>>

EraseParent ==
  /\ phase = "cleaning" /\ LoopEnded
  /\ graph' = EraseLinkedParticle(graph, Parent)
  /\ loops' = Tail(loops)
  /\ UNCHANGED <<hepmc, phase, next, heads>>

Deliver ==
  /\ phase = "cleaning" /\ loops = <<>> /\ heads = {}
  /\ phase' = "delivered"
  /\ UNCHANGED <<hepmc, graph, loops, next, heads>>

Terminated == phase \in {"failed", "delivered"} /\ UNCHANGED vars

Next ==
  \/ MakeTracker \/ ChildConverter \/ AddToG4Event \/ Convert \/ Return \/ StartTracking
  \/ MakeTruth \/ EraseDecayTree \/ EraseParent \/ Deliver
  \/ \E p \in LPs : RegisterPrimary(p) \/ Declare(p) \/ EraseNext(p)
  \/ Terminated

Spec == Init /\ [][Next]_vars

-----------------------------------------------------------------------------
(* Properties.                                                             *)

\* The nearest kept particles above p in the HepMC event.
LinkableMothers(p) ==
  LET up == [m \in Particles |-> IF m \in kept \ OscillatedVersions THEN {} ELSE mothers[m]]
  IN  Reached(mothers[p], up) \cap (kept \ OscillatedVersions)

Linkable(m) ==
  IF m \in kept \ OscillatedVersions THEN {m} ELSE LinkableMothers(m)

\* A particle that is not kept meets another at its end only if both come from
\* the same kept particles, or it comes from none.
Unmixed ==
  \A d \in Particles : \A s, m \in mothers[d] :
    s \notin kept => Linkable(s) \in {Linkable(m), {}}

\* A particle that is kept beside one that is passed over on the way to others is
\* reached on one line of descent.
Undoubled ==
  \A c, s \in Particles :
    mothers[c] = mothers[s] /\ c \in kept /\ s \notin kept /\ Descendants(s) \cap kept # {}
      => \A q \in AncestorsOf[c] \cup {c} : Cardinality(mothers[q]) <= 1

\* The checks of VerifyStructure after linking, after the simulation and after
\* the clean-up find nothing (the worker would end with a GaudiException), and
\* no link is refused: every particle is reached from the roots, and from the
\* particles without children.
StructureVerified ==
  /\ Unmixed /\ Undoubled => ~graph.failed
  /\ phase \in {"tracking", "delivered"} =>
       LET leaves == {p \in graph.lps : Children(graph, p) = {}}
       IN  /\ graph.lps \subseteq Reached(Roots, [p \in LPs |-> Children(graph, p)])
           /\ graph.lps \subseteq Reached(leaves, [p \in LPs |-> Parents(graph, p)])

OwnParents ==
  \A p \in graph.lps \cap Particles : Parents(graph, p) = LinkableMothers(p)

\* A particle is linked to the nearest particles above it that are kept, the
\* ones passed over and the antiparticles between them or not ("this HepMC
\* particle was not supposed to be converted and is skipped",
\* MCTruthConverter.cpp:219), however many lines of descent lead there.
ParentsFromHepMC == phase = "tracking" /\ Unmixed => OwnParents

\* "assign the production vertex of the child to the vertex"
\* (LinkedParticle.cpp:173): particles that come from one HepMC vertex come from
\* one vertex of the record.
OneVertex ==
  phase = "tracking" => \A c, d \in graph.lps \cap Particles :
    mothers[c] = mothers[d] => graph.prod[c] = graph.prod[d]

\* The clean-up uses no particle that it has erased, whatever the order of the
\* heads, erases none from under its children, and keeps every particle that
\* Geant4 has tracked: a hit may point to it.
NothingStale == ~graph.stale /\ graph.truth \subseteq graph.lps

\* Every ancestor that Geant4 was to track has decayed as generated.
Happened(p) ==
  \A t \in AncestorsOf[p] \cap graph.primaries :
    \E d \in graph.truth \cap Particles : graph.mother[d] = t

\* What is delivered is what has happened: all tracks that are recorded and, of
\* the generated particles, those that Geant4 made or that were there before.
RecordIsWhatHappened ==
  phase = "delivered" =>
    graph.lps = {p \in kept \ OscillatedVersions : Happened(p)}
                  \cup Generated + 1 .. next - 1

==============================================================================
