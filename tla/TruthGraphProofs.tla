------------------------- MODULE TruthGraphProofs -------------------------
(***************************************************************************)
(* Theorems about the graph of linked particles, for any number of         *)
(* particles, any event and any choice of what happens to it.              *)
(*                                                                         *)
(* The links are made, gone through and pruned by recursions, so the       *)
(* invariants speak of the loops that have not ended: what has been linked,*)
(* given to Geant4 or erased is right, and the rest is still on the way.   *)
(* LinkInv is about the structure.  Settled says that every particle has   *)
(* the nearest kept ones above it as parents, and others only where lines  *)
(* of descent mix; Structure, that the graph has no cycle and hangs on the *)
(* roots.  RecordInv is about what has been tracked: each primary has the  *)
(* nearest one above it that travels as its mother (Primaries), what is    *)
(* lost is what lies below one that did not decay (Lost), and the trees    *)
(* that are being erased are disjoint and cover it (Cleaned).              *)
(***************************************************************************)
EXTENDS TruthGraph, FiniteSetTheorems, WellFoundedInduction, TLAPS

-----------------------------------------------------------------------------
(* Sets, and what is reached along a step. *)

\* Finite sets of subsets have minimal members.
LEMMA MinimalSet ==
  \A S, F : IsFiniteSet(S) /\ F \subseteq SUBSET S /\ F # {}
            => \E X \in F : \A Y \in F : Y \subseteq X => Y = X
<1>. SUFFICES ASSUME NEW S, IsFiniteSet(S), NEW F, F \subseteq SUBSET S, F # {}
              PROVE  \E X \in F : \A Y \in F : Y \subseteq X => Y = X
  OBVIOUS
<1>1. IsWellFoundedOn(StrictSubsetOrdering(S), FiniteSubsetsOf(S))
  BY FS_StrictSubsetOrderingWellFounded
<1>2. FiniteSubsetsOf(S) = SUBSET S
  BY FS_FiniteSubsetsOfFinite
<1>3. PICK X \in F : \A Y \in F : <<Y, X>> \notin StrictSubsetOrdering(S)
  BY <1>1, <1>2, WFMin
<1>4. \A Y \in F : Y \subseteq X /\ Y # X => FALSE
  BY <1>3 DEF StrictSubsetOrdering
<1>. QED BY <1>4

\* A set of numbers has a least member.
LEMMA LeastMember ==
  ASSUME NEW T \in SUBSET Nat, T # {}
  PROVE  \E x \in T : \A y \in T : x <= y
<1>1. PICK n \in T : TRUE
  OBVIOUS
<1>. DEFINE F == {0..x : x \in {t \in T : t <= n}}
            N == 0..n
<1>2. F \subseteq SUBSET N /\ F # {}
  <2>1. 0..n \in F
    BY <1>1
  <2>. QED BY <2>1
<1>3. IsFiniteSet(N)
  BY <1>1, FS_Interval
<1>. HIDE DEF F, N
<1>4. PICK X \in F : \A Y \in F : Y \subseteq X => Y = X
  BY <1>2, <1>3, MinimalSet
<1>5. PICK x \in T : x <= n /\ X = 0..x
  BY <1>4 DEF F
<1>6. \A y \in T : x <= y
  <2>1. SUFFICES ASSUME NEW y \in T, y < x PROVE FALSE
    BY <1>5
  <2>2. 0..y \in F
    BY <1>5, <2>1 DEF F
  <2>3. 0..y = 0..x
    BY <1>4, <1>5, <2>2, <2>1
  <2>. QED BY <2>3, <2>1
<1>. QED BY <1>6

\* The rounds of Rounds, up to N.
IsRounds(h, S, step, N) ==
  h = [n \in 0..N |-> IF n = 0 THEN S ELSE UNION {{p} \cup step[p] : p \in h[n - 1]}]

\* What the definition of Rounds says, if there is such a function.
LEMMA RoundsDef ==
  ASSUME NEW S, NEW step, NEW h, IsRounds(h, S, step, Cardinality(DOMAIN step))
  PROVE  IsRounds(Rounds(S, step), S, step, Cardinality(DOMAIN step))
<1>. DEFINE Is(f) == IsRounds(f, S, step, Cardinality(DOMAIN step))
<1>2. Rounds(S, step) = CHOOSE f : Is(f)
  BY Zenon DEF Rounds, IsRounds
<1>3. Is(CHOOSE f : Is(f))
  <2>. HIDE DEF Is
  <2>1. Is(h)
    BY DEF Is
  <2>. QED BY <2>1, Zenon
<1>. QED BY <1>2, <1>3, Zenon

\* Induction over a set of numbers.
LEMMA SetInduction ==
  ASSUME NEW T, 0 \in T, \A n \in Nat : n \in T => n + 1 \in T
  PROVE  \A n \in Nat : n \in T
<1>. SUFFICES ASSUME {n \in Nat : n \notin T} # {} PROVE FALSE
  OBVIOUS
<1>1. PICK x \in {n \in Nat : n \notin T} : \A y \in {n \in Nat : n \notin T} : x <= y
  BY LeastMember
<1>2. x - 1 \in Nat /\ x - 1 \notin {n \in Nat : n \notin T}
  BY <1>1
<1>3. (x - 1) + 1 \in T
  BY <1>2
<1>. QED BY <1>1, <1>3

\* There is one.
LEMMA RoundsExist ==
  ASSUME NEW S, NEW step, NEW N \in Nat
  PROVE  \E h : IsRounds(h, S, step, N)
<1>. DEFINE G(X) == UNION {{p} \cup step[p] : p \in X}
            Is(h, k) == h = [n \in 0..k |-> IF n = 0 THEN S ELSE G(h[n - 1])]
            T == {k \in Nat : \E h : Is(h, k)}
<1>1. 0 \in T
  <2>. HIDE DEF G
  <2>1. Is([n \in 0..0 |-> S], 0)
    OBVIOUS
  <2>. QED BY <2>1
<1>2. ASSUME NEW k \in Nat, k \in T PROVE k + 1 \in T
  <2>. HIDE DEF G
  <2>1. PICK h : Is(h, k)
    BY <1>2
  <2>. DEFINE f == [n \in 0..(k + 1) |-> IF n = k + 1 THEN G(h[k]) ELSE h[n]]
  <2>2. Is(f, k + 1)
    <3>1. \A n \in 0..(k + 1) : f[n] = IF n = 0 THEN S ELSE G(f[n - 1])
      <4>. SUFFICES ASSUME NEW n \in 0..(k + 1)
                    PROVE  f[n] = IF n = 0 THEN S ELSE G(f[n - 1])
        OBVIOUS
      <4>1. CASE n = k + 1
        <5>1. f[k] = h[k] /\ f[k + 1] = G(h[k]) /\ k + 1 # 0 /\ (k + 1) - 1 = k
          OBVIOUS
        <5>. QED BY <5>1, <4>1
      <4>2. CASE n # k + 1 /\ n # 0
        <5>1. n \in 0..k /\ n - 1 \in 0..k /\ n - 1 # k + 1
          BY <4>2
        <5>2. f[n] = h[n] /\ f[n - 1] = h[n - 1] /\ h[n] = G(h[n - 1])
          BY <5>1, <2>1, <4>2
        <5>. QED BY <5>2, <4>2
      <4>3. CASE n = 0
        <5>1. f[0] = h[0] /\ h[0] = S
          BY <2>1
        <5>. QED BY <5>1, <4>3
      <4>. QED BY <4>1, <4>2, <4>3
    <3>2. f = [n \in 0..(k + 1) |-> f[n]]
      OBVIOUS
    <3>. HIDE DEF f
    <3>3. [n \in 0..(k + 1) |-> f[n]]
            = [n \in 0..(k + 1) |-> IF n = 0 THEN S ELSE G(f[n - 1])]
      BY <3>1
    <3>. QED BY <3>2, <3>3, Zenon
  <2>3. k + 1 \in Nat
    OBVIOUS
  <2>. HIDE DEF f
  <2>. QED BY <2>2, <2>3
<1>. HIDE DEF T
<1>3. N \in T
  BY <1>1, <1>2, SetInduction
<1>. QED BY <1>3 DEF T, IsRounds

\* The rounds one by one.
LEMMA RoundsStep ==
  ASSUME NEW S, NEW step, Cardinality(DOMAIN step) \in Nat
  PROVE  /\ Rounds(S, step)[0] = S
         /\ \A n \in 0..(Cardinality(DOMAIN step) - 1) :
              Rounds(S, step)[n + 1] = UNION {{p} \cup step[p] : p \in Rounds(S, step)[n]}
<1>. DEFINE N == Cardinality(DOMAIN step)
            R == Rounds(S, step)
<1>1. IsRounds(R, S, step, N)
  <2>1. PICK h : IsRounds(h, S, step, N)
    BY RoundsExist
  <2>. QED BY <2>1, RoundsDef
<1>0. N \in Nat
  OBVIOUS
<1>. HIDE DEF R, N
<1>2. \A n \in 0..N : R[n] = IF n = 0 THEN S ELSE UNION {{p} \cup step[p] : p \in R[n - 1]}
  BY <1>1 DEF IsRounds
<1>3. \A n \in 0..(N - 1) : n + 1 \in 0..N /\ n + 1 # 0 /\ (n + 1) - 1 = n
  BY <1>0
<1>4. R[0] = S
  <2>1. 0 \in 0..N
    BY <1>0
  <2>. QED BY <2>1, <1>2
<1>5. ASSUME NEW n \in 0..(N - 1) PROVE R[n + 1] = UNION {{p} \cup step[p] : p \in R[n]}
  BY <1>2, <1>3
<1>. QED BY <1>4, <1>5 DEF R, N

\* Reached(S, step) is the least set that contains S and is closed under step.
LEMMA ReachedLeast ==
  ASSUME NEW step, IsFiniteSet(DOMAIN step),
         \A p \in DOMAIN step : step[p] \subseteq DOMAIN step,
         NEW S, S \subseteq DOMAIN step
  PROVE  /\ S \subseteq Reached(S, step)
         /\ Reached(S, step) \subseteq DOMAIN step
         /\ \A p \in Reached(S, step) : step[p] \subseteq Reached(S, step)
         /\ \A C : S \subseteq C /\ (\A p \in C \cap DOMAIN step : step[p] \subseteq C)
                   => Reached(S, step) \subseteq C
<1>. DEFINE D == DOMAIN step
            N == Cardinality(D)
            R == Rounds(S, step)
            G(X) == UNION {{p} \cup step[p] : p \in X}
<1>1. N \in Nat
  BY FS_CardinalityType
<1>2. R[0] = S /\ \A n \in 0..(N - 1) : R[n + 1] = G(R[n])
  BY <1>1, RoundsStep
<1>3. Reached(S, step) = R[N]
  BY DEF Reached
<1>4. \A X : X \subseteq D => X \subseteq G(X) /\ G(X) \subseteq D
  OBVIOUS
<1>5. \A X, C : X \subseteq C /\ X \subseteq D /\ (\A p \in C \cap D : step[p] \subseteq C)
                => G(X) \subseteq C
  OBVIOUS
<1>6. \A X : X \subseteq D /\ G(X) = X => \A p \in X : step[p] \subseteq X
  OBVIOUS
<1>7. IsFiniteSet(D) /\ S \subseteq D
  OBVIOUS
<1>. HIDE DEF D, N, R, G
<1>8. \A n \in 0..N : R[n] \subseteq D /\ S \subseteq R[n]
  <2>. DEFINE T == {n \in Nat : n \in 0..N => R[n] \subseteq D /\ S \subseteq R[n]}
  <2>1. 0 \in T
    BY <1>2, <1>7
  <2>2. ASSUME NEW n \in Nat, n \in T PROVE n + 1 \in T
    <3>. SUFFICES ASSUME n + 1 \in 0..N PROVE R[n + 1] \subseteq D /\ S \subseteq R[n + 1]
      OBVIOUS
    <3>1. n \in 0..N /\ n \in 0..(N - 1)
      BY <1>1
    <3>2. R[n] \subseteq D /\ S \subseteq R[n] /\ R[n + 1] = G(R[n])
      BY <2>2, <3>1, <1>2
    <3>. QED BY <3>2, <1>4
  <2>. HIDE DEF T
  <2>3. \A n \in Nat : n \in T
    BY <2>1, <2>2, SetInduction
  <2>. QED BY <2>3, <1>1 DEF T
<1>9. ASSUME NEW C, S \subseteq C, \A p \in C \cap D : step[p] \subseteq C
      PROVE  R[N] \subseteq C
  <2>. DEFINE T == {n \in Nat : n \in 0..N => R[n] \subseteq C}
  <2>1. 0 \in T
    BY <1>2, <1>9
  <2>2. ASSUME NEW n \in Nat, n \in T PROVE n + 1 \in T
    <3>. SUFFICES ASSUME n + 1 \in 0..N PROVE R[n + 1] \subseteq C
      OBVIOUS
    <3>1. n \in 0..N /\ n \in 0..(N - 1)
      BY <1>1
    <3>2. R[n] \subseteq C /\ R[n] \subseteq D /\ R[n + 1] = G(R[n])
      BY <2>2, <3>1, <1>2, <1>8
    <3>. QED BY <3>2, <1>5, <1>9
  <2>. HIDE DEF T
  <2>3. \A n \in Nat : n \in T
    BY <2>1, <2>2, SetInduction
  <2>. QED BY <2>3, <1>1 DEF T
<1>10. G(R[N]) = R[N]
  <2>. SUFFICES ASSUME G(R[N]) # R[N] PROVE FALSE
    OBVIOUS
  <2>1. ASSUME NEW n \in 0..N, G(R[n]) = R[n] PROVE FALSE
    <3>. DEFINE T == {m \in Nat : n + m \in 0..N => R[n + m] = R[n]}
    <3>1. 0 \in T
      OBVIOUS
    <3>2. ASSUME NEW m \in Nat, m \in T PROVE m + 1 \in T
      <4>. SUFFICES ASSUME n + (m + 1) \in 0..N PROVE R[n + (m + 1)] = R[n]
        OBVIOUS
      <4>1. n + m \in 0..N /\ n + m \in 0..(N - 1) /\ (n + m) + 1 = n + (m + 1)
        BY <1>1
      <4>2. R[n + m] = R[n]
        BY <3>2, <4>1
      <4>3. R[(n + m) + 1] = G(R[n + m])
        BY <4>1, <1>2
      <4>. QED BY <4>1, <4>2, <4>3, <2>1
    <3>. HIDE DEF T
    <3>3. \A m \in Nat : m \in T
      BY <3>1, <3>2, SetInduction
    <3>4. N - n \in Nat /\ n + (N - n) = N
      BY <1>1
    <3>5. R[N] = R[n]
      BY <3>3, <3>4, <1>1 DEF T
    <3>. QED BY <3>5, <2>1
  <2>. DEFINE T == {n \in Nat : n \in 0..N => Cardinality(G(R[n])) >= n + 1}
  <2>2. ASSUME NEW X, X \subseteq D, G(X) # X
        PROVE  Cardinality(X) \in Nat /\ Cardinality(G(X)) \in Nat
               /\ Cardinality(G(X)) > Cardinality(X)
    <3>1. X \subseteq G(X) /\ G(X) \subseteq D
      BY <2>2, <1>4
    <3>2. IsFiniteSet(G(X))
      BY <3>1, <1>7, FS_Subset
    <3>3. IsFiniteSet(X) /\ Cardinality(X) <= Cardinality(G(X))
          /\ (Cardinality(G(X)) = Cardinality(X) => G(X) = X)
      BY <3>1, <3>2, FS_Subset
    <3>. QED BY <3>2, <3>3, <2>2, FS_CardinalityType
  <2>3. 0 \in T
    <3>1. 0 \in 0..N
      BY <1>1
    <3>2. Cardinality(G(R[0])) > Cardinality(R[0]) /\ Cardinality(R[0]) \in Nat
          /\ Cardinality(G(R[0])) \in Nat
      BY <3>1, <2>1, <2>2, <1>8
    <3>. QED BY <3>2
  <2>4. ASSUME NEW n \in Nat, n \in T PROVE n + 1 \in T
    <3>. SUFFICES ASSUME n + 1 \in 0..N PROVE Cardinality(G(R[n + 1])) >= (n + 1) + 1
      OBVIOUS
    <3>1. n \in 0..N /\ n \in 0..(N - 1)
      BY <1>1
    <3>2. Cardinality(G(R[n])) >= n + 1 /\ R[n + 1] = G(R[n])
      BY <2>4, <3>1, <1>2
    <3>3. Cardinality(G(R[n + 1])) > Cardinality(R[n + 1]) /\ Cardinality(R[n + 1]) \in Nat
          /\ Cardinality(G(R[n + 1])) \in Nat
      BY <2>1, <2>2, <1>8
    <3>. QED BY <3>2, <3>3
  <2>. HIDE DEF T
  <2>5. \A n \in Nat : n \in T
    BY <2>3, <2>4, SetInduction
  <2>6. N \in 0..N
    BY <1>1
  <2>7. Cardinality(G(R[N])) >= N + 1
    BY <2>5, <2>6, <1>1 DEF T
  <2>8. G(R[N]) \subseteq D
    BY <2>6, <1>8, <1>4
  <2>9. IsFiniteSet(G(R[N])) /\ Cardinality(G(R[N])) <= Cardinality(D)
    BY <2>8, <1>7, FS_Subset
  <2>10. Cardinality(G(R[N])) \in Nat
    BY <2>9, FS_CardinalityType
  <2>. QED BY <2>7, <2>9, <2>10, <1>1 DEF N
<1>11. N \in 0..N
  BY <1>1
<1>12. R[N] \subseteq D /\ S \subseteq R[N]
  BY <1>11, <1>8
<1>13. \A p \in R[N] : step[p] \subseteq R[N]
  BY <1>12, <1>10, <1>6
<1>. QED BY <1>3, <1>12, <1>13, <1>9 DEF D

-----------------------------------------------------------------------------
(* The HepMC event. *)

\* What Init chooses and nothing changes.
Event ==
  /\ mothers \in Histories
  /\ kept \in SUBSET Particles
  /\ travels \in SUBSET {p \in kept : MayTravel(p)}
  /\ oscillates \in SUBSET {p \in kept : MayOscillate(p)}
  /\ oscillates \cap OscillatedVersions = {}

\* The particles that are linked.
K == kept \ OscillatedVersions

\* What the bounds say of the numbers of particles.
LEMMA ParticlesFinite ==
  /\ Generated \in Nat /\ MaxDeclared \in Nat /\ None \notin Particles
  /\ Particles \subseteq LPs /\ None \notin LPs /\ LPs \subseteq Nat
  /\ IsFiniteSet(Particles) /\ IsFiniteSet(LPs)
  BY GraphAssumption, FS_Interval DEF Particles, LPs, None

\* Mothers come before their daughters, and a particle ends in one vertex.
LEMMA MothersFirst ==
  ASSUME Event
  PROVE  /\ mothers \in [Particles -> SUBSET Particles]
         /\ \A p \in Particles : mothers[p] \subseteq Particles
         /\ \A p \in Particles : \A m \in mothers[p] : m < p
         /\ \A c, d \in Particles : mothers[c] = mothers[d] \/ mothers[c] \cap mothers[d] = {}
  BY GraphAssumption DEF Event, Histories, Particles

\* A particle ends where its daughters begin.
LEMMA EndVertexIs ==
  ASSUME Event, NEW p \in Particles, NEW d \in Daughters(p)
  PROVE  d \in Particles /\ p \in mothers[d] /\ EndVertex(p) = mothers[d]
<1>1. PICK e \in Daughters(p) : EndVertex(p) = mothers[e]
  <2>1. Daughters(p) # {}
    OBVIOUS
  <2>2. (CHOOSE e \in Daughters(p) : TRUE) \in Daughters(p)
    BY <2>1
  <2>. QED BY <2>1, <2>2 DEF EndVertex
<1>. QED BY <1>1, MothersFirst DEF Daughters

\* A particle oscillates into its only daughter, which decays.
LEMMA OscillatedIs ==
  ASSUME Event, NEW p \in Particles
  PROVE  /\ p \notin oscillates => HasOscillated(p) = None
         /\ p \in oscillates =>
              /\ HasOscillated(p) \in OscillatedVersions
              /\ HasOscillated(p) \in Particles
              /\ Daughters(p) = {HasOscillated(p)}
              /\ mothers[HasOscillated(p)] = {p}
              /\ p \in K
              /\ EndVertex(p) = {p}
              /\ Daughters(HasOscillated(p)) # {}
              /\ \A d \in Daughters(HasOscillated(p)) : mothers[d] = {HasOscillated(p)}
<1>1. CASE p \notin oscillates
  BY <1>1 DEF HasOscillated
<1>2. CASE p \in oscillates
  <2>. DEFINE o == HasOscillated(p)
  <2>1. MayOscillate(p) /\ p \in K /\ o \in OscillatedVersions
    BY <1>2 DEF Event, K, OscillatedVersions
  <2>2. Daughters(p) # {}
    BY <2>1 DEF MayOscillate, EndVertex, NoVertex
  <2>3. o \in Daughters(p)
    BY <2>2, <1>2 DEF HasOscillated
  <2>4. IsFiniteSet(Daughters(p))
    BY ParticlesFinite, FS_Subset DEF Daughters
  <2>5. \E x : Daughters(p) = {x}
    BY <2>1, <2>4, FS_Singleton DEF MayOscillate
  <2>6. Daughters(p) = {o}
    BY <2>5, <2>3
  <2>7. o \in Particles /\ mothers[o] = EndVertex(p)
    BY <2>3, EndVertexIs
  <2>8. EndVertex(p) = {p} /\ EndVertex(o) = {o}
    BY <2>1, <2>3 DEF MayOscillate
  <2>9. Daughters(o) # {}
    BY <2>8 DEF EndVertex, NoVertex
  <2>10. \A d \in Daughters(o) : mothers[d] = {o}
    BY <2>7, <2>8, EndVertexIs
  <2>. QED BY <1>2, <2>1, <2>6, <2>7, <2>8, <2>9, <2>10
<1>. QED BY <1>1, <1>2

\* An antiparticle comes from a particle that oscillates.
LEMMA OscillatedFrom ==
  ASSUME Event, NEW o \in OscillatedVersions
  PROVE  \E p \in oscillates : o = HasOscillated(p) /\ p \in Particles
  BY DEF OscillatedVersions, Event

\* What is neither linked nor an antiparticle was not to be kept.
LEMMA KeptOrOscillated ==
  ASSUME Event, NEW p \in Particles, p \notin K, p \notin OscillatedVersions
  PROVE  p \notin kept /\ p \notin oscillates
  BY DEF Event, K

\* A step on the particles.
LEMMA ReachedParticles ==
  ASSUME NEW step \in [Particles -> SUBSET Particles], NEW S \in SUBSET Particles
  PROVE  /\ S \subseteq Reached(S, step)
         /\ Reached(S, step) \subseteq Particles
         /\ \A p \in Reached(S, step) : step[p] \subseteq Reached(S, step)
         /\ \A C : S \subseteq C /\ (\A p \in C \cap Particles : step[p] \subseteq C)
                   => Reached(S, step) \subseteq C
         /\ \A x \in Reached(S, step) : x \in S \/ \E y \in Reached(S, step) : x \in step[y]
<1>. DEFINE R == Reached(S, step)
<1>1. IsFiniteSet(DOMAIN step) /\ DOMAIN step = Particles
  BY ParticlesFinite
<1>2. /\ S \subseteq R /\ R \subseteq Particles
      /\ \A p \in R : step[p] \subseteq R
      /\ \A C : S \subseteq C /\ (\A p \in C \cap Particles : step[p] \subseteq C) => R \subseteq C
  BY <1>1, ReachedLeast
<1>. HIDE DEF R
<1>3. ASSUME NEW x \in R, x \notin S, \A y \in R : x \notin step[y] PROVE FALSE
  <2>1. S \subseteq R \ {x} /\ \A p \in (R \ {x}) \cap Particles : step[p] \subseteq R \ {x}
    BY <1>2, <1>3
  <2>. QED BY <2>1, <1>2, <1>3
<1>. QED BY <1>2, <1>3 DEF R

\* The ancestors are the least set that holds the mothers and theirs.
LEMMA AncestorsAre ==
  ASSUME Event
  PROVE  \A p \in Particles :
           /\ AncestorsOf[p] \subseteq Particles
           /\ mothers[p] \subseteq AncestorsOf[p]
           /\ \A a \in AncestorsOf[p] :
                /\ a < p /\ mothers[a] \subseteq AncestorsOf[p]
                /\ AncestorsOf[a] \subseteq AncestorsOf[p]
                /\ \E y \in Particles : a \in mothers[y] /\ (y = p \/ y \in AncestorsOf[p])
           /\ \A C : mothers[p] \subseteq C /\ (\A a \in C \cap Particles : mothers[a] \subseteq C)
                     => AncestorsOf[p] \subseteq C
<1>. SUFFICES ASSUME NEW p \in Particles
              PROVE  /\ AncestorsOf[p] \subseteq Particles
                     /\ mothers[p] \subseteq AncestorsOf[p]
                     /\ \A a \in AncestorsOf[p] :
                          /\ a < p /\ mothers[a] \subseteq AncestorsOf[p]
                          /\ AncestorsOf[a] \subseteq AncestorsOf[p]
                          /\ \E y \in Particles : a \in mothers[y] /\ (y = p \/ y \in AncestorsOf[p])
                     /\ \A C : mothers[p] \subseteq C
                               /\ (\A a \in C \cap Particles : mothers[a] \subseteq C)
                               => AncestorsOf[p] \subseteq C
  OBVIOUS
<1>1. \A q \in Particles : AncestorsOf[q] = Reached(mothers[q], mothers)
  BY DEF AncestorsOf
<1>2. mothers \in [Particles -> SUBSET Particles] /\ \A q \in Particles : mothers[q] \in SUBSET Particles
  BY MothersFirst
<1>3. \A q \in Particles :
        /\ AncestorsOf[q] \subseteq Particles
        /\ mothers[q] \subseteq AncestorsOf[q]
        /\ \A a \in AncestorsOf[q] : mothers[a] \subseteq AncestorsOf[q]
        /\ \A C : mothers[q] \subseteq C /\ (\A a \in C \cap Particles : mothers[a] \subseteq C)
                  => AncestorsOf[q] \subseteq C
        /\ \A x \in AncestorsOf[q] : x \in mothers[q] \/ \E y \in AncestorsOf[q] : x \in mothers[y]
  BY <1>1, <1>2, ReachedParticles
<1>4. AncestorsOf[p] \subseteq {a \in Particles : a < p}
  <2>1. \A a \in Particles : a < p => mothers[a] \subseteq {b \in Particles : b < p}
    <3>. SUFFICES ASSUME NEW a \in Particles, a < p, NEW m \in mothers[a] PROVE m \in Particles /\ m < p
      OBVIOUS
    <3>1. m \in Particles /\ m < a
      BY MothersFirst
    <3>. QED BY <3>1 DEF Particles
  <2>2. mothers[p] \subseteq {a \in Particles : a < p}
    BY MothersFirst
  <2>. DEFINE C == {a \in Particles : a < p}
  <2>3. mothers[p] \subseteq C /\ \A a \in C \cap Particles : mothers[a] \subseteq C
    BY <2>1, <2>2
  <2>. HIDE DEF C
  <2>4. AncestorsOf[p] \subseteq C
    BY <2>3, <1>3
  <2>. QED BY <2>4 DEF C
<1>5. \A a \in AncestorsOf[p] : AncestorsOf[a] \subseteq AncestorsOf[p]
  BY <1>3
<1>6. \A a \in AncestorsOf[p] : \E y \in Particles : a \in mothers[y] /\ (y = p \/ y \in AncestorsOf[p])
  BY <1>3
<1>. QED BY <1>3, <1>4, <1>5, <1>6

\* The way up from a particle through those that are passed over.
Up == [m \in Particles |-> IF m \in K THEN {} ELSE mothers[m]]

\* The linked particles from which something leaving a vertex descends; the vertex
\* is the set V of the particles that end there.
Nearest(V) == Reached(V, Up) \cap K

\* c and the particles passed over above it.
Above(c) == {c} \cup (Reached(mothers[c], Up) \ K)

\* What is reached on the way up is the least such set.
LEMMA UpIs ==
  ASSUME Event, NEW V \in SUBSET Particles
  PROVE  /\ V \subseteq Reached(V, Up)
         /\ Reached(V, Up) \subseteq Particles
         /\ \A p \in Reached(V, Up) : p \notin K => mothers[p] \subseteq Reached(V, Up)
         /\ \A C : V \subseteq C /\ (\A p \in C \cap Particles : p \notin K => mothers[p] \subseteq C)
                   => Reached(V, Up) \subseteq C
         /\ \A x \in Reached(V, Up) :
              x \in V \/ \E y \in Reached(V, Up) : y \notin K /\ x \in mothers[y]
<1>1. Up \in [Particles -> SUBSET Particles]
      /\ \A p \in Particles : Up[p] = IF p \in K THEN {} ELSE mothers[p]
  BY MothersFirst DEF Up
<1>. QED BY <1>1, ReachedParticles

\* The properties speak of the nearest linked particles.
LEMMA LinkableIs ==
  ASSUME Event
  PROVE  /\ \A p \in Particles : LinkableMothers(p) = Nearest(mothers[p])
         /\ \A p \in Particles : Linkable(p) = Nearest({p})
         /\ \A p \in K : Nearest({p}) = {p}
         /\ \A p \in Particles : p \notin K => Nearest({p}) = Nearest(mothers[p])
<1>1. \A p \in Particles : LinkableMothers(p) = Nearest(mothers[p])
  BY DEF LinkableMothers, Nearest, Up, K
<1>2. K \subseteq Particles
  BY DEF K, Event
<1>3. \A p \in K : Nearest({p}) = {p}
  <2>. SUFFICES ASSUME NEW p \in K PROVE Nearest({p}) = {p}
    OBVIOUS
  <2>1. {p} \in SUBSET Particles
    BY <1>2
  <2>2. {p} \subseteq Reached({p}, Up) /\ Reached({p}, Up) \subseteq {p}
    BY <2>1, UpIs
  <2>. QED BY <2>2 DEF Nearest
<1>4. ASSUME NEW p \in Particles, p \notin K PROVE Nearest({p}) = Nearest(mothers[p])
  <2>1. {p} \in SUBSET Particles /\ mothers[p] \in SUBSET Particles
    BY MothersFirst
  <2>. DEFINE A == Reached({p}, Up)
              B == Reached(mothers[p], Up)
  <2>2. /\ p \in A /\ mothers[p] \subseteq A
        /\ \A q \in A : q \notin K => mothers[q] \subseteq A
        /\ \A C : p \in C /\ (\A q \in C \cap Particles : q \notin K => mothers[q] \subseteq C)
                  => A \subseteq C
    BY <2>1, <1>4, UpIs
  <2>3. /\ mothers[p] \subseteq B
        /\ \A q \in B : q \notin K => mothers[q] \subseteq B
        /\ \A C : mothers[p] \subseteq C /\ (\A q \in C \cap Particles : q \notin K => mothers[q] \subseteq C)
                  => B \subseteq C
    BY <2>1, UpIs
  <2>. HIDE DEF A, B
  <2>4. B \subseteq A
    BY <2>2, <2>3
  <2>5. A \subseteq B \cup {p}
    BY <2>2, <2>3
  <2>6. A \cap K = B \cap K
    BY <2>4, <2>5, <1>4
  <2>. QED BY <2>6 DEF Nearest, A, B
<1>5. ASSUME NEW p \in Particles PROVE Linkable(p) = Nearest({p})
  <2>1. CASE p \in K
    BY <2>1, <1>3 DEF Linkable, K
  <2>2. CASE p \notin K
    BY <2>2, <1>1, <1>4 DEF Linkable, K
  <2>. QED BY <2>1, <2>2
<1>. QED BY <1>1, <1>3, <1>4, <1>5

\* What a vertex is near to is what one of its particles is near to.
LEMMA NearestUnion ==
  ASSUME Event, NEW V \in SUBSET Particles
  PROVE  Nearest(V) = UNION {Nearest({m}) : m \in V}
<1>. DEFINE A == Reached(V, Up)
            B(m) == Reached({m}, Up)
<1>1. /\ V \subseteq A
      /\ \A q \in A : q \notin K => mothers[q] \subseteq A
      /\ \A C : V \subseteq C /\ (\A q \in C \cap Particles : q \notin K => mothers[q] \subseteq C)
                => A \subseteq C
  BY UpIs
<1>2. ASSUME NEW m \in V
      PROVE  /\ m \in B(m)
             /\ \A q \in B(m) : q \notin K => mothers[q] \subseteq B(m)
             /\ \A C : m \in C /\ (\A q \in C \cap Particles : q \notin K => mothers[q] \subseteq C)
                       => B(m) \subseteq C
  <2>1. {m} \in SUBSET Particles
    OBVIOUS
  <2>. QED BY <2>1, UpIs
<1>. HIDE DEF A, B
<1>3. \A m \in V : B(m) \subseteq A
  BY <1>1, <1>2
<1>. DEFINE U == UNION {B(m) : m \in V}
<1>4. V \subseteq U /\ \A q \in U : q \notin K => mothers[q] \subseteq U
  BY <1>2
<1>5. A \subseteq U
  <2>. HIDE DEF U
  <2>. QED BY <1>1, <1>4
<1>6. Nearest(V) = A \cap K /\ \A m \in V : Nearest({m}) = B(m) \cap K
  BY DEF Nearest, A, B
<1>. HIDE DEF U
<1>7. \A x : x \in A <=> \E m \in V : x \in B(m)
  BY <1>3, <1>5 DEF U
<1>8. \A x : x \in Nearest(V) <=> \E m \in V : x \in Nearest({m})
  BY <1>6, <1>7
<1>. QED BY <1>8

\* From a linked particle above c the way down begins with a particle above c.
LEMMA WayDown ==
  ASSUME Event, NEW c \in Particles, NEW x \in Reached(mothers[c], Up)
  PROVE  \E y \in Above(c) : y \in Particles /\ x \in mothers[y]
<1>1. mothers[c] \in SUBSET Particles
  BY MothersFirst
<1>2. Reached(mothers[c], Up) \subseteq Particles
      /\ (x \in mothers[c] \/ \E y \in Reached(mothers[c], Up) : y \notin K /\ x \in mothers[y])
  BY <1>1, UpIs
<1>. QED BY <1>2 DEF Above

\* What is above c is c or one of its ancestors.
LEMMA AboveIsAncestor ==
  ASSUME Event, NEW c \in Particles
  PROVE  /\ Reached(mothers[c], Up) \subseteq AncestorsOf[c]
         /\ \A y \in Above(c) : y = c \/ y \in AncestorsOf[c]
<1>1. mothers[c] \in SUBSET Particles
  BY MothersFirst
<1>2. mothers[c] \subseteq AncestorsOf[c]
      /\ \A a \in AncestorsOf[c] : mothers[a] \subseteq AncestorsOf[c]
  BY AncestorsAre
<1>3. Reached(mothers[c], Up) \subseteq AncestorsOf[c]
  BY <1>1, <1>2, UpIs
<1>. QED BY <1>3 DEF Above

\* A daughter lies on the way from each particle down to what descends from it.
LEMMA Between ==
  ASSUME Event, NEW m \in Particles, NEW y \in AncestorsOf[m]
  PROVE  /\ y \in Particles
         /\ \E z \in Daughters(y) : z = m \/ z \in AncestorsOf[m]
  BY AncestorsAre DEF Daughters

\* Every particle that is kept is a root or descends from one.
LEMMA RootAbove ==
  ASSUME Event, NEW p \in kept
  PROVE  \E r \in Roots : r = p \/ r \in AncestorsOf[p]
<1>1. kept \subseteq Particles /\ Particles \subseteq Nat
  BY ParticlesFinite DEF Event
<1>. DEFINE T == {a \in kept : a = p \/ a \in AncestorsOf[p]}
<1>2. T \in SUBSET Nat /\ T # {}
  BY <1>1
<1>. HIDE DEF T
<1>3. PICK r \in T : \A a \in T : r <= a
  BY <1>2, LeastMember
<1>4. r \in kept /\ (r = p \/ r \in AncestorsOf[p]) /\ r \in Particles
  BY <1>3, <1>1 DEF T
<1>5. ASSUME NEW a \in AncestorsOf[r], a \in kept PROVE FALSE
  <2>1. a \in AncestorsOf[p] /\ a < r /\ a \in Nat /\ r \in Nat
    BY <1>4, <1>5, <1>1, AncestorsAre
  <2>2. a \in T
    BY <2>1, <1>5 DEF T
  <2>. QED BY <2>1, <2>2, <1>3
<1>. QED BY <1>4, <1>5 DEF Roots

\* The roots are linked, and only kept particles are.
LEMMA RootsLinked ==
  ASSUME Event
  PROVE  Roots \subseteq K /\ K \subseteq kept /\ kept \subseteq Particles /\ K \subseteq Particles
         /\ K \subseteq LPs
<1>1. kept \subseteq Particles
  BY DEF Event
<1>2. ASSUME NEW r \in Roots, r \in OscillatedVersions PROVE FALSE
  <2>1. PICK p \in oscillates : r = HasOscillated(p) /\ p \in Particles
    BY <1>2, OscillatedFrom
  <2>2. mothers[r] = {p} /\ p \in kept /\ r \in Particles
    BY <2>1, OscillatedIs DEF K
  <2>3. p \in AncestorsOf[r]
    BY <2>2, AncestorsAre
  <2>. QED BY <2>2, <2>3 DEF Roots
<1>. QED BY <1>1, <1>2, ParticlesFinite DEF Roots, K

\* When no lines of descent are mixed, a line through a particle that is passed
\* over leads to the same linked particles as the others.
LEMMA UnmixedNearest ==
  ASSUME Event, Unmixed, NEW s \in Particles, s \notin kept, NEW d \in Daughters(s),
         Nearest({s}) # {}
  PROVE  Nearest(mothers[d]) = Nearest({s})
<1>1. d \in Particles /\ s \in mothers[d] /\ mothers[d] \in SUBSET Particles
  BY MothersFirst DEF Daughters
<1>2. \A m \in mothers[d] : Nearest({m}) = Nearest({s})
  <2>. SUFFICES ASSUME NEW m \in mothers[d] PROVE Nearest({m}) = Nearest({s})
    OBVIOUS
  <2>1. Linkable(s) \in {Linkable(m), {}}
    BY <1>1 DEF Unmixed
  <2>2. Linkable(s) = Nearest({s}) /\ Linkable(m) = Nearest({m})
    BY <1>1, LinkableIs
  <2>. QED BY <2>1, <2>2
<1>3. Nearest(mothers[d]) = UNION {Nearest({m}) : m \in mothers[d]}
  BY <1>1, NearestUnion
<1>. QED BY <1>1, <1>2, <1>3

-----------------------------------------------------------------------------
(* The operators that change the graph. *)

\* The type of graph.
GraphType ==
  [lps : SUBSET LPs, prod : [LPs -> LPs \cup {None}], ends : [LPs -> SUBSET LPs],
   incoming : [LPs -> SUBSET LPs], outgoing : [LPs -> SUBSET LPs],
   hepmcVtx : [LPs -> SUBSET Particles], primaries : SUBSET Particles,
   truth : SUBSET LPs, mother : [LPs -> Particles \cup {None}],
   failed : BOOLEAN, stale : BOOLEAN]

\* The vertices of p that stand for the production vertex of c.
Found(g, c, p) == {w \in g.ends[p] : g.hepmcVtx[w] = mothers[c]}

\* AddParent has chosen the vertex v ...
Chosen(g, c, p, v) ==
  \/ /\ v \in Found(g, c, p) /\ g.prod[c] \in {None, v}
     /\ \A w \in Found(g, c, p) : v <= w
  \/ Found(g, c, p) = {} /\ g.prod[c] # None /\ v = g.prod[c]
  \/ Found(g, c, p) = {} /\ g.prod[c] = None /\ v = c

\* ... or refuses, because the child has another one ...
Refused(g, c, p) ==
  \E v \in Found(g, c, p) : g.prod[c] \notin {None, v} /\ \A w \in Found(g, c, p) : v <= w

\* ... or links c to p there.
JoinedAt(g, h, c, p, v) ==
  /\ h.prod = [g.prod EXCEPT ![c] = v]
  /\ h.ends = [g.ends EXCEPT ![p] = @ \cup {v}]
  /\ h.incoming = [g.incoming EXCEPT ![v] = @ \cup {p}]
  /\ h.outgoing = [g.outgoing EXCEPT ![v] = @ \cup {c}]
  /\ h.lps = g.lps /\ h.primaries = g.primaries /\ h.truth = g.truth
  /\ h.mother = g.mother /\ h.failed = g.failed /\ h.stale = g.stale

Joined(g, h, c, p, v) ==
  /\ JoinedAt(g, h, c, p, v)
  /\ h.hepmcVtx = IF Found(g, c, p) = {} /\ g.prod[c] = None
                  THEN [g.hepmcVtx EXCEPT ![c] = EndVertex(p)] ELSE g.hepmcVtx

\* Joining a vertex keeps the types.
LEMMA JoinVertexEffect ==
  ASSUME NEW g \in GraphType, NEW c \in LPs, NEW p \in LPs, NEW v \in LPs
  PROVE  /\ JoinVertex(g, c, p, v) \in GraphType
         /\ JoinedAt(g, JoinVertex(g, c, p, v), c, p, v)
         /\ JoinVertex(g, c, p, v).hepmcVtx = g.hepmcVtx
<1>. DEFINE g1 == [g EXCEPT !.prod[c] = v]
            g2 == [g1 EXCEPT !.ends[p] = @ \cup {v}]
            g3 == [g2 EXCEPT !.incoming[v] = @ \cup {p}]
            g4 == [g3 EXCEPT !.outgoing[v] = @ \cup {c}]
<1>1. JoinVertex(g, c, p, v) = g4
  BY DEF JoinVertex
<1>2. g1 \in GraphType /\ g1.prod = [g.prod EXCEPT ![c] = v]
      /\ g1.ends = g.ends /\ g1.incoming = g.incoming /\ g1.outgoing = g.outgoing
      /\ g1.lps = g.lps /\ g1.primaries = g.primaries /\ g1.truth = g.truth
      /\ g1.mother = g.mother /\ g1.failed = g.failed /\ g1.stale = g.stale
      /\ g1.hepmcVtx = g.hepmcVtx
  BY DEF GraphType
<1>. HIDE DEF g1
<1>3. g2 \in GraphType /\ g2.ends = [g1.ends EXCEPT ![p] = @ \cup {v}]
      /\ g2.prod = g1.prod /\ g2.incoming = g1.incoming /\ g2.outgoing = g1.outgoing
      /\ g2.lps = g1.lps /\ g2.primaries = g1.primaries /\ g2.truth = g1.truth
      /\ g2.mother = g1.mother /\ g2.failed = g1.failed /\ g2.stale = g1.stale
      /\ g2.hepmcVtx = g1.hepmcVtx
  <2>1. /\ g2.ends = [g1.ends EXCEPT ![p] = @ \cup {v}]
        /\ g2.prod = g1.prod /\ g2.incoming = g1.incoming /\ g2.outgoing = g1.outgoing
        /\ g2.lps = g1.lps /\ g2.primaries = g1.primaries /\ g2.truth = g1.truth
        /\ g2.mother = g1.mother /\ g2.failed = g1.failed /\ g2.stale = g1.stale
        /\ g2.hepmcVtx = g1.hepmcVtx
    BY <1>2 DEF GraphType
  <2>2. [g1.ends EXCEPT ![p] = @ \cup {v}] \in [LPs -> SUBSET LPs]
    BY <1>2 DEF GraphType
  <2>3. g2 \in GraphType
    BY <1>2, <2>2 DEF GraphType
  <2>. QED BY <2>1, <2>3
<1>. HIDE DEF g2
<1>4. g3 \in GraphType /\ g3.incoming = [g2.incoming EXCEPT ![v] = @ \cup {p}]
      /\ g3.prod = g2.prod /\ g3.ends = g2.ends /\ g3.outgoing = g2.outgoing
      /\ g3.lps = g2.lps /\ g3.primaries = g2.primaries /\ g3.truth = g2.truth
      /\ g3.mother = g2.mother /\ g3.failed = g2.failed /\ g3.stale = g2.stale
      /\ g3.hepmcVtx = g2.hepmcVtx
  <2>1. [g2.incoming EXCEPT ![v] = @ \cup {p}] \in [LPs -> SUBSET LPs]
    BY <1>3 DEF GraphType
  <2>2. g3 = [g2 EXCEPT !.incoming = [g2.incoming EXCEPT ![v] = @ \cup {p}]]
    OBVIOUS
  <2>. HIDE DEF g3
  <2>. QED BY <2>1, <2>2, <1>3 DEF GraphType
<1>. HIDE DEF g3
<1>5. g4 \in GraphType /\ g4.outgoing = [g3.outgoing EXCEPT ![v] = @ \cup {c}]
      /\ g4.prod = g3.prod /\ g4.ends = g3.ends /\ g4.incoming = g3.incoming
      /\ g4.lps = g3.lps /\ g4.primaries = g3.primaries /\ g4.truth = g3.truth
      /\ g4.mother = g3.mother /\ g4.failed = g3.failed /\ g4.stale = g3.stale
      /\ g4.hepmcVtx = g3.hepmcVtx
  <2>1. [g3.outgoing EXCEPT ![v] = @ \cup {c}] \in [LPs -> SUBSET LPs]
    BY <1>4 DEF GraphType
  <2>2. g4 = [g3 EXCEPT !.outgoing = [g3.outgoing EXCEPT ![v] = @ \cup {c}]]
    OBVIOUS
  <2>. HIDE DEF g4
  <2>. QED BY <2>1, <2>2, <1>4 DEF GraphType
<1>. HIDE DEF g4
<1>6. JoinedAt(g, g4, c, p, v) /\ g4.hepmcVtx = g.hepmcVtx
  BY <1>2, <1>3, <1>4, <1>5 DEF JoinedAt
<1>. QED BY <1>1, <1>5, <1>6

\* A vertex of HepMC is a set of particles.
LEMMA EndVertexType ==
  ASSUME Event, NEW p \in Particles
  PROVE  EndVertex(p) \in SUBSET Particles
<1>1. CASE Daughters(p) = {}
  BY <1>1 DEF EndVertex, NoVertex
<1>2. CASE Daughters(p) # {}
  <2>1. PICK d \in Daughters(p) : TRUE
    BY <1>2
  <2>. QED BY <2>1, EndVertexIs, MothersFirst
<1>. QED BY <1>1, <1>2

\* AddParent refuses the link or joins the vertex it has chosen.
LEMMA AddParentEffect ==
  ASSUME Event, NEW g \in GraphType, NEW c \in Particles, NEW p \in Particles
  PROVE  LET h == AddParent(g, c, p)
         IN  /\ h \in GraphType
             /\ \/ Refused(g, c, p) /\ h = [g EXCEPT !.failed = TRUE]
                \/ \E v \in LPs : Chosen(g, c, p, v) /\ Joined(g, h, c, p, v)
<1>. DEFINE found == {w \in g.ends[p] : g.hepmcVtx[w] = mothers[c]}
            v == IF found # {} THEN CHOOSE w \in found : \A x \in found : w <= x
                 ELSE IF g.prod[c] # None THEN g.prod[c] ELSE c
            new == found = {} /\ g.prod[c] = None
            g1 == IF new THEN [g EXCEPT !.hepmcVtx[c] = EndVertex(p)] ELSE g
            h == AddParent(g, c, p)
<1>1. h = IF g.prod[c] \notin {None, v} THEN [g EXCEPT !.failed = TRUE]
          ELSE JoinVertex(g1, c, p, v)
  BY DEF AddParent
<1>2. c \in LPs /\ p \in LPs /\ found \in SUBSET LPs /\ LPs \subseteq Nat
      /\ g.prod[c] \in LPs \cup {None} /\ found = Found(g, c, p)
  BY ParticlesFinite DEF GraphType, Found
<1>3. found # {} => v \in found /\ \A w \in found : v <= w
  <2>. SUFFICES ASSUME found # {} PROVE v \in found /\ \A w \in found : v <= w
    OBVIOUS
  <2>1. v = CHOOSE w \in found : \A x \in found : w <= x
    OBVIOUS
  <2>. HIDE DEF found, v
  <2>2. \E x \in found : \A y \in found : x <= y
    BY <1>2, LeastMember
  <2>. QED BY <2>1, <2>2
<1>4. v \in LPs /\ (found = {} /\ g.prod[c] # None => v = g.prod[c])
      /\ (found = {} /\ g.prod[c] = None => v = c)
  <2>. HIDE DEF found
  <2>. QED BY <1>2, <1>3
<1>5. g1 \in GraphType
      /\ g1.prod = g.prod /\ g1.ends = g.ends /\ g1.incoming = g.incoming
      /\ g1.outgoing = g.outgoing /\ g1.lps = g.lps /\ g1.primaries = g.primaries
      /\ g1.truth = g.truth /\ g1.mother = g.mother /\ g1.failed = g.failed
      /\ g1.stale = g.stale
      /\ g1.hepmcVtx = IF new THEN [g.hepmcVtx EXCEPT ![c] = EndVertex(p)] ELSE g.hepmcVtx
  <2>1. EndVertex(p) \in SUBSET Particles
    BY EndVertexType
  <2>. HIDE DEF new
  <2>. QED BY <2>1, <1>2 DEF GraphType
<1>6. [g EXCEPT !.failed = TRUE] \in GraphType
  BY DEF GraphType
<1>. HIDE DEF g1, v, found
<1>7. ASSUME g.prod[c] \in {None, v}
      PROVE  h \in GraphType /\ Chosen(g, c, p, v) /\ Joined(g, h, c, p, v)
  <2>1. h = JoinVertex(g1, c, p, v)
    BY <1>1, <1>7
  <2>2. Chosen(g, c, p, v)
    BY <1>2, <1>3, <1>4, <1>7 DEF Chosen
  <2>. HIDE DEF h, new
  <2>4. h \in GraphType /\ JoinedAt(g1, h, c, p, v) /\ h.hepmcVtx = g1.hepmcVtx
    BY <1>2, <1>4, <1>5, <2>1, JoinVertexEffect
  <2>3. Joined(g, h, c, p, v) /\ h \in GraphType
    BY <2>4, <1>2, <1>5 DEF Joined, JoinedAt, new
  <2>. QED BY <2>2, <2>3
<1>8. ASSUME g.prod[c] \notin {None, v}
      PROVE  Refused(g, c, p) /\ h = [g EXCEPT !.failed = TRUE] /\ h \in GraphType
  <2>1. h = [g EXCEPT !.failed = TRUE]
    BY <1>1, <1>8
  <2>2. found # {}
    BY <1>2, <1>4, <1>8
  <2>. HIDE DEF h
  <2>. QED BY <2>1, <2>2, <1>2, <1>3, <1>6, <1>8 DEF Refused
<1>9. CASE g.prod[c] \in {None, v}
  BY <1>4, <1>7, <1>9
<1>10. CASE g.prod[c] \notin {None, v}
  BY <1>8, <1>10
<1>. QED BY <1>9, <1>10

\* The second call finds the vertex of the first.
LEMMA AddLinkEffect ==
  ASSUME Event, NEW g \in GraphType, NEW c \in Particles, NEW p \in Particles
  PROVE  LET h == AddLink(g, c, p)
         IN  /\ h \in GraphType
             /\ \/ Refused(g, c, p) /\ h.failed
                \/ \E v \in LPs : Chosen(g, c, p, v) /\ Joined(g, h, c, p, v)
<1>. DEFINE h1 == AddParent(g, c, p)
            h == AddParent(h1, c, p)
<1>1. h1 \in GraphType /\ h \in GraphType /\ AddLink(g, c, p) = h
  BY AddParentEffect DEF AddLink
<1>2. c \in LPs /\ p \in LPs /\ None \notin LPs /\ LPs \subseteq Nat
  BY ParticlesFinite
<1>3. CASE Refused(g, c, p) /\ h1 = [g EXCEPT !.failed = TRUE]
  <2>1. h1.failed
    BY <1>3 DEF GraphType
  <2>2. \/ h = [h1 EXCEPT !.failed = TRUE]
        \/ \E w \in LPs : Chosen(h1, c, p, w) /\ Joined(h1, h, c, p, w)
    BY <1>1, AddParentEffect
  <2>3. h.failed
    BY <2>1, <2>2, <1>1 DEF GraphType, Joined, JoinedAt
  <2>. QED BY <2>3, <1>1, <1>3
<1>4. CASE \E v \in LPs : Chosen(g, c, p, v) /\ Joined(g, h1, c, p, v)
  <2>1. PICK v \in LPs : Chosen(g, c, p, v) /\ Joined(g, h1, c, p, v)
    BY <1>4
  <2>2. CASE Refused(h1, c, p)
    <3>1. h1.prod[c] = v /\ \A w \in LPs : w \in h1.ends[p] <=> w \in g.ends[p] \/ w = v
      BY <2>1, <1>2 DEF Joined, JoinedAt, GraphType
    <3>2. PICK u \in Found(h1, c, p) : v # u /\ \A w \in Found(h1, c, p) : u <= w
      BY <2>2, <3>1 DEF Refused
    <3>3. h1.ends[p] \subseteq LPs /\ g.ends[p] \subseteq LPs /\ v \in LPs
      BY <1>1, <1>2 DEF GraphType
    <3>4. u \in LPs /\ u \in g.ends[p] /\ h1.hepmcVtx[u] = mothers[c]
      BY <3>1, <3>2, <3>3 DEF Found
    <3>5. CASE v \in Found(g, c, p)
      <4>1. h1.hepmcVtx = g.hepmcVtx
        BY <2>1, <3>5 DEF Joined
      <4>2. u \in Found(g, c, p) /\ v \in Found(h1, c, p)
        BY <4>1, <3>1, <3>3, <3>4, <3>5 DEF Found
      <4>3. v <= u
        BY <4>2, <2>1 DEF Chosen
      <4>. QED BY <4>2, <4>3, <3>2, <3>4, <1>2
    <3>6. CASE Found(g, c, p) = {} /\ g.prod[c] # None
      <4>1. h1.hepmcVtx = g.hepmcVtx
        BY <2>1, <3>6 DEF Joined
      <4>. QED BY <4>1, <3>4, <3>6 DEF Found
    <3>7. CASE Found(g, c, p) = {} /\ g.prod[c] = None /\ v = c
      <4>1. h1.hepmcVtx = [g.hepmcVtx EXCEPT ![c] = EndVertex(p)]
        BY <2>1, <3>7 DEF Joined
      <4>2. h1.hepmcVtx[u] = g.hepmcVtx[u]
        BY <4>1, <3>2, <3>4, <3>7, <1>2 DEF GraphType
      <4>. QED BY <4>2, <3>4, <3>7 DEF Found
    <3>. QED BY <3>5, <3>6, <3>7, <2>1 DEF Chosen
  <2>3. CASE \E w \in LPs : Chosen(h1, c, p, w) /\ Joined(h1, h, c, p, w)
    <3>1. PICK w \in LPs : Chosen(h1, c, p, w) /\ Joined(h1, h, c, p, w)
      BY <2>3
    <3>2. h1.prod[c] = v /\ v \in h1.ends[p]
      BY <2>1, <1>2 DEF Joined, JoinedAt, GraphType
    <3>3. w = v
      BY <3>1, <3>2, <1>2 DEF Chosen
    <3>4. h1.prod = [h1.prod EXCEPT ![c] = v]
          /\ h1.ends = [h1.ends EXCEPT ![p] = @ \cup {v}]
          /\ h1.incoming = [h1.incoming EXCEPT ![v] = @ \cup {p}]
          /\ h1.outgoing = [h1.outgoing EXCEPT ![v] = @ \cup {c}]
      <4>1. p \in h1.incoming[v] /\ c \in h1.outgoing[v]
        BY <2>1, <1>2 DEF Joined, JoinedAt, GraphType
      <4>2. h1.ends[p] \cup {v} = h1.ends[p] /\ h1.incoming[v] \cup {p} = h1.incoming[v]
            /\ h1.outgoing[v] \cup {c} = h1.outgoing[v]
        BY <4>1, <3>2
      <4>. QED BY <4>2, <3>2, <1>1, <1>2 DEF GraphType
    <3>5. Joined(g, h, c, p, v)
      BY <2>1, <3>1, <3>2, <3>3, <3>4, <1>2 DEF Joined, JoinedAt
    <3>. QED BY <3>5, <2>1, <1>1
  <2>. QED BY <2>2, <2>3, <1>1, AddParentEffect
<1>. QED BY <1>1, <1>3, <1>4, AddParentEffect

\* A particle that is deleted leaves its vertices.
LEMMA DeleteEffect ==
  ASSUME NEW g \in GraphType, NEW p
  PROVE  LET h == Delete(g, p)
         IN  /\ h \in GraphType
             /\ h.lps = g.lps \ {p}
             /\ h.outgoing = [v \in LPs |-> g.outgoing[v] \ {p}]
             /\ h.incoming = [v \in LPs |-> g.incoming[v] \ {p}]
             /\ h.prod = g.prod /\ h.ends = g.ends /\ h.hepmcVtx = g.hepmcVtx
             /\ h.primaries = g.primaries /\ h.truth = g.truth
             /\ h.mother = g.mother /\ h.failed = g.failed /\ h.stale = g.stale
  BY DEF Delete, GraphType

-----------------------------------------------------------------------------
(* The loops of the recursion under way. *)

\* A member of loops.
Frame == [left : SUBSET LPs, parent : LPs \cup {None}]

\* Some loop has still to call for y, with the parent q.
InFrame(l, y, q) == \E i \in 1..Len(l) : l[i].parent = q /\ y \in l[i].left

\* The innermost loop has called for x; the call enters a loop over S.
Less(l, x) == [l EXCEPT ![1].left = @ \ {x}]
Push(l, x, S, q) == Enter(S, q) \o Less(l, x)

\* The next particle of a loop is one that is left.
LEMMA LeastIs ==
  ASSUME NEW S \in SUBSET LPs, S # {}
  PROVE  Least(S) \in S /\ \A y \in S : Least(S) <= y
<1>1. S \in SUBSET Nat
  BY ParticlesFinite
<1>2. \E x \in S : \A y \in S : x <= y
  BY <1>1, LeastMember
<1>. QED BY <1>2 DEF Least

\* A loop that goes on has one particle less.
LEMMA LessFrame ==
  ASSUME NEW f \in Frame, NEW x
  PROVE  LET h == [f EXCEPT !.left = @ \ {x}]
         IN  h \in Frame /\ h.left = f.left \ {x} /\ h.parent = f.parent
  BY DEF Frame

\* Only the innermost loop goes on.
LEMMA LessLoops ==
  ASSUME NEW l \in Seq(Frame), l # <<>>, NEW x
  PROVE  /\ Less(l, x) \in Seq(Frame) /\ Len(Less(l, x)) = Len(l)
         /\ 1 \in 1..Len(l)
         /\ Less(l, x)[1].left = l[1].left \ {x} /\ Less(l, x)[1].parent = l[1].parent
         /\ \A i \in 2..Len(l) : Less(l, x)[i] = l[i]
<1>1. Len(l) \in Nat /\ l \in [1..Len(l) -> Frame] /\ 1 \in 1..Len(l)
  OBVIOUS
<1>2. l[1] \in Frame
  BY <1>1
<1>. DEFINE f == [l[1] EXCEPT !.left = @ \ {x}]
<1>3. f \in Frame /\ f.left = l[1].left \ {x} /\ f.parent = l[1].parent
  BY <1>2, LessFrame
<1>4. Less(l, x) = [l EXCEPT ![1] = f]
  BY DEF Less
<1>. HIDE DEF f
<1>5. Less(l, x) \in [1..Len(l) -> Frame]
  BY <1>1, <1>3, <1>4
<1>6. Less(l, x) \in Seq(Frame) /\ Len(Less(l, x)) = Len(l)
  BY <1>5, <1>1
<1>. QED BY <1>1, <1>3, <1>4, <1>6

Pushed(l, m, x, S, q) ==
  /\ m \in Seq(Frame) /\ Len(m) = Len(l) + 1
  /\ m[1].left = S /\ m[1].parent = q
  /\ m[2].left = l[1].left \ {x} /\ m[2].parent = l[1].parent
  /\ \A i \in 2..Len(l) : m[i + 1] = l[i]

\* A call puts a loop before the others.
LEMMA PushLoops ==
  ASSUME NEW l \in Seq(Frame), l # <<>>, NEW x, NEW S \in SUBSET LPs, NEW q \in LPs \cup {None}
  PROVE  Pushed(l, Push(l, x, S, q), x, S, q)
<1>1. /\ Less(l, x) \in Seq(Frame) /\ Len(Less(l, x)) = Len(l) /\ 1 \in 1..Len(l)
      /\ Less(l, x)[1].left = l[1].left \ {x} /\ Less(l, x)[1].parent = l[1].parent
      /\ \A i \in 2..Len(l) : Less(l, x)[i] = l[i]
  BY LessLoops
<1>2. [left |-> S, parent |-> q] \in Frame
  BY DEF Frame
<1>. DEFINE e == [left |-> S, parent |-> q]
            m == Less(l, x)
<1>8. e.left = S /\ e.parent = q
  OBVIOUS
<1>. HIDE DEF e, m
<1>3. <<e>> \in Seq(Frame) /\ m \in Seq(Frame) /\ Len(m) = Len(l)
  BY <1>1, <1>2 DEF e, m
<1>4. /\ <<e>> \o m \in Seq(Frame) /\ Len(<<e>> \o m) = Len(m) + 1
      /\ (<<e>> \o m)[1] = e /\ \A i \in 1..Len(m) : (<<e>> \o m)[i + 1] = m[i]
  BY <1>3
<1>5. Push(l, x, S, q) = <<e>> \o m
  BY DEF Push, Enter, e, m
<1>6. (<<e>> \o m)[2] = m[1]
  BY <1>4, <1>1, <1>3
<1>7. \A i \in 2..Len(l) : (<<e>> \o m)[i + 1] = m[i]
  BY <1>4, <1>3
<1>. QED BY <1>1, <1>3, <1>4, <1>5, <1>6, <1>7, <1>8 DEF m, Pushed

\* A return removes the innermost loop.
LEMMA TailLoops ==
  ASSUME NEW l \in Seq(Frame), l # <<>>
  PROVE  /\ Tail(l) \in Seq(Frame) /\ Len(Tail(l)) = Len(l) - 1 /\ Len(l) \in Nat \ {0}
         /\ \A i \in 1..(Len(l) - 1) : Tail(l)[i] = l[i + 1]
  OBVIOUS

\* What is still called for when a loop goes on, ...
LEMMA InLess ==
  ASSUME NEW l \in Seq(Frame), l # <<>>, NEW x
  PROVE  /\ \A y, z : InFrame(Less(l, x), y, z) => InFrame(l, y, z)
         /\ \A y, z : InFrame(l, y, z) /\ ~(y = x /\ z = l[1].parent) => InFrame(Less(l, x), y, z)
<1>1. /\ Less(l, x) \in Seq(Frame) /\ Len(Less(l, x)) = Len(l) /\ Len(l) \in Nat
      /\ 1 \in 1..Len(l)
      /\ Less(l, x)[1].left = l[1].left \ {x} /\ Less(l, x)[1].parent = l[1].parent
      /\ \A i \in 2..Len(l) : Less(l, x)[i] = l[i]
  BY LessLoops
<1>2. \A i \in 1..Len(l) : i = 1 \/ i \in 2..Len(l)
  BY <1>1
<1>. DEFINE m == Less(l, x)
<1>. HIDE DEF m
<1>3. /\ Len(m) = Len(l) /\ 1 \in 1..Len(l)
      /\ m[1].left = l[1].left \ {x} /\ m[1].parent = l[1].parent
      /\ \A i \in 2..Len(l) : m[i] = l[i]
  BY <1>1 DEF m
<1>4. \A y, z : InFrame(m, y, z) => InFrame(l, y, z)
  BY <1>2, <1>3 DEF InFrame
<1>5. \A y, z : InFrame(l, y, z) /\ ~(y = x /\ z = l[1].parent) => InFrame(m, y, z)
  BY <1>2, <1>3 DEF InFrame
<1>. QED BY <1>4, <1>5 DEF m

\* ... when a call enters a loop, ...
LEMMA InPush ==
  ASSUME NEW l \in Seq(Frame), l # <<>>, NEW x, NEW S \in SUBSET LPs, NEW q \in LPs \cup {None}
  PROVE  /\ \A y, z : InFrame(Push(l, x, S, q), y, z) => (y \in S /\ z = q) \/ InFrame(l, y, z)
         /\ \A y \in S : InFrame(Push(l, x, S, q), y, q)
         /\ \A y, z : InFrame(l, y, z) /\ ~(y = x /\ z = l[1].parent)
                      => InFrame(Push(l, x, S, q), y, z)
<1>. DEFINE m == Push(l, x, S, q)
<1>0. Len(l) \in Nat \ {0}
  OBVIOUS
<1>8. Pushed(l, m, x, S, q)
  BY PushLoops
<1>. HIDE DEF m
<1>1. /\ Len(m) = Len(l) + 1 /\ Len(l) \in Nat \ {0}
      /\ m[1].left = S /\ m[1].parent = q
      /\ m[2].left = l[1].left \ {x} /\ m[2].parent = l[1].parent
      /\ \A i \in 2..Len(l) : m[i + 1] = l[i]
  BY <1>0, <1>8 DEF Pushed
<1>. HIDE DEF m
<1>2. \A i \in 1..Len(m) : i = 1 \/ i = 2 \/ (i - 1 \in 2..Len(l) /\ i - 1 \in 1..Len(l) /\ m[i] = l[i - 1])
  <2>. SUFFICES ASSUME NEW i \in 1..Len(m), i # 1, i # 2
                PROVE i - 1 \in 2..Len(l) /\ i - 1 \in 1..Len(l) /\ m[i] = l[i - 1]
    OBVIOUS
  <2>1. i - 1 \in 2..Len(l) /\ i - 1 \in 1..Len(l) /\ (i - 1) + 1 = i
    BY <1>1
  <2>2. m[(i - 1) + 1] = l[i - 1]
    BY <2>1, <1>1
  <2>. QED BY <2>1, <2>2
<1>3. \A i \in 1..Len(l) : i = 1 \/ (i + 1 \in 1..Len(m) /\ m[i + 1] = l[i])
  BY <1>1
<1>4. 1 \in 1..Len(m) /\ 2 \in 1..Len(m) /\ 1 \in 1..Len(l)
  BY <1>1
<1>5. \A y, z : InFrame(m, y, z) => (y \in S /\ z = q) \/ InFrame(l, y, z)
  BY <1>1, <1>2, <1>4 DEF InFrame
<1>6. \A y \in S : InFrame(m, y, q)
  BY <1>1, <1>4 DEF InFrame
<1>7. \A y, z : InFrame(l, y, z) /\ ~(y = x /\ z = l[1].parent) => InFrame(m, y, z)
  BY <1>1, <1>3, <1>4 DEF InFrame
<1>. QED BY <1>5, <1>6, <1>7 DEF m

\* ... when a loop has ended, ...
LEMMA InTail ==
  ASSUME NEW l \in Seq(Frame), l # <<>>, l[1].left = {}
  PROVE  \A y, z : InFrame(Tail(l), y, z) <=> InFrame(l, y, z)
<1>1. /\ Len(Tail(l)) = Len(l) - 1 /\ Len(l) \in Nat \ {0}
      /\ \A i \in 1..(Len(l) - 1) : Tail(l)[i] = l[i + 1]
  BY TailLoops
<1>. DEFINE m == Tail(l)
<1>. HIDE DEF m
<1>2. Len(m) = Len(l) - 1 /\ \A i \in 1..Len(m) : i + 1 \in 1..Len(l) /\ m[i] = l[i + 1]
  BY <1>1 DEF m
<1>3. \A i \in 1..Len(l) : i = 1 \/ (i - 1 \in 1..Len(m) /\ m[i - 1] = l[i])
  <2>. SUFFICES ASSUME NEW i \in 1..Len(l), i # 1
                PROVE i - 1 \in 1..Len(m) /\ m[i - 1] = l[i]
    OBVIOUS
  <2>1. i - 1 \in 1..Len(m) /\ (i - 1) + 1 = i
    BY <1>1, <1>2
  <2>2. m[i - 1] = l[(i - 1) + 1]
    BY <2>1, <1>2
  <2>. QED BY <2>1, <2>2
<1>4. \A y, z : InFrame(m, y, z) => InFrame(l, y, z)
  BY <1>2 DEF InFrame
<1>5. \A y, z : InFrame(l, y, z) => InFrame(m, y, z)
  BY <1>3 DEF InFrame
<1>. QED BY <1>4, <1>5 DEF m

\* ... and at the beginning.
LEMMA InEnter ==
  ASSUME NEW S, NEW q
  PROVE  /\ Enter(S, q) = <<[left |-> S, parent |-> q]>> /\ Len(Enter(S, q)) = 1
         /\ Enter(S, q)[1].left = S /\ Enter(S, q)[1].parent = q
         /\ \A y, z : InFrame(Enter(S, q), y, z) <=> y \in S /\ z = q
         /\ \A y, z : ~InFrame(<<>>, y, z)
<1>1. Enter(S, q) = <<[left |-> S, parent |-> q]>> /\ Len(Enter(S, q)) = 1
      /\ Enter(S, q)[1].left = S /\ Enter(S, q)[1].parent = q
  BY DEF Enter
<1>. DEFINE e == Enter(S, q)
<1>. HIDE DEF e
<1>2. \A i \in 1..1 : i = 1
  OBVIOUS
<1>3. 1 \in 1..1
  OBVIOUS
<1>4. Len(e) = 1 /\ e[1].left = S /\ e[1].parent = q
  BY <1>1 DEF e
<1>5. \A y, z : InFrame(e, y, z) <=> y \in S /\ z = q
  BY <1>2, <1>3, <1>4 DEF InFrame
<1>6. \A y, z : ~InFrame(<<>>, y, z)
  BY DEF InFrame
<1>. QED BY <1>1, <1>5, <1>6 DEF e

\* The next call of the innermost loop.
LEMMA NextCall ==
  ASSUME loops \in Seq(Frame), InLoop
  PROVE  /\ loops # <<>> /\ Head(loops) = loops[1] /\ 1 \in 1..Len(loops)
         /\ Part \in loops[1].left /\ \A y \in loops[1].left : Part <= y
         /\ Parent = loops[1].parent /\ InFrame(loops, Part, Parent)
         /\ Part \in LPs /\ Parent \in LPs \cup {None}
         /\ Rest = Less(loops, Part)
<1>1. loops # <<>> /\ Head(loops) = loops[1] /\ 1 \in 1..Len(loops) /\ loops[1] \in Frame
      /\ Head(loops).left # {}
  BY DEF InLoop
<1>2. loops[1].left \in SUBSET LPs /\ loops[1].parent \in LPs \cup {None}
  BY <1>1 DEF Frame
<1>3. Part \in loops[1].left /\ \A y \in loops[1].left : Part <= y
  BY <1>1, <1>2, LeastIs DEF Part
<1>. QED BY <1>1, <1>2, <1>3 DEF Parent, InFrame, Rest, Less

-----------------------------------------------------------------------------
(* Linking: which calls are to come. *)

\* x or an ancestor of x is still to be called for.
Pending(l, x) == \E y, q : InFrame(l, y, q) /\ (y = x \/ y \in AncestorsOf[x])

\* A set of particles whose lines of descent do not mix with others.
Separate(W) ==
  /\ \A c \in Particles : \A p \in Nearest(mothers[c]) : \A d \in Daughters(p) : c \in W <=> d \in W
  /\ \A d \in W : \A x \in mothers[d] :
       x \notin kept /\ Nearest({x}) # {} => x \in W /\ Nearest(mothers[d]) = Nearest({x})

\* y may become a child of q.
MayLink(y, q) ==
  /\ q \in K /\ y \in Particles /\ y \notin OscillatedVersions /\ q \in Nearest(mothers[y])
  /\ \A W \in SUBSET Particles :
       Separate(W) /\ y \in W => Nearest(mothers[y]) = Nearest(EndVertex(q))

\* What the loops call for.
LinkFrames(l) ==
  \A y, q : InFrame(l, y, q) => IF q = None THEN y \in Roots ELSE MayLink(y, q)

\* No root comes from an oscillation.
LEMMA RootsNotOscillated ==
  ASSUME Event, NEW r \in Roots
  PROVE  r \in K /\ r \in Particles /\ r \in LPs /\ r \notin OscillatedVersions
         /\ Nearest(mothers[r]) = {}
<1>1. r \in K /\ r \in Particles /\ r \in LPs /\ r \notin OscillatedVersions
  BY RootsLinked DEF K
<1>2. Reached(mothers[r], Up) \subseteq AncestorsOf[r]
  BY <1>1, AboveIsAncestor
<1>3. AncestorsOf[r] \cap kept = {} /\ K \subseteq kept
  BY RootsLinked DEF Roots
<1>. QED BY <1>1, <1>2, <1>3 DEF Nearest

\* The call for x enters a loop over particles that may become children of x, or
\* of its parent if x is passed over.
LEMMA CallFor ==
  ASSUME Event, NEW x, NEW q, IF q = None THEN x \in Roots ELSE MayLink(x, q)
  PROVE  /\ x \in Particles /\ x \notin OscillatedVersions
         /\ x \notin K => x \notin kept /\ x \notin oscillates /\ q # None
         /\ \A d \in Daughters(Last(x)) : MayLink(d, IF x \in K THEN x ELSE q)
<1>1. x \in Particles /\ x \notin OscillatedVersions /\ (x \notin K => q # None)
  BY RootsNotOscillated DEF MayLink
<1>2. x \notin K => x \notin kept /\ x \notin oscillates
  BY <1>1, KeptOrOscillated
<1>3. CASE x \in K /\ x \notin oscillates
  <2>. SUFFICES ASSUME NEW d \in Daughters(x) PROVE MayLink(d, x)
    BY <1>3, <1>1, OscillatedIs DEF Last
  <2>1. d \in Particles /\ x \in mothers[d] /\ EndVertex(x) = mothers[d] /\ mothers[d] \in SUBSET Particles
    BY <1>1, EndVertexIs, MothersFirst
  <2>2. x \in Nearest(mothers[d])
    BY <2>1, <1>3, UpIs DEF Nearest
  <2>3. d \notin OscillatedVersions
    <3>. SUFFICES ASSUME d \in OscillatedVersions PROVE FALSE
      OBVIOUS
    <3>1. PICK p \in oscillates : d = HasOscillated(p) /\ p \in Particles
      BY OscillatedFrom
    <3>2. mothers[d] = {p}
      BY <3>1, OscillatedIs
    <3>. QED BY <3>1, <3>2, <2>1, <1>3
  <2>. QED BY <1>3, <2>1, <2>2, <2>3 DEF MayLink
<1>4. CASE x \in K /\ x \in oscillates
  <2>. DEFINE o == HasOscillated(x)
  <2>1. /\ o \in OscillatedVersions /\ o \in Particles /\ mothers[o] = {x} /\ EndVertex(x) = {x}
        /\ \A d \in Daughters(o) : mothers[d] = {o}
    BY <1>1, <1>4, OscillatedIs
  <2>2. Last(x) = o
    BY <2>1, ParticlesFinite DEF Last
  <2>. HIDE DEF o
  <2>3. o \notin K
    BY <2>1 DEF K
  <2>4. Nearest({o}) = {x}
    BY <2>1, <2>3, <1>1, <1>4, LinkableIs
  <2>. SUFFICES ASSUME NEW d \in Daughters(o) PROVE MayLink(d, x)
    BY <1>1, <2>2, <1>4
  <2>5. d \in Particles /\ mothers[d] = {o}
    BY <2>1 DEF Daughters
  <2>6. d \notin OscillatedVersions
    <3>. SUFFICES ASSUME d \in OscillatedVersions PROVE FALSE
      OBVIOUS
    <3>1. PICK p \in oscillates : d = HasOscillated(p) /\ p \in Particles
      BY OscillatedFrom
    <3>2. mothers[d] = {p}
      BY <3>1, OscillatedIs
    <3>3. o \in oscillates
      BY <3>1, <3>2, <2>5
    <3>. QED BY <3>3, <2>1 DEF Event
  <2>7. Nearest({x}) = {x}
    BY <1>4, LinkableIs
  <2>. QED BY <1>4, <2>1, <2>4, <2>5, <2>6, <2>7 DEF MayLink
<1>5. CASE x \notin K
  <2>1. x \notin kept /\ x \notin oscillates /\ Last(x) = x /\ MayLink(x, q)
    BY <1>1, <1>2, <1>5, OscillatedIs DEF Last
  <2>. SUFFICES ASSUME NEW d \in Daughters(x) PROVE MayLink(d, q)
    BY <1>1, <2>1, <1>5
  <2>2. d \in Particles /\ x \in mothers[d] /\ mothers[d] \in SUBSET Particles
    BY <1>1, MothersFirst DEF Daughters
  <2>3. Nearest({x}) = Nearest(mothers[x]) /\ q \in Nearest({x})
    BY <1>1, <1>5, <2>1, LinkableIs DEF MayLink
  <2>4. q \in Nearest(mothers[d])
    <3>1. Nearest(mothers[d]) = UNION {Nearest({m}) : m \in mothers[d]}
      BY <2>2, NearestUnion
    <3>. QED BY <3>1, <2>2, <2>3
  <2>5. d \notin OscillatedVersions
    <3>. SUFFICES ASSUME d \in OscillatedVersions PROVE FALSE
      OBVIOUS
    <3>1. PICK p \in oscillates : d = HasOscillated(p) /\ p \in Particles
      BY OscillatedFrom
    <3>2. mothers[d] = {p}
      BY <3>1, OscillatedIs
    <3>. QED BY <3>1, <3>2, <2>2, <2>1
  <2>6. ASSUME NEW W \in SUBSET Particles, Separate(W), d \in W
        PROVE  Nearest(mothers[d]) = Nearest(EndVertex(q))
    <3>1. x \in W /\ Nearest(mothers[d]) = Nearest({x})
      BY <2>6, <2>2, <2>3, <2>1 DEF Separate
    <3>2. Nearest(mothers[x]) = Nearest(EndVertex(q))
      BY <3>1, <2>6, <2>1 DEF MayLink
    <3>. QED BY <3>1, <3>2, <2>3
  <2>. QED BY <2>1, <2>2, <2>4, <2>5, <2>6 DEF MayLink
<1>. QED BY <1>1, <1>2, <1>3, <1>4, <1>5

\* The loops l become m with the call for x, of the loop for q, which enters a
\* loop for r.
Goes(l, m, x, q, r) ==
  /\ \A y, z : InFrame(m, y, z) => (y \in Daughters(Last(x)) /\ z = r) \/ InFrame(l, y, z)
  /\ \A y \in Daughters(Last(x)) : InFrame(m, y, r)
  /\ \A y, z : InFrame(l, y, z) /\ ~(y = x /\ z = q) => InFrame(m, y, z)

\* The particle c is pending until it is called for.
LEMMA PendingCall ==
  ASSUME Event, NEW l, NEW m, NEW x \in Particles, NEW q, NEW r, Goes(l, m, x, q, r),
         NEW c \in Particles, c \notin OscillatedVersions, Pending(l, c), c # x
  PROVE  Pending(m, c)
<1>0. /\ \A y \in Daughters(Last(x)) : InFrame(m, y, r)
      /\ \A y, z : InFrame(l, y, z) /\ ~(y = x /\ z = q) => InFrame(m, y, z)
  BY DEF Goes
<1>1. PICK y, z : InFrame(l, y, z) /\ (y = c \/ y \in AncestorsOf[c])
  BY DEF Pending
<1>2. CASE ~(y = x /\ z = q)
  BY <1>0, <1>1, <1>2 DEF Pending
<1>3. CASE y = x /\ z = q
  <2>1. x \in AncestorsOf[c]
    BY <1>1, <1>3
  <2>2. PICK d \in Daughters(x) : d = c \/ d \in AncestorsOf[c]
    BY <2>1, Between
  <2>3. CASE x \notin oscillates
    <3>1. Last(x) = x
      BY <2>3, OscillatedIs DEF Last
    <3>. QED BY <1>0, <3>1, <2>2 DEF Pending
  <2>4. CASE x \in oscillates
    <3>. DEFINE o == HasOscillated(x)
    <3>1. o \in OscillatedVersions /\ Daughters(x) = {o} /\ o # None /\ o \in Particles
      BY <2>4, OscillatedIs, ParticlesFinite
    <3>2. Last(x) = o
      BY <3>1 DEF Last
    <3>. HIDE DEF o
    <3>3. o \in AncestorsOf[c]
      BY <3>1, <2>2
    <3>4. PICK e \in Daughters(o) : e = c \/ e \in AncestorsOf[c]
      BY <3>3, Between
    <3>. QED BY <1>0, <3>4, <3>2 DEF Pending
  <2>. QED BY <2>3, <2>4
<1>. QED BY <1>2, <1>3

\* When x has been called for, the particles linked to it are on the way.
LEMMA DaughtersOnTheWay ==
  ASSUME Event, NEW l, NEW m, NEW x \in Particles, NEW q, NEW r, Goes(l, m, x, q, r),
         NEW c \in Particles, c \notin OscillatedVersions, x \in Reached(mothers[c], Up)
  PROVE  \E y \in Above(c) : InFrame(m, y, r)
<1>0. \A y \in Daughters(Last(x)) : InFrame(m, y, r)
  BY DEF Goes
<1>1. PICK d \in Above(c) : d \in Particles /\ x \in mothers[d]
  BY WayDown
<1>2. d \in Daughters(x)
  BY <1>1 DEF Daughters
<1>3. CASE x \notin oscillates
  BY <1>0, <1>1, <1>2, <1>3, OscillatedIs DEF Last
<1>4. CASE x \in oscillates
  <2>. DEFINE o == HasOscillated(x)
  <2>1. o \in OscillatedVersions /\ Daughters(x) = {o} /\ o # None /\ o \in Particles
    BY <1>4, OscillatedIs, ParticlesFinite
  <2>2. Last(x) = o
    BY <2>1 DEF Last
  <2>. HIDE DEF o
  <2>3. o \in Reached(mothers[c], Up)
    BY <2>1, <1>1, <1>2 DEF Above
  <2>4. PICK e \in Above(c) : e \in Particles /\ o \in mothers[e]
    BY <2>3, WayDown
  <2>. QED BY <1>0, <2>4, <2>2 DEF Daughters
<1>. QED BY <1>3, <1>4

-----------------------------------------------------------------------------
(* Linking: what the links are. *)

\* The two ends of a link agree, and a vertex has been made by the particle
\* whose ID it has.
LinksAgree(g) ==
  /\ K \subseteq g.lps /\ g.lps \cap Particles \subseteq kept
  /\ \A c \in Particles : g.prod[c] \in Particles \cup {None} /\ (g.prod[c] # None => c \in K)
  /\ \A c \in LPs : g.prod[c] # None => g.prod[g.prod[c]] = g.prod[c]
  /\ \A c, v \in LPs : c \in g.outgoing[v] <=> g.prod[c] = v
  /\ \A m, v \in LPs : v \in g.ends[m] <=> m \in g.incoming[v]
  /\ \A v \in Particles : g.incoming[v] \subseteq K
  /\ \A v \in LPs : g.incoming[v] # {} => g.prod[v] = v

\* No link leads to a track that Geant4 made.
FromGenerator(g) == \A n \in LPs \ Particles : g.prod[n] = None

\* What a vertex joins has one origin.
OneOrigin(g, W) ==
  \A v \in Particles :
    /\ \A c \in Particles : g.prod[c] = v =>
         /\ c \in W <=> v \in W
         /\ c \in W => Nearest(mothers[c]) = Nearest(g.hepmcVtx[v])
    /\ \A m \in g.incoming[v] :
         /\ Daughters(m) # {} /\ \A d \in Daughters(m) : d \in W <=> v \in W
         /\ v \in W => m \in Nearest(g.hepmcVtx[v])
    /\ g.prod[v] = v => \A d \in Particles : mothers[d] = g.hepmcVtx[v] => (d \in W <=> v \in W)

\* The links after a particle has joined a vertex.
LEMMA JoinedAtIs ==
  ASSUME NEW g \in GraphType, NEW h, NEW c \in LPs, NEW p \in LPs, NEW v \in LPs,
         JoinedAt(g, h, c, p, v)
  PROVE  /\ h.prod[c] = v /\ \A x \in LPs : x # c => h.prod[x] = g.prod[x]
         /\ \A x, w \in LPs : w \in h.ends[x] <=> w \in g.ends[x] \/ (x = p /\ w = v)
         /\ \A x, w \in LPs : x \in h.incoming[w] <=> x \in g.incoming[w] \/ (x = p /\ w = v)
         /\ \A x, w \in LPs : x \in h.outgoing[w] <=> x \in g.outgoing[w] \/ (x = c /\ w = v)
         /\ h.lps = g.lps /\ h.primaries = g.primaries /\ h.truth = g.truth
         /\ h.mother = g.mother /\ h.failed = g.failed /\ h.stale = g.stale
<1>1. g.prod \in [LPs -> LPs \cup {None}] /\ g.ends \in [LPs -> SUBSET LPs]
      /\ g.incoming \in [LPs -> SUBSET LPs] /\ g.outgoing \in [LPs -> SUBSET LPs]
  BY DEF GraphType
<1>2. h.prod[c] = v /\ \A x \in LPs : x # c => h.prod[x] = g.prod[x]
  BY <1>1 DEF JoinedAt
<1>3. \A x, w \in LPs : w \in h.ends[x] <=> w \in g.ends[x] \/ (x = p /\ w = v)
  BY <1>1 DEF JoinedAt
<1>4. \A x, w \in LPs : x \in h.incoming[w] <=> x \in g.incoming[w] \/ (x = p /\ w = v)
  BY <1>1 DEF JoinedAt
<1>5. \A x, w \in LPs : x \in h.outgoing[w] <=> x \in g.outgoing[w] \/ (x = c /\ w = v)
  BY <1>1 DEF JoinedAt
<1>. QED BY <1>2, <1>3, <1>4, <1>5 DEF JoinedAt

\* The types of the parts of a graph.
LEMMA GraphTypes ==
  ASSUME NEW g \in GraphType
  PROVE  /\ g.lps \subseteq LPs
         /\ \A x \in LPs : /\ g.prod[x] \in LPs \cup {None} /\ g.ends[x] \subseteq LPs
                           /\ g.incoming[x] \subseteq LPs /\ g.outgoing[x] \subseteq LPs
                           /\ g.hepmcVtx[x] \subseteq Particles
                           /\ g.mother[x] \in Particles \cup {None}
         /\ g.primaries \subseteq Particles /\ g.truth \subseteq LPs
  BY DEF GraphType

\* The vertex that AddParent chooses.
LEMMA ChosenIs ==
  ASSUME Event, NEW g \in GraphType, LinksAgree(g), FromGenerator(g),
         NEW c \in Particles, NEW p \in Particles, NEW v \in LPs, Chosen(g, c, p, v)
  PROVE  /\ v \in Particles
         /\ \/ /\ v \in g.ends[p] /\ p \in g.incoming[v] /\ g.hepmcVtx[v] = mothers[c]
               /\ g.prod[v] = v /\ g.prod[c] \in {None, v} /\ Found(g, c, p) # {}
               /\ \A w \in g.ends[p] : g.hepmcVtx[w] = mothers[c] => v <= w
            \/ Found(g, c, p) = {} /\ g.prod[c] = v /\ g.prod[v] = v /\ v # None
            \/ /\ Found(g, c, p) = {} /\ g.prod[c] = None /\ v = c
               /\ g.incoming[c] = {} /\ \A x \in LPs : g.prod[x] # c
<1>1. c \in LPs /\ p \in LPs /\ None \notin LPs /\ Particles \subseteq LPs
  BY ParticlesFinite
<1>2. CASE v \in Found(g, c, p) /\ g.prod[c] \in {None, v} /\ \A w \in Found(g, c, p) : v <= w
  <2>1. v \in g.ends[p] /\ g.hepmcVtx[v] = mothers[c] /\ p \in g.incoming[v] /\ g.prod[v] = v
    BY <1>1, <1>2 DEF Found, LinksAgree
  <2>2. v \in Particles
    BY <2>1, <1>1 DEF FromGenerator
  <2>. QED BY <2>1, <2>2, <1>2 DEF Found
<1>3. CASE Found(g, c, p) = {} /\ g.prod[c] # None /\ v = g.prod[c]
  BY <1>1, <1>3 DEF LinksAgree
<1>4. CASE Found(g, c, p) = {} /\ g.prod[c] = None /\ v = c
  <2>1. g.prod[c] # c
    BY <1>1, <1>4
  <2>2. \A x \in LPs : g.prod[x] # c
    BY <2>1, <1>1 DEF LinksAgree
  <2>3. g.incoming[c] = {}
    BY <2>1, <1>1 DEF LinksAgree
  <2>. QED BY <1>4, <2>2, <2>3
<1>. QED BY <1>2, <1>3, <1>4 DEF Chosen

\* A new link agrees with the ones that are there ...
LEMMA JoinAgrees ==
  ASSUME Event, NEW g \in GraphType, NEW h \in GraphType, LinksAgree(g), FromGenerator(g),
         NEW c \in K, NEW p \in K, NEW v \in LPs, Chosen(g, c, p, v), Joined(g, h, c, p, v)
  PROVE  LinksAgree(h) /\ FromGenerator(h)
<1>1. c \in Particles /\ p \in Particles /\ c \in LPs /\ p \in LPs /\ None \notin LPs
      /\ Particles \subseteq LPs
  BY ParticlesFinite, RootsLinked
<1>2. /\ h.prod[c] = v /\ \A x \in LPs : x # c => h.prod[x] = g.prod[x]
      /\ \A x, w \in LPs : w \in h.ends[x] <=> w \in g.ends[x] \/ (x = p /\ w = v)
      /\ \A x, w \in LPs : x \in h.incoming[w] <=> x \in g.incoming[w] \/ (x = p /\ w = v)
      /\ \A x, w \in LPs : x \in h.outgoing[w] <=> x \in g.outgoing[w] \/ (x = c /\ w = v)
      /\ h.lps = g.lps
  BY <1>1, JoinedAtIs DEF Joined
<1>3. /\ v \in Particles
      /\ \/ g.prod[v] = v /\ g.prod[c] \in {None, v}
         \/ g.prod[c] = None /\ v = c /\ g.incoming[c] = {} /\ \A x \in LPs : g.prod[x] # c
  BY <1>1, ChosenIs
<1>4. h.prod[v] = v
  BY <1>1, <1>2, <1>3
<1>5. K \subseteq h.lps /\ h.lps \cap Particles \subseteq kept
  BY <1>2 DEF LinksAgree
<1>6. \A x \in Particles : h.prod[x] \in Particles \cup {None} /\ (h.prod[x] # None => x \in K)
  BY <1>1, <1>2, <1>3 DEF LinksAgree
<1>7. ASSUME NEW x \in LPs, h.prod[x] # None PROVE h.prod[h.prod[x]] = h.prod[x]
  <2>1. CASE x = c
    BY <2>1, <1>2, <1>4
  <2>2. CASE x # c
    <3>1. h.prod[x] = g.prod[x] /\ g.prod[x] \in LPs /\ g.prod[g.prod[x]] = g.prod[x]
      BY <2>2, <1>2, <1>7, GraphTypes DEF LinksAgree
    <3>. QED BY <3>1, <1>2, <1>3, <1>4, <1>1
  <2>. QED BY <2>1, <2>2
<1>8. \A x, w \in LPs : x \in h.outgoing[w] <=> h.prod[x] = w
  <2>. SUFFICES ASSUME NEW x \in LPs, NEW w \in LPs PROVE x \in h.outgoing[w] <=> h.prod[x] = w
    OBVIOUS
  <2>1. x \in g.outgoing[w] <=> g.prod[x] = w
    BY DEF LinksAgree
  <2>. QED BY <2>1, <1>1, <1>2, <1>3
<1>9. \A m, w \in LPs : w \in h.ends[m] <=> m \in h.incoming[w]
  BY <1>2 DEF LinksAgree
<1>10. \A w \in Particles : h.incoming[w] \subseteq K
  <2>. SUFFICES ASSUME NEW w \in Particles, NEW m \in h.incoming[w] PROVE m \in K
    OBVIOUS
  <2>1. m \in LPs /\ w \in LPs
    BY <1>1, GraphTypes
  <2>2. m \in g.incoming[w] \/ m = p
    BY <2>1, <1>2
  <2>. QED BY <2>2 DEF LinksAgree
<1>11. \A w \in LPs : h.incoming[w] # {} => h.prod[w] = w
  <2>. SUFFICES ASSUME NEW w \in LPs, NEW m \in h.incoming[w] PROVE h.prod[w] = w
    OBVIOUS
  <2>1. m \in LPs
    BY GraphTypes
  <2>2. CASE w = v
    BY <2>2, <1>4
  <2>3. CASE w # v
    <3>1. m \in g.incoming[w]
      BY <2>1, <2>3, <1>2
    <3>2. g.prod[w] = w
      BY <3>1 DEF LinksAgree
    <3>. QED BY <3>2, <1>1, <1>2, <1>3
  <2>. QED BY <2>2, <2>3
<1>12. FromGenerator(h)
  BY <1>1, <1>2 DEF FromGenerator
<1>. QED BY <1>5, <1>6, <1>7, <1>8, <1>9, <1>10, <1>11, <1>12 DEF LinksAgree

\* ... and joins what has one origin.
LEMMA JoinOneOrigin ==
  ASSUME Event, NEW g \in GraphType, NEW h \in GraphType, LinksAgree(g), FromGenerator(g),
         NEW c \in K, NEW p \in K, NEW v \in LPs, Chosen(g, c, p, v), Joined(g, h, c, p, v),
         MayLink(c, p), NEW W \in SUBSET Particles, Separate(W), OneOrigin(g, W)
  PROVE  OneOrigin(h, W)
<1>1. c \in Particles /\ p \in Particles /\ c \in LPs /\ p \in LPs /\ None \notin LPs
      /\ Particles \subseteq LPs /\ mothers[c] \in SUBSET Particles
  BY ParticlesFinite, RootsLinked, MothersFirst
<1>2. /\ h.prod[c] = v /\ \A x \in LPs : x # c => h.prod[x] = g.prod[x]
      /\ \A x, w \in LPs : x \in h.incoming[w] <=> x \in g.incoming[w] \/ (x = p /\ w = v)
  BY <1>1, JoinedAtIs DEF Joined
<1>3. p \in Nearest(mothers[c]) /\ (c \in W => Nearest(mothers[c]) = Nearest(EndVertex(p)))
  BY DEF MayLink
<1>4. \A d \in Daughters(p) : d \in W <=> c \in W
  BY <1>1, <1>3 DEF Separate
<1>5. Daughters(p) # {}
  <2>1. p \in Reached(mothers[c], Up)
    BY <1>3 DEF Nearest
  <2>2. PICK y \in Above(c) : y \in Particles /\ p \in mothers[y]
    BY <2>1, <1>1, WayDown
  <2>. QED BY <2>2 DEF Daughters
<1>6. p \in EndVertex(p) /\ \A d \in Particles : mothers[d] = EndVertex(p) => d \in Daughters(p)
  <2>1. PICK d \in Daughters(p) : TRUE
    BY <1>5
  <2>2. p \in EndVertex(p)
    BY <2>1, <1>1, EndVertexIs
  <2>. QED BY <2>2 DEF Daughters
<1>7. CASE /\ p \in g.incoming[v] /\ g.hepmcVtx[v] = mothers[c]
           /\ g.prod[v] = v /\ g.prod[c] \in {None, v} /\ Found(g, c, p) # {} /\ v \in Particles
  <2>1. h.hepmcVtx = g.hepmcVtx
    BY <1>7 DEF Joined
  <2>2. c \in W <=> v \in W
    BY <1>7, <1>1 DEF OneOrigin
  <2>3. \A w \in Particles : h.incoming[w] = g.incoming[w]
    <3>. SUFFICES ASSUME NEW w \in Particles PROVE h.incoming[w] = g.incoming[w]
      OBVIOUS
    <3>1. w \in LPs /\ h.incoming[w] \subseteq LPs /\ g.incoming[w] \subseteq LPs
      BY GraphTypes, <1>1
    <3>2. \A x \in LPs : x \in h.incoming[w] <=> x \in g.incoming[w]
      BY <3>1, <1>2, <1>7
    <3>. QED BY <3>1, <3>2
  <2>. SUFFICES ASSUME NEW w \in Particles
                PROVE  /\ \A x \in Particles : h.prod[x] = w =>
                            /\ x \in W <=> w \in W
                            /\ x \in W => Nearest(mothers[x]) = Nearest(g.hepmcVtx[w])
                       /\ h.prod[w] = w => \A d \in Particles : mothers[d] = g.hepmcVtx[w] => (d \in W <=> w \in W)
    BY <2>1, <2>3 DEF OneOrigin
  <2>4. ASSUME NEW x \in Particles, h.prod[x] = w
        PROVE  /\ x \in W <=> w \in W
               /\ x \in W => Nearest(mothers[x]) = Nearest(g.hepmcVtx[w])
    <3>1. CASE x = c
      BY <3>1, <2>4, <2>2, <1>2, <1>7
    <3>2. CASE x # c
      BY <3>2, <2>4, <1>1, <1>2 DEF OneOrigin
    <3>. QED BY <3>1, <3>2
  <2>5. ASSUME h.prod[w] = w, NEW d \in Particles, mothers[d] = g.hepmcVtx[w]
        PROVE  d \in W <=> w \in W
    <3>1. g.prod[w] = w
      BY <2>5, <1>1, <1>2, <1>7
    <3>. QED BY <3>1, <2>5 DEF OneOrigin
  <2>. QED BY <2>4, <2>5
<1>8. CASE Found(g, c, p) = {} /\ g.prod[c] = v /\ g.prod[v] = v /\ v # None /\ v \in Particles
  <2>1. h.hepmcVtx = g.hepmcVtx
    BY <1>8 DEF Joined
  <2>2. /\ c \in W <=> v \in W
        /\ c \in W => Nearest(mothers[c]) = Nearest(g.hepmcVtx[v])
    BY <1>8, <1>1 DEF OneOrigin
  <2>3. \A x \in LPs : h.prod[x] = g.prod[x]
    BY <1>8, <1>2
  <2>4. ASSUME NEW w \in Particles, NEW m \in h.incoming[w]
        PROVE  /\ Daughters(m) # {} /\ \A d \in Daughters(m) : d \in W <=> w \in W
               /\ w \in W => m \in Nearest(g.hepmcVtx[w])
    <3>1. m \in LPs /\ w \in LPs
      BY GraphTypes, <1>1
    <3>2. CASE m \in g.incoming[w]
      BY <3>2 DEF OneOrigin
    <3>3. CASE m = p /\ w = v
      BY <3>3, <1>3, <1>4, <1>5, <2>2
    <3>. QED BY <3>1, <3>2, <3>3, <1>2
  <2>. QED BY <2>1, <2>3, <2>4, <1>1 DEF OneOrigin
<1>9. CASE /\ Found(g, c, p) = {} /\ g.prod[c] = None /\ v = c
           /\ g.incoming[c] = {} /\ \A x \in LPs : g.prod[x] # c
  <2>1. h.hepmcVtx = [g.hepmcVtx EXCEPT ![c] = EndVertex(p)]
    BY <1>9 DEF Joined
  <2>2. h.hepmcVtx[c] = EndVertex(p) /\ \A w \in LPs : w # c => h.hepmcVtx[w] = g.hepmcVtx[w]
    BY <2>1, <1>1 DEF GraphType
  <2>3. ASSUME NEW w \in Particles, NEW x \in Particles, h.prod[x] = w
        PROVE  /\ x \in W <=> w \in W
               /\ x \in W => Nearest(mothers[x]) = Nearest(h.hepmcVtx[w])
    <3>1. CASE x = c
      BY <3>1, <2>3, <2>2, <1>2, <1>3, <1>9
    <3>2. CASE x # c
      <4>1. g.prod[x] = w /\ w # c
        BY <3>2, <2>3, <1>1, <1>2, <1>9
      <4>. QED BY <4>1, <2>2, <1>1 DEF OneOrigin
    <3>. QED BY <3>1, <3>2
  <2>4. ASSUME NEW w \in Particles, NEW m \in h.incoming[w]
        PROVE  /\ Daughters(m) # {} /\ \A d \in Daughters(m) : d \in W <=> w \in W
               /\ w \in W => m \in Nearest(h.hepmcVtx[w])
    <3>1. m \in LPs /\ w \in LPs
      BY GraphTypes, <1>1
    <3>2. CASE m \in g.incoming[w]
      <4>1. w # c
        BY <3>2, <1>9
      <4>. QED BY <4>1, <3>1, <3>2, <2>2 DEF OneOrigin
    <3>3. CASE m = p /\ w = c
      <4>1. EndVertex(p) \in SUBSET Particles
        BY EndVertexType, <1>1
      <4>2. p \in Nearest(EndVertex(p))
        BY <4>1, <1>6, UpIs DEF Nearest
      <4>. QED BY <4>2, <3>3, <1>4, <1>5, <2>2
    <3>. QED BY <3>1, <3>2, <3>3, <1>2, <1>9
  <2>5. ASSUME NEW w \in Particles, h.prod[w] = w, NEW d \in Particles, mothers[d] = h.hepmcVtx[w]
        PROVE  d \in W <=> w \in W
    <3>1. CASE w = c
      BY <3>1, <2>5, <2>2, <1>4, <1>6
    <3>2. CASE w # c
      <4>1. g.prod[w] = w /\ h.hepmcVtx[w] = g.hepmcVtx[w]
        BY <3>2, <2>5, <2>2, <1>1, <1>2
      <4>. QED BY <4>1, <2>5 DEF OneOrigin
    <3>. QED BY <3>1, <3>2
  <2>. QED BY <2>3, <2>4, <2>5 DEF OneOrigin
<1>. QED BY <1>1, <1>7, <1>8, <1>9, ChosenIs

-----------------------------------------------------------------------------
(* Linking: one call. *)

\* A particle without a linked particle above it has no production vertex.
RootsFree(g) == \A c \in Particles : g.prod[c] # None => Nearest(mothers[c]) # {}

\* What the links made so far are like.
LinkGraph(g) ==
  /\ g \in GraphType /\ LinksAgree(g) /\ FromGenerator(g) /\ g.lps \subseteq Particles
  /\ RootsFree(g)
  /\ \A W \in SUBSET Particles : Separate(W) => OneOrigin(g, W)
  /\ g.primaries = {} /\ g.truth = {} /\ g.failed = FALSE /\ g.stale = FALSE

SameLinks(g, h) ==
  /\ h.prod = g.prod /\ h.ends = g.ends /\ h.incoming = g.incoming /\ h.outgoing = g.outgoing
  /\ h.hepmcVtx = g.hepmcVtx /\ h.primaries = g.primaries /\ h.truth = g.truth
  /\ h.mother = g.mother /\ h.failed = g.failed /\ h.stale = g.stale

\* Every linked particle above c is its parent, or on the way.
Complete(g, l) ==
  \A c \in K : \A m \in Nearest(mothers[c]) :
    \/ m \in Parents(g, c)
    \/ Pending(l, m)
    \/ \E y \in Above(c) : InFrame(l, y, m)

\* The antiparticle goes when its particle is called for.
OscillatedLeft(g, l) ==
  \A p \in oscillates : HasOscillated(p) \in g.lps => Pending(l, p)

\* What the call for x with the parent q does to the graph.
Called(g, h, x, q) ==
  \E g1 \in GraphType :
    /\ \/ (x \notin K \/ q = None) /\ g1 = g
       \/ /\ x \in K /\ q \in K /\ MayLink(x, q)
          /\ \E v \in LPs : Chosen(g, x, q, v) /\ Joined(g, g1, x, q, v)
    /\ SameLinks(g1, h) /\ h.lps = g1.lps \ {HasOscillated(x)}

\* A call refuses its link, or has the effect of Called.
LEMMA LinkedEffect ==
  ASSUME Event, NEW g, LinkGraph(g), NEW x, NEW q,
         IF q = None THEN x \in Roots ELSE MayLink(x, q)
  PROVE  /\ x \in g.lps <=> x \in K
         /\ Linked(g, x, q) \in GraphType
         /\ \/ Linked(g, x, q).failed /\ x \in K /\ q \in K /\ Refused(g, x, q)
            \/ Called(g, Linked(g, x, q), x, q)
<1>. DEFINE o == HasOscillated(x)
            g1 == IF x \in g.lps /\ q # None THEN AddLink(g, x, q) ELSE g
            h == IF o \in g1.lps THEN Delete(g1, o) ELSE g1
<1>1. Linked(g, x, q) = h
  BY DEF Linked
<1>2. /\ x \in Particles /\ g \in GraphType
      /\ (q # None => q \in K /\ q \in Particles /\ MayLink(x, q))
      /\ (x \notin K => x \notin kept)
  BY CallFor, RootsLinked DEF LinkGraph, MayLink
<1>3. x \in g.lps <=> x \in K
  BY <1>2 DEF LinkGraph, LinksAgree
<1>4. /\ g1 \in GraphType
      /\ \/ g1.failed /\ x \in K /\ q \in K /\ Refused(g, x, q)
         \/ (x \notin K \/ q = None) /\ g1 = g
         \/ /\ x \in K /\ q \in K /\ MayLink(x, q)
            /\ \E v \in LPs : Chosen(g, x, q, v) /\ Joined(g, g1, x, q, v)
  <2>1. CASE x \in K /\ q # None
    <3>1. g1 = AddLink(g, x, q)
      BY <2>1, <1>3
    <3>2. /\ AddLink(g, x, q) \in GraphType
          /\ \/ Refused(g, x, q) /\ AddLink(g, x, q).failed
             \/ \E v \in LPs : Chosen(g, x, q, v) /\ Joined(g, AddLink(g, x, q), x, q, v)
      BY <1>2, <2>1, AddLinkEffect
    <3>. HIDE DEF g1
    <3>. QED BY <3>1, <3>2, <2>1, <1>2
  <2>2. CASE x \notin K \/ q = None
    <3>1. g1 = g
      BY <2>2, <1>3
    <3>. HIDE DEF g1
    <3>. QED BY <3>1, <2>2, <1>2
  <2>. QED BY <2>1, <2>2
<1>. HIDE DEF g1
<1>5. h \in GraphType /\ h.failed = g1.failed /\ (o \notin g1.lps => h = g1)
      /\ (o \in g1.lps => /\ h.lps = g1.lps \ {o}
                          /\ h.outgoing = [v \in LPs |-> g1.outgoing[v] \ {o}]
                          /\ h.incoming = [v \in LPs |-> g1.incoming[v] \ {o}]
                          /\ h.prod = g1.prod /\ h.ends = g1.ends /\ h.hepmcVtx = g1.hepmcVtx
                          /\ h.primaries = g1.primaries /\ h.truth = g1.truth
                          /\ h.mother = g1.mother /\ h.failed = g1.failed /\ h.stale = g1.stale)
  <2>1. CASE o \in g1.lps
    <3>1. h = Delete(g1, o)
      BY <2>1
    <3>. HIDE DEF h, o
    <3>. QED BY <3>1, <2>1, <1>4, DeleteEffect
  <2>2. CASE o \notin g1.lps
    BY <2>2, <1>4
  <2>. QED BY <2>1, <2>2
<1>. HIDE DEF h
<1>6. CASE g1.failed /\ x \in K /\ q \in K /\ Refused(g, x, q)
  BY <1>1, <1>3, <1>5, <1>6
<1>7. ASSUME \/ (x \notin K \/ q = None) /\ g1 = g
             \/ /\ x \in K /\ q \in K /\ MayLink(x, q)
                /\ \E v \in LPs : Chosen(g, x, q, v) /\ Joined(g, g1, x, q, v)
      PROVE  Called(g, h, x, q)
  <2>1. LinksAgree(g1)
    <3>1. CASE g1 = g
      BY <3>1 DEF LinkGraph
    <3>2. CASE x \in K /\ q \in K /\ \E v \in LPs : Chosen(g, x, q, v) /\ Joined(g, g1, x, q, v)
      BY <3>2, <1>4, JoinAgrees DEF LinkGraph
    <3>. QED BY <3>1, <3>2, <1>7
  <2>2. SameLinks(g1, h) /\ h.lps = g1.lps \ {o}
    <3>1. CASE o \notin g1.lps
      BY <3>1, <1>5 DEF SameLinks
    <3>2. CASE o \in g1.lps
      <4>0. g1.lps \subseteq LPs /\ None \notin LPs
        BY <1>4, GraphTypes, ParticlesFinite
      <4>1. o \in OscillatedVersions /\ o \in Particles /\ o \notin K
        <5>1. x \in oscillates
          BY <4>0, <3>2, <1>2, OscillatedIs
        <5>. QED BY <5>1, <1>2, OscillatedIs DEF K
      <4>2. o \in LPs /\ g1.prod[o] = None
        BY <4>1, <2>1, ParticlesFinite DEF LinksAgree
      <4>3. \A v \in LPs : o \notin g1.outgoing[v]
        BY <4>2, <2>1, <4>0 DEF LinksAgree
      <4>4. \A v \in LPs : o \notin g1.incoming[v]
        <5>. SUFFICES ASSUME NEW v \in LPs, o \in g1.incoming[v] PROVE FALSE
          OBVIOUS
        <5>1. g1.prod[v] = v
          BY <2>1 DEF LinksAgree
        <5>2. v \in Particles
          <6>1. FromGenerator(g1)
            <7>1. CASE g1 = g
              BY <7>1 DEF LinkGraph
            <7>2. CASE x \in K /\ q \in K /\ \E w \in LPs : Chosen(g, x, q, w) /\ Joined(g, g1, x, q, w)
              BY <7>2, <1>4, JoinAgrees DEF LinkGraph
            <7>. QED BY <7>1, <7>2, <1>7
          <6>. QED BY <6>1, <5>1, <4>0 DEF FromGenerator
        <5>. QED BY <5>2, <4>1, <2>1 DEF LinksAgree
      <4>5. g1.outgoing \in [LPs -> SUBSET LPs] /\ g1.incoming \in [LPs -> SUBSET LPs]
        BY <1>4 DEF GraphType
      <4>6. \A v \in LPs : g1.outgoing[v] \ {o} = g1.outgoing[v] /\ g1.incoming[v] \ {o} = g1.incoming[v]
        BY <4>3, <4>4
      <4>7. h.outgoing = g1.outgoing /\ h.incoming = g1.incoming
        BY <4>5, <4>6, <3>2, <1>5
      <4>. QED BY <4>7, <3>2, <1>5 DEF SameLinks
    <3>. QED BY <3>1, <3>2
  <2>. QED BY <2>2, <1>7, <1>4 DEF Called, o
<1>. QED BY <1>1, <1>3, <1>4, <1>5, <1>6, <1>7

\* A call keeps what is known of the links ...
LEMMA CalledGraph ==
  ASSUME Event, NEW g, LinkGraph(g), NEW h \in GraphType, NEW x \in Particles, NEW q,
         Called(g, h, x, q)
  PROVE  /\ LinkGraph(h)
         /\ \A c \in K : Parents(g, c) \subseteq Parents(h, c)
         /\ x \in K /\ q # None => q \in Parents(h, x)
         /\ h.lps = g.lps \ {HasOscillated(x)}
<1>1. PICK g1 \in GraphType :
        /\ \/ (x \notin K \/ q = None) /\ g1 = g
           \/ /\ x \in K /\ q \in K /\ MayLink(x, q)
              /\ \E v \in LPs : Chosen(g, x, q, v) /\ Joined(g, g1, x, q, v)
        /\ SameLinks(g1, h) /\ h.lps = g1.lps \ {HasOscillated(x)}
  BY DEF Called
<1>0. K \subseteq LPs /\ K \subseteq Particles /\ Particles \subseteq LPs /\ None \notin LPs
  BY RootsLinked, ParticlesFinite
<1>2. /\ LinkGraph(g1) /\ g1.lps = g.lps
      /\ \A c \in K : Parents(g, c) \subseteq Parents(g1, c)
      /\ x \in K /\ q # None => q \in Parents(g1, x)
  <2>1. CASE (x \notin K \/ q = None) /\ g1 = g
    BY <2>1
  <2>2. CASE /\ x \in K /\ q \in K /\ MayLink(x, q)
             /\ \E v \in LPs : Chosen(g, x, q, v) /\ Joined(g, g1, x, q, v)
    <3>1. PICK v \in LPs : Chosen(g, x, q, v) /\ Joined(g, g1, x, q, v)
      BY <2>2
    <3>2. g \in GraphType /\ LinksAgree(g) /\ FromGenerator(g) /\ x \in LPs /\ q \in LPs /\ q \in Particles
      BY <2>2, <1>0 DEF LinkGraph
    <3>3. LinksAgree(g1) /\ FromGenerator(g1)
      BY <3>1, <3>2, <2>2, JoinAgrees
    <3>4. \A W \in SUBSET Particles : Separate(W) => OneOrigin(g1, W)
      BY <3>1, <3>2, <2>2, JoinOneOrigin DEF LinkGraph
    <3>5. /\ g1.prod[x] = v /\ \A y \in LPs : y # x => g1.prod[y] = g.prod[y]
          /\ \A y, w \in LPs : y \in g1.incoming[w] <=> y \in g.incoming[w] \/ (y = q /\ w = v)
          /\ g1.lps = g.lps /\ g1.primaries = g.primaries /\ g1.truth = g.truth
          /\ g1.failed = g.failed /\ g1.stale = g.stale
      <4>1. JoinedAt(g, g1, x, q, v)
        BY <3>1 DEF Joined
      <4>2. g1.prod[x] = v /\ \A y \in LPs : y # x => g1.prod[y] = g.prod[y]
        BY <4>1, <3>2, JoinedAtIs
      <4>5. g.incoming \in [LPs -> SUBSET LPs]
        BY <3>2 DEF GraphType
      <4>3. \A y, w \in LPs : y \in g1.incoming[w] <=> y \in g.incoming[w] \/ (y = q /\ w = v)
        BY <4>1, <4>5 DEF JoinedAt
      <4>. QED BY <4>1, <4>2, <4>3 DEF JoinedAt
    <3>10. RootsFree(g1)
      BY <3>5, <2>2, <1>0 DEF LinkGraph, RootsFree, MayLink
    <3>6. LinkGraph(g1)
      BY <3>3, <3>4, <3>5, <3>10 DEF LinkGraph
    <3>7. g.prod[x] \in {None, v}
      BY <3>1 DEF Chosen
    <3>8. ASSUME NEW c \in K, NEW m \in Parents(g, c) PROVE m \in Parents(g1, c)
      <4>1. g.prod[c] # None /\ g.prod[c] \in LPs /\ m \in g.incoming[g.prod[c]] /\ m \in LPs
        BY <3>8, <3>2, <1>0, GraphTypes DEF Parents
      <4>2. g1.prod[c] = g.prod[c]
        BY <4>1, <3>5, <3>7, <1>0
      <4>. QED BY <4>1, <4>2, <3>5 DEF Parents
    <3>9. q \in Parents(g1, x)
      BY <3>5, <3>2, <1>0 DEF Parents
    <3>. QED BY <3>5, <3>6, <3>8, <3>9
  <2>. QED BY <1>1, <2>1, <2>2
<1>3. \A c \in K : Parents(h, c) = Parents(g1, c)
  BY <1>1 DEF Parents, SameLinks
<1>4. HasOscillated(x) \notin K
  <2>1. None \notin K
    BY <1>0
  <2>. QED BY <2>1, OscillatedIs DEF K
<1>5. LinksAgree(h)
  BY <1>1, <1>2, <1>4 DEF LinkGraph, LinksAgree, SameLinks
<1>6. FromGenerator(h)
  BY <1>1, <1>2 DEF LinkGraph, FromGenerator, SameLinks
<1>7. \A W \in SUBSET Particles : Separate(W) => OneOrigin(h, W)
  BY <1>1, <1>2 DEF LinkGraph, OneOrigin, SameLinks
<1>9. RootsFree(h)
  BY <1>1, <1>2 DEF LinkGraph, RootsFree, SameLinks
<1>8. LinkGraph(h)
  BY <1>1, <1>2, <1>5, <1>6, <1>7, <1>9 DEF LinkGraph, SameLinks
<1>. QED BY <1>1, <1>2, <1>3, <1>8

\* ... and of the calls to come.
LEMMA CalledLoops ==
  ASSUME Event, NEW g, NEW h, NEW l, NEW m, NEW x, NEW q, NEW r,
         LinkFrames(l), Complete(g, l), OscillatedLeft(g, l), InFrame(l, x, q),
         r = IF x \in K THEN x ELSE q,
         Goes(l, m, x, q, r),
         \A c \in K : Parents(g, c) \subseteq Parents(h, c),
         x \in K /\ q # None => q \in Parents(h, x),
         h.lps = g.lps \ {HasOscillated(x)}
  PROVE  LinkFrames(m) /\ Complete(h, m) /\ OscillatedLeft(h, m)
<1>0. K \subseteq Particles /\ None \notin K /\ \A c \in K : c \notin OscillatedVersions
  BY RootsLinked, ParticlesFinite DEF K
<1>1. IF q = None THEN x \in Roots ELSE MayLink(x, q)
  BY DEF LinkFrames
<1>2. /\ x \in Particles /\ (x \notin K => q # None)
      /\ \A d \in Daughters(Last(x)) : MayLink(d, r)
  BY <1>1, CallFor
<1>3. LinkFrames(m)
  <2>. SUFFICES ASSUME NEW y, NEW z, InFrame(m, y, z)
                PROVE  IF z = None THEN y \in Roots ELSE MayLink(y, z)
    BY DEF LinkFrames
  <2>1. CASE InFrame(l, y, z)
    BY <2>1 DEF LinkFrames
  <2>2. CASE y \in Daughters(Last(x)) /\ z = r
    <3>1. r # None
      BY <1>0, <1>2
    <3>. QED BY <3>1, <2>2, <1>2
  <2>. QED BY <2>1, <2>2 DEF Goes
<1>4. ASSUME NEW c \in Particles, c \notin OscillatedVersions, Pending(l, c), c # x
      PROVE  Pending(m, c)
  BY <1>2, <1>4, PendingCall
<1>5. ASSUME NEW c \in Particles, c \notin OscillatedVersions, x \in Reached(mothers[c], Up)
      PROVE  \E y \in Above(c) : InFrame(m, y, r)
  BY <1>2, <1>5, DaughtersOnTheWay
<1>6. Complete(h, m)
  <2>. SUFFICES ASSUME NEW c \in K, NEW a \in Nearest(mothers[c])
                PROVE  a \in Parents(h, c) \/ Pending(m, a) \/ \E y \in Above(c) : InFrame(m, y, a)
    BY DEF Complete
  <2>1. a \in K /\ a \in Reached(mothers[c], Up)
    BY DEF Nearest
  <2>2. CASE a \in Parents(g, c)
    BY <2>2
  <2>3. CASE Pending(l, a) /\ a # x
    BY <2>1, <2>3, <1>0, <1>4
  <2>4. CASE a = x
    BY <2>1, <2>4, <1>0, <1>5
  <2>5. ASSUME NEW y \in Above(c), InFrame(l, y, a)
        PROVE  a \in Parents(h, c) \/ Pending(m, a) \/ \E e \in Above(c) : InFrame(m, e, a)
    <3>1. CASE ~(y = x /\ a = q)
      BY <3>1, <2>5 DEF Goes
    <3>2. CASE y = x /\ a = q /\ x = c
      BY <3>2, <2>1, <1>0
    <3>3. CASE y = x /\ a = q /\ x # c
      <4>1. x \in Reached(mothers[c], Up) /\ x \notin K
        BY <3>3, <2>5 DEF Above
      <4>. QED BY <4>1, <3>3, <1>0, <1>5
    <3>. QED BY <3>1, <3>2, <3>3
  <2>. QED BY <2>2, <2>3, <2>4, <2>5 DEF Complete
<1>7. OscillatedLeft(h, m)
  <2>. SUFFICES ASSUME NEW p \in oscillates, HasOscillated(p) \in h.lps PROVE Pending(m, p)
    BY DEF OscillatedLeft
  <2>1. Pending(l, p) /\ p # x
    BY DEF OscillatedLeft
  <2>2. p \in K
    BY OscillatedIs DEF Event
  <2>. QED BY <2>1, <2>2, <1>0, <1>4
<1>. QED BY <1>3, <1>6, <1>7

\* Only the calls to come count.
LEMMA SameCalls ==
  ASSUME NEW g, NEW l, NEW m, \A y, z : InFrame(m, y, z) <=> InFrame(l, y, z)
  PROVE  /\ LinkFrames(l) => LinkFrames(m)
         /\ Complete(g, l) => Complete(g, m)
         /\ OscillatedLeft(g, l) => OscillatedLeft(g, m)
<1>1. \A x : Pending(l, x) => Pending(m, x)
  BY DEF Pending
<1>. QED BY <1>1 DEF LinkFrames, Complete, OscillatedLeft

\* It holds before the first call.
LEMMA LinkingBegins ==
  ASSUME Event
  PROVE  /\ LinkGraph(Unlinked) /\ LinkFrames(Enter(Roots, None))
         /\ Complete(Unlinked, Enter(Roots, None)) /\ OscillatedLeft(Unlinked, Enter(Roots, None))
<1>0. kept \subseteq Particles /\ Particles \subseteq LPs /\ K \subseteq kept /\ K \subseteq Particles
      /\ None \notin LPs
  BY RootsLinked, ParticlesFinite
<1>1. Unlinked \in GraphType
  BY <1>0 DEF Unlinked, GraphType, NoVertex
<1>2. LinksAgree(Unlinked) /\ FromGenerator(Unlinked)
  BY <1>0 DEF Unlinked, LinksAgree, FromGenerator
<1>10. RootsFree(Unlinked)
  BY <1>0 DEF Unlinked, RootsFree
<1>3. \A W : OneOrigin(Unlinked, W)
  BY <1>0 DEF Unlinked, OneOrigin
<1>4. LinkGraph(Unlinked)
  BY <1>0, <1>1, <1>2, <1>3, <1>10 DEF LinkGraph, Unlinked
<1>5. \A y, z : InFrame(Enter(Roots, None), y, z) <=> y \in Roots /\ z = None
  BY InEnter
<1>6. LinkFrames(Enter(Roots, None))
  BY <1>5 DEF LinkFrames
<1>7. \A p \in K : Pending(Enter(Roots, None), p)
  BY <1>0, <1>5, RootAbove DEF Pending
<1>8. \A c \in K : Nearest(mothers[c]) \subseteq K
  BY DEF Nearest
<1>9. \A p \in oscillates : p \in K
  BY OscillatedIs DEF Event
<1>. QED BY <1>4, <1>6, <1>7, <1>8, <1>9 DEF Complete, OscillatedLeft

\* All particles are linked to those above them, at least.
Settled(g) ==
  /\ g \in GraphType /\ LinksAgree(g) /\ g.lps \cap Particles = K
  /\ \A W \in SUBSET Particles : Separate(W) => OneOrigin(g, W)
  /\ \A c \in K : Nearest(mothers[c]) \subseteq Parents(g, c)

\* After the last call every particle is linked.
LEMMA LinkingEnds ==
  ASSUME Event, NEW g, NEW l, LinkGraph(g), Complete(g, l), OscillatedLeft(g, l),
         \A y, z : ~InFrame(l, y, z)
  PROVE  Settled(g) /\ g.lps = K
<1>1. \A x : ~Pending(l, x)
  BY DEF Pending
<1>2. \A c \in K : Nearest(mothers[c]) \subseteq Parents(g, c)
  BY <1>1 DEF Complete
<1>3. g.lps = K
  <2>1. K \subseteq g.lps /\ g.lps \subseteq kept
    BY DEF LinkGraph, LinksAgree
  <2>2. ASSUME NEW o \in g.lps, o \in OscillatedVersions PROVE FALSE
    BY <2>2, <1>1, OscillatedFrom DEF OscillatedLeft
  <2>. QED BY <2>1, <2>2 DEF K
<1>4. K \subseteq Particles
  BY RootsLinked
<1>. QED BY <1>2, <1>3, <1>4 DEF LinkGraph, Settled

\* The generator's particles have the parents they should have.
LEMMA OneOriginParents ==
  ASSUME Event, NEW g, Settled(g), NEW W \in SUBSET Particles, Separate(W), NEW c \in K, c \in W
  PROVE  Parents(g, c) = Nearest(mothers[c])
<1>0. c \in Particles /\ c \in LPs
  BY RootsLinked
<1>1. Nearest(mothers[c]) \subseteq Parents(g, c)
  BY DEF Settled
<1>2. ASSUME NEW m \in Parents(g, c) PROVE m \in Nearest(mothers[c])
  <2>1. g.prod[c] # None /\ m \in g.incoming[g.prod[c]]
    BY <1>2 DEF Parents
  <2>2. g.prod[c] \in Particles
    BY <2>1, <1>0 DEF Settled, LinksAgree
  <2>3. OneOrigin(g, W)
    BY DEF Settled
  <2>4. g.prod[c] \in W /\ Nearest(mothers[c]) = Nearest(g.hepmcVtx[g.prod[c]])
    BY <2>2, <2>3, <1>0 DEF OneOrigin
  <2>. QED BY <2>1, <2>2, <2>3, <2>4 DEF OneOrigin
<1>. QED BY <1>1, <1>2

\* Where no lines are mixed, all particles are separate.
LEMMA UnmixedSeparate ==
  ASSUME Event, Unmixed
  PROVE  Separate(Particles)
<1>1. \A c \in Particles : \A p \in Nearest(mothers[c]) : \A d \in Daughters(p) :
        c \in Particles <=> d \in Particles
  BY DEF Daughters
<1>2. \A d \in Particles : \A x \in mothers[d] :
        x \notin kept /\ Nearest({x}) # {} => x \in Particles /\ Nearest(mothers[d]) = Nearest({x})
  <2>. SUFFICES ASSUME NEW d \in Particles, NEW x \in mothers[d], x \notin kept, Nearest({x}) # {}
                PROVE  x \in Particles /\ Nearest(mothers[d]) = Nearest({x})
    OBVIOUS
  <2>1. x \in Particles /\ d \in Daughters(x)
    BY MothersFirst DEF Daughters
  <2>. QED BY <2>1, UnmixedNearest
<1>. QED BY <1>1, <1>2 DEF Separate

\* Then each particle has its own parents and no others.
LEMMA SettledOwnParents ==
  ASSUME Event, Unmixed, Settled(graph)
  PROVE  OwnParents
<1>1. graph.lps \cap Particles = K /\ K \subseteq Particles
  BY RootsLinked DEF Settled
<1>2. Particles \in SUBSET Particles /\ Separate(Particles)
  BY UnmixedSeparate
<1>3. \A c \in K : Parents(graph, c) = Nearest(mothers[c])
  BY <1>1, <1>2, OneOriginParents
<1>. QED BY <1>1, <1>3, LinkableIs DEF OwnParents

-----------------------------------------------------------------------------
(* Linking: no particle descends from itself. *)

\* Some particle of every set has no child in it.
Acyclic(g) == \A X \in SUBSET LPs : X # {} => \E x \in X : Children(g, x) \cap X = {}

\* Children and parents agree.
LEMMA ChildrenAre ==
  ASSUME NEW g \in GraphType, NEW p \in LPs
  PROVE  /\ Children(g, p) \subseteq LPs
         /\ LinksAgree(g) => \A c \in LPs : c \in Children(g, p) <=> p \in Parents(g, c)
<1>1. g.ends[p] \subseteq LPs /\ \A v \in LPs : g.outgoing[v] \subseteq LPs
  BY GraphTypes
<1>2. Children(g, p) \subseteq LPs
  BY <1>1 DEF Children
<1>3. ASSUME LinksAgree(g), NEW c \in LPs PROVE c \in Children(g, p) <=> p \in Parents(g, c)
  <2>1. g.prod[c] \in LPs \cup {None} /\ None \notin LPs
    BY GraphTypes, ParticlesFinite
  <2>2. c \in Children(g, p) <=> \E v \in LPs : v \in g.ends[p] /\ c \in g.outgoing[v]
    BY <1>1 DEF Children
  <2>3. c \in Children(g, p) <=> \E v \in LPs : p \in g.incoming[v] /\ g.prod[c] = v
    BY <2>2, <1>3 DEF LinksAgree
  <2>. QED BY <2>1, <2>3 DEF Parents
<1>. QED BY <1>2, <1>3

\* When no particle is reached from itself there is no cycle.
LEMMA EndlessOrAcyclic ==
  ASSUME NEW g \in GraphType, \A p \in LPs : Children(g, p) \subseteq g.lps, ~Endless(g)
  PROVE  Acyclic(g)
<1>. DEFINE children == [p \in LPs |-> Children(g, p)]
            D(x) == Reached(children[x], children)
<1>1. IsFiniteSet(LPs) /\ g.lps \subseteq LPs
  BY ParticlesFinite, GraphTypes
<1>2. IsFiniteSet(DOMAIN children) /\ DOMAIN children = LPs
      /\ \A p \in DOMAIN children : children[p] \subseteq DOMAIN children
  BY <1>1, ChildrenAre
<1>3. \A x \in LPs : /\ children[x] \subseteq LPs /\ children[x] = Children(g, x)
                     /\ children[x] \subseteq g.lps
  BY <1>2
<1>4. \A p \in g.lps : p \notin D(p)
  BY DEF Endless
<1>. HIDE DEF children
<1>5. ASSUME NEW x \in LPs
      PROVE  /\ children[x] \subseteq D(x)
             /\ \A y \in D(x) : children[y] \subseteq D(x)
             /\ \A C : children[x] \subseteq C /\ (\A y \in C \cap LPs : children[y] \subseteq C)
                       => D(x) \subseteq C
  BY <1>2, <1>3, ReachedLeast
<1>. HIDE DEF D
<1>6. \A x \in LPs : \A c \in children[x] : D(c) \subseteq D(x)
  <2>. SUFFICES ASSUME NEW x \in LPs, NEW c \in children[x] PROVE D(c) \subseteq D(x)
    OBVIOUS
  <2>1. c \in LPs /\ c \in D(x)
    BY <1>3, <1>5
  <2>. QED BY <2>1, <1>5
<1>7. ASSUME NEW X \in SUBSET LPs, X # {}, \A x \in X : Children(g, x) \cap X # {}
      PROVE  FALSE
  <2>. DEFINE F == {D(x) \cap X : x \in X}
  <2>1. IsFiniteSet(X) /\ F \subseteq SUBSET X /\ F # {}
    <3>1. IsFiniteSet(X)
      BY <1>1, FS_Subset
    <3>2. F \subseteq SUBSET X
      OBVIOUS
    <3>3. PICK x \in X : TRUE
      BY <1>7
    <3>4. D(x) \cap X \in F
      BY <3>3
    <3>. QED BY <3>1, <3>2, <3>4
  <2>. HIDE DEF F
  <2>2. PICK Y \in F : \A Z \in F : Z \subseteq Y => Z = Y
    BY <2>1, MinimalSet
  <2>3. PICK x \in X : Y = D(x) \cap X
    BY DEF F
  <2>4. PICK c \in X : c \in children[x]
    BY <1>7, <1>3
  <2>5. D(c) \cap X \in F /\ D(c) \cap X \subseteq Y
    BY <2>3, <2>4, <1>6 DEF F
  <2>6. D(c) \cap X = D(x) \cap X
    BY <2>5, <2>2, <2>3
  <2>7. c \in D(x)
    BY <2>4, <1>5
  <2>8. c \in D(c) /\ c \in g.lps
    BY <2>4, <2>6, <2>7, <1>3
  <2>. QED BY <2>8, <1>4
<1>. QED BY <1>7 DEF Acyclic

\* When no lines of descent are mixed the parents come before their children.
LEMMA UnmixedEnds ==
  ASSUME Event, Unmixed, NEW g, LinkGraph(g), Settled(g), g.lps = K
  PROVE  ~Endless(g)
<1>. DEFINE children == [p \in LPs |-> Children(g, p)]
<1>0. K \subseteq Particles /\ Particles \subseteq LPs /\ LPs \subseteq Nat /\ None \notin LPs
      /\ IsFiniteSet(LPs) /\ g \in GraphType /\ K \subseteq LPs
  BY RootsLinked, ParticlesFinite DEF LinkGraph
<1>1. ASSUME NEW x \in LPs, NEW c \in Children(g, x) PROVE c \in LPs /\ x < c
  <2>1. c \in LPs /\ x \in Parents(g, c)
    BY <1>0, ChildrenAre DEF LinkGraph
  <2>2. g.prod[c] # None
    BY <2>1 DEF Parents
  <2>3. c \in Particles
    BY <2>1, <2>2 DEF LinkGraph, FromGenerator
  <2>4. c \in K
    BY <2>2, <2>3 DEF LinkGraph, LinksAgree
  <2>5. Particles \in SUBSET Particles /\ Separate(Particles)
    BY UnmixedSeparate
  <2>6. x \in Nearest(mothers[c])
    BY <2>1, <2>3, <2>4, <2>5, OneOriginParents
  <2>7. x \in AncestorsOf[c]
    BY <2>6, <2>3, AboveIsAncestor DEF Nearest
  <2>. QED BY <2>7, <2>1, <2>3, AncestorsAre
<1>2. DOMAIN children = LPs /\ \A x \in LPs : children[x] = Children(g, x) /\ children[x] \subseteq LPs
  BY <1>1
<1>3. Endless(g) => \E p \in g.lps : p \in Reached(children[p], children)
  BY DEF Endless
<1>. HIDE DEF children
<1>4. ASSUME NEW p \in LPs PROVE p \notin Reached(children[p], children)
  <2>. DEFINE C == {x \in LPs : p < x}
  <2>1. children[p] \subseteq C
    BY <1>1, <1>2
  <2>2. ASSUME NEW x \in C, NEW c \in children[x] PROVE c \in C
    <3>1. x \in LPs /\ p < x /\ c \in Children(g, x)
      BY <2>2, <1>2
    <3>2. c \in LPs /\ x < c
      BY <3>1, <1>1
    <3>. QED BY <3>1, <3>2, <1>0
  <2>3. p \notin C
    BY <1>0
  <2>. HIDE DEF C
  <2>4. Reached(children[p], children) \subseteq C
    <3>1. IsFiniteSet(DOMAIN children) /\ children[p] \subseteq DOMAIN children
          /\ \A x \in DOMAIN children : children[x] \subseteq DOMAIN children
      BY <1>0, <1>2
    <3>. QED BY <3>1, <2>1, <2>2, ReachedLeast
  <2>. QED BY <2>3, <2>4
<1>. QED BY <1>0, <1>3, <1>4

-----------------------------------------------------------------------------
(* Linking: no link is refused. *)

\* The linked particles that leave the vertex V, and the first of them.
Firsts(V) == {d \in K : mothers[d] = V}
First(V) == Least(Firsts(V))

\* Nothing that leaves V is passed over on the way to particles that are kept.
Plain(V) ==
  /\ V \cap K # {}
  /\ \A s \in Particles : mothers[s] = V /\ s \notin kept => Descendants(s) \cap kept = {}

\* How x comes to be called for with the parent q.
Way(x, q) ==
  \/ mothers[x] = EndVertex(q)
  \/ q \in oscillates
  \/ \E d \in Daughters(q) : d \notin kept /\ d \in AncestorsOf[x]

\* A loop calls for the first of them before the others.
OrderFrames(g, l) ==
  \A i \in 1..Len(l) : l[i].parent # None =>
    \A x \in l[i].left :
      /\ Way(x, l[i].parent)
      /\ x \in K /\ Plain(mothers[x])
           => First(mothers[x]) \in l[i].left \/ First(mothers[x]) \in g.ends[l[i].parent]

\* The vertex of a plain vertex of HepMC is the one of its first particle.
OrderGraph(g) ==
  /\ \A v \in Particles : g.prod[v] = v =>
       /\ g.hepmcVtx[v] \cap K # {}
       /\ Plain(g.hepmcVtx[v]) /\ Firsts(g.hepmcVtx[v]) # {} => v = First(g.hepmcVtx[v])
  /\ \A c \in K : Plain(mothers[c]) /\ g.prod[c] # None =>
       g.prod[c] = First(mothers[c]) /\ g.hepmcVtx[g.prod[c]] = mothers[c]

\* The first of the particles that leave the vertex where c begins.
LEMMA FirstIs ==
  ASSUME Event, NEW c \in K
  PROVE  /\ First(mothers[c]) \in K /\ mothers[First(mothers[c])] = mothers[c]
         /\ First(mothers[c]) <= c
         /\ \A V : mothers[c] = V => c \in Firsts(V)
<1>1. c \in Firsts(mothers[c]) /\ Firsts(mothers[c]) \in SUBSET LPs
  BY RootsLinked DEF Firsts
<1>2. First(mothers[c]) \in Firsts(mothers[c]) /\ \A d \in Firsts(mothers[c]) : First(mothers[c]) <= d
  BY <1>1, LeastIs DEF First
<1>. QED BY <1>1, <1>2 DEF Firsts

\* Where no lines are mixed, what is linked and ends where c begins are the
\* parents of c.
LEMMA UnmixedVertex ==
  ASSUME Event, Unmixed, NEW c \in Particles, mothers[c] \cap K # {}
  PROVE  Nearest(mothers[c]) = mothers[c] \cap K
<1>1. mothers[c] \in SUBSET Particles /\ K \subseteq Particles
  BY MothersFirst, RootsLinked
<1>2. Nearest(mothers[c]) = UNION {Nearest({m}) : m \in mothers[c]}
  BY <1>1, NearestUnion
<1>3. \A m \in mothers[c] \cap K : Nearest({m}) = {m}
  BY LinkableIs
<1>4. mothers[c] \cap K \subseteq Nearest(mothers[c])
  BY <1>2, <1>3
<1>5. ASSUME NEW x \in Nearest(mothers[c]) PROVE x \in mothers[c] \cap K
  <2>1. PICK s \in mothers[c] : x \in Nearest({s})
    BY <1>2
  <2>2. CASE s \in K
    BY <2>1, <2>2, <1>3
  <2>3. CASE s \in OscillatedVersions
    <3>1. PICK p \in oscillates : s = HasOscillated(p) /\ p \in Particles
      BY <2>3, OscillatedFrom
    <3>2. \A d \in Daughters(s) : mothers[d] = {s}
      BY <3>1, OscillatedIs
    <3>3. mothers[c] = {s} /\ s \notin K
      BY <3>2, <2>3 DEF Daughters, K
    <3>. QED BY <3>3
  <2>4. CASE s \notin kept
    <3>1. PICK m \in mothers[c] \cap K : TRUE
      OBVIOUS
    <3>2. Linkable(s) \in {Linkable(m), {}}
      BY <3>1, <2>1, <2>4 DEF Unmixed
    <3>3. Linkable(s) = Nearest({s}) /\ Linkable(m) = Nearest({m}) /\ Nearest({m}) = {m}
      BY <3>1, <2>1, <1>1, LinkableIs
    <3>. QED BY <3>1, <3>2, <3>3, <2>1
  <2>. QED BY <2>2, <2>3, <2>4 DEF K
<1>. QED BY <1>4, <1>5

\* c is reached on one line of descent.
Line(c) == AncestorsOf[c] \cup {c}
Lineal(c) == \A q \in Line(c) : Cardinality(mothers[q]) <= 1

\* Where no lines are mixed or doubled the particle that is called for has no other
\* vertex than the one of its parent.
LEMMA NotRefused ==
  ASSUME Event, Unmixed, Undoubled, NEW g, LinkGraph(g), OrderGraph(g),
         NEW x \in K, NEW q, MayLink(x, q), Lineal(x) => g.prod[x] = None
  PROVE  ~Refused(g, x, q)
<1>. SUFFICES ASSUME NEW v \in Found(g, x, q), g.prod[x] \notin {None, v} PROVE FALSE
  BY DEF Refused
<1>1. /\ x \in Particles /\ x \in LPs /\ q \in K /\ q \in LPs /\ q \in Particles
      /\ None \notin LPs /\ g \in GraphType
  BY RootsLinked, ParticlesFinite DEF MayLink, LinkGraph
<1>2. v \in LPs /\ v \in g.ends[q] /\ g.hepmcVtx[v] = mothers[x]
  BY <1>1, GraphTypes DEF Found
<1>3. q \in g.incoming[v] /\ g.prod[v] = v
  BY <1>1, <1>2 DEF LinkGraph, LinksAgree
<1>4. v \in Particles
  BY <1>1, <1>2, <1>3 DEF LinkGraph, FromGenerator
<1>5. mothers[x] \cap K # {}
  BY <1>2, <1>3, <1>4 DEF OrderGraph
<1>6. CASE Plain(mothers[x])
  <2>1. Firsts(mothers[x]) # {}
    BY FirstIs
  <2>2. v = First(mothers[x])
    BY <2>1, <1>2, <1>3, <1>4, <1>6 DEF OrderGraph
  <2>3. g.prod[x] = First(mothers[x])
    BY <1>6 DEF OrderGraph
  <2>. QED BY <2>2, <2>3
<1>7. CASE ~Plain(mothers[x])
  <2>1. PICK s \in Particles : mothers[s] = mothers[x] /\ s \notin kept /\ Descendants(s) \cap kept # {}
    BY <1>5, <1>7 DEF Plain
  <2>2. x \in kept
    BY DEF K
  <2>3. Lineal(x)
    BY <2>1, <2>2, <1>1 DEF Undoubled, Lineal, Line
  <2>. QED BY <2>3
<1>. QED BY <1>6, <1>7

\* What a call does to the order: the vertices ...
LEMMA CalledOrderGraph ==
  ASSUME Event, Unmixed, NEW g, LinkGraph(g), NEW h \in GraphType, NEW l,
         OrderGraph(g), OrderFrames(g, l), 1 \in 1..Len(l),
         NEW x \in l[1].left, x \in Particles, \A y \in l[1].left : x <= y,
         Called(g, h, x, l[1].parent)
  PROVE  OrderGraph(h)
<1>. DEFINE q == l[1].parent
<1>0. /\ K \subseteq Particles /\ Particles \subseteq LPs /\ None \notin LPs /\ LPs \subseteq Nat
      /\ g \in GraphType
  BY RootsLinked, ParticlesFinite DEF LinkGraph
<1>1. PICK g1 \in GraphType :
        /\ \/ (x \notin K \/ q = None) /\ g1 = g
           \/ /\ x \in K /\ q \in K /\ MayLink(x, q)
              /\ \E v \in LPs : Chosen(g, x, q, v) /\ Joined(g, g1, x, q, v)
        /\ SameLinks(g1, h) /\ h.lps = g1.lps \ {HasOscillated(x)}
  BY DEF Called
<1>2. SUFFICES OrderGraph(g1)
  BY <1>1 DEF OrderGraph, SameLinks
<1>3. SUFFICES ASSUME x \in K, q \in K, MayLink(x, q),
                      NEW v \in LPs, Chosen(g, x, q, v), Joined(g, g1, x, q, v)
               PROVE  OrderGraph(g1)
  BY <1>1
<1>4. /\ g1.prod[x] = v /\ \A c \in LPs : c # x => g1.prod[c] = g.prod[c]
      /\ g1.hepmcVtx = IF Found(g, x, q) = {} /\ g.prod[x] = None
                       THEN [g.hepmcVtx EXCEPT ![x] = EndVertex(q)] ELSE g.hepmcVtx
  <2>1. JoinedAt(g, g1, x, q, v)
    BY <1>3 DEF Joined
  <2>2. g.prod \in [LPs -> LPs \cup {None}]
    BY <1>0 DEF GraphType
  <2>. QED BY <2>1, <2>2, <1>0, <1>3 DEF Joined, JoinedAt
<1>5. LinksAgree(g) /\ FromGenerator(g)
  BY DEF LinkGraph
<1>6. /\ v \in Particles
      /\ \/ /\ v \in g.ends[q] /\ q \in g.incoming[v] /\ g.hepmcVtx[v] = mothers[x]
            /\ g.prod[v] = v /\ g.prod[x] \in {None, v} /\ Found(g, x, q) # {}
         \/ Found(g, x, q) = {} /\ g.prod[x] = v /\ g.prod[v] = v /\ v # None
         \/ /\ Found(g, x, q) = {} /\ g.prod[x] = None /\ v = x
            /\ g.incoming[x] = {} /\ \A c \in LPs : g.prod[c] # x
  BY <1>0, <1>3, <1>5, ChosenIs
<1>7. x \in Firsts(mothers[x])
  BY <1>3, FirstIs
<1>. HIDE DEF q
<1>8. CASE /\ v \in g.ends[q] /\ q \in g.incoming[v] /\ g.hepmcVtx[v] = mothers[x]
           /\ g.prod[v] = v /\ g.prod[x] \in {None, v} /\ Found(g, x, q) # {}
  <2>1. g1.hepmcVtx = g.hepmcVtx
    BY <1>4, <1>8
  <2>2. \A w \in Particles : g1.prod[w] = w => g.prod[w] = w
    BY <1>0, <1>4, <1>8
  <2>3. Plain(mothers[x]) => v = First(mothers[x])
    BY <1>6, <1>7, <1>8 DEF OrderGraph
  <2>. QED BY <2>1, <2>2, <2>3, <1>0, <1>4, <1>8 DEF OrderGraph
<1>9. CASE Found(g, x, q) = {} /\ g.prod[x] = v /\ g.prod[v] = v /\ v # None
  <2>1. g1.hepmcVtx = g.hepmcVtx
    BY <1>4, <1>9
  <2>2. \A w \in Particles : g1.prod[w] = g.prod[w]
    BY <1>0, <1>4, <1>9
  <2>. QED BY <2>1, <2>2, <1>0, <1>6 DEF OrderGraph
<1>10. CASE /\ Found(g, x, q) = {} /\ g.prod[x] = None /\ v = x
            /\ g.incoming[x] = {} /\ \A c \in LPs : g.prod[c] # x
  <2>1. g1.hepmcVtx[x] = EndVertex(q) /\ \A w \in LPs : w # x => g1.hepmcVtx[w] = g.hepmcVtx[w]
    <3>1. g.hepmcVtx \in [LPs -> SUBSET Particles]
      BY <1>0 DEF GraphType
    <3>. QED BY <3>1, <1>0, <1>4, <1>10
  <2>2. PICK e \in Daughters(q) : TRUE
    <3>1. q \in Reached(mothers[x], Up)
      BY <1>3 DEF MayLink, Nearest
    <3>2. PICK y \in Above(x) : y \in Particles /\ q \in mothers[y]
      BY <3>1, <1>0, <1>3, WayDown
    <3>. QED BY <3>2 DEF Daughters
  <2>3. q \in Particles /\ q \in EndVertex(q) /\ \A d \in Daughters(q) : mothers[d] = EndVertex(q)
    BY <2>2, <1>0, <1>3, EndVertexIs
  <2>4. Way(x, q)
    BY <1>0, <1>3, ParticlesFinite DEF OrderFrames, q
  <2>5. Plain(EndVertex(q)) /\ Firsts(EndVertex(q)) # {} => x = First(EndVertex(q))
    <3>. SUFFICES ASSUME Plain(EndVertex(q)), Firsts(EndVertex(q)) # {}
                  PROVE  x = First(EndVertex(q))
      OBVIOUS
    <3>1. CASE mothers[x] = EndVertex(q)
      <4>. DEFINE f == First(mothers[x])
      <4>1. f \in K /\ mothers[f] = mothers[x] /\ f <= x
        BY <1>3, FirstIs
      <4>. HIDE DEF f
      <4>2. f \in l[1].left \/ f \in g.ends[q]
        BY <3>1, <1>0, <1>3, ParticlesFinite DEF OrderFrames, q, f
      <4>3. CASE f \in l[1].left
        <5>1. x <= f
          BY <4>3
        <5>. QED BY <5>1, <4>1, <3>1, <1>0, <1>3 DEF f
      <4>4. CASE f \in g.ends[q]
        <5>1. f \in Particles /\ f \in LPs /\ q \in LPs
          BY <4>1, <1>0, <1>3
        <5>2. g.prod[f] = f
          BY <5>1, <4>4, <1>5, <1>0 DEF LinksAgree
        <5>3. g.hepmcVtx[f] = mothers[x]
          BY <5>1, <5>2, <4>1, <3>1, <1>0 DEF OrderGraph
        <5>. QED BY <5>3, <4>4, <1>10 DEF Found
      <4>. QED BY <4>2, <4>3, <4>4
    <3>2. CASE q \in oscillates
      <4>1. PICK d \in K : mothers[d] = EndVertex(q)
        BY DEF Firsts
      <4>2. d \in Daughters(q)
        BY <4>1, <2>3, <1>0 DEF Daughters
      <4>3. d \in OscillatedVersions
        BY <4>2, <3>2, <2>3, OscillatedIs
      <4>. QED BY <4>1, <4>3 DEF K
    <3>3. CASE \E d \in Daughters(q) : d \notin kept /\ d \in AncestorsOf[x]
      <4>1. PICK d \in Daughters(q) : d \notin kept /\ d \in AncestorsOf[x]
        BY <3>3
      <4>2. x \in Descendants(d) \cap kept /\ d \in Particles
        BY <4>1, <1>3, RootsLinked DEF Descendants, Daughters
      <4>. QED BY <4>1, <4>2, <2>3 DEF Plain
    <3>. QED BY <2>4, <3>1, <3>2, <3>3 DEF Way
  <2>6. Plain(mothers[x]) => x = First(mothers[x]) /\ EndVertex(q) = mothers[x]
    <3>. SUFFICES ASSUME Plain(mothers[x]) PROVE x = First(mothers[x]) /\ EndVertex(q) = mothers[x]
      OBVIOUS
    <3>1. Nearest(mothers[x]) = mothers[x] \cap K
      BY UnmixedVertex DEF Plain
    <3>2. q \in mothers[x]
      BY <3>1, <1>3 DEF MayLink
    <3>3. x \in Daughters(q)
      BY <3>2 DEF Daughters
    <3>. QED BY <3>3, <2>3, <2>5, <1>7
  <2>7. ASSUME NEW w \in Particles, g1.prod[w] = w
        PROVE  /\ g1.hepmcVtx[w] \cap K # {}
               /\ Plain(g1.hepmcVtx[w]) /\ Firsts(g1.hepmcVtx[w]) # {} => w = First(g1.hepmcVtx[w])
    <3>1. CASE w = x
      BY <3>1, <2>1, <2>3, <2>5, <1>3
    <3>2. CASE w # x
      BY <3>2, <2>7, <2>1, <1>0, <1>4 DEF OrderGraph
    <3>. QED BY <3>1, <3>2
  <2>8. ASSUME NEW c \in K, Plain(mothers[c]), g1.prod[c] # None
        PROVE  g1.prod[c] = First(mothers[c]) /\ g1.hepmcVtx[g1.prod[c]] = mothers[c]
    <3>1. CASE c = x
      BY <3>1, <2>8, <2>1, <2>6, <1>4, <1>10
    <3>2. CASE c # x
      <4>1. c \in LPs /\ g1.prod[c] = g.prod[c] /\ g.prod[c] # x
        BY <3>2, <1>0, <1>4, <1>10
      <4>2. g.prod[c] \in LPs
        BY <4>1, <2>8, <1>0, GraphTypes
      <4>. QED BY <4>1, <4>2, <2>8, <2>1 DEF OrderGraph
    <3>. QED BY <3>1, <3>2
  <2>. QED BY <2>7, <2>8 DEF OrderGraph
<1>. QED BY <1>6, <1>8, <1>9, <1>10

\* ... and the loops.
LEMMA CalledOrderFrames ==
  ASSUME Event, Unmixed, NEW g, LinkGraph(g), NEW h \in GraphType, NEW l, NEW m,
         OrderGraph(g), OrderFrames(g, l), OrderGraph(h), 1 \in 1..Len(l), Len(l) \in Nat,
         NEW x \in l[1].left, x \in Particles,
         IF l[1].parent = None THEN x \in Roots ELSE MayLink(x, l[1].parent),
         Called(g, h, x, l[1].parent),
         Pushed(l, m, x, Daughters(Last(x)), IF x \in K THEN x ELSE l[1].parent)
  PROVE  OrderFrames(h, m)
<1>. DEFINE q == l[1].parent
            r == IF x \in K THEN x ELSE q
<1>0. /\ K \subseteq Particles /\ Particles \subseteq LPs /\ None \notin LPs /\ LPs \subseteq Nat
      /\ g \in GraphType
  BY RootsLinked, ParticlesFinite DEF LinkGraph
<1>1. /\ m[1].left = Daughters(Last(x)) /\ m[1].parent = r
      /\ m[2].left = l[1].left \ {x} /\ m[2].parent = q
      /\ Len(m) = Len(l) + 1 /\ \A i \in 2..Len(l) : m[i + 1] = l[i]
  BY DEF Pushed
<1>2. /\ x \notin K => x \notin kept /\ x \notin oscillates /\ q # None
      /\ \A d \in Daughters(Last(x)) : MayLink(d, r)
  <2>1. IF q = None THEN x \in Roots ELSE MayLink(x, q)
    OBVIOUS
  <2>. HIDE DEF q
  <2>. QED BY <2>1, CallFor
<1>3. Last(x) \in Particles
  <2>1. HasOscillated(x) = None \/ HasOscillated(x) \in Particles
    BY OscillatedIs
  <2>. QED BY <2>1 DEF Last
<1>4. PICK g1 \in GraphType :
        /\ \/ (x \notin K \/ q = None) /\ g1 = g
           \/ /\ x \in K /\ q \in K /\ MayLink(x, q)
              /\ \E v \in LPs : Chosen(g, x, q, v) /\ Joined(g, g1, x, q, v)
        /\ SameLinks(g1, h)
  BY DEF Called
<1>5. /\ \A p \in LPs : g.ends[p] \subseteq h.ends[p]
      /\ x \in K /\ q # None => q \in K /\ MayLink(x, q) /\ h.prod[x] \in h.ends[q] /\ h.prod[x] # None
  <2>1. CASE (x \notin K \/ q = None) /\ g1 = g
    BY <2>1, <1>4 DEF SameLinks
  <2>2. ASSUME x \in K, q \in K, MayLink(x, q), NEW v \in LPs, JoinedAt(g, g1, x, q, v)
        PROVE  /\ \A p \in LPs : g.ends[p] \subseteq h.ends[p]
               /\ x \in K /\ q # None => q \in K /\ MayLink(x, q) /\ h.prod[x] \in h.ends[q] /\ h.prod[x] # None
    <3>1. g.prod \in [LPs -> LPs \cup {None}] /\ g.ends \in [LPs -> SUBSET LPs]
      BY <1>0 DEF GraphType
    <3>2. h.prod[x] = v /\ h.ends = [g.ends EXCEPT ![q] = @ \cup {v}]
      BY <3>1, <2>2, <1>0, <1>4 DEF JoinedAt, SameLinks
    <3>. QED BY <3>1, <3>2, <2>2, <1>0
  <2>. QED BY <2>1, <2>2, <1>4 DEF Joined
<1>6. ASSUME q # None PROVE Way(x, q) /\ MayLink(x, q) /\ q \in K
  BY <1>6 DEF OrderFrames, MayLink
<1>7. ASSUME q # None
      PROVE  /\ q \in LPs
             /\ x \in K /\ Plain(mothers[x]) /\ First(mothers[x]) = x => x \in h.ends[q]
  <2>1. q \in LPs
    BY <1>0, <1>6, <1>7
  <2>2. ASSUME x \in K, Plain(mothers[x]), First(mothers[x]) = x PROVE x \in h.ends[q]
    <3>1. h.prod[x] # None /\ h.prod[x] \in h.ends[q]
      BY <2>2, <1>5, <1>7
    <3>2. h.prod[x] = First(mothers[x])
      BY <3>1, <2>2 DEF OrderGraph
    <3>. QED BY <3>1, <3>2, <2>2
  <2>. QED BY <2>1, <2>2
<1>8. ASSUME NEW y \in Daughters(Last(x))
      PROVE  Way(y, r) /\ (y \in K => First(mothers[y]) \in Daughters(Last(x)))
  <2>1. y \in Particles /\ Last(x) \in mothers[y]
    BY DEF Daughters
  <2>2. y \in K => First(mothers[y]) \in Daughters(Last(x))
    BY <2>1, <1>0, FirstIs DEF Daughters
  <2>3. CASE x \in oscillates
    <3>1. x \in K
      BY <2>3, OscillatedIs
    <3>. QED BY <3>1, <2>2, <2>3 DEF Way
  <2>4. CASE x \notin oscillates
    <3>1. Last(x) = x
      BY <2>4, OscillatedIs DEF Last
    <3>2. mothers[y] = EndVertex(x)
      BY <3>1, EndVertexIs
    <3>3. CASE x \in K
      BY <3>2, <3>3, <2>2 DEF Way
    <3>4. CASE x \notin K
      <4>1. x \notin kept /\ q # None /\ r = q
        BY <3>4, <1>2
      <4>2. x \in AncestorsOf[y] /\ AncestorsOf[x] \subseteq AncestorsOf[y]
        <5>1. x \in AncestorsOf[y]
          BY <2>1, <3>1, AncestorsAre
        <5>. QED BY <5>1, <2>1, AncestorsAre
      <4>3. CASE mothers[x] = EndVertex(q)
        <5>1. PICK e \in Daughters(q) : TRUE
          <6>1. q \in Reached(mothers[x], Up)
            BY <4>1, <1>6 DEF MayLink, Nearest
          <6>2. PICK z \in Above(x) : z \in Particles /\ q \in mothers[z]
            BY <6>1, WayDown
          <6>. QED BY <6>2 DEF Daughters
        <5>2. q \in mothers[x]
          BY <5>1, <4>1, <4>3, <1>0, <1>6, EndVertexIs
        <5>3. x \in Daughters(q)
          BY <5>2 DEF Daughters
        <5>. QED BY <5>3, <4>1, <4>2, <2>2 DEF Way
      <4>4. CASE q \in oscillates
        BY <4>1, <4>4, <2>2 DEF Way
      <4>5. CASE \E d \in Daughters(q) : d \notin kept /\ d \in AncestorsOf[x]
        BY <4>1, <4>2, <4>5, <2>2 DEF Way
      <4>. QED BY <4>1, <4>3, <4>4, <4>5, <1>6 DEF Way
    <3>. QED BY <3>3, <3>4
  <2>. QED BY <2>3, <2>4
<1>. HIDE DEF q, r
<1>9. ASSUME NEW i \in 1..Len(m), m[i].parent # None, NEW y \in m[i].left
      PROVE  /\ Way(y, m[i].parent)
             /\ y \in K /\ Plain(mothers[y])
                  => First(mothers[y]) \in m[i].left \/ First(mothers[y]) \in h.ends[m[i].parent]
  <2>1. CASE i = 1
    BY <2>1, <1>1, <1>8, <1>9
  <2>2. CASE i = 2
    <3>1. y \in l[1].left /\ q # None
      BY <2>2, <1>1, <1>9
    <3>2. /\ Way(y, q)
          /\ y \in K /\ Plain(mothers[y])
                  => First(mothers[y]) \in l[1].left \/ First(mothers[y]) \in g.ends[q]
      BY <3>1 DEF OrderFrames, q
    <3>3. y \in K /\ First(mothers[y]) = x => mothers[x] = mothers[y] /\ x \in K
      BY FirstIs
    <3>4. y \in K /\ Plain(mothers[y]) /\ First(mothers[y]) = x => x \in h.ends[q]
      BY <3>3, <3>1, <1>7
    <3>. QED BY <3>1, <3>2, <3>4, <2>2, <1>1, <1>5, <1>7
  <2>3. CASE i # 1 /\ i # 2
    <3>1. PICK j \in 2..Len(l) : i = j + 1
      <4>1. i \in 3..(Len(l) + 1)
        BY <2>3, <1>1
      <4>2. i - 1 \in 2..Len(l) /\ i = (i - 1) + 1
        BY <4>1
      <4>. QED BY <4>2
    <3>2. m[i] = l[j] /\ j \in 1..Len(l)
      BY <3>1, <1>1
    <3>3. /\ Way(y, l[j].parent)
          /\ y \in K /\ Plain(mothers[y])
                  => First(mothers[y]) \in l[j].left \/ First(mothers[y]) \in g.ends[l[j].parent]
      BY <3>2, <1>9 DEF OrderFrames
    <3>4. l[j].parent \in LPs
      <4>1. m \in Seq(Frame)
        BY DEF Pushed
      <4>2. m[i] \in Frame
        BY <4>1, <1>9
      <4>. QED BY <4>2, <3>2, <1>9 DEF Frame
    <3>. QED BY <3>2, <3>3, <3>4, <1>5
  <2>. QED BY <2>1, <2>2, <2>3
<1>. QED BY <1>9 DEF OrderFrames

-----------------------------------------------------------------------------
(* Linking: a particle on one line of descent is called for once. *)

\* Two members of a set of one are the same.
LEMMA AtMostOne ==
  ASSUME NEW S, IsFiniteSet(S), Cardinality(S) <= 1, NEW x \in S, NEW y \in S
  PROVE  x = y
<1>. SUFFICES ASSUME x # y PROVE FALSE
  OBVIOUS
<1>1. Cardinality({x, y}) <= Cardinality(S) /\ Cardinality(S) \in Nat
  <2>1. {x, y} \subseteq S
    OBVIOUS
  <2>. QED BY <2>1, FS_Subset, FS_CardinalityType
<1>2. Cardinality({x}) = 1 /\ IsFiniteSet({x})
  BY FS_Singleton
<1>3. Cardinality({x} \cup {y}) = 2
  <2>1. y \notin {x}
    OBVIOUS
  <2>2. Cardinality({x} \cup {y}) = IF y \in {x} THEN Cardinality({x}) ELSE Cardinality({x}) + 1
    BY <1>2, FS_AddElement, Zenon
  <2>. QED BY <2>1, <2>2, <1>2
<1>4. {x} \cup {y} = {x, y}
  OBVIOUS
<1>. QED BY <1>1, <1>3, <1>4

\* An ancestor of a is one of its mothers or an ancestor of one.
LEMMA AncestorVia ==
  ASSUME Event, NEW a \in Particles, NEW y \in AncestorsOf[a]
  PROVE  \E m \in mothers[a] : m \in Particles /\ (y = m \/ y \in AncestorsOf[m])
<1>. DEFINE C == {z \in Particles : \E m \in mothers[a] : m \in Particles /\ (z = m \/ z \in AncestorsOf[m])}
<1>1. mothers[a] \subseteq C
  BY MothersFirst
<1>2. \A z \in C \cap Particles : mothers[z] \subseteq C
  BY MothersFirst, AncestorsAre
<1>. HIDE DEF C
<1>3. AncestorsOf[a] \subseteq C
  BY <1>1, <1>2, AncestorsAre
<1>. QED BY <1>3 DEF C

\* Of two particles of a line one is the ancestor of the other.
LEMMA LineOrdered ==
  ASSUME Event, NEW c \in Particles, Lineal(c), NEW x \in Line(c), NEW y \in Line(c)
  PROVE  x = y \/ x \in AncestorsOf[y] \/ y \in AncestorsOf[x]
<1>. DEFINE D == {a \in AncestorsOf[c] : a = y \/ a \in AncestorsOf[y] \/ y \in AncestorsOf[a]}
<1>1. Line(c) \subseteq Particles
  BY AncestorsAre DEF Line
<1>2. ASSUME NEW a \in Line(c), a = y \/ a \in AncestorsOf[y] \/ y \in AncestorsOf[a],
             NEW m \in mothers[a]
      PROVE  m \in D
  <2>1. m \in AncestorsOf[c]
    BY <1>1, AncestorsAre DEF Line
  <2>2. CASE a = y \/ a \in AncestorsOf[y]
    BY <2>1, <2>2, <1>1, AncestorsAre
  <2>3. CASE y \in AncestorsOf[a]
    <3>1. PICK b \in mothers[a] : y = b \/ y \in AncestorsOf[b]
      BY <2>3, <1>1, AncestorVia
    <3>2. IsFiniteSet(mothers[a]) /\ Cardinality(mothers[a]) <= 1
      BY <1>1, MothersFirst, ParticlesFinite, FS_Subset DEF Lineal
    <3>3. m = b
      BY <3>2, AtMostOne
    <3>. QED BY <3>1, <3>3, <2>1
  <2>. QED BY <1>2, <2>2, <2>3
<1>3. mothers[c] \subseteq D
  BY <1>2 DEF Line
<1>4. \A a \in D \cap Particles : mothers[a] \subseteq D
  BY <1>2 DEF Line
<1>. HIDE DEF D
<1>5. AncestorsOf[c] \subseteq D
  BY <1>3, <1>4, AncestorsAre
<1>. QED BY <1>5 DEF D, Line

\* One daughter at most lies on the line.
LEMMA DaughterOnLine ==
  ASSUME Event, NEW c \in Particles, Lineal(c), NEW y \in Particles,
         NEW a \in Daughters(y) \cap Line(c), NEW b \in Daughters(y) \cap Line(c)
  PROVE  a = b
<1>1. /\ a \in Particles /\ b \in Particles /\ y \in mothers[a] /\ y \in mothers[b]
      /\ Generated \in Nat /\ a \in Nat /\ b \in Nat /\ y \in Nat
  BY ParticlesFinite DEF Daughters, Particles
<1>2. ASSUME NEW u \in Daughters(y) \cap Line(c), NEW w \in Daughters(y) \cap Line(c),
             u \in AncestorsOf[w]
      PROVE  FALSE
  <2>1. /\ u \in Particles /\ w \in Particles /\ y \in mothers[u] /\ y \in mothers[w]
        /\ u \in Nat /\ w \in Nat
    BY ParticlesFinite DEF Daughters, Particles
  <2>2. PICK m \in mothers[w] : u = m \/ u \in AncestorsOf[m]
    BY <1>2, <2>1, AncestorVia
  <2>3. m = y
    <3>1. IsFiniteSet(mothers[w]) /\ Cardinality(mothers[w]) <= 1
      BY <2>1, MothersFirst, ParticlesFinite, FS_Subset DEF Lineal
    <3>. QED BY <3>1, <2>1, AtMostOne
  <2>4. y < u
    BY <2>1, MothersFirst
  <2>5. u = y \/ u < y
    BY <2>2, <2>3, AncestorsAre
  <2>. QED BY <2>1, <2>4, <2>5, <1>1
<1>3. a \in Line(c) /\ b \in Line(c)
  OBVIOUS
<1>. QED BY <1>2, <1>3, LineOrdered

\* Of a line one particle at most is to be called for, and then the last of the
\* line has not been.
Once(g, l) ==
  \A c \in K : Lineal(c) =>
    /\ \A i, j \in 1..Len(l) : \A x \in l[i].left \cap Line(c), y \in l[j].left \cap Line(c) :
         i = j /\ x = y
    /\ \A i \in 1..Len(l) : l[i].left \cap Line(c) # {} => g.prod[c] = None

\* A call takes its particle from the line for good.
LEMMA CalledOnce ==
  ASSUME Event, NEW g, g \in GraphType, NEW h \in GraphType, NEW l, NEW m, Once(g, l),
         1 \in 1..Len(l), Len(l) \in Nat,
         NEW x \in l[1].left, x \in Particles, NEW q,
         Called(g, h, x, q), NEW r, Pushed(l, m, x, Daughters(Last(x)), r)
  PROVE  Once(h, m)
<1>. SUFFICES ASSUME NEW c \in K, Lineal(c)
              PROVE  /\ \A i, j \in 1..Len(m) :
                          \A y \in m[i].left \cap Line(c), z \in m[j].left \cap Line(c) :
                            i = j /\ y = z
                     /\ \A i \in 1..Len(m) : m[i].left \cap Line(c) # {} => h.prod[c] = None
  BY DEF Once
<1>0. /\ K \subseteq Particles /\ Particles \subseteq LPs /\ None \notin LPs /\ LPs \subseteq Nat
      /\ c \in Particles /\ c \in LPs /\ Line(c) \subseteq Particles
  BY RootsLinked, ParticlesFinite, AncestorsAre DEF Line
<1>1. /\ \A i, j \in 1..Len(l) :
            \A y \in l[i].left \cap Line(c), z \in l[j].left \cap Line(c) : i = j /\ y = z
      /\ \A i \in 1..Len(l) : l[i].left \cap Line(c) # {} => g.prod[c] = None
  BY DEF Once
<1>2. h.prod[c] = g.prod[c] \/ c = x
  <2>1. PICK g1 \in GraphType :
          /\ g1 = g \/ \E v \in LPs : Joined(g, g1, x, q, v)
          /\ SameLinks(g1, h)
    BY DEF Called
  <2>2. g.prod \in [LPs -> LPs \cup {None}]
    BY DEF GraphType
  <2>3. ASSUME NEW v \in LPs, JoinedAt(g, g1, x, q, v), c # x PROVE g1.prod[c] = g.prod[c]
    BY <2>2, <2>3, <1>0 DEF JoinedAt
  <2>. QED BY <2>1, <2>3 DEF SameLinks, Joined
<1>3. Last(x) \in Particles /\ (Last(x) = x \/ x \in mothers[Last(x)])
  <2>1. HasOscillated(x) = None \/ (HasOscillated(x) \in Particles /\ mothers[HasOscillated(x)] = {x})
    BY OscillatedIs
  <2>. QED BY <2>1 DEF Last
<1>4. ASSUME NEW i \in 1..Len(m), NEW y \in m[i].left \cap Line(c)
      PROVE  \/ i = 1 /\ y \in Daughters(Last(x)) \cap Line(c) /\ x \in AncestorsOf[c]
             \/ i \in 2..Len(m) /\ i - 1 \in 1..Len(l) /\ y \in l[i - 1].left \cap Line(c)
                /\ (i - 1 = 1 => y # x)
  <2>1. CASE i = 1
    <3>1. y \in Daughters(Last(x)) \cap Line(c)
      BY <2>1 DEF Pushed
    <3>2. y \in Particles /\ Last(x) \in mothers[y]
      BY <3>1 DEF Daughters
    <3>3. Last(x) \in AncestorsOf[c]
      BY <3>1, <3>2, <1>0, AncestorsAre DEF Line
    <3>. QED BY <2>1, <3>1, <3>3, <1>0, <1>3, AncestorsAre
  <2>2. CASE i = 2
    BY <2>2 DEF Pushed
  <2>3. CASE i # 1 /\ i # 2
    <3>1. i \in 3..(Len(l) + 1)
      BY <2>3 DEF Pushed
    <3>2. i - 1 \in 2..Len(l) /\ i = (i - 1) + 1
      BY <3>1
    <3>3. m[i] = l[i - 1]
      BY <3>2 DEF Pushed
    <3>. QED BY <3>1, <3>2, <3>3 DEF Pushed
  <2>. QED BY <2>1, <2>2, <2>3
<1>5. ASSUME NEW i \in 1..Len(m), NEW j \in 1..Len(m), NEW y \in m[i].left \cap Line(c),
             NEW z \in m[j].left \cap Line(c), i = 1, j # 1
      PROVE  FALSE
  <2>1. x \in AncestorsOf[c] /\ x \in l[1].left \cap Line(c)
    BY <1>4, <1>5 DEF Line
  <2>2. j - 1 \in 1..Len(l) /\ z \in l[j - 1].left \cap Line(c) /\ (j - 1 = 1 => z # x)
    BY <1>4, <1>5
  <2>3. j - 1 = 1 /\ z = x
    BY <2>1, <2>2, <1>1
  <2>. QED BY <2>2, <2>3
<1>6. ASSUME NEW i \in 1..Len(m), NEW j \in 1..Len(m), NEW y \in m[i].left \cap Line(c),
             NEW z \in m[j].left \cap Line(c)
      PROVE  i = j /\ y = z
  <2>1. CASE i = 1 /\ j = 1
    <3>1. y \in Daughters(Last(x)) \cap Line(c) /\ z \in Daughters(Last(x)) \cap Line(c)
      BY <2>1, <1>4
    <3>. QED BY <2>1, <3>1, <1>0, <1>3, DaughterOnLine
  <2>2. CASE i # 1 /\ j # 1
    <3>1. /\ i - 1 \in 1..Len(l) /\ y \in l[i - 1].left \cap Line(c)
          /\ j - 1 \in 1..Len(l) /\ z \in l[j - 1].left \cap Line(c)
          /\ i \in 2..Len(m) /\ j \in 2..Len(m)
      BY <2>2, <1>4
    <3>2. i - 1 = j - 1 /\ y = z
      BY <3>1, <1>1
    <3>. QED BY <3>1, <3>2
  <2>. QED BY <2>1, <2>2, <1>5
<1>7. ASSUME NEW i \in 1..Len(m), m[i].left \cap Line(c) # {} PROVE h.prod[c] = None
  <2>1. PICK y \in m[i].left \cap Line(c) : TRUE
    BY <1>7
  <2>2. CASE i = 1
    <3>1. x \in AncestorsOf[c] /\ x \in l[1].left \cap Line(c)
      BY <2>1, <2>2, <1>4 DEF Line
    <3>2. g.prod[c] = None
      BY <3>1, <1>1
    <3>3. x < c /\ x \in Nat /\ c \in Nat
      BY <3>1, <1>0, AncestorsAre
    <3>. QED BY <3>2, <3>3, <1>2
  <2>3. CASE i # 1
    <3>1. i - 1 \in 1..Len(l) /\ y \in l[i - 1].left \cap Line(c) /\ (i - 1 = 1 => y # x)
      BY <2>1, <2>3, <1>4
    <3>2. g.prod[c] = None
      BY <3>1, <1>1
    <3>3. c # x
      <4>1. ASSUME c = x PROVE FALSE
        <5>1. x \in l[1].left \cap Line(c)
          BY <4>1 DEF Line
        <5>2. i - 1 = 1 /\ y = x
          BY <5>1, <3>1, <1>1
        <5>. QED BY <5>2, <3>1
      <4>. QED BY <4>1
    <3>. QED BY <3>2, <3>3, <1>2
  <2>. QED BY <2>2, <2>3
<1>. QED BY <1>6, <1>7

\* A loop that has ended.
LEMMA ReturnOrder ==
  ASSUME NEW g, NEW l \in Seq(Frame), l # <<>>
  PROVE  /\ OrderFrames(g, l) => OrderFrames(g, Tail(l))
         /\ Once(g, l) => Once(g, Tail(l))
<1>1. /\ Len(Tail(l)) = Len(l) - 1 /\ Len(l) \in Nat
      /\ \A i \in 1..(Len(l) - 1) : Tail(l)[i] = l[i + 1]
  BY TailLoops
<1>2. \A i \in 1..Len(Tail(l)) : i + 1 \in 1..Len(l) /\ Tail(l)[i] = l[i + 1]
  BY <1>1
<1>3. OrderFrames(g, l) => OrderFrames(g, Tail(l))
  BY <1>2 DEF OrderFrames
<1>4. ASSUME Once(g, l), NEW c \in K, Lineal(c),
             NEW i \in 1..Len(Tail(l)), NEW j \in 1..Len(Tail(l)),
             NEW x \in Tail(l)[i].left \cap Line(c), NEW y \in Tail(l)[j].left \cap Line(c)
      PROVE  i = j /\ x = y /\ g.prod[c] = None
  <2>1. /\ i + 1 \in 1..Len(l) /\ x \in l[i + 1].left \cap Line(c)
        /\ j + 1 \in 1..Len(l) /\ y \in l[j + 1].left \cap Line(c)
    BY <1>2, <1>4
  <2>2. i + 1 = j + 1 /\ x = y /\ g.prod[c] = None
    BY <2>1, <1>4 DEF Once
  <2>. QED BY <2>2
<1>5. Once(g, l) => Once(g, Tail(l))
  BY <1>4 DEF Once
<1>. QED BY <1>3, <1>5

\* Nothing has been called for at the beginning.
LEMMA OrderBegins ==
  ASSUME Event
  PROVE  /\ OrderGraph(Unlinked) /\ OrderFrames(Unlinked, Enter(Roots, None))
         /\ Once(Unlinked, Enter(Roots, None))
<1>0. K \subseteq LPs /\ Particles \subseteq LPs /\ None \notin LPs /\ K \subseteq Particles /\ Roots \subseteq kept
  BY RootsLinked, ParticlesFinite DEF Roots
<1>1. \A c \in LPs : Unlinked.prod[c] = None
  BY DEF Unlinked
<1>2. OrderGraph(Unlinked)
  BY <1>0, <1>1 DEF OrderGraph
<1>3. /\ Len(Enter(Roots, None)) = 1 /\ Enter(Roots, None)[1].left = Roots
      /\ Enter(Roots, None)[1].parent = None
  BY InEnter
<1>4. OrderFrames(Unlinked, Enter(Roots, None))
  BY <1>3 DEF OrderFrames
<1>5. ASSUME NEW c \in K, Lineal(c), NEW x \in Roots \cap Line(c), NEW y \in Roots \cap Line(c)
      PROVE  x = y
  <2>1. x = y \/ x \in AncestorsOf[y] \/ y \in AncestorsOf[x]
    BY <1>0, <1>5, LineOrdered
  <2>. QED BY <2>1, <1>0 DEF Roots
<1>6. Once(Unlinked, Enter(Roots, None))
  BY <1>0, <1>1, <1>3, <1>5 DEF Once
<1>. QED BY <1>2, <1>4, <1>6

-----------------------------------------------------------------------------
(* The HepMC event does not change. *)

Any(S) == CHOOSE d \in S : TRUE

\* What is said of the event, ...
LEMMA SameEvent ==
  ASSUME UNCHANGED hepmc
  PROVE  /\ \A p : Daughters(p)' = Daughters(p)
         /\ \A p : EndVertex(p)' = EndVertex(p)
         /\ \A p : HasOscillated(p)' = HasOscillated(p)
         /\ \A p : Last(p)' = Last(p)
         /\ OscillatedVersions' = OscillatedVersions
         /\ AncestorsOf' = AncestorsOf
         /\ \A p : Descendants(p)' = Descendants(p)
         /\ \A p : ForGeant4(p)' <=> ForGeant4(p)
         /\ Roots' = Roots
         /\ Event' <=> Event
<1>0. mothers' = mothers /\ kept' = kept /\ travels' = travels /\ oscillates' = oscillates
  BY DEF hepmc
<1>1. \A p : Daughters(p)' = Daughters(p)
  BY <1>0 DEF Daughters
<1>2. \A p : EndVertex(p)' = EndVertex(p)
  <2>1. \A p : EndVertex(p) = IF Daughters(p) = {} THEN NoVertex ELSE mothers[Any(Daughters(p))]
    BY DEF EndVertex, Any
  <2>2. \A p : EndVertex(p)' = IF Daughters(p)' = {} THEN NoVertex ELSE mothers'[Any(Daughters(p)')]
    BY DEF EndVertex, Any
  <2>. QED BY <2>1, <2>2, <1>0, <1>1
<1>3. \A p : HasOscillated(p)' = HasOscillated(p)
  <2>1. \A p : HasOscillated(p) = IF p \in oscillates THEN Any(Daughters(p)) ELSE None
    BY DEF HasOscillated, Any
  <2>2. \A p : HasOscillated(p)' = IF p \in oscillates' THEN Any(Daughters(p)') ELSE None
    BY DEF HasOscillated, Any
  <2>. QED BY <2>1, <2>2, <1>0, <1>1
<1>4. \A p : Last(p)' = Last(p)
  BY <1>3 DEF Last
<1>5. OscillatedVersions' = OscillatedVersions
  BY <1>0, <1>3 DEF OscillatedVersions
<1>6. AncestorsOf' = AncestorsOf
  BY <1>0 DEF AncestorsOf
<1>7. \A p : Descendants(p)' = Descendants(p)
  BY <1>6 DEF Descendants
<1>8. \A p : ForGeant4(p)' <=> ForGeant4(p)
  BY <1>0, <1>1 DEF ForGeant4
<1>9. Roots' = Roots
  BY <1>0, <1>6 DEF Roots
<1>10. Event' <=> Event
  <2>1. \A p : MayTravel(p)' <=> MayTravel(p)
    BY <1>0, <1>1, <1>7 DEF MayTravel
  <2>2. \A p : MayOscillate(p)' <=> MayOscillate(p)
    BY <1>1, <1>2 DEF MayOscillate
  <2>3. {p \in kept : MayTravel(p)}' = {p \in kept : MayTravel(p)}
    BY <2>1, <1>0
  <2>4. {p \in kept : MayOscillate(p)}' = {p \in kept : MayOscillate(p)}
    BY <2>2, <1>0
  <2>. QED BY <2>3, <2>4, <1>0, <1>5 DEF Event
<1>. QED BY <1>1, <1>2, <1>3, <1>4, <1>5, <1>6, <1>7, <1>8, <1>9, <1>10

\* ... of the way up in it, ...
LEMMA SameWays ==
  ASSUME UNCHANGED hepmc
  PROVE  /\ K' = K /\ Up' = Up
         /\ \A V : Nearest(V)' = Nearest(V)
         /\ \A c : Above(c)' = Above(c)
         /\ \A W : Separate(W)' <=> Separate(W)
         /\ \A p : LinkableMothers(p)' = LinkableMothers(p)
         /\ Unmixed' <=> Unmixed
         /\ Undoubled' <=> Undoubled
<1>0. mothers' = mothers /\ kept' = kept
  BY DEF hepmc
<1>1. K' = K
  BY <1>0, SameEvent DEF K
<1>2. Up' = Up
  BY <1>0, <1>1 DEF Up
<1>3. \A V : Nearest(V)' = Nearest(V)
  BY <1>1, <1>2 DEF Nearest
<1>4. \A c : Above(c)' = Above(c)
  BY <1>0, <1>1, <1>2 DEF Above
<1>5. \A W : Separate(W)' <=> Separate(W)
  BY <1>0, <1>3, SameEvent DEF Separate
<1>6. \A p : LinkableMothers(p)' = LinkableMothers(p)
  <2>1. \A p : LinkableMothers(p) = Reached(mothers[p], Up) \cap K
    BY DEF LinkableMothers, Up, K
  <2>2. \A p : LinkableMothers(p)' = Reached(mothers'[p], Up') \cap K'
    BY DEF LinkableMothers, Up, K
  <2>. QED BY <2>1, <2>2, <1>0, <1>1, <1>2
<1>7. \A p : Linkable(p)' = Linkable(p)
  BY <1>0, <1>6, SameEvent DEF Linkable
<1>8. Unmixed' <=> Unmixed
  BY <1>0, <1>7 DEF Unmixed
<1>9. Undoubled' <=> Undoubled
  BY <1>0, SameEvent DEF Undoubled
<1>. QED BY <1>1, <1>2, <1>3, <1>4, <1>5, <1>6, <1>8, <1>9

\* ... of links, ...
LEMMA SameGraphs ==
  ASSUME UNCHANGED hepmc
  PROVE  /\ \A g : LinksAgree(g)' <=> LinksAgree(g)
         /\ \A g : LinkGraph(g)' <=> LinkGraph(g)
         /\ \A g : OrderGraph(g)' <=> OrderGraph(g)
         /\ \A g : Settled(g)' <=> Settled(g)
         /\ Unlinked' = Unlinked
<1>0. mothers' = mothers /\ kept' = kept
  BY DEF hepmc
<1>1. \A g : LinksAgree(g)' <=> LinksAgree(g)
  BY <1>0, SameWays DEF LinksAgree
<1>2. \A g, W : OneOrigin(g, W)' <=> OneOrigin(g, W)
  BY <1>0, SameWays, SameEvent DEF OneOrigin
<1>3. \A g : RootsFree(g)' <=> RootsFree(g)
  BY <1>0, SameWays DEF RootsFree
<1>4. \A g : LinkGraph(g)' <=> LinkGraph(g)
  BY <1>1, <1>2, <1>3, SameWays DEF LinkGraph
<1>5. \A g : Settled(g)' <=> Settled(g)
  BY <1>0, <1>1, <1>2, SameWays DEF Settled
<1>6. \A V : Firsts(V)' = Firsts(V)
  BY <1>0, SameWays DEF Firsts
<1>7. \A V : First(V)' = First(V)
  BY <1>6 DEF First
<1>8. \A V : Plain(V)' <=> Plain(V)
  BY <1>0, SameWays, SameEvent DEF Plain
<1>9. \A g : OrderGraph(g)' <=> OrderGraph(g)
  BY <1>0, <1>6, <1>7, <1>8, SameWays DEF OrderGraph
<1>10. Unlinked' = Unlinked
  BY <1>0 DEF Unlinked
<1>. QED BY <1>1, <1>4, <1>5, <1>9, <1>10

\* ... and of the loops.
LEMMA SameLoops ==
  ASSUME UNCHANGED hepmc
  PROVE  /\ \A l : LinkFrames(l)' <=> LinkFrames(l)
         /\ \A g, l : Complete(g, l)' <=> Complete(g, l)
         /\ \A g, l : OscillatedLeft(g, l)' <=> OscillatedLeft(g, l)
         /\ \A g, l : OrderFrames(g, l)' <=> OrderFrames(g, l)
         /\ \A g, l : Once(g, l)' <=> Once(g, l)
<1>0. mothers' = mothers /\ kept' = kept /\ oscillates' = oscillates
  BY DEF hepmc
<1>1. \A l, x : Pending(l, x)' <=> Pending(l, x)
  BY SameEvent DEF Pending
<1>2. \A y, q : MayLink(y, q)' <=> MayLink(y, q)
  BY <1>0, SameEvent, SameWays DEF MayLink
<1>3. \A l : LinkFrames(l)' <=> LinkFrames(l)
  BY <1>2, SameEvent DEF LinkFrames
<1>4. \A g, l : Complete(g, l)' <=> Complete(g, l)
  BY <1>0, <1>1, SameWays DEF Complete
<1>5. \A g, l : OscillatedLeft(g, l)' <=> OscillatedLeft(g, l)
  BY <1>0, <1>1, SameEvent DEF OscillatedLeft
<1>6. \A V : First(V)' = First(V)
  <2>1. \A V : Firsts(V)' = Firsts(V)
    BY <1>0, SameWays DEF Firsts
  <2>. QED BY <2>1 DEF First
<1>7. \A V : Plain(V)' <=> Plain(V)
  BY <1>0, SameWays, SameEvent DEF Plain
<1>8. \A x, q : Way(x, q)' <=> Way(x, q)
  BY <1>0, SameEvent DEF Way
<1>9. \A g, l : OrderFrames(g, l)' <=> OrderFrames(g, l)
  BY <1>0, <1>6, <1>7, <1>8, SameWays DEF OrderFrames
<1>10. \A c : Line(c)' = Line(c) /\ (Lineal(c)' <=> Lineal(c))
  <2>1. \A c : Line(c)' = Line(c)
    BY SameEvent DEF Line
  <2>. QED BY <2>1, <1>0 DEF Lineal
<1>11. \A g, l : Once(g, l)' <=> Once(g, l)
  BY <1>10, SameWays DEF Once
<1>. QED BY <1>3, <1>4, <1>5, <1>9, <1>11

-----------------------------------------------------------------------------
(* The graph after linking: what grows and what goes keeps its structure. *)

\* The two ends of a link of what is there agree.
LinksKnown(g) ==
  /\ \A v \in LPs : g.outgoing[v] \subseteq g.lps /\ \A c \in g.outgoing[v] : g.prod[c] = v
  /\ \A x \in g.lps : \A v \in g.ends[x] : x \in g.incoming[v]

\* Every particle is a root or the child of an earlier one.
Rooted(g) == \A c \in g.lps : c \in Roots \/ \E p \in g.lps : p < c /\ c \in Children(g, p)

\* A graph in which VerifyStructure finds nothing.
Structure(g) == g \in GraphType /\ Acyclic(g) /\ LinksKnown(g) /\ Rooted(g)

\* Nothing is known of the tracks to come.
Fresh(g, n) ==
  \A k \in LPs : k >= n => k \notin g.lps /\ k \notin g.truth /\ g.prod[k] = None /\ g.ends[k] = {}

Grown(g, n) ==
  /\ Settled(g) /\ Structure(g) /\ Fresh(g, n)
  /\ g.truth \subseteq g.lps /\ g.primaries \subseteq K

\* A particle that is not a root has a linked particle above it.
LEMMA NearestAbove ==
  ASSUME Event, NEW c \in K, c \notin Roots
  PROVE  Nearest(mothers[c]) # {}
<1>. SUFFICES ASSUME Nearest(mothers[c]) = {} PROVE FALSE
  OBVIOUS
<1>0. c \in Particles /\ c \in kept /\ K \subseteq Particles /\ mothers[c] \in SUBSET Particles
  BY RootsLinked, MothersFirst DEF K
<1>1. PICK a \in AncestorsOf[c] : a \in kept
  BY <1>0 DEF Roots
<1>2. PICK b \in AncestorsOf[c] : b \in K
  <2>1. CASE a \in OscillatedVersions
    <3>1. PICK p \in oscillates : a = HasOscillated(p) /\ p \in Particles
      BY <2>1, OscillatedFrom
    <3>2. p \in K /\ mothers[a] = {p}
      BY <3>1, OscillatedIs
    <3>. QED BY <3>2, <1>0, <1>1, AncestorsAre
  <2>. QED BY <2>1, <1>1 DEF K
<1>3. AncestorsOf[c] \subseteq Reached(mothers[c], Up)
  <2>1. \A x \in Reached(mothers[c], Up) : x \notin K
    BY DEF Nearest
  <2>2. mothers[c] \subseteq Reached(mothers[c], Up)
        /\ \A x \in Reached(mothers[c], Up) : x \notin K => mothers[x] \subseteq Reached(mothers[c], Up)
    BY <1>0, UpIs
  <2>. QED BY <2>1, <2>2, <1>0, AncestorsAre
<1>. QED BY <1>2, <1>3 DEF Nearest

\* The graph that linking makes.
LEMMA LinkedGrown ==
  ASSUME Event, NEW g, LinkGraph(g), Settled(g), g.lps = K, ~Endless(g)
  PROVE  Grown(g, Generated + 1)
<1>0. /\ K \subseteq Particles /\ Particles \subseteq LPs /\ LPs \subseteq Nat /\ None \notin LPs
      /\ g \in GraphType /\ K \subseteq LPs /\ LinksAgree(g) /\ FromGenerator(g)
  BY RootsLinked, ParticlesFinite DEF LinkGraph
<1>1. \A x \in LPs : \A c \in Children(g, x) : c \in K
  <2>. SUFFICES ASSUME NEW x \in LPs, NEW c \in Children(g, x) PROVE c \in K
    OBVIOUS
  <2>1. c \in LPs /\ x \in Parents(g, c)
    BY <1>0, ChildrenAre
  <2>2. g.prod[c] # None
    BY <2>1 DEF Parents
  <2>3. c \in Particles
    BY <2>1, <2>2, <1>0 DEF FromGenerator
  <2>. QED BY <2>2, <2>3, <1>0 DEF LinksAgree
<1>2. Acyclic(g)
  BY <1>0, <1>1, EndlessOrAcyclic
<1>3. LinksKnown(g)
  <2>1. ASSUME NEW v \in LPs, NEW c \in g.outgoing[v] PROVE c \in g.lps /\ g.prod[c] = v
    <3>1. c \in LPs
      BY <1>0, GraphTypes
    <3>2. g.prod[c] = v
      BY <3>1, <1>0, <2>1 DEF LinksAgree
    <3>3. c \in Particles
      BY <3>1, <3>2, <1>0 DEF FromGenerator
    <3>4. c \in K
      BY <3>2, <3>3, <1>0 DEF LinksAgree
    <3>. QED BY <3>2, <3>4
  <2>2. ASSUME NEW x \in g.lps, NEW v \in g.ends[x] PROVE x \in g.incoming[v]
    <3>1. x \in LPs /\ v \in LPs
      BY <1>0, <2>2, GraphTypes
    <3>. QED BY <3>1, <2>2, <1>0 DEF LinksAgree
  <2>. QED BY <2>1, <2>2 DEF LinksKnown
<1>4. Rooted(g)
  <2>. SUFFICES ASSUME NEW c \in K, c \notin Roots
                PROVE  \E p \in K : p < c /\ c \in Children(g, p)
    BY DEF Rooted
  <2>1. PICK p \in Nearest(mothers[c]) : TRUE
    BY NearestAbove
  <2>2. p \in K /\ p \in Parents(g, c) /\ p \in Reached(mothers[c], Up)
    BY <2>1 DEF Settled, Nearest
  <2>3. p < c
    BY <2>2, <1>0, AboveIsAncestor, AncestorsAre
  <2>. QED BY <2>2, <2>3, <1>0, ChildrenAre
<1>5. Fresh(g, Generated + 1)
  <2>. SUFFICES ASSUME NEW k \in LPs, k >= Generated + 1
                PROVE  k \notin g.lps /\ k \notin g.truth /\ g.prod[k] = None /\ g.ends[k] = {}
    BY DEF Fresh
  <2>1. k \notin Particles /\ k \notin K
    BY <1>0, ParticlesFinite DEF Particles
  <2>2. g.prod[k] = None
    BY <2>1, <1>0 DEF FromGenerator
  <2>3. ASSUME NEW v \in g.ends[k] PROVE FALSE
    <3>1. v \in LPs /\ k \in g.incoming[v]
      BY <2>3, <1>0, GraphTypes DEF LinksAgree
    <3>2. g.prod[v] = v
      BY <3>1, <1>0 DEF LinksAgree
    <3>3. v \in Particles
      BY <3>1, <3>2, <1>0 DEF FromGenerator
    <3>. QED BY <3>1, <3>3, <2>1, <1>0 DEF LinksAgree
  <2>. QED BY <2>1, <2>2, <2>3 DEF LinkGraph
<1>. QED BY <1>0, <1>2, <1>3, <1>4, <1>5 DEF Grown, Structure, LinkGraph

\* Only the links count.
LEMMA SameStructure ==
  ASSUME NEW g, NEW h \in GraphType, h.lps = g.lps, h.prod = g.prod, h.ends = g.ends,
         h.incoming = g.incoming, h.outgoing = g.outgoing, h.hepmcVtx = g.hepmcVtx
  PROVE  /\ Structure(g) => Structure(h)
         /\ Settled(g) => Settled(h)
<1>1. \A x : Children(h, x) = Children(g, x) /\ Parents(h, x) = Parents(g, x)
  BY DEF Children, Parents
<1>2. Structure(g) => Structure(h)
  BY <1>1 DEF Structure, Acyclic, LinksKnown, Rooted
<1>3. LinksAgree(g) => LinksAgree(h)
  BY DEF LinksAgree
<1>4. \A W : OneOrigin(g, W) => OneOrigin(h, W)
  BY DEF OneOrigin
<1>5. Settled(g) => Settled(h)
  BY <1>1, <1>3, <1>4 DEF Settled
<1>. QED BY <1>2, <1>5

\* A track that Geant4 made is a new leaf.
DeclaredAs(g, h, n, p, v) ==
  h = JoinVertex([g EXCEPT !.lps = @ \cup {n}, !.truth = @ \cup {n}], n, p, v)

\* What changes with a track of Geant4.
LEMMA DeclaredEffect ==
  ASSUME NEW g \in GraphType, NEW n \in LPs, NEW p \in LPs, NEW v \in LPs, NEW h,
         DeclaredAs(g, h, n, p, v)
  PROVE  /\ h \in GraphType
         /\ h.lps = g.lps \cup {n} /\ h.truth = g.truth \cup {n}
         /\ h.primaries = g.primaries /\ h.mother = g.mother
         /\ h.failed = g.failed /\ h.stale = g.stale /\ h.hepmcVtx = g.hepmcVtx
         /\ h.prod[n] = v /\ \A x \in LPs : x # n => h.prod[x] = g.prod[x]
         /\ \A x, w \in LPs : w \in h.ends[x] <=> w \in g.ends[x] \/ (x = p /\ w = v)
         /\ \A x, w \in LPs : x \in h.incoming[w] <=> x \in g.incoming[w] \/ (x = p /\ w = v)
         /\ \A x, w \in LPs : x \in h.outgoing[w] <=> x \in g.outgoing[w] \/ (x = n /\ w = v)
<1>. DEFINE g0 == [g EXCEPT !.lps = @ \cup {n}, !.truth = @ \cup {n}]
<1>1. /\ g0 \in GraphType
      /\ g0.lps = g.lps \cup {n} /\ g0.truth = g.truth \cup {n}
      /\ g0.prod = g.prod /\ g0.ends = g.ends /\ g0.incoming = g.incoming /\ g0.outgoing = g.outgoing
      /\ g0.hepmcVtx = g.hepmcVtx /\ g0.primaries = g.primaries /\ g0.mother = g.mother
      /\ g0.failed = g.failed /\ g0.stale = g.stale
  BY DEF GraphType
<1>2. h = JoinVertex(g0, n, p, v)
  BY DEF DeclaredAs
<1>. HIDE DEF g0
<1>3. h \in GraphType /\ JoinedAt(g0, h, n, p, v) /\ h.hepmcVtx = g0.hepmcVtx
  <2>1. g0 \in GraphType
    BY <1>1
  <2>2. /\ JoinVertex(g0, n, p, v) \in GraphType
        /\ JoinedAt(g0, JoinVertex(g0, n, p, v), n, p, v)
        /\ JoinVertex(g0, n, p, v).hepmcVtx = g0.hepmcVtx
    BY <2>1, JoinVertexEffect
  <2>. QED BY <2>2, <1>2
<1>4. /\ h.prod[n] = v /\ \A x \in LPs : x # n => h.prod[x] = g0.prod[x]
      /\ \A x, w \in LPs : w \in h.ends[x] <=> w \in g0.ends[x] \/ (x = p /\ w = v)
      /\ \A x, w \in LPs : x \in h.incoming[w] <=> x \in g0.incoming[w] \/ (x = p /\ w = v)
      /\ \A x, w \in LPs : x \in h.outgoing[w] <=> x \in g0.outgoing[w] \/ (x = n /\ w = v)
      /\ h.lps = g0.lps /\ h.primaries = g0.primaries /\ h.truth = g0.truth
      /\ h.mother = g0.mother /\ h.failed = g0.failed /\ h.stale = g0.stale
  <2>1. g0 \in GraphType /\ h \in GraphType /\ JoinedAt(g0, h, n, p, v)
    BY <1>1, <1>3
  <2>. QED BY <2>1, JoinedAtIs
<1>5. /\ h.lps = g.lps \cup {n} /\ h.truth = g.truth \cup {n}
      /\ h.primaries = g.primaries /\ h.mother = g.mother
      /\ h.failed = g.failed /\ h.stale = g.stale /\ h.hepmcVtx = g.hepmcVtx
  BY <1>1, <1>3, <1>4, Zenon
<1>6. g0.prod = g.prod /\ g0.ends = g.ends /\ g0.incoming = g.incoming /\ g0.outgoing = g.outgoing
  BY <1>1
<1>7. /\ h.prod[n] = v /\ \A x \in LPs : x # n => h.prod[x] = g.prod[x]
      /\ \A x, w \in LPs : w \in h.ends[x] <=> w \in g.ends[x] \/ (x = p /\ w = v)
      /\ \A x, w \in LPs : x \in h.incoming[w] <=> x \in g.incoming[w] \/ (x = p /\ w = v)
      /\ \A x, w \in LPs : x \in h.outgoing[w] <=> x \in g.outgoing[w] \/ (x = n /\ w = v)
  BY <1>4, <1>6, Zenon
<1>. QED BY <1>3, <1>5, <1>7, Zenon

\* The graph keeps its structure with it.
LEMMA DeclaredGrown ==
  ASSUME Event, NEW g, NEW n, Grown(g, n), n \in LPs, n >= Generated + 1,
         NEW p \in g.truth, NEW v \in {w \in g.ends[p] : w > Generated} \cup {n},
         NEW h, DeclaredAs(g, h, n, p, v)
  PROVE  Grown(h, n + 1)
<1>0. /\ K \subseteq Particles /\ Particles \subseteq LPs /\ LPs \subseteq Nat /\ None \notin LPs
      /\ g \in GraphType /\ LinksAgree(g) /\ n \notin Particles /\ n \in Nat /\ Generated \in Nat
  BY RootsLinked, ParticlesFinite DEF Grown, Structure, Settled, Particles
<1>1. /\ p \in LPs /\ p \in g.lps /\ p < n /\ p # n
      /\ n \notin g.lps /\ n \notin g.truth /\ g.prod[n] = None /\ g.ends[n] = {}
  <2>1. n >= n /\ p \in LPs /\ p \in g.lps
    BY <1>0, GraphTypes DEF Grown
  <2>2. ~(p >= n)
    BY <2>1 DEF Grown, Fresh
  <2>. QED BY <2>1, <2>2, <1>0 DEF Grown, Fresh
<1>2. /\ v \in LPs /\ v \notin Particles
      /\ v = n \/ (v # n /\ v \in g.ends[p] /\ p \in g.incoming[v] /\ g.prod[v] = v)
  <2>1. CASE v = n
    BY <2>1, <1>0
  <2>2. CASE v # n /\ v \in g.ends[p] /\ v > Generated
    <3>1. v \in LPs /\ v \in Nat
      BY <2>2, <1>0, <1>1, GraphTypes
    <3>2. v \notin Particles
      BY <3>1, <2>2, <1>0 DEF Particles
    <3>3. p \in g.incoming[v]
      BY <3>1, <2>2, <1>0, <1>1 DEF LinksAgree
    <3>4. g.prod[v] = v
      BY <3>1, <3>3, <1>0 DEF LinksAgree
    <3>. QED BY <3>1, <3>2, <3>3, <3>4, <2>2
  <2>3. v = n \/ (v \in g.ends[p] /\ v > Generated)
    OBVIOUS
  <2>. QED BY <2>1, <2>2, <2>3
<1>20. g \in GraphType /\ n \in LPs /\ p \in LPs /\ v \in LPs /\ DeclaredAs(g, h, n, p, v)
  BY <1>0, <1>1, <1>2
<1>3. /\ h \in GraphType
      /\ h.lps = g.lps \cup {n} /\ h.truth = g.truth \cup {n}
      /\ h.primaries = g.primaries /\ h.hepmcVtx = g.hepmcVtx
      /\ h.prod[n] = v /\ \A x \in LPs : x # n => h.prod[x] = g.prod[x]
  BY <1>0, <1>1, <1>2, DeclaredEffect
<1>4. /\ \A x, w \in LPs : w \in h.ends[x] <=> w \in g.ends[x] \/ (x = p /\ w = v)
      /\ \A x, w \in LPs : x \in h.incoming[w] <=> x \in g.incoming[w] \/ (x = p /\ w = v)
      /\ \A x, w \in LPs : x \in h.outgoing[w] <=> x \in g.outgoing[w] \/ (x = n /\ w = v)
  BY <1>20, DeclaredEffect
<1>5. \A x \in LPs : /\ g.ends[x] \subseteq LPs /\ g.incoming[x] \subseteq LPs /\ g.outgoing[x] \subseteq LPs
                     /\ h.ends[x] \subseteq LPs /\ h.incoming[x] \subseteq LPs /\ h.outgoing[x] \subseteq LPs
                     /\ g.prod[x] \in LPs \cup {None}
  BY <1>0, <1>3, GraphTypes
<1>6. \A x \in LPs : g.prod[x] # n /\ n \notin g.incoming[x] /\ n \notin g.outgoing[x] /\ n \notin g.ends[x]
  <2>. SUFFICES ASSUME NEW x \in LPs
                PROVE  g.prod[x] # n /\ n \notin g.incoming[x] /\ n \notin g.outgoing[x] /\ n \notin g.ends[x]
    OBVIOUS
  <2>1. g.prod[x] # n
    BY <1>0, <1>1 DEF LinksAgree
  <2>2. n \notin g.incoming[x] /\ n \notin g.outgoing[x]
    BY <1>0, <1>1 DEF LinksAgree
  <2>3. ASSUME n \in g.ends[x] PROVE FALSE
    <3>1. x \in g.incoming[n]
      BY <2>3, <1>0 DEF LinksAgree
    <3>2. g.prod[n] = n
      BY <3>1, <1>0 DEF LinksAgree
    <3>. QED BY <3>2, <1>0, <1>1
  <2>. QED BY <2>1, <2>2, <2>3
<1>7. LinksAgree(h)
  <2>1. K \subseteq h.lps /\ h.lps \cap Particles \subseteq kept
    BY <1>0, <1>3 DEF LinksAgree
  <2>2. \A c \in Particles : h.prod[c] \in Particles \cup {None} /\ (h.prod[c] # None => c \in K)
    BY <1>0, <1>3 DEF LinksAgree
  <2>3. \A c \in LPs : h.prod[c] # None => h.prod[h.prod[c]] = h.prod[c]
    <3>. SUFFICES ASSUME NEW c \in LPs, h.prod[c] # None PROVE h.prod[h.prod[c]] = h.prod[c]
      OBVIOUS
    <3>1. CASE c = n
      BY <3>1, <1>2, <1>3
    <3>2. CASE c # n
      <4>1. h.prod[c] = g.prod[c] /\ g.prod[c] \in LPs /\ g.prod[c] # n
        BY <3>2, <1>3, <1>5, <1>6
      <4>2. g.prod[g.prod[c]] = g.prod[c]
        BY <4>1, <3>2, <1>0, <1>3 DEF LinksAgree
      <4>. QED BY <4>1, <4>2, <1>3
    <3>. QED BY <3>1, <3>2
  <2>4. \A c, w \in LPs : c \in h.outgoing[w] <=> h.prod[c] = w
    <3>. SUFFICES ASSUME NEW c \in LPs, NEW w \in LPs PROVE c \in h.outgoing[w] <=> h.prod[c] = w
      OBVIOUS
    <3>1. c \in g.outgoing[w] <=> g.prod[c] = w
      BY <1>0 DEF LinksAgree
    <3>. QED BY <3>1, <1>0, <1>1, <1>3, <1>4
  <2>5. \A m, w \in LPs : w \in h.ends[m] <=> m \in h.incoming[w]
    BY <1>0, <1>4 DEF LinksAgree
  <2>6. \A w \in Particles : h.incoming[w] \subseteq K
    <3>. SUFFICES ASSUME NEW w \in Particles, NEW x \in h.incoming[w] PROVE x \in K
      OBVIOUS
    <3>1. x \in LPs /\ w \in LPs
      BY <1>0, <1>5
    <3>2. x \in g.incoming[w]
      BY <3>1, <1>2, <1>4
    <3>. QED BY <3>2, <1>0 DEF LinksAgree
  <2>7. \A w \in LPs : h.incoming[w] # {} => h.prod[w] = w
    <3>. SUFFICES ASSUME NEW w \in LPs, NEW x \in h.incoming[w] PROVE h.prod[w] = w
      OBVIOUS
    <3>1. x \in g.incoming[w] \/ w = v
      BY <1>4, <1>5
    <3>2. CASE x \in g.incoming[w] /\ w # n
      BY <3>2, <1>0, <1>3 DEF LinksAgree
    <3>3. CASE x \in g.incoming[w] /\ w = n
      BY <3>3, <1>0, <1>1 DEF LinksAgree
    <3>4. CASE w = v
      BY <3>4, <1>2, <1>3
    <3>. QED BY <3>1, <3>2, <3>3, <3>4
  <2>. QED BY <2>1, <2>2, <2>3, <2>4, <2>5, <2>6, <2>7 DEF LinksAgree
<1>8. Settled(h)
  <2>1. h.lps \cap Particles = K
    BY <1>0, <1>3 DEF Grown, Settled
  <2>2. \A w \in Particles : h.incoming[w] = g.incoming[w] /\ w # n /\ h.prod[w] = g.prod[w]
    <3>. SUFFICES ASSUME NEW w \in Particles
                  PROVE  h.incoming[w] = g.incoming[w] /\ w # n /\ h.prod[w] = g.prod[w]
      OBVIOUS
    <3>0. w \in LPs /\ w # n /\ w # v
      BY <1>0, <1>2
    <3>1. \A x \in LPs : x \in h.incoming[w] <=> x \in g.incoming[w]
      BY <3>0, <1>4
    <3>2. g.incoming[w] \subseteq LPs /\ h.incoming[w] \subseteq LPs
      BY <3>0, <1>5
    <3>. QED BY <3>0, <3>1, <3>2, <1>3
  <2>3. ASSUME NEW W \in SUBSET Particles, Separate(W) PROVE OneOrigin(h, W)
    <3>1. OneOrigin(g, W)
      BY <2>3 DEF Grown, Settled
    <3>. QED BY <3>1, <2>2, <1>3 DEF OneOrigin
  <2>4. ASSUME NEW c \in K PROVE Nearest(mothers[c]) \subseteq Parents(h, c)
    <3>1. Nearest(mothers[c]) \subseteq Parents(g, c) /\ c \in Particles
      BY <1>0 DEF Grown, Settled
    <3>2. g.prod[c] = None \/ g.prod[c] \in Particles
      BY <3>1, <1>0 DEF LinksAgree
    <3>3. Parents(h, c) = Parents(g, c)
      BY <3>1, <3>2, <2>2 DEF Parents
    <3>. QED BY <3>1, <3>3
  <2>. QED BY <1>3, <1>7, <2>1, <2>3, <2>4 DEF Settled
<1>9. ASSUME NEW x \in LPs
      PROVE  /\ Children(g, x) \subseteq Children(h, x) /\ Children(h, x) \subseteq Children(g, x) \cup {n}
             /\ Children(h, n) = {}
  <2>1. \A y \in LPs : /\ Children(g, y) \subseteq LPs /\ Children(h, y) \subseteq LPs
                       /\ \A c \in LPs : /\ c \in Children(g, y) <=> y \in Parents(g, c)
                                         /\ c \in Children(h, y) <=> y \in Parents(h, c)
    BY <1>0, <1>3, <1>7, ChildrenAre
  <2>2. ASSUME NEW c \in LPs, c # n, NEW y \in LPs PROVE y \in Parents(h, c) <=> y \in Parents(g, c) \/ (g.prod[c] = v /\ y = p)
    <3>1. h.prod[c] = g.prod[c]
      BY <2>2, <1>3
    <3>2. CASE g.prod[c] = None
      BY <3>1, <3>2, <1>0, <1>2 DEF Parents
    <3>3. CASE g.prod[c] # None
      <4>1. g.prod[c] \in LPs
        BY <3>3, <2>2, <1>5
      <4>2. Parents(h, c) = h.incoming[g.prod[c]] /\ Parents(g, c) = g.incoming[g.prod[c]]
        BY <3>1, <3>3 DEF Parents
      <4>. QED BY <4>1, <4>2, <2>2, <1>4
    <3>. QED BY <3>2, <3>3
  <2>3. ASSUME NEW c \in LPs, g.prod[c] = v PROVE p \in Parents(g, c)
    BY <2>3, <1>0, <1>2, <1>6 DEF Parents
  <2>4. Children(h, n) = {}
    <3>1. ASSUME NEW c \in LPs, n \in Parents(h, c) PROVE FALSE
      <4>1. h.prod[c] \in LPs /\ n \in h.incoming[h.prod[c]]
        BY <3>1, <1>2, <1>3, <1>5 DEF Parents
      <4>. QED BY <4>1, <1>0, <1>1, <1>4, <1>6
    <3>. QED BY <3>1, <2>1, <1>0
  <2>5. \A c \in LPs : c \in Children(g, x) => c \in Children(h, x)
    <3>. SUFFICES ASSUME NEW c \in LPs, c \in Children(g, x) PROVE c \in Children(h, x)
      OBVIOUS
    <3>1. x \in Parents(g, c)
      BY <2>1
    <3>2. c # n
      BY <3>1, <1>1 DEF Parents
    <3>. QED BY <3>1, <3>2, <2>1, <2>2
  <2>6. \A c \in LPs : c \in Children(h, x) => c \in Children(g, x) \/ c = n
    <3>. SUFFICES ASSUME NEW c \in LPs, c \in Children(h, x), c # n PROVE c \in Children(g, x)
      OBVIOUS
    <3>1. x \in Parents(h, c)
      BY <2>1
    <3>2. x \in Parents(g, c)
      BY <3>1, <2>2, <2>3
    <3>. QED BY <3>2, <2>1
  <2>7. Children(g, x) \subseteq LPs /\ Children(h, x) \subseteq LPs
    BY <2>1
  <2>. QED BY <2>4, <2>5, <2>6, <2>7
<1>10. Acyclic(h)
  <2>. SUFFICES ASSUME NEW X \in SUBSET LPs, X # {} PROVE \E x \in X : Children(h, x) \cap X = {}
    BY DEF Acyclic
  <2>1. CASE n \in X
    BY <2>1, <1>9, <1>0
  <2>2. CASE n \notin X
    <3>1. PICK x \in X : Children(g, x) \cap X = {}
      BY DEF Grown, Structure, Acyclic
    <3>2. Children(h, x) \subseteq Children(g, x) \cup {n}
      BY <1>9
    <3>. QED BY <3>1, <3>2, <2>2
  <2>. QED BY <2>1, <2>2
<1>11. LinksKnown(h)
  <2>1. ASSUME NEW w \in LPs, NEW c \in h.outgoing[w] PROVE c \in h.lps /\ h.prod[c] = w
    <3>1. c \in LPs /\ h.prod[c] = w
      BY <2>1, <1>5, <1>7 DEF LinksAgree
    <3>2. c \in g.outgoing[w] \/ c = n
      BY <3>1, <2>1, <1>4
    <3>3. c \in g.outgoing[w] => c \in g.lps
      BY DEF Grown, Structure, LinksKnown
    <3>. QED BY <3>1, <3>2, <3>3, <1>3
  <2>2. ASSUME NEW x \in h.lps, NEW w \in h.ends[x] PROVE x \in h.incoming[w]
    <3>1. x \in LPs /\ w \in LPs
      BY <2>2, <1>3, <1>5, GraphTypes
    <3>. QED BY <3>1, <2>2, <1>7 DEF LinksAgree
  <2>. QED BY <2>1, <2>2 DEF LinksKnown
<1>12. Rooted(h)
  <2>. SUFFICES ASSUME NEW c \in h.lps, c \notin Roots
                PROVE  \E x \in h.lps : x < c /\ c \in Children(h, x)
    BY DEF Rooted
  <2>1. CASE c = n
    <3>1. p \in Parents(h, n)
      BY <1>0, <1>1, <1>2, <1>3, <1>4 DEF Parents
    <3>2. n \in Children(h, p)
      BY <3>1, <1>1, <1>3, <1>7, ChildrenAre
    <3>. QED BY <2>1, <3>2, <1>1, <1>3
  <2>2. CASE c \in g.lps
    <3>1. PICK x \in g.lps : x < c /\ c \in Children(g, x)
      BY <2>2 DEF Grown, Structure, Rooted
    <3>2. x \in LPs
      BY <1>0, GraphTypes
    <3>. QED BY <3>1, <3>2, <1>3, <1>9
  <2>. QED BY <2>1, <2>2, <1>3
<1>13. Fresh(h, n + 1)
  <2>. SUFFICES ASSUME NEW k \in LPs, k >= n + 1
                PROVE  k \notin h.lps /\ k \notin h.truth /\ h.prod[k] = None /\ h.ends[k] = {}
    BY DEF Fresh
  <2>1. k \in Nat /\ k >= n /\ k # n /\ k # p
    <3>1. k \in Nat /\ n \in Nat /\ p \in Nat /\ p < n
      BY <1>0, <1>1
    <3>. QED BY <3>1
  <2>2. k \notin g.lps /\ k \notin g.truth /\ g.prod[k] = None /\ g.ends[k] = {}
    BY <2>1 DEF Grown, Fresh
  <2>. QED BY <2>1, <2>2, <1>3, <1>4, <1>5
<1>14. h.truth \subseteq h.lps /\ h.primaries \subseteq K
  BY <1>3 DEF Grown
<1>. QED BY <1>3, <1>8, <1>10, <1>11, <1>12, <1>13, <1>14 DEF Grown, Structure

\* A particle without children is erased.
LEMMA EraseEffect ==
  ASSUME NEW g \in GraphType, NEW p \in LPs
  PROVE  LET h == EraseLinkedParticle(g, p)
         IN  /\ h \in GraphType
             /\ h.lps = g.lps \ {p} /\ h.prod = g.prod
             /\ h.outgoing = [v \in LPs |-> g.outgoing[v] \ {p}]
             /\ h.incoming = [v \in LPs |-> g.incoming[v] \ {p}]
             /\ h.primaries = g.primaries /\ h.truth = g.truth /\ h.mother = g.mother
             /\ h.failed = g.failed
             /\ h.stale = (g.stale \/ p \notin g.lps \/ Children(g, p) # {})
             /\ \A x \in LPs : /\ h.ends[x] \subseteq g.ends[x]
                               /\ \A v \in g.ends[x] : v \in h.ends[x] \/ h.outgoing[v] = {}
<1>. DEFINE d == Delete(g, p)
            v0 == g.prod[p]
            empty == v0 # None /\ d.outgoing[v0] = {}
            ends == [m \in LPs |-> IF empty /\ m \in d.incoming[v0] THEN d.ends[m] \ {v0} ELSE d.ends[m]]
            stale == d.stale \/ p \notin g.lps \/ Children(g, p) # {}
            h == EraseLinkedParticle(g, p)
<1>1. /\ d \in GraphType
      /\ d.lps = g.lps \ {p}
      /\ d.outgoing = [v \in LPs |-> g.outgoing[v] \ {p}]
      /\ d.incoming = [v \in LPs |-> g.incoming[v] \ {p}]
      /\ d.prod = g.prod /\ d.ends = g.ends /\ d.hepmcVtx = g.hepmcVtx
      /\ d.primaries = g.primaries /\ d.truth = g.truth
      /\ d.mother = g.mother /\ d.failed = g.failed /\ d.stale = g.stale
  BY DeleteEffect
<1>2. h = [d EXCEPT !.stale = stale, !.ends = ends]
  BY DEF EraseLinkedParticle
<1>. HIDE DEF d
<1>3. ends \in [LPs -> SUBSET LPs] /\ stale \in BOOLEAN
  <2>1. d.ends \in [LPs -> SUBSET LPs] /\ d.stale \in BOOLEAN
    BY <1>1 DEF GraphType
  <2>2. \A m \in LPs : ends[m] \subseteq LPs
    BY <2>1
  <2>. QED BY <2>1, <2>2
<1>4. \A x \in LPs : /\ ends[x] \subseteq g.ends[x]
                     /\ \A v \in g.ends[x] : v \in ends[x] \/ d.outgoing[v] = {}
  BY <1>1
<1>. HIDE DEF ends, stale, h
<1>5. /\ h \in GraphType /\ h.ends = ends /\ h.stale = stale
      /\ h.lps = d.lps /\ h.prod = d.prod /\ h.outgoing = d.outgoing /\ h.incoming = d.incoming
      /\ h.primaries = d.primaries /\ h.truth = d.truth /\ h.mother = d.mother /\ h.failed = d.failed
  BY <1>1, <1>2, <1>3 DEF GraphType
<1>6. /\ h \in GraphType
      /\ h.lps = g.lps \ {p} /\ h.prod = g.prod
      /\ h.outgoing = [v \in LPs |-> g.outgoing[v] \ {p}]
      /\ h.incoming = [v \in LPs |-> g.incoming[v] \ {p}]
      /\ h.primaries = g.primaries /\ h.truth = g.truth /\ h.mother = g.mother
      /\ h.failed = g.failed
  BY <1>1, <1>5
<1>7. h.stale = (g.stale \/ p \notin g.lps \/ Children(g, p) # {})
  BY <1>1, <1>5 DEF stale
<1>8. \A x \in LPs : /\ h.ends[x] \subseteq g.ends[x]
                     /\ \A v \in g.ends[x] : v \in h.ends[x] \/ h.outgoing[v] = {}
  BY <1>4, <1>5
<1>. QED BY <1>6, <1>7, <1>8 DEF h

\* What EraseLinkedParticle leaves alone.
LEMMA ErasedSame ==
  ASSUME NEW g \in GraphType, NEW p \in LPs
  PROVE  /\ EraseLinkedParticle(g, p).failed = g.failed
         /\ EraseLinkedParticle(g, p).primaries = g.primaries
         /\ EraseLinkedParticle(g, p).truth = g.truth
         /\ EraseLinkedParticle(g, p).mother = g.mother
         /\ EraseLinkedParticle(g, p).lps = g.lps \ {p}
         /\ EraseLinkedParticle(g, p).stale = (g.stale \/ p \notin g.lps \/ Children(g, p) # {})
<1>. DEFINE h == EraseLinkedParticle(g, p)
<1>1. /\ h \in GraphType
      /\ h.lps = g.lps \ {p} /\ h.prod = g.prod
      /\ h.outgoing = [v \in LPs |-> g.outgoing[v] \ {p}]
      /\ h.incoming = [v \in LPs |-> g.incoming[v] \ {p}]
      /\ h.primaries = g.primaries /\ h.truth = g.truth /\ h.mother = g.mother
      /\ h.failed = g.failed
      /\ h.stale = (g.stale \/ p \notin g.lps \/ Children(g, p) # {})
  BY EraseEffect
<1>. QED BY <1>1

\* The others keep their children.
LEMMA ErasedChildren ==
  ASSUME NEW g \in GraphType, NEW p \in LPs
  PROVE  \A x \in LPs : Children(EraseLinkedParticle(g, p), x) = Children(g, x) \ {p}
<1>. DEFINE h == EraseLinkedParticle(g, p)
<1>1. /\ h.outgoing = [v \in LPs |-> g.outgoing[v] \ {p}]
      /\ \A x \in LPs : h.ends[x] \subseteq g.ends[x]
      /\ \A x \in LPs : \A v \in g.ends[x] : v \in h.ends[x] \/ h.outgoing[v] = {}
  <2>1. /\ h \in GraphType
        /\ h.lps = g.lps \ {p} /\ h.prod = g.prod
        /\ h.outgoing = [v \in LPs |-> g.outgoing[v] \ {p}]
        /\ h.incoming = [v \in LPs |-> g.incoming[v] \ {p}]
    BY EraseEffect
  <2>2. \A x \in LPs : h.ends[x] \subseteq g.ends[x]
    BY EraseEffect
  <2>3. \A x \in LPs : \A v \in g.ends[x] : v \in h.ends[x] \/ h.outgoing[v] = {}
    BY EraseEffect
  <2>. QED BY <2>1, <2>2, <2>3
<1>2. \A x \in LPs : g.ends[x] \subseteq LPs
  BY GraphTypes
<1>. HIDE DEF h
<1>3. ASSUME NEW x \in LPs PROVE Children(h, x) = Children(g, x) \ {p}
  <2>1. ASSUME NEW c PROVE c \in Children(h, x) <=> \E v \in h.ends[x] : c \in h.outgoing[v]
    BY DEF Children
  <2>2. ASSUME NEW c PROVE c \in Children(g, x) <=> \E v \in g.ends[x] : c \in g.outgoing[v]
    BY DEF Children
  <2>3. \A v \in LPs : h.outgoing[v] = g.outgoing[v] \ {p}
    BY <1>1
  <2>4. ASSUME NEW c \in Children(h, x) PROVE c \in Children(g, x) \ {p}
    BY <2>1, <2>2, <2>3, <2>4, <1>1, <1>2
  <2>5. ASSUME NEW c \in Children(g, x) \ {p} PROVE c \in Children(h, x)
    <3>1. PICK v \in g.ends[x] : c \in g.outgoing[v]
      BY <2>2
    <3>2. v \in LPs /\ c \in h.outgoing[v]
      BY <3>1, <2>3, <2>5, <1>2
    <3>3. v \in h.ends[x]
      BY <3>2, <1>1
    <3>. QED BY <3>2, <3>3, <2>1
  <2>. QED BY <2>4, <2>5
<1>. QED BY <1>3 DEF h

\* A leaf can be erased without harm to the structure.
LEMMA ErasedStructure ==
  ASSUME NEW g, Structure(g), NEW p \in LPs, Children(g, p) = {}
  PROVE  Structure(EraseLinkedParticle(g, p))
<1>. DEFINE h == EraseLinkedParticle(g, p)
<1>0. g \in GraphType /\ g.lps \subseteq LPs
  BY GraphTypes DEF Structure
<1>1. /\ h \in GraphType
      /\ h.lps = g.lps \ {p} /\ h.prod = g.prod
      /\ h.outgoing = [v \in LPs |-> g.outgoing[v] \ {p}]
      /\ h.incoming = [v \in LPs |-> g.incoming[v] \ {p}]
      /\ \A x \in LPs : h.ends[x] \subseteq g.ends[x]
  BY <1>0, EraseEffect
<1>2. \A x \in LPs : Children(h, x) = Children(g, x) \ {p}
  BY <1>0, ErasedChildren
<1>. HIDE DEF h
<1>3. Acyclic(h)
  <2>. SUFFICES ASSUME NEW X \in SUBSET LPs, X # {} PROVE \E x \in X : Children(h, x) \cap X = {}
    BY DEF Acyclic
  <2>1. PICK x \in X : Children(g, x) \cap X = {}
    BY DEF Structure, Acyclic
  <2>. QED BY <2>1, <1>2
<1>4. LinksKnown(h)
  <2>1. ASSUME NEW v \in LPs PROVE h.outgoing[v] \subseteq h.lps /\ \A c \in h.outgoing[v] : h.prod[c] = v
    BY <1>1 DEF Structure, LinksKnown
  <2>2. ASSUME NEW x \in h.lps, NEW v \in h.ends[x] PROVE x \in h.incoming[v]
    <3>1. x \in g.lps /\ x # p /\ x \in LPs
      BY <1>0, <1>1
    <3>2. v \in g.ends[x] /\ v \in LPs
      BY <3>1, <1>0, <1>1, GraphTypes
    <3>3. x \in g.incoming[v]
      BY <3>1, <3>2 DEF Structure, LinksKnown
    <3>. QED BY <3>1, <3>2, <3>3, <1>1
  <2>. QED BY <2>1, <2>2 DEF LinksKnown
<1>5. Rooted(h)
  <2>. SUFFICES ASSUME NEW c \in h.lps, c \notin Roots
                PROVE  \E x \in h.lps : x < c /\ c \in Children(h, x)
    BY DEF Rooted
  <2>1. c \in g.lps /\ c # p
    BY <1>1
  <2>2. PICK x \in g.lps : x < c /\ c \in Children(g, x)
    BY <2>1 DEF Structure, Rooted
  <2>3. x # p /\ x \in LPs
    BY <2>2, <1>0
  <2>. QED BY <2>1, <2>2, <2>3, <1>1, <1>2
<1>. QED BY <1>1, <1>3, <1>4, <1>5 DEF Structure, h

-----------------------------------------------------------------------------
(* Linking: what holds between two calls. *)

\* The graph and the loops between two calls.
Linking(g, l) ==
  /\ LinkGraph(g) /\ LinkFrames(l) /\ Complete(g, l) /\ OscillatedLeft(g, l)
  /\ Unmixed /\ Undoubled => OrderGraph(g) /\ OrderFrames(g, l) /\ Once(g, l)

\* A call of child_converter ...
LEMMA LinkingCall ==
  ASSUME Event, NEW g, NEW l \in Seq(Frame), Linking(g, l), l # <<>>,
         NEW x \in l[1].left, \A y \in l[1].left : x <= y
  PROVE  LET q == l[1].parent
             h == Linked(g, x, q)
             m == Push(l, x, Daughters(Last(x)), NewParent(g, x, q))
         IN  /\ h \in GraphType /\ m \in Seq(Frame)
             /\ Unmixed /\ Undoubled => ~h.failed
             /\ ~h.failed => Linking(h, m)
<1>. DEFINE q == l[1].parent
            r == IF x \in K THEN x ELSE q
            S == Daughters(Last(x))
            h == Linked(g, x, q)
            m == Push(l, x, S, r)
<1>0. /\ K \subseteq Particles /\ Particles \subseteq LPs /\ None \notin LPs /\ LPs \subseteq Nat
      /\ g \in GraphType /\ LinkGraph(g) /\ LinkFrames(l) /\ Complete(g, l) /\ OscillatedLeft(g, l)
  BY RootsLinked, ParticlesFinite DEF Linking, LinkGraph
<1>1. 1 \in 1..Len(l) /\ Len(l) \in Nat /\ l[1] \in Frame
  BY LessLoops
<1>2. InFrame(l, x, q)
  BY <1>1 DEF InFrame
<1>3. IF q = None THEN x \in Roots ELSE MayLink(x, q)
  BY <1>0, <1>2 DEF LinkFrames
<1>4. x \in Particles
  BY <1>3, RootsNotOscillated DEF MayLink
<1>5. q \in LPs \cup {None} /\ r \in LPs \cup {None} /\ S \in SUBSET LPs
  BY <1>0, <1>1, <1>4 DEF Frame, Daughters
<1>. HIDE DEF q
<1>6. /\ x \in g.lps <=> x \in K
      /\ Linked(g, x, q) \in GraphType
      /\ \/ Linked(g, x, q).failed /\ x \in K /\ q \in K /\ Refused(g, x, q)
         \/ Called(g, Linked(g, x, q), x, q)
  BY <1>0, <1>3, LinkedEffect
<1>7. NewParent(g, x, q) = r
  BY <1>6 DEF NewParent
<1>8. Pushed(l, Push(l, x, S, r), x, S, r)
  BY <1>5, PushLoops
<1>9. m \in Seq(Frame)
  BY <1>8 DEF Pushed
<1>10. Goes(l, m, x, q, r)
  <2>1. /\ \A y, z : InFrame(Push(l, x, S, r), y, z) => (y \in S /\ z = r) \/ InFrame(l, y, z)
        /\ \A y \in S : InFrame(Push(l, x, S, r), y, r)
        /\ \A y, z : InFrame(l, y, z) /\ ~(y = x /\ z = l[1].parent)
                     => InFrame(Push(l, x, S, r), y, z)
    BY <1>5, InPush
  <2>. QED BY <2>1 DEF Goes, q
<1>. HIDE DEF h, m, r, S
<1>11. ASSUME Unmixed, Undoubled, Refused(g, x, q), x \in K, q \in K PROVE FALSE
  <2>1. OrderGraph(g) /\ Once(g, l)
    BY <1>11 DEF Linking
  <2>2. MayLink(x, q)
    BY <1>0, <1>3, <1>11
  <2>3. Lineal(x) => g.prod[x] = None
    <3>1. x \in l[1].left \cap Line(x)
      BY DEF Line
    <3>. QED BY <3>1, <2>1, <1>1, <1>11 DEF Once
  <2>. QED BY <2>1, <2>2, <2>3, <1>0, <1>11, NotRefused
<1>12. ASSUME Called(g, h, x, q)
       PROVE  Linking(h, m) /\ h.failed = FALSE
  <2>1. h \in GraphType
    BY <1>6 DEF h
  <2>2. /\ LinkGraph(h)
        /\ \A c \in K : Parents(g, c) \subseteq Parents(h, c)
        /\ x \in K /\ q # None => q \in Parents(h, x)
        /\ h.lps = g.lps \ {HasOscillated(x)}
    BY <2>1, <1>0, <1>4, <1>12, CalledGraph
  <2>3. LinkFrames(m) /\ Complete(h, m) /\ OscillatedLeft(h, m)
    <3>1. r = IF x \in K THEN x ELSE q
      BY DEF r
    <3>. QED BY <3>1, <2>2, <1>0, <1>2, <1>10, CalledLoops
  <2>4. ASSUME Unmixed, Undoubled PROVE OrderGraph(h) /\ OrderFrames(h, m) /\ Once(h, m)
    <3>1. OrderGraph(g) /\ OrderFrames(g, l) /\ Once(g, l)
      BY <2>4 DEF Linking
    <3>2. Called(g, h, x, l[1].parent)
      BY <1>12 DEF q
    <3>3. OrderGraph(h)
      BY <2>1, <2>4, <3>1, <3>2, <1>0, <1>1, <1>4, CalledOrderGraph
    <3>4. IF l[1].parent = None THEN x \in Roots ELSE MayLink(x, l[1].parent)
      BY <1>3 DEF q
    <3>5. Pushed(l, m, x, Daughters(Last(x)), IF x \in K THEN x ELSE l[1].parent)
      BY <1>8 DEF m, S, r, q
    <3>6. OrderFrames(h, m)
      BY <2>1, <2>4, <3>1, <3>2, <3>3, <3>4, <3>5, <1>0, <1>1, <1>4, CalledOrderFrames
    <3>7. Once(h, m)
      BY <2>1, <3>1, <3>2, <3>5, <1>0, <1>1, <1>4, CalledOnce
    <3>. QED BY <3>3, <3>6, <3>7
  <2>5. h.failed = FALSE
    BY <2>2 DEF LinkGraph
  <2>. QED BY <2>2, <2>3, <2>4, <2>5 DEF Linking
<1>13. h \in GraphType /\ (Unmixed /\ Undoubled => ~h.failed) /\ (~h.failed => Linking(h, m))
  BY <1>6, <1>11, <1>12 DEF h
<1>. QED BY <1>7, <1>9, <1>13 DEF h, m, q, S

\* ... and its return keep this.
LEMMA LinkingReturn ==
  ASSUME Event, NEW g, NEW l \in Seq(Frame), Linking(g, l), l # <<>>, l[1].left = {}
  PROVE  Linking(g, Tail(l))
<1>1. \A y, z : InFrame(Tail(l), y, z) <=> InFrame(l, y, z)
  BY InTail
<1>2. LinkFrames(Tail(l)) /\ Complete(g, Tail(l)) /\ OscillatedLeft(g, Tail(l))
  BY <1>1, SameCalls DEF Linking
<1>3. OrderFrames(g, l) => OrderFrames(g, Tail(l))
  BY ReturnOrder
<1>4. Once(g, l) => Once(g, Tail(l))
  BY ReturnOrder
<1>. QED BY <1>2, <1>3, <1>4 DEF Linking

\* When the last call has returned the graph is complete.
LEMMA LinkingOver ==
  ASSUME Event, NEW g, NEW l, Linking(g, l), l = <<>>
  PROVE  /\ Endless(g) \/ (\E r \in Roots : g.prod[r] # None) => ~(Unmixed /\ Undoubled)
         /\ ~Endless(g) => Grown(g, Generated + 1)
         /\ g.lps = K
<1>1. \A y, z : ~InFrame(l, y, z)
  BY InEnter
<1>2. Settled(g) /\ g.lps = K
  BY <1>1, LinkingEnds DEF Linking
<1>3. \A r \in Roots : g.prod[r] = None
  BY RootsNotOscillated DEF Linking, LinkGraph, RootsFree
<1>4. LinkGraph(g)
  BY DEF Linking
<1>5. Endless(g) => ~Unmixed
  BY <1>2, <1>4, UnmixedEnds
<1>6. ~Endless(g) => Grown(g, Generated + 1)
  BY <1>2, <1>4, LinkedGrown
<1>. QED BY <1>2, <1>3, <1>5, <1>6

-----------------------------------------------------------------------------
(* The three recursions, step by step. *)

\* What is given to Geant4 is linked, and its mother is a particle of the generator.
ConvFrames(l) == \A y, q : InFrame(l, y, q) => y \in K /\ q \in Particles \cup {None}

\* What a loop has not left to erase of the children of a particle is being erased.
CleanFrames(g, l) ==
  \A i \in 1..Len(l) :
    /\ l[i].parent \in LPs
    /\ Children(g, l[i].parent) \subseteq l[i].left \cup (IF i = 1 THEN {} ELSE {l[i - 1].parent})

\* A call of EraseDecayTree ...
LEMMA EraseCall ==
  ASSUME NEW g \in GraphType, NEW l \in Seq(Frame), l # <<>>, CleanFrames(g, l),
         NEW x \in l[1].left, x \in LPs
  PROVE  /\ Push(l, x, Children(g, x), x) \in Seq(Frame)
         /\ CleanFrames(g, Push(l, x, Children(g, x), x))
<1>. DEFINE m == Push(l, x, Children(g, x), x)
<1>1. Pushed(l, m, x, Children(g, x), x) /\ Len(l) \in Nat /\ 1 \in 1..Len(l)
  BY PushLoops, LessLoops, ChildrenAre
<1>. HIDE DEF m
<1>2. ASSUME NEW i \in 1..Len(m)
      PROVE  /\ m[i].parent \in LPs
             /\ Children(g, m[i].parent) \subseteq m[i].left \cup (IF i = 1 THEN {} ELSE {m[i - 1].parent})
  <2>1. CASE i = 1
    BY <2>1, <1>1 DEF Pushed
  <2>2. CASE i = 2
    <3>1. l[1].parent \in LPs /\ Children(g, l[1].parent) \subseteq l[1].left
      BY <1>1 DEF CleanFrames
    <3>2. /\ m[2].parent = l[1].parent /\ m[2].left = l[1].left \ {x} /\ m[1].parent = x
      BY <1>1 DEF Pushed
    <3>. QED BY <2>2, <3>1, <3>2
  <2>3. CASE i # 1 /\ i # 2
    <3>1. i \in 3..(Len(l) + 1)
      BY <2>3, <1>1 DEF Pushed
    <3>2. i - 1 \in 2..Len(l) /\ i = (i - 1) + 1 /\ i - 1 \in 1..Len(l) /\ i - 1 # 1
          /\ i - 2 \in 1..Len(l) /\ i - 1 = (i - 2) + 1
      BY <3>1, <1>1
    <3>3. m[i] = l[i - 1]
      BY <3>2, <1>1 DEF Pushed
    <3>4. m[i - 1].parent = l[i - 2].parent
      <4>1. CASE i = 3
        BY <4>1, <1>1 DEF Pushed
      <4>2. CASE i # 3
        <5>1. i - 2 \in 2..Len(l)
          BY <4>2, <3>1, <1>1
        <5>2. m[(i - 2) + 1] = l[i - 2]
          BY <5>1, <1>1 DEF Pushed
        <5>. QED BY <5>2, <3>2
      <4>. QED BY <4>1, <4>2
    <3>5. /\ l[i - 1].parent \in LPs
          /\ Children(g, l[i - 1].parent) \subseteq l[i - 1].left \cup {l[(i - 1) - 1].parent}
      BY <3>2 DEF CleanFrames
    <3>6. (i - 1) - 1 = i - 2
      BY <3>1
    <3>. QED BY <3>3, <3>4, <3>5, <3>6, <2>3
  <2>. QED BY <2>1, <2>2, <2>3
<1>. QED BY <1>1, <1>2 DEF CleanFrames, Pushed, m

\* ... and its return: the particle it erases has no children left.
LEMMA EraseReturn ==
  ASSUME NEW g, Structure(g), NEW l \in Seq(Frame), l # <<>>, CleanFrames(g, l), l[1].left = {}
  PROVE  /\ l[1].parent \in LPs /\ Children(g, l[1].parent) = {}
         /\ Structure(EraseLinkedParticle(g, l[1].parent))
         /\ Tail(l) \in Seq(Frame)
         /\ CleanFrames(EraseLinkedParticle(g, l[1].parent), Tail(l))
<1>. DEFINE p == l[1].parent
            h == EraseLinkedParticle(g, p)
            m == Tail(l)
<1>0. g \in GraphType
  BY DEF Structure
<1>1. /\ m \in Seq(Frame) /\ Len(m) = Len(l) - 1 /\ Len(l) \in Nat \ {0}
      /\ \A i \in 1..(Len(l) - 1) : m[i] = l[i + 1]
  BY TailLoops
<1>2. p \in LPs /\ Children(g, p) = {}
  <2>1. 1 \in 1..Len(l)
    BY <1>1
  <2>. QED BY <2>1 DEF CleanFrames
<1>3. Structure(h)
  BY <1>2, ErasedStructure
<1>4. \A x \in LPs : Children(h, x) = Children(g, x) \ {p}
  BY <1>0, <1>2, ErasedChildren
<1>. HIDE DEF h, m
<1>5. ASSUME NEW i \in 1..Len(m)
      PROVE  /\ m[i].parent \in LPs
             /\ Children(h, m[i].parent) \subseteq m[i].left \cup (IF i = 1 THEN {} ELSE {m[i - 1].parent})
  <2>1. i \in 1..(Len(l) - 1) /\ i + 1 \in 1..Len(l) /\ i + 1 # 1 /\ (i + 1) - 1 = i
    BY <1>1
  <2>2. m[i] = l[i + 1]
    BY <2>1, <1>1
  <2>3. /\ l[i + 1].parent \in LPs
        /\ Children(g, l[i + 1].parent) \subseteq l[i + 1].left \cup {l[(i + 1) - 1].parent}
    BY <2>1 DEF CleanFrames
  <2>4. m[i].parent \in LPs /\ Children(g, m[i].parent) \subseteq m[i].left \cup {l[i].parent}
    BY <2>1, <2>2, <2>3
  <2>5. CASE i = 1
    BY <2>4, <2>5, <1>4
  <2>6. CASE i # 1
    <3>1. i - 1 \in 1..(Len(l) - 1) /\ (i - 1) + 1 = i
      BY <2>1, <2>6
    <3>2. m[i - 1] = l[i]
      BY <3>1, <1>1
    <3>. QED BY <3>2, <2>4, <2>6, <1>4
  <2>. QED BY <2>5, <2>6
<1>. QED BY <1>1, <1>2, <1>3, <1>5 DEF CleanFrames, h, m

\* A call of convert.
LEMMA GivenEffect ==
  ASSUME Event, NEW g \in GraphType, NEW x \in K, NEW q \in Particles \cup {None}
  PROVE  LET h == Given(g, x, q)
         IN  /\ h \in GraphType /\ h.lps = g.lps /\ h.prod = g.prod /\ h.ends = g.ends
             /\ h.incoming = g.incoming /\ h.outgoing = g.outgoing /\ h.hepmcVtx = g.hepmcVtx
             /\ h.truth = g.truth /\ h.failed = g.failed /\ h.stale = g.stale
             /\ h.primaries = IF ForGeant4(x) THEN g.primaries \cup {x} ELSE g.primaries
             /\ h.mother = IF ForGeant4(x) THEN [g.mother EXCEPT ![x] = q] ELSE g.mother
<1>. x \in Particles
  BY RootsLinked
<1>. QED BY DEF Given, GraphType

\* What a call of convert keeps.
LEMMA ConvertCall ==
  ASSUME Event, NEW g, NEW n, Grown(g, n), g.lps = K, NEW l \in Seq(Frame), l # <<>>, ConvFrames(l),
         NEW x \in l[1].left
  PROVE  LET q == l[1].parent
             h == Given(g, x, q)
             m == Push(l, x, Children(g, x), IF ForGeant4(x) THEN x ELSE q)
         IN  /\ h \in GraphType /\ m \in Seq(Frame) /\ h.failed = g.failed
             /\ Grown(h, n) /\ h.lps = K /\ ConvFrames(m)
<1>. DEFINE q == l[1].parent
            r == IF ForGeant4(x) THEN x ELSE q
            S == Children(g, x)
            h == Given(g, x, q)
            m == Push(l, x, S, r)
<1>0. K \subseteq Particles /\ Particles \subseteq LPs /\ g \in GraphType
  BY RootsLinked, ParticlesFinite DEF Grown, Structure
<1>1. 1 \in 1..Len(l)
  BY LessLoops
<1>2. InFrame(l, x, q)
  BY <1>1 DEF InFrame
<1>3. x \in K /\ q \in Particles \cup {None} /\ x \in Particles /\ x \in LPs
  BY <1>0, <1>2 DEF ConvFrames
<1>4. r \in Particles \cup {None} /\ r \in LPs \cup {None} /\ S \in SUBSET LPs
  BY <1>0, <1>3, ChildrenAre
<1>. HIDE DEF q, r
<1>5. /\ h \in GraphType /\ h.lps = g.lps /\ h.prod = g.prod /\ h.ends = g.ends
      /\ h.incoming = g.incoming /\ h.outgoing = g.outgoing /\ h.hepmcVtx = g.hepmcVtx
      /\ h.truth = g.truth /\ h.failed = g.failed /\ h.stale = g.stale
      /\ h.primaries = IF ForGeant4(x) THEN g.primaries \cup {x} ELSE g.primaries
  BY <1>0, <1>3, GivenEffect
<1>. HIDE DEF h
<1>6. Structure(h) /\ Settled(h)
  BY <1>5, SameStructure DEF Grown
<1>7. Grown(h, n)
  BY <1>3, <1>5, <1>6 DEF Grown, Fresh
<1>8. S \subseteq K
  <2>1. \A v \in LPs : g.outgoing[v] \subseteq g.lps
    BY DEF Grown, Structure, LinksKnown
  <2>2. g.ends[x] \subseteq LPs
    BY <1>0, <1>3, GraphTypes
  <2>. QED BY <2>1, <2>2 DEF Children
<1>. HIDE DEF S
<1>9. /\ m \in Seq(Frame)
      /\ \A y, z : InFrame(m, y, z) => (y \in S /\ z = r) \/ InFrame(l, y, z)
  <2>1. Pushed(l, m, x, S, r)
    BY <1>4, PushLoops
  <2>2. \A y, z : InFrame(Push(l, x, S, r), y, z) => (y \in S /\ z = r) \/ InFrame(l, y, z)
    BY <1>4, InPush
  <2>. QED BY <2>1, <2>2 DEF Pushed
<1>. HIDE DEF m
<1>10. ConvFrames(m)
  BY <1>4, <1>8, <1>9 DEF ConvFrames
<1>. QED BY <1>5, <1>7, <1>9, <1>10 DEF q, r, h, m, S

-----------------------------------------------------------------------------
(* The invariant. *)

\* None of this changes with the state but through its parameters.
LEMMA SameGrown ==
  ASSUME UNCHANGED hepmc
  PROVE  /\ \A g : Structure(g)' <=> Structure(g)
         /\ \A g, n : Grown(g, n)' <=> Grown(g, n)
         /\ \A g, l : Linking(g, l)' <=> Linking(g, l)
         /\ \A l : ConvFrames(l)' <=> ConvFrames(l)
<1>1. \A g : Structure(g)' <=> Structure(g)
  <2>1. \A g : Rooted(g)' <=> Rooted(g)
    BY SameEvent DEF Rooted
  <2>. QED BY <2>1 DEF Structure
<1>2. \A g, n : Grown(g, n)' <=> Grown(g, n)
  BY <1>1, SameWays, SameGraphs DEF Grown
<1>3. \A g, l : Linking(g, l)' <=> Linking(g, l)
  BY SameWays, SameGraphs, SameLoops DEF Linking
<1>4. \A l : ConvFrames(l)' <=> ConvFrames(l)
  BY SameWays DEF ConvFrames
<1>. QED BY <1>1, <1>2, <1>3, <1>4

Phases == {"declared", "linking", "failed", "converting", "tracking", "cleaning", "delivered"}

\* The type invariant.
GraphTypeOK ==
  /\ graph \in GraphType /\ loops \in Seq(Frame) /\ phase \in Phases
  /\ next \in Generated + 1 .. Generated + MaxDeclared + 1 /\ heads \in SUBSET LPs

\* What holds in every phase: while linking the links made so far are right and
\* the others on their way, then the graph only grows until it is cleaned.
LinkInv ==
  /\ GraphTypeOK /\ Event
  /\ phase = "declared" => graph = Unlinked /\ next = Generated + 1
  /\ phase = "linking" => Linking(graph, loops) /\ next = Generated + 1
  /\ phase \in {"converting", "tracking"} => Grown(graph, next)
  /\ phase = "converting" => ConvFrames(loops) /\ graph.lps = K
  /\ phase = "tracking" => loops = <<>>
  /\ phase \in {"cleaning", "delivered"} => Structure(graph)
  /\ phase = "cleaning" => CleanFrames(graph, loops)
  /\ Unmixed /\ Undoubled => ~graph.failed

\* The invariant holds initially.
LEMMA LinkInvInit == Init => LinkInv
<1>. SUFFICES ASSUME Init PROVE LinkInv
  OBVIOUS
<1>0. Event
  BY DEF Init, Event
<1>1. graph = Unlinked /\ phase = "declared" /\ loops = <<>> /\ next = Generated + 1 /\ heads = {}
  BY DEF Init
<1>2. Unlinked \in GraphType /\ Unlinked.failed = FALSE
  BY <1>0, LinkingBegins DEF LinkGraph
<1>3. Generated \in Nat /\ MaxDeclared \in Nat
  BY ParticlesFinite
<1>4. next \in Generated + 1 .. Generated + MaxDeclared + 1
  BY <1>1, <1>3
<1>5. <<>> \in Seq(Frame)
  OBVIOUS
<1>6. GraphTypeOK
  BY <1>1, <1>2, <1>4, <1>5 DEF GraphTypeOK, Phases
<1>. QED BY <1>0, <1>1, <1>2, <1>6 DEF LinkInv

\* The constructor of MCTruthTracker keeps the invariant.
LEMMA MakeTrackerStep == LinkInv /\ MakeTracker => LinkInv'
<1>. SUFFICES ASSUME LinkInv, MakeTracker PROVE LinkInv'
  OBVIOUS
<1>1. /\ phase = "declared" /\ phase' = "linking" /\ loops' = Enter(Roots, None)
      /\ UNCHANGED hepmc /\ graph' = graph /\ next' = next /\ heads' = heads
  BY DEF MakeTracker
<1>2. Event /\ GraphTypeOK /\ graph = Unlinked /\ next = Generated + 1 /\ (Unmixed /\ Undoubled => ~graph.failed)
  BY <1>1 DEF LinkInv
<1>3. Linking(graph', loops')
  BY <1>1, <1>2, LinkingBegins, OrderBegins DEF Linking
<1>4. loops' \in Seq(Frame)
  <2>1. Roots \in SUBSET LPs
    BY <1>2, RootsLinked
  <2>2. [left |-> Roots, parent |-> None] \in Frame
    BY <2>1 DEF Frame
  <2>. QED BY <2>2, <1>1 DEF Enter
<1>5. GraphTypeOK'
  BY <1>1, <1>2, <1>4 DEF GraphTypeOK, Phases
<1>. QED BY <1>1, <1>2, <1>3, <1>5, SameEvent, SameWays, SameGrown DEF LinkInv

\* A call of child_converter keeps it, and no link is refused where no lines of
\* descent are mixed or doubled.
LEMMA ChildConverterStep == LinkInv /\ ChildConverter => LinkInv'
<1>. SUFFICES ASSUME LinkInv, ChildConverter PROVE LinkInv'
  OBVIOUS
<1>1. /\ phase = "linking" /\ InLoop /\ graph' = Linked(graph, Part, Parent)
      /\ UNCHANGED hepmc /\ next' = next /\ heads' = heads
      /\ IF graph'.failed
         THEN phase' = "failed" /\ loops' = <<>>
         ELSE /\ loops' = Enter(Daughters(Last(Part)), NewParent(graph, Part, Parent)) \o Rest
              /\ phase' = phase
  BY DEF ChildConverter
<1>2. Event /\ GraphTypeOK /\ Linking(graph, loops) /\ next = Generated + 1 /\ loops \in Seq(Frame)
  BY <1>1 DEF LinkInv, GraphTypeOK
<1>. DEFINE m == Push(loops, Part, Daughters(Last(Part)), NewParent(graph, Part, Parent))
<1>3. /\ loops # <<>> /\ Part \in loops[1].left /\ \A y \in loops[1].left : Part <= y
      /\ Parent = loops[1].parent /\ Rest = Less(loops, Part)
  BY <1>1, <1>2, NextCall
<1>. HIDE DEF LinkInv, ChildConverter
<1>4. /\ graph' \in GraphType /\ m \in Seq(Frame)
      /\ Unmixed /\ Undoubled => ~graph'.failed
      /\ ~graph'.failed => Linking(graph', m)
  <2>1. LET h == Linked(graph, Part, loops[1].parent)
            k == Push(loops, Part, Daughters(Last(Part)), NewParent(graph, Part, loops[1].parent))
        IN  /\ h \in GraphType /\ k \in Seq(Frame)
            /\ Unmixed /\ Undoubled => ~h.failed
            /\ ~h.failed => Linking(h, k)
    BY <1>2, <1>3, LinkingCall
  <2>. QED BY <2>1, <1>1, <1>3
<1>5. CASE graph'.failed
  <2>1. phase' = "failed" /\ loops' = <<>>
    BY <1>1, <1>5
  <2>2. <<>> \in Seq(Frame)
    OBVIOUS
  <2>3. GraphTypeOK'
    BY <2>1, <2>2, <1>1, <1>2, <1>4 DEF GraphTypeOK, Phases
  <2>. QED BY <2>1, <2>3, <1>1, <1>2, <1>4, SameEvent, SameWays DEF LinkInv
<1>6. CASE ~graph'.failed
  <2>1. phase' = phase /\ loops' = m
    BY <1>1, <1>3, <1>6 DEF Push
  <2>2. GraphTypeOK'
    BY <2>1, <1>1, <1>2, <1>4 DEF GraphTypeOK
  <2>3. Linking(graph', loops')
    BY <2>1, <1>4, <1>6
  <2>. QED BY <2>1, <2>2, <2>3, <1>1, <1>2, <1>6, SameEvent, SameGrown DEF LinkInv
<1>. QED BY <1>5, <1>6

\* The second look at the roots keeps it.
LEMMA AddToG4EventStep == LinkInv /\ AddToG4Event => LinkInv'
<1>. SUFFICES ASSUME LinkInv, AddToG4Event PROVE LinkInv'
  OBVIOUS
<1>1. /\ phase = "linking" /\ loops = <<>>
      /\ UNCHANGED hepmc /\ next' = next /\ heads' = heads
      /\ IF Endless(graph) \/ \E r \in Roots : graph.prod[r] # None
         THEN /\ graph' = [graph EXCEPT !.failed = TRUE]
              /\ phase' = "failed" /\ loops' = <<>>
         ELSE /\ graph' = graph
              /\ \/ phase' = "converting" /\ loops' = Enter(Roots, None)
                 \/ phase' = "tracking" /\ loops' = <<>>
  BY DEF AddToG4Event
<1>2. Event /\ GraphTypeOK /\ Linking(graph, loops) /\ next = Generated + 1 /\ graph \in GraphType
      /\ (Unmixed /\ Undoubled => ~graph.failed)
  BY <1>1 DEF LinkInv, GraphTypeOK
<1>3. /\ Endless(graph) \/ (\E r \in Roots : graph.prod[r] # None) => ~(Unmixed /\ Undoubled)
      /\ ~Endless(graph) => Grown(graph, Generated + 1)
      /\ graph.lps = K
  BY <1>1, <1>2, LinkingOver
<1>. HIDE DEF LinkInv, AddToG4Event
<1>4. <<>> \in Seq(Frame) /\ Enter(Roots, None) \in Seq(Frame)
  <2>1. Roots \in SUBSET LPs
    BY <1>2, RootsLinked
  <2>2. [left |-> Roots, parent |-> None] \in Frame
    BY <2>1 DEF Frame
  <2>. QED BY <2>2 DEF Enter
<1>5. CASE Endless(graph) \/ \E r \in Roots : graph.prod[r] # None
  <2>1. graph' = [graph EXCEPT !.failed = TRUE] /\ phase' = "failed" /\ loops' = <<>>
    BY <1>1, <1>5
  <2>2. graph' \in GraphType
    BY <2>1, <1>2 DEF GraphType
  <2>3. GraphTypeOK'
    BY <2>1, <2>2, <1>1, <1>2, <1>4 DEF GraphTypeOK, Phases
  <2>. QED BY <2>1, <2>3, <1>1, <1>2, <1>3, <1>5, SameEvent, SameWays DEF LinkInv
<1>6. CASE ~(Endless(graph) \/ \E r \in Roots : graph.prod[r] # None)
  <2>1. graph' = graph /\ Grown(graph', next') /\ graph'.lps = K
    BY <1>1, <1>2, <1>3, <1>6
  <2>2. CASE phase' = "converting" /\ loops' = Enter(Roots, None)
    <3>1. ConvFrames(loops')
      BY <2>2, <1>2, InEnter, RootsLinked DEF ConvFrames
    <3>2. GraphTypeOK'
      BY <2>1, <2>2, <1>1, <1>2, <1>4 DEF GraphTypeOK, Phases
    <3>. QED BY <2>1, <2>2, <3>1, <3>2, <1>1, <1>2, SameEvent, SameWays, SameGrown DEF LinkInv
  <2>3. CASE phase' = "tracking" /\ loops' = <<>>
    <3>1. GraphTypeOK'
      BY <2>1, <2>3, <1>1, <1>2, <1>4 DEF GraphTypeOK, Phases
    <3>. QED BY <2>1, <2>3, <3>1, <1>1, <1>2, SameEvent, SameWays, SameGrown DEF LinkInv
  <2>. QED BY <2>2, <2>3, <1>1, <1>6
<1>. QED BY <1>5, <1>6

\* A call of convert keeps it.
LEMMA ConvertStep == LinkInv /\ Convert => LinkInv'
<1>. SUFFICES ASSUME LinkInv, Convert PROVE LinkInv'
  OBVIOUS
<1>1. /\ phase = "converting" /\ InLoop /\ UNCHANGED hepmc
      /\ phase' = phase /\ next' = next /\ heads' = heads
      /\ IF Part \in graph.primaries
         THEN graph' = graph /\ loops' = Rest
         ELSE /\ graph' = Given(graph, Part, Parent)
              /\ loops' = Enter(Children(graph, Part),
                                IF ForGeant4(Part) THEN Part ELSE Parent) \o Rest
  BY DEF Convert
<1>2. /\ Event /\ GraphTypeOK /\ Grown(graph, next) /\ ConvFrames(loops) /\ graph.lps = K
      /\ loops \in Seq(Frame) /\ (Unmixed /\ Undoubled => ~graph.failed)
  BY <1>1 DEF LinkInv, GraphTypeOK
<1>3. /\ loops # <<>> /\ Part \in loops[1].left
      /\ Parent = loops[1].parent /\ Rest = Less(loops, Part)
  BY <1>1, <1>2, NextCall
<1>. HIDE DEF LinkInv, Convert
<1>4. CASE Part \in graph.primaries
  <2>1. loops' = Less(loops, Part) /\ graph' = graph
    BY <1>1, <1>3, <1>4
  <2>2. loops' \in Seq(Frame)
    BY <2>1, <1>2, <1>3, LessLoops
  <2>3. ConvFrames(loops')
    <3>1. \A y, z : InFrame(Less(loops, Part), y, z) => InFrame(loops, y, z)
      BY <1>2, <1>3, InLess
    <3>. QED BY <3>1, <2>1, <1>2 DEF ConvFrames
  <2>4. GraphTypeOK'
    BY <2>1, <2>2, <1>1, <1>2 DEF GraphTypeOK
  <2>. QED BY <2>1, <2>3, <2>4, <1>1, <1>2, SameEvent, SameWays, SameGrown DEF LinkInv
<1>5. CASE Part \notin graph.primaries
  <2>1. LET q == loops[1].parent
            h == Given(graph, Part, q)
            m == Push(loops, Part, Children(graph, Part), IF ForGeant4(Part) THEN Part ELSE q)
        IN  /\ h \in GraphType /\ m \in Seq(Frame) /\ h.failed = graph.failed
            /\ Grown(h, next) /\ h.lps = K /\ ConvFrames(m)
    BY <1>2, <1>3, ConvertCall
  <2>2. loops' = Push(loops, Part, Children(graph, Part), IF ForGeant4(Part) THEN Part ELSE loops[1].parent)
    BY <1>1, <1>3, <1>5 DEF Push
  <2>3. graph' = Given(graph, Part, loops[1].parent)
    BY <1>1, <1>3, <1>5
  <2>4. /\ graph' \in GraphType /\ loops' \in Seq(Frame) /\ graph'.failed = graph.failed
        /\ Grown(graph', next) /\ graph'.lps = K /\ ConvFrames(loops')
    BY <2>1, <2>2, <2>3
  <2>5. GraphTypeOK'
    BY <2>4, <1>1, <1>2 DEF GraphTypeOK
  <2>. QED BY <2>4, <2>5, <1>1, <1>2, SameEvent, SameWays, SameGrown DEF LinkInv
<1>. QED BY <1>4, <1>5

\* A return keeps it.
LEMMA ReturnStep == LinkInv /\ Return => LinkInv'
<1>. SUFFICES ASSUME LinkInv, Return PROVE LinkInv'
  OBVIOUS
<1>1. /\ phase \in {"linking", "converting"} /\ LoopEnded /\ UNCHANGED hepmc
      /\ loops' = Tail(loops) /\ graph' = graph /\ phase' = phase /\ next' = next /\ heads' = heads
  BY DEF Return
<1>2. /\ Event /\ GraphTypeOK /\ loops \in Seq(Frame) /\ (Unmixed /\ Undoubled => ~graph.failed)
      /\ phase = "linking" => Linking(graph, loops) /\ next = Generated + 1
      /\ phase = "converting" => Grown(graph, next) /\ ConvFrames(loops) /\ graph.lps = K
  BY DEF LinkInv, GraphTypeOK
<1>3. loops # <<>> /\ loops[1].left = {}
  BY <1>1, <1>2 DEF LoopEnded
<1>. HIDE DEF LinkInv, Return
<1>4. loops' \in Seq(Frame)
  BY <1>1, <1>2, <1>3, TailLoops
<1>5. GraphTypeOK'
  BY <1>1, <1>2, <1>4 DEF GraphTypeOK
<1>6. CASE phase = "linking"
  <2>1. Linking(graph', loops')
    BY <1>1, <1>2, <1>3, <1>6, LinkingReturn
  <2>. QED BY <2>1, <1>1, <1>2, <1>5, <1>6, SameEvent, SameWays, SameGrown DEF LinkInv
<1>7. CASE phase = "converting"
  <2>1. \A y, z : InFrame(Tail(loops), y, z) <=> InFrame(loops, y, z)
    BY <1>2, <1>3, InTail
  <2>2. ConvFrames(loops')
    BY <2>1, <1>1, <1>2, <1>7 DEF ConvFrames
  <2>. QED BY <2>2, <1>1, <1>2, <1>5, <1>7, SameEvent, SameWays, SameGrown DEF LinkInv
<1>. QED BY <1>1, <1>6, <1>7

\* The end of AddToG4Event keeps it.
LEMMA StartTrackingStep == LinkInv /\ StartTracking => LinkInv'
<1>. SUFFICES ASSUME LinkInv, StartTracking PROVE LinkInv'
  OBVIOUS
<1>1. /\ phase = "converting" /\ loops = <<>> /\ phase' = "tracking" /\ UNCHANGED hepmc
      /\ graph' = graph /\ loops' = loops /\ next' = next /\ heads' = heads
  BY DEF StartTracking
<1>2. GraphTypeOK'
  BY <1>1 DEF LinkInv, GraphTypeOK, Phases
<1>. QED BY <1>1, <1>2, SameEvent, SameWays, SameGrown DEF LinkInv

\* RegisterPrimary keeps it.
LEMMA RegisterPrimaryStep ==
  ASSUME LinkInv, NEW p \in LPs, RegisterPrimary(p)
  PROVE  LinkInv'
<1>1. /\ phase = "tracking" /\ p \in graph.primaries /\ UNCHANGED hepmc
      /\ graph' = [graph EXCEPT !.truth = @ \cup {p}]
      /\ phase' = phase /\ loops' = loops /\ next' = next /\ heads' = heads
  BY DEF RegisterPrimary
<1>2. /\ Event /\ GraphTypeOK /\ Grown(graph, next) /\ graph \in GraphType /\ loops = <<>>
      /\ (Unmixed /\ Undoubled => ~graph.failed)
  BY <1>1 DEF LinkInv, GraphTypeOK
<1>. HIDE DEF LinkInv, RegisterPrimary
<1>3. /\ graph' \in GraphType /\ graph'.truth = graph.truth \cup {p}
      /\ graph'.lps = graph.lps /\ graph'.prod = graph.prod /\ graph'.ends = graph.ends
      /\ graph'.incoming = graph.incoming /\ graph'.outgoing = graph.outgoing
      /\ graph'.hepmcVtx = graph.hepmcVtx /\ graph'.primaries = graph.primaries
      /\ graph'.failed = graph.failed
  BY <1>1, <1>2 DEF GraphType
<1>4. Structure(graph') /\ Settled(graph')
  BY <1>2, <1>3, SameStructure DEF Grown
<1>5. p \in graph.lps
  BY <1>1, <1>2 DEF Grown, Settled
<1>6. Fresh(graph', next)
  BY <1>2, <1>3, <1>5 DEF Grown, Fresh
<1>7. Grown(graph', next)
  BY <1>2, <1>3, <1>4, <1>5, <1>6 DEF Grown
<1>8. GraphTypeOK'
  BY <1>1, <1>2, <1>3 DEF GraphTypeOK
<1>. QED BY <1>1, <1>2, <1>3, <1>7, <1>8, SameEvent, SameWays, SameGrown DEF LinkInv

\* Declare keeps it.
LEMMA DeclareStep ==
  ASSUME LinkInv, NEW p \in LPs, Declare(p)
  PROVE  LinkInv'
<1>1. /\ phase = "tracking" /\ next \in LPs /\ p \in graph.truth /\ UNCHANGED hepmc
      /\ next' = next + 1 /\ phase' = phase /\ loops' = loops /\ heads' = heads
  BY DEF Declare
<1>2. PICK v \in {w \in graph.ends[p] : w > Generated} \cup {next} :
        DeclaredAs(graph, graph', next, p, v)
  BY DEF Declare, DeclaredAs
<1>3. /\ Event /\ GraphTypeOK /\ Grown(graph, next) /\ graph \in GraphType /\ loops = <<>>
      /\ (Unmixed /\ Undoubled => ~graph.failed)
      /\ next \in Generated + 1 .. Generated + MaxDeclared + 1
  BY <1>1 DEF LinkInv, GraphTypeOK
<1>. HIDE DEF LinkInv, Declare
<1>4. Generated \in Nat /\ MaxDeclared \in Nat /\ next >= Generated + 1
  BY <1>3, ParticlesFinite
<1>5. Grown(graph', next + 1)
  BY <1>1, <1>2, <1>3, <1>4, DeclaredGrown
<1>6. graph' \in GraphType /\ graph'.failed = graph.failed
  <2>1. v \in LPs
    BY <1>1, <1>3, GraphTypes
  <2>. QED BY <2>1, <1>1, <1>2, <1>3, DeclaredEffect
<1>7. next' \in Generated + 1 .. Generated + MaxDeclared + 1
  BY <1>1, <1>3, <1>4 DEF LPs
<1>8. GraphTypeOK'
  BY <1>1, <1>3, <1>6, <1>7 DEF GraphTypeOK
<1>. QED BY <1>1, <1>3, <1>5, <1>6, <1>8, SameEvent, SameWays, SameGrown DEF LinkInv

\* The constructor of MCTruth keeps it.
LEMMA MakeTruthStep == LinkInv /\ MakeTruth => LinkInv'
<1>. SUFFICES ASSUME LinkInv, MakeTruth PROVE LinkInv'
  OBVIOUS
<1>1. /\ phase = "tracking" /\ heads' = HeadsToDelete(graph) /\ phase' = "cleaning"
      /\ UNCHANGED hepmc /\ graph' = graph /\ loops' = loops /\ next' = next
  BY DEF MakeTruth
<1>2. /\ Event /\ GraphTypeOK /\ Grown(graph, next) /\ loops = <<>>
      /\ (Unmixed /\ Undoubled => ~graph.failed)
  BY <1>1 DEF LinkInv
<1>. HIDE DEF LinkInv, MakeTruth
<1>3. heads' \in SUBSET LPs
  BY <1>1, ParticlesFinite DEF HeadsToDelete
<1>4. GraphTypeOK'
  BY <1>1, <1>2, <1>3 DEF GraphTypeOK, Phases
<1>5. Structure(graph') /\ CleanFrames(graph', loops')
  BY <1>1, <1>2 DEF Grown, CleanFrames
<1>. QED BY <1>1, <1>2, <1>4, <1>5, SameEvent, SameWays, SameGrown DEF LinkInv

\* The call of EraseDecayTree for a head keeps it, ...
LEMMA EraseNextStep ==
  ASSUME LinkInv, NEW p \in LPs, EraseNext(p)
  PROVE  LinkInv'
<1>1. /\ phase = "cleaning" /\ loops = <<>> /\ p \in heads /\ loops' = Enter(Children(graph, p), p)
      /\ heads' = heads \ {p} /\ UNCHANGED hepmc
      /\ graph' = graph /\ phase' = phase /\ next' = next
  BY DEF EraseNext
<1>2. /\ Event /\ GraphTypeOK /\ Structure(graph) /\ graph \in GraphType /\ heads \in SUBSET LPs
      /\ (Unmixed /\ Undoubled => ~graph.failed)
  BY <1>1 DEF LinkInv, GraphTypeOK
<1>. HIDE DEF LinkInv, EraseNext
<1>3. /\ Len(loops') = 1 /\ loops'[1].left = Children(graph, p) /\ loops'[1].parent = p
      /\ loops' = <<[left |-> Children(graph, p), parent |-> p]>>
  BY <1>1, InEnter
<1>4. CleanFrames(graph', loops')
  <2>1. \A i \in 1..Len(loops') : i = 1
    BY <1>3
  <2>. QED BY <2>1, <1>1, <1>3 DEF CleanFrames
<1>5. loops' \in Seq(Frame)
  <2>1. [left |-> Children(graph, p), parent |-> p] \in Frame
    BY <1>2, ChildrenAre DEF Frame
  <2>. QED BY <2>1, <1>3
<1>6. GraphTypeOK'
  BY <1>1, <1>2, <1>5 DEF GraphTypeOK
<1>. QED BY <1>1, <1>2, <1>4, <1>6, SameEvent, SameWays, SameGrown DEF LinkInv

\* ... for a child too, ...
LEMMA EraseDecayTreeStep == LinkInv /\ EraseDecayTree => LinkInv'
<1>. SUFFICES ASSUME LinkInv, EraseDecayTree PROVE LinkInv'
  OBVIOUS
<1>1. /\ phase = "cleaning" /\ InLoop /\ loops' = Enter(Children(graph, Part), Part) \o Rest
      /\ UNCHANGED hepmc /\ graph' = graph /\ phase' = phase /\ next' = next /\ heads' = heads
  BY DEF EraseDecayTree
<1>2. /\ Event /\ GraphTypeOK /\ Structure(graph) /\ graph \in GraphType /\ loops \in Seq(Frame)
      /\ CleanFrames(graph, loops) /\ (Unmixed /\ Undoubled => ~graph.failed)
  BY <1>1 DEF LinkInv, GraphTypeOK
<1>3. loops # <<>> /\ Part \in loops[1].left /\ Part \in LPs /\ Rest = Less(loops, Part)
  BY <1>1, <1>2, NextCall
<1>. HIDE DEF LinkInv, EraseDecayTree
<1>4. loops' = Push(loops, Part, Children(graph, Part), Part)
  BY <1>1, <1>3 DEF Push
<1>5. loops' \in Seq(Frame) /\ CleanFrames(graph, loops')
  BY <1>2, <1>3, <1>4, EraseCall
<1>6. GraphTypeOK'
  BY <1>1, <1>2, <1>5 DEF GraphTypeOK
<1>. QED BY <1>1, <1>2, <1>5, <1>6, SameEvent, SameWays, SameGrown DEF LinkInv

\* ... and so does EraseLinkedParticle.
LEMMA EraseParentStep == LinkInv /\ EraseParent => LinkInv'
<1>. SUFFICES ASSUME LinkInv, EraseParent PROVE LinkInv'
  OBVIOUS
<1>1. /\ phase = "cleaning" /\ LoopEnded /\ graph' = EraseLinkedParticle(graph, Parent)
      /\ loops' = Tail(loops) /\ UNCHANGED hepmc /\ phase' = phase /\ next' = next /\ heads' = heads
  BY DEF EraseParent
<1>2. /\ Event /\ GraphTypeOK /\ Structure(graph) /\ graph \in GraphType /\ loops \in Seq(Frame)
      /\ CleanFrames(graph, loops) /\ (Unmixed /\ Undoubled => ~graph.failed)
  BY <1>1 DEF LinkInv, GraphTypeOK
<1>3. loops # <<>> /\ loops[1].left = {} /\ Parent = loops[1].parent
  BY <1>1, <1>2 DEF LoopEnded, Parent
<1>. HIDE DEF LinkInv, EraseParent
<1>4. /\ loops[1].parent \in LPs
      /\ Structure(EraseLinkedParticle(graph, loops[1].parent))
      /\ Tail(loops) \in Seq(Frame)
      /\ CleanFrames(EraseLinkedParticle(graph, loops[1].parent), Tail(loops))
  BY <1>2, <1>3, EraseReturn
<1>5. graph'.failed = graph.failed
  <2>1. EraseLinkedParticle(graph, loops[1].parent).failed = graph.failed
    BY <1>2, <1>4, ErasedSame
  <2>. QED BY <2>1, <1>1, <1>3
<1>6. Structure(graph') /\ CleanFrames(graph', loops') /\ loops' \in Seq(Frame)
  BY <1>1, <1>3, <1>4
<1>7. GraphTypeOK'
  BY <1>1, <1>2, <1>6 DEF GraphTypeOK, Structure
<1>. QED BY <1>1, <1>2, <1>5, <1>6, <1>7, SameEvent, SameWays, SameGrown DEF LinkInv

\* The end of the clean-up keeps it.
LEMMA DeliverStep == LinkInv /\ Deliver => LinkInv'
<1>. SUFFICES ASSUME LinkInv, Deliver PROVE LinkInv'
  OBVIOUS
<1>1. /\ phase = "cleaning" /\ phase' = "delivered" /\ UNCHANGED hepmc
      /\ graph' = graph /\ loops' = loops /\ next' = next /\ heads' = heads
  BY DEF Deliver
<1>2. GraphTypeOK'
  BY <1>1 DEF LinkInv, GraphTypeOK, Phases
<1>. QED BY <1>1, <1>2, SameEvent, SameWays, SameGrown DEF LinkInv

\* So does a step that changes nothing, ...
LEMMA LinkInvStutter == LinkInv /\ UNCHANGED vars => LinkInv'
<1>. SUFFICES ASSUME LinkInv, UNCHANGED vars PROVE LinkInv'
  OBVIOUS
<1>1. UNCHANGED hepmc /\ graph' = graph /\ phase' = phase /\ loops' = loops /\ next' = next
      /\ heads' = heads
  BY DEF vars
<1>2. GraphTypeOK'
  BY <1>1 DEF LinkInv, GraphTypeOK
<1>. QED BY <1>1, <1>2, SameEvent, SameWays, SameGraphs, SameGrown DEF LinkInv

\* ... and so every step.
LEMMA LinkInvNext == LinkInv /\ [Next]_vars => LinkInv'
<1>. SUFFICES ASSUME LinkInv, [Next]_vars PROVE LinkInv'
  OBVIOUS
<1>1. CASE MakeTracker \/ ChildConverter \/ AddToG4Event \/ Convert \/ Return \/ StartTracking
  BY <1>1, MakeTrackerStep, ChildConverterStep, AddToG4EventStep, ConvertStep, ReturnStep,
     StartTrackingStep
<1>2. CASE MakeTruth \/ EraseDecayTree \/ EraseParent \/ Deliver
  BY <1>2, MakeTruthStep, EraseDecayTreeStep, EraseParentStep, DeliverStep
<1>3. ASSUME NEW p \in LPs, RegisterPrimary(p) \/ Declare(p) \/ EraseNext(p) PROVE LinkInv'
  BY <1>3, RegisterPrimaryStep, DeclareStep, EraseNextStep
<1>4. CASE Terminated \/ UNCHANGED vars
  BY <1>4, LinkInvStutter DEF Terminated
<1>. QED BY <1>1, <1>2, <1>3, <1>4 DEF Next

\* The invariant holds in every state.
THEOREM LinkInvHolds == Spec => []LinkInv
BY LinkInvInit, LinkInvNext, PTL DEF Spec

\* Whatever the shape of the event, a particle that is not mixed with others
\* is linked to the nearest kept particles above it.
THEOREM ParentsAreFromHepMC == Spec => []ParentsFromHepMC
<1>1. LinkInv => ParentsFromHepMC
  BY SettledOwnParents DEF LinkInv, ParentsFromHepMC, Grown
<1>. QED BY <1>1, LinkInvHolds, PTL

\* From the structure: VerifyStructure finds nothing.
LEMMA StructureFromRoots ==
  ASSUME Event, NEW g, Structure(g)
  PROVE  g.lps \subseteq Reached(Roots, [p \in LPs |-> Children(g, p)])
<1>. DEFINE step == [p \in LPs |-> Children(g, p)]
            R == Reached(Roots, step)
<1>0. g \in GraphType /\ g.lps \subseteq LPs /\ LPs \subseteq Nat /\ IsFiniteSet(LPs) /\ Roots \subseteq LPs
  BY GraphTypes, ParticlesFinite, RootsLinked DEF Structure
<1>1. DOMAIN step = LPs /\ \A p \in LPs : step[p] = Children(g, p) /\ step[p] \subseteq LPs
  BY <1>0, ChildrenAre
<1>. HIDE DEF step
<1>2. Roots \subseteq R /\ \A p \in R : step[p] \subseteq R
  BY <1>0, <1>1, ReachedLeast
<1>. HIDE DEF R
<1>3. ASSUME g.lps \ R # {} PROVE FALSE
  <2>1. PICK c \in g.lps \ R : \A y \in g.lps \ R : c <= y
    <3>1. g.lps \ R \in SUBSET Nat
      BY <1>0
    <3>. QED BY <3>1, <1>3, LeastMember
  <2>2. PICK p \in g.lps : p < c /\ c \in Children(g, p)
    BY <2>1, <1>2 DEF Structure, Rooted
  <2>3. p \in R
    <3>1. p \in Nat /\ c \in Nat
      BY <2>1, <2>2, <1>0
    <3>. QED BY <3>1, <2>1, <2>2
  <2>. QED BY <2>1, <2>2, <2>3, <1>0, <1>1, <1>2
<1>. QED BY <1>3 DEF R, step

\* Every particle is reached from the ones without children.
LEMMA StructureFromLeaves ==
  ASSUME NEW g, Structure(g)
  PROVE  g.lps \subseteq Reached({p \in g.lps : Children(g, p) = {}}, [p \in LPs |-> Parents(g, p)])
<1>. DEFINE step == [p \in LPs |-> Parents(g, p)]
            leaves == {p \in g.lps : Children(g, p) = {}}
            R == Reached(leaves, step)
<1>0. g \in GraphType /\ g.lps \subseteq LPs /\ IsFiniteSet(LPs) /\ leaves \subseteq LPs
  BY GraphTypes, ParticlesFinite DEF Structure
<1>1. DOMAIN step = LPs /\ \A p \in LPs : step[p] = Parents(g, p) /\ step[p] \subseteq LPs
  <2>1. \A p \in LPs : Parents(g, p) \subseteq LPs
    BY <1>0, GraphTypes DEF Parents
  <2>. QED BY <2>1
<1>. HIDE DEF step
<1>2. leaves \subseteq R /\ \A p \in R : step[p] \subseteq R
  BY <1>0, <1>1, ReachedLeast
<1>. HIDE DEF R
<1>3. ASSUME g.lps \ R # {} PROVE FALSE
  <2>1. g.lps \ R \in SUBSET LPs
    BY <1>0
  <2>2. PICK x \in g.lps \ R : Children(g, x) \cap (g.lps \ R) = {}
    BY <2>1, <1>3 DEF Structure, Acyclic
  <2>3. PICK c \in Children(g, x) : TRUE
    BY <2>2, <1>2
  <2>4. PICK v \in g.ends[x] : c \in g.outgoing[v]
    BY <2>3 DEF Children
  <2>5. v \in LPs /\ x \in g.incoming[v] /\ c \in g.lps /\ g.prod[c] = v
    BY <2>2, <2>4, <1>0, GraphTypes DEF Structure, LinksKnown
  <2>6. x \in Parents(g, c)
    BY <2>5, ParticlesFinite DEF Parents
  <2>7. c \in R /\ c \in LPs
    BY <2>2, <2>3, <2>5, <1>0
  <2>. QED BY <2>2, <2>6, <2>7, <1>1, <1>2
<1>. QED BY <1>3 DEF R, step, leaves

\* The three checks of VerifyStructure find nothing, and where no lines of descent
\* are mixed or doubled no link is refused.
THEOREM StructureIsVerified == Spec => []StructureVerified
<1>1. LinkInv => StructureVerified
  <2>. SUFFICES ASSUME LinkInv PROVE StructureVerified
    OBVIOUS
  <2>1. Event /\ (Unmixed /\ Undoubled => ~graph.failed)
    BY DEF LinkInv
  <2>2. phase \in {"tracking", "delivered"} => Structure(graph)
    BY DEF LinkInv, Grown
  <2>. HIDE DEF LinkInv
  <2>. QED BY <2>1, <2>2, StructureFromRoots, StructureFromLeaves DEF StructureVerified
<1>. QED BY <1>1, LinkInvHolds, PTL

-----------------------------------------------------------------------------
(* What descends from a particle that travels. *)

\* The linked particles that travel, and what descends from them.
Travellers == travels \cap K
Below == UNION {Descendants(t) : t \in Travellers}

\* Descendants are the ones with the particle as an ancestor.
LEMMA DescendantsAre ==
  ASSUME Event, NEW t \in Particles
  PROVE  /\ Descendants(t) \subseteq Particles
         /\ \A d \in Particles : d \in Descendants(t) <=> t \in AncestorsOf[d]
BY DEF Descendants

\* A particle that travels decays, and what descends from it meets nothing else.
LEMMA TravellerIs ==
  ASSUME Event, NEW t \in Travellers
  PROVE  /\ t \in K /\ t \in Particles /\ Daughters(t) # {} /\ Descendants(t) \subseteq kept
         /\ \A d \in Descendants(t) : mothers[d] \subseteq Descendants(t) \cup {t}
BY RootsLinked DEF Event, Travellers, MayTravel

\* What lies above a descendant of t descends from t, is t, or lies above t.
LEMMA AboveTraveller ==
  ASSUME Event, NEW t \in Travellers, NEW c \in Descendants(t)
  PROVE  /\ c \in Particles
         /\ Reached(mothers[c], Up) \subseteq Descendants(t) \cup {t}
         /\ AncestorsOf[c] \subseteq Descendants(t) \cup {t} \cup AncestorsOf[t]
<1>0. /\ t \in K /\ t \in Particles /\ c \in Particles /\ mothers[c] \in SUBSET Particles
      /\ \A d \in Descendants(t) : mothers[d] \subseteq Descendants(t) \cup {t}
  BY TravellerIs, DescendantsAre, MothersFirst
<1>1. Reached(mothers[c], Up) \subseteq Descendants(t) \cup {t}
  <2>. DEFINE C == Descendants(t) \cup {t}
  <2>1. mothers[c] \subseteq C /\ \A p \in C \cap Particles : p \notin K => mothers[p] \subseteq C
    BY <1>0
  <2>. HIDE DEF C
  <2>2. Reached(mothers[c], Up) \subseteq C
    BY <2>1, <1>0, UpIs
  <2>. QED BY <2>2 DEF C
<1>2. AncestorsOf[c] \subseteq Descendants(t) \cup {t} \cup AncestorsOf[t]
  <2>. DEFINE C == Descendants(t) \cup {t} \cup AncestorsOf[t]
  <2>1. mothers[c] \subseteq C
    BY <1>0
  <2>2. \A a \in C \cap Particles : mothers[a] \subseteq C
    <3>1. mothers[t] \subseteq AncestorsOf[t] /\ \A a \in AncestorsOf[t] : mothers[a] \subseteq AncestorsOf[t]
      BY <1>0, AncestorsAre
    <3>. QED BY <3>1, <1>0
  <2>. HIDE DEF C
  <2>3. AncestorsOf[c] \subseteq C
    BY <2>1, <2>2, <1>0, AncestorsAre
  <2>. QED BY <2>3 DEF C
<1>. QED BY <1>0, <1>1, <1>2

\* What descends from particles that travel is separate from the rest.
LEMMA BelowSeparate ==
  ASSUME Event
  PROVE  Below \in SUBSET Particles /\ Separate(Below)
<1>0. Below \in SUBSET Particles
  BY TravellerIs, DescendantsAre DEF Below
<1>1. ASSUME NEW c \in Particles, NEW p \in Nearest(mothers[c]), NEW d \in Daughters(p)
      PROVE  c \in Below <=> d \in Below
  <2>0. p \in K /\ p \in Particles /\ d \in Particles /\ p \in mothers[d]
        /\ p \in Reached(mothers[c], Up) /\ p \in AncestorsOf[c] /\ p \in AncestorsOf[d]
    <3>1. p \in K /\ p \in Particles /\ d \in Particles /\ p \in mothers[d]
          /\ p \in Reached(mothers[c], Up)
      BY <1>1, RootsLinked DEF Nearest, Daughters
    <3>. QED BY <3>1, AboveIsAncestor, AncestorsAre
  <2>1. ASSUME NEW t \in Travellers, c \in Descendants(t) PROVE d \in Descendants(t)
    <3>1. p \in Descendants(t) \cup {t}
      BY <2>0, <2>1, AboveTraveller
    <3>2. t \in AncestorsOf[d]
      BY <3>1, <2>0, TravellerIs, DescendantsAre, AncestorsAre
    <3>. QED BY <3>2, <2>0, TravellerIs, DescendantsAre
  <2>2. ASSUME NEW t \in Travellers, d \in Descendants(t) PROVE c \in Descendants(t)
    <3>1. p \in Descendants(t) \cup {t}
      BY <2>0, <2>2, TravellerIs
    <3>2. t \in AncestorsOf[c]
      BY <3>1, <2>0, TravellerIs, DescendantsAre, AncestorsAre
    <3>. QED BY <3>2, TravellerIs, DescendantsAre
  <2>. QED BY <2>1, <2>2 DEF Below
<1>2. ASSUME NEW d \in Below, NEW x \in mothers[d] PROVE x \in kept
  <2>1. PICK t \in Travellers : d \in Descendants(t)
    BY DEF Below
  <2>2. x \in Descendants(t) \cup {t}
    BY <2>1, <1>2, TravellerIs
  <2>. QED BY <2>2, TravellerIs DEF K
<1>3. Separate(Below)
  BY <1>1, <1>2 DEF Separate
<1>. QED BY <1>0, <1>3

\* q is the nearest particle above p that travels, if there is one.
Mother(p, q) ==
  \/ q = None /\ AncestorsOf[p] \cap Travellers = {}
  \/ /\ q \in AncestorsOf[p] \cap Travellers
     /\ \A t \in AncestorsOf[p] \cap Travellers : t = q \/ t \in AncestorsOf[q]

\* The particles that travel above another are on one line.
LEMMA TravellersOrdered ==
  ASSUME Event, NEW p \in Particles, NEW t \in AncestorsOf[p] \cap Travellers,
         NEW u \in AncestorsOf[p] \cap Travellers
  PROVE  t = u \/ t \in AncestorsOf[u] \/ u \in AncestorsOf[t]
<1>1. t \in Travellers /\ u \in Travellers /\ t \in Particles /\ u \in Particles
  BY TravellerIs
<1>2. p \in Descendants(t)
  BY <1>1, DescendantsAre
<1>3. u \in Descendants(t) \cup {t} \cup AncestorsOf[t]
  BY <1>1, <1>2, AboveTraveller
<1>. QED BY <1>1, <1>3, DescendantsAre

\* There is at most one such q ...
LEMMA MotherOnly ==
  ASSUME Event, NEW p \in Particles, NEW q, NEW r, Mother(p, q), Mother(p, r)
  PROVE  q = r
<1>1. CASE q = None \/ r = None
  BY <1>1, TravellerIs, ParticlesFinite DEF Mother
<1>2. CASE q # None /\ r # None
  <2>1. q \in AncestorsOf[p] \cap Travellers /\ r \in AncestorsOf[p] \cap Travellers
        /\ (q = r \/ (q \in AncestorsOf[r] /\ r \in AncestorsOf[q]))
    BY <1>2 DEF Mother
  <2>2. q \in Particles /\ r \in Particles /\ q \in Nat /\ r \in Nat
    BY <2>1, TravellerIs, ParticlesFinite
  <2>3. q \in AncestorsOf[r] => q < r
    BY <2>2, AncestorsAre
  <2>4. r \in AncestorsOf[q] => r < q
    BY <2>2, AncestorsAre
  <2>. QED BY <2>1, <2>2, <2>3, <2>4
<1>. QED BY <1>1, <1>2

\* ... and there is one.
LEMMA MotherIs ==
  ASSUME Event, NEW p \in Particles
  PROVE  \E q \in Travellers \cup {None} : Mother(p, q)
<1>. DEFINE A == AncestorsOf[p] \cap Travellers
<1>1. CASE A = {}
  BY <1>1 DEF Mother
<1>2. CASE A # {}
  <2>. DEFINE N == {Generated - t : t \in A}
  <2>1. \A t \in A : t \in Particles /\ t \in Nat /\ t <= Generated /\ Generated - t \in Nat
    <3>1. Generated \in Nat
      BY ParticlesFinite
    <3>. QED BY <3>1, TravellerIs DEF Particles
  <2>2. N \in SUBSET Nat /\ N # {}
    BY <2>1, <1>2
  <2>3. PICK n \in N : \A k \in N : n <= k
    BY <2>2, LeastMember
  <2>4. PICK q \in A : n = Generated - q
    OBVIOUS
  <2>5. \A t \in A : t <= q
    <3>1. \A t \in A : Generated - q <= Generated - t
      BY <2>3, <2>4
    <3>2. Generated \in Nat
      BY ParticlesFinite
    <3>. QED BY <3>1, <3>2, <2>1
  <2>6. \A t \in A : t = q \/ t \in AncestorsOf[q]
    <3>. SUFFICES ASSUME NEW t \in A PROVE t = q \/ t \in AncestorsOf[q]
      OBVIOUS
    <3>1. t = q \/ t \in AncestorsOf[q] \/ q \in AncestorsOf[t]
      BY TravellersOrdered
    <3>2. q \in AncestorsOf[t] => q < t
      BY <2>1, AncestorsAre
    <3>. QED BY <3>1, <3>2, <2>1, <2>5
  <2>. QED BY <2>6 DEF Mother
<1>. QED BY <1>1, <1>2

\* Between two linked particles of a line, the upper one is linked to a particle
\* on the way down to the other.
LEMMA LinkedBetween ==
  ASSUME Event, NEW x \in K, NEW y \in AncestorsOf[x], y \in K
  PROVE  \E z \in K : y \in Nearest(mothers[z]) /\ (z = x \/ z \in AncestorsOf[x])
<1>0. x \in Particles /\ K \subseteq Particles /\ Particles \subseteq Nat /\ \A z \in K : mothers[z] \in SUBSET Particles
  BY RootsLinked, ParticlesFinite, MothersFirst
<1>. DEFINE S == {w \in K : (w = x \/ w \in AncestorsOf[x]) /\ y \in AncestorsOf[w]}
<1>1. S \in SUBSET Nat /\ x \in S
  BY <1>0
<1>2. PICK z \in S : \A w \in S : z <= w
  BY <1>1, LeastMember
<1>. DEFINE R == Reached(mothers[z], Up)
<1>3. /\ mothers[z] \subseteq R /\ R \subseteq Particles
      /\ \A p \in R : p \notin K => mothers[p] \subseteq R
  BY <1>0, UpIs
<1>4. R \subseteq AncestorsOf[z]
  BY <1>0, AboveIsAncestor
<1>. DEFINE C == R \cup UNION {AncestorsOf[w] : w \in R \cap K}
<1>5. mothers[z] \subseteq C
  BY <1>3
<1>6. \A a \in C \cap Particles : mothers[a] \subseteq C
  <2>. SUFFICES ASSUME NEW a \in C \cap Particles, NEW m \in mothers[a] PROVE m \in C
    OBVIOUS
  <2>1. CASE a \in R /\ a \notin K
    BY <2>1, <1>3
  <2>2. CASE a \in R /\ a \in K
    <3>1. m \in AncestorsOf[a]
      BY AncestorsAre
    <3>. QED BY <3>1, <2>2
  <2>3. ASSUME NEW w \in R \cap K, a \in AncestorsOf[w] PROVE m \in C
    <3>1. m \in AncestorsOf[w]
      BY <2>3, <1>0, AncestorsAre
    <3>. QED BY <3>1
  <2>. QED BY <2>1, <2>2, <2>3
<1>. HIDE DEF C
<1>7. AncestorsOf[z] \subseteq C
  BY <1>5, <1>6, <1>0, AncestorsAre
<1>8. ASSUME NEW w \in R \cap K, y \in AncestorsOf[w] PROVE FALSE
  <2>1. w \in AncestorsOf[z] /\ w < z /\ w \in Nat /\ z \in Nat
    BY <1>0, <1>4, AncestorsAre
  <2>2. w \in S
    BY <2>1, <1>0, <1>8, AncestorsAre
  <2>. QED BY <2>1, <2>2, <1>2
<1>9. y \in R
  BY <1>7, <1>8 DEF C
<1>. QED BY <1>9 DEF Nearest

\* Where a particle travels, none lies between a particle and one it is linked to.
LEMMA NearestApart ==
  ASSUME Event, NEW c \in Below, NEW m \in Nearest(mothers[c]), NEW x \in AncestorsOf[c], x \in K
  PROVE  m \notin AncestorsOf[x]
<1>. SUFFICES ASSUME m \in AncestorsOf[x] PROVE FALSE
  OBVIOUS
<1>0. /\ c \in Particles /\ x \in Particles /\ m \in Particles /\ K \subseteq Particles
      /\ Particles \subseteq Nat /\ m < x /\ m \in Reached(mothers[c], Up) /\ x \notin OscillatedVersions
  <2>1. c \in Particles /\ K \subseteq Particles /\ Particles \subseteq Nat
    BY BelowSeparate, RootsLinked, ParticlesFinite
  <2>2. x \in Particles /\ x \notin OscillatedVersions /\ m \in K /\ m \in Reached(mothers[c], Up)
    BY <2>1 DEF Nearest, K
  <2>. QED BY <2>1, <2>2, AncestorsAre
<1>1. Reached(mothers[c], Up) \subseteq kept
  <2>1. PICK t \in Travellers : c \in Descendants(t)
    BY DEF Below
  <2>. QED BY <2>1, AboveTraveller, TravellerIs DEF K
<1>2. PICK y \in Above(c) : y \in Particles /\ m \in mothers[y]
  BY <1>0, WayDown
<1>3. CASE y = c
  <2>1. PICK b \in mothers[c] : x = b \/ x \in AncestorsOf[b]
    BY <1>0, AncestorVia
  <2>2. b \in Particles /\ m \in AncestorsOf[b]
    BY <2>1, <1>0, MothersFirst, AncestorsAre
  <2>3. PICK z \in Daughters(m) : z = b \/ z \in AncestorsOf[b]
    BY <2>2, <1>0, Between
  <2>4. c \in Daughters(m) /\ mothers[z] = mothers[c] /\ z \in Particles
    <3>1. c \in Daughters(m)
      BY <1>2, <1>3, <1>0 DEF Daughters
    <3>. QED BY <3>1, <2>3, <1>0, EndVertexIs
  <2>5. b < z
    BY <2>1, <2>4, MothersFirst
  <2>6. z = b \/ z < b
    BY <2>2, <2>3, AncestorsAre
  <2>. QED BY <2>2, <2>4, <2>5, <2>6, <1>0
<1>4. CASE y # c
  <2>1. y \in Reached(mothers[c], Up) /\ y \in OscillatedVersions
    BY <1>1, <1>2, <1>4 DEF Above, K
  <2>2. PICK p \in oscillates : y = HasOscillated(p) /\ p \in Particles
    BY <2>1, OscillatedFrom
  <2>3. mothers[y] = {p} /\ p = m /\ \A d \in Daughters(y) : mothers[d] = {y}
    BY <2>2, <1>2, OscillatedIs
  <2>4. PICK y2 \in Above(c) : y2 \in Particles /\ y \in mothers[y2]
    BY <2>1, <1>0, WayDown
  <2>5. y2 \in Daughters(y) /\ mothers[y2] = {y}
    BY <2>3, <2>4 DEF Daughters
  <2>6. CASE y2 = c
    <3>1. PICK b \in mothers[c] : x = b \/ x \in AncestorsOf[b]
      BY <1>0, AncestorVia
    <3>2. b = y /\ x # y
      BY <3>1, <2>1, <2>5, <2>6, <1>0
    <3>3. PICK e \in mothers[y] : x = e \/ x \in AncestorsOf[e]
      BY <3>1, <3>2, <1>2, AncestorVia
    <3>4. e = m
      BY <3>3, <2>3
    <3>5. x = m \/ x < m
      BY <3>3, <3>4, <1>0, AncestorsAre
    <3>. QED BY <3>5, <1>0
  <2>7. CASE y2 # c
    <3>1. y2 \in OscillatedVersions
      BY <1>1, <2>4, <2>7 DEF Above, K
    <3>2. PICK p2 \in oscillates : y2 = HasOscillated(p2) /\ p2 \in Particles
      BY <3>1, OscillatedFrom
    <3>3. p2 = y
      BY <3>2, <2>5, OscillatedIs
    <3>. QED BY <3>3, <2>1 DEF Event
  <2>. QED BY <2>6, <2>7
<1>. QED BY <1>3, <1>4

-----------------------------------------------------------------------------
(* What is given to Geant4, and with which mother. *)

\* What Geant4 is to track, if there is an event for it.
ForG4 == {p \in K : ForGeant4(p)}

\* What is given to Geant4 travels or does not decay.
LEMMA ForG4Is ==
  ASSUME Event
  PROVE  /\ ForG4 \subseteq K /\ Travellers \subseteq ForG4
         /\ \A p \in ForG4 : Daughters(p) # {} => p \in Travellers
         /\ \A p \in K \ ForG4 : Daughters(p) # {} /\ p \notin Travellers
BY DEF ForG4, ForGeant4, Travellers, K

\* A child that descends from a particle that travels is a child of its nearest
\* linked ancestors only.
LEMMA ChildBelow ==
  ASSUME Event, NEW g, Settled(g), NEW x \in K, NEW c \in Children(g, x), c \in Particles
  PROVE  /\ c \in K /\ Daughters(x) # {} /\ x \in Parents(g, c)
         /\ x \in Below \cup Travellers => c \in Below
         /\ c \in Below => x \in Nearest(mothers[c]) /\ x \in AncestorsOf[c] /\ x \in Below \cup Travellers
<1>0. /\ g \in GraphType /\ LinksAgree(g) /\ K \subseteq LPs /\ Particles \subseteq LPs /\ K \subseteq Particles
  BY RootsLinked, ParticlesFinite DEF Settled
<1>1. x \in Parents(g, c)
  BY <1>0, ChildrenAre
<1>2. g.prod[c] # None /\ x \in g.incoming[g.prod[c]]
  BY <1>1 DEF Parents
<1>3. c \in K /\ g.prod[c] \in Particles
  BY <1>0, <1>2 DEF LinksAgree
<1>4. OneOrigin(g, Below)
  BY BelowSeparate DEF Settled
<1>5. /\ Daughters(x) # {} /\ \A d \in Daughters(x) : d \in Below <=> g.prod[c] \in Below
      /\ c \in Below <=> g.prod[c] \in Below
  BY <1>2, <1>3, <1>4 DEF OneOrigin
<1>6. PICK d \in Daughters(x) : TRUE
  BY <1>5
<1>7. d \in Particles /\ x \in mothers[d] /\ x \in AncestorsOf[d] /\ x \in Particles
  BY <1>0, <1>6, AncestorsAre DEF Daughters
<1>8. x \in Below \cup Travellers => c \in Below
  <2>1. ASSUME NEW t \in Travellers, x \in Descendants(t) \cup {t} PROVE d \in Below
    <3>1. t \in AncestorsOf[d]
      BY <2>1, <1>7, TravellerIs, DescendantsAre, AncestorsAre
    <3>2. d \in Descendants(t)
      BY <3>1, <1>7, TravellerIs, DescendantsAre
    <3>. QED BY <3>2 DEF Below
  <2>2. x \in Below \cup Travellers => d \in Below
    BY <2>1 DEF Below
  <2>. QED BY <2>2, <1>5, <1>6
<1>9. ASSUME c \in Below
      PROVE  x \in Nearest(mothers[c]) /\ x \in AncestorsOf[c] /\ x \in Below \cup Travellers
  <2>1. x \in Nearest(mothers[c])
    BY <1>1, <1>3, <1>9, BelowSeparate, OneOriginParents
  <2>2. x \in Reached(mothers[c], Up)
    BY <2>1 DEF Nearest
  <2>3. PICK t \in Travellers : c \in Descendants(t)
    BY <1>9 DEF Below
  <2>4. x \in Descendants(t) \cup {t}
    BY <2>2, <2>3, AboveTraveller
  <2>. QED BY <2>1, <2>2, <2>4, AboveIsAncestor DEF Below
<1>. QED BY <1>1, <1>3, <1>5, <1>8, <1>9

\* The mother of a child is the particle itself if it travels, else its mother.
LEMMA ChildMother ==
  ASSUME Event, NEW g, Settled(g), NEW x \in K, NEW c \in Children(g, x), c \in Particles,
         NEW q, Mother(x, q)
  PROVE  Mother(c, IF x \in Travellers THEN x ELSE q)
<1>0. x \in Particles /\ Particles \subseteq Nat
  BY RootsLinked, ParticlesFinite
<1>1. /\ x \in Below \cup Travellers => c \in Below
      /\ c \in Below => x \in Nearest(mothers[c]) /\ x \in AncestorsOf[c] /\ x \in Below \cup Travellers
  BY ChildBelow
<1>2. \A p \in Particles : \A t \in Travellers : t \in AncestorsOf[p] <=> p \in Descendants(t)
  BY TravellerIs, DescendantsAre
<1>3. CASE c \notin Below
  <2>1. x \notin Travellers /\ AncestorsOf[x] \cap Travellers = {} /\ AncestorsOf[c] \cap Travellers = {}
    BY <1>0, <1>1, <1>2, <1>3 DEF Below
  <2>. QED BY <2>1 DEF Mother
<1>4. CASE c \in Below
  <2>1. x \in Reached(mothers[c], Up) /\ x \in AncestorsOf[c] /\ AncestorsOf[x] \subseteq AncestorsOf[c]
    BY <1>1, <1>4, AncestorsAre DEF Nearest
  <2>2. ASSUME NEW t \in AncestorsOf[c] \cap Travellers PROVE t = x \/ t \in AncestorsOf[x]
    <3>1. c \in Descendants(t)
      BY <1>2
    <3>2. x \in Descendants(t) \cup {t}
      BY <2>1, <3>1, AboveTraveller
    <3>. QED BY <3>2, <1>0, <1>2
  <2>3. CASE x \in Travellers
    BY <2>1, <2>2, <2>3 DEF Mother
  <2>4. CASE x \notin Travellers
    <3>1. AncestorsOf[c] \cap Travellers = AncestorsOf[x] \cap Travellers
      BY <2>1, <2>2, <2>4
    <3>. QED BY <3>1, <2>4 DEF Mother
  <2>. QED BY <2>3, <2>4
<1>. QED BY <1>3, <1>4

\* Some loop has still to call for x, or for an ancestor of it, with the mother q.
OnTheWay(l, x, q) == \E y : InFrame(l, y, q) /\ (y = x \/ y \in AncestorsOf[x])

\* What has been given to Geant4 has its nearest such ancestor as mother.
Primaries(g) ==
  /\ g.primaries \subseteq ForG4
  /\ \A p \in g.primaries : Mother(p, g.mother[p]) /\ g.mother[p] \in g.primaries \cup {None}

\* What is called for gets the right mother.
MotherFrames(g, l) ==
  \A y, q : InFrame(l, y, q) => y \in K /\ q \in g.primaries \cup {None} /\ Mother(y, q)

\* What is not given to Geant4 yet, though its mother is, will be.
AllOnTheWay(g, l) ==
  \A x \in ForG4 \ g.primaries : \A q \in g.primaries \cup {None} :
    Mother(x, q) => OnTheWay(l, x, q)

Converting(g, l) == Primaries(g) /\ MotherFrames(g, l) /\ AllOnTheWay(g, l)

\* Of two particles with the same mother neither is given to Geant4 above the other.
LEMMA NoneBetween ==
  ASSUME Event, NEW x \in ForG4, NEW y \in Particles, x \in AncestorsOf[y], NEW q,
         Mother(x, q), Mother(y, q)
  PROVE  FALSE
<1>0. x \in K /\ x \in Particles /\ Particles \subseteq Nat /\ None \notin Particles
  BY RootsLinked, ParticlesFinite, ForG4Is
<1>1. Daughters(x) # {}
  BY Between
<1>2. x \in AncestorsOf[y] \cap Travellers
  BY <1>1, ForG4Is
<1>3. q # None /\ (x = q \/ x \in AncestorsOf[q])
  BY <1>2, <1>0, TravellerIs DEF Mother
<1>4. q \in AncestorsOf[x] /\ q \in Particles
  BY <1>3, <1>0, AncestorsAre DEF Mother
<1>5. q < x /\ (x = q \/ x < q)
  BY <1>0, <1>3, <1>4, AncestorsAre
<1>. QED BY <1>0, <1>4, <1>5

\* The call for x reaches its children, and what descends from them.
LEMMA ConvertingGoes ==
  ASSUME Event, NEW g, Settled(g), g.lps = K, NEW l \in Seq(Frame), l # <<>>, Converting(g, l),
         NEW x \in l[1].left, x \notin g.primaries, Children(g, x) \subseteq K
  PROVE  Converting(Given(g, x, l[1].parent),
                    Push(l, x, Children(g, x), IF ForGeant4(x) THEN x ELSE l[1].parent))
<1>. DEFINE q == l[1].parent
            r == IF ForGeant4(x) THEN x ELSE q
            S == Children(g, x)
            h == Given(g, x, q)
            m == Push(l, x, S, r)
<1>0. K \subseteq Particles /\ Particles \subseteq LPs /\ g \in GraphType /\ Particles \subseteq Nat /\ None \notin Particles
      /\ K \subseteq LPs
  BY RootsLinked, ParticlesFinite DEF Settled
<1>1. InFrame(l, x, q)
  BY LessLoops DEF InFrame
<1>2. x \in K /\ x \in Particles /\ q \in g.primaries \cup {None} /\ Mother(x, q) /\ q \in Particles \cup {None}
  BY <1>0, <1>1, GraphTypes DEF Converting, MotherFrames
<1>3. r \in LPs \cup {None} /\ S \in SUBSET LPs
  BY <1>0, <1>2, ChildrenAre
<1>4. ForGeant4(x) <=> x \in ForG4
  BY <1>2 DEF ForG4
<1>. HIDE DEF q
<1>5. /\ h.primaries = IF ForGeant4(x) THEN g.primaries \cup {x} ELSE g.primaries
      /\ h.mother = IF ForGeant4(x) THEN [g.mother EXCEPT ![x] = q] ELSE g.mother
  BY <1>0, <1>2, GivenEffect
<1>. HIDE DEF h
<1>6. ASSUME NEW c \in S PROVE c \in K /\ Mother(c, r) /\ Daughters(x) # {}
  <2>1. c \in K /\ c \in Particles
    BY <1>0, <1>6
  <2>2. Daughters(x) # {}
    BY <2>1, <1>2, <1>6, ChildBelow
  <2>3. x \in Travellers <=> ForGeant4(x)
    BY <2>2, <1>2, <1>4, ForG4Is
  <2>4. Mother(c, IF x \in Travellers THEN x ELSE q)
    BY <2>1, <1>2, <1>6, ChildMother
  <2>. QED BY <2>1, <2>2, <2>3, <2>4
<1>7. /\ \A y, z : InFrame(Push(l, x, S, r), y, z) => (y \in S /\ z = r) \/ InFrame(l, y, z)
      /\ \A y \in S : InFrame(Push(l, x, S, r), y, r)
      /\ \A y, z : InFrame(l, y, z) /\ ~(y = x /\ z = l[1].parent)
                   => InFrame(Push(l, x, S, r), y, z)
  BY <1>3, InPush
<1>8. ASSUME NEW y \in K, x \in AncestorsOf[y] PROVE OnTheWay(m, y, r)
  <2>1. PICK z \in K : x \in Nearest(mothers[z]) /\ (z = y \/ z \in AncestorsOf[y])
    BY <1>2, <1>8, LinkedBetween
  <2>2. x \in Parents(g, z) /\ z \in LPs /\ x \in LPs
    BY <2>1, <1>0, <1>2 DEF Settled
  <2>3. z \in S
    BY <2>2, <1>0, ChildrenAre DEF Settled
  <2>. QED BY <2>1, <2>3, <1>7 DEF OnTheWay
<1>9. Primaries(h)
  <2>1. g.primaries \subseteq ForG4 /\ \A p \in g.primaries : Mother(p, g.mother[p]) /\ g.mother[p] \in g.primaries \cup {None}
    BY DEF Converting, Primaries
  <2>2. CASE ForGeant4(x)
    <3>1. h.primaries = g.primaries \cup {x} /\ h.mother[x] = q /\ \A p \in g.primaries : h.mother[p] = g.mother[p]
      <4>1. g.mother \in [LPs -> Particles \cup {None}] /\ x \in LPs /\ g.primaries \subseteq LPs
        BY <1>0, <1>2 DEF GraphType
      <4>. QED BY <4>1, <1>5, <2>2
    <3>. QED BY <2>1, <2>2, <3>1, <1>2, <1>4 DEF Primaries
  <2>3. CASE ~ForGeant4(x)
    BY <2>1, <2>3, <1>5 DEF Primaries
  <2>. QED BY <2>2, <2>3
<1>10. g.primaries \subseteq h.primaries /\ r \in h.primaries \cup {None}
       /\ h.primaries \subseteq g.primaries \cup {x} /\ (ForGeant4(x) => x \in h.primaries)
       /\ (~ForGeant4(x) => h.primaries = g.primaries)
  BY <1>2, <1>5
<1>. HIDE DEF r, S, m
<1>11. MotherFrames(h, m)
  <2>1. \A y, z : InFrame(m, y, z) => (y \in S /\ z = r) \/ InFrame(l, y, z)
    BY <1>7 DEF m
  <2>2. \A y, z : InFrame(l, y, z) => y \in K /\ z \in g.primaries \cup {None} /\ Mother(y, z)
    BY DEF Converting, MotherFrames
  <2>. QED BY <2>1, <2>2, <1>6, <1>10 DEF MotherFrames
<1>12. AllOnTheWay(h, m)
  <2>. SUFFICES ASSUME NEW y \in ForG4 \ h.primaries, NEW z \in h.primaries \cup {None}, Mother(y, z)
                PROVE  OnTheWay(m, y, z)
    BY DEF AllOnTheWay
  <2>0. y \in K /\ y \in Particles /\ y \notin g.primaries
    BY <1>0, <1>10 DEF ForG4
  <2>1. CASE z \notin g.primaries \cup {None}
    <3>1. z = x /\ x \in AncestorsOf[y] /\ ForGeant4(x)
      BY <2>1, <1>10 DEF Mother
    <3>2. r = x
      BY <3>1 DEF r
    <3>. QED BY <3>1, <3>2, <2>0, <1>8
  <2>2. CASE z \in g.primaries \cup {None}
    <3>1. PICK e : InFrame(l, e, z) /\ (e = y \/ e \in AncestorsOf[y])
      BY <2>0, <2>2 DEF Converting, AllOnTheWay, OnTheWay
    <3>2. CASE ~(e = x /\ z = q)
      BY <3>1, <3>2, <1>7 DEF OnTheWay, m, q
    <3>3. CASE e = x /\ z = q /\ ForGeant4(x)
      <4>1. x # y
        BY <3>3, <1>10
      <4>2. x \in AncestorsOf[y]
        BY <3>1, <3>3, <4>1
      <4>. QED BY <4>2, <3>3, <2>0, <1>2, <1>4, NoneBetween
    <3>4. CASE e = x /\ z = q /\ ~ForGeant4(x)
      <4>1. x # y
        BY <3>4, <1>4
      <4>2. x \in AncestorsOf[y] /\ r = q
        BY <3>1, <3>4, <4>1 DEF r
      <4>. QED BY <4>2, <3>4, <2>0, <1>8
    <3>. QED BY <3>2, <3>3, <3>4
  <2>. QED BY <2>1, <2>2
<1>. QED BY <1>9, <1>11, <1>12 DEF Converting, h, m, r, q, S

\* The call for a particle that has been given to Geant4 does nothing.
LEMMA ConvertingSkips ==
  ASSUME Event, NEW g, NEW l \in Seq(Frame), l # <<>>, Converting(g, l),
         NEW x \in l[1].left, x \in g.primaries
  PROVE  Converting(g, Less(l, x))
<1>. DEFINE q == l[1].parent
            m == Less(l, x)
<1>1. x \in ForG4 /\ x \in Particles /\ InFrame(l, x, q) /\ ForG4 \subseteq Particles
  BY LessLoops, ForG4Is, RootsLinked DEF Converting, Primaries, InFrame
<1>2. Mother(x, q)
  BY <1>1 DEF Converting, MotherFrames
<1>3. /\ \A y, z : InFrame(m, y, z) => InFrame(l, y, z)
      /\ \A y, z : InFrame(l, y, z) /\ ~(y = x /\ z = q) => InFrame(m, y, z)
  BY InLess
<1>. HIDE DEF m, q
<1>4. MotherFrames(g, m)
  BY <1>3 DEF Converting, MotherFrames
<1>5. ASSUME NEW y \in ForG4 \ g.primaries, NEW z \in g.primaries \cup {None}, Mother(y, z)
      PROVE  OnTheWay(m, y, z)
  <2>1. PICK e : InFrame(l, e, z) /\ (e = y \/ e \in AncestorsOf[y])
    BY <1>5 DEF Converting, AllOnTheWay, OnTheWay
  <2>2. CASE e = x /\ z = q
    <3>1. x \in AncestorsOf[y]
      BY <2>1, <2>2, <1>5
    <3>. QED BY <3>1, <2>2, <1>1, <1>2, <1>5, NoneBetween
  <2>3. CASE ~(e = x /\ z = q)
    BY <2>1, <2>3, <1>3 DEF OnTheWay
  <2>. QED BY <2>2, <2>3
<1>6. AllOnTheWay(g, m)
  BY <1>5 DEF AllOnTheWay
<1>. QED BY <1>4, <1>6 DEF Converting, m

\* Only the calls to come count.
LEMMA ConvertingReturns ==
  ASSUME NEW g, NEW l \in Seq(Frame), l # <<>>, l[1].left = {}, Converting(g, l)
  PROVE  Converting(g, Tail(l))
<1>1. \A y, z : InFrame(Tail(l), y, z) <=> InFrame(l, y, z)
  BY InTail
<1>2. MotherFrames(g, Tail(l))
  BY <1>1 DEF Converting, MotherFrames
<1>3. AllOnTheWay(g, Tail(l))
  BY <1>1 DEF Converting, AllOnTheWay, OnTheWay
<1>. QED BY <1>2, <1>3 DEF Converting

\* Nothing is given to Geant4 at the beginning.
LEMMA ConvertingBegins ==
  ASSUME Event, NEW g, g.primaries = {}
  PROVE  Converting(g, Enter(Roots, None))
<1>. DEFINE l == Enter(Roots, None)
<1>1. \A y, z : InFrame(l, y, z) <=> y \in Roots /\ z = None
  BY InEnter
<1>. HIDE DEF l
<1>2. \A r \in Roots : Mother(r, None)
  BY RootsLinked DEF Roots, Mother, Travellers
<1>3. MotherFrames(g, l)
  BY <1>1, <1>2, RootsLinked DEF MotherFrames
<1>4. AllOnTheWay(g, l)
  <2>. SUFFICES ASSUME NEW x \in ForG4 PROVE OnTheWay(l, x, None)
    BY DEF AllOnTheWay
  <2>1. PICK r \in Roots : r = x \/ r \in AncestorsOf[x]
    BY RootAbove, RootsLinked, ForG4Is
  <2>. QED BY <2>1, <1>1 DEF OnTheWay
<1>. QED BY <1>3, <1>4 DEF Converting, Primaries, l

\* When every call has returned, Geant4 has what it is to have.
LEMMA ConvertingEnds ==
  ASSUME Event, NEW g, Converting(g, <<>>)
  PROVE  Primaries(g) /\ g.primaries = ForG4
<1>1. g.primaries \subseteq ForG4
  BY DEF Converting, Primaries
<1>2. ForG4 \subseteq Particles /\ Particles \subseteq Nat
  BY ForG4Is, RootsLinked, ParticlesFinite
<1>3. ASSUME ForG4 \ g.primaries # {} PROVE FALSE
  <2>1. ForG4 \ g.primaries \in SUBSET Nat
    BY <1>2
  <2>2. PICK x \in ForG4 \ g.primaries : \A y \in ForG4 \ g.primaries : x <= y
    BY <2>1, <1>3, LeastMember
  <2>3. PICK q \in Travellers \cup {None} : Mother(x, q)
    BY <1>2, MotherIs
  <2>4. q \in g.primaries \cup {None}
    <3>. SUFFICES ASSUME q # None, q \notin g.primaries PROVE FALSE
      OBVIOUS
    <3>1. q \in AncestorsOf[x] /\ q \in ForG4
      BY <2>3, ForG4Is DEF Mother
    <3>2. q < x /\ x <= q
      BY <3>1, <2>2, <1>2, AncestorsAre
    <3>. QED BY <3>1, <3>2, <1>2
  <2>5. OnTheWay(<<>>, x, q)
    BY <2>3, <2>4 DEF Converting, AllOnTheWay
  <2>. QED BY <2>5, InEnter DEF OnTheWay
<1>. QED BY <1>1, <1>3 DEF Converting

-----------------------------------------------------------------------------
(* What Geant4 has tracked. *)

\* Before tracking nothing is known of Geant4's own tracks.
Untracked(g) ==
  /\ g.truth = {} /\ g.stale = FALSE
  /\ \A k \in LPs \ Particles : g.prod[k] = None /\ g.incoming[k] = {}

\* A particle of the generator is tracked after its mother, and what Geant4 made
\* comes from what was tracked.
Tracked(g, n) ==
  /\ g.primaries \in {{}, ForG4} /\ Primaries(g)
  /\ g.truth \cap Particles \subseteq g.primaries
  /\ \A p \in g.truth \cap Particles : g.mother[p] \in g.truth \cup {None}
  /\ g.primaries = {} => g.truth = {}
  /\ \A k \in LPs \ Particles :
       /\ k \in g.lps <=> k < n
       /\ k \in g.lps => k \in g.truth
       /\ g.prod[k] \notin Particles /\ g.incoming[k] \subseteq g.truth
  /\ g.stale = FALSE

\* The graph that linking makes ...
LEMMA LinkedUntracked ==
  ASSUME NEW g, LinkGraph(g)
  PROVE  Untracked(g)
<1>1. /\ g \in GraphType /\ g.truth = {} /\ g.stale = FALSE
      /\ \A k \in LPs \ Particles : g.prod[k] = None
      /\ \A v \in LPs : g.incoming[v] # {} => g.prod[v] = v
  BY DEF LinkGraph, FromGenerator, LinksAgree
<1>2. \A k \in LPs \ Particles : g.incoming[k] = {}
  BY <1>1, ParticlesFinite
<1>. QED BY <1>1, <1>2 DEF Untracked

\* ... and that convert has gone through, before the first track ends.
LEMMA TrackingBegins ==
  ASSUME Event, NEW g \in GraphType, Untracked(g), g.lps = K, g.primaries \in {{}, ForG4}, Primaries(g)
  PROVE  Tracked(g, Generated + 1)
<1>1. \A k \in LPs \ Particles : k \notin K /\ ~(k < Generated + 1)
  BY RootsLinked, ParticlesFinite, GraphAssumption DEF LPs, Particles
<1>. QED BY <1>1, ParticlesFinite DEF Untracked, Tracked

\* A primary is registered after its mother.
LEMMA RegisterTracked ==
  ASSUME Event, NEW g \in GraphType, NEW n, Tracked(g, n), NEW p \in g.primaries,
         g.mother[p] \in g.truth \cup {None}
  PROVE  Tracked([g EXCEPT !.truth = @ \cup {p}], n)
<1>. DEFINE h == [g EXCEPT !.truth = @ \cup {p}]
<1>1. /\ h.truth = g.truth \cup {p} /\ h.primaries = g.primaries /\ h.mother = g.mother
      /\ h.lps = g.lps /\ h.prod = g.prod /\ h.incoming = g.incoming /\ h.stale = g.stale
  BY DEF GraphType
<1>2. p \in Particles
  BY DEF GraphType
<1>. HIDE DEF h
<1>3. Primaries(h)
  BY <1>1 DEF Primaries, Tracked
<1>4. /\ h.truth \cap Particles \subseteq h.primaries
      /\ \A x \in h.truth \cap Particles : h.mother[x] \in h.truth \cup {None}
  BY <1>1 DEF Tracked
<1>5. \A k \in LPs \ Particles :
       /\ k \in h.lps <=> k < n
       /\ k \in h.lps => k \in h.truth
       /\ h.prod[k] \notin Particles /\ h.incoming[k] \subseteq h.truth
  BY <1>1 DEF Tracked
<1>6. h.primaries \in {{}, ForG4} /\ h.primaries # {} /\ h.stale = FALSE
  BY <1>1 DEF Tracked
<1>7. Tracked(h, n)
  BY <1>3, <1>4, <1>5, <1>6 DEF Tracked
<1>. QED BY <1>7 DEF h

\* A track of Geant4 comes from one that was recorded.
LEMMA DeclareTracked ==
  ASSUME Event, NEW g \in GraphType, NEW n \in LPs, n >= Generated + 1, Tracked(g, n),
         NEW p \in g.truth, NEW v \in {w \in g.ends[p] : w > Generated} \cup {n},
         NEW h, DeclaredAs(g, h, n, p, v)
  PROVE  Tracked(h, n + 1)
<1>0. /\ p \in LPs /\ v \in LPs /\ v \notin Particles /\ n \notin Particles /\ None \notin Particles
      /\ LPs \subseteq Nat /\ g.truth \subseteq LPs
  BY GraphTypes, ParticlesFinite, GraphAssumption DEF LPs, Particles, None
<1>1. /\ h.lps = g.lps \cup {n} /\ h.truth = g.truth \cup {n}
      /\ h.primaries = g.primaries /\ h.mother = g.mother
      /\ h.stale = g.stale
      /\ h.prod[n] = v /\ \A x \in LPs : x # n => h.prod[x] = g.prod[x]
      /\ \A x, w \in LPs : x \in h.incoming[w] <=> x \in g.incoming[w] \/ (x = p /\ w = v)
      /\ h \in GraphType
  BY <1>0, DeclaredEffect
<1>2. Primaries(h)
  BY <1>1 DEF Primaries, Tracked
<1>3. /\ h.truth \cap Particles \subseteq h.primaries
      /\ \A x \in h.truth \cap Particles : h.mother[x] \in h.truth \cup {None}
  BY <1>0, <1>1 DEF Tracked
<1>4. ASSUME NEW k \in LPs \ Particles
      PROVE  /\ k \in h.lps <=> k < n + 1
             /\ k \in h.lps => k \in h.truth
             /\ h.prod[k] \notin Particles /\ h.incoming[k] \subseteq h.truth
  <2>1. /\ k \in g.lps <=> k < n
        /\ k \in g.lps => k \in g.truth
        /\ g.prod[k] \notin Particles /\ g.incoming[k] \subseteq g.truth
    BY DEF Tracked
  <2>2. k < n + 1 <=> k < n \/ k = n
    BY <1>0
  <2>3. h.incoming[k] \subseteq LPs
    BY <1>1, GraphTypes
  <2>4. h.incoming[k] \subseteq h.truth
    BY <2>1, <2>3, <1>1
  <2>5. h.prod[k] \notin Particles
    BY <2>1, <1>0, <1>1
  <2>. QED BY <2>1, <2>2, <2>4, <2>5, <1>1
<1>5. h.primaries \in {{}, ForG4} /\ h.primaries # {} /\ h.stale = FALSE
  BY <1>1 DEF Tracked
<1>. QED BY <1>2, <1>3, <1>4, <1>5 DEF Tracked

-----------------------------------------------------------------------------
(* What has not happened. *)

Decayed(g, t) == \E d \in g.truth \cap Particles : g.mother[d] = t

HappenedIn(g, p) == \A t \in AncestorsOf[p] \cap g.primaries : Decayed(g, t)

\* What lies below a particle that did not decay as generated.
Lost(g) == {p \in K : ~HappenedIn(g, p)}

\* A particle is lost when one that travels above it has not decayed.
LEMMA LostIs ==
  ASSUME Event, NEW g, g.primaries = ForG4, NEW p \in Particles
  PROVE  HappenedIn(g, p) <=> \A t \in AncestorsOf[p] \cap Travellers : Decayed(g, t)
<1>1. AncestorsOf[p] \cap ForG4 = AncestorsOf[p] \cap Travellers
  <2>1. ASSUME NEW t \in AncestorsOf[p] \cap ForG4 PROVE t \in Travellers
    BY Between, ForG4Is
  <2>. QED BY <2>1, ForG4Is
<1>. QED BY <1>1 DEF HappenedIn

\* With nothing given to Geant4 nothing is lost.
LEMMA NothingLost ==
  ASSUME NEW g, g.primaries = {}
  PROVE  Lost(g) = {} /\ HeadsToDelete(g) = {}
BY DEF Lost, HappenedIn, HeadsToDelete, HasSimulatedG4Parent

\* What was tracked is not lost.
LEMMA TrackedNotLost ==
  ASSUME Event, NEW g, NEW n, Tracked(g, n)
  PROVE  Lost(g) \cap g.truth = {}
<1>0. K \subseteq Particles /\ Particles \subseteq Nat
  BY RootsLinked, ParticlesFinite
<1>1. CASE g.primaries = {}
  BY <1>1, NothingLost
<1>2. CASE g.primaries = ForG4
  <2>. DEFINE T == Lost(g) \cap g.truth
  <2>. SUFFICES ASSUME T # {} PROVE FALSE
    OBVIOUS
  <2>1. T \in SUBSET Nat
    BY <1>0 DEF Lost
  <2>2. PICK p \in T : \A y \in T : p <= y
    BY <2>1, LeastMember
  <2>3. p \in K /\ p \in Particles /\ p \in g.truth /\ ~HappenedIn(g, p)
    BY <1>0 DEF Lost
  <2>4. PICK t \in AncestorsOf[p] \cap Travellers : ~Decayed(g, t)
    BY <1>2, <2>3, LostIs
  <2>. DEFINE q == g.mother[p]
  <2>5. Mother(p, q) /\ q \in g.truth \cup {None}
    BY <2>3 DEF Tracked, Primaries
  <2>6. q \in AncestorsOf[p] \cap Travellers /\ (t = q \/ t \in AncestorsOf[q])
    BY <2>4, <2>5 DEF Mother
  <2>7. q \in K /\ q \in Particles /\ q \in g.truth /\ q < p
    BY <2>3, <2>5, <2>6, TravellerIs, AncestorsAre, ParticlesFinite
  <2>8. Decayed(g, q)
    BY <2>3 DEF Decayed
  <2>9. t \in AncestorsOf[q] \cap Travellers
    BY <2>4, <2>6, <2>8
  <2>10. ~HappenedIn(g, q)
    BY <2>4, <2>7, <2>9, <1>2, LostIs
  <2>11. q \in T
    <3>1. q \in Lost(g)
      BY <2>7, <2>10 DEF Lost
    <3>. QED BY <3>1, <2>7
  <2>. HIDE DEF T, q
  <2>12. p <= q
    BY <2>2, <2>11
  <2>. QED BY <2>3, <2>7, <2>12, <1>0
<1>. QED BY <1>1, <1>2 DEF Tracked

\* Whatever is linked below a particle that was not tracked is the generator's.
LEMMA ChildrenUntracked ==
  ASSUME Event, NEW g, NEW n, Settled(g), LinksKnown(g), Tracked(g, n), NEW x \in K, x \notin g.truth
  PROVE  Children(g, x) \subseteq K
<1>0. /\ g \in GraphType /\ LinksAgree(g) /\ g.lps \cap Particles = K /\ x \in LPs /\ K \subseteq LPs
  BY RootsLinked DEF Settled
<1>. SUFFICES ASSUME NEW c \in Children(g, x) PROVE c \in K
  OBVIOUS
<1>1. c \in LPs /\ x \in Parents(g, c)
  BY <1>0, ChildrenAre
<1>2. g.prod[c] # None /\ x \in g.incoming[g.prod[c]] /\ g.prod[c] \in LPs
  BY <1>0, <1>1, GraphTypes DEF Parents
<1>3. c \in g.lps
  BY <1>0 DEF Children, LinksKnown, GraphType
<1>4. g.prod[c] \in Particles
  BY <1>2 DEF Tracked
<1>5. c \in Particles
  BY <1>1, <1>4 DEF Tracked
<1>. QED BY <1>0, <1>3, <1>5

\* What is linked below a lost particle is lost.
LEMMA LostBelow ==
  ASSUME Event, NEW g, NEW n, Settled(g), LinksKnown(g), Tracked(g, n), NEW x \in Lost(g)
  PROVE  /\ x \in K /\ x \in Particles /\ x \in Below /\ x \notin g.truth
         /\ \A c \in K : x \in AncestorsOf[c] => c \in Lost(g)
         /\ \A c \in Children(g, x) : c \in Lost(g) /\ x \in Nearest(mothers[c])
<1>0. x \in K /\ x \in Particles /\ x \notin g.truth /\ K \subseteq Particles
  BY RootsLinked, TrackedNotLost DEF Lost
<1>1. PICK t \in AncestorsOf[x] \cap g.primaries : ~Decayed(g, t)
  BY DEF Lost, HappenedIn
<1>2. g.primaries = ForG4
  BY <1>1 DEF Tracked
<1>3. PICK u \in AncestorsOf[x] \cap Travellers : ~Decayed(g, u)
  BY <1>0, <1>2, LostIs DEF Lost
<1>4. x \in Below
  BY <1>0, <1>3, TravellerIs, DescendantsAre DEF Below
<1>5. ASSUME NEW c \in K, x \in AncestorsOf[c] PROVE c \in Lost(g)
  <2>1. c \in Particles /\ AncestorsOf[x] \subseteq AncestorsOf[c]
    BY <1>0, <1>5, AncestorsAre
  <2>2. ~HappenedIn(g, c)
    BY <2>1, <1>1 DEF HappenedIn
  <2>. QED BY <2>2 DEF Lost
<1>6. ASSUME NEW c \in Children(g, x) PROVE c \in Lost(g) /\ x \in Nearest(mothers[c])
  <2>1. c \in K /\ c \in Particles
    BY <1>0, ChildrenUntracked
  <2>2. c \in Below
    BY <2>1, <1>0, <1>4, ChildBelow
  <2>3. x \in Nearest(mothers[c]) /\ x \in AncestorsOf[c]
    BY <2>1, <2>2, <1>0, ChildBelow
  <2>. QED BY <2>1, <2>3, <1>5
<1>. QED BY <1>0, <1>4, <1>5, <1>6

-----------------------------------------------------------------------------
(* The heads of the decays that did not happen. *)

\* The way down through what Geant4 does not track.
Down(g) == [c \in LPs |-> IF c \in Particles /\ ~ForGeant4(c) THEN Children(g, c) ELSE {}]
Untouched(g, p) == Reached(Children(g, p), Down(g))

\* On that way the mother stays the same.
LEMMA UntouchedAre ==
  ASSUME Event, NEW g, NEW n, Settled(g), LinksKnown(g), Tracked(g, n),
         NEW p \in K, p \notin ForG4, NEW m, Mother(p, m)
  PROVE  /\ Children(g, p) \subseteq Untouched(g, p)
         /\ \A y \in Untouched(g, p) : y \in K /\ Mother(y, m)
         /\ \A y \in Untouched(g, p) : y \notin ForG4 => Children(g, y) \subseteq Untouched(g, p)
<1>0. g \in GraphType /\ K \subseteq Particles /\ K \subseteq LPs /\ IsFiniteSet(LPs)
  BY RootsLinked, ParticlesFinite DEF Settled
<1>1. \A y \in K : y \in ForG4 <=> ForGeant4(y)
  BY DEF ForG4
<1>2. DOMAIN Down(g) = LPs /\ \A c \in LPs : Down(g)[c] \subseteq LPs
  BY <1>0, ChildrenAre DEF Down
<1>3. Children(g, p) \subseteq LPs
  BY <1>0, ChildrenAre
<1>4. /\ Children(g, p) \subseteq Untouched(g, p)
      /\ \A y \in Untouched(g, p) : Down(g)[y] \subseteq Untouched(g, p)
      /\ \A C : Children(g, p) \subseteq C /\ (\A y \in C \cap LPs : Down(g)[y] \subseteq C)
                => Untouched(g, p) \subseteq C
  BY <1>0, <1>2, <1>3, ReachedLeast DEF Untouched
<1>. DEFINE C == {y \in K : Mother(y, m)}
<1>5. ASSUME NEW y \in C, y \notin ForG4 PROVE Children(g, y) \subseteq C
  <2>1. y \in K /\ y \in Particles /\ y \notin g.truth
    BY <1>0, <1>5, ForG4Is DEF Tracked
  <2>2. Children(g, y) \subseteq K
    BY <2>1, ChildrenUntracked
  <2>3. y \notin Travellers
    BY <1>5, ForG4Is
  <2>4. ASSUME NEW c \in Children(g, y) PROVE Mother(c, m)
    BY <1>0, <2>1, <2>2, <2>3, <2>4, ChildMother
  <2>. QED BY <2>2, <2>4
<1>6. Children(g, p) \subseteq C
  BY <1>5
<1>7. \A y \in C \cap LPs : Down(g)[y] \subseteq C
  <2>. SUFFICES ASSUME NEW y \in C, y \in LPs PROVE Down(g)[y] \subseteq C
    OBVIOUS
  <2>. QED BY <1>1, <1>5 DEF Down
<1>8. Untouched(g, p) \subseteq C
  BY <1>4, <1>6, <1>7
<1>9. ASSUME NEW y \in Untouched(g, p), y \notin ForG4 PROVE Children(g, y) \subseteq Untouched(g, p)
  <2>1. y \in K /\ y \in LPs /\ y \in Particles /\ ~ForGeant4(y)
    BY <1>0, <1>1, <1>8, <1>9
  <2>2. Down(g)[y] = Children(g, y)
    BY <2>1 DEF Down
  <2>. QED BY <1>4, <2>2
<1>. QED BY <1>4, <1>8, <1>9

\* The tracking of what Geant4 was given is over.
TrackedAll(g) ==
  \A m \in g.primaries \cup {None} :
    LET daughters == {p \in g.primaries : g.mother[p] = m}
    IN  daughters \subseteq g.truth \/ (m # None /\ daughters \cap g.truth = {})

\* A head has a parent that was tracked and did not decay.
HeadOf(g, h, m) ==
  /\ m \in g.truth /\ m \in Travellers /\ m \in g.primaries /\ ~Decayed(g, m)
  /\ m \in Nearest(mothers[h]) /\ m \in AncestorsOf[h] /\ Mother(h, m)

\* What DoCleanup takes for a head did not happen.
LEMMA HeadIs ==
  ASSUME Event, NEW g, NEW n, Settled(g), LinksKnown(g), Tracked(g, n),
         TrackedAll(g), NEW h \in HeadsToDelete(g)
  PROVE  h \in Lost(g) /\ \E m : HeadOf(g, h, m)
<1>0. /\ g \in GraphType /\ K \subseteq Particles /\ K \subseteq LPs /\ g.lps \cap Particles = K
      /\ g.primaries \subseteq ForG4 /\ g.truth \cap Particles \subseteq g.primaries
  BY RootsLinked DEF Settled, Tracked, Primaries
<1>1. /\ h \in K /\ h \in Particles
      /\ IF ForGeant4(h) THEN NotSimulated(g, h) ELSE HasG4ChildWithoutG4Truth(g, h)
  BY <1>0 DEF HeadsToDelete
<1>2. PICK m \in Parents(g, h) : m \in g.primaries /\ m \in g.truth
  BY DEF HeadsToDelete, HasSimulatedG4Parent
<1>3. m \in K /\ m \in Particles /\ m \in ForG4 /\ h \in Children(g, m) /\ h \in LPs
  BY <1>0, <1>1, <1>2, ForG4Is, ChildrenAre DEF Settled
<1>4. m \in Travellers
  BY <1>1, <1>3, ChildBelow, ForG4Is
<1>5. m \in Nearest(mothers[h]) /\ m \in AncestorsOf[h]
  BY <1>1, <1>3, <1>4, ChildBelow
<1>6. PICK q : Mother(m, q)
  BY <1>3, MotherIs
<1>7. Mother(h, m)
  BY <1>1, <1>3, <1>4, <1>6, ChildMother
<1>8. ASSUME NEW c \in g.primaries, c \notin g.truth, c \in Particles, Mother(c, m) PROVE ~Decayed(g, m)
  <2>1. g.mother[c] = m
    BY <1>8, MotherOnly DEF Tracked, Primaries
  <2>2. {p \in g.primaries : g.mother[p] = m} \cap g.truth = {}
    BY <1>2, <1>8, <2>1 DEF TrackedAll
  <2>. QED BY <2>2, <1>0 DEF Decayed
<1>9. ~Decayed(g, m)
  <2>1. CASE ForGeant4(h)
    BY <1>1, <2>1, <1>7, <1>8 DEF NotSimulated
  <2>2. CASE ~ForGeant4(h)
    <3>1. PICK c \in Untouched(g, h) : c \in g.primaries /\ c \notin g.truth
      BY <1>1, <2>2 DEF HasG4ChildWithoutG4Truth, Untouched, Down, NotSimulated
    <3>2. h \notin ForG4
      BY <2>2 DEF ForG4
    <3>3. c \in K /\ Mother(c, m)
      BY <1>1, <1>7, <3>1, <3>2, UntouchedAre
    <3>. QED BY <1>0, <1>8, <3>1, <3>3
  <2>. QED BY <2>1, <2>2
<1>10. h \in Lost(g)
  BY <1>1, <1>2, <1>5, <1>9 DEF Lost, HappenedIn
<1>. QED BY <1>2, <1>4, <1>5, <1>7, <1>9, <1>10 DEF HeadOf

\* No head lies above another.
LEMMA HeadsApart ==
  ASSUME Event, NEW g, NEW n, Settled(g), LinksKnown(g), Tracked(g, n),
         NEW h \in Lost(g), NEW k \in Lost(g), NEW a, NEW b, HeadOf(g, h, a), HeadOf(g, k, b)
  PROVE  k \notin AncestorsOf[h]
<1>. SUFFICES ASSUME k \in AncestorsOf[h] PROVE FALSE
  OBVIOUS
<1>1. h \in K /\ h \in Particles /\ h \in Below /\ k \in K /\ k \in Particles
  BY LostBelow
<1>2. a \notin AncestorsOf[k]
  BY <1>1, NearestApart DEF HeadOf
<1>3. b \in AncestorsOf[h] \cap Travellers /\ b \in AncestorsOf[k]
  BY <1>1, AncestorsAre DEF HeadOf
<1>4. b \in AncestorsOf[a] /\ a # None
  <2>1. Mother(h, a) /\ a \in Travellers
    BY DEF HeadOf
  <2>2. a # None
    BY <2>1, TravellerIs, ParticlesFinite
  <2>. QED BY <1>2, <1>3, <2>1, <2>2 DEF Mother
<1>5. a \in K
  BY TravellerIs DEF HeadOf
<1>6. a \in Lost(g)
  BY <1>4, <1>5 DEF Lost, HappenedIn, HeadOf
<1>. QED BY <1>6, TrackedNotLost DEF HeadOf

\* What descends from a particle that travels and is not given to Geant4 has a
\* child: it decays, into an antiparticle that decays at least.
LEMMA ChildThere ==
  ASSUME Event, NEW g, Settled(g), NEW y \in K, y \notin ForG4, NEW t \in Travellers,
         y \in Descendants(t)
  PROVE  \E c \in K : c \in Children(g, y)
<1>0. /\ y \in Particles /\ y \notin Travellers /\ Daughters(y) # {} /\ t \in Particles /\ t \in AncestorsOf[y]
      /\ g \in GraphType /\ LinksAgree(g) /\ K \subseteq LPs /\ K \subseteq Particles
  BY RootsLinked, ForG4Is, TravellerIs, DescendantsAre DEF Settled
<1>1. ASSUME NEW c \in K, y \in Nearest(mothers[c]) PROVE c \in Children(g, y)
  <2>1. y \in Parents(g, c)
    BY <1>1 DEF Settled
  <2>. QED BY <2>1, <1>0, ChildrenAre
<1>2. PICK d \in Daughters(y) : TRUE
  BY <1>0
<1>3. d \in Particles /\ y \in mothers[d] /\ mothers[d] \in SUBSET Particles
  BY <1>2, MothersFirst DEF Daughters
<1>4. t \in AncestorsOf[d] /\ d \in kept
  BY <1>0, <1>3, AncestorsAre, TravellerIs, DescendantsAre
<1>5. CASE d \in K
  <2>1. y \in Nearest(mothers[d])
    BY <1>3, UpIs DEF Nearest
  <2>. QED BY <2>1, <1>1, <1>5
<1>6. CASE d \notin K
  <2>1. d \in OscillatedVersions
    BY <1>4, <1>6 DEF K
  <2>2. PICK o \in oscillates : d = HasOscillated(o) /\ o \in Particles
    BY <2>1, OscillatedFrom
  <2>3. Daughters(d) # {} /\ \A e \in Daughters(d) : mothers[e] = {d}
    BY <2>2, OscillatedIs
  <2>4. PICK e \in Daughters(d) : mothers[e] = {d}
    BY <2>3
  <2>5. e \in Particles /\ d \in mothers[e]
    BY <2>4 DEF Daughters
  <2>6. t \in AncestorsOf[e] /\ e \in kept
    BY <1>0, <1>3, <1>4, <2>5, AncestorsAre, TravellerIs, DescendantsAre
  <2>7. e \notin OscillatedVersions
    <3>. SUFFICES ASSUME e \in OscillatedVersions PROVE FALSE
      OBVIOUS
    <3>1. PICK p \in oscillates : e = HasOscillated(p) /\ p \in Particles
      BY OscillatedFrom
    <3>2. mothers[e] = {p}
      BY <3>1, OscillatedIs
    <3>3. p = d
      BY <3>2, <2>4
    <3>. QED BY <3>1, <3>3, <2>1 DEF Event
  <2>8. e \in K
    BY <2>6, <2>7 DEF K
  <2>9. y \in Reached(mothers[e], Up)
    BY <2>4, <2>5, <1>3, <1>6, UpIs
  <2>10. y \in Nearest(mothers[e])
    BY <2>9 DEF Nearest
  <2>. QED BY <2>8, <2>10, <1>1
<1>. QED BY <1>5, <1>6

\* Above a lost particle the first one that did not decay was tracked.
LEMMA UndecayedAbove ==
  ASSUME Event, NEW g, NEW n, Tracked(g, n), TrackedAll(g), NEW p \in Lost(g)
  PROVE  \E t \in AncestorsOf[p] \cap Travellers :
           t \in g.truth /\ t \in g.primaries /\ ~Decayed(g, t)
<1>0. p \in K /\ p \in Particles /\ Particles \subseteq Nat /\ None \notin Particles
  BY RootsLinked, ParticlesFinite DEF Lost
<1>1. g.primaries = ForG4
  BY NothingLost DEF Tracked
<1>. DEFINE U == {t \in AncestorsOf[p] \cap Travellers : ~Decayed(g, t)}
<1>2. U # {} /\ U \in SUBSET Nat
  BY <1>0, <1>1, LostIs, AncestorsAre DEF Lost
<1>3. PICK t \in U : \A u \in U : t <= u
  BY <1>2, LeastMember
<1>4. t \in AncestorsOf[p] /\ t \in Travellers /\ t \in Particles /\ t \in g.primaries
  BY <1>1, <1>3, ForG4Is, TravellerIs
<1>. DEFINE q == g.mother[t]
<1>5. Mother(t, q) /\ q \in g.primaries \cup {None}
  BY <1>4 DEF Tracked, Primaries
<1>6. \/ {d \in g.primaries : g.mother[d] = q} \subseteq g.truth
      \/ q # None /\ {d \in g.primaries : g.mother[d] = q} \cap g.truth = {}
  BY <1>5 DEF TrackedAll
<1>7. ASSUME q # None PROVE Decayed(g, q)
  <2>1. q \in AncestorsOf[t] /\ q \in Travellers
    BY <1>5, <1>7 DEF Mother
  <2>2. q \in AncestorsOf[p] /\ q < t /\ q \in Nat /\ t \in Nat
    BY <2>1, <1>0, <1>4, AncestorsAre, TravellerIs
  <2>3. q \notin U
    <3>. HIDE DEF U, q
    <3>. QED BY <2>2, <1>3
  <2>. QED BY <2>1, <2>2, <2>3
<1>8. {d \in g.primaries : g.mother[d] = q} \subseteq g.truth
  <2>1. CASE q = None
    BY <2>1, <1>6
  <2>2. CASE q # None
    <3>1. PICK d \in g.truth \cap Particles : g.mother[d] = q
      BY <2>2, <1>7 DEF Decayed
    <3>2. d \in g.primaries
      BY DEF Tracked
    <3>. QED BY <3>1, <3>2, <1>6
  <2>. QED BY <2>1, <2>2
<1>9. t \in g.truth
  BY <1>4, <1>8
<1>. QED BY <1>3, <1>4, <1>9

\* A set of particles has a greatest member.
LEMMA GreatestParticle ==
  ASSUME NEW T \in SUBSET Particles, T # {}
  PROVE  \E x \in T : \A y \in T : y <= x
<1>. DEFINE S == {Generated - x : x \in T}
<1>1. S \in SUBSET Nat /\ S # {} /\ Generated \in Nat
  BY GraphAssumption DEF Particles
<1>2. PICK s \in S : \A u \in S : s <= u
  BY <1>1, LeastMember
<1>3. PICK x \in T : s = Generated - x
  OBVIOUS
<1>4. ASSUME NEW y \in T PROVE y <= x
  <2>1. Generated - y \in S
    OBVIOUS
  <2>2. Generated - x <= Generated - y
    BY <2>1, <1>2, <1>3
  <2>. QED BY <2>2, <1>1 DEF Particles
<1>. QED BY <1>4

\* Every lost particle is a head or descends from one.
LEMMA HeadAbove ==
  ASSUME Event, NEW g, NEW n, Settled(g), LinksKnown(g), Tracked(g, n), TrackedAll(g),
         NEW p \in Lost(g)
  PROVE  \E h \in HeadsToDelete(g) : h = p \/ h \in AncestorsOf[p]
<1>0. /\ g \in GraphType /\ LinksAgree(g) /\ K \subseteq Particles /\ K \subseteq LPs /\ g.lps \cap Particles = K
      /\ p \in K /\ p \in Particles /\ Particles \subseteq Nat
  BY RootsLinked, ParticlesFinite DEF Settled, Lost
<1>1. PICK t \in AncestorsOf[p] \cap Travellers :
        t \in g.truth /\ t \in g.primaries /\ ~Decayed(g, t)
  BY UndecayedAbove
<1>2. t \in K /\ t \in Particles
  BY TravellerIs
<1>3. PICK z \in K : t \in Nearest(mothers[z]) /\ (z = p \/ z \in AncestorsOf[p])
  BY <1>0, <1>1, <1>2, LinkedBetween
<1>4. z \in Particles /\ z \in LPs /\ t \in Parents(g, z) /\ z \in Children(g, t)
  BY <1>0, <1>2, <1>3, ChildrenAre DEF Settled
<1>5. PICK q : Mother(t, q)
  BY <1>2, MotherIs
<1>6. Mother(z, t) /\ z \in Below
  BY <1>2, <1>4, <1>5, ChildMother, ChildBelow
<1>7. t \in AncestorsOf[z]
  BY <1>2, <1>4, <1>6, ChildBelow
<1>8. HasSimulatedG4Parent(g, z)
  BY <1>1, <1>4 DEF HasSimulatedG4Parent
<1>9. g.primaries = ForG4
  BY NothingLost DEF Tracked
<1>10. ASSUME NEW c \in ForG4, Mother(c, t) PROVE c \in Particles /\ NotSimulated(g, c)
  <2>1. c \in Particles /\ c \in g.primaries
    BY <1>0, <1>9, ForG4Is
  <2>2. g.mother[c] = t
    BY <2>1, <1>10, MotherOnly DEF Tracked, Primaries
  <2>3. c \notin g.truth
    BY <2>1, <2>2, <1>1 DEF Decayed
  <2>. QED BY <2>1, <2>3 DEF NotSimulated
<1>11. CASE z \in ForG4
  <2>1. ForGeant4(z) /\ NotSimulated(g, z)
    BY <1>6, <1>10, <1>11 DEF ForG4
  <2>2. z \in HeadsToDelete(g)
    BY <2>1, <1>0, <1>4, <1>8 DEF HeadsToDelete
  <2>. QED BY <2>2, <1>3
<1>12. CASE z \notin ForG4
  <2>. DEFINE R == Untouched(g, z)
              M == {z} \cup R
  <2>1. /\ Children(g, z) \subseteq R
        /\ \A y \in R : y \in K /\ Mother(y, t)
        /\ \A y \in R : y \notin ForG4 => Children(g, y) \subseteq R
    BY <1>6, <1>12, UntouchedAre
  <2>. HIDE DEF R
  <2>2. M \in SUBSET Particles /\ M # {}
    BY <2>1, <1>0, <1>4
  <2>3. PICK y \in M : \A x \in M : x <= y
    BY <2>2, GreatestParticle
  <2>4. y \in K /\ y \in Particles /\ Mother(y, t)
    BY <2>1, <1>0, <1>6
  <2>5. ASSUME y \notin ForG4 PROVE FALSE
    <3>1. t \in AncestorsOf[y]
      BY <2>4, <1>2, ParticlesFinite DEF Mother
    <3>2. y \in Descendants(t)
      BY <2>4, <3>1, <1>2, DescendantsAre
    <3>3. PICK c \in K : c \in Children(g, y)
      BY <3>2, <2>4, <2>5, ChildThere
    <3>4. c \in M
      BY <3>3, <2>1, <2>5
    <3>5. y \in Below /\ c \in Particles
      BY <3>2, <3>3, <1>0 DEF Below
    <3>6. y \in AncestorsOf[c]
      BY <3>3, <3>5, <2>4, ChildBelow
    <3>7. y < c /\ c <= y
      BY <3>4, <3>5, <3>6, <2>3, AncestorsAre
    <3>. QED BY <3>5, <3>7, <2>4, <1>0
  <2>6. y \in R /\ NotSimulated(g, y)
    BY <2>4, <2>5, <1>10, <1>12
  <2>7. HasG4ChildWithoutG4Truth(g, z)
    BY <2>6 DEF HasG4ChildWithoutG4Truth, Untouched, Down, R
  <2>8. ~ForGeant4(z)
    BY <1>12 DEF ForG4
  <2>9. z \in HeadsToDelete(g)
    BY <2>7, <2>8, <1>0, <1>4, <1>8 DEF HeadsToDelete
  <2>. QED BY <2>9, <1>3
<1>. QED BY <1>11, <1>12

-----------------------------------------------------------------------------
(* The clean-up erases the lost particles, each once and after its children. *)

\* What stands of the record meanwhile: nothing is missing above what is there.
Standing(g, n) ==
  /\ g.truth \subseteq g.lps /\ g.stale = FALSE /\ Lost(g) \cap g.truth = {}
  /\ g.lps \cap Particles \subseteq K /\ K \ Lost(g) \subseteq g.lps
  /\ \A k \in LPs \ Particles : k \in g.lps <=> k < n
  /\ \A c \in g.lps \cap K : /\ AncestorsOf[c] \cap K \subseteq g.lps
                            /\ \A x \in Nearest(mothers[c]) : c \in Children(g, x)
  /\ \A x \in Lost(g) :
       /\ x \in Below
       /\ \A c \in Children(g, x) : c \in Lost(g) \cap g.lps /\ x \in Nearest(mothers[c])

\* What is to be erased is there, ...
Waiting(g, l, hd) ==
  /\ hd \subseteq Lost(g) \cap g.lps
  /\ \A h, k \in hd : k \notin AncestorsOf[h]
  /\ \A i \in 1..Len(l) :
       /\ l[i].parent \in Lost(g) \cap g.lps
       /\ \A x \in l[i].left : x \in Lost(g) \cap g.lps /\ l[i].parent \in Nearest(mothers[x])
  /\ \A i, j \in 1..Len(l) : i < j => l[j].parent \in AncestorsOf[l[i].parent]

\* ... no two trees meet, ...
Clear(S, y) == \A s \in S : s # y /\ y \notin AncestorsOf[s]

AllClear(l, hd) ==
  \A i \in 1..Len(l) : \A y \in l[i].left \cup {l[i].parent} :
    /\ Clear(hd, y)
    /\ \A j \in 1..Len(l) : i < j => Clear(l[j].left, y)

\* ... and nothing is forgotten.
Covered(g, l, hd) ==
  \A p \in Lost(g) \cap g.lps :
    \/ \E h \in hd : h = p \/ h \in AncestorsOf[p]
    \/ \E i \in 1..Len(l) : l[i].parent = p \/ l[i].parent \in AncestorsOf[p]

Cleaned(g, l, hd, n) ==
  Standing(g, n) /\ Waiting(g, l, hd) /\ AllClear(l, hd) /\ Covered(g, l, hd)

\* The clean-up begins with heads that do not lie above one another and have all
\* that is lost below them.
LEMMA CleanBegins ==
  ASSUME Event, NEW g, NEW n, Grown(g, n), Tracked(g, n), TrackedAll(g)
  PROVE  Cleaned(g, <<>>, HeadsToDelete(g), n)
<1>0. /\ Settled(g) /\ LinksKnown(g) /\ g \in GraphType /\ LinksAgree(g) /\ g.lps \cap Particles = K
      /\ g.truth \subseteq g.lps /\ K \subseteq LPs /\ K \subseteq Particles
  BY RootsLinked DEF Grown, Structure, Settled
<1>1. Standing(g, n)
  <2>1. Lost(g) \cap g.truth = {} /\ Lost(g) \subseteq K /\ g.stale = FALSE
    BY TrackedNotLost DEF Lost, Tracked
  <2>2. \A k \in LPs \ Particles : k \in g.lps <=> k < n
    BY DEF Tracked
  <2>3. ASSUME NEW c \in g.lps \cap K, NEW x \in Nearest(mothers[c]) PROVE c \in Children(g, x)
    <3>1. x \in Parents(g, c) /\ x \in LPs
      BY <1>0, <2>3 DEF Settled, Nearest
    <3>. QED BY <3>1, <1>0, ChildrenAre
  <2>4. ASSUME NEW x \in Lost(g)
        PROVE  /\ x \in Below
               /\ \A c \in Children(g, x) : c \in Lost(g) \cap g.lps /\ x \in Nearest(mothers[c])
    BY <1>0, <2>1, LostBelow
  <2>. QED BY <1>0, <2>1, <2>2, <2>3, <2>4 DEF Standing
<1>2. HeadsToDelete(g) \subseteq Lost(g) \cap g.lps
  BY <1>0, HeadIs DEF Lost
<1>3. ASSUME NEW h \in HeadsToDelete(g), NEW k \in HeadsToDelete(g) PROVE k \notin AncestorsOf[h]
  <2>1. PICK a : HeadOf(g, h, a)
    BY <1>0, HeadIs
  <2>2. PICK b : HeadOf(g, k, b)
    BY <1>0, HeadIs
  <2>. QED BY <2>1, <2>2, <1>0, <1>2, HeadsApart
<1>4. Waiting(g, <<>>, HeadsToDelete(g))
  BY <1>2, <1>3 DEF Waiting
<1>5. Covered(g, <<>>, HeadsToDelete(g))
  BY <1>0, HeadAbove DEF Covered
<1>. QED BY <1>1, <1>4, <1>5 DEF Cleaned, AllClear

\* The ancestors of a lost particle.
LEMMA LostParticles ==
  ASSUME Event, NEW g, NEW x \in Lost(g)
  PROVE  /\ x \in K /\ x \in Particles
         /\ AncestorsOf[x] \subseteq Particles /\ x \notin AncestorsOf[x]
         /\ \A a \in AncestorsOf[x] : AncestorsOf[a] \subseteq AncestorsOf[x] /\ x \notin AncestorsOf[a]
         /\ Nearest(mothers[x]) \subseteq AncestorsOf[x]
<1>0. x \in K /\ x \in Particles /\ Particles \subseteq Nat
  BY RootsLinked, ParticlesFinite DEF Lost
<1>1. AncestorsOf[x] \subseteq Particles /\ \A a \in AncestorsOf[x] : a < x /\ AncestorsOf[a] \subseteq AncestorsOf[x]
  BY <1>0, AncestorsAre
<1>2. x \notin AncestorsOf[x]
  BY <1>0, <1>1
<1>3. Nearest(mothers[x]) \subseteq AncestorsOf[x]
  BY <1>0, AboveIsAncestor DEF Nearest
<1>. QED BY <1>0, <1>1, <1>2, <1>3

\* The tree of a head.
LEMMA CleanHead ==
  ASSUME Event, NEW g, NEW n, NEW hd, Cleaned(g, <<>>, hd, n), NEW p \in hd
  PROVE  Cleaned(g, Enter(Children(g, p), p), hd \ {p}, n)
<1>. DEFINE l == Enter(Children(g, p), p)
<1>1. Len(l) = 1 /\ l[1].left = Children(g, p) /\ l[1].parent = p
  BY InEnter
<1>. HIDE DEF l
<1>2. /\ hd \subseteq Lost(g) \cap g.lps /\ p \in Lost(g) /\ p \in g.lps
      /\ \A h, k \in hd : k \notin AncestorsOf[h]
  BY DEF Cleaned, Waiting
<1>3. \A c \in Children(g, p) : c \in Lost(g) \cap g.lps /\ p \in Nearest(mothers[c])
  BY <1>2 DEF Cleaned, Standing
<1>4. Waiting(g, l, hd \ {p})
  BY <1>1, <1>2, <1>3 DEF Waiting
<1>5. AllClear(l, hd \ {p})
  <2>1. Clear(hd \ {p}, p)
    BY <1>2 DEF Clear
  <2>2. ASSUME NEW c \in Children(g, p) PROVE Clear(hd \ {p}, c)
    <3>1. p \in AncestorsOf[c] /\ c \in Lost(g)
      BY <1>3, LostParticles
    <3>2. ASSUME NEW h \in hd PROVE h # c /\ c \notin AncestorsOf[h]
      BY <3>1, <1>2, LostParticles
    <3>. QED BY <3>2 DEF Clear
  <2>3. \A i \in 1..Len(l) : i = 1 /\ l[i].left = Children(g, p) /\ l[i].parent = p
    BY <1>1
  <2>4. \A i, j \in 1..Len(l) : ~(i < j)
    BY <1>1
  <2>5. \A y \in Children(g, p) \cup {p} : Clear(hd \ {p}, y)
    BY <2>1, <2>2
  <2>. QED BY <2>3, <2>4, <2>5 DEF AllClear
<1>6. Covered(g, l, hd \ {p})
  <2>. SUFFICES ASSUME NEW x \in Lost(g) \cap g.lps
                PROVE  \/ \E h \in hd \ {p} : h = x \/ h \in AncestorsOf[x]
                       \/ p = x \/ p \in AncestorsOf[x]
    BY <1>1 DEF Covered
  <2>1. \E h \in hd : h = x \/ h \in AncestorsOf[x]
    BY DEF Cleaned, Covered
  <2>. QED BY <2>1
<1>. QED BY <1>4, <1>5, <1>6 DEF Cleaned, l

\* A call for a child of what is being erased.
LEMMA CleanCall ==
  ASSUME Event, NEW g \in GraphType, NEW n, NEW hd, NEW l \in Seq(Frame), l # <<>>, Cleaned(g, l, hd, n),
         NEW x \in l[1].left
  PROVE  Cleaned(g, Push(l, x, Children(g, x), x), hd, n)
<1>. DEFINE m == Push(l, x, Children(g, x), x)
            p == l[1].parent
<1>0. 1 \in 1..Len(l) /\ Len(l) \in Nat
  BY LessLoops
<1>1. /\ x \in Lost(g) /\ x \in g.lps /\ p \in Nearest(mothers[x]) /\ x \in LPs
      /\ p \in Lost(g) /\ p \in AncestorsOf[x] /\ x \in K /\ x \in Particles /\ x \in Below
  <2>1. x \in Lost(g) /\ x \in g.lps /\ p \in Nearest(mothers[x]) /\ p \in Lost(g)
    BY <1>0 DEF Cleaned, Waiting
  <2>2. x \in Below
    BY <2>1 DEF Cleaned, Standing
  <2>3. x \in K /\ x \in Particles /\ Nearest(mothers[x]) \subseteq AncestorsOf[x]
    BY <2>1, LostParticles
  <2>. QED BY <2>1, <2>2, <2>3, ParticlesFinite
<1>2. Pushed(l, m, x, Children(g, x), x)
  BY <1>1, ChildrenAre, PushLoops
<1>3. \A c \in Children(g, x) : c \in Lost(g) \cap g.lps /\ x \in Nearest(mothers[c]) /\ x \in AncestorsOf[c]
  BY <1>1, LostParticles DEF Cleaned, Standing
<1>. HIDE DEF m
<1>4. /\ Len(m) = Len(l) + 1 /\ m[1].left = Children(g, x) /\ m[1].parent = x
      /\ \A i \in 2..Len(m) : /\ i - 1 \in 1..Len(l) /\ m[i].parent = l[i - 1].parent
                             /\ m[i].left = IF i = 2 THEN l[1].left \ {x} ELSE l[i - 1].left
      /\ \A i \in 1..Len(m) : i = 1 \/ i \in 2..Len(m)
  <2>1. Len(m) = Len(l) + 1 /\ m[1].left = Children(g, x) /\ m[1].parent = x
    BY <1>2 DEF Pushed
  <2>2. ASSUME NEW i \in 2..Len(m)
        PROVE  /\ i - 1 \in 1..Len(l) /\ m[i].parent = l[i - 1].parent
               /\ m[i].left = IF i = 2 THEN l[1].left \ {x} ELSE l[i - 1].left
    <3>1. i - 1 \in 1..Len(l)
      BY <2>1, <1>0
    <3>2. CASE i = 2
      BY <3>1, <3>2, <1>2 DEF Pushed
    <3>3. CASE i # 2
      <4>1. i - 1 \in 2..Len(l) /\ (i - 1) + 1 = i
        BY <3>1, <3>3, <1>0
      <4>2. m[(i - 1) + 1] = l[i - 1]
        BY <4>1, <1>2 DEF Pushed
      <4>. QED BY <3>1, <3>3, <4>1, <4>2
    <3>. QED BY <3>2, <3>3
  <2>3. \A i \in 1..Len(m) : i = 1 \/ i \in 2..Len(m)
    BY <2>1, <1>0
  <2>. QED BY <2>1, <2>2, <2>3
<1>5. /\ \A i \in 1..Len(l) :
           /\ l[i].parent \in Lost(g) \cap g.lps
           /\ \A y \in l[i].left : y \in Lost(g) \cap g.lps /\ l[i].parent \in Nearest(mothers[y])
      /\ \A i, j \in 1..Len(l) : i < j => l[j].parent \in AncestorsOf[l[i].parent]
      /\ hd \subseteq Lost(g) \cap g.lps /\ \A h, k \in hd : k \notin AncestorsOf[h]
  BY DEF Cleaned, Waiting
<1>6. Waiting(g, m, hd)
  <2>1. ASSUME NEW i \in 1..Len(m)
        PROVE  /\ m[i].parent \in Lost(g) \cap g.lps
               /\ \A y \in m[i].left : y \in Lost(g) \cap g.lps /\ m[i].parent \in Nearest(mothers[y])
    <3>1. CASE i = 1
      BY <3>1, <1>1, <1>3, <1>4
    <3>2. CASE i \in 2..Len(m)
      BY <3>2, <1>4, <1>5
    <3>. QED BY <3>1, <3>2, <1>4
  <2>2. ASSUME NEW i \in 1..Len(m), NEW j \in 1..Len(m), i < j
        PROVE  m[j].parent \in AncestorsOf[m[i].parent]
    <3>1. j \in 2..Len(m) /\ j - 1 \in 1..Len(l) /\ m[j].parent = l[j - 1].parent
      <4>1. j # 1
        BY <2>2
      <4>. QED BY <4>1, <1>4
    <3>2. CASE i = 1
      <4>1. l[j - 1].parent = p \/ l[j - 1].parent \in AncestorsOf[p]
        <5>1. j - 1 = 1 \/ 1 < j - 1
          BY <3>1
        <5>. QED BY <5>1, <3>1, <1>0, <1>5
      <4>2. l[j - 1].parent \in AncestorsOf[x]
        BY <4>1, <1>1, LostParticles
      <4>. QED BY <4>2, <3>1, <3>2, <1>4
    <3>3. CASE i \in 2..Len(m)
      <4>1. i - 1 \in 1..Len(l) /\ m[i].parent = l[i - 1].parent /\ i - 1 < j - 1
        BY <3>1, <3>3, <2>2, <1>4
      <4>. QED BY <4>1, <3>1, <1>5
    <3>. QED BY <3>2, <3>3, <1>4
  <2>. QED BY <1>5, <2>1, <2>2 DEF Waiting
<1>7. /\ Clear(hd, x) /\ Clear(l[1].left \ {x}, x)
      /\ \A j \in 1..Len(l) : 1 < j => Clear(l[j].left, x)
  <2>1. Clear(hd, x) /\ \A j \in 1..Len(l) : 1 < j => Clear(l[j].left, x)
    BY <1>0 DEF Cleaned, AllClear
  <2>2. ASSUME NEW s \in l[1].left, x \in AncestorsOf[s] PROVE FALSE
    <3>1. s \in Lost(g) /\ p \in Nearest(mothers[s])
      BY <1>0, <1>5
    <3>2. s \in Below
      BY <3>1 DEF Cleaned, Standing
    <3>. QED BY <3>1, <3>2, <2>2, <1>1, NearestApart
  <2>. QED BY <2>1, <2>2 DEF Clear
<1>8. ASSUME NEW S, S \subseteq Lost(g), Clear(S, x), NEW c \in Children(g, x) PROVE Clear(S, c)
  <2>1. x \in AncestorsOf[c]
    BY <1>3
  <2>2. ASSUME NEW s \in S PROVE s # c /\ c \notin AncestorsOf[s]
    BY <1>8, <2>1, LostParticles DEF Clear
  <2>. QED BY <2>2 DEF Clear
<1>9. AllClear(m, hd)
  <2>1. ASSUME NEW i \in 1..Len(m), NEW y \in m[i].left \cup {m[i].parent}
        PROVE  Clear(hd, y)
    <3>1. CASE i = 1
      BY <3>1, <1>4, <1>5, <1>7, <1>8
    <3>2. CASE i \in 2..Len(m)
      <4>1. i - 1 \in 1..Len(l) /\ y \in l[i - 1].left \cup {l[i - 1].parent}
        BY <3>2, <1>4
      <4>. QED BY <4>1 DEF Cleaned, AllClear
    <3>. QED BY <3>1, <3>2, <1>4
  <2>2. ASSUME NEW i \in 1..Len(m), NEW y \in m[i].left \cup {m[i].parent}, NEW j \in 1..Len(m), i < j
        PROVE  Clear(m[j].left, y)
    <3>1. j \in 2..Len(m)
      <4>1. j # 1
        BY <2>2
      <4>. QED BY <4>1, <1>4
    <3>2. CASE i = 1
      <4>1. Clear(m[j].left, x) /\ m[j].left \subseteq Lost(g)
        <5>1. CASE j = 2
          BY <5>1, <3>1, <1>0, <1>4, <1>5, <1>7
        <5>2. CASE j # 2
          <6>1. j - 1 \in 1..Len(l) /\ 1 < j - 1 /\ m[j].left = l[j - 1].left
            BY <5>2, <3>1, <1>4
          <6>. QED BY <6>1, <1>5, <1>7
        <5>. QED BY <5>1, <5>2
      <4>. QED BY <4>1, <3>2, <1>4, <1>8
    <3>3. CASE i \in 2..Len(m)
      <4>1. /\ i - 1 \in 1..Len(l) /\ y \in l[i - 1].left \cup {l[i - 1].parent}
            /\ j - 1 \in 1..Len(l) /\ i - 1 < j - 1 /\ m[j].left = l[j - 1].left
        BY <3>1, <3>3, <2>2, <1>4
      <4>2. Clear(l[j - 1].left, y)
        BY <4>1 DEF Cleaned, AllClear
      <4>. QED BY <4>1, <4>2
    <3>. QED BY <3>2, <3>3, <1>4
  <2>. QED BY <2>1, <2>2 DEF AllClear
<1>10. Covered(g, m, hd)
  <2>1. \A i \in 1..Len(l) : i + 1 \in 1..Len(m) /\ m[i + 1].parent = l[i].parent
    BY <1>0, <1>4
  <2>. SUFFICES ASSUME NEW y \in Lost(g) \cap g.lps, ~(\E h \in hd : h = y \/ h \in AncestorsOf[y])
                PROVE  \E i \in 1..Len(m) : m[i].parent = y \/ m[i].parent \in AncestorsOf[y]
    BY DEF Covered
  <2>2. PICK i \in 1..Len(l) : l[i].parent = y \/ l[i].parent \in AncestorsOf[y]
    BY DEF Cleaned, Covered
  <2>. QED BY <2>1, <2>2
<1>. QED BY <1>6, <1>9, <1>10 DEF Cleaned, m

\* Erasing changes nothing of what was lost.
LEMMA ErasedLost ==
  ASSUME NEW g \in GraphType, NEW p \in LPs
  PROVE  Lost(EraseLinkedParticle(g, p)) = Lost(g)
BY ErasedSame DEF Lost, HappenedIn, Decayed

\* Nothing that is there descends from a lost particle without children.
LEMMA NoneBelow ==
  ASSUME Event, NEW g, NEW n, Standing(g, n), NEW p \in Lost(g), Children(g, p) = {},
         NEW c \in g.lps \cap K
  PROVE  p \notin AncestorsOf[c]
<1>. SUFFICES ASSUME p \in AncestorsOf[c] PROVE FALSE
  OBVIOUS
<1>1. p \in K
  BY DEF Lost
<1>2. PICK z \in K : p \in Nearest(mothers[z]) /\ (z = c \/ z \in AncestorsOf[c])
  BY <1>1, LinkedBetween
<1>3. z \in g.lps
  BY <1>2 DEF Standing
<1>. QED BY <1>2, <1>3 DEF Standing

\* What is to be erased has no children any more.
LEMMA CleanReturn ==
  ASSUME Event, NEW g \in GraphType, NEW n, NEW hd, NEW l \in Seq(Frame), l # <<>>, Cleaned(g, l, hd, n),
         l[1].left = {}, Children(g, l[1].parent) = {}
  PROVE  Cleaned(EraseLinkedParticle(g, l[1].parent), Tail(l), hd, n)
<1>. DEFINE p == l[1].parent
            h == EraseLinkedParticle(g, p)
            m == Tail(l)
<1>0. /\ 1 \in 1..Len(l) /\ Len(l) \in Nat /\ Standing(g, n)
      /\ p = l[1].parent /\ Children(g, p) = {}
  BY LessLoops DEF Cleaned
<1>. HIDE DEF p
<1>1. p \in Lost(g) /\ p \in g.lps
  BY <1>0 DEF Cleaned, Waiting
<1>2. p \in K /\ p \in Particles /\ p \in LPs /\ p \notin AncestorsOf[p]
  BY <1>1, LostParticles, ParticlesFinite
<1>3. /\ h.truth = g.truth /\ h.lps = g.lps \ {p}
      /\ h.stale = FALSE /\ Lost(h) = Lost(g)
  <2>1. g.stale = FALSE
    BY <1>0 DEF Standing
  <2>2. h.stale = (g.stale \/ p \notin g.lps \/ Children(g, p) # {})
    BY <1>2, ErasedSame
  <2>3. h.stale = FALSE
    BY <2>1, <2>2, <1>0, <1>1
  <2>. QED BY <2>3, <1>2, ErasedSame, ErasedLost
<1>4. \A x \in LPs : Children(h, x) = Children(g, x) \ {p}
  BY <1>2, ErasedChildren
<1>. HIDE DEF h
<1>5. Standing(h, n)
  <2>1. h.truth \subseteq h.lps /\ h.stale = FALSE /\ Lost(h) \cap h.truth = {}
    BY <1>0, <1>1, <1>3 DEF Standing
  <2>2. h.lps \cap Particles \subseteq K /\ K \ Lost(h) \subseteq h.lps
    BY <1>0, <1>1, <1>3 DEF Standing
  <2>3. \A k \in LPs \ Particles : k \in h.lps <=> k < n
    BY <1>0, <1>2, <1>3 DEF Standing
  <2>4. ASSUME NEW c \in h.lps \cap K
        PROVE  /\ AncestorsOf[c] \cap K \subseteq h.lps
               /\ \A x \in Nearest(mothers[c]) : c \in Children(h, x)
    <3>1. c \in g.lps \cap K /\ c # p
      BY <1>3
    <3>2. AncestorsOf[c] \cap K \subseteq h.lps
      <4>1. p \notin AncestorsOf[c]
        BY <3>1, <1>0, <1>1, NoneBelow
      <4>2. AncestorsOf[c] \cap K \subseteq g.lps
        BY <3>1, <1>0 DEF Standing
      <4>. QED BY <4>1, <4>2, <1>3
    <3>3. ASSUME NEW x \in Nearest(mothers[c]) PROVE c \in Children(h, x)
      <4>1. x \in LPs
        BY RootsLinked DEF Nearest
      <4>2. c \in Children(g, x)
        BY <3>1, <1>0 DEF Standing
      <4>. QED BY <4>1, <4>2, <3>1, <1>4
    <3>. QED BY <3>2, <3>3
  <2>5. ASSUME NEW x \in Lost(h)
        PROVE  /\ x \in Below
               /\ \A c \in Children(h, x) : c \in Lost(h) \cap h.lps /\ x \in Nearest(mothers[c])
    <3>1. x \in Lost(g) /\ x \in LPs
      BY <1>3, LostParticles, ParticlesFinite
    <3>. QED BY <3>1, <1>0, <1>3, <1>4 DEF Standing
  <2>. QED BY <2>1, <2>2, <2>3, <2>4, <2>5 DEF Standing
<1>6. /\ Len(m) = Len(l) - 1
      /\ \A i \in 1..Len(m) : i + 1 \in 1..Len(l) /\ 1 < i + 1 /\ m[i] = l[i + 1]
  BY <1>0, TailLoops
<1>. HIDE DEF m
<1>7. /\ Clear(hd, p) /\ \A j \in 1..Len(l) : 1 < j => Clear(l[j].left, p)
  BY <1>0 DEF Cleaned, AllClear
<1>8. p \notin hd /\ \A j \in 1..Len(l) : 1 < j => p \notin l[j].left /\ l[j].parent # p
  <2>1. \A j \in 1..Len(l) : 1 < j => l[j].parent \in AncestorsOf[p]
    BY <1>0 DEF Cleaned, Waiting
  <2>. QED BY <2>1, <1>2, <1>7 DEF Clear
<1>9. Waiting(h, m, hd)
  <2>1. hd \subseteq Lost(h) \cap h.lps /\ \A a, b \in hd : b \notin AncestorsOf[a]
    BY <1>3, <1>8 DEF Cleaned, Waiting
  <2>2. ASSUME NEW i \in 1..Len(m)
        PROVE  /\ m[i].parent \in Lost(h) \cap h.lps
               /\ \A x \in m[i].left : x \in Lost(h) \cap h.lps /\ m[i].parent \in Nearest(mothers[x])
    <3>1. i + 1 \in 1..Len(l) /\ 1 < i + 1 /\ m[i] = l[i + 1]
      BY <1>6
    <3>2. /\ l[i + 1].parent \in Lost(g) \cap g.lps
          /\ \A x \in l[i + 1].left : x \in Lost(g) \cap g.lps /\ l[i + 1].parent \in Nearest(mothers[x])
      BY <3>1 DEF Cleaned, Waiting
    <3>3. p \notin l[i + 1].left /\ l[i + 1].parent # p
      BY <3>1, <1>8
    <3>. QED BY <3>1, <3>2, <3>3, <1>3
  <2>3. ASSUME NEW i \in 1..Len(m), NEW j \in 1..Len(m), i < j
        PROVE  m[j].parent \in AncestorsOf[m[i].parent]
    <3>1. i + 1 \in 1..Len(l) /\ j + 1 \in 1..Len(l) /\ i + 1 < j + 1
          /\ m[i] = l[i + 1] /\ m[j] = l[j + 1]
      BY <2>3, <1>6
    <3>2. l[j + 1].parent \in AncestorsOf[l[i + 1].parent]
      BY <3>1 DEF Cleaned, Waiting
    <3>. QED BY <3>1, <3>2
  <2>. QED BY <2>1, <2>2, <2>3 DEF Waiting
<1>10. AllClear(m, hd)
  <2>. SUFFICES ASSUME NEW i \in 1..Len(m), NEW y \in m[i].left \cup {m[i].parent}
                PROVE  Clear(hd, y) /\ \A j \in 1..Len(m) : i < j => Clear(m[j].left, y)
    BY DEF AllClear
  <2>1. i + 1 \in 1..Len(l) /\ y \in l[i + 1].left \cup {l[i + 1].parent}
    BY <1>6
  <2>2. Clear(hd, y) /\ \A j \in 1..Len(l) : i + 1 < j => Clear(l[j].left, y)
    BY <2>1 DEF Cleaned, AllClear
  <2>3. ASSUME NEW j \in 1..Len(m), i < j PROVE Clear(m[j].left, y)
    <3>1. j + 1 \in 1..Len(l) /\ i + 1 < j + 1 /\ m[j] = l[j + 1]
      BY <2>3, <1>6
    <3>2. Clear(l[j + 1].left, y)
      BY <2>2, <3>1
    <3>. QED BY <3>1, <3>2
  <2>. QED BY <2>2, <2>3
<1>11. Covered(h, m, hd)
  <2>. SUFFICES ASSUME NEW y \in Lost(h) \cap h.lps, ~(\E a \in hd : a = y \/ a \in AncestorsOf[y])
                PROVE  \E i \in 1..Len(m) : m[i].parent = y \/ m[i].parent \in AncestorsOf[y]
    BY DEF Covered
  <2>1. y \in Lost(g) /\ y \in g.lps /\ y # p /\ y \in K
    BY <1>3, LostParticles
  <2>2. PICK i \in 1..Len(l) : l[i].parent = y \/ l[i].parent \in AncestorsOf[y]
    BY <2>1 DEF Cleaned, Covered
  <2>3. p \notin AncestorsOf[y]
    BY <2>1, <1>0, <1>1, NoneBelow
  <2>4. i # 1
    BY <2>1, <2>2, <2>3, <1>0
  <2>5. i - 1 \in 1..Len(m) /\ (i - 1) + 1 = i
    BY <2>4, <1>0, <1>6
  <2>6. m[i - 1] = l[(i - 1) + 1]
    BY <2>5, <1>6
  <2>7. m[i - 1].parent = l[i].parent
    BY <2>5, <2>6
  <2>. QED BY <2>2, <2>5, <2>7
<1>. QED BY <1>5, <1>9, <1>10, <1>11 DEF Cleaned, h, m, p

\* What is delivered.
Delivered(g, n) ==
  /\ g.truth \subseteq g.lps /\ g.stale = FALSE
  /\ g.lps \cap Particles = K \ Lost(g)
  /\ \A k \in LPs \ Particles : k \in g.lps <=> k < n

\* When nothing waits any more, nothing lost is there.
LEMMA CleanEnds ==
  ASSUME Event, NEW g, NEW n, Cleaned(g, <<>>, {}, n)
  PROVE  Delivered(g, n)
<1>1. Lost(g) \cap g.lps = {}
  BY DEF Cleaned, Covered
<1>2. K \subseteq Particles
  BY RootsLinked
<1>. QED BY <1>1, <1>2 DEF Cleaned, Standing, Delivered

-----------------------------------------------------------------------------
(* The invariant of the record. *)

\* A link that is refused leaves nothing tracked or stale.
LEMMA LinkedKeeps ==
  ASSUME Event, NEW g, LinkGraph(g), NEW x, NEW q,
         IF q = None THEN x \in Roots ELSE MayLink(x, q)
  PROVE  Linked(g, x, q).truth = {} /\ Linked(g, x, q).stale = FALSE
<1>0. g \in GraphType /\ g.truth = {} /\ g.stale = FALSE /\ x \in Particles /\ q \in Particles \cup {None}
  BY RootsLinked DEF LinkGraph, MayLink
<1>1. ASSUME NEW k \in GraphType, NEW c \in Particles, NEW p \in Particles
      PROVE  /\ AddParent(k, c, p) \in GraphType
             /\ AddParent(k, c, p).truth = k.truth /\ AddParent(k, c, p).stale = k.stale
  <2>. DEFINE h == AddParent(k, c, p)
  <2>1. /\ h \in GraphType
        /\ \/ Refused(k, c, p) /\ h = [k EXCEPT !.failed = TRUE]
           \/ \E v \in LPs : Chosen(k, c, p, v) /\ Joined(k, h, c, p, v)
    BY AddParentEffect
  <2>. HIDE DEF h
  <2>2. h.truth = k.truth /\ h.stale = k.stale
    BY <2>1 DEF Joined, JoinedAt, GraphType
  <2>. QED BY <2>1, <2>2 DEF h
<1>. DEFINE linked == IF x \in g.lps /\ q # None THEN AddLink(g, x, q) ELSE g
<1>2. linked \in GraphType /\ linked.truth = {} /\ linked.stale = FALSE
  <2>1. CASE x \in g.lps /\ q # None
    BY <2>1, <1>0, <1>1 DEF AddLink
  <2>2. CASE ~(x \in g.lps /\ q # None)
    BY <2>2, <1>0
  <2>. QED BY <2>1, <2>2
<1>3. Linked(g, x, q) \in {linked, Delete(linked, HasOscillated(x))}
  BY DEF Linked
<1>. HIDE DEF linked
<1>4. /\ Delete(linked, HasOscillated(x)).truth = linked.truth
      /\ Delete(linked, HasOscillated(x)).stale = linked.stale
  BY <1>2, DeleteEffect
<1>. QED BY <1>2, <1>3, <1>4

\* What holds in every phase: no more is known than was tracked.
RecordInv ==
  /\ phase \in {"declared", "linking", "failed"} => graph.truth = {} /\ graph.stale = FALSE
  /\ phase = "converting" => Converting(graph, loops) /\ Untracked(graph) /\ next = Generated + 1
  /\ phase = "tracking" => Tracked(graph, next)
  /\ phase = "cleaning" => Cleaned(graph, loops, heads, next)
  /\ phase = "delivered" => Delivered(graph, next)

\* None of it changes with the state but through its parameters.
LEMMA SameRecord ==
  ASSUME UNCHANGED hepmc
  PROVE  /\ \A g, l : Converting(g, l)' <=> Converting(g, l)
         /\ \A g, n : Tracked(g, n)' <=> Tracked(g, n)
         /\ \A g, l, hd, n : Cleaned(g, l, hd, n)' <=> Cleaned(g, l, hd, n)
         /\ \A g, n : Delivered(g, n)' <=> Delivered(g, n)
<1>0. mothers' = mothers /\ travels' = travels
  BY DEF hepmc
<1>1. Travellers' = Travellers /\ ForG4' = ForG4
  BY <1>0, SameEvent, SameWays DEF Travellers, ForG4
<1>2. Below' = Below
  BY <1>1, SameEvent DEF Below
<1>3. \A p, q : Mother(p, q)' <=> Mother(p, q)
  BY <1>1, SameEvent DEF Mother
<1>4. \A g : Primaries(g)' <=> Primaries(g)
  BY <1>1, <1>3 DEF Primaries
<1>5. \A g, l : MotherFrames(g, l)' <=> MotherFrames(g, l)
  BY <1>3, SameWays DEF MotherFrames
<1>6. \A l, x, q : OnTheWay(l, x, q)' <=> OnTheWay(l, x, q)
  BY SameEvent DEF OnTheWay
<1>7. \A g, l : AllOnTheWay(g, l)' <=> AllOnTheWay(g, l)
  BY <1>1, <1>3, <1>6 DEF AllOnTheWay
<1>8. \A g, l : Converting(g, l)' <=> Converting(g, l)
  BY <1>4, <1>5, <1>7 DEF Converting
<1>9. \A g, n : Tracked(g, n)' <=> Tracked(g, n)
  BY <1>1, <1>4 DEF Tracked
<1>10. \A g, p : HappenedIn(g, p)' <=> HappenedIn(g, p)
  BY SameEvent DEF HappenedIn, Decayed
<1>11. \A g : Lost(g)' = Lost(g)
  BY <1>10, SameWays DEF Lost
<1>12. \A g, n : Standing(g, n)' <=> Standing(g, n)
  BY <1>0, <1>2, <1>11, SameEvent, SameWays DEF Standing
<1>13. \A g, l, hd : Waiting(g, l, hd)' <=> Waiting(g, l, hd)
  BY <1>0, <1>11, SameEvent, SameWays DEF Waiting
<1>14. \A S, y : Clear(S, y)' <=> Clear(S, y)
  BY SameEvent DEF Clear
<1>15. \A l, hd : AllClear(l, hd)' <=> AllClear(l, hd)
  BY <1>14 DEF AllClear
<1>16. \A g, l, hd : Covered(g, l, hd)' <=> Covered(g, l, hd)
  BY <1>11, SameEvent DEF Covered
<1>17. \A g, l, hd, n : Cleaned(g, l, hd, n)' <=> Cleaned(g, l, hd, n)
  BY <1>12, <1>13, <1>15, <1>16 DEF Cleaned
<1>18. \A g, n : Delivered(g, n)' <=> Delivered(g, n)
  BY <1>11, SameWays DEF Delivered
<1>. QED BY <1>8, <1>9, <1>17, <1>18

\* The invariant holds initially.
LEMMA RecordInvInit == Init => RecordInv
BY DEF Init, RecordInv, Unlinked

\* Linking tracks nothing.
LEMMA RecordLinking ==
  ASSUME LinkInv, RecordInv, MakeTracker \/ ChildConverter
  PROVE  RecordInv'
<1>1. CASE MakeTracker
  BY <1>1 DEF MakeTracker, RecordInv
<1>2. CASE ChildConverter
  <2>1. /\ phase = "linking" /\ InLoop /\ graph' = Linked(graph, Part, Parent)
        /\ phase' \in {"linking", "failed"}
    BY <1>2 DEF ChildConverter
  <2>2. Event /\ LinkGraph(graph) /\ LinkFrames(loops) /\ loops \in Seq(Frame)
    BY <2>1 DEF LinkInv, GraphTypeOK, Linking
  <2>3. InFrame(loops, Part, Parent)
    BY <2>1, <2>2, NextCall
  <2>4. IF Parent = None THEN Part \in Roots ELSE MayLink(Part, Parent)
    BY <2>2, <2>3 DEF LinkFrames
  <2>5. graph'.truth = {} /\ graph'.stale = FALSE
    BY <2>1, <2>2, <2>4, LinkedKeeps
  <2>. QED BY <2>1, <2>5 DEF RecordInv
<1>. QED BY <1>1, <1>2

\* The end of linking keeps it.
LEMMA RecordGiven ==
  ASSUME LinkInv, RecordInv, AddToG4Event
  PROVE  RecordInv'
<1>1. /\ phase = "linking" /\ loops = <<>> /\ UNCHANGED hepmc /\ next' = next
      /\ \/ graph' = [graph EXCEPT !.failed = TRUE] /\ phase' = "failed"
         \/ /\ graph' = graph /\ ~Endless(graph)
            /\ \/ phase' = "converting" /\ loops' = Enter(Roots, None)
               \/ phase' = "tracking" /\ loops' = <<>>
  BY DEF AddToG4Event
<1>2. Event /\ graph \in GraphType /\ LinkGraph(graph) /\ Linking(graph, loops) /\ next = Generated + 1
  BY <1>1 DEF LinkInv, GraphTypeOK, Linking
<1>3. graph.truth = {} /\ graph.stale = FALSE /\ graph.primaries = {} /\ graph.lps = K
  BY <1>1, <1>2, LinkingOver DEF LinkGraph
<1>4. Untracked(graph) /\ Primaries(graph)
  BY <1>2, <1>3, LinkedUntracked DEF Primaries
<1>5. CASE graph' = [graph EXCEPT !.failed = TRUE] /\ phase' = "failed"
  <2>1. graph'.truth = {} /\ graph'.stale = FALSE
    BY <1>2, <1>3, <1>5 DEF GraphType
  <2>. QED BY <2>1, <1>5 DEF RecordInv
<1>6. CASE graph' = graph /\ phase' = "converting" /\ loops' = Enter(Roots, None)
  <2>1. Converting(graph', loops')
    BY <1>2, <1>3, <1>6, ConvertingBegins
  <2>2. Converting(graph, loops)'
    BY <2>1, <1>1, SameRecord
  <2>3. Untracked(graph)'
    BY <1>4, <1>6 DEF Untracked
  <2>. QED BY <2>2, <2>3, <1>1, <1>2, <1>6 DEF RecordInv
<1>7. CASE graph' = graph /\ phase' = "tracking"
  <2>1. Tracked(graph', next')
    BY <1>1, <1>2, <1>3, <1>4, <1>7, TrackingBegins
  <2>2. Tracked(graph, next)'
    BY <2>1, <1>1, SameRecord
  <2>. QED BY <2>2, <1>7 DEF RecordInv
<1>. QED BY <1>1, <1>5, <1>6, <1>7

\* A call of convert keeps it.
LEMMA RecordConvert ==
  ASSUME LinkInv, RecordInv, Convert
  PROVE  RecordInv'
<1>1. /\ phase = "converting" /\ InLoop /\ UNCHANGED hepmc /\ phase' = phase /\ next' = next
      /\ IF Part \in graph.primaries
         THEN graph' = graph /\ loops' = Rest
         ELSE /\ graph' = Given(graph, Part, Parent)
              /\ loops' = Enter(Children(graph, Part),
                                IF ForGeant4(Part) THEN Part ELSE Parent) \o Rest
  BY DEF Convert
<1>2. /\ Event /\ Settled(graph) /\ LinksKnown(graph) /\ graph.lps = K /\ graph \in GraphType
      /\ loops \in Seq(Frame) /\ ConvFrames(loops)
      /\ Converting(graph, loops) /\ Untracked(graph) /\ next = Generated + 1
  BY <1>1 DEF LinkInv, GraphTypeOK, RecordInv, Grown, Structure
<1>3. /\ loops # <<>> /\ Part \in loops[1].left /\ InFrame(loops, Part, Parent)
      /\ Parent = loops[1].parent /\ Rest = Less(loops, Part)
  BY <1>1, <1>2, NextCall
<1>4. Part \in K /\ Parent \in Particles \cup {None}
  BY <1>2, <1>3 DEF ConvFrames
<1>5. Converting(graph', loops') /\ Untracked(graph')
  <2>1. CASE Part \in graph.primaries
    <3>1. Converting(graph, Less(loops, Part))
      BY <1>2, <1>3, <2>1, ConvertingSkips
    <3>. QED BY <3>1, <2>1, <1>1, <1>2, <1>3
  <2>2. CASE Part \notin graph.primaries
    <3>1. Children(graph, Part) \subseteq K
      <4>1. \A v \in LPs : graph.outgoing[v] \subseteq K
        BY <1>2 DEF LinksKnown
      <4>2. graph.ends[Part] \subseteq LPs
        BY <1>2, <1>4, GraphTypes, RootsLinked
      <4>. QED BY <4>1, <4>2 DEF Children
    <3>2. Converting(Given(graph, Part, loops[1].parent),
                     Push(loops, Part, Children(graph, Part),
                          IF ForGeant4(Part) THEN Part ELSE loops[1].parent))
      BY <1>2, <1>3, <2>2, <3>1, ConvertingGoes
    <3>3. loops' = Push(loops, Part, Children(graph, Part),
                        IF ForGeant4(Part) THEN Part ELSE loops[1].parent)
      BY <1>1, <1>3, <2>2 DEF Push
    <3>4. graph' = Given(graph, Part, loops[1].parent)
      BY <1>1, <1>3, <2>2
    <3>5. Converting(graph', loops')
      BY <3>2, <3>3, <3>4
    <3>6. /\ graph'.truth = graph.truth /\ graph'.stale = graph.stale
          /\ graph'.prod = graph.prod /\ graph'.incoming = graph.incoming
      BY <1>2, <1>3, <1>4, <3>4, GivenEffect
    <3>7. Untracked(graph')
      BY <1>2, <3>6 DEF Untracked
    <3>. QED BY <3>5, <3>7
  <2>. QED BY <2>1, <2>2
<1>6. Converting(graph, loops)'
  BY <1>1, <1>5, SameRecord
<1>7. Untracked(graph)'
  BY <1>5 DEF Untracked
<1>. QED BY <1>1, <1>2, <1>6, <1>7 DEF RecordInv

\* A return keeps it, and the last one has given Geant4 what it is to have.
LEMMA RecordReturn ==
  ASSUME LinkInv, RecordInv, Return \/ StartTracking
  PROVE  RecordInv'
<1>1. CASE Return
  <2>1. /\ phase \in {"linking", "converting"} /\ LoopEnded /\ UNCHANGED hepmc
        /\ loops' = Tail(loops) /\ graph' = graph /\ phase' = phase /\ next' = next
    BY <1>1 DEF Return
  <2>2. loops \in Seq(Frame)
    BY DEF LinkInv, GraphTypeOK
  <2>3. loops # <<>> /\ loops[1].left = {}
    BY <2>1, <2>2 DEF LoopEnded
  <2>4. CASE phase = "linking"
    BY <2>1, <2>4 DEF RecordInv
  <2>5. CASE phase = "converting"
    <3>1. Converting(graph, loops) /\ Untracked(graph) /\ next = Generated + 1
      BY <2>5 DEF RecordInv
    <3>2. Converting(graph', loops')
      BY <3>1, <2>1, <2>2, <2>3, ConvertingReturns
    <3>3. Converting(graph, loops)'
      BY <3>2, <2>1, SameRecord
    <3>4. Untracked(graph)'
      BY <3>1, <2>1 DEF Untracked
    <3>. QED BY <3>1, <3>3, <3>4, <2>1, <2>5 DEF RecordInv
  <2>. QED BY <2>1, <2>4, <2>5
<1>2. CASE StartTracking
  <2>1. /\ phase = "converting" /\ loops = <<>> /\ phase' = "tracking" /\ UNCHANGED hepmc
        /\ graph' = graph /\ next' = next
    BY <1>2 DEF StartTracking
  <2>2. /\ Event /\ graph \in GraphType /\ graph.lps = K
        /\ Converting(graph, <<>>) /\ Untracked(graph) /\ next = Generated + 1
    BY <2>1 DEF LinkInv, GraphTypeOK, RecordInv
  <2>3. Tracked(graph, next)
    BY <2>2, ConvertingEnds, TrackingBegins
  <2>4. Tracked(graph, next)'
    BY <2>1, <2>3, SameRecord
  <2>. QED BY <2>1, <2>4 DEF RecordInv
<1>. QED BY <1>1, <1>2

\* A track that ends keeps it.
LEMMA RecordTracks ==
  ASSUME LinkInv, RecordInv, NEW p \in LPs, RegisterPrimary(p) \/ Declare(p)
  PROVE  RecordInv'
<1>1. phase = "tracking" /\ UNCHANGED hepmc /\ phase' = phase
  BY DEF RegisterPrimary, Declare
<1>2. /\ Event /\ graph \in GraphType /\ Tracked(graph, next)
      /\ next \in Generated + 1 .. Generated + MaxDeclared + 1
  BY <1>1 DEF LinkInv, GraphTypeOK, RecordInv
<1>3. Tracked(graph', next')
  <2>1. CASE RegisterPrimary(p)
    <3>1. /\ p \in graph.primaries /\ graph.mother[p] \in graph.truth \cup {None}
          /\ graph' = [graph EXCEPT !.truth = @ \cup {p}] /\ next' = next
      BY <2>1 DEF RegisterPrimary
    <3>2. Tracked([graph EXCEPT !.truth = @ \cup {p}], next)
      BY <1>2, <3>1, RegisterTracked
    <3>. QED BY <3>1, <3>2
  <2>2. CASE Declare(p)
    <3>1. next \in LPs /\ p \in graph.truth /\ next' = next + 1
      BY <2>2 DEF Declare
    <3>2. PICK v \in {w \in graph.ends[p] : w > Generated} \cup {next} :
            DeclaredAs(graph, graph', next, p, v)
      BY <2>2 DEF Declare, DeclaredAs
    <3>3. next >= Generated + 1
      BY <1>2, GraphAssumption
    <3>4. Tracked(graph', next + 1)
      BY <1>2, <3>1, <3>2, <3>3, DeclareTracked
    <3>. QED BY <3>1, <3>4
  <2>. QED BY <2>1, <2>2
<1>4. Tracked(graph, next)'
  BY <1>1, <1>3, SameRecord
<1>. QED BY <1>1, <1>4 DEF RecordInv

\* The steps of the clean-up keep it: it ends with nothing lost and nothing else
\* gone.
LEMMA RecordCleans ==
  ASSUME LinkInv, RecordInv, MakeTruth \/ EraseDecayTree \/ EraseParent \/ Deliver
  PROVE  RecordInv'
<1>1. CASE MakeTruth
  <2>1. /\ phase = "tracking" /\ TrackedAll(graph) /\ heads' = HeadsToDelete(graph)
        /\ phase' = "cleaning" /\ UNCHANGED hepmc /\ graph' = graph /\ loops' = loops /\ next' = next
    BY <1>1 DEF MakeTruth, TrackingOver, TrackedAll
  <2>2. Event /\ Grown(graph, next) /\ Tracked(graph, next) /\ loops = <<>>
    BY <2>1 DEF LinkInv, RecordInv
  <2>3. Cleaned(graph', loops', heads', next')
    BY <2>1, <2>2, CleanBegins
  <2>4. Cleaned(graph, loops, heads, next)'
    BY <2>1, <2>3, SameRecord
  <2>. QED BY <2>1, <2>4 DEF RecordInv
<1>2. CASE EraseDecayTree
  <2>1. /\ phase = "cleaning" /\ InLoop /\ loops' = Enter(Children(graph, Part), Part) \o Rest
        /\ UNCHANGED hepmc /\ graph' = graph /\ phase' = phase /\ next' = next /\ heads' = heads
    BY <1>2 DEF EraseDecayTree
  <2>2. Event /\ graph \in GraphType /\ loops \in Seq(Frame) /\ Cleaned(graph, loops, heads, next)
    BY <2>1 DEF LinkInv, GraphTypeOK, RecordInv
  <2>3. loops # <<>> /\ Part \in loops[1].left /\ Rest = Less(loops, Part)
    BY <2>1, <2>2, NextCall
  <2>4. loops' = Push(loops, Part, Children(graph, Part), Part)
    BY <2>1, <2>3 DEF Push
  <2>5. Cleaned(graph, Push(loops, Part, Children(graph, Part), Part), heads, next)
    BY <2>2, <2>3, CleanCall
  <2>6. Cleaned(graph, loops, heads, next)'
    BY <2>1, <2>4, <2>5, SameRecord
  <2>. QED BY <2>1, <2>6 DEF RecordInv
<1>3. CASE EraseParent
  <2>1. /\ phase = "cleaning" /\ LoopEnded /\ graph' = EraseLinkedParticle(graph, Parent)
        /\ loops' = Tail(loops) /\ UNCHANGED hepmc /\ phase' = phase /\ next' = next /\ heads' = heads
    BY <1>3 DEF EraseParent
  <2>2. /\ Event /\ Structure(graph) /\ graph \in GraphType /\ loops \in Seq(Frame)
        /\ CleanFrames(graph, loops) /\ Cleaned(graph, loops, heads, next)
    BY <2>1 DEF LinkInv, GraphTypeOK, RecordInv
  <2>3. loops # <<>> /\ loops[1].left = {} /\ Parent = loops[1].parent
    BY <2>1, <2>2 DEF LoopEnded, Parent
  <2>4. Children(graph, loops[1].parent) = {}
    BY <2>2, <2>3, EraseReturn
  <2>5. Cleaned(EraseLinkedParticle(graph, loops[1].parent), Tail(loops), heads, next)
    BY <2>2, <2>3, <2>4, CleanReturn
  <2>6. Cleaned(graph', loops', heads', next')
    BY <2>1, <2>3, <2>5
  <2>7. Cleaned(graph, loops, heads, next)'
    BY <2>1, <2>6, SameRecord
  <2>. QED BY <2>1, <2>7 DEF RecordInv
<1>4. CASE Deliver
  <2>1. /\ phase = "cleaning" /\ loops = <<>> /\ heads = {} /\ phase' = "delivered" /\ UNCHANGED hepmc
        /\ graph' = graph /\ next' = next
    BY <1>4 DEF Deliver
  <2>2. Event /\ Cleaned(graph, <<>>, {}, next)
    BY <2>1 DEF LinkInv, RecordInv
  <2>3. Delivered(graph', next')
    BY <2>1, <2>2, CleanEnds
  <2>4. Delivered(graph, next)'
    BY <2>1, <2>3, SameRecord
  <2>. QED BY <2>1, <2>4 DEF RecordInv
<1>. QED BY <1>1, <1>2, <1>3, <1>4

\* The call for a head keeps it.
LEMMA RecordHeads ==
  ASSUME LinkInv, RecordInv, NEW p \in LPs, EraseNext(p)
  PROVE  RecordInv'
<1>1. /\ phase = "cleaning" /\ loops = <<>> /\ p \in heads /\ loops' = Enter(Children(graph, p), p)
      /\ heads' = heads \ {p} /\ UNCHANGED hepmc
      /\ graph' = graph /\ phase' = phase /\ next' = next
  BY DEF EraseNext
<1>2. Event /\ Cleaned(graph, <<>>, heads, next)
  BY <1>1 DEF LinkInv, RecordInv
<1>3. Cleaned(graph', loops', heads', next')
  BY <1>1, <1>2, CleanHead
<1>4. Cleaned(graph, loops, heads, next)'
  BY <1>1, <1>3, SameRecord
<1>. QED BY <1>1, <1>4 DEF RecordInv

\* So does a step that changes nothing, ...
LEMMA RecordInvStutter == RecordInv /\ UNCHANGED vars => RecordInv'
<1>. SUFFICES ASSUME RecordInv, UNCHANGED vars PROVE RecordInv'
  OBVIOUS
<1>1. UNCHANGED hepmc /\ graph' = graph /\ phase' = phase /\ loops' = loops /\ next' = next
      /\ heads' = heads
  BY DEF vars
<1>2. Untracked(graph)' <=> Untracked(graph)
  BY <1>1 DEF Untracked
<1>. QED BY <1>1, <1>2, SameRecord DEF RecordInv

\* ... and so every step.
LEMMA RecordInvNext == LinkInv /\ RecordInv /\ [Next]_vars => RecordInv'
<1>. SUFFICES ASSUME LinkInv, RecordInv, [Next]_vars PROVE RecordInv'
  OBVIOUS
<1>1. CASE MakeTracker \/ ChildConverter \/ AddToG4Event
  BY <1>1, RecordLinking, RecordGiven
<1>2. CASE Convert \/ Return \/ StartTracking
  BY <1>2, RecordConvert, RecordReturn
<1>3. CASE MakeTruth \/ EraseDecayTree \/ EraseParent \/ Deliver
  BY <1>3, RecordCleans
<1>4. ASSUME NEW p \in LPs, RegisterPrimary(p) \/ Declare(p) \/ EraseNext(p) PROVE RecordInv'
  BY <1>4, RecordTracks, RecordHeads
<1>5. CASE Terminated \/ UNCHANGED vars
  BY <1>5, RecordInvStutter DEF Terminated
<1>. QED BY <1>1, <1>2, <1>3, <1>4, <1>5 DEF Next

\* The invariant holds in every state.
THEOREM RecordInvHolds == Spec => []RecordInv
<1>1. Init => RecordInv
  BY RecordInvInit
<1>2. LinkInv /\ RecordInv /\ [Next]_vars => RecordInv'
  BY RecordInvNext
<1>. QED BY <1>1, <1>2, LinkInvHolds, PTL DEF Spec

\* The clean-up uses no particle that it has erased, and erases no particle that
\* Geant4 has tracked, in whatever order it takes the heads.
THEOREM NothingIsStale == Spec => []NothingStale
<1>1. LinkInv /\ RecordInv => NothingStale
  <2>. SUFFICES ASSUME LinkInv, RecordInv PROVE NothingStale
    OBVIOUS
  <2>1. phase \in Phases
    BY DEF LinkInv, GraphTypeOK
  <2>2. graph.truth \subseteq graph.lps /\ graph.stale = FALSE
    <3>1. CASE phase \in {"declared", "linking", "failed"}
      BY <3>1 DEF RecordInv
    <3>2. CASE phase = "converting"
      BY <3>2 DEF RecordInv, Untracked
    <3>3. CASE phase = "tracking"
      BY <3>3 DEF LinkInv, Grown, RecordInv, Tracked
    <3>4. CASE phase = "cleaning"
      BY <3>4 DEF RecordInv, Cleaned, Standing
    <3>5. CASE phase = "delivered"
      BY <3>5 DEF RecordInv, Delivered
    <3>. QED BY <2>1, <3>1, <3>2, <3>3, <3>4, <3>5 DEF Phases
  <2>. QED BY <2>2 DEF NothingStale
<1>. QED BY <1>1, LinkInvHolds, RecordInvHolds, PTL

\* What is delivered is what has happened, whatever Geant4 has made of the event.
THEOREM RecordTellsWhatHappened == Spec => []RecordIsWhatHappened
<1>1. LinkInv /\ RecordInv => RecordIsWhatHappened
  <2>. SUFFICES ASSUME LinkInv, RecordInv, phase = "delivered"
                PROVE  graph.lps = {p \in kept \ OscillatedVersions : Happened(p)}
                                     \cup Generated + 1 .. next - 1
    BY DEF RecordIsWhatHappened
  <2>1. /\ Event /\ graph.lps \subseteq LPs /\ next \in Generated + 1 .. Generated + MaxDeclared + 1
        /\ Delivered(graph, next)
    BY GraphTypes DEF LinkInv, GraphTypeOK, RecordInv
  <2>2. Generated \in Nat /\ MaxDeclared \in Nat /\ next \in Nat /\ next - 1 <= Generated + MaxDeclared
    BY <2>1, GraphAssumption
  <2>3. graph.lps \cap Particles = K \ Lost(graph)
    BY <2>1 DEF Delivered
  <2>4. K \ Lost(graph) = {p \in kept \ OscillatedVersions : Happened(p)}
    BY DEF Lost, HappenedIn, Decayed, Happened, K
  <2>5. graph.lps \ Particles = Generated + 1 .. next - 1
    <3>1. \A k \in LPs \ Particles : k \in graph.lps <=> k < next
      BY <2>1 DEF Delivered
    <3>2. \A k : k \in LPs \ Particles <=> k \in Nat /\ k > Generated /\ k <= Generated + MaxDeclared
      BY <2>2 DEF LPs, Particles
    <3>3. \A k : k \in graph.lps \ Particles
                 <=> k \in Nat /\ k > Generated /\ k <= Generated + MaxDeclared /\ k < next
      BY <3>1, <3>2, <2>1
    <3>4. \A k : k \in Generated + 1 .. next - 1
                 <=> k \in Nat /\ k > Generated /\ k <= Generated + MaxDeclared /\ k < next
      BY <2>2
    <3>. QED BY <3>3, <3>4
  <2>6. graph.lps = (graph.lps \cap Particles) \cup (graph.lps \ Particles)
    OBVIOUS
  <2>. QED BY <2>3, <2>4, <2>5, <2>6
<1>. QED BY <1>1, LinkInvHolds, RecordInvHolds, PTL

=============================================================================
