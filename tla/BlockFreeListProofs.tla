------------------------- MODULE BlockFreeListProofs -------------------------
(***************************************************************************)
(* Theorems about the lock-free list of free blocks, for any number of     *)
(* threads and nodes: the links always spell the list, and every node is   *)
(* in one place.                                                           *)
(*                                                                         *)
(* FreeListInv counts the references of a node (RefsInv): one of each      *)
(* thread that is about to take it, and one of the list, which is there    *)
(* unless the node is owned or should be put on the list.  So whoever      *)
(* writes the link of a node is alone with it, and what a thread has read  *)
(* of the link of a node it refers to stays true (LocalInv).               *)
(***************************************************************************)
EXTENDS BlockFreeList, FiniteSetTheorems, TLAPS

-----------------------------------------------------------------------------
(* The inductive invariant.                                                *)

HasNode(t) == pc[t] \in AddStates \cup {"release"}
HasCur(t)  == pc[t] \in {"acquire", "readNext", "casPop", "keep"}

\* What a thread remembers: its nodes, and links that have not changed.
LocalInv ==
  \A t \in Threads :
    /\ HasNode(t) => node[t] \in Nodes
    /\ HasCur(t) => cur[t] \in Nodes
    /\ pc[t] \in {"expose", "casPush"} => next[node[t]] = top[t]
    /\ pc[t] = "casPop" => succ[t] = next[cur[t]]

\* A node has one owner, one carrier, one place on the list.
UniqueInv ==
  /\ \A i, j \in DOMAIN list : list[i] = list[j] => i = j
  /\ \A t, u \in Threads : \A n \in Nodes : n \in own[t] /\ n \in own[u] => t = u
  /\ \A t, u \in Threads : \A n \in Nodes :
       Carrier(t, n) /\ Carrier(u, n) => t = u

Owned(n) == \E t \in Threads : n \in own[t]
Carried(n) == \E t \in Threads : Carrier(t, n)

\* These exclude each other, and leave nothing out; a node that should be on
\* the list has a carrier or references.
PlaceInv ==
  \A n \in Nodes :
    /\ n \in Listed => ~Owned(n) /\ ~Carried(n) /\ ~should[n]
    /\ Owned(n) => ~Carried(n) /\ ~should[n]
    /\ should[n] /\ refs[n] = 0 => Carried(n)
    /\ ~should[n] => n \in Listed \/ Owned(n) \/ Carried(n)

\* A node on its way to the list has no references until it is exposed.
CarrierInv ==
  \A t \in Threads : \A n \in Nodes : Carrier(t, n) =>
    IF pc[t] \in {"push", "link", "expose"} THEN should[n] /\ refs[n] = 0
    ELSE ~should[n]

\* The thread holds a reference to the node.
Refers(t, n) ==
  \/ pc[t] \in {"readNext", "casPop", "keep"} /\ cur[t] = n
  \/ pc[t] = "release" /\ node[t] = n

Holders(n) == {t \in Threads : Refers(t, n)}

\* The reference of the list, which the node has while it is being put on it
\* or taken off it, too.
ListReference(n) == IF should[n] \/ Owned(n) THEN 0 ELSE 1

RefsInv ==
  \A n \in Nodes : refs[n] = Cardinality(Holders(n)) + ListReference(n)

FreeListInv ==
  /\ TypeOK /\ LocalInv /\ UniqueInv /\ PlaceInv /\ CarrierInv /\ RefsInv
  /\ ListIntact

-----------------------------------------------------------------------------
(* The list as a sequence.                                                 *)

LEMMA PushedList ==
  ASSUME NEW s \in Seq(Nodes), NEW n \in Nodes
  PROVE  /\ <<n>> \o s \in Seq(Nodes) /\ <<n>> \o s # <<>>
         /\ DOMAIN (<<n>> \o s) = 1..Len(s) + 1
         /\ Len(<<n>> \o s) = Len(s) + 1 /\ Len(s) \in Nat
         /\ (<<n>> \o s)[1] = n
         /\ \A i \in 2..Len(s) + 1 : (<<n>> \o s)[i] = s[i - 1]
<1>1. <<n>> \o s \in Seq(Nodes)
  OBVIOUS
<1>2. Len(<<n>> \o s) = Len(s) + 1 /\ Len(s) \in Nat
  OBVIOUS
<1>3. (<<n>> \o s)[1] = n
  OBVIOUS
<1>4. \A i \in 2..Len(s) + 1 : (<<n>> \o s)[i] = s[i - 1]
  OBVIOUS
<1>5. QED
  BY <1>1, <1>2, <1>3, <1>4

LEMMA PoppedList ==
  ASSUME NEW s \in Seq(Nodes), s # <<>>
  PROVE  /\ Tail(s) \in Seq(Nodes)
         /\ DOMAIN Tail(s) = 1..Len(s) - 1
         /\ Len(Tail(s)) = Len(s) - 1 /\ Len(s) \in Nat \ {0}
         /\ Tail(s) = <<>> <=> Len(s) = 1
         /\ \A i \in 1..Len(s) - 1 : Tail(s)[i] = s[i + 1]
<1>1. Tail(s) \in Seq(Nodes) /\ Len(s) \in Nat \ {0} /\ Len(Tail(s)) = Len(s) - 1
  OBVIOUS
<1>2. \A i \in 1..Len(s) - 1 : Tail(s)[i] = s[i + 1]
  OBVIOUS
<1>3. Tail(s) = <<>> <=> Len(Tail(s)) = 0
  BY <1>1
<1>4. QED
  BY <1>1, <1>2, <1>3

LEMMA InListed == \A n : n \in Listed <=> \E i \in DOMAIN list : list[i] = n
BY DEF Listed

\* A new head, linked to the old one.
LEMMA ListAfterPush ==
  ASSUME TypeOK, UniqueInv, ListIntact, NEW n \in Nodes, n \notin Listed,
         next[n] = head, head' = n, list' = <<n>> \o list, next' = next
  PROVE  /\ ListIntact' /\ list' \in Seq(Nodes)
         /\ Listed' = Listed \cup {n}
         /\ \A i, j \in DOMAIN list' : list'[i] = list'[j] => i = j
<1>1. /\ list' \in Seq(Nodes) /\ list' # <<>> /\ DOMAIN list' = 1..Len(list) + 1
      /\ Len(list') = Len(list) + 1 /\ Len(list) \in Nat /\ list'[1] = n
      /\ \A i \in 2..Len(list) + 1 : list'[i] = list[i - 1]
  BY PushedList DEF TypeOK
<1>2. DOMAIN list = 1..Len(list) /\ (list = <<>> <=> Len(list) = 0)
  BY DEF TypeOK
<1>3. Listed' = Listed \cup {n}
  <2>1. \A i \in DOMAIN list : i + 1 \in DOMAIN list' /\ list'[i + 1] = list[i]
    BY <1>1, <1>2
  <2>2. \A i \in DOMAIN list' : i # 1 => i - 1 \in DOMAIN list /\ list'[i] = list[i - 1]
    BY <1>1, <1>2
  <2>3. \A m : m \in Listed' <=> \E i \in DOMAIN list' : list'[i] = m
    BY DEF Listed
  <2>4. 1 \in DOMAIN list'
    BY <1>1
  <2>5. ASSUME NEW m \in Listed' PROVE m \in Listed \cup {n}
    <3>1. PICK i \in DOMAIN list' : list'[i] = m
      BY <2>3
    <3>2. CASE i = 1
      BY <3>1, <3>2, <1>1
    <3>3. CASE i # 1
      BY <3>1, <3>3, <2>2, InListed
    <3>4. QED
      BY <3>2, <3>3
  <2>6. n \in Listed'
    BY <1>1, <2>3, <2>4
  <2>7. Listed \subseteq Listed'
    BY <2>1, <2>3, InListed
  <2>8. QED
    BY <2>5, <2>6, <2>7
<1>4. \A i, j \in DOMAIN list' : list'[i] = list'[j] => i = j
  BY <1>1, <1>2 DEF UniqueInv, Listed
<1>5. ListIntact'
  <2> SUFFICES ASSUME NEW i \in DOMAIN list'
               PROVE  next[list'[i]] = IF i = Len(list') THEN Null ELSE list'[i + 1]
    BY <1>1 DEF ListIntact
  <2>1. CASE i = 1
    BY <2>1, <1>1, <1>2 DEF ListIntact
  <2>2. CASE i # 1
    <3>1. /\ i - 1 \in DOMAIN list /\ i \in 2..Len(list) + 1
          /\ i - 1 = Len(list) <=> i = Len(list')
      BY <2>2, <1>1, <1>2
    <3>2. list'[i] = list[i - 1]
      BY <3>1, <1>1
    <3>3. next[list[i - 1]] = IF i - 1 = Len(list) THEN Null ELSE list[i - 1 + 1]
      BY <3>1 DEF ListIntact
    <3>4. i # Len(list') => list'[i + 1] = list[i - 1 + 1]
      <4>1. i # Len(list') => i + 1 \in 2..Len(list) + 1 /\ i + 1 - 1 = i - 1 + 1
        BY <3>1, <1>1
      <4>2. QED
        BY <4>1, <1>1
    <3>5. QED
      BY <3>1, <3>2, <3>3, <3>4
  <2>3. QED
    BY <2>1, <2>2
<1>6. QED
  BY <1>1, <1>3, <1>4, <1>5

\* The successor of the old head is the new one.
LEMMA ListAfterPop ==
  ASSUME TypeOK, UniqueInv, ListIntact, head \in Nodes, Null \notin Nodes,
         head' = next[head], list' = Tail(list), next' = next
  PROVE  /\ ListIntact' /\ list' \in Seq(Nodes)
         /\ head \in Listed /\ Listed' = Listed \ {head}
         /\ \A i, j \in DOMAIN list' : list'[i] = list'[j] => i = j
<1>0. list # <<>> /\ list[1] = head
  BY DEF ListIntact
<1>1. /\ list' \in Seq(Nodes) /\ DOMAIN list' = 1..Len(list) - 1
      /\ Len(list') = Len(list) - 1 /\ Len(list) \in Nat \ {0}
      /\ list' = <<>> <=> Len(list) = 1
      /\ \A i \in 1..Len(list) - 1 : list'[i] = list[i + 1]
  BY <1>0, PoppedList DEF TypeOK
<1>2. DOMAIN list = 1..Len(list)
  BY DEF TypeOK
<1>3. Listed' = Listed \ {head} /\ head \in Listed
  <2>1. \A i \in DOMAIN list' : i + 1 \in DOMAIN list /\ list'[i] = list[i + 1]
    BY <1>1, <1>2
  <2>2. \A i \in DOMAIN list : i # 1 => i - 1 \in DOMAIN list' /\ list[i] = list'[i - 1]
    BY <1>1, <1>2
  <2>3. 1 \in DOMAIN list
    BY <1>1, <1>2
  <2>4. \A i \in DOMAIN list' : list'[i] # head
    BY <2>1, <2>3, <1>0, <1>1 DEF UniqueInv
  <2>5. \A m : m \in Listed' <=> \E i \in DOMAIN list' : list'[i] = m
    BY DEF Listed
  <2>6. QED
    BY <1>0, <2>1, <2>2, <2>3, <2>4, <2>5, InListed
<1>4. \A i, j \in DOMAIN list' : list'[i] = list'[j] => i = j
  BY <1>1, <1>2 DEF UniqueInv
<1>5. ListIntact'
  <2>1. head' = IF list' = <<>> THEN Null ELSE list'[1]
    BY <1>0, <1>1, <1>2 DEF ListIntact
  <2>2. ASSUME NEW i \in DOMAIN list'
        PROVE  next[list'[i]] = IF i = Len(list') THEN Null ELSE list'[i + 1]
    <3>1. i \in 1..Len(list) - 1 /\ i + 1 \in DOMAIN list
      BY <1>1, <1>2
    <3>2. list'[i] = list[i + 1]
      BY <3>1, <1>1
    <3>3. next[list[i + 1]] = IF i + 1 = Len(list) THEN Null ELSE list[i + 2]
      BY <3>1, <1>1 DEF ListIntact
    <3>4. i # Len(list') => list'[i + 1] = list[i + 2]
      BY <3>1, <1>1
    <3>5. QED
      BY <3>1, <3>2, <3>3, <3>4, <1>1
  <2>3. QED
    BY <2>1, <2>2 DEF ListIntact
<1>6. QED
  BY <1>1, <1>3, <1>4, <1>5

-----------------------------------------------------------------------------
(* The steps.                                                              *)

\* A step of one thread leaves alone what is local to the others.
Step(t) == AddStep(t) \/ GetStep(t) \/ BeginGet(t) \/ \E n \in Nodes : Add(t, n)

LEMMA NextIsStep == Next <=> \E t \in Threads : Step(t)
BY DEF Next, Step

LEMMA OthersRest ==
  ASSUME TypeOK, NEW t \in Threads, Step(t), NEW u \in Threads, u # t
  PROVE  /\ pc'[u] = pc[u] /\ cur'[u] = cur[u] /\ succ'[u] = succ[u]
         /\ node'[u] = node[u] /\ top'[u] = top[u] /\ getting'[u] = getting[u]
         /\ own'[u] = own[u]
         /\ \A n \in Nodes : /\ Carrier(u, n)' <=> Carrier(u, n)
                             /\ Refers(u, n)' <=> Refers(u, n)
<1>1. /\ pc'[u] = pc[u] /\ cur'[u] = cur[u] /\ succ'[u] = succ[u]
      /\ node'[u] = node[u] /\ top'[u] = top[u] /\ getting'[u] = getting[u]
      /\ own'[u] = own[u]
  BY DEF TypeOK, Step, AddStep, GetStep, LoadTop, Link, Expose, CasPush, Retract,
         LoadHead, Acquire, ReadNext, CasPop, Keep, Release, BeginGet, Add, Goto,
         EndAdd, sharedVars, localVars
<1>2. QED
  BY <1>1 DEF Carrier, Refers

\* The references of a node.
LEMMA HoldersFinite ==
  ASSUME NEW n \in Nodes
  PROVE  /\ IsFiniteSet(Holders(n)) /\ Cardinality(Holders(n)) \in Nat
         /\ \A t \in Threads : Refers(t, n) => Cardinality(Holders(n)) # 0
<1>1. Holders(n) \subseteq Threads
  BY DEF Holders
<1>2. IsFiniteSet(Holders(n)) /\ Cardinality(Holders(n)) \in Nat
  BY <1>1, FreeListAssumption, FS_Subset, FS_CardinalityType
<1>3. ASSUME NEW t \in Threads, Refers(t, n) PROVE Holders(n) # {}
  BY <1>3 DEF Holders
<1>4. QED
  BY <1>2, <1>3, FS_EmptySet

\* Who refers to a node keeps it from being put on the list, and from losing
\* the reference of the list.
LEMMA Referred ==
  ASSUME FreeListInv, NEW t \in Threads, NEW n \in Nodes, Refers(t, n)
  PROVE  /\ refs[n] >= 1
         /\ ~should[n] /\ ~Owned(n) => refs[n] >= 2
         /\ \A u \in Threads : Carrier(u, n) => pc[u] \notin {"push", "link", "expose"}
<1>1. refs[n] = Cardinality(Holders(n)) + ListReference(n)
  BY DEF FreeListInv, RefsInv
<1>2. Cardinality(Holders(n)) \in Nat \ {0}
  BY HoldersFinite
<1>3. refs[n] >= 1 /\ (~should[n] /\ ~Owned(n) => refs[n] >= 2)
  BY <1>1, <1>2 DEF ListReference
<1>4. QED
  BY <1>3 DEF FreeListInv, CarrierInv

\* A node that is carried after it was exposed has the reference of the list.
LEMMA ExposedNode ==
  ASSUME FreeListInv, NEW t \in Threads, NEW n \in Nodes, Carrier(t, n),
         pc[t] \in {"casPush", "retract", "keep"}
  PROVE  /\ ~should[n] /\ ~Owned(n) /\ n \notin Listed
         /\ ListReference(n) = 1 /\ refs[n] >= 1
<1>1. ~should[n] /\ ~Owned(n) /\ n \notin Listed
  BY DEF FreeListInv, CarrierInv, PlaceInv, Carried
<1>2. refs[n] = Cardinality(Holders(n)) + 1 /\ ListReference(n) = 1
  BY <1>1 DEF FreeListInv, RefsInv, ListReference
<1>3. QED
  BY <1>1, <1>2, HoldersFinite

LEMMA HoldersChange ==
  ASSUME NEW n \in Nodes, NEW t \in Threads,
         \A u \in Threads \ {t} : Refers(u, n)' <=> Refers(u, n)
  PROVE  Cardinality(Holders(n)') + (IF Refers(t, n) THEN 1 ELSE 0)
           = Cardinality(Holders(n)) + (IF Refers(t, n)' THEN 1 ELSE 0)
<1> DEFINE rest == {u \in Threads \ {t} : Refers(u, n)}
<1>1. IsFiniteSet(rest) /\ Cardinality(rest) \in Nat /\ t \notin rest
  BY FreeListAssumption, FS_Subset, FS_CardinalityType
<1>2. /\ IsFiniteSet(rest \cup {t})
      /\ Cardinality(rest \cup {t}) = Cardinality(rest) + 1
  BY <1>1, FS_AddElement
<1>3. Holders(n) = IF Refers(t, n) THEN rest \cup {t} ELSE rest
  BY DEF Holders
<1>4. Holders(n)' = IF Refers(t, n)' THEN rest \cup {t} ELSE rest
  BY DEF Holders
<1>5. QED
  BY <1>1, <1>2, <1>3, <1>4

LEMMA TypeStep ==
  ASSUME FreeListInv, NEW t \in Threads, Step(t)
  PROVE  TypeOK'
<1> USE DEF TypeOK, AddStates, GetStates
<1> TypeOK
  BY DEF FreeListInv
<1>1. CASE LoadTop(t)
  BY <1>1 DEF LoadTop, Goto, sharedVars
<1>2. CASE Link(t)
  BY <1>2 DEF Link, Goto, localVars
<1>3. CASE Expose(t)
  BY <1>3 DEF Expose, Goto, localVars
<1>4. CASE CasPush(t)
  <2>1. node[t] \in Nodes
    BY <1>4 DEF FreeListInv, LocalInv, HasNode, CasPush
  <2>2. <<node[t]>> \o list \in Seq(Nodes)
    BY <2>1, PushedList
  <2>3. CASE head = top[t]
    BY <1>4, <2>1, <2>2, <2>3 DEF CasPush, EndAdd
  <2>4. CASE head # top[t]
    BY <1>4, <2>1, <2>4 DEF CasPush
  <2>5. QED
    BY <2>3, <2>4
<1>5. CASE Retract(t)
  <2>1. node[t] \in Nodes
    BY <1>5 DEF FreeListInv, LocalInv, HasNode, Retract
  <2>2. refs[node[t]] >= 1
    BY <1>5, <2>1, ExposedNode DEF Retract, Carrier
  <2>3. refs' \in [Nodes -> Nat]
    BY <1>5, <2>1, <2>2 DEF Retract
  <2>4. pc' \in [Threads -> {"idle"} \cup AddStates \cup GetStates]
    BY <1>5 DEF Retract, EndAdd
  <2>5. should' = [should EXCEPT ![node[t]] = TRUE]
        /\ UNCHANGED <<head, next, list, cur, succ, own>>
    BY <1>5 DEF Retract
  <2>6. should' \in [Nodes -> BOOLEAN]
    BY <2>5
  <2>7. /\ node' \in [Threads -> Nodes \cup {Null}]
        /\ getting' \in [Threads -> BOOLEAN]
        /\ top' \in [Threads -> Nodes \cup {Null}]
    BY <1>5 DEF Retract, EndAdd
  <2>8. QED
    BY <2>3, <2>4, <2>5, <2>6, <2>7
<1>6. CASE LoadHead(t)
  BY <1>6 DEF LoadHead, Goto, sharedVars
<1>7. CASE Acquire(t)
  <2>1. refs' \in [Nodes -> Nat]
    BY <1>7 DEF Acquire
  <2>2. QED
    BY <1>7, <2>1 DEF Acquire, Goto, localVars
<1>8. CASE ReadNext(t)
  <2>1. cur[t] \in Nodes
    BY <1>8 DEF FreeListInv, LocalInv, HasCur, ReadNext, Goto
  <2>2. QED
    BY <1>8, <2>1 DEF ReadNext, Goto, sharedVars
<1>9. CASE CasPop(t)
  <2>1. cur[t] \in Nodes
    BY <1>9 DEF FreeListInv, LocalInv, HasCur, CasPop
  <2>2. CASE head = cur[t]
    <3>1. list # <<>>
      BY <2>1, <2>2, FreeListAssumption DEF FreeListInv, ListIntact
    <3>2. Tail(list) \in Seq(Nodes)
      BY <3>1, PoppedList
    <3>3. QED
      BY <1>9, <2>1, <2>2, <3>2 DEF CasPop
  <2>3. CASE head # cur[t]
    <3>1. /\ node' = [node EXCEPT ![t] = cur[t]] /\ cur' = [cur EXCEPT ![t] = head]
          /\ pc' = [pc EXCEPT ![t] = "release"] /\ succ' = [succ EXCEPT ![t] = Null]
          /\ UNCHANGED <<head, list, next, refs, should, top, getting, own>>
      BY <1>9, <2>3 DEF CasPop
    <3>2. pc' \in [Threads -> {"idle"} \cup AddStates \cup GetStates]
      BY <3>1 DEF GetStates
    <3>3. /\ node' \in [Threads -> Nodes \cup {Null}]
          /\ cur' \in [Threads -> Nodes \cup {Null}]
          /\ succ' \in [Threads -> Nodes \cup {Null}]
      BY <2>1, <3>1
    <3>4. QED
      BY <3>1, <3>2, <3>3
  <2>4. QED
    BY <2>2, <2>3
<1>10. CASE Keep(t)
  <2>1. cur[t] \in Nodes
    BY <1>10 DEF FreeListInv, LocalInv, HasCur, Keep, Goto
  <2>2. refs[cur[t]] >= 2
    BY <1>10, <2>1, ExposedNode, Referred DEF Keep, Goto, Refers, Carrier
  <2>3. QED
    BY <1>10, <2>1, <2>2 DEF Keep, Goto
<1>11. CASE Release(t)
  <2>1. node[t] \in Nodes
    BY <1>11 DEF FreeListInv, LocalInv, HasNode, Release
  <2>2. refs[node[t]] >= 1
    BY <1>11, <2>1, Referred DEF Release, Refers
  <2>3. refs' \in [Nodes -> Nat]
    BY <1>11, <2>1, <2>2 DEF Release
  <2>4. pc' \in [Threads -> {"idle"} \cup AddStates \cup GetStates]
    BY <1>11 DEF Release
  <2>5. QED
    BY <1>11, <2>1, <2>3, <2>4 DEF Release
<1>12. CASE BeginGet(t)
  BY <1>12 DEF BeginGet, Goto, sharedVars, localVars
<1>13. CASE \E n \in Nodes : Add(t, n)
  BY <1>13 DEF Add, Goto
<1>14. QED
  BY <1>1, <1>2, <1>3, <1>4, <1>5, <1>6, <1>7, <1>8, <1>9, <1>10, <1>11, <1>12,
     <1>13 DEF Step, AddStep, GetStep

\* Nobody writes a link that somebody else relies on.
LEMMA LinksStay ==
  ASSUME FreeListInv, NEW t \in Threads, Step(t), NEW u \in Threads, u # t
  PROVE  /\ pc[u] \in {"expose", "casPush"} => next'[node[u]] = next[node[u]]
         /\ pc[u] = "casPop" => next'[cur[u]] = next[cur[u]]
<1>1. CASE Link(t)
  <2>1. node[t] \in Nodes /\ Carrier(t, node[t])
    BY <1>1 DEF FreeListInv, LocalInv, HasNode, Link, Goto, Carrier, AddStates
  <2>2. \A n \in Nodes : n # node[t] => next'[n] = next[n]
    BY <1>1 DEF FreeListInv, TypeOK, Link
  <2>3. ASSUME pc[u] \in {"expose", "casPush"} PROVE node[u] # node[t]
    BY <2>1, <2>3 DEF FreeListInv, UniqueInv, Carrier, AddStates
  <2>4. ASSUME pc[u] = "casPop" PROVE cur[u] # node[t]
    BY <1>1, <2>1, <2>4, Referred DEF Refers, Link, Goto
  <2>5. ASSUME pc[u] \in {"expose", "casPush", "casPop"}
        PROVE  IF pc[u] = "casPop" THEN cur[u] \in Nodes ELSE node[u] \in Nodes
    BY <2>5 DEF FreeListInv, LocalInv, HasNode, HasCur, AddStates
  <2>6. QED
    BY <2>2, <2>3, <2>4, <2>5
<1>2. CASE ~Link(t)
  <2>1. next' = next
    BY <1>2 DEF Step, AddStep, GetStep, LoadTop, Expose, CasPush, Retract, LoadHead,
           Acquire, ReadNext, CasPop, Keep, Release, BeginGet, Add, sharedVars
  <2>2. QED
    BY <2>1
<1>3. QED
  BY <1>1, <1>2

LEMMA LocalStep ==
  ASSUME FreeListInv, NEW t \in Threads, Step(t)
  PROVE  LocalInv'
<1> DEFINE Local(u) ==
      /\ HasNode(u) => node[u] \in Nodes
      /\ HasCur(u) => cur[u] \in Nodes
      /\ pc[u] \in {"expose", "casPush"} => next[node[u]] = top[u]
      /\ pc[u] = "casPop" => succ[u] = next[cur[u]]
<1> TypeOK /\ \A u \in Threads : Local(u)
  BY DEF FreeListInv, LocalInv
<1> SUFFICES ASSUME NEW u \in Threads PROVE Local(u)'
  BY DEF LocalInv
<1>1. CASE u # t
  BY <1>1, OthersRest, LinksStay DEF HasNode, HasCur
<1>2. CASE u = t
  <2> Local(t)
    OBVIOUS
  <2> USE <1>2 DEF HasNode, HasCur, TypeOK, AddStates, GetStates
  <2>1. CASE LoadTop(t) \/ LoadHead(t) \/ Acquire(t) \/ BeginGet(t) \/ Keep(t)
    BY <2>1 DEF LoadTop, LoadHead, Acquire, BeginGet, Keep, Goto, sharedVars, localVars
  <2>2. CASE Link(t) \/ Expose(t)
    BY <2>2 DEF Link, Expose, Goto, localVars
  <2>3. CASE CasPush(t) \/ Retract(t)
    BY <2>3 DEF CasPush, Retract, EndAdd
  <2>4. CASE ReadNext(t) \/ CasPop(t) \/ Release(t)
    BY <2>4 DEF ReadNext, CasPop, Release, Goto, sharedVars
  <2>5. CASE \E n \in Nodes : Add(t, n)
    BY <2>5 DEF Add, Goto
  <2>6. QED
    BY <2>1, <2>2, <2>3, <2>4, <2>5 DEF Step, AddStep, GetStep
<1>3. QED
  BY <1>1, <1>2

\* The places of a node after a step of thread t.
LEMMA PlacesAfter ==
  ASSUME TypeOK, NEW t \in Threads, Step(t), NEW n \in Nodes
  PROVE  /\ Owned(n) <=> n \in own[t] \/ \E u \in Threads \ {t} : n \in own[u]
         /\ Owned(n)' <=> n \in own'[t] \/ \E u \in Threads \ {t} : n \in own[u]
         /\ Carried(n) <=> Carrier(t, n) \/ \E u \in Threads \ {t} : Carrier(u, n)
         /\ Carried(n)' <=> Carrier(t, n)' \/ \E u \in Threads \ {t} : Carrier(u, n)
BY OthersRest DEF Owned, Carried

PlacesInv == UniqueInv /\ PlaceInv /\ CarrierInv /\ ListIntact

Hidden == {"push", "link", "expose"}

\* A step in which no node changes its place.
LEMMA QuietStep ==
  ASSUME FreeListInv, NEW t \in Threads, Step(t),
         own' = own, should' = should, list' = list, head' = head,
         \A n \in Listed : next'[n] = next[n],
         \A n \in Nodes :
           /\ Carrier(t, n)' <=> Carrier(t, n)
           /\ Carrier(t, n) => (pc'[t] \in Hidden <=> pc[t] \in Hidden)
           /\ should[n] => (refs'[n] = 0 <=> refs[n] = 0)
  PROVE  PlacesInv'
<1> TypeOK /\ PlacesInv
  BY DEF FreeListInv, PlacesInv
<1>1. Listed' = Listed
  BY DEF Listed
<1>2. \A u \in Threads : \A n \in Nodes : Carrier(u, n)' <=> Carrier(u, n)
  BY OthersRest
<1>3. UniqueInv'
  BY <1>2 DEF PlacesInv, UniqueInv
<1>4. PlaceInv'
  BY <1>1, <1>2 DEF PlacesInv, PlaceInv, Owned, Carried
<1>5. CarrierInv'
  <2> SUFFICES ASSUME NEW u \in Threads, NEW n \in Nodes, Carrier(u, n)'
               PROVE  IF pc'[u] \in Hidden THEN should'[n] /\ refs'[n] = 0 ELSE ~should'[n]
    BY DEF CarrierInv, Hidden
  <2>1. Carrier(u, n) /\ (pc'[u] \in Hidden <=> pc[u] \in Hidden)
    BY <1>2, OthersRest
  <2>2. QED
    BY <2>1 DEF PlacesInv, CarrierInv, Hidden
<1>6. ListIntact'
  BY DEF PlacesInv, ListIntact, Listed
<1>7. QED
  BY <1>3, <1>4, <1>5, <1>6 DEF PlacesInv

\* A step in which one node changes its place, which nobody else has.
LEMMA MoveStep ==
  ASSUME FreeListInv, NEW t \in Threads, Step(t), NEW n \in Nodes,
         \A m \in Nodes \ {n} :
           /\ m \in own'[t] <=> m \in own[t]
           /\ m \in Listed' <=> m \in Listed
           /\ should'[m] = should[m]
           /\ should[m] => (refs'[m] = 0 <=> refs[m] = 0)
           /\ Carrier(t, m)' <=> Carrier(t, m)
           /\ Carrier(t, m) => (pc'[t] \in Hidden <=> pc[t] \in Hidden),
         \A u \in Threads \ {t} : n \notin own[u] /\ ~Carrier(u, n),
         n \in Listed' => n \notin own'[t] /\ ~Carrier(t, n)' /\ ~should'[n],
         n \in own'[t] => ~Carrier(t, n)' /\ ~should'[n],
         should'[n] /\ refs'[n] = 0 => Carrier(t, n)',
         ~should'[n] => n \in Listed' \/ n \in own'[t] \/ Carrier(t, n)',
         Carrier(t, n)' => IF pc'[t] \in Hidden THEN should'[n] /\ refs'[n] = 0
                           ELSE ~should'[n],
         ListIntact', \A i, j \in DOMAIN list' : list'[i] = list'[j] => i = j
  PROVE  PlacesInv'
<1> TypeOK /\ PlacesInv
  BY DEF FreeListInv, PlacesInv
<1>1. UniqueInv'
  <2>1. ASSUME NEW u \in Threads, NEW v \in Threads, NEW m \in Nodes,
               m \in own'[u], m \in own'[v]
        PROVE  u = v
    BY <2>1, OthersRest DEF PlacesInv, UniqueInv
  <2>2. ASSUME NEW u \in Threads, NEW v \in Threads, NEW m \in Nodes,
               Carrier(u, m)', Carrier(v, m)'
        PROVE  u = v
    BY <2>2, OthersRest DEF PlacesInv, UniqueInv
  <2>3. QED
    BY <2>1, <2>2 DEF UniqueInv
<1>2. PlaceInv'
  <2> SUFFICES ASSUME NEW m \in Nodes
               PROVE  /\ m \in Listed' => ~Owned(m)' /\ ~Carried(m)' /\ ~should'[m]
                      /\ Owned(m)' => ~Carried(m)' /\ ~should'[m]
                      /\ should'[m] /\ refs'[m] = 0 => Carried(m)'
                      /\ ~should'[m] => m \in Listed' \/ Owned(m)' \/ Carried(m)'
    BY DEF PlaceInv
  <2>1. CASE m = n
    BY <2>1, PlacesAfter
  <2>2. CASE m # n
    BY <2>2, PlacesAfter DEF PlacesInv, PlaceInv
  <2>3. QED
    BY <2>1, <2>2
<1>3. CarrierInv'
  <2> SUFFICES ASSUME NEW u \in Threads, NEW m \in Nodes, Carrier(u, m)'
               PROVE  IF pc'[u] \in Hidden THEN should'[m] /\ refs'[m] = 0 ELSE ~should'[m]
    BY DEF CarrierInv, Hidden
  <2>1. CASE m = n
    BY <2>1, OthersRest
  <2>2. CASE m # n
    <3>1. Carrier(u, m) /\ (pc'[u] \in Hidden <=> pc[u] \in Hidden)
      BY <2>2, OthersRest
    <3>2. QED
      BY <2>2, <3>1 DEF PlacesInv, CarrierInv, Hidden
  <2>3. QED
    BY <2>1, <2>2
<1>4. QED
  BY <1>1, <1>2, <1>3 DEF PlacesInv

\* A node with a carrier has no other, and no owner.
LEMMA CarriedAlone ==
  ASSUME FreeListInv, NEW t \in Threads, NEW n \in Nodes, Carrier(t, n)
  PROVE  /\ n \notin Listed /\ ~Owned(n) /\ n \notin own[t]
         /\ \A u \in Threads \ {t} : n \notin own[u] /\ ~Carrier(u, n)
BY DEF FreeListInv, UniqueInv, PlaceInv, Carried, Owned

\* Without a change of the list it stays intact.
LEMMA ListStays ==
  ASSUME FreeListInv, list' = list, head' = head, next' = next
  PROVE  /\ ListIntact' /\ Listed' = Listed
         /\ \A i, j \in DOMAIN list' : list'[i] = list'[j] => i = j
BY DEF FreeListInv, UniqueInv, ListIntact, Listed

LEMMA AddPlaces ==
  ASSUME FreeListInv, NEW t \in Threads, NEW n \in Nodes, Add(t, n)
  PROVE  PlacesInv'
<1> Step(t) /\ TypeOK
  BY DEF Step, FreeListInv
<1>1. /\ n \in own[t] /\ own'[t] = own[t] \ {n}
      /\ \A m \in Nodes : should'[m] = IF m = n THEN TRUE ELSE should[m]
      /\ refs' = refs /\ list' = list /\ head' = head /\ next' = next
      /\ pc[t] = "idle" /\ pc'[t] = (IF refs[n] = 0 THEN "push" ELSE "idle")
      /\ node'[t] = IF refs[n] = 0 THEN n ELSE Null
  BY DEF Add, Goto, TypeOK
<1>2. \A m \in Nodes : /\ ~Carrier(t, m)
                       /\ Carrier(t, m)' <=> m = n /\ refs[n] = 0
  BY <1>1 DEF Carrier, AddStates
<1>3. Owned(n) /\ ~Carried(n) /\ n \notin Listed
  BY <1>1 DEF Owned, FreeListInv, PlaceInv
<1>4. \A u \in Threads \ {t} : n \notin own[u] /\ ~Carrier(u, n)
  BY <1>1, <1>3 DEF FreeListInv, UniqueInv, Carried
<1>5. QED
  BY <1>1, <1>2, <1>3, <1>4, ListStays, MoveStep DEF Hidden

LEMMA ExposePlaces ==
  ASSUME FreeListInv, NEW t \in Threads, Expose(t)
  PROVE  PlacesInv'
<1> Step(t) /\ TypeOK
  BY DEF Step, AddStep, FreeListInv
<1>1. PICK n \in Nodes : n = node[t] /\ Carrier(t, n)
  BY DEF FreeListInv, LocalInv, HasNode, Expose, Goto, Carrier, AddStates
<1>2. /\ own' = own /\ list' = list /\ head' = head /\ next' = next
      /\ \A m \in Nodes : should'[m] = IF m = n THEN FALSE ELSE should[m]
      /\ \A m \in Nodes : refs'[m] = IF m = n THEN 1 ELSE refs[m]
      /\ pc[t] = "expose" /\ pc'[t] = "casPush" /\ node'[t] = n
  BY <1>1 DEF Expose, Goto, TypeOK, localVars
<1>3. \A m \in Nodes : (Carrier(t, m) <=> m = n) /\ (Carrier(t, m)' <=> m = n)
  BY <1>1, <1>2 DEF Carrier, AddStates
<1>4. /\ n \notin Listed /\ n \notin own[t]
      /\ \A u \in Threads \ {t} : n \notin own[u] /\ ~Carrier(u, n)
  BY <1>1, CarriedAlone
<1>5. /\ ListIntact' /\ Listed' = Listed
      /\ \A i, j \in DOMAIN list' : list'[i] = list'[j] => i = j
  BY <1>2, ListStays
<1>6. QED
  BY <1>1, <1>2, <1>3, <1>4, <1>5, MoveStep DEF Hidden

LEMMA CasPushPlaces ==
  ASSUME FreeListInv, NEW t \in Threads, CasPush(t)
  PROVE  PlacesInv'
<1> Step(t) /\ TypeOK
  BY DEF Step, AddStep, FreeListInv
<1>1. PICK n \in Nodes : n = node[t] /\ Carrier(t, n) /\ next[n] = top[t]
  BY DEF FreeListInv, LocalInv, HasNode, CasPush, Carrier, AddStates
<1>2. own' = own /\ next' = next /\ refs' = refs /\ should' = should /\ pc[t] = "casPush"
  BY <1>1 DEF CasPush
<1>3. \A m \in Nodes : Carrier(t, m) <=> m = n
  BY <1>1, <1>2 DEF Carrier, AddStates
<1>4. CASE head = top[t]
  <2>1. /\ head' = n /\ list' = <<n>> \o list
        /\ pc'[t] \in {"acquire", "idle"}
    BY <1>1, <1>4 DEF CasPush, EndAdd, TypeOK
  <2>2. \A m \in Nodes : ~Carrier(t, m)'
    BY <2>1 DEF Carrier, AddStates
  <2>3. n \notin Listed /\ ~should[n]
    BY <1>1, <1>2, ExposedNode
  <2>4. /\ ListIntact' /\ Listed' = Listed \cup {n}
        /\ \A i, j \in DOMAIN list' : list'[i] = list'[j] => i = j
    BY <1>1, <1>2, <1>4, <2>1, <2>3, ListAfterPush DEF FreeListInv
  <2>5. QED
    BY <1>1, <1>2, <1>3, <2>2, <2>3, <2>4, CarriedAlone, MoveStep DEF Hidden
<1>5. CASE head # top[t]
  <2>1. head' = head /\ list' = list /\ pc'[t] = "retract" /\ node'[t] = n
    BY <1>1, <1>5 DEF CasPush, TypeOK
  <2>2. \A m \in Nodes : Carrier(t, m)' <=> m = n
    BY <2>1 DEF Carrier, AddStates
  <2>3. QED
    BY <1>2, <1>3, <2>1, <2>2, QuietStep DEF Hidden
<1>6. QED
  BY <1>4, <1>5

LEMMA RetractPlaces ==
  ASSUME FreeListInv, NEW t \in Threads, Retract(t)
  PROVE  PlacesInv'
<1> Step(t) /\ TypeOK
  BY DEF Step, AddStep, FreeListInv
<1>1. PICK n \in Nodes : n = node[t] /\ Carrier(t, n)
  BY DEF FreeListInv, LocalInv, HasNode, Retract, Carrier, AddStates
<1>2. /\ own' = own /\ list' = list /\ head' = head /\ next' = next
      /\ should'[n] /\ refs'[n] = refs[n] - 1 /\ refs[n] \in Nat
      /\ \A m \in Nodes \ {n} : should'[m] = should[m] /\ refs'[m] = refs[m]
      /\ pc[t] = "retract"
  BY <1>1 DEF Retract, TypeOK
<1>3. \A m \in Nodes : Carrier(t, m) <=> m = n
  BY <1>1, <1>2 DEF Carrier, AddStates
<1>4. /\ n \notin Listed /\ n \notin own[t]
      /\ \A u \in Threads \ {t} : n \notin own[u] /\ ~Carrier(u, n)
  BY <1>1, CarriedAlone
<1>5. /\ ListIntact' /\ Listed' = Listed
      /\ \A i, j \in DOMAIN list' : list'[i] = list'[j] => i = j
  BY <1>2, ListStays
<1>6. CASE refs[n] = 1
  <2>1. pc'[t] = "link" /\ node'[t] = n
    BY <1>1, <1>6 DEF Retract, TypeOK
  <2>2. \A m \in Nodes : Carrier(t, m)' <=> m = n
    BY <2>1 DEF Carrier, AddStates
  <2>3. refs'[n] = 0
    BY <1>2, <1>6
  <2>4. QED
    BY <1>1, <1>2, <1>3, <1>4, <1>5, <2>1, <2>2, <2>3, MoveStep DEF Hidden
<1>7. CASE refs[n] # 1
  <2>1. pc'[t] \in {"acquire", "idle"}
    BY <1>1, <1>7 DEF Retract, EndAdd, TypeOK
  <2>2. \A m \in Nodes : ~Carrier(t, m)'
    BY <2>1 DEF Carrier, AddStates
  <2>3. refs'[n] # 0
    BY <1>2, <1>7
  <2>4. QED
    BY <1>1, <1>2, <1>3, <1>4, <1>5, <2>2, <2>3, MoveStep DEF Hidden
<1>8. QED
  BY <1>6, <1>7

\* The head is the node that the thread has looked at, and its link still
\* what the thread has read: the list loses its first node.
LEMMA CasPopPlaces ==
  ASSUME FreeListInv, NEW t \in Threads, CasPop(t)
  PROVE  PlacesInv'
<1> Step(t) /\ TypeOK
  BY DEF Step, GetStep, FreeListInv
<1>1. PICK n \in Nodes : n = cur[t] /\ Refers(t, n) /\ succ[t] = next[n]
  BY DEF FreeListInv, LocalInv, HasCur, CasPop, Refers
<1>2. /\ own' = own /\ next' = next /\ refs' = refs /\ should' = should
      /\ pc[t] = "casPop"
  BY DEF CasPop
<1>3. \A m \in Nodes : ~Carrier(t, m)
  BY <1>2 DEF Carrier, AddStates
<1>4. CASE head = n
  <2>1. head' = next[n] /\ list' = Tail(list) /\ pc'[t] = "keep" /\ cur'[t] = n
    BY <1>1, <1>4 DEF CasPop, TypeOK
  <2>2. \A m \in Nodes : Carrier(t, m)' <=> m = n
    BY <2>1 DEF Carrier, AddStates
  <2>3. /\ ListIntact' /\ Listed' = Listed \ {n} /\ n \in Listed
        /\ \A i, j \in DOMAIN list' : list'[i] = list'[j] => i = j
    BY <1>1, <1>2, <1>4, <2>1, ListAfterPop, FreeListAssumption DEF FreeListInv
  <2>4. /\ ~should[n] /\ n \notin own[t]
        /\ \A u \in Threads \ {t} : n \notin own[u] /\ ~Carrier(u, n)
    BY <2>3 DEF FreeListInv, PlaceInv, Owned, Carried
  <2>5. QED
    BY <1>1, <1>2, <1>3, <2>1, <2>2, <2>3, <2>4, MoveStep DEF Hidden
<1>5. CASE head # n
  <2>1. head' = head /\ list' = list /\ pc'[t] = "release"
    BY <1>1, <1>5 DEF CasPop, TypeOK
  <2>2. \A m \in Nodes : ~Carrier(t, m)'
    BY <2>1 DEF Carrier, AddStates
  <2>3. QED
    BY <1>2, <1>3, <2>1, <2>2, QuietStep DEF Hidden
<1>6. QED
  BY <1>4, <1>5

LEMMA KeepPlaces ==
  ASSUME FreeListInv, NEW t \in Threads, Keep(t)
  PROVE  PlacesInv'
<1> Step(t) /\ TypeOK
  BY DEF Step, GetStep, FreeListInv
<1>1. PICK n \in Nodes : n = cur[t] /\ Carrier(t, n) /\ pc[t] = "keep"
  BY DEF FreeListInv, LocalInv, HasCur, Keep, Goto, Carrier
<1>2. /\ list' = list /\ head' = head /\ next' = next /\ should' = should
      /\ \A m \in Nodes \ {n} : refs'[m] = refs[m]
      /\ own'[t] = own[t] \cup {n} /\ pc'[t] = "idle"
  BY <1>1 DEF Keep, Goto, TypeOK
<1>3. \A m \in Nodes : (Carrier(t, m) <=> m = n) /\ ~Carrier(t, m)'
  BY <1>1, <1>2 DEF Carrier, AddStates
<1>4. /\ n \notin Listed /\ ~should[n]
      /\ \A u \in Threads \ {t} : n \notin own[u] /\ ~Carrier(u, n)
  BY <1>1, CarriedAlone, ExposedNode
<1>5. /\ ListIntact' /\ Listed' = Listed
      /\ \A i, j \in DOMAIN list' : list'[i] = list'[j] => i = j
  BY <1>2, ListStays
<1>6. QED
  BY <1>1, <1>2, <1>3, <1>4, <1>5, MoveStep DEF Hidden

\* The last reference to a node that should be on the list makes its holder
\* the carrier; nobody else had it.
LEMMA ReleasePlaces ==
  ASSUME FreeListInv, NEW t \in Threads, Release(t)
  PROVE  PlacesInv'
<1> Step(t) /\ TypeOK
  BY DEF Step, GetStep, FreeListInv
<1>1. PICK n \in Nodes : n = node[t] /\ Refers(t, n) /\ pc[t] = "release"
  BY DEF FreeListInv, LocalInv, HasNode, Release, Refers
<1>2. /\ list' = list /\ head' = head /\ next' = next /\ should' = should /\ own' = own
      /\ refs'[n] = refs[n] - 1 /\ refs[n] \in Nat /\ refs[n] >= 1
      /\ \A m \in Nodes \ {n} : refs'[m] = refs[m]
  BY <1>1, Referred DEF Release, TypeOK
<1>3. \A m \in Nodes : ~Carrier(t, m)
  BY <1>1 DEF Carrier, AddStates
<1>4. CASE refs[n] = 1 /\ should[n]
  <2>1. pc'[t] = "push" /\ node'[t] = n /\ refs'[n] = 0
    BY <1>1, <1>2, <1>4 DEF Release, TypeOK
  <2>2. \A m \in Nodes : Carrier(t, m)' <=> m = n
    BY <2>1 DEF Carrier, AddStates
  <2>3. ~Carried(n)
    BY <1>1, <1>4, Referred DEF Carried, FreeListInv, CarrierInv
  <2>4. /\ n \notin Listed /\ n \notin own[t]
        /\ \A u \in Threads \ {t} : n \notin own[u] /\ ~Carrier(u, n)
    BY <1>4, <2>3 DEF FreeListInv, PlaceInv, Owned, Carried
  <2>5. /\ ListIntact' /\ Listed' = Listed
        /\ \A i, j \in DOMAIN list' : list'[i] = list'[j] => i = j
    BY <1>2, ListStays
  <2>6. QED
    BY <1>1, <1>2, <1>3, <1>4, <2>1, <2>2, <2>4, <2>5, MoveStep DEF Hidden
<1>5. CASE ~(refs[n] = 1 /\ should[n])
  <2>1. pc'[t] \in {"idle", "acquire"}
    BY <1>1, <1>5 DEF Release, TypeOK
  <2>2. \A m \in Nodes : ~Carrier(t, m)'
    BY <2>1 DEF Carrier, AddStates
  <2>3. \A m \in Nodes : should[m] => (refs'[m] = 0 <=> refs[m] = 0)
    BY <1>2, <1>5
  <2>4. QED
    BY <1>2, <1>3, <2>2, <2>3, QuietStep
<1>6. QED
  BY <1>4, <1>5

\* Steps that only look, link a hidden node or take a reference.
LEMMA OtherPlaces ==
  ASSUME FreeListInv, NEW t \in Threads,
         \/ LoadTop(t) \/ Link(t) \/ BeginGet(t)
         \/ LoadHead(t) \/ Acquire(t) \/ ReadNext(t)
  PROVE  PlacesInv'
<1> Step(t) /\ TypeOK
  BY DEF Step, AddStep, GetStep, FreeListInv
<1>1. own' = own /\ should' = should /\ list' = list /\ head' = head /\ node' = node
  BY DEF LoadTop, Link, BeginGet, LoadHead, Acquire, ReadNext, sharedVars, localVars
<1>2. \/ pc[t] \in {"push", "link"} /\ pc'[t] \in {"link", "expose"}
      \/ pc[t] \in {"idle", "load", "acquire", "readNext"}
           /\ pc'[t] \in {"idle", "load", "acquire", "readNext", "casPop"}
  BY DEF LoadTop, Link, BeginGet, LoadHead, Acquire, ReadNext, Goto, TypeOK
<1>3. \A m \in Nodes : /\ Carrier(t, m)' <=> Carrier(t, m)
                       /\ Carrier(t, m) => (pc'[t] \in Hidden <=> pc[t] \in Hidden)
  BY <1>1, <1>2 DEF Carrier, AddStates, Hidden
<1>4. \A m \in Nodes : refs'[m] = 0 <=> refs[m] = 0
  <2>1. CASE Acquire(t)
    <3>1. cur[t] \in Nodes
      BY <2>1 DEF FreeListInv, LocalInv, HasCur, Acquire, Goto
    <3>2. QED
      BY <2>1, <3>1 DEF Acquire, TypeOK
  <2>2. CASE ~Acquire(t)
    BY <2>2 DEF LoadTop, Link, BeginGet, LoadHead, ReadNext, sharedVars
  <2>3. QED
    BY <2>1, <2>2
<1>5. \A m \in Listed : next'[m] = next[m]
  <2>1. CASE Link(t)
    <3>1. PICK n \in Nodes : n = node[t] /\ Carrier(t, n)
      BY <2>1 DEF FreeListInv, LocalInv, HasNode, Link, Goto, Carrier, AddStates
    <3>2. n \notin Listed
      BY <3>1, CarriedAlone
    <3>3. QED
      BY <2>1, <3>1, <3>2 DEF Link, TypeOK
  <2>2. CASE ~Link(t)
    BY <2>2 DEF LoadTop, BeginGet, LoadHead, Acquire, ReadNext, sharedVars
  <2>3. QED
    BY <2>1, <2>2
<1>6. QED
  BY <1>1, <1>3, <1>4, <1>5, QuietStep

LEMMA PlacesStep ==
  ASSUME FreeListInv, NEW t \in Threads, Step(t)
  PROVE  PlacesInv'
BY AddPlaces, ExposePlaces, CasPushPlaces, RetractPlaces, CasPopPlaces, KeepPlaces,
   ReleasePlaces, OtherPlaces
   DEF Step, AddStep, GetStep

\* The count of a node after a step, from what the step changes.
LEMMA CountAfter ==
  ASSUME FreeListInv, NEW t \in Threads, Step(t), NEW n \in Nodes,
         refs'[n] + (IF Refers(t, n) THEN 1 ELSE 0) + ListReference(n)
           = refs[n] + (IF Refers(t, n)' THEN 1 ELSE 0) + ListReference(n)'
  PROVE  refs'[n] = Cardinality(Holders(n))' + ListReference(n)'
<1>1. refs[n] = Cardinality(Holders(n)) + ListReference(n) /\ refs[n] \in Nat
  BY DEF FreeListInv, RefsInv, TypeOK
<1>2. Cardinality(Holders(n)') + (IF Refers(t, n) THEN 1 ELSE 0)
        = Cardinality(Holders(n)) + (IF Refers(t, n)' THEN 1 ELSE 0)
  BY OthersRest, HoldersChange DEF FreeListInv
<1>3. Cardinality(Holders(n)) \in Nat /\ Cardinality(Holders(n)') \in Nat
  <2>1. Holders(n)' \subseteq Threads
    BY DEF Holders
  <2>2. QED
    BY <2>1, HoldersFinite, FreeListAssumption, FS_Subset, FS_CardinalityType
<1>4. ListReference(n) \in {0, 1} /\ ListReference(n)' \in {0, 1} /\ refs'[n] \in Nat
  BY TypeStep DEF ListReference, TypeOK
<1>5. QED
  BY <1>1, <1>2, <1>3, <1>4

LEMMA RefsStep ==
  ASSUME FreeListInv, NEW t \in Threads, Step(t)
  PROVE  RefsInv'
<1> DEFINE R(n)  == IF Refers(t, n) THEN 1 ELSE 0
           RR(n) == IF Refers(t, n)' THEN 1 ELSE 0
           Balanced(n) ==
             refs'[n] + R(n) + ListReference(n) = refs[n] + RR(n) + ListReference(n)'
<1> TypeOK
  BY DEF FreeListInv
<1> SUFFICES ASSUME NEW n \in Nodes PROVE Balanced(n)
  BY CountAfter DEF RefsInv
<1>0. refs[n] \in Nat /\ ListReference(n) \in {0, 1} /\ ListReference(n)' \in {0, 1}
  BY DEF TypeOK, ListReference
<1>1. CASE \/ LoadTop(t) \/ Link(t) \/ BeginGet(t) \/ LoadHead(t) \/ ReadNext(t)
           \/ CasPop(t) \/ CasPush(t)
  <2>1. refs' = refs /\ should' = should /\ own' = own
    BY <1>1 DEF LoadTop, Link, BeginGet, LoadHead, ReadNext, CasPop, CasPush,
                sharedVars
  <2>2. Refers(t, n)' <=> Refers(t, n)
    BY <1>1 DEF LoadTop, Link, BeginGet, LoadHead, ReadNext, CasPop, CasPush, Goto,
                EndAdd, sharedVars, localVars, Refers, TypeOK
  <2>3. ListReference(n)' = ListReference(n)
    BY <2>1 DEF ListReference, Owned
  <2>4. QED
    BY <2>1, <2>2, <2>3, <1>0
<1>2. CASE \E m \in Nodes : Add(t, m)
  <2>1. PICK m \in Nodes : Add(t, m)
    BY <1>2
  <2>2. refs' = refs /\ ~Refers(t, n) /\ ~Refers(t, n)'
    BY <2>1 DEF Add, Goto, Refers, TypeOK
  <2>3. ListReference(n)' = ListReference(n)
    <3>1. CASE n = m
      BY <3>1, <2>1 DEF Add, TypeOK, ListReference, Owned
    <3>2. CASE n # m
      <4>1. (should'[n] <=> should[n]) /\ (Owned(n)' <=> Owned(n))
        BY <3>2, <2>1, PlacesAfter DEF Add, TypeOK
      <4>2. QED
        BY <4>1 DEF ListReference
    <3>3. QED
      BY <3>1, <3>2
  <2>4. QED
    BY <2>2, <2>3, <1>0
<1>3. CASE Expose(t)
  <2>1. PICK m \in Nodes : m = node[t] /\ Carrier(t, m)
    BY <1>3 DEF FreeListInv, LocalInv, HasNode, Expose, Goto, Carrier, AddStates
  <2>2. ~Refers(t, n) /\ ~Refers(t, n)' /\ own' = own
    BY <1>3 DEF Expose, Goto, Refers, TypeOK
  <2>3. CASE n = m
    <3>1. refs[n] = 0 /\ should[n]
      BY <1>3, <2>1, <2>3 DEF FreeListInv, CarrierInv, Expose, Goto
    <3>2. ~Owned(n)'
      BY <2>1, <2>2, <2>3, CarriedAlone DEF Owned
    <3>3. refs'[n] = 1 /\ ~should'[n]
      BY <1>3, <2>1, <2>3 DEF Expose, TypeOK
    <3>4. QED
      BY <2>2, <3>1, <3>2, <3>3 DEF ListReference
  <2>4. CASE n # m
    <3>1. refs'[n] = refs[n] /\ should'[n] = should[n]
      BY <1>3, <2>1, <2>4 DEF Expose, TypeOK
    <3>2. QED
      BY <2>2, <3>1, <1>0 DEF ListReference, Owned
  <2>5. QED
    BY <2>3, <2>4
<1>4. CASE Retract(t)
  <2>1. PICK m \in Nodes : m = node[t] /\ Carrier(t, m)
    BY <1>4 DEF FreeListInv, LocalInv, HasNode, Retract, Carrier, AddStates
  <2>2. ~Refers(t, n) /\ ~Refers(t, n)' /\ own' = own
    BY <1>4 DEF Retract, EndAdd, Refers, TypeOK
  <2>3. CASE n = m
    <3>1. ListReference(n) = 1
      BY <1>4, <2>1, <2>3, ExposedNode DEF Retract
    <3>2. refs'[n] = refs[n] - 1 /\ should'[n]
      BY <1>4, <2>1, <2>3 DEF Retract, TypeOK
    <3>3. QED
      BY <2>2, <3>1, <3>2, <1>0 DEF ListReference
  <2>4. CASE n # m
    <3>1. refs'[n] = refs[n] /\ should'[n] = should[n]
      BY <1>4, <2>1, <2>4 DEF Retract, TypeOK
    <3>2. QED
      BY <2>2, <3>1, <1>0 DEF ListReference, Owned
  <2>5. QED
    BY <2>3, <2>4
<1>5. CASE Acquire(t)
  <2>1. PICK m \in Nodes : m = cur[t]
    BY <1>5 DEF FreeListInv, LocalInv, HasCur, Acquire, Goto
  <2>2. should' = should /\ own' = own /\ cur' = cur /\ pc[t] = "acquire"
    BY <1>5 DEF Acquire, Goto, localVars
  <2>3. ListReference(n)' = ListReference(n) /\ ~Refers(t, n)
    BY <2>2 DEF ListReference, Owned, Refers
  <2>4. CASE pc'[t] = "readNext"
    <3>1. refs'[n] = IF n = m THEN refs[n] + 1 ELSE refs[n]
      BY <1>5, <2>1, <2>4 DEF Acquire, Goto, TypeOK
    <3>2. Refers(t, n)' <=> n = m
      BY <2>1, <2>2, <2>4 DEF Refers
    <3>3. QED
      BY <2>3, <3>1, <3>2, <1>0
  <2>5. CASE pc'[t] # "readNext"
    <3>1. refs' = refs /\ pc'[t] = "load"
      BY <1>5, <2>5 DEF Acquire, Goto, TypeOK
    <3>2. QED
      BY <2>3, <3>1, <1>0 DEF Refers
  <2>6. QED
    BY <2>4, <2>5
<1>6. CASE Keep(t)
  <2>1. PICK m \in Nodes : m = cur[t] /\ Carrier(t, m) /\ Refers(t, m) /\ pc[t] = "keep"
    BY <1>6 DEF FreeListInv, LocalInv, HasCur, Keep, Goto, Carrier, Refers
  <2>2. should' = should /\ ~Refers(t, n)' /\ (Refers(t, n) <=> n = m)
    BY <1>6, <2>1 DEF Keep, Goto, Refers, TypeOK
  <2>3. CASE n = m
    <3>1. ListReference(n) = 1 /\ refs[n] >= 2
      BY <2>1, <2>3, ExposedNode, Referred
    <3>2. refs'[n] = refs[n] - 2 /\ n \in own'[t]
      BY <1>6, <2>1, <2>3 DEF Keep, TypeOK
    <3>3. ListReference(n)' = 0
      BY <3>2 DEF ListReference, Owned
    <3>4. QED
      BY <2>2, <2>3, <3>1, <3>2, <3>3, <1>0
  <2>4. CASE n # m
    <3>1. refs'[n] = refs[n] /\ (n \in own'[t] <=> n \in own[t])
      BY <1>6, <2>1, <2>4 DEF Keep, TypeOK
    <3>2. ListReference(n)' = ListReference(n)
      BY <2>2, <3>1, PlacesAfter DEF ListReference
    <3>3. QED
      BY <2>2, <2>4, <3>1, <3>2, <1>0
  <2>5. QED
    BY <2>3, <2>4
<1>7. CASE Release(t)
  <2>1. PICK m \in Nodes : m = node[t] /\ Refers(t, m) /\ pc[t] = "release"
    BY <1>7 DEF FreeListInv, LocalInv, HasNode, Release, Refers
  <2>2. should' = should /\ own' = own
    BY <1>7 DEF Release
  <2>3. ~Refers(t, n)' /\ (Refers(t, n) <=> n = m)
    BY <1>7, <2>1 DEF Release, Refers, TypeOK
  <2>4. refs'[n] = IF n = m THEN refs[n] - 1 ELSE refs[n]
    BY <1>7, <2>1 DEF Release, TypeOK
  <2>5. ListReference(n)' = ListReference(n)
    BY <2>2 DEF ListReference, Owned
  <2>6. QED
    BY <2>3, <2>4, <2>5, <1>0
<1>8. QED
  BY <1>1, <1>2, <1>3, <1>4, <1>5, <1>6, <1>7 DEF Step, AddStep, GetStep

LEMMA FreeListStep == FreeListInv /\ [Next]_vars => FreeListInv'
<1>1. ASSUME FreeListInv, NEW t \in Threads, Step(t) PROVE FreeListInv'
  BY <1>1, TypeStep, LocalStep, PlacesStep, RefsStep DEF FreeListInv, PlacesInv
<1>2. ASSUME FreeListInv, UNCHANGED vars PROVE FreeListInv'
  <2> USE <1>2 DEF vars, sharedVars, localVars
  <2>1. TypeOK' /\ LocalInv'
    BY DEF FreeListInv, TypeOK, LocalInv, HasNode, HasCur
  <2>2. /\ Listed' = Listed
        /\ \A n \in Nodes : /\ Owned(n)' <=> Owned(n)
                            /\ Holders(n)' = Holders(n)
                            /\ \A u \in Threads : Carrier(u, n)' <=> Carrier(u, n)
    BY DEF Listed, Owned, Holders, Refers, Carrier
  <2>3. UniqueInv' /\ PlaceInv' /\ CarrierInv' /\ ListIntact'
    BY <2>2 DEF FreeListInv, UniqueInv, PlaceInv, CarrierInv, ListIntact, Carried
  <2>4. RefsInv'
    BY <2>2 DEF FreeListInv, RefsInv, ListReference
  <2>5. QED
    BY <2>1, <2>3, <2>4 DEF FreeListInv
<1>3. QED
  BY <1>1, <1>2, NextIsStep

LEMMA FreeListInit == Init => FreeListInv
<1> SUFFICES ASSUME Init PROVE FreeListInv
  OBVIOUS
<1>1. TypeOK /\ LocalInv
  BY DEF Init, TypeOK, LocalInv, HasNode, HasCur, AddStates
<1>2. /\ DOMAIN list = {} /\ Listed = {}
      /\ \A t \in Threads : \A n \in Nodes : ~Carrier(t, n) /\ ~Refers(t, n)
  BY DEF Init, Listed, Carrier, Refers, AddStates
<1>3. \A n \in Nodes : Owned(n) /\ ~should[n] /\ refs[n] = 0
  BY DEF Init, Owned
<1>4. UniqueInv /\ PlaceInv /\ CarrierInv /\ ListIntact
  BY <1>2, <1>3 DEF Init, UniqueInv, PlaceInv, CarrierInv, ListIntact, Carried
<1>5. RefsInv
  BY <1>2, <1>3, FS_EmptySet DEF RefsInv, Holders, ListReference
<1>6. QED
  BY <1>1, <1>4, <1>5 DEF FreeListInv

LEMMA FreeListInvariant == Spec => []FreeListInv
BY FreeListInit, FreeListStep, PTL DEF Spec

-----------------------------------------------------------------------------
(* The theorems.                                                           *)

\* Counts of references never fall below zero, and a thread that goes to a
\* node has one.
THEOREM TypeCorrect == Spec => []TypeOK
<1>1. FreeListInv => TypeOK
  BY DEF FreeListInv
<1>2. QED
  BY <1>1, FreeListInvariant, PTL

\* No compare-and-swap of the head, in try_get or in an addition, succeeds
\* with a link that is out of date (the ABA problem): the head and the links
\* spell the list.
THEOREM ListStaysIntact == Spec => []ListIntact
<1>1. FreeListInv => ListIntact
  BY DEF FreeListInv
<1>2. QED
  BY <1>1, FreeListInvariant, PTL

\* A count of elements that are all the same.
LEMMA AtMostOne ==
  ASSUME NEW S, \A x, y \in S : x = y
  PROVE  Cardinality(S) = IF S = {} THEN 0 ELSE 1
<1>1. CASE S = {}
  BY <1>1, FS_EmptySet
<1>2. CASE S # {}
  <2>1. PICK x \in S : S = {x}
    BY <1>2
  <2>2. QED
    BY <1>2, <2>1, FS_Singleton
<1>3. QED
  BY <1>1, <1>2

\* The free list neither loses a block nor gives it to two threads, and none is
\* on it twice.
THEOREM NodesAreConserved == Spec => []NodesConserved
<1>1. ASSUME FreeListInv PROVE NodesConserved
  <2> SUFFICES ASSUME NEW n \in Nodes
               PROVE  Cardinality({i \in DOMAIN list : list[i] = n})
                        + Cardinality({t \in Threads : n \in own[t]})
                        + Cardinality({t \in Threads : Carrier(t, n)})
                        + (IF should[n] /\ refs[n] > 0 THEN 1 ELSE 0) = 1
    BY DEF NodesConserved
  <2>1. Cardinality({i \in DOMAIN list : list[i] = n}) = IF n \in Listed THEN 1 ELSE 0
    BY <1>1, AtMostOne, InListed DEF FreeListInv, UniqueInv
  <2>2. Cardinality({t \in Threads : n \in own[t]}) = IF Owned(n) THEN 1 ELSE 0
    BY <1>1, AtMostOne DEF FreeListInv, UniqueInv, Owned
  <2>3. Cardinality({t \in Threads : Carrier(t, n)}) = IF Carried(n) THEN 1 ELSE 0
    BY <1>1, AtMostOne DEF FreeListInv, UniqueInv, Carried
  <2>4. Carried(n) /\ should[n] => refs[n] = 0
    BY <1>1 DEF FreeListInv, CarrierInv, Carried
  <2>5. refs[n] \in Nat
    BY <1>1 DEF FreeListInv, TypeOK
  <2>6. QED
    BY <1>1, <2>1, <2>2, <2>3, <2>4, <2>5 DEF FreeListInv, PlaceInv
<1>2. QED
  BY <1>1, FreeListInvariant, PTL

-----------------------------------------------------------------------------
(* The refinement of FreeBlocks: a node is free from the beginning of add, *)
(* which may leave the rest to others, to the end of try_get.              *)

Free == {n \in Nodes : ~Owned(n)}

Set == INSTANCE FreeBlocks WITH Blocks <- Nodes, free <- Free

\* Only add gives a node away, and only try_get acquires one: a free one.
LEMMA SetStep == FreeListInv /\ [Next]_vars => [Set!Next]_Free
<1> SUFFICES ASSUME FreeListInv, [Next]_vars PROVE [Set!Next]_Free
  OBVIOUS
<1> USE DEF FreeListInv
<1>1. ASSUME own' = own PROVE Free' = Free
  BY <1>1 DEF Free, Owned
<1>2. ASSUME NEW t \in Threads, NEW n \in Nodes, Add(t, n) PROVE Set!Put(n)
  <2>1. n \in own[t] /\ own' = [own EXCEPT ![t] = @ \ {n}]
    BY <1>2 DEF Add
  <2>2. \A u \in Threads : u # t => n \notin own[u]
    BY <2>1 DEF UniqueInv
  <2>3. ~Owned(n)' /\ \A m \in Nodes : m # n => (Owned(m)' <=> Owned(m))
    BY <2>1, <2>2 DEF Owned, TypeOK
  <2>4. QED
    BY <2>1, <2>3 DEF Set!Put, Free, Owned
<1>3. ASSUME NEW t \in Threads, Keep(t) PROVE Set!Next
  <2>1. PICK n \in Nodes : pc[t] = "keep" /\ n = cur[t]
    BY <1>3 DEF Keep, Goto, LocalInv, HasCur
  <2>2. own' = [own EXCEPT ![t] = @ \cup {n}]
    BY <1>3, <2>1 DEF Keep
  <2>3. ~Owned(n)
    BY <2>1 DEF PlaceInv, Carried, Carrier
  <2>4. Owned(n)' /\ \A m \in Nodes : m # n => (Owned(m)' <=> Owned(m))
    BY <2>2 DEF Owned, TypeOK
  <2>5. Set!Take(n)
    BY <2>3, <2>4 DEF Set!Take, Free
  <2>6. QED
    BY <2>5 DEF Set!Next
<1>4. ASSUME NEW t \in Threads, Step(t), ~Keep(t), \A n \in Nodes : ~Add(t, n)
      PROVE  own' = own
  BY <1>4
  DEF Step, AddStep, GetStep, BeginGet, LoadTop, Link, Expose, CasPush,
      Retract, LoadHead, Acquire, ReadNext, CasPop, Release
<1>5. QED
  BY <1>1, <1>2, <1>3, <1>4, NextIsStep DEF Set!Next, vars

\* The lock-free list implements the set of free blocks: no thread acquires a
\* block that another has acquired and not given back, whatever happens in
\* between their accesses.
THEOREM ListImplementsFreeBlocks == Spec => Set!Spec
<1>1. Init => Set!Init
  BY DEF Init, Set!Init, Free, Owned
<1>2. FreeListInv /\ [Next]_vars => [Set!Next]_Free
  BY SetStep
<1>3. QED
  BY <1>1, <1>2, FreeListInvariant, PTL DEF Spec, Set!Spec
=============================================================================
