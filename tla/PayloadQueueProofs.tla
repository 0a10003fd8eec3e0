-------------------------- MODULE PayloadQueueProofs --------------------------
(***************************************************************************)
(* Theorems about the queue of payloads, for any number of producers and   *)
(* consumers, any size of blocks and any number of elements.               *)
(*                                                                         *)
(* ControlInv says where the threads are and what they have read.          *)
(* ClaimInv keeps a ledger of the claims a producer's counters stand for,  *)
(* won, lost and undecided, which keeps consumers behind the tail.         *)
(* CountInv counts the threads that have passed the semaphore.             *)
(*                                                                         *)
(* The second half proves that the queue implements module BlockingBag:    *)
(* every element is handed to exactly one consumer, intact, although       *)
(* blocks are reused.  BlockInv says that a block is entered for every     *)
(* element that is still of use (LiveInv), in one index only (OwnerInv),   *)
(* with the element in its slot (ContentInv), and that its count of        *)
(* emptied slots is that of the elements done with (EmptiedInv), so that   *)
(* it is retired by the last consumer in it (RetireInv).                   *)
(***************************************************************************)
EXTENDS PayloadQueue, FiniteSetTheorems, SequenceTheorems, TLAPS

-----------------------------------------------------------------------------
(* Where the threads are, and the types of all that is no block.           *)

States == {"idle", "sleep"} \cup EnqueueStates \cup SearchStates \cup DequeueStates

\* The states of a consumer that is at a producer.
AtStates == {"readOvercommit", "filter", "claim", "check", "giveUp", "take"}
              \cup DequeueStates

ControlOK ==
  /\ pc \in [Threads -> States]
  /\ producers \in Seq(Producers)
  /\ tail \in [Producers -> Nat]
  /\ head \in [Producers -> Nat]
  /\ optimistic \in [Producers -> Nat]
  /\ overcommit \in [Producers -> Nat]
  /\ count \in Int /\ kernel \in Nat
  /\ rest \in [Threads -> Seq(Producers)]
  /\ best \in [Threads -> Producers \cup {NoThread}]
  /\ at \in [Threads -> Producers \cup {NoThread}]
  /\ over \in [Threads -> Nat]
  /\ mine \in [Threads -> Nat]
  /\ index \in [Threads -> Nat]

PlaceOK ==
  /\ \A t \in Threads : pc[t] \in AtStates => at[t] \in Producers
  /\ \A t \in Threads : best[t] # NoThread => Registered(best[t])
  /\ \A t \in Threads : pc[t] \in EnqueueStates => t \in Producers
  /\ \A t \in Threads : pc[t] \in {"enqueue", "write", "publish"} => tail[t] < Quota[t]
  /\ \A p \in Producers : tail[p] <= Quota[p]

ControlInv == ControlOK /\ PlaceOK

LEMMA FiniteThreads == IsFiniteSet(Threads) /\ NoThread \notin Producers
  BY QueueAssumption, FS_Union DEF Threads

LEMMA AllButType ==
  ASSUME ControlOK, NEW p \in Producers, Registered(p)
  PROVE  AllBut(p) \in Seq(Producers)
<1> DEFINE i == CHOOSE i \in DOMAIN producers : producers[i] = p
           n == Len(producers)
<1>1. producers \in Seq(Producers) /\ n \in Nat /\ DOMAIN producers = 1..n
  BY LenProperties DEF ControlOK
<1>2. i \in 1..n
  BY <1>1 DEF Registered
<1> HIDE DEF i
<1>3. \A k \in 1..n : producers[k] \in Producers
  BY <1>1, ElementOfSeq
<1>4. i - 1 \in Int /\ i + 1 \in Int /\ 1 \in Int /\ n \in Int
  BY <1>1, <1>2
<1>5. (\A k \in 1..(i - 1) : producers[k] \in Producers)
      /\ (\A k \in (i + 1)..n : producers[k] \in Producers)
  BY <1>1, <1>2, <1>3
<1>6. SubSeq(producers, 1, i - 1) \in Seq(Producers)
  BY <1>4, <1>5, SubSeqProperties
<1>7. SubSeq(producers, i + 1, n) \in Seq(Producers)
  BY <1>4, <1>5, SubSeqProperties
<1>8. QED
  BY <1>6, <1>7, ConcatProperties DEF AllBut, i

LEMMA ControlInit == Init => ControlInv
<1> SUFFICES ASSUME Init PROVE ControlInv
  OBVIOUS
<1>1. ControlOK
  BY EmptySeq DEF Init, ControlOK, States
<1>2. PlaceOK
  BY FiniteThreads, QueueAssumption DEF Init, PlaceOK, AtStates, EnqueueStates, DequeueStates
<1>3. QED
  BY <1>1, <1>2 DEF ControlInv

-----------------------------------------------------------------------------
\* What a step of one thread does to where it is.
Moves(t, to) == pc' = [pc EXCEPT ![t] = to]

LEMMA ControlStep ==
  ASSUME ControlInv, [Next]_vars
  PROVE  ControlInv'
<1> USE DEF ControlInv, Goto, States, AtStates, EnqueueStates, SearchStates,
            DequeueStates, countVars, elementVars, semaVars, lookVars, claimVars
<1>0. CASE UNCHANGED vars
  BY <1>0 DEF vars, ControlOK, PlaceOK, Registered
<1>1. ASSUME NEW t \in Threads, GetProducer(t) PROVE ControlInv'
  <2>1. producers' \in Seq(Producers)
    <3>1. <<t>> \in Seq(Producers) /\ producers \in Seq(Producers)
      BY <1>1 DEF GetProducer, ControlOK
    <3>2. QED
      BY <3>1, <1>1, ConcatProperties DEF GetProducer, ControlOK
  <2>2. \A p \in Producers : Registered(p) => Registered(p)'
    <3> SUFFICES ASSUME NEW p \in Producers, NEW i \in DOMAIN producers,
                        producers[i] = p, ~Registered(t)
                 PROVE  Registered(p)'
      BY <1>1 DEF GetProducer, Registered
    <3>1. producers' = <<t>> \o producers
      BY <1>1 DEF GetProducer
    <3>2. /\ <<t>> \in Seq(Producers) /\ producers \in Seq(Producers)
          /\ Len(<<t>>) = 1
      BY <1>1 DEF GetProducer, ControlOK
    <3>3. /\ i \in 1..Len(producers) /\ Len(producers) \in Nat
      BY <3>2, LenProperties
    <3>4. /\ Len(producers') = 1 + Len(producers)
          /\ \A j \in 1..Len(producers') :
               producers'[j] = IF j <= 1 THEN <<t>>[j] ELSE producers[j - 1]
      BY <3>1, <3>2, ConcatProperties
    <3>5. i + 1 \in 1..Len(producers') /\ producers'[i + 1] = p
      BY <3>3, <3>4
    <3>6. i + 1 \in DOMAIN producers'
      BY <2>1, <3>5, LenProperties
    <3>7. QED
      BY <3>5, <3>6 DEF Registered
  <2>3. ControlOK'
    BY <1>1, <2>1 DEF GetProducer, ControlOK
  <2>4. PlaceOK'
    BY <1>1, <2>2 DEF GetProducer, PlaceOK, ControlOK
  <2>5. QED
    BY <2>3, <2>4
<1>2. ASSUME NEW t \in Threads, NextProducer(t) PROVE ControlInv'
  <2> DEFINE others == IF best[t] # NoThread THEN AllBut(best[t]) ELSE rest[t]
  <2>1. others \in Seq(Producers)
    BY AllButType DEF ControlOK, PlaceOK
  <2> HIDE DEF others
  <2>2. others # <<>> => Head(others) \in Producers /\ Tail(others) \in Seq(Producers)
    BY <2>1, HeadTailProperties
  <2>3. /\ pc[t] = "next"
        /\ pc' = [pc EXCEPT ![t] = IF others = <<>> THEN "look" ELSE "readOvercommit"]
        /\ best' = [best EXCEPT ![t] = NoThread]
        /\ at' = [at EXCEPT ![t] = IF others = <<>> THEN NoThread ELSE Head(others)]
        /\ rest' = [rest EXCEPT ![t] = IF others = <<>> THEN <<>> ELSE Tail(others)]
        /\ UNCHANGED <<producers, countVars, semaVars, claimVars>>
    BY <1>2 DEF NextProducer, others
  <2>4. rest' \in [Threads -> Seq(Producers)]
    BY <2>2, <2>3, EmptySeq DEF ControlOK
  <2>5. ControlOK'
    BY <2>2, <2>3, <2>4 DEF ControlOK
  <2>6. PlaceOK'
    BY <2>2, <2>3 DEF PlaceOK, ControlOK, Registered
  <2>7. QED
    BY <2>5, <2>6
<1>3. ASSUME NEW t \in Threads,
             StartBlock(t) \/ WriteElement(t) \/ Publish(t) \/ Signal(t) \/ Post(t)
      PROVE  ControlInv'
  <2>1. CASE StartBlock(t) \/ WriteElement(t)
    <3>1. /\ \/ pc[t] = "enqueue" /\ pc' = [pc EXCEPT ![t] = "write"]
             \/ pc[t] = "write" /\ pc' = [pc EXCEPT ![t] = "publish"]
          /\ UNCHANGED <<producers, countVars, semaVars, lookVars, claimVars>>
      BY <2>1 DEF StartBlock, WriteElement
    <3>2. ControlOK'
      BY <3>1 DEF ControlOK
    <3>3. PlaceOK'
      BY <3>1 DEF ControlOK, PlaceOK, Registered
    <3>4. QED
      BY <3>2, <3>3
  <2>2. CASE Publish(t)
    <3>1. /\ pc[t] = "publish" /\ pc' = [pc EXCEPT ![t] = "signal"]
          /\ tail' = [tail EXCEPT ![t] = tail[t] + 1]
          /\ UNCHANGED <<producers, head, optimistic, overcommit, semaVars, lookVars,
                         claimVars>>
      BY <2>2 DEF Publish
    <3>2. t \in Producers /\ tail[t] < Quota[t] /\ tail[t] \in Nat /\ Quota[t] \in Nat
      BY <3>1, QueueAssumption DEF ControlOK, PlaceOK
    <3>3. \A p \in Producers : tail'[p] = IF p = t THEN tail[t] + 1 ELSE tail[p]
      BY <3>1 DEF ControlOK
    <3>4. tail' \in [Producers -> Nat]
      BY <3>1, <3>2 DEF ControlOK
    <3>5. ControlOK'
      BY <3>1, <3>4 DEF ControlOK
    <3>6. \A p \in Producers : tail'[p] <= Quota[p]
      BY <3>2, <3>3 DEF PlaceOK
    <3>7. pc'[t] = "signal" /\ \A u \in Threads : u # t => pc'[u] = pc[u]
      BY <3>1 DEF ControlOK
    <3>8. PlaceOK'
      BY <3>1, <3>2, <3>3, <3>6, <3>7, SMTT(20) DEF PlaceOK, Registered
    <3>9. QED
      BY <3>5, <3>8
  <2>3. CASE Signal(t) \/ Post(t)
    <3>1. PICK to \in {"post", "idle"} :
            /\ pc[t] \in {"signal", "post"} /\ pc' = [pc EXCEPT ![t] = to]
            /\ UNCHANGED <<producers, countVars, lookVars, claimVars>>
      BY <2>3 DEF Signal, Post
    <3>2. count' \in Int /\ kernel' \in Nat
      BY <2>3 DEF Signal, Post, ControlOK
    <3>3. pc' \in [Threads -> States]
      BY <3>1 DEF ControlOK
    <3>4. ControlOK'
      BY <3>1, <3>2, <3>3 DEF ControlOK
    <3>5. PlaceOK'
      BY <3>1 DEF ControlOK, PlaceOK, Registered
    <3>6. QED
      BY <3>4, <3>5
  <2>4. QED
    BY <1>3, <2>1, <2>2, <2>3
<1>4. ASSUME NEW t \in Threads, WaitSemaphore(t) \/ WakeUp(t) \/ PickBest(t)
      PROVE  ControlInv'
  <2>1. CASE WaitSemaphore(t)
    BY <2>1 DEF WaitSemaphore, ControlOK, PlaceOK, Registered
  <2>2. CASE WakeUp(t)
    BY <2>2 DEF WakeUp, ControlOK, PlaceOK, Registered
  <2>3. CASE PickBest(t)
    <3>1. PICK p \in Producers : /\ Registered(p)
                                 /\ at' = [at EXCEPT ![t] = p]
                                 /\ best' = [best EXCEPT ![t] = p]
      BY <2>3 DEF PickBest
    <3>2. QED
      BY <2>3, <3>1 DEF PickBest, ControlOK, PlaceOK, Registered
  <2>4. QED
    BY <1>4, <2>1, <2>2, <2>3
<1>5. ASSUME NEW t \in Threads,
             ReadOvercommit(t) \/ Filter(t) \/ Claim(t) \/ Check(t) \/ GiveUp(t)
      PROVE  ControlInv'
  <2>1. CASE ReadOvercommit(t)
    BY <2>1 DEF ReadOvercommit, ControlOK, PlaceOK, Registered
  <2>2. CASE Filter(t)
    BY <2>2 DEF Filter, ControlOK, PlaceOK, Registered
  <2>3. CASE Claim(t)
    <3>1. at[t] \in Producers /\ optimistic[at[t]] \in Nat
      BY <2>3 DEF Claim, ControlOK, PlaceOK
    <3>2. mine' \in [Threads -> Nat] /\ optimistic' \in [Producers -> Nat]
      BY <2>3, <3>1 DEF Claim, ControlOK
    <3>3. ControlOK'
      BY <2>3, <3>2 DEF Claim, ControlOK
    <3>4. PlaceOK'
      BY <2>3, <3>1 DEF Claim, ControlOK, PlaceOK, Registered
    <3>5. QED
      BY <3>3, <3>4
  <2>4. CASE Check(t)
    BY <2>4 DEF Check, ControlOK, PlaceOK, Registered
  <2>5. CASE GiveUp(t)
    <3>1. at[t] \in Producers /\ overcommit[at[t]] \in Nat
      BY <2>5 DEF GiveUp, ControlOK, PlaceOK
    <3>2. overcommit' \in [Producers -> Nat]
      BY <2>5, <3>1 DEF GiveUp, ControlOK
    <3>5. ControlOK'
      BY <2>5, <3>2 DEF GiveUp, ControlOK
    <3>3. PlaceOK'
      BY <2>5 DEF GiveUp, ControlOK, PlaceOK, Registered
    <3>4. QED
      BY <3>5, <3>3
  <2>6. QED
    BY <1>5, <2>1, <2>2, <2>3, <2>4, <2>5
<1>6. ASSUME NEW t \in Threads,
             TakeIndex(t) \/ MoveElement(t) \/ SetEmpty(t) \/ RetireBlock(t)
      PROVE  ControlInv'
  <2>1. CASE TakeIndex(t)
    <3>1. at[t] \in Producers /\ head[at[t]] \in Nat
      BY <2>1 DEF TakeIndex, ControlOK, PlaceOK
    <3>2. index' \in [Threads -> Nat] /\ head' \in [Producers -> Nat]
      BY <2>1, <3>1 DEF TakeIndex, ControlOK
    <3>3. ControlOK'
      BY <2>1, <3>2 DEF TakeIndex, ControlOK
    <3>4. PlaceOK'
      BY <2>1, <3>1 DEF TakeIndex, ControlOK, PlaceOK, Registered
    <3>5. QED
      BY <3>3, <3>4
  <2>2. CASE MoveElement(t)
    BY <2>2 DEF MoveElement, ControlOK, PlaceOK, Registered
  <2>3. ASSUME ReturnItem(t), Moves(t, "idle"),
               UNCHANGED <<producers, countVars, semaVars>>
        PROVE  ControlInv'
    <3>1. ControlOK'
      BY <2>3, EmptySeq DEF ReturnItem, ControlOK, Moves
    <3>2. PlaceOK'
      BY <2>3 DEF ReturnItem, ControlOK, PlaceOK, Registered, Moves
    <3>3. QED
      BY <3>1, <3>2
  <2>4. CASE SetEmpty(t)
    <3>1. CASE ReturnItem(t) /\ Moves(t, "idle")
      BY <2>3, <2>4, <3>1 DEF SetEmpty
    <3>2. CASE pc' = [pc EXCEPT ![t] = "retire"]
               /\ UNCHANGED <<lookVars, claimVars>>
      BY <2>4, <3>2 DEF SetEmpty, ControlOK, PlaceOK, Registered
    <3>3. QED
      BY <2>4, <3>1, <3>2 DEF SetEmpty, Moves
  <2>5. CASE RetireBlock(t)
    BY <2>3, <2>5 DEF RetireBlock, Moves
  <2>6. QED
    BY <1>6, <2>1, <2>2, <2>4, <2>5
<1>7. QED
  BY <1>0, <1>1, <1>2, <1>3, <1>4, <1>5, <1>6
     DEF Next, EnqueueStep, DequeueStep, Quiet

-----------------------------------------------------------------------------
(* The claims of a producer, numbered in the order of fetch_add: some have *)
(* won an element, some have been given back, the others are undecided.    *)
(* An undecided claim has read an overcommit that counts only claims given *)
(* back before it, so the last winner leaves no room for too many others.  *)

Before(S, n) == {m \in S : m < n}

Deciding(t, p) == at[t] = p /\ pc[t] \in {"check", "giveUp"}

LookingAt(t, p) == at[t] = p /\ pc[t] \in {"filter", "claim"}

Ledger(p, won, lost, last) ==
  /\ IsFiniteSet(won) /\ IsFiniteSet(lost)
  /\ won \cap lost = {}
  /\ \A n \in won \cup lost : n < optimistic[p]
  /\ Cardinality(won) = head[p] + Cardinality(Takers(p))
  /\ Cardinality(lost) = overcommit[p]
  /\ \A n \in won : n <= last
  /\ last >= -1
  /\ last - Cardinality(Before(lost, last)) < tail[p]
  /\ \A t \in Threads : LookingAt(t, p) => over[t] <= overcommit[p]
  /\ \A t \in Threads : Deciding(t, p) =>
       /\ mine[t] \notin won \cup lost
       /\ mine[t] < optimistic[p]
       /\ over[t] <= Cardinality(Before(lost, mine[t]))
  /\ \A t, u \in Threads :
       Deciding(t, p) /\ Deciding(u, p) /\ mine[t] = mine[u] => t = u

ClaimInv ==
  \A p \in Producers :
    \E won, lost \in SUBSET Nat : \E last \in Int : Ledger(p, won, lost, last)

LEMMA FewWinners ==
  ASSUME NEW p \in Producers, NEW won \in SUBSET Nat, NEW lost \in SUBSET Nat,
         NEW last \in Int, ControlOK, Ledger(p, won, lost, last)
  PROVE  head[p] + Cardinality(Takers(p)) <= tail[p]
<1> DEFINE given == Before(lost, last)
           all   == 0..last
<1>1. IsFiniteSet(given) /\ Cardinality(given) \in Nat
  BY FS_Subset, FS_CardinalityType DEF Ledger, Before
<1>2. IsFiniteSet(all) /\ Cardinality(all) = last + 1
  BY FS_Interval DEF Ledger
<1>3. all \cap given = given
  <2>1. ASSUME NEW m \in given PROVE m \in all
    BY <2>1 DEF Before
  <2>2. QED
    BY <2>1
<1>5. won \subseteq all \ given
  BY DEF Ledger, Before
<1> HIDE DEF given, all
<1>4. IsFiniteSet(all \ given) /\ Cardinality(all \ given) = last + 1 - Cardinality(given)
  <2>1. /\ IsFiniteSet(all \ given)
        /\ Cardinality(all \ given) = Cardinality(all) - Cardinality(all \cap given)
    BY <1>2, FS_Difference
  <2>2. Cardinality(all \ given) = Cardinality(all) - Cardinality(given)
    BY <1>3, <2>1
  <2>3. QED
    BY <1>1, <1>2, <2>1, <2>2
<1>6. Cardinality(won) <= Cardinality(all \ given)
  BY <1>4, <1>5, FS_Subset
<1>7. tail[p] \in Nat
  BY DEF ControlOK
<1>8. IsFiniteSet(won) /\ Cardinality(won) \in Nat
  BY FS_CardinalityType DEF Ledger
<1>9. last - Cardinality(given) < tail[p]
  BY DEF Ledger, given
<1>10. Cardinality(won) = head[p] + Cardinality(Takers(p))
  BY DEF Ledger
<1>11. QED
  BY <1>1, <1>4, <1>6, <1>7, <1>8, <1>9, <1>10

LEMMA ClaimsImplyTail == ControlInv /\ ClaimInv => NeverPastTail
  BY FewWinners DEF ControlInv, ClaimInv, NeverPastTail

LEMMA TakersFinite ==
  \A p \in Producers : IsFiniteSet(Takers(p)) /\ Cardinality(Takers(p)) \in Nat
<1> SUFFICES ASSUME NEW p \in Producers
             PROVE  IsFiniteSet(Takers(p)) /\ Cardinality(Takers(p)) \in Nat
  OBVIOUS
<1>1. Takers(p) \subseteq Threads
  BY DEF Takers
<1>2. QED
  BY <1>1, FiniteThreads, FS_Subset, FS_CardinalityType

LEMMA ClaimInit == Init => ClaimInv
<1> SUFFICES ASSUME Init, NEW p \in Producers
             PROVE  Ledger(p, {}, {}, -1)
  BY DEF ClaimInv
<1>1. Takers(p) = {}
  BY DEF Init, Takers
<1>2. Before({}, -1) = {}
  BY DEF Before
<1>3. IsFiniteSet({}) /\ Cardinality({}) = 0
  BY FS_EmptySet
<1>4. /\ optimistic[p] = 0 /\ head[p] = 0 /\ overcommit[p] = 0 /\ tail[p] = 0
      /\ \A t \in Threads : ~LookingAt(t, p) /\ ~Deciding(t, p)
  BY DEF Init, LookingAt, Deciding
<1>5. QED
  BY <1>1, <1>2, <1>3, <1>4 DEF Ledger

\* A step that makes no claim on p and decides none ...
SameClaims(p) ==
  /\ optimistic'[p] = optimistic[p] /\ head'[p] = head[p]
  /\ overcommit'[p] = overcommit[p] /\ tail'[p] >= tail[p]
  /\ Takers(p)' = Takers(p)
  /\ \A t \in Threads : LookingAt(t, p)' =>
       \/ LookingAt(t, p) /\ over'[t] = over[t]
       \/ over'[t] = overcommit[p]
  /\ \A t \in Threads : Deciding(t, p)' =>
       Deciding(t, p) /\ mine'[t] = mine[t] /\ over'[t] = over[t]

\* ... leaves the ledger alone.
LEMMA LedgerKept ==
  ASSUME NEW p \in Producers, NEW won \in SUBSET Nat, NEW lost \in SUBSET Nat,
         NEW last \in Int, Ledger(p, won, lost, last), ControlOK, ControlOK',
         SameClaims(p)
  PROVE  Ledger(p, won, lost, last)'
<1>1. last - Cardinality(Before(lost, last)) < tail'[p]
  <2>1. IsFiniteSet(Before(lost, last)) /\ Cardinality(Before(lost, last)) \in Nat
    BY FS_Subset, FS_CardinalityType DEF Ledger, Before
  <2>2. last - Cardinality(Before(lost, last)) < tail[p]
    BY DEF Ledger
  <2>3. tail[p] \in Nat /\ tail'[p] \in Nat /\ tail'[p] >= tail[p]
    BY DEF ControlOK, SameClaims
  <2>4. QED
    BY <2>1, <2>2, <2>3
<1>2. \A t \in Threads : LookingAt(t, p)' => over'[t] <= overcommit'[p]
  <2>1. overcommit[p] \in Nat
    BY DEF ControlOK
  <2>2. \A t \in Threads : LookingAt(t, p) => over[t] <= overcommit[p]
    BY DEF Ledger
  <2>3. QED
    BY <2>1, <2>2 DEF SameClaims
<1>3. \A t \in Threads : Deciding(t, p)' =>
       /\ mine'[t] \notin won \cup lost
       /\ mine'[t] < optimistic'[p]
       /\ over'[t] <= Cardinality(Before(lost, mine'[t]))
  BY DEF Ledger, SameClaims
<1>4. \A t, u \in Threads :
       Deciding(t, p)' /\ Deciding(u, p)' /\ mine'[t] = mine'[u] => t = u
  BY DEF Ledger, SameClaims
<1>5. QED
  BY <1>1, <1>2, <1>3, <1>4 DEF Ledger, SameClaims

\* fetch_add numbers a new claim, behind all that were given back so far.
LEMMA LedgerClaim ==
  ASSUME NEW p \in Producers, NEW won \in SUBSET Nat, NEW lost \in SUBSET Nat,
         NEW last \in Int, Ledger(p, won, lost, last), ControlInv, ControlInv',
         NEW t \in Threads, Claim(t), at[t] = p
  PROVE  Ledger(p, won, lost, last)'
<1>1. /\ pc[t] = "claim" /\ pc' = [pc EXCEPT ![t] = "check"]
      /\ mine' = [mine EXCEPT ![t] = optimistic[p]]
      /\ optimistic' = [optimistic EXCEPT ![p] = optimistic[p] + 1]
      /\ UNCHANGED <<tail, head, overcommit, at, over>>
  BY DEF Claim, Goto, lookVars
<1>2. /\ mine'[t] = optimistic[p] /\ optimistic'[p] = optimistic[p] + 1
      /\ optimistic[p] \in Nat /\ overcommit[p] \in Nat /\ over[t] \in Nat
  BY <1>1 DEF ControlInv, ControlOK
<1>3. \A u \in Threads : u # t =>
        /\ Deciding(u, p)' <=> Deciding(u, p)
        /\ LookingAt(u, p)' <=> LookingAt(u, p)
        /\ mine'[u] = mine[u]
  BY <1>1 DEF Deciding, LookingAt, ControlInv, ControlOK
<1>4. Takers(p)' = Takers(p)
  BY <1>1 DEF Takers, ControlInv, ControlOK
<1>5. \A n \in won \cup lost : n < optimistic[p]
  BY DEF Ledger
<1>6. Before(lost, optimistic[p]) = lost
  BY <1>2, <1>5 DEF Before
<1>7. over[t] <= Cardinality(lost)
  BY <1>1 DEF Ledger, LookingAt
<1>8. \A u \in Threads : LookingAt(u, p)' => over'[u] <= overcommit'[p]
  <2>1. ~LookingAt(t, p)'
    BY <1>1 DEF LookingAt, ControlInv, ControlOK
  <2>2. \A u \in Threads : LookingAt(u, p) => over[u] <= overcommit[p]
    BY DEF Ledger
  <2>3. QED
    BY <1>1, <1>3, <2>1, <2>2
<1>9. ASSUME NEW u \in Threads, Deciding(u, p)'
      PROVE  /\ mine'[u] \notin won \cup lost
             /\ mine'[u] < optimistic'[p]
             /\ over'[u] <= Cardinality(Before(lost, mine'[u]))
  <2>1. CASE u = t
    <3>1. optimistic[p] \notin won \cup lost
      BY <1>2, <1>5
    <3>2. QED
      BY <1>1, <1>2, <1>6, <1>7, <2>1, <3>1
  <2>2. CASE u # t
    <3>1. Deciding(u, p) /\ mine'[u] = mine[u] /\ mine[u] \in Nat
      BY <1>3, <1>9, <2>2 DEF ControlInv, ControlOK
    <3>2. /\ mine[u] \notin won \cup lost
          /\ mine[u] < optimistic[p]
          /\ over[u] <= Cardinality(Before(lost, mine[u]))
      BY <3>1 DEF Ledger
    <3>3. QED
      BY <1>1, <1>2, <3>1, <3>2
  <2>3. QED
    BY <2>1, <2>2
<1>10. ASSUME NEW u \in Threads, NEW v \in Threads,
              Deciding(u, p)', Deciding(v, p)', mine'[u] = mine'[v]
       PROVE  u = v
  <2>1. \A w \in Threads : w # t /\ Deciding(w, p)' => mine'[w] # optimistic[p]
    <3> SUFFICES ASSUME NEW w \in Threads, w # t, Deciding(w, p)'
                 PROVE  mine'[w] # optimistic[p]
      OBVIOUS
    <3>1. Deciding(w, p) /\ mine'[w] = mine[w] /\ mine[w] \in Nat
      BY <1>3 DEF ControlInv, ControlOK
    <3>2. mine[w] < optimistic[p]
      BY <3>1 DEF Ledger
    <3>3. QED
      BY <1>2, <3>1, <3>2
  <2>2. CASE u = t \/ v = t
    BY <1>2, <1>10, <2>1, <2>2
  <2>3. CASE u # t /\ v # t
    <3>1. Deciding(u, p) /\ Deciding(v, p) /\ mine[u] = mine[v]
      BY <1>3, <1>10, <2>3
    <3>2. QED
      BY <3>1 DEF Ledger
  <2>4. QED
    BY <2>2, <2>3
<1>11. \A n \in won \cup lost : n < optimistic'[p]
  BY <1>2, <1>5
<1>12. /\ IsFiniteSet(won) /\ IsFiniteSet(lost) /\ won \cap lost = {}
       /\ Cardinality(won) = head'[p] + Cardinality(Takers(p)')
       /\ Cardinality(lost) = overcommit'[p]
       /\ (\A n \in won : n <= last) /\ last >= -1
       /\ last - Cardinality(Before(lost, last)) < tail'[p]
  BY <1>1, <1>4 DEF Ledger
<1>13. QED
  BY <1>8, <1>9, <1>10, <1>11, <1>12 DEF Ledger

LEMMA MoreBefore ==
  ASSUME NEW lost \in SUBSET Nat, IsFiniteSet(lost), NEW m \in Nat, NEW n \in Int
  PROVE  /\ Cardinality(Before(lost, n)) \in Nat
         /\ Cardinality(Before(lost \cup {m}, n)) \in Nat
         /\ Cardinality(Before(lost, n)) <= Cardinality(Before(lost \cup {m}, n))
<1>1. IsFiniteSet(lost \cup {m})
  BY FS_AddElement
<1>2. Before(lost \cup {m}, n) \subseteq lost \cup {m}
  BY DEF Before
<1>3. IsFiniteSet(Before(lost \cup {m}, n))
  BY <1>1, <1>2, FS_Subset
<1>4. Before(lost, n) \subseteq Before(lost \cup {m}, n)
  BY DEF Before
<1>5. /\ IsFiniteSet(Before(lost, n))
      /\ Cardinality(Before(lost, n)) <= Cardinality(Before(lost \cup {m}, n))
  BY <1>3, <1>4, FS_Subset
<1>6. QED
  BY <1>3, <1>5, FS_CardinalityType

\* A claim that passes the check has won.
LEMMA LedgerWin ==
  ASSUME NEW p \in Producers, NEW won \in SUBSET Nat, NEW lost \in SUBSET Nat,
         NEW last \in Int, Ledger(p, won, lost, last), ControlInv, ControlInv',
         NEW t \in Threads, Check(t), at[t] = p, mine[t] - over[t] < tail[p],
         NEW m \in Nat, m = mine[t],
         NEW w \in SUBSET Nat, w = won \cup {m},
         NEW top \in Int, top = IF m > last THEN m ELSE last
  PROVE  Ledger(p, w, lost, top)'
<1>1. /\ pc[t] = "check" /\ pc' = [pc EXCEPT ![t] = "take"]
      /\ UNCHANGED <<tail, head, optimistic, overcommit, at, over, mine>>
  BY DEF Check, Goto, lookVars, claimVars, countVars
<1>2. m \in Nat /\ over[t] \in Nat /\ tail[p] \in Nat /\ head[p] \in Nat
  BY DEF ControlInv, ControlOK
<1>3. Deciding(t, p)
  BY <1>1 DEF Deciding
<1>4. m \notin won \cup lost /\ m < optimistic[p]
      /\ over[t] <= Cardinality(Before(lost, m))
  BY <1>3 DEF Ledger
<1>5. \A u \in Threads :
        /\ Deciding(u, p)' <=> Deciding(u, p) /\ u # t
        /\ LookingAt(u, p)' <=> LookingAt(u, p)
  BY <1>1 DEF Deciding, LookingAt, ControlInv, ControlOK
<1>6. Takers(p)' = Takers(p) \cup {t} /\ t \notin Takers(p)
  <2>1. \A u \in Threads : at'[u] = p /\ pc'[u] = "take"
                             <=> (at[u] = p /\ pc[u] = "take") \/ u = t
    BY <1>1 DEF ControlInv, ControlOK
  <2>2. QED
    BY <1>1, <2>1 DEF Takers
<1>7. Cardinality(Takers(p)') = Cardinality(Takers(p)) + 1
  BY <1>6, TakersFinite, FS_AddElement
<1>8. /\ IsFiniteSet(won) /\ Cardinality(won) \in Nat
      /\ IsFiniteSet(w) /\ Cardinality(w) = Cardinality(won) + 1
  BY <1>4, FS_AddElement, FS_CardinalityType DEF Ledger
<1>9. Cardinality(w) = head'[p] + Cardinality(Takers(p)')
  <2>1. Cardinality(won) = head[p] + Cardinality(Takers(p))
    BY DEF Ledger
  <2>2. Cardinality(Takers(p)) \in Nat
    BY TakersFinite
  <2>3. QED
    BY <1>1, <1>2, <1>7, <1>8, <2>1, <2>2
<1>10. w \cap lost = {} /\ \A n \in w \cup lost : n < optimistic'[p]
  BY <1>1, <1>4 DEF Ledger
<1>11. top \in Int /\ top >= -1 /\ \A n \in w : n <= top
  <2>1. last >= -1 /\ \A n \in won : n \in Nat /\ n <= last
    BY DEF Ledger
  <2>2. QED
    BY <1>2, <2>1
<1>12. top - Cardinality(Before(lost, top)) < tail'[p]
  <2>1. CASE m > last
    <3>1. Cardinality(Before(lost, m)) \in Nat
      <4>1. IsFiniteSet(lost) /\ m \in Int
        BY <1>2 DEF Ledger
      <4>2. QED
        BY <1>2, <4>1, MoreBefore
    <3>2. top = m
      BY <2>1
    <3>3. m - Cardinality(Before(lost, m)) < tail[p]
      BY <1>2, <1>4, <3>1
    <3>4. QED
      BY <1>1, <3>2, <3>3
  <2>2. CASE ~(m > last)
    BY <1>1, <2>2 DEF Ledger
  <2>3. QED
    BY <2>1, <2>2
<1>13. /\ IsFiniteSet(lost) /\ Cardinality(lost) = overcommit'[p]
       /\ \A u \in Threads : LookingAt(u, p)' => over'[u] <= overcommit'[p]
  BY <1>1, <1>5 DEF Ledger
<1>14. ASSUME NEW u \in Threads, Deciding(u, p)'
       PROVE  /\ mine'[u] \notin w \cup lost
              /\ mine'[u] < optimistic'[p]
              /\ over'[u] <= Cardinality(Before(lost, mine'[u]))
  <2>1. Deciding(u, p) /\ u # t
    BY <1>5, <1>14
  <2>2. mine[u] # m
    BY <1>3, <2>1 DEF Ledger
  <2>3. QED
    BY <1>1, <2>1, <2>2 DEF Ledger
<1>15. \A u, v \in Threads :
         Deciding(u, p)' /\ Deciding(v, p)' /\ mine'[u] = mine'[v] => u = v
  BY <1>1, <1>5 DEF Ledger
<1>16. QED
  BY <1>8, <1>9, <1>10, <1>11, <1>12, <1>13, <1>14, <1>15 DEF Ledger

\* The others give their claims back.
LEMMA LedgerGiveUp ==
  ASSUME NEW p \in Producers, NEW won \in SUBSET Nat, NEW lost \in SUBSET Nat,
         NEW last \in Int, Ledger(p, won, lost, last), ControlInv, ControlInv',
         NEW t \in Threads, GiveUp(t), at[t] = p,
         NEW m \in Nat, m = mine[t],
         NEW l \in SUBSET Nat, l = lost \cup {m}
  PROVE  Ledger(p, won, l, last)'
<1>1. /\ pc[t] = "giveUp" /\ pc' = [pc EXCEPT ![t] = "next"]
      /\ overcommit' = [overcommit EXCEPT ![p] = overcommit[p] + 1]
      /\ UNCHANGED <<tail, head, optimistic, at, over, mine>>
  BY DEF GiveUp, Goto, lookVars, claimVars
<1>2. /\ m \in Nat /\ tail[p] \in Nat /\ overcommit[p] \in Nat
      /\ overcommit'[p] = overcommit[p] + 1
      /\ \A u \in Threads : over[u] \in Nat /\ mine[u] \in Nat
  BY <1>1 DEF ControlInv, ControlOK
<1>3. Deciding(t, p)
  BY <1>1 DEF Deciding
<1>4. m \notin won \cup lost /\ m < optimistic[p]
  BY <1>3 DEF Ledger
<1>5. \A u \in Threads :
        /\ Deciding(u, p)' <=> Deciding(u, p) /\ u # t
        /\ LookingAt(u, p)' <=> LookingAt(u, p)
  BY <1>1 DEF Deciding, LookingAt, ControlInv, ControlOK
<1>6. Takers(p)' = Takers(p)
  BY <1>1 DEF Takers, ControlInv, ControlOK
<1>7. /\ IsFiniteSet(lost)
      /\ IsFiniteSet(l) /\ Cardinality(l) = Cardinality(lost) + 1
  BY <1>4, FS_AddElement DEF Ledger
<1>8. Cardinality(l) = overcommit'[p]
  BY <1>2, <1>7 DEF Ledger
<1>9. won \cap l = {} /\ \A n \in won \cup l : n < optimistic'[p]
  BY <1>1, <1>4 DEF Ledger
<1>10. last - Cardinality(Before(l, last)) < tail'[p]
  <2>1. last - Cardinality(Before(lost, last)) < tail[p]
    BY DEF Ledger
  <2>2. /\ Cardinality(Before(lost, last)) \in Nat
        /\ Cardinality(Before(l, last)) \in Nat
        /\ Cardinality(Before(lost, last)) <= Cardinality(Before(l, last))
    BY <1>2, <1>7, MoreBefore
  <2>3. QED
    BY <1>1, <1>2, <2>1, <2>2
<1>11. \A u \in Threads : LookingAt(u, p)' => over'[u] <= overcommit'[p]
  <2>1. \A u \in Threads : LookingAt(u, p) => over[u] <= overcommit[p]
    BY DEF Ledger
  <2>2. QED
    BY <1>1, <1>2, <1>5, <2>1
<1>12. ASSUME NEW u \in Threads, Deciding(u, p)'
       PROVE  /\ mine'[u] \notin won \cup l
              /\ mine'[u] < optimistic'[p]
              /\ over'[u] <= Cardinality(Before(l, mine'[u]))
  <2>1. Deciding(u, p) /\ u # t
    BY <1>5, <1>12
  <2>2. mine[u] # m
    BY <1>3, <2>1 DEF Ledger
  <2>3. /\ mine[u] \notin won \cup lost
        /\ mine[u] < optimistic[p]
        /\ over[u] <= Cardinality(Before(lost, mine[u]))
    BY <2>1 DEF Ledger
  <2>4. /\ Cardinality(Before(lost, mine[u])) \in Nat
        /\ Cardinality(Before(l, mine[u])) \in Nat
        /\ Cardinality(Before(lost, mine[u])) <= Cardinality(Before(l, mine[u]))
    BY <1>2, <1>7, MoreBefore
  <2>5. over[u] <= Cardinality(Before(l, mine[u]))
    BY <1>2, <2>3, <2>4
  <2>6. QED
    BY <1>1, <2>2, <2>3, <2>5
<1>13. \A u, v \in Threads :
         Deciding(u, p)' /\ Deciding(v, p)' /\ mine'[u] = mine'[v] => u = v
  BY <1>1, <1>5 DEF Ledger
<1>14. /\ IsFiniteSet(won) /\ Cardinality(won) = head'[p] + Cardinality(Takers(p)')
       /\ (\A n \in won : n <= last) /\ last >= -1
  BY <1>1, <1>6 DEF Ledger
<1>15. QED
  BY <1>7, <1>8, <1>9, <1>10, <1>11, <1>12, <1>13, <1>14 DEF Ledger

\* A winner takes its index: the counters change, not the ledger.
LEMMA LedgerTake ==
  ASSUME NEW p \in Producers, NEW won \in SUBSET Nat, NEW lost \in SUBSET Nat,
         NEW last \in Int, Ledger(p, won, lost, last), ControlInv, ControlInv',
         NEW t \in Threads, TakeIndex(t), at[t] = p
  PROVE  Ledger(p, won, lost, last)'
<1>1. /\ pc[t] = "take" /\ pc' = [pc EXCEPT ![t] = "move"]
      /\ head' = [head EXCEPT ![p] = head[p] + 1]
      /\ UNCHANGED <<tail, overcommit, optimistic, at, over, mine>>
  BY DEF TakeIndex, Goto, lookVars
<1>2. head'[p] = head[p] + 1 /\ head[p] \in Nat
  BY <1>1 DEF ControlInv, ControlOK
<1>3. \A u \in Threads :
        /\ Deciding(u, p)' <=> Deciding(u, p)
        /\ LookingAt(u, p)' <=> LookingAt(u, p)
  BY <1>1 DEF Deciding, LookingAt, ControlInv, ControlOK
<1>4. Takers(p)' = Takers(p) \ {t} /\ t \in Takers(p)
  BY <1>1 DEF Takers, ControlInv, ControlOK
<1>5. /\ Cardinality(Takers(p)') = Cardinality(Takers(p)) - 1
      /\ Cardinality(Takers(p)) \in Nat /\ Cardinality(Takers(p)') \in Nat
  <2>1. Cardinality(Takers(p)') = Cardinality(Takers(p)) - 1
    BY <1>4, TakersFinite, FS_RemoveElement
  <2>2. IsFiniteSet(Takers(p)')
    BY <1>4, TakersFinite, FS_Subset
  <2>3. QED
    BY <2>1, <2>2, TakersFinite, FS_CardinalityType
<1>6. Cardinality(won) = head'[p] + Cardinality(Takers(p)')
  <2>1. Cardinality(won) = head[p] + Cardinality(Takers(p))
    BY DEF Ledger
  <2>2. QED
    BY <1>2, <1>5, <2>1
<1>7. QED
  BY <1>1, <1>3, <1>6 DEF Ledger

\* All other steps, and those that decide claims of other producers.
LEMMA OtherSteps ==
  ASSUME ControlInv, ControlInv', NEW p \in Producers, [Next]_vars
  PROVE  \/ SameClaims(p)
         \/ \E t \in Threads :
              /\ at[t] = p
              /\ \/ Claim(t) \/ GiveUp(t) \/ TakeIndex(t)
                 \/ Check(t) /\ mine[t] - over[t] < tail[p]
<1> USE DEF ControlInv, Goto, countVars, elementVars, semaVars, lookVars, claimVars
<1>0. CASE UNCHANGED vars
  BY <1>0 DEF vars, SameClaims, Takers, LookingAt, Deciding, ControlOK
\* Only a thread that is not at a claim changes what it knows.
<1>1. ASSUME NEW t \in Threads, NEW to,
             ~(pc[t] \in {"filter", "claim", "check", "giveUp", "take"}),
             ~(to \in {"filter", "claim", "check", "giveUp", "take"}),
             Moves(t, to),
             \A u \in Threads : u # t => at'[u] = at[u] /\ mine'[u] = mine[u]
                                         /\ over'[u] = over[u],
             UNCHANGED <<head, optimistic, overcommit>>, tail'[p] >= tail[p]
      PROVE  SameClaims(p)
  <2>1. \A u \in Threads : pc'[u] \in {"filter", "claim", "check", "giveUp", "take"}
          => u # t
    BY <1>1 DEF Moves, ControlOK
  <2>2. \A u \in Threads : u # t => pc'[u] = pc[u]
    BY <1>1 DEF Moves, ControlOK
  <2>3. Takers(p)' = Takers(p)
    BY <1>1, <2>1, <2>2 DEF Takers
  <2>4. QED
    BY <1>1, <2>1, <2>2, <2>3 DEF SameClaims, LookingAt, Deciding
<1>2. ASSUME NEW t \in Threads, EnqueueStep(t) PROVE SameClaims(p)
  <2>1. tail'[p] >= tail[p]
    <3>1. tail[p] \in Nat /\ (t \in Producers => tail[t] \in Nat)
      BY DEF ControlOK
    <3>2. CASE UNCHANGED tail
      BY <3>1, <3>2
    <3>3. CASE tail' = [tail EXCEPT ![t] = tail[t] + 1] /\ t \in Producers
      <4>1. tail'[p] = tail[p] + 1 \/ tail'[p] = tail[p]
        BY <3>3 DEF ControlOK
      <4>2. QED
        BY <3>1, <4>1
    <3>4. Publish(t) => tail' = [tail EXCEPT ![t] = tail[t] + 1] /\ t \in Producers
      BY DEF Publish, Goto, PlaceOK, EnqueueStates
    <3>5. QED
      BY <1>2, <3>2, <3>3, <3>4 DEF EnqueueStep, GetProducer, StartBlock, WriteElement,
                              Signal, Post
  <2>2. UNCHANGED <<at, mine, over, head, optimistic, overcommit>>
    BY <1>2 DEF EnqueueStep, GetProducer, StartBlock, WriteElement, Publish, Signal,
                Post
  <2>3. PICK to \in {"enqueue", "write", "publish", "signal", "post", "idle"} :
          /\ pc[t] \in {"enqueue", "write", "publish", "signal", "post", "idle"}
          /\ Moves(t, to)
    BY <1>2 DEF EnqueueStep, GetProducer, StartBlock, WriteElement, Publish, Signal,
                Post, Moves
  <2>4. QED
    BY <1>1, <2>1, <2>2, <2>3
<1>3. ASSUME NEW t \in Threads, WaitSemaphore(t) \/ WakeUp(t) \/ PickBest(t)
      PROVE  SameClaims(p)
  <2>1. UNCHANGED <<mine, over, head, optimistic, overcommit, tail>>
        /\ \A u \in Threads : u # t => at'[u] = at[u]
    BY <1>3 DEF WaitSemaphore, WakeUp, PickBest, ControlOK
  <2>2. PICK to \in {"look", "sleep", "readOvercommit"} :
          pc[t] \in {"idle", "sleep", "look"} /\ Moves(t, to)
    BY <1>3 DEF WaitSemaphore, WakeUp, PickBest, Moves
  <2>3. tail'[p] >= tail[p]
    BY <2>1 DEF ControlOK
  <2>4. QED
    BY <1>1, <2>1, <2>2, <2>3
<1>4. ASSUME NEW t \in Threads, NextProducer(t) PROVE SameClaims(p)
  <2>1. UNCHANGED <<mine, over, head, optimistic, overcommit, tail>>
        /\ \A u \in Threads : u # t => at'[u] = at[u]
    BY <1>4 DEF NextProducer, ControlOK
  <2>2. PICK to \in {"look", "readOvercommit"} : pc[t] = "next" /\ Moves(t, to)
    BY <1>4 DEF NextProducer, Moves
  <2>3. tail'[p] >= tail[p]
    BY <2>1 DEF ControlOK
  <2>4. QED
    BY <1>1, <2>1, <2>2, <2>3
<1>5. ASSUME NEW t \in Threads, MoveElement(t) \/ SetEmpty(t) \/ RetireBlock(t)
      PROVE  SameClaims(p)
  <2>1. UNCHANGED <<head, optimistic, overcommit, tail>>
        /\ \A u \in Threads : u # t => at'[u] = at[u] /\ mine'[u] = mine[u]
                                        /\ over'[u] = over[u]
    <3>1. CASE UNCHANGED <<lookVars, claimVars>>
      BY <1>5, <3>1 DEF MoveElement, SetEmpty, RetireBlock
    <3>2. CASE ReturnItem(t)
      <4>1. \A u \in Threads : u # t => at'[u] = at[u] /\ mine'[u] = mine[u]
                                          /\ over'[u] = over[u]
        BY <3>2 DEF ReturnItem, ControlOK
      <4>2. QED
        BY <1>5, <4>1 DEF MoveElement, SetEmpty, RetireBlock
    <3>3. QED
      BY <1>5, <3>1, <3>2 DEF MoveElement, SetEmpty, RetireBlock
  <2>2. PICK to \in {"setEmpty", "retire", "idle"} :
          pc[t] \in {"move", "setEmpty", "retire"} /\ Moves(t, to)
    BY <1>5 DEF MoveElement, SetEmpty, RetireBlock, Moves
  <2>3. tail'[p] >= tail[p]
    BY <2>1 DEF ControlOK
  <2>4. QED
    BY <1>1, <2>1, <2>2, <2>3
<1>6. ASSUME NEW t \in Threads, ReadOvercommit(t) PROVE SameClaims(p)
  <2>1. /\ pc[t] = "readOvercommit" /\ pc' = [pc EXCEPT ![t] = "filter"]
        /\ over' = [over EXCEPT ![t] = overcommit[at[t]]]
        /\ UNCHANGED <<head, optimistic, overcommit, tail, at, mine>>
    BY <1>6 DEF ReadOvercommit
  <2>2. Takers(p)' = Takers(p)
    BY <2>1 DEF Takers, ControlOK
  <2>3. tail'[p] >= tail[p]
    BY <2>1 DEF ControlOK
  <2>4. \A u \in Threads : LookingAt(u, p)' =>
          (LookingAt(u, p) /\ over'[u] = over[u]) \/ over'[u] = overcommit[p]
    BY <2>1 DEF LookingAt, ControlOK
  <2>5. \A u \in Threads : Deciding(u, p)' =>
          Deciding(u, p) /\ mine'[u] = mine[u] /\ over'[u] = over[u]
    BY <2>1 DEF Deciding, ControlOK
  <2>6. QED
    BY <2>1, <2>2, <2>3, <2>4, <2>5 DEF SameClaims
<1>7. ASSUME NEW t \in Threads, Filter(t) PROVE SameClaims(p)
  <2>1. PICK to \in {"claim", "next"} :
          /\ pc[t] = "filter" /\ pc' = [pc EXCEPT ![t] = to]
          /\ UNCHANGED <<head, optimistic, overcommit, tail, at, mine, over>>
    BY <1>7 DEF Filter
  <2>2. Takers(p)' = Takers(p)
    BY <2>1 DEF Takers, ControlOK
  <2>3. tail'[p] >= tail[p]
    BY <2>1 DEF ControlOK
  <2>4. \A u \in Threads : LookingAt(u, p)' =>
          (LookingAt(u, p) /\ over'[u] = over[u]) \/ over'[u] = overcommit[p]
    BY <2>1 DEF LookingAt, ControlOK
  <2>5. \A u \in Threads : Deciding(u, p)' =>
          Deciding(u, p) /\ mine'[u] = mine[u] /\ over'[u] = over[u]
    BY <2>1 DEF Deciding, ControlOK
  <2>6. QED
    BY <2>1, <2>2, <2>3, <2>4, <2>5 DEF SameClaims
<1>8. ASSUME NEW t \in Threads, Check(t), ~(at[t] = p /\ mine[t] - over[t] < tail[p])
      PROVE  SameClaims(p)
  <2>1. PICK to \in {"take", "giveUp"} :
          /\ pc[t] = "check" /\ pc' = [pc EXCEPT ![t] = to]
          /\ at[t] = p => to = "giveUp"
          /\ UNCHANGED <<head, optimistic, overcommit, tail, at, mine, over>>
    BY <1>8 DEF Check
  <2>2. Takers(p)' = Takers(p)
    BY <2>1 DEF Takers, ControlOK
  <2>3. tail'[p] >= tail[p]
    BY <2>1 DEF ControlOK
  <2>4. \A u \in Threads : LookingAt(u, p)' =>
          (LookingAt(u, p) /\ over'[u] = over[u]) \/ over'[u] = overcommit[p]
    BY <2>1 DEF LookingAt, ControlOK
  <2>5. \A u \in Threads : Deciding(u, p)' =>
          Deciding(u, p) /\ mine'[u] = mine[u] /\ over'[u] = over[u]
    BY <2>1 DEF Deciding, ControlOK
  <2>6. QED
    BY <2>1, <2>2, <2>3, <2>4, <2>5 DEF SameClaims
<1>9. ASSUME NEW t \in Threads, Claim(t) \/ GiveUp(t) \/ TakeIndex(t), at[t] # p
      PROVE  SameClaims(p)
  <2>1. PICK to \in {"check", "next", "move"} :
          /\ pc' = [pc EXCEPT ![t] = to]
          /\ UNCHANGED <<tail, at, over>>
          /\ \A u \in Threads : u # t => mine'[u] = mine[u]
    BY <1>9 DEF Claim, GiveUp, TakeIndex, ControlOK
  <2>2. head'[p] = head[p] /\ optimistic'[p] = optimistic[p]
        /\ overcommit'[p] = overcommit[p]
    BY <1>9 DEF Claim, GiveUp, TakeIndex, ControlOK
  <2>3. Takers(p)' = Takers(p)
    BY <1>9, <2>1 DEF Takers, ControlOK
  <2>4. tail'[p] >= tail[p]
    BY <2>1 DEF ControlOK
  <2>5. \A u \in Threads : LookingAt(u, p)' => LookingAt(u, p) /\ over'[u] = over[u]
    BY <1>9, <2>1 DEF LookingAt, ControlOK
  <2>6. \A u \in Threads : Deciding(u, p)' =>
          Deciding(u, p) /\ mine'[u] = mine[u] /\ over'[u] = over[u]
    BY <1>9, <2>1 DEF Deciding, ControlOK
  <2>7. QED
    BY <2>2, <2>3, <2>4, <2>5, <2>6 DEF SameClaims
<1>10. QED
  BY <1>0, <1>2, <1>3, <1>4, <1>5, <1>6, <1>7, <1>8, <1>9
     DEF Next, DequeueStep, Quiet

LEMMA ClaimStep ==
  ASSUME ControlInv, ControlInv', ClaimInv, [Next]_vars
  PROVE  ClaimInv'
<1> SUFFICES ASSUME NEW p \in Producers
             PROVE  \E won, lost \in SUBSET Nat : \E last \in Int :
                      Ledger(p, won, lost, last)'
  BY DEF ClaimInv
<1>1. PICK won \in SUBSET Nat, lost \in SUBSET Nat, last \in Int :
        Ledger(p, won, lost, last)
  BY DEF ClaimInv
<1>2. CASE SameClaims(p)
  BY <1>1, <1>2, LedgerKept DEF ControlInv
<1>3. ASSUME NEW t \in Threads, at[t] = p, Claim(t)
      PROVE  Ledger(p, won, lost, last)'
  BY <1>1, <1>3, LedgerClaim
<1>4. ASSUME NEW t \in Threads, at[t] = p, TakeIndex(t)
      PROVE  Ledger(p, won, lost, last)'
  BY <1>1, <1>4, LedgerTake
<1>5. ASSUME NEW t \in Threads, at[t] = p, GiveUp(t)
      PROVE  \E l \in SUBSET Nat : Ledger(p, won, l, last)'
  <2>1. PICK m \in Nat : m = mine[t]
    BY DEF ControlInv, ControlOK
  <2>2. PICK l \in SUBSET Nat : l = lost \cup {m}
    OBVIOUS
  <2>3. Ledger(p, won, l, last)'
    BY <1>1, <1>5, <2>1, <2>2, LedgerGiveUp
  <2>4. QED
    BY <2>3
<1>6. ASSUME NEW t \in Threads, at[t] = p, Check(t), mine[t] - over[t] < tail[p]
      PROVE  \E w \in SUBSET Nat : \E top \in Int : Ledger(p, w, lost, top)'
  <2>1. PICK m \in Nat : m = mine[t]
    BY DEF ControlInv, ControlOK
  <2>2. PICK w \in SUBSET Nat : w = won \cup {m}
    OBVIOUS
  <2>3. PICK top \in Int : top = IF m > last THEN m ELSE last
    OBVIOUS
  <2>4. Ledger(p, w, lost, top)'
    BY <1>1, <1>6, <2>1, <2>2, <2>3, LedgerWin
  <2>5. QED
    BY <2>4
<1>7. QED
  BY <1>2, <1>3, <1>4, <1>5, <1>6, OtherSteps

\* Whatever the claims, the overcommits and the moments they are read, there
\* is a published element for every consumer that is to take an index.
THEOREM ClaimsStayBehindTail == Spec => []NeverPastTail
<1>1. Init => ControlInv /\ ClaimInv
  BY ControlInit, ClaimInit
<1>2. ControlInv /\ ClaimInv /\ [Next]_vars => (ControlInv /\ ClaimInv)'
  BY ControlStep, ClaimStep
<1>3. ControlInv /\ ClaimInv => NeverPastTail
  BY ClaimsImplyTail
<1>4. QED
  BY <1>1, <1>2, <1>3, PTL DEF Spec

-----------------------------------------------------------------------------
(* Every element in the queue has its count.                               *)

InStates(S) == {t \in Threads : pc[t] \in S}

LEMMA Shift ==
  ASSUME ControlInv, NEW t \in Threads, NEW to, NEW S, Moves(t, to)
  PROVE  /\ Cardinality(InStates(S)) \in Nat /\ Cardinality(InStates(S)') \in Nat
         /\ Cardinality(InStates(S)') =
              Cardinality(InStates(S)) + (IF to \in S THEN 1 ELSE 0)
                                       - (IF pc[t] \in S THEN 1 ELSE 0)
<1>1. pc'[t] = to /\ \A u \in Threads : u # t => pc'[u] = pc[u]
  BY DEF Moves, ControlInv, ControlOK
<1> DEFINE others == {u \in Threads : u # t /\ pc[u] \in S}
<1>2. IsFiniteSet(others) /\ Cardinality(others) \in Nat /\ t \notin others
  BY FiniteThreads, FS_Subset, FS_CardinalityType
<1>3. InStates(S) = IF pc[t] \in S THEN others \cup {t} ELSE others
  BY <1>1 DEF InStates
<1>4. InStates(S)' = IF to \in S THEN others \cup {t} ELSE others
  BY <1>1 DEF InStates
<1> HIDE DEF others
<1>5. Cardinality(others \cup {t}) = Cardinality(others) + 1
  BY <1>2, FS_AddElement
<1>6. QED
  BY <1>2, <1>3, <1>4, <1>5

LEMMA Shifts ==
  ASSUME ControlInv, NEW t \in Threads, NEW to, Moves(t, to)
  PROVE  /\ Cardinality(Unsignalled) \in Nat
         /\ Cardinality(Posting) \in Nat
         /\ Cardinality(Searching) \in Nat
         /\ Cardinality(Unsignalled)' =
              Cardinality(Unsignalled) + (IF to = "signal" THEN 1 ELSE 0)
                                       - (IF pc[t] = "signal" THEN 1 ELSE 0)
         /\ Cardinality(Posting)' =
              Cardinality(Posting) + (IF to = "post" THEN 1 ELSE 0)
                                   - (IF pc[t] = "post" THEN 1 ELSE 0)
         /\ Cardinality(Searching)' =
              Cardinality(Searching) + (IF to \in SearchStates THEN 1 ELSE 0)
                                     - (IF pc[t] \in SearchStates THEN 1 ELSE 0)
<1>1. Searching = InStates(SearchStates) /\ Searching' = InStates(SearchStates)'
  BY DEF Searching, InStates
<1>2. Posting = InStates({"post"}) /\ Posting' = InStates({"post"})'
  BY DEF Posting, InStates
<1>3. Unsignalled = InStates({"signal"}) /\ Unsignalled' = InStates({"signal"})'
  BY DEF Unsignalled, InStates
<1>4. \A u, s : u \in {s} <=> u = s
  OBVIOUS
<1>5. /\ Cardinality(Searching) \in Nat
      /\ Cardinality(Searching)' = Cardinality(Searching) + (IF to \in SearchStates THEN 1 ELSE 0)
            - (IF pc[t] \in SearchStates THEN 1 ELSE 0)
  <2>1. /\ Cardinality(InStates(SearchStates)) \in Nat
        /\ Cardinality(InStates(SearchStates)') =
             Cardinality(InStates(SearchStates)) + (IF to \in SearchStates THEN 1 ELSE 0)
                - (IF pc[t] \in SearchStates THEN 1 ELSE 0)
    BY Shift
  <2>2. QED
    BY <1>1, <1>4, <2>1
<1>6. /\ Cardinality(Posting) \in Nat
      /\ Cardinality(Posting)' = Cardinality(Posting) + (IF to = "post" THEN 1 ELSE 0)
            - (IF pc[t] = "post" THEN 1 ELSE 0)
  <2>1. /\ Cardinality(InStates({"post"})) \in Nat
        /\ Cardinality(InStates({"post"})') =
             Cardinality(InStates({"post"})) + (IF to \in {"post"} THEN 1 ELSE 0)
                - (IF pc[t] \in {"post"} THEN 1 ELSE 0)
    BY Shift
  <2>2. QED
    BY <1>2, <1>4, <2>1
<1>7. /\ Cardinality(Unsignalled) \in Nat
      /\ Cardinality(Unsignalled)' = Cardinality(Unsignalled) + (IF to = "signal" THEN 1 ELSE 0)
            - (IF pc[t] = "signal" THEN 1 ELSE 0)
  <2>1. /\ Cardinality(InStates({"signal"})) \in Nat
        /\ Cardinality(InStates({"signal"})') =
             Cardinality(InStates({"signal"})) + (IF to \in {"signal"} THEN 1 ELSE 0)
                - (IF pc[t] \in {"signal"} THEN 1 ELSE 0)
    BY Shift
  <2>2. QED
    BY <1>3, <1>4, <2>1
<1>8. QED
  BY <1>5, <1>6, <1>7

CountInv == IsFiniteSet(InQueue) /\ CountsMatchElements

\* How many have passed the semaphore or may pass it now.
Counted ==
  Cardinality(Unsignalled) + Cardinality(Searching)
    + kernel + Cardinality(Posting) + (IF count > 0 THEN count ELSE 0)

LEMMA CountInit == Init => CountInv
<1> SUFFICES ASSUME Init PROVE CountInv
  OBVIOUS
<1>1. InQueue = {}
  BY DEF Init, InQueue, Items
<1>2. Searching = {} /\ Unsignalled = {} /\ Posting = {}
  BY DEF Init, Searching, SearchStates, Unsignalled, Posting
<1>3. QED
  BY <1>1, <1>2, FS_EmptySet DEF CountInv, CountsMatchElements, Init

\* What a step does to the elements and what it does to the counts.
LEMMA CountsKept ==
  ASSUME CountInv, ControlInv, NEW d \in Int,
         IsFiniteSet(InQueue'), Cardinality(InQueue') = Cardinality(InQueue) + d,
         Counted' = Counted + d
  PROVE  CountInv'
<1>1. Cardinality(InQueue) = Counted /\ IsFiniteSet(InQueue)
  BY DEF CountInv, CountsMatchElements, Counted
<1>2. Cardinality(InQueue') = Counted'
  BY <1>1
<1>3. QED
  BY <1>2 DEF CountInv, CountsMatchElements, Counted

LEMMA CountStep ==
  ASSUME ControlInv, NeverPastTail, CountInv, [Next]_vars
  PROVE  CountInv'
<1> USE DEF Goto, countVars, elementVars, semaVars, lookVars, claimVars
<1>q. /\ IsFiniteSet(InQueue) /\ Cardinality(InQueue) \in Nat
      /\ kernel \in Nat /\ count \in Int
  BY FS_CardinalityType DEF CountInv, ControlInv, ControlOK
<1>0. CASE UNCHANGED vars
  BY <1>0 DEF vars, CountInv, CountsMatchElements, InQueue, Searching, Posting,
              Unsignalled
<1>1. ASSUME NEW t \in Threads, NEW to, Moves(t, to), UNCHANGED <<head, tail>>,
             Counted' = Counted
      PROVE  CountInv'
  <2>1. InQueue' = InQueue
    BY <1>1 DEF InQueue
  <2>2. Cardinality(InQueue') = Cardinality(InQueue) + 0
    BY <1>q, <2>1
  <2>3. Counted \in Int
    BY <1>q DEF CountInv, CountsMatchElements, Counted
  <2>4. Counted' = Counted + 0
    BY <1>1, <2>3
  <2>5. QED
    BY <1>q, <2>1, <2>2, <2>4, CountsKept
<1>2. ASSUME NEW t \in Threads, NEW to, Moves(t, to), UNCHANGED <<head, tail, count, kernel>>,
             to # "signal", to # "post", pc[t] # "signal", pc[t] # "post",
             to \in SearchStates <=> pc[t] \in SearchStates
      PROVE  CountInv'
  <2>1. /\ Cardinality(Unsignalled)' = Cardinality(Unsignalled)
        /\ Cardinality(Posting)' = Cardinality(Posting)
    BY <1>2, Shifts
  <2>2. Cardinality(Searching)' = Cardinality(Searching)
    BY <1>2, Shifts
  <2>3. Counted' = Counted
    BY <1>2, <2>1, <2>2 DEF Counted
  <2>4. QED
    BY <1>1, <1>2, <2>3
<1>3. ASSUME NEW t \in Threads, GetProducer(t) \/ StartBlock(t) \/ WriteElement(t)
      PROVE  CountInv'
  <2>1. PICK to \in {"enqueue", "write", "publish"} :
          Moves(t, to) /\ pc[t] \in {"idle", "enqueue", "write"}
    BY <1>3 DEF GetProducer, StartBlock, WriteElement, Moves
  <2>2. UNCHANGED <<head, tail, count, kernel>>
    BY <1>3 DEF GetProducer, StartBlock, WriteElement
  <2>3. to \notin SearchStates /\ pc[t] \notin SearchStates
    BY <2>1 DEF SearchStates
  <2>4. QED
    BY <1>2, <2>1, <2>2, <2>3
<1>4. ASSUME NEW t \in Threads,
             PickBest(t) \/ ReadOvercommit(t) \/ Filter(t) \/ Claim(t) \/ Check(t)
               \/ GiveUp(t) \/ NextProducer(t)
      PROVE  CountInv'
  <2>1. PICK to \in SearchStates : Moves(t, to) /\ pc[t] \in SearchStates
    BY <1>4 DEF PickBest, ReadOvercommit, Filter, Claim, Check, GiveUp, NextProducer,
                Moves, SearchStates
  <2>2. UNCHANGED <<head, tail, count, kernel>>
    BY <1>4 DEF PickBest, ReadOvercommit, Filter, Claim, Check, GiveUp, NextProducer
  <2>3. /\ to # "signal" /\ to # "post" /\ pc[t] # "signal" /\ pc[t] # "post"
    BY <2>1 DEF SearchStates
  <2>4. QED
    BY <1>2, <2>1, <2>2, <2>3
<1>5. ASSUME NEW t \in Threads, MoveElement(t) \/ SetEmpty(t) \/ RetireBlock(t)
      PROVE  CountInv'
  <2>1. PICK to \in {"setEmpty", "retire", "idle"} :
          Moves(t, to) /\ pc[t] \in {"move", "setEmpty", "retire"}
    BY <1>5 DEF MoveElement, SetEmpty, RetireBlock, Moves
  <2>2. UNCHANGED <<head, tail, count, kernel>>
    BY <1>5 DEF MoveElement, SetEmpty, RetireBlock
  <2>3. to \notin SearchStates /\ pc[t] \notin SearchStates
    BY <2>1 DEF SearchStates
  <2>4. QED
    BY <1>2, <2>1, <2>2, <2>3
<1>6. ASSUME NEW t \in Threads, Signal(t) PROVE CountInv'
  <2> DEFINE to == IF count < 0 THEN "post" ELSE "idle"
  <2>1. pc[t] = "signal" /\ Moves(t, to) /\ count' = count + 1
        /\ UNCHANGED <<head, tail, kernel>>
    BY <1>6 DEF Signal, Moves
  <2>2. /\ "signal" \notin SearchStates /\ to \notin SearchStates /\ to # "signal"
        /\ to = "post" <=> count < 0
    BY DEF SearchStates
  <2> HIDE DEF to
  <2>3. /\ Cardinality(Unsignalled)' = Cardinality(Unsignalled) - 1
        /\ Cardinality(Unsignalled) \in Nat
    BY <2>1, <2>2, Shifts
  <2>4. /\ Cardinality(Posting)' =
             Cardinality(Posting) + (IF count < 0 THEN 1 ELSE 0)
        /\ Cardinality(Posting) \in Nat
    BY <2>1, <2>2, Shifts
  <2>5. /\ Cardinality(Searching)' = Cardinality(Searching)
        /\ Cardinality(Searching) \in Nat
    BY <2>1, <2>2, Shifts
  <2>6. Counted' = Counted
    BY <1>q, <2>1, <2>3, <2>4, <2>5 DEF Counted
  <2>7. QED
    BY <1>1, <2>1, <2>6
<1>7. ASSUME NEW t \in Threads, Post(t) PROVE CountInv'
  <2>1. pc[t] = "post" /\ Moves(t, "idle") /\ kernel' = kernel + 1
        /\ UNCHANGED <<head, tail, count>>
    BY <1>7 DEF Post, Moves
  <2>2. "idle" \notin SearchStates /\ "post" \notin SearchStates
    BY DEF SearchStates
  <2>3. Cardinality(Unsignalled)' = Cardinality(Unsignalled)
        /\ Cardinality(Unsignalled) \in Nat
    BY <2>1, Shifts
  <2>4. Cardinality(Posting)' = Cardinality(Posting) - 1
        /\ Cardinality(Posting) \in Nat
    BY <2>1, Shifts
  <2>5. Cardinality(Searching)' = Cardinality(Searching)
        /\ Cardinality(Searching) \in Nat
    BY <2>1, <2>2, Shifts
  <2>6. Counted' = Counted
    BY <1>q, <2>1, <2>3, <2>4, <2>5 DEF Counted
  <2>7. QED
    BY <1>1, <2>1, <2>6
<1>8. ASSUME NEW t \in Threads, WaitSemaphore(t) PROVE CountInv'
  <2> DEFINE to == IF count > 0 THEN "look" ELSE "sleep"
  <2>1. pc[t] = "idle" /\ Moves(t, to) /\ count' = count - 1
        /\ UNCHANGED <<head, tail, kernel>>
    BY <1>8 DEF WaitSemaphore, Moves
  <2>2. /\ "idle" \notin SearchStates /\ (to \in SearchStates <=> count > 0)
        /\ to # "signal" /\ to # "post"
    BY DEF SearchStates
  <2> HIDE DEF to
  <2>3. Cardinality(Unsignalled)' = Cardinality(Unsignalled)
        /\ Cardinality(Unsignalled) \in Nat
    BY <2>1, <2>2, Shifts
  <2>4. Cardinality(Posting)' = Cardinality(Posting)
        /\ Cardinality(Posting) \in Nat
    BY <2>1, <2>2, Shifts
  <2>5. /\ Cardinality(Searching)' =
             Cardinality(Searching) + (IF count > 0 THEN 1 ELSE 0)
        /\ Cardinality(Searching) \in Nat
    BY <2>1, <2>2, Shifts
  <2>6. Counted' = Counted
    BY <1>q, <2>1, <2>3, <2>4, <2>5 DEF Counted
  <2>7. QED
    BY <1>1, <2>1, <2>6
<1>9. ASSUME NEW t \in Threads, WakeUp(t) PROVE CountInv'
  <2>1. pc[t] = "sleep" /\ Moves(t, "look") /\ kernel' = kernel - 1
        /\ UNCHANGED <<head, tail, count>>
    BY <1>9 DEF WakeUp, Moves
  <2>2. "sleep" \notin SearchStates /\ "look" \in SearchStates
    BY DEF SearchStates
  <2>3. Cardinality(Unsignalled)' = Cardinality(Unsignalled)
        /\ Cardinality(Unsignalled) \in Nat
    BY <2>1, Shifts
  <2>4. Cardinality(Posting)' = Cardinality(Posting)
        /\ Cardinality(Posting) \in Nat
    BY <2>1, Shifts
  <2>5. Cardinality(Searching)' = Cardinality(Searching) + 1
        /\ Cardinality(Searching) \in Nat
    BY <2>1, <2>2, Shifts
  <2>6. Counted' = Counted
    BY <1>q, <2>1, <2>3, <2>4, <2>5 DEF Counted
  <2>7. QED
    BY <1>1, <2>1, <2>6
\* An element enters the queue with the count that is still to be signalled.
<1>10. ASSUME NEW t \in Threads, Publish(t) PROVE CountInv'
  <2>1. /\ pc[t] = "publish" /\ Moves(t, "signal") /\ tail' = [tail EXCEPT ![t] = tail[t] + 1]
        /\ UNCHANGED <<head, count, kernel>>
    BY <1>10 DEF Publish, Moves
  <2>2. /\ t \in Producers /\ tail[t] < Quota[t] /\ tail[t] \in Nat /\ Quota[t] \in Nat
        /\ head[t] \in Nat
    BY <2>1, QueueAssumption DEF ControlInv, ControlOK, PlaceOK, EnqueueStates
  <2>3. head[t] <= tail[t]
    BY <2>2, TakersFinite DEF NeverPastTail
  <2> DEFINE x == <<t, tail[t]>>
  <2>4. x \notin InQueue
    BY <2>2 DEF InQueue
  <2>5. InQueue' = InQueue \cup {x}
    <3>1. x \in Items
      BY <2>2 DEF Items
    <3>2. ASSUME NEW y \in Items
          PROVE  (head[y[1]] <= y[2] /\ y[2] < tail'[y[1]])
                   <=> (head[y[1]] <= y[2] /\ y[2] < tail[y[1]]) \/ y = x
      <4>1. PICK q \in Producers : \E n \in 0..(Quota[q] - 1) : y = <<q, n>>
        BY DEF Items
      <4>6. PICK n \in 0..(Quota[q] - 1) : y = <<q, n>>
        BY <4>1
      <4>2. n \in Nat /\ head[q] \in Nat /\ tail[q] \in Nat
        BY QueueAssumption DEF ControlInv, ControlOK
      <4>3. CASE q = t
        BY <2>1, <2>2, <2>3, <4>6, <4>2, <4>3 DEF ControlInv, ControlOK
      <4>4. CASE q # t
        BY <2>1, <4>6, <4>2, <4>4 DEF ControlInv, ControlOK
      <4>5. QED
        BY <4>3, <4>4
    <3>3. QED
      BY <2>1, <3>1, <3>2 DEF InQueue
  <2> HIDE DEF x
  <2>6. IsFiniteSet(InQueue') /\ Cardinality(InQueue') = Cardinality(InQueue) + 1
    BY <1>q, <2>4, <2>5, FS_AddElement
  <2>7. "publish" \notin SearchStates /\ "signal" \notin SearchStates
    BY DEF SearchStates
  <2>8. Cardinality(Unsignalled)' = Cardinality(Unsignalled) + 1
        /\ Cardinality(Unsignalled) \in Nat
    BY <2>1, Shifts
  <2>9. Cardinality(Posting)' = Cardinality(Posting)
        /\ Cardinality(Posting) \in Nat
    BY <2>1, Shifts
  <2>10. Cardinality(Searching)' = Cardinality(Searching)
         /\ Cardinality(Searching) \in Nat
    BY <2>1, <2>7, Shifts
  <2>11. Counted' = Counted + 1
    BY <1>q, <2>1, <2>8, <2>9, <2>10 DEF Counted
  <2>12. QED
    BY <2>6, <2>11, CountsKept
\* It leaves with the consumer that counted it.
<1>11. ASSUME NEW t \in Threads, TakeIndex(t) PROVE CountInv'
  <2> DEFINE p == at[t]
             x == <<p, head[p]>>
  <2>1. /\ pc[t] = "take" /\ Moves(t, "move") /\ head' = [head EXCEPT ![p] = head[p] + 1]
        /\ UNCHANGED <<tail, count, kernel>>
    BY <1>11 DEF TakeIndex, Moves
  <2>2. /\ p \in Producers /\ tail[p] \in Nat /\ head[p] \in Nat /\ Quota[p] \in Nat
        /\ tail[p] <= Quota[p]
    BY <2>1, QueueAssumption DEF ControlInv, ControlOK, PlaceOK, AtStates
  <2>3. head[p] < tail[p]
    <3>1. t \in Takers(p)
      BY <2>1 DEF Takers
    <3>2. Cardinality(Takers(p)) # 0
      BY <2>2, <3>1, TakersFinite, FS_EmptySet
    <3>3. QED
      BY <2>2, <3>2, TakersFinite DEF NeverPastTail
  <2>4. x \in InQueue
    BY <2>2, <2>3 DEF InQueue, Items
  <2>5. InQueue' = InQueue \ {x}
    <3>1. ASSUME NEW y \in Items
          PROVE  (head'[y[1]] <= y[2] /\ y[2] < tail[y[1]])
                   <=> (head[y[1]] <= y[2] /\ y[2] < tail[y[1]]) /\ y # x
      <4>1. PICK q \in Producers : \E n \in 0..(Quota[q] - 1) : y = <<q, n>>
        BY DEF Items
      <4>6. PICK n \in 0..(Quota[q] - 1) : y = <<q, n>>
        BY <4>1
      <4>2. n \in Nat /\ head[q] \in Nat /\ tail[q] \in Nat
        BY QueueAssumption DEF ControlInv, ControlOK
      <4>3. CASE q = p
        <5>1. head'[p] = head[p] + 1
          BY <2>1, <2>2 DEF ControlInv, ControlOK
        <5>2. y[1] = p /\ y[2] = n /\ (y = x <=> n = head[p])
          BY <4>3, <4>6
        <5> HIDE DEF p, x
        <5>3. QED
          BY <2>2, <4>2, <5>1, <5>2
      <4>4. CASE q # p
        <5>1. head'[q] = head[q] /\ y # x
          BY <2>1, <4>4, <4>6 DEF ControlInv, ControlOK
        <5>2. QED
          BY <4>6, <5>1
      <4>5. QED
        BY <4>3, <4>4
    <3>2. QED
      BY <2>1, <3>1 DEF InQueue
  <2> HIDE DEF p, x
  <2>6. IsFiniteSet(InQueue') /\ Cardinality(InQueue') = Cardinality(InQueue) - 1
    BY <1>q, <2>4, <2>5, FS_RemoveElement, FS_Subset
  <2>7. "take" \in SearchStates /\ "move" \notin SearchStates
    BY DEF SearchStates
  <2>8. Cardinality(Unsignalled)' = Cardinality(Unsignalled)
        /\ Cardinality(Unsignalled) \in Nat
    BY <2>1, Shifts
  <2>9. Cardinality(Posting)' = Cardinality(Posting)
        /\ Cardinality(Posting) \in Nat
    BY <2>1, Shifts
  <2>10. Cardinality(Searching)' = Cardinality(Searching) - 1
         /\ Cardinality(Searching) \in Nat
    BY <2>1, <2>7, Shifts
  <2>11. Counted' = Counted + (-1)
    BY <1>q, <2>1, <2>8, <2>9, <2>10 DEF Counted
  <2>12. Cardinality(InQueue') = Cardinality(InQueue) + (-1)
    BY <1>q, <2>6
  <2>13. QED
    BY <2>6, <2>11, <2>12, CountsKept
<1>12. QED
  BY <1>0, <1>3, <1>4, <1>5, <1>6, <1>7, <1>8, <1>9, <1>10, <1>11
     DEF Next, EnqueueStep, DequeueStep, Quiet

\* A consumer that passes the semaphore has an element for itself in the
\* queue, and no element is without a count.
THEOREM ElementsHaveCounts == Spec => []CountsMatchElements
<1>1. Init => ControlInv /\ ClaimInv /\ CountInv
  BY ControlInit, ClaimInit, CountInit
<1>2. ControlInv /\ ClaimInv /\ CountInv /\ [Next]_vars
        => (ControlInv /\ ClaimInv /\ CountInv)'
  BY ControlStep, ClaimStep, CountStep, ClaimsImplyTail
<1>3. CountInv => CountsMatchElements
  BY DEF CountInv
<1>4. QED
  BY <1>1, <1>2, <1>3, PTL DEF Spec


-----------------------------------------------------------------------------
(* Elements and blocks.                                                    *)

LEMMA SlotAndBlock ==
  ASSUME NEW n \in Nat
  PROVE  /\ BlockNumber(n) \in Nat /\ Slot(n) \in 0..BlockSize - 1
         /\ n = BlockSize * BlockNumber(n) + Slot(n)
         /\ BlockSize * BlockNumber(n) \in Nat
BY QueueAssumption DEF BlockNumber, Slot

LEMMA Division ==
  ASSUME NEW n \in Nat, NEW k \in Nat, NEW r \in 0..BlockSize - 1,
         n = BlockSize * k + r
  PROVE  BlockNumber(n) = k /\ Slot(n) = r
BY QueueAssumption DEF BlockNumber, Slot

LEMMA SlotIsUnique ==
  ASSUME NEW n \in Nat, NEW m \in Nat,
         BlockNumber(n) = BlockNumber(m), Slot(n) = Slot(m)
  PROVE  n = m
<1>1. n = BlockSize * BlockNumber(n) + Slot(n)
  BY SlotAndBlock
<1>2. m = BlockSize * BlockNumber(m) + Slot(m)
  BY SlotAndBlock
<1>3. QED
  BY <1>1, <1>2

LEMMA FirstOfBlock ==
  ASSUME NEW n \in Nat, NEW m \in Nat, BlockNumber(n) = BlockNumber(m), Slot(m) = 0
  PROVE  n >= m
<1>1. /\ n = BlockSize * BlockNumber(n) + Slot(n)
      /\ BlockSize * BlockNumber(n) \in Nat /\ Slot(n) \in 0..BlockSize - 1
  BY SlotAndBlock
<1>2. m = BlockSize * BlockNumber(m) + Slot(m)
  BY SlotAndBlock
<1>3. m = BlockSize * BlockNumber(n)
  BY <1>1, <1>2
<1> DEFINE first == BlockSize * BlockNumber(n)
<1> HIDE DEF first
<1>4. n = first + Slot(n) /\ first \in Nat /\ m = first /\ Slot(n) \in Nat
  BY <1>1, <1>3, QueueAssumption DEF first
<1>5. QED
  BY <1>4

LEMMA SameBlock ==
  ASSUME NEW n \in Nat, Slot(n + 1) # 0
  PROVE  BlockNumber(n + 1) = BlockNumber(n)
<1>1. PICK k \in Nat, r \in 0..BlockSize - 1 : k = BlockNumber(n) /\ r = Slot(n)
  BY SlotAndBlock
<1>2. n = BlockSize * k + r
  BY <1>1, SlotAndBlock
<1>3. BlockSize \in Nat \ {0, 1}
  BY QueueAssumption
<1>4. CASE r + 1 < BlockSize
  <2>1. n + 1 = BlockSize * k + (r + 1) /\ r + 1 \in 0..BlockSize - 1 /\ n + 1 \in Nat
    BY <1>2, <1>3, <1>4
  <2>2. QED
    BY <1>1, <2>1, Division
<1>5. CASE r + 1 = BlockSize
  <2>1. n + 1 = BlockSize * (k + 1) + 0
    BY <1>2, <1>3, <1>5
  <2>2. Slot(n + 1) = 0
    <3>1. n + 1 \in Nat /\ k + 1 \in Nat /\ 0 \in 0..BlockSize - 1
      BY <1>3
    <3>2. QED
      BY <2>1, <3>1, Division
  <2>3. QED
    BY <2>2
<1>6. QED
  BY <1>1, <1>3, <1>4, <1>5

\* The elements of block k.
InBlock(k) == {n \in Nat : BlockNumber(n) = k}

LEMMA BlockIsFull ==
  ASSUME NEW k \in Nat
  PROVE  IsFiniteSet(InBlock(k)) /\ Cardinality(InBlock(k)) = BlockSize
<1>1. PICK a \in Nat : a = BlockSize * k
  BY QueueAssumption
<1>2. BlockSize \in Nat \ {0, 1}
  BY QueueAssumption
<1>3. ASSUME NEW n \in Nat PROVE BlockNumber(n) = k <=> n \in a..(a + BlockSize - 1)
  <2>1. CASE BlockNumber(n) = k
    <3>1. n = a + Slot(n) /\ Slot(n) \in 0..BlockSize - 1
      BY <1>1, <2>1, SlotAndBlock
    <3>2. QED
      BY <1>2, <2>1, <3>1
  <2>2. ASSUME n \in a..(a + BlockSize - 1) PROVE BlockNumber(n) = k
    <3>1. PICK r \in 0..BlockSize - 1 : n = BlockSize * k + r
      <4>1. n - a \in 0..BlockSize - 1 /\ n = BlockSize * k + (n - a)
        BY <1>1, <1>2, <2>2
      <4>2. QED
        BY <4>1
    <3>2. QED
      BY <3>1, Division
  <2>3. QED
    BY <2>1, <2>2
<1>4. InBlock(k) = a..(a + BlockSize - 1)
  BY <1>2, <1>3 DEF InBlock
<1>5. IsFiniteSet(a..(a + BlockSize - 1)) /\ Cardinality(a..(a + BlockSize - 1)) = BlockSize
  BY <1>2, FS_Interval
<1>6. QED
  BY <1>4, <1>5

-----------------------------------------------------------------------------
(* The invariant: who owns a block, when it may be retired, what is in it. *)

\* A consumer that is in one of the states S has taken index n of producer p.
Held(p, n, S) == \E t \in Threads : at[t] = p /\ index[t] = n /\ pc[t] \in S

IndexInv ==
  /\ \A t \in Threads : pc[t] \in DequeueStates => index[t] < head[at[t]]
  /\ \A t, u \in Threads :
       /\ pc[t] \in DequeueStates /\ pc[u] \in DequeueStates
       /\ at[t] = at[u] /\ index[t] = index[u]
       => t = u

BlockTypes ==
  /\ entry \in [Producers -> [BlockNumbers -> Blocks \cup {NoBlock}]]
  /\ slots \in [Blocks -> [0..BlockSize - 1 -> Items \cup {Raw}]]
  /\ emptied \in [Blocks -> Nat]
  /\ pool \subseteq Blocks /\ free \subseteq Blocks /\ unborn \subseteq Blocks

ItemTypes ==
  /\ item \in [Threads -> Items \cup {Raw}]
  /\ got \in [Threads -> SUBSET (Items \cup {Raw})]

OwnerInv ==
  /\ \A p, q \in Producers : \A k, l \in BlockNumbers :
       entry[p][k] \in Blocks /\ entry[p][k] = entry[q][l] => p = q /\ k = l
  /\ \A p \in Producers : \A k \in BlockNumbers : entry[p][k] \notin pool \cup free \cup unborn
  /\ pool \cap free = {} /\ pool \cap unborn = {} /\ free \cap unborn = {}

\* The element n of p has a block and is not done with.
Live(p, n) ==
  /\ \/ n < tail[p]
     \/ n = tail[p] /\ (Slot(n) # 0 \/ pc[p] \in {"write", "publish"})
  /\ n >= head[p] \/ Held(p, n, DequeueStates)

LiveInv ==
  \A p \in Producers : \A n \in Nat :
    n < Quota[p] /\ Live(p, n) => entry[p][BlockNumber(n)] \in Blocks

EmptiedOf(p, k) == {n \in InBlock(k) : n < head[p] /\ ~Held(p, n, {"move", "setEmpty"})}

EmptiedInv ==
  \A p \in Producers : \A k \in BlockNumbers :
    entry[p][k] \in Blocks => emptied[entry[p][k]] = Cardinality(EmptiedOf(p, k))

RetireInv ==
  /\ \A t \in Threads : pc[t] = "retire" => emptied[BlockOf(t)] = BlockSize
  /\ \A t, u \in Threads :
       /\ pc[t] = "retire" /\ pc[u] = "retire" /\ at[t] = at[u]
       /\ BlockNumber(index[t]) = BlockNumber(index[u])
       => t = u

\* The element n of p is in its slot.
Present(p, n) ==
  /\ n < tail[p] \/ (n = tail[p] /\ pc[p] = "publish")
  /\ n >= head[p] \/ Held(p, n, {"move"})

ContentInv ==
  \A p \in Producers : \A n \in Nat :
    n < Quota[p] /\ Present(p, n) => slots[entry[p][BlockNumber(n)]][Slot(n)] = <<p, n>>

ItemInv ==
  /\ \A t \in Threads : pc[t] \in {"setEmpty", "retire"} => item[t] = <<at[t], index[t]>>
  /\ \A t \in Threads : \A x \in got[t] : x \in Items /\ x[2] < head[x[1]]

BlockInv ==
  /\ IndexInv /\ BlockTypes /\ ItemTypes /\ OwnerInv /\ LiveInv
  /\ EmptiedInv /\ RetireInv /\ ContentInv /\ ItemInv

LEMMA ItemsAre ==
  /\ \A p \in Producers : Quota[p] \in Nat
  /\ \A p \in Producers : \A n \in Nat :
       n < Quota[p] => <<p, n>> \in Items /\ BlockNumber(n) \in BlockNumbers
  /\ \A x \in Items : x[1] \in Producers /\ x[2] \in Nat /\ x[2] < Quota[x[1]]
                       /\ x = <<x[1], x[2]>>
  /\ BlockNumbers \subseteq Nat
<1>1. \A p \in Producers : Quota[p] \in Nat
  BY QueueAssumption
<1>2. ASSUME NEW p \in Producers, NEW n \in Nat, n < Quota[p]
      PROVE  <<p, n>> \in Items
  BY <1>1, <1>2 DEF Items
<1>3. ASSUME NEW p \in Producers, NEW n \in Nat, n < Quota[p]
      PROVE  BlockNumber(n) \in BlockNumbers
  <2>1. <<p, n>> \in Items /\ <<p, n>>[2] = n
    BY <1>2, <1>3
  <2>2. <<p, n>>[2] \div BlockSize \in BlockNumbers
    BY <2>1 DEF BlockNumbers
  <2>3. QED
    BY <2>1, <2>2 DEF BlockNumber
<1>4. ASSUME NEW x \in Items
      PROVE  x[1] \in Producers /\ x[2] \in Nat /\ x[2] < Quota[x[1]] /\ x = <<x[1], x[2]>>
  <2>1. PICK p \in Producers : x \in {p} \X (0..Quota[p] - 1)
    BY DEF Items
  <2>2. x[1] = p /\ x[2] \in 0..Quota[p] - 1 /\ x = <<x[1], x[2]>>
    BY <2>1
  <2>3. QED
    BY <1>1, <2>2
<1>5. BlockNumbers \subseteq Nat
  BY <1>4, SlotAndBlock DEF BlockNumbers, BlockNumber
<1>6. QED
  BY <1>1, <1>2, <1>3, <1>4, <1>5

\* A consumer that has an index is at a block in use.
LEMMA AtBlock ==
  ASSUME ControlInv, NeverPastTail, IndexInv, LiveInv,
         NEW t \in Threads, pc[t] \in DequeueStates
  PROVE  /\ at[t] \in Producers /\ index[t] \in Nat
         /\ index[t] < head[at[t]] /\ head[at[t]] <= tail[at[t]]
         /\ index[t] < tail[at[t]] /\ index[t] < Quota[at[t]]
         /\ BlockNumber(index[t]) \in BlockNumbers
         /\ BlockOf(t) \in Blocks
         /\ BlockOf(t) = entry[at[t]][BlockNumber(index[t])]
<1>1. at[t] \in Producers /\ index[t] \in Nat
  BY DEF ControlInv, ControlOK, PlaceOK, AtStates
<1>2. /\ head[at[t]] \in Nat /\ tail[at[t]] \in Nat /\ Quota[at[t]] \in Nat
      /\ tail[at[t]] <= Quota[at[t]]
  BY <1>1, ItemsAre DEF ControlInv, ControlOK, PlaceOK
<1>3. index[t] < head[at[t]]
  BY DEF IndexInv
<1>4. head[at[t]] <= tail[at[t]]
  BY <1>1, <1>2, TakersFinite DEF NeverPastTail
<1>5. index[t] < tail[at[t]] /\ index[t] < Quota[at[t]]
  BY <1>1, <1>2, <1>3, <1>4
<1>6. BlockNumber(index[t]) \in BlockNumbers
  BY <1>1, <1>5, ItemsAre
<1>7. Live(at[t], index[t])
  <2>1. Held(at[t], index[t], DequeueStates)
    BY DEF Held
  <2>2. QED
    BY <1>5, <2>1 DEF Live
<1>8. entry[at[t]][BlockNumber(index[t])] \in Blocks
  BY <1>1, <1>5, <1>7 DEF LiveInv
<1>9. QED
  BY <1>1, <1>3, <1>4, <1>5, <1>6, <1>8 DEF BlockOf

LEMMA BlockInit == Init => BlockInv
<1> SUFFICES ASSUME Init PROVE BlockInv
  OBVIOUS
<1>1. IndexInv /\ RetireInv /\ ItemInv /\ ItemTypes
  BY DEF Init, IndexInv, RetireInv, ItemInv, ItemTypes, DequeueStates
<1>2. BlockTypes
  BY QueueAssumption DEF Init, BlockTypes
<1>3. OwnerInv
  BY QueueAssumption DEF Init, OwnerInv
<1>4. \A p \in Producers : \A n \in Nat : ~Live(p, n) /\ ~Present(p, n)
  <2> SUFFICES ASSUME NEW p \in Producers, NEW n \in Nat
               PROVE  ~Live(p, n) /\ ~Present(p, n)
    OBVIOUS
  <2>1. Slot(0) = 0
    BY QueueAssumption DEF Slot
  <2>2. tail[p] = 0 /\ pc[p] = "idle"
    BY DEF Init, Threads
  <2>3. QED
    BY <2>1, <2>2 DEF Live, Present
<1>5. LiveInv /\ ContentInv
  BY <1>4 DEF LiveInv, ContentInv
<1>6. EmptiedInv
  BY QueueAssumption DEF Init, EmptiedInv
<1>7. QED
  BY <1>1, <1>2, <1>3, <1>5, <1>6 DEF BlockInv

-----------------------------------------------------------------------------
(* The steps.                                                              *)

\* A step that moves no thread from or to a block.
LEMMA OffBlocks ==
  ASSUME BlockInv,
         UNCHANGED <<elementVars, head, tail, item, got>>,
         \A u \in Threads :
           pc[u] \in DequeueStates \cup {"write", "publish"}
             \/ pc'[u] \in DequeueStates \cup {"write", "publish"}
           => pc'[u] = pc[u] /\ at'[u] = at[u] /\ index'[u] = index[u]
  PROVE  BlockInv'
<1> USE DEF DequeueStates, elementVars
<1>1. \A p, n : /\ Held(p, n, DequeueStates)' = Held(p, n, DequeueStates)
               /\ Held(p, n, {"move", "setEmpty"})' = Held(p, n, {"move", "setEmpty"})
               /\ Held(p, n, {"move"})' = Held(p, n, {"move"})
  BY DEF Held
<1>2. \A p \in Producers : \A n : Live(p, n)' = Live(p, n) /\ Present(p, n)' = Present(p, n)
  BY <1>1 DEF Live, Present, Threads
<1>3. \A p, k : EmptiedOf(p, k)' = EmptiedOf(p, k)
  BY <1>1 DEF EmptiedOf
<1>4. IndexInv'
  BY DEF BlockInv, IndexInv
<1>5. BlockTypes' /\ ItemTypes' /\ OwnerInv'
  BY DEF BlockInv, BlockTypes, ItemTypes, OwnerInv
<1>6. LiveInv' /\ ContentInv'
  BY <1>2 DEF BlockInv, LiveInv, ContentInv
<1>7. EmptiedInv'
  BY <1>3 DEF BlockInv, EmptiedInv
<1>8. RetireInv' /\ ItemInv'
  BY DEF BlockInv, RetireInv, ItemInv, BlockOf
<1>9. QED
  BY <1>4, <1>5, <1>6, <1>7, <1>8 DEF BlockInv

\* What the tail of a producer that enqueues allows to say.
LEMMA AtTail ==
  ASSUME ControlInv, NeverPastTail, NEW t \in Threads,
         pc[t] \in {"enqueue", "write", "publish"}
  PROVE  /\ t \in Producers /\ tail[t] \in Nat /\ head[t] \in Nat /\ Quota[t] \in Nat
         /\ head[t] <= tail[t] /\ tail[t] < Quota[t]
         /\ BlockNumber(tail[t]) \in BlockNumbers /\ Slot(tail[t]) \in 0..BlockSize - 1
         /\ <<t, tail[t]>> \in Items
<1>1. t \in Producers /\ tail[t] \in Nat /\ head[t] \in Nat /\ tail[t] < Quota[t]
      /\ Quota[t] \in Nat
  BY ItemsAre DEF ControlInv, ControlOK, PlaceOK, EnqueueStates
<1>2. head[t] <= tail[t]
  BY <1>1, TakersFinite DEF NeverPastTail
<1>3. QED
  BY <1>1, <1>2, ItemsAre, SlotAndBlock

\* A new block is entered for elements that are all still to come.
LEMMA NewBlock ==
  ASSUME ControlInv, NeverPastTail, BlockInv, NEW t \in Threads, NEW b \in Blocks,
         pc[t] = "enqueue", Slot(tail[t]) = 0,
         pc' = [pc EXCEPT ![t] = "write"],
         Requisition(b),
         emptied' = [emptied EXCEPT ![b] = 0],
         entry' = [entry EXCEPT ![t][BlockNumber(tail[t])] = b],
         UNCHANGED <<slots, head, tail, at, index, item, got>>
  PROVE  BlockInv'
<1> DEFINE k == BlockNumber(tail[t])
<1>1. /\ t \in Producers /\ tail[t] \in Nat /\ head[t] \in Nat /\ head[t] <= tail[t]
      /\ tail[t] < Quota[t] /\ k \in BlockNumbers
  BY AtTail
<1>2. /\ b \in pool \cup free \cup unborn
      /\ b \notin pool' \cup free' \cup unborn'
      /\ pool' \subseteq pool /\ free' \subseteq free /\ unborn' \subseteq unborn
  BY DEF Requisition, BlockInv, OwnerInv
<1>3. \A q \in Producers : \A l \in BlockNumbers :
        /\ entry[q][l] # b
        /\ entry'[q][l] = IF q = t /\ l = k THEN b ELSE entry[q][l]
  BY <1>1, <1>2 DEF BlockInv, OwnerInv, BlockTypes
<1>4. \A p, n : /\ Held(p, n, DequeueStates)' = Held(p, n, DequeueStates)
                /\ Held(p, n, {"move", "setEmpty"})' = Held(p, n, {"move", "setEmpty"})
                /\ Held(p, n, {"move"})' = Held(p, n, {"move"})
  BY DEF Held, DequeueStates, ControlInv, ControlOK
<1>5. \A n \in Nat : BlockNumber(n) = k => n >= tail[t]
  BY <1>1, FirstOfBlock
<1>6. IndexInv'
  BY DEF BlockInv, IndexInv, DequeueStates, ControlInv, ControlOK
<1>7. BlockTypes' /\ ItemTypes'
  BY <1>1, <1>2 DEF BlockInv, BlockTypes, ItemTypes
<1>8. OwnerInv'
  <2>1. /\ pool' \cap free' = {} /\ pool' \cap unborn' = {} /\ free' \cap unborn' = {}
    BY <1>2 DEF BlockInv, OwnerInv
  <2>2. \A p \in Producers : \A l \in BlockNumbers :
          entry'[p][l] \notin pool' \cup free' \cup unborn'
    BY <1>2, <1>3 DEF BlockInv, OwnerInv
  <2>3. \A p, q \in Producers : \A j, l \in BlockNumbers :
          entry'[p][j] \in Blocks /\ entry'[p][j] = entry'[q][l] => p = q /\ j = l
    BY <1>3 DEF BlockInv, OwnerInv
  <2>4. QED
    BY <2>1, <2>2, <2>3 DEF OwnerInv
<1>9. LiveInv'
  <2> SUFFICES ASSUME NEW p \in Producers, NEW n \in Nat, n < Quota[p], Live(p, n)'
               PROVE  entry'[p][BlockNumber(n)] \in Blocks
    BY DEF LiveInv
  <2>1. BlockNumber(n) \in BlockNumbers
    BY ItemsAre
  <2>2. CASE p = t /\ BlockNumber(n) = k
    BY <1>1, <1>3, <2>2
  <2>3. CASE ~(p = t /\ BlockNumber(n) = k)
    <3>1. Live(p, n)
      BY <1>4, <2>3 DEF Live, ControlInv, ControlOK, Threads
    <3>2. entry[p][BlockNumber(n)] \in Blocks
      BY <3>1 DEF BlockInv, LiveInv
    <3>3. QED
      BY <1>3, <2>1, <2>3, <3>2
  <2>4. QED
    BY <2>2, <2>3
<1>10. \A p, j : EmptiedOf(p, j)' = EmptiedOf(p, j)
  BY <1>4 DEF EmptiedOf
<1>11. EmptiedInv'
  <2> SUFFICES ASSUME NEW p \in Producers, NEW j \in BlockNumbers, entry'[p][j] \in Blocks
               PROVE  emptied'[entry'[p][j]] = Cardinality(EmptiedOf(p, j))
    BY <1>10 DEF EmptiedInv
  <2>1. CASE p = t /\ j = k
    <3>1. EmptiedOf(p, j) = {}
      BY <1>1, <1>5, <2>1 DEF EmptiedOf, InBlock
    <3>2. emptied'[b] = 0
      BY DEF BlockInv, BlockTypes
    <3>3. QED
      BY <1>3, <2>1, <3>1, <3>2, FS_EmptySet
  <2>2. CASE ~(p = t /\ j = k)
    <3>1. entry'[p][j] = entry[p][j] /\ entry[p][j] # b
      BY <1>3, <2>2
    <3>2. emptied'[entry[p][j]] = emptied[entry[p][j]]
      BY <3>1 DEF BlockInv, BlockTypes
    <3>3. QED
      BY <3>1, <3>2 DEF BlockInv, EmptiedInv
  <2>3. QED
    BY <2>1, <2>2
<1>12. RetireInv'
  <2>1. \A u \in Threads : pc'[u] = "retire" <=> pc[u] = "retire"
    BY DEF ControlInv, ControlOK
  <2>2. ASSUME NEW u \in Threads, pc[u] = "retire"
        PROVE  BlockOf(u)' = BlockOf(u) /\ emptied'[BlockOf(u)] = emptied[BlockOf(u)]
    <3>1. /\ at[u] \in Producers /\ index[u] \in Nat /\ index[u] < tail[at[u]]
          /\ BlockNumber(index[u]) \in BlockNumbers
          /\ BlockOf(u) = entry[at[u]][BlockNumber(index[u])]
      BY <2>2, AtBlock DEF BlockInv, DequeueStates
    <3>2. ~(at[u] = t /\ BlockNumber(index[u]) = k)
      BY <1>1, <1>5, <3>1
    <3>3. BlockOf(u)' = BlockOf(u) /\ BlockOf(u) # b
      BY <1>3, <3>1, <3>2 DEF BlockOf
    <3>4. QED
      BY <3>3 DEF BlockInv, BlockTypes
  <2>3. QED
    BY <2>1, <2>2 DEF BlockInv, RetireInv
<1>13. ContentInv'
  <2> SUFFICES ASSUME NEW p \in Producers, NEW n \in Nat, n < Quota[p], Present(p, n)'
               PROVE  slots[entry'[p][BlockNumber(n)]][Slot(n)] = <<p, n>>
    BY DEF ContentInv
  <2>1. BlockNumber(n) \in BlockNumbers
    BY ItemsAre
  <2>2. Present(p, n)
    BY <1>4 DEF Present, ControlInv, ControlOK, Threads
  <2>3. ~(p = t /\ BlockNumber(n) = k)
    <3>1. CASE p = t
      <4>1. n < tail[t]
        BY <2>2, <3>1 DEF Present
      <4>2. QED
        BY <1>1, <1>5, <4>1
    <3>2. QED
      BY <3>1
  <2>4. QED
    BY <1>3, <2>1, <2>2, <2>3 DEF BlockInv, ContentInv
<1>14. ItemInv'
  BY DEF BlockInv, ItemInv, ControlInv, ControlOK
<1>15. QED
  BY <1>6, <1>7, <1>8, <1>9, <1>11, <1>12, <1>13, <1>14 DEF BlockInv

LEMMA BlockStart ==
  ASSUME ControlInv, NeverPastTail, BlockInv, NEW t \in Threads, StartBlock(t)
  PROVE  BlockInv'
<1> USE DEF Goto, elementVars, countVars, claimVars, lookVars
<1>1. pc[t] = "enqueue" /\ pc' = [pc EXCEPT ![t] = "write"]
      /\ UNCHANGED <<head, tail, at, index, item, got>>
  BY DEF StartBlock
<1>2. CASE Slot(tail[t]) = 0
  <2>1. PICK b \in Blocks : /\ Requisition(b)
                            /\ emptied' = [emptied EXCEPT ![b] = 0]
                            /\ entry' = [entry EXCEPT ![t][BlockNumber(tail[t])] = b]
                            /\ UNCHANGED slots
    BY <1>2 DEF StartBlock
  <2>2. QED
    BY <1>1, <1>2, <2>1, NewBlock
\* The tail is in a block that is in use.
<1>3. CASE Slot(tail[t]) # 0
  <2>1. UNCHANGED elementVars
    BY <1>3 DEF StartBlock
  <2>2. \A p, n : /\ Held(p, n, DequeueStates)' = Held(p, n, DequeueStates)
                  /\ Held(p, n, {"move", "setEmpty"})' = Held(p, n, {"move", "setEmpty"})
                  /\ Held(p, n, {"move"})' = Held(p, n, {"move"})
    BY <1>1 DEF Held, DequeueStates, ControlInv, ControlOK
  <2>3. \A p \in Producers : \A n : /\ Live(p, n)' => Live(p, n)
                                    /\ Present(p, n)' => Present(p, n)
    BY <1>1, <1>3, <2>2 DEF Live, Present, Threads, ControlInv, ControlOK
  <2>4. \A p, k : EmptiedOf(p, k)' = EmptiedOf(p, k)
    BY <1>1, <2>2 DEF EmptiedOf
  <2>5. IndexInv'
    BY <1>1 DEF BlockInv, IndexInv, DequeueStates, ControlInv, ControlOK
  <2>6. BlockTypes' /\ ItemTypes' /\ OwnerInv'
    BY <1>1, <2>1 DEF BlockInv, BlockTypes, ItemTypes, OwnerInv
  <2>7. LiveInv' /\ ContentInv'
    BY <2>1, <2>3 DEF BlockInv, LiveInv, ContentInv
  <2>8. EmptiedInv'
    BY <2>1, <2>4 DEF BlockInv, EmptiedInv
  <2>9. RetireInv' /\ ItemInv'
    BY <1>1, <2>1 DEF BlockInv, RetireInv, ItemInv, BlockOf, ControlInv, ControlOK
  <2>10. QED
    BY <2>5, <2>6, <2>7, <2>8, <2>9 DEF BlockInv
<1>4. QED
  BY <1>2, <1>3

LEMMA ElementWritten ==
  ASSUME ControlInv, NeverPastTail, BlockInv, NEW t \in Threads, WriteElement(t)
  PROVE  BlockInv'
<1> USE DEF Goto, elementVars, countVars, claimVars, lookVars
<1> DEFINE k == BlockNumber(tail[t])
           s == Slot(tail[t])
           b == entry[t][k]
<1>1. /\ pc[t] = "write" /\ pc' = [pc EXCEPT ![t] = "publish"]
      /\ slots' = [slots EXCEPT ![b][s] = <<t, tail[t]>>]
      /\ UNCHANGED <<head, tail, at, index, item, got, entry, emptied, pool, free, unborn>>
  BY DEF WriteElement
<1>2. /\ t \in Producers /\ tail[t] \in Nat /\ head[t] \in Nat /\ head[t] <= tail[t]
      /\ tail[t] < Quota[t] /\ k \in BlockNumbers /\ s \in 0..BlockSize - 1
      /\ <<t, tail[t]>> \in Items
  BY <1>1, AtTail
<1>3. b \in Blocks
  <2>1. Live(t, tail[t])
    BY <1>1, <1>2 DEF Live
  <2>2. QED
    BY <1>2, <2>1 DEF BlockInv, LiveInv
<1>4. \A p, n : /\ Held(p, n, DequeueStates)' = Held(p, n, DequeueStates)
                /\ Held(p, n, {"move", "setEmpty"})' = Held(p, n, {"move", "setEmpty"})
                /\ Held(p, n, {"move"})' = Held(p, n, {"move"})
  BY <1>1 DEF Held, DequeueStates, ControlInv, ControlOK
<1>5. \A p \in Producers : \A n : Live(p, n)' => Live(p, n)
  BY <1>1, <1>4 DEF Live, Threads, ControlInv, ControlOK
<1>6. \A p, j : EmptiedOf(p, j)' = EmptiedOf(p, j)
  BY <1>1, <1>4 DEF EmptiedOf
<1>7. IndexInv'
  BY <1>1 DEF BlockInv, IndexInv, DequeueStates, ControlInv, ControlOK
<1>8. BlockTypes'
  BY <1>1, <1>2, <1>3 DEF BlockInv, BlockTypes
<1>9. ItemTypes' /\ OwnerInv'
  BY <1>1 DEF BlockInv, ItemTypes, OwnerInv
<1>10. LiveInv'
  BY <1>1, <1>5 DEF BlockInv, LiveInv
<1>11. EmptiedInv'
  BY <1>1, <1>6 DEF BlockInv, EmptiedInv
<1>12. RetireInv' /\ ItemInv'
  BY <1>1 DEF BlockInv, RetireInv, ItemInv, BlockOf, ControlInv, ControlOK
<1>13. ContentInv'
  <2> SUFFICES ASSUME NEW p \in Producers, NEW n \in Nat, n < Quota[p], Present(p, n)'
               PROVE  slots'[entry[p][BlockNumber(n)]][Slot(n)] = <<p, n>>
    BY <1>1 DEF ContentInv
  <2>1. BlockNumber(n) \in BlockNumbers /\ Slot(n) \in 0..BlockSize - 1
    BY ItemsAre, SlotAndBlock
  <2>2. CASE p = t /\ n = tail[t]
    BY <1>1, <1>2, <1>3, <2>2 DEF BlockInv, BlockTypes
  <2>3. CASE ~(p = t /\ n = tail[t])
    <3>1. Present(p, n)
      BY <1>1, <1>4, <2>3 DEF Present, Threads, ControlInv, ControlOK
    <3>2. slots[entry[p][BlockNumber(n)]][Slot(n)] = <<p, n>>
      BY <3>1 DEF BlockInv, ContentInv
    <3>3. ~(entry[p][BlockNumber(n)] = b /\ Slot(n) = s)
      <4>1. ASSUME entry[p][BlockNumber(n)] = b, Slot(n) = s PROVE FALSE
        <5>1. p = t /\ BlockNumber(n) = k
          BY <1>2, <1>3, <2>1, <4>1 DEF BlockInv, OwnerInv
        <5>2. n = tail[t]
          BY <1>2, <4>1, <5>1, SlotIsUnique
        <5>3. QED
          BY <2>3, <5>1, <5>2
      <4>2. QED
        BY <4>1
    <3>4. entry[p][BlockNumber(n)] \in Blocks
      <4>1. Live(p, n)
        <5>1. n < tail[p] \/ (n = tail[p] /\ pc[p] = "publish")
          BY <3>1 DEF Present
        <5>2. n >= head[p] \/ Held(p, n, DequeueStates)
          BY <3>1 DEF Present, Held, DequeueStates
        <5>3. QED
          BY <5>1, <5>2 DEF Live
      <4>2. QED
        BY <4>1 DEF BlockInv, LiveInv
    <3>5. QED
      BY <1>1, <1>3, <2>1, <3>2, <3>3, <3>4 DEF BlockInv, BlockTypes
  <2>4. QED
    BY <2>2, <2>3
<1>14. QED
  BY <1>7, <1>8, <1>9, <1>10, <1>11, <1>12, <1>13 DEF BlockInv

LEMMA ElementPublished ==
  ASSUME ControlInv, NeverPastTail, BlockInv, NEW t \in Threads, Publish(t)
  PROVE  BlockInv'
<1> USE DEF Goto, elementVars, countVars, claimVars, lookVars
<1>1. /\ pc[t] = "publish" /\ pc' = [pc EXCEPT ![t] = "signal"]
      /\ tail' = [tail EXCEPT ![t] = tail[t] + 1]
      /\ UNCHANGED <<head, at, index, item, got, elementVars>>
  BY DEF Publish
<1>2. /\ t \in Producers /\ tail[t] \in Nat /\ head[t] \in Nat /\ head[t] <= tail[t]
      /\ tail[t] < Quota[t] /\ tail'[t] = tail[t] + 1
  BY <1>1, AtTail DEF ControlInv, ControlOK
<1>3. \A p, n : /\ Held(p, n, DequeueStates)' = Held(p, n, DequeueStates)
                /\ Held(p, n, {"move", "setEmpty"})' = Held(p, n, {"move", "setEmpty"})
                /\ Held(p, n, {"move"})' = Held(p, n, {"move"})
  BY <1>1 DEF Held, DequeueStates, ControlInv, ControlOK
<1>4. \A p \in Producers : p # t => tail'[p] = tail[p] /\ pc'[p] = pc[p]
  BY <1>1 DEF ControlInv, ControlOK, Threads
<1>5. pc'[t] = "signal"
  BY <1>1 DEF ControlInv, ControlOK
<1>6. ASSUME NEW p \in Producers, NEW n \in Nat, Present(p, n)' PROVE Present(p, n)
  <2>1. n >= head[p] \/ Held(p, n, {"move"})
    BY <1>1, <1>3, <1>6 DEF Present
  <2>2. CASE p = t
    <3>1. n <= tail[t]
      BY <1>2, <1>5, <1>6, <2>2 DEF Present
    <3>2. n < tail[t] \/ n = tail[t]
      BY <1>2, <3>1
    <3>3. QED
      BY <1>1, <2>1, <2>2, <3>2 DEF Present
  <2>3. CASE p # t
    BY <1>4, <1>6, <2>1, <2>3 DEF Present
  <2>4. QED
    BY <2>2, <2>3
<1>7. \A p, k : EmptiedOf(p, k)' = EmptiedOf(p, k)
  BY <1>1, <1>3 DEF EmptiedOf
<1>8. IndexInv'
  BY <1>1 DEF BlockInv, IndexInv, DequeueStates, ControlInv, ControlOK
<1>9. BlockTypes' /\ ItemTypes' /\ OwnerInv'
  BY <1>1 DEF BlockInv, BlockTypes, ItemTypes, OwnerInv
<1>10. ContentInv'
  BY <1>1, <1>6 DEF BlockInv, ContentInv
<1>11. EmptiedInv'
  BY <1>1, <1>7 DEF BlockInv, EmptiedInv
<1>12. RetireInv' /\ ItemInv'
  BY <1>1 DEF BlockInv, RetireInv, ItemInv, BlockOf, ControlInv, ControlOK
\* A new tail that is not at the end of a block is in the block of the old one.
<1>13. LiveInv'
  <2> SUFFICES ASSUME NEW p \in Producers, NEW n \in Nat, n < Quota[p], Live(p, n)'
               PROVE  entry[p][BlockNumber(n)] \in Blocks
    BY <1>1 DEF LiveInv
  <2>1. n >= head[p] \/ Held(p, n, DequeueStates)
    BY <1>1, <1>3 DEF Live
  <2>2. CASE p # t
    <3>1. Live(p, n)
      BY <1>4, <2>1, <2>2 DEF Live
    <3>2. QED
      BY <3>1 DEF BlockInv, LiveInv
  <2>3. CASE p = t /\ n = tail[t] + 1
    <3>1. Slot(tail[t] + 1) # 0
      BY <1>2, <1>5, <2>3 DEF Live
    <3>2. BlockNumber(n) = BlockNumber(tail[t])
      BY <1>2, <2>3, <3>1, SameBlock
    <3>3. Live(t, tail[t])
      BY <1>1, <1>2 DEF Live
    <3>4. QED
      BY <1>2, <2>3, <3>2, <3>3 DEF BlockInv, LiveInv
  <2>4. CASE p = t /\ n # tail[t] + 1
    <3>1. n < tail[t] \/ n = tail[t]
      BY <1>2, <2>4 DEF Live
    <3>2. Live(p, n)
      BY <1>1, <2>1, <2>4, <3>1 DEF Live
    <3>3. QED
      BY <3>2 DEF BlockInv, LiveInv
  <2>5. QED
    BY <2>2, <2>3, <2>4
<1>14. QED
  BY <1>8, <1>9, <1>10, <1>11, <1>12, <1>13 DEF BlockInv

LEMMA IndexTaken ==
  ASSUME ControlInv, NeverPastTail, BlockInv, NEW t \in Threads, TakeIndex(t)
  PROVE  BlockInv'
<1> USE DEF Goto, elementVars, countVars, claimVars, lookVars
<1> DEFINE p == at[t]
<1>1. /\ pc[t] = "take" /\ pc' = [pc EXCEPT ![t] = "move"]
      /\ index' = [index EXCEPT ![t] = head[p]]
      /\ head' = [head EXCEPT ![p] = head[p] + 1]
      /\ UNCHANGED <<tail, at, item, got, elementVars>>
  BY DEF TakeIndex
<1>2. /\ p \in Producers /\ head[p] \in Nat /\ tail[p] \in Nat /\ head'[p] = head[p] + 1
      /\ index'[t] = head[p] /\ pc'[t] = "move"
  BY <1>1 DEF ControlInv, ControlOK, PlaceOK, AtStates
<1>3. head[p] < tail[p]
  <2>1. t \in Takers(p)
    BY <1>1 DEF Takers
  <2>2. Cardinality(Takers(p)) # 0
    BY <1>2, <2>1, TakersFinite, FS_EmptySet
  <2>3. QED
    BY <1>2, <2>2, TakersFinite DEF NeverPastTail
<1>4. /\ \A q \in Producers : q # p => head'[q] = head[q]
      /\ \A q \in Producers : head[q] \in Nat /\ head'[q] \in Nat /\ head[q] <= head'[q]
      /\ \A u \in Threads : u # t => pc'[u] = pc[u] /\ index'[u] = index[u]
      /\ \A u \in Threads : index[u] \in Nat
  BY <1>1, <1>2 DEF ControlInv, ControlOK
<1>5. \A q, n, S : S \in {DequeueStates, {"move", "setEmpty"}, {"move"}} =>
        (Held(q, n, S)' <=> Held(q, n, S) \/ (q = p /\ n = head[p]))
  BY <1>1, <1>2, <1>4 DEF Held, DequeueStates
<1>6. \A q \in Producers : \A n \in Nat : \A S \in {DequeueStates, {"move"}} :
        (n >= head'[q] \/ Held(q, n, S)') => (n >= head[q] \/ Held(q, n, S))
  <2> SUFFICES ASSUME NEW q \in Producers, NEW n \in Nat,
                      NEW S \in {DequeueStates, {"move"}},
                      n >= head'[q] \/ Held(q, n, S)'
               PROVE  n >= head[q] \/ Held(q, n, S)
    OBVIOUS
  <2>1. CASE n >= head'[q]
    BY <1>4, <2>1
  <2>2. CASE Held(q, n, S)'
    <3>1. Held(q, n, S) \/ (q = p /\ n = head[p])
      BY <1>5, <2>2
    <3>2. QED
      BY <1>2, <3>1
  <2>3. QED
    BY <2>1, <2>2
<1>7. \A q \in Producers : \A n \in Nat : (Live(q, n)' => Live(q, n))
                                        /\ (Present(q, n)' => Present(q, n))
  <2> SUFFICES ASSUME NEW q \in Producers, NEW n \in Nat
               PROVE  (Live(q, n)' => Live(q, n)) /\ (Present(q, n)' => Present(q, n))
    OBVIOUS
  <2>1. pc'[q] \in {"write", "publish"} => pc[q] = pc'[q]
    BY <1>2, <1>4 DEF Threads
  <2>2. /\ (n >= head'[q] \/ Held(q, n, DequeueStates)')
             => (n >= head[q] \/ Held(q, n, DequeueStates))
        /\ (n >= head'[q] \/ Held(q, n, {"move"})') => (n >= head[q] \/ Held(q, n, {"move"}))
    BY <1>6
  <2>3. QED
    BY <1>1, <2>1, <2>2 DEF Live, Present
\* The element taken is not emptied yet.
<1>8. ASSUME NEW q \in Producers, NEW k PROVE EmptiedOf(q, k)' = EmptiedOf(q, k)
  <2>1. \A n \in Nat :
          n < head'[q] /\ ~Held(q, n, {"move", "setEmpty"})'
            <=> n < head[q] /\ ~Held(q, n, {"move", "setEmpty"})
    <3> SUFFICES ASSUME NEW n \in Nat
                 PROVE  n < head'[q] /\ ~Held(q, n, {"move", "setEmpty"})'
                          <=> n < head[q] /\ ~Held(q, n, {"move", "setEmpty"})
      OBVIOUS
    <3>1. Held(q, n, {"move", "setEmpty"})'
            <=> Held(q, n, {"move", "setEmpty"}) \/ (q = p /\ n = head[p])
      BY <1>5
    <3>2. CASE q # p
      BY <1>4, <3>1, <3>2
    <3>3. CASE q = p
      <4>1. n < head'[q] <=> n < head[q] \/ n = head[p]
        BY <1>2, <3>3
      <4>2. ~(n < head[q] /\ n = head[p])
        BY <1>2, <3>3
      <4>3. QED
        BY <3>1, <3>3, <4>1, <4>2
    <3>4. QED
      BY <3>2, <3>3
  <2>2. QED
    BY <2>1 DEF EmptiedOf, InBlock
<1>9. IndexInv'
  <2>1. ASSUME NEW u \in Threads, pc'[u] \in DequeueStates PROVE index'[u] < head'[at'[u]]
    <3>1. CASE u = t
      BY <1>1, <1>2, <3>1
    <3>2. CASE u # t
      <4>1. pc[u] \in DequeueStates /\ at[u] \in Producers /\ index[u] < head[at[u]]
        BY <1>4, <2>1, <3>2 DEF BlockInv, IndexInv, ControlInv, PlaceOK, AtStates
      <4>2. QED
        BY <1>1, <1>4, <3>2, <4>1
    <3>3. QED
      BY <3>1, <3>2
  <2>2. ASSUME NEW u \in Threads, u # t, pc'[u] \in DequeueStates, at'[u] = p
        PROVE  index'[u] # head[p]
    <3>1. pc[u] \in DequeueStates /\ at[u] = p /\ index[u] < head[at[u]]
      BY <1>1, <1>4, <2>2 DEF BlockInv, IndexInv
    <3>2. QED
      BY <1>2, <1>4, <2>2, <3>1
  <2>3. \A u, v \in Threads :
          /\ pc'[u] \in DequeueStates /\ pc'[v] \in DequeueStates
          /\ at'[u] = at'[v] /\ index'[u] = index'[v]
          => u = v
    BY <1>1, <1>2, <1>4, <2>2 DEF BlockInv, IndexInv
  <2>4. QED
    BY <2>1, <2>3 DEF IndexInv
<1>10. BlockTypes' /\ ItemTypes' /\ OwnerInv'
  BY <1>1 DEF BlockInv, BlockTypes, ItemTypes, OwnerInv
<1>11. LiveInv' /\ ContentInv'
  BY <1>1, <1>7 DEF BlockInv, LiveInv, ContentInv
<1>12. EmptiedInv'
  BY <1>1, <1>8 DEF BlockInv, EmptiedInv
<1>13. RetireInv'
  <2>1. \A u \in Threads : pc'[u] = "retire" => pc[u] = "retire" /\ BlockOf(u)' = BlockOf(u)
                                              /\ index'[u] = index[u]
    BY <1>1, <1>2, <1>4 DEF BlockOf
  <2>2. QED
    BY <1>1, <2>1 DEF BlockInv, RetireInv
<1>14. ItemInv'
  <2>1. \A u \in Threads : pc'[u] \in {"setEmpty", "retire"} =>
          item'[u] = <<at'[u], index'[u]>>
    BY <1>1, <1>2, <1>4 DEF BlockInv, ItemInv
  <2>2. ASSUME NEW u \in Threads, NEW x \in got[u] PROVE x \in Items /\ x[2] < head'[x[1]]
    <3>1. x \in Items /\ x[2] < head[x[1]] /\ x[1] \in Producers /\ x[2] \in Nat
      BY ItemsAre DEF BlockInv, ItemInv
    <3>2. QED
      BY <1>4, <3>1
  <2>3. QED
    BY <1>1, <2>1, <2>2 DEF ItemInv
<1>15. QED
  BY <1>9, <1>10, <1>11, <1>12, <1>13, <1>14 DEF BlockInv

LEMMA ElementMoved ==
  ASSUME ControlInv, NeverPastTail, BlockInv, NEW t \in Threads, MoveElement(t)
  PROVE  BlockInv' /\ item'[t] = <<at[t], index[t]>>
<1> USE DEF Goto, elementVars, countVars, claimVars, lookVars
<1> DEFINE p == at[t]
           i == index[t]
           b == BlockOf(t)
           s == Slot(i)
<1>1. /\ pc[t] = "move" /\ pc' = [pc EXCEPT ![t] = "setEmpty"]
      /\ item' = [item EXCEPT ![t] = slots[b][s]]
      /\ slots' = [slots EXCEPT ![b][s] = Raw]
      /\ UNCHANGED <<head, tail, at, index, got, entry, emptied, pool, free, unborn>>
  BY DEF MoveElement
<1>2. /\ p \in Producers /\ i \in Nat /\ i < head[p] /\ i < tail[p] /\ i < Quota[p]
      /\ BlockNumber(i) \in BlockNumbers /\ b \in Blocks /\ b = entry[p][BlockNumber(i)]
      /\ s \in 0..BlockSize - 1
  BY <1>1, AtBlock, SlotAndBlock DEF BlockInv, DequeueStates
<1>3. slots[b][s] = <<p, i>> /\ <<p, i>> \in Items
  <2>1. Held(p, i, {"move"})
    BY <1>1 DEF Held
  <2>2. Present(p, i)
    BY <1>2, <2>1 DEF Present
  <2>3. QED
    <3> HIDE DEF p, i, b
    <3>1. slots[entry[p][BlockNumber(i)]][Slot(i)] = <<p, i>>
      BY <1>2, <2>2 DEF BlockInv, ContentInv
    <3>2. <<p, i>> \in Items
      BY <1>2, ItemsAre
    <3>3. QED
      BY <1>2, <3>1, <3>2
<1>4. item'[t] = <<p, i>>
  BY <1>1, <1>3 DEF BlockInv, ItemTypes
<1>5. /\ \A u \in Threads : u # t => pc'[u] = pc[u]
      /\ pc'[t] = "setEmpty"
  BY <1>1 DEF ControlInv, ControlOK
<1>6. \A q, n : /\ Held(q, n, DequeueStates)' = Held(q, n, DequeueStates)
                /\ Held(q, n, {"move", "setEmpty"})' = Held(q, n, {"move", "setEmpty"})
                /\ Held(q, n, {"move"})' => Held(q, n, {"move"}) /\ ~(q = p /\ n = i)
  BY <1>1, <1>5 DEF Held, DequeueStates, BlockInv, IndexInv
<1>7. \A q \in Producers : \A n : /\ Live(q, n)' => Live(q, n)
                                  /\ Present(q, n)' => Present(q, n)
  BY <1>1, <1>5, <1>6 DEF Live, Present, Threads
<1>8. \A q, k : EmptiedOf(q, k)' = EmptiedOf(q, k)
  BY <1>1, <1>6 DEF EmptiedOf
<1>9. IndexInv'
  BY <1>1, <1>5 DEF BlockInv, IndexInv, DequeueStates
<1>10. BlockTypes' /\ ItemTypes'
  BY <1>1, <1>2, <1>3 DEF BlockInv, BlockTypes, ItemTypes
<1>11. OwnerInv'
  BY <1>1 DEF BlockInv, OwnerInv
<1>12. LiveInv'
  BY <1>1, <1>7 DEF BlockInv, LiveInv
<1>13. EmptiedInv'
  BY <1>1, <1>8 DEF BlockInv, EmptiedInv
<1>14. RetireInv'
  BY <1>1, <1>5 DEF BlockInv, RetireInv, BlockOf
<1>15. ItemInv'
  BY <1>1, <1>4, <1>5 DEF BlockInv, ItemInv, ItemTypes
<1>16. ContentInv'
  <2> SUFFICES ASSUME NEW q \in Producers, NEW n \in Nat, n < Quota[q], Present(q, n)'
               PROVE  slots'[entry[q][BlockNumber(n)]][Slot(n)] = <<q, n>>
    BY <1>1 DEF ContentInv
  <2>1. BlockNumber(n) \in BlockNumbers /\ Slot(n) \in 0..BlockSize - 1
    BY ItemsAre, SlotAndBlock
  <2>2. Present(q, n)
    BY <1>7
  <2>3. slots[entry[q][BlockNumber(n)]][Slot(n)] = <<q, n>>
    BY <2>2 DEF BlockInv, ContentInv
  <2>4. entry[q][BlockNumber(n)] \in Blocks
    <3>1. n < tail[q] \/ (n = tail[q] /\ pc[q] = "publish")
      BY <2>2 DEF Present
    <3>2. n >= head[q] \/ Held(q, n, DequeueStates)
      BY <2>2 DEF Present, Held, DequeueStates
    <3>3. Live(q, n)
      BY <3>1, <3>2 DEF Live
    <3>4. QED
      BY <3>3 DEF BlockInv, LiveInv
  <2>5. ~(q = p /\ n = i)
    <3>1. CASE n >= head[q]
      BY <1>2, <3>1 DEF ControlInv, ControlOK
    <3>2. CASE Held(q, n, {"move"})'
      BY <1>6, <3>2
    <3>3. QED
      BY <1>1, <3>1, <3>2 DEF Present
  <2>6. ASSUME entry[q][BlockNumber(n)] = b, Slot(n) = s PROVE FALSE
    <3>1. q = p /\ BlockNumber(n) = BlockNumber(i)
      BY <1>2, <2>1, <2>4, <2>6 DEF BlockInv, OwnerInv
    <3>2. n = i
      BY <1>2, <2>6, <3>1, SlotIsUnique
    <3>3. QED
      BY <2>5, <3>1, <3>2
  <2>7. QED
    BY <1>1, <1>2, <2>1, <2>3, <2>4, <2>6 DEF BlockInv, BlockTypes
<1>17. QED
  BY <1>4, <1>9, <1>10, <1>11, <1>12, <1>13, <1>14, <1>15, <1>16 DEF BlockInv

\* One more element of the block is emptied.
LEMMA OneMoreEmptied ==
  ASSUME ControlInv, NeverPastTail, BlockInv, NEW t \in Threads, pc[t] = "setEmpty",
         NEW to, to \notin {"move", "setEmpty"}, Moves(t, to), UNCHANGED head,
         \A u \in Threads : u # t => at'[u] = at[u] /\ index'[u] = index[u],
         NEW p \in Producers, p = at[t], NEW i \in Nat, i = index[t],
         NEW k \in BlockNumbers, k = BlockNumber(i)
  PROVE  /\ Cardinality(EmptiedOf(p, k))' = emptied[BlockOf(t)] + 1
         /\ \A q \in Producers : \A l \in BlockNumbers :
              ~(q = p /\ l = k) => EmptiedOf(q, l)' = EmptiedOf(q, l)
<1>1. /\ p \in Producers /\ i \in Nat /\ i < head[p] /\ head[p] \in Nat
      /\ BlockNumber(i) \in BlockNumbers /\ BlockOf(t) \in Blocks
      /\ BlockOf(t) = entry[p][BlockNumber(i)]
  BY AtBlock DEF BlockInv, DequeueStates, ControlInv, ControlOK
<1>2. pc'[t] = to /\ \A u \in Threads : u # t => pc'[u] = pc[u]
  BY DEF Moves, ControlInv, ControlOK
<1>3. \A q, n : Held(q, n, {"move", "setEmpty"})'
                  <=> Held(q, n, {"move", "setEmpty"}) /\ ~(q = p /\ n = i)
  BY <1>2 DEF Held, DequeueStates, BlockInv, IndexInv
<1>4. Held(p, i, {"move", "setEmpty"})
  BY DEF Held
<1>5. ASSUME NEW q \in Producers, NEW l \in BlockNumbers, ~(q = p /\ l = k)
      PROVE  EmptiedOf(q, l)' = EmptiedOf(q, l)
  <2>1. \A n \in InBlock(l) : ~(q = p /\ n = i)
    BY <1>5 DEF InBlock
  <2>2. QED
    BY <1>3, <2>1 DEF EmptiedOf
<1> DEFINE old == EmptiedOf(p, k)
<1>6. old \subseteq InBlock(k) /\ i \notin old
  BY <1>4 DEF EmptiedOf
<1>7. IsFiniteSet(old) /\ Cardinality(old) \in Nat
  BY <1>6, ItemsAre, BlockIsFull, FS_Subset, FS_CardinalityType
<1>8. EmptiedOf(p, k)' = old \cup {i}
  <2>1. i \in InBlock(k)
    BY DEF InBlock
  <2>2. ASSUME NEW n \in InBlock(k)
        PROVE  n < head[p] /\ ~Held(p, n, {"move", "setEmpty"})'
                 <=> n \in old \/ n = i
    <3>1. Held(p, n, {"move", "setEmpty"})' <=> Held(p, n, {"move", "setEmpty"}) /\ n # i
      BY <1>3
    <3>2. n \in old <=> n < head[p] /\ ~Held(p, n, {"move", "setEmpty"})
      BY DEF EmptiedOf
    <3>3. QED
      BY <1>1, <3>1, <3>2
  <2>3. EmptiedOf(p, k)' = {n \in InBlock(k) : n < head[p] /\ ~Held(p, n, {"move", "setEmpty"})'}
    BY DEF EmptiedOf
  <2>4. QED
    BY <1>6, <2>1, <2>2, <2>3
<1>9. Cardinality(old \cup {i}) = Cardinality(old) + 1
  BY <1>6, <1>7, FS_AddElement
<1>10. Cardinality(old) = emptied[BlockOf(t)]
  BY <1>1 DEF BlockInv, EmptiedInv
<1>11. QED
  BY <1>5, <1>8, <1>9, <1>10

\* Nobody has business in a block of which all elements are counted as emptied.
LEMMA FullBlock ==
  ASSUME BlockInv, NEW p \in Producers, NEW k \in BlockNumbers,
         entry[p][k] \in Blocks, emptied[entry[p][k]] = BlockSize
  PROVE  EmptiedOf(p, k) = InBlock(k)
<1>1. EmptiedOf(p, k) \subseteq InBlock(k)
  BY DEF EmptiedOf
<1>2. Cardinality(EmptiedOf(p, k)) = BlockSize
  BY DEF BlockInv, EmptiedInv
<1>3. IsFiniteSet(InBlock(k)) /\ Cardinality(InBlock(k)) = BlockSize
  BY ItemsAre, BlockIsFull
<1>4. QED
  BY <1>1, <1>2, <1>3, FS_Subset

LEMMA BlockEmptied ==
  ASSUME ControlInv, NeverPastTail, BlockInv, NEW t \in Threads, SetEmpty(t)
  PROVE  BlockInv'
<1> USE DEF Goto, elementVars, countVars, claimVars, lookVars
<1>1. PICK p \in Producers, i \in Nat, k \in BlockNumbers :
        p = at[t] /\ i = index[t] /\ k = BlockNumber(i)
  BY AtBlock DEF BlockInv, DequeueStates, SetEmpty
<1> DEFINE b == BlockOf(t)
<1>2. /\ pc[t] = "setEmpty" /\ i < head[p] /\ i < Quota[p]
      /\ b \in Blocks /\ b = entry[p][k] /\ <<p, i>> \in Items
  BY <1>1, AtBlock, ItemsAre DEF BlockInv, DequeueStates, SetEmpty
<1>3. PICK to \in {"retire", "idle"} :
        /\ Moves(t, to)
        /\ to = "retire" => UNCHANGED <<at, index, item, got>>
        /\ to = "idle" => ReturnItem(t)
        /\ to = "retire" => emptied[b] = BlockSize - 1
  BY DEF SetEmpty, Moves
<1>4. /\ emptied' = [emptied EXCEPT ![b] = emptied[b] + 1]
      /\ UNCHANGED <<head, tail, entry, slots, pool, free, unborn>>
  BY DEF SetEmpty
<1>5. /\ pc'[t] = to
      /\ \A u \in Threads : u # t => /\ pc'[u] = pc[u] /\ at'[u] = at[u]
                                     /\ index'[u] = index[u] /\ item'[u] = item[u]
                                     /\ got'[u] = got[u]
  BY <1>3 DEF Moves, ReturnItem, ControlInv, ControlOK, BlockInv, ItemTypes
<1>6. emptied[b] # BlockSize
  <2>1. Held(p, i, {"move", "setEmpty"})
    BY <1>1, <1>2 DEF Held
  <2>2. i \in InBlock(k) /\ i \notin EmptiedOf(p, k)
    BY <1>1, <2>1 DEF InBlock, EmptiedOf
  <2>3. QED
    BY <1>2, <2>2, FullBlock
<1>7. /\ emptied[b] \in Nat /\ emptied'[b] = emptied[b] + 1
      /\ \A c \in Blocks : c # b => emptied'[c] = emptied[c]
  BY <1>2, <1>4 DEF BlockInv, BlockTypes
<1>8. \A q, n : /\ Held(q, n, DequeueStates)' => Held(q, n, DequeueStates)
                /\ Held(q, n, {"move"})' => Held(q, n, {"move"})
  <2>1. \A u \in Threads : pc'[u] \in DequeueStates =>
          pc[u] \in DequeueStates /\ at'[u] = at[u] /\ index'[u] = index[u]
    BY <1>2, <1>3, <1>5 DEF DequeueStates
  <2>2. \A u \in Threads : pc'[u] = "move" =>
          pc[u] = "move" /\ at'[u] = at[u] /\ index'[u] = index[u]
    BY <1>3, <1>5
  <2>3. QED
    BY <2>1, <2>2 DEF Held
<1>9. \A q \in Producers : \A n : /\ Live(q, n)' => Live(q, n)
                                  /\ Present(q, n)' => Present(q, n)
  BY <1>3, <1>4, <1>5, <1>8 DEF Live, Present, Threads
<1>10. /\ Cardinality(EmptiedOf(p, k))' = emptied[b] + 1
       /\ \A q \in Producers : \A l \in BlockNumbers :
            ~(q = p /\ l = k) => EmptiedOf(q, l)' = EmptiedOf(q, l)
  <2>1. to \notin {"move", "setEmpty"} /\ UNCHANGED head
        /\ \A u \in Threads : u # t => at'[u] = at[u] /\ index'[u] = index[u]
    BY <1>3, <1>4, <1>5
  <2>2. QED
    BY <1>1, <1>2, <1>3, <2>1, OneMoreEmptied
<1>11. \A u \in Threads : u # t /\ pc[u] = "retire" => BlockOf(u) # b
  BY <1>6 DEF BlockInv, RetireInv
<1>12. \A u \in Threads : pc'[u] \in DequeueStates =>
         pc[u] \in DequeueStates /\ at'[u] = at[u] /\ index'[u] = index[u]
  BY <1>2, <1>3, <1>5 DEF DequeueStates
<1>13. IndexInv'
  BY <1>4, <1>12 DEF BlockInv, IndexInv
<1>14. BlockTypes'
  BY <1>2, <1>4, <1>7 DEF BlockInv, BlockTypes
<1>15. OwnerInv'
  BY <1>4 DEF BlockInv, OwnerInv
<1>16. LiveInv' /\ ContentInv'
  BY <1>4, <1>9 DEF BlockInv, LiveInv, ContentInv
<1>17. EmptiedInv'
  <2> SUFFICES ASSUME NEW q \in Producers, NEW l \in BlockNumbers, entry[q][l] \in Blocks
               PROVE  emptied'[entry[q][l]] = Cardinality(EmptiedOf(q, l))'
    BY <1>4 DEF EmptiedInv
  <2>1. CASE q = p /\ l = k
    BY <1>2, <1>7, <1>10, <2>1
  <2>2. CASE ~(q = p /\ l = k)
    <3>1. entry[q][l] # b
      BY <1>2, <2>2 DEF BlockInv, OwnerInv
    <3>2. emptied'[entry[q][l]] = emptied[entry[q][l]]
      BY <1>7, <3>1
    <3>3. emptied[entry[q][l]] = Cardinality(EmptiedOf(q, l))
      BY DEF BlockInv, EmptiedInv
    <3>4. QED
      BY <1>10, <2>2, <3>2, <3>3
  <2>3. QED
    BY <2>1, <2>2
<1>18. RetireInv'
  <2>1. ASSUME NEW u \in Threads, pc'[u] = "retire", u # t
        PROVE  /\ pc[u] = "retire" /\ BlockOf(u)' = BlockOf(u) /\ BlockOf(u) # b
               /\ BlockOf(u) \in Blocks /\ emptied'[BlockOf(u)] = BlockSize
    <3>1. pc[u] = "retire" /\ BlockOf(u)' = BlockOf(u) /\ BlockOf(u) # b
      BY <1>4, <1>5, <1>11, <2>1 DEF BlockOf
    <3>2. BlockOf(u) \in Blocks
      BY <3>1, AtBlock DEF BlockInv, DequeueStates
    <3>3. QED
      BY <1>7, <3>1, <3>2 DEF BlockInv, RetireInv
  <2>2. ASSUME pc'[t] = "retire"
        PROVE  BlockOf(t)' = b /\ emptied'[b] = BlockSize
               /\ at'[t] = at[t] /\ index'[t] = index[t]
    BY <1>3, <1>4, <1>5, <1>7, <2>2, QueueAssumption DEF BlockOf
  <2>3. \A u \in Threads : pc'[u] = "retire" => emptied'[BlockOf(u)'] = BlockSize
    BY <2>1, <2>2
  <2>4. ASSUME NEW u \in Threads, NEW v \in Threads,
               pc'[u] = "retire", pc'[v] = "retire", at'[u] = at'[v],
               BlockNumber(index'[u]) = BlockNumber(index'[v])
        PROVE  u = v
    <3>1. BlockOf(u)' = BlockOf(v)'
      BY <1>4, <2>4 DEF BlockOf
    <3>2. CASE u = t \/ v = t
      BY <2>1, <2>2, <2>4, <3>1, <3>2
    <3>3. CASE u # t /\ v # t
      BY <1>5, <2>4, <3>3 DEF BlockInv, RetireInv
    <3>4. QED
      BY <3>2, <3>3
  <2>5. QED
    BY <2>3, <2>4 DEF RetireInv
<1>19. item[t] = <<p, i>>
  BY <1>1, <1>2 DEF BlockInv, ItemInv
<1>20. ItemTypes' /\ ItemInv'
  <2>1. CASE to = "retire"
    BY <1>1, <1>3, <1>4, <1>5, <1>19, <2>1 DEF BlockInv, ItemTypes, ItemInv
  <2>2. CASE to = "idle"
    <3>1. got' = [got EXCEPT ![t] = got[t] \cup {item[t]}] /\ item' = [item EXCEPT ![t] = Raw]
      BY <1>3, <2>2 DEF ReturnItem
    <3>2. ItemTypes'
      BY <1>2, <1>19, <3>1 DEF BlockInv, ItemTypes
    <3>3. \A u \in Threads : pc'[u] \in {"setEmpty", "retire"} =>
            item'[u] = <<at'[u], index'[u]>>
      BY <1>5, <2>2 DEF BlockInv, ItemInv
    <3>4. \A u \in Threads : \A x \in got'[u] : x \in Items /\ x[2] < head[x[1]]
      <4>1. \A u \in Threads : got'[u] \subseteq got[u] \cup {<<p, i>>}
        BY <1>19, <3>1 DEF BlockInv, ItemTypes
      <4>2. QED
        BY <1>2, <4>1 DEF BlockInv, ItemInv
    <3>5. QED
      BY <1>4, <3>2, <3>3, <3>4 DEF ItemInv
  <2>3. QED
    BY <2>1, <2>2
<1>21. QED
  BY <1>13, <1>14, <1>15, <1>16, <1>17, <1>18, <1>20 DEF BlockInv

LEMMA BlockRetired ==
  ASSUME ControlInv, NeverPastTail, BlockInv, NEW t \in Threads, RetireBlock(t)
  PROVE  BlockInv'
<1> USE DEF Goto, elementVars, countVars, claimVars, lookVars
<1>1. PICK p \in Producers, i \in Nat, k \in BlockNumbers :
        p = at[t] /\ i = index[t] /\ k = BlockNumber(i)
  BY AtBlock DEF BlockInv, DequeueStates, RetireBlock
<1> DEFINE b == BlockOf(t)
<1>2. /\ pc[t] = "retire" /\ i < head[p] /\ i < Quota[p]
      /\ b \in Blocks /\ b = entry[p][k] /\ <<p, i>> \in Items
  BY <1>1, AtBlock, ItemsAre DEF BlockInv, DequeueStates, RetireBlock
<1>3. /\ Moves(t, "idle") /\ ReturnItem(t)
      /\ entry' = [entry EXCEPT ![p][k] = NoBlock] /\ free' = free \cup {b}
      /\ UNCHANGED <<head, tail, slots, emptied, pool, unborn>>
  BY <1>1 DEF RetireBlock, Moves
<1>4. /\ pc'[t] = "idle"
      /\ \A u \in Threads : u # t => /\ pc'[u] = pc[u] /\ at'[u] = at[u]
                                     /\ index'[u] = index[u] /\ item'[u] = item[u]
                                     /\ got'[u] = got[u]
  BY <1>3 DEF Moves, ReturnItem, ControlInv, ControlOK, BlockInv, ItemTypes
<1>5. EmptiedOf(p, k) = InBlock(k)
  <2>1. emptied[b] = BlockSize
    BY <1>2 DEF BlockInv, RetireInv
  <2>2. QED
    BY <1>2, <2>1, FullBlock
<1>6. \A q \in Producers : \A l \in BlockNumbers :
        entry'[q][l] = IF q = p /\ l = k THEN NoBlock ELSE entry[q][l]
  BY <1>3 DEF BlockInv, BlockTypes
<1>7. \A q, n : /\ Held(q, n, DequeueStates)' => Held(q, n, DequeueStates)
                /\ Held(q, n, {"move"})' => Held(q, n, {"move"})
                /\ Held(q, n, {"move", "setEmpty"})' <=> Held(q, n, {"move", "setEmpty"})
  BY <1>2, <1>4 DEF Held, DequeueStates
<1>8. \A q \in Producers : \A n : /\ Live(q, n)' => Live(q, n)
                                  /\ Present(q, n)' => Present(q, n)
  BY <1>3, <1>4, <1>7 DEF Live, Present, Threads
\* Nobody else is at the block, so none of its elements is live.
<1>9. \A n \in Nat : BlockNumber(n) = k => ~Live(p, n)' /\ ~Present(p, n)'
  <2> SUFFICES ASSUME NEW n \in Nat, BlockNumber(n) = k
               PROVE  ~Live(p, n)' /\ ~Present(p, n)'
    OBVIOUS
  <2>1. n < head[p] /\ ~Held(p, n, {"move", "setEmpty"})
    BY <1>5 DEF EmptiedOf, InBlock
  <2>2. ~(n >= head'[p])
    BY <1>3, <2>1 DEF ControlInv, ControlOK
  <2>3. ~Held(p, n, DequeueStates)'
    <3> SUFFICES ASSUME NEW u \in Threads, at'[u] = p, index'[u] = n,
                        pc'[u] \in DequeueStates
                 PROVE  FALSE
      BY DEF Held
    <3>1. u # t
      BY <1>4 DEF DequeueStates
    <3>2. pc[u] \in DequeueStates /\ at[u] = p /\ index[u] = n
      BY <1>4, <3>1
    <3>3. pc[u] = "retire"
      BY <2>1, <3>2 DEF Held, DequeueStates
    <3>4. QED
      BY <1>1, <1>2, <3>1, <3>2, <3>3 DEF BlockInv, RetireInv
  <2>4. ~Held(p, n, {"move"})'
    BY <2>3 DEF Held, DequeueStates
  <2>5. QED
    BY <2>2, <2>3, <2>4 DEF Live, Present
<1>10. IndexInv'
  <2>1. \A u \in Threads : pc'[u] \in DequeueStates =>
          pc[u] \in DequeueStates /\ at'[u] = at[u] /\ index'[u] = index[u]
    BY <1>4 DEF DequeueStates
  <2>2. QED
    BY <1>3, <2>1 DEF BlockInv, IndexInv
<1>11. BlockTypes'
  BY <1>2, <1>3 DEF BlockInv, BlockTypes
<1>12. OwnerInv'
  <2>1. NoBlock \notin Blocks /\ pool \subseteq Blocks /\ free \subseteq Blocks /\ unborn \subseteq Blocks
    BY QueueAssumption DEF BlockInv, BlockTypes
  <2>2. b \notin pool /\ b \notin unborn
    BY <1>2 DEF BlockInv, OwnerInv
  <2>3. \A q \in Producers : \A l \in BlockNumbers :
          entry'[q][l] \notin pool' \cup free' \cup unborn'
    <3> SUFFICES ASSUME NEW q \in Producers, NEW l \in BlockNumbers
                 PROVE  entry'[q][l] \notin pool \cup (free \cup {b}) \cup unborn
      BY <1>3
    <3>1. CASE q = p /\ l = k
      BY <1>2, <1>6, <2>1, <3>1
    <3>2. CASE ~(q = p /\ l = k)
      BY <1>2, <1>6, <3>2 DEF BlockInv, OwnerInv
    <3>3. QED
      BY <3>1, <3>2
  <2>4. \A q, r \in Producers : \A j, l \in BlockNumbers :
          entry'[q][j] \in Blocks /\ entry'[q][j] = entry'[r][l] => q = r /\ j = l
    BY <1>6, <2>1 DEF BlockInv, OwnerInv
  <2>5. pool' \cap free' = {} /\ pool' \cap unborn' = {} /\ free' \cap unborn' = {}
    BY <1>3, <2>2 DEF BlockInv, OwnerInv
  <2>6. QED
    BY <2>3, <2>4, <2>5 DEF OwnerInv
<1>13. LiveInv'
  BY <1>6, <1>8, <1>9, ItemsAre DEF BlockInv, LiveInv
<1>14. ContentInv'
  <2> SUFFICES ASSUME NEW q \in Producers, NEW n \in Nat, n < Quota[q], Present(q, n)'
               PROVE  slots[entry'[q][BlockNumber(n)]][Slot(n)] = <<q, n>>
    BY <1>3 DEF ContentInv
  <2>1. Present(q, n) /\ BlockNumber(n) \in BlockNumbers /\ ~(q = p /\ BlockNumber(n) = k)
    BY <1>8, <1>9, ItemsAre
  <2>2. entry'[q][BlockNumber(n)] = entry[q][BlockNumber(n)]
    BY <1>6, <2>1
  <2>3. QED
    BY <2>1, <2>2 DEF BlockInv, ContentInv
<1>15. EmptiedInv'
  <2>1. \A q, l : EmptiedOf(q, l)' = EmptiedOf(q, l)
    BY <1>3, <1>7 DEF EmptiedOf
  <2>2. NoBlock \notin Blocks
    BY QueueAssumption
  <2>3. QED
    BY <1>3, <1>6, <2>1, <2>2 DEF BlockInv, EmptiedInv
<1>16. RetireInv'
  <2>1. ASSUME NEW u \in Threads, pc'[u] = "retire"
        PROVE  /\ u # t /\ pc[u] = "retire" /\ at'[u] = at[u] /\ index'[u] = index[u]
               /\ BlockOf(u)' = BlockOf(u)
    <3>1. u # t /\ pc[u] = "retire" /\ at'[u] = at[u] /\ index'[u] = index[u]
      BY <1>4, <2>1
    <3>2. at[u] \in Producers /\ BlockNumber(index[u]) \in BlockNumbers
      BY <3>1, AtBlock DEF BlockInv, DequeueStates
    <3>3. ~(at[u] = p /\ BlockNumber(index[u]) = k)
      BY <1>1, <1>2, <3>1 DEF BlockInv, RetireInv
    <3>4. QED
      BY <1>6, <3>1, <3>2, <3>3 DEF BlockOf
  <2>2. QED
    BY <1>3, <2>1 DEF BlockInv, RetireInv
<1>17. item[t] = <<p, i>>
  BY <1>1, <1>2 DEF BlockInv, ItemInv
<1>18. ItemTypes' /\ ItemInv'
  <2>1. got' = [got EXCEPT ![t] = got[t] \cup {item[t]}] /\ item' = [item EXCEPT ![t] = Raw]
    BY <1>3 DEF ReturnItem
  <2>2. ItemTypes'
    BY <1>2, <1>17, <2>1 DEF BlockInv, ItemTypes
  <2>3. \A u \in Threads : pc'[u] \in {"setEmpty", "retire"} =>
          item'[u] = <<at'[u], index'[u]>>
    BY <1>4 DEF BlockInv, ItemInv
  <2>4. \A u \in Threads : \A x \in got'[u] : x \in Items /\ x[2] < head[x[1]]
    <3>1. \A u \in Threads : got'[u] \subseteq got[u] \cup {<<p, i>>}
      BY <1>17, <2>1 DEF BlockInv, ItemTypes
    <3>2. QED
      BY <1>2, <3>1 DEF BlockInv, ItemInv
  <2>5. QED
    BY <1>3, <2>2, <2>3, <2>4 DEF ItemInv
<1>19. QED
  BY <1>10, <1>11, <1>12, <1>13, <1>14, <1>15, <1>16, <1>18 DEF BlockInv

LEMMA BlockStep ==
  ASSUME ControlInv, NeverPastTail, BlockInv, [Next]_vars
  PROVE  BlockInv'
<1> USE DEF Goto, countVars, elementVars, semaVars, lookVars, claimVars
<1>0. CASE UNCHANGED vars
  BY <1>0, OffBlocks DEF vars
\* Steps that take no thread to a block or away from one.
<1>1. ASSUME NEW t \in Threads, NEW to, Moves(t, to),
             to \notin DequeueStates \cup {"write", "publish"},
             pc[t] \notin DequeueStates \cup {"write", "publish"},
             UNCHANGED <<elementVars, head, tail, index, item, got>>,
             \A u \in Threads : u # t => at'[u] = at[u]
      PROVE  BlockInv'
  <2>1. \A u \in Threads : pc'[u] = IF u = t THEN to ELSE pc[u]
    BY <1>1 DEF Moves, ControlInv, ControlOK
  <2>2. QED
    BY <1>1, <2>1, OffBlocks
<1>2. ASSUME NEW t \in Threads, GetProducer(t) \/ Signal(t) \/ Post(t)
      PROVE  BlockInv'
  <2>1. PICK to \in {"enqueue", "post", "idle"} :
          Moves(t, to) /\ pc[t] \in {"idle", "signal", "post"}
    BY <1>2 DEF GetProducer, Signal, Post, Moves
  <2>2. UNCHANGED <<elementVars, head, tail, at, index, item, got>>
    BY <1>2 DEF GetProducer, Signal, Post
  <2>3. QED
    BY <1>1, <2>1, <2>2 DEF DequeueStates
<1>3. ASSUME NEW t \in Threads,
             WaitSemaphore(t) \/ WakeUp(t) \/ PickBest(t) \/ ReadOvercommit(t)
               \/ Filter(t) \/ Claim(t) \/ Check(t) \/ GiveUp(t) \/ NextProducer(t)
      PROVE  BlockInv'
  <2>1. PICK to \in {"sleep"} \cup SearchStates :
          Moves(t, to) /\ pc[t] \in {"idle", "sleep"} \cup SearchStates
    BY <1>3 DEF WaitSemaphore, WakeUp, PickBest, ReadOvercommit, Filter, Claim, Check,
                GiveUp, NextProducer, Moves, SearchStates
  <2>2. UNCHANGED <<elementVars, head, tail, index, item, got>>
    BY <1>3 DEF WaitSemaphore, WakeUp, PickBest, ReadOvercommit, Filter, Claim, Check,
                GiveUp, NextProducer
  <2>3. \A u \in Threads : u # t => at'[u] = at[u]
    BY <1>3 DEF WaitSemaphore, WakeUp, PickBest, ReadOvercommit, Filter, Claim, Check,
                GiveUp, NextProducer, ControlInv, ControlOK
  <2>4. /\ to \notin DequeueStates \cup {"write", "publish"}
        /\ pc[t] \notin DequeueStates \cup {"write", "publish"}
    BY <2>1 DEF SearchStates, DequeueStates
  <2>5. QED
    BY <1>1, <2>1, <2>2, <2>3, <2>4
<1>4. QED
  BY <1>0, <1>2, <1>3, BlockStart, ElementWritten, ElementPublished, IndexTaken,
     ElementMoved, BlockEmptied, BlockRetired
     DEF Next, EnqueueStep, DequeueStep, Quiet

QueueInv == ControlInv /\ ClaimInv /\ BlockInv

LEMMA QueueInvariant == Spec => []QueueInv
<1>1. Init => QueueInv
  BY ControlInit, ClaimInit, BlockInit DEF QueueInv
<1>2. QueueInv /\ [Next]_vars => QueueInv'
  BY ControlStep, ClaimStep, BlockStep, ClaimsImplyTail DEF QueueInv
<1>3. QED
  BY <1>1, <1>2, PTL DEF Spec

\* No claim, index, block number or count of a block leaves its range, however
\* many threads enqueue and dequeue; in particular a consumer that has an index
\* always finds its block in the producer's index.
THEOREM TypeCorrect == Spec => []TypeOK
<1>1. QueueInv => TypeOK
  BY DEF QueueInv, ControlInv, ControlOK, BlockInv, BlockTypes, ItemTypes, TypeOK, States
<1>2. QED
  BY <1>1, QueueInvariant, PTL

-----------------------------------------------------------------------------
(* The queue is a bag.                                                     *)

content == {x \in Items : head[x[1]] <= x[2] /\ x[2] < tail[x[1]]}
taken   == [t \in Threads |-> got[t] \cup Holding(t)]

LEMMA BagStart == Init => Bag!BagInit
<1> SUFFICES ASSUME Init PROVE Bag!BagInit
  OBVIOUS
<1>1. content = {}
  BY DEF Init, content, Items
<1>2. taken = [t \in Threads |-> {}]
  BY DEF Init, taken, Holding
<1>3. QED
  BY <1>1, <1>2 DEF Bag!BagInit, content, taken

\* Elements a consumer holds are past the head.
LEMMA TakenArePast ==
  ASSUME QueueInv, NEW t \in Threads, NEW x \in taken[t]
  PROVE  x \in Items /\ x[2] < head[x[1]]
<1>1. CASE x \in got[t]
  BY <1>1 DEF QueueInv, BlockInv, ItemInv
<1>2. CASE x \in Holding(t)
  <2>1. pc[t] \in DequeueStates /\ x = <<at[t], index[t]>>
    BY <1>2 DEF Holding, DequeueStates, QueueInv, BlockInv, ItemInv
  <2>2. QED
    BY <2>1, AtBlock, ItemsAre, ClaimsImplyTail DEF QueueInv, BlockInv
<1>3. QED
  BY <1>1, <1>2 DEF taken

\* A consumer that does nothing holds what it held.
LEMMA SameHolding ==
  ASSUME NEW u \in Threads, pc'[u] = pc[u], at'[u] = at[u], index'[u] = index[u],
         item'[u] = item[u]
  PROVE  Holding(u)' = Holding(u)
BY DEF Holding

\* A step that moves no index, and after which everybody has what he had.
LEMMA BagStutter ==
  ASSUME UNCHANGED <<head, tail>>,
         \A u \in Threads : got'[u] \cup Holding(u)' = got[u] \cup Holding(u)
  PROVE  UNCHANGED Bag!bagVars
<1>1. content' = content
  BY DEF content
<1>2. taken' = taken
  BY DEF taken
<1>3. QED
  BY <1>1, <1>2 DEF Bag!bagVars, content, taken

LEMMA BagPut ==
  ASSUME QueueInv, NEW t \in Threads, Publish(t)
  PROVE  \E x \in Items : Bag!Put(x)
<1> USE DEF Goto, elementVars, countVars, claimVars, lookVars
<1>1. /\ pc[t] = "publish" /\ pc' = [pc EXCEPT ![t] = "signal"]
      /\ tail' = [tail EXCEPT ![t] = tail[t] + 1]
      /\ UNCHANGED <<head, at, index, item, got>>
  BY DEF Publish
<1>2. PICK x \in Items :
      /\ x = <<t, tail[t]>>
      /\ t \in Producers /\ tail[t] \in Nat /\ head[t] \in Nat /\ head[t] <= tail[t]
      /\ tail'[t] = tail[t] + 1
      /\ \A p \in Producers : p # t => tail'[p] = tail[p]
  BY <1>1, AtTail, ClaimsImplyTail DEF QueueInv, ControlInv, ControlOK
<1>3. x \notin content
  BY <1>2 DEF content
<1>4. ASSUME NEW u \in Threads PROVE x \notin taken[u]
  BY <1>2, TakenArePast
<1>5. content' = content \cup {x}
  <2>1. ASSUME NEW y \in Items
        PROVE  y \in content' <=> y \in content \/ y = x
    <3>1. y[1] \in Producers /\ y[2] \in Nat /\ y = <<y[1], y[2]>>
      BY ItemsAre
    <3>2. CASE y[1] = t
      BY <1>1, <1>2, <3>1, <3>2 DEF content
    <3>3. CASE y[1] # t
      BY <1>1, <1>2, <3>1, <3>3 DEF content
    <3>4. QED
      BY <3>2, <3>3
  <2>2. content \subseteq Items /\ content' \subseteq Items
    BY DEF content
  <2>3. QED
    BY <1>2, <2>1, <2>2
<1>6. taken' = taken
  <2>1. ASSUME NEW u \in Threads PROVE Holding(u)' = Holding(u)
    <3>1. pc'[u] = IF u = t THEN "signal" ELSE pc[u]
      BY <1>1 DEF QueueInv, ControlInv, ControlOK
    <3>2. QED
      BY <1>1, <3>1 DEF Holding
  <2>2. QED
    BY <1>1, <2>1 DEF taken
<1>7. Bag!Put(x)
  <2>1. x \notin content \cup UNION {taken[u] : u \in Threads}
    BY <1>3, <1>4
  <2>2. QED
    BY <1>5, <1>6, <2>1 DEF Bag!Put, Bag!EverPut, content, taken
<1>8. QED
  BY <1>2, <1>7

LEMMA BagTake ==
  ASSUME QueueInv, NEW t \in Threads, TakeIndex(t)
  PROVE  \E x \in Items : Bag!Take(t, x)
<1> USE DEF Goto, elementVars, countVars, claimVars, lookVars
<1>1. PICK p \in Producers, i \in Nat : p = at[t] /\ i = head[p]
  BY DEF TakeIndex, QueueInv, ControlInv, ControlOK, PlaceOK, AtStates
<1>2. /\ pc[t] = "take" /\ pc' = [pc EXCEPT ![t] = "move"]
      /\ index' = [index EXCEPT ![t] = i]
      /\ head' = [head EXCEPT ![p] = i + 1]
      /\ UNCHANGED <<tail, at, item, got>>
  BY <1>1 DEF TakeIndex
<1>3. /\ head'[p] = i + 1 /\ \A q \in Producers : q # p => head'[q] = head[q]
      /\ pc'[t] = "move" /\ index'[t] = i
      /\ \A u \in Threads : u # t => pc'[u] = pc[u] /\ index'[u] = index[u]
  BY <1>1, <1>2 DEF QueueInv, ControlInv, ControlOK
<1>4. i < tail[p] /\ tail[p] \in Nat /\ tail[p] <= Quota[p] /\ Quota[p] \in Nat
  <2>1. tail[p] \in Nat /\ tail[p] <= Quota[p] /\ Quota[p] \in Nat
    BY ItemsAre DEF QueueInv, ControlInv, ControlOK, PlaceOK
  <2>2. t \in Takers(p)
    BY <1>1, <1>2 DEF Takers
  <2>3. IsFiniteSet(Takers(p)) /\ Cardinality(Takers(p)) \in Nat
    BY TakersFinite
  <2>4. Cardinality(Takers(p)) # 0
    BY <2>2, <2>3, FS_EmptySet
  <2>5. i + Cardinality(Takers(p)) <= tail[p]
    BY <1>1, ClaimsImplyTail DEF QueueInv, NeverPastTail
  <2>6. QED
    BY <2>1, <2>3, <2>4, <2>5
<1> DEFINE x == <<p, i>>
<1>5. x \in Items /\ x \in content
  <2>1. x \in Items
    BY <1>4, ItemsAre
  <2>2. QED
    BY <1>1, <1>4, <2>1 DEF content
<1>6. content' = content \ {x}
  <2>1. ASSUME NEW y \in Items
        PROVE  y \in content' <=> y \in content /\ y # x
    <3>1. y[1] \in Producers /\ y[2] \in Nat /\ y = <<y[1], y[2]>>
      BY ItemsAre
    <3>2. CASE y[1] = p
      BY <1>1, <1>2, <1>3, <3>1, <3>2 DEF content
    <3>3. CASE y[1] # p
      BY <1>1, <1>2, <1>3, <3>1, <3>3 DEF content
    <3>4. QED
      BY <3>2, <3>3
  <2>2. content \subseteq Items /\ content' \subseteq Items
    BY DEF content
  <2>3. QED
    BY <2>1, <2>2
<1>7. taken' = [taken EXCEPT ![t] = @ \cup {x}]
  <2>1. ASSUME NEW u \in Threads
        PROVE  Holding(u)' = IF u = t THEN Holding(u) \cup {x} ELSE Holding(u)
    <3>1. CASE u = t
      <4>1. Holding(u) = {} /\ Holding(u)' = {<<at'[t], index'[t]>>}
        BY <1>2, <1>3, <3>1 DEF Holding
      <4>2. QED
        BY <1>1, <1>2, <1>3, <3>1, <4>1
    <3>2. CASE u # t
      BY <1>2, <1>3, <3>2 DEF Holding
    <3>3. QED
      BY <3>1, <3>2
  <2>2. \A u \in Threads : got'[u] \cup Holding(u)'
          = IF u = t THEN (got[u] \cup Holding(u)) \cup {x} ELSE got[u] \cup Holding(u)
    BY <1>2, <2>1
  <2>3. QED
    BY <2>2 DEF taken
<1>8. Bag!Take(t, x)
  BY <1>5, <1>6, <1>7 DEF Bag!Take, content, taken
<1>9. QED
  BY <1>5, <1>8

\* A step of one consumer that keeps what he has.
LEMMA BagKept ==
  ASSUME NEW t \in Threads,
         UNCHANGED <<head, tail>>,
         got'[t] \cup Holding(t)' = got[t] \cup Holding(t),
         \A u \in Threads : u # t =>
           /\ pc'[u] = pc[u] /\ at'[u] = at[u] /\ index'[u] = index[u]
           /\ item'[u] = item[u] /\ got'[u] = got[u]
  PROVE  UNCHANGED Bag!bagVars
<1>1. \A u \in Threads : u # t => Holding(u)' = Holding(u)
  BY SameHolding
<1>2. QED
  BY <1>1, BagStutter

LEMMA BagReturn ==
  ASSUME QueueInv, NEW t \in Threads, SetEmpty(t) \/ RetireBlock(t)
  PROVE  UNCHANGED Bag!bagVars
<1> USE DEF Goto, elementVars, countVars, claimVars, lookVars
<1>1. PICK to \in {"retire", "idle"} : pc' = [pc EXCEPT ![t] = to]
        /\ IF to = "retire" THEN UNCHANGED <<at, index, item, got>> ELSE ReturnItem(t)
  BY DEF SetEmpty, RetireBlock
<1>2. UNCHANGED <<head, tail>> /\ pc[t] \in {"setEmpty", "retire"}
  BY DEF SetEmpty, RetireBlock
<1>3. pc'[t] = to /\ Holding(t) = {item[t]}
      /\ \A u \in Threads : u # t =>
           /\ pc'[u] = pc[u] /\ at'[u] = at[u] /\ index'[u] = index[u]
           /\ item'[u] = item[u] /\ got'[u] = got[u]
  <2>1. pc'[t] = to /\ \A u \in Threads : u # t => pc'[u] = pc[u]
    BY <1>1 DEF QueueInv, ControlInv, ControlOK
  <2>2. Holding(t) = {item[t]}
    BY <1>2 DEF Holding
  <2>3. \A u \in Threads : u # t => at'[u] = at[u] /\ index'[u] = index[u]
                                    /\ item'[u] = item[u] /\ got'[u] = got[u]
    BY <1>1 DEF ReturnItem, QueueInv, ControlInv, ControlOK, BlockInv, ItemTypes
  <2>4. QED
    BY <2>1, <2>2, <2>3
<1>4. got'[t] \cup Holding(t)' = got[t] \cup Holding(t)
  <2>1. CASE to = "retire"
    BY <1>1, <1>3, <2>1 DEF Holding
  <2>2. CASE to = "idle"
    <3>1. got'[t] = got[t] \cup {item[t]}
      BY <1>1, <2>2 DEF ReturnItem, QueueInv, BlockInv, ItemTypes
    <3>2. Holding(t)' = {}
      BY <1>3, <2>2 DEF Holding
    <3>3. QED
      BY <1>3, <3>1, <3>2
  <2>3. QED
    BY <2>1, <2>2
<1>5. QED
  BY <1>2, <1>3, <1>4, BagKept

LEMMA BagMove ==
  ASSUME QueueInv, NEW t \in Threads, MoveElement(t)
  PROVE  UNCHANGED Bag!bagVars
<1> USE DEF Goto, elementVars, countVars, claimVars, lookVars
<1>1. /\ pc[t] = "move" /\ pc' = [pc EXCEPT ![t] = "setEmpty"]
      /\ UNCHANGED <<head, tail, at, index, got>>
      /\ \A u \in Threads : u # t => item'[u] = item[u]
  BY DEF MoveElement, QueueInv, BlockInv, ItemTypes
<1>2. pc'[t] = "setEmpty" /\ \A u \in Threads : u # t => pc'[u] = pc[u]
  BY <1>1 DEF QueueInv, ControlInv, ControlOK
<1>3. item'[t] = <<at[t], index[t]>>
  BY ElementMoved, ClaimsImplyTail DEF QueueInv
<1>4. Holding(t) = {<<at[t], index[t]>>} /\ Holding(t)' = {<<at[t], index[t]>>}
  BY <1>1, <1>2, <1>3 DEF Holding
<1>5. QED
  BY <1>1, <1>2, <1>4, BagKept

\* Every other step happens where nobody has an index.
LEMMA BagElsewhere ==
  ASSUME QueueInv, NEW t \in Threads,
         \/ GetProducer(t) \/ StartBlock(t) \/ WriteElement(t) \/ Signal(t) \/ Post(t)
         \/ WaitSemaphore(t) \/ WakeUp(t) \/ PickBest(t) \/ ReadOvercommit(t)
         \/ Filter(t) \/ Claim(t) \/ Check(t) \/ GiveUp(t) \/ NextProducer(t)
  PROVE  UNCHANGED Bag!bagVars
<1> USE DEF Goto, elementVars, countVars, semaVars, claimVars, lookVars
<1>1. PICK to \in {"sleep"} \cup EnqueueStates \cup SearchStates \cup {"idle"} :
        pc' = [pc EXCEPT ![t] = to] /\ pc[t] \notin DequeueStates
  BY DEF GetProducer, StartBlock, WriteElement, Signal, Post, WaitSemaphore, WakeUp,
         PickBest, ReadOvercommit, Filter, Claim, Check, GiveUp, NextProducer,
         EnqueueStates, SearchStates, DequeueStates
<1>2. UNCHANGED <<head, index, item, got, tail>>
  BY DEF GetProducer, StartBlock, WriteElement, Signal, Post, WaitSemaphore, WakeUp,
         PickBest, ReadOvercommit, Filter, Claim, Check, GiveUp, NextProducer
<1>3. \A u \in Threads : u # t => at'[u] = at[u]
  BY DEF GetProducer, StartBlock, WriteElement, Signal, Post, WaitSemaphore, WakeUp,
         PickBest, ReadOvercommit, Filter, Claim, Check, GiveUp, NextProducer,
         QueueInv, ControlInv, ControlOK
<1>4. pc'[t] = to /\ to \notin DequeueStates
      /\ \A u \in Threads : u # t => pc'[u] = pc[u]
  BY <1>1 DEF EnqueueStates, SearchStates, DequeueStates, QueueInv, ControlInv, ControlOK
<1>5. Holding(t) = {} /\ Holding(t)' = {}
  BY <1>1, <1>4 DEF Holding, DequeueStates
<1>6. QED
  BY <1>2, <1>3, <1>4, <1>5, BagKept

\* The bag gets an element when its producer shows it and loses it when a consumer
\* takes its index; no other step is seen.
LEMMA BagStep == QueueInv /\ [Next]_vars => [Bag!BagNext]_(Bag!bagVars)
<1> SUFFICES ASSUME QueueInv, [Next]_vars PROVE [Bag!BagNext]_(Bag!bagVars)
  OBVIOUS
<1>1. CASE UNCHANGED vars
  <2>1. UNCHANGED <<head, tail, pc, at, index, item, got>>
    BY <1>1 DEF vars, countVars, lookVars, claimVars
  <2>2. \A u \in Threads : got'[u] \cup Holding(u)' = got[u] \cup Holding(u)
    BY <2>1, SameHolding
  <2>3. QED
    BY <2>1, <2>2, BagStutter
<1>2. ASSUME NEW t \in Threads, Publish(t) PROVE Bag!BagNext
  BY <1>2, BagPut DEF Bag!BagNext
<1>3. ASSUME NEW t \in Threads, TakeIndex(t) PROVE Bag!BagNext
  <2>1. \E x \in Items : Bag!Take(t, x)
    BY <1>3, BagTake
  <2>2. Bag!TakeAny
    BY <2>1 DEF Bag!TakeAny
  <2>3. QED
    BY <2>2 DEF Bag!BagNext
<1>4. QED
  BY <1>1, <1>2, <1>3, BagMove, BagReturn, BagElsewhere
     DEF Next, EnqueueStep, DequeueStep, Quiet

\* Whatever the claims, retries and reuses of blocks, every element that is
\* enqueued is handed to at most one consumer, and it is the element that was
\* enqueued.  That it is taken in the end, the fairness of ImplementsFairBag,
\* is checked by TLC.
THEOREM QueueImplementsBag == Spec => Bag!BagSpec
<1>1. Init => Bag!BagInit
  BY BagStart
<1>2. QueueInv /\ [Next]_vars => [Bag!BagNext]_(Bag!bagVars)
  BY BagStep
<1>3. QED
  BY <1>1, <1>2, QueueInvariant, PTL DEF Spec, Bag!BagSpec

-----------------------------------------------------------------------------
(* The queue's use of the free list, which BlockFreeList implements.       *)

FreeSet == INSTANCE FreeBlocks

\* A block of the index is not free, so it is put on the list once.
LEMMA FreeSetStep == QueueInv /\ [Next]_vars => [FreeSet!Next]_free
<1> SUFFICES ASSUME QueueInv, [Next]_vars PROVE [FreeSet!Next]_free
  OBVIOUS
<1>1. ASSUME NEW t \in Threads, RetireBlock(t) PROVE FreeSet!Next
  <2>1. PICK p \in Producers, k \in BlockNumbers :
          BlockOf(t) = entry[p][k] /\ BlockOf(t) \in Blocks
    <3>1. pc[t] \in DequeueStates
      BY <1>1 DEF RetireBlock, Goto, DequeueStates
    <3>2. QED
      BY <3>1, AtBlock, ClaimsImplyTail DEF QueueInv, BlockInv
  <2>2. BlockOf(t) \notin free
    BY <2>1 DEF QueueInv, BlockInv, OwnerInv
  <2>3. QED
    BY <1>1, <2>1, <2>2 DEF RetireBlock, FreeSet!Next, FreeSet!Put
<1>2. ASSUME NEW b \in Blocks, Requisition(b) PROVE [FreeSet!Next]_free
  BY <1>2 DEF Requisition, FreeSet!Next, FreeSet!Take
<1>3. ASSUME NEW t \in Threads, StartBlock(t) PROVE [FreeSet!Next]_free
  BY <1>2, <1>3 DEF StartBlock, elementVars
<1>4. ASSUME NEW t \in Threads, EnqueueStep(t) \/ DequeueStep(t),
             ~StartBlock(t), ~RetireBlock(t)
      PROVE  free' = free
  BY <1>4
  DEF EnqueueStep, DequeueStep, GetProducer, WriteElement, Publish, Signal,
      Post, WaitSemaphore, WakeUp, PickBest, ReadOvercommit, Filter, Claim,
      Check, GiveUp, NextProducer, TakeIndex, MoveElement, SetEmpty,
      elementVars
<1>5. QED
  BY <1>1, <1>3, <1>4 DEF Next, Quiet, vars, elementVars

\* The queue never puts a block on the free list that is on it, and takes from
\* it only what is there: as a set, it is used as FreeBlocks says.
THEOREM QueueUsesFreeBlocks == Spec => FreeSet!Spec
<1>1. Init => FreeSet!Init
  BY DEF Init, FreeSet!Init
<1>2. QueueInv /\ [Next]_vars => [FreeSet!Next]_free
  BY FreeSetStep
<1>3. QED
  BY <1>1, <1>2, QueueInvariant, PTL DEF Spec, FreeSet!Spec
=============================================================================
