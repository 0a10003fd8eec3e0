---------------------------- MODULE PayloadQueue ----------------------------
(***************************************************************************)
(* The queue between GiGaMT and its workers: the implicit producers of     *)
(* moodycamel::BlockingConcurrentQueue as GiGaMT uses them (enqueue and    *)
(* wait_dequeue, without tokens), in Utils/include/Utils.                  *)
(*                                                                         *)
(* Every thread that enqueues owns one producer: a sequence of elements    *)
(* cut into blocks, of which it alone writes the tail.  The producers form *)
(* a list that only grows.  Consumers wait on a semaphore that counts the  *)
(* elements, then look for a producer that has some; they first claim an   *)
(* element by an optimistic counter and take the claim back by a second    *)
(* counter when it was one too many.  The consumer of the last element of  *)
(* a block gives the block to a free list (module BlockFreeList).          *)
(*                                                                         *)
(* Each step of the model is one access to shared memory, and accesses are *)
(* sequentially consistent: the memory orders of the code are not modelled.*)
(* A producer is known by its thread, an element by its producer and its   *)
(* index.  The index of a producer's blocks is a map from block numbers;   *)
(* its circular buffer and the hash table that finds a thread's producer   *)
(* are left out.                                                           *)
(***************************************************************************)
EXTENDS Integers, Sequences, FiniteSets

CONSTANTS
  Producers,   \* the threads that enqueue
  Consumers,   \* the threads that call wait_dequeue, over and over
  Quota,       \* how many elements each producer enqueues (a bound)
  BlockSize,   \* BLOCK_SIZE, scaled down
  Blocks,      \* the blocks there may ever be (a bound)
  Pool,        \* those of them in the initial block pool
  NoThread, NoBlock, Raw

Threads == Producers \cup Consumers

ASSUME QueueAssumption ==
  /\ IsFiniteSet(Producers) /\ IsFiniteSet(Consumers)
  /\ NoThread \notin Threads /\ NoBlock \notin Blocks
  /\ Quota \in [Producers -> Nat]
  /\ BlockSize \in Nat \ {0, 1}
  /\ Pool \subseteq Blocks

Items == UNION {{p} \X (0..Quota[p] - 1) : p \in Producers}

BlockNumbers == {x[2] \div BlockSize : x \in Items}

VARIABLES
  pc,          \* where each thread is
  producers,   \* the list from producerListTail on, newest first
  tail, head,  \* tailIndex and headIndex of each producer
  optimistic, overcommit,   \* dequeueOptimisticCount, dequeueOvercommit
  entry,       \* the producer's blocks by number, null when retired
  slots,       \* the elements of a block, Raw where none is constructed
  emptied,     \* elementsCompletelyDequeued of a block
  pool, free, unborn,   \* blocks never used, on the free list, not allocated
  count,       \* LightweightSemaphore.m_count
  kernel,      \* the value of the semaphore below it
  \* The locals of a consumer in try_dequeue and dequeue.
  rest,        \* the producers still to look at
  best,        \* the first one tried, until it has failed
  at,          \* the producer it is at
  over,        \* its overcommit as read
  mine,        \* myDequeueCount
  index,       \* the index taken
  item,        \* the element moved out
  got          \* all elements wait_dequeue has returned to each thread

elementVars == <<entry, slots, emptied, pool, free, unborn>>
countVars   == <<tail, head, optimistic, overcommit>>
semaVars    == <<count, kernel>>
lookVars    == <<rest, best, at>>
claimVars   == <<over, mine, index>>

vars == <<pc, producers, countVars, elementVars, semaVars, lookVars, claimVars,
          item, got>>

EnqueueStates == {"enqueue", "write", "publish", "signal", "post"}

\* A consumer that has got past the semaphore and has no element yet.
SearchStates ==
  {"look", "next", "readOvercommit", "filter",
   "claim", "check", "giveUp", "take"}

DequeueStates == {"move", "setEmpty", "retire"}

TypeOK ==
  /\ pc \in [Threads -> {"idle", "sleep"} \cup EnqueueStates \cup SearchStates
                          \cup DequeueStates]
  /\ producers \in Seq(Producers)
  /\ tail \in [Producers -> Nat]
  /\ head \in [Producers -> Nat]
  /\ optimistic \in [Producers -> Nat]
  /\ overcommit \in [Producers -> Nat]
  /\ entry \in [Producers -> [BlockNumbers -> Blocks \cup {NoBlock}]]
  /\ slots \in [Blocks -> [0..BlockSize - 1 -> Items \cup {Raw}]]
  /\ emptied \in [Blocks -> Nat]
  /\ pool \subseteq Blocks /\ free \subseteq Blocks /\ unborn \subseteq Blocks
  /\ count \in Int /\ kernel \in Nat
  /\ rest \in [Threads -> Seq(Producers)]
  /\ best \in [Threads -> Producers \cup {NoThread}]
  /\ at \in [Threads -> Producers \cup {NoThread}]
  /\ over \in [Threads -> Nat]
  /\ mine \in [Threads -> Nat]
  /\ index \in [Threads -> Nat]
  /\ item \in [Threads -> Items \cup {Raw}]
  /\ got \in [Threads -> SUBSET (Items \cup {Raw})]

Init ==
  /\ pc = [t \in Threads |-> "idle"]
  /\ producers = <<>>
  /\ tail = [p \in Producers |-> 0] /\ head = [p \in Producers |-> 0]
  /\ optimistic = [p \in Producers |-> 0]
  /\ overcommit = [p \in Producers |-> 0]
  /\ entry = [p \in Producers |-> [k \in BlockNumbers |-> NoBlock]]
  /\ slots = [b \in Blocks |-> [i \in 0..BlockSize - 1 |-> Raw]]
  /\ emptied = [b \in Blocks |-> 0]
  /\ pool = Pool /\ free = {} /\ unborn = Blocks \ Pool
  /\ count = 0 /\ kernel = 0
  /\ rest = [t \in Threads |-> <<>>]
  /\ best = [t \in Threads |-> NoThread]
  /\ at = [t \in Threads |-> NoThread]
  /\ over = [t \in Threads |-> 0]
  /\ mine = [t \in Threads |-> 0] /\ index = [t \in Threads |-> 0]
  /\ item = [t \in Threads |-> Raw]
  /\ got = [t \in Threads |-> {}]

Goto(t, from, to) == pc[t] = from /\ pc' = [pc EXCEPT ![t] = to]

BlockNumber(i) == i \div BlockSize
Slot(i)        == i % BlockSize
Registered(p)  == \E i \in DOMAIN producers : producers[i] = p

-----------------------------------------------------------------------------
(* enqueue, on a thread that produces.                                     *)

\* get_or_add_implicit_producer: a thread that has no producer yet creates
\* one and puts it in front of the list.
GetProducer(t) ==
  /\ Goto(t, "idle", "enqueue")
  /\ t \in Producers /\ tail[t] < Quota[t]
  /\ producers' = IF Registered(t) THEN producers ELSE <<t>> \o producers
  /\ UNCHANGED <<countVars, elementVars, semaVars, lookVars, claimVars, item,
                 got>>

\* requisition_block: the initial pool, then the free list (which may seem
\* empty while others work on it), then a new block.
Requisition(b) ==
  \/ /\ b \in pool
     /\ pool' = pool \ {b}
     /\ UNCHANGED <<free, unborn>>
  \/ /\ pool = {} /\ b \in free
     /\ free' = free \ {b}
     /\ UNCHANGED <<pool, unborn>>
  \/ /\ pool = {} /\ b \in unborn
     /\ unborn' = unborn \ {b}
     /\ UNCHANGED <<pool, free>>

\* At the end of a block a new one is entered into the index, not counted as
\* emptied at all; otherwise there is room.
StartBlock(t) ==
  /\ Goto(t, "enqueue", "write")
  /\ IF Slot(tail[t]) = 0
     THEN \E b \in Blocks :
            /\ Requisition(b)
            /\ emptied' = [emptied EXCEPT ![b] = 0]
            /\ entry' = [entry EXCEPT ![t][BlockNumber(tail[t])] = b]
            /\ UNCHANGED slots
     ELSE UNCHANGED elementVars
  /\ UNCHANGED <<producers, countVars, semaVars, lookVars, claimVars, item, got>>

\* The element is constructed in the tail block ...
WriteElement(t) ==
  /\ Goto(t, "write", "publish")
  /\ LET b == entry[t][BlockNumber(tail[t])]
     IN  slots' = [slots EXCEPT ![b][Slot(tail[t])] = <<t, tail[t]>>]
  /\ UNCHANGED <<producers, countVars, entry, emptied, pool, free, unborn,
                 semaVars, lookVars, claimVars, item, got>>

\* ... before the new tail shows it.
Publish(t) ==
  /\ Goto(t, "publish", "signal")
  /\ tail' = [tail EXCEPT ![t] = @ + 1]
  /\ UNCHANGED <<producers, head, optimistic, overcommit, elementVars, semaVars,
                 lookVars, claimVars, item, got>>

BadSignal(t) ==    \* a waiting consumer is missed when the count was -1
  /\ Goto(t, "signal", IF count < -1 THEN "post" ELSE "idle")
  /\ count' = count + 1
  /\ UNCHANGED <<producers, countVars, elementVars, kernel, lookVars, claimVars,
                 item, got>>

\* LightweightSemaphore::signal; somebody sleeps when the count was negative.
Signal(t) ==
  /\ Goto(t, "signal", IF count < 0 THEN "post" ELSE "idle")
  /\ count' = count + 1
  /\ UNCHANGED <<producers, countVars, elementVars, kernel, lookVars, claimVars,
                 item, got>>

Post(t) ==
  /\ Goto(t, "post", "idle")
  /\ kernel' = kernel + 1
  /\ UNCHANGED <<producers, countVars, elementVars, count, lookVars, claimVars,
                 item, got>>

-----------------------------------------------------------------------------
(* wait_dequeue, on a consumer.                                            *)

\* LightweightSemaphore::wait.  Spinning takes one off a positive count, and
\* so does the fetch_sub that ends it; a count that was not positive sends
\* the thread to sleep.
WaitSemaphore(t) ==
  /\ Goto(t, "idle", IF count > 0 THEN "look" ELSE "sleep")
  /\ t \in Consumers
  /\ count' = count - 1
  /\ UNCHANGED <<producers, countVars, elementVars, kernel, lookVars, claimVars,
                 item, got>>

WakeUp(t) ==
  /\ Goto(t, "sleep", "look")
  /\ kernel > 0
  /\ kernel' = kernel - 1
  /\ UNCHANGED <<producers, countVars, elementVars, count, lookVars, claimVars,
                 item, got>>

\* try_dequeue tries first the fullest of the first three producers that seem
\* not empty, the model any that is not.  A scan that finds all of them empty,
\* one after the other, is repeated by wait_dequeue and changes nothing.
PickBest(t) ==
  /\ Goto(t, "look", "readOvercommit")
  /\ \E p \in Producers :
       /\ Registered(p) /\ head[p] < tail[p]
       /\ at' = [at EXCEPT ![t] = p] /\ best' = [best EXCEPT ![t] = p]
  /\ UNCHANGED <<producers, countVars, elementVars, semaVars, rest, claimVars,
                 item, got>>

\* ImplicitProducer::dequeue on the producer the consumer is at.
ReadOvercommit(t) ==
  /\ Goto(t, "readOvercommit", "filter")
  /\ over' = [over EXCEPT ![t] = overcommit[at[t]]]
  /\ UNCHANGED <<producers, countVars, elementVars, semaVars, lookVars, mine,
                 index, item, got>>

\* A first look that spares a claim.  Its own load of the tail, before that of
\* the overcommit, is not told apart: a stale tail only fails more often.
Filter(t) ==
  /\ Goto(t, "filter", IF optimistic[at[t]] - over[t] < tail[at[t]]
                       THEN "claim" ELSE "next")
  /\ UNCHANGED <<producers, countVars, elementVars, semaVars, lookVars, claimVars,
                 item, got>>

Claim(t) ==
  /\ Goto(t, "claim", "check")
  /\ mine' = [mine EXCEPT ![t] = optimistic[at[t]]]
  /\ optimistic' = [optimistic EXCEPT ![at[t]] = @ + 1]
  /\ UNCHANGED <<producers, tail, head, overcommit, elementVars, semaVars,
                 lookVars, over, index, item, got>>

BadCheck(t) ==    \* the look before the claim is thought to be enough
  /\ Goto(t, "check", "take")
  /\ UNCHANGED <<producers, countVars, elementVars, semaVars, lookVars, claimVars,
                 item, got>>

\* With the tail as it is now, the overcommit as it was before the claim.
Check(t) ==
  /\ Goto(t, "check", IF mine[t] - over[t] < tail[at[t]]
                      THEN "take" ELSE "giveUp")
  /\ UNCHANGED <<producers, countVars, elementVars, semaVars, lookVars, claimVars,
                 item, got>>

GiveUp(t) ==
  /\ Goto(t, "giveUp", "next")
  /\ overcommit' = [overcommit EXCEPT ![at[t]] = @ + 1]
  /\ UNCHANGED <<producers, tail, head, optimistic, elementVars, semaVars,
                 lookVars, claimVars, item, got>>

\* The list without the producer p, which is in it.
AllBut(p) ==
  LET i == CHOOSE i \in DOMAIN producers : producers[i] = p
  IN  SubSeq(producers, 1, i - 1) \o SubSeq(producers, i + 1, Len(producers))

\* The next producer to try: after the best one all others, from the list as
\* it is now; after the last one wait_dequeue tries again.
NextProducer(t) ==
  LET others == IF best[t] # NoThread THEN AllBut(best[t]) ELSE rest[t]
  IN  /\ Goto(t, "next", IF others = <<>> THEN "look" ELSE "readOvercommit")
      /\ best' = [best EXCEPT ![t] = NoThread]
      /\ at' = [at EXCEPT ![t] = IF others = <<>> THEN NoThread ELSE Head(others)]
      /\ rest' = [rest EXCEPT ![t] = IF others = <<>> THEN <<>> ELSE Tail(others)]
      /\ UNCHANGED <<producers, countVars, elementVars, semaVars, claimVars, item,
                     got>>

BadTakeIndex(t) ==    \* the number of the claim is taken for the index
  /\ Goto(t, "take", "move")
  /\ index' = [index EXCEPT ![t] = mine[t]]
  /\ head' = [head EXCEPT ![at[t]] = @ + 1]
  /\ UNCHANGED <<producers, tail, optimistic, overcommit, elementVars, semaVars,
                 lookVars, over, mine, item, got>>

TakeIndex(t) ==
  /\ Goto(t, "take", "move")
  /\ index' = [index EXCEPT ![t] = head[at[t]]]
  /\ head' = [head EXCEPT ![at[t]] = @ + 1]
  /\ UNCHANGED <<producers, tail, optimistic, overcommit, elementVars, semaVars,
                 lookVars, over, mine, item, got>>

BlockOf(t) == entry[at[t]][BlockNumber(index[t])]

\* The element is moved out and destroyed.
MoveElement(t) ==
  /\ Goto(t, "move", "setEmpty")
  /\ item' = [item EXCEPT ![t] = slots[BlockOf(t)][Slot(index[t])]]
  /\ slots' = [slots EXCEPT ![BlockOf(t)][Slot(index[t])] = Raw]
  /\ UNCHANGED <<producers, countVars, entry, emptied, pool, free, unborn,
                 semaVars, lookVars, claimVars, got>>

\* wait_dequeue returns the element; the locals are forgotten.
ReturnItem(t) ==
  /\ got' = [got EXCEPT ![t] = @ \cup {item[t]}]
  /\ item' = [item EXCEPT ![t] = Raw]
  /\ rest' = [rest EXCEPT ![t] = <<>>] /\ best' = [best EXCEPT ![t] = NoThread]
  /\ at' = [at EXCEPT ![t] = NoThread]
  /\ over' = [over EXCEPT ![t] = 0]
  /\ mine' = [mine EXCEPT ![t] = 0] /\ index' = [index EXCEPT ![t] = 0]

\* Block::set_empty
SetEmpty(t) ==
  LET last == emptied[BlockOf(t)] = BlockSize - 1
  IN  /\ Goto(t, "setEmpty", IF last THEN "retire" ELSE "idle")
      /\ emptied' = [emptied EXCEPT ![BlockOf(t)] = @ + 1]
      /\ IF last THEN UNCHANGED <<lookVars, claimVars, item, got>>
         ELSE ReturnItem(t)
      /\ UNCHANGED <<producers, countVars, entry, slots, pool, free, unborn,
                     semaVars>>

\* The block leaves the index and goes to the free list.
RetireBlock(t) ==
  /\ Goto(t, "retire", "idle")
  /\ entry' = [entry EXCEPT ![at[t]][BlockNumber(index[t])] = NoBlock]
  /\ free' = free \cup {BlockOf(t)}
  /\ ReturnItem(t)
  /\ UNCHANGED <<producers, countVars, slots, emptied, pool, unborn, semaVars>>

\* Everything is delivered and everybody waits for more.
Quiet ==
  /\ \A t \in Threads :
       \/ pc[t] = "sleep"
       \/ t \notin Consumers /\ pc[t] = "idle" /\ tail[t] = Quota[t]
  /\ kernel = 0
  /\ UNCHANGED vars

-----------------------------------------------------------------------------

EnqueueStep(t) ==
  \/ GetProducer(t) \/ StartBlock(t) \/ WriteElement(t) \/ Publish(t)
  \/ Signal(t) \/ Post(t)

DequeueStep(t) ==
  \/ WaitSemaphore(t) \/ WakeUp(t)
  \/ PickBest(t)
  \/ ReadOvercommit(t) \/ Filter(t) \/ Claim(t) \/ Check(t)
  \/ GiveUp(t) \/ NextProducer(t)
  \/ TakeIndex(t) \/ MoveElement(t) \/ SetEmpty(t) \/ RetireBlock(t)

Next == (\E t \in Threads : EnqueueStep(t) \/ DequeueStep(t)) \/ Quiet

Spec == Init /\ [][Next]_vars

\* The operating system schedules every thread; whether a producer enqueues
\* once more is its own affair.
Fairness ==
  \A t \in Threads :
    /\ WF_vars(pc[t] # "idle" /\ EnqueueStep(t))
    /\ WF_vars(DequeueStep(t))

FairSpec == Spec /\ Fairness

-----------------------------------------------------------------------------
(* What the queue promises: an element is in the bag from the publication  *)
(* of the tail that shows it until a consumer takes its index.             *)

Holding(t) == CASE pc[t] = "move" -> {<<at[t], index[t]>>}
                [] pc[t] \in {"setEmpty", "retire"} -> {item[t]}
                [] OTHER -> {}

Bag == INSTANCE BlockingBag WITH
  content <- {x \in Items : head[x[1]] <= x[2] /\ x[2] < tail[x[1]]},
  taken   <- [t \in Threads |-> got[t] \cup Holding(t)]

\* Every element goes to exactly one consumer, intact, whatever the claims,
\* and is taken when somebody waits.
ImplementsFairBag == Bag!FairBagSpec

-----------------------------------------------------------------------------
(* Properties.                                                             *)

\* Consumers of p that have passed the check and are to take an index.
Takers(p) == {t \in Threads : at[t] = p /\ pc[t] = "take"}

\* Optimistic claims, given back or not, never let a consumer past the tail:
\* there is a published element for everyone who is to take an index.
NeverPastTail ==
  \A p \in Producers : head[p] + Cardinality(Takers(p)) <= tail[p]

\* Threads that have passed the semaphore and found nothing yet.
Searching == {t \in Threads : pc[t] \in SearchStates}

Posting == {t \in Threads : pc[t] = "post"}

Unsignalled == {t \in Threads : pc[t] = "signal"}

InQueue == {x \in Items : head[x[1]] <= x[2] /\ x[2] < tail[x[1]]}

\* The loop of wait_dequeue ends: a consumer that passes the semaphore has an
\* element in the queue for itself, none is without a count.
CountsMatchElements ==
  Cardinality(InQueue) = Cardinality(Unsignalled) + Cardinality(Searching)
    + kernel + Cardinality(Posting) + (IF count > 0 THEN count ELSE 0)

=============================================================================
