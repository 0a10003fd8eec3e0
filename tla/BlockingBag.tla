----------------------------- MODULE BlockingBag -----------------------------
(***************************************************************************)
(* What GiGaMT and its workers expect of the queue between them            *)
(* (enqueue in GiGaMT::simulate, wait_dequeue in the workers): an item     *)
(* that was put in is handed to exactly one consumer, in any order, and a  *)
(* consumer that waits gets an item when there is one.  This is the queue  *)
(* of module GiGaPool.                                                     *)
(***************************************************************************)
EXTENDS FiniteSets

CONSTANTS Threads, Items

VARIABLES content,   \* what has been put in and not been taken
          taken      \* what each thread has taken out

bagVars == <<content, taken>>

EverPut == content \cup UNION {taken[t] : t \in Threads}

BagInit ==
  /\ content = {}
  /\ taken = [t \in Threads |-> {}]

Put(x) ==
  /\ x \notin EverPut
  /\ content' = content \cup {x}
  /\ UNCHANGED taken

Take(t, x) ==
  /\ x \in content
  /\ content' = content \ {x}
  /\ taken' = [taken EXCEPT ![t] = @ \cup {x}]

TakeAny == \E t \in Threads, x \in Items : Take(t, x)

BagNext == TakeAny \/ \E x \in Items : Put(x)

BagSpec == BagInit /\ [][BagNext]_bagVars

\* Somebody always waits, so everything is taken in the end.
FairBagSpec == BagSpec /\ WF_bagVars(TakeAny)
==============================================================================
