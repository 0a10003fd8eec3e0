---------------------------- MODULE BlockFreeList ----------------------------
(***************************************************************************)
(* The lock-free free list of blocks behind PayloadQueue:                  *)
(* moodycamel::ConcurrentQueue::FreeList.  A stack of nodes whose head is  *)
(* changed by compare-and-swap; a reference count per node keeps a node    *)
(* that somebody is about to take off from being put back meanwhile, and a *)
(* flag (SHOULD_BE_ON_FREELIST, the top bit of the same word) leaves the   *)
(* putting back to whoever drops the last reference.                       *)
(*                                                                         *)
(* A step is one access to shared memory, sequentially consistent.  In     *)
(* PayloadQueue the list is a plain set.                                   *)
(***************************************************************************)
EXTENDS Naturals, Sequences, FiniteSets

CONSTANTS Threads, Nodes, Null

ASSUME FreeListAssumption == IsFiniteSet(Threads) /\ Null \notin Nodes

VARIABLES
  head,      \* freeListHead
  next,      \* freeListNext of each node
  refs,      \* the references in freeListRefs
  should,    \* SHOULD_BE_ON_FREELIST in the same word
  pc,
  cur,       \* head in try_get
  succ,      \* next in try_get
  node,      \* the node being added, or prevHead
  top,       \* head in add_knowing_refcount_is_zero
  getting,   \* an addition inside try_get
  own,       \* the nodes a thread has got and not added
  list       \* the nodes on the list, as the changes of the head make it

sharedVars == <<head, next, refs, should, list>>
localVars  == <<cur, succ, node, top, getting>>
vars       == <<sharedVars, pc, localVars, own>>

AddStates == {"push", "link", "expose", "casPush", "retract"}
GetStates == {"load", "acquire", "readNext", "casPop", "release", "keep"}

TypeOK ==
  /\ head \in Nodes \cup {Null}
  /\ next \in [Nodes -> Nodes \cup {Null}]
  /\ refs \in [Nodes -> Nat]
  /\ should \in [Nodes -> BOOLEAN]
  /\ pc \in [Threads -> {"idle"} \cup AddStates \cup GetStates]
  /\ cur \in [Threads -> Nodes \cup {Null}]
  /\ succ \in [Threads -> Nodes \cup {Null}]
  /\ node \in [Threads -> Nodes \cup {Null}]
  /\ top \in [Threads -> Nodes \cup {Null}]
  /\ getting \in [Threads -> BOOLEAN]
  /\ own \in [Threads -> SUBSET Nodes]
  /\ list \in Seq(Nodes)

\* The blocks of the initial pool and new ones begin in somebody's hands.
Init ==
  /\ head = Null
  /\ next = [n \in Nodes |-> Null]
  /\ refs = [n \in Nodes |-> 0]
  /\ should = [n \in Nodes |-> FALSE]
  /\ pc = [t \in Threads |-> "idle"]
  /\ cur = [t \in Threads |-> Null]
  /\ succ = [t \in Threads |-> Null]
  /\ node = [t \in Threads |-> Null]
  /\ top = [t \in Threads |-> Null]
  /\ getting = [t \in Threads |-> FALSE]
  /\ own \in [Threads -> SUBSET Nodes]
  /\ \A n \in Nodes : \E t \in Threads : n \in own[t]
  /\ \A t, u \in Threads : t # u => own[t] \cap own[u] = {}
  /\ list = <<>>

Goto(t, from, to) == pc[t] = from /\ pc' = [pc EXCEPT ![t] = to]

-----------------------------------------------------------------------------
(* add and add_knowing_refcount_is_zero.                                   *)

\* The last reference gone, the thread puts the node on the list itself.
Add(t, n) ==
  /\ Goto(t, "idle", IF refs[n] = 0 THEN "push" ELSE "idle")
  /\ n \in own[t]
  /\ own' = [own EXCEPT ![t] = @ \ {n}]
  /\ should' = [should EXCEPT ![n] = TRUE]
  /\ node' = [node EXCEPT ![t] = IF refs[n] = 0 THEN n ELSE Null]
  /\ UNCHANGED <<head, next, refs, list, cur, succ, top, getting>>

LoadTop(t) ==
  /\ Goto(t, "push", "link")
  /\ top' = [top EXCEPT ![t] = head]
  /\ UNCHANGED <<sharedVars, cur, succ, node, getting, own>>

Link(t) ==
  /\ Goto(t, "link", "expose")
  /\ next' = [next EXCEPT ![node[t]] = top[t]]
  /\ UNCHANGED <<head, refs, should, list, localVars, own>>

\* The reference of the list; from here on others may take references.
Expose(t) ==
  /\ Goto(t, "expose", "casPush")
  /\ refs' = [refs EXCEPT ![node[t]] = 1]
  /\ should' = [should EXCEPT ![node[t]] = FALSE]
  /\ UNCHANGED <<head, next, list, localVars, own>>

\* After an addition inside try_get the loop there goes on.
EndAdd(t) ==
  /\ pc' = [pc EXCEPT ![t] =
              IF getting[t] /\ cur[t] # Null THEN "acquire" ELSE "idle"]
  /\ node' = [node EXCEPT ![t] = Null]
  /\ getting' = [getting EXCEPT ![t] = FALSE]

CasPush(t) ==
  /\ pc[t] = "casPush"
  /\ IF head = top[t]
     THEN /\ head' = node[t] /\ list' = <<node[t]>> \o list
          /\ top' = [top EXCEPT ![t] = Null]
          /\ EndAdd(t)
     ELSE /\ top' = [top EXCEPT ![t] = head]
          /\ pc' = [pc EXCEPT ![t] = "retract"]
          /\ UNCHANGED <<head, list, node, getting>>
  /\ UNCHANGED <<next, refs, should, cur, succ, own>>

\* fetch_add( SHOULD_BE_ON_FREELIST - 1 ): the reference is taken back; when
\* others hold references the last of them is to add the node.
Retract(t) ==
  /\ pc[t] = "retract"
  /\ refs' = [refs EXCEPT ![node[t]] = @ - 1]
  /\ should' = [should EXCEPT ![node[t]] = TRUE]
  /\ IF refs[node[t]] = 1
     THEN /\ pc' = [pc EXCEPT ![t] = "link"]
          /\ UNCHANGED <<node, getting, top>>
     ELSE /\ EndAdd(t)
          /\ top' = [top EXCEPT ![t] = Null]
  /\ UNCHANGED <<head, next, list, cur, succ, own>>

-----------------------------------------------------------------------------
(* try_get.                                                                *)

BeginGet(t) ==
  /\ Goto(t, "idle", "load")
  /\ UNCHANGED <<sharedVars, localVars, own>>

\* On an empty list try_get returns nothing.
LoadHead(t) ==
  /\ Goto(t, "load", IF head = Null THEN "idle" ELSE "acquire")
  /\ cur' = [cur EXCEPT ![t] = head]
  /\ UNCHANGED <<sharedVars, succ, node, top, getting, own>>

BadAcquire(t) ==    \* a reference is added even when there is none
  /\ Goto(t, "acquire", "readNext")
  /\ refs' = [refs EXCEPT ![cur[t]] = @ + 1]
  /\ UNCHANGED <<head, next, should, list, localVars, own>>

\* A reference is added to one that is there, in one step: a compare-and-swap
\* that fails, because the count has changed, starts again from the head.
Acquire(t) ==
  /\ \/ /\ Goto(t, "acquire", "readNext")
        /\ refs[cur[t]] > 0
        /\ refs' = [refs EXCEPT ![cur[t]] = @ + 1]
     \/ /\ Goto(t, "acquire", "load")
        /\ UNCHANGED refs
  /\ UNCHANGED <<head, next, should, list, localVars, own>>

ReadNext(t) ==
  /\ Goto(t, "readNext", "casPop")
  /\ succ' = [succ EXCEPT ![t] = next[cur[t]]]
  /\ UNCHANGED <<sharedVars, cur, node, top, getting, own>>

CasPop(t) ==
  /\ pc[t] = "casPop"
  /\ IF head = cur[t]
     THEN /\ head' = succ[t] /\ list' = Tail(list)
          /\ pc' = [pc EXCEPT ![t] = "keep"]
          /\ UNCHANGED <<cur, node>>
     ELSE /\ node' = [node EXCEPT ![t] = cur[t]]
          /\ cur' = [cur EXCEPT ![t] = head]
          /\ pc' = [pc EXCEPT ![t] = "release"]
          /\ UNCHANGED <<head, list>>
  /\ succ' = [succ EXCEPT ![t] = Null]
  /\ UNCHANGED <<next, refs, should, top, getting, own>>

\* The node is the thread's: its own reference and the list's go at once.
Keep(t) ==
  /\ Goto(t, "keep", "idle")
  /\ refs' = [refs EXCEPT ![cur[t]] = @ - 2]
  /\ own' = [own EXCEPT ![t] = @ \cup {cur[t]}]
  /\ cur' = [cur EXCEPT ![t] = Null]
  /\ UNCHANGED <<head, next, should, list, succ, node, top, getting>>

BadRelease(t) ==    \* whoever drops the last reference does not add the node
  /\ Goto(t, "release", IF cur[t] = Null THEN "idle" ELSE "acquire")
  /\ refs' = [refs EXCEPT ![node[t]] = @ - 1]
  /\ node' = [node EXCEPT ![t] = Null]
  /\ UNCHANGED <<head, next, should, list, cur, succ, top, getting, own>>

\* The head has changed: the reference is dropped, and when it was the last
\* to a node that should be on the list, the node is added here.
Release(t) ==
  /\ pc[t] = "release"
  /\ refs' = [refs EXCEPT ![node[t]] = @ - 1]
  /\ IF refs[node[t]] = 1 /\ should[node[t]]
     THEN /\ pc' = [pc EXCEPT ![t] = "push"]
          /\ getting' = [getting EXCEPT ![t] = TRUE]
          /\ UNCHANGED node
     ELSE /\ pc' = [pc EXCEPT ![t] = IF cur[t] = Null THEN "idle" ELSE "acquire"]
          /\ node' = [node EXCEPT ![t] = Null]
          /\ UNCHANGED getting
  /\ UNCHANGED <<head, next, should, list, cur, succ, top, own>>

-----------------------------------------------------------------------------

AddStep(t) ==
  LoadTop(t) \/ Link(t) \/ Expose(t) \/ CasPush(t) \/ Retract(t)

GetStep(t) ==
  \/ LoadHead(t) \/ Acquire(t) \/ ReadNext(t) \/ CasPop(t) \/ Keep(t)
  \/ Release(t)

Next ==
  \E t \in Threads :
    \/ AddStep(t) \/ GetStep(t) \/ BeginGet(t)
    \/ \E n \in Nodes : Add(t, n)

Spec == Init /\ [][Next]_vars

-----------------------------------------------------------------------------
(* Properties.                                                             *)

Listed == {list[i] : i \in DOMAIN list}

\* The head and the links spell the list: no compare-and-swap of the head ever
\* succeeds with a successor read before the node was taken off and put back.
ListIntact ==
  /\ head = IF list = <<>> THEN Null ELSE list[1]
  /\ \A i \in DOMAIN list :
       next[list[i]] = IF i = Len(list) THEN Null ELSE list[i + 1]

\* The thread that is to put it on the list, or has just taken it off.
Carrier(t, n) ==
  \/ pc[t] \in AddStates /\ node[t] = n
  \/ pc[t] = "keep" /\ cur[t] = n

\* A node is on the list once, or owned by one thread, or on its way in one
\* thread's hands, or left to those that hold the last references to it.
NodesConserved ==
  \A n \in Nodes :
    Cardinality({i \in DOMAIN list : list[i] = n})
      + Cardinality({t \in Threads : n \in own[t]})
      + Cardinality({t \in Threads : Carrier(t, n)})
      + (IF should[n] /\ refs[n] > 0 THEN 1 ELSE 0) = 1

=============================================================================
