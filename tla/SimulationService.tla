-------------------------- MODULE SimulationService --------------------------
(***************************************************************************)
(* What IGiGaMTSvc::simulate promises to a Gaudi thread: a call brings a   *)
(* batch of events, each of them is answered once, the call returns when   *)
(* all of them are and with the answers to its own batch only, and the     *)
(* results belong to the caller until it drops them.  Nothing is said of   *)
(* threads, queues or memory.                                              *)
(***************************************************************************)
CONSTANTS Callers, Payloads

VARIABLES
  asked,     \* the batch of the call a caller is in
  answered,  \* what the simulation has answered so far
  results    \* what a caller has been given and still holds

vars == <<asked, answered, results>>

Init ==
  /\ asked = [c \in Callers |-> {}]
  /\ answered = {}
  /\ results = [c \in Callers |-> {}]

Ask(c, batch) ==
  /\ asked[c] = {}
  /\ batch \cap answered = {}
  /\ \A d \in Callers : batch \cap asked[d] = {}
  /\ asked' = [asked EXCEPT ![c] = batch]
  /\ UNCHANGED <<answered, results>>

Answer(p) ==
  /\ \E c \in Callers : p \in asked[c]
  /\ p \notin answered
  /\ answered' = answered \cup {p}
  /\ UNCHANGED <<asked, results>>

Collect(c) ==
  /\ asked[c] # {}
  /\ asked[c] \subseteq answered
  /\ results' = [results EXCEPT ![c] = @ \cup asked[c]]
  /\ asked' = [asked EXCEPT ![c] = {}]
  /\ UNCHANGED answered

Drop(c, p) ==
  /\ p \in results[c]
  /\ results' = [results EXCEPT ![c] = @ \ {p}]
  /\ UNCHANGED <<asked, answered>>

Next ==
  \/ \E p \in Payloads : Answer(p)
  \/ \E c \in Callers :
       \/ \E batch \in SUBSET Payloads : Ask(c, batch)
       \/ Collect(c)
       \/ \E p \in Payloads : Drop(c, p)

Spec == Init /\ [][Next]_vars

\* The live half of the promise: every event is answered and every call ends.
Fairness ==
  /\ \A p \in Payloads : WF_vars(Answer(p))
  /\ \A c \in Callers : WF_vars(Collect(c))

FairSpec == Spec /\ Fairness
=============================================================================
