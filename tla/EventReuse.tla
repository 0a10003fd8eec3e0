----------------------------- MODULE EventReuse -----------------------------
(* What the ReDecay service promises to the events of a job: each event is *)
(* an original or uses one, no original serves more than NRedecay events,  *)
(* itself included, a redecay begins to work when its original has ended,  *)
(* an event succeeds only with complete results of its original (which may *)
(* have failed after them), and an original and its results are kept until *)
(* the last of its uses has ended, and no longer.                          *)
EXTENDS Naturals, FiniteSets

CONSTANTS Events, NRedecay, NoEvent

VARIABLES
  origin,  \* the original an event uses, itself for an original
  stage,   \* how far each event has come
  kept,    \* the originals that are kept for reuse
  results  \* those of them whose results are complete

vars == <<origin, stage, kept, results>>

Ended == {"done", "dropped"}    \* with success or without

Uses(o) == {e \in Events : origin[e] = o}

Init ==
  /\ origin = [e \in Events |-> NoEvent]
  /\ stage = [e \in Events |-> "new"]
  /\ kept = {} /\ results = {}

Advance(e, from, to) == stage[e] = from /\ stage' = [stage EXCEPT ![e] = to]

BecomeOriginal(e) ==
  /\ Advance(e, "new", "works")
  /\ origin' = [origin EXCEPT ![e] = e]
  /\ kept' = kept \cup {e}
  /\ UNCHANGED results

\* The original has all that its redecays need.  It may still fail.
Complete(o) ==
  /\ stage[o] = "works" /\ origin[o] = o
  /\ results' = results \cup {o}
  /\ UNCHANGED <<origin, stage, kept>>

Reuse(e, o) ==
  /\ Advance(e, "new", "waits")
  /\ o \in kept /\ Cardinality(Uses(o)) < NRedecay
  /\ origin' = [origin EXCEPT ![e] = o]
  /\ UNCHANGED <<kept, results>>

\* An original that has failed wakes its redecays, too.
Wake(e) ==
  /\ Advance(e, "waits", "works")
  /\ stage[origin[e]] \in Ended
  /\ UNCHANGED <<origin, kept, results>>

\* e is the last use of o: all have been taken, the others have ended.
LastUse(e, o) ==
  /\ Cardinality(Uses(o)) = NRedecay
  /\ \A f \in Uses(o) \ {e} : stage[f] \in Ended

End(e, how) ==
  /\ Advance(e, "works", how)
  /\ how = "done" => origin[e] \in results
  /\ LET over == IF LastUse(e, origin[e]) THEN {origin[e]} ELSE {}
     IN  kept' = kept \ over /\ results' = results \ over
  /\ UNCHANGED origin

Next ==
  \E e \in Events :
    \/ BecomeOriginal(e) \/ Complete(e) \/ Wake(e)
    \/ \E o \in Events : Reuse(e, o)
    \/ \E how \in Ended : End(e, how)

Spec == Init /\ [][Next]_vars
=============================================================================
