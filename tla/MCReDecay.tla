----------------------------- MODULE MCReDecay -----------------------------
(* ReDecay for TLC: events are interchangeable.                            *)
EXTENDS ReDecay, TLC

EventSymmetry == Permutations(Events)
=============================================================================
