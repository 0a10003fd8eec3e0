--------------------------- MODULE MCTruthTracking ---------------------------
\* One particle with a decay into two, the second of which may decay again.
EXTENDS TruthTracking
CONSTANTS ga, gb, gc, gd
MCMother == [g \in Particles |-> IF g = ga THEN NoParticle
                                 ELSE IF g = gd THEN gc ELSE ga]
==============================================================================
