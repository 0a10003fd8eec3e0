---------------------------- MODULE MCTruthGraph ----------------------------
\* All events of a few particles; the two bounds are in the configurations.
EXTENDS TruthGraph
==============================================================================
