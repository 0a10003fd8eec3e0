---------------------------- MODULE MCGeneration ----------------------------
\* Two events of one thread; the bounds are in the configurations.
EXTENDS Generation
=============================================================================
