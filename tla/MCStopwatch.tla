----------------------------- MODULE MCStopwatch -----------------------------
EXTENDS Stopwatch, TLC

Symmetry == Permutations(Thread)
=============================================================================
