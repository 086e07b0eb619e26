------------------------------ MODULE MCMetrics ------------------------------
EXTENDS MetricsProps, TLC

Symmetry == Permutations(Sessions)

==============================================================================
