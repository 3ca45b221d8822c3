--------------------------- MODULE MCGraphExecutor ---------------------------
\* The graph executor on small graphs: the constants are given in the
\* configurations.
EXTENDS GraphExecutor
=============================================================================
