------------------------ MODULE MCSetOperationQueue ------------------------
EXTENDS OperationQueue, SetOperationQueue

CONSTANTS a, b, c

\* A chain, an overlap and a pair of incomparable ids.
MCIds == {{a}, {b}, {a, b}, {b, c}}
=============================================================================
