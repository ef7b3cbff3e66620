---------------------------- MODULE MCLimitedCalls ----------------------------
\* Three callers of a wrapped function with one executor worker, a queue for
\* one call and a group limit of one slot, which other processes use too.
EXTENDS LimitedCalls

CONSTANTS c1, c2, c3, w1, l1
=============================================================================
