--------------------------- MODULE MC_Throttle ----------------------------
EXTENDS Throttle

\* One call per 2 time units, two per 5 and three per 8: the shape of the
\* client's default (1 per second, 6 per minute) at a size TLC can explore.
MC_RateLimits == {[window_size |-> 2, count |-> 1], [window_size |-> 5, count |-> 2],
                  [window_size |-> 8, count |-> 3]}
==============================================================================
