---------------------------- MODULE MC_Smearer -----------------------------
EXTENDS Smearer

\* Small delays, where truncation matters most.  A percentage of 0 is only
\* accepted by SmearDelay's CHECK, 150 by neither.
MC_Delays == {1, 2, 3, 5, 10}
MC_Percents == {0, 20, 50, 100, 150}
==============================================================================
