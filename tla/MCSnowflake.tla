---------------------------- MODULE MCSnowflake ----------------------------
EXTENDS SnowflakeService

\* A start and two calls of Next at once, with lost answers; and three
\* processes, one of them with MACHINE_ID, that issue numbers.
MCLoads == {[calls |-> {1, 4, 5}, faults |-> 2, issues |-> FALSE],
            [calls |-> {1, 2}, faults |-> 0, issues |-> TRUE]}
=============================================================================
