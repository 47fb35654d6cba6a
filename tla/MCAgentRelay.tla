---------------------------- MODULE MCAgentRelay ----------------------------
EXTENDS AgentRelay

\* Towards the game server: four packets across a minute, and three of a client
\* that may stall in a process that may be told to end.  Towards the client: two
\* frames around a key exchange and a login, of such a client and process, and
\* a frame among the packets of a client that plays.
MCLoads ==
    {[send |-> 4, game |-> 0, minutes |-> 1, stall |-> FALSE, term |-> FALSE],
     [send |-> 3, game |-> 0, minutes |-> 0, stall |-> TRUE, term |-> TRUE],
     [send |-> 2, game |-> 2, minutes |-> 0, stall |-> TRUE, term |-> TRUE],
     [send |-> 3, game |-> 1, minutes |-> 0, stall |-> FALSE, term |-> FALSE]}
=============================================================================
