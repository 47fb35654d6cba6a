----------------------------- MODULE AgentRelay -----------------------------
(* A session of the gateway implements a FIFO relay in each direction.       *)
EXTENDS AgentSession

\* Loads bound what happens in one behaviour: the packets of the client, the
\* frames of the game servers, the minutes, and whether the client may stall
\* and the process be told to end.
CONSTANT Loads

VARIABLE load

Within ==
    /\ Len(sent) <= load.send /\ gsent <= load.game /\ minutes <= load.minutes
    /\ (mode = "stalled" => load.stall) /\ (dieSign => load.term)

RelayInit == Init /\ load \in Loads /\ Within
RelayNext == Next /\ load' = load /\ Within'

RelaySpec == RelayInit /\ [][RelayNext]_<<vars, load>>

\* The numbers of the game packets the client has written, in order: the k-th
\* is the one up to which there are k.
GamePackets == {i \in DOMAIN sent : sent[i] = "game"}
UpTo(S, i)  == Cardinality(S \cap (0 .. i))
Nth(S, k)   == CHOOSE i \in S : UpTo(S, i) = k
Submitted   == LET S == GamePackets
               IN  [k \in 1 .. Cardinality(S) |-> Nth(S, k)]

Up == INSTANCE Fifo WITH Msg <- 1 .. MaxSend, in <- Submitted, out <- fwd

Down == INSTANCE Fifo WITH Msg <- 1 .. MaxGame,
                           in <- [i \in 1 .. gsent |-> i], out <- got

\* Towards the game server the session is a FIFO relay of the client's game
\* packets: nothing is skipped, repeated or reordered by the reader, the
\* handler and the stream, whatever the client repeats (one login).
RelaysUp == Up!Spec

\* Towards the client it is a FIFO relay of the frames of its game server,
\* through fetcher, MQ, handler and sender (one login).
RelaysDown == Down!Spec
=============================================================================
