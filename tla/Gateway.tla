------------------------------- MODULE Gateway -------------------------------
(***************************************************************************)
(* The gateway process (AgentShutdown) and a game server (GameServer)      *)
(* together: a connection that logs in opens a stream, its session closes  *)
(* the stream before it gives up its count in SYNC_WAITGROUP, so that a    *)
(* shutdown of the gateway leaves no user behind on the game server.       *)
(***************************************************************************)
EXTENDS GameServer

\* Loads bound what happens in one behaviour: the connections that are served
\* at the start, those that dial, those that log in, the frames of each
\* stream, and SIGTERM.
CONSTANTS Listeners, Conns, Loads

ASSUME ConnsAssumption == IsFiniteSet(Listeners) /\ IsFiniteSet(Conns) /\ Streams \subseteq Conns

VARIABLES listener, conn, signal, late,       \* see AgentShutdown
          load

Process == INSTANCE AgentShutdown

processVars == <<listener, conn, signal, late>>
gatewayVars == <<vars, processVars, load>>

GatewayInit == load \in Loads /\ Process!Serving(load.served) /\ Init

\* A session logs in and sends while it is served.  The handler's deferred
\* CloseSend runs before its deferred Done.
Released_DoneFirst(s) == TRUE                             \* mutant
Released(s) == call[s] = "idle" \/ eof[s]

Sessions ==
    \A s \in Streams :
       /\ call[s] = "idle" /\ call'[s] # "idle" => conn[s] = "serving" /\ s \in load.logins
       /\ sent'[s] # sent[s] => conn[s] = "serving"
       /\ conn[s] = "serving" /\ conn'[s] = "done" => Released(s)

Within ==
    /\ \A c \in Conns : conn'[c] = "backlog" => c \in load.dials
    /\ \A s \in Streams : sent'[s] <= load.frames[s]
    /\ signal' # "idle" => load.sigterm
    /\ load' = load

GatewayNext ==
    /\ \/ Process!Next /\ UNCHANGED vars
       \/ Next /\ UNCHANGED processVars
    /\ Sessions /\ Within

\* A session that has been told to end closes its stream, and ends
\* (AgentSession!SessionEnds for a client that keeps reading).
Told(A) == Process!DieSign /\ A /\ load' = load

GatewaySpec ==
    /\ GatewayInit /\ [][GatewayNext]_gatewayVars
    /\ Process!Fairness /\ Fairness
    /\ \A c \in Conns :
          WF_gatewayVars(Told(Process!Done(c)) /\ UNCHANGED vars /\ Sessions)
    /\ \A s \in Streams :
          WF_gatewayVars(Told(AgentClose(s)) /\ UNCHANGED processVars)

-----------------------------------------------------------------------------
\* Each listener accepts at most one connection after SIGTERM, the one its
\* blocked Accept was waiting for.
LateAcceptsBounded == Process!LateAcceptsBounded

\* The process exits when the sessions it has counted have ended, and by then
\* no stream is left open towards the game server: func_HandlerUnixSign waits
\* for the handlers, whose cleanup closes the streams.
CountedServed ==
    Process!CountedServed
    /\ (signal = "exited" => \A s \in Streams : call[s] = "idle" \/ eof[s])

\* SIGTERM leads to the end of the process.
Exits == Process!Exits

\* SIGTERM of the gateway takes its users off the game server's registry.
UsersLeave == Process!DieSign ~> \A u \in Users : records[u] = None
=============================================================================
