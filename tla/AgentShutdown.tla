---------------------------- MODULE AgentShutdown ----------------------------
(***************************************************************************)
(* The gateway process: its listeners (TCP and KCP), the connections they  *)
(* accept, SYNC_WAITGROUP, and the signal goroutine that closes DIE_SIGN   *)
(* and waits.  A connection's session is reduced to whether it has been    *)
(* counted in the wait group and whether it has returned; AgentSession     *)
(* shows that a session told to end does so.                               *)
(***************************************************************************)
EXTENDS Naturals, FiniteSets

CONSTANTS Listeners, Conns

VARIABLES
    listener,   \* [Listeners -> {"accept", "check", "closed"}]
    conn,       \* [Conns -> {"away", "backlog", "spawned", "serving", "done"}]
    signal,     \* the signal goroutine: "idle", "waiting", "exited"
    late        \* history: connections accepted after DIE_SIGN was closed

vars == <<listener, conn, signal, late>>

DieSign == signal # "idle"
Running == signal # "exited"
Counter == Cardinality({c \in Conns : conn[c] = "serving"})

\* The listeners run, and serve the connections in S.
Serving(S) ==
    /\ listener = [l \in Listeners |-> "accept"]
    /\ conn = [c \in Conns |-> IF c \in S THEN "serving" ELSE "away"]
    /\ signal = "idle" /\ late = {}

Init == Serving({})

Connect(c) ==
    /\ Running /\ conn[c] = "away"
    /\ \E l \in Listeners : listener[l] # "closed"
    /\ conn' = [conn EXCEPT ![c] = "backlog"]
    /\ UNCHANGED <<listener, signal, late>>

\* Accept returns a connection and go func_HandleNewClientConnect(conn).  One that
\* fails is tried again and changes nothing, whatever DIE_SIGN is.
Accept(l, c) ==
    /\ Running /\ listener[l] = "accept" /\ conn[c] = "backlog"
    /\ listener' = [listener EXCEPT ![l] = "check"]
    /\ conn' = [conn EXCEPT ![c] = "spawned"]
    /\ late' = IF DieSign THEN late \cup {c} ELSE late
    /\ UNCHANGED signal

\* select { case <-DIE_SIGN: Close and return; default: }.
AfterCheck_NoReturn == "accept"                           \* mutant
AfterCheck == IF DieSign THEN "closed" ELSE "accept"

CheckDie(l) ==
    /\ Running /\ listener[l] = "check"
    /\ listener' = [listener EXCEPT ![l] = AfterCheck]
    /\ UNCHANGED <<conn, signal, late>>

\* The connection goroutine runs SYNC_WAITGROUP.Add(1).
Add(c) ==
    /\ Running /\ conn[c] = "spawned"
    /\ conn' = [conn EXCEPT ![c] = "serving"]
    /\ UNCHANGED <<listener, signal, late>>

\* A Done that is not deferred, and skipped by a session that is kicked.
Done_Skipped(c) ==                                        \* mutant
    /\ ~DieSign /\ conn[c] = "serving"
    /\ conn' = [conn EXCEPT ![c] = "done"]
    /\ UNCHANGED <<listener, signal, late>>

\* The session handler returns: SYNC_WAITGROUP.Done().
Done(c) ==
    /\ Running /\ conn[c] = "serving"
    /\ conn' = [conn EXCEPT ![c] = "done"]
    /\ UNCHANGED <<listener, signal, late>>

\* SIGTERM: close(DIE_SIGN), then SYNC_WAITGROUP.Wait().
Sigterm ==
    /\ signal = "idle" /\ signal' = "waiting"
    /\ UNCHANGED <<listener, conn, late>>

\* Wait returns and the process exits.
WaitOver == Counter = 0

Exit ==
    /\ signal = "waiting" /\ WaitOver
    /\ signal' = "exited"
    /\ UNCHANGED <<listener, conn, late>>

Next ==
    \/ \E c \in Conns : Connect(c) \/ Add(c) \/ Done(c)
    \/ \E l \in Listeners : CheckDie(l) \/ \E c \in Conns : Accept(l, c)
    \/ Sigterm \/ Exit
    \/ ~Running /\ UNCHANGED vars

Spec == Init /\ [][Next]_vars

\* The goroutines are scheduled.  Wait needs no more than weak fairness, the
\* waiter being woken by the last Done.  (Done is the session's: see Gateway.)
Fairness ==
    /\ \A c \in Conns : WF_vars(Add(c))
    /\ \A l \in Listeners : WF_vars(CheckDie(l))
    /\ WF_vars(Exit)

-----------------------------------------------------------------------------
\* Each listener accepts at most one connection after the shutdown signal,
\* the one its blocked Accept was waiting for.
LateAcceptsBounded == Cardinality(late) <= Cardinality(Listeners)

\* The process does not exit while a session it has counted is being served.
\* (One that is spawned but has not yet counted itself is not waited for.)
CountedServed == signal = "exited" => \A c \in Conns : conn[c] # "serving"

\* SIGTERM leads to the end of the process.
Exits == DieSign ~> signal = "exited"
=============================================================================
