----------------------------- MODULE GameServer -----------------------------
(***************************************************************************)
(* FKServer_Game: one Stream call per client session of the gateway, each  *)
(* with a receiving goroutine (func_Recv) that feeds ch_agent, a channel   *)
(* of capacity one, and the registry of users that all calls share.        *)
(***************************************************************************)
EXTENDS Naturals, Sequences, FiniteSets

CONSTANTS
    Streams,    \* Stream calls
    Users,      \* user numbers the gateway may give; 0 is "not known yet"
    UserOf,     \* [Streams -> Users], the userid in the call's metadata
    Quota       \* [Streams -> Nat], frames the gateway sends on each

ASSUME UsersAssumption ==
    /\ Users \subseteq Nat \ {0} /\ UserOf \in [Streams -> Users]
    /\ Quota \in [Streams -> Nat]

VARIABLES
    call,       \* main loop: "idle", "start", "loop", "leave", "close", "done"
    recv,       \* func_Recv: "idle", "recv", "offer", "done"
    inFlow,     \* frames on the stream towards the server
    sent,       \* number of frames the gateway has sent
    eof,        \* the gateway has closed its side
    hand,       \* frame func_Recv holds
    ch,         \* ch_agent
    uid,        \* sess.UserId
    records,    \* the registry: user -> the stream that last registered it
    replies,    \* numbers of the ping frames answered
    overlapped  \* history: users who had two streams at a time

vars == <<call, recv, inFlow, sent, eof, hand, ch, uid, records, replies,
          overlapped>>

\* ping: a Game_Message with a bound number (1001), answered; echo: a
\* Game_Ping; unbound: a message without handler or too short; odd: a frame
\* of another type.
Kinds == {"ping", "echo", "unbound", "odd"}
Frame == [kind : Kinds, n : Nat]
None  == 0

ASSUME NoneAssumption == None \notin Streams

Ended(s) == call[s] = "done"
DieClosed(s) == call[s] = "done"       \* close(sess_die), then Stream returns

Init ==
    /\ call = [s \in Streams |-> "idle"] /\ recv = [s \in Streams |-> "idle"]
    /\ inFlow = [s \in Streams |-> <<>>] /\ sent = [s \in Streams |-> 0]
    /\ eof = [s \in Streams |-> FALSE]
    /\ hand = [s \in Streams |-> <<>>] /\ ch = [s \in Streams |-> <<>>]
    /\ uid = [s \in Streams |-> 0]
    /\ records = [u \in Users |-> None]
    /\ replies = [s \in Streams |-> <<>>] /\ overlapped = {}

-----------------------------------------------------------------------------
(* The gateway's side of a stream. *)

\* A session opens one stream per login, under the same user number as every
\* other session.
Open(s) ==
    /\ call[s] = "idle"
    /\ call' = [call EXCEPT ![s] = "start"]
    /\ recv' = [recv EXCEPT ![s] = "recv"]
    /\ overlapped' = IF \E r \in Streams \ {s} :
                             /\ UserOf[r] = UserOf[s]
                             /\ call[r] \notin {"idle", "done"}
                       THEN overlapped \cup {UserOf[s]} ELSE overlapped
    /\ UNCHANGED <<inFlow, sent, eof, hand, ch, uid, records, replies>>

AgentSend(s, k) ==
    /\ call[s] \notin {"idle", "done"} /\ ~eof[s] /\ sent[s] < Quota[s]
    /\ sent' = [sent EXCEPT ![s] = @ + 1]
    /\ inFlow' = [inFlow EXCEPT ![s] = Append(@, [kind |-> k, n |-> sent'[s]])]
    /\ UNCHANGED <<call, recv, eof, hand, ch, uid, records, replies,
                   overlapped>>

\* CloseSend (frames in flight arrive) or a broken connection (they are lost).
AgentClose(s) ==
    /\ call[s] # "idle" /\ ~eof[s]
    /\ eof' = [eof EXCEPT ![s] = TRUE]
    /\ \E kept \in {inFlow[s], <<>>} : inFlow' = [inFlow EXCEPT ![s] = kept]
    /\ UNCHANGED <<call, recv, sent, hand, ch, uid, records, replies,
                   overlapped>>

-----------------------------------------------------------------------------
(* func_Recv *)

Recv(s) ==
    /\ recv[s] = "recv" /\ inFlow[s] # <<>>
    /\ hand' = [hand EXCEPT ![s] = <<Head(inFlow[s])>>]
    /\ inFlow' = [inFlow EXCEPT ![s] = Tail(@)]
    /\ recv' = [recv EXCEPT ![s] = "offer"]
    /\ UNCHANGED <<call, sent, eof, ch, uid, records, replies, overlapped>>

\* Recv fails: end of file, a broken connection, or the call has returned.
RecvEnds_OnlyEOF(s) == inFlow[s] = <<>> /\ eof[s]         \* mutant
RecvEnds(s) == (inFlow[s] = <<>> /\ eof[s]) \/ Ended(s)

RecvFail(s) ==
    /\ recv[s] = "recv" /\ RecvEnds(s)
    /\ recv' = [recv EXCEPT ![s] = "done"]
    /\ UNCHANGED <<call, inFlow, sent, eof, hand, ch, uid, records, replies,
                   overlapped>>

\* select { case ch <- in: case <-sess_die: }
Handed_OrDropped(s) ==                                    \* mutant
    \/ Len(ch[s]) = 0 /\ ch' = [ch EXCEPT ![s] = hand[s]]
    \/ Len(ch[s]) > 0 /\ UNCHANGED ch
Handed(s) ==
    \/ Len(ch[s]) = 0 /\ ch' = [ch EXCEPT ![s] = hand[s]]
    \/ DieClosed(s) /\ UNCHANGED ch

RecvPut(s) ==
    /\ recv[s] = "offer" /\ Handed(s)
    /\ hand' = [hand EXCEPT ![s] = <<>>]
    /\ recv' = [recv EXCEPT ![s] = "recv"]
    /\ UNCHANGED <<call, inFlow, sent, eof, uid, records, replies, overlapped>>

-----------------------------------------------------------------------------
(* Stream *)

\* The metadata is read and the user registered; or it cannot be read.
Register(s) ==
    /\ call[s] = "start"
    /\ call' = [call EXCEPT ![s] = "loop"]
    /\ uid' = [uid EXCEPT ![s] = UserOf[s]]
    /\ records' = [records EXCEPT ![UserOf[s]] = s]
    /\ UNCHANGED <<recv, inFlow, sent, eof, hand, ch, replies, overlapped>>

BadMetadata(s) ==
    /\ call[s] = "start"
    /\ call' = [call EXCEPT ![s] = "leave"]
    /\ UNCHANGED <<recv, inFlow, sent, eof, hand, ch, uid, records, replies,
                   overlapped>>

\* case frame, ok := <-ch_agent with a frame: answer it, or return an error
\* (also when the answer cannot be sent).
HandleFrame(s) ==
    /\ call[s] = "loop" /\ ch[s] # <<>>
    /\ ch' = [ch EXCEPT ![s] = Tail(@)]
    /\ \/ /\ Head(ch[s]).kind = "ping"
          /\ replies' = [replies EXCEPT ![s] = Append(@, Head(ch[s]).n)]
          /\ UNCHANGED call
       \/ Head(ch[s]).kind = "echo" /\ UNCHANGED <<call, replies>>
       \/ /\ Head(ch[s]).kind \in {"unbound", "odd"} \/ eof[s]
          /\ call' = [call EXCEPT ![s] = "leave"]
          /\ UNCHANGED replies
    /\ UNCHANGED <<recv, inFlow, sent, eof, hand, uid, records, overlapped>>

\* The same arm when func_Recv has closed the channel.
AgentGone(s) ==
    /\ call[s] = "loop" /\ ch[s] = <<>> /\ recv[s] = "done"
    /\ call' = [call EXCEPT ![s] = "leave"]
    /\ UNCHANGED <<recv, inFlow, sent, eof, hand, ch, uid, records, replies,
                   overlapped>>

\* The deferred LOGIC.Unregister(sess.UserId), whoever is registered ...
Removed_Never(s) == FALSE                                 \* mutant
Removed(s) == uid[s] \in Users

Unregister(s) ==
    /\ call[s] = "leave"
    /\ call' = [call EXCEPT ![s] = "close"]
    /\ records' = IF Removed(s) THEN [records EXCEPT ![uid[s]] = None]
                                ELSE records
    /\ UNCHANGED <<recv, inFlow, sent, eof, hand, ch, uid, replies,
                   overlapped>>

\* ... then close(sess_die), and the call returns.
Close(s) ==
    /\ call[s] = "close"
    /\ call' = [call EXCEPT ![s] = "done"]
    /\ UNCHANGED <<recv, inFlow, sent, eof, hand, ch, uid, records, replies,
                   overlapped>>

-----------------------------------------------------------------------------
StreamCall(s) == \/ Register(s) \/ BadMetadata(s) \/ HandleFrame(s)
                 \/ AgentGone(s) \/ Unregister(s) \/ Close(s)
func_Recv(s)  == Recv(s) \/ RecvFail(s) \/ RecvPut(s)

Finished == /\ \A s \in Streams : call[s] = "done" /\ recv[s] = "done"
            /\ UNCHANGED vars

Next ==
    \/ \E s \in Streams :
          \/ Open(s) \/ AgentClose(s) \/ \E k \in Kinds : AgentSend(s, k)
          \/ StreamCall(s) \/ func_Recv(s)
    \/ Finished

Spec == Init /\ [][Next]_vars

\* Both goroutines of a call are scheduled.
Fairness == \A s \in Streams : WF_vars(StreamCall(s)) /\ WF_vars(func_Recv(s))

-----------------------------------------------------------------------------
\* Types; a goroutine holds a frame exactly while it offers it.
TypeOK ==
    /\ call \in [Streams ->
                   {"idle", "start", "loop", "leave", "close", "done"}]
    /\ recv \in [Streams -> {"idle", "recv", "offer", "done"}]
    /\ inFlow \in [Streams -> Seq(Frame)] /\ sent \in [Streams -> Nat]
    /\ eof \in [Streams -> BOOLEAN]
    /\ hand \in [Streams -> Seq(Frame)] /\ ch \in [Streams -> Seq(Frame)]
    /\ \A s \in Streams : Len(hand[s]) = IF recv[s] = "offer" THEN 1 ELSE 0
    /\ \A s \in Streams : Len(ch[s]) <= 1
    /\ uid \in [Streams -> Users \cup {0}]
    /\ records \in [Users -> Streams \cup {None}]
    /\ replies \in [Streams -> Seq(Nat)] /\ overlapped \subseteq Users

Registered(s) == call[s] \in {"loop", "leave"} /\ uid[s] # 0

\* The registry never holds a stream that has left, and it holds every user
\* with a serving stream (Registry.go: the number of users on line), except
\* one who has had two streams at a time: the stream that ends removes the
\* entry of the other.
OnlineUsersRegistered ==
    \A u \in Users :
       /\ records[u] # None => Registered(records[u]) /\ uid[records[u]] = u
       /\ \A s \in Streams : Registered(s) /\ uid[s] = u /\ u \notin overlapped
                             => records[u] = s

\* While a call serves, every frame sent on its stream is answered or still on
\* its way, in the order it was sent: the numbers in the four places are the
\* last numbers sent, and the answers are earlier ones.
NumbersOf(q) == [i \in 1 .. Len(q) |-> q[i].n]
FramesKept ==
    \A s \in Streams : call[s] = "loop" /\ ~eof[s] =>
       LET way == NumbersOf(ch[s] \o hand[s] \o inFlow[s])
           gone == sent[s] - Len(way)
       IN  /\ way = [i \in 1 .. Len(way) |-> gone + i]
           /\ \A i \in 1 .. Len(replies[s]) : replies[s][i] <= gone
           /\ \A i, j \in 1 .. Len(replies[s]) :
                 i < j => replies[s][i] < replies[s][j]

\* Both goroutines of a call return once the gateway has closed the stream, or
\* the call has returned on an error.
CallEnds == \A s \in Streams :
    (eof[s] \/ call[s] = "done") ~> (call[s] = "done" /\ recv[s] = "done")
=============================================================================
