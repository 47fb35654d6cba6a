---------------------------- MODULE AgentSession ----------------------------
(***************************************************************************)
(* One client session of FKServer_Agent, the gateway: the four kinds of    *)
(* goroutine that serve one connection, the Go channels between them, the  *)
(* client on the far side of the connection and the game stream on the far *)
(* side of the gateway.                                                    *)
(*                                                                         *)
(*   client ==upNet==> reader --in--> handler --pending--> sender ==downNet==> client *)
(*                                    |    ^                               *)
(*                                 stream  MQ <-- fetcher(s) <== stream    *)
(*                                                                         *)
(* An unbuffered channel (in, pending) is a rendezvous: one action of both *)
(* goroutines.  What a goroutine holds and has not handed on is a sequence *)
(* of at most one element (offered, pushing, writing, fetch[f].hand).      *)
(*                                                                         *)
(* A keystream (RC4) is abstracted to <<epoch, packets enciphered so far>>:*)
(* two ends agree exactly when both components agree.  Plain is no cipher. *)
(***************************************************************************)
EXTENDS Integers, Sequences, FiniteSets

CONSTANTS
    MaxSend,    \* packets the client writes
    MaxSeeds,   \* key exchanges it asks for
    MaxLogins,  \* logins it asks for, hence streams and fetchers
    MaxGame,    \* frames the game servers send to this session
    UpBuf,      \* packets the connection buffers towards the agent
    SendBuf,    \* packets it buffers towards the client
    MQCap,      \* capacity of Session.MQ (512 in the code)
    RpmLimit,   \* CONST_RpmLimit (200)
    MaxMinutes, \* minutes the clock may run
    MayStall    \* whether a client may stop reading and stay connected

ASSUME BoundsAssumption ==
    /\ MaxSend \in Nat /\ MaxSeeds \in Nat /\ MaxLogins \in Nat
    /\ MaxGame \in Nat /\ MaxMinutes \in Nat /\ RpmLimit \in Nat
ASSUME BuffersAssumption ==
    UpBuf \in Nat \ {0} /\ SendBuf \in Nat \ {0} /\ MQCap \in Nat \ {0}
ASSUME StallAssumption == MayStall \in BOOLEAN

VARIABLES
    \* the client
    mode,       \* "up", "mute" (sends no more), "stalled" (nor reads), "closed"
    sent,       \* kinds of the packets it has numbered 1, 2, 3 ...
    tx, rx,     \* keystreams it enciphers and deciphers with
    awaiting,   \* TRUE between its get_seed_req and the get_seed_ack
    loggedIn,   \* it has read a user_login_succeed_ack
    got,        \* game frames it has read, in order
    garbled,    \* it has read a packet its keystream cannot decipher
    legal,      \* it has kept to the protocol so far
    \* the connection
    upNet, downNet,
    \* func_HandleNewClientConnect
    reader, offered,
    \* func_ClientSessionHandler and the fields of Session it owns
    handler, pushing, flag, packetCount, enc, dec, stream, armed,
    \* func_StartSendPacket
    sender, writing,
    \* the MQ channel, the fetcher goroutines, the game streams
    mq, fetch, streams,
    \* process-wide
    dieSign, minutes,
    \* history
    fwd,        \* numbers of the packets forwarded to a game server
    gsent,      \* frames the game servers have sent
    why         \* why the handler decided to return

client  == <<mode, sent, tx, rx, awaiting, loggedIn, got, garbled, legal>>
conn    == <<upNet, downNet>>
readerV == <<reader, offered>>
sess    == <<flag, packetCount, enc, dec, stream, armed>>
handV   == <<handler, pushing>>
senderV == <<sender, writing>>
game    == <<mq, fetch, streams, gsent>>
world   == <<dieSign, minutes>>
hist    == <<fwd, why>>
vars    == <<client, conn, readerV, sess, handV, senderV, game, world, hist>>

-----------------------------------------------------------------------------
Kinds == {"heart", "login", "seed", "game", "unknown", "runt"}

Plain      == <<0, 0>>
Advance(k) == IF k = Plain THEN k ELSE <<k[1], k[2] + 1>>
NewKey(k)  == <<k[1] + 1, 0>>

Streams  == 1 .. MaxLogins
Key      == Nat \X Nat
UpPacket == [seq : Nat, kind : Kinds, key : Key]
Body     == [kind : {"ack", "login", "seed", "game"}, n : Nat]
Packet   == [body : Body, key : Key]
Frame    == [type : {"message", "kick"}, n : Nat]
Reasons  == {"none", "seq", "proto", "nostream", "stream", "game", "rate",
             "die", "eof"}

DieClosed  == handler = "done"          \* sess.Die has been closed
ConnClosed == sender = "done"           \* buf.conn.Close() has been called
Encrypting == "ENCRYPT" \in flag

Count(k) == Cardinality({i \in DOMAIN sent : sent[i] = k})

Init ==
    /\ mode = "up" /\ sent = <<>> /\ tx = Plain /\ rx = Plain
    /\ awaiting = FALSE /\ loggedIn = FALSE /\ got = <<>>
    /\ garbled = FALSE /\ legal = TRUE
    /\ upNet = <<>> /\ downNet = <<>>
    /\ reader = "read" /\ offered = <<>>
    /\ handler = "select" /\ pushing = <<>>
    /\ flag = {} /\ packetCount = 0 /\ enc = Plain /\ dec = Plain
    /\ stream = 0 /\ armed = 0
    /\ sender = "select" /\ writing = <<>>
    /\ mq = <<>> /\ gsent = 0
    /\ fetch = [f \in Streams |-> [pc |-> "none", on |-> 0, hand |-> <<>>]]
    /\ streams = [s \in Streams |-> [st |-> "none", down |-> <<>>]]
    /\ dieSign = FALSE /\ minutes = 0
    /\ fwd = <<>> /\ why = "none"

-----------------------------------------------------------------------------
(* The client: send_proto of FKTools_Simulate numbers each packet, enciphers *)
(* it once the keys are exchanged, and reads replies.  The modelled client   *)
(* may also pipeline, and may break the protocol once, with its last packet: *)
(* out of order, over the rate, of an unknown kind, or repeated.             *)

Emit(n, k) ==
    /\ Len(upNet) < UpBuf
    /\ upNet' = Append(upNet, [seq |-> n, kind |-> k, key |-> tx])
    /\ tx' = Advance(tx)

Max1(n) == IF n = 0 THEN 1 ELSE n

\* What the protocol asks of a packet of kind k sent now.
InOrder(k) ==
    /\ k \in {"heart", "login", "seed", "game"}
    /\ ~awaiting
    /\ k = "game" => loggedIn
    /\ Len(sent) < RpmLimit * Max1(minutes)

ClientSend(k) ==
    /\ mode = "up" /\ legal /\ Len(sent) < MaxSend
    /\ k = "seed"  => Count("seed") < MaxSeeds
    /\ k = "login" => Count("login") < MaxLogins
    /\ Emit(Len(sent) + 1, k)
    /\ sent' = Append(sent, k)
    /\ legal' = (legal /\ InOrder(k))
    /\ awaiting' = (awaiting \/ k = "seed")
    /\ UNCHANGED <<mode, rx, loggedIn, got, garbled, downNet>>
    /\ UNCHANGED <<readerV, sess, handV, senderV, game, world, hist>>

\* A retry of the last packet, under its old number.
ClientResend ==
    /\ mode = "up" /\ sent # <<>> /\ legal
    /\ Emit(Len(sent), sent[Len(sent)])
    /\ legal' = FALSE
    /\ UNCHANGED <<mode, sent, rx, awaiting, loggedIn, got, garbled, downNet>>
    /\ UNCHANGED <<readerV, sess, handV, senderV, game, world, hist>>

ClientRecv ==
    /\ mode \in {"up", "mute"} /\ downNet # <<>>
    /\ downNet' = Tail(downNet)
    /\ LET p == Head(downNet)
       IN  IF p.key # rx
           THEN garbled' = TRUE /\ UNCHANGED <<tx, rx, awaiting, loggedIn, got>>
           ELSE /\ got' = IF p.body.kind = "game" THEN Append(got, p.body.n)
                                                  ELSE got
                /\ loggedIn' = (loggedIn \/ p.body.kind = "login")
                /\ awaiting' = (awaiting /\ p.body.kind # "seed")
                /\ tx' = IF p.body.kind = "seed" THEN <<p.body.n, 0>> ELSE tx
                /\ rx' = IF p.body.kind = "seed" THEN <<p.body.n, 0>>
                                                 ELSE Advance(rx)
                /\ UNCHANGED garbled
    /\ UNCHANGED <<mode, sent, legal, upNet>>
    /\ UNCHANGED <<readerV, sess, handV, senderV, game, world, hist>>

\* The peer falls silent, stops reading as well, or closes.
ClientMode(m) ==
    /\ \/ m = "mute"    /\ mode = "up"
       \/ m = "stalled" /\ mode \in {"up", "mute"} /\ MayStall
       \/ m = "closed"  /\ mode # "closed"
    /\ mode' = m
    /\ UNCHANGED <<sent, tx, rx, awaiting, loggedIn, got, garbled, legal>>
    /\ UNCHANGED <<conn, readerV, sess, handV, senderV, game, world, hist>>

\* A connection the agent has closed may drop what the client has not read.
ConnReset ==
    /\ ConnClosed /\ downNet # <<>>
    /\ downNet' = <<>>
    /\ UNCHANGED <<client, upNet, readerV, sess, handV, senderV, game, world,
                   hist>>

-----------------------------------------------------------------------------
(* func_HandleNewClientConnect: the reader goroutine.                       *)

ReaderRead ==
    /\ reader = "read" /\ upNet # <<>> /\ ~ConnClosed
    /\ offered' = <<Head(upNet)>> /\ upNet' = Tail(upNet)
    /\ reader' = "offer"
    /\ UNCHANGED <<client, downNet, sess, handV, senderV, game, world, hist>>

\* ReadFull fails: end of file or a reset, our own Close, or the read deadline
\* when nothing has come for CONST_ReadDeadline seconds.
ReadFails_NoDeadline == mode = "closed" \/ ConnClosed   \* mutant
ReadFails ==
    \/ mode = "closed"
    \/ mode \in {"mute", "stalled"} /\ upNet = <<>>
    \/ ConnClosed

\* The deferred close(in) is the "done" state.
ReaderFail ==
    /\ reader = "read" /\ ReadFails
    /\ reader' = "done"
    /\ UNCHANGED <<client, conn, offered, sess, handV, senderV, game, world,
                   hist>>

\* The other arm of the reader's select: <-sess.Die.
ReaderDie ==
    /\ reader = "offer" /\ DieClosed
    /\ reader' = "done" /\ offered' = <<>>
    /\ UNCHANGED <<client, conn, sess, handV, senderV, game, world, hist>>

-----------------------------------------------------------------------------
(* func_ClientSessionHandler: the session's main loop.                      *)

Return(w) ==
    /\ handler' = "return" /\ why' = w
    /\ UNCHANGED pushing

\* func_CreateAndSendMsgPacket up to the blocking send on buf.pending, with
\* f the session's flags and e its encoder when it is called.
KeyFor_Early(f, e) ==                                    \* mutant
    IF f \cap {"ENCRYPT", "KEYEXCG"} # {} THEN e ELSE Plain
KeyFor(f, e) == IF "ENCRYPT" \in f THEN e ELSE Plain

FlagsAfter(f) ==
    IF "ENCRYPT" \notin f /\ "KEYEXCG" \in f
    THEN (f \ {"KEYEXCG"}) \cup {"ENCRYPT"} ELSE f

CreateAndSend(body, f, e) ==
    /\ handler' = "push"
    /\ pushing' = <<[body |-> body, key |-> KeyFor(f, e)]>>
    /\ enc' = IF "ENCRYPT" \in f THEN Advance(e) ELSE e
    /\ flag' = FlagsAfter(f)
    /\ UNCHANGED why

Kick(w) ==
    /\ flag' = flag \cup {"KICKED"}
    /\ Return(w)
    /\ UNCHANGED enc

\* The decoder after the packet has been deciphered in place.
DecAfter_Stuck == dec                                    \* mutant
DecAfter == IF Encrypting THEN Advance(dec) ELSE dec

\* Whether the packet deciphers to what the client enciphered; one that does
\* not, or is too short, shows a packet number that is not the expected one.
Legible(p) ==
    /\ p.key = (IF Encrypting THEN dec ELSE Plain)
    /\ p.kind # "runt"

SeqOK_Unchecked(p) == Legible(p)                         \* mutant
SeqOK(p) == Legible(p) /\ p.seq = packetCount + 1

\* func_UserMsgHandler and the handlers it dispatches to.
Reject(p) ==
    /\ ~SeqOK(p)
    /\ Kick("seq") /\ dec' = DecAfter
    /\ UNCHANGED <<stream, streams, fetch, fwd>>

Unknown(p) ==
    /\ SeqOK(p) /\ p.kind = "unknown"
    /\ Kick("proto") /\ dec' = DecAfter
    /\ UNCHANGED <<stream, streams, fetch, fwd>>

P_heart_beat_req(p) ==
    /\ SeqOK(p) /\ p.kind = "heart"
    /\ CreateAndSend([kind |-> "ack", n |-> 0], flag, enc) /\ dec' = DecAfter
    /\ UNCHANGED <<stream, streams, fetch, fwd>>

P_get_seed_req(p) ==
    /\ SeqOK(p) /\ p.kind = "seed"
    /\ LET e == NewKey(enc)
       IN  /\ dec' = e
           /\ CreateAndSend([kind |-> "seed", n |-> e[1]],
                            flag \cup {"KEYEXCG"}, e)
    /\ UNCHANGED <<stream, streams, fetch, fwd>>

\* A login that finds no game service, or cannot open a stream to it, returns
\* nil: no answer and no kick.
LoginFails(p) ==
    /\ SeqOK(p) /\ p.kind = "login"
    /\ handler' = "select" /\ dec' = DecAfter
    /\ UNCHANGED <<pushing, why, flag, enc, stream, streams, fetch, fwd>>

P_user_login_req(p) ==
    /\ SeqOK(p) /\ p.kind = "login"
    /\ \E s \in Streams :
          /\ streams[s].st = "none"
          /\ \A r \in Streams : r < s => streams[r].st # "none"
          /\ stream' = s
          /\ streams' = [streams EXCEPT ![s].st = "open"]
          /\ fetch' = [fetch EXCEPT ![s].pc = "recv", ![s].on = s]
    /\ CreateAndSend([kind |-> "login", n |-> 0], flag, enc) /\ dec' = DecAfter
    /\ UNCHANGED fwd

\* func_ForwardMsgToGameServer: no stream, Send fails on a stream that has
\* ended, or the frame is sent (and lost when the far end has just ended).
Forward(p) ==
    /\ SeqOK(p) /\ p.kind = "game"
    /\ dec' = DecAfter
    /\ \/ stream = 0 /\ Kick("nostream") /\ UNCHANGED fwd
       \/ /\ stream # 0 /\ streams[stream].st = "ended"
          /\ Kick("stream") /\ UNCHANGED fwd
       \/ /\ stream # 0 /\ handler' = "select"
          /\ fwd' = IF streams[stream].st = "open" THEN Append(fwd, p.seq)
                                                   ELSE fwd
          /\ UNCHANGED <<pushing, why, flag, enc>>
    /\ UNCHANGED <<stream, streams, fetch>>

func_UserMsgHandler(p) ==
    \/ Reject(p) \/ Unknown(p)
    \/ P_heart_beat_req(p) \/ P_get_seed_req(p)
    \/ LoginFails(p) \/ P_user_login_req(p) \/ Forward(p)

\* case msg, ok := <-in, with the reader's in <- payload.
HandlerPacket ==
    /\ handler = "select" /\ reader = "offer"
    /\ reader' = "read" /\ offered' = <<>>
    /\ packetCount' = packetCount + 1
    /\ func_UserMsgHandler(offered[1])
    /\ UNCHANGED <<client, conn, armed, senderV, mq, gsent, world>>

\* The same arm when the reader has closed the channel.
HandlerEOF ==
    /\ handler = "select" /\ reader = "done"
    /\ Return("eof")
    /\ UNCHANGED <<client, conn, readerV, sess, senderV, game, world, fwd>>

\* case frame := <-sess.MQ.
HandlerFrame ==
    /\ handler = "select" /\ mq # <<>>
    /\ mq' = Tail(mq)
    /\ \/ /\ Head(mq).type = "message"
          /\ CreateAndSend([kind |-> "game", n |-> Head(mq).n], flag, enc)
       \/ Head(mq).type = "kick" /\ Kick("game")
    /\ UNCHANGED <<packetCount, dec, stream, armed>>
    /\ UNCHANGED <<client, conn, readerV, senderV, fetch, streams, gsent, world,
                   fwd>>

\* case <-min_timer: func_OnTimer_OneMinute, then the timer is armed again.
HandlerTimer ==
    /\ handler = "select" /\ minutes > armed
    /\ armed' = minutes
    /\ IF packetCount > RpmLimit * minutes
       THEN Kick("rate")
       ELSE UNCHANGED <<handV, flag, enc, why>>
    /\ UNCHANGED <<packetCount, dec, stream>>
    /\ UNCHANGED <<client, conn, readerV, senderV, game, world, fwd>>

\* case <-DIE_SIGN.
HandlerDie ==
    /\ handler = "select" /\ dieSign
    /\ Kick("die")
    /\ UNCHANGED <<packetCount, dec, stream, armed>>
    /\ UNCHANGED <<client, conn, readerV, senderV, game, world, fwd>>

\* The deferred functions: close(sess.Die), Stream.CloseSend, WaitGroup.Done.
AfterCloseSend_Skipped == streams                        \* mutant
AfterCloseSend ==
    [s \in Streams |-> IF s = stream /\ streams[s].st = "open"
                       THEN [streams[s] EXCEPT !.st = "closing"]
                       ELSE streams[s]]

HandlerExit ==
    /\ handler = "return"
    /\ handler' = "done"
    /\ streams' = AfterCloseSend
    /\ UNCHANGED <<client, conn, readerV, sess, pushing, senderV, mq, fetch,
                   gsent, world, hist>>

-----------------------------------------------------------------------------
(* func_StartSendPacket: the sender goroutine.                              *)

\* case data := <-buf.pending, with the handler's buf.pending <- data.
SenderTake ==
    /\ sender = "select" /\ handler = "push"
    /\ sender' = "write" /\ writing' = pushing
    /\ handler' = "select" /\ pushing' = <<>>
    /\ UNCHANGED <<client, conn, readerV, sess, game, world, hist>>

\* func_EncapsulationAndSendPacket: a Write that fails is ignored, a Write on
\* a full connection blocks (no write deadline is ever set).
SenderWrite ==
    /\ sender = "write"
    /\ \/ mode = "closed" /\ UNCHANGED downNet
       \/ mode # "closed" /\ Len(downNet) < SendBuf
          /\ downNet' = downNet \o writing
    /\ sender' = "select" /\ writing' = <<>>
    /\ UNCHANGED <<client, upNet, readerV, sess, handV, game, world, hist>>

\* case <-buf.ctrl: close(buf.pending), conn.Close.
StopReady_InHand == sender \in {"select", "write"} /\ DieClosed       \* mutant
StopReady_OnEOF  == sender = "select" /\ reader = "done"             \* mutant
StopReady        == sender = "select" /\ DieClosed

SenderStop ==
    /\ StopReady
    /\ sender' = "done"
    /\ UNCHANGED <<client, conn, readerV, sess, handV, writing, game, world,
                   hist>>

-----------------------------------------------------------------------------
(* The fetcher goroutines of P_user_login_req.  Each iteration receives from *)
(* whatever sess.Stream is when the iteration starts.                        *)

FetchRecv(f) ==
    /\ fetch[f].pc = "recv" /\ streams[fetch[f].on].down # <<>>
    /\ fetch' = [fetch EXCEPT ![f].pc = "put",
                              ![f].hand = <<Head(streams[fetch[f].on].down)>>]
    /\ streams' = [streams EXCEPT ![fetch[f].on].down = Tail(@)]
    /\ UNCHANGED <<client, conn, readerV, sess, handV, senderV, mq, gsent,
                   world, hist>>

FetchEnd(f) ==
    /\ fetch[f].pc = "recv"
    /\ streams[fetch[f].on].down = <<>> /\ streams[fetch[f].on].st = "ended"
    /\ fetch' = [fetch EXCEPT ![f].pc = "done"]
    /\ UNCHANGED <<client, conn, readerV, sess, handV, senderV, mq, streams,
                   gsent, world, hist>>

\* select { case sess.MQ <- *in: case <-sess.Die: }, then the loop again.
Enqueue_OrDrop(f) ==                                     \* mutant
    \/ Len(mq) < MQCap /\ mq' = mq \o fetch[f].hand
    \/ (DieClosed \/ handler # "select") /\ UNCHANGED mq
Enqueue(f) ==
    \/ Len(mq) < MQCap /\ mq' = mq \o fetch[f].hand
    \/ DieClosed /\ UNCHANGED mq

FetchPut(f) ==
    /\ fetch[f].pc = "put"
    /\ Enqueue(f)
    /\ fetch' = [fetch EXCEPT ![f].pc = "recv", ![f].on = stream,
                              ![f].hand = <<>>]
    /\ UNCHANGED <<client, conn, readerV, sess, handV, senderV, streams, gsent,
                   world, hist>>

-----------------------------------------------------------------------------
(* The environment: the game server behind a stream, SIGTERM, the clock.    *)

Live(s) == streams[s].st \in {"open", "closing"}

GameSend(s) ==
    /\ Live(s) /\ gsent < MaxGame
    /\ gsent' = gsent + 1
    /\ streams' = [streams EXCEPT
                     ![s].down = Append(@, [type |-> "message", n |-> gsent + 1])]
    /\ UNCHANGED <<client, conn, readerV, sess, handV, senderV, mq, fetch,
                   world, hist>>

\* The game's Stream method sends Game_Kick and returns.
GameKick(s) ==
    /\ Live(s)
    /\ streams' = [streams EXCEPT ![s] =
                     [st   |-> "ended",
                      down |-> Append(@.down, [type |-> "kick", n |-> 0])]]
    /\ UNCHANGED <<client, conn, readerV, sess, handV, senderV, mq, fetch,
                   gsent, world, hist>>

\* It returns, after the end of its input or on an error, or its host fails
\* and the frames in flight are lost.
GameEnd(s) ==
    /\ Live(s)
    /\ \E kept \in {streams[s].down, <<>>} :
          streams' = [streams EXCEPT ![s] = [st |-> "ended", down |-> kept]]
    /\ UNCHANGED <<client, conn, readerV, sess, handV, senderV, mq, fetch,
                   gsent, world, hist>>

\* func_HandlerUnixSign closes DIE_SIGN.
Terminate ==
    /\ ~dieSign /\ dieSign' = TRUE
    /\ UNCHANGED <<client, conn, readerV, sess, handV, senderV, game, minutes,
                   hist>>

Minute ==
    /\ minutes < MaxMinutes /\ handler # "done"
    /\ minutes' = minutes + 1
    /\ UNCHANGED <<client, conn, readerV, sess, handV, senderV, game, dieSign,
                   hist>>

\* Every goroutine of the session has returned.
Over ==
    /\ reader = "done" /\ handler = "done" /\ sender = "done"
    /\ \A f \in Streams : fetch[f].pc \in {"none", "done"}

Finished == Over /\ mode = "closed" /\ UNCHANGED vars

-----------------------------------------------------------------------------
Client ==
    \/ \E k \in Kinds : ClientSend(k)
    \/ ClientResend \/ ClientRecv \/ ConnReset
    \/ \E m \in {"mute", "stalled", "closed"} : ClientMode(m)
Reader  == ReaderRead \/ ReaderFail \/ ReaderDie
Handler == \/ HandlerPacket \/ HandlerEOF \/ HandlerFrame \/ HandlerTimer
           \/ HandlerDie \/ HandlerExit
Sender  == SenderTake \/ SenderWrite \/ SenderStop
Fetcher(f) == FetchRecv(f) \/ FetchEnd(f) \/ FetchPut(f)
Game(s) == GameSend(s) \/ GameKick(s) \/ GameEnd(s)

Next ==
    \/ Client \/ Reader \/ Handler \/ Sender
    \/ \E f \in Streams : Fetcher(f)
    \/ \E s \in Streams : Game(s)
    \/ Terminate \/ Minute \/ Finished

Spec == Init /\ [][Next]_vars

\* The Go scheduler runs every runnable goroutine; select chooses among its
\* ready arms at random, so an arm ready again and again is taken (SF).  A
\* client that is not stalled keeps reading, and a game server whose input has
\* ended returns.
Fairness ==
    /\ WF_vars(ReaderRead) /\ WF_vars(ReaderFail) /\ WF_vars(ReaderDie)
    /\ WF_vars(Handler) /\ SF_vars(HandlerEOF) /\ SF_vars(HandlerDie)
    /\ WF_vars(Sender)
    /\ \A f \in Streams : WF_vars(Fetcher(f))
    /\ WF_vars(ClientRecv)
    /\ \A s \in Streams : WF_vars(streams[s].st = "closing" /\ GameEnd(s))

FairSpec == Spec /\ Fairness

-----------------------------------------------------------------------------
(* What the session promises.                                               *)

ClientType ==
    /\ mode \in {"up", "mute", "stalled", "closed"}
    /\ sent \in Seq(Kinds) /\ tx \in Key /\ rx \in Key
    /\ awaiting \in BOOLEAN /\ loggedIn \in BOOLEAN /\ got \in Seq(Nat)
    /\ garbled \in BOOLEAN /\ legal \in BOOLEAN
ConnType == upNet \in Seq(UpPacket) /\ downNet \in Seq(Packet)
ReaderType ==
    /\ reader \in {"read", "offer", "done"} /\ offered \in Seq(UpPacket)
    /\ Len(offered) = IF reader = "offer" THEN 1 ELSE 0
SessType ==
    /\ flag \in SUBSET {"KEYEXCG", "ENCRYPT", "KICKED"}
    /\ packetCount \in Nat /\ enc \in Key /\ dec \in Key
    /\ stream \in 0 .. MaxLogins /\ armed \in Nat
HandlerType ==
    /\ handler \in {"select", "push", "return", "done"}
    /\ pushing \in Seq(Packet)
    /\ Len(pushing) = IF handler = "push" THEN 1 ELSE 0
SenderType ==
    /\ sender \in {"select", "write", "done"} /\ writing \in Seq(Packet)
    /\ Len(writing) = IF sender = "write" THEN 1 ELSE 0
Fetch  == [pc : {"none", "recv", "put", "done"}, on : 0 .. MaxLogins,
           hand : Seq(Frame)]
Stream == [st : {"none", "open", "closing", "ended"}, down : Seq(Frame)]
GameType ==
    /\ mq \in Seq(Frame) /\ gsent \in Nat
    /\ fetch \in [Streams -> Fetch] /\ streams \in [Streams -> Stream]
    /\ \A f \in Streams : fetch[f].pc # "none" => fetch[f].on # 0 /\ stream # 0
WorldType == dieSign \in BOOLEAN /\ minutes \in Nat
HistType  == fwd \in Seq(Nat) /\ why \in Reasons

\* Every variable keeps to its type, a goroutine holds a value exactly when it
\* is at the statement that hands the value on, and a fetcher that runs has a
\* stream to receive from.
TypeOK ==
    /\ ClientType /\ ConnType /\ ReaderType /\ SessType /\ HandlerType
    /\ SenderType /\ GameType /\ WorldType /\ HistType

\* A game server receives each game packet of the client at most once and in
\* the order of their numbers, and never one the handler has not counted: the
\* comment of UserMsgHandler.go (packet numbers must strictly increase, against
\* replay) holds whatever the client repeats.
ForwardedOnce ==
    /\ \A i \in 1 .. Len(fwd) :
          fwd[i] \in 1 .. packetCount /\ sent[fwd[i]] = "game"
    /\ \A i, j \in 1 .. Len(fwd) : i < j => fwd[i] < fwd[j]

\* A client that keeps to the protocol (numbers, one key exchange at a time,
\* game packets after login, the rate) is never thrown out for the packet
\* number, the protocol number, a missing stream or the rate.
WellBehavedNotKicked ==
    legal => why \notin {"seq", "proto", "nostream", "rate"}

\* The packets pushed to the client, and the frames the handler has not taken.
Written == downNet \o writing \o pushing
Waiting == mq \o fetch[1].hand \o streams[1].down

Games == {i \in DOMAIN Written : Written[i].body.kind = "game"}
Taken == gsent - Len(Waiting)

\* What the client has read, what is pushed to it and what waits are together
\* the frames 1 .. gsent, each once and in order.
NoneAstray ==
    /\ got = [i \in 1 .. Len(got) |-> i]
    /\ {Written[i].body.n : i \in Games} = Len(got) + 1 .. Taken
    /\ \A i, j \in Games : i < j => Written[i].body.n < Written[j].body.n
    /\ \A i \in 1 .. Len(Waiting) :
          Waiting[i] = [type |-> "message", n |-> Taken + i]

\* The client deciphers every packet it reads: the switch of
\* func_CreateAndSendMsgPacket from plain to enciphered packets falls exactly
\* between the seed ack and the packet after it, whatever frames are pushed
\* around it (one key exchange: the answer to a second one is enciphered with
\* the key it announces).  And while the session serves a connected client no
\* frame is lost, doubled or overtaken on its way: the five places a frame can
\* be in hold together exactly the frames the server has sent (one login).
DownstreamIntact ==
    /\ ~garbled
    /\ (/\ handler \in {"select", "push"} /\ mode # "closed"
        /\ streams[1].st # "ended")
       => NoneAstray

\* The handler never sends on buf.pending after the sender closed it, which
\* would panic.
PendingOpenWhilePushing == handler = "push" => sender # "done"

\* Once the handler's deferred cleanup has run no stream of the session is
\* left open towards a game server (ClientSessionHandler.go: in any case the
\* cleanup is done in the end), but for those a later login has replaced.
StreamsReleased ==
    DieClosed => \A s \in Streams : streams[s].st = "open" => s < stream

\* A session whose client has fallen silent or gone, or whose server is being
\* shut down, ends: reader, handler, sender and fetchers all return.
SessionEnds == (mode \in {"mute", "stalled", "closed"} \/ dieSign) ~> Over

\* The handler returns, and releases its count of SYNC_WAITGROUP, once SIGTERM
\* has closed DIE_SIGN.
ShutdownCompletes == dieSign ~> DieClosed
=============================================================================
