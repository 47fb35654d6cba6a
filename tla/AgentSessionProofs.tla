-------------------------- MODULE AgentSessionProofs --------------------------
(* For every bound and buffer size: the session's variables keep their types, *)
(* a game server receives the client's packets at most once and in order, the *)
(* handler never sends on the channel the sender has closed, its cleanup      *)
(* leaves no stream open, and a client that keeps to the protocol is not      *)
(* thrown out.  With one login the session relays the client's game packets   *)
(* as a Fifo; with one key exchange the client deciphers all it reads; and    *)
(* with both it relays the frames of the game server as a Fifo.               *)
EXTENDS AgentRelay, FiniteSetTheorems, SequenceTheorems, TLAPS

-----------------------------------------------------------------------------
(* Types.                                                                   *)

\* A group of variables a step leaves alone keeps its type.
LEMMA Frames ==
  /\ ClientType /\ UNCHANGED client => ClientType'
  /\ ConnType /\ UNCHANGED conn => ConnType'
  /\ ReaderType /\ UNCHANGED readerV => ReaderType'
  /\ SessType /\ UNCHANGED sess => SessType'
  /\ HandlerType /\ UNCHANGED handV => HandlerType'
  /\ SenderType /\ UNCHANGED senderV => SenderType'
  /\ GameType /\ stream' = stream /\ UNCHANGED game => GameType'
  /\ WorldType /\ UNCHANGED world => WorldType'
  /\ HistType /\ UNCHANGED hist => HistType'
<1>1. ClientType /\ UNCHANGED client => ClientType'
  BY DEF ClientType, client
<1>2. ConnType /\ UNCHANGED conn => ConnType'
  BY DEF ConnType, conn
<1>3. ReaderType /\ UNCHANGED readerV => ReaderType'
  BY DEF ReaderType, readerV
<1>4. SessType /\ UNCHANGED sess => SessType'
  BY DEF SessType, sess
<1>5. HandlerType /\ UNCHANGED handV => HandlerType'
  BY DEF HandlerType, handV
<1>6. SenderType /\ UNCHANGED senderV => SenderType'
  BY DEF SenderType, senderV
<1>7. GameType /\ stream' = stream /\ UNCHANGED game => GameType'
  BY DEF GameType, game
<1>8. WorldType /\ UNCHANGED world => WorldType'
  BY DEF WorldType, world
<1>9. HistType /\ UNCHANGED hist => HistType'
  BY DEF HistType, hist
<1> QED BY <1>1, <1>2, <1>3, <1>4, <1>5, <1>6, <1>7, <1>8, <1>9

LEMMA KeyType ==
  \A k \in Key : /\ Plain \in Key /\ Advance(k) \in Key /\ NewKey(k) \in Key
  BY DEF Key, Plain, Advance, NewKey

LEMMA EmitType ==
  ASSUME ClientType, ConnType, NEW n \in Nat, NEW k \in Kinds, Emit(n, k)
  PROVE  tx' \in Key /\ upNet' \in Seq(UpPacket)
<1>1. [seq |-> n, kind |-> k, key |-> tx] \in UpPacket
  BY DEF ClientType, UpPacket
<1> QED BY <1>1, KeyType DEF ClientType, ConnType, Emit

LEMMA SendType ==
  ASSUME TypeOK, NEW k \in Kinds, ClientSend(k)
  PROVE  TypeOK'
<1>1. Len(sent) + 1 \in Nat
  BY DEF TypeOK, ClientType
<1>2. tx' \in Key /\ upNet' \in Seq(UpPacket)
  BY <1>1, EmitType DEF TypeOK, ClientSend
<1>3. sent' \in Seq(Kinds)
  BY DEF TypeOK, ClientType, ClientSend
<1>4. legal' \in BOOLEAN /\ awaiting' \in BOOLEAN
  BY DEF TypeOK, ClientType, ClientSend
<1>5. ClientType' /\ ConnType'
  BY <1>2, <1>3, <1>4 DEF TypeOK, ClientType, ConnType, ClientSend
<1> QED BY <1>5, Frames DEF TypeOK, ClientSend, sess

LEMMA ResendType ==
  ASSUME TypeOK, ClientResend
  PROVE  TypeOK'
<1>1. Len(sent) \in Nat /\ sent[Len(sent)] \in Kinds
  BY DEF TypeOK, ClientType, ClientResend
<1>2. tx' \in Key /\ upNet' \in Seq(UpPacket)
  BY <1>1, EmitType DEF TypeOK, ClientResend
<1>3. ClientType' /\ ConnType'
  BY <1>2 DEF TypeOK, ClientType, ConnType, ClientResend
<1> QED BY <1>3, Frames DEF TypeOK, ClientResend, sess

LEMMA RecvType ==
  ASSUME TypeOK, ClientRecv
  PROVE  TypeOK'
<1> DEFINE p == Head(downNet)
<1>1. p \in Packet /\ downNet' \in Seq(Packet)
  BY DEF TypeOK, ConnType, ClientRecv
<1>2. p.body.n \in Nat /\ <<p.body.n, 0>> \in Key
  BY <1>1 DEF Packet, Body, Key
<1>3. got' \in Seq(Nat) /\ tx' \in Key /\ rx' \in Key
  <2>1. got \in Seq(Nat) /\ tx \in Key /\ rx \in Key /\ Advance(rx) \in Key
    BY KeyType DEF TypeOK, ClientType
  <2>2. Append(got, p.body.n) \in Seq(Nat)
    BY <1>2, <2>1
  <2>3. CASE p.key # rx
    BY <2>1, <2>3 DEF ClientRecv
  <2>4. CASE p.key = rx
    BY <1>2, <2>1, <2>2, <2>4 DEF ClientRecv
  <2> QED BY <2>3, <2>4
<1>4. garbled' \in BOOLEAN /\ loggedIn' \in BOOLEAN /\ awaiting' \in BOOLEAN
  BY DEF TypeOK, ClientType, ClientRecv
<1>5. ClientType' /\ ConnType'
  BY <1>1, <1>3, <1>4 DEF TypeOK, ClientType, ConnType, ClientRecv
<1> QED BY <1>5, Frames DEF TypeOK, ClientRecv, sess

LEMMA ClientStepType ==
  ASSUME TypeOK, Client
  PROVE  TypeOK'
<1>1. CASE \E k \in Kinds : ClientSend(k)
  BY <1>1, SendType
<1>2. CASE ClientResend
  BY <1>2, ResendType
<1>3. CASE ClientRecv
  BY <1>3, RecvType
<1>4. CASE ConnReset
  <2>1. ConnType'
    BY <1>4 DEF TypeOK, ConnType, ConnReset
  <2> QED BY <1>4, <2>1, Frames DEF TypeOK, ConnReset, sess
<1>5. CASE \E m \in {"mute", "stalled", "closed"} : ClientMode(m)
  <2>1. ClientType'
    BY <1>5 DEF TypeOK, ClientType, ClientMode
  <2> QED BY <1>5, <2>1, Frames DEF TypeOK, ClientMode, sess
<1> QED BY <1>1, <1>2, <1>3, <1>4, <1>5 DEF Client

LEMMA ReaderStepType ==
  ASSUME TypeOK, Reader
  PROVE  TypeOK'
<1>1. CASE ReaderRead
  <2>0. upNet \in Seq(UpPacket) /\ upNet # <<>> /\ downNet \in Seq(Packet)
    BY <1>1 DEF TypeOK, ConnType, ReaderRead
  <2>a. Head(upNet) \in UpPacket /\ Tail(upNet) \in Seq(UpPacket)
    BY <2>0
  <2>b. <<Head(upNet)>> \in Seq(UpPacket) /\ Len(<<Head(upNet)>>) = 1
    BY <2>a
  <2>1. ConnType' /\ ReaderType'
    BY <1>1, <2>0, <2>a, <2>b DEF ConnType, ReaderType, ReaderRead
  <2> QED BY <1>1, <2>1, Frames DEF TypeOK, ReaderRead, sess
<1>2. CASE ReaderFail
  <2>1. ReaderType'
    BY <1>2 DEF TypeOK, ReaderType, ReaderFail
  <2> QED BY <1>2, <2>1, Frames DEF TypeOK, ReaderFail, sess
<1>3. CASE ReaderDie
  <2>1. ReaderType'
    BY <1>3 DEF TypeOK, ReaderType, ReaderDie
  <2> QED BY <1>3, <2>1, Frames DEF TypeOK, ReaderDie, sess
<1> QED BY <1>1, <1>2, <1>3 DEF Reader

LEMMA SenderStepType ==
  ASSUME TypeOK, Sender
  PROVE  TypeOK'
<1>1. CASE SenderTake
  <2>1. HandlerType' /\ SenderType'
    BY <1>1 DEF TypeOK, HandlerType, SenderType, SenderTake
  <2> QED BY <1>1, <2>1, Frames DEF TypeOK, SenderTake, sess
<1>2. CASE SenderWrite
  <2>1. SenderType'
    BY <1>2 DEF TypeOK, SenderType, SenderWrite
  <2>2. ConnType'
    <3>1. /\ downNet \in Seq(Packet) /\ writing \in Seq(Packet)
          /\ upNet \in Seq(UpPacket)
      BY DEF TypeOK, SenderType, ConnType
    <3>2. downNet \o writing \in Seq(Packet)
      BY <3>1
    <3>3. downNet' \in {downNet, downNet \o writing} /\ upNet' = upNet
      BY <1>2 DEF SenderWrite
    <3> QED BY <3>1, <3>2, <3>3 DEF ConnType
  <2> QED BY <1>2, <2>1, <2>2, Frames DEF TypeOK, SenderWrite, sess
<1>3. CASE SenderStop
  <2>1. SenderType'
    BY <1>3 DEF TypeOK, SenderType, SenderStop, StopReady
  <2> QED BY <1>3, <2>1, Frames DEF TypeOK, SenderStop, sess
<1> QED BY <1>1, <1>2, <1>3 DEF Sender

LEMMA FetcherStepType ==
  ASSUME TypeOK, NEW f \in Streams, Fetcher(f)
  PROVE  TypeOK'
<1>0. /\ fetch[f] \in Fetch /\ mq \in Seq(Frame) /\ gsent \in Nat
      /\ fetch \in [Streams -> Fetch] /\ streams \in [Streams -> Stream]
      /\ stream \in 0 .. MaxLogins
      /\ \A g \in Streams : fetch[g].pc # "none" => fetch[g].on # 0 /\ stream # 0
  BY DEF TypeOK, GameType, SessType
<1>1. CASE FetchRecv(f)
  <2> DEFINE s == fetch[f].on
  <2>1. s \in Streams
    BY <1>0, <1>1, BoundsAssumption DEF FetchRecv, Fetch, Streams
  <2>2. streams[s].down \in Seq(Frame) /\ streams[s].down # <<>>
    BY <1>0, <1>1, <2>1 DEF FetchRecv, Stream
  <2>3. /\ <<Head(streams[s].down)>> \in Seq(Frame)
        /\ Tail(streams[s].down) \in Seq(Frame)
    BY <2>2
  <2>4. fetch' \in [Streams -> Fetch]
    BY <1>0, <1>1, <2>3 DEF FetchRecv, Fetch
  <2>5. streams' \in [Streams -> Stream]
    BY <1>0, <1>1, <2>1, <2>3 DEF FetchRecv, Stream
  <2>6. \A g \in Streams : fetch'[g].pc # "none" => fetch'[g].on # 0 /\ stream # 0
    BY <1>0, <1>1, <2>1 DEF FetchRecv, Fetch
  <2>7. GameType'
    BY <1>0, <1>1, <2>4, <2>5, <2>6 DEF FetchRecv, GameType, sess
  <2> QED BY <1>1, <2>7, Frames DEF TypeOK, FetchRecv
<1>2. CASE FetchEnd(f)
  <2>1. fetch' \in [Streams -> Fetch]
    BY <1>0, <1>2 DEF FetchEnd, Fetch
  <2>2. \A g \in Streams : fetch'[g].pc # "none" => fetch'[g].on # 0 /\ stream # 0
    BY <1>0, <1>2 DEF FetchEnd, Fetch
  <2>3. GameType'
    BY <1>0, <1>2, <2>1, <2>2 DEF FetchEnd, GameType, sess
  <2> QED BY <1>2, <2>3, Frames DEF TypeOK, FetchEnd
<1>3. CASE FetchPut(f)
  <2>a. <<>> \in Seq(Frame)
    OBVIOUS
  <2>b. fetch[f].pc = "put"
    BY <1>3 DEF FetchPut
  <2>0. <<>> \in Seq(Frame) /\ stream # 0
    BY <1>0, <2>a, <2>b
  <2>1. fetch' \in [Streams -> Fetch]
    BY <1>0, <1>3, <2>0 DEF FetchPut, Fetch
  <2>2. \A g \in Streams : fetch'[g].pc # "none" => fetch'[g].on # 0 /\ stream # 0
    BY <1>0, <1>3, <2>0 DEF FetchPut, Fetch
  <2>3. mq' \in Seq(Frame)
    <3>1. fetch[f].hand \in Seq(Frame)
      BY <1>0 DEF Fetch
    <3>2. mq \o fetch[f].hand \in Seq(Frame)
      BY <1>0, <3>1
    <3>3. mq' \in {mq, mq \o fetch[f].hand}
      BY <1>3 DEF FetchPut, Enqueue
    <3> QED BY <1>0, <3>2, <3>3
  <2>4. GameType'
    BY <1>0, <1>3, <2>1, <2>2, <2>3 DEF FetchPut, GameType, sess
  <2> QED BY <1>3, <2>4, Frames DEF TypeOK, FetchPut
<1> QED BY <1>1, <1>2, <1>3 DEF Fetcher

LEMMA GameStepType ==
  ASSUME TypeOK, NEW s \in Streams, Game(s)
  PROVE  TypeOK'
<1>0. /\ streams[s] \in Stream /\ gsent \in Nat /\ gsent + 1 \in Nat
      /\ streams \in [Streams -> Stream] /\ streams[s].down \in Seq(Frame)
  BY DEF TypeOK, GameType, Stream
<1>1. CASE GameSend(s)
  <2>1. [type |-> "message", n |-> gsent + 1] \in Frame
    BY <1>0 DEF Frame
  <2>2. Append(streams[s].down, [type |-> "message", n |-> gsent + 1]) \in Seq(Frame)
    BY <1>0, <2>1
  <2>3. streams' \in [Streams -> Stream]
    BY <1>0, <1>1, <2>2 DEF GameSend, Stream
  <2>4. GameType'
    BY <1>0, <1>1, <2>3 DEF TypeOK, GameSend, GameType, sess
  <2> QED BY <1>1, <2>4, Frames DEF TypeOK, GameSend
<1>2. CASE GameKick(s)
  <2>1. [type |-> "kick", n |-> 0] \in Frame
    BY DEF Frame
  <2>2. Append(streams[s].down, [type |-> "kick", n |-> 0]) \in Seq(Frame)
    BY <1>0, <2>1
  <2>3. streams' \in [Streams -> Stream]
    BY <1>0, <1>2, <2>2 DEF GameKick, Stream
  <2>4. GameType'
    BY <1>2, <2>3 DEF TypeOK, GameKick, GameType, sess
  <2> QED BY <1>2, <2>4, Frames DEF TypeOK, GameKick
<1>3. CASE GameEnd(s)
  <2>0. PICK kept \in {streams[s].down, <<>>} :
           streams' = [streams EXCEPT ![s] = [st |-> "ended", down |-> kept]]
    BY <1>3 DEF GameEnd
  <2>a. [st |-> "ended", down |-> kept] \in Stream
    <3>0. <<>> \in Seq(Frame)
      OBVIOUS
    <3>1. kept \in Seq(Frame)
      BY <1>0, <2>0, <3>0
    <3> QED BY <3>1 DEF Stream
  <2>1. streams' \in [Streams -> Stream]
    BY <1>0, <2>0, <2>a
  <2>2. GameType'
    BY <1>3, <2>1 DEF TypeOK, GameEnd, GameType, sess
  <2> QED BY <1>3, <2>2, Frames DEF TypeOK, GameEnd
<1> QED BY <1>1, <1>2, <1>3 DEF Game

-----------------------------------------------------------------------------
(* Types of the handler's steps.                                            *)

\* A push keeps the session's fields and the handler's in their types.
LEMMA PushType ==
  ASSUME NEW body \in Body, NEW f \in SUBSET {"KEYEXCG", "ENCRYPT", "KICKED"},
         NEW e \in Key, CreateAndSend(body, f, e)
  PROVE  /\ HandlerType' /\ enc' \in Key
         /\ flag' \in SUBSET {"KEYEXCG", "ENCRYPT", "KICKED"}
<1>1. KeyFor(f, e) \in Key
  BY KeyType DEF KeyFor
<1>2. [body |-> body, key |-> KeyFor(f, e)] \in Packet
  BY <1>1 DEF Packet
<1>3. HandlerType'
  BY <1>2 DEF CreateAndSend, HandlerType
<1>4. enc' \in Key
  BY KeyType DEF CreateAndSend
<1>5. flag' \in SUBSET {"KEYEXCG", "ENCRYPT", "KICKED"}
  BY DEF CreateAndSend, FlagsAfter
<1> QED BY <1>3, <1>4, <1>5

LEMMA KickType ==
  ASSUME SessType, HandlerType, NEW w \in Reasons, Kick(w), handler # "push"
  PROVE  /\ HandlerType' /\ enc' \in Key /\ why' \in Reasons
         /\ flag' \in SUBSET {"KEYEXCG", "ENCRYPT", "KICKED"}
  BY DEF SessType, HandlerType, Kick, Return

LEMMA BodyTypes ==
  /\ [kind |-> "ack", n |-> 0] \in Body /\ [kind |-> "login", n |-> 0] \in Body
  /\ \A n \in Nat : /\ [kind |-> "seed", n |-> n] \in Body
                    /\ [kind |-> "game", n |-> n] \in Body
  BY DEF Body

LEMMA DecType == SessType => DecAfter \in Key
  BY KeyType DEF SessType, DecAfter

\* What func_UserMsgHandler leaves typed, given a typed packet.
MsgTyped ==
  /\ HandlerType' /\ enc' \in Key /\ dec' \in Key
  /\ flag' \in SUBSET {"KEYEXCG", "ENCRYPT", "KICKED"}
  /\ stream' \in 0 .. MaxLogins
  /\ fetch' \in [Streams -> Fetch] /\ streams' \in [Streams -> Stream]
  /\ \A f \in Streams : fetch'[f].pc # "none" => fetch'[f].on # 0 /\ stream' # 0
  /\ HistType'

LEMMA MsgType ==
  ASSUME TypeOK, handler = "select", NEW p \in UpPacket, func_UserMsgHandler(p)
  PROVE  MsgTyped
<1>0. /\ SessType /\ HandlerType /\ HistType /\ DecAfter \in Key
      /\ flag \in SUBSET {"KEYEXCG", "ENCRYPT", "KICKED"} /\ enc \in Key
      /\ stream \in 0 .. MaxLogins /\ why \in Reasons /\ fwd \in Seq(Nat)
      /\ fetch \in [Streams -> Fetch] /\ streams \in [Streams -> Stream]
      /\ \A f \in Streams : fetch[f].pc # "none" => fetch[f].on # 0 /\ stream # 0
  BY DecType DEF TypeOK, SessType, HistType, GameType
<1>1. CASE Reject(p)
  <2>1. Kick("seq") /\ UNCHANGED <<stream, streams, fetch, fwd>> /\ dec' = DecAfter
    BY <1>1 DEF Reject
  <2>2. /\ HandlerType' /\ enc' \in Key /\ why' \in Reasons
        /\ flag' \in SUBSET {"KEYEXCG", "ENCRYPT", "KICKED"}
    BY <1>0, <2>1, KickType DEF Reasons
  <2> QED BY <1>0, <2>1, <2>2 DEF MsgTyped, HistType
<1>2. CASE Unknown(p)
  <2>1. Kick("proto") /\ UNCHANGED <<stream, streams, fetch, fwd>> /\ dec' = DecAfter
    BY <1>2 DEF Unknown
  <2>2. /\ HandlerType' /\ enc' \in Key /\ why' \in Reasons
        /\ flag' \in SUBSET {"KEYEXCG", "ENCRYPT", "KICKED"}
    BY <1>0, <2>1, KickType DEF Reasons
  <2> QED BY <1>0, <2>1, <2>2 DEF MsgTyped, HistType
<1>3. CASE P_heart_beat_req(p)
  <2>1. /\ CreateAndSend([kind |-> "ack", n |-> 0], flag, enc) /\ dec' = DecAfter
        /\ UNCHANGED <<stream, streams, fetch, fwd>>
    BY <1>3 DEF P_heart_beat_req
  <2>2. why' = why
    BY <2>1 DEF CreateAndSend
  <2>3. /\ HandlerType' /\ enc' \in Key
        /\ flag' \in SUBSET {"KEYEXCG", "ENCRYPT", "KICKED"}
    BY <1>0, <2>1, BodyTypes, PushType
  <2> QED BY <1>0, <2>1, <2>2, <2>3 DEF MsgTyped, HistType
<1>4. CASE P_get_seed_req(p)
  <2> DEFINE e == NewKey(enc)
  <2>1. e \in Key /\ e[1] \in Nat
    BY <1>0, KeyType DEF Key, NewKey
  <2>2. /\ CreateAndSend([kind |-> "seed", n |-> e[1]], flag \cup {"KEYEXCG"}, e)
        /\ dec' = e /\ UNCHANGED <<stream, streams, fetch, fwd>>
    BY <1>4 DEF P_get_seed_req
  <2>3. why' = why
    BY <2>2 DEF CreateAndSend
  <2>4. [kind |-> "seed", n |-> e[1]] \in Body
    BY <2>1, BodyTypes
  <2> HIDE DEF e
  <2>5. /\ HandlerType' /\ enc' \in Key
        /\ flag' \in SUBSET {"KEYEXCG", "ENCRYPT", "KICKED"}
    BY <1>0, <2>1, <2>2, <2>4, PushType
  <2> QED BY <1>0, <2>1, <2>2, <2>3, <2>5 DEF MsgTyped, HistType
<1>5. CASE LoginFails(p)
  <2>1. HandlerType'
    BY <1>0, <1>5 DEF LoginFails, HandlerType
  <2> QED BY <1>0, <1>5, <2>1 DEF LoginFails, MsgTyped, HistType
<1>6. CASE P_user_login_req(p)
  <2>1. PICK s \in Streams :
           /\ stream' = s
           /\ streams' = [streams EXCEPT ![s].st = "open"]
           /\ fetch' = [fetch EXCEPT ![s].pc = "recv", ![s].on = s]
    BY <1>6 DEF P_user_login_req
  <2>2. /\ CreateAndSend([kind |-> "login", n |-> 0], flag, enc)
        /\ dec' = DecAfter /\ fwd' = fwd
    BY <1>6 DEF P_user_login_req
  <2>3. why' = why
    BY <2>2 DEF CreateAndSend
  <2>4. /\ HandlerType' /\ enc' \in Key
        /\ flag' \in SUBSET {"KEYEXCG", "ENCRYPT", "KICKED"}
    BY <1>0, <2>2, BodyTypes, PushType
  <2>5. s \in 0 .. MaxLogins /\ s # 0
    BY BoundsAssumption DEF Streams
  <2>6. streams' \in [Streams -> Stream]
    BY <1>0, <2>1 DEF Stream
  <2>7. fetch' \in [Streams -> Fetch]
    BY <1>0, <2>1, <2>5 DEF Fetch
  <2>8. \A f \in Streams : fetch'[f].pc # "none" => fetch'[f].on # 0 /\ stream' # 0
    BY <1>0, <2>1, <2>5 DEF Fetch
  <2>9. HistType'
    BY <1>0, <2>2, <2>3 DEF HistType
  <2> QED BY <1>0, <2>1, <2>2, <2>4, <2>5, <2>6, <2>7, <2>8, <2>9 DEF MsgTyped
<1>7. CASE Forward(p)
  <2>1. /\ dec' = DecAfter /\ UNCHANGED <<stream, streams, fetch>>
        /\ \/ Kick("nostream") /\ fwd' = fwd
           \/ Kick("stream") /\ fwd' = fwd
           \/ /\ handler' = "select" /\ fwd' \in {fwd, Append(fwd, p.seq)}
              /\ UNCHANGED <<pushing, why, flag, enc>>
    BY <1>7 DEF Forward
  <2>2. Append(fwd, p.seq) \in Seq(Nat)
    BY <1>0 DEF UpPacket
  <2>3. CASE (Kick("nostream") \/ Kick("stream")) /\ fwd' = fwd
    <3>1. /\ HandlerType' /\ enc' \in Key /\ why' \in Reasons
          /\ flag' \in SUBSET {"KEYEXCG", "ENCRYPT", "KICKED"}
      BY <1>0, <2>3, KickType DEF Reasons
    <3> QED BY <1>0, <2>1, <2>3, <3>1 DEF MsgTyped, HistType
  <2>4. CASE /\ handler' = "select" /\ fwd' \in {fwd, Append(fwd, p.seq)}
             /\ UNCHANGED <<pushing, why, flag, enc>>
    <3>1. HandlerType'
      BY <1>0, <2>4 DEF HandlerType
    <3>2. HistType'
      BY <1>0, <2>2, <2>4 DEF HistType
    <3> QED BY <1>0, <2>1, <2>4, <3>1, <3>2 DEF MsgTyped
  <2> QED BY <2>1, <2>3, <2>4
<1> QED BY <1>1, <1>2, <1>3, <1>4, <1>5, <1>6, <1>7 DEF func_UserMsgHandler

LEMMA HandlerStepType ==
  ASSUME TypeOK, Handler
  PROVE  TypeOK'
<1>0. /\ SessType /\ HandlerType /\ HistType /\ GameType
      /\ flag \in SUBSET {"KEYEXCG", "ENCRYPT", "KICKED"} /\ enc \in Key
      /\ dec \in Key /\ why \in Reasons /\ fwd \in Seq(Nat)
      /\ packetCount \in Nat /\ armed \in Nat /\ stream \in 0 .. MaxLogins
  BY DEF TypeOK, SessType, HistType
<1>1. CASE HandlerPacket
  <2>1. offered[1] \in UpPacket /\ handler = "select"
    BY <1>1 DEF TypeOK, ReaderType, HandlerPacket
  <2>2. MsgTyped
    BY <1>1, <2>1, MsgType DEF HandlerPacket
  <2>3. ReaderType'
    BY <1>1 DEF TypeOK, ReaderType, HandlerPacket
  <2>4. SessType'
    BY <1>0, <1>1, <2>2 DEF SessType, MsgTyped, HandlerPacket
  <2>5. GameType'
    BY <1>0, <1>1, <2>2 DEF GameType, MsgTyped, HandlerPacket
  <2>6. HandlerType' /\ HistType'
    BY <2>2 DEF MsgTyped
  <2> QED BY <1>1, <2>3, <2>4, <2>5, <2>6, Frames DEF TypeOK, HandlerPacket
<1>2. CASE HandlerEOF
  <2>1. HandlerType' /\ HistType'
    BY <1>0, <1>2 DEF HandlerEOF, Return, HandlerType, HistType, Reasons
  <2> QED BY <1>2, <2>1, Frames DEF TypeOK, HandlerEOF, sess
<1>3. CASE HandlerFrame
  <2>1. mq \in Seq(Frame) /\ mq # <<>>
    BY <1>0, <1>3 DEF GameType, HandlerFrame
  <2>2. Head(mq) \in Frame /\ mq' \in Seq(Frame)
    BY <1>3, <2>1 DEF HandlerFrame
  <2>3. Head(mq).n \in Nat
    BY <2>2 DEF Frame
  <2>4. \/ CreateAndSend([kind |-> "game", n |-> Head(mq).n], flag, enc)
        \/ Kick("game")
    BY <1>3 DEF HandlerFrame
  <2>5. /\ HandlerType' /\ enc' \in Key /\ why' \in Reasons
        /\ flag' \in SUBSET {"KEYEXCG", "ENCRYPT", "KICKED"}
    <3>1. CASE CreateAndSend([kind |-> "game", n |-> Head(mq).n], flag, enc)
      <4>1. why' = why
        BY <3>1 DEF CreateAndSend
      <4>2. [kind |-> "game", n |-> Head(mq).n] \in Body
        BY <2>3, BodyTypes
      <4> QED BY <1>0, <3>1, <4>1, <4>2, PushType
    <3>2. CASE Kick("game")
      BY <1>0, <1>3, <3>2, KickType DEF Reasons, HandlerFrame
    <3> QED BY <2>4, <3>1, <3>2
  <2>6. SessType'
    BY <1>0, <1>3, <2>5 DEF SessType, HandlerFrame
  <2>7. GameType'
    BY <1>0, <1>3, <2>2 DEF GameType, HandlerFrame
  <2>8. HistType'
    BY <1>0, <1>3, <2>5 DEF HistType, HandlerFrame
  <2> QED BY <1>3, <2>5, <2>6, <2>7, <2>8, Frames DEF TypeOK, HandlerFrame
<1>4. CASE HandlerTimer
  <2>0. minutes \in Nat
    BY DEF TypeOK, WorldType
  <2>1. /\ HandlerType' /\ enc' \in Key /\ why' \in Reasons
        /\ flag' \in SUBSET {"KEYEXCG", "ENCRYPT", "KICKED"}
    <3>1. CASE packetCount > RpmLimit * minutes
      <4>1. Kick("rate") /\ handler # "push"
        BY <1>4, <3>1 DEF HandlerTimer
      <4> QED BY <1>0, <4>1, KickType DEF Reasons
    <3>2. CASE ~(packetCount > RpmLimit * minutes)
      <4>1. UNCHANGED <<handV, flag, enc, why>>
        BY <1>4, <3>2 DEF HandlerTimer
      <4> QED BY <1>0, <4>1, Frames
    <3> QED BY <3>1, <3>2
  <2>2. SessType'
    BY <1>0, <1>4, <2>0, <2>1 DEF SessType, HandlerTimer
  <2>3. HistType'
    BY <1>0, <1>4, <2>1 DEF HistType, HandlerTimer
  <2> QED BY <1>4, <2>1, <2>2, <2>3, Frames DEF TypeOK, HandlerTimer
<1>5. CASE HandlerDie
  <2>1. /\ HandlerType' /\ enc' \in Key /\ why' \in Reasons
        /\ flag' \in SUBSET {"KEYEXCG", "ENCRYPT", "KICKED"}
    BY <1>0, <1>5, KickType DEF Reasons, HandlerDie
  <2>2. SessType'
    BY <1>0, <1>5, <2>1 DEF SessType, HandlerDie
  <2>3. HistType'
    BY <1>0, <1>5, <2>1 DEF HistType, HandlerDie
  <2> QED BY <1>5, <2>1, <2>2, <2>3, Frames DEF TypeOK, HandlerDie
<1>6. CASE HandlerExit
  <2>1. HandlerType'
    BY <1>0, <1>6 DEF HandlerType, HandlerExit
  <2>2. streams' \in [Streams -> Stream]
    BY <1>0, <1>6 DEF GameType, Stream, HandlerExit, AfterCloseSend
  <2>3. GameType'
    BY <1>0, <1>6, <2>2 DEF GameType, HandlerExit, sess
  <2> QED BY <1>6, <2>1, <2>3, Frames DEF TypeOK, HandlerExit
<1> QED BY <1>1, <1>2, <1>3, <1>4, <1>5, <1>6 DEF Handler

LEMMA InitType == Init => TypeOK
<1> SUFFICES ASSUME Init PROVE TypeOK
  OBVIOUS
<1>0. Plain \in Key
  BY DEF Plain, Key
<1>1. /\ ClientType /\ ConnType /\ ReaderType /\ HandlerType /\ SenderType
  <2>0. <<>> \in Seq(Kinds) /\ <<>> \in Seq(Nat)
    OBVIOUS
  <2>1. ClientType
    BY <1>0, <2>0 DEF Init, ClientType
  <2>2. ConnType
    BY DEF Init, ConnType
  <2>3. ReaderType
    BY DEF Init, ReaderType
  <2>4. HandlerType
    BY DEF Init, HandlerType
  <2>5. SenderType
    BY DEF Init, SenderType
  <2> QED BY <2>1, <2>2, <2>3, <2>4, <2>5
<1>2. SessType /\ WorldType /\ HistType
  <2>1. SessType
    BY <1>0, BoundsAssumption DEF Init, SessType
  <2>2. WorldType
    BY DEF Init, WorldType
  <2>3. HistType
    BY DEF Init, HistType, Reasons
  <2> QED BY <2>1, <2>2, <2>3
<1>3. GameType
  <2>1. [pc |-> "none", on |-> 0, hand |-> <<>>] \in Fetch
    BY BoundsAssumption DEF Fetch
  <2>2. [st |-> "none", down |-> <<>>] \in Stream
    BY DEF Stream
  <2> QED BY <2>1, <2>2 DEF Init, GameType
<1> QED BY <1>1, <1>2, <1>3 DEF TypeOK

LEMMA StepType == TypeOK /\ [Next]_vars => TypeOK'
<1> SUFFICES ASSUME TypeOK, [Next]_vars PROVE TypeOK'
  OBVIOUS
<1>1. CASE UNCHANGED vars
  BY <1>1, Frames DEF TypeOK, vars, sess
<1>2. CASE Terminate
  <2>1. WorldType'
    BY <1>2 DEF TypeOK, WorldType, Terminate
  <2> QED BY <1>2, <2>1, Frames DEF TypeOK, Terminate, sess
<1>3. CASE Minute
  <2>1. WorldType'
    BY <1>3 DEF TypeOK, WorldType, Minute
  <2> QED BY <1>3, <2>1, Frames DEF TypeOK, Minute, sess
<1> QED BY <1>1, <1>2, <1>3, ClientStepType, ReaderStepType, HandlerStepType,
           SenderStepType, FetcherStepType, GameStepType DEF Next, Finished

\* Every variable of a session keeps its type, and each goroutine holds a
\* value exactly when it is about to hand it on, for every buffer size.
THEOREM TypeCorrect == Spec => []TypeOK
<1> QED BY InitType, StepType, PTL DEF Spec

-----------------------------------------------------------------------------
(* Packets reach a game server at most once and in order.  The invariant    *)
(* says of every packet on its way that it carries the kind the client gave *)
(* its number; that the handler forwards only the packet numbered one above *)
(* those it has counted then orders fwd, whatever was repeated.             *)

Honest(p) == p.seq \in 1 .. Len(sent) /\ sent[p.seq] = p.kind

Numbered ==
    /\ \A i \in 1 .. Len(upNet) : Honest(upNet[i])
    /\ \A i \in 1 .. Len(offered) : Honest(offered[i])
    /\ \A i \in 1 .. Len(fwd) : fwd[i] \in 1 .. Len(sent)

FwdInv == TypeOK /\ Numbered /\ ForwardedOnce

LEMMA InitFwd == Init => FwdInv
<1> SUFFICES ASSUME Init PROVE FwdInv
  OBVIOUS
<1>1. Len(upNet) = 0 /\ Len(offered) = 0 /\ Len(fwd) = 0
  BY DEF Init
<1> QED BY <1>1, InitType DEF FwdInv, Numbered, ForwardedOnce

\* A step that touches none of the variables involved.
LEMMA AsideFwd ==
  ASSUME FwdInv, UNCHANGED <<sent, upNet, offered, fwd, packetCount>>
  PROVE  Numbered' /\ ForwardedOnce'
  BY DEF FwdInv, Numbered, Honest, ForwardedOnce

LEMMA SendFwd ==
  ASSUME FwdInv, NEW k \in Kinds, ClientSend(k)
  PROVE  Numbered' /\ ForwardedOnce'
<1> DEFINE new == [seq |-> Len(sent) + 1, kind |-> k, key |-> tx]
<1>1. /\ sent \in Seq(Kinds) /\ upNet \in Seq(UpPacket) /\ Len(sent) \in Nat
      /\ offered \in Seq(UpPacket) /\ fwd \in Seq(Nat) /\ tx \in Key
  BY DEF FwdInv, TypeOK, ClientType, ConnType, ReaderType, HistType
<1>2. /\ sent' = Append(sent, k) /\ upNet' = Append(upNet, new)
      /\ UNCHANGED <<offered, fwd, packetCount>>
  BY DEF ClientSend, Emit, readerV, hist, sess
<1>3. /\ Len(sent') = Len(sent) + 1 /\ sent'[Len(sent) + 1] = k
      /\ \A i \in 1 .. Len(sent) : sent'[i] = sent[i]
  BY <1>1, <1>2
<1>4. \A p : p.seq \in 1 .. Len(sent) /\ sent[p.seq] = p.kind
              => p.seq \in 1 .. Len(sent') /\ sent'[p.seq] = p.kind
  BY <1>1, <1>3
<1>5. /\ new.seq \in 1 .. Len(sent') /\ sent'[new.seq] = new.kind
      /\ new \in UpPacket
  BY <1>1, <1>3 DEF UpPacket
<1> HIDE DEF new
<1>6. /\ Len(upNet') = Len(upNet) + 1 /\ upNet'[Len(upNet) + 1] = new
      /\ \A i \in 1 .. Len(upNet) : upNet'[i] = upNet[i]
      /\ Len(upNet) \in Nat
  BY <1>1, <1>2, <1>5
<1>7. \A i \in 1 .. Len(upNet') : /\ upNet'[i].seq \in 1 .. Len(sent')
                                  /\ sent'[upNet'[i].seq] = upNet'[i].kind
  <2> SUFFICES ASSUME NEW i \in 1 .. Len(upNet) + 1
               PROVE  /\ upNet'[i].seq \in 1 .. Len(sent')
                      /\ sent'[upNet'[i].seq] = upNet'[i].kind
    BY <1>6
  <2>1. CASE i = Len(upNet) + 1
    BY <1>5, <1>6, <2>1
  <2>2. CASE i \in 1 .. Len(upNet)
    <3>1. upNet[i].seq \in 1 .. Len(sent) /\ sent[upNet[i].seq] = upNet[i].kind
      BY <2>2 DEF FwdInv, Numbered, Honest
    <3> QED BY <1>4, <1>6, <2>2, <3>1
  <2> QED BY <1>6, <2>1, <2>2
<1>8. \A i \in 1 .. Len(offered) : /\ offered[i].seq \in 1 .. Len(sent')
                                   /\ sent'[offered[i].seq] = offered[i].kind
  BY <1>4 DEF FwdInv, Numbered, Honest
<1>9. \A i \in 1 .. Len(fwd) : /\ fwd[i] \in 1 .. Len(sent')
                               /\ sent'[fwd[i]] = sent[fwd[i]]
  BY <1>1, <1>3 DEF FwdInv, Numbered
<1>10. Numbered'
  BY <1>2, <1>7, <1>8, <1>9 DEF Numbered, Honest
<1>11. ForwardedOnce'
  BY <1>2, <1>9 DEF FwdInv, ForwardedOnce
<1> QED BY <1>10, <1>11

LEMMA ResendFwd ==
  ASSUME FwdInv, ClientResend
  PROVE  Numbered' /\ ForwardedOnce'
<1> DEFINE new == [seq |-> Len(sent), kind |-> sent[Len(sent)], key |-> tx]
<1>1. /\ sent \in Seq(Kinds) /\ upNet \in Seq(UpPacket) /\ sent # <<>>
      /\ UNCHANGED <<sent, offered, fwd, packetCount>>
      /\ upNet' = Append(upNet, new)
  BY DEF FwdInv, TypeOK, ClientType, ConnType, ClientResend, Emit, readerV,
         hist, sess
<1>2. Honest(new)
  BY <1>1 DEF Honest
<1>3. /\ Len(upNet') = Len(upNet) + 1 /\ upNet'[Len(upNet) + 1] = new
      /\ \A i \in 1 .. Len(upNet) : upNet'[i] = upNet[i]
      /\ Len(upNet) \in Nat
  BY <1>1
<1>4. \A i \in 1 .. Len(upNet') : Honest(upNet'[i])
  <2> SUFFICES ASSUME NEW i \in 1 .. Len(upNet) + 1
               PROVE  Honest(upNet'[i])
    BY <1>3
  <2>1. CASE i = Len(upNet) + 1
    BY <1>2, <1>3, <2>1
  <2>2. CASE i \in 1 .. Len(upNet)
    BY <1>3, <2>2 DEF FwdInv, Numbered
  <2> QED BY <1>3, <2>1, <2>2
<1> QED BY <1>1, <1>4 DEF FwdInv, Numbered, Honest, ForwardedOnce

LEMMA ReaderFwd ==
  ASSUME FwdInv, Reader
  PROVE  Numbered' /\ ForwardedOnce'
<1>1. CASE ReaderRead
  <2>1. /\ upNet \in Seq(UpPacket) /\ upNet # <<>>
        /\ offered' = <<Head(upNet)>> /\ upNet' = Tail(upNet)
        /\ UNCHANGED <<sent, fwd, packetCount>>
    BY <1>1 DEF FwdInv, TypeOK, ConnType, ReaderRead, client, hist, sess
  <2>2. /\ Len(offered') = 1 /\ offered'[1] = upNet[1]
        /\ Len(upNet') = Len(upNet) - 1 /\ Len(upNet) \in Nat /\ Len(upNet) > 0
        /\ \A i \in 1 .. Len(upNet') : upNet'[i] = upNet[i + 1]
    BY <2>1
  <2>3. \A i \in 1 .. Len(upNet) : Honest(upNet[i])
    BY DEF FwdInv, Numbered
  <2>4. \A i \in 1 .. Len(offered') : Honest(offered'[i])
    BY <2>2, <2>3
  <2>5. \A i \in 1 .. Len(upNet') : Honest(upNet'[i])
    BY <2>2, <2>3
  <2> QED BY <2>1, <2>4, <2>5 DEF FwdInv, Numbered, Honest, ForwardedOnce
<1>2. CASE ReaderFail
  BY <1>2, AsideFwd DEF ReaderFail, client, conn, sess, hist
<1>3. CASE ReaderDie
  <2>1. offered' = <<>> /\ UNCHANGED <<sent, upNet, fwd, packetCount>>
    BY <1>3 DEF ReaderDie, client, conn, sess, hist
  <2>2. Len(offered') = 0
    BY <2>1
  <2> QED BY <2>1, <2>2 DEF FwdInv, Numbered, Honest, ForwardedOnce
<1> QED BY <1>1, <1>2, <1>3 DEF Reader

\* The handler counts the packet and forwards it only under the number it
\* has reached by counting.
LEMMA PacketFwd ==
  ASSUME FwdInv, HandlerPacket
  PROVE  Numbered' /\ ForwardedOnce'
<1> DEFINE p == offered[1]
<1>1. /\ fwd \in Seq(Nat) /\ packetCount \in Nat /\ Len(offered) = 1
      /\ offered' = <<>> /\ packetCount' = packetCount + 1
      /\ UNCHANGED <<sent, upNet>>
  BY DEF FwdInv, TypeOK, HistType, SessType, ReaderType, HandlerPacket, client,
         conn
<1>2. Honest(p)
  BY <1>1 DEF FwdInv, Numbered
<1>3. \/ fwd' = fwd
      \/ /\ fwd' = Append(fwd, p.seq)
         /\ p.seq = packetCount + 1 /\ p.kind = "game"
  BY DEF HandlerPacket, func_UserMsgHandler, Reject, Unknown, P_heart_beat_req,
         P_get_seed_req, LoginFails, P_user_login_req, Forward, SeqOK
<1>4. \A i \in 1 .. Len(fwd) :
         /\ fwd[i] \in Nat /\ fwd[i] \in 1 .. packetCount
         /\ fwd[i] \in 1 .. Len(sent) /\ sent[fwd[i]] = "game"
  BY <1>1 DEF FwdInv, Numbered, ForwardedOnce
<1>5. CASE fwd' = fwd
  <2>1. Numbered'
    BY <1>1, <1>5 DEF FwdInv, Numbered, Honest
  <2>2. ForwardedOnce'
    BY <1>1, <1>4, <1>5 DEF FwdInv, ForwardedOnce
  <2> QED BY <2>1, <2>2
<1>6. CASE /\ fwd' = Append(fwd, p.seq)
           /\ p.seq = packetCount + 1 /\ p.kind = "game"
  <2>1. p.seq \in 1 .. Len(sent) /\ sent[p.seq] = "game" /\ p.seq \in Nat
    BY <1>2, <1>6 DEF Honest
  <2> HIDE DEF p
  <2>2. /\ Len(fwd') = Len(fwd) + 1 /\ fwd'[Len(fwd) + 1] = packetCount + 1
        /\ \A i \in 1 .. Len(fwd) : fwd'[i] = fwd[i]
        /\ Len(fwd) \in Nat
    BY <1>1, <1>6, <2>1
  <2>3. \A i \in 1 .. Len(fwd') :
           /\ fwd'[i] \in 1 .. packetCount + 1
           /\ fwd'[i] \in 1 .. Len(sent) /\ sent[fwd'[i]] = "game"
    <3> SUFFICES ASSUME NEW i \in 1 .. Len(fwd) + 1
                 PROVE  /\ fwd'[i] \in 1 .. packetCount + 1
                        /\ fwd'[i] \in 1 .. Len(sent) /\ sent[fwd'[i]] = "game"
      BY <2>2
    <3>1. CASE i = Len(fwd) + 1
      BY <1>1, <1>6, <2>1, <2>2, <3>1
    <3>2. CASE i \in 1 .. Len(fwd)
      BY <1>1, <1>4, <2>2, <3>2
    <3> QED BY <2>2, <3>1, <3>2
  <2>4. \A i, j \in 1 .. Len(fwd') : i < j => fwd'[i] < fwd'[j]
    <3> SUFFICES ASSUME NEW i \in 1 .. Len(fwd) + 1, NEW j \in 1 .. Len(fwd) + 1,
                        i < j
                 PROVE  fwd'[i] < fwd'[j]
      BY <2>2
    <3>1. i \in 1 .. Len(fwd) /\ fwd'[i] = fwd[i]
      BY <2>2
    <3>2. CASE j = Len(fwd) + 1
      BY <1>1, <1>4, <2>2, <3>1, <3>2
    <3>3. CASE j \in 1 .. Len(fwd)
      BY <2>2, <3>1, <3>3 DEF FwdInv, ForwardedOnce
    <3> QED BY <2>2, <3>2, <3>3
  <2>5. Numbered'
    BY <1>1, <2>3 DEF FwdInv, Numbered, Honest
  <2>6. ForwardedOnce'
    BY <1>1, <2>3, <2>4 DEF ForwardedOnce
  <2> QED BY <2>5, <2>6
<1> QED BY <1>3, <1>5, <1>6

LEMMA StepFwd == FwdInv /\ [Next]_vars => FwdInv'
<1> SUFFICES ASSUME FwdInv, [Next]_vars
             PROVE  Numbered' /\ ForwardedOnce'
  BY StepType DEF FwdInv
<1>1. CASE Client
  <2>1. CASE ClientRecv \/ ConnReset
    BY <2>1, AsideFwd DEF ClientRecv, ConnReset, client, readerV, sess, hist
  <2>2. CASE \E m \in {"mute", "stalled", "closed"} : ClientMode(m)
    BY <2>2, AsideFwd DEF ClientMode, conn, readerV, sess, hist
  <2> QED BY <1>1, <2>1, <2>2, SendFwd, ResendFwd DEF Client
<1>2. CASE Handler
  <2>1. CASE HandlerEOF \/ HandlerFrame \/ HandlerTimer \/ HandlerDie
    BY <2>1, AsideFwd DEF HandlerEOF, HandlerFrame, HandlerTimer, HandlerDie,
          client, conn, readerV, sess
  <2>2. CASE HandlerExit
    BY <2>2, AsideFwd DEF HandlerExit, client, conn, readerV, sess, hist
  <2> QED BY <1>2, <2>1, <2>2, PacketFwd DEF Handler
<1>3. CASE Sender
  BY <1>3, AsideFwd DEF Sender, SenderTake, SenderWrite, SenderStop, client,
        conn, readerV, sess, hist
<1>4. CASE \E f \in Streams : Fetcher(f)
  BY <1>4, AsideFwd DEF Fetcher, FetchRecv, FetchEnd, FetchPut, client, conn,
        readerV, sess, hist
<1>5. CASE \E s \in Streams : Game(s)
  BY <1>5, AsideFwd DEF Game, GameSend, GameKick, GameEnd, client, conn,
        readerV, sess, hist
<1>6. CASE Terminate \/ Minute
  BY <1>6, AsideFwd DEF Terminate, Minute, client, conn, readerV, sess, hist
<1>7. CASE UNCHANGED vars
  BY <1>7, AsideFwd DEF vars, client, conn, readerV, sess, hist
<1> QED BY <1>1, <1>2, <1>3, <1>4, <1>5, <1>6, <1>7, ReaderFwd
        DEF Next, Finished

\* A game server never receives a packet of the client twice or out of order,
\* for any number of packets, logins and repetitions and any buffer size.
THEOREM ForwardsOnce == Spec => []ForwardedOnce
<1>1. FwdInv => ForwardedOnce
  BY DEF FwdInv
<1> QED BY <1>1, InitFwd, StepFwd, PTL DEF Spec

-----------------------------------------------------------------------------
(* The pending channel is open while the handler sends on it.               *)

StopInv == sender = "done" => handler = "done"

LEMMA StepStop == StopInv /\ [Next]_vars => StopInv'
<1> SUFFICES ASSUME StopInv, [Next]_vars PROVE StopInv'
  OBVIOUS
<1>1. CASE Handler
  <2>1. handler # "done" /\ sender' = sender
    BY <1>1 DEF Handler, HandlerPacket, HandlerEOF, HandlerFrame, HandlerTimer,
                HandlerDie, HandlerExit, senderV
  <2> QED BY <2>1 DEF StopInv
<1>2. CASE Sender
  BY <1>2 DEF Sender, SenderTake, SenderWrite, SenderStop, StopReady,
              DieClosed, handV, StopInv
<1>3. CASE UNCHANGED <<handV, senderV>>
  BY <1>3 DEF handV, senderV, StopInv
<1>4. CASE Client \/ Reader
  BY <1>3, <1>4 DEF Client, ClientSend, ClientResend, ClientRecv, ConnReset,
              ClientMode, Reader, ReaderRead, ReaderFail, ReaderDie
<1>5. CASE (\E f \in Streams : Fetcher(f)) \/ (\E s \in Streams : Game(s))
  BY <1>3, <1>5 DEF Fetcher, FetchRecv, FetchEnd, FetchPut, Game, GameSend,
              GameKick, GameEnd
<1>6. CASE Terminate \/ Minute \/ UNCHANGED vars
  BY <1>3, <1>6 DEF Terminate, Minute, vars
<1> QED BY <1>1, <1>2, <1>4, <1>5, <1>6 DEF Next, Finished

\* The handler never sends on buf.pending after func_StartSendPacket has
\* closed it.
THEOREM PendingStaysOpen == Spec => []PendingOpenWhilePushing
<1>1. Init => StopInv
  BY DEF Init, StopInv
<1>2. StopInv => PendingOpenWhilePushing
  BY DEF StopInv, PendingOpenWhilePushing
<1> QED BY <1>1, <1>2, StepStop, PTL DEF Spec


-----------------------------------------------------------------------------
(* Streams are released.  They are opened in the order of their numbers, so  *)
(* all above the session's own are still unopened, and the deferred          *)
(* CloseSend of its own leaves only those a later login has replaced.        *)

Unopened == \A s \in Streams : s > stream <=> streams[s].st = "none"

RelInv == TypeOK /\ Unopened /\ StreamsReleased

\* A step that opens no stream and closes no session.
LEMMA AsideRel ==
  ASSUME RelInv, stream' = stream, DieClosed' => DieClosed,
         \A s \in Streams : /\ streams'[s].st = "none" <=> streams[s].st = "none"
                            /\ streams'[s].st = "open" => streams[s].st = "open"
  PROVE  Unopened' /\ StreamsReleased'
  BY DEF RelInv, Unopened, StreamsReleased

\* The same of a step that leaves the handler and the streams alone.
LEMMA FrameRel ==
  ASSUME RelInv, UNCHANGED <<stream, streams, handler>>
  PROVE  Unopened' /\ StreamsReleased'
  BY AsideRel DEF DieClosed

LEMMA HandlerRel ==
  ASSUME RelInv, Handler
  PROVE  Unopened' /\ StreamsReleased'
<1>0. /\ streams \in [Streams -> Stream] /\ stream \in 0 .. MaxLogins
      /\ \A s \in Streams : s > stream <=> streams[s].st = "none"
  BY DEF RelInv, TypeOK, GameType, SessType, Unopened
<1>1. CASE HandlerPacket
  <2> DEFINE p == offered[1]
  <2>1. handler = "select" /\ func_UserMsgHandler(p)
    BY <1>1 DEF HandlerPacket
  <2>2. handler' # "done"
    BY <2>1 DEF func_UserMsgHandler, Reject, Unknown, P_heart_beat_req,
                P_get_seed_req, LoginFails, P_user_login_req, Forward, Kick,
                Return, CreateAndSend
  <2>3. CASE UNCHANGED <<stream, streams>>
    BY <2>2, <2>3, AsideRel DEF DieClosed
  <2>4. CASE P_user_login_req(p)
    <3>1. PICK s \in Streams :
             /\ streams[s].st = "none"
             /\ \A r \in Streams : r < s => streams[r].st # "none"
             /\ stream' = s
             /\ streams' = [streams EXCEPT ![s].st = "open"]
      BY <2>4 DEF P_user_login_req
    <3>2. /\ streams'[s].st = "open"
          /\ \A r \in Streams : r # s => streams'[r] = streams[r]
      BY <1>0, <3>1 DEF Stream
    <3>3. \A r \in Streams : r > s => streams[r].st = "none"
      BY <1>0, <3>1, BoundsAssumption DEF Streams
    <3>4. \A r \in Streams : r > s <=> streams'[r].st = "none"
      BY <1>0, <3>1, <3>2, <3>3, BoundsAssumption DEF Streams
    <3> QED BY <2>2, <3>1, <3>4 DEF Unopened, StreamsReleased, DieClosed
  <2> QED BY <2>1, <2>3, <2>4 DEF func_UserMsgHandler, Reject, Unknown,
             P_heart_beat_req, P_get_seed_req, LoginFails, Forward
<1>2. CASE HandlerEOF \/ HandlerFrame \/ HandlerTimer \/ HandlerDie
  <2>1. handler' # "done" /\ UNCHANGED <<stream, streams>>
    BY <1>2 DEF HandlerEOF, HandlerFrame, HandlerTimer, HandlerDie, Kick,
                Return, CreateAndSend, handV, sess, game
  <2> QED BY <2>1, AsideRel DEF DieClosed
<1>3. CASE HandlerExit
  <2>1. stream' = stream /\ streams' = AfterCloseSend
    BY <1>3 DEF HandlerExit, sess
  <2>2. \A s \in Streams :
           /\ streams'[s].st = "none" <=> streams[s].st = "none"
           /\ streams'[s].st = "open" => streams[s].st = "open" /\ s # stream
    BY <1>0, <2>1 DEF AfterCloseSend, Stream
  <2>3. \A s \in Streams : streams'[s].st = "open" => s < stream
    BY <1>0, <2>2 DEF Streams
  <2> QED BY <1>0, <2>1, <2>2, <2>3 DEF Unopened, StreamsReleased
<1> QED BY <1>1, <1>2, <1>3 DEF Handler

LEMMA GameRel ==
  ASSUME RelInv, NEW s \in Streams, Game(s)
  PROVE  Unopened' /\ StreamsReleased'
<1>1. streams \in [Streams -> Stream]
  BY DEF RelInv, TypeOK, GameType
<1>2. UNCHANGED <<handler, stream>>
  BY DEF Game, GameSend, GameKick, GameEnd, handV, sess
<1>3. \A r \in Streams : r # s => streams'[r] = streams[r]
  BY <1>1 DEF Game, GameSend, GameKick, GameEnd
<1>4. /\ streams[s].st \in {"open", "closing"}
      /\ streams'[s].st = streams[s].st \/ streams'[s].st = "ended"
  BY <1>1 DEF Game, GameSend, GameKick, GameEnd, Live, Stream
<1> QED BY <1>2, <1>3, <1>4, AsideRel DEF DieClosed

\* A fetcher opens and ends no stream.
LEMMA FetchKeepsSt ==
  ASSUME streams \in [Streams -> Stream], NEW f \in Streams, Fetcher(f)
  PROVE  \A s \in Streams : streams'[s].st = streams[s].st
<1>1. \/ streams' = streams
      \/ streams' = [streams EXCEPT ![fetch[f].on].down = Tail(@)]
  BY DEF Fetcher, FetchRecv, FetchEnd, FetchPut
<1>2. CASE streams' = streams
  BY <1>2
<1>3. CASE streams' = [streams EXCEPT ![fetch[f].on].down = Tail(@)]
  <2>1. \A s \in Streams : streams'[s] = streams[s] \/
            streams'[s] = [streams[s] EXCEPT !.down = Tail(streams[s].down)]
    BY <1>3
  <2> QED BY <2>1 DEF Stream
<1> QED BY <1>1, <1>2, <1>3

LEMMA StepRel == RelInv /\ [Next]_vars => RelInv'
<1> SUFFICES ASSUME RelInv, [Next]_vars
             PROVE  Unopened' /\ StreamsReleased'
  BY StepType DEF RelInv
<1>1. CASE Client \/ Reader \/ Sender
  <2>1. UNCHANGED <<stream, streams>> /\ (DieClosed' => DieClosed)
    BY <1>1 DEF Client, ClientSend, ClientResend, ClientRecv, ConnReset,
          ClientMode, Reader, ReaderRead, ReaderFail, ReaderDie, Sender,
          SenderTake, SenderWrite, SenderStop, handV, sess, game, DieClosed
  <2> QED BY <2>1, AsideRel
<1>2. CASE \E f \in Streams : Fetcher(f)
  <2>1. PICK f \in Streams : Fetcher(f)
    BY <1>2
  <2>2. UNCHANGED <<stream, handler>>
    BY <2>1 DEF Fetcher, FetchRecv, FetchEnd, FetchPut, handV, sess
  <2>3. streams \in [Streams -> Stream]
    BY DEF RelInv, TypeOK, GameType
  <2>4. \A s \in Streams : streams'[s].st = streams[s].st
    BY <2>1, <2>3, FetchKeepsSt
  <2> QED BY <2>2, <2>4, AsideRel DEF DieClosed
<1>3. CASE Terminate \/ Minute \/ UNCHANGED vars
  BY <1>3, FrameRel DEF Terminate, Minute, vars, handV, sess, game
<1> QED BY <1>1, <1>2, <1>3, HandlerRel, GameRel DEF Next, Finished

\* Once the handler's deferred cleanup has run no stream is left open towards
\* a game server but those a later login has replaced, for any number of
\* logins and whichever goroutine was blocked where.
THEOREM ReleasesStreams == Spec => []StreamsReleased
<1>1. Init => RelInv
  <2> SUFFICES ASSUME Init PROVE RelInv
    OBVIOUS
  <2>1. Unopened
    BY DEF Init, Unopened, Streams
  <2> QED BY <2>1, InitType DEF Init, RelInv, StreamsReleased, DieClosed
<1>2. RelInv => StreamsReleased
  BY DEF RelInv
<1> QED BY <1>1, <1>2, StepRel, PTL DEF Spec

-----------------------------------------------------------------------------
(* What a client that has not closed may still read, and what a step can do  *)
(* to it: hand it on, lose it all, let the client read its head, or add to   *)
(* it the packet the handler pushes.                                         *)

Downlink == IF mode = "closed" THEN <<>> ELSE downNet \o writing \o pushing

LEMMA DownType ==
  ASSUME TypeOK
  PROVE  /\ downNet \in Seq(Packet) /\ writing \in Seq(Packet)
         /\ pushing \in Seq(Packet) /\ downNet \o writing \in Seq(Packet)
         /\ Downlink \in Seq(Packet)
<1>1. /\ downNet \in Seq(Packet) /\ writing \in Seq(Packet)
      /\ pushing \in Seq(Packet)
  BY DEF TypeOK, ConnType, SenderType, HandlerType
<1>2. downNet \o writing \in Seq(Packet)
  BY <1>1
<1>3. downNet \o writing \o pushing \in Seq(Packet)
  BY <1>1, <1>2
<1>4. <<>> \in Seq(Packet)
  OBVIOUS
<1> QED BY <1>1, <1>2, <1>3, <1>4 DEF Downlink

Handed == \/ Downlink' = Downlink
          \/ Downlink' = <<>> /\ (mode' = "closed" \/ sender' = "done")
HasRead == Downlink # <<>> /\ Head(downNet) = Head(Downlink)
           /\ Downlink' = Tail(Downlink)
Pushed == Downlink' = (IF mode = "closed" THEN <<>>
                                          ELSE Append(Downlink, pushing'[1]))

LEMMA DownHanded ==
  ASSUME UNCHANGED <<downNet, writing, pushing>>,
         mode' = mode \/ mode' = "closed"
                      \/ (mode # "closed" /\ mode' # "closed")
  PROVE  Handed
<1>1. CASE mode' = "closed"
  BY <1>1 DEF Handed, Downlink
<1>2. CASE mode' # "closed"
  BY <1>2 DEF Handed, Downlink
<1> QED BY <1>1, <1>2

LEMMA DownRead ==
  ASSUME TypeOK, ClientRecv
  PROVE  HasRead
<1>1. /\ downNet # <<>> /\ downNet' = Tail(downNet) /\ mode # "closed"
      /\ UNCHANGED <<writing, pushing, mode>>
  BY DEF ClientRecv, senderV, handV
<1>2. /\ downNet \in Seq(Packet) /\ writing \in Seq(Packet)
      /\ pushing \in Seq(Packet)
  BY DownType
<1>3. Downlink = downNet \o writing \o pushing
      /\ Downlink' = Tail(downNet) \o writing \o pushing
  BY <1>1 DEF Downlink
<1>4. \A a, b, c \in Seq(Packet) : a # <<>> =>
         /\ a \o b \o c # <<>> /\ Head(a \o b \o c) = Head(a)
         /\ Tail(a \o b \o c) = Tail(a) \o b \o c
  <2> SUFFICES ASSUME NEW a \in Seq(Packet), NEW b \in Seq(Packet),
                      NEW c \in Seq(Packet), a # <<>>
               PROVE  /\ a \o b \o c # <<>> /\ Head(a \o b \o c) = Head(a)
                      /\ Tail(a \o b \o c) = Tail(a) \o b \o c
    OBVIOUS
  <2>1. a \o b \in Seq(Packet) /\ Tail(a) \in Seq(Packet) /\ Head(a) \in Packet
        /\ a = <<Head(a)>> \o Tail(a)
    OBVIOUS
  <2> QED BY <2>1
<1> QED
  <2>1. /\ downNet \o writing \o pushing # <<>>
        /\ Head(downNet \o writing \o pushing) = Head(downNet)
        /\ Tail(downNet \o writing \o pushing)
              = Tail(downNet) \o writing \o pushing
    BY <1>1, <1>2, <1>4
  <2> QED BY <1>3, <2>1 DEF HasRead

LEMMA DownSender ==
  ASSUME TypeOK, StopInv, Sender \/ ConnReset
  PROVE  Handed
<1>0. /\ downNet \in Seq(Packet) /\ writing \in Seq(Packet)
      /\ pushing \in Seq(Packet) /\ downNet \o writing \in Seq(Packet)
  BY DownType
<1>1. CASE SenderTake
  <2>1. /\ writing = <<>> /\ writing' = pushing /\ pushing' = <<>>
        /\ UNCHANGED <<downNet, mode>>
    BY <1>0, <1>1 DEF TypeOK, SenderType, SenderTake, conn, client
  <2>2. downNet \o writing \o pushing = downNet \o pushing
        /\ downNet \o pushing \o <<>> = downNet \o pushing
    BY <1>0, <2>1, ConcatEmptySeq
  <2> QED BY <2>1, <2>2 DEF Handed, Downlink
<1>2. CASE SenderWrite
  <2>1. /\ writing' = <<>> /\ UNCHANGED <<pushing, mode>>
        /\ mode = "closed" \/ downNet' = downNet \o writing
    BY <1>2 DEF SenderWrite, client, handV
  <2>2. downNet \o writing \o <<>> = downNet \o writing
    BY <1>0, ConcatEmptySeq
  <2>3. Downlink' = Downlink
    BY <2>1, <2>2 DEF Downlink
  <2> QED BY <2>3 DEF Handed
<1>3. CASE SenderStop
  BY <1>3, DownHanded DEF SenderStop, conn, handV, client
<1>4. CASE ConnReset
  <2>1. /\ sender = "done" /\ handler = "done" /\ downNet' = <<>>
        /\ UNCHANGED <<writing, pushing, mode, sender>>
    BY <1>4 DEF ConnReset, ConnClosed, StopInv, senderV, handV, client
  <2>2. writing = <<>> /\ pushing = <<>>
    BY <1>0, <2>1 DEF TypeOK, SenderType, HandlerType
  <2>3. <<>> \o <<>> \o <<>> = <<>>
    OBVIOUS
  <2>4. Downlink' = <<>> /\ sender' = "done"
    BY <2>1, <2>2, <2>3 DEF Downlink
  <2> QED BY <2>4 DEF Handed
<1> QED BY <1>1, <1>2, <1>3, <1>4 DEF Sender

LEMMA DownPushed ==
  ASSUME TypeOK, handler = "select", UNCHANGED <<downNet, writing, mode>>,
         NEW x \in Packet, pushing' = <<x>>
  PROVE  Pushed
<1>1. pushing = <<>> /\ downNet \o writing \in Seq(Packet)
  BY DownType DEF TypeOK, HandlerType
<1>2. downNet \o writing \o <<x>> = Append(downNet \o writing, x)
  BY <1>1, AppendIsConcat
<1>3. downNet \o writing \o <<>> = downNet \o writing
  BY <1>1, ConcatEmptySeq
<1> QED BY <1>1, <1>2, <1>3 DEF Pushed, Downlink

\* Nothing is reordered in the downlink: what is left was there before.
LEMMA DownKept ==
  ASSUME TypeOK, Handed \/ HasRead
  PROVE  \E d \in {0, 1} : \A i \in 1 .. Len(Downlink') :
            i + d \in 1 .. Len(Downlink) /\ Downlink'[i] = Downlink[i + d]
<1>1. Downlink \in Seq(Packet)
  BY DownType
<1>2. CASE Downlink' = Downlink
  BY <1>1, <1>2
<1>3. CASE Downlink' = <<>>
  BY <1>3
<1>4. CASE HasRead
  <2>1. Downlink # <<>> /\ Downlink' = Tail(Downlink)
    BY <1>4 DEF HasRead
  <2>2. \A i \in 1 .. Len(Downlink') :
           i + 1 \in 1 .. Len(Downlink) /\ Downlink'[i] = Downlink[i + 1]
    BY <1>1, <2>1
  <2> QED BY <2>2
<1> QED BY <1>2, <1>3, <1>4 DEF Handed

\* The handler pushes the answer to a packet, or a frame of the game server.
Pushes(body, f, e) ==
    /\ handler = "select" /\ CreateAndSend(body, f, e) /\ Pushed
    /\ mode' = mode

PushStep == \E body \in Body, f \in SUBSET {"KEYEXCG", "ENCRYPT", "KICKED"},
               e \in Key : Pushes(body, f, e)

LEMMA PushDown ==
  ASSUME TypeOK, handler = "select", UNCHANGED <<conn, senderV, client>>,
         NEW body \in Body, NEW f \in SUBSET {"KEYEXCG", "ENCRYPT", "KICKED"},
         NEW e \in Key, CreateAndSend(body, f, e)
  PROVE  Pushes(body, f, e)
<1>1. [body |-> body, key |-> KeyFor(f, e)] \in Packet
  BY KeyType DEF KeyFor, Packet
<1>2. Pushed
  BY <1>1, DownPushed DEF CreateAndSend, conn, senderV, client
<1> QED BY <1>2 DEF Pushes, client

LEMMA PushStepOf ==
  ASSUME TypeOK, handler = "select", UNCHANGED <<conn, senderV, client>>, NEW p,
         P_heart_beat_req(p) \/ P_user_login_req(p) \/ P_get_seed_req(p)
  PROVE  PushStep
<1>0. flag \in SUBSET {"KEYEXCG", "ENCRYPT", "KICKED"} /\ enc \in Key
  BY DEF TypeOK, SessType
<1>1. CASE P_heart_beat_req(p) \/ P_user_login_req(p)
  <2>1. \E b \in Body : CreateAndSend(b, flag, enc)
    BY <1>1, BodyTypes DEF P_heart_beat_req, P_user_login_req
  <2> QED BY <1>0, <2>1, PushDown DEF PushStep
<1>2. CASE P_get_seed_req(p)
  <2>1. NewKey(enc) \in Key /\ NewKey(enc)[1] \in Nat
    BY <1>0, KeyType DEF Key, NewKey
  <2>2. [kind |-> "seed", n |-> NewKey(enc)[1]] \in Body
    BY <2>1, BodyTypes
  <2>3. flag \cup {"KEYEXCG"} \in SUBSET {"KEYEXCG", "ENCRYPT", "KICKED"}
    BY <1>0
  <2>4. CreateAndSend([kind |-> "seed", n |-> NewKey(enc)[1]],
                      flag \cup {"KEYEXCG"}, NewKey(enc))
    BY <1>2 DEF P_get_seed_req
  <2>5. Pushes([kind |-> "seed", n |-> NewKey(enc)[1]],
               flag \cup {"KEYEXCG"}, NewKey(enc))
    BY <2>1, <2>2, <2>3, <2>4, PushDown
  <2> QED BY <2>1, <2>2, <2>3, <2>5 DEF PushStep
<1> QED BY <1>1, <1>2

LEMMA FrameStepOf ==
  ASSUME TypeOK, handler = "select", UNCHANGED <<conn, senderV, client>>,
         mq # <<>>,
         CreateAndSend([kind |-> "game", n |-> Head(mq).n], flag, enc)
  PROVE  PushStep
<1>1. mq \in Seq(Frame) /\ enc \in Key
      /\ flag \in SUBSET {"KEYEXCG", "ENCRYPT", "KICKED"}
  BY DEF TypeOK, GameType, SessType
<1>2. Head(mq) \in Frame
  BY <1>1
<1>3. [kind |-> "game", n |-> Head(mq).n] \in Body
  BY <1>2, BodyTypes DEF Frame
<1> QED BY <1>1, <1>3, PushDown DEF PushStep

LEMMA DownStep ==
  ASSUME TypeOK, StopInv, [Next]_vars
  PROVE  \/ Handed
         \/ ClientRecv /\ HasRead
         \/ PushStep /\ (HandlerPacket \/ HandlerFrame)
<1>1. CASE Client
  <2>1. CASE \E k \in Kinds : ClientSend(k)
    BY <2>1, DownHanded DEF ClientSend, senderV, handV
  <2>2. CASE ClientResend
    BY <2>2, DownHanded DEF ClientResend, senderV, handV
  <2>3. CASE \E m \in {"mute", "stalled", "closed"} : ClientMode(m)
    BY <2>3, DownHanded DEF ClientMode, conn, senderV, handV
  <2> QED BY <1>1, <2>1, <2>2, <2>3, DownRead, DownSender DEF Client
<1>2. CASE HandlerPacket
  <2> DEFINE p == offered[1]
  <2>1. /\ handler = "select" /\ func_UserMsgHandler(p)
        /\ UNCHANGED <<conn, senderV, client>>
    BY <1>2 DEF HandlerPacket
  <2>2. CASE P_heart_beat_req(p) \/ P_user_login_req(p) \/ P_get_seed_req(p)
    BY <1>2, <2>1, <2>2, PushStepOf
  <2>3. CASE Reject(p) \/ Unknown(p) \/ LoginFails(p) \/ Forward(p)
    <3>1. pushing' = pushing
      BY <2>3 DEF Reject, Unknown, LoginFails, Forward, Kick, Return
    <3> QED BY <2>1, <3>1, DownHanded DEF conn, senderV, client
  <2> QED BY <2>1, <2>2, <2>3 DEF func_UserMsgHandler
<1>3. CASE HandlerFrame
  <2>1. handler = "select" /\ UNCHANGED <<conn, senderV, client>>
    BY <1>3 DEF HandlerFrame
  <2>2. CASE CreateAndSend([kind |-> "game", n |-> Head(mq).n], flag, enc)
    BY <1>3, <2>1, <2>2, FrameStepOf DEF HandlerFrame
  <2>3. CASE Kick("game")
    BY <2>1, <2>3, DownHanded DEF Kick, Return, conn, senderV, client
  <2> QED BY <1>3, <2>2, <2>3 DEF HandlerFrame
<1>4. CASE HandlerEOF \/ HandlerTimer \/ HandlerDie \/ HandlerExit
  <2>1. UNCHANGED <<pushing, downNet, writing, mode>>
    BY <1>4 DEF HandlerEOF, HandlerTimer, HandlerDie, HandlerExit, Kick,
                Return, conn, senderV, client, handV
  <2> QED BY <2>1, DownHanded
<1>5. CASE Reader \/ Terminate \/ Minute \/ UNCHANGED vars
  <2>1. UNCHANGED <<pushing, downNet, writing, mode>>
    BY <1>5 DEF Reader, ReaderRead, ReaderFail, ReaderDie, Terminate, Minute,
                vars, conn, senderV, client, handV
  <2> QED BY <2>1, DownHanded
<1>6. CASE (\E f \in Streams : Fetcher(f)) \/ (\E s \in Streams : Game(s))
  <2>1. UNCHANGED <<pushing, downNet, writing, mode>>
    BY <1>6 DEF Fetcher, FetchRecv, FetchEnd, FetchPut, Game, GameSend,
                GameKick, GameEnd, conn, senderV, client, handV
  <2> QED BY <2>1, DownHanded
<1>7. CASE Sender
  BY <1>7, DownSender
<1> QED BY <1>1, <1>2, <1>3, <1>4, <1>5, <1>6, <1>7 DEF Next, Handler, Finished

-----------------------------------------------------------------------------
(* A login that has been answered has a stream, and the two halves of a key  *)
(* exchange are never left apart.                                           *)

Logged ==
    /\ loggedIn => stream # 0
    /\ \A i \in 1 .. Len(Downlink) :
          Downlink[i].body.kind = "login" => stream # 0
Switched == "KEYEXCG" \in flag => "ENCRYPT" \in flag

LogInv == TypeOK /\ StopInv /\ Logged /\ Switched

LEMMA StepSwitched == Switched /\ [Next]_vars => Switched'
<1> SUFFICES ASSUME Switched, [Next]_vars PROVE Switched'
  OBVIOUS
<1>1. ("KEYEXCG" \in flag' <=> "KEYEXCG" \in flag)
      /\ ("ENCRYPT" \in flag' <=> "ENCRYPT" \in flag)
      => Switched'
  BY DEF Switched
<1>2. \A f : flag' = FlagsAfter(f) => Switched'
  BY DEF FlagsAfter, Switched
<1>3. (\E b, f, e : CreateAndSend(b, f, e)) => Switched'
  BY <1>2 DEF CreateAndSend
<1>4. (\E w : Kick(w)) => Switched'
  BY <1>1 DEF Kick
<1>5. CASE HandlerPacket
  <2>1. func_UserMsgHandler(offered[1])
    BY <1>5 DEF HandlerPacket
  <2>2. flag' = flag => Switched'
    BY <1>1
  <2> QED BY <2>1, <2>2, <1>3, <1>4 DEF func_UserMsgHandler, Reject, Unknown,
         P_heart_beat_req, P_get_seed_req, LoginFails, P_user_login_req, Forward
<1>6. CASE HandlerFrame \/ HandlerTimer \/ HandlerDie
  BY <1>1, <1>3, <1>4, <1>6 DEF HandlerFrame, HandlerTimer, HandlerDie
<1>7. CASE flag' = flag
  BY <1>1, <1>7
<1>8. CASE HandlerEOF \/ HandlerExit \/ Client \/ Reader \/ Sender
  BY <1>7, <1>8 DEF HandlerEOF, HandlerExit, Client, ClientSend, ClientResend,
        ClientRecv, ConnReset, ClientMode, Reader, ReaderRead, ReaderFail,
        ReaderDie, Sender, SenderTake, SenderWrite, SenderStop, sess
<1>9. CASE (\E f \in Streams : Fetcher(f)) \/ (\E s \in Streams : Game(s))
  BY <1>7, <1>9 DEF Fetcher, FetchRecv, FetchEnd, FetchPut, Game, GameSend,
        GameKick, GameEnd, sess
<1>10. CASE Terminate \/ Minute \/ UNCHANGED vars
  BY <1>7, <1>10 DEF Terminate, Minute, vars, sess
<1> QED BY <1>5, <1>6, <1>8, <1>9, <1>10 DEF Next, Handler, Finished

\* What the handler pushes: a frame of the game server, the ack of a key
\* exchange, the answer to a login, which has opened a stream, or another ack.
LEMMA PushKinds ==
  ASSUME TypeOK, HandlerPacket \/ HandlerFrame, handler' = "push"
  PROVE  LET b == pushing'[1].body
         IN  /\ b.kind = "login" => stream' # 0
             /\ b.kind = "seed" => HandlerPacket /\ P_get_seed_req(offered[1])
             /\ b.kind = "game" => /\ HandlerFrame /\ b.n = Head(mq).n
                                   /\ Head(mq).type = "message"
<1> DEFINE p == offered[1]
<1>0. \A b, f, e : CreateAndSend(b, f, e) => pushing'[1].body = b
  BY DEF CreateAndSend
<1>1. CASE HandlerPacket
  <2>1. func_UserMsgHandler(p)
    BY <1>1 DEF HandlerPacket
  <2>2. ~(Reject(p) \/ Unknown(p) \/ LoginFails(p) \/ Forward(p))
    BY DEF Reject, Unknown, LoginFails, Forward, Kick, Return
  <2>3. CASE P_heart_beat_req(p)
    <3>1. pushing'[1].body = [kind |-> "ack", n |-> 0]
      BY <1>0, <2>3 DEF P_heart_beat_req
    <3> QED BY <3>1
  <2>4. CASE P_get_seed_req(p)
    <3>1. pushing'[1].body = [kind |-> "seed", n |-> NewKey(enc)[1]]
      BY <1>0, <2>4 DEF P_get_seed_req
    <3> QED BY <1>1, <2>4, <3>1
  <2>5. CASE P_user_login_req(p)
    <3>1. pushing'[1].body = [kind |-> "login", n |-> 0]
      BY <1>0, <2>5 DEF P_user_login_req
    <3>2. stream' # 0
      BY <2>5, BoundsAssumption DEF P_user_login_req, Streams
    <3> QED BY <3>1, <3>2
  <2> QED BY <2>1, <2>2, <2>3, <2>4, <2>5 DEF func_UserMsgHandler
<1>2. CASE HandlerFrame
  <2>1. /\ Head(mq).type = "message"
        /\ CreateAndSend([kind |-> "game", n |-> Head(mq).n], flag, enc)
    BY <1>2 DEF HandlerFrame, Kick, Return
  <2>2. pushing'[1].body = [kind |-> "game", n |-> Head(mq).n]
    BY <1>0, <2>1
  <2> QED BY <1>2, <2>1, <2>2
<1> QED BY <1>1, <1>2

LEMMA PushedAt ==
  ASSUME TypeOK, PushStep
  PROVE  /\ handler' = "push" /\ Downlink \in Seq(Packet)
         /\ \/ Downlink' = <<>> /\ mode' = "closed"
            \/ /\ Len(Downlink') = Len(Downlink) + 1
               /\ Downlink'[Len(Downlink) + 1] = pushing'[1]
               /\ \A i \in 1 .. Len(Downlink) : Downlink'[i] = Downlink[i]
<1>1. Downlink \in Seq(Packet)
  BY DownType
<1>2. PICK body \in Body, f \in SUBSET {"KEYEXCG", "ENCRYPT", "KICKED"},
           e \in Key : Pushes(body, f, e)
  BY DEF PushStep
<1>3. pushing'[1] \in Packet
  <2>1. [body |-> body, key |-> KeyFor(f, e)] \in Packet
    BY KeyType DEF KeyFor, Packet
  <2> QED BY <1>2, <2>1 DEF Pushes, CreateAndSend
<1> QED BY <1>1, <1>2, <1>3 DEF Pushes, Pushed, CreateAndSend

\* Conversely, a handler that starts to push has done so in such a step.
LEMMA HandlerPushes ==
  ASSUME TypeOK, StopInv, HandlerPacket \/ HandlerFrame, handler' = "push"
  PROVE  PushStep
<1>1. CASE HandlerPacket
  <2>1. func_UserMsgHandler(offered[1]) /\ handler = "select"
        /\ UNCHANGED <<conn, senderV, client>>
    BY <1>1 DEF HandlerPacket
  <2>2. P_heart_beat_req(offered[1]) \/ P_user_login_req(offered[1])
        \/ P_get_seed_req(offered[1])
    BY <2>1 DEF func_UserMsgHandler, Reject, Unknown, LoginFails, Forward, Kick,
                Return
  <2> QED BY <2>1, <2>2, PushStepOf
<1>2. CASE HandlerFrame
  <2>1. /\ handler = "select" /\ UNCHANGED <<conn, senderV, client>>
        /\ mq # <<>>
        /\ CreateAndSend([kind |-> "game", n |-> Head(mq).n], flag, enc)
    BY <1>2 DEF HandlerFrame, Kick, Return
  <2> QED BY <2>1, FrameStepOf
<1> QED BY <1>1, <1>2

LEMMA StreamStays ==
  ASSUME TypeOK, [Next]_vars, stream # 0
  PROVE  stream' # 0
<1>1. CASE HandlerPacket
  <2>1. func_UserMsgHandler(offered[1])
    BY <1>1 DEF HandlerPacket
  <2>2. CASE P_user_login_req(offered[1])
    BY <2>2, BoundsAssumption DEF P_user_login_req, Streams
  <2> QED BY <2>1, <2>2 DEF func_UserMsgHandler, Reject, Unknown,
             P_heart_beat_req, P_get_seed_req, LoginFails, Forward
<1>2. CASE HandlerEOF \/ HandlerFrame \/ HandlerTimer \/ HandlerDie \/ HandlerExit
  BY <1>2 DEF HandlerEOF, HandlerFrame, HandlerTimer, HandlerDie, HandlerExit,
     sess
<1>3. CASE Client \/ Reader \/ Sender
  BY <1>3 DEF Client, ClientSend, ClientResend, ClientRecv, ConnReset,
     ClientMode, Reader, ReaderRead, ReaderFail, ReaderDie, Sender, SenderTake,
     SenderWrite, SenderStop, sess
<1>4. CASE (\E f \in Streams : Fetcher(f)) \/ (\E s \in Streams : Game(s))
  BY <1>4 DEF Fetcher, FetchRecv, FetchEnd, FetchPut, Game, GameSend, GameKick,
     GameEnd, sess
<1>5. CASE Terminate \/ Minute \/ UNCHANGED vars
  BY <1>5 DEF Terminate, Minute, vars, sess
<1> QED BY <1>1, <1>2, <1>3, <1>4, <1>5 DEF Next, Handler, Finished

LEMMA LoggedInStep ==
  ASSUME TypeOK, [Next]_vars, ~ClientRecv
  PROVE  UNCHANGED <<loggedIn, awaiting, garbled, rx, got>> \/ Client
<1>3. CASE Reader \/ Sender \/ Handler
  BY <1>3 DEF Handler, HandlerPacket, HandlerEOF, HandlerFrame, HandlerTimer,
     HandlerDie, HandlerExit, Reader, ReaderRead, ReaderFail, ReaderDie, Sender,
     SenderTake, SenderWrite, SenderStop, client
<1>4. CASE (\E f \in Streams : Fetcher(f)) \/ (\E s \in Streams : Game(s))
  BY <1>4 DEF Fetcher, FetchRecv, FetchEnd, FetchPut, Game, GameSend, GameKick,
     GameEnd, client
<1>5. CASE Terminate \/ Minute \/ UNCHANGED vars
  BY <1>5 DEF Terminate, Minute, vars, client
<1> QED BY <1>3, <1>4, <1>5 DEF Next, Finished

LEMMA StepLogged ==
  ASSUME LogInv, [Next]_vars
  PROVE  Logged'
<1>0. TypeOK /\ StopInv /\ Logged
  BY DEF LogInv
<1>1. Downlink \in Seq(Packet)
  BY <1>0, DownType
<1>2. \A i \in 1 .. Len(Downlink') :
         Downlink'[i].body.kind = "login" => stream' # 0
  <2>1. CASE Handed \/ HasRead
    <3>1. PICK d \in {0, 1} : \A i \in 1 .. Len(Downlink') :
             i + d \in 1 .. Len(Downlink) /\ Downlink'[i] = Downlink[i + d]
      BY <1>0, <2>1, DownKept
    <3> QED BY <1>0, <3>1, StreamStays DEF Logged
  <2>2. CASE PushStep /\ (HandlerPacket \/ HandlerFrame)
    <3>1. pushing'[1].body.kind = "login" => stream' # 0
      BY <1>0, <2>2, PushKinds, PushedAt
    <3>2. \A i \in 1 .. Len(Downlink) :
             Downlink[i].body.kind = "login" => stream' # 0
      BY <1>0, StreamStays DEF Logged
    <3> QED BY <1>0, <1>1, <2>2, <3>1, <3>2, PushedAt
  <2> QED BY <1>0, <2>1, <2>2, DownStep
<1>3. loggedIn' => stream' # 0
  <2>1. CASE ClientRecv
    <3>1. HasRead
      BY <1>0, <2>1, DownRead
    <3>2. Head(downNet) = Downlink[1] /\ 1 \in 1 .. Len(Downlink)
      BY <1>1, <3>1 DEF HasRead
    <3>3. loggedIn' => loggedIn \/ Head(downNet).body.kind = "login"
      BY <2>1 DEF ClientRecv
    <3> QED BY <1>0, <3>2, <3>3, StreamStays DEF Logged
  <2>2. CASE loggedIn' = loggedIn
    BY <1>0, <2>2, StreamStays DEF Logged
  <2>3. CASE Client /\ ~ClientRecv
    <3>1. loggedIn' = loggedIn
      BY <2>3 DEF Client, ClientSend, ClientResend, ConnReset, ClientMode, client
    <3> QED BY <2>2, <3>1
  <2> QED BY <1>0, <2>1, <2>2, <2>3, LoggedInStep
<1> QED BY <1>2, <1>3 DEF Logged

-----------------------------------------------------------------------------
(* A client that keeps to the protocol.  While it does and the handler       *)
(* serves, the packets between them are numbered and enciphered as the       *)
(* handler expects them, one by one; and either both ends hold the same      *)
(* keystream, or the client waits for the ack that will tell it the new one, *)
(* with nothing of its own still on the way.                                 *)

Serving == handler \in {"select", "push"}

\* The keystream m packets later, and the one the handler deciphers with.
Ahead(k, m) == IF k = Plain THEN k ELSE <<k[1], k[2] + m>>
Cur == IF Encrypting THEN dec ELSE Plain

InFlight == offered \o upNet

Fits(i) ==
    LET p == InFlight[i]
    IN  /\ p.seq = packetCount + i /\ p.key = Ahead(Cur, i - 1)
        /\ p.kind \in {"heart", "login", "seed", "game"}
        /\ p.kind = "game" => stream # 0
        /\ p.kind = "seed" => awaiting /\ i = Len(InFlight)

IsSeed(i) == Downlink[i].body.kind = "seed"

Agreed ==
    /\ tx = Ahead(Cur, Len(InFlight))
    /\ \A i \in 1 .. Len(Downlink) : ~IsSeed(i)
Rekeyed ==
    /\ awaiting /\ Len(InFlight) = 0
    /\ \A i \in 1 .. Len(Downlink) :
          IsSeed(i) => Cur = <<Downlink[i].body.n, 0>>
    /\ \A i, j \in 1 .. Len(Downlink) : IsSeed(i) /\ IsSeed(j) => i = j

Flow ==
    /\ packetCount + Len(InFlight) = Len(sent)
    /\ \A i \in 1 .. Len(InFlight) : Fits(i)
    /\ Agreed \/ Rekeyed

Rated == Len(sent) <= RpmLimit * Max1(minutes)

KickInv ==
    /\ LogInv /\ WellBehavedNotKicked
    /\ legal => Rated /\ (Serving => Flow)

LEMMA AheadLaws ==
  \A k \in Key, m \in Nat :
     /\ Ahead(k, m) \in Key /\ Ahead(k, 0) = k /\ Ahead(Plain, m) = Plain
     /\ Advance(Ahead(k, m)) = Ahead(k, m + 1)
     /\ Ahead(Advance(k), m) = Ahead(k, m + 1)
<1> SUFFICES ASSUME NEW k \in Key, NEW m \in Nat
             PROVE  /\ Ahead(k, m) \in Key /\ Ahead(k, 0) = k
                    /\ Ahead(Plain, m) = Plain
                    /\ Advance(Ahead(k, m)) = Ahead(k, m + 1)
                    /\ Ahead(Advance(k), m) = Ahead(k, m + 1)
  OBVIOUS
<1>1. PICK a \in Nat, b \in Nat : k = <<a, b>>
  BY DEF Key
<1>2. Ahead(Plain, m) = Plain
  BY DEF Ahead
<1>3. CASE k = Plain
  BY <1>2, <1>3, KeyType DEF Ahead, Advance
<1>4. CASE k # Plain
  <2>1. a # 0 \/ b # 0
    BY <1>1, <1>4 DEF Plain
  <2>2. \A n \in Nat : <<a, b + n>> # Plain /\ <<a, b + n>> \in Key
    BY <2>1 DEF Plain, Key
  <2>3. \A n \in Nat : Ahead(k, n) = <<a, b + n>>
    BY <1>1, <1>4 DEF Ahead
  <2>4. Advance(k) = <<a, b + 1>>
    BY <1>1, <1>4 DEF Advance
  <2>5. Advance(<<a, b + m>>) = <<a, b + m + 1>>
    BY <2>2 DEF Advance
  <2>6. Ahead(<<a, b + 1>>, m) = <<a, b + 1 + m>>
    BY <2>2 DEF Ahead
  <2>7. b + 1 + m = b + (m + 1) /\ b + m + 1 = b + (m + 1) /\ m + 1 \in Nat
    OBVIOUS
  <2>8. Ahead(k, 0) = k
    BY <1>1, <2>3
  <2> QED BY <1>2, <2>2, <2>3, <2>4, <2>5, <2>6, <2>7, <2>8
<1> QED BY <1>3, <1>4

LEMMA FlightType ==
  ASSUME TypeOK
  PROVE  /\ InFlight \in Seq(UpPacket) /\ Len(InFlight) \in Nat
         /\ Cur \in Key /\ tx \in Key /\ packetCount \in Nat
         /\ Len(sent) \in Nat /\ upNet \in Seq(UpPacket)
<1>1. offered \in Seq(UpPacket) /\ upNet \in Seq(UpPacket)
  BY DEF TypeOK, ConnType, ReaderType
<1>2. InFlight \in Seq(UpPacket)
  BY <1>1 DEF InFlight
<1>3. Cur \in Key
  BY KeyType DEF TypeOK, SessType, Cur
<1> QED BY <1>1, <1>2, <1>3 DEF TypeOK, ClientType, SessType

\* Acks of key exchanges only leave the downlink, and change no place.
SeedsFade ==
    /\ (\A i \in 1 .. Len(Downlink) : ~IsSeed(i))
         => \A i \in 1 .. Len(Downlink') : Downlink'[i].body.kind # "seed"
    /\ \A k : (\A i \in 1 .. Len(Downlink) :
                  IsSeed(i) => k = <<Downlink[i].body.n, 0>>)
         => \A i \in 1 .. Len(Downlink') : Downlink'[i].body.kind = "seed"
                                  => k = <<Downlink'[i].body.n, 0>>
    /\ (\A i, j \in 1 .. Len(Downlink) : IsSeed(i) /\ IsSeed(j) => i = j)
         => \A i, j \in 1 .. Len(Downlink') :
               Downlink'[i].body.kind = "seed"
               /\ Downlink'[j].body.kind = "seed" => i = j

LEMMA SeedsKept ==
  ASSUME TypeOK, Handed \/ HasRead
  PROVE  SeedsFade
<1>1. PICK d \in {0, 1} : \A i \in 1 .. Len(Downlink') :
             i + d \in 1 .. Len(Downlink) /\ Downlink'[i] = Downlink[i + d]
  BY DownKept
<1>2. \A i, j \in Int : i + d = j + d => i = j
  BY <1>1
<1> QED BY <1>1, <1>2 DEF IsSeed, SeedsFade

LEMMA SeedsPushed ==
  ASSUME TypeOK, PushStep, pushing'[1].body.kind # "seed"
  PROVE  SeedsFade
<1>1. Len(Downlink) \in Nat
  BY DownType
<1>2. CASE Downlink' = <<>>
  BY <1>2 DEF SeedsFade
<1>3. CASE /\ Len(Downlink') = Len(Downlink) + 1
           /\ Downlink'[Len(Downlink) + 1] = pushing'[1]
           /\ \A i \in 1 .. Len(Downlink) : Downlink'[i] = Downlink[i]
  <2>1. \A i \in 1 .. Len(Downlink') : Downlink'[i].body.kind = "seed" =>
           i \in 1 .. Len(Downlink) /\ IsSeed(i) /\ Downlink'[i] = Downlink[i]
    BY <1>1, <1>3 DEF IsSeed
  <2> QED BY <2>1 DEF SeedsFade
<1> QED BY <1>2, <1>3, PushedAt

\* A step that takes and adds no packet of the client's.
LEMMA FlowAside ==
  ASSUME TypeOK, Flow, SeedsFade, InFlight' = InFlight, Cur' = Cur,
         UNCHANGED <<sent, packetCount, stream, awaiting, tx>>
  PROVE  Flow'
<1>1. \A i \in 1 .. Len(InFlight') : Fits(i)'
  BY DEF Flow, Fits
<1>2. Agreed => Agreed'
  BY DEF Agreed, IsSeed, SeedsFade
<1>3. Rekeyed => Rekeyed'
  BY DEF Rekeyed, IsSeed, SeedsFade
<1> QED BY <1>1, <1>2, <1>3 DEF Flow

LEMMA SendFlow ==
  ASSUME LogInv, Flow, NEW k \in Kinds, ClientSend(k), legal'
  PROVE  Flow'
<1> DEFINE m == Len(InFlight)
           new == [seq |-> Len(sent) + 1, kind |-> k, key |-> tx]
<1>0. TypeOK /\ Logged
  BY DEF LogInv
<1>1. /\ InFlight \in Seq(UpPacket) /\ m \in Nat /\ Cur \in Key /\ tx \in Key
      /\ packetCount \in Nat /\ Len(sent) \in Nat /\ sent \in Seq(Kinds)
      /\ upNet \in Seq(UpPacket) /\ offered \in Seq(UpPacket)
  BY <1>0, FlightType DEF TypeOK, ClientType, ReaderType
<1>2. /\ upNet' = Append(upNet, new) /\ tx' = Advance(tx)
      /\ sent' = Append(sent, k) /\ InOrder(k)
      /\ awaiting' = (awaiting \/ k = "seed")
      /\ UNCHANGED <<offered, mode, downNet, writing, pushing, packetCount,
                     stream, flag, dec, loggedIn>>
  BY DEF ClientSend, Emit, readerV, senderV, handV, sess
<1>3. new \in UpPacket
  BY <1>1 DEF UpPacket
<1>4. InFlight' = Append(InFlight, new)
  <2>1. \A u, v \in Seq(UpPacket) : u \o Append(v, new) = Append(u \o v, new)
    BY <1>3
  <2> QED BY <1>1, <1>2, <2>1 DEF InFlight
<1>5. ~awaiting /\ tx = Ahead(Cur, m) /\ (k = "game" => stream # 0)
      /\ k \in {"heart", "login", "seed", "game"}
      /\ \A i \in 1 .. Len(Downlink) : ~IsSeed(i)
  BY <1>0, <1>2 DEF Flow, Agreed, Rekeyed, InOrder, Logged
<1>6. Cur' = Cur /\ Downlink' = Downlink
  BY <1>2 DEF Cur, Encrypting, Downlink
<1>7. /\ Len(InFlight') = m + 1 /\ InFlight'[m + 1] = new
      /\ \A i \in 1 .. m : InFlight'[i] = InFlight[i]
  BY <1>1, <1>3, <1>4
<1>8. Len(sent') = Len(sent) + 1 /\ packetCount + m = Len(sent)
  BY <1>1, <1>2 DEF Flow
<1>9. \A i \in 1 .. m + 1 : Fits(i)'
  <2> SUFFICES ASSUME NEW i \in 1 .. m + 1 PROVE Fits(i)'
    OBVIOUS
  <2>1. CASE i \in 1 .. m
    <3>1. Fits(i) /\ InFlight[i].kind # "seed"
      BY <1>5, <2>1 DEF Flow, Fits
    <3> QED BY <1>2, <1>6, <1>7, <2>1, <3>1 DEF Fits
  <2>2. CASE i = m + 1
    <3>2. /\ new.seq = Len(sent) + 1 /\ new.kind = k /\ new.key = tx
      OBVIOUS
    <3> HIDE DEF new, m
    <3>1. packetCount + i = Len(sent) + 1 /\ i - 1 = m
      <4>1. \A a, b, c \in Nat : a + b = c => a + (b + 1) = c + 1 /\ b + 1 - 1 = b
        OBVIOUS
      <4> QED BY <1>1, <1>8, <2>2, <4>1
    <3>3. k = "seed" => awaiting'
      BY <1>2
    <3> QED BY <1>2, <1>5, <1>6, <1>7, <2>2, <3>1, <3>2, <3>3 DEF Fits
  <2> QED BY <2>1, <2>2
<1>10. Agreed'
  <2>1. tx' = Ahead(Cur, m + 1)
    BY <1>1, <1>2, <1>5, AheadLaws
  <2> QED BY <1>5, <1>6, <1>7, <2>1 DEF Agreed, IsSeed
<1>11. packetCount' + Len(InFlight') = Len(sent')
  <2>1. \A a, b, c \in Nat : a + b = c => a + (b + 1) = c + 1
    OBVIOUS
  <2> HIDE DEF m
  <2> QED BY <1>1, <1>2, <1>7, <1>8, <2>1
<1> QED BY <1>7, <1>9, <1>10, <1>11 DEF Flow

LEMMA RecvFlow ==
  ASSUME TypeOK, Flow, ClientRecv
  PROVE  Flow'
<1> DEFINE p == Head(downNet)
<1>1. /\ UNCHANGED <<sent, upNet, offered, packetCount, stream, flag, dec>>
      /\ HasRead
  BY DownRead DEF ClientRecv, readerV, sess
<1>2. InFlight' = InFlight /\ Cur' = Cur /\ Cur \in Key
      /\ Downlink \in Seq(Packet)
  BY <1>1, FlightType, DownType DEF InFlight, Cur, Encrypting
<1>3. /\ 1 \in 1 .. Len(Downlink) /\ p = Downlink[1] /\ Downlink' = Tail(Downlink)
  BY <1>1, <1>2 DEF HasRead
<1>4. CASE p.key # rx \/ p.body.kind # "seed"
  <2>1. awaiting' = awaiting /\ tx' = tx
    BY <1>4 DEF ClientRecv, TypeOK, ClientType
  <2>2. \A i \in 1 .. Len(InFlight') : Fits(i)'
    BY <1>1, <1>2, <2>1 DEF Flow, Fits
  <2>3. Agreed => Agreed'
    BY <1>1, <1>2, <2>1, SeedsKept DEF Agreed, IsSeed, SeedsFade
  <2>4. Rekeyed => Rekeyed'
    BY <1>1, <1>2, <2>1, SeedsKept DEF Rekeyed, IsSeed, SeedsFade
  <2> QED BY <1>1, <1>2, <2>2, <2>3, <2>4 DEF Flow
<1>5. CASE p.key = rx /\ p.body.kind = "seed"
  <2>1. IsSeed(1)
    BY <1>3, <1>5 DEF IsSeed
  <2>2. Rekeyed
    BY <1>3, <2>1 DEF Flow, Agreed
  <2>3. tx' = Cur /\ Len(InFlight) = 0
    BY <1>3, <1>5, <2>1, <2>2 DEF Rekeyed, ClientRecv
  <2>4. \A i \in 1 .. Len(Downlink') : Downlink'[i].body.kind # "seed"
    <3>1. \A i \in 1 .. Len(Downlink') :
             i + 1 \in 1 .. Len(Downlink) /\ Downlink'[i] = Downlink[i + 1]
             /\ i + 1 # 1
      BY <1>2, <1>3
    <3> QED BY <1>3, <2>1, <2>2, <3>1 DEF Rekeyed, IsSeed
  <2>5. tx' = Ahead(Cur, 0)
    BY <1>2, <2>3, AheadLaws
  <2>6. Agreed'
    BY <1>2, <2>3, <2>4, <2>5 DEF Agreed, IsSeed
  <2> QED BY <1>1, <1>2, <2>3, <2>6 DEF Flow
<1> QED BY <1>4, <1>5

\* The packet the handler takes is the one it expects.
LEMMA FirstFits ==
  ASSUME TypeOK, Flow, HandlerPacket
  PROVE  /\ offered[1] \in UpPacket /\ SeqOK(offered[1]) /\ Agreed
         /\ offered[1].kind \in {"heart", "login", "seed", "game"}
         /\ offered[1].kind = "game" => stream # 0
         /\ offered[1].kind = "seed" => awaiting /\ Len(upNet) = 0
         /\ Len(InFlight) = Len(upNet) + 1 /\ InFlight' = upNet
         /\ \A i \in 1 .. Len(upNet) : upNet[i] = InFlight[i + 1]
<1> DEFINE p == offered[1]
<1>1. /\ upNet \in Seq(UpPacket) /\ offered \in Seq(UpPacket) /\ Len(offered) = 1
      /\ offered' = <<>> /\ upNet' = upNet /\ Cur \in Key
  BY FlightType DEF TypeOK, ReaderType, HandlerPacket, conn
<1>2. p \in UpPacket
  <2>1. \A u \in Seq(UpPacket) : Len(u) = 1 => u[1] \in UpPacket
    OBVIOUS
  <2> QED BY <1>1, <2>1
<1>3. InFlight' = upNet
  <2>1. <<>> \o upNet = upNet
    BY <1>1, ConcatEmptySeq
  <2> QED BY <1>1, <2>1 DEF InFlight
<1>4. /\ Len(InFlight) = Len(upNet) + 1 /\ InFlight[1] = p
      /\ \A i \in 1 .. Len(upNet) : upNet[i] = InFlight[i + 1]
  <2>1. \A u, v \in Seq(UpPacket) : Len(u) = 1 =>
           /\ Len(u \o v) = Len(v) + 1 /\ (u \o v)[1] = u[1]
           /\ \A i \in 1 .. Len(v) : v[i] = (u \o v)[i + 1]
    <3> SUFFICES ASSUME NEW u \in Seq(UpPacket), NEW v \in Seq(UpPacket),
                        Len(u) = 1
                 PROVE  /\ Len(u \o v) = Len(v) + 1 /\ (u \o v)[1] = u[1]
                        /\ \A i \in 1 .. Len(v) : v[i] = (u \o v)[i + 1]
      OBVIOUS
    <3>1. /\ Len(u \o v) = Len(u) + Len(v)
          /\ \A i \in 1 .. Len(u) + Len(v) :
                (u \o v)[i] = IF i <= Len(u) THEN u[i] ELSE v[i - Len(u)]
      BY ConcatProperties
    <3>2. Len(v) \in Nat
      OBVIOUS
    <3>3. /\ Len(u \o v) = Len(v) + 1
          /\ \A i \in 1 .. 1 + Len(v) :
                (u \o v)[i] = IF i <= 1 THEN u[i] ELSE v[i - 1]
      BY <3>1, <3>2
    <3>4. \A i \in 1 .. Len(v) : i + 1 \in 1 .. 1 + Len(v) /\ ~(i + 1 <= 1)
                                 /\ i + 1 - 1 = i
      BY <3>2
    <3> QED BY <3>2, <3>3, <3>4
  <2> QED BY <1>1, <2>1 DEF InFlight
<1>5. 1 \in 1 .. Len(InFlight)
  BY <1>1, <1>4
<1>6. Fits(1)
  BY <1>5 DEF Flow
<1>7. Ahead(Cur, 1 - 1) = Cur
  BY <1>1, AheadLaws
<1>8. SeqOK(p)
  BY <1>4, <1>6, <1>7 DEF Fits, SeqOK, Legible, Cur
<1>9. Agreed
  BY <1>1, <1>4 DEF Flow, Rekeyed
<1>10. 1 = Len(InFlight) => Len(upNet) = 0
  BY <1>1, <1>4
<1> QED BY <1>2, <1>3, <1>4, <1>6, <1>8, <1>9, <1>10 DEF Fits

LEMMA PacketFlow ==
  ASSUME LogInv, Flow, HandlerPacket, Serving'
  PROVE  Flow'
<1> DEFINE p == offered[1]
<1>0. TypeOK /\ StopInv /\ Logged /\ Switched /\ [Next]_vars
  BY DEF LogInv, Next, Handler
<1>1. /\ packetCount' = packetCount + 1 /\ handler = "select"
      /\ UNCHANGED <<sent, awaiting, tx>> /\ func_UserMsgHandler(p)
  BY DEF HandlerPacket, client
<1>2. /\ InFlight \in Seq(UpPacket) /\ Cur \in Key /\ tx \in Key
      /\ packetCount \in Nat /\ Len(sent) \in Nat /\ upNet \in Seq(UpPacket)
      /\ Len(upNet) \in Nat
  BY <1>0, FlightType
<1>3. packetCount' + Len(InFlight') = Len(sent')
  <2>1. packetCount + (Len(upNet) + 1) = Len(sent) /\ Len(InFlight') = Len(upNet)
    BY <1>0, FirstFits DEF Flow
  <2>2. \A a, b, c \in Nat : a + (b + 1) = c => a + 1 + b = c
    OBVIOUS
  <2> QED BY <1>1, <1>2, <2>1, <2>2
<1>4. CASE P_get_seed_req(p)
  <2> DEFINE e == NewKey(enc)
  <2>1. /\ dec' = e /\ flag' = FlagsAfter(flag \cup {"KEYEXCG"})
        /\ pushing'[1].body = [kind |-> "seed", n |-> e[1]]
        /\ handler' = "push" /\ p.kind = "seed"
    BY <1>4 DEF P_get_seed_req, CreateAndSend
  <2>2. "ENCRYPT" \in flag'
    BY <2>1 DEF FlagsAfter
  <2>3. e = <<enc[1] + 1, 0>> /\ e[1] = enc[1] + 1
    BY DEF NewKey
  <2>4. Cur' = <<pushing'[1].body.n, 0>>
    BY <2>1, <2>2, <2>3 DEF Cur, Encrypting
  <2>5. awaiting' /\ Len(InFlight') = 0
    BY <1>0, <1>1, <2>1, FirstFits
  <2>6. PushStep
    BY <1>0, <2>1, DownStep, HandlerPushes
  <2>7. \A i \in 1 .. Len(Downlink) : ~IsSeed(i)
    BY <1>0, FirstFits DEF Agreed
  <2>8. Rekeyed'
    <3>1. CASE Downlink' = <<>>
      BY <2>5, <3>1 DEF Rekeyed
    <3>2. CASE /\ Len(Downlink') = Len(Downlink) + 1
               /\ Downlink'[Len(Downlink) + 1] = pushing'[1]
               /\ \A i \in 1 .. Len(Downlink) : Downlink'[i] = Downlink[i]
      <4>1. Len(Downlink) \in Nat
        BY <1>0, DownType
      <4>2. \A i \in 1 .. Len(Downlink') : IsSeed(i)' =>
               i = Len(Downlink) + 1
        BY <2>7, <3>2, <4>1 DEF IsSeed
      <4> QED BY <2>4, <2>5, <3>2, <4>1, <4>2 DEF Rekeyed, IsSeed
    <3> QED BY <1>0, <2>6, <3>1, <3>2, PushedAt
  <2> QED BY <1>3, <2>5, <2>8 DEF Flow
<1>5. CASE P_heart_beat_req(p) \/ P_user_login_req(p) \/ LoginFails(p)
           \/ Forward(p)
  <2>1. dec' = DecAfter /\ p.kind # "seed"
    BY <1>5 DEF P_heart_beat_req, P_user_login_req, LoginFails, Forward
  <2>2. "ENCRYPT" \in flag' <=> "ENCRYPT" \in flag
    BY <1>0, <1>5 DEF P_heart_beat_req, P_user_login_req, LoginFails, Forward,
       CreateAndSend, FlagsAfter, Kick, Switched
  <2>3. Cur' = Advance(Cur)
    <3>1. Advance(Plain) = Plain
      BY DEF Advance
    <3> QED BY <2>1, <2>2, <3>1 DEF Cur, Encrypting, DecAfter
  <2>4. \A n \in Nat : Ahead(Cur', n) = Ahead(Cur, n + 1)
    BY <1>2, <2>3, AheadLaws
  <2>5. \A i \in 1 .. Len(InFlight') : Fits(i)'
    <3> SUFFICES ASSUME NEW i \in 1 .. Len(upNet) PROVE Fits(i)'
      BY <1>0, FirstFits
    <3>1. /\ i + 1 \in 1 .. Len(InFlight) /\ InFlight'[i] = InFlight[i + 1]
          /\ Len(InFlight) = Len(InFlight') + 1 /\ Len(InFlight') = Len(upNet)
      BY <1>0, <1>2, FirstFits
    <3>2. Fits(i + 1)
      BY <3>1 DEF Flow
    <3>3. stream # 0 => stream' # 0
      BY <1>0, StreamStays
    <3>4. Ahead(Cur', i - 1) = Ahead(Cur, i + 1 - 1)
      <4>1. i - 1 \in Nat /\ i - 1 + 1 = i + 1 - 1
        BY <1>2
      <4> QED BY <2>4, <4>1
    <3>5. packetCount' + i = packetCount + (i + 1)
      BY <1>1, <1>2
    <3>6. i + 1 = Len(InFlight) => i = Len(InFlight')
      BY <1>2, <3>1
    <3> QED BY <1>1, <3>1, <3>2, <3>3, <3>4, <3>5, <3>6 DEF Fits
  <2>6. tx' = Ahead(Cur', Len(InFlight'))
    <3>1. tx = Ahead(Cur, Len(upNet) + 1) /\ Len(InFlight') = Len(upNet)
      BY <1>0, FirstFits DEF Agreed
    <3> QED BY <1>1, <1>2, <2>4, <3>1
  <2>7. \A i \in 1 .. Len(Downlink') : ~IsSeed(i)'
    <3>1. \A i \in 1 .. Len(Downlink) : ~IsSeed(i)
      BY <1>0, FirstFits DEF Agreed
    <3>2. CASE Handed \/ HasRead
      BY <1>0, <3>1, <3>2, SeedsKept DEF IsSeed, SeedsFade
    <3>3. CASE PushStep
      <4>1. handler' = "push" /\ Len(Downlink) \in Nat
        BY <1>0, <3>3, PushedAt
      <4>2. pushing'[1].body.kind # "seed"
        BY <1>0, <2>1, <4>1, PushKinds DEF P_get_seed_req
      <4> QED BY <1>0, <3>1, <3>3, <4>1, <4>2, PushedAt DEF IsSeed
    <3> QED BY <1>0, <3>2, <3>3, DownStep
  <2>8. Agreed'
    BY <2>6, <2>7 DEF Agreed
  <2> QED BY <1>3, <2>5, <2>8 DEF Flow
<1>6. ~Reject(p) /\ ~Unknown(p)
  BY DEF Reject, Unknown, Kick, Return, Serving
<1> QED BY <1>1, <1>4, <1>5, <1>6 DEF func_UserMsgHandler

LEMMA LegalStep ==
  ASSUME [Next]_vars
  PROVE  (legal' => legal) /\ (Serving' => Serving)
<1>1. CASE Client
  BY <1>1 DEF Client, ClientSend, ClientResend, ClientRecv, ConnReset,
     ClientMode, Serving, client, handV
<1>2. CASE Reader \/ Sender
  BY <1>2 DEF Reader, ReaderRead, ReaderFail, ReaderDie, Sender, SenderTake,
     SenderWrite, SenderStop, Serving, client, handV
<1>3. CASE Handler
  BY <1>3 DEF Handler, HandlerPacket, HandlerEOF, HandlerFrame, HandlerTimer,
     HandlerDie, HandlerExit, Serving, client
<1>4. CASE (\E f \in Streams : Fetcher(f)) \/ (\E s \in Streams : Game(s))
  <2>1. UNCHANGED <<client, handV>>
    BY <1>4 DEF Fetcher, FetchRecv, FetchEnd, FetchPut, Game, GameSend, GameKick,
       GameEnd
  <2> QED BY <2>1 DEF Serving, client, handV
<1>5. CASE Terminate \/ Minute \/ UNCHANGED vars
  BY <1>5 DEF Terminate, Minute, vars, Serving, client, handV
<1> QED BY <1>1, <1>2, <1>3, <1>4, <1>5 DEF Next, Finished

LEMMA AsideAll ==
  ASSUME TypeOK, Flow, Handed,
         UNCHANGED <<offered, upNet, flag, dec, sent, packetCount, stream,
                     awaiting, tx>>
  PROVE  Flow'
<1>1. InFlight' = InFlight /\ Cur' = Cur
  BY DEF InFlight, Cur, Encrypting
<1> QED BY <1>1, SeedsKept, FlowAside

LEMMA FrameFlow ==
  ASSUME LogInv, Flow, HandlerFrame, Serving'
  PROVE  Flow'
<1>0. TypeOK /\ StopInv /\ Switched
  BY DEF LogInv
<1>1. /\ CreateAndSend([kind |-> "game", n |-> Head(mq).n], flag, enc)
      /\ UNCHANGED <<offered, upNet, dec, sent, packetCount, stream, awaiting, tx>>
  BY DEF HandlerFrame, Kick, Return, Serving, client, conn, readerV
<1>2. "ENCRYPT" \in flag' <=> "ENCRYPT" \in flag
  BY <1>0, <1>1 DEF CreateAndSend, FlagsAfter, Switched
<1>3. InFlight' = InFlight /\ Cur' = Cur
  BY <1>1, <1>2 DEF InFlight, Cur, Encrypting
<1>4. pushing'[1].body = [kind |-> "game", n |-> Head(mq).n] /\ handler' = "push"
  BY <1>1 DEF CreateAndSend
<1>5. pushing'[1].body.kind # "seed"
  BY <1>4
<1> QED BY <1>0, <1>1, <1>3, <1>4, <1>5, HandlerPushes, SeedsPushed, FlowAside

LEMMA ReaderFlow ==
  ASSUME TypeOK, Flow, ReaderRead
  PROVE  Flow'
<1>1. /\ upNet # <<>> /\ upNet \in Seq(UpPacket) /\ offered = <<>>
      /\ offered' = <<Head(upNet)>> /\ upNet' = Tail(upNet)
      /\ UNCHANGED <<flag, dec, sent, packetCount, stream, awaiting, tx, downNet,
                     writing, pushing, mode>>
  BY DEF TypeOK, ConnType, ReaderType, ReaderRead, client, sess, handV, senderV
<1>2. <<Head(upNet)>> \o Tail(upNet) = upNet /\ <<>> \o upNet = upNet
  BY <1>1, ConcatEmptySeq
<1>3. InFlight' = InFlight /\ Cur' = Cur
  BY <1>1, <1>2 DEF InFlight, Cur, Encrypting
<1>4. Handed
  BY <1>1, DownHanded
<1> QED BY <1>1, <1>3, <1>4, SeedsKept, FlowAside

LEMMA StepFlow ==
  ASSUME KickInv, [Next]_vars, legal', Serving'
  PROVE  Flow'
<1>0. LogInv /\ TypeOK /\ StopInv /\ Flow /\ Serving
  BY LegalStep DEF KickInv, LogInv
<1>1. CASE Client
  <2>1. CASE \E k \in Kinds : ClientSend(k)
    BY <1>0, <2>1, SendFlow
  <2>2. ~ClientResend
    BY DEF ClientResend
  <2>3. CASE ClientRecv
    BY <1>0, <2>3, RecvFlow
  <2>4. CASE ConnReset
    BY <1>0, <2>4, DownSender, AsideAll DEF ConnReset, client, readerV, sess
  <2>5. CASE \E m \in {"mute", "stalled", "closed"} : ClientMode(m)
    <3>1. Handed
      BY <2>5, DownHanded DEF ClientMode, conn, handV, senderV
    <3> QED BY <1>0, <2>5, <3>1, AsideAll DEF ClientMode, conn, readerV, sess
  <2> QED BY <1>1, <2>1, <2>2, <2>3, <2>4, <2>5 DEF Client
<1>2. CASE Reader
  <2>1. CASE ReaderRead
    BY <1>0, <2>1, ReaderFlow
  <2>2. CASE ReaderFail
    <3>1. Handed
      BY <2>2, DownHanded DEF ReaderFail, conn, handV, senderV, client
    <3> QED BY <1>0, <2>2, <3>1, AsideAll DEF ReaderFail, conn, client, sess
  <2>3. ~ReaderDie
    BY <1>0 DEF ReaderDie, DieClosed, Serving
  <2> QED BY <1>2, <2>1, <2>2, <2>3 DEF Reader
<1>3. CASE Handler
  <2>1. CASE HandlerPacket
    BY <1>0, <2>1, PacketFlow
  <2>2. CASE HandlerFrame
    BY <1>0, <2>2, FrameFlow
  <2>3. ~(HandlerEOF \/ HandlerDie \/ HandlerExit)
    BY DEF HandlerEOF, HandlerDie, HandlerExit, Kick, Return, Serving
  <2>4. CASE HandlerTimer
    <3>1. UNCHANGED <<handV, flag, enc, why>>
      BY <2>4 DEF HandlerTimer, Kick, Return, Serving
    <3>2. Handed
      BY <2>4, <3>1, DownHanded DEF HandlerTimer, conn, handV, senderV, client
    <3> QED BY <1>0, <2>4, <3>1, <3>2, AsideAll DEF HandlerTimer, conn, client,
               readerV
  <2> QED BY <1>3, <2>1, <2>2, <2>3, <2>4 DEF Handler
<1>4. CASE Sender
  <2>1. UNCHANGED <<offered, upNet, flag, dec, sent, packetCount, stream,
                    awaiting, tx>>
    BY <1>4 DEF Sender, SenderTake, SenderWrite, SenderStop, conn, client,
       readerV, sess
  <2> QED BY <1>0, <1>4, <2>1, DownSender, AsideAll
<1>5. CASE \/ (\E f \in Streams : Fetcher(f)) \/ (\E s \in Streams : Game(s))
           \/ Terminate \/ Minute \/ UNCHANGED vars
  <2>1. UNCHANGED <<conn, client, readerV, sess, handV, senderV>>
    BY <1>5 DEF Fetcher, FetchRecv, FetchEnd, FetchPut, Game, GameSend,
       GameKick, GameEnd, Terminate, Minute, vars
  <2>2. Handed
    BY <2>1, DownHanded DEF conn, handV, senderV, client
  <2> QED BY <1>0, <2>1, <2>2, AsideAll DEF conn, client, readerV, sess
<1> QED BY <1>1, <1>2, <1>3, <1>4, <1>5 DEF Next, Finished

LEMMA StepRated ==
  ASSUME KickInv, [Next]_vars, legal'
  PROVE  Rated'
<1>0. TypeOK /\ legal /\ Rated
  BY LegalStep DEF KickInv, LogInv
<1>1. /\ minutes \in Nat /\ RpmLimit \in Nat /\ Len(sent) \in Nat
      /\ sent \in Seq(Kinds)
  BY <1>0, BoundsAssumption DEF TypeOK, WorldType, ClientType
<1>2. CASE UNCHANGED <<sent, minutes>>
  BY <1>0, <1>2 DEF Rated
<1>3. CASE Minute
  <2>1. sent' = sent /\ minutes' = minutes + 1
    BY <1>3 DEF Minute, client
  <2>2. Max1(minutes) \in Nat /\ Max1(minutes + 1) = minutes + 1
        /\ Max1(minutes) <= minutes + 1
    BY <1>1 DEF Max1
  <2>3. \A a, b, r \in Nat : a <= b => r * a <= r * b
    BY SMT
  <2>4. RpmLimit * Max1(minutes) <= RpmLimit * Max1(minutes + 1)
    BY <1>1, <2>2, <2>3
  <2>5. RpmLimit * Max1(minutes) \in Nat /\ RpmLimit * Max1(minutes + 1) \in Nat
    BY <1>1, <2>2
  <2> QED BY <1>0, <1>1, <2>1, <2>4, <2>5 DEF Rated
<1>4. CASE \E k \in Kinds : ClientSend(k)
  <2>1. PICK k \in Kinds : ClientSend(k)
    BY <1>4
  <2>2. /\ minutes' = minutes /\ Len(sent') = Len(sent) + 1
        /\ Len(sent) < RpmLimit * Max1(minutes)
    <3>1. sent' = Append(sent, k) /\ minutes' = minutes /\ InOrder(k)
      BY <2>1 DEF ClientSend, world
    <3>2. Len(sent') = Len(sent) + 1
      BY <1>1, <3>1
    <3> QED BY <3>1, <3>2 DEF InOrder
  <2>3. RpmLimit * Max1(minutes) \in Nat
    BY <1>1 DEF Max1
  <2> QED BY <1>1, <2>2, <2>3 DEF Rated
<1>5. CASE ClientResend \/ ClientRecv \/ ConnReset
           \/ (\E m \in {"mute", "stalled", "closed"} : ClientMode(m))
  BY <1>2, <1>5 DEF ClientResend, ClientRecv, ConnReset, ClientMode, world, client
<1>6. CASE Reader \/ Sender \/ Handler
  BY <1>2, <1>6 DEF Handler, HandlerPacket, HandlerEOF, HandlerFrame,
     HandlerTimer, HandlerDie, HandlerExit, Reader, ReaderRead, ReaderFail,
     ReaderDie, Sender, SenderTake, SenderWrite, SenderStop, client, world
<1>7. CASE \/ (\E f \in Streams : Fetcher(f)) \/ (\E s \in Streams : Game(s))
           \/ Terminate \/ UNCHANGED vars
  BY <1>2, <1>7 DEF Fetcher, FetchRecv, FetchEnd, FetchPut, Game, GameSend,
     GameKick, GameEnd, Terminate, vars, client, world
<1> QED BY <1>3, <1>4, <1>5, <1>6, <1>7 DEF Next, Client, Finished

\* The handler kicks no client that keeps to the protocol.
LEMMA StepKick ==
  ASSUME KickInv, [Next]_vars
  PROVE  WellBehavedNotKicked'
<1> SUFFICES ASSUME legal'
             PROVE  why' \notin {"seq", "proto", "nostream", "rate"}
  BY DEF WellBehavedNotKicked
<1>0. TypeOK /\ legal /\ why \notin {"seq", "proto", "nostream", "rate"}
      /\ Rated /\ (Serving => Flow)
  BY LegalStep DEF KickInv, LogInv, WellBehavedNotKicked
<1>1. CASE why' = why
  BY <1>0, <1>1
<1>2. CASE HandlerPacket
  <2> DEFINE p == offered[1]
  <2>1. func_UserMsgHandler(p) /\ Flow
    BY <1>0, <1>2 DEF HandlerPacket, Serving
  <2>2. /\ SeqOK(p) /\ p.kind \in {"heart", "login", "seed", "game"}
        /\ p.kind = "game" => stream # 0
    BY <1>0, <1>2, <2>1, FirstFits
  <2> HIDE DEF p
  <2>3. ~Reject(p) /\ ~Unknown(p)
    BY <2>2 DEF Reject, Unknown
  <2>4. CASE Forward(p)
    <3>1. p.kind = "game"
      BY <2>4 DEF Forward
    <3>2. why' = why \/ why' = "stream"
      BY <2>2, <2>4, <3>1 DEF Forward, Kick, Return
    <3> QED BY <1>0, <3>2
  <2>5. CASE P_heart_beat_req(p) \/ P_get_seed_req(p) \/ LoginFails(p)
             \/ P_user_login_req(p)
    BY <1>1, <2>5 DEF P_heart_beat_req, P_get_seed_req, LoginFails,
       P_user_login_req, CreateAndSend
  <2> QED BY <2>1, <2>3, <2>4, <2>5 DEF func_UserMsgHandler
<1>3. CASE HandlerEOF \/ HandlerFrame \/ HandlerDie
  BY <1>0, <1>3 DEF HandlerEOF, HandlerFrame, HandlerDie, Kick, Return,
     CreateAndSend
<1>4. CASE HandlerTimer
  <2>1. Flow /\ minutes > armed /\ minutes \in Nat /\ armed \in Nat
    BY <1>0, <1>4 DEF HandlerTimer, Serving, TypeOK, SessType, WorldType
  <2>2. /\ packetCount \in Nat /\ Len(InFlight) \in Nat /\ Len(sent) \in Nat
        /\ packetCount + Len(InFlight) = Len(sent)
    BY <1>0, <2>1, FlightType DEF Flow
  <2>3. Len(sent) <= RpmLimit * minutes
    BY <1>0, <2>1 DEF Rated, Max1
  <2>4. RpmLimit * minutes \in Nat
    BY <2>1, BoundsAssumption
  <2>5. ~(packetCount > RpmLimit * minutes)
    BY <2>2, <2>3, <2>4
  <2> QED BY <1>1, <1>4, <2>5 DEF HandlerTimer
<1>5. CASE HandlerExit \/ Client \/ Reader \/ Sender
  BY <1>1, <1>5 DEF HandlerExit, Client, ClientSend, ClientResend, ClientRecv,
     ConnReset, ClientMode, Reader, ReaderRead, ReaderFail, ReaderDie, Sender,
     SenderTake, SenderWrite, SenderStop, hist
<1>6. CASE \/ (\E f \in Streams : Fetcher(f)) \/ (\E s \in Streams : Game(s))
           \/ Terminate \/ Minute \/ UNCHANGED vars
  BY <1>1, <1>6 DEF Fetcher, FetchRecv, FetchEnd, FetchPut, Game, GameSend,
     GameKick, GameEnd, Terminate, Minute, vars, hist
<1> QED BY <1>2, <1>3, <1>4, <1>5, <1>6 DEF Next, Handler, Finished

LEMMA InitLog == Init => LogInv /\ Downlink = <<>>
<1> SUFFICES ASSUME Init PROVE LogInv /\ Downlink = <<>>
  OBVIOUS
<1>1. Downlink = <<>>
  <2>1. <<>> \o <<>> \o <<>> = <<>>
    OBVIOUS
  <2> QED BY <2>1 DEF Init, Downlink
<1> QED BY <1>1, InitType DEF Init, LogInv, StopInv, Logged, Switched

LEMMA InitKick == Init => KickInv
<1> SUFFICES ASSUME Init PROVE KickInv
  OBVIOUS
<1>1. Rated
  <2>1. Len(sent) = 0 /\ Max1(minutes) = 1
    BY DEF Init, Max1
  <2>2. RpmLimit * 1 >= 0
    BY BoundsAssumption
  <2> QED BY <2>1, <2>2 DEF Rated
<1>2. Flow
  <2>1. InFlight = <<>>
    <3>1. <<>> \o <<>> = <<>>
      OBVIOUS
    <3> QED BY <3>1 DEF Init, InFlight
  <2>2. Cur = Plain /\ Ahead(Plain, 0) = Plain
    BY DEF Init, Cur, Encrypting, Ahead
  <2>3. Agreed
    BY <2>1, <2>2, InitLog DEF Init, Agreed
  <2> QED BY <2>1, <2>3 DEF Init, Flow
<1> QED BY <1>1, <1>2, InitLog DEF Init, KickInv, WellBehavedNotKicked

LEMMA StepLog == LogInv /\ [Next]_vars => LogInv'
  BY StepType, StepStop, StepSwitched, StepLogged DEF LogInv

LEMMA StepKickInv == KickInv /\ [Next]_vars => KickInv'
<1> SUFFICES ASSUME KickInv, [Next]_vars PROVE KickInv'
  OBVIOUS
<1>1. LogInv'
  BY StepLog DEF KickInv
<1>2. WellBehavedNotKicked'
  BY StepKick
<1>3. legal' => Rated'
  BY StepRated
<1>4. legal' /\ Serving' => Flow'
  BY StepFlow
<1> QED BY <1>1, <1>2, <1>3, <1>4 DEF KickInv

\* A client that keeps to the protocol is not thrown out by its packet
\* number, its protocol number, a missing stream or the rate, for any number
\* of packets, key exchanges and logins, any buffer sizes, and whatever is
\* pushed to it meanwhile.
THEOREM KeepsWellBehaved == Spec => []WellBehavedNotKicked
<1>1. KickInv => WellBehavedNotKicked
  BY DEF KickInv
<1> QED BY <1>1, InitKick, StepKickInv, PTL DEF Spec

-----------------------------------------------------------------------------
(* The client deciphers what it reads, when it exchanges keys once.  Each    *)
(* packet of the downlink is enciphered with the keystream the client will   *)
(* hold when it comes to read it: its own, moved on, up to the ack of the    *)
(* exchange, at place q, and the new one after it.                           *)

SeedsOnce ==
    \A i, j \in 1 .. Len(sent) : sent[i] = "seed" /\ sent[j] = "seed" => i = j
Exchanged ==
    Encrypting => \E i \in 1 .. Len(sent) : i <= packetCount /\ sent[i] = "seed"

EncNow == IF Encrypting THEN enc ELSE Plain

KeyAt(q, j) == IF q = 0 \/ j <= q
               THEN Ahead(rx, j - 1)
               ELSE Ahead(<<Downlink[q].body.n, 0>>, j - q - 1)

Keyed(q) ==
    /\ \A j \in 1 .. Len(Downlink) :
          Downlink[j].key = KeyAt(q, j) /\ (IsSeed(j) <=> j = q)
    /\ q # 0 => Encrypting
    /\ mode # "closed" /\ sender # "done"
          => EncNow = KeyAt(q, Len(Downlink) + 1)

HasKeys == \E q \in 0 .. Len(Downlink) : Keyed(q)

KeyInv ==
    FwdInv /\ LogInv /\ SeedsOnce /\ Exchanged /\ HasKeys /\ ~garbled

LEMMA StepSeedsOnce ==
  ASSUME TypeOK, SeedsOnce, [Next]_vars, MaxSeeds <= 1
  PROVE  SeedsOnce'
<1>0. sent \in Seq(Kinds) /\ Len(sent) \in Nat
  BY DEF TypeOK, ClientType
<1>1. CASE sent' = sent
  BY <1>1 DEF SeedsOnce
<1>2. CASE \E k \in Kinds : ClientSend(k)
  <2>1. PICK k \in Kinds : ClientSend(k)
    BY <1>2
  <2>2. /\ sent' = Append(sent, k)
        /\ k = "seed" => Count("seed") < MaxSeeds
    BY <2>1 DEF ClientSend
  <2>3. /\ Len(sent') = Len(sent) + 1 /\ sent'[Len(sent) + 1] = k
        /\ \A i \in 1 .. Len(sent) : sent'[i] = sent[i]
    BY <1>0, <2>2
  <2>4. k = "seed" => \A i \in 1 .. Len(sent) : sent[i] # "seed"
    <3> SUFFICES ASSUME k = "seed"
                 PROVE  \A i \in 1 .. Len(sent) : sent[i] # "seed"
      OBVIOUS
    <3> DEFINE S == {i \in DOMAIN sent : sent[i] = "seed"}
    <3>1. S \subseteq 1 .. Len(sent) /\ IsFiniteSet(1 .. Len(sent))
      <4>1. S \subseteq 1 .. Len(sent)
        BY <1>0
      <4>2. IsFiniteSet(1 .. Len(sent))
        BY <1>0, FS_Interval
      <4> QED BY <4>1, <4>2
    <3>2. IsFiniteSet(S)
      BY <3>1, FS_Subset
    <3>3. Cardinality(S) \in Nat /\ Cardinality(S) < MaxSeeds
      BY <2>2, <3>2, FS_CardinalityType DEF Count
    <3>4. Cardinality(S) = 0
      BY <3>3, BoundsAssumption
    <3>5. S = {}
      BY <3>2, <3>4, FS_EmptySet
    <3> QED BY <1>0, <3>5
  <2>5. CASE k = "seed"
    BY <1>0, <2>3, <2>4, <2>5 DEF SeedsOnce
  <2>6. CASE k # "seed"
    BY <1>0, <2>3, <2>6 DEF SeedsOnce
  <2> QED BY <2>5, <2>6
<1>3. CASE Client /\ ~(\E k \in Kinds : ClientSend(k))
  BY <1>1, <1>3 DEF Client, ClientResend, ClientRecv, ConnReset, ClientMode,
     client
<1>4. CASE Reader \/ Sender \/ Handler
  BY <1>1, <1>4 DEF Handler, HandlerPacket, HandlerEOF, HandlerFrame,
     HandlerTimer, HandlerDie, HandlerExit, Reader, ReaderRead, ReaderFail,
     ReaderDie, Sender, SenderTake, SenderWrite, SenderStop, client
<1>5. CASE \/ (\E f \in Streams : Fetcher(f)) \/ (\E s \in Streams : Game(s))
           \/ Terminate \/ Minute \/ UNCHANGED vars
  BY <1>1, <1>5 DEF Fetcher, FetchRecv, FetchEnd, FetchPut, Game, GameSend,
     GameKick, GameEnd, Terminate, Minute, vars, client
<1> QED BY <1>2, <1>3, <1>4, <1>5 DEF Next, Finished

\* A step that pushes nothing leaves the encoder alone.
LEMMA EncStays ==
  ASSUME LogInv, [Next]_vars, ~((HandlerPacket \/ HandlerFrame) /\ handler' = "push")
  PROVE  enc' = enc /\ ("ENCRYPT" \in flag' <=> "ENCRYPT" \in flag)
<1>1. CASE HandlerPacket
  <2>1. func_UserMsgHandler(offered[1]) /\ handler' # "push"
    BY <1>1 DEF HandlerPacket
  <2> QED BY <2>1 DEF func_UserMsgHandler, Reject, Unknown, P_heart_beat_req,
         P_get_seed_req, LoginFails, P_user_login_req, Forward, CreateAndSend,
         Kick
<1>2. CASE HandlerFrame
  BY <1>2 DEF HandlerFrame, CreateAndSend, Kick
<1>3. CASE HandlerEOF \/ HandlerTimer \/ HandlerDie \/ HandlerExit
  BY <1>3 DEF HandlerEOF, HandlerTimer, HandlerDie, HandlerExit, Kick, sess
<1>4. CASE Client \/ Reader \/ Sender
  BY <1>4 DEF Client, ClientSend, ClientResend, ClientRecv, ConnReset,
     ClientMode, Reader, ReaderRead, ReaderFail, ReaderDie, Sender, SenderTake,
     SenderWrite, SenderStop, sess
<1>5. CASE \/ (\E f \in Streams : Fetcher(f)) \/ (\E s \in Streams : Game(s))
           \/ Terminate \/ Minute \/ UNCHANGED vars
  BY <1>5 DEF Fetcher, FetchRecv, FetchEnd, FetchPut, Game, GameSend, GameKick,
     GameEnd, Terminate, Minute, vars, sess
<1> QED BY <1>1, <1>2, <1>3, <1>4, <1>5 DEF Next, Handler, Finished

\* What the handler pushes, and the encoder after it.
LEMMA EncPushed ==
  ASSUME LogInv, HandlerPacket \/ HandlerFrame, handler' = "push"
  PROVE  /\ pushing'[1].body.kind # "seed" =>
               /\ pushing'[1].key = EncNow /\ EncNow' = Advance(EncNow)
               /\ "ENCRYPT" \in flag' <=> "ENCRYPT" \in flag
         /\ pushing'[1].body.kind = "seed" =>
               /\ pushing'[1].key = IF Encrypting THEN NewKey(enc) ELSE Plain
               /\ pushing'[1].body.n = NewKey(enc)[1]
               /\ "ENCRYPT" \in flag'
               /\ ~Encrypting => EncNow' = NewKey(enc)
<1>0. TypeOK /\ Switched
  BY DEF LogInv
<1>1. \A b : b.kind # "seed" /\ CreateAndSend(b, flag, enc) =>
         /\ pushing'[1].body = b
         /\ pushing'[1].key = EncNow /\ EncNow' = Advance(EncNow)
         /\ "ENCRYPT" \in flag' <=> "ENCRYPT" \in flag
  <2> SUFFICES ASSUME NEW b, b.kind # "seed", CreateAndSend(b, flag, enc)
               PROVE  /\ pushing'[1].body = b
                      /\ pushing'[1].key = EncNow /\ EncNow' = Advance(EncNow)
                      /\ "ENCRYPT" \in flag' <=> "ENCRYPT" \in flag
    OBVIOUS
  <2>1. "ENCRYPT" \in flag' <=> "ENCRYPT" \in flag
    BY <1>0 DEF CreateAndSend, FlagsAfter, Switched
  <2>2. pushing'[1].body = b /\ pushing'[1].key = EncNow
    BY DEF CreateAndSend, KeyFor, EncNow, Encrypting
  <2>3. EncNow' = Advance(EncNow)
    <3>1. Advance(Plain) = Plain
      BY DEF Advance
    <3> QED BY <2>1, <3>1 DEF CreateAndSend, EncNow, Encrypting
  <2> QED BY <2>1, <2>2, <2>3
<1>2. CASE pushing'[1].body.kind # "seed"
  <2>1. \E b : b.kind # "seed" /\ CreateAndSend(b, flag, enc)
    <3>1. CASE HandlerFrame
      <4>1. CreateAndSend([kind |-> "game", n |-> Head(mq).n], flag, enc)
        BY <3>1 DEF HandlerFrame, Kick, Return
      <4>2. [kind |-> "game", n |-> Head(mq).n].kind # "seed"
        OBVIOUS
      <4> QED BY <4>1, <4>2
    <3>2. CASE HandlerPacket
      <4> DEFINE p == offered[1]
      <4>1. func_UserMsgHandler(p)
        BY <3>2 DEF HandlerPacket
      <4>2. ~(Reject(p) \/ Unknown(p) \/ LoginFails(p) \/ Forward(p))
        <5>1. handler = "select"
          BY <3>2 DEF HandlerPacket
        <5> QED BY <5>1 DEF Reject, Unknown, LoginFails, Forward, Kick, Return
      <4>3. ~P_get_seed_req(p)
        <5>1. P_get_seed_req(p) => pushing'[1].body.kind = "seed"
          BY DEF P_get_seed_req, CreateAndSend
        <5> QED BY <1>2, <5>1
      <4>4. CASE P_heart_beat_req(p)
        <5>1. CreateAndSend([kind |-> "ack", n |-> 0], flag, enc)
          BY <4>4 DEF P_heart_beat_req
        <5>2. [kind |-> "ack", n |-> 0].kind # "seed"
          OBVIOUS
        <5> QED BY <5>1, <5>2
      <4>5. CASE P_user_login_req(p)
        <5>1. CreateAndSend([kind |-> "login", n |-> 0], flag, enc)
          BY <4>5 DEF P_user_login_req
        <5>2. [kind |-> "login", n |-> 0].kind # "seed"
          OBVIOUS
        <5> QED BY <5>1, <5>2
      <4> QED BY <4>1, <4>2, <4>3, <4>4, <4>5 DEF func_UserMsgHandler
    <3> QED BY <3>1, <3>2
  <2> QED BY <1>1, <1>2, <2>1
<1>3. CASE pushing'[1].body.kind = "seed"
  <2> DEFINE e == NewKey(enc)
  <2>1. CreateAndSend([kind |-> "seed", n |-> e[1]], flag \cup {"KEYEXCG"}, e)
    BY <1>0, <1>3, PushKinds DEF P_get_seed_req
  <2>2. "ENCRYPT" \in flag'
    BY <2>1 DEF CreateAndSend, FlagsAfter
  <2> HIDE DEF e
  <2>3. /\ pushing'[1].key = IF Encrypting THEN e ELSE Plain
        /\ pushing'[1].body.n = e[1]
    BY <2>1 DEF CreateAndSend, KeyFor, Encrypting
  <2>4. ~Encrypting => EncNow' = e
    BY <2>1, <2>2 DEF CreateAndSend, EncNow, Encrypting
  <2> QED BY <1>3, <2>2, <2>3, <2>4 DEF e
<1> QED BY <1>2, <1>3

\* What has been counted stays counted, and keeps its kind.
LEMMA SentGrows ==
  ASSUME TypeOK, [Next]_vars
  PROVE  /\ Len(sent) <= Len(sent') /\ packetCount <= packetCount'
         /\ \A i \in 1 .. Len(sent) : sent'[i] = sent[i]
<1>0. sent \in Seq(Kinds) /\ Len(sent) \in Nat /\ packetCount \in Nat
  BY DEF TypeOK, ClientType, SessType
<1>1. CASE UNCHANGED <<sent, packetCount>>
  BY <1>0, <1>1
<1>2. CASE \E k \in Kinds : ClientSend(k)
  BY <1>0, <1>2 DEF ClientSend, sess
<1>3. CASE HandlerPacket
  BY <1>0, <1>3 DEF HandlerPacket, client
<1>4. CASE Client /\ ~(\E k \in Kinds : ClientSend(k))
  BY <1>1, <1>4 DEF Client, ClientResend, ClientRecv, ConnReset, ClientMode,
     client, sess
<1>5. CASE HandlerEOF \/ HandlerFrame \/ HandlerTimer \/ HandlerDie \/ HandlerExit
  BY <1>1, <1>5 DEF HandlerEOF, HandlerFrame, HandlerTimer, HandlerDie,
     HandlerExit, client, sess
<1>6. CASE Reader \/ Sender
  BY <1>1, <1>6 DEF Reader, ReaderRead, ReaderFail, ReaderDie, Sender,
     SenderTake, SenderWrite, SenderStop, client, sess
<1>7. CASE \/ (\E f \in Streams : Fetcher(f)) \/ (\E s \in Streams : Game(s))
           \/ Terminate \/ Minute \/ UNCHANGED vars
  BY <1>1, <1>7 DEF Fetcher, FetchRecv, FetchEnd, FetchPut, Game, GameSend,
     GameKick, GameEnd, Terminate, Minute, vars, client, sess
<1> QED BY <1>2, <1>3, <1>4, <1>5, <1>6, <1>7 DEF Next, Handler, Finished

\* The packet of a key exchange the handler serves is one the client sent.
LEMMA ServedSeed ==
  ASSUME FwdInv, HandlerPacket, P_get_seed_req(offered[1])
  PROVE  /\ packetCount + 1 \in 1 .. Len(sent) /\ sent[packetCount + 1] = "seed"
         /\ packetCount' = packetCount + 1
<1>1. Len(offered) = 1 /\ packetCount' = packetCount + 1
  BY DEF FwdInv, TypeOK, ReaderType, HandlerPacket
<1>2. Honest(offered[1])
  BY <1>1 DEF FwdInv, Numbered
<1>3. offered[1].seq = packetCount + 1 /\ offered[1].kind = "seed"
  BY DEF P_get_seed_req, SeqOK
<1> QED BY <1>1, <1>2, <1>3 DEF Honest

LEMMA StepExchanged ==
  ASSUME FwdInv, LogInv, Exchanged, [Next]_vars
  PROVE  Exchanged'
<1>0. TypeOK /\ packetCount \in Nat /\ packetCount' \in Nat
      /\ Len(sent) \in Nat /\ Len(sent') \in Nat
  BY StepType DEF LogInv, TypeOK, SessType, ClientType
<1>1. CASE Encrypting
  <2>1. PICK i \in 1 .. Len(sent) : i <= packetCount /\ sent[i] = "seed"
    BY <1>1 DEF Exchanged
  <2>2. i \in 1 .. Len(sent') /\ i <= packetCount' /\ sent'[i] = "seed"
    BY <1>0, <2>1, SentGrows
  <2> QED BY <2>2 DEF Exchanged
<1>2. CASE ~Encrypting /\ Encrypting'
  <2>1. (HandlerPacket \/ HandlerFrame) /\ handler' = "push"
    BY <1>2, EncStays DEF Encrypting
  <2>2. pushing'[1].body.kind = "seed"
    BY <1>2, <2>1, EncPushed DEF Encrypting
  <2>3. HandlerPacket /\ P_get_seed_req(offered[1])
    BY <1>0, <2>1, <2>2, PushKinds
  <2>4. packetCount + 1 \in 1 .. Len(sent') /\ sent'[packetCount + 1] = "seed"
        /\ packetCount' = packetCount + 1
    BY <1>0, <2>3, ServedSeed, SentGrows
  <2> QED BY <1>0, <2>4 DEF Exchanged
<1> QED BY <1>1, <1>2 DEF Exchanged

LEMMA KeyAtLaws ==
  ASSUME TypeOK
  PROVE  /\ EncNow \in Key /\ Advance(EncNow) \in Key
         /\ \A q \in 0 .. Len(Downlink) : KeyAt(q, 1) = rx
         /\ \A q \in 0 .. Len(Downlink), j \in Nat \ {0} :
               q < j => KeyAt(q, j + 1) = Advance(KeyAt(q, j))
<1>1. /\ EncNow \in Key /\ rx \in Key
  BY KeyType DEF TypeOK, SessType, ClientType, EncNow
<1>2. \A q \in 1 .. Len(Downlink) : <<Downlink[q].body.n, 0>> \in Key
  <2> SUFFICES ASSUME NEW q \in 1 .. Len(Downlink)
               PROVE  <<Downlink[q].body.n, 0>> \in Key
    OBVIOUS
  <2>1. Downlink[q] \in Packet
    BY DownType
  <2> QED BY <2>1 DEF Packet, Body, Key
<1>3. Len(Downlink) \in Nat
  BY DownType
<1>4. \A q \in 0 .. Len(Downlink), j \in Nat \ {0} : q < j =>
         KeyAt(q, j + 1) = Advance(KeyAt(q, j))
  <2> SUFFICES ASSUME NEW q \in 0 .. Len(Downlink), NEW j \in Nat \ {0}, q < j
               PROVE  KeyAt(q, j + 1) = Advance(KeyAt(q, j))
    OBVIOUS
  <2>1. CASE q = 0
    <3>1. j - 1 \in Nat /\ j + 1 - 1 = j - 1 + 1
      OBVIOUS
    <3> QED BY <1>1, <2>1, <3>1, AheadLaws DEF KeyAt
  <2>2. CASE q # 0
    <3>1. j - q - 1 \in Nat /\ j + 1 - q - 1 = j - q - 1 + 1
          /\ ~(j <= q) /\ ~(j + 1 <= q) /\ q \in 1 .. Len(Downlink)
      BY <1>3, <2>2
    <3>2. KeyAt(q, j) = Ahead(<<Downlink[q].body.n, 0>>, j - q - 1)
          /\ KeyAt(q, j + 1) = Ahead(<<Downlink[q].body.n, 0>>, j - q - 1 + 1)
      BY <2>2, <3>1 DEF KeyAt
    <3> QED BY <1>2, <3>1, <3>2, AheadLaws
  <2> QED BY <2>1, <2>2
<1>5. \A q \in 0 .. Len(Downlink) : KeyAt(q, 1) = rx
  <2> SUFFICES ASSUME NEW q \in 0 .. Len(Downlink) PROVE KeyAt(q, 1) = rx
    OBVIOUS
  <2>1. q = 0 \/ 1 <= q
    BY <1>3
  <2>2. 1 - 1 = 0 /\ Ahead(rx, 0) = rx
    BY <1>1, AheadLaws
  <2> QED BY <2>1, <2>2 DEF KeyAt
<1> QED BY <1>1, <1>2, <1>3, <1>4, <1>5, KeyType

\* Nothing is left to read, and nothing will be added.
LEMMA KeysGone ==
  ASSUME Downlink' = <<>>, mode' = "closed" \/ sender' = "done"
  PROVE  HasKeys'
<1>1. Keyed(0)' /\ 0 \in 0 .. Len(Downlink')
  BY DEF Keyed
<1> QED BY <1>1 DEF HasKeys

LEMMA QuietKeys ==
  ASSUME HasKeys, Handed, rx' = rx, enc' = enc,
         "ENCRYPT" \in flag' <=> "ENCRYPT" \in flag,
         mode = "closed" => mode' = "closed", sender = "done" => sender' = "done"
  PROVE  HasKeys'
<1>1. CASE Downlink' = Downlink
  <2>1. PICK q \in 0 .. Len(Downlink) : Keyed(q)
    BY DEF HasKeys
  <2>2. EncNow' = EncNow /\ (Encrypting' <=> Encrypting)
    BY DEF EncNow, Encrypting
  <2>3. \A j : KeyAt(q, j)' = KeyAt(q, j)
    BY <1>1 DEF KeyAt
  <2>4. Keyed(q)'
    BY <1>1, <2>1, <2>2, <2>3 DEF Keyed, IsSeed
  <2> QED BY <1>1, <2>4 DEF HasKeys
<1> QED BY <1>1, KeysGone DEF Handed

\* The client reads the head with the keystream it is enciphered with.
LEMMA HeadKey ==
  ASSUME TypeOK, HasKeys, ClientRecv
  PROVE  Head(downNet).key = rx /\ Head(downNet) = Downlink[1]
         /\ 1 \in 1 .. Len(Downlink)
<1>1. Downlink \in Seq(Packet) /\ HasRead
  BY DownType, DownRead
<1>2. Head(downNet) = Downlink[1] /\ 1 \in 1 .. Len(Downlink)
  BY <1>1 DEF HasRead
<1>3. PICK q \in 0 .. Len(Downlink) : Keyed(q)
  BY DEF HasKeys
<1>4. KeyAt(q, 1) = rx
  BY <1>3, KeyAtLaws
<1>5. Downlink[1].key = KeyAt(q, 1)
  BY <1>2, <1>3 DEF Keyed
<1> QED BY <1>2, <1>4, <1>5

LEMMA ReadKeys ==
  ASSUME TypeOK, HasKeys, ClientRecv
  PROVE  HasKeys' /\ garbled' = garbled
<1> DEFINE p == Head(downNet)
<1>a. Downlink \in Seq(Packet) /\ Len(Downlink) \in Nat
  BY DownType
<1>b. PICK L \in Nat : L = Len(Downlink)
  BY <1>a
<1>1. /\ Downlink \in Seq(Packet) /\ L \in Nat /\ HasRead /\ rx \in Key
  BY <1>a, DownRead DEF TypeOK, ClientType
<1>2. /\ 1 \in 1 .. L /\ p = Downlink[1] /\ Downlink' = Tail(Downlink)
      /\ Len(Downlink') = L - 1
      /\ \A j \in 1 .. L - 1 : Downlink'[j] = Downlink[j + 1]
  BY <1>1, <1>b DEF HasRead
<1>3. UNCHANGED <<enc, flag, mode, sender>>
  BY DEF ClientRecv, sess, senderV
<1>4. PICK q \in 0 .. L : Keyed(q)
  BY <1>b DEF HasKeys
<1>5. p.key = rx
  BY HeadKey
<1>6. garbled' = garbled /\ rx' = IF p.body.kind = "seed" THEN <<p.body.n, 0>>
                                                         ELSE Advance(rx)
  BY <1>5 DEF ClientRecv
<1>7. p.body.kind = "seed" <=> q = 1
  BY <1>2, <1>4, <1>b DEF Keyed, IsSeed
<1> DEFINE r == IF q = 0 THEN 0 ELSE q - 1
<1>8. r \in 0 .. L - 1
  BY <1>1, <1>2
<1>9. \A j \in Nat \ {0} : KeyAt(r, j)' = KeyAt(q, j + 1)
  <2> SUFFICES ASSUME NEW j \in Nat \ {0} PROVE KeyAt(r, j)' = KeyAt(q, j + 1)
    OBVIOUS
  <2>1. CASE q = 0
    <3>1. rx' = Advance(rx)
      BY <1>6, <1>7, <2>1
    <3>2. KeyAt(r, j)' = Ahead(Advance(rx), j - 1)
      BY <2>1, <3>1 DEF KeyAt
    <3>3. KeyAt(q, j + 1) = Ahead(rx, j + 1 - 1)
      BY <2>1 DEF KeyAt
    <3>4. j - 1 \in Nat /\ j + 1 - 1 = j - 1 + 1
      OBVIOUS
    <3> QED BY <1>1, <3>2, <3>3, <3>4, AheadLaws
  <2>2. CASE q = 1
    <3>1. rx' = <<Downlink[1].body.n, 0>>
      BY <1>2, <1>6, <1>7, <2>2
    <3>2. KeyAt(r, j)' = Ahead(rx', j - 1)
      BY <2>2 DEF KeyAt
    <3>3. KeyAt(q, j + 1) = Ahead(<<Downlink[1].body.n, 0>>, j + 1 - 1 - 1)
      BY <2>2 DEF KeyAt
    <3>4. j + 1 - 1 - 1 = j - 1
      OBVIOUS
    <3> QED BY <3>1, <3>2, <3>3, <3>4
  <2>3. CASE q > 1
    <3>1. rx' = Advance(rx)
      BY <1>6, <1>7, <2>3
    <3>2. r = q - 1 /\ r # 0 /\ r \in 1 .. L - 1 /\ r + 1 = q /\ q # 0
      BY <1>1, <2>3
    <3>3. Downlink'[r] = Downlink[q]
      BY <1>2, <3>2
    <3> HIDE DEF r
    <3>4. CASE j <= r
      <4>1. j + 1 <= q /\ j - 1 \in Nat /\ j + 1 - 1 = j - 1 + 1
        BY <1>1, <3>2, <3>4
      <4>2. KeyAt(r, j)' = Ahead(rx', j - 1) /\ KeyAt(q, j + 1) = Ahead(rx, j + 1 - 1)
        BY <3>4, <4>1 DEF KeyAt
      <4> QED BY <1>1, <3>1, <4>1, <4>2, AheadLaws
    <3>5. CASE ~(j <= r)
      <4>1. ~(j + 1 <= q) /\ j - r - 1 = j + 1 - q - 1
        BY <1>1, <3>2, <3>5
      <4>2. /\ KeyAt(r, j)' = Ahead(<<Downlink'[r].body.n, 0>>, j - r - 1)
            /\ KeyAt(q, j + 1) = Ahead(<<Downlink[q].body.n, 0>>, j + 1 - q - 1)
        BY <3>2, <3>5, <4>1 DEF KeyAt
      <4> QED BY <3>3, <4>1, <4>2
    <3> QED BY <3>4, <3>5
  <2> QED BY <1>1, <2>1, <2>2, <2>3
<1>10. \A j \in 1 .. L - 1 : Downlink'[j].key = KeyAt(r, j)' /\ (IsSeed(j)' <=> j = r)
  <2> SUFFICES ASSUME NEW j \in 1 .. L - 1
               PROVE  Downlink'[j].key = KeyAt(r, j)' /\ (IsSeed(j)' <=> j = r)
    OBVIOUS
  <2>1. j + 1 \in 1 .. L /\ j \in Nat \ {0} /\ Downlink'[j] = Downlink[j + 1]
    BY <1>1, <1>2
  <2>2. Downlink[j + 1].key = KeyAt(q, j + 1) /\ (IsSeed(j + 1) <=> j + 1 = q)
    BY <1>4, <1>b, <2>1 DEF Keyed
  <2>3. j + 1 = q <=> j = r
    BY <1>1, <2>1
  <2> HIDE DEF r
  <2> QED BY <1>9, <2>1, <2>2, <2>3 DEF IsSeed
<1>11. EncNow' = EncNow /\ (Encrypting' <=> Encrypting)
  BY <1>3 DEF EncNow, Encrypting
<1>12. mode' # "closed" /\ sender' # "done" => EncNow' = KeyAt(r, L)'
  <2>1. L \in Nat \ {0}
    BY <1>1, <1>2
  <2> HIDE DEF r
  <2>2. KeyAt(r, L)' = KeyAt(q, L + 1)
    BY <1>9, <2>1
  <2> QED BY <1>b, <1>3, <1>4, <1>11, <2>2 DEF Keyed
<1>13. r # 0 => q # 0
  OBVIOUS
<1>14. Keyed(r)'
  <2>1. Len(Downlink') = L - 1
    BY <1>2
  <2> HIDE DEF r
  <2>2. \A j \in 1 .. Len(Downlink') :
           Downlink'[j].key = KeyAt(r, j)' /\ (IsSeed(j)' <=> j = r)
    BY <1>10, <2>1
  <2>3. r # 0 => Encrypting'
    BY <1>4, <1>11, <1>13 DEF Keyed
  <2>4. mode' # "closed" /\ sender' # "done"
           => EncNow' = KeyAt(r, Len(Downlink) + 1)'
    <3>1. Len(Downlink') + 1 = L
      BY <1>1, <2>1
    <3>2. KeyAt(r, Len(Downlink) + 1)' = KeyAt(r, L)'
      BY <3>1 DEF KeyAt
    <3> QED BY <1>12, <3>2
  <2> QED BY <2>2, <2>3, <2>4 DEF Keyed
<1> QED BY <1>2, <1>6, <1>8, <1>14 DEF HasKeys

LEMMA PushKeys ==
  ASSUME FwdInv, LogInv, SeedsOnce, Exchanged, HasKeys,
         HandlerPacket \/ HandlerFrame, handler' = "push"
  PROVE  HasKeys'
<1> DEFINE x == pushing'[1]
<1>0. TypeOK /\ StopInv
  BY DEF LogInv
<1>1. /\ handler = "select" /\ sender # "done" /\ UNCHANGED <<rx, mode>>
  BY <1>0 DEF HandlerPacket, HandlerFrame, StopInv, client
<1>a. Downlink \in Seq(Packet) /\ Len(Downlink) \in Nat
  BY <1>0, DownType
<1>b. PICK L \in Nat : L = Len(Downlink)
  BY <1>a
<1>2. CASE Downlink' = <<>> /\ mode' = "closed"
  BY <1>2, KeysGone
<1>3. CASE /\ Len(Downlink') = L + 1 /\ Downlink'[L + 1] = x
           /\ \A i \in 1 .. L : Downlink'[i] = Downlink[i]
           /\ mode # "closed"
  <2>1. PICK q \in 0 .. L : Keyed(q)
    BY <1>b DEF HasKeys
  <2>2. /\ \A j \in 1 .. L : Downlink[j].key = KeyAt(q, j) /\ (IsSeed(j) <=> j = q)
        /\ q # 0 => Encrypting
        /\ EncNow = KeyAt(q, L + 1)
    BY <1>1, <1>3, <1>b, <2>1 DEF Keyed
  <2>3. CASE x.body.kind # "seed"
    <3>1. /\ x.key = EncNow /\ EncNow' = Advance(EncNow)
          /\ Encrypting' <=> Encrypting
      BY <2>3, EncPushed DEF Encrypting
    <3>2. \A j \in 1 .. L + 2 : KeyAt(q, j)' = KeyAt(q, j)
      BY <1>1, <1>3, <1>b, <2>1 DEF KeyAt
    <3>3. KeyAt(q, L + 2) = Advance(KeyAt(q, L + 1))
      <4>1. L + 1 \in Nat \ {0} /\ q < L + 1 /\ L + 1 + 1 = L + 2
        BY <2>1
      <4>2. KeyAt(q, L + 1 + 1) = Advance(KeyAt(q, L + 1))
        BY <1>0, <1>b, <2>1, <4>1, KeyAtLaws
      <4> QED BY <4>1, <4>2
    <3>4. \A j \in 1 .. L + 1 :
             Downlink'[j].key = KeyAt(q, j)' /\ (IsSeed(j)' <=> j = q)
      <4> SUFFICES ASSUME NEW j \in 1 .. L + 1
                   PROVE  /\ Downlink'[j].key = KeyAt(q, j)
                          /\ IsSeed(j)' <=> j = q
        BY <3>2
      <4>1. CASE j \in 1 .. L
        BY <1>3, <2>2, <4>1 DEF IsSeed
      <4>2. CASE j = L + 1
        BY <1>3, <2>1, <2>2, <2>3, <3>1, <4>2 DEF IsSeed
      <4> QED BY <4>1, <4>2
    <3>5. EncNow' = KeyAt(q, Len(Downlink) + 1)'
      <4>1. Len(Downlink') + 1 = L + 2
        BY <1>3
      <4>2. KeyAt(q, Len(Downlink) + 1)' = KeyAt(q, L + 2)'
        BY <4>1 DEF KeyAt
      <4>3. L + 2 \in 1 .. L + 2
        OBVIOUS
      <4> QED BY <2>2, <3>1, <3>2, <3>3, <4>2, <4>3
    <3>6. Keyed(q)'
      BY <1>3, <2>2, <3>1, <3>4, <3>5 DEF Keyed
    <3>7. q \in 0 .. Len(Downlink')
      BY <1>3, <2>1
    <3> QED BY <3>6, <3>7 DEF HasKeys
  <2>4. CASE x.body.kind = "seed"
    <3>1. HandlerPacket /\ P_get_seed_req(offered[1])
      BY <1>0, <2>4, PushKinds
    <3>2. ~Encrypting
      <4>1. SUFFICES ASSUME Encrypting PROVE FALSE
        OBVIOUS
      <4>2. PICK i \in 1 .. Len(sent) : i <= packetCount /\ sent[i] = "seed"
        BY <4>1 DEF Exchanged
      <4>3. packetCount + 1 \in 1 .. Len(sent) /\ sent[packetCount + 1] = "seed"
        BY <3>1, ServedSeed
      <4>4. i = packetCount + 1
        BY <4>2, <4>3 DEF SeedsOnce
      <4> QED BY <1>0, <4>2, <4>4 DEF TypeOK, SessType
    <3>3. q = 0 /\ EncNow = Plain
      BY <2>2, <3>2 DEF EncNow
    <3>4. /\ x.key = Plain /\ x.body.n = NewKey(enc)[1] /\ Encrypting'
          /\ EncNow' = NewKey(enc)
      BY <2>4, <3>2, EncPushed DEF Encrypting
    <3>5. NewKey(enc) = <<x.body.n, 0>> /\ NewKey(enc) \in Key
      <4>1. NewKey(enc)[1] = enc[1] + 1
        BY DEF NewKey
      <4> QED BY <1>0, <3>4, <4>1, KeyType DEF NewKey, TypeOK, SessType
    <3>6. \A j \in 1 .. L + 1 : KeyAt(L + 1, j)' = KeyAt(q, j)
      BY <1>1, <3>3 DEF KeyAt
    <3>7. \A j \in 1 .. L + 1 :
             Downlink'[j].key = KeyAt(L + 1, j)' /\ (IsSeed(j)' <=> j = L + 1)
      <4> SUFFICES ASSUME NEW j \in 1 .. L + 1
                   PROVE  /\ Downlink'[j].key = KeyAt(q, j)
                          /\ IsSeed(j)' <=> j = L + 1
        BY <3>6
      <4>1. CASE j \in 1 .. L
        BY <1>3, <2>2, <3>3, <4>1 DEF IsSeed
      <4>2. CASE j = L + 1
        BY <1>3, <2>2, <2>4, <3>3, <3>4, <4>2 DEF IsSeed
      <4> QED BY <4>1, <4>2
    <3>8. EncNow' = KeyAt(L + 1, Len(Downlink) + 1)'
      <4>1. Len(Downlink') + 1 = L + 2 /\ ~(L + 2 <= L + 1) /\ L + 1 # 0
            /\ L + 2 - (L + 1) - 1 = 0
        BY <1>3
      <4>2. KeyAt(L + 1, Len(Downlink) + 1)' = Ahead(<<x.body.n, 0>>, 0)
        BY <1>3, <4>1 DEF KeyAt
      <4>3. Ahead(NewKey(enc), 0) = NewKey(enc)
        BY <3>5, AheadLaws
      <4> QED BY <3>4, <3>5, <4>2, <4>3
    <3>9. Keyed(L + 1)'
      BY <1>3, <3>4, <3>7, <3>8 DEF Keyed
    <3>10. L + 1 \in 0 .. Len(Downlink')
      BY <1>3
    <3> QED BY <3>9, <3>10 DEF HasKeys
  <2> QED BY <2>3, <2>4
<1>4. PushStep
  BY <1>0, HandlerPushes
<1>5. Downlink' = <<>> \/ mode # "closed"
  BY <1>1 DEF Downlink
<1>6. mode = "closed" => mode' = "closed"
  BY <1>1
<1> QED BY <1>0, <1>1, <1>2, <1>3, <1>4, <1>5, <1>6, <1>b, PushedAt

LEMMA SenderStays ==
  ASSUME [Next]_vars
  PROVE  /\ mode = "closed" => mode' = "closed"
         /\ sender = "done" => sender' = "done"
         /\ ~ClientRecv => rx' = rx /\ garbled' = garbled
<1>1. CASE Client
  BY <1>1 DEF Client, ClientSend, ClientResend, ClientRecv, ConnReset,
     ClientMode, client, senderV
<1>2. CASE Reader \/ Sender
  BY <1>2 DEF Reader, ReaderRead, ReaderFail, ReaderDie, Sender, SenderTake,
     SenderWrite, SenderStop, StopReady, client, senderV
<1>3. CASE Handler
  BY <1>3 DEF Handler, HandlerPacket, HandlerEOF, HandlerFrame, HandlerTimer,
     HandlerDie, HandlerExit, client, senderV
<1>4. CASE \/ (\E f \in Streams : Fetcher(f)) \/ (\E s \in Streams : Game(s))
           \/ Terminate \/ Minute \/ UNCHANGED vars
  BY <1>4 DEF Fetcher, FetchRecv, FetchEnd, FetchPut, Game, GameSend, GameKick,
     GameEnd, Terminate, Minute, vars, client, senderV
<1> QED BY <1>1, <1>2, <1>3, <1>4 DEF Next, Finished

LEMMA StepKeyInv ==
  ASSUME KeyInv, [Next]_vars, MaxSeeds <= 1
  PROVE  KeyInv'
<1>0. /\ FwdInv /\ LogInv /\ SeedsOnce /\ Exchanged /\ HasKeys /\ ~garbled
      /\ TypeOK /\ StopInv
  BY DEF KeyInv, LogInv
<1>1. FwdInv' /\ LogInv' /\ SeedsOnce' /\ Exchanged'
  BY <1>0, StepFwd, StepLog, StepSeedsOnce, StepExchanged
<1>2. CASE ClientRecv
  BY <1>0, <1>1, <1>2, ReadKeys DEF KeyInv
<1>3. CASE (HandlerPacket \/ HandlerFrame) /\ handler' = "push"
  <2>1. ~ClientRecv
    BY <1>3 DEF ClientRecv, HandlerPacket, HandlerFrame, handV
  <2> QED BY <1>0, <1>1, <1>3, <2>1, PushKeys, SenderStays DEF KeyInv
<1>4. CASE ~ClientRecv /\ ~((HandlerPacket \/ HandlerFrame) /\ handler' = "push")
  <2>1. Handed
    BY <1>0, <1>4, DownStep, PushedAt
  <2>2. HasKeys'
    BY <1>0, <1>4, <2>1, EncStays, SenderStays, QuietKeys
  <2> QED BY <1>0, <1>1, <1>4, <2>2, SenderStays DEF KeyInv
<1> QED BY <1>2, <1>3, <1>4

LEMMA InitKeyInv == Init => KeyInv
<1> SUFFICES ASSUME Init PROVE KeyInv
  OBVIOUS
<1>1. Downlink = <<>> /\ LogInv /\ FwdInv
  BY InitLog, InitFwd
<1>2. SeedsOnce /\ Exchanged /\ ~garbled
  BY DEF Init, SeedsOnce, Exchanged, Encrypting
<1>3. HasKeys
  <2>1. EncNow = Plain /\ KeyAt(0, 1) = rx /\ rx = Plain
    <3>1. KeyAt(0, 1) = Ahead(rx, 1 - 1) /\ 1 - 1 = 0
      BY DEF KeyAt
    <3>2. rx = Plain /\ Ahead(Plain, 0) = Plain
      BY DEF Init, Ahead
    <3> QED BY <3>1, <3>2 DEF Init, EncNow, Encrypting
  <2>2. Keyed(0)
    BY <1>1, <2>1 DEF Keyed
  <2> QED BY <1>1, <2>2 DEF HasKeys
<1> QED BY <1>1, <1>2, <1>3 DEF KeyInv

\* A client that asks for at most one key exchange deciphers every packet it
\* reads, whatever is pushed to it around the exchange and however long it
\* takes to read: both ends switch at the same packet.
THEOREM DeciphersAll ==
  ASSUME MaxSeeds <= 1
  PROVE  Spec => []~garbled
<1>1. KeyInv => ~garbled
  BY DEF KeyInv
<1>2. KeyInv /\ [Next]_vars => KeyInv'
  BY StepKeyInv
<1> QED BY <1>1, <1>2, InitKeyInv, PTL DEF Spec

-----------------------------------------------------------------------------
(* Frames reach the client in order and without loss, when it logs in once   *)
(* and exchanges keys once.  The handler has taken the frames 1 .. c: the    *)
(* client has read the first of them and the others are in its downlink in   *)
(* order; what waits for the handler goes on from c + 1 to the last frame    *)
(* sent, unless the stream has ended and took its last frames with it.       *)

InRow == \A i \in 1 .. Len(got) : got[i] = i

\* The game packets of D are the frames g + 1 .. c, in order.
CutAt(D, g, c) ==
    /\ \A n \in g + 1 .. c :
          \E i \in 1 .. Len(D) : D[i].body.kind = "game" /\ D[i].body.n = n
    /\ \A i \in 1 .. Len(D) :
          D[i].body.kind = "game" => D[i].body.n \in g + 1 .. c
    /\ \A i, j \in 1 .. Len(D) :
          /\ D[i].body.kind = "game" /\ D[j].body.kind = "game" /\ i < j
          => D[i].body.n < D[j].body.n

Delivered(c) == c \in Len(got) .. gsent /\ CutAt(Downlink, Len(got), c)

Pending(c) ==
    /\ \A i \in 1 .. Len(Waiting) :
          Waiting[i].type = "message" => Waiting[i].n = c + i /\ c + i <= gsent
    /\ streams[1].st # "ended" =>
          /\ c + Len(Waiting) = gsent
          /\ \A i \in 1 .. Len(Waiting) : Waiting[i].type = "message"

InHand == Len(fetch[1].hand) = IF fetch[1].pc = "put" THEN 1 ELSE 0

FrameInv ==
    /\ KeyInv /\ RelInv /\ InHand /\ InRow
    /\ mode # "closed" =>
          \E c \in 0 .. gsent : Delivered(c) /\ (Serving => Pending(c))

LEMMA WaitType ==
  ASSUME TypeOK, MaxLogins = 1
  PROVE  /\ Streams = {1} /\ mq \in Seq(Frame) /\ fetch[1].hand \in Seq(Frame)
         /\ streams[1].down \in Seq(Frame)
         /\ mq \o fetch[1].hand \in Seq(Frame) /\ Waiting \in Seq(Frame)
         /\ gsent \in Nat /\ streams[1] \in Stream /\ fetch[1] \in Fetch
         /\ streams \in [Streams -> Stream] /\ fetch \in [Streams -> Fetch]
<1>1. Streams = {1}
  BY DEF Streams
<1>2. /\ mq \in Seq(Frame) /\ fetch \in [Streams -> Fetch] /\ gsent \in Nat
      /\ streams \in [Streams -> Stream]
  BY DEF TypeOK, GameType
<1>3. streams[1] \in Stream /\ fetch[1] \in Fetch
  BY <1>1, <1>2
<1>4. fetch[1].hand \in Seq(Frame) /\ streams[1].down \in Seq(Frame)
  BY <1>3 DEF Fetch, Stream
<1>5. mq \o fetch[1].hand \in Seq(Frame)
  BY <1>2, <1>4
<1>6. mq \o fetch[1].hand \o streams[1].down \in Seq(Frame)
  BY <1>4, <1>5
<1> QED BY <1>1, <1>2, <1>3, <1>4, <1>5, <1>6 DEF Waiting

\* A fetcher that runs receives from the session's only stream.
LEMMA FetchOn ==
  ASSUME TypeOK, MaxLogins = 1, fetch[1].pc # "none"
  PROVE  fetch[1].on = 1
<1>1. fetch[1] \in Fetch /\ 1 \in Streams
  BY WaitType
<1>2. fetch[1].on \in 0 .. 1 /\ fetch[1].on # 0
  BY <1>1 DEF TypeOK, GameType, Fetch
<1> QED BY <1>2

LEMMA FetcherWaits ==
  ASSUME TypeOK, MaxLogins = 1, InHand, Fetcher(1)
  PROVE  /\ InHand' /\ (~DieClosed => Waiting' = Waiting)
         /\ streams'[1].st = streams[1].st /\ gsent' = gsent
<1>0. /\ mq \in Seq(Frame) /\ fetch[1].hand \in Seq(Frame)
      /\ streams[1].down \in Seq(Frame) /\ mq \o fetch[1].hand \in Seq(Frame)
      /\ streams[1] \in Stream /\ fetch[1] \in Fetch
      /\ streams \in [{1} -> Stream] /\ fetch \in [{1} -> Fetch]
  BY WaitType
<1>1. CASE FetchRecv(1)
  <2> DEFINE d == streams[1].down
  <2>1. /\ fetch[1].pc = "recv" /\ fetch[1].on = 1 /\ d # <<>> /\ mq' = mq
        /\ fetch' = [fetch EXCEPT ![1].pc = "put", ![1].hand = <<Head(d)>>]
        /\ streams' = [streams EXCEPT ![1].down = Tail(d)] /\ gsent' = gsent
    BY <1>0, <1>1, FetchOn DEF FetchRecv
  <2>2. /\ fetch'[1].pc = "put" /\ fetch'[1].hand = <<Head(d)>>
        /\ streams'[1].down = Tail(d) /\ streams'[1].st = streams[1].st
    BY <1>0, <2>1 DEF Fetch, Stream
  <2>3. fetch[1].hand = <<>>
    BY <1>0, <2>1 DEF InHand
  <2>4. mq \o <<>> = mq
    BY <1>0, ConcatEmptySeq
  <2>5. mq \o <<Head(d)>> \o Tail(d) = mq \o d
    <3>1. <<Head(d)>> \in Seq(Frame) /\ Tail(d) \in Seq(Frame)
      BY <1>0, <2>1
    <3>2. <<Head(d)>> \o Tail(d) = d
      BY <1>0, <2>1
    <3>4. mq \o <<Head(d)>> \o Tail(d) = mq \o (<<Head(d)>> \o Tail(d))
      <4>1. PICK u \in Seq(Frame), v \in Seq(Frame), x \in Seq(Frame) :
               u = mq /\ v = <<Head(d)>> /\ x = Tail(d)
        BY <1>0, <3>1
      <4>2. u \o v \o x = u \o (v \o x)
        BY ConcatAssociative
      <4> QED BY <4>1, <4>2
    <3> QED BY <3>2, <3>4
  <2>6. Waiting' = Waiting
    BY <2>1, <2>2, <2>3, <2>4, <2>5 DEF Waiting
  <2>7. InHand'
    BY <2>2 DEF InHand
  <2> QED BY <2>1, <2>2, <2>6, <2>7
<1>2. CASE FetchEnd(1)
  <2>1. /\ fetch' = [fetch EXCEPT ![1].pc = "done"] /\ fetch[1].pc = "recv"
        /\ UNCHANGED <<mq, streams, gsent>>
    BY <1>2 DEF FetchEnd
  <2>2. fetch'[1].pc = "done" /\ fetch'[1].hand = fetch[1].hand
    BY <1>0, <2>1 DEF Fetch
  <2> QED BY <2>1, <2>2 DEF InHand, Waiting
<1>3. CASE FetchPut(1)
  <2>1. /\ fetch' = [fetch EXCEPT ![1].pc = "recv", ![1].on = stream,
                                  ![1].hand = <<>>]
        /\ UNCHANGED <<streams, gsent>> /\ Enqueue(1)
    BY <1>3 DEF FetchPut
  <2>2. fetch'[1].pc = "recv" /\ fetch'[1].hand = <<>>
    BY <1>0, <2>1 DEF Fetch
  <2>3. ~DieClosed => mq' = mq \o fetch[1].hand
    BY <2>1 DEF Enqueue
  <2>4. mq \o fetch[1].hand \o <<>> = mq \o fetch[1].hand
    BY <1>0, ConcatEmptySeq
  <2>5. ~DieClosed => Waiting' = Waiting
    BY <2>1, <2>2, <2>3, <2>4 DEF Waiting
  <2>6. InHand'
    BY <2>2 DEF InHand
  <2> QED BY <2>1, <2>5, <2>6
<1> QED BY <1>1, <1>2, <1>3 DEF Fetcher

LEMMA FrameAppend ==
  \A u, v \in Seq(Frame), m \in Frame :
     /\ u \o Append(v, m) = Append(u \o v, m)
     /\ Len(Append(u, m)) = Len(u) + 1 /\ Append(u, m)[Len(u) + 1] = m
     /\ \A i \in 1 .. Len(u) : Append(u, m)[i] = u[i]
     /\ Len(u) \in Nat
  OBVIOUS

\* The game server adds a frame, or ends the stream with the frames it keeps.
LEMMA GameWaits ==
  ASSUME TypeOK, MaxLogins = 1, NEW c \in Nat, Pending(c), Game(1)
  PROVE  Pending(c)' /\ gsent' \in {gsent, gsent + 1}
<1> DEFINE d == streams[1].down
           q == mq \o fetch[1].hand
<1>a. /\ q \in Seq(Frame) /\ d \in Seq(Frame) /\ Waiting \in Seq(Frame)
      /\ streams[1] \in Stream /\ streams \in [{1} -> Stream] /\ gsent \in Nat
  BY WaitType
<1>b. Waiting = q \o d
  BY DEF Waiting
<1>c. PICK w \in Nat : w = Len(Waiting)
  BY <1>a, FrameAppend
<1>0. /\ q \in Seq(Frame) /\ d \in Seq(Frame) /\ Waiting \in Seq(Frame)
      /\ streams[1] \in Stream /\ streams \in [{1} -> Stream] /\ gsent \in Nat
      /\ w = Len(Waiting) /\ w \in Nat /\ Waiting = q \o d
  BY <1>a, <1>b, <1>c
<1>d. w \in Nat /\ gsent \in Nat /\ c \in Nat
  BY <1>a, <1>c
<1>1. UNCHANGED <<mq, fetch>>
  BY DEF Game, GameSend, GameKick, GameEnd
<1>2. CASE GameSend(1)
  <2> DEFINE m == [type |-> "message", n |-> gsent + 1]
  <2>1. /\ streams[1].st # "ended" /\ gsent' = gsent + 1
        /\ streams' = [streams EXCEPT ![1].down = Append(d, m)]
    BY <1>2 DEF GameSend, Live
  <2>2. streams'[1].down = Append(d, m) /\ streams'[1].st = streams[1].st
    BY <1>0, <2>1 DEF Stream
  <2>3. m \in Frame /\ m.type = "message" /\ m.n = gsent + 1
    BY <1>0 DEF Frame
  <2> HIDE DEF m
  <2>4. Waiting' = Append(Waiting, m)
    <3>1. Waiting' = q \o Append(d, m)
      BY <1>1, <2>2 DEF Waiting
    <3> HIDE DEF q, d
    <3> QED BY <1>0, <2>3, <3>1, FrameAppend
  <2>5. /\ Len(Waiting') = w + 1 /\ Waiting'[w + 1] = m
        /\ \A i \in 1 .. w : Waiting'[i] = Waiting[i]
    <3>1. Waiting \in Seq(Frame) /\ m \in Frame
      BY <1>a, <2>3
    <3>2. /\ Len(Append(Waiting, m)) = Len(Waiting) + 1
          /\ Append(Waiting, m)[Len(Waiting) + 1] = m
          /\ \A i \in 1 .. Len(Waiting) : Append(Waiting, m)[i] = Waiting[i]
      BY ONLY <3>1, FrameAppend
    <3> QED BY ONLY <1>c, <2>4, <3>2
  <2> HIDE DEF q, d
  <2>6. /\ c + w = gsent
        /\ \A i \in 1 .. w :
              /\ Waiting[i].type = "message"
              /\ Waiting[i].n = c + i /\ c + i <= gsent
    BY <1>0, <2>1 DEF Pending
  <2>7. c + (w + 1) = gsent + 1
    <3>1. c + w = gsent
      BY <2>6
    <3> QED BY <1>d, <3>1
  <2>8. \A i \in 1 .. Len(Waiting') :
           /\ Waiting'[i].type = "message"
           /\ Waiting'[i].n = c + i /\ c + i <= gsent'
    <3> SUFFICES ASSUME NEW i \in 1 .. w + 1
                 PROVE  /\ Waiting'[i].type = "message"
                        /\ Waiting'[i].n = c + i /\ c + i <= gsent'
      BY <2>5
    <3>1. CASE i \in 1 .. w
      BY <1>d, <2>1, <2>5, <2>6, <3>1
    <3>2. CASE i = w + 1
      BY <1>d, <2>1, <2>3, <2>5, <2>7, <3>2
    <3> QED BY <1>d, <3>1, <3>2
  <2>9. c + Len(Waiting') = gsent'
    BY <2>1, <2>5, <2>7
  <2> QED BY <2>1, <2>8, <2>9 DEF Pending
<1>3. CASE GameKick(1)
  <2> DEFINE m == [type |-> "kick", n |-> 0]
  <2>1. /\ streams' = [streams EXCEPT ![1] = [st |-> "ended", down |-> Append(d, m)]]
        /\ gsent' = gsent
    BY <1>0, <1>3 DEF GameKick
  <2>2. streams'[1].down = Append(d, m) /\ streams'[1].st = "ended"
    BY <1>0, <2>1
  <2>3. m \in Frame /\ m.type # "message"
    BY DEF Frame
  <2> HIDE DEF m
  <2>4. Waiting' = Append(Waiting, m)
    <3>1. Waiting' = q \o Append(d, m)
      BY <1>1, <2>2 DEF Waiting
    <3> HIDE DEF q, d
    <3> QED BY <1>0, <2>3, <3>1, FrameAppend
  <2>5. /\ Len(Waiting') = w + 1 /\ Waiting'[w + 1] = m
        /\ \A i \in 1 .. w : Waiting'[i] = Waiting[i]
    <3>1. Waiting \in Seq(Frame) /\ m \in Frame
      BY <1>a, <2>3
    <3>2. /\ Len(Append(Waiting, m)) = Len(Waiting) + 1
          /\ Append(Waiting, m)[Len(Waiting) + 1] = m
          /\ \A i \in 1 .. Len(Waiting) : Append(Waiting, m)[i] = Waiting[i]
      BY ONLY <3>1, FrameAppend
    <3> QED BY ONLY <1>c, <2>4, <3>2
  <2> HIDE DEF q, d
  <2>6. \A i \in 1 .. Len(Waiting') : Waiting'[i].type = "message" =>
           Waiting'[i].n = c + i /\ c + i <= gsent'
    <3> SUFFICES ASSUME NEW i \in 1 .. w + 1, Waiting'[i].type = "message"
                 PROVE  Waiting'[i].n = c + i /\ c + i <= gsent'
      BY <2>5
    <3>1. i \in 1 .. w
      BY <1>d, <2>3, <2>5
    <3> QED BY <1>0, <2>1, <2>5, <3>1 DEF Pending
  <2> QED BY <2>1, <2>2, <2>6 DEF Pending
<1>4. CASE GameEnd(1)
  <2>1. PICK kept \in {d, <<>>} :
           streams' = [streams EXCEPT ![1] = [st |-> "ended", down |-> kept]]
    BY <1>4 DEF GameEnd
  <2>2. streams'[1].down = kept /\ streams'[1].st = "ended" /\ gsent' = gsent
    BY <1>0, <1>4, <2>1 DEF GameEnd
  <2>3. \A i \in 1 .. Len(Waiting') : i \in 1 .. w /\ Waiting'[i] = Waiting[i]
    <3>1. Waiting' = q \o kept
      BY <1>1, <2>2 DEF Waiting
    <3>2. CASE kept = d
      BY <1>0, <3>1, <3>2
    <3>3. CASE kept = <<>>
      <4>1. Waiting' = q
        BY <1>0, <3>1, <3>3, ConcatEmptySeq
      <4>2. \A u, v \in Seq(Frame) : \A i \in 1 .. Len(u) :
               i \in 1 .. Len(u \o v) /\ u[i] = (u \o v)[i]
        OBVIOUS
      <4> HIDE DEF q, d
      <4> QED BY <1>0, <4>1, <4>2
    <3> QED BY <2>1, <3>2, <3>3
  <2> QED BY <1>0, <2>2, <2>3 DEF Pending
<1> QED BY <1>0, <1>2, <1>3, <1>4 DEF Game, GameKick, GameEnd, GameSend

\* The three ways the cut moves: the client reads the head of the downlink,
\* the handler adds a packet to it, or all that was in it is lost.
LEMMA CutRead ==
  ASSUME NEW D \in Seq(Packet), NEW g \in Nat, NEW c \in Nat, D # <<>>, g <= c,
         CutAt(D, g, c)
  PROVE  /\ D[1].body.kind = "game" =>
               /\ D[1].body.n = g + 1 /\ g + 1 <= c
               /\ CutAt(Tail(D), g + 1, c)
         /\ D[1].body.kind # "game" => CutAt(Tail(D), g, c)
<1> DEFINE E == Tail(D)
<1>a. Len(D) \in Nat \ {0} /\ Len(E) = Len(D) - 1
      /\ \A i \in 1 .. Len(E) : E[i] = D[i + 1]
  OBVIOUS
<1>b. PICK L \in Nat \ {0} : L = Len(D) /\ Len(E) = L - 1
  BY <1>a
<1>c. \A i \in 1 .. L - 1 : i + 1 \in 1 .. L /\ E[i] = D[i + 1]
  BY <1>a, <1>b
<1>d. \A i \in 1 .. L : i # 1 => i - 1 \in 1 .. L - 1 /\ E[i - 1] = D[i]
  <2> SUFFICES ASSUME NEW i \in 1 .. L, i # 1
               PROVE  i - 1 \in 1 .. L - 1 /\ E[i - 1] = D[i]
    OBVIOUS
  <2>1. i - 1 \in 1 .. L - 1 /\ i - 1 + 1 = i
    OBVIOUS
  <2> QED BY <1>c, <2>1
<1> HIDE DEF E
<1>1. /\ \A n \in g + 1 .. c :
            \E i \in 1 .. L : D[i].body.kind = "game" /\ D[i].body.n = n
      /\ \A i \in 1 .. L : D[i].body.kind = "game" => D[i].body.n \in g + 1 .. c
      /\ \A i, j \in 1 .. L :
            /\ D[i].body.kind = "game" /\ D[j].body.kind = "game" /\ i < j
            => D[i].body.n < D[j].body.n
  BY <1>b DEF CutAt
<1>2. \A i, j \in 1 .. L - 1 :
         /\ E[i].body.kind = "game" /\ E[j].body.kind = "game" /\ i < j
         => E[i].body.n < E[j].body.n
  <2> SUFFICES ASSUME NEW i \in 1 .. L - 1, NEW j \in 1 .. L - 1, i < j,
                      E[i].body.kind = "game", E[j].body.kind = "game"
               PROVE  E[i].body.n < E[j].body.n
    OBVIOUS
  <2>1. /\ i + 1 < j + 1 /\ i + 1 \in 1 .. L /\ j + 1 \in 1 .. L
        /\ E[i] = D[i + 1] /\ E[j] = D[j + 1]
    BY <1>c
  <2>2. D[i + 1].body.n < D[j + 1].body.n
    BY <1>1, <2>1
  <2> QED BY <2>1, <2>2
<1>3. CASE D[1].body.kind = "game"
  <2>1. D[1].body.n \in g + 1 .. c
    BY <1>1, <1>3
  <2>2. g + 1 \in g + 1 .. c
    BY <2>1
  <2>3. PICK i \in 1 .. L : D[i].body.kind = "game" /\ D[i].body.n = g + 1
    BY <1>1, <2>2
  <2>4. i = 1
    <3>1. SUFFICES ASSUME i # 1 PROVE FALSE
      OBVIOUS
    <3>2. 1 \in 1 .. L /\ 1 < i
      BY <3>1
    <3>3. D[1].body.n < D[i].body.n
      BY <1>1, <1>3, <2>3, <3>2
    <3> QED BY <2>1, <2>3, <3>3
  <2>5. D[1].body.n = g + 1
    BY <2>3, <2>4
  <2>6. \A n \in g + 2 .. c :
           \E j \in 1 .. L - 1 : E[j].body.kind = "game" /\ E[j].body.n = n
    <3> SUFFICES ASSUME NEW n \in g + 2 .. c
                 PROVE \E j \in 1 .. L - 1 : E[j].body.kind = "game" /\ E[j].body.n = n
      OBVIOUS
    <3>1. n \in g + 1 .. c /\ n # g + 1
      OBVIOUS
    <3>2. PICK j \in 1 .. L : D[j].body.kind = "game" /\ D[j].body.n = n
      BY <1>1, <3>1
    <3>3. j # 1
      BY <2>5, <3>1, <3>2
    <3> QED BY <1>d, <3>2, <3>3
  <2>7. \A j \in 1 .. L - 1 : E[j].body.kind = "game" => E[j].body.n \in g + 2 .. c
    <3> SUFFICES ASSUME NEW j \in 1 .. L - 1, E[j].body.kind = "game"
                 PROVE  E[j].body.n \in g + 2 .. c
      OBVIOUS
    <3>1. j + 1 \in 1 .. L /\ E[j] = D[j + 1] /\ 1 \in 1 .. L /\ 1 < j + 1
      BY <1>c
    <3>2. D[j + 1].body.n \in g + 1 .. c /\ D[1].body.n < D[j + 1].body.n
      BY <1>1, <1>3, <3>1
    <3> QED BY <2>5, <3>1, <3>2
  <2>8. CutAt(E, g + 1, c)
    <3>1. g + 1 + 1 = g + 2
      OBVIOUS
    <3> QED BY <1>2, <1>b, <2>6, <2>7, <3>1 DEF CutAt
  <2> QED BY <1>3, <2>2, <2>5, <2>8 DEF E
<1>4. CASE D[1].body.kind # "game"
  <2>1. \A n \in g + 1 .. c :
           \E j \in 1 .. L - 1 : E[j].body.kind = "game" /\ E[j].body.n = n
    <3> SUFFICES ASSUME NEW n \in g + 1 .. c
                 PROVE \E j \in 1 .. L - 1 : E[j].body.kind = "game" /\ E[j].body.n = n
      OBVIOUS
    <3>1. PICK j \in 1 .. L : D[j].body.kind = "game" /\ D[j].body.n = n
      BY <1>1
    <3>2. j # 1
      BY <1>4, <3>1
    <3> QED BY <1>d, <3>1, <3>2
  <2>2. \A j \in 1 .. L - 1 : E[j].body.kind = "game" => E[j].body.n \in g + 1 .. c
    BY <1>1, <1>c
  <2>3. CutAt(E, g, c)
    BY <1>2, <1>b, <2>1, <2>2 DEF CutAt
  <2> QED BY <1>4, <2>3 DEF E
<1> QED BY <1>3, <1>4

LEMMA CutAdd ==
  ASSUME NEW D \in Seq(Packet), NEW g \in Nat, NEW c \in Nat, g <= c,
         CutAt(D, g, c), NEW x \in Packet
  PROVE  /\ x.body.kind = "game" /\ x.body.n = c + 1
               => CutAt(Append(D, x), g, c + 1)
         /\ x.body.kind # "game" => CutAt(Append(D, x), g, c)
<1> DEFINE E == Append(D, x)
<1>a. Len(D) \in Nat /\ Len(E) = Len(D) + 1 /\ E[Len(D) + 1] = x
      /\ \A i \in 1 .. Len(D) : E[i] = D[i]
  OBVIOUS
<1>b. PICK L \in Nat : L = Len(D)
  BY <1>a
<1>c. /\ Len(E) = L + 1 /\ E[L + 1] = x /\ \A i \in 1 .. L : E[i] = D[i]
      /\ \A i \in 1 .. L + 1 : i \in 1 .. L \/ i = L + 1
      /\ \A i \in 1 .. L : i \in 1 .. L + 1 /\ i < L + 1
      /\ L + 1 \in 1 .. L + 1
  BY <1>a, <1>b
<1> HIDE DEF E
<1>1. /\ \A n \in g + 1 .. c :
            \E i \in 1 .. L : D[i].body.kind = "game" /\ D[i].body.n = n
      /\ \A i \in 1 .. L : D[i].body.kind = "game" => D[i].body.n \in g + 1 .. c
      /\ \A i, j \in 1 .. L :
            /\ D[i].body.kind = "game" /\ D[j].body.kind = "game" /\ i < j
            => D[i].body.n < D[j].body.n
  BY <1>b DEF CutAt
<1>2. CASE x.body.kind = "game" /\ x.body.n = c + 1
  <2>1. \A n \in g + 1 .. c + 1 :
           \E i \in 1 .. L + 1 : E[i].body.kind = "game" /\ E[i].body.n = n
    <3> SUFFICES ASSUME NEW n \in g + 1 .. c + 1
                 PROVE \E i \in 1 .. L + 1 : E[i].body.kind = "game" /\ E[i].body.n = n
      OBVIOUS
    <3>1. CASE n = c + 1
      BY <1>2, <1>c, <3>1
    <3>2. CASE n # c + 1
      <4>1. n \in g + 1 .. c
        BY <3>2
      <4>2. PICK i \in 1 .. L : D[i].body.kind = "game" /\ D[i].body.n = n
        BY <1>1, <4>1
      <4> QED BY <1>c, <4>2
    <3> QED BY <3>1, <3>2
  <2>2. \A i \in 1 .. L + 1 : E[i].body.kind = "game" => E[i].body.n \in g + 1 .. c + 1
    <3> SUFFICES ASSUME NEW i \in 1 .. L + 1, E[i].body.kind = "game"
                 PROVE  E[i].body.n \in g + 1 .. c + 1
      OBVIOUS
    <3>1. CASE i \in 1 .. L
      <4>1. E[i].body.n \in g + 1 .. c
        BY <1>1, <1>c, <3>1
      <4> QED BY <4>1
    <3>2. CASE i = L + 1
      BY <1>2, <1>c, <3>2
    <3> QED BY <1>c, <3>1, <3>2
  <2>3. \A i, j \in 1 .. L + 1 :
           /\ E[i].body.kind = "game" /\ E[j].body.kind = "game" /\ i < j
           => E[i].body.n < E[j].body.n
    <3> SUFFICES ASSUME NEW i \in 1 .. L + 1, NEW j \in 1 .. L + 1, i < j,
                        E[i].body.kind = "game", E[j].body.kind = "game"
                 PROVE  E[i].body.n < E[j].body.n
      OBVIOUS
    <3>1. i \in 1 .. L
      OBVIOUS
    <3>2. E[i] = D[i] /\ D[i].body.n \in g + 1 .. c
      BY <1>1, <1>c, <3>1
    <3>3. CASE j \in 1 .. L
      BY <1>1, <1>c, <3>1, <3>3
    <3>4. CASE j = L + 1
      <4>1. E[j].body.n = c + 1
        BY <1>2, <1>c, <3>4
      <4> QED BY <3>2, <4>1
    <3> QED BY <1>c, <3>3, <3>4
  <2>4. CutAt(E, g, c + 1)
    BY <1>c, <2>1, <2>2, <2>3 DEF CutAt
  <2> QED BY <1>2, <2>4 DEF E
<1>3. CASE x.body.kind # "game"
  <2>1. \A i \in 1 .. L + 1 : E[i].body.kind = "game" => i \in 1 .. L /\ E[i] = D[i]
    BY <1>3, <1>c
  <2>2. \A n \in g + 1 .. c :
           \E i \in 1 .. L + 1 : E[i].body.kind = "game" /\ E[i].body.n = n
    BY <1>1, <1>c
  <2>3. \A i \in 1 .. L + 1 : E[i].body.kind = "game" => E[i].body.n \in g + 1 .. c
    BY <1>1, <2>1
  <2>4. \A i, j \in 1 .. L + 1 :
           /\ E[i].body.kind = "game" /\ E[j].body.kind = "game" /\ i < j
           => E[i].body.n < E[j].body.n
    BY <1>1, <2>1
  <2>5. CutAt(E, g, c)
    BY <1>c, <2>2, <2>3, <2>4 DEF CutAt
  <2> QED BY <1>3, <2>5 DEF E
<1> QED BY <1>2, <1>3

LEMMA CutEmpty == \A g \in Nat : CutAt(<<>>, g, g)
  BY DEF CutAt

\* What a step of the session's goroutines or of the game server does to the
\* frames that wait, while the handler serves.
LEMMA HeadWaits ==
  \A u, v \in Seq(Frame) : u # <<>> =>
     /\ u \o v # <<>> /\ Head(u \o v) = Head(u) /\ Tail(u \o v) = Tail(u) \o v
     /\ u \o v \in Seq(Frame) /\ Tail(u) \in Seq(Frame)
<1> SUFFICES ASSUME NEW u \in Seq(Frame), NEW v \in Seq(Frame), u # <<>>
             PROVE  /\ u \o v # <<>> /\ Head(u \o v) = Head(u)
                    /\ Tail(u \o v) = Tail(u) \o v
                    /\ u \o v \in Seq(Frame) /\ Tail(u) \in Seq(Frame)
  OBVIOUS
<1>1. Tail(u) \in Seq(Frame) /\ Head(u) \in Frame /\ u = <<Head(u)>> \o Tail(u)
  OBVIOUS
<1> QED BY <1>1

LEMMA FrameWaits ==
  ASSUME TypeOK, MaxLogins = 1, NEW c \in Nat, Pending(c), HandlerFrame, Serving'
  PROVE  /\ Pending(c + 1)' /\ c + 1 <= gsent /\ gsent' = gsent
         /\ handler' = "push"
         /\ pushing'[1].body = [kind |-> "game", n |-> c + 1]
<1>a. /\ mq \in Seq(Frame) /\ fetch[1].hand \in Seq(Frame)
      /\ streams[1].down \in Seq(Frame) /\ Waiting \in Seq(Frame)
      /\ mq \o fetch[1].hand \in Seq(Frame) /\ gsent \in Nat
  BY WaitType
<1>b. PICK w \in Nat : w = Len(Waiting)
  BY <1>a, FrameAppend
<1>1. /\ mq # <<>> /\ mq' = Tail(mq) /\ UNCHANGED <<fetch, streams, gsent>>
      /\ Head(mq).type = "message"
      /\ CreateAndSend([kind |-> "game", n |-> Head(mq).n], flag, enc)
  BY DEF HandlerFrame, Kick, Return, Serving
<1>2. /\ Waiting # <<>> /\ Head(Waiting) = Head(mq) /\ Waiting' = Tail(Waiting)
  <2>1. /\ mq \o fetch[1].hand # <<>> /\ Head(mq \o fetch[1].hand) = Head(mq)
        /\ Tail(mq \o fetch[1].hand) = Tail(mq) \o fetch[1].hand
    BY <1>a, <1>1, HeadWaits
  <2>2. /\ Waiting # <<>> /\ Head(Waiting) = Head(mq \o fetch[1].hand)
        /\ Tail(Waiting) = Tail(mq \o fetch[1].hand) \o streams[1].down
    BY <1>a, <2>1, HeadWaits DEF Waiting
  <2>3. Waiting' = Tail(mq) \o fetch[1].hand \o streams[1].down
    BY <1>1 DEF Waiting
  <2> QED BY <2>1, <2>2, <2>3
<1>3. /\ 1 \in 1 .. w /\ Waiting[1] = Head(mq) /\ Len(Waiting') = w - 1
      /\ \A i \in 1 .. w - 1 : i + 1 \in 1 .. w /\ Waiting'[i] = Waiting[i + 1]
  BY <1>a, <1>b, <1>2
<1>4. Waiting[1].n = c + 1 /\ c + 1 <= gsent
  BY <1>b, <1>1, <1>3 DEF Pending
<1>5. \A i \in 1 .. w - 1 : Waiting'[i].type = "message" =>
         Waiting'[i].n = c + 1 + i /\ c + 1 + i <= gsent
  <2> SUFFICES ASSUME NEW i \in 1 .. w - 1, Waiting'[i].type = "message"
               PROVE  Waiting'[i].n = c + 1 + i /\ c + 1 + i <= gsent
    OBVIOUS
  <2>1. Waiting[i + 1].n = c + (i + 1) /\ c + (i + 1) <= gsent
    BY <1>b, <1>3 DEF Pending
  <2>2. c + (i + 1) = c + 1 + i
    OBVIOUS
  <2> QED BY <1>3, <2>1, <2>2
<1>6. streams[1].st # "ended" =>
         /\ c + 1 + (w - 1) = gsent
         /\ \A i \in 1 .. w - 1 : Waiting'[i].type = "message"
  <2> SUFFICES ASSUME streams[1].st # "ended"
               PROVE  /\ c + 1 + (w - 1) = gsent
                      /\ \A i \in 1 .. w - 1 : Waiting'[i].type = "message"
    OBVIOUS
  <2>1. c + w = gsent /\ \A i \in 1 .. w : Waiting[i].type = "message"
    BY <1>b DEF Pending
  <2>2. c + 1 + (w - 1) = c + w
    OBVIOUS
  <2> QED BY <1>3, <2>1, <2>2
<1>7. Pending(c + 1)'
  BY <1>1, <1>3, <1>5, <1>6 DEF Pending
<1>8. /\ handler' = "push"
      /\ pushing'[1].body = [kind |-> "game", n |-> Head(mq).n]
  BY <1>1 DEF CreateAndSend
<1> QED BY <1>1, <1>3, <1>4, <1>7, <1>8

\* Opening the stream adds nothing to what waits.
LEMMA LoginWaits ==
  ASSUME TypeOK, Unopened, MaxLogins = 1, InHand, NEW p, P_user_login_req(p),
         mq' = mq, gsent' = gsent
  PROVE  InHand' /\ Waiting' = Waiting /\ streams[1].st = "none"
<1>a. /\ Streams = {1} /\ streams \in [Streams -> Stream]
      /\ fetch \in [Streams -> Fetch] /\ streams[1] \in Stream
      /\ fetch[1] \in Fetch
  BY WaitType
<1>1. /\ streams[1].st = "none"
      /\ streams' = [streams EXCEPT ![1].st = "open"]
      /\ fetch' = [fetch EXCEPT ![1].pc = "recv", ![1].on = 1]
  <2>1. PICK s \in Streams :
           /\ streams[s].st = "none"
           /\ streams' = [streams EXCEPT ![s].st = "open"]
           /\ fetch' = [fetch EXCEPT ![s].pc = "recv", ![s].on = s]
    BY DEF P_user_login_req
  <2>2. s = 1
    BY <1>a
  <2> QED BY <2>1, <2>2
<1>2. /\ streams'[1].down = streams[1].down
      /\ fetch'[1].hand = fetch[1].hand /\ fetch'[1].pc = "recv"
  BY <1>a, <1>1 DEF Fetch, Stream
<1>3. fetch[1].pc # "put"
  <2>1. 1 > stream
    BY <1>a, <1>1 DEF Unopened
  <2>2. stream = 0
    BY <2>1, BoundsAssumption DEF TypeOK, SessType
  <2> QED BY <1>a, <2>2 DEF TypeOK, GameType
<1> QED BY <1>1, <1>2, <1>3 DEF InHand, Waiting

LEMMA StillWaits ==
  ASSUME InHand, NEW c \in Nat, UNCHANGED game
  PROVE  InHand' /\ (Pending(c) => Pending(c)')
  BY DEF InHand, Pending, Waiting, game

LEMMA PacketWaits ==
  ASSUME TypeOK, Unopened, MaxLogins = 1, InHand, NEW c \in Nat, HandlerPacket
  PROVE  InHand' /\ gsent' = gsent /\ (Pending(c) => Pending(c)')
<1>1. func_UserMsgHandler(offered[1]) /\ UNCHANGED <<mq, gsent>>
  BY DEF HandlerPacket
<1>2. CASE P_user_login_req(offered[1])
  <2>1. InHand' /\ Waiting' = Waiting /\ streams[1].st = "none"
    BY <1>1, <1>2, LoginWaits
  <2>2. streams[1].st # "ended"
    BY <2>1
  <2> QED BY <1>1, <2>1, <2>2 DEF Pending
<1>3. CASE UNCHANGED <<streams, fetch>>
  BY <1>1, <1>3, StillWaits DEF game
<1> QED BY <1>1, <1>2, <1>3 DEF func_UserMsgHandler, Reject, Unknown,
       P_heart_beat_req, P_get_seed_req, LoginFails, Forward

\* A step that is not the handler taking a frame moves what waits along, or
\* adds to its end, and pushes no frame.
LEMMA StepWaits ==
  ASSUME TypeOK, Unopened, MaxLogins = 1, InHand, [Next]_vars
  PROVE  /\ InHand' /\ gsent' \in {gsent, gsent + 1}
         /\ ~Serving => ~Serving'
         /\ \A c \in Nat : Pending(c) /\ ~HandlerFrame /\ Serving' => Pending(c)'
<1>0. Streams = {1}
  BY WaitType
<1>1. CASE Client \/ Reader \/ Sender
  <2>1. UNCHANGED game /\ (Serving' <=> Serving)
    BY <1>1 DEF Client, ClientSend, ClientResend, ClientRecv, ConnReset,
       ClientMode, Reader, ReaderRead, ReaderFail, ReaderDie, Sender,
       SenderTake, SenderWrite, SenderStop, handV, Serving
  <2> QED BY <2>1, StillWaits DEF game
<1>2. CASE HandlerPacket
  <2>1. Serving
    BY <1>2 DEF HandlerPacket, Serving
  <2> QED BY <1>2, <2>1, PacketWaits
<1>3. CASE HandlerFrame
  BY <1>3 DEF HandlerFrame, Serving, InHand
<1>4. CASE HandlerEOF \/ HandlerTimer \/ HandlerDie
  <2>1. UNCHANGED game /\ Serving
    BY <1>4 DEF HandlerEOF, HandlerTimer, HandlerDie, game, Serving
  <2> QED BY <2>1, StillWaits DEF game
<1>5. CASE HandlerExit
  BY <1>5 DEF HandlerExit, Serving, InHand
<1>6. CASE \E f \in Streams : Fetcher(f)
  <2>1. Fetcher(1)
    BY <1>0, <1>6
  <2>2. handler' = handler
    BY <2>1 DEF Fetcher, FetchRecv, FetchEnd, FetchPut, handV
  <2>3. /\ InHand' /\ (~DieClosed => Waiting' = Waiting)
        /\ streams'[1].st = streams[1].st /\ gsent' = gsent
    BY <2>1, FetcherWaits
  <2> QED BY <2>2, <2>3 DEF Pending, Serving, DieClosed
<1>7. CASE \E s \in Streams : Game(s)
  <2>1. Game(1)
    BY <1>0, <1>7
  <2>2. handler' = handler /\ fetch' = fetch /\ gsent' \in {gsent, gsent + 1}
    BY <2>1 DEF Game, GameSend, GameKick, GameEnd, handV
  <2> QED BY <2>1, <2>2, GameWaits DEF Serving, InHand
<1>8. CASE Terminate \/ Minute \/ UNCHANGED vars
  <2>1. UNCHANGED game /\ handler' = handler
    BY <1>8 DEF Terminate, Minute, vars, game, handV
  <2> QED BY <2>1, StillWaits DEF Serving, game
<1> QED BY <1>1, <1>2, <1>3, <1>4, <1>5, <1>6, <1>7, <1>8 DEF Next, Handler,
       Finished

Framed == \E c \in 0 .. gsent : Delivered(c) /\ (Serving => Pending(c))

\* The client reads the head of its downlink: if that is a frame, it is the
\* one after the last it has read.
LEMMA ReadFrame ==
  ASSUME FrameInv, ClientRecv
  PROVE  InRow' /\ Framed'
<1> DEFINE p == Head(downNet)
<1>0. TypeOK /\ HasKeys /\ InRow
  BY DEF FrameInv, KeyInv, LogInv
<1>1. /\ p.key = rx /\ p = Downlink[1] /\ Downlink \in Seq(Packet)
      /\ HasRead /\ got \in Seq(Nat) /\ gsent \in Nat /\ p \in Packet
      /\ Downlink # <<>> /\ Downlink' = Tail(Downlink)
  <2>1. HasRead
    BY <1>0, DownRead
  <2>2. p = Downlink[1] /\ 1 \in 1 .. Len(Downlink) /\ p.key = rx
    BY <1>0, HeadKey
  <2>3. Downlink \in Seq(Packet)
    BY <1>0, DownType
  <2>4. Downlink[1] \in Packet
    BY <2>2, <2>3
  <2> QED BY <1>0, <2>1, <2>2, <2>3, <2>4 DEF HasRead, TypeOK, ClientType, GameType
<1>2. /\ mode # "closed" /\ UNCHANGED <<gsent, handler, mq, fetch, streams>>
      /\ got' = IF p.body.kind = "game" THEN Append(got, p.body.n) ELSE got
  BY <1>1 DEF ClientRecv, game, handV
<1>3. PICK c \in 0 .. gsent : Delivered(c) /\ (Serving => Pending(c))
  BY <1>2 DEF FrameInv
<1>a. PICK g \in Nat : g = Len(got)
  BY <1>1
<1>4. g <= c /\ c <= gsent /\ c \in Nat /\ CutAt(Downlink, g, c)
  BY <1>1, <1>3, <1>a DEF Delivered
<1>5. Serving' => Pending(c)'
  BY <1>2, <1>3 DEF Serving, Pending, Waiting
<1>6. /\ p.body.kind = "game" => /\ p.body.n = g + 1 /\ g + 1 <= c
                                 /\ CutAt(Downlink', g + 1, c)
      /\ p.body.kind # "game" => CutAt(Downlink', g, c)
  BY <1>1, <1>4, CutRead
<1>7. CASE p.body.kind = "game"
  <2>1. got' = Append(got, g + 1)
    BY <1>2, <1>6, <1>7
  <2>2. /\ Len(got') = g + 1 /\ got'[g + 1] = g + 1
        /\ \A i \in 1 .. g : got'[i] = got[i]
    BY <1>1, <1>a, <2>1
  <2>3. InRow'
    <3> SUFFICES ASSUME NEW i \in 1 .. g + 1 PROVE got'[i] = i
      BY <2>2 DEF InRow
    <3>1. i \in 1 .. g \/ i = g + 1
      OBVIOUS
    <3> QED BY <1>0, <1>a, <2>2, <3>1 DEF InRow
  <2>4. c \in Len(got') .. gsent'
    BY <1>1, <1>2, <1>4, <1>6, <1>7, <2>2
  <2>5. CutAt(Downlink', Len(got'), c)
    BY <1>6, <1>7, <2>2
  <2>6. Delivered(c)'
    BY <2>4, <2>5 DEF Delivered, CutAt
  <2>7. c \in 0 .. gsent'
    BY <1>2, <1>3
  <2> QED BY <1>5, <2>3, <2>6, <2>7 DEF Framed
<1>8. CASE p.body.kind # "game"
  <2>1. got' = got /\ c \in Len(got') .. gsent'
    BY <1>1, <1>2, <1>4, <1>8, <1>a
  <2>2. CutAt(Downlink', Len(got'), c)
    BY <1>6, <1>8, <1>a, <2>1
  <2>3. Delivered(c)'
    BY <2>1, <2>2 DEF Delivered, CutAt
  <2>4. c \in 0 .. gsent'
    BY <1>2, <1>3
  <2>5. InRow'
    BY <1>0, <2>1 DEF InRow
  <2> QED BY <1>5, <2>3, <2>4, <2>5 DEF Framed
<1> QED BY <1>7, <1>8

LEMMA GotStays ==
  ASSUME [Next]_vars, ~ClientRecv
  PROVE  got' = got
<1>1. CASE Client
  BY <1>1 DEF Client, ClientSend, ClientResend, ConnReset, ClientMode, client
<1>2. CASE Reader \/ Sender \/ Handler
  BY <1>2 DEF Handler, HandlerPacket, HandlerEOF, HandlerFrame, HandlerTimer,
     HandlerDie, HandlerExit, Reader, ReaderRead, ReaderFail, ReaderDie, Sender,
     SenderTake, SenderWrite, SenderStop, client
<1>3. CASE \/ (\E f \in Streams : Fetcher(f)) \/ (\E s \in Streams : Game(s))
           \/ Terminate \/ Minute \/ UNCHANGED vars
  BY <1>3 DEF Fetcher, FetchRecv, FetchEnd, FetchPut, Game, GameSend, GameKick,
     GameEnd, Terminate, Minute, vars, client
<1> QED BY <1>1, <1>2, <1>3 DEF Next, Finished

\* Another step hands the downlink on, or adds to it what the handler pushes.
LEMMA MoveFrame ==
  ASSUME FrameInv, MaxLogins = 1, [Next]_vars, ~ClientRecv, mode' # "closed",
         StopInv'
  PROVE  Framed'
<1>0. TypeOK /\ StopInv /\ Unopened /\ InHand
  BY DEF FrameInv, KeyInv, LogInv, RelInv
<1>1. /\ Downlink \in Seq(Packet) /\ got \in Seq(Nat) /\ gsent \in Nat
      /\ gsent' \in {gsent, gsent + 1} /\ got' = got /\ mode # "closed"
      /\ ~Serving => ~Serving'
  BY <1>0, DownType, StepWaits, GotStays, SenderStays
     DEF TypeOK, ClientType, GameType
<1>2. PICK c \in 0 .. gsent : Delivered(c) /\ (Serving => Pending(c))
  BY <1>1 DEF FrameInv
<1>a. PICK g \in Nat : g = Len(got) /\ g = Len(got')
  BY <1>1
<1>3. g <= c /\ c <= gsent /\ c \in Nat /\ CutAt(Downlink, g, c)
  BY <1>1, <1>2, <1>a DEF Delivered
<1>4. \A d \in Nat : g <= d /\ d <= gsent /\ CutAt(Downlink', g, d)
                       /\ (Serving' => Pending(d)') => Framed'
  <2> SUFFICES ASSUME NEW d \in Nat, g <= d, d <= gsent, CutAt(Downlink', g, d),
                      Serving' => Pending(d)'
               PROVE  Framed'
    OBVIOUS
  <2>1. d \in 0 .. gsent' /\ d \in Len(got') .. gsent'
    BY <1>1, <1>a
  <2>2. Delivered(d)'
    BY <1>a, <2>1 DEF Delivered, CutAt
  <2> QED BY <2>1, <2>2 DEF Framed
<1>5. CASE Handed
  <2>1. CASE Downlink' = <<>> /\ sender' = "done"
    <3>1. ~Serving'
      BY <2>1 DEF StopInv, Serving
    <3>2. CutAt(Downlink', g, g) /\ g <= g /\ g <= gsent
      BY <1>1, <1>3, <2>1, CutEmpty
    <3> QED BY <1>4, <3>1, <3>2
  <2>2. CASE Downlink' = Downlink
    <3>1. CASE ~HandlerFrame \/ ~Serving'
      <4>1. Serving' => Pending(c)'
        BY <1>0, <1>1, <1>2, <1>3, <3>1, StepWaits
      <4> QED BY <1>3, <1>4, <2>2, <4>1
    <3>2. CASE HandlerFrame /\ Serving'
      <4>1. Serving /\ Pending(c)
        BY <1>1, <1>2, <3>2
      <4>2. handler' = "push"
        BY <1>0, <1>3, <3>2, <4>1, FrameWaits
      <4>3. PushStep
        BY <1>0, <3>2, <4>2, HandlerPushes
      <4>4. Len(Downlink') = Len(Downlink) + 1 \/ mode' = "closed"
        BY <1>0, <4>3, PushedAt
      <4> QED BY <1>1, <2>2, <4>4
    <3> QED BY <3>1, <3>2
  <2> QED BY <1>5, <2>1, <2>2 DEF Handed
<1>6. CASE PushStep /\ (HandlerPacket \/ HandlerFrame)
  <2>1. handler' = "push" /\ Serving'
    BY <1>0, <1>6, PushedAt DEF Serving
  <2>2. Downlink' = Append(Downlink, pushing'[1])
    BY <1>1, <1>6 DEF PushStep, Pushes, Pushed
  <2>3. pushing'[1] \in Packet
    <3>1. TypeOK'
      BY <1>0, StepType
    <3> QED BY <2>1, <3>1 DEF TypeOK, HandlerType
  <2>4. Serving /\ Pending(c)
    BY <1>1, <1>2, <2>1
  <2>5. PICK x \in Packet : x = pushing'[1]
    BY <2>3
  <2>6. CASE HandlerFrame
    <3>1. /\ Pending(c + 1)' /\ c + 1 <= gsent
          /\ x.body = [kind |-> "game", n |-> c + 1]
      BY <1>0, <1>3, <2>1, <2>4, <2>5, <2>6, FrameWaits
    <3>2. x.body.kind = "game" /\ x.body.n = c + 1
      BY <3>1
    <3>3. CutAt(Downlink', g, c + 1)
      BY <1>1, <1>3, <2>2, <2>5, <3>2, CutAdd
    <3>4. c + 1 \in Nat /\ g <= c + 1
      BY <1>3
    <3> QED BY <1>4, <3>1, <3>3, <3>4
  <2>7. CASE ~HandlerFrame
    <3>1. x.body.kind # "game"
      BY <1>0, <1>6, <2>1, <2>5, <2>7, PushKinds
    <3>2. CutAt(Downlink', g, c)
      BY <1>1, <1>3, <2>2, <2>5, <3>1, CutAdd
    <3>3. Pending(c)'
      BY <1>0, <1>3, <2>1, <2>4, <2>7, StepWaits
    <3> QED BY <1>3, <1>4, <3>2, <3>3
  <2> QED BY <2>6, <2>7
<1> QED BY <1>0, <1>5, <1>6, DownStep

LEMMA StepFrameInv ==
  ASSUME FrameInv, [Next]_vars, MaxSeeds <= 1, MaxLogins = 1
  PROVE  FrameInv'
<1>0. KeyInv /\ RelInv /\ InHand /\ InRow /\ TypeOK /\ Unopened
  BY DEF FrameInv, RelInv
<1>1. KeyInv' /\ RelInv' /\ InHand'
  BY <1>0, StepKeyInv, StepRel, StepWaits
<1>2. CASE ClientRecv
  BY <1>1, <1>2, ReadFrame DEF FrameInv, Framed
<1>3. CASE ~ClientRecv
  <2>1. InRow'
    BY <1>0, <1>3, GotStays DEF InRow
  <2>2. StopInv'
    BY <1>1 DEF KeyInv, LogInv
  <2> QED BY <1>1, <1>3, <2>1, <2>2, MoveFrame DEF FrameInv, Framed
<1> QED BY <1>2, <1>3

LEMMA InitFrameInv == Init /\ MaxLogins = 1 => FrameInv
<1> SUFFICES ASSUME Init, MaxLogins = 1 PROVE FrameInv
  OBVIOUS
<1>1. KeyInv /\ Downlink = <<>>
  BY InitKeyInv, InitLog
<1>2. RelInv
  <2>1. Unopened
    BY DEF Init, Unopened, Streams
  <2> QED BY <2>1, InitType DEF Init, RelInv, StreamsReleased, DieClosed
<1>3. InRow /\ got = <<>> /\ gsent = 0
  BY DEF Init, InRow
<1>4. fetch[1].hand = <<>> /\ fetch[1].pc = "none" /\ streams[1].down = <<>>
      /\ mq = <<>>
  BY DEF Init, Streams
<1>5. Waiting = <<>> /\ InHand
  BY <1>4 DEF Waiting, InHand
<1>6. Pending(0)
  BY <1>3, <1>5 DEF Pending
<1>7. Delivered(0)
  <2>1. CutAt(<<>>, 0, 0)
    BY CutEmpty
  <2> QED BY <1>1, <1>3, <2>1 DEF Delivered
<1> QED BY <1>1, <1>2, <1>3, <1>5, <1>6, <1>7 DEF FrameInv

LEMMA FrameInvIntact ==
  ASSUME FrameInv, MaxLogins = 1
  PROVE  DownstreamIntact
<1>0. ~garbled /\ TypeOK /\ InRow
  BY DEF FrameInv, KeyInv, LogInv
<1> SUFFICES ASSUME Serving, mode # "closed", streams[1].st # "ended"
             PROVE  NoneAstray
  BY <1>0 DEF DownstreamIntact, Serving
<1>1. PICK c \in 0 .. gsent : Delivered(c) /\ Pending(c)
  BY DEF FrameInv
<1>2. /\ got \in Seq(Nat) /\ gsent \in Nat /\ Waiting \in Seq(Frame)
      /\ Downlink \in Seq(Packet) /\ Written = Downlink
  BY <1>0, WaitType, DownType DEF TypeOK, ClientType, Written, Downlink
<1>a. PICK w \in Nat : w = Len(Waiting)
  BY <1>2, FrameAppend
<1>b. PICK g \in Nat : g = Len(got)
  BY <1>2
<1>3. c + w = gsent /\ \A i \in 1 .. w : Waiting[i].type = "message"
  BY <1>1, <1>a DEF Pending
<1>4. Taken = c
  BY <1>1, <1>2, <1>3, <1>a DEF Taken
<1>5. CutAt(Written, g, c)
  BY <1>1, <1>2, <1>b DEF Delivered
<1>6. got = [i \in 1 .. Len(got) |-> i]
  BY <1>0, <1>2 DEF InRow
<1>7. Games = {i \in 1 .. Len(Written) : Written[i].body.kind = "game"}
  BY <1>2 DEF Games
<1>8. {Written[i].body.n : i \in Games} = g + 1 .. c
  BY <1>5, <1>7 DEF CutAt
<1>9. \A i, j \in Games : i < j => Written[i].body.n < Written[j].body.n
  BY <1>5, <1>7 DEF CutAt
<1>10. \A i \in 1 .. w : Waiting[i] = [type |-> "message", n |-> c + i]
  <2> SUFFICES ASSUME NEW i \in 1 .. w
               PROVE  Waiting[i] = [type |-> "message", n |-> c + i]
    OBVIOUS
  <2>1. Waiting[i] \in Frame
    BY <1>2, <1>a
  <2>2. Waiting[i].type = "message" /\ Waiting[i].n = c + i
    BY <1>1, <1>3, <1>a DEF Pending
  <2> QED BY <2>1, <2>2 DEF Frame
<1> QED BY <1>4, <1>6, <1>8, <1>9, <1>10, <1>a, <1>b DEF NoneAstray

\* A client that logs in once and exchanges keys once reads the frames of its
\* game server as they were sent: while the session serves it and its stream
\* is open, what it has read, what is pushed to it and what waits for the
\* handler are together all the frames sent, none lost, doubled or overtaken,
\* for every capacity of the queues between.
THEOREM DeliversIntact ==
  ASSUME MaxSeeds <= 1, MaxLogins = 1
  PROVE  Spec => []DownstreamIntact
<1>1. Init => FrameInv
  BY InitFrameInv
<1>2. FrameInv /\ [Next]_vars => FrameInv'
  BY StepFrameInv
<1>3. FrameInv => DownstreamIntact
  BY FrameInvIntact
<1> QED BY <1>1, <1>2, <1>3, PTL DEF Spec

-----------------------------------------------------------------------------
(* The session implements the FIFO relay towards the client.                 *)

LEMMA GameSends ==
  ASSUME [Next]_vars
  PROVE  gsent' = gsent \/ (gsent' = gsent + 1 /\ gsent < MaxGame)
<1>1. CASE Client \/ Reader \/ Sender
  BY <1>1 DEF Client, ClientSend, ClientResend, ClientRecv, ConnReset,
     ClientMode, Reader, ReaderRead, ReaderFail, ReaderDie, Sender, SenderTake,
     SenderWrite, SenderStop, game
<1>2. CASE Handler
  BY <1>2 DEF Handler, HandlerPacket, HandlerEOF, HandlerFrame, HandlerTimer,
     HandlerDie, HandlerExit, game
<1>3. CASE (\E f \in Streams : Fetcher(f)) \/ (\E s \in Streams : Game(s))
  BY <1>3 DEF Fetcher, FetchRecv, FetchEnd, FetchPut, Game, GameSend, GameKick,
     GameEnd
<1>4. CASE Terminate \/ Minute \/ UNCHANGED vars
  BY <1>4 DEF Terminate, Minute, vars, game
<1> QED BY <1>1, <1>2, <1>3, <1>4 DEF Next, Finished

\* What the client reads next is the first frame it has not read, and that
\* frame has been sent.
LEMMA ReadsNext ==
  ASSUME FrameInv, ClientRecv, got' # got
  PROVE  /\ got' = Append(got, Len(got) + 1) /\ Len(got) < gsent
         /\ gsent' = gsent
<1> DEFINE p == Head(downNet)
<1>0. TypeOK /\ HasKeys
  BY DEF FrameInv, KeyInv, LogInv
<1>1. p = Downlink[1] /\ Downlink \in Seq(Packet) /\ Downlink # <<>>
      /\ got \in Seq(Nat) /\ gsent \in Nat
  BY <1>0, HeadKey, DownType DEF TypeOK, ClientType, GameType
<1>2. /\ mode # "closed" /\ gsent' = gsent /\ p.body.kind = "game"
      /\ got' = Append(got, p.body.n)
  BY DEF ClientRecv, game
<1>3. PICK c \in 0 .. gsent : Delivered(c)
  BY <1>2 DEF FrameInv
<1>a. PICK g \in Nat : g = Len(got)
  BY <1>1
<1>4. g <= c /\ c <= gsent /\ c \in Nat /\ CutAt(Downlink, g, c)
  BY <1>1, <1>3, <1>a DEF Delivered
<1>5. p.body.n = g + 1 /\ g + 1 <= c
  BY <1>1, <1>2, <1>4, CutRead
<1>6. g < gsent
  BY <1>1, <1>4, <1>5
<1> QED BY <1>2, <1>5, <1>6, <1>a

LEMMA StepRelays ==
  ASSUME FrameInv, [Next]_vars
  PROVE  [Down!Next]_<<[i \in 1 .. gsent |-> i], got>>
<1>0. got \in Seq(Nat) /\ gsent \in Nat /\ Len(got) \in Nat
  BY DEF FrameInv, KeyInv, LogInv, TypeOK, ClientType, GameType
<1> DEFINE sentAll == [i \in 1 .. gsent |-> i]
<1>a. Len(sentAll) = gsent /\ sentAll \in Seq(Nat)
  BY <1>0
<1>1. CASE ClientRecv /\ got' # got
  <2>1. /\ got' = Append(got, Len(got) + 1) /\ Len(got) < gsent
        /\ gsent' = gsent
    BY <1>1, ReadsNext
  <2>2. Len(got) + 1 \in 1 .. gsent
    BY <1>0, <2>1
  <2>3. sentAll[Len(got) + 1] = Len(got) + 1
    BY <2>2
  <2>4. Down!Deliver
    BY <1>a, <2>1, <2>3 DEF Down!Deliver
  <2> QED BY <2>4 DEF Down!Next
<1>2. CASE got' = got
  <2>1. CASE gsent' = gsent
    BY <1>2, <2>1
  <2>2. CASE gsent' = gsent + 1 /\ gsent < MaxGame
    <3>1. gsent + 1 \in 1 .. MaxGame
      BY <1>0, <2>2, BoundsAssumption
    <3>2. [i \in 1 .. gsent + 1 |-> i] = Append(sentAll, gsent + 1)
      BY <1>0
    <3>3. \E m \in 1 .. MaxGame : Down!Submit(m)
      BY <1>2, <2>2, <3>1, <3>2 DEF Down!Submit
    <3> HIDE DEF sentAll
    <3> QED BY <3>3 DEF Down!Next
  <2> QED BY <2>1, <2>2, GameSends
<1> QED BY <1>1, <1>2, GotStays

\* Towards the client the session is a FIFO relay of the frames of its game
\* server, whatever the capacities of the queues in between, for one login and
\* one key exchange.
THEOREM RelaysDownstream ==
  ASSUME MaxSeeds <= 1, MaxLogins = 1
  PROVE  Spec => RelaysDown
<1>1. Init => FrameInv /\ Down!Init
  <2>1. Init => [i \in 1 .. gsent |-> i] = <<>> /\ got = <<>>
    BY DEF Init
  <2> QED BY <2>1, InitFrameInv DEF Down!Init
<1>2. FrameInv /\ [Next]_vars => FrameInv'
  BY StepFrameInv
<1>3. FrameInv /\ [Next]_vars => [Down!Next]_<<[i \in 1 .. gsent |-> i], got>>
  BY StepRelays
<1> QED BY <1>1, <1>2, <1>3, PTL DEF Spec, RelaysDown, Down!Spec

-----------------------------------------------------------------------------
(* The session implements the FIFO relay towards the game server.  The k-th  *)
(* packet forwarded is the k-th game packet of the client; and while the     *)
(* handler serves and its only stream has not ended, every game packet that  *)
(* has been counted was forwarded, so that the next one is the next in turn. *)

LEMMA UpToType ==
  ASSUME NEW S, IsFiniteSet(S), NEW i
  PROVE  IsFiniteSet({j \in S : j <= i}) /\ UpTo(S, i) \in Nat
<1>1. {j \in S : j <= i} \in SUBSET S /\ S \cap (0 .. i) \in SUBSET S
  OBVIOUS
<1> QED BY <1>1, FS_Subset, FS_CardinalityType DEF UpTo

LEMMA UpToIs ==
  ASSUME NEW S \in SUBSET Nat, NEW i \in Nat
  PROVE  UpTo(S, i) = Cardinality({j \in S : j <= i})
<1>1. \A j \in S : j \in 0 .. i <=> j <= i
  <2>1. \A j \in S : j \in Nat
    OBVIOUS
  <2> QED BY <2>1
<1>2. S \cap (0 .. i) = {j \in S : j <= i}
  BY <1>1
<1> QED BY <1>2 DEF UpTo

\* No two members have the same place.
LEMMA UpToDiffers ==
  ASSUME NEW S \in SUBSET Nat, IsFiniteSet(S), NEW i \in S, NEW j \in S,
         UpTo(S, i) = UpTo(S, j)
  PROVE  i = j
<1>1. ASSUME NEW a \in S, NEW b \in S, UpTo(S, a) = UpTo(S, b), a < b
      PROVE  FALSE
  <2> DEFINE A == {m \in S : m <= a}
             B == {m \in S : m <= b}
  <2>0. a \in Nat /\ b \in Nat /\ \A m \in S : m \in Nat
    OBVIOUS
  <2>1. A \in SUBSET B /\ b \in B /\ b \notin A
    <3>1. \A m \in S : m <= a => m <= b
      BY <1>1, <2>0
    <3>2. b <= b /\ ~(b <= a)
      BY <1>1, <2>0
    <3> QED BY <3>1, <3>2
  <2>2. IsFiniteSet(B) /\ Cardinality(A) = Cardinality(B)
    BY <1>1, <2>0, UpToType, UpToIs
  <2> HIDE DEF A, B
  <2>3. A = B
    BY <2>1, <2>2, FS_Subset
  <2> QED BY <2>1, <2>3
<1>2. i \in Nat /\ j \in Nat
  OBVIOUS
<1>3. ~(i < j) /\ ~(j < i)
  BY <1>1
<1> QED BY <1>2, <1>3

LEMMA NthIs ==
  ASSUME NEW S \in SUBSET Nat, IsFiniteSet(S), NEW i \in S
  PROVE  Nth(S, UpTo(S, i)) = i
<1>1. PICK n \in S : n = Nth(S, UpTo(S, i)) /\ UpTo(S, n) = UpTo(S, i)
  BY DEF Nth
<1>2. n = i
  BY <1>1, UpToDiffers
<1> QED BY <1>1, <1>2

\* A new last member leaves the others their places.
LEMMA UpToGrows ==
  ASSUME NEW S \in SUBSET Nat, IsFiniteSet(S), NEW n \in Nat, \A j \in S : j < n
  PROVE  /\ IsFiniteSet(S \cup {n})
         /\ Cardinality(S \cup {n}) = Cardinality(S) + 1
         /\ UpTo(S \cup {n}, n) = Cardinality(S) + 1
         /\ \A i \in S : UpTo(S \cup {n}, i) = UpTo(S, i)
<1>1. n \notin S
  OBVIOUS
<1>2. IsFiniteSet(S \cup {n}) /\ Cardinality(S \cup {n}) = Cardinality(S) + 1
  BY <1>1, FS_AddElement
<1>3. {j \in S \cup {n} : j <= n} = S \cup {n}
  <2>1. \A j \in S \cup {n} : j \in Nat
    OBVIOUS
  <2>2. \A j \in S \cup {n} : j <= n
    BY <2>1
  <2> QED BY <2>2
<1>4. ASSUME NEW i \in S PROVE {j \in S \cup {n} : j <= i} = {j \in S : j <= i}
  OBVIOUS
<1>5. /\ S \cup {n} \in SUBSET Nat
      /\ UpTo(S \cup {n}, n) = Cardinality({j \in S \cup {n} : j <= n})
  <2>1. S \cup {n} \in SUBSET Nat
    OBVIOUS
  <2> QED BY <2>1, UpToIs
<1>6. ASSUME NEW i \in S PROVE UpTo(S \cup {n}, i) = UpTo(S, i)
  <2>1. i \in Nat
    OBVIOUS
  <2> QED BY <1>4, <1>5, <2>1, UpToIs
<1> QED BY <1>2, <1>3, <1>5, <1>6

\* The place of a member whose lower ones are those up to another.
LEMMA UpToNext ==
  ASSUME NEW S \in SUBSET Nat, IsFiniteSet(S), NEW s \in S, NEW T \in SUBSET S,
         s \notin T, {j \in S : j <= s} = T \cup {s}
  PROVE  UpTo(S, s) = Cardinality(T) + 1
<1>1. IsFiniteSet(T)
  BY FS_Subset
<1>2. s \in Nat
  OBVIOUS
<1>3. UpTo(S, s) = Cardinality(T \cup {s})
  BY <1>2, UpToIs
<1> QED BY <1>1, <1>3, FS_AddElement

LEMMA GamePacketsType ==
  ASSUME TypeOK
  PROVE  /\ GamePackets \in SUBSET Nat /\ IsFiniteSet(GamePackets)
         /\ Cardinality(GamePackets) \in Nat
         /\ \A i \in GamePackets : i \in 1 .. Len(sent) /\ sent[i] = "game"
<1>1. sent \in Seq(Kinds) /\ Len(sent) \in Nat /\ DOMAIN sent = 1 .. Len(sent)
  BY DEF TypeOK, ClientType
<1>2. GamePackets \in SUBSET (1 .. Len(sent))
  BY <1>1 DEF GamePackets
<1>3. IsFiniteSet(1 .. Len(sent))
  BY <1>1, FS_Interval
<1>4. IsFiniteSet(GamePackets) /\ Cardinality(GamePackets) \in Nat
  BY <1>2, <1>3, FS_Subset, FS_CardinalityType
<1> QED BY <1>1, <1>2, <1>4 DEF GamePackets

Ranked == \A k \in 1 .. Cardinality(GamePackets) :
             \E i \in GamePackets : UpTo(GamePackets, i) = k
InTurn == \A k \in 1 .. Len(fwd) :
             fwd[k] \in GamePackets /\ UpTo(GamePackets, fwd[k]) = k
Through ==
    Serving /\ streams[1].st \in {"none", "open"} =>
       \A i \in GamePackets :
          i <= packetCount => \E k \in 1 .. Len(fwd) : fwd[k] = i

UpInv == FwdInv /\ KickInv /\ RelInv /\ Ranked /\ InTurn /\ Through

\* While the handler serves and the client has kept to the protocol, not more
\* is counted than was sent.
LEMMA CountedAreSent ==
  ASSUME KickInv, legal, Serving
  PROVE  packetCount <= Len(sent)
<1>1. Flow /\ TypeOK
  BY DEF KickInv, LogInv
<1>2. packetCount \in Nat /\ Len(InFlight) \in Nat /\ Len(sent) \in Nat
  BY <1>1, FlightType
<1> QED BY <1>1, <1>2 DEF Flow

LEMMA SendUp ==
  ASSUME UpInv, NEW k \in Kinds, ClientSend(k)
  PROVE  /\ Ranked' /\ InTurn' /\ Through'
         /\ \/ Submitted' = Submitted
            \/ Submitted' = Append(Submitted, Len(sent) + 1)
<1> DEFINE G == GamePackets
           n == Len(sent) + 1
<1>0. /\ TypeOK /\ sent \in Seq(Kinds) /\ Len(sent) \in Nat /\ packetCount \in Nat
      /\ fwd \in Seq(Nat)
  BY DEF UpInv, RelInv, TypeOK, ClientType, SessType, HistType
<1>1. /\ sent' = Append(sent, k) /\ legal
      /\ UNCHANGED <<fwd, packetCount, handler, streams>>
  BY DEF ClientSend, hist, sess, handV, game
<1>2. /\ Len(sent') = n /\ sent'[n] = k /\ DOMAIN sent' = 1 .. n
      /\ DOMAIN sent = 1 .. Len(sent)
      /\ \A i \in 1 .. Len(sent) : sent'[i] = sent[i]
  BY <1>0, <1>1
<1>3. GamePackets' = IF k = "game" THEN G \cup {n} ELSE G
  BY <1>0, <1>2 DEF GamePackets
<1>4. /\ G \in SUBSET Nat /\ IsFiniteSet(G) /\ Cardinality(G) \in Nat
      /\ n \in Nat /\ \A j \in G : j < n
  BY <1>0, GamePacketsType
<1>5. Serving => packetCount < n
  BY <1>0, <1>1, CountedAreSent DEF UpInv
<1>6. CASE k # "game"
  <2>1. GamePackets' = G
    BY <1>3, <1>6
  <2> QED BY <1>1, <2>1 DEF UpInv, Ranked, InTurn, Through, Serving, Submitted
<1>7. CASE k = "game"
  <2> DEFINE H == G \cup {n}
             c == Cardinality(G)
  <2>1. GamePackets' = H
    BY <1>3, <1>7
  <2> HIDE DEF G
  <2>2. /\ IsFiniteSet(H) /\ Cardinality(H) = c + 1 /\ UpTo(H, n) = c + 1
        /\ \A i \in G : UpTo(H, i) = UpTo(G, i)
    BY <1>4, UpToGrows
  <2>3. H \in SUBSET Nat /\ G \in SUBSET H /\ n \in H /\ c \in Nat
    BY <1>4
  <2>4. /\ \A m \in 1 .. c : \E i \in G : UpTo(G, i) = m
        /\ \A m \in 1 .. Len(fwd) : fwd[m] \in G /\ UpTo(G, fwd[m]) = m
        /\ Serving /\ streams[1].st \in {"none", "open"} =>
              \A i \in G : i <= packetCount => \E m \in 1 .. Len(fwd) : fwd[m] = i
    BY DEF G, UpInv, Ranked, InTurn, Through
  <2> HIDE DEF H, n, c
  <2>5. \A m \in 1 .. c + 1 : \E i \in H : UpTo(H, i) = m
    <3> SUFFICES ASSUME NEW m \in 1 .. c + 1
                 PROVE  \E i \in H : UpTo(H, i) = m
      OBVIOUS
    <3>1. CASE m = c + 1
      BY <2>2, <2>3, <3>1
    <3>2. CASE m \in 1 .. c
      <4>1. PICK i \in G : UpTo(G, i) = m
        BY <2>4, <3>2
      <4> QED BY <2>2, <2>3, <4>1
    <3> QED BY <2>3, <3>1, <3>2
  <2>6. Ranked'
    BY <2>1, <2>2, <2>5 DEF Ranked
  <2>7. \A m \in 1 .. Len(fwd) : fwd[m] \in H /\ UpTo(H, fwd[m]) = m
    BY <2>2, <2>3, <2>4
  <2>8. InTurn'
    BY <1>1, <2>1, <2>7 DEF InTurn
  <2>9. Through'
    <3> SUFFICES ASSUME Serving, streams[1].st \in {"none", "open"}, NEW i \in H,
                        i <= packetCount
                 PROVE  \E m \in 1 .. Len(fwd) : fwd[m] = i
      BY <1>1, <2>1 DEF Through, Serving
    <3>1. i \in G
      BY <1>0, <1>4, <1>5 DEF H
    <3> QED BY <2>4, <3>1
  <2>10. Submitted' = Append(Submitted, n)
    <3> DEFINE q == [m \in 1 .. c + 1 |-> Nth(H, m)]
               r == [m \in 1 .. c |-> Nth(G, m)]
    <3>1. Submitted' = q /\ Submitted = r
      BY <2>1, <2>2 DEF Submitted, G, c
    <3>2. q[c + 1] = n
      BY <2>2, <2>3, NthIs
    <3>3. ASSUME NEW m \in 1 .. c PROVE q[m] = r[m]
      <4>1. PICK i \in G : UpTo(G, i) = m
        BY <2>4
      <4>2. Nth(G, m) = i
        BY <1>4, <4>1, NthIs
      <4>3. Nth(H, m) = i
        BY <2>2, <2>3, <4>1, NthIs
      <4> QED BY <2>3, <4>2, <4>3
    <3>4. DOMAIN r = 1 .. c /\ DOMAIN q = 1 .. c + 1
      OBVIOUS
    <3> HIDE DEF q, r
    <3>5. Len(r) = c
      BY <2>3, <3>4
    <3>6. q = Append(r, n)
      BY <2>3, <3>1, <3>2, <3>3, <3>4, <3>5 DEF q, r
    <3> QED BY <3>1, <3>6
  <2> QED BY <2>6, <2>8, <2>9, <2>10 DEF n
<1> QED BY <1>6, <1>7

\* The packet the handler forwards is the next in turn, and every other one it
\* counts is no game packet, unless it stops serving.
LEMMA PacketUp ==
  ASSUME UpInv, HandlerPacket, MaxLogins = 1
  PROVE  /\ Ranked' /\ InTurn' /\ Through' /\ Submitted' = Submitted
         /\ fwd' # fwd => /\ Len(fwd) < Len(Submitted)
                          /\ fwd' = Append(fwd, Submitted[Len(fwd) + 1])
<1> DEFINE p == offered[1]
           G == GamePackets
           L == Len(fwd)
<1>0. /\ TypeOK /\ fwd \in Seq(Nat) /\ L \in Nat /\ packetCount \in Nat
      /\ Len(offered) = 1 /\ stream \in 0 .. 1 /\ 1 \in Streams
  BY DEF UpInv, RelInv, TypeOK, SessType, HistType, ReaderType, HandlerPacket, Streams
<1>1. /\ handler = "select" /\ packetCount' = packetCount + 1
      /\ sent' = sent /\ func_UserMsgHandler(p)
  BY DEF HandlerPacket, client
<1>2. GamePackets' = G /\ Submitted' = Submitted
  BY <1>1 DEF GamePackets, Submitted
<1>3. p.seq \in 1 .. Len(sent) /\ sent[p.seq] = p.kind
  BY <1>0 DEF UpInv, FwdInv, Numbered, Honest
<1>4. /\ G \in SUBSET Nat /\ IsFiniteSet(G) /\ Cardinality(G) \in Nat
      /\ Len(sent) \in Nat /\ DOMAIN sent = 1 .. Len(sent)
  BY <1>0, GamePacketsType DEF TypeOK, ClientType
<1>5. /\ \A k \in 1 .. L : fwd[k] \in G /\ UpTo(G, fwd[k]) = k
      /\ \A k \in 1 .. L : fwd[k] \in 1 .. packetCount
      /\ \A i, j \in 1 .. L : i < j => fwd[i] < fwd[j]
  BY DEF UpInv, FwdInv, ForwardedOnce, InTurn
<1>6. streams[1].st \in {"none", "open"} =>
         \A i \in G : i <= packetCount => \E k \in 1 .. L : fwd[k] = i
  BY <1>1 DEF UpInv, Through, Serving
<1>7. Ranked'
  BY <1>2 DEF UpInv, Ranked
<1>8. stream = 1 => streams[1].st # "none"
  BY <1>0 DEF UpInv, RelInv, Unopened
<1>9. CASE fwd' = fwd
  <2>1. InTurn'
    BY <1>2, <1>9 DEF UpInv, InTurn
  <2>2. Through'
    <3> SUFFICES ASSUME Serving', streams'[1].st \in {"none", "open"}, NEW i \in G,
                        i <= packetCount + 1
                 PROVE  \E k \in 1 .. L : fwd[k] = i
      BY <1>1, <1>2, <1>9 DEF Through
    <3>1. handler' # "return"
      BY DEF Serving
    <3>2. SeqOK(p) /\ p.kind # "game" /\ streams[1].st \in {"none", "open"}
      <4>1. ~Reject(p) /\ ~Unknown(p)
        BY <3>1 DEF Reject, Unknown, Kick, Return
      <4>2. ~Forward(p)
        <5> SUFFICES ASSUME Forward(p) PROVE FALSE
          OBVIOUS
        <5>1. stream # 0 /\ streams[stream].st # "open" /\ streams' = streams
          <6>1. Append(fwd, p.seq) # fwd
            BY <1>0
          <6> QED BY <1>9, <3>1, <6>1 DEF Forward, Kick, Return
        <5>2. stream = 1
          BY <1>0, <5>1
        <5> QED BY <1>8, <5>1, <5>2
      <4>3. CASE P_heart_beat_req(p) \/ P_get_seed_req(p) \/ LoginFails(p)
        BY <4>3 DEF P_heart_beat_req, P_get_seed_req, LoginFails
      <4>4. CASE P_user_login_req(p)
        <5>1. PICK s \in Streams : streams[s].st = "none"
          BY <4>4 DEF P_user_login_req
        <5>2. s = 1
          BY <5>1 DEF Streams
        <5> QED BY <4>4, <5>1, <5>2 DEF P_user_login_req
      <4> QED BY <1>1, <4>1, <4>2, <4>3, <4>4 DEF func_UserMsgHandler
    <3>3. sent[packetCount + 1] # "game"
      BY <1>3, <3>2 DEF SeqOK
    <3>4. i # packetCount + 1 /\ i \in Nat
      BY <1>4, <3>3 DEF GamePackets
    <3>5. i <= packetCount
      BY <1>0, <3>4
    <3> QED BY <1>6, <3>2, <3>5
  <2> QED BY <1>2, <1>7, <1>9, <2>1, <2>2
<1>10. CASE fwd' # fwd
  <2> DEFINE s == packetCount + 1
             T == {fwd[k] : k \in 1 .. L}
  <2>1. Forward(p) /\ p.seq = s /\ p.kind = "game" /\ fwd' = Append(fwd, s)
        /\ stream # 0 /\ streams[stream].st = "open" /\ streams' = streams
        /\ handler' = "select"
    BY <1>1, <1>10 DEF func_UserMsgHandler, Reject, Unknown, P_heart_beat_req,
       P_get_seed_req, LoginFails, P_user_login_req, Forward, SeqOK
  <2>2. stream = 1
    BY <1>0, <2>1
  <2>3. \A i \in G : i <= packetCount => \E k \in 1 .. L : fwd[k] = i
    BY <1>6, <2>1, <2>2
  <2>4. s \in G /\ s \in Nat
    BY <1>0, <1>3, <1>4, <2>1 DEF GamePackets
  <2> HIDE DEF G, L
  <2>5. T \in SUBSET G /\ s \notin T
    BY <1>0, <1>5
  <2>6. {j \in G : j <= s} = T \cup {s}
    <3>1. ASSUME NEW j \in G, j <= s PROVE j \in T \cup {s}
      <4>1. j = s \/ j <= packetCount
        BY <1>0, <1>4, <3>1
      <4> QED BY <2>3, <4>1
    <3>2. \A j \in T : j <= s
      BY <1>0, <1>5
    <3>3. s <= s
      BY <2>4
    <3> QED BY <2>4, <2>5, <3>1, <3>2, <3>3
  <2>7. Cardinality(T) = L
    <3>1. CASE L = 0
      BY <3>1, FS_EmptySet
    <3>2. CASE L # 0
      <4>1. L \in 1 .. L
        BY <1>0, <3>2
      <4>2. UpTo(G, fwd[L]) = L /\ fwd[L] \in 1 .. packetCount
        BY <1>5, <4>1
      <4>3. {j \in G : j <= fwd[L]} = T
        <5>1. ASSUME NEW j \in G, j <= fwd[L] PROVE j \in T
          <6>1. j \in Nat
            BY <1>4
          <6>2. j <= packetCount
            BY <1>0, <4>2, <5>1, <6>1
          <6> QED BY <2>3, <6>2
        <5>2. ASSUME NEW k \in 1 .. L PROVE fwd[k] <= fwd[L]
          <6>1. k = L \/ k < L
            BY <1>0
          <6>2. fwd[k] \in Nat /\ fwd[L] \in Nat
            BY <1>4, <1>5, <4>1
          <6> QED BY <1>5, <4>1, <6>1, <6>2
        <5> QED BY <2>5, <5>1, <5>2
      <4> HIDE DEF T
      <4>4. fwd[L] \in Nat
        BY <1>4, <1>5, <4>1
      <4>5. UpTo(G, fwd[L]) = Cardinality(T)
        BY <1>4, <4>3, <4>4, UpToIs
      <4> QED BY <4>2, <4>5
    <3> QED BY <3>1, <3>2
  <2> HIDE DEF T, s
  <2>8. UpTo(G, s) = L + 1
    BY <1>4, <2>4, <2>5, <2>6, <2>7, UpToNext
  <2>9. L + 1 \in 1 .. Cardinality(G)
    <3>1. G \cap (0 .. s) \in SUBSET G
      OBVIOUS
    <3>2. UpTo(G, s) <= Cardinality(G)
      BY <1>4, <3>1, FS_Subset DEF UpTo
    <3> QED BY <1>0, <1>4, <2>8, <3>2
  <2>10. Nth(G, L + 1) = s
    BY <1>4, <2>4, <2>8, NthIs
  <2>11. Len(Submitted) = Cardinality(G) /\ Submitted[L + 1] = s
    BY <1>4, <2>9, <2>10 DEF Submitted, G
  <2>12. /\ Len(fwd') = L + 1 /\ fwd'[L + 1] = s
         /\ \A k \in 1 .. L : fwd'[k] = fwd[k]
    BY <1>0, <2>1, <2>4 DEF L
  <2>13. \A k \in 1 .. L + 1 : fwd'[k] \in G /\ UpTo(G, fwd'[k]) = k
    <3> SUFFICES ASSUME NEW k \in 1 .. L + 1
                 PROVE  fwd'[k] \in G /\ UpTo(G, fwd'[k]) = k
      OBVIOUS
    <3>1. k = L + 1 \/ k \in 1 .. L
      BY <1>0
    <3> QED BY <1>5, <2>4, <2>8, <2>12, <3>1
  <2>14. InTurn'
    BY <1>2, <2>12, <2>13 DEF InTurn
  <2>15. Through'
    <3> SUFFICES ASSUME NEW i \in G, i <= s
                 PROVE  \E k \in 1 .. L + 1 : fwd'[k] = i
      BY <1>1, <1>2, <2>12 DEF Through, s
    <3>1. i = s \/ i <= packetCount
      BY <1>0, <1>4 DEF s
    <3>2. CASE i = s
      BY <1>0, <2>12, <3>2
    <3>3. CASE i <= packetCount
      <4>1. PICK k \in 1 .. L : fwd[k] = i
        BY <2>3, <3>3
      <4>2. k \in 1 .. L + 1
        BY <1>0
      <4> QED BY <2>12, <4>1, <4>2
    <3> QED BY <3>1, <3>2, <3>3
  <2>16. L < Len(Submitted) /\ fwd' = Append(fwd, Submitted[L + 1])
    <3>1. L < Cardinality(G)
      BY <1>0, <1>4, <2>9
    <3> QED BY <2>1, <2>11, <3>1
  <2> QED BY <1>2, <1>7, <2>14, <2>15, <2>16 DEF L
<1> QED BY <1>9, <1>10

\* A step that writes, counts and forwards nothing.
LEMMA AsideUp ==
  ASSUME UpInv, UNCHANGED <<sent, fwd, packetCount>>, Serving' => Serving,
         streams'[1].st \in {"none", "open"} => streams[1].st \in {"none", "open"}
  PROVE  /\ Ranked' /\ InTurn' /\ Through'
         /\ Submitted' = Submitted /\ fwd' = fwd
<1>1. GamePackets' = GamePackets
  BY DEF GamePackets
<1> QED BY <1>1 DEF UpInv, Ranked, InTurn, Through, Submitted

LEMMA StepUp ==
  ASSUME UpInv, [Next]_vars, MaxLogins = 1
  PROVE  /\ UpInv'
         /\ \/ Submitted' = Submitted /\ fwd' = fwd
            \/ /\ Submitted' = Append(Submitted, Len(sent) + 1) /\ fwd' = fwd
               /\ Len(sent) < MaxSend
            \/ /\ Len(fwd) < Len(Submitted) /\ Submitted' = Submitted
               /\ fwd' = Append(fwd, Submitted[Len(fwd) + 1])
<1>0. FwdInv' /\ KickInv' /\ RelInv'
  BY StepFwd, StepKickInv, StepRel DEF UpInv
<1>a. streams \in [Streams -> Stream] /\ 1 \in Streams
  BY DEF UpInv, RelInv, TypeOK, GameType, Streams
<1> SUFFICES /\ Ranked' /\ InTurn' /\ Through'
             /\ \/ Submitted' = Submitted /\ fwd' = fwd
                \/ /\ Submitted' = Append(Submitted, Len(sent) + 1) /\ fwd' = fwd
                   /\ Len(sent) < MaxSend
                \/ /\ Len(fwd) < Len(Submitted) /\ Submitted' = Submitted
                   /\ fwd' = Append(fwd, Submitted[Len(fwd) + 1])
  BY <1>0 DEF UpInv
<1>1. ASSUME NEW k \in Kinds, ClientSend(k)
      PROVE  /\ Ranked' /\ InTurn' /\ Through'
             /\ \/ Submitted' = Submitted /\ fwd' = fwd
                \/ /\ Submitted' = Append(Submitted, Len(sent) + 1) /\ fwd' = fwd
                   /\ Len(sent) < MaxSend
  <2>1. fwd' = fwd /\ Len(sent) < MaxSend
    BY <1>1 DEF ClientSend, hist
  <2> QED BY <1>1, <2>1, SendUp
<1>2. CASE HandlerPacket
  <2>1. CASE fwd' = fwd
    BY <1>2, <2>1, PacketUp
  <2>2. CASE fwd' # fwd
    BY <1>2, <2>2, PacketUp
  <2> QED BY <2>1, <2>2
<1>3. ASSUME UNCHANGED <<sent, fwd, packetCount>>, Serving' => Serving,
             streams'[1].st \in {"none", "open"} => streams[1].st \in {"none", "open"}
      PROVE  /\ Ranked' /\ InTurn' /\ Through'
             /\ Submitted' = Submitted /\ fwd' = fwd
  BY <1>3, AsideUp
<1>4. CASE Client /\ ~(\E k \in Kinds : ClientSend(k))
  <2>1. UNCHANGED <<sent, fwd, packetCount, handler, streams>>
    <3>1. \/ ClientResend \/ ClientRecv \/ ConnReset
          \/ \E m \in {"mute", "stalled", "closed"} : ClientMode(m)
      BY <1>4 DEF Client
    <3>2. CASE ClientResend
      BY <3>2 DEF ClientResend, sess, hist, handV, game
    <3>3. CASE ClientRecv
      BY <3>3 DEF ClientRecv, sess, hist, handV, game
    <3>4. CASE ConnReset
      BY <3>4 DEF ConnReset, client, sess, hist, handV, game
    <3>5. CASE \E m \in {"mute", "stalled", "closed"} : ClientMode(m)
      BY <3>5 DEF ClientMode, sess, hist, handV, game
    <3> QED BY <3>1, <3>2, <3>3, <3>4, <3>5
  <2> QED BY <1>3, <2>1 DEF Serving
<1>5. CASE Reader \/ Terminate \/ Minute \/ UNCHANGED vars
  <2>1. UNCHANGED <<sent, fwd, packetCount, handler, streams>>
    BY <1>5 DEF Reader, ReaderRead, ReaderFail, ReaderDie, Terminate, Minute,
       vars, client, sess, hist, handV, game
  <2> QED BY <1>3, <2>1 DEF Serving
<1>6. CASE Sender
  <2>1. UNCHANGED <<sent, fwd, packetCount, streams>> /\ (Serving' => Serving)
    BY <1>6 DEF Sender, SenderTake, SenderWrite, SenderStop, client, sess,
       hist, handV, game, Serving
  <2> QED BY <1>3, <2>1
<1>7. CASE HandlerEOF \/ HandlerFrame \/ HandlerTimer \/ HandlerDie
  <2>1. UNCHANGED <<sent, fwd, packetCount, streams>> /\ Serving
    BY <1>7 DEF HandlerEOF, HandlerFrame, HandlerTimer, HandlerDie, client,
       sess, game, Serving
  <2> QED BY <1>3, <2>1
<1>8. CASE HandlerExit
  <2>1. UNCHANGED <<sent, fwd, packetCount>> /\ ~Serving'
    BY <1>8 DEF HandlerExit, client, sess, hist, Serving
  <2>2. streams'[1].st \in {"none", "open"} => streams[1].st \in {"none", "open"}
    BY <1>a, <1>8 DEF HandlerExit, AfterCloseSend
  <2> QED BY <1>3, <2>1, <2>2
<1>9. CASE \E f \in Streams : Fetcher(f)
  <2>1. UNCHANGED <<sent, fwd, packetCount, handler>>
    BY <1>9 DEF Fetcher, FetchRecv, FetchEnd, FetchPut, client, sess, hist, handV
  <2>2. streams'[1].st = streams[1].st
    BY <1>a, <1>9, FetchKeepsSt
  <2> QED BY <1>3, <2>1, <2>2 DEF Serving
<1>10. CASE \E s \in Streams : Game(s)
  <2>1. UNCHANGED <<sent, fwd, packetCount, handler>>
    BY <1>10 DEF Game, GameSend, GameKick, GameEnd, client, sess, hist, handV
  <2>2. PICK s \in Streams : Game(s)
    BY <1>10
  <2>3. /\ \A r \in Streams : r # s => streams'[r] = streams[r]
        /\ streams'[s].st = streams[s].st \/ streams'[s].st = "ended"
    BY <1>a, <2>2 DEF Game, GameSend, GameKick, GameEnd, Stream
  <2>4. streams'[1].st \in {"none", "open"} => streams[1].st \in {"none", "open"}
    BY <1>a, <2>3
  <2> QED BY <1>3, <2>1, <2>4 DEF Serving
<1> QED BY <1>1, <1>2, <1>3, <1>4, <1>5, <1>6, <1>7, <1>8, <1>9, <1>10
        DEF Next, Client, Handler, Finished

LEMMA InitUp == Init => UpInv /\ Submitted = <<>> /\ fwd = <<>>
<1> SUFFICES ASSUME Init PROVE UpInv /\ Submitted = <<>> /\ fwd = <<>>
  OBVIOUS
<1>1. GamePackets = {}
  BY DEF Init, GamePackets
<1>2. Cardinality(GamePackets) = 0 /\ Len(fwd) = 0
  BY <1>1, FS_EmptySet DEF Init
<1>3. Submitted = <<>>
  BY <1>2 DEF Submitted
<1>4. Ranked /\ InTurn /\ Through
  BY <1>1, <1>2 DEF Ranked, InTurn, Through
<1>5. RelInv
  <2>1. Unopened
    BY DEF Init, Unopened, Streams
  <2> QED BY <2>1, InitType DEF Init, RelInv, StreamsReleased, DieClosed
<1> QED BY <1>3, <1>4, <1>5, InitFwd, InitKick DEF UpInv, Init

\* Towards the game server the session is a FIFO relay of the game packets of
\* its client, whatever the client repeats and whatever its protocol errors,
\* for one login.
THEOREM RelaysUpstream ==
  ASSUME MaxLogins = 1
  PROVE  Spec => RelaysUp
<1>1. Init => UpInv /\ Up!Init
  BY InitUp DEF Up!Init
<1>2. UpInv /\ [Next]_vars => UpInv'
  BY StepUp
<1>3. UpInv /\ [Next]_vars => [Up!Next]_<<Submitted, fwd>>
  <2> SUFFICES ASSUME UpInv, [Next]_vars
               PROVE  [Up!Next]_<<Submitted, fwd>>
    OBVIOUS
  <2>1. CASE Submitted' = Submitted /\ fwd' = fwd
    BY <2>1
  <2>2. CASE /\ Submitted' = Append(Submitted, Len(sent) + 1) /\ fwd' = fwd
             /\ Len(sent) < MaxSend
    <3>1. Len(sent) + 1 \in 1 .. MaxSend
      BY <2>2, BoundsAssumption DEF UpInv, RelInv, TypeOK, ClientType
    <3>2. Up!Submit(Len(sent) + 1)
      BY <2>2 DEF Up!Submit
    <3> QED BY <3>1, <3>2 DEF Up!Next
  <2>3. CASE /\ Len(fwd) < Len(Submitted) /\ Submitted' = Submitted
             /\ fwd' = Append(fwd, Submitted[Len(fwd) + 1])
    BY <2>3 DEF Up!Next, Up!Deliver
  <2> QED BY <2>1, <2>2, <2>3, StepUp
<1> QED BY <1>1, <1>2, <1>3, PTL DEF Spec, RelaysUp, Up!Spec

==============================================================================
