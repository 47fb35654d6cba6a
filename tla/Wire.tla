-------------------------------- MODULE Wire --------------------------------
(***************************************************************************)
(* One connection, byte for byte: the client of FKTools_Simulate, which    *)
(* sends a message and reads the answer before it sends the next one, the  *)
(* reader, handler and sender of the gateway, and a game server that       *)
(* answers and pushes messages of its own.  Both streams are read with     *)
(* ReadFull, piece by piece.  Sessions with several goroutines in all      *)
(* their phases are AgentSession's; here a message has its bytes.          *)
(***************************************************************************)
EXTENDS MsgDefine

CONSTANTS
    Script,     \* the messages of the client in turn: [name, table, tbls]
    GameServerMsgIDBegin,
    Secrets,    \* what DHExchange may draw
    Pushes,     \* what game logic may push: [name |-> table]
    MaxPushes

VARIABLES
    client,     \* where it is, its packet number, ciphers, secrets, and bytes read
    up, down,   \* the bytes on their way to the gateway and to the client
    reader,     \* of the gateway: the bytes read of the header or the payload
    sess,       \* Flag, Encoder, Decoder, PacketCount, Stream
    pending,    \* the message the handler sends on to the sender
    sender,     \* "running", or "panicked"
    fromAgent,  \* the stream of the game server: messages towards it
    mq,         \* and from it, up to the session's MQ
    game,       \* its call: "serving" or "ended", and the number of pushed messages
    asked, told,        \* history: the messages written by the client, and
    heardAgent, heardGame, got   \* towards it, and those that were read

vars == <<client, up, down, reader, sess, pending, sender, fromAgent, mq, game,
          asked, told, heardAgent, heardGame, got>>

None == <<"none">>

Init ==
    /\ client = [pc |-> "send", step |-> 1, seqid |-> 0, exchanged |-> FALSE,
                 encoder |-> None, decoder |-> None, s1 |-> 0, s2 |-> 0,
                 buf |-> <<>>, size |-> 0]
    /\ up = <<>> /\ down = <<>>
    /\ reader = [pc |-> "header", buf |-> <<>>, size |-> 2]
    /\ sess = [Flag |-> {}, Encoder |-> None, Decoder |-> None, PacketCount |-> 0, Stream |-> FALSE]
    /\ pending = None /\ sender = "running"
    /\ fromAgent = <<>> /\ mq = <<>> /\ game = [pc |-> "serving", pushes |-> 0]
    /\ asked = <<>> /\ told = <<>>
    /\ heardAgent = <<>> /\ heardGame = <<>> /\ got = <<>>

-----------------------------------------------------------------------------
(* Ciphers and streams. *)

\* RC4 with a key: the stream of bytes that data is combined with, and again to
\* decipher it; it goes on where the last message has ended.
NewCipher(key) == [key |-> key, at |-> 0]
Stream(c, i) == (c.key * (c.at + i + 2) + (c.at + i) ^ 2) % Base
XORKeyStream(c, data) == [i \in DOMAIN data |-> (Stream(c, i) - data[i]) % Base]
After(c, data) == [c EXCEPT !.at = @ + Len(data)]

\* A Read returns one byte or all that is there, up to what is missing.
Pieces(missing, stream) == {1, IF Len(stream) < missing THEN Len(stream) ELSE missing}
Readable(missing, stream) == missing > 0 /\ stream # <<>>

\* A message as it is compared: its name and what can be read of its table.
RECURSIVE Leaves(_)
Leaves(t) == CASE t.k = "nil" -> <<>>
               [] t.k = "Slice" -> <<Len(t.v)>> \o Concat([i \in DOMAIN t.v |-> Leaves(t.v[i])])
               [] t.k \in {"Struct", "Ptr"} -> Concat([i \in DOMAIN t.v |-> Leaves(t.v[i])])
               [] OTHER -> << <<t.k, Finite(t.k, t.v)>> >>
Said(name, t) == <<name, Leaves(t)>>

\* What a reader reads for a table of the same shape.
RECURSIVE Decode(_, _)
Decode(p, t) ==
    CASE t.k = "nil" -> [p |-> p, leaves |-> <<>>]
      [] t.k \in {"Struct", "Ptr"} ->
            FoldLeft(LAMBDA a, f : LET r == Decode(a.p, f)
                                   IN  [p |-> r.p, leaves |-> a.leaves \o r.leaves],
                     [p |-> p, leaves |-> <<>>], t.v)
      [] t.k = "Slice" ->
            LET n == Read("U16", p)
            IN  IF t.v = <<>> THEN [p |-> n, leaves |-> <<n.ret>>]
                ELSE FoldLeft(LAMBDA a, f : LET r == Decode(a.p, f)
                                            IN  [p |-> r.p, leaves |-> a.leaves \o r.leaves],
                              [p |-> n, leaves |-> <<n.ret>>], [i \in 1 .. n.ret |-> t.v[1]])
      [] OTHER -> LET r == Read(t.k, p) IN [p |-> r, leaves |-> << <<t.k, r.ret>> >>]

\* By its number, with the table that goes with it.
Shape(name) ==
    CASE name \in DOMAIN Pushes -> Pushes[name]
      [] name \in {"heart_beat_req", "heart_beat_ack", "proto_ping_req", "proto_ping_ack"} ->
            Table("S_auto_id", <<0>>)
      [] name \in {"get_seed_req", "get_seed_ack"} -> Table("S_seed_info", <<0, 0>>)
      [] name = "user_login_req" ->
            Table("S_user_login_info", [i \in DOMAIN Fields.S_user_login_info |-> <<>>])
      [] name = "user_login_succeed_ack" -> Table("S_user_snapshot", <<0>>)
      [] OTHER -> NoTable

Heard(b, r) ==
    IF RCode(b) = {} THEN <<"unknown", b>>
    ELSE LET name == CHOOSE n \in RCode(b) : TRUE
         IN  <<name, Decode(r, Shape(name)).leaves>>

-----------------------------------------------------------------------------
(* The client: send_proto, and what main does with the answer. *)

Current == Script[client.step]

send_proto(name, tbl, c) ==
    LET payload == Func_Pack(Code[name], tbl)
        plain   == WriteUint(c.seqid + 1, 4) \o payload
        data    == IF c.exchanged THEN XORKeyStream(c.encoder, plain) ELSE plain
    IN  /\ up' = up \o WriteUint(Len(payload) + 4, 2) \o data
        /\ client' = [c EXCEPT !.pc = "header", !.size = 2, !.seqid = @ + 1,
                               !.encoder = IF c.exchanged THEN After(@, plain) ELSE @]
        /\ asked' = Append(asked, Said(name, tbl))

ClientSeed ==
    /\ client.pc = "send" /\ Current.name = "get_seed_req"
    /\ \E s1, s2 \in Secrets :
          send_proto("get_seed_req", Table("S_seed_info", <<DHExchange(s1), DHExchange(s2)>>),
                     [client EXCEPT !.s1 = s1, !.s2 = s2])
    /\ UNCHANGED <<down, reader, sess, pending, sender, fromAgent, mq, game, told,
                   heardAgent, heardGame, got>>

ClientSend ==
    /\ client.pc = "send" /\ Current.name # "get_seed_req"
    /\ \E t \in Current.tbls : send_proto(Current.name, Table(Current.table, t), client)
    /\ UNCHANGED <<down, reader, sess, pending, sender, fromAgent, mq, game, told,
                   heardAgent, heardGame, got>>

ClientRead ==
    /\ client.pc \in {"header", "payload"}
    /\ Readable(client.size - Len(client.buf), down)
    /\ \E n \in Pieces(client.size - Len(client.buf), down) :
          /\ client' = [client EXCEPT !.buf = @ \o SubSeq(down, 1, n)]
          /\ down' = SubSeq(down, n + 1, Len(down))
    /\ UNCHANGED <<up, reader, sess, pending, sender, fromAgent, mq, game, asked, told,
                   heardAgent, heardGame, got>>

ClientHeader ==
    /\ client.pc = "header" /\ Len(client.buf) = 2
    /\ client' = [client EXCEPT !.pc = "payload", !.buf = <<>>, !.size = Number(client.buf)]
    /\ UNCHANGED <<up, down, reader, sess, pending, sender, fromAgent, mq, game, asked, told,
                   heardAgent, heardGame, got>>

\* The answer to the first message is its part of the keys.
Keyed(c, r) ==
    IF c.exchanged THEN c
    ELSE LET seed == PKT("S_seed_info", r)
         IN  [c EXCEPT !.encoder = NewCipher(DHKey(c.s1, seed.tbl[1])),
                       !.decoder = NewCipher(DHKey(c.s2, seed.tbl[2])),
                       !.exchanged = TRUE]

ClientMessage ==
    /\ client.pc = "payload" /\ Len(client.buf) = client.size
    /\ LET data == IF client.exchanged THEN XORKeyStream(client.decoder, client.buf) ELSE client.buf
           r    == Read("S16", Reader(data))
           c    == [client EXCEPT !.decoder = IF client.exchanged THEN After(@, data) ELSE @]
       IN  /\ got' = Append(got, Heard(r.ret, r))
           /\ client' = [Keyed(c, r) EXCEPT !.buf = <<>>, !.step = @ + 1,
                            !.pc = IF client.step = Len(Script) THEN "done" ELSE "send"]
    /\ UNCHANGED <<up, down, reader, sess, pending, sender, fromAgent, mq, game, asked, told,
                   heardAgent, heardGame>>

-----------------------------------------------------------------------------
(* The gateway: the reader's two ReadFulls. *)

AgentRead ==
    /\ Readable(reader.size - Len(reader.buf), up)
    /\ \E n \in Pieces(reader.size - Len(reader.buf), up) :
          /\ reader' = [reader EXCEPT !.buf = @ \o SubSeq(up, 1, n)]
          /\ up' = SubSeq(up, n + 1, Len(up))
    /\ UNCHANGED <<client, down, sess, pending, sender, fromAgent, mq, game, asked, told,
                   heardAgent, heardGame, got>>

AgentHeader ==
    /\ reader.pc = "header" /\ Len(reader.buf) = 2
    /\ reader' = [pc |-> "payload", buf |-> <<>>, size |-> Number(reader.buf)]
    /\ UNCHANGED <<client, up, down, sess, pending, sender, fromAgent, mq, game, asked, told,
                   heardAgent, heardGame, got>>

\* The handler is in its loop: not kicked out, and nothing to hand on.
Handling == "KICKED_OUT" \notin sess.Flag /\ pending = None

\* func_CreateAndSendMsgPacket: s is the session, m the message in data.
CreateAndSend(s, data, m) ==
    LET enc == "ENCRYPT" \in s.Flag
    IN  /\ pending' = IF enc THEN XORKeyStream(s.Encoder, data) ELSE data
        /\ sess' = IF enc THEN [s EXCEPT !.Encoder = After(@, data)]
                   ELSE IF "KEYEXCG" \in s.Flag
                   THEN [s EXCEPT !.Flag = (@ \ {"KEYEXCG"}) \cup {"ENCRYPT"}] ELSE s
        /\ told' = Append(told, m)

Answer(s, name, tbl) == CreateAndSend(s, Func_Pack(Code[name], tbl), Said(name, tbl))

Silent(s) == sess' = s /\ UNCHANGED <<pending, told>>

P_heart_beat_req(s, r) ==
    LET t == PKT("S_auto_id", r)
    IN  IF t.ok THEN Answer(s, "heart_beat_ack", Table("S_auto_id", t.tbl)) ELSE Silent(s)

\* What the gateway enciphers with, the client deciphers with.
Ciphers_Swapped(s, k1, k2) ==                             \* mutant
    [s EXCEPT !.Encoder = NewCipher(k1), !.Decoder = NewCipher(k2), !.Flag = @ \cup {"KEYEXCG"}]
Ciphers(s, k1, k2) ==
    [s EXCEPT !.Encoder = NewCipher(k2), !.Decoder = NewCipher(k1), !.Flag = @ \cup {"KEYEXCG"}]

P_get_seed_req(s, r) ==
    LET t == PKT("S_seed_info", r)
    IN  IF ~t.ok THEN Silent(s)
        ELSE \E x1, x2 \in Secrets :
                Answer(Ciphers(s, DHKey(x1, t.tbl[1]), DHKey(x2, t.tbl[2])), "get_seed_ack",
                       Table("S_seed_info", <<DHExchange(x1), DHExchange(x2)>>))

\* A login that finds no game server, or cannot open a stream to it, is not
\* answered.
P_user_login_req(s) ==
    \/ Silent(s)
    \/ Answer([s EXCEPT !.Stream = TRUE], "user_login_succeed_ack",
              Table("S_user_snapshot", <<1>>))

Kick(s) == Silent([s EXCEPT !.Flag = @ \cup {"KICKED_OUT"}])

\* data is the payload in the clear: packet number, message number, table.  What
\* is forwarded to a call that has ended is refused.
Dispatch(s, data) ==
    LET n == Read("U32", Reader(data))
        b == Read("S16", n)
        forwarded == b.ret > GameServerMsgIDBegin
    IN  IF n.err \/ n.ret # s.PacketCount \/ b.err \/ (forwarded /\ ~(s.Stream /\ game.pc = "serving"))
        THEN Kick(s) /\ UNCHANGED <<fromAgent, heardAgent>>
        ELSE IF forwarded
        THEN /\ fromAgent' = Append(fromAgent, SubSeq(data, 5, Len(data)))
             /\ Silent(s) /\ UNCHANGED heardAgent
        ELSE /\ heardAgent' = Append(heardAgent, Heard(b.ret, b))
             /\ CASE b.ret = Code["heart_beat_req"] -> P_heart_beat_req(s, b)
                  [] b.ret = Code["user_login_req"] -> P_user_login_req(s)
                  [] b.ret = Code["get_seed_req"]   -> P_get_seed_req(s, b)
                  [] OTHER -> Kick(s)
             /\ UNCHANGED fromAgent

HandlerPacket ==
    /\ Handling
    /\ reader.pc = "payload" /\ Len(reader.buf) = reader.size
    /\ LET s    == [sess EXCEPT !.PacketCount = @ + 1]
           enc  == "ENCRYPT" \in sess.Flag
           data == IF enc THEN XORKeyStream(s.Decoder, reader.buf) ELSE reader.buf
       IN  Dispatch([s EXCEPT !.Decoder = IF enc THEN After(@, data) ELSE @], data)
    /\ reader' = [pc |-> "header", buf |-> <<>>, size |-> 2]
    /\ UNCHANGED <<client, up, down, sender, mq, game, asked, heardGame, got>>

HandlerFrame ==
    /\ Handling /\ mq # <<>>
    /\ CreateAndSend(sess, Head(mq).data, Head(mq).said)
    /\ mq' = Tail(mq)
    /\ UNCHANGED <<client, up, down, reader, sender, fromAgent, game, asked, heardAgent, heardGame, got>>

\* The cache takes a frame of PACKET_LIMIT bytes: the slice of a longer one is
\* out of range, and the sender ends there, behind the recover of its stack.
func_EncapsulationAndSendPacket ==
    /\ sender = "running" /\ pending # None
    /\ pending' = None
    /\ IF Len(pending) + 2 <= PACKET_LIMIT + 2
       THEN down' = down \o WriteUint(Len(pending), 2) \o pending /\ UNCHANGED sender
       ELSE sender' = "panicked" /\ UNCHANGED down
    /\ UNCHANGED <<client, up, reader, sess, fromAgent, mq, game, asked, told,
                   heardAgent, heardGame, got>>

-----------------------------------------------------------------------------
(* The game server. *)

\* P_proto_ping_req; a message without a handler, or whose table cannot be read,
\* ends the call.
GameMessage ==
    /\ game.pc = "serving" /\ fromAgent # <<>>
    /\ LET r == Read("S16", Reader(Head(fromAgent)))
           t == PKT("S_auto_id", r)
       IN  /\ heardGame' = Append(heardGame, Heard(r.ret, r))
           /\ IF r.ret = Code["proto_ping_req"] /\ t.ok
              THEN /\ mq' = Append(mq, [data |-> Func_Pack(Code["proto_ping_ack"], Table("S_auto_id", t.tbl)),
                                        said |-> Said("proto_ping_ack", Table("S_auto_id", t.tbl))])
                   /\ UNCHANGED game
              ELSE game' = [game EXCEPT !.pc = "ended"] /\ UNCHANGED mq
    /\ fromAgent' = Tail(fromAgent)
    /\ UNCHANGED <<client, up, down, reader, sess, pending, sender, asked, told, heardAgent, got>>

GamePush ==
    /\ game.pc = "serving" /\ sess.Stream /\ game.pushes < MaxPushes
    /\ \E name \in DOMAIN Pushes :
          mq' = Append(mq, [data |-> Func_Pack(Code[name], Pushes[name]),
                            said |-> Said(name, Pushes[name])])
    /\ game' = [game EXCEPT !.pushes = @ + 1]
    /\ UNCHANGED <<client, up, down, reader, sess, pending, sender, fromAgent, asked, told,
                   heardAgent, heardGame, got>>

-----------------------------------------------------------------------------
Client  == ClientSeed \/ ClientSend \/ ClientRead \/ ClientHeader \/ ClientMessage
Gateway == AgentRead \/ AgentHeader \/ HandlerPacket \/ HandlerFrame \/ func_EncapsulationAndSendPacket
Game    == GameMessage \/ GamePush
Next == Client \/ Gateway \/ Game

Spec == Init /\ [][Next]_vars

-----------------------------------------------------------------------------
(* What the client wrote to the gateway and to the game server is what they  *)
(* read, message by message, and the client reads what they wrote: through   *)
(* packing, framing, enciphering, arbitrary pieces, deciphering and          *)
(* unpacking.  No message is cut short instead: the sender ends at the first *)
(* that is too long for a frame.  The client is never thrown out.            *)
ForGame(said) == Code[said[1]] > GameServerMsgIDBegin

MessagesIntact ==
    /\ IsPrefix(heardAgent, SelectSeq(asked, LAMBDA m : ~ForGame(m)))
    /\ IsPrefix(heardGame, SelectSeq(asked, ForGame))
    /\ IsPrefix(got, told)
    /\ "KICKED_OUT" \notin sess.Flag
=============================================================================
