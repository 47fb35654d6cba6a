---------------------------- MODULE GatewayProofs ----------------------------
(***************************************************************************)
(* The game server and the gateway: first the registry of the game server  *)
(* and the frames of its calls, for every number of streams, users and     *)
(* frames; then the gateway's shutdown and the streams of its sessions,    *)
(* for every number of listeners, connections and streams.                 *)
(*                                                                         *)
(* Registry: a stream removes the entry of its user whoever holds it, so   *)
(* what keeps the entry of a serving stream is that no other stream of the *)
(* user is in its Stream call: the user would be among overlapped.         *)
(*                                                                         *)
(* The composition takes steps of the game server only, or leaves it       *)
(* alone, so what is proved of the game server holds in it.                *)
(***************************************************************************)
EXTENDS Gateway, SequenceTheorems, FiniteSetTheorems, TLAPS

Calls == {"idle", "start", "loop", "leave", "close", "done"}
Active(s) == call[s] \notin {"idle", "done"}

RegistryType ==
    /\ call \in [Streams -> Calls]
    /\ uid \in [Streams -> Users \cup {0}]
    /\ records \in [Users -> Streams \cup {None}]
    /\ overlapped \subseteq Users

\* A call knows its user from the registration on, and as nobody else's.
Known ==
    \A s \in Streams : /\ uid[s] \in {0, UserOf[s]}
                       /\ call[s] \in {"idle", "start"} => uid[s] = 0

\* Two streams of a user are in their calls only if the user has overlapped.
Alone ==
    \A r, s \in Streams :
       r # s /\ Active(r) /\ Active(s) /\ UserOf[r] = UserOf[s] => UserOf[s] \in overlapped

RInv == RegistryType /\ Known /\ Alone /\ OnlineUsersRegistered

LEMMA InitRInv == Init => RInv
  BY UsersAssumption DEF Init, RInv, RegistryType, Calls, Known, Alone, Active,
     OnlineUsersRegistered, Registered

\* The steps of the streams and of func_Recv leave the registry alone.
LEMMA ElsewhereRInv ==
  ASSUME RInv, UNCHANGED <<call, uid, records, overlapped>>
  PROVE  RInv'
  BY DEF RInv, RegistryType, Known, Alone, Active, OnlineUsersRegistered, Registered

LEMMA OpenRInv == ASSUME RInv, NEW s \in Streams, Open(s) PROVE RInv'
<1>1. /\ call[s] = "idle" /\ call' = [call EXCEPT ![s] = "start"]
      /\ UNCHANGED <<uid, records>> /\ uid[s] = 0
  BY DEF Open, RInv, Known
<1>2. overlapped \subseteq overlapped' /\ overlapped' \subseteq overlapped \cup {UserOf[s]}
  BY DEF Open
<1>3. RegistryType' /\ Known'
  BY <1>1, <1>2, UsersAssumption DEF RInv, RegistryType, Calls, Known
<1>4. Alone'
  <2>1. \A r \in Streams \ {s} : Active(r) /\ UserOf[r] = UserOf[s] => UserOf[s] \in overlapped'
    BY DEF Open, Active
  <2> QED BY <1>1, <1>2, <2>1 DEF RInv, RegistryType, Alone, Active
<1>5. OnlineUsersRegistered'
  <2>1. \A r \in Streams : Registered(r)' <=> Registered(r)
    BY <1>1 DEF RInv, RegistryType, Registered
  <2> QED BY <1>1, <1>2, <2>1 DEF RInv, RegistryType, OnlineUsersRegistered
<1> QED BY <1>3, <1>4, <1>5 DEF RInv

LEMMA RegisterRInv == ASSUME RInv, NEW s \in Streams, Register(s) PROVE RInv'
<1>1. /\ call[s] = "start" /\ call' = [call EXCEPT ![s] = "loop"]
      /\ uid' = [uid EXCEPT ![s] = UserOf[s]]
      /\ records' = [records EXCEPT ![UserOf[s]] = s]
      /\ UNCHANGED overlapped /\ UserOf[s] \in Users /\ UserOf[s] # 0
  BY UsersAssumption DEF Register
<1>2. RegistryType' /\ Known' /\ Alone'
  BY <1>1, UsersAssumption DEF RInv, RegistryType, Calls, Known, Alone, Active
<1>3. \A r \in Streams \ {s} : (Registered(r)' <=> Registered(r)) /\ uid'[r] = uid[r]
  BY <1>1 DEF RInv, RegistryType, Registered
<1>4. Registered(s)' /\ uid'[s] = UserOf[s]
  BY <1>1 DEF RInv, RegistryType, Registered
<1>5. ASSUME NEW u \in Users, records'[u] # None
      PROVE  Registered(records[u])' /\ uid'[records'[u]] = u
  <2>1. CASE u = UserOf[s]
    BY <1>1, <1>4, <2>1 DEF RInv, RegistryType, Registered
  <2>2. CASE u # UserOf[s]
    <3>1. records'[u] = records[u] /\ records[u] \in Streams
      BY <1>1, <1>5, <2>2 DEF RInv, RegistryType
    <3>2. Registered(records[u]) /\ uid[records[u]] = u
      BY <1>5, <3>1 DEF RInv, OnlineUsersRegistered
    <3>3. records[u] # s
      BY <1>1, <3>2 DEF Registered
    <3> QED BY <1>3, <3>1, <3>2, <3>3 DEF Registered
  <2> QED BY <2>1, <2>2
<1>6. ASSUME NEW u \in Users, NEW r \in Streams, Registered(r)', uid'[r] = u, u \notin overlapped'
      PROVE  records'[u] = r
  <2>1. CASE r = s
    BY <1>1, <1>4, <1>6, <2>1 DEF RInv, RegistryType
  <2>2. CASE r # s
    <3>1. Registered(r) /\ uid[r] = u /\ u \notin overlapped
      BY <1>1, <1>3, <1>6, <2>2
    <3>2. UserOf[r] = u /\ Active(r) /\ Active(s)
      BY <1>1, <3>1 DEF RInv, Known, Registered, Active
    <3>3. u # UserOf[s]
      BY <2>2, <3>1, <3>2 DEF RInv, Alone
    <3> QED BY <1>1, <3>1, <3>3 DEF RInv, RegistryType, OnlineUsersRegistered
  <2> QED BY <2>1, <2>2
<1>7. OnlineUsersRegistered'
  BY <1>5, <1>6 DEF OnlineUsersRegistered
<1> QED BY <1>2, <1>7 DEF RInv

LEMMA UnregisterRInv == ASSUME RInv, NEW s \in Streams, Unregister(s) PROVE RInv'
<1>1. /\ call[s] = "leave" /\ call' = [call EXCEPT ![s] = "close"]
      /\ UNCHANGED <<uid, overlapped>>
      /\ records' = IF uid[s] \in Users THEN [records EXCEPT ![uid[s]] = None] ELSE records
  BY DEF Unregister, Removed
<1>2. RegistryType' /\ Known' /\ Alone'
  BY <1>1 DEF RInv, RegistryType, Calls, Known, Alone, Active
<1>3. \A r \in Streams \ {s} : Registered(r)' <=> Registered(r)
  BY <1>1 DEF RInv, RegistryType, Registered
<1>4. ~Registered(s)'
  BY <1>1 DEF RInv, RegistryType, Registered
<1>5. \A u \in Users : records'[u] = IF u = uid[s] THEN None ELSE records[u]
  BY <1>1 DEF RInv, RegistryType
<1>6. ASSUME NEW u \in Users, records'[u] # None
      PROVE  Registered(records[u])' /\ uid'[records'[u]] = u
  <2>1. records'[u] = records[u] /\ u # uid[s] /\ records[u] \in Streams
    BY <1>5, <1>6 DEF RInv, RegistryType
  <2>2. Registered(records[u]) /\ uid[records[u]] = u
    BY <1>6, <2>1 DEF RInv, OnlineUsersRegistered
  <2>3. records[u] # s
    BY <2>1, <2>2
  <2> QED BY <1>1, <1>3, <2>1, <2>2, <2>3 DEF Registered
<1>7. ASSUME NEW u \in Users, NEW r \in Streams, Registered(r)', uid'[r] = u, u \notin overlapped'
      PROVE  records'[u] = r
  <2>1. r # s /\ Registered(r) /\ uid[r] = u /\ u \notin overlapped
    BY <1>1, <1>3, <1>4, <1>7
  <2>2. UserOf[r] = u /\ Active(r) /\ Active(s)
    BY <1>1, <2>1 DEF RInv, Known, Registered, Active
  <2>3. u # UserOf[s]
    BY <2>1, <2>2 DEF RInv, Alone
  <2>4. u # uid[s]
    BY <2>3, UsersAssumption DEF RInv, Known
  <2> QED BY <1>5, <2>1, <2>4 DEF RInv, OnlineUsersRegistered
<1>8. OnlineUsersRegistered'
  BY <1>6, <1>7 DEF OnlineUsersRegistered
<1> QED BY <1>2, <1>8 DEF RInv

\* A call that leaves its loop keeps its entry, and one that has left it has none.
LEMMA LeaveRInv ==
  ASSUME RInv, NEW s \in Streams, UNCHANGED <<uid, records, overlapped>>,
         \/ call[s] = "start" /\ call' = [call EXCEPT ![s] = "leave"]
         \/ call[s] = "loop" /\ call' = [call EXCEPT ![s] = "leave"]
         \/ call[s] = "close" /\ call' = [call EXCEPT ![s] = "done"]
  PROVE  RInv'
<1>1. RegistryType' /\ Known' /\ Alone'
  BY DEF RInv, RegistryType, Calls, Known, Alone, Active
<1>2. \A r \in Streams : Registered(r)' <=> Registered(r)
  BY DEF RInv, RegistryType, Known, Registered
<1>3. OnlineUsersRegistered'
  BY <1>2 DEF RInv, RegistryType, OnlineUsersRegistered
<1> QED BY <1>1, <1>3 DEF RInv

\* Every entry of the registry is a serving stream of its user, and every user
\* with one serving stream at a time has an entry, for every number of both.
THEOREM Registry == Spec => []OnlineUsersRegistered
<1>1. RInv /\ [Next]_vars => RInv'
  <2> SUFFICES ASSUME RInv, [Next]_vars PROVE RInv'
    OBVIOUS
  <2>1. CASE UNCHANGED vars
    BY <2>1, ElsewhereRInv DEF vars
  <2>2. ASSUME NEW s \in Streams, AgentClose(s) \/ (\E k \in Kinds : AgentSend(s, k)) \/ func_Recv(s)
        PROVE  RInv'
    BY <2>2, ElsewhereRInv DEF AgentClose, AgentSend, func_Recv, Recv, RecvFail, RecvPut
  <2>3. ASSUME NEW s \in Streams, StreamCall(s) PROVE RInv'
    <3>1. CASE HandleFrame(s)
      BY <3>1, ElsewhereRInv, LeaveRInv DEF HandleFrame
    <3>2. CASE BadMetadata(s) \/ AgentGone(s) \/ Close(s)
      BY <3>2, LeaveRInv DEF BadMetadata, AgentGone, Close
    <3> QED BY <2>3, <3>1, <3>2, RegisterRInv, UnregisterRInv DEF StreamCall
  <2>4. CASE Finished
    BY <2>4, ElsewhereRInv DEF Finished, vars
  <2> QED BY <2>1, <2>2, <2>3, <2>4, OpenRInv DEF Next
<1>2. RInv => OnlineUsersRegistered
  BY DEF RInv
<1> QED BY <1>1, <1>2, InitRInv, PTL DEF Spec
-----------------------------------------------------------------------------
(* Frames.  The frames of a stream that have not been handled are in ch, in *)
(* the hand of func_Recv and on the stream, in this order; each step of     *)
(* func_Recv leaves them together as they are.                              *)

TInv == TypeOK /\ \A s \in Streams : call[s] = "idle" => recv[s] = "idle"

LEMMA InitTInv == Init => TInv
  BY UsersAssumption DEF Init, TInv, TypeOK

LEMMA AgentTInv ==
  ASSUME TInv, NEW s \in Streams, Open(s) \/ AgentClose(s) \/ (\E k \in Kinds : AgentSend(s, k))
  PROVE  TInv'
<1>1. CASE Open(s)
  BY <1>1, UsersAssumption DEF TInv, TypeOK, Open
<1>2. CASE AgentClose(s)
  <2>1. PICK kept \in {inFlow[s], <<>>} : inFlow' = [inFlow EXCEPT ![s] = kept]
    BY <1>2 DEF AgentClose
  <2>2. kept \in Seq(Frame)
    <3>1. inFlow[s] \in Seq(Frame) /\ <<>> \in Seq(Frame)
      BY DEF TInv, TypeOK
    <3> QED BY <2>1, <3>1
  <2>3. inFlow' \in [Streams -> Seq(Frame)] /\ eof' \in [Streams -> BOOLEAN]
    BY <1>2, <2>1, <2>2 DEF TInv, TypeOK, AgentClose
  <2> QED BY <1>2, <2>3 DEF TInv, TypeOK, AgentClose
<1>3. CASE \E k \in Kinds : AgentSend(s, k)
  <2>0. PICK k \in Kinds : AgentSend(s, k)
    BY <1>3
  <2>1. sent'[s] \in Nat /\ sent' \in [Streams -> Nat]
    BY <2>0 DEF TInv, TypeOK, AgentSend
  <2>2. [kind |-> k, n |-> sent'[s]] \in Frame
    BY <2>1 DEF Frame
  <2>3. inFlow' \in [Streams -> Seq(Frame)]
    BY <2>0, <2>2 DEF TInv, TypeOK, AgentSend
  <2> QED BY <2>0, <2>1, <2>3 DEF TInv, TypeOK, AgentSend
<1> QED BY <1>1, <1>2, <1>3

LEMMA RecvTInv == ASSUME TInv, NEW s \in Streams, func_Recv(s) PROVE TInv'
<1>1. CASE Recv(s)
  <2>1. Head(inFlow[s]) \in Frame /\ Tail(inFlow[s]) \in Seq(Frame)
    BY <1>1 DEF Recv, TInv, TypeOK
  <2>2. <<Head(inFlow[s])>> \in Seq(Frame) /\ Len(<<Head(inFlow[s])>>) = 1
    BY <2>1
  <2> QED BY <1>1, <2>1, <2>2 DEF Recv, TInv, TypeOK
<1>2. CASE RecvFail(s)
  BY <1>2 DEF RecvFail, TInv, TypeOK
<1>3. CASE RecvPut(s)
  <2>1. ch' \in [Streams -> Seq(Frame)] /\ \A r \in Streams : Len(ch'[r]) <= 1
    <3>1. hand[s] \in Seq(Frame) /\ Len(hand[s]) = 1 /\ ch \in [Streams -> Seq(Frame)]
      BY <1>3 DEF RecvPut, TInv, TypeOK
    <3>2. \A r \in Streams : Len(ch[r]) <= 1
      BY DEF TInv, TypeOK
    <3>3. ch' = [ch EXCEPT ![s] = hand[s]] \/ ch' = ch
      BY <1>3 DEF RecvPut, Handed
    <3>4. CASE ch' = [ch EXCEPT ![s] = hand[s]]
      <4>1. ch' \in [Streams -> Seq(Frame)] /\ ch'[s] = hand[s]
        BY <3>1, <3>4
      <4>2. \A r \in Streams \ {s} : ch'[r] = ch[r]
        BY <3>1, <3>4
      <4>3. Len(ch'[s]) <= 1
        <5>1. Len(hand[s]) <= 1 /\ ch'[s] = hand[s]
          BY <3>1, <4>1
        <5> QED BY <5>1, Zenon
      <4>4. \A r \in Streams : Len(ch'[r]) <= 1
        BY <3>2, <4>2, <4>3
      <4> QED BY <4>1, <4>4
    <3> QED BY <3>1, <3>2, <3>3, <3>4
  <2>2. /\ hand' \in [Streams -> Seq(Frame)] /\ Len(hand'[s]) = 0
        /\ \A r \in Streams \ {s} : hand'[r] = hand[r]
    <3>1. <<>> \in Seq(Frame) /\ Len(<<>>) = 0 /\ hand \in [Streams -> Seq(Frame)]
      BY DEF TInv, TypeOK
    <3>2. hand' = [hand EXCEPT ![s] = <<>>]
      BY <1>3 DEF RecvPut
    <3> QED BY <3>1, <3>2
  <2>3. /\ recv' = [recv EXCEPT ![s] = "recv"] /\ recv[s] = "offer"
        /\ UNCHANGED <<call, inFlow, sent, eof, uid, records, replies, overlapped>>
    BY <1>3 DEF RecvPut
  <2> QED BY <2>1, <2>2, <2>3 DEF TInv, TypeOK
<1> QED BY <1>1, <1>2, <1>3 DEF func_Recv

LEMMA CallTInv == ASSUME TInv, NEW s \in Streams, StreamCall(s) PROVE TInv'
<1>1. CASE Register(s)
  BY <1>1, UsersAssumption DEF Register, TInv, TypeOK
<1>2. CASE HandleFrame(s)
  <2>1. Head(ch[s]) \in Frame /\ Tail(ch[s]) \in Seq(Frame) /\ Len(Tail(ch[s])) <= 1
    BY <1>2 DEF HandleFrame, TInv, TypeOK
  <2>2. ch' \in [Streams -> Seq(Frame)] /\ \A r \in Streams : Len(ch'[r]) <= 1
    BY <1>2, <2>1 DEF HandleFrame, TInv, TypeOK
  <2>3. replies' \in [Streams -> Seq(Nat)]
    <3>1. Append(replies[s], Head(ch[s]).n) \in Seq(Nat)
      BY <2>1 DEF Frame, TInv, TypeOK
    <3>2. replies' \in {replies, [replies EXCEPT ![s] = Append(@, Head(ch[s]).n)]}
      BY <1>2 DEF HandleFrame
    <3> QED BY <3>1, <3>2 DEF TInv, TypeOK
  <2>4. call' \in {call, [call EXCEPT ![s] = "leave"]} /\ call[s] = "loop"
    BY <1>2 DEF HandleFrame
  <2>5. UNCHANGED <<recv, inFlow, sent, eof, hand, uid, records, overlapped>>
    BY <1>2 DEF HandleFrame
  <2> QED BY <2>2, <2>3, <2>4, <2>5 DEF TInv, TypeOK
<1>3. CASE BadMetadata(s) \/ AgentGone(s) \/ Close(s)
  BY <1>3 DEF BadMetadata, AgentGone, Close, TInv, TypeOK
<1>4. CASE Unregister(s)
  <2>1. records' \in [Users -> Streams \cup {None}]
    BY <1>4 DEF Unregister, Removed, TInv, TypeOK
  <2> QED BY <1>4, <2>1 DEF Unregister, TInv, TypeOK
<1> QED BY <1>1, <1>2, <1>3, <1>4 DEF StreamCall

LEMMA StutterTInv == ASSUME TInv, UNCHANGED vars PROVE TInv'
  BY DEF TInv, TypeOK, vars

LEMMA NextTInv == TInv /\ [Next]_vars => TInv'
  BY AgentTInv, RecvTInv, CallTInv, StutterTInv DEF Next, Finished

\* Types of the calls, for every number of streams and frames; ch_agent never
\* holds two frames, and a goroutine holds a frame exactly while it offers it.
THEOREM TypeCorrect == Spec => []TypeOK
<1>1. TInv => TypeOK
  BY DEF TInv
<1> QED BY <1>1, InitTInv, NextTInv, PTL DEF Spec

Way(s) == ch[s] \o hand[s] \o inFlow[s]

\* The way holds the last frames sent, and the answers are older.
KeptAt(way, n, answers) ==
    /\ Len(way) <= n
    /\ \A i \in 1 .. Len(way) : way[i].n = n - Len(way) + i
    /\ \A i \in 1 .. Len(answers) : answers[i] <= n - Len(way)
    /\ \A i, j \in 1 .. Len(answers) : i < j => answers[i] < answers[j]

Kept(s) == KeptAt(Way(s), sent[s], replies[s])

\* Before and while it is served; a call that leaves drops its frames.
Serves(s) == call[s] \in {"idle", "start", "loop"} /\ ~eof[s]

KInv == TInv /\ \A s \in Streams : Serves(s) => Kept(s)

LEMMA WayType ==
  ASSUME TInv, NEW s \in Streams
  PROVE  Way(s) \in Seq(Frame) /\ sent[s] \in Nat /\ replies[s] \in Seq(Nat)
  BY DEF TInv, TypeOK, Way

\* One more frame is sent, and one is taken off the way, answered or not.
LEMMA KeptAppend ==
  ASSUME NEW q \in Seq(Frame), NEW n \in Nat, NEW a \in Seq(Nat), KeptAt(q, n, a),
         NEW f \in Frame, f.n = n + 1
  PROVE  KeptAt(Append(q, f), n + 1, a)
<1>1. Len(Append(q, f)) = Len(q) + 1 /\ Len(q) \in Nat
  OBVIOUS
<1>2. ASSUME NEW i \in 1 .. Len(Append(q, f)) PROVE Append(q, f)[i].n = n - Len(q) + i
  <2>1. CASE i = Len(q) + 1
    BY <2>1
  <2>2. CASE i # Len(q) + 1
    <3>1. i \in 1 .. Len(q)
      BY <1>1, <2>2
    <3>2. Append(q, f)[i] = q[i]
      BY <3>1
    <3> QED BY <3>1, <3>2 DEF KeptAt
  <2> QED BY <2>1, <2>2
<1>3. ASSUME NEW i \in 1 .. Len(a) PROVE a[i] <= n + 1 - Len(Append(q, f))
  <2>1. a[i] <= n - Len(q)
    BY DEF KeptAt
  <2> QED BY <1>1, <2>1
<1>4. \A i, j \in 1 .. Len(a) : i < j => a[i] < a[j]
  BY DEF KeptAt
<1>5. Len(q) <= n
  BY DEF KeptAt
<1>6. \A i \in 1 .. Len(Append(q, f)) : Append(q, f)[i].n = n + 1 - Len(Append(q, f)) + i
  BY <1>1, <1>2
<1> QED BY <1>1, <1>3, <1>4, <1>5, <1>6 DEF KeptAt

LEMMA KeptTail ==
  ASSUME NEW q \in Seq(Frame), q # <<>>, NEW n \in Nat, NEW a \in Seq(Nat), KeptAt(q, n, a)
  PROVE  KeptAt(Tail(q), n, a) /\ KeptAt(Tail(q), n, Append(a, Head(q).n))
<1>1. /\ Len(Tail(q)) = Len(q) - 1 /\ Len(q) \in Nat /\ Len(q) > 0
      /\ Head(q) = q[1] /\ \A i \in 1 .. Len(Tail(q)) : Tail(q)[i] = q[i + 1]
  OBVIOUS
<1>2. Head(q).n = n - Len(q) + 1 /\ Head(q).n \in Nat
  <2>1. 1 \in 1 .. Len(q) /\ Head(q) \in Frame
    BY <1>1
  <2> QED BY <1>1, <2>1 DEF KeptAt, Frame
<1>3. \A i \in 1 .. Len(Tail(q)) : Tail(q)[i].n = n - Len(Tail(q)) + i
  <2> SUFFICES ASSUME NEW i \in 1 .. Len(Tail(q)) PROVE Tail(q)[i].n = n - Len(Tail(q)) + i
    OBVIOUS
  <2>1. i + 1 \in 1 .. Len(q) /\ Tail(q)[i] = q[i + 1]
    BY <1>1
  <2>2. q[i + 1].n = n - Len(q) + (i + 1)
    BY <2>1 DEF KeptAt
  <2> QED BY <1>1, <2>1, <2>2
<1>4. \A i \in 1 .. Len(a) : a[i] \in Nat /\ a[i] <= n - Len(q) /\ a[i] <= n - Len(Tail(q))
  <2> SUFFICES ASSUME NEW i \in 1 .. Len(a)
               PROVE  a[i] \in Nat /\ a[i] <= n - Len(q) /\ a[i] <= n - Len(Tail(q))
    OBVIOUS
  <2>1. a[i] \in Nat
    OBVIOUS
  <2>2. a[i] <= n - Len(q)
    BY DEF KeptAt
  <2> QED BY <1>1, <2>1, <2>2
<1>5. KeptAt(Tail(q), n, a)
  <2>1. Len(q) <= n /\ \A i, j \in 1 .. Len(a) : i < j => a[i] < a[j]
    BY DEF KeptAt
  <2> QED BY <1>1, <1>3, <1>4, <2>1 DEF KeptAt
<1>6. KeptAt(Tail(q), n, Append(a, Head(q).n))
  <2> DEFINE b == Append(a, Head(q).n)
  <2>1. /\ Len(b) = Len(a) + 1 /\ Len(a) \in Nat /\ b[Len(a) + 1] = Head(q).n
        /\ \A i \in 1 .. Len(a) : b[i] = a[i]
    BY <1>2
  <2>2. \A i \in 1 .. Len(b) : b[i] <= n - Len(Tail(q))
    <3> HIDE DEF b
    <3> SUFFICES ASSUME NEW i \in 1 .. Len(b) PROVE b[i] <= n - Len(Tail(q))
      OBVIOUS
    <3>1. CASE i = Len(a) + 1
      BY <1>1, <1>2, <2>1, <3>1
    <3>2. CASE i \in 1 .. Len(a)
      BY <1>4, <2>1, <3>2
    <3> QED BY <2>1, <3>1, <3>2
  <2>3. \A i, j \in 1 .. Len(b) : i < j => b[i] < b[j]
    <3> HIDE DEF b
    <3> SUFFICES ASSUME NEW i \in 1 .. Len(b), NEW j \in 1 .. Len(b), i < j PROVE b[i] < b[j]
      OBVIOUS
    <3>1. i \in 1 .. Len(a) /\ b[i] = a[i]
      BY <2>1
    <3>2. CASE j = Len(a) + 1
      BY <1>1, <1>2, <1>4, <2>1, <3>1, <3>2
    <3>3. CASE j \in 1 .. Len(a)
      <4>1. a[i] < a[j]
        BY <3>1, <3>3 DEF KeptAt
      <4> QED BY <2>1, <3>1, <3>3, <4>1
    <3> QED BY <2>1, <3>2, <3>3
  <2>4. Len(q) <= n
    BY DEF KeptAt
  <2> HIDE DEF b
  <2>5. Len(Tail(q)) <= n
    BY <1>1, <2>4
  <2>6. KeptAt(Tail(q), n, b)
    BY <1>3, <2>2, <2>3, <2>5, Zenon DEF KeptAt
  <2> QED BY <2>6 DEF b
<1> QED BY <1>5, <1>6

LEMMA InitKInv == Init => KInv
<1> SUFFICES ASSUME Init PROVE KInv
  OBVIOUS
<1>1. ASSUME NEW s \in Streams PROVE Kept(s)
  <2>1. Way(s) = <<>> /\ sent[s] = 0 /\ replies[s] = <<>>
    BY DEF Init, Way
  <2> QED BY <2>1 DEF Kept, KeptAt
<1> QED BY <1>1, InitTInv DEF KInv

\* func_Recv takes the first frame off the stream: <<Head(q)>> \o Tail(q) is q.
LEMMA TakeHead ==
  ASSUME NEW c \in Seq(Frame), NEW q \in Seq(Frame), q # <<>>
  PROVE  (c \o <<Head(q)>>) \o Tail(q) = (c \o <<>>) \o q
<1>1. Head(q) \in Frame /\ Tail(q) \in Seq(Frame) /\ <<Head(q)>> \in Seq(Frame)
  OBVIOUS
<1>2. <<Head(q)>> \o Tail(q) = q
  <2> DEFINE h == <<Head(q)>>  w == h \o Tail(q)
  <2>1. Len(h) = 1 /\ h[1] = q[1] /\ Len(q) \in Nat /\ Len(q) > 0
    OBVIOUS
  <2>2. /\ Len(Tail(q)) = Len(q) - 1
        /\ \A i \in 1 .. Len(Tail(q)) : Tail(q)[i] = q[i + 1]
    BY HeadTailProperties
  <2>3. /\ w \in Seq(Frame) /\ Len(w) = Len(h) + Len(Tail(q))
        /\ \A i \in 1 .. Len(h) + Len(Tail(q)) :
              w[i] = IF i <= Len(h) THEN h[i] ELSE Tail(q)[i - Len(h)]
    BY <1>1, ConcatProperties
  <2> HIDE DEF h, w
  <2>4. Len(w) = Len(q)
    BY <2>1, <2>2, <2>3
  <2>5. ASSUME NEW i \in 1 .. Len(q) PROVE w[i] = q[i]
    <3>1. CASE i = 1
      BY <2>1, <2>2, <2>3, <3>1
    <3>2. CASE i # 1
      <4>1. i - 1 \in 1 .. Len(Tail(q)) /\ ~(i <= Len(h)) /\ i \in 1 .. Len(h) + Len(Tail(q))
        BY <2>1, <2>2, <3>2
      <4>2. w[i] = Tail(q)[i - 1]
        BY <2>1, <2>3, <4>1
      <4>3. Tail(q)[i - 1] = q[(i - 1) + 1] /\ (i - 1) + 1 = i
        BY <2>2, <4>1
      <4> QED BY <4>2, <4>3, Zenon
    <3> QED BY <3>1, <3>2
  <2>6. w = q
    BY <2>3, <2>4, <2>5, SeqEqual
  <2> QED BY <2>6 DEF w, h
<1>3. (c \o <<Head(q)>>) \o Tail(q) = c \o (<<Head(q)>> \o Tail(q)) /\ c \o <<>> = c
  BY <1>1, ConcatAssociative, ConcatEmptySeq
<1> QED BY <1>2, <1>3

\* A frame at the end of the stream is at the end of the way; the first frame
\* of ch_agent is the first of the way.
LEMMA WayAppend ==
  ASSUME NEW c \in Seq(Frame), NEW h \in Seq(Frame), NEW q \in Seq(Frame), NEW f \in Frame
  PROVE  (c \o h) \o Append(q, f) = Append((c \o h) \o q, f)
<1>1. c \o h \in Seq(Frame) /\ (c \o h) \o q \in Seq(Frame) /\ <<f>> \in Seq(Frame)
  BY ConcatProperties
<1>2. Append(q, f) = q \o <<f>> /\ Append((c \o h) \o q, f) = ((c \o h) \o q) \o <<f>>
  BY <1>1, AppendIsConcat
<1>3. ((c \o h) \o q) \o <<f>> = (c \o h) \o (q \o <<f>>)
  BY <1>1, ConcatAssociative
<1> QED BY <1>2, <1>3

LEMMA WayTail ==
  ASSUME NEW c \in Seq(Frame), NEW h \in Seq(Frame), NEW q \in Seq(Frame), c # <<>>, Len(c) <= 1
  PROVE  /\ (c \o h) \o q # <<>> /\ Head((c \o h) \o q) = Head(c)
         /\ (Tail(c) \o h) \o q = Tail((c \o h) \o q)
<1> DEFINE r == h \o q  w == c \o r
<1>1. /\ r \in Seq(Frame) /\ Len(r) \in Nat /\ Len(c) = 1 /\ Tail(c) = <<>>
      /\ Head(c) = c[1] /\ Tail(c) \o h = h
  <2>1. Len(c) = 1 /\ Head(c) = c[1] /\ r \in Seq(Frame)
    <3>1. r \in Seq(Frame)
      BY ConcatProperties
    <3>2. Len(c) \in Nat \ {0}
      BY EmptySeq
    <3>3. \A m \in Nat \ {0} : m <= 1 => m = 1
      OBVIOUS
    <3>4. Len(c) = 1
      BY <3>2, <3>3
    <3> QED BY <3>1, <3>4
  <2>2. Tail(c) \in Seq(Frame) /\ Len(Tail(c)) = 0
    BY <2>1, HeadTailProperties
  <2>3. Tail(c) = <<>>
    BY <2>2, EmptySeq
  <2> HIDE DEF r
  <2> QED BY <2>1, <2>3, ConcatEmptySeq, LenProperties
<1>2. /\ w \in Seq(Frame) /\ Len(w) = Len(c) + Len(r)
      /\ \A i \in 1 .. Len(c) + Len(r) : w[i] = IF i <= Len(c) THEN c[i] ELSE r[i - Len(c)]
  BY <1>1, ConcatProperties
<1>3. w = (c \o h) \o q
  BY ConcatAssociative
<1> HIDE DEF r, w
<1>4. w # <<>> /\ Head(w) = w[1] /\ w[1] = c[1]
  BY <1>1, <1>2
<1>5. /\ Tail(w) \in Seq(Frame) /\ Len(Tail(w)) = Len(w) - 1
      /\ \A i \in 1 .. Len(Tail(w)) : Tail(w)[i] = w[i + 1]
  BY <1>2, <1>4, HeadTailProperties
<1>6. ASSUME NEW i \in 1 .. Len(r) PROVE Tail(w)[i] = r[i]
  <2>1. i \in 1 .. Len(Tail(w)) /\ i + 1 \in 1 .. Len(c) + Len(r) /\ ~(i + 1 <= Len(c))
    BY <1>1, <1>2, <1>5
  <2>2. w[i + 1] = r[(i + 1) - Len(c)]
    BY <1>2, <2>1
  <2> QED BY <1>1, <1>5, <2>1, <2>2
<1>7. Len(Tail(w)) = Len(r)
  BY <1>1, <1>2, <1>5
<1>8. Tail(w) = r
  BY <1>1, <1>5, <1>6, <1>7, SeqEqual
<1> QED BY <1>1, <1>3, <1>4, <1>8 DEF r

-----------------------------------------------------------------------------
\* A step of one stream keeps the frames of the others.
LEMMA StepKInv ==
  ASSUME KInv, TInv', NEW s \in Streams,
         \A r \in Streams \ {s} :
            /\ call'[r] = call[r] /\ eof'[r] = eof[r] /\ sent'[r] = sent[r] /\ ch'[r] = ch[r]
            /\ hand'[r] = hand[r] /\ inFlow'[r] = inFlow[r] /\ replies'[r] = replies[r],
         Serves(s)' => Kept(s)'
  PROVE  KInv'
<1>1. ASSUME NEW r \in Streams \ {s}, Serves(r)' PROVE Kept(r)'
  <2>1. Kept(r) /\ Way(r)' = Way(r)
    BY <1>1 DEF KInv, Serves, Way
  <2> QED BY <2>1 DEF Kept
<1> QED BY <1>1 DEF KInv

LEMMA SameKInv ==
  ASSUME KInv, TInv', NEW s \in Streams, UNCHANGED <<inFlow, sent, eof, hand, ch, replies>>,
         \E c \in Calls : call' = [call EXCEPT ![s] = c] /\ (c \in {"idle", "start", "loop"} => Serves(s) \/ eof[s])
  PROVE  KInv'
<1>1. PICK c \in Calls : call' = [call EXCEPT ![s] = c] /\ (c \in {"idle", "start", "loop"} => Serves(s) \/ eof[s])
  OBVIOUS
<1>2. call \in [Streams -> Calls]
  BY DEF KInv, TInv, TypeOK, Calls
<1>3. Serves(s)' => Kept(s)'
  <2> SUFFICES ASSUME Serves(s)' PROVE Kept(s)'
    OBVIOUS
  <2>1. Serves(s)
    BY <1>1, <1>2 DEF Serves
  <2>2. Kept(s) /\ Way(s)' = Way(s)
    BY <2>1 DEF KInv, Way
  <2> QED BY <2>2 DEF Kept
<1>4. \A r \in Streams \ {s} : call'[r] = call[r]
  BY <1>1, <1>2
<1> QED BY <1>3, <1>4, StepKInv

LEMMA AgentSendKInv ==
  ASSUME KInv, TInv', NEW s \in Streams, NEW k \in Kinds, AgentSend(s, k) PROVE KInv'
<1>0. TInv /\ ch[s] \in Seq(Frame) /\ hand[s] \in Seq(Frame) /\ inFlow[s] \in Seq(Frame)
  BY DEF KInv, TInv, TypeOK
<1>1. sent[s] \in Nat /\ sent' = [sent EXCEPT ![s] = sent[s] + 1] /\ sent'[s] = sent[s] + 1
  BY DEF AgentSend, KInv, TInv, TypeOK
<1>2. PICK f \in Frame : f.n = sent[s] + 1 /\ inFlow' = [inFlow EXCEPT ![s] = Append(inFlow[s], f)]
  <2> DEFINE g == [kind |-> k, n |-> sent'[s]]
  <2>1. g \in Frame /\ g.n = sent[s] + 1
    BY <1>1 DEF Frame
  <2> QED BY <2>1 DEF AgentSend
<1>3. inFlow'[s] = Append(inFlow[s], f) /\ \A r \in Streams \ {s} : inFlow'[r] = inFlow[r] /\ sent'[r] = sent[r]
  BY <1>1, <1>2 DEF KInv, TInv, TypeOK
<1>4. UNCHANGED <<call, eof, hand, ch, replies>>
  BY DEF AgentSend
<1>5. Way(s)' = Append(Way(s), f)
  <2>1. (ch[s] \o hand[s]) \o Append(inFlow[s], f) = Append((ch[s] \o hand[s]) \o inFlow[s], f)
    BY <1>0, WayAppend
  <2>2. Way(s)' = (ch[s] \o hand[s]) \o Append(inFlow[s], f)
    BY <1>3, <1>4, Zenon DEF Way
  <2> QED BY <2>1, <2>2, Zenon DEF Way
<1>6. Serves(s)' => Kept(s)'
  <2>1. ASSUME Serves(s) PROVE KeptAt(Append(Way(s), f), sent[s] + 1, replies[s])
    BY <1>0, <1>2, <2>1, WayType, KeptAppend DEF KInv, Kept
  <2>2. Serves(s)' => Serves(s)
    BY <1>4 DEF Serves
  <2> QED BY <1>1, <1>4, <1>5, <2>1, <2>2 DEF Kept
<1> QED BY <1>3, <1>4, <1>6, StepKInv

\* After the stream is closed nothing is claimed of it.
LEMMA AgentCloseKInv == ASSUME KInv, TInv', NEW s \in Streams, AgentClose(s) PROVE KInv'
<1>1. ~Serves(s)'
  BY DEF AgentClose, Serves, KInv, TInv, TypeOK
<1>2. PICK kept \in {inFlow[s], <<>>} : inFlow' = [inFlow EXCEPT ![s] = kept]
  BY DEF AgentClose
<1>3. /\ UNCHANGED <<call, sent, hand, ch, replies>>
      /\ \A r \in Streams \ {s} : inFlow'[r] = inFlow[r] /\ eof'[r] = eof[r]
  BY <1>2 DEF AgentClose, KInv, TInv, TypeOK
<1> QED BY <1>1, <1>3, StepKInv

LEMMA RecvKInv == ASSUME KInv, TInv', NEW s \in Streams, Recv(s) PROVE KInv'
<1>1. ch[s] \in Seq(Frame) /\ inFlow[s] \in Seq(Frame) /\ inFlow[s] # <<>>
  BY DEF Recv, KInv, TInv, TypeOK
<1>2. hand[s] = <<>>
  <2>1. hand[s] \in Seq(Frame) /\ Len(hand[s]) = 0
    BY DEF Recv, KInv, TInv, TypeOK
  <2> QED BY <2>1, EmptySeq
<1>3. /\ hand'[s] = <<Head(inFlow[s])>> /\ inFlow'[s] = Tail(inFlow[s])
      /\ \A r \in Streams \ {s} : hand'[r] = hand[r] /\ inFlow'[r] = inFlow[r]
      /\ UNCHANGED <<call, sent, eof, ch, replies>>
  BY DEF Recv, KInv, TInv, TypeOK
<1>4. Way(s)' = Way(s)
  BY <1>1, <1>2, <1>3, TakeHead DEF Way
<1>5. Serves(s)' => Kept(s)'
  BY <1>3, <1>4 DEF KInv, Kept, Serves
<1> QED BY <1>3, <1>5, StepKInv

LEMMA RecvPutKInv == ASSUME KInv, TInv', NEW s \in Streams, RecvPut(s) PROVE KInv'
<1>1. hand[s] \in Seq(Frame) /\ inFlow[s] \in Seq(Frame) /\ ch[s] \in Seq(Frame)
  BY DEF KInv, TInv, TypeOK
<1>2. /\ hand'[s] = <<>> /\ \A r \in Streams \ {s} : hand'[r] = hand[r] /\ ch'[r] = ch[r]
      /\ UNCHANGED <<call, inFlow, sent, eof, replies>>
  BY DEF RecvPut, Handed, KInv, TInv, TypeOK
<1>3. ASSUME Serves(s)' PROVE Kept(s)'
  <2>1. Serves(s) /\ ~DieClosed(s)
    BY <1>2, <1>3 DEF Serves, DieClosed
  <2>2. Len(ch[s]) = 0 /\ ch'[s] = hand[s]
    BY <2>1 DEF RecvPut, Handed, KInv, TInv, TypeOK
  <2>3. ch[s] = <<>>
    BY <1>1, <2>2, EmptySeq
  <2>4. hand[s] \o <<>> = hand[s] /\ <<>> \o hand[s] = hand[s]
    BY <1>1, ConcatEmptySeq
  <2>5. Way(s)' = Way(s)
    BY <1>2, <2>2, <2>3, <2>4, Zenon DEF Way
  <2> QED BY <1>2, <2>1, <2>5 DEF KInv, Kept
<1> QED BY <1>2, <1>3, StepKInv

LEMMA HandleFrameKInv == ASSUME KInv, TInv', NEW s \in Streams, HandleFrame(s) PROVE KInv'
<1>1. /\ hand[s] \in Seq(Frame) /\ inFlow[s] \in Seq(Frame) /\ ch[s] \in Seq(Frame)
      /\ ch[s] # <<>> /\ Len(ch[s]) <= 1 /\ TInv
  BY DEF HandleFrame, KInv, TInv, TypeOK
<1>2. /\ ch'[s] = Tail(ch[s]) /\ \A r \in Streams \ {s} : ch'[r] = ch[r]
      /\ UNCHANGED <<inFlow, sent, eof, hand>> /\ call[s] = "loop"
  BY DEF HandleFrame, KInv, TInv, TypeOK
<1>3. /\ \A r \in Streams \ {s} : call'[r] = call[r] /\ replies'[r] = replies[r]
      /\ \/ call'[s] = "leave"
         \/ call'[s] = "loop" /\ replies'[s] = Append(replies[s], Head(ch[s]).n)
         \/ call'[s] = "loop" /\ replies'[s] = replies[s]
  BY DEF HandleFrame, KInv, TInv, TypeOK
<1>4. Way(s) # <<>> /\ Head(Way(s)) = Head(ch[s]) /\ Way(s)' = Tail(Way(s))
  <2> DEFINE way == (ch[s] \o hand[s]) \o inFlow[s]
  <2>1. way # <<>> /\ Head(way) = Head(ch[s]) /\ (Tail(ch[s]) \o hand[s]) \o inFlow[s] = Tail(way)
    BY <1>1, WayTail
  <2>2. Way(s) = way
    BY DEF Way
  <2>3. Way(s)' = (Tail(ch[s]) \o hand[s]) \o inFlow[s]
    BY <1>2, Zenon DEF Way
  <2> QED BY <2>1, <2>2, <2>3, Zenon
<1>5. ASSUME Serves(s)' PROVE Kept(s)'
  <2>1. Serves(s) /\ call'[s] = "loop"
    BY <1>2, <1>3, <1>5 DEF Serves
  <2>2. /\ KeptAt(Tail(Way(s)), sent[s], replies[s])
        /\ KeptAt(Tail(Way(s)), sent[s], Append(replies[s], Head(Way(s)).n))
    BY <1>1, <1>4, <2>1, WayType, KeptTail DEF KInv, Kept
  <2> QED BY <1>2, <1>3, <1>4, <2>1, <2>2 DEF Kept
<1> QED BY <1>2, <1>3, <1>5, StepKInv

LEMMA NextKInv == KInv /\ [Next]_vars => KInv'
<1> SUFFICES ASSUME KInv, [Next]_vars PROVE KInv'
  OBVIOUS
<1>1. TInv'
  BY NextTInv DEF KInv
<1>2. CASE UNCHANGED vars
  BY <1>1, <1>2 DEF vars, KInv, Serves, Kept, Way
<1>3. ASSUME NEW s \in Streams,
             Open(s) \/ Register(s) \/ BadMetadata(s) \/ AgentGone(s) \/ Unregister(s) \/ Close(s)
      PROVE  KInv'
  BY <1>1, <1>3, SameKInv
     DEF Open, Register, BadMetadata, AgentGone, Unregister, Close, Serves, Calls
<1>4. ASSUME NEW s \in Streams, RecvFail(s) PROVE KInv'
  BY <1>1, <1>4 DEF RecvFail, KInv, Serves, Kept, Way
<1> QED BY <1>1, <1>2, <1>3, <1>4, AgentSendKInv, AgentCloseKInv, RecvKInv, RecvPutKInv,
           HandleFrameKInv DEF Next, StreamCall, func_Recv, Finished

LEMMA KInvFrames == KInv => FramesKept
<1> SUFFICES ASSUME KInv, NEW s \in Streams, call[s] = "loop", ~eof[s]
             PROVE  LET way == NumbersOf(Way(s))
                        gone == sent[s] - Len(way)
                    IN  /\ way = [i \in 1 .. Len(way) |-> gone + i]
                        /\ \A i \in 1 .. Len(replies[s]) : replies[s][i] <= gone
                        /\ \A i, j \in 1 .. Len(replies[s]) :
                              i < j => replies[s][i] < replies[s][j]
  BY DEF FramesKept, Way
<1>1. Way(s) \in Seq(Frame) /\ Kept(s)
  BY WayType DEF KInv, Serves
<1>2. Len(NumbersOf(Way(s))) = Len(Way(s))
  BY <1>1 DEF NumbersOf
<1>3. NumbersOf(Way(s)) = [i \in 1 .. Len(Way(s)) |-> sent[s] - Len(Way(s)) + i]
  BY <1>1 DEF NumbersOf, Kept, KeptAt
<1> QED BY <1>1, <1>2, <1>3 DEF Kept, KeptAt

\* No frame of a served stream is lost or passes another, for every number of
\* streams and frames.
THEOREM Frames == Spec => []FramesKept
<1>1. Init => KInv
  BY InitKInv
<1> QED BY <1>1, NextKInv, KInvFrames, PTL DEF Spec
-----------------------------------------------------------------------------
(* The composition with the gateway. *)

\* Every behaviour of the composition is one of the game server: its registry
\* and its frames are as they are proved to be there.
THEOREM ServesAlike == GatewaySpec => []OnlineUsersRegistered /\ []FramesKept
<1>1. GatewayInit => Init
  BY DEF GatewayInit
<1>2. [GatewayNext]_gatewayVars => [Next]_vars
  BY DEF GatewayNext, gatewayVars, vars
<1>3. GatewaySpec => Spec
  BY <1>1, <1>2, PTL DEF GatewaySpec, Spec
<1> QED BY <1>3, Registry, Frames, PTL

-----------------------------------------------------------------------------
ProcessType ==
    /\ listener \in [Listeners -> {"accept", "check", "closed"}]
    /\ conn \in [Conns -> {"away", "backlog", "spawned", "serving", "done"}]
    /\ signal \in {"idle", "waiting", "exited"}
    /\ late \subseteq Conns

\* The instance counts with the same Cardinality.
LEMMA SameCardinality == \A S : Process!Cardinality(S) = Cardinality(S)
  BY DEF Process!Cardinality, Cardinality

Accepting == {l \in Listeners : listener[l] = "accept"}

\* A listener that has accepted after the signal does not accept again.
LateOnce ==
    /\ ~Process!DieSign => late = {}
    /\ Cardinality(late) + Cardinality(Accepting) <= Cardinality(Listeners)

LInv == ProcessType /\ LateOnce

LEMMA Finite ==
  ASSUME ProcessType
  PROVE  /\ IsFiniteSet(late) /\ IsFiniteSet(Accepting)
         /\ Cardinality(late) \in Nat /\ Cardinality(Accepting) \in Nat
         /\ Cardinality(Listeners) \in Nat /\ Cardinality(Accepting) <= Cardinality(Listeners)
<1>1. late \subseteq Conns /\ Accepting \subseteq Listeners
  BY DEF ProcessType, Accepting
<1>2. IsFiniteSet(late) /\ IsFiniteSet(Accepting)
  BY <1>1, ConnsAssumption, FS_Subset
<1> QED BY <1>1, <1>2, ConnsAssumption, FS_Subset, FS_CardinalityType

LEMMA InitLInv == GatewayInit => LInv
<1> SUFFICES ASSUME GatewayInit PROVE LInv
  OBVIOUS
<1>1. ProcessType /\ late = {}
  BY DEF GatewayInit, Process!Serving, ProcessType
<1>2. Cardinality(late) = 0
  BY <1>1, FS_EmptySet
<1> QED BY <1>1, <1>2, Finite DEF LInv, LateOnce

LEMMA ProcessTypeStep == ASSUME ProcessType, Process!Next PROVE ProcessType'
<1>1. ASSUME NEW c \in Conns, Process!Connect(c) \/ Process!Add(c) \/ Process!Done(c)
      PROVE  ProcessType'
  BY <1>1 DEF ProcessType, Process!Connect, Process!Add, Process!Done
<1>2. ASSUME NEW l \in Listeners, Process!CheckDie(l) PROVE ProcessType'
  BY <1>2 DEF ProcessType, Process!CheckDie, Process!AfterCheck
<1>3. ASSUME NEW l \in Listeners, NEW c \in Conns, Process!Accept(l, c) PROVE ProcessType'
  BY <1>3 DEF ProcessType, Process!Accept
<1>4. CASE Process!Sigterm \/ Process!Exit \/ UNCHANGED Process!vars
  BY <1>4 DEF ProcessType, Process!Sigterm, Process!Exit, Process!vars
<1> QED BY <1>1, <1>2, <1>3, <1>4 DEF Process!Next

\* The connection that is accepted after the signal takes the place of its
\* listener.
LEMMA AcceptLInv ==
  ASSUME LInv, NEW l \in Listeners, NEW c \in Conns, Process!Accept(l, c) PROVE LInv'
<1>1. ProcessType'
  BY ProcessTypeStep DEF LInv, Process!Next
<1>2. UNCHANGED signal /\ (Process!DieSign' <=> Process!DieSign)
  BY DEF Process!Accept, Process!DieSign
<1>3. CASE ~Process!DieSign
  <2>1. late' = {}
    BY <1>3 DEF LInv, LateOnce, Process!Accept
  <2>2. Cardinality(late') = 0
    BY <2>1, FS_EmptySet
  <2>3. Cardinality(Accepting') \in Nat /\ Cardinality(Accepting') <= Cardinality(Listeners)
    BY <1>1, Finite, ConnsAssumption, FS_Subset, FS_CardinalityType DEF ProcessType, Accepting
  <2> QED BY <1>1, <2>1, <2>2, <2>3 DEF LInv, LateOnce
<1>4. CASE Process!DieSign
  <2>1. l \in Accepting /\ Accepting' = Accepting \ {l} /\ late' = late \cup {c}
    BY <1>4 DEF LInv, ProcessType, Accepting, Process!Accept
  <2>2. Cardinality(Accepting') = Cardinality(Accepting) - 1
    BY <2>1, Finite, FS_RemoveElement DEF LInv
  <2>3. Cardinality(late') \in Nat /\ Cardinality(late') <= Cardinality(late) + 1
    <3>1. IsFiniteSet(late) /\ Cardinality(late) \in Nat
      BY Finite DEF LInv
    <3>2. Cardinality(late \cup {c}) = IF c \in late THEN Cardinality(late) ELSE Cardinality(late) + 1
      BY <3>1, FS_AddElement
    <3> QED BY <2>1, <3>1, <3>2
  <2> QED BY <1>1, <1>2, <1>4, <2>2, <2>3, Finite DEF LInv, LateOnce
<1> QED BY <1>3, <1>4

\* Any other step accepts nothing and lets no listener accept again after the
\* signal.
LEMMA OtherLInv ==
  ASSUME LInv, ProcessType', UNCHANGED late, Process!DieSign => Process!DieSign',
         Process!DieSign => Accepting' \subseteq Accepting
  PROVE  LInv'
<1>1. ~Process!DieSign' => late' = {}
  BY DEF LInv, LateOnce
<1>2. Cardinality(late') + Cardinality(Accepting') <= Cardinality(Listeners)
  <2>1. CASE ~Process!DieSign
    <3>1. Cardinality(late') = 0
      BY <2>1, FS_EmptySet DEF LInv, LateOnce
    <3>2. Cardinality(Accepting') \in Nat /\ Cardinality(Accepting') <= Cardinality(Listeners)
      BY ConnsAssumption, FS_Subset, FS_CardinalityType DEF Accepting
    <3>3. Cardinality(Listeners) \in Nat
      BY ConnsAssumption, FS_CardinalityType
    <3> QED BY <3>1, <3>2, <3>3
  <2>2. CASE Process!DieSign
    <3>1. Cardinality(Accepting') \in Nat /\ Cardinality(Accepting') <= Cardinality(Accepting)
      BY <2>2, Finite, FS_Subset, FS_CardinalityType DEF LInv
    <3>2. Cardinality(late) + Cardinality(Accepting) <= Cardinality(Listeners)
      BY DEF LInv, LateOnce
    <3>3. /\ Cardinality(late) \in Nat /\ Cardinality(Accepting) \in Nat
          /\ Cardinality(Listeners) \in Nat
      BY Finite DEF LInv
    <3> QED BY <3>1, <3>2, <3>3
  <2> QED BY <2>1, <2>2
<1> QED BY <1>1, <1>2 DEF LInv, LateOnce

LEMMA NextLInv == LInv /\ [GatewayNext]_gatewayVars => LInv'
<1> SUFFICES ASSUME LInv, [GatewayNext]_gatewayVars PROVE LInv'
  OBVIOUS
<1>1. CASE UNCHANGED processVars
  BY <1>1, OtherLInv DEF processVars, LInv, ProcessType, Accepting, Process!DieSign
<1>2. CASE Process!Next
  <2>0. ProcessType'
    BY <1>2, ProcessTypeStep DEF LInv
  <2>1. ASSUME NEW c \in Conns, Process!Connect(c) \/ Process!Add(c) \/ Process!Done(c)
        PROVE  LInv'
    BY <2>0, <2>1, OtherLInv
       DEF Process!Connect, Process!Add, Process!Done, Accepting, Process!DieSign
  <2>2. ASSUME NEW l \in Listeners, Process!CheckDie(l) PROVE LInv'
    <3>1. Process!DieSign => Accepting' \subseteq Accepting
      BY <2>2 DEF Process!CheckDie, Process!AfterCheck, Accepting, LInv, ProcessType
    <3> QED BY <2>0, <2>2, <3>1, OtherLInv DEF Process!CheckDie, Process!DieSign
  <2>3. CASE Process!Sigterm \/ Process!Exit \/ UNCHANGED Process!vars
    BY <2>0, <2>3, OtherLInv
       DEF Process!Sigterm, Process!Exit, Process!vars, Accepting, Process!DieSign
  <2> QED BY <1>2, <2>1, <2>2, <2>3, AcceptLInv DEF Process!Next
<1> QED BY <1>1, <1>2 DEF GatewayNext, gatewayVars, processVars

\* Each listener accepts at most one connection after the signal, for every
\* number of listeners and connections.
THEOREM LateAccepts == GatewaySpec => []LateAcceptsBounded
<1>1. LInv => LateAcceptsBounded
  <2> SUFFICES ASSUME LInv PROVE Cardinality(late) <= Cardinality(Listeners)
    BY SameCardinality DEF LateAcceptsBounded, Process!LateAcceptsBounded
  <2>1. Cardinality(late) + Cardinality(Accepting) <= Cardinality(Listeners)
    BY DEF LInv, LateOnce
  <2> QED BY <2>1, Finite DEF LInv
<1> QED BY <1>1, InitLInv, NextLInv, PTL DEF GatewaySpec

-----------------------------------------------------------------------------
\* A stream is open only while its session is counted, and Wait returns only
\* when none is.
OpenCounted == \A s \in Streams : call[s] = "idle" \/ eof[s] \/ conn[s] = "serving"

CInv == ProcessType /\ TInv /\ OpenCounted /\ Process!CountedServed

LEMMA InitCInv == GatewayInit => CInv
<1> SUFFICES ASSUME GatewayInit PROVE CInv
  OBVIOUS
<1>1. ProcessType /\ TInv
  BY InitLInv, InitTInv DEF LInv, GatewayInit
<1>2. OpenCounted /\ Process!CountedServed
  BY DEF GatewayInit, Process!Serving, Init, OpenCounted, Process!CountedServed
<1> QED BY <1>1, <1>2 DEF CInv

LEMMA ProcessCInv == ASSUME CInv, Process!Next, UNCHANGED vars, Sessions PROVE CInv'
<1>1. ProcessType' /\ TInv'
  BY ProcessTypeStep, StutterTInv DEF CInv
<1>2. UNCHANGED <<call, eof>>
  BY DEF vars
<1>3. ASSUME NEW c \in Conns, conn[c] = "serving", conn'[c] # "serving" PROVE conn'[c] = "done"
  <2>1. ASSUME NEW d \in Conns, Process!Connect(d) \/ Process!Add(d) \/ Process!Done(d)
        PROVE  conn'[c] = "done"
    BY <1>3, <2>1 DEF Process!Connect, Process!Add, Process!Done, CInv, ProcessType
  <2>2. ASSUME NEW l \in Listeners, NEW d \in Conns, Process!Accept(l, d)
        PROVE  conn'[c] = "done"
    BY <1>3, <2>2 DEF Process!Accept, CInv, ProcessType
  <2>3. ASSUME UNCHANGED conn PROVE conn'[c] = "done"
    BY <1>3, <2>3
  <2>4. ASSUME NEW l \in Listeners, Process!CheckDie(l) PROVE UNCHANGED conn
    BY <2>4 DEF Process!CheckDie
  <2>5. Process!Sigterm \/ Process!Exit \/ UNCHANGED Process!vars => UNCHANGED conn
    BY DEF Process!Sigterm, Process!Exit, Process!vars
  <2> QED BY <2>1, <2>2, <2>3, <2>4, <2>5 DEF Process!Next
<1>4. OpenCounted'
  <2> SUFFICES ASSUME NEW s \in Streams PROVE (call[s] = "idle" \/ eof[s] \/ conn[s] = "serving")'
    BY DEF OpenCounted
  <2>1. s \in Conns
    BY ConnsAssumption
  <2>2. CASE conn[s] = "serving" /\ conn'[s] # "serving"
    BY <1>2, <1>3, <2>1, <2>2 DEF Sessions, Released
  <2> QED BY <1>2, <2>2 DEF CInv, OpenCounted
<1>5. Process!CountedServed'
  <2> SUFFICES ASSUME signal' = "exited", NEW c \in Conns PROVE conn'[c] # "serving"
    BY DEF Process!CountedServed
  <2>1. CASE Process!Exit
    <3>1. Cardinality({d \in Conns : conn[d] = "serving"}) = 0 /\ conn' = conn
      BY <2>1, SameCardinality DEF Process!Exit, Process!WaitOver, Process!Counter
    <3>2. IsFiniteSet({d \in Conns : conn[d] = "serving"})
      BY ConnsAssumption, FS_Subset
    <3>3. {d \in Conns : conn[d] = "serving"} = {}
      BY <3>1, <3>2, FS_EmptySet
    <3> QED BY <3>1, <3>3
  <2>2. CASE ~Process!Exit
    <3>1. signal = "exited" /\ UNCHANGED conn
      BY <2>2 DEF Process!Next, Process!Connect, Process!Add, Process!Done, Process!CheckDie,
         Process!Accept, Process!Sigterm, Process!Running, Process!vars
    <3> QED BY <3>1 DEF CInv, Process!CountedServed
  <2> QED BY <2>1, <2>2
<1> QED BY <1>1, <1>4, <1>5 DEF CInv

LEMMA StreamCInv == ASSUME CInv, [Next]_vars, UNCHANGED processVars, Sessions PROVE CInv'
<1>1. ProcessType' /\ TInv' /\ Process!CountedServed'
  BY NextTInv DEF CInv, ProcessType, processVars, Process!CountedServed
<1>2. \A s \in Streams : eof[s] => eof'[s]
  <2>1. eof \in [Streams -> BOOLEAN]
    BY DEF CInv, TInv, TypeOK
  <2>2. UNCHANGED eof \/ \E r \in Streams : eof' = [eof EXCEPT ![r] = TRUE]
    BY DEF Next, vars, Open, AgentClose, AgentSend, StreamCall, func_Recv, Finished, Register,
       BadMetadata, HandleFrame, AgentGone, Unregister, Close, Recv, RecvFail, RecvPut
  <2> QED BY <2>1, <2>2
<1>3. OpenCounted'
  BY <1>2 DEF CInv, OpenCounted, Sessions, processVars
<1> QED BY <1>1, <1>3 DEF CInv

\* The process exits only when no session it has counted is left and no stream
\* is open towards the game server, for every number of connections.
THEOREM ExitLeavesNothingOpen == GatewaySpec => []CountedServed
<1>1. CInv /\ [GatewayNext]_gatewayVars => CInv'
  <2>1. ASSUME CInv, UNCHANGED gatewayVars PROVE CInv'
    BY <2>1, StutterTInv DEF gatewayVars, vars, processVars, CInv, ProcessType, OpenCounted,
       Process!CountedServed
  <2>2. ASSUME CInv, GatewayNext PROVE CInv'
    BY <2>2, ProcessCInv, StreamCInv DEF GatewayNext
  <2> QED BY <2>1, <2>2
<1>2. CInv => CountedServed
  BY ConnsAssumption DEF CInv, OpenCounted, CountedServed, Process!CountedServed
<1> QED BY <1>1, <1>2, InitCInv, PTL DEF GatewaySpec
=============================================================================
