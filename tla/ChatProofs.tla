----------------------------- MODULE ChatProofs -----------------------------
(***************************************************************************)
(* The chat service, for any number of endpoints, subscribers, messages,   *)
(* dumps and crashes.                                                      *)
(*                                                                         *)
(* Messages: the Inboxes and every image on its way to the disk are tails  *)
(* of what has been taken from the topic, because receive stands exactly   *)
(* behind it (Position) and no dump shares the server's lock with it.      *)
(* Subscribers: Passed counts the messages of its Inbox that a subscriber  *)
(* is through with; what is behind it has been sent, and while something   *)
(* is before it a wake-up is on its way.                                   *)
(***************************************************************************)
EXTENDS Chat, SequenceTheorems, TLAPS

-----------------------------------------------------------------------------
(* Types. *)

Tasks == [pc : {"wait", "lock", "loop"}, todo : SUBSET Subs, cur : Seq(Subs), i : Nat]
Recvs == [pc : {"connect", "read", "lock", "apply"},
          pos : Nat, msg : 0 .. MaxMsgs, found : BOOLEAN]
SubCalls == [pc : {"idle", "found", "added", "live", "done"},
             id : Ids, from : {-1} \cup Nat, offset : Nat, err : BOOLEAN]

ServerType ==
    /\ topic \in Seq(Ids) /\ Len(topic) <= MaxMsgs /\ up \in BOOLEAN /\ reg \subseteq Ids
    /\ eps \in [Ids -> EndPoint] /\ kafkaOffset \in 0 .. MaxMsgs
    /\ sLock \in {"free", "receive", "dump"}
    /\ task \in [Ids -> Tasks] /\ recv \in Recvs
    /\ regAt \in [Ids -> Nat] /\ joined \in Nat
DumpType ==
    /\ dump \in [pc : {"idle", "eps", "commit"}, todo : SUBSET Ids, image : Image]
    /\ disk \in Image
    /\ \A d \in Ids : /\ disk.eps[d].mu = "free" /\ disk.eps[d].consumers = {}
                      /\ dump.image.eps[d].mu = "free" /\ dump.image.eps[d].consumers = {}
SubType ==
    /\ sub \in [Subs -> SubCalls]
    /\ seen \in [Subs -> Seq([n : Msgs, off : Nat])]
    /\ wire \in [Subs -> Seq([n : Msgs, off : Nat])] /\ gone \in [Subs -> BOOLEAN]

\* The lock of an endpoint is its task's while that is in the loop, and the
\* tasks of endpoints that do not exist wait.
Locks ==
    \A d \in Ids : /\ Len(eps[d].inbox) <= Retention + 1
                   /\ eps[d].mu = "push" <=> task[d].pc = "loop"
                   /\ d \notin reg => task[d].pc = "wait"
                   /\ task[d].pc # "loop" => task[d].cur = <<>> /\ task[d].todo = {}
                   /\ task[d].cur = <<>> \/ \E c \in Subs : task[d].cur = <<c>>

Types == ServerType /\ DumpType /\ SubType /\ Locks

-----------------------------------------------------------------------------
(* Messages. *)

\* The last message that receive has dealt with.
Base == IF kafkaOffset = Newest THEN joined ELSE kafkaOffset

Position ==
    /\ joined <= Len(topic) /\ kafkaOffset <= Len(topic)
    /\ kafkaOffset # Newest => joined <= kafkaOffset
    /\ sLock = "receive" <=> recv.pc = "apply"
    /\ sLock = "dump" <=> dump.pc = "eps"
    /\ recv.pc = "read" => /\ recv.pos \in 1 .. Base + 1
                           /\ kafkaOffset = Newest => recv.pos = joined + 1
    /\ recv.pc \in {"lock", "apply"} =>
          /\ recv.msg = Base + 1 /\ recv.pos = recv.msg + 1 /\ recv.msg <= Len(topic)
          /\ recv.found => topic[recv.msg] \in reg
          /\ ~recv.found /\ topic[recv.msg] \in reg =>
                /\ eps[topic[recv.msg]].inbox = <<>>
                /\ recv.msg <= regAt[topic[recv.msg]]

Registered == \A d \in reg : regAt[d] <= Len(topic)

Holds(t, d, q, lo, hi) == IsTail(t, d, q, hi) /\ Kept(t, d, q, lo, hi)

Starts == [d \in Ids |-> Since(d)]
Tails(t, D, e, lo, hi) == \A d \in D : Holds(t, d, e[d].inbox, lo[d], hi)

Inboxes == Tails(topic, reg, eps, Starts, kafkaOffset)

\* What an image holds of the endpoints D is right for its offset, and will
\* be whatever the server does next.
Valid(img, D) ==
    /\ img.reg \subseteq reg /\ img.kafkaOffset <= kafkaOffset
    /\ img.kafkaOffset # Newest => joined <= img.kafkaOffset
    /\ Tails(topic, D, img.eps, Starts, img.kafkaOffset)

Images ==
    /\ Valid(disk, disk.reg)
    /\ dump.pc = "eps" =>
          /\ dump.image.reg = reg /\ dump.image.kafkaOffset = kafkaOffset
          /\ Valid(dump.image, reg \ dump.todo)
    /\ dump.pc = "commit" => Valid(dump.image, dump.image.reg)

MInv == Types /\ Position /\ Registered /\ Inboxes /\ Images

-----------------------------------------------------------------------------
(* Subscribers. *)

Served(c) == sub[c].pc \in {"added", "live"}

Member(c) ==
    /\ sub[c].pc \in {"found", "added", "live"} => up /\ sub[c].id \in reg
    /\ Served(c) => c \in eps[sub[c].id].consumers
    /\ sub[c].pc \in {"idle", "found"} => seen[c] = <<>>
Consumers(d) ==
    /\ \A c \in eps[d].consumers : Served(c) /\ sub[c].id = d
    /\ task[d].todo \subseteq eps[d].consumers
    /\ \A c \in Subs : task[d].cur = <<c>> => c \in eps[d].consumers /\ c \notin task[d].todo
Members == (\A c \in Subs : Member(c)) /\ (up => \A d \in Ids : Consumers(d))

\* How many messages of the Inbox the subscriber is through with.
Passed(c) ==
    LET d == sub[c].id
    IN  IF task[d].cur = <<c>> THEN task[d].i ELSE FirstIndex(eps[d], sub[c].offset)

Inbox(c) == eps[sub[c].id].inbox
LastSeen(c) == seen[c][Len(seen[c])].n

Rising == \A c \in Subs : \A i \in 1 .. Len(seen[c]) - 1 : seen[c][i].n < seen[c][i + 1].n

NoGap(c) ==
    \A i \in 1 .. Len(seen[c]) - 1 : \A k \in Elements(Inbox(c)) :
       ~(seen[c][i].n < k /\ k < seen[c][i + 1].n)

\* What was sent is taken, and divides the Inbox as Passed does.
Divided(c) ==
    /\ \A i \in 1 .. Len(seen[c]) : seen[c][i].n <= kafkaOffset
    /\ (seen[c] # <<>> /\ ~gone[c]) =>
          /\ Passed(c) <= Len(Inbox(c))
          /\ \A j \in 1 .. Len(Inbox(c)) : j <= Passed(c) <=> Inbox(c)[j] <= LastSeen(c)

\* What it is through with has been sent, from the offset it asked for.
Sent(c) ==
    ~gone[c] => \A j \in 1 .. Len(Inbox(c)) :
        j <= Passed(c) /\ eps[sub[c].id].start + j - 1 >= sub[c].from
        => Inbox(c)[j] \in SeenBy(c)

\* While something is left to send, a wake-up is on its way.
Woken(c) ==
    LET d == sub[c].id
    IN  ~gone[c] /\ Passed(c) < Len(Inbox(c)) =>
           \/ eps[d].ready \/ sub[c].pc = "added" \/ task[d].pc = "lock"
           \/ task[d].pc = "loop" /\ (c \in task[d].todo \/ task[d].cur = <<c>>)

\* Once it has been served, its offset is not beyond the Inbox.
Asked(c) == sub[c].offset = sub[c].from \/ sub[c].offset <= End(eps[sub[c].id])

Serves(c) == NoGap(c) /\ Divided(c) /\ Sent(c) /\ Asked(c) /\ Woken(c)
Serving == \A c \in Subs : Served(c) => Serves(c)

SInv == MInv /\ Members /\ Rising /\ Serving

-----------------------------------------------------------------------------
(* Tails. *)

LEMMA TailFrom ==
  ASSUME NEW T, NEW q \in Seq(T), q # <<>>
  PROVE  /\ Tail(q) \in Seq(T) /\ Len(Tail(q)) = Len(q) - 1
         /\ \A i \in 1 .. Len(q) - 1 : Tail(q)[i] = q[i + 1]
  OBVIOUS

LEMMA AppendedTo ==
  ASSUME NEW T, NEW q \in Seq(T), NEW m \in T
  PROVE  /\ Append(q, m) \in Seq(T) /\ Len(Append(q, m)) = Len(q) + 1
         /\ Append(q, m)[Len(q) + 1] = m
         /\ \A i \in 1 .. Len(q) : Append(q, m)[i] = q[i]
  OBVIOUS

\* A tail stays one when the topic grows and when less is asked of it.
LEMMA HoldsOn ==
  ASSUME NEW t \in Seq(Ids), NEW u \in Seq(Ids), NEW d \in Ids, NEW q \in Seq(Msgs),
         NEW hi \in 0 .. MaxMsgs, NEW lo \in Nat, NEW lo2 \in Nat,
         \A k \in 1 .. hi : u[k] = t[k], hi = 0 \/ lo <= lo2,
         Holds(t, d, q, lo, hi)
  PROVE  Holds(u, d, q, lo2, hi)
<1>0. \A i \in 1 .. Len(q) : q[i] \in Nat
  BY BoundsAssumption DEF Msgs
<1>1. \A x \in Nat : Mine(u, d, x, hi) \subseteq Mine(t, d, x, hi)
  BY DEF Mine
<1>2. Mine(t, d, 0, hi) \subseteq Mine(u, d, 0, hi)
  BY DEF Mine
<1>3. Mine(u, d, lo2, hi) \subseteq Mine(t, d, lo, hi)
  BY DEF Mine
<1> QED BY <1>0, <1>1, <1>2, <1>3 DEF Holds, IsTail, Kept

\* Messages of other endpoints, and those before its time, add nothing to it.
LEMMA HoldsPast ==
  ASSUME NEW t \in Seq(Ids), NEW d \in Ids, NEW q \in Seq(Msgs),
         NEW hi \in 0 .. MaxMsgs, NEW m \in 0 .. MaxMsgs, NEW lo \in Nat, hi <= m,
         \A k \in hi + 1 .. m : t[k] = d => q = <<>> /\ k <= lo,
         Holds(t, d, q, lo, hi)
  PROVE  Holds(t, d, q, lo, m)
<1>0. \A i \in 1 .. Len(q) : q[i] \in Nat
  BY BoundsAssumption DEF Msgs
<1>1. Elements(q) \subseteq Mine(t, d, 0, m)
  BY BoundsAssumption DEF Holds, IsTail, Mine
<1>2. ASSUME NEW i \in 1 .. Len(q) PROVE Mine(t, d, q[i], m) \subseteq Mine(t, d, q[i], hi)
  <2>1. q # <<>>
    BY <1>2
  <2> QED BY <1>0, <2>1, BoundsAssumption DEF Mine
<1>3. Mine(t, d, lo, m) \subseteq Mine(t, d, lo, hi)
  BY BoundsAssumption DEF Mine
<1> QED BY <1>1, <1>2, <1>3 DEF Holds, IsTail, Kept

\* EndPoint.push of the next message of an endpoint.
LEMMA HoldsPushed ==
  ASSUME NEW t \in Seq(Ids), NEW d \in Ids, NEW q \in Seq(Msgs),
         NEW hi \in 0 .. MaxMsgs, NEW m \in Msgs, NEW lo \in Nat, hi < m, t[m] = d,
         \A k \in hi + 1 .. m - 1 : t[k] = d => q = <<>> /\ k <= lo,
         Holds(t, d, q, lo, hi)
  PROVE  Holds(t, d, Append(IF Len(q) > Retention THEN Tail(q) ELSE q, m), lo, m)
<1>0. m \in 1 .. MaxMsgs /\ Retention \in Nat \ {0} /\ MaxMsgs \in Nat
      /\ \A i \in 1 .. Len(q) : q[i] \in Nat
  BY BoundsAssumption DEF Msgs
<1>1. Holds(t, d, q, lo, m - 1)
  <2>1. m - 1 \in 0 .. MaxMsgs /\ hi <= m - 1
    BY <1>0
  <2> QED BY <2>1, HoldsPast
<1>2. Mine(t, d, 0, m) = Mine(t, d, 0, m - 1) \cup {m} /\ \A x \in 0 .. m - 1 :
         Mine(t, d, x, m) = Mine(t, d, x, m - 1) \cup {m}
  BY <1>0 DEF Mine
<1>3. Mine(t, d, lo, m) \subseteq Mine(t, d, lo, m - 1) \cup {m}
  BY <1>0 DEF Mine
<1>4. \A i \in 1 .. Len(q) : q[i] \in 1 .. m - 1
  BY <1>0, <1>1 DEF Holds, IsTail, Elements, Mine
<1>5. Mine(t, d, m, m) = {}
  BY <1>0 DEF Mine
<1>6. CASE Len(q) <= Retention
  <2> DEFINE p == Append(q, m)
  <2>1. /\ p \in Seq(Msgs) /\ Len(p) = Len(q) + 1 /\ p[Len(q) + 1] = m
        /\ \A i \in 1 .. Len(q) : p[i] = q[i]
    BY AppendedTo
  <2>2. Elements(p) = Elements(q) \cup {m}
    BY <2>1 DEF Elements
  <2> HIDE DEF p
  <2>3. IsTail(t, d, p, m)
    <3>1. Elements(p) \subseteq Mine(t, d, 0, m)
      BY <1>1, <1>2, <2>2 DEF Holds, IsTail
    <3>2. ASSUME NEW i \in 1 .. Len(p), NEW j \in 1 .. Len(p), i < j PROVE p[i] < p[j]
      <4>1. i \in 1 .. Len(q) /\ p[i] = q[i]
        BY <2>1, <3>2
      <4>2. CASE j = Len(q) + 1
        BY <1>0, <1>4, <2>1, <4>1, <4>2
      <4>3. CASE j \in 1 .. Len(q)
        BY <1>1, <2>1, <3>2, <4>1, <4>3 DEF Holds, IsTail
      <4> QED BY <2>1, <4>2, <4>3
    <3>3. \A i \in 1 .. Len(p) : Mine(t, d, p[i], m) \subseteq Elements(p)
      BY <1>0, <1>1, <1>2, <1>4, <1>5, <2>1, <2>2 DEF Holds, IsTail
    <3> QED BY <3>1, <3>2, <3>3 DEF IsTail
  <2>4. Kept(t, d, p, lo, m)
    BY <1>0, <1>1, <1>3, <2>1, <2>2 DEF Holds, Kept
  <2> QED BY <1>0, <1>6, <2>3, <2>4 DEF Holds, p
<1>7. CASE Len(q) > Retention
  <2> DEFINE p == Append(Tail(q), m)
  <2>0. q # <<>>
    BY <1>0, <1>7
  <2>1. /\ p \in Seq(Msgs) /\ Len(p) = Len(q) /\ p[Len(q)] = m
        /\ \A i \in 1 .. Len(q) - 1 : p[i] = q[i + 1]
    BY <2>0, TailFrom, AppendedTo
  <2> HIDE DEF p
  <2>2. Elements(p) \subseteq Elements(q) \cup {m}
    BY <2>1 DEF Elements
  <2>3. \A x \in Elements(q) : x # q[1] => x \in Elements(p)
    <3> SUFFICES ASSUME NEW i \in 1 .. Len(q), q[i] # q[1] PROVE q[i] \in Elements(p)
      BY DEF Elements
    <3>1. i - 1 \in 1 .. Len(q) - 1 /\ p[i - 1] = q[i] /\ i - 1 \in 1 .. Len(p)
      BY <2>1
    <3> QED BY <3>1 DEF Elements
  <2>4. m \in Elements(p)
    BY <1>0, <1>7, <2>1 DEF Elements
  <2>5. IsTail(t, d, p, m)
    <3>1. Elements(p) \subseteq Mine(t, d, 0, m)
      BY <1>1, <1>2, <2>2 DEF Holds, IsTail
    <3>2. ASSUME NEW i \in 1 .. Len(p), NEW j \in 1 .. Len(p), i < j PROVE p[i] < p[j]
      <4>1. p[i] = q[i + 1] /\ i + 1 \in 1 .. Len(q)
        BY <2>1, <3>2
      <4>2. CASE j = Len(q)
        BY <1>0, <1>4, <2>1, <4>1, <4>2
      <4>3. CASE j \in 1 .. Len(q) - 1
        <5>1. p[j] = q[j + 1] /\ j + 1 \in 1 .. Len(q) /\ i + 1 < j + 1
          BY <2>1, <3>2, <4>3
        <5> QED BY <1>1, <4>1, <5>1 DEF Holds, IsTail
      <4> QED BY <2>1, <4>2, <4>3
    <3>3. ASSUME NEW i \in 1 .. Len(p) PROVE Mine(t, d, p[i], m) \subseteq Elements(p)
      <4>1. CASE i = Len(q)
        BY <1>5, <2>1, <4>1
      <4>2. CASE i \in 1 .. Len(q) - 1
        <5>1. p[i] = q[i + 1] /\ i + 1 \in 1 .. Len(q) /\ 1 \in 1 .. Len(q) /\ 1 < i + 1
          BY <2>1, <4>2
        <5>2. q[1] < q[i + 1] /\ q[i + 1] \in 0 .. m - 1 /\ q[1] \in Nat
          BY <1>0, <1>1, <1>4, <5>1 DEF Holds, IsTail
        <5>3. Mine(t, d, q[i + 1], m) = Mine(t, d, q[i + 1], m - 1) \cup {m}
          BY <1>2, <5>2
        <5>4. Mine(t, d, q[i + 1], m - 1) \subseteq Elements(q)
          BY <1>1, <5>1 DEF Holds, IsTail
        <5>5. \A x \in Mine(t, d, q[i + 1], m - 1) : x # q[1]
          BY <5>2 DEF Mine
        <5> QED BY <2>3, <2>4, <5>1, <5>3, <5>4, <5>5
      <4> QED BY <2>1, <4>1, <4>2
    <3> QED BY <3>1, <3>2, <3>3 DEF IsTail
  <2>6. Kept(t, d, p, lo, m)
    BY <1>0, <1>7, <2>1 DEF Kept
  <2> QED BY <1>0, <1>7, <2>5, <2>6 DEF Holds, p
<1> QED BY <1>0, <1>6, <1>7

\* The cut of an Inbox at a restart.
LEMMA HoldsTrimmed ==
  ASSUME NEW t \in Seq(Ids), NEW d \in Ids, NEW q \in Seq(Msgs),
         NEW hi \in 0 .. MaxMsgs, NEW lo \in Nat, Len(q) > Retention,
         Holds(t, d, q, lo, hi)
  PROVE  Holds(t, d, SubSeq(q, Len(q) - Retention + 1, Len(q)), lo, hi)
<1> DEFINE p == SubSeq(q, Len(q) - Retention + 1, Len(q))
           x == Len(q) - Retention
<1>0. /\ Retention \in Nat \ {0} /\ x \in Nat /\ x <= Len(q) /\ hi \in Nat
      /\ \A i \in 1 .. Len(q) : q[i] \in Nat
  BY BoundsAssumption DEF Msgs
<1>1. /\ p \in Seq(Msgs) /\ Len(p) = Retention
      /\ \A i \in 1 .. Retention : p[i] = q[x + i]
  BY <1>0
<1> HIDE DEF p
<1>2. \A i \in 1 .. Retention : x + i \in 1 .. Len(q)
  BY <1>0
<1> HIDE DEF x
<1>3. Elements(p) \subseteq Elements(q)
  BY <1>1, <1>2 DEF Elements
<1>4. ASSUME NEW i \in 1 .. Len(p), NEW j \in 1 .. Len(p), i < j PROVE p[i] < p[j]
  <2>0. i \in 1 .. Retention /\ j \in 1 .. Retention
    BY <1>1
  <2>1. p[i] = q[x + i] /\ x + i \in 1 .. Len(q) /\ p[j] = q[x + j] /\ x + j \in 1 .. Len(q)
    BY <1>1, <1>2, <2>0
  <2>2. x + i < x + j
    BY <1>0, <1>4, <2>0
  <2> QED BY <2>1, <2>2 DEF Holds, IsTail
<1>5. ASSUME NEW i \in 1 .. Len(p), NEW y \in Mine(t, d, p[i], hi) PROVE y \in Elements(p)
  <2>1. p[i] = q[x + i] /\ x + i \in 1 .. Len(q)
    BY <1>1, <1>2
  <2>2. y \in Elements(q)
    BY <2>1 DEF Holds, IsTail
  <2>6. q[x + i] < y
    BY <1>0, <2>1 DEF Mine
  <2>3. PICK k \in 1 .. Len(q) : q[k] = y
    BY <2>2 DEF Elements
  <2>4. x + i < k
    BY <1>0, <2>1, <2>6, <2>3 DEF Holds, IsTail
  <2>5. k - x \in 1 .. Retention /\ p[k - x] = y
    <3>1. x = Len(q) - Retention
      BY DEF x
    <3>2. k - x \in 1 .. Retention /\ x + (k - x) = k
      BY <1>0, <1>1, <2>3, <2>4, <3>1
    <3> QED BY <1>1, <2>3, <3>2
  <2> QED BY <1>1, <2>5 DEF Elements
<1>6. Kept(t, d, p, lo, hi)
  BY <1>0, <1>1 DEF Kept
<1> QED BY <1>3, <1>4, <1>5, <1>6 DEF Holds, IsTail, p

LEMMA HoldsNone ==
  ASSUME NEW t, NEW d, NEW hi \in Nat, NEW lo \in Nat, hi <= lo
  PROVE  Holds(t, d, <<>>, lo, hi)
  BY DEF Holds, IsTail, Kept, Elements, Mine

-----------------------------------------------------------------------------
(* Types are kept, action by action. *)

LEMMA NewEndPointType == newEndPoint \in EndPoint
  BY DEF newEndPoint, EndPoint

LEMMA NoDumpType ==
  /\ NoDump \in [pc : {"idle", "eps", "commit"}, todo : SUBSET Ids, image : Image]
  /\ \A d \in Ids : NoDump.image.eps[d].mu = "free" /\ NoDump.image.eps[d].consumers = {}
  BY NewEndPointType, BoundsAssumption DEF NoDump, Image, Newest, newEndPoint

LEMMA InitTypes == Init => Types
<1> SUFFICES ASSUME Init PROVE Types
  OBVIOUS
<1>1. ServerType
  BY NewEndPointType, BoundsAssumption DEF Init, ServerType, Newest, Waiting, Tasks, Recvs
<1>2. DumpType
  BY NoDumpType DEF Init, DumpType, NoDump
<1>3. SubType
  BY BoundsAssumption DEF Init, SubType, SubCalls, Idle
<1>4. Locks
  BY BoundsAssumption DEF Init, Locks, newEndPoint, Waiting
<1> QED BY <1>1, <1>2, <1>3, <1>4 DEF Types

\* The environment, Reg, and the calls of Subscribe.
LEMMA OutsideTypes ==
  ASSUME Types, \/ \E d \in Ids : Produce(d) \/ Reg(d)
                \/ \E c \in Subs : ClientRead(c) \/ ClientLeave(c)
                \/ \E c \in Subs, d \in Ids, f \in {-1} \cup 1 .. MaxFrom : Subscribe(c, d, f)
  PROVE  Types'
<1>1. ASSUME NEW d \in Ids, Produce(d) PROVE Types'
  <2>1. topic' \in Seq(Ids) /\ Len(topic') <= MaxMsgs
    BY <1>1, BoundsAssumption DEF Types, ServerType, Produce
  <2> QED BY <1>1, <2>1 DEF Types, ServerType, DumpType, SubType, Locks, Produce, history, streamV
<1>2. ASSUME NEW d \in Ids, Reg(d) PROVE Types'
  <2>1. ServerType'
    BY <1>2, NewEndPointType DEF Types, ServerType, Reg
  <2>2. Locks'
    BY <1>2, BoundsAssumption DEF Types, ServerType, Locks, Reg, newEndPoint
  <2>3. DumpType' /\ SubType'
    BY <1>2 DEF Types, DumpType, SubType, Reg, streamV
  <2> QED BY <2>1, <2>2, <2>3 DEF Types
<1>3. ASSUME NEW c \in Subs, ClientRead(c) \/ ClientLeave(c) PROVE Types'
  <2> DEFINE T == [n : Msgs, off : Nat]
  <2>0. wire \in [Subs -> Seq(T)] /\ <<>> \in Seq(T) /\ (wire[c] # <<>> => Tail(wire[c]) \in Seq(T))
    <3>1. wire \in [Subs -> Seq(T)] /\ wire[c] \in Seq(T)
      BY DEF Types, SubType
    <3> HIDE DEF T
    <3> QED BY <3>1, TailFrom
  <2>2. gone' \in [Subs -> BOOLEAN]
    BY <1>3 DEF Types, SubType, ClientRead, ClientLeave
  <2>3. wire' \in [Subs -> Seq(T)]
    <3> HIDE DEF T
    <3> QED BY <1>3, <2>0 DEF ClientRead, ClientLeave
  <2>1. SubType'
    BY <1>3, <2>2, <2>3 DEF Types, SubType, ClientRead, ClientLeave
  <2> QED BY <1>3, <2>1 DEF Types, ServerType, DumpType, Locks, ClientRead, ClientLeave, history
<1>4. ASSUME NEW c \in Subs, NEW d \in Ids, NEW f \in {-1} \cup 1 .. MaxFrom, Subscribe(c, d, f)
      PROVE  Types'
  <2>1. f \in {-1} \cup Nat
    BY BoundsAssumption
  <2>2. SubType'
    BY <1>4, <2>1 DEF Types, SubType, SubCalls, Subscribe, Idle, streamV
  <2>3. ServerType'
    BY <1>4 DEF Types, ServerType, Subscribe, history
  <2>4. DumpType'
    BY <1>4 DEF Types, DumpType, Subscribe
  <2>5. Locks'
    BY <1>4 DEF Types, Locks, Subscribe
  <2> QED BY <2>2, <2>3, <2>4, <2>5 DEF Types
<1> QED BY <1>1, <1>2, <1>3, <1>4

LEMMA EndType == \A ep \in EndPoint : ep.start \in Nat /\ End(ep) \in Nat
                                      /\ ep.inbox \in Seq(Msgs) /\ Len(ep.inbox) \in Nat
  BY DEF EndPoint, End

LEMMA SubscriberTypes ==
  ASSUME Types, NEW c \in Subs, Subscriber(c)
  PROVE  Types'
<1> DEFINE d == sub[c].id
<1>0. sub[c] \in SubCalls /\ d \in Ids /\ eps[d] \in EndPoint
  BY DEF Types, SubType, ServerType, SubCalls
<1>1. CASE AddConsumer(c)
  <2>1. From(c, eps[d]) \in Nat
    BY <1>0, EndType DEF From, SubCalls
  <2>2. SubType'
    BY <1>0, <1>1, <2>1 DEF Types, SubType, SubCalls, AddConsumer, streamV
  <2>3. ServerType'
    BY <1>0, <1>1 DEF Types, ServerType, EndPoint, AddConsumer, history
  <2>4. Locks'
    BY <1>0, <1>1 DEF Types, ServerType, EndPoint, Locks, AddConsumer
  <2> QED BY <1>1, <2>2, <2>3, <2>4 DEF Types, DumpType, AddConsumer
<1>2. CASE NotifyAdded(c)
  <2>2. SubType'
    BY <1>0, <1>2 DEF Types, SubType, SubCalls, NotifyAdded, streamV
  <2>3. ServerType'
    BY <1>0, <1>2 DEF Types, ServerType, EndPoint, NotifyAdded, Notified, history
  <2>4. Locks'
    BY <1>0, <1>2 DEF Types, ServerType, EndPoint, Locks, NotifyAdded, Notified
  <2> QED BY <1>2, <2>2, <2>3, <2>4 DEF Types, DumpType, NotifyAdded
<1>3. CASE RemoveConsumer(c)
  <2>2. SubType'
    BY <1>0, <1>3 DEF Types, SubType, SubCalls, RemoveConsumer, streamV
  <2>3. ServerType'
    BY <1>0, <1>3 DEF Types, ServerType, EndPoint, RemoveConsumer, history
  <2>4. Locks'
    BY <1>0, <1>3 DEF Types, ServerType, EndPoint, Locks, RemoveConsumer
  <2> QED BY <1>3, <2>2, <2>3, <2>4 DEF Types, DumpType, RemoveConsumer
<1> QED BY <1>1, <1>2, <1>3 DEF Subscriber

LEMMA PushTypes ==
  ASSUME Types, NEW d \in Ids, pushTask(d)
  PROVE  Types'
<1>0. /\ eps[d] \in EndPoint /\ task[d] \in Tasks
      /\ \A c \in Subs : sub[c] \in SubCalls /\ FirstIndex(eps[d], sub[c].offset) \in Nat
  BY EndType DEF Types, ServerType, SubType, SubCalls, FirstIndex
<1>1. CASE TakeToken(d)
  <2>1. ServerType' /\ Locks'
    BY <1>0, <1>1 DEF Types, ServerType, Locks, EndPoint, Tasks, TakeToken, history
  <2> QED BY <1>1, <2>1 DEF Types, DumpType, SubType, TakeToken, streamV
<1>2. CASE LockEndPoint(d)
  <2>1. ServerType'
    BY <1>0, <1>2 DEF Types, ServerType, EndPoint, Tasks, LockEndPoint, history
  <2>2. Locks'
    BY <1>0, <1>2 DEF Types, ServerType, Locks, EndPoint, Tasks, LockEndPoint, MuFree
  <2> QED BY <1>2, <2>1, <2>2 DEF Types, DumpType, SubType, LockEndPoint, streamV
<1>3. CASE NextConsumer(d)
  <2>1. PICK c \in Subs :
           task' = [task EXCEPT ![d].cur = <<c>>, ![d].todo = @ \ {c},
                                ![d].i = FirstIndex(eps[d], sub[c].offset)]
    BY <1>0, <1>3 DEF NextConsumer, Tasks
  <2>4. <<c>> \in Seq(Subs) /\ task[d].todo \ {c} \in SUBSET Subs
    BY <1>0 DEF Tasks
  <2>5. task' \in [Ids -> Tasks]
    BY <1>0, <2>1, <2>4 DEF Types, ServerType, Tasks
  <2>2. ServerType'
    BY <1>3, <2>5 DEF Types, ServerType, NextConsumer, history
  <2>3. Locks'
    BY <1>0, <1>3, <2>1 DEF Types, ServerType, Locks, Tasks, NextConsumer
  <2> QED BY <1>3, <2>2, <2>3 DEF Types, DumpType, SubType, NextConsumer, streamV
<1>4. CASE PushOne(d)
  <2> DEFINE c == task[d].cur[1]
             m == [n |-> eps[d].inbox[task[d].i + 1], off |-> task[d].i + eps[d].start]
  <2>1. c \in Subs
    BY <1>4 DEF Types, Locks, PushOne
  <2>2. m \in [n : Msgs, off : Nat]
    BY <1>0, <1>4 DEF PushOne, EndPoint, Tasks
  <2>3. task' = [task EXCEPT ![d].i = @ + 1] /\ UNCHANGED <<topic, up, reg, eps, kafkaOffset,
           sLock, recv, dump, disk, gone, history>>
    BY <1>4 DEF PushOne
  <2>4. SubType'
    <3> DEFINE S == [n : Msgs, off : Nat]
    <3>1. \/ sub' = [sub EXCEPT ![c].err = TRUE] /\ UNCHANGED <<wire, seen>>
          \/ wire' = [wire EXCEPT ![c] = Append(@, m)] /\ seen' = [seen EXCEPT ![c] = Append(@, m)]
             /\ UNCHANGED sub
      BY <1>4 DEF PushOne
    <3>2. seen \in [Subs -> Seq(S)] /\ wire \in [Subs -> Seq(S)] /\ m \in S
      BY <2>2 DEF Types, SubType
    <3> HIDE DEF m, c
    <3>3. sub' \in [Subs -> SubCalls]
      <4>1. sub \in [Subs -> SubCalls] /\ [sub[c] EXCEPT !.err = TRUE] \in SubCalls
        BY <2>1 DEF Types, SubType, SubCalls
      <4>2. sub' = sub \/ sub' = [sub EXCEPT ![c] = [sub[c] EXCEPT !.err = TRUE]]
        BY <3>1
      <4> QED BY <2>1, <4>1, <4>2
    <3>4. seen' \in [Subs -> Seq(S)] /\ wire' \in [Subs -> Seq(S)]
      <4> HIDE DEF S
      <4>1. \A q \in Seq(S) : Append(q, m) \in Seq(S)
        BY <3>2
      <4> QED BY <2>1, <3>1, <3>2, <4>1
    <3> QED BY <2>3, <3>3, <3>4 DEF Types, SubType
  <2>6. task' \in [Ids -> Tasks]
    <3>1. [task[d] EXCEPT !.i = @ + 1] \in Tasks
      BY <1>0 DEF Tasks
    <3>2. task' = [task EXCEPT ![d] = [task[d] EXCEPT !.i = @ + 1]]
      BY <2>3
    <3> QED BY <3>1, <3>2 DEF Types, ServerType
  <2>7. ServerType'
    BY <2>3, <2>6 DEF Types, ServerType, history
  <2>8. Locks'
    BY <1>0, <2>3 DEF Types, ServerType, Locks, Tasks
  <2>5. ServerType' /\ Locks'
    BY <2>7, <2>8
  <2> QED BY <2>3, <2>4, <2>5 DEF Types, DumpType
<1>5. CASE ConsumerDone(d)
  <2>1. task[d].cur[1] \in Subs
    BY <1>5 DEF Types, Locks, ConsumerDone
  <2>2. SubType'
    BY <1>0, <1>5, <2>1, EndType DEF Types, SubType, SubCalls, ConsumerDone, OffsetAfter, streamV
  <2>4. task' \in [Ids -> Tasks]
    <3>0. <<>> \in Seq(Subs)
      OBVIOUS
    <3>1. [task[d] EXCEPT !.cur = <<>>] \in Tasks
      BY <1>0, <3>0 DEF Tasks
    <3>2. task' = [task EXCEPT ![d] = [task[d] EXCEPT !.cur = <<>>]]
      BY <1>5 DEF ConsumerDone
    <3> QED BY <3>1, <3>2 DEF Types, ServerType
  <2>5. Locks'
    BY <1>0, <1>5 DEF Types, ServerType, Locks, Tasks, ConsumerDone
  <2>3. ServerType' /\ Locks'
    BY <1>5, <2>4, <2>5 DEF Types, ServerType, ConsumerDone, history
  <2> QED BY <1>5, <2>2, <2>3 DEF Types, DumpType, ConsumerDone
<1>6. CASE UnlockEndPoint(d)
  <2>1. ServerType'
    BY <1>0, <1>6 DEF Types, ServerType, EndPoint, Tasks, UnlockEndPoint, Waiting, history
  <2>2. Locks'
    BY <1>0, <1>6 DEF Types, ServerType, Locks, EndPoint, Tasks, UnlockEndPoint, Waiting
  <2> QED BY <1>6, <2>1, <2>2 DEF Types, DumpType, SubType, UnlockEndPoint, streamV
<1> QED BY <1>1, <1>2, <1>3, <1>4, <1>5, <1>6 DEF pushTask

LEMMA PushedType ==
  ASSUME NEW ep \in EndPoint, NEW m \in Msgs, Len(ep.inbox) <= Retention + 1
  PROVE  /\ Notified(Pushed(ep, m)) \in EndPoint
         /\ Notified(Pushed(ep, m)).inbox
               = Append(IF Len(ep.inbox) > Retention THEN Tail(ep.inbox) ELSE ep.inbox, m)
         /\ Len(Notified(Pushed(ep, m)).inbox) <= Retention + 1
         /\ Notified(Pushed(ep, m)).consumers = ep.consumers
         /\ Notified(Pushed(ep, m)).mu = ep.mu /\ Notified(Pushed(ep, m)).ready
         /\ Notified(Pushed(ep, m)).start = IF Len(ep.inbox) > Retention THEN ep.start + 1 ELSE ep.start
<1> DEFINE q == IF Len(ep.inbox) > Retention THEN Tail(ep.inbox) ELSE ep.inbox
           s == IF Len(ep.inbox) > Retention THEN ep.start + 1 ELSE ep.start
           e == [ep EXCEPT !.inbox = Append(q, m), !.start = s]
<1>0. Retention \in Nat \ {0} /\ ep.inbox \in Seq(Msgs) /\ ep.start \in Nat
  BY BoundsAssumption DEF EndPoint
<1>1. q \in Seq(Msgs) /\ Len(q) <= Retention
  <2>1. CASE Len(ep.inbox) > Retention
    <3>1. ep.inbox # <<>>
      BY <1>0, <2>1
    <3> QED BY <1>0, <2>1, <3>1, TailFrom
  <2> QED BY <1>0, <2>1
<1>2. Append(q, m) \in Seq(Msgs) /\ Len(Append(q, m)) <= Retention + 1
  BY <1>0, <1>1, AppendedTo
<1>3. s \in Nat
  BY <1>0
<1>4. Pushed(ep, m) = e
  BY DEF Pushed, EndPoint
<1> HIDE DEF q, s
<1>5. e \in EndPoint /\ e.inbox = Append(q, m) /\ e.start = s /\ e.consumers = ep.consumers /\ e.mu = ep.mu
  BY <1>2, <1>3 DEF EndPoint
<1> HIDE DEF e
<1> QED BY <1>2, <1>4, <1>5 DEF Notified, EndPoint, q, s

\* The message receive is about to apply is one of the topic.
LEMMA AppliedOne ==
  ASSUME Types, Position, recv.pc \in {"lock", "apply"}
  PROVE  /\ recv.msg \in Msgs /\ recv.msg \in 1 .. Len(topic) /\ topic[recv.msg] \in Ids
         /\ Base \in Nat
<1>1. /\ Base \in Nat /\ recv.msg = Base + 1 /\ recv.msg <= Len(topic) /\ Len(topic) <= MaxMsgs
      /\ topic \in Seq(Ids) /\ MaxMsgs \in Nat
  BY BoundsAssumption DEF Types, ServerType, Position, Base, Newest
<1> QED BY <1>1 DEF Msgs

LEMMA ReceiveTypes ==
  ASSUME Types, Position, receive
  PROVE  Types'
<1>0. recv \in Recvs /\ MaxMsgs \in Nat /\ Len(topic) \in Nat /\ kafkaOffset \in 0 .. MaxMsgs
  BY BoundsAssumption DEF Types, ServerType
<1>1. CASE Connect
  <2>0. (IF kafkaOffset = Newest THEN Len(topic) + 1 ELSE kafkaOffset) \in Nat
    BY <1>0
  <2>2. recv' \in Recvs
    BY <1>0, <1>1, <2>0 DEF Recvs, Connect
  <2>3. joined' \in Nat
    BY <1>0, <1>1 DEF Types, ServerType, Connect
  <2>1. ServerType'
    BY <1>1, <2>2, <2>3 DEF Types, ServerType, Connect
  <2> QED BY <1>1, <2>1 DEF Types, DumpType, SubType, Locks, Connect, streamV
<1>2. CASE ReadMessage
  <2>1. recv.pos \in 0 .. MaxMsgs
    BY <1>0, <1>2 DEF Types, ServerType, ReadMessage, Recvs
  <2>2. recv' \in Recvs
    <3>1. \/ recv' = [recv EXCEPT !.pc = "lock", !.msg = recv.pos, !.pos = @ + 1,
                                  !.found = topic[recv.pos] \in reg]
          \/ recv' = [recv EXCEPT !.pos = @ + 1]
      BY <1>2 DEF ReadMessage
    <3>2. (topic[recv.pos] \in reg) \in BOOLEAN
      OBVIOUS
    <3>3. recv.pos + 1 \in Nat
      BY <1>0, <2>1
    <3> QED BY <1>0, <2>1, <3>1, <3>2, <3>3 DEF Recvs
  <2>3. ServerType'
    BY <1>2, <2>2 DEF Types, ServerType, ReadMessage, history
  <2> QED BY <1>2, <2>3 DEF Types, DumpType, SubType, Locks, ReadMessage, streamV
<1>3. CASE LockServer
  <2>1. ServerType'
    BY <1>0, <1>3 DEF Types, ServerType, Recvs, LockServer, history
  <2> QED BY <1>3, <2>1 DEF Types, DumpType, SubType, Locks, LockServer, streamV
<1>4. CASE Apply
  <2> DEFINE d == topic[recv.msg]
  <2>1. recv.msg \in Msgs /\ d \in Ids
    BY <1>4, AppliedOne DEF Apply
  <2>2. eps[d] \in EndPoint /\ Len(eps[d].inbox) <= Retention + 1
    BY <2>1 DEF Types, ServerType, Locks
  <2>3. /\ Notified(Pushed(eps[d], recv.msg)) \in EndPoint
        /\ Len(Notified(Pushed(eps[d], recv.msg)).inbox) <= Retention + 1
        /\ Notified(Pushed(eps[d], recv.msg)).mu = eps[d].mu
    BY <2>1, <2>2, PushedType
  <2>4. eps' = [eps EXCEPT ![d] = Notified(Pushed(eps[d], recv.msg))] \/ eps' = eps
    BY <1>4 DEF Apply
  <2> HIDE DEF d
  <2>5. /\ eps' \in [Ids -> EndPoint]
        /\ \A e \in Ids : Len(eps'[e].inbox) <= Retention + 1 /\ eps'[e].mu = eps[e].mu
    BY <2>1, <2>3, <2>4 DEF Types, ServerType, Locks
  <2>6. ServerType'
    BY <1>0, <1>4, <2>5 DEF Types, ServerType, Recvs, Apply, history
  <2>7. Locks'
    BY <1>4, <2>5 DEF Types, Locks, Apply
  <2> QED BY <1>4, <2>6, <2>7 DEF Types, DumpType, SubType, Apply, streamV
<1> QED BY <1>1, <1>2, <1>3, <1>4 DEF receive

LEMMA MarshalType ==
  ASSUME NEW ep \in EndPoint
  PROVE  /\ Marshal(ep) \in EndPoint /\ Marshal(ep).mu = "free" /\ Marshal(ep).consumers = {}
         /\ Marshal(ep).inbox = ep.inbox
  BY NewEndPointType DEF Marshal, EndPoint, newEndPoint

LEMMA DumpTypes ==
  ASSUME Types, persistence_task
  PROVE  Types'
<1> DEFINE D == [pc : {"idle", "eps", "commit"}, todo : SUBSET Ids, image : Image]
<1>0. dump \in D /\ disk \in Image /\ reg \in SUBSET Ids /\ kafkaOffset \in 0 .. MaxMsgs
  BY DEF Types, ServerType, DumpType
<1>1. CASE DumpLock
  <2>1. DumpType'
    BY <1>0, <1>1 DEF Types, DumpType, DumpLock, Image
  <2>2. ServerType'
    BY <1>1 DEF Types, ServerType, DumpLock, history
  <2> QED BY <1>1, <2>1, <2>2 DEF Types, SubType, Locks, DumpLock, streamV
<1>2. ASSUME NEW d \in Ids, DumpEndPoint(d) PROVE Types'
  <2>1. Marshal(eps[d]) \in EndPoint /\ Marshal(eps[d]).mu = "free" /\ Marshal(eps[d]).consumers = {}
    BY MarshalType DEF Types, ServerType
  <2>2. /\ dump'.pc = dump.pc /\ dump'.todo = dump.todo \ {d}
        /\ dump'.image = [dump.image EXCEPT !.eps[d] = Marshal(eps[d])]
        /\ dump' = [pc |-> dump'.pc, todo |-> dump'.todo, image |-> dump'.image]
    BY <1>0, <1>2 DEF DumpEndPoint
  <2>3. dump'.image \in Image
    BY <1>0, <2>1, <2>2 DEF Image
  <2>4. \A e \in Ids : dump'.image.eps[e].mu = "free" /\ dump'.image.eps[e].consumers = {}
    BY <1>0, <2>1, <2>2 DEF Types, DumpType, Image
  <2>5. DumpType'
    BY <1>0, <1>2, <2>2, <2>3, <2>4 DEF Types, DumpType, DumpEndPoint
  <2> QED BY <1>2, <2>5 DEF Types, ServerType, SubType, Locks, DumpEndPoint, streamV, history
<1>3. CASE DumpUnlock
  <2>1. DumpType'
    BY <1>0, <1>3 DEF Types, DumpType, DumpUnlock
  <2> QED BY <1>3, <2>1 DEF Types, ServerType, SubType, Locks, DumpUnlock, streamV, history
<1>4. CASE DumpCommit
  <2>1. DumpType'
    BY <1>0, <1>4, NoDumpType DEF Types, DumpType, DumpCommit
  <2> QED BY <1>4, <2>1 DEF Types, ServerType, SubType, Locks, DumpCommit, streamV, history
<1> QED BY <1>1, <1>2, <1>3, <1>4 DEF persistence_task

LEMMA TrimmedType ==
  ASSUME NEW ep \in EndPoint
  PROVE  /\ Trimmed(ep) \in EndPoint /\ Len(Trimmed(ep).inbox) <= Retention
         /\ Trimmed(ep).mu = ep.mu /\ Trimmed(ep).consumers = ep.consumers
         /\ Trimmed(ep).inbox = IF Len(ep.inbox) > Retention
                                THEN SubSeq(ep.inbox, Len(ep.inbox) - Retention + 1, Len(ep.inbox))
                                ELSE ep.inbox
<1>0. Retention \in Nat \ {0} /\ ep.inbox \in Seq(Msgs)
  BY BoundsAssumption DEF EndPoint
<1>1. CASE Len(ep.inbox) > Retention
  <2> DEFINE q == SubSeq(ep.inbox, Len(ep.inbox) - Retention + 1, Len(ep.inbox))
  <2>1. q \in Seq(Msgs) /\ Len(q) = Retention
    BY <1>0, <1>1
  <2>2. Trimmed(ep) = [ep EXCEPT !.inbox = q]
    BY <1>1 DEF Trimmed
  <2> HIDE DEF q
  <2>3. Trimmed(ep) \in EndPoint /\ Trimmed(ep).inbox = q
        /\ Trimmed(ep).mu = ep.mu /\ Trimmed(ep).consumers = ep.consumers
    BY <2>1, <2>2 DEF EndPoint
  <2> QED BY <1>0, <1>1, <2>1, <2>3 DEF q
<1> QED BY <1>0, <1>1 DEF Trimmed

LEMMA RestartTypes ==
  ASSUME Types, Crash \/ Restore
  PROVE  Types'
<1>1. CASE Crash
  <2> DEFINE T == [n : Msgs, off : Nat]
  <2>0. <<>> \in Seq(T)
    OBVIOUS
  <2>1. SubType'
    <3>1. sub' \in [Subs -> SubCalls]
      BY <1>1 DEF Types, SubType, SubCalls, Crash
    <3>2. wire' \in [Subs -> Seq(T)]
      BY <1>1, <2>0 DEF Crash
    <3> QED BY <1>1, <3>1, <3>2 DEF Types, SubType, Crash
  <2> QED BY <1>1, <2>1 DEF Types, ServerType, DumpType, Locks, Crash
<1>2. CASE Restore
  <2>1. \A d \in Ids : disk.eps[d] \in EndPoint /\ disk.reg \subseteq Ids
                       /\ disk.kafkaOffset \in 0 .. MaxMsgs /\ disk.eps[d].mu = "free"
    BY DEF Types, DumpType, Image
  <2>2. /\ eps' \in [Ids -> EndPoint]
        /\ \A d \in Ids : Len(eps'[d].inbox) <= Retention /\ eps'[d].mu = "free"
    BY <1>2, <2>1, TrimmedType DEF Restore
  <2>3. ServerType'
    <3>1. Waiting \in Tasks /\ recv' \in Recvs
      BY <1>2, BoundsAssumption DEF Waiting, Tasks, Recvs, Restore
    <3>2. task' \in [Ids -> Tasks]
      BY <1>2, <3>1 DEF Restore
    <3>3. reg' \subseteq Ids /\ kafkaOffset' \in 0 .. MaxMsgs
      BY <1>2 DEF Types, DumpType, Image, Restore
    <3> QED BY <1>2, <2>2, <3>1, <3>2, <3>3 DEF Types, ServerType, Restore, history
  <2>4. Locks'
    BY <1>2, <2>2, BoundsAssumption DEF Locks, Restore, Waiting, EndPoint
  <2>5. DumpType'
    BY <1>2, NoDumpType DEF Types, DumpType, Restore
  <2> QED BY <1>2, <2>3, <2>4, <2>5 DEF Types, SubType, Restore, streamV
<1> QED BY <1>1, <1>2

-----------------------------------------------------------------------------
(* The messages, action by action. *)

LEMMA StartsType == Types => Starts \in [Ids -> Nat] /\ \A d \in Ids : Starts[d] = Since(d)
  BY DEF Types, ServerType, Starts, Since

LEMMA TailsOn ==
  ASSUME NEW t \in Seq(Ids), NEW u \in Seq(Ids), NEW D \in SUBSET Ids,
         NEW e \in [Ids -> EndPoint], NEW hi \in 0 .. MaxMsgs,
         NEW lo \in [Ids -> Nat], NEW lo2 \in [Ids -> Nat],
         \A k \in 1 .. hi : u[k] = t[k], hi = 0 \/ \A d \in D : lo[d] <= lo2[d],
         Tails(t, D, e, lo, hi)
  PROVE  Tails(u, D, e, lo2, hi)
<1> SUFFICES ASSUME NEW d \in D PROVE Holds(u, d, e[d].inbox, lo2[d], hi)
  BY DEF Tails
<1>1. d \in Ids /\ e[d].inbox \in Seq(Msgs) /\ lo[d] \in Nat /\ lo2[d] \in Nat
  BY DEF EndPoint
<1>2. Holds(t, d, e[d].inbox, lo[d], hi)
  BY DEF Tails
<1> QED BY <1>1, <1>2, HoldsOn

LEMMA TailsSame ==
  ASSUME NEW t, NEW D, NEW e, NEW f, NEW lo, NEW hi, Tails(t, D, e, lo, hi),
         \A d \in D : f[d].inbox = e[d].inbox
  PROVE  Tails(t, D, f, lo, hi)
  BY DEF Tails

LEMMA InitMInv == Init => MInv
<1> SUFFICES ASSUME Init PROVE MInv
  OBVIOUS
<1>1. Types
  BY InitTypes
<1>2. Position /\ Registered /\ Inboxes
  BY DEF Init, Position, Registered, Inboxes, Tails, NoDump, Newest, Base
<1>3. Images
  BY DEF Init, Images, Valid, Tails, NoDump, Newest
<1> QED BY <1>1, <1>2, <1>3 DEF MInv

\* A step that leaves alone what receive and the dump work on.
LEMMA Undisturbed ==
  ASSUME MInv, Types', UNCHANGED <<topic, reg, kafkaOffset, sLock, recv, dump, disk, regAt, joined>>,
         \A d \in Ids : eps'[d].inbox = eps[d].inbox
  PROVE  MInv'
<1>0. Starts' = Starts /\ Base' = Base
  BY DEF Starts, Since, Base
<1>1. reg \subseteq Ids
  BY DEF MInv, Types, ServerType
<1>2. Position' /\ Registered'
  BY <1>0, <1>1 DEF MInv, Position, Registered
<1>3. Inboxes'
  BY <1>0, <1>1, TailsSame DEF MInv, Inboxes
<1>4. Images'
  BY <1>0 DEF MInv, Images, Valid
<1> QED BY <1>2, <1>3, <1>4 DEF MInv

\* Images stay right while the topic grows, receive takes messages, endpoints
\* are registered, and receive starts anew with nothing taken.
LEMMA ImagesOn ==
  ASSUME MInv, Types', UNCHANGED <<dump, disk>>, kafkaOffset <= kafkaOffset', reg \subseteq reg',
         \A k \in 1 .. kafkaOffset : topic'[k] = topic[k],
         kafkaOffset = Newest \/ (joined' = joined /\ \A d \in reg : Starts'[d] = Starts[d]),
         dump.pc = "eps" => reg' = reg /\ kafkaOffset' = kafkaOffset
  PROVE  Images'
<1>0. /\ MaxMsgs \in Nat /\ kafkaOffset \in 0 .. MaxMsgs /\ kafkaOffset' \in 0 .. MaxMsgs
      /\ reg \in SUBSET Ids /\ topic \in Seq(Ids) /\ topic' \in Seq(Ids)
      /\ Starts \in [Ids -> Nat] /\ Starts' \in [Ids -> Nat]
  BY BoundsAssumption, StartsType DEF MInv, Types, ServerType, Starts, Since
<1>1. ASSUME NEW D \in SUBSET reg, NEW e \in [Ids -> EndPoint], NEW hi \in 0 .. MaxMsgs,
             hi <= kafkaOffset, Tails(topic, D, e, Starts, hi)
      PROVE  Tails(topic', D, e, Starts', hi)
  <2>1. \A k \in 1 .. hi : topic'[k] = topic[k]
    BY <1>0, <1>1
  <2>2. hi = 0 \/ \A x \in D : Starts[x] <= Starts'[x]
    BY <1>0, <1>1 DEF Newest
  <2> QED BY <1>0, <1>1, <2>1, <2>2, TailsOn
<1>2. disk \in Image /\ dump.image \in Image
  BY DEF MInv, Types, DumpType
<1>3. ASSUME NEW I \in Image, NEW D \in SUBSET reg, Valid(I, D)
      PROVE  /\ I.reg \subseteq reg' /\ I.kafkaOffset <= kafkaOffset'
             /\ I.kafkaOffset # Newest => joined' <= I.kafkaOffset
             /\ Tails(topic', D, I.eps, Starts', I.kafkaOffset)
  <2>1. /\ I.reg \subseteq reg /\ I.kafkaOffset <= kafkaOffset /\ I.kafkaOffset \in 0 .. MaxMsgs
        /\ I.eps \in [Ids -> EndPoint] /\ Tails(topic, D, I.eps, Starts, I.kafkaOffset)
        /\ I.kafkaOffset # Newest => joined <= I.kafkaOffset
    BY <1>3 DEF Valid, Image
  <2>2. Tails(topic', D, I.eps, Starts', I.kafkaOffset)
    BY <1>1, <2>1
  <2>3. I.kafkaOffset # Newest => joined' <= I.kafkaOffset
    BY <1>0, <2>1 DEF Newest
  <2>4. I.kafkaOffset <= kafkaOffset'
    BY <1>0, <2>1
  <2> QED BY <2>1, <2>2, <2>3, <2>4
<1>4. Valid(disk, disk.reg)'
  <2>1. Valid(disk, disk.reg) /\ disk.reg \in SUBSET reg
    BY DEF MInv, Images, Valid
  <2> QED BY <1>2, <1>3, <2>1 DEF Valid
<1>5. ASSUME dump.pc = "eps" PROVE Valid(dump.image, reg \ dump.todo)' /\ (dump.image.reg = reg)'
                                   /\ (dump.image.kafkaOffset = kafkaOffset)'
  <2>1. Valid(dump.image, reg \ dump.todo) /\ reg' = reg /\ reg \ dump.todo \in SUBSET reg
    BY <1>5 DEF MInv, Images
  <2>2. dump.image.reg = reg /\ dump.image.kafkaOffset = kafkaOffset
    BY <1>5 DEF MInv, Images
  <2> QED BY <1>2, <1>3, <1>5, <2>1, <2>2 DEF Valid
<1>6. ASSUME dump.pc = "commit" PROVE Valid(dump.image, dump.image.reg)'
  <2>1. Valid(dump.image, dump.image.reg) /\ dump.image.reg \in SUBSET reg
    BY <1>6 DEF MInv, Images, Valid
  <2> QED BY <1>2, <1>3, <2>1 DEF Valid
<1> QED BY <1>4, <1>5, <1>6 DEF Images

LEMMA ProduceMessages ==
  ASSUME MInv, NEW d \in Ids, Produce(d), Types'
  PROVE  MInv'
<1>0. /\ topic \in Seq(Ids) /\ topic' = Append(topic, d) /\ topic' \in Seq(Ids)
      /\ Len(topic') = Len(topic) + 1
      /\ \A k \in 1 .. Len(topic) : topic'[k] = topic[k]
      /\ UNCHANGED <<reg, eps, kafkaOffset, sLock, recv, dump, disk, regAt, joined>>
  <2>1. topic \in Seq(Ids) /\ topic' = Append(topic, d)
    BY DEF MInv, Types, ServerType, Produce
  <2> QED BY <2>1, AppendedTo DEF Produce, history
<1>1. Starts' = Starts /\ Base' = Base /\ Starts \in [Ids -> Nat]
  BY <1>0, StartsType DEF Starts, Since, Base, MInv
<1>2. /\ MaxMsgs \in Nat /\ kafkaOffset \in 0 .. MaxMsgs /\ joined \in Nat /\ Base \in Nat
      /\ kafkaOffset <= Len(topic) /\ reg \subseteq Ids /\ regAt \in [Ids -> Nat] /\ Len(topic) \in Nat
  BY BoundsAssumption DEF MInv, Types, ServerType, Position, Base
<1>3. Position'
  <2>1. /\ joined' <= Len(topic') /\ kafkaOffset' <= Len(topic')
    BY <1>0, <1>2 DEF MInv, Position
  <2>2. ASSUME recv.pc \in {"lock", "apply"}
        PROVE  recv.msg \in 1 .. Len(topic) /\ topic'[recv.msg] = topic[recv.msg]
               /\ recv.msg <= Len(topic')
    BY <1>0, <1>2, <2>2, AppliedOne DEF MInv
  <2> QED BY <1>0, <1>1, <2>1, <2>2 DEF MInv, Position
<1>4. Registered'
  BY <1>0, <1>2 DEF MInv, Registered
<1>5. Inboxes'
  <2>1. \A k \in 1 .. kafkaOffset : topic'[k] = topic[k]
    BY <1>0, <1>2
  <2>2. eps \in [Ids -> EndPoint] /\ Tails(topic, reg, eps, Starts, kafkaOffset)
    BY DEF MInv, Inboxes, Types, ServerType
  <2>3. \A x \in reg : Starts[x] <= Starts[x]
    BY <1>1, <1>2
  <2>4. Tails(topic', reg, eps, Starts, kafkaOffset)
    BY <1>0, <1>1, <1>2, <2>1, <2>2, <2>3, TailsOn
  <2> QED BY <1>0, <1>1, <2>4 DEF Inboxes
<1>6. Images'
  BY <1>0, <1>1, <1>2, ImagesOn
<1> QED BY <1>3, <1>4, <1>5, <1>6 DEF MInv

LEMMA RegMessages ==
  ASSUME MInv, NEW d \in Ids, Reg(d), Types'
  PROVE  MInv'
<1>0. /\ d \notin reg /\ reg' = reg \cup {d} /\ eps' = [eps EXCEPT ![d] = newEndPoint]
      /\ regAt' = [regAt EXCEPT ![d] = Len(topic)] /\ sLock = "free"
      /\ UNCHANGED <<topic, kafkaOffset, sLock, recv, dump, disk, joined>>
  BY DEF Reg
<1>1. /\ kafkaOffset \in 0 .. MaxMsgs /\ joined \in Nat /\ Base \in Nat /\ kafkaOffset \in Nat
      /\ kafkaOffset <= Len(topic) /\ joined <= Len(topic) /\ reg \subseteq Ids
      /\ regAt \in [Ids -> Nat] /\ Len(topic) \in Nat /\ eps \in [Ids -> EndPoint]
      /\ topic \in Seq(Ids)
  BY BoundsAssumption DEF MInv, Types, ServerType, Position, Base
<1>2. /\ Base' = Base /\ eps'[d].inbox = <<>> /\ regAt'[d] = Len(topic)
      /\ \A e \in Ids : e # d => eps'[e] = eps[e] /\ regAt'[e] = regAt[e]
  BY <1>0, <1>1 DEF Base, newEndPoint
<1>3. Starts \in [Ids -> Nat] /\ Starts' \in [Ids -> Nat]
      /\ Starts'[d] = Len(topic) /\ \A e \in Ids : e # d => Starts'[e] = Starts[e]
  BY <1>0, <1>1, <1>2, StartsType DEF Starts, Since, MInv
<1>4. Position'
  <2>1. recv.pc \in {"lock", "apply"} => recv.msg \in 1 .. Len(topic) /\ topic[recv.msg] \in Ids
    BY AppliedOne DEF MInv
  <2> QED BY <1>0, <1>1, <1>2, <2>1 DEF MInv, Position
<1>5. Registered'
  BY <1>0, <1>1, <1>2 DEF MInv, Registered
<1>6. Inboxes'
  <2>1. Holds(topic, d, <<>>, Len(topic), kafkaOffset)
    BY <1>1, HoldsNone
  <2>2. \A e \in reg : e # d /\ e \in Ids /\ Holds(topic, e, eps[e].inbox, Starts[e], kafkaOffset)
    BY <1>0, <1>1 DEF MInv, Inboxes, Tails
  <2> QED BY <1>0, <1>2, <1>3, <2>1, <2>2 DEF Inboxes, Tails
<1>7. Images'
  <2>1. \A e \in reg : Starts'[e] = Starts[e]
    BY <1>0, <1>1, <1>3
  <2>2. dump.pc # "eps"
    BY <1>0 DEF MInv, Position
  <2>3. \A k \in 1 .. kafkaOffset : topic'[k] = topic[k]
    BY <1>0
  <2>4. reg \subseteq reg' /\ kafkaOffset <= kafkaOffset' /\ joined' = joined /\ UNCHANGED <<dump, disk>>
    BY <1>0, <1>1
  <2> QED BY <2>1, <2>2, <2>3, <2>4, ImagesOn
<1> QED BY <1>4, <1>5, <1>6, <1>7 DEF MInv

LEMMA BaseType ==
  Types /\ Position => /\ Base \in Nat /\ Base <= Len(topic) /\ joined <= Base /\ kafkaOffset <= Base
                       /\ joined \in Nat /\ kafkaOffset \in Nat /\ Len(topic) \in Nat /\ Base <= MaxMsgs
                       /\ recv.pos \in Nat /\ MaxMsgs \in Nat
  BY BoundsAssumption DEF Types, ServerType, Position, Base, Newest, Recvs

LEMMA ConnectMessages ==
  ASSUME MInv, Connect, Types'
  PROVE  MInv'
<1>0. /\ recv.pc = "connect" /\ joined' = IF kafkaOffset = Newest THEN Len(topic) ELSE joined
      /\ UNCHANGED <<topic, reg, eps, kafkaOffset, sLock, dump, disk, regAt>>
  BY DEF Connect
<1>1. /\ recv'.pc = "read" /\ recv'.pos = IF kafkaOffset = Newest THEN Len(topic) + 1 ELSE kafkaOffset
  BY DEF Connect, MInv, Types, ServerType, Recvs
<1>2. /\ joined \in Nat /\ kafkaOffset \in Nat /\ Len(topic) \in Nat /\ joined <= Len(topic)
      /\ kafkaOffset <= Len(topic) /\ kafkaOffset \in 0 .. MaxMsgs
      /\ topic \in Seq(Ids) /\ reg \in SUBSET Ids /\ eps \in [Ids -> EndPoint]
  BY BaseType DEF MInv, Types, ServerType, Position
<1>3. /\ Starts \in [Ids -> Nat] /\ Starts' \in [Ids -> Nat]
      /\ kafkaOffset # Newest => joined' = joined /\ \A d \in reg : Starts'[d] = Starts[d]
      /\ \A d \in reg : Starts[d] <= Starts'[d]
  <2>1. joined <= joined' /\ joined' \in Nat /\ regAt \in [Ids -> Nat]
    BY <1>0, <1>2 DEF MInv, Types, ServerType
  <2>2. \A d \in Ids : Starts[d] = Since(d) /\ Starts'[d] = Since(d)' /\ regAt[d] \in Nat /\ regAt'[d] = regAt[d]
    BY <1>0, <2>1 DEF Starts
  <2>3. \A d \in Ids : Since(d) \in Nat /\ Since(d)' \in Nat /\ Since(d) <= Since(d)'
    BY <1>2, <2>1, <2>2 DEF Since
  <2>4. kafkaOffset # Newest => \A d \in Ids : Since(d)' = Since(d)
    BY <1>0 DEF Since
  <2> QED BY <1>0, <1>2, <2>2, <2>3, <2>4 DEF Starts
<1>4. Position'
  <2>1. joined' <= Len(topic) /\ (kafkaOffset # Newest => joined' <= kafkaOffset)
    BY <1>0, <1>2 DEF MInv, Position
  <2>2. recv'.pos \in 1 .. Base' + 1 /\ (kafkaOffset = Newest => recv'.pos = joined' + 1)
    BY <1>0, <1>1, <1>2 DEF Base, Newest
  <2> QED BY <1>0, <1>1, <1>2, <2>1, <2>2 DEF MInv, Position
<1>5. Registered'
  BY <1>0 DEF MInv, Registered
<1>6. Inboxes'
  <2>1. Tails(topic, reg, eps, Starts, kafkaOffset)
    BY DEF MInv, Inboxes
  <2>2. kafkaOffset = 0 \/ \A d \in reg : Starts[d] <= Starts'[d]
    BY <1>3
  <2>3. \A k \in 1 .. kafkaOffset : topic[k] = topic[k]
    OBVIOUS
  <2>4. Tails(topic, reg, eps, Starts', kafkaOffset)
    BY <1>2, <1>3, <2>1, <2>2, <2>3, TailsOn
  <2> QED BY <1>0, <2>4 DEF Inboxes
<1>7. Images'
  BY <1>0, <1>2, <1>3, ImagesOn
<1> QED BY <1>4, <1>5, <1>6, <1>7 DEF MInv

LEMMA ReadMessages ==
  ASSUME MInv, ReadMessage \/ LockServer, Types'
  PROVE  MInv'
<1>0. UNCHANGED <<topic, reg, eps, kafkaOffset, dump, disk, regAt, joined>>
  BY DEF ReadMessage, LockServer, history
<1>1. /\ Base' = Base /\ Starts' = Starts /\ recv \in Recvs /\ Types /\ Position
  BY <1>0 DEF Base, Starts, Since, MInv, Types, ServerType
<1>2. Position'
  <2>1. CASE ReadMessage /\ IsNew(recv.pos)
    <3>1. /\ recv'.pc = "lock" /\ recv'.msg = recv.pos /\ recv'.pos = recv.pos + 1
          /\ recv'.found = (topic[recv.pos] \in reg) /\ recv.pc = "read" /\ recv.pos <= Len(topic)
          /\ sLock' = sLock
      BY <1>1, <2>1 DEF ReadMessage, Recvs
    <3>2. recv.pos = Base + 1
      BY <1>1, <2>1, <3>1, BaseType DEF Position, IsNew, Base, Newest
    <3> QED BY <1>0, <1>1, <3>1, <3>2 DEF Position
  <2>2. CASE ReadMessage /\ ~IsNew(recv.pos)
    <3>1. recv'.pc = "read" /\ recv'.pos = recv.pos + 1 /\ recv.pc = "read" /\ sLock' = sLock
      BY <1>1, <2>2 DEF ReadMessage, Recvs
    <3>2. kafkaOffset # Newest /\ recv.pos + 1 \in 1 .. Base + 1
      BY <1>1, <2>2, <3>1, BaseType DEF Position, IsNew, Base, Newest
    <3> QED BY <1>0, <1>1, <3>1, <3>2 DEF Position
  <2>3. CASE LockServer
    <3>1. /\ recv'.pc = "apply" /\ recv'.msg = recv.msg /\ recv'.pos = recv.pos
          /\ recv'.found = recv.found /\ recv.pc = "lock" /\ sLock = "free" /\ sLock' = "receive"
      BY <1>1, <2>3 DEF LockServer, Recvs
    <3> QED BY <1>0, <1>1, <3>1 DEF Position
  <2> QED BY <2>1, <2>2, <2>3
<1>3. Registered' /\ Inboxes' /\ Images'
  BY <1>0, <1>1 DEF MInv, Registered, Inboxes, Images, Valid
<1> QED BY <1>2, <1>3 DEF MInv

LEMMA ApplyMessages ==
  ASSUME MInv, Apply, Types'
  PROVE  MInv'
<1> DEFINE m == recv.msg
           t == topic[m]
<1>0. /\ kafkaOffset' = m /\ sLock' = "free" /\ recv' = [recv EXCEPT !.pc = "read"] /\ recv.pc = "apply"
      /\ \/ recv.found /\ eps' = [eps EXCEPT ![t] = Notified(Pushed(@, m))]
         \/ ~recv.found /\ eps' = eps
      /\ UNCHANGED <<topic, reg, dump, disk, regAt, joined>>
  BY DEF Apply, history
<1>1. /\ m \in Msgs /\ m \in 1 .. Len(topic) /\ t \in Ids /\ m = Base + 1 /\ recv.pos = m + 1
      /\ Types /\ Position /\ Starts' = Starts /\ topic \in Seq(Ids) /\ sLock = "receive"
  <2>1. Types /\ Position /\ Starts' = Starts /\ topic \in Seq(Ids)
    BY <1>0 DEF MInv, Starts, Since, Types, ServerType
  <2>2. m = Base + 1 /\ recv.pos = m + 1 /\ sLock = "receive"
    BY <1>0, <2>1 DEF Position
  <2> QED BY <1>0, <2>1, <2>2, AppliedOne
<1>2. /\ kafkaOffset < m /\ kafkaOffset <= m /\ joined < m /\ m \in Nat /\ kafkaOffset \in 0 .. MaxMsgs
      /\ m # Newest /\ m \in 0 .. MaxMsgs /\ m <= Len(topic) /\ Base' = m
  BY <1>0, <1>1, BaseType DEF Base, Newest, Msgs
<1>3. ASSUME NEW d \in reg
      PROVE  /\ d \in Ids /\ eps[d] \in EndPoint /\ eps[d].inbox \in Seq(Msgs) /\ Starts[d] \in Nat
             /\ Holds(topic, d, eps[d].inbox, Starts[d], kafkaOffset)
             /\ \A k \in kafkaOffset + 1 .. m - 1 : topic[k] = d => eps[d].inbox = <<>> /\ k <= Starts[d]
             /\ Len(eps[d].inbox) <= Retention + 1
  <2>1. /\ d \in Ids /\ eps[d] \in EndPoint /\ eps[d].inbox \in Seq(Msgs) /\ Starts[d] \in Nat
        /\ Len(eps[d].inbox) <= Retention + 1
    BY <1>1, StartsType DEF Types, ServerType, Locks, EndPoint
  <2>2. Holds(topic, d, eps[d].inbox, Starts[d], kafkaOffset)
    BY DEF MInv, Inboxes, Tails
  <2>3. CASE kafkaOffset # Newest
    <3>1. m - 1 = kafkaOffset
      BY <1>1, <1>2, <2>3 DEF Base
    <3> QED BY <1>2, <2>1, <2>2, <3>1
  <2>4. CASE kafkaOffset = Newest
    <3>1. m - 1 = joined
      BY <1>1, <1>2, <2>4, BaseType DEF Base
    <3>2. joined <= Starts[d]
      <4>1. Starts[d] = Since(d) /\ regAt[d] \in Nat /\ joined \in Nat
        BY <1>1, <2>1, StartsType DEF Types, ServerType
      <4> QED BY <4>1 DEF Since
    <3>3. eps[d].inbox = <<>>
      <4>1. Elements(eps[d].inbox) = {}
        BY <2>2, <2>4 DEF Holds, IsTail, Mine, Newest
      <4>2. Len(eps[d].inbox) = 0
        <5>1. Len(eps[d].inbox) # 0 => 1 \in 1 .. Len(eps[d].inbox)
          BY <2>1
        <5> QED BY <4>1, <5>1 DEF Elements
      <4> QED BY <2>1, <4>2
    <3>4. \A k \in kafkaOffset + 1 .. m - 1 : k <= Starts[d]
      BY <1>1, <1>2, <2>1, <2>4, <3>1, <3>2, BaseType DEF Newest
    <3> QED BY <2>1, <2>2, <3>3, <3>4
  <2> QED BY <2>3, <2>4
<1>4. ASSUME NEW d \in reg, ~(recv.found /\ t = d)
      PROVE  eps'[d] = eps[d] /\ Holds(topic, d, eps[d].inbox, Starts[d], m)
  <2>1. eps'[d] = eps[d]
    BY <1>0, <1>1, <1>3, <1>4 DEF Types, ServerType
  <2>2. t = d => eps[d].inbox = <<>> /\ m <= Starts[d]
    <3> SUFFICES ASSUME t = d PROVE eps[d].inbox = <<>> /\ m <= Starts[d]
      OBVIOUS
    <3>1. eps[d].inbox = <<>> /\ m <= regAt[d]
      BY <1>0, <1>1, <1>4 DEF Position
    <3>2. Starts[d] = Since(d) /\ regAt[d] \in Nat /\ joined \in Nat
      BY <1>1, <1>3, StartsType DEF Types, ServerType
    <3> QED BY <1>2, <3>1, <3>2 DEF Since
  <2>3. \A k \in kafkaOffset + 1 .. m : topic[k] = d => eps[d].inbox = <<>> /\ k <= Starts[d]
    BY <1>2, <1>3, <2>2
  <2>4. Holds(topic, d, eps[d].inbox, Starts[d], m)
    <3> HIDE DEF m
    <3> QED BY <1>1, <1>2, <1>3, <2>3, HoldsPast
  <2> QED BY <2>1, <2>4
<1>5. ASSUME NEW d \in reg, recv.found, t = d
      PROVE  Holds(topic, d, eps'[d].inbox, Starts[d], m)
  <2>1. eps'[d].inbox = Append(IF Len(eps[d].inbox) > Retention THEN Tail(eps[d].inbox) ELSE eps[d].inbox, m)
    <3>1. eps'[d] = Notified(Pushed(eps[d], m))
      BY <1>0, <1>1, <1>5 DEF Types, ServerType
    <3>2. eps[d] \in EndPoint /\ Len(eps[d].inbox) <= Retention + 1 /\ m \in Msgs
      BY <1>1, <1>3
    <3> HIDE DEF m
    <3>3. Notified(Pushed(eps[d], m)).inbox
            = Append(IF Len(eps[d].inbox) > Retention THEN Tail(eps[d].inbox) ELSE eps[d].inbox, m)
      BY <3>2, PushedType
    <3> QED BY <3>1, <3>3
  <2>2. Holds(topic, d, Append(IF Len(eps[d].inbox) > Retention THEN Tail(eps[d].inbox) ELSE eps[d].inbox, m),
              Starts[d], m)
    <3>1. topic[m] = d
      BY <1>5
    <3> HIDE DEF m
    <3> QED BY <1>1, <1>2, <1>3, <3>1, HoldsPushed
  <2> QED BY <2>1, <2>2
<1>6. Position'
  <2>1. recv'.pc = "read" /\ recv'.pos = recv.pos
    BY <1>0, <1>1 DEF Types, ServerType, Recvs
  <2>2. m + 1 \in 1 .. m + 1 /\ joined <= Len(topic) /\ joined <= m
    BY <1>1, <1>2, BaseType DEF Position
  <2>3. dump.pc # "eps"
    BY <1>1 DEF Position
  <2> QED BY <1>0, <1>1, <1>2, <2>1, <2>2, <2>3 DEF Position
<1>7. Registered'
  BY <1>0 DEF MInv, Registered
<1>8. Inboxes'
  BY <1>0, <1>1, <1>4, <1>5 DEF Inboxes, Tails
<1>9. Images'
  <2>1. dump.pc # "eps" /\ UNCHANGED <<dump, disk>> /\ kafkaOffset <= kafkaOffset' /\ reg \subseteq reg'
    BY <1>0, <1>1, <1>2 DEF Position
  <2>2. joined' = joined /\ \A d \in reg : Starts'[d] = Starts[d]
    BY <1>0, <1>1
  <2>3. \A k \in 1 .. kafkaOffset : topic'[k] = topic[k]
    BY <1>0
  <2> QED BY <2>1, <2>2, <2>3, ImagesOn
<1> QED BY <1>6, <1>7, <1>8, <1>9 DEF MInv

LEMMA DumpMessages ==
  ASSUME MInv, persistence_task, Types'
  PROVE  MInv'
<1>0. UNCHANGED <<topic, reg, eps, kafkaOffset, recv, regAt, joined>>
  BY DEF persistence_task, DumpLock, DumpEndPoint, DumpUnlock, DumpCommit, history
<1>1. /\ Base' = Base /\ Starts' = Starts /\ Types /\ Position
      /\ reg \subseteq Ids /\ eps \in [Ids -> EndPoint]
      /\ dump \in [pc : {"idle", "eps", "commit"}, todo : SUBSET Ids, image : Image] /\ disk \in Image
  BY <1>0 DEF Base, Starts, Since, MInv, Types, ServerType, DumpType
<1>2. Registered' /\ Inboxes'
  BY <1>0, <1>1 DEF MInv, Registered, Inboxes
<1>4. CASE DumpLock
  <2>1. /\ dump'.pc = "eps" /\ dump'.todo = reg /\ dump'.image.reg = reg
        /\ dump'.image.kafkaOffset = kafkaOffset /\ disk' = disk /\ sLock' = "dump"
        /\ sLock = "free" /\ dump.pc = "idle"
    BY <1>1, <1>4 DEF DumpLock, Image
  <2>2. Position'
    BY <1>0, <1>1, <2>1 DEF Position
  <2>3. Valid(disk, disk.reg)'
    BY <1>0, <1>1, <2>1 DEF MInv, Images, Valid
  <2>4. Valid(dump.image, reg \ dump.todo)'
    <3>1. reg' \ dump'.todo = {}
      BY <1>0, <2>1
    <3>2. kafkaOffset # Newest => joined <= kafkaOffset
      BY <1>1 DEF Position
    <3>3. kafkaOffset <= kafkaOffset
      BY <1>1, BaseType
    <3> QED BY <1>0, <2>1, <3>1, <3>2, <3>3 DEF Valid, Tails
  <2>5. Images'
    BY <1>0, <2>1, <2>3, <2>4 DEF Images
  <2> QED BY <1>2, <2>2, <2>5 DEF MInv
<1>5. ASSUME NEW d \in Ids, DumpEndPoint(d) PROVE MInv'
  <2>1. /\ dump'.pc = "eps" /\ dump'.todo = dump.todo \ {d} /\ dump.pc = "eps" /\ sLock' = sLock
        /\ dump'.image.reg = dump.image.reg /\ dump'.image.kafkaOffset = dump.image.kafkaOffset
        /\ dump'.image.eps[d] = Marshal(eps[d]) /\ disk' = disk
        /\ \A e \in Ids : e # d => dump'.image.eps[e] = dump.image.eps[e]
    BY <1>1, <1>5 DEF DumpEndPoint, Image
  <2>2. Position'
    BY <1>0, <1>1, <2>1 DEF Position
  <2>3. Valid(disk, disk.reg)'
    BY <1>0, <1>1, <2>1 DEF MInv, Images, Valid
  <2>4. Valid(dump.image, reg \ dump.todo) /\ dump.image.reg = reg /\ dump.image.kafkaOffset = kafkaOffset
    BY <2>1 DEF MInv, Images
  <2>5. ASSUME NEW e \in reg, e \notin dump'.todo
        PROVE  Holds(topic, e, dump'.image.eps[e].inbox, Starts[e], kafkaOffset)
    <3>1. CASE e = d
      <4>1. dump'.image.eps[d].inbox = eps[d].inbox
        BY <1>1, <2>1, MarshalType
      <4> QED BY <3>1, <4>1 DEF MInv, Inboxes, Tails
    <3>2. CASE e # d
      <4>1. e \in reg \ dump.todo /\ dump'.image.eps[e] = dump.image.eps[e]
        BY <1>1, <2>1, <2>5, <3>2
      <4> QED BY <2>4, <4>1 DEF Valid, Tails
    <3> QED BY <3>1, <3>2
  <2>6. Valid(dump.image, reg \ dump.todo)'
    BY <1>0, <1>1, <2>1, <2>4, <2>5 DEF Valid, Tails
  <2>7. Images'
    BY <1>0, <2>1, <2>3, <2>4, <2>6 DEF Images
  <2> QED BY <1>2, <2>2, <2>7 DEF MInv
<1>6. CASE DumpUnlock
  <2>1. /\ dump'.pc = "commit" /\ dump'.image = dump.image /\ dump.pc = "eps" /\ sLock' = "free"
        /\ dump.todo = {} /\ disk' = disk
    BY <1>1, <1>6 DEF DumpUnlock
  <2>2. Position'
    BY <1>0, <1>1, <2>1 DEF Position
  <2>3. Valid(disk, disk.reg)'
    BY <1>0, <1>1, <2>1 DEF MInv, Images, Valid
  <2>4. Valid(dump.image, dump.image.reg)
    BY <2>1 DEF MInv, Images
  <2>5. Valid(dump.image, dump.image.reg)'
    BY <1>0, <1>1, <2>1, <2>4 DEF Valid
  <2>7. Images'
    BY <2>1, <2>3, <2>5 DEF Images
  <2> QED BY <1>2, <2>2, <2>7 DEF MInv
<1>7. CASE DumpCommit
  <2>1. dump'.pc = "idle" /\ disk' = dump.image /\ dump.pc = "commit" /\ sLock' = sLock
    BY <1>7 DEF DumpCommit, NoDump
  <2>2. Position'
    BY <1>0, <1>1, <2>1 DEF Position
  <2>3. Valid(dump.image, dump.image.reg)
    BY <2>1 DEF MInv, Images
  <2>4. Valid(disk, disk.reg)'
    BY <1>0, <1>1, <2>1, <2>3 DEF Valid
  <2>7. Images'
    BY <2>1, <2>4 DEF Images
  <2> QED BY <1>2, <2>2, <2>7 DEF MInv
<1> QED BY <1>4, <1>5, <1>6, <1>7 DEF persistence_task

LEMMA RestoreMessages ==
  ASSUME MInv, Restore, Types'
  PROVE  MInv'
<1>0. /\ reg' = disk.reg /\ kafkaOffset' = disk.kafkaOffset /\ sLock' = "free" /\ dump' = NoDump
      /\ eps' = [d \in Ids |-> Trimmed(disk.eps[d])] /\ recv'.pc = "connect"
      /\ UNCHANGED <<topic, disk, regAt, joined>>
  BY DEF Restore, history
<1>1. Starts' = Starts /\ dump'.pc = "idle"
  BY <1>0 DEF Starts, Since, NoDump
<1>2. /\ disk.reg \subseteq reg /\ disk.kafkaOffset <= kafkaOffset /\ kafkaOffset <= Len(topic)
      /\ disk.kafkaOffset # Newest => joined <= disk.kafkaOffset
      /\ Tails(topic, disk.reg, disk.eps, Starts, disk.kafkaOffset)
      /\ disk.kafkaOffset \in 0 .. MaxMsgs /\ kafkaOffset \in Nat /\ Len(topic) \in Nat
      /\ topic \in Seq(Ids) /\ Starts \in [Ids -> Nat] /\ disk.reg \subseteq Ids /\ joined <= Len(topic)
  BY BaseType, StartsType DEF MInv, Types, ServerType, DumpType, Image, Position, Images, Valid
<1>3. Position'
  <2>1. disk.kafkaOffset <= Len(topic)
    BY <1>2
  <2> QED BY <1>0, <1>1, <1>2, <2>1 DEF Position
<1>4. Registered'
  BY <1>0, <1>2 DEF MInv, Registered
<1>5. Inboxes'
  <2>1. ASSUME NEW d \in disk.reg
        PROVE  Holds(topic, d, eps'[d].inbox, Starts[d], disk.kafkaOffset)
    <3>1. /\ d \in Ids /\ disk.eps[d] \in EndPoint /\ disk.eps[d].inbox \in Seq(Msgs) /\ Starts[d] \in Nat
          /\ Holds(topic, d, disk.eps[d].inbox, Starts[d], disk.kafkaOffset)
          /\ eps'[d] = Trimmed(disk.eps[d])
      BY <1>0, <1>2 DEF MInv, Types, DumpType, Image, EndPoint, Tails
    <3>2. eps'[d].inbox = IF Len(disk.eps[d].inbox) > Retention
                          THEN SubSeq(disk.eps[d].inbox, Len(disk.eps[d].inbox) - Retention + 1,
                                      Len(disk.eps[d].inbox))
                          ELSE disk.eps[d].inbox
      BY <3>1, TrimmedType
    <3>3. CASE Len(disk.eps[d].inbox) > Retention
      BY <1>2, <3>1, <3>2, <3>3, HoldsTrimmed
    <3>4. CASE ~(Len(disk.eps[d].inbox) > Retention)
      BY <3>1, <3>2, <3>4
    <3> QED BY <3>3, <3>4
  <2> QED BY <1>0, <1>1, <2>1 DEF Inboxes, Tails
<1>6. Images'
  <2>1. disk.kafkaOffset <= disk.kafkaOffset
    BY <1>2
  <2> QED BY <1>0, <1>1, <1>2, <2>1 DEF Images, Valid
<1> QED BY <1>3, <1>4, <1>5, <1>6 DEF MInv

LEMMA OtherMessages ==
  ASSUME MInv, Types',
         \/ \E c \in Subs : ClientRead(c) \/ ClientLeave(c) \/ Subscriber(c)
         \/ \E c \in Subs, d \in Ids, f \in {-1} \cup 1 .. MaxFrom : Subscribe(c, d, f)
         \/ \E d \in Ids : pushTask(d)
         \/ Crash \/ UNCHANGED vars
  PROVE  MInv'
<1>1. UNCHANGED <<topic, reg, kafkaOffset, sLock, recv, dump, disk, regAt, joined>>
  BY DEF ClientRead, ClientLeave, Subscribe, Subscriber, AddConsumer, NotifyAdded, RemoveConsumer,
         pushTask, TakeToken, LockEndPoint, NextConsumer, PushOne, ConsumerDone, UnlockEndPoint,
         Crash, vars, history
<1>2. \A e \in Ids : eps'[e].inbox = eps[e].inbox
  <2>0. eps \in [Ids -> EndPoint] /\ \A c \in Subs : sub[c].id \in Ids
    BY DEF MInv, Types, ServerType, SubType, SubCalls
  <2>1. ASSUME NEW c \in Subs, Subscriber(c) PROVE \A e \in Ids : eps'[e].inbox = eps[e].inbox
    <3>1. \A g \in EndPoint : Notified(g).inbox = g.inbox
      BY DEF Notified, EndPoint
    <3>2. CASE AddConsumer(c)
      BY <2>0, <3>2 DEF AddConsumer, EndPoint
    <3>3. CASE NotifyAdded(c)
      <4>1. eps' = [eps EXCEPT ![sub[c].id] = Notified(eps[sub[c].id])]
        BY <3>3 DEF NotifyAdded
      <4> QED BY <2>0, <3>1, <4>1
    <3>4. CASE RemoveConsumer(c)
      BY <2>0, <3>4 DEF RemoveConsumer, EndPoint
    <3> QED BY <2>1, <3>2, <3>3, <3>4 DEF Subscriber
  <2>2. ASSUME NEW d \in Ids, pushTask(d) PROVE \A e \in Ids : eps'[e].inbox = eps[e].inbox
    <3>1. CASE TakeToken(d)
      BY <2>0, <3>1 DEF TakeToken, EndPoint
    <3>2. CASE LockEndPoint(d)
      BY <2>0, <3>2 DEF LockEndPoint, EndPoint
    <3>3. CASE UnlockEndPoint(d)
      BY <2>0, <3>3 DEF UnlockEndPoint, EndPoint
    <3>4. CASE NextConsumer(d) \/ PushOne(d) \/ ConsumerDone(d)
      BY <3>4 DEF NextConsumer, PushOne, ConsumerDone
    <3> QED BY <2>2, <3>1, <3>2, <3>3, <3>4 DEF pushTask
  <2>3. ASSUME NEW c \in Subs, ClientRead(c) \/ ClientLeave(c) PROVE eps' = eps
    BY <2>3 DEF ClientRead, ClientLeave
  <2>4. ASSUME NEW c \in Subs, NEW d \in Ids, NEW f \in {-1} \cup 1 .. MaxFrom, Subscribe(c, d, f)
        PROVE  eps' = eps
    BY <2>4 DEF Subscribe
  <2>5. CASE Crash \/ UNCHANGED vars
    BY <2>5 DEF Crash, vars
  <2> QED BY <2>1, <2>2, <2>3, <2>4, <2>5
<1> QED BY <1>1, <1>2, Undisturbed

LEMMA SameTypes == Types /\ UNCHANGED vars => Types'
<1> SUFFICES ASSUME Types, UNCHANGED vars PROVE Types'
  OBVIOUS
<1>1. ServerType'
  BY DEF Types, ServerType, vars, history
<1>2. DumpType'
  BY DEF Types, DumpType, vars
<1>3. SubType'
  BY DEF Types, SubType, vars, streamV, history
<1>4. Locks'
  BY DEF Types, Locks, vars
<1> QED BY <1>1, <1>2, <1>3, <1>4 DEF Types

LEMMA NextMInv == MInv /\ [Next]_vars => MInv'
<1> SUFFICES ASSUME MInv, [Next]_vars PROVE MInv'
  OBVIOUS
<1>0. Types /\ Position
  BY DEF MInv
<1>1. ASSUME NEW d \in Ids, Produce(d) \/ Reg(d) \/ pushTask(d) PROVE MInv'
  <2>1. CASE pushTask(d)
    BY <1>0, <2>1, PushTypes, OtherMessages
  <2>2. CASE Produce(d)
    BY <1>0, <2>2, OutsideTypes, ProduceMessages
  <2>3. CASE Reg(d)
    BY <1>0, <2>3, OutsideTypes, RegMessages
  <2> QED BY <1>1, <2>1, <2>2, <2>3
<1>2. ASSUME NEW c \in Subs, ClientRead(c) \/ ClientLeave(c) \/ Subscriber(c) PROVE MInv'
  BY <1>0, <1>2, OutsideTypes, SubscriberTypes, OtherMessages
<1>3. ASSUME NEW c \in Subs, NEW d \in Ids, NEW f \in {-1} \cup 1 .. MaxFrom, Subscribe(c, d, f)
      PROVE  MInv'
  BY <1>0, <1>3, OutsideTypes, OtherMessages
<1>4. CASE receive
  <2>1. Types'
    BY <1>0, <1>4, ReceiveTypes
  <2> QED BY <1>4, <2>1, ConnectMessages, ReadMessages, ApplyMessages DEF receive
<1>5. CASE persistence_task
  BY <1>0, <1>5, DumpTypes, DumpMessages
<1>6. CASE Crash
  BY <1>0, <1>6, RestartTypes, OtherMessages
<1>7. CASE Restore
  BY <1>0, <1>7, RestartTypes, RestoreMessages
<1>8. CASE UNCHANGED vars
  BY <1>0, <1>8, SameTypes, OtherMessages
<1> QED BY <1>1, <1>2, <1>3, <1>4, <1>5, <1>6, <1>7, <1>8 DEF Next

LEMMA MInvIsInvariant == Spec => []MInv
  BY InitMInv, NextMInv, PTL DEF Spec

\* What the code keeps: messages are stored whole and within bounds, a lock of
\* an endpoint is its task's, an Inbox has at most one message too many.
THEOREM Typed == Spec => []TypeOK
<1>1. MInv => TypeOK
  <2> SUFFICES ASSUME MInv PROVE TypeOK
    OBVIOUS
  <2>1. sub \in [Subs -> [pc : {"idle", "found", "added", "live", "done"},
                          id : Ids, from : Int, offset : Nat, err : BOOLEAN]]
    BY DEF MInv, Types, SubType, SubCalls
  <2> QED BY <2>1 DEF MInv, Types, ServerType, DumpType, Locks, TypeOK, Tasks, Recvs
<1> QED BY <1>1, MInvIsInvariant, PTL

\* Across any number of crashes, dumps and replays of the topic, an Inbox has
\* no message twice, out of order or left out in the middle.
THEOREM InboxesAreTails == Spec => []InboxIsTail
<1>1. MInv => InboxIsTail
  BY DEF MInv, Inboxes, Tails, Holds, InboxIsTail
<1> QED BY <1>1, MInvIsInvariant, PTL

\* A restart loses no message of an Inbox that the retention says is kept,
\* unless receive has started from the newest ones.
THEOREM RetentionIsKept == Spec => []RetentionKept
<1>1. MInv => RetentionKept
  BY StartsType DEF MInv, Types, ServerType, Inboxes, Tails, Holds, RetentionKept
<1> QED BY <1>1, MInvIsInvariant, PTL

\* Query and Latest never index outside an Inbox.
THEOREM AnswersAreInInbox == Spec => []AnswersInInbox
<1>1. MInv => AnswersInInbox
  <2> SUFFICES ASSUME MInv, NEW d \in reg, NEW a \in 0 .. MaxMsgs + 1, NEW b \in 0 .. MaxMsgs + 1
               PROVE  Query(eps[d], a, b) \cup Latest(eps[d], a) \subseteq 0 .. Len(eps[d].inbox) - 1
    BY DEF AnswersInInbox
  <2>1. eps[d] \in EndPoint /\ MaxMsgs \in Nat
    BY BoundsAssumption DEF MInv, Types, ServerType
  <2>2. eps[d].start \in Nat /\ Len(eps[d].inbox) \in Nat
    BY <2>1, EndType
  <2>3. Query(eps[d], a, b) \subseteq 0 .. Len(eps[d].inbox) - 1
    BY <2>1, <2>2 DEF Query, QueryFrom, QueryTo, End
  <2>4. Latest(eps[d], a) \subseteq 0 .. Len(eps[d].inbox) - 1
    BY <2>1, <2>2 DEF Latest
  <2> QED BY <2>3, <2>4
<1> QED BY <1>1, MInvIsInvariant, PTL

-----------------------------------------------------------------------------
(* The subscribers, action by action. *)

LEMMA InitSInv == Init => SInv
<1> SUFFICES ASSUME Init PROVE SInv
  OBVIOUS
<1>1. \A c \in Subs : sub[c].pc = "idle" /\ seen[c] = <<>> /\ ~Served(c)
  BY DEF Init, Idle, Served
<1>2. \A d \in Ids : eps[d].consumers = {} /\ task[d].todo = {} /\ task[d].cur = <<>>
  BY DEF Init, newEndPoint, Waiting
<1>3. Members /\ Rising /\ Serving
  BY <1>1, <1>2 DEF Members, Member, Consumers, Rising, Serving
<1> QED BY <1>3, InitMInv DEF SInv

\* What a reader of these proofs needs of the types of one subscriber.
LEMMA CallType ==
  ASSUME Types, NEW c \in Subs
  PROVE  /\ sub[c] \in SubCalls /\ sub[c].id \in Ids /\ eps[sub[c].id] \in EndPoint
         /\ seen[c] \in Seq([n : Msgs, off : Nat])
         /\ Inbox(c) \in Seq(Msgs) /\ eps[sub[c].id].start \in Nat
         /\ sub[c].offset \in Nat /\ sub[c].from \in Int /\ task[sub[c].id] \in Tasks
         /\ FirstIndex(eps[sub[c].id], sub[c].offset) \in Nat
         /\ Passed(c) \in Nat /\ kafkaOffset \in Nat
         /\ \A i \in 1 .. Len(seen[c]) : seen[c][i].n \in Msgs /\ seen[c][i].n \in Nat
<1> DEFINE S == [n : Msgs, off : Nat]
<1>0. /\ sub[c] \in SubCalls /\ kafkaOffset \in Nat /\ eps \in [Ids -> EndPoint] /\ task \in [Ids -> Tasks]
      /\ seen[c] \in Seq(S)
  <2>1. seen \in [Subs -> Seq(S)] /\ sub \in [Subs -> SubCalls]
    BY DEF Types, SubType
  <2>2. kafkaOffset \in Nat /\ eps \in [Ids -> EndPoint] /\ task \in [Ids -> Tasks]
    BY BoundsAssumption DEF Types, ServerType
  <2> HIDE DEF S
  <2> QED BY <2>1, <2>2
<1>1. /\ sub[c] \in SubCalls /\ sub[c].id \in Ids /\ eps[sub[c].id] \in EndPoint
      /\ task[sub[c].id] \in Tasks
  BY <1>0 DEF SubCalls
<1>5. \A i \in 1 .. Len(seen[c]) : seen[c][i].n \in Msgs /\ seen[c][i].n \in Nat
  <2>1. \A i \in 1 .. Len(seen[c]) : seen[c][i] \in S
    <3> HIDE DEF S
    <3> QED BY <1>0
  <2> QED BY <2>1, BoundsAssumption DEF Msgs
<1>2. /\ Inbox(c) \in Seq(Msgs) /\ eps[sub[c].id].start \in Nat /\ task[sub[c].id].i \in Nat
      /\ sub[c].offset \in Nat /\ sub[c].from \in Int
  BY <1>1 DEF Inbox, EndPoint, SubCalls, Tasks
<1>3. FirstIndex(eps[sub[c].id], sub[c].offset) \in Nat
  BY <1>2 DEF FirstIndex
<1>4. Passed(c) \in Nat
  BY <1>2, <1>3 DEF Passed
<1> QED BY <1>0, <1>1, <1>2, <1>3, <1>4, <1>5

\* A step that changes neither the Inbox nor how far the subscriber is.
LEMMA ServesOn ==
  ASSUME Types, Types', NEW c \in Subs, Serves(c), seen'[c] = seen[c], gone[c] => gone'[c],
         kafkaOffset <= kafkaOffset', sub'[c].id = sub[c].id, sub'[c].from = sub[c].from,
         eps'[sub[c].id].inbox = eps[sub[c].id].inbox, eps'[sub[c].id].start = eps[sub[c].id].start,
         sub'[c].offset = sub[c].offset, Passed(c)' = Passed(c), Woken(c)'
  PROVE  Serves(c)'
<1>0. Inbox(c)' = Inbox(c) /\ SeenBy(c)' = SeenBy(c) /\ LastSeen(c)' = LastSeen(c)
      /\ End(eps[sub[c].id])' = End(eps[sub[c].id])
  BY DEF Inbox, SeenBy, LastSeen, End
<1>1. NoGap(c)'
  BY <1>0 DEF Serves, NoGap
<1>2. Divided(c)'
  <2>1. \A i \in 1 .. Len(seen[c]) : seen[c][i].n \in Nat
    BY CallType
  <2>2. kafkaOffset \in Nat /\ kafkaOffset' \in Nat
    BY BoundsAssumption DEF Types, ServerType
  <2>3. \A i \in 1 .. Len(seen[c]) : seen[c][i].n <= kafkaOffset'
    BY <2>1, <2>2 DEF Serves, Divided
  <2> QED BY <1>0, <2>3 DEF Serves, Divided
<1>3. Sent(c)'
  BY <1>0 DEF Serves, Sent
<1>4. Asked(c)'
  BY <1>0 DEF Serves, Asked
<1> QED BY <1>1, <1>2, <1>3, <1>4 DEF Serves

\* Steps that touch neither endpoints, tasks nor subscribers.
LEMMA Unserved ==
  ASSUME SInv, MInv', UNCHANGED <<up, reg, eps, task, sub, seen>>, kafkaOffset <= kafkaOffset',
         \A c \in Subs : gone[c] => gone'[c]
  PROVE  SInv'
<1>0. \A c \in Subs : Passed(c)' = Passed(c) /\ Served(c)' = Served(c)
  BY DEF Passed, Served
<1>1. Members' /\ Rising'
  <2>1. Members'
    BY <1>0 DEF SInv, Members, Member, Consumers, Served
  <2>2. Rising'
    BY DEF SInv, Rising
  <2> QED BY <2>1, <2>2
<1>2. ASSUME NEW c \in Subs, Served(c) PROVE Serves(c)'
  <2>1. Serves(c)
    BY <1>2 DEF SInv, Serving
  <2>2. Woken(c)'
    BY <1>0, <2>1, Zenon DEF Serves, Woken, Inbox
  <2> QED BY <1>0, <2>1, <2>2, ServesOn DEF SInv, MInv
<1> QED BY <1>0, <1>1, <1>2 DEF SInv, Serving

\* A subscriber of an endpoint that the step leaves alone.
LEMMA ServedElsewhere ==
  ASSUME SInv, Types', NEW c \in Subs, Served(c), seen'[c] = seen[c], gone'[c] = gone[c],
         kafkaOffset <= kafkaOffset', sub'[c] = sub[c], eps'[sub[c].id] = eps[sub[c].id],
         task'[sub[c].id] = task[sub[c].id]
  PROVE  Serves(c)'
<1>1. Passed(c)' = Passed(c) /\ Serves(c) /\ Types
  BY DEF Passed, SInv, Serving, MInv
<1>2. Woken(c)'
  BY <1>1 DEF Serves, Woken, Inbox
<1> QED BY <1>1, <1>2, ServesOn

LEMMA Unpushed ==
  ASSUME SInv, NEW d \in Ids, task[d].pc # "loop"
  PROVE  task[d].cur = <<>> /\ task[d].todo = {} /\ \A c \in Subs : task[d].cur # <<c>>
<1>1. task[d].cur = <<>> /\ task[d].todo = {}
  BY DEF SInv, MInv, Types, Locks
<1> QED BY <1>1

LEMMA FreeUnpushed ==
  ASSUME SInv, NEW d \in Ids, MuFree(d)
  PROVE  task[d].pc # "loop" /\ task[d].cur = <<>> /\ task[d].todo = {}
         /\ \A c \in Subs : task[d].cur # <<c>>
<1>1. task[d].pc # "loop"
  BY DEF SInv, MInv, Types, Locks, MuFree
<1> QED BY <1>1, Unpushed

LEMMA RegSubscribers ==
  ASSUME SInv, NEW d \in Ids, Reg(d), MInv'
  PROVE  SInv'
<1>0. /\ UNCHANGED <<up, task, sub, seen, gone, kafkaOffset>> /\ d \notin reg /\ reg' = reg \cup {d}
      /\ up /\ eps \in [Ids -> EndPoint] /\ eps' = [eps EXCEPT ![d] = newEndPoint] /\ kafkaOffset \in Nat
  BY BoundsAssumption DEF Reg, streamV, SInv, MInv, Types, ServerType
<1>1. \A e \in Ids : e # d => eps'[e] = eps[e]
  BY <1>0
<1>2. eps'[d].consumers = {} /\ task[d].todo = {} /\ \A c \in Subs : task[d].cur # <<c>>
  <2>1. task[d].pc = "wait"
    BY <1>0 DEF SInv, MInv, Types, Locks
  <2> QED BY <1>0, <2>1, Unpushed DEF newEndPoint
<1>3. \A c \in Subs : sub[c].id \in Ids /\ Served(c)' = Served(c) /\ (Served(c) => sub[c].id # d)
  <2>1. \A c \in Subs : sub[c].id \in Ids /\ Served(c)' = Served(c)
    BY <1>0, CallType DEF Served, SInv, MInv
  <2>2. \A c \in Subs : Served(c) => sub[c].id \in reg
    BY DEF SInv, Members, Member, Served
  <2> QED BY <1>0, <2>1, <2>2
<1>4. Members'
  <2>1. ASSUME NEW c \in Subs PROVE Member(c)'
    BY <1>0, <1>1, <1>3 DEF SInv, Members, Member
  <2>2. ASSUME NEW e \in Ids PROVE Consumers(e)'
    <3>1. CASE e = d
      BY <1>0, <1>2, <3>1 DEF Consumers
    <3>2. CASE e # d
      <4>1. Consumers(e)
        BY <1>0 DEF SInv, Members
      <4>2. eps'[e] = eps[e] /\ eps[e].consumers \subseteq Subs
        BY <1>0, <1>1, <3>2 DEF EndPoint
      <4> QED BY <1>0, <1>3, <4>1, <4>2 DEF Consumers
    <3> QED BY <3>1, <3>2
  <2> QED BY <2>1, <2>2 DEF Members
<1>5. Rising'
  BY <1>0 DEF SInv, Rising
<1>6. Serving'
  <2>1. ASSUME NEW c \in Subs, Served(c) PROVE Serves(c)'
    <3>1. eps'[sub[c].id] = eps[sub[c].id] /\ kafkaOffset <= kafkaOffset'
      BY <1>0, <1>1, <1>3, <2>1
    <3> QED BY <1>0, <2>1, <3>1, ServedElsewhere DEF MInv
  <2> QED BY <1>3, <2>1 DEF Serving
<1> QED BY <1>4, <1>5, <1>6 DEF SInv

LEMMA SubscribeSubscribers ==
  ASSUME SInv, NEW c \in Subs, NEW d \in Ids, NEW f \in {-1} \cup 1 .. MaxFrom,
         Subscribe(c, d, f), MInv'
  PROVE  SInv'
<1>0. /\ UNCHANGED <<up, reg, eps, task, seen, gone, kafkaOffset>> /\ up /\ d \in reg
      /\ sub \in [Subs -> SubCalls] /\ sub[c].pc = "idle" /\ kafkaOffset \in Nat /\ eps \in [Ids -> EndPoint]
      /\ sub' = [sub EXCEPT ![c] = [Idle EXCEPT !.pc = "found", !.id = d, !.from = f]]
  BY BoundsAssumption DEF Subscribe, streamV, SInv, MInv, Types, ServerType, SubType
<1>1. /\ sub'[c].pc = "found" /\ sub'[c].id = d /\ seen[c] = <<>> /\ \A x \in Subs : x # c => sub'[x] = sub[x]
  BY <1>0 DEF Idle, SInv, Members, Member
<1>2. \A x \in Subs : Served(x)' = Served(x) /\ (Served(x) => x # c)
  BY <1>0, <1>1 DEF Served
<1>4. Members'
  <2>1. ASSUME NEW x \in Subs PROVE Member(x)'
    <3>1. CASE x = c
      BY <1>0, <1>1, <1>2, <3>1 DEF Member
    <3>2. CASE x # c
      BY <1>0, <1>1, <1>2, <3>2 DEF SInv, Members, Member
    <3> QED BY <3>1, <3>2
  <2>2. ASSUME NEW e \in Ids PROVE Consumers(e)'
    <3>1. Consumers(e) /\ eps[e].consumers \subseteq Subs
      BY <1>0 DEF SInv, Members, EndPoint
    <3> QED BY <1>0, <1>1, <1>2, <3>1 DEF Consumers
  <2> QED BY <2>1, <2>2 DEF Members
<1>5. Rising'
  BY <1>0 DEF SInv, Rising
<1>6. Serving'
  <2>1. ASSUME NEW x \in Subs, Served(x) PROVE Serves(x)'
    <3>1. sub'[x] = sub[x] /\ kafkaOffset <= kafkaOffset'
      BY <1>0, <1>1, <1>2, <2>1
    <3> QED BY <1>0, <2>1, <3>1, ServedElsewhere DEF MInv
  <2> QED BY <1>2, <2>1 DEF Serving
<1> QED BY <1>4, <1>5, <1>6 DEF SInv

LEMMA AddSubscribers ==
  ASSUME SInv, NEW c \in Subs, AddConsumer(c), MInv'
  PROVE  SInv'
<1> DEFINE d == sub[c].id
           f == From(c, eps[d])
<1>0. /\ UNCHANGED <<up, reg, task, seen, gone, kafkaOffset>> /\ up /\ MuFree(d)
      /\ sub \in [Subs -> SubCalls] /\ sub[c].pc = "found" /\ kafkaOffset \in Nat /\ eps \in [Ids -> EndPoint]
      /\ d \in Ids /\ Types /\ Types' /\ seen[c] = <<>>
      /\ sub' = [sub EXCEPT ![c].pc = "added", ![c].from = f, ![c].offset = f]
      /\ eps' = [eps EXCEPT ![d].consumers = @ \cup {c}]
  <2>1. Types /\ Types'
    BY DEF SInv, MInv
  <2>2. sub \in [Subs -> SubCalls] /\ eps \in [Ids -> EndPoint] /\ kafkaOffset \in Nat /\ d \in Ids
    BY <2>1, CallType DEF Types, ServerType, SubType
  <2> QED BY <2>1, <2>2 DEF AddConsumer, streamV, SInv, Members, Member
<1>1. /\ sub'[c].pc = "added" /\ sub'[c].id = d /\ sub'[c].from = f /\ sub'[c].offset = f
      /\ \A x \in Subs : x # c => sub'[x] = sub[x]
      /\ eps'[d].consumers = eps[d].consumers \cup {c} /\ eps'[d].start = eps[d].start
      /\ eps'[d].inbox = eps[d].inbox /\ eps'[d].ready = eps[d].ready
      /\ \A e \in Ids : e # d => eps'[e] = eps[e]
  BY <1>0 DEF SubCalls, EndPoint
<1>2. \A x \in Subs : sub[x].id \in Ids /\ Served(x)' = (Served(x) \/ x = c) /\ (Served(x) => x # c)
  BY <1>0, <1>1, CallType DEF Served
<1>3. task[d].pc # "loop" /\ task[d].cur = <<>> /\ task[d].todo = {} /\ \A x \in Subs : task[d].cur # <<x>>
  BY <1>0, FreeUnpushed
<1> HIDE DEF f
<1>4. Members'
  <2>1. ASSUME NEW x \in Subs PROVE Member(x)'
    <3>1. CASE x = c
      BY <1>0, <1>1, <1>2, <3>1 DEF SInv, Members, Member
    <3>2. CASE x # c
      BY <1>0, <1>1, <1>2, <3>2 DEF SInv, Members, Member
    <3> QED BY <3>1, <3>2
  <2>2. ASSUME NEW e \in Ids PROVE Consumers(e)'
    <3>0. Consumers(e) /\ eps[e].consumers \subseteq Subs
      BY <1>0 DEF SInv, Members, EndPoint
    <3>1. CASE e = d
      BY <1>0, <1>1, <1>2, <1>3, <3>0, <3>1 DEF Consumers
    <3>2. CASE e # d
      BY <1>0, <1>1, <1>2, <3>0, <3>2 DEF Consumers
    <3> QED BY <3>1, <3>2
  <2> QED BY <1>0, <2>1, <2>2 DEF Members
<1>5. Rising'
  BY <1>0 DEF SInv, Rising
<1>6. Serves(c)'
  <2>1. Inbox(c)' \in Seq(Msgs) /\ Passed(c)' = FirstIndex(eps[d], f) /\ eps[d].start \in Nat /\ f \in Nat
    <3>1. FirstIndex(eps'[d], f) = FirstIndex(eps[d], f)
      BY <1>1 DEF FirstIndex
    <3>2. Inbox(c)' \in Seq(Msgs) /\ eps[d].start \in Nat
      BY <1>0, <1>1, CallType DEF Inbox
    <3>3. f \in Nat
      BY <1>0, <1>1 DEF Types, SubType, SubCalls
    <3> QED BY <1>0, <1>1, <1>3, <3>1, <3>2, <3>3 DEF Passed
  <2>2. NoGap(c)' /\ Divided(c)'
    BY <1>0 DEF NoGap, Divided
  <2>3. ASSUME NEW j \in 1 .. Len(Inbox(c)'), j <= FirstIndex(eps[d], f), eps[d].start + j - 1 >= f
        PROVE  FALSE
    BY <2>1, <2>3 DEF FirstIndex
  <2>4. Sent(c)'
    BY <1>1, <2>1, <2>3 DEF Sent
  <2>5. Asked(c)' /\ Woken(c)'
    BY <1>1 DEF Asked, Woken
  <2> QED BY <2>2, <2>4, <2>5 DEF Serves
<1>7. ASSUME NEW x \in Subs, Served(x) PROVE Serves(x)'
  <2>1. x # c /\ sub'[x] = sub[x] /\ kafkaOffset <= kafkaOffset' /\ sub[x].id \in Ids /\ Serves(x)
    BY <1>0, <1>1, <1>2, <1>7 DEF SInv, Serving
  <2>2. /\ eps'[sub[x].id].inbox = eps[sub[x].id].inbox /\ eps'[sub[x].id].start = eps[sub[x].id].start
        /\ eps'[sub[x].id].ready = eps[sub[x].id].ready
    BY <1>1, <2>1
  <2>3. Passed(x)' = Passed(x)
    BY <1>0, <2>1, <2>2 DEF Passed, FirstIndex
  <2>4. Woken(x)'
    BY <1>0, <2>1, <2>2, <2>3 DEF Serves, Woken, Inbox
  <2> QED BY <1>0, <2>1, <2>2, <2>3, <2>4, ServesOn
<1> QED BY <1>2, <1>4, <1>5, <1>6, <1>7 DEF SInv, Serving

LEMMA NotifySubscribers ==
  ASSUME SInv, NEW c \in Subs, NotifyAdded(c), MInv'
  PROVE  SInv'
<1> DEFINE d == sub[c].id
<1>0. /\ UNCHANGED <<up, reg, task, seen, gone, kafkaOffset>> /\ up
      /\ sub \in [Subs -> SubCalls] /\ sub[c].pc = "added" /\ kafkaOffset \in Nat /\ eps \in [Ids -> EndPoint]
      /\ d \in Ids /\ Types /\ Types'
      /\ sub' = [sub EXCEPT ![c].pc = "live"] /\ eps' = [eps EXCEPT ![d] = Notified(@)]
  <2>1. Types /\ Types'
    BY DEF SInv, MInv
  <2>2. sub \in [Subs -> SubCalls] /\ eps \in [Ids -> EndPoint] /\ kafkaOffset \in Nat /\ d \in Ids
    BY <2>1, CallType DEF Types, ServerType, SubType
  <2> QED BY <2>1, <2>2 DEF NotifyAdded, streamV
<1>1. /\ \A x \in Subs : /\ sub'[x].id = sub[x].id /\ sub'[x].from = sub[x].from
                         /\ sub'[x].offset = sub[x].offset /\ Served(x)' = Served(x)
                         /\ x # c => sub'[x].pc = sub[x].pc
      /\ sub'[c].pc = "live"
  BY <1>0 DEF SubCalls, Served
<1>2. /\ eps'[d].ready
      /\ \A e \in Ids : /\ eps'[e].consumers = eps[e].consumers /\ eps'[e].start = eps[e].start
                        /\ eps'[e].inbox = eps[e].inbox /\ (e # d => eps'[e].ready = eps[e].ready)
  BY <1>0 DEF Notified, EndPoint
<1>4. Members'
  <2>1. ASSUME NEW x \in Subs PROVE Member(x)'
    <3>1. sub[x].id \in Ids
      BY <1>0, CallType
    <3> QED BY <1>0, <1>1, <1>2, <3>1 DEF SInv, Members, Member, Served
  <2>2. ASSUME NEW e \in Ids PROVE Consumers(e)'
    <3>0. Consumers(e) /\ eps[e].consumers \subseteq Subs
      BY <1>0 DEF SInv, Members, EndPoint
    <3> QED BY <1>0, <1>1, <1>2, <3>0 DEF Consumers
  <2> QED BY <1>0, <2>1, <2>2 DEF Members
<1>5. Rising'
  BY <1>0 DEF SInv, Rising
<1>7. ASSUME NEW x \in Subs, Served(x) PROVE Serves(x)'
  <2>1. kafkaOffset <= kafkaOffset' /\ sub[x].id \in Ids /\ Serves(x)
    BY <1>0, <1>7, CallType DEF SInv, Serving
  <2>3. Passed(x)' = Passed(x)
    BY <1>0, <1>1, <1>2, <2>1 DEF Passed, FirstIndex
  <2>4. Woken(x)'
    BY <1>0, <1>1, <1>2, <2>1, <2>3 DEF Serves, Woken, Inbox
  <2> QED BY <1>0, <1>1, <1>2, <2>1, <2>3, <2>4, ServesOn
<1> QED BY <1>1, <1>4, <1>5, <1>7 DEF SInv, Serving

LEMMA RemoveSubscribers ==
  ASSUME SInv, NEW c \in Subs, RemoveConsumer(c), MInv'
  PROVE  SInv'
<1> DEFINE d == sub[c].id
<1>0. /\ UNCHANGED <<up, reg, task, seen, gone, kafkaOffset>> /\ up /\ MuFree(d)
      /\ sub \in [Subs -> SubCalls] /\ sub[c].pc = "live" /\ kafkaOffset \in Nat /\ eps \in [Ids -> EndPoint]
      /\ d \in Ids /\ Types /\ Types'
      /\ sub' = [sub EXCEPT ![c].pc = "done"] /\ eps' = [eps EXCEPT ![d].consumers = @ \ {c}]
  <2>1. Types /\ Types'
    BY DEF SInv, MInv
  <2>2. sub \in [Subs -> SubCalls] /\ eps \in [Ids -> EndPoint] /\ kafkaOffset \in Nat /\ d \in Ids
    BY <2>1, CallType DEF Types, ServerType, SubType
  <2> QED BY <2>1, <2>2 DEF RemoveConsumer, streamV
<1>1. /\ sub'[c].pc = "done" /\ \A x \in Subs : x # c => sub'[x] = sub[x]
      /\ eps'[d].consumers = eps[d].consumers \ {c}
      /\ \A e \in Ids : /\ eps'[e].start = eps[e].start /\ eps'[e].inbox = eps[e].inbox
                        /\ eps'[e].ready = eps[e].ready /\ (e # d => eps'[e].consumers = eps[e].consumers)
  BY <1>0 DEF SubCalls, EndPoint
<1>2. \A x \in Subs : sub[x].id \in Ids /\ Served(x)' = (Served(x) /\ x # c)
  BY <1>0, <1>1, CallType DEF Served
<1>3. task[d].pc # "loop" /\ task[d].cur = <<>> /\ task[d].todo = {} /\ \A x \in Subs : task[d].cur # <<x>>
  BY <1>0, FreeUnpushed
<1>4. Members'
  <2>1. ASSUME NEW x \in Subs PROVE Member(x)'
    <3>1. CASE x = c
      BY <1>0, <1>1, <1>2, <3>1 DEF Member
    <3>2. CASE x # c
      BY <1>0, <1>1, <1>2, <3>2 DEF SInv, Members, Member
    <3> QED BY <3>1, <3>2
  <2>2. ASSUME NEW e \in Ids PROVE Consumers(e)'
    <3>0. Consumers(e) /\ eps[e].consumers \subseteq Subs
      BY <1>0 DEF SInv, Members, EndPoint
    <3>1. CASE e = d
      BY <1>0, <1>1, <1>2, <1>3, <3>0, <3>1 DEF Consumers
    <3>2. CASE e # d
      <4>1. c \notin eps[e].consumers
        BY <3>0, <3>2 DEF Consumers
      <4>2. eps'[e].consumers = eps[e].consumers /\ task'[e] = task[e]
        BY <1>0, <1>1, <3>2
      <4> QED BY <1>1, <1>2, <3>0, <4>1, <4>2 DEF Consumers
    <3> QED BY <3>1, <3>2
  <2> QED BY <1>0, <2>1, <2>2 DEF Members
<1>5. Rising'
  BY <1>0 DEF SInv, Rising
<1>7. ASSUME NEW x \in Subs, Served(x), x # c PROVE Serves(x)'
  <2>1. sub'[x] = sub[x] /\ kafkaOffset <= kafkaOffset' /\ sub[x].id \in Ids /\ Serves(x)
    BY <1>0, <1>1, <1>2, <1>7 DEF SInv, Serving
  <2>3. Passed(x)' = Passed(x)
    BY <1>0, <1>1, <2>1 DEF Passed, FirstIndex
  <2>4. Woken(x)'
    BY <1>0, <1>1, <2>1, <2>3 DEF Serves, Woken, Inbox
  <2> QED BY <1>0, <1>1, <2>1, <2>3, <2>4, ServesOn
<1> QED BY <1>2, <1>4, <1>5, <1>7 DEF SInv, Serving

\* Steps of pushTask between two messages.
LEMMA TaskSteps ==
  ASSUME SInv, MInv', NEW d \in Ids, up, UNCHANGED <<up, reg, sub, seen, gone, kafkaOffset>>,
         \A e \in Ids : e # d => eps'[e] = eps[e] /\ task'[e] = task[e],
         eps'[d].inbox = eps[d].inbox, eps'[d].start = eps[d].start,
         eps'[d].consumers = eps[d].consumers, Consumers(d)',
         \A c \in Subs : Served(c) /\ sub[c].id = d => Passed(c)' = Passed(c) /\ Woken(c)'
  PROVE  SInv'
<1>0. Types /\ Types' /\ kafkaOffset \in Nat /\ eps \in [Ids -> EndPoint]
  BY BoundsAssumption DEF SInv, MInv, Types, ServerType
<1>1. \A c \in Subs : sub[c].id \in Ids /\ Served(c)' = Served(c)
  BY <1>0, CallType DEF Served
<1>2. Members'
  <2>1. ASSUME NEW c \in Subs PROVE Member(c)'
    <3>1. eps'[sub[c].id].consumers = eps[sub[c].id].consumers
      BY <1>1
    <3> QED BY <1>1, <3>1 DEF SInv, Members, Member
  <2>2. ASSUME NEW e \in Ids, e # d PROVE Consumers(e)'
    <3>1. Consumers(e) /\ eps[e].consumers \subseteq Subs
      BY <1>0 DEF SInv, Members, EndPoint
    <3> QED BY <1>1, <2>2, <3>1 DEF Consumers
  <2> QED BY <2>1, <2>2 DEF Members
<1>3. Rising'
  BY DEF SInv, Rising
<1>4. ASSUME NEW c \in Subs, Served(c) PROVE Serves(c)'
  <2>0. kafkaOffset <= kafkaOffset' /\ Serves(c) /\ sub[c].id \in Ids
    BY <1>0, <1>1, <1>4 DEF SInv, Serving
  <2>1. CASE sub[c].id = d
    BY <1>0, <1>4, <2>0, <2>1, ServesOn
  <2>2. CASE sub[c].id # d
    BY <1>0, <1>4, <2>0, <2>2, ServedElsewhere
  <2> QED BY <2>1, <2>2
<1> QED BY <1>1, <1>2, <1>3, <1>4 DEF SInv, Serving

LEMMA TaskSubscribers ==
  ASSUME SInv, NEW d \in Ids, MInv',
         TakeToken(d) \/ LockEndPoint(d) \/ NextConsumer(d) \/ UnlockEndPoint(d)
  PROVE  SInv'
<1>0. Types /\ Types' /\ eps \in [Ids -> EndPoint] /\ task \in [Ids -> Tasks]
  BY DEF SInv, MInv, Types, ServerType
<1>1. up /\ UNCHANGED <<up, reg, sub, seen, gone, kafkaOffset>>
  BY DEF TakeToken, LockEndPoint, NextConsumer, UnlockEndPoint, streamV
<1>2. /\ Consumers(d) /\ eps[d].consumers \subseteq Subs
      /\ \A c \in Subs : Served(c) /\ sub[c].id = d => Serves(c) /\ c \in eps[d].consumers
      /\ \A c \in Subs : Served(c)' = Served(c)
      /\ task[d] \in Tasks /\ eps[d] \in EndPoint
  BY <1>0, <1>1 DEF SInv, Members, Member, Serving, Served, EndPoint
<1>3. CASE TakeToken(d)
  <2>1. /\ task[d].pc = "wait" /\ task'[d].pc = "lock" /\ task'[d].cur = task[d].cur
        /\ task'[d].todo = task[d].todo /\ task'[d].i = task[d].i
        /\ \A e \in Ids : e # d => eps'[e] = eps[e] /\ task'[e] = task[e]
        /\ eps'[d].inbox = eps[d].inbox /\ eps'[d].start = eps[d].start
        /\ eps'[d].consumers = eps[d].consumers
    BY <1>0, <1>3 DEF TakeToken, Tasks, EndPoint
  <2>2. Consumers(d)'
    BY <1>1, <1>2, <2>1 DEF Consumers
  <2>3. ASSUME NEW c \in Subs, Served(c), sub[c].id = d PROVE Passed(c)' = Passed(c) /\ Woken(c)'
    BY <1>1, <2>1, <2>3 DEF Passed, FirstIndex, Woken
  <2> QED BY <1>1, <2>1, <2>2, <2>3, TaskSteps
<1>4. CASE LockEndPoint(d)
  <2>1. /\ task[d].pc = "lock" /\ task'[d].pc = "loop" /\ task'[d].cur = task[d].cur
        /\ task'[d].todo = eps[d].consumers
        /\ \A e \in Ids : e # d => eps'[e] = eps[e] /\ task'[e] = task[e]
        /\ eps'[d].inbox = eps[d].inbox /\ eps'[d].start = eps[d].start
        /\ eps'[d].consumers = eps[d].consumers
    BY <1>0, <1>4 DEF LockEndPoint, Tasks, EndPoint
  <2>2. \A c \in Subs : task[d].cur # <<c>>
    BY <2>1, Unpushed
  <2>3. Consumers(d)'
    BY <1>1, <1>2, <2>1, <2>2 DEF Consumers
  <2>4. ASSUME NEW c \in Subs, Served(c), sub[c].id = d PROVE Passed(c)' = Passed(c) /\ Woken(c)'
    BY <1>1, <1>2, <2>1, <2>2, <2>4 DEF Passed, FirstIndex, Woken
  <2> QED BY <1>1, <2>1, <2>3, <2>4, TaskSteps
<1>5. CASE NextConsumer(d)
  <2>1. PICK x \in task[d].todo :
           task' = [task EXCEPT ![d].cur = <<x>>, ![d].todo = @ \ {x},
                                ![d].i = FirstIndex(eps[d], sub[x].offset)]
    BY <1>5 DEF NextConsumer
  <2>2. /\ task[d].pc = "loop" /\ task'[d].pc = "loop" /\ task[d].cur = <<>> /\ task'[d].cur = <<x>>
        /\ task'[d].todo = task[d].todo \ {x} /\ task'[d].i = FirstIndex(eps[d], sub[x].offset)
        /\ \A e \in Ids : e # d => task'[e] = task[e]
        /\ eps' = eps
    <3> DEFINE y == <<x>>
               k == FirstIndex(eps[d], sub[x].offset)
    <3>1. task' = [task EXCEPT ![d].cur = y, ![d].todo = @ \ {x}, ![d].i = k]
      BY <2>1
    <3>2. task[d].pc = "loop" /\ task[d].cur = <<>> /\ eps' = eps
      BY <1>5 DEF NextConsumer
    <3> HIDE DEF y, k
    <3>3. /\ task'[d].pc = task[d].pc /\ task'[d].cur = y /\ task'[d].todo = task[d].todo \ {x}
          /\ task'[d].i = k /\ \A e \in Ids : e # d => task'[e] = task[e]
      BY <1>0, <1>2, <3>1 DEF Tasks
    <3> QED BY <3>2, <3>3 DEF y, k
  <2>3. x \in Subs /\ x \in eps[d].consumers
    BY <1>2, <2>1 DEF Consumers
  <2>4. Consumers(d)'
    <3>1. \A c \in Subs : <<x>> = <<c>> => x = c
      OBVIOUS
    <3> QED BY <1>1, <1>2, <2>1, <2>2, <2>3, <3>1 DEF Consumers
  <2>5. ASSUME NEW c \in Subs, Served(c), sub[c].id = d PROVE Passed(c)' = Passed(c) /\ Woken(c)'
    <3>1. <<x>> = <<c>> <=> x = c
      OBVIOUS
    <3>2. Passed(c)' = Passed(c)
      BY <1>1, <2>2, <2>5, <3>1 DEF Passed
    <3>3. Serves(c)
      BY <1>2, <2>5
    <3>4. Woken(c)'
      BY <1>1, <2>2, <2>5, <3>1, <3>2, <3>3 DEF Serves, Woken, Inbox
    <3> QED BY <3>2, <3>4
  <2> QED BY <1>1, <2>2, <2>4, <2>5, TaskSteps
<1>6. CASE UnlockEndPoint(d)
  <2>1. /\ task[d].pc = "loop" /\ task[d].cur = <<>> /\ task[d].todo = {}
        /\ task'[d].pc = "wait" /\ task'[d].cur = <<>> /\ task'[d].todo = {}
        /\ \A e \in Ids : e # d => eps'[e] = eps[e] /\ task'[e] = task[e]
        /\ eps'[d].inbox = eps[d].inbox /\ eps'[d].start = eps[d].start
        /\ eps'[d].consumers = eps[d].consumers /\ eps'[d].ready = eps[d].ready
    BY <1>0, <1>6 DEF UnlockEndPoint, Waiting, Tasks, EndPoint
  <2>2. Consumers(d)'
    BY <1>1, <1>2, <2>1 DEF Consumers
  <2>3. ASSUME NEW c \in Subs, Served(c), sub[c].id = d PROVE Passed(c)' = Passed(c) /\ Woken(c)'
    <3>0. <<>> # <<c>>
      OBVIOUS
    <3>1. Passed(c)' = Passed(c)
      BY <1>1, <2>1, <2>3, <3>0 DEF Passed, FirstIndex
    <3>2. Serves(c)
      BY <1>2, <2>3
    <3>3. Woken(c)'
      BY <1>1, <2>1, <2>3, <3>0, <3>1, <3>2 DEF Serves, Woken, Inbox
    <3> QED BY <3>1, <3>3
  <2> QED BY <1>1, <2>1, <2>2, <2>3, TaskSteps
<1> QED BY <1>3, <1>4, <1>5, <1>6

\* The subscriber that pushTask is at.
LEMMA Current ==
  ASSUME SInv, NEW d \in Ids, up, task[d].cur # <<>>
  PROVE  /\ task[d].cur[1] \in Subs /\ task[d].cur = <<task[d].cur[1]>>
         /\ \A x \in Subs : task[d].cur = <<x>> <=> x = task[d].cur[1]
         /\ Served(task[d].cur[1]) /\ sub[task[d].cur[1]].id = d
         /\ task[d].cur[1] \in eps[d].consumers /\ task[d].pc = "loop" /\ d \in reg
<1>1. PICK c \in Subs : task[d].cur = <<c>>
  BY DEF SInv, MInv, Types, Locks
<1>2. task[d].cur[1] = c /\ \A x \in Subs : <<c>> = <<x>> <=> x = c
  BY <1>1
<1>3. Consumers(d) /\ task[d].pc = "loop"
  BY DEF SInv, Members, MInv, Types, Locks
<1>4. Served(c) /\ sub[c].id = d /\ c \in eps[d].consumers
  BY <1>1, <1>3 DEF Consumers
<1>5. d \in reg
  BY <1>4 DEF SInv, Members, Member, Served
<1> QED BY <1>1, <1>2, <1>3, <1>4, <1>5

\* The messages of an Inbox rise and have been taken.
LEMMA Ordered ==
  ASSUME MInv, NEW d \in reg
  PROVE  /\ eps[d].inbox \in Seq(Msgs) /\ Msgs \subseteq Nat
         /\ \A i, j \in 1 .. Len(eps[d].inbox) :
               i < j => eps[d].inbox[i] < eps[d].inbox[j]
         /\ \A i \in 1 .. Len(eps[d].inbox) : eps[d].inbox[i] <= kafkaOffset
<1>1. IsTail(topic, d, eps[d].inbox, kafkaOffset) /\ eps[d].inbox \in Seq(Msgs) /\ kafkaOffset \in Nat
  BY BoundsAssumption DEF MInv, Inboxes, Tails, Holds, Types, ServerType, EndPoint
<1>2. \A i \in 1 .. Len(eps[d].inbox) : eps[d].inbox[i] \in Mine(topic, d, 0, kafkaOffset)
  BY <1>1 DEF IsTail, Elements
<1>3. \A i \in 1 .. Len(eps[d].inbox) : eps[d].inbox[i] <= kafkaOffset
  BY <1>1, <1>2 DEF Mine
<1> QED BY <1>1, <1>3, BoundsAssumption DEF IsTail, Msgs

\* The part of PushOne and ConsumerDone that is not about the subscriber served.
LEMMA OthersServed ==
  ASSUME SInv, MInv', NEW d \in Ids, up, NEW c \in Subs, task[d].cur = <<c>>,
         UNCHANGED <<up, reg, eps, gone, kafkaOffset>>,
         \A e \in Ids : e # d => task'[e] = task[e],
         task'[d].pc = task[d].pc, task'[d].todo = task[d].todo,
         task'[d].cur \in {task[d].cur, <<>>},
         \A x \in Subs : /\ sub'[x].id = sub[x].id /\ sub'[x].pc = sub[x].pc
                         /\ x # c => sub'[x] = sub[x] /\ seen'[x] = seen[x],
         \A i \in 1 .. Len(seen'[c]) - 1 : seen'[c][i].n < seen'[c][i + 1].n,
         Serves(c)'
  PROVE  SInv'
<1>0. /\ Types /\ Types' /\ kafkaOffset \in Nat /\ c \in Subs /\ Served(c) /\ sub[c].id = d
      /\ task[d].pc = "loop" /\ c \in eps[d].consumers /\ \A x \in Subs : task[d].cur = <<x>> <=> x = c
  <2>1. task[d].cur # <<>> /\ task[d].cur[1] = c
    OBVIOUS
  <2>2. Types /\ Types' /\ kafkaOffset \in Nat
    BY BoundsAssumption DEF SInv, MInv, Types, ServerType
  <2> QED BY <2>1, <2>2, Current
<1>1. \A x \in Subs : sub[x].id \in Ids /\ Served(x)' = Served(x)
  BY <1>0, CallType DEF Served
<1>2. Members'
  <2>1. ASSUME NEW x \in Subs PROVE Member(x)'
    <3>1. x = c => sub[x].pc \in {"added", "live"}
      BY <1>0 DEF Served
    <3> QED BY <1>1, <3>1 DEF SInv, Members, Member
  <2>2. ASSUME NEW e \in Ids PROVE Consumers(e)'
    <3>1. Consumers(e) /\ eps[e].consumers \subseteq Subs
      BY <1>0 DEF SInv, Members, EndPoint, Types, ServerType
    <3>2. \A x \in Subs : <<>> # <<x>>
      OBVIOUS
    <3>3. \A x \in Subs : task'[e].cur = <<x>> => task[e].cur = <<x>>
      BY <3>2
    <3> QED BY <1>1, <3>1, <3>3 DEF Consumers
  <2> QED BY <2>1, <2>2 DEF Members
<1>3. Rising'
  BY <1>0 DEF SInv, Rising
<1>4. ASSUME NEW x \in Subs, Served(x), x # c PROVE Serves(x)'
  <2>0. kafkaOffset <= kafkaOffset' /\ Serves(x) /\ sub[x].id \in Ids
    BY <1>0, <1>1, <1>4 DEF SInv, Serving
  <2>1. CASE sub[x].id = d
    <3>0. task[d].cur # <<x>> /\ task'[d].cur # <<x>>
      BY <1>0, <1>4
    <3>1. Passed(x)' = Passed(x)
      BY <1>4, <2>1, <3>0 DEF Passed
    <3>2. Woken(x)'
      BY <1>4, <2>0, <2>1, <3>0, <3>1 DEF Serves, Woken, Inbox
    <3> QED BY <1>0, <1>4, <2>0, <3>1, <3>2, ServesOn
  <2>2. CASE sub[x].id # d
    BY <1>0, <1>4, <2>0, <2>2, ServedElsewhere
  <2> QED BY <2>1, <2>2
<1> QED BY <1>1, <1>2, <1>3, <1>4 DEF SInv, Serving

LEMMA PushSubscribers ==
  ASSUME SInv, NEW d \in Ids, MInv', PushOne(d)
  PROVE  SInv'
<1> DEFINE q == eps[d].inbox
           i == task[d].i
<1>1. PICK c \in Subs :
         /\ task[d].cur = <<c>> /\ Served(c) /\ sub[c].id = d /\ task[d].pc = "loop" /\ d \in reg
         /\ task[d].cur[1] = c /\ up
  BY Current DEF PushOne
<1>2. /\ task' = [task EXCEPT ![d].i = @ + 1] /\ UNCHANGED <<up, reg, eps, gone, kafkaOffset>>
      /\ i < Len(q)
  BY <1>1 DEF PushOne
<1>3. /\ Types /\ Types' /\ MInv /\ kafkaOffset \in Nat /\ task \in [Ids -> Tasks] /\ sub \in [Subs -> SubCalls]
      /\ Serves(c) /\ Inbox(c) = q /\ Passed(c) = i /\ kafkaOffset <= kafkaOffset'
      /\ seen \in [Subs -> Seq([n : Msgs, off : Nat])]
  <2>1. Types /\ Types' /\ MInv
    BY DEF SInv, MInv
  <2>5. kafkaOffset \in Nat /\ task \in [Ids -> Tasks] /\ sub \in [Subs -> SubCalls]
    BY <2>1, BoundsAssumption DEF Types, ServerType, SubType
  <2>3. seen \in [Subs -> Seq([n : Msgs, off : Nat])]
    BY DEF SInv, MInv, Types, SubType
  <2>4. kafkaOffset <= kafkaOffset'
    BY <1>2, <2>5
  <2>2. Serves(c) /\ Inbox(c) = q /\ Passed(c) = i
    BY <1>1 DEF SInv, Serving, Inbox, Passed
  <2> QED BY <2>1, <2>2, <2>3, <2>4, <2>5
<1>4. /\ task'[d].cur = <<c>> /\ task'[d].pc = "loop" /\ task'[d].todo = task[d].todo /\ task'[d].i = i + 1
      /\ \A e \in Ids : e # d => task'[e] = task[e]
      /\ i \in Nat /\ q \in Seq(Msgs)
  BY <1>1, <1>2, <1>3, CallType DEF Tasks, Inbox
<1>5. CASE gone[c]
  <2>1. sub' = [sub EXCEPT ![c].err = TRUE] /\ seen' = seen
    BY <1>1, <1>5 DEF PushOne
  <2>2. /\ \A x \in Subs : /\ sub'[x].id = sub[x].id /\ sub'[x].pc = sub[x].pc
                           /\ x # c => sub'[x] = sub[x] /\ seen'[x] = seen[x]
        /\ sub'[c].from = sub[c].from /\ sub'[c].offset = sub[c].offset
    BY <1>3, <2>1 DEF SubCalls
  <2>3. Serves(c)'
    <3>1. NoGap(c)'
      BY <1>1, <1>2, <1>3, <2>1, <2>2 DEF Serves, NoGap, Inbox
    <3>2. Divided(c)'
      BY <1>2, <1>3, <1>5, <2>1 DEF Serves, Divided
    <3>3. Sent(c)' /\ Woken(c)'
      BY <1>2, <1>5 DEF Sent, Woken
    <3>4. Asked(c)'
      BY <1>1, <1>2, <1>3, <2>2 DEF Serves, Asked
    <3> QED BY <3>1, <3>2, <3>3, <3>4 DEF Serves
  <2>4. \A k \in 1 .. Len(seen'[c]) - 1 : seen'[c][k].n < seen'[c][k + 1].n
    BY <2>1 DEF SInv, Rising
  <2>5. UNCHANGED <<up, reg, eps, gone, kafkaOffset>> /\ task'[d].cur \in {task[d].cur, <<>>}
        /\ task'[d].pc = task[d].pc
    BY <1>1, <1>2, <1>4
  <2> QED BY <1>1, <1>4, <2>2, <2>3, <2>4, <2>5, OthersServed
<1>6. CASE ~gone[c]
  <2> DEFINE S == [n : Msgs, off : Nat]
             m == [n |-> q[i + 1], off |-> i + eps[d].start]
             z == q[i + 1]
             h == Len(seen[c])
  <2>0. sub' = sub /\ seen' = [seen EXCEPT ![c] = Append(@, m)] /\ m.n = z /\ m \in S /\ i + 1 \in 1 .. Len(q)
    <3>1. sub' = sub /\ seen' = [seen EXCEPT ![c] = Append(@, m)]
      BY <1>1, <1>6 DEF PushOne
    <3>2. eps[d].start \in Nat
      BY <1>1, <1>3, CallType
    <3> QED BY <1>2, <1>4, <3>1, <3>2
  <2>1. seen[c] \in Seq(S) /\ seen \in [Subs -> Seq(S)]
    BY <1>3
  <2> HIDE DEF m, S
  <2>2. /\ seen'[c] = Append(seen[c], m) /\ \A x \in Subs : x # c => seen'[x] = seen[x]
        /\ Len(seen'[c]) = h + 1 /\ seen'[c][h + 1].n = z /\ h \in Nat
        /\ \A k \in 1 .. h : seen'[c][k] = seen[c][k]
    BY <2>0, <2>1, AppendedTo
  <2>3. /\ \A k \in 1 .. Len(q) : q[k] \in Nat /\ q[k] <= kafkaOffset
        /\ \A j, k \in 1 .. Len(q) : j < k => q[j] < q[k]
    BY <1>1, <1>3, Ordered
  <2> HIDE DEF q, z
  <2>4. z = q[i + 1] /\ z \in Nat /\ z <= kafkaOffset
        /\ \A k \in 1 .. Len(q) : (k <= i => q[k] < z) /\ (k <= i + 1 <=> q[k] <= z)
    BY <1>4, <2>0, <2>3 DEF z
  <2>5. h > 0 => seen[c] # <<>> /\ LastSeen(c) = seen[c][h].n /\ LastSeen(c) < z /\ LastSeen(c) \in Nat
                 /\ \A j \in 1 .. Len(q) : j <= i => q[j] <= LastSeen(c)
    <3> SUFFICES ASSUME h > 0 PROVE seen[c] # <<>> /\ LastSeen(c) = seen[c][h].n /\ LastSeen(c) < z /\ LastSeen(c) \in Nat
                 /\ \A j \in 1 .. Len(q) : j <= i => q[j] <= LastSeen(c)
      OBVIOUS
    <3>1. seen[c] # <<>> /\ h \in 1 .. Len(seen[c]) /\ LastSeen(c) = seen[c][h].n
      BY <2>1, <2>2 DEF LastSeen
    <3>2. \A j \in 1 .. Len(q) : j <= i <=> q[j] <= LastSeen(c)
      BY <1>3, <1>6, <3>1 DEF Serves, Divided
    <3>3. LastSeen(c) \in Nat
      BY <1>3, <3>1, CallType
    <3>4. ~(q[i + 1] <= LastSeen(c))
      BY <1>4, <2>0, <3>2
    <3> QED BY <2>4, <3>1, <3>2, <3>3, <3>4
  <2>6. \A k \in 1 .. Len(seen'[c]) - 1 : seen'[c][k].n < seen'[c][k + 1].n
    <3> SUFFICES ASSUME NEW k \in 1 .. h PROVE seen'[c][k].n < seen'[c][k + 1].n
      BY <2>2
    <3>1. CASE k = h
      BY <2>2, <2>5, <3>1
    <3>2. CASE k \in 1 .. h - 1
      BY <2>2, <3>2 DEF SInv, Rising
    <3>3. k = h \/ k \in 1 .. h - 1
      BY <2>2
    <3> QED BY <3>1, <3>2, <3>3
  <2>7. Serves(c)'
    <3>0. Inbox(c)' = q /\ Passed(c)' = i + 1
      BY <1>1, <1>2, <1>4, <2>0 DEF Inbox, Passed, q
    <3>1. NoGap(c)'
      <4> SUFFICES ASSUME NEW k \in 1 .. Len(seen'[c]) - 1, NEW y \in Elements(Inbox(c)'),
                          seen'[c][k].n < y, y < seen'[c][k + 1].n
                   PROVE  FALSE
        BY DEF NoGap
      <4>0. k \in 1 .. h
        BY <2>2
      <4>5. PICK j \in 1 .. Len(q) : y = q[j]
        BY <3>0 DEF Elements
      <4>1. CASE k = h
        <5>1. LastSeen(c) < q[j] /\ q[j] < z
          BY <2>2, <2>5, <4>1, <4>5
        <5>2. j <= i => q[j] <= LastSeen(c)
          BY <2>2, <2>5, <4>0, <4>1
        <5>3. j <= i
          BY <1>4, <2>3, <2>4, <5>1
        <5> QED BY <2>2, <2>3, <2>5, <4>0, <5>1, <5>2, <5>3
      <4>2. CASE k \in 1 .. h - 1
        <5>1. seen[c][k].n < q[j] /\ q[j] < seen[c][k + 1].n /\ q[j] \in Elements(Inbox(c))
          <6>1. y \in Elements(Inbox(c))
            BY <1>3, <4>5 DEF Elements
          <6>2. k \in 1 .. h /\ k + 1 \in 1 .. h
            BY <2>2, <4>2
          <6> QED BY <2>2, <4>5, <6>1, <6>2
        <5> QED BY <1>3, <2>2, <4>2, <5>1 DEF Serves, NoGap
      <4>3. k = h \/ k \in 1 .. h - 1
        BY <2>2, <4>0
      <4> QED BY <4>1, <4>2, <4>3
    <3>2. Divided(c)'
      <4>1. ASSUME NEW k \in 1 .. h + 1 PROVE seen'[c][k].n <= kafkaOffset
        <5>1. k \in 1 .. h \/ k = h + 1
          BY <2>2
        <5> QED BY <1>3, <2>2, <2>4, <5>1 DEF Serves, Divided
      <4>2. LastSeen(c)' = z
        BY <2>2 DEF LastSeen
      <4>3. i + 1 <= Len(q)
        BY <1>4, <2>0
      <4> QED BY <1>2, <2>2, <2>4, <3>0, <4>1, <4>2, <4>3 DEF Divided
    <3>3. Sent(c)'
      <4>1. SeenBy(c) \subseteq SeenBy(c)' /\ z \in SeenBy(c)'
        <5>1. \A k \in 1 .. h : k \in 1 .. Len(seen'[c]) /\ seen'[c][k] = seen[c][k]
          BY <2>2
        <5>2. h + 1 \in 1 .. Len(seen'[c])
          BY <2>2
        <5> QED BY <2>2, <5>1, <5>2 DEF SeenBy, Elements
      <4>2. ASSUME NEW j \in 1 .. Len(q), j <= i + 1, eps[d].start + j - 1 >= sub[c].from
            PROVE  q[j] \in SeenBy(c)'
        <5>1. CASE j = i + 1
          BY <2>4, <4>1, <5>1
        <5>2. CASE j <= i
          BY <1>1, <1>3, <1>6, <4>1, <4>2, <5>2 DEF Serves, Sent
        <5> QED BY <1>4, <4>2, <5>1, <5>2
      <4> QED BY <1>1, <1>2, <2>0, <3>0, <4>2 DEF Sent
    <3>4. Asked(c)'
      BY <1>2, <1>3, <2>0 DEF Serves, Asked
    <3>5. Woken(c)'
      BY <1>1, <1>4, <2>0 DEF Woken
    <3> QED BY <3>1, <3>2, <3>3, <3>4, <3>5 DEF Serves
  <2>8. UNCHANGED <<up, reg, eps, gone, kafkaOffset>> /\ task'[d].cur \in {task[d].cur, <<>>}
        /\ task'[d].pc = task[d].pc
        /\ \A x \in Subs : /\ sub'[x].id = sub[x].id /\ sub'[x].pc = sub[x].pc
                           /\ x # c => sub'[x] = sub[x] /\ seen'[x] = seen[x]
    BY <1>1, <1>2, <1>4, <2>0, <2>2
  <2> QED BY <1>1, <1>4, <2>6, <2>7, <2>8, OthersServed
<1> QED BY <1>5, <1>6

LEMMA DoneSubscribers ==
  ASSUME SInv, NEW d \in Ids, MInv', ConsumerDone(d)
  PROVE  SInv'
<1> DEFINE q == eps[d].inbox
           i == task[d].i
<1>1. PICK c \in Subs :
         /\ task[d].cur = <<c>> /\ Served(c) /\ sub[c].id = d /\ task[d].pc = "loop" /\ d \in reg
         /\ task[d].cur[1] = c /\ up
  BY Current DEF ConsumerDone
<1>2. /\ task' = [task EXCEPT ![d].cur = <<>>] /\ UNCHANGED <<up, reg, eps, gone, kafkaOffset, seen>>
      /\ i >= Len(q) /\ sub' = [sub EXCEPT ![c].offset = End(eps[d])]
  BY <1>1 DEF ConsumerDone, OffsetAfter, streamV
<1>3. Types /\ Types' /\ MInv /\ Serves(c) /\ Inbox(c) = q /\ Passed(c) = i
  BY <1>1 DEF SInv, MInv, Serving, Inbox, Passed
<1>4. /\ i \in Nat /\ q \in Seq(Msgs) /\ eps[d].start \in Nat /\ End(eps[d]) = eps[d].start + Len(q)
      /\ task \in [Ids -> Tasks] /\ sub \in [Subs -> SubCalls]
  <2>1. q \in Seq(Msgs) /\ eps[d].start \in Nat /\ i \in Nat
    BY <1>1, <1>3, CallType DEF Inbox, Tasks
  <2> QED BY <1>3, <2>1 DEF End, Types, ServerType, SubType
<1>5. /\ task'[d].cur = <<>> /\ task'[d].pc = "loop" /\ task'[d].todo = task[d].todo
      /\ \A e \in Ids : e # d => task'[e] = task[e]
      /\ sub'[c].offset = End(eps[d]) /\ sub'[c].from = sub[c].from
      /\ \A x \in Subs : /\ sub'[x].id = sub[x].id /\ sub'[x].pc = sub[x].pc
                         /\ x # c => sub'[x] = sub[x]
  BY <1>1, <1>2, <1>4 DEF Tasks, SubCalls
<1>6. Inbox(c)' = q /\ Passed(c)' = Len(q)
  <2>1. FirstIndex(eps[d], End(eps[d])) = Len(q)
    BY <1>4 DEF FirstIndex
  <2>2. <<>> # <<c>>
    OBVIOUS
  <2> QED BY <1>1, <1>2, <1>5, <2>1, <2>2 DEF Inbox, Passed
<1> HIDE DEF q, i
<1>7. \A j \in 1 .. Len(q) : j <= i /\ j <= Len(q)
  BY <1>2, <1>4 DEF q, i
<1>8. Serves(c)'
  <2>1. NoGap(c)'
    BY <1>2, <1>3, <1>6 DEF Serves, NoGap
  <2>2. Divided(c)'
    <3>1. ASSUME seen[c] # <<>>, ~gone[c] PROVE \A j \in 1 .. Len(q) : q[j] <= LastSeen(c)
      BY <1>3, <1>7, <3>1 DEF Serves, Divided
    <3>2. LastSeen(c)' = LastSeen(c) /\ Len(q) <= Len(q)
      BY <1>2, <1>4 DEF LastSeen, q
    <3> QED BY <1>2, <1>3, <1>6, <1>7, <3>1, <3>2 DEF Serves, Divided
  <2>3. Sent(c)'
    <3>1. SeenBy(c)' = SeenBy(c)
      BY <1>2 DEF SeenBy
    <3>2. ASSUME ~gone[c], NEW j \in 1 .. Len(q), eps[d].start + j - 1 >= sub[c].from
          PROVE  q[j] \in SeenBy(c)
      BY <1>1, <1>3, <1>7, <3>2 DEF Serves, Sent
    <3> QED BY <1>1, <1>2, <1>5, <1>6, <3>1, <3>2 DEF Sent
  <2>4. Asked(c)'
    <3>1. End(eps[d]) <= End(eps[d])
      BY <1>4
    <3> QED BY <1>1, <1>2, <1>5, <3>1 DEF Asked, End
  <2>5. Woken(c)'
    <3>1. ~(Len(q) < Len(q))
      BY <1>4 DEF q
    <3> QED BY <1>6, <3>1 DEF Woken
  <2> QED BY <2>1, <2>2, <2>3, <2>4, <2>5 DEF Serves
<1>9. \A k \in 1 .. Len(seen'[c]) - 1 : seen'[c][k].n < seen'[c][k + 1].n
  BY <1>2 DEF SInv, Rising
<1>10. UNCHANGED <<up, reg, eps, gone, kafkaOffset>> /\ task'[d].cur \in {task[d].cur, <<>>}
       /\ task'[d].pc = task[d].pc
       /\ \A x \in Subs : /\ sub'[x].id = sub[x].id /\ sub'[x].pc = sub[x].pc
                          /\ x # c => sub'[x] = sub[x] /\ seen'[x] = seen[x]
  BY <1>1, <1>2, <1>5
<1> QED BY <1>1, <1>5, <1>8, <1>9, <1>10, OthersServed

LEMMA ApplySubscribers ==
  ASSUME SInv, MInv', Apply
  PROVE  SInv'
<1> DEFINE m == recv.msg
           d == topic[m]
           q == eps[d].inbox
           s == eps[d].start
           u == eps'[d].inbox
<1>0. /\ Types /\ Types' /\ MInv /\ m \in Msgs /\ d \in Ids /\ kafkaOffset' = m
      /\ UNCHANGED <<up, reg, task, sub, seen, gone>> /\ up
  BY AppliedOne DEF Apply, SInv, MInv, streamV
<1>1. kafkaOffset < m /\ kafkaOffset <= kafkaOffset' /\ kafkaOffset \in Nat /\ m \in Nat
  <2>1. m = Base + 1
    BY <1>0 DEF Apply, MInv, Position
  <2> QED BY <1>0, <2>1, BaseType DEF MInv
<1>2. CASE ~recv.found
  <2>1. eps' = eps
    BY <1>2 DEF Apply
  <2> QED BY <1>0, <1>1, <2>1, Unserved
<1>3. CASE recv.found
  <2>1. MuFree(d) /\ eps' = [eps EXCEPT ![d] = Notified(Pushed(eps[d], m))] /\ eps \in [Ids -> EndPoint]
        /\ Len(q) <= Retention + 1
    BY <1>0, <1>3 DEF Apply, Types, ServerType, Locks
  <2>2. /\ q \in Seq(Msgs) /\ s \in Nat /\ Retention \in Nat \ {0} /\ eps[d] \in EndPoint /\ Len(q) \in Nat
    BY <1>0, <2>1, BoundsAssumption DEF EndPoint
  <2>3. /\ u = Append(IF Len(q) > Retention THEN Tail(q) ELSE q, m)
        /\ eps'[d].start = IF Len(q) > Retention THEN s + 1 ELSE s
        /\ eps'[d].consumers = eps[d].consumers /\ eps'[d].ready
        /\ \A e \in Ids : e # d => eps'[e] = eps[e]
    <3> HIDE DEF m
    <3>1. eps'[d] = Notified(Pushed(eps[d], m)) /\ \A e \in Ids : e # d => eps'[e] = eps[e]
      BY <1>0, <2>1
    <3> QED BY <1>0, <2>1, <2>2, <3>1, PushedType
  <2>4. /\ task[d].pc # "loop" /\ task[d].cur = <<>> /\ task[d].todo = {}
        /\ \A x \in Subs : task[d].cur # <<x>>
    BY <1>0, <2>1, FreeUnpushed
  <2> HIDE DEF m, d
  <2>5. \E r \in {0, 1} :
           /\ Len(q) >= r /\ Len(u) = Len(q) + 1 - r /\ u \in Seq(Msgs)
           /\ u[Len(u)] = m /\ \A j \in 1 .. Len(u) - 1 : u[j] = q[j + r] /\ j + r \in 1 .. Len(q)
           /\ eps'[d].start = s + r
    <3>1. CASE Len(q) > Retention
      <4>1. q # <<>> /\ u = Append(Tail(q), m) /\ eps'[d].start = s + 1
        BY <2>2, <2>3, <3>1
      <4>2. /\ Tail(q) \in Seq(Msgs) /\ Len(Tail(q)) = Len(q) - 1
            /\ \A j \in 1 .. Len(q) - 1 : Tail(q)[j] = q[j + 1]
        BY <2>2, <4>1, TailFrom
      <4>3. /\ u \in Seq(Msgs) /\ Len(u) = Len(Tail(q)) + 1 /\ u[Len(Tail(q)) + 1] = m
            /\ \A j \in 1 .. Len(Tail(q)) : u[j] = Tail(q)[j]
        BY <1>0, <4>1, <4>2, AppendedTo
      <4> HIDE DEF q, u, s
      <4>4. /\ Len(q) >= 1 /\ Len(u) = Len(q) + 1 - 1 /\ u[Len(u)] = m
            /\ \A j \in 1 .. Len(u) - 1 : u[j] = q[j + 1] /\ j + 1 \in 1 .. Len(q)
        BY <2>2, <3>1, <4>2, <4>3
      <4> QED BY <4>1, <4>3, <4>4
    <3>2. CASE ~(Len(q) > Retention)
      <4>1. u = Append(q, m) /\ eps'[d].start = s
        BY <2>3, <3>2
      <4>2. /\ u \in Seq(Msgs) /\ Len(u) = Len(q) + 1 /\ u[Len(q) + 1] = m
            /\ \A j \in 1 .. Len(q) : u[j] = q[j]
        BY <1>0, <2>2, <4>1, AppendedTo
      <4> HIDE DEF q, u, s
      <4>3. /\ Len(q) >= 0 /\ Len(u) = Len(q) + 1 - 0 /\ u[Len(u)] = m /\ eps'[d].start = s + 0
            /\ \A j \in 1 .. Len(u) - 1 : u[j] = q[j + 0] /\ j + 0 \in 1 .. Len(q)
        BY <2>2, <4>1, <4>2
      <4> QED BY <4>2, <4>3
    <3> QED BY <3>1, <3>2
  <2>6. PICK r \in {0, 1} :
           /\ Len(q) >= r /\ Len(u) = Len(q) + 1 - r /\ u \in Seq(Msgs)
           /\ u[Len(u)] = m /\ \A j \in 1 .. Len(u) - 1 : u[j] = q[j + r] /\ j + r \in 1 .. Len(q)
           /\ eps'[d].start = s + r
    BY <2>5
  <2>7. ASSUME NEW c \in Subs, Served(c), sub[c].id = d PROVE Serves(c)'
    <3>1. /\ Serves(c) /\ Inbox(c) = q /\ Inbox(c)' = u /\ sub[c].offset \in Nat /\ sub[c].from \in Int
          /\ eps[sub[c].id].start = s
      BY <1>0, <2>7, CallType DEF SInv, Serving, Inbox
    <3> DEFINE o == sub[c].offset
               p == Passed(c)
               v == Passed(c)'
    <3>2. p = (IF o < s THEN 0 ELSE o - s) /\ v = (IF o < s + r THEN 0 ELSE o - (s + r))
      BY <1>0, <2>4, <2>6, <2>7 DEF Passed, FirstIndex
    <3>3. o = sub[c].from \/ o <= s + Len(q)
      BY <2>7, <3>1 DEF Serves, Asked, End
    <3>4. \A k \in 1 .. Len(seen[c]) : seen[c][k].n \in Nat /\ seen[c][k].n <= kafkaOffset
      BY <1>0, <3>1, CallType DEF Serves, Divided
    <3> HIDE DEF q, u, s, o, p, v
    <3>5. /\ p \in Nat /\ v \in Nat /\ o \in Nat /\ Len(u) \in Nat \ {0}
          /\ \A j \in 1 .. Len(u) - 1 : j <= v <=> j + r <= p
          /\ p <= Len(q) => v <= Len(u) /\ ~(Len(u) <= v)
      <4>1. o \in Nat /\ s \in Nat /\ Len(q) \in Nat /\ Len(u) \in Nat /\ Len(u) = Len(q) + 1 - r /\ Len(q) >= r
        BY <2>2, <2>6, <3>1 DEF o, s, q
      <4>2. p \in Nat /\ v \in Nat
        BY <3>2, <4>1
      <4>3. CASE r = 0
        BY <3>2, <4>1, <4>2, <4>3
      <4>4. CASE r = 1
        BY <3>2, <4>1, <4>2, <4>4
      <4> QED BY <4>1, <4>2, <4>3, <4>4
    <3>6. NoGap(c)'
      <4> SUFFICES ASSUME NEW k \in 1 .. Len(seen[c]) - 1, NEW y \in Elements(u),
                          seen[c][k].n < y, y < seen[c][k + 1].n
                   PROVE  FALSE
        BY <1>0, <3>1 DEF NoGap
      <4>1. PICK j \in 1 .. Len(u) : y = u[j]
        BY DEF Elements
      <4>2. k \in 1 .. Len(seen[c]) /\ k + 1 \in 1 .. Len(seen[c])
        BY <1>0, CallType
      <4>3. CASE j = Len(u)
        BY <1>1, <2>6, <3>4, <4>1, <4>2, <4>3
      <4>4. CASE j \in 1 .. Len(u) - 1
        <5>1. y \in Elements(q)
          BY <2>6, <4>1, <4>4 DEF Elements
        <5> QED BY <3>1, <5>1 DEF Serves, NoGap
      <4> QED BY <3>5, <4>3, <4>4
    <3>7. Divided(c)'
      <4>1. \A k \in 1 .. Len(seen[c]) : seen[c][k].n <= kafkaOffset'
        BY <1>0, <1>1, <3>4
      <4>2. ASSUME seen[c] # <<>>, ~gone[c]
            PROVE  v <= Len(u) /\ \A j \in 1 .. Len(u) : j <= v <=> u[j] <= LastSeen(c)
        <5>1. p <= Len(q) /\ \A j \in 1 .. Len(q) : j <= p <=> q[j] <= LastSeen(c)
          BY <3>1, <4>2 DEF Serves, Divided, p
        <5>2. LastSeen(c) \in Nat /\ LastSeen(c) <= kafkaOffset
          <6>1. Len(seen[c]) \in 1 .. Len(seen[c])
            BY <1>0, <4>2, CallType
          <6> QED BY <3>4, <6>1 DEF LastSeen
        <5>3. v <= Len(u) /\ ~(Len(u) <= v)
          BY <3>5, <5>1
        <5>4. ASSUME NEW j \in 1 .. Len(u) PROVE j <= v <=> u[j] <= LastSeen(c)
          <6>1. CASE j = Len(u)
            BY <1>1, <2>6, <5>2, <5>3, <6>1
          <6>2. CASE j \in 1 .. Len(u) - 1
            BY <2>6, <3>5, <5>1, <6>2
          <6> QED BY <3>5, <6>1, <6>2
        <5> QED BY <5>3, <5>4
      <4>3. LastSeen(c)' = LastSeen(c)
        BY <1>0 DEF LastSeen
      <4> QED BY <1>0, <3>1, <4>1, <4>2, <4>3 DEF Divided, v
    <3>8. Sent(c)'
      <4>1. ASSUME ~gone[c], NEW j \in 1 .. Len(u), j <= v, s + r + j - 1 >= sub[c].from
            PROVE  u[j] \in SeenBy(c)
        <5>1. CASE j \in 1 .. Len(u) - 1
          <6>1. j + r \in 1 .. Len(q) /\ j + r <= p /\ u[j] = q[j + r] /\ s + (j + r) - 1 >= sub[c].from
            <7>1. j + r \in 1 .. Len(q) /\ u[j] = q[j + r] /\ j + r <= p
              BY <2>6, <3>5, <4>1, <5>1
            <7>2. s \in Nat /\ j \in Nat /\ sub[c].from \in Int
              BY <2>2, <3>1, <3>5 DEF s
            <7>3. s + (j + r) - 1 >= sub[c].from
              BY <4>1, <7>2
            <7> QED BY <7>1, <7>3
          <6> QED BY <3>1, <4>1, <6>1 DEF Serves, Sent, p
        <5>2. CASE j = Len(u)
          <6>1. ~(p <= Len(q))
            BY <3>5, <4>1, <5>2
          <6>2. o = sub[c].from
            BY <2>2, <3>2, <3>3, <3>5, <6>1 DEF s, q
          <6>3. s \in Nat /\ j \in Nat /\ j # 0
            BY <2>2, <3>5 DEF s
          <6>4. v = o - (s + r)
            BY <3>2, <3>5, <4>1, <6>3
          <6>5. ~(s + r + j - 1 >= o)
            BY <3>5, <4>1, <6>3, <6>4
          <6> QED BY <4>1, <6>2, <6>5
        <5> QED BY <3>5, <5>1, <5>2
      <4>2. SeenBy(c)' = SeenBy(c) /\ eps'[sub'[c].id].start = s + r /\ sub'[c].from = sub[c].from
        BY <1>0, <2>6, <2>7 DEF SeenBy
      <4> QED BY <1>0, <3>1, <4>1, <4>2 DEF Sent, v
    <3>9. Asked(c)'
      <4>1. o <= s + Len(q) => o <= s + r + Len(u)
        BY <2>2, <2>6, <3>5 DEF s, q
      <4>2. sub'[c].offset = o /\ sub'[c].from = sub[c].from /\ End(eps[sub[c].id])' = s + r + Len(u)
        BY <1>0, <2>6, <2>7 DEF End, o, u
      <4> QED BY <3>3, <4>1, <4>2 DEF Asked
    <3>10. Woken(c)'
      BY <1>0, <2>3, <2>7 DEF Woken
    <3> QED BY <3>6, <3>7, <3>8, <3>9, <3>10 DEF Serves
  <2>8. \A c \in Subs : sub[c].id \in Ids /\ Served(c)' = Served(c)
    BY <1>0, CallType DEF Served
  <2>9. Members'
    <3>1. \A e \in Ids : eps'[e].consumers = eps[e].consumers
      BY <2>3
    <3>2. ASSUME NEW c \in Subs PROVE Member(c)'
      BY <1>0, <2>8, <3>1 DEF SInv, Members, Member
    <3>3. ASSUME NEW e \in Ids PROVE Consumers(e)'
      <4>1. Consumers(e) /\ eps[e].consumers \subseteq Subs
        BY <1>0, <2>1 DEF SInv, Members, EndPoint
      <4> QED BY <1>0, <2>8, <3>1, <4>1 DEF Consumers
    <3> QED BY <3>2, <3>3 DEF Members
  <2>10. Rising'
    BY <1>0 DEF SInv, Rising
  <2>11. ASSUME NEW c \in Subs, Served(c), sub[c].id # d PROVE Serves(c)'
    BY <1>0, <1>1, <2>3, <2>8, <2>11, ServedElsewhere
  <2> QED BY <2>7, <2>8, <2>9, <2>10, <2>11 DEF SInv, Serving
<1> QED BY <1>2, <1>3

LEMMA RestartSubscribers ==
  ASSUME SInv, MInv', Crash \/ Restore
  PROVE  SInv'
<1>1. CASE Crash
  <2>1. /\ ~up' /\ seen' = seen /\ eps' = eps
        /\ \A c \in Subs : sub'[c].pc \in {"idle", "done"} /\ (sub'[c].pc = "idle" => sub[c].pc = "idle")
    BY <1>1 DEF Crash, SInv, MInv, Types, SubType, SubCalls
  <2>2. \A c \in Subs : ~Served(c)'
    BY <2>1 DEF Served
  <2>3. Members'
    BY <2>1, <2>2 DEF SInv, Members, Member
  <2> QED BY <2>1, <2>2, <2>3 DEF SInv, Serving, Rising
<1>2. CASE Restore
  <2>1. /\ ~up /\ UNCHANGED <<sub, seen>> /\ eps' = [d \in Ids |-> Trimmed(disk.eps[d])]
        /\ task' = [d \in Ids |-> Waiting]
    BY <1>2 DEF Restore, streamV
  <2>2. \A c \in Subs : sub[c].pc \notin {"found", "added", "live"} /\ ~Served(c)'
    BY <2>1 DEF SInv, Members, Member, Served
  <2>3. \A d \in Ids : eps'[d].consumers = {} /\ task'[d].todo = {} /\ task'[d].cur = <<>>
    <3>1. \A d \in Ids : disk.eps[d] \in EndPoint /\ disk.eps[d].consumers = {}
      BY DEF SInv, MInv, Types, DumpType, Image
    <3> QED BY <2>1, <3>1, TrimmedType DEF Waiting
  <2>4. Members'
    <3>1. \A c \in Subs : <<>> # <<c>>
      OBVIOUS
    <3>2. \A d \in Ids : Consumers(d)'
      BY <2>3, <3>1 DEF Consumers
    <3>3. \A c \in Subs : Member(c)'
      BY <2>1, <2>2 DEF SInv, Members, Member
    <3> QED BY <3>2, <3>3 DEF Members
  <2> QED BY <2>1, <2>2, <2>4 DEF SInv, Serving, Rising
<1> QED BY <1>1, <1>2

LEMMA NextSInv == SInv /\ [Next]_vars => SInv'
<1> SUFFICES ASSUME SInv, [Next]_vars PROVE SInv'
  OBVIOUS
<1>0. MInv' /\ kafkaOffset \in Nat
  BY NextMInv, BoundsAssumption DEF SInv, MInv, Types, ServerType
<1>1. ASSUME NEW d \in Ids, pushTask(d) PROVE SInv'
  BY <1>0, <1>1, TaskSubscribers, PushSubscribers, DoneSubscribers DEF pushTask
<1>2. ASSUME NEW d \in Ids, Reg(d) PROVE SInv'
  BY <1>0, <1>2, RegSubscribers
<1>3. ASSUME NEW c \in Subs, Subscriber(c) PROVE SInv'
  BY <1>0, <1>3, AddSubscribers, NotifySubscribers, RemoveSubscribers DEF Subscriber
<1>4. ASSUME NEW c \in Subs, NEW d \in Ids, NEW f \in {-1} \cup 1 .. MaxFrom, Subscribe(c, d, f)
      PROVE  SInv'
  BY <1>0, <1>4, SubscribeSubscribers
<1>5. CASE Apply
  BY <1>0, <1>5, ApplySubscribers
<1>6. CASE Crash \/ Restore
  BY <1>0, <1>6, RestartSubscribers
<1>7. ASSUME \/ \E d \in Ids : Produce(d)
             \/ \E c \in Subs : ClientRead(c)
             \/ \E c \in Subs : ClientLeave(c)
             \/ Connect \/ ReadMessage \/ LockServer \/ persistence_task \/ UNCHANGED vars
      PROVE  SInv'
  <2>1. UNCHANGED <<up, reg, eps, task, sub, seen, kafkaOffset>>
    BY <1>7 DEF Produce, ClientRead, ClientLeave, Connect, ReadMessage, LockServer, persistence_task,
                DumpLock, DumpEndPoint, DumpUnlock, DumpCommit, streamV, vars
  <2>2. \A c \in Subs : gone[c] => gone'[c]
    <3>1. ASSUME NEW c \in Subs, ClientLeave(c) PROVE \A x \in Subs : gone[x] => gone'[x]
      <4>1. gone \in [Subs -> BOOLEAN] /\ gone' = [gone EXCEPT ![c] = TRUE]
        BY <3>1 DEF ClientLeave, SInv, MInv, Types, SubType
      <4> QED BY <4>1
    <3>2. CASE \/ \E d \in Ids : Produce(d)
               \/ \E c \in Subs : ClientRead(c)
               \/ Connect \/ ReadMessage \/ LockServer \/ persistence_task \/ UNCHANGED vars
      <4>1. gone' = gone
        BY <3>2 DEF Produce, ClientRead, Connect, ReadMessage, LockServer, persistence_task,
                    DumpLock, DumpEndPoint, DumpUnlock, DumpCommit, streamV, vars
      <4> QED BY <4>1
    <3>3. CASE \E c \in Subs : ClientLeave(c)
      BY <3>1, <3>3
    <3> QED BY <1>7, <3>2, <3>3
  <2>3. kafkaOffset <= kafkaOffset'
    BY <1>0, <2>1
  <2> QED BY <1>0, <2>1, <2>2, <2>3, Unserved
<1> QED BY <1>1, <1>2, <1>3, <1>4, <1>5, <1>6, <1>7 DEF Next, receive

LEMMA SInvIsInvariant == Spec => []SInv
  BY InitSInv, NextSInv, PTL DEF Spec

\* No wake-up is lost, whichever way receive, Subscribe, pushTask and restarts
\* interleave.
THEOREM SubscribersCaughtUp == Spec => []CaughtUp
<1>1. SInv => CaughtUp
  <2> SUFFICES ASSUME SInv, NEW c \in Subs, up, sub[c].pc = "live", ~gone[c],
                      task[sub[c].id].pc = "wait", ~eps[sub[c].id].ready,
                      NEW i \in 1 .. Len(eps[sub[c].id].inbox),
                      eps[sub[c].id].start + i - 1 >= sub[c].from
               PROVE  eps[sub[c].id].inbox[i] \in SeenBy(c)
    BY DEF CaughtUp
  <2>1. Serves(c) /\ Passed(c) \in Nat /\ Inbox(c) \in Seq(Msgs)
    BY CallType DEF SInv, MInv, Serving, Served
  <2>2. ~(Passed(c) < Len(Inbox(c)))
    BY <2>1 DEF Serves, Woken
  <2>3. i <= Passed(c)
    BY <2>1, <2>2 DEF Inbox
  <2> QED BY <2>1, <2>3 DEF Serves, Sent, Inbox
<1> QED BY <1>1, SInvIsInvariant, PTL

\* A subscriber is sent messages in the order of the topic, and misses one
\* only when it was evicted before its turn.
THEOREM SubscribersInOrder == Spec => []SentInOrder
<1>1. SInv => SentInOrder
  BY DEF SInv, Rising, Serving, Served, Serves, NoGap, Inbox, SentInOrder
<1> QED BY <1>1, SInvIsInvariant, PTL
=============================================================================
