-------------------------------- MODULE Chat --------------------------------
(***************************************************************************)
(* FKGRpc_Chat: endpoints that keep the last messages of a chat, fed from  *)
(* a Kafka topic, pushed to subscribers and dumped to disk.                *)
(*                                                                         *)
(*   topic --receive--> Inbox --pushTask--> stream --> subscriber          *)
(*                        |  dump / restore                                *)
(*                       disk                                              *)
(*                                                                         *)
(* The goroutines are receive, one pushTask per endpoint, one Subscribe    *)
(* call per subscriber and persistence_task; the locks are that of the     *)
(* server (sLock) and one per endpoint (mu).  A critical section that      *)
(* never blocks is one action, guarded by its lock being free.  The        *)
(* process may end at any moment and restart from the disk.                *)
(*                                                                         *)
(* A message is its index in the topic; SARAMA.OffsetNewest is 0.          *)
(***************************************************************************)
EXTENDS Integers, Sequences, FiniteSets

CONSTANTS
    Ids,        \* endpoints
    Subs,       \* subscribers
    Retention,  \* the retention flag (1024)
    Window,     \* messages a stream takes before Send blocks
    MaxMsgs,    \* messages in the topic
    MaxFrom,    \* latest offset a subscriber asks for
    MaxCrashes  \* ends of the process

ASSUME BoundsAssumption ==
    /\ Retention \in Nat \ {0} /\ Window \in Nat \ {0}
    /\ MaxMsgs \in Nat /\ MaxFrom \in Nat /\ MaxCrashes \in Nat
    /\ Ids # {}

VARIABLES
    topic,      \* endpoint ids, by message
    \* the server
    up, reg, eps, kafkaOffset, sLock,
    task,       \* pushTask of each endpoint
    recv,       \* receive
    dump,       \* persistence_task
    sub,        \* the Subscribe calls
    disk,
    \* the subscribers' side of the streams
    wire, gone,
    \* history
    seen,       \* what has been sent to each subscriber
    regAt,      \* length of the topic when an endpoint was registered
    joined,     \* its length when receive last started from the newest message
    crashes

vars == <<topic, up, reg, eps, kafkaOffset, sLock, task, recv, dump, sub, disk,
          wire, gone, seen, regAt, joined, crashes>>
history == <<regAt, joined, crashes>>
streamV == <<wire, gone, seen>>

Newest == 0
Msgs   == 1 .. MaxMsgs

newEndPoint == [start |-> 1, inbox |-> <<>>, consumers |-> {},
                ready |-> FALSE, mu |-> "free"]
Waiting == [pc |-> "wait", todo |-> {}, cur |-> <<>>, i |-> 0]
Idle    == [pc |-> "idle", id |-> CHOOSE d \in Ids : TRUE, from |-> 0,
            offset |-> 0, err |-> FALSE]
NoDump  == [pc |-> "idle", todo |-> {},
            image |-> [reg |-> {}, kafkaOffset |-> Newest,
                       eps |-> [d \in Ids |-> newEndPoint]]]

\* Offset of the next message of an endpoint.
End(ep) == ep.start + Len(ep.inbox)

Init ==
    /\ topic = <<>> /\ up = TRUE /\ reg = {}
    /\ eps = [d \in Ids |-> newEndPoint] /\ task = [d \in Ids |-> Waiting]
    /\ kafkaOffset = Newest /\ sLock = "free"
    /\ recv = [pc |-> "connect", pos |-> 0, msg |-> 0, found |-> FALSE]
    /\ dump = NoDump /\ disk = NoDump.image
    /\ sub = [c \in Subs |-> Idle]
    /\ wire = [c \in Subs |-> <<>>] /\ gone = [c \in Subs |-> FALSE]
    /\ seen = [c \in Subs |-> <<>>]
    /\ regAt = [d \in Ids |-> 0] /\ joined = 0 /\ crashes = 0

-----------------------------------------------------------------------------
(* The environment: producers and subscribers. *)

Produce(d) ==
    /\ Len(topic) < MaxMsgs
    /\ topic' = Append(topic, d)
    /\ UNCHANGED <<up, reg, eps, kafkaOffset, sLock, task, recv, dump, sub,
                   disk, streamV, history>>

ClientRead(c) ==
    /\ wire[c] # <<>>
    /\ wire' = [wire EXCEPT ![c] = Tail(@)]
    /\ UNCHANGED <<topic, up, reg, eps, kafkaOffset, sLock, task, recv, dump,
                   sub, disk, gone, seen, history>>

\* The subscriber goes away: the stream's context is done, Send fails.
ClientLeave(c) ==
    /\ sub[c].pc # "idle" /\ ~gone[c]
    /\ gone' = [gone EXCEPT ![c] = TRUE] /\ wire' = [wire EXCEPT ![c] = <<>>]
    /\ UNCHANGED <<topic, up, reg, eps, kafkaOffset, sLock, task, recv, dump,
                   sub, disk, seen, history>>

-----------------------------------------------------------------------------
(* Reg and Subscribe *)

\* notifyConsumers: the channel holds one token, a second one is dropped.
Notified(ep) == [ep EXCEPT !.ready = TRUE]

\* An id that exists is answered with an error.
Reg(d) ==
    /\ up /\ sLock = "free" /\ d \notin reg
    /\ reg' = reg \cup {d}
    /\ eps' = [eps EXCEPT ![d] = newEndPoint]
    /\ regAt' = [regAt EXCEPT ![d] = Len(topic)]
    /\ UNCHANGED <<topic, up, kafkaOffset, sLock, task, recv, dump, sub, disk,
                   streamV, joined, crashes>>

\* ep := s.read_ep(p.Id); an unknown id is answered with an error.
Subscribe(c, d, from) ==
    /\ up /\ sLock = "free" /\ d \in reg /\ sub[c].pc = "idle"
    /\ sub' = [sub EXCEPT ![c] = [Idle EXCEPT !.pc = "found", !.id = d,
                                              !.from = from]]
    /\ UNCHANGED <<topic, up, reg, eps, kafkaOffset, sLock, task, recv, dump,
                   disk, streamV, history>>

MuFree(d) == eps[d].mu = "free"

From(c, ep) == IF sub[c].from = -1 THEN End(ep) ELSE sub[c].from

AddConsumer(c) ==
    /\ up /\ sub[c].pc = "found" /\ MuFree(sub[c].id)
    /\ LET f == From(c, eps[sub[c].id])
       IN  sub' = [sub EXCEPT ![c].pc = "added", ![c].from = f,
                              ![c].offset = f]
    /\ eps' = [eps EXCEPT ![sub[c].id].consumers = @ \cup {c}]
    /\ UNCHANGED <<topic, up, reg, kafkaOffset, sLock, task, recv, dump, disk,
                   streamV, history>>

NotifyAdded_Silent(c) ==                                  \* mutant
    /\ up /\ sub[c].pc = "added" /\ sub' = [sub EXCEPT ![c].pc = "live"]
    /\ UNCHANGED <<topic, up, reg, eps, kafkaOffset, sLock, task, recv, dump,
                   disk, streamV, history>>
NotifyAdded(c) ==
    /\ up /\ sub[c].pc = "added"
    /\ sub' = [sub EXCEPT ![c].pc = "live"]
    /\ eps' = [eps EXCEPT ![sub[c].id] = Notified(@)]
    /\ UNCHANGED <<topic, up, reg, kafkaOffset, sLock, task, recv, dump, disk,
                   streamV, history>>

\* select: the context is done, or Send has failed; then the deferred delete.
RemoveConsumer(c) ==
    /\ up /\ sub[c].pc = "live" /\ (gone[c] \/ sub[c].err)
    /\ MuFree(sub[c].id)
    /\ sub' = [sub EXCEPT ![c].pc = "done"]
    /\ eps' = [eps EXCEPT ![sub[c].id].consumers = @ \ {c}]
    /\ UNCHANGED <<topic, up, reg, kafkaOffset, sLock, task, recv, dump, disk,
                   streamV, history>>

Subscriber(c) == AddConsumer(c) \/ NotifyAdded(c) \/ RemoveConsumer(c)

-----------------------------------------------------------------------------
(* pushTask: holds the endpoint's lock while it sends. *)

TakeToken(d) ==
    /\ up /\ d \in reg /\ task[d].pc = "wait" /\ eps[d].ready
    /\ eps' = [eps EXCEPT ![d].ready = FALSE]
    /\ task' = [task EXCEPT ![d].pc = "lock"]
    /\ UNCHANGED <<topic, up, reg, kafkaOffset, sLock, recv, dump, sub, disk,
                   streamV, history>>

LockEndPoint(d) ==
    /\ up /\ task[d].pc = "lock" /\ MuFree(d)
    /\ eps' = [eps EXCEPT ![d].mu = "push"]
    /\ task' = [task EXCEPT ![d].pc = "loop", ![d].todo = eps[d].consumers]
    /\ UNCHANGED <<topic, up, reg, kafkaOffset, sLock, recv, dump, sub, disk,
                   streamV, history>>

\* The next consumer of the map, in no particular order.  One that lags behind
\* starts from the first message kept.
FirstIndex(ep, offset) ==
    IF offset < ep.start THEN 0 ELSE offset - ep.start

NextConsumer(d) ==
    /\ up /\ task[d].pc = "loop" /\ task[d].cur = <<>>
    /\ \E c \in task[d].todo :
          task' = [task EXCEPT ![d].cur = <<c>>,
                               ![d].todo = @ \ {c},
                               ![d].i = FirstIndex(eps[d], sub[c].offset)]
    /\ UNCHANGED <<topic, up, reg, eps, kafkaOffset, sLock, recv, dump, sub,
                   disk, streamV, history>>

\* consumer.pushFunc: Send blocks on a full stream, fails on one that is gone.
SendReady(c) == gone[c] \/ Len(wire[c]) < Window

PushOne(d) ==
    /\ up /\ task[d].cur # <<>> /\ task[d].i < Len(eps[d].inbox)
    /\ LET c == task[d].cur[1]
           m == [n |-> eps[d].inbox[task[d].i + 1],
                 off |-> task[d].i + eps[d].start]
       IN  /\ SendReady(c)
           /\ IF gone[c]
              THEN /\ sub' = [sub EXCEPT ![c].err = TRUE]
                   /\ UNCHANGED <<wire, seen>>
              ELSE /\ wire' = [wire EXCEPT ![c] = Append(@, m)]
                   /\ seen' = [seen EXCEPT ![c] = Append(@, m)]
                   /\ UNCHANGED sub
    /\ task' = [task EXCEPT ![d].i = @ + 1]
    /\ UNCHANGED <<topic, up, reg, eps, kafkaOffset, sLock, recv, dump, disk,
                   gone, history>>

OffsetAfter_LastSent(ep) == End(ep) - 1                   \* mutant
OffsetAfter(ep) == End(ep)

ConsumerDone(d) ==
    /\ up /\ task[d].cur # <<>> /\ task[d].i >= Len(eps[d].inbox)
    /\ sub' = [sub EXCEPT ![task[d].cur[1]].offset = OffsetAfter(eps[d])]
    /\ task' = [task EXCEPT ![d].cur = <<>>]
    /\ UNCHANGED <<topic, up, reg, eps, kafkaOffset, sLock, recv, dump, disk,
                   streamV, history>>

UnlockEndPoint(d) ==
    /\ up /\ task[d].pc = "loop" /\ task[d].cur = <<>> /\ task[d].todo = {}
    /\ eps' = [eps EXCEPT ![d].mu = "free"]
    /\ task' = [task EXCEPT ![d] = Waiting]
    /\ UNCHANGED <<topic, up, reg, kafkaOffset, sLock, recv, dump, sub, disk,
                   streamV, history>>

pushTask(d) ==
    \/ TakeToken(d) \/ LockEndPoint(d) \/ NextConsumer(d) \/ PushOne(d)
    \/ ConsumerDone(d) \/ UnlockEndPoint(d)

-----------------------------------------------------------------------------
(* receive *)

Connect ==
    /\ up /\ recv.pc = "connect"
    /\ recv' = [recv EXCEPT !.pc = "read",
                            !.pos = IF kafkaOffset = Newest
                                    THEN Len(topic) + 1 ELSE kafkaOffset]
    /\ joined' = IF kafkaOffset = Newest THEN Len(topic) ELSE joined
    /\ UNCHANGED <<topic, up, reg, eps, kafkaOffset, sLock, task, dump, sub,
                   disk, streamV, regAt, crashes>>

\* A message not beyond kafkaOffset has been applied and is skipped; of any
\* other the endpoint is looked up, under the read lock.
IsNew_OrEqual(m) == kafkaOffset <= m                      \* mutant
IsNew(m) == kafkaOffset < m

ReadMessage ==
    /\ up /\ recv.pc = "read" /\ recv.pos <= Len(topic)
    /\ IF IsNew(recv.pos)
       THEN /\ sLock = "free"
            /\ recv' = [recv EXCEPT !.pc = "lock", !.msg = recv.pos, !.pos = @ + 1,
                                    !.found = topic[recv.pos] \in reg]
       ELSE recv' = [recv EXCEPT !.pos = @ + 1]
    /\ UNCHANGED <<topic, up, reg, eps, kafkaOffset, sLock, task, dump, sub,
                   disk, streamV, history>>

LockServer ==
    /\ up /\ recv.pc = "lock" /\ sLock = "free"
    /\ sLock' = "receive" /\ recv' = [recv EXCEPT !.pc = "apply"]
    /\ UNCHANGED <<topic, up, reg, eps, kafkaOffset, task, dump, sub, disk,
                   streamV, history>>

\* EndPoint.push before notifyConsumers.
Pushed_Late(ep, m) ==                                     \* mutant
    IF Len(ep.inbox) > Retention + 1
    THEN [ep EXCEPT !.inbox = Append(Tail(@), m), !.start = @ + 1]
    ELSE [ep EXCEPT !.inbox = Append(@, m)]
Pushed(ep, m) ==
    IF Len(ep.inbox) > Retention
    THEN [ep EXCEPT !.inbox = Append(Tail(@), m), !.start = @ + 1]
    ELSE [ep EXCEPT !.inbox = Append(@, m)]

Apply ==
    /\ up /\ recv.pc = "apply"
    /\ LET d == topic[recv.msg]
       IN  \/ /\ recv.found /\ MuFree(d)
              /\ eps' = [eps EXCEPT ![d] = Notified(Pushed(@, recv.msg))]
           \/ ~recv.found /\ UNCHANGED eps
    /\ kafkaOffset' = recv.msg
    /\ sLock' = "free" /\ recv' = [recv EXCEPT !.pc = "read"]
    /\ UNCHANGED <<topic, up, reg, task, dump, sub, disk, streamV, history>>

receive == Connect \/ ReadMessage \/ LockServer \/ Apply

-----------------------------------------------------------------------------
(* Query and Latest, under the endpoint's lock: the indexes of Inbox read. *)

\* The range is cut to the Inbox; one of more than one message is then
\* answered with nothing (crange.To > crange.From).
QueryFrom_AsAsked(ep, from) == from                       \* mutant
QueryFrom(ep, from) == IF from < ep.start THEN ep.start ELSE from
QueryTo(ep, to)     == IF to > End(ep) - 1 THEN End(ep) - 1 ELSE to

Query(ep, from, to) ==
    IF QueryTo(ep, to) > QueryFrom(ep, from) THEN {}
    ELSE {i - ep.start : i \in QueryFrom(ep, from) .. QueryTo(ep, to)}

Latest(ep, n) ==
    LET first == Len(ep.inbox) - n
    IN  (IF first < 0 THEN 0 ELSE first) .. Len(ep.inbox) - 1

-----------------------------------------------------------------------------
(* persistence_task, on its ticker or on SIGTERM, and restore. *)

DumpLock ==
    /\ up /\ dump.pc = "idle" /\ sLock = "free"
    /\ sLock' = "dump"
    /\ dump' = [pc |-> "eps", todo |-> reg,
                image |-> [disk EXCEPT !.reg = reg,
                                       !.kafkaOffset = kafkaOffset]]
    /\ UNCHANGED <<topic, up, reg, eps, kafkaOffset, task, recv, sub, disk,
                   streamV, history>>

\* JSON.Marshal of the exported fields, StartOffset and Inbox.
Marshal(ep) == [newEndPoint EXCEPT !.start = ep.start, !.inbox = ep.inbox]

DumpEndPoint(d) ==
    /\ up /\ dump.pc = "eps" /\ d \in dump.todo /\ MuFree(d)
    /\ dump' = [dump EXCEPT !.todo = @ \ {d},
                            !.image.eps[d] = Marshal(eps[d])]
    /\ UNCHANGED <<topic, up, reg, eps, kafkaOffset, sLock, task, recv, sub,
                   disk, streamV, history>>

\* s.Unlock() at the end of the transaction's function, then its commit.
DumpUnlock ==
    /\ up /\ dump.pc = "eps" /\ dump.todo = {}
    /\ sLock' = "free" /\ dump' = [dump EXCEPT !.pc = "commit"]
    /\ UNCHANGED <<topic, up, reg, eps, kafkaOffset, task, recv, sub, disk,
                   streamV, history>>

DumpCommit ==
    /\ up /\ dump.pc = "commit"
    /\ disk' = dump.image /\ dump' = NoDump
    /\ UNCHANGED <<topic, up, reg, eps, kafkaOffset, sLock, task, recv, sub,
                   streamV, history>>

persistence_task == DumpLock \/ DumpUnlock \/ DumpCommit \/ \E d \in Ids : DumpEndPoint(d)

\* The process ends: the exit after SIGTERM's dump, or a crash anywhere.
Crash ==
    /\ up /\ crashes < MaxCrashes
    /\ up' = FALSE /\ crashes' = crashes + 1
    /\ sub' = [c \in Subs |-> IF sub[c].pc = "idle" THEN sub[c]
                                ELSE [sub[c] EXCEPT !.pc = "done"]]
    /\ wire' = [c \in Subs |-> <<>>]
    /\ UNCHANGED <<topic, reg, eps, kafkaOffset, sLock, task, recv, dump, disk,
                   gone, seen, regAt, joined>>

\* Inbox is cut to the retention; StartOffset stays.
Trimmed_OneShort(ep) ==                                   \* mutant
    IF Len(ep.inbox) > Retention
    THEN [ep EXCEPT !.inbox = SubSeq(@, Len(@) - Retention + 2, Len(@))]
    ELSE ep
Trimmed(ep) ==
    IF Len(ep.inbox) > Retention
    THEN [ep EXCEPT !.inbox = SubSeq(@, Len(@) - Retention + 1, Len(@))]
    ELSE ep

Restore ==
    /\ ~up /\ up' = TRUE
    /\ reg' = disk.reg /\ kafkaOffset' = disk.kafkaOffset
    /\ eps' = [d \in Ids |-> Trimmed(disk.eps[d])]
    /\ task' = [d \in Ids |-> Waiting] /\ sLock' = "free" /\ dump' = NoDump
    /\ recv' = [pc |-> "connect", pos |-> 0, msg |-> 0, found |-> FALSE]
    /\ UNCHANGED <<topic, sub, disk, streamV, history>>

-----------------------------------------------------------------------------
Next ==
    \/ \E d \in Ids : Produce(d) \/ Reg(d) \/ pushTask(d)
    \/ \E c \in Subs : ClientRead(c) \/ ClientLeave(c) \/ Subscriber(c)
    \/ \E c \in Subs, d \in Ids, f \in {-1} \cup 1 .. MaxFrom :
          Subscribe(c, d, f)
    \/ receive \/ persistence_task \/ Crash \/ Restore

Spec == Init /\ [][Next]_vars

-----------------------------------------------------------------------------
EndPoint == [start : Nat, inbox : Seq(Msgs), consumers : SUBSET Subs,
             ready : BOOLEAN, mu : {"free", "push"}]
Image == [reg : SUBSET Ids, kafkaOffset : 0 .. MaxMsgs, eps : [Ids -> EndPoint]]

\* Types; an Inbox holds at most one message more than the retention, and an
\* endpoint's lock is held by its pushTask exactly while that is in its loop.
TypeOK ==
    /\ topic \in Seq(Ids) /\ up \in BOOLEAN /\ reg \subseteq Ids
    /\ eps \in [Ids -> EndPoint] /\ kafkaOffset \in 0 .. MaxMsgs
    /\ sLock \in {"free", "receive", "dump"}
    /\ task \in [Ids -> [pc : {"wait", "lock", "loop"}, todo : SUBSET Subs,
                         cur : Seq(Subs), i : Nat]]
    /\ recv \in [pc : {"connect", "read", "lock", "apply"},
                 pos : Nat, msg : 0 .. MaxMsgs, found : BOOLEAN]
    /\ dump \in [pc : {"idle", "eps", "commit"}, todo : SUBSET Ids,
                 image : Image]
    /\ disk \in Image
    /\ sub \in [Subs -> [pc : {"idle", "found", "added", "live", "done"},
                         id : Ids, from : Int, offset : Nat, err : BOOLEAN]]
    /\ \A d \in Ids : /\ Len(eps[d].inbox) <= Retention + 1
                      /\ eps[d].mu = "push" <=> task[d].pc = "loop"

\* The messages of an endpoint in t, the topic, behind lo and up to hi.
Mine(t, d, lo, hi) == {k \in lo + 1 .. hi : t[k] = d}
Elements(q) == {q[i] : i \in 1 .. Len(q)}

\* An Inbox is the tail of the messages of its endpoint that the server has
\* taken from the topic: across crashes, dumps and replays nothing is applied
\* twice, out of order or left out in the middle.
IsTail(t, d, q, hi) ==
    /\ Elements(q) \subseteq Mine(t, d, 0, hi)
    /\ \A i, j \in 1 .. Len(q) : i < j => q[i] < q[j]
    /\ \A i \in 1 .. Len(q) : Mine(t, d, q[i], hi) \subseteq Elements(q)
InboxIsTail == \A d \in reg : up => IsTail(topic, d, eps[d].inbox, kafkaOffset)

\* The retention is kept (ReadMe.MD: a certain number of messages is kept, and
\* dumped regularly to be loaded at a restart): an Inbox has Retention messages
\* or all that followed the registration and that the server has taken, after
\* a crash too, unless receive started from the newest ones.
Since(d) == IF regAt[d] < joined THEN joined ELSE regAt[d]
Kept(t, d, q, lo, hi) == Len(q) >= Retention \/ Mine(t, d, lo, hi) \subseteq Elements(q)
RetentionKept ==
    \A d \in reg : up => Kept(topic, d, eps[d].inbox, Since(d), kafkaOffset)

SeenBy(c)   == {m.n : m \in Elements(seen[c])}

\* No wake-up is lost: when pushTask waits without a token, every subscriber
\* has been sent every message of the Inbox from the offset it asked for.
CaughtUp ==
    \A c \in Subs :
       LET d == sub[c].id
       IN  (/\ up /\ sub[c].pc = "live" /\ ~gone[c]
            /\ task[d].pc = "wait" /\ ~eps[d].ready)
           => \A i \in 1 .. Len(eps[d].inbox) :
                 eps[d].start + i - 1 >= sub[c].from
                 => eps[d].inbox[i] \in SeenBy(c)

\* A subscriber is sent messages in the order of the topic, none twice, and
\* misses one only when it has left the Inbox before it was sent.
SentInOrder ==
    \A c \in Subs :
       LET d == sub[c].id
       IN  \A i \in 1 .. Len(seen[c]) - 1 :
              /\ seen[c][i].n < seen[c][i + 1].n
              /\ (up /\ sub[c].pc = "live") =>
                 \A k \in Elements(eps[d].inbox) :
                    ~(seen[c][i].n < k /\ k < seen[c][i + 1].n)

\* Query and Latest index the Inbox within its bounds whatever the range they
\* are asked for and whatever eviction and restore have done to StartOffset.
AnswersInInbox ==
    \A d \in reg : \A a, b \in 0 .. MaxMsgs + 1 :
       Query(eps[d], a, b) \cup Latest(eps[d], a) \subseteq 0 .. Len(eps[d].inbox) - 1

\* EndPoint.StartOffset is the offset of the first message: a message has the
\* same offset for every subscriber, whenever it is sent.
OffsetsStable ==
    \A c, e \in Subs : \A m \in Elements(seen[c]), o \in Elements(seen[e]) :
       m.n = o.n /\ sub[c].id = sub[e].id => m.off = o.off
=============================================================================
