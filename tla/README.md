# FKGoServer: a TLA+ verification project

FKGoServer is a set of Go processes for an online game: a gateway (*Agent*)
that holds the client connections, game servers behind it, and gRPC services
(unique ids, chat, ranking, word filter, GeoIP) found through etcd.  This
directory models the parts whose behaviour depends on the order of events
(goroutines and channels, locks, restarts from disk, a store that loses
answers, a directory that changes) and the two data structures whose code is
hard to get right: the byte codec and the ranking's tree.  TLC checks the
models on small instances; for the gateway session, the shutdown of the
gateway, the game server, the id generator, chat, rankings, their tree and
their persistence, and the pool of services TLAPS proves the central safety
properties for all parameters.

## 1. Inventory

| Component | State | Operations | Talks to |
|---|---|---|---|
| Gateway session (`FKServer_Agent`: InitApp, ClientSessionHandler, UserMsgHandler, Buffer, Forward, TimerHandler, Msg_C2A_Handle) | flag, ciphers, packet count, stream, MQ, channels `in`, `pending`, `ctrl`, `Die` | read a packet, dispatch it, key exchange, login, forward, push, count per minute, clean up | the client over TCP/KCP; a game server over a gRPC stream |
| Gateway process (InitApp, OSSignHandler, GlobalVer, main) | `DIE_SIGN`, `SYNC_WAITGROUP`, listeners | accept, SIGTERM, wait, exit | every session |
| Game server (`FKServer_Game`) | registry of users, a session per stream, `ch_agent` | Stream, func_Recv, Register, Unregister, frames | the gateway |
| Snowflake, ids (`FKGRpc_Snowflake`) | machine id, last time, serial number, request queue | GetUUID, generator goroutine, start | etcd |
| Snowflake, sequences | a counter in etcd, client pool | Next, func_InitMachineID | etcd |
| Chat (`FKGRpc_Chat`) | endpoints (Inbox, StartOffset, consumers, token), kafkaOffset, two kinds of lock | Reg, Subscribe, Query, Latest, receive, pushTask, dump, restore | Kafka, subscribers' streams, boltdb |
| Rank service (`FKGRpc_Rank/Framework`) | sets, pending queue, changes | RankChange, DeleteUser, DeleteSet, queries, dump, restore | boltdb |
| Rank sets (`RankSet`, `SortedSet`) and tree (`Dos`) | score of each user, order in a slice or in a red-black tree with subtree sizes | Update, Delete, toggle, Unmarshal, GetList, Rank; Insert, Delete, rotations, Locate | the rank service |
| Service discovery (`FKLib_Common/Service`, `ETCDClient`) | pool of gRPC clients by service, round robin counters, callbacks, one lock | list, watch, add, remove, look up, register | etcd, all servers |
| Configuration tables (`Utils/Numbers`) | parsed workbooks by file | load, watch, look up | etcd |
| Packet codec, message definitions (`Packet`, `Proto`, `MsgDefine`) | none | readers, writers, `Func_Pack` by reflection, dispatch by number | gateway, game server, clients |
| Diffie-Hellman | none | DHExchange, DHKey | gateway, client |
| Simulated client (`FKTools_Simulate`) | packet number, ciphers | send a message, read the answer | gateway |
| Word filter, GeoIP, random numbers, database latch, profiling, viewers, generators | none that other parts depend on | look-ups, metrics, terminals, text | |

What makes each one correct, and what is hard about it:

- **Session.** Packets reach the game server once and in order though a client
  may repeat them; frames reach the client once and in order though they pass
  four goroutines; the cipher is switched at the right packet; nobody sends on
  a closed channel; all goroutines end, whichever fails first; the stream is
  released.  Hard: three channels closed by three goroutines, a blocking
  `Write`, `select` with several ready arms.
- **Process.** After SIGTERM counted sessions are waited for, late connections
  are bounded, the process exits and leaves nobody registered on a game server.
  Hard: `Accept` is blocked when the signal comes; the count is raised by the
  new goroutine.
- **Game server.** The registry follows the streams; frames are not lost while
  a call serves; both goroutines of a call return.
- **Snowflake.** Ids are unique and ordered, across processes, restarts, clock
  changes and serial number overflow; numbers of a counter are unique though
  answers of etcd are lost.
- **Chat.** The Inbox is the tail of the topic across crashes and replays, no
  wake-up of `pushTask` is lost, a subscriber gets each message once, in order.
- **Rank.** The order goes by score, lists and ranks agree, conversions lose
  nobody, changes reach the disk; the tree stays balanced, and its sizes are
  right after every rotation.
- **Discovery, tables.** What is served follows the directory.  Hard: list and
  watch are two requests, a dial blocks under the lock, the etcd server keeps a
  window of changes.
- **Wire.** A message arrives as it was written, through packing, framing,
  partial reads and two ciphers that must stay in step.

`PROJECT.json` lists the hazards line by line, with the properties that cover
them.  Where the code goes wrong and no document of the repository says it does
not, the hazard has no property but a note: the model shows the case, section 5
describes it, and the properties around it except it by name.

## 2. Modules

| Module | Models | Relation |
|---|---|---|
| `Fifo` | what a relay promises in one direction | abstract specification |
| `AgentSession` | one connection of the gateway | |
| `AgentRelay`, `MCAgentRelay` | a session implements a `Fifo` in each direction | EXTENDS AgentSession, INSTANCE Fifo twice |
| `AgentShutdown` | listeners, wait group, SIGTERM | a session is one step of it (`AgentSession!SessionEnds`) |
| `GameServer` | streams of the game server and the registry | |
| `Gateway`, `MCGateway` | gateway process and game server together | EXTENDS GameServer, INSTANCE AgentShutdown |
| `Snowflake` | GetUUID over process lives | |
| `SnowflakeSeq` | the compare-and-swap loop on etcd | |
| `SnowflakeService`, `MCSnowflake` | both: machine ids come from the loop | EXTENDS Snowflake, INSTANCE SnowflakeSeq |
| `Chat` | endpoints, topic, subscribers, disk | |
| `RankSet` | operators on one ranking: slice, tree, conversions | no variables |
| `Rank` | calls and persistence of the rank service | EXTENDS RankSet |
| `TreeSpec` | what `RankSet` takes its tree to be | abstract specification, EXTENDS RankSet |
| `RankTree`, `MCRankTree` | the red-black tree, repair case by repair case | INSTANCE TreeSpec (refinement) |
| `Etcd` | a directory with a log of its changes and a watch on it | external, from its use |
| `ServicePool`, `Numbers` | the pool and the tables that follow a directory | EXTEND Etcd |
| `Discovery`, `MCDiscovery` | both in one program, against one etcd | EXTENDS ServicePool, Numbers |
| `Packet`, `MsgDefine` | readers and writers; tables, numbers, key exchange | no variables |
| `Wire`, `MCWire` | client, gateway and game server, byte for byte | EXTENDS MsgDefine |
| `AgentSessionProofs` | theorems of a session and of its two `Fifo`s | EXTENDS AgentRelay |
| `GatewayProofs` | theorems of the game server and of its composition with the gateway | EXTENDS Gateway |
| `ChatProofs`, `RankProofs`, `RankTreeProofs`, `DiscoveryProofs`, `SnowflakeSeqProofs` | theorems | EXTEND their modules |
| `SnowflakeProofs` | theorems of the ids, and of their composition with the loop | EXTENDS SnowflakeService; INSTANCE SnowflakeSeqProofs |

Operators ending in `_Word` beside an operator of the same name are deliberate
faults of that operator: each property is also run with one of them in its
place, and must then fail.

The constant `Loads` of a composed module is a set of records that bound what
happens in one behaviour; `Init` picks one, and nothing else depends on it.
The loads of a run are chosen so that each brings out some of the cases
completely, where all cases at once would be out of reach.

### How the models correspond to the code

*AgentSession.* Each goroutine has a program counter (`reader`, `handler`,
`sender`, `fetch[f].pc`) whose values are the statements it can block at, and a
sequence of at most one element for the value it holds there.  One action is
one `select` arm or blocking call with everything up to the next blocking
statement: `HandlerPacket` is the arm `msg, ok := <-in` with all of
`func_UserMsgHandler` (sequence check, decryption, dispatch, the handlers, and
the push of the answer up to its send on `pending`).  Unbuffered channels are
one action of both sides; `MQ` and the two directions of the connection are
bounded sequences.  A keystream is `<<epoch, packets so far>>`; two ends agree
exactly when the pairs do.  The client keeps or breaks the protocol, repeats its
last packet, falls silent, stops reading or closes; the history variable
`legal` remembers whether it has kept to it.

*AgentShutdown.* A connection is away, in the backlog, spawned (its goroutine
not yet counted), serving or done.

*GameServer.* Per stream call: `call` is the method, `recv` its receiving
goroutine, `ch` the one-place channel between them.  `Unregister` removes the
entry of the user number, whoever made it, as the code does.  *Gateway* ties a
connection to its stream: a stream is opened while the connection is served,
and the deferred `CloseSend` comes before the deferred `Done`.

*Snowflake.* A life is one process start; a clock reading is any time.
`Overflow` and `ClockBack` enter the wait that `Waited` leaves.
*SnowflakeSeq.* `Get` and `Set` are atomic at etcd; `SetFails` covers a failed
condition, a lost request, and an answer lost after the effect.  In
*SnowflakeService* the counter of the loop is the one lives draw their machine
ids from: `Set` of a starting life is also its `StartAuto`.

*Chat.* A message is its position in the topic.  Critical sections that cannot
block are one action guarded by the lock being free; `pushTask` holds `mu` over
several actions because `stream.Send` blocks in it, and `dump` holds the
server's lock while it waits for each `mu`.  A crash may come between any two
actions and keeps the disk alone.

*Rank.* A call is looked up, changed, enqueued: three actions.  Maps are ranged
over in any order, so `toggle` and `Unmarshal` return sets of results.  The tree
is kept as what it promises, the ids of each score in order of insertion.

*RankTree.* A node is an address with its fields; `t` holds the root and the
nodes.  `pc` names the case of the code that runs (`insert_case1` to 5,
`delete_case1` to 6, the descent) and `n` its node, so that one action is one
case with all its pointer and size assignments; a rotation carries its callback.
A branch and its mirror image are one action in which a side is the name of a
child field.  Recursive look-ups are recursive functions.

*ServicePool.* `mu` names who holds the lock.  `add_service` takes it and keeps
it over the dial, which ends (`Dialed`) when the address answers;
`register_callback` keeps it while it sends into the subscriber's channel.
*Etcd* is a log of which the last `Window` changes can be watched; a watch
starts where its request finds the log, and later goes on from the last event.
*Numbers* keeps a workbook as a table of cells; a content that cannot be
decoded is a value outside `Books`, a parse that panics leaves what it had set.
What lookups should answer is said over the cells of a workbook that come before
the one its parse panics at (`Held`), not over the parse.

*Wire.* Bytes have `Base` values instead of 256, so that a number has several
bytes and a frame reaches its limit; the ciphers are a stream that depends on
key and position, and combining twice gives the data back (RC4 is external).
One read takes one byte or all there is.  `AgentSession` has all interleavings
of the goroutines and no bytes, `Wire` has the bytes and one action per message
of each side.

## 3. Runs

| Run | Question | Bounds, and why they are enough |
|---|---|---|
| `agent_relay` | `ForwardedOnce`, `WellBehavedNotKicked`, `StreamsReleased`, `DownstreamIntact`, `PendingOpenWhilePushing`, refinements `RelaysUp`, `RelaysDown` | load 1: 4 packets (seed, login, two game packets), retries, one clock minute, limit 3: every handler, kick reason and a minute's boundary occur; load 2: 3 packets of a client that may stall, SIGTERM at any moment; load 3: 2 frames around a key exchange and a login, such a client, SIGTERM, buffers of 1: each of the five places is full while another frame waits; load 4: a frame among three packets |
| `agent_live` | `SessionEnds`: every goroutine returns | a client that reads, falls silent or closes; a frame in flight; one clock minute, in which 2 packets and a repeated one exceed the rate of 2 |
| `agent_stall` (violation) | `ShutdownCompletes` with a client that stops reading | 3 packets fill connection, sender and handler |
| `gateway` | `LateAcceptsBounded`, `CountedServed`, `OnlineUsersRegistered`, `FramesKept`, `Exits`, `CallEnds`, `UsersLeave` | 2 listeners, 3 connections: one for each listener's blocked Accept, and one more; 2 calls of one user, successive and overlapping; 2 frames fill the channel and the hand; SIGTERM at any moment of a login |
| `snowflake` | `UuidsUnique`, `UuidsOrdered`, `NumbersUnique`, `NumbersFollow`, `CallsReturn` | load 1: a start and two calls at once on 2 clients with 2 faults: one call waits for the pool while two race; load 2: 3 lives, one pinned, 2 serial numbers, so that a millisecond overflows, and 3 ids |
| `chat` | `InboxIsTail`, `RetentionKept`, `CaughtUp`, `SentInOrder`, `AnswersInInbox` | retention 1 and 3 messages: the Inbox grows over it, evicts, and is cut by a restart; stream window 1 |
| `chat_offsets` (violation) | `OffsetsStable` | 2 subscribers, one before and one after a restart |
| `rank` | `ListsEveryUser`, `RisingInOrder`, `ChangesRecorded` | 3 users, thresholds 1 and 2: one insertion converts to the tree, two deletions allow the way back with a user in it; scores and ids overlap, so swapped pairs are mistaken for users.  (The lower threshold is above the upper one: with three users this alone gives both conversions; the code compares them nowhere.) |
| `rank_order` (violation) | `Ranked` | 2 users |
| `rank_tree` | `RanksRight`, `Balanced`, refinement `ImplementsTree` | eight scores, one of them with two ids, in every order of insertion and deletion: every case of both repairs occurs, and a repair of Delete goes up the tree |
| `discovery` | `PoolFollows`, `RoundRobin`, `TablesCurrent`, `LookupsReturn` | 2 instances; 2 files, one of them with two readable workbooks (one whole, one whose parse panics) and a broken one, the other with one whose parse panics inside a row; up to 3 changes before, between and after list and watch, a window of 2, an address that does not answer, a channel of 1 that fills; a round robin counter that wraps at 3 |
| `wire` | `MessagesIntact` | the script of the simulated client, 2 secrets on each side, 2 pushes out of a table of every kind, the longest frame, one byte more, and nothing; a length of two bytes holds `Base^2 - 1` = 63 |

Deadlock is checked but where the system stops because its load is used up:
`gateway` (no connection is left to dial), `snowflake` (no start, no call, no
id), `discovery` (etcd changes no more), `wire` (the client has sent its script
and reads no further).

Type invariants are checked in `agent_relay`, `snowflake`, `chat` and `rank`,
where they also say which goroutine holds what and how large a queue may be;
that of `GameServer` is proved.

### Fairness

Goroutines that can run do (weak fairness of each one's actions): the Go
scheduler is preemptive.  Strong fairness is assumed for two things: an arm of a
`select` that is ready again and again (`select` picks at random among ready
arms: `HandlerEOF`, `HandlerDie`), and a waiter on a Go channel served in
order (`TakeClient` of the client pool).  A client is assumed to keep reading
only where it has not been declared stalled; it need not send, close or answer.
A game server whose input has ended returns (`CallEnds` shows this for its own
two goroutines).  `GatewaySpec` assumes that a session told to end closes its
stream and returns, which `SessionEnds` shows for clients that read, and
`agent_stall` refutes for clients that do not.  `LookupsReturn` has as its
hypothesis that every address answers in the end: a dial has no time limit.
Nothing is assumed about the network, clocks, etcd's changes, SIGTERM or
crashes.

## 4. Proofs

Each theorem says of one specification, for every value of its constants, what a
run checks on a small instance.  The invariants named below are inductive, and
stronger than the properties they are for.

**A session** (`AgentSessionProofs`).

- `TypeCorrect`: `[]TypeOK`.  `TypeOK` is inductive as stated, since it says
  which program counter goes with which held value, and that a running fetcher
  has a stream.
- `ForwardsOnce`: `[]ForwardedOnce`.  What keeps a repeated packet out is that
  every packet anywhere on the way (in the connection, or in the reader's hand)
  carries the kind the client gave its number, and that what was forwarded is
  not above `packetCount`: `FwdInv == TypeOK /\ Numbered /\ ForwardedOnce`.
- `PendingStaysOpen`: `[]PendingOpenWhilePushing`, by `StopInv` (the sender is
  done only when the handler is), which follows from the order of the deferred
  `close(sess.Die)` and the sender's `ctrl` arm.
- `ReleasesStreams`: `[]StreamsReleased`.  Streams are opened in the order of
  their numbers (`Unopened`), so all above the session's own do not exist yet.
- `KeepsWellBehaved`: `[]WellBehavedNotKicked`.  `Flow` follows the client's
  packets through the connection: the `i`-th one on its way has the number and
  the keystream that the handler will expect after the `i - 1` before it
  (`Fits`).  Either both ends hold one keystream (`Agreed`), or the client waits
  for the ack of an exchange with nothing of its own on the way (`Rekeyed`);
  `Logged` and `Switched` relate what the client has read to the session's flags.
- `DeciphersAll`: the client deciphers all it reads, with one key exchange
  (`MaxSeeds <= 1`).  A packet at place `j` of the downlink is enciphered with the
  keystream the client will hold when it reads it: its own, `j - 1` packets on,
  up to the ack at place `q`, and the new one after it (`Keyed(q)`).  A second
  exchange is answered with the key it announces (divergences), so the
  hypothesis is needed.
- `DeliversIntact`: `[]DownstreamIntact`, with one exchange and one login.  The
  handler has taken the frames `1 .. c`: the client has read the first of them
  and the others are in its downlink in order (`CutAt`); what waits goes on from
  `c + 1` (`Pending`).  `c` is a bound variable of the invariant, not a variable of
  the model: each step either leaves it or moves it by one.  A second login
  replaces the stream and leaves the first one's frames behind, hence
  `MaxLogins = 1`.
- `RelaysDownstream`: the session implements `Fifo` towards the client, step by
  step: sending a frame is `Submit`, reading one is `Deliver`, every other step
  a stutter, under the invariant of `DeliversIntact`.
- `RelaysUpstream`: it implements `Fifo` towards the game server, with one login.
  The abstract input is the client's game packets, numbered by counting: the
  `k`-th is the one up to which there are `k` (`Ranked`: there is one for every
  `k`).  The `k`-th packet forwarded is the `k`-th of them (`InTurn`); and while the
  handler serves and its only stream has not ended, every game packet counted
  was forwarded (`Through`), so that the one it forwards next is next in turn.

**Game server and gateway** (`GatewayProofs`).

- `Registry`: `[]OnlineUsersRegistered`.  A stream that ends removes the entry of
  its user whoever holds it, so what keeps the entry of a serving stream is that
  no other stream of the user is in its call unless the user is in `overlapped`
  (`Alone`), and that a call knows no user number but its own (`Known`).
- `TypeCorrect`, `Frames`: `[]FramesKept`.  A frame is in one of three places, and
  `func_Recv` moves it between them: `KInv` states the property of their
  concatenation `Way`, which these steps leave as it is (`TakeHead`, `WayTail`,
  `WayAppend`), while sending appends to it and handling takes its head
  (`KeptAppend`, `KeptTail`).  It is claimed from before the call until the call
  leaves its loop, wider than `FramesKept`, to be inductive.
- `ServesAlike`: the composition implements the game server's specification,
  hence its registry and frames are right in it.
- `LateAccepts`: `[]LateAcceptsBounded` for all finite sets of listeners and
  connections: a late connection takes its listener out of `Accepting`, so their
  numbers together stay within the listeners.
- `ExitLeavesNothingOpen`: `[]CountedServed`, by `OpenCounted` (an open stream
  belongs to a counted session).

**Snowflake** (`SnowflakeProofs`, `SnowflakeSeqProofs`).

- `TypeCorrect`, `Ordered`: for every field width and any sequence of clock
  readings within the 41-bit field (`InRange`), ids of one process increase.
  `OrderInv` adds that everything issued is behind `<<last_ts, sn>>`, and the
  comparison of ids is reduced to that of (time, serial number) by an arithmetic
  lemma on the packed fields.
- `Unique`: ids are unique under `FewStarts` (no pinned machine id, no more starts
  than machine ids) and `InRange`; two lives then have different machine ids, and
  equal ids have equal fields.
- `SnowflakeSeqProofs!Inductive`: for every number of calls, clients and faults,
  `IInv` is kept: `index` moves with every change of the counter, so that a
  `Set` whose index is current replaces the very value its call has read
  (`Reads`), and every result is at most the counter (`Floors`).
- `SequencesUnique`, `SequencesFollow`: a step of the service is a step of the
  loop or leaves it alone, so `[]NumbersUnique` and `[]NumbersFollow` hold in it.
- `Implements`: by the loop's `IInv`, a store operation that takes effect draws
  the next number; it is then a start with that number (`StartAuto`), or takes
  one from under the processes (`Taken`).  The service so implements `Snowflake`,
  and `UuidsIncrease` and `UuidsDiffer` carry `Ordered` and `Unique` over to it.

**Chat** (`ChatProofs`), in two layers over the types (`Typed`).

- `InboxesAreTails`, `RetentionIsKept`, `AnswersAreInInbox`, by `MInv`.  `Position`
  says that `receive` stands exactly behind what has been taken (`Base`), with
  its message in hand or not, and that no dump shares the server's lock with it;
  `Images` says of the disk and of a dump at any point that what it already holds
  of an endpoint is a tail for the offset it will be stored with, and stays one
  whatever the server does next.  A restart then restores a state in `Position`.
- `SubscribersCaughtUp`, `SubscribersInOrder`, by `SInv`.  `Passed(c)` counts the
  messages of its Inbox a subscriber is through with, from its offset when
  `pushTask` is not at it, and from `pushTask`'s index when it is.  What is behind
  it has been sent (`Sent`), what was sent divides the Inbox there (`Divided`),
  and while something is before it a wake-up is on its way: a token, a consumer
  that has not announced itself, a `pushTask` that has taken the token but not
  the lock, or one that still has the consumer to do (`Woken`).

**Rankings** (`RankProofs`), for any thresholds and any finite sets of users and
scores, which 32-bit numbers are.

- `Typed`, `ListsUsers`, `RisesInOrder`: `[]TypeOK`, `[]ListsEveryUser`,
  `[]RisingInOrder`.  The invariant is `SetShape` of every set: the storage in use
  holds the users of `M`, each once, at its score (`GoodList`, `GoodTree`), in
  order while `lowered` and `swapped` allow it, and the other one is empty.  Each
  operation of a set is shown to keep it (`UpdatedShape`, `DeletedShape`,
  `ToggleShape`, `UnmarshalShape`), from what inserting and removing do to a
  sequence (`InsertedList`, `RemovedList`) and to its order.
- A conversion goes through the map in some order, one insertion a turn
  (`Filled`); that the storage is right for the users of the first `n` turns, for
  every `n`, is shown by the least turn for which it would not be (`LeastNat`,
  `Rises`): it is not the first, and the turn before it was right.  That such a
  function of the turns exists is shown in the same way (`Turns`).
- `GetList` and `Rank` of a tree are its sizes at work.  A rank counts the ids of
  higher scores and those before it at its own (`Place`), so that ranks differ
  (`PlaceOrder`) and lie within the number of ids; being as many as the ids, they
  are all the numbers up to it (`PlaceLaw`), and `GetList` has one id for each
  (`TreeListLaw`), in falling order of scores (`TreeDescends`).
- `Records`: `[]ChangesRecorded`, by `RecInv`.  Before its dump a change is in its
  call, in `pending` or in `changes` (`Recorded`); from `DumpStart` on `changes`
  still holds the id, but the image need not: `Imaged` says that what the image
  does not show yet is still to be marshalled, or has changed since and is again
  on its way.  `DumpCommit`, which makes the image the disk and clears `changes`,
  turns `Imaged` into `Recorded`.  `Held` keeps a call's set from vanishing
  between the look-up and the change unless `DeleteSet` took it out.

**The ranking's tree** (`RankTreeProofs`), for any set of entries and any number
of nodes.

- `Sturdy`: `[]IInv`.  A red-black tree is usually defined by recursion over it, and
  a proof about one goes by induction, which is out of reach here.  The invariant
  instead says that there are two functions of the nodes: `below`, the set of
  nodes of each subtree (`Spans`: a node and the disjoint subtrees of its
  children), and `h`, its black height (`Heights`: both children agree).  Each
  action changes them together with the tree (`Turn` for a rotation), and each
  part of the invariant only compares a node with its children: links are mutual
  (`Linked`), the left subtree has the higher scores (`Ordered`), no score has two
  nodes (`Apart`), a size is the ids of the node and the sizes of its children
  (`Sized`).
- In the middle of a call the tree is good but for one place, which `pc` and `n`
  name: on its way down `Insert` has counted the id above `n` and not in it
  (`Descending`); a repair after an insertion has a red node that may have a red
  parent (`RedAt`, one clause per case); one after a deletion has a black node
  missing below `n` (`ShortAt`), and a victim whose ids and score count no more
  (`Slim`).  Each case is a lemma (`InsertCase1` to `DeleteCase6`, `Unlink`).
- Where the code follows pointers (`maximum_node`, `fixup_size`, `BlackHeight`),
  what it finds is shown for the nodes of a set: every set of nodes has one with
  no child in it, and one whose parent is not in it (`Lowest`, `Highest`, by
  counting `below`), so a fact that passes from children to parents, or down,
  holds at every node.
- `RedBlack`: `[]Balanced`.  The recursive heights of the property are `h`
  (`HeightLaw`).
- `Implements`: `Spec => ImplementsTree`.  The contents are read off the nodes
  (`Held`), whatever their links are, so each repair is a stutter because it
  changes no score and no ids (`RepairOutcome`), and the victim, whose score and
  ids the node above it has taken over, is left out of them.
- `RanksFound`: `[]RanksRight`.  A size is the number of the ids below its node
  (`SizeIsCount`), so an id has as many ids before it below a node as the look-ups
  count: those before it below its child, and to the right the left subtree and
  the node more (`OverCount`, `WhereKids`).  No two ids have the same rank
  (`WhereLaw`) and every rank up to the size has one (`FindsAll`); so `lookup_node`
  and `lookup_score` are the functions that find it (`LookupNodeLaw`,
  `LookupScoreLaw`).  That a function with their recursion exists is shown by
  exhibiting this one.

**The pool** (`DiscoveryProofs`).

- `Follows`: `[]PoolFollows`.  While `connect_all` runs, every listed instance is
  either still owed (in the list, or being dialed) and has no client, or is
  stored as the directory had it (`Adding`).  From then on the pool is, instance
  by instance, the directory at the last change received, but for that change if
  the watcher holds it or dials for it (`Received`).  `LastSame` and `Watched` carry
  this over the changes of other instances; an instance is followed while its
  changes are `Simple`.
- `Rotates`: `[]RoundRobin`.  The clients given out are those before the turn, the
  last one `d` turns ago being `Before(t, d, L)` (`Given`); these differ for
  `d < L`.  `Turning` relates the turn to the counter modulo the clients, which
  its wrapping breaks, where the history starts anew.

**The tables** (`DiscoveryProofs`).  `ServesLast`: while the watcher has missed
nothing, the tables of a file are those parse makes of its last readable
version (`LastServed`).  While init reads, a file it has listed and was not
refused is still to be read, as it was listed, or has its tables (`Reading`);
the watcher then starts where init has listed, and each file is served up to the
change the watcher is at (`Serving`).  `TablesAreCurrent`: `[]TablesCurrent` for
all workbooks whose lookups answer from what parse makes of them, the hypothesis
TLC evaluates for those of the run (`BooksAnswered`).

What is assumed: the named assumptions of the modules, evaluated by TLC in the
runs (sizes are natural numbers, buffers not empty, sets finite; there is an
endpoint, a set, a user; `Missing` is not a stored ranking; a load's log is a
sequence of events over strings), and the hypotheses on clocks, starts, key
exchanges, logins and parsed workbooks above, which the theorems state and the
text explains.

TLC alone checks:

- liveness (`SessionEnds`, `CallEnds`, `Exits`, `UsersLeave`, `CallsReturn`,
  `LookupsReturn`), since fairness and ENABLED are out of the prover's reach;
- what is computed by folds over cells and bytes, which would need induction over
  data: the hypothesis of `TablesAreCurrent` (a parse is a fold over cells), and
  `MessagesIntact` (`pack` and `Decode` are RECURSIVE over tables, numbers folds
  over bytes).

## 5. Divergences met while modelling

Shown by a run:

1. `agent_stall`: `Write` has no deadline, so a client that stays connected and
   stops reading blocks sender and handler, and SIGTERM never ends the process
   (Buffer.go:73; ClientSessionHandler.go:16 promises otherwise).
2. `chat_offsets`: `restore` cuts the Inbox and leaves `StartOffset`
   (Chat Service.go:390): offsets shift by one at a restart.
3. `rank_order`: `SortedSet.Update` puts a user whose score is not raised behind
   the next lower one (SortedSet.go:75).

Modelled as they are, and excepted by name in a property of a passing run:

- a second key exchange is answered with a packet enciphered by the key it
  announces (Msg_C2A_Handle.go:74; `DownstreamIntact` has one exchange);
- a second login replaces `sess.Stream`; the first stream is never closed
  (Msg_C2A_Handle.go:106; `StreamsReleased` excepts replaced streams);
- `SYNC_WAITGROUP.Add` runs in the new goroutine, so the exit may overtake it
  (InitApp.go:154; `CountedServed` is about counted sessions);
- two streams of one user overlap, as every session of the gateway is user 1:
  the first to end unregisters the other (game Service.go:78; `overlapped`);
- machine ids wrap after 1024 starts, and a restart of a pinned node with its
  clock set back repeats ids (Snowflake Service.go:101 and 148; the hypothesis
  `FewStarts`, and one pinned start in the run);
- `Query` answers a range of more than one message with nothing (Chat
  Service.go:248; `AnswersInInbox` is about indexes only);
- the conversion from tree to sorted set swaps score and id (RankSet.go:52;
  `swapped`); deletions are not enqueued for the dump (Rank Service.go:113, 128;
  `unqueued`); `DeleteUser` of an unknown user in a tree is a nil dereference
  (RankSet.go:103; `CallPanic`);
- the pool lists the directory, dials every instance, and only then watches from
  now on (Service.go:153): a change in between is missed; later the watcher
  asks from the index of its last event, which falls out of etcd's window when
  the other directories change much, and then every request fails (Service.go:162).
  `PoolFollows` and `TablesCurrent` are about watches that have missed nothing
  (`UpToDate`), and Numbers.go has the same two gaps;
- an update of an instance's address adds a second client beside the old one
  (Service.go:199), and a delete removes the first of them (232): `Simple`;
- without a services directory, or when etcd does not answer at the start, no
  watcher is ever made (Service.go:133);
- one workbook that cannot be read ends the reading of the others
  (Numbers.go:107; `refused`), a parse that panics serves a part of its workbook
  (127; `TablesCurrent` says which), and the tables of a deleted file stay.

Outside what a run says: `GetInt` of a cell is said to give 1 for 0.99999999
(Numbers.go:221) and truncates; the game server passes the value of
`"mongodb-concurrent"` as its connect timeout (main.go:99); `ReadS24` does not extend the sign, and a nil
pointer in a table packs nothing where its reader expects a field (`Packet` has
both as they are); a frame over 65535 bytes ends the sender in a panic
(Buffer.go:69; in `Wire`), and `WriteString` and `WriteBytes` cut the length of
longer data to 16 bits.

## 6. Not modelled

- The flow control of the two gRPC streams of a session (game Service.go:135): the
  gateway's `Send` and the game loop's `Send` may wait for each other; the
  windows are gRPC's own.
- Liveness of chat (Service.go:96): a subscriber whose stream blocks holds `mu`,
  and a dump that waits for it holds the server.
- Word filter and GeoIP (stateless, around vendored code), random numbers,
  database latch (a channel of tokens that nothing uses after its creation),
  profiling, the viewers of etcd and Kafka, the generators: `PROJECT.json` gives
  the reason for each.
- Cryptography (RC4 is a stream that depends on key and position; the group of
  the key exchange is small), the decoding of workbook files, `GetInt` and
  `GetFloat`.
- `ch_ipc` of the game server has no sender anywhere in the repository.
- boltdb transactions, etcd's compare-and-swap and Kafka's partition order are
  taken as atomic and durable; a chat dump that fails to marshal, and a rank
  record that cannot be read, end the process in the code and are left out.

## 7. Plan

Done: the gateway session with its abstract Fifo, the gateway process composed
with the game server, both halves of Snowflake composed, chat, ranking down to
the tree's rotations, discovery and tables, the codec and a connection in bytes;
theorems for all of them but the codec.

What would come next:

1. The part of `MessagesIntact` that needs no induction over data: frames in
   arbitrary pieces and both ciphers, over a codec given by what it promises.
2. The streams of a session with gRPC's windows in both directions, where the
   handler's `Send` and the game loop's `Send` can wait for each other.
3. `Chat` under fairness: a dump ends when subscribers read or leave.
4. The topic viewer's player (start, stop and the channel between them).
