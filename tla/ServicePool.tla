----------------------------- MODULE ServicePool -----------------------------
(***************************************************************************)
(* FKLib_Common/Service: the connections of a program to the instances of  *)
(* the services it uses.  connect_all adds the instances that are listed   *)
(* at the start, one after another, then a watcher follows the directory.  *)
(* Callers look instances up, and one subscriber registers a channel.      *)
(*                                                                         *)
(* mu is held for the whole of a dial, which waits for the instance to     *)
(* answer without a limit, and while register_callback fills the channel.  *)
(***************************************************************************)
EXTENDS Etcd

\* A load also says who looks instances up (callers), whether there is a
\* subscriber (subscribes) and which addresses do not answer yet (down).
CONSTANTS
    Services,   \* the directories of services
    Provided,   \* the names given on the command line, none: all services
    Addresses,  \* where instances may listen
    IdxLimit,   \* 2^32, the range of the round robin counter
    Callers,    \* goroutines that may look instances up
    Path,       \* the service a subscriber registers for
    Cap         \* the capacity of its channel

ASSUME PoolAssumption ==
    /\ Provided \subseteq Services /\ Path \in Services
    /\ IdxLimit \in Nat \ {0} /\ Cap \in Nat

VARIABLES
    clients,    \* of each service: the connections, in order of their addition
    idx,        \* of each service: the round robin counter
    recent,     \* history: the clients given out since the service changed
    boot,       \* connect_all: where it is, and what it has still to add
    watch, hand,    \* the watcher's request, and the change it is handling
    mu,         \* who holds the lock, and the instance it dials
    sub,        \* the subscriber: its registration and the length of its channel
    up,         \* the addresses that answer
    call        \* of each caller: the service it waits for

poolvars == <<clients, idx, recent, boot, watch, hand, mu, sub, up, call>>

Unlocked == [who |-> "nobody", key |-> "", value |-> ""]

PoolInit ==
    /\ clients = [s \in Services |-> <<>>]
    /\ idx = [s \in Services |-> 0] /\ recent = [s \in Services |-> <<>>]
    /\ boot = [pc |-> "get", todo |-> {}, listed |-> 0]
    /\ watch = WatchFrom(0) /\ hand = NoEvent
    /\ mu = Unlocked
    /\ sub = [pc |-> IF load.subscribes THEN "none" ELSE "away", next |-> 1, ch |-> 0]
    /\ up = Addresses \ load.down
    /\ call = [c \in Callers |-> ""]

-----------------------------------------------------------------------------
(* The lock and what is done under it. *)

Known(s) == Provided = {} \/ s \in Provided

\* add_service up to the dial; for an unknown name the lock is given back.
add_service_KeepLock(who, k, v) ==                        \* mutant
    /\ mu = Unlocked
    /\ mu' = [who |-> who, key |-> k, value |-> IF Known(Dir[k]) THEN v ELSE ""]
add_service(who, k, v) ==
    /\ mu = Unlocked
    /\ mu' = IF Known(Dir[k]) THEN [who |-> who, key |-> k, value |-> v] ELSE mu

\* The end of add_service; the subscriber hears of it if its channel has room.
Dialed ==
    LET s == Dir[mu.key]
    IN  /\ mu.who \in {"main", "watcher"} /\ mu.value \in up
        /\ clients' = [clients EXCEPT ![s] = Append(@, [key |-> mu.key, value |-> mu.value])]
        /\ recent' = [recent EXCEPT ![s] = <<>>]
        /\ sub' = IF sub.pc \in {"sending", "done"} /\ s = Path /\ sub.ch < Cap
                  THEN [sub EXCEPT !.ch = @ + 1] ELSE sub
        /\ mu' = Unlocked
        /\ UNCHANGED <<idx, boot, watch, hand, up, call>>

\* The clients without the first one of a key.
Without_First(s, k) == SubSeq(s, 2, Len(s))               \* mutant
Without(s, k) ==
    LET at == {i \in DOMAIN s : s[i].key = k}
        m  == CHOOSE i \in at : \A j \in at : i <= j
    IN  IF at = {} THEN s ELSE SubSeq(s, 1, m - 1) \o SubSeq(s, m + 1, Len(s))

remove_service(k) ==
    LET s == Dir[k]
    IN  /\ mu = Unlocked
        /\ IF Known(s)
           THEN /\ clients' = [clients EXCEPT ![s] = Without(@, k)]
                /\ recent' = [recent EXCEPT ![s] = <<>>]
           ELSE UNCHANGED <<clients, recent>>

-----------------------------------------------------------------------------
(* connect_all and watcher *)

\* Without a directory, or without etcd, nothing is added and nothing watched.
Get ==
    /\ boot.pc = "get"
    /\ \/ boot' = [pc |-> "add", todo |-> Listing(Services), listed |-> Len(log)]
       \/ boot' = [boot EXCEPT !.pc = "gone"]
    /\ UNCHANGED <<clients, idx, recent, watch, hand, mu, sub, up, call>>

AddListed ==
    /\ boot.pc = "add" /\ mu.who # "main"
    /\ \E e \in boot.todo : /\ add_service("main", e.key, e.value)
                            /\ boot' = [boot EXCEPT !.todo = @ \ {e}]
    /\ UNCHANGED <<clients, idx, recent, watch, hand, sub, up, call>>

ConnectDone ==
    /\ boot.pc = "add" /\ boot.todo = {} /\ mu.who # "main"
    /\ boot' = [boot EXCEPT !.pc = "done"]
    /\ watch' = WatchFrom(boot.listed)
    /\ UNCHANGED <<clients, idx, recent, hand, mu, sub, up, call>>

Request ==
    /\ boot.pc = "done" /\ RequestStep(watch, watch', Services)
    /\ UNCHANGED <<clients, idx, recent, boot, hand, mu, sub, up, call>>

Receive ==
    /\ hand = NoEvent /\ mu.who # "watcher" /\ HasNext(watch, Services)
    /\ hand' = log[NextEvent(watch, Services)] /\ watch' = Passed(watch, Services)
    /\ UNCHANGED <<clients, idx, recent, boot, mu, sub, up, call>>

\* Neither the removal of a directory nor an expiry removes a client.
Handle ==
    /\ hand # NoEvent /\ hand' = NoEvent
    /\ \/ /\ hand.action = "set" /\ add_service("watcher", hand.key, hand.value)
          /\ UNCHANGED <<clients, recent>>
       \/ hand.action = "delete" /\ remove_service(hand.key) /\ UNCHANGED mu
       \/ hand.action = "rmdir" /\ UNCHANGED <<clients, recent, mu>>
    /\ UNCHANGED <<idx, boot, watch, sub, up, call>>

-----------------------------------------------------------------------------
(* Callers *)

Call(c) ==
    /\ c \in load.callers /\ call[c] = "" /\ \E s \in Services : call' = [call EXCEPT ![c] = s]
    /\ UNCHANGED <<clients, idx, recent, boot, watch, hand, mu, sub, up>>

\* The next client in turn.
Turn_Clamped(i, s) == IF i + 1 < Len(s) THEN i + 2 ELSE Len(s)   \* mutant
Turn(i, s) == (((i + 1) % IdxLimit) % Len(s)) + 1

get_service(c) ==
    LET s == call[c]
        turn == Turn(idx[s], clients[s])
        told == IF idx[s] + 1 = IdxLimit THEN <<>> ELSE recent[s]
    IN  /\ s # "" /\ mu = Unlocked
        /\ IF clients[s] = <<>> THEN UNCHANGED <<idx, recent>>
           ELSE /\ idx' = [idx EXCEPT ![s] = (@ + 1) % IdxLimit]
                /\ recent' = [recent EXCEPT ![s] =
                      Append(IF Len(told) = Len(clients[s]) THEN Tail(told) ELSE told, turn)]
        /\ call' = [call EXCEPT ![c] = ""]
        /\ UNCHANGED <<clients, boot, watch, hand, mu, sub, up>>

\* The connection of a key, if there is one, changes nothing.
get_service_with_id(c) ==
    /\ call[c] # "" /\ mu = Unlocked /\ call' = [call EXCEPT ![c] = ""]
    /\ UNCHANGED <<clients, idx, recent, boot, watch, hand, mu, sub, up>>

\* register_callback sends the keys it finds with the lock held.
register_callback ==
    /\ \/ /\ sub.pc = "none" /\ mu = Unlocked
          /\ sub' = [sub EXCEPT !.pc = "sending"]
          /\ mu' = [Unlocked EXCEPT !.who = "register"]
       \/ /\ sub.pc = "sending" /\ sub.next <= Len(clients[Path]) /\ sub.ch < Cap
          /\ sub' = [sub EXCEPT !.next = @ + 1, !.ch = @ + 1] /\ UNCHANGED mu
       \/ /\ sub.pc = "sending" /\ sub.next > Len(clients[Path])
          /\ sub' = [sub EXCEPT !.pc = "done"] /\ mu' = Unlocked
    /\ UNCHANGED <<clients, idx, recent, boot, watch, hand, up, call>>

\* The subscriber reads its channel in a goroutine of its own.
Read ==
    /\ sub.ch > 0 /\ sub' = [sub EXCEPT !.ch = @ - 1]
    /\ UNCHANGED <<clients, idx, recent, boot, watch, hand, mu, up, call>>

\* An instance that did not answer does.
Answers ==
    /\ \E a \in Addresses \ up : up' = up \cup {a}
    /\ UNCHANGED <<clients, idx, recent, boot, watch, hand, mu, sub, call>>

PoolNext ==
    \/ Get \/ AddListed \/ ConnectDone \/ Dialed
    \/ Request \/ Receive \/ Handle
    \/ \E c \in Callers : Call(c) \/ get_service(c) \/ get_service_with_id(c)
    \/ register_callback \/ Read \/ Answers

-----------------------------------------------------------------------------
(* Properties *)

\* An instance that is registered when it is not, and taken out by a delete.
Simple(k) ==
    \A j \in boot.listed + 1 .. Len(log) : Touches(log[j], k) =>
        \/ log[j].action = "delete"
        \/ log[j].action = "set" /\ ~Present(k, j - 1)

\* One client of k, of address v; none.
OnlyClient(s, k, v) ==
    \E i \in DOMAIN s : /\ s[i] = [key |-> k, value |-> v]
                       /\ \A j \in DOMAIN s : s[j].key = k => j = i
NoClient(s, k) == \A j \in DOMAIN s : s[j].key # k

Followed == {k \in Keys : Dir[k] \in Services /\ Known(Dir[k])}

\* The clients in s are what the directory held after its change i.
Stored(k, i, s) ==
    IF Present(k, i) THEN OnlyClient(s, k, log[LastOf(k, i)].value) ELSE NoClient(s, k)

\* When no change was missed and all were handled, the pool has one client for
\* each instance in the directory, with its present address, and none for an
\* instance that left: whatever the dials, the lookups and the registration
\* did meanwhile.
PoolFollows ==
    /\ boot.pc = "done" /\ UpToDate(watch, Services) /\ hand = NoEvent
    /\ mu.who # "watcher"
    => \A k \in Followed : Simple(k) => Stored(k, Len(log), clients[Dir[k]])

\* As long as a service keeps its clients, get_service hands out each of them
\* before one comes again, whoever calls and whatever else holds the lock in
\* between (until the counter wraps: see idx).
RoundRobin ==
    \A s \in Services : \A i, j \in DOMAIN recent[s] : recent[s][i] = recent[s][j] => i = j
=============================================================================
