-------------------------------- MODULE Etcd --------------------------------
(***************************************************************************)
(* etcd as FKLib_Common uses it: a directory with a log of its changes, of *)
(* which the last Window can still be watched.  A watch without an index   *)
(* starts when its request reaches the server; after its first event it    *)
(* goes on from the index of the last one.                                 *)
(***************************************************************************)
EXTENDS Integers, Sequences, FiniteSets

CONSTANTS
    Keys,       \* the keys of service instances, and the names of tables
    Values,     \* what may be stored under a key: a function of the key
    Dir,        \* the directory of a key
    Loads,      \* what happens around the program: log, the changes made
                \* before it starts, and changes, how many may follow in each
                \* directory
    Window      \* changes that can still be watched

ASSUME EtcdAssumption ==
    /\ DOMAIN Values = Keys /\ DOMAIN Dir = Keys
    /\ \A l \in Loads :
          /\ l.changes \in [{Dir[k] : k \in Keys} -> Nat]
          /\ l.log \in Seq([action : {"set", "delete", "rmdir"}, key : STRING, value : STRING])
    /\ Window \in Nat \ {0}

VARIABLES
    log,        \* the changes, oldest first
    load        \* the load of this behaviour; its changes count down

NoEvent == [action |-> "none", key |-> "", value |-> ""]

EtcdInit == load \in Loads /\ log = load.log

\* A change touches a key, or a whole directory.
Touches(e, k) == e.key = k \/ (e.action = "rmdir" /\ e.key = Dir[k])
LastOf(k, i)  == LET at == {j \in 1 .. i : Touches(log[j], k)}
                 IN  IF at = {} THEN 0 ELSE CHOOSE j \in at : \A m \in at : m <= j
Present(k, i) == LastOf(k, i) # 0 /\ log[LastOf(k, i)].action = "set"
Listing(dirs) == {[key |-> k, value |-> log[LastOf(k, Len(log))].value] :
                     k \in {x \in Keys : Dir[x] \in dirs /\ Present(x, Len(log))}}

In(dirs, e) == e.key \in dirs \/ \E k \in Keys : k = e.key /\ Dir[k] \in dirs
Between(i, j, dirs) == {m \in i + 1 .. j : In(dirs, log[m])}

Changed(d, action, k, v) ==
    /\ load.changes[d] > 0
    /\ log' = Append(log, [action |-> action, key |-> k, value |-> v])
    /\ load' = [load EXCEPT !.changes[d] = @ - 1]

\* set, create, update and compareAndSwap are the same to the program, and so
\* are the removal of a directory and the expiry of what is in it.
Store(k, v) == Changed(Dir[k], "set", k, v)
Erase(k)    == Present(k, Len(log)) /\ Changed(Dir[k], "delete", k, "")
Rmdir(d)    == /\ \E k \in Keys : Dir[k] = d /\ Present(k, Len(log))
               /\ Changed(d, "rmdir", d, "")

EtcdNext == \/ \E k \in Keys : Erase(k) \/ \E v \in Values[k] : Store(k, v)
            \/ \E d \in {Dir[k] : k \in Keys} : Rmdir(d)

-----------------------------------------------------------------------------
(* A watch on directories: its position, whether its request has reached    *)
(* the server, whether an event has fixed its position, and whether a       *)
(* change was missed because no request was waiting.                        *)

WatchFrom(i) == [at |-> i, live |-> FALSE, fixed |-> FALSE, lost |-> FALSE]

Requested(w, dirs) ==
    [w EXCEPT !.live = TRUE, !.at = Len(log),
              !.lost = @ \/ Between(w.at, Len(log), dirs) # {}]

\* A request that fails is made again, from an index or from now.
RequestStep(w, w2, dirs) ==
    \/ ~w.live /\ w2 = Requested(w, dirs)
    \/ w.live /\ ~w.fixed /\ w2 = [w EXCEPT !.live = FALSE]

\* The next change in dirs comes to the watcher.  One that is older than the
\* window is an error, and so is every later request.
NextEvent(w, dirs) == LET at == Between(w.at, Len(log), dirs)
                       IN  CHOOSE j \in at : \A m \in at : j <= m
HasNext(w, dirs) == /\ w.live /\ Between(w.at, Len(log), dirs) # {}
                    /\ w.at >= Len(log) - Window
Passed(w, dirs)  == [w EXCEPT !.at = NextEvent(w, dirs), !.fixed = TRUE]

\* Every change in dirs was seen.
UpToDate(w, dirs) == ~w.lost /\ Between(w.at, Len(log), dirs) = {}
=============================================================================
