-------------------------------- MODULE Rank --------------------------------
(***************************************************************************)
(* FKGRpc_Rank/Framework: rankings that calls change and persistence_task  *)
(* dumps.                                                                  *)
(*                                                                         *)
(*   RankChange --> RankSet, pending --> changes --dump--> disk            *)
(*                                                                         *)
(* A call takes the set under the server's lock, changes it under the      *)
(* set's own lock, and then enqueues its id: three actions.  The process   *)
(* may end at any moment and restart from the disk; DeleteUser of a user   *)
(* without a node of the tree ends it (RankSet!Panics).                    *)
(***************************************************************************)
EXTENDS RankSet

CONSTANTS
    SetIds,
    Calls,          \* calls of RankChange or DeleteUser at a time
    CHANGES_SIZE,   \* capacity of pending (65536)
    Missing         \* nil, no entry of a map

ASSUME ServiceAssumption ==
    /\ CHANGES_SIZE \in Nat \ {0} /\ SetIds # {} /\ Users # {}
    /\ \A m \in Scored : Missing \notin Unmarshal(m)

VARIABLES
    up,
    ranks,      \* set of each id, or Missing
    call,
    pending,
    changes,    \* of persistence_task
    dump,       \* its dump: the ids left to marshal and the image
    disk,       \* M of each id, or Missing
    unqueued    \* history: the sets with a deletion since the last dump

vars == <<up, ranks, call, pending, changes, dump, disk, unqueued>>

Idle    == [pc |-> "idle", op |-> "RankChange", set |-> CHOOSE k \in SetIds : TRUE,
            user |-> CHOOSE u \in Users : TRUE, orphan |-> FALSE]
NoDump  == [pc |-> "select", todo |-> {}, image |-> [k \in SetIds |-> Missing]]

Init ==
    /\ up = TRUE /\ ranks = [k \in SetIds |-> Missing]
    /\ call = [c \in Calls |-> Idle]
    /\ pending = <<>> /\ changes = {} /\ dump = NoDump
    /\ disk = [k \in SetIds |-> Missing] /\ unqueued = {}

\* The process ends and what it kept in memory is lost.
Stop ==
    /\ up' = FALSE /\ ranks' = [k \in SetIds |-> Missing]
    /\ call' = [c \in Calls |-> Idle]
    /\ pending' = <<>> /\ changes' = {} /\ dump' = NoDump /\ unqueued' = {}

Alive(k) == ranks[k] # Missing

-----------------------------------------------------------------------------
(* Calls *)

\* lock_write: a set that does not exist is created.
RankChange(c, k, u) ==
    /\ up /\ call[c].pc = "idle"
    /\ ranks' = [ranks EXCEPT ![k] = IF Alive(k) THEN @ ELSE NewRankSet]
    /\ call' = [call EXCEPT ![c] = [Idle EXCEPT !.pc = "found", !.set = k,
                                                !.user = u]]
    /\ UNCHANGED <<up, pending, changes, dump, disk, unqueued>>

\* ERROR_NAME_NOT_EXISTS if there is no such set.
DeleteUser(c, k, u) ==
    /\ up /\ call[c].pc = "idle" /\ Alive(k)
    /\ call' = [call EXCEPT ![c] = [Idle EXCEPT !.pc = "found", !.set = k,
                                                !.user = u, !.op = "DeleteUser"]]
    /\ UNCHANGED <<up, ranks, pending, changes, dump, disk, unqueued>>

\* A call that has found the set goes on with it.
DeleteSet(k) ==
    /\ up /\ Alive(k)
    /\ ranks' = [ranks EXCEPT ![k] = Missing]
    /\ call' = [c \in Calls |-> [call[c] EXCEPT !.orphan = @ \/ call[c].set = k]]
    /\ unqueued' = unqueued \cup {k}
    /\ UNCHANGED <<up, pending, changes, dump, disk>>

\* What follows the change of the set: only RankChange enqueues.
Enqueues_NewUsers(c) ==                                   \* mutant
    call[c].op = "RankChange" /\ call[c].user \notin DOMAIN ranks[call[c].set].M
Enqueues(c) == call[c].op = "RankChange"

Changed(c, rs, score) ==
    IF call[c].op = "RankChange" THEN Update(rs, call[c].user, score)
    ELSE {Deleted(x, call[c].user) : x \in Shrunk(rs)}

CallChange(c) ==
    /\ up /\ call[c].pc = "found" /\ ~call[c].orphan
    /\ call[c].op = "DeleteUser" =>
          \A x \in Shrunk(ranks[call[c].set]) : ~Panics(x, call[c].user)
    /\ \E score \in Scores : \E rs \in Changed(c, ranks[call[c].set], score) :
          ranks' = [ranks EXCEPT ![call[c].set] = rs]
    /\ call' = [call EXCEPT ![c] = IF Enqueues(c) THEN [@ EXCEPT !.pc = "changed"]
                                   ELSE Idle]
    /\ unqueued' = IF call[c].op = "DeleteUser" THEN unqueued \cup {call[c].set}
                   ELSE unqueued
    /\ UNCHANGED <<up, pending, changes, dump, disk>>

\* The set has left the map: nothing that anyone still sees changes.
CallOrphan(c) ==
    /\ up /\ call[c].pc = "found" /\ call[c].orphan
    /\ call' = [call EXCEPT ![c] = IF call[c].op = "RankChange"
                                   THEN [@ EXCEPT !.pc = "changed"] ELSE Idle]
    /\ UNCHANGED <<up, ranks, pending, changes, dump, disk, unqueued>>

CallPanic(c) ==
    /\ up /\ call[c].pc = "found" /\ ~call[c].orphan
    /\ call[c].op = "DeleteUser"
    /\ \E x \in Shrunk(ranks[call[c].set]) : Panics(x, call[c].user)
    /\ Stop /\ UNCHANGED disk

Enqueue(c) ==
    /\ up /\ call[c].pc = "changed" /\ Len(pending) < CHANGES_SIZE
    /\ pending' = Append(pending, call[c].set)
    /\ call' = [call EXCEPT ![c] = Idle]
    /\ UNCHANGED <<up, ranks, changes, dump, disk, unqueued>>

CallStep(c) == CallChange(c) \/ CallOrphan(c) \/ CallPanic(c) \/ Enqueue(c)

-----------------------------------------------------------------------------
(* persistence_task *)

TakePending ==
    /\ up /\ dump.pc = "select" /\ pending # <<>>
    /\ changes' = changes \cup {Head(pending)} /\ pending' = Tail(pending)
    /\ UNCHANGED <<up, ranks, call, dump, disk, unqueued>>

\* The timer, or SIGTERM: which of them it was shows after the commit.
DumpStart ==
    /\ up /\ dump.pc = "select"
    /\ dump' = [pc |-> "dump", todo |-> changes, image |-> disk]
    /\ UNCHANGED <<up, ranks, call, pending, changes, disk, unqueued>>

DumpSet(k) ==
    /\ up /\ dump.pc # "select" /\ k \in dump.todo
    /\ dump' = [dump EXCEPT !.todo = @ \ {k},
                            !.image[k] = IF Alive(k) THEN Marshal(ranks[k])
                                         ELSE Missing]
    /\ unqueued' = unqueued \ {k}
    /\ UNCHANGED <<up, ranks, call, pending, changes, disk>>

\* The transaction's commit; changes is made anew, or the process exits.
DumpCommit ==
    /\ up /\ dump.pc # "select" /\ dump.todo = {}
    /\ disk' = dump.image
    /\ \/ Stop
       \/ /\ changes' = {} /\ dump' = NoDump
          /\ UNCHANGED <<up, ranks, call, pending, unqueued>>

DumpStep == DumpCommit \/ \E k \in SetIds : DumpSet(k)

Crash == up /\ Stop /\ UNCHANGED disk

Restore ==
    /\ ~up /\ up' = TRUE
    /\ ranks' \in {f \in [SetIds -> UNION {IF disk[k] = Missing THEN {Missing}
                                           ELSE Unmarshal(disk[k]) : k \in SetIds}] :
                     \A k \in SetIds : f[k] \in IF disk[k] = Missing THEN {Missing}
                                                 ELSE Unmarshal(disk[k])}
    /\ UNCHANGED <<call, pending, changes, dump, disk, unqueued>>

-----------------------------------------------------------------------------
Next ==
    \/ \E c \in Calls, k \in SetIds, u \in Users :
          RankChange(c, k, u) \/ DeleteUser(c, k, u)
    \/ \E k \in SetIds : DeleteSet(k)
    \/ \E c \in Calls : CallStep(c)
    \/ TakePending \/ DumpStart \/ DumpStep
    \/ Crash \/ Restore

Spec == Init /\ [][Next]_vars

-----------------------------------------------------------------------------
RankSets == [M : Scored, S : Seq([id : Int, score : Int]), R : [Scores -> Seq(Users)],
             Type : {"SORTED_SET", "RBTREE"}, lowered : BOOLEAN, swapped : BOOLEAN]

\* Types; the storage not in use is empty.
TypeOK ==
    /\ up \in BOOLEAN
    /\ \A k \in SetIds : Alive(k) =>
          /\ ranks[k] \in RankSets
          /\ ranks[k].Type = "SORTED_SET" => ranks[k].R = NoTree
          /\ ranks[k].Type = "RBTREE" => ranks[k].S = <<>>
    /\ call \in [Calls -> [pc : {"idle", "found", "changed"}, set : SetIds,
                           op : {"RankChange", "DeleteUser"}, user : Users,
                           orphan : BOOLEAN]]
    /\ pending \in Seq(SetIds) /\ Len(pending) <= CHANGES_SIZE
    /\ changes \subseteq SetIds /\ unqueued \subseteq SetIds
    /\ dump.pc \in {"select", "dump"} /\ dump.todo \subseteq changes
    /\ \A k \in SetIds : disk[k] = Missing \/ disk[k] \in Scored

\* Whatever conversions, updates, deletions and restarts a set has been
\* through (but that from the tree, which swaps the pairs), a list of all the
\* ranks holds each user of M once with its score, at the rank Rank answers.
ListsEveryUser ==
    \A k \in SetIds : (Alive(k) /\ ~ranks[k].swapped) =>
       LET rs == ranks[k]  list == GetList(rs)
       IN  /\ Len(list) = Count(rs)
           /\ \A u \in DOMAIN rs.M :
                 /\ Rank(rs, u) \in DOMAIN list
                 /\ list[Rank(rs, u)] = Pair(u, rs.M[u])

Descending(list) ==
    \A i \in DOMAIN list : \A j \in 1 .. i - 1 : list[j].score >= list[i].score

\* The list is in the order of the scores, as long as a set of few users has
\* seen them rise only.
RisingInOrder ==
    \A k \in SetIds :
       (Alive(k) /\ ~ranks[k].swapped /\ ~ranks[k].lowered) => Descending(GetList(ranks[k]))

Live(k) == IF Alive(k) THEN Marshal(ranks[k]) ELSE Missing

\* No change is forgotten by persistence: a set that differs from its dump has
\* its id on the way to the next one (in a call, in pending, in changes), but
\* for deletions, which are not enqueued.
ChangesRecorded ==
    \A k \in SetIds :
       up /\ Live(k) # disk[k] =>
          \/ k \in unqueued \/ k \in changes
          \/ Contains(pending, k)
          \/ \E c \in Calls : call[c].pc # "idle" /\ call[c].set = k
                              /\ call[c].op = "RankChange"

\* Users are ranked by their scores (ReadMe.MD).
Ranked ==
    \A k \in SetIds : (Alive(k) /\ ~ranks[k].swapped) => Descending(GetList(ranks[k]))
=============================================================================
