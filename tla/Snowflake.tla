------------------------------ MODULE Snowflake ------------------------------
(***************************************************************************)
(* FKGRpc_Snowflake: the unique numbers of GetUUID.  A life is one start   *)
(* of the server process: it takes a machine id, from the environment or   *)
(* from the counter kept in etcd, and forgets its clock and serial number  *)
(* when it dies.  Reading the clock may return any time, also an earlier   *)
(* one.  The compare-and-swap loop behind the counter is SnowflakeSeq;     *)
(* here it hands out each number at most once, and others take some.       *)
(***************************************************************************)
EXTENDS Integers, Sequences

CONSTANTS
    MaxLives,   \* process starts
    MaxSerial,  \* bound on the counter /seqs/snowflake-uuid
    Pinned,     \* starts of the one node that sets MACHINE_ID ...
    Pin,        \* ... and what it sets it to
    MidSpace,   \* MACHINE_ID_MASK + 1 (1024)
    SnSpace,    \* SN_MASK + 1 (4096)
    TsSpace,    \* TS_MASK + 1 (2^41)
    MaxTime,    \* latest time a clock shows
    MaxIds,     \* numbers issued
    Queue       \* UUID_QUEUE (1024)

ASSUME SpacesAssumption ==
    /\ MidSpace \in Nat \ {0} /\ SnSpace \in Nat \ {0} /\ TsSpace \in Nat \ {0}
ASSUME BoundsAssumption ==
    /\ MaxLives \in Nat /\ MaxSerial \in Nat /\ Pin \in Nat
    /\ MaxTime \in Nat /\ MaxIds \in Nat /\ Queue \in Nat
ASSUME PinnedAssumption == Pinned \subseteq 1 .. MaxLives

VARIABLES
    state,      \* [Lives -> {"new", "recv", "wait", "dead"}]
    mid,        \* Server.machine_id, unshifted
    last_ts, sn,\* locals of func_UUIDCreator
    ch_proc,    \* number of requests queued
    serial,     \* the counter in etcd
    issued      \* history: the numbers answered, in order

vars == <<state, mid, last_ts, sn, ch_proc, serial, issued>>

Lives == 1 .. MaxLives
Times == 0 .. MaxTime
Issue == [life : Lives, t : Times, m : 0 .. MidSpace - 1, n : 0 .. SnSpace - 1]

\* (t & TS_MASK) << 22 | machine_id << 12 | sn
Uuid(r) == ((r.t % TsSpace) * MidSpace + r.m) * SnSpace + r.n

Init ==
    /\ state = [v \in Lives |-> "new"] /\ mid = [v \in Lives |-> 0]
    /\ last_ts = [v \in Lives |-> 0] /\ sn = [v \in Lives |-> 0]
    /\ ch_proc = [v \in Lives |-> 0]
    /\ serial = 0 /\ issued = <<>>

Up(v) == state[v] \in {"recv", "wait"}

\* Func_Init without MACHINE_ID: func_InitMachineID.
MachineIdOf_Once(k) == 1 % MidSpace                       \* mutant
MachineIdOf(k) == k % MidSpace

StartAuto(v) ==
    /\ v \notin Pinned /\ state[v] = "new"
    /\ \E k \in serial + 1 .. MaxSerial :
          serial' = k /\ mid' = [mid EXCEPT ![v] = MachineIdOf(k)]
    /\ state' = [state EXCEPT ![v] = "recv"]
    /\ UNCHANGED <<last_ts, sn, ch_proc, issued>>

\* A start without its answer, or a call of Next, takes numbers of the counter.
Taken ==
    /\ serial' \in serial + 1 .. MaxSerial
    /\ UNCHANGED <<state, mid, last_ts, sn, ch_proc, issued>>

\* Func_Init with MACHINE_ID: the node's next process, the last one being dead.
StartPinned(v) ==
    /\ v \in Pinned /\ state[v] = "new" /\ \A w \in Pinned : ~Up(w)
    /\ mid' = [mid EXCEPT ![v] = Pin % MidSpace]
    /\ state' = [state EXCEPT ![v] = "recv"]
    /\ UNCHANGED <<last_ts, sn, ch_proc, serial, issued>>

Die(v) ==
    /\ Up(v)
    /\ state' = [state EXCEPT ![v] = "dead"]
    /\ UNCHANGED <<mid, last_ts, sn, ch_proc, serial, issued>>

\* GetUUID: s.ch_proc <- req.
GetUUID(v) ==
    /\ Up(v) /\ ch_proc[v] < Queue
    /\ ch_proc' = [ch_proc EXCEPT ![v] = @ + 1]
    /\ UNCHANGED <<state, mid, last_ts, sn, serial, issued>>

-----------------------------------------------------------------------------
(* func_UUIDCreator *)

Answer(v, t, n) ==
    /\ Len(issued) < MaxIds
    /\ issued' = Append(issued, [life |-> v, t |-> t, m |-> mid[v], n |-> n])
    /\ last_ts' = [last_ts EXCEPT ![v] = t]
    /\ sn' = [sn EXCEPT ![v] = n]

Receive(v) ==
    /\ state[v] = "recv" /\ ch_proc[v] > 0
    /\ ch_proc' = [ch_proc EXCEPT ![v] = @ - 1]

\* The next serial number in the same millisecond; 0 when it overflows.
NextSn_Unmasked(v) == sn[v] + 1                           \* mutant
NextSn(v) == (sn[v] + 1) % SnSpace

NewMillisecond(v) ==
    /\ Receive(v)
    /\ \E t \in Times : t > last_ts[v] /\ Answer(v, t, 0)
    /\ UNCHANGED <<state, mid, serial>>

SameMillisecond(v) ==
    /\ Receive(v) /\ NextSn(v) # 0
    /\ Answer(v, last_ts[v], NextSn(v))
    /\ UNCHANGED <<state, mid, serial>>

\* The serial number has overflowed: func_WaitUtil(last_ts).
Overflow(v) ==
    /\ Receive(v) /\ NextSn(v) = 0
    /\ sn' = [sn EXCEPT ![v] = 0]
    /\ state' = [state EXCEPT ![v] = "wait"]
    /\ UNCHANGED <<mid, last_ts, serial, issued>>

\* The clock was set back, to t < last_ts: func_WaitUtil(last_ts).
ClockBack(v) ==
    /\ Receive(v) /\ \E t \in Times : t < last_ts[v]
    /\ state' = [state EXCEPT ![v] = "wait"]
    /\ UNCHANGED <<mid, last_ts, sn, serial, issued>>

\* func_WaitUtil returns a later time; it differs from last_ts, so the serial
\* number starts from 0.
Later_OrSame(v, t) == t >= last_ts[v]                     \* mutant
Later(v, t) == t > last_ts[v]

Waited(v) ==
    /\ state[v] = "wait"
    /\ \E t \in Times : Later(v, t) /\ Answer(v, t, 0)
    /\ state' = [state EXCEPT ![v] = "recv"]
    /\ UNCHANGED <<mid, ch_proc, serial>>

Creator(v) == \/ NewMillisecond(v) \/ SameMillisecond(v)
              \/ Overflow(v) \/ ClockBack(v) \/ Waited(v)

Next == \/ Taken
        \/ \E v \in Lives : \/ StartAuto(v) \/ StartPinned(v) \/ Die(v)
                            \/ GetUUID(v) \/ Creator(v)

Spec == Init /\ [][Next]_vars

-----------------------------------------------------------------------------
\* Types; a serial number never leaves its 12 bits, a machine id its 10.
TypeOK ==
    /\ state \in [Lives -> {"new", "recv", "wait", "dead"}]
    /\ mid \in [Lives -> 0 .. MidSpace - 1]
    /\ last_ts \in [Lives -> Times] /\ sn \in [Lives -> 0 .. SnSpace - 1]
    /\ ch_proc \in [Lives -> Nat]
    /\ serial \in 0 .. MaxSerial /\ issued \in Seq(Issue)

\* No two answers of GetUUID are equal, whichever processes gave them
\* (ReadMe.MD: a generator of unique, ordered ids).
UuidsUnique ==
    \A i, j \in 1 .. Len(issued) :
       i # j => Uuid(issued[i]) # Uuid(issued[j])

\* The answers of one process are strictly increasing, also when its clock is
\* set back or a millisecond runs out of serial numbers.
UuidsOrdered ==
    \A i, j \in 1 .. Len(issued) :
       i < j /\ issued[i].life = issued[j].life
       => Uuid(issued[i]) < Uuid(issued[j])

\* What uniqueness takes: machine ids from etcd, no more starts than there are
\* machine ids, and no clock past the 41 bits.
FewStarts == Pinned = {} /\ MaxSerial <= MidSpace
InRange   == MaxTime < TsSpace
=============================================================================
