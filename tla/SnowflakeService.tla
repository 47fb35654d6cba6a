-------------------------- MODULE SnowflakeService --------------------------
(***************************************************************************)
(* FKGRpc_Snowflake as a whole: a process that starts without MACHINE_ID   *)
(* draws its machine id with the compare-and-swap loop (SnowflakeSeq) on   *)
(* /seqs/snowflake-uuid, while calls of Next draw from the same counter,   *)
(* and then issues its unique numbers (Snowflake).                         *)
(***************************************************************************)
EXTENDS Snowflake

\* Loads bound what happens in one behaviour: the calls (a life that starts, or
\* a call of Next), the faults of etcd, and whether numbers are issued; if so,
\* one start follows another.
CONSTANTS Calls, Clients, MaxFaults, Loads

ASSUME SizesAssumption == Clients \in Nat \ {0} /\ MaxFaults \in Nat

VARIABLES index, pc, prev, result, floor, faults, load

Counter == INSTANCE SnowflakeSeq WITH value <- serial

idVars  == <<state, mid, last_ts, sn, ch_proc, issued>>
seqVars == <<serial, index, pc, prev, result, floor, faults>>
serviceVars == <<idVars, seqVars, load>>

Autos == Lives \ Pinned

ServiceInit == load \in Loads /\ Counter!Init /\ Init

Starts(c) ==
    /\ c \in load.calls
    /\ load.issues => \A d \in Calls \ {c} : pc[d] \in {"idle", "done"}

\* func_InitMachineID returns: the process has its machine id.
Set(c) == Counter!Set(c) /\ IF c \in Autos THEN StartAuto(c) ELSE UNCHANGED idVars

Sequence(c) ==
    \/ Set(c)
    \/ /\ \/ Counter!TakeClient(c) \/ Counter!Get(c) \/ Counter!SetFails(c) \/ Counter!Retry(c)
       /\ UNCHANGED idVars

Begin(c) == ((Starts(c) /\ Counter!Begin(c)) \/ Counter!GetFails(c)) /\ UNCHANGED idVars

Process(v) ==
    /\ load.issues
    /\ StartPinned(v) \/ Die(v) \/ GetUUID(v) \/ Creator(v)
    /\ UNCHANGED seqVars

Within == faults' <= load.faults /\ serial' <= MaxSerial /\ load' = load

ServiceNext ==
    /\ (\E c \in Calls : Begin(c) \/ Sequence(c)) \/ (\E v \in Lives : Process(v))
    /\ Within

\* Calls are scheduled, delays end, and a call that waits for a client of the
\* pool again and again gets one (the channel serves waiters in order).
ServiceSpec ==
    /\ ServiceInit /\ [][ServiceNext]_serviceVars
    /\ \A c \in Calls :
          /\ WF_serviceVars(Sequence(c) /\ Within)
          /\ SF_serviceVars(Counter!TakeClient(c) /\ UNCHANGED idVars /\ Within)

-----------------------------------------------------------------------------
\* No number is returned twice, also when answers of the store are lost
\* (Service.go: like the auto-increment of mysql).
NumbersUnique == Counter!NumbersUnique

\* A call returns a number larger than any returned before it began.
NumbersFollow == Counter!NumbersFollow

\* Every call returns, as the other calls that made it retry succeed.
CallsReturn == Counter!CallsReturn
=============================================================================
