---------------------------- MODULE SnowflakeSeq ----------------------------
(***************************************************************************)
(* FKGRpc_Snowflake: the compare-and-swap loop on a counter kept in etcd,  *)
(* the body of Next and of func_InitMachineID.  A store operation takes    *)
(* effect in one step; the answer of a Set may be lost after it has.       *)
(***************************************************************************)
EXTENDS Integers, FiniteSets

CONSTANTS
    Calls,      \* calls of Next, or process starts
    Clients,    \* CONCURRENT, the size of client_pool
    MaxFaults   \* answers of etcd that are lost, or requests that time out

VARIABLES
    value,      \* the counter
    index,      \* its ModifiedIndex
    pc,         \* [Calls -> {"idle","pool","get","set","delay","done","error"}]
    prev,       \* prevValue and prevIndex of the call's last Get
    result,     \* what the call returned
    floor,      \* history: the largest number returned when the call began
    faults

vars == <<value, index, pc, prev, result, floor, faults>>

Init ==
    /\ value = 0 /\ index = 1 /\ faults = 0
    /\ pc = [c \in Calls |-> "idle"]
    /\ prev = [c \in Calls |-> [value |-> 0, index |-> 0]]
    /\ result = [c \in Calls |-> 0] /\ floor = [c \in Calls |-> 0]

Holding == {c \in Calls : pc[c] \in {"get", "set", "delay"}}

Returned == {result[c] : c \in {d \in Calls : pc[d] = "done"}}

Begin(c) ==
    /\ pc[c] = "idle"
    /\ pc' = [pc EXCEPT ![c] = "pool"]
    /\ \E m \in Returned \cup {0} :
          /\ \A r \in Returned : r <= m
          /\ floor' = [floor EXCEPT ![c] = m]
    /\ UNCHANGED <<value, index, prev, result, faults>>

\* client := <-s.client_pool; the deferred send gives it back.
TakeClient(c) ==
    /\ pc[c] = "pool" /\ Cardinality(Holding) < Clients
    /\ pc' = [pc EXCEPT ![c] = "get"]
    /\ UNCHANGED <<value, index, prev, result, floor, faults>>

Get(c) ==
    /\ pc[c] = "get"
    /\ pc' = [pc EXCEPT ![c] = "set"]
    /\ prev' = [prev EXCEPT ![c] = [value |-> value, index |-> index]]
    /\ UNCHANGED <<value, index, result, floor, faults>>

\* Next returns an error, func_InitMachineID panics.
GetFails(c) ==
    /\ pc[c] = "get" /\ faults < MaxFaults
    /\ pc' = [pc EXCEPT ![c] = "error"]
    /\ faults' = faults + 1
    /\ UNCHANGED <<value, index, prev, result, floor>>

\* client.SetOptions{PrevIndex: prevIndex}: the condition etcd checks for Next.
Unmoved_Ignored(c) == TRUE                                \* mutant
Unmoved(c) == prev[c].index = index

Apply(c) ==
    /\ Unmoved(c)
    /\ value' = prev[c].value + 1 /\ index' = index + 1

Set(c) ==
    /\ pc[c] = "set" /\ Apply(c)
    /\ pc' = [pc EXCEPT ![c] = "done"]
    /\ result' = [result EXCEPT ![c] = prev[c].value + 1]
    /\ UNCHANGED <<prev, floor, faults>>

\* Set returns an error: the condition fails, the request is lost, or it took
\* effect and its answer is lost.  Then func_RandomDelay.
SetFails(c) ==
    /\ pc[c] = "set"
    /\ \/ ~Unmoved(c) /\ UNCHANGED <<value, index, faults>>
       \/ /\ faults < MaxFaults /\ faults' = faults + 1
          /\ Apply(c) \/ UNCHANGED <<value, index>>
    /\ pc' = [pc EXCEPT ![c] = "delay"]
    /\ UNCHANGED <<prev, result, floor>>

\* continue: the loop starts again from Get.
RetryAt_Set(c) == "set"                                   \* mutant
RetryAt(c) == "get"

Retry(c) ==
    /\ pc[c] = "delay"
    /\ pc' = [pc EXCEPT ![c] = RetryAt(c)]
    /\ UNCHANGED <<value, index, prev, result, floor, faults>>

Step(c) == TakeClient(c) \/ Get(c) \/ Set(c) \/ SetFails(c) \/ Retry(c)

Next == \E c \in Calls : Begin(c) \/ Step(c) \/ GetFails(c)

Spec == Init /\ [][Next]_vars

-----------------------------------------------------------------------------
\* No number is returned twice, also when answers of the store are lost
\* (Service.go: like the auto-increment of mysql).
NumbersUnique ==
    \A c, d \in Calls : c # d /\ pc[c] = "done" /\ pc[d] = "done"
                        => result[c] # result[d]

\* A call returns a number larger than any returned before it began.
NumbersFollow == \A c \in Calls : pc[c] = "done" => result[c] > floor[c]

\* Every call returns, as the other calls that made it retry succeed.
CallsReturn ==
    \A c \in Calls : pc[c] = "pool" ~> pc[c] \in {"done", "error"}
=============================================================================
