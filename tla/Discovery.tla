------------------------------ MODULE Discovery ------------------------------
(***************************************************************************)
(* What FKServer_Game/main.go starts before it serves: the pool of its     *)
(* services and then its tables, both kept from the same etcd.  Func_Init  *)
(* of the tables waits until connect_all has dialed every instance.  The   *)
(* gateway has the pool alone: its load has no tables.                     *)
(***************************************************************************)
EXTENDS ServicePool, Numbers

vars == <<log, load, poolvars, numvars>>

Init == EtcdInit /\ PoolInit /\ NumbersInit

PoolStep    == PoolNext /\ UNCHANGED <<log, load, numvars>>
NumbersStep == /\ load.tables /\ boot.pc \in {"done", "gone"}
               /\ NumbersNext /\ UNCHANGED <<log, load, poolvars>>
EtcdStep    == EtcdNext /\ UNCHANGED <<poolvars, numvars>>

Next == PoolStep \/ NumbersStep \/ EtcdStep

\* Every goroutine runs on, a dial ends when its instance answers, and the
\* subscriber reads.  Nothing makes etcd, the callers or the network move.
Fairness ==
    /\ WF_vars(PoolStep /\ (Get \/ AddListed \/ ConnectDone))
    /\ WF_vars(PoolStep /\ Dialed)
    /\ WF_vars(PoolStep /\ Handle)
    /\ WF_vars(PoolStep /\ register_callback /\ sub.pc = "sending")
    /\ WF_vars(PoolStep /\ Read)
    /\ \A c \in Callers : WF_vars(PoolStep /\ (get_service(c) \/ get_service_with_id(c)))

Spec == Init /\ [][Next]_vars /\ Fairness

\* A lookup answers if every instance the program may dial answers in the end:
\* the lock is given back on every way through an addition, a removal and a
\* registration, and no two of its users wait for each other.
LookupsReturn ==
    (\A a \in Addresses : <>(a \in up)) =>
        \A c \in Callers : call[c] # "" ~> call[c] = ""
=============================================================================
