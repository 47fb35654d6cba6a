------------------------- MODULE SnowflakeSeqProofs -------------------------
(***************************************************************************)
(* The numbers of the compare-and-swap loop, for every number of calls and *)
(* of lost answers.  What makes it work is that the index moves with every *)
(* change of the counter: a Get that is still current by its index has the *)
(* value of the counter, also when an earlier Set of the same call took    *)
(* effect without its answer.                                              *)
(***************************************************************************)
EXTENDS SnowflakeSeq, TLAPS

Types ==
    /\ value \in Nat /\ index \in Nat
    /\ pc \in [Calls -> {"idle", "pool", "get", "set", "delay", "done", "error"}]
    /\ prev \in [Calls -> [value : Nat, index : Nat]]
    /\ result \in [Calls -> Nat] /\ floor \in [Calls -> Nat]

\* What a Get has read is past, and is the counter while its index is current.
Reads ==
    \A c \in Calls : /\ prev[c].index <= index
                     /\ prev[c].index = index => prev[c].value = value

\* Numbers are given out below the counter, above those of earlier calls.
Floors ==
    \A c \in Calls : /\ floor[c] <= value
                     /\ pc[c] = "set" => floor[c] <= prev[c].value
                     /\ pc[c] = "done" => floor[c] < result[c] /\ result[c] <= value

IInv == Types /\ Reads /\ Floors /\ NumbersUnique

LEMMA InitInv == Init => IInv
  BY DEF Init, IInv, Types, Reads, Floors, NumbersUnique

\* The steps that leave the counter alone and return nothing.
LEMMA QuietInv ==
  ASSUME IInv, NEW c \in Calls, Begin(c) \/ TakeClient(c) \/ GetFails(c) \/ Retry(c)
  PROVE  IInv'
<1>1. CASE Begin(c)
  <2>1. PICK m \in Returned \cup {0} : floor' = [floor EXCEPT ![c] = m]
    BY <1>1 DEF Begin
  <2>2. m \in Nat /\ m <= value
    BY <2>1 DEF IInv, Types, Floors, Returned
  <2> QED BY <1>1, <2>1, <2>2 DEF IInv, Types, Reads, Floors, NumbersUnique, Begin
<1>2. CASE TakeClient(c) \/ GetFails(c) \/ Retry(c)
  BY <1>2 DEF IInv, Types, Reads, Floors, NumbersUnique, TakeClient, GetFails, Retry, RetryAt
<1> QED BY <1>1, <1>2

LEMMA GetInv == ASSUME IInv, NEW c \in Calls, Get(c) PROVE IInv'
  BY DEF IInv, Types, Reads, Floors, NumbersUnique, Get

\* A condition that holds moves the counter by one, and the index with it.
LEMMA ApplyMoves ==
  ASSUME IInv, NEW c \in Calls, Apply(c)
  PROVE  value' = value + 1 /\ index' = index + 1 /\ prev[c].value = value
  BY DEF IInv, Types, Reads, Apply, Unmoved

LEMMA SetInv == ASSUME IInv, NEW c \in Calls, Set(c) PROVE IInv'
<1>1. value' = value + 1 /\ index' = index + 1 /\ prev[c].value = value
  BY ApplyMoves DEF Set
<1>2. /\ pc' = [pc EXCEPT ![c] = "done"] /\ result' = [result EXCEPT ![c] = value + 1]
      /\ UNCHANGED <<prev, floor>> /\ pc[c] = "set"
  BY <1>1 DEF Set
<1>3. Types'
  BY <1>1, <1>2 DEF IInv, Types
<1>4. Reads'
  BY <1>1, <1>2 DEF IInv, Types, Reads
<1>5. Floors'
  BY <1>1, <1>2 DEF IInv, Types, Floors
<1>6. NumbersUnique'
  <2>1. \A d \in Calls \ {c} : pc[d] = "done" => result[d] # value + 1
    BY DEF IInv, Types, Floors
  <2> QED BY <1>2, <2>1 DEF IInv, Types, NumbersUnique
<1> QED BY <1>3, <1>4, <1>5, <1>6 DEF IInv

LEMMA SetFailsInv == ASSUME IInv, NEW c \in Calls, SetFails(c) PROVE IInv'
<1>1. /\ pc' = [pc EXCEPT ![c] = "delay"] /\ UNCHANGED <<prev, result, floor>>
  BY DEF SetFails
<1>2. CASE Apply(c)
  BY <1>1, <1>2, ApplyMoves DEF IInv, Types, Reads, Floors, NumbersUnique
<1>3. CASE UNCHANGED <<value, index>>
  BY <1>1, <1>3 DEF IInv, Types, Reads, Floors, NumbersUnique
<1> QED BY <1>2, <1>3 DEF SetFails

THEOREM Inductive == Spec => []IInv
<1>1. IInv /\ [Next]_vars => IInv'
  <2> SUFFICES ASSUME IInv, [Next]_vars PROVE IInv'
    OBVIOUS
  <2>1. CASE UNCHANGED vars
    BY <2>1 DEF vars, IInv, Types, Reads, Floors, NumbersUnique
  <2>2. ASSUME NEW c \in Calls, Begin(c) \/ Step(c) \/ GetFails(c) PROVE IInv'
    BY <2>2, QuietInv, GetInv, SetInv, SetFailsInv DEF Step
  <2> QED BY <2>1, <2>2 DEF Next
<1> QED BY <1>1, InitInv, PTL DEF Spec

\* No number is returned twice, for every number of calls, pool size and fault.
THEOREM Unique == Spec => []NumbersUnique
<1>1. IInv => NumbersUnique
  BY DEF IInv
<1> QED BY <1>1, Inductive, PTL

\* A call returns a number larger than any returned before it began.
THEOREM Follow == Spec => []NumbersFollow
<1>1. IInv => NumbersFollow
  BY DEF IInv, Floors, NumbersFollow
<1> QED BY <1>1, Inductive, PTL
=============================================================================
