--------------------------- MODULE SnowflakeProofs ---------------------------
(* For every size of the bit fields, number of processes and clock           *)
(* behaviour: the numbers of one process increase, and no two numbers of any *)
(* processes are equal as long as machine ids do not repeat.                 *)
EXTENDS SnowflakeService, TLAPS

-----------------------------------------------------------------------------
(* Packing numbers into adjacent fields.                                    *)

LEMMA ProductNat == \A d, M \in Nat : d * M \in Nat
  OBVIOUS

LEMMA Distribute == \A a, d, M \in Nat : (a + 1 + d) * M = a * M + M + d * M
  OBVIOUS

\* A smaller high field makes a smaller number, whatever the low fields hold.
LEMMA FieldLess ==
  ASSUME NEW a \in Nat, NEW b \in Nat, NEW M \in Nat \ {0},
         NEW k \in 0 .. M - 1, NEW l \in 0 .. M - 1, a < b
  PROVE  a * M + k < b * M + l
<1>1. PICK d \in Nat : b = a + 1 + d
  <2>1. b - a - 1 \in Nat
    OBVIOUS
  <2> QED BY <2>1
<1>2. b * M = a * M + M + d * M
  BY <1>1, Distribute
<1>3. d * M \in Nat /\ a * M \in Nat
  BY ProductNat
<1> QED BY <1>2, <1>3

\* Two numbers are equal only when both fields are.
LEMMA FieldsEqual ==
  ASSUME NEW a \in Nat, NEW b \in Nat, NEW M \in Nat \ {0},
         NEW k \in 0 .. M - 1, NEW l \in 0 .. M - 1,
         a * M + k = b * M + l
  PROVE  a = b /\ k = l
<1>0. a * M \in Nat /\ b * M \in Nat
  BY ProductNat
<1>1. ~(a < b)
  <2>1. a < b => a * M + k < b * M + l
    BY FieldLess
  <2> QED BY <2>1, <1>0
<1>2. ~(b < a)
  <2>1. b < a => b * M + l < a * M + k
    BY FieldLess
  <2> QED BY <2>1, <1>0
<1>3. a = b
  BY <1>1, <1>2
<1> QED BY <1>0, <1>3

\* A time within the 41 bits is packed unchanged.
LEMMA TimeFits ==
  ASSUME InRange, NEW t \in Times
  PROVE  t % TsSpace = t
<1>1. t \in Nat /\ TsSpace \in Nat \ {0} /\ t < TsSpace
  BY SpacesAssumption, BoundsAssumption DEF InRange, Times
<1> QED BY <1>1

Earlier(r, q) == r.t < q.t \/ (r.t = q.t /\ r.n < q.n)

\* Numbers with the same machine id are ordered as their time and serial.
LEMMA UuidLess ==
  ASSUME InRange, NEW r \in Issue, NEW q \in Issue, r.m = q.m, Earlier(r, q)
  PROVE  Uuid(r) < Uuid(q)
<1> DEFINE hi(x) == x.t * MidSpace + x.m
<1>0. /\ r.t \in Nat /\ q.t \in Nat /\ MidSpace \in Nat \ {0}
      /\ r.m \in 0 .. MidSpace - 1 /\ q.m \in 0 .. MidSpace - 1
      /\ r.n \in 0 .. SnSpace - 1 /\ q.n \in 0 .. SnSpace - 1
      /\ SnSpace \in Nat \ {0} /\ r.t \in Times /\ q.t \in Times
  BY SpacesAssumption, BoundsAssumption DEF Issue, Times
<1>1. Uuid(r) = hi(r) * SnSpace + r.n /\ Uuid(q) = hi(q) * SnSpace + q.n
  BY <1>0, TimeFits DEF Uuid
<1>2. hi(r) \in Nat /\ hi(q) \in Nat
  <2>1. r.t * MidSpace \in Nat /\ q.t * MidSpace \in Nat
    BY <1>0, ProductNat
  <2> QED BY <1>0, <2>1
<1>3. CASE r.t < q.t
  <2>1. hi(r) < hi(q)
    BY <1>0, <1>3, FieldLess
  <2> HIDE DEF hi
  <2> QED BY <1>0, <1>1, <1>2, <2>1, FieldLess
<1>4. CASE r.t = q.t /\ r.n < q.n
  <2>1. hi(r) = hi(q)
    BY <1>4
  <2>2. hi(r) * SnSpace \in Nat
    BY <1>0, <1>2, ProductNat
  <2> HIDE DEF hi
  <2> QED BY <1>0, <1>1, <1>4, <2>1, <2>2
<1> QED BY <1>3, <1>4 DEF Earlier

\* Numbers are equal only when machine id, time and serial are.
LEMMA UuidEqual ==
  ASSUME InRange, NEW r \in Issue, NEW q \in Issue, Uuid(r) = Uuid(q)
  PROVE  r.m = q.m /\ r.t = q.t /\ r.n = q.n
<1> DEFINE hi(x) == x.t * MidSpace + x.m
<1>0. /\ r.t \in Nat /\ q.t \in Nat /\ MidSpace \in Nat \ {0}
      /\ r.m \in 0 .. MidSpace - 1 /\ q.m \in 0 .. MidSpace - 1
      /\ r.n \in 0 .. SnSpace - 1 /\ q.n \in 0 .. SnSpace - 1
      /\ SnSpace \in Nat \ {0} /\ r.t \in Times /\ q.t \in Times
  BY SpacesAssumption, BoundsAssumption DEF Issue, Times
<1>1. Uuid(r) = hi(r) * SnSpace + r.n /\ Uuid(q) = hi(q) * SnSpace + q.n
  BY <1>0, TimeFits DEF Uuid
<1>2. hi(r) \in Nat /\ hi(q) \in Nat
  <2>1. r.t * MidSpace \in Nat /\ q.t * MidSpace \in Nat
    BY <1>0, ProductNat
  <2> QED BY <1>0, <2>1
<1>3. hi(r) = hi(q) /\ r.n = q.n
  <2>1. hi(r) * SnSpace + r.n = hi(q) * SnSpace + q.n
    BY <1>1
  <2> HIDE DEF hi
  <2> QED BY <1>0, <1>2, <2>1, FieldsEqual, Zenon
<1>4. r.t * MidSpace + r.m = q.t * MidSpace + q.m
  BY <1>3
<1>5. r.t = q.t /\ r.m = q.m
  <2> DEFINE a == r.t  b == q.t  k == r.m  l == q.m
  <2>1. /\ a \in Nat /\ b \in Nat /\ MidSpace \in Nat \ {0}
        /\ k \in 0 .. MidSpace - 1 /\ l \in 0 .. MidSpace - 1
        /\ a * MidSpace + k = b * MidSpace + l
    BY <1>0, <1>4
  <2> HIDE DEF a, b, k, l, hi
  <2>2. a = b /\ k = l
    BY <2>1, FieldsEqual
  <2> USE DEF a, b, k, l
  <2> QED BY <2>2
<1> QED BY <1>3, <1>5

-----------------------------------------------------------------------------
(* Types.                                                                   *)

LEMMA NextSnType == \A v \in Lives : sn \in [Lives -> 0 .. SnSpace - 1]
                                      => NextSn(v) \in 0 .. SnSpace - 1
  BY SpacesAssumption DEF NextSn

LEMMA ZeroFits == 0 \in 0 .. SnSpace - 1 /\ 0 \in 0 .. MidSpace - 1 /\ 0 \in Times
  BY SpacesAssumption, BoundsAssumption DEF Times

LEMMA AnswerType ==
  ASSUME TypeOK, NEW v \in Lives, NEW t \in Times, NEW n \in 0 .. SnSpace - 1,
         Answer(v, t, n)
  PROVE  /\ last_ts' \in [Lives -> Times]
         /\ sn' \in [Lives -> 0 .. SnSpace - 1]
         /\ issued' \in Seq(Issue)
<1>1. [life |-> v, t |-> t, m |-> mid[v], n |-> n] \in Issue
  BY DEF TypeOK, Issue
<1> QED BY <1>1 DEF TypeOK, Answer

LEMMA InitType == Init => TypeOK
  BY ZeroFits, BoundsAssumption DEF Init, TypeOK

LEMMA StepType == TypeOK /\ [Next]_vars => TypeOK'
<1> SUFFICES ASSUME TypeOK, [Next]_vars
             PROVE  TypeOK'
  OBVIOUS
<1>1. CASE UNCHANGED vars
  BY <1>1 DEF TypeOK, vars
<1>2. ASSUME NEW v \in Lives, StartAuto(v)
      PROVE  TypeOK'
  <2>1. PICK k \in serial + 1 .. MaxSerial :
           serial' = k /\ mid' = [mid EXCEPT ![v] = MachineIdOf(k)]
    BY <1>2 DEF StartAuto
  <2>2. k \in 0 .. MaxSerial /\ k \in Nat
    BY BoundsAssumption DEF TypeOK
  <2>3. MachineIdOf(k) \in 0 .. MidSpace - 1
    BY <2>2, SpacesAssumption DEF MachineIdOf
  <2> QED BY <1>2, <2>1, <2>2, <2>3 DEF TypeOK, StartAuto
<1>3. ASSUME NEW v \in Lives, StartPinned(v)
      PROVE  TypeOK'
  <2>1. Pin % MidSpace \in 0 .. MidSpace - 1
    BY SpacesAssumption, BoundsAssumption
  <2> QED BY <1>3, <2>1 DEF TypeOK, StartPinned
<1>4. ASSUME NEW v \in Lives, Die(v)
      PROVE  TypeOK'
  BY <1>4 DEF TypeOK, Die
<1>5. ASSUME NEW v \in Lives, GetUUID(v)
      PROVE  TypeOK'
  BY <1>5 DEF TypeOK, GetUUID
<1>6. ASSUME NEW v \in Lives, NewMillisecond(v)
      PROVE  TypeOK'
  <2>1. PICK t \in Times : Answer(v, t, 0)
    BY <1>6 DEF NewMillisecond
  <2> QED BY <1>6, <2>1, AnswerType, ZeroFits DEF TypeOK, NewMillisecond, Receive
<1>7. ASSUME NEW v \in Lives, SameMillisecond(v)
      PROVE  TypeOK'
  <2>1. last_ts[v] \in Times /\ NextSn(v) \in 0 .. SnSpace - 1
    BY NextSnType DEF TypeOK
  <2>2. Answer(v, last_ts[v], NextSn(v))
    BY <1>7 DEF SameMillisecond
  <2> HIDE DEF TypeOK
  <2>3. /\ last_ts' \in [Lives -> Times]
        /\ sn' \in [Lives -> 0 .. SnSpace - 1]
        /\ issued' \in Seq(Issue)
    BY <2>1, <2>2, AnswerType
  <2>4. ch_proc' \in [Lives -> Nat] /\ UNCHANGED <<state, mid, serial>>
    BY <1>7 DEF TypeOK, SameMillisecond, Receive
  <2> QED BY <2>3, <2>4 DEF TypeOK
<1>8. ASSUME NEW v \in Lives, Overflow(v)
      PROVE  TypeOK'
  BY <1>8, ZeroFits DEF TypeOK, Overflow, Receive
<1>9. ASSUME NEW v \in Lives, ClockBack(v)
      PROVE  TypeOK'
  BY <1>9 DEF TypeOK, ClockBack, Receive
<1>10. ASSUME NEW v \in Lives, Waited(v)
       PROVE  TypeOK'
  <2>1. PICK t \in Times : Answer(v, t, 0)
    BY <1>10 DEF Waited
  <2> QED BY <1>10, <2>1, AnswerType, ZeroFits DEF TypeOK, Waited
<1>11. CASE Taken
  BY <1>11, BoundsAssumption DEF TypeOK, Taken
<1> QED BY <1>1, <1>2, <1>3, <1>4, <1>5, <1>6, <1>7, <1>8, <1>9, <1>10, <1>11
        DEF Next, Creator

\* Every variable keeps its type: in particular a serial number never leaves
\* its 12 bits and a machine id its 10, so that the fields of a number packed
\* by func_UUIDCreator do not overlap.
THEOREM TypeCorrect == Spec => []TypeOK
<1> QED BY InitType, StepType, PTL DEF Spec

-----------------------------------------------------------------------------
(* Order and uniqueness.  The invariant says where the answers given so far *)
(* lie: not after the creator's last_ts and, in that millisecond, not above *)
(* sn, except while the creator waits for the next millisecond and sn has   *)
(* already overflowed to 0.                                                 *)

Started(v) == state[v] # "new"

Behind(r) ==
    /\ Started(r.life) /\ r.m = mid[r.life]
    /\ r.t <= last_ts[r.life]
    /\ state[r.life] = "recv" /\ r.t = last_ts[r.life] => r.n <= sn[r.life]

IssuedBehind == \A i \in 1 .. Len(issued) : Behind(issued[i])

IssuedOrdered ==
    \A i, j \in 1 .. Len(issued) :
       i < j /\ issued[i].life = issued[j].life => Earlier(issued[i], issued[j])

\* The machine ids given out are the serials modulo MidSpace: 0 comes last.
MidsBelow ==
    \A v \in Lives : Started(v) =>
       mid[v] \in 1 .. serial \/ (mid[v] = 0 /\ serial = MidSpace)

MidsDistinct ==
    \A v, w \in Lives : Started(v) /\ Started(w) /\ v # w => mid[v] # mid[w]

OrderInv == TypeOK /\ IssuedBehind /\ IssuedOrdered
MidInv   == TypeOK /\ MidsBelow /\ MidsDistinct

\* An answer later than all the life has given keeps the answers in order.
LEMMA AnswerOrdered ==
  ASSUME OrderInv, NEW v \in Lives, NEW t \in Times, NEW n \in 0 .. SnSpace - 1,
         Answer(v, t, n), Started(v), mid' = mid,
         state' = [state EXCEPT ![v] = "recv"],
         \A i \in 1 .. Len(issued) : issued[i].life = v =>
            issued[i].t < t \/ (issued[i].t = t /\ issued[i].n < n)
  PROVE  IssuedBehind' /\ IssuedOrdered'
<1> DEFINE new == [life |-> v, t |-> t, m |-> mid[v], n |-> n]
<1>1. new \in Issue /\ issued \in Seq(Issue)
  BY DEF OrderInv, TypeOK, Issue
<1>2. /\ Len(issued') = Len(issued) + 1
      /\ issued'[Len(issued) + 1] = new
      /\ \A i \in 1 .. Len(issued) : issued'[i] = issued[i]
      /\ Len(issued) \in Nat
  BY <1>1 DEF Answer
<1>3. \A i \in 1 .. Len(issued) : issued[i] \in Issue
  BY <1>1
<1>4. /\ last_ts' = [last_ts EXCEPT ![v] = t] /\ sn' = [sn EXCEPT ![v] = n]
      /\ last_ts \in [Lives -> Times] /\ sn \in [Lives -> 0 .. SnSpace - 1]
      /\ state \in [Lives -> {"new", "recv", "wait", "dead"}]
      /\ mid \in [Lives -> 0 .. MidSpace - 1]
  BY DEF Answer, OrderInv, TypeOK
<1>5. IssuedBehind'
  <2> SUFFICES ASSUME NEW i \in 1 .. Len(issued) + 1
               PROVE  Behind(issued[i])'
    BY <1>2 DEF IssuedBehind
  <2>1. CASE i = Len(issued) + 1
    <3>1. issued'[i] = new
      BY <1>2, <2>1
    <3>2. n <= n /\ t <= t
      BY BoundsAssumption, SpacesAssumption DEF Times
    <3> QED BY <1>4, <3>1, <3>2 DEF Behind, Started
  <2>2. CASE i \in 1 .. Len(issued)
    <3>1. issued'[i] = issued[i] /\ issued[i] \in Issue /\ Behind(issued[i])
      BY <1>2, <1>3, <2>2 DEF OrderInv, IssuedBehind
    <3>2. CASE issued[i].life = v
      <4>1. /\ issued[i].t \in Nat /\ issued[i].n \in Nat
            /\ t \in Nat /\ n \in Nat
        BY <3>1, BoundsAssumption, SpacesAssumption DEF Issue, Times
      <4>2. issued[i].t < t \/ (issued[i].t = t /\ issued[i].n < n)
        BY <2>2, <3>2
      <4>3. last_ts'[v] = t /\ sn'[v] = n /\ state'[v] = "recv"
        BY <1>4
      <4> QED BY <3>1, <3>2, <4>1, <4>2, <4>3 DEF Behind, Started
    <3>3. CASE issued[i].life # v
      <4>1. issued[i].life \in Lives
        BY <3>1 DEF Issue
      <4> QED BY <1>4, <3>1, <3>3, <4>1 DEF Behind, Started
    <3> QED BY <3>2, <3>3
  <2> QED BY <1>2, <2>1, <2>2
<1>6. IssuedOrdered'
  <2> SUFFICES ASSUME NEW i \in 1 .. Len(issued) + 1,
                      NEW j \in 1 .. Len(issued) + 1,
                      i < j, issued'[i].life = issued'[j].life
               PROVE  Earlier(issued'[i], issued'[j])
    BY <1>2 DEF IssuedOrdered
  <2>1. i \in 1 .. Len(issued) /\ issued'[i] = issued[i]
    BY <1>2
  <2>2. CASE j = Len(issued) + 1
    <3>1. issued'[j] = new
      BY <1>2, <2>2
    <3> QED BY <2>1, <3>1 DEF Earlier
  <2>3. CASE j \in 1 .. Len(issued)
    <3>1. issued'[j] = issued[j]
      BY <1>2, <2>3
    <3> QED BY <2>1, <2>3, <3>1 DEF OrderInv, IssuedOrdered
  <2> QED BY <1>2, <2>2, <2>3
<1> QED BY <1>5, <1>6

\* A step that answers nothing, and moves no last_ts, sn or machine id of a
\* started life, keeps them behind.
LEMMA QuietOrdered ==
  ASSUME OrderInv, UNCHANGED <<last_ts, issued>>,
         \A v \in Lives : Started(v) =>
            /\ Started(v)' /\ mid'[v] = mid[v]
            /\ state'[v] = "recv" => state[v] = "recv" /\ sn'[v] = sn[v]
  PROVE  IssuedBehind' /\ IssuedOrdered'
<1>1. \A i \in 1 .. Len(issued) : issued[i].life \in Lives
  <2>1. \A i \in 1 .. Len(issued) : issued[i] \in Issue
    BY DEF OrderInv, TypeOK
  <2> QED BY <2>1 DEF Issue
<1>2. IssuedBehind'
  <2> SUFFICES ASSUME NEW i \in 1 .. Len(issued)
               PROVE  Behind(issued[i])'
    BY DEF IssuedBehind
  <2>1. Behind(issued[i]) /\ issued'[i] = issued[i] /\ issued[i].life \in Lives
    BY <1>1 DEF OrderInv, IssuedBehind
  <2> QED BY <2>1 DEF Behind, Started
<1> QED BY <1>2 DEF OrderInv, IssuedOrdered

LEMMA InitOrder == Init => OrderInv
<1> SUFFICES ASSUME Init PROVE OrderInv
  OBVIOUS
<1>1. TypeOK
  BY InitType
<1>2. Len(issued) = 0
  BY DEF Init
<1> QED BY <1>1, <1>2 DEF OrderInv, IssuedBehind, IssuedOrdered

LEMMA StepOrder == OrderInv /\ [Next]_vars => OrderInv'
<1> SUFFICES ASSUME OrderInv, [Next]_vars
             PROVE  IssuedBehind' /\ IssuedOrdered'
  BY StepType DEF OrderInv
<1>0. TypeOK
  BY DEF OrderInv
<1>1. CASE UNCHANGED vars
  BY <1>1, QuietOrdered DEF vars, Started
<1>2. ASSUME NEW v \in Lives, StartAuto(v) \/ StartPinned(v)
      PROVE  IssuedBehind' /\ IssuedOrdered'
  <2>1. \A w \in Lives : Started(w) =>
           /\ Started(w)' /\ mid'[w] = mid[w]
           /\ state'[w] = "recv" => state[w] = "recv" /\ sn'[w] = sn[w]
    BY <1>0, <1>2 DEF TypeOK, StartAuto, StartPinned, Started
  <2> QED BY <1>2, <2>1, QuietOrdered DEF StartAuto, StartPinned
<1>3. ASSUME NEW v \in Lives, Die(v)
      PROVE  IssuedBehind' /\ IssuedOrdered'
  <2>1. \A w \in Lives : Started(w) =>
           /\ Started(w)' /\ mid'[w] = mid[w]
           /\ state'[w] = "recv" => state[w] = "recv" /\ sn'[w] = sn[w]
    BY <1>0, <1>3 DEF TypeOK, Die, Started
  <2> QED BY <1>3, <2>1, QuietOrdered DEF Die
<1>4. ASSUME NEW v \in Lives, GetUUID(v)
      PROVE  IssuedBehind' /\ IssuedOrdered'
  BY <1>4, QuietOrdered DEF GetUUID, Started
<1>5. ASSUME NEW v \in Lives, Overflow(v) \/ ClockBack(v)
      PROVE  IssuedBehind' /\ IssuedOrdered'
  <2>1. \A w \in Lives : Started(w) =>
           /\ Started(w)' /\ mid'[w] = mid[w]
           /\ state'[w] = "recv" => state[w] = "recv" /\ sn'[w] = sn[w]
    BY <1>0, <1>5 DEF TypeOK, Overflow, ClockBack, Receive, Started
  <2> QED BY <1>5, <2>1, QuietOrdered DEF Overflow, ClockBack, Receive
<1>6. \A v \in Lives : \A i \in 1 .. Len(issued) : issued[i].life = v =>
         /\ issued[i].t \in Nat /\ issued[i].n \in Nat
         /\ issued[i].t <= last_ts[v]
         /\ state[v] = "recv" /\ issued[i].t = last_ts[v]
               => issued[i].n <= sn[v]
  <2>1. \A i \in 1 .. Len(issued) : issued[i] \in Issue /\ Behind(issued[i])
    BY DEF OrderInv, TypeOK, IssuedBehind
  <2>2. \A r \in Issue : r.t \in Nat /\ r.n \in Nat
    BY BoundsAssumption, SpacesAssumption DEF Issue, Times
  <2> QED BY <2>1, <2>2 DEF Behind
<1>7. ASSUME NEW v \in Lives, NewMillisecond(v) \/ Waited(v)
      PROVE  IssuedBehind' /\ IssuedOrdered'
  <2>1. PICK t \in Times : t > last_ts[v] /\ Answer(v, t, 0)
    BY <1>7 DEF NewMillisecond, Waited, Later
  <2>2. /\ Started(v) /\ mid' = mid
        /\ state' = [state EXCEPT ![v] = "recv"]
    BY <1>0, <1>7 DEF TypeOK, NewMillisecond, Waited, Receive, Started
  <2>3. \A i \in 1 .. Len(issued) : issued[i].life = v => issued[i].t < t
    <3>1. t \in Nat /\ last_ts[v] \in Nat
      BY <1>0, BoundsAssumption DEF TypeOK, Times
    <3> QED BY <1>6, <2>1, <3>1
  <2> QED BY <2>1, <2>2, <2>3, ZeroFits, AnswerOrdered
<1>8. ASSUME NEW v \in Lives, SameMillisecond(v)
      PROVE  IssuedBehind' /\ IssuedOrdered'
  <2>1. /\ last_ts[v] \in Times /\ NextSn(v) \in 0 .. SnSpace - 1
        /\ sn[v] \in 0 .. SnSpace - 1
    BY <1>0, NextSnType DEF TypeOK
  <2>2. /\ Started(v) /\ mid' = mid /\ state[v] = "recv"
        /\ state' = [state EXCEPT ![v] = "recv"]
        /\ Answer(v, last_ts[v], NextSn(v)) /\ NextSn(v) # 0
    BY <1>0, <1>8 DEF TypeOK, SameMillisecond, Receive, Started
  <2>3. NextSn(v) = sn[v] + 1
    BY <2>1, <2>2, SpacesAssumption DEF NextSn
  <2>4. \A i \in 1 .. Len(issued) : issued[i].life = v =>
           \/ issued[i].t < last_ts[v]
           \/ issued[i].t = last_ts[v] /\ issued[i].n < NextSn(v)
    <3>1. sn[v] \in Nat /\ last_ts[v] \in Nat
      BY <2>1, BoundsAssumption, SpacesAssumption DEF Times
    <3> QED BY <1>6, <2>2, <2>3, <3>1
  <2> QED BY <2>1, <2>2, <2>4, AnswerOrdered
<1>9. CASE Taken
  BY <1>9, QuietOrdered DEF Taken, Started
<1> QED BY <1>1, <1>2, <1>3, <1>4, <1>5, <1>7, <1>8, <1>9 DEF Next, Creator

\* The numbers one process answers are strictly increasing, however its clock
\* jumps and however often a millisecond runs out of serial numbers, for every
\* size of the fields, as long as the time fits its 41 bits.
THEOREM Ordered == ASSUME InRange PROVE Spec => []UuidsOrdered
<1>1. OrderInv => UuidsOrdered
  <2> SUFFICES ASSUME OrderInv, NEW i \in 1 .. Len(issued),
                      NEW j \in 1 .. Len(issued),
                      i < j, issued[i].life = issued[j].life
               PROVE  Uuid(issued[i]) < Uuid(issued[j])
    BY DEF UuidsOrdered
  <2>1. issued[i] \in Issue /\ issued[j] \in Issue
    BY DEF OrderInv, TypeOK
  <2>2. issued[i].m = issued[j].m
    BY DEF OrderInv, IssuedBehind, Behind
  <2>3. Earlier(issued[i], issued[j])
    BY DEF OrderInv, IssuedOrdered
  <2> QED BY <2>1, <2>2, <2>3, UuidLess
<1> QED BY <1>1, InitOrder, StepOrder, PTL DEF Spec

-----------------------------------------------------------------------------
(* Machine ids: as long as serials do not run past MidSpace they stay apart. *)

LEMMA InitMid == Init => MidInv
<1> SUFFICES ASSUME Init PROVE MidInv
  OBVIOUS
<1> QED BY InitType DEF Init, MidInv, MidsBelow, MidsDistinct, Started

\* A serial within the field is its own machine id, the last one becomes 0.
LEMMA SerialId ==
  ASSUME NEW k \in 1 .. MidSpace
  PROVE  MachineIdOf(k) = IF k = MidSpace THEN 0 ELSE k
  BY SpacesAssumption DEF MachineIdOf

LEMMA StepMid ==
  ASSUME FewStarts
  PROVE  MidInv /\ [Next]_vars => MidInv'
<1> SUFFICES ASSUME MidInv, [Next]_vars
             PROVE  MidsBelow' /\ MidsDistinct'
  BY StepType DEF MidInv
<1>0. /\ TypeOK /\ MidSpace \in Nat /\ MaxSerial \in Nat
      /\ MaxSerial <= MidSpace /\ Pinned = {}
  BY SpacesAssumption, BoundsAssumption DEF MidInv, FewStarts
<1>1. ASSUME NEW v \in Lives, StartAuto(v)
      PROVE  MidsBelow' /\ MidsDistinct'
  <2>1. PICK k \in serial + 1 .. MaxSerial :
           serial' = k /\ mid' = [mid EXCEPT ![v] = MachineIdOf(k)]
    BY <1>1 DEF StartAuto
  <2>2. serial \in Nat /\ k \in 1 .. MidSpace /\ k > serial /\ serial < MidSpace
    BY <1>0 DEF TypeOK
  <2>3. MachineIdOf(k) = IF k = MidSpace THEN 0 ELSE k
    BY <2>2, SerialId
  <2>4. \A w \in Lives : Started(w) => mid[w] \in 1 .. serial /\ w # v
    BY <1>1, <2>2 DEF MidInv, MidsBelow, StartAuto, Started
  <2>5. /\ mid'[v] = MachineIdOf(k)
        /\ \A w \in Lives \ {v} : mid'[w] = mid[w] /\ (Started(w)' <=> Started(w))
    BY <1>0, <1>1, <2>1 DEF TypeOK, StartAuto, Started
  <2>6. MidsBelow'
    BY <2>1, <2>2, <2>3, <2>4, <2>5 DEF MidsBelow
  <2>7. MidsDistinct'
    <3> SUFFICES ASSUME NEW w \in Lives, NEW x \in Lives,
                        Started(w)', Started(x)', w # x
                 PROVE  mid'[w] # mid'[x]
      BY DEF MidsDistinct
    <3>1. CASE w = v
      BY <2>2, <2>3, <2>4, <2>5, <3>1
    <3>2. CASE x = v
      BY <2>2, <2>3, <2>4, <2>5, <3>2
    <3>3. CASE w # v /\ x # v
      BY <2>5, <3>3 DEF MidInv, MidsDistinct
    <3> QED BY <3>1, <3>2, <3>3
  <2> QED BY <2>6, <2>7
<1>2. ASSUME NEW v \in Lives, StartPinned(v)
      PROVE  FALSE
  BY <1>0, <1>2 DEF StartPinned
<1>3. ASSUME UNCHANGED <<mid, serial>>,
             \A v \in Lives : Started(v)' => Started(v)
      PROVE  MidsBelow' /\ MidsDistinct'
  BY <1>3 DEF MidInv, MidsBelow, MidsDistinct
<1>4. ASSUME NEW v \in Lives, Die(v) \/ GetUUID(v) \/ Creator(v)
      PROVE  MidsBelow' /\ MidsDistinct'
  <2>1. UNCHANGED <<mid, serial>>
    BY <1>4 DEF Die, GetUUID, Creator, NewMillisecond, SameMillisecond,
                Overflow, ClockBack, Waited
  <2>2. Started(v)
    BY <1>4 DEF Die, GetUUID, Creator, NewMillisecond, SameMillisecond,
                Overflow, ClockBack, Waited, Receive, Up, Started
  <2>3. \A w \in Lives : w # v => state'[w] = state[w]
    BY <1>0, <1>4 DEF Die, GetUUID, Creator, NewMillisecond, SameMillisecond,
                Overflow, ClockBack, Waited, TypeOK
  <2> QED BY <1>3, <2>1, <2>2, <2>3 DEF Started
<1>5. CASE UNCHANGED vars
  BY <1>3, <1>5 DEF vars, Started
<1>6. CASE Taken
  <2>1. /\ serial \in Nat /\ serial' \in Nat /\ serial < serial' /\ serial' <= MidSpace
        /\ UNCHANGED <<state, mid>>
    BY <1>0, <1>6 DEF TypeOK, Taken
  <2>2. \A w \in Lives : Started(w) => mid[w] \in 1 .. serial'
    BY <1>0, <2>1 DEF MidInv, MidsBelow
  <2> QED BY <2>1, <2>2 DEF MidInv, MidsBelow, MidsDistinct, Started
<1> QED BY <1>1, <1>2, <1>4, <1>5, <1>6 DEF Next

\* No two numbers answered are equal, whichever processes answered them and
\* whatever their clocks did, when machine ids come from etcd, processes have
\* been started at most MidSpace times and the time fits its 41 bits.
THEOREM Unique == ASSUME FewStarts, InRange PROVE Spec => []UuidsUnique
<1>1. OrderInv /\ MidInv => UuidsUnique
  <2> SUFFICES ASSUME OrderInv, MidInv, NEW i \in 1 .. Len(issued),
                      NEW j \in 1 .. Len(issued),
                      i # j, Uuid(issued[i]) = Uuid(issued[j])
               PROVE  FALSE
    BY DEF UuidsUnique
  <2> DEFINE r == issued[i]  q == issued[j]
  <2>1. r \in Issue /\ q \in Issue
    BY DEF OrderInv, TypeOK
  <2>2. r.m = q.m /\ r.t = q.t /\ r.n = q.n
    <3> HIDE DEF r, q
    <3>1. Uuid(r) = Uuid(q)
      BY DEF r, q
    <3> QED BY <2>1, <3>1, UuidEqual
  <2>3. Behind(r) /\ Behind(q)
    BY DEF OrderInv, IssuedBehind
  <2>4. r.life = q.life
    <3>1. r.life \in Lives /\ q.life \in Lives
      BY <2>1 DEF Issue
    <3> QED BY <2>2, <2>3, <3>1 DEF Behind, MidInv, MidsDistinct
  <2>5. Earlier(r, q) \/ Earlier(q, r)
    BY <2>4 DEF OrderInv, IssuedOrdered
  <2>6. r.t \in Nat /\ r.n \in Nat
    BY <2>1, BoundsAssumption, SpacesAssumption DEF Issue, Times
  <2> QED BY <2>2, <2>5, <2>6 DEF Earlier
<1> QED BY <1>1, InitOrder, StepOrder, InitMid, StepMid, PTL DEF Spec

-----------------------------------------------------------------------------
(* Processes and the compare-and-swap loop together: the whole service       *)
(* implements both of its halves, so the numbers of the loop are unique      *)
(* while starts and calls of Next use one counter, and the numbers of the    *)
(* processes are unique although their machine ids come from that loop.      *)

Loop == INSTANCE SnowflakeSeqProofs WITH value <- serial

-----------------------------------------------------------------------------
(* The loop. *)

LEMMA LoopStep == [ServiceNext]_serviceVars => [Loop!Next]_Loop!vars
<1> SUFFICES ASSUME [ServiceNext]_serviceVars PROVE [Loop!Next]_Loop!vars
  OBVIOUS
<1>1. CASE UNCHANGED seqVars
  BY <1>1 DEF seqVars, Loop!vars
<1>2. ASSUME NEW c \in Calls, Begin(c) \/ Sequence(c) PROVE Loop!Next
  <2>1. Counter!Begin(c) \/ Counter!GetFails(c) \/ Counter!Set(c) \/ Counter!TakeClient(c)
        \/ Counter!Get(c) \/ Counter!SetFails(c) \/ Counter!Retry(c)
    BY <1>2 DEF Begin, Sequence, Set
  <2>2. Loop!Begin(c) \/ Loop!GetFails(c) \/ Loop!Set(c) \/ Loop!TakeClient(c)
        \/ Loop!Get(c) \/ Loop!SetFails(c) \/ Loop!Retry(c)
    BY <2>1 DEF Counter!Begin, Counter!GetFails, Counter!Set, Counter!TakeClient, Counter!Get,
       Counter!SetFails, Counter!Retry, Counter!Returned, Counter!Holding, Counter!Cardinality,
       Counter!Apply, Counter!Unmoved, Counter!RetryAt,
       Loop!Begin, Loop!GetFails, Loop!Set, Loop!TakeClient, Loop!Get,
       Loop!SetFails, Loop!Retry, Loop!Returned, Loop!Holding, Loop!Cardinality,
       Loop!Apply, Loop!Unmoved, Loop!RetryAt
  <2> QED BY <2>2 DEF Loop!Next, Loop!Step
<1> QED BY <1>1, <1>2 DEF ServiceNext, Process, serviceVars

LEMMA LoopSpec == ServiceSpec => Loop!Spec
<1>1. ServiceInit => Loop!Init
  BY DEF ServiceInit, Counter!Init, Loop!Init
<1> QED BY <1>1, LoopStep, PTL DEF ServiceSpec, Loop!Spec

\* No number of the counter is returned twice, whether a start or a call of
\* Next draws it.
THEOREM SequencesUnique == ServiceSpec => []NumbersUnique
<1>1. Loop!NumbersUnique => NumbersUnique
  BY DEF Loop!NumbersUnique, NumbersUnique, Counter!NumbersUnique
<1> QED BY <1>1, LoopSpec, Loop!Unique, PTL

\* A call returns a number larger than any returned before it began.
THEOREM SequencesFollow == ServiceSpec => []NumbersFollow
<1>1. Loop!NumbersFollow => NumbersFollow
  BY DEF Loop!NumbersFollow, NumbersFollow, Counter!NumbersFollow
<1> QED BY <1>1, LoopSpec, Loop!Follow, PTL

-----------------------------------------------------------------------------
(* The processes.  A store operation moves the counter from a value that is  *)
(* current, so it draws the next number: a start of a process takes it as    *)
(* its machine id, and any other call takes it from under the processes.     *)

LEMMA LoopInvariant == ServiceSpec => []Loop!IInv
  BY LoopSpec, Loop!Inductive, PTL

\* A call at the counter is a start, takes a number, or leaves the processes.
LEMMA CallStep ==
  ASSUME Loop!IInv, Within, NEW c \in Calls, Begin(c) \/ Sequence(c)
  PROVE  [Next]_vars
<1>0. serial \in Nat /\ MaxSerial \in Nat /\ (serial' = serial + 1 => serial' \in serial + 1 .. MaxSerial)
  BY BoundsAssumption DEF Loop!IInv, Loop!Types, Within
<1>1. Counter!Apply(c) => serial' = serial + 1
  BY DEF Counter!Apply, Counter!Unmoved, Loop!IInv, Loop!Types, Loop!Reads
<1>2. CASE Set(c) /\ c \in Autos
  BY <1>2 DEF Set, Autos, Next
<1>3. CASE Set(c) /\ c \notin Autos
  <2>1. serial' = serial + 1 /\ UNCHANGED idVars
    BY <1>1, <1>3 DEF Set, Counter!Set
  <2>2. Taken
    BY <1>0, <2>1 DEF Taken, idVars
  <2> QED BY <2>2 DEF Next
<1>4. CASE Counter!SetFails(c) /\ UNCHANGED idVars
  <2>1. CASE Counter!Apply(c)
    <3>1. Taken
      BY <1>0, <1>1, <1>4, <2>1 DEF Taken, idVars
    <3> QED BY <3>1 DEF Next
  <2>2. CASE serial' = serial
    BY <1>4, <2>2 DEF idVars, vars
  <2> QED BY <1>4, <2>1, <2>2 DEF Counter!SetFails
<1>5. ASSUME Counter!Begin(c) \/ Counter!GetFails(c) \/ Counter!TakeClient(c) \/ Counter!Get(c)
             \/ Counter!Retry(c), UNCHANGED idVars
      PROVE  UNCHANGED vars
  BY <1>5 DEF Counter!Begin, Counter!GetFails, Counter!TakeClient, Counter!Get, Counter!Retry,
     idVars, vars
<1> QED BY <1>2, <1>3, <1>4, <1>5 DEF Begin, Sequence

LEMMA ServiceStep == Loop!IInv /\ [ServiceNext]_serviceVars => [Next]_vars
<1>1. ASSUME NEW v \in Lives, Process(v) PROVE Next
  BY <1>1 DEF Process, Next
<1>2. UNCHANGED serviceVars => UNCHANGED vars
  BY DEF serviceVars, idVars, seqVars, vars
<1> QED BY <1>1, <1>2, CallStep DEF ServiceNext

\* The processes that draw their machine ids with the loop (Func_Init calling
\* func_InitMachineID) behave as processes given an unused number each.
THEOREM Implements == ServiceSpec => Spec
<1>1. ServiceInit => Init
  BY DEF ServiceInit
<1> QED BY <1>1, ServiceStep, LoopInvariant, PTL DEF ServiceSpec, Spec

\* The answers of one process increase, whatever its clock does.
THEOREM UuidsIncrease == ASSUME InRange PROVE ServiceSpec => []UuidsOrdered
  BY Implements, Ordered, PTL

\* No two answers of GetUUID are equal, with the machine ids that the loop gave
\* out while calls of Next and lost answers used up numbers of its counter.
THEOREM UuidsDiffer == ASSUME FewStarts, InRange PROVE ServiceSpec => []UuidsUnique
  BY Implements, Unique, PTL
=============================================================================
