------------------------------ MODULE RankProofs ------------------------------
(* For every number of sets, users, calls and scores, every capacity of      *)
(* pending and all thresholds.                                               *)
(*                                                                           *)
(* A set keeps its users twice, and its two storages say the same as its     *)
(* map: SetShape, the part of the invariant each operation on a set is       *)
(* shown to keep.  What the list and the tree answer then follows from       *)
(* counting.  The loops over the map are functions of their turns: facts     *)
(* about all turns rest on the least turn that would break them.             *)
(*                                                                           *)
(* Persistence forgets no change that RankChange made.  Between a change and *)
(* the dump that holds it its id is in a call, in pending or in changes;     *)
(* while a dump is taken the same is said of the image: what it does not     *)
(* show yet is still to be marshalled, or was changed since and is on its    *)
(* way to the next dump.                                                     *)
EXTENDS Rank, FiniteSetTheorems, TLAPS

-----------------------------------------------------------------------------
(* Sequences: what is inserted and removed, and the first of its kind. *)

\* A set of naturals has a least one.
LEMMA LeastNat ==
  \A T \in SUBSET Nat : T # {} => \E x \in T : \A y \in T : x <= y
<1> SUFFICES ASSUME NEW T \in SUBSET Nat, T # {}
             PROVE  \E x \in T : \A y \in T : x <= y
  OBVIOUS
<1>1. PICK x \in T : \A y \in T : ~ (<<y, x>> \in OpToRel(<, Nat))
  BY WFMin, NatLessThanWellFounded
<1>2. \A y \in T : ~(y < x)
  BY <1>1 DEF OpToRel
<1> QED BY <1>2

IsInserted(t, s, i, e) ==
    /\ Len(t) = Len(s) + 1 /\ i \in 1 .. Len(s) + 1 /\ t[i] = e
    /\ \A j \in 1 .. Len(s) : t[IF j < i THEN j ELSE j + 1] = s[j]

IsRemoved(t, s, i) ==
    /\ Len(t) = Len(s) - 1 /\ i \in 1 .. Len(s)
    /\ \A j \in 1 .. Len(t) : t[j] = s[IF j < i THEN j ELSE j + 1]

LEMMA ConcatLaw ==
  ASSUME NEW X, NEW p \in Seq(X), NEW q \in Seq(X)
  PROVE  /\ p \o q \in Seq(X) /\ Len(p \o q) = Len(p) + Len(q)
         /\ \A j \in 1 .. Len(p) : (p \o q)[j] = p[j]
         /\ \A j \in 1 .. Len(q) : (p \o q)[Len(p) + j] = q[j]
  OBVIOUS

LEMMA InsertAtLaw ==
  ASSUME NEW X, NEW s \in Seq(X), NEW i \in 1 .. Len(s) + 1, NEW e \in X
  PROVE  InsertAt(s, i, e) \in Seq(X) /\ IsInserted(InsertAt(s, i, e), s, i, e)
<1> DEFINE p == SubSeq(s, 1, i - 1)  q == SubSeq(s, i, Len(s))  t == p \o <<e>> \o q
<1>0. Len(s) \in Nat
  OBVIOUS
<1>1. /\ p \in Seq(X) /\ Len(p) = i - 1 /\ \A j \in 1 .. i - 1 : p[j] = s[j]
  BY <1>0
<1>2. /\ q \in Seq(X) /\ Len(q) = Len(s) - i + 1
      /\ \A j \in 1 .. Len(s) - i + 1 : q[j] = s[i + j - 1]
  BY <1>0
<1>3. <<e>> \in Seq(X) /\ Len(<<e>>) = 1 /\ <<e>>[1] = e
  OBVIOUS
<1> HIDE DEF p, q
<1>4. /\ p \o <<e>> \in Seq(X) /\ Len(p \o <<e>>) = i
      /\ (p \o <<e>>)[i] = e /\ \A j \in 1 .. i - 1 : (p \o <<e>>)[j] = p[j]
  BY <1>1, <1>3
<1>5. /\ t \in Seq(X) /\ Len(t) = Len(s) + 1
      /\ \A j \in 1 .. i : t[j] = (p \o <<e>>)[j]
      /\ \A j \in 1 .. Len(s) - i + 1 : t[i + j] = q[j]
  <2> DEFINE w == p \o <<e>>
  <2>0. w \in Seq(X) /\ q \in Seq(X)
    BY <1>2, <1>4
  <2>1. /\ w \o q \in Seq(X) /\ Len(w \o q) = Len(w) + Len(q)
        /\ \A j \in 1 .. Len(w) : (w \o q)[j] = w[j]
        /\ \A j \in 1 .. Len(q) : (w \o q)[Len(w) + j] = q[j]
    <3> HIDE DEF w
    <3> QED BY <2>0, ConcatLaw
  <2>2. Len(w) = i /\ Len(q) = Len(s) - i + 1 /\ i + (Len(s) - i + 1) = Len(s) + 1
    BY <1>0, <1>2, <1>4
  <2> HIDE DEF w
  <2>3. /\ w \o q \in Seq(X) /\ Len(w \o q) = Len(s) + 1
        /\ \A j \in 1 .. i : (w \o q)[j] = w[j]
        /\ \A j \in 1 .. Len(s) - i + 1 : (w \o q)[i + j] = q[j]
    BY <2>1, <2>2
  <2> QED BY <2>3 DEF w
<1>6. ASSUME NEW j \in 1 .. Len(s)
      PROVE  t[IF j < i THEN j ELSE j + 1] = s[j]
  <2>1. CASE j < i
    BY <1>1, <1>4, <1>5, <2>1
  <2>2. CASE ~(j < i)
    <3>1. j - i + 1 \in 1 .. Len(s) - i + 1 /\ i + (j - i + 1) = j + 1
          /\ i + (j - i + 1) - 1 = j
      BY <1>0, <2>2
    <3> HIDE DEF t
    <3> QED BY <1>2, <1>5, <2>2, <3>1
  <2> QED BY <2>1, <2>2
<1>7. t[i] = e
  BY <1>0, <1>4, <1>5
<1>8. t = InsertAt(s, i, e)
  BY DEF p, q, InsertAt
<1> HIDE DEF t
<1> QED BY <1>5, <1>6, <1>7, <1>8 DEF IsInserted

LEMMA AppendLaw ==
  ASSUME NEW X, NEW s \in Seq(X), NEW e \in X
  PROVE  Append(s, e) \in Seq(X) /\ IsInserted(Append(s, e), s, Len(s) + 1, e)
  BY DEF IsInserted

LEMMA RemoveAtLaw ==
  ASSUME NEW X, NEW s \in Seq(X), NEW i \in 1 .. Len(s)
  PROVE  RemoveAt(s, i) \in Seq(X) /\ IsRemoved(RemoveAt(s, i), s, i)
<1> DEFINE p == SubSeq(s, 1, i - 1)  q == SubSeq(s, i + 1, Len(s))  t == p \o q
<1>0. Len(s) \in Nat
  OBVIOUS
<1>1. /\ p \in Seq(X) /\ Len(p) = i - 1 /\ \A j \in 1 .. i - 1 : p[j] = s[j]
  BY <1>0
<1>2. /\ q \in Seq(X) /\ Len(q) = Len(s) - i
      /\ \A j \in 1 .. Len(s) - i : q[j] = s[i + j]
  BY <1>0
<1> HIDE DEF p, q
<1>3. /\ t \in Seq(X) /\ Len(t) = Len(s) - 1
      /\ \A j \in 1 .. i - 1 : t[j] = p[j]
      /\ \A j \in 1 .. Len(s) - i : t[i - 1 + j] = q[j]
  <2>1. /\ p \o q \in Seq(X) /\ Len(p \o q) = Len(p) + Len(q)
        /\ \A j \in 1 .. Len(p) : (p \o q)[j] = p[j]
        /\ \A j \in 1 .. Len(q) : (p \o q)[Len(p) + j] = q[j]
    <3>1. p \in Seq(X) /\ q \in Seq(X)
      BY <1>1, <1>2
    <3> QED BY <3>1, ConcatLaw
  <2>2. Len(p) = i - 1 /\ Len(q) = Len(s) - i /\ i - 1 + (Len(s) - i) = Len(s) - 1
    BY <1>0, <1>1, <1>2
  <2> QED BY <2>1, <2>2
<1>4. ASSUME NEW j \in 1 .. Len(s) - 1
      PROVE  t[j] = s[IF j < i THEN j ELSE j + 1]
  <2>1. CASE j < i
    BY <1>1, <1>3, <2>1
  <2>2. CASE ~(j < i)
    <3>1. j - i + 1 \in 1 .. Len(s) - i /\ i + (j - i + 1) = j + 1
          /\ i - 1 + (j - i + 1) = j
      BY <1>0, <2>2
    <3> DEFINE l == j - i + 1
    <3> HIDE DEF t, l
    <3>2. t[i - 1 + l] = q[l] /\ q[l] = s[i + l]
      BY <1>2, <1>3, <3>1 DEF l
    <3> QED BY <2>2, <3>1, <3>2 DEF l
  <2> QED BY <2>1, <2>2
<1>5. t = RemoveAt(s, i)
  BY DEF p, q, RemoveAt
<1> HIDE DEF t
<1> QED BY <1>3, <1>4, <1>5 DEF IsRemoved

PairSet == [id : Int, score : Int]

LEMMA FirstLower ==
  ASSUME NEW s \in Seq(PairSet), NEW score \in Int, Has(s, LAMBDA p : score > p.score)
  PROVE  LET k == First(s, LAMBDA p : score > p.score)
         IN  /\ k \in 1 .. Len(s) /\ score > s[k].score
             /\ \A j \in 1 .. k - 1 : ~(score > s[j].score)
<1> DEFINE T == {k \in 1 .. Len(s) : score > s[k].score}
<1>1. DOMAIN s = 1 .. Len(s)
  OBVIOUS
<1>2. T # {} /\ T \subseteq Nat
  BY <1>1 DEF Has
<1>3. PICK k \in T : \A y \in T : k <= y
  BY <1>2, LeastNat
<1>4. k \in DOMAIN s /\ score > s[k].score /\ \A j \in 1 .. k - 1 : ~(score > s[j].score)
  BY <1>1, <1>3
<1> QED BY <1>1, <1>4 DEF First

LEMMA FirstId ==
  ASSUME NEW s \in Seq(PairSet), NEW id, Has(s, LAMBDA p : p.id = id)
  PROVE  LET k == First(s, LAMBDA p : p.id = id)
         IN  k \in 1 .. Len(s) /\ s[k].id = id
<1> DEFINE T == {k \in 1 .. Len(s) : s[k].id = id}
<1>1. DOMAIN s = 1 .. Len(s)
  OBVIOUS
<1>2. T # {} /\ T \subseteq Nat
  BY <1>1 DEF Has
<1>3. PICK k \in T : \A y \in T : k <= y
  BY <1>2, LeastNat
<1>4. k \in DOMAIN s /\ s[k].id = id /\ \A j \in 1 .. k - 1 : ~(s[j].id = id)
  BY <1>1, <1>3
<1> QED BY <1>1, <1>4 DEF First

LEMMA FirstUser ==
  ASSUME NEW s \in Seq(Users), NEW id, Contains(s, id)
  PROVE  LET k == First(s, LAMBDA u : u = id)
         IN  k \in 1 .. Len(s) /\ s[k] = id
<1> DEFINE T == {k \in 1 .. Len(s) : s[k] = id}
<1>1. DOMAIN s = 1 .. Len(s)
  OBVIOUS
<1>2. T # {} /\ T \subseteq Nat
  BY DEF Contains
<1>3. PICK k \in T : \A y \in T : k <= y
  BY <1>2, LeastNat
<1>4. k \in DOMAIN s /\ s[k] = id /\ \A j \in 1 .. k - 1 : ~(s[j] = id)
  BY <1>1, <1>3
<1> QED BY <1>1, <1>4 DEF First

-----------------------------------------------------------------------------
(* A list of the pairs of m, each of them once. *)

With(m, u, x) == [v \in DOMAIN m \cup {u} |-> IF v = u THEN x ELSE m[v]]
Less(m, u)    == [v \in DOMAIN m \ {u} |-> m[v]]

GoodList(s, m) ==
    /\ \A k \in 1 .. Len(s) : s[k].id \in DOMAIN m /\ s[k].score = m[s[k].id]
    /\ \A j, k \in 1 .. Len(s) : s[j].id = s[k].id => j = k
    /\ \A u \in DOMAIN m : \E k \in 1 .. Len(s) : s[k].id = u

LEMMA InsertedList ==
  ASSUME NEW s \in Seq(PairSet), NEW t \in Seq(PairSet), NEW m, GoodList(s, m),
         NEW u \in Int, NEW x \in Int, u \notin DOMAIN m,
         NEW i \in Nat, IsInserted(t, s, i, Pair(u, x))
  PROVE  GoodList(t, With(m, u, x))
<1> DEFINE w == With(m, u, x)
           f(j) == IF j < i THEN j ELSE j + 1
           g(k) == IF k < i THEN k ELSE k - 1
<1>0. /\ Len(s) \in Nat /\ Len(t) = Len(s) + 1 /\ i \in 1 .. Len(s) + 1
      /\ t[i].id = u /\ t[i].score = x
      /\ \A j \in 1 .. Len(s) : t[f(j)] = s[j]
  BY DEF IsInserted, Pair
<1>1. /\ DOMAIN w = DOMAIN m \cup {u} /\ w[u] = x
      /\ \A v \in DOMAIN m : w[v] = m[v]
  BY DEF With
<1>2. /\ \A k \in 1 .. Len(t) : k # i => g(k) \in 1 .. Len(s) /\ f(g(k)) = k
      /\ \A j \in 1 .. Len(s) : f(j) \in 1 .. Len(t)
  BY <1>0
<1>3. \A k \in 1 .. Len(t) : k # i => g(k) \in 1 .. Len(s) /\ t[k] = s[g(k)]
  BY <1>0, <1>2
<1> HIDE DEF w, f
<1>4. ASSUME NEW k \in 1 .. Len(t)
      PROVE  t[k].id \in DOMAIN w /\ t[k].score = w[t[k].id]
  <2>1. CASE k = i
    BY <1>0, <1>1, <2>1
  <2>2. CASE k # i
    <3>1. g(k) \in 1 .. Len(s) /\ t[k] = s[g(k)]
      BY <1>3, <2>2
    <3> HIDE DEF g
    <3>2. s[g(k)].id \in DOMAIN m /\ s[g(k)].score = m[s[g(k)].id]
      BY <3>1 DEF GoodList
    <3> QED BY <1>1, <3>1, <3>2
  <2> QED BY <2>1, <2>2
<1>5. ASSUME NEW j \in 1 .. Len(t), NEW k \in 1 .. Len(t), t[j].id = t[k].id
      PROVE  j = k
  <2>1. ASSUME NEW n \in 1 .. Len(t), n # i PROVE t[n].id \in DOMAIN m
    <3>1. t[n] = s[g(n)] /\ g(n) \in 1 .. Len(s)
      BY <1>3, <2>1
    <3> HIDE DEF g
    <3>2. s[g(n)].id \in DOMAIN m
      BY <3>1 DEF GoodList
    <3> QED BY <3>1, <3>2
  <2>2. j = i <=> k = i
    BY <1>0, <1>5, <2>1
  <2>3. CASE j # i /\ k # i
    <3>1. s[g(j)].id = s[g(k)].id /\ g(j) \in 1 .. Len(s) /\ g(k) \in 1 .. Len(s)
      BY <1>3, <1>5, <2>3
    <3>2. g(j) = g(k)
      <4> HIDE DEF g
      <4> QED BY <3>1 DEF GoodList
    <3>3. j \in Int /\ k \in Int /\ i \in Int
      OBVIOUS
    <3> QED BY <2>3, <3>2, <3>3
  <2> QED BY <2>2, <2>3
<1>6. ASSUME NEW v \in DOMAIN w
      PROVE  \E k \in 1 .. Len(t) : t[k].id = v
  <2>1. CASE v = u
    BY <1>0, <2>1
  <2>2. CASE v # u
    <3>1. v \in DOMAIN m
      BY <1>1, <2>2
    <3>2. PICK j \in 1 .. Len(s) : s[j].id = v
      BY <3>1 DEF GoodList
    <3> QED BY <1>0, <1>2, <3>2
  <2> QED BY <2>1, <2>2
<1> QED BY <1>4, <1>5, <1>6 DEF GoodList, w

LEMMA RemovedList ==
  ASSUME NEW s \in Seq(PairSet), NEW t \in Seq(PairSet), NEW m, GoodList(s, m),
         NEW u, NEW i \in Nat, IsRemoved(t, s, i), s[i].id = u
  PROVE  GoodList(t, Less(m, u))
<1> DEFINE w == Less(m, u)
           f(j) == IF j < i THEN j ELSE j + 1
           g(k) == IF k < i THEN k ELSE k - 1
<1>0. /\ Len(s) \in Nat /\ Len(t) = Len(s) - 1 /\ i \in 1 .. Len(s)
      /\ \A j \in 1 .. Len(t) : t[j] = s[f(j)]
  BY DEF IsRemoved
<1>1. /\ DOMAIN w = DOMAIN m \ {u}
      /\ \A v \in DOMAIN w : w[v] = m[v]
  BY DEF Less
<1>2. /\ \A j \in 1 .. Len(t) : f(j) \in 1 .. Len(s) /\ f(j) # i
      /\ \A k \in 1 .. Len(s) : k # i => g(k) \in 1 .. Len(t) /\ f(g(k)) = k
      /\ \A j, k \in 1 .. Len(t) : f(j) = f(k) => j = k
  BY <1>0
<1> HIDE DEF w, f, g
<1>4. ASSUME NEW k \in 1 .. Len(t)
      PROVE  t[k].id \in DOMAIN w /\ t[k].score = w[t[k].id]
  <2>1. f(k) \in 1 .. Len(s) /\ f(k) # i /\ t[k] = s[f(k)]
    BY <1>0, <1>2
  <2>2. s[f(k)].id \in DOMAIN m /\ s[f(k)].score = m[s[f(k)].id] /\ s[f(k)].id # u
    BY <1>0, <2>1 DEF GoodList
  <2> QED BY <1>1, <2>1, <2>2
<1>5. ASSUME NEW j \in 1 .. Len(t), NEW k \in 1 .. Len(t), t[j].id = t[k].id
      PROVE  j = k
  <2>1. s[f(j)].id = s[f(k)].id /\ f(j) \in 1 .. Len(s) /\ f(k) \in 1 .. Len(s)
    BY <1>0, <1>2, <1>5
  <2>2. f(j) = f(k)
    BY <2>1 DEF GoodList
  <2> QED BY <1>2, <2>2
<1>6. ASSUME NEW v \in DOMAIN w
      PROVE  \E k \in 1 .. Len(t) : t[k].id = v
  <2>1. v \in DOMAIN m /\ v # u
    BY <1>1
  <2>2. PICK j \in 1 .. Len(s) : s[j].id = v
    BY <2>1 DEF GoodList
  <2>3. g(j) \in 1 .. Len(t) /\ t[g(j)] = s[j]
    BY <1>0, <1>2, <2>1, <2>2
  <2> QED BY <2>2, <2>3
<1> QED BY <1>4, <1>5, <1>6 DEF GoodList, w

\* Where SInsert puts a pair.
LEMMA SInsertLaw ==
  ASSUME NEW s \in Seq(PairSet), NEW u \in Int, NEW x \in Int
  PROVE  /\ SInsert(s, u, x) \in Seq(PairSet)
         /\ \E i \in Nat : /\ IsInserted(SInsert(s, u, x), s, i, Pair(u, x))
                           /\ \A j \in 1 .. i - 1 : ~(x > s[j].score)
                           /\ i \in 1 .. Len(s) => x > s[i].score
<1>0. Pair(u, x) \in PairSet /\ Len(s) \in Nat /\ DOMAIN s = 1 .. Len(s)
  BY DEF Pair, PairSet
<1>1. CASE Has(s, LAMBDA p : x > p.score)
  <2> DEFINE k == First(s, LAMBDA p : x > p.score)
  <2>1. /\ k \in 1 .. Len(s) /\ x > s[k].score
        /\ \A j \in 1 .. k - 1 : ~(x > s[j].score)
    BY <1>1, FirstLower
  <2>2. SInsert(s, u, x) = InsertAt(s, k, Pair(u, x))
    BY <1>1 DEF SInsert
  <2> HIDE DEF k
  <2>3. k \in Nat /\ k \in 1 .. Len(s) + 1
    BY <1>0, <2>1
  <2>4. InsertAt(s, k, Pair(u, x)) \in Seq(PairSet)
        /\ IsInserted(InsertAt(s, k, Pair(u, x)), s, k, Pair(u, x))
    BY <1>0, <2>3, InsertAtLaw
  <2> QED BY <2>1, <2>2, <2>3, <2>4
<1>2. CASE ~Has(s, LAMBDA p : x > p.score)
  <2>1. SInsert(s, u, x) = Append(s, Pair(u, x))
    BY <1>2 DEF SInsert
  <2>2. \A j \in 1 .. Len(s) : ~(x > s[j].score)
    BY <1>0, <1>2 DEF Has
  <2>3. Append(s, Pair(u, x)) \in Seq(PairSet)
        /\ IsInserted(Append(s, Pair(u, x)), s, Len(s) + 1, Pair(u, x))
    BY <1>0, AppendLaw
  <2>4. Len(s) + 1 \in Nat /\ Len(s) + 1 - 1 = Len(s) /\ Len(s) + 1 \notin 1 .. Len(s)
    BY <1>0
  <2> QED BY <2>1, <2>2, <2>3, <2>4
<1> QED BY <1>1, <1>2

LEMMA SDeleteLaw ==
  ASSUME NEW s \in Seq(PairSet), NEW u
  PROVE  /\ SDelete(s, u) \in Seq(PairSet)
         /\ \/ /\ \A k \in 1 .. Len(s) : s[k].id # u
               /\ SDelete(s, u) = s
            \/ \E i \in 1 .. Len(s) : s[i].id = u /\ IsRemoved(SDelete(s, u), s, i)
<1>0. DOMAIN s = 1 .. Len(s)
  OBVIOUS
<1>1. CASE Has(s, LAMBDA p : p.id = u)
  <2> DEFINE k == First(s, LAMBDA p : p.id = u)
  <2>1. k \in 1 .. Len(s) /\ s[k].id = u
    BY <1>1, FirstId
  <2>2. SDelete(s, u) = RemoveAt(s, k)
    BY <1>1 DEF SDelete
  <2> HIDE DEF k
  <2> QED BY <2>1, <2>2, RemoveAtLaw
<1>2. CASE ~Has(s, LAMBDA p : p.id = u)
  <2>1. \A k \in 1 .. Len(s) : s[k].id # u
    BY <1>0, <1>2 DEF Has
  <2>2. SDelete(s, u) = s
    BY <1>2 DEF SDelete
  <2> QED BY <2>1, <2>2
<1> QED BY <1>1, <1>2

\* An update takes the pair out and puts it before the first lower score of
\* the list it was taken from, or at the end.
LEMMA SUpdateLaw ==
  ASSUME NEW s \in Seq(PairSet), NEW u \in Int, NEW x \in Int
  PROVE  /\ SUpdate(s, u, x) \in Seq(PairSet)
         /\ \/ /\ \A k \in 1 .. Len(s) : s[k].id # u
               /\ SUpdate(s, u, x) = s
            \/ \E k, i \in 1 .. Len(s) : \E r \in Seq(PairSet) :
                  /\ s[k].id = u /\ IsRemoved(r, s, k)
                  /\ IsInserted(SUpdate(s, u, x), r, i, Pair(u, x))
                  /\ (\E j \in 1 .. Len(s) : x > s[j].score) =>
                        /\ x > s[i].score
                        /\ \A j \in 1 .. i - 1 : ~(x > s[j].score)
<1>0. Pair(u, x) \in PairSet /\ Len(s) \in Nat /\ DOMAIN s = 1 .. Len(s)
  BY DEF Pair, PairSet
<1>1. CASE ~Has(s, LAMBDA p : p.id = u)
  <2>1. \A k \in 1 .. Len(s) : s[k].id # u
    BY <1>0, <1>1 DEF Has
  <2>2. SUpdate(s, u, x) = s
    BY <1>1 DEF SUpdate
  <2> QED BY <2>1, <2>2
<1>2. CASE Has(s, LAMBDA p : p.id = u)
  <2> DEFINE k == First(s, LAMBDA p : p.id = u)
             i == IF Has(s, LAMBDA p : x > p.score)
                  THEN First(s, LAMBDA p : x > p.score) ELSE Len(s)
             r == RemoveAt(s, k)
  <2>1. k \in 1 .. Len(s) /\ s[k].id = u
    BY <1>2, FirstId
  <2>2. SUpdate(s, u, x) = InsertAt(r, i, Pair(u, x))
    BY <1>2 DEF SUpdate, SLocate
  <2>3. /\ i \in 1 .. Len(s)
        /\ (\E j \in 1 .. Len(s) : x > s[j].score) =>
              /\ x > s[i].score
              /\ \A j \in 1 .. i - 1 : ~(x > s[j].score)
    <3>1. CASE Has(s, LAMBDA p : x > p.score)
      BY <3>1, FirstLower
    <3>2. CASE ~Has(s, LAMBDA p : x > p.score)
      BY <1>0, <2>1, <3>2 DEF Has
    <3> QED BY <3>1, <3>2
  <2> HIDE DEF k, i
  <2>4. r \in Seq(PairSet) /\ IsRemoved(r, s, k)
    BY <2>1, RemoveAtLaw
  <2> HIDE DEF r
  <2>5. i \in 1 .. Len(r) + 1
    BY <1>0, <2>3, <2>4 DEF IsRemoved
  <2>6. InsertAt(r, i, Pair(u, x)) \in Seq(PairSet)
        /\ IsInserted(InsertAt(r, i, Pair(u, x)), r, i, Pair(u, x))
    BY <1>0, <2>4, <2>5, InsertAtLaw
  <2> QED BY <2>1, <2>2, <2>3, <2>4, <2>6
<1> QED BY <1>1, <1>2

LEMMA PairsTyped ==
  ASSUME NEW s \in Seq(PairSet)
  PROVE  /\ Len(s) \in Nat /\ DOMAIN s = 1 .. Len(s)
         /\ \A j \in 1 .. Len(s) : s[j] \in PairSet /\ s[j].id \in Int /\ s[j].score \in Int
<1>1. Len(s) \in Nat /\ DOMAIN s = 1 .. Len(s) /\ \A j \in 1 .. Len(s) : s[j] \in PairSet
  OBVIOUS
<1> QED BY <1>1 DEF PairSet

LEMMA DescendingRemoved ==
  ASSUME NEW s \in Seq(PairSet), NEW t \in Seq(PairSet), Descending(s),
         NEW i \in Nat, IsRemoved(t, s, i)
  PROVE  Descending(t)
<1> DEFINE f(j) == IF j < i THEN j ELSE j + 1
<1>0. /\ Len(s) \in Nat /\ Len(t) = Len(s) - 1 /\ i \in 1 .. Len(s)
      /\ DOMAIN s = 1 .. Len(s) /\ DOMAIN t = 1 .. Len(t)
      /\ \A j \in 1 .. Len(t) : t[j] = s[f(j)]
  BY DEF IsRemoved
<1>1. ASSUME NEW a \in DOMAIN t, NEW b \in 1 .. a - 1
      PROVE  t[b].score >= t[a].score
  <2>1. /\ f(a) \in 1 .. Len(s) /\ f(b) \in 1 .. f(a) - 1
        /\ t[a] = s[f(a)] /\ t[b] = s[f(b)]
    <3>1. a \in 1 .. Len(t) /\ b \in 1 .. Len(t) /\ b < a
      BY <1>0
    <3> QED BY <1>0, <3>1
  <2> HIDE DEF f
  <2> QED BY <1>0, <2>1 DEF Descending
<1> QED BY <1>1 DEF Descending

LEMMA DescendingInserted ==
  ASSUME NEW s \in Seq(PairSet), NEW t \in Seq(PairSet), Descending(s),
         NEW u \in Int, NEW x \in Int, NEW i \in Nat, IsInserted(t, s, i, Pair(u, x)),
         \A j \in 1 .. i - 1 : ~(x > s[j].score),
         i \in 1 .. Len(s) => x > s[i].score
  PROVE  Descending(t)
<1> DEFINE f(j) == IF j < i THEN j ELSE j + 1
           g(k) == IF k < i THEN k ELSE k - 1
<1>0. /\ Len(s) \in Nat /\ Len(t) = Len(s) + 1 /\ i \in 1 .. Len(s) + 1
      /\ DOMAIN s = 1 .. Len(s) /\ DOMAIN t = 1 .. Len(t)
      /\ t[i].score = x /\ \A j \in 1 .. Len(s) : t[f(j)] = s[j] /\ s[j].score \in Int
  <2>1. /\ Len(t) = Len(s) + 1 /\ i \in 1 .. Len(s) + 1 /\ t[i] = Pair(u, x)
        /\ \A j \in 1 .. Len(s) : t[f(j)] = s[j]
    BY DEF IsInserted
  <2> HIDE DEF f
  <2> QED BY <2>1, PairsTyped DEF Pair
<1>1. \A k \in 1 .. Len(t) : k # i => g(k) \in 1 .. Len(s) /\ t[k] = s[g(k)]
  <2>1. \A k \in 1 .. Len(t) : k # i => g(k) \in 1 .. Len(s) /\ f(g(k)) = k
    BY <1>0
  <2> HIDE DEF f, g
  <2> QED BY <1>0, <2>1
<1>2. \A j \in 1 .. Len(s) : j >= i => x > s[j].score
  <2> SUFFICES ASSUME NEW j \in 1 .. Len(s), j >= i PROVE x > s[j].score
    OBVIOUS
  <2>1. i \in 1 .. Len(s) /\ x > s[i].score
    BY <1>0
  <2>2. CASE j = i
    BY <2>1, <2>2
  <2>3. CASE j # i
    <3>1. i \in 1 .. j - 1
      BY <1>0, <2>1, <2>3
    <3>2. s[i].score >= s[j].score
      BY <1>0, <3>1 DEF Descending
    <3> QED BY <1>0, <2>1, <3>2
  <2> QED BY <2>2, <2>3
<1>3. ASSUME NEW a \in DOMAIN t, NEW b \in 1 .. a - 1
      PROVE  t[b].score >= t[a].score
  <2>0. a \in 1 .. Len(t) /\ b \in 1 .. Len(t) /\ b < a
    BY <1>0
  <2>1. CASE a = i
    <3>1. b \in 1 .. i - 1 /\ b # i /\ g(b) = b
      BY <1>0, <2>0, <2>1
    <3>2. t[b] = s[b] /\ b \in 1 .. Len(s)
      BY <1>1, <2>0, <3>1
    <3> QED BY <1>0, <2>1, <3>1, <3>2
  <2>2. CASE b = i
    <3>1. a # i /\ g(a) = a - 1 /\ a - 1 >= i
      BY <1>0, <2>0, <2>2
    <3>2. t[a] = s[a - 1] /\ a - 1 \in 1 .. Len(s)
      BY <1>1, <2>0, <3>1
    <3>3. x > s[a - 1].score
      BY <1>2, <3>1, <3>2
    <3> QED BY <1>0, <2>2, <3>2, <3>3
  <2>3. CASE a # i /\ b # i
    <3>1. /\ g(a) \in 1 .. Len(s) /\ t[a] = s[g(a)]
          /\ g(b) \in 1 .. Len(s) /\ t[b] = s[g(b)]
      BY <1>1, <2>0, <2>3
    <3>2. g(b) \in 1 .. g(a) - 1
      BY <1>0, <2>0, <2>3
    <3> HIDE DEF g
    <3> QED BY <1>0, <3>1, <3>2 DEF Descending
  <2> QED BY <2>1, <2>2, <2>3
<1> QED BY <1>3 DEF Descending

LEMMA DescendingUpdated ==
  ASSUME NEW s \in Seq(PairSet), NEW r \in Seq(PairSet), NEW t \in Seq(PairSet),
         Descending(s), NEW u \in Int, NEW x \in Int,
         NEW k \in 1 .. Len(s), NEW i \in 1 .. Len(s),
         IsRemoved(r, s, k), IsInserted(t, r, i, Pair(u, x)),
         x > s[k].score, x > s[i].score, \A j \in 1 .. i - 1 : ~(x > s[j].score)
  PROVE  Descending(t)
<1>0. /\ Len(s) \in Nat /\ DOMAIN s = 1 .. Len(s) /\ i \in Nat /\ k \in Nat
      /\ \A j \in 1 .. Len(s) : s[j].score \in Int
  BY PairsTyped
<1>1. i <= k
  <2>1. ~(k \in 1 .. i - 1)
    OBVIOUS
  <2> QED BY <1>0, <2>1
<1>2. Len(r) = Len(s) - 1 /\ \A j \in 1 .. Len(r) : r[j] = s[IF j < k THEN j ELSE j + 1]
  BY DEF IsRemoved
<1>3. \A j \in 1 .. i - 1 : ~(x > r[j].score)
  BY <1>0, <1>1, <1>2
<1>4. i \in 1 .. Len(r) => x > r[i].score
  <2> SUFFICES ASSUME i \in 1 .. Len(r) PROVE x > r[i].score
    OBVIOUS
  <2>1. CASE i < k
    BY <1>2, <2>1
  <2>2. CASE ~(i < k)
    <3>1. r[i] = s[i + 1] /\ i + 1 \in 1 .. Len(s) /\ i \in 1 .. (i + 1) - 1
      BY <1>0, <1>2, <2>2
    <3>2. s[i].score >= s[i + 1].score
      BY <1>0, <3>1 DEF Descending
    <3> QED BY <1>0, <3>1, <3>2
  <2> QED BY <2>1, <2>2
<1>5. Descending(r)
  BY <1>0, DescendingRemoved
<1> QED BY <1>0, <1>3, <1>4, <1>5, DescendingInserted

\* An update of a user of the list.
LEMMA UpdatedList ==
  ASSUME NEW s \in Seq(PairSet), NEW m, GoodList(s, m), NEW u \in DOMAIN m,
         u \in Int, NEW x \in Int
  PROVE  GoodList(SUpdate(s, u, x), With(m, u, x))
<1>1. \E k \in 1 .. Len(s) : s[k].id = u
  BY DEF GoodList
<1>2. PICK k \in 1 .. Len(s), i \in 1 .. Len(s), r \in Seq(PairSet) :
         /\ s[k].id = u /\ IsRemoved(r, s, k)
         /\ IsInserted(SUpdate(s, u, x), r, i, Pair(u, x))
  BY <1>1, SUpdateLaw
<1>3. GoodList(r, Less(m, u))
  BY <1>2, RemovedList
<1>4. SUpdate(s, u, x) \in Seq(PairSet) /\ u \notin DOMAIN Less(m, u)
  BY SUpdateLaw DEF Less
<1>5. GoodList(SUpdate(s, u, x), With(Less(m, u), u, x))
  BY <1>2, <1>3, <1>4, InsertedList
<1>6. With(Less(m, u), u, x) = With(m, u, x)
  BY DEF With, Less
<1> QED BY <1>5, <1>6

-----------------------------------------------------------------------------
(* A tree of the users of m, each of them once in the node of its score. *)

Lists(s, D) ==
    /\ s \in Seq(Users) /\ \A k \in 1 .. Len(s) : s[k] \in D
    /\ \A j, k \in 1 .. Len(s) : s[j] = s[k] => j = k
    /\ \A u \in D : \E k \in 1 .. Len(s) : s[k] = u

ScoredBy(m, x) == {u \in DOMAIN m : m[u] = x}
GoodTree(r, m) ==
    r \in [Scores -> Seq(Users)] /\ \A x \in Scores : Lists(r[x], ScoredBy(m, x))

LEMMA ListsInserted ==
  ASSUME NEW D, NEW s, Lists(s, D), NEW u \in Users, u \notin D
  PROVE  Lists(Append(s, u), D \cup {u})
<1>1. /\ s \in Seq(Users) /\ Len(s) \in Nat /\ Append(s, u) \in Seq(Users)
      /\ Len(Append(s, u)) = Len(s) + 1 /\ Append(s, u)[Len(s) + 1] = u
      /\ \A i \in 1 .. Len(s) : Append(s, u)[i] = s[i]
  BY DEF Lists
<1> DEFINE t == Append(s, u)
<1> HIDE DEF t
<1>2. \A k \in 1 .. Len(t) : k = Len(s) + 1 \/ k \in 1 .. Len(s)
  BY <1>1 DEF t
<1>3. \A k \in 1 .. Len(s) : k \in 1 .. Len(t) /\ t[k] = s[k] /\ t[k] \in D
  BY <1>1 DEF t, Lists
<1>4. t[Len(s) + 1] = u /\ Len(s) + 1 \in 1 .. Len(t)
  BY <1>1 DEF t
<1>5. \A j, k \in 1 .. Len(t) : t[j] = t[k] => j = k
  BY <1>2, <1>3, <1>4 DEF Lists
<1>6. \A v \in D \cup {u} : \E k \in 1 .. Len(t) : t[k] = v
  BY <1>3, <1>4 DEF Lists
<1>7. \A k \in 1 .. Len(t) : t[k] \in D \cup {u}
  BY <1>2, <1>3, <1>4
<1>8. t \in Seq(Users)
  BY <1>1 DEF t
<1>9. Lists(t, D \cup {u})
  BY <1>5, <1>6, <1>7, <1>8 DEF Lists
<1> QED BY <1>9 DEF t

LEMMA ListsRemoved ==
  ASSUME NEW D, NEW s, Lists(s, D), NEW i \in 1 .. Len(s), NEW t \in Seq(Users),
         IsRemoved(t, s, i)
  PROVE  Lists(t, D \ {s[i]})
<1> DEFINE f(j) == IF j < i THEN j ELSE j + 1
           g(k) == IF k < i THEN k ELSE k - 1
<1>0. /\ s \in Seq(Users) /\ Len(s) \in Nat /\ Len(t) = Len(s) - 1
      /\ \A j \in 1 .. Len(t) : t[j] = s[f(j)]
  BY DEF IsRemoved, Lists
<1>1. /\ \A j \in 1 .. Len(t) : f(j) \in 1 .. Len(s) /\ f(j) # i
      /\ \A k \in 1 .. Len(s) : k # i => g(k) \in 1 .. Len(t) /\ f(g(k)) = k
      /\ \A j, k \in 1 .. Len(t) : f(j) = f(k) => j = k
  BY <1>0
<1> HIDE DEF f, g
<1>2. \A k \in 1 .. Len(t) : t[k] \in D \ {s[i]}
  BY <1>0, <1>1 DEF Lists
<1>3. \A j, k \in 1 .. Len(t) : t[j] = t[k] => j = k
  <2> SUFFICES ASSUME NEW j \in 1 .. Len(t), NEW k \in 1 .. Len(t), t[j] = t[k]
               PROVE  j = k
    OBVIOUS
  <2>1. s[f(j)] = s[f(k)] /\ f(j) \in 1 .. Len(s) /\ f(k) \in 1 .. Len(s)
    BY <1>0, <1>1
  <2>2. f(j) = f(k)
    BY <2>1 DEF Lists
  <2> QED BY <1>1, <2>2
<1>4. ASSUME NEW v \in D \ {s[i]} PROVE \E k \in 1 .. Len(t) : t[k] = v
  <2>1. PICK j \in 1 .. Len(s) : s[j] = v
    BY DEF Lists
  <2>2. g(j) \in 1 .. Len(t) /\ t[g(j)] = v
    BY <1>0, <1>1, <2>1
  <2> QED BY <2>2
<1> QED BY <1>2, <1>3, <1>4 DEF Lists

LEMMA NoTreeLaw == GoodTree(NoTree, <<>>)
<1>1. \A x \in Scores : ScoredBy(<<>>, x) = {}
  BY DEF ScoredBy
<1>2. Lists(<<>>, {})
  BY DEF Lists
<1>3. NoTree \in [Scores -> Seq(Users)] /\ \A x \in Scores : NoTree[x] = <<>>
  BY DEF NoTree
<1> QED BY <1>1, <1>2, <1>3 DEF GoodTree

LEMMA InsertedTree ==
  ASSUME NEW m, NEW r, GoodTree(r, m), NEW u \in Users, u \notin DOMAIN m,
         NEW x \in Scores
  PROVE  GoodTree(RInsert(r, u, x), With(m, u, x))
<1> DEFINE w == With(m, u, x)  t == RInsert(r, u, x)
<1>1. /\ ScoredBy(w, x) = ScoredBy(m, x) \cup {u} /\ u \notin ScoredBy(m, x)
      /\ \A y \in Scores : y # x => ScoredBy(w, y) = ScoredBy(m, y)
  BY DEF With, ScoredBy
<1>2. r \in [Scores -> Seq(Users)] /\ \A y \in Scores : Lists(r[y], ScoredBy(m, y))
  BY DEF GoodTree
<1>3. Lists(Append(r[x], u), ScoredBy(w, x))
  BY <1>1, <1>2, ListsInserted
<1>4. Append(r[x], u) \in Seq(Users)
  BY <1>3 DEF Lists
<1>5. /\ t \in [Scores -> Seq(Users)] /\ t[x] = Append(r[x], u)
      /\ \A y \in Scores : y # x => t[y] = r[y]
  BY <1>2, <1>4 DEF RInsert
<1> HIDE DEF w, t
<1>6. GoodTree(t, w)
  BY <1>1, <1>2, <1>3, <1>5 DEF GoodTree
<1> QED BY <1>6 DEF t, w

\* A tree has a node with the user if, and only if, the user is ranked.
LEMMA LocatedLaw ==
  ASSUME NEW m \in Scored, NEW r, GoodTree(r, m), NEW u, NEW x
  PROVE  Located(r, u, x) <=> (u \in DOMAIN m /\ x = m[u])
<1>1. \A v \in DOMAIN m : m[v] \in Scores
  BY DEF Scored
<1>2. ASSUME Located(r, u, x) PROVE u \in DOMAIN m /\ x = m[u]
  <2>1. x \in Scores /\ \E k \in 1 .. Len(r[x]) : r[x][k] = u
    BY <1>2 DEF Located, Contains
  <2>2. u \in ScoredBy(m, x)
    BY <2>1 DEF GoodTree, Lists
  <2> QED BY <2>2 DEF ScoredBy
<1>3. ASSUME u \in DOMAIN m, x = m[u] PROVE Located(r, u, x)
  <2>1. x \in Scores /\ u \in ScoredBy(m, x)
    BY <1>1, <1>3 DEF ScoredBy
  <2>2. \E k \in 1 .. Len(r[x]) : r[x][k] = u
    BY <2>1 DEF GoodTree, Lists
  <2> QED BY <2>1, <2>2 DEF Located, Contains
<1> QED BY <1>2, <1>3

LEMMA DeletedTree ==
  ASSUME NEW m \in Scored, NEW r, GoodTree(r, m), NEW u \in DOMAIN m
  PROVE  GoodTree(RDelete(r, u, m[u]), Less(m, u))
<1> DEFINE x == m[u]  w == Less(m, u)  t == RDelete(r, u, x)
           k == First(r[x], LAMBDA v : v = u)
           n == IF Len(r[x]) = 1 THEN <<>> ELSE RemoveAt(r[x], k)
<1>1. x \in Scores /\ u \in ScoredBy(m, x)
  BY DEF Scored, ScoredBy
<1>2. /\ ScoredBy(w, x) = ScoredBy(m, x) \ {u}
      /\ \A y \in Scores : y # x => ScoredBy(w, y) = ScoredBy(m, y)
  BY DEF Less, ScoredBy
<1>3. r \in [Scores -> Seq(Users)] /\ \A y \in Scores : Lists(r[y], ScoredBy(m, y))
  BY DEF GoodTree
<1>4. Contains(r[x], u)
  BY LocatedLaw DEF Located
<1>5. r[x] \in Seq(Users) /\ k \in 1 .. Len(r[x]) /\ r[x][k] = u
  BY <1>1, <1>3, <1>4, FirstUser
<1>6. t = [r EXCEPT ![x] = n]
  BY <1>4 DEF RDelete
<1> HIDE DEF k, x
<1>7. RemoveAt(r[x], k) \in Seq(Users) /\ IsRemoved(RemoveAt(r[x], k), r[x], k)
  BY <1>5, RemoveAtLaw
<1>8. Lists(RemoveAt(r[x], k), ScoredBy(w, x))
  BY <1>1, <1>2, <1>3, <1>5, <1>7, ListsRemoved
<1>9. Len(r[x]) = 1 => RemoveAt(r[x], k) = <<>>
  <2> SUFFICES ASSUME Len(r[x]) = 1 PROVE RemoveAt(r[x], k) = <<>>
    OBVIOUS
  <2>1. Len(RemoveAt(r[x], k)) = 0
    BY <1>5, <1>7 DEF IsRemoved
  <2> QED BY <1>7, <2>1
<1>10. n = RemoveAt(r[x], k)
  BY <1>9
<1> HIDE DEF n, t, w
<1>11. /\ t \in [Scores -> Seq(Users)] /\ t[x] = n
       /\ \A y \in Scores : y # x => t[y] = r[y]
  BY <1>1, <1>3, <1>6, <1>7, <1>10
<1>12. GoodTree(t, w)
  BY <1>1, <1>2, <1>3, <1>8, <1>10, <1>11 DEF GoodTree
<1> QED BY <1>12 DEF t, w, x

LEMMA UpdatedTree ==
  ASSUME NEW m \in Scored, NEW r, GoodTree(r, m), NEW u \in DOMAIN m, NEW x \in Scores
  PROVE  GoodTree(RInsert(RDelete(r, u, m[u]), u, x), With(m, u, x))
<1>1. GoodTree(RDelete(r, u, m[u]), Less(m, u)) /\ u \notin DOMAIN Less(m, u)
  BY DeletedTree DEF Less
<1>2. u \in Users
  BY DEF Scored
<1>3. With(Less(m, u), u, x) = With(m, u, x)
  BY DEF With, Less
<1>4. GoodTree(RInsert(RDelete(r, u, m[u]), u, x), With(Less(m, u), u, x))
  BY <1>1, <1>2, InsertedTree
<1> QED BY <1>3, <1>4

-----------------------------------------------------------------------------
(* What a loop over the map builds: the values of its turns. *)

\* What holds of the first turn and goes from each turn to the next holds of all.
LEMMA Rises ==
  ASSUME NEW n \in Nat, NEW J, 0 \in J, \A k \in 1 .. n : k - 1 \in J => k \in J
  PROVE  \A k \in 0 .. n : k \in J
<1> DEFINE T == {k \in 0 .. n : k \notin J}
<1> SUFFICES ASSUME T # {} PROVE FALSE
  OBVIOUS
<1>0. T \in SUBSET Nat
  OBVIOUS
<1>1. PICK k \in T : \A y \in T : k <= y
  <2> HIDE DEF T
  <2> QED BY <1>0, LeastNat
<1>2. k \in 1 .. n /\ k - 1 \in 0 .. n /\ ~(k <= k - 1)
  BY <1>1
<1> QED BY <1>1, <1>2

\* F[k] is the k-th turn, e what the first one finds.
Turned(X, e, n, F) ==
    \E g \in [0 .. n -> X] : g[0] = e /\ \A k \in 1 .. n : g[k] = F[k][g[k - 1]]

LEMMA Turns ==
  ASSUME NEW X, NEW e \in X, NEW n \in Nat, NEW F \in [1 .. n -> [X -> X]]
  PROVE  Turned(X, e, n, F)
<1> DEFINE Good(g, k) == /\ g \in [0 .. k -> X] /\ g[0] = e
                         /\ \A j \in 1 .. k : g[j] = F[j][g[j - 1]]
           J == {k \in 0 .. n : \E g : Good(g, k)}
<1>1. 0 \in J
  <2>1. Good([i \in 0 .. 0 |-> e], 0)
    OBVIOUS
  <2> HIDE DEF Good
  <2>2. \E g : Good(g, 0)
    BY <2>1
  <2> QED BY <2>2
<1>2. ASSUME NEW k \in 1 .. n, k - 1 \in J PROVE k \in J
  <2>1. PICK g : Good(g, k - 1)
    BY <1>2
  <2> DEFINE h == [i \in 0 .. k |-> IF i < k THEN g[i] ELSE F[k][g[k - 1]]]
  <2>2. F[k] \in [X -> X] /\ g[k - 1] \in X
    BY <2>1
  <2>3. h \in [0 .. k -> X] /\ h[0] = e /\ h[k] = F[k][h[k - 1]]
    BY <2>1, <2>2
  <2>4. \A j \in 1 .. k - 1 : h[j] = F[j][h[j - 1]]
    BY <2>1
  <2>5. Good(h, k)
    <3> HIDE DEF h
    <3> QED BY <2>3, <2>4
  <2>6. \E x : Good(x, k)
    <3> HIDE DEF Good, h
    <3> QED BY <2>5
  <2> QED BY <2>6
<1>3. n \in J
  <2> HIDE DEF J
  <2>1. \A k \in 0 .. n : k \in J
    BY <1>1, <1>2, Rises
  <2> QED BY <2>1
<1>4. PICK g : Good(g, n)
  BY <1>3
<1> QED BY <1>4 DEF Turned

\* Go visits every key of the map once, in any order.
LEMMA OrderLaw ==
  ASSUME NEW m \in Scored, NEW order \in SetToSeqs(DOMAIN m)
  PROVE  /\ Len(order) \in Nat /\ order \in [1 .. Len(order) -> DOMAIN m]
         /\ \A j, k \in 1 .. Len(order) : order[j] = order[k] => j = k
         /\ \A u \in DOMAIN m : \E k \in 1 .. Len(order) : order[k] = u
<1> DEFINE D == DOMAIN m  n == Cardinality(D)
<1>1. D \in SUBSET Users
  BY DEF Scored
<1>2. IsFiniteSet(D) /\ n \in Nat
  BY <1>1, RankSetAssumption, FS_Subset, FS_CardinalityType
<1>3. order \in [1 .. n -> D] /\ \A j, k \in 1 .. n : order[j] = order[k] => j = k
  BY DEF SetToSeqs
<1>4. order \in Injection(1 .. n, D)
  BY <1>3 DEF Injection, IsInjective
<1>5. Cardinality(1 .. n) = n
  <2> HIDE DEF n
  <2>1. Cardinality(1 .. n) = IF 1 > n THEN 0 ELSE n - 1 + 1
    BY <1>2, FS_Interval
  <2> QED BY <1>2, <2>1
<1>6. order \in Surjection(1 .. n, D)
  BY <1>2, <1>4, <1>5, FS_Injection
<1>7. Len(order) = n
  <2> HIDE DEF n, D
  <2> QED BY <1>2, <1>3
<1> QED BY <1>2, <1>3, <1>6, <1>7 DEF Surjection

\* The part of the map seen in the first k turns.
Taken(m, order, k) == [u \in {order[i] : i \in 1 .. k} |-> m[u]]

LEMMA PartLaw ==
  ASSUME NEW m \in Scored, NEW order \in SetToSeqs(DOMAIN m)
  PROVE  /\ Taken(m, order, 0) = <<>>
         /\ Taken(m, order, Len(order)) = m
         /\ \A k \in 1 .. Len(order) :
               /\ order[k] \in DOMAIN m
               /\ order[k] \notin DOMAIN Taken(m, order, k - 1)
               /\ Taken(m, order, k)
                     = With(Taken(m, order, k - 1), order[k], m[order[k]])
<1>0. /\ Len(order) \in Nat /\ order \in [1 .. Len(order) -> DOMAIN m]
      /\ \A j, k \in 1 .. Len(order) : order[j] = order[k] => j = k
      /\ \A u \in DOMAIN m : \E k \in 1 .. Len(order) : order[k] = u
  BY OrderLaw
<1>1. Taken(m, order, 0) = <<>>
  BY DEF Taken
<1>2. Taken(m, order, Len(order)) = m
  <2>1. {order[i] : i \in 1 .. Len(order)} = DOMAIN m
    <3>1. \A i \in 1 .. Len(order) : order[i] \in DOMAIN m
      BY <1>0
    <3>2. \A u \in DOMAIN m : u \in {order[i] : i \in 1 .. Len(order)}
      BY <1>0
    <3> QED BY <3>1, <3>2
  <2>2. m = [u \in DOMAIN m |-> m[u]]
    BY DEF Scored
  <2> QED BY <2>1, <2>2 DEF Taken
<1>3. ASSUME NEW k \in 1 .. Len(order)
      PROVE  /\ order[k] \in DOMAIN m
             /\ order[k] \notin DOMAIN Taken(m, order, k - 1)
             /\ Taken(m, order, k)
                   = With(Taken(m, order, k - 1), order[k], m[order[k]])
  <2>1. order[k] \in DOMAIN m
    BY <1>0
  <2>2. order[k] \notin {order[i] : i \in 1 .. k - 1}
    <3>1. \A i \in 1 .. k - 1 : i \in 1 .. Len(order) /\ i # k
      BY <1>0
    <3>2. \A i \in 1 .. k - 1 : order[i] # order[k]
      BY <1>0, <3>1
    <3> QED BY <3>2
  <2>3. {order[i] : i \in 1 .. k} = {order[i] : i \in 1 .. k - 1} \cup {order[k]}
    <3>1. \A i \in 1 .. k : i = k \/ i \in 1 .. k - 1
      BY <1>0
    <3>2. k \in 1 .. k /\ \A i \in 1 .. k - 1 : i \in 1 .. k
      BY <1>0
    <3> QED BY <3>1, <3>2
  <2> QED BY <2>1, <2>2, <2>3 DEF Taken, With
<1> QED BY <1>1, <1>2, <1>3

LEMMA TreedLaw ==
  ASSUME NEW m \in Scored, NEW r \in Treed(m)
  PROVE  GoodTree(r, m)
<1>1. PICK order \in SetToSeqs(DOMAIN m) :
         r = LET fill[n \in 0 .. Len(order)] ==
                    IF n = 0 THEN NoTree ELSE RInsert(fill[n - 1], order[n], m[order[n]])
             IN  fill[Len(order)]
  BY DEF Treed, Filled
<1> DEFINE l == Len(order)
           Eq(h) == h = [n \in 0 .. l |->
                      IF n = 0 THEN NoTree ELSE RInsert(h[n - 1], order[n], m[order[n]])]
           fill == CHOOSE h : Eq(h)
<1>2. r = fill[l]
  BY <1>1
<1>0. /\ l \in Nat /\ \A k \in 1 .. l : /\ order[k] \in DOMAIN m /\ order[k] \in Users
                                        /\ m[order[k]] \in Scores
  <2>1. \A u \in DOMAIN m : u \in Users /\ m[u] \in Scores
    BY DEF Scored
  <2> QED BY <2>1, OrderLaw
<1>3. \E h : Eq(h)
  <2> DEFINE X == [Scores -> Seq(Users)]
             F == [k \in 1 .. l |-> [t \in X |-> RInsert(t, order[k], m[order[k]])]]
  <2>1. \A t \in X, k \in 1 .. l : RInsert(t, order[k], m[order[k]]) \in X
    BY <1>0 DEF RInsert
  <2>2. l \in Nat /\ F \in [1 .. l -> [X -> X]] /\ NoTree \in X
    BY <1>0, <2>1 DEF NoTree
  <2>3. \A k \in 1 .. l, t \in X : F[k][t] = RInsert(t, order[k], m[order[k]])
    OBVIOUS
  <2> HIDE DEF X, F
  <2>4. Turned(X, NoTree, l, F)
    <3> HIDE DEF l
    <3> QED BY <2>2, Turns
  <2>5. PICK g \in [0 .. l -> X] :
           g[0] = NoTree /\ \A k \in 1 .. l : g[k] = F[k][g[k - 1]]
    BY <2>4 DEF Turned
  <2>6. \A k \in 1 .. l : k - 1 \in 0 .. l /\ g[k - 1] \in X
    <3>1. \A k \in 1 .. l : k - 1 \in 0 .. l
      BY <1>0
    <3> QED BY <2>5, <3>1
  <2>7. \A k \in 1 .. l : g[k] = RInsert(g[k - 1], order[k], m[order[k]])
    BY <2>3, <2>5, <2>6
  <2>8. \A n \in 0 .. l : g[n] = IF n = 0 THEN NoTree
                                 ELSE RInsert(g[n - 1], order[n], m[order[n]])
    BY <1>0, <2>5, <2>7
  <2>9. g = [n \in 0 .. l |-> g[n]]
    BY <2>5
  <2>10. Eq(g)
    BY <2>8, <2>9
  <2> QED BY <2>10
<1>4. Eq(fill)
  <2> HIDE DEF Eq
  <2> QED BY <1>3
<1> HIDE DEF fill
<1>5. /\ fill[0] = NoTree
      /\ \A k \in 1 .. l : fill[k] = RInsert(fill[k - 1], order[k], m[order[k]])
  <2>1. \A n \in 0 .. l : fill[n] = IF n = 0 THEN NoTree
                                    ELSE RInsert(fill[n - 1], order[n], m[order[n]])
    BY <1>4
  <2>2. 0 \in 0 .. l /\ \A k \in 1 .. l : k \in 0 .. l /\ k # 0
    BY <1>0
  <2> QED BY <2>1, <2>2
<1> DEFINE J == {k \in 0 .. l : GoodTree(fill[k], Taken(m, order, k))}
<1>6. 0 \in J
  BY <1>0, <1>5, PartLaw, NoTreeLaw
<1>7. ASSUME NEW k \in 1 .. l, k - 1 \in J PROVE k \in J
  <2>1. GoodTree(fill[k - 1], Taken(m, order, k - 1))
    BY <1>7
  <2>2. GoodTree(RInsert(fill[k - 1], order[k], m[order[k]]),
                 With(Taken(m, order, k - 1), order[k], m[order[k]]))
    BY <1>0, <2>1, PartLaw, InsertedTree
  <2>3. k \in 0 .. l
    BY <1>0
  <2> QED BY <1>5, <2>2, <2>3, PartLaw
<1>8. l \in J
  <2> HIDE DEF J, l
  <2>1. \A k \in 0 .. l : k \in J
    BY <1>0, <1>6, <1>7, Rises
  <2> QED BY <1>0, <2>1
<1> QED BY <1>2, <1>8, PartLaw

LEMMA ListedLaw ==
  ASSUME NEW m \in Scored, NEW s \in Listed(m)
  PROVE  s \in Seq(PairSet) /\ GoodList(s, m) /\ Descending(s)
<1>1. PICK order \in SetToSeqs(DOMAIN m) :
         s = LET fill[n \in 0 .. Len(order)] ==
                    IF n = 0 THEN <<>> ELSE SInsert(fill[n - 1], order[n], m[order[n]])
             IN  fill[Len(order)]
  BY DEF Listed, Filled
<1> DEFINE l == Len(order)
           Eq(h) == h = [n \in 0 .. l |->
                      IF n = 0 THEN <<>> ELSE SInsert(h[n - 1], order[n], m[order[n]])]
           fill == CHOOSE h : Eq(h)
<1>2. s = fill[l]
  BY <1>1
<1>0. /\ l \in Nat /\ \A k \in 1 .. l : /\ order[k] \in DOMAIN m /\ order[k] \in Int
                                        /\ m[order[k]] \in Int
  <2>1. \A u \in DOMAIN m : u \in Int /\ m[u] \in Int
    BY RankSetAssumption DEF Scored
  <2> QED BY <2>1, OrderLaw
<1>3. \E h : Eq(h)
  <2> DEFINE X == Seq(PairSet)
             F == [k \in 1 .. l |-> [t \in X |-> SInsert(t, order[k], m[order[k]])]]
  <2>1. \A t \in X, k \in 1 .. l : SInsert(t, order[k], m[order[k]]) \in X
    BY <1>0, SInsertLaw
  <2>2. l \in Nat /\ F \in [1 .. l -> [X -> X]] /\ <<>> \in X
    BY <1>0, <2>1
  <2>3. \A k \in 1 .. l, t \in X : F[k][t] = SInsert(t, order[k], m[order[k]])
    OBVIOUS
  <2> HIDE DEF X, F
  <2>4. Turned(X, <<>>, l, F)
    <3> HIDE DEF l
    <3> QED BY <2>2, Turns
  <2>5. PICK g \in [0 .. l -> X] :
           g[0] = <<>> /\ \A k \in 1 .. l : g[k] = F[k][g[k - 1]]
    BY <2>4 DEF Turned
  <2>6. \A k \in 1 .. l : k - 1 \in 0 .. l /\ g[k - 1] \in X
    <3>1. \A k \in 1 .. l : k - 1 \in 0 .. l
      BY <1>0
    <3> QED BY <2>5, <3>1
  <2>7. \A k \in 1 .. l : g[k] = SInsert(g[k - 1], order[k], m[order[k]])
    BY <2>3, <2>5, <2>6
  <2>8. \A n \in 0 .. l : g[n] = IF n = 0 THEN <<>>
                                 ELSE SInsert(g[n - 1], order[n], m[order[n]])
    BY <1>0, <2>5, <2>7
  <2>9. g = [n \in 0 .. l |-> g[n]]
    BY <2>5
  <2>10. Eq(g)
    BY <2>8, <2>9
  <2> QED BY <2>10
<1>4. Eq(fill)
  <2> HIDE DEF Eq
  <2> QED BY <1>3
<1> HIDE DEF fill
<1>5. /\ fill[0] = <<>>
      /\ \A k \in 1 .. l : fill[k] = SInsert(fill[k - 1], order[k], m[order[k]])
  <2>1. \A n \in 0 .. l : fill[n] = IF n = 0 THEN <<>>
                                    ELSE SInsert(fill[n - 1], order[n], m[order[n]])
    BY <1>4
  <2>2. 0 \in 0 .. l /\ \A k \in 1 .. l : k \in 0 .. l /\ k # 0
    BY <1>0
  <2> QED BY <2>1, <2>2
<1> DEFINE P(k) == Taken(m, order, k)
           Good(k) == /\ fill[k] \in Seq(PairSet) /\ GoodList(fill[k], P(k))
                      /\ Descending(fill[k])
           J == {k \in 0 .. l : Good(k)}
<1>6. 0 \in J
  <2>1. <<>> \in Seq(PairSet) /\ GoodList(<<>>, <<>>) /\ Descending(<<>>)
    BY DEF GoodList, Descending
  <2>2. fill[0] = <<>> /\ P(0) = <<>> /\ 0 \in 0 .. l
    BY <1>0, <1>5, PartLaw
  <2> HIDE DEF P
  <2>3. Good(0)
    BY <2>1, <2>2
  <2> QED BY <2>2, <2>3
<1>7. ASSUME NEW k \in 1 .. l, k - 1 \in J PROVE k \in J
  <2> DEFINE t == fill[k - 1]  u == order[k]  x == m[order[k]]
  <2>1. t \in Seq(PairSet) /\ GoodList(t, P(k - 1)) /\ Descending(t)
    BY <1>7
  <2>2. /\ u \in Int /\ x \in Int /\ u \notin DOMAIN P(k - 1)
        /\ P(k) = With(P(k - 1), u, x) /\ fill[k] = SInsert(t, u, x) /\ k \in 0 .. l
    BY <1>0, <1>5, PartLaw
  <2> HIDE DEF t, u, x, P
  <2>3. /\ SInsert(t, u, x) \in Seq(PairSet)
        /\ \E i \in Nat : /\ IsInserted(SInsert(t, u, x), t, i, Pair(u, x))
                          /\ \A j \in 1 .. i - 1 : ~(x > t[j].score)
                          /\ i \in 1 .. Len(t) => x > t[i].score
    BY <2>1, <2>2, SInsertLaw
  <2>4. GoodList(SInsert(t, u, x), With(P(k - 1), u, x))
    BY <2>1, <2>2, <2>3, InsertedList
  <2>5. Descending(SInsert(t, u, x))
    BY <2>1, <2>2, <2>3, DescendingInserted
  <2> QED BY <2>2, <2>3, <2>4, <2>5
<1>8. l \in J
  <2> HIDE DEF J, l
  <2>1. \A k \in 0 .. l : k \in J
    BY <1>0, <1>6, <1>7, Rises
  <2> QED BY <1>0, <2>1
<1> QED BY <1>2, <1>8, PartLaw

LEMMA SwappedLaw ==
  ASSUME NEW m \in Scored, NEW s0 \in Seq(PairSet), NEW s \in Swapped(s0, m)
  PROVE  s \in Seq(PairSet) /\ (m = <<>> => s = s0)
<1>1. PICK order \in SetToSeqs(DOMAIN m) :
         s = LET fill[n \in 0 .. Len(order)] ==
                    IF n = 0 THEN s0 ELSE SInsert(fill[n - 1], m[order[n]], order[n])
             IN  fill[Len(order)]
  BY DEF Swapped, Filled
<1> DEFINE l == Len(order)
           Eq(h) == h = [n \in 0 .. l |->
                      IF n = 0 THEN s0 ELSE SInsert(h[n - 1], m[order[n]], order[n])]
           fill == CHOOSE h : Eq(h)
<1>2. s = fill[l]
  BY <1>1
<1>0. /\ l \in Nat /\ \A k \in 1 .. l : /\ order[k] \in DOMAIN m /\ order[k] \in Int
                                        /\ m[order[k]] \in Int
  <2>1. \A u \in DOMAIN m : u \in Int /\ m[u] \in Int
    BY RankSetAssumption DEF Scored
  <2> QED BY <2>1, OrderLaw
<1>3. \E h : Eq(h)
  <2> DEFINE X == Seq(PairSet)
             F == [k \in 1 .. l |-> [t \in X |-> SInsert(t, m[order[k]], order[k])]]
  <2>1. \A t \in X, k \in 1 .. l : SInsert(t, m[order[k]], order[k]) \in X
    BY <1>0, SInsertLaw
  <2>2. l \in Nat /\ F \in [1 .. l -> [X -> X]] /\ s0 \in X
    BY <1>0, <2>1
  <2>3. \A k \in 1 .. l, t \in X : F[k][t] = SInsert(t, m[order[k]], order[k])
    OBVIOUS
  <2> HIDE DEF X, F
  <2>4. Turned(X, s0, l, F)
    <3> HIDE DEF l
    <3> QED BY <2>2, Turns
  <2>5. PICK g \in [0 .. l -> X] :
           g[0] = s0 /\ \A k \in 1 .. l : g[k] = F[k][g[k - 1]]
    BY <2>4 DEF Turned
  <2>6. \A k \in 1 .. l : k - 1 \in 0 .. l /\ g[k - 1] \in X
    <3>1. \A k \in 1 .. l : k - 1 \in 0 .. l
      BY <1>0
    <3> QED BY <2>5, <3>1
  <2>7. \A k \in 1 .. l : g[k] = SInsert(g[k - 1], m[order[k]], order[k])
    BY <2>3, <2>5, <2>6
  <2>8. \A n \in 0 .. l : g[n] = IF n = 0 THEN s0
                                 ELSE SInsert(g[n - 1], m[order[n]], order[n])
    BY <1>0, <2>5, <2>7
  <2>9. g = [n \in 0 .. l |-> g[n]]
    BY <2>5
  <2>10. Eq(g)
    BY <2>8, <2>9
  <2> QED BY <2>10
<1>4. Eq(fill)
  <2> HIDE DEF Eq
  <2> QED BY <1>3
<1> HIDE DEF fill
<1>5. /\ fill[0] = s0
      /\ \A k \in 1 .. l : fill[k] = SInsert(fill[k - 1], m[order[k]], order[k])
  <2>1. \A n \in 0 .. l : fill[n] = IF n = 0 THEN s0
                                    ELSE SInsert(fill[n - 1], m[order[n]], order[n])
    BY <1>4
  <2>2. 0 \in 0 .. l /\ \A k \in 1 .. l : k \in 0 .. l /\ k # 0
    BY <1>0
  <2> QED BY <2>1, <2>2
<1> DEFINE J == {k \in 0 .. l : fill[k] \in Seq(PairSet)}
<1>6. 0 \in J
  BY <1>0, <1>5
<1>7. ASSUME NEW k \in 1 .. l, k - 1 \in J PROVE k \in J
  <2>1. fill[k - 1] \in Seq(PairSet) /\ k \in 0 .. l
    BY <1>0, <1>7
  <2>2. SInsert(fill[k - 1], m[order[k]], order[k]) \in Seq(PairSet)
    BY <1>0, <2>1, SInsertLaw
  <2> QED BY <1>5, <2>1, <2>2
<1>8. l \in J
  <2> HIDE DEF J, l
  <2>1. \A k \in 0 .. l : k \in J
    BY <1>0, <1>6, <1>7, Rises
  <2> QED BY <1>0, <2>1
<1>9. ASSUME m = <<>> PROVE l = 0
  <2>1. DOMAIN m = {}
    BY <1>9
  <2>2. \A k \in 1 .. l : FALSE
    BY <1>0, <2>1
  <2>3. ~(1 \in 1 .. l)
    BY <2>2
  <2> HIDE DEF l
  <2> QED BY <1>0, <2>3
<1> QED BY <1>2, <1>5, <1>8, <1>9

-----------------------------------------------------------------------------
(* Ranks. *)

LEMMA IntervalLaw == \A n \in Nat : IsFiniteSet(1 .. n) /\ Cardinality(1 .. n) = n
<1> SUFFICES ASSUME NEW n \in Nat PROVE IsFiniteSet(1 .. n) /\ Cardinality(1 .. n) = n
  OBVIOUS
<1>1. IsFiniteSet(1 .. n) /\ Cardinality(1 .. n) = IF 1 > n THEN 0 ELSE n - 1 + 1
  BY FS_Interval
<1> QED BY <1>1

LEMMA ListLaw ==
  ASSUME NEW m \in Scored, NEW s \in Seq(PairSet), GoodList(s, m)
  PROVE  /\ Len(s) = Cardinality(DOMAIN m)
         /\ \A u \in DOMAIN m : /\ SLocate(s, u) \in DOMAIN s
                                /\ s[SLocate(s, u)] = Pair(u, m[u])
<1>0. Len(s) \in Nat /\ DOMAIN s = 1 .. Len(s) /\ \A k \in 1 .. Len(s) : s[k] \in PairSet
  OBVIOUS
<1>1. Len(s) = Cardinality(DOMAIN m)
  <2> DEFINE n == Len(s)  f == [k \in 1 .. n |-> s[k].id]
  <2>1. f \in Surjection(1 .. n, DOMAIN m)
    BY DEF GoodList, Surjection
  <2>2. f \in Injection(1 .. n, DOMAIN m)
    BY DEF GoodList, Injection, IsInjective
  <2>3. ExistsBijection(1 .. n, DOMAIN m)
    BY <2>1, <2>2 DEF ExistsBijection, Bijection
  <2> HIDE DEF n, f
  <2>4. n \in Nat
    BY <1>0 DEF n
  <2> QED BY <2>3, <2>4, FS_CountingElements DEF n
<1>2. ASSUME NEW u \in DOMAIN m
      PROVE  SLocate(s, u) \in DOMAIN s /\ s[SLocate(s, u)] = Pair(u, m[u])
  <2>1. Has(s, LAMBDA p : p.id = u)
    BY <1>0 DEF GoodList, Has
  <2> DEFINE k == First(s, LAMBDA p : p.id = u)
  <2>2. k \in 1 .. Len(s) /\ s[k].id = u
    BY <2>1, FirstId
  <2>3. SLocate(s, u) = k
    BY <2>1 DEF SLocate
  <2> HIDE DEF k
  <2>4. s[k] \in PairSet /\ s[k].score = m[u]
    BY <1>0, <2>2 DEF GoodList
  <2>5. s[k] = Pair(u, m[u])
    BY <2>2, <2>4 DEF PairSet, Pair
  <2> QED BY <1>0, <2>2, <2>3, <2>5
<1> QED BY <1>1, <1>2

\* The slots that come no later than the i-th of the node x.
Ahead(x, i)   == {x} \X (1 .. i)
Upto(r, x, i) == {p \in Slots(r) : p[1] > x} \cup Ahead(x, i)

LEMMA AheadLaw ==
  ASSUME NEW x, NEW i \in Nat
  PROVE  /\ IsFiniteSet(Ahead(x, i)) /\ Cardinality(Ahead(x, i)) = i
         /\ \A p : p \in Ahead(x, i) <=> \E k \in 1 .. i : p = <<x, k>>
<1> DEFINE S == {x}  T == 1 .. i
<1>1. IsFiniteSet(T) /\ Cardinality(T) = i /\ IsFiniteSet(S) /\ Cardinality(S) = 1
  BY IntervalLaw, FS_Singleton
<1>2. \A p : p \in Ahead(x, i) <=> \E k \in 1 .. i : p = <<x, k>>
  BY DEF Ahead
<1>3. Ahead(x, i) = S \X T
  BY DEF Ahead
<1> HIDE DEF S, T
<1>4. IsFiniteSet(S \X T) /\ Cardinality(S \X T) = 1 * i
  BY <1>1, FS_Product
<1>5. 1 * i = i
  OBVIOUS
<1> QED BY <1>2, <1>3, <1>4, <1>5

LEMMA SlotsLaw ==
  ASSUME NEW r \in [Scores -> Seq(Users)]
  PROVE  /\ IsFiniteSet(Slots(r))
         /\ \A p : p \in Slots(r) <=> \E x \in Scores : \E i \in 1 .. Len(r[x]) : p = <<x, i>>
<1>1. \A x \in Scores : Len(r[x]) \in Nat /\ DOMAIN r[x] = 1 .. Len(r[x])
  OBVIOUS
<1>2. \A p : p \in Slots(r) <=> \E x \in Scores : \E i \in 1 .. Len(r[x]) : p = <<x, i>>
  BY <1>1 DEF Slots
<1>3. IsFiniteSet(Slots(r))
  <2> DEFINE f == [x \in Scores |-> {x} \X DOMAIN r[x]]
             T == {{x} \X DOMAIN r[x] : x \in Scores}
  <2>1. \A x \in Scores : IsFiniteSet({x} \X DOMAIN r[x])
    BY <1>1, IntervalLaw, FS_Singleton, FS_Product
  <2>2. f \in Surjection(Scores, T)
    BY DEF Surjection
  <2>3. IsFiniteSet(T)
    <3> HIDE DEF f, T
    <3> QED BY <2>2, RankSetAssumption, FS_Surjection
  <2>4. \A S \in T : IsFiniteSet(S)
    BY <2>1
  <2>5. IsFiniteSet(UNION T)
    <3> HIDE DEF T
    <3> QED BY <2>3, <2>4, FS_UNION
  <2> QED BY <2>5 DEF Slots
<1> QED BY <1>2, <1>3

LEMMA UptoLaw ==
  ASSUME NEW r \in [Scores -> Seq(Users)], NEW x \in Scores, NEW i \in 1 .. Len(r[x])
  PROVE  /\ Upto(r, x, i) \subseteq Slots(r)
         /\ Place(r, <<x, i>>) = Cardinality(Upto(r, x, i))
         /\ Place(r, <<x, i>>) \in 1 .. Cardinality(Slots(r))
<1> DEFINE H == {p \in Slots(r) : p[1] > x}  B == Ahead(x, i)
<1>0. Len(r[x]) \in Nat /\ i \in Nat /\ i >= 1 /\ x \in Int
  BY RankSetAssumption
<1>1. /\ \A p : p \in B <=> \E k \in 1 .. i : p = <<x, k>>
      /\ IsFiniteSet(B) /\ Cardinality(B) = i
  BY <1>0, AheadLaw
<1> HIDE DEF B
<1>3. B \subseteq Slots(r)
  <2>1. \A k \in 1 .. i : k \in 1 .. Len(r[x])
    BY <1>0
  <2>2. \A k \in 1 .. i : <<x, k>> \in Slots(r)
    BY <2>1, SlotsLaw
  <2> QED BY <1>1, <2>2
<1>2. IsFiniteSet(Slots(r)) /\ IsFiniteSet(H) /\ Cardinality(H) \in Nat
  <2>1. IsFiniteSet(Slots(r)) /\ H \in SUBSET Slots(r)
    BY SlotsLaw
  <2> HIDE DEF H
  <2> QED BY <2>1, FS_Subset, FS_CardinalityType
<1>4. H \cap B = {}
  <2>1. \A p \in B : p[1] = x
    BY <1>1
  <2> QED BY <1>0, <2>1
<1>5. Upto(r, x, i) = H \cup B
  BY DEF Upto, B
<1>6. Place(r, <<x, i>>) = Cardinality(H) + i
  BY DEF Place
<1> HIDE DEF H, B
<1>7. Cardinality(H \cup B) = Cardinality(H) + i
  <2>1. Cardinality(H \cup B) = Cardinality(H) + i - Cardinality(H \cap B)
    BY <1>1, <1>2, FS_Union
  <2>2. Cardinality(H \cap B) = 0
    BY <1>4, FS_EmptySet
  <2> QED BY <1>0, <1>2, <2>1, <2>2
<1>8. H \cup B \in SUBSET Slots(r)
  BY <1>3 DEF H
<1>9. Cardinality(H \cup B) <= Cardinality(Slots(r)) /\ Cardinality(Slots(r)) \in Nat
  BY <1>2, <1>8, FS_Subset, FS_CardinalityType
<1> QED BY <1>0, <1>2, <1>5, <1>6, <1>7, <1>8, <1>9

\* A higher score, or an earlier place in the node of the same score, comes
\* first.
LEMMA PlaceOrder ==
  ASSUME NEW r \in [Scores -> Seq(Users)],
         NEW x \in Scores, NEW i \in 1 .. Len(r[x]),
         NEW y \in Scores, NEW j \in 1 .. Len(r[y]),
         x > y \/ (x = y /\ i < j)
  PROVE  Place(r, <<x, i>>) < Place(r, <<y, j>>)
<1>0. x \in Int /\ y \in Int /\ i \in Nat /\ j \in Nat /\ \A v \in Scores : v \in Int
  BY RankSetAssumption
<1> DEFINE U == Upto(r, x, i)  V == Upto(r, y, j)
<1>u. \A v \in Scores, a \in Nat : \A p :
         p \in Upto(r, v, a) <=> \/ p \in Slots(r) /\ p[1] > v
                               \/ \E k \in 1 .. a : p = <<v, k>>
  BY AheadLaw DEF Upto
<1>1. <<y, j>> \in V /\ <<y, j>> \notin U
  <2>1. j \in 1 .. j /\ <<y, j>> \in V
    BY <1>0, <1>u
  <2>2. ~(y > x) /\ ~ \E k \in 1 .. i : <<y, j>> = <<x, k>>
    BY <1>0
  <2> QED BY <1>0, <1>u, <2>1, <2>2
<1>2. U \subseteq V
  <2> SUFFICES ASSUME NEW p \in U PROVE p \in V
    OBVIOUS
  <2>1. PICK v \in Scores, k \in Nat : p = <<v, k>> /\ k \in 1 .. Len(r[v])
    <3>1. p \in Slots(r)
      BY UptoLaw
    <3> QED BY <3>1, SlotsLaw
  <2>2. CASE v > x
    <3>1. v > y /\ p \in Slots(r)
      <4>1. p \in Slots(r)
        BY UptoLaw
      <4> QED BY <1>0, <2>2, <4>1
    <3> QED BY <1>0, <1>u, <2>1, <3>1
  <2>3. CASE ~(v > x)
    <3>1. v = x /\ k \in 1 .. i
      BY <1>0, <1>u, <2>1, <2>3
    <3>2. p \in Slots(r)
      BY UptoLaw
    <3>3. CASE x > y
      BY <1>0, <1>u, <2>1, <3>1, <3>2, <3>3
    <3>4. CASE x = y /\ i < j
      BY <1>0, <1>u, <2>1, <3>1, <3>4
    <3> QED BY <3>3, <3>4
  <2> QED BY <2>2, <2>3
<1>3. V \in SUBSET Slots(r) /\ IsFiniteSet(Slots(r))
  BY UptoLaw, SlotsLaw
<1>4. Place(r, <<x, i>>) = Cardinality(U) /\ Place(r, <<y, j>>) = Cardinality(V)
  BY UptoLaw
<1> HIDE DEF U, V
<1>5. IsFiniteSet(V) /\ IsFiniteSet(U)
  BY <1>2, <1>3, FS_Subset
<1>6. Cardinality(U) <= Cardinality(V) /\ (Cardinality(V) = Cardinality(U) => U = V)
  BY <1>2, <1>5, FS_Subset
<1>7. Cardinality(U) \in Nat /\ Cardinality(V) \in Nat
  BY <1>5, FS_CardinalityType
<1> QED BY <1>1, <1>4, <1>6, <1>7

LEMMA PlaceLaw ==
  ASSUME NEW r \in [Scores -> Seq(Users)]
  PROVE  /\ Cardinality(Slots(r)) \in Nat
         /\ \A p \in Slots(r) : Place(r, p) \in 1 .. Cardinality(Slots(r))
         /\ \A p, q \in Slots(r) : Place(r, p) = Place(r, q) => p = q
         /\ \A k \in 1 .. Cardinality(Slots(r)) : \E p \in Slots(r) : Place(r, p) = k
<1> DEFINE n == Cardinality(Slots(r))  f == [p \in Slots(r) |-> Place(r, p)]
<1>1. IsFiniteSet(Slots(r)) /\ n \in Nat
  BY SlotsLaw, FS_CardinalityType
<1>2. ASSUME NEW p \in Slots(r) PROVE Place(r, p) \in 1 .. n
  <2>1a. PICK x \in Scores : \E i \in 1 .. Len(r[x]) : p = <<x, i>>
    BY SlotsLaw
  <2>1. PICK i \in 1 .. Len(r[x]) : p = <<x, i>>
    BY <2>1a
  <2> QED BY <2>1, UptoLaw
<1>3. ASSUME NEW p \in Slots(r), NEW q \in Slots(r), Place(r, p) = Place(r, q)
      PROVE  p = q
  <2>1a. PICK x \in Scores : \E i \in 1 .. Len(r[x]) : p = <<x, i>>
    BY SlotsLaw
  <2>1. PICK i \in 1 .. Len(r[x]) : p = <<x, i>>
    BY <2>1a
  <2>2a. PICK y \in Scores : \E j \in 1 .. Len(r[y]) : q = <<y, j>>
    BY SlotsLaw
  <2>2. PICK j \in 1 .. Len(r[y]) : q = <<y, j>>
    BY <2>2a
  <2>3. x \in Int /\ y \in Int
    BY RankSetAssumption
  <2>4. Place(r, p) \in Int
    BY <1>1, <1>2
  <2>5. ~(x > y) /\ ~(y > x)
    BY <1>3, <2>1, <2>2, <2>4, PlaceOrder
  <2>6. x = y
    BY <2>3, <2>5
  <2>7. ~(i < j) /\ ~(j < i)
    BY <1>3, <2>1, <2>2, <2>4, <2>6, PlaceOrder
  <2>8. i \in Int /\ j \in Int
    OBVIOUS
  <2>9. i = j
    BY <2>7, <2>8
  <2> QED BY <2>1, <2>2, <2>6, <2>9
<1>4. f \in Injection(Slots(r), 1 .. n)
  BY <1>2, <1>3 DEF Injection, IsInjective
<1>5. f \in Surjection(Slots(r), 1 .. n)
  <2>1. IsFiniteSet(1 .. n) /\ Cardinality(1 .. n) = n
    BY <1>1, IntervalLaw
  <2> HIDE DEF f
  <2> QED BY <1>4, <2>1, FS_Injection
<1>6. \A k \in 1 .. n : \E p \in Slots(r) : Place(r, p) = k
  BY <1>5 DEF Surjection
<1> QED BY <1>1, <1>2, <1>3, <1>6

\* The list has at each rank the pair of the slot with this place.
LEMMA TreePairsLaw ==
  ASSUME NEW m \in Scored, NEW r, GoodTree(r, m)
  PROVE  /\ r \in [Scores -> Seq(Users)] /\ TreePairs(r) \in Seq(PairSet)
         /\ Len(TreePairs(r)) = Cardinality(Slots(r))
         /\ \A p \in Slots(r) :
               TreePairs(r)[Place(r, p)] = Pair(r[p[1]][p[2]], p[1])
<1> DEFINE n == Cardinality(Slots(r))
           At(k) == CHOOSE p \in Slots(r) : Place(r, p) = k
           list == [k \in 1 .. n |-> Pair(r[At(k)[1]][At(k)[2]], At(k)[1])]
<1>0. r \in [Scores -> Seq(Users)]
  BY DEF GoodTree
<1>1. n \in Nat /\ \A p \in Slots(r) : Place(r, p) \in 1 .. n
  BY <1>0, PlaceLaw
<1>2. \A k \in 1 .. n : At(k) \in Slots(r) /\ Place(r, At(k)) = k
  BY <1>0, PlaceLaw
<1>3. \A p \in Slots(r) : At(Place(r, p)) = p
  BY <1>0, <1>1, <1>2, PlaceLaw
<1>4. \A p \in Slots(r) : Pair(r[p[1]][p[2]], p[1]) \in PairSet
  <2> SUFFICES ASSUME NEW p \in Slots(r) PROVE Pair(r[p[1]][p[2]], p[1]) \in PairSet
    OBVIOUS
  <2>1. PICK x \in Scores : \E i \in 1 .. Len(r[x]) : p = <<x, i>>
    BY <1>0, SlotsLaw
  <2>2. PICK i \in 1 .. Len(r[x]) : p = <<x, i>>
    BY <2>1
  <2>3. r[x][i] \in Users
    BY <1>0
  <2> QED BY <2>2, <2>3, RankSetAssumption DEF Pair, PairSet
<1>5. TreePairs(r) = list
  BY DEF TreePairs
<1> HIDE DEF n, At
<1>6. list \in [1 .. n -> PairSet]
  BY <1>2, <1>4
<1>7. \A p \in Slots(r) : list[Place(r, p)] = Pair(r[p[1]][p[2]], p[1])
  BY <1>1, <1>3
<1> HIDE DEF list
<1>8. list \in Seq(PairSet) /\ Len(list) = n
  BY <1>1, <1>6
<1> QED BY <1>0, <1>5, <1>7, <1>8 DEF n

LEMMA TreeListLaw ==
  ASSUME NEW m \in Scored, NEW r, GoodTree(r, m)
  PROVE  /\ Len(TreePairs(r)) = Cardinality(DOMAIN m)
         /\ \A u \in DOMAIN m :
               /\ RLocate(r, u, m[u]) \in DOMAIN TreePairs(r)
               /\ TreePairs(r)[RLocate(r, u, m[u])] = Pair(u, m[u])
<1>0. /\ r \in [Scores -> Seq(Users)] /\ TreePairs(r) \in Seq(PairSet)
      /\ \A x \in Scores : Lists(r[x], ScoredBy(m, x))
      /\ \A u \in DOMAIN m : m[u] \in Scores
  BY TreePairsLaw DEF GoodTree, Scored
<1>s. \A x \in Scores : \A i \in 1 .. Len(r[x]) : <<x, i>> \in Slots(r)
  BY <1>0, SlotsLaw
<1>1. Cardinality(Slots(r)) = Cardinality(DOMAIN m)
  <2> DEFINE f == [p \in Slots(r) |-> r[p[1]][p[2]]]
  <2>1. ASSUME NEW p \in Slots(r)
        PROVE  /\ p[1] \in Scores /\ p[2] \in 1 .. Len(r[p[1]]) /\ p = <<p[1], p[2]>>
               /\ f[p] \in DOMAIN m /\ m[f[p]] = p[1]
    <3>1. PICK x \in Scores : \E i \in 1 .. Len(r[x]) : p = <<x, i>>
      BY <1>0, SlotsLaw
    <3>2. PICK i \in 1 .. Len(r[x]) : p = <<x, i>>
      BY <3>1
    <3>3. r[x][i] \in ScoredBy(m, x)
      BY <1>0 DEF Lists
    <3> QED BY <3>2, <3>3 DEF ScoredBy
  <2>2. f \in [Slots(r) -> DOMAIN m]
    BY <2>1
  <2>3. ASSUME NEW p \in Slots(r), NEW q \in Slots(r), f[p] = f[q]
        PROVE  p = q
    <3>1. p[1] = q[1]
      BY <2>1, <2>3
    <3>2. r[p[1]][p[2]] = r[p[1]][q[2]] /\ q[2] \in 1 .. Len(r[p[1]])
      BY <2>1, <2>3, <3>1
    <3>3. p[2] = q[2]
      BY <1>0, <2>1, <3>2 DEF Lists
    <3> QED BY <2>1, <3>1, <3>3
  <2>4. ASSUME NEW u \in DOMAIN m PROVE \E p \in Slots(r) : f[p] = u
    <3>1. u \in ScoredBy(m, m[u]) /\ m[u] \in Scores
      BY <1>0 DEF ScoredBy
    <3>2. PICK i \in 1 .. Len(r[m[u]]) : r[m[u]][i] = u
      BY <1>0, <3>1 DEF Lists
    <3>3. <<m[u], i>> \in Slots(r)
      BY <1>s, <3>1
    <3> QED BY <3>2, <3>3
  <2> HIDE DEF f
  <2>5. f \in Bijection(Slots(r), DOMAIN m)
    BY <2>2, <2>3, <2>4 DEF Bijection, Injection, Surjection, IsInjective
  <2>6. IsFiniteSet(Slots(r)) /\ ExistsBijection(Slots(r), DOMAIN m)
    BY <1>0, <2>5, SlotsLaw DEF ExistsBijection
  <2> QED BY <2>6, FS_Bijection
<1>2. ASSUME NEW u \in DOMAIN m
      PROVE  /\ RLocate(r, u, m[u]) \in DOMAIN TreePairs(r)
             /\ TreePairs(r)[RLocate(r, u, m[u])] = Pair(u, m[u])
  <2> DEFINE x == m[u]  k == First(r[x], LAMBDA v : v = u)
  <2>1. Located(r, u, x) /\ x \in Scores
    BY <1>0, LocatedLaw
  <2>2. k \in 1 .. Len(r[x]) /\ r[x][k] = u
    BY <1>0, <2>1, FirstUser DEF Located
  <2>3. RLocate(r, u, x) = Place(r, <<x, k>>)
    BY <2>1 DEF RLocate
  <2> HIDE DEF x, k
  <2>4. <<x, k>> \in Slots(r)
    BY <1>s, <2>1, <2>2
  <2>5. TreePairs(r)[Place(r, <<x, k>>)] = Pair(u, x)
    BY <2>2, <2>4, TreePairsLaw
  <2>6. Place(r, <<x, k>>) \in DOMAIN TreePairs(r)
    <3>1. Place(r, <<x, k>>) \in 1 .. Len(TreePairs(r))
      BY <1>0, <2>4, PlaceLaw, TreePairsLaw
    <3> QED BY <1>0, <3>1
  <2> QED BY <2>3, <2>5, <2>6 DEF x
<1> QED BY <1>1, <1>2, TreePairsLaw

LEMMA TreeDescends ==
  ASSUME NEW m \in Scored, NEW r, GoodTree(r, m)
  PROVE  Descending(TreePairs(r))
<1> DEFINE list == TreePairs(r)  n == Cardinality(Slots(r))
<1>0. /\ r \in [Scores -> Seq(Users)] /\ list \in Seq(PairSet) /\ n \in Nat
      /\ DOMAIN list = 1 .. n
      /\ \A p \in Slots(r) : list[Place(r, p)] = Pair(r[p[1]][p[2]], p[1])
  <2>1. /\ r \in [Scores -> Seq(Users)] /\ list \in Seq(PairSet) /\ Len(list) = n
        /\ \A p \in Slots(r) : list[Place(r, p)] = Pair(r[p[1]][p[2]], p[1])
    BY TreePairsLaw
  <2> HIDE DEF list, n
  <2>2. DOMAIN list = 1 .. n
    BY <2>1
  <2>3. n \in Nat
    BY <2>1
  <2> QED BY <2>1, <2>2, <2>3
<1> HIDE DEF list
<1> SUFFICES ASSUME NEW a \in 1 .. n, NEW b \in 1 .. a - 1
             PROVE  list[b].score >= list[a].score
  BY <1>0 DEF Descending, list
<1>1. b \in 1 .. n /\ b < a
  BY <1>0
<1>2. PICK p \in Slots(r) : Place(r, p) = a
  BY <1>0, PlaceLaw
<1>3. PICK q \in Slots(r) : Place(r, q) = b
  BY <1>0, <1>1, PlaceLaw
<1>4. PICK x \in Scores : \E i \in 1 .. Len(r[x]) : p = <<x, i>>
  BY <1>0, SlotsLaw
<1>5. PICK i \in 1 .. Len(r[x]) : p = <<x, i>>
  BY <1>4
<1>6. PICK y \in Scores : \E j \in 1 .. Len(r[y]) : q = <<y, j>>
  BY <1>0, SlotsLaw
<1>7. PICK j \in 1 .. Len(r[y]) : q = <<y, j>>
  BY <1>6
<1>8. list[a].score = x /\ list[b].score = y
  <2>1. list[a] = Pair(r[p[1]][p[2]], p[1]) /\ list[b] = Pair(r[q[1]][q[2]], q[1])
    BY <1>0, <1>2, <1>3
  <2>2. p[1] = x /\ q[1] = y
    BY <1>5, <1>7
  <2> QED BY <2>1, <2>2 DEF Pair
<1>9. ~(x > y)
  <2> SUFFICES ASSUME x > y PROVE FALSE
    OBVIOUS
  <2>1. Place(r, <<x, i>>) < Place(r, <<y, j>>)
    BY <1>0, PlaceOrder
  <2> QED BY <1>0, <1>1, <1>2, <1>3, <1>5, <1>7, <2>1
<1> QED BY <1>8, <1>9, RankSetAssumption

-----------------------------------------------------------------------------
(* The parts of the state, as far as persistence looks at them. *)

CallType == [pc : {"idle", "found", "changed"}, set : SetIds,
             op : {"RankChange", "DeleteUser"}, user : Users, orphan : BOOLEAN]
DumpType == [pc : {"select", "dump"}, todo : SUBSET SetIds,
             image : [SetIds -> Scored \cup {Missing}]]

\* Whatever a set has been through, its storage holds the users of M: the list
\* until it is filled from a tree, in the order of the scores as long as they
\* rose only, and the tree always.
SetShape(rs) ==
    /\ rs \in RankSets
    /\ rs.Type = "SORTED_SET" =>
          /\ rs.R = NoTree
          /\ ~rs.swapped => /\ GoodList(rs.S, rs.M)
                            /\ ~rs.lowered => Descending(rs.S)
    /\ rs.Type = "RBTREE" => rs.S = <<>> /\ GoodTree(rs.R, rs.M)

\* A set that is kept has scores for some of the users; when the process is
\* down it keeps nothing.
RanksShape ==
    /\ DOMAIN ranks = SetIds
    /\ ranks = [k \in SetIds |-> ranks[k]]
    /\ \A k \in SetIds : Alive(k) => SetShape(ranks[k])

\* A call that has found a set still has it, unless DeleteSet took it out.
Held == \A c \in Calls :
    call[c].pc = "found" /\ ~call[c].orphan => SetShape(ranks[call[c].set])

Shape ==
    /\ up \in BOOLEAN /\ RanksShape /\ Held
    /\ call \in [Calls -> CallType]
    /\ pending \in Seq(SetIds) /\ Len(pending) <= CHANGES_SIZE
    /\ changes \subseteq SetIds /\ unqueued \subseteq SetIds
    /\ dump \in DumpType /\ dump.todo \subseteq changes
    /\ disk \in [SetIds -> Scored \cup {Missing}]
    /\ ~up => dump.pc = "select" /\ \A c \in Calls : call[c].pc = "idle"

\* The id of k is on its way in a call.
InCall(k) == \E c \in Calls : call[c].pc # "idle" /\ call[c].set = k
                              /\ call[c].op = "RankChange"
OnItsWay(k) == k \in unqueued \/ Contains(pending, k) \/ InCall(k)

Recorded == up => \A k \in SetIds :
    Live(k) # disk[k] => k \in changes \/ OnItsWay(k)
Imaged == up /\ dump.pc # "select" => \A k \in SetIds :
    Live(k) # dump.image[k] => k \in dump.todo \/ OnItsWay(k)

RecInv == Shape /\ Recorded /\ Imaged

-----------------------------------------------------------------------------
(* What the operations on a set do to the scores it keeps. *)

LEMMA ScoredLaws ==
  /\ <<>> \in Scored
  /\ \A m \in Scored, u \in Users, x \in Scores :
        [v \in DOMAIN m \cup {u} |-> IF v = u THEN x ELSE m[v]] \in Scored
  /\ \A m \in Scored, u \in Users : [v \in DOMAIN m \ {u} |-> m[v]] \in Scored
<1>1. <<>> \in Scored
  <2>1. <<>> \in [{} -> Scores]
    OBVIOUS
  <2> QED BY <2>1 DEF Scored
<1>2. \A m : m \in Scored <=> \E D \in SUBSET Users : m \in [D -> Scores]
  BY DEF Scored
<1>3. ASSUME NEW m \in Scored, NEW u \in Users, NEW x \in Scores
      PROVE  [v \in DOMAIN m \cup {u} |-> IF v = u THEN x ELSE m[v]] \in Scored
  <2>1. PICK D \in SUBSET Users : m \in [D -> Scores]
    BY <1>2
  <2>2. [v \in DOMAIN m \cup {u} |-> IF v = u THEN x ELSE m[v]]
           \in [D \cup {u} -> Scores]
    BY <2>1
  <2> QED BY <1>2, <2>2
<1>4. ASSUME NEW m \in Scored, NEW u \in Users
      PROVE  [v \in DOMAIN m \ {u} |-> m[v]] \in Scored
  <2>1. PICK D \in SUBSET Users : m \in [D -> Scores]
    BY <1>2
  <2>2. [v \in DOMAIN m \ {u} |-> m[v]] \in [D \ {u} -> Scores]
    BY <2>1
  <2> QED BY <1>2, <2>2
<1> QED BY <1>1, <1>3, <1>4

LEMMA ScoredTyped ==
  ASSUME NEW m \in Scored
  PROVE  \A u \in DOMAIN m : /\ u \in Users /\ m[u] \in Scores
                             /\ u \in Int /\ m[u] \in Int
<1>1. \A u \in DOMAIN m : u \in Users /\ m[u] \in Scores
  BY DEF Scored
<1> QED BY <1>1, RankSetAssumption

LEMMA SetFields ==
  ASSUME NEW rs, rs \in RankSets
  PROVE  /\ DOMAIN rs = {"M", "S", "R", "Type", "lowered", "swapped"}
         /\ rs.M \in Scored /\ rs.S \in Seq(PairSet) /\ rs.R \in [Scores -> Seq(Users)]
         /\ rs.Type = "SORTED_SET" \/ rs.Type = "RBTREE"
         /\ rs.lowered \in BOOLEAN /\ rs.swapped \in BOOLEAN
  BY DEF RankSets, PairSet

LEMMA FieldsSet ==
  ASSUME NEW m \in Scored, NEW s \in Seq(PairSet), NEW r \in [Scores -> Seq(Users)],
         NEW type \in {"SORTED_SET", "RBTREE"}, NEW low \in BOOLEAN, NEW sw \in BOOLEAN
  PROVE  [M |-> m, S |-> s, R |-> r, Type |-> type, lowered |-> low, swapped |-> sw]
            \in RankSets
  BY DEF RankSets, PairSet

LEMMA EmptyLaws ==
  /\ <<>> \in Seq(PairSet) /\ GoodList(<<>>, <<>>) /\ Descending(<<>>)
  /\ NoTree \in [Scores -> Seq(Users)]
  BY DEF GoodList, Descending, NoTree

LEMMA NewShape == SetShape(NewRankSet) /\ NewRankSet.M = <<>>
<1>1. NewRankSet \in RankSets
  BY EmptyLaws, ScoredLaws, FieldsSet DEF NewRankSet
<1> QED BY <1>1, EmptyLaws DEF SetShape, NewRankSet

LEMMA ToggleShape ==
  ASSUME NEW rs, SetShape(rs), NEW x \in toggle(rs)
  PROVE  SetShape(x)
<1>0. rs \in RankSets
  BY DEF SetShape
<1>1. CASE rs.Type = "SORTED_SET"
  <2>1. PICK r \in Treed(rs.M) :
           x = [rs EXCEPT !.R = r, !.S = <<>>, !.Type = "RBTREE",
                          !.lowered = FALSE, !.swapped = FALSE]
    BY <1>1 DEF toggle
  <2>2. GoodTree(r, rs.M) /\ r \in [Scores -> Seq(Users)]
    BY <1>0, SetFields, TreedLaw DEF GoodTree
  <2>3. /\ x.M = rs.M /\ x.S = <<>> /\ x.R = r /\ x.Type = "RBTREE"
        /\ x.lowered = FALSE /\ x.swapped = FALSE
    BY <1>0, <2>1, SetFields
  <2>4. x \in RankSets
    BY <1>0, <2>1, <2>2, EmptyLaws DEF RankSets, PairSet
  <2> QED BY <2>2, <2>3, <2>4 DEF SetShape
<1>2. CASE rs.Type = "RBTREE"
  <2>1. PICK s \in Swapped(rs.S, rs.M) :
           x = [rs EXCEPT !.S = s, !.R = NoTree, !.Type = "SORTED_SET",
                          !.swapped = rs.M # <<>>]
    BY <1>2 DEF toggle
  <2>2. s \in Seq(PairSet) /\ (rs.M = <<>> => s = <<>>)
    BY <1>0, <1>2, SetFields, SwappedLaw DEF SetShape
  <2>3. /\ x.M = rs.M /\ x.S = s /\ x.R = NoTree /\ x.Type = "SORTED_SET"
        /\ x.swapped = (rs.M # <<>>)
    BY <1>0, <2>1, SetFields
  <2>4. x \in RankSets
    BY <1>0, <2>1, <2>2, EmptyLaws DEF RankSets, PairSet
  <2> QED BY <2>2, <2>3, <2>4, EmptyLaws DEF SetShape
<1> QED BY <1>0, <1>1, <1>2, SetFields

LEMMA UpdatedShape ==
  ASSUME NEW rs, SetShape(rs), NEW u \in Users, NEW x \in Scores
  PROVE  SetShape(Updated(rs, u, x))
<1> DEFINE m == rs.M  s == rs.S  r == rs.R  w == With(m, u, x)  t == Updated(rs, u, x)
<1>0. rs \in RankSets /\ m \in Scored /\ s \in Seq(PairSet)
      /\ r \in [Scores -> Seq(Users)]
  BY SetFields DEF SetShape
<1>1. u \in Int /\ x \in Int /\ w \in Scored
  BY <1>0, RankSetAssumption, ScoredLaws DEF With
<1>2. CASE rs.Type = "SORTED_SET"
  <2> DEFINE q == IF u \in DOMAIN m THEN SUpdate(s, u, x) ELSE SInsert(s, u, x)
             low == rs.lowered \/ (u \in DOMAIN m /\ x <= m[u])
  <2>1. t = [rs EXCEPT !.M = w, !.S = q, !.lowered = low]
    BY <1>2 DEF Updated, With
  <2>2. q \in Seq(PairSet)
    BY <1>0, <1>1, SUpdateLaw, SInsertLaw
  <2>3. low \in BOOLEAN /\ rs.swapped \in BOOLEAN
    BY <1>0, SetFields
  <2>4. /\ t \in RankSets
        /\ t.M = w /\ t.S = q /\ t.R = r /\ t.Type = rs.Type
        /\ t.lowered = low /\ t.swapped = rs.swapped
    <3> HIDE DEF q, low, w, t
    <3>1. t \in RankSets
      BY <1>0, <1>1, <2>1, <2>2, <2>3 DEF RankSets, PairSet
    <3> QED BY <1>0, <2>1, <3>1, SetFields
  <2>5. ASSUME ~rs.swapped, u \in DOMAIN m
        PROVE  GoodList(q, w) /\ (~low => Descending(q))
    <3>1. GoodList(s, m) /\ (~rs.lowered => Descending(s))
      BY <1>2, <2>5 DEF SetShape
    <3>2. GoodList(q, w)
      BY <1>0, <1>1, <2>5, <3>1, UpdatedList
    <3>3. ASSUME ~low PROVE Descending(q)
      <4>1. x > m[u] /\ Descending(s)
        <5>1. m[u] \in Int
          <6> HIDE DEF m
          <6> QED BY <1>0, <2>5, ScoredTyped
        <5> QED BY <1>1, <2>5, <3>1, <3>3, <5>1
      <4>2. PICK l \in 1 .. Len(s) : s[l].id = u
        BY <2>5, <3>1 DEF GoodList
      <4>3. /\ ~ \A k \in 1 .. Len(s) : s[k].id # u
            /\ s \in Seq(PairSet)
        BY <1>0, <4>2
      <4> HIDE DEF s
      <4>4. PICK k \in 1 .. Len(s), i \in 1 .. Len(s), v \in Seq(PairSet) :
                  /\ s[k].id = u /\ IsRemoved(v, s, k)
                  /\ IsInserted(SUpdate(s, u, x), v, i, Pair(u, x))
                  /\ (\E j \in 1 .. Len(s) : x > s[j].score) =>
                        /\ x > s[i].score
                        /\ \A j \in 1 .. i - 1 : ~(x > s[j].score)
        BY <1>1, <4>3, SUpdateLaw
      <4>5. x > s[k].score
        BY <3>1, <4>1, <4>4 DEF GoodList
      <4>6. SUpdate(s, u, x) \in Seq(PairSet)
        BY <1>0, <1>1, SUpdateLaw
      <4>7. Descending(SUpdate(s, u, x))
        BY <1>0, <1>1, <4>1, <4>4, <4>5, <4>6, DescendingUpdated
      <4> QED BY <2>5, <4>7
    <3> QED BY <3>2, <3>3
  <2>6. ASSUME ~rs.swapped, u \notin DOMAIN m
        PROVE  GoodList(q, w) /\ (~low => Descending(q))
    <3>1. GoodList(s, m) /\ (~rs.lowered => Descending(s))
      BY <1>2, <2>6 DEF SetShape
    <3>2. q = SInsert(s, u, x) /\ (~low => ~rs.lowered)
      BY <2>6
    <3>3. PICK i \in Nat : /\ IsInserted(q, s, i, Pair(u, x))
                           /\ \A j \in 1 .. i - 1 : ~(x > s[j].score)
                           /\ i \in 1 .. Len(s) => x > s[i].score
      BY <1>0, <1>1, <3>2, SInsertLaw
    <3> HIDE DEF q, low
    <3>4. GoodList(q, w)
      BY <1>0, <1>1, <2>2, <2>6, <3>1, <3>3, InsertedList
    <3>5. Descending(s) => Descending(q)
      BY <1>0, <1>1, <2>2, <3>3, DescendingInserted
    <3> QED BY <3>1, <3>2, <3>4, <3>5
  <2>7. r = NoTree
    BY <1>2 DEF SetShape
  <2> HIDE DEF q, low, w
  <2>8. /\ t.M = w /\ t.S = q /\ t.R = NoTree /\ t.Type = "SORTED_SET"
        /\ t.lowered = low /\ t.swapped = rs.swapped
    BY <1>2, <2>4, <2>7
  <2> HIDE DEF t
  <2>9. SetShape(t)
    BY <2>4, <2>5, <2>6, <2>8 DEF SetShape
  <2> QED BY <2>9 DEF t
<1>3. CASE rs.Type = "RBTREE"
  <2> DEFINE q == RInsert(IF u \in DOMAIN m THEN RDelete(r, u, m[u]) ELSE r, u, x)
  <2>1. t = [rs EXCEPT !.M = w, !.R = q]
    BY <1>3 DEF Updated, With
  <2>2. GoodTree(r, m) /\ s = <<>>
    BY <1>3 DEF SetShape
  <2>3. GoodTree(q, w)
    BY <1>0, <2>2, InsertedTree, UpdatedTree
  <2> HIDE DEF q, w
  <2>4. q \in [Scores -> Seq(Users)]
    BY <2>3 DEF GoodTree
  <2>5. /\ t \in RankSets
        /\ t.M = w /\ t.S = <<>> /\ t.R = q /\ t.Type = "RBTREE"
    <3> HIDE DEF t
    <3>1. t \in RankSets
      BY <1>0, <1>1, <2>1, <2>4 DEF RankSets
    <3> QED BY <1>0, <1>3, <2>1, <2>2, <3>1, SetFields
  <2> HIDE DEF t
  <2>9. SetShape(t)
    BY <2>3, <2>5 DEF SetShape
  <2> QED BY <2>9 DEF t
<1> QED BY <1>0, <1>2, <1>3, SetFields

LEMMA DeletedShape ==
  ASSUME NEW rs, SetShape(rs), NEW u \in Users, ~Panics(rs, u)
  PROVE  SetShape(Deleted(rs, u))
<1> DEFINE m == rs.M  s == rs.S  r == rs.R  w == Less(m, u)  t == Deleted(rs, u)
<1>0. rs \in RankSets /\ m \in Scored /\ s \in Seq(PairSet)
      /\ r \in [Scores -> Seq(Users)]
      /\ rs.lowered \in BOOLEAN /\ rs.swapped \in BOOLEAN
  BY SetFields DEF SetShape
<1>1. w \in Scored
  BY <1>0, ScoredLaws DEF Less
<1>2. CASE rs.Type = "SORTED_SET"
  <2> DEFINE q == SDelete(s, u)
  <2>1. t = [rs EXCEPT !.M = w, !.S = q]
    BY <1>0, <1>2, SetFields DEF Deleted, Less
  <2>2. /\ q \in Seq(PairSet)
        /\ \/ (\A k \in 1 .. Len(s) : s[k].id # u) /\ q = s
           \/ \E i \in 1 .. Len(s) : s[i].id = u /\ IsRemoved(q, s, i)
    BY <1>0, SDeleteLaw
  <2>3. r = NoTree
    BY <1>2 DEF SetShape
  <2> HIDE DEF q
  <2>4. /\ t \in RankSets
        /\ t.M = w /\ t.S = q /\ t.R = r /\ t.Type = rs.Type
        /\ t.lowered = rs.lowered /\ t.swapped = rs.swapped
    <3> HIDE DEF w, t
    <3>1. t \in RankSets
      BY <1>0, <1>1, <2>1, <2>2 DEF RankSets, PairSet
    <3> QED BY <1>0, <2>1, <3>1, SetFields
  <2>5. ASSUME ~rs.swapped
        PROVE  GoodList(q, w) /\ (~rs.lowered => Descending(q))
    <3>1. GoodList(s, m) /\ (~rs.lowered => Descending(s))
      BY <1>2, <2>5 DEF SetShape
    <3>2. CASE (\A k \in 1 .. Len(s) : s[k].id # u) /\ q = s
      <4>1. u \notin DOMAIN m
        BY <3>1, <3>2 DEF GoodList
      <4>2. w = m
        <5>1. m = [v \in DOMAIN m |-> m[v]]
          BY <1>0 DEF Scored
        <5> QED BY <4>1, <5>1 DEF Less
      <4> QED BY <3>1, <3>2, <4>2
    <3>3. CASE \E i \in 1 .. Len(s) : s[i].id = u /\ IsRemoved(q, s, i)
      <4>1. PICK i \in 1 .. Len(s) : s[i].id = u /\ IsRemoved(q, s, i)
        BY <3>3
      <4>2. GoodList(q, w)
        BY <1>0, <2>2, <3>1, <4>1, RemovedList
      <4>3. Descending(s) => Descending(q)
        BY <1>0, <2>2, <4>1, DescendingRemoved
      <4> QED BY <3>1, <4>2, <4>3
    <3> QED BY <2>2, <3>2, <3>3
  <2> HIDE DEF w
  <2>6. /\ t.M = w /\ t.S = q /\ t.R = NoTree /\ t.Type = "SORTED_SET"
        /\ t.lowered = rs.lowered /\ t.swapped = rs.swapped
    BY <1>2, <2>3, <2>4
  <2> HIDE DEF t
  <2>9. SetShape(t)
    BY <2>4, <2>5, <2>6 DEF SetShape
  <2> QED BY <2>9 DEF t
<1>3. CASE rs.Type = "RBTREE"
  <2>1. GoodTree(r, m) /\ s = <<>>
    BY <1>3 DEF SetShape
  <2>2. u \in DOMAIN m /\ Score(rs, u) = m[u]
    BY <1>0, <1>3, <2>1, LocatedLaw DEF Panics
  <2> DEFINE q == RDelete(r, u, m[u])
  <2>3. t = [rs EXCEPT !.M = w, !.R = q]
    BY <1>0, <1>3, <2>2, SetFields DEF Deleted, Less
  <2>4. GoodTree(q, w)
    BY <1>0, <2>1, <2>2, DeletedTree
  <2> HIDE DEF q, w
  <2>5. q \in [Scores -> Seq(Users)]
    BY <2>4 DEF GoodTree
  <2>6. /\ t \in RankSets
        /\ t.M = w /\ t.S = <<>> /\ t.R = q /\ t.Type = "RBTREE"
    <3> HIDE DEF t
    <3>1. t \in RankSets
      BY <1>0, <1>1, <2>3, <2>5 DEF RankSets
    <3> QED BY <1>0, <1>3, <2>1, <2>3, <3>1, SetFields
  <2> HIDE DEF t
  <2>9. SetShape(t)
    BY <2>4, <2>6 DEF SetShape
  <2> QED BY <2>9 DEF t
<1> QED BY <1>0, <1>2, <1>3, SetFields

LEMMA ChangedShape ==
  ASSUME NEW c \in Calls, call[c] \in CallType, NEW rs, SetShape(rs),
         call[c].op = "DeleteUser" => \A y \in Shrunk(rs) : ~Panics(y, call[c].user),
         NEW score \in Scores, NEW x \in Changed(c, rs, score)
  PROVE  SetShape(x)
<1>1. call[c].user \in Users /\ call[c].op \in {"RankChange", "DeleteUser"}
  BY DEF CallType
<1>2. CASE call[c].op = "RankChange"
  <2>1. PICK y : x = Updated(y, call[c].user, score) /\ (y = rs \/ y \in toggle(rs))
    BY <1>2 DEF Changed, Update
  <2> QED BY <1>1, <2>1, ToggleShape, UpdatedShape
<1>3. CASE call[c].op = "DeleteUser"
  <2>1. PICK y \in Shrunk(rs) : x = Deleted(y, call[c].user)
    BY <1>3 DEF Changed
  <2>2. y = rs \/ y \in toggle(rs)
    BY DEF Shrunk
  <2>3. SetShape(y) /\ ~Panics(y, call[c].user)
    BY <1>3, <2>2, ToggleShape
  <2> QED BY <1>1, <2>1, <2>3, DeletedShape
<1> QED BY <1>1, <1>2, <1>3

\* A set restored from the disk has the scores stored there.
LEMMA UnmarshalShape ==
  ASSUME NEW m \in Scored, NEW rs \in Unmarshal(m)
  PROVE  SetShape(rs) /\ rs.M = m /\ rs # Missing
<1>1. rs # Missing
  BY ServiceAssumption
<1>2. CASE Cardinality(DOMAIN m) > UPPER_THRESHOLD
  <2>1. PICK r \in Treed(m) :
           rs = [M |-> m, S |-> <<>>, R |-> r, Type |-> "RBTREE",
                 lowered |-> FALSE, swapped |-> FALSE]
    BY <1>2 DEF Unmarshal, NewRankSet
  <2>2. GoodTree(r, m) /\ r \in [Scores -> Seq(Users)]
    BY TreedLaw DEF GoodTree
  <2>3. rs \in RankSets
    BY <2>1, <2>2, EmptyLaws, FieldsSet
  <2> QED BY <1>1, <2>1, <2>2, <2>3 DEF SetShape
<1>3. CASE ~(Cardinality(DOMAIN m) > UPPER_THRESHOLD)
  <2>1. PICK s \in Listed(m) :
           rs = [M |-> m, S |-> s, R |-> NoTree, Type |-> "SORTED_SET",
                 lowered |-> FALSE, swapped |-> FALSE]
    BY <1>3 DEF Unmarshal, NewRankSet
  <2>2. s \in Seq(PairSet) /\ GoodList(s, m) /\ Descending(s)
    BY ListedLaw
  <2>3. rs \in RankSets
    BY <2>1, <2>2, EmptyLaws, FieldsSet
  <2> QED BY <1>1, <2>1, <2>2, <2>3 DEF SetShape
<1> QED BY <1>2, <1>3

-----------------------------------------------------------------------------
(* Steps. *)

LEMMA IdleShape ==
  Idle \in CallType /\ Idle.pc = "idle" /\ NoDump \in DumpType
  /\ NoDump.pc = "select" /\ NoDump.todo = {}
<1>1. \E k \in SetIds : TRUE
  BY ServiceAssumption
<1>2. \E u \in Users : TRUE
  BY ServiceAssumption
<1>3. (CHOOSE k \in SetIds : TRUE) \in SetIds /\ (CHOOSE u \in Users : TRUE) \in Users
  BY <1>1, <1>2
<1>4. Idle \in CallType /\ Idle.pc = "idle"
  BY <1>3 DEF Idle, CallType
<1>5. NoDump \in DumpType /\ NoDump.pc = "select" /\ NoDump.todo = {}
  BY DEF NoDump, DumpType
<1> QED BY <1>4, <1>5

LEMMA PendingLaws ==
  \A s \in Seq(SetIds) :
     /\ \A k \in SetIds : /\ Append(s, k) \in Seq(SetIds)
                          /\ Contains(Append(s, k), k)
                          /\ \A x : Contains(s, x) => Contains(Append(s, k), x)
     /\ s # <<>> => /\ Tail(s) \in Seq(SetIds) /\ Head(s) \in SetIds
                    /\ \A x : Contains(s, x) =>
                          x = Head(s) \/ Contains(Tail(s), x)
<1> SUFFICES ASSUME NEW s \in Seq(SetIds)
             PROVE  /\ \A k \in SetIds :
                          /\ Append(s, k) \in Seq(SetIds)
                          /\ Contains(Append(s, k), k)
                          /\ \A x : Contains(s, x) => Contains(Append(s, k), x)
                    /\ s # <<>> => /\ Tail(s) \in Seq(SetIds) /\ Head(s) \in SetIds
                                   /\ \A x : Contains(s, x) =>
                                         x = Head(s) \/ Contains(Tail(s), x)
  OBVIOUS
<1>1. ASSUME NEW k \in SetIds
      PROVE  /\ Append(s, k) \in Seq(SetIds)
             /\ Contains(Append(s, k), k)
             /\ \A x : Contains(s, x) => Contains(Append(s, k), x)
  <2>1. /\ Len(s) \in Nat /\ Len(Append(s, k)) = Len(s) + 1
        /\ Append(s, k)[Len(s) + 1] = k
        /\ \A i \in 1 .. Len(s) : Append(s, k)[i] = s[i]
    OBVIOUS
  <2>2. Len(s) + 1 \in 1 .. Len(s) + 1
        /\ \A i \in 1 .. Len(s) : i \in 1 .. Len(s) + 1
    BY <2>1
  <2> QED BY <2>1, <2>2 DEF Contains
<1>2. ASSUME s # <<>>
      PROVE  /\ Tail(s) \in Seq(SetIds) /\ Head(s) \in SetIds
             /\ \A x : Contains(s, x) => x = Head(s) \/ Contains(Tail(s), x)
  <2>1. /\ Tail(s) \in Seq(SetIds) /\ Head(s) \in SetIds /\ Head(s) = s[1]
        /\ Len(s) \in Nat /\ Len(Tail(s)) = Len(s) - 1
        /\ \A i \in 1 .. Len(s) - 1 : Tail(s)[i] = s[i + 1]
    BY <1>2
  <2>2. ASSUME NEW x, NEW i \in 1 .. Len(s), s[i] = x
        PROVE  x = Head(s) \/ Contains(Tail(s), x)
    <3>1. CASE i = 1
      BY <2>1, <2>2, <3>1
    <3>2. CASE i # 1
      <4>1. i - 1 \in 1 .. Len(s) - 1 /\ i - 1 + 1 = i
        BY <2>1, <3>2
      <4>2. Tail(s)[i - 1] = x
        BY <2>1, <2>2, <4>1
      <4> QED BY <2>1, <4>1, <4>2 DEF Contains
    <3> QED BY <3>1, <3>2
  <2> QED BY <2>1, <2>2 DEF Contains
<1> QED BY <1>1, <1>2

\* The process ends: there is nothing left to record.
LEMMA StopRec ==
  ASSUME Shape, Stop, disk' \in [SetIds -> Scored \cup {Missing}]
  PROVE  RecInv'
<1>1. /\ up' = FALSE /\ ranks' = [k \in SetIds |-> Missing]
      /\ call' = [c \in Calls |-> Idle] /\ pending' = <<>> /\ changes' = {}
      /\ dump' = NoDump /\ unqueued' = {}
  BY DEF Stop
<1>2. RanksShape'
  BY <1>1 DEF RanksShape, Alive
<1>3. call' \in [Calls -> CallType]
  BY <1>1, IdleShape
<1>4. pending' \in Seq(SetIds) /\ Len(pending') <= CHANGES_SIZE
  BY <1>1, ServiceAssumption
<1>5. Shape'
  <2>1. \A c \in Calls : call'[c].pc = "idle"
    BY <1>1, IdleShape
  <2>2. Held'
    BY <2>1 DEF Held
  <2> QED BY <1>1, <1>2, <1>3, <1>4, <2>1, <2>2, IdleShape DEF Shape
<1>6. Recorded' /\ Imaged'
  BY <1>1 DEF Recorded, Imaged
<1> QED BY <1>5, <1>6 DEF RecInv

\* A step that leaves the sets, the dump and what is recorded alone, but for
\* one call.
LEMMA CallRec ==
  ASSUME RecInv, up, UNCHANGED <<up, ranks, pending, changes, dump, disk, unqueued>>,
         call' \in [Calls -> CallType], Held',
         \A k \in SetIds : InCall(k) => InCall(k)'
  PROVE  RecInv'
<1>1. Shape'
  BY DEF RecInv, Shape, RanksShape, Alive
<1>2. \A k \in SetIds : OnItsWay(k) => OnItsWay(k)'
  BY DEF OnItsWay
<1>3. \A k \in SetIds : Live(k)' = Live(k)
  BY DEF Live, Alive
<1>4. Recorded' /\ Imaged'
  BY <1>2, <1>3 DEF RecInv, Recorded, Imaged
<1> QED BY <1>1, <1>4 DEF RecInv

\* A set that is changed, created or taken out is on its way to the disk.
LEMMA ChangeRec ==
  ASSUME RecInv, up, UNCHANGED <<up, pending, changes, dump, disk>>,
         call' \in [Calls -> CallType],
         RanksShape', Held', NEW s \in SetIds,
         unqueued \subseteq unqueued', unqueued' \subseteq unqueued \cup {s},
         \A k \in SetIds \ {s} : ranks'[k] = ranks[k] /\ (InCall(k) => InCall(k)'),
         s \in unqueued' \/ InCall(s)'
  PROVE  RecInv'
<1>1. Shape'
  BY DEF RecInv, Shape
<1>2. OnItsWay(s)'
  BY DEF OnItsWay
<1>3. \A k \in SetIds \ {s} : OnItsWay(k) => OnItsWay(k)'
  BY DEF OnItsWay
<1>4. \A k \in SetIds \ {s} : Live(k)' = Live(k)
  BY DEF Live, Alive
<1>5. Recorded' /\ Imaged'
  BY <1>2, <1>3, <1>4 DEF RecInv, Recorded, Imaged
<1> QED BY <1>1, <1>5 DEF RecInv

LEMMA StepRankChange ==
  ASSUME RecInv, NEW c \in Calls, NEW k \in SetIds, NEW u \in Users,
         RankChange(c, k, u)
  PROVE  RecInv'
<1>0. call \in [Calls -> CallType] /\ RanksShape
  BY DEF RecInv, Shape
<1> DEFINE r == [Idle EXCEPT !.pc = "found", !.set = k, !.user = u]
<1>1. /\ up /\ call[c].pc = "idle" /\ call' = [call EXCEPT ![c] = r]
      /\ ranks' = [ranks EXCEPT ![k] = IF Alive(k) THEN @ ELSE NewRankSet]
      /\ UNCHANGED <<up, pending, changes, dump, disk, unqueued>>
  BY DEF RankChange
<1>2. /\ r \in CallType /\ r.pc = "found" /\ r.set = k /\ r.op = "RankChange"
  <2>1. Idle.op = "RankChange"
    BY DEF Idle
  <2> QED BY <2>1, IdleShape DEF CallType
<1> HIDE DEF r
<1>3. /\ call' \in [Calls -> CallType] /\ call'[c] = r
      /\ \A d \in Calls : d # c => call'[d] = call[d]
  BY <1>0, <1>1, <1>2
<1>4. InCall(k)' /\ \A j \in SetIds : InCall(j) => InCall(j)'
  BY <1>1, <1>2, <1>3 DEF InCall
<1>5. \A j \in SetIds : ranks'[j] = IF j = k /\ ~Alive(k) THEN NewRankSet ELSE ranks[j]
  BY <1>0, <1>1 DEF RanksShape
<1>6. RanksShape'
  <2>1. DOMAIN ranks' = SetIds /\ ranks' = [j \in SetIds |-> ranks'[j]]
    BY <1>0, <1>1 DEF RanksShape
  <2>2. \A j \in SetIds : Alive(j)' => SetShape(ranks'[j])
    BY <1>0, <1>5, NewShape DEF RanksShape, Alive
  <2> QED BY <2>1, <2>2 DEF RanksShape
<1>7. Held'
  <2>0. Held /\ call'[c].set = k
    BY <1>2, <1>3 DEF RecInv, Shape
  <2>1. SetShape(ranks'[k])
    BY <1>0, <1>5, NewShape DEF RanksShape, Alive
  <2>2. ASSUME NEW d \in Calls, d # c, call'[d].pc = "found", ~call'[d].orphan
        PROVE  SetShape(ranks'[call'[d].set])
    <3>1. call'[d] = call[d] /\ call[d].set \in SetIds /\ SetShape(ranks[call[d].set])
      BY <1>0, <1>3, <2>0, <2>2 DEF Held, CallType
    <3> QED BY <1>5, <2>1, <3>1
  <2> QED BY <2>0, <2>1, <2>2 DEF Held
<1> QED BY <1>1, <1>3, <1>4, <1>5, <1>6, <1>7, ChangeRec

LEMMA StepDeleteUser ==
  ASSUME RecInv, NEW c \in Calls, NEW k \in SetIds, NEW u \in Users,
         DeleteUser(c, k, u)
  PROVE  RecInv'
<1>0. call \in [Calls -> CallType] /\ RanksShape /\ Held
  BY DEF RecInv, Shape
<1> DEFINE r == [Idle EXCEPT !.pc = "found", !.set = k, !.user = u,
                             !.op = "DeleteUser"]
<1>1. /\ up /\ Alive(k) /\ call[c].pc = "idle" /\ call' = [call EXCEPT ![c] = r]
      /\ UNCHANGED <<up, ranks, pending, changes, dump, disk, unqueued>>
  BY DEF DeleteUser
<1>2. r \in CallType /\ r.set = k
  BY IdleShape DEF CallType
<1> HIDE DEF r
<1>3. /\ call' \in [Calls -> CallType] /\ call'[c] = r
      /\ \A d \in Calls : d # c => call'[d] = call[d]
  BY <1>0, <1>1, <1>2
<1>4. \A j \in SetIds : InCall(j) => InCall(j)'
  BY <1>1, <1>3 DEF InCall
<1>5. Held'
  BY <1>0, <1>1, <1>2, <1>3 DEF Held, RanksShape
<1> QED BY <1>1, <1>3, <1>4, <1>5, CallRec

LEMMA StepDeleteSet ==
  ASSUME RecInv, NEW k \in SetIds, DeleteSet(k)
  PROVE  RecInv'
<1>0. call \in [Calls -> CallType] /\ RanksShape
  BY DEF RecInv, Shape
<1>1. /\ up /\ ranks' = [ranks EXCEPT ![k] = Missing]
      /\ call' = [c \in Calls |->
                     [call[c] EXCEPT !.orphan = @ \/ call[c].set = k]]
      /\ unqueued' = unqueued \cup {k}
      /\ UNCHANGED <<up, pending, changes, dump, disk>>
  BY DEF DeleteSet
<1>2. \A c \in Calls : /\ call'[c] \in CallType /\ call'[c].pc = call[c].pc
                       /\ call'[c].set = call[c].set /\ call'[c].op = call[c].op
                       /\ call'[c].orphan = (call[c].orphan \/ call[c].set = k)
  BY <1>0, <1>1 DEF CallType
<1>3. call' \in [Calls -> CallType] /\ \A j \in SetIds : InCall(j) => InCall(j)'
  BY <1>1, <1>2 DEF InCall
<1>4. \A j \in SetIds : ranks'[j] = IF j = k THEN Missing ELSE ranks[j]
  BY <1>0, <1>1 DEF RanksShape
<1>5. RanksShape'
  <2>1. DOMAIN ranks' = SetIds /\ ranks' = [j \in SetIds |-> ranks'[j]]
    BY <1>0, <1>1 DEF RanksShape
  <2>2. \A j \in SetIds : Alive(j)' => SetShape(ranks'[j])
    BY <1>0, <1>4 DEF RanksShape, Alive
  <2> QED BY <2>1, <2>2 DEF RanksShape
<1>6. unqueued \subseteq unqueued' /\ unqueued' \subseteq unqueued \cup {k}
      /\ k \in unqueued'
  BY <1>1
<1>7. Held'
  <2>1. ASSUME NEW d \in Calls, call'[d].pc = "found", ~call'[d].orphan
        PROVE  SetShape(ranks'[call'[d].set])
    <3>1. /\ call[d].pc = "found" /\ ~call[d].orphan /\ call[d].set # k
          /\ call'[d].set = call[d].set /\ call[d].set \in SetIds
      BY <1>0, <1>2, <2>1 DEF CallType
    <3>2. SetShape(ranks[call[d].set]) /\ ranks'[call[d].set] = ranks[call[d].set]
      BY <1>4, <3>1 DEF RecInv, Shape, Held
    <3> QED BY <3>1, <3>2
  <2> QED BY <2>1 DEF Held
<1> QED BY <1>1, <1>3, <1>4, <1>5, <1>6, <1>7, ChangeRec

LEMMA StepCallChange ==
  ASSUME RecInv, NEW c \in Calls, CallChange(c)
  PROVE  RecInv'
<1>0. call \in [Calls -> CallType] /\ RanksShape /\ Held /\ call[c] \in CallType
      /\ call[c].set \in SetIds
  BY DEF RecInv, Shape, CallType
<1>s. PICK s \in SetIds : s = call[c].set
  BY <1>0
<1>sc. PICK score \in Scores : \E rs \in Changed(c, ranks[s], score) :
         ranks' = [ranks EXCEPT ![s] = rs]
  BY <1>s DEF CallChange
<1>1. PICK rs \in Changed(c, ranks[s], score) : ranks' = [ranks EXCEPT ![s] = rs]
  BY <1>sc
<1>2. /\ up /\ call[c].pc = "found" /\ ~call[c].orphan
      /\ call' = [call EXCEPT ![c] = IF Enqueues(c) THEN [call[c] EXCEPT !.pc = "changed"]
                                     ELSE Idle]
      /\ unqueued' = IF call[c].op = "DeleteUser" THEN unqueued \cup {s} ELSE unqueued
      /\ UNCHANGED <<up, pending, changes, dump, disk>>
  BY <1>s DEF CallChange
<1> DEFINE r == IF Enqueues(c) THEN [call[c] EXCEPT !.pc = "changed"] ELSE Idle
<1>3. /\ r \in CallType
      /\ call[c].op = "RankChange" => r.pc = "changed" /\ r.set = s
                                      /\ r.op = "RankChange"
      /\ call[c].op = "RankChange" \/ call[c].op = "DeleteUser"
  BY <1>0, <1>s, IdleShape DEF CallType, Enqueues
<1>4. call' = [call EXCEPT ![c] = r]
  BY <1>2
<1> HIDE DEF r
<1>5. /\ call' \in [Calls -> CallType] /\ call'[c] = r
      /\ \A d \in Calls : d # c => call'[d] = call[d]
  BY <1>0, <1>3, <1>4
<1>6. \A j \in SetIds \ {s} : InCall(j) => InCall(j)'
  BY <1>s, <1>5 DEF InCall
<1>7. s \in unqueued' \/ InCall(s)'
  <2>2. CASE call[c].op = "DeleteUser"
    BY <1>2, <2>2
  <2>3. CASE call[c].op = "RankChange"
    <3>1. call'[c].pc # "idle" /\ call'[c].set = s /\ call'[c].op = "RankChange"
      BY <1>3, <1>5, <2>3
    <3> QED BY <3>1 DEF InCall
  <2> QED BY <1>3, <2>2, <2>3
<1>8. \A j \in SetIds : ranks'[j] = IF j = s THEN rs ELSE ranks[j]
  BY <1>0, <1>1 DEF RanksShape
<1>9. SetShape(rs)
  <2>1. SetShape(ranks[s])
    BY <1>0, <1>2, <1>s DEF Held
  <2>2. call[c].op = "DeleteUser" =>
           \A y \in Shrunk(ranks[s]) : ~Panics(y, call[c].user)
    BY <1>s DEF CallChange
  <2> QED BY <1>0, <1>1, <2>1, <2>2, ChangedShape
<1>10. RanksShape'
  <2>1. DOMAIN ranks' = SetIds /\ ranks' = [j \in SetIds |-> ranks'[j]]
    BY <1>0, <1>1 DEF RanksShape
  <2>2. \A j \in SetIds : Alive(j)' => SetShape(ranks'[j])
    BY <1>0, <1>8, <1>9 DEF RanksShape, Alive
  <2> QED BY <2>1, <2>2 DEF RanksShape
<1>11. Held'
  <2>1. ASSUME NEW d \in Calls, call'[d].pc = "found", ~call'[d].orphan
        PROVE  SetShape(ranks'[call'[d].set])
    <3>1. call'[d] = call[d] /\ call[d].set \in SetIds
      <4>1. r.pc # "found"
        BY <1>3, IdleShape DEF r, CallType
      <4> QED BY <1>0, <1>5, <2>1, <4>1 DEF CallType
    <3>2. SetShape(ranks[call[d].set])
      BY <1>0, <2>1, <3>1 DEF Held
    <3> QED BY <1>8, <1>9, <3>1, <3>2
  <2> QED BY <2>1 DEF Held
<1>12. unqueued \subseteq unqueued' /\ unqueued' \subseteq unqueued \cup {s}
  BY <1>2
<1>13. \A j \in SetIds \ {s} : ranks'[j] = ranks[j]
  BY <1>8
<1> QED BY <1>0, <1>2, <1>5, <1>6, <1>7, <1>10, <1>11, <1>12, <1>13, ChangeRec

LEMMA StepCallOrphan ==
  ASSUME RecInv, NEW c \in Calls, CallOrphan(c)
  PROVE  RecInv'
<1>0. call \in [Calls -> CallType] /\ call[c] \in CallType /\ Held
  BY DEF RecInv, Shape
<1> DEFINE r == IF call[c].op = "RankChange" THEN [call[c] EXCEPT !.pc = "changed"]
                ELSE Idle
<1>1. /\ up /\ call' = [call EXCEPT ![c] = r]
      /\ UNCHANGED <<up, ranks, pending, changes, dump, disk, unqueued>>
  BY DEF CallOrphan
<1>2. /\ r \in CallType /\ r.pc # "found"
      /\ call[c].op = "RankChange" => r.pc = "changed" /\ r.set = call[c].set
                                      /\ r.op = "RankChange"
  BY <1>0, IdleShape DEF CallType
<1> HIDE DEF r
<1>3. /\ call' \in [Calls -> CallType] /\ call'[c] = r
      /\ \A d \in Calls : d # c => call'[d] = call[d]
  BY <1>0, <1>1, <1>2
<1>4. \A j \in SetIds : InCall(j) => InCall(j)'
  BY <1>2, <1>3 DEF InCall
<1>5. Held'
  BY <1>0, <1>1, <1>2, <1>3 DEF Held
<1> QED BY <1>1, <1>3, <1>4, <1>5, CallRec

LEMMA StepEnqueue ==
  ASSUME RecInv, NEW c \in Calls, Enqueue(c)
  PROVE  RecInv'
<1> DEFINE s == call[c].set
<1>0. /\ call \in [Calls -> CallType] /\ Held /\ s \in SetIds
      /\ pending \in Seq(SetIds)
  BY DEF RecInv, Shape, CallType
<1>1. /\ up /\ pending' = Append(pending, s) /\ call' = [call EXCEPT ![c] = Idle]
      /\ UNCHANGED <<up, ranks, changes, dump, disk, unqueued>>
  BY DEF Enqueue
<1>2. /\ call' \in [Calls -> CallType] /\ call'[c].pc = "idle"
      /\ \A d \in Calls : d # c => call'[d] = call[d]
  BY <1>0, <1>1, IdleShape
<1>3. /\ pending' \in Seq(SetIds) /\ Contains(pending', s)
      /\ \A k \in SetIds : Contains(pending, k) => Contains(pending', k)
  BY <1>0, <1>1, PendingLaws
<1>9. Len(pending') <= CHANGES_SIZE
  <2>1. Len(pending) < CHANGES_SIZE /\ Len(pending') = Len(pending) + 1
    BY <1>0, <1>1 DEF Enqueue
  <2> QED BY <1>0, <2>1, ServiceAssumption
<1>4. ASSUME NEW k \in SetIds, OnItsWay(k)
      PROVE  OnItsWay(k)'
  <2>1. CASE InCall(k)
    <3>1. PICK d \in Calls : call[d].pc # "idle" /\ call[d].set = k
                             /\ call[d].op = "RankChange"
      BY <2>1 DEF InCall
    <3>2. d = c => Contains(pending', k)
      BY <1>3, <3>1
    <3>3. d # c => InCall(k)'
      BY <1>2, <3>1 DEF InCall
    <3> QED BY <3>2, <3>3 DEF OnItsWay
  <2>2. CASE ~InCall(k)
    BY <1>1, <1>3, <1>4, <2>2 DEF OnItsWay
  <2> QED BY <2>1, <2>2
<1>5. Held'
  BY <1>0, <1>1, <1>2 DEF Held
<1>6. Shape'
  BY <1>1, <1>2, <1>3, <1>5, <1>9 DEF RecInv, Shape, RanksShape, Alive
<1>7. \A k \in SetIds : Live(k)' = Live(k)
  BY <1>1 DEF Live, Alive
<1>8. Recorded' /\ Imaged'
  BY <1>1, <1>4, <1>7 DEF RecInv, Recorded, Imaged
<1> QED BY <1>6, <1>8 DEF RecInv

LEMMA StepTakePending ==
  ASSUME RecInv, TakePending
  PROVE  RecInv'
<1>0. pending \in Seq(SetIds) /\ changes \subseteq SetIds
  BY DEF RecInv, Shape
<1>1. /\ up /\ dump.pc = "select" /\ pending # <<>>
      /\ changes' = changes \cup {Head(pending)} /\ pending' = Tail(pending)
      /\ UNCHANGED <<up, ranks, call, dump, disk, unqueued>>
  BY DEF TakePending
<1>2. /\ pending' \in Seq(SetIds) /\ Head(pending) \in SetIds
      /\ \A k \in SetIds : Contains(pending, k) =>
            k = Head(pending) \/ Contains(pending', k)
  BY <1>0, <1>1, PendingLaws
<1>3. \A k \in SetIds : InCall(k)' = InCall(k) /\ Live(k)' = Live(k)
  BY <1>1 DEF InCall, Live, Alive
<1>4. \A k \in SetIds : OnItsWay(k) => OnItsWay(k)' \/ k \in changes'
  BY <1>1, <1>2, <1>3 DEF OnItsWay
<1>5. Shape'
  <2>1. Len(pending') <= CHANGES_SIZE
    <3>1. Len(pending) \in Nat /\ Len(pending) <= CHANGES_SIZE
          /\ Len(pending') = Len(pending) - 1
      BY <1>0, <1>1 DEF RecInv, Shape
    <3> QED BY <3>1, ServiceAssumption
  <2> QED BY <1>1, <1>2, <2>1 DEF RecInv, Shape, RanksShape, Alive, Held
<1>6. Recorded' /\ Imaged'
  BY <1>1, <1>3, <1>4 DEF RecInv, Recorded, Imaged
<1> QED BY <1>5, <1>6 DEF RecInv

\* The image starts as the disk: what the disk does not show is in changes,
\* all of them to be marshalled, or on its way.
LEMMA StepDumpStart ==
  ASSUME RecInv, DumpStart
  PROVE  RecInv'
<1>1. /\ up /\ UNCHANGED <<up, ranks, call, pending, changes, disk, unqueued>>
      /\ dump' = [pc |-> "dump", todo |-> changes, image |-> disk]
  BY DEF DumpStart
<1>2. dump' \in DumpType /\ dump'.todo = changes /\ dump'.image = disk
  BY <1>1 DEF RecInv, Shape, DumpType
<1>3. \A k \in SetIds : OnItsWay(k)' = OnItsWay(k) /\ Live(k)' = Live(k)
  BY <1>1 DEF OnItsWay, InCall, Live, Alive
<1>4. Shape'
  BY <1>1, <1>2 DEF RecInv, Shape, RanksShape, Alive, Held
<1>5. Recorded' /\ Imaged'
  BY <1>1, <1>2, <1>3 DEF RecInv, Recorded, Imaged
<1> QED BY <1>4, <1>5 DEF RecInv

\* A set is marshalled as it is; its id stays in changes until the commit.
LEMMA StepDumpSet ==
  ASSUME RecInv, NEW k \in SetIds, DumpSet(k)
  PROVE  RecInv'
<1>0. dump \in DumpType /\ dump.todo \subseteq changes /\ RanksShape
  BY DEF RecInv, Shape
<1>1. /\ up /\ k \in dump.todo /\ unqueued' = unqueued \ {k}
      /\ dump' = [dump EXCEPT !.todo = @ \ {k}, !.image[k] = Live(k)]
      /\ UNCHANGED <<up, ranks, call, pending, changes, disk>>
  BY DEF DumpSet, Live
<1>2. Live(k) \in Scored \cup {Missing}
  BY <1>0, SetFields DEF Live, RanksShape, SetShape, Marshal
<1>3. PICK w : w = Live(k)
  OBVIOUS
<1>4. /\ dump' \in DumpType /\ dump'.pc = dump.pc /\ dump'.todo = dump.todo \ {k}
      /\ dump'.image[k] = w
      /\ \A j \in SetIds : j # k => dump'.image[j] = dump.image[j]
  <2>1. dump' = [dump EXCEPT !.todo = @ \ {k}, !.image[k] = w]
    BY <1>1, <1>3
  <2> QED BY <1>0, <1>2, <1>3, <2>1 DEF DumpType
<1>5. \A j \in SetIds : /\ Live(j)' = Live(j)
                        /\ j # k /\ OnItsWay(j) => OnItsWay(j)'
  BY <1>1 DEF OnItsWay, InCall, Live, Alive
<1>6. Shape'
  BY <1>0, <1>1, <1>4 DEF RecInv, Shape, RanksShape, Alive, Held
<1>7. Recorded'
  BY <1>0, <1>1, <1>5 DEF RecInv, Recorded
<1>8. Imaged'
  BY <1>1, <1>3, <1>4, <1>5 DEF RecInv, Imaged
<1> QED BY <1>6, <1>7, <1>8 DEF RecInv

\* With nothing left to marshal the image lacks only what is on its way.
LEMMA StepDumpCommit ==
  ASSUME RecInv, DumpCommit
  PROVE  RecInv'
<1>0. Shape /\ dump \in DumpType /\ dump.image \in [SetIds -> Scored \cup {Missing}]
  BY DEF RecInv, Shape, DumpType
<1>1. up /\ dump.pc # "select" /\ dump.todo = {} /\ disk' = dump.image
  BY DEF DumpCommit
<1>2. CASE Stop
  BY <1>0, <1>1, <1>2, StopRec
<1>3. CASE /\ changes' = {} /\ dump' = NoDump
           /\ UNCHANGED <<up, ranks, call, pending, unqueued>>
  <2>1. Shape'
    BY <1>0, <1>1, <1>3, IdleShape DEF Shape, RanksShape, Alive, Held
  <2>2. \A k \in SetIds : OnItsWay(k)' = OnItsWay(k) /\ Live(k)' = Live(k)
    BY <1>3 DEF OnItsWay, InCall, Live, Alive
  <2>3. Recorded'
    BY <1>1, <1>3, <2>2 DEF RecInv, Imaged, Recorded
  <2>4. Imaged'
    BY <1>3, IdleShape DEF Imaged
  <2> QED BY <2>1, <2>3, <2>4 DEF RecInv
<1> QED BY <1>2, <1>3 DEF DumpCommit

\* What is restored is what the disk holds.
LEMMA StepRestore ==
  ASSUME RecInv, Restore
  PROVE  RecInv'
<1>1. /\ ~up /\ up' = TRUE
      /\ UNCHANGED <<call, pending, changes, dump, disk, unqueued>>
      /\ \A k \in SetIds : ranks'[k] \in IF disk[k] = Missing THEN {Missing}
                                         ELSE Unmarshal(disk[k])
      /\ DOMAIN ranks' = SetIds /\ ranks' = [k \in SetIds |-> ranks'[k]]
  BY DEF Restore
<1>2. /\ disk \in [SetIds -> Scored \cup {Missing}] /\ dump.pc = "select"
      /\ \A c \in Calls : call[c].pc = "idle"
  BY <1>1 DEF RecInv, Shape
<1>3. ASSUME NEW k \in SetIds
      PROVE  Live(k)' = disk[k] /\ (ranks'[k] # Missing => SetShape(ranks'[k]))
  <2>1. CASE disk[k] = Missing
    BY <1>1, <2>1 DEF Live, Alive
  <2>2. CASE disk[k] # Missing
    <3>1. disk[k] \in Scored /\ ranks'[k] \in Unmarshal(disk[k])
      BY <1>1, <1>2, <2>2
    <3>2. SetShape(ranks'[k]) /\ ranks'[k].M = disk[k] /\ ranks'[k] # Missing
      BY <3>1, UnmarshalShape
    <3> QED BY <3>2 DEF Live, Alive, Marshal
  <2> QED BY <2>1, <2>2
<1>4. RanksShape'
  BY <1>1, <1>3 DEF RanksShape, Alive
<1>5. Held'
  BY <1>1, <1>2 DEF Held
<1>6. Shape'
  BY <1>1, <1>4, <1>5 DEF RecInv, Shape
<1>7. Recorded' /\ Imaged'
  BY <1>1, <1>2, <1>3 DEF Recorded, Imaged
<1> QED BY <1>6, <1>7 DEF RecInv

-----------------------------------------------------------------------------
LEMMA InitRec == Init => RecInv
<1> SUFFICES ASSUME Init PROVE RecInv
  OBVIOUS
<1>1. /\ up = TRUE /\ ranks = [k \in SetIds |-> Missing]
      /\ call = [c \in Calls |-> Idle] /\ pending = <<>> /\ changes = {}
      /\ dump = NoDump /\ disk = [k \in SetIds |-> Missing] /\ unqueued = {}
  BY DEF Init
<1>2. Shape
  <2>1. RanksShape
    BY <1>1 DEF RanksShape, Alive
  <2>2. call \in [Calls -> CallType] /\ Held
    BY <1>1, IdleShape DEF Held
  <2>3. pending \in Seq(SetIds) /\ Len(pending) <= CHANGES_SIZE
    BY <1>1, ServiceAssumption
  <2> QED BY <1>1, <2>1, <2>2, <2>3, IdleShape DEF Shape
<1>3. Recorded /\ Imaged
  BY <1>1, IdleShape DEF Recorded, Imaged, Live, Alive
<1> QED BY <1>2, <1>3 DEF RecInv

LEMMA NextRec == RecInv /\ [Next]_vars => RecInv'
<1> SUFFICES ASSUME RecInv, [Next]_vars PROVE RecInv'
  OBVIOUS
<1>0. Shape /\ disk \in [SetIds -> Scored \cup {Missing}]
  BY DEF RecInv, Shape
<1>1. CASE UNCHANGED vars
  <2>1. Shape'
    BY <1>1 DEF RecInv, vars, Shape, RanksShape, Alive, Held
  <2>2. Recorded' /\ Imaged'
    BY <1>1 DEF RecInv, vars, Recorded, Imaged, OnItsWay, InCall, Live, Alive
  <2> QED BY <2>1, <2>2 DEF RecInv
<1>2. CASE \E c \in Calls, k \in SetIds, u \in Users :
              RankChange(c, k, u) \/ DeleteUser(c, k, u)
  BY <1>2, StepRankChange, StepDeleteUser
<1>3. CASE \E k \in SetIds : DeleteSet(k)
  BY <1>3, StepDeleteSet
<1>4. CASE \E c \in Calls : CallStep(c)
  <2>1. PICK c \in Calls : CallStep(c)
    BY <1>4
  <2>2. CASE CallPanic(c)
    BY <1>0, <2>2, StopRec DEF CallPanic
  <2> QED BY <2>1, <2>2, StepCallChange, StepCallOrphan, StepEnqueue DEF CallStep
<1>5. CASE TakePending \/ DumpStart
  BY <1>5, StepTakePending, StepDumpStart
<1>6. CASE DumpStep
  BY <1>6, StepDumpCommit, StepDumpSet DEF DumpStep
<1>7. CASE Crash
  BY <1>0, <1>7, StopRec DEF Crash
<1>8. CASE Restore
  BY <1>8, StepRestore
<1> QED BY <1>1, <1>2, <1>3, <1>4, <1>5, <1>6, <1>7, <1>8 DEF Next

\* For every instance: a set that differs from what the disk holds has its id
\* in a call, in pending or in changes, or has seen a deletion since the last
\* dump; crashes, panics, restarts and changes during a dump included.
THEOREM Records == Spec => []ChangesRecorded
<1>1. RecInv => ChangesRecorded
  BY DEF RecInv, Recorded, ChangesRecorded, OnItsWay, InCall
<1> QED BY InitRec, NextRec, <1>1, PTL DEF Spec

\* For every instance: whatever calls, conversions, dumps and restarts do, each
\* part of the service keeps its type, and of a set only the storage in use
\* holds anything.
THEOREM Typed == Spec => []TypeOK
<1>1. ASSUME RecInv PROVE TypeOK
  <2>1. Shape
    BY <1>1 DEF RecInv
  <2>2. \A k \in SetIds : Alive(k) =>
           /\ ranks[k] \in RankSets
           /\ ranks[k].Type = "SORTED_SET" => ranks[k].R = NoTree
           /\ ranks[k].Type = "RBTREE" => ranks[k].S = <<>>
    BY <2>1 DEF Shape, RanksShape, SetShape
  <2>3. dump.pc \in {"select", "dump"} /\ dump.todo \subseteq changes
    BY <2>1 DEF Shape, DumpType
  <2>4. unqueued \subseteq SetIds
    BY <2>1 DEF Shape
  <2> QED BY <2>1, <2>2, <2>3, <2>4 DEF Shape, CallType, TypeOK
<1> QED BY InitRec, NextRec, <1>1, PTL DEF Spec

\* For every instance, any number of users and both storages: the list of all
\* the ranks holds each user that is ranked once, with its score, at the rank
\* that is answered for it.
THEOREM ListsUsers == Spec => []ListsEveryUser
<1>1. ASSUME RecInv PROVE ListsEveryUser
  <2> SUFFICES ASSUME NEW k \in SetIds, Alive(k), ~ranks[k].swapped
               PROVE  LET rs == ranks[k]  list == GetList(rs)
                      IN  /\ Len(list) = Count(rs)
                          /\ \A u \in DOMAIN rs.M :
                                /\ Rank(rs, u) \in DOMAIN list
                                /\ list[Rank(rs, u)] = Pair(u, rs.M[u])
    BY DEF ListsEveryUser
  <2> DEFINE rs == ranks[k]
  <2>1. SetShape(rs)
    BY <1>1 DEF RecInv, Shape, RanksShape
  <2> HIDE DEF rs
  <2>2. rs.M \in Scored /\ rs.S \in Seq(PairSet)
        /\ (rs.Type = "SORTED_SET" \/ rs.Type = "RBTREE")
    BY <2>1, SetFields DEF SetShape
  <2>3. CASE rs.Type = "SORTED_SET"
    <3>1. GoodList(rs.S, rs.M)
      BY <2>1, <2>3 DEF SetShape, rs
    <3>2. GetList(rs) = rs.S /\ \A u : Rank(rs, u) = SLocate(rs.S, u)
      BY <2>3 DEF GetList, Rank
    <3> QED BY <2>2, <3>1, <3>2, ListLaw DEF Count, rs
  <2>4. CASE rs.Type = "RBTREE"
    <3>1. GoodTree(rs.R, rs.M)
      BY <2>1, <2>4 DEF SetShape
    <3>2. /\ GetList(rs) = TreePairs(rs.R)
          /\ \A u \in DOMAIN rs.M : Rank(rs, u) = RLocate(rs.R, u, rs.M[u])
      BY <2>4 DEF GetList, Rank, Score
    <3> QED BY <2>2, <3>1, <3>2, TreeListLaw DEF Count, rs
  <2> QED BY <2>2, <2>3, <2>4
<1> QED BY InitRec, NextRec, <1>1, PTL DEF Spec

\* For every instance: a set whose users' scores rose only, and every set kept
\* as a tree, is listed in the order of the scores.
THEOREM RisesInOrder == Spec => []RisingInOrder
<1>1. ASSUME RecInv PROVE RisingInOrder
  <2> SUFFICES ASSUME NEW k \in SetIds, Alive(k), ~ranks[k].swapped,
                      ~ranks[k].lowered
               PROVE  Descending(GetList(ranks[k]))
    BY DEF RisingInOrder
  <2> DEFINE rs == ranks[k]
  <2>1. SetShape(rs)
    BY <1>1 DEF RecInv, Shape, RanksShape
  <2>2. rs.M \in Scored /\ (rs.Type = "SORTED_SET" \/ rs.Type = "RBTREE")
    BY <2>1, SetFields DEF SetShape
  <2>3. CASE rs.Type = "SORTED_SET"
    BY <2>1, <2>3 DEF SetShape, GetList
  <2>4. CASE rs.Type = "RBTREE"
    BY <2>1, <2>2, <2>4, TreeDescends DEF SetShape, GetList
  <2> QED BY <2>2, <2>3, <2>4
<1> QED BY InitRec, NextRec, <1>1, PTL DEF Spec
=============================================================================
