---------------------------- MODULE DiscoveryProofs ----------------------------
(* The pool of services, for every number of services, instances, callers    *)
(* and changes of the directory, and every range of the counter: while no    *)
(* change was missed its clients are what the directory holds, and lookups   *)
(* hand out every client before one comes again.  The tables, for all files, *)
(* workbooks and changes: while no change was missed the tables of a file    *)
(* are those of its last version that can be read.                           *)
EXTENDS Discovery, WellFoundedInduction, TLAPS

-----------------------------------------------------------------------------
(* Invariants *)

IsSeq(s) == \E S : s \in Seq(S)

WatchType == [at : Nat, live : BOOLEAN, fixed : BOOLEAN, lost : BOOLEAN]

\* What is needed of the types; who registers holds the lock.
PoolTypes ==
    /\ IsSeq(log)
    /\ DOMAIN clients = Services /\ \A s \in Services : IsSeq(clients[s])
    /\ DOMAIN boot = {"pc", "todo", "listed"}
    /\ boot.listed \in Nat /\ boot.listed <= Len(log)
    /\ watch \in WatchType /\ watch.at <= Len(log)
    /\ boot.pc = "done" => boot.listed <= watch.at
    /\ DOMAIN sub = {"pc", "next", "ch"}
    /\ sub.pc = "sending" => mu.who = "register"

\* The value of k after the change i of the directory.
ValueAt(k, i) == log[LastOf(k, i)].value

\* Until connect_all is done nothing is watched.
Unwatched ==
    boot.pc # "done" => ~watch.live /\ hand = NoEvent /\ mu.who # "watcher"

Unlisted ==
    boot.pc = "get" => mu.who # "main" /\ \A s \in Services : clients[s] = <<>>

\* An instance that was listed is still to be added, or being dialed.
Owed(k) == (mu.who = "main" /\ mu.key = k) \/ \E e \in boot.todo : e.key = k

\* While connect_all adds: what is still owed is as it was listed, and every
\* other instance that was listed has its client.
Adding ==
    boot.pc = "add" =>
      /\ \A e \in boot.todo : /\ Present(e.key, boot.listed)
                              /\ e = [key |-> e.key, value |-> ValueAt(e.key, boot.listed)]
      /\ mu.who = "main" => /\ Present(mu.key, boot.listed)
                            /\ mu.value = ValueAt(mu.key, boot.listed)
                            /\ \A e \in boot.todo : e.key # mu.key
      /\ \A k \in Followed : IF Owed(k) THEN NoClient(clients[Dir[k]], k)
                             ELSE Stored(k, boot.listed, clients[Dir[k]])

\* While the watcher follows: the clients of k are as the directory was at the
\* last change received, but for a change of k in its hands or being dialed.
Received(k) ==
    IF mu.who = "watcher" /\ mu.key = k
    THEN /\ Present(k, watch.at) /\ mu.value = ValueAt(k, watch.at)
         /\ NoClient(clients[Dir[k]], k)
    ELSE IF hand # NoEvent /\ Touches(hand, k)
    THEN /\ hand.key = k
         /\ \/ /\ hand.action = "set" /\ Present(k, watch.at)
               /\ hand.value = ValueAt(k, watch.at) /\ NoClient(clients[Dir[k]], k)
            \/ /\ hand.action = "delete" /\ ~Present(k, watch.at)
               /\ \/ NoClient(clients[Dir[k]], k)
                  \/ \E v : OnlyClient(clients[Dir[k]], k, v)
    ELSE Stored(k, watch.at, clients[Dir[k]])

Following ==
    boot.pc = "done" =>
      /\ mu.who # "main" /\ (mu.who = "watcher" => hand = NoEvent)
      /\ ~watch.lost => \A k \in Followed : Simple(k) => Received(k)

PoolInv == PoolTypes /\ Unwatched /\ Unlisted /\ Adding /\ Following

\* The client that was given out d turns before the client t, of L clients.
Before(t, d, L) == IF d < t THEN t - d ELSE t - d + L

\* The clients given out last are those before the turn t.
Given(r, t, L) == /\ r \in Seq(Int) /\ Len(r) <= L
                  /\ \A i \in 1 .. Len(r) : r[i] = Before(t, Len(r) - i, L)

TurnOf(a, L)    == (a % L) + 1
After(t, L)     == IF t = L THEN 1 ELSE t + 1
Handed(r, u, L) == Append(IF Len(r) = L THEN Tail(r) ELSE r, u)

Turning(s) ==
    recent[s] # <<>> =>
      /\ Len(clients[s]) > 0
      /\ Given(recent[s], TurnOf(idx[s], Len(clients[s])), Len(clients[s]))

TurnInv ==
    /\ idx = [s \in Services |-> idx[s]] /\ DOMAIN recent = Services
    /\ \A s \in Services : /\ idx[s] \in 0 .. IdxLimit - 1
                           /\ recent[s] \in Seq(Int) /\ Turning(s)

-----------------------------------------------------------------------------
(* Arithmetic. *)

LEMMA LeastNat ==
  \A T \in SUBSET Nat : T # {} => \E x \in T : \A y \in T : x <= y
<1> SUFFICES ASSUME NEW T \in SUBSET Nat, T # {}
             PROVE  \E x \in T : \A y \in T : x <= y
  OBVIOUS
<1>1. PICK x \in T : \A y \in T : ~ (<<y, x>> \in OpToRel(<, Nat))
  BY WFMin, NatLessThanWellFounded
<1>2. \A y \in T : ~(y < x)
  BY <1>1 DEF OpToRel
<1> QED BY <1>2

LEMMA Greatest ==
  ASSUME NEW i \in Nat, NEW T \in SUBSET (1 .. i), T # {}
  PROVE  \E x \in T : \A y \in T : y <= x
<1> DEFINE U == {i - y : y \in T}
<1>0. \A y \in T : y \in 1 .. i /\ i - y \in Nat
  OBVIOUS
<1>1. U \in SUBSET Nat /\ U # {}
  BY <1>0
<1>2. PICK u \in U : \A v \in U : u <= v
  BY <1>1, LeastNat
<1>3. PICK x \in T : u = i - x
  OBVIOUS
<1>4. \A y \in T : u <= i - y
  BY <1>2
<1>5. ASSUME NEW y \in T PROVE y <= x
  BY <1>0, <1>3, <1>4
<1> QED BY <1>5

LEMMA Divided ==
  ASSUME NEW L \in Nat, L > 0, NEW a \in Nat
  PROVE  a % L \in 0 .. L - 1 /\ a \div L \in Int /\ a = L * (a \div L) + (a % L)
<1>1. a % L \in 0 .. L - 1
  OBVIOUS
<1>2. a \div L \in Int
  OBVIOUS
<1>3. a = L * (a \div L) + (a % L)
  BY Z3
<1> QED BY <1>1, <1>2, <1>3

LEMMA Remainders ==
  ASSUME NEW L \in Nat, L > 0, NEW q \in Int, NEW p \in Int,
         NEW r \in 0 .. L - 1, NEW s \in 0 .. L - 1, L * q + r = L * p + s
  PROVE  r = s
<1>1. q = p
  OBVIOUS
<1> QED BY <1>1

\* The turn after a turn.
LEMMA NextTurn ==
  ASSUME NEW L \in Nat, L > 0, NEW a \in Nat
  PROVE  /\ a % L \in 0 .. L - 1
         /\ (a + 1) % L = IF a % L = L - 1 THEN 0 ELSE (a % L) + 1
<1>1. PICK q \in Int, r \in 0 .. L - 1 : q = a \div L /\ r = a % L /\ a = L * q + r
  BY Divided
<1>2. PICK p \in Int, s \in 0 .. L - 1 : s = (a + 1) % L /\ a + 1 = L * p + s
  <2>1. a + 1 \in Nat
    OBVIOUS
  <2> QED BY <2>1, Divided
<1>3. CASE r = L - 1
  <2>1. L * (q + 1) + 0 = L * q + L /\ q + 1 \in Int /\ 0 \in 0 .. L - 1
        /\ L * q \in Int
    OBVIOUS
  <2>2. L * (q + 1) + 0 = L * p + s
    BY <1>1, <1>2, <1>3, <2>1
  <2>3. s = 0
    BY <2>1, <2>2, Remainders
  <2> QED BY <1>1, <1>2, <1>3, <2>3
<1>4. CASE r # L - 1
  <2>1. r + 1 \in 0 .. L - 1 /\ L * q \in Int
    BY <1>4
  <2>2. L * q + (r + 1) = L * p + s
    BY <1>1, <1>2, <2>1
  <2>3. s = r + 1
    BY <2>1, <2>2, Remainders
  <2> QED BY <1>1, <1>2, <1>4, <2>3
<1> QED BY <1>3, <1>4

-----------------------------------------------------------------------------
(* Clients *)

Client(k, v) == [key |-> k, value |-> v]

LEMMA Appended ==
  ASSUME NEW s, IsSeq(s), NEW x
  PROVE  /\ IsSeq(Append(s, x)) /\ Len(s) \in Nat /\ DOMAIN s = 1 .. Len(s)
         /\ Len(Append(s, x)) = Len(s) + 1
         /\ DOMAIN Append(s, x) = 1 .. Len(s) + 1
         /\ \A i \in 1 .. Len(s) : Append(s, x)[i] = s[i]
         /\ Append(s, x)[Len(s) + 1] = x
<1>1. PICK S : s \in Seq(S)
  BY DEF IsSeq
<1> DEFINE T == S \cup {x}
<1>2. s \in Seq(T) /\ x \in T
  BY <1>1
<1> HIDE DEF T
<1>3. Append(s, x) \in Seq(T)
  BY <1>2
<1>4. /\ Len(s) \in Nat /\ DOMAIN s = 1 .. Len(s)
      /\ Len(Append(s, x)) = Len(s) + 1
      /\ DOMAIN Append(s, x) = 1 .. Len(s) + 1
      /\ \A i \in 1 .. Len(s) : Append(s, x)[i] = s[i]
      /\ Append(s, x)[Len(s) + 1] = x
  BY <1>2, <1>3
<1> QED BY <1>3, <1>4 DEF IsSeq

\* add_service adds one client of its key.
LEMMA AddClient ==
  ASSUME NEW s, IsSeq(s), NEW j, NEW v
  PROVE  /\ IsSeq(Append(s, Client(j, v)))
         /\ NoClient(s, j) => OnlyClient(Append(s, Client(j, v)), j, v)
         /\ \A k : k # j => /\ NoClient(s, k) => NoClient(Append(s, Client(j, v)), k)
                            /\ \A w : OnlyClient(s, k, w) =>
                                  OnlyClient(Append(s, Client(j, v)), k, w)
<1> DEFINE t == Append(s, Client(j, v))
<1>1. /\ IsSeq(t) /\ Len(s) \in Nat /\ DOMAIN s = 1 .. Len(s)
      /\ DOMAIN t = 1 .. Len(s) + 1
      /\ \A i \in 1 .. Len(s) : t[i] = s[i]
      /\ t[Len(s) + 1] = Client(j, v)
  BY Appended
<1> HIDE DEF t
<1>2. /\ Client(j, v).key = j
      /\ \A i \in 1 .. Len(s) + 1 : i # Len(s) + 1 => i \in 1 .. Len(s)
      /\ \A i \in 1 .. Len(s) : i \in 1 .. Len(s) + 1
      /\ Len(s) + 1 \in 1 .. Len(s) + 1
  BY <1>1 DEF Client
<1>3. NoClient(s, j) => OnlyClient(t, j, v)
  BY <1>1, <1>2 DEF NoClient, OnlyClient, Client
<1>4. ASSUME NEW k, k # j, NoClient(s, k) PROVE NoClient(t, k)
  BY <1>1, <1>2, <1>4 DEF NoClient
<1>5. ASSUME NEW k, k # j, NEW w, OnlyClient(s, k, w) PROVE OnlyClient(t, k, w)
  BY <1>1, <1>2, <1>5 DEF OnlyClient
<1> QED BY <1>1, <1>3, <1>4, <1>5 DEF t

\* remove_service takes out the first client of its key.
LEMMA Removed ==
  ASSUME NEW s, IsSeq(s), NEW j, NEW m \in DOMAIN s, s[m].key = j,
         \A i \in DOMAIN s : s[i].key = j => m <= i
  PROVE  /\ IsSeq(Without(s, j)) /\ Len(s) \in Nat /\ DOMAIN s = 1 .. Len(s)
         /\ DOMAIN Without(s, j) = 1 .. Len(s) - 1
         /\ \A i \in 1 .. Len(s) - 1 :
               Without(s, j)[i] = IF i < m THEN s[i] ELSE s[i + 1]
<1>1. PICK S : s \in Seq(S)
  BY DEF IsSeq
<1>2. Len(s) \in Nat /\ DOMAIN s = 1 .. Len(s) /\ m \in 1 .. Len(s)
  BY <1>1
<1>3. Without(s, j) = SubSeq(s, 1, m - 1) \o SubSeq(s, m + 1, Len(s))
  <2> DEFINE at == {i \in DOMAIN s : s[i].key = j}
             c  == CHOOSE i \in at : \A x \in at : i <= x
  <2>1. m \in at /\ \A x \in at : m <= x
    OBVIOUS
  <2>2. c \in at /\ \A x \in at : c <= x
    BY <2>1
  <2>3. c = m
    BY <1>2, <2>1, <2>2
  <2> QED BY <2>1, <2>3 DEF Without
<1>4. /\ SubSeq(s, 1, m - 1) \in Seq(S) /\ Len(SubSeq(s, 1, m - 1)) = m - 1
      /\ \A i \in 1 .. m - 1 : SubSeq(s, 1, m - 1)[i] = s[i]
  BY <1>1, <1>2
<1>5. /\ SubSeq(s, m + 1, Len(s)) \in Seq(S)
      /\ Len(SubSeq(s, m + 1, Len(s))) = Len(s) - m
      /\ \A i \in 1 .. Len(s) - m : SubSeq(s, m + 1, Len(s))[i] = s[m + i]
  BY <1>1, <1>2
<1>6. PICK a, b \in Seq(S) : a = SubSeq(s, 1, m - 1) /\ b = SubSeq(s, m + 1, Len(s))
  BY <1>4, <1>5
<1>7. /\ a \o b \in Seq(S) /\ Len(a \o b) = Len(a) + Len(b)
      /\ \A i \in 1 .. Len(a) + Len(b) :
            (a \o b)[i] = IF i <= Len(a) THEN a[i] ELSE b[i - Len(a)]
  OBVIOUS
<1>8. Len(a) = m - 1 /\ Len(b) = Len(s) - m /\ Without(s, j) = a \o b
  BY <1>3, <1>4, <1>5, <1>6
<1>9. ASSUME NEW i \in 1 .. Len(s) - 1
      PROVE  (a \o b)[i] = IF i < m THEN s[i] ELSE s[i + 1]
  <2>1. CASE i < m
    BY <1>2, <1>4, <1>6, <1>7, <1>8, <2>1
  <2>2. CASE ~(i < m)
    <3>1. i - (m - 1) \in 1 .. Len(s) - m /\ m + (i - (m - 1)) = i + 1
      BY <1>2, <2>2
    <3>2. (a \o b)[i] = b[i - (m - 1)]
      BY <1>2, <1>7, <1>8, <2>2
    <3> QED BY <1>5, <1>6, <2>2, <3>1, <3>2
  <2> QED BY <2>1, <2>2
<1>10. DOMAIN (a \o b) = 1 .. Len(s) - 1
  <2>1. Len(a \o b) = Len(s) - 1
    BY <1>2, <1>7, <1>8
  <2>2. DOMAIN (a \o b) = 1 .. Len(a \o b)
    BY <1>7
  <2> QED BY <2>1, <2>2
<1> QED BY <1>2, <1>7, <1>8, <1>9, <1>10 DEF IsSeq

LEMMA RemoveClient ==
  ASSUME NEW s, IsSeq(s), NEW j
  PROVE  /\ IsSeq(Without(s, j))
         /\ NoClient(s, j) \/ (\E v : OnlyClient(s, j, v)) => NoClient(Without(s, j), j)
         /\ \A k : k # j => /\ NoClient(s, k) => NoClient(Without(s, j), k)
                            /\ \A w : OnlyClient(s, k, w) =>
                                  OnlyClient(Without(s, j), k, w)
<1>1. CASE NoClient(s, j)
  <2>1. Without(s, j) = s
    BY <1>1 DEF Without, NoClient
  <2> QED BY <1>1, <2>1
<1>2. CASE ~NoClient(s, j)
  <2> DEFINE at == {i \in DOMAIN s : s[i].key = j}
             W  == Without(s, j)
  <2>1. Len(s) \in Nat /\ DOMAIN s = 1 .. Len(s)
    BY DEF IsSeq
  <2>2. at \in SUBSET Nat /\ at # {}
    BY <1>2, <2>1 DEF NoClient
  <2>3. PICK m \in at : \A i \in at : m <= i
    BY <2>2, LeastNat
  <2>4. /\ IsSeq(W) /\ DOMAIN W = 1 .. Len(s) - 1
        /\ \A i \in 1 .. Len(s) - 1 : W[i] = IF i < m THEN s[i] ELSE s[i + 1]
    BY <2>3, Removed
  <2>5. m \in 1 .. Len(s) /\ s[m].key = j
    BY <2>1, <2>3
  <2> HIDE DEF W, at
  <2> DEFINE Old(i) == IF i < m THEN i ELSE i + 1
             New(i) == IF i < m THEN i ELSE i - 1
  <2>6. /\ \A i \in 1 .. Len(s) - 1 : Old(i) \in 1 .. Len(s) /\ Old(i) # m
                                      /\ New(Old(i)) = i
        /\ \A i \in 1 .. Len(s) : i # m => New(i) \in 1 .. Len(s) - 1 /\ Old(New(i)) = i
    BY <2>1, <2>5
  <2>7. \A i \in 1 .. Len(s) - 1 : W[i] = s[Old(i)]
    BY <2>4
  <2> HIDE DEF Old, New
  <2>8. ASSUME NEW v, OnlyClient(s, j, v) PROVE NoClient(W, j)
    BY <2>1, <2>4, <2>5, <2>6, <2>7, <2>8 DEF OnlyClient, NoClient
  <2>9. ASSUME NEW k, k # j, NoClient(s, k) PROVE NoClient(W, k)
    BY <2>1, <2>4, <2>6, <2>7, <2>9 DEF NoClient
  <2>10. ASSUME NEW k, k # j, NEW w, OnlyClient(s, k, w) PROVE OnlyClient(W, k, w)
    <3>1. PICK i \in 1 .. Len(s) : /\ s[i] = [key |-> k, value |-> w]
                                   /\ \A x \in 1 .. Len(s) : s[x].key = k => x = i
      BY <2>1, <2>10 DEF OnlyClient
    <3>2. i # m
      BY <2>5, <2>10, <3>1
    <3>3. New(i) \in 1 .. Len(s) - 1 /\ W[New(i)] = s[i]
      BY <2>6, <2>7, <3>2
    <3>4. \A x \in 1 .. Len(s) - 1 : W[x].key = k => x = New(i)
      BY <2>6, <2>7, <3>1
    <3> QED BY <2>4, <3>1, <3>3, <3>4 DEF OnlyClient
  <2> QED BY <1>2, <2>4, <2>8, <2>9, <2>10 DEF W
<1> QED BY <1>1, <1>2

-----------------------------------------------------------------------------
(* Lookups in turn *)

LEMMA Unwrapped ==
  ASSUME NEW N \in Nat, N > 0, NEW a \in 0 .. N - 1
  PROVE  (a + 1) % N = IF a + 1 = N THEN 0 ELSE a + 1
<1>1. PICK q \in Int, r \in 0 .. N - 1 : r = a % N /\ a = N * q + r
  BY Divided
<1>2. N * q + r = N * 0 + a
  BY <1>1
<1>3. r = a
  BY <1>2, Remainders
<1>4. (a + 1) % N = IF a % N = N - 1 THEN 0 ELSE (a % N) + 1
  BY NextTurn
<1> QED BY <1>1, <1>3, <1>4

LEMMA IntSeqs ==
  \A r \in Seq(Int) :
     /\ Len(r) \in Nat
     /\ \A x \in Int : /\ Append(r, x) \in Seq(Int) /\ Len(Append(r, x)) = Len(r) + 1
                       /\ Append(r, x)[Len(r) + 1] = x
                       /\ \A i \in 1 .. Len(r) : Append(r, x)[i] = r[i]
     /\ r # <<>> => /\ Tail(r) \in Seq(Int) /\ Len(Tail(r)) = Len(r) - 1
                    /\ \A i \in 1 .. Len(r) - 1 : Tail(r)[i] = r[i + 1]
  OBVIOUS

LEMMA Single ==
  Append(<<>>, 1) = <<1>> /\ <<1>> \in Seq(Int) /\ Len(<<1>>) = 1 /\ <<1>>[1] = 1
  OBVIOUS

LEMMA Relabel ==
  ASSUME NEW q, NEW n \in Int, NEW L \in Int, NEW u, Len(q) = n, n <= L,
         \A i \in 1 .. n : q[i] = Before(u, n - i, L)
  PROVE  /\ Len(q) <= L
         /\ \A i \in 1 .. Len(q) : q[i] = Before(u, Len(q) - i, L)
  OBVIOUS

\* The clients given out, when the turn goes from t to u.
LEMMA Turned ==
  ASSUME NEW L \in Nat \ {0}, NEW t \in 1 .. L, NEW r, Given(r, t, L)
  PROVE  Given(Handed(r, After(t, L), L), After(t, L), L)
<1> DEFINE u == After(t, L)
           q == Handed(r, u, L)
<1>0. /\ u = IF t = L THEN 1 ELSE t + 1
      /\ q = Append(IF Len(r) = L THEN Tail(r) ELSE r, u)
      /\ r \in Seq(Int) /\ Len(r) <= L
      /\ \A i \in 1 .. Len(r) : r[i] = Before(t, Len(r) - i, L)
  BY DEF Given, After, Handed
<1>u. u \in 1 .. L
  BY <1>0
<1> SUFFICES Given(q, u, L)
  OBVIOUS
<1> HIDE DEF u, q
<1>1. PICK n \in Nat : n = Len(r) /\ n <= L
  BY <1>0
<1>2. \A i \in 1 .. n : r[i] = Before(t, n - i, L)
  BY <1>0, <1>1
<1>3. Before(u, 0, L) = u
  BY <1>u DEF Before
<1>4. \A d \in 0 .. L - 1 : Before(u, d + 1, L) = Before(t, d, L)
  <2>1. CASE t = L
    BY <1>0, <2>1 DEF Before
  <2>2. CASE t # L
    BY <1>0, <2>2 DEF Before
  <2> QED BY <2>1, <2>2
<1>5. CASE n = L
  <2>1. r # <<>>
    BY <1>0, <1>1, <1>5
  <2>2. PICK w \in Seq(Int) : /\ w = Tail(r) /\ Len(w) = L - 1
                              /\ \A i \in 1 .. L - 1 : w[i] = r[i + 1]
    <3>1. Tail(r) \in Seq(Int) /\ Len(Tail(r)) = Len(r) - 1
          /\ \A i \in 1 .. Len(r) - 1 : Tail(r)[i] = r[i + 1]
      BY <1>0, <2>1, IntSeqs
    <3>2. Len(r) = L
      BY <1>1, <1>5
    <3> QED BY <3>1, <3>2, Zenon
  <2>3. q = Append(w, u)
    BY <1>0, <1>1, <1>5, <2>2
  <2>4. /\ q \in Seq(Int) /\ Len(q) = L /\ q[L] = u
        /\ \A i \in 1 .. L - 1 : q[i] = w[i]
    BY <1>u, <2>2, <2>3
  <2>5. ASSUME NEW i \in 1 .. L PROVE q[i] = Before(u, L - i, L)
    <3>1. CASE i = L
      BY <1>3, <2>4, <3>1
    <3>2. CASE i # L
      <4>1. i \in 1 .. L - 1 /\ i + 1 \in 1 .. L /\ L - (i + 1) \in 0 .. L - 1
            /\ L - (i + 1) + 1 = L - i
        BY <3>2
      <4>2. q[i] = r[i + 1] /\ r[i + 1] = Before(t, L - (i + 1), L)
        BY <1>2, <1>5, <2>2, <2>4, <4>1
      <4> QED BY <1>4, <4>1, <4>2
    <3> QED BY <3>1, <3>2
  <2>6. L \in Int /\ L <= L
    OBVIOUS
  <2>7. /\ Len(q) <= L /\ \A i \in 1 .. Len(q) : q[i] = Before(u, Len(q) - i, L)
    BY <2>4, <2>5, <2>6, Relabel, Zenon
  <2> QED BY <2>4, <2>7, Zenon DEF Given
<1>6. CASE n # L
  <2>1. n < L
    BY <1>1, <1>6
  <2>2. q = Append(r, u)
    BY <1>0, <1>1, <1>6
  <2>3. /\ q \in Seq(Int) /\ Len(q) = n + 1 /\ q[n + 1] = u
        /\ \A i \in 1 .. n : q[i] = r[i]
    BY <1>0, <1>1, <1>u, <2>2
  <2>4. ASSUME NEW i \in 1 .. n + 1 PROVE q[i] = Before(u, n + 1 - i, L)
    <3>1. CASE i = n + 1
      BY <1>3, <2>3, <3>1
    <3>2. CASE i # n + 1
      <4>1. i \in 1 .. n /\ n - i \in 0 .. L - 1 /\ n - i + 1 = n + 1 - i
        BY <2>1, <3>2
      <4>2. q[i] = r[i] /\ r[i] = Before(t, n - i, L)
        BY <1>2, <2>3, <4>1
      <4> QED BY <1>4, <4>1, <4>2
    <3> QED BY <3>1, <3>2
  <2>5. n + 1 <= L
    BY <2>1
  <2>6. L \in Int /\ n + 1 \in Int
    OBVIOUS
  <2>7. PICK m \in Int : m = n + 1
    BY <2>6
  <2>8. Len(q) = m /\ m <= L /\ \A i \in 1 .. m : q[i] = Before(u, m - i, L)
    <3>1. ASSUME NEW i \in 1 .. m PROVE q[i] = Before(u, m - i, L)
      <4>1. i \in 1 .. n + 1 /\ n + 1 - i = m - i
        BY <2>7
      <4> QED BY <2>4, <4>1, Zenon
    <3> QED BY <2>3, <2>5, <2>7, <3>1
  <2>9. /\ Len(q) <= L /\ \A i \in 1 .. Len(q) : q[i] = Before(u, Len(q) - i, L)
    BY <2>6, <2>8, Relabel, Zenon
  <2> QED BY <2>3, <2>9, Zenon DEF Given
<1> QED BY <1>5, <1>6

LEMMA ZeroTurn == \A L \in Nat : L > 0 => 0 % L = 0
<1> SUFFICES ASSUME NEW L \in Nat, L > 0 PROVE 0 % L = 0
  OBVIOUS
<1>1. PICK q \in Int, r \in 0 .. L - 1 : r = 0 % L /\ 0 = L * q + r
  BY Divided
<1>2. L * q + r = L * 0 + 0
  BY <1>1
<1> QED BY <1>1, <1>2, Remainders

\* What get_service makes of the clients given out; when the counter wraps
\* they are forgotten.
LEMMA TakeTurn ==
  ASSUME NEW L \in Nat \ {0}, NEW a \in 0 .. IdxLimit - 1, NEW r,
         r = <<>> \/ Given(r, TurnOf(a, L), L),
         NEW b, b = (a + 1) % IdxLimit
  PROVE  /\ b \in 0 .. IdxLimit - 1
         /\ Given(Handed(IF a + 1 = IdxLimit THEN <<>> ELSE r, TurnOf(b, L), L),
                  TurnOf(b, L), L)
<1>0. IdxLimit \in Nat /\ IdxLimit > 0 /\ L \in Nat /\ L > 0
  BY PoolAssumption
<1>1. b = IF a + 1 = IdxLimit THEN 0 ELSE a + 1
  BY <1>0, Unwrapped
<1>2. b \in 0 .. IdxLimit - 1 /\ b \in Nat /\ a \in Nat
  BY <1>0, <1>1
<1>3. a % L \in 0 .. L - 1 /\ (a + 1) % L = IF a % L = L - 1 THEN 0 ELSE (a % L) + 1
  BY <1>0, <1>2, NextTurn
<1>4. /\ TurnOf(a, L) \in 1 .. L
      /\ b = a + 1 => TurnOf(b, L) = After(TurnOf(a, L), L)
  BY <1>3 DEF TurnOf, After
<1>5. b = 0 => TurnOf(b, L) = 1
  BY <1>0, ZeroTurn DEF TurnOf
<1>6. ASSUME NEW t \in 1 .. L PROVE Given(<<>>, t, L)
  <2>1. <<>> \in Seq(Int) /\ Len(<<>>) = 0 /\ 0 <= L /\ \A i \in 1 .. 0 : FALSE
    OBVIOUS
  <2> QED BY <2>1, Zenon DEF Given
<1>7. CASE a + 1 = IdxLimit
  <2>1. Given(Handed(<<>>, 1, L), 1, L)
    <3>1. L \in 1 .. L /\ After(L, L) = 1
      BY DEF After
    <3>2. Given(Handed(<<>>, After(L, L), L), After(L, L), L)
      BY <1>6, <3>1, Turned
    <3> QED BY <3>1, <3>2
  <2> QED BY <1>1, <1>2, <1>5, <1>7, <2>1
<1>8. CASE a + 1 # IdxLimit
  <2>1. Given(r, TurnOf(a, L), L)
    BY <1>4, <1>6
  <2>2. Given(Handed(r, After(TurnOf(a, L), L), L), After(TurnOf(a, L), L), L)
    BY <1>4, <2>1, Turned
  <2> QED BY <1>1, <1>2, <1>4, <1>8, <2>2
<1> QED BY <1>7, <1>8

\* A service that loses or gains a client starts anew.
LEMMA TurnKept ==
  ASSUME TurnInv, idx' = idx, DOMAIN recent' = Services,
         \A s \in Services : \/ recent'[s] = <<>>
                             \/ recent'[s] = recent[s] /\ clients'[s] = clients[s]
  PROVE  TurnInv'
<1>1. ASSUME NEW s \in Services PROVE recent'[s] \in Seq(Int) /\ Turning(s)'
  <2>1. CASE recent'[s] = <<>>
    BY <2>1 DEF Turning
  <2>2. CASE recent'[s] = recent[s] /\ clients'[s] = clients[s]
    BY <2>2 DEF TurnInv, Turning
  <2> QED BY <2>1, <2>2
<1> QED BY <1>1 DEF TurnInv

ClientSeqs == DOMAIN clients = Services /\ \A s \in Services : IsSeq(clients[s])

LEMMA StepGetService ==
  ASSUME TurnInv, ClientSeqs, NEW c \in Callers, get_service(c)
  PROVE  TurnInv'
<1>1. PICK s : s = call[c]
  OBVIOUS
<1>2. CASE UNCHANGED <<idx, recent>>
  BY <1>2, TurnKept DEF get_service, TurnInv
<1>3. CASE ~UNCHANGED <<idx, recent>> /\ s \notin Services
  <2>1. DOMAIN idx = Services /\ DOMAIN recent = Services
    BY DEF TurnInv
  <2>2. PICK a, b : /\ clients' = clients /\ idx' = [idx EXCEPT ![s] = a]
                    /\ recent' = [recent EXCEPT ![s] = b]
    BY <1>1, <1>3 DEF get_service
  <2>3. idx = [x \in Services |-> idx[x]]
    BY DEF TurnInv
  <2>4. clients' = clients /\ idx' = idx /\ DOMAIN recent' = Services
        /\ \A x \in Services : recent'[x] = recent[x]
    BY <1>3, <2>1, <2>2, <2>3
  <2> QED BY <2>4, TurnKept
<1>4. CASE ~UNCHANGED <<idx, recent>> /\ s \in Services
  <2>0. PICK L, a, r : L = Len(clients[s]) /\ a = idx[s] /\ r = recent[s]
    OBVIOUS
  <2> DEFINE b == (a + 1) % IdxLimit
             q == Handed(IF a + 1 = IdxLimit THEN <<>> ELSE r, TurnOf(b, L), L)
  <2>1. /\ clients[s] # <<>> /\ idx' = [idx EXCEPT ![s] = b]
        /\ recent' = [recent EXCEPT ![s] = q] /\ clients' = clients
    BY <1>1, <1>4, <2>0 DEF get_service, Turn, Handed, TurnOf
  <2>2. L \in Nat \ {0}
    BY <1>4, <2>0, <2>1 DEF ClientSeqs, IsSeq
  <2>3. a \in 0 .. IdxLimit - 1 /\ (r = <<>> \/ Given(r, TurnOf(a, L), L))
    BY <1>4, <2>0 DEF TurnInv, Turning
  <2>4. b \in 0 .. IdxLimit - 1 /\ Given(q, TurnOf(b, L), L)
    BY <2>2, <2>3, TakeTurn
  <2> HIDE DEF q, b
  <2>5. /\ idx' = [x \in Services |-> idx'[x]] /\ DOMAIN recent' = Services
        /\ idx'[s] = b /\ recent'[s] = q
        /\ \A x \in Services \ {s} : idx'[x] = idx[x] /\ recent'[x] = recent[x]
    BY <1>4, <2>1 DEF TurnInv
  <2>6. Turning(s)' /\ recent'[s] \in Seq(Int)
    BY <2>0, <2>1, <2>2, <2>4, <2>5 DEF Turning, Given
  <2>7. \A x \in Services \ {s} : Turning(x)'
    BY <2>1, <2>5 DEF TurnInv, Turning
  <2> QED BY <2>4, <2>5, <2>6, <2>7 DEF TurnInv
<1> QED BY <1>2, <1>3, <1>4

-----------------------------------------------------------------------------
(* The directory *)

LEMMA Lasts ==
  ASSUME NEW k, NEW i \in Nat
  PROVE  /\ LastOf(k, i) \in 0 .. i
         /\ LastOf(k, i) = 0 => \A j \in 1 .. i : ~Touches(log[j], k)
         /\ LastOf(k, i) # 0 => /\ Touches(log[LastOf(k, i)], k)
                                /\ \A j \in 1 .. i : Touches(log[j], k) => j <= LastOf(k, i)
<1> DEFINE at == {j \in 1 .. i : Touches(log[j], k)}
           c  == CHOOSE j \in at : \A m \in at : m <= j
<1>1. LastOf(k, i) = IF at = {} THEN 0 ELSE c
  BY DEF LastOf
<1>2. CASE at = {}
  BY <1>1, <1>2
<1>3. CASE at # {}
  <2>1. at \in SUBSET (1 .. i)
    OBVIOUS
  <2>2. \E j \in at : \A m \in at : m <= j
    BY <1>3, <2>1, Greatest
  <2>3. c \in at /\ \A m \in at : m <= c
    BY <2>2
  <2>4. LastOf(k, i) = c
    BY <1>1, <1>3
  <2> HIDE DEF c
  <2>5. c \in 1 .. i /\ Touches(log[c], k) /\ \A j \in 1 .. i : Touches(log[j], k) => j <= c
    BY <2>3
  <2>6. c \in 0 .. i /\ c # 0
    BY <2>5
  <2> QED BY <2>4, <2>5, <2>6
<1> QED BY <1>2, <1>3

LEMMA LastIs ==
  ASSUME NEW k, NEW i \in Nat, NEW x \in 1 .. i, Touches(log[x], k),
         \A j \in x + 1 .. i : ~Touches(log[j], k)
  PROVE  LastOf(k, i) = x
<1>1. PICK c \in 0 .. i :
         /\ c = LastOf(k, i)
         /\ c = 0 => \A j \in 1 .. i : ~Touches(log[j], k)
         /\ c # 0 => /\ Touches(log[c], k)
                     /\ \A j \in 1 .. i : Touches(log[j], k) => j <= c
  BY Lasts
<1>2. c # 0 /\ x <= c
  BY <1>1
<1>3. ~(c \in x + 1 .. i)
  BY <1>1, <1>2
<1> QED BY <1>1, <1>2, <1>3

LEMMA LastSame ==
  ASSUME NEW k, NEW i \in Nat, NEW n \in Nat, i <= n,
         \A j \in i + 1 .. n : ~Touches(log[j], k)
  PROVE  LastOf(k, n) = LastOf(k, i)
<1>1. PICK c \in 0 .. i :
         /\ c = LastOf(k, i)
         /\ c = 0 => \A j \in 1 .. i : ~Touches(log[j], k)
         /\ c # 0 => /\ Touches(log[c], k)
                     /\ \A j \in 1 .. i : Touches(log[j], k) => j <= c
  BY Lasts
<1>2. CASE c = 0
  <2>1. \A j \in 1 .. n : ~Touches(log[j], k)
    <3>1. \A j \in 1 .. n : j \in 1 .. i \/ j \in i + 1 .. n
      OBVIOUS
    <3> QED BY <1>1, <1>2, <3>1
  <2>2. PICK d \in 0 .. n : d = LastOf(k, n) /\ (d # 0 => Touches(log[d], k))
    BY Lasts
  <2>3. d = 0
    BY <2>1, <2>2
  <2> QED BY <1>1, <1>2, <2>2, <2>3
<1>3. CASE c # 0
  <2>1. c \in 1 .. n /\ Touches(log[c], k)
    BY <1>1, <1>3
  <2>2. ASSUME NEW j \in c + 1 .. n PROVE ~Touches(log[j], k)
    <3>1. j \in 1 .. i \/ j \in i + 1 .. n
      BY <2>1
    <3>2. j \in 1 .. i => ~Touches(log[j], k)
      BY <1>1, <1>3, <2>2
    <3> QED BY <3>1, <3>2
  <2>3. LastOf(k, n) = c
    BY <2>1, <2>2, LastIs
  <2> QED BY <1>1, <2>3
<1> QED BY <1>2, <1>3

\* What was stored does not change as the log grows.
LEMMA LogGrows ==
  ASSUME IsSeq(log), log' = log \/ \E e : log' = Append(log, e)
  PROVE  /\ IsSeq(log') /\ Len(log) \in Nat /\ Len(log') \in Nat /\ Len(log) <= Len(log')
         /\ \A j \in 1 .. Len(log) : log'[j] = log[j]
         /\ \A k : \A i \in 0 .. Len(log) :
               /\ LastOf(k, i)' = LastOf(k, i) /\ Present(k, i)' = Present(k, i)
               /\ Present(k, i) => ValueAt(k, i)' = ValueAt(k, i)
               /\ \A s : Stored(k, i, s)' = Stored(k, i, s)
<1>1. Len(log) \in Nat
  BY DEF IsSeq
<1>2. /\ IsSeq(log') /\ Len(log') \in Nat /\ Len(log) <= Len(log')
      /\ \A j \in 1 .. Len(log) : log'[j] = log[j]
  <2>1. CASE log' = log
    BY <1>1, <2>1
  <2>2. CASE \E e : log' = Append(log, e)
    <3>1. PICK e : log' = Append(log, e)
      BY <2>2
    <3>2. /\ IsSeq(log') /\ Len(log') = Len(log) + 1
          /\ \A j \in 1 .. Len(log) : log'[j] = log[j]
      BY <3>1, Appended
    <3> QED BY <1>1, <3>2
  <2> QED BY <2>1, <2>2
<1>3. ASSUME NEW k, NEW i \in 0 .. Len(log)
      PROVE  /\ LastOf(k, i)' = LastOf(k, i) /\ Present(k, i)' = Present(k, i)
             /\ Present(k, i) => ValueAt(k, i)' = ValueAt(k, i)
             /\ \A s : Stored(k, i, s)' = Stored(k, i, s)
  <2>1. \A j \in 1 .. i : log'[j] = log[j]
    BY <1>1, <1>2
  <2>2. {j \in 1 .. i : Touches(log'[j], k)} = {j \in 1 .. i : Touches(log[j], k)}
    BY <2>1
  <2>3. LastOf(k, i)' = LastOf(k, i)
    <3> DEFINE Latest(at) == IF at = {} THEN 0 ELSE CHOOSE j \in at : \A m \in at : m <= j
    <3>1. LastOf(k, i) = Latest({j \in 1 .. i : Touches(log[j], k)})
      BY DEF LastOf
    <3>2. LastOf(k, i)' = Latest({j \in 1 .. i : Touches(log'[j], k)})
      BY DEF LastOf, Touches
    <3> HIDE DEF Latest
    <3> QED BY <2>2, <3>1, <3>2
  <2>4. PICK c : c = LastOf(k, i) /\ (c # 0 => c \in 1 .. i)
    BY <1>1, Lasts
  <2>5. c # 0 => log'[c] = log[c]
    BY <2>1, <2>4
  <2>6. Present(k, i)' = Present(k, i)
    BY <2>3, <2>4, <2>5 DEF Present
  <2>7. Present(k, i) => ValueAt(k, i)' = ValueAt(k, i)
    BY <2>3, <2>4, <2>5 DEF Present, ValueAt
  <2>8. ASSUME NEW s PROVE Stored(k, i, s)' = Stored(k, i, s)
    BY <2>6, <2>7 DEF Stored, ValueAt
  <2> QED BY <2>3, <2>6, <2>7, <2>8
<1> QED BY <1>1, <1>2, <1>3

\* A change of an instance of a service comes to the watcher.
LEMMA Watched ==
  ASSUME NEW k \in Followed, NEW e, Touches(e, k)
  PROVE  In(Services, e)
BY DEF Followed, Touches, In

LEMMA NextIs ==
  ASSUME NEW i \in Nat, NEW n \in Nat, NEW dirs, Between(i, n, dirs) # {},
         NEW j, j = CHOOSE x \in Between(i, n, dirs) :
                       \A m \in Between(i, n, dirs) : x <= m
  PROVE  /\ j \in i + 1 .. n /\ In(dirs, log[j])
         /\ \A m \in i + 1 .. j - 1 : ~In(dirs, log[m])
<1> DEFINE B == Between(i, n, dirs)
<1>1. B \in SUBSET Nat
  BY DEF Between
<1>2. \E x \in B : \A m \in B : x <= m
  BY <1>1, LeastNat
<1>3. j \in B /\ \A m \in B : j <= m
  BY <1>2
<1>4. j \in i + 1 .. n /\ In(dirs, log[j])
  BY <1>3 DEF Between
<1>5. ASSUME NEW m \in i + 1 .. j - 1 PROVE ~In(dirs, log[m])
  <2>1. m \in i + 1 .. n /\ ~(j <= m)
    BY <1>4
  <2> QED BY <1>3, <2>1 DEF Between
<1> QED BY <1>4, <1>5

-----------------------------------------------------------------------------
(* Steps *)

\* A step that leaves the clients and their sources alone: lookups, the
\* registration of a subscriber, and changes of the directory.
LEMMA Untouched ==
  ASSUME PoolInv, UNCHANGED <<clients, boot, watch, hand>>,
         log' = log \/ \E e : log' = Append(log, e),
         mu' = mu \/ (mu.who \notin {"main", "watcher"} /\ mu'.who \notin {"main", "watcher"}),
         DOMAIN sub' = {"pc", "next", "ch"}, sub'.pc = "sending" => mu'.who = "register"
  PROVE  PoolInv'
<1>1. /\ IsSeq(log) /\ boot.listed \in Nat /\ boot.listed <= Len(log)
      /\ watch \in WatchType /\ watch.at \in Nat /\ watch.at <= Len(log)
      /\ boot.pc = "done" => boot.listed <= watch.at
  BY DEF PoolInv, PoolTypes, WatchType
<1>2. /\ IsSeq(log') /\ Len(log) \in Nat /\ Len(log') \in Nat /\ Len(log) <= Len(log')
      /\ \A j \in 1 .. Len(log) : log'[j] = log[j]
      /\ \A k : \A i \in 0 .. Len(log) :
            /\ Present(k, i)' = Present(k, i)
            /\ Present(k, i) => ValueAt(k, i)' = ValueAt(k, i)
            /\ \A s : Stored(k, i, s)' = Stored(k, i, s)
  BY <1>1, LogGrows
<1>3. PoolTypes'
  BY <1>1, <1>2 DEF PoolInv, PoolTypes
<1>4. PICK b, w \in 0 .. Len(log) : b = boot.listed /\ w = watch.at
  BY <1>1, <1>2
<1>5. Unwatched' /\ Unlisted'
  BY DEF PoolInv, Unwatched, Unlisted
<1>6. \A k : Owed(k)' = Owed(k)
  BY DEF Owed
<1>7. Adding'
  <2>1. ASSUME boot.pc = "add", NEW e \in boot.todo
        PROVE  /\ Present(e.key, b)' /\ e = [key |-> e.key, value |-> ValueAt(e.key, b)']
    BY <1>2, <1>4, <2>1 DEF PoolInv, Adding
  <2>2. ASSUME boot.pc = "add", mu'.who = "main", NEW k, k = mu'.key
        PROVE  /\ Present(k, b)' /\ mu'.value = ValueAt(k, b)'
               /\ \A e \in boot.todo : e.key # k
    <3>1. mu' = mu /\ Present(k, b) /\ mu.value = ValueAt(k, b)
          /\ \A e \in boot.todo : e.key # k
      BY <1>4, <2>2 DEF PoolInv, Adding
    <3> QED BY <1>2, <3>1
  <2>3. ASSUME boot.pc = "add", NEW k \in Followed, NEW s, s = clients[Dir[k]]
        PROVE  IF Owed(k)' THEN NoClient(s, k) ELSE Stored(k, b, s)'
    <3>1. IF Owed(k) THEN NoClient(s, k) ELSE Stored(k, b, s)
      BY <1>4, <2>3 DEF PoolInv, Adding
    <3>2. Stored(k, b, s)' = Stored(k, b, s)
      BY <1>2
    <3> QED BY <1>6, <3>1, <3>2
  <2> QED BY <1>4, <2>1, <2>2, <2>3 DEF Adding

<1>8. ASSUME NEW k, Simple(k)' PROVE Simple(k)
  <2>1. \A j \in b + 1 .. Len(log) : /\ j \in b + 1 .. Len(log') /\ j - 1 \in 0 .. Len(log)
                                     /\ j \in 1 .. Len(log)
    BY <1>2
  <2>2. \A j \in b + 1 .. Len(log') : Touches(log'[j], k) =>
           \/ log'[j].action = "delete"
           \/ log'[j].action = "set" /\ ~Present(k, j - 1)'
    BY <1>4, <1>8 DEF Simple, Touches
  <2>3. \A j \in b + 1 .. Len(log) : Touches(log[j], k) =>
           \/ log[j].action = "delete"
           \/ log[j].action = "set" /\ ~Present(k, j - 1)
    BY <1>2, <2>1, <2>2
  <2> QED BY <1>4, <2>3 DEF Simple
<1>9. ASSUME boot.pc = "done", NEW k \in Followed, Received(k) PROVE Received(k)'
  <2>1. PICK s : s = clients[Dir[k]]
    OBVIOUS
  <2>2. /\ Present(k, w)' = Present(k, w)
        /\ Present(k, w) => ValueAt(k, w)' = ValueAt(k, w)
        /\ Stored(k, w, s)' = Stored(k, w, s)
    BY <1>2
  <2>3. (mu'.who = "watcher" /\ mu'.key = k) = (mu.who = "watcher" /\ mu.key = k)
    OBVIOUS
  <2>4. mu.who = "watcher" => mu' = mu
    OBVIOUS
  <2>5. CASE mu.who = "watcher" /\ mu.key = k
    BY <1>4, <1>9, <2>1, <2>2, <2>4, <2>5 DEF Received
  <2>6. CASE ~(mu.who = "watcher" /\ mu.key = k) /\ hand # NoEvent /\ Touches(hand, k)
    BY <1>4, <1>9, <2>1, <2>2, <2>3, <2>6 DEF Received
  <2>7. CASE ~(mu.who = "watcher" /\ mu.key = k) /\ ~(hand # NoEvent /\ Touches(hand, k))
    BY <1>4, <1>9, <2>1, <2>2, <2>3, <2>7 DEF Received
  <2> QED BY <2>5, <2>6, <2>7
<1>10. Following'
  BY <1>8, <1>9 DEF PoolInv, Following
<1> QED BY <1>3, <1>5, <1>7, <1>10 DEF PoolInv

LEMMA StepGet ==
  ASSUME PoolInv, Get, log' = log
  PROVE  PoolInv'
<1>1. /\ IsSeq(log) /\ DOMAIN boot = {"pc", "todo", "listed"} /\ Len(log) \in Nat
      /\ boot.pc = "get" /\ UNCHANGED <<clients, watch, hand, mu, sub>>
      /\ \A s \in Services : clients[s] = <<>>
      /\ mu.who # "main" /\ mu.who # "watcher" /\ hand = NoEvent /\ ~watch.live
  BY DEF PoolInv, PoolTypes, Unwatched, Unlisted, Get, IsSeq
<1>2. CASE boot' = [boot EXCEPT !.pc = "gone"]
  <2>1. boot'.pc = "gone" /\ boot'.listed = boot.listed
        /\ DOMAIN boot' = {"pc", "todo", "listed"}
    BY <1>1, <1>2
  <2>2. PoolTypes'
    BY <1>1, <2>1 DEF PoolInv, PoolTypes
  <2> QED BY <1>1, <2>1, <2>2 DEF PoolInv, Unwatched, Unlisted, Adding, Following
<1>3. CASE boot' = [pc |-> "add", todo |-> Listing(Services), listed |-> Len(log)]
  <2>1. /\ boot'.pc = "add" /\ boot'.todo = Listing(Services) /\ boot'.listed = Len(log)
        /\ DOMAIN boot' = {"pc", "todo", "listed"}
    BY <1>3
  <2>2. PoolTypes'
    BY <1>1, <2>1 DEF PoolInv, PoolTypes
  <2>3. PICK n \in Nat : n = Len(log)
    BY <1>1
  <2>4. \A k : /\ Present(k, n)' = Present(k, n) /\ ValueAt(k, n)' = ValueAt(k, n)
    BY DEF Present, ValueAt, LastOf
  <2>5. \A e \in Listing(Services) : /\ Present(e.key, n)
                                     /\ e = [key |-> e.key, value |-> ValueAt(e.key, n)]
    BY <2>3 DEF Listing, ValueAt
  <2>6. ASSUME NEW k \in Followed, Present(k, n)
        PROVE  \E e \in Listing(Services) : e.key = k
    <3> DEFINE e == [key |-> k, value |-> log[LastOf(k, n)].value]
    <3>1. e \in Listing(Services)
      BY <2>3, <2>6 DEF Listing, Followed
    <3> QED BY <3>1
  <2>7. ASSUME NEW k \in Followed, NEW s, s = clients[Dir[k]]
        PROVE  IF Owed(k)' THEN NoClient(s, k) ELSE Stored(k, n, s)'
    <3>1. s = <<>>
      BY <1>1, <2>7 DEF Followed
    <3>2. NoClient(<<>>, k)
      BY DEF NoClient
    <3>3. ~Owed(k)' => ~Present(k, n)'
      BY <2>1, <2>4, <2>6 DEF Owed
    <3>4. ~Owed(k)' => Stored(k, n, <<>>)'
      BY <3>2, <3>3 DEF Stored
    <3> QED BY <3>1, <3>2, <3>4
  <2>8. Adding'
    <3>1. \A e \in boot'.todo : /\ Present(e.key, n)'
                                /\ e = [key |-> e.key, value |-> ValueAt(e.key, n)']
      BY <2>1, <2>4, <2>5
    <3> QED BY <1>1, <2>1, <2>3, <2>7, <3>1 DEF Adding
  <2> QED BY <1>1, <2>1, <2>2, <2>8 DEF PoolInv, Unwatched, Unlisted, Following
<1> QED BY <1>2, <1>3 DEF Get

LEMMA SameLog ==
  ASSUME log' = log
  PROVE  \A k, i : /\ LastOf(k, i)' = LastOf(k, i) /\ Present(k, i)' = Present(k, i)
                   /\ ValueAt(k, i)' = ValueAt(k, i)
                   /\ \A s : Stored(k, i, s)' = Stored(k, i, s)
<1>1. \A k, i : /\ LastOf(k, i)' = LastOf(k, i) /\ Present(k, i)' = Present(k, i)
                /\ ValueAt(k, i)' = ValueAt(k, i)
  BY DEF LastOf, Present, ValueAt
<1>2. \A k, i, s : Stored(k, i, s)' = Stored(k, i, s)
  BY <1>1 DEF Stored, ValueAt
<1> QED BY <1>1, <1>2

\* The clients of other keys stay.
LEMMA OthersKept ==
  ASSUME NEW s, IsSeq(s), NEW j, NEW v, NEW t,
         t = Append(s, Client(j, v)) \/ t = Without(s, j)
  PROVE  /\ IsSeq(t)
         /\ \A k, i : k # j => /\ NoClient(s, k) => NoClient(t, k)
                               /\ Stored(k, i, s) => Stored(k, i, t)
<1>1. IsSeq(t) /\ \A k : k # j => /\ NoClient(s, k) => NoClient(t, k)
                                  /\ \A w : OnlyClient(s, k, w) => OnlyClient(t, k, w)
  <2>1. CASE t = Append(s, Client(j, v))
    BY <2>1, AddClient
  <2>2. CASE t = Without(s, j)
    BY <2>2, RemoveClient
  <2> QED BY <2>1, <2>2
<1> QED BY <1>1 DEF Stored

\* An instance that was listed is taken up: dialed, or passed over.
LEMMA StepAddListed ==
  ASSUME PoolInv, AddListed, log' = log
  PROVE  PoolInv'
<1>1. PICK e \in boot.todo : /\ add_service("main", e.key, e.value)
                             /\ boot' = [boot EXCEPT !.todo = @ \ {e}]
  BY DEF AddListed
<1>2. /\ DOMAIN boot = {"pc", "todo", "listed"} /\ boot.pc = "add" /\ mu = Unlocked
      /\ UNCHANGED <<clients, watch, hand, sub>>
  BY <1>1 DEF PoolInv, PoolTypes, AddListed, add_service
<1>3. /\ boot'.pc = "add" /\ boot'.listed = boot.listed /\ boot'.todo = boot.todo \ {e}
      /\ DOMAIN boot' = {"pc", "todo", "listed"}
  BY <1>1, <1>2
<1>4. /\ mu.who = "nobody"
      /\ \/ /\ Known(Dir[e.key]) /\ mu'.who = "main" /\ mu'.key = e.key /\ mu'.value = e.value
         \/ ~Known(Dir[e.key]) /\ mu' = mu
  <2>1. mu.who = "nobody"
    BY <1>2 DEF Unlocked
  <2>2. \/ /\ Known(Dir[e.key])
           /\ mu' = [who |-> "main", key |-> e.key, value |-> e.value]
        \/ ~Known(Dir[e.key]) /\ mu' = mu
    BY <1>1 DEF add_service
  <2> QED BY <2>1, <2>2
<1>5. PoolTypes'
  BY <1>2, <1>3, <1>4 DEF PoolInv, PoolTypes
<1>6. Unwatched' /\ Unlisted' /\ Following'
  BY <1>2, <1>3, <1>4 DEF PoolInv, Unwatched, Unlisted, Following
<1>7. PICK b : b = boot.listed
  OBVIOUS
<1>8. \A x \in boot.todo : /\ Present(x.key, b)
                           /\ x = [key |-> x.key, value |-> ValueAt(x.key, b)]
  BY <1>2, <1>7 DEF PoolInv, Adding
<1>9. \A x \in boot.todo : x.key = e.key => x = e
  BY <1>8
<1>10. ASSUME NEW k \in Followed, NEW s, s = clients[Dir[k]]
       PROVE  IF Owed(k)' THEN NoClient(s, k) ELSE Stored(k, b, s)'
  <2>1. Owed(k)' <=> Owed(k)
    BY <1>3, <1>4, <1>9 DEF Owed, Followed
  <2>2. IF Owed(k) THEN NoClient(s, k) ELSE Stored(k, b, s)
    BY <1>2, <1>7, <1>10 DEF PoolInv, Adding
  <2> QED BY <2>1, <2>2, SameLog
<1>11. Adding'
  <2>1. \A x \in boot'.todo : /\ Present(x.key, b)'
                              /\ x = [key |-> x.key, value |-> ValueAt(x.key, b)']
    BY <1>3, <1>8, SameLog
  <2>2. ASSUME mu'.who = "main", NEW k, k = mu'.key
        PROVE  /\ Present(k, b)' /\ mu'.value = ValueAt(k, b)'
               /\ \A x \in boot'.todo : x.key # k
    <3>1. k = e.key /\ mu'.value = e.value
      BY <1>4, <2>2
    <3>2. Present(k, b) /\ e.value = ValueAt(k, b)
      BY <1>8, <3>1
    <3> QED BY <1>3, <1>9, <3>1, <3>2, SameLog
  <2> QED BY <1>2, <1>3, <1>7, <1>10, <2>1, <2>2 DEF Adding
<1> QED BY <1>5, <1>6, <1>11 DEF PoolInv

\* connect_all is done: what was listed is there.
LEMMA StepConnectDone ==
  ASSUME PoolInv, ConnectDone, log' = log
  PROVE  PoolInv'
<1>1. /\ DOMAIN boot = {"pc", "todo", "listed"} /\ boot.pc = "add" /\ boot.todo = {}
      /\ mu.who # "main" /\ mu.who # "watcher" /\ hand = NoEvent
      /\ boot.listed \in Nat /\ boot.listed <= Len(log)
      /\ boot' = [boot EXCEPT !.pc = "done"] /\ watch' = WatchFrom(boot.listed)
      /\ UNCHANGED <<clients, hand, mu, sub>>
  BY DEF PoolInv, PoolTypes, Unwatched, ConnectDone
<1>2. /\ boot'.pc = "done" /\ boot'.listed = boot.listed
      /\ DOMAIN boot' = {"pc", "todo", "listed"}
      /\ watch' \in WatchType /\ watch'.at = boot.listed
  BY <1>1 DEF WatchFrom, WatchType
<1>3. PoolTypes'
  <2>1. \A n \in Nat : n <= n
    OBVIOUS
  <2> QED BY <1>1, <1>2, <2>1 DEF PoolInv, PoolTypes
<1>4. PICK b : b = boot.listed
  OBVIOUS
<1>5. ASSUME NEW k \in Followed PROVE Received(k)'
  <2>1. PICK s : s = clients[Dir[k]]
    OBVIOUS
  <2>2. ~Owed(k)
    BY <1>1 DEF Owed
  <2>3. Stored(k, b, s)
    BY <1>1, <1>4, <2>1, <2>2 DEF PoolInv, Adding
  <2>4. Stored(k, b, s)'
    BY <2>3, SameLog
  <2> QED BY <1>1, <1>2, <1>4, <2>1, <2>4 DEF Received
<1> QED BY <1>1, <1>2, <1>3, <1>5 DEF PoolInv, Unwatched, Unlisted, Adding, Following

\* An instance answers: its client is added, and nobody dials any more.
LEMMA StepDialed ==
  ASSUME PoolInv, Dialed, log' = log
  PROVE  PoolInv'
<1>1. PICK j, v, d : j = mu.key /\ v = mu.value /\ d = Dir[j]
  OBVIOUS
<1>2. /\ mu.who \in {"main", "watcher"} /\ mu' = Unlocked
      /\ clients' = [clients EXCEPT ![d] = Append(@, Client(j, v))]
      /\ UNCHANGED <<boot, watch, hand>>
      /\ DOMAIN clients = Services /\ \A s \in Services : IsSeq(clients[s])
  BY <1>1 DEF PoolInv, PoolTypes, Dialed, Client
<1>3. mu'.who = "nobody"
  BY <1>2 DEF Unlocked
<1>4. DOMAIN sub' = {"pc", "next", "ch"} /\ sub'.pc # "sending"
  <2>1. DOMAIN sub = {"pc", "next", "ch"} /\ sub.pc # "sending"
    BY <1>2 DEF PoolInv, PoolTypes
  <2>2. sub' = sub \/ sub' = [sub EXCEPT !.ch = @ + 1]
    BY DEF Dialed
  <2> QED BY <2>1, <2>2
<1>5. /\ DOMAIN clients' = Services
      /\ \A s \in Services : clients'[s] = IF s = d THEN Append(clients[s], Client(j, v))
                                           ELSE clients[s]
  BY <1>2
<1>6. \A s \in Services : IsSeq(clients'[s])
  BY <1>2, <1>5, AddClient
<1>7. PoolTypes'
  BY <1>2, <1>3, <1>4, <1>5, <1>6 DEF PoolInv, PoolTypes
<1>8. boot.pc # "get"
  BY <1>2 DEF PoolInv, Unwatched, Unlisted
<1>9. Unwatched' /\ Unlisted'
  BY <1>2, <1>3, <1>8 DEF PoolInv, Unwatched, Unlisted
<1>10. PICK b, w : b = boot.listed /\ w = watch.at
  OBVIOUS
<1>11. ASSUME NEW k \in Followed, NEW s, s = clients[Dir[k]], NEW t, t = clients'[Dir[k]]
       PROVE  /\ Dir[k] \in Services /\ IsSeq(s)
              /\ k # j => /\ NoClient(s, k) => NoClient(t, k)
                          /\ \A i : Stored(k, i, s) => Stored(k, i, t)
              /\ k = j => (NoClient(s, k) => OnlyClient(t, k, v))
  <2>1. Dir[k] \in Services /\ IsSeq(s)
    BY <1>2, <1>11 DEF Followed
  <2>2. CASE Dir[k] = d
    <3>1. t = Append(s, Client(j, v))
      BY <1>5, <1>11, <2>1, <2>2
    <3> QED BY <2>1, <3>1, AddClient, OthersKept
  <2>3. CASE Dir[k] # d
    <3>1. t = s /\ k # j
      BY <1>1, <1>5, <1>11, <2>1, <2>3
    <3> QED BY <2>1, <3>1
  <2> QED BY <2>2, <2>3
<1>12. Adding'
  <2>1. SUFFICES ASSUME boot.pc = "add" PROVE Adding'
    BY <1>2 DEF Adding
  <2>2. /\ mu.who = "main" /\ Present(j, b) /\ v = ValueAt(j, b)
        /\ \A e \in boot.todo : e.key # j
        /\ \A e \in boot.todo : /\ Present(e.key, b)
                                /\ e = [key |-> e.key, value |-> ValueAt(e.key, b)]
    BY <1>1, <1>2, <1>10, <2>1 DEF PoolInv, Unwatched, Adding
  <2>3. ASSUME NEW k \in Followed, NEW t, t = clients'[Dir[k]]
        PROVE  IF Owed(k)' THEN NoClient(t, k) ELSE Stored(k, b, t)'
    <3>1. PICK s : s = clients[Dir[k]]
      OBVIOUS
    <3>2. IF Owed(k) THEN NoClient(s, k) ELSE Stored(k, b, s)
      BY <1>10, <2>1, <3>1 DEF PoolInv, Adding
    <3>3. CASE k = j
      <4>1. Owed(k) /\ ~Owed(k)'
        BY <1>1, <1>2, <1>3, <2>2, <3>3 DEF Owed
      <4>2. OnlyClient(t, k, v)
        BY <1>11, <2>3, <3>1, <3>2, <3>3, <4>1
      <4>3. Stored(k, b, t)
        BY <2>2, <3>3, <4>2 DEF Stored, ValueAt
      <4> QED BY <4>1, <4>3, SameLog
    <3>4. CASE k # j
      <4>1. Owed(k)' <=> Owed(k)
        BY <1>1, <1>2, <1>3, <3>4 DEF Owed
      <4>2. IF Owed(k) THEN NoClient(t, k) ELSE Stored(k, b, t)
        BY <1>11, <2>3, <3>1, <3>2, <3>4
      <4> QED BY <4>1, <4>2, SameLog
    <3> QED BY <3>3, <3>4
  <2>4. \A e \in boot.todo : /\ Present(e.key, b)'
                             /\ e = [key |-> e.key, value |-> ValueAt(e.key, b)']
    BY <2>2, SameLog
  <2> QED BY <1>2, <1>3, <1>10, <2>3, <2>4 DEF Adding
<1>13. Following'
  <2>1. ASSUME boot.pc = "done", ~watch.lost, NEW k \in Followed, Simple(k)
        PROVE  Received(k)'
    <3>1. /\ mu.who = "watcher" /\ hand = NoEvent /\ Received(k)
      BY <1>2, <2>1 DEF PoolInv, Following
    <3>2. PICK s, t : s = clients[Dir[k]] /\ t = clients'[Dir[k]]
      OBVIOUS
    <3>3. Stored(k, w, t)
      <4>1. CASE k = j
        <5>1. Present(k, w) /\ v = ValueAt(k, w) /\ NoClient(s, k)
          BY <1>1, <1>10, <3>1, <3>2, <4>1 DEF Received
        <5>2. OnlyClient(t, k, v)
          BY <1>11, <3>2, <4>1, <5>1
        <5> QED BY <5>1, <5>2 DEF Stored, ValueAt
      <4>2. CASE k # j
        <5>1. Stored(k, w, s)
          BY <1>1, <1>10, <3>1, <3>2, <4>2 DEF Received
        <5> QED BY <1>11, <3>2, <4>2, <5>1
      <4> QED BY <4>1, <4>2
    <3>4. Stored(k, w, t)'
      BY <3>3, SameLog
    <3> QED BY <1>2, <1>3, <1>10, <3>1, <3>2, <3>4 DEF Received
  <2>2. \A k : Simple(k)' <=> Simple(k)
    BY <1>2, SameLog DEF Simple
  <2> QED BY <1>2, <1>3, <2>1, <2>2 DEF Following
<1> QED BY <1>7, <1>9, <1>12, <1>13 DEF PoolInv

\* A request that finds nothing missed leaves the watcher where it was.
LEMMA StepRequest ==
  ASSUME PoolInv, Request, log' = log
  PROVE  PoolInv'
<1>1. /\ boot.pc = "done" /\ watch \in WatchType /\ Len(log) \in Nat
      /\ watch.at <= Len(log) /\ boot.listed <= watch.at /\ boot.listed \in Nat
      /\ UNCHANGED <<clients, boot, hand, mu, sub>>
      /\ \/ watch' = Requested(watch, Services)
         \/ watch' = [watch EXCEPT !.live = FALSE]
  BY DEF PoolInv, PoolTypes, IsSeq, Request, RequestStep
<1>2. /\ watch' \in WatchType
      /\ \/ watch'.at = watch.at /\ watch'.lost = watch.lost
         \/ /\ watch'.at = Len(log)
            /\ ~watch'.lost =>
                  ~watch.lost /\ Between(watch.at, Len(log), Services) = {}
  <2>1. CASE watch' = Requested(watch, Services)
    <3>1. watch' = [watch EXCEPT !.live = TRUE, !.at = Len(log),
             !.lost = watch.lost \/ Between(watch.at, Len(log), Services) # {}]
      BY <2>1 DEF Requested
    <3>2. (watch.lost \/ Between(watch.at, Len(log), Services) # {}) \in BOOLEAN
      BY <1>1 DEF WatchType
    <3> QED BY <1>1, <3>1, <3>2 DEF WatchType
  <2>2. CASE watch' = [watch EXCEPT !.live = FALSE]
    BY <1>1, <2>2 DEF WatchType
  <2> QED BY <1>1, <2>1, <2>2
<1>3. PICK w, n \in Nat : w = watch.at /\ n = Len(log) /\ w <= n
  BY <1>1 DEF WatchType
<1>4. PICK x \in Nat : x = watch'.at
  BY <1>2 DEF WatchType
<1>5. PoolTypes'
  <2>1. x <= n /\ boot.listed <= x
    BY <1>1, <1>2, <1>3, <1>4
  <2> QED BY <1>1, <1>2, <1>3, <1>4, <2>1 DEF PoolInv, PoolTypes
<1>6. Unwatched' /\ Unlisted' /\ Adding'
  BY <1>1 DEF PoolInv, Unwatched, Unlisted, Adding
<1>7. ASSUME ~watch'.lost, NEW k \in Followed
      PROVE  ~watch.lost /\ LastOf(k, x) = LastOf(k, w)
  <2>1. CASE watch'.at = watch.at /\ watch'.lost = watch.lost
    BY <1>3, <1>4, <1>7, <2>1
  <2>2. CASE watch'.at = Len(log) /\ Between(watch.at, Len(log), Services) = {}
             /\ ~watch.lost
    <3>1. \A m \in w + 1 .. n : ~In(Services, log[m])
      BY <1>3, <2>2 DEF Between
    <3>2. \A m \in w + 1 .. n : ~Touches(log[m], k)
      BY <3>1, Watched
    <3>3. LastOf(k, n) = LastOf(k, w)
      BY <1>3, <3>2, LastSame
    <3> QED BY <1>3, <1>4, <2>2, <3>3
  <2> QED BY <1>2, <1>7, <2>1, <2>2
<1>8. ASSUME ~watch'.lost, NEW k \in Followed, Simple(k) PROVE Received(k)'
  <2>1. ~watch.lost /\ LastOf(k, x) = LastOf(k, w) /\ Received(k)
    BY <1>1, <1>7, <1>8 DEF PoolInv, Following
  <2>2. PICK s : s = clients[Dir[k]]
    OBVIOUS
  <2>3. /\ Present(k, x)' = Present(k, w) /\ ValueAt(k, x)' = ValueAt(k, w)
        /\ Stored(k, x, s)' = Stored(k, w, s)
    BY <2>1, SameLog DEF Present, ValueAt, Stored
  <2>4. CASE mu.who = "watcher" /\ mu.key = k
    BY <1>1, <1>3, <1>4, <2>1, <2>2, <2>3, <2>4 DEF Received
  <2>5. CASE ~(mu.who = "watcher" /\ mu.key = k) /\ hand # NoEvent /\ Touches(hand, k)
    BY <1>1, <1>3, <1>4, <2>1, <2>2, <2>3, <2>5 DEF Received
  <2>6. CASE ~(mu.who = "watcher" /\ mu.key = k) /\ ~(hand # NoEvent /\ Touches(hand, k))
    BY <1>1, <1>3, <1>4, <2>1, <2>2, <2>3, <2>6 DEF Received
  <2> QED BY <2>4, <2>5, <2>6
<1>9. \A k : Simple(k)' <=> Simple(k)
  BY <1>1, SameLog DEF Simple
<1>10. Following'
  BY <1>1, <1>8, <1>9 DEF PoolInv, Following
<1> QED BY <1>5, <1>6, <1>10 DEF PoolInv

\* The next change is taken into the hands of the watcher.
LEMMA StepReceive ==
  ASSUME PoolInv, Receive, log' = log
  PROVE  PoolInv'
<1>1. /\ hand = NoEvent /\ mu.who # "watcher" /\ watch.live
      /\ Between(watch.at, Len(log), Services) # {}
      /\ hand' = log[NextEvent(watch, Services)] /\ watch' = Passed(watch, Services)
      /\ UNCHANGED <<clients, boot, mu, sub>>
      /\ watch \in WatchType /\ Len(log) \in Nat /\ boot.listed \in Nat
  BY DEF PoolInv, PoolTypes, IsSeq, Receive, HasNext
<1>2. boot.pc = "done" /\ boot.listed <= watch.at
  BY <1>1 DEF PoolInv, PoolTypes, Unwatched
<1>3. PICK w, n, b \in Nat : w = watch.at /\ n = Len(log) /\ b = boot.listed /\ b <= w
  BY <1>1, <1>2 DEF WatchType
<1>4. PICK j : j = NextEvent(watch, Services)
  OBVIOUS
<1>5. /\ j \in w + 1 .. n /\ \A m \in w + 1 .. j - 1 : ~In(Services, log[m])
  <2>1. Between(w, n, Services) # {}
    BY <1>1, <1>3
  <2>2. j = CHOOSE x \in Between(w, n, Services) :
                \A m \in Between(w, n, Services) : x <= m
    BY <1>3, <1>4 DEF NextEvent
  <2> QED BY <2>1, <2>2, NextIs
<1>6. /\ watch' \in WatchType /\ watch'.at = j /\ watch'.lost = watch.lost
  <2>1. watch' = [watch EXCEPT !.at = j, !.fixed = TRUE]
    BY <1>1, <1>4 DEF Passed
  <2>2. j \in Nat
    BY <1>5
  <2> QED BY <1>1, <2>1, <2>2 DEF WatchType
<1>7. PoolTypes'
  <2>1. j <= n /\ b <= j
    BY <1>3, <1>5
  <2> QED BY <1>1, <1>3, <1>6, <2>1 DEF PoolInv, PoolTypes
<1>8. Unwatched' /\ Unlisted' /\ Adding'
  BY <1>1, <1>2 DEF Unwatched, Unlisted, Adding
<1>9. ASSUME ~watch.lost, NEW k \in Followed, Simple(k) PROVE Received(k)'
  <2>1. PICK s, e : s = clients[Dir[k]] /\ e = log[j]
    OBVIOUS
  <2>2. Stored(k, w, s)
    BY <1>1, <1>2, <1>3, <1>9, <2>1 DEF PoolInv, Following, Received
  <2>3. \A m \in w + 1 .. j - 1 : ~Touches(log[m], k)
    BY <1>5, Watched
  <2>4. CASE Touches(e, k)
    <3>1. LastOf(k, j) = j
      <4>1. j \in Nat /\ j \in 1 .. j /\ \A m \in j + 1 .. j : FALSE
        BY <1>5
      <4> QED BY <2>1, <2>4, <4>1, LastIs
    <3>2. LastOf(k, j - 1) = LastOf(k, w)
      <4>1. j - 1 \in Nat /\ w <= j - 1
        BY <1>5
      <4> QED BY <2>3, <4>1, LastSame
    <3>3. e.action = "delete" \/ (e.action = "set" /\ ~Present(k, w))
      <4>1. j \in b + 1 .. n
        BY <1>3, <1>5
      <4>2. e.action = "delete" \/ (e.action = "set" /\ ~Present(k, j - 1))
        BY <1>3, <1>9, <2>1, <2>4, <4>1 DEF Simple
      <4> QED BY <3>2, <4>2 DEF Present
    <3>4. e.key = k /\ e # NoEvent
      <4>1. e.action # "rmdir" /\ e.action # NoEvent.action
        BY <3>3 DEF NoEvent
      <4> QED BY <2>4, <4>1 DEF Touches
    <3>5. j # 0
      BY <1>5
    <3>6. /\ e.action = "set" => Present(k, j)' /\ e.value = ValueAt(k, j)' /\ NoClient(s, k)
          /\ e.action = "delete" => /\ ~Present(k, j)'
                                    /\ NoClient(s, k) \/ \E v : OnlyClient(s, k, v)
      BY <2>1, <2>2, <3>1, <3>3, <3>5, SameLog DEF Present, ValueAt, Stored
    <3>7. hand' = e
      BY <1>1, <1>4, <2>1
    <3> QED BY <1>1, <1>6, <2>1, <2>4, <3>3, <3>4, <3>6, <3>7 DEF Received
  <2>5. CASE ~Touches(e, k)
    <3>1. LastOf(k, j) = LastOf(k, w)
      <4>1. j \in Nat /\ w <= j /\ \A m \in w + 1 .. j : m = j \/ m \in w + 1 .. j - 1
        BY <1>5
      <4>2. \A m \in w + 1 .. j : ~Touches(log[m], k)
        BY <2>1, <2>3, <2>5, <4>1
      <4> QED BY <4>1, <4>2, LastSame
    <3>2. Stored(k, j, s)'
      BY <2>2, <3>1, SameLog DEF Stored, Present
    <3>3. hand' = e
      BY <1>1, <1>4, <2>1
    <3> QED BY <1>1, <1>6, <2>1, <2>5, <3>2, <3>3 DEF Received
  <2> QED BY <2>4, <2>5
<1>10. \A k : Simple(k)' <=> Simple(k)
  BY <1>1, SameLog DEF Simple
<1>11. Following'
  BY <1>1, <1>2, <1>6, <1>9, <1>10 DEF PoolInv, Following
<1> QED BY <1>7, <1>8, <1>11 DEF PoolInv

\* The change in hand is carried out: a client to be dialed, or taken out.
LEMMA StepHandle ==
  ASSUME PoolInv, Handle, log' = log
  PROVE  PoolInv'
<1>1. /\ hand # NoEvent /\ hand' = NoEvent
      /\ UNCHANGED <<boot, watch, sub>>
      /\ DOMAIN clients = Services /\ \A s \in Services : IsSeq(clients[s])
  BY DEF PoolInv, PoolTypes, Handle
<1>2. boot.pc = "done" /\ mu.who # "main" /\ mu.who # "watcher"
  BY <1>1 DEF PoolInv, Unwatched, Following
<1>3. PICK j, v, w : j = hand.key /\ v = hand.value /\ w = watch.at
  OBVIOUS
<1>4. \/ /\ hand.action = "set" /\ clients' = clients /\ mu.who = "nobody"
         /\ \/ /\ Known(Dir[j]) /\ mu'.who = "watcher" /\ mu'.key = j /\ mu'.value = v
            \/ ~Known(Dir[j]) /\ mu' = mu
      \/ /\ hand.action = "delete" /\ mu' = mu
         /\ \/ Known(Dir[j]) /\ clients' = [clients EXCEPT ![Dir[j]] = Without(@, j)]
            \/ ~Known(Dir[j]) /\ clients' = clients
      \/ hand.action = "rmdir" /\ UNCHANGED <<clients, mu>>
  <2>1. CASE hand.action = "set" /\ add_service("watcher", j, v) /\ clients' = clients
    <3>1. mu.who = "nobody"
      BY <2>1 DEF add_service, Unlocked
    <3>2. \/ Known(Dir[j]) /\ mu' = [who |-> "watcher", key |-> j, value |-> v]
          \/ ~Known(Dir[j]) /\ mu' = mu
      BY <2>1 DEF add_service
    <3> QED BY <2>1, <3>1, <3>2
  <2>2. CASE hand.action = "delete" /\ remove_service(j) /\ mu' = mu
    BY <2>2 DEF remove_service
  <2>3. CASE hand.action = "rmdir" /\ UNCHANGED <<clients, mu>>
    BY <2>3
  <2> QED BY <1>3, <2>1, <2>2, <2>3 DEF Handle
<1>5. /\ DOMAIN clients' = Services /\ mu'.who # "main"
      /\ \A s \in Services : \/ clients'[s] = clients[s]
                             \/ clients'[s] = Without(clients[s], j)
  BY <1>1, <1>2, <1>4
<1>6. \A s \in Services : IsSeq(clients'[s])
  BY <1>1, <1>5, RemoveClient
<1>7. PoolTypes'
  <2>1. sub.pc = "sending" => mu'.who = "register"
    BY <1>1, <1>4 DEF PoolInv, PoolTypes
  <2> QED BY <1>1, <1>5, <1>6, <2>1 DEF PoolInv, PoolTypes
<1>8. Unwatched' /\ Unlisted' /\ Adding'
  BY <1>1, <1>2 DEF Unwatched, Unlisted, Adding
<1>9. ASSUME ~watch.lost, NEW k \in Followed, Simple(k) PROVE Received(k)'
  <2>1. PICK s, t : s = clients[Dir[k]] /\ t = clients'[Dir[k]]
    OBVIOUS
  <2>2. Received(k) /\ Dir[k] \in Services /\ Known(Dir[k]) /\ IsSeq(s)
    BY <1>1, <1>2, <1>9, <2>1 DEF PoolInv, Following, Followed
  <2>3. CASE j = k
    <3>1. Touches(hand, k)
      BY <1>3, <2>3 DEF Touches
    <3>2. \/ /\ hand.action = "set" /\ Present(k, w) /\ v = ValueAt(k, w) /\ NoClient(s, k)
          \/ /\ hand.action = "delete" /\ ~Present(k, w)
             /\ NoClient(s, k) \/ \E x : OnlyClient(s, k, x)
      BY <1>1, <1>2, <1>3, <2>1, <2>2, <3>1 DEF Received
    <3>3. CASE hand.action = "set"
      <4>1. mu'.who = "watcher" /\ mu'.key = k /\ mu'.value = v /\ t = s
        BY <1>4, <2>1, <2>2, <2>3, <3>3
      <4>2. Present(k, w)' /\ v = ValueAt(k, w)' /\ NoClient(s, k)
        BY <3>2, <3>3, SameLog
      <4> QED BY <1>1, <1>3, <2>1, <4>1, <4>2 DEF Received
    <3>4. CASE hand.action = "delete"
      <4>1. t = Without(s, k) /\ mu' = mu
        BY <1>1, <1>4, <2>1, <2>2, <2>3, <3>4
      <4>2. Stored(k, w, t)'
        BY <2>2, <3>2, <3>4, <4>1, RemoveClient, SameLog DEF Stored
      <4> QED BY <1>1, <1>2, <1>3, <2>1, <4>1, <4>2 DEF Received
    <3> QED BY <3>2, <3>3, <3>4
  <2>4. CASE j # k
    <3>1. ~Touches(hand, k)
      BY <1>1, <1>2, <1>3, <2>2, <2>4 DEF Received
    <3>2. Stored(k, w, s)
      BY <1>1, <1>2, <1>3, <2>1, <2>2, <3>1 DEF Received
    <3>3. Stored(k, w, t)
      <4>1. t = s \/ t = Without(s, j)
        BY <1>5, <2>1, <2>2
      <4> QED BY <2>2, <2>4, <3>2, <4>1, OthersKept
    <3>4. Stored(k, w, t)'
      BY <3>3, SameLog
    <3>5. ~(mu'.who = "watcher" /\ mu'.key = k)
      BY <1>2, <1>4, <2>4
    <3> QED BY <1>1, <1>3, <2>1, <3>4, <3>5 DEF Received
  <2> QED BY <2>3, <2>4
<1>10. \A k : Simple(k)' <=> Simple(k)
  BY <1>1, SameLog DEF Simple
<1>11. Following'
  BY <1>1, <1>2, <1>5, <1>9, <1>10 DEF PoolInv, Following
<1> QED BY <1>7, <1>8, <1>11 DEF PoolInv

-----------------------------------------------------------------------------
LEMMA InitPool == Init => PoolInv /\ TurnInv
<1> SUFFICES ASSUME Init PROVE PoolInv /\ TurnInv
  OBVIOUS
<1>1. /\ load \in Loads /\ log = load.log
      /\ clients = [s \in Services |-> <<>>] /\ idx = [s \in Services |-> 0]
      /\ recent = [s \in Services |-> <<>>]
      /\ boot = [pc |-> "get", todo |-> {}, listed |-> 0]
      /\ watch = WatchFrom(0) /\ hand = NoEvent /\ mu = Unlocked
      /\ sub = [pc |-> IF load.subscribes THEN "none" ELSE "away", next |-> 1, ch |-> 0]
  BY DEF Init, EtcdInit, PoolInit
<1>2. IsSeq(log) /\ Len(log) \in Nat /\ IsSeq(<<>>)
  <2>1. log \in Seq([action : {"set", "delete", "rmdir"}, key : STRING, value : STRING])
    BY <1>1, EtcdAssumption
  <2>2. Len(log) \in Nat
    BY <2>1
  <2>3. <<>> \in Seq({})
    OBVIOUS
  <2> QED BY <2>1, <2>2, <2>3 DEF IsSeq
<1>3. /\ watch \in WatchType /\ watch.at = 0 /\ ~watch.live /\ mu.who = "nobody"
      /\ sub.pc # "sending" /\ DOMAIN sub = {"pc", "next", "ch"}
  BY <1>1 DEF WatchFrom, WatchType, Unlocked
<1>4. PoolTypes
  BY <1>1, <1>2, <1>3 DEF PoolTypes
<1>5. PoolInv
  BY <1>1, <1>3, <1>4 DEF PoolInv, Unwatched, Unlisted, Adding, Following
<1>6. TurnInv
  <2>1. 0 \in 0 .. IdxLimit - 1
    BY PoolAssumption
  <2> QED BY <1>1, <2>1 DEF TurnInv, Turning
<1> QED BY <1>5, <1>6

LEMMA NextPool == PoolInv /\ TurnInv /\ [Next]_vars => PoolInv' /\ TurnInv'
<1> SUFFICES ASSUME PoolInv, TurnInv, [Next]_vars PROVE PoolInv' /\ TurnInv'
  OBVIOUS
<1>1. CASE UNCHANGED poolvars /\ (log' = log \/ \E e : log' = Append(log, e))
  <2>1. PoolInv'
    BY <1>1, Untouched DEF poolvars, PoolInv, PoolTypes
  <2>2. TurnInv'
    BY <1>1, TurnKept DEF poolvars, TurnInv
  <2> QED BY <2>1, <2>2
<1>2. CASE PoolStep
  <2>0. log' = log /\ PoolNext
    BY <1>2 DEF PoolStep
  <2>1. ClientSeqs
    BY DEF PoolInv, PoolTypes, ClientSeqs
  <2>2. ASSUME UNCHANGED <<idx, recent, clients>> PROVE TurnInv'
    BY <2>2, TurnKept DEF TurnInv
  <2>3. CASE Get
    BY <2>0, <2>2, <2>3, StepGet DEF Get
  <2>4. CASE AddListed
    BY <2>0, <2>2, <2>4, StepAddListed DEF AddListed
  <2>5. CASE ConnectDone
    BY <2>0, <2>2, <2>5, StepConnectDone DEF ConnectDone
  <2>6. CASE Dialed
    <3>1. PICK d, x : /\ clients' = [clients EXCEPT ![d] = x] /\ idx' = idx
                      /\ recent' = [recent EXCEPT ![d] = <<>>]
      BY <2>6 DEF Dialed
    <3>2. TurnInv'
      BY <2>1, <3>1, TurnKept DEF TurnInv, ClientSeqs
    <3> QED BY <2>0, <2>6, <3>2, StepDialed
  <2>7. CASE Request
    BY <2>0, <2>2, <2>7, StepRequest DEF Request
  <2>8. CASE Receive
    BY <2>0, <2>2, <2>8, StepReceive DEF Receive
  <2>9. CASE Handle
    <3>1. \/ UNCHANGED <<clients, recent, idx>>
          \/ \E d, x : /\ clients' = [clients EXCEPT ![d] = x] /\ idx' = idx
                       /\ recent' = [recent EXCEPT ![d] = <<>>]
      BY <2>9 DEF Handle, remove_service
    <3>2. TurnInv'
      BY <2>1, <2>2, <3>1, TurnKept DEF TurnInv, ClientSeqs
    <3> QED BY <2>0, <2>9, <3>2, StepHandle
  <2>10. ASSUME NEW c \in Callers, Call(c) \/ get_service(c) \/ get_service_with_id(c)
         PROVE  PoolInv' /\ TurnInv'
    <3>1. UNCHANGED <<clients, boot, watch, hand, mu, sub>>
      BY <2>10 DEF Call, get_service, get_service_with_id
    <3>2. PoolInv'
      BY <2>0, <3>1, Untouched DEF PoolInv, PoolTypes
    <3>3. TurnInv'
      BY <2>1, <2>2, <2>10, StepGetService DEF Call, get_service_with_id
    <3> QED BY <3>2, <3>3
  <2>11. CASE register_callback
    <3>1. /\ UNCHANGED <<clients, idx, recent, boot, watch, hand>>
          /\ DOMAIN sub = {"pc", "next", "ch"} /\ (sub.pc = "sending" => mu.who = "register")
      BY <2>11 DEF register_callback, PoolInv, PoolTypes
    <3>2. /\ mu' = mu \/ (mu.who \notin {"main", "watcher"} /\ mu'.who \notin {"main", "watcher"})
          /\ DOMAIN sub' = {"pc", "next", "ch"} /\ (sub'.pc = "sending" => mu'.who = "register")
      <4>0. /\ Unlocked.who = "nobody"
            /\ [Unlocked EXCEPT !.who = "register"].who = "register"
        BY DEF Unlocked
      <4>1. CASE mu = Unlocked /\ sub' = [sub EXCEPT !.pc = "sending"]
                 /\ mu' = [Unlocked EXCEPT !.who = "register"]
        <5>1. mu.who = "nobody" /\ mu'.who = "register"
          BY <4>0, <4>1
        <5>2. DOMAIN sub' = {"pc", "next", "ch"}
          BY <3>1, <4>1
        <5> QED BY <5>1, <5>2
      <4>2. CASE sub.pc = "sending" /\ mu' = mu
                 /\ sub' = [sub EXCEPT !.next = @ + 1, !.ch = @ + 1]
        <5>1. DOMAIN sub' = {"pc", "next", "ch"}
          BY <3>1, <4>2
        <5> QED BY <3>1, <4>2, <5>1
      <4>3. CASE sub.pc = "sending" /\ mu' = Unlocked /\ sub' = [sub EXCEPT !.pc = "done"]
        <5>1. mu.who = "register" /\ mu'.who = "nobody"
          BY <3>1, <4>0, <4>3
        <5>2. DOMAIN sub' = {"pc", "next", "ch"} /\ sub'.pc = "done"
          BY <3>1, <4>3
        <5> QED BY <5>1, <5>2
      <4> QED BY <2>11, <4>1, <4>2, <4>3 DEF register_callback
    <3> QED BY <2>0, <2>2, <3>1, <3>2, Untouched
  <2>12. CASE Read \/ Answers
    <3>1. /\ UNCHANGED <<clients, idx, recent, boot, watch, hand, mu>>
          /\ sub' = sub \/ sub' = [sub EXCEPT !.ch = @ - 1]
          /\ DOMAIN sub = {"pc", "next", "ch"} /\ (sub.pc = "sending" => mu.who = "register")
      BY <2>12 DEF Read, Answers, PoolInv, PoolTypes
    <3>2. DOMAIN sub' = {"pc", "next", "ch"} /\ (sub'.pc = "sending" => mu'.who = "register")
      BY <3>1
    <3> QED BY <2>0, <2>2, <3>1, <3>2, Untouched
  <2> QED BY <2>0, <2>3, <2>4, <2>5, <2>6, <2>7, <2>8, <2>9, <2>10, <2>11, <2>12 DEF PoolNext
<1>3. CASE NumbersStep
  BY <1>1, <1>3 DEF NumbersStep
<1>4. CASE EtcdStep
  BY <1>1, <1>4 DEF EtcdStep, EtcdNext, Erase, Store, Rmdir, Changed
<1>5. CASE UNCHANGED vars
  BY <1>1, <1>5 DEF vars
<1> QED BY <1>2, <1>3, <1>4, <1>5 DEF Next

LEMMA Kept == Spec => [](PoolInv /\ TurnInv)
  BY InitPool, NextPool, PTL DEF Spec

\* For every instance: while no change was missed, and once what was received
\* is handled, the pool has the clients the directory holds.
THEOREM Follows == Spec => []PoolFollows
<1>1. PoolInv => PoolFollows
  <2> SUFFICES ASSUME PoolInv, boot.pc = "done", UpToDate(watch, Services),
                      hand = NoEvent, mu.who # "watcher", NEW k \in Followed, Simple(k)
               PROVE  Stored(k, Len(log), clients[Dir[k]])
    BY DEF PoolFollows
  <2>1. PICK w, n \in Nat : w = watch.at /\ n = Len(log) /\ w <= n
    BY DEF PoolInv, PoolTypes, WatchType, IsSeq
  <2>2. ~watch.lost /\ Between(w, n, Services) = {}
    BY <2>1 DEF UpToDate
  <2>3. Stored(k, w, clients[Dir[k]])
    BY <2>1, <2>2 DEF PoolInv, Following, Received
  <2>4. \A m \in w + 1 .. n : ~Touches(log[m], k)
    BY <2>2, Watched DEF Between
  <2>5. LastOf(k, n) = LastOf(k, w)
    BY <2>1, <2>4, LastSame
  <2> QED BY <2>1, <2>3, <2>5 DEF Stored, Present
<1> QED BY <1>1, Kept, PTL

\* For every instance: no client is handed out again before all the others.
THEOREM Rotates == Spec => []RoundRobin
<1>1. PoolInv /\ TurnInv => RoundRobin
  <2> SUFFICES ASSUME PoolInv, TurnInv, NEW s \in Services,
                      NEW i \in DOMAIN recent[s], NEW j \in DOMAIN recent[s],
                      recent[s][i] = recent[s][j]
               PROVE  i = j
    BY DEF RoundRobin
  <2>1. PICK r \in Seq(Int) : r = recent[s]
    BY DEF TurnInv
  <2>2. PICK L, t : /\ L = Len(clients[s]) /\ t = TurnOf(idx[s], L)
                    /\ Given(r, t, L) /\ L > 0
    <3>1. r # <<>>
      BY <2>1
    <3> QED BY <2>1, <3>1 DEF TurnInv, Turning
  <2>3. L \in Nat /\ t \in 1 .. L
    <3>1. L \in Nat
      BY <2>2 DEF PoolInv, PoolTypes, IsSeq
    <3>2. idx[s] \in Nat
      BY PoolAssumption DEF TurnInv
    <3>3. idx[s] % L \in 0 .. L - 1
      BY <2>2, <3>1, <3>2, NextTurn
    <3> QED BY <2>2, <3>1, <3>3 DEF TurnOf
  <2>4. PICK n \in Nat : n = Len(r) /\ n <= L /\ \A x \in 1 .. n : r[x] = Before(t, n - x, L)
    BY <2>2 DEF Given
  <2>5. i \in 1 .. n /\ j \in 1 .. n /\ Before(t, n - i, L) = Before(t, n - j, L)
    <3>1. DOMAIN r = 1 .. n
      BY <2>4
    <3>2. i \in 1 .. n /\ j \in 1 .. n
      BY <2>1, <3>1
    <3>3. r[i] = r[j]
      BY <2>1
    <3>4. r[i] = Before(t, n - i, L) /\ r[j] = Before(t, n - j, L)
      BY <2>4, <3>2
    <3> QED BY <3>2, <3>3, <3>4, Zenon
  <2> QED BY <2>3, <2>4, <2>5 DEF Before
<1> QED BY <1>1, Kept, PTL

-----------------------------------------------------------------------------
(* Tables.  What is needed of parse is that the lookups answer from what it  *)
(* makes of a workbook: it is not looked into.                               *)

\* The tables of f are those of the workbook of the change i.
Holds(f, i) == f \in DOMAIN numbers /\ numbers[f] = parse(Books[log[i].value])

\* The tables of f are those of its last version up to the change n.
Served(f, n) ==
    \A i \in 1 .. n : Version(f, i) /\ (\A m \in 1 .. n : Version(f, m) => m <= i)
                          => Holds(f, i)

TableTypes ==
    /\ DOMAIN read = {"pc", "todo", "listed", "refused"}
    /\ read.listed \in Nat /\ read.listed <= Len(log)
    /\ nwatch \in WatchType /\ nwatch.at <= Len(log)
    /\ read.pc = "wait" => read.todo = {} /\ read.refused = {}
    /\ read.pc # "done" => ~nwatch.live
    /\ read.pc = "done" => read.listed <= nwatch.at

\* What init has still to read is as it was listed, and any other file it has
\* not been refused has its tables.
Reading ==
    read.pc = "files" =>
      /\ \A e \in read.todo : /\ Present(e.key, read.listed)
                              /\ e.value = ValueAt(e.key, read.listed)
      /\ read.todo # {} => read.refused = {}
      /\ \A f \in Files :
            /\ f \notin read.refused /\ Present(f, read.listed)
            /\ ValueAt(f, read.listed) \in DOMAIN Books
            => (\E e \in read.todo : e.key = f) \/ Holds(f, LastOf(f, read.listed))

Serving ==
    read.pc = "done" /\ ~nwatch.lost => \A f \in Files : Served(f, nwatch.at)

TablesInv == TableTypes /\ Reading /\ Serving

LEMMA SetTables ==
  ASSUME NEW f, NEW c, SetNumbers(f, c)
  PROVE  /\ f \in DOMAIN numbers' /\ numbers'[f] = parse(Books[c])
         /\ \A g : g # f /\ g \in DOMAIN numbers =>
               g \in DOMAIN numbers' /\ numbers'[g] = numbers[g]
BY DEF SetNumbers

\* A version of a file comes to the watcher of the tables.
LEMMA VersionWatched ==
  ASSUME NEW f \in Files, NEW i, Version(f, i)
  PROVE  In({Tables}, log[i])
BY DEF Version, Files, In

\* A version init has listed is the one present.
LEMMA VersionListed ==
  ASSUME NEW f \in Files, NEW i \in Nat, i <= read.listed, read.listed \in Nat,
         Version(f, i)
  PROVE  /\ f \notin read.refused /\ LastOf(f, read.listed) = i
         /\ i # 0 => /\ Present(f, read.listed)
                     /\ ValueAt(f, read.listed) \in DOMAIN Books
<1>1. f \notin read.refused /\ LastOf(f, read.listed) = i
  BY DEF Version
<1> QED BY <1>1 DEF Version, Present, ValueAt

\* What is served does not change as the log grows.
LEMMA TablesGrow ==
  ASSUME TablesInv, IsSeq(log), log' = log \/ \E e : log' = Append(log, e),
         UNCHANGED numvars
  PROVE  TablesInv'
<1>1. UNCHANGED <<numbers, read, nwatch>>
  BY DEF numvars
<1>2. PICK l, w, n \in Nat : l = read.listed /\ w = nwatch.at /\ n = Len(log)
                             /\ l <= n /\ w <= n
  BY DEF TablesInv, TableTypes, WatchType, IsSeq
<1>3. /\ IsSeq(log') /\ Len(log') \in Nat /\ n <= Len(log')
      /\ \A i \in 1 .. n : log'[i] = log[i]
      /\ \A k : /\ LastOf(k, l)' = LastOf(k, l) /\ Present(k, l)' = Present(k, l)
                /\ Present(k, l) => ValueAt(k, l)' = ValueAt(k, l)
  <2>1. l \in 0 .. Len(log)
    BY <1>2
  <2> QED BY <1>2, <2>1, LogGrows
<1>4. TableTypes'
  <2>1. read.listed <= Len(log') /\ nwatch.at <= Len(log')
    BY <1>2, <1>3
  <2> QED BY <1>1, <2>1 DEF TablesInv, TableTypes
<1>5. ASSUME NEW f, NEW i \in 1 .. n
      PROVE  Version(f, i)' = Version(f, i) /\ Holds(f, i)' = Holds(f, i)
  <2>1. log'[i] = log[i] /\ LastOf(f, l)' = LastOf(f, l)
    BY <1>3
  <2> QED BY <1>1, <1>2, <2>1 DEF Version, Holds
<1>6. Reading'
  <2> SUFFICES ASSUME read.pc = "files" PROVE Reading'
    BY <1>1 DEF Reading
  <2>1. \A e \in read.todo : Present(e.key, l)' /\ e.value = ValueAt(e.key, l)'
    BY <1>2, <1>3 DEF TablesInv, Reading
  <2>2. ASSUME NEW f \in Files, f \notin read.refused, Present(f, l)',
               ValueAt(f, l)' \in DOMAIN Books
        PROVE  (\E e \in read.todo : e.key = f) \/ Holds(f, LastOf(f, l))'
    <3>1. Present(f, l) /\ ValueAt(f, l) \in DOMAIN Books
      BY <1>3, <2>2
    <3>2. (\E e \in read.todo : e.key = f) \/ Holds(f, LastOf(f, l))
      BY <1>2, <2>2, <3>1 DEF TablesInv, Reading
    <3>3. LastOf(f, l) \in 1 .. n
      <4>1. LastOf(f, l) \in 0 .. l
        BY <1>2, Lasts
      <4> QED BY <1>2, <3>1, <4>1 DEF Present
    <3>4. PICK i \in 1 .. n : i = LastOf(f, l) /\ i = LastOf(f, l)'
      BY <1>3, <3>3
    <3>5. Holds(f, i)' = Holds(f, i)
      BY <1>5
    <3> QED BY <1>1, <3>2, <3>4, <3>5 DEF Holds
  <2> QED BY <1>1, <1>2, <2>1, <2>2 DEF TablesInv, Reading
<1>7. Serving'
  <2> SUFFICES ASSUME read.pc = "done", ~nwatch.lost, NEW f \in Files
               PROVE  Served(f, w)'
    BY <1>1, <1>2 DEF Serving
  <2>1. Served(f, w)
    BY <1>2 DEF TablesInv, Serving
  <2>2. \A i \in 1 .. w : i \in 1 .. n
    BY <1>2
  <2> QED BY <1>5, <2>1, <2>2 DEF Served
<1> QED BY <1>4, <1>6, <1>7 DEF TablesInv

\* Init lists the directory, or is refused all of it.
LEMMA StepList ==
  ASSUME TablesInv, Len(log) \in Nat, Fun_Init, log' = log
  PROVE  TablesInv'
<1>1. /\ read.pc = "wait" /\ UNCHANGED <<numbers, nwatch>>
      /\ read.todo = {} /\ read.refused = {}
      /\ read'.pc = "files" /\ read'.listed = Len(log)
      /\ DOMAIN read' = {"pc", "todo", "listed", "refused"}
      /\ \/ read'.todo = Listing({Tables}) /\ read'.refused = {}
         \/ read'.todo = {} /\ read'.refused = Files
  BY DEF Fun_Init, TablesInv, TableTypes
<1>2. TableTypes' /\ Serving'
  BY <1>1 DEF TablesInv, TableTypes, Serving
<1>3. CASE read'.todo = {} /\ read'.refused = Files
  BY <1>1, <1>2, <1>3 DEF TablesInv, Reading
<1>4. CASE read'.todo = Listing({Tables}) /\ read'.refused = {}
  <2>1. PICK n \in Nat : n = Len(log) /\ n = read'.listed
    BY <1>1
  <2>2. \A e \in read'.todo : Present(e.key, n) /\ e.value = ValueAt(e.key, n)
    BY <1>4, <2>1 DEF Listing, ValueAt
  <2>3. ASSUME NEW f \in Files, Present(f, n) PROVE \E e \in read'.todo : e.key = f
    <3>1. [key |-> f, value |-> ValueAt(f, n)] \in Listing({Tables})
      BY <2>1, <2>3 DEF Listing, ValueAt, Files
    <3> QED BY <1>4, <3>1
  <2>4. \A k : Present(k, n)' = Present(k, n) /\ ValueAt(k, n)' = ValueAt(k, n)
    BY SameLog
  <2>5. \A e \in read'.todo : Present(e.key, n)' /\ e.value = ValueAt(e.key, n)'
    BY <2>2, <2>4
  <2>6. \A f \in Files : Present(f, n)' => \E e \in read'.todo : e.key = f
    BY <2>3, <2>4
  <2>7. Reading'
    BY <1>4, <2>1, <2>5, <2>6 DEF Reading
  <2> QED BY <1>2, <2>7 DEF TablesInv
<1> QED BY <1>1, <1>3, <1>4

\* A file is read; one that cannot be ends the reading.
LEMMA StepRead ==
  ASSUME TablesInv, ReadFile, log' = log
  PROVE  TablesInv'
<1>1. PICK e \in read.todo :
         IF e.value \notin DOMAIN Books
         THEN /\ read' = [read EXCEPT !.todo = {}, !.refused = {x.key : x \in read.todo}]
              /\ UNCHANGED numbers
         ELSE SetNumbers(e.key, e.value) /\ read' = [read EXCEPT !.todo = @ \ {e}]
  BY DEF ReadFile
<1>2. /\ read.pc = "files" /\ nwatch' = nwatch
      /\ DOMAIN read = {"pc", "todo", "listed", "refused"} /\ read.refused = {}
  BY <1>1 DEF ReadFile, TablesInv, TableTypes, Reading
<1>3. PICK l : l = read.listed
  OBVIOUS
<1>4. /\ read'.pc = "files" /\ read'.listed = l
      /\ DOMAIN read' = {"pc", "todo", "listed", "refused"}
      /\ IF e.value \notin DOMAIN Books
         THEN /\ read'.todo = {} /\ read'.refused = {x.key : x \in read.todo}
              /\ numbers' = numbers
         ELSE /\ read'.todo = read.todo \ {e} /\ read'.refused = {}
              /\ SetNumbers(e.key, e.value)
  BY <1>1, <1>2, <1>3
<1>5. TableTypes' /\ Serving'
  BY <1>2, <1>3, <1>4 DEF TablesInv, TableTypes, Serving
<1>6. /\ \A x \in read.todo : Present(x.key, l) /\ x.value = ValueAt(x.key, l)
      /\ \A f \in Files : Present(f, l) /\ ValueAt(f, l) \in DOMAIN Books =>
            (\E x \in read.todo : x.key = f) \/ Holds(f, LastOf(f, l))
  BY <1>2, <1>3 DEF TablesInv, Reading
<1>7. \A k : /\ Present(k, l)' = Present(k, l) /\ ValueAt(k, l)' = ValueAt(k, l)
             /\ LastOf(k, l)' = LastOf(k, l)
  BY SameLog
<1>8. ASSUME NEW f \in Files, f \notin read'.refused, Present(f, l),
             ValueAt(f, l) \in DOMAIN Books
      PROVE  (\E x \in read'.todo : x.key = f) \/ Holds(f, LastOf(f, l))'
  <2>1. CASE e.value \notin DOMAIN Books
    <3>1. ~ \E x \in read.todo : x.key = f
      BY <1>4, <1>8, <2>1
    <3>2. Holds(f, LastOf(f, l))
      BY <1>6, <1>8, <3>1
    <3> QED BY <1>4, <1>7, <2>1, <3>2 DEF Holds
  <2>2. CASE e.value \in DOMAIN Books /\ e.key = f
    <3>1. f \in DOMAIN numbers' /\ numbers'[f] = parse(Books[ValueAt(f, l)])
      BY <1>4, <1>6, <2>2, SetTables
    <3> QED BY <1>7, <3>1 DEF Holds, ValueAt
  <2>3. CASE e.value \in DOMAIN Books /\ e.key # f
    <3>1. CASE \E x \in read.todo : x.key = f
      BY <1>4, <2>3, <3>1
    <3>2. CASE Holds(f, LastOf(f, l))
      <4>1. f \in DOMAIN numbers' /\ numbers'[f] = numbers[f]
        BY <1>4, <2>3, <3>2, SetTables DEF Holds
      <4> QED BY <1>7, <3>2, <4>1 DEF Holds
    <3> QED BY <1>6, <1>8, <3>1, <3>2
  <2> QED BY <2>1, <2>2, <2>3
<1>9. Reading'
  <2>1. \A x \in read'.todo : Present(x.key, l)' /\ x.value = ValueAt(x.key, l)'
    BY <1>4, <1>6, <1>7
  <2>2. read'.todo # {} => read'.refused = {}
    BY <1>4
  <2> QED BY <1>4, <1>7, <1>8, <2>1, <2>2 DEF Reading
<1> QED BY <1>5, <1>9 DEF TablesInv

\* The watcher goes on from where init has listed.
LEMMA StepStart ==
  ASSUME TablesInv, StartWatcher, log' = log
  PROVE  TablesInv'
<1>1. PICK l \in Nat : l = read.listed /\ l <= Len(log)
  BY DEF TablesInv, TableTypes
<1>2. /\ read.pc = "files" /\ read.todo = {} /\ numbers' = numbers
      /\ read'.pc = "done" /\ read'.listed = l /\ read'.refused = read.refused
      /\ DOMAIN read' = {"pc", "todo", "listed", "refused"}
      /\ nwatch' \in WatchType /\ nwatch'.at = l
  BY <1>1 DEF StartWatcher, TablesInv, TableTypes, WatchFrom, WatchType
<1>3. TableTypes' /\ Reading'
  BY <1>1, <1>2 DEF TablesInv, TableTypes, Reading
<1>4. ASSUME NEW f \in Files, NEW i \in 1 .. l, Version(f, i)' PROVE Holds(f, i)'
  <2>1. Version(f, i)
    BY <1>1, <1>2, <1>4, SameLog DEF Version
  <2>2. /\ f \notin read.refused /\ LastOf(f, l) = i /\ Present(f, l)
        /\ ValueAt(f, l) \in DOMAIN Books
    BY <1>1, <2>1, VersionListed
  <2>3. Holds(f, i)
    BY <1>1, <1>2, <2>2 DEF TablesInv, Reading
  <2> QED BY <1>2, <2>3 DEF Holds
<1>5. Serving'
  BY <1>2, <1>4 DEF Serving, Served
<1> QED BY <1>3, <1>5 DEF TablesInv

LEMMA StepTablesRequest ==
  ASSUME TablesInv, Len(log) \in Nat, NumbersRequest, log' = log
  PROVE  TablesInv'
<1>1. /\ read.pc = "done" /\ nwatch \in WatchType /\ UNCHANGED <<numbers, read>>
      /\ \/ nwatch' = Requested(nwatch, {Tables})
         \/ nwatch' = [nwatch EXCEPT !.live = FALSE]
  BY DEF NumbersRequest, RequestStep, TablesInv, TableTypes
<1>2. PICK l, w, n \in Nat : /\ l = read.listed /\ w = nwatch.at /\ n = Len(log)
                             /\ l <= w /\ w <= n
  BY <1>1 DEF TablesInv, TableTypes, WatchType
<1>3. /\ nwatch' \in WatchType
      /\ \/ nwatch'.at = w /\ nwatch'.lost = nwatch.lost
         \/ /\ nwatch'.at = n
            /\ ~nwatch'.lost => ~nwatch.lost /\ Between(w, n, {Tables}) = {}
  <2>1. CASE nwatch' = Requested(nwatch, {Tables})
    <3>1. nwatch' = [nwatch EXCEPT !.live = TRUE, !.at = n,
             !.lost = nwatch.lost \/ Between(w, n, {Tables}) # {}]
      BY <1>2, <2>1 DEF Requested
    <3>2. (nwatch.lost \/ Between(w, n, {Tables}) # {}) \in BOOLEAN
      BY <1>1 DEF WatchType
    <3> QED BY <1>1, <1>2, <3>1, <3>2 DEF WatchType
  <2>2. CASE nwatch' = [nwatch EXCEPT !.live = FALSE]
    BY <1>1, <1>2, <2>2 DEF WatchType
  <2> QED BY <1>1, <2>1, <2>2
<1>4. TableTypes' /\ Reading'
  <2>1. nwatch'.at <= n /\ l <= nwatch'.at
    BY <1>2, <1>3
  <2> QED BY <1>1, <1>2, <1>3, <2>1 DEF TablesInv, TableTypes, Reading
<1>5. \A f, i : Version(f, i)' = Version(f, i) /\ Holds(f, i)' = Holds(f, i)
  BY <1>1, SameLog DEF Version, Holds
<1>6. ASSUME ~nwatch'.lost, NEW f \in Files PROVE Served(f, nwatch'.at)
  <2>1. CASE nwatch'.at = w /\ nwatch'.lost = nwatch.lost
    BY <1>1, <1>2, <1>6, <2>1 DEF TablesInv, Serving
  <2>2. CASE nwatch'.at = n /\ ~nwatch.lost /\ Between(w, n, {Tables}) = {}
    <3>1. Served(f, w)
      BY <1>1, <1>2, <2>2 DEF TablesInv, Serving
    <3>2. \A i \in 1 .. n : Version(f, i) => i \in 1 .. w
      <4>1. \A i \in 1 .. n : i \in 1 .. w \/ i \in w + 1 .. n
        BY <1>2
      <4>2. \A i \in w + 1 .. n : ~In({Tables}, log[i])
        BY <2>2 DEF Between
      <4> QED BY <4>1, <4>2, VersionWatched
    <3>3. \A i \in 1 .. w : i \in 1 .. n
      BY <1>2
    <3> QED BY <2>2, <3>1, <3>2, <3>3 DEF Served
  <2> QED BY <1>3, <1>6, <2>1, <2>2
<1>7. Serving'
  BY <1>1, <1>5, <1>6 DEF Serving, Served
<1> QED BY <1>4, <1>7 DEF TablesInv

\* A readable version replaces the tables of its file; any other change leaves
\* all tables as they are.
LEMMA StepTablesReceive ==
  ASSUME TablesInv, Len(log) \in Nat, NumbersReceive, log' = log
  PROVE  TablesInv'
<1>1. /\ nwatch.live /\ nwatch \in WatchType /\ read' = read /\ read.pc = "done"
      /\ Between(nwatch.at, Len(log), {Tables}) # {}
      /\ nwatch' = Passed(nwatch, {Tables})
  BY DEF NumbersReceive, HasNext, TablesInv, TableTypes
<1>2. PICK l, w, n \in Nat : /\ l = read.listed /\ w = nwatch.at /\ n = Len(log)
                             /\ l <= w /\ w <= n
  BY <1>1 DEF TablesInv, TableTypes, WatchType
<1>3. PICK j : j = NextEvent(nwatch, {Tables})
  OBVIOUS
<1>4. /\ j \in w + 1 .. n
      /\ \A m \in w + 1 .. j - 1 : ~In({Tables}, log[m])
  <2>1. j = CHOOSE x \in Between(w, n, {Tables}) :
                      \A m \in Between(w, n, {Tables}) : x <= m
    BY <1>2, <1>3 DEF NextEvent
  <2>2. Between(w, n, {Tables}) # {}
    BY <1>1, <1>2
  <2>3. PICK D : D = {Tables}
    OBVIOUS
  <2>4. /\ j = CHOOSE x \in Between(w, n, D) : \A m \in Between(w, n, D) : x <= m
        /\ Between(w, n, D) # {}
    BY <2>1, <2>2, <2>3
  <2>5. /\ j \in w + 1 .. n /\ In(D, log[j])
        /\ \A m \in w + 1 .. j - 1 : ~In(D, log[m])
    BY <2>4, NextIs
  <2> QED BY <2>3, <2>5
<1>5. nwatch' \in WatchType /\ nwatch'.at = j /\ nwatch'.lost = nwatch.lost
  <2>0. nwatch \in WatchType /\ nwatch' = Passed(nwatch, {Tables})
    BY <1>1
  <2>1. nwatch' = [nwatch EXCEPT !.at = j, !.fixed = TRUE]
    BY <1>3, <2>0 DEF Passed
  <2>2. j \in Nat
    BY <1>4
  <2> QED BY <2>0, <2>1, <2>2 DEF WatchType
<1>6. TableTypes' /\ Reading'
  <2>1. j <= n /\ l <= j
    BY <1>2, <1>4
  <2> QED BY <1>1, <1>2, <1>5, <2>1 DEF TablesInv, TableTypes, Reading
<1>7. \A f, i : Version(f, i)' = Version(f, i)
  BY <1>1, SameLog DEF Version
<1>8. IF log[j].action = "set" /\ log[j].value \in DOMAIN Books
      THEN SetNumbers(log[j].key, log[j].value) ELSE numbers' = numbers
  BY <1>3 DEF NumbersReceive
<1>9. ASSUME ~nwatch.lost, NEW f \in Files, NEW i \in 1 .. j, Version(f, i),
             \A m \in 1 .. j : Version(f, m) => m <= i
      PROVE  Holds(f, i)'
  <2>1. CASE Version(f, j)
    <3>1. i = j
      BY <1>2, <1>4, <1>9, <2>1
    <3>2. SetNumbers(f, log[j].value)
      BY <1>8, <2>1 DEF Version
    <3> QED BY <3>1, <3>2, SetTables DEF Holds
  <2>2. CASE ~Version(f, j)
    <3>1. i \in 1 .. w
      <4>1. i \in 1 .. w \/ i \in w + 1 .. j - 1 \/ i = j
        BY <1>2, <1>4
      <4> QED BY <1>4, <1>9, <2>2, <4>1, VersionWatched
    <3>2. \A m \in 1 .. w : m \in 1 .. j
      BY <1>2, <1>4
    <3>3. Holds(f, i)
      BY <1>1, <1>2, <1>9, <3>1, <3>2 DEF TablesInv, Serving, Served
    <3>4. f \in DOMAIN numbers' /\ numbers'[f] = numbers[f]
      <4>1. CASE log[j].action = "set" /\ log[j].value \in DOMAIN Books
        <5>1. j > read.listed
          BY <1>2, <1>4
        <5>2. log[j].key # f
          BY <2>2, <4>1, <5>1 DEF Version
        <5> QED BY <1>8, <3>3, <4>1, <5>2, SetTables DEF Holds
      <4>2. CASE ~(log[j].action = "set" /\ log[j].value \in DOMAIN Books)
        BY <1>8, <3>3, <4>2 DEF Holds
      <4> QED BY <4>1, <4>2
    <3> QED BY <3>3, <3>4 DEF Holds
  <2> QED BY <2>1, <2>2
<1>10. Serving'
  BY <1>1, <1>5, <1>7, <1>9 DEF Serving, Served
<1> QED BY <1>6, <1>10 DEF TablesInv

LEMMA InitTables == Init => TablesInv
<1> SUFFICES ASSUME Init PROVE TablesInv
  OBVIOUS
<1>1. /\ read = [pc |-> "wait", todo |-> {}, listed |-> 0, refused |-> {}]
      /\ nwatch \in WatchType /\ nwatch.at = 0 /\ ~nwatch.live
  BY DEF Init, NumbersInit, WatchFrom, WatchType
<1>2. Len(log) \in Nat
  BY InitPool DEF PoolInv, PoolTypes, IsSeq
<1> QED BY <1>1, <1>2 DEF TablesInv, TableTypes, Reading, Serving

LEMMA NextTables == PoolInv /\ TablesInv /\ [Next]_vars => TablesInv'
<1> SUFFICES ASSUME PoolInv, TablesInv, [Next]_vars PROVE TablesInv'
  OBVIOUS
<1>0. IsSeq(log) /\ Len(log) \in Nat
  BY DEF PoolInv, PoolTypes, IsSeq
<1>1. CASE UNCHANGED numvars /\ (log' = log \/ \E e : log' = Append(log, e))
  BY <1>0, <1>1, TablesGrow
<1>2. CASE PoolStep
  BY <1>1, <1>2 DEF PoolStep
<1>3. CASE NumbersStep
  BY <1>0, <1>3, StepList, StepRead, StepStart, StepTablesRequest, StepTablesReceive
     DEF NumbersStep, NumbersNext
<1>4. CASE EtcdStep
  BY <1>1, <1>4 DEF EtcdStep, EtcdNext, Erase, Store, Rmdir, Changed
<1>5. CASE UNCHANGED vars
  BY <1>1, <1>5 DEF vars, numvars
<1> QED BY <1>2, <1>3, <1>4, <1>5 DEF Next

LEMMA TablesKept == Spec => [](PoolInv /\ TablesInv)
<1>1. Init => PoolInv /\ TablesInv
  BY InitPool, InitTables
<1> QED BY <1>1, NextTables, Kept, PTL DEF Spec

LEMMA LastBookIs ==
  ASSUME NEW n \in Nat, n = Len(log), NEW f, NEW i \in DOMAIN LastBook(f)
  PROVE  \E j \in 1 .. n : /\ LastBook(f)[i] = Books[log[j].value] /\ Version(f, j)
                           /\ \A m \in 1 .. n : Version(f, m) => m <= j
<1> DEFINE at == {j \in 1 .. n : Version(f, j)}
           c  == CHOOSE j \in at : \A m \in at : m <= j
<1>1. LastBook(f) = IF at = {} THEN <<>> ELSE <<Books[log[c].value]>>
  BY DEF LastBook
<1>2. at # {}
  BY <1>1
<1>3. \E j \in at : \A m \in at : m <= j
  <2>1. at \in SUBSET (1 .. n)
    OBVIOUS
  <2> QED BY <1>2, <2>1, Greatest
<1>4. c \in at /\ \A m \in at : m <= c
  BY <1>3
<1> HIDE DEF c
<1>5. LastBook(f)[i] = Books[log[c].value]
  BY <1>1, <1>2
<1> QED BY <1>4, <1>5

\* While no change was missed the tables of a file are those parse makes of
\* its last version that can be read.
LastServed ==
    read.pc = "done" /\ UpToDate(nwatch, {Tables}) =>
        \A f \in Files : \A i \in DOMAIN LastBook(f) :
            /\ LastBook(f)[i] \in {Books[c] : c \in DOMAIN Books}
            /\ f \in DOMAIN numbers /\ numbers[f] = parse(LastBook(f)[i])

LEMMA TablesServe == PoolInv /\ TablesInv => LastServed
<1> SUFFICES ASSUME PoolInv, TablesInv, read.pc = "done", UpToDate(nwatch, {Tables}),
                    NEW f \in Files, NEW i \in DOMAIN LastBook(f)
             PROVE  /\ LastBook(f)[i] \in {Books[c] : c \in DOMAIN Books}
                    /\ f \in DOMAIN numbers /\ numbers[f] = parse(LastBook(f)[i])
  BY DEF LastServed
<1>1. PICK w, n \in Nat : w = nwatch.at /\ n = Len(log) /\ w <= n
  BY DEF PoolInv, PoolTypes, TablesInv, TableTypes, WatchType, IsSeq
<1>2. PICK j \in 1 .. n : /\ LastBook(f)[i] = Books[log[j].value] /\ Version(f, j)
                          /\ \A m \in 1 .. n : Version(f, m) => m <= j
  BY <1>1, LastBookIs
<1>3. ~nwatch.lost /\ \A m \in w + 1 .. n : ~In({Tables}, log[m])
  BY <1>1 DEF UpToDate, Between
<1>4. j \in 1 .. w
  <2>1. j \in 1 .. w \/ j \in w + 1 .. n
    BY <1>1
  <2> QED BY <1>2, <1>3, <2>1, VersionWatched
<1>5. \A m \in 1 .. w : m \in 1 .. n
  BY <1>1
<1>6. Holds(f, j)
  BY <1>1, <1>2, <1>3, <1>4, <1>5 DEF TablesInv, Serving, Served
<1> QED BY <1>2, <1>6 DEF Holds, Version

\* For every instance: init, the watcher, broken files, deletions and requests
\* that fail leave a file that has a readable version with the tables of the
\* last one, while no change was missed.
THEOREM ServesLast == Spec => []LastServed
BY TablesKept, TablesServe, PTL

\* For all workbooks parse makes answering tables of: while no change was
\* missed, lookups answer from the last readable version of a file.
THEOREM TablesAreCurrent ==
  ASSUME \A c \in DOMAIN Books : AnswersFrom(parse(Books[c]), Books[c])
  PROVE  Spec => []TablesCurrent
<1>1. LastServed => TablesCurrent
  BY DEF LastServed, TablesCurrent
<1> QED BY <1>1, ServesLast, PTL
=============================================================================
