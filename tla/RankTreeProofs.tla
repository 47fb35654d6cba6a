---------------------------- MODULE RankTreeProofs ----------------------------
(***************************************************************************)
(* The ranking's tree, for every set of entries and every number of        *)
(* nodes: it stays a red-black search tree whose nodes count the ids       *)
(* below them, it implements TreeSpec, and its look-ups find every rank.   *)
(*                                                                         *)
(* The invariant describes the tree by two functions that the code does    *)
(* not have: below, the nodes of each subtree, and h, the number of black  *)
(* nodes on a way down from each node.  Both are changed by a step where   *)
(* the tree is, so no recursion over the tree is needed; what the repair   *)
(* has yet to mend is an exception at its node.                            *)
(***************************************************************************)
EXTENDS RankTree, FiniteSetTheorems, TLAPS

Sides == {"left", "right"}

Node == [left : Addr \cup {nil}, right : Addr \cup {nil}, parent : Addr \cup {nil},
         size : Int, color : BOOLEAN, score : Int, ids : Seq(Users)]
Trees == [root : Addr \cup {nil}, node : [Addr -> Node]]

UsedIn(x) == {a \in Addr : x.node[a].ids # <<>>}

Kid(x, a, s) == x.node[a][s]
Up(x, a)     == x.node[a].parent

\* Children and parents agree, and only the root has no parent.
Linked(x) ==
    /\ x.root = nil \/ (x.root \in UsedIn(x) /\ Up(x, x.root) = nil)
    /\ \A a \in UsedIn(x) : \A s \in Sides :
          Kid(x, a, s) # nil => Kid(x, a, s) \in UsedIn(x) /\ Up(x, Kid(x, a, s)) = a
    /\ \A a \in UsedIn(x) :
          IF Up(x, a) = nil THEN a = x.root
          ELSE Up(x, a) \in UsedIn(x) /\ \E s \in Sides : Kid(x, Up(x, a), s) = a
    /\ \A a \in Addr \ UsedIn(x) : x.node[a] = Free

\* below[a] is the set of the nodes of the subtree of a.
Under(below, a) == IF a = nil THEN {} ELSE below[a]

Spans(x, below) ==
    /\ below \in [Addr -> SUBSET Addr]
    /\ Under(below, x.root) = UsedIn(x)
    /\ \A a \in UsedIn(x) :
          /\ below[a] = {a} \cup Under(below, Kid(x, a, "left"))
                            \cup Under(below, Kid(x, a, "right"))
          /\ a \notin Under(below, Kid(x, a, "left"))
          /\ a \notin Under(below, Kid(x, a, "right"))
          /\ Under(below, Kid(x, a, "left")) \cap Under(below, Kid(x, a, "right")) = {}

\* v is the node that is being taken out: its place does not count.
Before(x, r, b, a) == IF r = "left" THEN x.node[b].score > x.node[a].score
                      ELSE x.node[b].score < x.node[a].score
Ordered(x, below, v) ==
    \A a \in UsedIn(x) \ {v} : \A r \in Sides :
       \A b \in Under(below, Kid(x, a, r)) \ {v} : Before(x, r, b, a)
Apart(x, v) ==
    \A a, b \in UsedIn(x) \ {v} : x.node[a].score = x.node[b].score => a = b

\* d is the node an insertion stands at: it has not been counted there.
Sized(x, v, d) ==
    \A a \in UsedIn(x) :
       x.node[a].size = nodesize(x, Kid(x, a, "left")) + nodesize(x, Kid(x, a, "right"))
                        + (IF a = v THEN 0 ELSE Len(x.node[a].ids))
                        + (IF d # nil /\ (\E s \in Sides : Kid(x, a, s) = d) THEN 1 ELSE 0)

Skeleton(x, below) == x \in Trees /\ Linked(x) /\ Spans(x, below)
Frame(x, below, v, d) ==
    /\ Skeleton(x, below)
    /\ Ordered(x, below, v) /\ Apart(x, v) /\ Sized(x, v, d)

\* Black heights; a black node is missing below d.
Seen(h, d, a) == IF a = nil THEN 0 ELSE h[a] + (IF a = d THEN 1 ELSE 0)
Level(x, h, v, d, a, s) ==
    LET l == Seen(h, d, Kid(x, a, s))  r == Seen(h, d, Kid(x, a, Other(s)))
    IN  IF a = v THEN h[a] = l + r
        ELSE l = r /\ h[a] = l + (IF x.node[a].color = BLACK THEN 1 ELSE 0)
Heights(x, h, v, d) ==
    h \in [Addr -> Nat] /\ \A a \in UsedIn(x) : \A s \in Sides : Level(x, h, v, d, a, s)

RedIn(x, a) == node_color(x, a) = RED

\* No red node below a red one, but for d and below v.
RedsApart(x, v, d) ==
    \A a \in UsedIn(x) : \A s \in Sides :
       a # v /\ RedIn(x, a) /\ Kid(x, a, s) # d => ~RedIn(x, Kid(x, a, s))

SideIn(x, a) == IF a = Kid(x, Up(x, a), "left") THEN "left" ELSE "right"
SibIn(x, a)  == Kid(x, Up(x, a), Other(SideIn(x, a)))

Inserts == {"insert_case1", "insert_case2", "insert_case3", "insert_case4", "insert_case5"}
Deletes == {"delete_case1", "delete_case2", "delete_case3", "delete_case4",
            "delete_case5", "delete_case6"}

\* No id twice in a node.
Distinct(x) == \A a \in UsedIn(x) : \A j, k \in DOMAIN x.node[a].ids :
                  x.node[a].ids[j] = x.node[a].ids[k] => j = k

\* A search tree whose black heights are h; d and r are the exceptions.
Sound(x, v, below, h, d, r) ==
    /\ Frame(x, below, v, nil) /\ Heights(x, h, v, d) /\ RedsApart(x, v, r)
    /\ Distinct(x)

Resting(x, below, h) == Sound(x, nil, below, h, nil, nil) /\ ~RedIn(x, x.root)

\* On the way down: the entry e is counted above a and belongs below it.
Carried(x, below, a, e) ==
    /\ a \in UsedIn(x) /\ e \in Entries
    /\ \A b \in UsedIn(x) : \A k \in DOMAIN x.node[b].ids : x.node[b].ids[k] # e[2]
    /\ \A b \in UsedIn(x) \ below[a] : x.node[b].score # e[1]
    /\ \A b \in UsedIn(x) :
          /\ a \in Under(below, Kid(x, b, "left")) => e[1] > x.node[b].score
          /\ a \in Under(below, Kid(x, b, "right")) => e[1] < x.node[b].score
Descending(x, a, e, below, h) ==
    /\ Frame(x, below, nil, a) /\ Heights(x, h, nil, nil) /\ RedsApart(x, nil, nil)
    /\ Distinct(x) /\ ~RedIn(x, x.root)
    /\ Carried(x, below, a, e)

\* What case p of the repair after an insertion finds at a, the red node that
\* may have a red parent.
RedAt(x, p, a) ==
    /\ a \in UsedIn(x) /\ RedIn(x, a) /\ (RedIn(x, x.root) => x.root = a)
    /\ p # "insert_case1" => Up(x, a) # nil
    /\ p \in {"insert_case3", "insert_case4", "insert_case5"} => RedIn(x, Up(x, a))
    /\ p \in {"insert_case4", "insert_case5"} => ~RedIn(x, SibIn(x, Up(x, a)))
    /\ p = "insert_case5" => SideIn(x, a) = SideIn(x, Up(x, a))
Inserting(x, p, a, below, h) == Sound(x, nil, below, h, nil, a) /\ RedAt(x, p, a)

\* The victim has at most one child, whose color it has been given.
Slim(x, v) ==
    /\ v \in UsedIn(x) /\ (RedIn(x, x.root) => x.root = v)
    /\ \E s \in Sides : Kid(x, v, s) = nil
    /\ \A s \in Sides : RedIn(x, Kid(x, v, s)) => RedIn(x, v)

\* What case p of the repair after a deletion finds at a, above which a black
\* node is missing.
ShortAt(x, below, p, a, v) ==
    /\ a \in UsedIn(x) /\ v \in below[a]
    /\ a # v => ~RedIn(x, a)
    /\ p # "delete_case1" => Up(x, a) # nil
    /\ p \in {"delete_case3", "delete_case4", "delete_case5", "delete_case6"}
          => ~RedIn(x, SibIn(x, a))
    /\ p = "delete_case4" =>
          RedIn(x, Up(x, a)) \/ \E r \in Sides : RedIn(x, Kid(x, SibIn(x, a), r))
    /\ p = "delete_case5" => \E r \in Sides : RedIn(x, Kid(x, SibIn(x, a), r))
    /\ p = "delete_case6" => RedIn(x, Kid(x, SibIn(x, a), Other(SideIn(x, a))))
Deleting(x, p, a, v, below, h) ==
    Sound(x, v, below, h, a, a) /\ Slim(x, v) /\ ShortAt(x, below, p, a, v)

Unlinking(x, v, below, h) == Sound(x, v, below, h, nil, nil) /\ Slim(x, v)

\* The state: tree, program counter, node, item and victim.
Good(x, p, a, i, v, below, h) ==
    \/ p = "idle" /\ a = nil /\ i = <<>> /\ v = nil /\ Resting(x, below, h)
    \/ p = "descend" /\ v = nil /\ Descending(x, a, i, below, h)
    \/ p \in Inserts /\ v = nil /\ i = <<>> /\ Inserting(x, p, a, below, h)
    \/ p \in Deletes /\ i = <<>> /\ Deleting(x, p, a, v, below, h)
    \/ p = "unlink" /\ a = nil /\ i = <<>> /\ Unlinking(x, v, below, h)

\* The invariant: the tree has subtrees and heights with which it is good.
IInv == \E below \in [Addr -> SUBSET Addr], h \in [Addr -> Nat] :
           Good(t, pc, n, item, victim, below, h)

-----------------------------------------------------------------------------
(* The tree as a structure. *)

\* The two sides are the mirror of each other.
LEMMA SideLaw ==
  /\ \A s \in Sides : Other(s) \in Sides /\ Other(s) # s /\ Other(Other(s)) = s
  /\ \A s, r \in Sides : r # s => r = Other(s)
BY DEF Sides, Other

\* Fields of a tree.
LEMMA TreeFields ==
  ASSUME NEW x \in Trees
  PROVE  /\ x.root \in Addr \cup {nil}
         /\ \A a \in Addr : /\ x.node[a] \in Node
                            /\ Up(x, a) \in Addr \cup {nil}
                            /\ \A s \in Sides : Kid(x, a, s) \in Addr \cup {nil}
                            /\ x.node[a].size \in Int /\ x.node[a].color \in BOOLEAN
                            /\ x.node[a].score \in Int /\ x.node[a].ids \in Seq(Users)
                            /\ Len(x.node[a].ids) \in Nat
BY DEF Trees, Node, Kid, Up, Sides

\* Addresses, nil and colors are told apart.
LEMMA AddrLaw == Addr \subseteq Nat /\ nil \notin Addr /\ nil \in Int /\ RED \in BOOLEAN
                 /\ BLACK \in BOOLEAN /\ RED # BLACK
BY TreeAssumption DEF Addr, nil, RED, BLACK

\* The subtree of a child lies in that of its parent, without the parent.
LEMMA KidLaw ==
  ASSUME NEW x, NEW below, Skeleton(x, below),
         NEW a \in UsedIn(x), NEW s \in Sides, Kid(x, a, s) # nil
  PROVE  /\ Kid(x, a, s) \in UsedIn(x) /\ Up(x, Kid(x, a, s)) = a
         /\ Kid(x, a, s) \in below[Kid(x, a, s)]
         /\ below[Kid(x, a, s)] \subseteq below[a] /\ a \notin below[Kid(x, a, s)]
         /\ Kid(x, a, s) # Kid(x, a, Other(s))
         /\ a \in below[a]
<1> DEFINE k == Kid(x, a, s)
<1>1. k \in UsedIn(x) /\ Up(x, k) = a
  BY DEF Skeleton, Linked
<1>2. k \in below[k] /\ a \in below[a]
  BY <1>1 DEF Skeleton, Spans
<1>3. below[k] \subseteq below[a] /\ a \notin below[k]
  BY DEF Skeleton, Spans, Under, Sides
<1>4. k # Kid(x, a, Other(s))
  BY <1>2 DEF Skeleton, Spans, Under, Sides, Other
<1> QED BY <1>1, <1>2, <1>3, <1>4

\* A node, its child on one side, and what is around them are nodes apart.
LEMMA AroundLaw ==
  ASSUME NEW x, NEW below, Skeleton(x, below),
         NEW m \in UsedIn(x), NEW s \in Sides, Kid(x, m, Other(s)) # nil
  PROVE  LET q == Kid(x, m, Other(s))  c == Kid(x, q, s)  p == Up(x, m)
         IN  /\ q \in UsedIn(x) /\ q # m /\ Up(x, q) = m /\ q # Kid(x, m, s)
             /\ c # nil => c \in UsedIn(x) /\ Up(x, c) = q
             /\ c # m /\ c # q
             /\ p # m /\ p # q /\ (p # nil => p # c /\ p \in UsedIn(x))
             /\ p # nil => \E r \in Sides : Kid(x, p, r) = m /\ Kid(x, p, Other(r)) # m
<1> DEFINE q == Kid(x, m, Other(s))  c == Kid(x, q, s)  p == Up(x, m)
<1>0. Other(s) \in Sides /\ Other(Other(s)) = s
  BY SideLaw
<1>1. /\ q \in UsedIn(x) /\ Up(x, q) = m /\ q \in below[q] /\ below[q] \subseteq below[m]
      /\ m \notin below[q] /\ q # Kid(x, m, s) /\ m \in below[m]
  BY <1>0, KidLaw
<1>2. c # nil => /\ c \in UsedIn(x) /\ Up(x, c) = q /\ c \in below[c]
                 /\ below[c] \subseteq below[q] /\ q \notin below[c]
  BY <1>1, KidLaw
<1>3. nil \notin UsedIn(x)
  BY AddrLaw DEF UsedIn
<1>4. p # nil => p \in UsedIn(x) /\ \E r \in Sides : Kid(x, p, r) = m
  BY DEF Skeleton, Linked
<1>5. ASSUME p # nil, NEW r \in Sides, Kid(x, p, r) = m
      PROVE  /\ below[m] \subseteq below[p] /\ p \notin below[m]
             /\ Kid(x, p, Other(r)) # m
  BY <1>3, <1>4, <1>5, KidLaw
<1> QED BY <1>1, <1>2, <1>3, <1>4, <1>5

-----------------------------------------------------------------------------
(* Rotations. *)

\* The nodes of y are those of x with m and its child q turned.
Rotated(x, y, m, s) ==
  LET q == Kid(x, m, Other(s))  c == Kid(x, q, s)  p == Up(x, m)
  IN  /\ y \in Trees
      /\ y.root = IF p = nil THEN q ELSE x.root
      /\ \A a \in Addr :
            /\ y.node[a].score = x.node[a].score /\ y.node[a].ids = x.node[a].ids
            /\ y.node[a].color = x.node[a].color
            /\ Up(y, a) = IF a = m THEN q ELSE IF a = c THEN m
                          ELSE IF a = q THEN p ELSE Up(x, a)
            /\ Kid(y, a, s) = IF a = q THEN m
                              ELSE IF a = p /\ Kid(x, a, s) = m THEN q ELSE Kid(x, a, s)
            /\ Kid(y, a, Other(s)) = IF a = m THEN c
                                     ELSE IF a = p /\ Kid(x, a, Other(s)) = m THEN q
                                     ELSE Kid(x, a, Other(s))
            /\ y.node[a].size = IF a = q THEN x.node[m].size
                                ELSE IF a = m THEN nodesize(x, Kid(x, m, s)) + nodesize(x, c)
                                                   + Len(x.node[m].ids)
                                ELSE x.node[a].size

\* replace_node, field by field.
LEMMA ReplaceFields ==
  ASSUME NEW x \in Trees, NEW o \in Addr, NEW w \in Addr \cup {nil}
  PROVE  LET y == replace_node(x, o, w)  p == Up(x, o)
         IN  /\ y \in Trees
             /\ y.root = IF p = nil THEN w ELSE x.root
             /\ \A a \in Addr :
                   /\ y.node[a].score = x.node[a].score /\ y.node[a].ids = x.node[a].ids
                   /\ y.node[a].color = x.node[a].color /\ y.node[a].size = x.node[a].size
                   /\ Up(y, a) = IF a = w THEN p ELSE Up(x, a)
                   /\ \A r \in Sides :
                         Kid(y, a, r) = IF a = p /\ Kid(x, a, r) = o THEN w ELSE Kid(x, a, r)
<1> DEFINE y == replace_node(x, o, w)  p == Up(x, o)
<1>1. p \in Addr \cup {nil} /\ x.root \in Addr \cup {nil}
  BY TreeFields
<1>2. y.root = IF p = nil THEN w ELSE x.root
  BY DEF replace_node, Up
<1>3. ASSUME NEW a \in Addr
      PROVE  /\ y.node[a] \in Node
             /\ y.node[a].score = x.node[a].score /\ y.node[a].ids = x.node[a].ids
             /\ y.node[a].color = x.node[a].color /\ y.node[a].size = x.node[a].size
             /\ Up(y, a) = IF a = w THEN p ELSE Up(x, a)
             /\ \A r \in Sides :
                   Kid(y, a, r) = IF a = p /\ Kid(x, a, r) = o THEN w ELSE Kid(x, a, r)
  <2>1. y.node[a] = [x.node[a] EXCEPT
                        !.left   = IF a = p /\ @ = o THEN w ELSE @,
                        !.right  = IF a = p /\ @ = o THEN w ELSE @,
                        !.parent = IF a = w THEN p ELSE @]
    BY DEF replace_node, Up
  <2>2. x.node[a] \in Node
    BY TreeFields
  <2> HIDE DEF y
  <2> QED BY <1>1, <2>1, <2>2 DEF Node, Kid, Up, Sides
<1>4. y \in Trees
  <2>1. y = [root |-> y.root, node |-> y.node] /\ y.node = [a \in Addr |-> y.node[a]]
    BY DEF replace_node
  <2> HIDE DEF y
  <2> QED BY <1>1, <1>2, <1>3, <2>1 DEF Trees
<1> QED BY <1>2, <1>3, <1>4

\* w is the node r with both children and its parent set.
IsSet(w, r, s, o, e, f, g) == w = [r EXCEPT ![o] = e, ![s] = f, !.parent = g]
WasSet(w, r, s, o, e, f, g) ==
    /\ w \in Node /\ w[s] = f /\ w[o] = e /\ w.parent = g
    /\ w.score = r.score /\ w.ids = r.ids /\ w.color = r.color /\ w.size = r.size

\* The three links of one node set at once, as rotate does for each node.
LEMMA SetNode ==
  ASSUME NEW r \in Node, NEW s \in Sides, NEW o \in Sides, o # s,
         NEW e \in Addr \cup {nil}, NEW f \in Addr \cup {nil}, NEW g \in Addr \cup {nil},
         NEW w, IsSet(w, r, s, o, e, f, g)
  PROVE  WasSet(w, r, s, o, e, f, g)
<1>1. CASE s = "left" /\ o = "right"
  <2>1. w = [r EXCEPT !.right = e, !.left = f, !.parent = g]
    BY <1>1, Zenon DEF IsSet
  <2> QED BY <1>1, <2>1 DEF Node, WasSet
<1>2. CASE s = "right" /\ o = "left"
  <2>1. w = [r EXCEPT !.left = e, !.right = f, !.parent = g]
    BY <1>2, Zenon DEF IsSet
  <2> QED BY <1>2, <2>1 DEF Node, WasSet
<1> QED BY <1>1, <1>2 DEF Sides

\* rotate, field by field.
LEMMA RotateFields ==
  ASSUME NEW x, NEW below, Skeleton(x, below),
         NEW m \in UsedIn(x), NEW s \in Sides, Kid(x, m, Other(s)) # nil
  PROVE  Rotated(x, rotate(x, m, s), m, s)
<1> DEFINE o == Other(s)  q == Kid(x, m, o)  c == Kid(x, q, s)  p == Up(x, m)
           y == replace_node(x, m, q)
           nd == [a \in Addr |->
                    [y.node[a] EXCEPT ![o] = IF a = m THEN c ELSE @,
                                      ![s] = IF a = q THEN m ELSE @,
                                      !.parent = CASE a = m -> q [] a = c -> m
                                                   [] OTHER -> @]]
           z == [y EXCEPT !.node = nd]
           w == rotate_callback(z, m, q)
<1>0. x \in Trees /\ m \in Addr /\ o \in Sides /\ o # s /\ nil \notin Addr
  BY SideLaw, AddrLaw DEF Skeleton, UsedIn
<1>1. /\ q \in Addr /\ q # m /\ q # Kid(x, m, s)
      /\ c \in Addr \cup {nil} /\ c # m /\ c # q
      /\ p \in Addr \cup {nil} /\ p # m /\ p # q /\ (p # nil => p # c)
      /\ Kid(x, m, s) \in Addr \cup {nil}
  BY <1>0, AroundLaw, TreeFields DEF UsedIn
<1>2. /\ y \in Trees
      /\ y.root = IF p = nil THEN q ELSE x.root
      /\ \A a \in Addr :
            /\ y.node[a].score = x.node[a].score /\ y.node[a].ids = x.node[a].ids
            /\ y.node[a].color = x.node[a].color /\ y.node[a].size = x.node[a].size
            /\ Up(y, a) = IF a = q THEN p ELSE Up(x, a)
            /\ \A r \in Sides :
                  Kid(y, a, r) = IF a = p /\ Kid(x, a, r) = m THEN q ELSE Kid(x, a, r)
  <2> HIDE DEF y
  <2> QED BY <1>0, <1>1, ReplaceFields DEF y
<1>3. rotate(x, m, s) = w
  BY DEF rotate, Kid
<1> HIDE DEF y
<1>4. ASSUME NEW a \in Addr
      PROVE  /\ nd[a] \in Node
             /\ nd[a].score = x.node[a].score /\ nd[a].ids = x.node[a].ids
             /\ nd[a].color = x.node[a].color /\ nd[a].size = x.node[a].size
             /\ nd[a].parent = IF a = m THEN q ELSE IF a = c THEN m
                               ELSE IF a = q THEN p ELSE Up(x, a)
             /\ nd[a][s] = IF a = q THEN m
                           ELSE IF a = p /\ Kid(x, a, s) = m THEN q ELSE Kid(x, a, s)
             /\ nd[a][o] = IF a = m THEN c ELSE IF a = p /\ Kid(x, a, o) = m THEN q
                           ELSE Kid(x, a, o)
  <2>1. y.node[a] \in Node
    BY <1>2, TreeFields
  <2> DEFINE e == IF a = m THEN c ELSE y.node[a][o]
             f == IF a = q THEN m ELSE y.node[a][s]
             g == CASE a = m -> q [] a = c -> m [] OTHER -> y.node[a].parent
  <2>2. IsSet(nd[a], y.node[a], s, o, e, f, g)
    BY DEF IsSet
  <2>3. /\ e \in Addr \cup {nil} /\ f \in Addr \cup {nil} /\ g \in Addr \cup {nil}
        /\ g = IF a = m THEN q ELSE IF a = c THEN m ELSE y.node[a].parent
    <3>1. y.node[a][o] \in Addr \cup {nil} /\ y.node[a][s] \in Addr \cup {nil}
          /\ y.node[a].parent \in Addr \cup {nil}
      BY <1>0, <1>2, TreeFields DEF Kid, Up
    <3> HIDE DEF o, q, c
    <3> QED BY <1>0, <1>1, <3>1
  <2> HIDE DEF nd, e, f, g
  <2>4. /\ nd[a] \in Node /\ nd[a][s] = f /\ nd[a][o] = e /\ nd[a].parent = g
        /\ nd[a].score = y.node[a].score /\ nd[a].ids = y.node[a].ids
        /\ nd[a].color = y.node[a].color /\ nd[a].size = y.node[a].size
    <3> HIDE DEF o
    <3>1. s \in Sides /\ o \in Sides /\ o # s
      BY <1>0
    <3> HIDE DEF q, c, p
    <3>2. e \in Addr \cup {nil} /\ f \in Addr \cup {nil} /\ g \in Addr \cup {nil}
      BY <2>3
    <3>3. WasSet(nd[a], y.node[a], s, o, e, f, g)
      BY <2>1, <2>2, <3>1, <3>2, SetNode
    <3> QED BY <3>3 DEF WasSet
  <2>5. /\ Kid(y, a, s) = y.node[a][s] /\ Kid(y, a, o) = y.node[a][o]
        /\ Up(y, a) = y.node[a].parent
    BY DEF Kid, Up
  <2> HIDE DEF o, q, c, p
  <2> QED BY <1>0, <1>1, <1>2, <2>3, <2>4, <2>5 DEF e, f
<1>5. z = [root |-> y.root, node |-> nd] /\ z \in Trees
  <2>1. nd \in [Addr -> Node]
    BY <1>4
  <2>2. y.root \in Addr \cup {nil}
    BY <1>2, TreeFields
  <2> HIDE DEF nd
  <2> QED BY <1>2, <2>1, <2>2 DEF Trees
<1> HIDE DEF nd, z
<1>6. nodesize(z, m) = x.node[m].size
  BY <1>0, <1>4, <1>5 DEF nodesize
<1>7. /\ nodesize(z, z.node[m].left) + nodesize(z, z.node[m].right) + Len(z.node[m].ids)
           = nodesize(x, Kid(x, m, s)) + nodesize(x, c) + Len(x.node[m].ids)
      /\ nodesize(x, Kid(x, m, s)) + nodesize(x, c) + Len(x.node[m].ids) \in Int
  <2>1. \A a \in Addr \cup {nil} : nodesize(z, a) = nodesize(x, a) /\ nodesize(x, a) \in Int
    BY <1>0, <1>4, <1>5, AddrLaw, TreeFields DEF nodesize
  <2>2. z.node[m][s] = Kid(x, m, s) /\ z.node[m][o] = c /\ z.node[m].ids = x.node[m].ids
        /\ Len(x.node[m].ids) \in Nat
    BY <1>0, <1>1, <1>4, <1>5, TreeFields
  <2> DEFINE k == Kid(x, m, s)
  <2>3. CASE s = "left" /\ o = "right"
    <3>1. z.node[m].left = k /\ z.node[m].right = c
      BY <2>2, <2>3
    <3> HIDE DEF c, q, o, p, k
    <3>2. /\ nodesize(z, z.node[m].left) = nodesize(x, k)
          /\ nodesize(z, z.node[m].right) = nodesize(x, c)
          /\ nodesize(x, k) \in Int /\ nodesize(x, c) \in Int
      BY <1>1, <2>1, <3>1 DEF k
    <3> QED BY <2>2, <3>2 DEF k
  <2>4. CASE s = "right" /\ o = "left"
    <3>1. z.node[m].right = k /\ z.node[m].left = c
      BY <2>2, <2>4
    <3> HIDE DEF c, q, o, p, k
    <3>2. /\ nodesize(z, z.node[m].right) = nodesize(x, k)
          /\ nodesize(z, z.node[m].left) = nodesize(x, c)
          /\ nodesize(x, k) \in Int /\ nodesize(x, c) \in Int
      BY <1>1, <2>1, <3>1 DEF k
    <3> QED BY <2>2, <3>2 DEF k
  <2> QED BY <1>0, <2>3, <2>4 DEF Sides
<1>8. /\ w \in Trees /\ w.root = z.root
      /\ \A a \in Addr :
            /\ w.node[a].score = z.node[a].score /\ w.node[a].ids = z.node[a].ids
            /\ w.node[a].color = z.node[a].color /\ w.node[a].parent = z.node[a].parent
            /\ \A r \in Sides : w.node[a][r] = z.node[a][r]
            /\ w.node[a].size = IF a = q THEN x.node[m].size
                                ELSE IF a = m THEN nodesize(x, Kid(x, m, s)) + nodesize(x, c)
                                                   + Len(x.node[m].ids)
                                ELSE z.node[a].size
  <2> DEFINE e == nodesize(x, Kid(x, m, s)) + nodesize(x, c) + Len(x.node[m].ids)
             f == x.node[m].size
  <2>1. w = [z EXCEPT !.node[q].size = f, !.node[m].size = e]
    BY <1>6, <1>7 DEF rotate_callback
  <2>2. e \in Int /\ f \in Int
    BY <1>0, <1>7, TreeFields
  <2>3. \A a \in Addr : w.node[a] = [z.node[a] EXCEPT !.size = IF a = m THEN e
                                                       ELSE IF a = q THEN f ELSE @]
    <3>1. z \in Trees /\ m \in Addr /\ q \in Addr /\ q # m
      BY <1>0, <1>1, <1>5
    <3> HIDE DEF e, f, q, w
    <3> QED BY <2>1, <3>1 DEF Trees, Node
  <2>4. /\ w.root = z.root /\ w = [root |-> w.root, node |-> w.node]
        /\ w.node = [a \in Addr |-> w.node[a]]
    <3> HIDE DEF e, f, q, w
    <3> QED BY <1>5, <2>1 DEF Trees
  <2> HIDE DEF w, e, f, q
  <2>5. ASSUME NEW a \in Addr PROVE w.node[a] \in Node
    <3>1. z.node[a] \in Node
      BY <1>5 DEF Trees
    <3> QED BY <2>2, <2>3, <3>1 DEF Node
  <2>6. w \in Trees
    BY <1>5, <2>4, <2>5 DEF Trees
  <2>7. ASSUME NEW a \in Addr
        PROVE  /\ w.node[a].score = z.node[a].score /\ w.node[a].ids = z.node[a].ids
               /\ w.node[a].color = z.node[a].color /\ w.node[a].parent = z.node[a].parent
               /\ \A r \in Sides : w.node[a][r] = z.node[a][r]
               /\ w.node[a].size = IF a = q THEN f ELSE IF a = m THEN e ELSE z.node[a].size
    <3>1. z.node[a] \in Node
      BY <1>5 DEF Trees
    <3> QED BY <1>1, <2>3, <3>1 DEF Node, Sides
  <2> QED BY <2>4, <2>6, <2>7 DEF e, f, q
<1> HIDE DEF w
<1>9. w.root = IF p = nil THEN q ELSE x.root
  BY <1>2, <1>5, <1>8
<1> QED BY <1>0, <1>3, <1>4, <1>5, <1>8, <1>9 DEF Rotated, Kid, Up

\* The subtrees after the rotation.
Turn(x, below, m, s) ==
  LET q == Kid(x, m, Other(s))
  IN  [below EXCEPT ![q] = below[m],
                    ![m] = {m} \cup Under(below, Kid(x, m, s)) \cup Under(below, Kid(x, q, s))]

\* A rotation changes two subtrees: that of m, which loses the child, and that of
\* the child, which becomes what that of m was.
LEMMA RotateUnder ==
  ASSUME NEW x, NEW y, NEW below, Skeleton(x, below),
         NEW m \in UsedIn(x), NEW s \in Sides, Kid(x, m, Other(s)) # nil,
         Rotated(x, y, m, s)
  PROVE  LET o == Other(s)  q == Kid(x, m, o)  c == Kid(x, q, s)
             new == Turn(x, below, m, s)
         IN  /\ UsedIn(y) = UsedIn(x) /\ new \in [Addr -> SUBSET Addr]
             /\ new[q] = below[m]
             /\ new[m] = {m} \cup Under(below, Kid(x, m, s)) \cup Under(below, c)
             /\ \A a \in Addr \ {m, q} : new[a] = below[a]
             /\ \A a \in UsedIn(x) \ {m, q} : \A r \in Sides :
                   Under(new, Kid(y, a, r)) = Under(below, Kid(x, a, r))
             /\ Kid(y, m, s) = Kid(x, m, s) /\ Kid(y, m, o) = c
             /\ Kid(y, q, s) = m /\ Kid(y, q, o) = Kid(x, q, o)
             /\ Under(new, Kid(x, m, s)) = Under(below, Kid(x, m, s))
             /\ Under(new, c) = Under(below, c)
             /\ Under(new, Kid(x, q, o)) = Under(below, Kid(x, q, o))
             /\ Under(new, m) = new[m] /\ m # q
<1> DEFINE o == Other(s)  q == Kid(x, m, o)  c == Kid(x, q, s)  p == Up(x, m)
           new == Turn(x, below, m, s)  k == Kid(x, m, s)  e == Kid(x, q, o)
<1>0. /\ o \in Sides /\ o # s /\ Other(o) = s /\ \A r \in Sides : r = s \/ r = o
      /\ nil \notin Addr /\ m \in Addr /\ UsedIn(x) \subseteq Addr
  BY SideLaw, AddrLaw DEF UsedIn
<1>1. /\ q \in UsedIn(x) /\ q # m /\ Up(x, q) = m /\ q # k
      /\ c # nil => c \in UsedIn(x) /\ Up(x, c) = q
      /\ c # m /\ c # q
      /\ p # m /\ p # q /\ (p # nil => p # c /\ p \in UsedIn(x))
  BY AroundLaw
<1>2. k # nil => k \in UsedIn(x) /\ Up(x, k) = m /\ k # m
  BY <1>0, KidLaw
<1>3. e # nil => e \in UsedIn(x) /\ Up(x, e) = q /\ e # q
  BY <1>0, <1>1, KidLaw
<1>4. /\ Kid(y, m, s) = k /\ Kid(y, m, o) = c /\ Kid(y, q, s) = m /\ Kid(y, q, o) = e
  <2>1. /\ \A a \in Addr :
              /\ Kid(y, a, s) = IF a = q THEN m
                                ELSE IF a = p /\ Kid(x, a, s) = m THEN q ELSE Kid(x, a, s)
              /\ Kid(y, a, o) = IF a = m THEN c ELSE IF a = p /\ Kid(x, a, o) = m THEN q
                                ELSE Kid(x, a, o)
    BY DEF Rotated
  <2> HIDE DEF o, c, p
  <2> QED BY <1>0, <1>1, <2>1
<1>5. UsedIn(y) = UsedIn(x)
  BY DEF Rotated, UsedIn
<1>6. /\ new \in [Addr -> SUBSET Addr] /\ new[q] = below[m]
      /\ new[m] = {m} \cup Under(below, k) \cup Under(below, c)
      /\ \A a \in Addr \ {m, q} : new[a] = below[a]
  <2>1. new = [below EXCEPT ![q] = below[m],
                            ![m] = {m} \cup Under(below, k) \cup Under(below, c)]
    BY DEF Turn
  <2>2. below \in [Addr -> SUBSET Addr]
    BY DEF Skeleton, Spans
  <2>3. {m} \cup Under(below, k) \cup Under(below, c) \in SUBSET Addr
    BY <1>0, <1>1, <1>2, <2>2 DEF Under
  <2> HIDE DEF new, o, q, c, k
  <2> QED BY <1>0, <1>1, <2>1, <2>2, <2>3
<1>7. ASSUME NEW a \in UsedIn(x) \ {m, q}, NEW r \in Sides
      PROVE  Under(new, Kid(y, a, r)) = Under(below, Kid(x, a, r))
  <2>1. Kid(y, a, r) = IF a = p /\ Kid(x, a, r) = m THEN q ELSE Kid(x, a, r)
    <3>1. /\ Kid(y, a, s) = IF a = q THEN m
                            ELSE IF a = p /\ Kid(x, a, s) = m THEN q ELSE Kid(x, a, s)
          /\ Kid(y, a, o) = IF a = m THEN c ELSE IF a = p /\ Kid(x, a, o) = m THEN q
                            ELSE Kid(x, a, o)
      BY <1>0 DEF Rotated
    <3> HIDE DEF o, q, c, p
    <3> QED BY <1>0, <3>1
  <2>2. Kid(x, a, r) # nil => Kid(x, a, r) \in UsedIn(x) /\ Up(x, Kid(x, a, r)) = a
    BY KidLaw
  <2>3. CASE Kid(x, a, r) = m
    BY <1>0, <1>1, <1>6, <2>1, <2>2, <2>3 DEF Under
  <2>4. CASE Kid(x, a, r) # m
    <3>1. Kid(x, a, r) # q
      BY <1>0, <1>1, <2>2
    <3> QED BY <1>0, <1>6, <2>1, <2>2, <2>4, <3>1 DEF Under
  <2> QED BY <2>3, <2>4
<1>8. /\ Under(new, k) = Under(below, k) /\ Under(new, c) = Under(below, c)
      /\ Under(new, e) = Under(below, e) /\ Under(new, m) = new[m]
  <2>1. e # m
    BY <1>0, <1>1, <1>3
  <2> HIDE DEF new, q, c, k, e
  <2> QED BY <1>0, <1>1, <1>2, <1>3, <1>6, <2>1 DEF Under
<1> QED BY <1>1, <1>4, <1>5, <1>6, <1>7, <1>8

\* A rotation keeps the links mutual and the subtrees disjoint.
LEMMA RotateSkeleton ==
  ASSUME NEW x, NEW y, NEW below, Skeleton(x, below),
         NEW m \in UsedIn(x), NEW s \in Sides, Kid(x, m, Other(s)) # nil,
         Rotated(x, y, m, s)
  PROVE  Skeleton(y, Turn(x, below, m, s))
<1> DEFINE o == Other(s)  q == Kid(x, m, o)  c == Kid(x, q, s)  p == Up(x, m)
           new == Turn(x, below, m, s)  k == Kid(x, m, s)  e == Kid(x, q, o)
<1>0. /\ o \in Sides /\ o # s /\ Other(o) = s /\ \A r \in Sides : r = s \/ r = o
      /\ nil \notin Addr /\ m \in Addr /\ UsedIn(x) \subseteq Addr
  BY SideLaw, AddrLaw DEF UsedIn
<1>1. /\ q \in UsedIn(x) /\ q # m /\ Up(x, q) = m /\ q # k
      /\ c # nil => c \in UsedIn(x) /\ Up(x, c) = q
      /\ c # m /\ c # q
      /\ p # m /\ p # q /\ (p # nil => p # c /\ p \in UsedIn(x))
      /\ p # nil => \E r \in Sides : Kid(x, p, r) = m /\ Kid(x, p, Other(r)) # m
  BY AroundLaw
<1>2. /\ UsedIn(y) = UsedIn(x) /\ new \in [Addr -> SUBSET Addr]
      /\ new[q] = below[m]
      /\ new[m] = {m} \cup Under(below, k) \cup Under(below, c)
      /\ \A a \in Addr \ {m, q} : new[a] = below[a]
      /\ \A a \in UsedIn(x) \ {m, q} : \A r \in Sides :
            Under(new, Kid(y, a, r)) = Under(below, Kid(x, a, r))
      /\ Kid(y, m, s) = k /\ Kid(y, m, o) = c
      /\ Kid(y, q, s) = m /\ Kid(y, q, o) = e
      /\ Under(new, k) = Under(below, k)
      /\ Under(new, c) = Under(below, c)
      /\ Under(new, e) = Under(below, e)
      /\ Under(new, m) = new[m]
  BY RotateUnder
<1>3. \A a \in UsedIn(x) :
         /\ below[a] = {a} \cup Under(below, Kid(x, a, s)) \cup Under(below, Kid(x, a, o))
         /\ a \notin Under(below, Kid(x, a, s)) /\ a \notin Under(below, Kid(x, a, o))
         /\ Under(below, Kid(x, a, s)) \cap Under(below, Kid(x, a, o)) = {}
  <2>1. CASE s = "left" /\ o = "right"
    BY <2>1 DEF Skeleton, Spans
  <2>2. CASE s = "right" /\ o = "left"
    BY <2>2 DEF Skeleton, Spans
  <2> QED BY <1>0, <2>1, <2>2 DEF Sides
<1>4. /\ below[m] = {m} \cup Under(below, k) \cup below[q] /\ m \notin Under(below, k)
      /\ m \notin below[q] /\ Under(below, k) \cap below[q] = {}
      /\ below[q] = {q} \cup Under(below, c) \cup Under(below, e)
      /\ q \notin Under(below, c) /\ q \notin Under(below, e)
      /\ Under(below, c) \cap Under(below, e) = {}
  <2>1. Under(below, q) = below[q]
    BY <1>0, <1>1 DEF Under
  <2> QED BY <1>1, <1>3, <2>1
<1> HIDE DEF new, e, c, k, q, p, o
<1>5. \A a \in UsedIn(y) :
         /\ new[a] = {a} \cup Under(new, Kid(y, a, s)) \cup Under(new, Kid(y, a, o))
         /\ a \notin Under(new, Kid(y, a, s)) /\ a \notin Under(new, Kid(y, a, o))
         /\ Under(new, Kid(y, a, s)) \cap Under(new, Kid(y, a, o)) = {}
  <2> SUFFICES ASSUME NEW a \in UsedIn(y)
               PROVE  /\ new[a] = {a} \cup Under(new, Kid(y, a, s)) \cup Under(new, Kid(y, a, o))
                      /\ a \notin Under(new, Kid(y, a, s)) /\ a \notin Under(new, Kid(y, a, o))
                      /\ Under(new, Kid(y, a, s)) \cap Under(new, Kid(y, a, o)) = {}
    OBVIOUS
  <2>1. CASE a = m
    BY <1>1, <1>2, <1>4, <2>1
  <2>2. CASE a = q
    BY <1>1, <1>2, <1>4, <2>2
  <2>3. CASE a \notin {m, q}
    BY <1>0, <1>2, <1>3, <2>3
  <2> QED BY <2>1, <2>2, <2>3
<1>6. /\ Under(new, y.root) = UsedIn(y)
      /\ y.root = nil \/ (y.root \in UsedIn(y) /\ Up(y, y.root) = nil)
      /\ \A a \in UsedIn(y) : Up(y, a) = nil => a = y.root
  <2>1. /\ y.root = IF p = nil THEN q ELSE x.root
        /\ \A a \in Addr : Up(y, a) = IF a = m THEN q ELSE IF a = c THEN m
                                      ELSE IF a = q THEN p ELSE Up(x, a)
    BY DEF Rotated, c, q, p, o
  <2>2. /\ Under(below, x.root) = UsedIn(x)
        /\ x.root = nil \/ (x.root \in UsedIn(x) /\ Up(x, x.root) = nil)
        /\ \A a \in UsedIn(x) : Up(x, a) = nil => a = x.root
    BY DEF Skeleton, Spans, Linked
  <2>3. p = Up(x, m)
    BY DEF p
  <2>4. CASE p = nil
    BY <1>0, <1>1, <1>2, <2>1, <2>2, <2>3, <2>4 DEF Under
  <2>5. CASE p # nil
    BY <1>0, <1>1, <1>2, <2>1, <2>2, <2>3, <2>5 DEF Under
  <2> QED BY <2>4, <2>5
<1>7. \A a \in UsedIn(y) : \A r \in Sides :
         Kid(y, a, r) # nil => Kid(y, a, r) \in UsedIn(y) /\ Up(y, Kid(y, a, r)) = a
  <2> SUFFICES ASSUME NEW a \in UsedIn(y), NEW r \in Sides, Kid(y, a, r) # nil
               PROVE  Kid(y, a, r) \in UsedIn(y) /\ Up(y, Kid(y, a, r)) = a
    OBVIOUS
  <2>1. /\ \A b \in Addr : Up(y, b) = IF b = m THEN q ELSE IF b = c THEN m
                                      ELSE IF b = q THEN p ELSE Up(x, b)
        /\ Kid(y, a, s) = IF a = q THEN m
                          ELSE IF a = p /\ Kid(x, a, s) = m THEN q ELSE Kid(x, a, s)
        /\ Kid(y, a, o) = IF a = m THEN c ELSE IF a = p /\ Kid(x, a, o) = m THEN q
                          ELSE Kid(x, a, o)
    BY <1>0, <1>2 DEF Rotated, c, q, p, o
  <2>2. Kid(x, a, r) # nil => Kid(x, a, r) \in UsedIn(x) /\ Up(x, Kid(x, a, r)) = a
    BY <1>2 DEF Skeleton, Linked
  <2>3. k # nil => k \in UsedIn(x) /\ Up(x, k) = m
    BY <1>0, <1>1, KidLaw DEF k
  <2>4. e # nil => e \in UsedIn(x) /\ Up(x, e) = q
    BY <1>0, <1>1, KidLaw DEF e
  <2>5. /\ k # q /\ (k = c => k = nil) /\ (e = c => e = nil)
        /\ k # m /\ e # m /\ e # q
    <3>1. k # nil => k \in below[k] /\ Under(below, k) = below[k]
      BY <1>0, KidLaw DEF k, Under
    <3>2. e # nil => e \in below[e] /\ Under(below, e) = below[e]
      BY <1>0, <1>1, KidLaw DEF e, Under
    <3>3. c # nil => c \in below[c] /\ Under(below, c) = below[c]
      BY <1>0, <1>1, KidLaw DEF c, Under
    <3> QED BY <1>0, <1>1, <1>4, <3>1, <3>2, <3>3
  <2>7. CASE a = m
    BY <1>0, <1>1, <1>2, <2>1, <2>3, <2>5, <2>7
  <2>8. CASE a = q
    BY <1>0, <1>1, <1>2, <2>1, <2>4, <2>5, <2>8
  <2>9. CASE a \notin {m, q}
    <3>1. Kid(y, a, r) = IF a = p /\ Kid(x, a, r) = m THEN q ELSE Kid(x, a, r)
      BY <1>0, <2>1, <2>9
    <3> QED BY <1>0, <1>1, <1>2, <2>1, <2>2, <2>9, <3>1 DEF p
  <2> QED BY <2>7, <2>8, <2>9
<1>8. \A a \in UsedIn(y) :
         Up(y, a) # nil => Up(y, a) \in UsedIn(y) /\ \E r \in Sides : Kid(y, Up(y, a), r) = a
  <2> SUFFICES ASSUME NEW a \in UsedIn(y), Up(y, a) # nil
               PROVE  Up(y, a) \in UsedIn(y) /\ \E r \in Sides : Kid(y, Up(y, a), r) = a
    OBVIOUS
  <2>1. Up(y, a) = IF a = m THEN q ELSE IF a = c THEN m ELSE IF a = q THEN p ELSE Up(x, a)
    BY <1>0, <1>2 DEF Rotated, c, q, p, o
  <2>2. \A b \in Addr \ {m, q} : \A r \in Sides :
           Kid(y, b, r) = IF b = p /\ Kid(x, b, r) = m THEN q ELSE Kid(x, b, r)
    <3> SUFFICES ASSUME NEW b \in Addr \ {m, q}
                 PROVE  \A r \in Sides :
                           Kid(y, b, r) = IF b = p /\ Kid(x, b, r) = m THEN q ELSE Kid(x, b, r)
      OBVIOUS
    <3>1. /\ Kid(y, b, s) = IF b = q THEN m
                            ELSE IF b = p /\ Kid(x, b, s) = m THEN q ELSE Kid(x, b, s)
          /\ Kid(y, b, o) = IF b = m THEN c ELSE IF b = p /\ Kid(x, b, o) = m THEN q
                            ELSE Kid(x, b, o)
      BY DEF Rotated, c, q, p, o
    <3> QED BY <1>0, <3>1
  <2>3. Up(x, a) # nil => Up(x, a) \in UsedIn(x) /\ \E r \in Sides : Kid(x, Up(x, a), r) = a
    BY <1>2 DEF Skeleton, Linked
  <2>4. CASE a = m \/ a = c
    BY <1>0, <1>1, <1>2, <2>1, <2>4
  <2>5. CASE a = q
    BY <1>0, <1>1, <1>2, <2>1, <2>2, <2>5
  <2>6. CASE a \notin {m, c, q}
    <3>1. PICK r \in Sides : Kid(x, Up(x, a), r) = a
      BY <2>1, <2>3, <2>6
    <3>2. CASE Up(x, a) = m
      BY <1>0, <1>1, <1>2, <2>1, <2>6, <3>1, <3>2 DEF k, q
    <3>3. CASE Up(x, a) = q
      BY <1>0, <1>1, <1>2, <2>1, <2>6, <3>1, <3>3 DEF e, c
    <3>4. CASE Up(x, a) \notin {m, q}
      BY <1>0, <1>2, <2>1, <2>2, <2>3, <2>6, <3>1, <3>4
    <3> QED BY <3>2, <3>3, <3>4
  <2> QED BY <2>4, <2>5, <2>6
<1>9. \A a \in Addr \ UsedIn(y) : y.node[a] = Free
  <2> SUFFICES ASSUME NEW a \in Addr \ UsedIn(y) PROVE y.node[a] = Free
    OBVIOUS
  <2>1. x.node[a] = Free /\ x \in Trees /\ y \in Trees
    BY <1>2 DEF Skeleton, Linked, Rotated
  <2>2. a \notin {m, q, p} /\ (a = c => c = nil) /\ a # c
    BY <1>0, <1>1, <1>2
  <2>3. /\ y.node[a].score = x.node[a].score /\ y.node[a].ids = x.node[a].ids
        /\ y.node[a].color = x.node[a].color /\ y.node[a].size = x.node[a].size
        /\ Up(y, a) = Up(x, a) /\ Kid(y, a, s) = Kid(x, a, s) /\ Kid(y, a, o) = Kid(x, a, o)
    BY <2>2 DEF Rotated, c, q, p, o
  <2>4. y.node[a] \in Node /\ x.node[a] \in Node
    BY <2>1, TreeFields
  <2>5. y.node[a].left = x.node[a].left /\ y.node[a].right = x.node[a].right
        /\ y.node[a].parent = x.node[a].parent
    <3>1. \A r \in Sides : Kid(y, a, r) = Kid(x, a, r)
      BY <1>0, <2>3
    <3>2. Kid(y, a, "left") = Kid(x, a, "left") /\ Kid(y, a, "right") = Kid(x, a, "right")
      BY <3>1 DEF Sides
    <3> QED BY <2>3, <3>2 DEF Kid, Up
  <2>6. y.node[a] = x.node[a]
    BY <2>3, <2>4, <2>5 DEF Node
  <2> QED BY <2>1, <2>6
<1>10. y \in Trees
  BY DEF Rotated
<1>11. Linked(y)
  BY <1>6, <1>7, <1>8, <1>9 DEF Linked
<1>12. Spans(y, new)
  <2>1. CASE s = "left" /\ o = "right"
    BY <1>2, <1>5, <1>6, <2>1 DEF Spans
  <2>2. CASE s = "right" /\ o = "left"
    BY <1>2, <1>5, <1>6, <2>2 DEF Spans
  <2> QED BY <1>0, <2>1, <2>2 DEF Sides
<1> QED BY <1>10, <1>11, <1>12 DEF Skeleton, new

\* Before is transitive, and the sides are the two directions of it.
LEMMA BeforeLaw ==
  ASSUME NEW x \in Trees, NEW s \in Sides
  PROVE  /\ \A a, b, c \in Addr : Before(x, s, b, a) /\ Before(x, s, c, b) => Before(x, s, c, a)
         /\ \A a, b \in Addr : Before(x, Other(s), b, a) <=> Before(x, s, a, b)
<1>1. \A a \in Addr : x.node[a].score \in Int
  BY TreeFields
<1>2. CASE s = "left" /\ Other(s) = "right"
  BY <1>1, <1>2 DEF Before
<1>3. CASE s = "right" /\ Other(s) = "left"
  BY <1>1, <1>3 DEF Before
<1> QED BY <1>2, <1>3 DEF Sides, Other

\* A rotation keeps the order of the scores.
LEMMA RotateOrdered ==
  ASSUME NEW x, NEW y, NEW below, NEW v, Skeleton(x, below), Ordered(x, below, v),
         NEW m \in UsedIn(x), NEW s \in Sides, Kid(x, m, Other(s)) # nil, m # v,
         Rotated(x, y, m, s)
  PROVE  Ordered(y, Turn(x, below, m, s), v)
<1> DEFINE o == Other(s)  q == Kid(x, m, o)  c == Kid(x, q, s)
           new == Turn(x, below, m, s)  k == Kid(x, m, s)  e == Kid(x, q, o)
<1>0. /\ o \in Sides /\ o # s /\ Other(o) = s /\ \A r \in Sides : r = s \/ r = o
      /\ nil \notin Addr /\ m \in Addr /\ UsedIn(x) \subseteq Addr
  BY SideLaw, AddrLaw DEF UsedIn
<1>1. q \in UsedIn(x)
  BY AroundLaw
<1>2. /\ UsedIn(y) = UsedIn(x)
      /\ new[m] = {m} \cup Under(below, k) \cup Under(below, c)
      /\ \A a \in UsedIn(x) \ {m, q} : \A r \in Sides :
            Under(new, Kid(y, a, r)) = Under(below, Kid(x, a, r))
      /\ Kid(y, m, s) = k /\ Kid(y, m, o) = c
      /\ Kid(y, q, s) = m /\ Kid(y, q, o) = e
      /\ Under(new, k) = Under(below, k)
      /\ Under(new, c) = Under(below, c)
      /\ Under(new, e) = Under(below, e)
      /\ Under(new, m) = new[m]
  BY RotateUnder
<1>3. q \in below[q] /\ Under(below, q) = below[q] /\ Under(below, c) \subseteq below[q]
      /\ below[q] \subseteq Addr
      /\ \A a \in UsedIn(x), r \in Sides : Under(below, Kid(x, a, r)) \subseteq Addr
  <2>1. q \in below[q] /\ Under(below, c) \subseteq below[q]
    BY <1>0, <1>1, KidLaw DEF Under
  <2>2. \A a \in UsedIn(x), r \in Sides : Under(below, Kid(x, a, r)) \subseteq Addr
    BY <1>0, KidLaw DEF Under, Skeleton, Spans
  <2> QED BY <1>0, <1>1, <2>1, <2>2 DEF Under, Skeleton, Spans
<1>4. \A r \in Sides : \A a, b \in Addr : Before(y, r, b, a) <=> Before(x, r, b, a)
  BY DEF Before, Rotated
<1>5. \A a \in UsedIn(x) \ {v} : \A r \in Sides :
         \A b \in Under(below, Kid(x, a, r)) \ {v} : Before(x, r, b, a)
  BY DEF Ordered
<1> HIDE DEF new, e, c, k, q, o
<1>6. \A a \in UsedIn(y) \ {v} : \A r \in Sides :
         \A b \in Under(new, Kid(y, a, r)) \ {v} : Before(x, r, b, a)
  <2> SUFFICES ASSUME NEW a \in UsedIn(y) \ {v}, NEW r \in Sides,
                      NEW b \in Under(new, Kid(y, a, r)) \ {v}
               PROVE  Before(x, r, b, a)
    OBVIOUS
  <2>1. CASE a \notin {m, q}
    BY <1>2, <1>5, <2>1
  <2>2. CASE a = m /\ r = s
    BY <1>0, <1>2, <1>5, <2>2 DEF k
  <2>3. CASE a = m /\ r = o
    <3>1. b \in below[q] /\ Kid(x, m, o) = q
      BY <1>2, <1>3, <2>3 DEF q
    <3> QED BY <1>0, <1>3, <1>5, <2>3, <3>1
  <2>4. CASE a = q /\ r = o
    BY <1>0, <1>2, <1>5, <2>4, <1>1 DEF e
  <2>5. CASE a = q /\ r = s
    <3>1. Before(x, s, m, q)
      <4>1. Before(x, o, q, m)
        BY <1>0, <1>3, <1>5, <2>5 DEF q
      <4> QED BY <1>0, <1>1, <4>1, BeforeLaw DEF o, Skeleton
    <3>2. b \in {m} \cup Under(below, k) \cup Under(below, c)
      BY <1>2, <2>5
    <3>3. CASE b \in Under(below, k)
      <4>1. Before(x, s, b, m) /\ b \in Addr
        BY <1>0, <1>3, <1>5, <3>3 DEF k
      <4> QED BY <1>0, <1>1, <2>5, <3>1, <4>1, BeforeLaw DEF Skeleton
    <3>4. CASE b \in Under(below, c)
      BY <1>1, <1>5, <2>5, <3>4 DEF c
    <3> QED BY <2>5, <3>1, <3>2, <3>3, <3>4
  <2> QED BY <1>0, <2>1, <2>2, <2>3, <2>4, <2>5
<1>7. \A a \in UsedIn(y), r \in Sides : Under(new, Kid(y, a, r)) \subseteq Addr
  <2>1. Skeleton(y, new)
    BY RotateSkeleton DEF new
  <2> QED BY <2>1, KidLaw DEF Under, Skeleton, Spans, UsedIn
<1> QED BY <1>0, <1>2, <1>4, <1>6, <1>7 DEF Ordered, new

\* Sizes are integers.
LEMMA SizeLaw ==
  ASSUME NEW x \in Trees
  PROVE  /\ \A b \in Addr \cup {nil} : nodesize(x, b) \in Int
         /\ \A a \in Addr, r \in Sides : nodesize(x, Kid(x, a, r)) \in Int
<1>1. \A b \in Addr \cup {nil} : nodesize(x, b) \in Int
  BY TreeFields, AddrLaw DEF nodesize
<1> QED BY <1>1, TreeFields

\* rotate_callback recomputes the two sizes a rotation changes.
LEMMA RotateSized ==
  ASSUME NEW x, NEW y, NEW below, NEW v, Skeleton(x, below), Sized(x, v, nil),
         NEW m \in UsedIn(x), NEW s \in Sides, Kid(x, m, Other(s)) # nil, m # v,
         Rotated(x, y, m, s)
  PROVE  Sized(y, v, nil)
<1> DEFINE o == Other(s)  q == Kid(x, m, o)  c == Kid(x, q, s)
           k == Kid(x, m, s)  e == Kid(x, q, o)  p == Up(x, m)
<1>0. /\ o \in Sides /\ o # s /\ Other(o) = s /\ \A r \in Sides : r = s \/ r = o
      /\ nil \notin Addr /\ m \in Addr /\ UsedIn(x) \subseteq Addr
  BY SideLaw, AddrLaw DEF UsedIn
<1>1. q \in UsedIn(x) /\ q # m /\ Up(x, q) = m /\ c # m /\ c # q /\ p # m /\ p # q /\ q # k
  BY AroundLaw
<1>2. /\ UsedIn(y) = UsedIn(x)
      /\ Kid(y, m, s) = k /\ Kid(y, m, o) = c
      /\ Kid(y, q, s) = m /\ Kid(y, q, o) = e
  BY RotateUnder
<1>3. /\ x \in Trees /\ y \in Trees
      /\ \A a \in Addr : y.node[a].ids = x.node[a].ids /\ Len(x.node[a].ids) \in Nat
      /\ \A a \in Addr :
            y.node[a].size = IF a = q THEN x.node[m].size
                             ELSE IF a = m THEN nodesize(x, k) + nodesize(x, c)
                                                + Len(x.node[m].ids)
                             ELSE x.node[a].size
  BY TreeFields DEF Rotated, Skeleton
<1>4. \A a \in UsedIn(x) :
         x.node[a].size = nodesize(x, Kid(x, a, s)) + nodesize(x, Kid(x, a, o))
                          + (IF a = v THEN 0 ELSE Len(x.node[a].ids))
  <2> SUFFICES ASSUME NEW a \in UsedIn(x)
               PROVE  x.node[a].size = nodesize(x, Kid(x, a, s)) + nodesize(x, Kid(x, a, o))
                                       + (IF a = v THEN 0 ELSE Len(x.node[a].ids))
    OBVIOUS
  <2>1. \A r \in Sides : nodesize(x, Kid(x, a, r)) \in Int
    BY <1>0, <1>3, SizeLaw
  <2>2. Len(x.node[a].ids) \in Nat
    BY <1>0, <1>3
  <2>3. x.node[a].size = nodesize(x, Kid(x, a, "left")) + nodesize(x, Kid(x, a, "right"))
                         + (IF a = v THEN 0 ELSE Len(x.node[a].ids)) + 0
    BY DEF Sized
  <2>4. CASE s = "left" /\ o = "right"
    BY <1>0, <2>1, <2>2, <2>3, <2>4
  <2>5. CASE s = "right" /\ o = "left"
    BY <1>0, <2>1, <2>2, <2>3, <2>5
  <2> QED BY <1>0, <2>4, <2>5 DEF Sides
<1>5. \A a \in UsedIn(x), r \in Sides : nodesize(x, Kid(x, a, r)) \in Int
  BY <1>0, <1>3, SizeLaw
<1> HIDE DEF e, c, k, q, o, p
<1>6. \A b \in Addr \cup {nil} : b \notin {m, q} => nodesize(y, b) = nodesize(x, b)
  BY <1>3 DEF nodesize
<1>7. /\ nodesize(y, q) = nodesize(x, m)
      /\ nodesize(y, m) = nodesize(x, k) + nodesize(x, c) + Len(x.node[m].ids)
  BY <1>0, <1>1, <1>3 DEF nodesize
<1>8. \A a \in UsedIn(x) \ {m, q} : \A r \in Sides :
         nodesize(y, Kid(y, a, r)) = nodesize(x, Kid(x, a, r))
  <2> SUFFICES ASSUME NEW a \in UsedIn(x) \ {m, q}, NEW r \in Sides
               PROVE  nodesize(y, Kid(y, a, r)) = nodesize(x, Kid(x, a, r))
    OBVIOUS
  <2>1. Kid(y, a, r) = IF a = p /\ Kid(x, a, r) = m THEN q ELSE Kid(x, a, r)
    <3>1. /\ Kid(y, a, s) = IF a = q THEN m
                            ELSE IF a = p /\ Kid(x, a, s) = m THEN q ELSE Kid(x, a, s)
          /\ Kid(y, a, o) = IF a = m THEN c ELSE IF a = p /\ Kid(x, a, o) = m THEN q
                            ELSE Kid(x, a, o)
      BY <1>0 DEF Rotated, o, q, c, p
    <3> QED BY <1>0, <3>1
  <2>2. Kid(x, a, r) # nil => Kid(x, a, r) \in UsedIn(x) /\ Up(x, Kid(x, a, r)) = a
    BY KidLaw
  <2>3. CASE Kid(x, a, r) = m
    BY <1>0, <1>7, <2>1, <2>2, <2>3 DEF p
  <2>4. CASE Kid(x, a, r) # m
    BY <1>0, <1>1, <1>6, <2>1, <2>2, <2>4
  <2> QED BY <2>3, <2>4
<1>9. \A a \in UsedIn(y) :
         y.node[a].size = nodesize(y, Kid(y, a, s)) + nodesize(y, Kid(y, a, o))
                          + (IF a = v THEN 0 ELSE Len(y.node[a].ids))
  <2> SUFFICES ASSUME NEW a \in UsedIn(y)
               PROVE  y.node[a].size = nodesize(y, Kid(y, a, s)) + nodesize(y, Kid(y, a, o))
                                       + (IF a = v THEN 0 ELSE Len(y.node[a].ids))
    OBVIOUS
  <2>1. /\ nodesize(x, k) \in Int /\ nodesize(x, c) \in Int /\ nodesize(x, e) \in Int
        /\ Len(x.node[m].ids) \in Nat /\ Len(x.node[q].ids) \in Nat
    BY <1>0, <1>1, <1>3, <1>5 DEF k, c, e
  <2>2. /\ x.node[m].size = nodesize(x, k) + nodesize(x, q) + Len(x.node[m].ids)
        /\ x.node[q].size = nodesize(x, c) + nodesize(x, e)
                            + (IF q = v THEN 0 ELSE Len(x.node[q].ids))
        /\ nodesize(x, q) = x.node[q].size
    BY <1>0, <1>1, <1>4 DEF k, q, c, e, nodesize
  <2>3. nodesize(y, k) = nodesize(x, k) /\ nodesize(y, c) = nodesize(x, c)
        /\ nodesize(y, e) = nodesize(x, e)
    <3>1. k # m /\ e # m /\ e # q /\ {k, c, e} \subseteq Addr \cup {nil}
      <4>1. k # nil => k \in UsedIn(x) /\ Up(x, k) = m /\ m \notin below[k] /\ k \in below[k]
        BY <1>0, KidLaw DEF k
      <4>2. e # nil => e \in UsedIn(x) /\ Up(x, e) = q /\ q \notin below[e] /\ e \in below[e]
        BY <1>0, <1>1, KidLaw DEF e
      <4>3. c # nil => c \in UsedIn(x)
        BY <1>0, <1>1, KidLaw DEF c
      <4>4. Up(x, m) # q
        BY <1>1 DEF p
      <4> QED BY <1>0, <1>1, <4>1, <4>2, <4>3, <4>4
    <3> QED BY <1>1, <1>6, <3>1
  <2>4. CASE a = m
    BY <1>0, <1>1, <1>2, <1>3, <2>1, <2>3, <2>4
  <2>5. CASE a = q
    <3> DEFINE l == IF q = v THEN 0 ELSE Len(x.node[q].ids)
    <3>1. l \in Int /\ l = IF a = v THEN 0 ELSE Len(y.node[a].ids)
      BY <1>0, <1>1, <1>3, <2>1, <2>5
    <3>2. x.node[q].size = nodesize(x, c) + nodesize(x, e) + l
      BY <2>2
    <3> HIDE DEF l
    <3>3. y.node[q].size = nodesize(x, k) + nodesize(x, c) + nodesize(x, e) + l
                           + Len(x.node[m].ids)
      BY <1>0, <1>1, <1>3, <2>1, <2>2, <3>1, <3>2
    <3>4. nodesize(y, Kid(y, q, s)) + nodesize(y, Kid(y, q, o)) + l = y.node[q].size
      <4>1. Kid(y, q, s) = m /\ Kid(y, q, o) = e
        BY <1>2
      <4>2. nodesize(y, m) + nodesize(y, e) + l = y.node[q].size
        <5>1. nodesize(y, m) = nodesize(x, k) + nodesize(x, c) + Len(x.node[m].ids)
              /\ nodesize(y, e) = nodesize(x, e) /\ l \in Int
          BY <1>7, <2>3, <3>1
        <5> QED BY <2>1, <3>3, <5>1
      <4> QED BY <4>1, <4>2
    <3> QED BY <2>5, <3>1, <3>4
  <2>6. CASE a \notin {m, q}
    BY <1>0, <1>2, <1>3, <1>4, <1>8, <2>6
  <2> QED BY <2>4, <2>5, <2>6
<1> QED
  <2> SUFFICES ASSUME NEW a \in UsedIn(y)
               PROVE  y.node[a].size = nodesize(y, Kid(y, a, "left"))
                                       + nodesize(y, Kid(y, a, "right"))
                                       + (IF a = v THEN 0 ELSE Len(y.node[a].ids)) + 0
    BY DEF Sized
  <2>1. \A r \in Sides : nodesize(y, Kid(y, a, r)) \in Int
    BY <1>0, <1>2, <1>3, SizeLaw
  <2>2. Len(y.node[a].ids) \in Nat
    BY <1>0, <1>2, <1>3
  <2>3. CASE s = "left" /\ o = "right"
    BY <1>0, <1>9, <2>1, <2>2, <2>3
  <2>4. CASE s = "right" /\ o = "left"
    BY <1>0, <1>9, <2>1, <2>2, <2>4
  <2> QED BY <1>0, <2>3, <2>4 DEF Sides

\* What a rotation keeps, whatever the colors are.
LEMMA RotateFrame ==
  ASSUME NEW x, NEW below, NEW v, Frame(x, below, v, nil),
         NEW m \in UsedIn(x), NEW s \in Sides, Kid(x, m, Other(s)) # nil, m # v
  PROVE  /\ Rotated(x, rotate(x, m, s), m, s)
         /\ Frame(rotate(x, m, s), Turn(x, below, m, s), v, nil)
         /\ UsedIn(rotate(x, m, s)) = UsedIn(x)
<1> DEFINE y == rotate(x, m, s)
<1>1. Skeleton(x, below) /\ Ordered(x, below, v) /\ Apart(x, v) /\ Sized(x, v, nil)
  BY DEF Frame
<1>2. Rotated(x, y, m, s)
  BY <1>1, RotateFields
<1>3. UsedIn(y) = UsedIn(x)
  BY <1>2 DEF Rotated, UsedIn
<1>4. Apart(y, v)
  BY <1>1, <1>2, <1>3 DEF Apart, Rotated, UsedIn
<1> HIDE DEF y
<1>5. Skeleton(y, Turn(x, below, m, s)) /\ Ordered(y, Turn(x, below, m, s), v)
      /\ Sized(y, v, nil)
  BY <1>1, <1>2, RotateSkeleton, RotateOrdered, RotateSized
<1> QED BY <1>2, <1>3, <1>4, <1>5 DEF Frame, y

-----------------------------------------------------------------------------
(* Sides and siblings. *)

\* A node with a parent is its child on one side, its sibling on the other.
LEMMA SideInLaw ==
  ASSUME NEW x, NEW below, Skeleton(x, below), NEW a \in UsedIn(x), Up(x, a) # nil
  PROVE  /\ SideIn(x, a) \in Sides /\ Other(SideIn(x, a)) \in Sides
         /\ Up(x, a) \in UsedIn(x) /\ Up(x, a) # a
         /\ Kid(x, Up(x, a), SideIn(x, a)) = a
         /\ Kid(x, Up(x, a), Other(SideIn(x, a))) = SibIn(x, a)
         /\ SibIn(x, a) # a
<1> DEFINE p == Up(x, a)
<1>1. p \in UsedIn(x) /\ \E s \in Sides : Kid(x, p, s) = a
  BY DEF Skeleton, Linked
<1>2. PICK s \in Sides : Kid(x, p, s) = a
  BY <1>1
<1>3. a # nil /\ a \in Addr
  BY AddrLaw DEF UsedIn
<1>4. Kid(x, p, Other(s)) # a /\ p # a
  BY <1>1, <1>2, <1>3, KidLaw
<1>5. SideIn(x, a) = s
  BY <1>2, <1>4 DEF SideIn, Sides, Other
<1> QED BY <1>1, <1>2, <1>4, <1>5, SideLaw DEF SibIn

\* Side and sibling of the child of a node.
LEMMA KidIs ==
  ASSUME NEW x, NEW below, Skeleton(x, below),
         NEW b \in UsedIn(x), NEW s \in Sides, Kid(x, b, s) # nil
  PROVE  /\ Kid(x, b, s) \in UsedIn(x) /\ Up(x, Kid(x, b, s)) = b
         /\ SideIn(x, Kid(x, b, s)) = s
         /\ SibIn(x, Kid(x, b, s)) = Kid(x, b, Other(s))
<1> DEFINE a == Kid(x, b, s)
<1>1. a \in UsedIn(x) /\ Up(x, a) = b /\ Kid(x, b, Other(s)) # a
  BY KidLaw
<1>2. SideIn(x, a) = s
  BY <1>1 DEF SideIn, Sides, Other
<1> QED BY <1>1, <1>2 DEF SibIn

\* The operators of the specification.
LEMMA Names ==
  /\ Used = UsedIn(t)
  /\ \A a : parent(a) = Up(t, a) /\ grandparent(a) = Up(t, Up(t, a))
            /\ SideOf(a) = SideIn(t, a) /\ sibling(a) = SibIn(t, a)
            /\ uncle(a) = SibIn(t, Up(t, a))
BY DEF Used, UsedIn, parent, Up, grandparent, SideOf, SideIn, sibling, SibIn, uncle, Kid

\* A node is level seen from either side.
LEMMA LevelLaw ==
  ASSUME NEW x, NEW h, NEW v, NEW d, NEW a, NEW s \in Sides, Level(x, h, v, d, a, s),
         h \in [Addr -> Nat], NEW r \in Sides, x \in Trees, a \in UsedIn(x)
  PROVE  Level(x, h, v, d, a, r)
<1> DEFINE l == Seen(h, d, Kid(x, a, s))  m == Seen(h, d, Kid(x, a, Other(s)))
<1>1. l \in Int /\ m \in Int
  BY TreeFields, SideLaw DEF Seen, UsedIn
<1>2. CASE r = s
  BY <1>2
<1>3. CASE r = Other(s)
  <2>1. Other(r) = s
    BY <1>3, SideLaw
  <2> QED BY <1>1, <1>3, <2>1 DEF Level
<1> QED BY <1>2, <1>3, SideLaw

\* Heights from one side.
LEMMA HeightsLaw ==
  ASSUME NEW x \in Trees, NEW h \in [Addr -> Nat], NEW v, NEW d, NEW s \in Sides,
         \A a \in UsedIn(x) : Level(x, h, v, d, a, s)
  PROVE  Heights(x, h, v, d)
BY LevelLaw DEF Heights

-----------------------------------------------------------------------------
(* Recolorings. *)

Painted(x, y) ==
    /\ y \in Trees /\ y.root = x.root
    /\ \A a \in Addr :
          /\ y.node[a].score = x.node[a].score /\ y.node[a].ids = x.node[a].ids
          /\ y.node[a].size = x.node[a].size /\ Up(y, a) = Up(x, a)
          /\ \A s \in Sides : Kid(y, a, s) = Kid(x, a, s)
    /\ \A a \in Addr \ UsedIn(x) : y.node[a] = x.node[a]

\* Colored changes one color.
LEMMA ColoredLaw ==
  ASSUME NEW x \in Trees, NEW a \in UsedIn(x), NEW c \in BOOLEAN
  PROVE  /\ Painted(x, Colored(x, a, c))
         /\ \A b \in Addr : Colored(x, a, c).node[b].color = IF b = a THEN c ELSE x.node[b].color
<1> DEFINE y == Colored(x, a, c)
<1>1. a \in Addr
  BY DEF UsedIn
<1>2. \A b \in Addr : y.node[b] = IF b = a THEN [x.node[a] EXCEPT !.color = c] ELSE x.node[b]
  BY <1>1 DEF Colored, Trees
<1>3. y.root = x.root /\ y = [root |-> y.root, node |-> y.node]
      /\ y.node = [b \in Addr |-> y.node[b]]
  BY <1>1 DEF Colored, Trees
<1> HIDE DEF y
<1>4. ASSUME NEW b \in Addr
      PROVE  /\ y.node[b] \in Node /\ y.node[b].color = IF b = a THEN c ELSE x.node[b].color
             /\ y.node[b].score = x.node[b].score /\ y.node[b].ids = x.node[b].ids
             /\ y.node[b].size = x.node[b].size /\ Up(y, b) = Up(x, b)
             /\ \A s \in Sides : Kid(y, b, s) = Kid(x, b, s)
  <2>1. x.node[b] \in Node
    BY TreeFields
  <2> QED BY <1>2, <2>1 DEF Node, Up, Kid, Sides
<1>5. y \in Trees
  BY <1>3, <1>4 DEF Trees
<1>6. \A b \in Addr \ UsedIn(x) : y.node[b] = x.node[b]
  BY <1>2
<1> QED BY <1>3, <1>4, <1>5, <1>6 DEF Painted, y

\* Two changes of colors are one.
LEMMA PaintedTwice ==
  ASSUME NEW x, NEW y, NEW z, Painted(x, y), Painted(y, z)
  PROVE  Painted(x, z)
<1>1. UsedIn(y) = UsedIn(x)
  BY DEF Painted, UsedIn
<1> QED BY <1>1 DEF Painted

\* A change of colors keeps links, subtrees, order and sizes.
LEMMA PaintedFrame ==
  ASSUME NEW x, NEW y, NEW below, NEW v, NEW d, Frame(x, below, v, d), Painted(x, y)
  PROVE  Frame(y, below, v, d) /\ UsedIn(y) = UsedIn(x)
<1>1. UsedIn(y) = UsedIn(x) /\ UsedIn(x) \subseteq Addr
  BY DEF Painted, UsedIn
<1>2. \A a \in UsedIn(x) : Kid(y, a, "left") = Kid(x, a, "left")
                           /\ Kid(y, a, "right") = Kid(x, a, "right")
  BY <1>1 DEF Painted, Sides
<1>3. x \in Trees /\ Linked(x) /\ Spans(x, below)
  BY DEF Frame, Skeleton
<1>4. Linked(y)
  <2>1. \A a \in UsedIn(x), s \in Sides : Kid(x, a, s) # nil => Kid(x, a, s) \in Addr
    BY <1>1, <1>3, TreeFields
  <2> QED BY <1>1, <1>3, <2>1 DEF Painted, Linked
<1>5. Spans(y, below)
  BY <1>1, <1>2, <1>3 DEF Painted, Spans
<1>6. Ordered(y, below, v)
  <2> SUFFICES ASSUME NEW a \in UsedIn(x) \ {v}, NEW r \in Sides,
                      NEW b \in Under(below, Kid(x, a, r)) \ {v}
               PROVE  Before(y, r, b, a)
    BY <1>1 DEF Ordered, Painted
  <2>1. Before(x, r, b, a)
    BY DEF Frame, Ordered
  <2>2. b \in Addr /\ a \in Addr
    BY <1>1, <1>3, KidLaw DEF Under, Skeleton, Spans
  <2> QED BY <2>1, <2>2 DEF Before, Painted
<1>7. Apart(y, v)
  BY <1>1 DEF Frame, Apart, Painted
<1>8. Sized(y, v, d)
  <2>1. \A a \in UsedIn(x), s \in Sides : nodesize(y, Kid(y, a, s)) = nodesize(x, Kid(x, a, s))
    BY <1>1, <1>3, TreeFields DEF nodesize, Painted
  <2>2. \A a \in UsedIn(x) : nodesize(y, Kid(y, a, "left")) = nodesize(x, Kid(x, a, "left"))
                             /\ nodesize(y, Kid(y, a, "right")) = nodesize(x, Kid(x, a, "right"))
    BY <2>1 DEF Sides
  <2>3. \A a \in UsedIn(x) : /\ y.node[a].size = x.node[a].size
                             /\ y.node[a].ids = x.node[a].ids
                             /\ \A s \in Sides : Kid(y, a, s) = Kid(x, a, s)
    BY <1>1 DEF Painted
  <2>4. Sized(x, v, d)
    BY DEF Frame
  <2> SUFFICES ASSUME NEW a \in UsedIn(x)
               PROVE  y.node[a].size = nodesize(y, Kid(y, a, "left"))
                                       + nodesize(y, Kid(y, a, "right"))
                                       + (IF a = v THEN 0 ELSE Len(y.node[a].ids))
                                       + (IF d # nil /\ (\E s \in Sides : Kid(y, a, s) = d)
                                          THEN 1 ELSE 0)
    BY <1>1 DEF Sized
  <2>5. x.node[a].size = nodesize(x, Kid(x, a, "left"))
                         + nodesize(x, Kid(x, a, "right"))
                         + (IF a = v THEN 0 ELSE Len(x.node[a].ids))
                         + (IF d # nil /\ (\E s \in Sides : Kid(x, a, s) = d)
                            THEN 1 ELSE 0)
    BY <2>4 DEF Sized
  <2>6. (\E s \in Sides : Kid(y, a, s) = d) <=> (\E s \in Sides : Kid(x, a, s) = d)
    BY <2>3
  <2> QED BY <2>2, <2>3, <2>5, <2>6
<1>9. y \in Trees
  BY DEF Painted
<1> QED BY <1>1, <1>4, <1>5, <1>6, <1>7, <1>8, <1>9 DEF Frame, Skeleton

-----------------------------------------------------------------------------
(* The repair of an insertion. *)

\* nil is black.
LEMMA ColorLaw ==
  ASSUME NEW x \in Trees
  PROVE  /\ ~RedIn(x, nil)
         /\ \A a \in Addr : RedIn(x, a) <=> x.node[a].color = RED
         /\ \A a \in Addr : ~RedIn(x, a) <=> x.node[a].color = BLACK
         /\ \A a \in Addr \cup {nil} : node_color(x, a) = BLACK <=> ~RedIn(x, a)
BY TreeFields, AddrLaw DEF RedIn, node_color, RED, BLACK

\* A red node below a red parent has a grandparent, which is black.
LEMMA GrandLaw ==
  ASSUME NEW x, NEW below, Skeleton(x, below), NEW a \in UsedIn(x), RedsApart(x, nil, a),
         Up(x, a) # nil, RedIn(x, Up(x, a)), RedIn(x, x.root) => x.root = a
  PROVE  LET p == Up(x, a)  g == Up(x, p)  u == SibIn(x, p)
         IN  /\ p \in UsedIn(x) /\ g \in UsedIn(x) /\ p # a /\ g # a /\ g # p
             /\ SideIn(x, a) \in Sides /\ SideIn(x, p) \in Sides
             /\ Kid(x, p, SideIn(x, a)) = a /\ Kid(x, g, SideIn(x, p)) = p
             /\ Kid(x, g, Other(SideIn(x, p))) = u
             /\ Kid(x, p, Other(SideIn(x, a))) = SibIn(x, a) /\ SibIn(x, a) # a
             /\ u \notin {a, p, g} /\ (u # nil => u \in UsedIn(x) /\ Up(x, u) = g)
             /\ ~RedIn(x, g) /\ x.root # p /\ x.root # a
<1> DEFINE p == Up(x, a)  g == Up(x, p)  u == SibIn(x, p)
<1>1. /\ p \in UsedIn(x) /\ p # a /\ SideIn(x, a) \in Sides /\ Kid(x, p, SideIn(x, a)) = a
      /\ Kid(x, p, Other(SideIn(x, a))) = SibIn(x, a) /\ SibIn(x, a) # a
  BY SideInLaw
<1>2. /\ x.root = nil \/ Up(x, x.root) = nil
      /\ \A b \in UsedIn(x) : Up(x, b) = nil => b = x.root
      /\ nil \notin UsedIn(x) /\ a # nil
  BY AddrLaw DEF Skeleton, Linked, UsedIn
<1>3. x.root # p /\ x.root # a /\ g # nil
  BY <1>1, <1>2
<1>4. /\ g \in UsedIn(x) /\ g # p /\ SideIn(x, p) \in Sides /\ Kid(x, g, SideIn(x, p)) = p
      /\ Kid(x, g, Other(SideIn(x, p))) = u /\ u # p /\ Other(SideIn(x, p)) \in Sides
  BY <1>1, <1>3, SideInLaw
<1>5. g # a
  BY <1>1, <1>2, <1>4, KidLaw
<1>6. u # nil => u \in UsedIn(x) /\ Up(x, u) = g /\ u # g
  BY <1>4, KidLaw
<1>7. ~RedIn(x, g)
  BY <1>1, <1>2, <1>4 DEF RedsApart
<1> QED BY <1>1, <1>2, <1>3, <1>4, <1>5, <1>6, <1>7

-----------------------------------------------------------------------------
(* What a step keeps. *)

\* The phase of a state by its program counter.
LEMMA Phases ==
  ASSUME NEW x, NEW p, NEW a, NEW i, NEW v, NEW below, NEW h, Good(x, p, a, i, v, below, h)
  PROVE  /\ p = "idle" => a = nil /\ i = <<>> /\ v = nil /\ Resting(x, below, h)
         /\ p = "descend" => v = nil /\ Descending(x, a, i, below, h)
         /\ p \in Inserts => v = nil /\ i = <<>> /\ Inserting(x, p, a, below, h)
         /\ p \in Deletes => i = <<>> /\ Deleting(x, p, a, v, below, h)
         /\ p = "unlink" => a = nil /\ i = <<>> /\ Unlinking(x, v, below, h)
BY Zenon DEF Good, Inserts, Deletes

\* The facts of a phase that its cases start from.
LEMMA InsertFacts ==
  ASSUME NEW x, NEW p, NEW a, NEW below, NEW h, Inserting(x, p, a, below, h)
  PROVE  /\ Frame(x, below, nil, nil) /\ Heights(x, h, nil, nil) /\ RedsApart(x, nil, a)
         /\ Distinct(x) /\ RedAt(x, p, a)
         /\ x \in Trees /\ Skeleton(x, below) /\ h \in [Addr -> Nat]
         /\ a \in UsedIn(x) /\ a \in Addr /\ a # nil /\ nil \notin Addr
BY AddrLaw DEF Inserting, Sound, Frame, Skeleton, Heights, RedAt, UsedIn

\* A step that keeps the ids of every node keeps them distinct.
LEMMA DistinctLaw ==
  ASSUME NEW x, NEW y, \A a \in Addr : y.node[a].ids = x.node[a].ids
  PROVE  UsedIn(y) = UsedIn(x) /\ (Distinct(x) => Distinct(y))
<1>1. UsedIn(y) = UsedIn(x)
  BY DEF UsedIn
<1> QED BY <1>1 DEF Distinct, UsedIn

\* The black nodes seen below a child are a number.
LEMMA SeenLaw ==
  ASSUME NEW x \in Trees, NEW h \in [Addr -> Nat], NEW d, NEW a \in UsedIn(x), NEW s \in Sides
  PROVE  Seen(h, d, Kid(x, a, s)) \in Nat
BY TreeFields DEF Seen, UsedIn

\* The node is the root and becomes black, or the repair goes on.
LEMMA InsertCase1 == IInv /\ insert_case1 => IInv'
<1> SUFFICES ASSUME IInv, insert_case1 PROVE IInv'
  OBVIOUS
<1> PICK below \in [Addr -> SUBSET Addr], h \in [Addr -> Nat] :
         Good(t, pc, n, item, victim, below, h)
  BY DEF IInv
<1>0. pc = "insert_case1" /\ "insert_case1" \in Inserts
  BY DEF insert_case1, Inserts
<1>1. victim = nil /\ item = <<>> /\ Inserting(t, "insert_case1", n, below, h)
  BY <1>0, Phases
<1>2. /\ Frame(t, below, nil, nil) /\ Heights(t, h, nil, nil) /\ RedsApart(t, nil, n)
      /\ Distinct(t) /\ RedAt(t, "insert_case1", n)
      /\ t \in Trees /\ Skeleton(t, below)
      /\ n \in UsedIn(t) /\ n \in Addr /\ n # nil /\ nil \notin Addr
  BY <1>1, InsertFacts
<1>3. CASE Up(t, n) = nil
  <2> DEFINE y == Colored(t, n, BLACK)  g == [h EXCEPT ![n] = @ + 1]
  <2>1. t' = y /\ pc' = "idle" /\ n' = nil /\ item' = <<>> /\ victim' = nil
    BY <1>3, Names DEF insert_case1, Return, Goto
  <2>2. /\ Painted(t, y)
        /\ \A b \in Addr : y.node[b].color = IF b = n THEN BLACK ELSE t.node[b].color
    BY <1>2, ColoredLaw, AddrLaw
  <2> HIDE DEF y
  <2>3. Frame(y, below, nil, nil) /\ UsedIn(y) = UsedIn(t) /\ y \in Trees
    BY <1>2, <2>2, PaintedFrame DEF Painted
  <2>4. n = t.root /\ y.root = n
    BY <1>2, <1>3, <2>2 DEF Skeleton, Linked, Painted
  <2>5. \A a \in UsedIn(t), s \in Sides : Kid(t, a, s) # n /\ Kid(y, a, s) = Kid(t, a, s)
    <3>1. \A a \in UsedIn(t) : a # nil /\ a \in Addr
      BY <1>2 DEF UsedIn
    <3> QED BY <1>2, <1>3, <2>2, <3>1, KidLaw DEF Painted
  <2>6. g \in [Addr -> Nat]
    BY <1>2
  <2>7. Heights(y, g, nil, nil)
    <3> SUFFICES ASSUME NEW a \in UsedIn(t), NEW s \in Sides PROVE Level(y, g, nil, nil, a, s)
      BY <2>3, <2>6 DEF Heights
    <3>1. Level(t, h, nil, nil, a, s) /\ a \in Addr /\ a # nil /\ Other(s) \in Sides
      BY <1>2, SideLaw DEF Heights, UsedIn
    <3>2. \A r \in Sides : Seen(g, nil, Kid(y, a, r)) = Seen(h, nil, Kid(t, a, r))
      <4> SUFFICES ASSUME NEW r \in Sides
                   PROVE  Seen(g, nil, Kid(y, a, r)) = Seen(h, nil, Kid(t, a, r))
        OBVIOUS
      <4>1. Kid(t, a, r) \in Addr \cup {nil} /\ Kid(t, a, r) # n /\ Kid(y, a, r) = Kid(t, a, r)
        BY <1>2, <2>5, <3>1, TreeFields
      <4> QED BY <4>1 DEF Seen
    <3>3. Seen(h, nil, Kid(t, a, s)) \in Nat /\ h[a] \in Nat
      BY <1>2, <3>1, SeenLaw
    <3>4. a = n => t.node[a].color # BLACK
      BY <1>2, ColorLaw, AddrLaw DEF RedAt
    <3>5. g[a] = IF a = n THEN h[a] + 1 ELSE h[a]
      BY <3>1
    <3> HIDE DEF g
    <3> QED BY <2>2, <3>1, <3>2, <3>3, <3>4, <3>5 DEF Level
  <2>8. RedsApart(y, nil, nil)
    <3>1. \A b \in Addr : RedIn(y, b) => RedIn(t, b)
      BY <1>2, <2>2, <2>3, ColorLaw, AddrLaw
    <3>2. ~RedIn(y, nil)
      BY <2>3, ColorLaw
    <3>3. \A a \in UsedIn(t), s \in Sides : a \in Addr /\ Kid(t, a, s) \in Addr \cup {nil}
      BY <1>2, TreeFields DEF UsedIn
    <3> QED BY <1>2, <2>3, <2>5, <3>1, <3>2, <3>3 DEF RedsApart
  <2>9. ~RedIn(y, y.root)
    BY <1>2, <2>2, <2>3, <2>4, ColorLaw, AddrLaw
  <2>10. Distinct(y)
    BY <1>2, <2>2, DistinctLaw DEF Painted
  <2>11. Resting(y, below, g)
    BY <2>3, <2>7, <2>8, <2>9, <2>10 DEF Resting, Sound
  <2> QED BY <2>1, <2>6, <2>11 DEF IInv, Good
<1>4. CASE Up(t, n) # nil
  <2>1. t' = t /\ pc' = "insert_case2" /\ n' = n /\ item' = item /\ victim' = victim
    BY <1>4, Names DEF insert_case1, Return, Goto
  <2>2. Inserting(t, "insert_case2", n, below, h) /\ "insert_case2" \in Inserts
    BY <1>1, <1>4 DEF Inserting, RedAt, Inserts
  <2> QED BY <1>1, <2>1, <2>2 DEF IInv, Good
<1> QED BY <1>3, <1>4

\* Below a black parent a red node is in order: the insertion is done.
LEMMA InsertCase2 == IInv /\ insert_case2 => IInv'
<1> SUFFICES ASSUME IInv, insert_case2 PROVE IInv'
  OBVIOUS
<1> PICK below \in [Addr -> SUBSET Addr], h \in [Addr -> Nat] :
         Good(t, pc, n, item, victim, below, h)
  BY DEF IInv
<1>0. pc = "insert_case2" /\ "insert_case2" \in Inserts
  BY DEF insert_case2, Inserts
<1>1. victim = nil /\ item = <<>> /\ Inserting(t, "insert_case2", n, below, h)
  BY <1>0, Phases
<1>2. /\ Frame(t, below, nil, nil) /\ Heights(t, h, nil, nil) /\ RedsApart(t, nil, n)
      /\ Distinct(t) /\ RedAt(t, "insert_case2", n)
      /\ t \in Trees /\ Skeleton(t, below)
      /\ n \in UsedIn(t) /\ n \in Addr /\ n # nil /\ nil \notin Addr
  BY <1>1, InsertFacts
<1>3. Up(t, n) # nil /\ Up(t, n) \in Addr /\ n # t.root /\ ~RedIn(t, t.root)
  <2>1. Up(t, n) # nil /\ (RedIn(t, t.root) => t.root = n)
    BY <1>2 DEF RedAt
  <2>2. Up(t, n) \in Addr \cup {nil}
    BY <1>2, TreeFields
  <2>3. n # t.root
    BY <1>2, <2>1 DEF Skeleton, Linked
  <2> QED BY <2>1, <2>2, <2>3
<1>4. CASE ~RedIn(t, Up(t, n))
  <2>1. t' = t /\ pc' = "idle" /\ n' = nil /\ item' = <<>> /\ victim' = nil
    BY <1>2, <1>3, <1>4, Names, ColorLaw DEF insert_case2, Return, Goto
  <2>2. RedsApart(t, nil, nil)
    <3>1. \A a \in UsedIn(t), s \in Sides : Kid(t, a, s) = n => Up(t, n) = a
      BY <1>2, KidLaw
    <3>2. ~RedIn(t, nil)
      BY <1>2, ColorLaw
    <3> QED BY <1>2, <1>4, <3>1, <3>2 DEF RedsApart
  <2>3. Resting(t, below, h)
    BY <1>2, <1>3, <2>2 DEF Resting, Sound
  <2> QED BY <2>1, <2>3 DEF IInv, Good
<1>5. CASE RedIn(t, Up(t, n))
  <2>1. t' = t /\ pc' = "insert_case3" /\ n' = n /\ item' = item /\ victim' = victim
    BY <1>2, <1>3, <1>5, Names, ColorLaw DEF insert_case2, Return, Goto
  <2>2. Inserting(t, "insert_case3", n, below, h) /\ "insert_case3" \in Inserts
    BY <1>1, <1>3, <1>5 DEF Inserting, RedAt, Inserts
  <2> QED BY <1>1, <2>1, <2>2 DEF IInv, Good
<1> QED BY <1>4, <1>5

-----------------------------------------------------------------------------
(* Children, heights and colors after a rotation. *)

\* The trees x and y before and after it, seen from their nodes.
Turned(x, y, m, s) ==
  LET o == Other(s)  q == Kid(x, m, o)
  IN  /\ UsedIn(y) = UsedIn(x) /\ q \in UsedIn(x) /\ q # m /\ y \in Trees
      /\ Kid(y, m, s) = Kid(x, m, s) /\ Kid(y, m, o) = Kid(x, q, s)
      /\ Kid(y, q, s) = m /\ Kid(y, q, o) = Kid(x, q, o)
      /\ \A a \in UsedIn(x) \ {m, q} : \A r \in Sides :
            /\ Kid(y, a, r) = IF Kid(x, a, r) = m THEN q ELSE Kid(x, a, r)
            /\ Kid(x, a, r) # q /\ (Kid(x, a, r) = m => Up(x, m) = a)
      /\ \A a \in Addr : y.node[a].color = x.node[a].color
                         /\ y.node[a].ids = x.node[a].ids
                         /\ y.node[a].score = x.node[a].score
      /\ \A a \in Addr \cup {nil} : RedIn(y, a) <=> RedIn(x, a)
      /\ Up(y, q) = Up(x, m) /\ Up(y, m) = q
      /\ y.root = IF x.root = m THEN q ELSE x.root
      /\ x.root # q

\* The children of every node after a rotation.
LEMMA RotateKids ==
  ASSUME NEW x, NEW y, NEW below, Skeleton(x, below),
         NEW m \in UsedIn(x), NEW s \in Sides, Kid(x, m, Other(s)) # nil,
         Rotated(x, y, m, s)
  PROVE  Turned(x, y, m, s)
<1> DEFINE o == Other(s)  q == Kid(x, m, o)  c == Kid(x, q, s)  p == Up(x, m)
<1>0. /\ o \in Sides /\ o # s /\ Other(o) = s /\ \A r \in Sides : r = s \/ r = o
      /\ nil \notin Addr /\ m \in Addr /\ UsedIn(x) \subseteq Addr
  BY SideLaw, AddrLaw DEF UsedIn
<1>1. /\ q \in UsedIn(x) /\ q # m /\ Up(x, q) = m
      /\ c # m /\ c # q /\ p # m /\ p # q
  BY AroundLaw
<1>2. /\ Kid(y, m, s) = Kid(x, m, s) /\ Kid(y, m, o) = c
      /\ Kid(y, q, s) = m /\ Kid(y, q, o) = Kid(x, q, o)
      /\ UsedIn(y) = UsedIn(x)
  BY RotateUnder
<1>3. ASSUME NEW a \in UsedIn(x) \ {m, q}, NEW r \in Sides
      PROVE  /\ Kid(y, a, r) = IF Kid(x, a, r) = m THEN q ELSE Kid(x, a, r)
             /\ Kid(x, a, r) # q /\ (Kid(x, a, r) = m => Up(x, m) = a)
  <2>1. Kid(y, a, r) = IF a = p /\ Kid(x, a, r) = m THEN q ELSE Kid(x, a, r)
    <3>1. /\ Kid(y, a, s) = IF a = q THEN m
                            ELSE IF a = p /\ Kid(x, a, s) = m THEN q ELSE Kid(x, a, s)
          /\ Kid(y, a, o) = IF a = m THEN c ELSE IF a = p /\ Kid(x, a, o) = m THEN q
                            ELSE Kid(x, a, o)
      BY <1>0 DEF Rotated
    <3> HIDE DEF o, q, c, p
    <3> QED BY <1>0, <3>1
  <2>2. Kid(x, a, r) # nil => Kid(x, a, r) \in UsedIn(x) /\ Up(x, Kid(x, a, r)) = a
    BY KidLaw
  <2> HIDE DEF q, p
  <2> QED BY <1>0, <1>1, <2>1, <2>2 DEF p
<1>4. /\ y \in Trees
      /\ \A a \in Addr : /\ y.node[a].color = x.node[a].color
                         /\ y.node[a].ids = x.node[a].ids /\ y.node[a].score = x.node[a].score
                         /\ Up(y, a) = IF a = m THEN q ELSE IF a = c THEN m
                                       ELSE IF a = q THEN p ELSE Up(x, a)
      /\ y.root = IF p = nil THEN q ELSE x.root
  BY DEF Rotated
<1>5. \A a \in Addr \cup {nil} : RedIn(y, a) <=> RedIn(x, a)
  BY <1>4 DEF RedIn, node_color
<1>6. p = nil <=> x.root = m
  BY <1>0 DEF Skeleton, Linked
<1>7. x.root # q
  BY <1>0, <1>1 DEF Skeleton, Linked
<1> HIDE DEF c, q, p, o
<1>8. Up(y, q) = p /\ Up(y, m) = q
  BY <1>0, <1>1, <1>4
<1>9. y.root = IF x.root = m THEN q ELSE x.root
  BY <1>4, <1>6
<1> QED BY <1>1, <1>2, <1>3, <1>4, <1>5, <1>7, <1>8, <1>9, Zenon DEF c, q, p, o, Turned

\* The heights h before it and g after it: its top keeps the height of m.
LEMMA RotateHeights ==
  ASSUME NEW x, NEW y, x \in Trees,
         NEW m \in UsedIn(x), NEW s \in Sides, Turned(x, y, m, s),
         NEW g \in [Addr -> Nat], NEW h \in [Addr -> Nat], NEW v, NEW d,
         d # m, d # Kid(x, m, Other(s)),
         \A a \in UsedIn(x) \ {m, Kid(x, m, Other(s))} : Level(x, h, v, d, a, s),
         \A a \in Addr \ {m, Kid(x, m, Other(s))} : g[a] = h[a],
         g[Kid(x, m, Other(s))] = h[m],
         Level(y, g, v, d, m, s), Level(y, g, v, d, Kid(x, m, Other(s)), s)
  PROVE  Heights(y, g, v, d)
<1> DEFINE o == Other(s)  q == Kid(x, m, o)
<1>1. /\ UsedIn(y) = UsedIn(x) /\ q \in UsedIn(x) /\ q # m /\ y \in Trees /\ x \in Trees
      /\ \A a \in UsedIn(x) \ {m, q} : \A r \in Sides :
            /\ Kid(y, a, r) = IF Kid(x, a, r) = m THEN q ELSE Kid(x, a, r)
            /\ Kid(x, a, r) # q
      /\ \A a \in Addr : y.node[a].color = x.node[a].color
      /\ o \in Sides /\ m \in Addr /\ q \in Addr /\ nil \notin Addr
  <2>1. /\ UsedIn(y) = UsedIn(x) /\ q \in UsedIn(x) /\ q # m /\ y \in Trees
        /\ \A a \in UsedIn(x) \ {m, q} : \A r \in Sides :
              /\ Kid(y, a, r) = IF Kid(x, a, r) = m THEN q ELSE Kid(x, a, r)
              /\ Kid(x, a, r) # q
        /\ \A a \in Addr : y.node[a].color = x.node[a].color
    BY DEF Turned
  <2> HIDE DEF q
  <2> QED BY <2>1, SideLaw, AddrLaw DEF UsedIn
<1> SUFFICES ASSUME NEW a \in UsedIn(x) PROVE Level(y, g, v, d, a, s)
  BY <1>1, HeightsLaw
<1>2. CASE a = m \/ a = q
  BY <1>2
<1>3. CASE a \notin {m, q}
  <2>1. Level(x, h, v, d, a, s) /\ g[a] = h[a] /\ a \in Addr
    BY <1>3 DEF UsedIn
  <2>2. \A b \in Addr \ {m, q} : g[b] = h[b]
    OBVIOUS
  <2>3. g[q] = h[m] /\ d # m /\ d # q
    OBVIOUS
  <2> HIDE DEF q
  <2>4. ASSUME NEW r \in Sides PROVE Seen(g, d, Kid(y, a, r)) = Seen(h, d, Kid(x, a, r))
    <3>1. /\ Kid(y, a, r) = IF Kid(x, a, r) = m THEN q ELSE Kid(x, a, r)
          /\ Kid(x, a, r) # q /\ Kid(x, a, r) \in Addr \cup {nil}
      BY <1>1, <1>3, TreeFields, <2>1
    <3>2. CASE Kid(x, a, r) = m
      BY <1>1, <2>3, <3>1, <3>2 DEF Seen
    <3>3. CASE Kid(x, a, r) # m
      BY <2>2, <3>1, <3>3 DEF Seen
    <3> QED BY <3>2, <3>3
  <2>5. /\ Seen(g, d, Kid(y, a, s)) = Seen(h, d, Kid(x, a, s))
        /\ Seen(g, d, Kid(y, a, o)) = Seen(h, d, Kid(x, a, o))
        /\ y.node[a].color = x.node[a].color
    BY <1>1, <2>1, <2>4
  <2> QED BY <2>1, <2>5 DEF Level, o
<1> QED BY <1>2, <1>3

\* Red nodes stay apart, given so at the two nodes turned and above them.
LEMMA RotateReds ==
  ASSUME NEW x, NEW y, x \in Trees,
         NEW m \in UsedIn(x), NEW s \in Sides, Turned(x, y, m, s), NEW v, NEW d,
         \A a \in UsedIn(x) \ {m, Kid(x, m, Other(s))} : \A r \in Sides :
            a # v /\ RedIn(x, a) /\ Kid(x, a, r) \notin {d, m} => ~RedIn(x, Kid(x, a, r)),
         \A a \in UsedIn(x) \ {v} : Up(x, m) = a /\ RedIn(x, a)
                                    => ~RedIn(x, Kid(x, m, Other(s))) \/ Kid(x, m, Other(s)) = d,
         \A a \in {m, Kid(x, m, Other(s))} : \A r \in Sides :
            a # v /\ RedIn(x, a) /\ Kid(y, a, r) # d => ~RedIn(x, Kid(y, a, r))
  PROVE  RedsApart(y, v, d)
<1> DEFINE q == Kid(x, m, Other(s))
<1>1. /\ UsedIn(y) = UsedIn(x) /\ y \in Trees
      /\ \A a \in UsedIn(x) \ {m, q} : \A r \in Sides :
            /\ Kid(y, a, r) = IF Kid(x, a, r) = m THEN q ELSE Kid(x, a, r)
            /\ (Kid(x, a, r) = m => Up(x, m) = a)
      /\ \A a \in Addr \cup {nil} : RedIn(y, a) <=> RedIn(x, a)
  BY DEF Turned
<1>2. \A a \in UsedIn(y), r \in Sides : a \in Addr /\ Kid(y, a, r) \in Addr \cup {nil}
  BY <1>1, TreeFields DEF UsedIn
<1> SUFFICES ASSUME NEW a \in UsedIn(x), NEW r \in Sides,
                    a # v, RedIn(x, a), Kid(y, a, r) # d
             PROVE  ~RedIn(x, Kid(y, a, r))
  BY <1>1, <1>2 DEF RedsApart
<1>3. CASE a \in {m, q}
  BY <1>3
<1>4. CASE a \notin {m, q} /\ Kid(x, a, r) = m
  BY <1>1, <1>4
<1>5. CASE a \notin {m, q} /\ Kid(x, a, r) # m
  BY <1>1, <1>5
<1> QED BY <1>3, <1>4, <1>5

-----------------------------------------------------------------------------
(* The cases of insertion that recolor or rotate. *)

\* Parent and uncle are red: they become black, and the repair goes on at the
\* grandparent, which becomes red.
LEMMA InsertCase3 == IInv /\ insert_case3 => IInv'
<1> SUFFICES ASSUME IInv, insert_case3 PROVE IInv'
  OBVIOUS
<1> PICK below \in [Addr -> SUBSET Addr], h \in [Addr -> Nat] :
         Good(t, pc, n, item, victim, below, h)
  BY DEF IInv
<1>0. pc = "insert_case3" /\ "insert_case3" \in Inserts
  BY DEF insert_case3, Inserts
<1>1. victim = nil /\ item = <<>> /\ Inserting(t, "insert_case3", n, below, h)
  BY <1>0, Phases
<1>2. /\ Frame(t, below, nil, nil) /\ Heights(t, h, nil, nil) /\ RedsApart(t, nil, n)
      /\ Distinct(t) /\ RedAt(t, "insert_case3", n)
      /\ t \in Trees /\ Skeleton(t, below)
      /\ n \in UsedIn(t) /\ n \in Addr /\ n # nil /\ nil \notin Addr
  BY <1>1, InsertFacts
<1> DEFINE p == Up(t, n)  g == Up(t, p)  u == SibIn(t, p)
<1>3. p # nil /\ RedIn(t, p) /\ RedIn(t, n) /\ (RedIn(t, t.root) => t.root = n)
  BY <1>2 DEF RedAt
<1>4. /\ p \in UsedIn(t) /\ g \in UsedIn(t) /\ p # n /\ g # n /\ g # p
      /\ SideIn(t, n) \in Sides /\ SideIn(t, p) \in Sides
      /\ Kid(t, g, SideIn(t, p)) = p
      /\ Kid(t, g, Other(SideIn(t, p))) = u
      /\ u \notin {n, p, g} /\ (u # nil => u \in UsedIn(t) /\ Up(t, u) = g)
      /\ ~RedIn(t, g) /\ t.root # p /\ t.root # n
  BY <1>2, <1>3, GrandLaw
<1>n. node_color(t, uncle(n)) = RED <=> RedIn(t, u)
  BY Names DEF RedIn
<1>5. CASE ~RedIn(t, u)
  <2>1. t' = t /\ pc' = "insert_case4" /\ n' = n /\ item' = item /\ victim' = victim
    BY <1>5, <1>n DEF insert_case3, Goto
  <2>2. Inserting(t, "insert_case4", n, below, h) /\ "insert_case4" \in Inserts
    BY <1>1, <1>3, <1>5 DEF Inserting, RedAt, Inserts
  <2> QED BY <1>1, <2>1, <2>2 DEF IInv, Good
<1>6. CASE RedIn(t, u)
  <2> DEFINE y1 == Colored(t, p, BLACK)  y2 == Colored(y1, u, BLACK)  y == Colored(y2, g, RED)
             f == [h EXCEPT ![p] = @ + 1, ![u] = @ + 1]
  <2>1. /\ t' = y /\ pc' = "insert_case1" /\ n' = g /\ item' = item /\ victim' = victim
    BY <1>6, <1>n, Names DEF insert_case3, Goto
  <2>2. u # nil /\ u \in UsedIn(t) /\ Up(t, u) = g
    BY <1>2, <1>4, <1>6, ColorLaw
  <2>3. /\ Painted(t, y1)
        /\ \A b \in Addr : y1.node[b].color = IF b = p THEN BLACK ELSE t.node[b].color
    <3> HIDE DEF p, g, u
    <3> QED BY <1>2, <1>4, ColoredLaw, AddrLaw
  <2>4. UsedIn(y1) = UsedIn(t) /\ y1 \in Trees
    BY <2>3, DistinctLaw DEF Painted
  <2> HIDE DEF y1
  <2>5. /\ Painted(y1, y2)
        /\ \A b \in Addr : y2.node[b].color = IF b = u THEN BLACK ELSE y1.node[b].color
    BY <2>2, <2>4, ColoredLaw, AddrLaw
  <2>6. UsedIn(y2) = UsedIn(t) /\ y2 \in Trees
    BY <2>4, <2>5, DistinctLaw DEF Painted
  <2> HIDE DEF y2
  <2>7. /\ Painted(y2, y)
        /\ \A b \in Addr : y.node[b].color = IF b = g THEN RED ELSE y2.node[b].color
    BY <1>4, <2>6, ColoredLaw, AddrLaw
  <2> HIDE DEF y
  <2>8. Painted(t, y)
    BY <2>3, <2>5, <2>7, PaintedTwice
  <2>9. \A b \in Addr : y.node[b].color = IF b = g THEN RED ELSE IF b \in {p, u} THEN BLACK
                                          ELSE t.node[b].color
    BY <2>3, <2>5, <2>7
  <2>10. Frame(y, below, nil, nil) /\ UsedIn(y) = UsedIn(t) /\ y \in Trees /\ Distinct(y)
    BY <1>2, <2>8, PaintedFrame, DistinctLaw DEF Painted
  <2>11. \A a \in UsedIn(t), s \in Sides :
            /\ Kid(y, a, s) = Kid(t, a, s) /\ Kid(t, a, s) \in Addr \cup {nil} /\ a \in Addr
            /\ Kid(t, a, s) # nil => Up(t, Kid(t, a, s)) = a
    BY <1>2, <2>8, KidLaw, TreeFields DEF Painted, UsedIn
  <2>12. f \in [Addr -> Nat] /\ p \in Addr /\ u \in Addr /\ g \in Addr
    BY <1>4, <2>2 DEF UsedIn
  <2>13. \A a \in Addr : f[a] = IF a \in {p, u} THEN h[a] + 1 ELSE h[a]
    BY <1>4, <2>12
  <2>14. /\ \A a \in Addr : RedIn(y, a) <=> IF a = g THEN TRUE ELSE IF a \in {p, u} THEN FALSE
                                            ELSE RedIn(t, a)
         /\ ~RedIn(y, nil)
    BY <1>2, <2>9, <2>10, ColorLaw, AddrLaw
  <2> HIDE DEF f, p, g, u
  <2>15. Heights(y, f, nil, nil)
    <3> SUFFICES ASSUME NEW a \in UsedIn(t)
                 PROVE  Level(y, f, nil, nil, a, SideIn(t, p))
      BY <1>4, <2>10, <2>12, HeightsLaw
    <3> DEFINE s == SideIn(t, p)  o == Other(s)
    <3>1. Level(t, h, nil, nil, a, s) /\ s \in Sides /\ o \in Sides /\ a \in Addr /\ a # nil
      BY <1>2, <1>4, SideLaw DEF Heights, UsedIn
    <3>2. \A r \in Sides : Kid(y, a, r) = Kid(t, a, r) /\ Kid(t, a, r) \in Addr \cup {nil}
      BY <2>11
    <3> HIDE DEF s, o
    <3>3. CASE a = g
      <4>1. Kid(t, a, s) = p /\ Kid(t, a, o) = u
        BY <1>4, <3>3 DEF s, o
      <4>2. Seen(f, nil, p) = h[p] + 1 /\ Seen(f, nil, u) = h[u] + 1
            /\ Seen(h, nil, p) = h[p] /\ Seen(h, nil, u) = h[u]
        BY <1>2, <1>3, <2>2, <2>12, <2>13 DEF Seen
      <4>3. y.node[a].color # BLACK /\ t.node[a].color = BLACK
        BY <1>2, <1>4, <2>9, <2>12, <3>3, ColorLaw, AddrLaw
      <4>4. f[a] = h[a] /\ h[p] \in Nat /\ h[u] \in Nat
        BY <1>4, <2>12, <2>13, <3>3
      <4>5. a # nil /\ h[p] = h[u] /\ h[a] = h[p] + 1
        BY <3>1, <4>1, <4>2, <4>3 DEF Level, o
      <4> QED BY <3>1, <3>2, <4>1, <4>2, <4>3, <4>4, <4>5 DEF Level, o, s
    <3>4. CASE a # g
      <4>1. \A r \in Sides : Kid(t, a, r) \notin {p, u}
        BY <1>3, <2>2, <2>11, <3>4 DEF g
      <4>2. \A r \in Sides : Seen(f, nil, Kid(y, a, r)) = Seen(h, nil, Kid(t, a, r))
                             /\ Seen(h, nil, Kid(t, a, r)) \in Nat
        BY <1>2, <2>13, <3>2, <4>1, SeenLaw DEF Seen
      <4>3. CASE a \in {p, u}
        <5>1. y.node[a].color = BLACK /\ t.node[a].color # BLACK /\ f[a] = h[a] + 1
          BY <1>2, <1>3, <1>6, <2>9, <2>12, <2>13, <3>4, <4>3, ColorLaw, AddrLaw
        <5> QED BY <3>1, <4>2, <5>1 DEF Level, o, s
      <4>4. CASE a \notin {p, u}
        <5>1. y.node[a].color = t.node[a].color /\ f[a] = h[a]
          BY <2>9, <2>13, <3>1, <3>4, <4>4
        <5> QED BY <3>1, <4>2, <5>1 DEF Level, o, s
      <4> QED BY <4>3, <4>4
    <3> QED BY <3>3, <3>4 DEF s
  <2>16. RedsApart(y, nil, g)
    <3> SUFFICES ASSUME NEW a \in UsedIn(t), NEW s \in Sides, a # nil, RedIn(y, a),
                        Kid(t, a, s) # g, RedIn(y, Kid(t, a, s))
                 PROVE  FALSE
      BY <2>10, <2>11 DEF RedsApart
    <3>1. RedIn(t, Kid(t, a, s)) /\ Kid(t, a, s) \notin {p, u, nil}
      BY <2>11, <2>14
    <3>2. a # g
      <4>1. \A r \in Sides : Kid(t, g, r) \in {p, u}
        BY <1>4, SideLaw
      <4> QED BY <3>1, <4>1
    <3>3. RedIn(t, a) /\ a \notin {p, u}
      BY <2>11, <2>14, <3>2
    <3>4. Kid(t, a, s) # n
      BY <1>2, <2>11, <3>3 DEF p
    <3> QED BY <1>2, <3>1, <3>3, <3>4 DEF RedsApart
  <2>17. RedAt(y, "insert_case1", g)
    <3>1. RedIn(y, y.root) => y.root = g
      BY <1>2, <1>3, <1>4, <2>8, <2>14, TreeFields DEF Painted
    <3> QED BY <1>4, <2>10, <2>12, <2>14, <3>1 DEF RedAt
  <2>18. Inserting(y, "insert_case1", g, below, f) /\ "insert_case1" \in Inserts
    BY <2>10, <2>15, <2>16, <2>17 DEF Inserting, Sound, Inserts
  <2> QED BY <1>1, <2>1, <2>12, <2>18 DEF IInv, Good
<1> QED BY <1>5, <1>6

\* An inner child is rotated to the outside.
LEMMA InsertCase4 == IInv /\ insert_case4 => IInv'
<1> SUFFICES ASSUME IInv, insert_case4 PROVE IInv'
  OBVIOUS
<1> PICK below \in [Addr -> SUBSET Addr], h \in [Addr -> Nat] :
         Good(t, pc, n, item, victim, below, h)
  BY DEF IInv
<1>0. pc = "insert_case4" /\ "insert_case4" \in Inserts
  BY DEF insert_case4, Inserts
<1>1. victim = nil /\ item = <<>> /\ Inserting(t, "insert_case4", n, below, h)
  BY <1>0, Phases
<1>2. /\ Frame(t, below, nil, nil) /\ Heights(t, h, nil, nil) /\ RedsApart(t, nil, n)
      /\ Distinct(t) /\ RedAt(t, "insert_case4", n)
      /\ t \in Trees /\ Skeleton(t, below)
      /\ n \in UsedIn(t) /\ n \in Addr /\ n # nil /\ nil \notin Addr
  BY <1>1, InsertFacts
<1> DEFINE p == Up(t, n)  g == Up(t, p)  u == SibIn(t, p)  s == SideIn(t, p)  o == Other(s)
<1>3. p # nil /\ RedIn(t, p) /\ RedIn(t, n) /\ (RedIn(t, t.root) => t.root = n) /\ ~RedIn(t, u)
  BY <1>2 DEF RedAt
<1>4. /\ p \in UsedIn(t) /\ g \in UsedIn(t) /\ p # n /\ g # n /\ g # p
      /\ SideIn(t, n) \in Sides /\ s \in Sides
      /\ Kid(t, p, SideIn(t, n)) = n /\ Kid(t, g, s) = p /\ Kid(t, g, o) = u
      /\ ~RedIn(t, g) /\ t.root # p /\ t.root # n
  BY <1>2, <1>3, GrandLaw
<1>5. CASE SideIn(t, n) = s
  <2>1. t' = t /\ pc' = "insert_case5" /\ n' = n /\ item' = item /\ victim' = victim
    BY <1>5, Names DEF insert_case4, Goto
  <2>2. Inserting(t, "insert_case5", n, below, h) /\ "insert_case5" \in Inserts
    BY <1>1, <1>5 DEF Inserting, RedAt, Inserts
  <2> QED BY <1>1, <2>1, <2>2 DEF IInv, Good
<1>6. CASE SideIn(t, n) # s
  <2> DEFINE y == rotate(t, p, s)  new == Turn(t, below, p, s)
  <2>1. t' = y /\ pc' = "insert_case5" /\ n' = p /\ item' = item /\ victim' = victim
    BY <1>6, Names DEF insert_case4, Goto
  <2>2. SideIn(t, n) = o /\ o \in Sides /\ Kid(t, p, o) = n /\ g \in Addr /\ p \in Addr
    BY <1>4, <1>6, SideLaw DEF UsedIn
  <2> HIDE DEF p, g, u, s, o
  <2>3. /\ Rotated(t, y, p, s) /\ Frame(y, new, nil, nil)
    BY <1>2, <1>3, <1>4, <2>2, RotateFrame DEF o
  <2> HIDE DEF y
  <2>4. Turned(t, y, p, s)
    BY <1>2, <1>4, <2>2, <2>3, RotateKids DEF o
  <2>5. /\ UsedIn(y) = UsedIn(t) /\ y \in Trees
        /\ Kid(y, p, s) = Kid(t, p, s) /\ Kid(y, p, o) = Kid(t, n, s)
        /\ Kid(y, n, s) = p /\ Kid(y, n, o) = Kid(t, n, o)
        /\ Up(y, n) = g /\ Up(y, p) = n
        /\ \A a \in Addr : y.node[a].color = t.node[a].color /\ y.node[a].ids = t.node[a].ids
        /\ \A a \in Addr \cup {nil} : RedIn(y, a) <=> RedIn(t, a)
        /\ y.root = t.root
    BY <1>4, <2>2, <2>4 DEF Turned, o, g
  <2>6. \A r \in Sides : Kid(y, g, r) = IF Kid(t, g, r) = p THEN n ELSE Kid(t, g, r)
    BY <1>4, <2>2, <2>4 DEF Turned, o
  <2>7. Kid(y, g, s) = n /\ Kid(y, g, o) = u
    <3>1. u # p
      BY <1>2, <1>3, <1>4, KidLaw DEF o
    <3> QED BY <1>4, <2>2, <2>6, <3>1
  <2>8. Skeleton(y, new) /\ new \in [Addr -> SUBSET Addr]
    BY <2>3 DEF Frame, Skeleton, Spans
  <2>9. SideIn(y, n) = s /\ SibIn(y, n) = u
    BY <1>2, <1>4, <2>5, <2>7, <2>8, KidIs DEF o
  <2>10. SideIn(y, p) = s
    BY <1>2, <1>3, <1>4, <2>5, <2>8, KidIs
  <2>11. Heights(y, h, nil, nil)
    <3>1. /\ \A a \in UsedIn(t) : Level(t, h, nil, nil, a, s)
          /\ Level(t, h, nil, nil, n, s) /\ Level(t, h, nil, nil, p, s)
      BY <1>2, <1>4 DEF Heights
    <3>2. t.node[n].color # BLACK /\ t.node[p].color # BLACK
      BY <1>2, <1>3, <2>2, ColorLaw, AddrLaw
    <3>3. /\ h[n] = Seen(h, nil, Kid(t, n, s)) /\ h[n] = Seen(h, nil, Kid(t, n, o))
          /\ h[p] = Seen(h, nil, Kid(t, p, s)) /\ h[p] = Seen(h, nil, n)
          /\ Seen(h, nil, n) = h[n] /\ Seen(h, nil, p) = h[p]
          /\ p # nil /\ n # nil
      <4>1. /\ Seen(h, nil, Kid(t, n, s)) \in Nat /\ Seen(h, nil, Kid(t, p, s)) \in Nat
            /\ h[n] \in Nat /\ h[p] \in Nat
        BY <1>2, <1>4, <2>2, SeenLaw
      <4>2. Seen(h, nil, n) = h[n] /\ Seen(h, nil, p) = h[p]
        BY <1>2, <1>3, <4>1 DEF Seen
      <4> QED BY <1>2, <1>3, <2>2, <3>1, <3>2, <4>1, <4>2 DEF Level, o
    <3>4. h[n] \in Nat /\ h[p] \in Nat
      BY <1>2, <2>2
    <3>5. Level(y, h, nil, nil, p, s)
      BY <2>2, <2>5, <3>2, <3>3, <3>4 DEF Level, o
    <3>6. Level(y, h, nil, nil, n, s)
      BY <1>2, <2>2, <2>5, <3>2, <3>3, <3>4 DEF Level, o
    <3>7. nil # p /\ nil # Kid(t, p, Other(s)) /\ Kid(t, p, Other(s)) = n
      BY <1>2, <1>3, <2>2 DEF o
    <3> QED BY <1>2, <1>4, <2>4, <3>1, <3>3, <3>5, <3>6, <3>7, RotateHeights
  <2>12. RedsApart(y, nil, p)
    <3>0. Kid(t, p, Other(s)) = n
      BY <2>2 DEF o
    <3>1. \A a \in UsedIn(t), r \in Sides :
             a # nil /\ RedIn(t, a) /\ Kid(t, a, r) # n => ~RedIn(t, Kid(t, a, r))
      BY <1>2 DEF RedsApart
    <3>2. \A a \in UsedIn(t) \ {p, n} : \A r \in Sides :
            a # nil /\ RedIn(t, a) /\ Kid(t, a, r) \notin {p, p} => ~RedIn(t, Kid(t, a, r))
      <4>1. \A a \in UsedIn(t) \ {p, n} : \A r \in Sides : Kid(t, a, r) # n
        BY <2>2, <2>4 DEF Turned, o
      <4> QED BY <3>1, <4>1
    <3>3. \A a \in UsedIn(t) \ {nil} : Up(t, p) = a /\ RedIn(t, a)
                                       => ~RedIn(t, n) \/ n = p
      BY <1>4 DEF g
    <3>4. \A a \in {p, n} : \A r \in Sides :
             a # nil /\ RedIn(t, a) /\ Kid(y, a, r) # p => ~RedIn(t, Kid(y, a, r))
      <4>1. \A r \in Sides : r = s \/ r = o
        BY <1>4, SideLaw DEF o
      <4>2. Kid(t, n, s) # n /\ Kid(t, n, o) # n /\ Kid(t, p, s) # n
        <5>1. Kid(t, n, s) # n /\ Kid(t, n, o) # n
          BY <1>2, <1>4, <2>2, KidLaw
        <5>2. Kid(t, p, s) # n
          BY <1>2, <1>4, <2>2, KidLaw DEF o
        <5> QED BY <5>1, <5>2
      <4>3. ~RedIn(t, Kid(t, n, s)) /\ ~RedIn(t, Kid(t, n, o)) /\ ~RedIn(t, Kid(t, p, s))
        BY <1>2, <1>3, <1>4, <2>2, <3>1, <4>2
      <4> QED BY <2>5, <4>1, <4>3
    <3> QED BY <1>2, <1>4, <2>4, <3>0, <3>2, <3>3, <3>4, RotateReds
  <2>13. RedAt(y, "insert_case5", p)
    <3>1. /\ p \in UsedIn(y) /\ RedIn(y, p) /\ Up(y, p) # nil /\ RedIn(y, Up(y, p))
          /\ RedIn(y, y.root) => y.root = p
      BY <1>2, <1>3, <1>4, <2>2, <2>5, TreeFields
    <3>2. ~RedIn(y, SibIn(y, Up(y, p))) /\ SideIn(y, p) = SideIn(y, Up(y, p))
      <4>1. u \in Addr \cup {nil}
        BY <1>2, <1>4, <2>2, TreeFields
      <4> QED BY <1>3, <2>5, <2>9, <2>10, <4>1
    <3> QED BY <3>1, <3>2 DEF RedAt
  <2>14. Inserting(y, "insert_case5", p, new, h) /\ "insert_case5" \in Inserts
    <3>1. Distinct(y)
      BY <1>2, <2>5, DistinctLaw
    <3> QED BY <2>3, <2>11, <2>12, <2>13, <3>1 DEF Inserting, Sound, Inserts
  <2> HIDE DEF new
  <2> QED BY <1>1, <2>1, <2>8, <2>14 DEF IInv, Good
<1> QED BY <1>5, <1>6

\* The grandparent is rotated below the parent, and the colors change places.
LEMMA InsertCase5 == IInv /\ insert_case5 => IInv'
<1> SUFFICES ASSUME IInv, insert_case5 PROVE IInv'
  OBVIOUS
<1> PICK below \in [Addr -> SUBSET Addr], h \in [Addr -> Nat] :
         Good(t, pc, n, item, victim, below, h)
  BY DEF IInv
<1>0. pc = "insert_case5" /\ "insert_case5" \in Inserts
  BY DEF insert_case5, Inserts
<1>1. victim = nil /\ item = <<>> /\ Inserting(t, "insert_case5", n, below, h)
  BY <1>0, Phases
<1>2. /\ Frame(t, below, nil, nil) /\ Heights(t, h, nil, nil) /\ RedsApart(t, nil, n)
      /\ Distinct(t) /\ RedAt(t, "insert_case5", n)
      /\ t \in Trees /\ Skeleton(t, below)
      /\ n \in UsedIn(t) /\ n \in Addr /\ n # nil /\ nil \notin Addr
  BY <1>1, InsertFacts
<1> DEFINE p == Up(t, n)  g == Up(t, p)  u == SibIn(t, p)  o == SideIn(t, p)  s == Other(o)
           c == SibIn(t, n)
<1>3. /\ p # nil /\ RedIn(t, p) /\ RedIn(t, n) /\ (RedIn(t, t.root) => t.root = n)
      /\ ~RedIn(t, u) /\ SideIn(t, n) = o
  BY <1>2 DEF RedAt
<1>4. /\ p \in UsedIn(t) /\ g \in UsedIn(t) /\ p # n /\ g # n /\ g # p
      /\ o \in Sides /\ s \in Sides /\ Other(s) = o
      /\ Kid(t, p, o) = n /\ Kid(t, p, s) = c /\ c # n
      /\ Kid(t, g, o) = p /\ Kid(t, g, s) = u
      /\ u \notin {n, p, g}
      /\ ~RedIn(t, g) /\ t.root # p /\ t.root # n /\ p \in Addr /\ g \in Addr
  <2>1. o \in Sides => s \in Sides /\ Other(s) = o
    BY SideLaw
  <2> QED BY <1>2, <1>3, <2>1, GrandLaw DEF UsedIn
<1> DEFINE y1 == Colored(t, p, BLACK)  x == Colored(y1, g, RED)  y == rotate(x, g, s)
           new == Turn(x, below, g, s)  f == [h EXCEPT ![g] = h[p], ![p] = h[g]]
<1>5. t' = y /\ pc' = "idle" /\ n' = nil /\ item' = <<>> /\ victim' = nil
  BY <1>3, Names DEF insert_case5, Return
<1> HIDE DEF p, g, u, s, o, c
<1>6. /\ Painted(t, y1)
      /\ \A b \in Addr : y1.node[b].color = IF b = p THEN BLACK ELSE t.node[b].color
  BY <1>2, <1>4, ColoredLaw, AddrLaw
<1>7. UsedIn(y1) = UsedIn(t) /\ y1 \in Trees
  BY <1>6, DistinctLaw DEF Painted
<1> HIDE DEF y1
<1>8. /\ Painted(y1, x)
      /\ \A b \in Addr : x.node[b].color = IF b = g THEN RED ELSE y1.node[b].color
  BY <1>4, <1>7, ColoredLaw, AddrLaw
<1> HIDE DEF x
<1>9. /\ Painted(t, x)
      /\ \A b \in Addr : x.node[b].color = IF b = g THEN RED ELSE IF b = p THEN BLACK
                                           ELSE t.node[b].color
  BY <1>6, <1>8, PaintedTwice
<1>10. Frame(x, below, nil, nil) /\ UsedIn(x) = UsedIn(t) /\ x \in Trees /\ Skeleton(x, below)
       /\ Distinct(x)
  BY <1>2, <1>9, PaintedFrame, DistinctLaw DEF Painted, Frame
<1>11. /\ \A a \in UsedIn(t), r \in Sides : Kid(x, a, r) = Kid(t, a, r)
       /\ \A a \in Addr : Up(x, a) = Up(t, a)
       /\ x.root = t.root
  BY <1>9 DEF Painted, UsedIn
<1>12. /\ \A a \in Addr : RedIn(x, a) <=> IF a = g THEN TRUE ELSE IF a = p THEN FALSE
                                          ELSE RedIn(t, a)
       /\ ~RedIn(x, nil) /\ ~RedIn(t, nil)
  BY <1>2, <1>9, <1>10, ColorLaw, AddrLaw
<1>13. Kid(x, g, Other(s)) = p /\ p # nil
  BY <1>3, <1>4, <1>11
<1>14. Rotated(x, y, g, s) /\ Frame(y, new, nil, nil)
  BY <1>2, <1>4, <1>10, <1>13, RotateFrame
<1> HIDE DEF y
<1>15. Turned(x, y, g, s)
  BY <1>4, <1>10, <1>13, <1>14, RotateKids
<1>16. /\ UsedIn(y) = UsedIn(t) /\ y \in Trees
       /\ Kid(y, g, s) = u /\ Kid(y, g, o) = c /\ Kid(y, p, s) = g /\ Kid(y, p, o) = n
       /\ \A a \in Addr : y.node[a].color = x.node[a].color /\ y.node[a].ids = x.node[a].ids
       /\ \A a \in Addr \cup {nil} : RedIn(y, a) <=> RedIn(x, a)
       /\ y.root = IF t.root = g THEN p ELSE t.root
  BY <1>4, <1>10, <1>11, <1>13, <1>15 DEF Turned
<1>17. \A a \in UsedIn(t), r \in Sides :
          /\ Kid(t, a, r) \in Addr \cup {nil} /\ a \in Addr
          /\ Kid(t, a, r) # nil => Up(t, Kid(t, a, r)) = a
          /\ Kid(t, a, r) # a
  <2>1. ASSUME NEW a \in UsedIn(t), NEW r \in Sides PROVE Kid(t, a, r) # a
    BY <1>2, KidLaw DEF UsedIn
  <2> QED BY <1>2, <2>1, KidLaw, TreeFields DEF UsedIn
<1>18. new \in [Addr -> SUBSET Addr]
  BY <1>14 DEF Frame, Skeleton, Spans
<1>19. /\ f \in [Addr -> Nat] /\ f[g] = h[p] /\ f[p] = h[g]
       /\ \A a \in Addr \ {g, p} : f[a] = h[a]
  BY <1>4
<1> HIDE DEF new, f
<1>20. Heights(y, f, nil, nil)
  <2>1. \A a \in UsedIn(t) : Level(t, h, nil, nil, a, s)
    BY <1>2, <1>4 DEF Heights
  <2>2. \A a \in UsedIn(t) \ {g, p} : Level(x, h, nil, nil, a, s)
    <3> SUFFICES ASSUME NEW a \in UsedIn(t) \ {g, p} PROVE Level(x, h, nil, nil, a, s)
      OBVIOUS
    <3>1. Kid(x, a, s) = Kid(t, a, s) /\ Kid(x, a, Other(s)) = Kid(t, a, Other(s))
      BY <1>4, <1>11
    <3>2. x.node[a].color = t.node[a].color
      BY <1>9, <1>17, <1>4
    <3> QED BY <2>1, <3>1, <3>2 DEF Level
  <2>3. /\ t.node[n].color # BLACK /\ t.node[p].color # BLACK /\ t.node[g].color = BLACK
        /\ y.node[g].color # BLACK /\ y.node[p].color = BLACK
    BY <1>2, <1>3, <1>4, <1>9, <1>16, ColorLaw, AddrLaw
  <2>4. /\ Seen(h, nil, n) = h[n] /\ Seen(h, nil, p) = h[p] /\ Seen(h, nil, g) = h[g]
        /\ Seen(f, nil, n) = h[n] /\ Seen(f, nil, p) = h[g] /\ Seen(f, nil, g) = h[p]
        /\ Seen(f, nil, c) = Seen(h, nil, c) /\ Seen(f, nil, u) = Seen(h, nil, u)
        /\ Seen(h, nil, c) \in Nat /\ Seen(h, nil, u) \in Nat
        /\ h[n] \in Nat /\ h[p] \in Nat /\ h[g] \in Nat
    <3>1. /\ c \in Addr \cup {nil} /\ c # p /\ c # g
          /\ u \in Addr \cup {nil} /\ u # p /\ u # g
      <4>1. c = g => Up(t, g) = p
        BY <1>2, <1>4, <1>17
      <4>2. Up(t, g) # p
        BY <1>2, <1>4, <1>3, SideLaw, AroundLaw
      <4> QED BY <1>4, <1>17, <4>1, <4>2
    <3> QED BY <1>2, <1>3, <1>4, <1>19, <3>1 DEF Seen
  <2>5. h[p] = h[n] /\ Seen(h, nil, c) = h[n] /\ h[g] = h[p] + 1 /\ Seen(h, nil, u) = h[p]
    <3>1. Level(t, h, nil, nil, p, s) /\ Level(t, h, nil, nil, g, s) /\ p # nil /\ g # nil
      BY <1>2, <1>4, <2>1, <1>3
    <3> QED BY <1>4, <2>3, <2>4, <3>1 DEF Level
  <2>6. Level(y, f, nil, nil, g, s)
    BY <1>2, <1>4, <1>16, <1>19, <2>3, <2>4, <2>5 DEF Level
  <2>7. Level(y, f, nil, nil, p, s)
    BY <1>3, <1>4, <1>16, <1>19, <2>3, <2>4, <2>5 DEF Level
  <2>8. nil # g /\ nil # p
    BY <1>2, <1>4
  <2> QED BY <1>4, <1>10, <1>13, <1>15, <1>19, <2>2, <2>6, <2>7, <2>8, RotateHeights
<1>21. RedsApart(y, nil, nil)
  <2>1. \A a \in UsedIn(t), r \in Sides :
           a # nil /\ RedIn(t, a) /\ Kid(t, a, r) # n => ~RedIn(t, Kid(t, a, r))
    BY <1>2 DEF RedsApart
  <2>2. \A a \in UsedIn(t) \ {g, p} : \A r \in Sides :
           a # nil /\ RedIn(x, a) /\ Kid(x, a, r) \notin {nil, g} => ~RedIn(x, Kid(x, a, r))
    <3> SUFFICES ASSUME NEW a \in UsedIn(t) \ {g, p}, NEW r \in Sides, a # nil, RedIn(x, a),
                        Kid(x, a, r) \notin {nil, g}
                 PROVE  ~RedIn(x, Kid(x, a, r))
      OBVIOUS
    <3>1. RedIn(t, a) /\ Kid(x, a, r) = Kid(t, a, r) /\ Kid(t, a, r) # n
      BY <1>2, <1>11, <1>12, <1>17 DEF p
    <3>2. ~RedIn(t, Kid(t, a, r)) /\ Kid(t, a, r) \in Addr
      BY <1>17, <2>1, <3>1
    <3> QED BY <1>12, <3>1, <3>2
  <2>3. \A a \in UsedIn(t) \ {nil} : Up(x, g) = a /\ RedIn(x, a) => ~RedIn(x, p) \/ p = nil
    BY <1>4, <1>12
  <2>4. \A a \in {g, p} : \A r \in Sides :
           a # nil /\ RedIn(x, a) /\ Kid(y, a, r) # nil => ~RedIn(x, Kid(y, a, r))
    <3>1. \A r \in Sides : r = s \/ r = o
      BY <1>4, SideLaw
    <3>2. ~RedIn(x, p)
      BY <1>4, <1>12
    <3>3. ~RedIn(t, c)
      BY <1>2, <1>3, <1>4, <2>1
    <3>4. ~RedIn(x, u) /\ ~RedIn(x, c)
      <4>1. u \in Addr \cup {nil} /\ c \in Addr \cup {nil} /\ u # g /\ c # g
        <5>1. Up(t, g) # p
          BY <1>2, <1>4, <1>3, SideLaw, AroundLaw
        <5> QED BY <1>2, <1>4, <1>17, <5>1
      <4> QED BY <1>3, <1>12, <3>3, <4>1
    <3> QED BY <1>16, <3>1, <3>2, <3>4
  <2> QED BY <1>4, <1>10, <1>13, <1>15, <2>2, <2>3, <2>4, RotateReds
<1>22. ~RedIn(y, y.root)
  <2>1. t.root \in Addr \cup {nil}
    BY <1>2, TreeFields
  <2> QED BY <1>3, <1>4, <1>12, <1>16, <2>1
<1>23. Distinct(y)
  BY <1>10, <1>16, DistinctLaw
<1>24. Resting(y, new, f)
  BY <1>14, <1>20, <1>21, <1>22, <1>23 DEF Resting, Sound
<1> QED BY <1>5, <1>18, <1>19, <1>24 DEF IInv, Good

-----------------------------------------------------------------------------
(* Induction over a tree: a set of nodes has a lowest and a highest one. *)

\* A set of naturals has a least one.
LEMMA Least ==
  ASSUME NEW S \in SUBSET Nat, S # {}
  PROVE  \E k \in S : \A j \in S : k <= j
<1>1. PICK k \in S : \A j \in S : ~(<<j, k>> \in OpToRel(<, Nat))
  BY WFMin, NatLessThanWellFounded
<1>2. \A j \in S : ~(j < k)
  BY <1>1 DEF OpToRel
<1> QED BY <1>2

\* A tree has finitely many nodes.
LEMMA AddrFinite == IsFiniteSet(Addr) /\ Cardinality(Addr) = MaxNodes
<1>1. IsFiniteSet(1 .. MaxNodes)
      /\ Cardinality(1 .. MaxNodes) = IF 1 > MaxNodes THEN 0 ELSE MaxNodes - 1 + 1
  BY FS_Interval, TreeAssumption
<1>2. MaxNodes \in Nat
  BY TreeAssumption
<1> QED BY <1>1, <1>2 DEF Addr

\* The number of nodes of a subtree.
LEMMA Counts ==
  ASSUME NEW x, NEW below, Skeleton(x, below)
  PROVE  /\ \A a \in UsedIn(x) : Cardinality(below[a]) \in 0 .. MaxNodes
         /\ \A a \in UsedIn(x), s \in Sides :
               Kid(x, a, s) # nil => Cardinality(below[Kid(x, a, s)]) < Cardinality(below[a])
<1>1. ASSUME NEW a \in UsedIn(x)
      PROVE  IsFiniteSet(below[a]) /\ Cardinality(below[a]) \in 0 .. MaxNodes
  <2>1. below[a] \in SUBSET Addr
    BY DEF Skeleton, Spans, UsedIn
  <2>2. IsFiniteSet(below[a]) /\ Cardinality(below[a]) <= MaxNodes
    BY <2>1, AddrFinite, FS_Subset
  <2>3. Cardinality(below[a]) \in Nat
    BY <2>2, FS_CardinalityType
  <2> QED BY <2>2, <2>3, TreeAssumption
<1>2. ASSUME NEW a \in UsedIn(x), NEW s \in Sides, Kid(x, a, s) # nil
      PROVE  Cardinality(below[Kid(x, a, s)]) < Cardinality(below[a])
  <2> DEFINE k == Kid(x, a, s)
  <2>1. k \in UsedIn(x) /\ below[k] \in SUBSET below[a] /\ a \notin below[k] /\ a \in below[a]
    BY <1>2, KidLaw
  <2>2. /\ Cardinality(below[k]) <= Cardinality(below[a])
        /\ Cardinality(below[a]) = Cardinality(below[k]) => below[a] = below[k]
    BY <1>1, <2>1, FS_Subset
  <2>3. Cardinality(below[k]) \in Int /\ Cardinality(below[a]) \in Int
    BY <1>1, <2>1
  <2>4. Cardinality(below[k]) # Cardinality(below[a])
    BY <2>1, <2>2
  <2> HIDE DEF k
  <2> QED BY <2>2, <2>3, <2>4 DEF k
<1> QED BY <1>1, <1>2

\* Every set of nodes has one none of whose children is in the set: what holds for
\* a node when it holds for its children holds for all nodes.
LEMMA Lowest ==
  ASSUME NEW x, NEW below, Skeleton(x, below), NEW T \in SUBSET UsedIn(x), T # {}
  PROVE  \E a \in T : \A s \in Sides : Kid(x, a, s) \notin T
<1> DEFINE S == {Cardinality(below[a]) : a \in T}
<1>1. S \in SUBSET Nat /\ S # {}
  BY Counts, TreeAssumption
<1>2. PICK k \in S : \A j \in S : k <= j
  BY <1>1, Least
<1>3. PICK a \in T : k = Cardinality(below[a])
  OBVIOUS
<1>4. ASSUME NEW s \in Sides, Kid(x, a, s) \in T PROVE FALSE
  <2>1. Kid(x, a, s) # nil
    BY <1>4, AddrLaw DEF UsedIn
  <2>2. Cardinality(below[Kid(x, a, s)]) < Cardinality(below[a])
    BY <2>1, Counts
  <2>3. Cardinality(below[a]) <= Cardinality(below[Kid(x, a, s)])
    BY <1>2, <1>3, <1>4
  <2>4. Cardinality(below[a]) \in Nat /\ Cardinality(below[Kid(x, a, s)]) \in Nat
    BY <1>1, <1>4
  <2> QED BY <2>2, <2>3, <2>4
<1> QED BY <1>4

\* Every set of nodes has one whose parent is not in the set.
LEMMA Highest ==
  ASSUME NEW x, NEW below, Skeleton(x, below), NEW T \in SUBSET UsedIn(x), T # {}
  PROVE  \E a \in T : Up(x, a) \notin T
<1> DEFINE S == {MaxNodes - Cardinality(below[a]) : a \in T}
<1>0. \A a \in T : Cardinality(below[a]) \in 0 .. MaxNodes
  BY Counts
<1>1. S \in SUBSET Nat /\ S # {}
  BY <1>0, TreeAssumption
<1>2. PICK k \in S : \A j \in S : k <= j
  BY <1>1, Least
<1>3. PICK a \in T : k = MaxNodes - Cardinality(below[a])
  OBVIOUS
<1>4. ASSUME Up(x, a) \in T PROVE FALSE
  <2>1. Up(x, a) # nil /\ a # nil /\ a \in UsedIn(x)
    BY <1>4, AddrLaw DEF UsedIn
  <2>2. PICK s \in Sides : Kid(x, Up(x, a), s) = a
    BY <2>1 DEF Skeleton, Linked
  <2>3. Cardinality(below[a]) < Cardinality(below[Up(x, a)])
    BY <1>4, <2>1, <2>2, Counts
  <2>4. MaxNodes - Cardinality(below[a]) <= MaxNodes - Cardinality(below[Up(x, a)])
    BY <1>2, <1>3, <1>4
  <2>5. Cardinality(below[a]) \in 0 .. MaxNodes /\ Cardinality(below[Up(x, a)]) \in 0 .. MaxNodes
    BY <1>0, <1>4
  <2> QED BY <2>3, <2>4, <2>5, TreeAssumption
<1> QED BY <1>4

\* The nodes below a node form a subtree of its own.
LEMMA BelowLaw ==
  ASSUME NEW x, NEW below, Skeleton(x, below)
  PROVE  \A a \in UsedIn(x) : \A b \in below[a] :
            /\ b \in UsedIn(x) /\ below[b] \subseteq below[a]
            /\ b # a => Up(x, b) # nil /\ Up(x, b) \in below[a]
            /\ a \in below[b] => a = b
<1> DEFINE P(a, b) == /\ b \in UsedIn(x) /\ below[b] \subseteq below[a]
                      /\ b # a => Up(x, b) # nil /\ Up(x, b) \in below[a]
           T == {a \in UsedIn(x) : \E b \in below[a] : ~P(a, b)}
<1>1. T = {}
  <2> SUFFICES ASSUME T # {} PROVE FALSE
    OBVIOUS
  <2>1. PICK a \in T : \A s \in Sides : Kid(x, a, s) \notin T
    <3>1. T \in SUBSET UsedIn(x)
      OBVIOUS
    <3> HIDE DEF T
    <3> QED BY <3>1, Lowest
  <2>2. a \in UsedIn(x)
    OBVIOUS
  <2>3. PICK b \in below[a] : ~P(a, b)
    OBVIOUS
  <2>4. b # a
    BY <2>2, <2>3
  <2>5. PICK s \in Sides : b \in Under(below, Kid(x, a, s))
    BY <2>2, <2>3, <2>4 DEF Skeleton, Spans, Sides
  <2> DEFINE k == Kid(x, a, s)
  <2>6. k # nil /\ b \in below[k]
    BY <2>5 DEF Under
  <2>7. k \in UsedIn(x) /\ Up(x, k) = a /\ below[k] \subseteq below[a] /\ a \in below[a] /\ a # nil
    BY <2>2, <2>6, KidLaw, AddrLaw DEF UsedIn
  <2>8. P(k, b)
    BY <2>1, <2>6, <2>7
  <2> HIDE DEF k
  <2> QED BY <2>3, <2>7, <2>8
<1>2. \A a \in UsedIn(x) : \A b \in below[a] : P(a, b)
  BY <1>1
<1>3. ASSUME NEW a \in UsedIn(x), NEW b \in below[a], a \in below[b], a # b PROVE FALSE
  <2>1. PICK s \in Sides : b \in Under(below, Kid(x, a, s))
    BY <1>3 DEF Skeleton, Spans, Sides
  <2>2. Kid(x, a, s) # nil /\ b \in below[Kid(x, a, s)]
    BY <2>1 DEF Under
  <2>3. Kid(x, a, s) \in UsedIn(x) /\ a \notin below[Kid(x, a, s)]
    BY <2>2, KidLaw
  <2> QED BY <1>2, <1>3, <2>2, <2>3
<1> QED BY <1>2, <1>3

-----------------------------------------------------------------------------
(* The repair of a deletion. *)

\* What every case of the repair after a deletion finds.
LEMMA DeleteFacts ==
  ASSUME NEW x, NEW p, NEW a, NEW v, NEW below, NEW h, Deleting(x, p, a, v, below, h)
  PROVE  /\ Frame(x, below, v, nil) /\ Heights(x, h, v, a) /\ RedsApart(x, v, a)
         /\ Distinct(x) /\ Slim(x, v) /\ ShortAt(x, below, p, a, v)
         /\ x \in Trees /\ Skeleton(x, below) /\ h \in [Addr -> Nat]
         /\ a \in UsedIn(x) /\ a \in Addr /\ a # nil /\ nil \notin Addr
         /\ v \in UsedIn(x) /\ v \in Addr /\ v # nil /\ v \in below[a]
BY AddrLaw DEF Deleting, Sound, Frame, Skeleton, Heights, ShortAt, Slim, UsedIn

\* A node that is a black short has a sibling, apart from the victim, and the
\* sibling's children are apart from it too.
LEMMA ShortLaw ==
  ASSUME NEW x, NEW below, Skeleton(x, below), NEW h, NEW a \in UsedIn(x), NEW v \in below[a],
         Heights(x, h, v, a), Up(x, a) # nil
  PROVE  LET p == Up(x, a)  s == SideIn(x, a)  o == Other(s)  q == SibIn(x, a)
         IN  /\ p \in UsedIn(x) /\ q \in UsedIn(x) /\ p \in Addr /\ q \in Addr
             /\ p # a /\ q # a /\ q # p /\ p # v /\ q # v /\ p # nil /\ q # nil
             /\ s \in Sides /\ o \in Sides /\ Other(o) = s /\ \A r \in Sides : r = s \/ r = o
             /\ Kid(x, p, s) = a /\ Kid(x, p, o) = q /\ Up(x, q) = p /\ Up(x, p) # q
             /\ \A r \in Sides : /\ Kid(x, q, r) \in Addr \cup {nil}
                                 /\ Kid(x, q, r) \notin {v, a, p, q}
                                 /\ Kid(x, v, r) \notin {p, q}
                                 /\ Kid(x, q, r) # nil =>
                                       /\ Kid(x, q, r) \in UsedIn(x)
                                       /\ Up(x, Kid(x, q, r)) = q
                                       /\ Kid(x, q, Other(r)) # Kid(x, q, r)
                                 /\ \A c \in Sides : Kid(x, q, r) # nil
                                                     => Kid(x, v, c) # Kid(x, q, r)
             /\ h[q] = h[a] + 1
             /\ h[p] = h[q] + (IF x.node[p].color = BLACK THEN 1 ELSE 0)
             /\ x.root # a /\ x.root # q /\ v \in UsedIn(x)
             /\ v \notin below[q]
<1> DEFINE p == Up(x, a)  s == SideIn(x, a)  o == Other(s)  q == SibIn(x, a)
<1>0. nil \notin Addr /\ a # nil /\ a \in Addr /\ h \in [Addr -> Nat] /\ x \in Trees
  BY AddrLaw DEF UsedIn, Heights, Skeleton
<1>1. /\ s \in Sides /\ o \in Sides /\ p \in UsedIn(x) /\ p # a
      /\ Kid(x, p, s) = a /\ Kid(x, p, o) = q /\ q # a
  BY SideInLaw
<1>2. Other(o) = s /\ \A r \in Sides : r = s \/ r = o
  BY <1>1, SideLaw
<1>3. v \in UsedIn(x) /\ below[v] \subseteq below[a]
  BY BelowLaw
<1>4. p \notin below[a] /\ p \in below[p]
  BY <1>0, <1>1, KidLaw
<1> HIDE DEF p, q, s, o
<1>5. p # v /\ p \in Addr /\ p # nil
  BY <1>0, <1>1, <1>4 DEF UsedIn
<1>6. /\ h[p] = h[a] + 1 + (IF x.node[p].color = BLACK THEN 1 ELSE 0)
      /\ Seen(h, a, q) = h[a] + 1 /\ h[a] \in Nat
  <2>1. Level(x, h, v, a, p, s)
    BY <1>1 DEF Heights
  <2>2. Seen(h, a, a) = h[a] + 1
    BY <1>0 DEF Seen
  <2>3. h[a] \in Nat
    BY <1>0
  <2> QED BY <1>1, <1>5, <2>1, <2>2, <2>3 DEF Level, o
<1>7. q # nil
  BY <1>6 DEF Seen
<1>8. h[q] = h[a] + 1
  <2>1. q \in UsedIn(x)
    BY <1>1, <1>7, KidLaw
  <2>2. h[q] \in Nat
    BY <1>0, <2>1 DEF UsedIn
  <2> QED BY <1>1, <1>6, <1>7, <2>2 DEF Seen
<1>9. q \in UsedIn(x) /\ Up(x, q) = p /\ p \notin below[q] /\ q \in below[q] /\ q # p
  BY <1>1, <1>7, KidLaw
<1>10. below[q] \cap below[a] = {}
  <2>1. Under(below, Kid(x, p, "left")) \cap Under(below, Kid(x, p, "right")) = {}
    BY <1>1 DEF Skeleton, Spans
  <2>2. Under(below, Kid(x, p, s)) \cap Under(below, Kid(x, p, o)) = {}
    BY <1>1, <2>1 DEF Sides, Other, o
  <2> QED BY <1>0, <1>1, <1>7, <2>2 DEF Under
<1>11. q # v /\ q \in Addr /\ a \in below[a] /\ v \notin below[q]
  <2>1. a \in below[a]
    BY DEF Skeleton, Spans
  <2> QED BY <1>9, <1>10, <2>1 DEF UsedIn
<1>12. ASSUME NEW r \in Sides
       PROVE  /\ Kid(x, q, r) \in Addr \cup {nil}
              /\ Kid(x, q, r) # nil =>
                    /\ Kid(x, q, r) \in UsedIn(x) /\ Up(x, Kid(x, q, r)) = q
                    /\ Kid(x, q, r) \in below[q] /\ q # Kid(x, q, r)
                    /\ Kid(x, q, Other(r)) # Kid(x, q, r)
  <2>1. Kid(x, q, r) \in Addr \cup {nil}
    BY <1>0, <1>11, TreeFields
  <2>2. Kid(x, q, r) # nil =>
                    /\ Kid(x, q, r) \in UsedIn(x) /\ Up(x, Kid(x, q, r)) = q
                    /\ below[Kid(x, q, r)] \subseteq below[q] /\ Kid(x, q, r) \in below[Kid(x, q, r)]
                    /\ q \notin below[Kid(x, q, r)] /\ Kid(x, q, Other(r)) # Kid(x, q, r)
    BY <1>9, KidLaw
  <2> QED BY <2>1, <2>2
<1>13. ASSUME NEW r \in Sides PROVE Kid(x, v, r) # nil => Kid(x, v, r) \in below[a]
  <2>1. Kid(x, v, r) # nil => Kid(x, v, r) \in below[Kid(x, v, r)]
                              /\ below[Kid(x, v, r)] \subseteq below[v]
    BY <1>3, KidLaw
  <2> QED BY <1>3, <2>1
<1>14. ASSUME NEW r \in Sides
       PROVE  /\ Kid(x, q, r) \notin {v, a, p, q} /\ Kid(x, v, r) \notin {p, q}
              /\ \A c \in Sides : Kid(x, q, r) # nil => Kid(x, v, c) # Kid(x, q, r)
  <2>1. Kid(x, q, r) \notin {v, a, p, q}
    <3>1. v # nil
      BY <1>0, <1>3 DEF UsedIn
    <3> QED BY <1>0, <1>5, <1>9, <1>10, <1>11, <1>12, <3>1
  <2>2. Kid(x, v, r) \notin {p, q}
    BY <1>4, <1>5, <1>7, <1>9, <1>10, <1>13
  <2>3. \A c \in Sides : Kid(x, q, r) # nil => Kid(x, v, c) # Kid(x, q, r)
    BY <1>10, <1>12, <1>13
  <2> QED BY <2>1, <2>2, <2>3
<1>15. x.root # a /\ x.root # q /\ Up(x, p) # q
  <2>1. x.root = nil \/ Up(x, x.root) = nil
    BY DEF Skeleton, Linked
  <2>2. Up(x, p) # q
    <3>1. \A r \in Sides : Kid(x, q, r) # p
      BY <1>14
    <3> QED BY <1>1, <1>7, <3>1 DEF Skeleton, Linked
  <2> QED BY <1>0, <1>5, <1>7, <1>9, <2>1, <2>2 DEF p
<1>16. h[p] = h[q] + (IF x.node[p].color = BLACK THEN 1 ELSE 0)
  BY <1>6, <1>8
<1>17. \A r \in Sides : /\ Kid(x, q, r) \in Addr \cup {nil}
                        /\ Kid(x, q, r) \notin {v, a, p, q}
                        /\ Kid(x, v, r) \notin {p, q}
                        /\ Kid(x, q, r) # nil =>
                              /\ Kid(x, q, r) \in UsedIn(x)
                              /\ Up(x, Kid(x, q, r)) = q
                              /\ Kid(x, q, Other(r)) # Kid(x, q, r)
                        /\ \A c \in Sides : Kid(x, q, r) # nil
                                            => Kid(x, v, c) # Kid(x, q, r)
  BY <1>12, <1>14
<1> QED BY <1>1, <1>2, <1>3, <1>5, <1>7, <1>8, <1>9, <1>11, <1>15, <1>16, <1>17
        DEF p, q, s, o

\* Above the root nothing is missing: the victim can be unlinked.
LEMMA DeleteCase1 == IInv /\ delete_case1 => IInv'
<1> SUFFICES ASSUME IInv, delete_case1 PROVE IInv'
  OBVIOUS
<1> PICK below \in [Addr -> SUBSET Addr], h \in [Addr -> Nat] :
         Good(t, pc, n, item, victim, below, h)
  BY DEF IInv
<1>0. pc = "delete_case1" /\ "delete_case1" \in Deletes
  BY DEF delete_case1, Deletes
<1>1. item = <<>> /\ Deleting(t, "delete_case1", n, victim, below, h)
  BY <1>0, Phases
<1>2. /\ Frame(t, below, victim, nil) /\ Heights(t, h, victim, n) /\ RedsApart(t, victim, n)
      /\ Distinct(t) /\ Slim(t, victim) /\ ShortAt(t, below, "delete_case1", n, victim)
      /\ t \in Trees /\ Skeleton(t, below)
      /\ n \in UsedIn(t) /\ n \in Addr /\ n # nil /\ nil \notin Addr
  BY <1>1, DeleteFacts
<1>3. CASE Up(t, n) = nil
  <2>1. t' = t /\ pc' = "unlink" /\ n' = nil /\ item' = item /\ victim' = victim
    BY <1>3, Names DEF delete_case1, Goto
  <2>2. \A a \in UsedIn(t), s \in Sides : Kid(t, a, s) # n
    <3>1. \A a \in UsedIn(t) : a # nil
      BY <1>2 DEF UsedIn
    <3> QED BY <1>2, <1>3, <3>1, KidLaw
  <2>3. Heights(t, h, victim, nil)
    <3>1. \A a \in UsedIn(t), s \in Sides :
             Seen(h, nil, Kid(t, a, s)) = Seen(h, n, Kid(t, a, s))
      BY <2>2 DEF Seen
    <3>2. \A a \in UsedIn(t), s \in Sides :
             Level(t, h, victim, n, a, s) => Level(t, h, victim, nil, a, s)
      BY <3>1, SideLaw DEF Level
    <3> QED BY <1>2, <3>2 DEF Heights
  <2>4. RedsApart(t, victim, nil)
    BY <1>2, <2>2 DEF RedsApart
  <2>5. Unlinking(t, victim, below, h)
    BY <1>2, <2>3, <2>4 DEF Unlinking, Sound
  <2> QED BY <1>1, <2>1, <2>5 DEF IInv, Good
<1>4. CASE Up(t, n) # nil
  <2>1. t' = t /\ pc' = "delete_case2" /\ n' = n /\ item' = item /\ victim' = victim
    BY <1>4, Names DEF delete_case1, Goto
  <2>2. Deleting(t, "delete_case2", n, victim, below, h) /\ "delete_case2" \in Deletes
    BY <1>1, <1>4 DEF Deleting, ShortAt, Deletes
  <2> QED BY <1>1, <2>1, <2>2 DEF IInv, Good
<1> QED BY <1>3, <1>4

\* Parent, sibling and its children are black: the sibling becomes red, and the
\* black node is missing one node higher.
LEMMA DeleteCase3 == IInv /\ delete_case3 => IInv'
<1> SUFFICES ASSUME IInv, delete_case3 PROVE IInv'
  OBVIOUS
<1> PICK below \in [Addr -> SUBSET Addr], h \in [Addr -> Nat] :
         Good(t, pc, n, item, victim, below, h)
  BY DEF IInv
<1>0. pc = "delete_case3" /\ "delete_case3" \in Deletes
  BY DEF delete_case3, Deletes
<1>1. item = <<>> /\ Deleting(t, "delete_case3", n, victim, below, h)
  BY <1>0, Phases
<1> DEFINE v == victim
<1>2. /\ Frame(t, below, v, nil) /\ Heights(t, h, v, n) /\ RedsApart(t, v, n)
      /\ Distinct(t) /\ Slim(t, v) /\ ShortAt(t, below, "delete_case3", n, v)
      /\ t \in Trees /\ Skeleton(t, below)
      /\ n \in UsedIn(t) /\ n \in Addr /\ n # nil /\ nil \notin Addr
      /\ v \in UsedIn(t) /\ v \in Addr /\ v # nil /\ v \in below[n]
  BY <1>1, DeleteFacts
<1> DEFINE p == Up(t, n)  q == SibIn(t, n)  s == SideIn(t, n)  o == Other(s)
<1>3. p # nil /\ ~RedIn(t, q) /\ (n # v => ~RedIn(t, n))
  BY <1>2 DEF ShortAt
<1>4. /\ p \in UsedIn(t) /\ q \in UsedIn(t) /\ p \in Addr /\ q \in Addr
      /\ p # n /\ q # n /\ q # p /\ p # v /\ q # v /\ p # nil /\ q # nil
      /\ s \in Sides /\ o \in Sides /\ Other(o) = s /\ \A r \in Sides : r = s \/ r = o
      /\ Kid(t, p, s) = n /\ Kid(t, p, o) = q /\ Up(t, q) = p
      /\ \A r \in Sides : Kid(t, q, r) \in Addr \cup {nil} /\ Kid(t, q, r) \notin {v, n, p, q}
                          /\ Kid(t, v, r) \notin {p, q}
      /\ h[q] = h[n] + 1
      /\ h[p] = h[q] + (IF t.node[p].color = BLACK THEN 1 ELSE 0)
      /\ t.root # n /\ t.root # q
  BY <1>2, <1>3, ShortLaw
<1>5. /\ sibling(n) = q /\ parent(n) = p
      /\ Near(n) = BLACK <=> ~RedIn(t, Kid(t, q, s))
      /\ Far(n) = BLACK <=> ~RedIn(t, Kid(t, q, o))
      /\ node_color(t, p) = BLACK <=> ~RedIn(t, p)
      /\ node_color(t, q) = BLACK <=> ~RedIn(t, q)
  <2>1. /\ sibling(n) = q /\ parent(n) = p
        /\ Near(n) = node_color(t, Kid(t, q, s)) /\ Far(n) = node_color(t, Kid(t, q, o))
    BY Names DEF Near, Far, Kid
  <2> HIDE DEF p, q, s, o
  <2> QED BY <1>2, <1>4, <2>1, ColorLaw
<1> HIDE DEF p, q, s, o, v
<1>6. CASE node_color(t, p) = BLACK /\ AllBlack(n)
  <2> DEFINE y == Colored(t, q, RED)  f == [h EXCEPT ![p] = @ - 1, ![q] = @ - 1]
  <2>1. t' = y /\ pc' = "delete_case1" /\ n' = p /\ item' = item /\ victim' = v
    BY <1>5, <1>6 DEF delete_case3, Goto, v
  <2>2. ~RedIn(t, p) /\ ~RedIn(t, Kid(t, q, s)) /\ ~RedIn(t, Kid(t, q, o))
    BY <1>5, <1>6 DEF AllBlack
  <2>3. /\ Painted(t, y)
        /\ \A b \in Addr : y.node[b].color = IF b = q THEN RED ELSE t.node[b].color
    BY <1>2, <1>4, ColoredLaw, AddrLaw
  <2> HIDE DEF y
  <2>4. Frame(y, below, v, nil) /\ UsedIn(y) = UsedIn(t) /\ y \in Trees /\ Distinct(y)
    BY <1>2, <2>3, PaintedFrame, DistinctLaw DEF Painted
  <2>5. \A a \in UsedIn(t), r \in Sides :
            /\ Kid(y, a, r) = Kid(t, a, r) /\ Kid(t, a, r) \in Addr \cup {nil} /\ a \in Addr
            /\ Kid(t, a, r) # nil => Up(t, Kid(t, a, r)) = a
    BY <1>2, <2>3, KidLaw, TreeFields DEF Painted, UsedIn
  <2>6. t.node[p].color = BLACK /\ h[n] \in Nat /\ h[q] = h[n] + 1 /\ h[p] = h[n] + 2
    <3>1. t.node[p].color = BLACK
      BY <1>2, <1>4, <2>2, ColorLaw
    <3> QED BY <1>2, <1>4, <3>1
  <2>7. /\ f \in [Addr -> Nat] /\ f[p] = h[n] + 1 /\ f[q] = h[n]
        /\ \A a \in Addr \ {p, q} : f[a] = h[a]
    <3>1. f = [h EXCEPT ![p] = h[p] - 1, ![q] = h[q] - 1]
      BY <1>4
    <3>2. h[p] - 1 = h[n] + 1 /\ h[q] - 1 = h[n]
      BY <2>6
    <3>3. h[n] + 1 \in Nat
      BY <2>6
    <3> HIDE DEF f
    <3> QED BY <1>4, <2>6, <3>1, <3>2, <3>3
  <2>8. /\ \A a \in Addr : RedIn(y, a) <=> IF a = q THEN TRUE ELSE RedIn(t, a)
        /\ ~RedIn(y, nil)
    BY <1>2, <2>3, <2>4, ColorLaw, AddrLaw
  <2> HIDE DEF f
  <2>9. Heights(y, f, v, p)
    <3> SUFFICES ASSUME NEW a \in UsedIn(t) PROVE Level(y, f, v, p, a, s)
      BY <1>4, <2>4, <2>7, HeightsLaw
    <3>1. Level(t, h, v, n, a, s) /\ a \in Addr
      BY <1>2, <1>4, <2>5 DEF Heights
    <3>2. /\ Kid(y, a, s) = Kid(t, a, s) /\ Kid(t, a, s) \in Addr \cup {nil}
          /\ Kid(y, a, o) = Kid(t, a, o) /\ Kid(t, a, o) \in Addr \cup {nil}
      BY <1>4, <2>5
    <3>3. CASE a = p
      <4>1. Seen(f, p, n) = h[n] /\ Seen(f, p, q) = h[n]
        BY <1>2, <1>4, <2>7 DEF Seen
      <4>2. y.node[p].color = BLACK
        BY <1>4, <2>3, <2>6
      <4> QED BY <1>4, <2>6, <2>7, <3>2, <3>3, <4>1, <4>2 DEF Level, o
    <3>4. CASE a # p
      <4>1. \A r \in Sides : Kid(t, a, r) \notin {n, q}
        BY <1>2, <1>4, <2>5, <3>4 DEF p
      <4>2. \A r \in Sides : Seen(f, p, Kid(y, a, r)) = Seen(h, n, Kid(t, a, r))
                             /\ Seen(h, n, Kid(t, a, r)) \in Nat
        <5> SUFFICES ASSUME NEW r \in Sides
                     PROVE  Seen(f, p, Kid(y, a, r)) = Seen(h, n, Kid(t, a, r))
                            /\ Seen(h, n, Kid(t, a, r)) \in Nat
          OBVIOUS
        <5>1. Kid(y, a, r) = Kid(t, a, r) /\ Kid(t, a, r) \notin {n, q}
              /\ Kid(t, a, r) \in Addr \cup {nil}
          BY <2>5, <4>1
        <5>2. CASE Kid(t, a, r) = p
          <6>1. Seen(f, p, p) = f[p] + 1 /\ Seen(h, n, p) = h[p] + 0
            BY <1>4 DEF Seen
          <6> QED BY <2>6, <2>7, <5>1, <5>2, <6>1
        <5>3. CASE Kid(t, a, r) # p
          BY <2>7, <5>1, <5>3 DEF Seen
        <5> QED BY <5>2, <5>3
      <4>3. CASE a = q
        <5>1. y.node[q].color # BLACK /\ t.node[q].color = BLACK
          BY <1>2, <1>3, <1>4, <2>3, ColorLaw, AddrLaw
        <5> QED BY <1>4, <2>6, <2>7, <3>1, <4>2, <4>3, <5>1 DEF Level, o
      <4>4. CASE a # q
        <5>1. y.node[a].color = t.node[a].color /\ f[a] = h[a]
          BY <2>3, <2>7, <3>1, <3>4, <4>4
        <5> QED BY <1>4, <3>1, <4>2, <5>1 DEF Level, o
      <4> QED BY <4>3, <4>4
    <3> QED BY <3>3, <3>4
  <2>10. RedsApart(y, v, p)
    <3> SUFFICES ASSUME NEW a \in UsedIn(t), NEW r \in Sides, a # v, RedIn(y, a),
                        Kid(t, a, r) # p, RedIn(y, Kid(t, a, r))
                 PROVE  FALSE
      BY <2>4, <2>5 DEF RedsApart
    <3>1. a # q
      <4>1. \A c \in Sides : ~RedIn(y, Kid(t, q, c))
        BY <1>4, <2>2, <2>8
      <4> QED BY <4>1
    <3>2. RedIn(t, a)
      BY <2>5, <2>8, <3>1
    <3>3. Kid(t, a, r) # q /\ Kid(t, a, r) # n
      BY <1>2, <1>4, <2>2, <2>5, <3>2 DEF p
    <3>4. RedIn(t, Kid(t, a, r))
      BY <2>5, <2>8, <3>3
    <3> QED BY <1>2, <3>2, <3>3, <3>4 DEF RedsApart
  <2>11. Slim(y, v)
    <3>1. y.root = t.root /\ t.root \in Addr \cup {nil}
      BY <1>2, <2>3, TreeFields DEF Painted
    <3>2. RedIn(y, y.root) => y.root = v
      BY <1>2, <1>4, <2>8, <3>1 DEF Slim
    <3>3. \A r \in Sides : /\ Kid(y, v, r) = Kid(t, v, r)
                           /\ RedIn(y, Kid(y, v, r)) => RedIn(t, Kid(t, v, r))
      BY <1>2, <1>4, <2>5, <2>8
    <3> QED BY <1>2, <1>4, <2>4, <2>8, <3>2, <3>3 DEF Slim
  <2>12. ShortAt(y, below, "delete_case1", p, v)
    <3>1. v \in below[p]
      <4>1. n # nil /\ Kid(t, p, s) # nil
        BY <1>2, <1>4
      <4> QED BY <1>2, <1>4, <4>1, KidLaw
    <3> QED BY <1>4, <2>2, <2>4, <2>8, <3>1 DEF ShortAt
  <2>13. Deleting(y, "delete_case1", p, v, below, f) /\ "delete_case1" \in Deletes
    BY <2>4, <2>9, <2>10, <2>11, <2>12 DEF Deleting, Sound, Deletes
  <2> QED BY <1>1, <2>1, <2>7, <2>13 DEF IInv, Good
<1>7. CASE ~(node_color(t, p) = BLACK /\ AllBlack(n))
  <2>1. t' = t /\ pc' = "delete_case4" /\ n' = n /\ item' = item /\ victim' = v
    BY <1>5, <1>7 DEF delete_case3, Goto, v
  <2>2. RedIn(t, p) \/ \E r \in Sides : RedIn(t, Kid(t, q, r))
    BY <1>3, <1>4, <1>5, <1>7 DEF AllBlack
  <2>3. Deleting(t, "delete_case4", n, v, below, h) /\ "delete_case4" \in Deletes
    BY <1>1, <1>3, <2>2 DEF Deleting, ShortAt, Deletes, p, q, v
  <2> QED BY <1>1, <2>1, <2>3 DEF IInv, Good
<1> QED BY <1>6, <1>7

\* The parent is red: parent and sibling exchange their colors.
LEMMA DeleteCase4 == IInv /\ delete_case4 => IInv'
<1> SUFFICES ASSUME IInv, delete_case4 PROVE IInv'
  OBVIOUS
<1> PICK below \in [Addr -> SUBSET Addr], h \in [Addr -> Nat] :
         Good(t, pc, n, item, victim, below, h)
  BY DEF IInv
<1>0. pc = "delete_case4" /\ "delete_case4" \in Deletes
  BY DEF delete_case4, Deletes
<1>1. item = <<>> /\ Deleting(t, "delete_case4", n, victim, below, h)
  BY <1>0, Phases
<1> DEFINE v == victim
<1>2. /\ Frame(t, below, v, nil) /\ Heights(t, h, v, n) /\ RedsApart(t, v, n)
      /\ Distinct(t) /\ Slim(t, v) /\ ShortAt(t, below, "delete_case4", n, v)
      /\ t \in Trees /\ Skeleton(t, below)
      /\ n \in UsedIn(t) /\ n \in Addr /\ n # nil /\ nil \notin Addr
      /\ v \in UsedIn(t) /\ v \in Addr /\ v # nil /\ v \in below[n]
  BY <1>1, DeleteFacts
<1> DEFINE p == Up(t, n)  q == SibIn(t, n)  s == SideIn(t, n)  o == Other(s)
<1>3. p # nil /\ (n # v => ~RedIn(t, n)) /\ ~RedIn(t, q)
      /\ (RedIn(t, p) \/ \E r \in Sides : RedIn(t, Kid(t, q, r)))
  BY <1>2 DEF ShortAt
<1>4. /\ p \in UsedIn(t) /\ q \in UsedIn(t) /\ p \in Addr /\ q \in Addr
      /\ p # n /\ q # n /\ q # p /\ p # v /\ q # v /\ p # nil /\ q # nil
      /\ s \in Sides /\ o \in Sides /\ Other(o) = s /\ \A r \in Sides : r = s \/ r = o
      /\ Kid(t, p, s) = n /\ Kid(t, p, o) = q /\ Up(t, q) = p /\ Up(t, p) # q
      /\ \A r \in Sides : /\ Kid(t, q, r) \in Addr \cup {nil}
                          /\ Kid(t, q, r) \notin {v, n, p, q}
                          /\ Kid(t, v, r) \notin {p, q}
                          /\ Kid(t, q, r) # nil =>
                                /\ Kid(t, q, r) \in UsedIn(t)
                                /\ Up(t, Kid(t, q, r)) = q
                                /\ Kid(t, q, Other(r)) # Kid(t, q, r)
                          /\ \A c \in Sides : Kid(t, q, r) # nil
                                              => Kid(t, v, c) # Kid(t, q, r)
      /\ h[q] = h[n] + 1
      /\ h[p] = h[q] + (IF t.node[p].color = BLACK THEN 1 ELSE 0)
      /\ t.root # n /\ t.root # q
  BY <1>2, <1>3, ShortLaw
<1>5. /\ sibling(n) = q /\ parent(n) = p /\ SideOf(n) = s
      /\ Near(n) = BLACK <=> ~RedIn(t, Kid(t, q, s))
      /\ Far(n) = BLACK <=> ~RedIn(t, Kid(t, q, o))
      /\ node_color(t, p) = BLACK <=> ~RedIn(t, p)
      /\ node_color(t, q) = BLACK <=> ~RedIn(t, q)
      /\ node_color(t, p) = RED <=> RedIn(t, p)
      /\ node_color(t, q) = RED <=> RedIn(t, q)
      /\ Near(n) = RED <=> RedIn(t, Kid(t, q, s))
  <2>1. /\ sibling(n) = q /\ parent(n) = p /\ SideOf(n) = s
        /\ Near(n) = node_color(t, Kid(t, q, s)) /\ Far(n) = node_color(t, Kid(t, q, o))
    BY Names DEF Near, Far, Kid
  <2> HIDE DEF p, q, s, o
  <2> QED BY <1>2, <1>4, <2>1, ColorLaw DEF RedIn
<1>6. \A a \in UsedIn(t), r \in Sides :
         /\ Kid(t, a, r) \in Addr \cup {nil} /\ a \in Addr
         /\ Kid(t, a, r) # nil => Up(t, Kid(t, a, r)) = a
  BY <1>2, KidLaw, TreeFields DEF UsedIn
<1>7. /\ t.root \in Addr \cup {nil} /\ (RedIn(t, t.root) => t.root = v)
      /\ \E r \in Sides : Kid(t, v, r) = nil
      /\ \A r \in Sides : RedIn(t, Kid(t, v, r)) => RedIn(t, v)
  BY <1>2, TreeFields DEF Slim
<1>8. \A a \in UsedIn(t), r \in Sides :
         a # v /\ RedIn(t, a) /\ Kid(t, a, r) # n => ~RedIn(t, Kid(t, a, r))
  BY <1>2 DEF RedsApart
<1> HIDE DEF p, q, s, o, v
<1>9. CASE node_color(t, p) = RED /\ AllBlack(n)
  <2> DEFINE y1 == Colored(t, q, RED)  y == Colored(y1, p, BLACK)  f == [h EXCEPT ![q] = @ - 1]
  <2>1. t' = y /\ pc' = "unlink" /\ n' = nil /\ item' = item /\ victim' = v
    BY <1>5, <1>9 DEF delete_case4, Goto, v
  <2>2. RedIn(t, p) /\ ~RedIn(t, Kid(t, q, s)) /\ ~RedIn(t, Kid(t, q, o))
    BY <1>5, <1>9 DEF AllBlack
  <2>3. /\ Painted(t, y1)
        /\ \A b \in Addr : y1.node[b].color = IF b = q THEN RED ELSE t.node[b].color
    BY <1>2, <1>4, ColoredLaw, AddrLaw
  <2>4. UsedIn(y1) = UsedIn(t) /\ y1 \in Trees
    BY <2>3, DistinctLaw DEF Painted
  <2> HIDE DEF y1
  <2>5. /\ Painted(y1, y)
        /\ \A b \in Addr : y.node[b].color = IF b = p THEN BLACK ELSE y1.node[b].color
    BY <1>4, <2>4, ColoredLaw, AddrLaw
  <2> HIDE DEF y
  <2>6. /\ Painted(t, y)
        /\ \A b \in Addr : y.node[b].color = IF b = p THEN BLACK ELSE IF b = q THEN RED
                                             ELSE t.node[b].color
    BY <2>3, <2>5, PaintedTwice
  <2>7. Frame(y, below, v, nil) /\ UsedIn(y) = UsedIn(t) /\ y \in Trees /\ Distinct(y)
    BY <1>2, <2>6, PaintedFrame, DistinctLaw DEF Painted
  <2>8. \A a \in UsedIn(t), r \in Sides : Kid(y, a, r) = Kid(t, a, r)
    BY <1>6, <2>6 DEF Painted
  <2>9. h[n] \in Nat /\ h[q] = h[n] + 1 /\ h[p] = h[n] + 1
    <3>1. t.node[p].color # BLACK
      BY <1>2, <1>4, <2>2, ColorLaw, AddrLaw
    <3> QED BY <1>2, <1>4, <3>1
  <2>10. /\ f \in [Addr -> Nat] /\ f[q] = h[n]
         /\ \A a \in Addr \ {q} : f[a] = h[a]
    <3>1. h[q] - 1 = h[n]
      BY <2>9
    <3> QED BY <1>4, <2>9, <3>1
  <2>11. /\ \A a \in Addr : RedIn(y, a) <=> IF a = p THEN FALSE ELSE IF a = q THEN TRUE
                                            ELSE RedIn(t, a)
         /\ ~RedIn(y, nil)
    BY <1>2, <2>6, <2>7, ColorLaw, AddrLaw
  <2> HIDE DEF f
  <2>12. Heights(y, f, v, nil)
    <3> SUFFICES ASSUME NEW a \in UsedIn(t) PROVE Level(y, f, v, nil, a, s)
      BY <1>4, <2>7, <2>10, HeightsLaw
    <3>1. Level(t, h, v, n, a, s) /\ a \in Addr
      BY <1>2, <1>4, <1>6 DEF Heights
    <3>2. /\ Kid(y, a, s) = Kid(t, a, s) /\ Kid(t, a, s) \in Addr \cup {nil}
          /\ Kid(y, a, o) = Kid(t, a, o) /\ Kid(t, a, o) \in Addr \cup {nil}
      BY <1>4, <1>6, <2>8
    <3>3. CASE a = p
      <4>1. Seen(f, nil, n) = h[n] /\ Seen(f, nil, q) = h[n]
        BY <1>2, <1>4, <2>9, <2>10 DEF Seen
      <4>2. y.node[p].color = BLACK /\ f[p] = h[n] + 1
        BY <1>4, <2>6, <2>9, <2>10
      <4> QED BY <1>4, <2>9, <3>2, <3>3, <4>1, <4>2 DEF Level, o
    <3>4. CASE a # p
      <4>1. \A r \in Sides : Kid(t, a, r) \notin {n, q}
        BY <1>2, <1>4, <1>6, <3>4 DEF p
      <4>2. \A r \in Sides : Seen(f, nil, Kid(y, a, r)) = Seen(h, n, Kid(t, a, r))
                             /\ Seen(h, n, Kid(t, a, r)) \in Nat
        BY <1>2, <1>6, <2>8, <2>10, <4>1 DEF Seen
      <4>3. CASE a = q
        <5>1. y.node[q].color # BLACK /\ t.node[q].color = BLACK
          BY <1>2, <1>3, <1>4, <2>6, ColorLaw, AddrLaw
        <5> QED BY <1>4, <2>9, <2>10, <3>1, <4>2, <4>3, <5>1 DEF Level, o
      <4>4. CASE a # q
        <5>1. y.node[a].color = t.node[a].color /\ f[a] = h[a]
          BY <2>6, <2>10, <3>1, <3>4, <4>4
        <5> QED BY <1>4, <3>1, <4>2, <5>1 DEF Level, o
      <4> QED BY <4>3, <4>4
    <3> QED BY <3>3, <3>4
  <2>13. RedsApart(y, v, nil)
    <3> SUFFICES ASSUME NEW a \in UsedIn(t), NEW r \in Sides, a # v, RedIn(y, a),
                        RedIn(y, Kid(t, a, r))
                 PROVE  FALSE
      BY <2>7, <2>8 DEF RedsApart
    <3>1. a # q
      <4>1. \A c \in Sides : ~RedIn(y, Kid(t, q, c))
        BY <1>4, <2>2, <2>11
      <4> QED BY <4>1
    <3>2. RedIn(t, a) /\ a # p
      BY <1>6, <2>11, <3>1
    <3>3. Kid(t, a, r) # q /\ Kid(t, a, r) # n
      BY <1>2, <1>4, <1>6, <3>2 DEF p
    <3>4. RedIn(t, Kid(t, a, r))
      BY <1>6, <2>11, <3>3
    <3> QED BY <1>8, <3>2, <3>3, <3>4
  <2>14. Slim(y, v)
    <3>1. y.root = t.root
      BY <2>6 DEF Painted
    <3>2. RedIn(y, y.root) => y.root = v
      BY <1>4, <1>7, <2>11, <3>1
    <3>3. \A r \in Sides : /\ Kid(y, v, r) = Kid(t, v, r)
                           /\ RedIn(y, Kid(y, v, r)) => RedIn(t, Kid(t, v, r))
      BY <1>2, <1>4, <1>6, <2>8, <2>11
    <3> QED BY <1>2, <1>4, <1>7, <2>7, <2>11, <3>2, <3>3 DEF Slim
  <2>15. Unlinking(y, v, below, f)
    BY <2>7, <2>12, <2>13, <2>14 DEF Unlinking, Sound
  <2> QED BY <1>1, <2>1, <2>10, <2>15 DEF IInv, Good
<1>10. CASE ~(node_color(t, p) = RED /\ AllBlack(n))
  <2>1. t' = t /\ pc' = "delete_case5" /\ n' = n /\ item' = item /\ victim' = v
    BY <1>5, <1>10 DEF delete_case4, Goto, v
  <2>2. \E r \in Sides : RedIn(t, Kid(t, q, r))
    BY <1>3, <1>4, <1>5, <1>10 DEF AllBlack
  <2>3. Deleting(t, "delete_case5", n, v, below, h) /\ "delete_case5" \in Deletes
    BY <1>1, <1>3, <2>2 DEF Deleting, ShortAt, Deletes, p, q, v
  <2> QED BY <1>1, <2>1, <2>3 DEF IInv, Good
<1> QED BY <1>9, <1>10

\* A red sibling is rotated up, which gives the node a black one.
LEMMA DeleteCase2 == IInv /\ delete_case2 => IInv'
<1> SUFFICES ASSUME IInv, delete_case2 PROVE IInv'
  OBVIOUS
<1> PICK below \in [Addr -> SUBSET Addr], h \in [Addr -> Nat] :
         Good(t, pc, n, item, victim, below, h)
  BY DEF IInv
<1>0. pc = "delete_case2" /\ "delete_case2" \in Deletes
  BY DEF delete_case2, Deletes
<1>1. item = <<>> /\ Deleting(t, "delete_case2", n, victim, below, h)
  BY <1>0, Phases
<1> DEFINE v == victim
<1>2. /\ Frame(t, below, v, nil) /\ Heights(t, h, v, n) /\ RedsApart(t, v, n)
      /\ Distinct(t) /\ Slim(t, v) /\ ShortAt(t, below, "delete_case2", n, v)
      /\ t \in Trees /\ Skeleton(t, below)
      /\ n \in UsedIn(t) /\ n \in Addr /\ n # nil /\ nil \notin Addr
      /\ v \in UsedIn(t) /\ v \in Addr /\ v # nil /\ v \in below[n]
  BY <1>1, DeleteFacts
<1> DEFINE p == Up(t, n)  q == SibIn(t, n)  s == SideIn(t, n)  o == Other(s)
<1>3. p # nil /\ (n # v => ~RedIn(t, n))
  BY <1>2 DEF ShortAt
<1>4. /\ p \in UsedIn(t) /\ q \in UsedIn(t) /\ p \in Addr /\ q \in Addr
      /\ p # n /\ q # n /\ q # p /\ p # v /\ q # v /\ p # nil /\ q # nil
      /\ s \in Sides /\ o \in Sides /\ Other(o) = s /\ \A r \in Sides : r = s \/ r = o
      /\ Kid(t, p, s) = n /\ Kid(t, p, o) = q /\ Up(t, q) = p /\ Up(t, p) # q
      /\ \A r \in Sides : /\ Kid(t, q, r) \in Addr \cup {nil}
                          /\ Kid(t, q, r) \notin {v, n, p, q}
                          /\ Kid(t, v, r) \notin {p, q}
                          /\ Kid(t, q, r) # nil =>
                                /\ Kid(t, q, r) \in UsedIn(t)
                                /\ Up(t, Kid(t, q, r)) = q
                                /\ Kid(t, q, Other(r)) # Kid(t, q, r)
                          /\ \A c \in Sides : Kid(t, q, r) # nil
                                              => Kid(t, v, c) # Kid(t, q, r)
      /\ h[q] = h[n] + 1
      /\ h[p] = h[q] + (IF t.node[p].color = BLACK THEN 1 ELSE 0)
      /\ t.root # n /\ t.root # q
  BY <1>2, <1>3, ShortLaw
<1>5. /\ sibling(n) = q /\ parent(n) = p /\ SideOf(n) = s
      /\ Near(n) = BLACK <=> ~RedIn(t, Kid(t, q, s))
      /\ Far(n) = BLACK <=> ~RedIn(t, Kid(t, q, o))
      /\ node_color(t, p) = BLACK <=> ~RedIn(t, p)
      /\ node_color(t, q) = BLACK <=> ~RedIn(t, q)
      /\ node_color(t, p) = RED <=> RedIn(t, p)
      /\ node_color(t, q) = RED <=> RedIn(t, q)
      /\ Near(n) = RED <=> RedIn(t, Kid(t, q, s))
  <2>1. /\ sibling(n) = q /\ parent(n) = p /\ SideOf(n) = s
        /\ Near(n) = node_color(t, Kid(t, q, s)) /\ Far(n) = node_color(t, Kid(t, q, o))
    BY Names DEF Near, Far, Kid
  <2> HIDE DEF p, q, s, o
  <2> QED BY <1>2, <1>4, <2>1, ColorLaw DEF RedIn
<1>6. \A a \in UsedIn(t), r \in Sides :
         /\ Kid(t, a, r) \in Addr \cup {nil} /\ a \in Addr
         /\ Kid(t, a, r) # nil => Up(t, Kid(t, a, r)) = a
  BY <1>2, KidLaw, TreeFields DEF UsedIn
<1>7. /\ t.root \in Addr \cup {nil} /\ (RedIn(t, t.root) => t.root = v)
      /\ \E r \in Sides : Kid(t, v, r) = nil
      /\ \A r \in Sides : RedIn(t, Kid(t, v, r)) => RedIn(t, v)
  BY <1>2, TreeFields DEF Slim
<1>8. \A a \in UsedIn(t), r \in Sides :
         a # v /\ RedIn(t, a) /\ Kid(t, a, r) # n => ~RedIn(t, Kid(t, a, r))
  BY <1>2 DEF RedsApart
<1> HIDE DEF p, q, s, o, v
<1>9. CASE RedIn(t, q)
  <2> DEFINE c == Kid(t, q, s)  e == Kid(t, q, o)
             y1 == Colored(t, p, RED)  x == Colored(y1, q, BLACK)  y == rotate(x, p, s)
             new == Turn(x, below, p, s)  f == [h EXCEPT ![p] = h[q], ![q] = h[p]]
  <2>1. t' = y /\ pc' = "delete_case3" /\ n' = n /\ item' = item /\ victim' = v
    BY <1>5, <1>9 DEF delete_case2, Goto, v
  <2>2. ~RedIn(t, p) /\ ~RedIn(t, c) /\ ~RedIn(t, e)
    BY <1>4, <1>8, <1>9
  <2>3. c \in Addr \cup {nil} /\ c \notin {n, p, q} /\ e \in Addr \cup {nil} /\ e \notin {n, p, q}
    BY <1>4
  <2> HIDE DEF c, e
  <2>4. /\ Painted(t, y1)
        /\ \A b \in Addr : y1.node[b].color = IF b = p THEN RED ELSE t.node[b].color
    BY <1>2, <1>4, ColoredLaw, AddrLaw
  <2>5. UsedIn(y1) = UsedIn(t) /\ y1 \in Trees
    BY <2>4, DistinctLaw DEF Painted
  <2> HIDE DEF y1
  <2>6. /\ Painted(y1, x)
        /\ \A b \in Addr : x.node[b].color = IF b = q THEN BLACK ELSE y1.node[b].color
    BY <1>4, <2>5, ColoredLaw, AddrLaw
  <2> HIDE DEF x
  <2>7. /\ Painted(t, x)
        /\ \A b \in Addr : x.node[b].color = IF b = q THEN BLACK ELSE IF b = p THEN RED
                                             ELSE t.node[b].color
    BY <2>4, <2>6, PaintedTwice
  <2>8. Frame(x, below, v, nil) /\ UsedIn(x) = UsedIn(t) /\ x \in Trees /\ Skeleton(x, below)
        /\ Distinct(x)
    BY <1>2, <2>7, PaintedFrame, DistinctLaw DEF Painted, Frame
  <2>9. /\ \A a \in UsedIn(t), r \in Sides : Kid(x, a, r) = Kid(t, a, r)
        /\ \A a \in Addr : Up(x, a) = Up(t, a)
        /\ x.root = t.root
    BY <1>6, <2>7 DEF Painted
  <2>10. /\ \A a \in Addr : RedIn(x, a) <=> IF a = q THEN FALSE ELSE IF a = p THEN TRUE
                                            ELSE RedIn(t, a)
         /\ ~RedIn(x, nil) /\ ~RedIn(t, nil)
    BY <1>2, <2>7, <2>8, ColorLaw, AddrLaw
  <2>11. Kid(x, p, Other(s)) = q
    BY <1>4, <2>9 DEF o
  <2>12. Rotated(x, y, p, s) /\ Frame(y, new, v, nil)
    BY <1>2, <1>4, <2>8, <2>11, RotateFrame
  <2> HIDE DEF y
  <2>13. Turned(x, y, p, s)
    BY <1>4, <2>8, <2>11, <2>12, RotateKids
  <2>14. /\ UsedIn(y) = UsedIn(t) /\ y \in Trees
         /\ Kid(y, p, s) = n /\ Kid(y, p, o) = c /\ Kid(y, q, s) = p /\ Kid(y, q, o) = e
         /\ \A a \in Addr : y.node[a].color = x.node[a].color /\ y.node[a].ids = x.node[a].ids
         /\ \A a \in Addr \cup {nil} : RedIn(y, a) <=> RedIn(x, a)
         /\ y.root = IF t.root = p THEN q ELSE t.root
    BY <1>4, <2>8, <2>9, <2>11, <2>13 DEF Turned, o, c, e
  <2>15. \A r \in Sides : Kid(y, v, r) = Kid(t, v, r)
    BY <1>2, <1>4, <2>8, <2>9, <2>11, <2>13 DEF Turned
  <2>16. /\ new \in [Addr -> SUBSET Addr] /\ Skeleton(y, new) /\ new[n] = below[n]
    <3>1. new[n] = below[n]
      BY <1>2, <1>4, <2>11 DEF Turn
    <3> QED BY <2>12, <3>1 DEF Frame, Skeleton, Spans
  <2>17. /\ f \in [Addr -> Nat] /\ f[p] = h[q] /\ f[q] = h[p]
         /\ \A a \in Addr \ {p, q} : f[a] = h[a]
    BY <1>2, <1>4
  <2>18. /\ Up(y, n) = p /\ SibIn(y, n) = c
    BY <1>2, <1>4, <2>14, <2>16, KidIs DEF o
  <2> HIDE DEF new, f
  <2>19. Heights(y, f, v, n)
    <3>1. \A a \in UsedIn(t) : Level(t, h, v, n, a, s)
      BY <1>2, <1>4 DEF Heights
    <3>2. \A a \in UsedIn(t) \ {p, q} : Level(x, h, v, n, a, s)
      <4> SUFFICES ASSUME NEW a \in UsedIn(t) \ {p, q} PROVE Level(x, h, v, n, a, s)
        OBVIOUS
      <4>1. Kid(x, a, s) = Kid(t, a, s) /\ Kid(x, a, Other(s)) = Kid(t, a, Other(s))
        BY <1>4, <2>9 DEF o
      <4>2. x.node[a].color = t.node[a].color
        BY <1>4, <1>6, <2>7
      <4> QED BY <3>1, <4>1, <4>2 DEF Level
    <3>3. /\ t.node[q].color # BLACK /\ t.node[p].color = BLACK
          /\ y.node[p].color # BLACK /\ y.node[q].color = BLACK
      BY <1>2, <1>4, <1>9, <2>2, <2>7, <2>14, ColorLaw, AddrLaw
    <3>4. /\ Seen(f, n, n) = h[n] + 1 /\ Seen(f, n, p) = f[p] /\ f[p] = h[q]
          /\ Seen(f, n, c) = Seen(h, n, c) /\ Seen(f, n, e) = Seen(h, n, e)
          /\ h[n] \in Nat /\ h[p] \in Nat /\ h[q] \in Nat
          /\ Seen(h, n, c) \in Nat /\ Seen(h, n, e) \in Nat
      BY <1>2, <1>4, <2>3, <2>17 DEF Seen
    <3>5. Seen(h, n, c) = h[q] /\ Seen(h, n, e) = h[q] /\ h[p] = h[q] + 1 /\ h[q] = h[n] + 1
      BY <1>4, <3>1, <3>3, <3>4 DEF Level, o, c, e
    <3>6. Level(y, f, v, n, p, s)
      BY <1>4, <2>14, <2>17, <3>3, <3>4, <3>5 DEF Level, o
    <3>7. Level(y, f, v, n, q, s)
      BY <1>4, <2>14, <2>17, <3>3, <3>4, <3>5 DEF Level, o
    <3> QED BY <1>2, <1>4, <2>8, <2>11, <2>13, <2>17, <3>2, <3>6, <3>7, RotateHeights
  <2>20. RedsApart(y, v, n)
    <3>1. \A a \in UsedIn(t) \ {p, q} : \A r \in Sides :
             a # v /\ RedIn(x, a) /\ Kid(x, a, r) \notin {n, p} => ~RedIn(x, Kid(x, a, r))
      <4> SUFFICES ASSUME NEW a \in UsedIn(t) \ {p, q}, NEW r \in Sides, a # v, RedIn(x, a),
                          Kid(x, a, r) \notin {n, p}
                   PROVE  ~RedIn(x, Kid(x, a, r))
        OBVIOUS
      <4>1. RedIn(t, a) /\ Kid(x, a, r) = Kid(t, a, r) /\ Kid(t, a, r) \in Addr \cup {nil}
        BY <1>6, <2>9, <2>10
      <4>2. ~RedIn(t, Kid(t, a, r))
        BY <1>8, <4>1
      <4> QED BY <2>10, <4>1, <4>2
    <3>2. \A a \in UsedIn(t) \ {v} : Up(x, p) = a /\ RedIn(x, a) => ~RedIn(x, q) \/ q = n
      BY <1>4, <2>10
    <3>3. \A a \in {p, q} : \A r \in Sides :
             a # v /\ RedIn(x, a) /\ Kid(y, a, r) # n => ~RedIn(x, Kid(y, a, r))
      <4>1. ~RedIn(x, q) /\ ~RedIn(x, c)
        BY <1>4, <2>2, <2>3, <2>10
      <4> QED BY <1>4, <2>14, <4>1
    <3> QED BY <1>4, <2>8, <2>11, <2>13, <3>1, <3>2, <3>3, RotateReds
  <2>21. Slim(y, v)
    <3>1. RedIn(y, y.root) => y.root = v
      BY <1>4, <1>7, <2>10, <2>14
    <3>2. \A r \in Sides : RedIn(y, Kid(y, v, r)) => RedIn(t, Kid(t, v, r))
      BY <1>2, <1>4, <1>6, <2>10, <2>14, <2>15
    <3>3. RedIn(t, v) => RedIn(y, v)
      BY <1>2, <1>4, <2>10, <2>14
    <3> QED BY <1>2, <1>7, <2>14, <2>15, <3>1, <3>2, <3>3 DEF Slim
  <2>22. ShortAt(y, new, "delete_case3", n, v)
    <3>1. /\ n # v => ~RedIn(y, n)
          /\ ~RedIn(y, c)
      BY <1>2, <1>3, <1>4, <2>2, <2>3, <2>10, <2>14
    <3> QED BY <1>2, <1>4, <2>14, <2>16, <2>18, <3>1 DEF ShortAt
  <2>23. Deleting(y, "delete_case3", n, v, new, f) /\ "delete_case3" \in Deletes
    <3>1. Distinct(y)
      BY <2>8, <2>14, DistinctLaw
    <3> QED BY <2>12, <2>19, <2>20, <2>21, <2>22, <3>1 DEF Deleting, Sound, Deletes
  <2> QED BY <1>1, <2>1, <2>16, <2>17, <2>23 DEF IInv, Good
<1>10. CASE ~RedIn(t, q)
  <2>1. t' = t /\ pc' = "delete_case3" /\ n' = n /\ item' = item /\ victim' = v
    BY <1>5, <1>10 DEF delete_case2, Goto, v
  <2>2. Deleting(t, "delete_case3", n, v, below, h) /\ "delete_case3" \in Deletes
    BY <1>1, <1>3, <1>10 DEF Deleting, ShortAt, Deletes, p, q, v
  <2> QED BY <1>1, <2>1, <2>2 DEF IInv, Good
<1> QED BY <1>9, <1>10

\* The near child of the sibling is red and the far one is not: a rotation makes
\* the far one red.
LEMMA DeleteCase5 == IInv /\ delete_case5 => IInv'
<1> SUFFICES ASSUME IInv, delete_case5 PROVE IInv'
  OBVIOUS
<1> PICK below \in [Addr -> SUBSET Addr], h \in [Addr -> Nat] :
         Good(t, pc, n, item, victim, below, h)
  BY DEF IInv
<1>0. pc = "delete_case5" /\ "delete_case5" \in Deletes
  BY DEF delete_case5, Deletes
<1>1. item = <<>> /\ Deleting(t, "delete_case5", n, victim, below, h)
  BY <1>0, Phases
<1> DEFINE v == victim
<1>2. /\ Frame(t, below, v, nil) /\ Heights(t, h, v, n) /\ RedsApart(t, v, n)
      /\ Distinct(t) /\ Slim(t, v) /\ ShortAt(t, below, "delete_case5", n, v)
      /\ t \in Trees /\ Skeleton(t, below)
      /\ n \in UsedIn(t) /\ n \in Addr /\ n # nil /\ nil \notin Addr
      /\ v \in UsedIn(t) /\ v \in Addr /\ v # nil /\ v \in below[n]
  BY <1>1, DeleteFacts
<1> DEFINE p == Up(t, n)  q == SibIn(t, n)  s == SideIn(t, n)  o == Other(s)
<1>3. p # nil /\ (n # v => ~RedIn(t, n)) /\ ~RedIn(t, q)
      /\ \E r \in Sides : RedIn(t, Kid(t, q, r))
  BY <1>2 DEF ShortAt
<1>4. /\ p \in UsedIn(t) /\ q \in UsedIn(t) /\ p \in Addr /\ q \in Addr
      /\ p # n /\ q # n /\ q # p /\ p # v /\ q # v /\ p # nil /\ q # nil
      /\ s \in Sides /\ o \in Sides /\ Other(o) = s /\ \A r \in Sides : r = s \/ r = o
      /\ Kid(t, p, s) = n /\ Kid(t, p, o) = q /\ Up(t, q) = p /\ Up(t, p) # q
      /\ \A r \in Sides : /\ Kid(t, q, r) \in Addr \cup {nil}
                          /\ Kid(t, q, r) \notin {v, n, p, q}
                          /\ Kid(t, v, r) \notin {p, q}
                          /\ Kid(t, q, r) # nil =>
                                /\ Kid(t, q, r) \in UsedIn(t)
                                /\ Up(t, Kid(t, q, r)) = q
                                /\ Kid(t, q, Other(r)) # Kid(t, q, r)
                          /\ \A c \in Sides : Kid(t, q, r) # nil
                                              => Kid(t, v, c) # Kid(t, q, r)
      /\ h[q] = h[n] + 1
      /\ h[p] = h[q] + (IF t.node[p].color = BLACK THEN 1 ELSE 0)
      /\ t.root # n /\ t.root # q
  BY <1>2, <1>3, ShortLaw
<1>5. /\ sibling(n) = q /\ parent(n) = p /\ SideOf(n) = s
      /\ Near(n) = BLACK <=> ~RedIn(t, Kid(t, q, s))
      /\ Far(n) = BLACK <=> ~RedIn(t, Kid(t, q, o))
      /\ node_color(t, p) = BLACK <=> ~RedIn(t, p)
      /\ node_color(t, q) = BLACK <=> ~RedIn(t, q)
      /\ node_color(t, p) = RED <=> RedIn(t, p)
      /\ node_color(t, q) = RED <=> RedIn(t, q)
      /\ Near(n) = RED <=> RedIn(t, Kid(t, q, s))
  <2>1. /\ sibling(n) = q /\ parent(n) = p /\ SideOf(n) = s
        /\ Near(n) = node_color(t, Kid(t, q, s)) /\ Far(n) = node_color(t, Kid(t, q, o))
    BY Names DEF Near, Far, Kid
  <2> HIDE DEF p, q, s, o
  <2> QED BY <1>2, <1>4, <2>1, ColorLaw DEF RedIn
<1>6. \A a \in UsedIn(t), r \in Sides :
         /\ Kid(t, a, r) \in Addr \cup {nil} /\ a \in Addr
         /\ Kid(t, a, r) # nil => Up(t, Kid(t, a, r)) = a
  BY <1>2, KidLaw, TreeFields DEF UsedIn
<1>7. /\ t.root \in Addr \cup {nil} /\ (RedIn(t, t.root) => t.root = v)
      /\ \E r \in Sides : Kid(t, v, r) = nil
      /\ \A r \in Sides : RedIn(t, Kid(t, v, r)) => RedIn(t, v)
  BY <1>2, TreeFields DEF Slim
<1>8. \A a \in UsedIn(t), r \in Sides :
         a # v /\ RedIn(t, a) /\ Kid(t, a, r) # n => ~RedIn(t, Kid(t, a, r))
  BY <1>2 DEF RedsApart
<1> HIDE DEF p, q, s, o, v
<1>9. CASE RedIn(t, Kid(t, q, s)) /\ ~RedIn(t, Kid(t, q, o))
  <2> DEFINE c == Kid(t, q, s)  e == Kid(t, q, o)  d == Kid(t, c, o)
             y1 == Colored(t, q, RED)  x == Colored(y1, c, BLACK)  y == rotate(x, q, o)
             new == Turn(x, below, q, o)  f == [h EXCEPT ![q] = h[c], ![c] = h[q]]
  <2>1. t' = y /\ pc' = "delete_case6" /\ n' = n /\ item' = item /\ victim' = v
    <3>1. t.node[q][s] = c
      BY DEF Kid
    <3> QED BY <1>3, <1>5, <1>9, <3>1 DEF delete_case5, Goto, v, o
  <2>2. RedIn(t, c) /\ ~RedIn(t, e) /\ ~RedIn(t, nil)
    BY <1>2, <1>9, ColorLaw
  <2>3. /\ c \in UsedIn(t) /\ c \in Addr /\ c \notin {v, n, p, q} /\ Up(t, c) = q /\ e # c
        /\ e \in Addr \cup {nil} /\ e \notin {n, p, q}
        /\ Kid(t, v, s) # c /\ Kid(t, v, o) # c /\ c # nil
    <3>1. c # nil
      BY <2>2
    <3> QED BY <1>4, <3>1 DEF o, UsedIn
  <2> HIDE DEF c, e
  <2>4. /\ d \in Addr \cup {nil} /\ d # c /\ d # q /\ d # n /\ ~RedIn(t, d)
        /\ Kid(t, c, s) \in Addr \cup {nil} /\ Kid(t, c, s) # c /\ Kid(t, c, s) # q
        /\ Kid(t, c, s) # n
    <3>1. \A r \in Sides : Kid(t, c, r) \notin {n, c, q}
      <4>1. ASSUME NEW r \in Sides PROVE Kid(t, c, r) # c
        BY <1>2, <2>3, KidLaw
      <4>2. ASSUME NEW r \in Sides PROVE Kid(t, c, r) \notin {n, q}
        BY <1>2, <1>4, <1>6, <2>3 DEF p
      <4> QED BY <4>1, <4>2
    <3> QED BY <1>4, <1>6, <1>8, <2>2, <2>3, <3>1
  <2> HIDE DEF d
  <2>5. /\ Painted(t, y1)
        /\ \A b \in Addr : y1.node[b].color = IF b = q THEN RED ELSE t.node[b].color
    BY <1>2, <1>4, ColoredLaw, AddrLaw
  <2>6. UsedIn(y1) = UsedIn(t) /\ y1 \in Trees
    BY <2>5, DistinctLaw DEF Painted
  <2> HIDE DEF y1
  <2>7. /\ Painted(y1, x)
        /\ \A b \in Addr : x.node[b].color = IF b = c THEN BLACK ELSE y1.node[b].color
    BY <2>3, <2>6, ColoredLaw, AddrLaw
  <2> HIDE DEF x
  <2>8. /\ Painted(t, x)
        /\ \A b \in Addr : x.node[b].color = IF b = c THEN BLACK ELSE IF b = q THEN RED
                                             ELSE t.node[b].color
    BY <2>5, <2>7, PaintedTwice
  <2>9. Frame(x, below, v, nil) /\ UsedIn(x) = UsedIn(t) /\ x \in Trees /\ Skeleton(x, below)
        /\ Distinct(x)
    BY <1>2, <2>8, PaintedFrame, DistinctLaw DEF Painted, Frame
  <2>10. /\ \A a \in UsedIn(t), r \in Sides : Kid(x, a, r) = Kid(t, a, r)
         /\ \A a \in Addr : Up(x, a) = Up(t, a)
         /\ x.root = t.root
    BY <1>6, <2>8 DEF Painted
  <2>11. /\ \A a \in Addr : RedIn(x, a) <=> IF a = c THEN FALSE ELSE IF a = q THEN TRUE
                                            ELSE RedIn(t, a)
         /\ ~RedIn(x, nil)
    BY <1>2, <2>8, <2>9, ColorLaw, AddrLaw
  <2>12. Kid(x, q, Other(o)) = c
    BY <1>4, <2>10 DEF c
  <2>13. Rotated(x, y, q, o) /\ Frame(y, new, v, nil)
    BY <1>2, <1>4, <2>3, <2>9, <2>12, RotateFrame
  <2> HIDE DEF y
  <2>14. Turned(x, y, q, o)
    BY <1>4, <2>3, <2>9, <2>12, <2>13, RotateKids
  <2>15. /\ UsedIn(y) = UsedIn(t) /\ y \in Trees
         /\ Kid(y, q, o) = e /\ Kid(y, q, s) = d /\ Kid(y, c, o) = q
         /\ Kid(y, c, s) = Kid(t, c, s)
         /\ \A a \in Addr : y.node[a].color = x.node[a].color /\ y.node[a].ids = x.node[a].ids
         /\ \A a \in Addr \cup {nil} : RedIn(y, a) <=> RedIn(x, a)
         /\ y.root = t.root
    BY <1>4, <2>3, <2>9, <2>10, <2>12, <2>14 DEF Turned, d, e
  <2>16. /\ \A r \in Sides : Kid(y, v, r) = Kid(t, v, r)
         /\ Kid(y, p, s) = n /\ Kid(y, p, o) = c
    BY <1>2, <1>4, <2>3, <2>9, <2>10, <2>12, <2>14 DEF Turned
  <2>17. /\ new \in [Addr -> SUBSET Addr] /\ Skeleton(y, new) /\ new[n] = below[n]
    <3>1. new[n] = below[n]
      BY <1>2, <1>4, <2>3, <2>12 DEF Turn
    <3> QED BY <2>13, <3>1 DEF Frame, Skeleton, Spans
  <2>18. /\ f \in [Addr -> Nat] /\ f[q] = h[c] /\ f[c] = h[q]
         /\ \A a \in Addr \ {q, c} : f[a] = h[a]
    BY <1>2, <1>4, <2>3
  <2>19. /\ Up(y, n) = p /\ SibIn(y, n) = c /\ SideIn(y, n) = s
    BY <1>2, <1>4, <2>15, <2>16, <2>17, KidIs DEF o
  <2> HIDE DEF new, f
  <2>20. Heights(y, f, v, n)
    <3>1. \A a \in UsedIn(t) : Level(t, h, v, n, a, o)
      BY <1>2, <1>4 DEF Heights
    <3>2. \A a \in UsedIn(t) \ {q, c} : Level(x, h, v, n, a, o)
      <4> SUFFICES ASSUME NEW a \in UsedIn(t) \ {q, c} PROVE Level(x, h, v, n, a, o)
        OBVIOUS
      <4>1. Kid(x, a, o) = Kid(t, a, o) /\ Kid(x, a, Other(o)) = Kid(t, a, Other(o))
        BY <1>4, <2>10
      <4>2. x.node[a].color = t.node[a].color
        BY <1>4, <1>6, <2>8
      <4> QED BY <3>1, <4>1, <4>2 DEF Level
    <3>3. /\ t.node[c].color # BLACK /\ t.node[q].color = BLACK
          /\ y.node[q].color # BLACK /\ y.node[c].color = BLACK
      BY <1>2, <1>3, <1>4, <2>2, <2>3, <2>8, <2>15, ColorLaw, AddrLaw
    <3>4. /\ Seen(f, n, q) = f[q] /\ f[q] = h[c] /\ Seen(h, n, c) = h[c]
          /\ Seen(f, n, d) = Seen(h, n, d) /\ Seen(f, n, e) = Seen(h, n, e)
          /\ Seen(f, n, Kid(t, c, s)) = Seen(h, n, Kid(t, c, s))
          /\ h[c] \in Nat /\ h[q] \in Nat /\ Seen(h, n, Kid(t, c, s)) \in Nat
          /\ Seen(h, n, d) \in Nat /\ Seen(h, n, e) \in Nat
      BY <1>2, <1>4, <2>3, <2>4, <2>18 DEF Seen
    <3>5. /\ h[c] = Seen(h, n, d) /\ Seen(h, n, Kid(t, c, s)) = h[c]
          /\ Seen(h, n, e) = h[c] /\ h[q] = h[c] + 1
      <4>1. Level(t, h, v, n, c, o) /\ Level(t, h, v, n, q, o)
        BY <1>4, <2>3, <3>1
      <4> QED BY <1>4, <2>3, <3>3, <3>4, <4>1 DEF Level, d, c, e
    <3>6. Level(y, f, v, n, q, o)
      BY <1>4, <2>15, <2>18, <3>3, <3>4, <3>5 DEF Level
    <3>7. Level(y, f, v, n, c, o)
      BY <1>4, <2>3, <2>15, <2>18, <3>3, <3>4, <3>5 DEF Level
    <3> QED BY <1>2, <1>4, <2>3, <2>9, <2>12, <2>14, <2>18, <3>2, <3>6, <3>7, RotateHeights
  <2>21. RedsApart(y, v, n)
    <3>1. \A a \in UsedIn(t) \ {q, c} : \A r \in Sides :
             a # v /\ RedIn(x, a) /\ Kid(x, a, r) \notin {n, q} => ~RedIn(x, Kid(x, a, r))
      <4> SUFFICES ASSUME NEW a \in UsedIn(t) \ {q, c}, NEW r \in Sides, a # v, RedIn(x, a),
                          Kid(x, a, r) \notin {n, q}
                   PROVE  ~RedIn(x, Kid(x, a, r))
        OBVIOUS
      <4>1. RedIn(t, a) /\ Kid(x, a, r) = Kid(t, a, r) /\ Kid(t, a, r) \in Addr \cup {nil}
        BY <1>6, <2>10, <2>11
      <4>2. ~RedIn(t, Kid(t, a, r))
        BY <1>8, <4>1
      <4> QED BY <2>11, <4>1, <4>2
    <3>2. \A a \in UsedIn(t) \ {v} : Up(x, q) = a /\ RedIn(x, a) => ~RedIn(x, c) \/ c = n
      BY <2>3, <2>11
    <3>3. \A a \in {q, c} : \A r \in Sides :
             a # v /\ RedIn(x, a) /\ Kid(y, a, r) # n => ~RedIn(x, Kid(y, a, r))
      <4>1. ~RedIn(x, c) /\ ~RedIn(x, d) /\ ~RedIn(x, e)
        BY <1>4, <2>2, <2>3, <2>4, <2>11
      <4> QED BY <1>4, <2>15, <4>1
    <3> QED BY <1>4, <2>3, <2>9, <2>12, <2>14, <3>1, <3>2, <3>3, RotateReds
  <2>22. Slim(y, v)
    <3>1. RedIn(y, y.root) => y.root = v
      BY <1>4, <1>7, <2>3, <2>11, <2>15
    <3>2. \A r \in Sides : RedIn(y, Kid(y, v, r)) => RedIn(t, Kid(t, v, r))
      BY <1>2, <1>4, <1>6, <2>3, <2>11, <2>15, <2>16
    <3>3. RedIn(t, v) => RedIn(y, v)
      BY <1>2, <1>4, <2>3, <2>11, <2>15
    <3> QED BY <1>2, <1>7, <2>15, <2>16, <3>1, <3>2, <3>3 DEF Slim
  <2>23. ShortAt(y, new, "delete_case6", n, v)
    <3>1. /\ n # v => ~RedIn(y, n)
          /\ ~RedIn(y, c) /\ RedIn(y, q)
      BY <1>2, <1>3, <1>4, <2>3, <2>11, <2>15
    <3> QED BY <1>2, <1>4, <2>15, <2>17, <2>19, <3>1 DEF ShortAt, o
  <2>24. Deleting(y, "delete_case6", n, v, new, f) /\ "delete_case6" \in Deletes
    <3>1. Distinct(y)
      BY <2>9, <2>15, DistinctLaw
    <3> QED BY <2>13, <2>20, <2>21, <2>22, <2>23, <3>1 DEF Deleting, Sound, Deletes
  <2> QED BY <1>1, <2>1, <2>17, <2>18, <2>24 DEF IInv, Good
<1>10. CASE ~(RedIn(t, Kid(t, q, s)) /\ ~RedIn(t, Kid(t, q, o)))
  <2>1. t' = t /\ pc' = "delete_case6" /\ n' = n /\ item' = item /\ victim' = v
    BY <1>5, <1>10 DEF delete_case5, Goto, v
  <2>2. RedIn(t, Kid(t, q, o))
    BY <1>3, <1>4, <1>10
  <2>3. Deleting(t, "delete_case6", n, v, below, h) /\ "delete_case6" \in Deletes
    BY <1>1, <1>3, <2>2 DEF Deleting, ShortAt, Deletes, p, q, s, o, v
  <2> QED BY <1>1, <2>1, <2>3 DEF IInv, Good
<1> QED BY <1>9, <1>10

\* The far child of the sibling is red: the rotation makes up for the missing node.
LEMMA DeleteCase6 == IInv /\ delete_case6 => IInv'
<1> SUFFICES ASSUME IInv, delete_case6 PROVE IInv'
  OBVIOUS
<1> PICK below \in [Addr -> SUBSET Addr], h \in [Addr -> Nat] :
         Good(t, pc, n, item, victim, below, h)
  BY DEF IInv
<1>0. pc = "delete_case6" /\ "delete_case6" \in Deletes
  BY DEF delete_case6, Deletes
<1>1. item = <<>> /\ Deleting(t, "delete_case6", n, victim, below, h)
  BY <1>0, Phases
<1> DEFINE v == victim
<1>2. /\ Frame(t, below, v, nil) /\ Heights(t, h, v, n) /\ RedsApart(t, v, n)
      /\ Distinct(t) /\ Slim(t, v) /\ ShortAt(t, below, "delete_case6", n, v)
      /\ t \in Trees /\ Skeleton(t, below)
      /\ n \in UsedIn(t) /\ n \in Addr /\ n # nil /\ nil \notin Addr
      /\ v \in UsedIn(t) /\ v \in Addr /\ v # nil /\ v \in below[n]
  BY <1>1, DeleteFacts
<1> DEFINE p == Up(t, n)  q == SibIn(t, n)  s == SideIn(t, n)  o == Other(s)
<1>3. p # nil /\ (n # v => ~RedIn(t, n)) /\ ~RedIn(t, q)
      /\ RedIn(t, Kid(t, q, Other(SideIn(t, n))))
  BY <1>2 DEF ShortAt
<1>4. /\ p \in UsedIn(t) /\ q \in UsedIn(t) /\ p \in Addr /\ q \in Addr
      /\ p # n /\ q # n /\ q # p /\ p # v /\ q # v /\ p # nil /\ q # nil
      /\ s \in Sides /\ o \in Sides /\ Other(o) = s /\ \A r \in Sides : r = s \/ r = o
      /\ Kid(t, p, s) = n /\ Kid(t, p, o) = q /\ Up(t, q) = p /\ Up(t, p) # q
      /\ \A r \in Sides : /\ Kid(t, q, r) \in Addr \cup {nil}
                          /\ Kid(t, q, r) \notin {v, n, p, q}
                          /\ Kid(t, v, r) \notin {p, q}
                          /\ Kid(t, q, r) # nil =>
                                /\ Kid(t, q, r) \in UsedIn(t)
                                /\ Up(t, Kid(t, q, r)) = q
                                /\ Kid(t, q, Other(r)) # Kid(t, q, r)
                          /\ \A c \in Sides : Kid(t, q, r) # nil
                                              => Kid(t, v, c) # Kid(t, q, r)
      /\ h[q] = h[n] + 1
      /\ h[p] = h[q] + (IF t.node[p].color = BLACK THEN 1 ELSE 0)
      /\ t.root # n /\ t.root # q
  BY <1>2, <1>3, ShortLaw
<1>5. /\ sibling(n) = q /\ parent(n) = p /\ SideOf(n) = s
      /\ Near(n) = BLACK <=> ~RedIn(t, Kid(t, q, s))
      /\ Far(n) = BLACK <=> ~RedIn(t, Kid(t, q, o))
      /\ node_color(t, p) = BLACK <=> ~RedIn(t, p)
      /\ node_color(t, q) = BLACK <=> ~RedIn(t, q)
      /\ node_color(t, p) = RED <=> RedIn(t, p)
      /\ node_color(t, q) = RED <=> RedIn(t, q)
      /\ Near(n) = RED <=> RedIn(t, Kid(t, q, s))
  <2>1. /\ sibling(n) = q /\ parent(n) = p /\ SideOf(n) = s
        /\ Near(n) = node_color(t, Kid(t, q, s)) /\ Far(n) = node_color(t, Kid(t, q, o))
    BY Names DEF Near, Far, Kid
  <2> HIDE DEF p, q, s, o
  <2> QED BY <1>2, <1>4, <2>1, ColorLaw DEF RedIn
<1>6. \A a \in UsedIn(t), r \in Sides :
         /\ Kid(t, a, r) \in Addr \cup {nil} /\ a \in Addr
         /\ Kid(t, a, r) # nil => Up(t, Kid(t, a, r)) = a
  BY <1>2, KidLaw, TreeFields DEF UsedIn
<1>7. /\ t.root \in Addr \cup {nil} /\ (RedIn(t, t.root) => t.root = v)
      /\ \E r \in Sides : Kid(t, v, r) = nil
      /\ \A r \in Sides : RedIn(t, Kid(t, v, r)) => RedIn(t, v)
  BY <1>2, TreeFields DEF Slim
<1>8. \A a \in UsedIn(t), r \in Sides :
         a # v /\ RedIn(t, a) /\ Kid(t, a, r) # n => ~RedIn(t, Kid(t, a, r))
  BY <1>2 DEF RedsApart
<1> HIDE DEF p, q, s, o, v
<1> DEFINE c == Kid(t, q, s)  e == Kid(t, q, o)  col == node_color(t, p)
           y1 == Colored(t, q, col)  y2 == Colored(y1, p, BLACK)  x == Colored(y2, e, BLACK)
           y == rotate(x, p, s)  new == Turn(x, below, p, s)
           k == [h EXCEPT ![e] = @ + 1]  f == [k EXCEPT ![p] = h[q], ![q] = h[p]]
<1>9. t' = y /\ pc' = "unlink" /\ n' = nil /\ item' = item /\ victim' = v
  <2>1. t.node[q][o] = e
    BY DEF Kid
  <2> QED BY <1>5, <2>1 DEF delete_case6, Goto, v, o
<1>10. RedIn(t, e) /\ ~RedIn(t, nil) /\ col \in BOOLEAN /\ (col = RED <=> RedIn(t, p))
       /\ (col = BLACK <=> t.node[p].color = BLACK)
  <2>1. col = t.node[p].color
    BY <1>4 DEF node_color
  <2> QED BY <1>2, <1>3, <1>4, <1>5, <2>1, ColorLaw, TreeFields DEF o, s
<1>11. /\ e \in UsedIn(t) /\ e \in Addr /\ e \notin {v, n, p, q} /\ Up(t, e) = q /\ e # nil
       /\ Kid(t, v, s) # e /\ Kid(t, v, o) # e
       /\ c \in Addr \cup {nil} /\ c \notin {n, p, q} /\ c # e
  <2>1. e # nil
    BY <1>10
  <2> QED BY <1>4, <2>1 DEF o, UsedIn
<1> HIDE DEF c, e, col
<1>12. /\ Painted(t, y1)
       /\ \A b \in Addr : y1.node[b].color = IF b = q THEN col ELSE t.node[b].color
  BY <1>2, <1>4, <1>10, ColoredLaw
<1>13. UsedIn(y1) = UsedIn(t) /\ y1 \in Trees
  BY <1>12, DistinctLaw DEF Painted
<1> HIDE DEF y1
<1>14. /\ Painted(y1, y2)
       /\ \A b \in Addr : y2.node[b].color = IF b = p THEN BLACK ELSE y1.node[b].color
  BY <1>4, <1>13, ColoredLaw, AddrLaw
<1>15. UsedIn(y2) = UsedIn(t) /\ y2 \in Trees
  BY <1>13, <1>14, DistinctLaw DEF Painted
<1> HIDE DEF y2
<1>16. /\ Painted(y2, x)
       /\ \A b \in Addr : x.node[b].color = IF b = e THEN BLACK ELSE y2.node[b].color
  BY <1>11, <1>15, ColoredLaw, AddrLaw
<1> HIDE DEF x
<1>17. /\ Painted(t, x)
       /\ \A b \in Addr : x.node[b].color = IF b \in {e, p} THEN BLACK ELSE IF b = q THEN col
                                            ELSE t.node[b].color
  <2>1. Painted(t, x)
    BY <1>12, <1>14, <1>16, PaintedTwice
  <2> QED BY <1>12, <1>14, <1>16, <2>1
<1>18. Frame(x, below, v, nil) /\ UsedIn(x) = UsedIn(t) /\ x \in Trees /\ Skeleton(x, below)
       /\ Distinct(x)
  BY <1>2, <1>17, PaintedFrame, DistinctLaw DEF Painted, Frame
<1>19. /\ \A a \in UsedIn(t), r \in Sides : Kid(x, a, r) = Kid(t, a, r)
       /\ \A a \in Addr : Up(x, a) = Up(t, a)
       /\ x.root = t.root
  BY <1>6, <1>17 DEF Painted
<1>20. /\ \A a \in Addr : RedIn(x, a) <=> IF a \in {e, p} THEN FALSE
                                          ELSE IF a = q THEN RedIn(t, p) ELSE RedIn(t, a)
       /\ ~RedIn(x, nil)
  <2>1. \A a \in Addr : RedIn(x, a) <=> x.node[a].color = RED
    BY <1>18, ColorLaw
  <2>2. \A a \in Addr : RedIn(t, a) <=> t.node[a].color = RED
    BY <1>2, ColorLaw
  <2> QED BY <1>4, <1>10, <1>17, <1>18, <2>1, <2>2, ColorLaw, AddrLaw
<1>21. Kid(x, p, Other(s)) = q
  BY <1>4, <1>19 DEF o
<1>22. Rotated(x, y, p, s) /\ Frame(y, new, v, nil)
  BY <1>2, <1>4, <1>18, <1>21, RotateFrame
<1> HIDE DEF y
<1>23. Turned(x, y, p, s)
  BY <1>4, <1>18, <1>21, <1>22, RotateKids
<1>24. /\ UsedIn(y) = UsedIn(t) /\ y \in Trees
       /\ Kid(y, p, s) = n /\ Kid(y, p, o) = c /\ Kid(y, q, s) = p /\ Kid(y, q, o) = e
       /\ \A a \in Addr : y.node[a].color = x.node[a].color /\ y.node[a].ids = x.node[a].ids
       /\ \A a \in Addr \cup {nil} : RedIn(y, a) <=> RedIn(x, a)
       /\ y.root = IF t.root = p THEN q ELSE t.root
  BY <1>4, <1>18, <1>19, <1>21, <1>23 DEF Turned, o, c, e
<1>25. \A r \in Sides : Kid(y, v, r) = Kid(t, v, r)
  BY <1>2, <1>4, <1>18, <1>19, <1>21, <1>23 DEF Turned
<1>26. new \in [Addr -> SUBSET Addr]
  BY <1>22 DEF Frame, Skeleton, Spans
<1>27. /\ k \in [Addr -> Nat] /\ k[e] = h[e] + 1 /\ \A a \in Addr \ {e} : k[a] = h[a]
  <2>1. h[e] + 1 \in Nat
    BY <1>11
  <2> QED BY <1>11, <2>1
<1>28. /\ f \in [Addr -> Nat] /\ f[p] = h[q] /\ f[q] = h[p]
       /\ \A a \in Addr \ {p, q} : f[a] = k[a]
  <2> HIDE DEF k
  <2> QED BY <1>4, <1>27
<1> HIDE DEF new, k, f
<1>29. Heights(y, f, v, nil)
  <2>1. \A a \in UsedIn(t) : Level(t, h, v, n, a, s)
    BY <1>2, <1>4 DEF Heights
  <2>2. /\ t.node[e].color # BLACK /\ t.node[q].color = BLACK
        /\ x.node[e].color = BLACK /\ y.node[p].color = BLACK
        /\ y.node[q].color = BLACK <=> t.node[p].color = BLACK
    BY <1>2, <1>3, <1>4, <1>10, <1>11, <1>17, <1>24, ColorLaw, AddrLaw
  <2>3. ASSUME NEW a \in UsedIn(t) \ {p, q} PROVE Level(x, k, v, nil, a, s)
    <3>1. Kid(x, a, s) = Kid(t, a, s) /\ Kid(x, a, o) = Kid(t, a, o) /\ a \in Addr
      BY <1>4, <1>6, <1>19
    <3>2. \A r \in Sides : Kid(t, a, r) \notin {n, e}
      BY <1>2, <1>6, <1>11 DEF p
    <3>3. \A r \in Sides : /\ Seen(k, nil, Kid(t, a, r)) = Seen(h, n, Kid(t, a, r))
                           /\ Seen(h, n, Kid(t, a, r)) \in Nat
      <4> SUFFICES ASSUME NEW r \in Sides
                   PROVE  /\ Seen(k, nil, Kid(t, a, r)) = Seen(h, n, Kid(t, a, r))
                          /\ Seen(h, n, Kid(t, a, r)) \in Nat
        OBVIOUS
      <4>1. Kid(t, a, r) \in Addr \cup {nil} /\ Kid(t, a, r) \notin {n, e}
        BY <1>6, <3>2
      <4> QED BY <1>27, <4>1 DEF Seen
    <3>4. Level(t, h, v, n, a, s)
      BY <2>1
    <3>5. CASE a = e
      <4>1. a # v /\ k[a] = h[a] + 1 /\ x.node[a].color = BLACK /\ t.node[a].color # BLACK
        BY <1>11, <1>27, <2>2, <3>5
      <4> QED BY <1>4, <3>1, <3>3, <3>4, <4>1 DEF Level, o
    <3>6. CASE a # e
      <4>1. k[a] = h[a] /\ x.node[a].color = t.node[a].color
        BY <1>17, <1>27, <3>1, <3>6
      <4> QED BY <1>4, <3>1, <3>3, <3>4, <4>1 DEF Level, o
    <3> QED BY <3>5, <3>6
  <2>4. /\ Seen(f, nil, n) = h[n] /\ Seen(f, nil, p) = h[q] /\ Seen(f, nil, e) = h[e] + 1
        /\ Seen(f, nil, c) = Seen(h, n, c) /\ Seen(h, n, e) = h[e]
        /\ h[n] \in Nat /\ h[p] \in Nat /\ h[q] \in Nat /\ h[e] \in Nat
        /\ Seen(h, n, c) \in Nat
    BY <1>2, <1>4, <1>11, <1>27, <1>28 DEF Seen
  <2>5. Seen(h, n, c) = h[n] /\ h[e] = h[n] /\ h[q] = h[n] + 1
    BY <1>4, <2>1, <2>2, <2>4 DEF Level, o, c, e
  <2>6. Level(y, f, v, nil, p, s)
    BY <1>4, <1>24, <1>28, <2>2, <2>4, <2>5 DEF Level, o
  <2>7. Level(y, f, v, nil, q, s)
    BY <1>4, <1>24, <1>28, <2>2, <2>4, <2>5 DEF Level, o
  <2>8. f[q] = k[p]
    BY <1>4, <1>11, <1>27, <1>28
  <2> QED BY <1>4, <1>18, <1>21, <1>23, <1>27, <1>28, <2>3, <2>6, <2>7, <2>8, RotateHeights
<1>30. RedsApart(y, v, nil)
  <2>1. \A a \in UsedIn(t) \ {p, q} : \A r \in Sides :
           a # v /\ RedIn(x, a) /\ Kid(x, a, r) \notin {nil, p} => ~RedIn(x, Kid(x, a, r))
    <3> SUFFICES ASSUME NEW a \in UsedIn(t) \ {p, q}, NEW r \in Sides, a # v, RedIn(x, a),
                        Kid(x, a, r) \notin {nil, p}
                 PROVE  ~RedIn(x, Kid(x, a, r))
      OBVIOUS
    <3>1. RedIn(t, a) /\ Kid(x, a, r) = Kid(t, a, r) /\ Kid(t, a, r) \in Addr
          /\ Kid(t, a, r) # n /\ Kid(t, a, r) # q
      BY <1>2, <1>4, <1>6, <1>19, <1>20 DEF p
    <3>2. ~RedIn(t, Kid(t, a, r))
      BY <1>8, <3>1
    <3> QED BY <1>20, <3>1, <3>2
  <2>2. \A a \in UsedIn(t) \ {v} : Up(x, p) = a /\ RedIn(x, a) => ~RedIn(x, q) \/ q = nil
    <3> SUFFICES ASSUME NEW a \in UsedIn(t) \ {v}, Up(t, p) = a, RedIn(x, a), RedIn(x, q)
                 PROVE  FALSE
      BY <1>4, <1>19
    <3>1. a # nil /\ a # q /\ a # p
      BY <1>2, <1>4, <1>20 DEF UsedIn
    <3>2. RedIn(t, a) /\ RedIn(t, p)
      BY <1>4, <1>6, <1>11, <1>20, <3>1, SideLaw
    <3>3. PICK r \in Sides : Kid(t, a, r) = p
      BY <1>2, <1>4, <3>1 DEF Skeleton, Linked
    <3> QED BY <1>4, <1>8, <3>2, <3>3
  <2>3. \A a \in {p, q} : \A r \in Sides :
           a # v /\ RedIn(x, a) /\ Kid(y, a, r) # nil => ~RedIn(x, Kid(y, a, r))
    BY <1>4, <1>11, <1>20, <1>24
  <2> QED BY <1>4, <1>18, <1>21, <1>23, <2>1, <2>2, <2>3, RotateReds
<1>31. Slim(y, v)
  <2>1. RedIn(y, y.root) => y.root = v
    BY <1>4, <1>7, <1>11, <1>20, <1>24
  <2>2. \A r \in Sides : RedIn(y, Kid(y, v, r)) => RedIn(t, Kid(t, v, r))
    BY <1>2, <1>4, <1>6, <1>11, <1>20, <1>24, <1>25
  <2>3. RedIn(t, v) => RedIn(y, v)
    BY <1>2, <1>4, <1>11, <1>20, <1>24
  <2> QED BY <1>2, <1>7, <1>24, <1>25, <2>1, <2>2, <2>3 DEF Slim
<1>32. Unlinking(y, v, new, f)
  <2>1. Distinct(y)
    BY <1>18, <1>24, DistinctLaw
  <2> QED BY <1>22, <1>29, <1>30, <1>31, <2>1 DEF Unlinking, Sound
<1> QED BY <1>1, <1>9, <1>26, <1>28, <1>32 DEF IInv, Good

-----------------------------------------------------------------------------
(* The end of a deletion. *)

\* The node v is out of y: its child c has its place.
Cut(x, y, v, c) ==
  /\ y \in Trees /\ y.node[v] = Free
  /\ y.root = IF x.root = v THEN c ELSE x.root
  /\ \A a \in Addr \ {v} :
        /\ y.node[a].score = x.node[a].score /\ y.node[a].ids = x.node[a].ids
        /\ y.node[a].size = x.node[a].size
        /\ y.node[a].color = IF a = c /\ x.root = v THEN BLACK ELSE x.node[a].color
        /\ Up(y, a) = IF a = c THEN Up(x, v) ELSE Up(x, a)
        /\ \A s \in Sides : Kid(y, a, s) = IF Kid(x, a, s) = v /\ a = Up(x, v) THEN c
                                           ELSE Kid(x, a, s)
  /\ \A a \in Addr \ (UsedIn(x) \cup {c, v}) : y.node[a] = x.node[a]

\* A free address holds a node without ids.
LEMMA FreeLaw == Free \in Node /\ Free.ids = <<>>
BY AddrLaw DEF Free, Node, BLACK

\* unlink, field by field: the child takes the place of the victim.
LEMMA UnlinkFields ==
  ASSUME NEW below, NEW h, NEW v, t \in Trees, Skeleton(t, below), v \in UsedIn(t),
         victim = v, unlink
  PROVE  Cut(t, t', v, child(v)) /\ child(v) \in Addr \cup {nil}
<1> DEFINE c == child(v)  x == replace_node(t, v, c)
           y == IF Up(t, v) = nil /\ c # nil THEN Colored(x, c, BLACK) ELSE x
           z == [y EXCEPT !.node[v] = Free]
<1>1. v \in Addr /\ nil \notin Addr
  BY AddrLaw DEF UsedIn
<1>2. c \in Addr \cup {nil} /\ c # v
  <2>1. c \in {Kid(t, v, "left"), Kid(t, v, "right")}
    BY DEF child, Kid
  <2>2. "left" \in Sides /\ "right" \in Sides
    BY DEF Sides
  <2>3. \A s \in Sides : Kid(t, v, s) # v
    BY <1>1, KidLaw
  <2> QED BY <1>1, <2>1, <2>2, <2>3, TreeFields
<1>3. t' = z
  BY Names DEF unlink
<1> HIDE DEF c
<1>4. /\ x \in Trees
      /\ x.root = IF Up(t, v) = nil THEN c ELSE t.root
      /\ \A a \in Addr :
            /\ x.node[a].score = t.node[a].score /\ x.node[a].ids = t.node[a].ids
            /\ x.node[a].color = t.node[a].color /\ x.node[a].size = t.node[a].size
            /\ Up(x, a) = IF a = c THEN Up(t, v) ELSE Up(t, a)
            /\ \A r \in Sides :
                  Kid(x, a, r) = IF a = Up(t, v) /\ Kid(t, a, r) = v THEN c ELSE Kid(t, a, r)
  BY <1>1, <1>2, ReplaceFields
<1> HIDE DEF x
<1>5. Up(t, v) = nil <=> t.root = v
  BY <1>1 DEF Skeleton, Linked
<1>6. /\ y \in Trees /\ y.root = x.root
      /\ \A a \in Addr :
            /\ y.node[a].score = x.node[a].score /\ y.node[a].ids = x.node[a].ids
            /\ y.node[a].color = IF a = c /\ Up(t, v) = nil THEN BLACK ELSE x.node[a].color
            /\ y.node[a].size = x.node[a].size /\ Up(y, a) = Up(x, a)
            /\ \A s \in Sides : Kid(y, a, s) = Kid(x, a, s)
  <2>1. CASE Up(t, v) = nil /\ c # nil
    <3>1. c \in UsedIn(x)
      <4>1. \E s \in Sides : c = Kid(t, v, s)
        BY DEF c, child, Kid, Sides
      <4>2. c \in UsedIn(t)
        BY <2>1, <4>1, KidLaw
      <4> QED BY <1>4, <4>2 DEF UsedIn
    <3>2. Painted(x, Colored(x, c, BLACK))
          /\ \A b \in Addr : Colored(x, c, BLACK).node[b].color
                             = IF b = c THEN BLACK ELSE x.node[b].color
      BY <1>4, <3>1, ColoredLaw, AddrLaw
    <3>3. y = Colored(x, c, BLACK)
      BY <2>1
    <3> HIDE DEF y
    <3> QED BY <2>1, <3>2, <3>3 DEF Painted
  <2>2. CASE ~(Up(t, v) = nil /\ c # nil)
    <3>1. y = x
      BY <2>2
    <3> HIDE DEF y
    <3> QED BY <1>1, <1>4, <2>2, <3>1
  <2> QED BY <2>1, <2>2
<1> HIDE DEF y
<1>7. /\ z \in Trees /\ z.root = y.root /\ z.node[v] = Free
      /\ \A a \in Addr \ {v} : z.node[a] = y.node[a]
  <2>1. z = [root |-> y.root, node |-> [y.node EXCEPT ![v] = Free]]
    BY <1>6 DEF Trees
  <2>2. y.root \in Addr \cup {nil} /\ y.node \in [Addr -> Node]
    BY <1>6 DEF Trees
  <2>3. [y.node EXCEPT ![v] = Free] \in [Addr -> Node]
    BY <2>2, FreeLaw
  <2> HIDE DEF z
  <2> QED BY <1>1, <2>1, <2>2, <2>3 DEF Trees
<1> HIDE DEF z
<1>8. ASSUME NEW a \in Addr \ (UsedIn(t) \cup {c, v}) PROVE z.node[a] = t.node[a]
  <2>1. z.node[a] = y.node[a] /\ y.node[a] \in Node /\ t.node[a] \in Node
    BY <1>6, <1>7, TreeFields
  <2>2. \A s \in Sides : Kid(y, a, s) = Kid(t, a, s)
    <3>1. Kid(t, a, "left") = nil /\ Kid(t, a, "right") = nil
      BY DEF Skeleton, Linked, Kid, Free
    <3> QED BY <1>1, <1>4, <1>6, <3>1 DEF Sides
  <2>3. y.node[a].left = t.node[a].left /\ y.node[a].right = t.node[a].right
    BY <2>2 DEF Sides, Kid
  <2>4. /\ y.node[a].score = t.node[a].score /\ y.node[a].ids = t.node[a].ids
        /\ y.node[a].color = t.node[a].color /\ y.node[a].size = t.node[a].size
        /\ y.node[a].parent = t.node[a].parent
    BY <1>4, <1>6 DEF Up
  <2>5. y.node[a] = t.node[a]
    BY <2>1, <2>3, <2>4 DEF Node
  <2> QED BY <2>1, <2>5
<1>9. \A a \in Addr \ {v} :
        /\ z.node[a].score = t.node[a].score /\ z.node[a].ids = t.node[a].ids
        /\ z.node[a].size = t.node[a].size
        /\ z.node[a].color = IF a = c /\ t.root = v THEN BLACK ELSE t.node[a].color
        /\ Up(z, a) = IF a = c THEN Up(t, v) ELSE Up(t, a)
        /\ \A s \in Sides : Kid(z, a, s) = IF Kid(t, a, s) = v /\ a = Up(t, v) THEN c
                                           ELSE Kid(t, a, s)
  <2>1. \A a \in Addr \ {v} : Up(z, a) = Up(y, a) /\ \A s \in Sides : Kid(z, a, s) = Kid(y, a, s)
    BY <1>7 DEF Up, Kid
  <2> QED BY <1>4, <1>5, <1>6, <1>7, <2>1
<1>10. z.root = IF t.root = v THEN c ELSE t.root
  BY <1>4, <1>5, <1>6, <1>7
<1>11. Cut(t, z, v, c)
  BY <1>7, <1>8, <1>9, <1>10 DEF Cut
<1> QED BY <1>2, <1>3, <1>11 DEF c

\* Without the victim, the sizes, the order and the links are those of the rest.
LEMMA CutFrame ==
  ASSUME NEW x, NEW y, NEW below, NEW v, NEW c, Frame(x, below, v, nil), Cut(x, y, v, c),
         v \in UsedIn(x), NEW s \in Sides, Kid(x, v, s) = nil, c = Kid(x, v, Other(s))
  PROVE  /\ Frame(y, [a \in Addr |-> below[a] \ {v}], nil, nil)
         /\ UsedIn(y) = UsedIn(x) \ {v}
         /\ \A a \in UsedIn(y), r \in Sides :
               Kid(y, a, r) = IF Kid(x, a, r) = v THEN c ELSE Kid(x, a, r)
         /\ \A a \in UsedIn(x), r \in Sides : Kid(x, a, r) # nil => Up(x, Kid(x, a, r)) = a
         /\ c # v /\ c \in Addr \cup {nil} /\ (c # nil => c \in UsedIn(x) /\ Up(x, c) = v)
         /\ c = nil \/ c # x.root
<1> DEFINE o == Other(s)  new == [a \in Addr |-> below[a] \ {v}]
<1>0. /\ o \in Sides /\ \A r \in Sides : r = s \/ r = o
      /\ nil \notin Addr /\ v \in Addr /\ UsedIn(x) \subseteq Addr /\ v # nil
  BY SideLaw, AddrLaw DEF UsedIn
<1>1. /\ x \in Trees /\ Linked(x) /\ Spans(x, below) /\ Skeleton(x, below)
      /\ Ordered(x, below, v) /\ Apart(x, v) /\ Sized(x, v, nil)
  BY DEF Frame, Skeleton
<1>2. /\ y \in Trees /\ y.node[v] = Free
      /\ y.root = IF x.root = v THEN c ELSE x.root
      /\ \A a \in Addr \ {v} :
            /\ y.node[a].score = x.node[a].score /\ y.node[a].ids = x.node[a].ids
            /\ y.node[a].size = x.node[a].size
            /\ Up(y, a) = IF a = c THEN Up(x, v) ELSE Up(x, a)
            /\ \A r \in Sides : Kid(y, a, r) = IF Kid(x, a, r) = v /\ a = Up(x, v) THEN c
                                               ELSE Kid(x, a, r)
      /\ \A a \in Addr \ (UsedIn(x) \cup {c, v}) : y.node[a] = x.node[a]
  BY DEF Cut
<1>3. UsedIn(y) = UsedIn(x) \ {v}
  BY <1>2, FreeLaw DEF UsedIn
<1>4. c \in Addr \cup {nil} /\ (c # nil => c \in UsedIn(x) /\ Up(x, c) = v /\ c # v /\ v \notin below[c])
  BY <1>0, <1>1, KidLaw, TreeFields
<1>5. \A a \in UsedIn(x), r \in Sides :
         /\ Kid(x, a, r) # nil => Kid(x, a, r) \in UsedIn(x) /\ Up(x, Kid(x, a, r)) = a
         /\ Kid(x, a, r) \in Addr \cup {nil}
  BY <1>0, <1>1, KidLaw, TreeFields
<1>6. \A a \in UsedIn(y), r \in Sides :
         Kid(y, a, r) = IF Kid(x, a, r) = v THEN c ELSE Kid(x, a, r)
  BY <1>0, <1>2, <1>3, <1>5
<1>7. c = nil \/ c # x.root
  BY <1>0, <1>1, <1>4 DEF Linked
<1> HIDE DEF o
<1>8. Linked(y)
  <2>1. y.root = nil \/ (y.root \in UsedIn(y) /\ Up(y, y.root) = nil)
    <3>1. CASE x.root = v
      <4>1. Up(x, v) = nil
        BY <1>0, <1>1, <3>1 DEF Linked
      <4> QED BY <1>2, <1>3, <1>4, <3>1, <4>1, <1>0
    <3>2. CASE x.root # v
      BY <1>0, <1>1, <1>2, <1>3, <1>7, <3>2 DEF Linked
    <3> QED BY <3>1, <3>2
  <2>2. \A a \in UsedIn(y) : \A r \in Sides :
           Kid(y, a, r) # nil => Kid(y, a, r) \in UsedIn(y) /\ Up(y, Kid(y, a, r)) = a
    <3> SUFFICES ASSUME NEW a \in UsedIn(y), NEW r \in Sides, Kid(y, a, r) # nil
                 PROVE  Kid(y, a, r) \in UsedIn(y) /\ Up(y, Kid(y, a, r)) = a
      OBVIOUS
    <3>1. a \in UsedIn(x) /\ a # v /\ a \in Addr
      BY <1>0, <1>3
    <3>2. CASE Kid(x, a, r) = v
      <4>1. Kid(y, a, r) = c /\ Up(x, v) = a
        BY <1>0, <1>5, <1>6, <3>1, <3>2
      <4> QED BY <1>0, <1>2, <1>3, <1>4, <4>1
    <3>3. CASE Kid(x, a, r) # v
      <4>1. Kid(y, a, r) = Kid(x, a, r) /\ Kid(x, a, r) \in UsedIn(x)
            /\ Up(x, Kid(x, a, r)) = a /\ Kid(x, a, r) # c
        BY <1>4, <1>5, <1>6, <3>1, <3>3
      <4> QED BY <1>0, <1>2, <1>3, <3>3, <4>1
    <3> QED BY <3>2, <3>3
  <2>3. \A a \in UsedIn(y) :
           IF Up(y, a) = nil THEN a = y.root
           ELSE Up(y, a) \in UsedIn(y) /\ \E r \in Sides : Kid(y, Up(y, a), r) = a
    <3> SUFFICES ASSUME NEW a \in UsedIn(y)
                 PROVE  IF Up(y, a) = nil THEN a = y.root
                        ELSE Up(y, a) \in UsedIn(y) /\ \E r \in Sides : Kid(y, Up(y, a), r) = a
      OBVIOUS
    <3>1. a \in UsedIn(x) /\ a # v /\ a \in Addr
      BY <1>0, <1>3
    <3>2. \A b \in UsedIn(x) :
             IF Up(x, b) = nil THEN b = x.root
             ELSE Up(x, b) \in UsedIn(x) /\ \E r \in Sides : Kid(x, Up(x, b), r) = b
      BY <1>1 DEF Linked
    <3>3. CASE a = c
      <4>1. Up(y, a) = Up(x, v)
        BY <1>2, <3>1, <3>3
      <4>2. CASE Up(x, v) = nil
        BY <1>2, <3>2, <3>3, <4>1, <4>2
      <4>3. CASE Up(x, v) # nil
        <5>1. Up(x, v) \in UsedIn(x)
          BY <3>2, <4>3
        <5>2. PICK r \in Sides : Kid(x, Up(x, v), r) = v
          BY <3>2, <4>3
        <5>3. Up(x, v) # v
          BY <1>0, <1>1, <5>1, <5>2, KidLaw
        <5> QED BY <1>3, <1>6, <3>3, <4>1, <4>3, <5>1, <5>2, <5>3
      <4> QED BY <4>2, <4>3
    <3>4. CASE a # c
      <4>1. Up(y, a) = Up(x, a)
        BY <1>2, <3>1, <3>4
      <4>2. CASE Up(x, a) = nil
        BY <1>2, <3>1, <3>2, <4>1, <4>2
      <4>3. CASE Up(x, a) # nil
        <5>1. Up(x, a) \in UsedIn(x)
          BY <3>1, <3>2, <4>3
        <5>2. PICK r \in Sides : Kid(x, Up(x, a), r) = a
          BY <3>1, <3>2, <4>3
        <5>3. Up(x, a) # v
          <6> SUFFICES ASSUME Up(x, a) = v PROVE FALSE
            OBVIOUS
          <6>1. r = s \/ r = Other(s)
            BY SideLaw
          <6> QED BY <1>0, <3>1, <3>4, <5>2, <6>1
        <5> QED BY <1>3, <1>6, <3>1, <4>1, <4>3, <5>1, <5>2, <5>3
      <4> QED BY <4>2, <4>3
    <3> QED BY <3>3, <3>4
  <2>4. \A a \in Addr \ UsedIn(y) : y.node[a] = Free
    BY <1>0, <1>1, <1>2, <1>3, <1>4 DEF Linked
  <2> QED BY <2>1, <2>2, <2>3, <2>4 DEF Linked
<1>9. below \in [Addr -> SUBSET Addr] /\ Under(below, x.root) = UsedIn(x)
      /\ \A a \in UsedIn(x) :
            /\ below[a] = {a} \cup Under(below, Kid(x, a, "left"))
                              \cup Under(below, Kid(x, a, "right"))
            /\ a \notin Under(below, Kid(x, a, "left"))
            /\ a \notin Under(below, Kid(x, a, "right"))
            /\ Under(below, Kid(x, a, "left")) \cap Under(below, Kid(x, a, "right")) = {}
  BY <1>1 DEF Spans
<1>10. below[v] = {v} \cup Under(below, c) /\ v \notin Under(below, c)
  <2>1. Under(below, nil) = {}
    BY DEF Under
  <2>2. CASE s = "left"
    <3>1. Kid(x, v, "left") = nil /\ Kid(x, v, "right") = c
      BY <2>2 DEF Other
    <3>2. below[v] = {v} \cup Under(below, Kid(x, v, "left"))
                         \cup Under(below, Kid(x, v, "right"))
          /\ v \notin Under(below, Kid(x, v, "right"))
      BY <1>9
    <3> QED BY <2>1, <3>1, <3>2
  <2>3. CASE s = "right"
    <3>1. Kid(x, v, "right") = nil /\ Kid(x, v, "left") = c
      BY <2>3 DEF Other
    <3>2. below[v] = {v} \cup Under(below, Kid(x, v, "left"))
                         \cup Under(below, Kid(x, v, "right"))
          /\ v \notin Under(below, Kid(x, v, "left"))
      BY <1>9
    <3> QED BY <2>1, <3>1, <3>2
  <2> QED BY <2>2, <2>3 DEF Sides
<1>11. /\ new \in [Addr -> SUBSET Addr]
       /\ \A b \in Addr : new[b] = below[b] \ {v}
       /\ \A b \in Addr \cup {nil} : Under(new, b) = Under(below, b) \ {v}
  BY <1>0, <1>9 DEF Under
<1> HIDE DEF new
<1>12. \A a \in UsedIn(y), r \in Sides :
          Under(new, Kid(y, a, r)) = Under(below, Kid(x, a, r)) \ {v}
  <2> SUFFICES ASSUME NEW a \in UsedIn(y), NEW r \in Sides
               PROVE  Under(new, Kid(y, a, r)) = Under(below, Kid(x, a, r)) \ {v}
    OBVIOUS
  <2>1. CASE Kid(x, a, r) = v
    <3>1. Under(new, Kid(y, a, r)) = Under(below, c) \ {v}
      BY <1>4, <1>6, <1>11, <2>1
    <3>2. Under(below, v) = below[v]
      BY <1>0 DEF Under
    <3> QED BY <1>10, <2>1, <3>1, <3>2
  <2>2. CASE Kid(x, a, r) # v
    BY <1>3, <1>5, <1>6, <1>11, <2>2
  <2> QED BY <2>1, <2>2
<1>13. Spans(y, new)
  <2>1. Under(new, y.root) = UsedIn(y)
    <3>1. CASE x.root = v
      <4>1. Under(below, v) = below[v]
        BY <1>0 DEF Under
      <4> QED BY <1>2, <1>3, <1>4, <1>9, <1>10, <1>11, <3>1, <4>1
    <3>2. CASE x.root # v
      <4>1. x.root \in Addr \cup {nil}
        BY <1>1, TreeFields
      <4> QED BY <1>2, <1>3, <1>9, <1>11, <3>2, <4>1
    <3> QED BY <3>1, <3>2
  <2>2. ASSUME NEW a \in UsedIn(y)
        PROVE  /\ new[a] = {a} \cup Under(new, Kid(y, a, "left"))
                               \cup Under(new, Kid(y, a, "right"))
               /\ a \notin Under(new, Kid(y, a, "left"))
               /\ a \notin Under(new, Kid(y, a, "right"))
               /\ Under(new, Kid(y, a, "left")) \cap Under(new, Kid(y, a, "right")) = {}
    <3>1. a \in UsedIn(x) /\ a # v /\ new[a] = below[a] \ {v}
      BY <1>0, <1>3, <1>11
    <3>2. /\ Under(new, Kid(y, a, "left")) = Under(below, Kid(x, a, "left")) \ {v}
          /\ Under(new, Kid(y, a, "right")) = Under(below, Kid(x, a, "right")) \ {v}
      BY <1>12 DEF Sides
    <3>3. /\ below[a] = {a} \cup Under(below, Kid(x, a, "left"))
                            \cup Under(below, Kid(x, a, "right"))
          /\ a \notin Under(below, Kid(x, a, "left"))
          /\ a \notin Under(below, Kid(x, a, "right"))
          /\ Under(below, Kid(x, a, "left")) \cap Under(below, Kid(x, a, "right")) = {}
      BY <1>9, <3>1
    <3> QED BY <3>1, <3>2, <3>3
  <2> QED BY <1>11, <2>1, <2>2 DEF Spans
<1>14. Ordered(y, new, nil)
  <2> SUFFICES ASSUME NEW a \in UsedIn(y), NEW r \in Sides, NEW b \in Under(new, Kid(y, a, r))
               PROVE  Before(y, r, b, a)
    BY DEF Ordered
  <2>1. a \in UsedIn(x) \ {v} /\ b \in Under(below, Kid(x, a, r)) \ {v}
    BY <1>3, <1>12
  <2>2. Before(x, r, b, a)
    BY <1>1, <2>1 DEF Ordered
  <2>3. b \in Addr /\ a \in Addr
    BY <1>0, <1>5, <1>9, <2>1 DEF Under
  <2> QED BY <1>2, <2>1, <2>2, <2>3 DEF Before
<1>15. Apart(y, nil)
  BY <1>0, <1>1, <1>2, <1>3 DEF Apart
<1>16. Sized(y, nil, nil)
  <2>1. \A b \in Addr \cup {nil} : nodesize(x, b) \in Int
    BY <1>1, SizeLaw
  <2>2. \A b \in Addr \cup {nil} : b # v => nodesize(y, b) = nodesize(x, b)
    BY <1>2 DEF nodesize
  <2>3. nodesize(x, v) = nodesize(x, c)
    <3>1. nodesize(x, nil) = 0
      BY DEF nodesize
    <3>2. x.node[v].size = nodesize(x, Kid(x, v, "left")) + nodesize(x, Kid(x, v, "right"))
      <4>1. nodesize(x, Kid(x, v, "left")) \in Int /\ nodesize(x, Kid(x, v, "right")) \in Int
        BY <1>5, <2>1 DEF Sides
      <4>2. x.node[v].size = nodesize(x, Kid(x, v, "left")) + nodesize(x, Kid(x, v, "right"))
                             + 0 + 0
        BY <1>1 DEF Sized
      <4> QED BY <4>1, <4>2
    <3>3. nodesize(x, v) = x.node[v].size
      BY <1>0 DEF nodesize
    <3>4. CASE s = "left"
      <4>1. Kid(x, v, "left") = nil /\ Kid(x, v, "right") = c
        BY <3>4 DEF Other
      <4> QED BY <1>4, <2>1, <3>1, <3>2, <3>3, <4>1
    <3>5. CASE s = "right"
      <4>1. Kid(x, v, "right") = nil /\ Kid(x, v, "left") = c
        BY <3>5 DEF Other
      <4> QED BY <1>4, <2>1, <3>1, <3>2, <3>3, <4>1
    <3> QED BY <3>4, <3>5 DEF Sides
  <2>4. ASSUME NEW a \in UsedIn(y), NEW r \in Sides
        PROVE  nodesize(y, Kid(y, a, r)) = nodesize(x, Kid(x, a, r))
               /\ nodesize(x, Kid(x, a, r)) \in Int
    <3>1. a \in UsedIn(x) /\ Kid(x, a, r) \in Addr \cup {nil}
      BY <1>3, <1>5
    <3>2. CASE Kid(x, a, r) = v
      <4>1. Kid(y, a, r) = c
        BY <1>6, <3>2
      <4>2. c # v /\ c \in Addr \cup {nil}
        BY <1>0, <1>4
      <4>3. nodesize(y, c) = nodesize(x, c)
        BY <2>2, <4>2
      <4> QED BY <2>1, <2>3, <3>1, <3>2, <4>1, <4>3
    <3>3. CASE Kid(x, a, r) # v
      <4>1. Kid(y, a, r) = Kid(x, a, r)
        BY <1>6, <3>3
      <4> QED BY <2>1, <2>2, <3>1, <3>3, <4>1
    <3> QED BY <3>2, <3>3
  <2> SUFFICES ASSUME NEW a \in UsedIn(y)
               PROVE  y.node[a].size = nodesize(y, Kid(y, a, "left"))
                                       + nodesize(y, Kid(y, a, "right"))
                                       + Len(y.node[a].ids) + 0
    BY <1>0, <1>3 DEF Sized
  <2>5. a \in UsedIn(x) /\ a # v /\ a \in Addr
    BY <1>0, <1>3
  <2>6. x.node[a].size = nodesize(x, Kid(x, a, "left")) + nodesize(x, Kid(x, a, "right"))
                         + Len(x.node[a].ids) + 0
    BY <1>1, <2>5 DEF Sized
  <2>7. /\ nodesize(y, Kid(y, a, "left")) = nodesize(x, Kid(x, a, "left"))
        /\ nodesize(y, Kid(y, a, "right")) = nodesize(x, Kid(x, a, "right"))
    BY <2>4 DEF Sides
  <2> QED BY <1>2, <2>5, <2>6, <2>7
<1>17. Frame(y, new, nil, nil)
  BY <1>2, <1>8, <1>13, <1>14, <1>15, <1>16 DEF Frame, Skeleton
<1> QED BY <1>0, <1>3, <1>4, <1>5, <1>6, <1>7, <1>17 DEF new

\* unlink ends a deletion with a red-black tree.
LEMMA Unlink == IInv /\ unlink => IInv'
<1> SUFFICES ASSUME IInv, unlink PROVE IInv'
  OBVIOUS
<1> PICK below \in [Addr -> SUBSET Addr], h \in [Addr -> Nat] :
         Good(t, pc, n, item, victim, below, h)
  BY DEF IInv
<1> DEFINE v == victim  c == child(v)  new == [a \in Addr |-> below[a] \ {v}]
           f == [a \in Addr |-> IF a = c /\ t.root = v /\ RedIn(t, c) THEN h[a] + 1 ELSE h[a]]
<1>0. pc = "unlink" /\ pc' = "idle" /\ n' = nil /\ item' = <<>> /\ victim' = nil
  BY DEF unlink, Return
<1>1. Unlinking(t, v, below, h)
  BY <1>0, Phases
<1>2. /\ Frame(t, below, v, nil) /\ Heights(t, h, v, nil) /\ RedsApart(t, v, nil)
      /\ Distinct(t) /\ Slim(t, v) /\ t \in Trees /\ Skeleton(t, below)
      /\ v \in UsedIn(t) /\ v \in Addr /\ v # nil /\ nil \notin Addr
      /\ UsedIn(t) \subseteq Addr
  BY <1>1, AddrLaw DEF Unlinking, Sound, Frame, Skeleton, Slim, UsedIn
<1>3. PICK s \in Sides : Kid(t, v, s) = nil /\ c = Kid(t, v, Other(s))
  <2>1. CASE Kid(t, v, "right") = nil
    <3>1. c = Kid(t, v, Other("right"))
      BY <2>1 DEF child, Kid, Other
    <3> QED BY <2>1, <3>1 DEF Sides
  <2>2. CASE Kid(t, v, "right") # nil
    <3>1. c = Kid(t, v, Other("left"))
      BY <2>2 DEF child, Kid, Other
    <3>2. Kid(t, v, "left") = nil
      BY <1>2, <2>2 DEF Slim, Sides
    <3> QED BY <3>1, <3>2 DEF Sides
  <2> QED BY <2>1, <2>2
<1>4. Cut(t, t', v, c)
  <2>1. Cut(t, t', victim, child(victim))
    BY <1>2, UnlinkFields
  <2> QED BY <2>1
<1> HIDE DEF v, c
<1>5. /\ Frame(t', new, nil, nil) /\ UsedIn(t') = UsedIn(t) \ {v}
      /\ \A a \in UsedIn(t'), r \in Sides :
            Kid(t', a, r) = IF Kid(t, a, r) = v THEN c ELSE Kid(t, a, r)
      /\ \A a \in UsedIn(t), r \in Sides : Kid(t, a, r) # nil => Up(t, Kid(t, a, r)) = a
      /\ c # v /\ c \in Addr \cup {nil} /\ (c # nil => c \in UsedIn(t) /\ Up(t, c) = v)
      /\ c = nil \/ c # t.root
  BY <1>2, <1>3, <1>4, CutFrame
<1> HIDE DEF new
<1>6. /\ t' \in Trees /\ t'.root = IF t.root = v THEN c ELSE t.root
      /\ \A a \in Addr \ {v} :
            /\ t'.node[a].ids = t.node[a].ids
            /\ t'.node[a].color = IF a = c /\ t.root = v THEN BLACK ELSE t.node[a].color
  BY <1>4 DEF Cut
<1>7. /\ f \in [Addr -> Nat]
      /\ \A a \in Addr : f[a] = IF a = c /\ t.root = v /\ RedIn(t, c) THEN h[a] + 1 ELSE h[a]
  OBVIOUS
<1> HIDE DEF f
<1>8. /\ ~RedIn(t', nil) /\ ~RedIn(t, nil)
      /\ \A a \in Addr : RedIn(t, a) <=> t.node[a].color = RED
      /\ \A a \in Addr \ {v} :
            RedIn(t', a) <=> RedIn(t, a) /\ ~(a = c /\ t.root = v)
  <2>1. \A a \in Addr : RedIn(t', a) <=> t'.node[a].color = RED
    BY <1>6, ColorLaw
  <2>2. \A a \in Addr : RedIn(t, a) <=> t.node[a].color = RED
    BY <1>2, ColorLaw
  <2>3. ~RedIn(t', nil) /\ ~RedIn(t, nil)
    BY <1>2, <1>6, ColorLaw
  <2> QED BY <1>6, <2>1, <2>2, <2>3, AddrLaw
<1>9. t.root = v => Up(t, v) = nil
  BY <1>2 DEF Skeleton, Linked
<1>10. h[v] = Seen(h, nil, c)
  <2>1. Level(t, h, v, nil, v, s)
    BY <1>2 DEF Heights
  <2>2. Seen(h, nil, nil) = 0 /\ Seen(h, nil, c) \in Nat
    BY <1>5 DEF Seen
  <2> QED BY <1>3, <2>1, <2>2 DEF Level
<1>11. Heights(t', f, nil, nil)
  <2> SUFFICES ASSUME NEW a \in UsedIn(t'), NEW r \in Sides PROVE Level(t', f, nil, nil, a, r)
    BY <1>7 DEF Heights
  <2>1. a \in UsedIn(t) /\ a # v /\ a \in Addr /\ a # nil /\ Other(r) \in Sides
    BY <1>2, <1>5, SideLaw
  <2>2. Level(t, h, v, nil, a, r)
    BY <1>2, <2>1 DEF Heights
  <2>3. ASSUME NEW w \in Sides
        PROVE  /\ Seen(f, nil, Kid(t', a, w)) = Seen(h, nil, Kid(t, a, w))
               /\ Seen(h, nil, Kid(t, a, w)) \in Nat
    <3>1. Seen(h, nil, Kid(t, a, w)) \in Nat
      BY <1>2, <2>1, SeenLaw
    <3>2. CASE Kid(t, a, w) = v
      <4>1. Kid(t', a, w) = c /\ t.root # v
        BY <1>2, <1>5, <1>9, <2>1, <3>2
      <4>2. Seen(f, nil, c) = Seen(h, nil, c)
        BY <1>5, <1>7, <4>1 DEF Seen
      <4>3. Seen(h, nil, v) = h[v]
        BY <1>2 DEF Seen
      <4> QED BY <1>10, <3>1, <3>2, <4>1, <4>2, <4>3
    <3>3. CASE Kid(t, a, w) # v
      <4>1. Kid(t', a, w) = Kid(t, a, w) /\ (Kid(t, a, w) # nil => Kid(t, a, w) # c)
            /\ Kid(t, a, w) \in Addr \cup {nil}
        BY <1>2, <1>5, <2>1, <3>3, TreeFields
      <4> QED BY <1>7, <3>1, <4>1 DEF Seen
    <3> QED BY <3>2, <3>3
  <2>4. CASE a = c /\ t.root = v /\ RedIn(t, c)
    <3>1. f[a] = h[a] + 1 /\ t'.node[a].color = BLACK /\ t.node[a].color # BLACK /\ h[a] \in Nat
      BY <1>6, <1>7, <1>8, <2>1, <2>4, AddrLaw
    <3> QED BY <2>1, <2>2, <2>3, <3>1 DEF Level
  <2>5. CASE ~(a = c /\ t.root = v /\ RedIn(t, c))
    <3>1. f[a] = h[a] /\ (t'.node[a].color = BLACK <=> t.node[a].color = BLACK)
      <4>1. \A b \in Addr : ~RedIn(t, b) => t.node[b].color = BLACK
        BY <1>2, ColorLaw
      <4> QED BY <1>6, <1>7, <2>1, <2>5, <4>1
    <3> QED BY <2>1, <2>2, <2>3, <3>1 DEF Level
  <2> QED BY <2>4, <2>5
<1>12. RedsApart(t', nil, nil)
  <2> SUFFICES ASSUME NEW a \in UsedIn(t'), NEW r \in Sides, RedIn(t', a), RedIn(t', Kid(t', a, r))
               PROVE  FALSE
    BY DEF RedsApart
  <2>1. a \in UsedIn(t) /\ a # v /\ a \in Addr /\ RedIn(t, a)
    BY <1>2, <1>5, <1>8
  <2>2. \A w \in Sides : Kid(t, a, w) # nil => ~RedIn(t, Kid(t, a, w))
    BY <1>2, <2>1 DEF RedsApart
  <2>3. CASE Kid(t, a, r) = v
    <3>1. Kid(t', a, r) = c /\ ~RedIn(t, v)
      BY <1>2, <1>5, <2>2, <2>3
    <3>2. ~RedIn(t, c)
      BY <1>2, <1>3, <3>1, SideLaw DEF Slim
    <3>3. c \in Addr \ {v}
      BY <1>5, <1>8, <3>1
    <3> QED BY <1>8, <3>1, <3>2, <3>3
  <2>4. CASE Kid(t, a, r) # v
    <3>1. Kid(t', a, r) = Kid(t, a, r) /\ Kid(t, a, r) \in Addr \cup {nil}
      BY <1>2, <1>5, <2>1, <2>4, TreeFields
    <3> QED BY <1>8, <2>2, <2>4, <3>1
  <2> QED BY <2>3, <2>4
<1>13. ~RedIn(t', t'.root)
  <2>1. CASE t.root = v
    BY <1>5, <1>6, <1>8, <2>1
  <2>2. CASE t.root # v
    <3>1. t.root \in Addr \cup {nil} /\ ~RedIn(t, t.root)
      BY <1>2, <2>2, TreeFields DEF Slim
    <3> QED BY <1>6, <1>8, <2>2, <3>1
  <2> QED BY <2>1, <2>2
<1>14. Distinct(t')
  <2>1. \A a \in UsedIn(t') : t'.node[a].ids = t.node[a].ids /\ a \in UsedIn(t)
    BY <1>2, <1>5, <1>6
  <2> QED BY <1>2, <2>1 DEF Distinct
<1>15. Resting(t', new, f)
  BY <1>5, <1>11, <1>12, <1>13, <1>14 DEF Resting, Sound
<1>16. new \in [Addr -> SUBSET Addr]
  BY <1>5 DEF Frame, Skeleton, Spans
<1> QED BY <1>0, <1>7, <1>15, <1>16 DEF IInv, Good

-----------------------------------------------------------------------------
(* A new node. *)

\* A node a for the entry e hangs below p on the side s.
Hung(x, y, p, s, a, e) ==
  /\ y \in Trees /\ a \in Addr \ UsedIn(x)
  /\ y.root = IF p = nil THEN a ELSE x.root
  /\ y.node[a] = new_node(e[1], e[2], p)
  /\ \A b \in Addr \ {a} :
        /\ y.node[b].score = x.node[b].score /\ y.node[b].ids = x.node[b].ids
        /\ y.node[b].color = x.node[b].color /\ Up(y, b) = Up(x, b)
        /\ y.node[b].size = x.node[b].size + (IF b = p THEN 1 ELSE 0)
        /\ \A r \in Sides : Kid(y, b, r) = IF b = p /\ r = s THEN a ELSE Kid(x, b, r)
  /\ \A b \in Addr \ {a, p} : y.node[b] = x.node[b]

\* An entry is a score and an id.
LEMMA EntryLaw == \A e \in Entries : e[1] \in Int /\ e[2] \in Users
BY TreeAssumption DEF Users

\* new_node, field by field.
LEMMA NewNode ==
  ASSUME NEW e \in Entries, NEW p \in Addr \cup {nil}
  PROVE  LET w == new_node(e[1], e[2], p)
         IN  /\ w \in Node /\ w.ids = <<e[2]>> /\ w.ids # <<>> /\ w.score = e[1] /\ w.size = 1
             /\ w.color = RED /\ w.parent = p /\ \A r \in Sides : w[r] = nil
<1> DEFINE w == new_node(e[1], e[2], p)
<1>1. w = [left |-> nil, right |-> nil, parent |-> p, size |-> 1, color |-> RED,
           score |-> e[1], ids |-> <<e[2]>>]
  BY DEF new_node
<1>2. e[1] \in Int /\ <<e[2]>> \in Seq(Users) /\ <<e[2]>> # <<>>
  BY EntryLaw
<1> HIDE DEF w
<1>3. /\ w \in Node /\ w.left = nil /\ w.right = nil /\ w.parent = p /\ w.size = 1
      /\ w.color = RED /\ w.score = e[1] /\ w.ids = <<e[2]>>
  BY <1>1, <1>2, AddrLaw DEF Node
<1> HIDE DEF w
<1> QED BY <1>2, <1>3 DEF Sides, w

\* w is the node r with a child and one id more.
IsGrown(w, r, s, a) == w = [r EXCEPT ![s] = a, !.size = @ + 1]

\* The parent of a new node, field by field.
LEMMA GrownNode ==
  ASSUME NEW r \in Node, NEW s \in Sides, NEW a \in Addr, NEW w, IsGrown(w, r, s, a)
  PROVE  /\ w \in Node /\ w[s] = a /\ w[Other(s)] = r[Other(s)] /\ w.parent = r.parent
         /\ w.score = r.score /\ w.ids = r.ids /\ w.color = r.color /\ w.size = r.size + 1
<1>1. CASE s = "left"
  <2> DEFINE q == [r EXCEPT !.left = a]
  <2>1. w = [q EXCEPT !.size = r.size + 1]
    BY <1>1, Zenon DEF IsGrown
  <2>2. /\ q \in Node /\ q.left = a /\ q.right = r.right /\ q.parent = r.parent
        /\ q.score = r.score /\ q.ids = r.ids /\ q.color = r.color /\ r.size + 1 \in Int
    BY DEF Node
  <2> HIDE DEF q
  <2>3. /\ w \in Node /\ w.left = a /\ w.right = r.right /\ w.parent = r.parent
        /\ w.score = r.score /\ w.ids = r.ids /\ w.color = r.color /\ w.size = r.size + 1
    BY <2>1, <2>2 DEF Node
  <2> QED BY <1>1, <2>3, Zenon DEF Other
<1>2. CASE s = "right"
  <2> DEFINE q == [r EXCEPT !.right = a]
  <2>1. w = [q EXCEPT !.size = r.size + 1]
    BY <1>2, Zenon DEF IsGrown
  <2>2. /\ q \in Node /\ q.right = a /\ q.left = r.left /\ q.parent = r.parent
        /\ q.score = r.score /\ q.ids = r.ids /\ q.color = r.color /\ r.size + 1 \in Int
    BY DEF Node
  <2> HIDE DEF q
  <2>3. /\ w \in Node /\ w.right = a /\ w.left = r.left /\ w.parent = r.parent
        /\ w.score = r.score /\ w.ids = r.ids /\ w.color = r.color /\ w.size = r.size + 1
    BY <2>1, <2>2 DEF Node
  <2>4. Other(s) = "left"
    BY <1>2 DEF Other
  <2> QED BY <1>2, <2>3, <2>4
<1> QED BY <1>1, <1>2 DEF Sides

\* Link, field by field.
LEMMA LinkFields ==
  ASSUME t \in Trees, NEW p \in Addr \cup {nil}, NEW s \in Sides, NEW e \in Entries,
         p \in UsedIn(t) \cup {nil}, Link(p, s, e[1], e[2])
  PROVE  /\ Hung(t, t', p, s, n', e)
         /\ pc' = "insert_case1" /\ item' = <<>> /\ victim' = victim
<1>1. PICK a \in Addr \ UsedIn(t) :
         /\ t' = [root |-> IF p = nil THEN a ELSE t.root,
                  node |-> [b \in Addr |->
                     IF b = a THEN new_node(e[1], e[2], p)
                     ELSE IF b = p THEN [t.node[p] EXCEPT ![s] = a, !.size = @ + 1]
                     ELSE t.node[b]]]
         /\ pc' = "insert_case1" /\ n' = a /\ item' = <<>> /\ victim' = victim
  <2> DEFINE a == CHOOSE b \in Addr \ Used : \A c \in Addr \ Used : b <= c
  <2>1. Addr \ UsedIn(t) # {} /\ Addr \ UsedIn(t) \in SUBSET Nat
    BY Names, AddrLaw DEF Link, UsedIn
  <2>2. \E b \in Addr \ UsedIn(t) : \A c \in Addr \ UsedIn(t) : b <= c
    BY <2>1, Least
  <2>3. a \in Addr \ UsedIn(t)
    BY <2>2, Names
  <2>4. /\ t' = [root |-> IF p = nil THEN a ELSE t.root,
                 node |-> [b \in Addr |->
                    IF b = a THEN new_node(e[1], e[2], p)
                    ELSE IF b = p THEN [t.node[p] EXCEPT ![s] = a, !.size = @ + 1]
                    ELSE t.node[b]]]
        /\ pc' = "insert_case1" /\ n' = a /\ item' = <<>> /\ victim' = victim
    BY Zenon DEF Link
  <2> QED BY <2>3, <2>4
<1>2. a # p /\ a \in Addr /\ nil \notin Addr
  BY AddrLaw
<1>3. new_node(e[1], e[2], p) \in Node
  BY NewNode
<1>4. ASSUME NEW b \in Addr \ {a}
      PROVE  /\ t'.node[b] \in Node
             /\ t'.node[b].score = t.node[b].score /\ t'.node[b].ids = t.node[b].ids
             /\ t'.node[b].color = t.node[b].color /\ Up(t', b) = Up(t, b)
             /\ t'.node[b].size = t.node[b].size + (IF b = p THEN 1 ELSE 0)
             /\ \A r \in Sides : Kid(t', b, r) = IF b = p /\ r = s THEN a ELSE Kid(t, b, r)
             /\ b # p => t'.node[b] = t.node[b]
  <2>1. CASE b = p
    <3>1. IsGrown(t'.node[b], t.node[b], s, a)
      BY <1>1, <2>1, Zenon DEF IsGrown
    <3>2. t.node[b] \in Node
      BY TreeFields
    <3> DEFINE w == t'.node[b]  r0 == t.node[b]
    <3>3. /\ w \in Node /\ w[s] = a /\ w[Other(s)] = r0[Other(s)] /\ w.parent = r0.parent
          /\ w.score = r0.score /\ w.ids = r0.ids /\ w.color = r0.color /\ w.size = r0.size + 1
      BY <1>2, <3>1, <3>2, GrownNode
    <3>4. \A r \in Sides : r # s => r = Other(s)
      BY SideLaw
    <3> QED BY <2>1, <3>3, <3>4 DEF Up, Kid
  <2>2. CASE b # p
    <3>1. t'.node[b] = t.node[b]
      BY <1>1, <2>2
    <3>2. t.node[b] \in Node /\ t.node[b].size \in Int
      BY TreeFields
    <3> QED BY <2>2, <3>1, <3>2 DEF Up, Kid
  <2> QED BY <2>1, <2>2
<1>5. t'.node[a] = new_node(e[1], e[2], p) /\ t'.root = IF p = nil THEN a ELSE t.root
  BY <1>1, <1>2
<1>6. t' \in Trees
  <2>1. t' = [root |-> t'.root, node |-> t'.node] /\ t'.node = [b \in Addr |-> t'.node[b]]
    BY <1>1
  <2>2. \A b \in Addr : t'.node[b] \in Node
    BY <1>3, <1>4, <1>5
  <2>3. t'.node \in [Addr -> Node]
    BY <2>1, <2>2
  <2>4. t'.root \in Addr \cup {nil}
    BY <1>2, <1>5, TreeFields
  <2> QED BY <2>1, <2>3, <2>4 DEF Trees
<1>7. Hung(t, t', p, s, a, e)
  BY <1>4, <1>5, <1>6 DEF Hung
<1> QED BY <1>1, <1>7

\* The first node of a tree.
LEMMA LinkRoot ==
  ASSUME NEW x, NEW y, NEW below, NEW h, NEW s, NEW a, NEW e \in Entries,
         Resting(x, below, h), x.root = nil, Hung(x, y, nil, s, a, e)
  PROVE  Inserting(y, "insert_case1", a, [below EXCEPT ![a] = {a}], [h EXCEPT ![a] = 0])
<1> DEFINE new == [below EXCEPT ![a] = {a}]  f == [h EXCEPT ![a] = 0]
<1>1. /\ Skeleton(x, below) /\ x \in Trees /\ h \in [Addr -> Nat]
      /\ below \in [Addr -> SUBSET Addr] /\ a \in Addr /\ nil \notin Addr /\ nil \in Addr \cup {nil}
  BY AddrLaw DEF Resting, Sound, Frame, Heights, Skeleton, Spans, Hung
<1>2. UsedIn(x) = {}
  BY <1>1 DEF Skeleton, Spans, Under
<1>3. /\ y \in Trees /\ y.root = a
      /\ y.node[a].ids = <<e[2]>> /\ y.node[a].size = 1 /\ y.node[a].color = RED
      /\ Up(y, a) = nil /\ \A r \in Sides : Kid(y, a, r) = nil
      /\ y.node[a].ids # <<>>
  <2>1. y \in Trees /\ y.root = a /\ y.node[a] = new_node(e[1], e[2], nil)
    BY DEF Hung
  <2> DEFINE w == new_node(e[1], e[2], nil)
  <2>2. /\ w.ids = <<e[2]>> /\ w.ids # <<>> /\ w.size = 1
        /\ w.color = RED /\ w.parent = nil /\ \A r \in Sides : w[r] = nil
    BY <1>1, NewNode
  <2> HIDE DEF w
  <2> QED BY <2>1, <2>2 DEF Up, Kid, w
<1>4. \A b \in Addr \ {a} : y.node[b] = x.node[b] /\ y.node[b] = Free
  BY <1>1, <1>2 DEF Hung, Skeleton, Linked
<1>5. UsedIn(y) = {a}
  BY <1>1, <1>3, <1>4, FreeLaw DEF UsedIn
<1>6. Linked(y)
  BY <1>1, <1>3, <1>4, <1>5 DEF Linked
<1>7. new \in [Addr -> SUBSET Addr] /\ new[a] = {a}
  BY <1>1
<1>8. f \in [Addr -> Nat] /\ f[a] = 0
  BY <1>1
<1> HIDE DEF new, f
<1>9. Spans(y, new)
  BY <1>1, <1>3, <1>5, <1>7 DEF Spans, Under, Sides
<1>10. Ordered(y, new, nil) /\ Apart(y, nil)
  BY <1>1, <1>3, <1>5 DEF Ordered, Apart, Under
<1>11. Sized(y, nil, nil)
  <2>1. nodesize(y, Kid(y, a, "left")) = 0 /\ nodesize(y, Kid(y, a, "right")) = 0
    BY <1>3 DEF nodesize, Sides
  <2>2. Len(y.node[a].ids) = 1
    BY <1>3
  <2>3. a # nil
    BY <1>1
  <2>4. y.node[a].size = nodesize(y, Kid(y, a, "left")) + nodesize(y, Kid(y, a, "right"))
                         + Len(y.node[a].ids) + 0
    BY <1>3, <2>1, <2>2
  <2> QED BY <1>5, <2>3, <2>4 DEF Sized
<1>12. Heights(y, f, nil, nil)
  <2>1. ASSUME NEW r \in Sides PROVE Level(y, f, nil, nil, a, r)
    <3>1. Seen(f, nil, Kid(y, a, r)) = 0 /\ Seen(f, nil, Kid(y, a, Other(r))) = 0
      BY <1>3, SideLaw DEF Seen
    <3>2. a # nil
      BY <1>1
    <3> QED BY <1>3, <1>8, <3>1, <3>2, AddrLaw DEF Level
  <2> QED BY <1>5, <1>8, <2>1 DEF Heights
<1>13. RedsApart(y, nil, a)
  BY <1>3, <1>5, ColorLaw DEF RedsApart
<1>14. Distinct(y)
  BY <1>3, <1>5 DEF Distinct
<1>15. RedAt(y, "insert_case1", a)
  BY <1>1, <1>3, <1>5, ColorLaw DEF RedAt
<1>16. Frame(y, new, nil, nil)
  BY <1>3, <1>6, <1>9, <1>10, <1>11 DEF Frame, Skeleton
<1> QED BY <1>12, <1>13, <1>14, <1>15, <1>16 DEF Inserting, Sound, new, f

\* A new node at the end of the way down: the sizes above it are right again.
LEMMA LinkBelow ==
  ASSUME NEW x, NEW y, NEW below, NEW h, NEW p, NEW s \in Sides, NEW a, NEW e \in Entries,
         Descending(x, p, e, below, h), Kid(x, p, s) = nil,
         s = "left" => e[1] > x.node[p].score, s = "right" => e[1] < x.node[p].score,
         Hung(x, y, p, s, a, e)
  PROVE  \E new \in [Addr -> SUBSET Addr], f \in [Addr -> Nat] :
            Inserting(y, "insert_case1", a, new, f)
<1> DEFINE new == [g \in Addr |-> IF g = a THEN {a}
                                  ELSE IF p \in below[g] THEN below[g] \cup {a} ELSE below[g]]
           f == [h EXCEPT ![a] = 0]
<1>1. /\ Frame(x, below, nil, p) /\ Heights(x, h, nil, nil) /\ RedsApart(x, nil, nil)
      /\ Distinct(x) /\ ~RedIn(x, x.root) /\ Carried(x, below, p, e)
      /\ Skeleton(x, below) /\ x \in Trees /\ Linked(x) /\ Spans(x, below)
      /\ Ordered(x, below, nil) /\ Apart(x, nil) /\ Sized(x, nil, p)
      /\ h \in [Addr -> Nat] /\ below \in [Addr -> SUBSET Addr]
      /\ p \in UsedIn(x)
  BY DEF Descending, Frame, Skeleton, Heights, Spans, Carried
<1>2. /\ nil \notin Addr /\ UsedIn(x) \subseteq Addr /\ p \in Addr /\ p # nil
      /\ a \in Addr /\ a \notin UsedIn(x) /\ a # nil /\ a # p
  BY <1>1, AddrLaw DEF UsedIn, Hung
<1>3. /\ y \in Trees /\ y.root = x.root
      /\ \A b \in Addr \ {a} :
            /\ y.node[b].score = x.node[b].score /\ y.node[b].ids = x.node[b].ids
            /\ y.node[b].color = x.node[b].color /\ Up(y, b) = Up(x, b)
            /\ y.node[b].size = x.node[b].size + (IF b = p THEN 1 ELSE 0)
            /\ \A r \in Sides : Kid(y, b, r) = IF b = p /\ r = s THEN a ELSE Kid(x, b, r)
      /\ \A b \in Addr \ {a, p} : y.node[b] = x.node[b]
  BY <1>2 DEF Hung
<1>4. /\ y.node[a].ids = <<e[2]>> /\ y.node[a].ids # <<>> /\ y.node[a].size = 1
      /\ y.node[a].score = e[1] /\ y.node[a].color = RED
      /\ Up(y, a) = p /\ \A r \in Sides : Kid(y, a, r) = nil
  <2> DEFINE w == new_node(e[1], e[2], p)
  <2>1. y.node[a] = w
    BY DEF Hung
  <2>2. p \in Addr \cup {nil}
    BY <1>2
  <2>3. /\ w.ids = <<e[2]>> /\ w.ids # <<>> /\ w.size = 1 /\ w.score = e[1]
        /\ w.color = RED /\ w.parent = p /\ \A r \in Sides : w[r] = nil
    BY <2>2, NewNode
  <2> HIDE DEF w
  <2> QED BY <2>1, <2>3 DEF Up, Kid
<1>5. UsedIn(y) = UsedIn(x) \cup {a}
  BY <1>2, <1>3, <1>4 DEF UsedIn
<1>6. \A b \in UsedIn(x), r \in Sides :
         /\ b \in Addr /\ b # a /\ b # nil
         /\ Kid(x, b, r) \in (UsedIn(x) \ {a}) \cup {nil}
         /\ Kid(x, b, r) # nil => Up(x, Kid(x, b, r)) = b
         /\ Kid(y, b, r) = IF b = p /\ r = s THEN a ELSE Kid(x, b, r)
  BY <1>1, <1>2, <1>3, KidLaw
<1>7. Linked(y)
  <2>1. y.root \in UsedIn(y) /\ Up(y, y.root) = nil
    BY <1>1, <1>2, <1>3, <1>5, <1>6 DEF Linked, Spans, Under
  <2>2. \A b \in UsedIn(y) : \A r \in Sides :
           Kid(y, b, r) # nil => Kid(y, b, r) \in UsedIn(y) /\ Up(y, Kid(y, b, r)) = b
    BY <1>2, <1>3, <1>4, <1>5, <1>6
  <2>3. \A b \in UsedIn(y) :
           IF Up(y, b) = nil THEN b = y.root
           ELSE Up(y, b) \in UsedIn(y) /\ \E r \in Sides : Kid(y, Up(y, b), r) = b
    <3> SUFFICES ASSUME NEW b \in UsedIn(y)
                 PROVE  IF Up(y, b) = nil THEN b = y.root
                        ELSE Up(y, b) \in UsedIn(y) /\ \E r \in Sides : Kid(y, Up(y, b), r) = b
      OBVIOUS
    <3>1. CASE b = a
      BY <1>1, <1>2, <1>4, <1>5, <1>6, <3>1
    <3>2. CASE b # a
      <4>1. b \in UsedIn(x) /\ Up(y, b) = Up(x, b)
        BY <1>3, <1>5, <1>6, <3>2
      <4>2. IF Up(x, b) = nil THEN b = x.root
            ELSE Up(x, b) \in UsedIn(x) /\ \E r \in Sides : Kid(x, Up(x, b), r) = b
        BY <1>1, <4>1 DEF Linked
      <4>3. ASSUME Up(x, b) # nil
            PROVE  Up(x, b) \in UsedIn(y) /\ \E r \in Sides : Kid(y, Up(x, b), r) = b
        <5>1. PICK r \in Sides : Kid(x, Up(x, b), r) = b
          BY <4>2, <4>3
        <5>2. ~(Up(x, b) = p /\ r = s)
          BY <1>6, <4>1, <5>1
        <5> QED BY <1>5, <1>6, <4>2, <4>3, <5>1, <5>2
      <4> QED BY <1>3, <4>1, <4>2, <4>3
    <3> QED BY <3>1, <3>2
  <2>4. \A b \in Addr \ UsedIn(y) : y.node[b] = Free
    BY <1>1, <1>2, <1>3, <1>5 DEF Linked
  <2> QED BY <2>1, <2>2, <2>3, <2>4 DEF Linked
<1>8. /\ new \in [Addr -> SUBSET Addr] /\ new[a] = {a}
      /\ \A g \in Addr \ {a} : new[g] = IF p \in below[g] THEN below[g] \cup {a} ELSE below[g]
  BY <1>1, <1>2
<1> HIDE DEF new
<1>9. /\ \A g \in UsedIn(x) : below[g] \subseteq UsedIn(x) /\ g \in below[g]
                              /\ (g # p => p \notin below[g] \/ g \notin below[p])
      /\ \A g \in UsedIn(x), r \in Sides : Under(below, Kid(x, g, r)) \subseteq UsedIn(x)
      /\ \A r \in Sides : p \notin Under(below, Kid(x, p, r))
  <2>1. \A g \in UsedIn(x) : g \in below[g]
    BY <1>1 DEF Spans
  <2>2. \A g \in UsedIn(x) : \A b \in below[g] : b \in UsedIn(x) /\ (g \in below[b] => g = b)
    BY <1>1, BelowLaw
  <2>3. \A g \in UsedIn(x), r \in Sides : Under(below, Kid(x, g, r)) \subseteq below[g]
                                          /\ g \notin Under(below, Kid(x, g, r))
    BY <1>1 DEF Spans, Sides
  <2> QED BY <1>1, <2>1, <2>2, <2>3
<1>10. \A g \in UsedIn(x), r \in Sides :
          Under(new, Kid(y, g, r)) =
             IF p \in Under(below, Kid(x, g, r)) \/ (g = p /\ r = s)
             THEN Under(below, Kid(x, g, r)) \cup {a} ELSE Under(below, Kid(x, g, r))
  <2> SUFFICES ASSUME NEW g \in UsedIn(x), NEW r \in Sides
               PROVE  Under(new, Kid(y, g, r)) =
                         IF p \in Under(below, Kid(x, g, r)) \/ (g = p /\ r = s)
                         THEN Under(below, Kid(x, g, r)) \cup {a} ELSE Under(below, Kid(x, g, r))
    OBVIOUS
  <2>1. CASE g = p /\ r = s
    BY <1>2, <1>6, <1>8, <2>1 DEF Under
  <2>2. CASE ~(g = p /\ r = s)
    <3>1. Kid(y, g, r) = Kid(x, g, r) /\ Kid(x, g, r) \in (UsedIn(x) \ {a}) \cup {nil}
      BY <1>6, <2>2
    <3> QED BY <1>2, <1>8, <2>2, <3>1 DEF Under
  <2> QED BY <2>1, <2>2
<1>11. Spans(y, new)
  <2>1. Under(new, y.root) = UsedIn(y)
    <3>1. x.root # nil /\ x.root \in UsedIn(x) /\ below[x.root] = UsedIn(x)
      BY <1>1 DEF Spans, Linked, Under
    <3> QED BY <1>1, <1>2, <1>3, <1>5, <1>8, <3>1 DEF Under
  <2>2. ASSUME NEW g \in UsedIn(y)
        PROVE  /\ new[g] = {g} \cup Under(new, Kid(y, g, "left"))
                               \cup Under(new, Kid(y, g, "right"))
               /\ g \notin Under(new, Kid(y, g, "left"))
               /\ g \notin Under(new, Kid(y, g, "right"))
               /\ Under(new, Kid(y, g, "left")) \cap Under(new, Kid(y, g, "right")) = {}
    <3>0. "left" \in Sides /\ "right" \in Sides
      BY DEF Sides
    <3>1. CASE g = a
      BY <1>4, <1>8, <3>0, <3>1 DEF Under
    <3>2. CASE g # a
      <4>1. g \in UsedIn(x) /\ g \in Addr \ {a}
        BY <1>2, <1>5, <3>2
      <4> DEFINE L == Under(below, Kid(x, g, "left"))  R == Under(below, Kid(x, g, "right"))
      <4>2. /\ below[g] = {g} \cup L \cup R /\ g \notin L /\ g \notin R /\ L \cap R = {}
            /\ L \subseteq UsedIn(x) /\ R \subseteq UsedIn(x)
            /\ (g = p => p \notin L /\ p \notin R)
        BY <1>1, <1>9, <3>0, <4>1 DEF Spans
      <4>3. new[g] = IF p \in below[g] THEN below[g] \cup {a} ELSE below[g]
        BY <1>8, <4>1
      <4>4. /\ Under(new, Kid(y, g, "left")) = IF p \in L \/ (g = p /\ "left" = s)
                                               THEN L \cup {a} ELSE L
            /\ Under(new, Kid(y, g, "right")) = IF p \in R \/ (g = p /\ "right" = s)
                                                THEN R \cup {a} ELSE R
        BY <1>10, <3>0, <4>1
      <4>5. s = "left" \/ s = "right"
        BY DEF Sides
      <4> HIDE DEF L, R
      <4>6. CASE g = p /\ s = "left"
        BY <1>2, <3>2, <4>2, <4>3, <4>4, <4>6
      <4>7. CASE g = p /\ s = "right"
        BY <1>2, <3>2, <4>2, <4>3, <4>4, <4>7
      <4>8. CASE g # p
        BY <1>2, <3>2, <4>2, <4>3, <4>4, <4>8
      <4> QED BY <4>5, <4>6, <4>7, <4>8
    <3> QED BY <3>1, <3>2
  <2> QED BY <1>8, <2>1, <2>2 DEF Spans
<1>12. Ordered(y, new, nil)
  <2> SUFFICES ASSUME NEW g \in UsedIn(y), NEW r \in Sides, NEW b \in Under(new, Kid(y, g, r))
               PROVE  Before(y, r, b, g)
    BY DEF Ordered
  <2>1. g # a
    BY <1>4 DEF Under
  <2>2. g \in UsedIn(x) /\ g \in Addr \ {a}
    BY <1>2, <1>5, <2>1
  <2>3. CASE b = a
    <3>1. p \in Under(below, Kid(x, g, r)) \/ (g = p /\ r = s)
      BY <1>2, <1>9, <1>10, <2>2, <2>3
    <3>2. IF r = "left" THEN e[1] > x.node[g].score ELSE e[1] < x.node[g].score
      BY <1>1, <2>2, <3>1 DEF Carried, Sides
    <3> QED BY <1>3, <1>4, <2>2, <2>3, <3>2 DEF Before
  <2>4. CASE b # a
    <3>1. b \in Under(below, Kid(x, g, r)) /\ b \in UsedIn(x)
      BY <1>9, <1>10, <2>2, <2>4
    <3>2. Before(x, r, b, g)
      BY <1>1, <1>2, <2>2, <3>1 DEF Ordered
    <3>3. b \in Addr \ {a}
      BY <1>2, <3>1
    <3> QED BY <1>3, <2>2, <3>2, <3>3 DEF Before
  <2> QED BY <2>3, <2>4
<1>13. \A b \in UsedIn(x) : x.node[b].score # e[1]
  <2> SUFFICES ASSUME NEW b \in UsedIn(x) PROVE x.node[b].score # e[1]
    OBVIOUS
  <2>0. e[1] \in Int /\ x.node[p].score \in Int /\ x.node[b].score \in Int
    BY <1>1, <1>2, EntryLaw, TreeFields
  <2>1. CASE b \notin below[p]
    BY <1>1, <2>1 DEF Carried
  <2>2. CASE b = p
    BY <2>0, <2>2 DEF Sides
  <2>3. CASE b \in below[p] /\ b # p
    <3>1. b \in Under(below, Kid(x, p, Other(s)))
      <4>1. PICK r \in Sides : b \in Under(below, Kid(x, p, r))
        BY <1>1, <2>3 DEF Spans, Sides
      <4>2. r # s
        BY <4>1 DEF Under
      <4> QED BY <4>1, <4>2, SideLaw
    <3>2. Before(x, Other(s), b, p)
      BY <1>1, <1>2, <3>1, SideLaw DEF Ordered
    <3> QED BY <2>0, <3>2 DEF Before, Sides, Other
  <2> QED BY <2>1, <2>2, <2>3
<1>14. Apart(y, nil)
  <2> SUFFICES ASSUME NEW b \in UsedIn(y), NEW c \in UsedIn(y), y.node[b].score = y.node[c].score
               PROVE  b = c
    BY DEF Apart
  <2>1. \A g \in UsedIn(x) : y.node[g].score = x.node[g].score
    BY <1>3, <1>6
  <2>2. \A g, k \in UsedIn(x) : x.node[g].score = x.node[k].score => g = k
    BY <1>1, <1>2 DEF Apart
  <2> QED BY <1>4, <1>5, <1>13, <2>1, <2>2
<1>15. Sized(y, nil, nil)
  <2> SUFFICES ASSUME NEW g \in UsedIn(y)
               PROVE  y.node[g].size = nodesize(y, Kid(y, g, "left"))
                                       + nodesize(y, Kid(y, g, "right"))
                                       + Len(y.node[g].ids) + 0
    BY <1>2, <1>5, <1>6 DEF Sized
  <2>0. /\ \A b \in Addr \cup {nil} : nodesize(x, b) \in Int
        /\ "left" \in Sides /\ "right" \in Sides
        /\ \A b \in Addr : Len(x.node[b].ids) \in Nat
    BY <1>1, SizeLaw, TreeFields DEF Sides
  <2>1. /\ nodesize(y, nil) = 0 /\ nodesize(x, nil) = 0 /\ nodesize(y, a) = 1
        /\ \A b \in Addr \ {a} : nodesize(y, b) = nodesize(x, b) + (IF b = p THEN 1 ELSE 0)
    BY <1>2, <1>3, <1>4 DEF nodesize
  <2>2. CASE g = a
    <3>1. nodesize(y, Kid(y, a, "left")) = 0 /\ nodesize(y, Kid(y, a, "right")) = 0
      BY <1>4, <2>0, <2>1
    <3>2. Len(y.node[a].ids) = 1
      BY <1>4
    <3>3. y.node[a].size = nodesize(y, Kid(y, a, "left")) + nodesize(y, Kid(y, a, "right"))
                           + Len(y.node[a].ids) + 0
      BY <1>4, <3>1, <3>2
    <3> QED BY <2>2, <3>3
  <2>3. CASE g # a
    <3>0. g \in UsedIn(x) /\ g \in Addr \ {a} /\ g # nil
      BY <1>2, <1>5, <2>3
    <3> DEFINE dl == IF Kid(x, g, "left") = p THEN 1 ELSE 0
               dr == IF Kid(x, g, "right") = p THEN 1 ELSE 0
               el == IF g = p /\ s = "left" THEN 1 ELSE 0
               er == IF g = p /\ s = "right" THEN 1 ELSE 0
    <3>1. x.node[g].size = nodesize(x, Kid(x, g, "left")) + nodesize(x, Kid(x, g, "right"))
                           + Len(x.node[g].ids)
                           + (IF p # nil /\ (\E r \in Sides : Kid(x, g, r) = p) THEN 1 ELSE 0)
      BY <1>1, <3>0 DEF Sized
    <3>2. (IF p # nil /\ (\E r \in Sides : Kid(x, g, r) = p) THEN 1 ELSE 0) = dl + dr
      <4>1. Kid(x, g, "left") = nil \/ Kid(x, g, "left") # Kid(x, g, "right")
        <5>1. Other("left") = "right"
          BY DEF Other
        <5> QED BY <1>1, <2>0, <3>0, <5>1, KidLaw
      <4> QED BY <1>2, <4>1 DEF Sides
    <3>3. ASSUME NEW r \in Sides
          PROVE  nodesize(y, Kid(y, g, r)) = nodesize(x, Kid(x, g, r))
                                             + (IF Kid(x, g, r) = p THEN 1 ELSE 0)
                                             + (IF g = p /\ r = s THEN 1 ELSE 0)
      <4>1. Kid(x, g, r) \in (UsedIn(x) \ {a}) \cup {nil}
            /\ Kid(y, g, r) = IF g = p /\ r = s THEN a ELSE Kid(x, g, r)
        BY <1>6, <3>0
      <4>2. CASE g = p /\ r = s
        BY <1>2, <2>1, <4>1, <4>2
      <4>3. CASE ~(g = p /\ r = s)
        <5>1. Kid(y, g, r) = Kid(x, g, r)
          BY <4>1, <4>3
        <5>2. nodesize(x, Kid(x, g, r)) \in Int
          BY <1>2, <2>0, <4>1
        <5>3. nodesize(y, Kid(x, g, r)) = nodesize(x, Kid(x, g, r))
                                          + (IF Kid(x, g, r) = p THEN 1 ELSE 0)
          BY <1>2, <2>1, <4>1, <5>2
        <5> QED BY <4>3, <5>1, <5>2, <5>3
      <4> QED BY <4>2, <4>3
    <3>4. /\ nodesize(y, Kid(y, g, "left")) = nodesize(x, Kid(x, g, "left")) + dl + el
          /\ nodesize(y, Kid(y, g, "right")) = nodesize(x, Kid(x, g, "right")) + dr + er
      BY <2>0, <3>3
    <3>5. el + er = (IF g = p THEN 1 ELSE 0)
      BY DEF Sides
    <3>6. y.node[g].size = x.node[g].size + el + er /\ y.node[g].ids = x.node[g].ids
      <4>1. y.node[g].size = x.node[g].size + (IF g = p THEN 1 ELSE 0)
            /\ y.node[g].ids = x.node[g].ids /\ x.node[g].size \in Int
        BY <1>1, <1>3, <3>0, TreeFields
      <4> QED BY <3>5, <4>1
    <3>7. /\ nodesize(x, Kid(x, g, "left")) \in Int /\ nodesize(x, Kid(x, g, "right")) \in Int
          /\ Len(x.node[g].ids) \in Int /\ dl \in Int /\ dr \in Int /\ el \in Int /\ er \in Int
      BY <1>2, <1>6, <2>0, <3>0
    <3>8. x.node[g].size = nodesize(x, Kid(x, g, "left")) + nodesize(x, Kid(x, g, "right"))
                           + Len(x.node[g].ids) + (dl + dr)
      BY <3>1, <3>2
    <3> HIDE DEF dl, dr, el, er
    <3> DEFINE A == nodesize(x, Kid(x, g, "left"))  B == nodesize(x, Kid(x, g, "right"))
               C == Len(x.node[g].ids)
    <3>9. A \in Int /\ B \in Int /\ C \in Int /\ dl \in Int /\ dr \in Int /\ el \in Int /\ er \in Int
          /\ x.node[g].size = A + B + C + (dl + dr)
      BY <3>7, <3>8
    <3> HIDE DEF A, B, C
    <3>10. x.node[g].size + el + er = (A + dl + el) + (B + dr + er) + C + 0
      BY <3>9
    <3> QED BY <3>4, <3>6, <3>10 DEF A, B, C
  <2> QED BY <2>2, <2>3
<1>16. f \in [Addr -> Nat] /\ f[a] = 0 /\ \A b \in Addr \ {a} : f[b] = h[b]
  BY <1>1, <1>2
<1> HIDE DEF f
<1>17. Heights(y, f, nil, nil)
  <2> SUFFICES ASSUME NEW g \in UsedIn(y), NEW r \in Sides PROVE Level(y, f, nil, nil, g, r)
    BY <1>16 DEF Heights
  <2>1. Seen(f, nil, nil) = 0 /\ Seen(f, nil, a) = 0 /\ Seen(h, nil, nil) = 0
    BY <1>2, <1>16 DEF Seen
  <2>2. CASE g = a
    BY <1>2, <1>4, <1>16, <2>1, <2>2, SideLaw, AddrLaw DEF Level
  <2>3. CASE g # a
    <3>1. g \in UsedIn(x) /\ g \in Addr \ {a} /\ g # nil
      BY <1>2, <1>5, <2>3
    <3>2. Level(x, h, nil, nil, g, r)
      BY <1>1, <3>1 DEF Heights
    <3>3. ASSUME NEW w \in Sides PROVE Seen(f, nil, Kid(y, g, w)) = Seen(h, nil, Kid(x, g, w))
      <4>1. Kid(x, g, w) \in (UsedIn(x) \ {a}) \cup {nil}
            /\ Kid(y, g, w) = IF g = p /\ w = s THEN a ELSE Kid(x, g, w)
        BY <1>6, <3>1
      <4>2. Seen(f, nil, Kid(x, g, w)) = Seen(h, nil, Kid(x, g, w))
        BY <1>2, <1>16, <4>1 DEF Seen
      <4> QED BY <2>1, <4>1, <4>2
    <3>4. f[g] = h[g] /\ y.node[g].color = x.node[g].color
      BY <1>3, <1>16, <3>1
    <3> QED BY <3>1, <3>2, <3>3, <3>4, SideLaw DEF Level
  <2> QED BY <2>2, <2>3
<1>18. \A b \in (Addr \ {a}) \cup {nil} : RedIn(y, b) <=> RedIn(x, b)
  BY <1>3 DEF RedIn, node_color
<1>19. RedsApart(y, nil, a)
  <2> SUFFICES ASSUME NEW g \in UsedIn(y), NEW r \in Sides, RedIn(y, g), Kid(y, g, r) # a,
                      RedIn(y, Kid(y, g, r))
               PROVE  FALSE
    BY DEF RedsApart
  <2>1. g # a
    BY <1>3, <1>4, ColorLaw
  <2>2. g \in UsedIn(x) /\ Kid(y, g, r) = Kid(x, g, r)
        /\ Kid(x, g, r) \in (Addr \ {a}) \cup {nil}
    BY <1>2, <1>5, <1>6, <2>1
  <2>3. RedIn(x, g) /\ RedIn(x, Kid(x, g, r)) /\ Kid(x, g, r) # nil /\ g # nil
    BY <1>1, <1>2, <1>18, <2>1, <2>2, ColorLaw
  <2> QED BY <1>1, <2>2, <2>3 DEF RedsApart
<1>20. RedAt(y, "insert_case1", a)
  <2>1. RedIn(y, a)
    BY <1>2, <1>3, <1>4, ColorLaw
  <2>2. ~RedIn(y, y.root)
    <3>1. x.root \in (Addr \ {a}) \cup {nil}
      BY <1>1, <1>2 DEF Linked
    <3> QED BY <1>1, <1>3, <1>18, <3>1
  <2> QED BY <1>5, <2>1, <2>2 DEF RedAt
<1>21. Distinct(y)
  <2>1. \A g \in UsedIn(x) : y.node[g].ids = x.node[g].ids
    BY <1>3, <1>6
  <2> QED BY <1>1, <1>4, <1>5, <2>1 DEF Distinct
<1>22. Frame(y, new, nil, nil)
  BY <1>3, <1>7, <1>11, <1>12, <1>14, <1>15 DEF Frame, Skeleton
<1>23. Inserting(y, "insert_case1", a, new, f)
  BY <1>17, <1>19, <1>20, <1>21, <1>22 DEF Inserting, Sound
<1> QED BY <1>8, <1>16, <1>23

-----------------------------------------------------------------------------
(* Trees of the same shape. *)

Shaped(x, y) ==
  /\ y \in Trees /\ y.root = x.root /\ UsedIn(y) = UsedIn(x)
  /\ \A a \in Addr : Up(y, a) = Up(x, a) /\ \A s \in Sides : Kid(y, a, s) = Kid(x, a, s)
  /\ \A a \in Addr \ UsedIn(x) : y.node[a] = x.node[a]

\* A step that keeps every link keeps the skeleton.
LEMMA ShapedSkeleton ==
  ASSUME NEW x, NEW y, NEW below, Skeleton(x, below), Shaped(x, y)
  PROVE  Skeleton(y, below)
<1>1. /\ y \in Trees /\ y.root = x.root /\ UsedIn(y) = UsedIn(x) /\ UsedIn(x) \subseteq Addr
      /\ \A a \in Addr : Up(y, a) = Up(x, a) /\ \A s \in Sides : Kid(y, a, s) = Kid(x, a, s)
      /\ \A a \in Addr \ UsedIn(x) : y.node[a] = x.node[a]
  BY DEF Shaped, UsedIn
<1>2. Linked(y)
  <2>1. Linked(x)
    BY DEF Skeleton
  <2>2. y.root = nil \/ (y.root \in UsedIn(y) /\ Up(y, y.root) = nil)
    BY <1>1, <2>1 DEF Linked
  <2>3. \A a \in UsedIn(y) : \A s \in Sides :
           Kid(y, a, s) # nil => Kid(y, a, s) \in UsedIn(y) /\ Up(y, Kid(y, a, s)) = a
    BY <1>1, <2>1 DEF Linked
  <2>4. \A a \in UsedIn(y) :
           IF Up(y, a) = nil THEN a = y.root
           ELSE Up(y, a) \in UsedIn(y) /\ \E s \in Sides : Kid(y, Up(y, a), s) = a
    BY <1>1, <2>1 DEF Linked
  <2>5. \A a \in Addr \ UsedIn(y) : y.node[a] = Free
    BY <1>1, <2>1 DEF Linked
  <2> QED BY <2>2, <2>3, <2>4, <2>5 DEF Linked
<1>3. Spans(y, below)
  <2>1. "left" \in Sides /\ "right" \in Sides
    BY DEF Sides
  <2>2. \A a \in UsedIn(x) : Kid(y, a, "left") = Kid(x, a, "left")
                             /\ Kid(y, a, "right") = Kid(x, a, "right")
    BY <1>1, <2>1
  <2>3. Spans(x, below)
    BY DEF Skeleton
  <2> QED BY <1>1, <2>2, <2>3 DEF Spans
<1> QED BY <1>1, <1>2, <1>3 DEF Skeleton

\* A step that keeps links and scores keeps the order.
LEMMA ShapedOrdered ==
  ASSUME NEW x, NEW y, NEW below, NEW v, Skeleton(x, below), Shaped(x, y),
         \A a \in Addr : y.node[a].score = x.node[a].score
  PROVE  /\ Ordered(x, below, v) => Ordered(y, below, v)
         /\ Apart(x, v) => Apart(y, v)
<1>1. /\ UsedIn(y) = UsedIn(x) /\ UsedIn(x) \subseteq Addr
      /\ \A a \in UsedIn(x), s \in Sides : Kid(y, a, s) = Kid(x, a, s)
  BY DEF Shaped, UsedIn
<1>2. ASSUME NEW a \in UsedIn(x), NEW s \in Sides
      PROVE  Under(below, Kid(x, a, s)) \subseteq Addr
  BY <1>1, KidLaw DEF Skeleton, Spans, Under
<1>3. \A a, b \in Addr : \A r \in Sides : Before(y, r, b, a) <=> Before(x, r, b, a)
  BY DEF Before
<1> QED BY <1>1, <1>2, <1>3 DEF Ordered, Apart

\* A step that keeps links and colors keeps the heights.
LEMMA ShapedColors ==
  ASSUME NEW x, NEW y, NEW below, Skeleton(x, below), Shaped(x, y),
         \A a \in Addr : y.node[a].color = x.node[a].color
  PROVE  /\ \A h, v, d : Heights(x, h, v, d) => Heights(y, h, v, d)
         /\ \A v, r : RedsApart(x, v, r) => RedsApart(y, v, r)
         /\ \A a \in Addr \cup {nil} : RedIn(y, a) <=> RedIn(x, a)
         /\ RedIn(y, y.root) <=> RedIn(x, x.root)
<1>1. /\ UsedIn(y) = UsedIn(x) /\ UsedIn(x) \subseteq Addr /\ y.root = x.root
      /\ \A a \in UsedIn(x), s \in Sides : Kid(y, a, s) = Kid(x, a, s)
      /\ x.root \in Addr \cup {nil}
      /\ \A a \in UsedIn(x), s \in Sides : Kid(x, a, s) \in Addr \cup {nil}
  BY TreeFields DEF Shaped, UsedIn, Skeleton
<1>2. \A a \in Addr \cup {nil} : RedIn(y, a) <=> RedIn(x, a)
  BY DEF RedIn, node_color
<1>3. ASSUME NEW h, NEW v, NEW d, Heights(x, h, v, d) PROVE Heights(y, h, v, d)
  <2>1. \A a \in UsedIn(x), s \in Sides : Level(y, h, v, d, a, s) <=> Level(x, h, v, d, a, s)
    BY <1>1, SideLaw DEF Level
  <2> QED BY <1>1, <1>3, <2>1 DEF Heights
<1>4. ASSUME NEW v, NEW r, RedsApart(x, v, r) PROVE RedsApart(y, v, r)
  BY <1>1, <1>2, <1>4 DEF RedsApart
<1> QED BY <1>1, <1>2, <1>3, <1>4

\* One id more at m, and the way down goes on to d or ends.
LEMMA StepSized ==
  ASSUME NEW x, NEW y, NEW below, NEW m \in UsedIn(x), NEW d,
         Skeleton(x, below), Shaped(x, y), Sized(x, nil, m),
         d = nil \/ (d \in UsedIn(x) /\ Up(x, d) = m),
         \A b \in Addr : y.node[b].size = x.node[b].size + (IF b = m THEN 1 ELSE 0),
         \A b \in Addr : Len(y.node[b].ids) = Len(x.node[b].ids)
                                              + (IF b = m /\ d = nil THEN 1 ELSE 0)
  PROVE  Sized(y, nil, d)
<1>1. /\ UsedIn(y) = UsedIn(x) /\ UsedIn(x) \subseteq Addr /\ nil \notin Addr
      /\ \A a \in UsedIn(x), s \in Sides : Kid(y, a, s) = Kid(x, a, s)
      /\ m \in Addr /\ m # nil /\ x \in Trees
      /\ \A a \in UsedIn(x), s \in Sides :
            Kid(x, a, s) \in Addr \cup {nil} /\ (Kid(x, a, s) # nil => Up(x, Kid(x, a, s)) = a)
      /\ "left" \in Sides /\ "right" \in Sides /\ Other("left") = "right"
  BY TreeFields, AddrLaw, KidLaw DEF Shaped, UsedIn, Skeleton, Sides, Other
<1> SUFFICES ASSUME NEW g \in UsedIn(x)
             PROVE  y.node[g].size = nodesize(y, Kid(y, g, "left"))
                                     + nodesize(y, Kid(y, g, "right"))
                                     + Len(y.node[g].ids)
                                     + (IF d # nil /\ (\E s \in Sides : Kid(y, g, s) = d) THEN 1 ELSE 0)
  BY <1>1 DEF Sized
<1> DEFINE A == nodesize(x, Kid(x, g, "left"))  B == nodesize(x, Kid(x, g, "right"))
           C == Len(x.node[g].ids)
           dl == IF Kid(x, g, "left") = m THEN 1 ELSE 0
           dr == IF Kid(x, g, "right") = m THEN 1 ELSE 0
           ei == IF g = m /\ d = nil THEN 1 ELSE 0
           ed == IF g = m /\ d # nil THEN 1 ELSE 0
<1>2. g \in Addr /\ g # nil
  BY <1>1
<1>3. x.node[g].size = A + B + C + (dl + dr)
  <2>1. x.node[g].size = A + B + C
                         + (IF m # nil /\ (\E s \in Sides : Kid(x, g, s) = m) THEN 1 ELSE 0)
    BY <1>2 DEF Sized
  <2>2. Kid(x, g, "left") = nil \/ Kid(x, g, "left") # Kid(x, g, "right")
    BY <1>1, KidLaw
  <2>3. (IF m # nil /\ (\E s \in Sides : Kid(x, g, s) = m) THEN 1 ELSE 0) = dl + dr
    BY <1>1, <2>2 DEF Sides
  <2> QED BY <2>1, <2>3
<1>4. /\ nodesize(y, Kid(y, g, "left")) = A + dl /\ nodesize(y, Kid(y, g, "right")) = B + dr
      /\ A \in Int /\ B \in Int /\ C \in Int
  <2>1. \A b \in Addr \cup {nil} : nodesize(x, b) \in Int
    BY <1>1, SizeLaw
  <2>2. \A b \in Addr \cup {nil} : nodesize(y, b) = nodesize(x, b) + (IF b = m THEN 1 ELSE 0)
    BY <1>1 DEF nodesize
  <2>3. C \in Int
    BY <1>1, <1>2, TreeFields
  <2> QED BY <1>1, <2>1, <2>2, <2>3
<1>5. (IF d # nil /\ (\E s \in Sides : Kid(y, g, s) = d) THEN 1 ELSE 0) = ed
  <2>1. CASE d = nil
    BY <2>1
  <2>2. CASE d # nil
    <3>1. \E s \in Sides : Kid(x, m, s) = d
      BY <1>1, <2>2 DEF Skeleton, Linked
    <3>2. (\E s \in Sides : Kid(y, g, s) = d) <=> g = m
      BY <1>1, <2>2, <3>1
    <3> QED BY <2>2, <3>2
  <2> QED BY <2>1, <2>2
<1>6. y.node[g].size = x.node[g].size + (ei + ed) /\ Len(y.node[g].ids) = C + ei
  <2>1. y.node[g].size = x.node[g].size + (IF g = m THEN 1 ELSE 0)
    BY <1>2
  <2>2. (IF g = m THEN 1 ELSE 0) = ei + ed
    OBVIOUS
  <2> QED BY <1>2, <2>1, <2>2
<1>7. dl \in Int /\ dr \in Int /\ ei \in Int /\ ed \in Int
  OBVIOUS
<1> HIDE DEF A, B, C, dl, dr, ei, ed
<1>8. y.node[g].size = (A + dl) + (B + dr) + (C + ei) + ed
  BY <1>3, <1>4, <1>6, <1>7
<1> QED BY <1>4, <1>5, <1>6, <1>8

-----------------------------------------------------------------------------
(* The way down of an insertion. *)

\* y is x but for the size k, or the ids l, of m.
Counted(x, y, m, k) ==
  /\ y \in Trees /\ y.root = x.root
  /\ \A b \in Addr :
        /\ y.node[b].score = x.node[b].score /\ y.node[b].ids = x.node[b].ids
        /\ y.node[b].color = x.node[b].color /\ Up(y, b) = Up(x, b)
        /\ y.node[b].size = (IF b = m THEN k ELSE x.node[b].size)
        /\ \A s \in Sides : Kid(y, b, s) = Kid(x, b, s)
        /\ b # m => y.node[b] = x.node[b]
Renamed(x, y, m, l) ==
  /\ y \in Trees /\ y.root = x.root
  /\ \A b \in Addr :
        /\ y.node[b].score = x.node[b].score /\ y.node[b].size = x.node[b].size
        /\ y.node[b].color = x.node[b].color /\ Up(y, b) = Up(x, b)
        /\ y.node[b].ids = (IF b = m THEN l ELSE x.node[b].ids)
        /\ \A s \in Sides : Kid(y, b, s) = Kid(x, b, s)
        /\ b # m => y.node[b] = x.node[b]

\* One size is set.
LEMMA SizeSet ==
  ASSUME NEW x \in Trees, NEW m \in Addr, NEW k \in Int
  PROVE  Counted(x, [x EXCEPT !.node[m].size = k], m, k)
<1> DEFINE y == [x EXCEPT !.node[m].size = k]
<1>1. /\ y.root = x.root /\ y = [root |-> y.root, node |-> y.node]
      /\ y.node = [x.node EXCEPT ![m] = [x.node[m] EXCEPT !.size = k]]
      /\ x.root \in Addr \cup {nil} /\ x.node \in [Addr -> Node] /\ x.node[m] \in Node
  BY DEF Trees
<1> DEFINE w == [x.node[m] EXCEPT !.size = k]
<1>2. /\ w \in Node /\ w.score = x.node[m].score /\ w.ids = x.node[m].ids
      /\ w.color = x.node[m].color /\ w.parent = x.node[m].parent /\ w.size = k
      /\ w.left = x.node[m].left /\ w.right = x.node[m].right
  BY <1>1 DEF Node
<1> HIDE DEF y, w
<1>3. y.node = [x.node EXCEPT ![m] = w]
  BY <1>1 DEF w
<1>4. y.node[m] = w /\ \A b \in Addr \ {m} : y.node[b] = x.node[b]
  BY <1>1, <1>3
<1>5. y \in Trees
  BY <1>1, <1>2, <1>3 DEF Trees
<1>6. ASSUME NEW b \in Addr
      PROVE  /\ y.node[b].score = x.node[b].score /\ y.node[b].ids = x.node[b].ids
             /\ y.node[b].color = x.node[b].color /\ Up(y, b) = Up(x, b)
             /\ y.node[b].size = (IF b = m THEN k ELSE x.node[b].size)
             /\ \A s \in Sides : Kid(y, b, s) = Kid(x, b, s)
             /\ b # m => y.node[b] = x.node[b]
  BY <1>2, <1>4 DEF Up, Kid, Sides
<1>7. Counted(x, y, m, k)
  BY <1>1, <1>5, <1>6 DEF Counted
<1> QED BY <1>7 DEF y

\* The ids of one node are set.
LEMMA IdsSet ==
  ASSUME NEW x \in Trees, NEW m \in Addr, NEW l \in Seq(Users)
  PROVE  Renamed(x, [x EXCEPT !.node[m].ids = l], m, l)
<1> DEFINE y == [x EXCEPT !.node[m].ids = l]
<1>1. /\ y.root = x.root /\ y = [root |-> y.root, node |-> y.node]
      /\ y.node = [x.node EXCEPT ![m] = [x.node[m] EXCEPT !.ids = l]]
      /\ x.root \in Addr \cup {nil} /\ x.node \in [Addr -> Node] /\ x.node[m] \in Node
  BY DEF Trees
<1> DEFINE w == [x.node[m] EXCEPT !.ids = l]
<1>2. /\ w \in Node /\ w.score = x.node[m].score /\ w.size = x.node[m].size
      /\ w.color = x.node[m].color /\ w.parent = x.node[m].parent /\ w.ids = l
      /\ w.left = x.node[m].left /\ w.right = x.node[m].right
  BY <1>1 DEF Node
<1> HIDE DEF y, w
<1>3. y.node = [x.node EXCEPT ![m] = w]
  BY <1>1 DEF w
<1>4. y.node[m] = w /\ \A b \in Addr \ {m} : y.node[b] = x.node[b]
  BY <1>1, <1>3
<1>5. y \in Trees
  BY <1>1, <1>2, <1>3 DEF Trees
<1>6. ASSUME NEW b \in Addr
      PROVE  /\ y.node[b].score = x.node[b].score /\ y.node[b].size = x.node[b].size
             /\ y.node[b].color = x.node[b].color /\ Up(y, b) = Up(x, b)
             /\ y.node[b].ids = (IF b = m THEN l ELSE x.node[b].ids)
             /\ \A s \in Sides : Kid(y, b, s) = Kid(x, b, s)
             /\ b # m => y.node[b] = x.node[b]
  BY <1>2, <1>4 DEF Up, Kid, Sides
<1>7. Renamed(x, y, m, l)
  BY <1>1, <1>5, <1>6 DEF Renamed
<1> QED BY <1>7 DEF y

\* The facts of the two phases in which nothing is under repair.
LEMMA DescendFacts ==
  ASSUME NEW x, NEW a, NEW e, NEW below, NEW h, Descending(x, a, e, below, h)
  PROVE  /\ Frame(x, below, nil, a) /\ Heights(x, h, nil, nil) /\ RedsApart(x, nil, nil)
         /\ Distinct(x) /\ ~RedIn(x, x.root) /\ Carried(x, below, a, e)
         /\ x \in Trees /\ Skeleton(x, below) /\ h \in [Addr -> Nat]
         /\ Ordered(x, below, nil) /\ Apart(x, nil) /\ Sized(x, nil, a)
         /\ a \in UsedIn(x) /\ a \in Addr /\ a # nil /\ nil \notin Addr /\ e \in Entries
BY AddrLaw DEF Descending, Frame, Skeleton, Heights, Carried, UsedIn

\* What holds between two calls.
LEMMA RestFacts ==
  ASSUME NEW x, NEW below, NEW h, Resting(x, below, h)
  PROVE  /\ Frame(x, below, nil, nil) /\ Heights(x, h, nil, nil) /\ RedsApart(x, nil, nil)
         /\ Distinct(x) /\ ~RedIn(x, x.root) /\ Linked(x)
         /\ x \in Trees /\ Skeleton(x, below) /\ h \in [Addr -> Nat]
         /\ Ordered(x, below, nil) /\ Apart(x, nil) /\ Sized(x, nil, nil)
         /\ x.root \in Addr \cup {nil} /\ nil \notin Addr
BY AddrLaw, TreeFields DEF Resting, Sound, Frame, Skeleton, Heights

\* Insert takes an id that is not in the tree down from the root, or makes it the
\* root of the empty tree.
LEMMA InsertStep == ASSUME NEW e \in Entries PROVE IInv /\ Insert(e[1], e[2]) => IInv'
<1> SUFFICES ASSUME IInv, Insert(e[1], e[2]) PROVE IInv'
  OBVIOUS
<1> PICK below \in [Addr -> SUBSET Addr], h \in [Addr -> Nat] :
         Good(t, pc, n, item, victim, below, h)
  BY DEF IInv
<1>0. pc = "idle"
  BY DEF Insert
<1>1. n = nil /\ item = <<>> /\ victim = nil /\ Resting(t, below, h)
  BY <1>0, Phases
<1>2. /\ Frame(t, below, nil, nil) /\ Heights(t, h, nil, nil) /\ RedsApart(t, nil, nil)
      /\ Distinct(t) /\ ~RedIn(t, t.root) /\ Linked(t)
      /\ t \in Trees /\ Skeleton(t, below) /\ h \in [Addr -> Nat]
      /\ Ordered(t, below, nil) /\ Apart(t, nil) /\ Sized(t, nil, nil)
      /\ t.root \in Addr \cup {nil} /\ nil \notin Addr
  BY <1>1, RestFacts
<1>3. CASE t.root = nil
  <2>1. Link(nil, "left", e[1], e[2])
    BY <1>3 DEF Insert
  <2>2. /\ Hung(t, t', nil, "left", n', e)
        /\ pc' = "insert_case1" /\ item' = <<>> /\ victim' = victim
    BY <1>2, <2>1, LinkFields DEF Sides
  <2>3. Inserting(t', "insert_case1", n', [below EXCEPT ![n'] = {n'}], [h EXCEPT ![n'] = 0])
    BY <1>1, <1>3, <2>2, LinkRoot
  <2>4. n' \in Addr
    BY <2>2 DEF Hung
  <2>5. /\ [below EXCEPT ![n'] = {n'}] \in [Addr -> SUBSET Addr]
        /\ [h EXCEPT ![n'] = 0] \in [Addr -> Nat]
    BY <1>2, <2>4
  <2>6. "insert_case1" \in Inserts
    BY DEF Inserts
  <2> QED BY <1>1, <2>2, <2>3, <2>5, <2>6 DEF IInv, Good
<1>4. CASE t.root # nil
  <2> DEFINE d == t.root
  <2>1. pc' = "descend" /\ n' = d /\ item' = <<e[1], e[2]>> /\ t' = t /\ victim' = victim
    BY <1>4 DEF Insert
  <2>2. <<e[1], e[2]>> = e
    BY TreeAssumption
  <2>3. d \in UsedIn(t) /\ Up(t, d) = nil /\ below[d] = UsedIn(t)
    BY <1>2, <1>4 DEF Skeleton, Linked, Spans, Under
  <2>4. \A a \in UsedIn(t), s \in Sides : Kid(t, a, s) # nil => Up(t, Kid(t, a, s)) = a
    BY <1>2, KidLaw
  <2>5. Sized(t, nil, d)
    <3>1. \A a \in UsedIn(t) : a # nil /\ ~(\E s \in Sides : Kid(t, a, s) = d)
      BY <1>2, <1>4, <2>3, <2>4 DEF UsedIn
    <3> QED BY <1>2, <3>1 DEF Sized
  <2>6. Carried(t, below, d, e)
    <3>1. \A b \in UsedIn(t) : \A k \in DOMAIN t.node[b].ids : t.node[b].ids[k] # e[2]
      BY Names DEF Insert
    <3>2. ASSUME NEW b \in UsedIn(t), NEW s \in Sides, d \in Under(below, Kid(t, b, s))
          PROVE  FALSE
      <4> DEFINE k == Kid(t, b, s)
      <4>1. k # nil /\ d \in below[k]
        BY <3>2 DEF Under
      <4>2. k \in UsedIn(t) /\ Up(t, k) = b /\ b # nil
        BY <1>2, <4>1, KidLaw DEF UsedIn
      <4>3. d # k
        BY <2>3, <4>2
      <4> HIDE DEF k
      <4> QED BY <1>2, <2>3, <4>1, <4>2, <4>3, BelowLaw
    <3> QED BY <2>3, <3>1, <3>2 DEF Carried, Sides
  <2>7. Descending(t, d, e, below, h)
    BY <1>2, <2>5, <2>6 DEF Descending, Frame
  <2> QED BY <1>1, <2>1, <2>2, <2>7 DEF IInv, Good
<1> QED BY <1>3, <1>4

\* One step down: the id joins the node of its score, becomes a node, or is counted
\* one node lower.
LEMMA DescendStep == IInv /\ Descend => IInv'
<1> SUFFICES ASSUME IInv, Descend PROVE IInv'
  OBVIOUS
<1> PICK below \in [Addr -> SUBSET Addr], h \in [Addr -> Nat] :
         Good(t, pc, n, item, victim, below, h)
  BY DEF IInv
<1> DEFINE s == Descend_Side(t.node[n].score, item[1])
<1>0. pc = "descend"
  BY DEF Descend
<1>1. victim = nil /\ Descending(t, n, item, below, h)
  BY <1>0, Phases
<1>2. /\ Frame(t, below, nil, n) /\ Heights(t, h, nil, nil) /\ RedsApart(t, nil, nil)
      /\ Distinct(t) /\ ~RedIn(t, t.root) /\ Carried(t, below, n, item)
      /\ t \in Trees /\ Skeleton(t, below) /\ h \in [Addr -> Nat]
      /\ Ordered(t, below, nil) /\ Apart(t, nil) /\ Sized(t, nil, n)
      /\ n \in UsedIn(t) /\ n \in Addr /\ n # nil /\ nil \notin Addr /\ item \in Entries
  BY <1>1, DescendFacts
<1>3. item[1] \in Int /\ item[2] \in Users /\ t.node[n].score \in Int
      /\ t.node[n].size \in Int /\ t.node[n].ids \in Seq(Users)
  BY <1>2, EntryLaw, TreeFields
<1>4. /\ s \in Sides
      /\ item[1] # t.node[n].score =>
            /\ s = "left" => item[1] > t.node[n].score
            /\ s = "right" => item[1] < t.node[n].score
  BY <1>3 DEF Descend_Side, Sides
<1>5. CASE item[1] = t.node[n].score
  <2> DEFINE x == [t EXCEPT !.node[n].size = t.node[n].size + 1]
             l == Append(t.node[n].ids, item[2])
             y == [x EXCEPT !.node[n].ids = l]
  <2>1. t' = y /\ pc' = "idle" /\ n' = nil /\ item' = <<>> /\ victim' = nil
    BY <1>5 DEF Descend, Return
  <2>2. l \in Seq(Users) /\ Len(l) = Len(t.node[n].ids) + 1 /\ l # <<>>
    BY <1>3
  <2>3. /\ x \in Trees /\ x.root = t.root
        /\ \A b \in Addr :
              /\ x.node[b].score = t.node[b].score /\ x.node[b].ids = t.node[b].ids
              /\ x.node[b].color = t.node[b].color /\ Up(x, b) = Up(t, b)
              /\ x.node[b].size = (IF b = n THEN t.node[n].size + 1 ELSE t.node[b].size)
              /\ \A r \in Sides : Kid(x, b, r) = Kid(t, b, r)
              /\ b # n => x.node[b] = t.node[b]
    <3>1. t.node[n].size + 1 \in Int
      BY <1>3
    <3>2. Counted(t, x, n, t.node[n].size + 1)
      BY <1>2, <3>1, SizeSet
    <3> QED BY <3>2 DEF Counted
  <2> HIDE DEF x
  <2>4. /\ y \in Trees /\ y.root = x.root
        /\ \A b \in Addr :
              /\ y.node[b].score = x.node[b].score /\ y.node[b].size = x.node[b].size
              /\ y.node[b].color = x.node[b].color /\ Up(y, b) = Up(x, b)
              /\ y.node[b].ids = (IF b = n THEN l ELSE x.node[b].ids)
              /\ \A r \in Sides : Kid(y, b, r) = Kid(x, b, r)
              /\ b # n => y.node[b] = x.node[b]
    <3>1. Renamed(x, y, n, l)
      BY <1>2, <2>2, <2>3, IdsSet
    <3> QED BY <3>1 DEF Renamed
  <2> HIDE DEF y, l
  <2>5. UsedIn(y) = UsedIn(t)
    BY <1>2, <2>2, <2>3, <2>4 DEF UsedIn
  <2>6. Shaped(t, y)
    BY <1>2, <2>3, <2>4, <2>5 DEF Shaped
  <2>7. /\ \A b \in Addr : /\ y.node[b].score = t.node[b].score
                           /\ y.node[b].color = t.node[b].color
                           /\ y.node[b].ids = (IF b = n THEN l ELSE t.node[b].ids)
    BY <2>3, <2>4
  <2>8. \A b \in Addr : y.node[b].size = t.node[b].size + (IF b = n THEN 1 ELSE 0)
    BY <1>2, <2>3, <2>4, TreeFields
  <2>9. \A b \in Addr : Len(y.node[b].ids) = Len(t.node[b].ids)
                                             + (IF b = n /\ nil = nil THEN 1 ELSE 0)
    <3>1. \A b \in Addr : Len(t.node[b].ids) \in Nat
      BY <1>2, TreeFields
    <3>2. ASSUME NEW b \in Addr
          PROVE  Len(y.node[b].ids) = Len(t.node[b].ids) + (IF b = n THEN 1 ELSE 0)
      <4>1. CASE b = n
        <5>1. y.node[b].ids = l
          BY <2>7, <4>1
        <5> QED BY <2>2, <4>1, <5>1
      <4>2. CASE b # n
        <5>1. y.node[b].ids = t.node[b].ids
          BY <2>7, <4>2
        <5> QED BY <3>1, <4>2, <5>1
      <4> QED BY <4>1, <4>2
    <3> QED BY <3>2
  <2>10. Sized(y, nil, nil)
    BY <1>2, <2>6, <2>8, <2>9, StepSized
  <2>11. Frame(y, below, nil, nil)
    BY <1>2, <2>6, <2>7, <2>10, ShapedSkeleton, ShapedOrdered DEF Frame
  <2>12. Heights(y, h, nil, nil) /\ RedsApart(y, nil, nil) /\ ~RedIn(y, y.root)
    BY <1>2, <2>6, <2>7, ShapedColors
  <2>13. Distinct(y)
    <3>1. \A j, k \in DOMAIN l : l[j] = l[k] => j = k
      <4>1. \A j, k \in DOMAIN t.node[n].ids : t.node[n].ids[j] = t.node[n].ids[k] => j = k
        BY <1>2 DEF Distinct
      <4>2. \A k \in DOMAIN t.node[n].ids : t.node[n].ids[k] # item[2]
        BY <1>2 DEF Carried
      <4> DEFINE m == t.node[n].ids
      <4>3. /\ DOMAIN m = 1 .. Len(m) /\ Len(m) \in Nat /\ DOMAIN l = 1 .. (Len(m) + 1)
            /\ \A k \in 1 .. Len(m) : l[k] = m[k]
            /\ l[Len(m) + 1] = item[2]
        BY <1>3 DEF l
      <4> HIDE DEF m, l
      <4>4. \A k \in 1 .. (Len(m) + 1) : k = Len(m) + 1 \/ k \in 1 .. Len(m)
        BY <4>3
      <4> QED BY <4>1, <4>2, <4>3, <4>4 DEF m
    <3> QED BY <1>2, <2>5, <2>7, <3>1 DEF Distinct, UsedIn
  <2>14. Resting(y, below, h)
    BY <2>11, <2>12, <2>13 DEF Resting, Sound
  <2> QED BY <1>2, <2>1, <2>14 DEF IInv, Good
<1>6. CASE item[1] # t.node[n].score /\ Kid(t, n, s) = nil
  <2>1. Link(n, s, item[1], item[2])
    BY <1>6 DEF Descend, Kid
  <2>2. /\ Hung(t, t', n, s, n', item)
        /\ pc' = "insert_case1" /\ item' = <<>> /\ victim' = victim
    BY <1>2, <1>4, <2>1, LinkFields
  <2> HIDE DEF s
  <2>3. PICK new \in [Addr -> SUBSET Addr], f \in [Addr -> Nat] :
           Inserting(t', "insert_case1", n', new, f)
    BY <1>1, <1>2, <1>4, <1>6, <2>2, LinkBelow
  <2>4. "insert_case1" \in Inserts
    BY DEF Inserts
  <2> QED BY <1>1, <2>2, <2>3, <2>4 DEF IInv, Good
<1>7. CASE item[1] # t.node[n].score /\ Kid(t, n, s) # nil
  <2> DEFINE y == [t EXCEPT !.node[n].size = t.node[n].size + 1]
             k == Kid(t, n, s)
  <2>1. t' = y /\ pc' = "descend" /\ n' = k /\ item' = item /\ victim' = victim
    BY <1>7 DEF Descend, Goto, Kid
  <2>2. /\ y \in Trees /\ y.root = t.root
        /\ \A b \in Addr :
              /\ y.node[b].score = t.node[b].score /\ y.node[b].ids = t.node[b].ids
              /\ y.node[b].color = t.node[b].color /\ Up(y, b) = Up(t, b)
              /\ y.node[b].size = (IF b = n THEN t.node[n].size + 1 ELSE t.node[b].size)
              /\ \A r \in Sides : Kid(y, b, r) = Kid(t, b, r)
              /\ b # n => y.node[b] = t.node[b]
    <3>1. t.node[n].size + 1 \in Int
      BY <1>3
    <3>2. Counted(t, y, n, t.node[n].size + 1)
      BY <1>2, <3>1, SizeSet
    <3> QED BY <3>2 DEF Counted
  <2> HIDE DEF y
  <2>3. UsedIn(y) = UsedIn(t)
    BY <2>2 DEF UsedIn
  <2>4. Shaped(t, y)
    BY <1>2, <2>2, <2>3 DEF Shaped
  <2>5. /\ k \in UsedIn(t) /\ Up(t, k) = n /\ k \in below[k] /\ below[k] \subseteq below[n]
        /\ n \notin below[k] /\ k # nil
    BY <1>2, <1>4, <1>7, KidLaw
  <2> HIDE DEF k
  <2>6. \A b \in Addr : y.node[b].size = t.node[b].size + (IF b = n THEN 1 ELSE 0)
    BY <1>2, <2>2, TreeFields
  <2>7. \A b \in Addr : Len(y.node[b].ids) = Len(t.node[b].ids)
                                             + (IF b = n /\ k = nil THEN 1 ELSE 0)
    BY <1>2, <2>2, <2>5, TreeFields
  <2>8. Sized(y, nil, k)
    BY <1>2, <2>4, <2>5, <2>6, <2>7, StepSized
  <2>9. Frame(y, below, nil, k)
    BY <1>2, <2>2, <2>4, <2>8, ShapedSkeleton, ShapedOrdered DEF Frame
  <2>10. Heights(y, h, nil, nil) /\ RedsApart(y, nil, nil) /\ ~RedIn(y, y.root)
    BY <1>2, <2>2, <2>4, ShapedColors
  <2>11. Distinct(y)
    BY <1>2, <2>2, DistinctLaw
  <2>12. UsedIn(t) \subseteq Addr
    BY DEF UsedIn
  <2>13. ASSUME NEW b \in UsedIn(t) \ below[k] PROVE t.node[b].score # item[1]
    <3>0. t.node[b].score \in Int
      BY <1>2, <2>12, TreeFields
    <3>1. CASE b \notin below[n]
      BY <1>2, <3>1 DEF Carried
    <3>2. CASE b = n
      BY <1>7, <3>2
    <3>3. CASE b \in below[n] /\ b # n
      <4>1. b \in Under(below, Kid(t, n, Other(s)))
        <5>1. PICK r \in Sides : b \in Under(below, Kid(t, n, r))
          BY <1>2, <3>3 DEF Skeleton, Spans, Sides
        <5>2. r # s
          BY <2>5, <5>1, <2>13 DEF Under, k
        <5> QED BY <1>4, <5>1, <5>2, SideLaw
      <4>2. Before(t, Other(s), b, n)
        BY <1>2, <1>4, <4>1, SideLaw, <2>12 DEF Ordered
      <4> QED BY <1>3, <1>4, <1>7, <3>0, <4>2 DEF Before, Sides, Other
    <3> QED BY <3>1, <3>2, <3>3
  <2>14. ASSUME NEW b \in UsedIn(t), NEW r \in Sides, k \in Under(below, Kid(t, b, r))
         PROVE  IF r = "left" THEN item[1] > t.node[b].score ELSE item[1] < t.node[b].score
    <3> DEFINE j == Kid(t, b, r)
    <3>1. j # nil /\ k \in below[j]
      BY <2>14 DEF Under
    <3>2. j \in UsedIn(t) /\ Up(t, j) = b
      BY <1>2, <3>1, KidLaw
    <3> HIDE DEF j
    <3>3. CASE k = j
      <4>1. b = n
        BY <2>5, <3>2, <3>3
      <4>2. r = s
        <5>1. Kid(t, n, r) = Kid(t, n, s)
          BY <3>3, <4>1 DEF j, k
        <5>2. Kid(t, n, s) # Kid(t, n, Other(s))
          BY <1>2, <1>4, <1>7, KidLaw
        <5> QED BY <1>4, <5>1, <5>2, SideLaw
      <4> QED BY <1>4, <1>7, <4>1, <4>2 DEF Sides
    <3>4. CASE k # j
      <4>1. n \in below[j]
        BY <1>2, <2>5, <3>1, <3>2, <3>4, BelowLaw
      <4>2. n \in Under(below, Kid(t, b, r))
        BY <3>1, <4>1 DEF Under, j
      <4> QED BY <1>2, <4>2 DEF Carried, Sides
    <3> QED BY <3>3, <3>4
  <2>15. Carried(y, below, k, item)
    <3>1. /\ \A b \in UsedIn(y) : \A i \in DOMAIN y.node[b].ids : y.node[b].ids[i] # item[2]
          /\ \A b \in UsedIn(y) \ below[k] : y.node[b].score # item[1]
      BY <1>2, <2>2, <2>3, <2>12, <2>13 DEF Carried
    <3>2. "left" \in Sides /\ "right" \in Sides
      BY DEF Sides
    <3>3. \A b \in UsedIn(y) :
            /\ k \in Under(below, Kid(y, b, "left")) => item[1] > y.node[b].score
            /\ k \in Under(below, Kid(y, b, "right")) => item[1] < y.node[b].score
      BY <2>2, <2>3, <2>12, <2>14, <3>2
    <3> QED BY <1>2, <2>3, <2>5, <3>1, <3>3 DEF Carried
  <2>16. Descending(y, k, item, below, h)
    BY <2>9, <2>10, <2>11, <2>15 DEF Descending
  <2> QED BY <1>1, <1>2, <2>1, <2>16 DEF IInv, Good
<1> QED BY <1>5, <1>6, <1>7

-----------------------------------------------------------------------------
(* The nodes above a node, and the last one below it. *)

\* fixup_size walks exactly the nodes above its node.
LEMMA AboveLaw ==
  ASSUME NEW below, Skeleton(t, below)
  PROVE  \A a \in UsedIn(t) : Above[a] = {g \in UsedIn(t) : a \in below[g]}
<1> DEFINE R(a) == {g \in UsedIn(t) : a \in below[g]}
           f == [a \in Addr \cup {nil} |-> IF a = nil THEN {}
                                           ELSE IF a \in UsedIn(t) THEN R(a) ELSE {a}]
<1>0. /\ nil \notin Addr /\ UsedIn(t) \subseteq Addr /\ t \in Trees
      /\ \A a \in UsedIn(t) : Up(t, a) \in UsedIn(t) \cup {nil}
      /\ \A a \in Addr \ UsedIn(t) : Up(t, a) = nil
      /\ \A a : parent(a) = Up(t, a)
  BY AddrLaw DEF Skeleton, Linked, UsedIn, Free, Up, parent
<1>1. ASSUME NEW a \in UsedIn(t)
      PROVE  R(a) = {a} \cup (IF Up(t, a) = nil THEN {} ELSE R(Up(t, a)))
  <2>1. a \in below[a]
    BY DEF Skeleton, Spans
  <2>2. CASE Up(t, a) = nil
    <3>1. \A g \in UsedIn(t) : a \in below[g] => g = a
      BY <2>2, BelowLaw
    <3> QED BY <2>1, <2>2, <3>1
  <2>3. CASE Up(t, a) # nil
    <3>1. Up(t, a) \in UsedIn(t)
      BY <1>0, <2>3
    <3>2. PICK s \in Sides : Kid(t, Up(t, a), s) = a
      BY <2>3 DEF Skeleton, Linked
    <3>3. a \in below[Up(t, a)]
      BY <1>0, <2>1, <3>1, <3>2, KidLaw
    <3>4. \A g \in UsedIn(t) : Up(t, a) \in below[g] => a \in below[g]
      BY <3>3, BelowLaw
    <3>5. \A g \in UsedIn(t) : a \in below[g] => g = a \/ Up(t, a) \in below[g]
      BY BelowLaw
    <3> QED BY <2>1, <2>3, <3>4, <3>5
  <2> QED BY <2>2, <2>3
<1> HIDE DEF R
<1>2. f = [a \in Addr \cup {nil} |-> IF a = nil THEN {} ELSE {a} \cup f[parent(a)]]
  <2> SUFFICES ASSUME NEW a \in Addr \cup {nil}
               PROVE  f[a] = IF a = nil THEN {} ELSE {a} \cup f[parent(a)]
    OBVIOUS
  <2>1. CASE a = nil
    BY <2>1
  <2>2. CASE a \in UsedIn(t)
    BY <1>0, <1>1, <2>2
  <2>3. CASE a \in Addr \ UsedIn(t)
    BY <1>0, <2>3
  <2> QED BY <2>1, <2>2, <2>3
<1> HIDE DEF f
<1>3. Above = [a \in Addr \cup {nil} |-> IF a = nil THEN {} ELSE {a} \cup Above[parent(a)]]
  BY <1>2 DEF Above
<1>4. \A a \in UsedIn(t) : Above[a] = {a} \cup Above[Up(t, a)]
  BY <1>0, <1>3
<1>5. Above[nil] = {}
  BY <1>3
<1> DEFINE T == {a \in UsedIn(t) : Above[a] # R(a)}
<1>6. T = {}
  <2> SUFFICES ASSUME T # {} PROVE FALSE
    OBVIOUS
  <2>1. PICK a \in T : Up(t, a) \notin T
    <3>1. T \in SUBSET UsedIn(t)
      OBVIOUS
    <3> HIDE DEF T
    <3> QED BY <3>1, Highest
  <2>2. a \in UsedIn(t) /\ Above[a] # R(a)
    OBVIOUS
  <2>3. CASE Up(t, a) = nil
    BY <1>1, <1>4, <1>5, <2>2, <2>3
  <2>4. CASE Up(t, a) # nil
    <3>1. Above[Up(t, a)] = R(Up(t, a))
      BY <1>0, <2>1, <2>2, <2>4
    <3> QED BY <1>1, <1>4, <2>2, <2>4, <3>1
  <2> QED BY <2>3, <2>4
<1> QED BY <1>6 DEF R

\* m is the node of the least score below a.
LastBelow(x, below, a, m) ==
  /\ m \in below[a] /\ Kid(x, m, "right") = nil
  /\ \A b \in below[a] \ {m} : x.node[b].score > x.node[m].score

\* The last node of a subtree is the last of its right part.
LEMMA LastLaw ==
  ASSUME NEW x, NEW below, Skeleton(x, below), Ordered(x, below, nil)
  PROVE  /\ \A a \in UsedIn(x) : Kid(x, a, "right") = nil => LastBelow(x, below, a, a)
         /\ \A a \in UsedIn(x) : \A m \in below[Kid(x, a, "right")] :
               Kid(x, a, "right") # nil /\ LastBelow(x, below, Kid(x, a, "right"), m)
               => LastBelow(x, below, a, m)
         /\ \A a \in UsedIn(x) : \A m, k :
               LastBelow(x, below, a, m) /\ LastBelow(x, below, a, k) => m = k
         /\ \A a \in UsedIn(x) : \E m : LastBelow(x, below, a, m)
<1>0. /\ nil \notin Addr /\ UsedIn(x) \subseteq Addr /\ x \in Trees
      /\ "left" \in Sides /\ "right" \in Sides /\ Under(below, nil) = {}
  BY AddrLaw DEF Skeleton, UsedIn, Sides, Under
<1>1. ASSUME NEW a \in UsedIn(x)
      PROVE  /\ below[a] = {a} \cup Under(below, Kid(x, a, "left"))
                               \cup Under(below, Kid(x, a, "right"))
             /\ \A b \in Under(below, Kid(x, a, "left")) : x.node[b].score > x.node[a].score
             /\ \A b \in Under(below, Kid(x, a, "right")) : x.node[b].score < x.node[a].score
             /\ a \in below[a] /\ below[a] \subseteq UsedIn(x)
  <2>1. a \in UsedIn(x) \ {nil}
    BY <1>0
  <2>2. below[a] = {a} \cup Under(below, Kid(x, a, "left"))
                               \cup Under(below, Kid(x, a, "right"))
    BY DEF Skeleton, Spans
  <2>3. \A b \in below[a] : b \in UsedIn(x)
    BY BelowLaw
  <2>4. \A r \in Sides : \A b \in Under(below, Kid(x, a, r)) : Before(x, r, b, a)
    <3>1. \A r \in Sides : nil \notin Under(below, Kid(x, a, r))
      BY <1>0, <2>2, <2>3 DEF Sides
    <3> QED BY <2>1, <3>1 DEF Ordered
  <2> QED BY <1>0, <2>2, <2>3, <2>4 DEF Before
<1>2. ASSUME NEW a \in UsedIn(x), Kid(x, a, "right") = nil PROVE LastBelow(x, below, a, a)
  BY <1>0, <1>1, <1>2 DEF LastBelow
<1>3. ASSUME NEW a \in UsedIn(x), Kid(x, a, "right") # nil, NEW m \in below[Kid(x, a, "right")],
             LastBelow(x, below, Kid(x, a, "right"), m)
      PROVE  LastBelow(x, below, a, m)
  <2> DEFINE k == Kid(x, a, "right")
  <2>1. Under(below, k) = below[k]
    BY <1>3 DEF Under
  <2>2. m \in below[a] /\ Kid(x, m, "right") = nil
    BY <1>1, <1>3, <2>1 DEF LastBelow
  <2>3. x.node[m].score < x.node[a].score
    BY <1>1, <1>3, <2>1
  <2>4. ASSUME NEW b \in below[a] \ {m} PROVE x.node[b].score > x.node[m].score
    <3>0. x.node[b].score \in Int /\ x.node[m].score \in Int /\ x.node[a].score \in Int
      BY <1>0, <1>1, <2>2, TreeFields
    <3>1. CASE b \in below[k]
      BY <1>3, <3>1 DEF LastBelow
    <3>2. CASE b = a
      BY <2>3, <3>0, <3>2
    <3>3. CASE b \in Under(below, Kid(x, a, "left"))
      <4>1. x.node[b].score > x.node[a].score
        BY <1>1, <3>3
      <4> QED BY <2>3, <3>0, <4>1
    <3> QED BY <1>1, <2>1, <3>1, <3>2, <3>3
  <2> QED BY <2>2, <2>4 DEF LastBelow
<1>4. ASSUME NEW a \in UsedIn(x), NEW m, NEW k,
             LastBelow(x, below, a, m), LastBelow(x, below, a, k), m # k
      PROVE  FALSE
  <2>1. m \in Addr /\ k \in Addr
    BY <1>0, <1>1, <1>4 DEF LastBelow
  <2>2. x.node[k].score > x.node[m].score /\ x.node[m].score > x.node[k].score
    BY <1>4 DEF LastBelow
  <2>3. x.node[k].score \in Int /\ x.node[m].score \in Int
    BY <1>0, <2>1, TreeFields
  <2> QED BY <2>2, <2>3
<1> DEFINE T == {a \in UsedIn(x) : ~\E m : LastBelow(x, below, a, m)}
<1>5. T = {}
  <2> SUFFICES ASSUME T # {} PROVE FALSE
    OBVIOUS
  <2>1. PICK a \in T : \A s \in Sides : Kid(x, a, s) \notin T
    <3>1. T \in SUBSET UsedIn(x)
      OBVIOUS
    <3> HIDE DEF T
    <3> QED BY <3>1, Lowest
  <2>2. a \in UsedIn(x) /\ ~\E m : LastBelow(x, below, a, m)
    OBVIOUS
  <2>3. Kid(x, a, "right") # nil
    BY <1>2, <2>2
  <2>4. Kid(x, a, "right") \in UsedIn(x)
    BY <1>0, <2>2, <2>3, KidLaw
  <2>5. PICK m : LastBelow(x, below, Kid(x, a, "right"), m)
    BY <1>0, <2>1, <2>4
  <2>6. m \in below[Kid(x, a, "right")]
    BY <2>5 DEF LastBelow
  <2> QED BY <1>3, <2>2, <2>3, <2>5, <2>6
<1> QED BY <1>2, <1>3, <1>4, <1>5

\* maximum_node finds the last node of a subtree.
LEMMA MaximumLaw ==
  ASSUME NEW below, Skeleton(t, below), Ordered(t, below, nil)
  PROVE  \A a \in UsedIn(t) : LastBelow(t, below, a, maximum_node[a])
<1> DEFINE f == [a \in Addr |-> IF a \in UsedIn(t) THEN CHOOSE m : LastBelow(t, below, a, m)
                                ELSE a]
<1>0. /\ nil \notin Addr /\ UsedIn(t) \subseteq Addr /\ "right" \in Sides
      /\ \A a : t.node[a].right = Kid(t, a, "right")
      /\ \A a \in Addr \ UsedIn(t) : Kid(t, a, "right") = nil
      /\ \A a \in UsedIn(t) : Kid(t, a, "right") # nil => Kid(t, a, "right") \in UsedIn(t)
  BY AddrLaw DEF Skeleton, Linked, UsedIn, Sides, Kid, Free
<1>1. \A a \in UsedIn(t) : LastBelow(t, below, a, f[a])
  BY <1>0, LastLaw
<1>2. \A a \in Addr \ UsedIn(t) : f[a] = a
  OBVIOUS
<1>3. f = [a \in Addr |-> IF t.node[a].right = nil THEN a ELSE f[t.node[a].right]]
  <2>0. f = [a \in Addr |-> f[a]]
    OBVIOUS
  <2> HIDE DEF f
  <2>1. ASSUME NEW a \in Addr
        PROVE  f[a] = IF t.node[a].right = nil THEN a ELSE f[t.node[a].right]
    <3>1. CASE a \notin UsedIn(t)
      BY <1>0, <1>2, <3>1
    <3>2. CASE a \in UsedIn(t) /\ Kid(t, a, "right") = nil
      BY <1>0, <1>1, <3>2, LastLaw
    <3>3. CASE a \in UsedIn(t) /\ Kid(t, a, "right") # nil
      <4> DEFINE k == Kid(t, a, "right")
      <4>1. LastBelow(t, below, k, f[k]) /\ f[k] \in below[k]
        BY <1>0, <1>1, <3>3 DEF LastBelow
      <4>2. LastBelow(t, below, a, f[k])
        BY <3>3, <4>1, LastLaw
      <4>3. f[a] = f[k]
        BY <1>1, <3>3, <4>2, LastLaw
      <4> QED BY <1>0, <3>3, <4>3
    <3> QED BY <3>1, <3>2, <3>3
  <2> QED BY <2>0, <2>1
<1> HIDE DEF f
<1>4. maximum_node = [a \in Addr |-> IF t.node[a].right = nil THEN a
                                     ELSE maximum_node[t.node[a].right]]
  BY <1>3 DEF maximum_node
<1>5. \A a \in UsedIn(t) : maximum_node[a] = IF Kid(t, a, "right") = nil THEN a
                                             ELSE maximum_node[Kid(t, a, "right")]
  BY <1>0, <1>4
<1> DEFINE T == {a \in UsedIn(t) : ~LastBelow(t, below, a, maximum_node[a])}
<1>6. T = {}
  <2> SUFFICES ASSUME T # {} PROVE FALSE
    OBVIOUS
  <2>1. PICK a \in T : \A s \in Sides : Kid(t, a, s) \notin T
    <3>1. T \in SUBSET UsedIn(t)
      OBVIOUS
    <3> HIDE DEF T
    <3> QED BY <3>1, Lowest
  <2>2. a \in UsedIn(t) /\ ~LastBelow(t, below, a, maximum_node[a])
    OBVIOUS
  <2> DEFINE k == Kid(t, a, "right")
  <2>3. k # nil
    BY <1>5, <2>2, LastLaw
  <2>4. LastBelow(t, below, k, maximum_node[k])
    BY <1>0, <2>1, <2>2, <2>3
  <2>5. maximum_node[k] \in below[k]
    BY <2>4 DEF LastBelow
  <2> QED BY <1>5, <2>2, <2>3, <2>4, <2>5, LastLaw
<1> QED BY <1>6

-----------------------------------------------------------------------------
(* Ids that go. *)

LostIn(loss, a) == IF a = nil THEN 0 ELSE loss[a]

\* Every node loses what its subtrees lose and what it loses itself.
LEMMA LossSized ==
  ASSUME NEW x, NEW y, NEW below, NEW v, NEW loss \in [Addr -> Int],
         Skeleton(x, below), Shaped(x, y), Sized(x, nil, nil),
         \A a \in UsedIn(x) : y.node[a].size = x.node[a].size - loss[a],
         \A a \in UsedIn(x) :
            loss[a] = LostIn(loss, Kid(x, a, "left")) + LostIn(loss, Kid(x, a, "right"))
                      + Len(x.node[a].ids) - (IF a = v THEN 0 ELSE Len(y.node[a].ids))
  PROVE  Sized(y, v, nil)
<1>1. /\ UsedIn(y) = UsedIn(x) /\ UsedIn(x) \subseteq Addr /\ nil \notin Addr
      /\ \A a \in UsedIn(x), s \in Sides : Kid(y, a, s) = Kid(x, a, s)
      /\ x \in Trees /\ y \in Trees
      /\ \A a \in UsedIn(x), s \in Sides : Kid(x, a, s) \in UsedIn(x) \cup {nil}
      /\ "left" \in Sides /\ "right" \in Sides
  BY AddrLaw, KidLaw DEF Shaped, UsedIn, Skeleton, Sides
<1> SUFFICES ASSUME NEW g \in UsedIn(x)
             PROVE  y.node[g].size = nodesize(y, Kid(y, g, "left"))
                                     + nodesize(y, Kid(y, g, "right"))
                                     + (IF g = v THEN 0 ELSE Len(y.node[g].ids)) + 0
  BY <1>1 DEF Sized
<1> DEFINE A == nodesize(x, Kid(x, g, "left"))  B == nodesize(x, Kid(x, g, "right"))
           C == Len(x.node[g].ids)  D == IF g = v THEN 0 ELSE Len(y.node[g].ids)
           dl == LostIn(loss, Kid(x, g, "left"))  dr == LostIn(loss, Kid(x, g, "right"))
<1>2. g \in Addr /\ g # nil
  BY <1>1
<1>3. x.node[g].size = A + B + C
  <2>1. x.node[g].size = A + B + C + 0
    BY <1>2 DEF Sized
  <2>2. A \in Int /\ B \in Int /\ C \in Int
    BY <1>1, <1>2, SizeLaw, TreeFields
  <2> HIDE DEF A, B, C
  <2> QED BY <2>1, <2>2
<1>4. /\ nodesize(y, Kid(y, g, "left")) = A - dl /\ nodesize(y, Kid(y, g, "right")) = B - dr
      /\ A \in Int /\ B \in Int /\ C \in Int /\ D \in Int /\ dl \in Int /\ dr \in Int
  <2>1. \A b \in Addr \cup {nil} : nodesize(x, b) \in Int
    BY <1>1, SizeLaw
  <2>2. \A b \in UsedIn(x) \cup {nil} : nodesize(y, b) = nodesize(x, b) - LostIn(loss, b)
                                        /\ LostIn(loss, b) \in Int
    BY <1>1, <2>1 DEF nodesize, LostIn
  <2>3. C \in Int /\ D \in Int
    BY <1>1, <1>2, TreeFields
  <2> QED BY <1>1, <2>1, <2>2, <2>3
<1>5. y.node[g].size = x.node[g].size - loss[g] /\ loss[g] = dl + dr + C - D
  OBVIOUS
<1> HIDE DEF A, B, C, D, dl, dr
<1>6. y.node[g].size = (A - dl) + (B - dr) + D + 0
  BY <1>3, <1>4, <1>5
<1> QED BY <1>4, <1>6 DEF D

\* The fields after fixup_size.
LEMMA FixupFields ==
  ASSUME NEW x \in Trees, NEW a
  PROVE  LET y == fixup_size(x, a)
         IN  /\ y \in Trees /\ y.root = x.root
             /\ \A b \in Addr :
                   /\ y.node[b].score = x.node[b].score /\ y.node[b].ids = x.node[b].ids
                   /\ y.node[b].color = x.node[b].color /\ Up(y, b) = Up(x, b)
                   /\ y.node[b].size = x.node[b].size - (IF b \in Above[a] THEN 1 ELSE 0)
                   /\ \A s \in Sides : Kid(y, b, s) = Kid(x, b, s)
                   /\ b \notin Above[a] => y.node[b] = x.node[b]
<1> DEFINE y == fixup_size(x, a)
<1>0. x.root \in Addr \cup {nil} /\ \A b \in Addr : x.node[b] \in Node
  BY TreeFields
<1>1. y.root = x.root /\ y = [root |-> y.root, node |-> y.node]
      /\ y.node = [b \in Addr |-> y.node[b]]
      /\ \A b \in Addr : y.node[b] = [x.node[b] EXCEPT !.size =
                                         IF b \in Above[a] THEN @ - 1 ELSE @]
  BY DEF fixup_size, Trees
<1> HIDE DEF y
<1>2. ASSUME NEW b \in Addr
      PROVE  /\ y.node[b] \in Node
             /\ y.node[b].score = x.node[b].score /\ y.node[b].ids = x.node[b].ids
             /\ y.node[b].color = x.node[b].color /\ Up(y, b) = Up(x, b)
             /\ y.node[b].size = x.node[b].size - (IF b \in Above[a] THEN 1 ELSE 0)
             /\ \A s \in Sides : Kid(y, b, s) = Kid(x, b, s)
             /\ b \notin Above[a] => y.node[b] = x.node[b]
  <2>1. y.node[b] = [x.node[b] EXCEPT !.size = IF b \in Above[a] THEN @ - 1 ELSE @]
        /\ x.node[b] \in Node
    BY <1>0, <1>1
  <2> QED BY <2>1 DEF Node, Up, Kid, Sides
<1>3. y \in Trees
  BY <1>0, <1>1, <1>2 DEF Trees
<1> QED BY <1>1, <1>2, <1>3 DEF y

\* The fields after the copy of the predecessor.
LEMMA CopiedFields ==
  ASSUME NEW x \in Trees, NEW a \in Addr, NEW v \in Addr
  PROVE  LET y == Copied(x, a, v)
         IN  /\ y \in Trees /\ y.root = x.root
             /\ \A b \in Addr :
                   /\ y.node[b].score = (IF b = a THEN x.node[v].score ELSE x.node[b].score)
                   /\ y.node[b].ids = (IF b = a THEN x.node[v].ids ELSE x.node[b].ids)
                   /\ y.node[b].color = x.node[b].color /\ Up(y, b) = Up(x, b)
                   /\ y.node[b].size = x.node[b].size
                                       - (IF b # a /\ b \in Above[v] \ Above[a]
                                          THEN Len(x.node[v].ids) ELSE 0)
                   /\ \A s \in Sides : Kid(y, b, s) = Kid(x, b, s)
                   /\ b # a /\ b \notin Above[v] => y.node[b] = x.node[b]
<1> DEFINE y == Copied(x, a, v)
<1>0. /\ x.root \in Addr \cup {nil} /\ \A b \in Addr : x.node[b] \in Node
      /\ x.node[v].score \in Int /\ x.node[v].ids \in Seq(Users) /\ Len(x.node[v].ids) \in Nat
  BY TreeFields
<1>1. /\ y.root = x.root /\ y = [root |-> y.root, node |-> y.node]
      /\ y.node = [b \in Addr |-> y.node[b]]
      /\ \A b \in Addr : y.node[b] =
            IF b = a THEN [x.node[a] EXCEPT !.score = x.node[v].score, !.ids = x.node[v].ids]
            ELSE IF b \in Above[v] \ Above[a]
                 THEN [x.node[b] EXCEPT !.size = @ - Len(x.node[v].ids)]
                 ELSE x.node[b]
  BY DEF Copied, Trees
<1> HIDE DEF y
<1>2. ASSUME NEW b \in Addr
      PROVE  /\ y.node[b] \in Node
             /\ y.node[b].score = (IF b = a THEN x.node[v].score ELSE x.node[b].score)
             /\ y.node[b].ids = (IF b = a THEN x.node[v].ids ELSE x.node[b].ids)
             /\ y.node[b].color = x.node[b].color /\ Up(y, b) = Up(x, b)
             /\ y.node[b].size = x.node[b].size
                                 - (IF b # a /\ b \in Above[v] \ Above[a]
                                    THEN Len(x.node[v].ids) ELSE 0)
             /\ \A s \in Sides : Kid(y, b, s) = Kid(x, b, s)
             /\ b # a /\ b \notin Above[v] => y.node[b] = x.node[b]
  <2>1. x.node[b] \in Node
    BY <1>0
  <2>2. CASE b = a
    <3> DEFINE w == [x.node[a] EXCEPT !.score = x.node[v].score]
    <3>1. /\ w \in Node /\ w.left = x.node[a].left /\ w.right = x.node[a].right
          /\ w.parent = x.node[a].parent /\ w.size = x.node[a].size
          /\ w.color = x.node[a].color /\ w.score = x.node[v].score
      BY <1>0, <2>1, <2>2 DEF Node
    <3>2. y.node[a] = [w EXCEPT !.ids = x.node[v].ids]
      BY <1>1
    <3> HIDE DEF w
    <3>3. /\ y.node[a] \in Node /\ y.node[a].left = w.left /\ y.node[a].right = w.right
          /\ y.node[a].parent = w.parent /\ y.node[a].size = w.size
          /\ y.node[a].color = w.color /\ y.node[a].score = w.score
          /\ y.node[a].ids = x.node[v].ids
      BY <1>0, <3>1, <3>2 DEF Node
    <3>4. x.node[a].size \in Int
      BY TreeFields
    <3> QED BY <2>2, <3>1, <3>3, <3>4 DEF Up, Kid, Sides
  <2>3. CASE b # a /\ b \in Above[v] \ Above[a]
    <3>1. y.node[b] = [x.node[b] EXCEPT !.size = x.node[b].size - Len(x.node[v].ids)]
      BY <1>1, <2>3
    <3> DEFINE k == x.node[b].size - Len(x.node[v].ids)
    <3>2. k \in Int
      BY <1>0, TreeFields
    <3> HIDE DEF k
    <3>3. y.node[b] = [x.node[b] EXCEPT !.size = k]
      BY <3>1 DEF k
    <3>4. /\ y.node[b] \in Node /\ y.node[b].left = x.node[b].left
          /\ y.node[b].right = x.node[b].right
          /\ y.node[b].parent = x.node[b].parent /\ y.node[b].size = k
          /\ y.node[b].color = x.node[b].color /\ y.node[b].score = x.node[b].score
          /\ y.node[b].ids = x.node[b].ids
      BY <2>1, <3>2, <3>3 DEF Node
    <3> QED BY <2>3, <3>4 DEF Up, Kid, Sides, k
  <2>4. CASE b # a /\ b \notin Above[v] \ Above[a]
    <3>1. y.node[b] = x.node[b] /\ x.node[b].size \in Int
      BY <1>1, <2>4, TreeFields
    <3> QED BY <2>1, <2>4, <3>1 DEF Up, Kid
  <2> QED BY <2>2, <2>3, <2>4
<1>3. y \in Trees
  BY <1>0, <1>1, <1>2 DEF Trees
<1> QED BY <1>1, <1>2, <1>3 DEF y

-----------------------------------------------------------------------------
(* A deletion that leaves the node. *)

IsRemoved(l, s, i) ==
    /\ Len(l) = Len(s) - 1 /\ i \in 1 .. Len(s)
    /\ \A j \in 1 .. Len(l) : l[j] = s[IF j < i THEN j ELSE j + 1]

\* Concatenation, place by place.
LEMMA ConcatLaw ==
  ASSUME NEW X, NEW p \in Seq(X), NEW q \in Seq(X)
  PROVE  /\ p \o q \in Seq(X) /\ Len(p \o q) = Len(p) + Len(q)
         /\ \A j \in 1 .. Len(p) : (p \o q)[j] = p[j]
         /\ \A j \in 1 .. Len(q) : (p \o q)[Len(p) + j] = q[j]
  OBVIOUS

\* Removal of one place.
LEMMA RemoveAtLaw ==
  ASSUME NEW X, NEW s \in Seq(X), NEW i \in 1 .. Len(s)
  PROVE  RemoveAt(s, i) \in Seq(X) /\ IsRemoved(RemoveAt(s, i), s, i)
<1> DEFINE p == SubSeq(s, 1, i - 1)  q == SubSeq(s, i + 1, Len(s))  w == p \o q
<1>0. Len(s) \in Nat
  OBVIOUS
<1>1. /\ p \in Seq(X) /\ Len(p) = i - 1 /\ \A j \in 1 .. i - 1 : p[j] = s[j]
  BY <1>0
<1>2. /\ q \in Seq(X) /\ Len(q) = Len(s) - i
      /\ \A j \in 1 .. Len(s) - i : q[j] = s[i + j]
  BY <1>0
<1> HIDE DEF p, q
<1>3. /\ w \in Seq(X) /\ Len(w) = Len(s) - 1
      /\ \A j \in 1 .. i - 1 : w[j] = p[j]
      /\ \A j \in 1 .. Len(s) - i : w[i - 1 + j] = q[j]
  <2>1. /\ p \o q \in Seq(X) /\ Len(p \o q) = Len(p) + Len(q)
        /\ \A j \in 1 .. Len(p) : (p \o q)[j] = p[j]
        /\ \A j \in 1 .. Len(q) : (p \o q)[Len(p) + j] = q[j]
    <3>1. p \in Seq(X) /\ q \in Seq(X)
      BY <1>1, <1>2
    <3> QED BY <3>1, ConcatLaw
  <2>2. Len(p) = i - 1 /\ Len(q) = Len(s) - i /\ i - 1 + (Len(s) - i) = Len(s) - 1
    BY <1>0, <1>1, <1>2
  <2> QED BY <2>1, <2>2
<1>4. ASSUME NEW j \in 1 .. Len(s) - 1
      PROVE  w[j] = s[IF j < i THEN j ELSE j + 1]
  <2>1. CASE j < i
    BY <1>1, <1>3, <2>1
  <2>2. CASE ~(j < i)
    <3>1. j - i + 1 \in 1 .. Len(s) - i /\ i + (j - i + 1) = j + 1
          /\ i - 1 + (j - i + 1) = j
      BY <1>0, <2>2
    <3> DEFINE l == j - i + 1
    <3> HIDE DEF w, l
    <3>2. w[i - 1 + l] = q[l] /\ q[l] = s[i + l]
      BY <1>2, <1>3, <3>1 DEF l
    <3> QED BY <2>2, <3>1, <3>2 DEF l
  <2> QED BY <2>1, <2>2
<1>5. w = RemoveAt(s, i)
  BY DEF p, q, RemoveAt
<1> HIDE DEF w
<1> QED BY <1>3, <1>4, <1>5 DEF IsRemoved

\* IdAt is the first place of an id.
LEMMA IdAtLaw ==
  ASSUME NEW ids \in Seq(Users), NEW id, \E k \in DOMAIN ids : ids[k] = id
  PROVE  /\ IdAt(ids, id) \in 1 .. Len(ids) /\ ids[IdAt(ids, id)] = id
         /\ \A j \in 1 .. IdAt(ids, id) - 1 : ids[j] # id
<1> DEFINE S == {k \in DOMAIN ids : ids[k] = id}
<1>0. DOMAIN ids = 1 .. Len(ids) /\ Len(ids) \in Nat
  OBVIOUS
<1>1. S \in SUBSET Nat /\ S # {}
  BY <1>0
<1>2. PICK k \in S : \A j \in S : k <= j
  BY <1>1, Least
<1>3. \E m \in DOMAIN ids : ids[m] = id /\ \A j \in 1 .. m - 1 : ids[j] # id
  <2>1. k \in DOMAIN ids /\ ids[k] = id
    OBVIOUS
  <2>2. ASSUME NEW j \in 1 .. k - 1 PROVE ids[j] # id
    <3>1. j \in DOMAIN ids /\ ~(k <= j)
      BY <1>0, <2>1
    <3> QED BY <1>2, <3>1
  <2> QED BY <2>1, <2>2
<1> QED BY <1>0, <1>3 DEF IdAt

\* y is x without the id at place k of the node a.
IdGone(x, y, a, k) ==
  /\ a \in UsedIn(x) /\ Shaped(x, y)
  /\ IsRemoved(y.node[a].ids, x.node[a].ids, k)
  /\ \A b \in Addr : /\ y.node[b].score = x.node[b].score
                     /\ y.node[b].color = x.node[b].color
                     /\ b # a => y.node[b].ids = x.node[b].ids

\* DeleteId, field by field: every node above counts one id less.
LEMMA DeleteIdFields ==
  ASSUME NEW below, NEW h, Resting(t, below, h), NEW a \in UsedIn(t), NEW id,
         \E k \in DOMAIN t.node[a].ids : t.node[a].ids[k] = id, DeleteId(id, a)
  PROVE  /\ IdGone(t, t', a, IdAt(t.node[a].ids, id))
         /\ \A b \in UsedIn(t) : t'.node[b].size = t.node[b].size
                                                   - (IF a \in below[b] THEN 1 ELSE 0)
         /\ UNCHANGED <<pc, n, item, victim>> /\ pc = "idle"
         /\ t'.node[a].ids = RemoveAt(t.node[a].ids, IdAt(t.node[a].ids, id))
         /\ Len(t.node[a].ids) > 1
<1> DEFINE ids == t.node[a].ids  k == IdAt(ids, id)  l == RemoveAt(ids, k)
           x == [t EXCEPT !.node[a].ids = l]  y == fixup_size(x, a)
<1>1. t \in Trees /\ Skeleton(t, below) /\ a \in Addr
  BY RestFacts DEF UsedIn
<1>2. t' = y /\ UNCHANGED <<pc, n, item, victim>> /\ pc = "idle" /\ Len(ids) > 1
  BY DEF DeleteId
<1>3. ids \in Seq(Users) /\ Len(ids) \in Nat
  BY <1>1, TreeFields
<1>4. k \in 1 .. Len(ids)
  BY <1>3, IdAtLaw
<1>5. l \in Seq(Users) /\ IsRemoved(l, ids, k)
  BY <1>3, <1>4, RemoveAtLaw
<1>6. l # <<>>
  BY <1>2, <1>3, <1>5 DEF IsRemoved
<1> HIDE DEF k, l
<1>7. /\ x \in Trees /\ x.root = t.root
      /\ \A b \in Addr :
            /\ x.node[b].score = t.node[b].score /\ x.node[b].size = t.node[b].size
            /\ x.node[b].color = t.node[b].color /\ Up(x, b) = Up(t, b)
            /\ x.node[b].ids = (IF b = a THEN l ELSE t.node[b].ids)
            /\ \A s \in Sides : Kid(x, b, s) = Kid(t, b, s)
            /\ b # a => x.node[b] = t.node[b]
  <2>1. Renamed(t, x, a, l)
    BY <1>1, <1>5, IdsSet
  <2> QED BY <2>1 DEF Renamed
<1> HIDE DEF x
<1>8. /\ y \in Trees /\ y.root = x.root
      /\ \A b \in Addr :
            /\ y.node[b].score = x.node[b].score /\ y.node[b].ids = x.node[b].ids
            /\ y.node[b].color = x.node[b].color /\ Up(y, b) = Up(x, b)
            /\ y.node[b].size = x.node[b].size - (IF b \in Above[a] THEN 1 ELSE 0)
            /\ \A s \in Sides : Kid(y, b, s) = Kid(x, b, s)
            /\ b \notin Above[a] => y.node[b] = x.node[b]
  BY <1>7, FixupFields
<1> HIDE DEF y
<1>9. Above[a] = {g \in UsedIn(t) : a \in below[g]}
  BY <1>1, AboveLaw
<1>10. UsedIn(y) = UsedIn(t)
  BY <1>1, <1>6, <1>7, <1>8 DEF UsedIn
<1>11. Shaped(t, y)
  <2>1. \A b \in Addr \ UsedIn(t) : y.node[b] = t.node[b]
    BY <1>7, <1>8, <1>9
  <2> QED BY <1>7, <1>8, <1>10, <2>1 DEF Shaped
<1>12. \A b \in UsedIn(t) : y.node[b].size = t.node[b].size - (IF a \in below[b] THEN 1 ELSE 0)
  <2>1. UsedIn(t) \subseteq Addr
    BY DEF UsedIn
  <2> QED BY <1>7, <1>8, <1>9, <2>1
<1>13. IdGone(t, y, a, k)
  BY <1>1, <1>5, <1>7, <1>8, <1>11 DEF IdGone
<1>14. y.node[a].ids = l
  BY <1>1, <1>7, <1>8
<1> QED BY <1>2, <1>12, <1>13, <1>14 DEF k, l

\* DeleteId keeps the tree as it is.
LEMMA DeleteIdStep ==
  ASSUME NEW a \in UsedIn(t), NEW id, \E k \in DOMAIN t.node[a].ids : t.node[a].ids[k] = id
  PROVE  IInv /\ DeleteId(id, a) => IInv'
<1> SUFFICES ASSUME IInv, DeleteId(id, a) PROVE IInv'
  OBVIOUS
<1> PICK below \in [Addr -> SUBSET Addr], h \in [Addr -> Nat] :
         Good(t, pc, n, item, victim, below, h)
  BY DEF IInv
<1>0. pc = "idle"
  BY DEF DeleteId
<1>1. n = nil /\ item = <<>> /\ victim = nil /\ Resting(t, below, h)
  BY <1>0, Phases
<1>2. /\ Frame(t, below, nil, nil) /\ Heights(t, h, nil, nil) /\ RedsApart(t, nil, nil)
      /\ Distinct(t) /\ ~RedIn(t, t.root) /\ Linked(t)
      /\ t \in Trees /\ Skeleton(t, below) /\ h \in [Addr -> Nat]
      /\ Ordered(t, below, nil) /\ Apart(t, nil) /\ Sized(t, nil, nil)
      /\ t.root \in Addr \cup {nil} /\ nil \notin Addr
  BY <1>1, RestFacts
<1> DEFINE k == IdAt(t.node[a].ids, id)
<1>3. /\ IdGone(t, t', a, k)
      /\ \A b \in UsedIn(t) : t'.node[b].size = t.node[b].size - (IF a \in below[b] THEN 1 ELSE 0)
      /\ UNCHANGED <<pc, n, item, victim>>
  BY <1>1, DeleteIdFields
<1> HIDE DEF k
<1>4. /\ Shaped(t, t') /\ IsRemoved(t'.node[a].ids, t.node[a].ids, k)
      /\ \A b \in Addr : /\ t'.node[b].score = t.node[b].score
                         /\ t'.node[b].color = t.node[b].color
                         /\ b # a => t'.node[b].ids = t.node[b].ids
      /\ t' \in Trees /\ UsedIn(t') = UsedIn(t) /\ UsedIn(t) \subseteq Addr
  BY <1>3 DEF IdGone, Shaped, UsedIn
<1>5. Sized(t', nil, nil)
  <2> DEFINE loss == [b \in Addr |-> IF a \in below[b] THEN 1 ELSE 0]
  <2>1. loss \in [Addr -> Int]
    OBVIOUS
  <2>2. \A b \in UsedIn(t) : t'.node[b].size = t.node[b].size - loss[b]
    BY <1>3, <1>4
  <2>3. ASSUME NEW b \in UsedIn(t)
        PROVE  loss[b] = LostIn(loss, Kid(t, b, "left")) + LostIn(loss, Kid(t, b, "right"))
                         + Len(t.node[b].ids) - (IF b = nil THEN 0 ELSE Len(t'.node[b].ids))
    <3>0. b # nil /\ b \in Addr /\ Len(t.node[b].ids) \in Nat /\ Len(t'.node[b].ids) \in Nat
      BY <1>2, <1>4, TreeFields
    <3> DEFINE L == Under(below, Kid(t, b, "left"))  R == Under(below, Kid(t, b, "right"))
               C == Len(t.node[b].ids)  D == Len(t'.node[b].ids)
    <3>1. below[b] = {b} \cup L \cup R /\ b \notin L /\ b \notin R /\ L \cap R = {}
      BY <1>2 DEF Skeleton, Spans
    <3>2. /\ LostIn(loss, Kid(t, b, "left")) = (IF a \in L THEN 1 ELSE 0)
          /\ LostIn(loss, Kid(t, b, "right")) = (IF a \in R THEN 1 ELSE 0)
      <4>1. Kid(t, b, "left") \in Addr \cup {nil} /\ Kid(t, b, "right") \in Addr \cup {nil}
        BY <1>2, <3>0, TreeFields DEF Sides
      <4> QED BY <4>1 DEF LostIn, Under
    <3>3. C = D + (IF a = b THEN 1 ELSE 0)
      <4>1. CASE a = b
        BY <1>4, <3>0, <4>1 DEF IsRemoved
      <4>2. CASE a # b
        BY <1>4, <3>0, <4>2
      <4> QED BY <4>1, <4>2
    <3>4. loss[b] = IF a \in below[b] THEN 1 ELSE 0
      BY <3>0
    <3> HIDE DEF loss, L, R, C, D
    <3>5. C \in Nat /\ D \in Nat
      BY <3>0 DEF C, D
    <3>6. loss[b] = (IF a \in L THEN 1 ELSE 0) + (IF a \in R THEN 1 ELSE 0) + C - D
      BY <3>1, <3>3, <3>4, <3>5
    <3> QED BY <3>0, <3>2, <3>6 DEF C, D
  <2> HIDE DEF loss
  <2> QED BY <1>2, <1>4, <2>1, <2>2, <2>3, LossSized
<1>6. Frame(t', below, nil, nil)
  BY <1>2, <1>4, <1>5, ShapedSkeleton, ShapedOrdered DEF Frame
<1>7. Heights(t', h, nil, nil) /\ RedsApart(t', nil, nil) /\ ~RedIn(t', t'.root)
  BY <1>2, <1>4, ShapedColors
<1>8. Distinct(t')
  <2> DEFINE l == t'.node[a].ids  ids == t.node[a].ids
  <2>1. \A i, j \in DOMAIN ids : ids[i] = ids[j] => i = j
    BY <1>2 DEF Distinct
  <2>2. DOMAIN ids = 1 .. Len(ids) /\ DOMAIN l = 1 .. Len(l) /\ Len(ids) \in Nat /\ Len(l) \in Nat
    <3>1. a \in Addr /\ t \in Trees /\ t' \in Trees
      BY <1>2, <1>4
    <3>2. ids \in Seq(Users)
      BY ONLY <3>1, TreeFields
    <3>3. l \in Seq(Users)
      BY ONLY <3>1, TreeFields
    <3> HIDE DEF l, ids
    <3> QED BY ONLY <3>2, <3>3
  <2>3. /\ Len(l) = Len(ids) - 1 /\ k \in 1 .. Len(ids)
        /\ \A j \in 1 .. Len(l) : l[j] = ids[IF j < k THEN j ELSE j + 1]
    BY <1>4 DEF IsRemoved
  <2> HIDE DEF l, ids
  <2>4. ASSUME NEW i \in DOMAIN l, NEW j \in DOMAIN l, l[i] = l[j] PROVE i = j
    <3> DEFINE f(m) == IF m < k THEN m ELSE m + 1
    <3>1. f(i) \in DOMAIN ids /\ f(j) \in DOMAIN ids /\ (f(i) = f(j) => i = j)
      BY <2>2, <2>3
    <3>2. l[i] = ids[f(i)] /\ l[j] = ids[f(j)]
      BY <2>2, <2>3
    <3> HIDE DEF f
    <3> QED BY <2>1, <2>4, <3>1, <3>2
  <2> QED BY <1>2, <1>4, <2>4 DEF Distinct, l
<1>9. Resting(t', below, h)
  BY <1>6, <1>7, <1>8 DEF Resting, Sound
<1> QED BY <1>0, <1>1, <1>3, <1>9 DEF IInv, Good

-----------------------------------------------------------------------------
(* A deletion that takes a node out. *)

\* v is the node to take out for a, and c its child.
Chosen(x, below, a, v, c) ==
  /\ v \in below[a] /\ v \in UsedIn(x)
  /\ \E s \in Sides : Kid(x, v, s) = nil /\ c = Kid(x, v, Other(s))
  /\ v = a \/ (/\ Kid(x, a, "left") # nil
               /\ LastBelow(x, below, Kid(x, a, "left"), v))

\* The victim is the node itself or its predecessor, which has no right child.
LEMMA VictimLaw ==
  ASSUME NEW below, Skeleton(t, below), Ordered(t, below, nil), NEW a \in UsedIn(t)
  PROVE  Chosen(t, below, a, Victim(a), child(Victim(a)))
<1> DEFINE v == Victim(a)  c == child(v)  k == Kid(t, a, "left")
<1>0. /\ "left" \in Sides /\ "right" \in Sides /\ Other("left") = "right"
      /\ Other("right") = "left" /\ nil \notin Addr /\ UsedIn(t) \subseteq Addr
  BY AddrLaw DEF Sides, Other, UsedIn
<1>1. /\ v = IF k # nil /\ Kid(t, a, "right") # nil THEN maximum_node[k] ELSE a
      /\ c = IF Kid(t, v, "right") = nil THEN Kid(t, v, "left") ELSE Kid(t, v, "right")
  BY DEF Victim, child, Kid
<1> HIDE DEF v, c
<1>2. CASE k # nil /\ Kid(t, a, "right") # nil
  <2>1. k \in UsedIn(t) /\ below[k] \subseteq below[a]
    BY <1>0, <1>2, KidLaw
  <2>2. LastBelow(t, below, k, v)
    BY <1>1, <1>2, <2>1, MaximumLaw
  <2>3. v \in below[k] /\ Kid(t, v, "right") = nil
    BY <2>2 DEF LastBelow
  <2>4. v \in UsedIn(t)
    BY <2>1, <2>3, BelowLaw
  <2>5. c = Kid(t, v, Other("right"))
    BY <1>0, <1>1, <2>3
  <2> HIDE DEF k
  <2>6. Chosen(t, below, a, v, c)
    BY <1>0, <1>2, <2>1, <2>2, <2>3, <2>4, <2>5 DEF Chosen, k
  <2> QED BY <2>6 DEF v, c
<1>3. CASE ~(k # nil /\ Kid(t, a, "right") # nil)
  <2>1. v = a /\ a \in below[a]
    BY <1>1, <1>3 DEF Skeleton, Spans
  <2>2. \E s \in Sides : Kid(t, v, s) = nil /\ c = Kid(t, v, Other(s))
    BY <1>0, <1>1, <1>3, <2>1
  <2>3. Chosen(t, below, a, v, c)
    BY <2>1, <2>2 DEF Chosen
  <2> QED BY <2>3 DEF v, c
<1> QED BY <1>2, <1>3

\* What is lost below b when a gives its place to v.
Loss(x, below, a, v, b) ==
    IF a \in below[b] THEN 1 ELSE IF v \in below[b] THEN Len(x.node[v].ids) ELSE 0

\* y is x with the fields of v copied to a.
Taken(x, y, below, a, v, c) ==
  /\ Shaped(x, y)
  /\ \A b \in Addr :
        /\ y.node[b].score = (IF b = a THEN x.node[v].score ELSE x.node[b].score)
        /\ y.node[b].ids = (IF b = a THEN x.node[v].ids ELSE x.node[b].ids)
        /\ y.node[b].color = (IF b = v /\ ~RedIn(x, v) THEN node_color(x, c)
                              ELSE x.node[b].color)
  /\ \A b \in UsedIn(x) : y.node[b].size = x.node[b].size - Loss(x, below, a, v, b)

\* DeleteNode, field by field.
LEMMA DeleteNodeFields ==
  ASSUME NEW below, NEW h, Resting(t, below, h), NEW a \in UsedIn(t), DeleteNode(a)
  PROVE  \E v, c : /\ Chosen(t, below, a, v, c) /\ Taken(t, t', below, a, v, c)
                   /\ IF RedIn(t, v) THEN pc' = "unlink" /\ n' = nil
                                     ELSE pc' = "delete_case1" /\ n' = v
                   /\ victim' = v /\ UNCHANGED item
                   /\ pc = "idle" /\ Len(t.node[a].ids) = 1
<1> DEFINE v == Victim(a)  c == child(v)  y == fixup_size(t, a)  x == Copied(y, a, v)
<1>1. t \in Trees /\ Skeleton(t, below) /\ Ordered(t, below, nil) /\ a \in Addr
      /\ nil \notin Addr /\ UsedIn(t) \subseteq Addr
  BY RestFacts DEF UsedIn
<1>2. Chosen(t, below, a, v, c)
  BY <1>1, VictimLaw
<1>3. /\ pc = "idle" /\ Len(t.node[a].ids) = 1 /\ victim' = v /\ UNCHANGED item
      /\ IF node_color(t, v) = BLACK
         THEN /\ t' = Colored(x, v, node_color(x, c))
              /\ pc' = "delete_case1" /\ n' = v
         ELSE t' = x /\ pc' = "unlink" /\ n' = nil
  BY DEF DeleteNode
<1> HIDE DEF v, c
<1>4. v \in UsedIn(t) /\ v \in Addr /\ v \in below[a] /\ c \in Addr \cup {nil}
  <2>1. v \in UsedIn(t) /\ v \in below[a] /\ \E s \in Sides : c = Kid(t, v, Other(s))
    BY <1>2 DEF Chosen
  <2> QED BY <1>1, <2>1, TreeFields, SideLaw
<1>5. /\ y \in Trees /\ y.root = t.root
      /\ \A b \in Addr :
            /\ y.node[b].score = t.node[b].score /\ y.node[b].ids = t.node[b].ids
            /\ y.node[b].color = t.node[b].color /\ Up(y, b) = Up(t, b)
            /\ y.node[b].size = t.node[b].size - (IF b \in Above[a] THEN 1 ELSE 0)
            /\ \A s \in Sides : Kid(y, b, s) = Kid(t, b, s)
            /\ b \notin Above[a] => y.node[b] = t.node[b]
  BY <1>1, FixupFields
<1> HIDE DEF y
<1>6. /\ x \in Trees /\ x.root = y.root
      /\ \A b \in Addr :
            /\ x.node[b].score = (IF b = a THEN y.node[v].score ELSE y.node[b].score)
            /\ x.node[b].ids = (IF b = a THEN y.node[v].ids ELSE y.node[b].ids)
            /\ x.node[b].color = y.node[b].color /\ Up(x, b) = Up(y, b)
            /\ x.node[b].size = y.node[b].size
                                - (IF b # a /\ b \in Above[v] \ Above[a]
                                   THEN Len(y.node[v].ids) ELSE 0)
            /\ \A s \in Sides : Kid(x, b, s) = Kid(y, b, s)
            /\ b # a /\ b \notin Above[v] => x.node[b] = y.node[b]
  BY <1>1, <1>4, <1>5, CopiedFields
<1> HIDE DEF x
<1>7. /\ Above[a] = {g \in UsedIn(t) : a \in below[g]}
      /\ Above[v] = {g \in UsedIn(t) : v \in below[g]}
  BY <1>1, <1>4, AboveLaw
<1>8. a \in Above[a]
  BY <1>7 DEF Skeleton, Spans, Resting, Sound, Frame
<1>9. UsedIn(x) = UsedIn(t)
  <2>1. t.node[v].ids # <<>> /\ t.node[a].ids # <<>>
    BY <1>4 DEF UsedIn
  <2> QED BY <1>1, <1>4, <1>5, <1>6, <2>1 DEF UsedIn
<1>10. Shaped(t, x)
  <2>1. \A b \in Addr \ UsedIn(t) : x.node[b] = t.node[b]
    BY <1>5, <1>6, <1>7
  <2> QED BY <1>5, <1>6, <1>9, <2>1 DEF Shaped
<1>11. \A b \in UsedIn(t) : x.node[b].size = t.node[b].size - Loss(t, below, a, v, b)
  <2> SUFFICES ASSUME NEW b \in UsedIn(t)
               PROVE  x.node[b].size = t.node[b].size - Loss(t, below, a, v, b)
    OBVIOUS
  <2>1. b \in Addr /\ t.node[b].size \in Int /\ Len(t.node[v].ids) \in Nat
    BY <1>1, <1>4, TreeFields
  <2>2. /\ y.node[b].size = t.node[b].size - (IF b \in Above[a] THEN 1 ELSE 0)
        /\ x.node[b].size = y.node[b].size - (IF b # a /\ b \in Above[v] \ Above[a]
                                              THEN Len(t.node[v].ids) ELSE 0)
    BY <1>4, <1>5, <1>6, <2>1
  <2>3. CASE b \in Above[a]
    BY <1>7, <2>1, <2>2, <2>3 DEF Loss
  <2>4. CASE b \notin Above[a]
    BY <1>7, <1>8, <2>1, <2>2, <2>4 DEF Loss
  <2> QED BY <2>3, <2>4
<1>12. node_color(x, c) = node_color(t, c) /\ node_color(x, c) \in BOOLEAN
  <2>1. \A b \in Addr : x.node[b].color = t.node[b].color /\ t.node[b].color \in BOOLEAN
    BY <1>1, <1>5, <1>6, TreeFields
  <2> QED BY <1>4, <2>1, AddrLaw DEF node_color
<1>13. node_color(t, v) = BLACK <=> ~RedIn(t, v)
  BY <1>1, <1>4, ColorLaw
<1>14. Taken(t, t', below, a, v, c)
  <2>1. CASE RedIn(t, v)
    <3>1. t' = x
      BY <1>3, <1>13, <2>1
    <3> QED BY <1>4, <1>5, <1>6, <1>10, <1>11, <2>1, <3>1 DEF Taken
  <2>2. CASE ~RedIn(t, v)
    <3> DEFINE z == Colored(x, v, node_color(x, c))
    <3>1. t' = z
      BY <1>3, <1>13, <2>2
    <3>2. /\ Painted(x, z)
          /\ \A b \in Addr : z.node[b].color = IF b = v THEN node_color(x, c)
                                               ELSE x.node[b].color
      BY <1>4, <1>6, <1>9, <1>12, ColoredLaw
    <3> HIDE DEF z
    <3>3. UsedIn(z) = UsedIn(t)
      BY <1>9, <3>2 DEF Painted, UsedIn
    <3>4. Shaped(t, z)
      <4>1. \A b \in Addr \ UsedIn(t) : z.node[b] = t.node[b]
        BY <1>9, <1>10, <3>2 DEF Painted, Shaped
      <4> QED BY <1>10, <3>2, <3>3, <4>1 DEF Painted, Shaped
    <3>5. \A b \in UsedIn(t) : z.node[b].size = t.node[b].size - Loss(t, below, a, v, b)
      BY <1>1, <1>11, <3>2 DEF Painted
    <3>6. \A b \in Addr :
            /\ z.node[b].score = (IF b = a THEN t.node[v].score ELSE t.node[b].score)
            /\ z.node[b].ids = (IF b = a THEN t.node[v].ids ELSE t.node[b].ids)
            /\ z.node[b].color = (IF b = v /\ ~RedIn(t, v) THEN node_color(t, c)
                                  ELSE t.node[b].color)
      BY <1>4, <1>5, <1>6, <1>12, <2>2, <3>2 DEF Painted
    <3> QED BY <3>1, <3>4, <3>5, <3>6 DEF Taken
  <2> QED BY <2>1, <2>2
<1>15. IF RedIn(t, v) THEN pc' = "unlink" /\ n' = nil ELSE pc' = "delete_case1" /\ n' = v
  BY <1>3, <1>13
<1> QED BY <1>2, <1>3, <1>14, <1>15

\* The nodes between the node and its predecessor count the ids copied no more.
LEMMA TakenSized ==
  ASSUME NEW x, NEW y, NEW below, NEW a \in UsedIn(x), NEW v, NEW c,
         Skeleton(x, below), Sized(x, nil, nil), Chosen(x, below, a, v, c),
         Taken(x, y, below, a, v, c), Len(x.node[a].ids) = 1
  PROVE  Sized(y, v, nil)
<1> DEFINE loss == [b \in Addr |-> Loss(x, below, a, v, b)]
           V == Len(x.node[v].ids)
<1>1. /\ x \in Trees /\ nil \notin Addr /\ UsedIn(x) \subseteq Addr
      /\ v \in UsedIn(x) /\ v \in below[a] /\ y \in Trees /\ Shaped(x, y)
      /\ \A b \in Addr : y.node[b].ids = (IF b = a THEN x.node[v].ids ELSE x.node[b].ids)
      /\ \A b \in UsedIn(x) : y.node[b].size = x.node[b].size - Loss(x, below, a, v, b)
  BY AddrLaw DEF Skeleton, UsedIn, Chosen, Taken, Shaped
<1>2. V \in Nat
  BY <1>1, TreeFields
<1>3. loss \in [Addr -> Int] /\ \A b \in Addr : loss[b] = Loss(x, below, a, v, b)
  BY <1>2 DEF Loss
<1> HIDE DEF loss
<1>4. ASSUME NEW g \in UsedIn(x)
      PROVE  loss[g] = LostIn(loss, Kid(x, g, "left")) + LostIn(loss, Kid(x, g, "right"))
                       + Len(x.node[g].ids) - (IF g = v THEN 0 ELSE Len(y.node[g].ids))
  <2> DEFINE L == Under(below, Kid(x, g, "left"))  R == Under(below, Kid(x, g, "right"))
             C == Len(x.node[g].ids)  D == IF g = v THEN 0 ELSE Len(y.node[g].ids)
             w(S) == IF a \in S THEN 1 ELSE IF v \in S THEN V ELSE 0
             dl == LostIn(loss, Kid(x, g, "left"))  dr == LostIn(loss, Kid(x, g, "right"))
  <2>1. g \in Addr /\ Kid(x, g, "left") \in UsedIn(x) \cup {nil}
        /\ Kid(x, g, "right") \in UsedIn(x) \cup {nil}
    BY <1>1, KidLaw DEF Sides
  <2>2. below[g] = {g} \cup L \cup R /\ g \notin L /\ g \notin R /\ L \cap R = {}
    BY DEF Skeleton, Spans
  <2>3. loss[g] = w(below[g]) /\ dl = w(L) /\ dr = w(R)
    BY <1>1, <1>3, <2>1 DEF Loss, LostIn, Under
  <2>4. (a \in L => v \in L) /\ (a \in R => v \in R)
    BY <1>1, <2>1, BelowLaw DEF Under
  <2>5. C \in Nat /\ D \in Nat
    BY <1>1, <2>1, TreeFields
  <2>6. D = IF g = v THEN 0 ELSE IF g = a THEN V ELSE C
    BY <1>1, <2>1
  <2>7. (g = a => C = 1) /\ (g = v => C = V)
    OBVIOUS
  <2>8. a \in below[a] /\ v \in below[a] /\ v \in below[v]
    BY <1>1 DEF Skeleton, Spans
  <2> HIDE DEF L, R, C, D, dl, dr, V
  <2>9. w(below[g]) = w(L) + w(R) + C - D
    <3>1. CASE g = a /\ v = a
      BY <2>2, <2>5, <2>6, <2>7, <2>8, <3>1
    <3>2. CASE g = a /\ v # a
      <4>0. v \in below[g] /\ v # g
        BY <2>8, <3>2
      <4>1. a \notin L /\ a \notin R /\ a \in below[g] /\ (v \in L <=> v \notin R)
        <5>1. v \in L \/ v \in R
          BY <2>2, <4>0
        <5>2. ~(v \in L /\ v \in R)
          BY <2>2
        <5> QED BY <2>2, <2>8, <3>2, <5>1, <5>2
      <4>2. w(L) + w(R) = V
        <5>1. CASE v \in L
          BY <1>2, <4>1, <5>1
        <5>2. CASE v \notin L
          BY <1>2, <4>1, <5>2
        <5> QED BY <5>1, <5>2
      <4>3. w(L) \in Int /\ w(R) \in Int
        BY <1>2
      <4>4. w(below[g]) = 1 /\ D = V /\ C = 1
        BY <2>6, <2>7, <3>2, <4>1
      <4> HIDE DEF w
      <4> QED BY <1>2, <4>2, <4>3, <4>4
    <3>3. CASE g # a /\ a \in L
      <4>1. w(below[g]) = 1 /\ w(L) = 1 /\ w(R) = 0 /\ g # v
        BY <2>2, <2>4, <3>3
      <4>2. D = C
        BY <2>6, <3>3, <4>1
      <4> QED BY <2>5, <4>1, <4>2
    <3>4. CASE g # a /\ a \in R
      <4>1. w(below[g]) = 1 /\ w(L) = 0 /\ w(R) = 1 /\ g # v
        BY <2>2, <2>4, <3>4
      <4>2. D = C
        BY <2>6, <3>4, <4>1
      <4> QED BY <2>5, <4>1, <4>2
    <3>5. CASE g # a /\ a \notin L /\ a \notin R
      <4>1. a \notin below[g]
        BY <2>2, <3>5
      <4>2. CASE g = v
        <5>1. w(below[g]) = V /\ w(L) = 0 /\ w(R) = 0 /\ C = V /\ D = 0
          BY <2>2, <2>6, <2>7, <2>8, <3>5, <4>1, <4>2
        <5> QED BY <1>2, <5>1
      <4>3. CASE g # v
        <5>1. D = C
          BY <2>6, <3>5, <4>3
        <5>2. w(below[g]) = w(L) + w(R)
          BY <1>2, <2>2, <3>5, <4>1, <4>3
        <5>3. w(L) \in Int /\ w(R) \in Int
          BY <1>2
        <5> HIDE DEF w
        <5> QED BY <2>5, <5>1, <5>2, <5>3
      <4> QED BY <4>2, <4>3
    <3> QED BY <3>1, <3>2, <3>3, <3>4, <3>5
  <2>10. loss[g] = dl + dr + C - D
    BY <2>3, <2>9
  <2> QED BY <2>10 DEF dl, dr, C, D
<1>5. \A b \in UsedIn(x) : y.node[b].size = x.node[b].size - loss[b]
  BY <1>1, <1>3
<1> QED BY <1>1, <1>3, <1>4, <1>5, LossSized

\* The predecessor copied keeps the order: every other node of the left subtree has
\* a higher score.
LEMMA TakenFrame ==
  ASSUME NEW x, NEW y, NEW below, NEW a \in UsedIn(x), NEW v, NEW c,
         Frame(x, below, nil, nil), Chosen(x, below, a, v, c),
         Taken(x, y, below, a, v, c), Len(x.node[a].ids) = 1
  PROVE  Frame(y, below, v, nil) /\ (Distinct(x) => Distinct(y))
<1>1. /\ x \in Trees /\ nil \notin Addr /\ UsedIn(x) \subseteq Addr
      /\ Skeleton(x, below) /\ Ordered(x, below, nil) /\ Apart(x, nil) /\ Sized(x, nil, nil)
      /\ v \in UsedIn(x) /\ v \in below[a] /\ y \in Trees /\ Shaped(x, y)
      /\ UsedIn(y) = UsedIn(x)
      /\ \A g \in Addr, r \in Sides : Kid(y, g, r) = Kid(x, g, r)
      /\ \A b \in Addr :
        /\ y.node[b].score = (IF b = a THEN x.node[v].score ELSE x.node[b].score)
        /\ y.node[b].ids = (IF b = a THEN x.node[v].ids ELSE x.node[b].ids)
  BY AddrLaw DEF Frame, Skeleton, UsedIn, Chosen, Taken, Shaped
<1>2. Skeleton(y, below)
  BY <1>1, ShapedSkeleton
<1>3. Sized(y, v, nil)
  BY <1>1, TakenSized
<1>4. ASSUME NEW g \in UsedIn(x), NEW r \in Sides, NEW b \in Under(below, Kid(x, g, r))
      PROVE  b \in UsedIn(x) /\ b \in Addr /\ b # nil /\ g # nil /\ Before(x, r, b, g) /\ b # g
  <2>1. Kid(x, g, r) \in UsedIn(x)
    BY <1>1, <1>4, KidLaw DEF Under
  <2>2. b \in below[Kid(x, g, r)]
    BY <1>4 DEF Under
  <2>3. b \in UsedIn(x)
    BY <1>1, <2>1, <2>2, BelowLaw
  <2>4. b # g
    BY <1>1, <1>4 DEF Skeleton, Spans, Sides
  <2> QED BY <1>1, <1>4, <2>3, <2>4 DEF Ordered
<1>5. \A b \in Addr : x.node[b].score \in Int
  BY <1>1, TreeFields
<1>6. Ordered(y, below, v)
  <2> SUFFICES ASSUME NEW g \in UsedIn(x) \ {v}, NEW r \in Sides,
                      NEW b \in Under(below, Kid(x, g, r)) \ {v}
               PROVE  Before(y, r, b, g)
    BY <1>1 DEF Ordered
  <2>1. b \in UsedIn(x) /\ b \in Addr /\ g \in Addr /\ Before(x, r, b, g) /\ b # g
    BY <1>1, <1>4
  <2>2. CASE v = a
    BY <1>1, <2>1, <2>2 DEF Before
  <2>3. CASE g # a /\ b # a
    BY <1>1, <2>1, <2>3 DEF Before
  <2>4. CASE v # a /\ g = a
    <3> DEFINE k == Kid(x, a, "left")
    <3>1. k # nil /\ LastBelow(x, below, k, v)
      BY <2>4 DEF Chosen
    <3>2. Under(below, k) = below[k] /\ v \in below[k]
          /\ \A w \in below[k] \ {v} : x.node[w].score > x.node[v].score
      BY <3>1 DEF Under, LastBelow
    <3>3. x.node[v].score > x.node[a].score
      <4>1. Before(x, "left", v, a)
        BY <1>4, <3>2 DEF Sides
      <4> QED BY <4>1 DEF Before
    <3>4. CASE r = "left"
      BY <1>1, <2>1, <2>4, <3>2, <3>4 DEF Before
    <3>5. CASE r = "right"
      <4>1. x.node[b].score < x.node[a].score
        BY <2>1, <2>4, <3>5 DEF Before
      <4>2. x.node[b].score < x.node[v].score
        BY <1>1, <1>5, <2>1, <3>3, <4>1
      <4> QED BY <1>1, <2>1, <2>4, <3>5, <4>2 DEF Before
    <3> QED BY <3>4, <3>5 DEF Sides
  <2>5. CASE v # a /\ b = a
    <3>1. v \in Under(below, Kid(x, g, r))
      <4>1. Kid(x, g, r) \in UsedIn(x) /\ Kid(x, g, r) # nil
        BY <1>1, KidLaw DEF Under
      <4> QED BY <1>1, <2>5, <4>1, BelowLaw DEF Under
    <3>2. Before(x, r, v, g)
      BY <1>4, <3>1
    <3> QED BY <1>1, <2>1, <2>5, <3>2 DEF Before
  <2> QED BY <2>2, <2>3, <2>4, <2>5
<1>7. Apart(y, v)
  <2> SUFFICES ASSUME NEW g \in UsedIn(x) \ {v}, NEW b \in UsedIn(x) \ {v},
                      y.node[g].score = y.node[b].score
               PROVE  g = b
    BY <1>1 DEF Apart
  <2>1. \A e, f \in UsedIn(x) : x.node[e].score = x.node[f].score => e = f
    BY <1>1 DEF Apart
  <2> QED BY <1>1, <2>1
<1>8. ASSUME Distinct(x) PROVE Distinct(y)
  <2> SUFFICES ASSUME NEW g \in UsedIn(x)
               PROVE  \A j, k \in DOMAIN y.node[g].ids :
                         y.node[g].ids[j] = y.node[g].ids[k] => j = k
    BY <1>1 DEF Distinct
  <2>1. \E b \in UsedIn(x) : y.node[g].ids = x.node[b].ids
    BY <1>1
  <2> QED BY <1>8, <2>1 DEF Distinct
<1> QED BY <1>2, <1>3, <1>6, <1>7, <1>8 DEF Frame

\* DeleteNode starts the repair with one black node missing, or none.
LEMMA DeleteNodeStep ==
  ASSUME NEW a \in UsedIn(t)
  PROVE  IInv /\ DeleteNode(a) => IInv'
<1> SUFFICES ASSUME IInv, DeleteNode(a) PROVE IInv'
  OBVIOUS
<1> PICK below \in [Addr -> SUBSET Addr], h \in [Addr -> Nat] :
         Good(t, pc, n, item, victim, below, h)
  BY DEF IInv
<1>0. pc = "idle"
  BY DEF DeleteNode
<1>1. n = nil /\ item = <<>> /\ victim = nil /\ Resting(t, below, h)
  BY <1>0, Phases
<1>2. /\ Frame(t, below, nil, nil) /\ Heights(t, h, nil, nil) /\ RedsApart(t, nil, nil)
      /\ Distinct(t) /\ ~RedIn(t, t.root) /\ Linked(t)
      /\ t \in Trees /\ Skeleton(t, below) /\ h \in [Addr -> Nat]
      /\ Ordered(t, below, nil) /\ Apart(t, nil) /\ Sized(t, nil, nil)
      /\ t.root \in Addr \cup {nil} /\ nil \notin Addr
  BY <1>1, RestFacts
<1>3. PICK v, c : /\ Chosen(t, below, a, v, c) /\ Taken(t, t', below, a, v, c)
                  /\ IF RedIn(t, v) THEN pc' = "unlink" /\ n' = nil
                                    ELSE pc' = "delete_case1" /\ n' = v
                  /\ victim' = v /\ UNCHANGED item /\ Len(t.node[a].ids) = 1
  BY <1>1, DeleteNodeFields
<1>4. Frame(t', below, v, nil) /\ Distinct(t')
  BY <1>2, <1>3, TakenFrame
<1>5. /\ Shaped(t, t') /\ t' \in Trees /\ UsedIn(t') = UsedIn(t) /\ t'.root = t.root
      /\ \A g \in Addr, r \in Sides : Kid(t', g, r) = Kid(t, g, r)
      /\ \A b \in Addr : t'.node[b].color = (IF b = v /\ ~RedIn(t, v) THEN node_color(t, c)
                                             ELSE t.node[b].color)
      /\ UsedIn(t) \subseteq Addr /\ v \in UsedIn(t) /\ v \in Addr /\ v # nil
  BY <1>2, <1>3 DEF Taken, Shaped, UsedIn, Chosen
<1>6. PICK s \in Sides : Kid(t, v, s) = nil /\ c = Kid(t, v, Other(s))
  BY <1>3 DEF Chosen
<1>7. /\ c \in UsedIn(t) \cup {nil} /\ c # v /\ Other(s) \in Sides /\ Other(Other(s)) = s
      /\ \A r \in Sides : r = s \/ r = Other(s)
  BY <1>2, <1>5, <1>6, KidLaw, SideLaw
<1>8. /\ ~RedIn(t', nil) /\ ~RedIn(t, nil)
      /\ \A b \in Addr : b # v => (RedIn(t', b) <=> RedIn(t, b))
      /\ RedIn(t', v) <=> RedIn(t, v) \/ RedIn(t, c)
  <2>1. \A b \in Addr : RedIn(t', b) <=> t'.node[b].color = RED
    BY <1>5, ColorLaw
  <2>2. \A b \in Addr : RedIn(t, b) <=> t.node[b].color = RED
    BY <1>2, ColorLaw
  <2>3. RedIn(t, c) <=> node_color(t, c) = RED
    BY DEF RedIn
  <2>4. ~RedIn(t', nil) /\ ~RedIn(t, nil)
    BY <1>2, <1>5, ColorLaw
  <2> QED BY <1>5, <2>1, <2>2, <2>3, <2>4
<1>9. Slim(t', v)
  <2>1. RedIn(t', t'.root) => t'.root = v
    BY <1>2, <1>5, <1>8
  <2>2. \A r \in Sides : RedIn(t', Kid(t', v, r)) => RedIn(t', v)
    <3>1. \A r \in Sides : Kid(t', v, r) \in {nil, c}
      BY <1>5, <1>6, <1>7
    <3>2. RedIn(t', c) => RedIn(t, c)
      BY <1>5, <1>7, <1>8
    <3> QED BY <1>8, <3>1, <3>2
  <2>3. \E r \in Sides : Kid(t', v, r) = nil
    BY <1>5, <1>6
  <2> QED BY <1>5, <2>1, <2>2, <2>3 DEF Slim
<1>10. ASSUME NEW g \in UsedIn(t), NEW r \in Sides, g # v, RedIn(t', g), Kid(t', g, r) # v
       PROVE  ~RedIn(t', Kid(t', g, r))
  <2>1. Kid(t', g, r) = Kid(t, g, r) /\ Kid(t, g, r) \in Addr \cup {nil} /\ g \in Addr /\ g # nil
    BY <1>2, <1>5, TreeFields
  <2>2. ~RedIn(t, Kid(t, g, r))
    BY <1>2, <1>8, <1>10, <2>1 DEF RedsApart
  <2> QED BY <1>8, <1>10, <2>1, <2>2
<1>11. h[v] = IF RedIn(t, v) THEN 0 ELSE 1
  <2>1. Level(t, h, nil, nil, v, s)
    BY <1>2, <1>5 DEF Heights
  <2>2. t.node[v].color = BLACK <=> ~RedIn(t, v)
    BY <1>2, <1>5, ColorLaw
  <2>3. Seen(h, nil, nil) = 0
    BY DEF Seen
  <2> QED BY <1>5, <1>6, <2>1, <2>2, <2>3 DEF Level
<1>12. Seen(h, nil, c) = 0
  <2>1. Level(t, h, nil, nil, v, s)
    BY <1>2, <1>5 DEF Heights
  <2> QED BY <1>5, <1>6, <2>1 DEF Level, Seen
<1>13. CASE RedIn(t, v)
  <2>1. pc' = "unlink" /\ n' = nil /\ item' = <<>> /\ victim' = v
    BY <1>1, <1>3, <1>13
  <2>2. Heights(t', h, v, nil)
    <3> SUFFICES ASSUME NEW g \in UsedIn(t), NEW r \in Sides PROVE Level(t', h, v, nil, g, r)
      BY <1>2, <1>5 DEF Heights
    <3>1. Level(t, h, nil, nil, g, r) /\ g \in Addr /\ g # nil /\ Other(r) \in Sides
      BY <1>2, <1>5, SideLaw DEF Heights
    <3>2. t'.node[g].color = t.node[g].color
      BY <1>5, <1>13, <3>1
    <3>3. Kid(t', g, r) = Kid(t, g, r) /\ Kid(t', g, Other(r)) = Kid(t, g, Other(r))
      BY <1>5, <3>1
    <3>4. CASE g # v
      BY <3>1, <3>2, <3>3, <3>4 DEF Level
    <3>5. CASE g = v
      <4>1. Seen(h, nil, Kid(t, v, s)) = 0 /\ Seen(h, nil, Kid(t, v, Other(s))) = 0
        BY <1>6, <1>12 DEF Seen
      <4>2. Seen(h, nil, Kid(t, v, r)) = 0 /\ Seen(h, nil, Kid(t, v, Other(r))) = 0
        BY <1>7, <4>1
      <4> QED BY <1>11, <1>13, <3>3, <3>5, <4>2 DEF Level
    <3> QED BY <3>4, <3>5
  <2>3. RedsApart(t', v, nil)
    <3> SUFFICES ASSUME NEW g \in UsedIn(t), NEW r \in Sides, g # v, RedIn(t', g)
                 PROVE  ~RedIn(t', Kid(t', g, r))
      BY <1>5 DEF RedsApart
    <3>1. Kid(t', g, r) # v
      <4>1. RedIn(t, g) /\ g \in Addr /\ g # nil
        BY <1>2, <1>5, <1>8
      <4>2. ~RedIn(t, Kid(t, g, r))
        BY <1>2, <1>8, <4>1 DEF RedsApart
      <4> QED BY <1>5, <1>13, <4>1, <4>2
    <3> QED BY <1>10, <3>1
  <2>4. Unlinking(t', v, below, h)
    BY <1>4, <1>9, <2>2, <2>3 DEF Unlinking, Sound
  <2> QED BY <2>1, <2>4 DEF IInv, Good
<1>14. CASE ~RedIn(t, v)
  <2> DEFINE f == [h EXCEPT ![v] = 0]
  <2>1. pc' = "delete_case1" /\ n' = v /\ item' = <<>> /\ victim' = v
    BY <1>1, <1>3, <1>14
  <2>2. f \in [Addr -> Nat] /\ \A b \in Addr : f[b] = IF b = v THEN 0 ELSE h[b]
    BY <1>2
  <2> HIDE DEF f
  <2>3. Heights(t', f, v, v)
    <3> SUFFICES ASSUME NEW g \in UsedIn(t), NEW r \in Sides PROVE Level(t', f, v, v, g, r)
      BY <1>5, <2>2 DEF Heights
    <3>1. Level(t, h, nil, nil, g, r) /\ g \in Addr /\ g # nil /\ Other(r) \in Sides
      BY <1>2, <1>5, SideLaw DEF Heights
    <3>2. Kid(t', g, r) = Kid(t, g, r) /\ Kid(t', g, Other(r)) = Kid(t, g, Other(r))
      BY <1>5, <3>1
    <3>3. \A w \in Sides : Seen(f, v, Kid(t, g, w)) = Seen(h, nil, Kid(t, g, w))
      <4> SUFFICES ASSUME NEW w \in Sides
                   PROVE  Seen(f, v, Kid(t, g, w)) = Seen(h, nil, Kid(t, g, w))
        OBVIOUS
      <4>1. Kid(t, g, w) \in Addr \cup {nil}
        BY <1>2, <3>1, TreeFields
      <4>2. \A b \in Addr \cup {nil} : Seen(f, v, b) = Seen(h, nil, b)
        BY <1>2, <1>5, <1>11, <1>14, <2>2 DEF Seen
      <4> QED BY <4>1, <4>2
    <3>4. CASE g # v
      <4>1. f[g] = h[g] /\ t'.node[g].color = t.node[g].color
        BY <1>5, <2>2, <3>1, <3>4
      <4> QED BY <3>1, <3>2, <3>3, <3>4, <4>1 DEF Level
    <3>5. CASE g = v
      <4>1. Seen(h, nil, Kid(t, v, s)) = 0 /\ Seen(h, nil, Kid(t, v, Other(s))) = 0
        BY <1>6, <1>12 DEF Seen
      <4>2. Seen(h, nil, Kid(t, v, r)) = 0 /\ Seen(h, nil, Kid(t, v, Other(r))) = 0
        BY <1>7, <4>1
      <4>3. f[v] = 0
        BY <1>5, <2>2
      <4> QED BY <3>1, <3>2, <3>3, <3>5, <4>2, <4>3 DEF Level
    <3> QED BY <3>4, <3>5
  <2>4. RedsApart(t', v, v)
    BY <1>5, <1>10 DEF RedsApart
  <2>5. ShortAt(t', below, "delete_case1", v, v)
    <3>1. v \in below[v]
      BY <1>2, <1>5 DEF Skeleton, Spans
    <3> QED BY <1>5, <3>1 DEF ShortAt
  <2>6. Deleting(t', "delete_case1", v, v, below, f)
    BY <1>4, <1>9, <2>3, <2>4, <2>5 DEF Deleting, Sound
  <2> QED BY <2>1, <2>2, <2>6 DEF IInv, Good, Deletes
<1> QED BY <1>13, <1>14

-----------------------------------------------------------------------------
(* The invariant. *)

\* Delete keeps the invariant.
LEMMA DeleteStep ==
  ASSUME NEW a \in Used, NEW id
  PROVE  IInv /\ Delete(id, a) => IInv'
<1>1. a \in UsedIn(t)
  BY Names
<1> QED BY <1>1, DeleteIdStep, DeleteNodeStep DEF Delete

\* The empty tree.
LEMMA Start == Init => IInv
<1> SUFFICES ASSUME Init PROVE IInv
  OBVIOUS
<1> DEFINE below == [a \in Addr |-> {}]  h == [a \in Addr |-> 0]
<1>1. /\ t = [root |-> nil, node |-> [a \in Addr |-> Free]]
      /\ pc = "idle" /\ n = nil /\ item = <<>> /\ victim = nil
  BY DEF Init
<1>2. t.root = nil /\ t \in Trees /\ \A a \in Addr : t.node[a] = Free
  BY <1>1, FreeLaw DEF Trees
<1>3. UsedIn(t) = {}
  BY <1>2, FreeLaw DEF UsedIn
<1>4. Skeleton(t, below)
  BY <1>2, <1>3 DEF Skeleton, Linked, Spans, Under
<1>5. ~RedIn(t, t.root)
  BY <1>2, ColorLaw
<1>6. Resting(t, below, h)
  BY <1>3, <1>4, <1>5
  DEF Resting, Sound, Frame, Ordered, Apart, Sized, Heights, RedsApart, Distinct
<1> QED BY <1>1, <1>6 DEF IInv, Good

\* In every state, in the middle of a call too, the nodes form a search tree with
\* mutual links and right sizes, and are red-black but for what the case of the
\* repair at hand (insert_case1 to 5, delete_case1 to 6, unlink) is about to mend.
THEOREM Sturdy == Spec => []IInv
<1>1. IInv /\ [Next]_vars => IInv'
  <2> SUFFICES ASSUME IInv, [Next]_vars PROVE IInv'
    OBVIOUS
  <2>1. CASE \E e \in Entries : Insert(e[1], e[2])
    BY <2>1, InsertStep
  <2>2. CASE Descend
    BY <2>2, DescendStep
  <2>3. CASE insert_case1 \/ insert_case2 \/ insert_case3 \/ insert_case4 \/ insert_case5
    BY <2>3, InsertCase1, InsertCase2, InsertCase3, InsertCase4, InsertCase5
  <2>4. CASE \E a \in Used : \E id \in Users : Delete(id, a)
    BY <2>4, DeleteStep
  <2>5. CASE delete_case1 \/ delete_case2 \/ delete_case3 \/ delete_case4 \/ delete_case5
             \/ delete_case6
    BY <2>5, DeleteCase1, DeleteCase2, DeleteCase3, DeleteCase4, DeleteCase5, DeleteCase6
  <2>6. CASE unlink
    BY <2>6, Unlink
  <2>7. CASE UNCHANGED vars
    BY <2>7 DEF IInv, vars
  <2> QED BY <2>1, <2>2, <2>3, <2>4, <2>5, <2>6, <2>7 DEF Next
<1> QED BY <1>1, Start, PTL DEF Spec

-----------------------------------------------------------------------------
(* Balance. *)

\* One level of BlackHeight, from the heights f below.
LevelOf(x, f, a) ==
    LET l == f[x.node[a].left]
        r == f[x.node[a].right]
        redred == /\ x.node[a].color = RED
                  /\ \/ node_color(x, x.node[a].left) = RED
                     \/ node_color(x, x.node[a].right) = RED
    IN  IF l = -1 \/ r = -1 \/ l # r \/ redred THEN -1
        ELSE l + IF x.node[a].color = BLACK THEN 1 ELSE 0

\* The recursive heights of the property are those of the invariant.
LEMMA HeightLaw ==
  ASSUME NEW below, NEW h, Resting(t, below, h)
  PROVE  BlackHeight[nil] = 0 /\ \A a \in UsedIn(t) : BlackHeight[a] = h[a]
<1> DEFINE f == [a \in Addr \cup {nil} |-> IF a = nil THEN 0
                                           ELSE IF a \in UsedIn(t) THEN h[a] ELSE 1]
<1>0. /\ Heights(t, h, nil, nil) /\ RedsApart(t, nil, nil) /\ Linked(t) /\ Skeleton(t, below)
      /\ t \in Trees /\ h \in [Addr -> Nat] /\ nil \notin Addr /\ UsedIn(t) \subseteq Addr
      /\ "left" \in Sides /\ "right" \in Sides /\ Other("left") = "right"
  BY RestFacts DEF UsedIn, Sides, Other
<1>1. \A a \in UsedIn(t), s \in Sides : Kid(t, a, s) \in UsedIn(t) \cup {nil}
  BY <1>0, KidLaw
\* Any function that is right at the children of a is right at a.
<1>2. ASSUME NEW a \in UsedIn(t), NEW g, g[nil] = 0,
             \A s \in Sides : Kid(t, a, s) # nil => g[Kid(t, a, s)] = h[Kid(t, a, s)]
      PROVE  LevelOf(t, g, a) = h[a]
  <2> DEFINE j == Kid(t, a, "left")  k == Kid(t, a, "right")
             l == g[j]  r == g[k]  c == t.node[a].color
  <2>1. t.node[a].left = j /\ t.node[a].right = k /\ j \in UsedIn(t) \cup {nil}
        /\ k \in UsedIn(t) \cup {nil} /\ a \in Addr /\ a # nil
    BY <1>0, <1>1 DEF Kid
  <2>2. l = Seen(h, nil, j) /\ r = Seen(h, nil, k) /\ l \in Nat
    BY <1>0, <1>2, <2>1 DEF Seen
  <2>3. Level(t, h, nil, nil, a, "left")
    BY <1>0 DEF Heights
  <2>4. l = r /\ h[a] = l + (IF c = BLACK THEN 1 ELSE 0)
    BY <1>0, <2>1, <2>2, <2>3 DEF Level
  <2>5. ~(c = RED /\ (node_color(t, j) = RED \/ node_color(t, k) = RED))
    <3>1. RedIn(t, a) <=> c = RED
      BY <1>0, <2>1, ColorLaw
    <3>2. RedIn(t, a) => ~RedIn(t, j) /\ ~RedIn(t, k)
      BY <1>0, <2>1, ColorLaw DEF RedsApart
    <3> QED BY <3>1, <3>2 DEF RedIn
  <2>6. l # -1 /\ r # -1
    BY <2>2, <2>4
  <2> HIDE DEF j, k, l, r
  <2> QED BY <2>1, <2>4, <2>5, <2>6 DEF LevelOf, l, r
<1>3. f[nil] = 0 /\ \A a \in UsedIn(t) : f[a] = h[a]
  BY <1>0
<1>4. f = [a \in Addr \cup {nil} |-> IF a = nil THEN 0 ELSE LevelOf(t, f, a)]
  <2>0. f = [a \in Addr \cup {nil} |-> f[a]]
    OBVIOUS
  <2>1. \A a \in Addr \ UsedIn(t) : f[a] = 1
    BY <1>0
  <2> HIDE DEF f
  <2>2. ASSUME NEW a \in UsedIn(t) PROVE LevelOf(t, f, a) = f[a]
    <3>1. LevelOf(t, f, a) = h[a]
      BY <1>1, <1>2, <1>3
    <3> QED BY <1>3, <3>1
  <2>3. ASSUME NEW a \in Addr \ UsedIn(t) PROVE LevelOf(t, f, a) = 1
    <3>1. t.node[a] = Free
      BY <1>0 DEF Linked
    <3>2. t.node[a].left = nil /\ t.node[a].right = nil /\ t.node[a].color = BLACK
      BY <3>1 DEF Free
    <3> QED BY <1>3, <3>2, AddrLaw DEF LevelOf
  <2>4. ASSUME NEW a \in Addr \cup {nil}
        PROVE  f[a] = IF a = nil THEN 0 ELSE LevelOf(t, f, a)
    BY <1>0, <1>3, <2>1, <2>2, <2>3
  <2> QED BY <2>0, <2>4
<1> HIDE DEF f
<1>5. BlackHeight = [a \in Addr \cup {nil} |-> IF a = nil THEN 0 ELSE LevelOf(t, BlackHeight, a)]
  BY <1>4 DEF BlackHeight, LevelOf
<1>6. BlackHeight[nil] = 0 /\ \A a \in UsedIn(t) : BlackHeight[a] = LevelOf(t, BlackHeight, a)
  BY <1>0, <1>5
<1> DEFINE T == {a \in UsedIn(t) : BlackHeight[a] # h[a]}
<1>7. T = {}
  <2> SUFFICES ASSUME T # {} PROVE FALSE
    OBVIOUS
  <2>1. PICK a \in T : \A s \in Sides : Kid(t, a, s) \notin T
    <3>1. T \in SUBSET UsedIn(t)
      OBVIOUS
    <3> HIDE DEF T
    <3> QED BY <1>0, <3>1, Lowest
  <2>2. a \in UsedIn(t) /\ BlackHeight[a] # h[a]
    OBVIOUS
  <2>3. \A s \in Sides : Kid(t, a, s) # nil => BlackHeight[Kid(t, a, s)] = h[Kid(t, a, s)]
    BY <1>1, <2>1, <2>2
  <2>4. LevelOf(t, BlackHeight, a) = h[a]
    BY <1>2, <1>6, <2>2, <2>3
  <2> QED BY <1>6, <2>2, <2>4
<1> QED BY <1>6, <1>7

\* After every Insert and every Delete the root is black, no red node has a red
\* child, and every way down has the same number of black nodes, whatever the
\* calls before were and whichever repairs they took.
THEOREM RedBlack == Spec => []Balanced
<1>1. IInv => Balanced
  <2> SUFFICES ASSUME IInv, pc = "idle"
               PROVE  node_color(t, t.root) = BLACK /\ BlackHeight[t.root] >= 0
    BY DEF Balanced
  <2> PICK below \in [Addr -> SUBSET Addr], h \in [Addr -> Nat] :
           Good(t, pc, n, item, victim, below, h)
    BY DEF IInv
  <2>1. Resting(t, below, h)
    BY Phases
  <2>2. t \in Trees /\ t.root \in Addr \cup {nil} /\ ~RedIn(t, t.root) /\ Linked(t)
        /\ nil \notin Addr
    BY <2>1, RestFacts
  <2>3. node_color(t, t.root) = BLACK
    BY <2>2, ColorLaw
  <2>4. BlackHeight[t.root] \in Nat
    <3>1. CASE t.root = nil
      BY <2>1, <3>1, HeightLaw
    <3>2. CASE t.root # nil
      <4>1. t.root \in UsedIn(t)
        BY <2>2, <3>2 DEF Linked
      <4>2. BlackHeight[t.root] = h[t.root]
        BY <2>1, <4>1, HeightLaw
      <4> QED BY <2>2, <3>2, <4>2
    <3> QED BY <3>1, <3>2
  <2> QED BY <2>3, <2>4
<1> QED BY <1>1, Sturdy, PTL

-----------------------------------------------------------------------------
(* The tree implements the map from scores to ids. *)

\* What the tree x holds when v is being taken out.
Held(x, v) ==
    [score \in Scores |->
        LET at == {a \in UsedIn(x) \ {v} : x.node[a].score = score}
        IN  IF at = {} THEN <<>> ELSE x.node[CHOOSE a \in at : TRUE].ids]

\* What the tree holds, as a function of the tree.
LEMMA ContentsLaw == Contents = Held(t, victim) /\ Contents' = Held(t', victim')
BY DEF Contents, Held, Used, UsedIn

\* What RankSet's tree does to its ids when it deletes one.
Left(s, id) == IF Len(s) = 1 THEN <<>> ELSE RemoveAt(s, IdAt(s, id))

\* The operations of the abstract tree on the ids of one score.
LEMMA SetOps ==
  ASSUME NEW r, NEW id, NEW score, r[score] \in Seq(Users)
  PROVE  /\ Set!RInsert(r, id, score) = [r EXCEPT ![score] = Append(r[score], id)]
         /\ Set!Located(r, id, score) <=> score \in Scores /\ \E k \in DOMAIN r[score] : r[score][k] = id
         /\ (\E k \in DOMAIN r[score] : r[score][k] = id)
            => Set!RDelete(r, id, score) = [r EXCEPT ![score] = Left(r[score], id)]
<1>1. Set!RInsert(r, id, score) = [r EXCEPT ![score] = Append(r[score], id)]
  BY DEF Set!RInsert
<1>2. Set!Located(r, id, score) <=> score \in Scores /\ \E k \in DOMAIN r[score] : r[score][k] = id
  <2>1. DOMAIN r[score] = 1 .. Len(r[score])
    OBVIOUS
  <2> QED BY <2>1 DEF Set!Located, Set!Contains
<1>3. ASSUME \E k \in DOMAIN r[score] : r[score][k] = id
      PROVE  Set!RDelete(r, id, score) = [r EXCEPT ![score] = Left(r[score], id)]
  <2> DEFINE s == r[score]  k == IdAt(s, id)
  <2>1. Set!RDelete(r, id, score)
        = [r EXCEPT ![score] =
              IF Len(s) = 1 THEN <<>>
              ELSE IF \E i \in 1 .. Len(s) : s[i] = id
                   THEN SubSeq(s, 1, (CHOOSE i \in DOMAIN s : s[i] = id
                                                /\ \A j \in 1 .. i - 1 : ~(s[j] = id)) - 1)
                        \o SubSeq(s, (CHOOSE i \in DOMAIN s : s[i] = id
                                                /\ \A j \in 1 .. i - 1 : ~(s[j] = id)) + 1,
                                  Len(s))
                   ELSE s]
    BY DEF Set!RDelete, Set!Contains, Set!RemoveAt, Set!First
  <2>2. (CHOOSE i \in DOMAIN s : s[i] = id /\ \A j \in 1 .. i - 1 : ~(s[j] = id)) = k
    BY DEF IdAt
  <2>3. \E i \in 1 .. Len(s) : s[i] = id
    BY <1>3
  <2>4. SubSeq(s, 1, k - 1) \o SubSeq(s, k + 1, Len(s)) = RemoveAt(s, k)
    BY DEF RemoveAt
  <2> HIDE DEF s, k
  <2>5. Set!RDelete(r, id, score) = [r EXCEPT ![score] = IF Len(s) = 1 THEN <<>>
                                                         ELSE RemoveAt(s, k)]
    BY <2>1, <2>2, <2>3, <2>4, Zenon
  <2>6. Left(s, id) = IF Len(s) = 1 THEN <<>> ELSE RemoveAt(s, k)
    BY DEF Left, k
  <2>7. Set!RDelete(r, id, score) = [r EXCEPT ![score] = Left(s, id)]
    BY <2>5, <2>6, Zenon
  <2> QED BY <2>7 DEF s
<1> QED BY <1>1, <1>2, <1>3

Ranked(x) == \A a \in UsedIn(x) : x.node[a].score \in Scores

\* A score is held by its one node or by none.
LEMMA HeldLaw ==
  ASSUME NEW x \in Trees, NEW v, Apart(x, v)
  PROVE  /\ Held(x, v) \in [Scores -> Seq(Users)]
         /\ \A a \in UsedIn(x) \ {v} :
               x.node[a].score \in Scores => Held(x, v)[x.node[a].score] = x.node[a].ids
         /\ \A s \in Scores : (\A a \in UsedIn(x) \ {v} : x.node[a].score # s)
                              => Held(x, v)[s] = <<>>
<1> DEFINE at(s) == {a \in UsedIn(x) \ {v} : x.node[a].score = s}
<1>0. UsedIn(x) \subseteq Addr
  BY DEF UsedIn
<1>1. /\ Held(x, v) = [s \in Scores |-> Held(x, v)[s]]
      /\ \A s \in Scores : Held(x, v)[s] = IF at(s) = {} THEN <<>>
                                           ELSE x.node[CHOOSE a \in at(s) : TRUE].ids
  BY DEF Held
<1>2. ASSUME NEW s \in Scores, at(s) # {}
      PROVE  \E a \in UsedIn(x) \ {v} : x.node[a].score = s /\ Held(x, v)[s] = x.node[a].ids
  <2> DEFINE a == CHOOSE a \in at(s) : TRUE
  <2>1. a \in at(s)
    BY <1>2
  <2>2. Held(x, v)[s] = x.node[a].ids
    BY <1>1, <1>2
  <2>3. a \in UsedIn(x) \ {v} /\ x.node[a].score = s
    BY <2>1
  <2> HIDE DEF a
  <2> QED BY <2>2, <2>3
<1>3. ASSUME NEW a \in UsedIn(x) \ {v}, x.node[a].score \in Scores
      PROVE  Held(x, v)[x.node[a].score] = x.node[a].ids
  <2>1. a \in at(x.node[a].score)
    OBVIOUS
  <2>2. PICK b \in UsedIn(x) \ {v} : /\ x.node[b].score = x.node[a].score
                                     /\ Held(x, v)[x.node[a].score] = x.node[b].ids
    BY <1>2, <1>3, <2>1
  <2>3. a = b
    BY <2>2 DEF Apart
  <2> QED BY <2>2, <2>3
<1>4. ASSUME NEW s \in Scores, \A a \in UsedIn(x) \ {v} : x.node[a].score # s
      PROVE  Held(x, v)[s] = <<>>
  <2>1. at(s) = {}
    BY <1>4
  <2> QED BY <1>1, <2>1
<1>5. ASSUME NEW s \in Scores PROVE Held(x, v)[s] \in Seq(Users)
  <2>1. CASE at(s) = {}
    <3>1. Held(x, v)[s] = <<>>
      BY <1>1, <2>1
    <3> QED BY <3>1
  <2>2. CASE at(s) # {}
    BY <1>0, <1>2, <2>2, TreeFields
  <2> QED BY <2>1, <2>2
<1> QED BY <1>1, <1>3, <1>4, <1>5

\* What characterizes it.
LEMMA HeldIs ==
  ASSUME NEW x \in Trees, NEW v, Apart(x, v), NEW m, m = [s \in Scores |-> m[s]],
         \A a \in UsedIn(x) \ {v} : x.node[a].score \in Scores
                                    => m[x.node[a].score] = x.node[a].ids,
         \A s \in Scores : (\A a \in UsedIn(x) \ {v} : x.node[a].score # s) => m[s] = <<>>
  PROVE  Held(x, v) = m
<1>1. ASSUME NEW s \in Scores PROVE Held(x, v)[s] = m[s]
  <2>1. CASE \A a \in UsedIn(x) \ {v} : x.node[a].score # s
    BY <2>1, HeldLaw
  <2>2. CASE \E a \in UsedIn(x) \ {v} : x.node[a].score = s
    <3>1. PICK a \in UsedIn(x) \ {v} : x.node[a].score = s
      BY <2>2
    <3>2. Held(x, v)[x.node[a].score] = x.node[a].ids /\ m[x.node[a].score] = x.node[a].ids
      BY <3>1, HeldLaw
    <3> QED BY <3>1, <3>2
  <2> QED BY <2>1, <2>2
<1>2. Held(x, v) = [s \in Scores |-> Held(x, v)[s]]
  BY DEF Held
<1> QED BY <1>1, <1>2

\* The same scores and ids are the same contents, whatever the links.
LEMMA HeldSame ==
  ASSUME NEW x, NEW y, NEW v, NEW w, UsedIn(y) \ {w} = UsedIn(x) \ {v},
         \A a \in UsedIn(x) \ {v} : y.node[a].score = x.node[a].score
                                    /\ y.node[a].ids = x.node[a].ids
  PROVE  Held(y, w) = Held(x, v)
<1> SUFFICES ASSUME NEW s \in Scores
             PROVE  (LET at == {a \in UsedIn(y) \ {w} : y.node[a].score = s}
                     IN  IF at = {} THEN <<>> ELSE y.node[CHOOSE a \in at : TRUE].ids)
                    = (LET at == {a \in UsedIn(x) \ {v} : x.node[a].score = s}
                       IN  IF at = {} THEN <<>> ELSE x.node[CHOOSE a \in at : TRUE].ids)
  BY DEF Held
<1> DEFINE A == {a \in UsedIn(y) \ {w} : y.node[a].score = s}
           B == {a \in UsedIn(x) \ {v} : x.node[a].score = s}
           b == CHOOSE a \in B : TRUE
<1>1. A = B
  OBVIOUS
<1>2. B # {} => b \in B
  OBVIOUS
<1>3. B # {} => y.node[b].ids = x.node[b].ids
  <2>1. B \subseteq UsedIn(x) \ {v}
    OBVIOUS
  <2> HIDE DEF B, b
  <2> QED BY <1>2, <2>1
<1>4. (CHOOSE a \in A : TRUE) = b
  BY <1>1
<1> HIDE DEF A, B, b
<1> QED BY <1>1, <1>3, <1>4 DEF A, B

\* An id at the end of the ids of its score.
LEMMA HeldInsert ==
  ASSUME NEW x \in Trees, NEW y \in Trees, NEW e \in Entries, NEW a \in Addr,
         Apart(x, nil), Apart(y, nil), nil \notin Addr,
         UsedIn(y) = UsedIn(x) \cup {a}, y.node[a].score = e[1],
         \A b \in UsedIn(x) \ {a} : y.node[b].score = x.node[b].score
                                    /\ y.node[b].ids = x.node[b].ids,
         \/ /\ a \in UsedIn(x) /\ x.node[a].score = e[1]
            /\ y.node[a].ids = Append(x.node[a].ids, e[2])
         \/ a \notin UsedIn(x) /\ y.node[a].ids = <<e[2]>>,
         \A b \in UsedIn(x) : \A k \in DOMAIN x.node[b].ids : x.node[b].ids[k] # e[2]
  PROVE  /\ Held(y, nil) = Set!RInsert(Held(x, nil), e[2], e[1])
         /\ \A s \in Scores : ~Set!Located(Held(x, nil), e[2], s)
<1> DEFINE m == Held(x, nil)  w == [m EXCEPT ![e[1]] = Append(m[e[1]], e[2])]
<1>0. /\ e[1] \in Scores /\ m \in [Scores -> Seq(Users)]
      /\ UsedIn(x) \subseteq Addr /\ UsedIn(x) \ {nil} = UsedIn(x) /\ UsedIn(y) \ {nil} = UsedIn(y)
      /\ a # nil
  BY HeldLaw DEF Scores, UsedIn
<1>1. \A b \in UsedIn(x) : x.node[b].score \in Scores => m[x.node[b].score] = x.node[b].ids
  BY <1>0, HeldLaw
<1>2. \A s \in Scores : (\A b \in UsedIn(x) : x.node[b].score # s) => m[s] = <<>>
  BY <1>0, HeldLaw
<1> HIDE DEF m
<1>3. /\ w = [s \in Scores |-> w[s]]
      /\ \A s \in Scores : w[s] = IF s = e[1] THEN Append(m[e[1]], e[2]) ELSE m[s]
  BY <1>0
<1> HIDE DEF w
<1>4. \A b \in UsedIn(x) \ {a} : x.node[b].score # e[1]
  BY <1>0 DEF Apart
<1>5. w[e[1]] = y.node[a].ids
  <2>1. CASE a \in UsedIn(x)
    <3>1. x.node[a].score = e[1] /\ y.node[a].ids = Append(x.node[a].ids, e[2])
      BY <2>1
    <3>2. m[e[1]] = x.node[a].ids
      BY <1>0, <1>1, <2>1, <3>1
    <3> QED BY <1>0, <1>3, <3>1, <3>2
  <2>2. CASE a \notin UsedIn(x)
    <3>1. m[e[1]] = <<>>
      BY <1>0, <1>2, <1>4, <2>2
    <3>2. Append(<<>>, e[2]) = <<e[2]>>
      OBVIOUS
    <3> QED BY <1>0, <1>3, <2>2, <3>1, <3>2
  <2> QED BY <2>1, <2>2
<1>6. \A b \in UsedIn(y) \ {nil} : y.node[b].score \in Scores => w[y.node[b].score] = y.node[b].ids
  <2> SUFFICES ASSUME NEW b \in UsedIn(y), y.node[b].score \in Scores
               PROVE  w[y.node[b].score] = y.node[b].ids
    OBVIOUS
  <2>1. CASE b = a
    BY <1>5, <2>1
  <2>2. CASE b # a
    <3>1. b \in UsedIn(x) \ {a}
      BY <2>2
    <3> QED BY <1>1, <1>3, <1>4, <3>1
  <2> QED BY <2>1, <2>2
<1>7. \A s \in Scores : (\A b \in UsedIn(y) \ {nil} : y.node[b].score # s) => w[s] = <<>>
  <2> SUFFICES ASSUME NEW s \in Scores, \A b \in UsedIn(y) : y.node[b].score # s
               PROVE  w[s] = <<>>
    BY <1>0
  <2>1. s # e[1]
    OBVIOUS
  <2>2. \A b \in UsedIn(x) : x.node[b].score # s
    BY <2>1
  <2> QED BY <1>2, <1>3, <2>1, <2>2
<1>8. Held(y, nil) = w
  BY <1>3, <1>6, <1>7, HeldIs
<1>9. Set!RInsert(m, e[2], e[1]) = w
  <2>1. m[e[1]] \in Seq(Users)
    BY <1>0
  <2>2. Set!RInsert(m, e[2], e[1]) = [m EXCEPT ![e[1]] = Append(m[e[1]], e[2])]
    BY DEF Set!RInsert
  <2> QED BY <2>2 DEF w
<1>10. ASSUME NEW s \in Scores, Set!Located(m, e[2], s) PROVE FALSE
  <2>1. \E k \in DOMAIN m[s] : m[s][k] = e[2]
    BY <1>0, <1>10, SetOps
  <2>2. m[s] # <<>>
    BY <2>1
  <2>3. PICK b \in UsedIn(x) : x.node[b].score = s
    BY <1>2, <2>2
  <2> QED BY <1>1, <2>1, <2>3
<1> QED BY <1>8, <1>9, <1>10 DEF m

\* The id goes from the ids of the score of a.
Trimmed(x, y, v, a, id) ==
  Held(y, v) = [Held(x, nil) EXCEPT ![x.node[a].score] = Left(x.node[a].ids, id)]

\* An id less in a node that keeps others.
LEMMA HeldDelete ==
  ASSUME NEW x \in Trees, NEW y \in Trees, NEW a \in UsedIn(x), NEW id,
         Apart(x, nil), Apart(y, nil), Ranked(x), nil \notin Addr,
         UsedIn(y) = UsedIn(x), \A b \in UsedIn(x) : y.node[b].score = x.node[b].score,
         \A b \in UsedIn(x) \ {a} : y.node[b].ids = x.node[b].ids,
         Len(x.node[a].ids) > 1,
         y.node[a].ids = RemoveAt(x.node[a].ids, IdAt(x.node[a].ids, id))
  PROVE  Trimmed(x, y, nil, a, id)
<1> DEFINE m == Held(x, nil)  c == x.node[a].score  l == Left(x.node[a].ids, id)
           w == [m EXCEPT ![c] = l]
<1>0. /\ m \in [Scores -> Seq(Users)] /\ c \in Scores
      /\ UsedIn(x) \subseteq Addr /\ UsedIn(x) \ {nil} = UsedIn(x)
  BY HeldLaw DEF UsedIn, Ranked
<1>1. \A b \in UsedIn(x) : x.node[b].score \in Scores => m[x.node[b].score] = x.node[b].ids
  BY <1>0, HeldLaw
<1>2. \A s \in Scores : (\A b \in UsedIn(x) : x.node[b].score # s) => m[s] = <<>>
  BY <1>0, HeldLaw
<1>3. l = y.node[a].ids
  <2>1. Len(x.node[a].ids) \in Nat
    BY <1>0, TreeFields
  <2> DEFINE K == Len(x.node[a].ids)
  <2>2. K # 1
    <3>1. K \in Nat /\ K > 1
      BY <2>1
    <3> HIDE DEF K
    <3> QED BY <3>1
  <2> QED BY <2>2, Zenon DEF Left
<1> HIDE DEF m, l
<1>4. w = [s \in Scores |-> w[s]] /\ \A s \in Scores : w[s] = IF s = c THEN l ELSE m[s]
  BY <1>0
<1> HIDE DEF w
<1>5. \A b \in UsedIn(x) \ {a} : x.node[b].score # c
  BY <1>0 DEF Apart
<1>6. \A b \in UsedIn(y) \ {nil} : y.node[b].score \in Scores => w[y.node[b].score] = y.node[b].ids
  <2> SUFFICES ASSUME NEW b \in UsedIn(x), x.node[b].score \in Scores
               PROVE  w[x.node[b].score] = y.node[b].ids
    OBVIOUS
  <2>1. CASE b = a
    BY <1>3, <1>4, <2>1
  <2>2. CASE b # a
    BY <1>1, <1>4, <1>5, <2>2
  <2> QED BY <2>1, <2>2
<1>7. \A s \in Scores : (\A b \in UsedIn(y) \ {nil} : y.node[b].score # s) => w[s] = <<>>
  BY <1>0, <1>2, <1>4
<1>8. Held(y, nil) = w
  BY <1>4, <1>6, <1>7, HeldIs
<1> QED BY <1>8 DEF w, m, l, Trimmed

\* The only id of a node.
LEMMA HeldTaken ==
  ASSUME NEW x \in Trees, NEW y, NEW below, NEW a \in UsedIn(x), NEW v, NEW c, NEW id,
         Apart(x, nil), Apart(y, v), Ranked(x), nil \notin Addr,
         Chosen(x, below, a, v, c), Taken(x, y, below, a, v, c), Len(x.node[a].ids) = 1
  PROVE  Trimmed(x, y, v, a, id)
<1> DEFINE m == Held(x, nil)  k == x.node[a].score  l == Left(x.node[a].ids, id)
           w == [m EXCEPT ![k] = l]
<1>0. /\ m \in [Scores -> Seq(Users)] /\ k \in Scores
      /\ UsedIn(x) \subseteq Addr /\ UsedIn(x) \ {nil} = UsedIn(x)
      /\ v \in UsedIn(x) /\ y \in Trees /\ UsedIn(y) = UsedIn(x)
      /\ \A b \in UsedIn(x) :
           /\ y.node[b].score = (IF b = a THEN x.node[v].score ELSE x.node[b].score)
           /\ y.node[b].ids = (IF b = a THEN x.node[v].ids ELSE x.node[b].ids)
  BY HeldLaw DEF UsedIn, Ranked, Chosen, Taken, Shaped
<1>1. \A b \in UsedIn(x) : x.node[b].score \in Scores => m[x.node[b].score] = x.node[b].ids
  BY <1>0, HeldLaw
<1>2. \A s \in Scores : (\A b \in UsedIn(x) : x.node[b].score # s) => m[s] = <<>>
  BY <1>0, HeldLaw
<1>3. l = <<>>
  BY DEF Left
<1> HIDE DEF m, l
<1>4. w = [s \in Scores |-> w[s]] /\ \A s \in Scores : w[s] = IF s = k THEN l ELSE m[s]
  BY <1>0
<1> HIDE DEF w
<1>5. \A b \in UsedIn(x) \ {a} : x.node[b].score # k
  BY <1>0 DEF Apart
<1>6. \A b \in UsedIn(y) \ {v} : y.node[b].score \in Scores => w[y.node[b].score] = y.node[b].ids
  <2> SUFFICES ASSUME NEW b \in UsedIn(x) \ {v}, y.node[b].score \in Scores
               PROVE  w[y.node[b].score] = y.node[b].ids
    BY <1>0
  <2>1. CASE b = a
    <3>1. y.node[b].score = x.node[v].score /\ y.node[b].ids = x.node[v].ids
      BY <1>0, <2>1
    <3>2. x.node[v].score # k
      BY <1>0, <1>5, <2>1
    <3> QED BY <1>0, <1>1, <1>4, <3>1, <3>2
  <2>2. CASE b # a
    <3>1. y.node[b].score = x.node[b].score /\ y.node[b].ids = x.node[b].ids
      BY <1>0, <2>2
    <3> QED BY <1>1, <1>4, <1>5, <2>2, <3>1
  <2> QED BY <2>1, <2>2
<1>7. \A s \in Scores : (\A b \in UsedIn(y) \ {v} : y.node[b].score # s) => w[s] = <<>>
  <2> SUFFICES ASSUME NEW s \in Scores, \A b \in UsedIn(x) \ {v} : y.node[b].score # s, s # k
               PROVE  w[s] = <<>>
    BY <1>0, <1>3, <1>4
  <2>1. ASSUME NEW b \in UsedIn(x) PROVE x.node[b].score # s
    <3>1. CASE b = a
      BY <3>1
    <3>2. CASE b # a /\ b # v
      BY <1>0, <3>2
    <3>3. CASE b # a /\ b = v
      BY <1>0, <3>3
    <3> QED BY <3>1, <3>2, <3>3
  <2> QED BY <1>2, <1>4, <2>1
<1>8. Held(y, v) = w
  BY <1>0, <1>4, <1>6, <1>7, HeldIs
<1> QED BY <1>8 DEF w, m, l, Trimmed

-----------------------------------------------------------------------------
(* What the actions do to it. *)

Outcome == Ranked(t') /\ (Contents' = Contents \/ Set!Next)

\* What holds in every state of the repair.
LEMMA Basics ==
  ASSUME NEW x, NEW p, NEW a, NEW i, NEW v, NEW below, NEW h, Good(x, p, a, i, v, below, h)
  PROVE  x \in Trees /\ Skeleton(x, below) /\ Apart(x, v) /\ nil \notin Addr
         /\ (p \in Inserts => v = nil)
<1>0. nil \notin Addr /\ Inserts \cap (Deletes \cup {"unlink"}) = {}
  BY AddrLaw DEF Inserts, Deletes
<1>1. CASE p = "idle" /\ a = nil /\ i = <<>> /\ v = nil /\ Resting(x, below, h)
  BY <1>0, <1>1 DEF Resting, Sound, Frame, Skeleton
<1>2. CASE p = "descend" /\ v = nil /\ Descending(x, a, i, below, h)
  BY <1>0, <1>2 DEF Descending, Frame, Skeleton
<1>3. CASE p \in Inserts /\ v = nil /\ i = <<>> /\ Inserting(x, p, a, below, h)
  BY <1>0, <1>3 DEF Inserting, Sound, Frame, Skeleton
<1>4. CASE p \in Deletes /\ i = <<>> /\ Deleting(x, p, a, v, below, h)
  BY <1>0, <1>4 DEF Deleting, Sound, Frame, Skeleton
<1>5. CASE p = "unlink" /\ a = nil /\ i = <<>> /\ Unlinking(x, v, below, h)
  BY <1>0, <1>5 DEF Unlinking, Sound, Frame, Skeleton
<1> QED BY <1>1, <1>2, <1>3, <1>4, <1>5 DEF Good

\* The scores and the ids of the nodes.
Same(x, y) == \A a \in Addr : y.node[a].score = x.node[a].score /\ y.node[a].ids = x.node[a].ids

\* A step that moves nodes is a stutter of the abstract tree.
LEMMA SameOutcome ==
  ASSUME Ranked(t), Same(t, t'), victim' = victim
  PROVE  Outcome
<1>1. UsedIn(t') = UsedIn(t) /\ UsedIn(t) \subseteq Addr
  BY DEF UsedIn, Same
<1>2. Held(t', victim) = Held(t, victim)
  BY <1>1, HeldSame DEF Same
<1>3. Ranked(t')
  BY <1>1 DEF Ranked, Same
<1> QED BY <1>2, <1>3, ContentsLaw DEF Outcome

\* An insertion of the abstract tree.
LEMMA InsertedNext ==
  ASSUME NEW e \in Entries, \A s \in Scores : ~Set!Located(Contents, e[2], s),
         Contents' = Set!RInsert(Contents, e[2], e[1])
  PROVE  Set!Next
<1>1. e[1] \in Scores /\ e[2] \in Users
  BY DEF Scores, Users
<1> QED BY <1>1 DEF Set!Next, Set!Inserted

\* A new node inserts its id.
LEMMA HungOutcome ==
  ASSUME NEW e \in Entries, NEW p, NEW s, NEW a, t \in Trees, Ranked(t), victim = nil,
         Apart(t, nil), Apart(t', nil), nil \notin Addr, victim' = nil, Hung(t, t', p, s, a, e),
         \A b \in UsedIn(t) : \A k \in DOMAIN t.node[b].ids : t.node[b].ids[k] # e[2]
  PROVE  Outcome
<1>1. /\ t' \in Trees /\ a \in Addr /\ a \notin UsedIn(t)
      /\ t'.node[a] = new_node(e[1], e[2], p)
      /\ \A b \in Addr \ {a} : t'.node[b].score = t.node[b].score
                               /\ t'.node[b].ids = t.node[b].ids
  BY DEF Hung
<1>2. t'.node[a].score = e[1] /\ t'.node[a].ids = <<e[2]>> /\ <<e[2]>> # <<>>
  BY <1>1 DEF new_node
<1>3. UsedIn(t') = UsedIn(t) \cup {a} /\ UsedIn(t) \subseteq Addr
  BY <1>1, <1>2 DEF UsedIn
<1>4. e[1] \in Scores
  BY DEF Scores
<1>5. Ranked(t')
  BY <1>1, <1>2, <1>3, <1>4 DEF Ranked
<1>6. /\ Held(t', nil) = Set!RInsert(Held(t, nil), e[2], e[1])
      /\ \A r \in Scores : ~Set!Located(Held(t, nil), e[2], r)
  <2>1. \A b \in UsedIn(t) \ {a} : t'.node[b].score = t.node[b].score
                                   /\ t'.node[b].ids = t.node[b].ids
    BY <1>1, <1>3
  <2> QED BY <1>1, <1>2, <1>3, <2>1, HeldInsert
<1>7. Contents' = Set!RInsert(Contents, e[2], e[1])
      /\ \A r \in Scores : ~Set!Located(Contents, e[2], r)
  BY <1>6, ContentsLaw
<1> QED BY <1>5, <1>7, InsertedNext DEF Outcome

\* Into the empty tree Insert inserts at once; else the way down starts.
LEMMA InsertOutcome ==
  ASSUME NEW e \in Entries, IInv, IInv', Ranked(t), Insert(e[1], e[2])
  PROVE  Outcome
<1> PICK below \in [Addr -> SUBSET Addr], h \in [Addr -> Nat] :
         Good(t, pc, n, item, victim, below, h)
  BY DEF IInv
<1>0. pc = "idle" /\ \A b \in UsedIn(t) : \A k \in DOMAIN t.node[b].ids : t.node[b].ids[k] # e[2]
  BY Names DEF Insert
<1>1. victim = nil /\ t \in Trees /\ Apart(t, nil) /\ nil \notin Addr
  BY <1>0, Phases, Basics
<1>2. CASE t.root = nil
  <2>1. Link(nil, "left", e[1], e[2])
    BY <1>2 DEF Insert
  <2>2. Hung(t, t', nil, "left", n', e) /\ victim' = nil
    BY <1>1, <2>1, LinkFields DEF Sides
  <2>3. Apart(t', victim')
    BY Basics DEF IInv
  <2> QED BY <1>0, <1>1, <2>2, <2>3, HungOutcome
<1>3. CASE t.root # nil
  <2>1. t' = t /\ victim' = victim
    BY <1>3 DEF Insert
  <2>2. Same(t, t')
    BY <2>1 DEF Same
  <2> QED BY <2>1, <2>2, SameOutcome
<1> QED BY <1>2, <1>3

\* Descend inserts where it ends.
LEMMA DescendOutcome ==
  ASSUME IInv, IInv', Ranked(t), Descend
  PROVE  Outcome
<1> PICK below \in [Addr -> SUBSET Addr], h \in [Addr -> Nat] :
         Good(t, pc, n, item, victim, below, h)
  BY DEF IInv
<1> DEFINE s == Descend_Side(t.node[n].score, item[1])
<1>0. pc = "descend"
  BY DEF Descend
<1>1. /\ victim = nil /\ t \in Trees /\ Apart(t, nil) /\ nil \notin Addr
      /\ n \in UsedIn(t) /\ n \in Addr /\ item \in Entries
      /\ \A b \in UsedIn(t) : \A k \in DOMAIN t.node[b].ids : t.node[b].ids[k] # item[2]
      /\ s \in Sides
  <2>1. victim = nil /\ Descending(t, n, item, below, h)
    BY <1>0, Phases
  <2>2. \A b \in UsedIn(t) : \A k \in DOMAIN t.node[b].ids : t.node[b].ids[k] # item[2]
    BY <2>1 DEF Descending, Carried
  <2>3. s \in Sides
    BY DEF Descend_Side, Sides
  <2> HIDE DEF s
  <2> QED BY <2>1, <2>2, <2>3, DescendFacts
<1>2. item[1] \in Int /\ item[2] \in Users /\ t.node[n].size + 1 \in Int
      /\ t.node[n].ids \in Seq(Users) /\ item[1] \in Scores
  <2>1. t.node[n].size \in Int /\ t.node[n].ids \in Seq(Users)
    BY <1>1, TreeFields
  <2> QED BY <1>1, <2>1, EntryLaw DEF Scores
<1>3. Apart(t', victim') /\ t' \in Trees
  BY Basics DEF IInv
<1>4. CASE item[1] = t.node[n].score
  <2> DEFINE x == [t EXCEPT !.node[n].size = t.node[n].size + 1]
             l == Append(t.node[n].ids, item[2])
             y == [x EXCEPT !.node[n].ids = l]
  <2>1. t' = y /\ victim' = nil
    BY <1>4 DEF Descend, Return
  <2>2. l \in Seq(Users) /\ l # <<>>
    BY <1>2
  <2>3. Counted(t, x, n, t.node[n].size + 1)
    BY <1>1, <1>2, SizeSet
  <2>4. x \in Trees
    BY <2>3 DEF Counted
  <2> HIDE DEF x, l
  <2>5. Renamed(x, y, n, l)
    BY <1>1, <2>2, <2>4, IdsSet
  <2> HIDE DEF y
  <2>6. \A b \in Addr : t'.node[b].score = t.node[b].score
                        /\ t'.node[b].ids = (IF b = n THEN l ELSE t.node[b].ids)
    BY <2>1, <2>3, <2>5 DEF Counted, Renamed
  <2>7. UsedIn(t') = UsedIn(t) /\ UsedIn(t) \subseteq Addr
    BY <1>1, <2>2, <2>6 DEF UsedIn
  <2>8. Ranked(t')
    BY <2>6, <2>7 DEF Ranked
  <2>9. /\ Held(t', nil) = Set!RInsert(Held(t, nil), item[2], item[1])
        /\ \A r \in Scores : ~Set!Located(Held(t, nil), item[2], r)
    <3>1. /\ Apart(t', nil) /\ UsedIn(t') = UsedIn(t) \cup {n}
          /\ t'.node[n].score = item[1] /\ t.node[n].score = item[1]
          /\ t'.node[n].ids = Append(t.node[n].ids, item[2])
          /\ \A b \in UsedIn(t) \ {n} : t'.node[b].score = t.node[b].score
                                        /\ t'.node[b].ids = t.node[b].ids
      BY <1>1, <1>3, <1>4, <2>1, <2>6, <2>7 DEF l
    <3> QED BY <1>1, <1>3, <3>1, HeldInsert
  <2>10. /\ Contents' = Set!RInsert(Contents, item[2], item[1])
         /\ \A r \in Scores : ~Set!Located(Contents, item[2], r)
    BY <1>1, <2>1, <2>9, ContentsLaw
  <2> QED BY <1>1, <2>8, <2>10, InsertedNext DEF Outcome
<1>5. CASE item[1] # t.node[n].score /\ Kid(t, n, s) = nil
  <2>1. Link(n, s, item[1], item[2])
    BY <1>5 DEF Descend, Kid
  <2> HIDE DEF s
  <2>2. Hung(t, t', n, s, n', item) /\ victim' = nil
    BY <1>1, <2>1, LinkFields
  <2> QED BY <1>1, <1>3, <2>2, HungOutcome
<1>6. CASE item[1] # t.node[n].score /\ Kid(t, n, s) # nil
  <2> DEFINE y == [t EXCEPT !.node[n].size = t.node[n].size + 1]
  <2>1. t' = y /\ victim' = victim
    BY <1>6 DEF Descend, Goto, Kid
  <2>2. Counted(t, y, n, t.node[n].size + 1)
    BY <1>1, <1>2, SizeSet
  <2> HIDE DEF y
  <2>3. Same(t, t')
    BY <2>1, <2>2 DEF Counted, Same
  <2> QED BY <2>1, <2>3, SameOutcome
<1> QED BY <1>4, <1>5, <1>6

\* A removal of the abstract tree.
LEMMA RemovedNext ==
  ASSUME NEW id \in Users, NEW s \in Scores, Contents[s] \in Seq(Users),
         \E k \in DOMAIN Contents[s] : Contents[s][k] = id,
         Contents' = [Contents EXCEPT ![s] = Left(Contents[s], id)]
  PROVE  Set!Next
<1>1. Set!Located(Contents, id, s)
  BY SetOps
<1>2. Contents' = Set!RDelete(Contents, id, s)
  BY SetOps
<1> QED BY <1>1, <1>2 DEF Set!Next, Set!Removed

\* Delete removes its id, be it that its node stays, goes or takes over another.
LEMMA DeleteOutcome ==
  ASSUME IInv, IInv', Ranked(t), NEW a \in Used, NEW id \in Users, Delete(id, a)
  PROVE  Outcome
<1> PICK below \in [Addr -> SUBSET Addr], h \in [Addr -> Nat] :
         Good(t, pc, n, item, victim, below, h)
  BY DEF IInv
<1>0. pc = "idle"
  BY DEF Delete, DeleteId, DeleteNode
<1>1. /\ victim = nil /\ t \in Trees /\ Apart(t, nil) /\ nil \notin Addr
      /\ Resting(t, below, h) /\ a \in UsedIn(t) /\ UsedIn(t) \subseteq Addr
      /\ \E k \in DOMAIN t.node[a].ids : t.node[a].ids[k] = id
  BY <1>0, Phases, Basics, Names DEF Delete, UsedIn
<1>2. Apart(t', victim') /\ t' \in Trees
  BY Basics DEF IInv
<1> DEFINE s == t.node[a].score
<1>3. s \in Scores /\ Contents[s] = t.node[a].ids /\ t.node[a].ids \in Seq(Users)
  <2>1. s \in Scores /\ a \in UsedIn(t) \ {nil}
    BY <1>1 DEF Ranked
  <2>2. Held(t, nil)[s] = t.node[a].ids
    BY <1>1, <2>1, HeldLaw
  <2> QED BY <1>1, <2>1, <2>2, ContentsLaw, TreeFields
<1>4. CASE DeleteId(id, a)
  <2> DEFINE k == IdAt(t.node[a].ids, id)
  <2>1. /\ IdGone(t, t', a, k) /\ t'.node[a].ids = RemoveAt(t.node[a].ids, k)
        /\ Len(t.node[a].ids) > 1 /\ victim' = nil
    BY <1>1, <1>4, DeleteIdFields
  <2>2. /\ UsedIn(t') = UsedIn(t)
        /\ \A b \in UsedIn(t) : t'.node[b].score = t.node[b].score
        /\ \A b \in UsedIn(t) \ {a} : t'.node[b].ids = t.node[b].ids
    BY <1>1, <2>1 DEF IdGone, Shaped
  <2>3. Ranked(t')
    BY <2>2 DEF Ranked
  <2>4. Trimmed(t, t', nil, a, id)
    BY <1>1, <1>2, <2>1, <2>2, HeldDelete
  <2>5. Contents' = [Contents EXCEPT ![s] = Left(Contents[s], id)]
    BY <1>1, <1>3, <2>1, <2>4, ContentsLaw DEF Trimmed
  <2> QED BY <1>1, <1>3, <2>3, <2>5, RemovedNext DEF Outcome
<1>5. CASE DeleteNode(a)
  <2>1. PICK v, c : /\ Chosen(t, below, a, v, c) /\ Taken(t, t', below, a, v, c)
                    /\ victim' = v /\ Len(t.node[a].ids) = 1
    BY <1>1, <1>5, DeleteNodeFields
  <2>2. Ranked(t')
    <3>1. /\ UsedIn(t') = UsedIn(t) /\ v \in UsedIn(t)
          /\ \A b \in UsedIn(t) : t'.node[b].score = (IF b = a THEN t.node[v].score
                                                      ELSE t.node[b].score)
      BY <1>1, <2>1 DEF Taken, Shaped, Chosen
    <3> QED BY <3>1 DEF Ranked
  <2>3. Trimmed(t, t', v, a, id)
    BY <1>1, <1>2, <2>1, HeldTaken
  <2>4. Contents' = [Contents EXCEPT ![s] = Left(Contents[s], id)]
    BY <1>1, <1>3, <2>1, <2>3, ContentsLaw DEF Trimmed
  <2> QED BY <1>1, <1>3, <2>2, <2>4, RemovedNext DEF Outcome
<1> QED BY <1>4, <1>5 DEF Delete

\* The victim holds nothing that counts.
LEMMA UnlinkOutcome ==
  ASSUME IInv, IInv', Ranked(t), unlink
  PROVE  Outcome
<1> PICK below \in [Addr -> SUBSET Addr], h \in [Addr -> Nat] :
         Good(t, pc, n, item, victim, below, h)
  BY DEF IInv
<1>0. pc = "unlink" /\ victim' = nil
  BY DEF unlink, Return
<1>1. /\ t \in Trees /\ Skeleton(t, below) /\ nil \notin Addr
      /\ victim \in UsedIn(t) /\ UsedIn(t) \subseteq Addr
  BY <1>0, Phases, Basics DEF Unlinking, Slim, UsedIn
<1> DEFINE v == victim
<1>2. Cut(t, t', v, child(v)) /\ t' \in Trees
  BY <1>1, UnlinkFields, Basics DEF IInv
<1> HIDE DEF v
<1>3. /\ t'.node[v] = Free
      /\ \A b \in Addr \ {v} : t'.node[b].score = t.node[b].score /\ t'.node[b].ids = t.node[b].ids
  BY <1>2 DEF Cut
<1>4. UsedIn(t') = UsedIn(t) \ {v}
  BY <1>3, FreeLaw DEF UsedIn
<1>5. Ranked(t')
  BY <1>1, <1>3, <1>4 DEF Ranked
<1>6. Held(t', nil) = Held(t, v)
  <2>1. UsedIn(t') \ {nil} = UsedIn(t) \ {v}
    BY <1>1, <1>4
  <2> QED BY <1>1, <1>3, <2>1, HeldSame
<1>7. Contents' = Contents
  BY <1>0, <1>6, ContentsLaw DEF v
<1> QED BY <1>5, <1>7 DEF Outcome

-----------------------------------------------------------------------------
(* The repairs keep it. *)

\* A node and a tree whose links may be anything.
Rec(r) == r = [left |-> r.left, right |-> r.right, parent |-> r.parent, size |-> r.size,
               color |-> r.color, score |-> r.score, ids |-> r.ids]
Loose(x) == /\ x = [root |-> x.root, node |-> x.node]
            /\ x.node = [a \in Addr |-> x.node[a]]
            /\ \A a \in Addr : Rec(x.node[a])

\* A tree is a record.
LEMMA LooseTree == ASSUME NEW x \in Trees PROVE Loose(x)
BY DEF Trees, Node, Loose, Rec

\* Colors and sizes are set without touching scores and ids.
LEMMA RecSame ==
  ASSUME NEW r, Rec(r), NEW c
  PROVE  /\ Rec([r EXCEPT !.color = c]) /\ Rec([r EXCEPT !.size = c])
         /\ [r EXCEPT !.color = c].score = r.score /\ [r EXCEPT !.color = c].ids = r.ids
         /\ [r EXCEPT !.size = c].score = r.score /\ [r EXCEPT !.size = c].ids = r.ids
BY DEF Rec

\* A node replaced by one with its score and ids.
LEMMA NodeSame ==
  ASSUME NEW x, Loose(x), NEW a, NEW w,
         a \in Addr => Rec(w) /\ w.score = x.node[a].score /\ w.ids = x.node[a].ids
  PROVE  Loose([x EXCEPT !.node[a] = w]) /\ Same(x, [x EXCEPT !.node[a] = w])
<1> DEFINE y == [x EXCEPT !.node[a] = w]
<1>1. /\ y = [root |-> y.root, node |-> y.node]
      /\ y.node = [b \in Addr |-> y.node[b]]
      /\ \A b \in Addr : y.node[b] = IF b = a THEN w ELSE x.node[b]
  BY DEF Loose
<1> HIDE DEF y
<1>2. \A b \in Addr : y.node[b].score = x.node[b].score /\ y.node[b].ids = x.node[b].ids
                      /\ Rec(y.node[b])
  BY <1>1 DEF Loose
<1>3. Loose(y)
  BY <1>1, <1>2 DEF Loose
<1> QED BY <1>2, <1>3 DEF Same, y

\* Colored moves no id.
LEMMA ColoredSame ==
  ASSUME NEW x, Loose(x), NEW a, NEW c
  PROVE  Loose(Colored(x, a, c)) /\ Same(x, Colored(x, a, c))
<1> DEFINE w == [x.node[a] EXCEPT !.color = c]
<1>1. a \in Addr => Rec(w) /\ w.score = x.node[a].score /\ w.ids = x.node[a].ids
  BY RecSame DEF Loose
<1>2. Colored(x, a, c) = [x EXCEPT !.node[a] = w]
  BY DEF Colored
<1> HIDE DEF w
<1> QED BY <1>1, <1>2, NodeSame

\* replace_node moves no id.
LEMMA ReplaceSame ==
  ASSUME NEW x, Loose(x), NEW o, NEW w
  PROVE  Loose(replace_node(x, o, w)) /\ Same(x, replace_node(x, o, w))
<1> DEFINE y == replace_node(x, o, w)  p == x.node[o].parent
<1>1. /\ y = [root |-> y.root, node |-> y.node]
      /\ y.node = [b \in Addr |-> y.node[b]]
      /\ \A b \in Addr : y.node[b] =
            [x.node[b] EXCEPT !.left   = IF b = p /\ @ = o THEN w ELSE @,
                              !.right  = IF b = p /\ @ = o THEN w ELSE @,
                              !.parent = IF b = w THEN p ELSE @]
  BY DEF replace_node
<1> HIDE DEF y, p
<1>2. ASSUME NEW b \in Addr
      PROVE  y.node[b].score = x.node[b].score /\ y.node[b].ids = x.node[b].ids /\ Rec(y.node[b])
  BY <1>1 DEF Loose, Rec
<1>3. Loose(y)
  BY <1>1, <1>2 DEF Loose
<1> QED BY <1>2, <1>3 DEF Same, y

\* New links of a node move no id.
LEMMA SetSame ==
  ASSUME NEW r, Rec(r), NEW s \in Sides, NEW o \in Sides, NEW e, NEW f, NEW g, NEW w,
         IsSet(w, r, s, o, e, f, g)
  PROVE  Rec(w) /\ w.score = r.score /\ w.ids = r.ids
<1>1. CASE s = "left" /\ o = "right"
  <2>1. w = [r EXCEPT !.right = e, !.left = f, !.parent = g]
    BY <1>1, Zenon DEF IsSet
  <2> QED BY <2>1 DEF Rec
<1>2. CASE s = "right" /\ o = "left"
  <2>1. w = [r EXCEPT !.left = e, !.right = f, !.parent = g]
    BY <1>2, Zenon DEF IsSet
  <2> QED BY <2>1 DEF Rec
<1>3. CASE s = "left" /\ o = "left"
  <2>1. w = [r EXCEPT !.left = e, !.left = f, !.parent = g]
    BY <1>3, Zenon DEF IsSet
  <2> QED BY <2>1 DEF Rec
<1>4. CASE s = "right" /\ o = "right"
  <2>1. w = [r EXCEPT !.right = e, !.right = f, !.parent = g]
    BY <1>4, Zenon DEF IsSet
  <2> QED BY <2>1 DEF Rec
<1> QED BY <1>1, <1>2, <1>3, <1>4 DEF Sides

\* New sizes move no id.
LEMMA SizesSame ==
  ASSUME NEW x, Loose(x), NEW m, NEW q, NEW j, NEW k
  PROVE  Same(x, [x EXCEPT !.node[q].size = j, !.node[m].size = k])
<1> DEFINE w == [x.node[q] EXCEPT !.size = j]  z == [x EXCEPT !.node[q] = w]
           u == [z.node[m] EXCEPT !.size = k]  y == [z EXCEPT !.node[m] = u]
<1>1. q \in Addr => Rec(w) /\ w.score = x.node[q].score /\ w.ids = x.node[q].ids
  BY RecSame DEF Loose
<1>2. [x EXCEPT !.node[q].size = j, !.node[m].size = k] = y
  OBVIOUS
<1> HIDE DEF w
<1>3. Loose(z) /\ Same(x, z)
  BY <1>1, NodeSame
<1> HIDE DEF z
<1>4. m \in Addr => Rec(u) /\ u.score = z.node[m].score /\ u.ids = z.node[m].ids
  BY <1>3, RecSame DEF Loose
<1> HIDE DEF u
<1>5. Same(z, y)
  BY <1>3, <1>4, NodeSame
<1> HIDE DEF y
<1>6. Same(x, y)
  BY <1>3, <1>5 DEF Same
<1> QED BY <1>2, <1>6

\* A rotation moves no id from its node.
LEMMA RotateSame ==
  ASSUME NEW x, Loose(x), NEW m, NEW s \in Sides
  PROVE  Same(x, rotate(x, m, s))
<1> DEFINE o == Other(s)  q == x.node[m][o]  c == x.node[q][s]
           y == replace_node(x, m, q)
           nd == [a \in Addr |->
                    [y.node[a] EXCEPT ![o] = IF a = m THEN c ELSE @,
                                      ![s] = IF a = q THEN m ELSE @,
                                      !.parent = CASE a = m -> q [] a = c -> m
                                                   [] OTHER -> @]]
           z == [y EXCEPT !.node = nd]
           w == rotate_callback(z, m, q)
<1>1. rotate(x, m, s) = w
  BY DEF rotate
<1>2. o \in Sides
  BY SideLaw
<1> HIDE DEF o, q, c
<1>3. Loose(y) /\ Same(x, y)
  BY ReplaceSame
<1> HIDE DEF y
<1>4. ASSUME NEW a \in Addr
      PROVE  Rec(nd[a]) /\ nd[a].score = y.node[a].score /\ nd[a].ids = y.node[a].ids
  <2> DEFINE e == IF a = m THEN c ELSE y.node[a][o]
             f == IF a = q THEN m ELSE y.node[a][s]
             g == CASE a = m -> q [] a = c -> m [] OTHER -> y.node[a].parent
  <2>1. IsSet(nd[a], y.node[a], s, o, e, f, g)
    BY DEF IsSet
  <2>2. Rec(y.node[a])
    BY <1>3 DEF Loose
  <2> HIDE DEF nd, e, f, g
  <2> QED BY <1>2, <2>1, <2>2, SetSame
<1>5. nd = [a \in Addr |-> nd[a]]
  OBVIOUS
<1> HIDE DEF nd
<1>6. z = [root |-> z.root, node |-> z.node] /\ z.node = nd
  BY <1>3 DEF Loose
<1> HIDE DEF z
<1>7. Loose(z) /\ Same(y, z)
  BY <1>4, <1>5, <1>6 DEF Loose, Same
<1>8. Same(z, w)
  <2> DEFINE j == nodesize(z, m)
             k == nodesize(z, z.node[m].left) + nodesize(z, z.node[m].right)
                  + Len(z.node[m].ids)
  <2>1. w = [z EXCEPT !.node[q].size = j, !.node[m].size = k]
    BY DEF rotate_callback
  <2> HIDE DEF j, k, w
  <2>2. Same(z, [z EXCEPT !.node[q].size = j, !.node[m].size = k])
    BY <1>7, SizesSame
  <2> QED BY <2>1, <2>2, Zenon
<1> HIDE DEF w
<1> QED BY <1>1, <1>3, <1>7, <1>8 DEF Same

Repair ==
    \/ insert_case1 \/ insert_case2 \/ insert_case3 \/ insert_case4 \/ insert_case5
    \/ delete_case1 \/ delete_case2 \/ delete_case3 \/ delete_case4 \/ delete_case5
    \/ delete_case6

\* Two steps that move no id.
LEMMA SameTwice ==
  ASSUME NEW x, NEW y, NEW z, Same(x, y), Same(y, z)
  PROVE  Same(x, z)
BY DEF Same

\* Every case of both repairs leaves the contents alone.
LEMMA RepairOutcome ==
  ASSUME IInv, Ranked(t), Repair
  PROVE  Outcome
<1> PICK below \in [Addr -> SUBSET Addr], h \in [Addr -> Nat] :
         Good(t, pc, n, item, victim, below, h)
  BY DEF IInv
<1>0. t \in Trees /\ (pc \in Inserts => victim = nil) /\ Loose(t) /\ Same(t, t)
  BY Basics, LooseTree DEF Same
<1>1. SideOf(n) \in Sides /\ SideOf(parent(n)) \in Sides /\ \A s \in Sides : Other(s) \in Sides
  BY SideLaw DEF SideOf, Sides
<1>2. CASE insert_case1
  <2>1. victim' = victim
    BY <1>0, <1>2 DEF insert_case1, Return, Goto, Inserts
  <2>2. Same(t, t')
    BY <1>0, <1>2, ColoredSame DEF insert_case1
  <2> QED BY <1>0, <2>1, <2>2, SameOutcome
<1>3. CASE insert_case2
  <2>1. victim' = victim /\ t' = t
    BY <1>0, <1>3 DEF insert_case2, Return, Goto, Inserts
  <2> QED BY <1>0, <2>1, SameOutcome
<1>4. CASE insert_case3
  <2>1. victim' = victim
    BY <1>0, <1>4 DEF insert_case3, Return, Goto, Inserts
  <2>2. Same(t, t')
    <3> DEFINE x == Colored(t, parent(n), BLACK)  y == Colored(x, uncle(n), BLACK)
               z == Colored(y, grandparent(n), RED)
    <3>1. t' = t \/ t' = z
      BY <1>4 DEF insert_case3
    <3>2. Loose(x) /\ Same(t, x)
      BY <1>0, ColoredSame
    <3> HIDE DEF x
    <3>3. Loose(y) /\ Same(x, y)
      BY <3>2, ColoredSame
    <3> HIDE DEF y
    <3>4. Same(y, z)
      BY <3>3, ColoredSame
    <3> HIDE DEF z
    <3> QED BY <1>0, <3>1, <3>2, <3>3, <3>4, SameTwice
  <2> QED BY <1>0, <2>1, <2>2, SameOutcome
<1>5. CASE insert_case4
  <2>1. victim' = victim
    BY <1>0, <1>5 DEF insert_case4, Return, Goto, Inserts
  <2>2. t' = t \/ t' = rotate(t, parent(n), SideOf(parent(n)))
    BY <1>5 DEF insert_case4
  <2>3. Same(t, rotate(t, parent(n), SideOf(parent(n))))
    BY <1>0, <1>1, RotateSame
  <2> QED BY <1>0, <2>1, <2>2, <2>3, SameOutcome
<1>6. CASE insert_case5
  <2>1. victim' = victim
    BY <1>0, <1>6 DEF insert_case5, Return, Goto, Inserts
  <2>2. Same(t, t')
    <3> DEFINE x == Colored(t, parent(n), BLACK)  y == Colored(x, grandparent(n), RED)
               z == rotate(y, grandparent(n), Other(SideOf(n)))
    <3>1. t' = z
      BY <1>6 DEF insert_case5
    <3>2. Loose(x) /\ Same(t, x)
      BY <1>0, ColoredSame
    <3> HIDE DEF x
    <3>3. Loose(y) /\ Same(x, y)
      BY <3>2, ColoredSame
    <3> HIDE DEF y
    <3>4. Same(y, z)
      BY <1>1, <3>3, RotateSame
    <3> HIDE DEF z
    <3> QED BY <3>1, <3>2, <3>3, <3>4, SameTwice
  <2> QED BY <1>0, <2>1, <2>2, SameOutcome
<1>7. CASE delete_case1
  <2>1. victim' = victim /\ t' = t
    BY <1>7 DEF delete_case1, Goto
  <2> QED BY <1>0, <2>1, SameOutcome
<1>8. CASE delete_case2
  <2>1. victim' = victim
    BY <1>8 DEF delete_case2, Goto
  <2>2. Same(t, t')
    <3> DEFINE x == Colored(t, parent(n), RED)  y == Colored(x, sibling(n), BLACK)
               z == rotate(y, parent(n), SideOf(n))
    <3>1. t' = t \/ t' = z
      BY <1>8 DEF delete_case2
    <3>2. Loose(x) /\ Same(t, x)
      BY <1>0, ColoredSame
    <3> HIDE DEF x
    <3>3. Loose(y) /\ Same(x, y)
      BY <3>2, ColoredSame
    <3> HIDE DEF y
    <3>4. Same(y, z)
      BY <1>1, <3>3, RotateSame
    <3> HIDE DEF z
    <3> QED BY <1>0, <3>1, <3>2, <3>3, <3>4, SameTwice
  <2> QED BY <1>0, <2>1, <2>2, SameOutcome
<1>9. CASE delete_case3
  <2>1. victim' = victim
    BY <1>9 DEF delete_case3, Goto
  <2>2. t' = t \/ t' = Colored(t, sibling(n), RED)
    BY <1>9 DEF delete_case3
  <2>3. Same(t, t')
    BY <1>0, <2>2, ColoredSame
  <2> QED BY <1>0, <2>1, <2>3, SameOutcome
<1>10. CASE delete_case4
  <2>1. victim' = victim
    BY <1>10 DEF delete_case4, Goto
  <2>2. Same(t, t')
    <3> DEFINE x == Colored(t, sibling(n), RED)  y == Colored(x, parent(n), BLACK)
    <3>1. t' = t \/ t' = y
      BY <1>10 DEF delete_case4
    <3>2. Loose(x) /\ Same(t, x)
      BY <1>0, ColoredSame
    <3> HIDE DEF x
    <3>3. Same(x, y)
      BY <3>2, ColoredSame
    <3> HIDE DEF y
    <3> QED BY <1>0, <3>1, <3>2, <3>3, SameTwice
  <2> QED BY <1>0, <2>1, <2>2, SameOutcome
<1>11. CASE delete_case5
  <2>1. victim' = victim
    BY <1>11 DEF delete_case5, Goto
  <2>2. Same(t, t')
    <3> DEFINE s == sibling(n)  x == Colored(t, s, RED)
               y == Colored(x, t.node[s][SideOf(n)], BLACK)
               z == rotate(y, s, Other(SideOf(n)))
    <3>1. t' = t \/ t' = z
      BY <1>11 DEF delete_case5
    <3>2. Loose(x) /\ Same(t, x)
      BY <1>0, ColoredSame
    <3> HIDE DEF x
    <3>3. Loose(y) /\ Same(x, y)
      BY <3>2, ColoredSame
    <3> HIDE DEF y
    <3>4. Same(y, z)
      BY <1>1, <3>3, RotateSame
    <3> HIDE DEF z
    <3> QED BY <1>0, <3>1, <3>2, <3>3, <3>4, SameTwice
  <2> QED BY <1>0, <2>1, <2>2, SameOutcome
<1>12. CASE delete_case6
  <2>1. victim' = victim
    BY <1>12 DEF delete_case6, Goto
  <2>2. Same(t, t')
    <3> DEFINE s == sibling(n)  x == Colored(t, s, node_color(t, parent(n)))
               y == Colored(x, parent(n), BLACK)
               z == Colored(y, t.node[s][Other(SideOf(n))], BLACK)
               w == rotate(z, parent(n), SideOf(n))
    <3>1. t' = w
      BY <1>12 DEF delete_case6
    <3>2. Loose(x) /\ Same(t, x)
      BY <1>0, ColoredSame
    <3> HIDE DEF x
    <3>3. Loose(y) /\ Same(x, y)
      BY <3>2, ColoredSame
    <3> HIDE DEF y
    <3>4. Loose(z) /\ Same(y, z)
      BY <3>3, ColoredSame
    <3> HIDE DEF z
    <3>5. Same(z, w)
      BY <1>1, <3>4, RotateSame
    <3> HIDE DEF w
    <3> QED BY <3>1, <3>2, <3>3, <3>4, <3>5, SameTwice
  <2> QED BY <1>0, <2>1, <2>2, SameOutcome
<1> QED BY <1>2, <1>3, <1>4, <1>5, <1>6, <1>7, <1>8, <1>9, <1>10, <1>11, <1>12 DEF Repair

\* Every step is one of the abstract tree or a stutter.
LEMMA StepOutcome ==
  ASSUME IInv, IInv', Ranked(t), [Next]_vars
  PROVE  Outcome
<1>1. CASE \E e \in Entries : Insert(e[1], e[2])
  BY <1>1, InsertOutcome
<1>2. CASE Descend
  BY <1>2, DescendOutcome
<1>3. CASE Repair
  BY <1>3, RepairOutcome
<1>4. CASE \E a \in Used : \E id \in Users : Delete(id, a)
  BY <1>4, DeleteOutcome
<1>5. CASE unlink
  BY <1>5, UnlinkOutcome
<1>6. CASE UNCHANGED vars
  <2>1. t' = t /\ victim' = victim
    BY <1>6 DEF vars
  <2>2. Same(t, t')
    BY <2>1 DEF Same
  <2> QED BY <2>1, <2>2, SameOutcome
<1> QED BY <1>1, <1>2, <1>3, <1>4, <1>5, <1>6 DEF Next, Repair

\* RankTree implements TreeSpec: an Insert adds its id to those of its score where
\* its way down ends, a Delete removes its id when it takes it from its node or
\* replaces the node, and the repairs, the rotations and the copy of the
\* predecessor neither lose, double nor reorder an id.
THEOREM Implements == Spec => ImplementsTree
<1>1. Init => Ranked(t) /\ Set!Init
  <2> SUFFICES ASSUME Init PROVE Ranked(t) /\ Set!Init
    OBVIOUS
  <2>1. UsedIn(t) = {}
    BY FreeLaw DEF Init, UsedIn
  <2>2. Held(t, victim) = [s \in Scores |-> <<>>]
    BY <2>1 DEF Held
  <2> QED BY <2>1, <2>2, ContentsLaw DEF Ranked, Set!Init, Set!NoTree
<1>2. IInv /\ IInv' /\ Ranked(t) /\ [Next]_vars => Ranked(t') /\ [Set!Next]_Contents
  BY StepOutcome DEF Outcome
<1>3. Ranked(t)' <=> Ranked(t')
  BY DEF Ranked, UsedIn
<1> QED BY <1>1, <1>2, <1>3, Sturdy, PTL DEF Spec, ImplementsTree, Set!Spec

-----------------------------------------------------------------------------
(* Ranks. *)

\* The ids of a set of nodes, as pairs of a score and a place in its node.
SlotsIn(x, S) == {p \in Int \X Int : \E a \in S : /\ p[1] = x.node[a].score
                                                 /\ p[2] \in 1 .. Len(x.node[a].ids)}
\* Those of higher scores than c.
Over(x, S, c) == {p \in SlotsIn(x, S) : p[1] > c}
\* The rank of the i-th id of b among them.
Where(x, S, b, i) == Cardinality(Over(x, S, x.node[b].score)) + i

LeftOf(x, a)  == Kid(x, a, "left")
RightOf(x, a) == Kid(x, a, "right")
IdsOf(x, a)  == Len(x.node[a].ids)

\* A node has as many slots as ids.
LEMMA OneSlots ==
  ASSUME NEW x \in Trees, NEW a \in UsedIn(x)
  PROVE  /\ IsFiniteSet(SlotsIn(x, {a})) /\ Cardinality(SlotsIn(x, {a})) = IdsOf(x, a)
         /\ IdsOf(x, a) \in Nat \ {0} /\ x.node[a].score \in Int
<1> DEFINE s == {x.node[a].score}  k == 1 .. IdsOf(x, a)
<1>1. IdsOf(x, a) \in Nat \ {0} /\ x.node[a].score \in Int /\ a \in Addr
  <2>1. a \in Addr /\ x.node[a].ids \in Seq(Users) /\ x.node[a].ids # <<>>
        /\ x.node[a].score \in Int
    BY TreeFields DEF UsedIn
  <2> QED BY <2>1 DEF IdsOf
<1>2. SlotsIn(x, {a}) = s \X k
  <2>1. \A p : p \in SlotsIn(x, {a}) => p \in s \X k
    BY DEF SlotsIn, IdsOf
  <2>2. \A p : p \in s \X k => p \in SlotsIn(x, {a})
    BY <1>1 DEF SlotsIn, IdsOf
  <2> QED BY <2>1, <2>2
<1>3. IsFiniteSet(s) /\ Cardinality(s) = 1
  BY FS_Singleton
<1>4. IsFiniteSet(k) /\ Cardinality(k) = IdsOf(x, a)
  BY <1>1, FS_Interval
<1>5. IsFiniteSet(s \X k) /\ Cardinality(s \X k) = Cardinality(s) * Cardinality(k)
  BY <1>3, <1>4, FS_Product
<1> HIDE DEF s, k
<1>6. Cardinality(SlotsIn(x, {a})) = 1 * IdsOf(x, a)
  BY <1>2, <1>3, <1>4, <1>5
<1>7. Cardinality(SlotsIn(x, {a})) = IdsOf(x, a)
  BY <1>1, <1>6
<1> QED BY <1>1, <1>2, <1>5, <1>7

\* The slots of a subtree are those of its node and of its two children, in
\* falling order of scores from left to right.
LEMMA SlotsSplit ==
  ASSUME NEW x, NEW below, Frame(x, below, nil, nil), NEW a \in UsedIn(x)
  PROVE  LET L == SlotsIn(x, Under(below, LeftOf(x, a)))
             R == SlotsIn(x, Under(below, RightOf(x, a)))
             N == SlotsIn(x, {a})
         IN  /\ SlotsIn(x, below[a]) = (L \cup N) \cup R
             /\ \A p \in L : p[1] > x.node[a].score
             /\ \A p \in N : p[1] = x.node[a].score
             /\ \A p \in R : p[1] < x.node[a].score
             /\ \A p \in SlotsIn(x, below[a]) : p[1] \in Int
<1> DEFINE l == Under(below, LeftOf(x, a))  r == Under(below, RightOf(x, a))
<1>1. /\ below[a] = ({a} \cup l) \cup r /\ a \in Addr /\ x.node[a].score \in Int
  BY OneSlots, AddrLaw DEF Frame, Skeleton, Spans, LeftOf, RightOf, UsedIn
<1>2. /\ \A b \in l : x.node[b].score > x.node[a].score
      /\ \A b \in r : x.node[b].score < x.node[a].score
  <2>1. nil \notin Addr /\ a # nil
    BY <1>1, AddrLaw
  <2>2. nil \notin below[a]
    BY <2>1, <1>1 DEF Frame, Skeleton, Spans, UsedIn
  <2> QED BY <1>1, <2>1, <2>2 DEF Frame, Ordered, Before, Sides, LeftOf, RightOf
<1> HIDE DEF l, r
<1>3. SlotsIn(x, below[a]) = (SlotsIn(x, l) \cup SlotsIn(x, {a})) \cup SlotsIn(x, r)
  BY <1>1 DEF SlotsIn
<1>4. /\ \A p \in SlotsIn(x, l) : p[1] > x.node[a].score
      /\ \A p \in SlotsIn(x, {a}) : p[1] = x.node[a].score
      /\ \A p \in SlotsIn(x, r) : p[1] < x.node[a].score
      /\ \A p \in SlotsIn(x, below[a]) : p[1] \in Int
  BY <1>2 DEF SlotsIn
<1> QED BY <1>3, <1>4 DEF l, r

\* Two disjoint finite sets.
LEMMA TwoSets ==
  ASSUME NEW A, NEW B, IsFiniteSet(A), IsFiniteSet(B), A \cap B = {}
  PROVE  IsFiniteSet(A \cup B) /\ Cardinality(A \cup B) = Cardinality(A) + Cardinality(B)
         /\ Cardinality(A) \in Nat /\ Cardinality(B) \in Nat
<1>1. /\ IsFiniteSet(A \cup B)
      /\ Cardinality(A \cup B) = Cardinality(A) + Cardinality(B) - Cardinality(A \cap B)
  BY FS_Union
<1>2. Cardinality(A \cap B) = 0
  BY FS_EmptySet
<1>3. Cardinality(A) \in Nat /\ Cardinality(B) \in Nat
  BY FS_CardinalityType
<1> QED BY <1>1, <1>2, <1>3

\* The size of a node is the number of the ids below it.
LEMMA SizeIsCount ==
  ASSUME NEW x, NEW below, Frame(x, below, nil, nil)
  PROVE  \A a \in UsedIn(x) \cup {nil} :
            /\ IsFiniteSet(SlotsIn(x, Under(below, a)))
            /\ Cardinality(SlotsIn(x, Under(below, a))) = nodesize(x, a)
            /\ nodesize(x, a) \in Nat
<1> DEFINE Ok(a) == /\ IsFiniteSet(SlotsIn(x, Under(below, a)))
                    /\ Cardinality(SlotsIn(x, Under(below, a))) = nodesize(x, a)
                    /\ nodesize(x, a) \in Nat
           T == {a \in UsedIn(x) : ~Ok(a)}
<1>0. /\ x \in Trees /\ Skeleton(x, below) /\ nil \notin Addr /\ UsedIn(x) \subseteq Addr
      /\ "left" \in Sides /\ "right" \in Sides
  BY AddrLaw DEF Frame, Skeleton, UsedIn, Sides
<1>1. Ok(nil)
  <2>1. SlotsIn(x, Under(below, nil)) = {} /\ nodesize(x, nil) = 0
    BY DEF SlotsIn, Under, nodesize
  <2> QED BY <2>1, FS_EmptySet
<1>2. ASSUME NEW a \in UsedIn(x), Ok(LeftOf(x, a)), Ok(RightOf(x, a)) PROVE Ok(a)
  <2> DEFINE L == SlotsIn(x, Under(below, LeftOf(x, a)))
             R == SlotsIn(x, Under(below, RightOf(x, a)))
             N == SlotsIn(x, {a})
  <2>1. /\ SlotsIn(x, below[a]) = (L \cup N) \cup R
        /\ \A p \in L : p[1] > x.node[a].score
        /\ \A p \in N : p[1] = x.node[a].score
        /\ \A p \in R : p[1] < x.node[a].score
        /\ \A p \in SlotsIn(x, below[a]) : p[1] \in Int
    BY SlotsSplit
  <2>2. IsFiniteSet(N) /\ Cardinality(N) = IdsOf(x, a) /\ x.node[a].score \in Int
    BY <1>0, OneSlots
  <2>3. IsFiniteSet(L) /\ IsFiniteSet(R)
    BY <1>2
  <2> DEFINE c == x.node[a].score
  <2> HIDE DEF L, R, N
  <2>4. L \cap N = {} /\ (L \cup N) \cap R = {}
    <3>1. \A p \in (L \cup N) \cup R : p[1] \in Int
      BY <2>1
    <3>2. c \in Int /\ (\A p \in L : p[1] > c) /\ (\A p \in N : p[1] = c) /\ \A p \in R : p[1] < c
      BY <2>1, <2>2
    <3> HIDE DEF c
    <3> QED BY <3>1, <3>2
  <2>5. IsFiniteSet(L \cup N) /\ Cardinality(L \cup N) = Cardinality(L) + Cardinality(N)
        /\ Cardinality(L) \in Nat /\ Cardinality(N) \in Nat
    BY <2>2, <2>3, <2>4, TwoSets
  <2>6. /\ IsFiniteSet((L \cup N) \cup R)
        /\ Cardinality((L \cup N) \cup R) = Cardinality(L \cup N) + Cardinality(R)
        /\ Cardinality(R) \in Nat
    BY <2>3, <2>4, <2>5, TwoSets
  <2>7. Cardinality(L) = nodesize(x, LeftOf(x, a)) /\ Cardinality(R) = nodesize(x, RightOf(x, a))
    BY <1>2 DEF L, R
  <2>8. nodesize(x, a) = nodesize(x, LeftOf(x, a)) + nodesize(x, RightOf(x, a)) + IdsOf(x, a)
    <3>1. a # nil
      BY <1>0
    <3>2. x.node[a].size = nodesize(x, LeftOf(x, a)) + nodesize(x, RightOf(x, a)) + IdsOf(x, a) + 0
      BY <3>1 DEF Frame, Sized, LeftOf, RightOf, IdsOf
    <3>3. nodesize(x, a) = x.node[a].size
      BY <3>1 DEF nodesize
    <3>4. IdsOf(x, a) \in Nat
      BY <1>0, OneSlots
    <3> QED BY <1>2, <3>2, <3>3, <3>4
  <2>9. SlotsIn(x, Under(below, a)) = (L \cup N) \cup R
    BY <1>0, <2>1 DEF Under
  <2>10. Cardinality(SlotsIn(x, Under(below, a))) = nodesize(x, a) /\ nodesize(x, a) \in Nat
    BY <2>2, <2>5, <2>6, <2>7, <2>8, <2>9
  <2> QED BY <2>6, <2>9, <2>10
<1>3. T = {}
  <2> SUFFICES ASSUME T # {} PROVE FALSE
    OBVIOUS
  <2>1. PICK a \in T : \A s \in Sides : Kid(x, a, s) \notin T
    <3>1. T \in SUBSET UsedIn(x)
      OBVIOUS
    <3> HIDE DEF T
    <3> QED BY <1>0, <3>1, Lowest
  <2>2. a \in UsedIn(x) /\ ~Ok(a)
    OBVIOUS
  <2>3. \A s \in Sides : Kid(x, a, s) \in UsedIn(x) \cup {nil}
    BY <1>0, <2>2, KidLaw
  <2>4. \A s \in Sides : Ok(Kid(x, a, s))
    <3> HIDE DEF Ok
    <3> QED BY <1>1, <2>1, <2>3
  <2>5. Ok(LeftOf(x, a)) /\ Ok(RightOf(x, a))
    BY <1>0, <2>4 DEF LeftOf, RightOf
  <2> QED BY <1>2, <2>2, <2>5
<1> QED BY <1>1, <1>3

\* The ids of higher scores are finitely many.
LEMMA OverFinite ==
  ASSUME NEW x, NEW below, Frame(x, below, nil, nil), NEW a \in UsedIn(x) \cup {nil}, NEW c
  PROVE  LET S == Under(below, a) IN
         /\ IsFiniteSet(Over(x, S, c)) /\ Cardinality(Over(x, S, c)) \in Nat
         /\ Over(x, S, c) \subseteq SlotsIn(x, S) /\ S \subseteq UsedIn(x)
         /\ a # nil => S = below[a] /\ a \in below[a]
<1> DEFINE S == Under(below, a)
<1>1. IsFiniteSet(SlotsIn(x, S)) /\ Over(x, S, c) \in SUBSET SlotsIn(x, S)
  BY SizeIsCount DEF Over
<1>2. S \subseteq UsedIn(x)
  BY BelowLaw DEF Frame, Under
<1>3. a # nil => S = below[a] /\ a \in below[a]
  BY DEF Frame, Skeleton, Spans, Under
<1> HIDE DEF S
<1>4. IsFiniteSet(Over(x, S, c)) /\ Cardinality(Over(x, S, c)) \in Nat
  BY <1>1, FS_Subset, FS_CardinalityType
<1> QED BY <1>1, <1>2, <1>3, <1>4 DEF S

\* The ids of higher scores below a node, counted as the look-ups count them.
LEMMA OverCount ==
  ASSUME NEW x, NEW below, Frame(x, below, nil, nil), NEW a \in UsedIn(x), NEW c \in Int
  PROVE  LET C(S) == Cardinality(Over(x, S, c))
             l == Under(below, LeftOf(x, a))  r == Under(below, RightOf(x, a))
             u == x.node[a].score
         IN  /\ c > u => C(below[a]) = C(l)
             /\ c = u => C(below[a]) = nodesize(x, LeftOf(x, a))
             /\ c < u => C(below[a]) = nodesize(x, LeftOf(x, a)) + IdsOf(x, a) + C(r)
<1> DEFINE l == Under(below, LeftOf(x, a))  r == Under(below, RightOf(x, a))
           u == x.node[a].score
           L == SlotsIn(x, l)  R == SlotsIn(x, r)  N == SlotsIn(x, {a})
           B == SlotsIn(x, below[a])  H == {p \in R : p[1] > c}
<1>0. /\ x \in Trees /\ Skeleton(x, below) /\ "left" \in Sides /\ "right" \in Sides
  BY DEF Frame, Skeleton, Sides
<1>1. /\ LeftOf(x, a) \in UsedIn(x) \cup {nil} /\ RightOf(x, a) \in UsedIn(x) \cup {nil}
  BY <1>0, KidLaw DEF LeftOf, RightOf
<1>2. /\ IsFiniteSet(L) /\ Cardinality(L) = nodesize(x, LeftOf(x, a))
      /\ IsFiniteSet(R) /\ IsFiniteSet(N) /\ Cardinality(N) = IdsOf(x, a)
      /\ IsFiniteSet(Over(x, r, c))
      /\ nodesize(x, LeftOf(x, a)) \in Nat /\ u \in Int
  BY <1>0, <1>1, SizeIsCount, OneSlots, OverFinite
<1>3. /\ B = (L \cup N) \cup R
      /\ \A p \in L : p[1] > u
      /\ \A p \in N : p[1] = u
      /\ \A p \in R : p[1] < u
      /\ \A p \in B : p[1] \in Int
  BY SlotsSplit
<1>4. /\ Over(x, below[a], c) = {p \in B : p[1] > c}
      /\ Over(x, l, c) = {p \in L : p[1] > c} /\ Over(x, r, c) = H
  BY DEF Over
<1> HIDE DEF L, R, N, B, u, l, r
<1> DEFINE C(S) == Cardinality(Over(x, S, c))
<1>5. ASSUME c > u PROVE C(below[a]) = C(l)
  <2>1. {p \in B : p[1] > c} = {p \in L : p[1] > c}
    BY <1>2, <1>3, <1>5
  <2> QED BY <1>4, <2>1
<1>6. ASSUME c = u PROVE C(below[a]) = nodesize(x, LeftOf(x, a))
  <2>1. {p \in B : p[1] > c} = L
    BY <1>2, <1>3, <1>6
  <2> QED BY <1>2, <1>4, <2>1
<1>7. ASSUME c < u
      PROVE  C(below[a]) = nodesize(x, LeftOf(x, a)) + IdsOf(x, a) + C(r)
  <2>1. {p \in B : p[1] > c} = (L \cup N) \cup H
    BY <1>2, <1>3, <1>7
  <2>2. L \cap N = {} /\ (L \cup N) \cap H = {} /\ IsFiniteSet(H)
    BY <1>2, <1>3, <1>4
  <2> HIDE DEF H
  <2>3. IsFiniteSet(L \cup N) /\ Cardinality(L \cup N) = Cardinality(L) + Cardinality(N)
    BY <1>2, <2>2, TwoSets
  <2>4. Cardinality((L \cup N) \cup H) = Cardinality(L \cup N) + Cardinality(H)
    BY <2>2, <2>3, TwoSets
  <2> QED BY <1>2, <1>4, <2>1, <2>3, <2>4
<1> QED BY <1>5, <1>6, <1>7 DEF u, l, r

\* Every id below a node has a rank there, no two the same.
LEMMA WhereLaw ==
  ASSUME NEW x, NEW below, Frame(x, below, nil, nil), NEW a \in UsedIn(x),
         NEW b \in below[a], NEW i \in 1 .. IdsOf(x, b)
  PROVE  /\ Where(x, below[a], b, i) \in 1 .. nodesize(x, a)
         /\ \A c \in below[a] : \A j \in 1 .. IdsOf(x, c) :
               /\ x.node[b].score > x.node[c].score
                  => Where(x, below[a], b, i) < Where(x, below[a], c, j)
               /\ Where(x, below[a], b, i) = Where(x, below[a], c, j) => b = c /\ i = j
<1> DEFINE S == below[a]  B == SlotsIn(x, S)  N == SlotsIn(x, {b})
           H(d) == Over(x, S, x.node[d].score)  C(d) == Cardinality(H(d))
<1>0. /\ x \in Trees /\ a # nil /\ S = Under(below, a) /\ S \subseteq UsedIn(x)
      /\ \A d : IsFiniteSet(H(d)) /\ C(d) \in Nat /\ H(d) \subseteq B
      /\ \A d \in S : IdsOf(x, d) \in Nat /\ x.node[d].score \in Int
      /\ IsFiniteSet(B) /\ Cardinality(B) = nodesize(x, a)
      /\ nodesize(x, a) \in Nat
  <2>1. x \in Trees /\ a # nil
    BY AddrLaw DEF Frame, Skeleton, UsedIn
  <2>2. S = Under(below, a) /\ S \subseteq UsedIn(x)
    BY <2>1, OverFinite
  <2>3. \A d : IsFiniteSet(H(d)) /\ C(d) \in Nat /\ H(d) \subseteq B
    BY <2>2, OverFinite
  <2>4. \A d \in S : IdsOf(x, d) \in Nat /\ x.node[d].score \in Int
    BY <2>1, <2>2, OneSlots
  <2>5. IsFiniteSet(B) /\ Cardinality(B) = nodesize(x, a) /\ nodesize(x, a) \in Nat
    BY <2>2, SizeIsCount
  <2> QED BY <2>1, <2>2, <2>3, <2>4, <2>5
<1>1. IsFiniteSet(N) /\ Cardinality(N) = IdsOf(x, b) /\ N \subseteq B
  BY <1>0, OneSlots DEF SlotsIn
<1>2. H(b) \cap N = {}
  BY <1>0 DEF Over, SlotsIn
<1> HIDE DEF H, B, N
<1>3. IsFiniteSet(H(b) \cup N) /\ Cardinality(H(b) \cup N) = C(b) + IdsOf(x, b)
  BY <1>0, <1>1, <1>2, TwoSets
<1>4. C(b) + IdsOf(x, b) <= Cardinality(B)
  <2>1. H(b) \cup N \in SUBSET B
    BY <1>0, <1>1
  <2> QED BY <1>0, <1>3, <2>1, FS_Subset
<1>5. Where(x, S, b, i) \in 1 .. nodesize(x, a)
  <2>1. Where(x, S, b, i) = C(b) + i
    BY DEF Where, H
  <2> QED BY <1>0, <1>4, <2>1
<1>6. ASSUME NEW c \in S, NEW j \in 1 .. IdsOf(x, c), x.node[b].score > x.node[c].score
      PROVE  Where(x, S, b, i) < Where(x, S, c, j)
  <2>1. H(b) \cup N \in SUBSET H(c)
    BY <1>0, <1>1, <1>6 DEF H, N, B, Over, SlotsIn
  <2>2. C(b) + IdsOf(x, b) <= C(c)
    BY <1>0, <1>3, <2>1, FS_Subset
  <2>3. Where(x, S, b, i) = C(b) + i /\ Where(x, S, c, j) = C(c) + j
    BY DEF Where, H
  <2> QED BY <1>0, <2>2, <2>3
<1>7. ASSUME NEW c \in S, NEW j \in 1 .. IdsOf(x, c), x.node[b].score < x.node[c].score
      PROVE  Where(x, S, c, j) < Where(x, S, b, i)
  <2> DEFINE M == SlotsIn(x, {c})
  <2>1. IsFiniteSet(M) /\ Cardinality(M) = IdsOf(x, c) /\ M \subseteq B
    BY <1>0, OneSlots DEF SlotsIn, B
  <2>2. H(c) \cap M = {}
    BY <1>0 DEF Over, SlotsIn, H
  <2> HIDE DEF M
  <2>3. IsFiniteSet(H(c) \cup M) /\ Cardinality(H(c) \cup M) = C(c) + IdsOf(x, c)
    BY <1>0, <2>1, <2>2, TwoSets
  <2>4. H(c) \cup M \in SUBSET H(b)
    BY <1>0, <1>1, <1>7 DEF H, M, B, Over, SlotsIn
  <2>5. C(c) + IdsOf(x, c) <= C(b)
    BY <1>0, <2>3, <2>4, FS_Subset
  <2>6. Where(x, S, b, i) = C(b) + i /\ Where(x, S, c, j) = C(c) + j
    BY DEF Where, H
  <2> QED BY <1>0, <2>5, <2>6
<1>8. ASSUME NEW c \in S, NEW j \in 1 .. IdsOf(x, c),
             Where(x, S, b, i) = Where(x, S, c, j)
      PROVE  b = c /\ i = j
  <2>0. Where(x, S, b, i) \in Int
    BY <1>5
  <2>1. x.node[b].score = x.node[c].score
    BY <1>0, <1>6, <1>7, <1>8, <2>0
  <2>2. b = c
    BY <1>0, <2>1, AddrLaw DEF Frame, Apart, UsedIn
  <2>3. Where(x, S, b, i) = C(b) + i /\ Where(x, S, c, j) = C(c) + j
    BY DEF Where, H
  <2> QED BY <1>0, <1>8, <2>2, <2>3
<1> QED BY <1>5, <1>6, <1>8

\* The ranks below a node and below its children.
LEMMA WhereKids ==
  ASSUME NEW x, NEW below, Frame(x, below, nil, nil), NEW a \in UsedIn(x)
  PROVE  LET l == Under(below, LeftOf(x, a))  r == Under(below, RightOf(x, a))
             m == nodesize(x, LeftOf(x, a))
         IN  /\ below[a] = ({a} \cup l) \cup r
             /\ m \in Nat /\ IdsOf(x, a) \in Nat
             /\ LeftOf(x, a) \in UsedIn(x) \cup {nil} /\ RightOf(x, a) \in UsedIn(x) \cup {nil}
             /\ \A i \in Int : Where(x, below[a], a, i) = m + i
             /\ \A b \in l : \A i : Where(x, below[a], b, i) = Where(x, l, b, i)
             /\ \A b \in r : \A i \in Int :
                   /\ Where(x, r, b, i) \in Int
                   /\ Where(x, below[a], b, i) = m + IdsOf(x, a) + Where(x, r, b, i)
<1> DEFINE l == Under(below, LeftOf(x, a))  r == Under(below, RightOf(x, a))
           m == nodesize(x, LeftOf(x, a))  u == x.node[a].score
<1>0. /\ x \in Trees /\ Skeleton(x, below) /\ "left" \in Sides /\ "right" \in Sides
  BY DEF Frame, Skeleton, Sides
<1>1. /\ LeftOf(x, a) \in UsedIn(x) \cup {nil} /\ RightOf(x, a) \in UsedIn(x) \cup {nil}
  BY <1>0, KidLaw DEF LeftOf, RightOf
<1>2. m \in Nat /\ IdsOf(x, a) \in Nat /\ u \in Int
  BY <1>0, <1>1, SizeIsCount, OneSlots
<1>3. below[a] = ({a} \cup l) \cup r
  BY DEF Frame, Skeleton, Spans, LeftOf, RightOf
<1>4. /\ \A b \in l : x.node[b].score > u /\ x.node[b].score \in Int
      /\ \A b \in r : x.node[b].score < u /\ x.node[b].score \in Int
  <2>1. \A b \in below[a] : b \in UsedIn(x)
    BY <1>0, BelowLaw
  <2>2. \A b \in below[a] : b # nil /\ x.node[b].score \in Int
    BY <1>0, <2>1, OneSlots, AddrLaw DEF UsedIn
  <2>3. a # nil
    BY AddrLaw DEF UsedIn
  <2>4. \A s \in Sides : \A b \in Under(below, Kid(x, a, s)) \ {nil} : Before(x, s, b, a)
    BY <2>3 DEF Frame, Ordered
  <2>5. /\ \A b \in l : b # nil /\ x.node[b].score \in Int
        /\ \A b \in r : b # nil /\ x.node[b].score \in Int
    BY <1>3, <2>2
  <2> QED BY <1>0, <2>4, <2>5 DEF Before, LeftOf, RightOf
<1> HIDE DEF l, r, m, u
<1>5. ASSUME NEW i \in Int PROVE Where(x, below[a], a, i) = m + i
  BY <1>2, OverCount DEF Where, u, m
<1>6. ASSUME NEW b \in l, NEW i PROVE Where(x, below[a], b, i) = Where(x, l, b, i)
  BY <1>4, OverCount DEF Where, u, l
<1>7. ASSUME NEW b \in r, NEW i \in Int
      PROVE  /\ Where(x, r, b, i) \in Int
             /\ Where(x, below[a], b, i) = m + IdsOf(x, a) + Where(x, r, b, i)
  <2>1. Cardinality(Over(x, below[a], x.node[b].score))
        = m + IdsOf(x, a) + Cardinality(Over(x, r, x.node[b].score))
    BY <1>4, OverCount DEF u, m, r
  <2>2. Cardinality(Over(x, r, x.node[b].score)) \in Nat
    BY <1>1, OverFinite DEF r
  <2> QED BY <1>2, <2>1, <2>2 DEF Where
<1> QED BY <1>1, <1>2, <1>3, <1>5, <1>6, <1>7 DEF l, r, m

\* p is the id of rank k below a, and its node.
Finds(x, below, a, k, p) ==
    \E b \in Under(below, a) : \E i \in 1 .. IdsOf(x, b) :
        p = <<x.node[b].ids[i], b>> /\ Where(x, Under(below, a), b, i) = k

\* Where a look-up by rank goes.
LEMMA FindsLaw ==
  ASSUME NEW x, NEW below, Frame(x, below, nil, nil), NEW a \in UsedIn(x), NEW k \in Int
  PROVE  LET m == nodesize(x, LeftOf(x, a))  e == m + IdsOf(x, a)
         IN  /\ k \in m + 1 .. e => Finds(x, below, a, k, <<x.node[a].ids[k - m], a>>)
             /\ k <= m => \A p : Finds(x, below, a, k, p) <=> Finds(x, below, LeftOf(x, a), k, p)
             /\ k > e => \A p : Finds(x, below, a, k, p)
                                <=> Finds(x, below, RightOf(x, a), k - e, p)
             /\ \A p, q : Finds(x, below, a, k, p) /\ Finds(x, below, a, k, q) => p = q
             /\ \A p : Finds(x, below, a, k, p) => k \in 1 .. nodesize(x, a)
<1> DEFINE l == Under(below, LeftOf(x, a))  r == Under(below, RightOf(x, a))
           m == nodesize(x, LeftOf(x, a))  e == m + IdsOf(x, a)
<1>0. /\ x \in Trees /\ a # nil /\ Under(below, a) = below[a]
      /\ \A b \in below[a] : IdsOf(x, b) \in Nat
  <2>1. x \in Trees /\ a # nil /\ Skeleton(x, below)
    BY AddrLaw DEF Frame, Skeleton, UsedIn
  <2>2. \A b \in below[a] : IdsOf(x, b) \in Nat
    BY <2>1, BelowLaw, OneSlots
  <2> QED BY <2>1, <2>2 DEF Under
<1>1. /\ below[a] = ({a} \cup l) \cup r
      /\ m \in Nat /\ IdsOf(x, a) \in Nat
      /\ LeftOf(x, a) \in UsedIn(x) \cup {nil} /\ RightOf(x, a) \in UsedIn(x) \cup {nil}
      /\ \A i \in Int : Where(x, below[a], a, i) = m + i
      /\ \A b \in l : \A i : Where(x, below[a], b, i) = Where(x, l, b, i)
      /\ \A b \in r : \A i \in Int :
            /\ Where(x, r, b, i) \in Int
            /\ Where(x, below[a], b, i) = e + Where(x, r, b, i)
  BY WhereKids
<1>2. \A b \in l : \A i \in 1 .. IdsOf(x, b) : Where(x, l, b, i) \in 1 .. m
  <2> SUFFICES ASSUME NEW b \in l, NEW i \in 1 .. IdsOf(x, b) PROVE Where(x, l, b, i) \in 1 .. m
    OBVIOUS
  <2>1. LeftOf(x, a) # nil /\ LeftOf(x, a) \in UsedIn(x) /\ l = below[LeftOf(x, a)]
    BY <1>1 DEF Under
  <2> QED BY <2>1, WhereLaw
<1>3. \A b \in r : \A i \in 1 .. IdsOf(x, b) : i \in Int /\ Where(x, r, b, i) >= 1
  <2> SUFFICES ASSUME NEW b \in r, NEW i \in 1 .. IdsOf(x, b)
               PROVE  Where(x, r, b, i) >= 1
    OBVIOUS
  <2>1. RightOf(x, a) # nil /\ RightOf(x, a) \in UsedIn(x) /\ r = below[RightOf(x, a)]
    BY <1>1 DEF Under
  <2> QED BY <2>1, WhereLaw
<1>4. ASSUME NEW p, Finds(x, below, a, k, p), NEW q, Finds(x, below, a, k, q)
      PROVE  p = q
  <2>1. PICK b \in below[a] : \E i \in 1 .. IdsOf(x, b) :
           p = <<x.node[b].ids[i], b>> /\ Where(x, below[a], b, i) = k
    BY <1>0, <1>4 DEF Finds
  <2>2. PICK c \in below[a] : \E j \in 1 .. IdsOf(x, c) :
           q = <<x.node[c].ids[j], c>> /\ Where(x, below[a], c, j) = k
    BY <1>0, <1>4 DEF Finds
  <2>4. PICK i \in 1 .. IdsOf(x, b) : p = <<x.node[b].ids[i], b>> /\ Where(x, below[a], b, i) = k
    BY <2>1
  <2>5. PICK j \in 1 .. IdsOf(x, c) : q = <<x.node[c].ids[j], c>> /\ Where(x, below[a], c, j) = k
    BY <2>2
  <2>3. b = c /\ i = j
    BY <2>4, <2>5, WhereLaw
  <2> QED BY <2>3, <2>4, <2>5
<1>5. ASSUME NEW p, Finds(x, below, a, k, p) PROVE k \in 1 .. nodesize(x, a)
  BY <1>0, <1>5, WhereLaw DEF Finds
<1>6. ASSUME k \in m + 1 .. e PROVE Finds(x, below, a, k, <<x.node[a].ids[k - m], a>>)
  <2>1. a \in below[a] /\ k - m \in 1 .. IdsOf(x, a) /\ Where(x, below[a], a, k - m) = k
    <3>1. m \in Nat /\ IdsOf(x, a) \in Nat /\ a \in below[a]
          /\ \A i \in Int : Where(x, below[a], a, i) = m + i
      BY <1>1
    <3> HIDE DEF m
    <3>2. k - m \in Int /\ k >= m + 1 /\ k <= m + IdsOf(x, a)
      BY <1>6, <3>1
    <3>3. Where(x, below[a], a, k - m) = m + (k - m)
      BY <3>1, <3>2
    <3> QED BY <3>1, <3>2, <3>3
  <2> QED BY <1>0, <2>1 DEF Finds
<1>7. ASSUME k <= m, NEW p PROVE Finds(x, below, a, k, p) <=> Finds(x, below, LeftOf(x, a), k, p)
  <2>1. ASSUME NEW b \in l, NEW i \in 1 .. IdsOf(x, b)
        PROVE  b \in below[a] /\ Where(x, below[a], b, i) = Where(x, l, b, i)
    BY <1>1
  <2>2. ASSUME NEW b \in below[a], NEW i \in 1 .. IdsOf(x, b), Where(x, below[a], b, i) = k
        PROVE  b \in l
    <3>1. b # a
      <4> SUFFICES ASSUME b = a PROVE FALSE
        OBVIOUS
      <4>1. k = m + i /\ i >= 1 /\ i \in Int /\ m \in Nat
        BY <1>1, <2>2
      <4> HIDE DEF m
      <4> QED BY <1>7, <4>1
    <3>2. b \notin r
      <4> SUFFICES ASSUME b \in r PROVE FALSE
        OBVIOUS
      <4>1. i \in Int /\ Where(x, r, b, i) \in Int /\ Where(x, r, b, i) >= 1
        BY <1>1, <1>3
      <4>2. k = m + IdsOf(x, a) + Where(x, r, b, i)
        BY <1>1, <2>2, <4>1
      <4> HIDE DEF m, r
      <4> QED BY <1>1, <1>7, <4>1, <4>2
    <3> QED BY <1>1, <3>1, <3>2
  <2> HIDE DEF l, m
  <2>3. Finds(x, below, a, k, p) <=> \E b \in below[a] : \E i \in 1 .. IdsOf(x, b) :
                p = <<x.node[b].ids[i], b>> /\ Where(x, below[a], b, i) = k
    BY <1>0 DEF Finds
  <2>4. Finds(x, below, LeftOf(x, a), k, p) <=> \E b \in l : \E i \in 1 .. IdsOf(x, b) :
                p = <<x.node[b].ids[i], b>> /\ Where(x, l, b, i) = k
    BY DEF Finds, l
  <2> QED BY <2>1, <2>2, <2>3, <2>4
<1>8. ASSUME k > e, NEW p
      PROVE  Finds(x, below, a, k, p) <=> Finds(x, below, RightOf(x, a), k - e, p)
  <2>1. ASSUME NEW b \in r, NEW i \in 1 .. IdsOf(x, b)
        PROVE  b \in below[a] /\ (Where(x, below[a], b, i) = k <=> Where(x, r, b, i) = k - e)
    <3>1. i \in Int /\ Where(x, r, b, i) \in Int /\ b \in below[a]
          /\ Where(x, below[a], b, i) = e + Where(x, r, b, i)
      <4>1. b \in below[a] /\ i \in Int
        BY <1>1
      <4> HIDE DEF e, r
      <4> QED BY <1>1, <4>1
    <3>2. e \in Int
      BY <1>1
    <3> HIDE DEF e, r
    <3> QED BY <3>1, <3>2
  <2>2. ASSUME NEW b \in below[a], NEW i \in 1 .. IdsOf(x, b), Where(x, below[a], b, i) = k
        PROVE  b \in r
    <3>1. b # a
      <4> SUFFICES ASSUME b = a PROVE FALSE
        OBVIOUS
      <4>1. k = m + i /\ i <= IdsOf(x, a) /\ i \in Int /\ m \in Nat /\ IdsOf(x, a) \in Nat
        BY <1>1, <2>2
      <4> HIDE DEF m
      <4> QED BY <1>8, <4>1
    <3>2. b \notin l
      <4> SUFFICES ASSUME b \in l PROVE FALSE
        OBVIOUS
      <4>1. k = Where(x, l, b, i) /\ k \in 1 .. m
        BY <1>1, <1>2, <2>2
      <4> QED BY <1>1, <1>8, <4>1
    <3> QED BY <1>1, <3>1, <3>2
  <2> HIDE DEF r, e
  <2>3. Finds(x, below, a, k, p) <=> \E b \in below[a] : \E i \in 1 .. IdsOf(x, b) :
                p = <<x.node[b].ids[i], b>> /\ Where(x, below[a], b, i) = k
    BY <1>0 DEF Finds
  <2>4. Finds(x, below, RightOf(x, a), k - e, p) <=> \E b \in r : \E i \in 1 .. IdsOf(x, b) :
                p = <<x.node[b].ids[i], b>> /\ Where(x, r, b, i) = k - e
    BY DEF Finds, r
  <2> QED BY <2>1, <2>2, <2>3, <2>4
<1> QED BY <1>4, <1>5, <1>6, <1>7, <1>8

\* The body of lookup_node.
LookUp(x, f, a, k) ==
    LET start == nodesize(x, x.node[a].left) + 1
        end   == nodesize(x, x.node[a].left) + Len(x.node[a].ids)
    IN  CASE k \in start .. end -> <<x.node[a].ids[k - start + 1], a>>
          [] k < start          -> f[x.node[a].left][k]
          [] OTHER              -> f[x.node[a].right][k - end]

Nowhere == <<-1, nil>>
\* What lookup_node finds.
Answer(x, below, a, k) ==
    IF a \in UsedIn(x) /\ \E p : Finds(x, below, a, k, p)
    THEN CHOOSE p : Finds(x, below, a, k, p) ELSE Nowhere

\* The recursion of Answer.
LEMMA AnswerLaw ==
  ASSUME NEW x, NEW below, Frame(x, below, nil, nil), NEW a \in UsedIn(x), NEW k \in Int, NEW f,
         \A j \in Int : /\ f[LeftOf(x, a)][j] = Answer(x, below, LeftOf(x, a), j)
                        /\ f[RightOf(x, a)][j] = Answer(x, below, RightOf(x, a), j)
  PROVE  LookUp(x, f, a, k) = Answer(x, below, a, k)
<1> DEFINE m == nodesize(x, LeftOf(x, a))  e == m + IdsOf(x, a)
<1>1. /\ m \in Nat /\ IdsOf(x, a) \in Nat
      /\ LeftOf(x, a) \in UsedIn(x) \cup {nil} /\ RightOf(x, a) \in UsedIn(x) \cup {nil}
  BY WhereKids
<1>2. /\ k \in m + 1 .. e => Finds(x, below, a, k, <<x.node[a].ids[k - m], a>>)
      /\ k <= m => \A p : Finds(x, below, a, k, p) <=> Finds(x, below, LeftOf(x, a), k, p)
      /\ k > e => \A p : Finds(x, below, a, k, p)
                         <=> Finds(x, below, RightOf(x, a), k - e, p)
      /\ \A p, q : Finds(x, below, a, k, p) /\ Finds(x, below, a, k, q) => p = q
  BY FindsLaw
<1>3. \A j, p : ~Finds(x, below, nil, j, p)
  BY DEF Finds, Under
<1>4. /\ x.node[a].left = LeftOf(x, a) /\ x.node[a].right = RightOf(x, a)
      /\ Len(x.node[a].ids) = IdsOf(x, a)
  BY DEF LeftOf, RightOf, Kid, IdsOf
<1> HIDE DEF m
<1>5. CASE k \in m + 1 .. e
  <2>1. Answer(x, below, a, k) = <<x.node[a].ids[k - m], a>>
    <3>1. \E p : Finds(x, below, a, k, p)
      BY <1>2, <1>5
    <3>2. Finds(x, below, a, k, CHOOSE p : Finds(x, below, a, k, p))
      BY <3>1
    <3>3. (CHOOSE p : Finds(x, below, a, k, p)) = <<x.node[a].ids[k - m], a>>
      BY <1>2, <1>5, <3>2
    <3> QED BY <3>1, <3>3 DEF Answer
  <2>2. k - (m + 1) + 1 = k - m
    BY <1>1
  <2>3. LookUp(x, f, a, k) = <<x.node[a].ids[k - (m + 1) + 1], a>>
    <3> DEFINE st == nodesize(x, x.node[a].left) + 1
               en == nodesize(x, x.node[a].left) + Len(x.node[a].ids)
    <3>1. st = m + 1 /\ en = e
      BY <1>4 DEF m
    <3>2. k \in st .. en
      BY <1>5, <3>1
    <3>3. LookUp(x, f, a, k) = <<x.node[a].ids[k - st + 1], a>>
      <4>1. nodesize(x, x.node[a].left) \in Nat /\ Len(x.node[a].ids) \in Nat
        BY <1>1, <1>4 DEF m
      <4> QED BY <3>2, <4>1 DEF LookUp
    <3> HIDE DEF st
    <3> QED BY <3>1, <3>3
  <2> QED BY <2>1, <2>2, <2>3
<1>6. CASE k < m + 1
  <2>1. k <= m /\ ~(k \in m + 1 .. e)
    BY <1>1, <1>6
  <2>2. LookUp(x, f, a, k) = f[LeftOf(x, a)][k]
    BY <1>4, <1>6, <2>1 DEF LookUp, m
  <2>3. LookUp(x, f, a, k) = Answer(x, below, LeftOf(x, a), k)
    BY <2>2
  <2>4. \A p : Finds(x, below, a, k, p) <=> Finds(x, below, LeftOf(x, a), k, p)
    BY <1>2, <2>1
  <2>5. (\E p : Finds(x, below, LeftOf(x, a), k, p)) => LeftOf(x, a) \in UsedIn(x)
    BY <1>1, <1>3
  <2>6. (CHOOSE p : Finds(x, below, a, k, p)) = CHOOSE p : Finds(x, below, LeftOf(x, a), k, p)
    BY <2>4
  <2> QED BY <2>3, <2>4, <2>5, <2>6 DEF Answer
<1>7. CASE k > e
  <2>1. ~(k < m + 1) /\ ~(k \in m + 1 .. e) /\ k - e \in Int
    BY <1>1, <1>7
  <2>2. LookUp(x, f, a, k) = f[RightOf(x, a)][k - e]
    BY <1>4, <2>1 DEF LookUp, m
  <2>3. LookUp(x, f, a, k) = Answer(x, below, RightOf(x, a), k - e)
    BY <2>1, <2>2
  <2>4. \A p : Finds(x, below, a, k, p) <=> Finds(x, below, RightOf(x, a), k - e, p)
    BY <1>2, <1>7
  <2>5. (\E p : Finds(x, below, RightOf(x, a), k - e, p)) => RightOf(x, a) \in UsedIn(x)
    BY <1>1, <1>3
  <2>6. (CHOOSE p : Finds(x, below, a, k, p))
        = CHOOSE p : Finds(x, below, RightOf(x, a), k - e, p)
    BY <2>4
  <2> QED BY <2>3, <2>4, <2>5, <2>6 DEF Answer
<1>8. k \in m + 1 .. e \/ k < m + 1 \/ k > e
  BY <1>1
<1> QED BY <1>5, <1>6, <1>7, <1>8

\* lookup_node finds the id of a rank.
LEMMA LookupNodeLaw ==
  ASSUME NEW below, Frame(t, below, nil, nil)
  PROVE  \A a \in UsedIn(t), k \in Int : lookup_node[a][k] = Answer(t, below, a, k)
<1> DEFINE A == Addr \cup {nil}
           f == [a \in A |-> [k \in Int |-> Answer(t, below, a, k)]]
<1>0. /\ t \in Trees /\ Skeleton(t, below) /\ Linked(t) /\ nil \notin Addr
      /\ UsedIn(t) \subseteq Addr /\ "left" \in Sides /\ "right" \in Sides
  BY AddrLaw DEF Frame, Skeleton, UsedIn, Sides
<1>1. \A a \in UsedIn(t) : LeftOf(t, a) \in UsedIn(t) \cup {nil}
                           /\ RightOf(t, a) \in UsedIn(t) \cup {nil}
  BY WhereKids
<1>2. \A a \in A, k \in Int : f[a][k] = Answer(t, below, a, k)
  OBVIOUS
<1>3. \A a \in A \ UsedIn(t), k \in Int : Answer(t, below, a, k) = Nowhere
  BY DEF Answer
<1> HIDE DEF f
<1>4. ASSUME NEW a \in A, NEW k \in Int
      PROVE  f[a][k] = IF a = nil THEN Nowhere ELSE LookUp(t, f, a, k)
  <2>1. CASE a = nil
    BY <1>0, <1>2, <1>3, <2>1
  <2>2. CASE a \in UsedIn(t)
    <3>1. \A j \in Int : /\ f[LeftOf(t, a)][j] = Answer(t, below, LeftOf(t, a), j)
                         /\ f[RightOf(t, a)][j] = Answer(t, below, RightOf(t, a), j)
      BY <1>0, <1>1, <1>2, <2>2
    <3>2. LookUp(t, f, a, k) = Answer(t, below, a, k)
      BY <2>2, <3>1, AnswerLaw
    <3> QED BY <1>0, <1>2, <2>2, <3>2
  <2>3. CASE a \in Addr \ UsedIn(t)
    <3>1. t.node[a] = Free
      BY <1>0, <2>3 DEF Linked
    <3>2. /\ t.node[a].left = nil /\ t.node[a].right = nil /\ Len(t.node[a].ids) = 0
          /\ nodesize(t, nil) = 0
      BY <3>1 DEF Free, nodesize
    <3>3. ~(k \in 0 + 1 .. 0 + 0) /\ k - (0 + 0) = k
      OBVIOUS
    <3>4. LookUp(t, f, a, k) = f[nil][k]
      BY <3>2, <3>3 DEF LookUp
    <3>5. f[a][k] = Nowhere /\ f[nil][k] = Nowhere /\ a # nil
      BY <1>0, <1>2, <1>3, <2>3
    <3> QED BY <3>4, <3>5
  <2> QED BY <2>1, <2>2, <2>3
<1>5. f = [a \in A |-> [k \in Int |-> IF a = nil THEN Nowhere ELSE LookUp(t, f, a, k)]]
  <2>1. f = [a \in A |-> f[a]] /\ \A a \in A : f[a] = [k \in Int |-> f[a][k]]
    BY <1>2 DEF f
  <2>2. \A a \in A : f[a] = [k \in Int |-> IF a = nil THEN Nowhere ELSE LookUp(t, f, a, k)]
    BY <1>4, <2>1
  <2> QED BY <2>1, <2>2
<1>6. lookup_node = [a \in A |-> [k \in Int |-> IF a = nil THEN Nowhere
                                             ELSE LookUp(t, lookup_node, a, k)]]
  BY <1>5 DEF lookup_node, LookUp, Nowhere
<1>7. \A k \in Int : lookup_node[nil][k] = Nowhere
  BY <1>6
<1>8. \A a \in UsedIn(t), k \in Int : lookup_node[a][k] = LookUp(t, lookup_node, a, k)
  BY <1>0, <1>6
<1> DEFINE T == {a \in UsedIn(t) : \E k \in Int : lookup_node[a][k] # Answer(t, below, a, k)}
<1>9. T = {}
  <2> SUFFICES ASSUME T # {} PROVE FALSE
    OBVIOUS
  <2>1. PICK a \in T : \A s \in Sides : Kid(t, a, s) \notin T
    <3>1. T \in SUBSET UsedIn(t)
      OBVIOUS
    <3> HIDE DEF T
    <3> QED BY <1>0, <3>1, Lowest
  <2>2. a \in UsedIn(t) /\ \E k \in Int : lookup_node[a][k] # Answer(t, below, a, k)
    OBVIOUS
  <2>3. LeftOf(t, a) \notin T /\ RightOf(t, a) \notin T
    BY <1>0, <2>1 DEF LeftOf, RightOf
  <2>4. \A b \in UsedIn(t) \cup {nil} : b \notin T =>
            \A j \in Int : lookup_node[b][j] = Answer(t, below, b, j)
    BY <1>0, <1>3, <1>7
  <2> HIDE DEF T
  <2>5. \A j \in Int : /\ lookup_node[LeftOf(t, a)][j] = Answer(t, below, LeftOf(t, a), j)
                       /\ lookup_node[RightOf(t, a)][j] = Answer(t, below, RightOf(t, a), j)
    BY <1>1, <2>2, <2>3, <2>4
  <2>6. \A k \in Int : LookUp(t, lookup_node, a, k) = Answer(t, below, a, k)
    BY <2>2, <2>5, AnswerLaw
  <2> QED BY <1>8, <2>2, <2>6
<1> QED BY <1>9


\* p is the first rank of score c below a, base ranks being before it, and its node.
Spots(x, below, a, c, base, p) ==
    \E b \in Under(below, a) : /\ x.node[b].score = c
                               /\ p = <<base + Cardinality(Over(x, Under(below, a), c)) + 1, b>>

\* Where a look-up by score goes.
LEMMA SpotsLaw ==
  ASSUME NEW x, NEW below, Frame(x, below, nil, nil), NEW a \in UsedIn(x), NEW c \in Int,
         NEW base \in Nat
  PROVE  LET m == nodesize(x, LeftOf(x, a))  e == m + IdsOf(x, a)  u == x.node[a].score
         IN  /\ c = u => Spots(x, below, a, c, base, <<base + m + 1, a>>)
             /\ c > u => \A p : Spots(x, below, a, c, base, p)
                                <=> Spots(x, below, LeftOf(x, a), c, base, p)
             /\ c < u => \A p : Spots(x, below, a, c, base, p)
                                <=> Spots(x, below, RightOf(x, a), c, base + e, p)
             /\ \A p, q : Spots(x, below, a, c, base, p) /\ Spots(x, below, a, c, base, q) => p = q
             /\ u \in Int
<1> DEFINE l == Under(below, LeftOf(x, a))  r == Under(below, RightOf(x, a))
           m == nodesize(x, LeftOf(x, a))  e == m + IdsOf(x, a)  u == x.node[a].score
           C(S) == Cardinality(Over(x, S, c))
<1>0. /\ x \in Trees /\ Skeleton(x, below) /\ a # nil /\ Under(below, a) = below[a]
      /\ below[a] \subseteq UsedIn(x) /\ u \in Int
      /\ "left" \in Sides /\ "right" \in Sides
      /\ \A b \in below[a] : x.node[b].score \in Int
  <2>1. x \in Trees /\ a # nil /\ Skeleton(x, below)
    BY AddrLaw DEF Frame, Skeleton, UsedIn
  <2>2. \A b \in below[a] : b \in UsedIn(x) /\ x.node[b].score \in Int
    BY <2>1, BelowLaw, OneSlots
  <2>3. u \in Int
    BY <2>1, OneSlots
  <2> QED BY <2>1, <2>2, <2>3 DEF Under, Sides
<1>1. /\ below[a] = ({a} \cup l) \cup r
      /\ m \in Nat /\ IdsOf(x, a) \in Nat
      /\ LeftOf(x, a) \in UsedIn(x) \cup {nil} /\ RightOf(x, a) \in UsedIn(x) \cup {nil}
  BY WhereKids
<1>2. /\ \A b \in l : x.node[b].score > u
      /\ \A b \in r : x.node[b].score < u
  <2>1. \A b \in below[a] : b # nil
    BY <1>0, AddrLaw DEF UsedIn
  <2>2. \A s \in Sides : \A b \in Under(below, Kid(x, a, s)) \ {nil} : Before(x, s, b, a)
    BY <1>0 DEF Frame, Ordered
  <2>3. (\A b \in l : b # nil) /\ (\A b \in r : b # nil)
    BY <1>1, <2>1
  <2> QED BY <1>0, <2>2, <2>3 DEF Before, LeftOf, RightOf
<1>3. /\ c > u => C(below[a]) = C(l)
      /\ c = u => C(below[a]) = m
      /\ c < u => C(below[a]) = e + C(r) /\ C(r) \in Nat
  <2>1. /\ c > u => C(below[a]) = C(l)
        /\ c = u => C(below[a]) = m
        /\ c < u => C(below[a]) = m + IdsOf(x, a) + C(r)
    BY OverCount
  <2>2. C(r) \in Nat
    BY <1>1, OverFinite
  <2> QED BY <2>1, <2>2
<1>4. ASSUME NEW p, Spots(x, below, a, c, base, p), NEW q, Spots(x, below, a, c, base, q)
      PROVE  p = q
  <2>1. PICK b \in below[a] : x.node[b].score = c /\ p = <<base + C(below[a]) + 1, b>>
    BY <1>0, <1>4 DEF Spots
  <2>2. PICK d \in below[a] : x.node[d].score = c /\ q = <<base + C(below[a]) + 1, d>>
    BY <1>0, <1>4 DEF Spots
  <2>3. b = d
    BY <1>0, <2>1, <2>2, AddrLaw DEF Frame, Apart, UsedIn
  <2> QED BY <2>1, <2>2, <2>3
<1>5. ASSUME c = u PROVE Spots(x, below, a, c, base, <<base + m + 1, a>>)
  <2>1. a \in below[a] /\ C(below[a]) = m
    BY <1>1, <1>3, <1>5
  <2> QED BY <1>0, <1>5, <2>1 DEF Spots
<1>6. ASSUME c > u, NEW p
      PROVE  Spots(x, below, a, c, base, p) <=> Spots(x, below, LeftOf(x, a), c, base, p)
  <2>1. \A b \in below[a] : x.node[b].score = c => b \in l
    BY <1>0, <1>1, <1>2, <1>6
  <2>2. C(below[a]) = C(l) /\ l \subseteq below[a]
    BY <1>1, <1>3, <1>6
  <2> HIDE DEF C, l
  <2>3. Spots(x, below, a, c, base, p)
        <=> \E b \in below[a] : x.node[b].score = c /\ p = <<base + C(below[a]) + 1, b>>
    BY <1>0 DEF Spots, C
  <2>4. Spots(x, below, LeftOf(x, a), c, base, p)
        <=> \E b \in l : x.node[b].score = c /\ p = <<base + C(l) + 1, b>>
    BY DEF Spots, C, l
  <2> QED BY <2>1, <2>2, <2>3, <2>4
<1>7. ASSUME c < u, NEW p
      PROVE  Spots(x, below, a, c, base, p) <=> Spots(x, below, RightOf(x, a), c, base + e, p)
  <2>1. \A b \in below[a] : x.node[b].score = c => b \in r
    BY <1>0, <1>1, <1>2, <1>7
  <2>2. C(below[a]) = e + C(r) /\ r \subseteq below[a] /\ C(r) \in Nat /\ e \in Nat
    BY <1>1, <1>3, <1>7
  <2> HIDE DEF C, r, e
  <2>3. Spots(x, below, a, c, base, p)
        <=> \E b \in below[a] : x.node[b].score = c /\ p = <<base + C(below[a]) + 1, b>>
    BY <1>0 DEF Spots, C
  <2>4. Spots(x, below, RightOf(x, a), c, base + e, p)
        <=> \E b \in r : x.node[b].score = c /\ p = <<(base + e) + C(r) + 1, b>>
    BY DEF Spots, C, r
  <2>5. base + C(below[a]) + 1 = (base + e) + C(r) + 1
    BY <2>2
  <2> QED BY <2>1, <2>2, <2>3, <2>4, <2>5
<1> QED BY <1>0, <1>4, <1>5, <1>6, <1>7

\* The body of lookup_score.
Seek(x, f, a, c, base) ==
    LET left == nodesize(x, x.node[a].left)
    IN  CASE c = x.node[a].score -> <<base + left + 1, a>>
          [] c > x.node[a].score -> f[x.node[a].left][c][base]
          [] OTHER -> f[x.node[a].right][c][base + left + Len(x.node[a].ids)]

\* What lookup_score finds; an address that holds no node has the score 0.
Spot(x, below, a, c, base) ==
    IF a \in UsedIn(x) /\ \E p : Spots(x, below, a, c, base, p)
    THEN CHOOSE p : Spots(x, below, a, c, base, p) ELSE Nowhere

\* The recursion of Spot.
LEMMA SpotLaw ==
  ASSUME NEW x, NEW below, Frame(x, below, nil, nil), NEW a \in UsedIn(x), NEW c \in Int,
         NEW base \in Nat, NEW f,
         \A j \in Nat : /\ f[LeftOf(x, a)][c][j] = Spot(x, below, LeftOf(x, a), c, j)
                        /\ f[RightOf(x, a)][c][j] = Spot(x, below, RightOf(x, a), c, j)
  PROVE  Seek(x, f, a, c, base) = Spot(x, below, a, c, base)
<1> DEFINE m == nodesize(x, LeftOf(x, a))  e == m + IdsOf(x, a)  u == x.node[a].score
           Is(b, d, p) == Spots(x, below, b, c, d, p)
<1>1. /\ m \in Nat /\ IdsOf(x, a) \in Nat
      /\ LeftOf(x, a) \in UsedIn(x) \cup {nil} /\ RightOf(x, a) \in UsedIn(x) \cup {nil}
  BY WhereKids
<1>2. /\ c = u => Is(a, base, <<base + m + 1, a>>)
      /\ c > u => \A p : Is(a, base, p) <=> Is(LeftOf(x, a), base, p)
      /\ c < u => \A p : Is(a, base, p) <=> Is(RightOf(x, a), base + e, p)
      /\ \A p, q : Is(a, base, p) /\ Is(a, base, q) => p = q
      /\ u \in Int
  BY SpotsLaw
<1>3. \A j, p : ~Is(nil, j, p)
  BY DEF Spots, Under
<1>4. /\ x.node[a].left = LeftOf(x, a) /\ x.node[a].right = RightOf(x, a)
      /\ Len(x.node[a].ids) = IdsOf(x, a)
  BY DEF LeftOf, RightOf, Kid, IdsOf
<1>0. \A b, d : Spot(x, below, b, c, d) = IF b \in UsedIn(x) /\ \E p : Is(b, d, p)
                                          THEN CHOOSE p : Is(b, d, p) ELSE Nowhere
  BY DEF Spot
<1> HIDE DEF m, u, Is
<1>5. CASE c = u
  <2>1. Spot(x, below, a, c, base) = <<base + m + 1, a>>
    <3>1. Is(a, base, <<base + m + 1, a>>)
      BY <1>2, <1>5
    <3>2. Is(a, base, CHOOSE p : Is(a, base, p))
      BY <3>1
    <3>3. (CHOOSE p : Is(a, base, p)) = <<base + m + 1, a>>
      BY <1>2, <3>1, <3>2
    <3> QED BY <1>0, <3>1, <3>3
  <2>2. Seek(x, f, a, c, base) = <<base + m + 1, a>>
    BY <1>1, <1>4, <1>5 DEF Seek, m, u
  <2> QED BY <2>1, <2>2
<1>6. CASE c > u
  <2>1. Seek(x, f, a, c, base) = f[LeftOf(x, a)][c][base]
    BY <1>2, <1>4, <1>6 DEF Seek, u
  <2>2. \A p : Is(a, base, p) <=> Is(LeftOf(x, a), base, p)
    BY <1>2, <1>6
  <2>3. (\E p : Is(LeftOf(x, a), base, p)) => LeftOf(x, a) \in UsedIn(x)
    BY <1>1, <1>3
  <2>4. (CHOOSE p : Is(a, base, p)) = CHOOSE p : Is(LeftOf(x, a), base, p)
    BY <2>2
  <2> QED BY <1>0, <2>1, <2>2, <2>3, <2>4
<1>7. CASE c < u
  <2>0. base + e \in Nat /\ base + m + IdsOf(x, a) = base + e /\ ~(c = u) /\ ~(c > u)
    BY <1>1, <1>2, <1>7
  <2>1. Seek(x, f, a, c, base) = f[RightOf(x, a)][c][base + m + IdsOf(x, a)]
    BY <1>1, <1>2, <1>4, <2>0 DEF Seek, m, u
  <2>2. \A p : Is(a, base, p) <=> Is(RightOf(x, a), base + e, p)
    BY <1>2, <1>7
  <2>3. (\E p : Is(RightOf(x, a), base + e, p)) => RightOf(x, a) \in UsedIn(x)
    BY <1>1, <1>3
  <2>4. (CHOOSE p : Is(a, base, p)) = CHOOSE p : Is(RightOf(x, a), base + e, p)
    BY <2>2
  <2>5. Seek(x, f, a, c, base) = Spot(x, below, RightOf(x, a), c, base + e)
    BY <2>0, <2>1
  <2> QED BY <1>0, <2>2, <2>3, <2>4, <2>5
<1>8. c = u \/ c > u \/ c < u
  BY <1>2
<1> QED BY <1>5, <1>6, <1>7, <1>8

\* lookup_score finds the node of a score, and how many ids are before it.
LEMMA LookupScoreLaw ==
  ASSUME NEW below, Frame(t, below, nil, nil)
  PROVE  \A a \in UsedIn(t), c \in Int, base \in Nat :
            lookup_score[a][c][base] = Spot(t, below, a, c, base)
<1> DEFINE A == Addr \cup {nil}
           g(a, c, base) == IF a \in Addr \ UsedIn(t) /\ c = 0 THEN <<base + 1, a>>
                            ELSE Spot(t, below, a, c, base)
           f == [a \in A |-> [c \in Int |-> [base \in Nat |-> g(a, c, base)]]]
<1>0. /\ t \in Trees /\ Skeleton(t, below) /\ Linked(t) /\ nil \notin Addr
      /\ UsedIn(t) \subseteq Addr /\ "left" \in Sides /\ "right" \in Sides
  BY AddrLaw DEF Frame, Skeleton, UsedIn, Sides
<1>1. \A a \in UsedIn(t) : LeftOf(t, a) \in UsedIn(t) \cup {nil}
                           /\ RightOf(t, a) \in UsedIn(t) \cup {nil}
  BY WhereKids
<1>2. \A a \in A, c \in Int, base \in Nat : f[a][c][base] = g(a, c, base)
  OBVIOUS
<1>3. \A c \in Int, base \in Nat : Spot(t, below, nil, c, base) = Nowhere
  BY <1>0 DEF Spot
<1>b. /\ \A a \in UsedIn(t) \cup {nil}, c \in Int, base \in Nat :
            f[a][c][base] = Spot(t, below, a, c, base)
      /\ \A a \in Addr \ UsedIn(t), c \in Int, base \in Nat :
            f[a][c][base] = IF c = 0 THEN <<base + 1, a>> ELSE Nowhere
  <2>1. \A a \in Addr \ UsedIn(t), c \in Int, base \in Nat :
           g(a, c, base) = IF c = 0 THEN <<base + 1, a>> ELSE Nowhere
    BY DEF Spot
  <2>2. \A a \in UsedIn(t) \cup {nil}, c \in Int, base \in Nat :
           g(a, c, base) = Spot(t, below, a, c, base)
    BY <1>0
  <2> HIDE DEF f, g
  <2> QED BY <1>0, <1>2, <2>1, <2>2
<1>a. f = [a \in A |-> [c \in Int |-> [base \in Nat |-> f[a][c][base]]]]
  OBVIOUS
<1> HIDE DEF f
<1>4. ASSUME NEW a \in A, NEW c \in Int, NEW base \in Nat
      PROVE  f[a][c][base] = IF a = nil THEN Nowhere ELSE Seek(t, f, a, c, base)
  <2>1. CASE a = nil
    BY <1>b, <1>3, <2>1
  <2>2. CASE a \in UsedIn(t)
    <3>1. \A b \in UsedIn(t) \cup {nil}, j \in Nat : f[b][c][j] = Spot(t, below, b, c, j)
      BY <1>b
    <3>2. \A j \in Nat : /\ f[LeftOf(t, a)][c][j] = Spot(t, below, LeftOf(t, a), c, j)
                         /\ f[RightOf(t, a)][c][j] = Spot(t, below, RightOf(t, a), c, j)
      BY <1>1, <2>2, <3>1
    <3>3. Seek(t, f, a, c, base) = Spot(t, below, a, c, base)
      BY <2>2, <3>2, SpotLaw
    <3> QED BY <1>0, <2>2, <3>1, <3>3
  <2>3. CASE a \in Addr \ UsedIn(t)
    <3>1. t.node[a] = Free
      BY <1>0, <2>3 DEF Linked
    <3>2. /\ t.node[a].left = nil /\ t.node[a].right = nil /\ Len(t.node[a].ids) = 0
          /\ nodesize(t, nil) = 0 /\ t.node[a].score = 0
      BY <3>1 DEF Free, nodesize
    <3>3. base + 0 + 1 = base + 1 /\ base + 0 + 0 = base
      OBVIOUS
    <3>4. Seek(t, f, a, c, base) = IF c = 0 THEN <<base + 1, a>> ELSE f[nil][c][base]
      BY <3>2, <3>3 DEF Seek
    <3>5. f[nil][c][base] = Nowhere /\ a # nil
          /\ f[a][c][base] = IF c = 0 THEN <<base + 1, a>> ELSE Nowhere
      BY <1>0, <1>b, <1>3, <2>3
    <3> QED BY <3>4, <3>5
  <2> QED BY <2>1, <2>2, <2>3
<1>5. f = [a \in A |-> [c \in Int |-> [base \in Nat |->
              IF a = nil THEN Nowhere ELSE Seek(t, f, a, c, base)]]]
  <2>1. [a \in A |-> [c \in Int |-> [base \in Nat |-> f[a][c][base]]]]
        = [a \in A |-> [c \in Int |-> [base \in Nat |->
              IF a = nil THEN Nowhere ELSE Seek(t, f, a, c, base)]]]
    BY <1>4, Zenon
  <2> QED BY <1>a, <2>1, Zenon
<1>6. lookup_score = [a \in A |-> [c \in Int |-> [base \in Nat |->
              IF a = nil THEN Nowhere ELSE Seek(t, lookup_score, a, c, base)]]]
  BY <1>5 DEF lookup_score, Seek, Nowhere
<1>7. \A c \in Int, base \in Nat : lookup_score[nil][c][base] = Nowhere
  BY <1>6
<1>8. \A a \in UsedIn(t), c \in Int, base \in Nat :
         lookup_score[a][c][base] = Seek(t, lookup_score, a, c, base)
  <2>1. \A a \in UsedIn(t) : a \in A /\ a # nil
    BY <1>0
  <2>2. \A a \in A, c \in Int, base \in Nat : lookup_score[a][c][base]
           = IF a = nil THEN Nowhere ELSE Seek(t, lookup_score, a, c, base)
    BY <1>6
  <2> QED BY <2>1, <2>2
<1> DEFINE Right(a) == \A c \in Int, base \in Nat :
                          lookup_score[a][c][base] = Spot(t, below, a, c, base)
           T == {a \in UsedIn(t) : ~Right(a)}
<1>9. T = {}
  <2> SUFFICES ASSUME T # {} PROVE FALSE
    OBVIOUS
  <2>1. PICK a \in T : \A s \in Sides : Kid(t, a, s) \notin T
    <3>1. T \in SUBSET UsedIn(t)
      OBVIOUS
    <3> HIDE DEF T
    <3> QED BY <1>0, <3>1, Lowest
  <2>2. a \in UsedIn(t) /\ ~Right(a)
    OBVIOUS
  <2>3. LeftOf(t, a) \notin T /\ RightOf(t, a) \notin T
    BY <1>0, <2>1 DEF LeftOf, RightOf
  <2>4. \A b \in UsedIn(t) \cup {nil} : b \notin T => Right(b)
    <3>1. Right(nil)
      BY <1>0, <1>3, <1>7
    <3> HIDE DEF Right
    <3> QED BY <3>1
  <2> HIDE DEF T
  <2>5. Right(LeftOf(t, a)) /\ Right(RightOf(t, a))
    BY <1>1, <2>2, <2>3, <2>4, Zenon
  <2>6. \A c \in Int, base \in Nat : Seek(t, lookup_score, a, c, base) = Spot(t, below, a, c, base)
    BY <2>2, <2>5, SpotLaw
  <2> QED BY <1>8, <2>2, <2>6
<1> QED BY <1>9


\* Every rank up to the size of a node is found below it.
LEMMA FindsAll ==
  ASSUME NEW x, NEW below, Frame(x, below, nil, nil)
  PROVE  \A a \in UsedIn(x) \cup {nil} : \A k \in 1 .. nodesize(x, a) :
            \E p : Finds(x, below, a, k, p)
<1> DEFINE All(a) == \A k \in 1 .. nodesize(x, a) : \E p : Finds(x, below, a, k, p)
           T == {a \in UsedIn(x) : ~All(a)}
<1>0. /\ x \in Trees /\ Skeleton(x, below) /\ nil \notin UsedIn(x)
      /\ "left" \in Sides /\ "right" \in Sides
  BY AddrLaw DEF Frame, Skeleton, UsedIn, Sides
<1>1. All(nil)
  BY DEF nodesize
<1>2. ASSUME NEW a \in UsedIn(x), All(LeftOf(x, a)), All(RightOf(x, a)) PROVE All(a)
  <2> SUFFICES ASSUME NEW k \in 1 .. nodesize(x, a) PROVE \E p : Finds(x, below, a, k, p)
    OBVIOUS
  <2> DEFINE m == nodesize(x, LeftOf(x, a))  e == m + IdsOf(x, a)
             z == nodesize(x, RightOf(x, a))
  <2>1. /\ m \in Nat /\ IdsOf(x, a) \in Nat /\ z \in Nat
        /\ LeftOf(x, a) \in UsedIn(x) \cup {nil} /\ RightOf(x, a) \in UsedIn(x) \cup {nil}
    BY WhereKids, SizeIsCount
  <2>2. nodesize(x, a) = m + z + IdsOf(x, a)
    <3>1. a # nil
      BY <1>0
    <3>2. x.node[a].size = m + z + IdsOf(x, a) + 0
      BY <3>1 DEF Frame, Sized, LeftOf, RightOf, IdsOf
    <3>3. nodesize(x, a) = x.node[a].size
      BY <3>1 DEF nodesize
    <3> HIDE DEF m, z
    <3> QED BY <2>1, <3>2, <3>3
  <2>3. /\ k \in m + 1 .. e => Finds(x, below, a, k, <<x.node[a].ids[k - m], a>>)
        /\ k <= m => \A p : Finds(x, below, a, k, p) <=> Finds(x, below, LeftOf(x, a), k, p)
        /\ k > e => \A p : Finds(x, below, a, k, p)
                           <=> Finds(x, below, RightOf(x, a), k - e, p)
    BY FindsLaw
  <2>4. (\A j \in 1 .. m : \E p : Finds(x, below, LeftOf(x, a), j, p))
        /\ \A j \in 1 .. z : \E p : Finds(x, below, RightOf(x, a), j, p)
    BY <1>2
  <2> HIDE DEF m, z
  <2>5. k \in m + 1 .. e \/ (k <= m /\ k \in 1 .. m) \/ (k > e /\ k - e \in 1 .. z)
    BY <2>1, <2>2
  <2> QED BY <2>3, <2>4, <2>5
<1>3. T = {}
  <2> SUFFICES ASSUME T # {} PROVE FALSE
    OBVIOUS
  <2>1. PICK a \in T : \A s \in Sides : Kid(x, a, s) \notin T
    <3>1. T \in SUBSET UsedIn(x)
      OBVIOUS
    <3> HIDE DEF T
    <3> QED BY <1>0, <3>1, Lowest
  <2>2. a \in UsedIn(x) /\ ~All(a)
    OBVIOUS
  <2>3. LeftOf(x, a) \notin T /\ RightOf(x, a) \notin T
    BY <1>0, <2>1 DEF LeftOf, RightOf
  <2>4. LeftOf(x, a) \in UsedIn(x) \cup {nil} /\ RightOf(x, a) \in UsedIn(x) \cup {nil}
    BY <2>2, WhereKids
  <2> HIDE DEF All
  <2> QED BY <1>1, <1>2, <2>2, <2>3, <2>4
<1> QED BY <1>1, <1>3

\* The instance counts with the same Cardinality.
LEMMA SetCardinality == \A S : Set!Cardinality(S) = Cardinality(S)
BY DEF Set!Cardinality, Cardinality

\* The ids of the abstract tree are those of the nodes, at the same places.
LEMMA SetSlots ==
  ASSUME NEW below, NEW h, Resting(t, below, h), Ranked(t), victim = nil
  PROVE  /\ \A a \in UsedIn(t) : t.node[a].score \in Scores
                                 /\ Contents[t.node[a].score] = t.node[a].ids
         /\ Set!Slots(Contents) = SlotsIn(t, UsedIn(t))
         /\ \A c, i : Set!Place(Contents, <<c, i>>) = Cardinality(Over(t, UsedIn(t), c)) + i
         /\ Set!Cardinality(Set!Slots(Contents)) = nodesize(t, t.root)
         /\ nodesize(t, t.root) \in Nat
<1> DEFINE r == Contents  U == UsedIn(t)
<1>0. /\ t \in Trees /\ Apart(t, nil) /\ Frame(t, below, nil, nil)
      /\ U \subseteq Addr /\ nil \notin Addr /\ U \ {nil} = U
      /\ Scores \subseteq Int
  <2>1. Scores \subseteq Int
    BY TreeAssumption DEF Scores
  <2> QED BY <2>1, RestFacts DEF UsedIn
<1>1. r = Held(t, nil)
  BY ContentsLaw
<1>2. /\ r \in [Scores -> Seq(Users)]
      /\ \A a \in U : t.node[a].score \in Scores => r[t.node[a].score] = t.node[a].ids
      /\ \A s \in Scores : (\A a \in U : t.node[a].score # s) => r[s] = <<>>
  BY <1>0, <1>1, HeldLaw
<1>3. \A a \in U : t.node[a].score \in Scores /\ r[t.node[a].score] = t.node[a].ids
  BY <1>2 DEF Ranked
<1> HIDE DEF r
<1>4. \A p : p \in Set!Slots(r) <=> \E s \in Scores : \E i \in 1 .. Len(r[s]) : p = <<s, i>>
  <2>1. \A s \in Scores : DOMAIN r[s] = 1 .. Len(r[s])
    BY <1>2
  <2>2. \A p : p \in Set!Slots(r) <=> \E s \in Scores : p \in {s} \X DOMAIN r[s]
    BY DEF Set!Slots
  <2> QED BY <2>1, <2>2
<1>5. Set!Slots(r) = SlotsIn(t, U)
  <2>1. ASSUME NEW p \in Set!Slots(r) PROVE p \in SlotsIn(t, U)
    <3>1. PICK s \in Scores : \E i \in 1 .. Len(r[s]) : p = <<s, i>>
      BY <1>4
    <3>2. PICK i \in 1 .. Len(r[s]) : p = <<s, i>>
      BY <3>1
    <3>3. r[s] # <<>>
      BY <3>2
    <3>4. PICK a \in U : t.node[a].score = s
      BY <1>2, <3>3
    <3>5. r[s] = t.node[a].ids
      BY <1>3, <3>4
    <3>6. s \in Int /\ i \in Int /\ i \in 1 .. Len(t.node[a].ids)
      BY <1>0, <3>5
    <3> QED BY <3>2, <3>4, <3>6 DEF SlotsIn
  <2>2. ASSUME NEW p \in SlotsIn(t, U) PROVE p \in Set!Slots(r)
    <3>1. p \in Int \X Int /\ \E a \in U : p[1] = t.node[a].score
                                         /\ p[2] \in 1 .. Len(t.node[a].ids)
      BY DEF SlotsIn
    <3>2. PICK a \in U : p[1] = t.node[a].score /\ p[2] \in 1 .. Len(t.node[a].ids)
      BY <3>1
    <3>3. p[1] \in Scores /\ p[2] \in 1 .. Len(r[p[1]]) /\ p = <<p[1], p[2]>>
      BY <1>3, <3>1, <3>2
    <3> QED BY <1>4, <3>3
  <2> QED BY <2>1, <2>2
<1>6. ASSUME NEW c, NEW i
      PROVE  Set!Place(r, <<c, i>>) = Cardinality(Over(t, U, c)) + i
  <2>1. {p \in Set!Slots(r) : p[1] > <<c, i>>[1]} = Over(t, U, c)
    BY <1>5 DEF Over
  <2>2. <<c, i>>[2] = i
    OBVIOUS
  <2> QED BY <2>1, <2>2, SetCardinality DEF Set!Place
<1>7. Set!Cardinality(Set!Slots(r)) = nodesize(t, t.root) /\ nodesize(t, t.root) \in Nat
  <2>1. U = Under(below, t.root) /\ t.root \in U \cup {nil}
    BY <1>0 DEF Frame, Skeleton, Spans, Linked
  <2> QED BY <1>0, <1>5, <2>1, SizeIsCount, SetCardinality
<1> QED BY <1>3, <1>5, <1>6, <1>7 DEF r

\* One rank: its id, the node, and the way back.
LEMMA RankLaw ==
  ASSUME NEW below, NEW h, Resting(t, below, h), Ranked(t), victim = nil,
         NEW k \in 1 .. nodesize(t, t.root)
  PROVE  LET found == lookup_node[t.root][k]
             pair  == Set!TreePairs(Contents)[k]
         IN  /\ found[1] = pair.id /\ t.node[found[2]].score = pair.score
             /\ Locate(pair.score, pair.id) = k
<1> DEFINE r == Contents  U == UsedIn(t)  z == nodesize(t, t.root)
<1>0. /\ t \in Trees /\ Apart(t, nil) /\ Frame(t, below, nil, nil) /\ Distinct(t)
      /\ U \subseteq Addr /\ nil \notin Addr /\ U = Under(below, t.root)
      /\ t.root \in U \cup {nil}
  <2>1. Frame(t, below, nil, nil) /\ t \in Trees /\ Apart(t, nil) /\ Distinct(t) /\ nil \notin Addr
    BY RestFacts
  <2> QED BY <2>1 DEF Frame, Skeleton, Spans, Linked, UsedIn
<1>1. /\ \A a \in U : t.node[a].score \in Scores /\ r[t.node[a].score] = t.node[a].ids
      /\ Set!Slots(r) = SlotsIn(t, U)
      /\ \A c, i : Set!Place(r, <<c, i>>) = Cardinality(Over(t, U, c)) + i
      /\ Set!Cardinality(Set!Slots(r)) = z /\ z \in Nat
  BY SetSlots
<1>2. t.root \in U
  <2>1. t.root # nil
    BY DEF nodesize
  <2> QED BY <1>0, <2>1
<1>3. U = below[t.root]
  BY <1>0, <1>2 DEF Under
<1>4. PICK q : Finds(t, below, t.root, k, q)
  BY <1>0, <1>2, FindsAll
<1>5. PICK b \in U : \E i \in 1 .. IdsOf(t, b) :
         q = <<t.node[b].ids[i], b>> /\ Where(t, U, b, i) = k
  BY <1>0, <1>4 DEF Finds
<1>6. PICK i \in 1 .. IdsOf(t, b) : q = <<t.node[b].ids[i], b>> /\ Where(t, U, b, i) = k
  BY <1>5
<1> DEFINE c == t.node[b].score  d == Cardinality(Over(t, U, c))
<1>7. /\ c \in Int /\ d \in Nat /\ IdsOf(t, b) \in Nat /\ k = d + i /\ b # nil /\ i \in Int
      /\ t.node[b].ids \in Seq(Users) /\ k \in Int
  <2>1. c \in Int /\ IdsOf(t, b) \in Nat
    BY <1>0, OneSlots
  <2>2. d \in Nat
    BY <1>0, OverFinite
  <2>3. k = d + i
    BY <1>6 DEF Where
  <2>4. t.node[b].ids \in Seq(Users) /\ b # nil
    BY <1>0, TreeFields
  <2> QED BY <1>1, <2>1, <2>2, <2>3, <2>4
<1>8. lookup_node[t.root][k] = <<t.node[b].ids[i], b>>
  <2>1. lookup_node[t.root][k] = Answer(t, below, t.root, k)
    BY <1>0, <1>2, <1>7, LookupNodeLaw
  <2>2. Finds(t, below, t.root, k, CHOOSE p : Finds(t, below, t.root, k, p))
    BY <1>4
  <2>3. (CHOOSE p : Finds(t, below, t.root, k, p)) = q
    BY <1>0, <1>2, <1>4, <1>7, <2>2, FindsLaw
  <2> QED BY <1>2, <1>4, <1>6, <2>1, <2>3 DEF Answer
<1>9. Set!TreePairs(r)[k] = [id |-> t.node[b].ids[i], score |-> c]
  <2> DEFINE at == CHOOSE p \in Set!Slots(r) : Set!Place(r, p) = k
  <2>1. <<c, i>> \in Set!Slots(r) /\ Set!Place(r, <<c, i>>) = k
    <3>1. <<c, i>> \in SlotsIn(t, U)
      BY <1>7 DEF SlotsIn, IdsOf
    <3> QED BY <1>1, <1>7, <3>1
  <2>2. at \in Set!Slots(r) /\ Set!Place(r, at) = k
    BY <2>1
  <2> HIDE DEF at
  <2>3. PICK a \in U : at[1] = t.node[a].score /\ at[2] \in 1 .. Len(t.node[a].ids)
                       /\ at = <<at[1], at[2]>>
    BY <1>1, <2>2 DEF SlotsIn
  <2>4. Where(t, U, a, at[2]) = k /\ at[2] \in 1 .. IdsOf(t, a)
    <3>1. Set!Place(r, <<at[1], at[2]>>) = Cardinality(Over(t, U, at[1])) + at[2]
      BY <1>1
    <3> QED BY <2>2, <2>3, <3>1 DEF Where, IdsOf
  <2>5. a = b /\ at[2] = i
    BY <1>0, <1>2, <1>3, <1>6, <2>4, WhereLaw
  <2>6. Set!TreePairs(r)[k] = Set!Pair(r[at[1]][at[2]], at[1])
    BY <1>1 DEF Set!TreePairs, at
  <2> QED BY <1>1, <2>3, <2>5, <2>6 DEF Set!Pair
<1>10. Locate(c, t.node[b].ids[i]) = k
  <2> DEFINE ids == t.node[b].ids  id == t.node[b].ids[i]
  <2>1. lookup_score[t.root][c][0] = Spot(t, below, t.root, c, 0)
    BY <1>0, <1>2, <1>7, LookupScoreLaw
  <2>2. Spots(t, below, t.root, c, 0, <<d + 1, b>>)
    BY <1>0, <1>7 DEF Spots
  <2>3. Spots(t, below, t.root, c, 0, CHOOSE p : Spots(t, below, t.root, c, 0, p))
    BY <2>2
  <2>4. (CHOOSE p : Spots(t, below, t.root, c, 0, p)) = <<d + 1, b>>
    BY <1>0, <1>2, <1>7, <2>2, <2>3, SpotsLaw
  <2>5. lookup_score[t.root][c][0] = <<d + 1, b>>
    BY <1>2, <2>1, <2>2, <2>4 DEF Spot
  <2>6. \E j \in 1 .. Len(ids) : ids[j] = id
    BY DEF IdsOf
  <2>7. IdAt(ids, id) = i
    <3>1. DOMAIN ids = 1 .. Len(ids) /\ i \in DOMAIN ids /\ ids \in Seq(Users)
      BY <1>7 DEF IdsOf
    <3>2. \E j \in DOMAIN ids : ids[j] = id
      BY <3>1
    <3>3. IdAt(ids, id) \in DOMAIN ids /\ ids[IdAt(ids, id)] = id
      <4> HIDE DEF ids, id
      <4> QED BY <3>1, <3>2, IdAtLaw
    <3> QED BY <1>0, <3>1, <3>3 DEF Distinct
  <2>8. Locate(c, id) = IF b = nil \/ ~(\E j \in 1 .. Len(ids) : ids[j] = id) THEN -1
                        ELSE (d + 1) + IdAt(ids, id) - 1
    BY <2>5 DEF Locate, Contains
  <2> HIDE DEF d
  <2> QED BY <1>7, <2>6, <2>7, <2>8
<1> QED BY <1>8, <1>9, <1>10


\* Count, Rank and Locate agree with the ids of the tree after every call: the
\* sizes that Insert, Delete, the copied predecessor and the rotations leave
\* behind lead lookup_node from each rank to its id and lookup_score from each
\* id back to its rank, in falling order of scores.
THEOREM RanksFound == Spec => []RanksRight
<1>1. IInv /\ Ranked(t) => RanksRight
  <2> SUFFICES ASSUME IInv, Ranked(t), pc = "idle"
               PROVE  /\ nodesize(t, t.root) = Len(Set!TreePairs(Contents))
                      /\ \A k \in 1 .. nodesize(t, t.root) :
                            LET found == lookup_node[t.root][k]
                                pair  == Set!TreePairs(Contents)[k]
                            IN  /\ found[1] = pair.id /\ t.node[found[2]].score = pair.score
                                /\ Locate(pair.score, pair.id) = k
    BY DEF RanksRight
  <2>1. PICK below \in [Addr -> SUBSET Addr], h \in [Addr -> Nat] :
           Good(t, pc, n, item, victim, below, h)
    BY DEF IInv
  <2>2. Resting(t, below, h) /\ victim = nil
    BY <2>1 DEF Good, Inserts, Deletes
  <2>3. nodesize(t, t.root) = Len(Set!TreePairs(Contents))
    <3>1. Set!Cardinality(Set!Slots(Contents)) = nodesize(t, t.root) /\ nodesize(t, t.root) \in Nat
      BY <2>2, SetSlots
    <3> DEFINE z == nodesize(t, t.root)
               pair(k) == LET at == CHOOSE p \in Set!Slots(Contents) : Set!Place(Contents, p) = k
                          IN  Set!Pair(Contents[at[1]][at[2]], at[1])
    <3>2. Set!TreePairs(Contents) = [k \in 1 .. z |-> pair(k)]
      BY <3>1 DEF Set!TreePairs
    <3> HIDE DEF z, pair
    <3>3. z \in Nat => Len([k \in 1 .. z |-> pair(k)]) = z
      OBVIOUS
    <3> QED BY <3>1, <3>2, <3>3 DEF z
  <2> QED BY <2>2, <2>3, RankLaw
<1>2. Init => Ranked(t)
  BY FreeLaw DEF Init, UsedIn, Ranked
<1>3. IInv /\ IInv' /\ Ranked(t) /\ [Next]_vars => Ranked(t')
  BY StepOutcome DEF Outcome
<1>4. Ranked(t)' <=> Ranked(t')
  BY DEF Ranked, UsedIn
<1> QED BY <1>1, <1>2, <1>3, <1>4, Sturdy, PTL DEF Spec
=============================================================================
