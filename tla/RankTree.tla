------------------------------ MODULE RankTree ------------------------------
(***************************************************************************)
(* FKGRpc_Rank/Dos: the dynamic order statistics tree behind a large       *)
(* ranking, a red-black tree of scores (the higher to the left) in which   *)
(* every node counts the ids below it.                                     *)
(*                                                                         *)
(* Nodes are addresses, nil is 0.  Insert and Delete run under the lock of *)
(* the ranking; each case of their repair is an action, pc its name and n  *)
(* the node it is called with.  The mirrored branches of a case are one:   *)
(* a side is the name of a child field.                                    *)
(***************************************************************************)
EXTENDS Integers, Sequences, FiniteSets, SequencesExt

CONSTANTS
    Entries,    \* pairs <<score, id>> that may be ranked
    MaxNodes    \* addresses

ASSUME TreeAssumption == Entries \subseteq Int \X Int /\ MaxNodes \in Nat

VARIABLES
    t,      \* the tree: its root and the fields of every node
    pc, n,
    item,   \* the score and id that Insert carries down
    victim  \* the node that Delete takes out, nil outside Delete

vars == <<t, pc, n, item, victim>>

nil   == 0
Addr  == 1 .. MaxNodes
RED   == TRUE
BLACK == FALSE

Users  == {e[2] : e \in Entries}
Scores == {e[1] : e \in Entries}

\* A node: its children and parent, the number of ids in its subtree, its color,
\* and the ids of its score.  An address that holds no node is Free.
Free == [left |-> nil, right |-> nil, parent |-> nil, size |-> 0,
         color |-> BLACK, score |-> 0, ids |-> <<>>]

Used == {a \in Addr : t.node[a].ids # <<>>}

new_node(score, id, parent) ==
    [left |-> nil, right |-> nil, parent |-> parent, size |-> 1, color |-> RED,
     score |-> score, ids |-> <<id>>]

Init ==
    /\ t = [root |-> nil, node |-> [a \in Addr |-> Free]]
    /\ pc = "idle" /\ n = nil /\ item = <<>> /\ victim = nil

-----------------------------------------------------------------------------
(* The nodes around a node. *)

node_color(x, a) == IF a = nil THEN BLACK ELSE x.node[a].color
nodesize(x, a)   == IF a = nil THEN 0 ELSE x.node[a].size

parent(a)      == t.node[a].parent
grandparent(a) == parent(parent(a))

Other(side) == IF side = "left" THEN "right" ELSE "left"
SideOf(a)   == IF a = t.node[parent(a)].left THEN "left" ELSE "right"
sibling(a)  == t.node[parent(a)][Other(SideOf(a))]
uncle(a)    == sibling(parent(a))

\* a and the nodes above it.
Above[a \in Addr \cup {nil}] ==
    IF a = nil THEN {} ELSE {a} \cup Above[parent(a)]

\* From a down to the last node on its right.
maximum_node[a \in Addr] ==
    IF t.node[a].right = nil THEN a ELSE maximum_node[t.node[a].right]

-----------------------------------------------------------------------------
(* Trees made from a tree x. *)

Colored(x, a, c) == [x EXCEPT !.node[a].color = c]

replace_node(x, oldn, newn) ==
    LET p == x.node[oldn].parent
    IN  [root |-> IF p = nil THEN newn ELSE x.root,
         node |-> [a \in Addr |->
             [x.node[a] EXCEPT
                !.left   = IF a = p /\ @ = oldn THEN newn ELSE @,
                !.right  = IF a = p /\ @ = oldn THEN newn ELSE @,
                !.parent = IF a = newn THEN p ELSE @]]]

\* The callback after a rotation that has put m below q.
rotate_callback_OneSide(x, m, q) ==                       \* mutant
    [x EXCEPT !.node[q].size = nodesize(x, m),
              !.node[m].size = nodesize(x, x.node[m].left) + Len(x.node[m].ids)]
rotate_callback(x, m, q) ==
    [x EXCEPT !.node[q].size = nodesize(x, m),
              !.node[m].size = nodesize(x, x.node[m].left)
                               + nodesize(x, x.node[m].right)
                               + Len(x.node[m].ids)]

\* rotate_left (rotate_right): the child of m on the other side takes its place.
rotate(x, m, side) ==
    LET q == x.node[m][Other(side)]
        c == x.node[q][side]
        y == replace_node(x, m, q)
    IN  rotate_callback(
            [y EXCEPT !.node = [a \in Addr |->
                [y.node[a] EXCEPT ![Other(side)] = IF a = m THEN c ELSE @,
                                  ![side]        = IF a = q THEN m ELSE @,
                                  !.parent = CASE a = m -> q [] a = c -> m
                                               [] OTHER -> @]]],
            m, q)

\* fixup_size: one id less at a and at every node above it.
fixup_size(x, a) ==
    [x EXCEPT !.node = [b \in Addr |->
        [x.node[b] EXCEPT !.size = IF b \in Above[a] THEN @ - 1 ELSE @]]]

-----------------------------------------------------------------------------
(* Insert *)

Goto(label, a) == pc' = label /\ n' = a /\ UNCHANGED <<item, victim>>
Return         == pc' = "idle" /\ n' = nil /\ item' = <<>> /\ victim' = nil

\* A node for score and id below p, on a side (p nil: as the root).
Link(p, side, score, id) ==
    LET a == CHOOSE b \in Addr \ Used : \A c \in Addr \ Used : b <= c
    IN  /\ Addr # Used
        /\ t' = [root |-> IF p = nil THEN a ELSE t.root,
                 node |-> [b \in Addr |->
                    IF b = a THEN new_node(score, id, p)
                    ELSE IF b = p THEN [t.node[p] EXCEPT ![side] = a, !.size = @ + 1]
                    ELSE t.node[b]]]
        /\ pc' = "insert_case1" /\ n' = a /\ item' = <<>> /\ UNCHANGED victim

Insert(score, id) ==
    /\ pc = "idle" /\ \A a \in Used : \A k \in DOMAIN t.node[a].ids : t.node[a].ids[k] # id
    /\ \/ t.root = nil /\ Link(nil, "left", score, id)
       \/ /\ t.root # nil
          /\ pc' = "descend" /\ n' = t.root /\ item' = <<score, id>>
          /\ UNCHANGED <<t, victim>>

\* One node of the way down: the higher score to the left.
Descend_Side(x, score) == IF score > x THEN "left" ELSE "right"
Descend ==
    LET node == t.node[n]
        side == Descend_Side(node.score, item[1])
    IN  /\ pc = "descend"
        /\ \/ /\ item[1] = node.score
              /\ t' = [t EXCEPT !.node[n].size = @ + 1,
                                !.node[n].ids = Append(@, item[2])]
              /\ Return
           \/ /\ item[1] # node.score /\ node[side] = nil
              /\ Link(n, side, item[1], item[2])
           \/ /\ item[1] # node.score /\ node[side] # nil
              /\ t' = [t EXCEPT !.node[n].size = @ + 1]
              /\ Goto("descend", node[side])

insert_case1 ==
    /\ pc = "insert_case1"
    /\ \/ parent(n) = nil /\ t' = Colored(t, n, BLACK) /\ Return
       \/ parent(n) # nil /\ Goto("insert_case2", n) /\ UNCHANGED t

insert_case2 ==
    /\ pc = "insert_case2"
    /\ UNCHANGED t
    /\ IF node_color(t, parent(n)) = BLACK THEN Return ELSE Goto("insert_case3", n)

insert_case3 ==
    /\ pc = "insert_case3"
    /\ IF node_color(t, uncle(n)) = RED
       THEN /\ t' = Colored(Colored(Colored(t, parent(n), BLACK), uncle(n), BLACK),
                            grandparent(n), RED)
            /\ Goto("insert_case1", grandparent(n))
       ELSE Goto("insert_case4", n) /\ UNCHANGED t

insert_case4 ==
    /\ pc = "insert_case4"
    /\ IF SideOf(n) # SideOf(parent(n))
       THEN /\ t' = rotate(t, parent(n), SideOf(parent(n)))
            /\ Goto("insert_case5", parent(n))
       ELSE Goto("insert_case5", n) /\ UNCHANGED t

insert_case5 ==
    /\ pc = "insert_case5"
    /\ t' = rotate(Colored(Colored(t, parent(n), BLACK), grandparent(n), RED),
                   grandparent(n), Other(SideOf(n)))
    /\ Return

-----------------------------------------------------------------------------
(* Delete *)

\* The node to take out for a: a itself, or the predecessor that moves up.
Victim(a) == IF t.node[a].left # nil /\ t.node[a].right # nil
             THEN maximum_node[t.node[a].left] ELSE a

\* The fields of v are copied to a; the nodes from v up to a lose its ids.
Copied_ScoreOnly(x, a, v) ==                              \* mutant
    [x EXCEPT !.node = [b \in Addr |->
        IF b = a THEN [x.node[a] EXCEPT !.score = x.node[v].score]
        ELSE IF b \in Above[v] \ Above[a]
             THEN [x.node[b] EXCEPT !.size = @ - Len(x.node[v].ids)]
             ELSE x.node[b]]]
Copied(x, a, v) ==
    [x EXCEPT !.node = [b \in Addr |->
        IF b = a THEN [x.node[a] EXCEPT !.score = x.node[v].score, !.ids = x.node[v].ids]
        ELSE IF b \in Above[v] \ Above[a]
             THEN [x.node[b] EXCEPT !.size = @ - Len(x.node[v].ids)]
             ELSE x.node[b]]]

child(v) == IF t.node[v].right = nil THEN t.node[v].left ELSE t.node[v].right

\* The first place of an id in a node.
IdAt(ids, id) == CHOOSE k \in DOMAIN ids : ids[k] = id /\ \A j \in 1 .. k - 1 : ids[j] # id

DeleteId(id, a) ==
    /\ pc = "idle" /\ Len(t.node[a].ids) > 1
    /\ t' = fixup_size([t EXCEPT !.node[a].ids = RemoveAt(@, IdAt(@, id))], a)
    /\ UNCHANGED <<pc, n, item, victim>>

DeleteNode(a) ==
    LET v == Victim(a)
        x == Copied(fixup_size(t, a), a, v)
    IN  /\ pc = "idle" /\ Len(t.node[a].ids) = 1
        /\ IF node_color(t, v) = BLACK
           THEN /\ t' = Colored(x, v, node_color(x, child(v)))
                /\ pc' = "delete_case1" /\ n' = v
           ELSE t' = x /\ pc' = "unlink" /\ n' = nil
        /\ victim' = v /\ UNCHANGED item

\* RankSet calls Delete with the node that Locate found.
Delete(id, a) ==
    /\ \E k \in DOMAIN t.node[a].ids : t.node[a].ids[k] = id
    /\ DeleteId(id, a) \/ DeleteNode(a)

delete_case1 ==
    /\ pc = "delete_case1"
    /\ UNCHANGED t
    /\ IF parent(n) = nil THEN Goto("unlink", nil) ELSE Goto("delete_case2", n)

delete_case2 ==
    /\ pc = "delete_case2"
    /\ t' = IF node_color(t, sibling(n)) = RED
            THEN rotate(Colored(Colored(t, parent(n), RED), sibling(n), BLACK),
                        parent(n), SideOf(n))
            ELSE t
    /\ Goto("delete_case3", n)

\* The colors of the sibling's children on the side of n and on the other.
Near(a) == node_color(t, t.node[sibling(a)][SideOf(a)])
Far(a)  == node_color(t, t.node[sibling(a)][Other(SideOf(a))])
AllBlack(a) == /\ node_color(t, sibling(a)) = BLACK
               /\ Near(a) = BLACK /\ Far(a) = BLACK

delete_case3 ==
    /\ pc = "delete_case3"
    /\ IF node_color(t, parent(n)) = BLACK /\ AllBlack(n)
       THEN t' = Colored(t, sibling(n), RED) /\ Goto("delete_case1", parent(n))
       ELSE Goto("delete_case4", n) /\ UNCHANGED t

delete_case4 ==
    /\ pc = "delete_case4"
    /\ IF node_color(t, parent(n)) = RED /\ AllBlack(n)
       THEN /\ t' = Colored(Colored(t, sibling(n), RED), parent(n), BLACK)
            /\ Goto("unlink", nil)
       ELSE Goto("delete_case5", n) /\ UNCHANGED t

delete_case5 ==
    LET s == sibling(n)
    IN  /\ pc = "delete_case5"
        /\ t' = IF node_color(t, s) = BLACK /\ Near(n) = RED /\ Far(n) = BLACK
                THEN rotate(Colored(Colored(t, s, RED), t.node[s][SideOf(n)], BLACK),
                            s, Other(SideOf(n)))
                ELSE t
        /\ Goto("delete_case6", n)

delete_case6_KeepParent ==                                \* mutant
    LET s == sibling(n)
    IN  /\ pc = "delete_case6"
        /\ t' = rotate(Colored(Colored(t, s, node_color(t, parent(n))),
                               t.node[s][Other(SideOf(n))], BLACK),
                       parent(n), SideOf(n))
        /\ Goto("unlink", nil)
delete_case6 ==
    LET s == sibling(n)
        x == Colored(Colored(t, s, node_color(t, parent(n))), parent(n), BLACK)
    IN  /\ pc = "delete_case6"
        /\ t' = rotate(Colored(x, t.node[s][Other(SideOf(n))], BLACK),
                       parent(n), SideOf(n))
        /\ Goto("unlink", nil)

\* The end of Delete: the victim's child takes its place.
unlink ==
    LET c == child(victim)
        x == replace_node(t, victim, c)
        y == IF parent(victim) = nil /\ c # nil THEN Colored(x, c, BLACK) ELSE x
    IN  /\ pc = "unlink"
        /\ t' = [y EXCEPT !.node[victim] = Free]
        /\ Return

Next ==
    \/ \E e \in Entries : Insert(e[1], e[2])
    \/ Descend
    \/ insert_case1 \/ insert_case2 \/ insert_case3 \/ insert_case4 \/ insert_case5
    \/ \E a \in Used : \E id \in Users : Delete(id, a)
    \/ delete_case1 \/ delete_case2 \/ delete_case3
    \/ delete_case4 \/ delete_case5 \/ delete_case6 \/ unlink

Spec == Init /\ [][Next]_vars

-----------------------------------------------------------------------------
(* Lookups *)

lookup_node[a \in Addr \cup {nil}] == [rank \in Int |->
    IF a = nil THEN <<-1, nil>>
    ELSE LET start == nodesize(t, t.node[a].left) + 1
             end   == nodesize(t, t.node[a].left) + Len(t.node[a].ids)
         IN  CASE rank \in start .. end -> <<t.node[a].ids[rank - start + 1], a>>
               [] rank < start          -> lookup_node[t.node[a].left][rank]
               [] OTHER                 -> lookup_node[t.node[a].right][rank - end]]

\* The first rank of a score and its node, base ranks being to the left of a.
lookup_score[a \in Addr \cup {nil}] == [score \in Int |-> [base \in Nat |->
    IF a = nil THEN <<-1, nil>>
    ELSE LET left == nodesize(t, t.node[a].left)
         IN  CASE score = t.node[a].score -> <<base + left + 1, a>>
               [] score > t.node[a].score -> lookup_score[t.node[a].left][score][base]
               [] OTHER -> lookup_score[t.node[a].right][score]
                                       [base + left + Len(t.node[a].ids)]]]

Locate(score, id) ==
    LET found == lookup_score[t.root][score][0]
        ids   == t.node[found[2]].ids
    IN  IF found[2] = nil \/ ~Contains(ids, id) THEN -1
        ELSE found[1] + IdAt(ids, id) - 1

-----------------------------------------------------------------------------
(* Properties *)

\* What the tree holds for RankSet: for each score the ids of its node.
Contents ==
    [score \in Scores |->
        LET at == {a \in Used \ {victim} : t.node[a].score = score}
        IN  IF at = {} THEN <<>> ELSE t.node[CHOOSE a \in at : TRUE].ids]

\* The tree implements the map from scores to ids that RankSet is built on:
\* a repair in the middle of Insert or Delete moves nodes, and no repair
\* loses, doubles or reorders an id.
Set == INSTANCE TreeSpec WITH r <- Contents, UPPER_THRESHOLD <- 0, LOWER_THRESHOLD <- 0
ImplementsTree == Set!Spec

\* Count is the number of ids, rank k finds the k-th of them in falling order
\* of scores, and Locate finds the rank of every id back: the sizes kept by
\* Insert, Delete, the copy of the predecessor and the rotations agree with
\* the ids below each node.
RanksRight ==
    pc = "idle" =>
        /\ nodesize(t, t.root) = Len(Set!TreePairs(Contents))
        /\ \A k \in 1 .. nodesize(t, t.root) :
              LET found == lookup_node[t.root][k]
                  pair  == Set!TreePairs(Contents)[k]
              IN  /\ found[1] = pair.id /\ t.node[found[2]].score = pair.score
                  /\ Locate(pair.score, pair.id) = k

\* The number of black nodes on every way down from a, or -1 if they differ or
\* two red nodes meet.
BlackHeight[a \in Addr \cup {nil}] ==
    IF a = nil THEN 0
    ELSE LET l == BlackHeight[t.node[a].left]
             r == BlackHeight[t.node[a].right]
             redred == /\ t.node[a].color = RED
                       /\ \/ node_color(t, t.node[a].left) = RED
                          \/ node_color(t, t.node[a].right) = RED
         IN  IF l = -1 \/ r = -1 \/ l # r \/ redred THEN -1
             ELSE l + IF t.node[a].color = BLACK THEN 1 ELSE 0

\* After every Insert and every Delete the tree is red-black: no chain of
\* recolorings and rotations leaves a red node below a red one or a path with
\* fewer black nodes, so the depth of recursive lookups stays logarithmic.
Balanced == pc = "idle" => node_color(t, t.root) = BLACK /\ BlackHeight[t.root] >= 0

-----------------------------------------------------------------------------
(* For TLC: the tree without the addresses of its nodes. *)

Shape[a \in Addr \cup {nil}] ==
    IF a = nil THEN <<>>
    ELSE <<t.node[a].score, t.node[a].ids, t.node[a].color, t.node[a].size,
           a = n, a = victim,
           {parent(c) = a : c \in {t.node[a].left, t.node[a].right} \ {nil}},
           Shape[t.node[a].left], Shape[t.node[a].right]>>
View == <<Shape[t.root], pc, item>>
=============================================================================
