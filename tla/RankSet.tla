------------------------------- MODULE RankSet -------------------------------
(***************************************************************************)
(* FKGRpc_Rank/RankSet: one ranking, kept twice: M maps a user to its      *)
(* score, and an order of the users is kept in a sorted set while they are *)
(* few and in a tree of scores when they are many.  The operators return   *)
(* the sets of the values the code can produce: toggle and Unmarshal go    *)
(* through a Go map, in any order.                                         *)
(*                                                                         *)
(* The tree (Dos/Dos.go) is kept by what it promises: for each score the   *)
(* ids of its node, in the order they were added.                          *)
(*                                                                         *)
(* lowered and swapped are no fields of the code: they say that the order  *)
(* in S stems from an Update that did not raise a score, or from a         *)
(* conversion of the tree.                                                 *)
(***************************************************************************)
EXTENDS Integers, Sequences, FiniteSets, SequencesExt

CONSTANTS
    Users,              \* user ids
    Scores,             \* scores, of the same type int32
    UPPER_THRESHOLD,    \* 1024
    LOWER_THRESHOLD     \* 512

ASSUME RankSetAssumption ==
    /\ Users \subseteq Int /\ Scores \subseteq Int
    /\ IsFiniteSet(Users) /\ IsFiniteSet(Scores)
    /\ UPPER_THRESHOLD \in Nat /\ LOWER_THRESHOLD \in Nat

Pair(id, score) == [id |-> id, score |-> score]

-----------------------------------------------------------------------------
(* SortedSet *)

First(s, Test(_)) == CHOOSE k \in DOMAIN s :
                        Test(s[k]) /\ \A j \in 1 .. k - 1 : ~Test(s[j])
Has(s, Test(_))   == \E k \in DOMAIN s : Test(s[k])

\* Before the first lower score, or at the end.
SInsert_Ascending(s, id, score) ==                        \* mutant
    IF Has(s, LAMBDA p : score < p.score)
    THEN InsertAt(s, First(s, LAMBDA p : score < p.score), Pair(id, score))
    ELSE Append(s, Pair(id, score))
SInsert(s, id, score) ==
    IF Has(s, LAMBDA p : score > p.score)
    THEN InsertAt(s, First(s, LAMBDA p : score > p.score), Pair(id, score))
    ELSE Append(s, Pair(id, score))

SDelete(s, id) ==
    IF Has(s, LAMBDA p : p.id = id)
    THEN RemoveAt(s, First(s, LAMBDA p : p.id = id)) ELSE s

SLocate(s, id) ==
    IF Has(s, LAMBDA p : p.id = id) THEN First(s, LAMBDA p : p.id = id) ELSE -1

\* Either shift takes the pair out of its index and puts it at update_idx, an
\* index of the set before it was taken out.
SUpdate(s, id, score) ==
    IF ~Has(s, LAMBDA p : p.id = id) THEN s
    ELSE LET update_idx == IF Has(s, LAMBDA p : score > p.score)
                           THEN First(s, LAMBDA p : score > p.score)
                           ELSE Len(s)
         IN  InsertAt(RemoveAt(s, SLocate(s, id)), update_idx, Pair(id, score))

-----------------------------------------------------------------------------
(* Tree *)

NoTree == [score \in Scores |-> <<>>]

RInsert(r, id, score) == [r EXCEPT ![score] = Append(@, id)]
Located(r, id, score) == score \in Scores /\ Contains(r[score], id)

\* Of a node with one id the node goes.
RDelete(r, id, score) ==
    [r EXCEPT ![score] = IF Len(@) = 1 THEN <<>>
                         ELSE IF Contains(@, id)
                         THEN RemoveAt(@, First(@, LAMBDA u : u = id)) ELSE @]

\* The ids of the tree as pairs of a score and an index; the rank of one.
Slots(r)     == UNION {{score} \X DOMAIN r[score] : score \in Scores}
Place(r, at) == Cardinality({p \in Slots(r) : p[1] > at[1]}) + at[2]

RLocate(r, id, score) ==
    IF ~Located(r, id, score) THEN -1
    ELSE Place(r, <<score, First(r[score], LAMBDA u : u = id)>>)

-----------------------------------------------------------------------------
(* RankSet *)

NewRankSet == [M |-> <<>>, S |-> <<>>, R |-> NoTree, Type |-> "SORTED_SET",
               lowered |-> FALSE, swapped |-> FALSE]

Count(rs) == Cardinality(DOMAIN rs.M)

\* All the results of inserting the pairs of m one after another.
Filled(Insert(_, _, _), empty, m) ==
    {LET fill[n \in 0 .. Len(order)] ==
            IF n = 0 THEN empty ELSE Insert(fill[n - 1], order[n], m[order[n]])
     IN  fill[Len(order)] : order \in SetToSeqs(DOMAIN m)}

Treed(m)       == Filled(RInsert, NoTree, m)
Listed(m)      == Filled(SInsert, <<>>, m)
Swapped(s0, m) == Filled(LAMBDA s, id, score : SInsert(s, score, id), s0, m)

toggle_Uncleared(rs) ==                                   \* mutant
    IF rs.Type = "SORTED_SET"
    THEN {[rs EXCEPT !.R = r, !.Type = "RBTREE"] : r \in Treed(rs.M)}
    ELSE {[rs EXCEPT !.S = s, !.R = NoTree, !.Type = "SORTED_SET",
                     !.swapped = rs.M # <<>>] : s \in Swapped(rs.S, rs.M)}
\* From the tree the pairs are inserted with score and id swapped.
toggle(rs) ==
    IF rs.Type = "SORTED_SET"
    THEN {[rs EXCEPT !.R = r, !.S = <<>>, !.Type = "RBTREE",
                     !.lowered = FALSE, !.swapped = FALSE] : r \in Treed(rs.M)}
    ELSE {[rs EXCEPT !.S = s, !.R = NoTree, !.Type = "SORTED_SET",
                     !.swapped = rs.M # <<>>] : s \in Swapped(rs.S, rs.M)}

\* An operation on a set that keeps its storage.
Updated(rs, id, newscore) ==
    LET known == id \in DOMAIN rs.M
        new   == [u \in DOMAIN rs.M \cup {id} |->
                     IF u = id THEN newscore ELSE rs.M[u]]
    IN  IF rs.Type = "SORTED_SET"
        THEN [rs EXCEPT !.M = new,
                        !.S = IF known THEN SUpdate(@, id, newscore)
                              ELSE SInsert(@, id, newscore),
                        !.lowered = @ \/ (known /\ newscore <= rs.M[id])]
        ELSE [rs EXCEPT !.M = new,
                        !.R = RInsert(IF known THEN RDelete(@, id, rs.M[id])
                                      ELSE @, id, newscore)]

Update(rs, id, newscore) ==
    {Updated(x, id, newscore) :
        x \in IF /\ id \notin DOMAIN rs.M /\ rs.Type = "SORTED_SET"
                 /\ Count(rs) > UPPER_THRESHOLD
              THEN toggle(rs) ELSE {rs}}

\* r.M[userid] is 0 for a user that is not ranked.
Score(rs, id) == IF id \in DOMAIN rs.M THEN rs.M[id] ELSE 0

Deleted_KeepTree(rs, id) ==                               \* mutant
    [rs EXCEPT !.M = [u \in DOMAIN rs.M \ {id} |-> rs.M[u]],
               !.S = IF rs.Type = "SORTED_SET" THEN SDelete(@, id) ELSE @]
Deleted(rs, id) ==
    [rs EXCEPT !.M = [u \in DOMAIN rs.M \ {id} |-> rs.M[u]],
               !.S = IF rs.Type = "SORTED_SET" THEN SDelete(@, id) ELSE @,
               !.R = IF rs.Type = "RBTREE" THEN RDelete(@, id, Score(rs, id))
                     ELSE @]

\* The set as Delete finds it, converted when it has become small.
Shrunk(rs) ==
    IF rs.Type = "RBTREE" /\ Count(rs) < LOWER_THRESHOLD THEN toggle(rs) ELSE {rs}

\* The tree's Delete takes the node of the user: there is none for a user that
\* is not ranked, and the process panics.
Panics(rs, id) == rs.Type = "RBTREE" /\ ~Located(rs.R, id, Score(rs, id))

\* r.R.GetList and r.S.GetList of the ranks 1 to n.
TreePairs(r) ==
    [k \in 1 .. Cardinality(Slots(r)) |->
        LET at == CHOOSE p \in Slots(r) : Place(r, p) = k
        IN  Pair(r[at[1]][at[2]], at[1])]
GetList(rs) == IF rs.Type = "SORTED_SET" THEN rs.S ELSE TreePairs(rs.R)

Rank(rs, id) ==
    IF rs.Type = "SORTED_SET" THEN SLocate(rs.S, id)
    ELSE RLocate(rs.R, id, Score(rs, id))

\* The dump holds M alone.
Scored      == UNION {[D -> Scores] : D \in SUBSET Users}
Marshal(rs) == rs.M
Unmarshal(m) ==
    IF Cardinality(DOMAIN m) > UPPER_THRESHOLD
    THEN {[NewRankSet EXCEPT !.M = m, !.R = r, !.Type = "RBTREE"] : r \in Treed(m)}
    ELSE {[NewRankSet EXCEPT !.M = m, !.S = s] : s \in Listed(m)}
=============================================================================
