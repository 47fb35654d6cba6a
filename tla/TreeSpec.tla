------------------------------ MODULE TreeSpec ------------------------------
(* What RankSet takes its tree to be: for each score the ids of that score,  *)
(* in the order they were added, each id at most once.                       *)
EXTENDS RankSet

VARIABLE r

Init == r = NoTree

Inserted(old, new, id, score) ==
    /\ \A x \in Scores : ~Located(old, id, x)
    /\ new = RInsert(old, id, score)
Removed(old, new, id, score) ==
    /\ Located(old, id, score)
    /\ new = RDelete(old, id, score)

\* old and new name the values of r: TLC computes what refines r once a step.
Next == \E old \in {r}, new \in {r'}, id \in Users, score \in Scores :
            Inserted(old, new, id, score) \/ Removed(old, new, id, score)

Spec == Init /\ [][Next]_r
=============================================================================
