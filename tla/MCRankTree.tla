----------------------------- MODULE MCRankTree -----------------------------
EXTENDS RankTree

\* One id for each of the scores 1 to 8, a second one for one of them.
MCEntries == {<<s, s>> : s \in 1 .. 8} \cup {<<5, 50>>}
=============================================================================
