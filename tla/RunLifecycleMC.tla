--------------------------- MODULE RunLifecycleMC ---------------------------
(* Small instances of RunLifecycle for TLC.                                *)
EXTENDS RunLifecycle, TLC

CONSTANTS c1, c2, s1, w1, w2, k1, k2, q1, q2

OneSubject == [c \in Conversations |-> s1]
OneRun == {1}
TwoRuns == 1..2
ThreeTokens == 1..3
OneRetry == {1}
UpToOneRetry == {0, 1}

\* Runs are numbered and ordered; everything else a row names is symmetric.
TwoOrMore(S) == IF Cardinality(S) > 1 THEN Permutations(S) ELSE {}
Symmetry == TwoOrMore(Workers) \cup TwoOrMore(Keys)
              \cup TwoOrMore(RetryKeys) \cup TwoOrMore(Conversations)

=============================================================================
