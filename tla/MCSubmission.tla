----------------------------- MODULE MCSubmission -----------------------------
(* Instances of Submission for TLC.                                         *)
EXTENDS Submission, TLC

ByHand == {"submitted", "interview", "withdrawn", "needs_review", "awaiting_review"}
Nobody == {}
OnlyManual == {"manual"}
OnlyStale == {"stale"}
RowSymmetry == Permutations(Row)
===============================================================================
