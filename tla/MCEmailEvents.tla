---------------------------- MODULE MCEmailEvents ----------------------------
(* Instances of EmailEvents for TLC.                                        *)
EXTENDS EmailEvents, TLC

InReview == {"awaiting_review"}
Replies == {"approved", "interview"}
Corrections == {"submitted", "withdrawn"}
MailSymmetry == Permutations(Application) \cup Permutations(Email)
===============================================================================
