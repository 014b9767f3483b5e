------------------------------ MODULE SubmitOnce ------------------------------
(***************************************************************************)
(* What the submission ledger promises about one application: it is sent   *)
(* at most once by the program, only while an attempt is on the books, and *)
(* the books are cleared for another attempt only if nothing was sent.     *)
(***************************************************************************)
EXTENDS Naturals

VARIABLES
  book,  \* "clear": may be attempted, "open": outcome unsettled, "closed": known as submitted
  sent   \* submissions by the program that the site accepted

Init == book = "clear" /\ sent = 0

Open  == book = "clear" /\ book' = "open" /\ UNCHANGED sent
Send  == book = "open" /\ sent = 0 /\ sent' = 1 /\ UNCHANGED book
Clear == book = "open" /\ sent = 0 /\ book' = "clear" /\ UNCHANGED sent
Close == book # "closed" /\ book' = "closed" /\ UNCHANGED sent

Next == Open \/ Send \/ Clear \/ Close

Spec == Init /\ [][Next]_<<book, sent>>
===============================================================================
