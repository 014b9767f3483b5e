------------------------------ MODULE MCEnrichment ------------------------------
(* The values of Enrichment for TLC. *)
EXTENDS Enrichment

AnyUpset  == {"clear", "early", "crash"}
\* One hit of each source; a direct search enriches three at a time, a plain one one.
OneHit    == [s \in Site |-> 1]
Semaphore == [d \in BOOLEAN |-> IF d THEN 3 ELSE 1]
===============================================================================
