-------------------------------- MODULE MCSites --------------------------------
(* The values of Sites for TLC. *)
EXTENDS Sites

(* Two messages of one subject, the first of which the database refuses;    *)
(* the second has only HTML, and a third one is attached to the first.      *)
SomeSubjects    == [m \in Message |-> IF m = "m3" THEN "rejection" ELSE "invitation"]
SomePlain       == [m \in Message |-> CASE m = "m1" -> "plain 1" [] m = "m2" -> "" [] OTHER -> "plain 3"]
SomeHtml        == [m \in Message |-> IF m = "m2" THEN "html 2" ELSE ""]
SomeAttachments == [m \in Message |-> IF m = "m1" THEN <<"m3">> ELSE <<>>]
File(messages, unsafe) == [messages |-> messages, unsafe |-> unsafe]
SomeUploads == {<<File(<<"m1">>, {})>>, <<File(<<"m2", "m3">>, {"m3"}), File(<<"m3">>, {})>>}

(* Two pieces of evidence of one resume.                                    *)
OneResume == [e \in Evidence |-> "cv"]
===============================================================================
