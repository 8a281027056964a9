-------------------------- MODULE MCJavaPipeline --------------------------
(* An instance of JavaPipeline for TLC: three books, of which one has no   *)
(* markers and stands first in the list.                                   *)
EXTENDS JavaPipeline

\* Book 2 has only terms of book 1.
TermsOf3 == [b \in Books |-> CASE b = 1 -> {"sea", "whale"} [] b = 2 -> {"sea"} [] OTHER -> {}]

ListsOf3 == [s \in Sources |-> IF s = "online" THEN <<3, 2, 1>> ELSE <<1, 2>>]

AllBooks == [s \in Sources |-> Books]
=============================================================================
