-------------------------- MODULE MCPythonPipeline --------------------------
(* An instance of PythonPipeline for TLC: book 3 has no markers and comes   *)
(* first, book 1 is named twice, book 2 has only terms of book 1.           *)
EXTENDS PythonPipeline

TermsOf3 == [b \in Books |-> CASE b = 1 -> {"sea", "whale"} [] b = 2 -> {"sea"} [] OTHER -> {}]

ListWithRepetition == <<3, 1, 1, 2>>

AllBooks == [s \in Sources |-> Books]
=============================================================================
