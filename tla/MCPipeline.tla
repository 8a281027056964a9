---------------------------- MODULE MCPipeline ----------------------------
(* Instances of Pipeline for TLC: two or three books, two or three terms.  *)
EXTENDS Pipeline

\* Book 2 has only terms of book 1; book 3 brings a new one.
TermsOf3 == [b \in Books |-> CASE b = 1 -> {"seal", "sea"}
                               [] b = 2 -> {"seal"}
                               [] OTHER -> {"sea", "island"} \cap Terms]

\* A "seal" cut short reads as "sea", which is no term of book 2.
CutWords3 == [b \in Books |-> {w \in {"sea"} : "seal" \in TermsOf3[b]}]

\* The online list; a book may be listed twice.
OneList == [m \in Modes |-> <<1, 2, 1, 3>>]

\* The sample has two of the books, in another order.
TwoOrders == [m \in Modes |-> IF m = "online" THEN <<1, 2, 3>> ELSE <<2, 1>>]

AllBooks == [m \in Modes |-> Books]

OneFolder  == [l \in Layouts |-> {l}]
HourFolders == [l \in Layouts |-> IF l = "time" THEN {"hour1", "hour2"} ELSE {l}]
=============================================================================
