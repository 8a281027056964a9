------------------------------ MODULE MCSearch ------------------------------
(* Instances of Search for TLC.                                            *)
EXTENDS Search

\* Every book has the first term, so that its list may hold all of them.
TermsOf2 == [b \in Books |-> IF b = 2 THEN Terms ELSE {"sea"}]

\* The lower id is in both lists.
TermsOf1 == [b \in Books |-> IF b = 1 THEN Terms ELSE {"sea"}]

Alone(s, L) == [structure |-> s, writers |-> {L}]
Shared(W) == [structure |-> "mongo", writers |-> W]

AllSettings == {Alone("monolithic", "cpp"), Alone("monolithic", "python"),
                Alone("hierarchical", "cpp"), Alone("hierarchical", "java"),
                Shared({"cpp"}), Shared({"java", "python"}), Shared({"cpp", "java"})}

JavaCollection == {Shared({"java"})}
=============================================================================
