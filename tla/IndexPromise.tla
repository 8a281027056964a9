---------------------------- MODULE IndexPromise ----------------------------
(***************************************************************************)
(* What the index structures promise to whoever searches them, whatever    *)
(* runs write them and are interrupted: a posting shows up only when it is *)
(* true and its book is known, no posting ever goes away, and a book       *)
(* counts as done in a structure only once it is found there under each of *)
(* its terms.                                                              *)
(***************************************************************************)
CONSTANTS
    Books,      \* the book ids
    Terms,      \* the terms of all books
    TermsOf,    \* [Books -> SUBSET Terms]
    Structures  \* the index structures of one data folder

VARIABLES
    known,      \* the books with a metadata row
    visible,    \* [Structures -> [Terms -> SUBSET Books]]: posting lists
    done        \* the <<structure, book>> reported as indexed

vars == <<known, visible, done>>

Findable(s, b) == \A t \in TermsOf[b] : b \in visible[s][t]

Init ==
    /\ known = {} /\ done = {}
    /\ visible = [s \in Structures |-> [t \in Terms |-> {}]]

Learn == \E b \in Books : known' = known \cup {b} /\ UNCHANGED <<visible, done>>

\* Any number of true postings at once.
Reveal ==
    /\ visible' \in [Structures -> [Terms -> SUBSET known]]
    /\ \A s \in Structures, t \in Terms :
          /\ visible[s][t] \subseteq visible'[s][t]
          /\ \A b \in visible'[s][t] : t \in TermsOf[b]
    /\ UNCHANGED <<known, done>>

\* One mark may speak for several structures.
Finish == \E S \in SUBSET Structures, b \in known :
    /\ \A s \in S : Findable(s, b)
    /\ done' = done \cup (S \X {b})
    /\ UNCHANGED <<known, visible>>

Next == Learn \/ Reveal \/ Finish

Spec == Init /\ [][Next]_vars
=============================================================================
