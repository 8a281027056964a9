--------------------------- MODULE BookLifecycle ---------------------------
(***************************************************************************)
(* What the control layer promises for one list of books: they are taken   *)
(* in the order of the list, each is first downloaded and then indexed,    *)
(* and nothing done is done again or undone, whatever happens to the runs  *)
(* that do it.                                                             *)
(***************************************************************************)
EXTENDS Integers, Sequences

CONSTANTS
    List    \* the candidate ids, in the order of the file

VARIABLES
    downloaded,  \* the ids marked downloaded
    indexed      \* the ids marked indexed

vars == <<downloaded, indexed>>

First(n) == {List[i] : i \in 1 .. n}

Init == downloaded = {} /\ indexed = {}

\* The next book of the list is downloaded, once all before it are indexed.
Download ==
    /\ indexed = downloaded
    /\ \E i \in DOMAIN List :
          /\ downloaded = First(i - 1)
          /\ List[i] \notin downloaded
          /\ downloaded' = downloaded \cup {List[i]}
    /\ UNCHANGED indexed

\* The book that waits is indexed.
Index ==
    /\ indexed # downloaded
    /\ indexed' = downloaded
    /\ UNCHANGED downloaded

Next == Download \/ Index

Spec == Init /\ [][Next]_vars
=============================================================================
