-------------------------------- MODULE Status --------------------------------
(***************************************************************************)
(* `status` of the C++ program beside the pipeline of another process: it  *)
(* loads the two control files one after the other, while marks are being  *)
(* appended to them, and prints the books that are downloaded and not      *)
(* indexed.  It writes nothing.  One `status` runs at a time.              *)
(***************************************************************************)
EXTENDS Pipeline

VARIABLES
    loaded,  \* how many of the two files are loaded; 0 between two commands
    seen     \* the ids in the file of each log, when it was loaded

statusVars == <<loaded, seen>>

Logs == {"downloaded", "indexed"}

IdsOf(log) == IF log = "downloaded" THEN downloadedLog ELSE indexedLog

\* Mutant of Order.
IndexedFirst == <<"indexed", "downloaded">>

\* The order of the two ControlLogs in run_status_command.
Order == <<"downloaded", "indexed">>

\* The set difference that is printed as "pending".
Pending == seen["downloaded"] \ seen["indexed"]

StatusInit == Init /\ loaded = 0 /\ seen = [log \in Logs |-> {}]

\* The constructor of the next ControlLog.
LoadLog ==
    /\ loaded < 2
    /\ loaded' = loaded + 1
    /\ seen' = [seen EXCEPT ![Order[loaded + 1]] = IdsOf(Order[loaded + 1])]
    /\ UNCHANGED vars

\* The lines are printed, and the process ends.
PrintStatus ==
    /\ loaded = 2
    /\ loaded' = 0
    /\ seen' = [log \in Logs |-> {}]
    /\ UNCHANGED vars

StatusNext ==
    \/ Next /\ UNCHANGED statusVars
    \/ LoadLog
    \/ PrintStatus

StatusSpec == StatusInit /\ [][StatusNext]_<<vars, statusVars>>

(* cli_commands.cpp:247: a book that `status` calls "downloaded, not        *)
(* indexed yet" was that when the second file was loaded, with its row and  *)
(* its whole body there, whatever the pipeline marked between the two       *)
(* loads: none is listed that was indexed by then.                          *)
PendingBooksWait ==
    [][loaded' = 2 => \A b \in Pending' :
          /\ b \in downloadedLog \ indexedLog
          /\ metadata[b] # None /\ body[<<metadata[b], b>>] = "whole"]_statusVars

(* What the second load may assume of the first.                            *)
StatusInv ==
    /\ loaded \in 0 .. 2
    /\ seen \in [Logs -> SUBSET Books]
    /\ seen["downloaded"] \subseteq downloadedLog
=============================================================================
