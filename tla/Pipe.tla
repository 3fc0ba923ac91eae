-------------------------------- MODULE Pipe ---------------------------------
(***************************************************************************)
(* One direction of each proxied SOCKS stream, as its two ends see it: the *)
(* reader gets the writer's units in order, none lost, none repeated, none *)
(* of another stream; it is told the writer has finished only after the    *)
(* last unit; and a pipe that cannot keep this promise is cut, after which *)
(* nothing more comes out of it.                                           *)
(***************************************************************************)
EXTENDS Naturals, Sequences

CONSTANT Ids

VARIABLES
    written,    \* how many units the writer has put in, per stream
    finished,   \* the writer has finished, per stream
    read,       \* the units the reader has got, per stream
    outcome     \* what the reader knows of the end: "open", "fin" or "cut"

vars == <<written, finished, read, outcome>>

Init ==
    /\ written = [i \in Ids |-> 0] /\ finished = [i \in Ids |-> FALSE]
    /\ read = [i \in Ids |-> <<>>] /\ outcome = [i \in Ids |-> "open"]

Write(i) ==
    /\ ~finished[i]
    /\ written' = [written EXCEPT ![i] = @ + 1]
    /\ UNCHANGED <<finished, read, outcome>>

Finish(i) ==
    /\ finished' = [finished EXCEPT ![i] = TRUE]
    /\ UNCHANGED <<written, read, outcome>>

Read(i) ==
    /\ outcome[i] = "open" /\ Len(read[i]) < written[i]
    /\ read' = [read EXCEPT ![i] = Append(@, <<i, Len(@) + 1>>)]
    /\ UNCHANGED <<written, finished, outcome>>

SeeEnd(i) ==
    /\ outcome[i] = "open" /\ finished[i] /\ Len(read[i]) = written[i]
    /\ outcome' = [outcome EXCEPT ![i] = "fin"]
    /\ UNCHANGED <<written, finished, read>>

Cut(S) ==
    /\ outcome' = [i \in Ids |-> IF i \in S /\ outcome[i] = "open" THEN "cut" ELSE outcome[i]]
    /\ UNCHANGED <<written, finished, read>>

Next ==
    \/ \E i \in Ids : Write(i) \/ Finish(i) \/ Read(i) \/ SeeEnd(i)
    \/ \E S \in SUBSET Ids : Cut(S)

Spec == Init /\ [][Next]_vars

=============================================================================
