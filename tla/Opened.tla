-------------------------------- MODULE Opened --------------------------------
(***************************************************************************)
(* What the calls that open something promise their caller: a call either  *)
(* fails and the descriptor table is as it was before, or succeeds and     *)
(* holds exactly one descriptor more, the lowest that was free.  The other *)
(* modules take these calls as one step because of this.                   *)
(***************************************************************************)
EXTENDS Integers

CONSTANTS Fds, NoFd, Things

VARIABLES
    table,  \* descriptor -> what it denotes, "none" when closed
    held    \* what has been opened -> its descriptor, NoFd when it has not

Free == {f \in Fds : table[f] = "none"}

Init == table = [f \in Fds |-> "none"] /\ held = [x \in Things |-> NoFd]

Open(x) ==
    /\ held[x] = NoFd
    /\ \E f \in Free :
         /\ \A g \in Free : f <= g
         /\ table' = [table EXCEPT ![f] = x] /\ held' = [held EXCEPT ![x] = f]

\* Any of what is held is closed, and nothing else.
Release(things) ==
    /\ table' = [f \in Fds |-> IF table[f] \in things THEN "none" ELSE table[f]]
    /\ held' = [x \in Things |-> IF x \in things THEN NoFd ELSE held[x]]

Next == (\E x \in Things : Open(x)) \/ (\E things \in SUBSET Things : Release(things))

Spec == Init /\ [][Next]_<<table, held>>

=============================================================================
