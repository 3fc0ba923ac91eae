---------------------------- MODULE MCControlLoop ----------------------------
(* Small instances of ControlLoop for TLC.                                   *)
EXTENDS ControlLoop, TLC

Symmetry == Permutations(Ids)

NoDescriptor == -1

\* "run" without test flags: a service, PINGs are not counted.
Service == {[pings |-> 0, frames |-> 0, each |-> FALSE, expect |-> FALSE]}

\* Every combination of the link-test flags main.c lets through.
LinkTests ==
    {o \in [pings : 0 .. 2, frames : 0 .. 2, each : BOOLEAN, expect : BOOLEAN] :
        o.each => o.frames > 0}

=============================================================================
