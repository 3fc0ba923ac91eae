---------------------------- MODULE MCNodeSession ----------------------------
(* Small instances of NodeSession for TLC.                                   *)
EXTENDS NodeSession

\* Everything "run" can be asked for, with limits up to 2.
Everything ==
    {o \in [once : BOOLEAN, tap : BOOLEAN, attempts : 0 .. 2, sessions : 0 .. 2] :
        ~(o.once /\ o.tap)}

\* The service: no limits.
Unlimited == {o \in Everything : ~o.once /\ o.attempts = 0 /\ o.sessions = 0}

=============================================================================
