------------------------------- MODULE Sockets -------------------------------
(***************************************************************************)
(* One TCP connection as the node's code sees it through common/net.c:     *)
(* blocking sockets, one NTAP message per ntap_send_msg / ntap_recv_msg.   *)
(* A connection is a record                                                *)
(*   in     the complete messages waiting in the receive buffer, oldest    *)
(*          first, each reduced to the kind the receiver branches on;      *)
(*   part   TRUE when the bytes behind them are the start of a message     *)
(*          whose rest has not arrived;                                    *)
(*   life   "up", "eof" (the peer has finished sending), "reset" (a reset  *)
(*          arrived and no call has reported it) or "broken" (it was       *)
(*          reported, or arrived after the peer had finished);             *)
(*   stall  TRUE when the peer is not reading and its window is full, so   *)
(*          that the blocking send() does not come back.                   *)
(* A message ntap_recv_msg refuses by itself (bad magic, version or type,  *)
(* or a length over the limit of its type) is a kind of its own to the     *)
(* receiver, which treats it like any other it does not expect.            *)
(*                                                                         *)
(* A message is written by one send() here.  Linux tells the first call on *)
(* a connection that was reset of the reset (ECONNRESET) and raises        *)
(* SIGPIPE in a send() after that; in a connection whose peer had finished *)
(* before the reset (CLOSE-WAIT) it raises SIGPIPE in the first.           *)
(***************************************************************************)
EXTENDS Naturals, Sequences

Connections(Kinds) ==
    [in : Seq(Kinds), part : BOOLEAN, life : {"up", "eof", "reset", "broken"},
     stall : BOOLEAN]

Fresh == [in |-> <<>>, part |-> FALSE, life |-> "up", stall |-> FALSE]

-----------------------------------------------------------------------------
(* What the code's calls see. *)

\* select() reports the descriptor: bytes, an end of file or an error wait.
Readable(c) == c.in # <<>> \/ c.part \/ c.life # "up"

\* ntap_recv_msg comes back, with a message or with an error; otherwise its
\* blocking recv() waits for the rest of the message.
RecvReturns(c) == c.in # <<>> \/ c.life # "up"

\* ntap_recv_msg returns -1, and recv() 0 or -1.
RecvFails(c) == c.in = <<>> /\ c.life # "up"

\* The connection after ntap_recv_msg returned its oldest message.
Taken(c) == [c EXCEPT !.in = Tail(@)]

\* ntap_send_msg does not come back: no timeout is set on the socket.
SendBlocked(c) == c.stall /\ c.life \in {"up", "eof"}

\* send() reports the reset: ntap_send_msg returns -1.
SendFails(c) == c.life = "reset"

\* send() raises SIGPIPE (no MSG_NOSIGNAL, no handler): the process is gone.
SendKills(c) == c.life = "broken"

\* Either way the message is not written.
Lost(c) == SendFails(c) \/ SendKills(c)

\* The connection after a call on it has failed.
Reported(c) == [c EXCEPT !.life = IF @ = "reset" THEN "broken" ELSE @]

-----------------------------------------------------------------------------
(* What the peer and the network do to a connection: each operator is the   *)
(* set of connections one step can lead to.  A buffer holds "max" messages. *)

Arrivals(c, kinds, max) ==
    IF c.life = "up" /\ Len(c.in) < max
    THEN {[c EXCEPT !.in = Append(@, k), !.part = FALSE] : k \in kinds} ELSE {}

Fragments(c, max) ==
    IF c.life = "up" /\ ~c.part /\ Len(c.in) < max
    THEN {[c EXCEPT !.part = TRUE]} ELSE {}

Endings(c) ==
    IF c.life = "up" THEN {[c EXCEPT !.life = "eof", !.part = FALSE]} ELSE {}

Resets(c) ==
    IF c.life \in {"up", "eof"}
    THEN {[c EXCEPT !.life = IF @ = "up" THEN "reset" ELSE "broken",
                    !.part = FALSE, !.stall = FALSE]} ELSE {}

\* A peer that has closed its end answers what it is sent with a reset.
Answers(c) == IF c.life = "eof" THEN Resets(c) ELSE {}

Stalls(c) ==
    IF ~c.stall /\ c.life \in {"up", "eof"} THEN {[c EXCEPT !.stall = TRUE]} ELSE {}

Resumes(c) == IF c.stall THEN {[c EXCEPT !.stall = FALSE]} ELSE {}

=============================================================================
