------------------------------- MODULE TapHub --------------------------------
(***************************************************************************)
(* What the TAP mode of the node promises, without sockets, descriptors or *)
(* a select() loop: an Ethernet hub with a port to the local network       *)
(* ("lan"), a port to NTAP-A ("ctl") and a port for each admitted direct   *)
(* client.  A frame goes to every other port, except that a client's frame *)
(* is never passed on to NTAP-A.  A copy for a client may be lost only     *)
(* together with the client: it is detached in the same step.              *)
(***************************************************************************)
EXTENDS Naturals, FiniteSets

CONSTANTS Callers, Valid, MaxClients

VARIABLES up, attached, relay

vars == <<up, attached, relay>>

Quiet == [from |-> "none", to |-> {}]

Reach(from, ports) ==
    CASE from = "lan" -> {"ctl"} \cup ports
      [] from = "ctl" -> {"lan"} \cup ports
      [] OTHER -> {"lan"} \cup (ports \ {from})

Init == ~up /\ attached = {} /\ relay = Quiet

Relay ==
    /\ up /\ UNCHANGED up
    /\ \E from \in {"lan", "ctl"} \cup attached, lost \in SUBSET attached :
         /\ from \notin lost
         /\ attached' = attached \ lost
         /\ relay' = [from |-> from, to |-> Reach(from, attached \ lost)]

Attach ==
    /\ up /\ UNCHANGED up /\ Cardinality(attached) < MaxClients
    /\ \E c \in Valid \ attached : attached' = attached \cup {c}
    /\ relay' = Quiet

Detach ==
    /\ up /\ UNCHANGED up
    /\ \E c \in attached : attached' = attached \ {c}
    /\ relay' = Quiet

Start == ~up /\ up' /\ UNCHANGED <<attached, relay>>
Stop == ~up' /\ attached' = {} /\ relay' = Quiet
Silent == relay' = Quiet /\ UNCHANGED <<up, attached>>

Next == Relay \/ Attach \/ Detach \/ Start \/ Stop \/ Silent

Spec == Init /\ [][Next]_vars

=============================================================================
