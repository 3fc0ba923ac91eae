------------------------------- MODULE Framing -------------------------------
(***************************************************************************)
(* ntap_send_msg and ntap_recv_msg (src/common/net.c, proto.c) over one    *)
(* TCP connection: a header of fixed size that carries type and length,    *)
(* then the payload, written and read with send() and recv() calls that    *)
(* move as many bytes as the kernel cares to.                              *)
(*                                                                         *)
(* The modules above this one see a connection as a queue of messages      *)
(* (Sockets).  Here it is a queue of bytes, each known by the message it   *)
(* belongs to and its place in it; AsSockets says that the one is a        *)
(* faithful picture of the other.                                          *)
(*                                                                         *)
(* Sizes are constants: a small instance keeps their order, not their      *)
(* values.  Frames follow the MTU CONFIG_PUSH set, as run_tap_loop sends   *)
(* them; the receiver's limit is ntap_payload_length_allowed as            *)
(* ntap_recv_msg calls it.  Definitions marked [slip] are plausible        *)
(* mistakes and no part of the model.                                      *)
(***************************************************************************)
EXTENDS Integers, FiniteSets, Sockets

CONSTANTS
    HdrSize,        \* NTAP_HDR_SIZE
    MinMtu, MaxMtu, DefaultMtu,     \* NTAP_MIN_MTU, _MAX_MTU, _DEFAULT_MTU
    PayloadExtra,   \* NTAP_TAP_PAYLOAD_EXTRA
    FrameExtra,     \* the 18 bytes run_tap_loop allows beyond the MTU
    Overhead,       \* NTAP_TAP_FRAME_OVERHEAD
    MinFrame,       \* the 14 bytes of an Ethernet header
    PlainMax,       \* the limit of the other types
    Mtus,           \* MTUs CONFIG_PUSH may carry
    MaxMessages,    \* bound: messages sent
    Window          \* bound: bytes the two socket buffers hold

ASSUME FramingAssumption ==
    /\ HdrSize \in Nat \ {0} /\ Window \in Nat \ {0} /\ MaxMessages \in Nat
    /\ {MinMtu, MaxMtu, DefaultMtu, PayloadExtra, FrameExtra, Overhead, MinFrame, PlainMax}
          \subseteq Nat
    /\ MinMtu <= DefaultMtu /\ DefaultMtu <= MaxMtu
    /\ Mtus \subseteq MinMtu .. MaxMtu

VARIABLES
    mtu,      \* tap_mtu of the session
    said,     \* messages ntap_send_msg was called with, the last one in progress
    off,      \* how many bytes of the last message have been sent
    wire,     \* bytes sent and not received
    life,     \* "up" until the sender is gone
    buf,      \* bytes of the current message that ntap_recv_msg has
    got,      \* messages ntap_recv_msg has returned
    outcome   \* "open", or how it failed: "refused" or "closed"

vars == <<mtu, said, off, wire, life, buf, got, outcome>>

Message(type, len) == [type |-> type, len |-> len]
Size(m) == HdrSize + m.len

\* Bytes of the last message ntap_send_msg has not sent.
Left == IF said = <<>> THEN 0 ELSE Size(said[Len(said)]) - off

\* send_tap_payload for a frame of run_tap_loop, and anything else.
Sendable ==
    {Message("tap", Overhead + n) : n \in MinFrame .. mtu + FrameExtra}
      \cup {Message("plain", n) : n \in 0 .. PlainMax}

\* ntap_payload_length_allowed
AllowedFor(m, limit) ==
    LET effective == IF limit \in MinMtu .. MaxMtu THEN limit ELSE DefaultMtu
    IN m.len <= IF m.type = "tap" THEN effective + PayloadExtra ELSE PlainMax

\* The call in ntap_recv_msg.
Allowed(m) == AllowedFor(m, DefaultMtu)

Init ==
    /\ mtu \in Mtus
    /\ said = <<>> /\ off = 0 /\ wire = <<>> /\ life = "up"
    /\ buf = <<>> /\ got = <<>> /\ outcome = "open"

-----------------------------------------------------------------------------
(* The sender *)

SendMessage ==
    /\ life = "up" /\ Left = 0 /\ Len(said) < MaxMessages
    /\ \E m \in Sendable : said' = Append(said, m)
    /\ off' = 0
    /\ UNCHANGED <<mtu, wire, life, buf, got, outcome>>

\* [slip] What send() did not take of the message is given up.
Sent_is_all(n) == off + Left

\* ntap_send_all goes on after the n bytes send() took.
Sent(n) == off + n

\* One send() of ntap_send_all takes n bytes.
SendBytes ==
    /\ life = "up"
    /\ \E n \in 1 .. Left :
         /\ Len(wire) + n <= Window
         /\ wire' = wire \o [j \in 1 .. n |-> <<Len(said), off + j>>]
         /\ off' = Sent(n)
    /\ UNCHANGED <<mtu, said, life, buf, got, outcome>>

\* The sender closes or dies, between two messages or in the middle of one.
Hangup ==
    /\ life = "up" /\ life' = "eof"
    /\ UNCHANGED <<mtu, said, off, wire, buf, got, outcome>>

-----------------------------------------------------------------------------
(* The receiver *)

\* The bytes are those of message k from its first one on.
PartOf(bytes, k) == \A j \in DOMAIN bytes : bytes[j] = <<k, j>>

\* ntap_hdr_decode, once the header is there: the message it announces, none
\* for bytes that are not a header (bad magic).
Announced(bytes) ==
    IF Len(bytes) < HdrSize THEN {}
    ELSE {said[k] : k \in {i \in DOMAIN said : PartOf(SubSeq(bytes, 1, HdrSize), i)}}

\* What ntap_recv_all still asks for: the rest of the header or of the payload.
Missing ==
    IF Len(buf) < HdrSize THEN HdrSize - Len(buf)
    ELSE LET m == CHOOSE x \in Announced(buf) : TRUE IN Size(m) - Len(buf)

\* [slip] recv() is made to return all that is asked for or nothing.
Reads_all_or_nothing(missing) == IF Len(wire) >= missing THEN {missing} ELSE {}

\* What one recv() may return.
Reads(missing) == {n \in 1 .. missing : n <= Len(wire)}

\* One recv() of ntap_recv_all, and what ntap_recv_msg makes of the bytes it
\* now has: go on reading, give up, or return the message.
RecvBytes ==
    /\ outcome = "open"
    /\ \E n \in Reads(Missing) :
         LET bytes == buf \o SubSeq(wire, 1, n)
         IN /\ wire' = SubSeq(wire, n + 1, Len(wire))
            /\ \/ /\ \/ Len(bytes) < HdrSize
                     \/ \E m \in Announced(bytes) : Allowed(m) /\ Len(bytes) < Size(m)
                  /\ buf' = bytes /\ UNCHANGED <<got, outcome>>
               \/ /\ Len(bytes) >= HdrSize /\ \A m \in Announced(bytes) : ~Allowed(m)
                  /\ buf' = bytes /\ outcome' = "refused" /\ UNCHANGED got
               \/ \E m \in Announced(bytes) :
                    /\ Allowed(m) /\ Len(bytes) = Size(m)
                    /\ got' = Append(got, IF \E k \in DOMAIN said : PartOf(bytes, k)
                                          THEN m ELSE Message("garbled", 0))
                    /\ buf' = <<>> /\ UNCHANGED outcome
    /\ UNCHANGED <<mtu, said, off, life>>

\* [slip] The peer's end is noticed before the bytes it sent are read.
RecvEnd_before_bytes ==
    /\ outcome = "open" /\ life = "eof"
    /\ outcome' = "closed"
    /\ UNCHANGED <<mtu, said, off, wire, life, buf, got>>

\* recv() returns 0.
RecvEnd ==
    /\ outcome = "open" /\ wire = <<>> /\ life = "eof"
    /\ outcome' = "closed"
    /\ UNCHANGED <<mtu, said, off, wire, life, buf, got>>

-----------------------------------------------------------------------------
Next == SendMessage \/ SendBytes \/ Hangup \/ RecvBytes \/ RecvEnd

Spec == Init /\ [][Next]_vars

\* TCP moves bytes and the receiver reads them; a sender that began a message
\* goes on with it unless it hangs up.
FairSpec == Spec /\ WF_vars(SendBytes) /\ WF_vars(RecvBytes) /\ WF_vars(RecvEnd)

-----------------------------------------------------------------------------
(* Properties *)

\* The variables keep to their types, and neither side ever holds more of a
\* message than there is: no loop runs past the end of its buffer.
TypeOK ==
    /\ mtu \in Mtus /\ life \in {"up", "eof"} /\ outcome \in {"open", "refused", "closed"}
    /\ Left >= 0 /\ off >= 0
    /\ Len(wire) <= Window
    /\ outcome = "open" => Missing > 0

\* The two ends agree on where messages begin: what has been received is the
\* beginning of what was sent, message for message, however the bytes were cut
\* up, and a receive fails only for an end of the stream or for its length.
MessagesSurvive ==
    /\ Len(got) <= Len(said) /\ \A k \in DOMAIN got : got[k] = said[k]
    /\ outcome = "refused" => Len(got) < Len(said) /\ ~Allowed(said[Len(got) + 1])
    /\ outcome = "closed" => life = "eof"

\* The message-level view of the connection: a message is in the queue when
\* the byte that decides about it is there, its last one or, when its length
\* is refused, the last one of its header.
Deciding(k) == IF Allowed(said[k]) THEN Size(said[k]) ELSE HdrSize
Decides(k) == <<k, Deciding(k)>>
Here == buf \o wire
Arrived(k) ==
    /\ \E j \in DOMAIN Here : Here[j] = Decides(k)
    /\ \A i \in Len(got) + 1 .. k - 1 : Allowed(said[i])
Queued == {j \in 1 .. Len(said) - Len(got) : Arrived(Len(got) + j)}
AsConnection ==
    [in |-> [j \in Queued |-> said[Len(got) + j]],
     part |-> /\ life = "up" /\ Here # <<>>
              /\ \A k \in DOMAIN said : Here[Len(Here)] # Decides(k)
              /\ \A j \in Queued : Allowed(said[Len(got) + j]),
     life |-> life, stall |-> FALSE]

\* Every step of the byte stream is a step Sockets describes, or none at all:
\* a message arrives, begins, or is taken, or the peer ends; and ntap_recv_msg
\* returns the oldest message of the queue.
AsSockets ==
    [][ \/ AsConnection' = AsConnection /\ UNCHANGED <<got, outcome>>
        \/ AsConnection' \in Arrivals(AsConnection, Sendable, MaxMessages)
        \/ AsConnection' \in Fragments(AsConnection, MaxMessages)
        \/ AsConnection' \in Endings(AsConnection)
        \/ /\ AsConnection.in # <<>> /\ AsConnection' = Taken(AsConnection)
           /\ got' = Append(got, Head(AsConnection.in))
        \/ /\ outcome' # "open"
           /\ RecvFails(AsConnection) \/ ~Allowed(Head(AsConnection.in)) ]_vars

\* A message the sender has begun comes out of ntap_recv_msg, unless one before
\* it or it itself is refused or the sender hangs up; and once its every byte was
\* sent, the sender's hanging up does not keep it back.  Neither end waits for
\* the other for ever, though a message may be larger than what the kernel holds.
Delivered ==
    \A k \in 1 .. MaxMessages :
        /\ Len(said) >= k ~> (Len(got) >= k \/ outcome # "open")
        /\ (Len(said) > k \/ (Len(said) = k /\ Left = 0))
                ~> (Len(got) >= k \/ outcome = "refused")

\* README.md:3 has the node join the network "according to configuration
\* delivered by NTAP-A", which sets the MTU: frames of that MTU get through.
FramesOfTheMtuPass ==
    outcome = "refused" => ~AllowedFor(said[Len(got) + 1], mtu)

=============================================================================
