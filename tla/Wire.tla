--------------------------------- MODULE Wire ---------------------------------
(***************************************************************************)
(* The message payloads of src/common/wire.c: what the encoders write,     *)
(* with the growable buffer of buffer.c they write it into, and what the   *)
(* decoders take from the bytes that arrive.                               *)
(*                                                                         *)
(* A codec is a layout, the sequence of what the decoder does: it reads a  *)
(* big-endian number, a text with a length before it, a block of a fixed   *)
(* size or the rest, and in between it compares its place with the length  *)
(* of the payload.  The reads themselves check nothing but a text's own    *)
(* length, exactly as in the code: a layout with a check too few reads     *)
(* behind the payload.                                                     *)
(*                                                                         *)
(* A payload is encoded, travels, and is decoded.  It arrives as it was    *)
(* sent, or as another build might have sent it: cut short, one byte       *)
(* longer, or with another value in one byte.                              *)
(*                                                                         *)
(* A definition marked [slip] is no part of the model: it is a plausible   *)
(* mistake in the definition that follows it.                              *)
(***************************************************************************)
EXTENDS Integers, Sequences, SequencesExt

CONSTANTS
    Base,        \* values of a byte (256)
    Types,       \* the message types with a codec that are looked at
    Messages,    \* type -> the messages that are encoded
    TextSize,    \* text field -> size of its array in wire.h, its NUL included
    NonceSize,   \* NTAP_NONCE_SIZE
    SignSize,    \* NTAP_HMAC_SHA256_SIZE
    MinFrame,    \* the 14 bytes of an Ethernet header
    MinMtu, MaxMtu,
    MaxSocks,    \* NTAP_PAYLOAD_MAX_SOCKS
    RemoteClosed,\* NTAP_SOCKS_CLOSE_REASON_REMOTE_CLOSED
    Cap,         \* size of the caller's output array
    FirstCap,    \* first capacity of a growable buffer (256)
    SizeBits     \* bits of a size_t

Byte == 0 .. Base - 1
SizeMax == 2 ^ SizeBits - 1
LongestText == Base * Base - 1    \* 65535

\* The message types wire.c has a codec for.
MessageTypes ==
    {"HELLO", "AUTH_NODE", "AUTH_TAP", "AUTH_OK", "CONFIG_PUSH", "TAP_FRAME",
     "SOCKS_OPEN", "SOCKS_DATA", "SOCKS_CLOSE"}

ASSUME WireAssumption ==
    /\ Base \in Nat \ {0, 1}
    /\ \A n \in {NonceSize, SignSize, MinFrame, MinMtu, MaxMtu, MaxSocks, RemoteClosed, Cap} :
          n \in Nat
    /\ Types \subseteq MessageTypes
    /\ SizeBits \in Nat /\ FirstCap \in 1 .. SizeMax
    /\ SizeMax \in Nat /\ Cap < SizeMax

VARIABLES
    type, msg,   \* the message to send
    sent,        \* what the encoder gave: [ok, bytes, cap], or NotYet
    payload,     \* what arrives
    changed,     \* how it differs from what was sent
    got          \* what the decoder gave, or NotYet

vars == <<type, msg, sent, payload, changed, got>>
NotYet == [ok |-> FALSE, none |-> TRUE]

-----------------------------------------------------------------------------
(* The layouts *)

Num(name, size) == [do |-> "int", name |-> name, size |-> size]
Text(name) == [do |-> "text", name |-> name, size |-> TextSize[name]]
Block(name, size) == [do |-> "block", name |-> name, size |-> size]
Rest(name) == [do |-> "rest", name |-> name, size |-> 0]
Need(size) == [do |-> "need", name |-> "", size |-> size]      \* so much is left
Exactly(size) == [do |-> "exactly", name |-> "", size |-> size] \* and no more
MayEnd == [do |-> "end", name |-> "", size |-> 0]               \* may end here

Hello ==
    <<Need(1), Num("role", 1), Text("version_text"), Exactly(4 + NonceSize),
      Num("feature_bits", 4), Block("nonce", NonceSize)>>

AuthNode ==
    <<Text("node_id"), Exactly(NonceSize + SignSize),
      Block("client_nonce", NonceSize), Block("sign", SignSize)>>

AuthTap ==
    <<Text("username"), Text("password"), Exactly(4 + NonceSize),
      Num("network_id", 4), Block("client_nonce", NonceSize)>>

AuthOk ==
    <<Exactly(20), Num("session_id", 4), Num("network_id", 4),
      Num("server_time", 8), Num("feature_bits", 4)>>

ConfigPush ==
    <<Need(19), Num("config_version", 4), Num("network_id", 4),
      Num("tap_enabled", 1), Num("socks_enabled", 1), Num("direct_enabled", 1),
      Text("tap_name"), Text("bridge_name"), Need(8),
      Num("mtu", 2), Num("direct_port", 2), Num("flags", 4), MayEnd,
      Text("direct_mode"), Text("direct_addr"), Text("direct_token"), Exactly(0)>>

TapFrame == <<Need(6), Num("network_id", 4), Num("frame_len", 2), Rest("frame")>>

SocksOpen ==
    <<Need(8), Num("stream_id", 4), Text("host"), Exactly(2), Num("port", 2)>>

SocksData == <<Need(5), Num("stream_id", 4), Rest("data")>>

SocksClose ==
    <<Need(4), Num("stream_id", 4), MayEnd,
      Exactly(4), Num("reason_code", 2), Num("flags", 2)>>

Layout(t) ==
    CASE t = "HELLO" -> Hello
      [] t = "AUTH_NODE" -> AuthNode
      [] t = "AUTH_TAP" -> AuthTap
      [] t = "AUTH_OK" -> AuthOk
      [] t = "CONFIG_PUSH" -> ConfigPush
      [] t = "TAP_FRAME" -> TapFrame
      [] t = "SOCKS_OPEN" -> SocksOpen
      [] t = "SOCKS_DATA" -> SocksData
      [] t = "SOCKS_CLOSE" -> SocksClose

Fields(t) == {f \in ToSet(Layout(t)) : f.name # ""}
Names(t) == {f.name : f \in Fields(t)}
Texts(t) == {f \in Fields(t) : f.do = "text"}

UpToNul(s) ==
    LET nuls == {k \in DOMAIN s : s[k] = 0}
    IN IF nuls = {} THEN s ELSE SubSeq(s, 1, (CHOOSE k \in nuls : \A j \in nuls : k <= j) - 1)

-----------------------------------------------------------------------------
(* Encoding *)

\* A number without its last k bytes, for every k up to size: n >> 8k.
Shifted(n, size) ==
    LET s[k \in 0 .. size] == IF k = 0 THEN n ELSE s[k - 1] \div Base IN s

\* put_be16, put_be32 and put_be64: the number modulo its width.
Bytes(n, size) == [k \in 1 .. size |-> Shifted(n, size)[size - k] % Base]

\* A value of the type the encoders' parameter has for a field: a number of its
\* width, a string, a block of its size.
HasType(f, v) ==
    CASE f.do = "int" -> v \in Nat /\ Shifted(v, f.size)[f.size] = 0
      [] f.do = "text" -> v \in Seq(Byte \ {0})
      [] f.do = "block" -> v \in [1 .. f.size -> Byte]
      [] f.do = "rest" -> v \in Seq(Byte)

ASSUME MessagesAssumption ==
    \A t \in Types :
        /\ \A f \in Texts(t) : f.size \in Nat
        /\ \A m \in Messages[t] :
              /\ m = [n \in Names(t) |-> m[n]]
              /\ \A f \in Fields(t) : HasType(f, m[f.name])
              /\ t = "TAP_FRAME" => m.frame_len = Len(m.frame)

\* The capacity ntap_buffer_append asks for when "cap" is not enough.
Grown(cap, need) ==
    LET enough == {cap * 2 ^ k : k \in 0 .. SizeBits} \cap (need .. SizeMax)
    IN IF enough = {} THEN need ELSE CHOOSE c \in enough : \A d \in enough : c <= d

\* ntap_buffer_append; "ok" stays FALSE from the first failure on.
Appended(buf, piece) ==
    LET need == Len(buf.bytes) + Len(piece)
    IN IF ~buf.ok \/ piece = <<>> THEN buf
       ELSE IF need > SizeMax THEN [buf EXCEPT !.ok = FALSE]
       ELSE [buf EXCEPT !.bytes = @ \o piece,
                        !.cap = IF need <= @ THEN @
                                ELSE Grown(IF @ = 0 THEN FirstCap ELSE @, need)]

\* [slip] The length of a text counts its NUL, which is not sent.
FieldAppended_counts_nul(m, buf, f) ==
    IF f.name = "" THEN buf
    ELSE IF f.do = "int" THEN Appended(buf, Bytes(m[f.name], f.size))
    ELSE IF f.do # "text" THEN Appended(buf, m[f.name])
    ELSE IF Len(m[f.name]) > LongestText THEN [buf EXCEPT !.ok = FALSE]
    ELSE Appended(Appended(buf, Bytes(Len(m[f.name]) + 1, 2)), m[f.name])

\* One field behind the others; a text is its length (append_string), then itself.
FieldAppended(m, buf, f) ==
    IF f.name = "" THEN buf
    ELSE IF f.do = "int" THEN Appended(buf, Bytes(m[f.name], f.size))
    ELSE IF f.do # "text" THEN Appended(buf, m[f.name])
    ELSE IF Len(m[f.name]) > LongestText THEN [buf EXCEPT !.ok = FALSE]
    ELSE Appended(Appended(buf, Bytes(Len(m[f.name]), 2)), m[f.name])

\* What the encoders refuse of their arguments before they write anything.
Encodable(t, m) ==
    CASE t = "TAP_FRAME" -> Len(m.frame) >= MinFrame
      [] t = "SOCKS_OPEN" -> m.host # <<>> /\ m.port # 0
      [] t = "SOCKS_DATA" -> m.stream_id # 0 /\ Len(m.data) \in 1 .. MaxSocks - 4
      [] t = "SOCKS_CLOSE" -> m.stream_id # 0
      [] OTHER -> TRUE

\* The buffer after each item of the layout.
Encoding(t, m) ==
    LET at[k \in 0 .. Len(Layout(t))] ==
            IF k = 0 THEN [ok |-> TRUE, bytes |-> <<>>, cap |-> 0]
            ELSE FieldAppended(m, at[k - 1], Layout(t)[k])
    IN at

Encode(t, m) ==
    LET buf == Encoding(t, m)[Len(Layout(t))]
    IN [buf EXCEPT !.ok = @ /\ Encodable(t, m) /\ Len(buf.bytes) <= Cap
                            /\ (t = "SOCKS_OPEN" => Len(buf.bytes) <= MaxSocks)]

-----------------------------------------------------------------------------
(* Decoding *)

\* Memory behind the payload is there and holds something.
At(p, k) == IF k <= Len(p) THEN p[k] ELSE 0
Slice(p, pos, size) == [k \in 1 .. size |-> At(p, pos + k)]

\* [slip] The bytes are put together from the wrong end.
Number_reversed(bytes) ==
    LET n[k \in 0 .. Len(bytes)] ==
            IF k = 0 THEN 0 ELSE Base * n[k - 1] + bytes[Len(bytes) + 1 - k]
    IN n[Len(bytes)]

\* get_be16, get_be32, get_be64
Number(bytes) ==
    LET n[k \in 0 .. Len(bytes)] == IF k = 0 THEN 0 ELSE Base * n[k - 1] + bytes[k]
    IN n[Len(bytes)]

\* A decoder under way: its place, what it has filled in, whether it is at its
\* end and, as ghosts, whether it has written past the end of an array and
\* whether a text it read has a NUL inside.
Took(d, name, value, size) == [d EXCEPT !.msg[name] = value, !.pos = @ + size]

\* [slip] The NUL is forgotten when the text is compared with its array.
ReadText_without_nul(d, p, f) ==
    LET len == Number(Slice(p, d.pos, 2))
    IN IF d.pos + 2 > Len(p) \/ d.pos + 2 + len > Len(p) \/ len > f.size
       THEN [d EXCEPT !.ok = FALSE]
       ELSE [Took(d, f.name, UpToNul(Slice(p, d.pos + 2, len)), 2 + len)
                EXCEPT !.over = len + 1 > f.size,
                       !.nul = @ \/ 0 \in ToSet(Slice(p, d.pos + 2, len))]

\* read_string
ReadText(d, p, f) ==
    LET len == Number(Slice(p, d.pos, 2))
    IN IF d.pos + 2 > Len(p) \/ d.pos + 2 + len > Len(p) \/ len >= f.size
       THEN [d EXCEPT !.ok = FALSE]
       ELSE [Took(d, f.name, UpToNul(Slice(p, d.pos + 2, len)), 2 + len)
                EXCEPT !.over = len + 1 > f.size,
                       !.nul = @ \/ 0 \in ToSet(Slice(p, d.pos + 2, len))]

\* [slip] A check on the length only looks for too little.
Read_no_excess(p, d, f) ==
    LET left == Len(p) - d.pos
    IN IF ~d.ok \/ d.over \/ d.ended THEN d
       ELSE CASE f.do \in {"need", "exactly"} -> [d EXCEPT !.ok = left >= f.size]
              [] f.do = "end" -> [d EXCEPT !.ended = left = 0]
              [] f.do = "int" -> Took(d, f.name, Number(Slice(p, d.pos, f.size)), f.size)
              [] f.do = "block" -> Took(d, f.name, Slice(p, d.pos, f.size), f.size)
              [] f.do = "rest" -> Took(d, f.name, Slice(p, d.pos, left), left)
              [] f.do = "text" -> ReadText(d, p, f)

\* One item of a layout.
Read(p, d, f) ==
    LET left == Len(p) - d.pos
    IN IF ~d.ok \/ d.over \/ d.ended THEN d
       ELSE CASE f.do = "need" -> [d EXCEPT !.ok = left >= f.size]
              [] f.do = "exactly" -> [d EXCEPT !.ok = left = f.size]
              [] f.do = "end" -> [d EXCEPT !.ended = left = 0]
              [] f.do = "int" -> Took(d, f.name, Number(Slice(p, d.pos, f.size)), f.size)
              [] f.do = "block" -> Took(d, f.name, Slice(p, d.pos, f.size), f.size)
              [] f.do = "rest" -> Took(d, f.name, Slice(p, d.pos, left), left)
              [] f.do = "text" -> ReadText(d, p, f)

\* What a structure holds that the payload does not mention (memset, or the
\* reason a CLOSE without one stands for).
Default(t, f) ==
    IF f.name = "reason_code" THEN RemoteClosed ELSE IF f.do = "int" THEN 0 ELSE <<>>
Blank(t) == [n \in Names(t) |-> Default(t, CHOOSE f \in Fields(t) : f.name = n)]

\* What a decoder asks of the values it has read.
Acceptable(t, m) ==
    CASE t = "CONFIG_PUSH" -> m.network_id # 0 /\ m.mtu \in MinMtu .. MaxMtu
      [] t = "TAP_FRAME" -> m.frame_len >= MinFrame /\ Len(m.frame) = m.frame_len
      [] t = "SOCKS_OPEN" -> m.stream_id # 0 /\ m.host # <<>> /\ m.port # 0
      [] t = "SOCKS_DATA" -> m.stream_id # 0 /\ Len(m.data) + 4 <= MaxSocks
      [] t = "SOCKS_CLOSE" -> m.stream_id # 0
      [] OTHER -> TRUE

\* The decoder after each item of the layout.
Decoding(t, p) ==
    LET at[k \in 0 .. Len(Layout(t))] ==
            IF k = 0
            THEN [ok |-> TRUE, pos |-> 0, msg |-> Blank(t), ended |-> FALSE,
                  over |-> FALSE, nul |-> FALSE]
            ELSE Read(p, at[k - 1], Layout(t)[k])
    IN at

Decode(t, p) ==
    LET d == Decoding(t, p)[Len(Layout(t))]
    IN [d EXCEPT !.ok = @ /\ Acceptable(t, d.msg)]

\* [slip] The nonces are appended as if they were texts.
SignedBytes_as_texts(server, client, id) == UpToNul(server) \o UpToNul(client) \o id \o <<1>>

\* What ntap_auth_node_sign computes the HMAC of; 1 is NTAP_VERSION.
SignedBytes(server, client, id) == server \o client \o id \o <<1>>

-----------------------------------------------------------------------------
Init ==
    /\ type \in Types /\ msg \in Messages[type]
    /\ sent = NotYet /\ payload = <<>> /\ changed = "no" /\ got = NotYet

\* Where a text is among the fields the encoder works in a growable buffer, for
\* which there may be no memory; the others write into the caller's array.
Buffered(t) == Texts(t) # {}

Send ==
    /\ sent = NotYet
    /\ \/ sent' = Encode(type, msg)
       \/ Buffered(type) /\ sent' = [Encode(type, msg) EXCEPT !.ok = FALSE]
    /\ payload' = sent'.bytes
    /\ UNCHANGED <<type, msg, changed, got>>

CanArrive == sent # NotYet /\ sent.ok /\ got = NotYet

Cut ==
    /\ CanArrive /\ changed = "no" /\ changed' = "cut"
    /\ \E n \in 0 .. Len(payload) - 1 : payload' = SubSeq(payload, 1, n)
    /\ UNCHANGED <<type, msg, sent, got>>

Longer ==
    /\ CanArrive /\ changed = "no" /\ changed' = "longer"
    /\ \E b \in Byte : payload' = Append(payload, b)
    /\ UNCHANGED <<type, msg, sent, got>>

Other ==
    /\ CanArrive /\ changed = "no" /\ changed' = "other"
    /\ \E k \in DOMAIN payload, b \in Byte : b # payload[k] /\ payload' = [payload EXCEPT ![k] = b]
    /\ UNCHANGED <<type, msg, sent, got>>

Receive ==
    /\ CanArrive /\ got' = Decode(type, payload)
    /\ UNCHANGED <<type, msg, sent, payload, changed>>

Next == Send \/ Cut \/ Longer \/ Other \/ Receive

Spec == Init /\ [][Next]_vars

-----------------------------------------------------------------------------
(* Properties *)

Received == got # NotYet

\* The receiver's own limits on a message, which the encoders do not look at:
\* the sizes of its arrays, and the values it accepts.
WithinLimits(t, m) ==
    /\ \A f \in Texts(t) : Len(m[f.name]) < TextSize[f.name]
    /\ Acceptable(t, m)

\* What arrives as it was sent is decoded to the message it was encoded from,
\* exactly when the message keeps to the receiver's limits.
RoundTrip ==
    Received /\ changed = "no" =>
        /\ got.ok <=> WithinLimits(type, msg)
        /\ got.ok => got.msg = msg

\* A growing buffer never holds more than its capacity: the copy behind the
\* realloc() of ntap_buffer_append stays inside, whatever the pieces' sizes.
BufferHolds == sent # NotYet /\ Buffered(type) => Len(sent.bytes) <= sent.cap

\* Neither end leaves its memory: the encoder writes inside its buffer however
\* that has grown, and no decoder reads behind the payload or writes past the end
\* of an array of its structure, the NUL included, whether an encoding arrives as
\* it was sent or cut anywhere, longer, or with any one byte changed.
StaysInside ==
    /\ BufferHolds
    /\ Received => got.pos <= Len(payload) /\ ~got.over

\* The forms two builds may tell differently: a CONFIG_PUSH without the direct
\* texts and a CLOSE without a reason.
ShortForm == got.ended /\ got.pos = Len(payload)

\* A payload that lost its end, or has a byte too many, is refused: no decoder
\* makes a message of half of one, the short forms apart, and data, which has
\* no length of its own.
OnlyWholeMessages ==
    (Received /\ changed \in {"cut", "longer"} /\ got.ok) =>
        ShortForm \/ type = "SOCKS_DATA"

\* A decoder accounts for every byte it accepts: encoding what it read gives
\* back the payload, unless a text ended early at a NUL or the form is a short
\* one.
EveryByteCounts ==
    (Received /\ got.ok /\ ~ShortForm) =>
        \/ got.nul
        \/ Encode(type, got.msg).bytes = payload

\* The signature of AUTH_NODE binds both nonces and the node id: no two
\* different triples sign the same bytes.
Signed == [id : {m.node_id : m \in Messages["AUTH_NODE"]}, nonce : [1 .. NonceSize -> Byte]]
SignatureBinds ==
    type = "AUTH_NODE" =>
        \A a, b \in Signed, s \in [1 .. NonceSize -> Byte] :
            SignedBytes(s, a.nonce, a.id) = SignedBytes(msg.client_nonce, b.nonce, b.id)
                => a = b /\ s = msg.client_nonce

=============================================================================
