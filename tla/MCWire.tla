-------------------------------- MODULE MCWire --------------------------------
(* Small instances of Wire for TLC: bytes with two values, and of each type    *)
(* the messages that differ from a usual one in at most two fields.            *)
EXTENDS Wire

TextNames ==
    {"version_text", "node_id", "username", "password", "tap_name", "bridge_name",
     "direct_mode", "direct_addr", "direct_token", "host"}
Sizes == [n \in TextNames |-> IF n \in {"direct_mode", "password"} THEN 2 ELSE 3]

Ones(n) == [k \in 1 .. n |-> 1]

\* The values a field takes, the usual one included.
Values(f) ==
    CASE f.do = "int" /\ f.name # "frame_len" -> {0, 1, 2, Base ^ f.size - 1} \cap (0 .. Base ^ f.size - 1)
      [] f.do = "text" -> {Ones(n) : n \in 0 .. Base ^ 2}
      [] f.do = "block" -> [1 .. f.size -> Byte]
      [] f.name = "frame" -> {Ones(n) : n \in 0 .. 3}
      [] f.name = "data" -> {Ones(n) : n \in {0, 1, 2, MaxSocks - 4, MaxSocks - 3}}
      [] OTHER -> {}
Usual(f) ==
    CASE f.do = "int" -> 1
      [] f.do = "text" -> Ones(1)
      [] f.do = "block" -> Ones(f.size)
      [] f.do = "rest" -> Ones(1)
UsualMessage(t) == [n \in Names(t) |-> Usual(CHOOSE f \in Fields(t) : f.name = n)]

Variants(t) ==
    UNION {{[UsualMessage(t) EXCEPT ![f.name] = v, ![g.name] = w] :
               v \in Values(f), w \in Values(g)} : f, g \in Fields(t)}

\* frame_len is the length of the frame, in the caller as in the encoder.
Proper(m) == IF "frame" \in DOMAIN m THEN [m EXCEPT !.frame_len = Len(m.frame)] ELSE m
AllMessages == [t \in MessageTypes |-> {Proper(m) : m \in Variants(t)}]

=============================================================================
