--------------------------- MODULE DirectAdmission ---------------------------
(***************************************************************************)
(* b_direct_accept_client of src/b/control_client.c after accept(): the    *)
(* reading of one line from the caller, a byte at a time with a time limit *)
(* on each, and ntap_direct_token_verify of src/common/direct_token.c on   *)
(* what was read.  The node's one thread does nothing else meanwhile.      *)
(*                                                                         *)
(* In TapLoop all of this is one step, "Admit or Reject".  Here the caller *)
(* writes byte by byte, in his own time, and what he writes after the line *)
(* is the beginning of his first message.                                  *)
(*                                                                         *)
(* A byte is one of the symbols the tokens are written with, a blank (also *)
(* for tab and carriage return), a NUL or a newline.  A token is what its  *)
(* seven fields say: who made it, for which node and network, until when.  *)
(* Whether the signature fits is whether the node's own key made it.       *)
(* Definitions marked [slip] are plausible mistakes and no part of the     *)
(* model.                                                                  *)
(***************************************************************************)
EXTENDS Integers, Sequences

CONSTANTS
    Tokens,     \* tokens a caller may know: [text, by, node, net, expire]
    Key,        \* node_key
    NodeId,     \* node_id
    NetworkId,  \* network_id of AUTH_OK
    Cap,        \* NTAP_DIRECT_TOKEN_MAX, the size of token_buf
    Wait,       \* ticks ntap_socket_wait_read waits for one byte
    MaxBytes    \* bound: bytes a caller writes

Special == {"blank", "nul", "nl"}
Symbols == UNION {{t.text[k] : k \in DOMAIN t.text} : t \in Tokens}
Bytes == Symbols \cup Special

ASSUME DirectAdmissionAssumption ==
    /\ Cap \in Nat /\ Cap > 1
    /\ Wait \in Nat /\ Wait > 0
    /\ MaxBytes \in Nat
    /\ {"nul", "nl"} \cap Symbols = {}   \* a node_id may contain blanks
    /\ \A t, u \in Tokens : t.text = u.text => t = u
    /\ \A t \in Tokens : t.expire \in Nat /\ Len(t.text) > 0 /\ t.text[Len(t.text)] # "blank"

VARIABLES
    pc,      \* "read", or how it ended: "admitted", "rejected"
    buf,     \* token_buf up to len
    waited,  \* ticks the current wait has lasted
    clock,   \* ticks since the caller was accepted
    sent,    \* bytes the caller has written
    taken,   \* how many of them recv() has returned
    life     \* the caller's end: "up", "eof", "reset"

vars == <<pc, buf, waited, clock, sent, taken, life>>

Init ==
    /\ pc = "read" /\ buf = <<>> /\ waited = 0 /\ clock = 0
    /\ sent = <<>> /\ taken = 0 /\ life = "up"

-----------------------------------------------------------------------------
(* ntap_direct_token_verify *)

\* strlen() and the trimming of the line's end.
UpToNul(s) ==
    SubSeq(s, 1, CHOOSE n \in 0 .. Len(s) :
        /\ \A k \in 1 .. n : s[k] # "nul"
        /\ n < Len(s) => s[n + 1] = "nul")
Trimmed(s) ==
    SubSeq(s, 1, CHOOSE n \in 0 .. Len(s) :
        /\ n > 0 => s[n] # "blank"
        /\ \A k \in n + 1 .. Len(s) : s[k] = "blank")

\* [slip] A token is still taken in the second it expires.
InForce_to_the_end(t) == t.expire >= clock

\* expire_at against the time when the line is complete.
InForce(t) == t.expire > clock

Mine(t) == t.by = Key /\ t.node = NodeId /\ t.net = NetworkId

Verifies(line) == \E t \in Tokens : t.text = line /\ Mine(t) /\ InForce(t)

-----------------------------------------------------------------------------
(* b_direct_read_token_line *)

\* [slip] The loop leaves no room for the final NUL.
Full_late(len) == len >= Cap

\* [slip] The loop stops a byte too early.
Full_early(len) == len + 2 >= Cap

\* The condition of the loop, once a byte has been stored.
Full(len) == len + 1 >= Cap

\* [slip] Blanks are skipped as they come, and not counted.
Kept_but_blanks(ch) == IF ch = "blank" THEN buf ELSE Append(buf, ch)

\* token_buf[len++] = ch
Kept(ch) == Append(buf, ch)

\* [slip] What came with the newline is taken with it.
Newline_takes_all == Len(sent)

\* recv() asks for one byte and no more.
Newline == taken + 1

\* ntap_socket_wait_read says there is something, recv() returns one byte.
ReadByte ==
    /\ pc = "read" /\ taken < Len(sent)
    /\ LET ch == sent[taken + 1]
       IN IF ch = "nl"
          THEN /\ taken' = Newline
               /\ pc' = IF Verifies(Trimmed(UpToNul(buf))) THEN "admitted" ELSE "rejected"
               /\ UNCHANGED buf
          ELSE /\ taken' = taken + 1
               /\ buf' = Kept(ch)
               /\ pc' = IF Full(Len(buf')) THEN "rejected" ELSE "read"
    /\ waited' = 0
    /\ UNCHANGED <<clock, sent, life>>

\* wait_read times out, or recv() says the caller has gone.
GiveUp ==
    /\ pc = "read"
    /\ \/ taken = Len(sent) /\ (waited = Wait \/ life = "eof")
       \/ life = "reset"
    /\ pc' = "rejected"
    /\ UNCHANGED <<buf, waited, clock, sent, taken, life>>

\* The thread waits in select(): time passes only here.
Tick ==
    /\ pc = "read" /\ taken = Len(sent) /\ life = "up" /\ waited < Wait
    /\ waited' = waited + 1 /\ clock' = clock + 1
    /\ UNCHANGED <<pc, buf, sent, taken, life>>

-----------------------------------------------------------------------------
(* The caller *)

WriteByte ==
    /\ pc = "read" /\ life = "up" /\ Len(sent) < MaxBytes
    /\ \E ch \in Bytes : sent' = Append(sent, ch)
    /\ UNCHANGED <<pc, buf, waited, clock, taken, life>>

Depart ==
    /\ pc = "read" /\ life = "up"
    /\ life' \in {"eof", "reset"}
    /\ UNCHANGED <<pc, buf, waited, clock, sent, taken>>

Decided == pc # "read" /\ UNCHANGED vars

Next == ReadByte \/ GiveUp \/ Tick \/ WriteByte \/ Depart \/ Decided

Spec == Init /\ [][Next]_vars

\* The thread runs and time goes by.  The caller need not do anything.
FairSpec == Spec /\ WF_vars(ReadByte) /\ WF_vars(GiveUp) /\ WF_vars(Tick)

-----------------------------------------------------------------------------
(* Properties *)

\* The variables keep to their types, and the line always leaves room for the
\* NUL that ends it in token_buf.
TypeOK ==
    /\ pc \in {"read", "admitted", "rejected"} /\ life \in {"up", "eof", "reset"}
    /\ buf \in Seq(Bytes) /\ Len(buf) + 1 <= Cap
    /\ waited \in 0 .. Wait /\ clock \in Nat
    /\ sent \in Seq(Bytes) /\ taken \in 0 .. Len(sent)

\* The caller wrote the token, then nothing that counts, then a newline at n:
\* blanks, and after a NUL anything.
Presents(t, n) ==
    LET m == Len(t.text)
    IN /\ m < n /\ n <= Len(sent) /\ SubSeq(sent, 1, m) = t.text
       /\ sent[n] = "nl" /\ \A k \in 1 .. n - 1 : sent[k] # "nl"
       /\ \E z \in m + 1 .. n :
            /\ \A k \in m + 1 .. z - 1 : sent[k] = "blank"
            /\ z < n => sent[z] = "nul"

\* Only a caller whose first line is a token made with this node's key, for this
\* node and this network, that has not expired when he is let in, is admitted,
\* however slowly the line came; and the bytes behind the line are all still
\* there for ntap_recv_msg.
AdmittedRightly ==
    pc = "admitted" =>
        \E t \in Tokens : Mine(t) /\ t.expire > clock /\ Presents(t, taken)

\* The first newline the node has seen is the last byte it has taken: the first
\* message of an admitted client is read from its beginning.
FramesKept == \A k \in 1 .. taken : sent[k] = "nl" => k = taken

\* However slowly a caller trickles, he holds the node's thread for no longer
\* than one wait for each byte the line may have.
HeldBriefly == clock <= Wait * (Cap - 1)

\* A caller whose complete line with a good token is there in time and fits is
\* let in, the longest line that fits included, unless he resets the connection.
Waiting == pc = "read" /\ \E t \in Tokens, n \in 2 .. Cap - 1 :
                Mine(t) /\ InForce(t) /\ Presents(t, n)
GoodCallersEnter == Waiting ~> (pc = "admitted" \/ life = "reset")

=============================================================================
