---------------------------- MODULE Framing_proofs ----------------------------
(***************************************************************************)
(* Messages survive, and the stream is the queue Sockets has: for any      *)
(* sizes of header, payload and window, any MTU, any number of messages,   *)
(* and however send() and recv() cut the bytes up.                         *)
(***************************************************************************)
EXTENDS Framing, TLAPS, NaturalsInduction, WellFoundedInduction

USE FramingAssumption

-----------------------------------------------------------------------------
(* The invariant *)

Kinds == [type : {"tap", "plain"}, len : Nat]
Bytes == Nat \X Nat

Typed ==
    /\ mtu \in Nat /\ said \in Seq(Kinds) /\ off \in Nat
    /\ wire \in Seq(Bytes) /\ buf \in Seq(Bytes) /\ got \in Seq(Kinds)
    /\ said = <<>> => off = 0
    /\ said # <<>> => off <= Size(said[Len(said)])

\* The messages lie one behind the other in the stream of bytes, message k from
\* start[k] on.
Laid(start) ==
    /\ start \in [1 .. Len(said) -> Nat]
    /\ \A k \in 1 .. Len(said) : k + 1 <= Len(said) => start[k + 1] = start[k] + Size(said[k])
    /\ \A k, l \in 1 .. Len(said) : k < l => start[k] + Size(said[k]) <= start[l]
Written(start) == IF said = <<>> THEN 0 ELSE start[Len(said)] + off

\* "base" is where the message begins that ntap_recv_msg is to return next; it
\* holds the first bytes of it, and the wire what was written behind those.
InPlace(start, base) ==
    /\ base + Len(buf) + Len(wire) = Written(start)
    /\ base = IF Len(got) < Len(said) THEN start[Len(got) + 1] ELSE Written(start)
    /\ \A j \in 1 .. Len(buf) : buf[j] = <<Len(got) + 1, j>>
    /\ \A k \in 1 .. Len(said) : \A p \in 1 .. Size(said[k]) : \A j \in 1 .. Len(wire) :
          start[k] + p = base + Len(buf) + j => wire[j] = <<k, p>>
OneStream == \E start, base : base \in Nat /\ Laid(start) /\ InPlace(start, base)

\* No message is returned before its last byte was sent.
AllSent == Len(got) = Len(said) => Left = 0

IndInv == Typed /\ MessagesSurvive /\ AllSent /\ OneStream

-----------------------------------------------------------------------------
(* Sequences *)

\* Two sequences, one behind the other.
LEMMA Joined ==
    ASSUME NEW S, NEW b \in Seq(S), NEW f \in Seq(S)
    PROVE  /\ b \o f \in Seq(S) /\ Len(b \o f) = Len(b) + Len(f)
           /\ \A j \in 1 .. Len(b) : (b \o f)[j] = b[j]
           /\ \A j \in 1 .. Len(f) : (b \o f)[Len(b) + j] = f[j]
<1>1. Len(b) \in Nat /\ Len(f) \in Nat
  OBVIOUS
<1>2. Len(b \o f) = Len(b) + Len(f)
  OBVIOUS
<1>3. b \o f \in Seq(S)
  OBVIOUS
<1>4. \A j \in 1 .. Len(b) : (b \o f)[j] = b[j]
  BY <1>1
<1>5. \A j \in 1 .. Len(f) : (b \o f)[Len(b) + j] = f[j]
  BY <1>1
<1>6. QED
  BY <1>2, <1>3, <1>4, <1>5

\* The first n bytes of the wire go behind what the receiver has.
LEMMA MovedBytes ==
    ASSUME NEW S, NEW b \in Seq(S), NEW w \in Seq(S), NEW n \in 1 .. Len(w)
    PROVE  /\ b \o SubSeq(w, 1, n) \in Seq(S) /\ Len(b \o SubSeq(w, 1, n)) = Len(b) + n
           /\ \A j \in 1 .. Len(b) : (b \o SubSeq(w, 1, n))[j] = b[j]
           /\ \A j \in 1 .. n : (b \o SubSeq(w, 1, n))[Len(b) + j] = w[j]
           /\ SubSeq(w, n + 1, Len(w)) \in Seq(S)
           /\ Len(SubSeq(w, n + 1, Len(w))) = Len(w) - n
           /\ \A j \in 1 .. Len(w) - n : SubSeq(w, n + 1, Len(w))[j] = w[n + j]
<1>1. Len(w) \in Nat /\ Len(b) \in Nat /\ n \in Nat /\ 1 <= n /\ n <= Len(w)
  OBVIOUS
<1> DEFINE f == SubSeq(w, 1, n)
           g == SubSeq(w, n + 1, Len(w))
<1>2. f \in Seq(S) /\ Len(f) = n /\ \A j \in 1 .. n : f[j] = w[j]
  BY <1>1
<1>3. g \in Seq(S)
  BY <1>1
<1>4. Len(g) = Len(w) - n
  BY <1>1
<1>5. \A j \in 1 .. Len(w) - n : g[j] = w[n + j]
  <2> SUFFICES ASSUME NEW j \in 1 .. Len(w) - n PROVE g[j] = w[n + j]
    OBVIOUS
  <2>1. j \in 1 .. Len(w) - (n + 1) + 1 /\ (n + 1) + j - 1 = n + j
    BY <1>1
  <2>2. g[j] = w[(n + 1) + j - 1]
    BY <1>1, <2>1
  <2>3. QED
    BY <2>1, <2>2
<1> HIDE DEF f, g
<1>6. b \o f \in Seq(S) /\ Len(b \o f) = Len(b) + n
  BY <1>2, Joined
<1>7. \A j \in 1 .. Len(b) : (b \o f)[j] = b[j]
  BY <1>2, Joined
<1>8. \A j \in 1 .. n : (b \o f)[Len(b) + j] = f[j]
  BY <1>2, Joined
<1>9. QED
  BY <1>2, <1>3, <1>4, <1>5, <1>6, <1>7, <1>8 DEF f, g

-----------------------------------------------------------------------------
(* Messages and their bytes *)

\* A message has a header at least; what may be sent is a message.
LEMMA Sizes ==
    ASSUME NEW m \in Kinds
    PROVE  Size(m) \in Nat /\ HdrSize <= Size(m) /\ 1 <= Size(m) /\ HdrSize \in Nat
BY DEF Size, Kinds

\* What is left to send of the last message.
LEMMA LeftIs ==
    ASSUME Typed
    PROVE  /\ Left \in Nat
           /\ said = <<>> => Left = 0
           /\ said # <<>> => /\ Len(said) \in 1 .. Len(said) /\ said[Len(said)] \in Kinds
                             /\ off + Left = Size(said[Len(said)])
<1>1. CASE said = <<>>
  BY <1>1 DEF Left
<1>2. CASE said # <<>>
  <2>1. Len(said) \in 1 .. Len(said) /\ said[Len(said)] \in Kinds
    BY <1>2 DEF Typed
  <2>2. off \in Nat /\ off <= Size(said[Len(said)]) /\ Size(said[Len(said)]) \in Nat
    BY <1>2, <2>1, Sizes DEF Typed
  <2>3. Left = Size(said[Len(said)]) - off
    BY <1>2 DEF Left
  <2>4. QED
    BY <1>2, <2>1, <2>2, <2>3, SMTT(30)
<1>3. QED
  BY <1>1, <1>2

\* While something is on its way, a message is to be returned next, and no more
\* than it lies before where the following one begins.
LEMMA NextBytes ==
    ASSUME Typed, MessagesSurvive, NEW start, NEW base \in Nat, Laid(start), InPlace(start, base),
           buf # <<>> \/ wire # <<>>
    PROVE  LET g == Len(got) + 1
           IN /\ Len(got) < Len(said) /\ g \in 1 .. Len(said) /\ said[g] \in Kinds
              /\ base = start[g]
              /\ \A p \in 1 .. Size(said[g]), j \in 1 .. Len(wire) :
                    p = Len(buf) + j => wire[j] = <<g, p>>
<1> DEFINE g == Len(got) + 1
<1>1. /\ Len(buf) \in Nat /\ Len(wire) \in Nat /\ Len(got) \in Nat /\ Len(said) \in Nat
      /\ Len(got) <= Len(said) /\ (Len(buf) # 0 \/ Len(wire) # 0)
  BY SMTT(30) DEF Typed, MessagesSurvive
<1>2. Len(got) < Len(said)
  <2>1. base + Len(buf) + Len(wire) = Written(start)
        /\ base = IF Len(got) < Len(said) THEN start[Len(got) + 1] ELSE Written(start)
    BY DEF InPlace
  <2>2. QED
    BY <1>1, <2>1, SMTT(30)
<1>3. g \in 1 .. Len(said) /\ said[g] \in Kinds
  BY <1>1, <1>2, SMTT(30) DEF Typed
<1>4. base = start[g]
  BY <1>2 DEF InPlace
<1>5. \A p \in 1 .. Size(said[g]), j \in 1 .. Len(wire) :
         start[g] + p = base + Len(buf) + j => wire[j] = <<g, p>>
  BY <1>3 DEF InPlace
<1>6. ASSUME NEW p \in 1 .. Size(said[g]), NEW j \in 1 .. Len(wire), p = Len(buf) + j
      PROVE  wire[j] = <<g, p>>
  <2>1. start[g] + p = base + Len(buf) + j
    BY <1>1, <1>4, <1>6, SMTT(30)
  <2>2. QED
    BY <1>5, <2>1
<1>7. QED
  BY <1>2, <1>3, <1>4, <1>6

-----------------------------------------------------------------------------
(* The sender *)

\* Nothing said, nothing on its way.
LEMMA InitInv == Init => IndInv
<1> SUFFICES ASSUME Init PROVE IndInv
  OBVIOUS
<1>1. Len(said) = 0 /\ Len(wire) = 0 /\ Len(buf) = 0 /\ Len(got) = 0
  BY DEF Init
<1>2. Typed
  BY DEF Init, Typed
<1>3. MessagesSurvive
  BY <1>1 DEF Init, MessagesSurvive
<1>4. Laid(<<>>) /\ InPlace(<<>>, 0)
  BY <1>1 DEF Init, Laid, InPlace, Written
<1>5. AllSent
  BY <1>2, LeftIs DEF Init, AllSent
<1>6. QED
  BY <1>2, <1>3, <1>4, <1>5 DEF IndInv, OneStream

\* The stream goes on where the last message ended.
LEMMA SendMessageInv == IndInv /\ SendMessage => IndInv'
<1> SUFFICES ASSUME IndInv, SendMessage PROVE IndInv'
  OBVIOUS
<1>1. PICK m \in Sendable : said' = Append(said, m)
  BY DEF SendMessage
<1>2. /\ Left = 0 /\ off' = 0 /\ life = "up"
      /\ UNCHANGED <<mtu, wire, life, buf, got, outcome>>
  BY DEF SendMessage
<1>3. m \in Kinds
  BY SMTT(30) DEF Sendable, Message, Kinds, IndInv, Typed
<1>4. /\ said \in Seq(Kinds) /\ Len(said) \in Nat /\ got \in Seq(Kinds) /\ Len(got) \in Nat
      /\ Len(wire) \in Nat /\ Len(buf) \in Nat /\ off \in Nat /\ Len(got) <= Len(said)
  BY SMTT(30) DEF IndInv, Typed, MessagesSurvive
<1>5. /\ said' \in Seq(Kinds) /\ Len(said') = Len(said) + 1 /\ said'[Len(said) + 1] = m
      /\ \A k \in 1 .. Len(said) : said'[k] = said[k]
  BY <1>1, <1>3, <1>4
<1>6. said' # <<>>
  <2>1. Len(said') # 0
    BY <1>4, <1>5
  <2>2. QED
    BY <2>1
<1>7. Typed'
  <2>1. 0 <= Size(m)
    BY <1>3, Sizes
  <2>2. QED
    BY <1>2, <1>5, <1>6, <2>1 DEF IndInv, Typed, Size
<1>8. MessagesSurvive'
  <2>1. \A k \in DOMAIN got : k \in 1 .. Len(said) /\ got[k] = said[k]
    BY <1>4, SMTT(30) DEF IndInv, MessagesSurvive
  <2>2. Len(got') <= Len(said') /\ \A k \in DOMAIN got' : got'[k] = said'[k]
    BY <1>2, <1>4, <1>5, <2>1, SMTT(30)
  <2>3. outcome' = "refused" => Len(got') < Len(said') /\ ~Allowed(said'[Len(got') + 1])
    <3> SUFFICES ASSUME outcome = "refused"
                 PROVE  Len(got) < Len(said') /\ ~Allowed(said'[Len(got) + 1])
      BY <1>2
    <3>1. Len(got) < Len(said) /\ ~Allowed(said[Len(got) + 1])
      BY DEF IndInv, MessagesSurvive
    <3>2. Len(got) + 1 \in 1 .. Len(said)
      BY <1>4, <3>1
    <3>3. QED
      BY <1>4, <1>5, <3>1, <3>2, SMTT(30)
  <2>4. outcome' = "closed" => life' = "eof"
    BY <1>2 DEF IndInv, MessagesSurvive
  <2>5. QED
    BY <2>2, <2>3, <2>4 DEF MessagesSurvive, Allowed, AllowedFor
<1>9. PICK start, base : base \in Nat /\ Laid(start) /\ InPlace(start, base)
  BY DEF IndInv, OneStream
<1> DEFINE N == Len(said)
<1>10. PICK from : from = [k \in 1 .. N + 1 |-> IF k <= N THEN start[k] ELSE Written(start)]
  OBVIOUS
<1>11. /\ N \in Nat /\ \A k \in 1 .. N : start[k] \in Nat
       /\ from[N + 1] = Written(start) /\ \A k \in 1 .. N : from[k] = start[k]
  <2>1. N \in Nat /\ \A k \in 1 .. N : start[k] \in Nat
    BY <1>4, <1>9 DEF Laid
  <2>2. N + 1 \in 1 .. N + 1 /\ ~(N + 1 <= N) /\ \A k \in 1 .. N : k \in 1 .. N + 1 /\ k <= N
    BY <2>1
  <2>3. QED
    BY <1>10, <2>1, <2>2
<1>12. N # 0 => /\ N \in 1 .. N /\ said[N] \in Kinds
                /\ Written(start) = start[N] + Size(said[N])
  <2> SUFFICES ASSUME N # 0
               PROVE  N \in 1 .. N /\ said[N] \in Kinds /\ Written(start) = start[N] + Size(said[N])
    OBVIOUS
  <2>1. said # <<>> /\ Typed
    BY DEF IndInv
  <2>2. N \in 1 .. N /\ said[N] \in Kinds /\ off + Left = Size(said[N])
    BY <2>1, LeftIs
  <2>3. off = Size(said[N])
    BY <1>2, <1>4, <2>2
  <2>4. QED
    BY <2>1, <2>2, <2>3 DEF Written
<1>13. Written(start) \in Nat
  <2>1. N = 0 => said = <<>>
    BY <1>4
  <2>2. N # 0 => start[N] \in Nat /\ Size(said[N]) \in Nat
    BY <1>11, <1>12, Sizes
  <2>3. QED
    BY <1>12, <2>1, <2>2 DEF Written
<1>14. \A k \in 1 .. N : /\ start[k] + Size(said[k]) <= Written(start)
                         /\ Size(said[k]) \in Nat
  <2> SUFFICES ASSUME NEW k \in 1 .. N
               PROVE  start[k] + Size(said[k]) <= Written(start) /\ Size(said[k]) \in Nat
    OBVIOUS
  <2>1. said[k] \in Kinds /\ N # 0
    BY <1>4
  <2>2. Size(said[k]) \in Nat
    BY <2>1, Sizes
  <2>3. CASE k = N
    BY <1>11, <1>12, <2>1, <2>2, <2>3
  <2>4. CASE k < N
    <3>1. start[k] + Size(said[k]) <= start[N]
      BY <1>9, <1>12, <2>1, <2>4 DEF Laid
    <3>2. start[N] <= Written(start)
      BY <1>11, <1>12, <2>1, Sizes, SMTT(30)
    <3>3. start[k] \in Nat /\ start[N] \in Nat
      BY <1>11, <1>12, <2>1
    <3>4. QED
      BY <1>13, <2>2, <3>1, <3>2, <3>3, SMTT(30)
  <2>5. QED
    BY <1>4, <2>3, <2>4
<1>15. Len(said') = N + 1 /\ said'[N + 1] = m /\ \A k \in 1 .. N : said'[k] = said[k]
  BY <1>5
<1>16. Written(from)' = Written(start)
  BY <1>2, <1>6, <1>11, <1>13, <1>15 DEF Written
<1>17. Laid(from)'
  <2>1. from \in [1 .. N + 1 -> Nat]
    BY <1>10, <1>11, <1>13
  <2>2. \A k \in 1 .. N + 1 : k + 1 <= N + 1 => from[k + 1] = from[k] + Size(said'[k])
    <3> SUFFICES ASSUME NEW k \in 1 .. N PROVE from[k + 1] = from[k] + Size(said[k])
      BY <1>11, <1>15
    <3>1. CASE k = N
      BY <1>11, <1>12, <3>1
    <3>2. CASE k < N
      <4>1. k + 1 <= N /\ k + 1 \in 1 .. N
        BY <1>11, <3>2
      <4>2. start[k + 1] = start[k] + Size(said[k])
        BY <1>9, <4>1 DEF Laid
      <4>3. QED
        BY <1>11, <4>1, <4>2
    <3>3. QED
      BY <1>11, <3>1, <3>2
  <2>3. \A k, l \in 1 .. N + 1 : k < l => from[k] + Size(said'[k]) <= from[l]
    <3> SUFFICES ASSUME NEW k \in 1 .. N + 1, NEW l \in 1 .. N + 1, k < l
                 PROVE  from[k] + Size(said'[k]) <= from[l]
      OBVIOUS
    <3>1. k \in 1 .. N /\ said'[k] = said[k] /\ from[k] = start[k]
      BY <1>11, <1>15
    <3>2. CASE l = N + 1
      BY <1>11, <1>14, <3>1, <3>2
    <3>3. CASE l \in 1 .. N
      <4>1. start[k] + Size(said[k]) <= start[l]
        BY <1>9, <3>1, <3>3 DEF Laid
      <4>2. QED
        BY <1>11, <3>1, <3>3, <4>1
    <3>4. QED
      BY <1>11, <3>2, <3>3, SMTT(30)
  <2>4. QED
    BY <1>15, <2>1, <2>2, <2>3 DEF Laid, Size
<1>18. InPlace(from, base)'
  <2>1. /\ base + Len(buf) + Len(wire) = Written(start)
        /\ base = IF Len(got) < N THEN start[Len(got) + 1] ELSE Written(start)
        /\ \A j \in 1 .. Len(buf) : buf[j] = <<Len(got) + 1, j>>
    BY <1>9 DEF InPlace
  <2>2. base = from[Len(got) + 1] /\ Len(got) < N + 1
    <3>1. CASE Len(got) < N
      <4>1. Len(got) + 1 \in 1 .. N
        BY <1>4, <3>1
      <4>2. QED
        BY <1>4, <1>11, <2>1, <3>1, <4>1
    <3>2. CASE Len(got) = N
      BY <1>11, <2>1, <3>2
    <3>3. QED
      BY <1>4, <3>1, <3>2
  <2>3. ASSUME NEW k \in 1 .. N + 1, NEW p \in 1 .. Size(said'[k]), NEW j \in 1 .. Len(wire),
               from[k] + p = base + Len(buf) + j
        PROVE  wire[j] = <<k, p>>
    <3>1. k # N + 1
      <4>1. p \in Nat /\ 1 <= p /\ j \in Nat /\ j <= Len(wire)
        <5>1. Size(said'[k]) \in Nat
          BY <1>5, <1>15, Sizes
        <5>2. QED
          BY <1>4, <5>1
      <4> DEFINE a == Len(buf)
                 w == Len(wire)
      <4>0. base \in Nat /\ a \in Nat /\ w \in Nat /\ base + a + w = Written(start)
        BY <1>4, <1>9, <2>1
      <4> HIDE DEF a, w
      <4>2. base + a + j <= Written(start)
        BY <4>0, <4>1, SMTT(30) DEF w
      <4>3. Written(start) < Written(start) + p
        BY <1>13, <4>1, SMTT(30)
      <4>4. from[k] + p = base + a + j
        BY <2>3 DEF a
      <4>5. k = N + 1 => Written(start) + p <= Written(start)
        BY <1>11, <4>2, <4>4
      <4>6. QED
        BY <1>13, <4>1, <4>3, <4>5
    <3>2. k \in 1 .. N /\ said'[k] = said[k] /\ from[k] = start[k]
      BY <1>11, <1>15, <3>1, SMTT(30)
    <3>3. QED
      BY <1>9, <2>3, <3>2 DEF InPlace
  <2>4. QED
    BY <1>2, <1>15, <1>16, <2>1, <2>2, <2>3 DEF InPlace, Size
<1>19. AllSent'
  BY <1>2, <1>4, <1>5 DEF AllSent
<1>20. QED
  BY <1>7, <1>8, <1>9, <1>17, <1>18, <1>19 DEF IndInv, OneStream

\* A function on 1 .. n is a sequence.
LEMMA AsSequence ==
    ASSUME NEW S, NEW n \in Nat, NEW v \in [1 .. n -> S]
    PROVE  v \in Seq(S) /\ Len(v) = n
OBVIOUS

\* The bytes send() takes are the next ones of the last message.
LEMMA SendBytesInv == IndInv /\ SendBytes => IndInv'
<1> SUFFICES ASSUME IndInv, SendBytes PROVE IndInv'
  OBVIOUS
<1>1. PICK n \in 1 .. Left :
        /\ wire' = wire \o [j \in 1 .. n |-> <<Len(said), off + j>>]
        /\ off' = off + n
  BY DEF SendBytes, Sent
<1>2. UNCHANGED <<mtu, said, life, buf, got, outcome>>
  BY DEF SendBytes
<1>3. /\ Typed /\ MessagesSurvive /\ Len(said) \in Nat /\ Len(got) \in Nat
      /\ Len(wire) \in Nat /\ Len(buf) \in Nat /\ off \in Nat /\ Len(got) <= Len(said)
      /\ wire \in Seq(Bytes)
  BY SMTT(30) DEF IndInv, Typed, MessagesSurvive
<1>4. /\ said # <<>> /\ Len(said) \in 1 .. Len(said) /\ said[Len(said)] \in Kinds
      /\ n \in Nat /\ 1 <= n /\ off + n <= Size(said[Len(said)])
  <2>1. Left \in Nat /\ n \in Nat /\ 1 <= n /\ n <= Left /\ Left # 0
    BY <1>3, LeftIs
  <2>2. said # <<>>
    BY <1>3, <2>1, LeftIs
  <2>3. /\ Len(said) \in 1 .. Len(said) /\ said[Len(said)] \in Kinds
        /\ off + Left = Size(said[Len(said)])
    BY <1>3, <2>2, LeftIs
  <2>4. off + n <= off + Left
    BY <1>3, <2>1, SMTT(30)
  <2>5. QED
    BY <2>1, <2>2, <2>3, <2>4
<1>5. PICK v : v = [j \in 1 .. n |-> <<Len(said), off + j>>]
  OBVIOUS
<1>6. v \in Seq(Bytes) /\ Len(v) = n /\ \A j \in 1 .. n : v[j] = <<Len(said), off + j>>
  <2>1. Len(said) \in Nat /\ off \in Nat /\ n \in Nat
    BY <1>3, <1>4
  <2>2. \A j \in 1 .. n : <<Len(said), off + j>> \in Bytes
    BY <2>1 DEF Bytes
  <2>3. v \in [1 .. n -> Bytes]
    BY <1>5, <2>2
  <2>4. \A j \in 1 .. n : v[j] = <<Len(said), off + j>>
    BY <1>5
  <2>5. v \in Seq(Bytes) /\ Len(v) = n
    BY <2>1, <2>3, AsSequence
  <2>6. QED
    BY <2>4, <2>5
<1>7. /\ wire' \in Seq(Bytes) /\ Len(wire') = Len(wire) + n
      /\ \A j \in 1 .. Len(wire) : wire'[j] = wire[j]
      /\ \A j \in 1 .. n : wire'[Len(wire) + j] = v[j]
  <2>1. wire' = wire \o v
    BY <1>1, <1>5
  <2>2. v \in Seq(Bytes) /\ Len(v) = n
    BY <1>6
  <2>3. /\ wire \o v \in Seq(Bytes) /\ Len(wire \o v) = Len(wire) + n
        /\ \A j \in 1 .. Len(wire) : (wire \o v)[j] = wire[j]
        /\ \A j \in 1 .. n : (wire \o v)[Len(wire) + j] = v[j]
    <3>1. wire \in Seq(Bytes) /\ v \in Seq(Bytes)
      BY <1>3, <2>2
    <3>2. /\ wire \o v \in Seq(Bytes) /\ Len(wire \o v) = Len(wire) + Len(v)
          /\ \A j \in 1 .. Len(wire) : (wire \o v)[j] = wire[j]
          /\ \A j \in 1 .. Len(v) : (wire \o v)[Len(wire) + j] = v[j]
      BY <3>1, Joined
    <3>3. QED
      BY <2>2, <3>2
  <2>4. QED
    BY <2>1, <2>3
<1>8. Typed'
  <2>1. off' \in Nat /\ off' <= Size(said[Len(said)])
    BY <1>1, <1>3, <1>4
  <2>2. QED
    BY <1>2, <1>4, <1>7, <2>1 DEF IndInv, Typed, Size
<1>9. MessagesSurvive'
  BY <1>2 DEF IndInv, MessagesSurvive, Allowed, AllowedFor
<1>10. PICK start, base : base \in Nat /\ Laid(start) /\ InPlace(start, base)
  BY DEF IndInv, OneStream
<1>11. Laid(start)'
  BY <1>2, <1>10 DEF Laid, Size
<1> DEFINE N == Len(said)
           a == Len(buf)
           w == Len(wire)
<1>12. /\ Written(start) = start[N] + off /\ Written(start)' = start[N] + off + n
       /\ start[N] \in Nat
  <2>1. start[N] \in Nat
    BY <1>4, <1>10 DEF Laid
  <2>2. Written(start) = start[N] + off
    BY <1>4 DEF Written
  <2>3. Written(start)' = start[N] + off'
    BY <1>2, <1>4 DEF Written
  <2>4. start[N] + off' = start[N] + off + n
    <3>1. off' = off + n
      BY <1>1
    <3>2. off \in Nat /\ n \in Nat /\ start[N] \in Nat
      BY <1>3, <1>4, <2>1
    <3> HIDE DEF N
    <3>3. QED
      BY <3>1, <3>2
  <2>5. QED
    BY <2>1, <2>2, <2>3, <2>4
<1>13. base + a + w = start[N] + off
  BY <1>10, <1>12 DEF InPlace
<1>14. Len(got) < N
  <2>1. Left # 0
    BY <1>3, <1>4, LeftIs
  <2>2. QED
    BY <1>3, <2>1 DEF IndInv, AllSent
<1>15. ASSUME NEW k \in 1 .. N, NEW p \in Nat, NEW i \in Nat, p <= Size(said[k]), 1 <= i,
              start[k] + p = start[N] + off + i
       PROVE  k = N /\ p = off + i
  <2>1. start[k] \in Nat /\ Size(said[k]) \in Nat
    <3>1. said \in Seq(Kinds) /\ start \in [1 .. N -> Nat]
      BY <1>3, <1>10 DEF Typed, Laid
    <3>2. said[k] \in Kinds /\ start[k] \in Nat
      BY <3>1
    <3>3. QED
      BY <3>2, Sizes
  <2> DEFINE from == start[k]
             last == start[N]
             size == Size(said[k])
  <2>2. /\ from \in Nat /\ last \in Nat /\ size \in Nat /\ off \in Nat /\ p <= size
        /\ from + p = last + off + i
    BY <1>3, <1>12, <1>15, <2>1
  <2>3. k < N => from + size <= last
    BY <1>4, <1>10 DEF Laid
  <2> HIDE DEF from, last, size
  <2>4. ~(from + size <= last)
    BY <1>15, <2>2
  <2>5. k = N
    <3>1. ~(k < N) /\ k \in Nat /\ k <= N /\ N \in Nat
      BY <1>3, <2>3, <2>4
    <3>2. QED
      BY <3>1
  <2>6. from = last
    BY <2>5 DEF from, last
  <2>7. p = off + i
    BY <2>2, <2>6
  <2>8. QED
    BY <2>5, <2>7
<1>16. InPlace(start, base)'
  <2>1. base + Len(buf') + Len(wire') = Written(start)'
    <3>1. Len(buf') = a /\ Len(wire') = w + n
      BY <1>2, <1>7
    <3>2. a \in Nat /\ w \in Nat /\ base \in Nat
      BY <1>3, <1>10
    <3> HIDE DEF a, w
    <3>3. base + a + (w + n) = (base + a + w) + n
      BY <1>4, <3>2
    <3>4. QED
      BY <1>12, <1>13, <3>1, <3>3
  <2>2. Len(got) < N /\ base = start[Len(got) + 1]
    BY <1>10, <1>14 DEF InPlace
  <2>3. \A j \in 1 .. Len(buf) : buf[j] = <<Len(got) + 1, j>>
    BY <1>10 DEF InPlace
  <2>4. ASSUME NEW k \in 1 .. N, NEW p \in 1 .. Size(said[k]), NEW j \in 1 .. w + n,
               start[k] + p = base + a + j
        PROVE  wire'[j] = <<k, p>>
    <3>0. /\ a \in Nat /\ w \in Nat /\ j \in Nat /\ j <= w + n /\ start[k] \in Nat
          /\ said[k] \in Kinds /\ Size(said[k]) \in Nat /\ p \in Nat /\ 1 <= p /\ p <= Size(said[k])
      <4>1. said[k] \in Kinds /\ start[k] \in Nat
        <5>1. said \in Seq(Kinds) /\ start \in [1 .. Len(said) -> Nat]
          BY <1>3, <1>10 DEF Typed, Laid
        <5>2. QED
          BY <5>1, SMTT(30)
      <4>2. Size(said[k]) \in Nat
        BY <4>1, Sizes
      <4>3. QED
        BY <1>3, <1>4, <4>1, <4>2
    <3>1. CASE j <= w
      <4>1. j \in 1 .. Len(wire)
        BY <3>0, <3>1
      <4>2. wire[j] = <<k, p>>
        BY <1>10, <2>4, <4>1 DEF InPlace
      <4>3. QED
        BY <1>7, <4>1, <4>2
    <3>2. CASE w < j
      <4> PICK i : i = j - w
        OBVIOUS
      <4> HIDE DEF a, w
      <4>1. i \in 1 .. n /\ j = w + i /\ i \in Nat /\ 1 <= i
        <5>1. i \in Int /\ 1 <= i /\ i <= n /\ j = w + i
          BY <1>4, <3>0, <3>2
        <5>2. QED
          BY <1>4, <5>1
      <4>2. start[k] + p = start[N] + off + i
        <5>1. base + a + j = (base + a + w) + i
          BY <1>10, <3>0, <4>1
        <5>2. QED
          BY <1>13, <2>4, <5>1
      <4>3. p <= Size(said[k]) /\ 1 <= i /\ i \in Nat /\ p \in Nat
        BY <3>0, <4>1
      <4>4. k = N /\ p = off + i
        BY <1>15, <4>2, <4>3
      <4>5. wire'[Len(wire) + i] = <<N, off + i>>
        BY <1>6, <1>7, <4>1
      <4>6. QED
        BY <4>1, <4>4, <4>5 DEF w
    <3>3. j <= w \/ w < j
      BY <3>0
    <3>4. QED
      BY <3>1, <3>2, <3>3
  <2>5. Len(wire') = w + n
    BY <1>7
  <2>6. \A k \in 1 .. Len(said') : \A p \in 1 .. Size(said'[k]) : \A j \in 1 .. Len(wire') :
           start[k] + p = base + Len(buf') + j => wire'[j] = <<k, p>>
    BY <1>2, <2>4, <2>5
  <2>7. QED
    BY <1>2, <2>1, <2>2, <2>3, <2>6 DEF InPlace, Size
<1>17. AllSent'
  BY <1>2, <1>3, <1>14 DEF AllSent
<1>18. QED
  BY <1>8, <1>9, <1>10, <1>11, <1>16, <1>17 DEF IndInv, OneStream

\* The sender's end changes nothing of what is on its way.
LEMMA HangupInv == IndInv /\ Hangup => IndInv'
<1> SUFFICES ASSUME IndInv, Hangup PROVE IndInv'
  OBVIOUS
<1>1. UNCHANGED <<mtu, said, off, wire, buf, got, outcome>> /\ life' = "eof"
  BY DEF Hangup
<1>2. Typed' /\ AllSent'
  BY <1>1 DEF IndInv, Typed, AllSent, Left, Size
<1>3. MessagesSurvive'
  BY <1>1 DEF IndInv, MessagesSurvive, Allowed, AllowedFor
<1>4. PICK start, base : base \in Nat /\ Laid(start) /\ InPlace(start, base)
  BY DEF IndInv, OneStream
<1>5. Laid(start)' /\ InPlace(start, base)'
  BY <1>1, <1>4, ZenonT(30) DEF Laid, InPlace, Written, Size
<1>6. QED
  BY <1>2, <1>3, <1>4, <1>5 DEF IndInv, OneStream

-----------------------------------------------------------------------------
(* The receiver *)

\* ntap_hdr_decode reads the header of the message the bytes belong to.
LEMMA HeaderTells ==
    ASSUME NEW bytes \in Seq(Bytes), NEW g \in 1 .. Len(said), said \in Seq(Kinds),
           Len(bytes) >= HdrSize, \A j \in 1 .. Len(bytes) : bytes[j] = <<g, j>>
    PROVE  Announced(bytes) = {said[g]}
<1>1. /\ HdrSize \in Nat /\ 1 <= HdrSize /\ Len(bytes) \in Nat /\ HdrSize <= Len(bytes)
      /\ DOMAIN said = 1 .. Len(said)
  OBVIOUS
<1>2. PICK h : h = SubSeq(bytes, 1, HdrSize)
  OBVIOUS
<1>3. DOMAIN h = 1 .. HdrSize /\ \A j \in 1 .. HdrSize : h[j] = bytes[j]
  BY <1>1, <1>2
<1>4. \A j \in 1 .. HdrSize : h[j] = <<g, j>>
  <2>1. \A j \in 1 .. HdrSize : j \in 1 .. Len(bytes)
    BY <1>1
  <2>2. QED
    BY <1>3, <2>1, Zenon
<1>5. \A k \in DOMAIN said : PartOf(h, k) <=> k = g
  <2>1. PartOf(h, g)
    BY <1>3, <1>4 DEF PartOf
  <2>2. ASSUME NEW k \in DOMAIN said, PartOf(h, k) PROVE k = g
    <3>1. 1 \in 1 .. HdrSize
      BY <1>1
    <3>2. <<k, 1>> = <<g, 1>>
      BY <1>3, <1>4, <2>2, <3>1 DEF PartOf
    <3>3. QED
      BY <3>2
  <2>3. QED
    BY <2>1, <2>2
<1>6. ~(Len(bytes) < HdrSize)
  BY <1>1
<1>7. Announced(bytes) = {said[k] : k \in {x \in DOMAIN said : PartOf(h, x)}}
  BY <1>2, <1>6 DEF Announced
<1>8. {x \in DOMAIN said : PartOf(h, x)} = {g}
  BY <1>1, <1>5
<1>9. QED
  BY <1>7, <1>8

\* What one recv() returns lies within the wire and within the message.
LEMMA ReadsWithin ==
    ASSUME Typed, MessagesSurvive, NEW start, NEW base \in Nat, Laid(start), InPlace(start, base),
           NEW n \in Reads(Missing)
    PROVE  LET g == Len(got) + 1
           IN /\ n \in 1 .. Len(wire) /\ g \in 1 .. Len(said) /\ said[g] \in Kinds
              /\ Len(buf) + n <= Size(said[g])
<1> DEFINE g == Len(got) + 1
<1>1. /\ Len(buf) \in Nat /\ Len(wire) \in Nat /\ buf \in Seq(Bytes) /\ said \in Seq(Kinds)
      /\ HdrSize \in Nat /\ 1 <= HdrSize
  BY DEF Typed
<1>2. n \in 1 .. Missing /\ n <= Len(wire)
  BY DEF Reads
<1>3. CASE Len(buf) < HdrSize
  <2>1. Missing = HdrSize - Len(buf)
    BY <1>3 DEF Missing
  <2>2. n \in Nat /\ 1 <= n /\ Len(buf) + n <= HdrSize
    BY <1>1, <1>2, <2>1
  <2>3. Len(wire) # 0
    BY <1>1, <1>2, <2>2
  <2>4. wire # <<>>
    BY <2>3
  <2>5. g \in 1 .. Len(said) /\ said[g] \in Kinds
    BY <2>4, NextBytes
  <2>6. HdrSize <= Size(said[g]) /\ Size(said[g]) \in Nat
    BY <2>5, Sizes
  <2>7. Len(buf) + n <= Size(said[g])
    BY <1>1, <2>2, <2>6, SMTT(30)
  <2>8. n \in 1 .. Len(wire)
    BY <1>1, <1>2, <2>2
  <2>9. QED
    BY <2>5, <2>7, <2>8
<1>4. CASE ~(Len(buf) < HdrSize)
  <2>1. Len(buf) # 0
    BY <1>1, <1>4
  <2>2. buf # <<>>
    BY <2>1
  <2>3. g \in 1 .. Len(said) /\ said[g] \in Kinds
    BY <2>2, NextBytes
  <2>4. Announced(buf) = {said[g]}
    <3>1. \A j \in 1 .. Len(buf) : buf[j] = <<g, j>>
      BY DEF InPlace
    <3>2. Len(buf) >= HdrSize
      BY <1>1, <1>4
    <3>3. QED
      BY <1>1, <2>3, <3>1, <3>2, HeaderTells
  <2>5. Missing = Size(said[g]) - Len(buf)
    <3>1. (CHOOSE x \in Announced(buf) : TRUE) = said[g]
      BY <2>4
    <3>2. QED
      BY <1>4, <3>1 DEF Missing
  <2>6. Size(said[g]) \in Nat
    BY <2>3, Sizes
  <2>7. n \in Nat /\ 1 <= n /\ Len(buf) + n <= Size(said[g])
    BY <1>1, <1>2, <2>5, <2>6, SMTT(30)
  <2>8. n \in 1 .. Len(wire)
    BY <1>1, <1>2, <2>7
  <2>9. QED
    BY <2>3, <2>7, <2>8
<1>5. QED
  BY <1>3, <1>4

\* The receiver finds the peer's end.
LEMMA RecvEndInv == IndInv /\ RecvEnd => IndInv'
<1> SUFFICES ASSUME IndInv, RecvEnd PROVE IndInv'
  OBVIOUS
<1>1. /\ UNCHANGED <<mtu, said, off, wire, life, buf, got>>
      /\ life = "eof" /\ outcome' = "closed"
  BY DEF RecvEnd
<1>2. Typed' /\ AllSent'
  BY <1>1 DEF IndInv, Typed, AllSent, Left, Size
<1>3. MessagesSurvive'
  BY <1>1 DEF IndInv, MessagesSurvive, Allowed, AllowedFor
<1>4. PICK start, base : base \in Nat /\ Laid(start) /\ InPlace(start, base)
  BY DEF IndInv, OneStream
<1>5. Laid(start)' /\ InPlace(start, base)'
  BY <1>1, <1>4, ZenonT(30) DEF Laid, InPlace, Written, Size
<1>6. QED
  BY <1>2, <1>3, <1>4, <1>5 DEF IndInv, OneStream

\* What recv() returns continues the message that is to be returned next.
Continued(n, bytes) ==
    LET g == Len(got) + 1
    IN /\ n \in 1 .. Len(wire) /\ g \in 1 .. Len(said) /\ said[g] \in Kinds
       /\ Len(buf) + n <= Size(said[g])
       /\ bytes \in Seq(Bytes) /\ Len(bytes) = Len(buf) + n
       /\ \A j \in 1 .. Len(buf) : bytes[j] = buf[j]
       /\ \A j \in 1 .. n : bytes[Len(buf) + j] = wire[j]
       /\ \A j \in 1 .. Len(bytes) : bytes[j] = <<g, j>>
       /\ Len(bytes) >= HdrSize => Announced(bytes) = {said[g]}

\* A place up to the end of what was read is a place of the message.
LEMMA PlaceBelow ==
    ASSUME NEW b \in Nat, NEW n \in Nat, NEW z \in Nat, NEW j \in Nat,
           1 <= j, j <= b + n, b + n <= z
    PROVE  j \in 1 .. z
OBVIOUS

\* What recv() puts behind buf continues the message.
LEMMA RecvReads ==
    ASSUME IndInv, NEW start, NEW base \in Nat, Laid(start), InPlace(start, base),
           NEW n \in Reads(Missing), NEW bytes, bytes = buf \o SubSeq(wire, 1, n)
    PROVE  Continued(n, bytes)
<1>1. base \in Nat /\ Laid(start) /\ InPlace(start, base)
  OBVIOUS
<1>2. /\ Typed /\ MessagesSurvive
      /\ Len(said) \in Nat /\ Len(got) \in Nat /\ Len(wire) \in Nat /\ Len(buf) \in Nat
      /\ buf \in Seq(Bytes) /\ wire \in Seq(Bytes) /\ said \in Seq(Kinds) /\ got \in Seq(Kinds)
  BY SMTT(30) DEF IndInv, Typed, MessagesSurvive
<1> DEFINE g == Len(got) + 1
           N == Len(said)
<1>3. /\ n \in 1 .. Len(wire) /\ g \in 1 .. N /\ said[g] \in Kinds
      /\ Len(buf) + n <= Size(said[g])
  BY <1>1, <1>2, ReadsWithin
<1>4. n \in Nat /\ 1 <= n /\ n <= Len(wire) /\ Len(wire) - n \in Nat
  BY <1>2, <1>3
<1>5. wire # <<>>
  <2>1. Len(wire) # 0
    BY <1>2, <1>4
  <2>2. QED
    BY <2>1
<1>6. /\ Len(got) < N /\ base = start[g]
      /\ \A p \in 1 .. Size(said[g]), j \in 1 .. Len(wire) : p = Len(buf) + j => wire[j] = <<g, p>>
  BY <1>1, <1>2, <1>5, NextBytes
<1>7. /\ bytes \in Seq(Bytes) /\ Len(bytes) = Len(buf) + n
      /\ \A j \in 1 .. Len(buf) : bytes[j] = buf[j]
      /\ \A j \in 1 .. n : bytes[Len(buf) + j] = wire[j]
  <2>1. bytes = buf \o SubSeq(wire, 1, n)
    OBVIOUS
  <2>2. buf \in Seq(Bytes) /\ wire \in Seq(Bytes) /\ n \in 1 .. Len(wire)
    BY <1>2, <1>3
  <2>3. LET b == buf \o SubSeq(wire, 1, n)
        IN /\ b \in Seq(Bytes) /\ Len(b) = Len(buf) + n
           /\ \A j \in 1 .. Len(buf) : b[j] = buf[j]
           /\ \A j \in 1 .. n : b[Len(buf) + j] = wire[j]
    BY <2>2, MovedBytes, SMTT(30)
  <2>4. QED
    BY <2>1, <2>3
<1>8. \A j \in 1 .. Len(bytes) : bytes[j] = <<g, j>>
  <2> SUFFICES ASSUME NEW j \in 1 .. Len(bytes) PROVE bytes[j] = <<g, j>>
    OBVIOUS
  <2>1. /\ j \in Nat /\ 1 <= j /\ j <= Len(buf) + n
        /\ Len(buf) \in Nat /\ n \in Nat
    BY <1>2, <1>4, <1>7
  <2>2. CASE j <= Len(buf)
    <3>1. j \in 1 .. Len(buf)
      BY <1>2, <2>1, <2>2
    <3>2. buf[j] = <<g, j>>
      BY <1>1, <3>1 DEF InPlace
    <3>3. QED
      BY <1>7, <3>1, <3>2
  <2>3. CASE Len(buf) < j
    <3> PICK i : i = j - Len(buf)
      OBVIOUS
    <3>1. i \in 1 .. n /\ i \in 1 .. Len(wire) /\ j = Len(buf) + i
      <4>1. PICK b \in Nat, w \in Nat : b = Len(buf) /\ w = Len(wire) /\ n <= w
        BY <1>2, <1>4
      <4>2. j = b + i /\ i \in Nat /\ 1 <= i /\ i <= n
        BY <2>1, <2>3, <4>1
      <4>3. QED
        BY <2>1, <4>1, <4>2
    <3>2. j \in 1 .. Size(said[g])
      <4>1. PICK z \in Nat : z = Size(said[g])
        BY <1>3, Sizes
      <4>2. PICK b \in Nat : b = Len(buf)
        BY <2>1
      <4>3. b + n <= z
        BY <1>3, <4>1, <4>2, Zenon
      <4>4. j <= b + n
        BY <2>1, <4>2, Zenon
      <4>5. j \in 1 .. z
        BY <2>1, <4>1, <4>2, <4>3, <4>4, PlaceBelow, Zenon
      <4>6. QED
        BY <4>1, <4>5, Zenon
    <3>3. wire[i] = <<g, j>>
      BY <1>6, <3>1, <3>2
    <3>4. bytes[Len(buf) + i] = wire[i]
      BY <1>7, <3>1, Zenon
    <3>5. QED
      BY <3>1, <3>3, <3>4, Zenon
  <2>4. j <= Len(buf) \/ Len(buf) < j
    BY <2>1
  <2>5. QED
    BY <2>2, <2>3, <2>4
<1>9. Len(bytes) >= HdrSize => Announced(bytes) = {said[g]}
  <2>1. bytes \in Seq(Bytes) /\ g \in 1 .. Len(said) /\ said \in Seq(Kinds)
    BY <1>2, <1>3, <1>7
  <2>2. QED
    BY <1>8, <2>1, HeaderTells, Zenon
<1>10. QED
  BY <1>3, <1>7, <1>8, <1>9, Zenon DEF Continued

\* The bytes one recv() returns are the next ones of the message that is to be
\* returned next; once they are all there it is returned as it was sent.
LEMMA RecvBytesInv == IndInv /\ RecvBytes => IndInv'
<1> SUFFICES ASSUME IndInv, RecvBytes PROVE IndInv'
  OBVIOUS
<1>1. PICK start, base : base \in Nat /\ Laid(start) /\ InPlace(start, base)
  BY DEF IndInv, OneStream
<1> DEFINE Took(n, bytes) ==
             /\ bytes = buf \o SubSeq(wire, 1, n)
             /\ wire' = SubSeq(wire, n + 1, Len(wire))
             /\ \/ /\ \/ Len(bytes) < HdrSize
                      \/ \E m \in Announced(bytes) : Allowed(m) /\ Len(bytes) < Size(m)
                   /\ buf' = bytes /\ UNCHANGED <<got, outcome>>
                \/ /\ Len(bytes) >= HdrSize /\ \A m \in Announced(bytes) : ~Allowed(m)
                   /\ buf' = bytes /\ outcome' = "refused" /\ UNCHANGED got
                \/ \E m \in Announced(bytes) :
                     /\ Allowed(m) /\ Len(bytes) = Size(m)
                     /\ got' = Append(got, IF \E k \in DOMAIN said : PartOf(bytes, k)
                                           THEN m ELSE Message("garbled", 0))
                     /\ buf' = <<>> /\ UNCHANGED outcome
<1>2. PICK n \in Reads(Missing) : \E bytes : Took(n, bytes)
  BY DEF RecvBytes
<1>3. PICK bytes : Took(n, bytes)
  BY <1>2
<1>4. UNCHANGED <<mtu, said, off, life>> /\ outcome = "open"
  BY DEF RecvBytes
<1>5. /\ Typed /\ MessagesSurvive /\ AllSent
      /\ Len(said) \in Nat /\ Len(got) \in Nat /\ Len(wire) \in Nat /\ Len(buf) \in Nat
      /\ off \in Nat /\ Len(got) <= Len(said)
      /\ buf \in Seq(Bytes) /\ wire \in Seq(Bytes) /\ said \in Seq(Kinds) /\ got \in Seq(Kinds)
  BY SMTT(30) DEF IndInv, Typed, MessagesSurvive
<1> DEFINE g == Len(got) + 1
           N == Len(said)
<1>6. /\ n \in 1 .. Len(wire) /\ g \in 1 .. N /\ said[g] \in Kinds
      /\ Len(buf) + n <= Size(said[g])
  BY <1>1, <1>5, ReadsWithin
<1>7. n \in Nat /\ 1 <= n /\ n <= Len(wire) /\ Len(wire) - n \in Nat
  BY <1>5, <1>6
<1>8. wire # <<>>
  <2>1. Len(wire) # 0
    BY <1>5, <1>7
  <2>2. QED
    BY <2>1
<1>9. /\ Len(got) < N /\ base = start[g]
      /\ \A p \in 1 .. Size(said[g]), j \in 1 .. Len(wire) : p = Len(buf) + j => wire[j] = <<g, p>>
  BY <1>1, <1>5, <1>8, NextBytes
<1>10. /\ bytes \in Seq(Bytes) /\ Len(bytes) = Len(buf) + n
       /\ \A j \in 1 .. Len(bytes) : bytes[j] = <<g, j>>
       /\ Len(bytes) >= HdrSize => Announced(bytes) = {said[g]}
  <2>1. bytes = buf \o SubSeq(wire, 1, n)
    BY <1>3
  <2>2. Continued(n, bytes)
    <3> HIDE DEF Took
    <3>1. QED
      BY <1>1, <1>2, <2>1, RecvReads
  <2> HIDE DEF Took
  <2>3. QED
    BY <2>2 DEF Continued
<1>11. /\ wire' \in Seq(Bytes) /\ Len(wire') = Len(wire) - n
       /\ \A j \in 1 .. Len(wire) - n : wire'[j] = wire[n + j]
  <2>1. wire' = SubSeq(wire, n + 1, Len(wire))
    BY <1>3
  <2>2. buf \in Seq(Bytes) /\ wire \in Seq(Bytes) /\ n \in 1 .. Len(wire)
    BY <1>5, <1>6
  <2> HIDE DEF Took
  <2>3. LET w == SubSeq(wire, n + 1, Len(wire))
        IN /\ w \in Seq(Bytes) /\ Len(w) = Len(wire) - n
           /\ \A j \in 1 .. Len(wire) - n : w[j] = wire[n + j]
    BY <2>2, MovedBytes
  <2>4. QED
    BY <2>1, <2>3
<1>12. \A j \in 1 .. Len(bytes) : bytes[j] = <<g, j>>
  BY <1>10
<1>13. Len(bytes) >= HdrSize => Announced(bytes) = {said[g]}
  BY <1>10
<1>14. Size(said[g]) \in Nat /\ HdrSize <= Size(said[g]) /\ HdrSize \in Nat
  BY <1>6, Sizes
<1>15. Len(bytes) \in Nat /\ base + Len(bytes) + Len(wire') = Written(start)
  <2>1. base + Len(buf) + Len(wire) = Written(start)
    BY <1>1 DEF InPlace
  <2> DEFINE a == Len(buf)
             w == Len(wire)
             b == Len(bytes)
             v == Len(wire')
  <2>2. /\ base \in Nat /\ a \in Nat /\ w \in Nat /\ n \in Nat /\ n <= w
        /\ b = a + n /\ v = w - n
    BY <1>1, <1>5, <1>7, <1>10, <1>11
  <2>3. base + a + w = Written(start)
    BY <2>1
  <2> HIDE DEF a, w, b, v
  <2>4. b \in Nat /\ base + b + v = base + a + w
    BY <2>2
  <2>5. QED
    BY <2>3, <2>4 DEF b, v
<1>16. ASSUME NEW k \in 1 .. N, NEW p \in 1 .. Size(said[k]), NEW j \in 1 .. Len(wire'),
              start[k] + p = base + Len(bytes) + j
       PROVE  wire'[j] = <<k, p>>
  <2>1. j \in 1 .. Len(wire) - n /\ n + j \in 1 .. Len(wire)
    <3>1. j \in 1 .. Len(wire) - n
      BY <1>11
    <3>2. n \in Nat /\ Len(wire) \in Nat /\ n <= Len(wire)
      BY <1>5, <1>7
    <3>3. QED
      BY <3>1, <3>2
  <2>2. start[k] + p = base + Len(buf) + (n + j)
    <3> DEFINE a == Len(buf)
               b == Len(bytes)
    <3>1. base \in Nat /\ a \in Nat /\ n \in Nat /\ j \in Nat /\ b = a + n
      BY <1>1, <1>5, <1>7, <1>10, <2>1
    <3>2. start[k] + p = base + b + j
      BY <1>16
    <3> HIDE DEF a, b
    <3>3. base + b + j = base + a + (n + j)
      BY <3>1
    <3>4. QED
      BY <3>2, <3>3 DEF a
  <2>3. wire[n + j] = <<k, p>>
    BY <1>1, <2>1, <2>2 DEF InPlace
  <2>4. QED
    BY <1>11, <2>1, <2>3
<1>17. Laid(start)' /\ Written(start)' = Written(start)
  BY <1>1, <1>4 DEF Laid, Written, Size
<1>18. ASSUME buf' = bytes, got' = got,
              outcome' = outcome \/ (outcome' = "refused" /\ ~Allowed(said[g]))
       PROVE  IndInv'
  <2>1. Typed'
    BY <1>4, <1>10, <1>11, <1>18 DEF IndInv, Typed, Size
  <2>2. AllSent'
    BY <1>4, <1>5, <1>18 DEF AllSent, Left, Size
  <2>3. MessagesSurvive'
    <3>1. \A k \in DOMAIN got : got[k] = said[k]
      BY <1>5 DEF MessagesSurvive
    <3>2. outcome' = "refused" => ~Allowed(said[g])
      BY <1>4, <1>18
    <3>3. outcome' # "closed"
      BY <1>4, <1>18
    <3>4. QED
      BY <1>4, <1>5, <1>9, <1>18, <3>1, <3>2, <3>3 DEF MessagesSurvive, Allowed, AllowedFor
  <2>4. InPlace(start, base)'
    <3>1. base + Len(buf') + Len(wire') = Written(start)'
      BY <1>15, <1>17, <1>18
    <3>2. base = IF Len(got') < Len(said') THEN start[Len(got') + 1] ELSE Written(start)'
      BY <1>4, <1>9, <1>18
    <3>3. \A j \in 1 .. Len(buf') : buf'[j] = <<Len(got') + 1, j>>
      BY <1>12, <1>18
    <3>4. \A k \in 1 .. Len(said') : \A p \in 1 .. Size(said'[k]) : \A j \in 1 .. Len(wire') :
             start[k] + p = base + Len(buf') + j => wire'[j] = <<k, p>>
      BY <1>4, <1>16, <1>18
    <3>5. QED
      BY <3>1, <3>2, <3>3, <3>4 DEF InPlace, Size
  <2>5. QED
    BY <1>1, <1>17, <2>1, <2>2, <2>3, <2>4 DEF IndInv, OneStream
<1>19. ASSUME Len(bytes) = Size(said[g]), got' = Append(got, said[g]), buf' = <<>>,
              outcome' = outcome
       PROVE  IndInv'
  <2>1. /\ got' \in Seq(Kinds) /\ Len(got') = g /\ got'[g] = said[g]
        /\ \A k \in 1 .. Len(got) : got'[k] = got[k]
    BY <1>5, <1>6, <1>19
  <2>2. Typed'
    BY <1>4, <1>5, <1>11, <1>19, <2>1 DEF Typed, Size
  <2>3. MessagesSurvive'
    <3>1. \A k \in 1 .. Len(got) : got[k] = said[k]
      BY <1>5, SMTT(30) DEF MessagesSurvive
    <3>2. \A k \in DOMAIN got' : got'[k] = said[k]
      <4>1. DOMAIN got' = 1 .. g
        BY <2>1
      <4>2. \A k \in 1 .. g : k = g \/ k \in 1 .. Len(got)
        BY <1>5, SMTT(30)
      <4>3. QED
        BY <2>1, <3>1, <4>1, <4>2
    <3>3. Len(got') <= Len(said')
      BY <1>4, <1>5, <1>9, <2>1
    <3>4. QED
      BY <1>4, <1>19, <3>2, <3>3 DEF MessagesSurvive
  <2>4. PICK next : next = base + Size(said[g])
    OBVIOUS
  <2>5. next \in Nat /\ next + Len(wire') = Written(start)
    BY <1>1, <1>14, <1>15, <1>19, <2>4, SMTT(30)
  <2>6. g = N => Len(wire') = 0 /\ off = Size(said[g])
    <3> SUFFICES ASSUME g = N PROVE Len(wire') = 0 /\ off = Size(said[g])
      OBVIOUS
    <3>1. said # <<>>
      BY <1>5, <1>6
    <3>2. Written(start) = base + off
      BY <1>9, <3>1 DEF Written
    <3>3. off <= Size(said[g])
      BY <1>5, <3>1 DEF Typed
    <3>4. Len(wire') \in Nat
      BY <1>7, <1>11
    <3>5. base + Size(said[g]) + Len(wire') = base + off
      BY <2>4, <2>5, <3>2
    <3>6. Size(said[g]) + Len(wire') = off
      <4> DEFINE size == Size(said[g])
                 left == Len(wire')
      <4>1. base \in Nat /\ size \in Nat /\ left \in Nat /\ off \in Nat
        BY <1>1, <1>5, <1>14, <3>4
      <4>2. base + size + left = base + off
        BY <3>5
      <4> HIDE DEF size, left, g, N
      <4>3. size + left = off
        BY <4>1, <4>2
      <4>4. QED
        BY <4>3 DEF size, left, g
    <3>7. off \in Nat /\ Size(said[g]) \in Nat
      BY <1>5, <1>14
    <3>8. QED
      BY <3>3, <3>4, <3>6, <3>7
  <2>7. AllSent'
    <3> SUFFICES ASSUME g = N PROVE Left' = 0
      BY <1>4, <2>1 DEF AllSent
    <3>1. said # <<>> /\ off = Size(said[N]) /\ off \in Nat
      BY <1>5, <1>6, <2>6, SMTT(30)
    <3>2. Left = 0
      BY <3>1 DEF Left
    <3>3. QED
      BY <1>4, <3>2 DEF Left, Size
  <2>8. InPlace(start, next)'
    <3>1. next + Len(buf') + Len(wire') = Written(start)'
      BY <1>17, <1>19, <2>5
    <3>2. next = IF Len(got') < Len(said') THEN start[Len(got') + 1] ELSE Written(start)'
      <4>1. CASE g < N
        <5>1. g + 1 <= N
          BY <1>5, <4>1
        <5>2. start[g + 1] = start[g] + Size(said[g])
          BY <1>1, <1>6, <5>1 DEF Laid
        <5>3. QED
          BY <1>4, <1>9, <2>1, <2>4, <4>1, <5>2
      <4>2. CASE ~(g < N)
        <5>1. g = N
          BY <1>5, <1>6, <4>2
        <5>2. next = Written(start)
          BY <2>5, <2>6, <5>1
        <5>3. QED
          BY <1>4, <1>17, <2>1, <4>2, <5>2
      <4>3. QED
        BY <4>1, <4>2
    <3>3. \A j \in 1 .. Len(buf') : buf'[j] = <<Len(got') + 1, j>>
      BY <1>19
    <3>4. \A k \in 1 .. Len(said') : \A p \in 1 .. Size(said'[k]) : \A j \in 1 .. Len(wire') :
             start[k] + p = next + Len(buf') + j => wire'[j] = <<k, p>>
      <4>1. next + Len(buf') = base + Len(bytes)
        BY <1>19, <2>4, <2>5
      <4>2. ASSUME NEW k \in 1 .. N, NEW p \in 1 .. Size(said[k]), NEW j \in 1 .. Len(wire'),
                   start[k] + p = next + Len(buf') + j
            PROVE  wire'[j] = <<k, p>>
        BY <1>16, <4>1, <4>2
      <4>3. QED
        BY <1>4, <4>2
    <3>5. QED
      BY <3>1, <3>2, <3>3, <3>4 DEF InPlace, Size
  <2>9. QED
    BY <1>17, <2>2, <2>3, <2>5, <2>7, <2>8 DEF IndInv, OneStream
<1>20. CASE /\ \/ Len(bytes) < HdrSize
               \/ \E m \in Announced(bytes) : Allowed(m) /\ Len(bytes) < Size(m)
            /\ buf' = bytes /\ UNCHANGED <<got, outcome>>
  <2>1. buf' = bytes /\ got' = got /\ outcome' = outcome
    BY <1>20
  <2> HIDE DEF Took, g, N
  <2>2. outcome' = outcome \/ (outcome' = "refused" /\ ~Allowed(said[g]))
    BY <2>1
  <2>3. QED
    BY <1>18, <2>1, <2>2, Zenon
<1>21. CASE /\ Len(bytes) >= HdrSize /\ \A m \in Announced(bytes) : ~Allowed(m)
            /\ buf' = bytes /\ outcome' = "refused" /\ UNCHANGED got
  <2>1. ~Allowed(said[g])
    BY <1>13, <1>21
  <2>2. QED
    BY <1>18, <1>21, <2>1
<1>22. CASE \E m \in Announced(bytes) :
              /\ Allowed(m) /\ Len(bytes) = Size(m)
              /\ got' = Append(got, IF \E k \in DOMAIN said : PartOf(bytes, k)
                                    THEN m ELSE Message("garbled", 0))
              /\ buf' = <<>> /\ UNCHANGED outcome
  <2>1. PICK m \in Announced(bytes) :
          /\ Len(bytes) = Size(m)
          /\ got' = Append(got, IF \E k \in DOMAIN said : PartOf(bytes, k)
                                THEN m ELSE Message("garbled", 0))
          /\ buf' = <<>> /\ UNCHANGED outcome
    BY <1>22
  <2>2. Len(bytes) >= HdrSize
    <3>1. CASE Len(bytes) < HdrSize
      BY <2>1, <3>1 DEF Announced
    <3>2. QED
      BY <1>14, <1>15, <3>1
  <2>3. m = said[g]
    BY <1>13, <2>1, <2>2
  <2>4. \E k \in DOMAIN said : PartOf(bytes, k)
    <3>1. DOMAIN bytes = 1 .. Len(bytes) /\ g \in DOMAIN said
      BY <1>5, <1>6, <1>10, SMTT(30)
    <3>2. PartOf(bytes, g)
      BY <1>12, <3>1 DEF PartOf
    <3>3. QED
      BY <3>1, <3>2
  <2>5. got' = Append(got, said[g])
    BY <2>1, <2>3, <2>4
  <2>6. QED
    BY <1>19, <2>1, <2>3, <2>5
<1>23. QED
  BY <1>3, <1>20, <1>21, <1>22

-----------------------------------------------------------------------------
(* The theorem *)

\* No step of either end disturbs the order of the bytes.
LEMMA StepInv == IndInv /\ [Next]_vars => IndInv'
<1> SUFFICES ASSUME IndInv, [Next]_vars PROVE IndInv'
  OBVIOUS
<1>1. CASE SendMessage
  BY <1>1, SendMessageInv
<1>2. CASE SendBytes
  BY <1>2, SendBytesInv
<1>3. CASE Hangup
  BY <1>3, HangupInv
<1>4. CASE RecvBytes
  BY <1>4, RecvBytesInv
<1>5. CASE RecvEnd
  BY <1>5, RecvEndInv
<1>6. CASE UNCHANGED vars
  <2>1. UNCHANGED <<mtu, said, off, wire, life, buf, got, outcome>>
    BY <1>6 DEF vars
  <2>2. Typed' /\ AllSent'
    BY <2>1 DEF IndInv, Typed, AllSent, Left, Size
  <2>3. MessagesSurvive'
    BY <2>1 DEF IndInv, MessagesSurvive, Allowed, AllowedFor
  <2>4. PICK start, base : base \in Nat /\ Laid(start) /\ InPlace(start, base)
    BY DEF IndInv, OneStream
  <2>5. Laid(start)' /\ InPlace(start, base)'
    BY <2>1, <2>4, ZenonT(30) DEF Laid, InPlace, Written, Size
  <2>6. QED
    BY <2>2, <2>3, <2>4, <2>5 DEF IndInv, OneStream
<1>7. QED
  BY <1>1, <1>2, <1>3, <1>4, <1>5, <1>6 DEF Next

\* However ntap_send_all and ntap_recv_all are cut short by the kernel, what
\* ntap_recv_msg returns are the messages ntap_send_msg was called with, whole,
\* in order and none left out; and it gives up only for the length of the next
\* message or for the peer's end.
THEOREM Survival == Spec => []MessagesSurvive
<1>1. Spec => []IndInv
  BY InitInv, StepInv, PTL DEF Spec
<1>2. IndInv => MessagesSurvive
  BY DEF IndInv
<1>3. QED
  BY <1>1, <1>2, PTL

-----------------------------------------------------------------------------
(* The queue of messages.  What Sockets says of the connection depends on the *)
(* messages said, how many of them were returned and how much of the last one *)
(* has been sent; which of its bytes are where makes no difference.           *)

\* From here on the assumption is cited where it is used.
HIDE FramingAssumption

\* A set of naturals has a least element.
LEMMA HasLeast ==
  ASSUME NEW T, T \subseteq Nat, T # {}
  PROVE  \E x \in T : \A y \in T : x <= y
<1> DEFINE R == {ss \in Nat \X Nat : ss[1] < ss[2]}
<1>1. IsWellFoundedOn(R, Nat)
  BY NatLessThanWellFounded DEF OpToRel
<1>2. PICK x \in T : \A y \in T : ~(<<y, x>> \in R)
  BY <1>1, WFMin
<1>3. ASSUME NEW y \in T PROVE x <= y
  <2>1. x \in Nat /\ y \in Nat
    OBVIOUS
  <2>2. ~(<<y, x>> \in R)
    BY <1>2
  <2>3. ~(y < x)
    BY <2>1, <2>2
  <2>4. QED
    BY <2>1, <2>3
<1>4. QED
  BY <1>3

\* Numbers that have all smaller ones with them are the first ones.
LEMMA FirstOnes ==
  ASSUME NEW n \in Nat, NEW T, T \subseteq 1 .. n, \A i, j \in 1 .. n : i < j /\ j \in T => i \in T
  PROVE  \E u \in Nat : u <= n /\ T = 1 .. u
<1> DEFINE U == (1 .. n + 1) \ T
<1>1. U \subseteq Nat /\ n + 1 \in U
  OBVIOUS
<1>2. PICK x \in U : \A y \in U : x <= y
  <2> HIDE DEF U
  <2>1. QED
    BY <1>1, HasLeast
<1>3. x \in 1 .. n + 1 /\ x \notin T
  OBVIOUS
<1>4. ASSUME NEW i \in 1 .. x - 1 PROVE i \in T
  <2>1. i \in 1 .. n + 1 /\ ~(x <= i)
    BY <1>3
  <2>2. i \notin U
    BY <1>2, <2>1
  <2>3. QED
    BY <2>1, <2>2
<1>5. ASSUME NEW j \in T PROVE j \in 1 .. x - 1
  <2>1. j \in 1 .. n
    OBVIOUS
  <2>2. ~(x < j)
    <3>1. ASSUME x < j PROVE FALSE
      <4>1. x \in 1 .. n
        BY <1>3, <2>1, <3>1
      <4>2. x \in T
        BY <2>1, <3>1, <4>1
      <4>3. QED
        BY <1>3, <4>2
    <3>2. QED
      BY <3>1
  <2>3. x # j
    BY <1>3
  <2>4. QED
    BY <1>3, <2>1, <2>2, <2>3
<1>6. x - 1 \in Nat /\ x - 1 <= n
  BY <1>3
<1>7. T = 1 .. x - 1
  BY <1>4, <1>5
<1>8. QED
  BY <1>6, <1>7

\* A sequence of messages with one more, and with one less.
LEMMA AppendIs ==
  ASSUME NEW x \in Seq(Kinds), NEW e \in Kinds
  PROVE  /\ Append(x, e) \in Seq(Kinds) /\ Len(Append(x, e)) = Len(x) + 1
         /\ Append(x, e)[Len(x) + 1] = e
         /\ \A j \in 1 .. Len(x) : Append(x, e)[j] = x[j]
OBVIOUS

\* What is behind the head of a queue.
LEMMA TailIs ==
  ASSUME NEW x \in Seq(Kinds), NEW v \in Nat, Len(x) = v + 1
  PROVE  /\ Tail(x) \in Seq(Kinds) /\ Len(Tail(x)) = v
         /\ \A j \in 1 .. v : Tail(x)[j] = x[j + 1]
<1>1. x # <<>>
  OBVIOUS
<1>2. Tail(x) \in Seq(Kinds) /\ Len(Tail(x)) = Len(x) - 1
  BY <1>1
<1>3. ASSUME NEW j \in 1 .. v PROVE Tail(x)[j] = x[j + 1]
  BY <1>1
<1>4. QED
  BY <1>2, <1>3

\* Of the messages s the first g were returned, and o bytes of the last one sent.
Saying(s, g, o) ==
    /\ s \in Seq(Kinds) /\ g \in Nat /\ g <= Len(s) /\ o \in Nat
    /\ s # <<>> => o <= Size(s[Len(s)])
Needed(m) == IF Allowed(m) THEN Size(m) ELSE HdrSize
ClearTo(s, g, k) == \A i \in g + 1 .. k - 1 : Allowed(s[i])
HasCome(s, g, o, k) == ClearTo(s, g, k) /\ (k = Len(s) => Needed(s[k]) <= o)
Waiting(s, g, o) == {j \in 1 .. Len(s) - g : HasCome(s, g, o, g + j)}
InPart(s, g, o) ==
    /\ g < Len(s) /\ ClearTo(s, g, Len(s))
    /\ 0 < o /\ o < Needed(s[Len(s)])
Inbox(s, g, o) == [j \in Waiting(s, g, o) |-> s[g + j]]

\* The part of a message that decides about it is some of it.
LEMMA NeededIs ==
  ASSUME NEW m \in Kinds
  PROVE  /\ Needed(m) \in Nat /\ 1 <= Needed(m) /\ HdrSize <= Needed(m) /\ Needed(m) <= Size(m)
         /\ Size(m) \in Nat /\ (Allowed(m) => Needed(m) = Size(m))
         /\ ~Allowed(m) => Needed(m) = HdrSize
<1>1. Size(m) \in Nat /\ HdrSize <= Size(m) /\ 1 <= Size(m) /\ HdrSize \in Nat /\ 1 <= HdrSize
  <2>1. Size(m) \in Nat /\ HdrSize <= Size(m) /\ 1 <= Size(m) /\ HdrSize \in Nat
    BY Sizes
  <2>2. 1 <= HdrSize
    BY FramingAssumption
  <2>3. QED
    BY <2>1, <2>2
<1>2. CASE Allowed(m)
  <2>1. Needed(m) = Size(m)
    BY <1>2 DEF Needed
  <2>2. QED
    BY <1>1, <1>2, <2>1
<1>3. CASE ~Allowed(m)
  <2>1. Needed(m) = HdrSize
    BY <1>3 DEF Needed
  <2>2. QED
    BY <1>1, <1>3, <2>1
<1>4. QED
  BY <1>2, <1>3

\* Messages come in the order in which they were said.
LEMMA WaitingIs ==
  ASSUME NEW s, NEW g, NEW o, Saying(s, g, o)
  PROVE  \E u \in Nat : u <= Len(s) - g /\ Waiting(s, g, o) = 1 .. u
<1>1. PICK n \in Nat, l \in Nat : l = Len(s) /\ n = l - g /\ g \in Nat
  <2>1. Len(s) \in Nat /\ g \in Nat /\ g <= Len(s)
    BY DEF Saying
  <2>2. Len(s) - g \in Nat
    BY <2>1
  <2>3. QED
    BY <2>1, <2>2
<1> DEFINE T == Waiting(s, g, o)
<1>2. T \subseteq 1 .. n
  BY <1>1 DEF Waiting
<1>3. ASSUME NEW i \in 1 .. n, NEW j \in 1 .. n, i < j, j \in T PROVE i \in T
  <2>1. ClearTo(s, g, g + j)
    BY <1>1, <1>3 DEF Waiting, HasCome
  <2>2. ClearTo(s, g, g + i)
    <3>1. \A x \in g + 1 .. (g + i) - 1 : x \in g + 1 .. (g + j) - 1
      BY <1>1, <1>3
    <3>2. QED
      BY <2>1, <3>1 DEF ClearTo
  <2>3. g + i # Len(s)
    BY <1>1, <1>3
  <2>4. QED
    BY <1>1, <2>2, <2>3 DEF Waiting, HasCome
<1>4. \E u \in Nat : u <= n /\ T = 1 .. u
  <2> HIDE DEF T
  <2>1. QED
    BY <1>2, <1>3, FirstOnes
<1>5. QED
  BY <1>1, <1>4

\* The queue is a sequence of messages.
LEMMA InboxIs ==
  ASSUME NEW s, NEW g, NEW o, Saying(s, g, o), NEW u \in Nat, Waiting(s, g, o) = 1 .. u
  PROVE  /\ Inbox(s, g, o) \in Seq(Kinds) /\ Len(Inbox(s, g, o)) = u
         /\ \A j \in 1 .. u : Inbox(s, g, o)[j] = s[g + j]
<1>1. \A j \in 1 .. u : g + j \in 1 .. Len(s)
  <2>1. \A j \in 1 .. u : j \in 1 .. Len(s) - g
    BY DEF Waiting
  <2>2. QED
    BY <2>1 DEF Saying
<1>2. Inbox(s, g, o) = [j \in 1 .. u |-> s[g + j]]
  BY DEF Inbox
<1>3. \A j \in 1 .. u : s[g + j] \in Kinds
  <2>1. s \in Seq(Kinds)
    BY DEF Saying
  <2>2. \A i \in 1 .. Len(s) : s[i] \in Kinds
    BY <2>1
  <2>3. QED
    BY <1>1, <2>2
<1>4. Inbox(s, g, o) \in [1 .. u -> Kinds]
  BY <1>2, <1>3
<1>5. QED
  BY <1>2, <1>4, AsSequence

\* Whether a message has come, in the terms of its place in the queue.
LEMMA HasComeAt ==
  ASSUME NEW s, NEW g, NEW o, Saying(s, g, o), NEW j \in 1 .. Len(s) - g
  PROVE  g + j \in 1 .. Len(s) /\ s[g + j] \in Kinds /\ g + j \in g + 1 .. Len(s)
<1>1. Len(s) \in Nat /\ g \in Nat
  BY DEF Saying
<1>2. g + j \in 1 .. Len(s) /\ g + j \in g + 1 .. Len(s)
  BY <1>1
<1>3. QED
  BY <1>2 DEF Saying

\* t has one message more than s, which is m.
OneMore(s, m, t) ==
    /\ t \in Seq(Kinds) /\ Len(t) = Len(s) + 1 /\ t[Len(s) + 1] = m
    /\ \A k \in 1 .. Len(s) : t[k] = s[k]

\* Saying a message puts nothing into the queue.
LEMMA SayingAdds ==
  ASSUME NEW s, NEW g, NEW o, Saying(s, g, o), NEW m \in Kinds,
         s = <<>> \/ o = Size(s[Len(s)]), NEW t, OneMore(s, m, t), NEW z \in Nat, z = 0
  PROVE  /\ Saying(t, g, z)
         /\ Inbox(t, g, z) = Inbox(s, g, o) /\ ~InPart(t, g, z) /\ ~InPart(s, g, o)
<1>1. PICK l \in Nat : l = Len(s) /\ g \in Nat /\ g <= l /\ o \in Nat /\ s \in Seq(Kinds)
  BY DEF Saying
<1>2. t \in Seq(Kinds) /\ Len(t) = l + 1 /\ t[l + 1] = m /\ \A k \in 1 .. l : t[k] = s[k]
  BY <1>1 DEF OneMore
<1>3. Needed(m) \in Nat /\ 1 <= Needed(m) /\ Size(m) \in Nat
  BY NeededIs
<1>4. Saying(t, g, z)
  BY <1>1, <1>2, <1>3 DEF Saying
<1>5. ~InPart(t, g, z)
  BY DEF InPart
<1>6. l # 0 => l \in 1 .. l /\ s[l] \in Kinds /\ o = Size(s[l]) /\ Needed(s[l]) <= o
  <2>1. ASSUME l # 0 PROVE l \in 1 .. l /\ s[l] \in Kinds /\ o = Size(s[l])
    <3>1. s # <<>> /\ l \in 1 .. l
      BY <1>1, <2>1
    <3>2. QED
      BY <1>1, <3>1
  <2>2. QED
    BY <2>1, NeededIs
<1>7. ~InPart(s, g, o)
  <2>1. ASSUME InPart(s, g, o) PROVE FALSE
    <3>1. g < l /\ 0 < o /\ o < Needed(s[l])
      BY <1>1, <2>1 DEF InPart
    <3>2. l # 0
      BY <1>1, <3>1
    <3>3. Needed(s[l]) \in Nat
      BY <1>6, <3>2, NeededIs
    <3>4. QED
      BY <1>1, <1>6, <3>1, <3>2, <3>3
  <2>2. QED
    BY <2>1
<1>8. ASSUME NEW k \in g + 1 .. l PROVE HasCome(t, g, z, k) <=> HasCome(s, g, o, k)
  <2>1. k \in 1 .. l /\ k # l + 1
    BY <1>1
  <2>2. \A i \in g + 1 .. k - 1 : t[i] = s[i]
    <3>1. \A i \in g + 1 .. k - 1 : i \in 1 .. l
      BY <1>1
    <3>2. QED
      BY <1>2, <3>1
  <2>3. ClearTo(t, g, k) <=> ClearTo(s, g, k)
    BY <2>2 DEF ClearTo
  <2>4. k = l => Needed(s[k]) <= o
    BY <1>6, <2>1
  <2>5. QED
    BY <1>1, <1>2, <2>1, <2>3, <2>4 DEF HasCome
<1>9. ~HasCome(t, g, z, l + 1)
  <2>1. ~(Needed(m) <= z)
    BY <1>3
  <2>2. QED
    BY <1>2, <2>1 DEF HasCome
<1>10. Waiting(t, g, z) = Waiting(s, g, o)
  <2>1. ASSUME NEW j \in 1 .. (l + 1) - g, HasCome(t, g, z, g + j)
        PROVE  j \in 1 .. l - g /\ HasCome(s, g, o, g + j)
    <3>1. g + j # l + 1
      BY <1>9, <2>1
    <3>2. j \in 1 .. l - g /\ g + j \in g + 1 .. l
      BY <1>1, <3>1
    <3>3. QED
      BY <1>8, <2>1, <3>2
  <2>2. ASSUME NEW j \in 1 .. l - g, HasCome(s, g, o, g + j)
        PROVE  j \in 1 .. (l + 1) - g /\ HasCome(t, g, z, g + j)
    <3>1. j \in 1 .. (l + 1) - g /\ g + j \in g + 1 .. l
      BY <1>1
    <3>2. QED
      BY <1>8, <2>2, <3>1
  <2>3. QED
    BY <1>1, <1>2, <2>1, <2>2 DEF Waiting
<1>11. Inbox(t, g, z) = Inbox(s, g, o)
  <2>1. ASSUME NEW j \in Waiting(s, g, o) PROVE t[g + j] = s[g + j]
    <3>1. g + j \in 1 .. l
      BY <1>1, HasComeAt DEF Waiting
    <3>2. QED
      BY <1>2, <3>1
  <2>2. QED
    BY <1>10, <2>1 DEF Inbox
<1>12. QED
  BY <1>4, <1>5, <1>7, <1>11

\* While more of the last message is sent it comes, or the rest is as before; and
\* then it is in part when it was, or from now on.
LEMMA SendingAdds ==
  ASSUME NEW s, NEW g, NEW o, Saying(s, g, o), NEW q \in Nat, o < q, s # <<>>,
         q <= Size(s[Len(s)])
  PROVE  \/ /\ Inbox(s, g, q) = Append(Inbox(s, g, o), s[Len(s)]) /\ ~InPart(s, g, q)
            /\ Len(Inbox(s, g, o)) < Len(s)
         \/ /\ Inbox(s, g, q) = Inbox(s, g, o)
            /\ InPart(s, g, o) => InPart(s, g, q)
            /\ InPart(s, g, q) => Len(Inbox(s, g, o)) < Len(s)
<1>1. PICK l \in Nat : l = Len(s) /\ g \in Nat /\ g <= l /\ o \in Nat /\ s \in Seq(Kinds)
  BY DEF Saying
<1>2. l \in 1 .. l /\ s[l] \in Kinds
  BY <1>1
<1>3. PICK d \in Nat, z \in Nat : d = Needed(s[l]) /\ z = Size(s[l]) /\ d <= z /\ q <= z
  BY <1>1, <1>2, NeededIs
<1>4. Saying(s, g, q)
  BY <1>1 DEF Saying
<1>5. ASSUME NEW k \in g + 1 .. l, k # l PROVE HasCome(s, g, q, k) <=> HasCome(s, g, o, k)
  BY <1>1, <1>5 DEF HasCome
<1>6. CASE g < l /\ ClearTo(s, g, l) /\ o < d /\ d <= q
  <2>1. PICK n \in Nat : n = (l - g) - 1 /\ g + (n + 1) = l
    <3>1. g < l /\ g \in Nat
      BY <1>1, <1>6
    <3>2. (l - g) - 1 \in Nat /\ g + (((l - g) - 1) + 1) = l
      BY <3>1
    <3>3. QED
      BY <3>2
  <2>2. ASSUME NEW k \in g + 1 .. l - 1 PROVE HasCome(s, g, o, k) /\ HasCome(s, g, q, k)
    <3>1. k # l
      BY <1>1
    <3>2. ClearTo(s, g, k)
      <4>1. \A i \in g + 1 .. k - 1 : i \in g + 1 .. l - 1
        BY <1>1
      <4>2. QED
        BY <1>6, <4>1 DEF ClearTo
    <3>3. QED
      BY <1>1, <3>1, <3>2 DEF HasCome
  <2>3. ~HasCome(s, g, o, l) /\ HasCome(s, g, q, l)
    <3>1. ~(d <= o)
      BY <1>1, <1>3, <1>6
    <3>2. QED
      BY <1>1, <1>3, <1>6, <3>1 DEF HasCome
  <2>4. ASSUME NEW j \in 1 .. l - g, j # n + 1 PROVE j \in 1 .. n /\ g + j \in g + 1 .. l - 1
    <3>1. g \in Nat /\ l - g = n + 1
      BY <1>1, <2>1
    <3>2. j \in 1 .. n
      BY <2>4, <3>1
    <3>3. QED
      BY <2>1, <3>1, <3>2
  <2>5. 1 .. n + 1 = 1 .. l - g /\ n + 1 \in 1 .. l - g /\ n + 1 \notin 1 .. n
    BY <1>1, <2>1
  <2>6. Waiting(s, g, o) = 1 .. n
    <3>1. ASSUME NEW j \in 1 .. l - g, HasCome(s, g, o, g + j) PROVE j \in 1 .. n
      BY <2>1, <2>3, <2>4, <3>1
    <3>2. ASSUME NEW j \in 1 .. n PROVE j \in 1 .. l - g /\ HasCome(s, g, o, g + j)
      <4>1. j \in 1 .. n + 1 /\ j # n + 1
        OBVIOUS
      <4>2. QED
        BY <2>2, <2>4, <2>5, <4>1
    <3>3. QED
      BY <1>1, <3>1, <3>2 DEF Waiting
  <2>7. Waiting(s, g, q) = 1 .. n + 1
    <3>1. ASSUME NEW j \in 1 .. n + 1 PROVE j \in 1 .. l - g /\ HasCome(s, g, q, g + j)
      <4>1. j \in 1 .. l - g
        BY <2>5
      <4>2. QED
        BY <2>1, <2>2, <2>3, <2>4, <4>1
    <3>2. QED
      BY <1>1, <2>5, <3>1 DEF Waiting
  <2>8. PICK x \in Seq(Kinds) : x = Inbox(s, g, o) /\ Len(x) = n /\ \A j \in 1 .. n : x[j] = s[g + j]
    BY <2>6, InboxIs
  <2>9. PICK y \in Seq(Kinds) : y = Inbox(s, g, q) /\ Len(y) = n + 1 /\ \A j \in 1 .. n + 1 : y[j] = s[g + j]
    <3>1. n + 1 \in Nat
      OBVIOUS
    <3>2. QED
      BY <1>4, <2>7, <3>1, InboxIs
  <2>10. y = Append(x, s[l])
    <3>0. PICK e \in Kinds : e = s[l]
      BY <1>2
    <3>1. PICK w \in Seq(Kinds) : /\ w = Append(x, e) /\ Len(w) = n + 1 /\ w[n + 1] = e
                                  /\ \A j \in 1 .. n : w[j] = x[j]
      <4>1. PICK w : w = Append(x, e)
        OBVIOUS
      <4>2. /\ w \in Seq(Kinds) /\ Len(w) = Len(x) + 1 /\ w[Len(x) + 1] = e
            /\ \A j \in 1 .. Len(x) : w[j] = x[j]
        BY <4>1, AppendIs
      <4>3. QED
        BY <2>8, <4>1, <4>2
    <3>2. y[n + 1] = e
      BY <2>1, <2>9, <3>0
    <3>3. \A j \in 1 .. n : y[j] = x[j]
      BY <2>8, <2>9
    <3>4. \A j \in 1 .. n + 1 : y[j] = w[j]
      BY <3>1, <3>2, <3>3
    <3>5. QED
      BY <2>9, <3>0, <3>1, <3>4
  <2>11. ~InPart(s, g, q)
    BY <1>1, <1>3, <1>6 DEF InPart
  <2>12. n < l
    BY <1>1, <2>1
  <2>13. QED
    BY <1>1, <2>8, <2>9, <2>10, <2>11, <2>12
<1>7. CASE ~(g < l /\ ClearTo(s, g, l) /\ o < d /\ d <= q)
  <2>1. ASSUME NEW k \in g + 1 .. l PROVE HasCome(s, g, q, k) <=> HasCome(s, g, o, k)
    <3>1. CASE k # l
      BY <1>5, <3>1
    <3>2. CASE k = l
      <4>1. g < l
        BY <1>1, <3>2
      <4>2. (ClearTo(s, g, l) /\ d <= q) <=> (ClearTo(s, g, l) /\ d <= o)
        BY <1>1, <1>3, <1>7, <4>1
      <4>3. QED
        BY <1>1, <1>3, <3>2, <4>2 DEF HasCome
    <3>3. QED
      BY <3>1, <3>2
  <2>2. \A j \in 1 .. l - g : g + j \in g + 1 .. l
    BY <1>1
  <2>3. Waiting(s, g, q) = Waiting(s, g, o)
    BY <1>1, <2>1, <2>2 DEF Waiting
  <2>4. Inbox(s, g, q) = Inbox(s, g, o)
    BY <2>3 DEF Inbox
  <2>5. InPart(s, g, o) => InPart(s, g, q)
    BY <1>1, <1>3, <1>7 DEF InPart
  <2>6. ASSUME InPart(s, g, q) PROVE Len(Inbox(s, g, o)) < l
    <3>1. PICK u \in Nat : u <= l - g /\ Waiting(s, g, o) = 1 .. u
      BY <1>1, WaitingIs
    <3>2. Len(Inbox(s, g, o)) = u
      BY <3>1, InboxIs
    <3>3. ~HasCome(s, g, o, l)
      <4>1. ~(d <= o)
        BY <1>1, <1>3, <2>6 DEF InPart
      <4>2. QED
        BY <1>1, <1>3, <4>1 DEF HasCome
    <3>4. u < l
      <4>1. ASSUME u = l - g, g < l PROVE FALSE
        <5>1. u \in 1 .. u /\ g + u = l
          BY <1>1, <4>1
        <5>2. u \in Waiting(s, g, o)
          BY <3>1, <5>1
        <5>3. QED
          BY <3>3, <5>1, <5>2 DEF Waiting
      <4>2. g < l
        BY <1>1, <2>6 DEF InPart
      <4>3. QED
        BY <1>1, <3>1, <4>1, <4>2
    <3>5. QED
      BY <3>2, <3>4
  <2>7. QED
    BY <1>1, <2>4, <2>5, <2>6
<1>8. QED
  BY <1>6, <1>7

\* What ntap_recv_msg returns is taken from the front of the queue.
LEMMA TakingTakes ==
  ASSUME NEW s, NEW g, NEW o, Saying(s, g, o), g < Len(s), Allowed(s[g + 1]),
         g + 1 = Len(s) => Size(s[g + 1]) <= o
  PROVE  /\ Saying(s, g + 1, o)
         /\ Inbox(s, g, o) # <<>> /\ Head(Inbox(s, g, o)) = s[g + 1]
         /\ Inbox(s, g + 1, o) = Tail(Inbox(s, g, o))
         /\ InPart(s, g + 1, o) <=> InPart(s, g, o)
<1>1. PICK l \in Nat : l = Len(s) /\ g \in Nat /\ g < l /\ o \in Nat /\ s \in Seq(Kinds)
  BY DEF Saying
<1>2. g + 1 \in 1 .. l /\ s[g + 1] \in Kinds /\ g + 1 \in Nat /\ g + 1 <= l
  <2>1. g + 1 \in 1 .. l /\ g + 1 \in Nat /\ g + 1 <= l
    BY <1>1
  <2>2. QED
    BY <1>1, <2>1
<1>3. Needed(s[g + 1]) = Size(s[g + 1])
  BY <1>2, NeededIs
<1>4. Saying(s, g + 1, o)
  BY <1>1, <1>2 DEF Saying
<1>5. ASSUME NEW k \in Nat PROVE ClearTo(s, g + 1, k) <=> ClearTo(s, g, k)
  <2>1. ASSUME ClearTo(s, g + 1, k), NEW i \in g + 1 .. k - 1 PROVE Allowed(s[i])
    <3>1. i = g + 1 \/ i \in (g + 1) + 1 .. k - 1
      BY <1>1
    <3>2. QED
      BY <2>1, <3>1 DEF ClearTo
  <2>2. ASSUME ClearTo(s, g, k), NEW i \in (g + 1) + 1 .. k - 1 PROVE Allowed(s[i])
    <3>1. i \in g + 1 .. k - 1
      BY <1>1
    <3>2. QED
      BY <2>2, <3>1 DEF ClearTo
  <2>3. QED
    BY <2>1, <2>2 DEF ClearTo
<1>6. ASSUME NEW k \in Nat PROVE HasCome(s, g + 1, o, k) <=> HasCome(s, g, o, k)
  BY <1>5 DEF HasCome
<1>7. HasCome(s, g, o, g + 1)
  <2>1. ClearTo(s, g, g + 1)
    <3>1. g + 1 .. (g + 1) - 1 = {}
      BY <1>1
    <3>2. QED
      BY <3>1 DEF ClearTo
  <2>2. QED
    BY <1>1, <1>3, <2>1 DEF HasCome
<1>8. PICK u \in Nat : u <= l - g /\ Waiting(s, g, o) = 1 .. u
  BY <1>1, WaitingIs
<1>9. u # 0
  <2>1. 1 \in 1 .. l - g
    BY <1>1
  <2>2. 1 \in Waiting(s, g, o)
    BY <1>1, <1>7, <2>1 DEF Waiting
  <2>3. QED
    BY <1>8, <2>2
<1>10. PICK v \in Nat : u = v + 1
  BY <1>9
<1>11. Waiting(s, g + 1, o) = 1 .. v
  <2>1. ASSUME NEW j \in 1 .. v PROVE j \in 1 .. l - (g + 1) /\ HasCome(s, g + 1, o, (g + 1) + j)
    <3>1. j + 1 \in 1 .. u /\ (g + 1) + j = g + (j + 1) /\ j \in 1 .. l - (g + 1) /\ g + (j + 1) \in Nat
      BY <1>1, <1>8, <1>10
    <3>2. HasCome(s, g, o, g + (j + 1))
      BY <1>1, <1>8, <3>1 DEF Waiting
    <3>3. QED
      BY <1>6, <3>1, <3>2
  <2>2. ASSUME NEW j \in 1 .. l - (g + 1), HasCome(s, g + 1, o, (g + 1) + j) PROVE j \in 1 .. v
    <3>1. j + 1 \in 1 .. l - g /\ (g + 1) + j = g + (j + 1) /\ g + (j + 1) \in Nat /\ j \in Nat
      BY <1>1
    <3>2. HasCome(s, g, o, g + (j + 1))
      BY <1>6, <2>2, <3>1
    <3>3. j + 1 \in 1 .. u
      BY <1>1, <1>8, <3>1, <3>2 DEF Waiting
    <3>4. QED
      BY <1>10, <3>3
  <2>3. QED
    BY <1>1, <2>1, <2>2 DEF Waiting
<1>12. PICK x \in Seq(Kinds) : x = Inbox(s, g, o) /\ Len(x) = u /\ \A j \in 1 .. u : x[j] = s[g + j]
  BY <1>8, InboxIs
<1>13. PICK y \in Seq(Kinds) : /\ y = Inbox(s, g + 1, o) /\ Len(y) = v
                               /\ \A j \in 1 .. v : y[j] = s[(g + 1) + j]
  BY <1>4, <1>11, InboxIs
<1>14. x # <<>> /\ Head(x) = s[g + 1]
  <2>1. Len(x) # 0 /\ 1 \in 1 .. u
    BY <1>9, <1>12
  <2>2. x # <<>> /\ x[1] = s[g + 1]
    BY <1>12, <2>1
  <2>3. QED
    BY <2>2
<1>15. y = Tail(x)
  <2>1. PICK w \in Seq(Kinds) : w = Tail(x) /\ Len(w) = v /\ \A j \in 1 .. v : w[j] = x[j + 1]
    <3>1. Len(x) = v + 1
      BY <1>10, <1>12
    <3>2. QED
      BY <3>1, TailIs
  <2>2. ASSUME NEW j \in 1 .. v PROVE y[j] = w[j]
    <3>1. j + 1 \in 1 .. u /\ (g + 1) + j = g + (j + 1)
      BY <1>1, <1>10
    <3>2. QED
      BY <1>12, <1>13, <2>1, <3>1
  <2>3. QED
    BY <1>13, <2>1, <2>2
<1>16. InPart(s, g + 1, o) <=> InPart(s, g, o)
  <2>1. CASE g + 1 = l
    <3>1. ~InPart(s, g + 1, o)
      BY <1>1, <2>1 DEF InPart
    <3>2. PICK z \in Nat : z = Needed(s[l]) /\ z <= o
      BY <1>1, <1>2, <1>3, <2>1, NeededIs
    <3>3. ~InPart(s, g, o)
      BY <1>1, <3>2 DEF InPart
    <3>4. QED
      BY <3>1, <3>3
  <2>2. CASE g + 1 # l
    <3>1. g + 1 < l
      BY <1>1, <2>2
    <3>2. ClearTo(s, g + 1, l) <=> ClearTo(s, g, l)
      BY <1>5
    <3>3. QED
      BY <1>1, <3>1, <3>2 DEF InPart
  <2>3. QED
    BY <2>1, <2>2
<1>17. QED
  BY <1>4, <1>12, <1>13, <1>14, <1>15, <1>16

\* A message whose length is refused is in the queue from its header on,
LEMMA RefusedIsFirst ==
  ASSUME NEW s, NEW g, NEW o, Saying(s, g, o), g < Len(s), ~Allowed(s[g + 1]),
         g + 1 = Len(s) => HdrSize <= o
  PROVE  Head(Inbox(s, g, o)) = s[g + 1]
<1>1. PICK l \in Nat : l = Len(s) /\ g \in Nat /\ g < l /\ o \in Nat /\ s \in Seq(Kinds)
  BY DEF Saying
<1>2. s[g + 1] \in Kinds
  <2>1. g + 1 \in 1 .. l
    BY <1>1
  <2>2. QED
    BY <1>1, <2>1
<1>3. Needed(s[g + 1]) = HdrSize
  BY <1>2, NeededIs
<1>4. HasCome(s, g, o, g + 1)
  <2>1. ClearTo(s, g, g + 1)
    <3>1. g + 1 .. (g + 1) - 1 = {}
      BY <1>1
    <3>2. QED
      BY <3>1 DEF ClearTo
  <2>2. QED
    BY <1>1, <1>3, <2>1 DEF HasCome
<1>5. PICK u \in Nat : u <= l - g /\ Waiting(s, g, o) = 1 .. u
  BY <1>1, WaitingIs
<1>6. 1 \in 1 .. u
  <2>1. 1 \in 1 .. l - g
    BY <1>1
  <2>2. 1 \in Waiting(s, g, o)
    BY <1>1, <1>4, <2>1 DEF Waiting
  <2>3. QED
    BY <1>5, <2>2
<1>7. PICK x \in Seq(Kinds) : x = Inbox(s, g, o) /\ Len(x) = u /\ \A j \in 1 .. u : x[j] = s[g + j]
  BY <1>5, InboxIs
<1>8. x[1] = s[g + 1] /\ x # <<>>
  BY <1>6, <1>7
<1>9. QED
  BY <1>7, <1>8

\* and while less than is needed of the only one has been sent the queue is empty.
LEMMA NothingHasCome ==
  ASSUME NEW s, NEW g, NEW o, Saying(s, g, o),
         g = Len(s) \/ (g + 1 = Len(s) /\ o < Needed(s[Len(s)]))
  PROVE  Inbox(s, g, o) = <<>>
<1>1. PICK l \in Nat : l = Len(s) /\ g \in Nat /\ g <= l /\ o \in Nat /\ s \in Seq(Kinds)
  BY DEF Saying
<1>2. ASSUME NEW j \in Waiting(s, g, o) PROVE FALSE
  <2>1. j \in 1 .. l - g /\ HasCome(s, g, o, g + j)
    BY <1>1 DEF Waiting
  <2>2. g + j = l /\ g + 1 = l
    BY <1>1, <2>1
  <2>3. Needed(s[l]) <= o /\ o < Needed(s[l])
    BY <1>1, <2>1, <2>2 DEF HasCome
  <2>4. Needed(s[l]) \in Nat
    BY <1>1, <2>2, HasComeAt, <2>1, NeededIs
  <2>5. QED
    BY <1>1, <2>3, <2>4
<1>3. Waiting(s, g, o) = 1 .. 0
  BY <1>2
<1>4. Inbox(s, g, o) \in Seq(Kinds) /\ Len(Inbox(s, g, o)) = 0
  BY <1>3, InboxIs
<1>5. QED
  BY <1>4

-----------------------------------------------------------------------------
(* Connections as Sockets has them *)

Conn(q, p, l) == [in |-> q, part |-> p, life |-> l, stall |-> FALSE]

\* A message begins, it comes, the peer ends, and the oldest message is taken.
LEMMA BeginsOne ==
  ASSUME NEW q, NEW max \in Nat, Len(q) < max, NEW p, ~p
  PROVE  Conn(q, TRUE, "up") \in Fragments(Conn(q, p, "up"), max)
<1>1. PICK t : t = FALSE
  OBVIOUS
<1>2. PICK c : c = [in |-> q, part |-> p, life |-> "up", stall |-> t]
  OBVIOUS
<1>3. \A y, z, w : Conn(y, z, w) = [in |-> y, part |-> z, life |-> w, stall |-> t]
  BY <1>1 DEF Conn
<1>4. Conn(q, p, "up") = c
  BY <1>2, <1>3
<1>5. c.in = q /\ c.part = p /\ c.life = "up"
  BY <1>2
<1>6. PICK x : x = TRUE
  OBVIOUS
<1>7. ~c.part
  BY <1>5
<1>8. Fragments(c, max) = {[c EXCEPT !.part = x]}
  BY <1>5, <1>6, <1>7 DEF Fragments
<1>9. [c EXCEPT !.part = x] = [in |-> q, part |-> x, life |-> "up", stall |-> t]
  BY <1>2
<1>10. QED
  BY <1>3, <1>4, <1>6, <1>8, <1>9

\* A message that comes is one more in the queue.
LEMMA AddsOne ==
  ASSUME NEW q, NEW max \in Nat, Len(q) < max, NEW p, NEW kinds, NEW m \in kinds
  PROVE  Conn(Append(q, m), FALSE, "up") \in Arrivals(Conn(q, p, "up"), kinds, max)
<1>1. PICK t : t = FALSE
  OBVIOUS
<1>2. PICK c : c = [in |-> q, part |-> p, life |-> "up", stall |-> t]
  OBVIOUS
<1>3. \A y, z, w : Conn(y, z, w) = [in |-> y, part |-> z, life |-> w, stall |-> t]
  BY <1>1 DEF Conn
<1>4. Conn(q, p, "up") = c
  BY <1>2, <1>3
<1>5. c.in = q /\ c.part = p /\ c.life = "up"
  BY <1>2
<1>6. Arrivals(c, kinds, max) = {[c EXCEPT !.in = Append(@, k), !.part = t] : k \in kinds}
  BY <1>1, <1>5 DEF Arrivals
<1>7. PICK d : d = [c EXCEPT !.in = Append(c.in, m)]
  OBVIOUS
<1>8. PICK w : w = Append(c.in, m)
  OBVIOUS
<1>9. d = [in |-> w, part |-> p, life |-> "up", stall |-> t]
  BY <1>2, <1>7, <1>8
<1>10. [d EXCEPT !.part = t] = [in |-> w, part |-> t, life |-> "up", stall |-> t]
  BY <1>9
<1>11. [c EXCEPT !.in = Append(@, m), !.part = t] = [d EXCEPT !.part = t]
  BY <1>7, Zenon
<1>12. [c EXCEPT !.in = Append(@, m), !.part = t] \in Arrivals(c, kinds, max)
  BY <1>6
<1>13. [in |-> w, part |-> t, life |-> "up", stall |-> t] \in Arrivals(c, kinds, max)
  BY <1>10, <1>11, <1>12
<1>14. Conn(Append(q, m), FALSE, "up") = [in |-> w, part |-> t, life |-> "up", stall |-> t]
  BY <1>1, <1>3, <1>5, <1>8
<1>15. QED
  BY <1>4, <1>13, <1>14

\* The peer's end of a connection.
LEMMA EndsIt ==
  ASSUME NEW q, NEW p
  PROVE  Conn(q, FALSE, "eof") \in Endings(Conn(q, p, "up"))
<1>1. PICK t : t = FALSE
  OBVIOUS
<1>2. PICK c : c = [in |-> q, part |-> p, life |-> "up", stall |-> t]
  OBVIOUS
<1>3. \A y, z, w : Conn(y, z, w) = [in |-> y, part |-> z, life |-> w, stall |-> t]
  BY <1>1 DEF Conn
<1>4. Conn(q, p, "up") = c
  BY <1>2, <1>3
<1>5. c.in = q /\ c.part = p /\ c.life = "up"
  BY <1>2
<1>6. Endings(c) = {[c EXCEPT !.life = "eof", !.part = t]}
  BY <1>1, <1>5 DEF Endings
<1>7. PICK d : d = [c EXCEPT !.life = "eof"]
  OBVIOUS
<1>8. d = [in |-> q, part |-> p, life |-> "eof", stall |-> t]
  BY <1>2, <1>7
<1>9. [d EXCEPT !.part = t] = [in |-> q, part |-> t, life |-> "eof", stall |-> t]
  BY <1>8
<1>10. [c EXCEPT !.life = "eof", !.part = t] = [d EXCEPT !.part = t]
  BY <1>7, Zenon
<1>11. QED
  BY <1>1, <1>3, <1>4, <1>6, <1>9, <1>10

\* What recv takes is the oldest message.
LEMMA TakesOne ==
  ASSUME NEW q, NEW p, NEW l
  PROVE  Taken(Conn(q, p, l)) = Conn(Tail(q), p, l)
<1>1. PICK t : t = FALSE
  OBVIOUS
<1>2. PICK c : c = [in |-> q, part |-> p, life |-> l, stall |-> t]
  OBVIOUS
<1>3. \A y, z, w : Conn(y, z, w) = [in |-> y, part |-> z, life |-> w, stall |-> t]
  BY <1>1 DEF Conn
<1>4. Conn(q, p, l) = c
  BY <1>2, <1>3
<1>5. c.in = q /\ c.part = p /\ c.life = l
  BY <1>2
<1>6. Taken(c) = [c EXCEPT !.in = Tail(c.in)]
  BY DEF Taken
<1>7. Taken(c) = [in |-> Tail(q), part |-> p, life |-> l, stall |-> t]
  BY <1>2, <1>5, <1>6
<1>8. QED
  BY <1>3, <1>4, <1>7

\* The fields of one.
LEMMA FieldsAre ==
  ASSUME NEW q, NEW p, NEW l
  PROVE  Conn(q, p, l).in = q /\ Conn(q, p, l).life = l
BY DEF Conn

-----------------------------------------------------------------------------
(* The receiver's place in a message *)

\* n bytes are held of the message after the first g; while the receiver is at
\* work, they do not decide about it yet.
HeldOf(s, g, n, o) ==
    g < Len(s) => n <= Size(s[g + 1]) /\ (o = "open" => n < Needed(s[g + 1]))
Holding == HeldOf(said, Len(got), Len(buf), outcome)

\* What was said could be said, and no more often than the bound has it.
SaidRight == Len(said) <= MaxMessages /\ \A k \in 1 .. Len(said) : said[k] \in Sendable

ConnInv == IndInv /\ Holding /\ SaidRight

\* What can be sent is a type and a length.
LEMMA SendableAre ==
  ASSUME mtu \in Nat, NEW m \in Sendable
  PROVE  m \in Kinds
<1>1. {Overhead, MinFrame, FrameExtra, PlainMax} \subseteq Nat
  BY FramingAssumption
<1>2. CASE m \in {Message("tap", Overhead + n) : n \in MinFrame .. mtu + FrameExtra}
  <2>1. PICK n \in MinFrame .. mtu + FrameExtra : m = Message("tap", Overhead + n)
    BY <1>2
  <2>2. Overhead + n \in Nat
    BY <1>1
  <2>3. QED
    BY <2>1, <2>2 DEF Message, Kinds
<1>3. CASE m \in {Message("plain", n) : n \in 0 .. PlainMax}
  <2>1. PICK n \in 0 .. PlainMax : m = Message("plain", n)
    BY <1>3
  <2>2. n \in Nat
    BY <1>1
  <2>3. QED
    BY <2>1, <2>2 DEF Message, Kinds
<1>4. QED
  BY <1>2, <1>3 DEF Sendable

\* What IndInv says of types, in the form the proofs below use.
LEMMA TypesAre ==
  ASSUME IndInv
  PROVE  /\ said \in Seq(Kinds) /\ got \in Seq(Kinds) /\ buf \in Seq(Bytes) /\ wire \in Seq(Bytes)
         /\ Len(said) \in Nat /\ Len(got) \in Nat /\ Len(buf) \in Nat /\ Len(wire) \in Nat
         /\ off \in Nat /\ Len(got) <= Len(said)
         /\ Saying(said, Len(got), off)
<1>1. /\ said \in Seq(Kinds) /\ got \in Seq(Kinds) /\ buf \in Seq(Bytes) /\ wire \in Seq(Bytes)
      /\ off \in Nat /\ (said # <<>> => off <= Size(said[Len(said)]))
  BY DEF IndInv, Typed
<1>2. Len(got) <= Len(said)
  BY DEF IndInv, MessagesSurvive
<1>3. Len(said) \in Nat /\ Len(got) \in Nat /\ Len(buf) \in Nat /\ Len(wire) \in Nat
  BY <1>1
<1>4. QED
  BY <1>1, <1>2, <1>3 DEF Saying

\* The three ways a recv() ends in, for the h bytes of message m then held.
GoesOn(m, h) ==
    /\ h < HdrSize \/ (Allowed(m) /\ h < Size(m))
    /\ Len(buf') = h /\ UNCHANGED <<got, outcome>>
Refuses(m, h) ==
    HdrSize <= h /\ ~Allowed(m) /\ Len(buf') = h /\ outcome' = "refused" /\ got' = got
Returns(m, h) ==
    /\ Allowed(m) /\ h = Size(m)
    /\ buf' = <<>> /\ got' = Append(got, m) /\ UNCHANGED outcome

\* It holds no more of the message than there is, nor than has been sent.
LEMMA RecvSteps ==
  ASSUME IndInv, RecvBytes
  PROVE  /\ UNCHANGED <<mtu, said, off, life>> /\ outcome = "open" /\ Len(got) < Len(said)
         /\ \E h \in Nat :
               /\ h <= Size(said[Len(got) + 1])
               /\ Len(got) + 1 = Len(said) => h <= off
               /\ \/ GoesOn(said[Len(got) + 1], h)
                  \/ Refuses(said[Len(got) + 1], h)
                  \/ Returns(said[Len(got) + 1], h)
<1>1. PICK start, base : base \in Nat /\ Laid(start) /\ InPlace(start, base)
  BY DEF IndInv, OneStream
<1> DEFINE On(bytes) ==
             /\ \/ Len(bytes) < HdrSize
                \/ \E m \in Announced(bytes) : Allowed(m) /\ Len(bytes) < Size(m)
             /\ buf' = bytes /\ UNCHANGED <<got, outcome>>
           Up(bytes) ==
             /\ Len(bytes) >= HdrSize /\ \A m \in Announced(bytes) : ~Allowed(m)
             /\ buf' = bytes /\ outcome' = "refused" /\ UNCHANGED got
           Back(bytes) ==
             \E m \in Announced(bytes) :
                /\ Allowed(m) /\ Len(bytes) = Size(m)
                /\ got' = Append(got, IF \E k \in DOMAIN said : PartOf(bytes, k)
                                      THEN m ELSE Message("garbled", 0))
                /\ buf' = <<>> /\ UNCHANGED outcome
<1>2. PICK n \in Reads(Missing) :
        \E bytes : bytes = buf \o SubSeq(wire, 1, n) /\ (On(bytes) \/ Up(bytes) \/ Back(bytes))
  BY DEF RecvBytes
<1>3. PICK bytes : bytes = buf \o SubSeq(wire, 1, n) /\ (On(bytes) \/ Up(bytes) \/ Back(bytes))
  BY <1>2
<1>4. UNCHANGED <<mtu, said, off, life>> /\ outcome = "open"
  BY DEF RecvBytes
<1>5. On(bytes) \/ Up(bytes) \/ Back(bytes)
  BY <1>3
<1>6. bytes = buf \o SubSeq(wire, 1, n)
  BY <1>3
<1> HIDE DEF On, Up, Back
<1>7. Continued(n, bytes)
  BY <1>1, <1>6, RecvReads
<1>8. PICK g \in Nat : g = Len(got) + 1
  BY TypesAre
<1>9. PICK m \in Kinds : m = said[g] /\ g \in 1 .. Len(said)
  BY <1>7, <1>8 DEF Continued
<1>10. PICK h \in Nat : h = Len(bytes)
  <2>1. bytes \in Seq(Bytes)
    BY <1>7 DEF Continued
  <2>2. QED
    BY <2>1
<1>11. Size(m) \in Nat /\ HdrSize <= Size(m) /\ HdrSize \in Nat
  BY Sizes
<1>12. /\ n \in 1 .. Len(wire) /\ h = Len(buf) + n /\ Len(buf) + n <= Size(m)
       /\ h >= HdrSize => Announced(bytes) = {m}
       /\ \A j \in 1 .. h : bytes[j] = <<g, j>>
       /\ bytes \in Seq(Bytes)
  BY <1>7, <1>8, <1>9, <1>10 DEF Continued
<1>13. Len(got) < Len(said)
  BY <1>8, <1>9, TypesAre
<1>14. g = Len(said) => h <= off
  <2> SUFFICES ASSUME g = Len(said) PROVE h <= off
    OBVIOUS
  <2>1. said # <<>> /\ Len(said) \in 1 .. Len(said)
    BY <1>9, TypesAre
  <2>2. PICK a \in Nat, w \in Nat, z \in Nat : a = Len(buf) /\ w = Len(wire) /\ z = start[Len(said)]
    BY <1>1, <2>1, TypesAre DEF Laid
  <2>3. base + a + w = z + off /\ base = z
    <3>1. base + Len(buf) + Len(wire) = Written(start) /\ base = start[Len(got) + 1]
      BY <1>1, <1>13 DEF InPlace
    <3>2. Written(start) = start[Len(said)] + off
      BY <2>1 DEF Written
    <3>3. QED
      BY <1>8, <2>2, <3>1, <3>2
  <2>4. n \in Nat /\ n <= w /\ h = a + n
    BY <1>12, <2>2
  <2>5. off \in Nat
    BY TypesAre
  <2>6. QED
    BY <2>3, <2>4, <2>5
<1>15. CASE On(bytes)
  <2>1. h < HdrSize \/ (Allowed(m) /\ h < Size(m))
    <3>1. CASE h < HdrSize
      BY <3>1
    <3>2. CASE h >= HdrSize
      <4>1. ~(h < HdrSize) /\ Announced(bytes) = {m}
        BY <1>11, <1>12, <3>2
      <4>2. QED
        BY <1>10, <1>15, <4>1 DEF On
    <3>3. QED
      BY <1>11, <3>1, <3>2
  <2>2. Len(buf') = h /\ UNCHANGED <<got, outcome>>
    BY <1>10, <1>15 DEF On
  <2>3. GoesOn(m, h)
    BY <2>1, <2>2 DEF GoesOn
  <2>4. QED
    BY <1>4, <1>8, <1>9, <1>12, <1>13, <1>14, <2>3
<1>16. CASE Up(bytes)
  <2>1. h >= HdrSize /\ Len(buf') = h /\ outcome' = "refused" /\ got' = got
    BY <1>10, <1>16 DEF Up
  <2>2. ~Allowed(m)
    BY <1>12, <1>16, <2>1 DEF Up
  <2>3. Refuses(m, h)
    BY <1>11, <2>1, <2>2 DEF Refuses
  <2>4. QED
    BY <1>4, <1>8, <1>9, <1>12, <1>13, <1>14, <2>3
<1>17. CASE Back(bytes)
  <2>1. PICK x \in Announced(bytes) :
          /\ Allowed(x) /\ Len(bytes) = Size(x)
          /\ got' = Append(got, IF \E k \in DOMAIN said : PartOf(bytes, k)
                                THEN x ELSE Message("garbled", 0))
          /\ buf' = <<>> /\ UNCHANGED outcome
    BY <1>17 DEF Back
  <2>2. h >= HdrSize
    <3>1. CASE h < HdrSize
      BY <1>10, <2>1, <3>1 DEF Announced
    <3>2. QED
      BY <1>11, <3>1
  <2>3. x = m
    <3>1. Announced(bytes) = {m}
      BY <1>12, <2>2
    <3>2. x \in {m}
      BY <2>1, <3>1
    <3>3. QED
      BY <3>2
  <2>4. \E k \in DOMAIN said : PartOf(bytes, k)
    <3>1. DOMAIN bytes = 1 .. h /\ g \in DOMAIN said
      <4>1. bytes \in Seq(Bytes) /\ said \in Seq(Kinds)
        BY <1>12, TypesAre
      <4>2. QED
        BY <1>9, <1>10, <4>1
    <3>2. PartOf(bytes, g)
      BY <1>12, <3>1 DEF PartOf
    <3>3. QED
      BY <3>1, <3>2
  <2>5. got' = Append(got, m)
    BY <2>1, <2>3, <2>4
  <2>6. Returns(m, h)
    BY <1>10, <2>1, <2>3, <2>5 DEF Returns
  <2>7. QED
    BY <1>4, <1>8, <1>9, <1>12, <1>13, <1>14, <2>6
<1>18. QED
  BY <1>5, <1>15, <1>16, <1>17

\* Once all that was said has been returned, nothing more is held.
LEMMA NothingHeld == ASSUME IndInv, Len(got) = Len(said) PROVE Len(buf) = 0 /\ Len(wire) = 0
<1>1. PICK start, base : base \in Nat /\ Laid(start) /\ InPlace(start, base)
  BY DEF IndInv, OneStream
<1>2. base + Len(buf) + Len(wire) = base
  BY <1>1, TypesAre DEF InPlace
<1>3. PICK a \in Nat, w \in Nat : a = Len(buf) /\ w = Len(wire)
  BY TypesAre
<1>4. base + a + w = base
  BY <1>2, <1>3
<1>5. QED
  BY <1>1, <1>3, <1>4

\* What is held stays less than what decides, and what was said stays said.
LEMMA HoldingInit == Init => Holding /\ SaidRight
<1> SUFFICES ASSUME Init PROVE Holding /\ SaidRight
  OBVIOUS
<1>1. Len(said) = 0 /\ Len(got) = 0
  BY DEF Init
<1>2. Holding
  BY <1>1 DEF Holding, HeldOf
<1>3. SaidRight
  BY <1>1, FramingAssumption DEF SaidRight
<1>4. QED
  BY <1>2, <1>3

\* A step that leaves the messages and what is held as they were.
LEMMA HoldingSame ==
  ASSUME ConnInv, UNCHANGED <<mtu, said, got, buf>>, outcome' = outcome \/ outcome' # "open"
  PROVE  Holding' /\ SaidRight'
<1>1. Holding'
  BY DEF ConnInv, Holding, HeldOf
<1>2. Sendable' = Sendable
  BY DEF Sendable
<1>3. SaidRight'
  BY <1>2 DEF ConnInv, SaidRight
<1>4. QED
  BY <1>1, <1>3

\* A message more is one that could be said.
LEMMA HoldingSend == ASSUME ConnInv, SendMessage PROVE Holding' /\ SaidRight'
<1>1. /\ UNCHANGED <<mtu, wire, life, buf, got, outcome>> /\ Len(said) < MaxMessages
      /\ \E m \in Sendable : said' = Append(said, m)
  BY DEF SendMessage
<1>2. PICK m \in Sendable : said' = Append(said, m)
  BY <1>1
<1>3. m \in Kinds
  BY <1>2, SendableAre DEF ConnInv, IndInv, Typed
<1>4. PICK l \in Nat, g \in Nat : l = Len(said) /\ g = Len(got) /\ g <= l
  BY TypesAre DEF ConnInv
<1>5. Len(said') = l + 1 /\ said'[l + 1] = m /\ \A k \in 1 .. l : said'[k] = said[k]
  BY <1>2, <1>3, <1>4, TypesAre DEF ConnInv
<1>6. Sendable' = Sendable
  BY <1>1 DEF Sendable
<1>7. SaidRight'
  <2>1. l + 1 <= MaxMessages
    BY <1>1, <1>4, FramingAssumption
  <2>2. \A k \in 1 .. l : said[k] \in Sendable
    BY <1>4 DEF ConnInv, SaidRight
  <2>3. \A k \in 1 .. l + 1 : said'[k] \in Sendable
    <3>1. \A k \in 1 .. l + 1 : k = l + 1 \/ k \in 1 .. l
      BY <1>4
    <3>2. QED
      BY <1>2, <1>5, <2>2, <3>1
  <2>4. QED
    BY <1>5, <1>6, <2>1, <2>3 DEF SaidRight
<1>8. HeldOf(said', g, Len(buf), outcome)
  <2>1. CASE g < l
    <3>1. g + 1 \in 1 .. l
      BY <1>4, <2>1
    <3>2. said'[g + 1] = said[g + 1]
      BY <1>5, <3>1
    <3>3. QED
      BY <1>4, <2>1, <3>2 DEF HeldOf, Holding, ConnInv
  <2>2. CASE g = l
    <3>1. Len(buf) = 0
      BY <1>4, <2>2, NothingHeld DEF ConnInv
    <3>2. said'[g + 1] = m
      BY <1>5, <2>2
    <3>3. 1 <= Needed(m) /\ Needed(m) \in Nat /\ Size(m) \in Nat
      BY <1>3, NeededIs
    <3>4. 0 < Needed(m) /\ 0 <= Size(m)
      BY <3>3
    <3>5. QED
      BY <3>1, <3>2, <3>4 DEF HeldOf
  <2>3. QED
    BY <1>4, <2>1, <2>2
<1>9. Holding'
  BY <1>1, <1>4, <1>8 DEF Holding
<1>10. QED
  BY <1>7, <1>9

\* A recv() that does not decide leaves less than what decides.
LEMMA HoldingRecv == ASSUME ConnInv, RecvBytes PROVE Holding' /\ SaidRight'
<1>1. UNCHANGED <<mtu, said, off, life>> /\ outcome = "open" /\ Len(got) < Len(said)
  BY RecvSteps DEF ConnInv
<1>2. PICK h \in Nat :
        /\ h <= Size(said[Len(got) + 1])
        /\ \/ GoesOn(said[Len(got) + 1], h)
           \/ Refuses(said[Len(got) + 1], h)
           \/ Returns(said[Len(got) + 1], h)
  BY RecvSteps DEF ConnInv
<1>3. PICK l \in Nat, g \in Nat : l = Len(said) /\ g = Len(got) /\ g < l
  BY <1>1, TypesAre DEF ConnInv
<1>4. PICK m \in Kinds : m = said[g + 1]
  <2>1. g + 1 \in 1 .. l
    BY <1>3
  <2>2. QED
    BY <1>3, <2>1, TypesAre DEF ConnInv
<1>5. /\ Needed(m) \in Nat /\ HdrSize <= Needed(m) /\ HdrSize \in Nat
      /\ Allowed(m) => Needed(m) = Size(m)
  BY NeededIs, FramingAssumption
<1>6. SaidRight'
  <2>1. Sendable' = Sendable
    BY <1>1 DEF Sendable
  <2>2. QED
    BY <1>1, <2>1 DEF ConnInv, SaidRight
<1>7. CASE GoesOn(m, h)
  <2>1. Len(buf') = h /\ got' = got /\ outcome' = "open" /\ h < Needed(m)
    BY <1>1, <1>5, <1>7 DEF GoesOn
  <2>2. HeldOf(said, g, h, "open")
    BY <1>2, <1>3, <1>4, <2>1 DEF HeldOf
  <2>3. QED
    BY <1>1, <1>3, <1>6, <2>1, <2>2 DEF Holding
<1>8. CASE Refuses(m, h)
  <2>1. Len(buf') = h /\ got' = got /\ outcome' = "refused"
    BY <1>8 DEF Refuses
  <2>2. HeldOf(said, g, h, "refused")
    BY <1>2, <1>3, <1>4 DEF HeldOf
  <2>3. QED
    BY <1>1, <1>3, <1>6, <2>1, <2>2 DEF Holding
<1>9. CASE Returns(m, h)
  <2>1. buf' = <<>> /\ got' = Append(got, m) /\ outcome' = outcome
    BY <1>9 DEF Returns
  <2>2. Len(got') = g + 1 /\ Len(buf') = 0
    BY <1>3, <2>1, TypesAre DEF ConnInv
  <2>3. HeldOf(said, g + 1, 0, outcome)
    <3> SUFFICES ASSUME g + 1 < l
                 PROVE  0 <= Size(said[(g + 1) + 1]) /\ 0 < Needed(said[(g + 1) + 1])
      BY <1>3 DEF HeldOf
    <3>1. (g + 1) + 1 \in 1 .. l
      BY <1>3
    <3>2. PICK x \in Kinds : x = said[(g + 1) + 1]
      BY <1>3, <3>1, TypesAre DEF ConnInv
    <3>3. 1 <= Needed(x) /\ Needed(x) \in Nat /\ Size(x) \in Nat
      BY NeededIs
    <3>4. QED
      BY <3>2, <3>3
  <2>4. QED
    BY <1>1, <1>6, <2>1, <2>2, <2>3 DEF Holding
<1>10. QED
  BY <1>2, <1>3, <1>4, <1>7, <1>8, <1>9

\* Every step keeps the invariant.
LEMMA ConnNext == ConnInv /\ [Next]_vars => ConnInv'
<1> SUFFICES ASSUME ConnInv, [Next]_vars PROVE ConnInv'
  OBVIOUS
<1>1. IndInv'
  BY StepInv DEF ConnInv
<1>2. Holding' /\ SaidRight'
  <2>1. CASE SendMessage
    BY <2>1, HoldingSend
  <2>2. CASE RecvBytes
    BY <2>2, HoldingRecv
  <2>3. CASE SendBytes \/ Hangup \/ RecvEnd \/ UNCHANGED vars
    <3>1. UNCHANGED <<mtu, said, got, buf>> /\ (outcome' = outcome \/ outcome' # "open")
      BY <2>3 DEF SendBytes, Hangup, RecvEnd, vars
    <3>2. QED
      BY <3>1, HoldingSame
  <2>4. QED
    BY <2>1, <2>2, <2>3 DEF Next
<1>3. QED
  BY <1>1, <1>2 DEF ConnInv

\* The receiver never has what decides about a message and asks for more.
LEMMA ConnInductive == Spec => []ConnInv
<1>1. Init => ConnInv
  BY InitInv, HoldingInit DEF ConnInv
<1>2. QED
  BY <1>1, ConnNext, PTL DEF Spec

-----------------------------------------------------------------------------
(* The bytes here and the messages they are of *)

\* The messages still to be returned lie behind one another from "base" on.
LEMMA StartsAre ==
  ASSUME IndInv, NEW start, NEW base \in Nat, Laid(start), InPlace(start, base),
         Len(got) < Len(said)
  PROVE  /\ Written(start) = start[Len(said)] + off
         /\ \A k \in 1 .. Len(said) :
               /\ start[k] \in Nat /\ said[k] \in Kinds /\ Size(said[k]) \in Nat
               /\ k < Len(said) => start[k] + Size(said[k]) <= start[Len(said)]
         /\ \A k \in Len(got) + 1 .. Len(said) : base <= start[k]
         /\ base = start[Len(got) + 1] /\ Len(said) \in 1 .. Len(said)
<1>1. PICK l \in Nat, g \in Nat : l = Len(said) /\ g = Len(got) /\ g < l
  BY TypesAre
<1>2. l \in 1 .. l /\ g + 1 \in 1 .. l
  BY <1>1
<1>3. said # <<>>
  BY <1>1, <1>2
<1>4. Written(start) = start[l] + off
  BY <1>1, <1>3 DEF Written
<1>5. base = start[g + 1]
  BY <1>1 DEF InPlace
<1>6. /\ \A k \in 1 .. l : start[k] \in Nat
      /\ \A k, i \in 1 .. l : k < i => start[k] + Size(said[k]) <= start[i]
  BY <1>1 DEF Laid
<1>7. \A k \in 1 .. l : said[k] \in Kinds
  BY <1>1, TypesAre
<1>8. \A k \in 1 .. l : Size(said[k]) \in Nat
  BY <1>7, Sizes
<1>9. ASSUME NEW k \in g + 1 .. l PROVE base <= start[k]
  <2>1. CASE k = g + 1
    BY <1>5, <2>1
  <2>2. CASE g + 1 < k
    <3>1. k \in 1 .. l
      BY <1>1
    <3>2. start[g + 1] + Size(said[g + 1]) <= start[k]
      BY <1>2, <1>6, <2>2, <3>1
    <3>3. Size(said[g + 1]) \in Nat /\ start[k] \in Nat
      BY <1>2, <1>6, <1>8, <3>1
    <3>4. QED
      BY <1>5, <3>2, <3>3
  <2>3. QED
    BY <1>1, <2>1, <2>2
<1>10. QED
  BY <1>1, <1>2, <1>4, <1>5, <1>6, <1>7, <1>8, <1>9

\* What the receiver holds and the wire, one behind the other.
LEMMA HereIs ==
  ASSUME IndInv, NEW start, NEW base \in Nat, Laid(start), InPlace(start, base)
  PROVE  /\ Here \in Seq(Bytes) /\ Len(Here) = Len(buf) + Len(wire) /\ Len(Here) \in Nat
         /\ base + Len(Here) = Written(start)
         /\ \A j \in 1 .. Len(buf) : Here[j] = buf[j]
         /\ \A j \in 1 .. Len(wire) : Here[Len(buf) + j] = wire[j]
<1>1. buf \in Seq(Bytes) /\ wire \in Seq(Bytes)
  BY TypesAre
<1>2. /\ Here \in Seq(Bytes) /\ Len(Here) = Len(buf) + Len(wire)
      /\ \A j \in 1 .. Len(buf) : Here[j] = buf[j]
      /\ \A j \in 1 .. Len(wire) : Here[Len(buf) + j] = wire[j]
  BY <1>1, Joined DEF Here
<1>3. PICK a \in Nat, w \in Nat : a = Len(buf) /\ w = Len(wire)
  BY TypesAre
<1>4. base + a + w = Written(start)
  BY <1>3 DEF InPlace
<1>5. base + Len(Here) = Written(start)
  BY <1>2, <1>3, <1>4
<1>6. Len(Here) \in Nat
  BY <1>2
<1>7. QED
  BY <1>2, <1>5, <1>6

\* Each byte is where the message it is of has it.
LEMMA ByteIs ==
  ASSUME ConnInv, NEW start, NEW base \in Nat, Laid(start), InPlace(start, base),
         NEW k \in 1 .. Len(said), NEW p \in 1 .. Size(said[k]), NEW j \in 1 .. Len(Here),
         start[k] + p = base + j
  PROVE  Here[j] = <<k, p>>
<1>1. IndInv
  BY DEF ConnInv
<1>2. PICK a \in Nat, w \in Nat : /\ a = Len(buf) /\ w = Len(wire) /\ Len(Here) = a + w
  BY <1>1, TypesAre, HereIs
<1>3. j \in Nat /\ 1 <= j /\ j <= a + w
  BY <1>2
<1>4. CASE a < j
  <2>1. PICK i \in 1 .. w : j = a + i
    <3>1. j - a \in 1 .. w /\ j = a + (j - a)
      BY <1>3, <1>4
    <3>2. QED
      BY <3>1
  <2>2. Here[j] = wire[i]
    BY <1>1, <1>2, <2>1, HereIs
  <2>3. start[k] + p = base + a + i
    BY <1>2, <2>1
  <2>4. wire[i] = <<k, p>>
    BY <1>2, <2>3 DEF InPlace
  <2>5. QED
    BY <2>2, <2>4
<1>5. CASE j <= a
  <2>1. PICK l \in Nat, g \in Nat : l = Len(said) /\ g = Len(got) /\ g < l
    <3>1. Len(got) # Len(said)
      BY <1>1, <1>2, <1>3, <1>5, NothingHeld
    <3>2. QED
      BY <1>1, <3>1, TypesAre
  <2>2. j \in 1 .. a
    BY <1>3, <1>5
  <2>3. Here[j] = <<g + 1, j>>
    BY <1>1, <1>2, <2>1, <2>2, HereIs DEF InPlace
  <2>4. g + 1 \in 1 .. l /\ k \in 1 .. l
    BY <2>1
  <2>5. PICK u \in Nat, v \in Nat, y \in Nat, z \in Nat :
          u = start[g + 1] /\ v = start[k] /\ y = Size(said[g + 1]) /\ z = Size(said[k])
    BY <1>1, <2>1, <2>4, StartsAre
  <2>6. base = u
    BY <1>1, <2>1, <2>5, StartsAre
  <2>7. a <= y
    BY <1>2, <2>1, <2>5 DEF ConnInv, Holding, HeldOf
  <2>8. p \in Nat /\ 1 <= p /\ p <= z /\ v + p = u + j
    BY <2>5, <2>6
  <2>9. ~(k < g + 1)
    <3>1. ASSUME k < g + 1 PROVE v + z <= u
      BY <2>1, <2>4, <2>5, <3>1 DEF Laid
    <3>2. ~(v + z <= u)
      BY <1>3, <2>8
    <3>3. QED
      BY <3>1, <3>2
  <2>10. ~(g + 1 < k)
    <3>1. ASSUME g + 1 < k PROVE u + y <= v
      BY <2>1, <2>4, <2>5, <3>1 DEF Laid
    <3>2. ~(u + y <= v)
      BY <1>3, <1>5, <2>7, <2>8
    <3>3. QED
      BY <3>1, <3>2
  <2>11. k = g + 1
    BY <2>1, <2>4, <2>9, <2>10
  <2>12. v = u
    BY <2>5, <2>11
  <2>13. p = j
    BY <1>3, <2>8, <2>12
  <2>14. QED
    BY <2>3, <2>11, <2>13
<1>6. QED
  BY <1>2, <1>3, <1>4, <1>5

\* Each byte is of a message that is still to be returned.
LEMMA ByteOf ==
  ASSUME IndInv, NEW start, NEW base \in Nat, Laid(start), InPlace(start, base),
         NEW j \in 1 .. Len(Here)
  PROVE  /\ Len(got) < Len(said)
         /\ \E k \in Len(got) + 1 .. Len(said) : \E p \in 1 .. Size(said[k]) : start[k] + p = base + j
<1>1. PICK n \in Nat : n = Len(Here) /\ base + n = Written(start)
  BY HereIs
<1>2. j \in Nat /\ 1 <= j /\ j <= n
  BY <1>1
<1>3. PICK l \in Nat, g \in Nat : l = Len(said) /\ g = Len(got) /\ g < l
  <2>1. CASE Len(got) = Len(said)
    <3>1. Len(Here) = 0
      BY <2>1, NothingHeld, HereIs
    <3>2. QED
      BY <1>1, <1>2, <3>1
  <2>2. CASE Len(got) # Len(said)
    BY <2>2, TypesAre
  <2>3. QED
    BY <2>1, <2>2
<1> DEFINE T == {k \in g + 1 .. l : IF k = l THEN base + j <= start[l] + off
                                             ELSE base + j <= start[k + 1]}
<1>4. Written(start) = start[l] + off /\ l \in g + 1 .. l /\ g + 1 \in g + 1 .. l
  BY <1>3, StartsAre
<1>5. l \in T
  <2>1. base + j <= base + n
    BY <1>2
  <2>2. QED
    BY <1>1, <1>4, <2>1
<1>6. T \subseteq Nat
  BY <1>3
<1>7. PICK k \in T : \A i \in T : k <= i
  <2> HIDE DEF T
  <2>1. QED
    BY <1>5, <1>6, HasLeast
<1>8. k \in g + 1 .. l /\ k \in 1 .. l
  BY <1>3
<1>9. PICK v \in Nat, z \in Nat : v = start[k] /\ z = Size(said[k])
  BY <1>3, <1>8, StartsAre
<1>10. v < base + j
  <2>1. CASE k = g + 1
    <3>1. base = v
      BY <1>3, <1>9, <2>1, StartsAre
    <3>2. QED
      BY <1>2, <3>1
  <2>2. CASE k # g + 1
    <3>1. k - 1 \in g + 1 .. l /\ k - 1 # l /\ ~(k <= k - 1) /\ (k - 1) + 1 = k
      BY <1>3, <1>8, <2>2
    <3>2. k - 1 \notin T
      BY <1>7, <3>1
    <3>3. ~(base + j <= start[k])
      BY <3>1, <3>2
    <3>4. QED
      BY <1>2, <1>9, <3>3
  <2>3. QED
    BY <2>1, <2>2
<1>11. base + j <= v + z
  <2>1. CASE k = l
    <3>1. base + j <= v + off
      BY <1>9, <2>1
    <3>2. off \in Nat /\ off <= z
      BY <1>3, <1>8, <1>9, <2>1, TypesAre DEF Saying
    <3>3. QED
      BY <1>2, <3>1, <3>2
  <2>2. CASE k # l
    <3>1. base + j <= start[k + 1]
      BY <2>2
    <3>2. k + 1 <= l
      BY <1>3, <1>8, <2>2
    <3>3. start[k + 1] = v + z
      BY <1>3, <1>8, <1>9, <3>2 DEF Laid
    <3>4. QED
      BY <3>1, <3>3
  <2>3. QED
    BY <2>1, <2>2
<1>12. PICK p \in 1 .. z : v + p = base + j
  <2>1. (base + j) - v \in 1 .. z /\ v + ((base + j) - v) = base + j
    BY <1>2, <1>9, <1>10, <1>11
  <2>2. QED
    BY <2>1
<1>13. QED
  BY <1>3, <1>8, <1>9, <1>12

\* A message is in the queue when the byte that decides about it has been sent.
LEMMA ArrivedIs ==
  ASSUME ConnInv, NEW k \in Len(got) + 1 .. Len(said)
  PROVE  Arrived(k) <=> HasCome(said, Len(got), off, k)
<1>1. PICK start, base : base \in Nat /\ Laid(start) /\ InPlace(start, base)
  BY DEF ConnInv, IndInv, OneStream
<1>2. IndInv
  BY DEF ConnInv
<1>3. PICK l \in Nat, g \in Nat : l = Len(said) /\ g = Len(got) /\ g < l
  BY <1>2, TypesAre
<1>4. k \in 1 .. l /\ k \in Nat
  BY <1>3
<1>5. PICK v \in Nat, z \in Nat, d \in Nat :
        v = start[k] /\ z = Size(said[k]) /\ d = Needed(said[k]) /\ 1 <= d /\ d <= z
  <2>1. start[k] \in Nat /\ said[k] \in Kinds
    BY <1>1, <1>2, <1>3, <1>4, StartsAre
  <2>2. QED
    BY <2>1, NeededIs
<1>6. Decides(k) = <<k, d>>
  BY <1>5 DEF Decides, Deciding, Needed
<1>7. PICK n \in Nat, x \in Nat : n = Len(Here) /\ x = start[l] /\ base + n = x + off /\ base <= v
  <2>1. Len(Here) \in Nat /\ base + Len(Here) = Written(start)
    BY <1>1, <1>2, HereIs
  <2>2. Written(start) = start[l] + off /\ start[l] \in Nat /\ base <= v
    BY <1>1, <1>2, <1>3, <1>5, StartsAre
  <2>3. QED
    BY <2>1, <2>2
<1>8. off \in Nat
  BY <1>2, TypesAre
<1>10. ASSUME NEW j \in 1 .. n, Here[j] = Decides(k) PROVE v + d = base + j
  <2>0. PICK i \in g + 1 .. l : \E p \in 1 .. Size(said[i]) : start[i] + p = base + j
    BY <1>1, <1>2, <1>3, <1>7, ByteOf
  <2>1. PICK p \in 1 .. Size(said[i]) : start[i] + p = base + j
    BY <2>0
  <2>2. i \in 1 .. l
    BY <1>3
  <2>3. Here[j] = <<i, p>>
    BY <1>1, <1>3, <1>7, <2>1, <2>2, ByteIs
  <2>4. i = k /\ p = d
    BY <1>6, <1>10, <2>3
  <2>5. QED
    BY <1>5, <2>1, <2>4
<1>11. ASSUME v + d <= base + n PROVE \E j \in 1 .. n : Here[j] = Decides(k)
  <2>1. PICK j \in 1 .. n : v + d = base + j
    <3>1. base \in Nat /\ base < v + d /\ v + d <= base + n
      BY <1>1, <1>5, <1>7, <1>11
    <3>2. PICK e \in Nat : e = v + d
      OBVIOUS
    <3>3. e - base \in 1 .. n /\ e = base + (e - base)
      BY <3>1, <3>2
    <3>4. QED
      BY <3>2, <3>3
  <2>2. Here[j] = <<k, d>>
    <3>1. start[k] + d = base + j /\ d \in 1 .. Size(said[k])
      BY <1>5, <2>1
    <3>2. j \in 1 .. Len(Here) /\ k \in 1 .. Len(said)
      BY <1>3, <1>4, <1>7
    <3>3. QED
      BY <1>1, <3>1, <3>2, ByteIs
  <2>3. QED
    BY <1>6, <2>2
<1>12. v + d <= base + n <=> (k = l => d <= off)
  <2>1. CASE k = l
    <3>1. v = x
      BY <1>5, <1>7, <2>1
    <3>2. base + n = v + off
      BY <1>7, <3>1
    <3>3. QED
      BY <1>8, <2>1, <3>2
  <2>2. CASE k # l
    <3>1. k < l
      BY <1>3, <1>4, <2>2
    <3>2. v + z <= x
      BY <1>1, <1>2, <1>3, <1>4, <1>5, <1>7, <3>1, StartsAre
    <3>3. base + n = x + off /\ d <= z
      BY <1>5, <1>7
    <3>4. QED
      BY <1>8, <2>2, <3>2, <3>3
  <2>3. QED
    BY <2>1, <2>2
<1>13. (\E j \in 1 .. n : Here[j] = Decides(k)) <=> (k = l => d <= off)
  <2>1. ASSUME NEW j \in 1 .. n, Here[j] = Decides(k) PROVE v + d <= base + n
    <3>1. v + d = base + j
      BY <1>10, <2>1
    <3>2. QED
      BY <1>1, <1>7, <3>1
  <2>2. QED
    BY <1>11, <1>12, <2>1
<1>14. DOMAIN Here = 1 .. n
  BY <1>1, <1>2, <1>7, HereIs
<1>15. (\A i \in g + 1 .. k - 1 : Allowed(said[i])) <=> ClearTo(said, g, k)
  BY DEF ClearTo
<1>16. Arrived(k) <=> (k = l => d <= off) /\ ClearTo(said, g, k)
  BY <1>3, <1>13, <1>14, <1>15 DEF Arrived
<1>17. HasCome(said, g, off, k) <=> (k = l => d <= off) /\ ClearTo(said, g, k)
  BY <1>3, <1>5 DEF HasCome
<1>18. QED
  BY <1>3, <1>16, <1>17

\* The queue, from what was said and sent alone.
LEMMA QueuedIs == ASSUME ConnInv PROVE Queued = Waiting(said, Len(got), off)
<1>1. PICK l \in Nat, g \in Nat : l = Len(said) /\ g = Len(got) /\ g <= l
  BY TypesAre DEF ConnInv
<1>2. ASSUME NEW j \in 1 .. l - g PROVE Arrived(g + j) <=> HasCome(said, g, off, g + j)
  <2>1. g + j \in g + 1 .. l
    BY <1>1
  <2>2. QED
    BY <1>1, <2>1, ArrivedIs
<1>3. Queued = {j \in 1 .. l - g : Arrived(g + j)}
  BY <1>1 DEF Queued
<1>4. Waiting(said, g, off) = {j \in 1 .. l - g : HasCome(said, g, off, g + j)}
  BY <1>1 DEF Waiting
<1>5. QED
  BY <1>1, <1>2, <1>3, <1>4

\* When nothing refused waits, nothing said before the last message is refused.
LEMMA ClearSoFar ==
  ASSUME NEW s, NEW g, NEW o, Saying(s, g, o), \A j \in Waiting(s, g, o) : Allowed(s[g + j])
  PROVE  ClearTo(s, g, Len(s))
<1>1. PICK l \in Nat : l = Len(s) /\ g \in Nat /\ g <= l
  BY DEF Saying
<1> DEFINE T == {i \in g + 1 .. l - 1 : ~Allowed(s[i])}
<1>2. CASE T = {}
  BY <1>1, <1>2 DEF ClearTo
<1>3. CASE T # {}
  <2>1. T \subseteq Nat
    BY <1>1
  <2>2. PICK i \in T : \A y \in T : i <= y
    <3> HIDE DEF T
    <3>1. QED
      BY <1>3, <2>1, HasLeast
  <2>3. i \in g + 1 .. l - 1 /\ ~Allowed(s[i])
    OBVIOUS
  <2>4. ASSUME NEW y \in g + 1 .. i - 1 PROVE Allowed(s[y])
    <3>1. y \in g + 1 .. l - 1 /\ ~(i <= y)
      BY <1>1, <2>3
    <3>2. y \notin T
      BY <2>2, <3>1
    <3>3. QED
      BY <3>1, <3>2
  <2>5. i # l
    BY <1>1, <2>3
  <2>6. HasCome(s, g, o, i)
    BY <1>1, <2>4, <2>5 DEF HasCome, ClearTo
  <2>7. PICK j \in 1 .. l - g : i = g + j
    <3>1. i - g \in 1 .. l - g /\ i = g + (i - g)
      BY <1>1, <2>3
    <3>2. QED
      BY <3>1
  <2>8. j \in Waiting(s, g, o)
    BY <1>1, <2>6, <2>7 DEF Waiting
  <2>9. QED
    BY <2>3, <2>7, <2>8
<1>4. QED
  BY <1>2, <1>3

\* A message is there in part when its first byte has been sent and the one that
\* decides about it has not; none is behind one that is refused.
Begun == /\ life = "up" /\ Here # <<>>
         /\ \A k \in DOMAIN said : Here[Len(Here)] # Decides(k)
         /\ \A j \in Queued : Allowed(said[Len(got) + j])

\* The message under way, from what was said and sent alone.
LEMMA BegunIs == ASSUME ConnInv PROVE Begun <=> life = "up" /\ InPart(said, Len(got), off)
<1>1. PICK start, base : base \in Nat /\ Laid(start) /\ InPlace(start, base)
  BY DEF ConnInv, IndInv, OneStream
<1>2. IndInv
  BY DEF ConnInv
<1>3. PICK l \in Nat, g \in Nat : l = Len(said) /\ g = Len(got) /\ g <= l
  BY <1>2, TypesAre
<1>4. Saying(said, g, off) /\ off \in Nat /\ said \in Seq(Kinds) /\ DOMAIN said = 1 .. l
  BY <1>2, <1>3, TypesAre
<1>5. PICK n \in Nat : /\ n = Len(Here) /\ base + n = Written(start)
                       /\ Here # <<>> <=> n # 0
  <2>1. Here \in Seq(Bytes) /\ Len(Here) \in Nat /\ base + Len(Here) = Written(start)
    BY <1>1, <1>2, HereIs
  <2>2. Here # <<>> <=> Len(Here) # 0
    BY <2>1
  <2>3. QED
    BY <2>1, <2>2
<1>6. Queued = Waiting(said, g, off)
  BY <1>3, QueuedIs
<1>7. ASSUME Begun PROVE InPart(said, g, off)
  <2>1. n \in 1 .. n
    BY <1>5, <1>7 DEF Begun
  <2>2. PICK k \in g + 1 .. l : \E p \in 1 .. Size(said[k]) : start[k] + p = base + n
    <3>1. n \in 1 .. Len(Here)
      BY <1>5, <2>1
    <3>2. \E k \in Len(got) + 1 .. Len(said) :
             \E p \in 1 .. Size(said[k]) : start[k] + p = base + n
      BY <1>1, <1>2, <3>1, ByteOf
    <3>3. QED
      BY <1>3, <3>2
  <2>3. PICK p \in 1 .. Size(said[k]) : start[k] + p = base + n
    BY <2>2
  <2>4. k \in 1 .. l /\ l \in 1 .. l /\ g < l
    BY <1>3
  <2>5. Here[n] = <<k, p>>
    <3>1. n \in 1 .. Len(Here) /\ k \in 1 .. Len(said)
      BY <1>3, <1>5, <2>1, <2>4
    <3>2. QED
      BY <1>1, <2>3, <3>1, ByteIs
  <2>6. \A i \in 1 .. l : <<k, p>> # Decides(i)
    BY <1>4, <1>5, <1>7, <2>5 DEF Begun
  <2>7. ClearTo(said, g, l)
    <3>1. \A j \in Waiting(said, g, off) : Allowed(said[g + j])
      BY <1>3, <1>6, <1>7 DEF Begun
    <3>2. QED
      BY <1>3, <1>4, <3>1, ClearSoFar
  <2>8. PICK v \in Nat, x \in Nat, z \in Nat, y \in Nat, d \in Nat :
          /\ v = start[k] /\ x = start[l] /\ z = Size(said[k]) /\ y = Size(said[l])
          /\ d = Needed(said[l]) /\ said[k] \in Kinds /\ said[l] \in Kinds
    <3>1. /\ start[k] \in Nat /\ start[l] \in Nat /\ said[k] \in Kinds /\ said[l] \in Kinds
          /\ Size(said[k]) \in Nat /\ Size(said[l]) \in Nat
      BY <1>1, <1>2, <1>3, <2>4, StartsAre
    <3>2. QED
      BY <3>1, NeededIs
  <2>9. v + p = x + off /\ (k < l => v + z <= x)
    <3>1. Written(start) = x + off /\ (k < l => v + z <= x)
      BY <1>1, <1>2, <1>3, <2>4, <2>8, StartsAre
    <3>2. QED
      BY <1>5, <2>3, <2>8, <3>1
  <2>10. p \in Nat /\ 1 <= p /\ p <= z
    BY <2>8
  <2>11. k = l
    <3>1. ASSUME k # l PROVE FALSE
      <4>1. k < l
        BY <1>3, <2>4, <3>1
      <4>2. p = z
        <5>1. v + z <= x /\ v + p = x + off /\ off \in Nat
          BY <1>4, <2>9, <4>1
        <5>2. v + z <= v + p
          BY <2>8, <2>10, <5>1
        <5>3. z <= p
          BY <2>8, <2>10, <5>2
        <5>4. QED
          BY <2>8, <2>10, <5>3
      <4>3. Allowed(said[k])
        <5>1. k \in g + 1 .. l - 1
          BY <1>3, <4>1
        <5>2. QED
          BY <2>7, <5>1 DEF ClearTo
      <4>4. Decides(k) = <<k, z>>
        BY <2>8, <4>3 DEF Decides, Deciding
      <4>5. QED
        BY <2>4, <2>6, <4>2, <4>4
    <3>2. QED
      BY <3>1
  <2>12. v = x /\ z = y
    BY <2>8, <2>11
  <2>13. p = off
    <3>1. x + p = x + off /\ off \in Nat /\ p \in Nat
      BY <1>4, <2>9, <2>10, <2>12
    <3>2. QED
      BY <3>1
  <2>14. Decides(l) = <<l, d>>
    BY <2>8 DEF Decides, Deciding, Needed
  <2>15. off # d
    BY <2>4, <2>6, <2>11, <2>13, <2>14
  <2>16. ~(d < off)
    <3>1. ASSUME d < off PROVE FALSE
      <4>1. ~Allowed(said[l])
        <5>1. Allowed(said[l]) => d = y
          BY <2>8, NeededIs
        <5>2. off <= y
          BY <2>10, <2>12, <2>13
        <5>3. QED
          BY <1>4, <2>8, <3>1, <5>1, <5>2
      <4>2. HasCome(said, g, off, l)
        BY <1>3, <1>4, <2>7, <2>8, <3>1 DEF HasCome
      <4>3. PICK j \in 1 .. l - g : l = g + j
        <5>1. l - g \in 1 .. l - g /\ l = g + (l - g)
          BY <1>3, <2>4
        <5>2. QED
          BY <5>1
      <4>4. j \in Queued
        BY <1>3, <1>6, <4>2, <4>3 DEF Waiting
      <4>5. QED
        BY <1>3, <1>7, <4>1, <4>3, <4>4 DEF Begun
    <3>2. QED
      BY <3>1
  <2>17. 0 < off /\ off < d
    BY <1>4, <2>8, <2>10, <2>13, <2>15, <2>16
  <2>18. QED
    BY <1>3, <2>4, <2>7, <2>8, <2>17 DEF InPart
<1>8. ASSUME InPart(said, g, off), life = "up" PROVE Begun
  <2>1. g < l /\ ClearTo(said, g, l) /\ 0 < off /\ off < Needed(said[l])
    BY <1>3, <1>8 DEF InPart
  <2>2. l \in 1 .. l /\ g + 1 \in g + 1 .. l /\ l \in g + 1 .. l
    BY <1>3, <2>1
  <2>3. PICK x \in Nat, d \in Nat, y \in Nat :
          /\ x = start[l] /\ d = Needed(said[l]) /\ y = Size(said[l]) /\ d <= y
          /\ base + n = x + off /\ base <= x
    <3>1. /\ start[l] \in Nat /\ said[l] \in Kinds /\ base <= start[l]
          /\ Written(start) = start[l] + off
      BY <1>1, <1>2, <1>3, <2>1, <2>2, StartsAre
    <3>2. QED
      BY <1>5, <3>1, NeededIs
  <2>4. n # 0 /\ n \in 1 .. n
    <3>1. base \in Nat /\ base < x + off
      BY <1>1, <1>4, <2>1, <2>3
    <3>2. n # 0
      BY <2>3, <3>1
    <3>3. QED
      BY <3>2
  <2>5. Here[n] = <<l, off>>
    <3>1. PICK p \in 1 .. Size(said[l]) : p = off
      BY <1>4, <2>1, <2>3
    <3>2. n \in 1 .. Len(Here) /\ l \in 1 .. Len(said) /\ start[l] + p = base + n
      BY <1>3, <1>5, <2>2, <2>3, <2>4, <3>1
    <3>3. Here[n] = <<l, p>>
      BY <1>1, <3>2, ByteIs
    <3>4. QED
      BY <3>1, <3>3
  <2>6. ASSUME NEW k \in 1 .. l PROVE Here[n] # Decides(k)
    <3>1. CASE k = l
      <4>1. Decides(l) = <<l, d>> /\ off # d
        BY <1>4, <2>1, <2>3 DEF Decides, Deciding, Needed
      <4>2. QED
        BY <2>5, <3>1, <4>1
    <3>2. CASE k # l
      BY <2>5, <3>2 DEF Decides
    <3>3. QED
      BY <3>1, <3>2
  <2>7. ASSUME NEW j \in Queued PROVE Allowed(said[g + j])
    <3>1. j \in 1 .. l - g /\ HasCome(said, g, off, g + j)
      BY <1>3, <1>6 DEF Waiting
    <3>2. g + j # l
      <4>1. ~(d <= off)
        BY <1>4, <2>1, <2>3
      <4>2. QED
        BY <1>3, <2>3, <3>1, <4>1 DEF HasCome
    <3>3. g + j \in g + 1 .. l - 1
      BY <1>3, <3>1, <3>2
    <3>4. QED
      BY <2>1, <3>3 DEF ClearTo
  <2>8. QED
    BY <1>3, <1>4, <1>5, <1>8, <2>4, <2>6, <2>7 DEF Begun
<1>9. Begun => life = "up"
  BY DEF Begun
<1>10. QED
  BY <1>3, <1>7, <1>8, <1>9

\* The connection as Sockets has it.
LEMMA ConnectionIs ==
  ASSUME ConnInv
  PROVE  \E p \in BOOLEAN :
            /\ AsConnection = Conn(Inbox(said, Len(got), off), p, life)
            /\ p <=> (life = "up" /\ InPart(said, Len(got), off))
<1>1. PICK p \in BOOLEAN : p <=> Begun
  OBVIOUS
<1>2. p <=> (life = "up" /\ InPart(said, Len(got), off))
  BY <1>1, BegunIs
<1>3. [j \in Queued |-> said[Len(got) + j]] = Inbox(said, Len(got), off)
  BY QueuedIs DEF Inbox
<1>4. AsConnection = [in |-> [j \in Queued |-> said[Len(got) + j]], part |-> Begun,
                      life |-> life, stall |-> FALSE]
  BY DEF AsConnection, Begun
<1>5. p = Begun
  BY <1>1
<1>6. AsConnection = Conn(Inbox(said, Len(got), off), p, life)
  BY <1>3, <1>4, <1>5 DEF Conn
<1>7. QED
  BY <1>2, <1>6

-----------------------------------------------------------------------------
(* Each step is one that Sockets describes, or none *)

Stays == AsConnection' = AsConnection /\ UNCHANGED <<got, outcome>>
Returned ==
    /\ AsConnection.in # <<>> /\ AsConnection' = Taken(AsConnection)
    /\ got' = Append(got, Head(AsConnection.in))
GaveUp == outcome' # "open" /\ (RecvFails(AsConnection) \/ ~Allowed(Head(AsConnection.in)))
SocketStep ==
    \/ Stays
    \/ AsConnection' \in Arrivals(AsConnection, Sendable, MaxMessages)
    \/ AsConnection' \in Fragments(AsConnection, MaxMessages)
    \/ AsConnection' \in Endings(AsConnection)
    \/ Returned
    \/ GaveUp

\* The connection before and after a step.
LEMMA ConnectionNext ==
  ASSUME ConnInv'
  PROVE  \E p \in BOOLEAN :
            /\ AsConnection' = Conn(Inbox(said', Len(got'), off'), p, life')
            /\ p <=> (life' = "up" /\ InPart(said', Len(got'), off'))
<1>1. (\E p \in BOOLEAN :
          /\ AsConnection = Conn(Inbox(said, Len(got), off), p, life)
          /\ p <=> (life = "up" /\ InPart(said, Len(got), off)))'
  BY ConnectionIs, PTL
<1>2. QED
  BY <1>1

\* A message that is only said shows nowhere.
LEMMA SayingShows == ASSUME ConnInv, ConnInv', SendMessage PROVE Stays
<1>1. /\ UNCHANGED <<mtu, wire, life, buf, got, outcome>> /\ off' = 0 /\ Left = 0
      /\ \E m \in Sendable : said' = Append(said, m)
  BY DEF SendMessage
<1>2. PICK m \in Sendable : said' = Append(said, m)
  BY <1>1
<1>3. m \in Kinds
  BY <1>2, SendableAre DEF ConnInv, IndInv, Typed
<1>4. Saying(said, Len(got), off) /\ Len(got) \in Nat /\ off \in Nat
  BY TypesAre DEF ConnInv
<1>5. said = <<>> \/ off = Size(said[Len(said)])
  <2>1. CASE said = <<>>
    BY <2>1
  <2>2. CASE said # <<>>
    <3>1. off + Left = Size(said[Len(said)])
      BY <2>2, LeftIs DEF ConnInv, IndInv
    <3>2. QED
      BY <1>1, <1>4, <3>1
  <2>3. QED
    BY <2>1, <2>2
<1>6. PICK t : t = said'
  OBVIOUS
<1>7. /\ Inbox(t, Len(got), 0) = Inbox(said, Len(got), off)
      /\ ~InPart(t, Len(got), 0) /\ ~InPart(said, Len(got), off)
  <2>1. PICK s, g, o : s = said /\ g = Len(got) /\ o = off
    OBVIOUS
  <2>2. Saying(s, g, o)
    BY <1>4, <2>1
  <2>3. s = <<>> \/ o = Size(s[Len(s)])
    BY <1>5, <2>1
  <2>4. OneMore(s, m, t)
    <3>1. s \in Seq(Kinds)
      BY <2>2 DEF Saying
    <3>2. t = Append(s, m)
      BY <1>2, <1>6, <2>1
    <3>3. QED
      BY <1>3, <3>1, <3>2, AppendIs DEF OneMore
  <2>5. PICK z \in Nat : z = 0
    OBVIOUS
  <2>6. Inbox(t, g, z) = Inbox(s, g, o) /\ ~InPart(t, g, z) /\ ~InPart(s, g, o)
    BY <1>3, <2>2, <2>3, <2>4, <2>5, SayingAdds
  <2>7. QED
    BY <2>1, <2>5, <2>6
<1>8. PICK p \in BOOLEAN : /\ AsConnection = Conn(Inbox(said, Len(got), off), p, life)
                           /\ p <=> (life = "up" /\ InPart(said, Len(got), off))
  BY ConnectionIs
<1>9. PICK q \in BOOLEAN : /\ AsConnection' = Conn(Inbox(said', Len(got'), off'), q, life')
                           /\ q <=> (life' = "up" /\ InPart(said', Len(got'), off'))
  BY ConnectionNext
<1>10. ~p /\ ~q
  BY <1>1, <1>6, <1>7, <1>8, <1>9
<1>11. p = q
  BY <1>10
<1>12. QED
  BY <1>1, <1>6, <1>7, <1>8, <1>9, <1>11 DEF Stays

\* Bytes that are sent complete a message, begin one, or show nowhere.
LEMMA SendingShows == ASSUME ConnInv, ConnInv', SendBytes PROVE SocketStep
<1>1. /\ UNCHANGED <<mtu, said, life, buf, got, outcome>> /\ life = "up"
      /\ \E n \in 1 .. Left : off' = off + n
  BY DEF SendBytes, Sent
<1>2. PICK n \in 1 .. Left : off' = off + n
  BY <1>1
<1>3. /\ Len(got) \in Nat /\ off \in Nat /\ off' \in Nat /\ off < off' /\ said # <<>>
      /\ off' <= Size(said[Len(said)]) /\ Saying(said, Len(got), off)
  <2>1. /\ Left \in Nat /\ (said = <<>> => Left = 0)
        /\ said # <<>> => said[Len(said)] \in Kinds /\ off + Left = Size(said[Len(said)])
    BY LeftIs DEF ConnInv, IndInv
  <2>2. off \in Nat /\ Len(got) \in Nat /\ Saying(said, Len(got), off)
    BY TypesAre DEF ConnInv
  <2>3. n \in Nat /\ 1 <= n /\ n <= Left /\ said # <<>>
    BY <2>1
  <2>4. off' \in Nat /\ off < off' /\ off' <= Size(said[Len(said)])
    BY <1>2, <2>1, <2>2, <2>3
  <2>5. QED
    BY <2>2, <2>3, <2>4
<1>4. PICK s, g, o, r :
        /\ s = said /\ g = Len(got) /\ o = off /\ r = off'
        /\ g \in Nat /\ o \in Nat /\ r \in Nat /\ o < r /\ s # <<>>
        /\ r <= Size(s[Len(s)]) /\ Saying(s, g, o)
  BY <1>3
<1>5. PICK p \in BOOLEAN : /\ AsConnection = Conn(Inbox(s, g, o), p, "up")
                           /\ p <=> InPart(s, g, o)
  BY <1>1, <1>4, ConnectionIs
<1>6. PICK q \in BOOLEAN : /\ AsConnection' = Conn(Inbox(s, g, r), q, "up")
                           /\ q <=> InPart(s, g, r)
  BY <1>1, <1>4, ConnectionNext
<1>7. Len(s) <= MaxMessages /\ s[Len(s)] \in Sendable /\ Len(s) \in Nat /\ MaxMessages \in Nat
  <2>1. Len(s) \in Nat /\ Len(s) \in 1 .. Len(s)
    BY <1>4 DEF Saying
  <2>2. QED
    BY <1>4, <2>1, FramingAssumption DEF ConnInv, SaidRight
<1>8. Len(Inbox(s, g, o)) \in Nat
  <2>1. PICK u \in Nat : Waiting(s, g, o) = 1 .. u
    BY <1>4, WaitingIs
  <2>2. QED
    BY <1>4, <2>1, InboxIs
<1>9. \/ /\ Inbox(s, g, r) = Append(Inbox(s, g, o), s[Len(s)]) /\ ~InPart(s, g, r)
         /\ Len(Inbox(s, g, o)) < Len(s)
      \/ /\ Inbox(s, g, r) = Inbox(s, g, o)
         /\ InPart(s, g, o) => InPart(s, g, r)
         /\ InPart(s, g, r) => Len(Inbox(s, g, o)) < Len(s)
  BY <1>4, SendingAdds
<1>10. CASE /\ Inbox(s, g, r) = Append(Inbox(s, g, o), s[Len(s)]) /\ ~InPart(s, g, r)
           /\ Len(Inbox(s, g, o)) < Len(s)
  <2>1. Len(Inbox(s, g, o)) < MaxMessages
    BY <1>7, <1>8, <1>10
  <2>2. Conn(Append(Inbox(s, g, o), s[Len(s)]), FALSE, "up")
           \in Arrivals(AsConnection, Sendable, MaxMessages)
    BY <1>5, <1>7, <2>1, AddsOne
  <2>3. q = FALSE
    BY <1>6, <1>10
  <2>4. QED
    BY <1>6, <1>10, <2>2, <2>3 DEF SocketStep
<1>11. CASE /\ Inbox(s, g, r) = Inbox(s, g, o)
            /\ InPart(s, g, o) => InPart(s, g, r)
            /\ InPart(s, g, r) => Len(Inbox(s, g, o)) < Len(s)
  <2>1. CASE ~p /\ q
    <3>1. Len(Inbox(s, g, o)) < MaxMessages
      BY <1>6, <1>7, <1>8, <1>11, <2>1
    <3>2. Conn(Inbox(s, g, o), TRUE, "up") \in Fragments(AsConnection, MaxMessages)
      BY <1>5, <1>7, <2>1, <3>1, BeginsOne
    <3>3. q = TRUE
      BY <2>1
    <3>4. QED
      BY <1>6, <1>11, <3>2, <3>3 DEF SocketStep
  <2>2. CASE p \/ ~q
    <3>1. p = q
      BY <1>5, <1>6, <1>11, <2>2
    <3>2. QED
      BY <1>1, <1>5, <1>6, <1>11, <3>1 DEF SocketStep, Stays
  <2>3. QED
    BY <2>1, <2>2
<1>12. QED
  BY <1>9, <1>10, <1>11

\* The sender's end is the peer's end.
LEMMA HangupShows ==
  ASSUME ConnInv, ConnInv', Hangup PROVE AsConnection' \in Endings(AsConnection)
<1>1. UNCHANGED <<said, got, off>> /\ life = "up" /\ life' = "eof"
  BY DEF Hangup
<1>2. PICK p \in BOOLEAN : AsConnection = Conn(Inbox(said, Len(got), off), p, "up")
  BY <1>1, ConnectionIs
<1>3. PICK q \in BOOLEAN : /\ AsConnection' = Conn(Inbox(said', Len(got'), off'), q, "eof")
                           /\ ~q
  BY <1>1, ConnectionNext
<1>4. q = FALSE
  BY <1>3
<1>5. Conn(Inbox(said, Len(got), off), FALSE, "eof") \in Endings(AsConnection)
  BY <1>2, EndsIt
<1>6. QED
  BY <1>1, <1>3, <1>4, <1>5

\* A recv() shows nowhere, returns the oldest message, or refuses it.
LEMMA ReceivingShows == ASSUME ConnInv, ConnInv', RecvBytes PROVE Stays \/ Returned \/ GaveUp
<1>1. UNCHANGED <<mtu, said, off, life>> /\ outcome = "open" /\ Len(got) < Len(said)
  BY RecvSteps DEF ConnInv
<1>2. PICK h \in Nat :
        /\ h <= Size(said[Len(got) + 1])
        /\ Len(got) + 1 = Len(said) => h <= off
        /\ \/ GoesOn(said[Len(got) + 1], h)
           \/ Refuses(said[Len(got) + 1], h)
           \/ Returns(said[Len(got) + 1], h)
  BY RecvSteps DEF ConnInv
<1>3. PICK s, g, o : s = said /\ g = Len(got) /\ o = off
  OBVIOUS
<1>4. Saying(s, g, o) /\ g < Len(s) /\ g \in Nat /\ o \in Nat /\ s \in Seq(Kinds)
  BY <1>1, <1>3, TypesAre DEF ConnInv
<1>5. PICK m \in Kinds : m = s[g + 1]
  <2>1. g + 1 \in 1 .. Len(s)
    BY <1>4
  <2>2. QED
    BY <1>4, <2>1
<1>6. PICK p \in BOOLEAN : /\ AsConnection = Conn(Inbox(s, g, o), p, life)
                           /\ p <=> (life = "up" /\ InPart(s, g, o))
  BY <1>3, ConnectionIs
<1>7. PICK q \in BOOLEAN : /\ AsConnection' = Conn(Inbox(s, Len(got'), o), q, life)
                           /\ q <=> (life = "up" /\ InPart(s, Len(got'), o))
  BY <1>1, <1>3, ConnectionNext
<1>8. Size(m) \in Nat /\ HdrSize \in Nat
  BY Sizes
<1>9. CASE GoesOn(m, h)
  <2>1. got' = got /\ outcome' = outcome
    BY <1>9 DEF GoesOn
  <2>2. p = q
    BY <1>3, <1>6, <1>7, <2>1
  <2>3. QED
    BY <1>3, <1>6, <1>7, <2>1, <2>2 DEF Stays
<1>10. CASE Refuses(m, h)
  <2>1. HdrSize <= h /\ ~Allowed(m) /\ outcome' = "refused"
    BY <1>10 DEF Refuses
  <2>2. g + 1 = Len(s) => HdrSize <= o
    BY <1>2, <1>3, <1>4, <1>8, <2>1
  <2>3. Head(Inbox(s, g, o)) = m
    BY <1>4, <1>5, <2>1, <2>2, RefusedIsFirst
  <2>4. AsConnection.in = Inbox(s, g, o)
    BY <1>6, FieldsAre
  <2>5. QED
    BY <2>1, <2>3, <2>4 DEF GaveUp
<1>11. CASE Returns(m, h)
  <2>1. Allowed(m) /\ h = Size(m) /\ got' = Append(got, m)
    BY <1>11 DEF Returns
  <2>2. g + 1 = Len(s) => Size(s[g + 1]) <= o
    BY <1>2, <1>3, <1>5, <2>1
  <2>3. /\ Inbox(s, g, o) # <<>> /\ Head(Inbox(s, g, o)) = m
        /\ Inbox(s, g + 1, o) = Tail(Inbox(s, g, o))
        /\ InPart(s, g + 1, o) <=> InPart(s, g, o)
    BY <1>4, <1>5, <2>1, <2>2, TakingTakes
  <2>4. Len(got') = g + 1
    BY <1>3, <2>1, TypesAre DEF ConnInv
  <2>5. p = q
    BY <1>6, <1>7, <2>3, <2>4
  <2>6. AsConnection' = Conn(Tail(Inbox(s, g, o)), p, life)
    BY <1>7, <2>3, <2>4, <2>5
  <2>7. AsConnection' = Taken(AsConnection)
    BY <1>6, <2>6, TakesOne
  <2>8. AsConnection.in = Inbox(s, g, o)
    BY <1>6, FieldsAre
  <2>9. QED
    BY <2>1, <2>3, <2>7, <2>8 DEF Returned
<1>12. QED
  BY <1>2, <1>3, <1>5, <1>9, <1>10, <1>11

\* The end is found when no message is left.
LEMMA EndShows == ASSUME ConnInv, RecvEnd PROVE GaveUp
<1>1. outcome = "open" /\ wire = <<>> /\ life = "eof" /\ outcome' = "closed"
  BY DEF RecvEnd
<1>2. PICK start, base : base \in Nat /\ Laid(start) /\ InPlace(start, base)
  BY DEF ConnInv, IndInv, OneStream
<1>3. IndInv
  BY DEF ConnInv
<1>4. PICK l \in Nat, g \in Nat, a \in Nat, o \in Nat :
        l = Len(said) /\ g = Len(got) /\ a = Len(buf) /\ o = off /\ g <= l
  BY <1>3, TypesAre
<1>5. Saying(said, g, o)
  BY <1>3, <1>4, TypesAre
<1>6. g = l \/ (g + 1 = l /\ o < Needed(said[l]))
  <2> SUFFICES ASSUME g < l PROVE g + 1 = l /\ o < Needed(said[l])
    BY <1>4
  <2>1. g + 1 \in 1 .. l /\ l \in 1 .. l
    BY <1>4
  <2>2. PICK x \in Nat, y \in Nat, z \in Nat :
          /\ x = start[l] /\ y = Size(said[g + 1]) /\ z = Needed(said[g + 1]) /\ z <= y
          /\ base \in Nat
    <3>1. start[l] \in Nat /\ said[g + 1] \in Kinds
      BY <1>2, <1>3, <1>4, <2>1, StartsAre
    <3>2. QED
      BY <1>2, <3>1, NeededIs
  <2>3. a < z
    BY <1>1, <1>4, <2>2 DEF ConnInv, Holding, HeldOf
  <2>4. base + a = x + o
    <3>1. Written(start) = x + o
      BY <1>2, <1>3, <1>4, <2>2, StartsAre
    <3>2. base + a + Len(wire) = Written(start) /\ Len(wire) = 0
      BY <1>1, <1>2, <1>4 DEF InPlace
    <3>3. QED
      BY <1>4, <2>2, <3>1, <3>2
  <2>5. g + 1 = l
    <3>1. ASSUME g + 1 < l PROVE FALSE
      <4>1. base + y <= x
        <5>1. base = start[g + 1]
          BY <1>2, <1>3, <1>4, StartsAre
        <5>2. QED
          BY <1>2, <1>4, <2>1, <2>2, <3>1, <5>1 DEF Laid
      <4>2. base + y <= base + a
        BY <1>4, <2>2, <2>4, <4>1
      <4>3. QED
        BY <1>4, <2>2, <2>3, <4>2
    <3>2. QED
      BY <1>4, <3>1
  <2>6. base = x
    BY <1>2, <1>3, <1>4, <2>2, <2>5, StartsAre
  <2>7. o = a
    <3>1. x + a = x + o
      BY <2>4, <2>6
    <3>2. QED
      BY <3>1
  <2>8. QED
    BY <2>2, <2>3, <2>5, <2>7
<1>7. Inbox(said, g, o) = <<>>
  <2>1. g = Len(said) \/ (g + 1 = Len(said) /\ o < Needed(said[Len(said)]))
    BY <1>4, <1>6
  <2>2. QED
    BY <1>5, <2>1, NothingHasCome
<1>8. PICK p \in BOOLEAN : AsConnection = Conn(Inbox(said, g, o), p, life)
  BY <1>4, ConnectionIs
<1>9. AsConnection.in = <<>> /\ AsConnection.life = "eof"
  BY <1>1, <1>7, <1>8, FieldsAre
<1>10. RecvFails(AsConnection)
  BY <1>9 DEF RecvFails
<1>11. QED
  BY <1>1, <1>10 DEF GaveUp

\* Each action in turn.
LEMMA StepShows == ASSUME ConnInv, ConnInv', Next PROVE SocketStep
<1>1. CASE SendMessage
  BY <1>1, SayingShows DEF SocketStep
<1>2. CASE SendBytes
  BY <1>2, SendingShows
<1>3. CASE Hangup
  BY <1>3, HangupShows DEF SocketStep
<1>4. CASE RecvBytes
  BY <1>4, ReceivingShows DEF SocketStep
<1>5. CASE RecvEnd
  BY <1>5, EndShows DEF SocketStep
<1>6. QED
  BY <1>1, <1>2, <1>3, <1>4, <1>5 DEF Next

\* However the kernel cuts the bytes up, what the byte stream does is what Sockets
\* says of a connection: each send() and recv() puts a message into the queue,
\* begins one, takes the oldest one out, or shows nowhere; the sender's end is the
\* peer's end; and ntap_recv_msg fails only where Sockets lets it, or for a length.
THEOREM StreamIsQueue == Spec => AsSockets
<1>1. ConnInv /\ ConnInv' /\ [Next]_vars => [SocketStep]_vars
  BY StepShows
<1>2. [SocketStep]_vars =>
        [ \/ AsConnection' = AsConnection /\ UNCHANGED <<got, outcome>>
          \/ AsConnection' \in Arrivals(AsConnection, Sendable, MaxMessages)
          \/ AsConnection' \in Fragments(AsConnection, MaxMessages)
          \/ AsConnection' \in Endings(AsConnection)
          \/ /\ AsConnection.in # <<>> /\ AsConnection' = Taken(AsConnection)
             /\ got' = Append(got, Head(AsConnection.in))
          \/ /\ outcome' # "open"
             /\ RecvFails(AsConnection) \/ ~Allowed(Head(AsConnection.in)) ]_vars
  BY DEF SocketStep, Stays, Returned, GaveUp
<1>3. QED
  BY <1>1, <1>2, ConnInductive, PTL DEF Spec, AsSockets

\* Neither end holds more of a message than there is, and no recv() is asked for
\* nothing: the loops of ntap_send_all and ntap_recv_all stay in their buffers.
THEOREM TypeCorrect == Spec => []TypeOK
<1> DEFINE Rest ==
      /\ mtu \in Mtus /\ life \in {"up", "eof"} /\ outcome \in {"open", "refused", "closed"}
      /\ Len(wire) <= Window
<1>1. Init => Rest
  BY FramingAssumption DEF Init
<1>2. ConnInv /\ Rest /\ [Next]_vars => Rest'
  <2> SUFFICES ASSUME ConnInv, Rest, [Next]_vars PROVE Rest'
    OBVIOUS
  <2>1. CASE SendMessage \/ Hangup \/ RecvEnd \/ UNCHANGED vars
    BY <2>1 DEF SendMessage, Hangup, RecvEnd, vars
  <2>2. CASE SendBytes
    <3>1. /\ UNCHANGED <<mtu, life, outcome>>
          /\ \E n \in 1 .. Left : /\ Len(wire) + n <= Window
                                  /\ wire' = wire \o [j \in 1 .. n |-> <<Len(said), off + j>>]
      BY <2>2 DEF SendBytes
    <3>2. PICK n \in 1 .. Left : /\ Len(wire) + n <= Window
                                 /\ wire' = wire \o [j \in 1 .. n |-> <<Len(said), off + j>>]
      BY <3>1
    <3>3. wire \in Seq(Bytes) /\ Len(said) \in Nat /\ off \in Nat /\ Left \in Nat /\ n \in Nat
      BY TypesAre, LeftIs DEF ConnInv, IndInv
    <3>4. PICK v : v = [j \in 1 .. n |-> <<Len(said), off + j>>]
      OBVIOUS
    <3>5. v \in Seq(Bytes) /\ Len(v) = n
      <4>1. \A j \in 1 .. n : <<Len(said), off + j>> \in Bytes
        BY <3>3 DEF Bytes
      <4>2. v \in [1 .. n -> Bytes]
        BY <3>4, <4>1
      <4>3. QED
        BY <3>3, <4>2, AsSequence
    <3>6. Len(wire \o v) = Len(wire) + n
      BY <3>3, <3>5, Joined
    <3>7. Len(wire') <= Window
      BY <3>2, <3>4, <3>6
    <3>8. QED
      BY <3>1, <3>7
  <2>3. CASE RecvBytes
    <3>1. UNCHANGED <<mtu, life>> /\ outcome' \in {"open", "refused"}
      BY <2>3 DEF RecvBytes
    <3>2. PICK n \in Reads(Missing) : wire' = SubSeq(wire, n + 1, Len(wire))
      BY <2>3 DEF RecvBytes
    <3>3. PICK start, base : base \in Nat /\ Laid(start) /\ InPlace(start, base)
      BY DEF ConnInv, IndInv, OneStream
    <3>4. n \in 1 .. Len(wire)
      BY <3>3, ReadsWithin DEF ConnInv, IndInv
    <3>5. wire \in Seq(Bytes) /\ buf \in Seq(Bytes) /\ Len(wire) \in Nat
      BY TypesAre DEF ConnInv
    <3>6. Len(SubSeq(wire, n + 1, Len(wire))) = Len(wire) - n
      BY <3>4, <3>5, MovedBytes
    <3>7. Len(wire') <= Window
      BY <3>2, <3>4, <3>5, <3>6, FramingAssumption
    <3>8. QED
      BY <3>1, <3>7
  <2>4. QED
    BY <2>1, <2>2, <2>3 DEF Next
<1>3. ConnInv /\ Rest => TypeOK
  <2> SUFFICES ASSUME ConnInv, Rest PROVE TypeOK
    OBVIOUS
  <2>1. Left >= 0 /\ off >= 0
    BY TypesAre, LeftIs DEF ConnInv, IndInv
  <2>2. ASSUME outcome = "open" PROVE Missing > 0
    <3>1. CASE Len(buf) < HdrSize
      BY <3>1, TypesAre, FramingAssumption DEF Missing, ConnInv
    <3>2. CASE ~(Len(buf) < HdrSize)
      <4>1. PICK start, base : base \in Nat /\ Laid(start) /\ InPlace(start, base)
        BY DEF ConnInv, IndInv, OneStream
      <4>2. PICK a \in Nat, g \in Nat : a = Len(buf) /\ g = Len(got)
        BY TypesAre DEF ConnInv
      <4>3. g < Len(said)
        <5>1. a # 0
          BY <3>2, <4>2, FramingAssumption
        <5>2. QED
          BY <4>2, <5>1, NothingHeld, TypesAre DEF ConnInv
      <4>4. PICK m \in Kinds : m = said[g + 1] /\ g + 1 \in 1 .. Len(said)
        <5>1. g + 1 \in 1 .. Len(said)
          BY <4>2, <4>3, TypesAre DEF ConnInv
        <5>2. QED
          BY <5>1, TypesAre DEF ConnInv
      <4>5. Announced(buf) = {m}
        <5>1. \A j \in 1 .. Len(buf) : buf[j] = <<g + 1, j>>
          BY <4>1, <4>2 DEF InPlace
        <5>2. Len(buf) >= HdrSize /\ buf \in Seq(Bytes) /\ said \in Seq(Kinds)
          BY <3>2, <4>2, TypesAre, FramingAssumption DEF ConnInv
        <5>3. QED
          BY <4>4, <5>1, <5>2, HeaderTells
      <4>6. Missing = Size(m) - a
        <5>1. (CHOOSE x \in Announced(buf) : TRUE) = m
          BY <4>5
        <5>2. QED
          BY <3>2, <4>2, <5>1 DEF Missing
      <4>7. a < Needed(m)
        BY <2>2, <4>2, <4>3, <4>4 DEF ConnInv, Holding, HeldOf
      <4>8. Needed(m) \in Nat /\ Needed(m) <= Size(m) /\ Size(m) \in Nat
        BY NeededIs
      <4>9. QED
        BY <4>2, <4>6, <4>7, <4>8
    <3>3. QED
      BY <3>1, <3>2
  <2>3. QED
    BY <2>1, <2>2 DEF TypeOK
<1>4. QED
  BY <1>1, <1>2, <1>3, ConnInductive, PTL DEF Spec

===============================================================================
