------------------------------ MODULE Wire_proofs ------------------------------
(***************************************************************************)
(* The codecs of the message payloads, for any layout constants, messages  *)
(* and bytes that arrive.                                                  *)
(*                                                                         *)
(* Each layout has a plan, what is known of the payload before and behind  *)
(* each of its items; every later argument goes item by item and needs no  *)
(* more of the layouts than that they keep to a plan.  From it follow that *)
(* no decoder leaves its memory (Inside), that what was written is read    *)
(* again (Written, Along), that a payload which is cut or longer is        *)
(* refused, that a message comes back exactly when it fits (Left, Fits),   *)
(* and that what is accepted, encoded again, is the payload (Keeping).     *)
(* What holds at every place of a layout is shown by the least or the      *)
(* greatest place at which it would not (UpTo, DownTo).                    *)
(***************************************************************************)
EXTENDS Wire, TLAPS, SequenceTheorems, NaturalsInduction, WellFoundedInduction

-----------------------------------------------------------------------------
(* Induction and recursive functions, for sets and functions *)

\* The order of the naturals is well-founded.
LEMMA LessIsWellFounded == IsWellFoundedOn({ss \in Nat \X Nat : ss[1] < ss[2]}, Nat)
BY NatLessThanWellFounded DEF OpToRel

\* A set of naturals has a least element.
LEMMA HasLeast ==
  ASSUME NEW T, T \subseteq Nat, T # {}
  PROVE  \E x \in T : \A y \in T : x <= y
<1> DEFINE R == {ss \in Nat \X Nat : ss[1] < ss[2]}
<1>1. PICK x \in T : \A y \in T : ~(<<y, x>> \in R)
  BY LessIsWellFounded, WFMin
<1>2. ASSUME NEW y \in T PROVE x <= y
  <2>1. x \in Nat /\ y \in Nat
    OBVIOUS
  <2>2. ~(<<y, x>> \in R)
    BY <1>1
  <2>3. ~(y < x)
    BY <2>1, <2>2
  <2>4. QED
    BY <2>1, <2>3
<1>3. QED
  BY <1>2

\* What holds of 0 and of every next number up to n holds of them all.
LEMMA UpTo ==
  ASSUME NEW n \in Nat, NEW T, 0 \in T, \A k \in 1 .. n : k - 1 \in T => k \in T
  PROVE  \A k \in 0 .. n : k \in T
<1>1. SUFFICES ASSUME NEW k \in 0 .. n, k \notin T PROVE FALSE
  OBVIOUS
<1> DEFINE U == {j \in 0 .. n : j \notin T}
<1>2. U \subseteq Nat /\ U # {}
  BY <1>1
<1>3. PICK j \in U : \A i \in U : j <= i
  <2> HIDE DEF U
  <2>1. QED
    BY <1>2, HasLeast
<1>4. j \in 1 .. n /\ j \notin T
  OBVIOUS
<1>5. j - 1 \in 0 .. n /\ ~(j <= j - 1)
  BY <1>4
<1>6. j - 1 \in T
  BY <1>3, <1>5
<1>7. QED
  BY <1>4, <1>6

\* The same, downwards from n.
LEMMA DownTo ==
  ASSUME NEW n \in Nat, NEW T, n \in T, \A k \in 1 .. n : k \in T => k - 1 \in T
  PROVE  \A k \in 0 .. n : k \in T
<1> DEFINE U == {j \in 0 .. n : n - j \in T}
<1>1. 0 \in U
  OBVIOUS
<1>2. ASSUME NEW k \in 1 .. n, k - 1 \in U PROVE k \in U
  <2>1. n - (k - 1) \in T /\ n - (k - 1) \in 1 .. n /\ (n - (k - 1)) - 1 = n - k /\ k \in 0 .. n
    BY <1>2
  <2>2. n - k \in T
    BY <2>1
  <2>3. QED
    BY <2>1, <2>2
<1>3. \A k \in 0 .. n : k \in U
  <2> HIDE DEF U
  <2>1. QED
    BY <1>1, <1>2, UpTo
<1>4. ASSUME NEW k \in 0 .. n PROVE k \in T
  <2>1. n - k \in 0 .. n /\ n - (n - k) = k
    OBVIOUS
  <2>2. n - (n - k) \in T
    BY <1>3, <2>1
  <2>3. QED
    BY <2>1, <2>2
<1>5. QED
  BY <1>4

\* The function that a base and a step define over 0 .. n.
IsFold(g, base, n, step) ==
    g = [k \in 0 .. n |-> IF k = 0 THEN base ELSE step[<<g[k - 1], k>>]]

\* It exists.
LEMMA FoldExists ==
  ASSUME NEW S, NEW base \in S, NEW n \in Nat, NEW step \in [S \X (1 .. n) -> S]
  PROVE  \E g \in [0 .. n -> S] : IsFold(g, base, n, step)
<1> DEFINE T == {m \in 0 .. n : \E g \in [0 .. m -> S] : IsFold(g, base, m, step)}
<1>1. 0 \in T
  <2>1. PICK g : g = [k \in 0 .. 0 |-> base]
    OBVIOUS
  <2>2. g \in [0 .. 0 -> S]
    BY <2>1
  <2>3. IsFold(g, base, 0, step)
    BY <2>1 DEF IsFold
  <2>4. QED
    BY <2>2, <2>3
<1>2. ASSUME NEW m \in 1 .. n, m - 1 \in T PROVE m \in T
  <2>1. PICK g \in [0 .. m - 1 -> S] : IsFold(g, base, m - 1, step)
    BY <1>2
  <2>2. m - 1 \in 0 .. m - 1 /\ m \in Nat /\ m - 1 \in Nat
    OBVIOUS
  <2>3. g[m - 1] \in S /\ <<g[m - 1], m>> \in S \X (1 .. n)
    BY <2>2
  <2>4. PICK h : h = [k \in 0 .. m |-> IF k = m THEN step[<<g[m - 1], m>>] ELSE g[k]]
    OBVIOUS
  <2>5. h \in [0 .. m -> S]
    <3>1. step[<<g[m - 1], m>>] \in S
      BY <2>3
    <3>2. ASSUME NEW k \in 0 .. m, k # m PROVE g[k] \in S
      <4>1. k \in 0 .. m - 1
        BY <3>2
      <4>2. QED
        BY <4>1
    <3>3. QED
      BY <2>4, <3>1, <3>2
  <2>6. \A k \in 0 .. m - 1 : h[k] = g[k]
    BY <2>4, <2>2
  <2>7. \A k \in 0 .. m - 1 : g[k] = IF k = 0 THEN base ELSE step[<<g[k - 1], k>>]
    BY <2>1 DEF IsFold
  <2>8. ASSUME NEW k \in 0 .. m PROVE h[k] = IF k = 0 THEN base ELSE step[<<h[k - 1], k>>]
    <3>1. CASE k = m
      <4>1. h[k] = step[<<g[m - 1], m>>] /\ h[m - 1] = g[m - 1] /\ k # 0
        BY <2>2, <2>4, <2>6, <3>1
      <4>2. QED
        BY <3>1, <4>1
    <3>2. CASE k # m
      <4>1. k \in 0 .. m - 1 /\ (k # 0 => k - 1 \in 0 .. m - 1)
        BY <3>2
      <4>2. QED
        BY <2>6, <2>7, <4>1
    <3>3. QED
      BY <3>1, <3>2
  <2>9. IsFold(h, base, m, step)
    <3>1. h = [k \in 0 .. m |-> h[k]]
      BY <2>5
    <3>2. QED
      BY <2>8, <3>1 DEF IsFold
  <2>10. m \in 0 .. n
    OBVIOUS
  <2>11. QED
    BY <2>5, <2>9, <2>10
<1>3. n \in T
  <2> HIDE DEF T
  <2>1. QED
    BY <1>1, <1>2, UpTo
<1>4. QED
  BY <1>3

\* The number of values of a byte.
LEMMA BaseIs == Base \in Nat /\ Base > 1
BY WireAssumption

\* The values of the function a number without its last bytes is read from.
LEMMA ShiftedIs ==
  ASSUME NEW n \in Nat, NEW size \in Nat
  PROVE  /\ Shifted(n, size) \in [0 .. size -> Nat]
         /\ Shifted(n, size)[0] = n
         /\ \A k \in 1 .. size : Shifted(n, size)[k] = Shifted(n, size)[k - 1] \div Base
<1>1. PICK step : step = [x \in Nat \X (1 .. size) |-> x[1] \div Base]
  OBVIOUS
<1>2. ASSUME NEW a \in Nat PROVE a \div Base \in Nat
  BY BaseIs
<1>3. step \in [Nat \X (1 .. size) -> Nat]
  BY <1>1, <1>2
<1>4. PICK g \in [0 .. size -> Nat] : IsFold(g, n, size, step)
  BY <1>3, FoldExists
<1>5. \A k \in 1 .. size : step[<<g[k - 1], k>>] = g[k - 1] \div Base
  BY <1>1
<1>6. g = [k \in 0 .. size |-> IF k = 0 THEN n ELSE g[k - 1] \div Base]
  <2>1. ASSUME NEW k \in 0 .. size
        PROVE  (IF k = 0 THEN n ELSE step[<<g[k - 1], k>>]) = IF k = 0 THEN n ELSE g[k - 1] \div Base
    BY <1>5
  <2>2. QED
    BY <1>4, <2>1 DEF IsFold
<1>7. PICK s : s = Shifted(n, size)
  OBVIOUS
<1>8. s = [k \in 0 .. size |-> IF k = 0 THEN n ELSE s[k - 1] \div Base]
  BY <1>6, <1>7 DEF Shifted
<1>9. s[0] = n /\ \A k \in 1 .. size : s[k] = s[k - 1] \div Base
  BY <1>8
<1> DEFINE T == {k \in 0 .. size : s[k] \in Nat}
<1>10. 0 \in T
  BY <1>9
<1>11. ASSUME NEW k \in 1 .. size, k - 1 \in T PROVE k \in T
  <2>1. s[k - 1] \in Nat /\ s[k] = s[k - 1] \div Base /\ k \in 0 .. size
    BY <1>9, <1>11
  <2>2. s[k] \in Nat
    BY <1>2, <2>1
  <2>3. QED
    BY <2>1, <2>2
<1>12. \A k \in 0 .. size : k \in T
  <2> HIDE DEF T
  <2>1. QED
    BY <1>10, <1>11, UpTo
<1>13. QED
  BY <1>7, <1>8, <1>9, <1>12

-----------------------------------------------------------------------------
(* The layouts.  Before and behind every item of a layout stands a plan: how   *)
(* much the decoder knows is left there, whether that is "exact" or what is    *)
(* left at "least", and how much an encoder still writes from there at least.  *)

\* What the assumption on the constants says of the sizes of a nonce and a signature.
LEMMA SizesAre == NonceSize \in Nat /\ SignSize \in Nat
BY WireAssumption

Named == {"int", "text", "block", "rest"}
P(room, known, ahead) == [room |-> room, known |-> known, ahead |-> ahead]

\* What an item makes of the plan before it.
Sound(f, a, b) ==
    /\ a.room \in Nat /\ a.ahead \in Nat /\ b.room \in Nat /\ b.ahead \in Nat
    /\ f.do \in Named \cup {"need", "exactly", "end"}
    /\ f.do \in Named => f.name # ""
    /\ f.do \notin Named => f.name = ""
    /\ f.do # "text" => f.size \in Nat
    /\ f.do = "need" => /\ b.room <= a.room \/ b.room <= f.size
                        /\ a.known = "least" /\ b.known = "least"
                        /\ b.ahead = a.ahead /\ f.size <= a.ahead
    /\ f.do = "exactly" =>
          b.room = f.size /\ a.known = "least" /\ b.known = "exact" /\ b.ahead = a.ahead
    /\ f.do = "end" =>
          b.room = a.room /\ a.known = "least" /\ b.known = "least" /\ b.ahead = a.ahead /\ a.ahead > 0
    /\ f.do \in {"int", "block"} =>
          a.room = f.size + b.room /\ b.known = a.known /\ a.ahead = f.size + b.ahead
    /\ f.do = "text" => f.size = TextSize[f.name]
    /\ f.do = "text" =>
          b.room = 0 /\ a.known = "least" /\ b.known = "least" /\ a.ahead = 2 + b.ahead
    /\ f.do = "rest" =>
          /\ b.room = 0 /\ a.known = "least" /\ b.known = "exact"
          /\ a.ahead = b.ahead + IF f.name = "data" THEN 1 ELSE 0

\* A layout goes by a plan: at its end nothing is left, the rest comes last, and
\* a name stands at one place only.
Planned(L, plan) ==
    /\ Len(L) \in Nat \ {0} /\ DOMAIN L = 1 .. Len(L)
    /\ plan[1].room = 0 /\ plan[1].known = "least"
    /\ plan[Len(L) + 1] = P(0, "exact", 0)
    /\ \A k \in 1 .. Len(L) : Sound(L[k], plan[k], plan[k + 1])
    /\ \A k \in 1 .. Len(L) : L[k].do = "rest" => k = Len(L)
    /\ \E place : \A k \in 1 .. Len(L) : L[k].do \in Named => place[L[k].name] = k
NoRest(L) == \A k \in 1 .. Len(L) : L[k].do = "rest" => FALSE


\* What the items of the layouts are.
LEMMA KindsAre ==
  /\ \A size : Need(size).do = "need" /\ Exactly(size).do = "exactly" /\ MayEnd.do = "end"
  /\ \A name, size : /\ Num(name, size).do = "int" /\ Num(name, size).name = name
                     /\ Block(name, size).do = "block" /\ Block(name, size).name = name
  /\ \A name : /\ Text(name).do = "text" /\ Text(name).name = name
               /\ Rest(name).do = "rest" /\ Rest(name).name = name
BY DEF Need, Exactly, MayEnd, Num, Block, Text, Rest

\* The plan of HELLO.
LEMMA HelloPlanned == NoRest(Hello) /\ \E plan : Planned(Hello, plan)
<1>1. PICK plan : plan = <<P(0, "least", 7 + NonceSize),
       P(1, "least", 7 + NonceSize), P(0, "least", 6 + NonceSize),
       P(0, "least", 4 + NonceSize), P(4 + NonceSize, "exact", 4 + NonceSize),
       P(NonceSize, "exact", NonceSize), P(0, "exact", 0)>>
  OBVIOUS
<1>2. /\ Len(Hello) = 6 /\ DOMAIN Hello = 1 .. 6 /\ Hello[1] = Need(1) /\
         Hello[2] = Num("role", 1) /\ Hello[3] = Text("version_text") /\
         Hello[4] = Exactly(4 + NonceSize) /\ Hello[5] = Num("feature_bits", 4) /\
         Hello[6] = Block("nonce", NonceSize)
  BY DEF Hello
<1>3. plan[1] = P(0, "least", 7 + NonceSize) /\
         plan[2] = P(1, "least", 7 + NonceSize) /\
         plan[3] = P(0, "least", 6 + NonceSize) /\
         plan[4] = P(0, "least", 4 + NonceSize) /\
         plan[5] = P(4 + NonceSize, "exact", 4 + NonceSize) /\
         plan[6] = P(NonceSize, "exact", NonceSize) /\ plan[7] = P(0, "exact", 0)
  BY <1>1
<1>4. Sound(Hello[1], plan[1], plan[2])
  <2>1. Sound(Need(1), P(0, "least", 7 + NonceSize), P(1, "least", 7 + NonceSize))
    BY SizesAre DEF Sound, P, Named, Need
  <2>2. QED
    BY <1>2, <1>3, <2>1
<1>5. Sound(Hello[2], plan[2], plan[3])
  <2>1. Sound(Num("role", 1), P(1, "least", 7 + NonceSize), P(0, "least", 6 + NonceSize))
    BY SizesAre DEF Sound, P, Named, Num
  <2>2. QED
    BY <1>2, <1>3, <2>1
<1>6. Sound(Hello[3], plan[3], plan[4])
  <2>1. Sound(Text("version_text"), P(0, "least", 6 + NonceSize), P(0, "least", 4 + NonceSize))
    BY SizesAre DEF Sound, P, Named, Text
  <2>2. QED
    BY <1>2, <1>3, <2>1
<1>7. Sound(Hello[4], plan[4], plan[5])
  <2>1. Sound(Exactly(4 + NonceSize),
              P(0, "least", 4 + NonceSize), P(4 + NonceSize, "exact", 4 + NonceSize))
    BY SizesAre DEF Sound, P, Named, Exactly
  <2>2. QED
    BY <1>2, <1>3, <2>1
<1>8. Sound(Hello[5], plan[5], plan[6])
  <2>1. Sound(Num("feature_bits", 4),
              P(4 + NonceSize, "exact", 4 + NonceSize), P(NonceSize, "exact", NonceSize))
    BY SizesAre DEF Sound, P, Named, Num
  <2>2. QED
    BY <1>2, <1>3, <2>1
<1>9. Sound(Hello[6], plan[6], plan[7])
  <2>1. Sound(Block("nonce", NonceSize), P(NonceSize, "exact", NonceSize), P(0, "exact", 0))
    BY SizesAre DEF Sound, P, Named, Block
  <2>2. QED
    BY <1>2, <1>3, <2>1
<1>10. \A k \in 1 .. 6 : k = 1 \/ k = 2 \/ k = 3 \/ k = 4 \/ k = 5 \/ k = 6
  OBVIOUS
<1>11. \A k \in 1 .. Len(Hello) : Sound(Hello[k], plan[k], plan[k + 1])
  BY <1>2, <1>4, <1>5, <1>6, <1>7, <1>8, <1>9, <1>10
<1>12. /\ Hello[1].do = "need" /\ Hello[2].do = "int" /\ Hello[3].do = "text" /\
         Hello[4].do = "exactly" /\ Hello[5].do = "int" /\ Hello[6].do = "block" /\
         Hello[2].name = "role" /\ Hello[3].name = "version_text" /\
         Hello[5].name = "feature_bits" /\ Hello[6].name = "nonce"
  BY <1>2, KindsAre
<1>13. PICK place : place = [role |-> 2, version_text |-> 3, feature_bits |-> 5,
         nonce |-> 6]
  OBVIOUS
<1>14. place[Hello[2].name] = 2 /\ place[Hello[3].name] = 3 /\
         place[Hello[5].name] = 5 /\ place[Hello[6].name] = 6
  BY <1>12, <1>13
<1>15. \A k \in 1 .. Len(Hello) : Hello[k].do \in Named => place[Hello[k].name] = k
  BY <1>2, <1>10, <1>12, <1>14 DEF Named
<1>16. \A k \in 1 .. Len(Hello) : Hello[k].do = "rest" => FALSE
  BY <1>2, <1>10, <1>12
<1>17. QED
  BY <1>2, <1>3, <1>11, <1>15, <1>16 DEF Planned, P, NoRest

\* The plan of AUTH NODE.
LEMMA AuthNodePlanned == NoRest(AuthNode) /\ \E plan : Planned(AuthNode, plan)
<1>1. PICK plan : plan = <<P(0, "least", 2 + NonceSize + SignSize),
       P(0, "least", NonceSize + SignSize),
       P(NonceSize + SignSize, "exact", NonceSize + SignSize),
       P(SignSize, "exact", SignSize), P(0, "exact", 0)>>
  OBVIOUS
<1>2. /\ Len(AuthNode) = 4 /\ DOMAIN AuthNode = 1 .. 4 /\
         AuthNode[1] = Text("node_id") /\
         AuthNode[2] = Exactly(NonceSize + SignSize) /\
         AuthNode[3] = Block("client_nonce", NonceSize) /\
         AuthNode[4] = Block("sign", SignSize)
  BY DEF AuthNode
<1>3. plan[1] = P(0, "least", 2 + NonceSize + SignSize) /\
         plan[2] = P(0, "least", NonceSize + SignSize) /\
         plan[3] = P(NonceSize + SignSize, "exact", NonceSize + SignSize) /\
         plan[4] = P(SignSize, "exact", SignSize) /\ plan[5] = P(0, "exact", 0)
  BY <1>1
<1>4. Sound(AuthNode[1], plan[1], plan[2])
  <2>1. Sound(Text("node_id"),
              P(0, "least", 2 + NonceSize + SignSize), P(0, "least", NonceSize + SignSize))
    BY SizesAre DEF Sound, P, Named, Text
  <2>2. QED
    BY <1>2, <1>3, <2>1
<1>5. Sound(AuthNode[2], plan[2], plan[3])
  <2>1. Sound(Exactly(NonceSize + SignSize),
              P(0, "least", NonceSize + SignSize), P(NonceSize + SignSize, "exact", NonceSize + SignSize))
    BY SizesAre DEF Sound, P, Named, Exactly
  <2>2. QED
    BY <1>2, <1>3, <2>1
<1>6. Sound(AuthNode[3], plan[3], plan[4])
  <2>1. Sound(Block("client_nonce", NonceSize),
              P(NonceSize + SignSize, "exact", NonceSize + SignSize), P(SignSize, "exact", SignSize))
    BY SizesAre DEF Sound, P, Named, Block
  <2>2. QED
    BY <1>2, <1>3, <2>1
<1>7. Sound(AuthNode[4], plan[4], plan[5])
  <2>1. Sound(Block("sign", SignSize), P(SignSize, "exact", SignSize), P(0, "exact", 0))
    BY SizesAre DEF Sound, P, Named, Block
  <2>2. QED
    BY <1>2, <1>3, <2>1
<1>8. \A k \in 1 .. 4 : k = 1 \/ k = 2 \/ k = 3 \/ k = 4
  OBVIOUS
<1>9. \A k \in 1 .. Len(AuthNode) : Sound(AuthNode[k], plan[k], plan[k + 1])
  BY <1>2, <1>4, <1>5, <1>6, <1>7, <1>8
<1>10. /\ AuthNode[1].do = "text" /\ AuthNode[2].do = "exactly" /\
         AuthNode[3].do = "block" /\ AuthNode[4].do = "block" /\
         AuthNode[1].name = "node_id" /\ AuthNode[3].name = "client_nonce" /\
         AuthNode[4].name = "sign"
  BY <1>2, KindsAre
<1>11. PICK place : place = [node_id |-> 1, client_nonce |-> 3, sign |-> 4]
  OBVIOUS
<1>12. place[AuthNode[1].name] = 1 /\ place[AuthNode[3].name] = 3 /\
         place[AuthNode[4].name] = 4
  BY <1>10, <1>11
<1>13. \A k \in 1 .. Len(AuthNode) : AuthNode[k].do \in Named => place[AuthNode[k].name] = k
  BY <1>2, <1>8, <1>10, <1>12 DEF Named
<1>14. \A k \in 1 .. Len(AuthNode) : AuthNode[k].do = "rest" => FALSE
  BY <1>2, <1>8, <1>10
<1>15. QED
  BY <1>2, <1>3, <1>9, <1>13, <1>14 DEF Planned, P, NoRest

\* The plan of AUTH TAP.
LEMMA AuthTapPlanned == NoRest(AuthTap) /\ \E plan : Planned(AuthTap, plan)
<1>1. PICK plan : plan = <<P(0, "least", 8 + NonceSize),
       P(0, "least", 6 + NonceSize), P(0, "least", 4 + NonceSize),
       P(4 + NonceSize, "exact", 4 + NonceSize), P(NonceSize, "exact", NonceSize),
       P(0, "exact", 0)>>
  OBVIOUS
<1>2. /\ Len(AuthTap) = 5 /\ DOMAIN AuthTap = 1 .. 5 /\
         AuthTap[1] = Text("username") /\ AuthTap[2] = Text("password") /\
         AuthTap[3] = Exactly(4 + NonceSize) /\ AuthTap[4] = Num("network_id", 4) /\
         AuthTap[5] = Block("client_nonce", NonceSize)
  BY DEF AuthTap
<1>3. plan[1] = P(0, "least", 8 + NonceSize) /\
         plan[2] = P(0, "least", 6 + NonceSize) /\
         plan[3] = P(0, "least", 4 + NonceSize) /\
         plan[4] = P(4 + NonceSize, "exact", 4 + NonceSize) /\
         plan[5] = P(NonceSize, "exact", NonceSize) /\ plan[6] = P(0, "exact", 0)
  BY <1>1
<1>4. Sound(AuthTap[1], plan[1], plan[2])
  <2>1. Sound(Text("username"), P(0, "least", 8 + NonceSize), P(0, "least", 6 + NonceSize))
    BY SizesAre DEF Sound, P, Named, Text
  <2>2. QED
    BY <1>2, <1>3, <2>1
<1>5. Sound(AuthTap[2], plan[2], plan[3])
  <2>1. Sound(Text("password"), P(0, "least", 6 + NonceSize), P(0, "least", 4 + NonceSize))
    BY SizesAre DEF Sound, P, Named, Text
  <2>2. QED
    BY <1>2, <1>3, <2>1
<1>6. Sound(AuthTap[3], plan[3], plan[4])
  <2>1. Sound(Exactly(4 + NonceSize),
              P(0, "least", 4 + NonceSize), P(4 + NonceSize, "exact", 4 + NonceSize))
    BY SizesAre DEF Sound, P, Named, Exactly
  <2>2. QED
    BY <1>2, <1>3, <2>1
<1>7. Sound(AuthTap[4], plan[4], plan[5])
  <2>1. Sound(Num("network_id", 4),
              P(4 + NonceSize, "exact", 4 + NonceSize), P(NonceSize, "exact", NonceSize))
    BY SizesAre DEF Sound, P, Named, Num
  <2>2. QED
    BY <1>2, <1>3, <2>1
<1>8. Sound(AuthTap[5], plan[5], plan[6])
  <2>1. Sound(Block("client_nonce", NonceSize), P(NonceSize, "exact", NonceSize), P(0, "exact", 0))
    BY SizesAre DEF Sound, P, Named, Block
  <2>2. QED
    BY <1>2, <1>3, <2>1
<1>9. \A k \in 1 .. 5 : k = 1 \/ k = 2 \/ k = 3 \/ k = 4 \/ k = 5
  OBVIOUS
<1>10. \A k \in 1 .. Len(AuthTap) : Sound(AuthTap[k], plan[k], plan[k + 1])
  BY <1>2, <1>4, <1>5, <1>6, <1>7, <1>8, <1>9
<1>11. /\ AuthTap[1].do = "text" /\ AuthTap[2].do = "text" /\
         AuthTap[3].do = "exactly" /\ AuthTap[4].do = "int" /\
         AuthTap[5].do = "block" /\ AuthTap[1].name = "username" /\
         AuthTap[2].name = "password" /\ AuthTap[4].name = "network_id" /\
         AuthTap[5].name = "client_nonce"
  BY <1>2, KindsAre
<1>12. PICK place : place = [username |-> 1, password |-> 2, network_id |-> 4,
         client_nonce |-> 5]
  OBVIOUS
<1>13. place[AuthTap[1].name] = 1 /\ place[AuthTap[2].name] = 2 /\
         place[AuthTap[4].name] = 4 /\ place[AuthTap[5].name] = 5
  BY <1>11, <1>12
<1>14. \A k \in 1 .. Len(AuthTap) : AuthTap[k].do \in Named => place[AuthTap[k].name] = k
  BY <1>2, <1>9, <1>11, <1>13 DEF Named
<1>15. \A k \in 1 .. Len(AuthTap) : AuthTap[k].do = "rest" => FALSE
  BY <1>2, <1>9, <1>11
<1>16. QED
  BY <1>2, <1>3, <1>10, <1>14, <1>15 DEF Planned, P, NoRest

\* The plan of AUTH OK.
LEMMA AuthOkPlanned == NoRest(AuthOk) /\ \E plan : Planned(AuthOk, plan)
<1>1. PICK plan : plan = <<P(0, "least", 20), P(20, "exact", 20),
       P(16, "exact", 16), P(12, "exact", 12), P(4, "exact", 4), P(0, "exact", 0)>>
  OBVIOUS
<1>2. /\ Len(AuthOk) = 5 /\ DOMAIN AuthOk = 1 .. 5 /\ AuthOk[1] = Exactly(20) /\
         AuthOk[2] = Num("session_id", 4) /\ AuthOk[3] = Num("network_id", 4) /\
         AuthOk[4] = Num("server_time", 8) /\ AuthOk[5] = Num("feature_bits", 4)
  BY DEF AuthOk
<1>3. plan[1] = P(0, "least", 20) /\ plan[2] = P(20, "exact", 20) /\
         plan[3] = P(16, "exact", 16) /\ plan[4] = P(12, "exact", 12) /\
         plan[5] = P(4, "exact", 4) /\ plan[6] = P(0, "exact", 0)
  BY <1>1
<1>4. Sound(AuthOk[1], plan[1], plan[2])
  <2>1. Sound(Exactly(20), P(0, "least", 20), P(20, "exact", 20))
    BY SizesAre DEF Sound, P, Named, Exactly
  <2>2. QED
    BY <1>2, <1>3, <2>1
<1>5. Sound(AuthOk[2], plan[2], plan[3])
  <2>1. Sound(Num("session_id", 4), P(20, "exact", 20), P(16, "exact", 16))
    BY SizesAre DEF Sound, P, Named, Num
  <2>2. QED
    BY <1>2, <1>3, <2>1
<1>6. Sound(AuthOk[3], plan[3], plan[4])
  <2>1. Sound(Num("network_id", 4), P(16, "exact", 16), P(12, "exact", 12))
    BY SizesAre DEF Sound, P, Named, Num
  <2>2. QED
    BY <1>2, <1>3, <2>1
<1>7. Sound(AuthOk[4], plan[4], plan[5])
  <2>1. Sound(Num("server_time", 8), P(12, "exact", 12), P(4, "exact", 4))
    BY SizesAre DEF Sound, P, Named, Num
  <2>2. QED
    BY <1>2, <1>3, <2>1
<1>8. Sound(AuthOk[5], plan[5], plan[6])
  <2>1. Sound(Num("feature_bits", 4), P(4, "exact", 4), P(0, "exact", 0))
    BY SizesAre DEF Sound, P, Named, Num
  <2>2. QED
    BY <1>2, <1>3, <2>1
<1>9. \A k \in 1 .. 5 : k = 1 \/ k = 2 \/ k = 3 \/ k = 4 \/ k = 5
  OBVIOUS
<1>10. \A k \in 1 .. Len(AuthOk) : Sound(AuthOk[k], plan[k], plan[k + 1])
  BY <1>2, <1>4, <1>5, <1>6, <1>7, <1>8, <1>9
<1>11. /\ AuthOk[1].do = "exactly" /\ AuthOk[2].do = "int" /\
         AuthOk[3].do = "int" /\ AuthOk[4].do = "int" /\ AuthOk[5].do = "int" /\
         AuthOk[2].name = "session_id" /\ AuthOk[3].name = "network_id" /\
         AuthOk[4].name = "server_time" /\ AuthOk[5].name = "feature_bits"
  BY <1>2, KindsAre
<1>12. PICK place : place = [session_id |-> 2, network_id |-> 3, server_time |-> 4,
         feature_bits |-> 5]
  OBVIOUS
<1>13. place[AuthOk[2].name] = 2 /\ place[AuthOk[3].name] = 3 /\
         place[AuthOk[4].name] = 4 /\ place[AuthOk[5].name] = 5
  BY <1>11, <1>12
<1>14. \A k \in 1 .. Len(AuthOk) : AuthOk[k].do \in Named => place[AuthOk[k].name] = k
  BY <1>2, <1>9, <1>11, <1>13 DEF Named
<1>15. \A k \in 1 .. Len(AuthOk) : AuthOk[k].do = "rest" => FALSE
  BY <1>2, <1>9, <1>11
<1>16. QED
  BY <1>2, <1>3, <1>10, <1>14, <1>15 DEF Planned, P, NoRest

\* The plan of CONFIG PUSH.
LEMMA ConfigPushPlanned == NoRest(ConfigPush) /\ \E plan : Planned(ConfigPush, plan)
<1>1. PICK plan : plan = <<P(0, "least", 29), P(19, "least", 29),
       P(15, "least", 25), P(11, "least", 21), P(10, "least", 20),
       P(9, "least", 19), P(8, "least", 18), P(0, "least", 16), P(0, "least", 14),
       P(8, "least", 14), P(6, "least", 12), P(4, "least", 10), P(0, "least", 6),
       P(0, "least", 6), P(0, "least", 4), P(0, "least", 2), P(0, "least", 0),
       P(0, "exact", 0)>>
  OBVIOUS
<1>2. /\ Len(ConfigPush) = 17 /\ DOMAIN ConfigPush = 1 .. 17 /\
         ConfigPush[1] = Need(19) /\ ConfigPush[2] = Num("config_version", 4) /\
         ConfigPush[3] = Num("network_id", 4) /\
         ConfigPush[4] = Num("tap_enabled", 1) /\
         ConfigPush[5] = Num("socks_enabled", 1) /\
         ConfigPush[6] = Num("direct_enabled", 1) /\
         ConfigPush[7] = Text("tap_name") /\ ConfigPush[8] = Text("bridge_name") /\
         ConfigPush[9] = Need(8) /\ ConfigPush[10] = Num("mtu", 2) /\
         ConfigPush[11] = Num("direct_port", 2) /\
         ConfigPush[12] = Num("flags", 4) /\ ConfigPush[13] = MayEnd /\
         ConfigPush[14] = Text("direct_mode") /\
         ConfigPush[15] = Text("direct_addr") /\
         ConfigPush[16] = Text("direct_token") /\ ConfigPush[17] = Exactly(0)
  BY DEF ConfigPush
<1>3. plan[1] = P(0, "least", 29) /\ plan[2] = P(19, "least", 29) /\
         plan[3] = P(15, "least", 25) /\ plan[4] = P(11, "least", 21) /\
         plan[5] = P(10, "least", 20) /\ plan[6] = P(9, "least", 19) /\
         plan[7] = P(8, "least", 18) /\ plan[8] = P(0, "least", 16) /\
         plan[9] = P(0, "least", 14) /\ plan[10] = P(8, "least", 14) /\
         plan[11] = P(6, "least", 12) /\ plan[12] = P(4, "least", 10) /\
         plan[13] = P(0, "least", 6) /\ plan[14] = P(0, "least", 6) /\
         plan[15] = P(0, "least", 4) /\ plan[16] = P(0, "least", 2) /\
         plan[17] = P(0, "least", 0) /\ plan[18] = P(0, "exact", 0)
  BY <1>1
<1>4. Sound(ConfigPush[1], plan[1], plan[2])
  <2>1. Sound(Need(19), P(0, "least", 29), P(19, "least", 29))
    BY SizesAre DEF Sound, P, Named, Need
  <2>2. QED
    BY <1>2, <1>3, <2>1
<1>5. Sound(ConfigPush[2], plan[2], plan[3])
  <2>1. Sound(Num("config_version", 4), P(19, "least", 29), P(15, "least", 25))
    BY SizesAre DEF Sound, P, Named, Num
  <2>2. QED
    BY <1>2, <1>3, <2>1
<1>6. Sound(ConfigPush[3], plan[3], plan[4])
  <2>1. Sound(Num("network_id", 4), P(15, "least", 25), P(11, "least", 21))
    BY SizesAre DEF Sound, P, Named, Num
  <2>2. QED
    BY <1>2, <1>3, <2>1
<1>7. Sound(ConfigPush[4], plan[4], plan[5])
  <2>1. Sound(Num("tap_enabled", 1), P(11, "least", 21), P(10, "least", 20))
    BY SizesAre DEF Sound, P, Named, Num
  <2>2. QED
    BY <1>2, <1>3, <2>1
<1>8. Sound(ConfigPush[5], plan[5], plan[6])
  <2>1. Sound(Num("socks_enabled", 1), P(10, "least", 20), P(9, "least", 19))
    BY SizesAre DEF Sound, P, Named, Num
  <2>2. QED
    BY <1>2, <1>3, <2>1
<1>9. Sound(ConfigPush[6], plan[6], plan[7])
  <2>1. Sound(Num("direct_enabled", 1), P(9, "least", 19), P(8, "least", 18))
    BY SizesAre DEF Sound, P, Named, Num
  <2>2. QED
    BY <1>2, <1>3, <2>1
<1>10. Sound(ConfigPush[7], plan[7], plan[8])
  <2>1. Sound(Text("tap_name"), P(8, "least", 18), P(0, "least", 16))
    BY SizesAre DEF Sound, P, Named, Text
  <2>2. QED
    BY <1>2, <1>3, <2>1
<1>11. Sound(ConfigPush[8], plan[8], plan[9])
  <2>1. Sound(Text("bridge_name"), P(0, "least", 16), P(0, "least", 14))
    BY SizesAre DEF Sound, P, Named, Text
  <2>2. QED
    BY <1>2, <1>3, <2>1
<1>12. Sound(ConfigPush[9], plan[9], plan[10])
  <2>1. Sound(Need(8), P(0, "least", 14), P(8, "least", 14))
    BY SizesAre DEF Sound, P, Named, Need
  <2>2. QED
    BY <1>2, <1>3, <2>1
<1>13. Sound(ConfigPush[10], plan[10], plan[11])
  <2>1. Sound(Num("mtu", 2), P(8, "least", 14), P(6, "least", 12))
    BY SizesAre DEF Sound, P, Named, Num
  <2>2. QED
    BY <1>2, <1>3, <2>1
<1>14. Sound(ConfigPush[11], plan[11], plan[12])
  <2>1. Sound(Num("direct_port", 2), P(6, "least", 12), P(4, "least", 10))
    BY SizesAre DEF Sound, P, Named, Num
  <2>2. QED
    BY <1>2, <1>3, <2>1
<1>15. Sound(ConfigPush[12], plan[12], plan[13])
  <2>1. Sound(Num("flags", 4), P(4, "least", 10), P(0, "least", 6))
    BY SizesAre DEF Sound, P, Named, Num
  <2>2. QED
    BY <1>2, <1>3, <2>1
<1>16. Sound(ConfigPush[13], plan[13], plan[14])
  <2>1. Sound(MayEnd, P(0, "least", 6), P(0, "least", 6))
    BY SizesAre DEF Sound, P, Named, MayEnd
  <2>2. QED
    BY <1>2, <1>3, <2>1
<1>17. Sound(ConfigPush[14], plan[14], plan[15])
  <2>1. Sound(Text("direct_mode"), P(0, "least", 6), P(0, "least", 4))
    BY SizesAre DEF Sound, P, Named, Text
  <2>2. QED
    BY <1>2, <1>3, <2>1
<1>18. Sound(ConfigPush[15], plan[15], plan[16])
  <2>1. Sound(Text("direct_addr"), P(0, "least", 4), P(0, "least", 2))
    BY SizesAre DEF Sound, P, Named, Text
  <2>2. QED
    BY <1>2, <1>3, <2>1
<1>19. Sound(ConfigPush[16], plan[16], plan[17])
  <2>1. Sound(Text("direct_token"), P(0, "least", 2), P(0, "least", 0))
    BY SizesAre DEF Sound, P, Named, Text
  <2>2. QED
    BY <1>2, <1>3, <2>1
<1>20. Sound(ConfigPush[17], plan[17], plan[18])
  <2>1. Sound(Exactly(0), P(0, "least", 0), P(0, "exact", 0))
    BY SizesAre DEF Sound, P, Named, Exactly
  <2>2. QED
    BY <1>2, <1>3, <2>1
<1>21. \A k \in 1 .. 17 : k = 1 \/ k = 2 \/ k = 3 \/ k = 4 \/ k = 5 \/ k = 6 \/
         k = 7 \/ k = 8 \/ k = 9 \/ k = 10 \/ k = 11 \/ k = 12 \/ k = 13 \/
         k = 14 \/ k = 15 \/ k = 16 \/ k = 17
  OBVIOUS
<1>22. \A k \in 1 .. Len(ConfigPush) : Sound(ConfigPush[k], plan[k], plan[k + 1])
  BY <1>2, <1>4, <1>5, <1>6, <1>7, <1>8, <1>9, <1>10, <1>11, <1>12,
     <1>13, <1>14, <1>15, <1>16, <1>17, <1>18, <1>19, <1>20, <1>21
<1>23. /\ ConfigPush[1].do = "need" /\ ConfigPush[2].do = "int" /\
         ConfigPush[3].do = "int" /\ ConfigPush[4].do = "int" /\
         ConfigPush[5].do = "int" /\ ConfigPush[6].do = "int" /\
         ConfigPush[7].do = "text" /\ ConfigPush[8].do = "text" /\
         ConfigPush[9].do = "need" /\ ConfigPush[10].do = "int" /\
         ConfigPush[11].do = "int" /\ ConfigPush[12].do = "int" /\
         ConfigPush[13].do = "end" /\ ConfigPush[14].do = "text" /\
         ConfigPush[15].do = "text" /\ ConfigPush[16].do = "text" /\
         ConfigPush[17].do = "exactly" /\ ConfigPush[2].name = "config_version" /\
         ConfigPush[3].name = "network_id" /\ ConfigPush[4].name = "tap_enabled" /\
         ConfigPush[5].name = "socks_enabled" /\
         ConfigPush[6].name = "direct_enabled" /\ ConfigPush[7].name = "tap_name" /\
         ConfigPush[8].name = "bridge_name" /\ ConfigPush[10].name = "mtu" /\
         ConfigPush[11].name = "direct_port" /\ ConfigPush[12].name = "flags" /\
         ConfigPush[14].name = "direct_mode" /\
         ConfigPush[15].name = "direct_addr" /\ ConfigPush[16].name = "direct_token"
  BY <1>2, KindsAre
<1>24. PICK place : place = [config_version |-> 2, network_id |-> 3,
         tap_enabled |-> 4, socks_enabled |-> 5, direct_enabled |-> 6,
         tap_name |-> 7, bridge_name |-> 8, mtu |-> 10, direct_port |-> 11,
         flags |-> 12, direct_mode |-> 14, direct_addr |-> 15, direct_token |-> 16]
  OBVIOUS
<1>25. place[ConfigPush[2].name] = 2 /\ place[ConfigPush[3].name] = 3 /\
         place[ConfigPush[4].name] = 4 /\ place[ConfigPush[5].name] = 5 /\
         place[ConfigPush[6].name] = 6 /\ place[ConfigPush[7].name] = 7 /\
         place[ConfigPush[8].name] = 8 /\ place[ConfigPush[10].name] = 10 /\
         place[ConfigPush[11].name] = 11 /\ place[ConfigPush[12].name] = 12 /\
         place[ConfigPush[14].name] = 14 /\ place[ConfigPush[15].name] = 15 /\
         place[ConfigPush[16].name] = 16
  BY <1>23, <1>24
<1>26. \A k \in 1 .. Len(ConfigPush) : ConfigPush[k].do \in Named => place[ConfigPush[k].name] = k
  BY <1>2, <1>21, <1>23, <1>25 DEF Named
<1>27. \A k \in 1 .. Len(ConfigPush) : ConfigPush[k].do = "rest" => FALSE
  BY <1>2, <1>21, <1>23
<1>28. QED
  BY <1>2, <1>3, <1>22, <1>26, <1>27 DEF Planned, P, NoRest

\* The plan of TAP FRAME.
LEMMA TapFramePlanned == \E plan : Planned(TapFrame, plan)
<1>1. PICK plan : plan = <<P(0, "least", 6), P(6, "least", 6), P(2, "least", 2),
       P(0, "least", 0), P(0, "exact", 0)>>
  OBVIOUS
<1>2. /\ Len(TapFrame) = 4 /\ DOMAIN TapFrame = 1 .. 4 /\ TapFrame[1] = Need(6) /\
         TapFrame[2] = Num("network_id", 4) /\ TapFrame[3] = Num("frame_len", 2) /\
         TapFrame[4] = Rest("frame")
  BY DEF TapFrame
<1>3. plan[1] = P(0, "least", 6) /\ plan[2] = P(6, "least", 6) /\
         plan[3] = P(2, "least", 2) /\ plan[4] = P(0, "least", 0) /\
         plan[5] = P(0, "exact", 0)
  BY <1>1
<1>4. Sound(TapFrame[1], plan[1], plan[2])
  <2>1. Sound(Need(6), P(0, "least", 6), P(6, "least", 6))
    BY SizesAre DEF Sound, P, Named, Need
  <2>2. QED
    BY <1>2, <1>3, <2>1
<1>5. Sound(TapFrame[2], plan[2], plan[3])
  <2>1. Sound(Num("network_id", 4), P(6, "least", 6), P(2, "least", 2))
    BY SizesAre DEF Sound, P, Named, Num
  <2>2. QED
    BY <1>2, <1>3, <2>1
<1>6. Sound(TapFrame[3], plan[3], plan[4])
  <2>1. Sound(Num("frame_len", 2), P(2, "least", 2), P(0, "least", 0))
    BY SizesAre DEF Sound, P, Named, Num
  <2>2. QED
    BY <1>2, <1>3, <2>1
<1>7. Sound(TapFrame[4], plan[4], plan[5])
  <2>1. Sound(Rest("frame"), P(0, "least", 0), P(0, "exact", 0))
    BY SizesAre DEF Sound, P, Named, Rest
  <2>2. QED
    BY <1>2, <1>3, <2>1
<1>8. \A k \in 1 .. 4 : k = 1 \/ k = 2 \/ k = 3 \/ k = 4
  OBVIOUS
<1>9. \A k \in 1 .. Len(TapFrame) : Sound(TapFrame[k], plan[k], plan[k + 1])
  BY <1>2, <1>4, <1>5, <1>6, <1>7, <1>8
<1>10. /\ TapFrame[1].do = "need" /\ TapFrame[2].do = "int" /\
         TapFrame[3].do = "int" /\ TapFrame[4].do = "rest" /\
         TapFrame[2].name = "network_id" /\ TapFrame[3].name = "frame_len" /\
         TapFrame[4].name = "frame"
  BY <1>2, KindsAre
<1>11. PICK place : place = [network_id |-> 2, frame_len |-> 3, frame |-> 4]
  OBVIOUS
<1>12. place[TapFrame[2].name] = 2 /\ place[TapFrame[3].name] = 3 /\
         place[TapFrame[4].name] = 4
  BY <1>10, <1>11
<1>13. \A k \in 1 .. Len(TapFrame) : TapFrame[k].do \in Named => place[TapFrame[k].name] = k
  BY <1>2, <1>8, <1>10, <1>12 DEF Named
<1>14. \A k \in 1 .. Len(TapFrame) : TapFrame[k].do = "rest" => k = Len(TapFrame)
  BY <1>2, <1>8, <1>10
<1>15. QED
  BY <1>2, <1>3, <1>9, <1>13, <1>14 DEF Planned, P

\* The plan of SOCKS OPEN.
LEMMA SocksOpenPlanned == NoRest(SocksOpen) /\ \E plan : Planned(SocksOpen, plan)
<1>1. PICK plan : plan = <<P(0, "least", 8), P(8, "least", 8), P(4, "least", 4),
       P(0, "least", 2), P(2, "exact", 2), P(0, "exact", 0)>>
  OBVIOUS
<1>2. /\ Len(SocksOpen) = 5 /\ DOMAIN SocksOpen = 1 .. 5 /\
         SocksOpen[1] = Need(8) /\ SocksOpen[2] = Num("stream_id", 4) /\
         SocksOpen[3] = Text("host") /\ SocksOpen[4] = Exactly(2) /\
         SocksOpen[5] = Num("port", 2)
  BY DEF SocksOpen
<1>3. plan[1] = P(0, "least", 8) /\ plan[2] = P(8, "least", 8) /\
         plan[3] = P(4, "least", 4) /\ plan[4] = P(0, "least", 2) /\
         plan[5] = P(2, "exact", 2) /\ plan[6] = P(0, "exact", 0)
  BY <1>1
<1>4. Sound(SocksOpen[1], plan[1], plan[2])
  <2>1. Sound(Need(8), P(0, "least", 8), P(8, "least", 8))
    BY SizesAre DEF Sound, P, Named, Need
  <2>2. QED
    BY <1>2, <1>3, <2>1
<1>5. Sound(SocksOpen[2], plan[2], plan[3])
  <2>1. Sound(Num("stream_id", 4), P(8, "least", 8), P(4, "least", 4))
    BY SizesAre DEF Sound, P, Named, Num
  <2>2. QED
    BY <1>2, <1>3, <2>1
<1>6. Sound(SocksOpen[3], plan[3], plan[4])
  <2>1. Sound(Text("host"), P(4, "least", 4), P(0, "least", 2))
    BY SizesAre DEF Sound, P, Named, Text
  <2>2. QED
    BY <1>2, <1>3, <2>1
<1>7. Sound(SocksOpen[4], plan[4], plan[5])
  <2>1. Sound(Exactly(2), P(0, "least", 2), P(2, "exact", 2))
    BY SizesAre DEF Sound, P, Named, Exactly
  <2>2. QED
    BY <1>2, <1>3, <2>1
<1>8. Sound(SocksOpen[5], plan[5], plan[6])
  <2>1. Sound(Num("port", 2), P(2, "exact", 2), P(0, "exact", 0))
    BY SizesAre DEF Sound, P, Named, Num
  <2>2. QED
    BY <1>2, <1>3, <2>1
<1>9. \A k \in 1 .. 5 : k = 1 \/ k = 2 \/ k = 3 \/ k = 4 \/ k = 5
  OBVIOUS
<1>10. \A k \in 1 .. Len(SocksOpen) : Sound(SocksOpen[k], plan[k], plan[k + 1])
  BY <1>2, <1>4, <1>5, <1>6, <1>7, <1>8, <1>9
<1>11. /\ SocksOpen[1].do = "need" /\ SocksOpen[2].do = "int" /\
         SocksOpen[3].do = "text" /\ SocksOpen[4].do = "exactly" /\
         SocksOpen[5].do = "int" /\ SocksOpen[2].name = "stream_id" /\
         SocksOpen[3].name = "host" /\ SocksOpen[5].name = "port"
  BY <1>2, KindsAre
<1>12. PICK place : place = [stream_id |-> 2, host |-> 3, port |-> 5]
  OBVIOUS
<1>13. place[SocksOpen[2].name] = 2 /\ place[SocksOpen[3].name] = 3 /\
         place[SocksOpen[5].name] = 5
  BY <1>11, <1>12
<1>14. \A k \in 1 .. Len(SocksOpen) : SocksOpen[k].do \in Named => place[SocksOpen[k].name] = k
  BY <1>2, <1>9, <1>11, <1>13 DEF Named
<1>15. \A k \in 1 .. Len(SocksOpen) : SocksOpen[k].do = "rest" => FALSE
  BY <1>2, <1>9, <1>11
<1>16. QED
  BY <1>2, <1>3, <1>10, <1>14, <1>15 DEF Planned, P, NoRest

\* The plan of SOCKS DATA.
LEMMA SocksDataPlanned == \E plan : Planned(SocksData, plan)
<1>1. PICK plan : plan = <<P(0, "least", 5), P(5, "least", 5), P(1, "least", 1),
       P(0, "exact", 0)>>
  OBVIOUS
<1>2. /\ Len(SocksData) = 3 /\ DOMAIN SocksData = 1 .. 3 /\
         SocksData[1] = Need(5) /\ SocksData[2] = Num("stream_id", 4) /\
         SocksData[3] = Rest("data")
  BY DEF SocksData
<1>3. plan[1] = P(0, "least", 5) /\ plan[2] = P(5, "least", 5) /\
         plan[3] = P(1, "least", 1) /\ plan[4] = P(0, "exact", 0)
  BY <1>1
<1>4. Sound(SocksData[1], plan[1], plan[2])
  <2>1. Sound(Need(5), P(0, "least", 5), P(5, "least", 5))
    BY SizesAre DEF Sound, P, Named, Need
  <2>2. QED
    BY <1>2, <1>3, <2>1
<1>5. Sound(SocksData[2], plan[2], plan[3])
  <2>1. Sound(Num("stream_id", 4), P(5, "least", 5), P(1, "least", 1))
    BY SizesAre DEF Sound, P, Named, Num
  <2>2. QED
    BY <1>2, <1>3, <2>1
<1>6. Sound(SocksData[3], plan[3], plan[4])
  <2>1. Sound(Rest("data"), P(1, "least", 1), P(0, "exact", 0))
    BY SizesAre DEF Sound, P, Named, Rest
  <2>2. QED
    BY <1>2, <1>3, <2>1
<1>7. \A k \in 1 .. 3 : k = 1 \/ k = 2 \/ k = 3
  OBVIOUS
<1>8. \A k \in 1 .. Len(SocksData) : Sound(SocksData[k], plan[k], plan[k + 1])
  BY <1>2, <1>4, <1>5, <1>6, <1>7
<1>9. /\ SocksData[1].do = "need" /\ SocksData[2].do = "int" /\
         SocksData[3].do = "rest" /\ SocksData[2].name = "stream_id" /\
         SocksData[3].name = "data"
  BY <1>2, KindsAre
<1>10. PICK place : place = [stream_id |-> 2, data |-> 3]
  OBVIOUS
<1>11. place[SocksData[2].name] = 2 /\ place[SocksData[3].name] = 3
  BY <1>9, <1>10
<1>12. \A k \in 1 .. Len(SocksData) : SocksData[k].do \in Named => place[SocksData[k].name] = k
  BY <1>2, <1>7, <1>9, <1>11 DEF Named
<1>13. \A k \in 1 .. Len(SocksData) : SocksData[k].do = "rest" => k = Len(SocksData)
  BY <1>2, <1>7, <1>9
<1>14. QED
  BY <1>2, <1>3, <1>8, <1>12, <1>13 DEF Planned, P

\* The plan of SOCKS CLOSE.
LEMMA SocksClosePlanned == NoRest(SocksClose) /\ \E plan : Planned(SocksClose, plan)
<1>1. PICK plan : plan = <<P(0, "least", 8), P(4, "least", 8), P(0, "least", 4),
       P(0, "least", 4), P(4, "exact", 4), P(2, "exact", 2), P(0, "exact", 0)>>
  OBVIOUS
<1>2. /\ Len(SocksClose) = 6 /\ DOMAIN SocksClose = 1 .. 6 /\
         SocksClose[1] = Need(4) /\ SocksClose[2] = Num("stream_id", 4) /\
         SocksClose[3] = MayEnd /\ SocksClose[4] = Exactly(4) /\
         SocksClose[5] = Num("reason_code", 2) /\ SocksClose[6] = Num("flags", 2)
  BY DEF SocksClose
<1>3. plan[1] = P(0, "least", 8) /\ plan[2] = P(4, "least", 8) /\
         plan[3] = P(0, "least", 4) /\ plan[4] = P(0, "least", 4) /\
         plan[5] = P(4, "exact", 4) /\ plan[6] = P(2, "exact", 2) /\
         plan[7] = P(0, "exact", 0)
  BY <1>1
<1>4. Sound(SocksClose[1], plan[1], plan[2])
  <2>1. Sound(Need(4), P(0, "least", 8), P(4, "least", 8))
    BY SizesAre DEF Sound, P, Named, Need
  <2>2. QED
    BY <1>2, <1>3, <2>1
<1>5. Sound(SocksClose[2], plan[2], plan[3])
  <2>1. Sound(Num("stream_id", 4), P(4, "least", 8), P(0, "least", 4))
    BY SizesAre DEF Sound, P, Named, Num
  <2>2. QED
    BY <1>2, <1>3, <2>1
<1>6. Sound(SocksClose[3], plan[3], plan[4])
  <2>1. Sound(MayEnd, P(0, "least", 4), P(0, "least", 4))
    BY SizesAre DEF Sound, P, Named, MayEnd
  <2>2. QED
    BY <1>2, <1>3, <2>1
<1>7. Sound(SocksClose[4], plan[4], plan[5])
  <2>1. Sound(Exactly(4), P(0, "least", 4), P(4, "exact", 4))
    BY SizesAre DEF Sound, P, Named, Exactly
  <2>2. QED
    BY <1>2, <1>3, <2>1
<1>8. Sound(SocksClose[5], plan[5], plan[6])
  <2>1. Sound(Num("reason_code", 2), P(4, "exact", 4), P(2, "exact", 2))
    BY SizesAre DEF Sound, P, Named, Num
  <2>2. QED
    BY <1>2, <1>3, <2>1
<1>9. Sound(SocksClose[6], plan[6], plan[7])
  <2>1. Sound(Num("flags", 2), P(2, "exact", 2), P(0, "exact", 0))
    BY SizesAre DEF Sound, P, Named, Num
  <2>2. QED
    BY <1>2, <1>3, <2>1
<1>10. \A k \in 1 .. 6 : k = 1 \/ k = 2 \/ k = 3 \/ k = 4 \/ k = 5 \/ k = 6
  OBVIOUS
<1>11. \A k \in 1 .. Len(SocksClose) : Sound(SocksClose[k], plan[k], plan[k + 1])
  BY <1>2, <1>4, <1>5, <1>6, <1>7, <1>8, <1>9, <1>10
<1>12. /\ SocksClose[1].do = "need" /\ SocksClose[2].do = "int" /\
         SocksClose[3].do = "end" /\ SocksClose[4].do = "exactly" /\
         SocksClose[5].do = "int" /\ SocksClose[6].do = "int" /\
         SocksClose[2].name = "stream_id" /\ SocksClose[5].name = "reason_code" /\
         SocksClose[6].name = "flags"
  BY <1>2, KindsAre
<1>13. PICK place : place = [stream_id |-> 2, reason_code |-> 5, flags |-> 6]
  OBVIOUS
<1>14. place[SocksClose[2].name] = 2 /\ place[SocksClose[5].name] = 5 /\
         place[SocksClose[6].name] = 6
  BY <1>12, <1>13
<1>15. \A k \in 1 .. Len(SocksClose) : SocksClose[k].do \in Named => place[SocksClose[k].name] = k
  BY <1>2, <1>10, <1>12, <1>14 DEF Named
<1>16. \A k \in 1 .. Len(SocksClose) : SocksClose[k].do = "rest" => FALSE
  BY <1>2, <1>10, <1>12
<1>17. QED
  BY <1>2, <1>3, <1>11, <1>15, <1>16 DEF Planned, P, NoRest

\* Every layout has a plan.
LEMMA LayoutPlanned == ASSUME NEW t \in MessageTypes PROVE \E plan : Planned(Layout(t), plan)
BY HelloPlanned, AuthNodePlanned, AuthTapPlanned, AuthOkPlanned, ConfigPushPlanned,
   TapFramePlanned, SocksOpenPlanned, SocksDataPlanned, SocksClosePlanned
   DEF MessageTypes, Layout

\* Only two have a part whose length is not said.
LEMMA RestIsLast ==
  ASSUME NEW t \in MessageTypes, NEW k \in 1 .. Len(Layout(t)), Layout(t)[k].do = "rest"
  PROVE  t \in {"TAP_FRAME", "SOCKS_DATA"}
BY HelloPlanned, AuthNodePlanned, AuthTapPlanned, AuthOkPlanned, ConfigPushPlanned,
   SocksOpenPlanned, SocksClosePlanned DEF MessageTypes, Layout, NoRest

\* What the items of a layout are.
LEMMA ItemIs ==
  ASSUME NEW t \in Types, NEW k \in 1 .. Len(Layout(t)), NEW f, f = Layout(t)[k]
  PROVE  /\ f.do \in Named \cup {"need", "exactly", "end"} /\ f.size \in Nat
         /\ f.do \in Named => f \in Fields(t) /\ f.name \in Names(t) /\ f.name # ""
         /\ f.do \notin Named => f.name = ""
<1>1. t \in MessageTypes
  BY WireAssumption
<1>2. PICK plan : Planned(Layout(t), plan)
  BY <1>1, LayoutPlanned
<1>3. Sound(f, plan[k], plan[k + 1]) /\ k \in DOMAIN Layout(t)
  BY <1>2 DEF Planned
<1>4. f \in ToSet(Layout(t))
  BY <1>3 DEF ToSet
<1>5. f.do \in Named => f \in Fields(t) /\ f.name \in Names(t)
  BY <1>3, <1>4 DEF Sound, Fields, Names
<1>6. f.do = "text" => f \in Texts(t)
  BY <1>5 DEF Texts, Named
<1>7. f.do = "text" => f.size \in Nat
  BY <1>6, MessagesAssumption
<1>8. QED
  BY <1>3, <1>5, <1>7 DEF Sound

\* A layout is a sequence.
LEMMA LayoutLen ==
  ASSUME NEW t \in Types
  PROVE  Len(Layout(t)) \in Nat \ {0} /\ DOMAIN Layout(t) = 1 .. Len(Layout(t))
BY WireAssumption, LayoutPlanned DEF Planned

-----------------------------------------------------------------------------
(* Numbers and parts of a payload *)

\* A function from 1 .. n is a sequence of length n.
LEMMA BytesAreSeq ==
  ASSUME NEW S, NEW n \in Nat, NEW s \in [1 .. n -> S]
  PROVE  s \in Seq(S) /\ Len(s) = n
<1>1. s \in Seq(S)
  BY SeqDef
<1>2. Len(s) \in Nat /\ DOMAIN s = 1 .. Len(s) /\ DOMAIN s = 1 .. n
  BY <1>1, LenProperties
<1>3. Len(s) = n
  BY <1>2
<1>4. QED
  BY <1>1, <1>3

\* The number that bytes make, byte by byte.
LEMMA NumberIs ==
  ASSUME NEW bytes \in Seq(Byte)
  PROVE  \E g \in [0 .. Len(bytes) -> Nat] :
            /\ g[0] = 0 /\ \A k \in 1 .. Len(bytes) : g[k] = Base * g[k - 1] + bytes[k]
            /\ Number(bytes) = g[Len(bytes)]
<1>1. PICK size \in Nat : size = Len(bytes)
  BY LenProperties
<1>2. \A k \in 1 .. size : bytes[k] \in Nat
  BY <1>1, BaseIs, LenProperties, ElementOfSeq DEF Byte
<1>3. ASSUME NEW a \in Nat, NEW k \in 1 .. size PROVE Base * a + bytes[k] \in Nat
  <2>1. Base * a \in Nat
    BY BaseIs
  <2>2. QED
    BY <1>2, <2>1
<1>4. PICK step : step = [x \in Nat \X (1 .. size) |-> Base * x[1] + bytes[x[2]]]
  OBVIOUS
<1>5. step \in [Nat \X (1 .. size) -> Nat]
  BY <1>3, <1>4
<1>6. PICK g \in [0 .. size -> Nat] : IsFold(g, 0, size, step)
  BY <1>5, FoldExists
<1>7. \A k \in 1 .. size : step[<<g[k - 1], k>>] = Base * g[k - 1] + bytes[k]
  BY <1>4
<1>8. g = [k \in 0 .. size |-> IF k = 0 THEN 0 ELSE Base * g[k - 1] + bytes[k]]
  <2>1. ASSUME NEW k \in 0 .. size
        PROVE  (IF k = 0 THEN 0 ELSE step[<<g[k - 1], k>>])
                  = IF k = 0 THEN 0 ELSE Base * g[k - 1] + bytes[k]
    BY <1>7
  <2>2. QED
    BY <1>6, <2>1 DEF IsFold
<1>9. PICK n : n = CHOOSE h : h = [k \in 0 .. size |-> IF k = 0 THEN 0 ELSE Base * h[k - 1] + bytes[k]]
  OBVIOUS
<1>10. n = [k \in 0 .. size |-> IF k = 0 THEN 0 ELSE Base * n[k - 1] + bytes[k]]
  BY <1>8, <1>9
<1>11. Number(bytes) = n[size]
  BY <1>1, <1>9 DEF Number
<1>12. n[0] = 0 /\ \A k \in 1 .. size : n[k] = Base * n[k - 1] + bytes[k]
  BY <1>10
<1> DEFINE T == {k \in 0 .. size : n[k] \in Nat}
<1>13. 0 \in T
  BY <1>12
<1>14. ASSUME NEW k \in 1 .. size, k - 1 \in T PROVE k \in T
  <2>1. n[k - 1] \in Nat /\ n[k] = Base * n[k - 1] + bytes[k] /\ k \in 0 .. size
    BY <1>12, <1>14
  <2>2. n[k] \in Nat
    BY <1>3, <2>1
  <2>3. QED
    BY <2>1, <2>2
<1>15. \A k \in 0 .. size : k \in T
  <2> HIDE DEF T
  <2>1. QED
    BY <1>13, <1>14, UpTo
<1>16. n \in [0 .. size -> Nat]
  BY <1>10, <1>15
<1>17. QED
  BY <1>1, <1>11, <1>12, <1>16

\* What the decoder reads are bytes, and the numbers it makes of them numbers.
LEMMA SliceIs ==
  ASSUME NEW p \in Seq(Byte), NEW pos \in Nat, NEW size \in Nat
  PROVE  /\ Slice(p, pos, size) \in [1 .. size -> Byte]
         /\ Slice(p, pos, size) \in Seq(Byte) /\ Len(Slice(p, pos, size)) = size
         /\ Number(Slice(p, pos, size)) \in Nat
<1>1. ASSUME NEW k \in 1 .. size PROVE At(p, pos + k) \in Byte
  <2>1. CASE pos + k <= Len(p)
    <3>1. pos + k \in 1 .. Len(p)
      BY <2>1, LenProperties
    <3>2. QED
      BY <2>1, <3>1, ElementOfSeq DEF At
  <2>2. CASE ~(pos + k <= Len(p))
    BY <2>2, BaseIs DEF At, Byte
  <2>3. QED
    BY <2>1, <2>2
<1>2. Slice(p, pos, size) \in [1 .. size -> Byte]
  BY <1>1 DEF Slice
<1>3. Slice(p, pos, size) \in Seq(Byte) /\ Len(Slice(p, pos, size)) = size
  BY <1>2, BytesAreSeq
<1>4. PICK g \in [0 .. size -> Nat] : Number(Slice(p, pos, size)) = g[size]
  BY <1>3, NumberIs
<1>5. QED
  BY <1>2, <1>3, <1>4

\* A text ends before its first NUL.
LEMMA UpToNulIs ==
  ASSUME NEW s \in Seq(Byte)
  PROVE  /\ UpToNul(s) \in Seq(Byte \ {0})
         /\ 0 \notin ToSet(s) => UpToNul(s) = s
<1> DEFINE nuls == {k \in DOMAIN s : s[k] = 0}
<1>1. Len(s) \in Nat /\ DOMAIN s = 1 .. Len(s) /\ \A k \in 1 .. Len(s) : s[k] \in Byte
  BY LenProperties, ElementOfSeq
<1>2. CASE nuls = {}
  <2>1. UpToNul(s) = s
    BY <1>2 DEF UpToNul
  <2>2. \A k \in 1 .. Len(s) : s[k] \in Byte \ {0}
    BY <1>1, <1>2
  <2>3. s \in [1 .. Len(s) -> Byte \ {0}]
    BY <2>2, LenProperties
  <2>4. s \in Seq(Byte \ {0})
    BY <1>1, <2>3, BytesAreSeq
  <2>5. QED
    BY <2>1, <2>4
<1>3. CASE nuls # {}
  <2>1. nuls \subseteq Nat
    BY <1>1
  <2>2. \E k \in nuls : \A j \in nuls : k <= j
    <3> HIDE DEF nuls
    <3>1. QED
      BY <1>3, <2>1, HasLeast
  <2>3. PICK k : k = CHOOSE i \in nuls : \A j \in nuls : i <= j
    OBVIOUS
  <2>4. k \in nuls /\ \A j \in nuls : k <= j
    BY <2>2, <2>3
  <2>5. k \in 1 .. Len(s) /\ UpToNul(s) = SubSeq(s, 1, k - 1) /\ k - 1 \in Int
    BY <1>1, <1>3, <2>3, <2>4 DEF UpToNul
  <2>6. \A i \in 1 .. k - 1 : s[i] \in Byte \ {0}
    BY <1>1, <2>4, <2>5
  <2>7. SubSeq(s, 1, k - 1) \in Seq(Byte \ {0})
    BY <2>5, <2>6, SubSeqProperties
  <2>8. 0 \in ToSet(s)
    BY <2>4 DEF ToSet
  <2>9. QED
    BY <2>5, <2>7, <2>8
<1>4. QED
  BY <1>2, <1>3

-----------------------------------------------------------------------------
(* The decoder's state *)

Value == Nat \cup Seq(Byte)
Decoder(t) ==
    [ok : BOOLEAN, pos : Nat, msg : [Names(t) -> Value],
     ended : BOOLEAN, over : BOOLEAN, nul : BOOLEAN]

\* A value taken from the payload leaves the decoder's state well typed,
LEMMA TookTyped ==
  ASSUME NEW t, NEW d \in Decoder(t), NEW name \in Names(t), NEW value \in Value, NEW size \in Int,
         d.pos + size \in Nat
  PROVE  Took(d, name, value, size) \in Decoder(t)
<1>1. d.msg \in [Names(t) -> Value] /\ d.pos \in Nat
  BY DEF Decoder
<1>2. [d.msg EXCEPT ![name] = value] \in [Names(t) -> Value] /\ d.pos + size \in Nat
  BY <1>1
<1>3. Took(d, name, value, size) = [d EXCEPT !.msg = [d.msg EXCEPT ![name] = value], !.pos = d.pos + size]
  BY DEF Took, Decoder
<1>4. QED
  BY <1>2, <1>3 DEF Decoder

\* a flag does,
LEMMA FlagTyped ==
  ASSUME NEW t, NEW d \in Decoder(t), NEW b \in BOOLEAN
  PROVE  [d EXCEPT !.ok = b] \in Decoder(t) /\ [d EXCEPT !.ended = b] \in Decoder(t)
BY DEF Decoder

\* a text does,
LEMMA ReadTextTyped ==
  ASSUME NEW t, NEW d \in Decoder(t), NEW p \in Seq(Byte), NEW f, f.name \in Names(t),
         f.size \in Nat
  PROVE  ReadText(d, p, f) \in Decoder(t)
<1>1. d.pos \in Nat
  BY DEF Decoder
<1>2. PICK len \in Nat : len = Number(Slice(p, d.pos, 2))
  BY <1>1, SliceIs
<1>3. PICK text : text = Slice(p, d.pos + 2, len)
  OBVIOUS
<1>4. UpToNul(text) \in Seq(Byte)
  <2>1. d.pos + 2 \in Nat
    BY <1>1
  <2>2. text \in Seq(Byte)
    BY <1>3, <2>1, SliceIs
  <2>3. UpToNul(text) \in Seq(Byte \ {0})
    BY <2>2, UpToNulIs
  <2>4. Byte \ {0} \subseteq Byte
    OBVIOUS
  <2>5. QED
    BY <2>3, <2>4, SeqMonotonic
<1>5. PICK e : e = Took(d, f.name, UpToNul(text), 2 + len)
  OBVIOUS
<1>6. e \in Decoder(t)
  <2>1. UpToNul(text) \in Value
    BY <1>4 DEF Value
  <2>2. 2 + len \in Int /\ d.pos + (2 + len) \in Nat
    BY <1>1
  <2>3. QED
    BY <1>5, <2>1, <2>2, TookTyped
<1>7. [d EXCEPT !.ok = FALSE] \in Decoder(t)
  BY DEF Decoder
<1>8. ASSUME NEW x \in BOOLEAN, NEW y \in BOOLEAN
      PROVE  [e EXCEPT !.over = x, !.nul = y] \in Decoder(t)
  BY <1>6 DEF Decoder
<1>9. [e EXCEPT !.over = len + 1 > f.size, !.nul = e.nul \/ 0 \in ToSet(text)] \in Decoder(t)
  <2>1. (len + 1 > f.size) \in BOOLEAN /\ (e.nul \/ 0 \in ToSet(text)) \in BOOLEAN
    OBVIOUS
  <2>2. QED
    BY <1>8, <2>1, Zenon
<1>10. \/ ReadText(d, p, f) = [d EXCEPT !.ok = FALSE]
      \/ ReadText(d, p, f) = [e EXCEPT !.over = len + 1 > f.size, !.nul = e.nul \/ 0 \in ToSet(text)]
  BY <1>2, <1>3, <1>5 DEF ReadText
<1>11. QED
  BY <1>7, <1>9, <1>10

\* and so does any item.
LEMMA ReadTyped ==
  ASSUME NEW t \in Types, NEW k \in 1 .. Len(Layout(t)), NEW d \in Decoder(t), NEW p \in Seq(Byte)
  PROVE  Read(p, d, Layout(t)[k]) \in Decoder(t)
<1>1. PICK f : f = Layout(t)[k]
  OBVIOUS
<1>2. /\ f.do \in {"int", "text", "block", "rest", "need", "exactly", "end"} /\ f.size \in Nat
      /\ f.do \in Named => f.name \in Names(t)
  BY <1>1, ItemIs DEF Named
<1>3. d.pos \in Nat /\ Len(p) \in Nat
  BY LenProperties DEF Decoder
<1>4. CASE ~d.ok \/ d.over \/ d.ended
  BY <1>1, <1>4 DEF Read
<1>5. CASE ~(~d.ok \/ d.over \/ d.ended)
  <2>1. CASE f.do = "need"
    <3>1. CASE Len(p) - d.pos >= f.size
      <4>1. (Len(p) - d.pos >= f.size) = TRUE
        BY <3>1
      <4>2. Read(p, d, f) = [d EXCEPT !.ok = TRUE]
        BY <1>5, <2>1, <4>1 DEF Read
      <4>3. QED
        BY <1>1, <4>2, FlagTyped
    <3>2. CASE ~(Len(p) - d.pos >= f.size)
      <4>1. (Len(p) - d.pos >= f.size) = FALSE
        BY <3>2
      <4>2. Read(p, d, f) = [d EXCEPT !.ok = FALSE]
        BY <1>5, <2>1, <4>1 DEF Read
      <4>3. QED
        BY <1>1, <4>2, FlagTyped
    <3>3. QED
      BY <3>1, <3>2
  <2>2. CASE f.do = "exactly"
    <3>1. Read(p, d, f) = [d EXCEPT !.ok = Len(p) - d.pos = f.size]
      BY <1>5, <2>2 DEF Read
    <3>2. QED
      BY <1>1, <3>1 DEF Decoder
  <2>3. CASE f.do = "end"
    <3>1. Read(p, d, f) = [d EXCEPT !.ended = Len(p) - d.pos = 0]
      BY <1>5, <2>3 DEF Read
    <3>2. QED
      BY <1>1, <3>1 DEF Decoder
  <2>4. CASE f.do = "int"
    <3>1. Read(p, d, f) = Took(d, f.name, Number(Slice(p, d.pos, f.size)), f.size)
      BY <1>5, <2>4 DEF Read
    <3>2. Number(Slice(p, d.pos, f.size)) \in Value
      BY <1>2, <1>3, SliceIs DEF Value
    <3>3. f.size \in Int /\ d.pos + f.size \in Nat
      BY <1>2, <1>3
    <3>4. QED
      BY <1>1, <1>2, <3>3, <2>4, <3>1, <3>2, TookTyped DEF Named
  <2>5. CASE f.do = "block"
    <3>1. Read(p, d, f) = Took(d, f.name, Slice(p, d.pos, f.size), f.size)
      BY <1>5, <2>5 DEF Read
    <3>2. Slice(p, d.pos, f.size) \in Value
      BY <1>2, <1>3, SliceIs DEF Value
    <3>3. f.size \in Int /\ d.pos + f.size \in Nat
      BY <1>2, <1>3
    <3>4. QED
      BY <1>1, <1>2, <3>3, <2>5, <3>1, <3>2, TookTyped DEF Named
  <2>6. CASE f.do = "rest"
    <3>1. Read(p, d, f) = Took(d, f.name, Slice(p, d.pos, Len(p) - d.pos), Len(p) - d.pos)
      BY <1>5, <2>6 DEF Read
    <3>2. CASE Len(p) - d.pos \in Nat
      <4>1. PICK left \in Nat : left = Len(p) - d.pos
        BY <3>2
      <4>2. Slice(p, d.pos, left) \in Value
        BY <1>3, <4>1, SliceIs DEF Value
      <4>3. d.pos + left \in Nat
        BY <1>3, <4>1
      <4>4. QED
        BY <1>1, <1>2, <2>6, <3>1, <4>1, <4>2, <4>3, TookTyped DEF Named
    <3>3. CASE Len(p) - d.pos \notin Nat
      <4>1. PICK left \in Int : left = Len(p) - d.pos /\ left < 0 /\ d.pos + left \in Nat
        BY <1>3, <3>3
      <4>2. Slice(p, d.pos, left) \in Value
        <5>1. PICK s : s = Slice(p, d.pos, left)
          OBVIOUS
        <5>2. s = [k1 \in 1 .. left |-> At(p, d.pos + k1)] /\ 1 .. left = 1 .. 0
          BY <4>1, <5>1 DEF Slice
        <5>3. s \in [1 .. 0 -> Byte]
          BY <5>2
        <5>4. QED
          BY <5>1, <5>3, BytesAreSeq DEF Value
      <4>3. QED
        BY <1>1, <1>2, <2>6, <3>1, <4>1, <4>2, TookTyped DEF Named
    <3>4. QED
      BY <3>2, <3>3
  <2>7. CASE f.do = "text"
    <3>1. Read(p, d, f) = ReadText(d, p, f)
      BY <1>5, <2>7 DEF Read
    <3>2. QED
      BY <1>1, <1>2, <2>7, <3>1, ReadTextTyped DEF Named
  <2>8. QED
    BY <1>2, <2>1, <2>2, <2>3, <2>4, <2>5, <2>6, <2>7
<1>6. QED
  BY <1>4, <1>5

Begun(t) ==
    [ok |-> TRUE, pos |-> 0, msg |-> Blank(t), ended |-> FALSE, over |-> FALSE, nul |-> FALSE]

\* A decoder begins with a value for every field.
LEMMA BegunTyped == ASSUME NEW t PROVE Begun(t) \in Decoder(t)
<1>1. <<>> \in Value /\ RemoteClosed \in Value /\ 0 \in Value
  <2>1. RemoteClosed \in Nat
    BY WireAssumption
  <2>2. <<>> \in Seq(Byte)
    BY EmptySeq
  <2>3. QED
    BY <2>1, <2>2 DEF Value
<1>2. \A f : Default(t, f) \in Value
  BY <1>1 DEF Default
<1>3. Blank(t) \in [Names(t) -> Value]
  BY <1>2 DEF Blank
<1>4. QED
  BY <1>3 DEF Begun, Decoder

\* A decoder goes through the items of its layout one by one.
LEMMA DecodingIs ==
  ASSUME NEW t \in Types, NEW p \in Seq(Byte)
  PROVE  /\ Decoding(t, p) \in [0 .. Len(Layout(t)) -> Decoder(t)]
         /\ Decoding(t, p)[0] = Begun(t)
         /\ \A k \in 1 .. Len(Layout(t)) :
               Decoding(t, p)[k] = Read(p, Decoding(t, p)[k - 1], Layout(t)[k])
<1>1. PICK n \in Nat : n = Len(Layout(t))
  BY LayoutLen
<1>2. PICK L : L = Layout(t)
  OBVIOUS
<1>3. ASSUME NEW d \in Decoder(t), NEW k \in 1 .. n PROVE Read(p, d, L[k]) \in Decoder(t)
  BY <1>1, <1>2, ReadTyped
<1>4. PICK step : step = [x \in Decoder(t) \X (1 .. n) |-> Read(p, x[1], L[x[2]])]
  OBVIOUS
<1>5. step \in [Decoder(t) \X (1 .. n) -> Decoder(t)]
  BY <1>3, <1>4
<1>6. PICK g \in [0 .. n -> Decoder(t)] : IsFold(g, Begun(t), n, step)
  BY <1>5, BegunTyped, FoldExists
<1>7. \A k \in 1 .. n : step[<<g[k - 1], k>>] = Read(p, g[k - 1], L[k])
  <2>1. ASSUME NEW k \in 1 .. n PROVE step[<<g[k - 1], k>>] = Read(p, g[k - 1], L[k])
    <3>1. g[k - 1] \in Decoder(t)
      OBVIOUS
    <3>2. QED
      BY <1>4, <3>1
  <2>2. QED
    BY <2>1
<1>8. g = [k \in 0 .. n |-> IF k = 0 THEN Begun(t) ELSE Read(p, g[k - 1], L[k])]
  <2>1. ASSUME NEW k \in 0 .. n
        PROVE  (IF k = 0 THEN Begun(t) ELSE step[<<g[k - 1], k>>])
                  = IF k = 0 THEN Begun(t) ELSE Read(p, g[k - 1], L[k])
    BY <1>7
  <2>2. QED
    BY <1>6, <2>1 DEF IsFold
<1>9. PICK at : at = Decoding(t, p)
  OBVIOUS
<1>10. at = [k \in 0 .. n |-> IF k = 0 THEN Begun(t) ELSE Read(p, at[k - 1], L[k])]
  BY <1>1, <1>2, <1>8, <1>9 DEF Decoding, Begun
<1>11. at[0] = Begun(t) /\ \A k \in 1 .. n : at[k] = Read(p, at[k - 1], L[k])
  BY <1>10
<1> DEFINE T == {k \in 0 .. n : at[k] \in Decoder(t)}
<1>12. 0 \in T
  BY <1>11, BegunTyped
<1>13. ASSUME NEW k \in 1 .. n, k - 1 \in T PROVE k \in T
  BY <1>3, <1>11, <1>13
<1>14. \A k \in 0 .. n : k \in T
  <2> HIDE DEF T
  <2>1. QED
    BY <1>12, <1>13, UpTo
<1>15. QED
  BY <1>1, <1>2, <1>9, <1>10, <1>11, <1>14

\* What one item makes of a decoder that is not at its end.
Going(d) == d.ok /\ ~d.over /\ ~d.ended
Checked(d, e) == e.pos = d.pos /\ e.msg = d.msg /\ ~e.over /\ (e.nul <=> d.nul)
Taken(d, e, name, value, size) ==
    /\ e.ok /\ ~e.over /\ ~e.ended
    /\ e.pos = d.pos + size /\ e.msg = [d.msg EXCEPT ![name] = value]
TextLen(p, d) == Number(Slice(p, d.pos, 2))
TextBytes(p, d) == Slice(p, d.pos + 2, TextLen(p, d))
TextGood(p, d, f) ==
    d.pos + 2 <= Len(p) /\ d.pos + 2 + TextLen(p, d) <= Len(p) /\ TextLen(p, d) < f.size

\* The four kinds of check move nothing: one asks for a number of bytes at least,
LEMMA NeedIs ==
  ASSUME NEW t, NEW d \in Decoder(t), Going(d), NEW p, NEW f, f.do = "need", NEW e,
         e = Read(p, d, f)
  PROVE  Checked(d, e) /\ ~e.ended /\ (e.ok <=> Len(p) - d.pos >= f.size)
<1>1. e = [d EXCEPT !.ok = Len(p) - d.pos >= f.size]
  BY DEF Going, Read
<1>2. QED
  BY <1>1 DEF Decoder, Going, Checked

\* one for exactly that number,
LEMMA ExactlyIs ==
  ASSUME NEW t, NEW d \in Decoder(t), Going(d), NEW p, NEW f, f.do = "exactly", NEW e,
         e = Read(p, d, f)
  PROVE  Checked(d, e) /\ ~e.ended /\ (e.ok <=> Len(p) - d.pos = f.size)
<1>1. e = [d EXCEPT !.ok = Len(p) - d.pos = f.size]
  BY DEF Going, Read
<1>2. QED
  BY <1>1 DEF Decoder, Going, Checked

\* and one ends the payload where nothing is left.
LEMMA EndIs ==
  ASSUME NEW t, NEW d \in Decoder(t), Going(d), NEW p, NEW f, f.do = "end", NEW e, e = Read(p, d, f)
  PROVE  Checked(d, e) /\ e.ok /\ (e.ended <=> Len(p) - d.pos = 0)
<1>1. e = [d EXCEPT !.ended = Len(p) - d.pos = 0]
  BY DEF Going, Read
<1>2. QED
  BY <1>1 DEF Decoder, Going, Checked

\* Taking a value fills in its field and moves on behind it.
LEMMA TakenIs ==
  ASSUME NEW t, NEW d \in Decoder(t), Going(d), NEW name \in Names(t), NEW value, NEW size
  PROVE  /\ Taken(d, Took(d, name, value, size), name, value, size)
         /\ Took(d, name, value, size).nul <=> d.nul
BY DEF Took, Decoder, Going, Taken

\* A number, a block and the rest are taken whatever is there:
LEMMA IntIs ==
  ASSUME NEW t, NEW d \in Decoder(t), Going(d), NEW p, NEW f, f.do = "int", f.name \in Names(t),
         NEW e, e = Read(p, d, f)
  PROVE  Taken(d, e, f.name, Number(Slice(p, d.pos, f.size)), f.size) /\ (e.nul <=> d.nul)
<1>1. e = Took(d, f.name, Number(Slice(p, d.pos, f.size)), f.size)
  BY DEF Going, Read
<1>2. QED
  BY <1>1, TakenIs

\* a block is its bytes,
LEMMA BlockIs ==
  ASSUME NEW t, NEW d \in Decoder(t), Going(d), NEW p, NEW f, f.do = "block", f.name \in Names(t),
         NEW e, e = Read(p, d, f)
  PROVE  Taken(d, e, f.name, Slice(p, d.pos, f.size), f.size) /\ (e.nul <=> d.nul)
<1>1. e = Took(d, f.name, Slice(p, d.pos, f.size), f.size)
  BY DEF Going, Read
<1>2. QED
  BY <1>1, TakenIs

\* and the rest is what is left.
LEMMA RestIs ==
  ASSUME NEW t, NEW d \in Decoder(t), Going(d), NEW p, NEW f, f.do = "rest", f.name \in Names(t),
         NEW e, e = Read(p, d, f)
  PROVE  /\ Taken(d, e, f.name, Slice(p, d.pos, Len(p) - d.pos), Len(p) - d.pos)
         /\ e.nul <=> d.nul
<1>1. e = Took(d, f.name, Slice(p, d.pos, Len(p) - d.pos), Len(p) - d.pos)
  BY DEF Going, Read
<1>2. QED
  BY <1>1, TakenIs

\* A text is taken exactly when it is all there and fits in its array; otherwise
\* the decoder fails where it is.
LEMMA TextIs ==
  ASSUME NEW t, NEW d \in Decoder(t), Going(d), NEW p \in Seq(Byte), NEW f, f.do = "text",
         f.name \in Names(t), f.size \in Nat, NEW e, e = Read(p, d, f)
  PROVE  /\ TextLen(p, d) \in Nat
         /\ TextGood(p, d, f) =>
               /\ Taken(d, e, f.name, UpToNul(TextBytes(p, d)), 2 + TextLen(p, d))
               /\ e.nul <=> (d.nul \/ 0 \in ToSet(TextBytes(p, d)))
         /\ ~TextGood(p, d, f) => Checked(d, e) /\ ~e.ended /\ ~e.ok
<1>1. d.pos \in Nat /\ Len(p) \in Nat
  BY LenProperties DEF Decoder
<1>2. PICK len \in Nat : len = TextLen(p, d)
  BY <1>1, SliceIs DEF TextLen
<1>3. e = ReadText(d, p, f)
  BY DEF Going, Read
<1>4. CASE TextGood(p, d, f)
  <2>1. PICK c : c = Took(d, f.name, UpToNul(TextBytes(p, d)), 2 + len)
    OBVIOUS
  <2>2. Taken(d, c, f.name, UpToNul(TextBytes(p, d)), 2 + len) /\ (c.nul <=> d.nul)
    BY <2>1, TakenIs
  <2>3. ~(d.pos + 2 > Len(p)) /\ ~(d.pos + 2 + len > Len(p)) /\ ~(len >= f.size) /\ ~(len + 1 > f.size)
    BY <1>1, <1>2, <1>4 DEF TextGood
  <2>4. (len + 1 > f.size) = FALSE
    BY <2>3
  <2>5. e = [c EXCEPT !.over = FALSE, !.nul = @ \/ 0 \in ToSet(TextBytes(p, d))]
    BY <1>2, <1>3, <2>1, <2>3, <2>4 DEF ReadText, TextLen, TextBytes
  <2>6. c \in Decoder(t)
    <3>1. d.pos + 2 \in Nat /\ 2 + len \in Int /\ d.pos + (2 + len) \in Nat
      BY <1>1
    <3>2. TextBytes(p, d) \in Seq(Byte)
      BY <1>2, <3>1, SliceIs DEF TextBytes
    <3>3. UpToNul(TextBytes(p, d)) \in Seq(Byte \ {0})
      BY <3>2, UpToNulIs
    <3>4. Byte \ {0} \subseteq Byte
      OBVIOUS
    <3>5. UpToNul(TextBytes(p, d)) \in Value
      BY <3>3, <3>4, SeqMonotonic DEF Value
    <3>6. QED
      BY <2>1, <3>1, <3>5, TookTyped
  <2>7. QED
    BY <1>2, <1>4, <2>2, <2>5, <2>6 DEF Taken, Decoder
<1>5. CASE ~TextGood(p, d, f)
  <2>1. d.pos + 2 > Len(p) \/ d.pos + 2 + len > Len(p) \/ len >= f.size
    BY <1>1, <1>2, <1>5 DEF TextGood
  <2>2. e = [d EXCEPT !.ok = FALSE]
    BY <1>2, <1>3, <2>1 DEF ReadText, TextLen
  <2>3. QED
    BY <1>2, <1>5, <2>2 DEF Going, Checked, Decoder
<1>6. QED
  BY <1>2, <1>4, <1>5

\* A decoder stays in the payload and in its arrays, and what its plan says is
\* left is left.
Inside(p, d, a) ==
    /\ d.pos <= Len(p) /\ ~d.over
    /\ Going(d) => /\ a.room <= Len(p) - d.pos
                   /\ a.known = "exact" => a.room = Len(p) - d.pos
    /\ d.ended => Len(p) - d.pos = 0

\* Reading an item, as its plan has it, keeps a decoder there.
LEMMA ReadInside ==
  ASSUME NEW t \in Types, NEW k \in 1 .. Len(Layout(t)), NEW d \in Decoder(t), NEW p \in Seq(Byte),
         NEW a, NEW b, Sound(Layout(t)[k], a, b), Inside(p, d, a)
  PROVE  Inside(p, Read(p, d, Layout(t)[k]), b)
<1>1. PICK f : f = Layout(t)[k]
  OBVIOUS
<1>2. /\ f.do \in {"int", "text", "block", "rest", "need", "exactly", "end"} /\ f.size \in Nat
      /\ f.do \in Named => f.name \in Names(t)
  BY <1>1, ItemIs DEF Named
<1>3. d.pos \in Nat /\ Len(p) \in Nat /\ d.pos <= Len(p) /\ ~d.over
  BY LenProperties DEF Decoder, Inside
<1>4. a.room \in Nat /\ b.room \in Nat /\ Sound(f, a, b)
  BY <1>1 DEF Sound
<1>5. PICK e : e = Read(p, d, f)
  OBVIOUS
<1>6. CASE ~Going(d)
  <2>1. e = d
    BY <1>5, <1>6 DEF Going, Read
  <2>2. QED
    BY <1>1, <1>5, <1>6, <2>1 DEF Inside
<1>7. CASE Going(d)
  <2>1. a.room <= Len(p) - d.pos /\ (a.known = "exact" => a.room = Len(p) - d.pos)
    BY <1>7 DEF Inside
  <2>2. CASE f.do = "need"
    <3>1. Checked(d, e) /\ ~e.ended /\ (e.ok <=> Len(p) - d.pos >= f.size)
      BY <1>5, <1>7, <2>2, NeedIs
    <3>2. (b.room <= a.room \/ b.room <= f.size) /\ b.known = "least"
      BY <1>4, <2>2 DEF Sound
    <3>3. QED
      BY <1>1, <1>2, <1>3, <1>4, <1>5, <2>1, <3>1, <3>2 DEF Inside, Checked, Going
  <2>3. CASE f.do = "exactly"
    <3>1. Checked(d, e) /\ ~e.ended /\ (e.ok <=> Len(p) - d.pos = f.size)
      BY <1>5, <1>7, <2>3, ExactlyIs
    <3>2. b.room = f.size
      BY <1>4, <2>3 DEF Sound
    <3>3. QED
      BY <1>1, <1>2, <1>3, <1>4, <1>5, <3>1, <3>2 DEF Inside, Checked, Going
  <2>4. CASE f.do = "end"
    <3>1. Checked(d, e) /\ e.ok /\ (e.ended <=> Len(p) - d.pos = 0)
      BY <1>5, <1>7, <2>4, EndIs
    <3>2. b.room = a.room /\ b.known = "least"
      BY <1>4, <2>4 DEF Sound
    <3>3. QED
      BY <1>1, <1>3, <1>4, <1>5, <2>1, <3>1, <3>2 DEF Inside, Checked, Going
  <2>5. CASE f.do \in {"int", "block"}
    <3>1. f.do \in Named /\ a.room = f.size + b.room /\ b.known = a.known
      BY <1>4, <2>5 DEF Sound, Named
    <3>2. \E v : Taken(d, e, f.name, v, f.size)
      BY <1>2, <1>5, <1>7, <2>5, <3>1, IntIs, BlockIs
    <3>3. ~e.over /\ ~e.ended /\ e.pos = d.pos + f.size
      BY <3>2 DEF Taken
    <3>4. PICK l \in Nat, x \in Nat, s \in Nat : l = Len(p) /\ x = d.pos /\ s = f.size
      BY <1>2, <1>3
    <3>5. PICK r \in Nat : r = b.room /\ a.room = s + r
      BY <1>4, <3>1, <3>4
    <3>6. e.pos = x + s /\ s + r <= l - x /\ (b.known = "exact" => s + r = l - x)
      BY <2>1, <3>1, <3>3, <3>4, <3>5
    <3>7. x + s <= l /\ r <= l - (x + s) /\ (s + r = l - x => r = l - (x + s))
      BY <3>6
    <3>8. /\ e.pos <= l /\ b.room <= l - e.pos
          /\ b.known = "exact" => b.room = l - e.pos
      BY <3>5, <3>6, <3>7
    <3>9. QED
      BY <1>1, <1>5, <3>3, <3>4, <3>8 DEF Inside
  <2>6. CASE f.do = "rest"
    <3>1. f.do \in Named /\ b.room = 0
      BY <1>4, <2>6 DEF Sound, Named
    <3>2. \E v : Taken(d, e, f.name, v, Len(p) - d.pos)
      BY <1>2, <1>5, <1>7, <2>6, <3>1, RestIs
    <3>3. ~e.over /\ ~e.ended /\ e.pos = d.pos + (Len(p) - d.pos)
      BY <3>2 DEF Taken
    <3>4. e.pos = Len(p)
      BY <1>3, <3>3
    <3>5. QED
      BY <1>1, <1>3, <1>5, <3>1, <3>3, <3>4 DEF Inside
  <2>7. CASE f.do = "text"
    <3>1. f.do \in Named /\ b.room = 0 /\ b.known = "least"
      BY <1>4, <2>7 DEF Sound, Named
    <3>2. PICK len \in Nat : len = TextLen(p, d)
      BY <1>2, <1>5, <1>7, <2>7, <3>1, TextIs
    <3>3. CASE TextGood(p, d, f)
      <4>1. \E v : Taken(d, e, f.name, v, 2 + len)
        BY <1>2, <1>5, <1>7, <2>7, <3>1, <3>2, <3>3, TextIs
      <4>2. ~e.over /\ ~e.ended /\ e.pos = d.pos + (2 + len)
        BY <4>1 DEF Taken
      <4>3. d.pos + 2 + len <= Len(p)
        BY <3>2, <3>3 DEF TextGood
      <4>4. QED
        BY <1>1, <1>3, <1>5, <3>1, <3>2, <4>2, <4>3 DEF Inside
    <3>4. CASE ~TextGood(p, d, f)
      <4>1. Checked(d, e) /\ ~e.ended /\ ~e.ok
        BY <1>2, <1>5, <1>7, <2>7, <3>1, <3>4, TextIs
      <4>2. QED
        BY <1>1, <1>3, <1>5, <4>1 DEF Inside, Checked, Going
    <3>5. QED
      BY <3>3, <3>4
  <2>8. QED
    BY <1>2, <2>2, <2>3, <2>4, <2>5, <2>6, <2>7
<1>8. QED
  BY <1>6, <1>7

\* So it does in the whole layout,
LEMMA AllInside ==
  ASSUME NEW t \in Types, NEW p \in Seq(Byte), NEW plan, Planned(Layout(t), plan)
  PROVE  \A k \in 0 .. Len(Layout(t)) : Inside(p, Decoding(t, p)[k], plan[k + 1])
<1>2. PICK n \in Nat \ {0} : n = Len(Layout(t))
  BY LayoutLen
<1>3. PICK at : at = Decoding(t, p)
  OBVIOUS
<1>4. /\ at \in [0 .. n -> Decoder(t)] /\ at[0] = Begun(t)
      /\ \A k \in 1 .. n : at[k] = Read(p, at[k - 1], Layout(t)[k])
  BY <1>2, <1>3, DecodingIs
<1> DEFINE T == {k \in 0 .. n : Inside(p, at[k], plan[k + 1])}
<1>5. 0 \in T
  <2>1. plan[1].room = 0 /\ plan[1].known = "least" /\ Len(p) \in Nat
    BY LenProperties DEF Planned
  <2>2. Inside(p, Begun(t), plan[1])
    BY <2>1 DEF Inside, Begun
  <2>3. QED
    BY <1>4, <2>2
<1>6. ASSUME NEW k \in 1 .. n, k - 1 \in T PROVE k \in T
  <2>1. (k - 1) + 1 = k /\ k - 1 \in 0 .. n
    OBVIOUS
  <2>2. Inside(p, at[k - 1], plan[k]) /\ at[k - 1] \in Decoder(t)
    BY <1>4, <1>6, <2>1
  <2>3. Sound(Layout(t)[k], plan[k], plan[k + 1]) /\ k \in 1 .. Len(Layout(t))
    BY <1>2 DEF Planned
  <2>4. Inside(p, Read(p, at[k - 1], Layout(t)[k]), plan[k + 1])
    BY <2>2, <2>3, ReadInside
  <2>5. QED
    BY <1>4, <2>4
<1>7. \A k \in 0 .. n : k \in T
  <2> HIDE DEF T
  <2>1. QED
    BY <1>2, <1>5, <1>6, UpTo
<1>8. QED
  BY <1>2, <1>3, <1>7

\* ends inside, and what it took, if it took it, was all there was.
LEMMA DecodeInside ==
  ASSUME NEW t \in Types, NEW p \in Seq(Byte), NEW d, d = Decoding(t, p)[Len(Layout(t))]
  PROVE  /\ d \in Decoder(t) /\ d.pos <= Len(p) /\ ~d.over
         /\ d.ok => d.pos = Len(p)
<1>1. PICK plan : Planned(Layout(t), plan)
  BY WireAssumption, LayoutPlanned
<1>2. PICK n \in Nat \ {0} : n = Len(Layout(t))
  BY LayoutLen
<1>3. d \in Decoder(t) /\ Len(p) \in Nat
  BY <1>2, DecodingIs, LenProperties
<1>4. Inside(p, d, plan[n + 1])
  BY <1>1, <1>2, AllInside
<1>5. plan[n + 1] = P(0, "exact", 0)
  BY <1>1, <1>2 DEF Planned
<1>6. plan[n + 1].room = 0 /\ plan[n + 1].known = "exact"
  BY <1>5 DEF P
<1>7. d.pos \in Nat
  BY <1>3 DEF Decoder
<1>8. QED
  BY <1>3, <1>4, <1>6, <1>7 DEF Inside, Going
-----------------------------------------------------------------------------
(* The encoder's buffer *)

Buffer == [ok : BOOLEAN, bytes : Seq(Byte), cap : Nat]
Held(b) == Len(b.bytes) <= b.cap

\* A buffer grows to what is needed, at least.
LEMMA GrownIs ==
  ASSUME NEW cap \in Nat, NEW need \in Nat
  PROVE  Grown(cap, need) \in Nat /\ Grown(cap, need) >= need
<1> DEFINE enough == {cap * 2 ^ k : k \in 0 .. SizeBits} \cap (need .. SizeMax)
<1>1. CASE enough = {}
  BY <1>1 DEF Grown
<1>2. CASE enough # {}
  <2>1. SizeMax \in Nat
    BY WireAssumption
  <2>2. enough \subseteq need .. SizeMax
    OBVIOUS
  <2>3. enough \subseteq Nat /\ \A c \in enough : c >= need
    BY <2>1, <2>2
  <2>4. Grown(cap, need) = CHOOSE c \in enough : \A d \in enough : c <= d
    BY <1>2 DEF Grown
  <2> HIDE DEF enough
  <2>5. \E c \in enough : \A d \in enough : c <= d
    BY <1>2, <2>3, HasLeast
  <2>6. Grown(cap, need) \in enough
    BY <2>4, <2>5
  <2>7. QED
    BY <2>3, <2>6
<1>3. QED
  BY <1>1, <1>2

\* What appending does to a buffer.
Extended(b, piece, c) ==
    /\ c \in Buffer /\ (Held(b) => Held(c))
    /\ c.ok => b.ok /\ c.bytes = b.bytes \o piece
    /\ b.ok /\ Len(b.bytes) + Len(piece) <= SizeMax => c.ok

\* ntap_buffer_append adds the whole piece or, where a size_t cannot say the
\* length, nothing; it never fails where the length can be said.
LEMMA AppendedIs ==
  ASSUME NEW b \in Buffer, NEW piece \in Seq(Byte)
  PROVE  Extended(b, piece, Appended(b, piece))
<1>0. PICK c : c = Appended(b, piece)
  OBVIOUS
<1>1. b.bytes \in Seq(Byte) /\ b.cap \in Nat
  BY DEF Buffer
<1>2. SizeMax \in Nat /\ FirstCap \in Nat
  BY WireAssumption
<1>3. PICK need \in Nat : need = Len(b.bytes) + Len(piece)
  BY <1>1, LenProperties
<1>4. CASE ~b.ok \/ piece = <<>>
  <2>1. c = b
    BY <1>0, <1>4 DEF Appended
  <2>2. CASE ~b.ok
    BY <1>0, <2>1, <2>2 DEF Extended
  <2>3. CASE piece = <<>>
    <3>1. b.bytes \o piece = b.bytes
      BY <1>1, <2>3, ConcatEmptySeq
    <3>2. QED
      BY <1>0, <2>1, <3>1 DEF Extended
  <2>4. QED
    BY <1>4, <2>2, <2>3
<1>5. CASE b.ok /\ piece # <<>> /\ need > SizeMax
  <2>1. c = [b EXCEPT !.ok = FALSE]
    BY <1>0, <1>3, <1>5 DEF Appended
  <2>2. c \in Buffer /\ ~c.ok /\ c.bytes = b.bytes /\ c.cap = b.cap
    BY <2>1 DEF Buffer
  <2>3. ~(Len(b.bytes) + Len(piece) <= SizeMax)
    BY <1>2, <1>3, <1>5
  <2>4. QED
    BY <1>0, <2>2, <2>3 DEF Extended, Held
<1>6. CASE b.ok /\ piece # <<>> /\ ~(need > SizeMax)
  <2>1. PICK cap : cap = IF need <= b.cap THEN b.cap
                         ELSE Grown(IF b.cap = 0 THEN FirstCap ELSE b.cap, need)
    OBVIOUS
  <2>2. cap \in Nat /\ need <= cap
    <3>1. (IF b.cap = 0 THEN FirstCap ELSE b.cap) \in Nat
      BY <1>1, <1>2
    <3>2. QED
      BY <1>1, <1>3, <2>1, <3>1, GrownIs
  <2>3. c = [b EXCEPT !.bytes = b.bytes \o piece, !.cap = cap]
    BY <1>0, <1>3, <1>6, <2>1 DEF Appended, Buffer
  <2>4. b.bytes \o piece \in Seq(Byte) /\ Len(b.bytes \o piece) = need
    BY <1>1, <1>3, ConcatProperties
  <2>5. c.ok = b.ok /\ c.bytes = b.bytes \o piece /\ c.cap = cap
    BY <2>3 DEF Buffer
  <2>6. c \in Buffer
    BY <2>2, <2>3, <2>4 DEF Buffer
  <2>7. Held(c)
    BY <2>2, <2>4, <2>5 DEF Held
  <2>8. QED
    BY <1>0, <1>6, <2>5, <2>6, <2>7 DEF Extended
<1>7. QED
  BY <1>4, <1>5, <1>6

\* Two pieces, one behind the other, are as one.
LEMMA TwoAppended ==
  ASSUME NEW b \in Buffer, NEW r \in Seq(Byte), NEW s \in Seq(Byte)
  PROVE  Extended(b, r \o s, Appended(Appended(b, r), s))
<1>1. PICK h, c : h = Appended(b, r) /\ c = Appended(h, s)
  OBVIOUS
<1>2. Extended(b, r, h)
  BY <1>1, AppendedIs
<1>3. Extended(h, s, c)
  BY <1>1, <1>2, AppendedIs DEF Extended
<1>4. b.bytes \in Seq(Byte)
  BY DEF Buffer
<1>5. (b.bytes \o r) \o s = b.bytes \o (r \o s)
  <2>1. PICK q \in Seq(Byte) : q = b.bytes
    BY <1>4
  <2>2. (q \o r) \o s = q \o (r \o s)
    BY ConcatAssociative, SMTT(30)
  <2>3. QED
    BY <2>1, <2>2
<1>6. PICK x \in Nat, y \in Nat, z \in Nat : x = Len(b.bytes) /\ y = Len(r) /\ z = Len(s)
  BY <1>4, LenProperties
<1>7. Len(b.bytes \o r) = x + y /\ Len(r \o s) = y + z
  BY <1>4, <1>6, ConcatProperties
<1>8. PICK most \in Nat : most = SizeMax
  BY WireAssumption
<1>9. ASSUME b.ok, Len(b.bytes) + Len(r \o s) <= SizeMax PROVE c.ok
  <2>1. x + (y + z) <= most
    BY <1>6, <1>7, <1>8, <1>9
  <2>2. x + y <= most /\ (x + y) + z <= most
    BY <2>1
  <2>3. h.ok /\ h.bytes = b.bytes \o r
    BY <1>2, <1>6, <1>8, <1>9, <2>2 DEF Extended
  <2>4. Len(h.bytes) + Len(s) <= SizeMax
    BY <1>6, <1>7, <1>8, <2>2, <2>3
  <2>5. QED
    BY <1>3, <2>3, <2>4 DEF Extended
<1>10. ASSUME c.ok PROVE b.ok /\ c.bytes = b.bytes \o (r \o s)
  BY <1>2, <1>3, <1>5, <1>10 DEF Extended
<1>11. Extended(b, r \o s, c)
  BY <1>2, <1>3, <1>9, <1>10 DEF Extended
<1>12. QED
  BY <1>1, <1>11

\* The bytes of a number.
LEMMA BytesIs ==
  ASSUME NEW n \in Nat, NEW size \in Nat
  PROVE  /\ Bytes(n, size) \in [1 .. size -> Byte]
         /\ Bytes(n, size) \in Seq(Byte) /\ Len(Bytes(n, size)) = size
<1>1. ASSUME NEW k \in 1 .. size PROVE Shifted(n, size)[size - k] % Base \in Byte
  <2>1. PICK j \in 0 .. size : j = size - k
    OBVIOUS
  <2>2. PICK a \in Nat : a = Shifted(n, size)[size - k]
    <3>1. Shifted(n, size)[j] \in Nat
      BY ShiftedIs
    <3>2. QED
      BY <2>1, <3>1
  <2>3. a % Base \in Byte
    BY BaseIs DEF Byte
  <2>4. QED
    BY <2>2, <2>3
<1>2. Bytes(n, size) \in [1 .. size -> Byte]
  BY <1>1 DEF Bytes
<1>3. QED
  BY <1>2, BytesAreSeq

\* A message whose fields have the encoder's types.
Typed(t, m) ==
    /\ m = [n \in Names(t) |-> m[n]]
    /\ \A f \in Fields(t) : HasType(f, m[f.name])

\* What an item of the layout puts into the buffer.
Piece(m, f) ==
    IF f.name = "" THEN <<>>
    ELSE IF f.do = "int" THEN Bytes(m[f.name], f.size)
    ELSE IF f.do = "text" THEN Bytes(Len(m[f.name]), 2) \o m[f.name]
    ELSE m[f.name]
Sayable(m, f) == f.do = "text" => Len(m[f.name]) <= LongestText

\* The values of the fields are bytes or numbers.
LEMMA FieldIs ==
  ASSUME NEW t \in Types, NEW m, Typed(t, m), NEW k \in 1 .. Len(Layout(t)), NEW f, f = Layout(t)[k]
  PROVE  /\ f.do = "int" => m[f.name] \in Nat /\ Shifted(m[f.name], f.size)[f.size] = 0
         /\ f.do = "text" => m[f.name] \in Seq(Byte \ {0}) /\ m[f.name] \in Seq(Byte)
         /\ f.do = "block" =>
               /\ m[f.name] \in [1 .. f.size -> Byte]
               /\ m[f.name] \in Seq(Byte) /\ Len(m[f.name]) = f.size
         /\ f.do = "rest" => m[f.name] \in Seq(Byte)
         /\ Piece(m, f) \in Seq(Byte)
<1>1. f.size \in Nat /\ (f.do \in Named => f \in Fields(t)) /\ (f.do \notin Named => f.name = "")
      /\ f.do \in Named \cup {"need", "exactly", "end"}
  BY ItemIs
<1>2. f.do \in Named => HasType(f, m[f.name])
  BY <1>1 DEF Typed
<1>3. CASE f.do = "int"
  <2>1. m[f.name] \in Nat /\ Shifted(m[f.name], f.size)[f.size] = 0
    BY <1>2, <1>3 DEF HasType, Named
  <2>2. Bytes(m[f.name], f.size) \in Seq(Byte) /\ <<>> \in Seq(Byte)
    BY <1>1, <2>1, BytesIs, EmptySeq
  <2>3. QED
    BY <1>3, <2>1, <2>2 DEF Piece
<1>4. CASE f.do = "text"
  <2>1. m[f.name] \in Seq(Byte \ {0})
    BY <1>2, <1>4 DEF HasType, Named
  <2>2. m[f.name] \in Seq(Byte)
    <3>1. Byte \ {0} \subseteq Byte
      OBVIOUS
    <3>2. QED
      BY <2>1, <3>1, SeqMonotonic
  <2>3. Len(m[f.name]) \in Nat
    BY <2>1, LenProperties
  <2>4. Bytes(Len(m[f.name]), 2) \in Seq(Byte) /\ <<>> \in Seq(Byte)
    BY <2>3, BytesIs, EmptySeq
  <2>5. Bytes(Len(m[f.name]), 2) \o m[f.name] \in Seq(Byte)
    BY <2>2, <2>4, ConcatProperties
  <2>6. QED
    BY <1>4, <2>1, <2>2, <2>4, <2>5 DEF Piece
<1>5. CASE f.do = "block"
  <2>1. m[f.name] \in [1 .. f.size -> Byte]
    BY <1>2, <1>5 DEF HasType, Named
  <2>2. PICK size, v : size = f.size /\ v = m[f.name]
    OBVIOUS
  <2>3. v \in Seq(Byte) /\ Len(v) = size
    <3>1. size \in Nat /\ v \in [1 .. size -> Byte]
      BY <1>1, <2>1, <2>2
    <3>2. QED
      BY <3>1, BytesAreSeq
  <2>4. <<>> \in Seq(Byte)
    BY EmptySeq
  <2>5. QED
    BY <1>5, <2>1, <2>2, <2>3, <2>4 DEF Piece
<1>6. CASE f.do = "rest"
  <2>1. m[f.name] \in Seq(Byte) /\ <<>> \in Seq(Byte)
    BY <1>2, <1>6, EmptySeq DEF HasType, Named
  <2>2. QED
    BY <1>6, <2>1 DEF Piece
<1>7. CASE f.do \notin Named
  <2>1. Piece(m, f) = <<>> /\ <<>> \in Seq(Byte)
    BY <1>1, <1>7, EmptySeq DEF Piece
  <2>2. QED
    BY <1>7, <2>1 DEF Named
<1>8. QED
  BY <1>1, <1>3, <1>4, <1>5, <1>6, <1>7 DEF Named

\* The longest text has a length.
LEMMA LongestIs == LongestText \in Nat
<1>1. Base * Base \in Nat /\ Base * Base > 0
  BY BaseIs
<1>2. QED
  BY <1>1 DEF LongestText

\* What an item makes of the buffer.
LEMMA FieldAppendedIs ==
  ASSUME NEW t \in Types, NEW m, Typed(t, m), NEW k \in 1 .. Len(Layout(t)), NEW f,
         f = Layout(t)[k],
         NEW b \in Buffer, NEW c, c = FieldAppended(m, b, f)
  PROVE  IF Sayable(m, f) THEN Extended(b, Piece(m, f), c)
         ELSE c \in Buffer /\ (Held(b) => Held(c)) /\ ~c.ok
<1>1. f.size \in Nat /\ f.do \in Named \cup {"need", "exactly", "end"}
      /\ (f.do \in Named => f.name # "") /\ (f.do \notin Named => f.name = "")
  BY ItemIs
<1>2. b.bytes \in Seq(Byte) /\ Len(b.bytes) \in Nat
  BY LenProperties DEF Buffer
<1>3. CASE f.name = ""
  <2>1. c = b /\ Piece(m, f) = <<>> /\ Sayable(m, f)
    BY <1>1, <1>3 DEF FieldAppended, Piece, Sayable, Named
  <2>2. b.bytes \o <<>> = b.bytes
    BY <1>2, ConcatEmptySeq
  <2>3. QED
    BY <2>1, <2>2 DEF Extended
<1>4. CASE f.name # "" /\ f.do # "text"
  <2>1. c = Appended(b, Piece(m, f)) /\ Sayable(m, f)
    BY <1>4 DEF FieldAppended, Piece, Sayable
  <2>2. Piece(m, f) \in Seq(Byte)
    BY FieldIs
  <2>3. QED
    BY <2>1, <2>2, AppendedIs
<1>5. CASE f.name # "" /\ f.do = "text"
  <2>1. PICK v \in Seq(Byte) : v = m[f.name]
    BY <1>5, FieldIs
  <2>2. PICK two : two = Bytes(Len(v), 2)
    OBVIOUS
  <2>3. two \in Seq(Byte) /\ Len(two) = 2
    <3>1. Len(v) \in Nat
      BY LenProperties
    <3>2. QED
      BY <2>2, <3>1, BytesIs
  <2>4. Piece(m, f) = two \o v /\ (Sayable(m, f) <=> Len(v) <= LongestText)
    BY <1>5, <2>1, <2>2 DEF Piece, Sayable
  <2>5. c = IF Len(v) > LongestText THEN [b EXCEPT !.ok = FALSE] ELSE Appended(Appended(b, two), v)
    BY <1>5, <2>1, <2>2 DEF FieldAppended
  <2>6. Sayable(m, f) <=> ~(Len(v) > LongestText)
    <3>1. Len(v) \in Nat /\ LongestText \in Nat
      BY LongestIs, LenProperties
    <3>2. QED
      BY <2>4, <3>1
  <2>7. CASE ~Sayable(m, f)
    <3>1. c = [b EXCEPT !.ok = FALSE]
      BY <2>5, <2>6, <2>7
    <3>2. c \in Buffer /\ (Held(b) => Held(c)) /\ ~c.ok
      BY <3>1 DEF Buffer, Held
    <3>3. QED
      BY <2>7, <3>2
  <2>8. CASE Sayable(m, f)
    <3>1. c = Appended(Appended(b, two), v)
      BY <2>5, <2>6, <2>8
    <3>2. QED
      BY <2>3, <2>4, <2>8, <3>1, TwoAppended
  <2>9. QED
    BY <2>7, <2>8
<1>6. QED
  BY <1>3, <1>4, <1>5

Empty == [ok |-> TRUE, bytes |-> <<>>, cap |-> 0]

\* The encoders begin with an empty buffer.
LEMMA EmptyTyped == Empty \in Buffer /\ Held(Empty)
<1>1. <<>> \in Seq(Byte) /\ Len(<<>>) = 0
  BY EmptySeq
<1>2. QED
  BY <1>1 DEF Empty, Buffer, Held

\* An encoder goes through the items of its layout one by one.
LEMMA EncodingIs ==
  ASSUME NEW t \in Types, NEW m, Typed(t, m)
  PROVE  /\ Encoding(t, m) \in [0 .. Len(Layout(t)) -> Buffer]
         /\ Encoding(t, m)[0] = Empty
         /\ \A k \in 1 .. Len(Layout(t)) :
               Encoding(t, m)[k] = FieldAppended(m, Encoding(t, m)[k - 1], Layout(t)[k])
<1>1. PICK n \in Nat : n = Len(Layout(t))
  BY LayoutLen
<1>2. PICK L : L = Layout(t)
  OBVIOUS
<1>3. ASSUME NEW b \in Buffer, NEW k \in 1 .. n PROVE FieldAppended(m, b, L[k]) \in Buffer
  BY <1>1, <1>2, FieldAppendedIs DEF Extended
<1>4. PICK step : step = [x \in Buffer \X (1 .. n) |-> FieldAppended(m, x[1], L[x[2]])]
  OBVIOUS
<1>5. step \in [Buffer \X (1 .. n) -> Buffer]
  BY <1>3, <1>4
<1>6. PICK g \in [0 .. n -> Buffer] : IsFold(g, Empty, n, step)
  BY <1>5, EmptyTyped, FoldExists
<1>7. \A k \in 1 .. n : step[<<g[k - 1], k>>] = FieldAppended(m, g[k - 1], L[k])
  <2>1. ASSUME NEW k \in 1 .. n PROVE step[<<g[k - 1], k>>] = FieldAppended(m, g[k - 1], L[k])
    <3>1. g[k - 1] \in Buffer
      OBVIOUS
    <3>2. QED
      BY <1>4, <3>1
  <2>2. QED
    BY <2>1
<1>8. g = [k \in 0 .. n |-> IF k = 0 THEN Empty ELSE FieldAppended(m, g[k - 1], L[k])]
  <2>1. ASSUME NEW k \in 0 .. n
        PROVE  (IF k = 0 THEN Empty ELSE step[<<g[k - 1], k>>])
                  = IF k = 0 THEN Empty ELSE FieldAppended(m, g[k - 1], L[k])
    BY <1>7
  <2>2. QED
    BY <1>6, <2>1 DEF IsFold
<1>9. PICK at : at = Encoding(t, m)
  OBVIOUS
<1>10. at = [k \in 0 .. n |-> IF k = 0 THEN Empty ELSE FieldAppended(m, at[k - 1], L[k])]
  BY <1>1, <1>2, <1>8, <1>9 DEF Encoding, Empty
<1>11. at[0] = Empty /\ \A k \in 1 .. n : at[k] = FieldAppended(m, at[k - 1], L[k])
  BY <1>10
<1> DEFINE T == {k \in 0 .. n : at[k] \in Buffer}
<1>12. 0 \in T
  BY <1>11, EmptyTyped
<1>13. ASSUME NEW k \in 1 .. n, k - 1 \in T PROVE k \in T
  BY <1>3, <1>11, <1>13
<1>14. \A k \in 0 .. n : k \in T
  <2> HIDE DEF T
  <2>1. QED
    BY <1>12, <1>13, UpTo
<1>15. QED
  BY <1>1, <1>2, <1>9, <1>10, <1>11, <1>14

\* The buffer holds what is in it,
LEMMA EncodingHeld ==
  ASSUME NEW t \in Types, NEW m, Typed(t, m)
  PROVE  Held(Encoding(t, m)[Len(Layout(t))])
<1>1. PICK n \in Nat : n = Len(Layout(t))
  BY LayoutLen
<1>2. PICK at : at = Encoding(t, m)
  OBVIOUS
<1>3. /\ at \in [0 .. n -> Buffer] /\ at[0] = Empty
      /\ \A k \in 1 .. n : at[k] = FieldAppended(m, at[k - 1], Layout(t)[k])
  BY <1>1, <1>2, EncodingIs
<1> DEFINE T == {k \in 0 .. n : Held(at[k])}
<1>4. 0 \in T
  BY <1>3, EmptyTyped
<1>5. ASSUME NEW k \in 1 .. n, k - 1 \in T PROVE k \in T
  <2>1. at[k - 1] \in Buffer /\ Held(at[k - 1]) /\ k \in 1 .. Len(Layout(t))
    BY <1>1, <1>3, <1>5
  <2>2. Held(FieldAppended(m, at[k - 1], Layout(t)[k]))
    BY <2>1, FieldAppendedIs DEF Extended
  <2>3. QED
    BY <1>3, <2>2
<1>6. \A k \in 0 .. n : k \in T
  <2> HIDE DEF T
  <2>1. QED
    BY <1>4, <1>5, UpTo
<1>7. QED
  BY <1>1, <1>2, <1>6

\* and an encoder changes nothing else in it at the end.
LEMMA EncodeIs ==
  ASSUME NEW t \in Types, NEW m, Typed(t, m), NEW b, b = Encoding(t, m)[Len(Layout(t))]
  PROVE  /\ b \in Buffer /\ Held(b)
         /\ Encode(t, m) \in Buffer
         /\ Encode(t, m).bytes = b.bytes /\ Encode(t, m).cap = b.cap
         /\ Encode(t, m).ok => b.ok /\ Encodable(t, m) /\ Len(b.bytes) <= Cap
<1>1. Len(Layout(t)) \in 0 .. Len(Layout(t))
  BY LayoutLen
<1>2. b \in Buffer /\ Held(b)
  BY <1>1, EncodingIs, EncodingHeld
<1>3. Encode(t, m) = [b EXCEPT !.ok = @ /\ Encodable(t, m) /\ Len(b.bytes) <= Cap
                            /\ (t = "SOCKS_OPEN" => Len(b.bytes) <= MaxSocks)]
  BY DEF Encode
<1>4. QED
  BY <1>2, <1>3 DEF Buffer

-----------------------------------------------------------------------------
(* What is sent, what arrives and what is decoded of it *)

\* The message is one of the caller's, what is sent is its encoding, and what is
\* decoded is what arrives.
Travelling ==
    /\ type \in Types /\ msg \in Messages[type]
    /\ sent # NotYet =>
          /\ sent.bytes = Encode(type, msg).bytes /\ sent.cap = Encode(type, msg).cap
          /\ sent.ok => Encode(type, msg).ok
    /\ got # NotYet => sent # NotYet /\ sent.ok /\ got = Decode(type, payload)

Arriving ==
    /\ payload \in Seq(Byte)
    /\ changed \in {"no", "cut", "longer", "other"}
    /\ sent # NotYet /\ changed = "no" => payload = sent.bytes
    /\ sent # NotYet /\ changed = "cut" =>
          \E n \in Nat : n < Len(sent.bytes) /\ payload = SubSeq(sent.bytes, 1, n)
    /\ sent # NotYet /\ changed = "longer" =>
          \E b \in Byte : payload = Append(sent.bytes, b)
    /\ sent # NotYet /\ changed = "other" => Len(payload) = Len(sent.bytes)
    /\ sent = NotYet => changed = "no" /\ payload = <<>> /\ got = NotYet

WireInv == Travelling /\ Arriving

\* What was sent is no longer nothing.
LEMMA SentIsSomething == \A b \in Buffer : b # NotYet
<1>1. ASSUME NEW b \in Buffer PROVE b # NotYet
  <2>1. DOMAIN b = {"ok", "bytes", "cap"} /\ DOMAIN NotYet = {"ok", "none"}
    BY DEF Buffer, NotYet
  <2>2. "cap" \in DOMAIN b /\ "cap" \notin DOMAIN NotYet
    BY <2>1
  <2>3. QED
    BY <2>2
<1>2. QED
  BY <1>1

\* The messages that are encoded have the types of the encoders' parameters.
LEMMA MessageTyped == ASSUME NEW t \in Types, NEW m \in Messages[t] PROVE Typed(t, m)
BY MessagesAssumption DEF Typed

\* The encoder gives a buffer.
LEMMA EncodeTyped == ASSUME NEW t \in Types, NEW m \in Messages[t] PROVE Encode(t, m) \in Buffer
<1>1. PICK b : b = Encoding(t, m)[Len(Layout(t))]
  OBVIOUS
<1>2. QED
  BY <1>1, MessageTyped, EncodeIs

\* What the encoder gives is sent, or there was no memory for it,
LEMMA SendKeeps == WireInv /\ Send => WireInv'
<1> SUFFICES ASSUME WireInv, Send PROVE WireInv'
  OBVIOUS
<1>1. type \in Types /\ msg \in Messages[type] /\ changed = "no" /\ got = NotYet
  BY DEF WireInv, Travelling, Arriving, Send
<1>2. PICK e \in Buffer : e = Encode(type, msg)
  BY <1>1, EncodeTyped
<1>3. sent' = e \/ sent' = [e EXCEPT !.ok = FALSE]
  BY <1>2 DEF Send
<1>4. sent' \in Buffer /\ sent'.bytes = e.bytes /\ sent'.cap = e.cap /\ (sent'.ok => e.ok)
  BY <1>3 DEF Buffer
<1>5. sent' # NotYet /\ payload' = e.bytes /\ e.bytes \in Seq(Byte)
  BY <1>4, SentIsSomething DEF Send, Buffer
<1>6. UNCHANGED <<type, msg, changed, got>>
  BY DEF Send
<1>7. Travelling'
  BY <1>1, <1>2, <1>4, <1>6 DEF Travelling
<1>8. Arriving'
  BY <1>1, <1>4, <1>5, <1>6 DEF Arriving
<1>9. QED
  BY <1>7, <1>8 DEF WireInv

\* it is changed on its way once,
LEMMA ChangeKeeps == WireInv /\ (Cut \/ Longer \/ Other) => WireInv'
<1> SUFFICES ASSUME WireInv, Cut \/ Longer \/ Other PROVE WireInv'
  OBVIOUS
<1>1. sent # NotYet /\ got = NotYet /\ changed = "no" /\ UNCHANGED <<type, msg, sent, got>>
  BY DEF Cut, Longer, Other, CanArrive
<1>2. payload \in Seq(Byte) /\ payload = sent.bytes
  BY <1>1 DEF WireInv, Arriving
<1>3. Travelling'
  BY <1>1 DEF WireInv, Travelling
<1>4. Len(payload) \in Nat
  BY <1>2, LenProperties
<1>5. CASE Cut
  <2>1. PICK n \in 0 .. Len(payload) - 1 : payload' = SubSeq(payload, 1, n)
    BY <1>5 DEF Cut
  <2>2. n \in Nat /\ n < Len(payload)
    BY <1>4, <2>1
  <2>3. payload' \in Seq(Byte)
    <3>1. \A i \in 1 .. n : payload[i] \in Byte
      BY <1>2, <1>4, <2>2, ElementOfSeq
    <3>2. QED
      BY <2>1, <2>2, <3>1, SubSeqProperties
  <2>4. changed' = "cut"
    BY <1>5 DEF Cut
  <2>5. Arriving'
    BY <1>1, <1>2, <2>1, <2>2, <2>3, <2>4 DEF Arriving
  <2>6. QED
    BY <1>3, <2>5 DEF WireInv
<1>6. CASE Longer
  <2>1. PICK b \in Byte : payload' = Append(payload, b)
    BY <1>6 DEF Longer
  <2>2. payload' \in Seq(Byte)
    BY <1>2, <2>1, AppendProperties
  <2>3. changed' = "longer"
    BY <1>6 DEF Longer
  <2>4. Arriving'
    BY <1>1, <1>2, <2>1, <2>2, <2>3 DEF Arriving
  <2>5. QED
    BY <1>3, <2>4 DEF WireInv
<1>7. CASE Other
  <2>1. PICK k \in DOMAIN payload, b \in Byte : payload' = [payload EXCEPT ![k] = b]
    BY <1>7 DEF Other
  <2>2. payload' \in Seq(Byte) /\ Len(payload') = Len(payload)
    <3>1. k \in 1 .. Len(payload)
      BY <1>2, <2>1, LenProperties
    <3>2. QED
      BY <1>2, <2>1, <3>1, ExceptSeq
  <2>3. changed' = "other"
    BY <1>7 DEF Other
  <2>4. Arriving'
    BY <1>1, <1>2, <2>2, <2>3 DEF Arriving
  <2>5. QED
    BY <1>3, <2>4 DEF WireInv
<1>8. QED
  BY <1>5, <1>6, <1>7

\* and then it is decoded.
LEMMA ReceiveKeeps == WireInv /\ Receive => WireInv'
BY DEF WireInv, Travelling, Arriving, Receive, CanArrive

\* In every state what is sent is the encoding of the message, what arrives is
\* that or one change away, and what is decoded is what arrived.
THEOREM WireInductive == Spec => []WireInv
<1>1. Init => WireInv
  <2>1. <<>> \in Seq(Byte)
    BY EmptySeq
  <2>2. QED
    BY <2>1 DEF Init, WireInv, Travelling, Arriving
<1>2. WireInv /\ [Next]_vars => WireInv'
  <2>1. WireInv /\ UNCHANGED vars => WireInv'
    BY DEF WireInv, Travelling, Arriving, vars
  <2>2. QED
    BY <2>1, SendKeeps, ChangeKeeps, ReceiveKeeps DEF Next
<1>3. QED
  BY <1>1, <1>2, PTL DEF Spec

\* Decode changes nothing of what the decoder did.
LEMMA DecodeIs ==
  ASSUME NEW t \in Types, NEW p \in Seq(Byte), NEW d, d = Decoding(t, p)[Len(Layout(t))]
  PROVE  /\ Decode(t, p).pos = d.pos /\ Decode(t, p).msg = d.msg /\ Decode(t, p).nul = d.nul
         /\ Decode(t, p).ended = d.ended /\ Decode(t, p).over = d.over
         /\ Decode(t, p).ok <=> d.ok /\ Acceptable(t, d.msg)
<1>1. d \in Decoder(t)
  BY DecodeInside
<1>2. Decode(t, p) = [d EXCEPT !.ok = @ /\ Acceptable(t, d.msg)]
  BY DEF Decode
<1>3. QED
  BY <1>1, <1>2 DEF Decoder

\* The inductive invariant says that neither end leaves its memory.
LEMMA StaysInsideFollows == WireInv => StaysInside
<1> SUFFICES ASSUME WireInv PROVE StaysInside
  OBVIOUS
<1>1. type \in Types /\ msg \in Messages[type] /\ payload \in Seq(Byte)
  BY DEF WireInv, Travelling, Arriving
<1>2. BufferHolds
  <2>1. ASSUME sent # NotYet PROVE Len(sent.bytes) <= sent.cap
    <3>1. PICK b : b = Encoding(type, msg)[Len(Layout(type))]
      OBVIOUS
    <3>2. Held(b) /\ Encode(type, msg).bytes = b.bytes /\ Encode(type, msg).cap = b.cap
      BY <1>1, <3>1, MessageTyped, EncodeIs
    <3>3. sent.bytes = b.bytes /\ sent.cap = b.cap
      BY <2>1, <3>2 DEF WireInv, Travelling
    <3>4. QED
      BY <3>2, <3>3 DEF Held
  <2>2. QED
    BY <2>1 DEF BufferHolds
<1>3. ASSUME Received PROVE got.pos <= Len(payload) /\ ~got.over
  <2>1. got = Decode(type, payload)
    BY <1>3 DEF Received, WireInv, Travelling
  <2>2. PICK d : d = Decoding(type, payload)[Len(Layout(type))]
    OBVIOUS
  <2>3. d.pos <= Len(payload) /\ ~d.over
    BY <1>1, <2>2, DecodeInside
  <2>4. got.pos = d.pos /\ got.over = d.over
    BY <1>1, <2>1, <2>2, DecodeIs
  <2>5. QED
    BY <2>3, <2>4
<1>4. QED
  BY <1>2, <1>3 DEF StaysInside

\* Neither end leaves its memory, whatever the message and wherever its encoding
\* is cut, lengthened or changed.
THEOREM NeverOutOfBounds == Spec => []StaysInside
<1>1. QED
  BY WireInductive, StaysInsideFollows, PTL

-----------------------------------------------------------------------------
(* The signature *)

\* Sequences that begin with blocks of one size are the same when both the
\* blocks and what follows them are.
Apart(r, x, s, y) == r \o x = s \o y => r = s /\ x = y

\* Blocks of one size at the front can be told apart,
LEMMA BlocksApart ==
  ASSUME NEW r \in Seq(Byte), NEW s \in Seq(Byte), Len(r) = Len(s),
         NEW x \in Seq(Byte), NEW y \in Seq(Byte)
  PROVE  Apart(r, x, s, y)
<1>0. SUFFICES ASSUME r \o x = s \o y PROVE r = s /\ x = y
  BY DEF Apart
<1>1. PICK n \in Nat : n = Len(r) /\ n = Len(s)
  BY LenProperties
<1>2. \A i \in 1 .. n : r[i] = s[i]
  <2>1. ASSUME NEW i \in 1 .. n PROVE r[i] = s[i]
    <3>1. Len(x) \in Nat /\ Len(y) \in Nat
      BY LenProperties
    <3>2. i \in 1 .. n + Len(x) /\ i \in 1 .. n + Len(y)
      BY <3>1
    <3>3. (r \o x)[i] = r[i] /\ (s \o y)[i] = s[i]
      BY <1>1, <3>2, ConcatProperties
    <3>4. (r \o x)[i] = (s \o y)[i]
      BY <1>0
    <3>5. QED
      BY <3>3, <3>4
  <2>2. QED
    BY <2>1
<1>3. r = s
  BY <1>1, <1>2, SeqEqual
<1>4. x = y
  BY <1>0, <1>3, ConcatSimplifications
<1>5. QED
  BY <1>3, <1>4

\* Nor are there two triples of which the first two have fixed sizes.
AllApart(s, c, i, n, d, j, z) ==
    ((s \o c) \o i) \o z = ((n \o d) \o j) \o z => s = n /\ c = d /\ i = j

\* and so can two nonces with an id behind them.
LEMMA TriplesApart ==
  ASSUME NEW s \in Seq(Byte), NEW c \in Seq(Byte), NEW i \in Seq(Byte),
         NEW n \in Seq(Byte), NEW d \in Seq(Byte), NEW j \in Seq(Byte),
         Len(s) = Len(n), Len(c) = Len(d), NEW z \in Seq(Byte)
  PROVE  AllApart(s, c, i, n, d, j, z)
<1>1. /\ s \o c \in Seq(Byte) /\ n \o d \in Seq(Byte)
      /\ Len(s \o c) = Len(s) + Len(c) /\ Len(n \o d) = Len(n) + Len(d)
  BY ConcatProperties
<1>2. PICK u \in Seq(Byte), v \in Seq(Byte) : u = s \o c /\ v = n \o d /\ Len(u) = Len(v)
  BY <1>1
<1>3. ASSUME (u \o i) \o z = (v \o j) \o z PROVE u \o i = v \o j
  <2>1. PICK x \in Seq(Byte), y \in Seq(Byte) : x = u \o i /\ y = v \o j
    BY ConcatProperties
  <2>2. x \o z = y \o z
    BY <1>3, <2>1
  <2>3. x = y
    BY <2>2, ConcatSimplifications
  <2>4. QED
    BY <2>1, <2>3
<1>4. Len(u) = Len(v)
  BY <1>2
<1>5. Apart(u, i, v, j)
  BY <1>4, BlocksApart
<1>6. Apart(s, c, n, d)
  BY BlocksApart
<1>7. ASSUME ((s \o c) \o i) \o z = ((n \o d) \o j) \o z PROVE s = n /\ c = d /\ i = j
  <2>1. (u \o i) \o z = (v \o j) \o z
    BY <1>2, <1>7
  <2>2. u = v /\ i = j
    BY <1>3, <1>5, <2>1 DEF Apart
  <2>3. s \o c = n \o d
    BY <1>2, <2>2
  <2>4. QED
    BY <1>6, <2>2, <2>3 DEF Apart
<1>8. QED
  BY <1>7 DEF AllApart

\* The signature binds, whatever the messages: it needs no more of the invariant
\* than the type of the message to send.
LEMMA SignatureBindsFollows == WireInv => SignatureBinds
<1>0. SUFFICES ASSUME WireInv, type = "AUTH_NODE",
                    NEW a \in Signed, NEW b \in Signed, NEW s \in [1 .. NonceSize -> Byte],
                    SignedBytes(s, a.nonce, a.id) = SignedBytes(msg.client_nonce, b.nonce, b.id)
             PROVE  a = b /\ s = msg.client_nonce
  BY DEF SignatureBinds
<1>1. "AUTH_NODE" \in Types /\ msg \in Messages["AUTH_NODE"]
  BY <1>0 DEF WireInv, Travelling
<1>2. Block("client_nonce", NonceSize) \in Fields("AUTH_NODE") /\ Text("node_id") \in Fields("AUTH_NODE")
  <2>1. AuthNode[3] = Block("client_nonce", NonceSize) /\ AuthNode[1] = Text("node_id")
        /\ DOMAIN AuthNode = 1 .. 4
    BY DEF AuthNode
  <2>2. Block("client_nonce", NonceSize) \in ToSet(AuthNode) /\ Text("node_id") \in ToSet(AuthNode)
    BY <2>1 DEF ToSet
  <2>3. Layout("AUTH_NODE") = AuthNode
    BY DEF Layout
  <2>4. QED
    BY <2>2, <2>3 DEF Fields, Block, Text
<1>3. ASSUME NEW m \in Messages["AUTH_NODE"]
      PROVE  m.client_nonce \in [1 .. NonceSize -> Byte] /\ m.node_id \in Seq(Byte)
  <2>1. HasType(Block("client_nonce", NonceSize), m.client_nonce) /\ HasType(Text("node_id"), m.node_id)
    BY <1>1, <1>2, MessagesAssumption DEF Block, Text
  <2>2. m.client_nonce \in [1 .. NonceSize -> Byte] /\ m.node_id \in Seq(Byte \ {0})
    BY <2>1 DEF HasType, Block, Text
  <2>3. Byte \ {0} \subseteq Byte
    OBVIOUS
  <2>4. QED
    BY <2>2, <2>3, SeqMonotonic
<1>4. PICK n : n = msg.client_nonce
  OBVIOUS
<1>5. \A v \in [1 .. NonceSize -> Byte] : v \in Seq(Byte) /\ Len(v) = NonceSize
  BY SizesAre, BytesAreSeq
<1>6. /\ a.nonce \in [1 .. NonceSize -> Byte] /\ b.nonce \in [1 .. NonceSize -> Byte]
      /\ a.id \in Seq(Byte) /\ b.id \in Seq(Byte) /\ n \in [1 .. NonceSize -> Byte]
  BY <1>1, <1>3, <1>4 DEF Signed
<1>7. PICK c \in Seq(Byte), d \in Seq(Byte), i \in Seq(Byte), j \in Seq(Byte) :
         c = a.nonce /\ d = b.nonce /\ i = a.id /\ j = b.id
  BY <1>5, <1>6
<1>8. s \in Seq(Byte) /\ n \in Seq(Byte) /\ Len(s) = Len(n) /\ Len(c) = Len(d)
  BY <1>5, <1>6, <1>7
<1>9. <<1>> \in Seq(Byte)
  <2>1. 1 \in Byte
    BY BaseIs DEF Byte
  <2>2. QED
    BY <2>1
<1>10. ((s \o c) \o i) \o <<1>> = ((n \o d) \o j) \o <<1>>
  BY <1>0, <1>4, <1>7 DEF SignedBytes
<1>11. s = n /\ c = d /\ i = j
  <2>1. Len(s) = Len(n) /\ Len(c) = Len(d)
    BY <1>8
  <2>2. AllApart(s, c, i, n, d, j, <<1>>)
    BY <1>8, <1>9, <2>1, TriplesApart
  <2>3. QED
    BY <1>10, <2>2 DEF AllApart
<1>12. a.id = b.id /\ a.nonce = b.nonce
  BY <1>7, <1>11
<1>13. a = b
  BY <1>12 DEF Signed
<1>14. QED
  BY <1>4, <1>11, <1>13

\* No two triples of nonces and node id sign the same bytes.
THEOREM NothingElseIsSigned == Spec => []SignatureBinds
<1>1. QED
  BY WireInductive, SignatureBindsFollows, PTL

-----------------------------------------------------------------------------
(* Numbers and their bytes *)

\* Division with remainder,
LEMMA DivSum ==
  ASSUME NEW b \in Nat, b > 0, NEW n \in Nat, NEW q \in Nat, q = n \div b, NEW r \in Nat, r = n % b
  PROVE  n = b * q + r
BY SMT

\* by the number of values of a byte,
LEMMA DivIs ==
  ASSUME NEW n \in Nat, NEW q, q = n \div Base, NEW r, r = n % Base
  PROVE  q \in Nat /\ r \in Byte /\ n = Base * q + r
<1>1. PICK b : b = Base
  OBVIOUS
<1>2. b \in Nat /\ b > 0 /\ q = n \div b /\ r = n % b
  BY <1>1, BaseIs
<1>3. q \in Nat /\ r \in 0 .. b - 1
  BY <1>2
<1>4. r \in Nat
  BY <1>2, <1>3
<1>5. n = b * q + r
  BY <1>2, <1>3, <1>4, DivSum
<1>6. QED
  BY <1>1, <1>3, <1>5 DEF Byte

\* and what makes the number again divides so.
LEMMA DivOf ==
  ASSUME NEW q \in Nat, NEW r \in Byte
  PROVE  Base * q + r \in Nat /\ (Base * q + r) \div Base = q /\ (Base * q + r) % Base = r
<1>1. PICK b : b = Base
  OBVIOUS
<1>2. b \in Nat /\ b > 0 /\ r \in 0 .. b - 1
  BY <1>1, BaseIs DEF Byte
<1>3. PICK c : c = b * q
  OBVIOUS
<1>4. c \in Nat
  BY <1>2, <1>3
<1>5. c + r \in Nat /\ (c + r) \div b = q /\ (c + r) % b = r
  BY <1>2, <1>3, <1>4
<1>6. QED
  BY <1>1, <1>3, <1>5

\* The bytes of a number make that number, if it is no longer than they are.
LEMMA NumberOfBytes ==
  ASSUME NEW n \in Nat, NEW size \in Nat
  PROVE  Shifted(n, size)[size] = 0 => Number(Bytes(n, size)) = n
<1>0. SUFFICES ASSUME Shifted(n, size)[size] = 0 PROVE Number(Bytes(n, size)) = n
  OBVIOUS
<1>1. PICK s : s = Shifted(n, size)
  OBVIOUS
<1>2. /\ s \in [0 .. size -> Nat] /\ s[0] = n
      /\ \A k \in 1 .. size : s[k] = s[k - 1] \div Base
  BY <1>1, ShiftedIs
<1>12. s[size] = 0
  BY <1>0, <1>1
<1>3. PICK bytes \in Seq(Byte) : bytes = Bytes(n, size) /\ Len(bytes) = size
  BY BytesIs
<1>4. \A k \in 1 .. size : bytes[k] = s[size - k] % Base
  BY <1>1, <1>3 DEF Bytes
<1>5. PICK g \in [0 .. size -> Nat] :
         /\ g[0] = 0 /\ \A k \in 1 .. size : g[k] = Base * g[k - 1] + bytes[k]
         /\ Number(bytes) = g[size]
  BY <1>3, NumberIs
<1> DEFINE T == {k \in 0 .. size : g[k] = s[size - k]}
<1>6. 0 \in T
  BY <1>5, <1>12
<1>7. ASSUME NEW k \in 1 .. size, k - 1 \in T PROVE k \in T
  <2>1. PICK j \in 0 .. size : j = size - k
    OBVIOUS
  <2>2. j + 1 \in 1 .. size /\ (j + 1) - 1 = j /\ size - (k - 1) = j + 1 /\ k \in 0 .. size
    BY <2>1
  <2>3. s[j] \in Nat /\ s[j + 1] = s[j] \div Base
    BY <1>2, <2>2
  <2>4. s[j] = Base * s[j + 1] + bytes[k]
    <3>0. PICK a \in Nat : a = s[j]
      BY <2>3
    <3>1. PICK q, r : q = a \div Base /\ r = a % Base
      OBVIOUS
    <3>2. a = Base * q + r
      BY ONLY <3>1, a \in Nat, DivIs
    <3>3. bytes[k] = r /\ s[j + 1] = q
      BY <1>4, <2>1, <2>3, <3>0, <3>1
    <3>4. QED
      BY <3>0, <3>2, <3>3
  <2>5. g[k - 1] = s[j + 1]
    BY <1>7, <2>2
  <2>6. g[k] = s[size - k]
    BY <1>5, <2>1, <2>4, <2>5
  <2>7. QED
    BY <2>2, <2>6
<1>8. \A k \in 0 .. size : k \in T
  <2> HIDE DEF T
  <2>1. QED
    BY <1>6, <1>7, UpTo
<1>9. size \in 0 .. size /\ size - size = 0
  OBVIOUS
<1>10. g[size] = n
  BY <1>2, <1>8, <1>9
<1>11. QED
  BY <1>3, <1>5, <1>10

\* And bytes are the bytes of the number they make, which is no longer than they are.
LEMMA BytesOfNumber ==
  ASSUME NEW size \in Nat, NEW bytes \in [1 .. size -> Byte]
  PROVE  /\ Number(bytes) \in Nat /\ Bytes(Number(bytes), size) = bytes
         /\ Shifted(Number(bytes), size)[size] = 0
<1>1. bytes \in Seq(Byte) /\ Len(bytes) = size
  BY BytesAreSeq
<1>2. PICK g \in [0 .. size -> Nat] :
         /\ g[0] = 0 /\ \A k \in 1 .. size : g[k] = Base * g[k - 1] + bytes[k]
         /\ Number(bytes) = g[size]
  BY <1>1, NumberIs
<1>3. PICK n \in Nat : n = Number(bytes) /\ n = g[size]
  BY <1>2
<1>4. PICK s : s = Shifted(n, size)
  OBVIOUS
<1>5. /\ s \in [0 .. size -> Nat] /\ s[0] = n
      /\ \A k \in 1 .. size : s[k] = s[k - 1] \div Base
  BY <1>4, ShiftedIs
<1>6. \A k \in 1 .. size : g[k - 1] \in Nat /\ g[k] \div Base = g[k - 1] /\ g[k] % Base = bytes[k]
  <2>1. ASSUME NEW k \in 1 .. size
        PROVE  g[k - 1] \in Nat /\ g[k] \div Base = g[k - 1] /\ g[k] % Base = bytes[k]
    <3>1. k - 1 \in 0 .. size /\ bytes[k] \in Byte /\ g[k] = Base * g[k - 1] + bytes[k]
      BY <1>2
    <3>2. g[k - 1] \in Nat
      BY <3>1
    <3>3. QED
      BY <3>1, <3>2, DivOf
  <2>2. QED
    BY <2>1
<1> DEFINE T == {j \in 0 .. size : s[j] = g[size - j]}
<1>7. 0 \in T
  BY <1>3, <1>5
<1>8. ASSUME NEW j \in 1 .. size, j - 1 \in T PROVE j \in T
  <2>1. PICK k \in 1 .. size : k = size - (j - 1)
    OBVIOUS
  <2>2. k - 1 = size - j /\ j \in 0 .. size
    BY <2>1
  <2>3. s[j] = s[j - 1] \div Base /\ s[j - 1] = g[k]
    BY <1>5, <1>8, <2>1
  <2>4. s[j] = g[k - 1]
    BY <1>6, <2>3
  <2>5. QED
    BY <2>2, <2>4
<1>9. \A j \in 0 .. size : j \in T
  <2> HIDE DEF T
  <2>1. QED
    BY <1>7, <1>8, UpTo
<1>10. s[size] = 0
  <2>1. size \in 0 .. size /\ size - size = 0
    OBVIOUS
  <2>2. QED
    BY <1>2, <1>9, <2>1
<1>11. ASSUME NEW k \in 1 .. size PROVE Bytes(n, size)[k] = bytes[k]
  <2>1. PICK j \in 0 .. size : j = size - k
    OBVIOUS
  <2>2. size - j = k
    BY <2>1
  <2>3. s[j] = g[k]
    BY <1>9, <2>2
  <2>4. QED
    BY <1>4, <1>6, <2>1, <2>3 DEF Bytes
<1>12. Bytes(n, size) \in [1 .. size -> Byte]
  BY BytesIs
<1>13. Bytes(n, size) = bytes
  BY <1>11, <1>12
<1>14. QED
  BY <1>3, <1>4, <1>10, <1>13


-----------------------------------------------------------------------------
(* What is read of what was written *)

\* Sequences of bytes the one of which begins with the other; and one that has
\* the other's bytes as far as it goes.
Prefix(x, q) == Len(x) <= Len(q) /\ \A i \in 1 .. Len(x) : q[i] = x[i]
Agrees(p, q) == \A i \in 1 .. Len(q) : i <= Len(p) => p[i] = q[i]

\* What is written is the pieces one behind the other.
Written(t, m, w) ==
    /\ w \in [0 .. Len(Layout(t)) -> Seq(Byte)]
    /\ w[0] = <<>> /\ w[Len(Layout(t))] = Encode(t, m).bytes
    /\ \A k \in 1 .. Len(Layout(t)) :
          Sayable(m, Layout(t)[k]) /\ w[k] = w[k - 1] \o Piece(m, Layout(t)[k])
    /\ \A k \in 0 .. Len(Layout(t)) : Prefix(w[k], w[Len(Layout(t))])

\* The first of two pieces,
LEMMA FirstIsPrefix ==
  ASSUME NEW x \in Seq(Byte), NEW y \in Seq(Byte)
  PROVE  Prefix(x, x \o y) /\ Len(x \o y) = Len(x) + Len(y)
         /\ \A i \in 1 .. Len(y) : (x \o y)[Len(x) + i] = y[i]
<1>1. PICK a \in Nat, b \in Nat : a = Len(x) /\ b = Len(y)
  BY LenProperties
<1>2. /\ Len(x \o y) = a + b
      /\ \A i \in 1 .. a + b : (x \o y)[i] = IF i <= a THEN x[i] ELSE y[i - a]
  BY <1>1, ConcatProperties
<1>3. \A i \in 1 .. a : (x \o y)[i] = x[i]
  <2>1. ASSUME NEW i \in 1 .. a PROVE (x \o y)[i] = x[i]
    <3>1. i \in 1 .. a + b /\ i <= a
      OBVIOUS
    <3>2. QED
      BY <1>2, <3>1
  <2>2. QED
    BY <2>1
<1>4. \A i \in 1 .. b : (x \o y)[a + i] = y[i]
  <2>1. ASSUME NEW i \in 1 .. b PROVE (x \o y)[a + i] = y[i]
    <3>1. a + i \in 1 .. a + b /\ ~(a + i <= a) /\ (a + i) - a = i
      OBVIOUS
    <3>2. QED
      BY <1>2, <3>1
  <2>2. QED
    BY <2>1
<1>5. QED
  BY <1>1, <1>2, <1>3, <1>4 DEF Prefix

\* and a beginning's beginning.
LEMMA PrefixOfPrefix ==
  ASSUME NEW x \in Seq(Byte), NEW y \in Seq(Byte), NEW z \in Seq(Byte), Prefix(x, y), Prefix(y, z)
  PROVE  Prefix(x, z)
<1>1. PICK a \in Nat, b \in Nat, c \in Nat : a = Len(x) /\ b = Len(y) /\ c = Len(z)
  BY LenProperties
<1>2. a <= b /\ b <= c /\ (\A i \in 1 .. a : y[i] = x[i]) /\ (\A i \in 1 .. b : z[i] = y[i])
  BY <1>1 DEF Prefix
<1>3. QED
  BY <1>1, <1>2 DEF Prefix

\* What an encoder gives is written so.
LEMMA WrittenIs ==
  ASSUME NEW t \in Types, NEW m, Typed(t, m), Encode(t, m).ok
  PROVE  \E w : Written(t, m, w)
<1>1. PICK n \in Nat \ {0} : n = Len(Layout(t))
  BY LayoutLen
<1>2. PICK at : at = Encoding(t, m)
  OBVIOUS
<1>3. /\ at \in [0 .. n -> Buffer] /\ at[0] = Empty
      /\ \A k \in 1 .. n : at[k] = FieldAppended(m, at[k - 1], Layout(t)[k])
  BY <1>1, <1>2, EncodingIs
<1>4. at[n].ok /\ Encode(t, m).bytes = at[n].bytes
  BY <1>1, <1>2, EncodeIs
<1>5. PICK w : w = [k \in 0 .. n |-> at[k].bytes]
  OBVIOUS
<1>6. w \in [0 .. n -> Seq(Byte)] /\ \A k \in 0 .. n : w[k] = at[k].bytes
  BY <1>3, <1>5 DEF Buffer
<1>7. ASSUME NEW k \in 1 .. n, at[k].ok
      PROVE  Sayable(m, Layout(t)[k]) /\ at[k - 1].ok /\ w[k] = w[k - 1] \o Piece(m, Layout(t)[k])
  <2>1. PICK b \in Buffer : b = at[k - 1] /\ at[k] = FieldAppended(m, b, Layout(t)[k])
    BY <1>3
  <2>2. PICK f : f = Layout(t)[k]
    OBVIOUS
  <2>3. k \in 1 .. Len(Layout(t)) /\ k \in 0 .. n /\ k - 1 \in 0 .. n
    BY <1>1
  <2>4. IF Sayable(m, f) THEN Extended(b, Piece(m, f), at[k])
        ELSE at[k] \in Buffer /\ (Held(b) => Held(at[k])) /\ ~at[k].ok
    BY <2>1, <2>2, <2>3, FieldAppendedIs
  <2>5. Sayable(m, f) /\ b.ok /\ at[k].bytes = b.bytes \o Piece(m, f)
    BY <1>7, <2>4 DEF Extended
  <2>6. QED
    BY <1>6, <2>1, <2>2, <2>3, <2>5
<1> DEFINE T == {k \in 0 .. n : at[k].ok /\ Prefix(w[k], w[n])}
<1>8. n \in T
  <2>1. w[n] \in Seq(Byte) /\ Len(w[n]) \in Nat
    BY <1>6, LenProperties
  <2>2. Prefix(w[n], w[n])
    BY <2>1 DEF Prefix
  <2>3. QED
    BY <1>4, <2>2
<1>9. ASSUME NEW k \in 1 .. n, k \in T PROVE k - 1 \in T
  <2>1. at[k - 1].ok /\ w[k] = w[k - 1] \o Piece(m, Layout(t)[k])
    BY <1>7, <1>9
  <2>2. k \in 1 .. Len(Layout(t)) /\ k - 1 \in 0 .. n
    BY <1>1
  <2>3. PICK x \in Seq(Byte), y \in Seq(Byte), v \in Seq(Byte) :
           x = w[k - 1] /\ y = Piece(m, Layout(t)[k]) /\ v = w[n]
    BY <1>6, <2>2, FieldIs
  <2>4. x \o y \in Seq(Byte) /\ Prefix(x, x \o y)
    BY FirstIsPrefix, ConcatProperties
  <2>5. Prefix(x \o y, v)
    BY <1>9, <2>1, <2>3
  <2>6. Prefix(x, v)
    BY <2>4, <2>5, PrefixOfPrefix
  <2>7. QED
    BY <2>1, <2>2, <2>3, <2>6
<1>10. \A k \in 0 .. n : k \in T
  <2> HIDE DEF T
  <2>1. QED
    BY <1>8, <1>9, DownTo
<1>11. ASSUME NEW k \in 1 .. n
       PROVE  Sayable(m, Layout(t)[k]) /\ w[k] = w[k - 1] \o Piece(m, Layout(t)[k])
  <2>1. at[k].ok
    BY <1>10
  <2>2. QED
    BY <1>7, <2>1
<1>12. w[0] = <<>> /\ w[n] = Encode(t, m).bytes
  BY <1>3, <1>4, <1>6 DEF Empty
<1>13. \A k \in 0 .. n : Prefix(w[k], w[n])
  BY <1>10
<1>14. Written(t, m, w)
  BY <1>1, <1>6, <1>11, <1>12, <1>13 DEF Written
<1>15. QED
  BY <1>14

\* A piece is read where it was written.
LEMMA SliceOf ==
  ASSUME NEW p \in Seq(Byte), NEW q \in Seq(Byte), Agrees(p, q),
         NEW x \in Seq(Byte), NEW y \in Seq(Byte), Prefix(x \o y, q), Len(x) + Len(y) <= Len(p)
  PROVE  Slice(p, Len(x), Len(y)) = y
<1>1. PICK a \in Nat, b \in Nat, l \in Nat, h \in Nat :
         a = Len(x) /\ b = Len(y) /\ l = Len(p) /\ h = Len(q)
  BY LenProperties
<1>2. PICK w : w = x \o y
  OBVIOUS
<1>3. Len(w) = a + b /\ \A i \in 1 .. b : w[a + i] = y[i]
  BY <1>1, <1>2, FirstIsPrefix
<1>4. a + b <= h /\ (\A i \in 1 .. a + b : q[i] = w[i]) /\ a + b <= l
  BY <1>1, <1>2, <1>3 DEF Prefix
<1>5. ASSUME NEW i \in 1 .. b PROVE At(p, a + i) = y[i]
  <2>1. a + i \in 1 .. a + b /\ a + i \in 1 .. h /\ a + i <= l
    BY <1>4
  <2>2. w[a + i] = y[i] /\ q[a + i] = w[a + i]
    BY <1>3, <1>4, <2>1
  <2>3. p[a + i] = q[a + i]
    BY <1>1, <2>1 DEF Agrees
  <2>4. At(p, a + i) = p[a + i]
    BY <1>1, <2>1 DEF At
  <2>5. QED
    BY <2>2, <2>3, <2>4
<1>6. Slice(p, a, b) = [i \in 1 .. b |-> At(p, a + i)]
  BY DEF Slice
<1>7. y = [i \in 1 .. b |-> y[i]]
  BY <1>1, LenProperties
<1>8. QED
  BY <1>1, <1>5, <1>6, <1>7

\* A larger factor makes a larger product,
LEMMA Larger ==
  ASSUME NEW b \in Nat, NEW x \in Nat, NEW y \in Nat, x <= y
  PROVE  b * x <= b * y
<1>1. PICK z \in Nat : z = y - x
  OBVIOUS
<1>2. y = x + z
  BY <1>1
<1>3. b * y = b * x + b * z
  BY <1>2
<1>4. b * z >= 0 /\ b * x \in Nat /\ b * z \in Nat
  OBVIOUS
<1>5. QED
  BY <1>3, <1>4

\* and so the numbers with two bytes are those up to the longest text.
LEMMA TwoBytes == ASSUME NEW n \in Nat PROVE Shifted(n, 2)[2] = 0 <=> n <= LongestText
<1>1. PICK s : s = Shifted(n, 2)
  OBVIOUS
<1>2. /\ s \in [0 .. 2 -> Nat] /\ s[0] = n
      /\ \A k \in 1 .. 2 : s[k] = s[k - 1] \div Base
  <2>1. PICK two \in Nat : two = 2
    OBVIOUS
  <2>2. PICK z : z = Shifted(n, two)
    OBVIOUS
  <2>3. z \in [0 .. two -> Nat] /\ z[0] = n /\ \A k \in 1 .. two : z[k] = z[k - 1] \div Base
    BY <2>2, ShiftedIs
  <2>4. z = s
    BY <1>1, <2>1, <2>2
  <2>5. QED
    BY <2>1, <2>3, <2>4
<1>3. s[1] = s[0] \div Base /\ s[2] = s[1] \div Base /\ s[1] \in Nat
  <2>1. 1 \in 1 .. 2 /\ 2 \in 1 .. 2 /\ 1 - 1 = 0 /\ 2 - 1 = 1 /\ 1 \in 0 .. 2
    OBVIOUS
  <2>2. QED
    BY <1>2, <2>1
<1>4. PICK b, q, r, h, l : b = Base /\ q = n \div Base /\ r = n % Base /\ h = q \div Base /\ l = q % Base
  OBVIOUS
<1>5. q \in Nat /\ r \in Byte /\ n = Base * q + r
  BY <1>4, DivIs
<1>6. h \in Nat /\ l \in Byte /\ q = Base * h + l
  BY <1>4, <1>5, DivIs
<1>7. s[2] = h
  BY <1>2, <1>3, <1>4
<1>8. b \in Nat /\ b > 1 /\ r \in 0 .. b - 1 /\ l \in 0 .. b - 1 /\ n = b * q + r /\ q = b * h + l
  BY <1>4, <1>5, <1>6, BaseIs DEF Byte
<1>9. PICK c \in Nat : c = b * b
  BY <1>8
<1>10. LongestText = c - 1
  BY <1>4, <1>9 DEF LongestText
<1>11. ASSUME h = 0 PROVE n <= c - 1
  <2>1. q = l
    BY <1>8, <1>11
  <2>2. q <= b - 1 /\ b - 1 \in Nat
    BY <1>8, <2>1
  <2>3. b * q <= b * (b - 1)
    BY <1>5, <1>8, <2>2, Larger
  <2>4. b * (b - 1) = c - b
    BY <1>8, <1>9
  <2>5. PICK e \in Nat : e = b * q
    BY <1>5, <1>8
  <2>6. e <= c - b /\ n = e + r
    BY <1>8, <2>3, <2>4, <2>5
  <2>7. QED
    BY <1>8, <1>9, <2>6
<1>12. ASSUME h # 0 PROVE ~(n <= c - 1)
  <2>1. 1 <= h
    BY <1>6, <1>12
  <2>2. b * 1 <= b * h
    BY <1>6, <1>8, <2>1, Larger
  <2>3. PICK d \in Nat : d = b * h
    BY <1>6, <1>8
  <2>4. b <= q
    BY <1>8, <2>2, <2>3
  <2>5. b * b <= b * q
    BY <1>5, <1>8, <2>4, Larger
  <2>6. PICK e \in Nat : e = b * q
    BY <1>5, <1>8
  <2>7. c <= e /\ n = e + r
    BY <1>8, <1>9, <2>5, <2>6
  <2>8. QED
    BY <1>8, <1>9, <2>7
<1>13. QED
  BY <1>1, <1>7, <1>10, <1>11, <1>12

\* A string has no NUL inside.
LEMMA NoNul == ASSUME NEW v \in Seq(Byte \ {0}) PROVE 0 \notin ToSet(v) /\ UpToNul(v) = v
<1>1. \A i \in DOMAIN v : v[i] \in Byte \ {0}
  BY LenProperties, ElementOfSeq
<1>2. 0 \notin ToSet(v)
  BY <1>1 DEF ToSet
<1>3. {k \in DOMAIN v : v[k] = 0} = {}
  BY <1>1
<1>4. UpToNul(v) = v
  BY <1>3 DEF UpToNul
<1>5. QED
  BY <1>2, <1>4

\* It does not matter where a sequence is taken apart.
LEMMA Regrouped ==
  ASSUME NEW x \in Seq(Byte), NEW y \in Seq(Byte), NEW z \in Seq(Byte)
  PROVE  x \o (y \o z) = (x \o y) \o z
BY ConcatAssociative, SMTT(30)

\* A piece behind another at the beginning of what was written; the piece of a text.
Placed(x, y, q) == Prefix(x \o y, q)
TextPiece(v) == Bytes(Len(v), 2) \o v

\* A text is read where it was written: its length, and if all of it is there
\* the text itself.
LEMMA TextRead ==
  ASSUME NEW t \in Types, NEW d \in Decoder(t), NEW p \in Seq(Byte), NEW q \in Seq(Byte),
         Agrees(p, q), NEW x \in Seq(Byte), d.pos = Len(x), NEW v \in Seq(Byte),
         Len(v) <= LongestText, Placed(x, TextPiece(v), q), d.pos + 2 <= Len(p)
  PROVE  /\ TextLen(p, d) = Len(v)
         /\ d.pos + 2 + Len(v) <= Len(p) => TextBytes(p, d) = v
<1>1. PICK a \in Nat, n \in Nat, l \in Nat : a = Len(x) /\ n = Len(v) /\ l = Len(p)
  BY LenProperties
<1>2. PICK two \in Seq(Byte) : two = Bytes(n, 2) /\ Len(two) = 2
  BY BytesIs
<1>3. Number(two) = n
  <2>1. Shifted(n, 2)[2] = 0
    BY <1>1, TwoBytes
  <2>2. QED
    BY <1>2, <2>1, NumberOfBytes
<1>4. PICK y \in Seq(Byte) : y = x \o two
  BY ConcatProperties
<1>5. Len(y) = a + 2 /\ Prefix(y, y \o v) /\ y \o v \in Seq(Byte)
  <2>1. Len(y) = a + 2
    <3>1. Len(x \o two) = Len(x) + Len(two)
      BY ConcatProperties
    <3>2. QED
      BY <1>1, <1>2, <1>4, <3>1
  <2>2. Prefix(y, y \o v) /\ y \o v \in Seq(Byte)
    <3>1. Prefix(y, y \o v)
      BY FirstIsPrefix
    <3>2. y \o v \in Seq(Byte)
      BY ConcatProperties
    <3>3. QED
      BY <3>1, <3>2
  <2>3. QED
    BY <2>1, <2>2
<1>6. x \o (two \o v) = y \o v
  <2>1. x \o (two \o v) = (x \o two) \o v
    BY Regrouped, SMTT(30)
  <2>2. QED
    BY <1>4, <2>1
<1>7. Prefix(y \o v, q)
  BY <1>1, <1>2, <1>6 DEF Placed, TextPiece
<1>8. Prefix(y, q)
  BY <1>5, <1>7, PrefixOfPrefix
<1>9. Slice(p, a, 2) = two
  <2>1. Prefix(x \o two, q) /\ Len(x) + Len(two) <= Len(p)
    BY <1>1, <1>2, <1>4, <1>8
  <2>2. Slice(p, Len(x), Len(two)) = two
    BY <2>1, SliceOf
  <2>3. QED
    BY <1>1, <1>2, <2>2
<1>10. TextLen(p, d) = n
  BY <1>1, <1>3, <1>9 DEF TextLen
<1>11. ASSUME a + 2 + n <= l PROVE Slice(p, a + 2, n) = v
  <2>1. Len(y) + Len(v) <= Len(p)
    BY <1>1, <1>5, <1>11
  <2>2. Slice(p, Len(y), Len(v)) = v
    BY <1>7, <2>1, SliceOf
  <2>3. QED
    BY <1>1, <1>5, <2>2
<1>12. QED
  BY <1>1, <1>10, <1>11 DEF TextBytes

\* A decoder that is where the encoder was: it is past the piece, and has the
\* value the piece was made of.
Followed(m, f, d, e, size) ==
    /\ e.pos = size
    /\ f.do \in Named => e.msg = [d.msg EXCEPT ![f.name] = m[f.name]]
    /\ f.do \notin Named => e.msg = d.msg

\* Reading an item where it was written.
LEMMA ReadFollows ==
  ASSUME NEW t \in Types, NEW m, Typed(t, m), NEW k \in 1 .. Len(Layout(t)), NEW f,
         f = Layout(t)[k],
         NEW d \in Decoder(t), Going(d), NEW p \in Seq(Byte), NEW q \in Seq(Byte), Agrees(p, q),
         NEW x \in Seq(Byte), d.pos = Len(x), Sayable(m, f), Placed(x, Piece(m, f), q),
         NEW e, e = Read(p, d, f), Going(e), e.pos <= Len(p),
         f.do = "rest" => Len(p) = Len(x) + Len(Piece(m, f))
  PROVE  Followed(m, f, d, e, Len(x) + Len(Piece(m, f)))
<1>1. /\ f.do \in Named \cup {"need", "exactly", "end"} /\ f.size \in Nat
      /\ f.do \in Named => f.name \in Names(t) /\ f.name # ""
      /\ f.do \notin Named => f.name = ""
  BY ItemIs
<1>2. PICK a \in Nat, l \in Nat : a = Len(x) /\ l = Len(p)
  BY LenProperties
<1>3. PICK y \in Seq(Byte) : y = Piece(m, f)
  BY FieldIs
<1>4. PICK b \in Nat : b = Len(y) /\ Placed(x, y, q)
  BY <1>3, LenProperties
<1>5. a + b <= l => Slice(p, a, b) = y
  BY <1>2, <1>4, SliceOf DEF Placed
<1>6. CASE f.do \in {"need", "exactly", "end"}
  <2>1. Checked(d, e)
    BY <1>6, NeedIs, ExactlyIs, EndIs
  <2>2. f.do \notin Named
    BY <1>6 DEF Named
  <2>3. y = <<>>
    BY <1>1, <1>3, <2>2 DEF Piece
  <2>4. b = 0
    BY <1>4, <2>3, EmptySeq
  <2>5. QED
    BY <1>2, <1>3, <1>4, <2>1, <2>2, <2>4 DEF Checked, Followed
<1>7. CASE f.do = "int"
  <2>0. f.do \in Named
    BY <1>7 DEF Named
  <2>1. Taken(d, e, f.name, Number(Slice(p, d.pos, f.size)), f.size)
    <3>1. f.name \in Names(t)
      BY <1>1, <2>0
    <3>2. QED
      BY <1>7, <3>1, IntIs
  <2>2. PICK n \in Nat, size \in Nat : n = m[f.name] /\ size = f.size /\ Shifted(n, size)[size] = 0
    <3>1. m[f.name] \in Nat /\ Shifted(m[f.name], f.size)[f.size] = 0
      BY <1>7, FieldIs
    <3>2. QED
      BY <1>1, <3>1
  <2>3. y = Bytes(n, size)
    BY <1>1, <1>3, <1>7, <2>0, <2>2 DEF Piece
  <2>4. b = size
    BY <1>4, <2>2, <2>3, BytesIs
  <2>5. e.pos = a + b
    BY <1>2, <2>1, <2>2, <2>4 DEF Taken
  <2>6. Slice(p, a, b) = y
    BY <1>2, <1>5, <2>5
  <2>7. Number(y) = n
    BY <2>2, <2>3, NumberOfBytes
  <2>8. e.msg = [d.msg EXCEPT ![f.name] = n]
    BY <1>2, <2>1, <2>2, <2>4, <2>6, <2>7 DEF Taken
  <2>9. e.pos = Len(x) + Len(Piece(m, f))
    BY <1>2, <1>3, <1>4, <2>5
  <2>10. QED
    BY <2>0, <2>2, <2>8, <2>9 DEF Followed
<1>8. CASE f.do = "block"
  <2>1. Taken(d, e, f.name, Slice(p, d.pos, f.size), f.size) /\ f.do \in Named
    BY <1>1, <1>8, BlockIs DEF Named
  <2>2. y = m[f.name] /\ b = f.size
    BY <1>1, <1>3, <1>4, <1>8, <2>1, FieldIs DEF Piece
  <2>3. e.pos = a + b
    BY <1>2, <2>1, <2>2 DEF Taken
  <2>4. Slice(p, a, b) = y
    BY <1>2, <1>5, <2>3
  <2>5. QED
    BY <1>2, <1>3, <1>4, <2>1, <2>2, <2>3, <2>4 DEF Taken, Followed
<1>9. CASE f.do = "rest"
  <2>1. Taken(d, e, f.name, Slice(p, d.pos, Len(p) - d.pos), Len(p) - d.pos) /\ f.do \in Named
    BY <1>1, <1>9, RestIs DEF Named
  <2>2. l = a + b
    BY <1>2, <1>3, <1>4, <1>9
  <2>3. PICK left \in Nat : left = Len(p) - d.pos /\ left = b
    BY <1>2, <2>2
  <2>4. y = m[f.name]
    BY <1>1, <1>3, <1>9, <2>1 DEF Piece
  <2>5. e.pos = a + b
    BY <1>2, <2>1, <2>3 DEF Taken
  <2>6. Slice(p, a, b) = y
    BY <1>2, <1>5, <2>2
  <2>7. e.msg = [d.msg EXCEPT ![f.name] = m[f.name]]
    <3>1. Slice(p, d.pos, Len(p) - d.pos) = m[f.name]
      BY <1>2, <2>3, <2>4, <2>6
    <3>2. QED
      BY <2>1, <3>1 DEF Taken
  <2>8. e.pos = Len(x) + Len(Piece(m, f))
    BY <1>2, <1>3, <1>4, <2>5
  <2>9. QED
    BY <2>1, <2>7, <2>8 DEF Followed
<1>10. CASE f.do = "text"
  <2>1. PICK v \in Seq(Byte), n \in Nat : v = m[f.name] /\ v \in Seq(Byte \ {0}) /\ n = Len(v)
    BY <1>10, FieldIs, LenProperties
  <2>2. f.do \in Named
    BY <1>10 DEF Named
  <2>3. y = Bytes(n, 2) \o v /\ n <= LongestText
    BY <1>1, <1>3, <1>10, <2>1, <2>2 DEF Piece, Sayable
  <2>4. b = 2 + n
    <3>1. PICK two \in Seq(Byte) : two = Bytes(n, 2) /\ Len(two) = 2
      BY BytesIs
    <3>2. Len(two \o v) = Len(two) + Len(v)
      BY ConcatProperties
    <3>3. QED
      BY <1>4, <2>1, <2>3, <3>1, <3>2
  <2>5. TextGood(p, d, f) /\ Taken(d, e, f.name, UpToNul(TextBytes(p, d)), 2 + TextLen(p, d))
    BY <1>1, <1>10, <2>2, TextIs DEF Going
  <2>6. d.pos + 2 <= Len(p) /\ d.pos + 2 + TextLen(p, d) <= Len(p)
    BY <2>5 DEF TextGood
  <2>7. Placed(x, TextPiece(v), q) /\ Len(v) <= LongestText
    BY <1>4, <2>1, <2>3 DEF TextPiece
  <2>8. TextLen(p, d) = n /\ TextBytes(p, d) = v
    <3>1. TextLen(p, d) = Len(v) /\ (d.pos + 2 + Len(v) <= Len(p) => TextBytes(p, d) = v)
      BY <2>6, <2>7, TextRead
    <3>2. QED
      BY <2>1, <2>6, <3>1
  <2>9. UpToNul(v) = v
    BY <2>1, NoNul
  <2>10. e.pos = a + b /\ e.msg = [d.msg EXCEPT ![f.name] = m[f.name]]
    BY <1>2, <2>1, <2>4, <2>5, <2>8, <2>9 DEF Taken
  <2>11. e.pos = Len(x) + Len(Piece(m, f))
    BY <1>2, <1>3, <1>4, <2>10
  <2>12. QED
    BY <2>2, <2>10, <2>11 DEF Followed
<1>11. QED
  BY <1>1, <1>6, <1>7, <1>8, <1>9, <1>10 DEF Named

\* A decoder under way is where the encoder was, with the values it wrote.
Along(t, m, d, size, k) ==
    Going(d) =>
        /\ d.pos = size
        /\ \A j \in 1 .. k : Layout(t)[j].do \in Named => d.msg[Layout(t)[j].name] = m[Layout(t)[j].name]

\* An item keeps it there.
LEMMA ReadAlong ==
  ASSUME NEW t \in Types, NEW m, Typed(t, m), NEW k \in 1 .. Len(Layout(t)),
         NEW d \in Decoder(t), NEW p \in Seq(Byte), NEW q \in Seq(Byte), Agrees(p, q),
         NEW x \in Seq(Byte), Sayable(m, Layout(t)[k]), Placed(x, Piece(m, Layout(t)[k]), q),
         NEW e, e = Read(p, d, Layout(t)[k]), e.pos <= Len(p),
         Layout(t)[k].do = "rest" => Len(p) = Len(x) + Len(Piece(m, Layout(t)[k])),
         Along(t, m, d, Len(x), k - 1)
  PROVE  Along(t, m, e, Len(x) + Len(Piece(m, Layout(t)[k])), k)
<1>1. SUFFICES ASSUME Going(e)
               PROVE  Along(t, m, e, Len(x) + Len(Piece(m, Layout(t)[k])), k)
  BY DEF Along
<1>2. PICK f : f = Layout(t)[k]
  OBVIOUS
<1>3. Going(d)
  <2>1. ASSUME ~Going(d) PROVE e = d
    BY <2>1 DEF Going, Read
  <2>2. QED
    BY <1>1, <2>1
<1>4. d.pos = Len(x) /\ \A j \in 1 .. k - 1 : Layout(t)[j].do \in Named =>
                            d.msg[Layout(t)[j].name] = m[Layout(t)[j].name]
  BY <1>3 DEF Along
<1>5. Followed(m, f, d, e, Len(x) + Len(Piece(m, f)))
  BY <1>1, <1>2, <1>3, <1>4, ReadFollows
<1>6. /\ e.pos = Len(x) + Len(Piece(m, f))
      /\ f.do \in Named => e.msg = [d.msg EXCEPT ![f.name] = m[f.name]]
      /\ f.do \notin Named => e.msg = d.msg
  BY <1>5 DEF Followed
<1>7. DOMAIN d.msg = Names(t)
  BY DEF Decoder
<1>8. ASSUME NEW j \in 1 .. k, Layout(t)[j].do \in Named
      PROVE  e.msg[Layout(t)[j].name] = m[Layout(t)[j].name]
  <2>1. PICK g : g = Layout(t)[j]
    OBVIOUS
  <2>2. g.name \in Names(t)
    <3>1. j \in 1 .. Len(Layout(t))
      BY LayoutLen
    <3>2. QED
      BY <1>8, <2>1, <3>1, ItemIs
  <2>3. j # k => d.msg[g.name] = m[g.name]
    BY <1>4, <1>8, <2>1
  <2>4. j = k => g = f
    BY <1>2, <2>1
  <2>5. CASE f.do \in Named
    <3>1. e.msg[g.name] = IF g.name = f.name THEN m[f.name] ELSE d.msg[g.name]
      BY <1>6, <1>7, <2>2, <2>5
    <3>2. QED
      BY <2>1, <2>3, <2>4, <3>1
  <2>6. CASE f.do \notin Named
    BY <1>6, <1>8, <2>1, <2>3, <2>4, <2>6
  <2>7. QED
    BY <2>5, <2>6
<1>9. QED
  BY <1>2, <1>6, <1>8 DEF Along

\* What is written at a place.
WrittenThere(t, m, w, k, f) ==
    /\ w[k - 1] \in Seq(Byte) /\ w[k] \in Seq(Byte) /\ w[Len(Layout(t))] \in Seq(Byte)
    /\ Sayable(m, f) /\ Piece(m, f) \in Seq(Byte)
    /\ Placed(w[k - 1], Piece(m, f), w[Len(Layout(t))])
    /\ Len(w[k]) = Len(w[k - 1]) + Len(Piece(m, f))

\* At each place stands the piece of its item.
LEMMA WrittenAt ==
  ASSUME NEW t \in Types, NEW m, Typed(t, m), NEW w, Written(t, m, w),
         NEW k \in 1 .. Len(Layout(t)),
         NEW f, f = Layout(t)[k]
  PROVE  WrittenThere(t, m, w, k, f)
<1>1. PICK n \in Nat \ {0} : n = Len(Layout(t))
  BY LayoutLen
<1>0. k \in 1 .. n /\ k \in 0 .. n /\ k - 1 \in 0 .. n /\ n \in 0 .. n
  BY <1>1
<1>2. /\ w \in [0 .. n -> Seq(Byte)] /\ Prefix(w[k], w[n])
      /\ Sayable(m, f) /\ w[k] = w[k - 1] \o Piece(m, f)
  <2>1. w \in [0 .. n -> Seq(Byte)]
    BY <1>1 DEF Written
  <2>2. \A j \in 0 .. n : Prefix(w[j], w[n])
    BY <1>1 DEF Written
  <2>3. \A j \in 1 .. n : Sayable(m, Layout(t)[j]) /\ w[j] = w[j - 1] \o Piece(m, Layout(t)[j])
    BY <1>1 DEF Written
  <2>4. QED
    BY <1>0, <2>1, <2>2, <2>3
<1>3. Piece(m, f) \in Seq(Byte)
  BY FieldIs
<1>4. w[k - 1] \in Seq(Byte) /\ w[k] \in Seq(Byte) /\ w[n] \in Seq(Byte)
  BY <1>0, <1>2
<1>5. PICK x \in Seq(Byte), y \in Seq(Byte) : x = w[k - 1] /\ y = Piece(m, f)
  BY <1>3, <1>4
<1>6. Len(x \o y) = Len(x) + Len(y)
  BY ConcatProperties
<1>7. QED
  BY <1>1, <1>2, <1>3, <1>4, <1>5, <1>6 DEF Placed, WrittenThere

\* And so does a layout as far as the length of what arrives allows.
LEMMA DecodingFollows ==
  ASSUME NEW t \in Types, NEW m, Typed(t, m), NEW w, Written(t, m, w),
         NEW p \in Seq(Byte), Agrees(p, w[Len(Layout(t))]), NEW K \in 0 .. Len(Layout(t)),
         \A k \in 1 .. K : Layout(t)[k].do = "rest" => Len(p) = Len(w[k])
  PROVE  \A k \in 0 .. K : Along(t, m, Decoding(t, p)[k], Len(w[k]), k)
<1>1. PICK n \in Nat \ {0} : n = Len(Layout(t))
  BY LayoutLen
<1>2. PICK at : at = Decoding(t, p)
  OBVIOUS
<1>3. /\ at \in [0 .. n -> Decoder(t)] /\ at[0] = Begun(t)
      /\ \A k \in 1 .. n : at[k] = Read(p, at[k - 1], Layout(t)[k])
  BY <1>1, <1>2, DecodingIs
<1>4. \A k \in 0 .. n : at[k].pos <= Len(p)
  <2>1. PICK plan : Planned(Layout(t), plan)
    BY WireAssumption, LayoutPlanned
  <2>2. QED
    BY <1>1, <1>2, <2>1, AllInside DEF Inside
<1>9. K \in Nat
  BY <1>1
<1> DEFINE T == {k \in 0 .. K : Along(t, m, at[k], Len(w[k]), k)}
<1>5. 0 \in T
  <2>1. w[0] = <<>> /\ Len(<<>>) = 0
    BY EmptySeq DEF Written
  <2>2. at[0].pos = 0
    BY <1>3 DEF Begun
  <2>3. Along(t, m, at[0], Len(w[0]), 0)
    BY <2>1, <2>2 DEF Along
  <2>4. QED
    BY <2>3
<1>6. ASSUME NEW k \in 1 .. K, k - 1 \in T PROVE k \in T
  <2>1. k \in 1 .. n /\ k \in 1 .. Len(Layout(t)) /\ k - 1 \in 0 .. n /\ k \in 0 .. n
    BY <1>1
  <2>0. WrittenThere(t, m, w, k, Layout(t)[k])
    BY <2>1, WrittenAt
  <2>2. PICK x \in Seq(Byte), q \in Seq(Byte) : x = w[k - 1] /\ q = w[n]
    BY <1>1, <2>0 DEF WrittenThere
  <2>3. PICK f : f = Layout(t)[k]
    OBVIOUS
  <2>4. /\ Sayable(m, f) /\ Placed(x, Piece(m, f), q)
        /\ Len(w[k]) = Len(x) + Len(Piece(m, f))
    BY <1>1, <2>0, <2>2, <2>3 DEF WrittenThere
  <2>5. at[k - 1] \in Decoder(t) /\ at[k] = Read(p, at[k - 1], f) /\ at[k].pos <= Len(p)
    BY <1>3, <1>4, <2>1, <2>3
  <2>6. Along(t, m, at[k - 1], Len(x), k - 1)
    BY <1>6, <2>2
  <2>7. f.do = "rest" => Len(p) = Len(x) + Len(Piece(m, f))
    BY <2>3, <2>4
  <2>8. Agrees(p, q)
    BY <1>1, <2>2
  <2>9. Along(t, m, at[k], Len(w[k]), k)
    BY <2>1, <2>3, <2>4, <2>5, <2>6, <2>7, <2>8, ReadAlong
  <2>10. QED
    BY <2>9
<1>7. \A k \in 0 .. K : k \in T
  <2> HIDE DEF T
  <2>1. QED
    BY <1>9, <1>5, <1>6, UpTo
<1>8. QED
  BY <1>2, <1>7

-----------------------------------------------------------------------------
(* Nothing but whole messages is accepted *)

\* A frame, which comes last and has no length before it, is as long as the
\* number says that does.
LEMMA FrameIsWhole ==
  ASSUME NEW t \in Types, t = "TAP_FRAME", NEW m, Typed(t, m), m.frame_len = Len(m.frame),
         NEW w, Written(t, m, w), NEW p \in Seq(Byte), Agrees(p, w[Len(Layout(t))]),
         NEW d, d = Decoding(t, p)[Len(Layout(t))], Going(d), Acceptable(t, d.msg)
  PROVE  Len(p) = Len(w[Len(Layout(t))])
<1>1. PICK L : L = Layout(t)
  OBVIOUS
<1>2. Len(L) = 4 /\ L[1] = Need(6) /\ L[2] = Num("network_id", 4) /\ L[3] = Num("frame_len", 2)
      /\ L[4] = Rest("frame")
  BY <1>1 DEF Layout, TapFrame
<1>3. PICK c : c = Decoding(t, p)[3]
  OBVIOUS
<1>4. c \in Decoder(t) /\ d = Read(p, c, L[4]) /\ d \in Decoder(t)
  <2>1. 3 \in 0 .. 4 /\ 4 \in 0 .. 4 /\ 4 \in 1 .. 4 /\ 4 - 1 = 3
    OBVIOUS
  <2>2. PICK at : at = Decoding(t, p)
    OBVIOUS
  <2>3. at \in [0 .. 4 -> Decoder(t)] /\ \A k \in 1 .. 4 : at[k] = Read(p, at[k - 1], L[k])
    BY <1>1, <1>2, <2>2, DecodingIs
  <2>4. c = at[3] /\ d = at[4]
    BY <1>1, <1>2, <1>3, <2>2
  <2>5. QED
    BY <2>1, <2>3, <2>4
<1>5. Going(c)
  <2>1. ASSUME ~Going(c) PROVE d = c
    BY <1>4, <2>1 DEF Going, Read
  <2>2. QED
    BY <2>1
<1>6. Along(t, m, c, Len(w[3]), 3)
  <2>1. ASSUME NEW k \in 1 .. 3 PROVE L[k].do # "rest"
    <3>1. k = 1 \/ k = 2 \/ k = 3
      OBVIOUS
    <3>2. QED
      BY <1>2, <3>1, KindsAre
  <2>2. \A k \in 1 .. 3 : Layout(t)[k].do = "rest" => Len(p) = Len(w[k])
    BY <1>1, <2>1
  <2>3. 3 \in 0 .. Len(Layout(t)) /\ 3 \in 0 .. 3
    BY <1>1, <1>2
  <2>4. \A k \in 0 .. 3 : Along(t, m, Decoding(t, p)[k], Len(w[k]), k)
    BY <2>2, <2>3, DecodingFollows
  <2>5. QED
    BY <1>3, <2>3, <2>4
<1>7. c.pos = Len(w[3]) /\ c.msg["frame_len"] = m["frame_len"]
  <2>1. 3 \in 1 .. 3 /\ L[3].do \in Named /\ L[3].name = "frame_len"
    BY <1>2, KindsAre DEF Named
  <2>2. QED
    BY <1>1, <1>5, <1>6, <2>1 DEF Along
<1>8. "frame" \in Names(t) /\ L[4].do = "rest" /\ L[4].name = "frame"
  <2>1. L[4].do = "rest" /\ L[4].name = "frame" /\ L[4].do \in Named
    BY <1>2, KindsAre DEF Named
  <2>2. 4 \in 1 .. Len(Layout(t))
    BY <1>1, <1>2
  <2>3. QED
    BY <1>1, <2>1, <2>2, ItemIs
<1>9. Taken(c, d, "frame", Slice(p, c.pos, Len(p) - c.pos), Len(p) - c.pos)
  BY <1>4, <1>5, <1>8, RestIs
<1>10. c.pos \in Nat /\ c.pos <= Len(p) /\ Len(p) \in Nat /\ DOMAIN c.msg = Names(t)
  <2>1. PICK plan : Planned(Layout(t), plan)
    BY WireAssumption, LayoutPlanned
  <2>2. 3 \in 0 .. Len(Layout(t))
    BY <1>1, <1>2
  <2>3. QED
    BY <1>3, <1>4, <2>1, <2>2, AllInside, LenProperties DEF Inside, Decoder
<1>11. PICK left \in Nat : left = Len(p) - c.pos
  BY <1>10
<1>12. Len(d.msg["frame"]) = left
  <2>1. d.msg = [c.msg EXCEPT !["frame"] = Slice(p, c.pos, left)]
    BY <1>9, <1>11 DEF Taken
  <2>2. d.msg["frame"] = Slice(p, c.pos, left)
    <3>1. PICK u, v : u = c.msg /\ v = Slice(p, c.pos, left)
      OBVIOUS
    <3>2. DOMAIN u = Names(t) /\ d.msg = [u EXCEPT !["frame"] = v]
      BY <1>10, <2>1, <3>1
    <3>3. QED
      BY <1>8, <3>1, <3>2
  <2>3. Len(Slice(p, c.pos, left)) = left
    BY <1>10, SliceIs
  <2>4. QED
    BY <2>2, <2>3
<1>13. d.msg["frame_len"] = m["frame_len"]
  <2>1. L[3].do \in Named /\ L[3].name = "frame_len" /\ 3 \in 1 .. Len(Layout(t))
    BY <1>1, <1>2, KindsAre DEF Named
  <2>2. "frame_len" \in Names(t)
    BY <1>1, <2>1, ItemIs
  <2>3. d.msg["frame_len"] = c.msg["frame_len"]
    BY <1>9, <1>10, <2>2 DEF Taken
  <2>4. QED
    BY <1>7, <2>3
<1>14. Len(m["frame"]) = left
  BY <1>12, <1>13 DEF Acceptable
<1>15. Len(w[4]) = Len(w[3]) + Len(m["frame"])
  <2>1. 4 \in 1 .. Len(Layout(t)) /\ 4 - 1 = 3
    BY <1>1, <1>2
  <2>2. WrittenThere(t, m, w, 4, L[4])
    BY <1>1, <2>1, WrittenAt
  <2>3. Piece(m, L[4]) = m["frame"]
    BY <1>8 DEF Piece
  <2>4. QED
    BY <2>1, <2>2, <2>3 DEF WrittenThere
<1>16. Len(w[4]) = Len(p)
  <2>1. PICK a \in Nat, l \in Nat : a = c.pos /\ l = Len(p) /\ left = l - a
    BY <1>10, <1>11
  <2>2. Len(w[3]) = a
    BY <1>7, <2>1
  <2>4. Len(w[4]) = a + left
    BY <1>14, <1>15, <2>2
  <2>5. a + left = l
    BY <2>1
  <2>6. QED
    BY <2>1, <2>4, <2>5
<1>17. QED
  BY <1>1, <1>2, <1>16

\* What is accepted and agrees with what was written is as long as it.
LEMMA AcceptedIsWhole ==
  ASSUME NEW t \in Types, t # "SOCKS_DATA", NEW m \in Messages[t], Encode(t, m).ok,
         NEW p \in Seq(Byte), Agrees(p, Encode(t, m).bytes),
         NEW d, d = Decoding(t, p)[Len(Layout(t))], Going(d), Acceptable(t, d.msg)
  PROVE  Len(p) = Len(Encode(t, m).bytes)
<1>1. PICK n \in Nat \ {0} : n = Len(Layout(t))
  BY LayoutLen
<1>2. Typed(t, m)
  BY MessageTyped
<1>3. PICK w : Written(t, m, w)
  BY <1>2, WrittenIs
<1>4. w[n] = Encode(t, m).bytes
  BY <1>1, <1>3 DEF Written
<1>5. Agrees(p, w[n])
  BY <1>4
<1>6. CASE t = "TAP_FRAME"
  <2>1. m.frame_len = Len(m.frame)
    BY <1>6, MessagesAssumption
  <2>2. QED
    BY <1>1, <1>2, <1>3, <1>4, <1>5, <1>6, <2>1, FrameIsWhole
<1>7. CASE t # "TAP_FRAME"
  <2>1. \A k \in 1 .. n : Layout(t)[k].do # "rest"
    BY <1>1, <1>7, WireAssumption, RestIsLast
  <2>2. \A k \in 1 .. n : Layout(t)[k].do = "rest" => Len(p) = Len(w[k])
    BY <2>1
  <2>3. n \in 0 .. Len(Layout(t)) /\ n \in 0 .. n
    BY <1>1
  <2>4. \A k \in 0 .. n : Along(t, m, Decoding(t, p)[k], Len(w[k]), k)
    BY <1>1, <1>2, <1>3, <1>5, <2>2, <2>3, DecodingFollows
  <2>5. Along(t, m, d, Len(w[n]), n)
    BY <1>1, <2>3, <2>4
  <2>6. d.pos = Len(w[n])
    BY <2>5 DEF Along
  <2>7. d.pos = Len(p)
    BY DecodeInside DEF Going
  <2>8. QED
    BY <1>4, <2>6, <2>7
<1>8. QED
  BY <1>6, <1>7

\* What lost its end or has a byte too many agrees with what was sent, and has
\* another length.
LEMMA CutOrLongerIs ==
  ASSUME WireInv, sent # NotYet, changed \in {"cut", "longer"}
  PROVE  Agrees(payload, sent.bytes) /\ Len(payload) # Len(sent.bytes)
<1>1. PICK q \in Seq(Byte) : q = sent.bytes
  <2>1. type \in Types /\ msg \in Messages[type] /\ sent.bytes = Encode(type, msg).bytes
    BY DEF WireInv, Travelling
  <2>2. Encode(type, msg) \in Buffer
    BY <2>1, EncodeTyped
  <2>3. QED
    BY <2>1, <2>2 DEF Buffer
<1>2. PICK l \in Nat : l = Len(q)
  BY LenProperties
<1>3. CASE changed = "cut"
  <2>1. PICK n \in Nat : n < l /\ payload = SubSeq(q, 1, n)
    BY <1>1, <1>2, <1>3 DEF WireInv, Arriving
  <2>2. \A i \in 1 .. n : q[i] \in Byte
    BY <1>2, <2>1, ElementOfSeq
  <2>3. Len(payload) = n /\ \A i \in 1 .. n : payload[i] = q[i]
    BY <1>2, <2>1, <2>2, SubSeqProperties
  <2>4. QED
    BY <1>1, <1>2, <2>1, <2>3 DEF Agrees
<1>4. CASE changed = "longer"
  <2>1. PICK b \in Byte : payload = Append(q, b)
    BY <1>1, <1>4 DEF WireInv, Arriving
  <2>2. Len(payload) = l + 1 /\ \A i \in 1 .. l : payload[i] = q[i]
    BY <1>2, <2>1, AppendProperties
  <2>3. QED
    BY <1>1, <1>2, <2>2 DEF Agrees
<1>5. QED
  BY <1>3, <1>4

\* So nothing but a whole message is taken for one.
LEMMA OnlyWholeMessagesFollows == WireInv => OnlyWholeMessages
<1> SUFFICES ASSUME WireInv, Received, changed \in {"cut", "longer"}, got.ok,
                    type # "SOCKS_DATA", ~ShortForm
             PROVE  FALSE
  BY DEF OnlyWholeMessages
<1>1. /\ type \in Types /\ msg \in Messages[type] /\ payload \in Seq(Byte)
      /\ sent # NotYet /\ sent.ok /\ got = Decode(type, payload)
  BY DEF Received, WireInv, Travelling, Arriving
<1>2. Encode(type, msg).ok /\ sent.bytes = Encode(type, msg).bytes
  BY <1>1 DEF WireInv, Travelling
<1>3. Agrees(payload, Encode(type, msg).bytes) /\ Len(payload) # Len(Encode(type, msg).bytes)
  BY <1>1, <1>2, CutOrLongerIs
<1>4. PICK d : d = Decoding(type, payload)[Len(Layout(type))]
  OBVIOUS
<1>5. /\ d.ok /\ Acceptable(type, d.msg) /\ d.pos = Len(payload) /\ ~d.over
      /\ got.pos = d.pos /\ got.ended = d.ended
  BY <1>1, <1>4, DecodeInside, DecodeIs
<1>6. ~d.ended
  BY <1>5 DEF ShortForm
<1>7. Len(payload) = Len(Encode(type, msg).bytes)
  BY <1>1, <1>2, <1>3, <1>4, <1>5, <1>6, AcceptedIsWhole DEF Going
<1>8. QED
  BY <1>3, <1>7

\* A payload that lost its end or has a byte too many is refused.
THEOREM HalfMessagesAreRefused == Spec => []OnlyWholeMessages
<1>1. QED
  BY WireInductive, OnlyWholeMessagesFollows, PTL

-----------------------------------------------------------------------------
(* What arrives as it was sent *)

\* How long the pieces are.
PieceLen(m, f) ==
    /\ f.do \in {"int", "block"} => Len(Piece(m, f)) = f.size
    /\ f.do = "text" => Len(Piece(m, f)) = 2 + Len(m[f.name])
    /\ f.do = "rest" => Piece(m, f) = m[f.name]
    /\ f.do \notin Named => Len(Piece(m, f)) = 0

\* The length of a piece.
LEMMA PieceLenIs ==
  ASSUME NEW t \in Types, NEW m, Typed(t, m), NEW k \in 1 .. Len(Layout(t)), NEW f, f = Layout(t)[k]
  PROVE  PieceLen(m, f)
<1>1. /\ f.do \in Named \cup {"need", "exactly", "end"} /\ f.size \in Nat
      /\ f.do \in Named => f.name # ""
      /\ f.do \notin Named => f.name = ""
  BY ItemIs
<1>2. PICK y \in Seq(Byte) : y = Piece(m, f)
  BY FieldIs
<1>3. CASE f.do = "int"
  <2>1. PICK n \in Nat, size \in Nat : n = m[f.name] /\ size = f.size
    <3>1. m[f.name] \in Nat
      BY <1>3, FieldIs
    <3>2. QED
      BY <1>1, <3>1
  <2>2. y = Bytes(n, size)
    BY <1>1, <1>2, <1>3, <2>1 DEF Piece, Named
  <2>3. Len(y) = size
    BY <2>2, BytesIs
  <2>4. QED
    BY <1>2, <1>3, <2>1, <2>3 DEF PieceLen, Named
<1>4. CASE f.do = "block"
  <2>1. Len(m[f.name]) = f.size
    BY <1>4, FieldIs
  <2>2. Piece(m, f) = m[f.name]
    BY <1>1, <1>4 DEF Piece, Named
  <2>3. QED
    BY <1>4, <2>1, <2>2 DEF PieceLen, Named
<1>5. CASE f.do = "text"
  <2>1. PICK v \in Seq(Byte) : v = m[f.name]
    BY <1>5, FieldIs
  <2>2. PICK two \in Seq(Byte) : two = Bytes(Len(v), 2) /\ Len(two) = 2
    <3>1. Len(v) \in Nat
      BY LenProperties
    <3>2. QED
      BY <3>1, BytesIs
  <2>3. y = two \o v
    BY <1>1, <1>2, <1>5, <2>1, <2>2 DEF Piece, Named
  <2>4. Len(two \o v) = Len(two) + Len(v)
    BY ConcatProperties
  <2>5. Len(y) = 2 + Len(v)
    BY <2>2, <2>3, <2>4
  <2>6. QED
    BY <1>2, <1>5, <2>1, <2>5 DEF PieceLen, Named
<1>6. CASE f.do = "rest"
  <2>1. Piece(m, f) = m[f.name]
    BY <1>1, <1>6 DEF Piece, Named
  <2>2. QED
    BY <1>6, <2>1 DEF PieceLen, Named
<1>7. CASE f.do \notin Named
  <2>1. Piece(m, f) = <<>> /\ Len(<<>>) = 0
    BY <1>1, <1>7, EmptySeq DEF Piece
  <2>2. QED
    BY <1>7, <2>1 DEF PieceLen, Named
<1>8. QED
  BY <1>1, <1>3, <1>4, <1>5, <1>6, <1>7 DEF Named

\* Data is at least one byte.
LEMMA DataIsSomething ==
  ASSUME NEW t \in Types, NEW m, Encodable(t, m), NEW k \in 1 .. Len(Layout(t)), NEW f,
         f = Layout(t)[k],
         f.do = "rest", f.name = "data"
  PROVE  Len(m[f.name]) >= 1
<1>1. t \in {"TAP_FRAME", "SOCKS_DATA"}
  BY WireAssumption, RestIsLast
<1>2. t # "TAP_FRAME"
  <2>1. SUFFICES ASSUME t = "TAP_FRAME" PROVE FALSE
    OBVIOUS
  <2>2. PICK L : L = Layout(t)
    OBVIOUS
  <2>3. /\ Len(L) = 4 /\ L[1] = Need(6) /\ L[2] = Num("network_id", 4) /\ L[3] = Num("frame_len", 2)
        /\ L[4] = Rest("frame")
    BY <2>1, <2>2 DEF Layout, TapFrame
  <2>4. k = 1 \/ k = 2 \/ k = 3 \/ k = 4
    BY <2>2, <2>3
  <2>5. f.do # "rest" \/ f.name = "frame"
    BY <2>2, <2>3, <2>4, KindsAre
  <2>6. QED
    BY <2>5
<1>3. Len(m.data) \in 1 .. MaxSocks - 4 /\ MaxSocks \in Nat
  BY <1>1, <1>2, WireAssumption DEF Encodable
<1>4. Len(m.data) >= 1
  BY <1>3
<1>5. QED
  BY <1>4

\* As much is left at each place as the plan says.
Left(left, a) == left \in Nat /\ left >= a.ahead /\ (a.known = "exact" => left = a.room)

\* What is left before an item is what is left behind it and the item's piece.
LEMMA LeftBefore ==
  ASSUME NEW t \in Types, NEW m, Typed(t, m), Encodable(t, m), NEW k \in 1 .. Len(Layout(t)),
         NEW f, f = Layout(t)[k], NEW a, NEW b, Sound(f, a, b), NEW left \in Nat, Left(left, b)
  PROVE  Left(left + Len(Piece(m, f)), a)
<1>1. f.do \in Named \cup {"need", "exactly", "end"} /\ f.size \in Nat
  BY ItemIs
<1>2. PieceLen(m, f)
  BY PieceLenIs
<1>3. PICK n \in Nat : n = Len(Piece(m, f))
  <2>1. Piece(m, f) \in Seq(Byte)
    BY FieldIs
  <2>2. QED
    BY <2>1, LenProperties
<1>4. a.ahead \in Nat /\ b.ahead \in Nat /\ a.room \in Nat /\ b.room \in Nat
  BY DEF Sound
<1>5. left >= b.ahead /\ (b.known = "exact" => left = b.room)
  BY DEF Left
<1>6. CASE f.do \notin Named
  <2>1. n = 0
    BY <1>2, <1>3, <1>6 DEF PieceLen
  <2>2. a.known = "least" /\ a.ahead = b.ahead
    BY <1>1, <1>6 DEF Sound
  <2>3. QED
    BY <1>3, <1>4, <1>5, <2>1, <2>2 DEF Left
<1>7. CASE f.do \in {"int", "block"}
  <2>1. n = f.size
    BY <1>2, <1>3, <1>7 DEF PieceLen
  <2>2. a.room = f.size + b.room /\ b.known = a.known /\ a.ahead = f.size + b.ahead
    BY <1>7 DEF Sound
  <2>3. PICK s \in Nat : s = f.size
    BY <1>1
  <2>4. PICK r \in Nat, h \in Nat : /\ r = b.room /\ h = b.ahead
                                   /\ a.room = s + r /\ a.ahead = s + h /\ n = s
    BY <1>4, <2>1, <2>2, <2>3
  <2>5. left + n \in Nat /\ left + n >= a.ahead /\ (a.known = "exact" => left + n = a.room)
    <3>1. left >= h /\ (a.known = "exact" => left = r)
      BY <1>5, <2>2, <2>4
    <3>2. left + s \in Nat /\ left + s >= s + h /\ (left = r => left + s = s + r)
      BY <3>1
    <3>3. QED
      BY <2>4, <3>1, <3>2
  <2>6. QED
    BY <1>3, <2>5 DEF Left
<1>8. CASE f.do = "text"
  <2>1. PICK l \in Nat : l = Len(m[f.name]) /\ n = 2 + l
    <3>1. m[f.name] \in Seq(Byte)
      BY <1>8, FieldIs
    <3>2. Len(m[f.name]) \in Nat
      BY <3>1, LenProperties
    <3>3. QED
      BY <1>2, <1>3, <1>8, <3>2 DEF PieceLen
  <2>2. a.known = "least" /\ a.ahead = 2 + b.ahead
    BY <1>8 DEF Sound
  <2>3. QED
    BY <1>3, <1>4, <1>5, <2>1, <2>2 DEF Left
<1>9. CASE f.do = "rest"
  <2>1. f.name = "data" => n >= 1
    BY <1>2, <1>3, <1>9, DataIsSomething DEF PieceLen
  <2>2. a.known = "least" /\ a.ahead = b.ahead + IF f.name = "data" THEN 1 ELSE 0
    BY <1>9 DEF Sound
  <2>3. QED
    BY <1>3, <1>4, <1>5, <2>1, <2>2 DEF Left
<1>10. QED
  BY <1>1, <1>6, <1>7, <1>8, <1>9 DEF Named

\* So as much is left at each place as its plan says.
LEMMA LeftIs ==
  ASSUME NEW t \in Types, NEW m, Typed(t, m), Encodable(t, m), NEW w, Written(t, m, w),
         NEW plan, Planned(Layout(t), plan)
  PROVE  \A k \in 0 .. Len(Layout(t)) : Left(Len(w[Len(Layout(t))]) - Len(w[k]), plan[k + 1])
<1>1. PICK n \in Nat \ {0} : n = Len(Layout(t))
  BY LayoutLen
<1>2. PICK u : u = [k \in 0 .. n |-> Len(w[k])]
  OBVIOUS
<1>3. u \in [0 .. n -> Nat] /\ \A k \in 0 .. n : u[k] = Len(w[k])
  <2>1. w \in [0 .. n -> Seq(Byte)]
    BY <1>1 DEF Written
  <2>2. \A k \in 0 .. n : Len(w[k]) \in Nat
    BY <2>1, LenProperties
  <2>3. QED
    BY <1>2, <2>2
<1> DEFINE T == {k \in 0 .. n : Left(u[n] - u[k], plan[k + 1])}
<1>4. n \in T
  <2>1. plan[n + 1] = P(0, "exact", 0)
    BY <1>1 DEF Planned
  <2>2. u[n] - u[n] = 0
    BY <1>3
  <2>3. Left(0, plan[n + 1])
    BY <2>1 DEF Left, P
  <2>4. QED
    BY <2>2, <2>3
<1>5. ASSUME NEW k \in 1 .. n, k \in T PROVE k - 1 \in T
  <2>1. k \in 1 .. Len(Layout(t)) /\ k - 1 \in 0 .. n /\ (k - 1) + 1 = k /\ k \in 0 .. n
    BY <1>1
  <2>2. PICK f : f = Layout(t)[k]
    OBVIOUS
  <2>3. WrittenThere(t, m, w, k, f)
    BY <2>1, <2>2, WrittenAt
  <2>4. u[k] = u[k - 1] + Len(Piece(m, f))
    BY <1>3, <2>1, <2>3 DEF WrittenThere
  <2>5. PICK l \in Nat : l = Len(Piece(m, f))
    BY <2>3, LenProperties DEF WrittenThere
  <2>6. Left(u[n] - u[k], plan[k + 1])
    BY <1>5
  <2>7. PICK left \in Nat : left = u[n] - u[k]
    BY <2>6 DEF Left
  <2>8. Sound(f, plan[k], plan[k + 1])
    BY <2>1, <2>2 DEF Planned
  <2>9. Left(left + Len(Piece(m, f)), plan[k])
    <3>1. PICK a : a = plan[k]
      OBVIOUS
    <3>2. PICK b : b = plan[k + 1]
      OBVIOUS
    <3>3. Left(left, b) /\ Sound(f, a, b)
      BY <2>6, <2>7, <2>8, <3>1, <3>2
    <3>4. Left(left + Len(Piece(m, f)), a)
      BY <2>1, <2>2, <3>3, LeftBefore
    <3>5. QED
      BY <3>1, <3>4
  <2>10. left + l = u[n] - u[k - 1]
    <3>1. PICK x \in Nat, y \in Nat, z \in Nat : x = u[k - 1] /\ y = u[k] /\ z = u[n]
      BY <1>3, <2>1
    <3>2. y = x + l /\ left = z - y
      BY <2>4, <2>5, <2>7, <3>1
    <3>3. left + l = z - x
      BY <3>2
    <3>4. QED
      BY <3>1, <3>3
  <2>11. QED
    BY <2>1, <2>5, <2>9, <2>10
<1>6. \A k \in 0 .. n : k \in T
  <2> HIDE DEF T
  <2>1. QED
    BY <1>4, <1>5, DownTo
<1>7. ASSUME NEW k \in 0 .. n PROVE Left(Len(w[n]) - Len(w[k]), plan[k + 1])
  <2>1. u[n] = Len(w[n]) /\ u[k] = Len(w[k])
    BY <1>3
  <2>2. Left(u[n] - u[k], plan[k + 1])
    BY <1>6
  <2>3. QED
    BY <2>1, <2>2
<1>8. QED
  BY <1>1, <1>7

\* A text that fits in its array with its NUL; other fields fit always.
Fits(m, f) == f.do = "text" => Len(m[f.name]) < f.size

\* With that much left an item is read if it fits, and refused if not.
LEMMA ReadSucceeds ==
  ASSUME NEW t \in Types, NEW m, Typed(t, m), NEW k \in 1 .. Len(Layout(t)), NEW f,
         f = Layout(t)[k],
         NEW a, NEW b, Sound(f, a, b), NEW d \in Decoder(t), Going(d),
         NEW p \in Seq(Byte), NEW x \in Seq(Byte), d.pos = Len(x), Sayable(m, f),
         Placed(x, Piece(m, f), p), Left(Len(p) - Len(x), a),
         Left(Len(p) - (Len(x) + Len(Piece(m, f))), b), NEW e, e = Read(p, d, f)
  PROVE  IF Fits(m, f) THEN Going(e) ELSE ~e.ok
<1>1. /\ f.do \in Named \cup {"need", "exactly", "end"} /\ f.size \in Nat
      /\ f.do \in Named => f.name \in Names(t)
  BY ItemIs
<1>2. PICK u \in Nat, l \in Nat, n \in Nat : u = Len(x) /\ l = Len(p) /\ n = Len(Piece(m, f))
  <2>1. Piece(m, f) \in Seq(Byte)
    BY FieldIs
  <2>2. QED
    BY <2>1, LenProperties
<1>3. PieceLen(m, f)
  BY PieceLenIs
<1>4. l - u >= a.ahead /\ (l - (u + n)) \in Nat /\ (b.known = "exact" => l - (u + n) = b.room)
  BY <1>2 DEF Left
<1>5. a.ahead \in Nat /\ b.room \in Nat
  BY DEF Sound
<1>6. CASE f.do = "need"
  <2>1. f.size <= a.ahead
    BY <1>6 DEF Sound
  <2>2. Checked(d, e) /\ ~e.ended /\ (e.ok <=> Len(p) - d.pos >= f.size)
    BY <1>6, NeedIs
  <2>3. Len(p) - d.pos >= f.size
    BY <1>1, <1>2, <1>4, <1>5, <2>1
  <2>4. QED
    BY <1>6, <2>2, <2>3 DEF Checked, Going, Fits
<1>7. CASE f.do = "exactly"
  <2>1. b.room = f.size /\ b.known = "exact"
    BY <1>7 DEF Sound
  <2>2. Checked(d, e) /\ ~e.ended /\ (e.ok <=> Len(p) - d.pos = f.size)
    BY <1>7, ExactlyIs
  <2>3. n = 0
    BY <1>2, <1>3, <1>7 DEF PieceLen, Named
  <2>4. Len(p) - d.pos = f.size
    BY <1>1, <1>2, <1>4, <1>5, <2>1, <2>3
  <2>5. QED
    BY <1>7, <2>2, <2>4 DEF Checked, Going, Fits
<1>8. CASE f.do = "end"
  <2>1. a.ahead > 0
    BY <1>8 DEF Sound
  <2>2. Checked(d, e) /\ e.ok /\ (e.ended <=> Len(p) - d.pos = 0)
    BY <1>8, EndIs
  <2>3. Len(p) - d.pos # 0
    BY <1>2, <1>4, <1>5, <2>1
  <2>4. QED
    BY <1>8, <2>2, <2>3 DEF Checked, Going, Fits
<1>9. CASE f.do \in {"int", "block", "rest"}
  <2>1. f.name \in Names(t)
    BY <1>1, <1>9 DEF Named
  <2>2. \E v, size : Taken(d, e, f.name, v, size)
    BY <1>9, <2>1, IntIs, BlockIs, RestIs
  <2>3. QED
    BY <1>9, <2>2 DEF Taken, Going, Fits
<1>10. CASE f.do = "text"
  <2>1. f.do \in Named /\ f.name \in Names(t)
    BY <1>1, <1>10 DEF Named
  <2>2. PICK v \in Seq(Byte), h \in Nat : v = m[f.name] /\ h = Len(v)
    <3>1. m[f.name] \in Seq(Byte)
      BY <1>10, FieldIs
    <3>2. QED
      BY <3>1, LenProperties
  <2>3. n = 2 + h /\ h <= LongestText
    BY <1>2, <1>3, <1>10, <2>2 DEF PieceLen, Sayable
  <2>4. Piece(m, f) = TextPiece(v)
    <3>1. f.name # ""
      BY <2>1, ItemIs
    <3>2. QED
      BY <1>10, <2>2, <3>1 DEF Piece, TextPiece
  <2>5. u + 2 <= l /\ u + 2 + h <= l
    <3>1. PICK r \in Nat : r = l - (u + n)
      BY <1>4
    <3>2. u + n <= l
      BY <1>2, <3>1
    <3>3. u + (2 + h) <= l
      BY <2>3, <3>2
    <3>4. u + (2 + h) = u + 2 + h /\ u + 2 <= u + 2 + h
      OBVIOUS
    <3>5. QED
      BY <3>3, <3>4
  <2>6. TextLen(p, d) = h
    <3>1. Agrees(p, p)
      BY DEF Agrees
    <3>2. Placed(x, TextPiece(v), p) /\ Len(v) <= LongestText /\ d.pos + 2 <= Len(p)
      BY <1>2, <2>2, <2>3, <2>4, <2>5
    <3>3. TextLen(p, d) = Len(v)
      BY <3>1, <3>2, TextRead
    <3>4. QED
      BY <2>2, <3>3
  <2>7. TextGood(p, d, f) <=> Fits(m, f)
    BY <1>2, <1>10, <2>2, <2>5, <2>6 DEF TextGood, Fits
  <2>8. CASE Fits(m, f)
    <3>1. TextGood(p, d, f)
      BY <2>7, <2>8
    <3>2. Taken(d, e, f.name, UpToNul(TextBytes(p, d)), 2 + TextLen(p, d))
      BY <1>1, <1>10, <2>1, <3>1, TextIs
    <3>3. QED
      BY <2>8, <3>2 DEF Taken, Going
  <2>9. CASE ~Fits(m, f)
    <3>1. ~TextGood(p, d, f)
      BY <2>7, <2>9
    <3>2. ~e.ok
      BY <1>1, <1>10, <2>1, <3>1, TextIs
    <3>3. QED
      BY <2>9, <3>2
  <2>10. QED
    BY <2>8, <2>9
<1>11. QED
  BY <1>1, <1>6, <1>7, <1>8, <1>9, <1>10 DEF Named

\* What is decoded of what was written: all fits, or something does not and it
\* is refused.
Accepted(t, m, d, k) ==
    IF \A j \in 1 .. k : Fits(m, Layout(t)[j]) THEN Going(d) ELSE ~d.ok

\* The decoder goes on as long as the texts fit in their arrays, and no further.
LEMMA DecodingSucceeds ==
  ASSUME NEW t \in Types, NEW m, Typed(t, m), Encodable(t, m), NEW w, Written(t, m, w),
         NEW p, p = w[Len(Layout(t))]
  PROVE  \A k \in 0 .. Len(Layout(t)) :
            /\ Accepted(t, m, Decoding(t, p)[k], k)
            /\ Along(t, m, Decoding(t, p)[k], Len(w[k]), k)
<1>1. PICK n \in Nat \ {0} : n = Len(Layout(t))
  BY LayoutLen
<1>2. PICK plan : Planned(Layout(t), plan)
  BY WireAssumption, LayoutPlanned
<1>3. p \in Seq(Byte) /\ p = w[n]
  <2>1. 1 \in 1 .. Len(Layout(t))
    BY <1>1
  <2>2. WrittenThere(t, m, w, 1, Layout(t)[1])
    BY <2>1, WrittenAt
  <2>3. QED
    BY <1>1, <2>2 DEF WrittenThere
<1>4. PICK at : at = Decoding(t, p)
  OBVIOUS
<1>5. /\ at \in [0 .. n -> Decoder(t)] /\ at[0] = Begun(t)
      /\ \A k \in 1 .. n : at[k] = Read(p, at[k - 1], Layout(t)[k])
  BY <1>1, <1>3, <1>4, DecodingIs
<1>6. \A k \in 0 .. n : Along(t, m, at[k], Len(w[k]), k)
  <2>1. \A k \in 1 .. n : Layout(t)[k].do = "rest" => k = n
    BY <1>1, <1>2 DEF Planned
  <2>2. \A k \in 1 .. n : Layout(t)[k].do = "rest" => Len(p) = Len(w[k])
    BY <1>3, <2>1
  <2>3. Agrees(p, w[n]) /\ n \in 0 .. Len(Layout(t))
    BY <1>1, <1>3 DEF Agrees
  <2>4. QED
    BY <1>1, <1>3, <1>4, <2>2, <2>3, DecodingFollows
<1> DEFINE T == {k \in 0 .. n : Accepted(t, m, at[k], k)}
<1>7. 0 \in T
  <2>1. Going(at[0])
    BY <1>5 DEF Begun, Going
  <2>2. QED
    BY <2>1 DEF Accepted
<1>8. ASSUME NEW k \in 1 .. n, k - 1 \in T PROVE k \in T
  <2>1. k \in 1 .. Len(Layout(t)) /\ k - 1 \in 0 .. n /\ k \in 0 .. n /\ (k - 1) + 1 = k
    BY <1>1
  <2>2. PICK f, d, e : f = Layout(t)[k] /\ d = at[k - 1] /\ e = at[k]
    OBVIOUS
  <2>3. d \in Decoder(t) /\ e = Read(p, d, f)
    BY <1>5, <2>1, <2>2
  <2>4. Accepted(t, m, d, k - 1)
    BY <1>8, <2>2
  <2>5. ASSUME ~Going(d) PROVE ~d.ok /\ e = d /\ ~(\A j \in 1 .. k : Fits(m, Layout(t)[j]))
    <3>1. ~(\A j \in 1 .. k - 1 : Fits(m, Layout(t)[j])) /\ ~d.ok
      BY <2>4, <2>5 DEF Accepted
    <3>2. e = d
      BY <2>3, <2>5 DEF Going, Read
    <3>3. QED
      BY <3>1, <3>2
  <2>6. ASSUME Going(d) PROVE (\A j \in 1 .. k - 1 : Fits(m, Layout(t)[j]))
                              /\ IF Fits(m, f) THEN Going(e) ELSE ~e.ok
    <3>1. \A j \in 1 .. k - 1 : Fits(m, Layout(t)[j])
      BY <2>4, <2>6 DEF Accepted, Going
    <3>2. WrittenThere(t, m, w, k, f)
      BY <2>1, <2>2, WrittenAt
    <3>3. PICK x \in Seq(Byte) : x = w[k - 1] /\ Len(w[k]) = Len(x) + Len(Piece(m, f))
      BY <3>2 DEF WrittenThere
    <3>4. Sayable(m, f) /\ Placed(x, Piece(m, f), p)
      BY <1>1, <1>3, <3>2, <3>3 DEF WrittenThere
    <3>5. Left(Len(p) - Len(x), plan[k]) /\ Left(Len(p) - (Len(x) + Len(Piece(m, f))), plan[k + 1])
      <4>1. \A j \in 0 .. n : Left(Len(w[n]) - Len(w[j]), plan[j + 1])
        BY <1>1, <1>2, LeftIs
      <4>2. Left(Len(w[n]) - Len(w[k - 1]), plan[k]) /\ Left(Len(w[n]) - Len(w[k]), plan[k + 1])
        BY <2>1, <4>1
      <4>3. QED
        BY <1>3, <3>3, <4>2
    <3>6. d.pos = Len(x)
      <4>1. Along(t, m, d, Len(x), k - 1)
        BY <1>6, <2>1, <2>2, <3>3
      <4>2. QED
        BY <2>6, <4>1 DEF Along
    <3>7. Sound(f, plan[k], plan[k + 1])
      BY <1>2, <2>1, <2>2 DEF Planned
    <3>8. IF Fits(m, f) THEN Going(e) ELSE ~e.ok
      BY <1>3, <2>1, <2>2, <2>3, <2>6, <3>4, <3>5, <3>6, <3>7, ReadSucceeds
    <3>9. QED
      BY <3>1, <3>8
  <2>7. \A j \in 1 .. k : j \in 1 .. k - 1 \/ j = k
    OBVIOUS
  <2>8. Accepted(t, m, e, k)
    BY <2>2, <2>5, <2>6, <2>7 DEF Accepted
  <2>9. QED
    BY <2>1, <2>2, <2>8
<1>9. \A k \in 0 .. n : k \in T
  <2> HIDE DEF T
  <2>1. QED
    BY <1>1, <1>7, <1>8, UpTo
<1>10. QED
  BY <1>1, <1>4, <1>6, <1>9

\* The values of a message are those of its items.
LEMMA SameMessage ==
  ASSUME NEW t \in Types, NEW m, Typed(t, m), NEW v \in [Names(t) -> Value],
         \A j \in 1 .. Len(Layout(t)) :
            Layout(t)[j].do \in Named => v[Layout(t)[j].name] = m[Layout(t)[j].name]
  PROVE  v = m
<1>1. ASSUME NEW name \in Names(t) PROVE v[name] = m[name]
  <2>1. PICK f \in Fields(t) : f.name = name
    BY DEF Names
  <2>2. PICK j \in 1 .. Len(Layout(t)) : f = Layout(t)[j]
    BY LayoutLen DEF Fields, ToSet
  <2>3. f.name # ""
    BY DEF Fields
  <2>4. f.do \in Named
    BY <2>2, <2>3, ItemIs
  <2>5. QED
    BY <2>1, <2>2, <2>4
<1>2. v = [name \in Names(t) |-> v[name]]
  OBVIOUS
<1>3. m = [name \in Names(t) |-> m[name]]
  BY DEF Typed
<1>4. QED
  BY <1>1, <1>2, <1>3

\* All of a message fits if its texts are within the receiver's limits.
LEMMA FitsIs ==
  ASSUME NEW t \in Types, NEW m
  PROVE  (\A j \in 1 .. Len(Layout(t)) : Fits(m, Layout(t)[j]))
            <=> \A f \in Texts(t) : Len(m[f.name]) < TextSize[f.name]
<1>1. PICK n \in Nat : n = Len(Layout(t)) /\ DOMAIN Layout(t) = 1 .. n
  BY LayoutLen
<1>2. ASSUME NEW j \in 1 .. n, Layout(t)[j].do = "text"
      PROVE  Layout(t)[j] \in Texts(t) /\ Layout(t)[j].size = TextSize[Layout(t)[j].name]
  <2>1. j \in 1 .. Len(Layout(t)) /\ Layout(t)[j].do \in Named
    BY <1>1, <1>2 DEF Named
  <2>2. Layout(t)[j] \in Fields(t)
    BY <2>1, ItemIs
  <2>3. PICK plan : Planned(Layout(t), plan)
    BY WireAssumption, LayoutPlanned
  <2>4. Sound(Layout(t)[j], plan[j], plan[j + 1])
    BY <2>1, <2>3 DEF Planned
  <2>5. QED
    BY <1>2, <2>2, <2>4 DEF Texts, Sound
<1>3. ASSUME NEW f \in Texts(t) PROVE \E j \in 1 .. n : f = Layout(t)[j] /\ Layout(t)[j].do = "text"
  BY <1>1 DEF Texts, Fields, ToSet
<1>4. ASSUME \A j \in 1 .. n : Fits(m, Layout(t)[j]), NEW f \in Texts(t)
      PROVE  Len(m[f.name]) < TextSize[f.name]
  <2>1. PICK j \in 1 .. n : f = Layout(t)[j] /\ Layout(t)[j].do = "text"
    BY <1>3
  <2>2. Fits(m, f) /\ f.do = "text" /\ f.size = TextSize[f.name]
    BY <1>2, <1>4, <2>1
  <2>3. QED
    BY <2>2 DEF Fits
<1>5. ASSUME \A f \in Texts(t) : Len(m[f.name]) < TextSize[f.name], NEW j \in 1 .. n
      PROVE  Fits(m, Layout(t)[j])
  <2>1. CASE Layout(t)[j].do = "text"
    <3>1. PICK f : f = Layout(t)[j]
      OBVIOUS
    <3>2. f \in Texts(t) /\ f.size = TextSize[f.name]
      BY <1>2, <2>1, <3>1
    <3>3. Len(m[f.name]) < f.size
      BY <1>5, <3>2
    <3>4. QED
      BY <3>1, <3>3 DEF Fits
  <2>2. CASE Layout(t)[j].do # "text"
    BY <2>2 DEF Fits
  <2>3. QED
    BY <2>1, <2>2
<1>6. QED
  BY <1>1, <1>4, <1>5

\* What was sent comes back as the message it was made of, if that keeps to the
\* receiver's limits, and is refused otherwise.
LEMMA RoundTripFollows == WireInv => RoundTrip
<1> SUFFICES ASSUME WireInv, Received, changed = "no"
             PROVE  (got.ok <=> WithinLimits(type, msg)) /\ (got.ok => got.msg = msg)
  BY DEF RoundTrip
<1>1. /\ type \in Types /\ msg \in Messages[type] /\ payload \in Seq(Byte)
      /\ sent # NotYet /\ sent.ok /\ got = Decode(type, payload)
  BY DEF Received, WireInv, Travelling, Arriving
<1>2. Encode(type, msg).ok /\ payload = Encode(type, msg).bytes
  BY <1>1 DEF WireInv, Travelling, Arriving
<1>3. Typed(type, msg)
  BY <1>1, MessageTyped
<1>4. Encodable(type, msg)
  BY <1>1, <1>2, <1>3, EncodeIs
<1>5. PICK n \in Nat \ {0} : n = Len(Layout(type))
  BY <1>1, LayoutLen
<1>6. PICK w : Written(type, msg, w)
  BY <1>1, <1>2, <1>3, WrittenIs
<1>7. payload = w[n]
  BY <1>2, <1>5, <1>6 DEF Written
<1>8. PICK d : d = Decoding(type, payload)[n]
  OBVIOUS
<1>9. Accepted(type, msg, d, n) /\ Along(type, msg, d, Len(w[n]), n)
  <2>1. n \in 0 .. Len(Layout(type))
    BY <1>5
  <2>2. QED
    BY <1>1, <1>3, <1>4, <1>5, <1>6, <1>7, <1>8, <2>1, DecodingSucceeds
<1>10. d \in Decoder(type) /\ got.msg = d.msg /\ (got.ok <=> d.ok /\ Acceptable(type, d.msg))
  BY <1>1, <1>5, <1>8, DecodeInside, DecodeIs
<1>11. (\A j \in 1 .. n : Fits(msg, Layout(type)[j]))
          <=> \A f \in Texts(type) : Len(msg[f.name]) < TextSize[f.name]
  BY <1>1, <1>5, FitsIs
<1>12. CASE \A j \in 1 .. n : Fits(msg, Layout(type)[j])
  <2>1. Going(d)
    BY <1>9, <1>12 DEF Accepted
  <2>2. \A j \in 1 .. n : Layout(type)[j].do \in Named =>
           d.msg[Layout(type)[j].name] = msg[Layout(type)[j].name]
    BY <1>9, <2>1 DEF Along
  <2>3. d.msg \in [Names(type) -> Value]
    BY <1>10 DEF Decoder
  <2>4. d.msg = msg
    BY <1>1, <1>3, <1>5, <2>2, <2>3, SameMessage
  <2>5. WithinLimits(type, msg) <=> Acceptable(type, msg)
    BY <1>11, <1>12 DEF WithinLimits
  <2>6. QED
    BY <1>10, <2>1, <2>4, <2>5 DEF Going
<1>13. CASE ~(\A j \in 1 .. n : Fits(msg, Layout(type)[j]))
  <2>1. ~d.ok
    BY <1>9, <1>13 DEF Accepted
  <2>2. ~WithinLimits(type, msg)
    BY <1>11, <1>13 DEF WithinLimits
  <2>3. QED
    BY <1>10, <2>1, <2>2
<1>14. QED
  BY <1>12, <1>13

\* What was sent is decoded to the message it was made of.
THEOREM MessagesComeBack == Spec => []RoundTrip
<1>1. QED
  BY WireInductive, RoundTripFollows, PTL

-----------------------------------------------------------------------------
(* What is accepted, encoded again *)

\* Two parts of a payload that meet are one.
LEMMA SliceJoin ==
  ASSUME NEW p \in Seq(Byte), NEW pos \in Nat, NEW a \in Nat, NEW b \in Nat
  PROVE  Slice(p, pos, a) \o Slice(p, pos + a, b) = Slice(p, pos, a + b)
<1>1. PICK r \in Seq(Byte), s \in Seq(Byte), u \in Seq(Byte) :
         r = Slice(p, pos, a) /\ s = Slice(p, pos + a, b) /\ u = Slice(p, pos, a + b)
  <2>1. pos + a \in Nat /\ a + b \in Nat
    OBVIOUS
  <2>2. QED
    BY <2>1, SliceIs
<1>2. Len(r) = a /\ Len(s) = b /\ Len(u) = a + b
  <2>1. pos + a \in Nat /\ a + b \in Nat
    OBVIOUS
  <2>2. QED
    BY <1>1, <2>1, SliceIs
<1>3. /\ \A i \in 1 .. a : r[i] = At(p, pos + i)
      /\ \A i \in 1 .. b : s[i] = At(p, (pos + a) + i)
      /\ \A i \in 1 .. a + b : u[i] = At(p, pos + i)
  BY <1>1 DEF Slice
<1>4. PICK v \in Seq(Byte) : v = r \o s
  BY ConcatProperties
<1>5. Len(v) = a + b /\ \A i \in 1 .. a + b : v[i] = IF i <= a THEN r[i] ELSE s[i - a]
  BY <1>2, <1>4, ConcatProperties
<1>6. ASSUME NEW i \in 1 .. a + b PROVE v[i] = u[i]
  <2>1. CASE i <= a
    <3>1. i \in 1 .. a
      BY <2>1
    <3>2. QED
      BY <1>3, <1>5, <2>1, <3>1
  <2>2. CASE ~(i <= a)
    <3>1. PICK j \in 1 .. b : j = i - a /\ (pos + a) + j = pos + i
      BY <2>2
    <3>2. v[i] = s[j]
      BY <1>5, <2>2, <3>1
    <3>3. s[j] = At(p, pos + i)
      BY <1>3, <3>1
    <3>4. QED
      BY <1>3, <3>2, <3>3
  <2>3. QED
    BY <2>1, <2>2
<1>7. v = u
  BY <1>2, <1>5, <1>6, SeqEqual
<1>8. QED
  BY <1>1, <1>4, <1>7

\* The whole is a part, and so is nothing.
LEMMA SliceEnds ==
  ASSUME NEW p \in Seq(Byte)
  PROVE  Slice(p, 0, 0) = <<>> /\ Slice(p, 0, Len(p)) = p
<1>1. PICK l \in Nat : l = Len(p)
  BY LenProperties
<1>2. Slice(p, 0, 0) \in Seq(Byte) /\ Len(Slice(p, 0, 0)) = 0
  BY SliceIs
<1>3. Slice(p, 0, 0) = <<>>
  BY <1>2, EmptySeq
<1>4. PICK s \in Seq(Byte) : s = Slice(p, 0, l) /\ Len(s) = l
  BY SliceIs
<1>5. ASSUME NEW i \in 1 .. l PROVE s[i] = p[i]
  <2>1. s[i] = At(p, 0 + i) /\ 0 + i = i /\ i <= l
    BY <1>4 DEF Slice
  <2>2. QED
    BY <1>1, <2>1 DEF At
<1>6. s = p
  BY <1>1, <1>4, <1>5, SeqEqual
<1>7. QED
  BY <1>1, <1>3, <1>4, <1>6

\* What was read of an item is, as a piece, what was there to read.
ReadBackIs(m, d, p, f, e) ==
    /\ ~d.nul /\ e.pos - d.pos \in Nat
    /\ f.do \in Named => HasType(f, m[f.name])
    /\ Sayable(m, f)
    /\ Piece(m, f) = Slice(p, d.pos, e.pos - d.pos)

\* What an item takes is what a piece with its value says.
LEMMA ReadBack ==
  ASSUME NEW t \in Types, NEW k \in 1 .. Len(Layout(t)), NEW f, f = Layout(t)[k],
         NEW d \in Decoder(t), Going(d), NEW p \in Seq(Byte), d.pos <= Len(p),
         NEW e, e = Read(p, d, f), Going(e), ~e.nul, NEW m,
         f.do \in Named => m[f.name] = e.msg[f.name]
  PROVE  ReadBackIs(m, d, p, f, e)
<1>1. /\ f.do \in Named \cup {"need", "exactly", "end"} /\ f.size \in Nat
      /\ f.do \in Named => f.name \in Names(t) /\ f.name # ""
      /\ f.do \notin Named => f.name = ""
  BY ItemIs
<1>2. PICK pos \in Nat : pos = d.pos
  BY DEF Decoder
<1>3. PICK size \in Nat : size = f.size
  BY <1>1
<1>4. DOMAIN d.msg = Names(t) /\ d.pos \in Nat
  BY DEF Decoder
<1>5. ASSUME NEW v, NEW h, Taken(d, e, f.name, v, h), f.do \in Named
      PROVE  e.pos = pos + h /\ m[f.name] = v
  <2>1. e.msg[f.name] = v
    BY <1>1, <1>4, <1>5 DEF Taken
  <2>2. QED
    BY <1>2, <1>5, <2>1 DEF Taken
<1>6. CASE f.do \notin Named
  <2>1. Checked(d, e)
    BY <1>1, <1>6, NeedIs, ExactlyIs, EndIs DEF Named
  <2>2. ~d.nul /\ e.pos = pos
    BY <1>2, <2>1 DEF Checked
  <2>3. Piece(m, f) = <<>>
    BY <1>1, <1>6 DEF Piece
  <2>4. Slice(p, pos, 0) = <<>>
    <3>1. Slice(p, pos, 0) \in Seq(Byte) /\ Len(Slice(p, pos, 0)) = 0
      BY SliceIs
    <3>2. QED
      BY <3>1, EmptySeq
  <2>5. e.pos - d.pos = 0
    BY <1>2, <2>2
  <2>6. Sayable(m, f)
    BY <1>6 DEF Sayable, Named
  <2>7. QED
    BY <1>2, <1>6, <2>2, <2>3, <2>4, <2>5, <2>6 DEF ReadBackIs
<1>7. CASE f.do = "int"
  <2>1. f.do \in Named
    BY <1>7 DEF Named
  <2>2. PICK s : s = Slice(p, pos, size)
    OBVIOUS
  <2>3. s \in [1 .. size -> Byte]
    BY <2>2, SliceIs
  <2>4. Taken(d, e, f.name, Number(s), size) /\ (e.nul <=> d.nul)
    <3>1. f.name \in Names(t)
      BY <1>1, <2>1
    <3>2. Taken(d, e, f.name, Number(Slice(p, d.pos, f.size)), f.size) /\ (e.nul <=> d.nul)
      BY <1>7, <3>1, IntIs
    <3>3. QED
      BY <1>2, <1>3, <2>2, <3>2
  <2>5. e.pos = pos + size /\ m[f.name] = Number(s)
    BY <1>5, <2>1, <2>4
  <2>6. Number(s) \in Nat /\ Bytes(Number(s), size) = s /\ Shifted(Number(s), size)[size] = 0
    BY <2>3, BytesOfNumber
  <2>7. HasType(f, m[f.name])
    BY <1>3, <1>7, <2>5, <2>6 DEF HasType
  <2>8. Piece(m, f) = s
    BY <1>1, <1>3, <1>7, <2>1, <2>5, <2>6 DEF Piece
  <2>9. e.pos - d.pos = size
    BY <1>2, <2>5
  <2>10. Sayable(m, f)
    BY <1>7 DEF Sayable
  <2>11. QED
    BY <1>2, <2>2, <2>4, <2>7, <2>8, <2>9, <2>10 DEF ReadBackIs
<1>8. CASE f.do = "block"
  <2>1. f.do \in Named
    BY <1>8 DEF Named
  <2>2. PICK s : s = Slice(p, pos, size)
    OBVIOUS
  <2>3. s \in [1 .. size -> Byte]
    BY <2>2, SliceIs
  <2>4. Taken(d, e, f.name, s, size) /\ (e.nul <=> d.nul)
    <3>1. f.name \in Names(t)
      BY <1>1, <2>1
    <3>2. Taken(d, e, f.name, Slice(p, d.pos, f.size), f.size) /\ (e.nul <=> d.nul)
      BY <1>8, <3>1, BlockIs
    <3>3. QED
      BY <1>2, <1>3, <2>2, <3>2
  <2>5. e.pos = pos + size /\ m[f.name] = s
    BY <1>5, <2>1, <2>4
  <2>6. HasType(f, m[f.name])
    BY <1>3, <1>8, <2>3, <2>5 DEF HasType
  <2>7. Piece(m, f) = s
    BY <1>1, <1>8, <2>1, <2>5 DEF Piece
  <2>8. e.pos - d.pos = size
    BY <1>2, <2>5
  <2>9. Sayable(m, f)
    BY <1>8 DEF Sayable
  <2>10. QED
    BY <1>2, <2>2, <2>4, <2>6, <2>7, <2>8, <2>9 DEF ReadBackIs
<1>9. CASE f.do = "rest"
  <2>1. f.do \in Named
    BY <1>9 DEF Named
  <2>2. PICK left : left = Len(p) - d.pos
    OBVIOUS
  <2>3. PICK s : s = Slice(p, pos, left)
    OBVIOUS
  <2>4. Taken(d, e, f.name, s, left) /\ (e.nul <=> d.nul)
    <3>1. f.name \in Names(t)
      BY <1>1, <2>1
    <3>2. /\ Taken(d, e, f.name, Slice(p, d.pos, Len(p) - d.pos), Len(p) - d.pos)
          /\ e.nul <=> d.nul
      BY <1>9, <3>1, RestIs
    <3>3. QED
      BY <1>2, <2>2, <2>3, <3>2
  <2>5. e.pos = pos + left /\ m[f.name] = s
    BY <1>5, <2>1, <2>4
  <2>6. left \in Nat
    <3>1. Len(p) \in Nat
      BY LenProperties
    <3>2. QED
      BY <1>2, <2>2, <3>1
  <2>7. s \in Seq(Byte)
    BY <2>3, <2>6, SliceIs
  <2>8. HasType(f, m[f.name])
    BY <1>9, <2>5, <2>7 DEF HasType
  <2>9. Piece(m, f) = s
    BY <1>1, <1>9, <2>1, <2>5 DEF Piece
  <2>10. e.pos - d.pos = left
    BY <1>2, <2>5, <2>6
  <2>11. Sayable(m, f)
    BY <1>9 DEF Sayable
  <2>12. QED
    BY <1>2, <2>3, <2>4, <2>6, <2>8, <2>9, <2>10, <2>11 DEF ReadBackIs
<1>10. CASE f.do = "text"
  <2>1. f.do \in Named
    BY <1>10 DEF Named
  <2>2. PICK len \in Nat : len = TextLen(p, d)
    BY <1>1, <1>10, <2>1, TextIs
  <2>3. TextGood(p, d, f)
    BY <1>1, <1>10, <2>1, TextIs DEF Going
  <2>4. PICK s : s = TextBytes(p, d)
    OBVIOUS
  <2>5. /\ Taken(d, e, f.name, UpToNul(s), 2 + len)
        /\ e.nul <=> (d.nul \/ 0 \in ToSet(s))
    BY <1>1, <1>10, <2>1, <2>2, <2>3, <2>4, TextIs
  <2>6. s = Slice(p, pos + 2, len) /\ s \in Seq(Byte) /\ Len(s) = len
    <3>1. pos + 2 \in Nat
      OBVIOUS
    <3>2. s = Slice(p, pos + 2, len)
      BY <1>2, <2>2, <2>4 DEF TextBytes
    <3>3. QED
      BY <3>1, <3>2, SliceIs
  <2>7. UpToNul(s) = s /\ s \in Seq(Byte \ {0}) /\ ~d.nul
    <3>1. 0 \notin ToSet(s) /\ ~d.nul
      BY <2>5
    <3>2. QED
      BY <2>6, <3>1, UpToNulIs
  <2>8. e.pos = pos + (2 + len) /\ m[f.name] = s
    BY <1>5, <2>1, <2>5, <2>7
  <2>9. HasType(f, m[f.name])
    BY <1>10, <2>7, <2>8 DEF HasType
  <2>10. PICK two : two = Slice(p, pos, 2)
    OBVIOUS
  <2>11. two \in [1 .. 2 -> Byte] /\ Number(two) = len
    BY <1>2, <2>2, <2>10, SliceIs DEF TextLen
  <2>12. Bytes(len, 2) = two /\ Shifted(len, 2)[2] = 0
    BY <2>11, BytesOfNumber
  <2>13. Sayable(m, f)
    <3>1. len <= LongestText
      BY <2>12, TwoBytes
    <3>2. QED
      BY <2>6, <2>8, <3>1 DEF Sayable
  <2>14. Piece(m, f) = two \o s
    BY <1>1, <1>10, <2>1, <2>6, <2>8, <2>12 DEF Piece
  <2>15. two \o s = Slice(p, pos, 2 + len)
    <3>1. PICK h \in Nat : h = 2
      OBVIOUS
    <3>2. Slice(p, pos, h) \o Slice(p, pos + h, len) = Slice(p, pos, h + len)
      BY SliceJoin
    <3>3. QED
      BY <2>6, <2>10, <3>1, <3>2
  <2>16. e.pos - d.pos = 2 + len /\ 2 + len \in Nat
    BY <1>2, <2>8
  <2>17. QED
    BY <1>2, <2>7, <2>9, <2>13, <2>14, <2>15, <2>16 DEF ReadBackIs
<1>11. QED
  BY <1>1, <1>6, <1>7, <1>8, <1>9, <1>10 DEF Named

\* Where a decoder under way is: with the values it will end with, and no NUL.
Keeping(t, m, d, k) ==
    /\ Going(d) /\ ~d.nul
    /\ \A j \in 1 .. k : Layout(t)[j].do \in Named => m[Layout(t)[j].name] = d.msg[Layout(t)[j].name]

\* An item leaves the values of those before it alone.
LEMMA KeepingBefore ==
  ASSUME NEW t \in Types, NEW k \in 1 .. Len(Layout(t)), NEW d \in Decoder(t), NEW p \in Seq(Byte),
         d.pos <= Len(p), NEW e, e = Read(p, d, Layout(t)[k]), NEW m, Keeping(t, m, e, k)
  PROVE  Keeping(t, m, d, k - 1) /\ ReadBackIs(m, d, p, Layout(t)[k], e)
<1>1. PICK f : f = Layout(t)[k]
  OBVIOUS
<1>2. /\ f.do \in Named \cup {"need", "exactly", "end"} /\ f.size \in Nat
      /\ f.do \in Named => f.name \in Names(t)
  BY <1>1, ItemIs
<1>3. Going(e) /\ ~e.nul
  BY DEF Keeping
<1>4. Going(d)
  <2>1. ASSUME ~Going(d) PROVE e = d
    BY <2>1 DEF Going, Read
  <2>2. QED
    BY <1>3, <2>1
<1>5. f.do \in Named => m[f.name] = e.msg[f.name]
  <2>1. k \in 1 .. k
    BY LayoutLen
  <2>2. QED
    BY <1>1, <2>1 DEF Keeping
<1>6. ReadBackIs(m, d, p, f, e)
  BY <1>1, <1>3, <1>4, <1>5, ReadBack
<1>7. \/ e.msg = d.msg
      \/ f.do \in Named /\ \E v : e.msg = [d.msg EXCEPT ![f.name] = v]
  <2>1. CASE f.do \in {"need", "exactly", "end"}
    <3>1. f.do \notin Named
      BY <2>1 DEF Named
    <3>2. Checked(d, e)
      BY <1>1, <1>2, <1>4, <2>1, <3>1, NeedIs, ExactlyIs, EndIs DEF Named
    <3>3. QED
      BY <3>2 DEF Checked
  <2>2. CASE f.do \in {"int", "block", "rest"}
    <3>1. f.do \in Named /\ f.name \in Names(t)
      BY <1>2, <2>2 DEF Named
    <3>2. \E v, size : Taken(d, e, f.name, v, size)
      BY <1>1, <1>4, <2>2, <3>1, IntIs, BlockIs, RestIs
    <3>3. QED
      BY <3>1, <3>2 DEF Taken
  <2>3. CASE f.do = "text"
    <3>1. f.do \in Named /\ f.name \in Names(t)
      BY <1>2, <2>3 DEF Named
    <3>2. TextGood(p, d, f)
      BY <1>1, <1>2, <1>3, <1>4, <2>3, <3>1, TextIs DEF Going
    <3>3. Taken(d, e, f.name, UpToNul(TextBytes(p, d)), 2 + TextLen(p, d))
      BY <1>1, <1>2, <1>4, <2>3, <3>1, <3>2, TextIs
    <3>4. QED
      BY <3>1, <3>3 DEF Taken
  <2>4. QED
    BY <1>2, <2>1, <2>2, <2>3 DEF Named
<1>8. DOMAIN d.msg = Names(t)
  BY DEF Decoder
<1>9. ASSUME NEW j \in 1 .. k - 1, Layout(t)[j].do \in Named
      PROVE  m[Layout(t)[j].name] = d.msg[Layout(t)[j].name]
  <2>1. PICK g : g = Layout(t)[j]
    OBVIOUS
  <2>2. j \in 1 .. Len(Layout(t)) /\ j # k /\ j \in 1 .. k
    BY LayoutLen
  <2>3. g.name \in Names(t)
    BY <1>9, <2>1, <2>2, ItemIs
  <2>4. m[g.name] = e.msg[g.name]
    BY <1>9, <2>1, <2>2 DEF Keeping
  <2>5. f.do \in Named => g.name # f.name
    <3>1. PICK plan : Planned(Layout(t), plan)
      BY WireAssumption, LayoutPlanned
    <3>2. PICK place : \A i \in 1 .. Len(Layout(t)) :
                          Layout(t)[i].do \in Named => place[Layout(t)[i].name] = i
      BY <3>1 DEF Planned
    <3>3. place[g.name] = j
      BY <1>9, <2>1, <2>2, <3>2
    <3>4. f.do \in Named => place[f.name] = k
      BY <1>1, <3>2
    <3>5. QED
      BY <2>2, <3>3, <3>4
  <2>6. e.msg[g.name] = d.msg[g.name]
    BY <1>7, <1>8, <2>3, <2>5
  <2>7. QED
    BY <2>1, <2>4, <2>6
<1>10. ~d.nul
  BY <1>6 DEF ReadBackIs
<1>11. QED
  BY <1>1, <1>4, <1>6, <1>9, <1>10 DEF Keeping

\* So at each place a decoder read what the message it ends with says there.
LEMMA KeepingIs ==
  ASSUME NEW t \in Types, NEW p \in Seq(Byte), NEW m,
         Keeping(t, m, Decoding(t, p)[Len(Layout(t))], Len(Layout(t)))
  PROVE  \A k \in 1 .. Len(Layout(t)) :
            ReadBackIs(m, Decoding(t, p)[k - 1], p, Layout(t)[k], Decoding(t, p)[k])
<1>1. PICK n \in Nat \ {0} : n = Len(Layout(t))
  BY LayoutLen
<1>2. PICK at : at = Decoding(t, p)
  OBVIOUS
<1>3. /\ at \in [0 .. n -> Decoder(t)]
      /\ \A k \in 1 .. n : at[k] = Read(p, at[k - 1], Layout(t)[k])
  BY <1>1, <1>2, DecodingIs
<1>4. \A k \in 0 .. n : at[k].pos <= Len(p)
  <2>1. PICK plan : Planned(Layout(t), plan)
    BY WireAssumption, LayoutPlanned
  <2>2. QED
    BY <1>1, <1>2, <2>1, AllInside DEF Inside
<1> DEFINE T == {k \in 0 .. n : Keeping(t, m, at[k], k)}
<1>5. n \in T
  BY <1>1, <1>2
<1>6. ASSUME NEW k \in 1 .. n, k \in T
      PROVE  k - 1 \in T /\ ReadBackIs(m, at[k - 1], p, Layout(t)[k], at[k])
  <2>1. k \in 1 .. Len(Layout(t)) /\ k - 1 \in 0 .. n
    BY <1>1
  <2>2. at[k - 1] \in Decoder(t) /\ at[k - 1].pos <= Len(p) /\ at[k] = Read(p, at[k - 1], Layout(t)[k])
    BY <1>3, <1>4, <2>1
  <2>3. Keeping(t, m, at[k], k)
    BY <1>6
  <2>4. Keeping(t, m, at[k - 1], k - 1) /\ ReadBackIs(m, at[k - 1], p, Layout(t)[k], at[k])
    BY <2>1, <2>2, <2>3, KeepingBefore
  <2>5. QED
    BY <2>1, <2>4
<1>7. \A k \in 0 .. n : k \in T
  <2> HIDE DEF T
  <2>1. QED
    BY <1>1, <1>5, <1>6, DownTo
<1>8. ASSUME NEW k \in 1 .. n PROVE ReadBackIs(m, at[k - 1], p, Layout(t)[k], at[k])
  <2>1. k \in 0 .. n
    OBVIOUS
  <2> HIDE DEF T
  <2>2. QED
    BY <1>6, <1>7, <2>1
<1>9. QED
  BY <1>1, <1>2, <1>8

\* The message it ends with is one an encoder could be given,
LEMMA ReadMessageTyped ==
  ASSUME NEW t \in Types, NEW p \in Seq(Byte), NEW d, d = Decoding(t, p)[Len(Layout(t))],
         NEW m, m = d.msg, Going(d), ~d.nul
  PROVE  /\ Typed(t, m) /\ d \in Decoder(t)
         /\ \A k \in 1 .. Len(Layout(t)) :
               ReadBackIs(m, Decoding(t, p)[k - 1], p, Layout(t)[k], Decoding(t, p)[k])
<1>1. d \in Decoder(t)
  BY DecodeInside
<1>2. Keeping(t, m, d, Len(Layout(t)))
  BY DEF Keeping
<1>3. \A k \in 1 .. Len(Layout(t)) :
         ReadBackIs(m, Decoding(t, p)[k - 1], p, Layout(t)[k], Decoding(t, p)[k])
  BY <1>2, KeepingIs
<1>4. m = [name \in Names(t) |-> m[name]]
  BY <1>1 DEF Decoder
<1>5. ASSUME NEW f \in Fields(t) PROVE HasType(f, m[f.name])
  <2>1. PICK k \in 1 .. Len(Layout(t)) : f = Layout(t)[k]
    BY LayoutLen DEF Fields, ToSet
  <2>2. f.name # ""
    BY DEF Fields
  <2>3. f.do \in Named
    BY <2>1, <2>2, ItemIs
  <2>4. ReadBackIs(m, Decoding(t, p)[k - 1], p, f, Decoding(t, p)[k])
    BY <1>3, <2>1
  <2>5. QED
    BY <2>3, <2>4 DEF ReadBackIs
<1>6. QED
  BY <1>1, <1>3, <1>4, <1>5 DEF Typed

\* The beginning of a payload and what follows it are a longer beginning.
Joined(p, u, h) ==
    /\ Slice(p, 0, u) \o Slice(p, u, h) = Slice(p, 0, u + h)
    /\ Len(Slice(p, 0, u)) = u /\ Len(Slice(p, u, h)) = h

LEMMA BeginningJoin ==
  ASSUME NEW p \in Seq(Byte), NEW u \in Nat, NEW h \in Nat
  PROVE  Joined(p, u, h)
<1>1. PICK z \in Nat : z = 0
  OBVIOUS
<1>2. Slice(p, z, u) \o Slice(p, z + u, h) = Slice(p, z, u + h)
  BY SliceJoin
<1>3. z + u = u
  BY <1>1
<1>4. Len(Slice(p, z, u)) = u /\ Len(Slice(p, u, h)) = h
  BY SliceIs
<1>5. QED
  BY <1>1, <1>2, <1>3, <1>4 DEF Joined

\* and it gives back the payload, as long as a buffer can hold that.
LEMMA EncodedAgain ==
  ASSUME NEW t \in Types, NEW p \in Seq(Byte), Len(p) <= SizeMax,
         NEW d, d = Decoding(t, p)[Len(Layout(t))], Going(d), ~d.nul
  PROVE  Encode(t, d.msg).bytes = p
<1>1. PICK n \in Nat \ {0} : n = Len(Layout(t))
  BY LayoutLen
<1>2. PICK at : at = Decoding(t, p)
  OBVIOUS
<1>3. PICK m : m = d.msg
  OBVIOUS
<1>4. /\ Typed(t, m)
      /\ \A k \in 1 .. n : ReadBackIs(m, at[k - 1], p, Layout(t)[k], at[k])
  BY <1>1, <1>2, <1>3, ReadMessageTyped
<1>5. at \in [0 .. n -> Decoder(t)] /\ at[0] = Begun(t)
  BY <1>1, <1>2, DecodingIs
<1>6. PICK enc : enc = Encoding(t, m)
  OBVIOUS
<1>7. /\ enc \in [0 .. n -> Buffer] /\ enc[0] = Empty
      /\ \A k \in 1 .. n : enc[k] = FieldAppended(m, enc[k - 1], Layout(t)[k])
  BY <1>1, <1>4, <1>6, EncodingIs
<1>8. \A k \in 0 .. n : at[k].pos \in Nat /\ at[k].pos <= Len(p)
  <2>1. PICK plan : Planned(Layout(t), plan)
    BY WireAssumption, LayoutPlanned
  <2>2. \A k \in 0 .. n : at[k].pos <= Len(p)
    BY <1>1, <1>2, <2>1, AllInside DEF Inside
  <2>3. \A k \in 0 .. n : at[k].pos \in Nat
    BY <1>5 DEF Decoder
  <2>4. QED
    BY <2>2, <2>3
<1>9. PICK most \in Nat, l \in Nat : most = SizeMax /\ l = Len(p) /\ l <= most
  BY WireAssumption, LenProperties
<1> DEFINE T == {k \in 0 .. n : enc[k].ok /\ enc[k].bytes = Slice(p, 0, at[k].pos)}
<1>10. 0 \in T
  <2>1. at[0].pos = 0 /\ enc[0].ok /\ enc[0].bytes = <<>>
    BY <1>5, <1>7 DEF Begun, Empty
  <2>2. Slice(p, 0, 0) = <<>>
    BY SliceEnds
  <2>3. QED
    BY <2>1, <2>2
<1>11. ASSUME NEW k \in 1 .. n, k - 1 \in T PROVE k \in T
  <2>1. k \in 1 .. Len(Layout(t)) /\ k - 1 \in 0 .. n /\ k \in 0 .. n
    BY <1>1
  <2>2. PICK f : f = Layout(t)[k]
    OBVIOUS
  <2>3. PICK b \in Buffer, c \in Buffer : b = enc[k - 1] /\ c = enc[k] /\ c = FieldAppended(m, b, f)
    BY <1>7, <2>1, <2>2
  <2>4. PICK u \in Nat, v \in Nat : u = at[k - 1].pos /\ v = at[k].pos /\ v <= l
    BY <1>8, <1>9, <2>1
  <2>5. /\ Sayable(m, f) /\ at[k].pos - at[k - 1].pos \in Nat
        /\ Piece(m, f) = Slice(p, u, at[k].pos - at[k - 1].pos)
    BY <1>4, <2>2, <2>4 DEF ReadBackIs
  <2>6. PICK h \in Nat : h = v - u /\ u + h = v /\ Piece(m, f) = Slice(p, u, h)
    <3>1. PICK h \in Nat : h = at[k].pos - at[k - 1].pos /\ Piece(m, f) = Slice(p, u, h)
      BY <2>5
    <3>2. h = v - u
      BY <2>4, <3>1
    <3>3. u + h = v
      BY <3>2
    <3>4. QED
      BY <3>1, <3>2, <3>3
  <2>7. Extended(b, Piece(m, f), c)
    BY <1>4, <2>1, <2>2, <2>3, <2>5, FieldAppendedIs
  <2>8. b.ok /\ b.bytes = Slice(p, 0, u)
    BY <1>11, <2>3, <2>4
  <2>9. Len(b.bytes) = u /\ Len(Piece(m, f)) = h
    <3>1. Joined(p, u, h)
      BY BeginningJoin
    <3>2. QED
      BY <2>6, <2>8, <3>1 DEF Joined
  <2>10. Len(b.bytes) + Len(Piece(m, f)) <= SizeMax
    <3>1. u + h <= most
      BY <1>9, <2>4, <2>6
    <3>2. QED
      BY <1>9, <2>9, <3>1
  <2>11. c.ok /\ c.bytes = b.bytes \o Piece(m, f)
    BY <2>7, <2>8, <2>10 DEF Extended
  <2>12. Slice(p, 0, u) \o Slice(p, u, h) = Slice(p, 0, v)
    <3>1. Joined(p, u, h)
      BY BeginningJoin
    <3>2. QED
      BY <2>6, <3>1 DEF Joined
  <2>13. QED
    BY <2>1, <2>3, <2>4, <2>6, <2>8, <2>11, <2>12
<1>12. \A k \in 0 .. n : k \in T
  <2> HIDE DEF T
  <2>1. QED
    BY <1>1, <1>10, <1>11, UpTo
<1>13. d = at[n] /\ d.pos = l
  <2>1. d.pos = Len(p)
    BY DecodeInside DEF Going
  <2>2. QED
    BY <1>1, <1>2, <1>9, <2>1
<1>14. enc[n].bytes = p
  <2>1. enc[n].bytes = Slice(p, 0, l)
    BY <1>12, <1>13
  <2>2. QED
    BY <1>9, <2>1, SliceEnds
<1>15. QED
  BY <1>1, <1>3, <1>4, <1>6, <1>14, EncodeIs

\* What arrives is at most one byte longer than what fits in the caller's array.
LEMMA PayloadFits == WireInv /\ sent # NotYet /\ sent.ok => Len(payload) <= SizeMax
<1> SUFFICES ASSUME WireInv, sent # NotYet, sent.ok PROVE Len(payload) <= SizeMax
  OBVIOUS
<1>1. /\ type \in Types /\ msg \in Messages[type] /\ Encode(type, msg).ok
      /\ sent.bytes = Encode(type, msg).bytes
  BY DEF WireInv, Travelling
<1>2. PICK q \in Seq(Byte) : q = sent.bytes
  BY <1>1, EncodeTyped DEF Buffer
<1>3. PICK l \in Nat, most \in Nat, cap \in Nat :
         l = Len(q) /\ most = SizeMax /\ cap = Cap /\ cap < most /\ l <= cap
  <2>1. Len(Encode(type, msg).bytes) <= Cap
    BY <1>1, MessageTyped, EncodeIs
  <2>2. Cap \in Nat /\ SizeMax \in Nat /\ Cap < SizeMax
    BY WireAssumption
  <2>3. Len(q) \in Nat
    BY LenProperties
  <2>4. QED
    BY <1>1, <1>2, <2>1, <2>2, <2>3
<1>4. CASE changed \in {"no", "other"}
  <2>1. Len(payload) = l
    BY <1>2, <1>3, <1>4 DEF WireInv, Arriving
  <2>2. QED
    BY <1>3, <2>1
<1>5. CASE changed = "cut"
  <2>1. PICK n \in Nat : n < l /\ payload = SubSeq(q, 1, n)
    BY <1>2, <1>3, <1>5 DEF WireInv, Arriving
  <2>2. \A i \in 1 .. n : q[i] \in Byte
    BY <1>3, <2>1, ElementOfSeq
  <2>3. Len(payload) = n
    BY <1>3, <2>1, <2>2, SubSeqProperties
  <2>4. QED
    BY <1>3, <2>1, <2>3
<1>6. CASE changed = "longer"
  <2>1. PICK b \in Byte : payload = Append(q, b)
    BY <1>2, <1>6 DEF WireInv, Arriving
  <2>2. Len(payload) = l + 1
    BY <1>3, <2>1, AppendProperties
  <2>3. QED
    BY <1>3, <2>2
<1>7. QED
  BY <1>4, <1>5, <1>6 DEF WireInv, Arriving

\* The inductive invariant says that what was accepted can be encoded again.
LEMMA EveryByteCountsFollows == WireInv => EveryByteCounts
<1> SUFFICES ASSUME WireInv, Received, got.ok, ~ShortForm, ~got.nul
             PROVE  Encode(type, got.msg).bytes = payload
  BY DEF EveryByteCounts
<1>1. /\ type \in Types /\ msg \in Messages[type] /\ payload \in Seq(Byte)
      /\ sent # NotYet /\ sent.ok /\ got = Decode(type, payload)
  BY DEF Received, WireInv, Travelling, Arriving
<1>2. PICK d : d = Decoding(type, payload)[Len(Layout(type))]
  OBVIOUS
<1>3. /\ d.ok /\ ~d.over /\ d.pos = Len(payload) /\ got.msg = d.msg /\ got.nul = d.nul
      /\ got.pos = d.pos /\ got.ended = d.ended
  BY <1>1, <1>2, DecodeInside, DecodeIs
<1>4. Going(d) /\ ~d.nul
  BY <1>3 DEF ShortForm, Going
<1>5. Len(payload) <= SizeMax
  BY <1>1, PayloadFits
<1>6. Encode(type, d.msg).bytes = payload
  BY <1>1, <1>2, <1>4, <1>5, EncodedAgain
<1>7. QED
  BY <1>3, <1>6

\* What was decoded, encoded again, is the payload: a decoder accounts for every
\* byte of what it accepts.
THEOREM NoByteIsIgnored == Spec => []EveryByteCounts
<1>1. QED
  BY WireInductive, EveryByteCountsFollows, PTL
=============================================================================
