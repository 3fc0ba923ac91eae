------------------------ MODULE DirectAdmission_proofs ------------------------
(***************************************************************************)
(* For any tokens, size of the line buffer and time limit, and a caller    *)
(* who writes what he likes when he likes: only a rightful caller is let   *)
(* in, the bytes behind the line stay where they are, the line never       *)
(* outgrows the buffer and the thread is held no longer than one wait per  *)
(* byte of it.                                                             *)
(***************************************************************************)
EXTENDS DirectAdmission, SequenceTheorems, WellFoundedInduction, TLAPS

\* While the node reads, the line is what the caller has written so far, there
\* is room for one more byte, and each wait but the last has brought a byte.
Reading ==
    pc = "read" =>
        /\ Len(buf) + 1 < Cap
        /\ taken = Len(buf)
        /\ \A k \in 1 .. taken : buf[k] = sent[k] /\ sent[k] # "nl"
        /\ clock <= Wait * Len(buf) + waited

IndInv == TypeOK /\ Reading /\ AdmittedRightly /\ FramesKept /\ HeldBriefly

\* The sizes are naturals, and more than enough for the NUL.
LEMMA Sizes == Cap \in Nat /\ Cap > 1 /\ Wait \in Nat /\ Wait > 0
BY DirectAdmissionAssumption

USE Sizes

-----------------------------------------------------------------------------
(* The trimming of the line *)

\* A set of naturals has a least element.
LEMMA Least ==
    ASSUME NEW T, T \subseteq Nat, T # {}
    PROVE  \E x \in T : \A y \in T : x <= y
<1>1. PICK x \in T : \A y \in T : ~ (<<y, x>> \in OpToRel(<, Nat))
  BY NatLessThanWellFounded, WFMin
<1>2. ASSUME NEW y \in T
      PROVE  x <= y
  <2>1. <<y, x>> \in Nat \X Nat /\ ~ (<<y, x>> \in OpToRel(<, Nat))
    BY <1>1
  <2>2. ~ (y < x)
    BY <2>1 DEF OpToRel
  <2>3. x \in Nat /\ y \in Nat
    OBVIOUS
  <2>4. QED
    BY <2>2, <2>3
<1>3. QED
  BY <1>2

\* strlen() stops at the first NUL, or at the end.
LEMMA UpToNulCuts ==
    ASSUME NEW s \in Seq(Bytes)
    PROVE  \E n \in 0 .. Len(s) :
               /\ UpToNul(s) = SubSeq(s, 1, n)
               /\ \A k \in 1 .. n : s[k] # "nul"
               /\ n < Len(s) => s[n + 1] = "nul"
<1> DEFINE Cuts(n) == /\ \A k \in 1 .. n : s[k] # "nul"
                      /\ n < Len(s) => s[n + 1] = "nul"
           ends == {n \in 0 .. Len(s) : n < Len(s) => s[n + 1] = "nul"}
<1>1. Len(s) \in Nat
  BY LenProperties
<1>2. ends \subseteq Nat /\ ends # {}
  <2>1. Len(s) \in ends
    BY <1>1
  <2>2. QED
    BY <1>1, <2>1
<1>3. PICK n \in ends : \A j \in ends : n <= j
  BY <1>2, Least
<1>4. \A k \in 1 .. n : s[k] # "nul"
  <2>1. SUFFICES ASSUME NEW k \in 1 .. n, s[k] = "nul"
                 PROVE  FALSE
    OBVIOUS
  <2>2. k - 1 \in ends
    BY <1>1, <2>1
  <2>3. n <= k - 1
    <3> HIDE DEF ends
    <3>1. QED
      BY <1>3, <2>2
  <2>4. QED
    BY <1>1, <2>3
<1>5. \E j \in 0 .. Len(s) : Cuts(j)
  BY <1>3, <1>4
<1> DEFINE c == CHOOSE j \in 0 .. Len(s) : Cuts(j)
<1>6. UpToNul(s) = SubSeq(s, 1, c)
  BY DEF UpToNul
<1>7. c \in 0 .. Len(s) /\ Cuts(c)
  <2> HIDE DEF Cuts
  <2>1. QED
    BY <1>5
<1>8. QED
  <2> HIDE DEF c
  <2>1. QED
    BY <1>6, <1>7

\* The trimming takes away the blanks at the end, and nothing else.
LEMMA TrimmedCuts ==
    ASSUME NEW s \in Seq(Bytes)
    PROVE  \E n \in 0 .. Len(s) :
               /\ Trimmed(s) = SubSeq(s, 1, n)
               /\ \A k \in n + 1 .. Len(s) : s[k] = "blank"
<1> DEFINE Trims(n) == /\ n > 0 => s[n] # "blank"
                       /\ \A k \in n + 1 .. Len(s) : s[k] = "blank"
           ends == {n \in 0 .. Len(s) : \A k \in n + 1 .. Len(s) : s[k] = "blank"}
<1>1. Len(s) \in Nat
  BY LenProperties
<1>2. ends \subseteq Nat /\ ends # {}
  <2>1. Len(s) \in ends
    BY <1>1
  <2>2. QED
    BY <1>1, <2>1
<1>3. PICK n \in ends : \A j \in ends : n <= j
  BY <1>2, Least
<1>4. n > 0 => s[n] # "blank"
  <2>1. SUFFICES ASSUME n > 0, s[n] = "blank"
                 PROVE  FALSE
    OBVIOUS
  <2>2. n - 1 \in 0 .. Len(s) /\ \A k \in n .. Len(s) : s[k] = "blank"
    BY <1>1, <2>1
  <2>3. n - 1 \in ends
    BY <2>2
  <2>4. n <= n - 1
    <3> HIDE DEF ends
    <3>1. QED
      BY <1>3, <2>3
  <2>5. QED
    BY <1>1, <2>4
<1>5. \E j \in 0 .. Len(s) : Trims(j)
  BY <1>3, <1>4
<1> DEFINE c == CHOOSE j \in 0 .. Len(s) : Trims(j)
<1>6. Trimmed(s) = SubSeq(s, 1, c)
  BY DEF Trimmed
<1>7. c \in 0 .. Len(s) /\ Trims(c)
  <2> HIDE DEF Trims
  <2>1. QED
    BY <1>5
<1>8. QED
  <2> HIDE DEF c
  <2>1. QED
    BY <1>6, <1>7

\* What is left of a line is its beginning; behind it come blanks up to the end
\* of the line or to a NUL.
LEMMA LineCuts ==
    ASSUME NEW s \in Seq(Bytes)
    PROVE  \E m \in 0 .. Len(s), z \in 1 .. Len(s) + 1 :
               /\ Trimmed(UpToNul(s)) = SubSeq(s, 1, m)
               /\ m < z /\ \A k \in m + 1 .. z - 1 : s[k] = "blank"
               /\ z <= Len(s) => s[z] = "nul"
<1>1. PICK n \in 0 .. Len(s) : /\ UpToNul(s) = SubSeq(s, 1, n)
                               /\ n < Len(s) => s[n + 1] = "nul"
  BY UpToNulCuts
<1> DEFINE u == SubSeq(s, 1, n)
<1>2. Len(s) \in Nat /\ \A k \in 1 .. Len(s) : s[k] \in Bytes
  BY LenProperties
<1>3. u \in Seq(Bytes) /\ Len(u) = n /\ \A k \in 1 .. n : u[k] = s[k]
  BY <1>2, SubSeqProperties
<1>4. PICK m \in 0 .. n : Trimmed(u) = SubSeq(u, 1, m) /\ \A k \in m + 1 .. n : u[k] = "blank"
  <2> HIDE DEF u
  <2>1. QED
    BY <1>3, TrimmedCuts
<1>5. SubSeq(u, 1, m) = SubSeq(s, 1, m)
  <2>1. \A k \in 1 .. m : u[k] \in Bytes /\ s[k] \in Bytes /\ u[k] = s[k]
    BY <1>2, <1>3
  <2>2. /\ SubSeq(u, 1, m) \in Seq(Bytes) /\ SubSeq(s, 1, m) \in Seq(Bytes)
        /\ Len(SubSeq(u, 1, m)) = m /\ Len(SubSeq(s, 1, m)) = m
        /\ \A k \in 1 .. m : SubSeq(u, 1, m)[k] = u[k] /\ SubSeq(s, 1, m)[k] = s[k]
    <3> HIDE DEF u
    <3>1. QED
      BY <2>1, SubSeqProperties
  <2>3. QED
    BY <2>1, <2>2, SeqEqual
<1>6. WITNESS m \in 0 .. Len(s), n + 1 \in 1 .. Len(s) + 1
<1>7. QED
  BY <1>1, <1>2, <1>3, <1>4, <1>5

-----------------------------------------------------------------------------
(* The reading of the line *)

\* A line that verifies was presented: the bytes taken are a rightful token,
\* what does not count, and the newline.
LEMMA VerifiedIsPresented ==
    ASSUME TypeOK, Reading, pc = "read", taken < Len(sent), sent[taken + 1] = "nl",
           Verifies(Trimmed(UpToNul(buf)))
    PROVE  \E t \in Tokens : Mine(t) /\ t.expire > clock /\ Presents(t, taken + 1)
<1>1. PICK t \in Tokens : t.text = Trimmed(UpToNul(buf)) /\ Mine(t) /\ InForce(t)
  BY DEF Verifies
<1>2. PICK m \in 0 .. Len(buf), z \in 1 .. Len(buf) + 1 :
          /\ t.text = SubSeq(buf, 1, m)
          /\ m < z /\ \A k \in m + 1 .. z - 1 : buf[k] = "blank"
          /\ z <= Len(buf) => buf[z] = "nul"
  BY <1>1, LineCuts DEF TypeOK
<1>3. /\ taken = Len(buf) /\ taken \in Nat
      /\ \A k \in 1 .. taken : buf[k] = sent[k] /\ sent[k] # "nl"
      /\ Len(sent) \in Nat /\ buf \in Seq(Bytes)
      /\ \A k \in 1 .. taken : buf[k] \in Bytes /\ sent[k] \in Bytes
  BY LenProperties DEF TypeOK, Reading
<1>4. m \in Nat /\ Len(t.text) = m
  <2>1. \A k \in 1 .. m : buf[k] \in Bytes
    BY <1>3
  <2>2. Len(SubSeq(buf, 1, m)) = m
    BY <2>1, SubSeqProperties
  <2>3. QED
    BY <1>2, <2>2
<1>5. SubSeq(sent, 1, m) = t.text
  <2>1. \A k \in 1 .. m : buf[k] \in Bytes /\ sent[k] \in Bytes /\ buf[k] = sent[k]
    BY <1>3
  <2>2. /\ SubSeq(buf, 1, m) \in Seq(Bytes) /\ SubSeq(sent, 1, m) \in Seq(Bytes)
        /\ Len(SubSeq(buf, 1, m)) = m /\ Len(SubSeq(sent, 1, m)) = m
        /\ \A k \in 1 .. m : SubSeq(buf, 1, m)[k] = buf[k] /\ SubSeq(sent, 1, m)[k] = sent[k]
    BY <2>1, SubSeqProperties
  <2>3. SubSeq(buf, 1, m) = SubSeq(sent, 1, m)
    BY <2>1, <2>2, SeqEqual
  <2>4. QED
    BY <1>2, <2>3
<1>6. \E y \in m + 1 .. taken + 1 :
          /\ \A k \in m + 1 .. y - 1 : sent[k] = "blank"
          /\ y < taken + 1 => sent[y] = "nul"
  <2>1. z \in m + 1 .. taken + 1
    BY <1>2, <1>3
  <2>2. QED
    BY <1>2, <1>3, <2>1
<1>7. Presents(t, taken + 1)
  BY <1>3, <1>4, <1>5, <1>6 DEF Presents
<1>8. QED
  BY <1>1, <1>7 DEF InForce

\* A byte more moves the bound on the time by one wait.
LEMMA OneMoreWait ==
    ASSUME NEW n \in Nat
    PROVE  /\ Wait * n \in Nat /\ Wait * (n + 1) = Wait * n + Wait
           /\ n + 1 < Cap => Wait * n + Wait <= Wait * (Cap - 1)
<1>1. Wait \in Nat /\ Cap \in Nat
  OBVIOUS
<1>2. \A a, b \in Nat : a <= b => Wait * a <= Wait * b
  BY <1>1
<1>3. Wait * (n + 1) = Wait * n + Wait
  BY <1>1
<1>4. n + 1 < Cap => n + 1 \in Nat /\ Cap - 1 \in Nat /\ n + 1 <= Cap - 1
  BY <1>1
<1>5. QED
  BY <1>1, <1>2, <1>3, <1>4

\* The first wait has just begun.
LEMMA InitInv == Init => IndInv
<1> SUFFICES ASSUME Init PROVE IndInv
  OBVIOUS
<1>1. TypeOK
  BY DEF Init, TypeOK
<1>2. Wait * 0 = 0 /\ Wait * (Cap - 1) >= 0
  <2>1. 0 + 1 < Cap /\ Wait * 0 = 0
    OBVIOUS
  <2>2. QED
    BY <2>1, OneMoreWait
<1>3. QED
  BY <1>1, <1>2 DEF Init, IndInv, Reading, AdmittedRightly, FramesKept, HeldBriefly

\* The newline ends the line: nothing behind it is taken.
LEMMA NewlineInv ==
    ASSUME IndInv, ReadByte, sent[taken + 1] = "nl"
    PROVE  IndInv'
<1>1. /\ pc = "read" /\ taken < Len(sent) /\ taken' = taken + 1
      /\ pc' = IF Verifies(Trimmed(UpToNul(buf))) THEN "admitted" ELSE "rejected"
      /\ waited' = 0 /\ UNCHANGED <<buf, clock, sent, life>>
  BY DEF ReadByte, Newline
<1>2. Len(sent) \in Nat /\ taken \in Nat
  BY LenProperties DEF IndInv, TypeOK
<1>3. TypeOK'
  BY <1>1, <1>2 DEF IndInv, TypeOK
<1>4. Reading'
  BY <1>1 DEF Reading
<1>5. AdmittedRightly'
  <2>1. CASE pc' = "admitted"
    <3>1. Verifies(Trimmed(UpToNul(buf)))
      BY <1>1, <2>1
    <3>2. PICK t \in Tokens : Mine(t) /\ t.expire > clock /\ Presents(t, taken + 1)
      BY <1>1, <3>1, VerifiedIsPresented DEF IndInv
    <3>3. clock' = clock /\ sent' = sent /\ taken' = taken + 1
      BY <1>1
    <3>4. QED
      BY <3>2, <3>3 DEF AdmittedRightly, Presents
  <2>2. CASE pc' # "admitted"
    BY <2>2 DEF AdmittedRightly
  <2>3. QED
    BY <2>1, <2>2
<1>6. FramesKept'
  BY <1>1, <1>2 DEF IndInv, Reading, FramesKept
<1>7. HeldBriefly'
  BY <1>1 DEF IndInv, HeldBriefly
<1>8. QED
  BY <1>3, <1>4, <1>5, <1>6, <1>7 DEF IndInv

\* Any other byte goes to the end of the line, and the next wait begins.
LEMMA StoreInv ==
    ASSUME IndInv, ReadByte, sent[taken + 1] # "nl"
    PROVE  IndInv'
<1>1. /\ pc = "read" /\ taken < Len(sent) /\ taken' = taken + 1
      /\ buf' = Append(buf, sent[taken + 1])
      /\ pc' = IF Full(Len(buf')) THEN "rejected" ELSE "read"
      /\ waited' = 0 /\ UNCHANGED <<clock, sent, life>>
  BY DEF ReadByte, Kept
<1>2. /\ Len(sent) \in Nat /\ taken \in Nat /\ Len(buf) \in Nat /\ taken = Len(buf)
      /\ sent[taken + 1] \in Bytes /\ buf \in Seq(Bytes)
  BY <1>1, LenProperties DEF IndInv, TypeOK, Reading
<1>3. /\ buf' \in Seq(Bytes) /\ Len(buf') = Len(buf) + 1 /\ Len(buf') = taken'
      /\ \A k \in 1 .. taken : buf'[k] = buf[k]
      /\ buf'[taken'] = sent[taken + 1]
  BY <1>1, <1>2
<1>4. Len(buf') + 1 <= Cap /\ (pc' = "read" => Len(buf') + 1 < Cap)
  BY <1>1, <1>2, <1>3 DEF IndInv, Reading, Full
<1>5. TypeOK'
  BY <1>1, <1>2, <1>3, <1>4 DEF IndInv, TypeOK
<1>6. \A k \in 1 .. taken' : buf'[k] = sent'[k] /\ sent'[k] # "nl"
  BY <1>1, <1>2, <1>3 DEF IndInv, Reading
<1>7. clock' <= Wait * Len(buf') + waited'
  <2>1. clock <= Wait * Len(buf) + waited /\ waited <= Wait /\ clock \in Nat /\ waited \in Nat
    BY <1>1 DEF IndInv, Reading, TypeOK
  <2>2. Wait * Len(buf) \in Nat /\ Wait * (Len(buf) + 1) = Wait * Len(buf) + Wait
    BY <1>2, OneMoreWait
  <2>3. clock <= Wait * (Len(buf) + 1)
    BY <2>1, <2>2
  <2>4. Wait * Len(buf') = Wait * (Len(buf) + 1) /\ Wait * (Len(buf) + 1) \in Nat
    BY <1>3, <2>2
  <2>5. QED
    BY <1>1, <2>3, <2>4
<1>8. Reading' /\ FramesKept'
  BY <1>3, <1>4, <1>6, <1>7 DEF Reading, FramesKept
<1>9. AdmittedRightly' /\ HeldBriefly'
  BY <1>1 DEF IndInv, AdmittedRightly, HeldBriefly
<1>10. QED
  BY <1>5, <1>8, <1>9 DEF IndInv

\* To give up changes nothing but the outcome.
LEMMA GiveUpInv ==
    ASSUME IndInv, GiveUp
    PROVE  IndInv'
BY DEF IndInv, GiveUp, TypeOK, Reading, AdmittedRightly, FramesKept, HeldBriefly

\* Time passes within the current wait only, which is the last the bound counts.
LEMMA TickInv ==
    ASSUME IndInv, Tick
    PROVE  IndInv'
<1>1. /\ pc = "read" /\ waited < Wait /\ waited' = waited + 1 /\ clock' = clock + 1
      /\ UNCHANGED <<pc, buf, sent, taken, life>>
  BY DEF Tick
<1>2. TypeOK'
  BY <1>1 DEF IndInv, TypeOK
<1>3. Len(buf) \in Nat /\ Wait * Len(buf) \in Nat
  BY LenProperties, OneMoreWait DEF IndInv, TypeOK
<1>4. clock \in Nat /\ waited \in Nat /\ clock <= Wait * Len(buf) + waited
  BY <1>1 DEF IndInv, TypeOK, Reading
<1>5. clock' <= Wait * Len(buf') + waited'
  <2>1. Wait * Len(buf') = Wait * Len(buf)
    BY <1>1
  <2>2. QED
    BY <1>1, <1>3, <1>4, <2>1
<1>6. Reading' /\ FramesKept' /\ AdmittedRightly'
  BY <1>1, <1>5 DEF IndInv, Reading, FramesKept, AdmittedRightly
<1>7. HeldBriefly'
  <2>1. Wait * Len(buf) + Wait <= Wait * (Cap - 1)
    BY <1>1, <1>3, OneMoreWait DEF IndInv, Reading
  <2>2. clock + 1 <= Wait * Len(buf) + Wait
    BY <1>1, <1>3, <1>4
  <2>3. Wait * (Cap - 1) \in Int
    OBVIOUS
  <2>4. QED
    BY <1>1, <1>3, <1>4, <2>1, <2>2, <2>3 DEF HeldBriefly
<1>8. QED
  BY <1>2, <1>6, <1>7 DEF IndInv

\* What the caller writes goes behind what the node has taken.
LEMMA WriteByteInv ==
    ASSUME IndInv, WriteByte
    PROVE  IndInv'
<1>1. PICK ch \in Bytes : sent' = Append(sent, ch)
  BY DEF WriteByte
<1>2. pc = "read" /\ UNCHANGED <<pc, buf, waited, clock, taken, life>>
  BY DEF WriteByte
<1>3. /\ sent' \in Seq(Bytes) /\ Len(sent) \in Nat /\ Len(sent') = Len(sent) + 1
      /\ \A k \in 1 .. Len(sent) : sent'[k] = sent[k]
  BY <1>1, LenProperties DEF IndInv, TypeOK
<1>4. \A k \in 1 .. taken : sent'[k] = sent[k]
  BY <1>3 DEF IndInv, TypeOK
<1>5. TypeOK'
  BY <1>2, <1>3 DEF IndInv, TypeOK
<1>6. Reading' /\ FramesKept' /\ AdmittedRightly' /\ HeldBriefly'
  BY <1>2, <1>4 DEF IndInv, Reading, FramesKept, AdmittedRightly, HeldBriefly
<1>7. QED
  BY <1>5, <1>6 DEF IndInv

\* The caller's leaving changes nothing the node has.
LEMMA DepartInv ==
    ASSUME IndInv, Depart
    PROVE  IndInv'
BY DEF IndInv, Depart, TypeOK, Reading, AdmittedRightly, FramesKept, HeldBriefly

\* Once decided, everything stays.
LEMMA NothingInv ==
    ASSUME IndInv, UNCHANGED vars
    PROVE  IndInv'
BY DEF IndInv, vars, TypeOK, Reading, AdmittedRightly, Presents, Mine, FramesKept, HeldBriefly

\* Every step keeps the invariant.
LEMMA NextInv ==
    ASSUME IndInv, [Next]_vars
    PROVE  IndInv'
<1>1. CASE ReadByte
  BY <1>1, NewlineInv, StoreInv
<1>2. CASE GiveUp
  BY <1>2, GiveUpInv
<1>3. CASE Tick
  BY <1>3, TickInv
<1>4. CASE WriteByte
  BY <1>4, WriteByteInv
<1>5. CASE Depart
  BY <1>5, DepartInv
<1>6. CASE Decided \/ UNCHANGED vars
  BY <1>6, NothingInv DEF Decided
<1>7. QED
  BY <1>1, <1>2, <1>3, <1>4, <1>5, <1>6 DEF Next

-----------------------------------------------------------------------------
(* The theorems *)

\* The invariant holds in every behaviour.
THEOREM Invariance == Spec => []IndInv
<1>1. IndInv /\ [Next]_vars => IndInv'
  BY NextInv
<1>2. QED
  BY InitInv, <1>1, PTL DEF Spec

\* b_direct_read_token_line never writes behind token_buf, the NUL included.
THEOREM LineFitsItsBuffer == Spec => []TypeOK
<1>1. IndInv => TypeOK
  BY DEF IndInv
<1>2. QED
  BY Invariance, <1>1, PTL

\* Only the holder of a token this node's key made for this node and network,
\* still in force, is let in, for any set of tokens and anything he may write.
THEOREM OnlyTheEntitledEnter == Spec => []AdmittedRightly
<1>1. IndInv => AdmittedRightly
  BY DEF IndInv
<1>2. QED
  BY Invariance, <1>1, PTL

\* The first message behind the token line is left for ntap_recv_msg, whole.
THEOREM NothingBehindTheLineIsTaken == Spec => []FramesKept
<1>1. IndInv => FramesKept
  BY DEF IndInv
<1>2. QED
  BY Invariance, <1>1, PTL

\* A trickling caller holds the thread for Wait * (Cap - 1) ticks at the most.
THEOREM HoldIsBounded == Spec => []HeldBriefly
<1>1. IndInv => HeldBriefly
  BY DEF IndInv
<1>2. QED
  BY Invariance, <1>1, PTL
=============================================================================
