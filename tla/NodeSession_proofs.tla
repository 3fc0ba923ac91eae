-------------------------- MODULE NodeSession_proofs --------------------------
(***************************************************************************)
(* For any arguments of run, any answers of NTAP-A and any crashes of it:  *)
(* connections are not leaked, a loop runs only behind the whole           *)
(* handshake, a rejection is final, the exit status is earned, and a       *)
(* session that failed is followed by a pause.                             *)
(***************************************************************************)
EXTENDS NodeSession, SequenceTheorems, TLAPS

\* What has been said and heard when the session is at each of its steps.
Shaken ==
    /\ pc \in {"hello", "helloed", "auth", "authed", "config", "loop"} => rc = 1
    /\ pc = "hello" => said = <<>> /\ heard = <<>>
    /\ pc = "helloed" => said = <<"HELLO">> /\ heard = <<>>
    /\ pc = "auth" => said = <<"HELLO">> /\ heard = <<"HELLO">>
    /\ pc = "authed" => said = <<"HELLO", "AUTH_NODE">> /\ heard = <<"HELLO">>
    /\ pc = "config" => said = <<"HELLO", "AUTH_NODE">> /\ heard = <<"HELLO", "AUTH_OK">>
    /\ pc = "loop" =>
        /\ said = <<"HELLO", "AUTH_NODE">>
        /\ \E kind \in Accepted : heard = <<"HELLO", "AUTH_OK", kind>>

\* How the retry loop knows what became of the last session.
Judged ==
    /\ pc = "begin" => rc = 0 \/ rested
    /\ pc = "sleep" => rc # 0

\* Sessions that were counted were attempted; the attempt under way is not yet.
Counted ==
    /\ pc \in {"begin", "connect"} /\ rc = 0 => sessions > 0
    /\ opt.attempts > 0 =>
        /\ sessions <= attempt
        /\ pc \in Session \cup {"connect", "over"} => sessions < attempt

Promises == Entitled /\ RejectionIsFinal /\ StatusIsEarned /\ BacksOff

IndInv == TypeOK /\ OneConnection /\ Shaken /\ Judged /\ Counted /\ Promises

USE NodeSessionAssumption

Steps == {"hello", "helloed", "auth", "authed", "config", "loop"}

-----------------------------------------------------------------------------
(* What the steps are made of *)

\* Two messages, one behind the other.
LEMMA Pair ==
    ASSUME NEW a, NEW b
    PROVE  Append(<<a>>, b) = <<a, b>>
<1> DEFINE S == {a, b}
<1>1. <<a>> \in Seq(S) /\ b \in S /\ <<a, b>> \in Seq(S) /\ Len(<<a>>) = 1 /\ Len(<<a, b>>) = 2
  OBVIOUS
<1>2. /\ Append(<<a>>, b) \in Seq(S) /\ Len(Append(<<a>>, b)) = 2
      /\ Append(<<a>>, b)[1] = a /\ Append(<<a>>, b)[2] = b
  BY <1>1
<1>3. \A i \in 1 .. 2 : Append(<<a>>, b)[i] = <<a, b>>[i]
  BY <1>2
<1>4. QED
  BY <1>1, <1>2, <1>3, SeqEqual

\* Three messages, one behind the other.
LEMMA Triple ==
    ASSUME NEW a, NEW b, NEW c
    PROVE  Append(<<a, b>>, c) = <<a, b, c>>
<1> DEFINE S == {a, b, c}
<1>1. /\ <<a, b>> \in Seq(S) /\ c \in S /\ <<a, b, c>> \in Seq(S)
      /\ Len(<<a, b>>) = 2 /\ Len(<<a, b, c>>) = 3
  OBVIOUS
<1>2. /\ Append(<<a, b>>, c) \in Seq(S) /\ Len(Append(<<a, b>>, c)) = 3
      /\ Append(<<a, b>>, c)[1] = a /\ Append(<<a, b>>, c)[2] = b
      /\ Append(<<a, b>>, c)[3] = c
  BY <1>1
<1>3. \A i \in 1 .. 3 : Append(<<a, b>>, c)[i] = <<a, b, c>>[i]
  BY <1>2
<1>4. QED
  BY <1>1, <1>2, <1>3, SeqEqual

\* Only a session that is over, or on its way out, can have been rejected.
LEMMA NotYetRejected ==
    ASSUME IndInv, pc \notin {"done", "over", "exit"}
    PROVE  ~Rejected /\ rc # 3
BY DEF IndInv, Promises, RejectionIsFinal

\* A message other than AUTH_FAIL is no rejection.
LEMMA HearingIsNotRejection ==
    ASSUME IndInv, ~Rejected, NEW kind \in AllKinds, kind # "AUTH_FAIL",
           heard' = Append(heard, kind)
    PROVE  heard' \in Seq(AllKinds) /\ ~Rejected'
<1>1. heard \in Seq(AllKinds) /\ \A k \in 1 .. Len(heard) : heard[k] # "AUTH_FAIL"
  BY DEF IndInv, TypeOK, Rejected
<1>2. /\ heard' \in Seq(AllKinds) /\ Len(heard') = Len(heard) + 1
      /\ \A k \in 1 .. Len(heard') : heard'[k] # "AUTH_FAIL"
  BY <1>1
<1>3. QED
  BY <1>2 DEF Rejected

\* goto done with any code but 3.
LEMMA GiveInv ==
    ASSUME IndInv, pc \in Steps, NEW code \in {-1, 0, 1}, Give(code)
    PROVE  IndInv'
<1>1. /\ pc' = "done" /\ rc' = code
      /\ UNCHANGED <<opt, attempt, sessions, fd, conn, server, orphan, said, heard, rested>>
  BY DEF Give, Goto
<1>2. TypeOK' /\ OneConnection' /\ Shaken' /\ Judged'
  BY <1>1 DEF IndInv, TypeOK, OneConnection, Shaken, Judged, Session, Steps
<1>3. Counted'
  BY <1>1 DEF IndInv, Counted, Session, Steps
<1>4. RejectionIsFinal'
  <2>1. ~Rejected
    BY NotYetRejected DEF Steps
  <2>2. QED
    BY <1>1, <2>1 DEF RejectionIsFinal, Rejected
<1>5. Entitled' /\ StatusIsEarned' /\ BacksOff'
  BY <1>1 DEF Entitled, StatusIsEarned, BacksOff
<1>6. QED
  BY <1>2, <1>3, <1>4, <1>5 DEF IndInv, Promises

\* The process ends by SIGPIPE.
LEMMA KilledInv ==
    ASSUME IndInv, pc \in Steps, Killed
    PROVE  IndInv'
<1>1. /\ pc' = "killed" /\ rc' = 1 /\ fd' = 0
      /\ UNCHANGED <<opt, attempt, sessions, conn, server, orphan, said, heard, rested>>
  BY DEF Killed
<1>2. TypeOK' /\ OneConnection' /\ Shaken' /\ Judged'
  BY <1>1 DEF IndInv, TypeOK, OneConnection, Shaken, Judged, Session, Exited
<1>3. Counted'
  BY <1>1 DEF IndInv, Counted, Session
<1>4. RejectionIsFinal'
  <2>1. ~Rejected
    BY NotYetRejected DEF Steps
  <2>2. QED
    BY <1>1, <2>1 DEF RejectionIsFinal, Rejected
<1>5. Entitled' /\ StatusIsEarned' /\ BacksOff'
  BY <1>1 DEF Entitled, StatusIsEarned, BacksOff
<1>6. QED
  BY <1>2, <1>3, <1>4, <1>5 DEF IndInv, Promises

\* The three messages before a loop are those that entitle to it.
LEMMA ShakenEntitles == Shaken => Entitled
<1> SUFFICES ASSUME Shaken, pc = "loop"
             PROVE  Entitled
  BY DEF Entitled
<1>1. PICK kind \in Accepted : heard = <<"HELLO", "AUTH_OK", kind>>
  BY DEF Shaken
<1>2. QED
  BY <1>1 DEF Shaken, Entitled, Accepted

\* On to the next step of the handshake with the right things said and heard.
LEMMA NextStepInv ==
    ASSUME IndInv, pc \in Steps, NEW to \in Steps, Goto(to), rc' = rc,
           rested' = rested, conn' \in Connections(AllKinds),
           said' \in Seq({"HELLO", "AUTH_NODE"}), heard' \in Seq(AllKinds),
           ~Rejected', Shaken'
    PROVE  IndInv'
<1>1. pc' = to /\ UNCHANGED <<opt, attempt, sessions, rc, fd, server, orphan, rested>>
  BY DEF Goto
<1>2. TypeOK' /\ OneConnection' /\ Judged'
  BY <1>1 DEF IndInv, TypeOK, OneConnection, Judged, Session, Steps
<1>3. Counted'
  BY <1>1 DEF IndInv, Counted, Session, Steps
<1>4. RejectionIsFinal'
  BY <1>1, NotYetRejected DEF RejectionIsFinal, Steps
<1>5. Entitled'
  BY ShakenEntitles, PTL
<1>6. StatusIsEarned' /\ BacksOff'
  BY <1>1 DEF StatusIsEarned, BacksOff, Steps
<1>7. QED
  BY <1>6, <1>2, <1>3, <1>4, <1>5 DEF IndInv, Promises

\* Taking a message leaves a connection.
LEMMA TakenTyped ==
    ASSUME NEW c \in Connections(AllKinds), c.in # <<>>
    PROVE  Taken(c) \in Connections(AllKinds) /\ Head(c.in) \in AllKinds
<1>1. c.in \in Seq(AllKinds)
  BY DEF Connections
<1>2. Tail(c.in) \in Seq(AllKinds) /\ Head(c.in) \in AllKinds
  BY <1>1
<1>3. QED
  BY <1>2 DEF Taken, Connections

\* One receive of the handshake, when what comes next is in order.
LEMMA ExpectInv ==
    ASSUME IndInv, pc \in Steps, NEW right, NEW to \in Steps, Expect(right, to),
           "AUTH_FAIL" \notin right,
           \A kind \in right : pc' = to /\ heard' = Append(heard, kind)
                                 /\ said' = said /\ rc' = rc /\ opt' = opt => Shaken'
    PROVE  IndInv'
<1>1. CASE RecvFails(conn) \/ Head(conn.in) \notin right
  <2>1. Give(1)
    BY <1>1 DEF Expect
  <2>2. QED
    BY <2>1, GiveInv
<1>2. CASE ~RecvFails(conn) /\ Head(conn.in) \in right
  <2>1. /\ Goto(to) /\ conn' = Taken(conn) /\ heard' = Append(heard, Head(conn.in))
        /\ UNCHANGED <<rc, said, rested>>
    BY <1>2 DEF Expect
  <2>2. conn.in # <<>> /\ conn \in Connections(AllKinds)
    BY <1>2 DEF Expect, RecvReturns, RecvFails, IndInv, TypeOK
  <2>3. conn' \in Connections(AllKinds) /\ Head(conn.in) \in AllKinds
    BY <2>1, <2>2, TakenTyped
  <2>4. ~Rejected
    BY NotYetRejected DEF Steps
  <2>5. heard' \in Seq(AllKinds) /\ ~Rejected'
    BY <1>2, <2>1, <2>3, <2>4, HearingIsNotRejection
  <2>6. Shaken'
    BY <1>2, <2>1 DEF Goto
  <2>7. said' \in Seq({"HELLO", "AUTH_NODE"})
    BY <2>1 DEF IndInv, TypeOK
  <2>8. QED
    BY <2>1, <2>3, <2>5, <2>6, <2>7, NextStepInv
<1>3. QED
  BY <1>1, <1>2

\* One send of the handshake, when it was the turn of that message.
LEMMA SendInv ==
    ASSUME IndInv, pc \in Steps, NEW kind \in {"HELLO", "AUTH_NODE"}, NEW to \in Steps,
           Send(kind, to),
           pc' = to /\ said' = Append(said, kind) /\ heard' = heard /\ rc' = rc => Shaken'
    PROVE  IndInv'
<1>1. CASE Lost(conn)
  <2>1. Give(1) \/ Killed
    BY <1>1 DEF Send, Lost
  <2>2. QED
    BY <2>1, GiveInv, KilledInv
<1>2. CASE ~Lost(conn)
  <2>1. Goto(to) /\ said' = Append(said, kind) /\ UNCHANGED <<rc, conn, heard, rested>>
    BY <1>2 DEF Send, Lost
  <2>2. Shaken'
    BY <2>1 DEF Goto
  <2>3. said' \in Seq({"HELLO", "AUTH_NODE"})
    <3>1. said \in Seq({"HELLO", "AUTH_NODE"})
      BY DEF IndInv, TypeOK
    <3>2. QED
      BY <2>1, <3>1
  <2>4. heard' \in Seq(AllKinds) /\ conn' \in Connections(AllKinds)
    BY <2>1 DEF IndInv, TypeOK
  <2>5. ~Rejected'
    <3>1. ~Rejected
      BY NotYetRejected DEF Steps
    <3>2. QED
      BY <2>1, <3>1 DEF Rejected
  <2>6. QED
    BY <2>1, <2>2, <2>3, <2>4, <2>5, NextStepInv
<1>3. QED
  BY <1>1, <1>2

-----------------------------------------------------------------------------
(* The steps *)

\* The process starts with no session behind it.
LEMMA InitInv == Init => IndInv
<1> SUFFICES ASSUME Init PROVE IndInv
  OBVIOUS
<1>1. opt \in [once : BOOLEAN, tap : BOOLEAN, attempts : Nat, sessions : Nat]
  BY DEF Init
<1>2. TypeOK
  <2>1. conn \in Connections(AllKinds)
    BY DEF Init, Fresh, Connections
  <2>2. said \in Seq({"HELLO", "AUTH_NODE"}) /\ heard \in Seq(AllKinds)
    BY DEF Init
  <2>3. QED
    BY <2>1, <2>2 DEF Init, TypeOK
<1>3. OneConnection /\ Shaken /\ Judged
  BY DEF Init, OneConnection, Shaken, Judged, Session
<1>4. Counted /\ Promises
  BY <1>1 DEF Init, Counted, Promises, Entitled, RejectionIsFinal, Rejected,
              StatusIsEarned, BacksOff, Session
<1>5. QED
  BY <1>2, <1>3, <1>4 DEF IndInv

\* The head of the retry loop: the limits are looked at before an attempt.
LEMMA BeginInv == IndInv /\ Begin => IndInv'
<1> SUFFICES ASSUME IndInv, Begin PROVE IndInv'
  OBVIOUS
<1>1. /\ pc = "begin"
      /\ UNCHANGED <<opt, sessions, fd, conn, server, orphan, said, heard, rested>>
  BY DEF Begin
<1>2. /\ opt.attempts \in Nat /\ opt.sessions \in Nat /\ attempt \in Nat /\ sessions \in Nat
      /\ rc \in {-1, 0, 1, 3}
  BY DEF IndInv, TypeOK
<1>3. ~Rejected /\ rc # 3 /\ ~Rejected'
  <2>1. ~Rejected /\ rc # 3
    BY <1>1, NotYetRejected
  <2>2. QED
    BY <1>1, <2>1 DEF Rejected
<1>4. CASE ~opt.once /\ (Enough \/ Tried)
  <2>1. pc' = "exit" /\ rc' = (IF Enough THEN 0 ELSE rc) /\ attempt' = attempt
    BY <1>4 DEF Begin, Exhausted
  <2>2. TypeOK' /\ OneConnection' /\ Shaken' /\ Judged' /\ Counted'
    BY <1>1, <1>2, <2>1
    DEF IndInv, TypeOK, OneConnection, Shaken, Judged, Counted, Session, Exited
  <2>3. StatusIsEarned'
    BY <1>1, <1>2, <1>4, <2>1 DEF IndInv, Counted, StatusIsEarned, Enough, Tried
  <2>4. Entitled' /\ BacksOff' /\ RejectionIsFinal'
    BY <1>2, <1>3, <2>1 DEF Entitled, BacksOff, RejectionIsFinal
  <2>5. QED
    BY <2>2, <2>3, <2>4 DEF IndInv, Promises
<1>5. CASE ~(~opt.once /\ (Enough \/ Tried))
  <2>1. /\ pc' = "connect" /\ rc' = rc
        /\ attempt' = IF opt.attempts > 0 THEN attempt + 1 ELSE attempt
    BY <1>5 DEF Begin
  <2>2. TypeOK' /\ OneConnection' /\ Shaken' /\ Judged'
    BY <1>1, <1>2, <2>1 DEF IndInv, TypeOK, OneConnection, Shaken, Judged, Session, Exited
  <2>3. Counted'
    BY <1>1, <1>2, <2>1 DEF IndInv, Counted
  <2>4. BacksOff'
    BY <1>1, <2>1 DEF IndInv, Judged, BacksOff
  <2>5. Entitled' /\ StatusIsEarned' /\ RejectionIsFinal'
    BY <1>3, <2>1 DEF Entitled, StatusIsEarned, RejectionIsFinal
  <2>6. QED
    BY <2>2, <2>3, <2>4, <2>5 DEF IndInv, Promises
<1>6. QED
  BY <1>4, <1>5

\* Connecting begins a session with nothing said and nothing heard.
LEMMA ConnectInv == IndInv /\ Connect => IndInv'
<1> SUFFICES ASSUME IndInv, Connect PROVE IndInv'
  OBVIOUS
<1>1. /\ pc = "connect" /\ pc' \in {"over", "hello"} /\ rc' = 1
      /\ said' = <<>> /\ heard' = <<>> /\ rested' = FALSE
      /\ fd' = (IF pc' = "hello" THEN fd + 1 ELSE fd) /\ conn' \in {conn, Fresh}
      /\ UNCHANGED <<opt, attempt, sessions, server, orphan>>
  BY DEF Connect
<1>2. TypeOK'
  <2>1. conn' \in Connections(AllKinds)
    <3>1. Fresh \in Connections(AllKinds)
      BY DEF Fresh, Connections
    <3>2. QED
      BY <1>1, <3>1 DEF IndInv, TypeOK
  <2>2. said' \in Seq({"HELLO", "AUTH_NODE"}) /\ heard' \in Seq(AllKinds)
    BY <1>1
  <2>3. /\ fd' \in Nat /\ rc' = 1 /\ rested' = FALSE
        /\ pc' \in Session \cup Exited \cup {"begin", "connect", "over", "sleep"}
    <3>1. fd \in Nat
      BY DEF IndInv, TypeOK
    <3>2. QED
      BY <1>1, <3>1 DEF Session
  <2>4. /\ opt' \in Options /\ attempt' \in Nat /\ sessions' \in Nat
        /\ server' \in {"down", "up", "odd"} /\ orphan' \in BOOLEAN
    BY <1>1 DEF IndInv, TypeOK
  <2>5. QED
    BY <2>1, <2>2, <2>3, <2>4 DEF TypeOK
<1>3. OneConnection' /\ Shaken' /\ Judged'
  BY <1>1 DEF IndInv, OneConnection, Shaken, Judged, Session
<1>4. Counted'
  BY <1>1 DEF IndInv, Counted, Session
<1>5. RejectionIsFinal'
  BY <1>1 DEF RejectionIsFinal, Rejected
<1>6. Entitled' /\ StatusIsEarned' /\ BacksOff'
  BY <1>1 DEF Entitled, StatusIsEarned, BacksOff
<1>7. QED
  BY <1>2, <1>3, <1>4, <1>5, <1>6 DEF IndInv, Promises

\* HELLO goes out first.
LEMMA SayHelloInv == IndInv /\ SayHello => IndInv'
<1> SUFFICES ASSUME IndInv, SayHello PROVE IndInv'
  OBVIOUS
<1>1. pc = "hello" /\ pc \in Steps
  BY DEF SayHello, Steps
<1>2. pc' = "helloed" /\ said' = Append(said, "HELLO") /\ heard' = heard /\ rc' = rc => Shaken'
  BY <1>1 DEF IndInv, Shaken
<1>3. CASE Give(1)
  BY <1>1, <1>3, GiveInv
<1>4. CASE Send("HELLO", "helloed")
  BY <1>1, <1>2, <1>4, SendInv DEF Steps
<1>5. QED
  BY <1>3, <1>4 DEF SayHello

\* Then HELLO must come back.
LEMMA HearHelloInv == IndInv /\ HearHello => IndInv'
<1> SUFFICES ASSUME IndInv, HearHello PROVE IndInv'
  OBVIOUS
<1>1. pc = "helloed" /\ pc \in Steps /\ Expect({"HELLO"}, "auth")
  BY DEF HearHello, Steps
<1>2. pc' = "auth" /\ heard' = Append(heard, "HELLO") /\ said' = said /\ rc' = rc => Shaken'
  BY <1>1 DEF IndInv, Shaken
<1>3. QED
  BY <1>1, <1>2, ExpectInv DEF Steps

\* AUTH_NODE goes out behind the HELLOs.
LEMMA SayAuthInv == IndInv /\ SayAuth => IndInv'
<1> SUFFICES ASSUME IndInv, SayAuth PROVE IndInv'
  OBVIOUS
<1>1. pc = "auth" /\ pc \in Steps
  BY DEF SayAuth, Steps
<1>2. pc' = "authed" /\ said' = Append(said, "AUTH_NODE") /\ heard' = heard /\ rc' = rc => Shaken'
  <2>1. said = <<"HELLO">> /\ heard = <<"HELLO">> /\ rc = 1
    BY <1>1 DEF IndInv, Shaken
  <2>2. Append(said, "AUTH_NODE") = <<"HELLO", "AUTH_NODE">>
    BY <2>1, Pair
  <2>3. QED
    BY <2>1, <2>2 DEF Shaken
<1>3. CASE Give(1)
  BY <1>1, <1>3, GiveInv
<1>4. CASE Send("AUTH_NODE", "authed")
  BY <1>1, <1>2, <1>4, SendInv DEF Steps
<1>5. QED
  BY <1>3, <1>4 DEF SayAuth

\* AUTH_FAIL gives 3, and this is the only place that does.
LEMMA HearAuthInv == IndInv /\ HearAuth => IndInv'
<1> SUFFICES ASSUME IndInv, HearAuth PROVE IndInv'
  OBVIOUS
<1>1. pc = "authed" /\ pc \in Steps
  BY DEF HearAuth, Steps
<1>2. CASE conn.in # <<>> /\ Head(conn.in) = "AUTH_FAIL"
  <2>1. /\ pc' = "done" /\ rc' = 3 /\ conn' = Taken(conn)
        /\ heard' = Append(heard, "AUTH_FAIL")
        /\ UNCHANGED <<opt, attempt, sessions, fd, server, orphan, said, rested>>
    BY <1>2 DEF HearAuth, Goto
  <2>2. conn' \in Connections(AllKinds)
    BY <1>2, <2>1, TakenTyped DEF IndInv, TypeOK
  <2>3. heard' \in Seq(AllKinds) /\ Rejected'
    <3>1. heard \in Seq(AllKinds) /\ "AUTH_FAIL" \in AllKinds
      BY DEF IndInv, TypeOK, AllKinds
    <3>2. /\ heard' \in Seq(AllKinds) /\ Len(heard) + 1 \in DOMAIN heard'
          /\ heard'[Len(heard) + 1] = "AUTH_FAIL"
      BY <2>1, <3>1
    <3>3. QED
      BY <3>2 DEF Rejected
  <2>4. TypeOK' /\ OneConnection' /\ Shaken' /\ Judged'
    BY <1>1, <2>1, <2>2, <2>3
    DEF IndInv, TypeOK, OneConnection, Shaken, Judged, Session
  <2>5. Counted'
    BY <1>1, <2>1 DEF IndInv, Counted, Session
  <2>6. Promises'
    BY <2>1, <2>3 DEF Promises, Entitled, RejectionIsFinal, StatusIsEarned, BacksOff
  <2>7. QED
    BY <2>4, <2>5, <2>6 DEF IndInv
<1>3. CASE ~(conn.in # <<>> /\ Head(conn.in) = "AUTH_FAIL")
  <2>1. Expect({"AUTH_OK"}, "config")
    BY <1>3 DEF HearAuth
  <2>2. pc' = "config" /\ heard' = Append(heard, "AUTH_OK") /\ said' = said /\ rc' = rc => Shaken'
    <3>1. said = <<"HELLO", "AUTH_NODE">> /\ heard = <<"HELLO">> /\ rc = 1
      BY <1>1 DEF IndInv, Shaken
    <3>2. Append(heard, "AUTH_OK") = <<"HELLO", "AUTH_OK">>
      BY <3>1, Pair
    <3>3. QED
      BY <3>1, <3>2 DEF Shaken
  <2>3. "AUTH_FAIL" \notin {"AUTH_OK"} /\ "config" \in Steps
    BY DEF Steps
  <2>4. \A kind \in {"AUTH_OK"} : pc' = "config" /\ heard' = Append(heard, kind)
            /\ said' = said /\ rc' = rc /\ opt' = opt => Shaken'
    BY <2>2
  <2>5. QED
    BY <1>1, <2>1, <2>3, <2>4, ExpectInv
<1>4. QED
  BY <1>2, <1>3

\* The loop is reached with the configuration the mode needs.
LEMMA HearConfigInv == IndInv /\ HearConfig => IndInv'
<1> SUFFICES ASSUME IndInv, HearConfig PROVE IndInv'
  OBVIOUS
<1>1. pc = "config" /\ pc \in Steps /\ Expect(Accepted, "loop")
  BY DEF HearConfig, Steps
<1>2. ASSUME NEW kind \in Accepted,
             pc' = "loop" /\ heard' = Append(heard, kind) /\ said' = said /\ rc' = rc
               /\ opt' = opt
      PROVE  Shaken'
  <2>1. said = <<"HELLO", "AUTH_NODE">> /\ heard = <<"HELLO", "AUTH_OK">> /\ rc = 1
    BY <1>1 DEF IndInv, Shaken
  <2>2. heard' = <<"HELLO", "AUTH_OK", kind>>
    BY <1>2, <2>1, Triple
  <2>3. kind \in Accepted'
    <3>1. opt' = opt
      BY <1>2
    <3>2. Accepted' = Accepted
      BY <3>1 DEF Accepted
    <3>3. QED
      BY <1>2, <3>2
  <2>4. QED
    BY <1>2, <2>1, <2>2, <2>3 DEF Shaken
<1>3. "AUTH_FAIL" \notin Accepted
  BY DEF Accepted
<1>4. QED
  BY <1>1, <1>2, <1>3, ExpectInv DEF Steps

\* A loop gives back a code, or the process is killed in it.
LEMMA LoopInv == IndInv /\ Loop => IndInv'
<1> SUFFICES ASSUME IndInv, Loop PROVE IndInv'
  OBVIOUS
<1>1. pc \in Steps
  BY DEF Loop, Steps
<1>2. CASE Killed
  BY <1>1, <1>2, KilledInv
<1>3. CASE \E code \in {-1, 0, 1} : Give(code)
  BY <1>1, <1>3, GiveInv
<1>4. QED
  BY <1>2, <1>3 DEF Loop

\* The connection is closed, on every way out.
LEMMA LeaveSessionInv == IndInv /\ LeaveSession => IndInv'
<1> SUFFICES ASSUME IndInv, LeaveSession PROVE IndInv'
  OBVIOUS
<1>1. /\ pc = "done" /\ pc' = "over" /\ fd' = fd - 1 /\ conn' = Fresh /\ orphan' = FALSE
      /\ UNCHANGED <<opt, attempt, sessions, rc, server, said, heard, rested>>
  BY DEF LeaveSession, CloseFd
<1>2. fd = 1
  BY <1>1 DEF IndInv, OneConnection, Session
<1>3. TypeOK'
  <2>1. conn' \in Connections(AllKinds)
    <3>1. Fresh \in Connections(AllKinds)
      BY DEF Fresh, Connections
    <3>2. QED
      BY <1>1, <3>1
  <2>2. fd' \in Nat /\ orphan' = FALSE /\ pc' = "over"
    <3>1. fd' = 0
      BY <1>1, <1>2
    <3>2. QED
      BY <1>1, <3>1
  <2>3. /\ opt' \in Options /\ attempt' \in Nat /\ sessions' \in Nat
        /\ rc' \in {-1, 0, 1, 3} /\ server' \in {"down", "up", "odd"}
        /\ said' \in Seq({"HELLO", "AUTH_NODE"}) /\ heard' \in Seq(AllKinds)
        /\ rested' \in BOOLEAN
    BY <1>1 DEF IndInv, TypeOK
  <2>4. QED
    BY <2>1, <2>2, <2>3 DEF TypeOK
<1>4. OneConnection' /\ Shaken' /\ Judged'
  BY <1>1, <1>2 DEF OneConnection, Shaken, Judged, Session
<1>5. Counted'
  BY <1>1 DEF IndInv, Counted, Session
<1>6. RejectionIsFinal'
  BY <1>1 DEF IndInv, Promises, RejectionIsFinal, Rejected
<1>7. Entitled' /\ StatusIsEarned' /\ BacksOff'
  BY <1>1 DEF Entitled, StatusIsEarned, BacksOff
<1>8. QED
  BY <1>3, <1>4, <1>5, <1>6, <1>7 DEF IndInv, Promises

\* Exit on a rejection or with --once, a pause behind a failure, otherwise on.
LEMMA JudgeInv == IndInv /\ Judge => IndInv'
<1> SUFFICES ASSUME IndInv, Judge PROVE IndInv'
  OBVIOUS
<1>1. /\ pc = "over"
      /\ pc' = IF opt.once \/ rc = 3 THEN "exit" ELSE IF rc \notin {0, 3} THEN "sleep" ELSE "begin"
      /\ sessions' = IF rc = 0 /\ (opt.sessions > 0 \/ opt.attempts > 0 \/ sessions = 0)
                     THEN sessions + 1 ELSE sessions
      /\ UNCHANGED <<opt, attempt, rc, fd, conn, server, orphan, said, heard, rested>>
  BY DEF Judge, Sleeps
<1>2. /\ opt.attempts \in Nat /\ opt.sessions \in Nat /\ opt.once \in BOOLEAN
      /\ sessions \in Nat /\ attempt \in Nat /\ sessions' \in Nat
  BY <1>1 DEF IndInv, TypeOK
<1>3. pc' \in {"exit", "sleep", "begin"} /\ (rc = 0 => sessions' > 0)
  BY <1>1, <1>2
<1>4. TypeOK'
  BY <1>1, <1>2, <1>3 DEF IndInv, TypeOK, Exited
<1>5. OneConnection' /\ Shaken' /\ Judged'
  BY <1>1, <1>3 DEF IndInv, OneConnection, Shaken, Judged, Session
<1>6. opt.attempts > 0 => sessions' <= attempt
  BY <1>1, <1>2 DEF IndInv, Counted
<1>7. Counted'
  BY <1>1, <1>3, <1>6 DEF Counted, Session
<1>8. StatusIsEarned'
  <2>1. pc' = "exit" /\ rc' = 0 => opt'.once
    BY <1>1
  <2>2. QED
    BY <1>1, <1>3, <1>6, <2>1 DEF StatusIsEarned
<1>9. RejectionIsFinal'
  BY <1>1 DEF IndInv, Promises, RejectionIsFinal, Rejected
<1>10. Entitled' /\ BacksOff'
  BY <1>3 DEF Entitled, BacksOff
<1>11. QED
  BY <1>4, <1>5, <1>7, <1>8, <1>9, <1>10 DEF IndInv, Promises

\* After the pause the next session may begin.
LEMMA SleepInv == IndInv /\ Sleep => IndInv'
<1> SUFFICES ASSUME IndInv, Sleep PROVE IndInv'
  OBVIOUS
<1>1. /\ pc = "sleep" /\ pc' = "begin" /\ rested' = TRUE
      /\ UNCHANGED <<opt, attempt, sessions, rc, fd, conn, server, orphan, said, heard>>
  BY DEF Sleep, Goto
<1>2. TypeOK' /\ OneConnection' /\ Shaken' /\ Judged'
  BY <1>1 DEF IndInv, TypeOK, OneConnection, Shaken, Judged, Session
<1>3. Counted'
  BY <1>1 DEF IndInv, Judged, Counted, Session
<1>4. RejectionIsFinal'
  BY <1>1 DEF IndInv, Promises, RejectionIsFinal, Rejected
<1>5. Entitled' /\ StatusIsEarned' /\ BacksOff'
  BY <1>1 DEF Entitled, StatusIsEarned, BacksOff
<1>6. QED
  BY <1>2, <1>3, <1>4, <1>5 DEF IndInv, Promises

\* NTAP-A changes the connection, and none of the node's own state.
LEMMA ServerInv ==
    ASSUME IndInv, UNCHANGED <<node, said, heard, rested>>,
           conn' \in Connections(AllKinds), server' \in {"down", "up", "odd"},
           orphan' \in BOOLEAN
    PROVE  IndInv'
<1>1. UNCHANGED <<pc, opt, attempt, sessions, rc, fd, said, heard, rested>>
  BY DEF node
<1>2. TypeOK'
  BY <1>1 DEF IndInv, TypeOK
<1>3. OneConnection' /\ Shaken' /\ Judged' /\ Counted'
  BY <1>1 DEF IndInv, OneConnection, Shaken, Judged, Counted, Accepted
<1>4. Promises'
  BY <1>1 DEF IndInv, Promises, Entitled, RejectionIsFinal, Rejected, StatusIsEarned,
              Enough, Tried, BacksOff
<1>5. QED
  BY <1>2, <1>3, <1>4 DEF IndInv

\* What NTAP-A can do leaves a connection.
LEMMA ServerStepTyped ==
    ASSUME IndInv, ServerStep
    PROVE  /\ UNCHANGED <<node, said, heard, rested>> /\ conn' \in Connections(AllKinds)
           /\ server' \in {"down", "up", "odd"} /\ orphan' \in BOOLEAN
<1>1. /\ conn \in Connections(AllKinds) /\ server \in {"down", "up", "odd"}
      /\ orphan \in BOOLEAN
  BY DEF IndInv, TypeOK
<1>2. CASE Answer
  <2>1. UNCHANGED <<node, server, orphan, said, heard, rested>>
    BY <1>2 DEF Answer
  <2>2. (IF server = "up" THEN Proper ELSE Kinds) \subseteq AllKinds
    BY DEF Proper, AllKinds
  <2>3. PICK kind \in AllKinds : conn' = [conn EXCEPT !.in = Append(@, kind), !.part = FALSE]
    BY <1>2, <2>2 DEF Answer, Arrivals
  <2>4. conn.in \in Seq(AllKinds)
    BY <1>1 DEF Connections
  <2>5. Append(conn.in, kind) \in Seq(AllKinds)
    BY <2>4
  <2>6. conn' \in Connections(AllKinds)
    BY <1>1, <2>3, <2>5 DEF Connections
  <2>7. QED
    BY <1>1, <2>1, <2>6
<1>3. CASE Misbehave \/ Resume
  <2>1. /\ UNCHANGED <<node, server, orphan, said, heard, rested>>
        /\ conn' \in Endings(conn) \cup Resets(conn) \cup Stalls(conn) \cup Resumes(conn)
    BY <1>3 DEF Misbehave, Resume
  <2>2. conn' \in Connections(AllKinds)
    BY <1>1, <2>1 DEF Endings, Resets, Stalls, Resumes, Connections
  <2>3. QED
    BY <1>1, <2>1, <2>2
<1>4. CASE Restart
  <2>1. /\ UNCHANGED <<node, said, heard, rested>> /\ server' \in {"down", "up", "odd"}
        /\ conn' \in {conn} \cup Resets(conn) /\ orphan' \in {orphan, TRUE}
    BY <1>4 DEF Restart
  <2>2. conn' \in Connections(AllKinds)
    BY <1>1, <2>1 DEF Resets, Connections
  <2>3. QED
    BY <1>1, <2>1, <2>2
<1>5. QED
  BY <1>2, <1>3, <1>4 DEF ServerStep

\* Every step keeps the invariant.
LEMMA NextInv == IndInv /\ [Next]_vars => IndInv'
<1> SUFFICES ASSUME IndInv, [Next]_vars PROVE IndInv'
  OBVIOUS
<1>1. CASE NodeStep
  BY <1>1, BeginInv, ConnectInv, SayHelloInv, HearHelloInv, SayAuthInv, HearAuthInv,
     HearConfigInv, LoopInv, LeaveSessionInv, JudgeInv, SleepInv DEF NodeStep
<1>2. CASE ServerStep
  BY <1>2, ServerStepTyped, ServerInv
<1>3. CASE Stopped \/ UNCHANGED vars
  <2>1. UNCHANGED <<node, said, heard, rested>> /\ UNCHANGED <<conn, server, orphan>>
    BY <1>3 DEF Stopped, vars, node
  <2>2. /\ conn' \in Connections(AllKinds) /\ server' \in {"down", "up", "odd"}
        /\ orphan' \in BOOLEAN
    BY <2>1 DEF IndInv, TypeOK
  <2>3. QED
    BY <2>1, <2>2, ServerInv
<1>4. QED
  BY <1>1, <1>2, <1>3 DEF Next

-----------------------------------------------------------------------------
(* The theorems *)

\* The invariant holds in every behaviour.
THEOREM Invariance == Spec => []IndInv
BY InitInv, NextInv, PTL DEF Spec

\* The variables keep to their types for every set of arguments.
THEOREM TypeCorrect == Spec => []TypeOK
<1>1. IndInv => TypeOK
  BY DEF IndInv
<1>2. QED
  BY Invariance, <1>1, PTL

\* One control connection while a session lasts and none else, over any number
\* of sessions and on every way out of one.
THEOREM NoConnectionLeaks == Spec => []OneConnection
<1>1. IndInv => OneConnection
  BY DEF IndInv
<1>2. QED
  BY Invariance, <1>1, PTL

\* No answer, and no order of answers, gets the node into a loop without the
\* whole handshake.
THEOREM LoopsAreEntitled == Spec => []Entitled
<1>1. IndInv => Entitled
  BY DEF IndInv, Promises
<1>2. QED
  BY Invariance, <1>1, PTL

\* Status 3 and the end of all attempts go with AUTH_FAIL, and with nothing else.
THEOREM RejectedForGood == Spec => []RejectionIsFinal
<1>1. IndInv => RejectionIsFinal
  BY DEF IndInv, Promises
<1>2. QED
  BY Invariance, <1>1, PTL

\* For any limits of attempts and sessions, status 0 says that they were met.
THEOREM StatusCanBeTrusted == Spec => []StatusIsEarned
<1>1. IndInv => StatusIsEarned
  BY DEF IndInv, Promises
<1>2. QED
  BY Invariance, <1>1, PTL

\* Behind a failed session the node sleeps before it connects again.
THEOREM FailuresArePaused == Spec => []BacksOff
<1>1. IndInv => BacksOff
  BY DEF IndInv, Promises
<1>2. QED
  BY Invariance, <1>1, PTL
=============================================================================
