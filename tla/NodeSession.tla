----------------------------- MODULE NodeSession -----------------------------
(***************************************************************************)
(* run_session and ntap_b_control_run_loop of src/b/control_client.c as    *)
(* main.c starts them: connect to NTAP-A, exchange HELLOs, authenticate,   *)
(* receive CONFIG_PUSH, run one of the two loops, close the connection,    *)
(* and decide from the session's return code whether to go on, to wait a   *)
(* second and try again, or to exit.                                       *)
(*                                                                         *)
(* The loops are modules of their own (TapLoop, ControlLoop); here a loop  *)
(* is one step that gives the code those modules return: -1 from a TAP     *)
(* session, 0 or 1 from the other.  The C calls in between are sequential, *)
(* but each may fail, none has a timeout, and NTAP-A (not in this          *)
(* repository) may answer anything, stay silent, hang up or be down.       *)
(*                                                                         *)
(* Definitions marked [slip] are plausible mistakes and no part of the     *)
(* model.                                                                  *)
(***************************************************************************)
EXTENDS Integers, Sockets

CONSTANTS
    Options,    \* run's arguments: [once, tap, attempts, sessions]
    Kinds,      \* what NTAP-A may answer when it does not keep the protocol
    MaxQueue    \* bound: unread messages on the connection

\* The messages the handshake tells apart; any other is treated as ERROR is.
AllKinds == {"HELLO", "HELLO_PEER", "AUTH_OK", "AUTH_FAIL", "CONFIG", "CONFIG_NO_TAP",
             "CONFIG_OTHER", "ERROR"}

ASSUME NodeSessionAssumption ==
    /\ Options \subseteq [once : BOOLEAN, tap : BOOLEAN, attempts : Nat, sessions : Nat]
    /\ \A o \in Options : ~(o.once /\ o.tap)   \* main.c refuses the pair
    /\ Kinds \subseteq AllKinds
    /\ MaxQueue \in Nat \ {0}

VARIABLES
    pc,       \* where the node is
    opt,      \* its arguments
    attempt,  \* attempts made, as far as max_attempts can tell them apart
    sessions, \* sessions completed, as far as the tests can tell them apart
    rc,       \* rc of the session, then of the process
    fd,       \* how many control connections the process holds open
    conn,     \* the connection to NTAP-A
    server,   \* NTAP-A: "down", "up" (keeps the protocol) or "odd"
    orphan,   \* NTAP-A has lost the connection and the node was not told
    said,     \* ghost: messages the node has sent on this connection
    heard,    \* ghost: messages the node has received on this connection
    rested    \* ghost: the node has slept since its last session, if it had one

node == <<pc, opt, attempt, sessions, rc, fd>>
vars == <<pc, opt, attempt, sessions, rc, fd, conn, server, orphan, said, heard, rested>>

Session == {"hello", "helloed", "auth", "authed", "config", "loop", "done"}
Exited == {"exit", "killed"}

Init ==
    /\ pc = "begin" /\ opt \in Options
    /\ attempt = 0 /\ sessions = 0 /\ rc = 1 /\ fd = 0
    /\ conn = Fresh /\ server \in {"down", "up", "odd"} /\ orphan = FALSE
    /\ said = <<>> /\ heard = <<>> /\ rested = TRUE

\* Going on to "to" with the connection left alone.
Goto(to) == pc' = to /\ UNCHANGED <<opt, attempt, sessions, fd, server, orphan>>

\* "goto done" with the code the session returns.
Give(code) == Goto("done") /\ rc' = code /\ UNCHANGED <<conn, said, heard, rested>>

\* SIGPIPE on a send: the kernel closes the connection.
Killed ==
    /\ pc' = "killed" /\ rc' = 1 /\ fd' = 0
    /\ UNCHANGED <<opt, attempt, sessions, conn, server, orphan, said, heard, rested>>

Send(kind, to) ==
    /\ ~SendBlocked(conn)
    /\ \/ SendKills(conn) /\ Killed
       \/ SendFails(conn) /\ Give(1)
       \/ /\ ~Lost(conn)
          /\ Goto(to) /\ said' = Append(said, kind)
          /\ UNCHANGED <<rc, conn, heard, rested>>

-----------------------------------------------------------------------------
(* ntap_b_control_run_loop and _run_once: the head of the loop *)

Enough == opt.sessions > 0 /\ sessions >= opt.sessions
Tried == opt.attempts > 0 /\ attempt >= opt.attempts

\* [slip] Running out of attempts ends the loop like running out of sessions.
Exhausted_always_well == 0

\* The code the process returns when it stops looking for sessions.
Exhausted == IF Enough THEN 0 ELSE rc

Begin ==
    /\ pc = "begin"
    /\ IF ~opt.once /\ (Enough \/ Tried)
       THEN pc' = "exit" /\ rc' = Exhausted /\ UNCHANGED attempt
       ELSE /\ pc' = "connect" /\ UNCHANGED rc
            /\ attempt' = IF opt.attempts > 0 THEN attempt + 1 ELSE attempt
    /\ UNCHANGED <<opt, sessions, fd, conn, server, orphan, said, heard, rested>>

-----------------------------------------------------------------------------
(* run_session *)

\* ntap_tcp_connect: the first address that answers, or failure.
Connect ==
    /\ pc = "connect"
    /\ said' = <<>> /\ heard' = <<>> /\ rested' = FALSE
    /\ \/ /\ pc' = "over" /\ rc' = 1 /\ UNCHANGED <<fd, conn>>
       \/ /\ server # "down"
          /\ pc' = "hello" /\ rc' = 1 /\ fd' = fd + 1 /\ conn' = Fresh
    /\ UNCHANGED <<opt, attempt, sessions, server, orphan>>

\* No random nonce, or the HELLO with it.
SayHello ==
    /\ pc = "hello"
    /\ Give(1) \/ Send("HELLO", "helloed")

\* [slip] A receive that fails is tried again.
Expect_again(right, to) ==
    /\ RecvReturns(conn) /\ ~RecvFails(conn)
    /\ IF Head(conn.in) \notin right
       THEN Give(1)
       ELSE /\ Goto(to)
            /\ conn' = Taken(conn) /\ heard' = Append(heard, Head(conn.in))
            /\ UNCHANGED <<rc, said, rested>>

\* One receive of the handshake: the connection fails, the message is not one
\* of "right", or on to "to".
Expect(right, to) ==
    /\ RecvReturns(conn)
    /\ IF RecvFails(conn) \/ Head(conn.in) \notin right
       THEN Give(1)
       ELSE /\ Goto(to)
            /\ conn' = Taken(conn) /\ heard' = Append(heard, Head(conn.in))
            /\ UNCHANGED <<rc, said, rested>>

HearHello == pc = "helloed" /\ Expect({"HELLO"}, "auth")

SayAuth ==
    /\ pc = "auth"
    /\ Give(1) \/ Send("AUTH_NODE", "authed")

\* [slip] A rejected node treats the rejection like any other failure.
HearAuth_retries ==
    /\ pc = "authed"
    /\ IF conn.in # <<>> /\ Head(conn.in) = "AUTH_FAIL"
       THEN /\ Goto("done") /\ rc' = 1
            /\ conn' = Taken(conn) /\ heard' = Append(heard, "AUTH_FAIL")
            /\ UNCHANGED <<said, rested>>
       ELSE Expect({"AUTH_OK"}, "config")

\* AUTH_FAIL is final; any other answer but AUTH_OK is an error like the rest.
HearAuth ==
    /\ pc = "authed"
    /\ IF conn.in # <<>> /\ Head(conn.in) = "AUTH_FAIL"
       THEN /\ Goto("done") /\ rc' = 3
            /\ conn' = Taken(conn) /\ heard' = Append(heard, "AUTH_FAIL")
            /\ UNCHANGED <<said, rested>>
       ELSE Expect({"AUTH_OK"}, "config")

\* [slip] tap_enabled is not looked at.
Accepted_any == {"CONFIG", "CONFIG_NO_TAP"}

\* CONFIG_PUSH for the network of AUTH_OK; TAP mode needs tap_enabled.
Accepted == IF opt.tap THEN {"CONFIG"} ELSE {"CONFIG", "CONFIG_NO_TAP"}

HearConfig == pc = "config" /\ Expect(Accepted, "loop")

\* run_tap_loop returns -1, run_control_loop 0 or 1; a loop can be killed.
Loop ==
    /\ pc = "loop"
    /\ Killed \/ (IF opt.tap THEN Give(-1) ELSE \E code \in {0, 1} : Give(code))

\* [slip] A session that ended well leaves its connection open.
CloseFd_failures_only == IF rc = 0 THEN fd ELSE fd - 1

CloseFd == fd - 1

\* done: the connection is closed on every way out.
LeaveSession ==
    /\ pc = "done"
    /\ pc' = "over" /\ fd' = CloseFd /\ conn' = Fresh /\ orphan' = FALSE
    /\ UNCHANGED <<opt, attempt, sessions, rc, server, said, heard, rested>>

\* [slip] Only a session that returns 1 is followed by a pause.
Sleeps_after_one == rc = 1

Sleeps == rc \notin {0, 3}

\* What the loop makes of the session's code.
Judge ==
    /\ pc = "over"
    /\ pc' = IF opt.once \/ rc = 3 THEN "exit" ELSE IF Sleeps THEN "sleep" ELSE "begin"
    /\ sessions' = IF rc = 0 /\ (opt.sessions > 0 \/ opt.attempts > 0 \/ sessions = 0)
                   THEN sessions + 1 ELSE sessions
    /\ UNCHANGED <<opt, attempt, rc, fd, conn, server, orphan, said, heard, rested>>

\* sleep_msec(1000)
Sleep ==
    /\ pc = "sleep"
    /\ rested' = TRUE
    /\ Goto("begin") /\ UNCHANGED <<rc, conn, said, heard>>

-----------------------------------------------------------------------------
(* NTAP-A *)

\* What comes next from a server that keeps the protocol: one answer to each
\* message of the node, and CONFIG_PUSH behind AUTH_OK.
Told == Len(heard) + Len(conn.in)
Proper ==
    IF said = <<>> THEN {}
    ELSE IF Told = 0 THEN {"HELLO"}
    ELSE IF Len(said) = 1 THEN {}
    ELSE IF Told = 1 THEN {"AUTH_OK"}
    ELSE IF Told = 2 THEN {"CONFIG"} ELSE {}

Answer ==
    /\ fd > 0 /\ server # "down" /\ ~orphan
    /\ \E c \in Arrivals(conn, IF server = "up" THEN Proper ELSE Kinds, MaxQueue) : conn' = c
    /\ UNCHANGED <<node, server, orphan, said, heard, rested>>

\* A server that is well ends, resets or stalls no connection it knows of.
Misbehave ==
    /\ fd > 0 /\ (server = "up" => orphan)
    /\ conn' \in Endings(conn) \cup Resets(conn) \cup Stalls(conn)
    /\ UNCHANGED <<node, server, orphan, said, heard, rested>>

Resume ==
    /\ fd > 0 /\ conn' \in Resumes(conn)
    /\ UNCHANGED <<node, server, orphan, said, heard, rested>>

\* It stops or starts.  What connection it had is lost: the node is sent a
\* reset, or is left with a connection nobody is at the other end of.
Restart ==
    /\ pc \notin Exited
    /\ server' \in {"down", "up", "odd"} \ {server}
    /\ IF fd = 0 THEN UNCHANGED <<conn, orphan>>
       ELSE \/ conn' \in Resets(conn) /\ UNCHANGED orphan
            \/ orphan' = TRUE /\ UNCHANGED conn
    /\ UNCHANGED <<node, said, heard, rested>>

-----------------------------------------------------------------------------
NodeStep ==
    \/ Begin \/ Connect \/ SayHello \/ HearHello \/ SayAuth \/ HearAuth
    \/ HearConfig \/ Loop \/ LeaveSession \/ Judge \/ Sleep

ServerStep == Answer \/ Misbehave \/ Resume \/ Restart

Stopped == pc \in Exited /\ UNCHANGED vars

Next == NodeStep \/ ServerStep \/ Stopped

Spec == Init /\ [][Next]_vars

(***************************************************************************)
(* The process runs; a server that is up answers and reads; and a connect  *)
(* or a send that can succeed again and again is not refused for ever.     *)
(***************************************************************************)
FairSpec ==
    /\ Spec
    /\ WF_vars(NodeStep)
    /\ WF_vars(Answer /\ server = "up") /\ WF_vars(Resume /\ server = "up")
    /\ SF_vars(Connect /\ fd' > fd)
    /\ SF_vars(SayHello /\ pc' = "helloed") /\ SF_vars(SayAuth /\ pc' = "authed")

-----------------------------------------------------------------------------
(* Properties *)

\* The variables keep to their types; the process never counts a connection it
\* does not have.
TypeOK ==
    /\ pc \in Session \cup Exited \cup {"begin", "connect", "over", "sleep"}
    /\ opt \in Options /\ attempt \in Nat /\ sessions \in Nat
    /\ rc \in {-1, 0, 1, 3} /\ fd \in Nat
    /\ conn \in Connections(AllKinds)
    /\ server \in {"down", "up", "odd"} /\ orphan \in BOOLEAN
    /\ said \in Seq({"HELLO", "AUTH_NODE"}) /\ heard \in Seq(AllKinds)
    /\ rested \in BOOLEAN

\* The connection of a session is open exactly while the session lasts: none of
\* its ways out leaves one behind, however many sessions the process tries.
OneConnection == fd = (IF pc \in Session THEN 1 ELSE 0)

\* A loop runs only on a connection on which the whole handshake took place, in
\* order; TAP mode only when CONFIG_PUSH enables it.
Entitled ==
    pc = "loop" =>
        /\ said = <<"HELLO", "AUTH_NODE">>
        /\ Len(heard) = 3 /\ heard[1] = "HELLO" /\ heard[2] = "AUTH_OK"
        /\ heard[3] \in {"CONFIG", "CONFIG_NO_TAP"} /\ (opt.tap => heard[3] = "CONFIG")

\* A node NTAP-A has rejected does not come back, whatever attempts and
\* sessions are left: it exits with status 3.
Rejected == \E k \in DOMAIN heard : heard[k] = "AUTH_FAIL"
RejectionIsFinal ==
    /\ Rejected => pc \in {"done", "over", "exit"} /\ rc = 3
    /\ rc = 3 => Rejected

\* Status 0 says sessions were completed: the one asked for by --once, all of
\* --max-sessions, or as many as --max-attempts left room for, the last well.
StatusIsEarned ==
    (pc = "exit" /\ rc = 0) =>
        /\ sessions > 0 /\ (opt.attempts > 0 => sessions <= attempt)
        /\ opt.once \/ Enough \/ Tried

\* Between a session that failed and the next connection the node has slept:
\* NTAP-A is not stormed, a session lost in TAP mode included.
BacksOff == (pc = "connect" /\ rc # 0) => rested

\* A node with no limits gets back to its loop whenever NTAP-A comes back for
\* good, whatever happened before, unless it was rejected or killed, or waits
\* on a connection that was lost without a word: no receive has a timeout.
ComesBack ==
    <>[](server = "up" /\ ~orphan) => []<>(pc = "loop" \/ pc \in Exited)

=============================================================================
