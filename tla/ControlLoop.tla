----------------------------- MODULE ControlLoop -----------------------------
(***************************************************************************)
(* run_control_loop of src/b/control_client.c, the mode without a TAP      *)
(* device: one thread that selects over the control connection to NTAP-A,  *)
(* the direct listener (probed only) and the target connections of the     *)
(* SOCKS streams A opens, and copies stream data both ways.  The same loop *)
(* counts PONGs and exchanges test frames for the link tests of main.c.    *)
(*                                                                         *)
(* NTAP-A is outside this repository.  It is modelled as the peer this     *)
(* code expects: stream ids are not used twice, data comes after OPEN and  *)
(* before FIN or CLOSE, a PONG answers a PING; anything else it might send *)
(* is a "BAD" message.  It may speak of a stream the node has just ended.  *)
(* As in TapLoop, descriptors are handed out lowest first and a handler    *)
(* that would block is not enabled until the peer moves; definitions       *)
(* marked [slip] are plausible mistakes and no part of the model.          *)
(***************************************************************************)
EXTENDS Integers, FiniteSets, Sockets

CONSTANTS
    Fds,          \* descriptor numbers the process may use (RLIMIT_NOFILE)
    CtlFd,        \* the one run_session got for the control connection
    NoFd,         \* NTAP_INVALID_SOCKET
    Ids,          \* stream ids NTAP-A opens
    MaxStreams,   \* NTAP_B_MAX_SOCKS_STREAMS
    Direct,       \* whether CONFIG_PUSH asks for the direct listener
    Options,      \* the command-line settings a session may run with
    Sends,        \* what NTAP-A may send besides stream messages and PONGs
    Faults,       \* what the peers may do besides sending
    MaxUnits,     \* bound: units each end writes into a stream
    MaxQueue      \* bound: unread messages or units per connection

ASSUME ControlLoopAssumption ==
    /\ Fds \subseteq Nat /\ CtlFd \in Fds /\ NoFd \notin Fds
    /\ Ids \cap {"ctl", "lis", "none"} = {}
    /\ MaxStreams \in Nat /\ MaxUnits \in Nat /\ MaxQueue \in Nat
    /\ Options \subseteq [pings : Nat, frames : Nat, each : BOOLEAN, expect : BOOLEAN]
    /\ Direct \subseteq BOOLEAN /\ Sends \subseteq {"TEST", "BAD"}

VARIABLES
    pc, next, \* where run_control_loop is; the slot its stream pass is at
    opt,      \* ping_count, send_test_frame_count, ..._each_pong, expect_test_frame
    rc,       \* what run_control_loop returns; 1 while it runs
    lisFd,    \* direct_listen_fd
    slots,    \* streams[]
    ready,    \* readfds, each descriptor with the file it stood for (ghost)
    pings,    \* pings_done, up to the largest value any test tells apart
    sent,     \* sent_test_frames
    got,      \* got_test_frame
    file,     \* kernel: descriptor -> the file it denotes, "none" when closed
    conn,     \* kernel: the connection to NTAP-A and to each stream's target
    call,     \* kernel: a direct caller waits to be accepted
    owed,     \* NTAP-A: PINGs it has not answered
    nodeEnd,  \* NTAP-A: each stream as A left it: "idle", "up", "fin", "cut"
    nA, nT,   \* units A and the target have written into each stream
    toTarget, endT,   \* ghost: what each target was sent, how it ended for it
    toA, endA         \* ghost: what A was sent of each stream, how it ended

program == <<pc, next, opt, rc, lisFd, slots, ready, pings, sent, got>>
ghosts == <<toTarget, endT, toA, endA>>
peers == <<call, owed, nodeEnd, nA, nT>>
vars == <<program, file, conn, peers, ghosts>>

Files == Ids \cup {"ctl", "lis"}
Slots == 0 .. MaxStreams - 1
Stages == {"select", "ping", "ctl", "listen", "streams"}
Done == {"ended", "killed"}
Running == pc \notin Done

Msg(type, id, n) == [type |-> type, id |-> id, n |-> n]
\* [slip] memset() has zeroed the table and a slot is judged by its descriptor.
Idle_zeroed == [id |-> "none", fd |-> 0, cfin |-> FALSE, tfin |-> FALSE]

Idle == [id |-> "none", fd |-> NoFd, cfin |-> FALSE, tfin |-> FALSE]

Active == {i \in Slots : slots[i].fd # NoFd}
StreamFds == {slots[i].fd : i \in Active}
First(S) == {x \in S : \A y \in S : x <= y}
FreshFds == First({f \in Fds : file[f] = "none"})
Connected(x) == x \in {file[f] : f \in Fds}
ctl == conn["ctl"]

Init ==
    /\ pc = "start" /\ next = 0 /\ opt \in Options /\ rc = 1
    /\ lisFd = NoFd /\ slots = [i \in Slots |-> Idle] /\ ready = {}
    /\ pings = 0 /\ sent = 0 /\ got = FALSE
    /\ file = [f \in Fds |-> IF f = CtlFd THEN "ctl" ELSE "none"]
    /\ conn = [x \in Ids \cup {"ctl"} |-> Fresh]
    /\ call = FALSE /\ owed = 0
    /\ nodeEnd = [i \in Ids |-> "idle"]
    /\ nA = [i \in Ids |-> 0] /\ nT = [i \in Ids |-> 0]
    /\ toTarget = [i \in Ids |-> <<>>] /\ endT = [i \in Ids |-> "open"]
    /\ toA = [i \in Ids |-> <<>>] /\ endA = [i \in Ids |-> "open"]

-----------------------------------------------------------------------------
(* close() and the ways out of the loop *)

Close(fds) == [f \in Fds |-> IF f \in fds THEN "none" ELSE file[f]]
Cut(end, ids) == [i \in Ids |-> IF i \in ids /\ end[i] = "open" THEN "cut" ELSE end[i]]

Finish(how, code, fds) ==
    /\ pc' = how /\ rc' = code /\ next' = 0
    /\ lisFd' = NoFd /\ slots' = [i \in Slots |-> Idle] /\ ready' = {}
    /\ file' = Close(fds)
    /\ endT' = Cut(endT, Ids) /\ endA' = Cut(endA, Ids)
    /\ UNCHANGED <<opt, conn, peers, toTarget, toA>>

\* "goto done": the listener and b_socks_streams_close_all; run_session then
\* closes the control descriptor.
Teardown == {lisFd} \cup StreamFds
Leave(code) == Finish("ended", code, Teardown \cup {CtlFd})
Return(code) == Leave(code) /\ UNCHANGED <<pings, sent, got>>

\* SIGPIPE ends the process, and the kernel closes whatever it had open.
Killed == Finish("killed", 1, Fds) /\ UNCHANGED <<pings, sent, got>>

\* A send on a connection that is lost: if it fails, that ends the session.
SendLost(c) == IF SendKills(c) THEN Killed ELSE Return(1)

Continue == pc' = "select" /\ next' = 0 /\ ready' = {}

-----------------------------------------------------------------------------
(* Before the loop, PINGs and select() *)

\* b_direct_listener_start, when it is asked for; bind may fail.
Start ==
    /\ pc = "start"
    /\ \/ TRUE \in Direct /\ Return(1)
       \/ /\ pc' = "hello"
          /\ \/ FALSE \in Direct /\ UNCHANGED <<lisFd, file>>
             \/ /\ TRUE \in Direct
                /\ \E f \in FreshFds : lisFd' = f /\ file' = [file EXCEPT ![f] = "lis"]
          /\ UNCHANGED <<next, opt, rc, slots, ready, pings, sent, got, conn, peers, ghosts>>

\* [slip] Only the first PING is sent; a timeout sends nothing.
SendPing_once ==
    /\ pc \in {"hello", "ping"}
    /\ ~SendBlocked(ctl)
    /\ IF Lost(ctl)
       THEN SendLost(ctl)
       ELSE /\ pc' = "select"
            /\ owed' = IF pc = "hello" THEN owed + 1 ELSE owed
            /\ UNCHANGED <<next, opt, rc, lisFd, slots, ready, pings, sent, got, file, conn,
                           call, nodeEnd, nA, nT, ghosts>>

\* The first PING (pc = "hello") and the one each select() timeout sends.
SendPing ==
    /\ pc \in {"hello", "ping"}
    /\ ~SendBlocked(ctl)
    /\ IF Lost(ctl)
       THEN SendLost(ctl)
       ELSE /\ pc' = "select"
            /\ owed' = IF owed < MaxQueue THEN owed + 1 ELSE owed
            /\ UNCHANGED <<next, opt, rc, lisFd, slots, ready, pings, sent, got, file, conn,
                           call, nodeEnd, nA, nT, ghosts>>

FileReadable(x) == IF x = "lis" THEN call ELSE Readable(conn[x])

\* A stream whose target has finished is not watched any more.
Watched ==
    ({CtlFd, lisFd} \cup {slots[i].fd : i \in {j \in Active : ~slots[j].tfin}}) \ {NoFd}
Selected == {<<f, file[f]>> : f \in {g \in Watched : FileReadable(file[g])}}
IsSet(f, fds) == \E r \in fds : r[1] = f

\* [slip] Every active stream is read, whether it is set in readfds or not.
ToStreams_unselected(i, table, fds) ==
    LET todo == {j \in Slots : j >= i /\ table[j].fd # NoFd /\ ~table[j].tfin}
    IN IF todo = {} THEN Continue
                    ELSE pc' = "streams" /\ ready' = fds /\ next' \in First(todo)

\* The rest of the pass when the slots from i on, in "table", are still to do.
ToStreams(i, table, fds) ==
    LET todo == {j \in Slots : j >= i /\ table[j].fd # NoFd /\ IsSet(table[j].fd, fds)}
    IN IF todo = {} THEN Continue
                    ELSE pc' = "streams" /\ ready' = fds /\ next' \in First(todo)
ToListener(table, fds) ==
    IF IsSet(lisFd, fds) THEN pc' = "listen" /\ next' = 0 /\ ready' = fds
                         ELSE ToStreams(0, table, fds)
ToControl(table, fds) ==
    IF IsSet(CtlFd, fds) THEN pc' = "ctl" /\ next' = 0 /\ ready' = fds
                         ELSE ToListener(table, fds)

Select ==
    /\ pc = "select"
    /\ \/ Return(1)
       \/ /\ IF Selected = {} THEN pc' = "ping" /\ next' = 0 /\ ready' = {}
                              ELSE ToControl(slots, Selected)
          /\ UNCHANGED <<opt, rc, lisFd, slots, pings, sent, got, file, conn, peers, ghosts>>

-----------------------------------------------------------------------------
(* Messages from NTAP-A *)

\* b_socks_stream_find: the slot in use for a stream, if there is one.
Find(id) == {i \in Active : slots[i].id = id}

\* The handlers below change these alone; the rest is ControlReadable's.
Tables == <<slots, file, ghosts>>

\* b_socks_stream_open: refuse with a CLOSE whose own failure is ignored, or
\* connect and take the first free slot.
Refuse(id) ==
    /\ ~SendBlocked(ctl) /\ ~SendKills(ctl)
    /\ endT' = Cut(endT, {id}) /\ endA' = Cut(endA, {id})
    /\ UNCHANGED <<slots, file, toTarget, toA>>
OpenStream(id) ==
    \/ Refuse(id)
    \/ /\ Slots \ Active # {}
       /\ \E f \in FreshFds, i \in First(Slots \ Active) :
            /\ slots' = [slots EXCEPT ![i] = [Idle EXCEPT !.id = id, !.fd = f]]
            /\ file' = [file EXCEPT ![f] = id]
       /\ UNCHANGED ghosts

\* [slip] Data goes to whatever stream is open.
Takers_of_any(id) == {i \in Active : ~slots[i].cfin}

\* b_socks_stream_data: dropped when the stream is gone or A has finished it.
Takers(id) == {i \in Find(id) : ~slots[i].cfin}
Target(i) == file[slots[i].fd]
SendData(m) ==
    /\ \A i \in Takers(m.id) : ~SendBlocked(conn[Target(i)]) /\ ~Lost(conn[Target(i)])
    /\ toTarget' = [x \in Ids |-> IF \E i \in Takers(m.id) : Target(i) = x
                                  THEN Append(toTarget[x], <<m.id, m.n>>) ELSE toTarget[x]]
    /\ UNCHANGED <<slots, file, endT, toA, endA>>

\* b_socks_stream_mark_client_fin: shutdown(SHUT_WR), and close when the target
\* has finished too.
ClientFin(id) ==
    LET over == {i \in Find(id) : slots[i].tfin}
    IN /\ slots' = [i \in Slots |-> IF i \in over THEN Idle
                                    ELSE IF i \in Find(id) THEN [slots[i] EXCEPT !.cfin = TRUE]
                                    ELSE slots[i]]
       /\ file' = Close({slots[i].fd : i \in over})
       /\ endT' = [x \in Ids |-> IF endT[x] = "open" /\ \E i \in Find(id) : Target(i) = x
                                 THEN "fin" ELSE endT[x]]
       /\ UNCHANGED <<toTarget, toA, endA>>

\* [slip] close() is left out for a stream that was shut down before.
CloseStream_shut_already(id) ==
    /\ slots' = [i \in Slots |-> IF i \in Find(id) THEN Idle ELSE slots[i]]
    /\ file' = Close({slots[i].fd : i \in {j \in Find(id) : ~slots[j].cfin}})
    /\ endT' = Cut(endT, {Target(i) : i \in Find(id)})
    /\ endA' = Cut(endA, {Target(i) : i \in Find(id)})
    /\ UNCHANGED <<toTarget, toA>>

\* b_socks_stream_close: both directions end where they are.
CloseStream(id) ==
    /\ slots' = [i \in Slots |-> IF i \in Find(id) THEN Idle ELSE slots[i]]
    /\ file' = Close({slots[i].fd : i \in Find(id)})
    /\ endT' = Cut(endT, {Target(i) : i \in Find(id)})
    /\ endA' = Cut(endA, {Target(i) : i \in Find(id)})
    /\ UNCHANGED <<toTarget, toA>>

\* The link test is over: enough PONGs, and the test frame if one is expected.
Reached(n, frame) == opt.pings > 0 /\ n >= opt.pings /\ (opt.expect => frame)

\* [slip] One frame too few when one is sent with each PONG.
FramesDue_one_short ==
    IF opt.frames > 0 /\ (IF opt.each THEN sent + 1 < opt.frames ELSE sent = 0)
    THEN IF opt.each THEN 1 ELSE opt.frames
    ELSE 0

\* The test frames a PONG makes the node send.
FramesDue ==
    IF opt.frames > 0 /\ (IF opt.each THEN sent < opt.frames ELSE sent = 0)
    THEN IF opt.each THEN 1 ELSE opt.frames
    ELSE 0
Counted == IF pings < opt.pings \/ pings = 0 THEN pings + 1 ELSE pings

Pong ==
    /\ FramesDue > 0 => ~SendBlocked(ctl) /\ ~Lost(ctl)
    /\ pings' = Counted /\ sent' = sent + FramesDue /\ UNCHANGED got

Handle(m) ==
    \/ /\ m.type = "PONG" /\ ~Reached(Counted, got) /\ Pong /\ UNCHANGED Tables
    \/ /\ m.type = "TEST" /\ ~Reached(pings, TRUE)
       /\ got' = TRUE /\ UNCHANGED <<pings, sent>> /\ UNCHANGED Tables
    \/ /\ \/ m.type = "OPEN" /\ Find(m.id) = {} /\ OpenStream(m.id)
          \/ m.type = "DATA" /\ SendData(m)
          \/ m.type = "FIN" /\ ClientFin(m.id)
          \/ m.type = "CLOSE" /\ CloseStream(m.id)
       /\ UNCHANGED <<pings, sent, got>>

\* The link test is over: the session ends well.
Complete(m) ==
    \/ m.type = "PONG" /\ Reached(Counted, got) /\ Pong /\ Leave(0)
    \/ m.type = "TEST" /\ Reached(pings, TRUE)
       /\ got' = TRUE /\ UNCHANGED <<pings, sent>> /\ Leave(0)

\* A send the message calls for fails, or is the process's last.
SendingFails(m) ==
    \/ m.type = "PONG" /\ FramesDue > 0 /\ Lost(ctl) /\ SendLost(ctl)
    \/ /\ m.type = "DATA"
       /\ \E i \in Takers(m.id) : Lost(conn[Target(i)]) /\ SendLost(conn[Target(i)])
    \/ m.type = "OPEN" /\ SendKills(ctl) /\ Killed

\* The control connection afterwards: refusing an OPEN may have been a send of
\* which nobody noticed that it failed.
Heard(m) ==
    IF m.type = "OPEN" /\ slots' = slots THEN Reported(Taken(ctl)) ELSE Taken(ctl)

ControlReadable ==
    /\ pc = "ctl" /\ RecvReturns(ctl)
    /\ IF RecvFails(ctl)
       THEN Return(IF pings > 0 /\ opt.pings = 0 /\ ~opt.expect THEN 0 ELSE 1)
       ELSE LET m == Head(ctl.in)
            IN \/ (m.type = "BAD" \/ (m.type = "OPEN" /\ Find(m.id) # {})) /\ Return(1)
               \/ SendingFails(m)
               \/ Complete(m)
               \/ /\ Handle(m) /\ Continue
                  /\ conn' = [conn EXCEPT !["ctl"] = Heard(m)]
                  /\ UNCHANGED <<opt, rc, lisFd, peers>>

-----------------------------------------------------------------------------
(* The listener and the targets *)

\* b_direct_accept_probe: accepted, asked for its token and closed.
ListenerReadable ==
    /\ pc = "listen"
    /\ \/ Return(1)
       \/ /\ FreshFds # {} /\ call /\ call' = FALSE
          /\ Continue
          /\ UNCHANGED <<opt, rc, lisFd, slots, pings, sent, got, file, conn,
                         owed, nodeEnd, nA, nT, ghosts>>

\* recv() on the target of slot "next" gave data: SOCKS_STREAM_DATA to A.
ForwardData(id, c) ==
    /\ c.in # <<>>
    /\ toA' = [toA EXCEPT ![id] = Append(@, Head(c.in))]
    /\ conn' = [conn EXCEPT ![Target(next)] = Taken(c)]
    /\ ToStreams(next + 1, slots, ready)
    /\ UNCHANGED <<slots, file, toTarget, endT, endA>>

\* [slip] The end of the connection is looked at before the data behind it.
ForwardFin_before_data(id, c) ==
    /\ c.life # "up"
    /\ endA' = [endA EXCEPT ![id] = "fin"]
    /\ slots' = [slots EXCEPT ![next] = IF @.cfin THEN Idle ELSE [@ EXCEPT !.tfin = TRUE]]
    /\ file' = IF slots[next].cfin THEN Close({slots[next].fd}) ELSE file
    /\ conn' = [conn EXCEPT ![Target(next)] = Reported(c)]
    /\ ToStreams(next + 1, slots', ready)
    /\ UNCHANGED <<toTarget, endT, toA>>

\* [slip] The client's FIN is not looked at when the target's comes second.
ForwardFin_keeps_slot(id, c) ==
    /\ RecvFails(c)
    /\ endA' = [endA EXCEPT ![id] = "fin"]
    /\ slots' = [slots EXCEPT ![next] = [@ EXCEPT !.tfin = TRUE]]
    /\ conn' = [conn EXCEPT ![Target(next)] = Reported(c)]
    /\ ToStreams(next + 1, slots', ready)
    /\ UNCHANGED <<file, toTarget, endT, toA>>

\* ... or an end of file or an error: a FIN to A, b_socks_stream_mark_target_fin.
ForwardFin(id, c) ==
    /\ RecvFails(c)
    /\ endA' = [endA EXCEPT ![id] = "fin"]
    /\ slots' = [slots EXCEPT ![next] = IF @.cfin THEN Idle ELSE [@ EXCEPT !.tfin = TRUE]]
    /\ file' = IF slots[next].cfin THEN Close({slots[next].fd}) ELSE file
    /\ conn' = [conn EXCEPT ![Target(next)] = Reported(c)]
    /\ ToStreams(next + 1, slots', ready)
    /\ UNCHANGED <<toTarget, endT, toA>>

\* [slip] An error of recv() on a target is taken for one of the control connection.
StreamReadable_error_ends ==
    LET id == slots[next].id
        c == conn[Target(next)]
    IN /\ pc = "streams"
       /\ RecvReturns(c) /\ ~SendBlocked(ctl)
       /\ IF Lost(ctl) \/ (RecvFails(c) /\ c.life \in {"reset", "broken"})
          THEN SendLost(ctl)
          ELSE /\ ForwardData(id, c) \/ ForwardFin(id, c)
               /\ UNCHANGED <<opt, rc, lisFd, pings, sent, got, peers>>

StreamReadable ==
    LET id == slots[next].id
        c == conn[Target(next)]
    IN /\ pc = "streams"
       /\ RecvReturns(c) /\ ~SendBlocked(ctl)
       /\ IF Lost(ctl)
          THEN SendLost(ctl)
          ELSE /\ ForwardData(id, c) \/ ForwardFin(id, c)
               /\ UNCHANGED <<opt, rc, lisFd, pings, sent, got, peers>>
-----------------------------------------------------------------------------
(* The peers *)

\* NTAP-A puts one message on the control connection.
Says(m) == \E c \in Arrivals(ctl, {m}, MaxQueue) : conn' = [conn EXCEPT !["ctl"] = c]

NodeSays ==
    /\ Running
    /\ \/ owed > 0 /\ Says(Msg("PONG", "none", 0)) /\ owed' = owed - 1 /\ UNCHANGED <<nodeEnd, nA>>
       \/ \E t \in Sends : Says(Msg(t, "none", 0)) /\ UNCHANGED <<owed, nodeEnd, nA>>
       \/ \E i \in Ids :
            /\ UNCHANGED owed
            /\ \/ /\ nodeEnd[i] = "idle" /\ Says(Msg("OPEN", i, 0))
                  /\ nodeEnd' = [nodeEnd EXCEPT ![i] = "up"] /\ UNCHANGED nA
               \/ /\ nodeEnd[i] = "up" /\ nA[i] < MaxUnits /\ Says(Msg("DATA", i, nA[i] + 1))
                  /\ nA' = [nA EXCEPT ![i] = @ + 1] /\ UNCHANGED nodeEnd
               \/ /\ nodeEnd[i] = "up" /\ Says(Msg("FIN", i, 0))
                  /\ nodeEnd' = [nodeEnd EXCEPT ![i] = "fin"] /\ UNCHANGED nA
               \/ /\ nodeEnd[i] \in {"up", "fin"} /\ Says(Msg("CLOSE", i, 0))
                  /\ nodeEnd' = [nodeEnd EXCEPT ![i] = "cut"] /\ UNCHANGED nA
    /\ UNCHANGED <<program, file, call, nT, ghosts>>

TargetSays(i) ==
    /\ Running /\ Connected(i) /\ nT[i] < MaxUnits
    /\ \E c \in Arrivals(conn[i], {<<i, nT[i] + 1>>}, MaxQueue) : conn' = [conn EXCEPT ![i] = c]
    /\ nT' = [nT EXCEPT ![i] = @ + 1]
    /\ UNCHANGED <<program, file, call, owed, nodeEnd, nA, ghosts>>

\* Either kind of peer stops in mid-message, ends, resets, stalls or resumes.
PeerTurns(x) ==
    /\ Running /\ Connected(x)
    /\ \E c \in (IF "part" \in Faults /\ x = "ctl" THEN Fragments(conn[x], MaxQueue) ELSE {})
                  \cup (IF x \in Ids \/ "eof" \in Faults THEN Endings(conn[x]) ELSE {})
                  \cup (IF "reset" \in Faults THEN Resets(conn[x]) ELSE {})
                  \cup (IF "stall" \in Faults THEN Stalls(conn[x]) \cup Resumes(conn[x]) ELSE {}) :
          conn' = [conn EXCEPT ![x] = c]
    /\ UNCHANGED <<program, file, peers, ghosts>>

DirectCall ==
    /\ Running /\ lisFd # NoFd /\ ~call /\ call' = TRUE
    /\ UNCHANGED <<program, file, conn, owed, nodeEnd, nA, nT, ghosts>>

-----------------------------------------------------------------------------
LoopStep ==
    \/ Start \/ SendPing \/ Select \/ ControlReadable \/ ListenerReadable \/ StreamReadable

Environment ==
    \/ NodeSays \/ DirectCall
    \/ \E i \in Ids : TargetSays(i)
    \/ \E x \in Ids \cup {"ctl"} : PeerTurns(x)

\* run_session has returned; NodeSession goes on from there.
Returned == pc \in Done /\ UNCHANGED vars

Next == LoopStep \/ Environment \/ Returned

Spec == Init /\ [][Next]_vars

(***************************************************************************)
(* As in TapLoop: the process runs when it can, a message begun is         *)
(* finished or the connection ends, a peer that stopped reading resumes,   *)
(* and NTAP-A answers PINGs.  Nobody has to send, end or call.             *)
(***************************************************************************)
MessageEnds == (NodeSays \/ PeerTurns("ctl")) /\ conn["ctl"].part /\ ~conn'["ctl"].part
Resuming(x) == PeerTurns(x) /\ conn[x].stall /\ ~conn'[x].stall
Answering == NodeSays /\ owed' < owed

FairSpec ==
    /\ Spec
    /\ SF_vars(LoopStep) /\ WF_vars(MessageEnds) /\ SF_vars(Answering)
    /\ \A x \in Ids \cup {"ctl"} : WF_vars(Resuming(x))

-----------------------------------------------------------------------------
(* Properties *)

Messages == [type : {"PONG", "TEST", "BAD", "OPEN", "DATA", "FIN", "CLOSE"},
             id : Ids \cup {"none"}, n : 0 .. MaxUnits]
Units == Ids \X (1 .. MaxUnits)

\* The variables of the loop, the kernel and the peers keep to their types: no
\* slot ever holds a number that is neither a descriptor nor the invalid one.
TypeOK ==
    /\ pc \in Stages \cup {"start", "hello"} \cup Done
    /\ next \in 0 .. MaxStreams /\ opt \in Options /\ rc \in {0, 1}
    /\ lisFd \in Fds \cup {NoFd}
    /\ slots \in [Slots -> [id : Ids \cup {"none"}, fd : Fds \cup {NoFd},
                            cfin : BOOLEAN, tfin : BOOLEAN]]
    /\ ready \subseteq Fds \X Files
    /\ pings \in Nat /\ sent \in Nat /\ got \in BOOLEAN
    /\ file \in [Fds -> Files \cup {"none"}]
    /\ conn["ctl"] \in Connections(Messages)
    /\ \A i \in Ids : conn[i] \in Connections(Units)
    /\ call \in BOOLEAN /\ owed \in 0 .. MaxQueue
    /\ nodeEnd \in [Ids -> {"idle", "up", "fin", "cut"}]
    /\ nA \in [Ids -> 0 .. MaxUnits] /\ nT \in [Ids -> 0 .. MaxUnits]
    /\ toTarget \in [Ids -> Seq(Units)] /\ toA \in [Ids -> Seq(Units)]
    /\ endT \in [Ids -> {"open", "fin", "cut"}] /\ endA \in [Ids -> {"open", "fin", "cut"}]

\* Every open descriptor is the control connection, the listener or the
\* connection to the target of the one slot that names it, and all are closed
\* when the session is left: neither a half-closed stream, a refused OPEN nor
\* an error return leaks one.
DescriptorsOwned ==
    /\ Running => /\ file[CtlFd] = "ctl"
                  /\ lisFd # NoFd => file[lisFd] = "lis"
                  /\ \A i \in Active : file[slots[i].fd] = slots[i].id
    /\ \A i, j \in Active : slots[i].id = slots[j].id => i = j
    /\ \A f \in Fds : file[f] # "none" => Running /\ f \in {CtlFd, lisFd} \cup StreamFds

\* The loop makes a blocking receive or accept() only where input waits, and
\* only on the connection select() reported: closing streams and opening
\* others in between cannot make the single thread wait on an idle target.
CallsHaveInput ==
    /\ pc = "ctl" => Readable(ctl)
    /\ pc = "listen" => call
    /\ pc = "streams" => /\ next \in Active /\ Readable(conn[Target(next)])
                         /\ <<slots[next].fd, Target(next)>> \in ready

\* Each stream is two pipes (Pipe): in order, nothing lost or mixed between
\* streams, an end of file passed on only after the last byte before it.
FromA == INSTANCE Pipe WITH
    written <- nA, finished <- [i \in Ids |-> nodeEnd[i] \in {"fin", "cut"}],
    read <- toTarget, outcome <- endT
FromTarget == INSTANCE Pipe WITH
    written <- nT, finished <- [i \in Ids |-> conn[i].life # "up"],
    read <- toA, outcome <- endA
StreamsArePipes == FromA!Spec /\ FromTarget!Spec

\* What goes wrong with one stream costs that stream alone, but for one case: a
\* session fails only because of the control connection, select(), accept(), a
\* message A should not have sent, or data A sends to a target whose connection
\* was reset.  An unreachable target, a full table, a target that ends or resets
\* are not among them, and no step touches the slot of another stream.
Expected(m) == m.type # "BAD" /\ ~(m.type = "OPEN" /\ Find(m.id) # {})
Unwritable(m) == m.type = "DATA" /\ \E i \in Find(m.id) : Lost(conn[Target(i)])
MayFail ==
    \/ pc \in {"start", "select", "listen"} \/ Lost(ctl)
    \/ pc = "ctl" /\ (RecvFails(ctl) \/ ~Expected(Head(ctl.in)) \/ Unwritable(Head(ctl.in)))
StreamFaultsContained ==
    [][/\ pc' \in Done \ {pc} /\ rc' = 1 => MayFail
       /\ Running' => \A i \in Active :
             \/ slots'[i] = slots[i]
             \/ pc = "ctl" /\ Head(ctl.in).id = slots[i].id
             \/ pc = "streams" /\ i = next]_vars

\* A session that may end well does so at once: between two passes the counts
\* it was started with are never both reached already.  And it ends well only
\* when they are, with the test frames it was asked for all sent.
Asked == IF opt.each THEN First({opt.frames, opt.pings}) ELSE {opt.frames}
TestsEndOnTime ==
    /\ Running => ~Reached(pings, got)
    /\ rc = 0 => \/ Reached(pings, got) /\ \A n \in Asked : sent >= n
                 \/ opt.pings = 0 /\ pings > 0 /\ ~opt.expect

\* The slot of a stream that both ends have finished is given back, as long as
\* again and again a pass gets beyond the control connection and the listener,
\* or select() times out: "continue" behind a message of NTAP-A (PONGs, test
\* frames, the data of other streams) and behind a direct caller skips the
\* streams, so either can keep a stream's end from being looked at for ever.
Held(i) == \E s \in Active : slots[s].id = i
Finished(i) == nodeEnd[i] = "cut" \/ (nodeEnd[i] = "fin" /\ conn[i].life # "up")
PassGoesOn == Select /\ pc' \in {"ping", "streams"}
StreamsDrain ==
    []<><<PassGoesOn>>_vars => \A i \in Ids : (Held(i) /\ Finished(i)) ~> ~Held(i)

\* A link test that waits for nothing but PONGs ends, when A answers: unless
\* test frames or direct callers keep select() from ever timing out, which
\* alone makes the node send the next PING.
TestWaits == \E k \in DOMAIN ctl.in : ctl.in[k].type = "TEST"
LinkTestEnds ==
    (opt.pings > 0 /\ ~opt.expect /\ <>[](~call /\ ~TestWaits)) => <>(~Running)

=============================================================================
