------------------------------- MODULE TapLoop -------------------------------
(***************************************************************************)
(* run_tap_loop of src/b/control_client.c with the direct-client table it  *)
(* works on: one thread that selects over the control connection to        *)
(* NTAP-A, the TAP device, the direct listener and the admitted direct     *)
(* clients, and relays Ethernet frames between them.                       *)
(*                                                                         *)
(* Between any two steps of the loop the peers and the kernel act.  The    *)
(* descriptor table of the process is modelled, because the loop keeps     *)
(* bare descriptor numbers in its slots and in readfds while handlers      *)
(* close descriptors and accept() hands the freed numbers out again, the   *)
(* lowest free one first.                                                  *)
(*                                                                         *)
(* A handler that would block (a recv() in mid-message, a send() into a    *)
(* full window) is not enabled until the peer moves: pc stays where it is. *)
(*                                                                         *)
(* A definition marked [slip] is no part of the model: it is a plausible   *)
(* mistake in the definition that follows it, kept to show that a property *)
(* would notice.                                                           *)
(***************************************************************************)
EXTENDS Integers, FiniteSets, Sockets

CONSTANTS
    Fds,          \* descriptor numbers the process may use (RLIMIT_NOFILE)
    CtlFd,        \* the one run_session got for the control connection
    NoFd,         \* NTAP_INVALID_SOCKET
    Callers,      \* direct clients that may connect
    Valid,        \* those that hold a token this node accepts
    MaxClients,   \* NTAP_B_MAX_DIRECT_CLIENTS
    CtlKinds,     \* message kinds NTAP-A may send, as far as the loop tells
    CallerKinds,  \* message kinds a direct client may send
    CtlFaults,    \* what NTAP-A may do besides sending whole messages
    CallerFaults, \* and what a direct client may do
    MaxQueue      \* bound: unread messages per connection, unread TAP frames

ASSUME TapLoopAssumption ==
    /\ Fds \subseteq Nat
    /\ CtlFd \in Fds
    /\ NoFd \notin Fds
    /\ Valid \subseteq Callers
    /\ Callers \cap {"ctl", "tap", "lis", "lan", "none"} = {}
    /\ MaxClients \in Nat
    /\ MaxQueue \in Nat

VARIABLES
    pc,       \* where run_tap_loop is
    next,     \* i, the client being looked at by the client pass
    tapFd,    \* tap.fd
    lisFd,    \* direct_listen_fd
    clients,  \* direct_clients[]: slot -> descriptor, NoFd when not active
    ready,    \* readfds, each descriptor with the file it stood for (ghost)
    file,     \* kernel: descriptor -> the file it denotes, "none" when closed
    conn,     \* kernel: state of the connection of each peer
    backlog,  \* kernel: connections the listener has not accepted
    lan,      \* kernel: frames the TAP device has to read
    relay     \* ghost: the frame relayed by the last step, from and to whom

program == <<pc, next, tapFd, lisFd, clients, ready>>
vars == <<pc, next, tapFd, lisFd, clients, ready, file, conn, backlog, lan, relay>>

Peers == Callers \cup {"ctl"}
Files == Peers \cup {"tap", "lis"}
Slots == 0 .. MaxClients - 1
Stages == {"select", "ping", "tap", "ctl", "listen", "clients"}
Done == {"ended", "killed"}
Quiet == [from |-> "none", to |-> {}]

Active == {i \in Slots : clients[i] # NoFd}
ClientFds == {clients[i] : i \in Active}
Client(i) == file[clients[i]]
Admitted == {Client(i) : i \in Active}
First(S) == {x \in S : \A y \in S : x <= y}
FreshFds == First({f \in Fds : file[f] = "none"})
Running == pc \notin Done
Connected(p) == p \in {file[f] : f \in Fds} \/ \E k \in DOMAIN backlog : backlog[k] = p

Init ==
    /\ pc = "open" /\ next = 0
    /\ tapFd = NoFd /\ lisFd = NoFd
    /\ clients = [i \in Slots |-> NoFd]
    /\ ready = {}
    /\ file = [f \in Fds |-> IF f = CtlFd THEN "ctl" ELSE "none"]
    /\ conn = [p \in Peers |-> Fresh]
    /\ backlog = <<>> /\ lan = <<>>
    /\ relay = Quiet

-----------------------------------------------------------------------------
(* close() and the ways out of the loop *)

Close(fds) == [f \in Fds |-> IF f \in fds THEN "none" ELSE file[f]]
Hangup(fds, table) == [p \in Peers |-> IF p \in {file[f] : f \in fds \cap Fds} THEN Fresh ELSE table[p]]

Finish(how, fds) ==
    /\ pc' = how /\ next' = 0
    /\ tapFd' = NoFd /\ lisFd' = NoFd /\ clients' = [i \in Slots |-> NoFd]
    /\ ready' = {}
    /\ file' = Close(fds) /\ conn' = Hangup(fds, conn)
    /\ relay' = Quiet
    /\ UNCHANGED <<backlog, lan>>

\* return -1 after closing "fds"; run_session then closes the control fd.
Return(fds) == Finish("ended", fds \cup {CtlFd})

\* [slip] b_direct_clients_close_all is forgotten on the error paths.
Teardown_keeps_clients == {tapFd, lisFd}

\* What every error path inside the loop closes.
Teardown == {tapFd, lisFd} \cup ClientFds

\* SIGPIPE ends the process, and the kernel closes whatever it had open.
Killed == Finish("killed", Fds)

\* A send to NTAP-A on a connection that is lost: its failure is answered by
\* returning, if there is one.
SendLost(fds) == IF SendKills(conn["ctl"]) THEN Killed ELSE Return(fds)

-----------------------------------------------------------------------------
(* Before the loop *)

OpenTap ==
    /\ pc = "open"
    /\ \/ Return({})
       \/ \E f \in FreshFds :
            /\ pc' = "bridge" /\ tapFd' = f /\ file' = [file EXCEPT ![f] = "tap"]
            /\ UNCHANGED <<next, lisFd, clients, ready, conn, backlog, lan, relay>>

AttachBridge ==
    /\ pc = "bridge"
    /\ \/ Return({tapFd})
       \/ /\ pc' = "listener"
          /\ UNCHANGED <<next, tapFd, lisFd, clients, ready, file, conn, backlog, lan, relay>>

\* CONFIG_PUSH may or may not ask for the direct listener, and bind may fail.
StartListener ==
    /\ pc = "listener"
    /\ \/ Return({tapFd})
       \/ /\ pc' = "hello"
          /\ \/ UNCHANGED <<lisFd, file>>
             \/ \E f \in FreshFds : lisFd' = f /\ file' = [file EXCEPT ![f] = "lis"]
          /\ UNCHANGED <<next, tapFd, clients, ready, conn, backlog, lan, relay>>

\* The first PING (pc = "hello") and the one each select() timeout sends.
SendPing ==
    /\ pc \in {"hello", "ping"}
    /\ ~SendBlocked(conn["ctl"])
    /\ IF Lost(conn["ctl"])
       THEN SendLost(IF pc = "hello" THEN {lisFd, tapFd} ELSE Teardown)
       ELSE /\ pc' = "select"
            /\ UNCHANGED <<next, tapFd, lisFd, clients, ready, file, conn, backlog, lan, relay>>

-----------------------------------------------------------------------------
(* select() and the order in which one pass tests readfds *)

FileReadable(x) ==
    CASE x = "tap" -> lan # <<>>
      [] x = "lis" -> backlog # <<>>
      [] OTHER -> x \in Peers /\ Readable(conn[x])

Watched == ({CtlFd, tapFd, lisFd} \cup ClientFds) \ {NoFd}
Selected == {<<f, file[f]>> : f \in {g \in Watched : FileReadable(file[g])}}
IsSet(f, fds) == \E r \in fds : r[1] = f

\* "continue": the pass is over and readfds is dead.
Continue == pc' = "select" /\ next' = 0 /\ ready' = {}

\* [slip] The pass ends after the first client it served.
ToClients_one_each(i, slots, fds) ==
    LET todo == {j \in Slots : i = 0 /\ slots[j] # NoFd /\ IsSet(slots[j], fds)}
    IN IF todo = {}
       THEN Continue
       ELSE pc' = "clients" /\ ready' = fds /\ next' \in First(todo)

\* The rest of the pass when the slots from i on, in "slots", are still to do.
ToClients(i, slots, fds) ==
    LET todo == {j \in Slots : j >= i /\ slots[j] # NoFd /\ IsSet(slots[j], fds)}
    IN IF todo = {}
       THEN Continue
       ELSE /\ pc' = "clients" /\ ready' = fds
            /\ next' \in First(todo)

\* [slip] accept() is called in every pass, whether the listener is set or not.
ToListener_unasked(slots, fds) ==
    IF lisFd # NoFd THEN pc' = "listen" /\ next' = 0 /\ ready' = fds
                    ELSE ToClients(0, slots, fds)

ToListener(slots, fds) ==
    IF IsSet(lisFd, fds) THEN pc' = "listen" /\ next' = 0 /\ ready' = fds
                         ELSE ToClients(0, slots, fds)
\* [slip] The listener is looked at before the control connection.
ToControl_listener_first(slots, fds) ==
    IF IsSet(lisFd, fds) THEN pc' = "listen" /\ next' = 0 /\ ready' = fds
    ELSE IF IsSet(CtlFd, fds) THEN pc' = "ctl" /\ next' = 0 /\ ready' = fds
    ELSE ToClients(0, slots, fds)

ToControl(slots, fds) ==
    IF IsSet(CtlFd, fds) THEN pc' = "ctl" /\ next' = 0 /\ ready' = fds
                         ELSE ToListener(slots, fds)
ToTap(slots, fds) ==
    IF IsSet(tapFd, fds) THEN pc' = "tap" /\ next' = 0 /\ ready' = fds
                         ELSE ToControl(slots, fds)

Select ==
    /\ pc = "select"
    /\ \/ Return(Teardown)
       \/ /\ IF Selected = {}
             THEN pc' = "ping" /\ next' = 0 /\ ready' = {}
             ELSE ToTap(clients, Selected)
          /\ relay' = Quiet
          /\ UNCHANGED <<tapFd, lisFd, clients, file, conn, backlog, lan>>

-----------------------------------------------------------------------------
(* Relaying *)

\* [slip] The slot is cleared to zero, a valid descriptor number, not invalidated.
FanOut_slot_zeroed(from, to, others, table) ==
    LET broken == {i \in to : SendFails(conn[Client(i)])}
        fds == {clients[i] : i \in broken}
    IN /\ \A i \in to : ~SendBlocked(conn[Client(i)]) /\ ~SendKills(conn[Client(i)])
       /\ clients' = [i \in Slots |-> IF i \in broken THEN 0 ELSE clients[i]]
       /\ file' = Close(fds) /\ conn' = Hangup(fds, table)
       /\ relay' = [from |-> from, to |-> others \cup {Client(i) : i \in to \ broken}]

\* b_direct_clients_send_tap over the slots "to" for a frame that came from
\* "from" and has already reached "others"; "table" is the connection table
\* after the receive.  A client whose send fails is closed.
FanOut(from, to, others, table) ==
    LET broken == {i \in to : SendFails(conn[Client(i)])}
        fds == {clients[i] : i \in broken}
    IN /\ \A i \in to : ~SendBlocked(conn[Client(i)]) /\ ~SendKills(conn[Client(i)])
       /\ clients' = [i \in Slots |-> IF i \in broken THEN NoFd ELSE clients[i]]
       /\ file' = Close(fds) /\ conn' = Hangup(fds, table)
       /\ relay' = [from |-> from, to |-> others \cup {Client(i) : i \in to \ broken}]

\* SIGPIPE strikes on the way through the slots "to".
FanOutKilled(to) ==
    /\ \E i \in to : /\ SendKills(conn[Client(i)])
                     /\ \A j \in to : j < i => ~SendBlocked(conn[Client(j)])
    /\ Killed

TapReadable ==
    /\ pc = "tap"
    /\ \/ Return(Teardown)                                 \* ntap_tap_read fails
       \/ /\ lan # <<>> /\ Head(lan) = "runt"              \* length out of range
          /\ lan' = Tail(lan) /\ relay' = Quiet
          /\ ToControl(clients, ready)
          /\ UNCHANGED <<tapFd, lisFd, clients, file, conn, backlog>>
       \/ /\ lan # <<>> /\ Head(lan) = "frame"
          /\ ~SendBlocked(conn["ctl"])
          /\ \/ Lost(conn["ctl"]) /\ SendLost(Teardown)
             \/ ~Lost(conn["ctl"]) /\ FanOutKilled(Active)
             \/ /\ ~Lost(conn["ctl"])
                /\ FanOut("lan", Active, {"ctl"}, conn)
                /\ lan' = Tail(lan)
                /\ ToControl(clients', ready)
                /\ UNCHANGED <<tapFd, lisFd, backlog>>

ControlReadable ==
    LET c == conn["ctl"]
        after == [conn EXCEPT !["ctl"] = Taken(c)]
    IN /\ pc = "ctl"
       /\ RecvReturns(c)
       /\ IF RecvFails(c) \/ Head(c.in) \notin {"pong", "frame"}
          THEN Return(Teardown)
          ELSE \/ /\ Head(c.in) = "pong"
                  /\ Continue /\ conn' = after /\ relay' = Quiet
                  /\ UNCHANGED <<tapFd, lisFd, clients, file, backlog, lan>>
               \/ /\ Head(c.in) = "frame"
                  /\ \/ Return(Teardown)                   \* ntap_tap_write fails
                     \/ FanOutKilled(Active)
                     \/ /\ FanOut("ctl", Active, {"lan"}, after)
                        /\ Continue
                        /\ UNCHANGED <<tapFd, lisFd, backlog, lan>>

-----------------------------------------------------------------------------
(* Direct clients *)

\* [slip] The token check is skipped.
Admit_anyone(c) ==
    IF Slots \ Active = {}
    THEN conn' = [conn EXCEPT ![c] = Fresh] /\ UNCHANGED <<clients, file>>
    ELSE /\ \E f \in FreshFds, i \in First(Slots \ Active) :
              clients' = [clients EXCEPT ![i] = f] /\ file' = [file EXCEPT ![f] = c]
         /\ UNCHANGED conn

\* b_direct_accept_client said yes: b_direct_clients_add.
Admit(c) ==
    /\ c \in Valid
    /\ IF Slots \ Active = {}
       THEN conn' = [conn EXCEPT ![c] = Fresh] /\ UNCHANGED <<clients, file>>
       ELSE /\ \E f \in FreshFds, i \in First(Slots \ Active) :
                 clients' = [clients EXCEPT ![i] = f] /\ file' = [file EXCEPT ![f] = c]
            /\ UNCHANGED conn

\* No token in time, or not one this node accepts: closed at once.
Reject(c) == conn' = [conn EXCEPT ![c] = Fresh] /\ UNCHANGED <<clients, file>>

\* [slip] The accept branch falls through to the client pass with the old readfds.
ListenerReadable_falls_through ==
    /\ pc = "listen"
    /\ backlog # <<>> /\ FreshFds # {}
    /\ Admit(Head(backlog)) \/ Reject(Head(backlog))
    /\ backlog' = Tail(backlog) /\ relay' = Quiet
    /\ ToClients(0, clients', ready)
    /\ UNCHANGED <<tapFd, lisFd, lan>>

ListenerReadable ==
    /\ pc = "listen"
    /\ \/ Return(Teardown)                                 \* accept() fails
       \/ /\ backlog # <<>> /\ FreshFds # {}
          /\ Admit(Head(backlog)) \/ Reject(Head(backlog))
          /\ backlog' = Tail(backlog) /\ relay' = Quiet
          /\ Continue
          /\ UNCHANGED <<tapFd, lisFd, lan>>

\* [slip] A client's bad message is answered the way the control branch does it.
ClientReadable_ends_session ==
    LET me == Client(next)
        after == [conn EXCEPT ![me] = Taken(conn[me])]
    IN /\ pc = "clients"
       /\ RecvReturns(conn[me])
       /\ \/ Return(Teardown)
          \/ /\ ~RecvFails(conn[me]) /\ Head(conn[me].in) = "frame"
             /\ FanOut(me, Active \ {next}, {"lan"}, after)
             /\ ToClients(next + 1, clients', ready)
             /\ UNCHANGED <<tapFd, lisFd, backlog, lan>>

\* b_direct_clients_handle_readable for slot "next", then on with the pass.
ClientReadable ==
    LET me == Client(next)
        c == conn[me]
        after == [conn EXCEPT ![me] = Taken(c)]
        slots == [clients EXCEPT ![next] = NoFd]
    IN /\ pc = "clients"
       /\ RecvReturns(c)
       /\ \/ /\ clients' = slots                           \* b_direct_client_close
             /\ file' = Close({clients[next]})
             /\ conn' = Hangup({clients[next]}, conn)
             /\ relay' = Quiet
             /\ ToClients(next + 1, slots, ready)
             /\ UNCHANGED <<tapFd, lisFd, backlog, lan>>
          \/ /\ ~RecvFails(c) /\ Head(c.in) = "frame"
             /\ \/ FanOutKilled(Active \ {next})
                \/ /\ FanOut(me, Active \ {next}, {"lan"}, after)
                   /\ ToClients(next + 1, clients', ready)
                   /\ UNCHANGED <<tapFd, lisFd, backlog, lan>>

-----------------------------------------------------------------------------
(* The environment *)

PeerStep(p) ==
    LET kinds == IF p = "ctl" THEN CtlKinds ELSE CallerKinds
        faults == IF p = "ctl" THEN CtlFaults ELSE CallerFaults
    IN /\ Running /\ Connected(p)
       /\ \E c \in Arrivals(conn[p], kinds, MaxQueue)
                     \cup (IF "part" \in faults THEN Fragments(conn[p], MaxQueue) ELSE {})
                     \cup (IF "eof" \in faults THEN Endings(conn[p]) ELSE {})
                     \cup (IF "eof" \in faults /\ p \in relay.to THEN Answers(conn[p]) ELSE {})
                     \cup (IF "reset" \in faults THEN Resets(conn[p]) ELSE {})
                     \cup (IF "stall" \in faults THEN Stalls(conn[p]) \cup Resumes(conn[p]) ELSE {}) :
             conn' = [conn EXCEPT ![p] = c]
       /\ UNCHANGED <<program, file, backlog, lan, relay>>

\* A caller's connection is completed by the kernel and waits for accept().
Dial(c) ==
    /\ Running /\ lisFd # NoFd /\ ~Connected(c)
    /\ backlog' = Append(backlog, c)
    /\ UNCHANGED <<program, file, conn, lan, relay>>

LanFrame ==
    /\ Running /\ tapFd # NoFd /\ Len(lan) < MaxQueue
    /\ \E k \in {"frame", "runt"} : lan' = Append(lan, k)
    /\ UNCHANGED <<program, file, conn, backlog, relay>>

-----------------------------------------------------------------------------
LoopStep ==
    \/ OpenTap \/ AttachBridge \/ StartListener \/ SendPing
    \/ Select \/ TapReadable \/ ControlReadable \/ ListenerReadable \/ ClientReadable

Environment ==
    \/ \E p \in Peers : PeerStep(p)
    \/ \E c \in Callers : Dial(c)
    \/ LanFrame

\* run_session has returned; NodeSession goes on from there.
Returned == pc \in Done /\ UNCHANGED vars

Next == LoopStep \/ Environment \/ Returned

Spec == Init /\ [][Next]_vars

(***************************************************************************)
(* The fairness of a scheduler and of a network: the process is scheduled  *)
(* whenever it can run, also when it could again and again and a peer      *)
(* stalls in between (a blocked send() copies its bytes out of the very    *)
(* acknowledgement that opens the window); a peer that began a message     *)
(* finishes it, or goes away, and one that stopped reading resumes.  No    *)
(* peer has to send, to close, or to call.                                 *)
(***************************************************************************)
MessageEnds(p) == PeerStep(p) /\ conn[p].part /\ ~conn'[p].part
PeerResumes(p) == PeerStep(p) /\ conn[p].stall /\ ~conn'[p].stall

FairSpec ==
    /\ Spec
    /\ SF_vars(LoopStep)
    /\ \A p \in Peers : WF_vars(MessageEnds(p)) /\ WF_vars(PeerResumes(p))

-----------------------------------------------------------------------------
(* Properties *)

\* The variables of the loop, the kernel and the peers keep to their types: no
\* slot ever holds a number that is neither a descriptor nor the invalid one.
TypeOK ==
    /\ pc \in Stages \cup {"open", "bridge", "listener", "hello"} \cup Done
    /\ next \in 0 .. MaxClients
    /\ tapFd \in Fds \cup {NoFd} /\ lisFd \in Fds \cup {NoFd}
    /\ clients \in [Slots -> Fds \cup {NoFd}]
    /\ ready \subseteq Fds \X Files
    /\ file \in [Fds -> Files \cup {"none"}]
    /\ conn \in [Peers -> Connections(CtlKinds \cup CallerKinds)]
    /\ backlog \in Seq(Callers)
    /\ lan \in Seq({"frame", "runt"})
    /\ relay \in [from : Peers \cup {"lan", "none"}, to : SUBSET (Peers \cup {"lan"})]

\* A descriptor the program names denotes what the program takes it for, and
\* no two slots name the same one.
NamesAreRight ==
    Running =>
        /\ file[CtlFd] = "ctl"
        /\ tapFd # NoFd => file[tapFd] = "tap"
        /\ lisFd # NoFd => file[lisFd] = "lis"
        /\ \A i \in Active : clients[i] \in Fds /\ Client(i) \in Callers
        /\ \A i, j \in Active : clients[i] = clients[j] => i = j

\* Every open descriptor is one the program still names.
NothingLeaks ==
    \A f \in Fds : file[f] # "none" =>
        Running /\ f \in {CtlFd, tapFd, lisFd} \cup ClientFds

\* Whatever mix of accepts, lost clients and error returns a session goes
\* through, the TAP device, the listener and every client descriptor are held
\* exactly once and are all closed when the process leaves the session: the
\* retry loop of ntap_b_control_run_loop can go on for ever.
DescriptorsOwned == NamesAreRight /\ NothingLeaks

\* A slot whose descriptor is set in readfds holds the very connection
\* select() looked at, not a later one that was given the same number.
ReadinessIsCurrent ==
    \A i \in Active : IsSet(clients[i], ready) => <<clients[i], Client(i)>> \in ready

\* How far the session has come says what it can hold: with the three above
\* this is what the steps of the loop preserve.
StagesHold ==
    /\ pc = "open" => tapFd = NoFd
    /\ pc \in {"open", "bridge", "listener"} => lisFd = NoFd
    /\ pc \in {"open", "bridge", "listener", "hello"} => Active = {}
    /\ pc \in {"open", "bridge", "listener", "hello", "select", "ping"} => ready = {}
    /\ pc = "clients" => next \in Active

\* The loop makes a blocking call only where input waits: no receive, TAP
\* read or accept() is made on something that has nothing to offer, which
\* would hang the node with every other peer unserved.
CallsHaveInput ==
    /\ pc = "tap" => lan # <<>>
    /\ pc = "ctl" => Readable(conn["ctl"])
    /\ pc = "listen" => backlog # <<>>
    /\ pc = "clients" => clients[next] # NoFd /\ Readable(conn[Client(next)])

\* The loop as an Ethernet hub (TapHub): every frame taken from the LAN, from
\* NTAP-A or from a client reaches all the other attached ports exactly as the
\* policy of TapHub says, and only callers with a valid token are attached.
Hub == INSTANCE TapHub WITH
    up <- pc \in Stages, attached <- IF Running THEN Admitted ELSE {}, relay <- relay
RelaysAsHub == Hub!Spec

\* What goes wrong with one direct client reaches nobody else, but for SIGPIPE.
\* While the session lasts, a descriptor is closed only if it is that of the
\* client being served, or of a client whose send has just failed: never a
\* neighbour's that has its number, the listener's, the TAP device's or NTAP-A's.
\* Serving a client, its loss and its bad message included, ends the session in
\* one case alone: its frame is relayed to another client that is broken.
Serving == pc = "clients"
ClientFaultsContained ==
    [][/\ Running' => \A f \in Fds : file'[f] = "none" =>
             \/ file[f] = "none"
             \/ Serving /\ f = clients[next]
             \/ file[f] \in Callers /\ SendFails(conn[file[f]])
       /\ Serving /\ ~Running' =>
             /\ pc' = "killed"
             /\ \E c \in Admitted \ {Client(next)} : SendKills(conn[c])]_vars

\* src/b/main.c:134 calls TAP mode "a long-running mode" and
\* ntap_b_control_run_loop retries a session that ended: no peer's going away
\* ends the process itself.
SurvivesPeers == pc # "killed"

\* As long as the client pass is reached again and again, every client whose
\* message waits gets its turn or is dropped: none is passed over for good in
\* favour of its neighbours.  (The pass itself can be starved: a busy control
\* connection or listener ends every iteration before it.)
Waiting(c) == c \in Admitted /\ conn[c].in # <<>>
Turn(c) == pc = "clients" /\ clients[next] # NoFd /\ Client(next) = c
ClientsServed ==
    \A c \in Valid : []<>(pc = "clients") => []<>(~Waiting(c) \/ Turn(c))

\* When NTAP-A closes the connection or it is reset, the session ends, so that
\* the node can connect again, whatever the LAN and the clients keep sending.
LossNoticed == conn["ctl"].life # "up" ~> ~Running

=============================================================================
