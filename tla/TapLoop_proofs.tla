---------------------------- MODULE TapLoop_proofs ----------------------------
(***************************************************************************)
(* The TAP loop, for any descriptor limit, number of slots, set of callers *)
(* and queue bound.  First its state: it is well typed, descriptors are    *)
(* owned exactly once and never leak, and readfds is never read for a      *)
(* descriptor that has changed hands.  Then its calls: the loop never      *)
(* blocks on what has nothing to offer, and a client's misfortune costs    *)
(* that client alone.  Then the refinement: the loop implements the        *)
(* Ethernet hub of TapHub.                                                 *)
(***************************************************************************)
EXTENDS TapLoop, FiniteSetTheorems, TLAPS

IndInv == TypeOK /\ NamesAreRight /\ NothingLeaks /\ ReadinessIsCurrent /\ StagesHold

USE TapLoopAssumption

Kinds == CtlKinds \cup CallerKinds
Ports == Peers \cup {"lan"}

\* What every jump inside the loop establishes, "slots" being the client table
\* and "fds" the readfds it is made with.
Lands(slots, fds) ==
    /\ pc' \in Stages
    /\ next' \in 0 .. MaxClients
    /\ ready' \in {fds, {}}
    /\ pc' \in {"select", "ping"} => ready' = {}
    /\ pc' = "clients" => next' \in Slots /\ slots[next'] # NoFd

\* Every way out of the loop: when all that is open is closed, the invariant
\* holds of the state that is left.
LEMMA FinishKeepsInv ==
    ASSUME IndInv, NEW how \in Done, NEW fds,
           \A f \in Fds : file[f] # "none" => f \in fds,
           Finish(how, fds)
    PROVE  IndInv'
<1>1. pc' \in Done /\ file' = [f \in Fds |-> "none"] /\ ready' = {}
  BY DEF IndInv, TypeOK, Finish, Close
<1>2. Active' = {}
  BY DEF Finish, Active, Slots
<1>3. TypeOK'
  <2>1. conn' \in [Peers -> Connections(CtlKinds \cup CallerKinds)]
    BY DEF IndInv, TypeOK, Finish, Hangup, Fresh, Connections
  <2>2. relay' \in [from : Peers \cup {"lan", "none"}, to : SUBSET (Peers \cup {"lan"})]
    BY DEF Finish, Quiet
  <2>3. next' \in 0 .. MaxClients
    BY DEF Finish
  <2>4. clients' \in [Slots -> Fds \cup {NoFd}]
    BY DEF Finish
  <2>5. file' \in [Fds -> Files \cup {"none"}] /\ ready' \subseteq Fds \X Files
    BY <1>1
  <2>6. UNCHANGED <<backlog, lan>> /\ tapFd' = NoFd /\ lisFd' = NoFd
    BY DEF Finish
  <2>7. QED
    BY <1>1, <2>1, <2>2, <2>3, <2>4, <2>5, <2>6 DEF IndInv, TypeOK
<1>4. QED
  BY <1>1, <1>2, <1>3
  DEF IndInv, NamesAreRight, NothingLeaks, ReadinessIsCurrent, StagesHold, Running, Done

-----------------------------------------------------------------------------
(* Jumps *)

\* The client pass goes to a slot that is in use, or back to select().
LEMMA ToClientsLands ==
    ASSUME NEW i, NEW slots, NEW fds, ToClients(i, slots, fds)
    PROVE  Lands(slots, fds)
<1> DEFINE todo == {j \in Slots : j >= i /\ slots[j] # NoFd /\ IsSet(slots[j], fds)}
<1>1. CASE todo = {}
  BY <1>1 DEF ToClients, Continue, Lands, Stages
<1>2. CASE todo # {}
  <2>1. pc' = "clients" /\ ready' = fds /\ next' \in todo
    BY <1>2 DEF ToClients, First
  <2>2. QED
    BY <2>1 DEF Lands, Stages, Slots
<1>3. QED
  BY <1>1, <1>2

\* The listener is looked at next, or the client pass begins.
LEMMA ToListenerLands ==
    ASSUME NEW slots, NEW fds, ToListener(slots, fds)
    PROVE  Lands(slots, fds)
<1>1. CASE IsSet(lisFd, fds)
  BY <1>1 DEF ToListener, Lands, Stages
<1>2. CASE ~IsSet(lisFd, fds)
  BY <1>2, ToClientsLands DEF ToListener
<1>3. QED
  BY <1>1, <1>2

\* The control connection is looked at next, or what comes after it.
LEMMA ToControlLands ==
    ASSUME NEW slots, NEW fds, ToControl(slots, fds)
    PROVE  Lands(slots, fds)
<1>1. CASE IsSet(CtlFd, fds)
  BY <1>1 DEF ToControl, Lands, Stages
<1>2. CASE ~IsSet(CtlFd, fds)
  BY <1>2, ToListenerLands DEF ToControl
<1>3. QED
  BY <1>1, <1>2

\* The TAP device is looked at next, or what comes after it.
LEMMA ToTapLands ==
    ASSUME NEW slots, NEW fds, ToTap(slots, fds)
    PROVE  Lands(slots, fds)
<1>1. CASE IsSet(tapFd, fds)
  BY <1>1 DEF ToTap, Lands, Stages
<1>2. CASE ~IsSet(tapFd, fds)
  BY <1>2, ToControlLands DEF ToTap
<1>3. QED
  BY <1>1, <1>2

\* Going back to select() forgets readfds.
LEMMA ContinueLands ==
    ASSUME NEW slots, NEW fds, Continue
    PROVE  Lands(slots, fds)
BY DEF Continue, Lands, Stages

-----------------------------------------------------------------------------
(* What a handler does to the tables *)

Bookkept ==
    /\ conn' \in [Peers -> Connections(Kinds)]
    /\ backlog' \in Seq(Callers)
    /\ lan' \in Seq({"frame", "runt"})
    /\ relay' \in [from : Peers \cup {"lan", "none"}, to : SUBSET Ports]

\* A step inside the loop that opens nothing and closes the clients "gone".
LEMMA ClosingSlotsKeepsInv ==
    ASSUME IndInv, Running, NEW gone \in SUBSET Active,
           clients' = [i \in Slots |-> IF i \in gone THEN NoFd ELSE clients[i]],
           file' = Close({clients[i] : i \in gone}),
           UNCHANGED <<tapFd, lisFd>>,
           Lands(clients', ready), Bookkept
    PROVE  IndInv'
<1>1. TypeOK'
  <2>1. file' \in [Fds -> Files \cup {"none"}]
    BY DEF IndInv, TypeOK, Close
  <2>2. clients' \in [Slots -> Fds \cup {NoFd}]
    BY DEF IndInv, TypeOK
  <2>3. QED
    BY <2>1, <2>2 DEF IndInv, TypeOK, Lands, Bookkept, Kinds, Ports, Stages
<1>2. Active' = Active \ gone /\ \A i \in Active' : clients'[i] = clients[i]
  BY DEF Active
<1>3. Running'
  BY DEF Lands, Running, Stages, Done
<1>4. \A i \in Active', j \in gone : clients[i] # clients[j]
  BY <1>2 DEF IndInv, NamesAreRight
<1>5. \A i \in Active' : file'[clients[i]] = file[clients[i]] /\ Client(i)' = Client(i)
  <2> SUFFICES ASSUME NEW i \in Active'
               PROVE  file'[clients[i]] = file[clients[i]] /\ Client(i)' = Client(i)
    OBVIOUS
  <2>1. clients[i] \in Fds
    BY <1>2 DEF IndInv, NamesAreRight
  <2>2. clients[i] \notin {clients[j] : j \in gone}
    BY <1>4
  <2>3. file'[clients[i]] = file[clients[i]]
    BY <2>1, <2>2 DEF Close
  <2>4. QED
    BY <2>3, <1>2 DEF Client
<1>6. NamesAreRight'
  <2>1. \A j \in gone : clients[j] \in Fds /\ file[clients[j]] \in Callers
    BY DEF IndInv, NamesAreRight, Client, Active
  <2>2. file'[CtlFd] = "ctl"
    BY <2>1 DEF IndInv, NamesAreRight, Close
  <2>3. tapFd # NoFd => file'[tapFd] = "tap"
    BY <2>1 DEF IndInv, TypeOK, NamesAreRight, Close
  <2>4. lisFd # NoFd => file'[lisFd] = "lis"
    BY <2>1 DEF IndInv, TypeOK, NamesAreRight, Close
  <2>5. \A i \in Active' : clients'[i] \in Fds /\ Client(i)' \in Callers
    BY <1>2, <1>5 DEF IndInv, NamesAreRight
  <2>6. \A i, j \in Active' : clients'[i] = clients'[j] => i = j
    BY <1>2 DEF IndInv, NamesAreRight
  <2>7. QED
    BY <2>2, <2>3, <2>4, <2>5, <2>6 DEF NamesAreRight
<1>7. NothingLeaks'
  <2> SUFFICES ASSUME NEW f \in Fds, file'[f] # "none"
               PROVE  f \in ({CtlFd, tapFd, lisFd} \cup ClientFds)'
    BY <1>3 DEF NothingLeaks
  <2>1. f \notin {clients[i] : i \in gone} /\ file[f] # "none"
    BY DEF Close
  <2>2. f \in {CtlFd, tapFd, lisFd} \cup ClientFds
    BY <2>1 DEF IndInv, NothingLeaks
  <2>3. CASE f \in ClientFds
    <3>1. PICK i \in Active : f = clients[i]
      BY <2>3 DEF ClientFds
    <3>2. i \in Active' /\ clients'[i] = f
      BY <3>1, <2>1, <1>2
    <3>3. QED
      BY <3>2 DEF ClientFds
  <2>4. QED
    BY <2>2, <2>3
<1>8. ReadinessIsCurrent'
  <2> SUFFICES ASSUME NEW i \in Active', IsSet(clients[i], ready)
               PROVE  <<clients[i], Client(i)>> \in ready
    BY <1>2, <1>5 DEF ReadinessIsCurrent, Lands, IsSet
  <2>1. QED
    BY <1>2 DEF IndInv, ReadinessIsCurrent
<1>9. StagesHold'
  BY DEF Lands, StagesHold, Stages, Active
<1>10. QED
  BY <1>1, <1>6, <1>7, <1>8, <1>9 DEF IndInv

\* A step that leaves the tables alone is one that closes no slot.
LEMMA MovingOnKeepsInv ==
    ASSUME IndInv, Running, UNCHANGED <<clients, file, tapFd, lisFd>>,
           Lands(clients, ready), Bookkept
    PROVE  IndInv'
<1>1. clients' = [i \in Slots |-> IF i \in {} THEN NoFd ELSE clients[i]]
  BY DEF IndInv, TypeOK
<1>2. file' = Close({clients[i] : i \in {}})
  BY DEF IndInv, TypeOK, Close
<1>3. QED
  BY <1>1, <1>2, ClosingSlotsKeepsInv

\* Forgetting the connections of closed descriptors keeps the table typed.
LEMMA HangupTyped ==
    ASSUME NEW fds, NEW table \in [Peers -> Connections(Kinds)]
    PROVE  Hangup(fds, table) \in [Peers -> Connections(Kinds)]
BY DEF Hangup, Fresh, Connections

\* Taking a message from a connection keeps the table typed.
LEMMA TakenTyped ==
    ASSUME NEW c \in Connections(Kinds), c.in # <<>>
    PROVE  Taken(c) \in Connections(Kinds)
<1>1. c.in \in Seq(Kinds)
  BY DEF Connections
<1>2. Tail(c.in) \in Seq(Kinds)
  BY <1>1
<1>3. QED
  BY <1>2 DEF Taken, Connections

\* Returning after closing all the loop holds, or being killed by SIGPIPE.
LEMMA ReturnKeepsInv ==
    ASSUME IndInv, Running, NEW fds, Return(fds),
           {tapFd, lisFd} \cup ClientFds \subseteq fds \cup {NoFd}
    PROVE  IndInv'
BY FinishKeepsInv DEF Return, IndInv, NothingLeaks, Done

\* SIGPIPE closes every descriptor, so the invariant holds afterwards.
LEMMA KilledKeepsInv ==
    ASSUME IndInv, Killed
    PROVE  IndInv'
BY FinishKeepsInv DEF Killed, Done

\* What the error paths of the loop close is all that is open but the
\* control connection.
LEMMA TeardownIsAll ==
    ASSUME IndInv, Running, Return(Teardown)
    PROVE  IndInv'
BY ReturnKeepsInv DEF Teardown

\* A relayed frame: the clients whose send failed are closed.
LEMMA FanOutKeepsInv ==
    ASSUME IndInv, Running, NEW from \in Peers \cup {"lan"}, NEW to \in SUBSET Active,
           NEW others \in SUBSET Ports, NEW table \in [Peers -> Connections(Kinds)],
           FanOut(from, to, others, table),
           Lands(clients', ready), UNCHANGED <<tapFd, lisFd>>,
           backlog' \in Seq(Callers), lan' \in Seq({"frame", "runt"})
    PROVE  IndInv'
<1> DEFINE broken == {i \in to : SendFails(conn[Client(i)])}
<1>1. /\ clients' = [i \in Slots |-> IF i \in broken THEN NoFd ELSE clients[i]]
      /\ file' = Close({clients[i] : i \in broken})
      /\ conn' = Hangup({clients[i] : i \in broken}, table)
      /\ relay' = [from |-> from, to |-> others \cup {Client(i) : i \in to \ broken}]
  BY DEF FanOut
<1>2. {Client(i) : i \in to \ broken} \subseteq Ports
  BY DEF IndInv, NamesAreRight, Ports, Peers
<1>3. Bookkept
  BY <1>1, <1>2, HangupTyped DEF Bookkept, Ports
<1>4. broken \in SUBSET Active
  OBVIOUS
<1> HIDE DEF broken
<1>5. QED
  BY <1>1, <1>3, <1>4, ClosingSlotsKeepsInv

\* A relay cut short by SIGPIPE leaves nothing open either.
LEMMA FanOutKilledKeepsInv ==
    ASSUME IndInv, NEW to, FanOutKilled(to)
    PROVE  IndInv'
BY KilledKeepsInv DEF FanOutKilled

-----------------------------------------------------------------------------
(* Steps *)

\* The invariant holds when run_tap_loop is entered.
LEMMA InitInv == Init => IndInv
<1> SUFFICES ASSUME Init PROVE IndInv
  OBVIOUS
<1>1. Active = {}
  BY DEF Init, Active
<1>2. conn \in [Peers -> Connections(Kinds)]
  BY DEF Init, Fresh, Connections
<1>3. TypeOK
  <2>1. relay \in [from : Peers \cup {"lan", "none"}, to : SUBSET Ports]
    BY DEF Init, Quiet
  <2>2. backlog \in Seq(Callers) /\ lan \in Seq({"frame", "runt"})
    BY DEF Init
  <2>3. file \in [Fds -> Files \cup {"none"}]
    BY DEF Init, Files, Peers
  <2>4. next \in 0 .. MaxClients /\ clients \in [Slots -> Fds \cup {NoFd}]
    BY DEF Init
  <2>5. pc = "open" /\ ready \subseteq Fds \X Files /\ tapFd = NoFd /\ lisFd = NoFd
    BY DEF Init
  <2>6. QED
    BY <1>2, <2>1, <2>2, <2>3, <2>4, <2>5 DEF TypeOK, Kinds, Ports
<1>4. QED
  BY <1>1, <1>3
  DEF Init, IndInv, NamesAreRight, NothingLeaks, ReadinessIsCurrent, StagesHold,
      Running, Done

\* ntap_tap_open, failing or not, keeps the invariant.
LEMMA OpenTapInv ==
    ASSUME IndInv, OpenTap PROVE IndInv'
<1>1. pc = "open" /\ Running /\ tapFd = NoFd /\ lisFd = NoFd /\ Active = {} /\ ready = {}
  BY DEF OpenTap, IndInv, StagesHold, Running, Done
<1>2. CASE Return({})
  BY <1>1, <1>2, ReturnKeepsInv DEF ClientFds
<1>3. CASE ~Return({})
  <2>1. PICK f \in FreshFds :
          /\ pc' = "bridge" /\ tapFd' = f /\ file' = [file EXCEPT ![f] = "tap"]
          /\ UNCHANGED <<next, lisFd, clients, ready, conn, backlog, lan, relay>>
    BY <1>3 DEF OpenTap
  <2>2. f \in Fds /\ file[f] = "none" /\ f # CtlFd
    BY <1>1, <2>1 DEF FreshFds, First, IndInv, NamesAreRight
  <2>3. TypeOK'
    BY <2>1, <2>2 DEF IndInv, TypeOK, Files
  <2>4. Active' = {} /\ Running'
    BY <1>1, <2>1 DEF Active, Running, Done
  <2>5. NamesAreRight' /\ NothingLeaks'
    BY <1>1, <2>1, <2>2, <2>4 DEF IndInv, TypeOK, NamesAreRight, NothingLeaks, ClientFds
  <2>6. ReadinessIsCurrent' /\ StagesHold'
    BY <1>1, <2>1, <2>4 DEF ReadinessIsCurrent, StagesHold
  <2>7. QED
    BY <2>3, <2>5, <2>6 DEF IndInv
<1>4. QED
  BY <1>2, <1>3

\* ntap_tap_attach_bridge, failing or not, keeps the invariant.
LEMMA AttachBridgeInv ==
    ASSUME IndInv, AttachBridge PROVE IndInv'
<1>1. pc = "bridge" /\ Running /\ lisFd = NoFd /\ Active = {} /\ ready = {}
  BY DEF AttachBridge, IndInv, StagesHold, Running, Done
<1>2. CASE Return({tapFd})
  BY <1>1, <1>2, ReturnKeepsInv DEF ClientFds
<1>3. CASE ~Return({tapFd})
  <2>1. /\ pc' = "listener"
        /\ UNCHANGED <<next, tapFd, lisFd, clients, ready, file, conn, backlog, lan, relay>>
    BY <1>3 DEF AttachBridge
  <2>2. QED
    BY <1>1, <2>1 DEF IndInv, TypeOK, NamesAreRight, NothingLeaks, ReadinessIsCurrent,
      StagesHold, Running, Done, Active, ClientFds, Client
<1>4. QED
  BY <1>2, <1>3

\* b_direct_listener_start, failing or not, keeps the invariant.
LEMMA StartListenerInv ==
    ASSUME IndInv, StartListener PROVE IndInv'
<1>1. pc = "listener" /\ Running /\ lisFd = NoFd /\ Active = {} /\ ready = {}
  BY DEF StartListener, IndInv, StagesHold, Running, Done
<1>2. CASE Return({tapFd})
  BY <1>1, <1>2, ReturnKeepsInv DEF ClientFds
<1>3. CASE ~Return({tapFd})
  <2>1. /\ pc' = "hello"
        /\ UNCHANGED <<next, tapFd, clients, ready, conn, backlog, lan, relay>>
    BY <1>3 DEF StartListener
  <2>2. CASE UNCHANGED <<lisFd, file>>
    BY <1>1, <2>1, <2>2 DEF IndInv, TypeOK, NamesAreRight, NothingLeaks,
      ReadinessIsCurrent, StagesHold, Running, Done, Active, ClientFds, Client
  <2>3. CASE \E f \in FreshFds : lisFd' = f /\ file' = [file EXCEPT ![f] = "lis"]
    <3>1. PICK f \in FreshFds : lisFd' = f /\ file' = [file EXCEPT ![f] = "lis"]
      BY <2>3
    <3>2. f \in Fds /\ file[f] = "none" /\ f # CtlFd /\ f # tapFd
      BY <1>1, <3>1 DEF FreshFds, First, IndInv, NamesAreRight
    <3>3. TypeOK'
      BY <2>1, <3>1, <3>2 DEF IndInv, TypeOK, Files
    <3>4. Active' = {} /\ Running'
      BY <1>1, <2>1 DEF Active, Running, Done
    <3>5. NamesAreRight' /\ NothingLeaks'
      BY <1>1, <2>1, <3>1, <3>2, <3>4
      DEF IndInv, TypeOK, NamesAreRight, NothingLeaks, ClientFds
    <3>6. ReadinessIsCurrent' /\ StagesHold'
      BY <1>1, <2>1, <3>4 DEF ReadinessIsCurrent, StagesHold
    <3>7. QED
      BY <3>3, <3>5, <3>6 DEF IndInv
  <2>4. QED
    BY <1>3, <2>2, <2>3 DEF StartListener
<1>4. QED
  BY <1>2, <1>3

\* A failed send, answered by SIGPIPE or by returning, keeps the invariant.
LEMMA SendLostKeepsInv ==
    ASSUME IndInv, Running, NEW fds, SendLost(fds),
           {tapFd, lisFd} \cup ClientFds \subseteq fds \cup {NoFd}
    PROVE  IndInv'
BY ReturnKeepsInv, KilledKeepsInv DEF SendLost

\* The first PING and those of a timeout keep the invariant.
LEMMA SendPingInv ==
    ASSUME IndInv, SendPing PROVE IndInv'
<1>1. Running /\ ready = {}
  BY DEF SendPing, IndInv, StagesHold, Running, Done
<1>2. CASE Lost(conn["ctl"])
  <2>1. CASE pc = "hello"
    <3>1. ClientFds = {}
      BY <2>1 DEF IndInv, StagesHold, ClientFds
    <3>2. SendLost({lisFd, tapFd})
      BY <1>2, <2>1 DEF SendPing
    <3>3. QED
      BY <1>1, <3>1, <3>2, SendLostKeepsInv
  <2>2. CASE pc # "hello"
    <3>1. SendLost(Teardown)
      BY <1>2, <2>2 DEF SendPing
    <3>2. QED
      BY <1>1, <3>1, SendLostKeepsInv DEF Teardown
  <2>3. QED
    BY <2>1, <2>2
<1>3. CASE ~Lost(conn["ctl"])
  <2>1. /\ pc' = "select"
        /\ UNCHANGED <<next, tapFd, lisFd, clients, ready, file, conn, backlog, lan, relay>>
    BY <1>3 DEF SendPing
  <2>2. Lands(clients, ready)
    BY <1>1, <2>1 DEF Lands, IndInv, TypeOK, Stages
  <2>3. Bookkept
    BY <2>1 DEF Bookkept, IndInv, TypeOK, Kinds, Ports
  <2>4. QED
    BY <1>1, <2>1, <2>2, <2>3, MovingOnKeepsInv
<1>4. QED
  BY <1>2, <1>3

\* select() fills readfds with the files its descriptors stand for now.
LEMMA SelectInv ==
    ASSUME IndInv, Select PROVE IndInv'
<1>1. pc = "select" /\ Running
  BY DEF Select, Running, Done
<1>2. CASE Return(Teardown)
  BY <1>1, <1>2, TeardownIsAll
<1>3. CASE ~Return(Teardown)
  <2>1. /\ relay' = Quiet
        /\ UNCHANGED <<tapFd, lisFd, clients, file, conn, backlog, lan>>
    BY <1>3 DEF Select
  <2>2. Lands(clients, Selected) \/ (pc' = "ping" /\ next' = 0 /\ ready' = {})
    BY <1>3, ToTapLands DEF Select
  <2>3. Selected \subseteq Fds \X Files
    <3> SUFFICES ASSUME NEW f \in Watched PROVE f \in Fds /\ file[f] \in Files
      BY DEF Selected
    <3>1. QED
      BY <1>1 DEF Watched, ClientFds, IndInv, TypeOK, NamesAreRight, Client, Files, Peers
  <2>4. TypeOK'
    <3>1. relay' \in [from : Peers \cup {"lan", "none"}, to : SUBSET (Peers \cup {"lan"})]
      BY <2>1 DEF Quiet
    <3>2. pc' \in Stages /\ next' \in 0 .. MaxClients /\ ready' \subseteq Fds \X Files
      BY <2>2, <2>3 DEF Lands, Stages
    <3>3. QED
      BY <2>1, <3>1, <3>2 DEF IndInv, TypeOK
  <2>5. Running' /\ Active' = Active /\ \A i \in Active : Client(i)' = Client(i)
    BY <2>1, <2>2 DEF Lands, Running, Stages, Done, Active, Client
  <2>6. NamesAreRight' /\ NothingLeaks'
    BY <1>1, <2>1, <2>5 DEF IndInv, NamesAreRight, NothingLeaks, ClientFds
  <2>7. ReadinessIsCurrent'
    <3> SUFFICES ASSUME NEW i \in Active, IsSet(clients[i], ready')
                 PROVE  <<clients[i], file[clients[i]]>> \in ready'
      BY <2>1, <2>5 DEF ReadinessIsCurrent, Client, IsSet
    <3>1. ready' = Selected
      BY <2>2 DEF IsSet, Lands
    <3>2. QED
      BY <3>1 DEF IsSet, Selected
  <2>8. StagesHold'
    BY <2>1, <2>2 DEF Lands, StagesHold, Stages, Active
  <2>9. QED
    BY <2>4, <2>6, <2>7, <2>8 DEF IndInv
<1>4. QED
  BY <1>2, <1>3

\* Reading the TAP device and relaying what it gave keeps the invariant.
LEMMA TapReadableInv ==
    ASSUME IndInv, TapReadable PROVE IndInv'
<1>1. Running
  BY DEF TapReadable, Running, Done
<1>2. conn \in [Peers -> Connections(Kinds)] /\ lan \in Seq({"frame", "runt"})
      /\ backlog \in Seq(Callers)
  BY DEF IndInv, TypeOK, Kinds
<1>3. CASE Return(Teardown)
  BY <1>1, <1>3, TeardownIsAll
<1>4. CASE /\ lan # <<>> /\ Head(lan) = "runt"
           /\ lan' = Tail(lan) /\ relay' = Quiet
           /\ ToControl(clients, ready)
           /\ UNCHANGED <<tapFd, lisFd, clients, file, conn, backlog>>
  <2>1. Lands(clients, ready)
    BY <1>4, ToControlLands
  <2>2. lan' \in Seq({"frame", "runt"})
    BY <1>2, <1>4
  <2>3. Bookkept
    BY <1>2, <1>4, <2>2 DEF Bookkept, Quiet
  <2>4. QED
    BY <1>1, <1>4, <2>1, <2>3, MovingOnKeepsInv
<1>5. CASE SendLost(Teardown)
  BY <1>1, <1>5, SendLostKeepsInv DEF Teardown
<1>6. CASE FanOutKilled(Active)
  BY <1>6, FanOutKilledKeepsInv
<1>7. CASE /\ lan # <<>>
           /\ FanOut("lan", Active, {"ctl"}, conn)
           /\ lan' = Tail(lan)
           /\ ToControl(clients', ready)
           /\ UNCHANGED <<tapFd, lisFd, backlog>>
  <2>1. Lands(clients', ready)
    BY <1>7, ToControlLands
  <2>2. lan' \in Seq({"frame", "runt"})
    BY <1>2, <1>7
  <2>3. {"ctl"} \in SUBSET Ports
    BY DEF Ports, Peers
  <2>4. QED
    BY <1>1, <1>2, <1>7, <2>1, <2>2, <2>3, FanOutKeepsInv
<1>8. QED
  BY <1>3, <1>4, <1>5, <1>6, <1>7 DEF TapReadable

\* Handling a message of NTAP-A keeps the invariant.
LEMMA ControlReadableInv ==
    ASSUME IndInv, ControlReadable PROVE IndInv'
<1> DEFINE c == conn["ctl"]
           after == [conn EXCEPT !["ctl"] = Taken(c)]
<1>1. Running /\ pc = "ctl" /\ RecvReturns(c)
  BY DEF ControlReadable, Running, Done
<1>2. /\ conn \in [Peers -> Connections(Kinds)] /\ lan \in Seq({"frame", "runt"})
      /\ backlog \in Seq(Callers) /\ c \in Connections(Kinds)
  BY DEF IndInv, TypeOK, Kinds, Peers
<1>3. CASE Return(Teardown)
  BY <1>1, <1>3, TeardownIsAll
<1>4. CASE ~Return(Teardown)
  <2>1. ~RecvFails(c) /\ Head(c.in) \in {"pong", "frame"}
    BY <1>4 DEF ControlReadable
  <2>2. c.in # <<>>
    BY <1>1, <2>1 DEF RecvFails, RecvReturns
  <2>3. after \in [Peers -> Connections(Kinds)]
    BY <1>2, <2>2, TakenTyped
  <2>4. CASE /\ Continue /\ conn' = after /\ relay' = Quiet
             /\ UNCHANGED <<tapFd, lisFd, clients, file, backlog, lan>>
    <3>1. Bookkept
      BY <1>2, <2>3, <2>4 DEF Bookkept, Quiet
    <3>2. QED
      BY <1>1, <2>4, <3>1, ContinueLands, MovingOnKeepsInv
  <2>5. CASE FanOutKilled(Active)
    BY <2>5, FanOutKilledKeepsInv
  <2>6. CASE /\ FanOut("ctl", Active, {"lan"}, after)
             /\ Continue
             /\ UNCHANGED <<tapFd, lisFd, backlog, lan>>
    <3>1. Lands(clients', ready) /\ {"lan"} \in SUBSET Ports /\ "ctl" \in Peers
      BY <2>6, ContinueLands DEF Ports, Peers
    <3>2. QED
      BY <1>1, <1>2, <2>3, <2>6, <3>1, FanOutKeepsInv
  <2>7. QED
    BY <1>4, <2>1, <2>4, <2>5, <2>6 DEF ControlReadable
<1>5. QED
  BY <1>3, <1>4

\* accept() gives a slot that was free a descriptor that was free.
LEMMA AdmitKeepsInv ==
    ASSUME IndInv, Running, NEW c \in Callers, NEW f \in FreshFds, NEW i \in Slots \ Active,
           clients' = [clients EXCEPT ![i] = f], file' = [file EXCEPT ![f] = c],
           UNCHANGED <<tapFd, lisFd>>, Continue, Bookkept
    PROVE  IndInv'
<1>1. f \in Fds /\ file[f] = "none" /\ f # NoFd
  BY DEF FreshFds, First
<1>2. f # CtlFd /\ f # tapFd /\ f # lisFd
  BY <1>1 DEF IndInv, NamesAreRight
<1>3. \A j \in Active : clients[j] # f
  BY <1>1 DEF IndInv, NamesAreRight, Client
<1>4. clients' \in [Slots -> Fds \cup {NoFd}] /\ file' \in [Fds -> Files \cup {"none"}]
  BY <1>1 DEF IndInv, TypeOK, Files, Peers
<1>5. TypeOK'
  <2>1. next' \in 0 .. MaxClients /\ ready' \subseteq Fds \X Files
    BY DEF Continue
  <2>2. QED
    BY <1>4, <2>1 DEF IndInv, TypeOK, Continue, Bookkept, Kinds, Ports, Stages
<1>6. Running' /\ Active' = Active \cup {i}
  BY <1>1 DEF Continue, Running, Done, Active, IndInv, TypeOK
<1>7. \A j \in Active : clients'[j] = clients[j] /\ Client(j)' = Client(j)
  BY <1>3 DEF Client, Active, IndInv, TypeOK, NamesAreRight
<1>8. clients'[i] = f /\ Client(i)' = c
  BY <1>1 DEF Client, IndInv, TypeOK
<1>9. NamesAreRight'
  <2>1. file'[CtlFd] = "ctl" /\ (tapFd # NoFd => file'[tapFd] = "tap")
        /\ (lisFd # NoFd => file'[lisFd] = "lis")
    BY <1>2 DEF IndInv, TypeOK, NamesAreRight
  <2>2. \A j \in Active' : clients'[j] \in Fds /\ Client(j)' \in Callers
    BY <1>1, <1>6, <1>7, <1>8 DEF IndInv, NamesAreRight
  <2>3. \A j, k \in Active' : clients'[j] = clients'[k] => j = k
    BY <1>3, <1>6, <1>7, <1>8 DEF IndInv, NamesAreRight
  <2>4. QED
    BY <2>1, <2>2, <2>3 DEF NamesAreRight
<1>10. NothingLeaks'
  <2> SUFFICES ASSUME NEW g \in Fds, file'[g] # "none"
               PROVE  g \in ({CtlFd, tapFd, lisFd} \cup ClientFds)'
    BY <1>6 DEF NothingLeaks
  <2>1. CASE g = f
    BY <1>6, <1>8, <2>1 DEF ClientFds
  <2>2. CASE g # f
    <3>1. g \in {CtlFd, tapFd, lisFd} \cup ClientFds
      BY <2>2 DEF IndInv, TypeOK, NothingLeaks
    <3>2. QED
      BY <3>1, <1>6, <1>7 DEF ClientFds
  <2>3. QED
    BY <2>1, <2>2
<1>11. ReadinessIsCurrent' /\ StagesHold'
  BY DEF Continue, ReadinessIsCurrent, IsSet, StagesHold
<1>12. QED
  BY <1>5, <1>9, <1>10, <1>11 DEF IndInv

\* Accepting a caller, admitted or not, keeps the invariant.
LEMMA ListenerReadableInv ==
    ASSUME IndInv, ListenerReadable PROVE IndInv'
<1>1. Running
  BY DEF ListenerReadable, Running, Done
<1>2. CASE Return(Teardown)
  BY <1>1, <1>2, TeardownIsAll
<1>3. CASE ~Return(Teardown)
  <2> DEFINE c == Head(backlog)
  <2>1. /\ backlog # <<>>
        /\ Admit(c) \/ Reject(c)
        /\ backlog' = Tail(backlog) /\ relay' = Quiet
        /\ Continue
        /\ UNCHANGED <<tapFd, lisFd, lan>>
    BY <1>3 DEF ListenerReadable
  <2>2. c \in Callers /\ backlog' \in Seq(Callers)
    <3>1. backlog \in Seq(Callers) /\ backlog # <<>>
      BY <2>1 DEF IndInv, TypeOK
    <3>2. QED
      BY <2>1, <3>1
  <2>3. [conn EXCEPT ![c] = Fresh] \in [Peers -> Connections(Kinds)]
        /\ conn \in [Peers -> Connections(Kinds)]
    <3>1. conn \in [Peers -> Connections(Kinds)]
      BY DEF IndInv, TypeOK, Kinds
    <3>2. Fresh \in Connections(Kinds)
      BY DEF Fresh, Connections
    <3>3. QED
      BY <3>1, <3>2
  <2>4. Lands(clients, ready)
    BY <2>1, ContinueLands
  <2>5. relay' \in [from : Peers \cup {"lan", "none"}, to : SUBSET Ports]
        /\ lan' \in Seq({"frame", "runt"})
    BY <2>1 DEF Quiet, IndInv, TypeOK
  <2>6. CASE conn' = [conn EXCEPT ![c] = Fresh] /\ UNCHANGED <<clients, file>>
    <3>1. Bookkept
      BY <2>2, <2>3, <2>5, <2>6 DEF Bookkept
    <3>2. QED
      BY <1>1, <2>1, <2>4, <2>6, <3>1, MovingOnKeepsInv
  <2>7. CASE ~(conn' = [conn EXCEPT ![c] = Fresh] /\ UNCHANGED <<clients, file>>)
    <3>1. UNCHANGED conn /\ \E f \in FreshFds, i \in First(Slots \ Active) :
            clients' = [clients EXCEPT ![i] = f] /\ file' = [file EXCEPT ![f] = c]
      BY <2>1, <2>7 DEF Admit, Reject
    <3>2. PICK f \in FreshFds, i \in First(Slots \ Active) :
            clients' = [clients EXCEPT ![i] = f] /\ file' = [file EXCEPT ![f] = c]
      BY <3>1
    <3>3. i \in Slots \ Active
      BY DEF First
    <3>4. Bookkept
      BY <2>2, <2>3, <2>5, <3>1 DEF Bookkept
    <3>5. QED
      BY <1>1, <2>1, <2>2, <3>2, <3>3, <3>4, AdmitKeepsInv
  <2>8. QED
    BY <2>6, <2>7
<1>4. QED
  BY <1>2, <1>3

\* b_direct_clients_handle_readable keeps the invariant.
LEMMA ClientReadableInv ==
    ASSUME IndInv, ClientReadable PROVE IndInv'
<1> DEFINE me == Client(next)
           c == conn[me]
           after == [conn EXCEPT ![me] = Taken(c)]
           slots == [clients EXCEPT ![next] = NoFd]
<1>1. Running /\ pc = "clients" /\ RecvReturns(c) /\ next \in Active
  BY DEF ClientReadable, Running, Done, IndInv, StagesHold
<1>2. me \in Peers
  BY <1>1 DEF IndInv, NamesAreRight, Peers
<1>3. /\ conn \in [Peers -> Connections(Kinds)] /\ c \in Connections(Kinds)
      /\ lan \in Seq({"frame", "runt"}) /\ backlog \in Seq(Callers)
  BY <1>2 DEF IndInv, TypeOK, Kinds
<1>4. CASE /\ clients' = slots /\ file' = Close({clients[next]})
           /\ conn' = Hangup({clients[next]}, conn) /\ relay' = Quiet
           /\ ToClients(next + 1, slots, ready)
           /\ UNCHANGED <<tapFd, lisFd, backlog, lan>>
  <2>1. clients' = [i \in Slots |-> IF i \in {next} THEN NoFd ELSE clients[i]]
    BY <1>4 DEF IndInv, TypeOK
  <2>2. file' = Close({clients[i] : i \in {next}})
    <3>1. {clients[i] : i \in {next}} = {clients[next]}
      OBVIOUS
    <3>2. QED
      BY <3>1, <1>4
  <2>3. Lands(clients', ready)
    BY <1>4, ToClientsLands
  <2>4. Bookkept
    BY <1>3, <1>4, HangupTyped DEF Bookkept, Quiet
  <2>5. {next} \in SUBSET Active
    BY <1>1
  <2>6. QED
    BY <1>1, <1>4, <2>1, <2>2, <2>3, <2>4, <2>5, ClosingSlotsKeepsInv
<1>5. CASE FanOutKilled(Active \ {next})
  BY <1>5, FanOutKilledKeepsInv
<1>6. CASE /\ ~RecvFails(c)
           /\ FanOut(me, Active \ {next}, {"lan"}, after)
           /\ ToClients(next + 1, clients', ready)
           /\ UNCHANGED <<tapFd, lisFd, backlog, lan>>
  <2>1. c.in # <<>>
    BY <1>1, <1>6 DEF RecvFails, RecvReturns
  <2>2. after \in [Peers -> Connections(Kinds)]
    BY <1>3, <2>1, TakenTyped
  <2>3. Lands(clients', ready) /\ {"lan"} \in SUBSET Ports
    BY <1>6, ToClientsLands DEF Ports
  <2>4. QED
    BY <1>1, <1>2, <1>3, <1>6, <2>2, <2>3, FanOutKeepsInv
<1>7. QED
  BY <1>4, <1>5, <1>6 DEF ClientReadable

-----------------------------------------------------------------------------
(* The peers *)

\* Whatever a peer does to a connection leaves a connection.
LEMMA PeerStepTyped ==
    ASSUME NEW c \in Connections(Kinds), NEW K \in SUBSET Kinds, NEW max,
           NEW d \in Arrivals(c, K, max) \cup Fragments(c, max) \cup Endings(c)
                       \cup Resets(c) \cup Stalls(c) \cup Resumes(c)
    PROVE  d \in Connections(Kinds)
<1>1. CASE d \in Arrivals(c, K, max)
  <2>1. PICK k \in K : d = [c EXCEPT !.in = Append(@, k), !.part = FALSE]
    BY <1>1 DEF Arrivals
  <2>2. c.in \in Seq(Kinds) /\ k \in Kinds
    BY DEF Connections
  <2>3. Append(c.in, k) \in Seq(Kinds)
    BY <2>2
  <2>4. QED
    BY <2>1, <2>3 DEF Connections
<1>2. CASE d \in Fragments(c, max) \cup Endings(c)
  BY <1>2 DEF Fragments, Endings, Connections
<1>3. CASE d \in Resets(c)
  <2>1. PICK l \in {"reset", "broken"} :
           d = [c EXCEPT !.life = l, !.part = FALSE, !.stall = FALSE]
    BY <1>3 DEF Resets, Connections
  <2>2. QED
    BY <2>1 DEF Connections
<1>4. CASE d \in Stalls(c) \cup Resumes(c)
  BY <1>4 DEF Stalls, Resumes, Connections
<1>5. QED
  BY <1>1, <1>2, <1>3, <1>4

\* Peers, callers and the LAN touch nothing the invariant speaks of.
LEMMA EnvironmentInv ==
    ASSUME IndInv, Environment PROVE IndInv'
<1>1. Running /\ UNCHANGED <<pc, next, tapFd, lisFd, clients, ready, file, relay>>
  BY DEF Environment, PeerStep, Dial, LanFrame, program
<1>2. /\ conn' \in [Peers -> Connections(CtlKinds \cup CallerKinds)]
      /\ backlog' \in Seq(Callers) /\ lan' \in Seq({"frame", "runt"})
  <2>1. ASSUME NEW p \in Peers, PeerStep(p)
        PROVE  conn' \in [Peers -> Connections(Kinds)] /\ UNCHANGED <<backlog, lan>>
    <3>1. conn \in [Peers -> Connections(Kinds)] /\ conn[p] \in Connections(Kinds)
      BY DEF IndInv, TypeOK, Kinds
    <3>2. PICK d : /\ d \in Arrivals(conn[p], IF p = "ctl" THEN CtlKinds ELSE CallerKinds,
                                      MaxQueue)
                              \cup Fragments(conn[p], MaxQueue) \cup Endings(conn[p])
                              \cup Resets(conn[p]) \cup Stalls(conn[p]) \cup Resumes(conn[p])
                   /\ conn' = [conn EXCEPT ![p] = d]
      BY <2>1 DEF PeerStep, Answers
    <3>3. (IF p = "ctl" THEN CtlKinds ELSE CallerKinds) \in SUBSET Kinds
      BY DEF Kinds
    <3>4. d \in Connections(Kinds)
      BY <3>1, <3>2, <3>3, PeerStepTyped
    <3>5. QED
      BY <2>1, <3>1, <3>2, <3>4 DEF PeerStep
  <2>2. ASSUME NEW c \in Callers, Dial(c)
        PROVE  backlog' \in Seq(Callers) /\ UNCHANGED <<conn, lan>>
    <3>1. backlog \in Seq(Callers)
      BY DEF IndInv, TypeOK
    <3>2. QED
      BY <2>2, <3>1 DEF Dial
  <2>3. ASSUME LanFrame
        PROVE  lan' \in Seq({"frame", "runt"}) /\ UNCHANGED <<conn, backlog>>
    <3>1. lan \in Seq({"frame", "runt"})
      BY DEF IndInv, TypeOK
    <3>2. QED
      BY <2>3, <3>1 DEF LanFrame
  <2>4. QED
    BY <2>1, <2>2, <2>3 DEF Environment, IndInv, TypeOK, Kinds
<1>3. TypeOK'
  BY <1>1, <1>2 DEF IndInv, TypeOK
<1>4. QED
  BY <1>1, <1>3 DEF IndInv, NamesAreRight, NothingLeaks, ReadinessIsCurrent, StagesHold,
    Running, Active, ClientFds, Client, IsSet

-----------------------------------------------------------------------------
(* The theorems *)

\* Every step keeps the invariant.
LEMMA StepInv == IndInv /\ [Next]_vars => IndInv'
<1> SUFFICES ASSUME IndInv, [Next]_vars PROVE IndInv'
  OBVIOUS
<1>1. CASE LoopStep
  BY <1>1, OpenTapInv, AttachBridgeInv, StartListenerInv, SendPingInv, SelectInv,
     TapReadableInv, ControlReadableInv, ListenerReadableInv, ClientReadableInv DEF LoopStep
<1>2. CASE Environment
  BY <1>2, EnvironmentInv
<1>3. CASE UNCHANGED vars
  <2>1. TypeOK'
    BY <1>3 DEF vars, IndInv, TypeOK
  <2>2. NamesAreRight' /\ NothingLeaks'
    BY <1>3 DEF vars, IndInv, NamesAreRight, NothingLeaks, Running, Active, ClientFds, Client
  <2>3. ReadinessIsCurrent' /\ StagesHold'
    BY <1>3 DEF vars, IndInv, ReadinessIsCurrent, StagesHold, Active, Client, IsSet
  <2>4. QED
    BY <2>1, <2>2, <2>3 DEF IndInv
<1>4. QED
  BY <1>1, <1>2, <1>3 DEF Next, Returned

\* The invariant holds in every state of a TAP session.
THEOREM Inductive == Spec => []IndInv
BY InitInv, StepInv, PTL DEF Spec

\* The state of the TAP loop is always well typed.
THEOREM TypeCorrect == Spec => []TypeOK
<1>1. IndInv => TypeOK
  BY DEF IndInv
<1>2. QED
  BY <1>1, Inductive, PTL

\* Every descriptor of a TAP session is owned exactly once while the session
\* runs, and none is left open when it ends or the process is killed.
THEOREM DescriptorsNeverLeak == Spec => []DescriptorsOwned
<1>1. IndInv => DescriptorsOwned
  BY DEF IndInv, DescriptorsOwned
<1>2. QED
  BY <1>1, Inductive, PTL

\* A slot found set in readfds holds the connection select() reported, however
\* descriptors were closed and reused by the handlers before it in the pass.
THEOREM NoStaleReadiness == Spec => []ReadinessIsCurrent
<1>1. IndInv => ReadinessIsCurrent
  BY DEF IndInv
<1>2. QED
  BY <1>1, Inductive, PTL

-----------------------------------------------------------------------------
(* The loop's calls *)

\* A connection is open once: no two descriptors denote the same file, no
\* connection waits for accept() that is open already or waits twice.
EachOnce ==
    /\ \A f, g \in Fds : file[f] = file[g] /\ file[f] # "none" => f = g
    /\ \A k \in DOMAIN backlog : \A f \in Fds : file[f] # backlog[k]
    /\ \A k, l \in DOMAIN backlog : backlog[k] = backlog[l] => k = l

\* What select() found is still there when the pass gets to it: nothing before
\* it in the pass takes input from a descriptor it does not close.
StillReadable ==
    /\ pc = "tap" => lan # <<>>
    /\ pc = "ctl" => IsSet(CtlFd, ready)
    /\ pc = "listen" => IsSet(lisFd, ready)
    /\ pc = "clients" => IsSet(clients[next], ready)
    /\ IsSet(CtlFd, ready) => Readable(conn["ctl"])
    /\ IsSet(lisFd, ready) => backlog # <<>>
    /\ \A i \in Active : IsSet(clients[i], ready) /\ (pc = "clients" => next <= i)
                             => Readable(conn[Client(i)])

\* Only callers with a valid token have a slot.
OnlyValid == Running => Admitted \subseteq Valid

InputInv == EachOnce /\ StillReadable /\ OnlyValid

-----------------------------------------------------------------------------
(* Jumps *)

\* Every branch the pass jumps to has been asked for by readfds, and the client
\* pass goes on at slot "i" or behind it.
Asked(i, slots, fds) ==
    /\ pc' \in {"ctl", "listen", "clients", "select"}
    /\ pc' = "select" => ready' = {}
    /\ pc' # "select" => ready' = fds
    /\ pc' = "ctl" => IsSet(CtlFd, fds) /\ i = 0
    /\ pc' = "listen" => IsSet(lisFd, fds) /\ i = 0
    /\ pc' = "clients" => next' \in Slots /\ i <= next' /\ slots[next'] # NoFd
                          /\ IsSet(slots[next'], fds)

\* The client pass serves only slots that are set and not yet served.
LEMMA ToClientsAsked ==
    ASSUME NEW i, NEW slots, NEW fds, ToClients(i, slots, fds)
    PROVE  Asked(i, slots, fds)
<1> DEFINE todo == {j \in Slots : j >= i /\ slots[j] # NoFd /\ IsSet(slots[j], fds)}
<1>1. CASE todo = {}
  BY <1>1 DEF ToClients, Continue, Asked
<1>2. CASE todo # {}
  <2>1. pc' = "clients" /\ ready' = fds /\ next' \in todo
    BY <1>2 DEF ToClients, First
  <2>2. next' \in Slots /\ next' >= i /\ slots[next'] # NoFd /\ IsSet(slots[next'], fds)
    BY <2>1
  <2>3. i <= next'
    BY <2>2
  <2>4. QED
    BY <2>1, <2>2, <2>3 DEF Asked
<1>3. QED
  BY <1>1, <1>2

\* The listener is served only when it is set.
LEMMA ToListenerAsked ==
    ASSUME NEW slots, NEW fds, ToListener(slots, fds)
    PROVE  Asked(0, slots, fds)
<1>1. CASE IsSet(lisFd, fds)
  BY <1>1 DEF ToListener, Asked
<1>2. CASE ~IsSet(lisFd, fds)
  BY <1>2, ToClientsAsked DEF ToListener
<1>3. QED
  BY <1>1, <1>2

\* The control connection is served only when it is set.
LEMMA ToControlAsked ==
    ASSUME NEW slots, NEW fds, ToControl(slots, fds)
    PROVE  Asked(0, slots, fds)
<1>1. CASE IsSet(CtlFd, fds)
  BY <1>1 DEF ToControl, Asked
<1>2. CASE ~IsSet(CtlFd, fds)
  BY <1>2, ToListenerAsked DEF ToControl
<1>3. QED
  BY <1>1, <1>2

-----------------------------------------------------------------------------
(* What a handler does to the tables *)

\* Closing descriptors opens no connection a second time.
LEMMA ClosingKeepsEachOnce ==
    ASSUME IndInv, InputInv, NEW fds, file' = Close(fds), backlog' = backlog
    PROVE  EachOnce'
<1>1. \A f \in Fds : file'[f] = file[f] \/ file'[f] = "none"
  BY DEF Close
<1>2. \A k \in DOMAIN backlog : backlog[k] \in Callers /\ backlog[k] # "none"
  BY DEF IndInv, TypeOK
<1>3. QED
  BY <1>1, <1>2 DEF InputInv, EachOnce

\* A step inside the loop that closes the clients "gone" and takes input only
\* from connections the pass does not come back to.
LEMMA ClosingSlotsInput ==
    ASSUME IndInv, InputInv, Running, NEW gone \in SUBSET Active, NEW i0 \in Nat,
           NEW table \in [Peers -> Connections(Kinds)],
           clients' = [i \in Slots |-> IF i \in gone THEN NoFd ELSE clients[i]],
           file' = Close({clients[i] : i \in gone}),
           conn' = Hangup({clients[i] : i \in gone}, table),
           UNCHANGED <<tapFd, lisFd, backlog>>,
           Asked(i0, clients', ready),
           pc' # "select" =>
               /\ table["ctl"] = conn["ctl"]
               /\ \A i \in Active : i0 <= i => table[Client(i)] = conn[Client(i)]
               /\ pc = "clients" => next <= i0
    PROVE  InputInv'
<1>1. Active' = Active \ gone /\ \A i \in Active' : clients'[i] = clients[i]
  BY DEF Active
<1>2. \A i \in Active : clients[i] \in Fds /\ Client(i) \in Callers /\ Client(i) \in Peers
  BY DEF IndInv, NamesAreRight, Peers
<1>3. \A i \in Active', j \in gone : clients[i] # clients[j] /\ Client(i) # Client(j)
  <2> SUFFICES ASSUME NEW i \in Active', NEW j \in gone
               PROVE  clients[i] # clients[j] /\ Client(i) # Client(j)
    OBVIOUS
  <2>1. i \in Active /\ j \in Active /\ i # j
    BY <1>1
  <2>2. clients[i] # clients[j]
    BY <2>1 DEF IndInv, NamesAreRight
  <2>3. file[clients[i]] # "none"
    BY <1>2, <2>1 DEF Client
  <2>4. QED
    BY <1>2, <2>1, <2>2, <2>3 DEF InputInv, EachOnce, Client
<1>4. \A i \in Active' : Client(i)' = Client(i)
  <2> SUFFICES ASSUME NEW i \in Active' PROVE Client(i)' = Client(i)
    OBVIOUS
  <2>1. clients[i] \in Fds /\ clients[i] \notin {clients[j] : j \in gone}
    BY <1>1, <1>2, <1>3
  <2>2. QED
    BY <1>1, <2>1 DEF Close, Client
<1>5. EachOnce'
  BY ClosingKeepsEachOnce
<1>6. OnlyValid'
  BY <1>1, <1>4 DEF InputInv, OnlyValid, Admitted
<1>7. StillReadable'
  <2>1. CASE pc' = "select"
    BY <2>1 DEF Asked, StillReadable, IsSet
  <2>2. CASE pc' # "select"
    <3>1. ready' = ready /\ (pc = "clients" => next <= i0)
      BY <2>2 DEF Asked
    <3>2. IsSet(CtlFd, ready') => Readable(conn'["ctl"])
      <4>1. "ctl" \in Peers /\ "ctl" \notin {file[f] : f \in {clients[i] : i \in gone} \cap Fds}
        BY <1>2 DEF Peers, Client
      <4>2. conn'["ctl"] = conn["ctl"]
        BY <2>2, <4>1 DEF Hangup
      <4>3. QED
        BY <3>1, <4>2 DEF InputInv, StillReadable
    <3>3. IsSet(lisFd', ready') => backlog' # <<>>
      BY <3>1 DEF InputInv, StillReadable
    <3>4. ASSUME NEW i \in Active', IsSet(clients[i], ready), pc' = "clients" => next' <= i
          PROVE  Readable(conn'[Client(i)])
      <4>1. i \in Active /\ i \in Nat /\ Client(i) \in Peers
        BY <1>1, <1>2 DEF Active, Slots
      <4>2. i0 <= i
        BY <2>2, <3>4, <4>1 DEF Asked, Slots
      <4>3. next \in Nat
        BY DEF IndInv, TypeOK
      <4>4. Readable(conn[Client(i)])
        BY <3>1, <3>4, <4>1, <4>2, <4>3 DEF InputInv, StillReadable
      <4>5. Client(i) \notin {file[f] : f \in {clients[j] : j \in gone} \cap Fds}
        BY <1>3 DEF Client
      <4>6. conn'[Client(i)] = conn[Client(i)]
        BY <2>2, <4>1, <4>2, <4>5 DEF Hangup
      <4>7. QED
        BY <4>4, <4>6
    <3>5. \A i \in Active' : IsSet(clients'[i], ready') /\ (pc' = "clients" => next' <= i)
                                => Readable(conn'[Client(i)'])
      BY <1>1, <1>4, <3>1, <3>4
    <3>6. QED
      BY <2>2, <3>1, <3>2, <3>3, <3>5 DEF Asked, StillReadable
  <2>3. QED
    BY <2>1, <2>2
<1>8. QED
  BY <1>5, <1>6, <1>7 DEF InputInv

\* A relayed frame closes the clients whose send failed and nothing else.
LEMMA FanOutInput ==
    ASSUME IndInv, InputInv, Running, NEW from, NEW to \in SUBSET Active, NEW others,
           NEW i0 \in Nat, NEW table \in [Peers -> Connections(Kinds)],
           FanOut(from, to, others, table),
           UNCHANGED <<tapFd, lisFd, backlog>>,
           Asked(i0, clients', ready),
           pc' # "select" =>
               /\ table["ctl"] = conn["ctl"]
               /\ \A i \in Active : i0 <= i => table[Client(i)] = conn[Client(i)]
               /\ pc = "clients" => next <= i0
    PROVE  InputInv'
<1> DEFINE broken == {i \in to : SendFails(conn[Client(i)])}
<1>1. /\ clients' = [i \in Slots |-> IF i \in broken THEN NoFd ELSE clients[i]]
      /\ file' = Close({clients[i] : i \in broken})
      /\ conn' = Hangup({clients[i] : i \in broken}, table)
  BY DEF FanOut
<1>2. broken \in SUBSET Active
  OBVIOUS
<1> HIDE DEF broken
<1>3. QED
  BY <1>1, <1>2, ClosingSlotsInput

\* A step that leaves the tables and the connections alone.
LEMMA MovingOnInput ==
    ASSUME IndInv, InputInv, Running,
           UNCHANGED <<clients, file, conn, tapFd, lisFd, backlog>>,
           Asked(0, clients, ready), pc # "clients"
    PROVE  InputInv'
<1>1. clients' = [i \in Slots |-> IF i \in {} THEN NoFd ELSE clients[i]]
  BY DEF IndInv, TypeOK
<1>2. file' = Close({clients[i] : i \in {}})
  BY DEF IndInv, TypeOK, Close
<1>3. conn \in [Peers -> Connections(Kinds)]
  BY DEF IndInv, TypeOK, Kinds
<1>4. conn' = Hangup({clients[i] : i \in {}}, conn)
  BY <1>3 DEF Hangup
<1>5. Asked(0, clients', ready)
  OBVIOUS
<1>6. QED
  BY <1>1, <1>2, <1>3, <1>4, <1>5, ClosingSlotsInput

\* Nothing is left to be wrong about when the session or the process has ended.
LEMMA FinishInput ==
    ASSUME IndInv, InputInv, NEW how \in Done, NEW fds, Finish(how, fds)
    PROVE  InputInv'
<1>1. pc' \in Done /\ ready' = {} /\ Active' = {} /\ backlog' = backlog
  BY DEF Finish, Active
<1>2. EachOnce'
  BY <1>1, ClosingKeepsEachOnce DEF Finish
<1>3. StillReadable' /\ OnlyValid'
  BY <1>1 DEF StillReadable, OnlyValid, IsSet, Running, Done
<1>4. QED
  BY <1>2, <1>3 DEF InputInv

\* The same for the ways the handlers end: returning, being killed, or either.
LEMMA EndsInput ==
    ASSUME IndInv, InputInv, NEW fds, NEW to,
           Return(fds) \/ Killed \/ SendLost(fds) \/ FanOutKilled(to)
    PROVE  InputInv'
BY FinishInput DEF Return, Killed, SendLost, FanOutKilled, Done

-----------------------------------------------------------------------------
(* Steps *)

\* The invariant holds when run_tap_loop is entered.
LEMMA InitInput == Init => InputInv
<1> SUFFICES ASSUME Init PROVE InputInv
  OBVIOUS
<1>1. Active = {} /\ ready = {} /\ backlog = <<>> /\ pc = "open"
  BY DEF Init, Active
<1>2. \A f \in Fds : file[f] # "none" => f = CtlFd
  BY DEF Init
<1>3. EachOnce
  BY <1>1, <1>2 DEF EachOnce
<1>4. StillReadable /\ OnlyValid
  BY <1>1 DEF StillReadable, OnlyValid, IsSet, Admitted
<1>5. QED
  BY <1>3, <1>4 DEF InputInv

\* The TAP device and the listener are opened once.
LEMMA OpeningInput ==
    ASSUME IndInv, InputInv, NEW f \in FreshFds, NEW x \in {"tap", "lis"},
           file' = [file EXCEPT ![f] = x], \A g \in Fds : file[g] # x,
           Active = {}, ready = {}, Running,
           pc' \in {"bridge", "hello"}, UNCHANGED <<clients, ready, backlog>>
    PROVE  InputInv'
<1>1. f \in Fds /\ file[f] = "none" /\ file \in [Fds -> Files \cup {"none"}]
  BY DEF FreshFds, First, IndInv, TypeOK
<1>2. \A k \in DOMAIN backlog : backlog[k] \in Callers /\ backlog[k] # x
  BY DEF IndInv, TypeOK
<1>3. \A g \in Fds : file'[g] = IF g = f THEN x ELSE file[g]
  BY <1>1
<1>4. EachOnce'
  BY <1>1, <1>2, <1>3 DEF InputInv, EachOnce
<1>5. Active' = {}
  BY DEF Active
<1>6. StillReadable' /\ OnlyValid'
  BY <1>5 DEF StillReadable, OnlyValid, IsSet, Admitted
<1>7. QED
  BY <1>4, <1>6 DEF InputInv

\* Before the loop nothing is selected and nobody admitted.
LEMMA StagesInput ==
    ASSUME IndInv, InputInv, Active = {}, ready = {},
           pc' \in {"listener", "hello"}, UNCHANGED <<clients, file, ready, backlog>>
    PROVE  InputInv'
<1>1. Active' = {}
  BY DEF Active
<1>2. EachOnce'
  BY DEF InputInv, EachOnce
<1>3. StillReadable' /\ OnlyValid'
  BY <1>1 DEF StillReadable, OnlyValid, IsSet, Admitted
<1>4. QED
  BY <1>2, <1>3 DEF InputInv

\* The steps before the loop.
LEMMA PreludeInput ==
    ASSUME IndInv, InputInv, OpenTap \/ AttachBridge \/ StartListener
    PROVE  InputInv'
<1>1. /\ pc \in {"open", "bridge", "listener"} /\ Running /\ Active = {} /\ ready = {}
      /\ lisFd = NoFd /\ (pc = "open" => tapFd = NoFd)
  BY DEF OpenTap, AttachBridge, StartListener, IndInv, StagesHold, Running, Done
<1>2. \A f \in Fds : file[f] # "none" => f = CtlFd \/ f = tapFd
  BY <1>1 DEF IndInv, NothingLeaks, ClientFds
<1>3. file[CtlFd] = "ctl" /\ (tapFd # NoFd => file[tapFd] = "tap")
  BY <1>1 DEF IndInv, NamesAreRight
<1>4. CASE OpenTap
  <2>1. CASE Return({})
    BY <2>1, EndsInput
  <2>2. CASE ~Return({})
    <3>1. PICK f \in FreshFds :
            /\ pc' = "bridge" /\ file' = [file EXCEPT ![f] = "tap"]
            /\ UNCHANGED <<clients, ready, backlog>>
      BY <1>4, <2>2 DEF OpenTap
    <3>2. \A g \in Fds : file[g] # "tap"
      BY <1>1, <1>2, <1>3, <1>4 DEF OpenTap
    <3>3. QED
      BY <1>1, <3>1, <3>2, OpeningInput
  <2>3. QED
    BY <2>1, <2>2
<1>5. CASE AttachBridge
  <2>1. CASE Return({tapFd})
    BY <2>1, EndsInput
  <2>2. CASE ~Return({tapFd})
    BY <1>1, <1>5, <2>2, StagesInput DEF AttachBridge
  <2>3. QED
    BY <2>1, <2>2
<1>6. CASE StartListener
  <2>1. CASE Return({tapFd})
    BY <2>1, EndsInput
  <2>2. CASE ~Return({tapFd}) /\ UNCHANGED <<lisFd, file>>
    BY <1>1, <1>6, <2>2, StagesInput DEF StartListener
  <2>3. CASE ~Return({tapFd}) /\ ~UNCHANGED <<lisFd, file>>
    <3>1. PICK f \in FreshFds : file' = [file EXCEPT ![f] = "lis"]
      BY <1>6, <2>3 DEF StartListener
    <3>2. pc' = "hello" /\ UNCHANGED <<clients, ready, backlog>>
      BY <1>6, <2>3 DEF StartListener
    <3>3. \A g \in Fds : file[g] # "lis"
      BY <1>2, <1>3
    <3>4. QED
      BY <1>1, <3>1, <3>2, <3>3, OpeningInput
  <2>4. QED
    BY <2>1, <2>2, <2>3
<1>7. QED
  BY <1>4, <1>5, <1>6

\* PING takes no input.
LEMMA SendPingInput ==
    ASSUME IndInv, InputInv, SendPing
    PROVE  InputInv'
<1>1. CASE Lost(conn["ctl"])
  BY <1>1, EndsInput DEF SendPing
<1>2. CASE ~Lost(conn["ctl"])
  <2>1. pc' = "select" /\ Running /\ pc # "clients" /\ ready' = {}
        /\ UNCHANGED <<clients, file, conn, tapFd, lisFd, backlog>>
    BY <1>2 DEF SendPing, IndInv, StagesHold, Running, Done
  <2>2. Asked(0, clients, ready)
    BY <2>1 DEF Asked
  <2>3. QED
    BY <2>1, <2>2, MovingOnInput
<1>3. QED
  BY <1>1, <1>2

\* select() finds what it finds, and the pass begins with the first of it.
LEMMA SelectInput ==
    ASSUME IndInv, InputInv, Select
    PROVE  InputInv'
<1>1. pc = "select" /\ Running
  BY DEF Select, Running, Done
<1>2. CASE Return(Teardown)
  BY <1>2, EndsInput
<1>3. CASE ~Return(Teardown)
  <2>1. UNCHANGED <<tapFd, lisFd, clients, file, conn, backlog, lan>>
    BY <1>3 DEF Select
  <2>2. EachOnce' /\ OnlyValid'
    <3>1. Active' = Active /\ \A i \in Active : Client(i)' = Client(i)
      BY <2>1 DEF Active, Client
    <3>2. QED
      BY <1>1, <2>1, <3>1 DEF InputInv, EachOnce, OnlyValid, Admitted
  <2>3. CASE Selected = {}
    <3>1. pc' = "ping" /\ ready' = {}
      BY <1>3, <2>3 DEF Select
    <3>2. StillReadable'
      BY <3>1 DEF StillReadable, IsSet
    <3>3. QED
      BY <2>2, <3>2 DEF InputInv
  <2>4. CASE Selected # {}
    <3>1. ToTap(clients, Selected)
      BY <1>3, <2>4 DEF Select
    <3>2. \/ pc' = "tap" /\ ready' = Selected /\ IsSet(tapFd, Selected)
          \/ Asked(0, clients, Selected)
      BY <3>1, ToControlAsked DEF ToTap
    <3>3. \A f : IsSet(f, Selected) => f \in Watched /\ FileReadable(file[f])
      BY DEF IsSet, Selected
    <3>4. file[CtlFd] = "ctl" /\ (tapFd # NoFd => file[tapFd] = "tap")
          /\ (lisFd # NoFd => file[lisFd] = "lis")
          /\ \A i \in Active : Client(i) \in Callers
      BY <1>1 DEF IndInv, NamesAreRight
    <3>5. IsSet(tapFd, Selected) => lan # <<>>
      BY <3>3, <3>4 DEF Watched, FileReadable
    <3>6. IsSet(CtlFd, Selected) => Readable(conn["ctl"])
      BY <3>3, <3>4 DEF FileReadable
    <3>7. IsSet(lisFd, Selected) => backlog # <<>>
      BY <3>3, <3>4 DEF Watched, FileReadable
    <3>8. \A i \in Active : IsSet(clients[i], Selected) => Readable(conn[Client(i)])
      <4> SUFFICES ASSUME NEW i \in Active, IsSet(clients[i], Selected)
                   PROVE  Readable(conn[Client(i)])
        OBVIOUS
      <4>1. FileReadable(Client(i)) /\ Client(i) \in Callers
        BY <3>3, <3>4 DEF Client
      <4>2. Client(i) # "tap" /\ Client(i) # "lis"
        BY <4>1
      <4>3. QED
        BY <4>1, <4>2 DEF FileReadable
    <3>9. Active' = Active /\ \A i \in Active : Client(i)' = Client(i)
      BY <2>1 DEF Active, Client
    <3>10. StillReadable'
      BY <2>1, <3>2, <3>5, <3>6, <3>7, <3>8, <3>9 DEF StillReadable, Asked, IsSet
    <3>11. QED
      BY <2>2, <3>10 DEF InputInv
  <2>5. QED
    BY <2>3, <2>4
<1>4. QED
  BY <1>2, <1>3

\* A frame of the LAN leaves the connections as they were, closed ones apart.
LEMMA TapReadableInput ==
    ASSUME IndInv, InputInv, TapReadable
    PROVE  InputInv'
<1>1. Running /\ pc = "tap" /\ conn \in [Peers -> Connections(Kinds)]
  BY DEF TapReadable, Running, Done, IndInv, TypeOK, Kinds
<1>2. CASE Return(Teardown) \/ SendLost(Teardown) \/ FanOutKilled(Active)
  BY <1>2, EndsInput
<1>3. CASE /\ ToControl(clients, ready)
           /\ UNCHANGED <<tapFd, lisFd, clients, file, conn, backlog>>
  BY <1>1, <1>3, ToControlAsked, MovingOnInput
<1>4. CASE /\ FanOut("lan", Active, {"ctl"}, conn)
           /\ ToControl(clients', ready)
           /\ UNCHANGED <<tapFd, lisFd, backlog>>
  <2>1. Asked(0, clients', ready)
    BY <1>4, ToControlAsked
  <2>2. QED
    BY <1>1, <1>4, <2>1, FanOutInput
<1>5. QED
  BY <1>2, <1>3, <1>4 DEF TapReadable

\* A message of NTAP-A ends the pass.
LEMMA ControlReadableInput ==
    ASSUME IndInv, InputInv, ControlReadable
    PROVE  InputInv'
<1> DEFINE c == conn["ctl"]
           after == [conn EXCEPT !["ctl"] = Taken(c)]
<1>1. Running /\ pc = "ctl" /\ RecvReturns(c)
  BY DEF ControlReadable, Running, Done
<1>2. conn \in [Peers -> Connections(Kinds)] /\ c \in Connections(Kinds)
  BY DEF IndInv, TypeOK, Kinds, Peers
<1>3. CASE Return(Teardown) \/ FanOutKilled(Active)
  BY <1>3, EndsInput
<1>4. CASE ~(Return(Teardown) \/ FanOutKilled(Active))
  <2>1. ~RecvFails(c)
    BY <1>4 DEF ControlReadable
  <2>2. after \in [Peers -> Connections(Kinds)]
    BY <1>1, <1>2, <2>1, TakenTyped DEF RecvFails, RecvReturns
  <2>3. \/ /\ Continue /\ conn' = after
           /\ UNCHANGED <<tapFd, lisFd, clients, file, backlog>>
        \/ /\ FanOut("ctl", Active, {"lan"}, after) /\ Continue
           /\ UNCHANGED <<tapFd, lisFd, backlog>>
    BY <1>4 DEF ControlReadable
  <2>4. pc' = "select" /\ Asked(0, clients', ready)
    BY <2>3 DEF Continue, Asked
  <2>5. CASE FanOut("ctl", Active, {"lan"}, after) /\ UNCHANGED <<tapFd, lisFd, backlog>>
    BY <1>1, <2>2, <2>4, <2>5, FanOutInput
  <2>6. CASE conn' = after /\ UNCHANGED <<tapFd, lisFd, clients, file, backlog>>
    <3>1. clients' = [i \in Slots |-> IF i \in {} THEN NoFd ELSE clients[i]]
      BY <2>6 DEF IndInv, TypeOK
    <3>2. file' = Close({clients[i] : i \in {}})
      BY <2>6 DEF IndInv, TypeOK, Close
    <3>3. conn' = Hangup({clients[i] : i \in {}}, after)
      BY <2>2, <2>6 DEF Hangup
    <3>4. QED
      BY <1>1, <2>2, <2>4, <2>6, <3>1, <3>2, <3>3, ClosingSlotsInput
  <2>7. QED
    BY <2>3, <2>5, <2>6
<1>5. QED
  BY <1>3, <1>4

\* The first element of a sequence, and the others one place further on.
LEMMA HeadAndTail ==
    ASSUME NEW S, NEW b \in Seq(S), b # <<>>
    PROVE  /\ Head(b) \in S /\ Head(b) = b[1] /\ 1 \in DOMAIN b
           /\ \A k \in DOMAIN Tail(b) : /\ k \in Nat /\ k + 1 # 1
                                        /\ k + 1 \in DOMAIN b /\ Tail(b)[k] = b[k + 1]
<1>1. Head(b) \in S /\ Head(b) = b[1] /\ 1 \in DOMAIN b
  OBVIOUS
<1>2. Tail(b) \in Seq(S) /\ Len(Tail(b)) = Len(b) - 1
  OBVIOUS
<1>3. \A k \in DOMAIN Tail(b) : k \in Nat /\ k # 0 /\ k <= Len(b) - 1
  BY <1>2
<1>4. \A k \in DOMAIN Tail(b) : k + 1 # 1 /\ k + 1 \in DOMAIN b
  BY <1>3
<1>5. \A k \in DOMAIN Tail(b) : Tail(b)[k] = b[k + 1]
  OBVIOUS
<1>6. QED
  BY <1>1, <1>3, <1>4, <1>5

\* A caller who is admitted was open nowhere else, and has a valid token.
LEMMA ListenerReadableInput ==
    ASSUME IndInv, InputInv, ListenerReadable
    PROVE  InputInv'
<1>1. Running /\ pc = "listen"
  BY DEF ListenerReadable, Running, Done
<1>2. CASE Return(Teardown)
  BY <1>2, EndsInput
<1>3. CASE ~Return(Teardown)
  <2> DEFINE c == Head(backlog)
  <2>1. /\ backlog # <<>>
        /\ Admit(c) \/ Reject(c)
        /\ backlog' = Tail(backlog) /\ Continue
        /\ UNCHANGED <<tapFd, lisFd>>
    BY <1>3 DEF ListenerReadable
  <2>2. backlog \in Seq(Callers)
    BY DEF IndInv, TypeOK
  <2>3. /\ c \in Callers /\ c = backlog[1] /\ 1 \in DOMAIN backlog
        /\ \A k \in DOMAIN backlog' : k + 1 \in DOMAIN backlog /\ backlog'[k] = backlog[k + 1]
    BY <2>1, <2>2, HeadAndTail
  <2>4. \A k \in DOMAIN backlog' : /\ backlog'[k] # c
                                   /\ \A f \in Fds : file[f] # backlog'[k]
    <3> SUFFICES ASSUME NEW k \in DOMAIN backlog'
                 PROVE  backlog'[k] # c /\ \A f \in Fds : file[f] # backlog'[k]
      OBVIOUS
    <3>1. k + 1 # 1
      BY <2>1, <2>2, HeadAndTail
    <3>2. QED
      BY <2>3, <3>1 DEF InputInv, EachOnce
  <2>5. \A k, l \in DOMAIN backlog' : backlog'[k] = backlog'[l] => k = l
    <3> SUFFICES ASSUME NEW k \in DOMAIN backlog', NEW l \in DOMAIN backlog',
                        backlog'[k] = backlog'[l]
                 PROVE  k = l
      OBVIOUS
    <3>1. k + 1 = l + 1
      BY <2>3 DEF InputInv, EachOnce
    <3>2. k \in Nat /\ l \in Nat
      BY <2>1, <2>2
    <3>3. QED
      BY <3>1, <3>2
  <2>6. \A f \in Fds : file[f] # c
    BY <2>3 DEF InputInv, EachOnce
  <2>7. StillReadable'
    BY <2>1 DEF Continue, StillReadable, IsSet
  <2>8. CASE UNCHANGED <<clients, file>>
    <3>1. EachOnce'
      BY <2>4, <2>5, <2>8 DEF InputInv, EachOnce
    <3>2. Admitted' = Admitted
      BY <2>8 DEF Admitted, Active, Client
    <3>3. QED
      BY <1>1, <2>7, <3>1, <3>2 DEF InputInv, OnlyValid
  <2>9. CASE ~UNCHANGED <<clients, file>>
    <3>1. c \in Valid /\ \E f \in FreshFds, i \in First(Slots \ Active) :
            clients' = [clients EXCEPT ![i] = f] /\ file' = [file EXCEPT ![f] = c]
      BY <2>1, <2>9 DEF Admit, Reject
    <3>2. PICK f \in FreshFds, i \in First(Slots \ Active) :
            clients' = [clients EXCEPT ![i] = f] /\ file' = [file EXCEPT ![f] = c]
      BY <3>1
    <3>3. i \in Slots \ Active /\ f \in Fds /\ file[f] = "none" /\ f # NoFd
      BY DEF First, FreshFds
    <3>4. clients \in [Slots -> Fds \cup {NoFd}] /\ file \in [Fds -> Files \cup {"none"}]
      BY DEF IndInv, TypeOK
    <3>5. \A g \in Fds : file'[g] = IF g = f THEN c ELSE file[g]
      BY <3>2, <3>3, <3>4
    <3>6. EachOnce'
      BY <2>4, <2>5, <2>6, <3>3, <3>5 DEF InputInv, EachOnce
    <3>7. Active' = Active \cup {i} /\ \A j \in Active : clients'[j] = clients[j] /\ j # i
      BY <3>2, <3>3, <3>4 DEF Active
    <3>8. \A j \in Active : clients[j] \in Fds /\ clients[j] # f
      BY <1>1, <3>3 DEF IndInv, NamesAreRight, Client
    <3>9. \A j \in Active : Client(j)' = Client(j)
      BY <3>5, <3>7, <3>8 DEF Client
    <3>10. Client(i)' = c
      BY <3>2, <3>3, <3>4 DEF Client
    <3>11. OnlyValid'
      BY <1>1, <3>1, <3>7, <3>9, <3>10 DEF InputInv, OnlyValid, Admitted
    <3>12. QED
      BY <2>7, <3>6, <3>11 DEF InputInv
  <2>10. QED
    BY <2>8, <2>9
<1>4. QED
  BY <1>2, <1>3

\* The pass goes on behind the client it has just served.
LEMMA ClientReadableInput ==
    ASSUME IndInv, InputInv, ClientReadable
    PROVE  InputInv'
<1> DEFINE me == Client(next)
           c == conn[me]
           after == [conn EXCEPT ![me] = Taken(c)]
           slots == [clients EXCEPT ![next] = NoFd]
<1>1. Running /\ pc = "clients" /\ RecvReturns(c) /\ next \in Active
  BY DEF ClientReadable, Running, Done, IndInv, StagesHold
<1>2. me \in Callers /\ me \in Peers /\ me # "ctl" /\ next \in Nat /\ next + 1 \in Nat
      /\ next <= next + 1
  BY <1>1 DEF IndInv, NamesAreRight, Peers, Active, Slots
<1>3. conn \in [Peers -> Connections(Kinds)] /\ c \in Connections(Kinds)
  BY <1>2 DEF IndInv, TypeOK, Kinds
<1>4. CASE /\ clients' = slots /\ file' = Close({clients[next]})
           /\ conn' = Hangup({clients[next]}, conn)
           /\ ToClients(next + 1, slots, ready)
           /\ UNCHANGED <<tapFd, lisFd, backlog>>
  <2>1. clients' = [i \in Slots |-> IF i \in {next} THEN NoFd ELSE clients[i]]
    BY <1>4 DEF IndInv, TypeOK
  <2>2. {clients[i] : i \in {next}} = {clients[next]}
    OBVIOUS
  <2>3. Asked(next + 1, clients', ready)
    BY <1>4, ToClientsAsked
  <2>4. {next} \in SUBSET Active
    BY <1>1
  <2>5. file' = Close({clients[i] : i \in {next}})
        /\ conn' = Hangup({clients[i] : i \in {next}}, conn)
    BY <1>4, <2>2
  <2>6. QED
    BY <1>1, <1>2, <1>3, <1>4, <2>1, <2>3, <2>4, <2>5, ClosingSlotsInput
<1>5. CASE FanOutKilled(Active \ {next})
  BY <1>5, EndsInput
<1>6. CASE /\ ~RecvFails(c)
           /\ FanOut(me, Active \ {next}, {"lan"}, after)
           /\ ToClients(next + 1, clients', ready)
           /\ UNCHANGED <<tapFd, lisFd, backlog>>
  <2>1. after \in [Peers -> Connections(Kinds)]
    BY <1>1, <1>3, <1>6, TakenTyped DEF RecvFails, RecvReturns
  <2>2. Asked(next + 1, clients', ready)
    BY <1>6, ToClientsAsked
  <2>3. after["ctl"] = conn["ctl"]
    BY <1>2, <1>3 DEF Peers
  <2>4. ASSUME NEW i \in Active, next + 1 <= i
        PROVE  after[Client(i)] = conn[Client(i)]
    <3>1. i # next /\ i \in Nat
      BY <1>2, <2>4 DEF Active, Slots
    <3>2. clients[i] \in Fds /\ clients[next] \in Fds /\ clients[i] # clients[next]
          /\ Client(i) \in Callers
      BY <1>1, <3>1 DEF IndInv, NamesAreRight
    <3>3. Client(i) # me /\ Client(i) \in Peers
      BY <3>2 DEF InputInv, EachOnce, Client, Peers
    <3>4. QED
      BY <1>3, <3>3
  <2>5. QED
    BY <1>1, <1>2, <1>6, <2>1, <2>2, <2>3, <2>4, FanOutInput
<1>7. QED
  BY <1>4, <1>5, <1>6 DEF ClientReadable

\* Whatever a peer does, a connection with something to read keeps it.
LEMMA PeerStepReadable ==
    ASSUME NEW c \in Connections(Kinds), NEW K, NEW max, Readable(c),
           NEW d \in Arrivals(c, K, max) \cup Fragments(c, max) \cup Endings(c)
                       \cup Resets(c) \cup Stalls(c) \cup Resumes(c)
    PROVE  Readable(d)
<1>1. CASE d \in Arrivals(c, K, max)
  <2>1. PICK k \in K : d = [c EXCEPT !.in = Append(@, k), !.part = FALSE]
    BY <1>1 DEF Arrivals
  <2>2. c.in \in Seq(Kinds) /\ d.in = Append(c.in, k)
    BY <2>1 DEF Connections
  <2>3. Len(d.in) # 0
    BY <2>2
  <2>4. QED
    BY <2>3 DEF Readable
<1>2. CASE d \in Fragments(c, max)
  BY <1>2 DEF Fragments, Readable, Connections
<1>3. CASE d \in Endings(c) \cup Resets(c)
  BY <1>3 DEF Endings, Resets, Readable, Connections
<1>4. CASE d \in Stalls(c) \cup Resumes(c)
  BY <1>4 DEF Stalls, Resumes, Readable, Connections
<1>5. QED
  BY <1>1, <1>2, <1>3, <1>4

\* Peers, callers and the LAN add input and take none away.
LEMMA EnvironmentInput ==
    ASSUME IndInv, InputInv, Environment
    PROVE  InputInv'
<1>1. Running /\ UNCHANGED <<pc, next, tapFd, lisFd, clients, ready, file>>
  BY DEF Environment, PeerStep, Dial, LanFrame, program
<1>2. Active' = Active /\ \A i \in Active : Client(i)' = Client(i)
  BY <1>1 DEF Active, Client
<1>3. OnlyValid'
  BY <1>1, <1>2 DEF InputInv, OnlyValid, Admitted, Running
<1>4. \A i \in Active : Client(i) \in Peers
  BY <1>1 DEF IndInv, NamesAreRight, Peers
<1>5. ASSUME NEW p \in Peers, PeerStep(p)
      PROVE  InputInv'
  <2>1. conn \in [Peers -> Connections(Kinds)] /\ conn[p] \in Connections(Kinds)
    BY DEF IndInv, TypeOK, Kinds
  <2>2. PICK d : /\ d \in Arrivals(conn[p], IF p = "ctl" THEN CtlKinds ELSE CallerKinds,
                                    MaxQueue)
                            \cup Fragments(conn[p], MaxQueue) \cup Endings(conn[p])
                            \cup Resets(conn[p]) \cup Stalls(conn[p]) \cup Resumes(conn[p])
                 /\ conn' = [conn EXCEPT ![p] = d]
    BY <1>5 DEF PeerStep, Answers
  <2>3. \A q \in Peers : Readable(conn[q]) => Readable(conn'[q])
    BY <2>1, <2>2, PeerStepReadable
  <2>4. EachOnce' /\ UNCHANGED <<backlog, lan>>
    BY <1>1, <1>5 DEF PeerStep, InputInv, EachOnce
  <2>5. StillReadable'
    <3>1. "ctl" \in Peers
      BY DEF Peers
    <3>2. IsSet(CtlFd, ready) => Readable(conn'["ctl"])
      BY <2>3, <3>1 DEF InputInv, StillReadable
    <3>3. \A i \in Active : IsSet(clients[i], ready) /\ (pc = "clients" => next <= i)
                                => Readable(conn'[Client(i)])
      BY <1>4, <2>3 DEF InputInv, StillReadable
    <3>4. QED
      BY <1>1, <1>2, <2>4, <3>2, <3>3 DEF InputInv, StillReadable, IsSet
  <2>6. QED
    BY <1>3, <2>4, <2>5 DEF InputInv
<1>6. ASSUME NEW c \in Callers, Dial(c)
      PROVE  InputInv'
  <2>1. /\ backlog' = Append(backlog, c) /\ UNCHANGED <<conn, lan>>
        /\ \A f \in Fds : file[f] # c
        /\ \A k \in DOMAIN backlog : backlog[k] # c
    BY <1>6 DEF Dial, Connected
  <2>2. backlog \in Seq(Callers)
    BY DEF IndInv, TypeOK
  <2>3. /\ DOMAIN backlog' = DOMAIN backlog \cup {Len(backlog) + 1}
        /\ Len(backlog) + 1 \notin DOMAIN backlog
        /\ backlog' # <<>>
        /\ \A k \in DOMAIN backlog' : backlog'[k] = IF k \in DOMAIN backlog THEN backlog[k] ELSE c
    BY <2>1, <2>2
  <2>4. EachOnce'
    BY <1>1, <2>1, <2>3 DEF InputInv, EachOnce
  <2>5. StillReadable'
    BY <1>1, <1>2, <2>1, <2>3 DEF InputInv, StillReadable, IsSet
  <2>6. QED
    BY <1>3, <2>4, <2>5 DEF InputInv
<1>7. ASSUME LanFrame
      PROVE  InputInv'
  <2>1. PICK k \in {"frame", "runt"} : lan' = Append(lan, k)
    BY <1>7 DEF LanFrame
  <2>2. lan \in Seq({"frame", "runt"}) /\ UNCHANGED <<conn, backlog>>
    BY <1>7 DEF LanFrame, IndInv, TypeOK
  <2>3. Len(lan') # 0
    BY <2>1, <2>2
  <2>4. lan' # <<>>
    BY <2>3
  <2>5. EachOnce' /\ StillReadable'
    BY <1>1, <1>2, <2>2, <2>4 DEF InputInv, EachOnce, StillReadable, IsSet
  <2>6. QED
    BY <1>3, <2>5 DEF InputInv
<1>8. QED
  BY <1>5, <1>6, <1>7 DEF Environment

-----------------------------------------------------------------------------
(* No blocking call without input *)

\* Every step keeps the invariant.
LEMMA StepInput == IndInv /\ InputInv /\ [Next]_vars => InputInv'
<1> SUFFICES ASSUME IndInv, InputInv, [Next]_vars PROVE InputInv'
  OBVIOUS
<1>1. CASE LoopStep
  BY <1>1, PreludeInput, SendPingInput, SelectInput, TapReadableInput,
     ControlReadableInput, ListenerReadableInput, ClientReadableInput DEF LoopStep
<1>2. CASE Environment
  BY <1>2, EnvironmentInput
<1>3. CASE UNCHANGED vars
  BY <1>3 DEF vars, InputInv, EachOnce, StillReadable, OnlyValid, Running, Active, Client,
              IsSet, Admitted
<1>4. QED
  BY <1>1, <1>2, <1>3 DEF Next, Returned

\* Both invariants hold in every state of a TAP session.
THEOREM BothInductive == Spec => [](IndInv /\ InputInv)
BY InitInv, StepInv, InitInput, StepInput, PTL DEF Spec

\* Every receive, TAP read and accept() of the loop is made on what has input:
\* no peer that is merely silent can hold the thread.
THEOREM NeverWaitsInVain == Spec => []CallsHaveInput
<1>1. IndInv /\ InputInv => CallsHaveInput
  <2> SUFFICES ASSUME IndInv, InputInv PROVE CallsHaveInput
    OBVIOUS
  <2>1. pc = "clients" => next \in Active /\ next \in Nat /\ next <= next
    BY DEF IndInv, StagesHold, Active, Slots
  <2>2. pc = "clients" => Readable(conn[Client(next)])
    BY <2>1 DEF InputInv, StillReadable
  <2>3. QED
    BY <2>1, <2>2 DEF InputInv, StillReadable, CallsHaveInput, Active
<1>2. QED
  BY <1>1, BothInductive, PTL

-----------------------------------------------------------------------------
(* A client's misfortune *)

\* No two slots hold the same connection.
LEMMA ClientsDiffer ==
    ASSUME IndInv, InputInv, Running, NEW i \in Active, NEW j \in Active,
           Client(i) = Client(j)
    PROVE  i = j
<1>1. clients[i] \in Fds /\ clients[j] \in Fds /\ Client(i) \in Callers
  BY DEF IndInv, NamesAreRight
<1>2. Client(i) # "none"
  BY <1>1
<1>3. clients[i] = clients[j]
  BY <1>1, <1>2 DEF InputInv, EachOnce, Client
<1>4. QED
  BY <1>3 DEF IndInv, NamesAreRight

\* While the session goes on, only these descriptors are closed ...
ClosesFew ==
    \A f \in Fds : file'[f] = "none" =>
        \/ file[f] = "none"
        \/ Serving /\ f = clients[next]
        \/ file[f] \in Callers /\ SendFails(conn[file[f]])

\* ... and the client pass leaves it in this way alone.
LeavesRightly ==
    Serving /\ ~Running' =>
        /\ pc' = "killed"
        /\ \E c \in Admitted \ {Client(next)} : SendKills(conn[c])

Contained == (Running' => ClosesFew) /\ LeavesRightly

\* A relay closes the connections whose send has failed and no others: what a
\* slot names is a caller's.
LEMMA FanOutContained ==
    ASSUME IndInv, Running, NEW from, NEW to \in SUBSET Active, NEW others, NEW table,
           FanOut(from, to, others, table)
    PROVE  ClosesFew
<1> DEFINE broken == {i \in to : SendFails(conn[Client(i)])}
<1>1. file' = Close({clients[i] : i \in broken})
  BY DEF FanOut
<1>2. ASSUME NEW f \in Fds, file'[f] = "none", file[f] # "none"
      PROVE  file[f] \in Callers /\ SendFails(conn[file[f]])
  <2>1. PICK i \in broken : f = clients[i]
    BY <1>1, <1>2 DEF Close
  <2>2. i \in Active /\ SendFails(conn[Client(i)]) /\ file[f] = Client(i)
    BY <2>1 DEF Client
  <2>3. Client(i) \in Callers
    BY <2>2 DEF IndInv, NamesAreRight
  <2>4. QED
    BY <2>2, <2>3
<1>3. QED
  BY <1>2 DEF ClosesFew

\* What is opened gets a number that was free.
LEMMA OpeningContained ==
    ASSUME IndInv, NEW f \in FreshFds, NEW x, file' = [file EXCEPT ![f] = x]
    PROVE  ClosesFew
<1>1. file[f] = "none" /\ file \in [Fds -> Files \cup {"none"}]
  BY DEF FreshFds, First, IndInv, TypeOK
<1>2. QED
  BY <1>1 DEF ClosesFew

\* Killed while serving one client, the process was writing to another.
LEMMA KilledContained ==
    ASSUME IndInv, InputInv, pc = "clients", FanOutKilled(Active \ {next})
    PROVE  Contained
<1>1. Running /\ next \in Active
  BY DEF IndInv, StagesHold, Running, Done
<1>2. PICK i \in Active \ {next} : SendKills(conn[Client(i)])
  BY DEF FanOutKilled
<1>3. Client(i) # Client(next) /\ Client(i) \in Admitted
  BY <1>1, <1>2, ClientsDiffer DEF Admitted
<1>4. pc' = "killed" /\ ~Running'
  BY DEF FanOutKilled, Killed, Finish, Running, Done
<1>5. QED
  BY <1>2, <1>3, <1>4 DEF Contained, LeavesRightly

\* One step of the loop or of its surroundings.
LEMMA StepContained == IndInv /\ InputInv /\ [Next]_vars => Contained
<1> SUFFICES ASSUME IndInv, InputInv, [Next]_vars PROVE Contained
  OBVIOUS
<1>1. ASSUME pc # "clients", Return({}) \/ Return({tapFd}) \/ Return(Teardown)
                               \/ SendLost({lisFd, tapFd}) \/ SendLost(Teardown)
                               \/ FanOutKilled(Active)
      PROVE  Contained
  <2>1. ~Running'
    BY <1>1 DEF Return, SendLost, FanOutKilled, Killed, Finish, Running, Done
  <2>2. QED
    BY <1>1, <2>1 DEF Contained, LeavesRightly, Serving
<1>2. ASSUME pc # "clients", ClosesFew
      PROVE  Contained
  BY <1>2 DEF Contained, LeavesRightly, Serving
<1>3. UNCHANGED file => ClosesFew
  BY DEF ClosesFew
<1>4. CASE OpenTap \/ AttachBridge \/ StartListener
  <2>1. pc # "clients"
    BY <1>4 DEF OpenTap, AttachBridge, StartListener
  <2>2. CASE Return({}) \/ Return({tapFd})
    BY <1>1, <2>1, <2>2
  <2>3. CASE ~(Return({}) \/ Return({tapFd}))
    <3>1. UNCHANGED file \/ (\E f \in FreshFds : file' = [file EXCEPT ![f] = "tap"])
                         \/ (\E f \in FreshFds : file' = [file EXCEPT ![f] = "lis"])
      BY <1>4, <2>3 DEF OpenTap, AttachBridge, StartListener
    <3>2. QED
      BY <1>2, <1>3, <2>1, <3>1, OpeningContained
  <2>4. QED
    BY <2>2, <2>3
<1>5. CASE SendPing \/ Select
  <2>1. pc # "clients"
    BY <1>5 DEF SendPing, Select
  <2>2. \/ Return(Teardown) \/ SendLost({lisFd, tapFd}) \/ SendLost(Teardown)
        \/ UNCHANGED file
    BY <1>5 DEF SendPing, Select
  <2>3. QED
    BY <1>1, <1>2, <1>3, <2>1, <2>2
<1>6. CASE TapReadable
  <2>1. pc # "clients" /\ Running
    BY <1>6 DEF TapReadable, Running, Done
  <2>2. ASSUME FanOut("lan", Active, {"ctl"}, conn) PROVE Contained
    BY <1>2, <2>1, <2>2, FanOutContained
  <2>3. \/ Return(Teardown) \/ SendLost(Teardown) \/ FanOutKilled(Active)
        \/ UNCHANGED file \/ FanOut("lan", Active, {"ctl"}, conn)
    BY <1>6 DEF TapReadable
  <2>4. QED
    BY <1>1, <1>2, <1>3, <2>1, <2>2, <2>3
<1>7. CASE ControlReadable
  <2> DEFINE after == [conn EXCEPT !["ctl"] = Taken(conn["ctl"])]
  <2>1. pc # "clients" /\ Running
    BY <1>7 DEF ControlReadable, Running, Done
  <2>2. ASSUME FanOut("ctl", Active, {"lan"}, after) PROVE Contained
    BY <1>2, <2>1, <2>2, FanOutContained
  <2>3. \/ Return(Teardown) \/ FanOutKilled(Active)
        \/ UNCHANGED file \/ FanOut("ctl", Active, {"lan"}, after)
    BY <1>7 DEF ControlReadable
  <2>4. QED
    BY <1>1, <1>2, <1>3, <2>1, <2>2, <2>3
<1>8. CASE ListenerReadable
  <2>1. pc # "clients"
    BY <1>8 DEF ListenerReadable
  <2>2. CASE Return(Teardown)
    BY <1>1, <2>1, <2>2
  <2>3. CASE ~Return(Teardown)
    <3>1. \/ UNCHANGED file
          \/ \E f \in FreshFds : file' = [file EXCEPT ![f] = Head(backlog)]
      BY <1>8, <2>3 DEF ListenerReadable, Admit, Reject
    <3>2. QED
      BY <1>2, <1>3, <2>1, <3>1, OpeningContained
  <2>4. QED
    BY <2>2, <2>3
<1>9. CASE ClientReadable
  <2> DEFINE me == Client(next)
             after == [conn EXCEPT ![me] = Taken(conn[me])]
             slots == [clients EXCEPT ![next] = NoFd]
  <2>1. pc = "clients" /\ Running
    BY <1>9 DEF ClientReadable, Running, Done
  <2>2. CASE file' = Close({clients[next]}) /\ ToClients(next + 1, slots, ready)
    <3>1. ClosesFew
      BY <2>1, <2>2 DEF ClosesFew, Close, Serving
    <3>2. Running'
      BY <2>2 DEF ToClients, Continue, Running, Done
    <3>3. QED
      BY <3>1, <3>2 DEF Contained, LeavesRightly
  <2>3. CASE FanOutKilled(Active \ {next})
    BY <2>1, <2>3, KilledContained
  <2>4. CASE FanOut(me, Active \ {next}, {"lan"}, after) /\ ToClients(next + 1, clients', ready)
    <3>1. ClosesFew
      BY <2>1, <2>4, FanOutContained
    <3>2. Running'
      BY <2>4 DEF ToClients, Continue, Running, Done
    <3>3. QED
      BY <3>1, <3>2 DEF Contained, LeavesRightly
  <2>5. QED
    BY <1>9, <2>2, <2>3, <2>4 DEF ClientReadable
<1>10. CASE Environment \/ UNCHANGED vars
  <2>1. UNCHANGED <<pc, file>> /\ (Running \/ UNCHANGED vars)
    BY <1>10 DEF Environment, PeerStep, Dial, LanFrame, program, vars
  <2>2. Serving => Running'
    BY <2>1 DEF Serving, Running, Done
  <2>3. QED
    BY <1>3, <2>1, <2>2 DEF Contained, LeavesRightly
<1>11. QED
  BY <1>4, <1>5, <1>6, <1>7, <1>8, <1>9, <1>10 DEF Next, LoopStep, Returned

\* While the session lasts nothing is closed but the client being served and
\* clients whose send failed; and serving a client ends the session only when
\* another client's connection is broken, by SIGPIPE.
THEOREM ClientsFallAlone == Spec => ClientFaultsContained
<1>1. IndInv /\ InputInv /\ [Next]_vars
         => [/\ Running' => \A f \in Fds : file'[f] = "none" =>
                   \/ file[f] = "none"
                   \/ Serving /\ f = clients[next]
                   \/ file[f] \in Callers /\ SendFails(conn[file[f]])
             /\ Serving /\ ~Running' =>
                   /\ pc' = "killed"
                   /\ \E c \in Admitted \ {Client(next)} : SendKills(conn[c])]_vars
  BY StepContained DEF Contained, ClosesFew, LeavesRightly
<1>2. QED
  BY <1>1, BothInductive, PTL DEF Spec, ClientFaultsContained

-----------------------------------------------------------------------------
(* The hub *)

\* The refinement mapping of TapLoop!Hub.
Up == pc \in Stages
Attached == IF Running THEN Admitted ELSE {}

-----------------------------------------------------------------------------
(* The slots and the ports *)

\* While a slot is free there are fewer ports than slots.
LEMMA RoomLeft ==
    ASSUME IndInv, Slots \ Active # {}
    PROVE  Cardinality(Admitted) < MaxClients
<1> DEFINE f == [i \in Active |-> Client(i)]
<1>1. IsFiniteSet(Slots) /\ Cardinality(Slots) = MaxClients
  <2>1. MaxClients - 1 \in Int /\ 0 \in Int
    OBVIOUS
  <2>2. /\ IsFiniteSet(Slots)
        /\ Cardinality(Slots) = IF 0 > MaxClients - 1 THEN 0 ELSE (MaxClients - 1) - 0 + 1
    BY <2>1, FS_Interval DEF Slots
  <2>3. QED
    BY <2>2
<1>2. Active \in SUBSET Slots /\ Active # Slots
  BY DEF Active
<1>3. /\ IsFiniteSet(Active) /\ Cardinality(Active) <= Cardinality(Slots)
      /\ Cardinality(Active) # Cardinality(Slots)
  BY <1>1, <1>2, FS_Subset
<1>4. f \in Surjection(Active, Admitted)
  BY DEF Surjection, Admitted
<1>5. IsFiniteSet(Admitted) /\ Cardinality(Admitted) <= Cardinality(Active)
  BY <1>3, <1>4, FS_Surjection
<1>6. Cardinality(Admitted) \in Nat /\ Cardinality(Active) \in Nat
  BY <1>3, <1>5, FS_CardinalityType
<1>7. QED
  BY <1>1, <1>3, <1>5, <1>6

\* TapHub counts as this module does.
LEMMA SameCardinality == ASSUME NEW S PROVE Hub!Cardinality(S) = Cardinality(S)
BY DEF Hub!Cardinality, Cardinality

\* Closing slots takes their clients from the ports and leaves the others.
LEMMA PortsClosed ==
    ASSUME IndInv, InputInv, Running, NEW gone \in SUBSET Active,
           clients' = [i \in Slots |-> IF i \in gone THEN NoFd ELSE clients[i]],
           file' = Close({clients[i] : i \in gone})
    PROVE  /\ Admitted' = Admitted \ {Client(i) : i \in gone}
           /\ Admitted' = {Client(i) : i \in Active \ gone}
<1>1. Active' = Active \ gone /\ \A i \in Active' : clients'[i] = clients[i]
  BY DEF Active
<1>2. \A i \in Active' : Client(i)' = Client(i)
  <2> SUFFICES ASSUME NEW i \in Active' PROVE Client(i)' = Client(i)
    OBVIOUS
  <2>1. clients[i] \in Fds /\ clients[i] \notin {clients[j] : j \in gone}
    BY <1>1 DEF IndInv, NamesAreRight
  <2>2. QED
    BY <1>1, <2>1 DEF Close, Client
<1>3. Admitted' = {Client(i) : i \in Active \ gone}
  BY <1>1, <1>2 DEF Admitted
<1>4. \A i \in Active \ gone, j \in gone : Client(i) # Client(j)
  BY ClientsDiffer
<1>5. QED
  BY <1>3, <1>4 DEF Admitted

-----------------------------------------------------------------------------
(* Kinds of step *)

\* A step after which nothing runs stops the hub.
LEMMA FinishStops ==
    ASSUME NEW how \in Done, NEW fds, Finish(how, fds)
    PROVE  Hub!Next
<1>1. ~(pc' \in Stages) /\ ~Running' /\ relay' = Quiet
  BY DEF Finish, Done, Stages, Running
<1>2. QED
  BY <1>1 DEF Hub!Next, Hub!Stop, Hub!Quiet, Quiet

\* Every way out of the loop stops the hub.
LEMMA EndsStop ==
    ASSUME NEW fds, NEW to, Return(fds) \/ Killed \/ SendLost(fds) \/ FanOutKilled(to)
    PROVE  Hub!Next
BY FinishStops DEF Return, Killed, SendLost, FanOutKilled, Done

\* A step inside the loop that leaves the slots alone and relays nothing.
LEMMA Silently ==
    ASSUME Up, Up', Admitted' = Admitted, relay' = Quiet
    PROVE  Hub!Next
<1>1. Running /\ Running'
  BY DEF Up, Stages, Running, Done
<1>2. QED
  BY <1>1 DEF Hub!Next, Hub!Silent, Hub!Quiet, Quiet, Up

\* A frame that came in at the port "from" goes where the hub sends it, and the
\* clients whose send failed are the ports the hub loses.
LEMMA FanOutRelays ==
    ASSUME IndInv, InputInv, Up, Up', NEW from, NEW to \in SUBSET Active, NEW others, NEW table,
           FanOut(from, to, others, table),
           \/ from = "lan" /\ to = Active /\ others = {"ctl"}
           \/ from = "ctl" /\ to = Active /\ others = {"lan"}
           \/ \E me \in Active : from = Client(me) /\ to = Active \ {me} /\ others = {"lan"}
    PROVE  Hub!Next
<1> DEFINE broken == {i \in to : SendFails(conn[Client(i)])}
           lost == {Client(i) : i \in broken}
<1>1. /\ clients' = [i \in Slots |-> IF i \in broken THEN NoFd ELSE clients[i]]
      /\ file' = Close({clients[i] : i \in broken})
      /\ relay' = [from |-> from, to |-> others \cup {Client(i) : i \in to \ broken}]
  BY DEF FanOut
<1>2. broken \in SUBSET Active /\ broken \subseteq to
  OBVIOUS
<1>3. Running /\ Running'
  BY DEF Up, Stages, Running, Done
<1> HIDE DEF broken
<1>4. Admitted' = Admitted \ lost /\ Admitted' = {Client(i) : i \in Active \ broken}
  BY <1>1, <1>2, <1>3, PortsClosed
<1>5. lost \in SUBSET Admitted
  BY <1>2 DEF Admitted
<1>6. \A i \in Active : Client(i) \in Callers /\ Client(i) # "lan" /\ Client(i) # "ctl"
  BY <1>3 DEF IndInv, NamesAreRight
<1>7. from \in {"lan", "ctl"} \cup Admitted /\ from \notin lost
  <2>1. CASE from \in {"lan", "ctl"}
    BY <1>2, <1>6, <2>1
  <2>2. CASE \E me \in Active : from = Client(me) /\ to = Active \ {me}
    <3>1. PICK me \in Active : from = Client(me) /\ to = Active \ {me}
      BY <2>2
    <3>2. \A i \in broken : Client(i) # from
      BY <1>2, <1>3, <3>1, ClientsDiffer
    <3>3. QED
      BY <3>1, <3>2 DEF Admitted
  <2>3. QED
    BY <2>1, <2>2
<1>8. relay'.to = Hub!Reach(from, Admitted \ lost)
  <2>1. CASE from \in {"lan", "ctl"}
    <3>1. to = Active
      BY <1>6, <2>1
    <3>2. {Client(i) : i \in to \ broken} = Admitted \ lost
      BY <1>4, <3>1
    <3>3. others = IF from = "lan" THEN {"ctl"} ELSE {"lan"}
      BY <1>6, <2>1
    <3>4. QED
      BY <1>1, <2>1, <3>2, <3>3 DEF Hub!Reach
  <2>2. CASE from \notin {"lan", "ctl"}
    <3>1. PICK me \in Active : from = Client(me) /\ to = Active \ {me} /\ others = {"lan"}
      BY <2>2
    <3>2. {Client(i) : i \in to \ broken} = {Client(i) : i \in Active \ broken} \ {from}
      <4>1. \A i \in Active : Client(i) = from => i = me
        BY <1>3, <3>1, ClientsDiffer
      <4>2. QED
        BY <3>1, <4>1
    <3>3. {Client(i) : i \in to \ broken} = (Admitted \ lost) \ {from}
      BY <1>4, <3>2
    <3>4. QED
      BY <1>1, <2>2, <3>1, <3>3 DEF Hub!Reach
  <2>3. QED
    BY <2>1, <2>2
<1>9. relay' = [from |-> from, to |-> Hub!Reach(from, Admitted \ lost)]
  BY <1>1, <1>8
<1> HIDE DEF lost
<1>10. Hub!Relay
  BY <1>3, <1>4, <1>5, <1>7, <1>9 DEF Hub!Relay, Up
<1>11. QED
  BY <1>10 DEF Hub!Next

\* The hub sees nothing of the step.
Unseen == UNCHANGED <<Up, Attached, relay>>

\* What the hub does not see is a stutter of the hub.
LEMMA UnseenStutters == ASSUME Unseen PROVE [Hub!Next]_Hub!vars
BY DEF Unseen, Up, Attached, Hub!vars

-----------------------------------------------------------------------------
(* Steps *)

\* At first the hub is down and has no ports.
LEMMA InitHub == Init => Hub!Init
<1> SUFFICES ASSUME Init PROVE Hub!Init
  OBVIOUS
<1>1. Active = {} /\ pc = "open" /\ relay = Quiet
  BY DEF Init, Active
<1>2. Admitted = {}
  BY <1>1 DEF Admitted
<1>3. QED
  BY <1>1, <1>2 DEF Hub!Init, Hub!Quiet, Quiet, Stages

\* Before the loop the hub is down, unless the session ends.
LEMMA PreludeHub ==
    ASSUME IndInv, OpenTap \/ AttachBridge \/ StartListener
    PROVE  [Hub!Next]_Hub!vars
<1>1. pc \in {"open", "bridge", "listener"} /\ Active = {}
  BY DEF OpenTap, AttachBridge, StartListener, IndInv, StagesHold
<1>2. CASE Return({}) \/ Return({tapFd})
  BY <1>2, EndsStop
<1>3. CASE ~(Return({}) \/ Return({tapFd}))
  <2>1. pc' \in {"bridge", "listener", "hello"} /\ UNCHANGED <<clients, relay>>
    BY <1>3 DEF OpenTap, AttachBridge, StartListener
  <2>2. Active' = {} /\ ~Up /\ ~Up'
    BY <1>1, <2>1 DEF Active, Up, Stages
  <2>3. Attached = {} /\ Attached' = {}
    BY <1>1, <2>2 DEF Attached, Admitted
  <2>4. Unseen
    BY <2>1, <2>2, <2>3 DEF Unseen, Up
  <2>5. QED
    BY <2>4, UnseenStutters
<1>4. QED
  BY <1>2, <1>3

\* The first PING starts the hub; a later one it does not see.
LEMMA SendPingHub ==
    ASSUME IndInv, SendPing
    PROVE  [Hub!Next]_Hub!vars
<1>1. CASE Lost(conn["ctl"])
  BY <1>1, EndsStop DEF SendPing
<1>2. CASE ~Lost(conn["ctl"])
  <2>1. pc' = "select" /\ UNCHANGED <<clients, file, relay>> /\ pc \in {"hello", "ping"}
    BY <1>2 DEF SendPing
  <2>2. Admitted' = Admitted /\ Running /\ Running' /\ Up'
    BY <2>1 DEF Admitted, Active, Client, Running, Done, Up, Stages
  <2>3. CASE pc = "hello"
    <3>1. ~Up
      BY <2>3 DEF Up, Stages
    <3>2. Hub!Start
      BY <2>1, <2>2, <3>1 DEF Hub!Start, Up
    <3>3. QED
      BY <3>2 DEF Hub!Next
  <2>4. CASE pc = "ping"
    <3>1. Up
      BY <2>4 DEF Up, Stages
    <3>2. Attached' = Attached
      BY <2>2 DEF Attached
    <3>3. Up' = Up
      BY <2>2, <3>1 DEF Up
    <3>4. QED
      BY <2>1, <3>2, <3>3, UnseenStutters DEF Unseen
  <2>5. QED
    BY <2>1, <2>3, <2>4
<1>3. QED
  BY <1>1, <1>2

\* select() says nothing to the hub.
LEMMA SelectHub ==
    ASSUME IndInv, Select
    PROVE  [Hub!Next]_Hub!vars
<1>1. CASE Return(Teardown)
  BY <1>1, EndsStop
<1>2. CASE ~Return(Teardown)
  <2>1. relay' = Quiet /\ UNCHANGED <<clients, file>> /\ pc = "select"
    BY <1>2 DEF Select
  <2>2. pc' \in Stages
    BY <1>2, ToTapLands DEF Select, Lands, Stages
  <2>3. Up /\ Up' /\ Admitted' = Admitted
    BY <2>1, <2>2 DEF Up, Stages, Admitted, Active, Client
  <2>4. QED
    BY <2>1, <2>3, Silently
<1>3. QED
  BY <1>1, <1>2

\* A frame of the LAN, or one too short or long.
LEMMA TapReadableHub ==
    ASSUME IndInv, InputInv, TapReadable
    PROVE  [Hub!Next]_Hub!vars
<1>1. Up
  BY DEF TapReadable, Up, Stages
<1>2. CASE Return(Teardown) \/ SendLost(Teardown) \/ FanOutKilled(Active)
  BY <1>2, EndsStop
<1>3. CASE /\ ToControl(clients, ready) /\ relay' = Quiet
           /\ UNCHANGED <<clients, file>>
  <2>1. Up' /\ Admitted' = Admitted
    BY <1>3, ToControlLands DEF Lands, Up, Admitted, Active, Client
  <2>2. QED
    BY <1>1, <1>3, <2>1, Silently
<1>4. CASE FanOut("lan", Active, {"ctl"}, conn) /\ ToControl(clients', ready)
  <2>1. Up'
    BY <1>4, ToControlLands DEF Lands, Up
  <2>2. QED
    BY <1>1, <1>4, <2>1, FanOutRelays
<1>5. QED
  BY <1>2, <1>3, <1>4 DEF TapReadable

\* A frame of NTAP-A, or a PONG.
LEMMA ControlReadableHub ==
    ASSUME IndInv, InputInv, ControlReadable
    PROVE  [Hub!Next]_Hub!vars
<1> DEFINE after == [conn EXCEPT !["ctl"] = Taken(conn["ctl"])]
<1>1. Up
  BY DEF ControlReadable, Up, Stages
<1>2. CASE Return(Teardown) \/ FanOutKilled(Active)
  BY <1>2, EndsStop
<1>3. CASE Continue /\ relay' = Quiet /\ UNCHANGED <<clients, file>>
  <2>1. Up' /\ Admitted' = Admitted
    BY <1>3 DEF Continue, Up, Stages, Admitted, Active, Client
  <2>2. QED
    BY <1>1, <1>3, <2>1, Silently
<1>4. CASE FanOut("ctl", Active, {"lan"}, after) /\ Continue
  <2>1. Up'
    BY <1>4 DEF Continue, Up, Stages
  <2>2. QED
    BY <1>1, <1>4, <2>1, FanOutRelays
<1>5. QED
  BY <1>2, <1>3, <1>4 DEF ControlReadable

\* A caller with a valid token becomes a port, any other leaves no trace.
LEMMA ListenerReadableHub ==
    ASSUME IndInv, InputInv, ListenerReadable
    PROVE  [Hub!Next]_Hub!vars
<1>1. Up /\ Running
  BY DEF ListenerReadable, Up, Stages, Running, Done
<1>2. CASE Return(Teardown)
  BY <1>2, EndsStop
<1>3. CASE ~Return(Teardown)
  <2> DEFINE c == Head(backlog)
  <2>1. /\ backlog # <<>>
        /\ Admit(c) \/ Reject(c)
        /\ Continue /\ relay' = Quiet
    BY <1>3 DEF ListenerReadable
  <2>2. Up' /\ Running'
    BY <2>1 DEF Continue, Up, Stages, Running, Done
  <2>3. CASE UNCHANGED <<clients, file>>
    <3>1. Admitted' = Admitted
      BY <2>3 DEF Admitted, Active, Client
    <3>2. QED
      BY <1>1, <2>1, <2>2, <3>1, Silently
  <2>4. CASE ~UNCHANGED <<clients, file>>
    <3>1. /\ c \in Valid /\ Slots \ Active # {}
          /\ \E f \in FreshFds, i \in First(Slots \ Active) :
                clients' = [clients EXCEPT ![i] = f] /\ file' = [file EXCEPT ![f] = c]
      BY <2>1, <2>4 DEF Admit, Reject
    <3>2. PICK f \in FreshFds, i \in First(Slots \ Active) :
            clients' = [clients EXCEPT ![i] = f] /\ file' = [file EXCEPT ![f] = c]
      BY <3>1
    <3>3. i \in Slots \ Active /\ f \in Fds /\ file[f] = "none" /\ f # NoFd
      BY DEF First, FreshFds
    <3>4. clients \in [Slots -> Fds \cup {NoFd}] /\ file \in [Fds -> Files \cup {"none"}]
      BY DEF IndInv, TypeOK
    <3>5. Active' = Active \cup {i} /\ \A j \in Active : clients'[j] = clients[j] /\ j # i
      BY <3>2, <3>3, <3>4 DEF Active
    <3>6. \A j \in Active : clients[j] \in Fds /\ clients[j] # f
      BY <1>1, <3>3 DEF IndInv, NamesAreRight, Client
    <3>7. \A j \in Active : Client(j)' = Client(j)
      BY <3>2, <3>4, <3>5, <3>6 DEF Client
    <3>8. Client(i)' = c
      BY <3>2, <3>3, <3>4 DEF Client
    <3>9. Admitted' = Admitted \cup {c}
      BY <3>5, <3>7, <3>8 DEF Admitted
    <3>10. c \notin Admitted
      <4>1. c = backlog[1] /\ 1 \in DOMAIN backlog
        BY <2>1, HeadAndTail DEF IndInv, TypeOK
      <4>2. \A g \in Fds : file[g] # c
        BY <4>1 DEF InputInv, EachOnce
      <4>3. QED
        BY <3>6, <4>2 DEF Admitted, Client
    <3>11. Cardinality(Admitted) < MaxClients
      BY <3>1, RoomLeft
    <3>12. Hub!Attach
      <4> DEFINE ports == IF Running THEN Admitted ELSE {}
      <4>1. ports = Admitted /\ ports' = Admitted'
        BY <1>1, <2>2
      <4>2. c \in Valid \ ports /\ ports' = ports \cup {c} /\ Cardinality(ports) < MaxClients
        BY <3>1, <3>9, <3>10, <3>11, <4>1
      <4>3. (pc \in Stages) /\ (pc' \in Stages) /\ relay' = Hub!Quiet
        BY <1>1, <2>1, <2>2 DEF Up, Hub!Quiet, Quiet
      <4>4. Hub!Cardinality(ports) < MaxClients
        BY <4>2, SameCardinality
      <4>5. QED
        BY <4>2, <4>3, <4>4 DEF Hub!Attach
    <3>13. QED
      BY <3>12 DEF Hub!Next
  <2>5. QED
    BY <2>3, <2>4
<1>4. QED
  BY <1>2, <1>3

\* A client's frame, or a client that is lost.
LEMMA ClientReadableHub ==
    ASSUME IndInv, InputInv, ClientReadable
    PROVE  [Hub!Next]_Hub!vars
<1> DEFINE me == Client(next)
           after == [conn EXCEPT ![me] = Taken(conn[me])]
           slots == [clients EXCEPT ![next] = NoFd]
<1>1. Up /\ Running /\ next \in Active
  BY DEF ClientReadable, Up, Stages, Running, Done, IndInv, StagesHold
<1>2. CASE /\ clients' = slots /\ file' = Close({clients[next]})
           /\ relay' = Quiet /\ ToClients(next + 1, slots, ready)
  <2>1. Up' /\ Running'
    BY <1>2, ToClientsLands DEF Lands, Up, Stages, Running, Done
  <2>2. clients' = [i \in Slots |-> IF i \in {next} THEN NoFd ELSE clients[i]]
    BY <1>2 DEF IndInv, TypeOK
  <2>3. file' = Close({clients[i] : i \in {next}})
    <3>1. {clients[i] : i \in {next}} = {clients[next]}
      OBVIOUS
    <3>2. QED
      BY <1>2, <3>1
  <2>4. Admitted' = Admitted \ {Client(i) : i \in {next}}
    BY <1>1, <2>2, <2>3, PortsClosed
  <2>5. Admitted' = Admitted \ {me} /\ me \in Admitted
    BY <1>1, <2>4 DEF Admitted
  <2>6. Hub!Detach
    BY <1>1, <1>2, <2>1, <2>5 DEF Hub!Detach, Hub!Quiet, Quiet, Up
  <2>7. QED
    BY <2>6 DEF Hub!Next
<1>3. CASE FanOutKilled(Active \ {next})
  BY <1>3, EndsStop
<1>4. CASE FanOut(me, Active \ {next}, {"lan"}, after) /\ ToClients(next + 1, clients', ready)
  <2>1. Up'
    BY <1>4, ToClientsLands DEF Lands, Up
  <2>2. QED
    BY <1>1, <1>4, <2>1, FanOutRelays
<1>5. QED
  BY <1>2, <1>3, <1>4 DEF ClientReadable

\* Every step of the loop is a step of the hub or none.
LEMMA StepHub == IndInv /\ InputInv /\ [Next]_vars => [Hub!Next]_Hub!vars
<1> SUFFICES ASSUME IndInv, InputInv, [Next]_vars PROVE [Hub!Next]_Hub!vars
  OBVIOUS
<1>1. CASE LoopStep
  BY <1>1, PreludeHub, SendPingHub, SelectHub, TapReadableHub, ControlReadableHub,
     ListenerReadableHub, ClientReadableHub DEF LoopStep
<1>2. CASE Environment \/ UNCHANGED vars
  <2>1. UNCHANGED <<pc, clients, file, relay>>
    BY <1>2 DEF Environment, PeerStep, Dial, LanFrame, program, vars
  <2>2. Unseen
    BY <2>1 DEF Unseen, Up, Attached, Admitted, Active, Client, Running
  <2>3. QED
    BY <2>2, UnseenStutters
<1>3. QED
  BY <1>1, <1>2 DEF Next, Returned

\* The TAP loop is an Ethernet hub: whatever is accepted, lost, reset, reused or
\* cut short, each frame goes from its port to exactly the ports TapHub says,
\* and only callers with a valid token are ports.
THEOREM LoopIsHub == Spec => RelaysAsHub
<1>1. Spec => Hub!Init /\ [][Hub!Next]_Hub!vars
  BY InitHub, StepHub, BothInductive, PTL DEF Spec
<1>2. QED
  BY <1>1 DEF RelaysAsHub, Hub!Spec

===============================================================================
