-------------------------- MODULE ControlLoop_proofs --------------------------
(***************************************************************************)
(* For any number of descriptors, stream slots and stream ids, any options *)
(* and any bounds: the state of the control loop is well typed, each       *)
(* descriptor is owned exactly once, no blocking call is made where        *)
(* nothing waits, a stream's misfortune costs that stream alone, and a     *)
(* link test ends exactly when its counts are reached.                     *)
(***************************************************************************)
EXTENDS ControlLoop, TLAPS

USE ControlLoopAssumption

-----------------------------------------------------------------------------
(* The invariant *)

SlotType == [id : Ids \cup {"none"}, fd : Fds \cup {NoFd}, cfin : BOOLEAN, tfin : BOOLEAN]
Ends == {"open", "fin", "cut"}

\* What NTAP-A says names a stream where it has to, and numbers its data from 1.
Proper == {m \in Messages : /\ m.type \in {"OPEN", "DATA", "FIN", "CLOSE"} => m.id \in Ids
                            /\ m.type = "DATA" => m.n \in 1 .. MaxUnits}

ProgramOK ==
    /\ pc \in Stages \cup {"start", "hello"} \cup Done
    /\ next \in 0 .. MaxStreams /\ opt \in Options /\ rc \in {0, 1}
    /\ lisFd \in Fds \cup {NoFd}
    /\ slots \in [Slots -> SlotType]
    /\ ready \subseteq Fds \X Files
CountsOK == pings \in Nat /\ sent \in Nat /\ got \in BOOLEAN
ConnOK ==
    /\ conn = [x \in Ids \cup {"ctl"} |-> conn[x]]
    /\ conn["ctl"] \in Connections(Proper)
    /\ \A i \in Ids : conn[i] \in Connections(Units)
PeersOK ==
    /\ call \in BOOLEAN /\ owed \in 0 .. MaxQueue
    /\ nodeEnd \in [Ids -> {"idle", "up", "fin", "cut"}]
    /\ nA \in [Ids -> 0 .. MaxUnits] /\ nT \in [Ids -> 0 .. MaxUnits]
GhostsOK ==
    /\ toTarget \in [Ids -> Seq(Units)] /\ toA \in [Ids -> Seq(Units)]
    /\ endT \in [Ids -> Ends] /\ endA \in [Ids -> Ends]

\* DescriptorsOwned, with what its steps need: a slot in use has an id, and
\* the listener is opened only once.
Owned ==
    /\ DescriptorsOwned
    /\ file \in [Fds -> Files \cup {"none"}]
    /\ \A i \in Active : slots[i].id \in Ids
    /\ pc = "start" => lisFd = NoFd

\* What select() found is still there when the pass gets to it, on the very
\* connection it looked at.
Fed ==
    /\ pc \notin {"ctl", "listen", "streams"} => ready = {}
    /\ pc = "ctl" => IsSet(CtlFd, ready)
    /\ pc = "listen" => IsSet(lisFd, ready)
    /\ pc = "streams" => next \in Active /\ IsSet(slots[next].fd, ready)
    /\ IsSet(CtlFd, ready) => Readable(ctl)
    /\ IsSet(lisFd, ready) => call
    /\ \A i \in Active : IsSet(slots[i].fd, ready) /\ (pc = "streams" => next <= i)
                             => /\ Readable(conn[Target(i)])
                                /\ <<slots[i].fd, Target(i)>> \in ready

Typed == ProgramOK /\ CountsOK /\ ConnOK /\ PeersOK /\ GhostsOK
IndInv == Typed /\ Owned /\ Fed

\* The parts make up the type invariant.
LEMMA PartsType == IndInv => TypeOK
<1> SUFFICES ASSUME IndInv PROVE TypeOK
  OBVIOUS
<1>1. conn["ctl"] \in Connections(Messages)
  <2>1. conn["ctl"] \in Connections(Proper) /\ Proper \subseteq Messages
    BY DEF IndInv, Typed, ConnOK, Proper
  <2>2. conn["ctl"].in \in Seq(Proper)
    BY <2>1 DEF Connections
  <2>3. conn["ctl"].in \in Seq(Messages)
    BY <2>1, <2>2
  <2>4. QED
    BY <2>1, <2>3 DEF Connections
<1>2. \A i \in Ids : conn[i] \in Connections(Units)
  BY DEF IndInv, Typed, ConnOK
<1>3. slots \in [Slots -> [id : Ids \cup {"none"}, fd : Fds \cup {NoFd},
                           cfin : BOOLEAN, tfin : BOOLEAN]]
  BY DEF IndInv, Typed, ProgramOK, SlotType
<1>4. QED
  BY <1>1, <1>2, <1>3 DEF IndInv, Typed, ProgramOK, CountsOK, PeersOK, GhostsOK, Owned,
    Ends, TypeOK

-----------------------------------------------------------------------------
(* Types of what the handlers compute *)

\* Ending streams keeps the table of their ends.
LEMMA CutTyped ==
    ASSUME NEW end \in [Ids -> Ends], NEW ids
    PROVE  Cut(end, ids) \in [Ids -> Ends]
BY DEF Cut, Ends

\* Taking a message from a connection leaves a connection.
LEMMA TakenTyped ==
    ASSUME NEW K, NEW c \in Connections(K), c.in # <<>>
    PROVE  Taken(c) \in Connections(K) /\ Head(c.in) \in K
<1>1. c.in \in Seq(K)
  BY DEF Connections
<1>2. Tail(c.in) \in Seq(K) /\ Head(c.in) \in K
  BY <1>1
<1>3. QED
  BY <1>2 DEF Taken, Connections

\* So does a call that fails on it; what is readable stays so.
LEMMA ReportedTyped ==
    ASSUME NEW K, NEW c \in Connections(K)
    PROVE  /\ Reported(c) \in Connections(K) /\ Reported(c).in = c.in
           /\ (Reported(c).life = "up" <=> c.life = "up")
           /\ (Readable(c) => Readable(Reported(c)))
BY DEF Reported, Readable, Connections

\* A message a peer adds, and all else a peer may do, leaves a connection.
LEMMA ArrivalTyped ==
    ASSUME NEW K, NEW c \in Connections(K), NEW m \in K, NEW max,
           NEW d \in Arrivals(c, {m}, max)
    PROVE  d \in Connections(K) /\ (Readable(c) => Readable(d))
<1>1. d = [c EXCEPT !.in = Append(@, m), !.part = FALSE]
  BY DEF Arrivals
<1>2. c.in \in Seq(K)
  BY DEF Connections
<1>3. Append(c.in, m) \in Seq(K) /\ Len(Append(c.in, m)) # 0
  BY <1>2
<1>4. d.in = Append(c.in, m)
  BY <1>1 DEF Connections
<1>5. Readable(d)
  BY <1>3, <1>4 DEF Readable
<1>6. d \in Connections(K)
  BY <1>1, <1>3 DEF Connections
<1>7. QED
  BY <1>5, <1>6

\* The same for the turns a peer may take without a message.
LEMMA TurnTyped ==
    ASSUME NEW K, NEW c \in Connections(K), NEW max,
           NEW d \in Fragments(c, max) \cup Endings(c) \cup Resets(c) \cup Stalls(c)
                       \cup Resumes(c)
    PROVE  d \in Connections(K) /\ (Readable(c) => Readable(d))
<1>1. CASE d \in Fragments(c, max)
  BY <1>1 DEF Fragments, Readable, Connections
<1>2. CASE d \in Endings(c)
  BY <1>2 DEF Endings, Readable, Connections
<1>3. CASE d \in Resets(c)
  <2>1. PICK l \in {"reset", "broken"} :
           d = [c EXCEPT !.life = l, !.part = FALSE, !.stall = FALSE]
    BY <1>3 DEF Resets, Connections
  <2>2. QED
    BY <2>1 DEF Readable, Connections
<1>4. CASE d \in Stalls(c) \cup Resumes(c)
  BY <1>4 DEF Stalls, Resumes, Readable, Connections
<1>5. QED
  BY <1>1, <1>2, <1>3, <1>4

\* The number of frames a PONG calls for, and the PONGs counted, are numbers.
LEMMA CountsTyped ==
    ASSUME CountsOK, opt \in Options
    PROVE  FramesDue \in Nat /\ Counted \in Nat
BY DEF CountsOK, FramesDue, Counted

-----------------------------------------------------------------------------
(* Leaving the loop *)

\* Every way out: when all that is open is closed, the invariant holds of the
\* state that is left.
LEMMA FinishKeepsInv ==
    ASSUME IndInv, NEW how \in Done, NEW code \in {0, 1}, NEW fds,
           \A f \in Fds : file[f] # "none" => f \in fds,
           Finish(how, code, fds), CountsOK'
    PROVE  IndInv'
<1>1. pc' \in Done /\ file' = [f \in Fds |-> "none"] /\ ready' = {}
  BY DEF IndInv, Owned, Finish, Close
<1>2. slots' \in [Slots -> SlotType] /\ Active' = {}
  BY DEF Finish, Active, Idle, SlotType
<1>3. ProgramOK'
  BY <1>1, <1>2 DEF Finish, IndInv, Typed, ProgramOK
<1>4. ConnOK' /\ PeersOK'
  BY DEF Finish, peers, IndInv, Typed, ConnOK, PeersOK
<1>5. GhostsOK'
  BY CutTyped DEF Finish, IndInv, Typed, GhostsOK
<1>6. Owned'
  BY <1>1, <1>2 DEF Owned, DescriptorsOwned, Running, Done
<1>7. Fed'
  BY <1>1, <1>2 DEF Fed, Done, IsSet
<1>8. QED
  BY <1>3, <1>4, <1>5, <1>6, <1>7 DEF IndInv, Typed

\* What "goto done" closes, and run_session after it, is all that is open.
LEMMA LeaveKeepsInv ==
    ASSUME IndInv, NEW code \in {0, 1}, Leave(code), CountsOK'
    PROVE  IndInv'
BY FinishKeepsInv DEF Leave, Teardown, IndInv, Owned, DescriptorsOwned, Done

\* The same for a return in mid-pass, and for SIGPIPE.
LEMMA EndsKeepInv ==
    ASSUME IndInv, NEW code \in {0, 1}, Return(code) \/ Killed
    PROVE  IndInv'
<1>1. CASE \E c \in {0, 1} : Return(c)
  BY <1>1, LeaveKeepsInv DEF Return, IndInv, Typed, CountsOK
<1>2. CASE Killed
  BY <1>2, FinishKeepsInv DEF Killed, IndInv, Typed, CountsOK, Done
<1>3. QED
  BY <1>1, <1>2

-----------------------------------------------------------------------------
(* The order of the branches, and the tables *)

\* Where the rest of a pass over "fds" may lead: back to select(), or to a slot
\* from i on that is in use and set.
Lands(i, table, fds) ==
    \/ pc' = "select" /\ next' = 0 /\ ready' = {}
    \/ /\ pc' = "streams" /\ ready' = fds
       /\ next' \in Slots /\ i <= next'
       /\ table[next'].fd # NoFd /\ IsSet(table[next'].fd, fds)

\* The stream pass goes to the next slot in use that is set, or ends.
LEMMA ToStreamsLands ==
    ASSUME NEW i, NEW table, NEW fds, ToStreams(i, table, fds)
    PROVE  Lands(i, table, fds)
BY DEF ToStreams, Lands, Continue, First

\* From select() the pass goes to the first branch that is set.
LEMMA ToControlLands ==
    ASSUME NEW table, NEW fds, ToControl(table, fds)
    PROVE  \/ pc' = "ctl" /\ next' = 0 /\ ready' = fds /\ IsSet(CtlFd, fds)
           \/ pc' = "listen" /\ next' = 0 /\ ready' = fds /\ IsSet(lisFd, fds)
           \/ Lands(0, table, fds)
BY ToStreamsLands DEF ToControl, ToListener

\* Back at select() nothing is set.
LEMMA ContinueFed ==
    ASSUME pc' \in {"select", "hello", "ping"}, ready' = {}
    PROVE  Fed'
BY DEF Fed, IsSet

\* Two slots in use have different ids, descriptors and connections.
LEMMA SlotsDiffer ==
    ASSUME IndInv, Running
    PROVE  /\ \A i \in Active : /\ slots[i].id \in Ids /\ slots[i].fd \in Fds
                                /\ Target(i) = slots[i].id /\ i \in Slots
                                /\ slots[i].fd # CtlFd /\ slots[i].fd # lisFd
           /\ \A i, j \in Active : i # j => /\ slots[i].fd # slots[j].fd
                                            /\ Target(i) # Target(j)
<1>1. \A i \in Active : slots[i].id \in Ids /\ Target(i) = slots[i].id /\ i \in Slots
  BY DEF IndInv, Owned, DescriptorsOwned, Target, Active
<1>2. \A i \in Active : slots[i].fd \in Fds
  BY DEF IndInv, Typed, ProgramOK, SlotType, Active
<1>3. \A i \in Active : slots[i].fd # CtlFd /\ slots[i].fd # lisFd
  BY <1>1, <1>2 DEF IndInv, Owned, DescriptorsOwned, Target
<1>4. \A i, j \in Active : i # j => slots[i].fd # slots[j].fd /\ Target(i) # Target(j)
  BY <1>1 DEF IndInv, Owned, DescriptorsOwned, Target
<1>5. QED
  BY <1>1, <1>2, <1>3, <1>4

\* Giving up some slots and closing their descriptors disturbs no other slot.
LEMMA GivingUpKeepsOwned ==
    ASSUME IndInv, Running, Running', NEW gone \in SUBSET Active,
           DOMAIN slots' = Slots,
           \A i \in Slots : IF i \in gone THEN slots'[i] = Idle
                            ELSE slots'[i].fd = slots[i].fd /\ slots'[i].id = slots[i].id,
           file' = Close({slots[i].fd : i \in gone}),
           lisFd' = lisFd, pc # "start", pc' # "start"
    PROVE  Owned' /\ Active' = Active \ gone /\ \A i \in Active' : Target(i)' = Target(i)
<1>1. Active' = Active \ gone
  BY DEF Active, Idle
<1>2. \A i \in Active' : /\ slots'[i].fd = slots[i].fd /\ slots'[i].id = slots[i].id
                         /\ i \in Active /\ i \in Slots /\ i \notin gone
  BY <1>1 DEF Active
<1>3. file' = [f \in Fds |-> IF f \in {slots[i].fd : i \in gone} THEN "none" ELSE file[f]]
  BY DEF Close
<1>4. \A i \in Active' : slots[i].fd \in Fds /\ slots[i].fd \notin {slots[j].fd : j \in gone}
  BY <1>2, SlotsDiffer
<1>5. \A i \in Active' : Target(i)' = Target(i)
  BY <1>2, <1>3, <1>4 DEF Target
<1>6. file' \in [Fds -> Files \cup {"none"}]
  BY <1>3 DEF IndInv, Owned
<1>7. CtlFd \notin {slots[j].fd : j \in gone} /\ lisFd \notin {slots[j].fd : j \in gone}
  BY SlotsDiffer
<1>8. file'[CtlFd] = "ctl" /\ (lisFd' # NoFd => file'[lisFd'] = "lis")
  BY <1>3, <1>7 DEF IndInv, Owned, DescriptorsOwned, Typed, ProgramOK
<1>9. \A i \in Active' : file'[slots'[i].fd] = slots'[i].id /\ slots'[i].id \in Ids
  BY <1>2, <1>3, <1>4, SlotsDiffer DEF Target
<1>10. \A i, j \in Active' : slots'[i].id = slots'[j].id => i = j
  BY <1>2 DEF IndInv, Owned, DescriptorsOwned
<1>11. \A f \in Fds : file'[f] # "none" => f \in {CtlFd, lisFd'} \cup StreamFds'
  <2> SUFFICES ASSUME NEW f \in Fds, file'[f] # "none", f # CtlFd, f # lisFd
               PROVE  f \in StreamFds'
    OBVIOUS
  <2>1. file[f] # "none" /\ f \notin {slots[j].fd : j \in gone}
    BY <1>3
  <2>2. f \in StreamFds
    BY <2>1 DEF IndInv, Owned, DescriptorsOwned
  <2>3. PICK i \in Active : f = slots[i].fd
    BY <2>2 DEF StreamFds
  <2>4. i \in Active'
    BY <1>1, <2>1, <2>3
  <2>5. QED
    BY <1>2, <2>3, <2>4 DEF StreamFds
<1>12. QED
  BY <1>1, <1>5, <1>6, <1>8, <1>9, <1>10, <1>11 DEF Owned, DescriptorsOwned

\* The same when nothing is given up: who owns what is left as it is.
LEMMA SameOwned ==
    ASSUME Owned, Running, Running', UNCHANGED <<lisFd, slots, file>>, pc' # "start"
    PROVE  Owned' /\ Active' = Active /\ \A i \in Active : Target(i)' = Target(i)
BY DEF Owned, DescriptorsOwned, Active, StreamFds, Target

\* What the rest of a pass may lead to is well typed.
LEMMA LandsTyped ==
    ASSUME ProgramOK, NEW i, NEW table, NEW fds, fds \subseteq Fds \X Files,
           Lands(i, table, fds), UNCHANGED <<opt, rc, lisFd>>, slots' \in [Slots -> SlotType]
    PROVE  ProgramOK'
BY DEF Lands, ProgramOK, Stages, Slots

-----------------------------------------------------------------------------
(* The steps of the loop before and at select() *)

\* The invariant holds when the loop is entered.
LEMMA InitInv == Init => IndInv
<1> SUFFICES ASSUME Init PROVE IndInv
  OBVIOUS
<1>1. Active = {}
  BY DEF Init, Active, Idle
<1>2. ProgramOK
  BY DEF Init, ProgramOK, SlotType, Idle
<1>3. CountsOK /\ PeersOK
  <2>1. CountsOK
    BY DEF Init, CountsOK
  <2>2. call \in BOOLEAN
    BY DEF Init
  <2>3. nA \in [Ids -> 0 .. MaxUnits] /\ nT \in [Ids -> 0 .. MaxUnits] /\ owed \in 0 .. MaxQueue
    BY DEF Init
  <2>4. nodeEnd \in [Ids -> {"idle", "up", "fin", "cut"}]
    BY DEF Init
  <2>5. QED
    BY <2>1, <2>2, <2>3, <2>4 DEF PeersOK
<1>8. GhostsOK
  <2>1. <<>> \in Seq(Units)
    OBVIOUS
  <2>2. QED
    BY <2>1 DEF Init, GhostsOK, Ends
<1>4. ConnOK
  <2>1. Fresh \in Connections(Proper) /\ Fresh \in Connections(Units)
    BY DEF Fresh, Connections
  <2>2. QED
    BY <2>1 DEF Init, ConnOK
<1>5. Owned
  BY <1>1 DEF Init, Owned, DescriptorsOwned, Running, Done, Files
<1>6. Fed
  BY <1>1 DEF Init, Fed, IsSet
<1>7. QED
  BY <1>2, <1>3, <1>4, <1>5, <1>6, <1>8 DEF IndInv, Typed

\* The listener gets a descriptor nobody has, or the session is over.
LEMMA StartInv == IndInv /\ Start => IndInv'
<1> SUFFICES ASSUME IndInv, Start PROVE IndInv'
  OBVIOUS
<1>1. CASE Return(1)
  BY <1>1, EndsKeepInv
<1>2. CASE ~Return(1)
  <2>1. /\ pc = "start" /\ pc' = "hello" /\ lisFd = NoFd
        /\ \/ UNCHANGED <<lisFd, file>>
           \/ \E f \in FreshFds : lisFd' = f /\ file' = [file EXCEPT ![f] = "lis"]
        /\ UNCHANGED <<next, opt, rc, slots, ready, pings, sent, got, conn, peers, ghosts>>
    BY <1>2 DEF Start, IndInv, Owned
  <2>2. Running /\ Running' /\ ready' = {}
    BY <2>1 DEF Running, Done, IndInv, Fed
  <2>3. Fed'
    BY <2>1, <2>2, ContinueFed
  <2>4. CountsOK' /\ ConnOK' /\ PeersOK' /\ GhostsOK'
    BY <2>1 DEF IndInv, Typed, CountsOK, ConnOK, PeersOK, GhostsOK, peers, ghosts
  <2>5. lisFd' \in Fds \cup {NoFd}
    BY <2>1 DEF FreshFds, First, IndInv, Typed, ProgramOK
  <2>6. ProgramOK'
    BY <2>1, <2>5 DEF IndInv, Typed, ProgramOK
  <2>7. CASE UNCHANGED <<lisFd, file>>
    <3>1. Owned'
      BY <2>1, <2>2, <2>7, SameOwned DEF IndInv
    <3>2. QED
      BY <2>3, <2>4, <2>6, <3>1 DEF IndInv, Typed
  <2>8. CASE \E f \in FreshFds : lisFd' = f /\ file' = [file EXCEPT ![f] = "lis"]
    <3>1. PICK f \in FreshFds : lisFd' = f /\ file' = [file EXCEPT ![f] = "lis"]
      BY <2>8
    <3>2. f \in Fds /\ file[f] = "none" /\ f # NoFd
      BY DEF FreshFds, First
    <3>3. file \in [Fds -> Files \cup {"none"}]
      BY DEF IndInv, Owned
    <3>4. \A g \in Fds : file'[g] = IF g = f THEN "lis" ELSE file[g]
      BY <3>1, <3>2, <3>3
    <3>5. file' \in [Fds -> Files \cup {"none"}]
      BY <3>1, <3>2, <3>3 DEF Files
    <3>6. Active' = Active /\ StreamFds' = StreamFds /\ f # CtlFd
      BY <2>1, <2>2, <3>2 DEF Active, StreamFds, IndInv, Owned, DescriptorsOwned
    <3>7. \A i \in Active : slots[i].fd \in Fds /\ slots[i].fd # f
      BY <2>2, <3>2, SlotsDiffer DEF Target
    <3>8. DescriptorsOwned'
      BY <2>1, <2>2, <3>1, <3>2, <3>4, <3>6, <3>7 DEF IndInv, Owned, DescriptorsOwned
    <3>9. Owned'
      BY <2>1, <3>5, <3>6, <3>8 DEF IndInv, Owned
    <3>10. QED
      BY <2>3, <2>4, <2>6, <3>9 DEF IndInv, Typed
  <2>9. QED
    BY <2>1, <2>7, <2>8
<1>3. QED
  BY <1>1, <1>2

\* A PING leaves everything but the count of what is owed as it was.
LEMMA SendPingInv == IndInv /\ SendPing => IndInv'
<1> SUFFICES ASSUME IndInv, SendPing PROVE IndInv'
  OBVIOUS
<1>1. CASE Return(1) \/ Killed
  BY <1>1, EndsKeepInv
<1>2. CASE ~(Return(1) \/ Killed)
  <2>1. /\ pc \in {"hello", "ping"} /\ pc' = "select"
        /\ owed' = IF owed < MaxQueue THEN owed + 1 ELSE owed
        /\ UNCHANGED <<next, opt, rc, lisFd, slots, ready, pings, sent, got, file, conn,
                       call, nodeEnd, nA, nT, ghosts>>
    BY <1>2 DEF SendPing, SendLost
  <2>2. Running /\ Running' /\ ready' = {}
    BY <2>1 DEF Running, Done, IndInv, Fed
  <2>3. Fed'
    BY <2>1, <2>2, ContinueFed
  <2>4. owed' \in 0 .. MaxQueue
    BY <2>1 DEF IndInv, Typed, PeersOK
  <2>5. CountsOK' /\ ConnOK' /\ PeersOK' /\ GhostsOK'
    BY <2>1, <2>4 DEF IndInv, Typed, CountsOK, ConnOK, PeersOK, GhostsOK, ghosts
  <2>6. ProgramOK'
    BY <2>1 DEF IndInv, Typed, ProgramOK, Stages
  <2>7. Owned'
    BY <2>1, <2>2, SameOwned DEF IndInv
  <2>8. QED
    BY <2>3, <2>5, <2>6, <2>7 DEF IndInv, Typed
<1>3. QED
  BY <1>1, <1>2

\* What select() sets is open and has input.
LEMMA SelectedIsFed ==
    ASSUME IndInv, Running
    PROVE  /\ Selected \subseteq Fds \X Files
           /\ IsSet(CtlFd, Selected) => Readable(ctl)
           /\ IsSet(lisFd, Selected) => call
           /\ \A i \in Active : IsSet(slots[i].fd, Selected)
                 => Readable(conn[Target(i)]) /\ <<slots[i].fd, Target(i)>> \in Selected
<1>1. \A r \in Selected : /\ r = <<r[1], file[r[1]]>> /\ r[1] \in Watched
                          /\ FileReadable(file[r[1]])
  BY DEF Selected
<1>2. \A f \in Watched : f \in Fds /\ file[f] \in Files
  <2>1. file[CtlFd] = "ctl" /\ (lisFd # NoFd => lisFd \in Fds /\ file[lisFd] = "lis")
    BY DEF IndInv, Owned, DescriptorsOwned, Typed, ProgramOK
  <2>2. \A i \in Active : slots[i].fd \in Fds /\ file[slots[i].fd] \in Ids
    BY SlotsDiffer DEF Target
  <2>3. QED
    BY <2>1, <2>2 DEF Watched, Files
<1>3. Selected \subseteq Fds \X Files
  BY <1>1, <1>2 DEF Selected
<1>4. \A f \in Fds : IsSet(f, Selected) => FileReadable(file[f]) /\ <<f, file[f]>> \in Selected
  BY <1>1 DEF IsSet
<1>5. IsSet(CtlFd, Selected) => Readable(ctl)
  BY <1>4 DEF IndInv, Owned, DescriptorsOwned, FileReadable, ctl
<1>6. IsSet(lisFd, Selected) => call
  <2>1. IsSet(lisFd, Selected) => lisFd \in Fds /\ lisFd # NoFd
    BY <1>1, <1>2 DEF IsSet
  <2>2. QED
    BY <1>4, <2>1 DEF IndInv, Owned, DescriptorsOwned, FileReadable
<1>7. \A i \in Active : IsSet(slots[i].fd, Selected)
         => Readable(conn[Target(i)]) /\ <<slots[i].fd, Target(i)>> \in Selected
  BY <1>4, SlotsDiffer DEF FileReadable, Target
<1>8. QED
  BY <1>3, <1>5, <1>6, <1>7

\* select() starts a pass over what it set.
LEMMA SelectInv == IndInv /\ Select => IndInv'
<1> SUFFICES ASSUME IndInv, Select PROVE IndInv'
  OBVIOUS
<1>1. CASE Return(1)
  BY <1>1, EndsKeepInv
<1>2. CASE ~Return(1)
  <2>1. /\ pc = "select"
        /\ IF Selected = {} THEN pc' = "ping" /\ next' = 0 /\ ready' = {}
                            ELSE ToControl(slots, Selected)
        /\ UNCHANGED <<opt, rc, lisFd, slots, pings, sent, got, file, conn, peers, ghosts>>
    BY <1>2 DEF Select
  <2>2. Running
    BY <2>1 DEF Running, Done
  <2>3. CountsOK' /\ ConnOK' /\ PeersOK' /\ GhostsOK'
    BY <2>1 DEF IndInv, Typed, CountsOK, ConnOK, PeersOK, GhostsOK, peers, ghosts
  <2>4. slots' \in [Slots -> SlotType]
    BY <2>1 DEF IndInv, Typed, ProgramOK
  <2>5. ASSUME pc' \in Stages, pc' # "start" PROVE Owned'
    BY <2>1, <2>2, <2>5, SameOwned DEF IndInv, Running, Done, Stages
  <2>6. CASE pc' = "ping" /\ next' = 0 /\ ready' = {}
    <3>1. ProgramOK'
      BY <2>1, <2>6 DEF IndInv, Typed, ProgramOK, Stages
    <3>2. QED
      BY <2>3, <2>5, <2>6, <3>1, ContinueFed DEF IndInv, Typed, Stages
  <2>7. CASE ToControl(slots, Selected)
    <3>1. Selected \subseteq Fds \X Files
      BY <2>2, SelectedIsFed
    <3>7. /\ IsSet(CtlFd, Selected) => Readable(ctl)
          /\ IsSet(lisFd, Selected) => call
          /\ \A i \in Active : IsSet(slots[i].fd, Selected)
                => Readable(conn[Target(i)]) /\ <<slots[i].fd, Target(i)>> \in Selected
      BY <2>2, SelectedIsFed
    <3>2. \A i \in Active : i \in Active' /\ Target(i)' = Target(i) /\ slots'[i] = slots[i]
      BY <2>1 DEF Active, Target
    <3>3. Active' = Active
      BY <2>1 DEF Active
    <3>4. CASE pc' \in {"ctl", "listen"} /\ next' = 0 /\ ready' = Selected
               /\ (pc' = "ctl" => IsSet(CtlFd, Selected))
               /\ (pc' = "listen" => IsSet(lisFd, Selected))
      <4>1. ProgramOK'
        BY <2>1, <3>1, <3>4 DEF IndInv, Typed, ProgramOK, Stages
      <4>2. Fed'
        BY <2>1, <3>2, <3>3, <3>4, <3>7 DEF Fed, IsSet, peers, ctl
      <4>3. QED
        BY <2>3, <2>5, <3>4, <4>1, <4>2 DEF IndInv, Typed, Stages
    <3>5. CASE Lands(0, slots, Selected)
      <4>1. ProgramOK'
        BY <2>1, <2>4, <3>1, <3>5, LandsTyped DEF IndInv, Typed
      <4>2. Fed'
        <5>1. CASE pc' = "select" /\ ready' = {}
          BY <5>1, ContinueFed
        <5>2. CASE pc' = "streams" /\ ready' = Selected /\ next' \in Slots
                   /\ slots[next'].fd # NoFd /\ IsSet(slots[next'].fd, Selected)
          BY <2>1, <3>2, <3>3, <3>7, <5>2 DEF Fed, IsSet, peers, ctl, Active
        <5>3. QED
          BY <3>5, <5>1, <5>2 DEF Lands
      <4>3. pc' \in {"select", "streams"}
        BY <3>5 DEF Lands
      <4>4. QED
        BY <2>3, <2>5, <4>1, <4>2, <4>3 DEF IndInv, Typed, Stages
    <3>6. QED
      BY <2>7, <3>4, <3>5, ToControlLands
  <2>8. QED
    BY <2>1, <2>6, <2>7
<1>3. QED
  BY <1>1, <1>2

-----------------------------------------------------------------------------
(* Messages from NTAP-A *)

\* A message that was handled is gone, and the loop goes back to select().
LEMMA HandledKeepsInv ==
    ASSUME IndInv, Continue, UNCHANGED <<opt, rc, lisFd, peers>>,
           ctl.in # <<>>, NEW c \in {Taken(ctl), Reported(Taken(ctl))},
           conn' = [conn EXCEPT !["ctl"] = c],
           CountsOK', slots' \in [Slots -> SlotType], Owned', GhostsOK'
    PROVE  IndInv'
<1>1. ctl \in Connections(Proper) /\ c \in Connections(Proper)
  BY TakenTyped, ReportedTyped DEF ctl, IndInv, Typed, ConnOK
<1>2. conn = [x \in Ids \cup {"ctl"} |-> conn[x]]
  BY DEF IndInv, Typed, ConnOK
<1>3. conn' = [x \in Ids \cup {"ctl"} |-> IF x = "ctl" THEN c ELSE conn[x]]
  BY <1>2
<1>4. ConnOK'
  BY <1>1, <1>3 DEF ConnOK, IndInv, Typed
<1>5. ProgramOK'
  BY DEF Continue, IndInv, Typed, ProgramOK, Stages
<1>6. PeersOK'
  BY DEF peers, IndInv, Typed, PeersOK
<1>7. Fed'
  BY ContinueFed DEF Continue
<1>8. QED
  BY <1>4, <1>5, <1>6, <1>7 DEF IndInv, Typed

\* OPEN: refused, or a new descriptor in a free slot.
LEMMA OpenStreamKeeps ==
    ASSUME IndInv, pc = "ctl", pc' = "select", lisFd' = lisFd,
           NEW id \in Ids, Find(id) = {}, OpenStream(id)
    PROVE  slots' \in [Slots -> SlotType] /\ Owned' /\ GhostsOK'
<1>1. Running /\ Running'
  BY DEF Running, Done
<1>2. CASE /\ endT' = Cut(endT, {id}) /\ endA' = Cut(endA, {id})
           /\ UNCHANGED <<slots, file, toTarget, toA>>
  <2>1. Owned'
    BY <1>1, <1>2, SameOwned DEF IndInv
  <2>2. GhostsOK'
    BY <1>2, CutTyped DEF IndInv, Typed, GhostsOK
  <2>3. QED
    BY <1>2, <2>1, <2>2 DEF IndInv, Typed, ProgramOK
<1>3. CASE /\ \E f \in FreshFds, i \in First(Slots \ Active) :
                /\ slots' = [slots EXCEPT ![i] = [Idle EXCEPT !.id = id, !.fd = f]]
                /\ file' = [file EXCEPT ![f] = id]
           /\ UNCHANGED ghosts
  <2>1. PICK f \in FreshFds, i \in First(Slots \ Active) :
                /\ slots' = [slots EXCEPT ![i] = [Idle EXCEPT !.id = id, !.fd = f]]
                /\ file' = [file EXCEPT ![f] = id]
    BY <1>3
  <2>2. f \in Fds /\ file[f] = "none" /\ f # NoFd /\ i \in Slots /\ i \notin Active
    BY DEF FreshFds, First
  <2>3. slots \in [Slots -> SlotType] /\ file \in [Fds -> Files \cup {"none"}]
    BY DEF IndInv, Owned, Typed, ProgramOK
  <2> DEFINE new == [Idle EXCEPT !.id = id, !.fd = f]
  <2>4. /\ slots' = [slots EXCEPT ![i] = new]
        /\ new \in SlotType /\ new.fd = f /\ new.id = id
    <3>1. Idle \in SlotType
      BY DEF Idle, SlotType
    <3>2. new \in SlotType /\ new.fd = f /\ new.id = id
      BY <2>2, <3>1 DEF SlotType
    <3>3. QED
      BY <2>1, <3>2
  <2> HIDE DEF new
  <2>5. \A j \in Slots : slots'[j] = IF j = i THEN new ELSE slots[j]
    BY <2>3, <2>4
  <2>6. slots' \in [Slots -> SlotType]
    BY <2>3, <2>4
  <2>7. \A g \in Fds : file'[g] = IF g = f THEN id ELSE file[g]
    BY <2>1, <2>2, <2>3
  <2>8. file' \in [Fds -> Files \cup {"none"}]
    BY <2>1, <2>2, <2>3 DEF Files
  <2>9. Active' = Active \cup {i}
    BY <2>2, <2>4, <2>5 DEF Active
  <2>10. f # CtlFd /\ f # lisFd
    BY <1>1, <2>2 DEF IndInv, Owned, DescriptorsOwned
  <2>11. \A j \in Active : /\ slots'[j] = slots[j] /\ slots[j].fd \in Fds /\ slots[j].fd # f
                           /\ slots[j].id # id /\ slots[j].id \in Ids /\ file[slots[j].fd] = slots[j].id
    BY <1>1, <2>2, <2>5, SlotsDiffer DEF Find, Target
  <2>12. slots'[i] = new
    BY <2>2, <2>5
  <2>13. \A j \in Active' : file'[slots'[j].fd] = slots'[j].id /\ slots'[j].id \in Ids
    <3>1. \A j \in Active : file'[slots'[j].fd] = slots'[j].id /\ slots'[j].id \in Ids
      BY <2>7, <2>11
    <3>2. file'[slots'[i].fd] = slots'[i].id /\ slots'[i].id \in Ids
      BY <2>2, <2>4, <2>7, <2>12
    <3>3. QED
      BY <2>9, <3>1, <3>2
  <2>14. \A j, k \in Active' : slots'[j].id = slots'[k].id => j = k
    BY <2>4, <2>9, <2>11, <2>12 DEF IndInv, Owned, DescriptorsOwned
  <2>15. file'[CtlFd] = "ctl" /\ (lisFd' # NoFd => file'[lisFd'] = "lis")
    BY <1>1, <2>7, <2>10 DEF IndInv, Owned, DescriptorsOwned, Typed, ProgramOK
  <2>16. \A g \in Fds : file'[g] # "none" => g \in {CtlFd, lisFd'} \cup StreamFds'
    <3> SUFFICES ASSUME NEW g \in Fds, file'[g] # "none", g # CtlFd, g # lisFd
                 PROVE  g \in StreamFds'
      OBVIOUS
    <3>1. CASE g = f
      BY <2>4, <2>9, <2>12, <3>1 DEF StreamFds
    <3>2. CASE g # f
      <4>1. g \in StreamFds
        BY <2>7, <3>2 DEF IndInv, Owned, DescriptorsOwned
      <4>2. PICK j \in Active : g = slots[j].fd
        BY <4>1 DEF StreamFds
      <4>3. QED
        BY <2>9, <2>11, <4>2 DEF StreamFds
    <3>3. QED
      BY <3>1, <3>2
  <2>17. Owned'
    BY <1>1, <2>8, <2>13, <2>14, <2>15, <2>16 DEF Owned, DescriptorsOwned
  <2>18. QED
    BY <1>3, <2>6, <2>17 DEF ghosts, IndInv, Typed, GhostsOK
<1>4. QED
  BY <1>2, <1>3 DEF OpenStream, Refuse

\* DATA: passed on to the one stream it names, or dropped.
LEMMA SendDataKeeps ==
    ASSUME IndInv, pc = "ctl", pc' = "select", lisFd' = lisFd,
           NEW m \in Proper, m.type = "DATA", SendData(m)
    PROVE  slots' \in [Slots -> SlotType] /\ Owned' /\ GhostsOK'
<1>1. Running /\ Running'
  BY DEF Running, Done
<1>2. /\ toTarget' = [x \in Ids |-> IF \E i \in Takers(m.id) : Target(i) = x
                                    THEN Append(toTarget[x], <<m.id, m.n>>) ELSE toTarget[x]]
      /\ UNCHANGED <<slots, file, endT, toA, endA>>
  BY DEF SendData
<1>3. <<m.id, m.n>> \in Units
  BY DEF Proper, Units
<1>4. \A x \in Ids : toTarget[x] \in Seq(Units)
  BY DEF IndInv, Typed, GhostsOK
<1>5. \A x \in Ids : Append(toTarget[x], <<m.id, m.n>>) \in Seq(Units)
  BY <1>3, <1>4
<1>6. toTarget' \in [Ids -> Seq(Units)]
  BY <1>2, <1>4, <1>5
<1>7. GhostsOK'
  BY <1>2, <1>6 DEF IndInv, Typed, GhostsOK
<1>8. Owned'
  BY <1>1, <1>2, SameOwned DEF IndInv
<1>9. QED
  BY <1>2, <1>7, <1>8 DEF IndInv, Typed, ProgramOK

\* FIN: the half-close is noted, and a slot whose target has finished given up.
LEMMA ClientFinKeeps ==
    ASSUME IndInv, pc = "ctl", pc' = "select", lisFd' = lisFd, NEW id \in Ids, ClientFin(id)
    PROVE  slots' \in [Slots -> SlotType] /\ Owned' /\ GhostsOK'
<1> DEFINE over == {i \in Find(id) : slots[i].tfin}
<1>1. Running /\ Running'
  BY DEF Running, Done
<1>2. /\ slots' = [i \in Slots |-> IF i \in over THEN Idle
                                   ELSE IF i \in Find(id) THEN [slots[i] EXCEPT !.cfin = TRUE]
                                   ELSE slots[i]]
      /\ file' = Close({slots[i].fd : i \in over})
      /\ endT' = [x \in Ids |-> IF endT[x] = "open" /\ \E i \in Find(id) : Target(i) = x
                                THEN "fin" ELSE endT[x]]
      /\ UNCHANGED <<toTarget, toA, endA>>
  BY DEF ClientFin
<1>3. over \in SUBSET Active
  BY DEF Find
<1>4. slots \in [Slots -> SlotType] /\ Idle \in SlotType
  BY DEF IndInv, Typed, ProgramOK, Idle, SlotType
<1>5. \A i \in Slots : /\ [slots[i] EXCEPT !.cfin = TRUE] \in SlotType
                       /\ [slots[i] EXCEPT !.cfin = TRUE].fd = slots[i].fd
                       /\ [slots[i] EXCEPT !.cfin = TRUE].id = slots[i].id
  BY <1>4 DEF SlotType
<1> HIDE DEF over
<1>6. slots' \in [Slots -> SlotType]
  BY <1>2, <1>4, <1>5
<1>7. \A i \in Slots : IF i \in over THEN slots'[i] = Idle
                       ELSE slots'[i].fd = slots[i].fd /\ slots'[i].id = slots[i].id
  BY <1>2, <1>5
<1>8. DOMAIN slots' = Slots
  BY <1>2
<1>9. Owned'
  BY <1>1, <1>2, <1>3, <1>7, <1>8, GivingUpKeepsOwned
<1>10. GhostsOK'
  BY <1>2 DEF IndInv, Typed, GhostsOK, Ends
<1>11. QED
  BY <1>6, <1>9, <1>10

\* CLOSE: the slot is given up whatever it was doing.
LEMMA CloseStreamKeeps ==
    ASSUME IndInv, pc = "ctl", pc' = "select", lisFd' = lisFd, NEW id \in Ids, CloseStream(id)
    PROVE  slots' \in [Slots -> SlotType] /\ Owned' /\ GhostsOK'
<1>1. Running /\ Running'
  BY DEF Running, Done
<1>2. /\ slots' = [i \in Slots |-> IF i \in Find(id) THEN Idle ELSE slots[i]]
      /\ file' = Close({slots[i].fd : i \in Find(id)})
      /\ endT' = Cut(endT, {Target(i) : i \in Find(id)})
      /\ endA' = Cut(endA, {Target(i) : i \in Find(id)})
      /\ UNCHANGED <<toTarget, toA>>
  BY DEF CloseStream
<1>3. Find(id) \in SUBSET Active
  BY DEF Find
<1>4. slots \in [Slots -> SlotType] /\ Idle \in SlotType
  BY DEF IndInv, Typed, ProgramOK, Idle, SlotType
<1>5. slots' \in [Slots -> SlotType]
  BY <1>2, <1>4
<1>6. \A i \in Slots : IF i \in Find(id) THEN slots'[i] = Idle
                       ELSE slots'[i].fd = slots[i].fd /\ slots'[i].id = slots[i].id
  BY <1>2
<1>7. DOMAIN slots' = Slots
  BY <1>2
<1>8. Owned'
  BY <1>1, <1>2, <1>3, <1>6, <1>7, GivingUpKeepsOwned
<1>9. GhostsOK'
  BY <1>2, CutTyped DEF IndInv, Typed, GhostsOK
<1>10. QED
  BY <1>5, <1>8, <1>9

\* Each message is handled, ends the session well, or ends it with an error.
LEMMA ControlReadableInv == IndInv /\ ControlReadable => IndInv'
<1> SUFFICES ASSUME IndInv, ControlReadable PROVE IndInv'
  OBVIOUS
<1> DEFINE m == Head(ctl.in)
<1>1. pc = "ctl" /\ RecvReturns(ctl)
  BY DEF ControlReadable
<1>2. CASE RecvFails(ctl)
  BY <1>2, EndsKeepInv DEF ControlReadable
<1>3. CASE ~RecvFails(ctl)
  <2>1. ctl.in # <<>>
    BY <1>1, <1>3 DEF RecvReturns, RecvFails
  <2>2. m \in Proper
    BY <2>1, TakenTyped DEF ctl, IndInv, Typed, ConnOK
  <2> HIDE DEF m
  <2>3. CASE Return(1) \/ Killed
    BY <2>3, EndsKeepInv
  <2>4. CASE Complete(m)
    <3>1. CountsOK'
      <4>1. CASE Pong
        BY <4>1, CountsTyped DEF Pong, IndInv, Typed, CountsOK, ProgramOK
      <4>2. CASE got' = TRUE /\ UNCHANGED <<pings, sent>>
        <5>1. got' \in BOOLEAN
          BY <4>2
        <5>2. QED
          BY <4>2, <5>1 DEF IndInv, Typed, CountsOK
      <4>3. QED
        BY <2>4, <4>1, <4>2 DEF Complete
    <3>2. QED
      BY <2>4, <3>1, LeaveKeepsInv DEF Complete
  <2>5. CASE /\ Handle(m) /\ Continue
             /\ conn' = [conn EXCEPT !["ctl"] = Heard(m)]
             /\ UNCHANGED <<opt, rc, lisFd, peers>>
    <3>0. Heard(m) \in {Taken(ctl), Reported(Taken(ctl))}
      BY DEF Heard
    <3>1. pc' = "select" /\ lisFd' = lisFd /\ Running /\ Running'
      BY <1>1, <2>5 DEF Continue, Running, Done
    <3>2. CASE m.type = "PONG" /\ Pong /\ UNCHANGED Tables
      <4>1. CountsOK'
        BY <3>2, CountsTyped DEF Pong, IndInv, Typed, CountsOK, ProgramOK
      <4>2. Owned'
        BY <3>1, <3>2, SameOwned DEF Tables, IndInv
      <4>3. slots' \in [Slots -> SlotType] /\ GhostsOK'
        BY <3>2 DEF Tables, ghosts, IndInv, Typed, GhostsOK, ProgramOK
      <4>4. QED
        BY <2>1, <2>5, <3>0, <4>1, <4>2, <4>3, HandledKeepsInv
    <3>3. CASE got' = TRUE /\ UNCHANGED <<pings, sent>> /\ UNCHANGED Tables
      <4>1. got' \in BOOLEAN
        BY <3>3
      <4>2. CountsOK'
        BY <3>3, <4>1 DEF IndInv, Typed, CountsOK
      <4>3. Owned'
        BY <3>1, <3>3, SameOwned DEF Tables, IndInv
      <4>4. slots' \in [Slots -> SlotType] /\ GhostsOK'
        BY <3>3 DEF Tables, ghosts, IndInv, Typed, GhostsOK, ProgramOK
      <4>5. QED
        BY <2>1, <2>5, <3>0, <4>2, <4>3, <4>4, HandledKeepsInv
    <3>4. CASE /\ \/ m.type = "OPEN" /\ Find(m.id) = {} /\ OpenStream(m.id)
                  \/ m.type = "DATA" /\ SendData(m)
                  \/ m.type = "FIN" /\ ClientFin(m.id)
                  \/ m.type = "CLOSE" /\ CloseStream(m.id)
               /\ UNCHANGED <<pings, sent, got>>
      <4>1. m.id \in Ids
        BY <2>2, <3>4 DEF Proper
      <4>2. slots' \in [Slots -> SlotType] /\ Owned' /\ GhostsOK'
        BY <1>1, <2>2, <3>1, <3>4, <4>1, OpenStreamKeeps, SendDataKeeps, ClientFinKeeps,
           CloseStreamKeeps
      <4>3. CountsOK'
        BY <3>4 DEF IndInv, Typed, CountsOK
      <4>4. QED
        BY <2>1, <2>5, <3>0, <4>2, <4>3, HandledKeepsInv
    <3>5. QED
      BY <2>5, <3>2, <3>3, <3>4 DEF Handle
  <2>6. QED
    BY <1>3, <2>3, <2>4, <2>5 DEF ControlReadable, SendingFails, SendLost, m
<1>4. QED
  BY <1>2, <1>3

-----------------------------------------------------------------------------
(* The listener and the targets *)

\* A probed caller is closed within the step; the pass ends.
LEMMA ListenerReadableInv == IndInv /\ ListenerReadable => IndInv'
<1> SUFFICES ASSUME IndInv, ListenerReadable PROVE IndInv'
  OBVIOUS
<1>1. CASE Return(1)
  BY <1>1, EndsKeepInv
<1>2. CASE ~Return(1)
  <2>1. /\ pc = "listen" /\ call' = FALSE /\ Continue
        /\ UNCHANGED <<opt, rc, lisFd, slots, pings, sent, got, file, conn,
                       owed, nodeEnd, nA, nT, ghosts>>
    BY <1>2 DEF ListenerReadable
  <2>2. Running /\ Running' /\ pc' = "select"
    BY <2>1 DEF Running, Done, Continue
  <2>3. Fed'
    BY <2>1, ContinueFed DEF Continue
  <2>4. call' \in BOOLEAN
    BY <2>1
  <2>5. CountsOK' /\ ConnOK' /\ PeersOK' /\ GhostsOK'
    BY <2>1, <2>4 DEF IndInv, Typed, CountsOK, ConnOK, PeersOK, GhostsOK, ghosts
  <2>6. ProgramOK'
    BY <2>1 DEF IndInv, Typed, ProgramOK, Stages, Continue
  <2>7. Owned'
    BY <2>1, <2>2, SameOwned DEF IndInv
  <2>8. QED
    BY <2>3, <2>5, <2>6, <2>7 DEF IndInv, Typed
<1>3. QED
  BY <1>1, <1>2

\* While the pass goes on, the slots still to do keep the input select() saw.
LEMMA PassStaysFed ==
    ASSUME IndInv, pc = "streams", Lands(next + 1, slots', ready),
           UNCHANGED <<call, lisFd>>,
           Readable(ctl) => Readable(conn'["ctl"]),
           \A i \in Active' : /\ i \in Active /\ slots'[i].fd = slots[i].fd
                              /\ Target(i)' = Target(i)
                              /\ i # next => conn'[Target(i)] = conn[Target(i)]
    PROVE  Fed'
<1>1. CASE pc' = "select" /\ ready' = {}
  BY <1>1, ContinueFed
<1>2. CASE /\ pc' = "streams" /\ ready' = ready
           /\ next' \in Slots /\ next + 1 <= next'
           /\ slots'[next'].fd # NoFd /\ IsSet(slots'[next'].fd, ready)
  <2>1. next \in Active /\ next \in Slots
    BY DEF IndInv, Fed, Active
  <2>2. \A i \in Active' : next' <= i => i # next /\ next <= i
    BY <1>2, <2>1 DEF Active, Slots
  <2>3. \A i \in Active' : IsSet(slots'[i].fd, ready) /\ next' <= i
                             => /\ Readable(conn'[Target(i)'])
                                /\ <<slots'[i].fd, Target(i)'>> \in ready
    BY <2>2 DEF IndInv, Fed
  <2>4. next' \in Active'
    BY <1>2 DEF Active
  <2>5. /\ IsSet(CtlFd, ready) => Readable(conn'["ctl"])
        /\ IsSet(lisFd, ready) => call
    BY DEF IndInv, Fed, ctl
  <2>6. QED
    BY <1>2, <2>3, <2>4, <2>5 DEF Fed, IsSet, ctl
<1>3. QED
  BY <1>1, <1>2 DEF Lands

\* Data from a target: one unit taken and passed on; the pass goes on.
LEMMA ForwardDataInv ==
    ASSUME IndInv, pc = "streams", ForwardData(slots[next].id, conn[Target(next)]),
           UNCHANGED <<opt, rc, lisFd, pings, sent, got, peers>>
    PROVE  IndInv'
<1> DEFINE id == slots[next].id
           c == conn[Target(next)]
<1>1. Running /\ next \in Active
  BY DEF Running, Done, IndInv, Fed
<1>2. id \in Ids /\ Target(next) = id /\ id # "ctl"
  BY <1>1, SlotsDiffer
<1>3. c \in Connections(Units)
  BY <1>2 DEF IndInv, Typed, ConnOK
<1>4. /\ c.in # <<>>
      /\ toA' = [toA EXCEPT ![id] = Append(@, Head(c.in))]
      /\ conn' = [conn EXCEPT ![id] = Taken(c)]
      /\ ToStreams(next + 1, slots, ready)
      /\ UNCHANGED <<slots, file, toTarget, endT, endA>>
  BY <1>2 DEF ForwardData
<1>5. Taken(c) \in Connections(Units) /\ Head(c.in) \in Units
  BY <1>3, <1>4, TakenTyped
<1> HIDE DEF id, c
<1>6. conn = [x \in Ids \cup {"ctl"} |-> conn[x]]
  BY DEF IndInv, Typed, ConnOK
<1>7. conn' = [x \in Ids \cup {"ctl"} |-> IF x = id THEN Taken(c) ELSE conn[x]]
  BY <1>2, <1>4, <1>6
<1>8. ConnOK'
  BY <1>2, <1>5, <1>7 DEF ConnOK, IndInv, Typed
<1>9. toA[id] \in Seq(Units) /\ toA \in [Ids -> Seq(Units)]
  BY <1>2 DEF IndInv, Typed, GhostsOK
<1>10. Append(toA[id], Head(c.in)) \in Seq(Units)
  BY <1>5, <1>9
<1>11. toA' \in [Ids -> Seq(Units)]
  BY <1>4, <1>9, <1>10
<1>12. GhostsOK'
  BY <1>4, <1>11 DEF IndInv, Typed, GhostsOK
<1>13. Lands(next + 1, slots', ready)
  BY <1>4, ToStreamsLands
<1>14. slots' \in [Slots -> SlotType] /\ ready \subseteq Fds \X Files /\ ProgramOK
  BY <1>4 DEF IndInv, Typed, ProgramOK
<1>15. ProgramOK'
  BY <1>13, <1>14, LandsTyped
<1>16. Running' /\ pc' # "start"
  BY <1>13 DEF Lands, Running, Done
<1>17. Owned' /\ Active' = Active /\ \A i \in Active : Target(i)' = Target(i)
  BY <1>1, <1>4, <1>16, SameOwned DEF IndInv
<1>18. Readable(ctl) => Readable(conn'["ctl"])
  BY <1>2, <1>7 DEF ctl
<1>19. \A i \in Active : i # next => conn'[Target(i)] = conn[Target(i)]
  <2>1. \A i \in Active : Target(i) \in Ids /\ (i # next => Target(i) # id)
    BY <1>1, <1>2, SlotsDiffer
  <2>2. QED
    BY <1>7, <2>1
<1>20. Fed'
  BY <1>4, <1>13, <1>17, <1>18, <1>19, PassStaysFed DEF peers
<1>21. CountsOK' /\ PeersOK'
  BY DEF IndInv, Typed, CountsOK, PeersOK, peers
<1>22. QED
  BY <1>8, <1>12, <1>15, <1>17, <1>20, <1>21 DEF IndInv, Typed

\* The end of a target: noted, or the slot given up when A has finished too.
LEMMA ForwardFinInv ==
    ASSUME IndInv, pc = "streams", ForwardFin(slots[next].id, conn[Target(next)]),
           UNCHANGED <<opt, rc, lisFd, pings, sent, got, peers>>
    PROVE  IndInv'
<1> DEFINE gone == IF slots[next].cfin THEN {next} ELSE {}
<1>1. Running /\ next \in Active /\ next \in Slots
  BY DEF Running, Done, IndInv, Fed, Active
<1>2. slots[next].id \in Ids
  BY <1>1, SlotsDiffer
<1>3. /\ endA' = [endA EXCEPT ![slots[next].id] = "fin"]
      /\ slots' = [slots EXCEPT ![next] = IF @.cfin THEN Idle ELSE [@ EXCEPT !.tfin = TRUE]]
      /\ file' = IF slots[next].cfin THEN Close({slots[next].fd}) ELSE file
      /\ ToStreams(next + 1, slots', ready)
      /\ conn' = [conn EXCEPT ![Target(next)] = Reported(conn[Target(next)])]
      /\ UNCHANGED <<toTarget, endT, toA>>
  BY DEF ForwardFin
<1>4. slots \in [Slots -> SlotType] /\ Idle \in SlotType
  BY DEF IndInv, Typed, ProgramOK, Idle, SlotType
<1>5. /\ [slots[next] EXCEPT !.tfin = TRUE] \in SlotType
      /\ [slots[next] EXCEPT !.tfin = TRUE].fd = slots[next].fd
      /\ [slots[next] EXCEPT !.tfin = TRUE].id = slots[next].id
  BY <1>1, <1>4 DEF SlotType
<1>6. slots' \in [Slots -> SlotType]
  BY <1>1, <1>3, <1>4, <1>5
<1>7. \A i \in Slots : IF i \in gone THEN slots'[i] = Idle
                       ELSE slots'[i].fd = slots[i].fd /\ slots'[i].id = slots[i].id
  BY <1>1, <1>3, <1>4, <1>5
<1>8. file \in [Fds -> Files \cup {"none"}]
  BY DEF IndInv, Owned
<1>9. file' = Close({slots[i].fd : i \in gone})
  <2>1. CASE slots[next].cfin
    <3>1. {slots[i].fd : i \in gone} = {slots[next].fd}
      BY <2>1
    <3>2. QED
      BY <1>3, <2>1, <3>1
  <2>2. CASE ~slots[next].cfin
    <3>1. {slots[i].fd : i \in gone} = {}
      BY <2>2
    <3>2. Close({}) = file
      BY <1>8 DEF Close
    <3>3. QED
      BY <1>3, <2>2, <3>1, <3>2
  <2>3. QED
    BY <2>1, <2>2
<1>10. gone \in SUBSET Active
  BY <1>1
<1> HIDE DEF gone
<1>11. Lands(next + 1, slots', ready)
  BY <1>3, ToStreamsLands
<1>12. ready \subseteq Fds \X Files /\ ProgramOK
  BY DEF IndInv, Typed, ProgramOK
<1>13. ProgramOK'
  BY <1>6, <1>11, <1>12, LandsTyped
<1>14. Running' /\ pc' # "start"
  BY <1>11 DEF Lands, Running, Done
<1>15. DOMAIN slots' = Slots
  BY <1>6
<1>16. Owned' /\ Active' = Active \ gone /\ \A i \in Active' : Target(i)' = Target(i)
  BY <1>1, <1>7, <1>9, <1>10, <1>14, <1>15, GivingUpKeepsOwned
<1>17. \A i \in Active' : i \in Active /\ slots'[i].fd = slots[i].fd
  BY <1>7, <1>16 DEF Active
<1>18. /\ \A i \in Active : Target(i) \in Ids /\ (i # next => Target(i) # Target(next))
       /\ "ctl" \notin Ids
  BY <1>1, SlotsDiffer
<1>19. conn[Target(next)] \in Connections(Units)
  BY <1>1, <1>18 DEF IndInv, Typed, ConnOK
<1>20. Reported(conn[Target(next)]) \in Connections(Units)
  BY <1>19, ReportedTyped
<1>21. \A x \in Ids \cup {"ctl"} :
          x # Target(next) => conn'[x] = conn[x]
  BY <1>3 DEF IndInv, Typed, ConnOK
<1>22. ConnOK'
  <2>1. conn' = [x \in Ids \cup {"ctl"} |->
                   IF x = Target(next) THEN Reported(conn[Target(next)]) ELSE conn[x]]
    BY <1>1, <1>3, <1>18 DEF IndInv, Typed, ConnOK
  <2>2. QED
    BY <1>1, <1>18, <1>20, <2>1 DEF ConnOK, IndInv, Typed
<1>23. Readable(ctl) => Readable(conn'["ctl"])
  BY <1>1, <1>18, <1>21 DEF ctl
<1>24. \A i \in Active' : i # next => conn'[Target(i)] = conn[Target(i)]
  BY <1>17, <1>18, <1>21
<1>25. Fed'
  BY <1>3, <1>11, <1>16, <1>17, <1>23, <1>24, PassStaysFed DEF peers
<1>26. GhostsOK'
  BY <1>2, <1>3 DEF IndInv, Typed, GhostsOK, Ends
<1>27. CountsOK' /\ PeersOK'
  BY DEF IndInv, Typed, CountsOK, PeersOK, peers
<1>28. QED
  BY <1>13, <1>16, <1>22, <1>25, <1>26, <1>27 DEF IndInv, Typed

\* Serving a target keeps the invariant.
LEMMA StreamReadableInv == IndInv /\ StreamReadable => IndInv'
<1> SUFFICES ASSUME IndInv, StreamReadable PROVE IndInv'
  OBVIOUS
<1>1. CASE Return(1) \/ Killed
  BY <1>1, EndsKeepInv
<1>2. CASE ~(Return(1) \/ Killed)
  BY <1>2, ForwardDataInv, ForwardFinInv DEF StreamReadable, SendLost
<1>3. QED
  BY <1>1, <1>2

-----------------------------------------------------------------------------
(* The peers *)

\* What peers do adds input, and touches nothing the node owns.
LEMMA PeersKeepInv ==
    ASSUME IndInv, Running, UNCHANGED <<program, file, ghosts>>,
           ConnOK', PeersOK', call => call',
           \A x \in Ids \cup {"ctl"} : Readable(conn[x]) => Readable(conn'[x])
    PROVE  IndInv'
<1>1. Running' /\ pc' # "start" => Owned'
  BY SameOwned DEF IndInv, program
<1>2. Owned' /\ Active' = Active /\ \A i \in Active : Target(i)' = Target(i)
  BY DEF IndInv, program, Owned, DescriptorsOwned, Running, Active, StreamFds, Target
<1>3. \A i \in Active : Target(i) \in Ids
  BY SlotsDiffer
<1>4. Readable(ctl) => Readable(conn'["ctl"])
  BY DEF ctl
<1>5. \A i \in Active : Readable(conn[Target(i)]) => Readable(conn'[Target(i)])
  BY <1>3
<1>6. Fed'
  BY <1>2, <1>4, <1>5 DEF Fed, IndInv, program, IsSet, ctl
<1>7. ProgramOK' /\ CountsOK' /\ GhostsOK'
  BY DEF program, ghosts, IndInv, Typed, ProgramOK, CountsOK, GhostsOK
<1>8. QED
  BY <1>2, <1>6, <1>7 DEF IndInv, Typed

\* A connection replaced by one that is still readable if it was.
LEMMA OneConnectionChanges ==
    ASSUME IndInv, NEW x \in Ids \cup {"ctl"}, NEW d, conn' = [conn EXCEPT ![x] = d],
           d \in Connections(IF x = "ctl" THEN Proper ELSE Units),
           Readable(conn[x]) => Readable(d)
    PROVE  ConnOK' /\ \A y \in Ids \cup {"ctl"} : Readable(conn[y]) => Readable(conn'[y])
<1>1. conn = [y \in Ids \cup {"ctl"} |-> conn[y]]
  BY DEF IndInv, Typed, ConnOK
<1>2. conn' = [y \in Ids \cup {"ctl"} |-> IF y = x THEN d ELSE conn[y]]
  BY <1>1
<1>3. ConnOK'
  BY <1>2 DEF IndInv, Typed, ConnOK
<1>4. QED
  BY <1>2, <1>3

\* NTAP-A says something.
LEMMA SaysKeeps ==
    ASSUME IndInv, NEW m \in Proper, Says(m)
    PROVE  ConnOK' /\ \A y \in Ids \cup {"ctl"} : Readable(conn[y]) => Readable(conn'[y])
<1>1. PICK d \in Arrivals(ctl, {m}, MaxQueue) : conn' = [conn EXCEPT !["ctl"] = d]
  BY DEF Says
<1>2. ctl \in Connections(Proper) /\ ctl = conn["ctl"]
  BY DEF ctl, IndInv, Typed, ConnOK
<1>3. d \in Connections(Proper) /\ (Readable(ctl) => Readable(d))
  BY <1>2, ArrivalTyped
<1>4. QED
  BY <1>1, <1>2, <1>3, OneConnectionChanges

\* Each message NTAP-A may send.
LEMMA NodeSaysInv == IndInv /\ NodeSays => IndInv'
<1> SUFFICES ASSUME IndInv, NodeSays PROVE IndInv'
  OBVIOUS
<1>1. Running /\ UNCHANGED <<program, file, call, nT, ghosts>>
  BY DEF NodeSays
<1>2. /\ owed \in 0 .. MaxQueue /\ nA \in [Ids -> 0 .. MaxUnits]
      /\ nodeEnd \in [Ids -> {"idle", "up", "fin", "cut"}]
  BY DEF IndInv, Typed, PeersOK
<1>3. ASSUME NEW m \in Proper, Says(m),
             owed' \in 0 .. MaxQueue, nA' \in [Ids -> 0 .. MaxUnits],
             nodeEnd' \in [Ids -> {"idle", "up", "fin", "cut"}]
      PROVE  IndInv'
  <2>1. PeersOK'
    BY <1>1, <1>3 DEF IndInv, Typed, PeersOK
  <2>2. QED
    BY <1>1, <1>3, <2>1, SaysKeeps, PeersKeepInv
<1>4. /\ Msg("PONG", "none", 0) \in Proper
      /\ \A t \in Sends : Msg(t, "none", 0) \in Proper
      /\ \A i \in Ids, t \in {"OPEN", "FIN", "CLOSE"} : Msg(t, i, 0) \in Proper
      /\ \A i \in Ids, n \in 1 .. MaxUnits : Msg("DATA", i, n) \in Proper
  <2>1. \A t \in {"PONG", "TEST", "BAD"} : Msg(t, "none", 0) \in Proper
    BY DEF Msg, Proper, Messages
  <2>2. \A i \in Ids, t \in {"OPEN", "FIN", "CLOSE"} : Msg(t, i, 0) \in Proper
    BY DEF Msg, Proper, Messages
  <2>3. \A i \in Ids, n \in 1 .. MaxUnits : Msg("DATA", i, n) \in Proper
    BY DEF Msg, Proper, Messages
  <2>4. QED
    BY <2>1, <2>2, <2>3
<1>5. CASE owed > 0 /\ Says(Msg("PONG", "none", 0)) /\ owed' = owed - 1
           /\ UNCHANGED <<nodeEnd, nA>>
  <2>1. owed' \in 0 .. MaxQueue
    BY <1>2, <1>5
  <2>2. QED
    BY <1>2, <1>3, <1>4, <1>5, <2>1
<1>6. CASE \E t \in Sends : Says(Msg(t, "none", 0)) /\ UNCHANGED <<owed, nodeEnd, nA>>
  BY <1>2, <1>3, <1>4, <1>6
<1>7. ASSUME NEW i \in Ids, UNCHANGED owed,
             \/ /\ nodeEnd[i] = "idle" /\ Says(Msg("OPEN", i, 0))
                /\ nodeEnd' = [nodeEnd EXCEPT ![i] = "up"] /\ UNCHANGED nA
             \/ /\ nodeEnd[i] = "up" /\ nA[i] < MaxUnits /\ Says(Msg("DATA", i, nA[i] + 1))
                /\ nA' = [nA EXCEPT ![i] = @ + 1] /\ UNCHANGED nodeEnd
             \/ /\ nodeEnd[i] = "up" /\ Says(Msg("FIN", i, 0))
                /\ nodeEnd' = [nodeEnd EXCEPT ![i] = "fin"] /\ UNCHANGED nA
             \/ /\ nodeEnd[i] \in {"up", "fin"} /\ Says(Msg("CLOSE", i, 0))
                /\ nodeEnd' = [nodeEnd EXCEPT ![i] = "cut"] /\ UNCHANGED nA
      PROVE  IndInv'
  <2>1. CASE /\ \E t \in {"OPEN", "FIN", "CLOSE"} : Says(Msg(t, i, 0))
             /\ \E e \in {"up", "fin", "cut"} : nodeEnd' = [nodeEnd EXCEPT ![i] = e]
             /\ UNCHANGED nA
    <3>1. nodeEnd' \in [Ids -> {"idle", "up", "fin", "cut"}]
      BY <1>2, <2>1
    <3>2. QED
      BY <1>2, <1>3, <1>4, <1>7, <2>1, <3>1
  <2>2. CASE /\ nA[i] < MaxUnits /\ Says(Msg("DATA", i, nA[i] + 1))
             /\ nA' = [nA EXCEPT ![i] = @ + 1] /\ UNCHANGED nodeEnd
    <3>1. nA[i] + 1 \in 1 .. MaxUnits /\ nA[i] + 1 \in 0 .. MaxUnits
      BY <1>2, <2>2
    <3>2. nA' \in [Ids -> 0 .. MaxUnits]
      BY <1>2, <2>2, <3>1
    <3>3. QED
      BY <1>2, <1>3, <1>4, <1>7, <2>2, <3>1, <3>2
  <2>3. QED
    BY <1>7, <2>1, <2>2
<1>8. QED
  BY <1>5, <1>6, <1>7 DEF NodeSays

\* A target writes a unit.
LEMMA TargetSaysInv == ASSUME IndInv, NEW i \in Ids, TargetSays(i) PROVE IndInv'
<1>1. /\ Running /\ nT[i] < MaxUnits /\ nT' = [nT EXCEPT ![i] = @ + 1]
      /\ UNCHANGED <<program, file, call, owed, nodeEnd, nA, ghosts>>
  BY DEF TargetSays
<1>2. PICK d \in Arrivals(conn[i], {<<i, nT[i] + 1>>}, MaxQueue) : conn' = [conn EXCEPT ![i] = d]
  BY DEF TargetSays
<1>3. nT \in [Ids -> 0 .. MaxUnits]
  BY DEF IndInv, Typed, PeersOK
<1>4. nT[i] + 1 \in 1 .. MaxUnits /\ nT[i] + 1 \in 0 .. MaxUnits
  BY <1>1, <1>3
<1>5. nT' \in [Ids -> 0 .. MaxUnits]
  BY <1>1, <1>3, <1>4
<1>6. PeersOK'
  BY <1>1, <1>5 DEF IndInv, Typed, PeersOK
<1>7. <<i, nT[i] + 1>> \in Units /\ conn[i] \in Connections(Units) /\ i # "ctl"
  BY <1>4 DEF Units, IndInv, Typed, ConnOK
<1>8. d \in Connections(Units) /\ (Readable(conn[i]) => Readable(d))
  BY <1>7, ArrivalTyped
<1>9. ConnOK' /\ \A y \in Ids \cup {"ctl"} : Readable(conn[y]) => Readable(conn'[y])
  BY <1>2, <1>7, <1>8, OneConnectionChanges
<1>10. QED
  BY <1>1, <1>6, <1>9, PeersKeepInv

\* A peer ends, resets, stalls, resumes or stops in mid-message.
LEMMA PeerTurnsInv == ASSUME IndInv, NEW x \in Ids \cup {"ctl"}, PeerTurns(x) PROVE IndInv'
<1>1. Running /\ UNCHANGED <<program, file, peers, ghosts>>
  BY DEF PeerTurns
<1>2. PICK d \in Fragments(conn[x], MaxQueue) \cup Endings(conn[x]) \cup Resets(conn[x])
                  \cup Stalls(conn[x]) \cup Resumes(conn[x]) :
         conn' = [conn EXCEPT ![x] = d]
  BY DEF PeerTurns
<1>3. PeersOK' /\ call' = call
  BY <1>1 DEF IndInv, Typed, PeersOK, peers
<1>4. conn[x] \in Connections(IF x = "ctl" THEN Proper ELSE Units)
  BY DEF IndInv, Typed, ConnOK
<1>5. d \in Connections(IF x = "ctl" THEN Proper ELSE Units)
      /\ (Readable(conn[x]) => Readable(d))
  BY <1>4, TurnTyped
<1>6. ConnOK' /\ \A y \in Ids \cup {"ctl"} : Readable(conn[y]) => Readable(conn'[y])
  BY <1>2, <1>5, OneConnectionChanges
<1>7. QED
  BY <1>1, <1>3, <1>6, PeersKeepInv

\* Somebody calls the listener.
LEMMA DirectCallInv == IndInv /\ DirectCall => IndInv'
<1> SUFFICES ASSUME IndInv, DirectCall PROVE IndInv'
  OBVIOUS
<1>1. /\ Running /\ call' = TRUE
      /\ UNCHANGED <<program, file, conn, owed, nodeEnd, nA, nT, ghosts>>
  BY DEF DirectCall
<1>2. call' \in BOOLEAN
  BY <1>1
<1>3. PeersOK' /\ ConnOK'
  BY <1>1, <1>2 DEF IndInv, Typed, PeersOK, ConnOK
<1>4. QED
  BY <1>1, <1>3, PeersKeepInv

-----------------------------------------------------------------------------
(* The theorems *)

\* Every step keeps the invariant.
LEMMA StepInv == IndInv /\ [Next]_vars => IndInv'
<1> SUFFICES ASSUME IndInv, [Next]_vars PROVE IndInv'
  OBVIOUS
<1>1. CASE LoopStep
  BY <1>1, StartInv, SendPingInv, SelectInv, ControlReadableInv, ListenerReadableInv,
     StreamReadableInv DEF LoopStep
<1>2. CASE Environment
  BY <1>2, NodeSaysInv, TargetSaysInv, PeerTurnsInv, DirectCallInv DEF Environment
<1>3. CASE UNCHANGED vars
  <2>1. ProgramOK' /\ CountsOK' /\ ConnOK' /\ PeersOK' /\ GhostsOK'
    BY <1>3 DEF vars, program, peers, ghosts, IndInv, Typed, ProgramOK, CountsOK, ConnOK,
      PeersOK, GhostsOK
  <2>2. Owned' /\ Fed'
    BY <1>3 DEF vars, program, peers, IndInv, Owned, DescriptorsOwned, Running, Active,
      StreamFds, Fed, IsSet, Target, ctl
  <2>3. QED
    BY <2>1, <2>2 DEF IndInv, Typed
<1>4. QED
  BY <1>1, <1>2, <1>3 DEF Next, Returned

\* The invariant holds in every state of a session.
THEOREM Inductive == Spec => []IndInv
BY InitInv, StepInv, PTL DEF Spec

\* The variables keep to their types; no slot ever holds a number that is
\* neither a descriptor nor the invalid one.
THEOREM TypeCorrect == Spec => []TypeOK
BY Inductive, PartsType, PTL

\* Whatever streams are opened, half-closed, refused or cut, each open
\* descriptor is owned exactly once, and all are closed when the loop is left.
THEOREM DescriptorsNeverLeak == Spec => []DescriptorsOwned
<1>1. IndInv => DescriptorsOwned
  BY DEF IndInv, Owned
<1>2. QED
  BY <1>1, Inductive, PTL

\* Every receive and accept() of the loop is made where input waits, on the
\* connection select() looked at, although messages handled earlier may have
\* closed streams and opened others.
THEOREM NeverWaitsInVain == Spec => []CallsHaveInput
<1>1. IndInv => CallsHaveInput
  <2> SUFFICES ASSUME IndInv PROVE CallsHaveInput
    OBVIOUS
  <2>1. pc = "streams" => next \in Active /\ next \in Nat /\ next <= next
                          /\ IsSet(slots[next].fd, ready)
    BY DEF IndInv, Fed, Active, Slots
  <2>2. QED
    BY <2>1 DEF IndInv, Fed, CallsHaveInput
<1>2. QED
  BY <1>1, Inductive, PTL

-----------------------------------------------------------------------------
(* A stream's misfortune *)

SlotsKept ==
    \A i \in Active :
       \/ slots'[i] = slots[i]
       \/ pc = "ctl" /\ Head(ctl.in).id = slots[i].id
       \/ pc = "streams" /\ i = next
Contained ==
    /\ pc' \in Done \ {pc} /\ rc' = 1 => MayFail
    /\ Running' => SlotsKept

\* Leaving the loop is contained where leaving it with an error is allowed.
LEMMA LeavingContained ==
    ASSUME NEW code, Return(code) \/ Killed \/ Leave(code),
           MayFail \/ (Leave(code) /\ code = 0)
    PROVE  Contained
<1>1. pc' \in Done /\ ~Running'
  BY DEF Return, Killed, Leave, Finish, Running, Done
<1>2. CASE MayFail
  BY <1>1, <1>2 DEF Contained
<1>3. CASE Leave(code) /\ code = 0
  BY <1>1, <1>3 DEF Contained, Leave, Finish
<1>4. QED
  BY <1>2, <1>3

\* A step that leaves the slots alone and goes on is contained.
LEMMA QuietContained ==
    ASSUME UNCHANGED slots, Running'
    PROVE  Contained
BY DEF Contained, SlotsKept, Running

\* What a message does to a slot, it does to the slot of the stream it names.
LEMMA MessagesContained ==
    ASSUME IndInv, ControlReadable
    PROVE  Contained
<1> DEFINE m == Head(ctl.in)
<1>1. pc = "ctl"
  BY DEF ControlReadable
<1>2. CASE RecvFails(ctl)
  BY <1>1, <1>2, LeavingContained DEF ControlReadable, MayFail
<1>3. CASE ~RecvFails(ctl) /\ (m.type = "BAD" \/ (m.type = "OPEN" /\ Find(m.id) # {})) /\ Return(1)
  BY <1>1, <1>3, LeavingContained DEF MayFail, Expected
<1>4. CASE SendingFails(m)
  <2>1. Return(1) \/ Killed
    BY <1>4 DEF SendingFails, SendLost
  <2>2. Lost(ctl) \/ Unwritable(m)
    BY <1>4 DEF SendingFails, Lost, Unwritable, Takers
  <2>3. QED
    BY <1>1, <2>1, <2>2, LeavingContained DEF MayFail
<1>5. CASE Complete(m)
  BY <1>5, LeavingContained DEF Complete
<1>6. CASE Handle(m) /\ Continue
  <2>1. Running' /\ pc' \notin Done
    BY <1>6 DEF Continue, Running, Done
  <2>2. CASE UNCHANGED Tables
    BY <2>1, <2>2, QuietContained DEF Tables
  <2>3. CASE m.type = "OPEN" /\ OpenStream(m.id)
    <3>1. CASE UNCHANGED slots
      BY <2>1, <3>1, QuietContained
    <3>2. ASSUME NEW i \in First(Slots \ Active), NEW new, slots' = [slots EXCEPT ![i] = new]
          PROVE  Contained
      <4>1. i \notin Active
        BY DEF First
      <4>2. \A j \in Active : slots'[j] = slots[j]
        BY <3>2, <4>1 DEF Active, IndInv, Typed, ProgramOK
      <4>3. QED
        BY <2>1, <4>2 DEF Contained, SlotsKept
    <3>3. QED
      BY <2>3, <3>1, <3>2 DEF OpenStream, Refuse
  <2>4. CASE m.type = "DATA" /\ SendData(m)
    BY <2>1, <2>4, QuietContained DEF SendData
  <2>5. CASE ClientFin(m.id) \/ CloseStream(m.id)
    <3>1. \A i \in Active : slots'[i] = slots[i] \/ i \in Find(m.id)
      BY <2>5 DEF ClientFin, CloseStream, Active
    <3>2. QED
      BY <1>1, <2>1, <3>1 DEF Contained, SlotsKept, Find
  <2>6. QED
    BY <1>6, <2>2, <2>3, <2>4, <2>5 DEF Handle
<1>7. QED
  BY <1>2, <1>3, <1>4, <1>5, <1>6 DEF ControlReadable

\* A target's data or end concerns the slot the pass is at.
LEMMA TargetsContained ==
    ASSUME IndInv, StreamReadable
    PROVE  Contained
<1>1. pc = "streams"
  BY DEF StreamReadable
<1>2. CASE Lost(ctl) /\ SendLost(ctl)
  BY <1>2, LeavingContained DEF MayFail, SendLost
<1>3. ASSUME NEW id, NEW c, ForwardData(id, c) \/ ForwardFin(id, c)
      PROVE  Contained
  <2>1. Lands(next + 1, slots', ready)
    BY <1>3, ToStreamsLands DEF ForwardData, ForwardFin
  <2>2. Running' /\ pc' \notin Done
    BY <2>1 DEF Lands, Running, Done
  <2>3. \A i \in Active : i # next => slots'[i] = slots[i]
    <3>1. CASE UNCHANGED slots
      BY <3>1
    <3>2. ASSUME NEW new, slots' = [slots EXCEPT ![next] = new]
          PROVE  \A i \in Active : i # next => slots'[i] = slots[i]
      BY <3>2 DEF Active, IndInv, Typed, ProgramOK
    <3>3. QED
      BY <1>3, <3>1, <3>2 DEF ForwardData, ForwardFin
  <2>4. QED
    BY <1>1, <2>2, <2>3 DEF Contained, SlotsKept
<1>4. QED
  BY <1>2, <1>3 DEF StreamReadable

\* No step lets a stream's misfortune reach another stream or the session.
LEMMA StepContained == IndInv /\ [Next]_vars => Contained
<1> SUFFICES ASSUME IndInv, [Next]_vars PROVE Contained
  OBVIOUS
<1>1. CASE Start
  <2>1. CASE Return(1)
    BY <1>1, <2>1, LeavingContained DEF Start, MayFail
  <2>2. CASE ~Return(1)
    BY <1>1, <2>2, QuietContained DEF Start, Running, Done
  <2>3. QED
    BY <2>1, <2>2
<1>2. CASE SendPing
  BY <1>2, LeavingContained, QuietContained DEF SendPing, SendLost, MayFail, Running, Done
<1>3. CASE Select
  <2>1. CASE Return(1)
    BY <1>3, <2>1, LeavingContained DEF Select, MayFail
  <2>2. CASE ~Return(1)
    <3>1. pc' \in {"ping", "ctl", "listen", "streams", "select"} /\ UNCHANGED slots
      BY <1>3, <2>2, ToControlLands DEF Select, Lands
    <3>2. QED
      BY <3>1, QuietContained DEF Running, Done
  <2>3. QED
    BY <2>1, <2>2
<1>4. CASE ControlReadable
  BY <1>4, MessagesContained
<1>5. CASE ListenerReadable
  <2>1. CASE Return(1)
    BY <1>5, <2>1, LeavingContained DEF ListenerReadable, MayFail
  <2>2. CASE ~Return(1)
    BY <1>5, <2>2, QuietContained DEF ListenerReadable, Continue, Running, Done
  <2>3. QED
    BY <2>1, <2>2
<1>6. CASE StreamReadable
  BY <1>6, TargetsContained
<1>7. CASE Environment \/ UNCHANGED vars
  <2>1. UNCHANGED <<pc, slots>>
    BY <1>7 DEF Environment, NodeSays, TargetSays, PeerTurns, DirectCall, program, vars
  <2>2. QED
    BY <2>1 DEF Contained, SlotsKept
<1>8. QED
  BY <1>1, <1>2, <1>3, <1>4, <1>5, <1>6, <1>7 DEF Next, LoopStep, Returned

\* Unreachable, ended or reset targets and a full table cost the stream they
\* concern alone; the session fails only for the reasons listed.
THEOREM StreamsFallAlone == Spec => StreamFaultsContained
<1>1. IndInv /\ [Next]_vars
         => [/\ pc' \in Done \ {pc} /\ rc' = 1 => MayFail
             /\ Running' => \A i \in Active :
                   \/ slots'[i] = slots[i]
                   \/ pc = "ctl" /\ Head(ctl.in).id = slots[i].id
                   \/ pc = "streams" /\ i = next]_vars
  BY StepContained DEF Contained, SlotsKept
<1>2. QED
  BY <1>1, Inductive, PTL DEF Spec, StreamFaultsContained

-----------------------------------------------------------------------------
(* The link tests *)

\* The frames keep pace with the PONGs: one with each, or all with the first.
InStep ==
    /\ opt.each => sent >= opt.frames \/ sent >= pings
    /\ ~opt.each => sent \in {0, opt.frames} /\ (pings > 0 => sent = opt.frames)
EndsWell == Reached(pings, got) \/ (opt.pings = 0 /\ pings > 0 /\ ~opt.expect)
TestInv ==
    /\ Running => rc = 1 /\ ~Reached(pings, got)
    /\ rc = 0 => EndsWell
    /\ InStep

\* The options and counts are numbers.
LEMMA Numbers ==
    ASSUME IndInv
    PROVE  opt.pings \in Nat /\ opt.frames \in Nat /\ pings \in Nat /\ sent \in Nat
BY DEF IndInv, Typed, ProgramOK, CountsOK

\* A session starts with nothing counted, and nothing reached.
LEMMA InitTests == Init => TestInv
<1> SUFFICES ASSUME Init PROVE TestInv
  OBVIOUS
<1>1. opt.pings \in Nat /\ pings = 0 /\ sent = 0 /\ rc = 1
  BY DEF Init
<1>2. ~Reached(pings, got)
  BY <1>1 DEF Reached
<1>3. InStep
  BY <1>1 DEF InStep
<1>4. QED
  BY <1>1, <1>2, <1>3 DEF TestInv

\* Steps that count nothing, and an end with an error.
LEMMA UncountedTests ==
    ASSUME TestInv, UNCHANGED <<opt, pings, sent, got>>,
           (Running /\ rc' = rc) \/ (~Running' /\ rc' = 1) \/ UNCHANGED <<pc, rc>>
    PROVE  TestInv'
<1>1. InStep'
  BY DEF TestInv, InStep
<1>2. EndsWell' = EndsWell /\ Reached(pings, got)' = Reached(pings, got)
  BY DEF EndsWell, Reached
<1>3. QED
  BY <1>1, <1>2 DEF TestInv, Running

\* A PONG keeps frames and PONGs in step.
LEMMA PongInStep ==
    ASSUME IndInv, InStep, Pong, opt' = opt
    PROVE  InStep'
<1>1. opt.pings \in Nat /\ opt.frames \in Nat /\ pings \in Nat /\ sent \in Nat
  BY Numbers
<1>2. pings' \in Nat /\ (pings' = pings + 1 \/ (pings' = pings /\ pings > 0))
  BY <1>1 DEF Pong, Counted
<1>3. sent' = sent + FramesDue
  BY DEF Pong
<1>4. CASE opt.each
  <2>1. FramesDue = IF opt.frames > 0 /\ sent < opt.frames THEN 1 ELSE 0
    BY <1>4 DEF FramesDue
  <2>2. sent >= opt.frames \/ sent >= pings
    BY <1>4 DEF InStep
  <2>3. sent' >= opt.frames \/ sent' >= pings'
    BY <1>1, <1>2, <1>3, <2>1, <2>2
  <2>4. QED
    BY <1>4, <2>3 DEF InStep
<1>5. CASE ~opt.each
  <2>1. FramesDue = IF opt.frames > 0 /\ sent = 0 THEN opt.frames ELSE 0
    BY <1>5 DEF FramesDue
  <2>2. sent \in {0, opt.frames}
    BY <1>5 DEF InStep
  <2>3. sent' = opt.frames
    BY <1>1, <1>3, <2>1, <2>2
  <2>4. QED
    BY <1>5, <2>3 DEF InStep
<1>6. QED
  BY <1>4, <1>5

\* A test frame changes no count.
LEMMA FrameInStep ==
    ASSUME InStep, UNCHANGED <<opt, pings, sent>>
    PROVE  InStep'
BY DEF InStep

\* Return() counts nothing, and has a code other than 1 in one case alone.
LEMMA ReturnTests ==
    ASSUME TestInv, NEW code, Return(code),
           code = 1 \/ (code = 0 /\ pings > 0 /\ opt.pings = 0 /\ ~opt.expect)
    PROVE  TestInv'
<1>1. rc' = code /\ ~Running' /\ UNCHANGED <<opt, pings, sent, got>>
  BY DEF Return, Leave, Finish, Running, Done
<1>2. CASE code = 1
  BY <1>1, <1>2, UncountedTests
<1>3. CASE pings > 0 /\ opt.pings = 0 /\ ~opt.expect
  <2>1. EndsWell'
    BY <1>1, <1>3 DEF EndsWell
  <2>2. InStep'
    BY <1>1 DEF TestInv, InStep
  <2>3. QED
    BY <1>1, <2>1, <2>2 DEF TestInv
<1>4. QED
  BY <1>2, <1>3

\* A failed send ends the session with an error, or SIGPIPE does.
LEMMA LostTests ==
    ASSUME TestInv, Return(1) \/ Killed
    PROVE  TestInv'
<1>1. CASE Killed
  BY <1>1, UncountedTests DEF Killed, Finish, Running, Done
<1>2. CASE Return(1)
  BY <1>2, ReturnTests
<1>3. QED
  BY <1>1, <1>2

\* The counts are judged when a message has changed them, so that the session
\* ends with that message or they are not reached yet.
LEMMA MessagesTests == IndInv /\ TestInv /\ ControlReadable => TestInv'
<1> SUFFICES ASSUME IndInv, TestInv, ControlReadable PROVE TestInv'
  OBVIOUS
<1> DEFINE m == Head(ctl.in)
<1>1. Running /\ rc = 1
  BY DEF ControlReadable, Running, Done, TestInv
<1>2. CASE RecvFails(ctl)
  <2>1. pings \in Nat
    BY Numbers
  <2>2. QED
    BY <1>2, <2>1, ReturnTests DEF ControlReadable
<1>3. CASE Return(1) \/ Killed
  BY <1>3, LostTests
<1>4. CASE Complete(m)
  <2>1. Leave(0)
    BY <1>4 DEF Complete
  <2>2. rc' = 0 /\ ~Running' /\ opt' = opt
    BY <2>1 DEF Leave, Finish, Running, Done
  <2>3. CASE Reached(Counted, got) /\ Pong
    <3>1. Reached(pings, got)'
      BY <2>2, <2>3 DEF Reached, Pong
    <3>2. InStep'
      BY <2>2, <2>3, PongInStep DEF TestInv
    <3>3. QED
      BY <2>2, <3>1, <3>2 DEF TestInv, EndsWell
  <2>4. CASE Reached(pings, TRUE) /\ got' = TRUE /\ UNCHANGED <<pings, sent>>
    <3>1. Reached(pings, got)'
      BY <2>2, <2>4 DEF Reached
    <3>2. InStep'
      BY <2>2, <2>4, FrameInStep DEF TestInv
    <3>3. QED
      BY <2>2, <3>1, <3>2 DEF TestInv, EndsWell
  <2>5. QED
    BY <1>4, <2>3, <2>4 DEF Complete
<1>5. CASE Handle(m) /\ Continue /\ UNCHANGED <<opt, rc>>
  <2>1. CASE ~Reached(Counted, got) /\ Pong
    <3>1. ~Reached(pings, got)'
      BY <1>5, <2>1 DEF Reached, Pong
    <3>2. InStep'
      BY <1>5, <2>1, PongInStep DEF TestInv
    <3>3. QED
      BY <1>1, <1>5, <3>1, <3>2 DEF TestInv
  <2>2. CASE ~Reached(pings, TRUE) /\ got' = TRUE /\ UNCHANGED <<pings, sent>>
    <3>1. ~Reached(pings, got)'
      BY <1>5, <2>2 DEF Reached
    <3>2. InStep'
      BY <1>5, <2>2, FrameInStep DEF TestInv
    <3>3. QED
      BY <1>1, <1>5, <3>1, <3>2 DEF TestInv
  <2>3. CASE UNCHANGED <<pings, sent, got>>
    BY <1>1, <1>5, <2>3, UncountedTests
  <2>4. QED
    BY <1>5, <2>1, <2>2, <2>3 DEF Handle
<1>6. QED
  BY <1>2, <1>3, <1>4, <1>5 DEF ControlReadable, SendingFails, SendLost

\* Every step keeps it.
LEMMA StepTests == IndInv /\ TestInv /\ [Next]_vars => TestInv'
<1> SUFFICES ASSUME IndInv, TestInv, [Next]_vars PROVE TestInv'
  OBVIOUS
<1>1. CASE Return(1) \/ Killed
  BY <1>1, LostTests
<1>2. CASE /\ ~Return(1) /\ ~Killed
           /\ Start \/ SendPing \/ Select \/ ListenerReadable \/ StreamReadable
  <2>1. Running /\ UNCHANGED <<opt, pings, sent, got, rc>>
    BY <1>2 DEF Start, SendPing, SendLost, Select, ListenerReadable, StreamReadable, Running,
                Done
  <2>2. QED
    BY <2>1, UncountedTests
<1>3. CASE ControlReadable
  BY <1>3, MessagesTests
<1>4. CASE Environment \/ UNCHANGED vars
  <2>1. UNCHANGED <<opt, pings, sent, got, pc, rc>>
    BY <1>4 DEF Environment, NodeSays, TargetSays, PeerTurns, DirectCall, program, vars
  <2>2. QED
    BY <2>1, UncountedTests
<1>5. QED
  BY <1>1, <1>2, <1>3, <1>4 DEF Next, LoopStep, Returned

\* For any combination of link-test options: a session ends as soon as its
\* counts are reached, and ends well only when they are and its frames are sent.
THEOREM TestsEndRight == Spec => []TestsEndOnTime
<1>1. IndInv /\ TestInv => TestsEndOnTime
  <2> SUFFICES ASSUME IndInv, TestInv PROVE TestsEndOnTime
    OBVIOUS
  <2>1. opt.pings \in Nat /\ opt.frames \in Nat /\ pings \in Nat /\ sent \in Nat
    BY Numbers
  <2>2. ASSUME Reached(pings, got) PROVE \A n \in Asked : sent >= n
    <3>1. opt.pings > 0 /\ pings >= opt.pings
      BY <2>2 DEF Reached
    <3>2. CASE opt.each
      <4>1. sent >= opt.frames \/ sent >= pings
        BY <3>2 DEF TestInv, InStep
      <4>2. Asked = First({opt.frames, opt.pings})
        BY <3>2 DEF Asked
      <4>3. \A n \in Asked : n \in Nat /\ n <= opt.frames /\ n <= opt.pings
        BY <2>1, <4>2 DEF First
      <4>4. QED
        BY <2>1, <3>1, <4>1, <4>3
    <3>3. CASE ~opt.each
      <4>1. Asked = {opt.frames} /\ sent = opt.frames
        BY <2>1, <3>1, <3>3 DEF Asked, TestInv, InStep
      <4>2. QED
        BY <2>1, <4>1
    <3>4. QED
      BY <3>2, <3>3
  <2>3. rc = 0 => \/ Reached(pings, got) /\ \A n \in Asked : sent >= n
                  \/ opt.pings = 0 /\ pings > 0 /\ ~opt.expect
    BY <2>2 DEF TestInv, EndsWell
  <2>4. QED
    BY <2>3 DEF TestInv, TestsEndOnTime
<1>2. Spec => [](IndInv /\ TestInv)
  BY InitInv, StepInv, InitTests, StepTests, PTL DEF Spec
<1>3. QED
  BY <1>1, <1>2, PTL

===============================================================================
