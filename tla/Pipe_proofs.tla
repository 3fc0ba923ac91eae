----------------------------- MODULE Pipe_proofs -----------------------------
(***************************************************************************)
(* The control loop implements two pipes for each SOCKS stream, one each   *)
(* way, for any number of streams, slots, descriptors and units: initial   *)
(* states map to initial states, and each step to a step of Pipe or to a   *)
(* stutter, in both directions at once.                                    *)
(***************************************************************************)
EXTENDS ControlLoop_proofs

USE ControlLoopAssumption

-----------------------------------------------------------------------------
(* The invariant *)

Waiting == ctl.in
Has(m) == \E k \in DOMAIN Waiting : Waiting[k] = m

\* Of two messages about one stream, which may come behind which.
Before(a, b) ==
    /\ b.type # "OPEN"
    /\ a.type \in {"FIN", "CLOSE"} => b.type # "DATA"
    /\ a.type = "DATA" /\ b.type = "DATA" => a.n < b.n
Ordered ==
    \A j, k \in DOMAIN Waiting :
       j < k /\ Waiting[j].id \in Ids /\ Waiting[j].id = Waiting[k].id
          => Before(Waiting[j], Waiting[k])

\* The node has not heard of the stream.
Unopened(i) == endT[i] = "open" /\ endA[i] = "open" /\ toTarget[i] = <<>> /\ ~Held(i)

\* What a message that waits says about the stream it names.
Means(m) ==
    m.id \in Ids =>
       /\ m.type \in {"OPEN", "DATA", "FIN", "CLOSE"}
       /\ nodeEnd[m.id] # "idle"
       /\ m.type = "OPEN" => Unopened(m.id) /\ m = Msg("OPEN", m.id, 0)
       /\ m.type = "DATA" => /\ m = Msg("DATA", m.id, m.n)
                             /\ Len(toTarget[m.id]) < m.n /\ m.n <= nA[m.id]
       /\ m.type \in {"FIN", "CLOSE"} => nodeEnd[m.id] \in {"fin", "cut"}
Meant == \A k \in DOMAIN Waiting : Means(Waiting[k])

\* What A has written and the target has not got is on its way.
NothingLost ==
    \A i \in Ids :
       /\ Len(toTarget[i]) <= nA[i]
       /\ endT[i] = "open" => \A u \in Nat : Len(toTarget[i]) < u /\ u <= nA[i]
                                               => Has(Msg("DATA", i, u))

\* A stream whose pipe from A is open waits to be opened or has a slot that
\* takes data; a slot is in the state its pipes are in.
Taker(i) == \E s \in Active : slots[s].id = i /\ ~slots[s].cfin
Answerable ==
    /\ \A i \in Ids : IF nodeEnd[i] = "idle" THEN Unopened(i)
                      ELSE endT[i] = "open" => Has(Msg("OPEN", i, 0)) \/ Taker(i)
    /\ \A s \in Active : /\ ~slots[s].cfin => endT[slots[s].id] = "open"
                         /\ ~slots[s].tfin => endA[slots[s].id] = "open"

\* What a target has written was passed on or waits, in order.
FromTargets ==
    \A i \in Ids : /\ Len(toA[i]) + Len(conn[i].in) = nT[i]
                   /\ \A k \in DOMAIN conn[i].in : conn[i].in[k] = <<i, Len(toA[i]) + k>>

\* A stream whose target has finished is not looked at again.
Unread ==
    \A s \in Active : IsSet(slots[s].fd, ready) /\ (pc = "streams" => next <= s)
                        => ~slots[s].tfin

Queued == Ordered /\ Meant /\ NothingLost /\ Answerable
FlowInv == Running => Queued /\ FromTargets /\ Unread

PipesStep == [FromA!Next]_FromA!vars /\ [FromTarget!Next]_FromTarget!vars

-----------------------------------------------------------------------------
(* Queues *)

\* Taking the head of a queue: the others move up by one.
LEMMA HeadAndTail ==
    ASSUME NEW S, NEW b \in Seq(S), b # <<>>
    PROVE  /\ Head(b) = b[1] /\ 1 \in DOMAIN b /\ Len(Tail(b)) = Len(b) - 1
           /\ \A k \in DOMAIN Tail(b) : /\ k \in Nat /\ 1 < k + 1
                                        /\ k + 1 \in DOMAIN b /\ Tail(b)[k] = b[k + 1]
           /\ \A j \in DOMAIN b : j = 1 \/ (j - 1 \in DOMAIN Tail(b) /\ Tail(b)[j - 1] = b[j])
<1>1. Head(b) = b[1] /\ 1 \in DOMAIN b
  OBVIOUS
<1>2. Tail(b) \in Seq(S) /\ Len(Tail(b)) = Len(b) - 1
  OBVIOUS
<1>3. \A k \in DOMAIN Tail(b) : k \in Nat /\ k # 0 /\ k <= Len(b) - 1
  BY <1>2
<1>4. \A k \in DOMAIN Tail(b) : 1 < k + 1 /\ k + 1 \in DOMAIN b
  BY <1>3
<1>5. \A k \in DOMAIN Tail(b) : Tail(b)[k] = b[k + 1]
  OBVIOUS
<1>6. \A j \in DOMAIN b : j = 1 \/ (j - 1 \in DOMAIN Tail(b) /\ Tail(b)[j - 1] = b[j])
  <2> SUFFICES ASSUME NEW j \in DOMAIN b, j # 1
               PROVE  j - 1 \in DOMAIN Tail(b) /\ Tail(b)[j - 1] = b[j]
    OBVIOUS
  <2>1. j \in Nat /\ j - 1 \in Nat /\ 1 <= j - 1 /\ j - 1 <= Len(b) - 1
    OBVIOUS
  <2>2. j - 1 \in DOMAIN Tail(b)
    BY <1>2, <2>1
  <2>3. Tail(b)[j - 1] = b[(j - 1) + 1] /\ (j - 1) + 1 = j
    BY <1>5, <2>1, <2>2
  <2>4. QED
    BY <2>2, <2>3
<1>7. QED
  BY <1>1, <1>2, <1>3, <1>4, <1>5, <1>6

\* Adding to a queue: the others stay where they are.
LEMMA AddedBehind ==
    ASSUME NEW S, NEW b \in Seq(S), NEW x \in S
    PROVE  /\ Len(Append(b, x)) = Len(b) + 1
           /\ DOMAIN Append(b, x) = DOMAIN b \cup {Len(b) + 1}
           /\ Append(b, x)[Len(b) + 1] = x
           /\ \A k \in DOMAIN b : /\ Append(b, x)[k] = b[k] /\ k \in Nat /\ k < Len(b) + 1
OBVIOUS

\* The oldest message goes; those behind it about the same stream are such as
\* may come behind it.
LEMMA NextMessage ==
    ASSUME IndInv, Ordered, Meant, ctl.in # <<>>,
           NEW c \in {Taken(ctl), Reported(Taken(ctl))}, conn' = [conn EXCEPT !["ctl"] = c]
    PROVE  /\ Head(ctl.in) \in Proper /\ Means(Head(ctl.in)) /\ Has(Head(ctl.in))
           /\ Ordered'
           /\ \A k \in DOMAIN Waiting' :
                 /\ Means(Waiting'[k])
                 /\ Head(ctl.in).id \in Ids /\ Waiting'[k].id = Head(ctl.in).id
                      => Before(Head(ctl.in), Waiting'[k])
           /\ \A x : Has(x) /\ x # Head(ctl.in) => \E k \in DOMAIN Waiting' : Waiting'[k] = x
           /\ \A i \in Ids : conn'[i] = conn[i]
<1> DEFINE m == Head(ctl.in)
<1>1. ctl \in Connections(Proper) /\ ctl.in \in Seq(Proper)
  BY DEF ctl, IndInv, Typed, ConnOK, Connections
<1>2. conn = [x \in Ids \cup {"ctl"} |-> conn[x]] /\ "ctl" \notin Ids
  BY DEF IndInv, Typed, ConnOK
<1>3. conn'["ctl"] = c /\ \A i \in Ids : conn'[i] = conn[i]
  BY <1>2
<1>4. Waiting' = Tail(ctl.in)
  <2>1. Taken(ctl) \in Connections(Proper) /\ Taken(ctl).in = Tail(ctl.in)
    BY <1>1, TakenTyped DEF Taken, Connections
  <2>2. c.in = Tail(ctl.in)
    BY <2>1, ReportedTyped
  <2>3. QED
    BY <1>3, <2>2 DEF Waiting, ctl
<1>5. m \in Proper
  BY <1>1, TakenTyped
<1>6. /\ m = ctl.in[1] /\ 1 \in DOMAIN ctl.in
      /\ \A k \in DOMAIN Waiting' : /\ k \in Nat /\ 1 < k + 1 /\ k + 1 \in DOMAIN ctl.in
                                    /\ Waiting'[k] = ctl.in[k + 1]
      /\ \A j \in DOMAIN ctl.in : j = 1 \/ (j - 1 \in DOMAIN Waiting' /\ Waiting'[j - 1] = ctl.in[j])
  BY <1>1, <1>4, HeadAndTail
<1> HIDE DEF m
<1>7. Means(m) /\ Has(m)
  BY <1>6 DEF Meant, Waiting, Has
<1>8. Ordered'
  <2> SUFFICES ASSUME NEW j \in DOMAIN Waiting', NEW k \in DOMAIN Waiting', j < k,
                      Waiting'[j].id \in Ids, Waiting'[j].id = Waiting'[k].id
               PROVE  Before(Waiting'[j], Waiting'[k])
    BY DEF Ordered, Before
  <2>1. j + 1 < k + 1
    BY <1>6
  <2>2. QED
    BY <1>6, <2>1 DEF Ordered, Waiting
<1>9. \A k \in DOMAIN Waiting' : /\ Means(Waiting'[k])
                                 /\ m.id \in Ids /\ Waiting'[k].id = m.id => Before(m, Waiting'[k])
  BY <1>6 DEF Meant, Ordered, Waiting
<1>10. \A x : Has(x) /\ x # m => \E k \in DOMAIN Waiting' : Waiting'[k] = x
  BY <1>6 DEF Has, Waiting
<1>11. QED
  BY <1>3, <1>5, <1>7, <1>8, <1>9, <1>10 DEF m

\* NTAP-A adds a message; those before it are such as it may come behind.
LEMMA MessageAdded ==
    ASSUME IndInv, Ordered, NEW m \in Proper, Says(m),
           \A k \in DOMAIN Waiting : m.id \in Ids /\ Waiting[k].id = m.id => Before(Waiting[k], m)
    PROVE  /\ Ordered'
           /\ \A k \in DOMAIN Waiting' : Waiting'[k] = m \/ \E j \in DOMAIN Waiting : Waiting'[k] = Waiting[j]
           /\ \A x : Has(x) \/ x = m => \E k \in DOMAIN Waiting' : Waiting'[k] = x
           /\ \A i \in Ids : conn'[i] = conn[i]
<1>1. ctl \in Connections(Proper) /\ ctl.in \in Seq(Proper)
  BY DEF ctl, IndInv, Typed, ConnOK, Connections
<1>2. conn = [x \in Ids \cup {"ctl"} |-> conn[x]] /\ "ctl" \notin Ids
  BY DEF IndInv, Typed, ConnOK
<1>3. PICK d \in Arrivals(ctl, {m}, MaxQueue) : conn' = [conn EXCEPT !["ctl"] = d]
  BY DEF Says
<1>4. conn'["ctl"] = d /\ \A i \in Ids : conn'[i] = conn[i]
  BY <1>2, <1>3
<1>5. d = [ctl EXCEPT !.in = Append(@, m), !.part = FALSE]
  BY <1>3 DEF Arrivals
<1>6. Waiting' = Append(ctl.in, m)
  BY <1>1, <1>4, <1>5 DEF Waiting, ctl, Connections
<1>7. /\ DOMAIN Waiting' = DOMAIN Waiting \cup {Len(Waiting) + 1}
      /\ Waiting'[Len(Waiting) + 1] = m
      /\ \A k \in DOMAIN Waiting : Waiting'[k] = Waiting[k] /\ k \in Nat /\ k < Len(Waiting) + 1
  BY <1>1, <1>6, AddedBehind DEF Waiting
<1>8. Len(Waiting) + 1 \in Nat
  BY <1>1 DEF Waiting
<1>9. Ordered'
  <2> SUFFICES ASSUME NEW j \in DOMAIN Waiting', NEW k \in DOMAIN Waiting', j < k,
                      Waiting'[j].id \in Ids, Waiting'[j].id = Waiting'[k].id
               PROVE  Before(Waiting'[j], Waiting'[k])
    BY DEF Ordered, Before
  <2>1. j \in DOMAIN Waiting
    BY <1>7, <1>8
  <2>2. CASE k \in DOMAIN Waiting
    BY <1>7, <2>1, <2>2 DEF Ordered
  <2>3. CASE k = Len(Waiting) + 1
    BY <1>7, <2>1, <2>3
  <2>4. QED
    BY <1>7, <2>2, <2>3
<1>10. QED
  BY <1>4, <1>7, <1>9 DEF Has

-----------------------------------------------------------------------------
(* Steps of the pipes *)

\* Nothing the pipes know of changes.
LEMMA StutterStep ==
    ASSUME UNCHANGED <<nA, nT, nodeEnd, ghosts>>, \A i \in Ids : conn'[i].life = conn[i].life
    PROVE  PipesStep
<1>1. UNCHANGED FromA!vars
  BY DEF FromA!vars, ghosts
<1>2. UNCHANGED FromTarget!vars
  BY DEF FromTarget!vars, ghosts
<1>3. QED
  BY <1>1, <1>2 DEF PipesStep

\* Cutting streams cuts both their pipes.
LEMMA CutStep ==
    ASSUME NEW S \in SUBSET Ids, endT' = Cut(endT, S), endA' = Cut(endA, S),
           UNCHANGED <<nA, nT, nodeEnd, toTarget, toA>>,
           \A i \in Ids : conn'[i].life = conn[i].life
    PROVE  PipesStep
<1>1. FromA!Cut(S)
  BY DEF FromA!Cut, Cut
<1>2. FromTarget!Cut(S)
  BY DEF FromTarget!Cut, Cut
<1>3. QED
  BY <1>1, <1>2 DEF PipesStep, FromA!Next, FromTarget!Next

\* Every way out of the loop cuts what is still open.
LEMMA LeavingPipes ==
    ASSUME NEW code, Return(code) \/ Killed \/ Leave(code)
    PROVE  FlowInv' /\ PipesStep
<1>1. /\ ~Running' /\ endT' = Cut(endT, Ids) /\ endA' = Cut(endA, Ids)
      /\ UNCHANGED <<nA, nT, nodeEnd, toTarget, toA, conn>>
  BY DEF Return, Killed, Leave, Finish, Running, Done, peers
<1>2. PipesStep
  BY <1>1, CutStep
<1>3. QED
  BY <1>1, <1>2 DEF FlowInv

\* Steps that touch neither the queue, nor a slot, nor a pipe from A.
LEMMA QuietQueued ==
    ASSUME Queued, UNCHANGED <<slots, nA, nodeEnd, toTarget, endT, endA>>,
           conn'["ctl"].in = conn["ctl"].in
    PROVE  Queued'
<1>1. Waiting' = Waiting
  BY DEF Waiting, ctl
<1>2. Active' = Active /\ \A i \in Ids : Held(i)' = Held(i) /\ Taker(i)' = Taker(i)
  BY DEF Active, Held, Taker
<1>3. \A i \in Ids : Unopened(i)' = Unopened(i)
  BY <1>2 DEF Unopened
<1>4. Ordered'
  BY <1>1 DEF Queued, Ordered, Before
<1>5. Meant'
  BY <1>1, <1>3 DEF Queued, Meant, Means
<1>6. NothingLost'
  BY <1>1 DEF Queued, NothingLost, Has
<1>7. Answerable'
  BY <1>1, <1>2, <1>3 DEF Queued, Answerable, Has
<1>8. QED
  BY <1>4, <1>5, <1>6, <1>7 DEF Queued

\* Steps that move no message or unit and touch no slot.
LEMMA QuietFlow ==
    ASSUME FlowInv, Running, UNCHANGED <<slots, nA, nT, nodeEnd, ghosts>>,
           \A x \in Ids \cup {"ctl"} : conn'[x].in = conn[x].in
    PROVE  Queued' /\ FromTargets'
<1>1. Queued'
  BY QuietQueued DEF FlowInv, ghosts
<1>2. FromTargets'
  BY DEF FlowInv, FromTargets, ghosts
<1>3. QED
  BY <1>1, <1>2

\* Back at select() nothing is set.
LEMMA ContinueUnread == ASSUME ready' = {} PROVE Unread'
BY DEF Unread, IsSet

\* The initial states: nothing written, nothing read.
LEMMA InitFlow == Init => FlowInv /\ FromA!Init /\ FromTarget!Init
<1> SUFFICES ASSUME Init PROVE FlowInv /\ FromA!Init /\ FromTarget!Init
  OBVIOUS
<1>1. Active = {} /\ Waiting = <<>> /\ ready = {}
  BY DEF Init, Active, Idle, Waiting, ctl, Fresh
<1>2. \A i \in Ids : /\ Unopened(i) /\ nodeEnd[i] = "idle" /\ nA[i] = 0 /\ nT[i] = 0
                     /\ toTarget[i] = <<>> /\ toA[i] = <<>> /\ conn[i] = Fresh
  BY <1>1 DEF Init, Unopened, Held
<1>3. Ordered /\ Meant
  BY <1>1 DEF Ordered, Meant
<1>4. NothingLost
  BY <1>2 DEF NothingLost
<1>5. Answerable
  BY <1>1, <1>2 DEF Answerable
<1>6. FromTargets
  <2>1. \A i \in Ids : conn[i].in = <<>>
    BY <1>2 DEF Fresh
  <2>2. \A i \in Ids : Len(toA[i]) = 0 /\ Len(conn[i].in) = 0 /\ DOMAIN conn[i].in = {}
    BY <1>2, <2>1
  <2>3. \A i \in Ids : Len(toA[i]) + Len(conn[i].in) = nT[i]
    <3> SUFFICES ASSUME NEW i \in Ids PROVE Len(toA[i]) + Len(conn[i].in) = nT[i]
      OBVIOUS
    <3>1. Len(toA[i]) = 0 /\ Len(conn[i].in) = 0 /\ nT[i] = 0
      BY <1>2, <2>2
    <3>2. QED
      BY <3>1, 0 + 0 = 0
  <2>4. QED
    BY <2>2, <2>3 DEF FromTargets
<1>7. Unread
  BY <1>1 DEF Unread
<1>8. FromA!Init
  <2>1. [i \in Ids |-> nodeEnd[i] \in {"fin", "cut"}] = [i \in Ids |-> FALSE]
    <3>1. \A i \in Ids : nodeEnd[i] \notin {"fin", "cut"}
      BY <1>2
    <3>2. \A i \in Ids : (nodeEnd[i] \in {"fin", "cut"}) = FALSE
      <4> SUFFICES ASSUME NEW i \in Ids PROVE (nodeEnd[i] \in {"fin", "cut"}) = FALSE
        OBVIOUS
      <4>1. nodeEnd[i] \notin {"fin", "cut"}
        BY <3>1
      <4> DEFINE b == nodeEnd[i] \in {"fin", "cut"}
      <4>2. b \in BOOLEAN /\ ~b
        BY <4>1
      <4> HIDE DEF b
      <4>3. b = FALSE
        BY <4>2
      <4>4. QED
        BY <4>3 DEF b
    <3>3. QED
      BY <3>2, Zenon
  <2>2. QED
    BY <2>1 DEF Init, FromA!Init
<1>9. FromTarget!Init
  <2>1. \A i \in Ids : conn[i].life = "up"
    BY <1>2 DEF Fresh
  <2>2. [i \in Ids |-> conn[i].life # "up"] = [i \in Ids |-> FALSE]
    BY <2>1, Zenon
  <2>3. QED
    BY <2>2 DEF Init, FromTarget!Init
<1>10. QED
  BY <1>3, <1>4, <1>5, <1>6, <1>7, <1>8, <1>9 DEF FlowInv, Queued

\* PINGs, select(), the listener and the link tests move no unit.
LEMMA StartFlow == IndInv /\ FlowInv /\ Start => FlowInv' /\ PipesStep
<1> SUFFICES ASSUME IndInv, FlowInv, Start PROVE FlowInv' /\ PipesStep
  OBVIOUS
<1>1. CASE Return(1)
  BY <1>1, LeavingPipes
<1>2. CASE ~Return(1)
  <2>1. Running /\ ready' = {} /\ UNCHANGED <<slots, conn, peers, ghosts>>
    BY <1>2 DEF Start, Running, Done, IndInv, Fed
  <2>2. Queued' /\ FromTargets' /\ Unread' /\ PipesStep
    BY <2>1, QuietFlow, StutterStep, ContinueUnread DEF peers
  <2>3. QED
    BY <2>2 DEF FlowInv
<1>3. QED
  BY <1>1, <1>2

\* A PING is no stream's.
LEMMA SendPingFlow == IndInv /\ FlowInv /\ SendPing => FlowInv' /\ PipesStep
<1> SUFFICES ASSUME IndInv, FlowInv, SendPing PROVE FlowInv' /\ PipesStep
  OBVIOUS
<1>1. CASE Return(1) \/ Killed
  BY <1>1, LeavingPipes
<1>2. CASE ~(Return(1) \/ Killed)
  <2>1. Running /\ ready' = {} /\ UNCHANGED <<slots, conn, nA, nT, nodeEnd, ghosts>>
    BY <1>2 DEF SendPing, SendLost, Running, Done, IndInv, Fed
  <2>2. Queued' /\ FromTargets' /\ Unread' /\ PipesStep
    BY <2>1, QuietFlow, StutterStep, ContinueUnread
  <2>3. QED
    BY <2>2 DEF FlowInv
<1>3. QED
  BY <1>1, <1>2

\* What select() sets is watched, and a finished target is not.
LEMMA SelectFlow == IndInv /\ FlowInv /\ Select => FlowInv' /\ PipesStep
<1> SUFFICES ASSUME IndInv, FlowInv, Select PROVE FlowInv' /\ PipesStep
  OBVIOUS
<1>1. CASE Return(1)
  BY <1>1, LeavingPipes
<1>2. CASE ~Return(1)
  <2>1. /\ pc = "select" /\ Running /\ UNCHANGED <<slots, conn, peers, ghosts>>
        /\ IF Selected = {} THEN pc' = "ping" /\ next' = 0 /\ ready' = {}
                            ELSE ToControl(slots, Selected)
    BY <1>2 DEF Select, Running, Done
  <2>2. Queued' /\ FromTargets' /\ PipesStep
    BY <2>1, QuietFlow, StutterStep DEF peers
  <2>3. \A s \in Active : IsSet(slots[s].fd, Selected) => ~slots[s].tfin
    <3> SUFFICES ASSUME NEW s \in Active, IsSet(slots[s].fd, Selected), slots[s].tfin
                 PROVE  FALSE
      OBVIOUS
    <3>1. slots[s].fd \in Watched
      BY DEF IsSet, Selected
    <3>2. slots[s].fd # CtlFd /\ slots[s].fd # lisFd
      BY <2>1, SlotsDiffer
    <3>3. PICK j \in Active : ~slots[j].tfin /\ slots[j].fd = slots[s].fd
      BY <3>1, <3>2 DEF Watched
    <3>4. j = s
      BY <2>1, <3>3, SlotsDiffer
    <3>5. QED
      BY <3>3, <3>4
  <2>4. ready' = {} \/ ready' = Selected
    BY <2>1, ToControlLands DEF Lands
  <2>5. Unread'
    BY <2>1, <2>3, <2>4, ContinueUnread DEF Unread, IsSet, Active
  <2>6. QED
    BY <2>2, <2>5 DEF FlowInv
<1>3. QED
  BY <1>1, <1>2

\* A caller of the listener is no stream.
LEMMA ListenerReadableFlow == IndInv /\ FlowInv /\ ListenerReadable => FlowInv' /\ PipesStep
<1> SUFFICES ASSUME IndInv, FlowInv, ListenerReadable PROVE FlowInv' /\ PipesStep
  OBVIOUS
<1>1. CASE Return(1)
  BY <1>1, LeavingPipes
<1>2. CASE ~Return(1)
  <2>1. Running /\ ready' = {} /\ UNCHANGED <<slots, conn, nA, nT, nodeEnd, ghosts>>
    BY <1>2 DEF ListenerReadable, Continue, Running, Done
  <2>2. Queued' /\ FromTargets' /\ Unread' /\ PipesStep
    BY <2>1, QuietFlow, StutterStep, ContinueUnread
  <2>3. QED
    BY <2>2 DEF FlowInv
<1>3. QED
  BY <1>1, <1>2

-----------------------------------------------------------------------------
(* Messages from NTAP-A *)

\* What is common to the handling of each message: the oldest one is taken.
HandledNext ==
    /\ IndInv /\ FlowInv /\ pc = "ctl" /\ pc' = "select"
    /\ ctl.in # <<>>
    /\ \E c \in {Taken(ctl), Reported(Taken(ctl))} : conn' = [conn EXCEPT !["ctl"] = c]
    /\ UNCHANGED <<nA, nT, nodeEnd>>

\* The oldest message is taken: what that means for the queue, and that it
\* means nothing for the targets.
LEMMA NextTaken ==
    ASSUME HandledNext
    PROVE  /\ Queued /\ Running /\ Ordered' /\ Means(Head(ctl.in)) /\ Has(Head(ctl.in))
           /\ Head(ctl.in) \in Proper
           /\ \A k \in DOMAIN Waiting' :
                 /\ Means(Waiting'[k])
                 /\ Head(ctl.in).id \in Ids /\ Waiting'[k].id = Head(ctl.in).id
                      => Before(Head(ctl.in), Waiting'[k])
           /\ \A x : Has(x) /\ x # Head(ctl.in) => \E k \in DOMAIN Waiting' : Waiting'[k] = x
           /\ \A i \in Ids : conn'[i] = conn[i]
           /\ UNCHANGED toA => FromTargets'
<1>1. Queued /\ FromTargets /\ Running
  BY DEF HandledNext, FlowInv, Running, Done
<1>2. PICK c \in {Taken(ctl), Reported(Taken(ctl))} : conn' = [conn EXCEPT !["ctl"] = c]
  BY DEF HandledNext
<1>3. IndInv /\ Ordered /\ Meant /\ ctl.in # <<>>
  BY <1>1 DEF HandledNext, Queued
<1>4. \A i \in Ids : conn'[i] = conn[i]
  BY <1>2, <1>3, NextMessage
<1>5. UNCHANGED toA => FromTargets'
  <2>1. nT' = nT
    BY DEF HandledNext
  <2>2. QED
    BY <1>1, <1>4, <2>1 DEF FromTargets
<1>6. /\ Head(ctl.in) \in Proper /\ Means(Head(ctl.in)) /\ Has(Head(ctl.in)) /\ Ordered'
      /\ \A k \in DOMAIN Waiting' :
            /\ Means(Waiting'[k])
            /\ Head(ctl.in).id \in Ids /\ Waiting'[k].id = Head(ctl.in).id
                 => Before(Head(ctl.in), Waiting'[k])
      /\ \A x : Has(x) /\ x # Head(ctl.in) => \E k \in DOMAIN Waiting' : Waiting'[k] = x
  BY <1>2, <1>3, NextMessage, Zenon
<1>7. QED
  BY <1>1, <1>4, <1>5, <1>6, Zenon

\* Messages about no stream.
LEMMA OtherMessageFlow ==
    ASSUME HandledNext, Head(ctl.in).id \notin Ids, UNCHANGED <<slots, ghosts>>
    PROVE  Queued' /\ FromTargets' /\ PipesStep
<1> DEFINE m == Head(ctl.in)
<1>1. /\ Queued /\ Ordered' /\ \A k \in DOMAIN Waiting' : Means(Waiting'[k])
      /\ \A x : Has(x) /\ x # m => \E k \in DOMAIN Waiting' : Waiting'[k] = x
      /\ \A i \in Ids : conn'[i] = conn[i]
      /\ FromTargets'
  BY NextTaken DEF ghosts
<1>2. Active' = Active /\ \A i \in Ids : Held(i)' = Held(i) /\ Taker(i)' = Taker(i)
  BY DEF Active, Held, Taker
<1>3. \A i \in Ids : Unopened(i)' = Unopened(i)
  BY <1>2 DEF Unopened, ghosts
<1>4. \A i \in Ids, u \in Nat : Msg("DATA", i, u) # m /\ Msg("OPEN", i, 0) # m
  BY DEF Msg
<1> HIDE DEF m
<1>5. Meant'
  BY <1>1, <1>3 DEF Meant, Means, ghosts, HandledNext
<1>6. NothingLost'
  BY <1>1, <1>4, SMTT(30) DEF Queued, NothingLost, Has, ghosts, HandledNext
<1>7. Answerable'
  <2>1. 0 \in Nat
    OBVIOUS
  <2>2. \A i \in Ids : Has(Msg("OPEN", i, 0)) => Has(Msg("OPEN", i, 0))'
    BY <1>1, <1>4, <2>1 DEF Has
  <2>3. QED
    BY <1>1, <1>2, <1>3, <2>2 DEF Queued, Answerable, ghosts, HandledNext
<1>8. PipesStep
  BY <1>1, StutterStep DEF HandledNext
<1>9. QED
  BY <1>1, <1>5, <1>6, <1>7, <1>8 DEF Queued

\* A message other than OPEN, about a stream whose pipe from A is open, finds
\* the slot that takes data.
LEMMA OpenHasTaker ==
    ASSUME HandledNext, NEW id \in Ids, Head(ctl.in).id = id, Head(ctl.in).type # "OPEN",
           endT[id] = "open"
    PROVE  Taker(id)
<1> DEFINE m == Head(ctl.in)
<1>1. /\ Queued /\ Means(m)
      /\ \A k \in DOMAIN Waiting' : Waiting'[k].id = id => Before(m, Waiting'[k])
      /\ \A x : Has(x) /\ x # m => \E k \in DOMAIN Waiting' : Waiting'[k] = x
  BY NextTaken
<1>2. Msg("OPEN", id, 0) # m /\ Msg("OPEN", id, 0).id = id /\ Msg("OPEN", id, 0).type = "OPEN"
  BY DEF Msg
<1> HIDE DEF m
<1>3. ~Has(Msg("OPEN", id, 0))
  BY <1>1, <1>2 DEF Before
<1>4. nodeEnd[id] # "idle"
  BY <1>1, HandledNext DEF Means, m
<1>5. QED
  BY <1>1, <1>3, <1>4 DEF Queued, Answerable

\* FIN and CLOSE come behind the last unit.
LEMMA EndIsLast ==
    ASSUME HandledNext, NEW id \in Ids, Head(ctl.in).id = id,
           Head(ctl.in).type \in {"FIN", "CLOSE"}, endT[id] = "open"
    PROVE  Len(toTarget[id]) = nA[id]
<1> DEFINE m == Head(ctl.in)
           u == Len(toTarget[id]) + 1
<1>1. /\ Queued /\ Means(m)
      /\ \A k \in DOMAIN Waiting' : Waiting'[k].id = id => Before(m, Waiting'[k])
      /\ \A x : Has(x) /\ x # m => \E k \in DOMAIN Waiting' : Waiting'[k] = x
  BY NextTaken
<1>2. Len(toTarget[id]) \in Nat /\ nA[id] \in Nat /\ Len(toTarget[id]) <= nA[id]
  BY <1>1 DEF HandledNext, IndInv, Typed, GhostsOK, PeersOK, Queued, NothingLost
<1>3. Msg("DATA", id, u) # m /\ Msg("DATA", id, u).id = id /\ Msg("DATA", id, u).type = "DATA"
  BY DEF Msg
<1>4. m.type \in {"FIN", "CLOSE"}
  OBVIOUS
<1> HIDE DEF m
<1>5. ~Has(Msg("DATA", id, u))
  BY <1>1, <1>3, <1>4 DEF Before
<1>6. u \in Nat /\ Len(toTarget[id]) < u
  BY <1>2
<1>7. ~(u <= nA[id])
  BY <1>1, <1>5, <1>6 DEF Queued, NothingLost
<1>8. QED
  BY <1>2, <1>7

\* The oldest message leaves the pipe from A ended: whatever becomes of the
\* stream's slot, what waits behind it will find no slot that takes data.
LEMMA EndedQueued ==
    ASSUME HandledNext, NEW id \in Ids, Head(ctl.in).id = id,
           endT'[id] # "open", toTarget' = toTarget,
           \A j \in Ids \ {id} : endT'[j] = endT[j] /\ endA'[j] = endA[j],
           Active' \subseteq Active,
           \A s \in Active : slots[s].id # id => s \in Active' /\ slots'[s] = slots[s],
           \A s \in Active' : /\ slots'[s].id = slots[s].id
                              /\ slots'[s].id = id => /\ slots'[s].cfin
                                                      /\ ~slots'[s].tfin => endA'[id] = "open"
    PROVE  Queued'
<1> DEFINE m == Head(ctl.in)
<1>1. /\ Queued /\ Means(m) /\ Ordered' /\ Running
      /\ \A k \in DOMAIN Waiting' :
            Means(Waiting'[k]) /\ (Waiting'[k].id = id => Before(m, Waiting'[k]))
      /\ \A x : Has(x) /\ x # m => \E k \in DOMAIN Waiting' : Waiting'[k] = x
  BY NextTaken
<1>2. m.id = id /\ UNCHANGED <<nA, nodeEnd, toTarget>>
  BY DEF HandledNext
<1>3. \A j \in Ids \ {id}, u \in Nat : /\ Msg("DATA", j, u) # m
                                       /\ Msg("OPEN", j, 0) # m
  BY <1>2 DEF Msg
<1> HIDE DEF m
<1>4. nodeEnd[id] # "idle"
  BY <1>1, <1>2 DEF Means
<1>5. \A j \in Ids \ {id} : /\ Held(j)' = Held(j) /\ Taker(j)' = Taker(j)
                            /\ Unopened(j)' = Unopened(j)
  <2> SUFFICES ASSUME NEW j \in Ids \ {id}
               PROVE  Held(j)' = Held(j) /\ Taker(j)' = Taker(j) /\ Unopened(j)' = Unopened(j)
    OBVIOUS
  <2>1. Held(j)' <=> Held(j)
    BY DEF Held
  <2>2. Taker(j)' <=> Taker(j)
    BY DEF Taker
  <2>3. Unopened(j)' <=> Unopened(j)
    BY <2>1 DEF Unopened
  <2>4. QED
    BY <2>1, <2>2, <2>3 DEF Held, Taker, Unopened
<1>6. \A k \in DOMAIN Waiting' : Waiting'[k].id = id => Waiting'[k].type # "OPEN"
  BY <1>1 DEF Before
<1>7. Meant'
  BY <1>1, <1>2, <1>5, <1>6 DEF Meant, Means
<1>8. NothingLost'
  <2>1. ASSUME NEW j \in Ids \ {id}, endT'[j] = "open", NEW u \in Nat,
               Len(toTarget[j]) < u, u <= nA[j]
        PROVE  Has(Msg("DATA", j, u))'
    <3>1. Has(Msg("DATA", j, u)) /\ Msg("DATA", j, u) # m
      BY <1>1, <1>3, <2>1 DEF Queued, NothingLost
    <3>2. QED
      BY <1>1, <3>1 DEF Has
  <2>2. \A i \in Ids : Len(toTarget[i]) <= nA[i]
    BY <1>1 DEF Queued, NothingLost
  <2>3. QED
    BY <1>2, <2>1, <2>2 DEF NothingLost
<1>9. \A i \in Ids : IF nodeEnd'[i] = "idle" THEN Unopened(i)'
                     ELSE endT'[i] = "open" => Has(Msg("OPEN", i, 0))' \/ Taker(i)'
  <2>1. 0 \in Nat
    OBVIOUS
  <2>2. \A i \in Ids \ {id} : Has(Msg("OPEN", i, 0)) => Has(Msg("OPEN", i, 0))'
    BY <1>1, <1>3, <2>1 DEF Has
  <2>3. QED
    BY <1>1, <1>2, <1>4, <1>5, <2>2 DEF Queued, Answerable
<1>10. \A s \in Active' : /\ ~slots'[s].cfin => endT'[slots'[s].id] = "open"
                          /\ ~slots'[s].tfin => endA'[slots'[s].id] = "open"
  <2> SUFFICES ASSUME NEW s \in Active'
               PROVE  /\ ~slots'[s].cfin => endT'[slots'[s].id] = "open"
                      /\ ~slots'[s].tfin => endA'[slots'[s].id] = "open"
    OBVIOUS
  <2>1. s \in Active /\ slots[s].id \in Ids
    BY <1>1, SlotsDiffer DEF HandledNext
  <2>2. CASE slots[s].id = id
    BY <2>2
  <2>3. CASE slots[s].id # id
    BY <1>1, <2>1, <2>3 DEF Queued, Answerable
  <2>4. QED
    BY <2>2, <2>3
<1>11. Answerable'
  BY <1>9, <1>10 DEF Answerable
<1>12. QED
  BY <1>1, <1>7, <1>8, <1>11 DEF Queued

\* OPEN that is refused: both pipes are cut.
LEMMA RefusedFlow ==
    ASSUME HandledNext, NEW id \in Ids, Head(ctl.in).id = id, Find(id) = {},
           endT' = Cut(endT, {id}), endA' = Cut(endA, {id}), UNCHANGED <<slots, toTarget, toA>>
    PROVE  Queued' /\ FromTargets' /\ PipesStep
<1>1. \A i \in Ids : conn'[i] = conn[i]
  BY NextTaken
<1>2. /\ endT'[id] # "open"
      /\ \A j \in Ids \ {id} : endT'[j] = endT[j] /\ endA'[j] = endA[j]
  BY DEF Cut
<1>3. Active' = Active /\ \A s \in Active : slots[s].id # id
  BY DEF Active, Find
<1>4. Queued'
  BY <1>2, <1>3, EndedQueued
<1>5. FromTargets'
  BY NextTaken
<1>6. PipesStep
  BY <1>1, CutStep DEF HandledNext
<1>7. QED
  BY <1>4, <1>5, <1>6

\* OPEN that succeeds: the stream has a slot, and its pipes stay open.
LEMMA AcceptedFlow ==
    ASSUME HandledNext, NEW id \in Ids, Head(ctl.in).id = id, Head(ctl.in).type = "OPEN",
           NEW s \in Slots, s \notin Active, NEW new,
           slots' = [slots EXCEPT ![s] = new],
           new.id = id, new.fd # NoFd, ~new.cfin, ~new.tfin, UNCHANGED ghosts
    PROVE  Queued' /\ FromTargets' /\ PipesStep
<1> DEFINE m == Head(ctl.in)
<1>1. /\ Queued /\ Means(m) /\ Ordered' /\ Running
      /\ \A k \in DOMAIN Waiting' :
            Means(Waiting'[k]) /\ (Waiting'[k].id = id => Before(m, Waiting'[k]))
      /\ \A x : Has(x) /\ x # m => \E k \in DOMAIN Waiting' : Waiting'[k] = x
      /\ \A i \in Ids : conn'[i] = conn[i]
      /\ FromTargets'
  BY NextTaken DEF ghosts
<1>2. m.id = id /\ m.type = "OPEN" /\ UNCHANGED <<nA, nodeEnd>>
  BY DEF HandledNext
<1>3. \A j \in Ids, u \in Nat : Msg("DATA", j, u) # m /\ (j # id => Msg("OPEN", j, 0) # m)
  BY <1>2 DEF Msg
<1> HIDE DEF m
<1>4. nodeEnd[id] # "idle" /\ Unopened(id)
  BY <1>1, <1>2 DEF Means
<1>5. /\ Active' = Active \cup {s} /\ slots'[s] = new
      /\ \A t \in Active : slots'[t] = slots[t]
  <2>1. slots \in [Slots -> SlotType]
    BY DEF HandledNext, IndInv, Typed, ProgramOK
  <2>2. QED
    BY <2>1 DEF Active
<1>6. \A j \in Ids \ {id} : /\ Held(j)' <=> Held(j)
                            /\ Taker(j)' <=> Taker(j)
                            /\ Unopened(j)' <=> Unopened(j)
  <2> SUFFICES ASSUME NEW j \in Ids \ {id}
               PROVE  (Held(j)' <=> Held(j)) /\ (Taker(j)' <=> Taker(j))
                      /\ (Unopened(j)' <=> Unopened(j))
    OBVIOUS
  <2>1. Held(j)' <=> Held(j)
    BY <1>5 DEF Held
  <2>2. Taker(j)' <=> Taker(j)
    BY <1>5 DEF Taker
  <2>3. Unopened(j)' <=> Unopened(j)
    BY <2>1 DEF Unopened, ghosts
  <2>4. QED
    BY <2>1, <2>2, <2>3
<1>7. \A k \in DOMAIN Waiting' : Waiting'[k].id = id => Waiting'[k].type # "OPEN"
  BY <1>1 DEF Before
<1>8. Meant'
  BY <1>1, <1>2, <1>6, <1>7 DEF Meant, Means, ghosts
<1>9. NothingLost'
  <2>1. ASSUME NEW j \in Ids, endT[j] = "open", NEW u \in Nat,
               Len(toTarget[j]) < u, u <= nA[j]
        PROVE  Has(Msg("DATA", j, u))'
    <3>1. Has(Msg("DATA", j, u)) /\ Msg("DATA", j, u) # m
      BY <1>1, <1>3, <2>1 DEF Queued, NothingLost
    <3>2. QED
      BY <1>1, <3>1 DEF Has
  <2>2. \A i \in Ids : Len(toTarget[i]) <= nA[i]
    BY <1>1 DEF Queued, NothingLost
  <2>3. QED
    BY <1>2, <2>1, <2>2 DEF NothingLost, ghosts
<1>10. \A i \in Ids : IF nodeEnd'[i] = "idle" THEN Unopened(i)'
                      ELSE endT'[i] = "open" => Has(Msg("OPEN", i, 0))' \/ Taker(i)'
  <2>1. 0 \in Nat
    OBVIOUS
  <2>2. \A i \in Ids \ {id} : Has(Msg("OPEN", i, 0)) => Has(Msg("OPEN", i, 0))'
    BY <1>1, <1>3, <2>1 DEF Has
  <2>3. Taker(id)'
    BY <1>5 DEF Taker
  <2>4. QED
    BY <1>1, <1>2, <1>4, <1>6, <2>2, <2>3 DEF Queued, Answerable, ghosts
<1>11. \A t \in Active' : /\ ~slots'[t].cfin => endT'[slots'[t].id] = "open"
                          /\ ~slots'[t].tfin => endA'[slots'[t].id] = "open"
  BY <1>1, <1>4, <1>5 DEF Queued, Answerable, Unopened, ghosts
<1>12. Answerable'
  BY <1>10, <1>11 DEF Answerable
<1>13. PipesStep
  BY <1>1, StutterStep DEF HandledNext
<1>14. QED
  BY <1>1, <1>8, <1>9, <1>12, <1>13 DEF Queued

\* DATA for a stream that takes it: the next unit of its pipe.
LEMMA UnitReadFlow ==
    ASSUME HandledNext, NEW id \in Ids, Head(ctl.in).id = id, Head(ctl.in).type = "DATA",
           endT[id] = "open", Taker(id),
           toTarget' = [toTarget EXCEPT ![id] = Append(@, <<id, Head(ctl.in).n>>)],
           UNCHANGED <<slots, endT, toA, endA>>
    PROVE  Queued' /\ FromTargets' /\ PipesStep
<1> DEFINE m == Head(ctl.in)
           u0 == Len(toTarget[id]) + 1
<1>1. /\ Queued /\ Means(m) /\ Ordered' /\ Running
      /\ \A k \in DOMAIN Waiting' :
            Means(Waiting'[k]) /\ (Waiting'[k].id = id => Before(m, Waiting'[k]))
      /\ \A x : Has(x) /\ x # m => \E k \in DOMAIN Waiting' : Waiting'[k] = x
      /\ \A i \in Ids : conn'[i] = conn[i]
      /\ FromTargets' /\ m \in Proper
  BY NextTaken
<1>2. m.id = id /\ m.type = "DATA" /\ UNCHANGED <<nA, nodeEnd>>
      /\ toTarget' = [toTarget EXCEPT ![id] = Append(@, <<id, m.n>>)]
  BY DEF HandledNext
<1> HIDE DEF m
<1>3. m.n \in Nat /\ Len(toTarget[id]) < m.n /\ m.n <= nA[id] /\ nodeEnd[id] # "idle"
      /\ m = Msg("DATA", id, m.n)
  BY <1>1, <1>2 DEF Means, Proper
<1>4. toTarget \in [Ids -> Seq(Units)] /\ nA \in [Ids -> 0 .. MaxUnits]
      /\ toTarget[id] \in Seq(Units) /\ Len(toTarget[id]) \in Nat /\ nA[id] \in Nat
  BY DEF HandledNext, IndInv, Typed, GhostsOK, PeersOK
<1>5. m.n = u0
  <2> SUFFICES ASSUME m.n # u0 PROVE FALSE
    OBVIOUS
  <2>1. u0 \in Nat /\ u0 < m.n /\ Len(toTarget[id]) < u0 /\ u0 <= nA[id]
    BY <1>3, <1>4
  <2>2. Has(Msg("DATA", id, u0))
    BY <1>1, <2>1 DEF Queued, NothingLost
  <2>3. /\ Msg("DATA", id, u0) # m /\ Msg("DATA", id, u0).id = id
        /\ Msg("DATA", id, u0).type = "DATA" /\ Msg("DATA", id, u0).n = u0
    <3>1. Msg("DATA", id, u0).n = u0
      BY DEF Msg
    <3>2. QED
      BY <3>1 DEF Msg
  <2>4. m.n < u0
    BY <1>1, <1>2, <2>2, <2>3 DEF Before
  <2>5. QED
    BY <1>3, <2>1, <2>4
<1>6. /\ \A j \in Ids \ {id} : toTarget'[j] = toTarget[j]
      /\ Len(toTarget'[id]) = m.n
  <2>1. toTarget'[id] = Append(toTarget[id], <<id, m.n>>)
    BY <1>2, <1>4
  <2>2. Len(Append(toTarget[id], <<id, m.n>>)) = Len(toTarget[id]) + 1
    BY <1>4
  <2>3. QED
    BY <1>2, <1>4, <1>5, <2>1, <2>2
<1>7. \A j \in Ids : Held(j)' = Held(j) /\ Taker(j)' = Taker(j)
  BY DEF Active, Held, Taker
<1>8. \A j \in Ids \ {id} : Unopened(j)' = Unopened(j)
  BY <1>6, <1>7 DEF Unopened
<1>9. Meant'
  <2> SUFFICES ASSUME NEW k \in DOMAIN Waiting' PROVE Means(Waiting[k])'
    BY DEF Meant
  <2> DEFINE w == Waiting'[k]
  <2>1. Means(w) /\ (w.id = id => Before(m, w))
    BY <1>1
  <2> HIDE DEF w
  <2>2. CASE w.id = id
    <3>1. w.type # "OPEN" /\ (w.type = "DATA" => m.n < w.n)
      BY <1>2, <2>1, <2>2 DEF Before
    <3>2. QED
      BY <1>2, <1>6, <2>1, <2>2, <3>1 DEF Means, w
  <2>3. CASE w.id # id
    BY <1>2, <1>6, <1>8, <2>1, <2>3 DEF Means, w
  <2>4. QED
    BY <2>2, <2>3
<1>10. NothingLost'
  <2>1. ASSUME NEW j \in Ids, endT[j] = "open", NEW u \in Nat,
               Len(toTarget'[j]) < u, u <= nA[j]
        PROVE  Has(Msg("DATA", j, u))'
    <3>1. Len(toTarget[j]) < u /\ (j = id => u # m.n)
      BY <1>3, <1>4, <1>6, <2>1
    <3>2. Has(Msg("DATA", j, u))
      BY <1>1, <2>1, <3>1 DEF Queued, NothingLost
    <3>3. Msg("DATA", j, u).id = j /\ Msg("DATA", j, u).n = u
      BY DEF Msg
    <3>4. Msg("DATA", j, u) # m
      BY <1>2, <3>1, <3>3
    <3>5. QED
      BY <1>1, <3>2, <3>4 DEF Has
  <2>2. \A i \in Ids : Len(toTarget'[i]) <= nA[i]
    BY <1>1, <1>3, <1>6 DEF Queued, NothingLost
  <2>3. QED
    BY <1>2, <2>1, <2>2 DEF NothingLost
<1>11. \A i \in Ids : IF nodeEnd'[i] = "idle" THEN Unopened(i)'
                      ELSE endT'[i] = "open" => Has(Msg("OPEN", i, 0))' \/ Taker(i)'
  <2>1. \A i \in Ids : Msg("OPEN", i, 0) # m
    BY <1>2 DEF Msg
  <2>2. \A i \in Ids : Has(Msg("OPEN", i, 0)) => Has(Msg("OPEN", i, 0))'
    BY <1>1, <2>1 DEF Has
  <2>3. QED
    BY <1>1, <1>2, <1>3, <1>7, <1>8, <2>2 DEF Queued, Answerable
<1>12. Answerable'
  BY <1>1, <1>11 DEF Queued, Answerable, Active
<1>13. FromA!Read(id)
  <2>1. toTarget' = [toTarget EXCEPT ![id] = Append(@, <<id, Len(@) + 1>>)]
    BY <1>2, <1>4, <1>5
  <2>2. Len(toTarget[id]) < nA[id]
    BY <1>3, <1>4
  <2>3. QED
    BY <1>2, <2>1, <2>2 DEF FromA!Read
<1>14. UNCHANGED FromTarget!vars
  BY <1>1 DEF FromTarget!vars, HandledNext
<1>15. PipesStep
  BY <1>13, <1>14 DEF PipesStep, FromA!Next
<1>16. QED
  BY <1>1, <1>9, <1>10, <1>12, <1>15 DEF Queued

\* DATA: passed on when the stream has a slot that takes it; else its pipe is
\* no longer open, and the data is dropped.
LEMMA DataFlow ==
    ASSUME HandledNext, NEW id \in Ids, Head(ctl.in).id = id, Head(ctl.in).type = "DATA",
           SendData(Head(ctl.in))
    PROVE  Queued' /\ FromTargets' /\ PipesStep
<1> DEFINE m == Head(ctl.in)
<1>1. /\ toTarget' = [x \in Ids |-> IF \E i \in Takers(id) : Target(i) = x
                                    THEN Append(toTarget[x], <<id, m.n>>) ELSE toTarget[x]]
      /\ UNCHANGED <<slots, file, endT, toA, endA>>
  BY DEF SendData
<1>2. Running /\ Queued
  BY NextTaken
<1>3. \A i \in Takers(id) : Target(i) = id
  BY <1>2, SlotsDiffer DEF Takers, Find, HandledNext
<1>4. toTarget \in [Ids -> Seq(Units)]
  BY DEF HandledNext, IndInv, Typed, GhostsOK
<1>5. CASE Takers(id) # {}
  <2>1. Taker(id) /\ endT[id] = "open"
    BY <1>2, <1>5 DEF Taker, Takers, Find, Queued, Answerable
  <2>2. toTarget' = [toTarget EXCEPT ![id] = Append(@, <<id, m.n>>)]
    BY <1>1, <1>3, <1>4, <1>5
  <2>3. QED
    BY <1>1, <2>1, <2>2, UnitReadFlow
<1>6. CASE Takers(id) = {}
  <2>1. toTarget' = toTarget
    BY <1>1, <1>4, <1>6
  <2>2. ~Taker(id)
    BY <1>6 DEF Taker, Takers, Find
  <2>3. endT[id] # "open"
    BY <2>2, OpenHasTaker
  <2>4. Active' = Active /\ \A s \in Active : slots[s].id = id => slots[s].cfin
    BY <1>1, <2>2 DEF Active, Taker
  <2>5. Queued'
    BY <1>1, <1>2, <2>1, <2>3, <2>4, EndedQueued DEF Queued, Answerable
  <2>6. \A i \in Ids : conn'[i] = conn[i]
    BY NextTaken
  <2>7. PipesStep
    BY <1>1, <2>1, <2>6, StutterStep DEF HandledNext, ghosts
  <2>8. FromTargets'
    BY <1>1, NextTaken
  <2>9. QED
    BY <2>5, <2>7, <2>8
<1>7. QED
  BY <1>5, <1>6

\* FIN: the target sees the end behind the last unit.
LEMMA FinFlow ==
    ASSUME HandledNext, NEW id \in Ids, Head(ctl.in).id = id, Head(ctl.in).type = "FIN",
           ClientFin(id)
    PROVE  Queued' /\ FromTargets' /\ PipesStep
<1>1. /\ slots' = [i \in Slots |-> IF i \in {j \in Find(id) : slots[j].tfin} THEN Idle
                                   ELSE IF i \in Find(id) THEN [slots[i] EXCEPT !.cfin = TRUE]
                                   ELSE slots[i]]
      /\ endT' = [x \in Ids |-> IF endT[x] = "open" /\ \E i \in Find(id) : Target(i) = x
                                THEN "fin" ELSE endT[x]]
      /\ UNCHANGED <<toTarget, toA, endA>>
  BY DEF ClientFin
<1>2. Running /\ Queued /\ Means(Head(ctl.in))
  BY NextTaken
<1>3. \A i \in Find(id) : Target(i) = id
  BY <1>2, SlotsDiffer DEF Find, HandledNext
<1>4. endT[id] = "open" => Find(id) # {}
  BY OpenHasTaker DEF Taker, Find
<1>5. endT'[id] # "open" /\ \A j \in Ids \ {id} : endT'[j] = endT[j]
  BY <1>1, <1>3, <1>4
<1>6. /\ Active' \subseteq Active
      /\ \A s \in Active : slots[s].id # id => s \in Active' /\ slots'[s] = slots[s]
  BY <1>1 DEF Active, Find, Idle
<1>7. \A s \in Active' : /\ slots'[s].id = slots[s].id
                         /\ slots'[s].id = id => /\ slots'[s].cfin
                                                 /\ ~slots'[s].tfin => endA'[id] = "open"
  <2> SUFFICES ASSUME NEW s \in Active'
               PROVE  /\ slots'[s].id = slots[s].id
                      /\ slots'[s].id = id => /\ slots'[s].cfin
                                              /\ ~slots'[s].tfin => endA'[id] = "open"
    OBVIOUS
  <2>1. s \in Active /\ s \in Slots /\ ~(s \in Find(id) /\ slots[s].tfin)
    BY <1>1, <1>6 DEF Active, Idle
  <2>2. CASE s \notin Find(id)
    <3>1. slots'[s] = slots[s] /\ slots[s].id # id
      BY <1>1, <2>1, <2>2 DEF Find
    <3>2. QED
      BY <3>1
  <2>3. CASE s \in Find(id)
    <3>1. slots'[s] = [slots[s] EXCEPT !.cfin = TRUE] /\ slots[s] \in SlotType
      BY <1>1, <2>1, <2>3 DEF HandledNext, IndInv, Typed, ProgramOK
    <3>2. slots'[s].id = slots[s].id /\ slots'[s].cfin /\ slots'[s].tfin = slots[s].tfin
      BY <3>1 DEF SlotType
    <3>3. slots[s].id = id /\ ~slots[s].tfin
      BY <2>1, <2>3 DEF Find
    <3>4. QED
      BY <1>1, <1>2, <2>1, <3>2, <3>3 DEF Queued, Answerable
  <2>4. QED
    BY <2>2, <2>3
<1>8. Queued'
  BY <1>1, <1>5, <1>6, <1>7, EndedQueued
<1>9. \A i \in Ids : conn'[i] = conn[i]
  BY NextTaken
<1>10. FromTargets'
  BY <1>1, NextTaken
<1>11. PipesStep
  <2>1. CASE endT[id] # "open"
    <3>1. endT' = endT
      BY <1>1, <1>3, <2>1 DEF HandledNext, IndInv, Typed, GhostsOK
    <3>2. QED
      BY <1>1, <1>9, <3>1, StutterStep DEF HandledNext, ghosts
  <2>2. CASE endT[id] = "open"
    <3>1. Len(toTarget[id]) = nA[id] /\ nodeEnd[id] \in {"fin", "cut"}
      BY <1>2, <2>2, EndIsLast DEF Means
    <3>2. endT' = [endT EXCEPT ![id] = "fin"]
      BY <1>1, <1>3, <1>4, <2>2 DEF HandledNext, IndInv, Typed, GhostsOK
    <3>3. FromA!SeeEnd(id)
      BY <1>1, <2>2, <3>1, <3>2 DEF FromA!SeeEnd, HandledNext
    <3>4. UNCHANGED FromTarget!vars
      BY <1>1, <1>9 DEF FromTarget!vars, HandledNext
    <3>5. QED
      BY <3>3, <3>4 DEF PipesStep, FromA!Next
  <2>3. QED
    BY <2>1, <2>2
<1>12. QED
  BY <1>8, <1>10, <1>11

\* CLOSE: both pipes are cut.
LEMMA CloseFlow ==
    ASSUME HandledNext, NEW id \in Ids, Head(ctl.in).id = id, Head(ctl.in).type = "CLOSE",
           CloseStream(id)
    PROVE  Queued' /\ FromTargets' /\ PipesStep
<1> DEFINE S == {Target(i) : i \in Find(id)}
<1>1. /\ slots' = [i \in Slots |-> IF i \in Find(id) THEN Idle ELSE slots[i]]
      /\ endT' = Cut(endT, S) /\ endA' = Cut(endA, S)
      /\ UNCHANGED <<toTarget, toA>>
  BY DEF CloseStream
<1>2. Running
  BY NextTaken
<1>3. \A i \in Find(id) : Target(i) = id
  BY <1>2, SlotsDiffer DEF Find, HandledNext
<1>4. endT[id] = "open" => Find(id) # {}
  BY OpenHasTaker DEF Taker, Find
<1>5. S \subseteq {id} /\ (endT[id] = "open" => id \in S)
  BY <1>3, <1>4
<1> HIDE DEF S
<1>6. /\ endT'[id] # "open"
      /\ \A j \in Ids \ {id} : endT'[j] = endT[j] /\ endA'[j] = endA[j]
  BY <1>1, <1>5 DEF Cut
<1>7. /\ Active' \subseteq Active
      /\ \A s \in Active : slots[s].id # id => s \in Active' /\ slots'[s] = slots[s]
      /\ \A s \in Active' : slots'[s].id = slots[s].id /\ slots'[s].id # id
  BY <1>1 DEF Active, Find, Idle
<1>8. Queued'
  BY <1>1, <1>6, <1>7, EndedQueued
<1>9. \A i \in Ids : conn'[i] = conn[i]
  BY NextTaken
<1>10. PipesStep
  BY <1>1, <1>5, <1>9, CutStep DEF HandledNext
<1>11. FromTargets'
  BY <1>1, NextTaken
<1>12. QED
  BY <1>8, <1>10, <1>11

\* Whatever NTAP-A sends: the queue and both pipes stay right.
LEMMA ControlReadableFlow == IndInv /\ FlowInv /\ ControlReadable => FlowInv' /\ PipesStep
<1> SUFFICES ASSUME IndInv, FlowInv, ControlReadable PROVE FlowInv' /\ PipesStep
  OBVIOUS
<1> DEFINE m == Head(ctl.in)
<1>1. pc = "ctl" /\ RecvReturns(ctl)
  BY DEF ControlReadable
<1>2. CASE Return(1) \/ Return(0) \/ Killed \/ Leave(0)
  BY <1>2, LeavingPipes
<1>3. CASE /\ ~RecvFails(ctl) /\ Handle(m) /\ Continue
           /\ conn' = [conn EXCEPT !["ctl"] = Heard(m)]
           /\ UNCHANGED <<opt, rc, lisFd, peers>>
  <2>1. ctl.in # <<>>
    BY <1>1, <1>3 DEF RecvReturns, RecvFails
  <2>2. HandledNext
    <3>1. Heard(m) \in {Taken(ctl), Reported(Taken(ctl))}
      BY DEF Heard
    <3>2. QED
      BY <1>1, <1>3, <2>1, <3>1 DEF HandledNext, Continue, peers
  <2>3. m \in Proper /\ Means(m)
    BY <2>2, NextTaken
  <2>7. Queued' /\ FromTargets' /\ PipesStep
    <3>1. CASE m.type \in {"PONG", "TEST"} /\ UNCHANGED Tables
      <4>1. m.id \notin Ids
        BY <2>3, <3>1 DEF Means
      <4>2. QED
        BY <2>2, <3>1, <4>1, OtherMessageFlow DEF Tables
    <3>2. CASE m.type = "OPEN" /\ Find(m.id) = {} /\ OpenStream(m.id)
      <4>1. m.id \in Ids
        BY <2>3, <3>2 DEF Proper
      <4>2. CASE /\ endT' = Cut(endT, {m.id}) /\ endA' = Cut(endA, {m.id})
                 /\ UNCHANGED <<slots, file, toTarget, toA>>
        BY <2>2, <3>2, <4>1, <4>2, RefusedFlow
      <4>3. ASSUME NEW f \in FreshFds, NEW i \in First(Slots \ Active),
                   slots' = [slots EXCEPT ![i] = [Idle EXCEPT !.id = m.id, !.fd = f]],
                   UNCHANGED ghosts
            PROVE  Queued' /\ FromTargets' /\ PipesStep
        <5> DEFINE new == [Idle EXCEPT !.id = m.id, !.fd = f]
        <5>1. f # NoFd /\ i \in Slots /\ i \notin Active
          BY DEF FreshFds, First
        <5>2. new.id = m.id /\ new.fd # NoFd /\ ~new.cfin /\ ~new.tfin
          BY <5>1 DEF Idle
        <5>3. slots' = [slots EXCEPT ![i] = new]
          BY <4>3
        <5> HIDE DEF new
        <5>4. QED
          BY <2>2, <3>2, <4>1, <4>3, <5>1, <5>2, <5>3, AcceptedFlow
      <4>4. QED
        BY <3>2, <4>2, <4>3 DEF OpenStream, Refuse
    <3>3. CASE \/ m.type = "DATA" /\ SendData(m)
               \/ m.type = "FIN" /\ ClientFin(m.id)
               \/ m.type = "CLOSE" /\ CloseStream(m.id)
      <4>1. m.id \in Ids
        BY <2>3, <3>3 DEF Proper
      <4>2. QED
        BY <2>2, <3>3, <4>1, DataFlow, FinFlow, CloseFlow
    <3>4. QED
      BY <1>3, <3>1, <3>2, <3>3 DEF Handle
  <2>8. Unread'
    BY <1>3, ContinueUnread DEF Continue
  <2>9. QED
    BY <2>7, <2>8 DEF FlowInv
<1>4. QED
  BY <1>2, <1>3 DEF ControlReadable, SendingFails, SendLost, Complete

-----------------------------------------------------------------------------
(* The targets *)

\* Where a stream pass is, the slot is in use, its target has not finished and
\* its pipe to A is open.
LEMMA AtSlot ==
    ASSUME IndInv, FlowInv, pc = "streams"
    PROVE  /\ Running /\ Queued /\ FromTargets /\ Unread
           /\ next \in Active /\ next \in Slots /\ slots[next].id \in Ids
           /\ Target(next) = slots[next].id /\ ~slots[next].tfin
           /\ endA[slots[next].id] = "open"
<1>1. Running /\ next \in Active /\ next \in Slots /\ IsSet(slots[next].fd, ready)
  BY DEF Running, Done, IndInv, Fed, Active
<1>2. Queued /\ FromTargets /\ Unread
  BY <1>1 DEF FlowInv
<1>3. slots[next].id \in Ids /\ Target(next) = slots[next].id
  BY <1>1, SlotsDiffer
<1>4. next \in Nat /\ next <= next
  BY <1>1 DEF Slots
<1>5. ~slots[next].tfin
  BY <1>1, <1>2, <1>4 DEF Unread
<1>6. endA[slots[next].id] = "open"
  BY <1>1, <1>2, <1>5 DEF Queued, Answerable
<1>7. QED
  BY <1>1, <1>2, <1>3, <1>5, <1>6

\* The pass goes on behind the slot it has served.
LEMMA PassStaysUnread ==
    ASSUME IndInv, FlowInv, pc = "streams", Lands(next + 1, slots', ready),
           \A s \in Active' : /\ s \in Active /\ slots'[s].fd = slots[s].fd
                              /\ s # next => slots'[s] = slots[s]
    PROVE  Unread'
<1>1. CASE ready' = {}
  BY <1>1, ContinueUnread
<1>2. CASE pc' = "streams" /\ ready' = ready /\ next' \in Slots /\ next + 1 <= next'
  <2>1. next \in Slots /\ Unread
    BY AtSlot
  <2>2. \A s \in Active' : next' <= s => s # next /\ next <= s
    BY <1>2, <2>1 DEF Active, Slots
  <2>3. QED
    BY <1>2, <2>1, <2>2 DEF Unread, IsSet
<1>3. QED
  BY <1>1, <1>2 DEF Lands

\* Taking one unit from behind a count of units.
LEMMA OneMore ==
    ASSUME NEW a \in Nat, NEW b \in Nat, b # 0
    PROVE  (a + 1) + (b - 1) = a + b /\ a < a + b
OBVIOUS

\* Counting on from the unit that was passed on.
LEMMA CountOn ==
    ASSUME NEW a \in Nat, NEW b \in Nat
    PROVE  a + (b + 1) = (a + 1) + b /\ (a + b) + 1 = a + (b + 1)
OBVIOUS

\* Data from a target: the next unit of its pipe to A.
LEMMA ForwardDataFlow ==
    ASSUME IndInv, FlowInv, pc = "streams",
           ForwardData(slots[next].id, conn[Target(next)]),
           UNCHANGED <<opt, rc, lisFd, pings, sent, got, peers>>
    PROVE  FlowInv' /\ PipesStep
<1> DEFINE id == slots[next].id
           c == conn[id]
<1>1. /\ Running /\ Queued /\ FromTargets
      /\ id \in Ids /\ Target(next) = id /\ id # "ctl" /\ endA[id] = "open"
  BY AtSlot
<1>2. /\ c.in # <<>>
      /\ toA' = [toA EXCEPT ![id] = Append(@, Head(c.in))]
      /\ conn' = [conn EXCEPT ![id] = Taken(c)]
      /\ Lands(next + 1, slots', ready)
      /\ UNCHANGED <<slots, toTarget, endT, endA, nA, nT, nodeEnd>>
  BY <1>1, ToStreamsLands DEF ForwardData, peers
<1>3. c \in Connections(Units) /\ conn = [x \in Ids \cup {"ctl"} |-> conn[x]]
  BY <1>1 DEF IndInv, Typed, ConnOK
<1>4. /\ toA \in [Ids -> Seq(Units)] /\ toA[id] \in Seq(Units)
      /\ nT[id] \in Nat /\ c.in \in Seq(Units)
  BY <1>1, <1>3 DEF IndInv, Typed, GhostsOK, PeersOK, Connections
<1> HIDE DEF id, c
<1>5. \A x \in Ids \cup {"ctl"} : conn'[x] = IF x = id THEN Taken(c) ELSE conn[x]
  BY <1>1, <1>2, <1>3
<1>6. conn[id] = c /\ Taken(c).in = Tail(c.in) /\ Taken(c).life = c.life
  BY <1>3 DEF c, Taken, Connections
<1>7. /\ Len(toA[id]) + Len(c.in) = nT[id]
      /\ \A k \in DOMAIN c.in : c.in[k] = <<id, Len(toA[id]) + k>>
  BY <1>1, <1>6 DEF FromTargets
<1>8. /\ Head(c.in) = c.in[1] /\ 1 \in DOMAIN c.in /\ Len(Tail(c.in)) = Len(c.in) - 1
      /\ \A k \in DOMAIN Tail(c.in) : k \in Nat /\ k + 1 \in DOMAIN c.in /\ Tail(c.in)[k] = c.in[k + 1]
  BY <1>2, <1>4, HeadAndTail
<1>9. Head(c.in) = <<id, Len(toA[id]) + 1>>
  BY <1>7, <1>8
<1>10. Head(c.in) \in Units
  BY <1>2, <1>4
<1>11. toA'[id] = Append(toA[id], Head(c.in)) /\ Len(toA'[id]) = Len(toA[id]) + 1
       /\ \A i \in Ids : i # id => toA'[i] = toA[i]
  <2>1. toA'[id] = Append(toA[id], Head(c.in)) /\ \A i \in Ids : i # id => toA'[i] = toA[i]
    BY <1>1, <1>2, <1>4
  <2>2. Len(Append(toA[id], Head(c.in))) = Len(toA[id]) + 1
    BY <1>4, <1>10
  <2>3. QED
    BY <2>1, <2>2
<1>12. Len(toA[id]) \in Nat /\ Len(c.in) \in Nat /\ Len(c.in) # 0
  BY <1>2, <1>4
<1>13. FromTargets'
  <2> SUFFICES ASSUME NEW i \in Ids
               PROVE  /\ Len(toA'[i]) + Len(conn'[i].in) = nT'[i]
                      /\ \A k \in DOMAIN conn'[i].in : conn'[i].in[k] = <<i, Len(toA'[i]) + k>>
    BY DEF FromTargets
  <2>1. CASE i = id
    <3>1. conn'[i].in = Tail(c.in)
      BY <1>1, <1>5, <1>6, <2>1
    <3>2. Len(toA'[id]) + Len(Tail(c.in)) = nT'[id]
      <4>1. Len(toA'[id]) = Len(toA[id]) + 1 /\ Len(Tail(c.in)) = Len(c.in) - 1 /\ nT' = nT
            /\ Len(toA[id]) + Len(c.in) = nT[id]
        BY <1>2, <1>7, <1>8, <1>11
      <4>2. (Len(toA[id]) + 1) + (Len(c.in) - 1) = Len(toA[id]) + Len(c.in)
        BY <1>12, OneMore
      <4>3. QED
        BY <4>1, <4>2
    <3>3. ASSUME NEW k \in DOMAIN Tail(c.in)
          PROVE  Tail(c.in)[k] = <<id, Len(toA'[id]) + k>>
      <4>1. Tail(c.in)[k] = <<id, Len(toA[id]) + (k + 1)>> /\ k \in Nat
        BY <1>7, <1>8
      <4>2. Len(toA[id]) + (k + 1) = Len(toA'[id]) + k
        <5>1. Len(toA'[id]) = Len(toA[id]) + 1
          BY <1>11
        <5>2. Len(toA[id]) + (k + 1) = (Len(toA[id]) + 1) + k
          BY <1>12, <4>1, CountOn
        <5>3. QED
          BY <5>1, <5>2
      <4>3. QED
        BY <4>1, <4>2
    <3>4. QED
      BY <2>1, <3>1, <3>2, <3>3
  <2>2. CASE i # id
    <3>1. conn'[i] = conn[i] /\ toA'[i] = toA[i] /\ nT'[i] = nT[i]
      BY <1>1, <1>2, <1>5, <1>11, <2>2
    <3>2. /\ Len(toA[i]) + Len(conn[i].in) = nT[i]
          /\ \A k \in DOMAIN conn[i].in : conn[i].in[k] = <<i, Len(toA[i]) + k>>
      BY <1>1 DEF FromTargets
    <3>3. QED
      BY <3>1, <3>2, Zenon
  <2>3. QED
    BY <2>1, <2>2
<1>14. Queued'
  <2>1. conn'["ctl"].in = conn["ctl"].in
    BY <1>1, <1>5
  <2>2. QED
    BY <1>1, <1>2, <2>1, QuietQueued
<1>15. Unread'
  BY <1>2, PassStaysUnread DEF Active
<1>16. \A i \in Ids : conn'[i].life = conn[i].life
  BY <1>5, <1>6
<1>17. FromTarget!Read(id)
  <2>1. toA' = [toA EXCEPT ![id] = Append(@, <<id, Len(@) + 1>>)]
    BY <1>2, <1>4, <1>9
  <2>2. Len(toA[id]) < nT[id]
    <3>1. Len(toA[id]) + Len(c.in) = nT[id]
      BY <1>7
    <3>2. Len(toA[id]) < Len(toA[id]) + Len(c.in)
      BY <1>12, OneMore
    <3>3. QED
      BY <3>1, <3>2
  <2>3. QED
    BY <1>1, <1>2, <1>16, <2>1, <2>2 DEF FromTarget!Read
<1>18. UNCHANGED FromA!vars
  BY <1>2 DEF FromA!vars
<1>19. QED
  BY <1>1, <1>13, <1>14, <1>15, <1>17, <1>18 DEF FlowInv, PipesStep, FromTarget!Next

\* The end of a target: seen behind its last unit.
LEMMA ForwardFinFlow ==
    ASSUME IndInv, FlowInv, pc = "streams",
           ForwardFin(slots[next].id, conn[Target(next)]),
           UNCHANGED <<opt, rc, lisFd, pings, sent, got, peers>>
    PROVE  FlowInv' /\ PipesStep
<1> DEFINE id == slots[next].id
<1>1. /\ Running /\ Queued /\ FromTargets /\ next \in Active /\ next \in Slots
      /\ id \in Ids /\ Target(next) = id /\ endA[id] = "open" /\ ~slots[next].tfin
  BY AtSlot
<1>2. /\ RecvFails(conn[id])
      /\ endA' = [endA EXCEPT ![id] = "fin"]
      /\ slots' = [slots EXCEPT ![next] = IF @.cfin THEN Idle ELSE [@ EXCEPT !.tfin = TRUE]]
      /\ conn' = [conn EXCEPT ![id] = Reported(conn[id])]
      /\ Lands(next + 1, slots', ready)
      /\ UNCHANGED <<toTarget, endT, toA, nA, nT, nodeEnd>>
  BY <1>1, ToStreamsLands DEF ForwardFin, peers
<1>3. slots \in [Slots -> SlotType] /\ endA \in [Ids -> Ends]
  BY DEF IndInv, Typed, ProgramOK, GhostsOK
<1>4. /\ \A s \in Slots : s # next => slots'[s] = slots[s]
      /\ slots[next].cfin => slots'[next] = Idle
      /\ ~slots[next].cfin => /\ slots'[next].id = slots[next].id
                              /\ slots'[next].fd = slots[next].fd
                              /\ ~slots'[next].cfin /\ slots'[next].tfin
  <2>1. \A s \in Slots : s # next => slots'[s] = slots[s]
    BY <1>2, <1>3
  <2>2. slots[next].cfin => slots'[next] = Idle
    BY <1>1, <1>2, <1>3
  <2>3. ASSUME ~slots[next].cfin
        PROVE  /\ slots'[next].id = slots[next].id
               /\ slots'[next].fd = slots[next].fd
               /\ ~slots'[next].cfin /\ slots'[next].tfin
    <3>1. slots'[next] = [slots[next] EXCEPT !.tfin = TRUE] /\ slots[next] \in SlotType
      BY <1>1, <1>2, <1>3, <2>3
    <3>2. /\ slots'[next].id = slots[next].id
          /\ slots'[next].fd = slots[next].fd
          /\ slots'[next].cfin = slots[next].cfin /\ slots'[next].tfin
      BY <3>1 DEF SlotType
    <3>3. QED
      BY <2>3, <3>2
  <2>4. QED
    BY <2>1, <2>2, <2>3
<1> HIDE DEF id
<1>5. /\ \A s \in Active' : /\ s \in Active /\ slots'[s].fd = slots[s].fd
                            /\ slots'[s].id = slots[s].id
                            /\ slots'[s].cfin = slots[s].cfin
                            /\ s # next => slots'[s] = slots[s]
                            /\ s = next => slots'[s].tfin
      /\ \A s \in Active : ~slots[s].cfin => s \in Active'
  <2>1. \A s \in Active' : s # next => s \in Active /\ slots'[s] = slots[s]
    BY <1>4 DEF Active
  <2>2. next \in Active' => ~slots[next].cfin
    BY <1>4 DEF Active, Idle
  <2>3. next \in Active' => slots'[next].cfin = slots[next].cfin
    BY <1>2, <1>3, <2>2, <1>1 DEF SlotType
  <2>4. \A s \in Active : ~slots[s].cfin => s \in Active'
    BY <1>1, <1>4 DEF Active
  <2>5. QED
    BY <1>1, <1>4, <2>1, <2>2, <2>3, <2>4
<1>6. \A j \in Ids : /\ Held(j)' => Held(j)
                     /\ Taker(j) => Taker(j)'
                     /\ Unopened(j) => Unopened(j)'
  <2> SUFFICES ASSUME NEW j \in Ids
               PROVE  (Held(j)' => Held(j)) /\ (Taker(j) => Taker(j)')
                      /\ (Unopened(j) => Unopened(j)')
    OBVIOUS
  <2>1. Held(j)' => Held(j)
    BY <1>5 DEF Held
  <2>2. Taker(j) => Taker(j)'
    BY <1>5 DEF Taker
  <2>3. Unopened(j) => j # id
    BY <1>1 DEF Unopened, Held, id
  <2>4. Unopened(j) => Unopened(j)'
    BY <1>1, <1>2, <1>3, <2>1, <2>3 DEF Unopened
  <2>5. QED
    BY <2>1, <2>2, <2>4
<1>7. /\ Waiting' = Waiting
      /\ \A i \in Ids : conn'[i].in = conn[i].in /\ (conn'[i].life = "up" <=> conn[i].life = "up")
  <2>1. /\ conn = [x \in Ids \cup {"ctl"} |-> conn[x]] /\ "ctl" \notin Ids
        /\ conn[id] \in Connections(Units)
    BY <1>1 DEF IndInv, Typed, ConnOK
  <2>2. \A x \in Ids \cup {"ctl"} : conn'[x] = IF x = id THEN Reported(conn[id]) ELSE conn[x]
    BY <1>1, <1>2, <2>1
  <2>3. /\ Reported(conn[id]).in = conn[id].in
        /\ (Reported(conn[id]).life = "up" <=> conn[id].life = "up")
    BY <2>1, ReportedTyped
  <2>4. QED
    BY <1>1, <2>1, <2>2, <2>3 DEF Waiting, ctl
<1>8. Ordered' /\ NothingLost'
  BY <1>1, <1>2, <1>7 DEF Queued, Ordered, Before, NothingLost, Has
<1>9. Meant'
  BY <1>1, <1>2, <1>6, <1>7 DEF Queued, Meant, Means
<1>10. Answerable'
  <2>1. \A i \in Ids : IF nodeEnd'[i] = "idle" THEN Unopened(i)'
                       ELSE endT'[i] = "open" => Has(Msg("OPEN", i, 0))' \/ Taker(i)'
    BY <1>1, <1>2, <1>6, <1>7 DEF Queued, Answerable, Has
  <2>2. ASSUME NEW s \in Active'
        PROVE  /\ ~slots'[s].cfin => endT'[slots'[s].id] = "open"
               /\ ~slots'[s].tfin => endA'[slots'[s].id] = "open"
    <3>1. s \in Active /\ slots'[s].id = slots[s].id /\ slots'[s].cfin = slots[s].cfin
      BY <1>5
    <3>2. CASE s = next
      BY <1>1, <1>2, <1>5, <3>1, <3>2 DEF Queued, Answerable
    <3>3. CASE s # next
      <4>1. slots[s].id # id /\ slots[s].id \in Ids
        BY <1>1, <3>1, <3>3, SlotsDiffer DEF id
      <4>2. endA'[slots[s].id] = endA[slots[s].id]
        BY <1>2, <1>3, <4>1
      <4>3. slots'[s] = slots[s]
        BY <1>5, <3>3
      <4>4. QED
        BY <1>1, <1>2, <3>1, <4>2, <4>3 DEF Queued, Answerable
    <3>4. QED
      BY <3>2, <3>3
  <2>3. QED
    BY <2>1, <2>2 DEF Answerable
<1>11. FromTargets'
  <2> SUFFICES ASSUME NEW i \in Ids
               PROVE  /\ Len(toA'[i]) + Len(conn'[i].in) = nT'[i]
                      /\ \A k \in DOMAIN conn'[i].in :
                            conn'[i].in[k] = <<i, Len(toA'[i]) + k>>
    BY DEF FromTargets
  <2>1. conn'[i].in = conn[i].in /\ toA' = toA /\ nT' = nT
    BY <1>2, <1>7
  <2>2. /\ Len(toA[i]) + Len(conn[i].in) = nT[i]
        /\ \A k \in DOMAIN conn[i].in : conn[i].in[k] = <<i, Len(toA[i]) + k>>
    BY <1>1 DEF FromTargets
  <2>3. QED
    BY <2>1, <2>2
<1>12. Unread'
  BY <1>2, <1>5, PassStaysUnread
<1>13. FromTarget!SeeEnd(id)
  <2>1. conn[id].in = <<>> /\ conn[id].life # "up"
    BY <1>2 DEF RecvFails
  <2>2. toA[id] \in Seq(Units) /\ nT[id] \in Nat
    BY <1>1 DEF IndInv, Typed, GhostsOK, PeersOK
  <2>3. Len(conn[id].in) = 0
    BY <2>1
  <2>4. Len(toA[id]) = nT[id]
    <3>1. Len(toA[id]) + Len(conn[id].in) = nT[id]
      BY <1>1 DEF FromTargets
    <3>2. Len(toA[id]) \in Nat
      BY <2>2
    <3>3. QED
      BY <2>2, <2>3, <3>1, <3>2
  <2>5. [i \in Ids |-> conn'[i].life # "up"] = [i \in Ids |-> conn[i].life # "up"]
    BY <1>7
  <2>6. QED
    BY <1>1, <1>2, <2>1, <2>4, <2>5 DEF FromTarget!SeeEnd
<1>14. UNCHANGED FromA!vars
  BY <1>2 DEF FromA!vars
<1>15. QED
  BY <1>1, <1>8, <1>9, <1>10, <1>11, <1>12, <1>13, <1>14
     DEF FlowInv, Queued, PipesStep, FromTarget!Next

\* Serving a target is a step of the pipes.
LEMMA StreamReadableFlow == IndInv /\ FlowInv /\ StreamReadable => FlowInv' /\ PipesStep
<1> SUFFICES ASSUME IndInv, FlowInv, StreamReadable PROVE FlowInv' /\ PipesStep
  OBVIOUS
<1>1. CASE Return(1) \/ Killed
  BY <1>1, LeavingPipes
<1>2. CASE ~(Return(1) \/ Killed)
  BY <1>2, ForwardDataFlow, ForwardFinFlow DEF StreamReadable, SendLost
<1>3. QED
  BY <1>1, <1>2

-----------------------------------------------------------------------------
(* The peers *)

\* The peers leave the program alone: what it has found stays as it is.
LEMMA StillUnread == ASSUME Unread, UNCHANGED program PROVE Unread'
BY DEF Unread, program, IsSet, Active

\* A table of what has ended, when one entry of it may have changed.
LEMMA EndedTable ==
    ASSUME NEW f \in [Ids -> BOOLEAN], NEW g \in [Ids -> BOOLEAN], NEW i \in Ids,
           \A j \in Ids : j # i => g[j] = f[j]
    PROVE  /\ g[i] = f[i] => g = f
           /\ g[i] => g = [f EXCEPT ![i] = TRUE]
<1>1. g[i] = f[i] => g = f
  <2> SUFFICES ASSUME g[i] = f[i] PROVE g = f
    OBVIOUS
  <2>1. \A j \in Ids : g[j] = f[j]
    OBVIOUS
  <2>2. QED
    BY <2>1
<1>2. g[i] => g = [f EXCEPT ![i] = TRUE]
  <2> SUFFICES ASSUME g[i] PROVE g = [f EXCEPT ![i] = TRUE]
    OBVIOUS
  <2>1. g[i] = TRUE
    BY Zenon
  <2>2. [f EXCEPT ![i] = TRUE] \in [Ids -> BOOLEAN] /\ [f EXCEPT ![i] = TRUE][i] = TRUE
        /\ \A j \in Ids : j # i => [f EXCEPT ![i] = TRUE][j] = f[j]
    OBVIOUS
  <2>3. \A j \in Ids : g[j] = [f EXCEPT ![i] = TRUE][j]
    BY <2>1, <2>2
  <2>4. QED
    BY <2>2, <2>3
<1>3. QED
  BY <1>1, <1>2

\* What NTAP-A does when it says something: it says of a stream what its own
\* end of it allows, or nothing of any.
Opens(m, i) == m = Msg("OPEN", i, 0) /\ nodeEnd[i] = "idle" /\ nodeEnd'[i] = "up"
                 /\ nA'[i] = nA[i]
Writes(m, i) == m = Msg("DATA", i, nA[i] + 1) /\ nodeEnd[i] = "up" /\ nodeEnd'[i] = "up"
                 /\ nA'[i] = nA[i] + 1
EndsIt(m, i) == /\ m = Msg("FIN", i, 0) \/ m = Msg("CLOSE", i, 0)
               /\ nodeEnd[i] \in {"up", "fin"} /\ nodeEnd'[i] \in {"fin", "cut"}
               /\ nA'[i] = nA[i]
Utters(m) ==
    /\ m \in Proper /\ Says(m)
    /\ \A j \in Ids : j # m.id => nodeEnd'[j] = nodeEnd[j] /\ nA'[j] = nA[j]
    /\ m.id \in Ids => Opens(m, m.id) \/ Writes(m, m.id) \/ EndsIt(m, m.id)

\* Every step of NTAP-A is one of these.
LEMMA NodeUtters ==
    ASSUME IndInv, NodeSays
    PROVE  \E m : Utters(m)
<1>1. nodeEnd \in [Ids -> {"idle", "up", "fin", "cut"}] /\ nA \in [Ids -> 0 .. MaxUnits]
  BY DEF IndInv, Typed, PeersOK
<1>2. "none" \notin Ids /\ MaxUnits \in Nat /\ 0 \in 0 .. MaxUnits
  OBVIOUS
<1>3. \A t \in {"PONG"} \cup Sends : Msg(t, "none", 0) \in Proper /\ Msg(t, "none", 0).id = "none"
  BY <1>2 DEF Msg, Proper, Messages
<1>4. \A i \in Ids, t \in {"OPEN", "FIN", "CLOSE"} : Msg(t, i, 0) \in Proper /\ Msg(t, i, 0).id = i
  BY <1>2 DEF Msg, Proper, Messages
<1>5. CASE \E t \in {"PONG"} \cup Sends : Says(Msg(t, "none", 0)) /\ UNCHANGED <<nodeEnd, nA>>
  <2>1. PICK t \in {"PONG"} \cup Sends : Says(Msg(t, "none", 0)) /\ UNCHANGED <<nodeEnd, nA>>
    BY <1>5
  <2>2. Utters(Msg(t, "none", 0))
    BY <1>2, <1>3, <2>1 DEF Utters
  <2>3. QED
    BY <2>2
<1>6. ASSUME NEW i \in Ids, nodeEnd[i] = "idle", Says(Msg("OPEN", i, 0)),
             nodeEnd' = [nodeEnd EXCEPT ![i] = "up"], UNCHANGED nA
      PROVE  Utters(Msg("OPEN", i, 0))
  BY <1>1, <1>4, <1>6 DEF Utters, Opens
<1>7. ASSUME NEW i \in Ids, nodeEnd[i] = "up", nA[i] < MaxUnits, Says(Msg("DATA", i, nA[i] + 1)),
             nA' = [nA EXCEPT ![i] = @ + 1], UNCHANGED nodeEnd
      PROVE  Utters(Msg("DATA", i, nA[i] + 1))
  <2>1. nA[i] + 1 \in 1 .. MaxUnits /\ nA[i] + 1 \in 0 .. MaxUnits
    BY <1>1, <1>2, <1>7
  <2>2. Msg("DATA", i, nA[i] + 1) \in Proper /\ Msg("DATA", i, nA[i] + 1).id = i
    BY <2>1 DEF Msg, Proper, Messages
  <2>3. nA'[i] = nA[i] + 1 /\ \A j \in Ids : j # i => nA'[j] = nA[j]
    BY <1>1, <1>7
  <2>4. QED
    BY <1>7, <2>2, <2>3 DEF Utters, Writes
<1>8. ASSUME NEW i \in Ids, NEW t \in {"FIN", "CLOSE"}, NEW e \in {"fin", "cut"},
             nodeEnd[i] \in {"up", "fin"}, Says(Msg(t, i, 0)),
             nodeEnd' = [nodeEnd EXCEPT ![i] = e], UNCHANGED nA
      PROVE  Utters(Msg(t, i, 0))
  BY <1>1, <1>4, <1>8 DEF Utters, EndsIt
<1>9. CASE \E i \in Ids : nodeEnd[i] = "idle" /\ Says(Msg("OPEN", i, 0))
              /\ nodeEnd' = [nodeEnd EXCEPT ![i] = "up"] /\ UNCHANGED nA
  BY <1>6, <1>9
<1>10. CASE \E i \in Ids : nodeEnd[i] = "up" /\ nA[i] < MaxUnits
              /\ Says(Msg("DATA", i, nA[i] + 1))
              /\ nA' = [nA EXCEPT ![i] = @ + 1] /\ UNCHANGED nodeEnd
  BY <1>7, <1>10
<1>11. CASE \E i \in Ids : \E t \in {"FIN", "CLOSE"}, e \in {"fin", "cut"} :
              nodeEnd[i] \in {"up", "fin"} /\ Says(Msg(t, i, 0))
              /\ nodeEnd' = [nodeEnd EXCEPT ![i] = e] /\ UNCHANGED nA
  BY <1>8, <1>11
<1>12. QED
  BY <1>5, <1>9, <1>10, <1>11 DEF NodeSays

\* What it says may come behind what waits, and means what it should.
LEMMA SaidInOrder ==
    ASSUME IndInv, Queued, NEW m, Utters(m), UNCHANGED <<program, ghosts>>
    PROVE  /\ \A k \in DOMAIN Waiting : m.id \in Ids /\ Waiting[k].id = m.id => Before(Waiting[k], m)
           /\ Means(m)'
           /\ \A x \in Proper : Means(x) /\ (x.id = m.id => m.type # "OPEN") => Means(x)'
<1>1. ctl \in Connections(Proper) /\ ctl.in \in Seq(Proper)
  BY DEF ctl, IndInv, Typed, ConnOK, Connections
<1>2. \A k \in DOMAIN Waiting : Waiting[k] \in Proper /\ Means(Waiting[k])
  BY <1>1 DEF Waiting, Queued, Meant
<1>3. /\ nodeEnd \in [Ids -> {"idle", "up", "fin", "cut"}] /\ nA \in [Ids -> 0 .. MaxUnits]
      /\ toTarget \in [Ids -> Seq(Units)]
  BY DEF IndInv, Typed, PeersOK, GhostsOK
<1>4. Active' = Active /\ \A i \in Ids : Unopened(i)' = Unopened(i)
  BY DEF program, ghosts, Active, Held, Unopened
<1>5. \A i \in Ids : nA[i] \in Nat /\ Len(toTarget[i]) \in Nat /\ Len(toTarget[i]) <= nA[i]
  BY <1>3 DEF Queued, NothingLost
<1>6. ASSUME NEW k \in DOMAIN Waiting, m.id \in Ids, Waiting[k].id = m.id
      PROVE  Before(Waiting[k], m)
  <2>1. Waiting[k] \in Proper /\ Means(Waiting[k]) /\ nodeEnd[m.id] # "idle"
    BY <1>2, <1>6 DEF Means
  <2>2. CASE Writes(m, m.id)
    <3>1. m.type = "DATA" /\ m.n = nA[m.id] + 1 /\ nodeEnd[m.id] = "up"
      BY <2>2 DEF Writes, Msg
    <3>2. Waiting[k].type \notin {"FIN", "CLOSE"}
      BY <1>6, <2>1, <3>1 DEF Means
    <3>3. Waiting[k].type = "DATA" => Waiting[k].n \in Nat /\ Waiting[k].n <= nA[m.id]
      BY <1>6, <2>1 DEF Means, Proper, Messages
    <3>4. Waiting[k].type = "DATA" => Waiting[k].n < m.n
      BY <1>5, <1>6, <3>1, <3>3
    <3>5. QED
      BY <3>1, <3>2, <3>4 DEF Before
  <2>3. CASE EndsIt(m, m.id)
    BY <2>3 DEF EndsIt, Before, Msg
  <2>4. CASE Opens(m, m.id)
    BY <2>1, <2>4 DEF Opens
  <2>5. QED
    BY <1>6, <2>2, <2>3, <2>4 DEF Utters
<1>7. Means(m)'
  <2> SUFFICES ASSUME m.id \in Ids PROVE Means(m)'
    BY DEF Means
  <2>1. CASE Opens(m, m.id)
    <3>1. Unopened(m.id)
      BY <2>1 DEF Opens, Queued, Answerable
    <3>2. m.type = "OPEN" /\ nodeEnd'[m.id] = "up"
      BY <2>1 DEF Opens, Msg
    <3>3. QED
      BY <1>4, <2>1, <3>1, <3>2 DEF Means, Opens
  <2>2. CASE Writes(m, m.id)
    <3>1. m.type = "DATA" /\ m.n = nA[m.id] + 1 /\ nodeEnd'[m.id] = "up"
          /\ nA'[m.id] = nA[m.id] + 1
      BY <2>2 DEF Writes, Msg
    <3>2. Len(toTarget'[m.id]) < m.n /\ m.n <= nA'[m.id]
      <4>1. toTarget' = toTarget
        BY DEF ghosts
      <4>2. Len(toTarget[m.id]) < nA[m.id] + 1 /\ nA[m.id] + 1 <= nA[m.id] + 1
        BY <1>5
      <4>3. QED
        BY <3>1, <4>1, <4>2
    <3>3. m = Msg("DATA", m.id, m.n)
      BY <2>2, <3>1 DEF Writes
    <3>4. QED
      BY <3>1, <3>2, <3>3 DEF Means
  <2>3. CASE EndsIt(m, m.id)
    <3>1. m.type \in {"FIN", "CLOSE"} /\ nodeEnd'[m.id] \in {"fin", "cut"}
      BY <2>3 DEF EndsIt, Msg
    <3>2. QED
      BY <3>1 DEF Means
  <2>4. QED
    BY <2>1, <2>2, <2>3 DEF Utters
<1>8. ASSUME NEW x \in Proper, Means(x), x.id = m.id => m.type # "OPEN"
      PROVE  Means(x)'
  <2> SUFFICES ASSUME x.id \in Ids PROVE Means(x)'
    BY DEF Means
  <2>1. CASE x.id # m.id
    <3>1. nodeEnd'[x.id] = nodeEnd[x.id] /\ nA'[x.id] = nA[x.id]
      BY <2>1 DEF Utters
    <3>2. QED
      BY <1>4, <1>8, <3>1 DEF Means, ghosts
  <2>2. CASE x.id = m.id
    <3>1. Writes(m, x.id) \/ EndsIt(m, x.id)
      BY <1>8, <2>2 DEF Utters, Opens, Msg
    <3>2. /\ nodeEnd'[x.id] # "idle" /\ nA[x.id] <= nA'[x.id] /\ nA'[x.id] \in Nat
          /\ nodeEnd[x.id] \in {"fin", "cut"} => nodeEnd'[x.id] \in {"fin", "cut"}
      <4>1. CASE Writes(m, x.id)
        <5>1. nA'[x.id] = nA[x.id] + 1 /\ nodeEnd[x.id] = "up" /\ nodeEnd'[x.id] = "up"
          BY <4>1 DEF Writes
        <5>2. nA[x.id] + 1 \in Nat /\ nA[x.id] <= nA[x.id] + 1
          BY <1>5
        <5>3. QED
          BY <5>1, <5>2
      <4>2. CASE EndsIt(m, x.id)
        <5>1. nA'[x.id] = nA[x.id] /\ nodeEnd'[x.id] \in {"fin", "cut"}
          BY <4>2 DEF EndsIt
        <5>2. QED
          BY <1>5, <5>1
      <4>3. QED
        BY <3>1, <4>1, <4>2
    <3>3. x.type = "DATA" => x.n <= nA'[x.id] /\ Len(toTarget'[x.id]) < x.n
      <4> SUFFICES ASSUME x.type = "DATA"
                   PROVE  x.n <= nA'[x.id] /\ Len(toTarget'[x.id]) < x.n
        OBVIOUS
      <4>1. x.n \in Nat /\ x.n <= nA[x.id] /\ Len(toTarget[x.id]) < x.n
        BY <1>8 DEF Means, Proper, Messages
      <4>2. toTarget' = toTarget
        BY DEF ghosts
      <4>3. x.n <= nA'[x.id]
        BY <1>5, <3>2, <4>1
      <4>4. QED
        BY <4>1, <4>2, <4>3
    <3>4. QED
      BY <1>4, <1>8, <3>2, <3>3 DEF Means
  <2>3. QED
    BY <2>1, <2>2
<1>9. QED
  BY <1>6, <1>7, <1>8

\* What NTAP-A says is on its way.
LEMMA SaidQueued ==
    ASSUME IndInv, Queued, NEW m, Utters(m), UNCHANGED <<program, ghosts>>
    PROVE  Queued' /\ \A i \in Ids : conn'[i] = conn[i]
<1>1. ctl \in Connections(Proper) /\ ctl.in \in Seq(Proper)
  BY DEF ctl, IndInv, Typed, ConnOK, Connections
<1>2. \A k \in DOMAIN Waiting : Waiting[k] \in Proper /\ Means(Waiting[k])
  BY <1>1 DEF Waiting, Queued, Meant
<1>3. /\ Ordered'
      /\ \A k \in DOMAIN Waiting' : Waiting'[k] = m \/ \E j \in DOMAIN Waiting : Waiting'[k] = Waiting[j]
      /\ \A x : Has(x) \/ x = m => \E k \in DOMAIN Waiting' : Waiting'[k] = x
      /\ \A i \in Ids : conn'[i] = conn[i]
  BY SaidInOrder, MessageAdded DEF Utters, Queued
<1>4. \A x : Has(x) \/ x = m => Has(x)'
  BY <1>3 DEF Has
<1>5. Active' = Active /\ \A i \in Ids : Held(i)' = Held(i) /\ Taker(i)' = Taker(i)
                                         /\ Unopened(i)' = Unopened(i)
  BY DEF program, ghosts, Active, Held, Taker, Unopened
<1>6. nA \in [Ids -> 0 .. MaxUnits] /\ \A i \in Ids : nA[i] \in Nat
  BY DEF IndInv, Typed, PeersOK
<1>7. Meant'
  <2>1. ASSUME NEW j \in DOMAIN Waiting
        PROVE  Means(Waiting[j]) /\ Waiting[j] \in Proper
               /\ (Waiting[j].id = m.id => m.type # "OPEN")
    <3>1. ASSUME Waiting[j].id = m.id, m.type = "OPEN" PROVE FALSE
      <4>1. m.id \in Ids
        BY <3>1 DEF Utters, Proper
      <4>2. Before(Waiting[j], m)
        BY <3>1, <4>1, SaidInOrder
      <4>3. QED
        BY <3>1, <4>2 DEF Before
    <3>2. QED
      BY <1>2, <3>1
  <2>2. \A x : x = m \/ (\E j \in DOMAIN Waiting : x = Waiting[j]) => Means(x)'
    BY <2>1, SaidInOrder
  <2>3. QED
    BY <1>3, <2>2 DEF Meant, Means
<1>8. NothingLost'
  <2> SUFFICES ASSUME NEW i \in Ids
               PROVE  /\ Len(toTarget'[i]) <= nA'[i]
                      /\ endT'[i] = "open" =>
                           \A u \in Nat : Len(toTarget'[i]) < u /\ u <= nA'[i]
                                            => Has(Msg("DATA", i, u))'
    BY DEF NothingLost, Has
  <2>1. /\ Len(toTarget[i]) <= nA[i]
        /\ endT[i] = "open" => \A u \in Nat : Len(toTarget[i]) < u /\ u <= nA[i]
                                                => Has(Msg("DATA", i, u))
    BY DEF Queued, NothingLost
  <2>2. toTarget' = toTarget /\ endT' = endT
    BY DEF ghosts
  <2>3. CASE i = m.id /\ Writes(m, i)
    <3>1. nA'[i] = nA[i] + 1 /\ m = Msg("DATA", i, nA[i] + 1)
      BY <2>3 DEF Writes
    <3>2. toTarget[i] \in Seq(Units) /\ Len(toTarget[i]) \in Nat
      BY DEF IndInv, Typed, GhostsOK
    <3>3. Len(toTarget'[i]) <= nA'[i]
      BY <1>6, <2>1, <2>2, <3>1, <3>2
    <3>4. ASSUME endT[i] = "open", NEW u \in Nat, Len(toTarget[i]) < u, u <= nA[i] + 1
          PROVE  Has(Msg("DATA", i, u))'
      <4>1. u = nA[i] + 1 \/ u <= nA[i]
        BY <1>6, <3>4
      <4>2. CASE u = nA[i] + 1
        BY <1>4, <3>1, <4>2
      <4>3. CASE u <= nA[i]
        BY <1>4, <2>1, <3>4, <4>3
      <4>4. QED
        BY <4>1, <4>2, <4>3
    <3>5. QED
      BY <2>2, <3>1, <3>3, <3>4
  <2>4. CASE ~(i = m.id /\ Writes(m, i))
    <3>1. nA'[i] = nA[i]
      BY <2>4 DEF Utters, Opens, EndsIt
    <3>2. QED
      BY <1>4, <2>1, <2>2, <3>1
  <2>5. QED
    BY <2>3, <2>4
<1>9. Answerable'
  <2>1. ASSUME NEW i \in Ids
        PROVE  IF nodeEnd'[i] = "idle" THEN Unopened(i)'
               ELSE endT'[i] = "open" => Has(Msg("OPEN", i, 0))' \/ Taker(i)'
    <3>1. IF nodeEnd[i] = "idle" THEN Unopened(i)
          ELSE endT[i] = "open" => Has(Msg("OPEN", i, 0)) \/ Taker(i)
      BY DEF Queued, Answerable
    <3>2. CASE i # m.id
      BY <1>4, <1>5, <3>1, <3>2 DEF Utters, ghosts
    <3>3. CASE i = m.id /\ Opens(m, i)
      BY <1>4, <3>3 DEF Opens
    <3>4. CASE i = m.id /\ (Writes(m, i) \/ EndsIt(m, i))
      <4>1. nodeEnd'[i] # "idle" /\ nodeEnd[i] # "idle"
        BY <3>4 DEF Writes, EndsIt
      <4>2. QED
        BY <1>4, <1>5, <3>1, <4>1 DEF ghosts
    <3>5. QED
      BY <3>2, <3>3, <3>4 DEF Utters
  <2>2. \A s \in Active' : /\ ~slots'[s].cfin => endT'[slots'[s].id] = "open"
                           /\ ~slots'[s].tfin => endA'[slots'[s].id] = "open"
    BY <1>5 DEF Queued, Answerable, program, ghosts
  <2>3. QED
    BY <2>1, <2>2 DEF Answerable
<1>10. QED
  BY <1>3, <1>7, <1>8, <1>9 DEF Queued

\* What NTAP-A says of a stream it puts into the stream's pipe, or it ends it.
LEMMA NodeSaysFlow == IndInv /\ FlowInv /\ NodeSays => FlowInv' /\ PipesStep
<1> SUFFICES ASSUME IndInv, FlowInv, NodeSays PROVE FlowInv' /\ PipesStep
  OBVIOUS
<1>1. PICK m : Utters(m)
  BY NodeUtters
<1>2. Running /\ UNCHANGED <<program, file, call, nT, ghosts>>
  BY DEF NodeSays
<1>3. Queued' /\ \A i \in Ids : conn'[i] = conn[i]
  BY <1>1, <1>2, SaidQueued DEF FlowInv
<1>4. FromTargets'
  BY <1>2, <1>3 DEF FlowInv, FromTargets, ghosts
<1>5. Unread'
  BY <1>2, StillUnread DEF FlowInv
<1>6. UNCHANGED FromTarget!vars
  BY <1>2, <1>3 DEF FromTarget!vars, ghosts
<1>7. nodeEnd \in [Ids -> {"idle", "up", "fin", "cut"}] /\ nA \in [Ids -> 0 .. MaxUnits]
      /\ nodeEnd' \in [Ids -> {"idle", "up", "fin", "cut"}] /\ nA' \in [Ids -> 0 .. MaxUnits]
  BY NodeSaysInv DEF IndInv, Typed, PeersOK
<1> DEFINE ended(e) == [j \in Ids |-> e[j] \in {"fin", "cut"}]
<1>8. ended(nodeEnd) \in [Ids -> BOOLEAN] /\ ended(nodeEnd') \in [Ids -> BOOLEAN]
  OBVIOUS
<1>9. ASSUME m.id \notin Ids PROVE [FromA!Next]_FromA!vars
  <2>1. nodeEnd' = nodeEnd /\ nA' = nA
    BY <1>1, <1>7, <1>9 DEF Utters
  <2>2. UNCHANGED FromA!vars
    BY <1>2, <2>1 DEF FromA!vars, ghosts
  <2>3. QED
    BY <2>2
<1>10. ASSUME m.id \in Ids PROVE [FromA!Next]_FromA!vars
  <2> DEFINE i == m.id
  <2>1. i \in Ids /\ (Opens(m, i) \/ Writes(m, i) \/ EndsIt(m, i))
        /\ \A j \in Ids : j # i => nodeEnd'[j] = nodeEnd[j] /\ nA'[j] = nA[j]
    BY <1>1, <1>10 DEF Utters
  <2> HIDE DEF i
  <2>2. \A j \in Ids : j # i => ended(nodeEnd')[j] = ended(nodeEnd)[j]
    BY <2>1
  <2>3. ended(nodeEnd')[i] = ended(nodeEnd)[i] => ended(nodeEnd') = ended(nodeEnd)
    BY <1>8, <2>1, <2>2, EndedTable
  <2>4. ended(nodeEnd')[i] => ended(nodeEnd') = [ended(nodeEnd) EXCEPT ![i] = TRUE]
    BY <1>8, <2>1, <2>2, EndedTable
  <2>5. CASE Opens(m, i)
    <3>1. nodeEnd'[i] \notin {"fin", "cut"} /\ nodeEnd[i] \notin {"fin", "cut"}
      BY <2>5 DEF Opens
    <3>2. ended(nodeEnd')[i] = ended(nodeEnd)[i]
      BY <2>1, <3>1
    <3>3. nA' = nA
      BY <1>7, <2>1, <2>5 DEF Opens
    <3>4. UNCHANGED FromA!vars
      BY <1>2, <2>3, <3>2, <3>3 DEF FromA!vars, ghosts
    <3>5. QED
      BY <3>4
  <2>6. CASE Writes(m, i)
    <3>1. nodeEnd'[i] = "up" /\ nodeEnd[i] = "up" /\ nA'[i] = nA[i] + 1
      BY <2>6 DEF Writes
    <3>2. ended(nodeEnd')[i] = ended(nodeEnd)[i] /\ ~ended(nodeEnd)[i]
      BY <2>1, <3>1
    <3>3. nA' = [nA EXCEPT ![i] = @ + 1]
      BY <1>7, <2>1, <3>1
    <3>4. FromA!Write(i)
      BY <1>2, <2>3, <3>2, <3>3 DEF FromA!Write, ghosts
    <3>5. QED
      BY <2>1, <3>4 DEF FromA!Next
  <2>7. CASE EndsIt(m, i)
    <3>1. nodeEnd'[i] \in {"fin", "cut"}
      BY <2>7 DEF EndsIt
    <3>2. ended(nodeEnd')[i]
      BY <2>1, <3>1
    <3>3. nA' = nA
      BY <1>7, <2>1, <2>7 DEF EndsIt
    <3>4. FromA!Finish(i)
      BY <1>2, <2>4, <3>2, <3>3 DEF FromA!Finish, ghosts
    <3>5. QED
      BY <2>1, <3>4 DEF FromA!Next
  <2>8. QED
    BY <2>1, <2>5, <2>6, <2>7
<1>11. QED
  BY <1>2, <1>3, <1>4, <1>5, <1>6, <1>9, <1>10 DEF FlowInv, PipesStep

\* Where only one target's connection changes, and no unit in a queue of
\* another: the rest keeps what it was.
LEMMA OthersFlow ==
    ASSUME IndInv, FlowInv, Running, UNCHANGED <<program, nA, nodeEnd, ghosts>>,
           NEW x \in Ids \cup {"ctl"}, NEW c, conn' = [conn EXCEPT ![x] = c],
           x = "ctl" => c.in = conn["ctl"].in
    PROVE  /\ conn'[x] = c /\ \A y \in Ids \cup {"ctl"} : y # x => conn'[y] = conn[y]
           /\ Queued' /\ Unread' /\ UNCHANGED FromA!vars
<1>1. conn = [y \in Ids \cup {"ctl"} |-> conn[y]]
  BY DEF IndInv, Typed, ConnOK
<1>2. conn'[x] = c /\ \A y \in Ids \cup {"ctl"} : y # x => conn'[y] = conn[y]
  BY <1>1
<1>3. conn'["ctl"].in = conn["ctl"].in
  BY <1>2
<1>4. Queued'
  BY <1>3, QuietQueued DEF FlowInv, program, ghosts
<1>5. Unread'
  BY StillUnread DEF FlowInv
<1>6. UNCHANGED FromA!vars
  BY DEF FromA!vars, ghosts
<1>7. QED
  BY <1>2, <1>4, <1>5, <1>6

\* What a target writes waits behind what it has written.
LEMMA TargetSaysFlow ==
    ASSUME IndInv, FlowInv, NEW i \in Ids, TargetSays(i)
    PROVE  FlowInv' /\ PipesStep
<1> DEFINE b == conn[i].in
           unit == <<i, nT[i] + 1>>
<1>1. PICK c \in Arrivals(conn[i], {unit}, MaxQueue) : conn' = [conn EXCEPT ![i] = c]
  BY DEF TargetSays
<1>2. /\ Running /\ nT[i] < MaxUnits /\ nT' = [nT EXCEPT ![i] = @ + 1] /\ i # "ctl"
      /\ UNCHANGED <<program, file, call, owed, nodeEnd, nA, ghosts>>
  BY DEF TargetSays
<1>3. /\ conn[i] \in Connections(Units) /\ b \in Seq(Units) /\ nT[i] \in 0 .. MaxUnits
      /\ nT \in [Ids -> 0 .. MaxUnits] /\ toA[i] \in Seq(Units)
  BY DEF IndInv, Typed, ConnOK, Connections, PeersOK, GhostsOK
<1>4. /\ conn[i].life = "up" /\ c = [conn[i] EXCEPT !.in = Append(@, unit), !.part = FALSE]
  BY <1>1 DEF Arrivals
<1>5. c.in = Append(b, unit) /\ c.life = "up"
  BY <1>3, <1>4 DEF Connections
<1>6. /\ conn'[i] = c /\ \A y \in Ids \cup {"ctl"} : y # i => conn'[y] = conn[y]
      /\ Queued' /\ Unread' /\ UNCHANGED FromA!vars
  BY <1>1, <1>2, OthersFlow
<1>7. unit \in Units
  <2>1. nT[i] + 1 \in 1 .. MaxUnits
    BY <1>2, <1>3
  <2>2. QED
    BY <2>1 DEF Units
<1> HIDE DEF unit
<1>8. /\ Len(c.in) = Len(b) + 1 /\ DOMAIN c.in = DOMAIN b \cup {Len(b) + 1}
      /\ c.in[Len(b) + 1] = unit /\ \A k \in DOMAIN b : c.in[k] = b[k]
  BY <1>3, <1>5, <1>7, AddedBehind
<1>9. /\ FromTargets
      /\ Len(toA[i]) + Len(b) = nT[i] /\ \A k \in DOMAIN b : b[k] = <<i, Len(toA[i]) + k>>
  <2>1. FromTargets
    BY <1>2, Zenon DEF FlowInv
  <2>2. QED
    BY <2>1 DEF FromTargets
<1>10. Len(toA[i]) \in Nat /\ Len(b) \in Nat
  BY <1>3
<1> HIDE DEF b
<1>11. Len(toA[i]) + (Len(b) + 1) = nT[i] + 1
  <2>1. (Len(toA[i]) + Len(b)) + 1 = Len(toA[i]) + (Len(b) + 1)
    BY <1>10, CountOn
  <2>2. QED
    BY <1>9, <2>1
<1>12. nT'[i] = nT[i] + 1 /\ \A j \in Ids : j # i => nT'[j] = nT[j]
  BY <1>2, <1>3
<1>13. FromTargets'
  <2> SUFFICES ASSUME NEW j \in Ids
               PROVE  /\ Len(toA'[j]) + Len(conn'[j].in) = nT'[j]
                      /\ \A k \in DOMAIN conn'[j].in : conn'[j].in[k] = <<j, Len(toA'[j]) + k>>
    BY DEF FromTargets
  <2>1. toA' = toA
    BY <1>2 DEF ghosts
  <2>2. CASE j = i
    <3>1. Len(toA[i]) + Len(c.in) = nT'[i]
      BY <1>8, <1>11, <1>12
    <3>2. c.in[Len(b) + 1] = <<i, Len(toA[i]) + (Len(b) + 1)>>
      BY <1>8, <1>11 DEF unit
    <3>3. \A k \in DOMAIN c.in : c.in[k] = <<i, Len(toA[i]) + k>>
      BY <1>8, <1>9, <3>2
    <3>4. QED
      BY <1>6, <2>1, <2>2, <3>1, <3>3
  <2>3. CASE j # i
    <3>1. conn'[j] = conn[j] /\ nT'[j] = nT[j]
      BY <1>6, <1>12, <2>3
    <3>2. /\ Len(toA[j]) + Len(conn[j].in) = nT[j]
          /\ \A k \in DOMAIN conn[j].in : conn[j].in[k] = <<j, Len(toA[j]) + k>>
      BY <1>9 DEF FromTargets
    <3>3. QED
      BY <2>1, <3>1, <3>2, Zenon
  <2>4. QED
    BY <2>2, <2>3
<1>14. FromTarget!Write(i)
  <2>1. \A j \in Ids : conn'[j].life = conn[j].life
    BY <1>4, <1>5, <1>6
  <2>2. QED
    BY <1>2, <1>4, <2>1 DEF FromTarget!Write, ghosts
<1>15. QED
  BY <1>2, <1>6, <1>13, <1>14 DEF FlowInv, PipesStep, FromTarget!Next, program

\* Whatever else a peer does loses nothing it has written.
LEMMA PeerTurnsFlow ==
    ASSUME IndInv, FlowInv, NEW x \in Ids \cup {"ctl"}, PeerTurns(x)
    PROVE  FlowInv' /\ PipesStep
<1>1. PICK c \in Fragments(conn[x], MaxQueue) \cup Endings(conn[x]) \cup Resets(conn[x])
                   \cup Stalls(conn[x]) \cup Resumes(conn[x]) : conn' = [conn EXCEPT ![x] = c]
  BY DEF PeerTurns
<1>2. Running /\ UNCHANGED <<program, file, peers, ghosts>>
  BY DEF PeerTurns
<1>3. conn[x] \in Connections(Units) \cup Connections(Proper)
  BY DEF IndInv, Typed, ConnOK
<1>4. c.in = conn[x].in /\ (c.life = conn[x].life \/ c.life # "up")
  <2>1. CASE c \in Fragments(conn[x], MaxQueue)
    BY <1>3, <2>1 DEF Fragments, Connections
  <2>2. CASE c \in Endings(conn[x])
    <3>1. c = [conn[x] EXCEPT !.life = "eof", !.part = FALSE]
      BY <2>2 DEF Endings
    <3>2. c.in = conn[x].in /\ c.life = "eof"
      BY <1>3, <3>1 DEF Connections
    <3>3. QED
      BY <3>2
  <2>3. CASE c \in Resets(conn[x])
    <3>1. PICK l \in {"reset", "broken"} :
             c = [conn[x] EXCEPT !.life = l, !.part = FALSE, !.stall = FALSE]
      BY <1>3, <2>3 DEF Resets, Connections
    <3>2. c.in = conn[x].in /\ c.life = l
      BY <1>3, <3>1 DEF Connections
    <3>3. QED
      BY <3>2
  <2>4. CASE c \in Stalls(conn[x]) \cup Resumes(conn[x])
    BY <1>3, <2>4 DEF Stalls, Resumes, Connections
  <2>5. QED
    BY <1>1, <2>1, <2>2, <2>3, <2>4
<1>5. /\ conn'[x] = c /\ \A y \in Ids \cup {"ctl"} : y # x => conn'[y] = conn[y]
      /\ Queued' /\ Unread' /\ UNCHANGED FromA!vars
  BY <1>1, <1>2, <1>4, OthersFlow DEF peers
<1>6. \A j \in Ids : conn'[j].in = conn[j].in
  BY <1>4, <1>5
<1>7. FromTargets'
  BY <1>2, <1>6 DEF FlowInv, FromTargets, peers, ghosts
<1> DEFINE ended == [j \in Ids |-> conn[j].life # "up"]
<1>8. ended \in [Ids -> BOOLEAN] /\ ended' \in [Ids -> BOOLEAN]
  OBVIOUS
<1>9. ASSUME x \in Ids, c.life # "up" PROVE FromTarget!Next
  <2>1. ended'[x] /\ \A j \in Ids : j # x => ended'[j] = ended[j]
    BY <1>5, <1>9
  <2>2. ended' = [ended EXCEPT ![x] = TRUE]
    BY <1>8, <1>9, <2>1, EndedTable
  <2>3. FromTarget!Finish(x)
    BY <1>2, <2>2 DEF FromTarget!Finish, peers, ghosts
  <2>4. QED
    BY <1>9, <2>3 DEF FromTarget!Next
<1>10. ASSUME x = "ctl" \/ c.life = conn[x].life PROVE UNCHANGED FromTarget!vars
  <2>1. \A j \in Ids : conn'[j].life = conn[j].life
    BY <1>5, <1>10
  <2>2. QED
    BY <1>2, <2>1 DEF FromTarget!vars, peers, ghosts
<1>11. PipesStep
  BY <1>4, <1>5, <1>9, <1>10 DEF PipesStep
<1>12. QED
  BY <1>5, <1>7, <1>11 DEF FlowInv

\* A caller of the listener is no stream's.
LEMMA DirectCallFlow == IndInv /\ FlowInv /\ DirectCall => FlowInv' /\ PipesStep
<1> SUFFICES ASSUME IndInv, FlowInv, DirectCall PROVE FlowInv' /\ PipesStep
  OBVIOUS
<1>1. Running /\ UNCHANGED <<program, file, conn, owed, nodeEnd, nA, nT, ghosts>>
  BY DEF DirectCall
<1>2. Queued' /\ FromTargets' /\ PipesStep
  BY <1>1, QuietFlow, StutterStep DEF program
<1>3. Unread'
  BY <1>1, StillUnread DEF FlowInv
<1>4. QED
  BY <1>2, <1>3 DEF FlowInv

-----------------------------------------------------------------------------
(* The refinement *)

\* Every step is one of the two pipes, or nothing to them.
LEMMA StepFlow == IndInv /\ FlowInv /\ [Next]_vars => FlowInv' /\ PipesStep
<1> SUFFICES ASSUME IndInv, FlowInv, [Next]_vars PROVE FlowInv' /\ PipesStep
  OBVIOUS
<1>1. CASE LoopStep
  BY <1>1, StartFlow, SendPingFlow, SelectFlow, ControlReadableFlow, ListenerReadableFlow,
     StreamReadableFlow DEF LoopStep
<1>2. CASE Environment
  BY <1>2, NodeSaysFlow, TargetSaysFlow, PeerTurnsFlow, DirectCallFlow DEF Environment
<1>3. CASE UNCHANGED vars
  <2>1. UNCHANGED <<program, conn, nA, nT, nodeEnd, ghosts>>
    BY <1>3 DEF vars, peers
  <2>2. PipesStep
    BY <2>1, StutterStep
  <2>3. FlowInv'
    <3> SUFFICES ASSUME Running PROVE FlowInv'
      BY <2>1 DEF FlowInv, Running, program
    <3>1. Queued' /\ FromTargets'
      BY <2>1, QuietFlow DEF program
    <3>2. Unread'
      BY <2>1, StillUnread DEF FlowInv
    <3>3. QED
      BY <3>1, <3>2 DEF FlowInv
  <2>4. QED
    BY <2>2, <2>3
<1>4. QED
  BY <1>1, <1>2, <1>3 DEF Next, Returned

\* Each SOCKS stream is two pipes: what either end writes comes out at the
\* other in order, whole and in the right stream; the end of it is passed on
\* only behind the last unit; and what cannot be delivered is cut, never
\* passed off as finished.
THEOREM LoopIsPipes == Spec => StreamsArePipes
<1>1. Spec => [](IndInv /\ FlowInv) /\ FromA!Init /\ FromTarget!Init
  BY InitInv, StepInv, InitFlow, StepFlow, PTL DEF Spec
<1>2. IndInv /\ FlowInv /\ [Next]_vars => [FromA!Next]_FromA!vars
  BY StepFlow DEF PipesStep
<1>3. IndInv /\ FlowInv /\ [Next]_vars => [FromTarget!Next]_FromTarget!vars
  BY StepFlow DEF PipesStep
<1>4. QED
  BY <1>1, <1>2, <1>3, PTL DEF Spec, StreamsArePipes, FromA!Spec, FromTarget!Spec

===============================================================================
