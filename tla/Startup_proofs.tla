---------------------------- MODULE Startup_proofs ----------------------------
(***************************************************************************)
(* The process from its arguments to a served session, for any command     *)
(* lines, configuration files, limits and descriptors.  First the calls    *)
(* that open something: each is one step to its caller, and nothing        *)
(* temporary outlives it.  Then what a session is begun with.  Then the    *)
(* configuration file: once read, the table says what its lines say, which *)
(* rests on what a line is (NextLine), what storing a setting does         *)
(* (StoredIs) and what the lines read so far amount to (Meaning).          *)
(***************************************************************************)
EXTENDS Startup, SequenceTheorems, WellFoundedInduction, TLAPS

USE ConfigAssumption, OpeningsAssumption, StartupAssumption

-----------------------------------------------------------------------------
(* The calls that open something *)

Openable == {"ctl", "tap", "bridge", "lis"}
Lowest(table) == First({f \in Fds : table[f] = "none"})

\* What is open is what the caller was given, under the number it was given.
Owned(table) ==
    /\ \A f \in Fds : table[f] # "none" => table[f] \in Things /\ held[table[f]] = f
    /\ \A x \in Things : held[x] # NoFd => table[held[x]] = x

OpenTyped ==
    /\ file \in [Fds -> Things \cup {"none", "temp"}]
    /\ before \in [Fds -> Things \cup {"none", "temp"}]
    /\ held \in [Things -> Fds \cup {NoFd}]
    /\ call \in Openable \cup {"none"}

\* What a call has opened so far, on top of what was open when it began.
Untouched(kind, steps) ==
    call \in kind /\ at \in steps /\ fd = NoFd /\ ctl = NoFd /\ file = before
WithFd(kind, steps, thing) ==
    /\ call \in kind /\ at \in steps /\ ctl = NoFd
    /\ fd \in Lowest(before) /\ file = [before EXCEPT ![fd] = thing]

Progress ==
    \/ Untouched({"ctl", "lis"}, {"resolve", "socket"})
    \/ WithFd({"ctl", "lis"}, {"try"}, "temp")
    \/ Untouched({"tap"}, {"device"})
    \/ WithFd({"tap"}, {"name", "mtu", "up"}, "tap")
    \/ /\ call = "tap" /\ at \in {"set mtu", "set up"}
       /\ fd \in Lowest(before) /\ ctl \in Fds /\ ctl # fd /\ before[ctl] = "none"
       /\ file = [before EXCEPT ![fd] = "tap", ![ctl] = "temp"]
    \/ Untouched({"bridge"}, {"enslave"})
    \/ /\ call = "bridge" /\ at = "add" /\ fd = NoFd
       /\ ctl \in Fds /\ before[ctl] = "none" /\ file = [before EXCEPT ![ctl] = "temp"]

\* Between two calls nothing is under way; during one it has not given anything yet.
Calling ==
    IF call = "none" THEN at = "none" /\ fd = NoFd /\ ctl = NoFd /\ addrs = -1 /\ Owned(file)
    ELSE Progress /\ Owned(before) /\ (call # "bridge" => held[call] = NoFd)

\* The calls still to come are of different things, none of which is held.
ToCome ==
    /\ todo \in Seq(Openable)
    /\ \A i \in DOMAIN todo : \A j \in DOMAIN todo : todo[i] = todo[j] => i = j
    /\ \A i \in DOMAIN todo : todo[i] # call /\ (todo[i] # "bridge" => held[todo[i]] = NoFd)

\* What each stage of main holds.
Stage ==
    /\ pc \in {"args", "load", "read", "loaded", "open", "exit"}
    /\ pc # "open" => call = "none" /\ todo = <<>>
    /\ \A x \in Things : held[x] # NoFd => IF x = "conf" THEN pc = "read" ELSE pc = "open"
    /\ pc = "open" => Command \in {"run", "check-env"}
    /\ pc = "open" /\ Command = "check-env" =>
         /\ held["ctl"] = NoFd /\ held["lis"] = NoFd /\ call \notin {"ctl", "lis"}
         /\ \A i \in DOMAIN todo : todo[i] \notin {"ctl", "lis"}

OpenInv == OpenTyped /\ Calling /\ ToCome /\ Stage

-----------------------------------------------------------------------------
(* One step of a call *)

\* What a step of a call comes to: it goes on, ...
GoesOn ==
    /\ Progress' /\ UNCHANGED <<call, held, before>>
    /\ file' \in [Fds -> Things \cup {"none", "temp"}]
\* ... it has left everything as it was, ...
CallOver ==
    call' = "none" /\ at' = "none" /\ fd' = NoFd /\ ctl' = NoFd /\ addrs' = -1 /\ before' = before
LeavesNothing == CallOver /\ file' = before /\ held' = held
\* ... or it has given its caller the lowest descriptor that was free.
Gives ==
    /\ CallOver /\ call \in Things \ {"conf"}
    /\ \E f \in Lowest(before) :
         file' = [before EXCEPT ![f] = call] /\ held' = [held EXCEPT ![call] = f]

\* The lowest descriptor that is free.
LEMMA LowestIs ==
  ASSUME NEW table, NEW f
  PROVE  f \in Lowest(table) <=>
           f \in Fds /\ table[f] = "none" /\ \A g \in Fds : table[g] = "none" => f <= g
BY DEF Lowest, First

\* The descriptors the kernel gives are the lowest ones.
LEMMA FreshAre == FreshFds = Lowest(file)
BY DEF FreshFds, Lowest

\* What a call closes when it fails is what it has opened.
LEMMA ClosedAll ==
  ASSUME NEW fds, \A f \in Fds : file[f] = IF f \in fds THEN file[f] ELSE before[f],
         \A f \in fds \cap Fds : before[f] = "none", OpenTyped
  PROVE  Closed(fds) = before
BY DEF Closed, OpenTyped

\* The steps of ntap_tcp_connect and ntap_tcp_listen.
LEMMA ResolveStep ==
  ASSUME OpenTyped, Progress, Resolve PROVE GoesOn \/ LeavesNothing \/ Gives
<1>1. Untouched({"ctl", "lis"}, {"resolve"})
  BY DEF Progress, Untouched, WithFd, Resolve
<1>2. CASE Fails({})
  <2>1. Closed({}) = before
    BY <1>1, ClosedAll DEF Untouched, OpenTyped
  <2>2. QED
    BY <1>2, <2>1 DEF Fails, End, LeavesNothing, CallOver
<1>3. CASE Goto("socket") /\ UNCHANGED <<file, fd, ctl>>
  BY <1>1, <1>3 DEF Goto, GoesOn, Progress, Untouched, OpenTyped
<1>4. QED
  BY <1>2, <1>3 DEF Resolve

\* socket() for the next address, or none is left.
LEMMA NextAddressStep ==
  ASSUME OpenTyped, Progress, NextAddress PROVE GoesOn \/ LeavesNothing \/ Gives
<1>1. Untouched({"ctl", "lis"}, {"socket"})
  BY DEF Progress, Untouched, WithFd, NextAddress
<1>2. CASE Fails({})
  <2>1. Closed({}) = before
    BY <1>1, ClosedAll DEF Untouched, OpenTyped
  <2>2. QED
    BY <1>2, <2>1 DEF Fails, End, LeavesNothing, CallOver
<1>3. CASE Goto("socket") /\ UNCHANGED <<file, fd, ctl>>
  BY <1>1, <1>3 DEF Goto, GoesOn, Progress, Untouched, OpenTyped
<1>4. ASSUME NEW f \in Fds, NewFd("temp", f), fd' = f, Goto("try"), UNCHANGED <<ctl, addrs>>
      PROVE  GoesOn
  <2>1. f \in Lowest(before) /\ file' = [before EXCEPT ![f] = "temp"] /\ f \in Fds
    BY <1>1, <1>4, FreshAre DEF NewFd, Untouched
  <2>2. WithFd({"ctl", "lis"}, {"try"}, "temp")'
    BY <1>1, <1>4, <2>1 DEF Goto, Untouched, WithFd, Lowest
  <2>3. QED
    BY <2>1, <2>2, <1>4 DEF Goto, GoesOn, Progress, OpenTyped
<1>5. QED
  BY <1>2, <1>3, <1>4 DEF NextAddress

\* connect(), or bind() and listen(): the socket is given or closed.
LEMMA TryAddressStep ==
  ASSUME OpenTyped, Progress, TryAddress PROVE GoesOn \/ LeavesNothing \/ Gives
<1>1. WithFd({"ctl", "lis"}, {"try"}, "temp")
  BY DEF Progress, Untouched, WithFd, TryAddress
<1>2. fd \in Fds /\ before[fd] = "none"
  BY <1>1, LowestIs DEF WithFd
<1>3. CASE /\ file' = [file EXCEPT ![fd] = call]
           /\ held' = [held EXCEPT ![call] = fd] /\ result' = "ok"
           /\ call' = "none" /\ at' = "none" /\ fd' = NoFd /\ addrs' = -1
           /\ UNCHANGED <<ctl, before>>
  <2>1. file' = [before EXCEPT ![fd] = call]
    BY <1>1, <1>2, <1>3 DEF WithFd, OpenTyped
  <2>2. QED
    BY <1>1, <1>2, <1>3, <2>1 DEF Gives, CallOver, WithFd, Things
<1>4. CASE file' = Closed({fd}) /\ fd' = NoFd /\ Goto("socket") /\ UNCHANGED ctl
  <2>1. Closed({fd}) = before
    BY <1>1, <1>2, ClosedAll DEF WithFd, OpenTyped
  <2>2. QED
    BY <1>1, <1>4, <2>1 DEF Goto, GoesOn, Progress, Untouched, WithFd, OpenTyped
<1>5. QED
  BY <1>3, <1>4 DEF TryAddress

\* The steps of ntap_tap_open.
LEMMA OpenDeviceStep ==
  ASSUME OpenTyped, Progress, OpenDevice PROVE GoesOn \/ LeavesNothing \/ Gives
<1>1. Untouched({"tap"}, {"device"})
  BY DEF Progress, Untouched, WithFd, OpenDevice
<1>2. CASE Fails({})
  <2>1. Closed({}) = before
    BY <1>1, ClosedAll DEF Untouched, OpenTyped
  <2>2. QED
    BY <1>2, <2>1 DEF Fails, End, LeavesNothing, CallOver
<1>3. ASSUME NEW f \in Fds, NewFd("tap", f), fd' = f, Goto("name"), UNCHANGED <<ctl, addrs>>
      PROVE  GoesOn
  <2>1. f \in Lowest(before) /\ file' = [before EXCEPT ![f] = "tap"] /\ f \in Fds
    BY <1>1, <1>3, FreshAre DEF NewFd, Untouched
  <2>2. WithFd({"tap"}, {"name", "mtu", "up"}, "tap")'
    BY <1>1, <1>3, <2>1 DEF Goto, Untouched, WithFd, Lowest
  <2>3. QED
    BY <2>1, <2>2, <1>3 DEF Goto, GoesOn, Progress, OpenTyped, Things
<1>4. QED
  BY <1>2, <1>3 DEF OpenDevice

\* TUNSETIFF.
LEMMA NameDeviceStep ==
  ASSUME OpenTyped, Progress, NameDevice PROVE GoesOn \/ LeavesNothing \/ Gives
<1>1. WithFd({"tap"}, {"name"}, "tap")
  BY DEF Progress, Untouched, WithFd, NameDevice
<1>2. fd \in Fds /\ before[fd] = "none"
  BY <1>1, LowestIs DEF WithFd
<1>3. CASE Fails({fd})
  <2>1. Closed({fd}) = before
    BY <1>1, <1>2, ClosedAll DEF WithFd, OpenTyped
  <2>2. QED
    BY <1>3, <2>1 DEF Fails, End, LeavesNothing, CallOver
<1>4. CASE Goto("mtu") /\ UNCHANGED <<file, fd, ctl, addrs>>
  <2>1. WithFd({"tap"}, {"name", "mtu", "up"}, "tap")'
    BY <1>1, <1>4 DEF Goto, WithFd, Lowest
  <2>2. QED
    BY <1>4, <2>1 DEF Goto, GoesOn, Progress, OpenTyped
<1>5. QED
  BY <1>3, <1>4 DEF NameDevice

\* The socket the ioctl() is made on is another descriptor than the device.
LEMMA ControlSocketStep ==
  ASSUME OpenTyped, Progress, ControlSocket PROVE GoesOn \/ LeavesNothing \/ Gives
<1>1. WithFd({"tap"}, {"mtu", "up"}, "tap")
  BY DEF Progress, Untouched, WithFd, ControlSocket
<1>2. fd \in Fds /\ before[fd] = "none"
  BY <1>1, LowestIs DEF WithFd
<1>3. CASE Fails({fd})
  <2>1. Closed({fd}) = before
    BY <1>1, <1>2, ClosedAll DEF WithFd, OpenTyped
  <2>2. QED
    BY <1>3, <2>1 DEF Fails, End, LeavesNothing, CallOver
<1>4. ASSUME NEW f \in Fds, NewFd("temp", f), ctl' = f,
             Goto(IF at = "mtu" THEN "set mtu" ELSE "set up"), UNCHANGED <<fd, addrs>>
      PROVE  GoesOn
  <2>1. f \in Fds /\ file[f] = "none"
    BY <1>4, FreshAre, LowestIs DEF NewFd
  <2>2. f # fd /\ before[f] = "none"
    BY <1>1, <1>2, <2>1 DEF WithFd, OpenTyped
  <2>3. file' = [before EXCEPT ![fd] = "tap", ![f] = "temp"]
    BY <1>1, <1>4 DEF WithFd, NewFd
  <2>4. at' \in {"set mtu", "set up"}
    BY <1>4 DEF Goto
  <2>5. Progress'
    BY <1>1, <1>4, <2>1, <2>2, <2>3, <2>4 DEF Goto, WithFd, Progress, Lowest
  <2>6. file' \in [Fds -> Things \cup {"none", "temp"}]
    BY <1>4 DEF OpenTyped, NewFd
  <2>7. QED
    BY <1>4, <2>5, <2>6 DEF Goto, GoesOn
<1>5. QED
  BY <1>3, <1>4 DEF ControlSocket

\* The ioctl() itself: its socket is closed whatever comes of it.
LEMMA SetDeviceStep ==
  ASSUME OpenTyped, Progress, SetDevice PROVE GoesOn \/ LeavesNothing \/ Gives
<1>1. /\ call = "tap" /\ fd \in Lowest(before) /\ ctl \in Fds /\ ctl # fd /\ before[ctl] = "none"
      /\ file = [before EXCEPT ![fd] = "tap", ![ctl] = "temp"]
  BY DEF Progress, Untouched, WithFd, SetDevice
<1>2. fd \in Fds /\ before[fd] = "none"
  BY <1>1, LowestIs
<1>3. CASE Fails({ctl, fd})
  <2>1. Closed({ctl, fd}) = before
    BY <1>1, <1>2, ClosedAll DEF OpenTyped
  <2>2. QED
    BY <1>3, <2>1 DEF Fails, End, LeavesNothing, CallOver
<1>4. Closed({ctl}) = [before EXCEPT ![fd] = "tap"]
  BY <1>1, <1>2 DEF Closed, OpenTyped
<1>5. CASE file' = Closed({ctl}) /\ ctl' = NoFd /\ Goto("up") /\ UNCHANGED <<fd, addrs>>
  <2>1. WithFd({"tap"}, {"name", "mtu", "up"}, "tap")'
    BY <1>1, <1>4, <1>5 DEF Goto, WithFd, Lowest
  <2>2. file' \in [Fds -> Things \cup {"none", "temp"}]
    BY <1>4, <1>5 DEF OpenTyped, Things
  <2>3. QED
    BY <1>5, <2>1, <2>2 DEF Goto, GoesOn, Progress
<1>6. CASE End("ok", {ctl}, [held EXCEPT !["tap"] = fd])
  BY <1>1, <1>4, <1>6 DEF End, Gives, CallOver, Things
<1>7. QED
  BY <1>3, <1>5, <1>6 DEF SetDevice

\* The steps of ntap_tap_attach_bridge.
LEMMA EnslaveStep ==
  ASSUME OpenTyped, Progress, Enslave PROVE GoesOn \/ LeavesNothing \/ Gives
<1>1. Untouched({"bridge"}, {"enslave"})
  BY DEF Progress, Untouched, WithFd, Enslave
<1>2. Closed({}) = before
  BY <1>1, ClosedAll DEF Untouched, OpenTyped
<1>3. CASE Fails({}) \/ End("ok", {}, held)
  BY <1>2, <1>3 DEF Fails, End, LeavesNothing, CallOver
<1>4. ASSUME NEW f \in Fds, NewFd("temp", f), ctl' = f, Goto("add"), UNCHANGED <<fd, addrs>>
      PROVE  GoesOn
  <2>1. f \in Fds /\ before[f] = "none" /\ file' = [before EXCEPT ![f] = "temp"]
    BY <1>1, <1>4, FreshAre, LowestIs DEF NewFd, Untouched
  <2>2. Progress'
    BY <1>1, <1>4, <2>1 DEF Goto, Progress, Untouched
  <2>3. QED
    BY <1>4, <2>1, <2>2 DEF Goto, GoesOn, OpenTyped
<1>5. QED
  BY <1>3, <1>4 DEF Enslave

\* The bridge has the device or not, and the control socket is closed.
LEMMA AddToBridgeStep ==
  ASSUME OpenTyped, Progress, AddToBridge PROVE GoesOn \/ LeavesNothing \/ Gives
<1>1. /\ call = "bridge" /\ ctl \in Fds /\ before[ctl] = "none"
      /\ file = [before EXCEPT ![ctl] = "temp"]
  BY DEF Progress, Untouched, WithFd, AddToBridge
<1>2. Closed({ctl}) = before
  BY <1>1, ClosedAll DEF OpenTyped
<1>3. QED
  BY <1>2 DEF AddToBridge, Fails, End, LeavesNothing, CallOver

\* Every step of a call goes on, leaves nothing behind or gives one descriptor.
LEMMA OneStep ==
  ASSUME OpenTyped, Progress, OpenStep PROVE GoesOn \/ LeavesNothing \/ Gives
BY ResolveStep, NextAddressStep, TryAddressStep, OpenDeviceStep, NameDeviceStep,
   ControlSocketStep, SetDeviceStep, EnslaveStep, AddToBridgeStep DEF OpenStep

-----------------------------------------------------------------------------
(* The invariant of the calls and their callers *)

\* The command depends on the arguments alone.
LEMMA CommandStays == argv' = argv => Command' = Command
<1>1. SUFFICES ASSUME argv' = argv PROVE Command' = Command
  OBVIOUS
<1>2. LastLooked' = LastLooked
  BY <1>1 DEF LastLooked
<1>3. QED
  BY <1>1, <1>2 DEF Command

\* Giving up what is held gives back the descriptors it has, and no others.
LEMMA ReleaseOwned ==
  ASSUME OpenTyped, Owned(file), call = "none", NEW things \in SUBSET Things, Release(things)
  PROVE  /\ OpenTyped' /\ Owned(file)' /\ Calls!Release(things)
         /\ \A x \in Things : held'[x] = IF x \in things THEN NoFd ELSE held[x]
<1>1. file' = [f \in Fds |-> IF file[f] \in things THEN "none" ELSE file[f]]
  <2>1. \A f \in Fds : f \in {held[x] : x \in things} <=> file[f] \in things
    BY DEF OpenTyped, Owned, Things
  <2>2. QED
    BY <2>1 DEF Release, Closed
<1>2. held' = [x \in Things |-> IF x \in things THEN NoFd ELSE held[x]]
  BY DEF Release
<1>3. OpenTyped'
  BY <1>1, <1>2 DEF OpenTyped, Release
<1>4. Owned(file)'
  BY <1>1, <1>2 DEF OpenTyped, Owned
<1>5. Calls!Release(things)
  BY <1>1, <1>2 DEF Calls!Release, Between, Release
<1>6. QED
  BY <1>2, <1>3, <1>4, <1>5

\* A call that has been made goes on or ends.
LEMMA CallStep ==
  ASSUME OpenInv, InCall
  PROVE  OpenInv' /\ [Calls!Next]_<<Between, held>>
<1>. pc = "open" /\ call # "none" /\ OpenStep /\ UNCHANGED <<argv, pc, todo>>
  BY DEF InCall
<1>. Progress /\ Owned(before) /\ (call # "bridge" => held[call] = NoFd)
  BY DEF OpenInv, Calling
<1>. OpenTyped /\ ToCome /\ Stage /\ Command' = Command
  BY CommandStays DEF OpenInv
<1>1. CASE GoesOn
  <2>1. OpenTyped' /\ ToCome' /\ Stage'
    BY <1>1 DEF GoesOn, OpenTyped, ToCome, Stage
  <2>2. Calling'
    BY <1>1 DEF GoesOn, Calling, Owned
  <2>3. UNCHANGED <<Between, held>>
    BY <1>1 DEF GoesOn, Between
  <2>4. QED
    BY <2>1, <2>2, <2>3 DEF OpenInv
<1>2. CASE LeavesNothing
  <2>1. OpenTyped' /\ ToCome' /\ Stage'
    BY <1>2 DEF LeavesNothing, CallOver, OpenTyped, ToCome, Stage, Openable
  <2>2. Calling'
    BY <1>2 DEF LeavesNothing, CallOver, Calling, Owned
  <2>3. UNCHANGED <<Between, held>>
    BY <1>2 DEF LeavesNothing, CallOver, Between
  <2>4. QED
    BY <2>1, <2>2, <2>3 DEF OpenInv
<1>3. CASE Gives
  <2>1. PICK f \in Lowest(before) :
           file' = [before EXCEPT ![f] = call] /\ held' = [held EXCEPT ![call] = f]
    BY <1>3 DEF Gives
  <2>2. /\ f \in Fds /\ before[f] = "none" /\ (\A g \in Fds : before[g] = "none" => f <= g)
        /\ call \in Things \ {"conf"} /\ held[call] = NoFd
    BY <2>1, <1>3, LowestIs DEF Gives, Things
  <2>3. /\ call' = "none" /\ at' = "none" /\ fd' = NoFd /\ ctl' = NoFd /\ addrs' = -1
        /\ before' = before
    BY <1>3 DEF Gives, CallOver
  <2>4. OpenTyped'
    BY <2>1, <2>2, <2>3 DEF OpenTyped
  <2>5. Owned(file)'
    <3>1. ASSUME NEW g \in Fds, file'[g] # "none"
          PROVE  file'[g] \in Things /\ held'[file'[g]] = g
      BY <2>1, <2>2, <3>1 DEF Owned, OpenTyped
    <3>2. ASSUME NEW x \in Things, held'[x] # NoFd PROVE file'[held'[x]] = x
      <4>1. CASE x = call
        BY <2>1, <2>2, <4>1 DEF OpenTyped
      <4>2. CASE x # call
        <5>1. held'[x] = held[x] /\ held[x] \in Fds /\ before[held[x]] = x /\ x # "none"
          BY <2>1, <2>2, <3>2, <4>2 DEF Owned, OpenTyped, Things
        <5>2. QED
          BY <2>1, <2>2, <5>1 DEF OpenTyped
      <4>3. QED
        BY <4>1, <4>2
    <3>3. QED
      BY <3>1, <3>2 DEF Owned
  <2>6. ToCome'
    BY <2>1, <2>2, <2>3 DEF ToCome, OpenTyped, Openable, Things
  <2>7. Stage'
    <3>1. \A x \in Things : held'[x] # NoFd => IF x = "conf" THEN pc' = "read" ELSE pc' = "open"
      BY <2>1, <2>2 DEF Stage, OpenTyped
    <3>2. Command = "check-env" => held'["ctl"] = NoFd /\ held'["lis"] = NoFd
      BY <2>1, <2>2 DEF Stage, OpenTyped, Things
    <3>3. QED
      BY <2>3, <3>1, <3>2 DEF Stage
  <2>8. Calls!Open(call)
    BY <2>1, <2>2, <2>3 DEF Calls!Open, Calls!Free, Between
  <2>9. QED
    BY <2>2, <2>3, <2>4, <2>5, <2>6, <2>7, <2>8 DEF OpenInv, Calling, Calls!Next
<1>4. QED
  BY <1>1, <1>2, <1>3, OneStep

\* What the opening calls see of a step that opens and closes nothing.
LEMMA OthersStep ==
  ASSUME OpenTyped, Calling, UNCHANGED openVars
  PROVE  OpenTyped' /\ Calling' /\ UNCHANGED <<Between, held>>
<1>1. UNCHANGED <<file, call, at, fd, ctl, addrs, held, before>>
  BY DEF openVars
<1>2. OpenTyped' /\ UNCHANGED <<Between, held>>
  BY <1>1 DEF OpenTyped, Between
<1>3. Owned(file) => Owned(file)'
  BY <1>1 DEF Owned
<1>4. Owned(before) => Owned(before)'
  BY <1>1 DEF Owned
<1>5. Progress => Progress'
  BY <1>1 DEF Progress, Untouched, WithFd, Lowest
<1>6. QED
  BY <1>1, <1>2, <1>3, <1>4, <1>5 DEF Calling

\* With no call to come nothing is asked of what is held.
LEMMA NoneToCome == todo' = <<>> => ToCome'
BY DEF ToCome

Plans == {<<"tap">>, <<"tap", "bridge">>, <<"ctl">>, <<"ctl", "lis">>,
          <<"ctl", "tap", "bridge">>, <<"ctl", "tap", "bridge", "lis">>}

\* No plan opens the same thing twice.
LEMMA PlansAre ==
  ASSUME NEW l \in Plans
  PROVE  l \in Seq(Openable) /\ \A i, j \in DOMAIN l : l[i] = l[j] => i = j
<1>1. CASE l = <<"tap">>
  BY <1>1 DEF Openable
<1>2. CASE l = <<"tap", "bridge">>
  BY <1>2 DEF Openable
<1>3. CASE l = <<"ctl">>
  BY <1>3 DEF Openable
<1>4. CASE l = <<"ctl", "lis">>
  BY <1>4 DEF Openable
<1>5. CASE l = <<"ctl", "tap", "bridge">>
  BY <1>5 DEF Openable
<1>6. CASE l = <<"ctl", "tap", "bridge", "lis">>
  BY <1>6 DEF Openable
<1>7. QED
  BY <1>1, <1>2, <1>3, <1>4, <1>5, <1>6 DEF Plans

\* A plan may begin when nothing is held.
LEMMA PlanToCome ==
  ASSUME todo' \in Plans, call' = "none", \A x \in Things : held'[x] = NoFd
  PROVE  ToCome'
<1>1. /\ todo' \in Seq(Openable) /\ \A i \in DOMAIN todo' : todo'[i] \in Openable
      /\ \A i, j \in DOMAIN todo' : todo'[i] = todo'[j] => i = j
  BY PlansAre
<1>2. QED
  BY <1>1 DEF ToCome, Openable, Things

\* main looks at its arguments.
LEMMA ArgumentsStep == ASSUME OpenInv, Arguments PROVE OpenInv' /\ UNCHANGED <<Between, held>>
<1>1. OpenTyped' /\ Calling' /\ UNCHANGED <<Between, held>>
  BY OthersStep DEF OpenInv, Arguments
<1>2. pc = "args" /\ call = "none" /\ todo = <<>> /\ call' = call /\ held' = held /\ argv' = argv
  BY DEF OpenInv, Stage, Arguments, openVars
<1>3. \A x \in Things : held[x] = NoFd
  BY <1>2 DEF OpenInv, Stage
<1>4. CASE pc' \in {"exit", "load"} /\ todo' = todo
  BY <1>1, <1>2, <1>3, <1>4, NoneToCome DEF OpenInv, Stage
<1>5. CASE /\ Command = "check-env" /\ pc' = "open"
           /\ todo' \in {<<"tap", "bridge">>, <<"tap">>}
  <2>1. ToCome'
    BY <1>2, <1>3, <1>5, PlanToCome DEF Plans
  <2>2. Stage'
    BY <1>2, <1>3, <1>5, CommandStays DEF Stage, Things
  <2>3. QED
    BY <1>1, <2>1, <2>2 DEF OpenInv
<1>6. QED
  BY <1>4, <1>5 DEF Arguments, Exit

\* fopen() takes a descriptor for as long as the file is read.
LEMMA OpenFileStep ==
  ASSUME OpenInv, OpenFile PROVE OpenInv' /\ [Calls!Next]_<<Between, held>>
<1>1. /\ pc = "load" /\ call = "none" /\ todo' = <<>> /\ argv' = argv
      /\ OpenTyped /\ Owned(file) /\ Calling /\ \A x \in Things : held[x] = NoFd
  BY DEF OpenInv, Calling, Stage, OpenFile
<1>2. CASE Exit(1) /\ UNCHANGED openVars
  <2>1. OpenTyped' /\ Calling' /\ UNCHANGED <<Between, held>>
    BY <1>1, <1>2, OthersStep
  <2>2. Stage'
    BY <1>1, <1>2 DEF Stage, Exit, openVars
  <2>3. QED
    BY <1>1, <2>1, <2>2, NoneToCome DEF OpenInv
<1>3. ASSUME NEW f \in FreshFds,
             file' = [file EXCEPT ![f] = "conf"], held' = [held EXCEPT !["conf"] = f],
             pc' = "read", UNCHANGED <<call, at, fd, ctl, addrs, before>>
      PROVE  OpenInv' /\ Calls!Open("conf")
  <2>1. f \in Fds /\ file[f] = "none" /\ (\A g \in Fds : file[g] = "none" => f <= g)
    BY FreshAre, LowestIs
  <2>2. OpenTyped'
    BY <1>1, <1>3, <2>1 DEF OpenTyped, Things
  <2>3. Owned(file)'
    BY <1>1, <1>3, <2>1 DEF Owned, OpenTyped, Things
  <2>4. Calling'
    BY <1>1, <1>3, <2>3 DEF Calling
  <2>5. Stage'
    BY <1>1, <1>3 DEF Stage, OpenTyped, Things
  <2>6. Calls!Open("conf")
    BY <1>1, <1>3, <2>1 DEF Calls!Open, Calls!Free, Between, Things
  <2>7. QED
    BY <1>1, <2>2, <2>4, <2>5, <2>6, NoneToCome DEF OpenInv
<1>4. QED
  BY <1>2, <1>3 DEF OpenFile, Calls!Next, Things

\* fgets() opens nothing.
LEMMA ReadFileStep == ASSUME OpenInv, ReadFile PROVE OpenInv' /\ UNCHANGED <<Between, held>>
<1>1. OpenTyped' /\ Calling' /\ UNCHANGED <<Between, held>>
  BY OthersStep DEF OpenInv, ReadFile
<1>2. ToCome' /\ Stage'
  BY DEF OpenInv, ToCome, Stage, ReadFile, openVars
<1>3. QED
  BY <1>1, <1>2 DEF OpenInv

\* fclose() gives it back.
LEMMA CloseFileStep ==
  ASSUME OpenInv, CloseFile PROVE OpenInv' /\ Calls!Release({"conf"})
<1>1. /\ pc = "read" /\ pc' = "loaded" /\ call = "none" /\ todo' = <<>> /\ argv' = argv
      /\ Calling /\ OpenTyped /\ Owned(file) /\ Release({"conf"})
  BY DEF OpenInv, Calling, Stage, CloseFile
<1>2. /\ OpenTyped' /\ Owned(file)' /\ Calls!Release({"conf"})
      /\ \A x \in Things : held'[x] = IF x \in {"conf"} THEN NoFd ELSE held[x]
  BY <1>1, ReleaseOwned DEF Things
<1>3. Calling'
  BY <1>1, <1>2 DEF Calling, Release
<1>4. Stage'
  BY <1>1, <1>2 DEF OpenInv, Stage, Release
<1>5. QED
  BY <1>1, <1>2, <1>3, <1>4, NoneToCome DEF OpenInv

\* What is opened for a session is decided.
LEMMA ConfiguredStep ==
  ASSUME OpenInv, Configured PROVE OpenInv' /\ UNCHANGED <<Between, held>>
<1>1. OpenTyped' /\ Calling' /\ UNCHANGED <<Between, held>>
  BY OthersStep DEF OpenInv, Configured
<1>2. pc = "loaded" /\ call = "none" /\ todo = <<>> /\ call' = call /\ held' = held /\ argv' = argv
  BY DEF OpenInv, Stage, Configured, openVars
<1>3. \A x \in Things : held[x] = NoFd
  BY <1>2 DEF OpenInv, Stage
<1>4. CASE pc' = "exit" /\ todo' = todo
  BY <1>1, <1>2, <1>3, <1>4, NoneToCome DEF OpenInv, Stage
<1>5. CASE Command = "run" /\ pc' = "open" /\ todo' \in Session
  <2>1. ToCome'
    BY <1>2, <1>3, <1>5, PlanToCome DEF Plans, Session
  <2>2. Stage'
    BY <1>2, <1>3, <1>5, CommandStays DEF Stage, Things
  <2>3. QED
    BY <1>1, <2>1, <2>2 DEF OpenInv
<1>6. QED
  BY <1>4, <1>5 DEF Configured, Exit

\* A call begins with the table as it is and with nothing held of its kind.
LEMMA MakeCallStep ==
  ASSUME OpenInv, MakeCall PROVE OpenInv' /\ UNCHANGED <<Between, held>>
<1>1. /\ pc = "open" /\ call = "none" /\ todo # <<>> /\ todo \in Seq(Openable)
      /\ OpenTyped /\ Owned(file) /\ fd = NoFd /\ ctl = NoFd
  BY DEF OpenInv, Calling, ToCome, MakeCall
<1>2. PICK c : c = Head(todo)
  OBVIOUS
<1>3. /\ call' = c /\ before' = file /\ todo' = Tail(todo) /\ UNCHANGED <<file, fd, ctl, held, pc, argv>>
      /\ at' = CASE c \in {"ctl", "lis"} -> "resolve" [] c = "tap" -> "device" [] OTHER -> "enslave"
  BY <1>2 DEF MakeCall, Begin
<1>4. /\ Len(todo) \in Nat /\ Len(todo) > 0 /\ DOMAIN todo = 1 .. Len(todo)
      /\ c = todo[1] /\ 1 \in DOMAIN todo /\ c \in Openable
  BY <1>1, <1>2
<1>5. /\ todo' \in Seq(Openable) /\ DOMAIN todo' = 1 .. Len(todo) - 1
      /\ \A i \in DOMAIN todo' : i + 1 \in DOMAIN todo /\ todo'[i] = todo[i + 1]
  BY <1>1, <1>3, <1>4
<1>6. ToCome'
  <2>1. \A i, j \in DOMAIN todo' : todo'[i] = todo'[j] => i = j
    <3>1. ASSUME NEW i \in DOMAIN todo', NEW j \in DOMAIN todo', todo'[i] = todo'[j] PROVE i = j
      <4>1. i + 1 = j + 1
        BY <3>1, <1>5 DEF OpenInv, ToCome
      <4>2. QED
        BY <4>1, <1>4, <1>5
    <3>2. QED
      BY <3>1
  <2>2. ASSUME NEW i \in DOMAIN todo'
        PROVE  todo'[i] # c /\ (todo'[i] # "bridge" => held[todo'[i]] = NoFd)
    <3>1. i + 1 \in DOMAIN todo /\ todo'[i] = todo[i + 1] /\ i + 1 # 1
      BY <1>4, <1>5
    <3>2. QED
      BY <3>1, <1>4 DEF OpenInv, ToCome
  <2>3. QED
    BY <1>3, <1>5, <2>1, <2>2 DEF ToCome
<1>7. c # "bridge" => held[c] = NoFd
  BY <1>4 DEF OpenInv, ToCome
<1>8. OpenTyped'
  <2>1. \A f \in Fds : file[f] # "temp"
    BY <1>1 DEF Owned, Things
  <2>2. QED
    BY <1>1, <1>3, <1>4, <2>1 DEF OpenTyped
<1>9. Progress'
  BY <1>1, <1>3, <1>4 DEF Progress, Untouched, Openable
<1>10. Calling'
  <2>1. Owned(before)'
    BY <1>1, <1>3 DEF Owned
  <2>2. QED
    BY <1>3, <1>4, <1>7, <1>9, <2>1 DEF Calling, Openable
<1>11. Stage'
  <2>1. Command = "check-env" => c \notin {"ctl", "lis"}
    BY <1>1, <1>4 DEF OpenInv, Stage
  <2>2. Command = "check-env" => \A i \in DOMAIN todo' : todo'[i] \notin {"ctl", "lis"}
    BY <1>1, <1>5 DEF OpenInv, Stage
  <2>3. QED
    BY <1>1, <1>3, <2>1, <2>2, CommandStays DEF OpenInv, Stage
<1>12. UNCHANGED <<Between, held>>
  BY <1>1, <1>3, <1>4 DEF Between, Openable
<1>13. QED
  BY <1>6, <1>8, <1>10, <1>11, <1>12 DEF OpenInv

\* check-env closes the device, and there is nothing else.
LEMMA CheckEndsStep ==
  ASSUME OpenInv, CheckEnds PROVE OpenInv' /\ Calls!Release({"tap"})
<1>1. /\ pc = "open" /\ pc' = "exit" /\ call = "none" /\ call' = "none" /\ todo' = <<>>
      /\ Calling /\ OpenTyped /\ Owned(file) /\ Release({"tap"}) /\ Command = "check-env"
  BY DEF OpenInv, Calling, Stage, CheckEnds, Exit, Release
<1>2. /\ OpenTyped' /\ Owned(file)' /\ Calls!Release({"tap"})
      /\ \A x \in Things : held'[x] = IF x \in {"tap"} THEN NoFd ELSE held[x]
  BY <1>1, ReleaseOwned DEF Things
<1>3. Calling'
  BY <1>1, <1>2 DEF Calling, Release
<1>4. \A x \in Things : held'[x] = NoFd
  BY <1>1, <1>2 DEF OpenInv, Stage, Things
<1>5. Stage'
  BY <1>1, <1>4 DEF Stage
<1>6. QED
  BY <1>1, <1>2, <1>3, <1>5, NoneToCome DEF OpenInv

\* A session closes all three, whichever it had.
LEMMA SessionEndsStep ==
  ASSUME OpenInv, SessionEnds PROVE OpenInv' /\ Calls!Release({"ctl", "tap", "lis"})
<1>1. /\ pc = "open" /\ call = "none" /\ call' = "none" /\ argv' = argv
      /\ Calling /\ OpenTyped /\ Owned(file) /\ Release({"ctl", "tap", "lis"}) /\ Command = "run"
  BY DEF OpenInv, Calling, SessionEnds, Release
<1>2. /\ OpenTyped' /\ Owned(file)' /\ Calls!Release({"ctl", "tap", "lis"})
      /\ \A x \in Things : held'[x] = IF x \in {"ctl", "tap", "lis"} THEN NoFd ELSE held[x]
  BY <1>1, ReleaseOwned DEF Things
<1>3. Calling'
  BY <1>1, <1>2 DEF Calling, Release
<1>4. \A x \in Things : held'[x] = NoFd
  BY <1>1, <1>2 DEF OpenInv, Stage, Things
<1>5. CASE todo' \in Session /\ pc' = pc
  <2>1. ToCome'
    BY <1>1, <1>4, <1>5, PlanToCome DEF Plans, Session
  <2>2. Stage'
    BY <1>1, <1>4, <1>5, CommandStays DEF Stage
  <2>3. QED
    BY <1>2, <1>3, <2>1, <2>2 DEF OpenInv
<1>6. CASE todo' = <<>> /\ pc' = "exit"
  BY <1>1, <1>2, <1>3, <1>4, <1>6, NoneToCome DEF OpenInv, Stage
<1>7. QED
  BY <1>2, <1>5, <1>6 DEF SessionEnds, Exit

\* Nothing is open when the process starts.
LEMMA OpenInvInit == Init => OpenInv /\ Calls!Init
<1> SUFFICES ASSUME Init PROVE OpenInv /\ Calls!Init
  OBVIOUS
<1>1. /\ pc = "args" /\ todo = <<>> /\ file = [f \in Fds |-> "none"] /\ before = file
      /\ call = "none" /\ at = "none" /\ fd = NoFd /\ ctl = NoFd /\ addrs = -1
      /\ held = [x \in Things |-> NoFd]
  BY DEF Init, OpenInit
<1>2. OpenTyped /\ ToCome
  BY <1>1 DEF OpenTyped, ToCome
<1>3. Calling
  BY <1>1 DEF Calling, Owned
<1>4. Stage
  BY <1>1 DEF Stage
<1>5. Calls!Init
  BY <1>1 DEF Calls!Init, Between
<1>6. QED
  BY <1>2, <1>3, <1>4, <1>5 DEF OpenInv

\* Every step keeps the invariant, and is one of the abstract calls or none.
LEMMA OpenInvNext ==
  OpenInv /\ [Next]_vars => OpenInv' /\ [Calls!Next]_<<Between, held>>
<1> SUFFICES ASSUME OpenInv, [Next]_vars PROVE OpenInv' /\ [Calls!Next]_<<Between, held>>
  OBVIOUS
<1>1. CASE Arguments
  BY <1>1, ArgumentsStep
<1>2. CASE OpenFile
  BY <1>2, OpenFileStep
<1>3. CASE ReadFile
  BY <1>3, ReadFileStep
<1>4. CASE CloseFile
  BY <1>4, CloseFileStep DEF Calls!Next, Things
<1>5. CASE Configured
  BY <1>5, ConfiguredStep
<1>6. CASE MakeCall
  BY <1>6, MakeCallStep
<1>7. CASE InCall
  BY <1>7, CallStep
<1>8. CASE CheckEnds
  BY <1>8, CheckEndsStep DEF Calls!Next, Things
<1>9. CASE SessionEnds
  BY <1>9, SessionEndsStep DEF Calls!Next, Things
<1>10. CASE UNCHANGED vars
  <2>1. OpenTyped' /\ Calling' /\ UNCHANGED <<Between, held>>
    BY <1>10, OthersStep DEF OpenInv, vars
  <2>2. ToCome' /\ Stage'
    BY <1>10, CommandStays DEF OpenInv, ToCome, Stage, vars, openVars
  <2>3. QED
    BY <2>1, <2>2 DEF OpenInv
<1>11. QED
  BY <1>1, <1>2, <1>3, <1>4, <1>5, <1>6, <1>7, <1>8, <1>9, <1>10 DEF Next, Ended

\* The invariant of the calls and of what main holds at each of its stages.
THEOREM OpenInductive == Spec => []OpenInv
<1>1. Init => OpenInv
  BY OpenInvInit
<1>2. OpenInv /\ [Next]_vars => OpenInv'
  BY OpenInvNext
<1>3. QED
  BY <1>1, <1>2, PTL DEF Spec

\* Every opening call is one step to its caller, and what is held has been
\* opened once and not yet closed, whatever the calls and addresses come to.
THEOREM CallsAreAtomic == Spec => OpensInOneStep
<1>1. Init => Calls!Init
  BY OpenInvInit
<1>2. OpenInv /\ [Next]_vars => [Calls!Next]_<<Between, held>>
  BY OpenInvNext
<1>3. QED
  BY <1>1, <1>2, OpenInductive, PTL DEF Spec, OpensInOneStep, Calls!Spec

\* Between two calls nothing temporary is left, and nothing at all at the end.
THEOREM NothingIsLeft == Spec => []NothingLeft
<1>1. OpenInv => NothingLeft
  <2> SUFFICES ASSUME OpenInv, call = "none" PROVE NothingLeft
    BY DEF NothingLeft
  <2>1. Calling /\ addrs = -1 /\ Owned(file)
    BY DEF OpenInv, Calling
  <2>2. ASSUME NEW x \in Things, held[x] # NoFd PROVE pc # "exit"
    BY <2>2 DEF OpenInv, Stage
  <2>3. QED
    BY <2>1, <2>2 DEF NothingLeft, Owned
<1>2. QED
  BY <1>1, OpenInductive, PTL

-----------------------------------------------------------------------------
(* What a session is begun with *)

Fit == pc = "open" /\ Command = "run" => reading = "ok" /\ ConfigGood /\ ~Misused

\* All that is looked up among the arguments depends on them alone.
LEMMA ArgumentsStay ==
  ASSUME argv' = argv
  PROVE  /\ \A name : Flag(name)' <=> Flag(name)
         /\ \A name : HasValue(name)' <=> HasValue(name)
         /\ FrameCount' = FrameCount
         /\ Misused' <=> Misused
<1>1. LastLooked' = LastLooked
  BY DEF LastLooked
<1>2. Rest' = Rest
  BY <1>1 DEF Rest
<1>3. \A name : (Flag(name)' <=> Flag(name)) /\ (HasValue(name)' <=> HasValue(name))
  BY <1>2 DEF Flag, HasValue
<1>4. FrameCount' = FrameCount
  BY <1>2, <1>3 DEF FrameCount, ValueOf
<1>5. QED
  BY <1>3, <1>4 DEF Misused

\* Whether the settings are good depends on the table alone.
LEMMA SettingsStay ==
  ASSUME entries' = entries PROVE ConfigGood' <=> ConfigGood
BY DEF ConfigGood, Get

\* What was checked before the first call stays as it was checked.
LEMMA FitNext == OpenInv /\ Fit /\ [Next]_vars => Fit'
<1> SUFFICES ASSUME OpenInv, Fit, [Next]_vars, pc' = "open", Command' = "run"
             PROVE  (reading = "ok" /\ ConfigGood /\ ~Misused)'
  BY DEF Fit
<1>1. argv' = argv
  BY DEF Next, Arguments, OpenFile, ReadFile, CloseFile, Configured, MakeCall, InCall, CheckEnds,
         SessionEnds, Ended, vars
<1>2. Command = "run"
  BY <1>1, CommandStays
<1>3. reading = "ok" /\ ConfigGood /\ ~Misused /\ UNCHANGED fileVars
  BY <1>2 DEF Fit, Next, Arguments, OpenFile, ReadFile, CloseFile, Configured, MakeCall, InCall,
         CheckEnds, SessionEnds, Ended, vars, Exit
<1>4. QED
  BY <1>1, <1>3, ArgumentsStay, SettingsStay DEF fileVars

\* Nothing is opened for a session without a complete configuration and with
\* arguments that do not go together.
THEOREM ConfiguredFirst == Spec => []SessionsAreConfigured
<1>1. Init => Fit
  BY DEF Init, Fit
<1>2. OpenInv /\ Fit => SessionsAreConfigured
  <2> SUFFICES ASSUME OpenInv, Fit, held["ctl"] # NoFd \/ call = "ctl"
               PROVE  SessionsAreConfigured
    BY DEF SessionsAreConfigured
  <2>1. pc = "open" /\ Command = "run"
    BY DEF OpenInv, Stage, Things
  <2>2. reading = "ok" /\ ConfigGood /\ ~Misused
    BY <2>1 DEF Fit
  <2>3. Settings.mtu \in MinMtu .. MaxMtu
    <3>1. Settings.mtu = IF Get(Tap, Mtu) = <<>> THEN DefaultMtu ELSE NumberOf(Get(Tap, Mtu))
      BY DEF Settings
    <3>2. Get(Tap, Mtu) = <<>> \/ NumberOf(Get(Tap, Mtu)) \in MinMtu .. MaxMtu
      BY <2>2 DEF ConfigGood, IsMtu
    <3>3. QED
      BY <3>1, <3>2
  <2>4. /\ Settings.node_id # <<>> /\ Settings.node_key # <<>>
        /\ Places(Settings.server_addr, {":"}) # {}
    BY <2>2 DEF ConfigGood, Settings, IsAddress
  <2>5. FrameCount \in Nat
    BY DEF FrameCount, Number
  <2>6. Flag("--tap") => ~Flag("--once") /\ ~Flag("--expect-test-frame") /\ FrameCount = 0
    BY <2>2, <2>5 DEF Misused
  <2>7. Flag("--send-test-frame-each-pong") => FrameCount > 0
    BY <2>2, <2>5 DEF Misused
  <2>8. QED
    BY <2>2, <2>3, <2>4, <2>6, <2>7 DEF SessionsAreConfigured
<1>3. QED
  BY <1>1, <1>2, FitNext, OpenInductive, PTL DEF Spec

-----------------------------------------------------------------------------
(* The file that is read and what it says *)

Setting == [section : Seq(STRING), key : Seq(STRING), value : Seq(STRING)]
Where == Len(contents) - Len(text)

TextTyped == contents \in Seq(STRING) /\ text \in Seq(STRING)
TableInv ==
    /\ TextTyped /\ section \in Seq(STRING) /\ Len(section) < SectionMax
    /\ entries \in Seq(Setting) /\ TableSound

\* The setting e is what the lines before "place" say of it.
SaidBefore(c, place, e) ==
    \E l \in Assigning(c, e.section, e.key) :
        /\ l.from < place /\ e.value = Value(l.line)
        /\ \A m \in Assigning(c, e.section, e.key) : m.from < place => m.from <= l.from

Meaning(c, place) ==
    /\ section = SectionAt(c, place)
    /\ \A i \in DOMAIN entries : SaidBefore(c, place, entries[i])
    /\ \A l \in Settling(c) :
         l.from < place => Find(entries, SectionAt(c, l.from), Key(l.line)) # {}

FileInv ==
    pc \in {"read", "loaded"} /\ reading # "bad" =>
        /\ Where \in 0 .. Len(contents) /\ text = SubSeq(contents, Where + 1, Len(contents))
        /\ reading = "ok" => text = <<>>
        /\ LinesFit(contents) =>
             (Where \in Ends(contents) \/ text = <<>>) /\ Meaning(contents, Where)

-----------------------------------------------------------------------------
(* Texts *)

\* The order of the naturals is well-founded.
LEMMA LessIsWellFounded == IsWellFoundedOn({ss \in Nat \X Nat : ss[1] < ss[2]}, Nat)
BY NatLessThanWellFounded DEF OpToRel

\* A set of naturals has a least element.
LEMMA HasLeast ==
  ASSUME NEW T, T \subseteq Nat, T # {}
  PROVE  \E x \in T : \A y \in T : x <= y
<1> DEFINE R == {ss \in Nat \X Nat : ss[1] < ss[2]}
<1>1. PICK x \in T : \A y \in T : ~(<<y, x>> \in R)
  BY LessIsWellFounded, WFMin
<1>2. ASSUME NEW y \in T PROVE x <= y
  <2>1. x \in Nat /\ y \in Nat
    OBVIOUS
  <2>2. ~(<<y, x>> \in R)
    BY <1>1
  <2>3. ~(y < x)
    BY <2>1, <2>2
  <2>4. QED
    BY <2>1, <2>3
<1>3. QED
  BY <1>2

\* A bounded set of naturals has a greatest element.
LEMMA HasGreatest ==
  ASSUME NEW T, T \subseteq Nat, T # {}, NEW n \in Nat, \A x \in T : x <= n
  PROVE  \E x \in T : \A y \in T : y <= x
<1> DEFINE U == {m \in Nat : \E x \in T : m + x = n}
<1>1. PICK t \in T : TRUE
  OBVIOUS
<1>2. U # {}
  <2>1. n - t \in Nat /\ (n - t) + t = n /\ t \in Nat
    BY <1>1
  <2>2. n - t \in U
    BY <1>1, <2>1
  <2>3. QED
    BY <2>2
<1>3. U \subseteq Nat
  OBVIOUS
<1>4. PICK u \in U : \A w \in U : u <= w
  <2> HIDE DEF U
  <2>1. QED
    BY <1>2, <1>3, HasLeast
<1>5. PICK x \in T : u + x = n
  OBVIOUS
<1>6. ASSUME NEW y \in T PROVE y <= x
  <2>1. x \in Nat /\ y \in Nat /\ y <= n /\ u \in Nat
    BY <1>3
  <2>2. n - y \in Nat /\ (n - y) + y = n
    BY <2>1
  <2>3. n - y \in U
    BY <2>2
  <2>4. u <= n - y
    BY <1>4, <2>3
  <2> HIDE DEF U
  <2>5. QED
    BY <1>5, <2>1, <2>4
<1>7. QED
  BY <1>6

\* Least gives the least element,
LEMMA LeastIs ==
  ASSUME NEW T, T \subseteq Nat, T # {}
  PROVE  Least(T) \in T /\ \A y \in T : Least(T) <= y
<1>1. \E x \in T : \A y \in T : x <= y
  BY HasLeast
<1>2. QED
  BY <1>1 DEF Least

\* and Greatest the greatest of a bounded set.
LEMMA GreatestIs ==
  ASSUME NEW T, NEW n \in Nat, T \subseteq 0 .. n, T # {}
  PROVE  Greatest(T) \in T /\ \A y \in T : y <= Greatest(T)
<1>1. T \subseteq Nat /\ \A x \in T : x <= n
  OBVIOUS
<1>2. \E x \in T : \A y \in T : y <= x
  BY <1>1, HasGreatest
<1>3. QED
  BY <1>2 DEF Greatest

\* A part of a text, the empty ones included.
LEMMA PartIs ==
  ASSUME NEW s \in Seq(STRING), NEW a \in Nat, NEW b \in Nat, 1 <= a, b <= Len(s)
  PROVE  /\ SubSeq(s, a, b) \in Seq(STRING)
         /\ Len(SubSeq(s, a, b)) = IF a <= b THEN b - a + 1 ELSE 0
         /\ \A i \in 1 .. b - a + 1 : SubSeq(s, a, b)[i] = s[a + i - 1]
<1>1. \A i \in a .. b : s[i] \in STRING
  <2>1. ASSUME NEW i \in a .. b PROVE s[i] \in STRING
    <3>1. i \in 1 .. Len(s)
      BY LenProperties
    <3>2. QED
      BY <3>1, ElementOfSeq
  <2>2. QED
    BY <2>1
<1>2. QED
  BY <1>1, SubSeqProperties

\* Places in a text are numbers of its symbols.
LEMMA PlacesIn ==
  ASSUME NEW s \in Seq(STRING), NEW symbols
  PROVE  Places(s, symbols) \subseteq 1 .. Len(s) /\ Places(s, symbols) \subseteq Nat
BY LenProperties DEF Places

\* What stands before a symbol is a text,
LEMMA BeforeTyped ==
  ASSUME NEW s \in Seq(STRING), NEW symbols PROVE Before(s, symbols) \in Seq(STRING)
<1>1. CASE Places(s, symbols) = {}
  BY <1>1 DEF Before
<1>2. CASE Places(s, symbols) # {}
  <2>1. PICK k \in 1 .. Len(s) : k = Least(Places(s, symbols))
    BY <1>2, PlacesIn, LeastIs
  <2>2. k - 1 \in Nat /\ k - 1 <= Len(s)
    BY <2>1, LenProperties
  <2>3. SubSeq(s, 1, k - 1) \in Seq(STRING)
    BY <2>2, PartIs
  <2>4. QED
    BY <1>2, <2>1, <2>3 DEF Before
<1>3. QED
  BY <1>1, <1>2

\* and what stands behind one.
LEMMA AfterTyped ==
  ASSUME NEW s \in Seq(STRING), NEW symbols, Places(s, symbols) # {}
  PROVE  After(s, symbols) \in Seq(STRING)
<1>1. Least(Places(s, symbols)) \in 1 .. Len(s)
  BY PlacesIn, LeastIs
<1>2. QED
  BY <1>1, PartIs, LenProperties DEF After

Solid(s) == DOMAIN s \ Places(s, Blank)

\* The first and the last symbol that is no blank.
LEMMA SolidIn ==
  ASSUME NEW s \in Seq(STRING), Solid(s) # {}
  PROVE  Least(Solid(s)) \in Solid(s) /\ Greatest(Solid(s)) \in Solid(s) /\ Solid(s) \subseteq 1 .. Len(s)
<1>1. Solid(s) \subseteq 1 .. Len(s) /\ Len(s) \in Nat
  BY LenProperties DEF Solid
<1>2. Solid(s) \subseteq Nat /\ Solid(s) \subseteq 0 .. Len(s)
  BY <1>1
<1>3. QED
  BY <1>1, <1>2, LeastIs, GreatestIs

\* trim gives a text,
LEMMA TrimTyped == ASSUME NEW s \in Seq(STRING) PROVE Trim(s) \in Seq(STRING)
<1>1. CASE Solid(s) = {}
  BY <1>1 DEF Trim, Solid
<1>2. CASE Solid(s) # {}
  <2>1. Least(Solid(s)) \in 1 .. Len(s) /\ Greatest(Solid(s)) \in 1 .. Len(s)
    BY <1>2, SolidIn
  <2>2. Trim(s) = SubSeq(s, Least(Solid(s)), Greatest(Solid(s)))
    BY <1>2 DEF Trim, Solid
  <2>3. QED
    BY <2>1, <2>2, PartIs, LenProperties
<1>3. QED
  BY <1>1, <1>2

\* strip_inline_comment does,
LEMMA UncommentedTyped ==
  ASSUME NEW s \in Seq(STRING) PROVE Uncommented(s) \in Seq(STRING)
<1> DEFINE marks == {k \in Places(s, {"#"}) : Cardinality({j \in Places(s, {"quote"}) : j < k}) % 2 = 0}
<1>1. CASE marks = {}
  BY <1>1 DEF Uncommented
<1>2. CASE marks # {}
  <2>1. marks \subseteq 1 .. Len(s) /\ marks \subseteq Nat
    BY PlacesIn
  <2>2. Uncommented(s) = SubSeq(s, 1, Least(marks) - 1)
    BY <1>2 DEF Uncommented
  <2> HIDE DEF marks
  <2>3. Least(marks) \in 1 .. Len(s)
    BY <1>2, <2>1, LeastIs
  <2>4. QED
    BY <2>2, <2>3, PartIs, LenProperties
<1>3. QED
  BY <1>1, <1>2

\* and so section names,
LEMMA NameTyped ==
  ASSUME NEW line \in Seq(STRING), line # <<>> PROVE SectionName(line) \in Seq(STRING)
<1>1. Tail(line) \in Seq(STRING)
  BY HeadTailProperties
<1>2. QED
  BY <1>1, BeforeTyped, TrimTyped DEF SectionName

\* keys
LEMMA KeyTyped == ASSUME NEW line \in Seq(STRING) PROVE Key(line) \in Seq(STRING)
BY BeforeTyped, TrimTyped DEF Key

\* and values are texts.
LEMMA ValueTyped ==
  ASSUME NEW line \in Seq(STRING), Places(line, {"="}) # {} PROVE Value(line) \in Seq(STRING)
<1>1. After(line, {"="}) \in Seq(STRING)
  BY AfterTyped
<1>2. QED
  BY <1>1, UncommentedTyped, TrimTyped DEF Value

\* A blank at the end makes no difference to a line.
LEMMA TrimEnd ==
  ASSUME NEW s \in Seq(STRING), NEW n \in Nat, Len(s) = n + 1, s[n + 1] \in Blank
  PROVE  Trim(SubSeq(s, 1, n)) = Trim(s)
<1>1. PICK t : t = SubSeq(s, 1, n)
  OBVIOUS
<1>2. /\ t \in Seq(STRING) /\ Len(t) = n /\ \A i \in 1 .. n : t[i] = s[i]
  BY <1>1, PartIs
<1>3. Solid(t) = Solid(s)
  <2>1. DOMAIN s = 1 .. n + 1 /\ DOMAIN t = 1 .. n
    BY <1>2, LenProperties
  <2>2. ASSUME NEW k \in 1 .. n PROVE k \in Solid(t) <=> k \in Solid(s)
    BY <1>2, <2>1 DEF Solid, Places
  <2>3. \A k : k \in Solid(s) => k \in 1 .. n
    BY <2>1 DEF Solid, Places
  <2>4. \A k : k \in Solid(t) => k \in 1 .. n
    BY <2>1 DEF Solid, Places
  <2>5. QED
    BY <2>2, <2>3, <2>4
<1>4. CASE Solid(s) = {}
  BY <1>1, <1>3, <1>4 DEF Trim, Solid
<1>5. CASE Solid(s) # {}
  <2>1. PICK a, g : a = Least(Solid(s)) /\ g = Greatest(Solid(s))
    OBVIOUS
  <2>2. a \in 1 .. n /\ g \in 1 .. n
    BY <1>2, <1>3, <1>5, <2>1, SolidIn
  <2>3. Trim(s) = SubSeq(s, a, g) /\ Trim(t) = SubSeq(t, a, g)
    BY <1>3, <1>5, <2>1 DEF Trim, Solid
  <2>4. SubSeq(t, a, g) = SubSeq(s, a, g)
    <3>1. /\ SubSeq(t, a, g) \in Seq(STRING) /\ SubSeq(s, a, g) \in Seq(STRING)
          /\ Len(SubSeq(t, a, g)) = Len(SubSeq(s, a, g))
          /\ Len(SubSeq(t, a, g)) = IF a <= g THEN g - a + 1 ELSE 0
          /\ \A i \in 1 .. g - a + 1 :
               SubSeq(t, a, g)[i] = t[a + i - 1] /\ SubSeq(s, a, g)[i] = s[a + i - 1]
      BY <1>2, <2>2, PartIs
    <3>2. \A i \in 1 .. g - a + 1 : a + i - 1 \in 1 .. n
      BY <2>2
    <3>3. \A i \in 1 .. Len(SubSeq(t, a, g)) : SubSeq(t, a, g)[i] = SubSeq(s, a, g)[i]
      BY <1>2, <2>2, <3>1, <3>2
    <3>4. QED
      BY <3>1, <3>3, SeqEqual
  <2>5. QED
    BY <1>1, <2>3, <2>4
<1>6. QED
  BY <1>4, <1>5

-----------------------------------------------------------------------------
(* Lines *)

\* The ends of lines.
LEMMA EndsIn ==
  ASSUME NEW c \in Seq(STRING)
  PROVE  Ends(c) \subseteq 0 .. Len(c) + 1 /\ 0 \in Ends(c) /\ Len(c) + 1 \in Ends(c)
BY PlacesIn, LenProperties DEF Ends

\* A line is what is between an end and the next one.
LEMMA LineIs ==
  ASSUME NEW c \in Seq(STRING), NEW l \in WholeLines(c)
  PROVE  /\ l.from \in Ends(c) /\ l.from \in 0 .. Len(c) /\ l.line \in Seq(STRING)
         /\ \E b \in Ends(c) : /\ Adjacent(c, l.from, b)
                               /\ l = [from |-> l.from, line |-> Trim(SubSeq(c, l.from + 1, b - 1))]
<1>1. PICK a \in Ends(c), b \in Ends(c) :
         Adjacent(c, a, b) /\ l = [from |-> a, line |-> Trim(SubSeq(c, a + 1, b - 1))]
  <2>1. PICK p \in {q \in Ends(c) \X Ends(c) : Adjacent(c, q[1], q[2])} :
           l = [from |-> p[1], line |-> Trim(SubSeq(c, p[1] + 1, p[2] - 1))]
    BY DEF WholeLines
  <2>2. p[1] \in Ends(c) /\ p[2] \in Ends(c) /\ Adjacent(c, p[1], p[2])
    OBVIOUS
  <2>3. QED
    BY <2>1, <2>2
<1>2. Len(c) \in Nat /\ a \in 0 .. Len(c) + 1 /\ b \in 0 .. Len(c) + 1 /\ a < b
  BY <1>1, EndsIn, LenProperties DEF Adjacent
<1>3. SubSeq(c, a + 1, b - 1) \in Seq(STRING)
  <2>1. a + 1 \in Nat /\ b - 1 \in Nat /\ 1 <= a + 1 /\ b - 1 <= Len(c)
    BY <1>2
  <2>2. QED
    BY <2>1, PartIs
<1>4. l.from = a /\ l.line = Trim(SubSeq(c, a + 1, b - 1)) /\ a \in 0 .. Len(c)
  BY <1>1, <1>2
<1>5. l.line \in Seq(STRING)
  BY <1>3, <1>4, TrimTyped
<1>6. /\ Adjacent(c, l.from, b)
      /\ l = [from |-> l.from, line |-> Trim(SubSeq(c, l.from + 1, b - 1))]
  BY <1>1, <1>4
<1>7. QED
  BY <1>1, <1>4, <1>5, <1>6

\* Between neighbouring ends there is a line.
LEMMA LineThere ==
  ASSUME NEW c \in Seq(STRING), NEW a \in Ends(c), NEW b \in Ends(c), Adjacent(c, a, b)
  PROVE  [from |-> a, line |-> Trim(SubSeq(c, a + 1, b - 1))] \in WholeLines(c)
<1>1. <<a, b>> \in {q \in Ends(c) \X Ends(c) : Adjacent(c, q[1], q[2])}
  OBVIOUS
<1>2. QED
  BY <1>1 DEF WholeLines

\* No two lines begin at the same place.
LEMMA LinesDiffer ==
  ASSUME NEW c \in Seq(STRING), NEW l \in WholeLines(c), NEW m \in WholeLines(c), l.from = m.from
  PROVE  l = m
<1>1. PICK b \in Ends(c) : /\ Adjacent(c, l.from, b)
                           /\ l = [from |-> l.from, line |-> Trim(SubSeq(c, l.from + 1, b - 1))]
  BY LineIs
<1>2. PICK d \in Ends(c) : /\ Adjacent(c, m.from, d)
                           /\ m = [from |-> m.from, line |-> Trim(SubSeq(c, m.from + 1, d - 1))]
  BY LineIs
<1>3. b = d
  <2>1. b \in Int /\ d \in Int
    BY EndsIn, LenProperties
  <2>2. ~(b < d) /\ ~(d < b)
    BY <1>1, <1>2 DEF Adjacent
  <2>3. QED
    BY <2>1, <2>2
<1>4. QED
  BY <1>1, <1>2, <1>3

\* A line begins at every end but the last.
LEMMA NextEnd ==
  ASSUME NEW c \in Seq(STRING), NEW a \in Ends(c), a <= Len(c)
  PROVE  \E b \in Ends(c) : Adjacent(c, a, b)
<1> DEFINE later == {e \in Ends(c) : a < e}
<1>1. Len(c) + 1 \in later /\ later \subseteq Nat
  BY EndsIn, LenProperties
<1>2. PICK b \in later : \A e \in later : b <= e
  <2> HIDE DEF later
  <2>1. QED
    BY <1>1, HasLeast
<1>3. ASSUME NEW e \in Ends(c), a < e, e < b PROVE FALSE
  <2>1. b <= e
    BY <1>2, <1>3
  <2>2. b \in Int /\ e \in Int
    BY EndsIn, LenProperties
  <2>3. QED
    BY <1>3, <2>1, <2>2
<1>4. QED
  BY <1>3 DEF Adjacent

\* Of some lines one is the last,
LEMMA LastIs ==
  ASSUME NEW c \in Seq(STRING), NEW lines \in SUBSET WholeLines(c), lines # {}
  PROVE  LastOf(lines) \in lines /\ \A m \in lines : m.from <= LastOf(lines).from
<1> DEFINE froms == {l.from : l \in lines}
<1>1. froms \subseteq 0 .. Len(c) /\ froms # {} /\ Len(c) \in Nat
  BY LineIs, LenProperties
<1>2. PICK f \in froms : \A g \in froms : g <= f
  <2> HIDE DEF froms
  <2>1. froms \subseteq Nat /\ \A g \in froms : g <= Len(c)
    BY <1>1
  <2>2. QED
    BY <1>1, <2>1, HasGreatest
<1>3. PICK l \in lines : l.from = f
  OBVIOUS
<1>4. \A m \in lines : m.from <= l.from
  BY <1>2, <1>3
<1>5. QED
  BY <1>4 DEF LastOf

\* and no other is.
LEMMA LastOnly ==
  ASSUME NEW c \in Seq(STRING), NEW lines \in SUBSET WholeLines(c), NEW l \in lines,
         \A m \in lines : m.from <= l.from
  PROVE  LastOf(lines) = l
<1>1. LastOf(lines) \in lines /\ l.from <= LastOf(lines).from /\ LastOf(lines).from <= l.from
  BY LastIs
<1>2. l.from \in Int /\ LastOf(lines).from \in Int
  BY <1>1, LineIs
<1>3. QED
  BY <1>1, <1>2, LinesDiffer

\* What fgets() takes.
LEMMA PieceIs ==
  ASSUME NEW t \in Seq(STRING)
  PROVE  /\ Piece(t) \in Seq(STRING) /\ Len(Piece(t)) \in 0 .. Len(t)
         /\ Piece(t) = SubSeq(t, 1, Len(Piece(t)))
         /\ t # <<>> => Len(Piece(t)) > 0
         /\ Len(Piece(t)) = Least({Buf - 1, Len(t)} \cup Places(t, {"nl"}))
<1> DEFINE T == {Buf - 1, Len(t)} \cup Places(t, {"nl"})
<1>1. T \subseteq Nat /\ T # {} /\ Len(t) \in T /\ Len(t) \in Nat
  BY PlacesIn, LenProperties
<1>2. PICK n : n = Least(T)
  OBVIOUS
<1>3. n \in T /\ n \in Nat /\ n <= Len(t)
  <2> HIDE DEF T
  <2>1. QED
    BY <1>1, <1>2, LeastIs
<1>4. Piece(t) = SubSeq(t, 1, n)
  BY <1>2 DEF Piece
<1>5. SubSeq(t, 1, n) \in Seq(STRING) /\ Len(SubSeq(t, 1, n)) = n
  <2>1. Len(SubSeq(t, 1, n)) = IF 1 <= n THEN n - 1 + 1 ELSE 0
    BY <1>3, PartIs
  <2>2. QED
    BY <1>1, <1>3, <2>1, PartIs
<1>6. t # <<>> => n > 0
  <2>1. ASSUME t # <<>> PROVE Len(t) > 0
    BY <2>1, EmptySeq
  <2>2. \A k \in Places(t, {"nl"}) : k > 0
    BY PlacesIn
  <2>3. QED
    BY <1>3, <2>1, <2>2
<1>7. Len(Piece(t)) = n /\ Piece(t) \in Seq(STRING)
  BY <1>4, <1>5
<1> HIDE DEF T
<1>8. Len(Piece(t)) = Least(T)
  BY <1>2, <1>7
<1>9. n \in 0 .. Len(t)
  BY <1>1, <1>3
<1>10. QED
  BY <1>4, <1>6, <1>7, <1>8, <1>9 DEF T

\* From place w to place x in the file there is the one line l.
Passed(c, w, x, l) ==
    /\ l \in WholeLines(c) /\ l.from = w
    /\ \A m \in WholeLines(c) : m.from < x <=> m.from < w \/ m = l

\* From the beginning of a line that fits its buffer, fgets() takes that line and no more.
LEMMA NextLine ==
  ASSUME NEW c \in Seq(STRING), NEW w \in Ends(c), w \in 0 .. Len(c), LinesFit(c),
         NEW t, t = SubSeq(c, w + 1, Len(c)), t # <<>>
  PROVE  \E l \in WholeLines(c) :
           /\ Passed(c, w, w + Len(Piece(t)), l) /\ l.line = Trim(Piece(t))
           /\ w + Len(Piece(t)) \in Ends(c) \/ Len(Piece(t)) = Len(t)
<1> DEFINE n == Len(c)
           p == Len(Piece(t))
<1>1. n \in Nat /\ w \in Nat /\ w <= n
  BY LenProperties
<1>2. /\ t \in Seq(STRING) /\ Len(t) = n - w /\ w < n
      /\ \A i \in 1 .. n - w : t[i] = c[w + i]
  <2>1. w + 1 \in Nat /\ n \in Nat /\ 1 <= w + 1 /\ n <= Len(c)
    BY <1>1
  <2>2. /\ t \in Seq(STRING) /\ Len(t) = IF w + 1 <= n THEN n - (w + 1) + 1 ELSE 0
        /\ \A i \in 1 .. n - (w + 1) + 1 : t[i] = c[w + 1 + i - 1]
    BY <2>1, PartIs
  <2>3. Len(t) # 0
    BY <2>2, EmptySeq
  <2> HIDE DEF n
  <2>4. w < n /\ Len(t) = n - w /\ n - (w + 1) + 1 = n - w
    BY <1>1, <2>2, <2>3
  <2>5. \A i \in 1 .. n - w : w + 1 + i - 1 = w + i
    BY <1>1
  <2>6. QED
    BY <2>2, <2>4, <2>5
<1>3. /\ p \in 0 .. n - w /\ p > 0 /\ Piece(t) \in Seq(STRING) /\ Piece(t) = SubSeq(t, 1, p)
      /\ p = Least({Buf - 1, n - w} \cup Places(t, {"nl"}))
  BY <1>2, PieceIs
<1>4. PICK b \in Ends(c) : Adjacent(c, w, b)
  BY <1>1, NextEnd
<1>5. b \in Nat /\ w < b /\ b <= n + 1 /\ b - w < Buf
  BY <1>1, <1>4, EndsIn DEF Adjacent, LinesFit
<1> HIDE DEF n, p
<1>6. p \in Nat /\ 0 < p /\ p <= n - w
  BY <1>1, <1>3
<1>7. w \in Nat /\ n \in Nat /\ b \in Nat /\ w < n /\ w < b /\ b <= n + 1
  BY <1>1, <1>2, <1>5
<1>8. ASSUME NEW k \in Places(t, {"nl"}) PROVE k \in 1 .. n - w /\ b - w <= k
  <2>1. k \in 1 .. n - w /\ t[k] = "nl"
    BY <1>2, PlacesIn DEF Places
  <2>2. w + k \in 1 .. n /\ c[w + k] = "nl"
    BY <1>1, <1>2, <2>1
  <2>3. w + k \in Ends(c)
    BY <2>2, LenProperties DEF Ends, Places, n
  <2>4. ~(w + k < b)
    BY <1>1, <1>4, <2>1, <2>3 DEF Adjacent
  <2>5. QED
    BY <1>1, <1>5, <2>1, <2>4
<1>9. PICK T : T = {Buf - 1, n - w} \cup Places(t, {"nl"})
  OBVIOUS
<1>10. p \in T /\ \A k \in T : p <= k
  <2>1. T \subseteq Nat /\ T # {}
    BY <1>1, <1>2, <1>8, <1>9
  <2>2. QED
    BY <1>3, <1>9, <2>1, LeastIs
<1>11. p <= b - w /\ (p = b - w \/ p = n - w) /\ Trim(SubSeq(c, w + 1, b - 1)) = Trim(Piece(t))
  <2>1. CASE b <= n
    <3>1. b \in 1 .. n /\ c[b] = "nl"
      BY <1>1, <1>5, <2>1, LenProperties DEF Ends, Places, n
    <3>2. b - w \in Places(t, {"nl"})
      <4>1. b - w \in 1 .. n - w /\ w + (b - w) = b
        BY <1>1, <1>5, <2>1
      <4>2. t[b - w] = "nl"
        BY <1>2, <3>1, <4>1
      <4>3. QED
        BY <1>2, <4>1, <4>2, LenProperties DEF Places
    <3>3. p = b - w
      <4>1. p <= b - w
        BY <1>9, <1>10, <3>2
      <4>2. \A k \in T : b - w <= k
        BY <1>1, <1>5, <1>8, <1>9, <2>1
      <4>3. b - w <= p
        BY <1>10, <4>2
      <4>4. QED
        BY <1>6, <1>7, <4>1, <4>3
    <3>4. PICK q \in Nat : p = q + 1 /\ b - 1 = w + q /\ q <= n
      <4>1. p - 1 \in Nat /\ p = (p - 1) + 1 /\ b - 1 = w + (p - 1) /\ p - 1 <= n
        BY <1>6, <1>7, <2>1, <3>3
      <4>2. QED
        BY <4>1
    <3>5. /\ Len(Piece(t)) = q + 1 /\ Piece(t)[q + 1] = "nl"
          /\ \A i \in 1 .. q : Piece(t)[i] = c[w + i]
      <4>1. 1 \in Nat /\ p \in Nat /\ 1 <= p /\ p <= Len(t) /\ p - 1 + 1 = p
        BY <1>1, <1>2, <1>3
      <4>2. \A i \in 1 .. p - 1 + 1 : SubSeq(t, 1, p)[i] = t[1 + i - 1]
        BY <1>2, <4>1, PartIs
      <4>3. \A i \in 1 .. p : 1 + i - 1 = i /\ i \in 1 .. n - w
        BY <1>6, <1>7
      <4>4. \A i \in 1 .. p : Piece(t)[i] = c[w + i]
        <5>1. ASSUME NEW i \in 1 .. p PROVE Piece(t)[i] = c[w + i]
          <6>1. Piece(t)[i] = t[i]
            BY <1>3, <4>1, <4>2, <4>3
          <6>2. QED
            BY <1>2, <4>3, <6>1
        <5>2. QED
          BY <5>1
      <4>5. w + (q + 1) = b /\ q + 1 \in 1 .. p /\ \A i \in 1 .. q : i \in 1 .. p
        BY <1>6, <1>7, <3>4
      <4>6. QED
        BY <3>1, <3>4, <4>4, <4>5 DEF p
    <3>6. Trim(SubSeq(Piece(t), 1, q)) = Trim(Piece(t))
      BY <1>3, <3>5, TrimEnd DEF Blank
    <3>7. SubSeq(Piece(t), 1, q) = SubSeq(c, w + 1, w + q)
      <4>1. /\ SubSeq(Piece(t), 1, q) \in Seq(STRING)
            /\ Len(SubSeq(Piece(t), 1, q)) = IF 1 <= q THEN q - 1 + 1 ELSE 0
            /\ \A i \in 1 .. q - 1 + 1 : SubSeq(Piece(t), 1, q)[i] = Piece(t)[1 + i - 1]
        <5>1. 1 \in Nat /\ 1 <= 1 /\ q <= Len(Piece(t))
          BY <3>5
        <5>2. QED
          BY <1>3, <5>1, PartIs
      <4>2. /\ SubSeq(c, w + 1, w + q) \in Seq(STRING)
            /\ Len(SubSeq(c, w + 1, w + q)) = IF w + 1 <= w + q THEN w + q - (w + 1) + 1 ELSE 0
            /\ \A i \in 1 .. w + q - (w + 1) + 1 : SubSeq(c, w + 1, w + q)[i] = c[w + 1 + i - 1]
        <5>1. w + 1 \in Nat /\ w + q \in Nat /\ 1 <= w + 1 /\ w + q <= Len(c)
          BY <1>1, <1>5, <2>1, <3>4 DEF n
        <5>2. QED
          BY <5>1, PartIs
      <4>3. /\ q - 1 + 1 = q /\ w + q - (w + 1) + 1 = q /\ (1 <= q <=> w + 1 <= w + q)
            /\ \A i \in 1 .. q : 1 + i - 1 = i /\ w + 1 + i - 1 = w + i
        BY <1>1
      <4>4. Len(SubSeq(Piece(t), 1, q)) = q /\ Len(SubSeq(c, w + 1, w + q)) = q
        BY <4>1, <4>2, <4>3
      <4>5. \A i \in 1 .. q : SubSeq(Piece(t), 1, q)[i] = SubSeq(c, w + 1, w + q)[i]
        BY <3>5, <4>1, <4>2, <4>3
      <4>6. QED
        BY <4>1, <4>2, <4>4, <4>5, SeqEqual
    <3>8. QED
      <4>1. p <= b - w
        BY <1>6, <1>7, <3>3
      <4>2. SubSeq(Piece(t), 1, q) = SubSeq(c, w + 1, b - 1)
        BY <3>4, <3>7
      <4>3. QED
        BY <3>3, <3>6, <4>1, <4>2
  <2>2. CASE b = n + 1
    <3>1. \A k \in T : k >= n - w
      BY <1>1, <1>5, <1>8, <1>9, <2>2
    <3>2. p = n - w
      <4>1. p >= n - w
        BY <1>10, <3>1
      <4>2. QED
        BY <1>6, <1>7, <4>1
    <3>3. Piece(t) = t
      <4>1. Len(t) = p /\ t \in Seq(STRING)
        BY <1>2, <3>2
      <4>2. Piece(t) = SubSeq(t, 1, Len(t))
        BY <1>3, <4>1
      <4>3. QED
        BY <4>1, <4>2, SubSeqFull
    <3>4. b - 1 = n
      BY <1>1, <2>2
    <3>5. QED
      <4>1. p <= b - w
        BY <1>6, <1>7, <3>2, <2>2
      <4>2. t = SubSeq(c, w + 1, b - 1)
        BY <3>4 DEF n
      <4>3. QED
        BY <3>2, <3>3, <4>1, <4>2
  <2>3. QED
    BY <1>1, <1>5, <2>1, <2>2
<1>12. PICK l \in WholeLines(c) : l.from = w /\ l.line = Trim(Piece(t))
  <2>1. [from |-> w, line |-> Trim(SubSeq(c, w + 1, b - 1))] \in WholeLines(c)
    BY <1>4, LineThere
  <2>2. QED
    BY <1>11, <2>1
<1>13. w + p \in Ends(c) \/ p = Len(t)
  <2>1. p = b - w => w + p = b
    BY <1>6, <1>7
  <2>2. QED
    BY <1>2, <1>11, <2>1
<1>14. ASSUME NEW m \in WholeLines(c) PROVE m.from < w + p <=> m.from < w \/ m = l
  <2>1. m.from \in Nat /\ m.from \in Ends(c)
    BY LineIs
  <2>2. ~(w < m.from /\ m.from < b)
    BY <1>4, <2>1 DEF Adjacent
  <2>3. m.from = w => m = l
    BY <1>12, LinesDiffer
  <2>4. m = l => m.from = w
    BY <1>12
  <2>5. m.from < w + p => m.from < b
    BY <1>1, <1>3, <1>5, <1>11, <2>1
  <2>6. QED
    BY <1>1, <1>3, <2>1, <2>2, <2>3, <2>4, <2>5
<1>15. Passed(c, w, w + p, l)
  BY <1>12, <1>14 DEF Passed
<1>16. QED
  BY <1>12, <1>13, <1>15 DEF p

-----------------------------------------------------------------------------
(* The table *)

\* Sequences with the same domain have the same length.
LEMMA SameInterval == ASSUME NEW a \in Nat, NEW b \in Nat, 1 .. a = 1 .. b PROVE a = b
<1>1. ASSUME a < b PROVE FALSE
  <2>1. b \in 1 .. b /\ b \notin 1 .. a
    BY <1>1
  <2>2. QED
    BY <2>1
<1>2. ASSUME b < a PROVE FALSE
  <2>1. a \in 1 .. a /\ a \notin 1 .. b
    BY <1>2
  <2>2. QED
    BY <2>1
<1>3. QED
  BY <1>1, <1>2

\* What storing a setting does to a table.
LEMMA StoredIs ==
  ASSUME NEW e \in Seq(Setting), NEW s \in Seq(STRING), NEW k \in Seq(STRING), NEW v \in Seq(STRING)
  PROVE  /\ Stored(e, s, k, v) \in Seq(Setting)
         /\ Find(e, s, k) # {} =>
              /\ DOMAIN Stored(e, s, k, v) = DOMAIN e /\ Len(Stored(e, s, k, v)) = Len(e)
              /\ \A i \in DOMAIN e :
                   /\ i \in Find(e, s, k) => Stored(e, s, k, v)[i] = [section |-> s, key |-> k, value |-> v]
                   /\ i \notin Find(e, s, k) => Stored(e, s, k, v)[i] = e[i]
         /\ Find(e, s, k) = {} =>
              /\ DOMAIN Stored(e, s, k, v) = 1 .. Len(e) + 1 /\ Len(Stored(e, s, k, v)) = Len(e) + 1
              /\ \A i \in DOMAIN e : Stored(e, s, k, v)[i] = e[i]
              /\ Stored(e, s, k, v)[Len(e) + 1] = [section |-> s, key |-> k, value |-> v]
<1>1. Len(e) \in Nat /\ DOMAIN e = 1 .. Len(e) /\ \A i \in 1 .. Len(e) : e[i] \in Setting
  BY LenProperties, ElementOfSeq
<1>2. [section |-> s, key |-> k, value |-> v] \in Setting
  BY DEF Setting
<1>3. CASE Find(e, s, k) # {}
  <2>1. PICK f : f = [i \in 1 .. Len(e) |-> IF i \in Find(e, s, k) THEN [e[i] EXCEPT !.value = v] ELSE e[i]]
    OBVIOUS
  <2>2. Stored(e, s, k, v) = f
    BY <1>1, <1>3, <2>1 DEF Stored
  <2>3. ASSUME NEW i \in 1 .. Len(e)
        PROVE  /\ i \in Find(e, s, k) => f[i] = [section |-> s, key |-> k, value |-> v]
               /\ i \notin Find(e, s, k) => f[i] = e[i]
    <3>1. PICK x \in Setting : x = e[i]
      BY <1>1
    <3>2. [x EXCEPT !.value = v] = [section |-> x.section, key |-> x.key, value |-> v]
      <4>1. PICK a, b, d : x = [section |-> a, key |-> b, value |-> d]
        BY DEF Setting
      <4>2. QED
        BY <4>1
    <3>3. i \in Find(e, s, k) => e[i].section = s /\ e[i].key = k
      BY DEF Find
    <3>4. QED
      BY <2>1, <3>1, <3>2, <3>3
  <2>4. \A i \in 1 .. Len(e) : f[i] \in Setting
    BY <1>1, <1>2, <2>3
  <2>5. f \in [1 .. Len(e) -> Setting]
    BY <2>1, <2>4
  <2>6. f \in Seq(Setting) /\ Len(f) = Len(e) /\ DOMAIN f = DOMAIN e
    <3>1. f \in Seq(Setting)
      BY <1>1, <2>5, SeqDef
    <3>2. DOMAIN f = 1 .. Len(f) /\ Len(f) \in Nat
      BY <3>1, LenProperties
    <3>3. 1 .. Len(f) = 1 .. Len(e)
      BY <2>1, <3>2
    <3>4. Len(f) = Len(e)
      BY <1>1, <3>2, <3>3, SameInterval
    <3>5. QED
      BY <1>1, <3>1, <3>2, <3>4
  <2>7. QED
    BY <1>1, <1>3, <2>2, <2>3, <2>6
<1>4. CASE Find(e, s, k) = {}
  <2>1. Stored(e, s, k, v) = Append(e, [section |-> s, key |-> k, value |-> v])
    BY <1>4 DEF Stored
  <2>2. QED
    BY <1>1, <1>2, <1>4, <2>1, AppendProperties, LenProperties
<1>5. QED
  BY <1>3, <1>4

\* The line that is read is a text.
LEMMA LineTyped ==
  ASSUME TextTyped
  PROVE  /\ Trim(Piece(text)) \in Seq(STRING)
         /\ SubSeq(text, Len(Piece(text)) + 1, Len(text)) \in Seq(STRING)
         /\ Len(SubSeq(text, Len(Piece(text)) + 1, Len(text))) = Len(text) - Len(Piece(text))
<1>1. PICK p : p = Len(Piece(text))
  OBVIOUS
<1>2. text \in Seq(STRING) /\ Piece(text) \in Seq(STRING) /\ p \in 0 .. Len(text) /\ Len(text) \in Nat
  BY <1>1, PieceIs, LenProperties DEF TextTyped
<1>3. p + 1 \in Nat /\ 1 <= p + 1
  BY <1>2
<1>4. /\ SubSeq(text, p + 1, Len(text)) \in Seq(STRING)
      /\ Len(SubSeq(text, p + 1, Len(text))) = IF p + 1 <= Len(text) THEN Len(text) - (p + 1) + 1 ELSE 0
  BY <1>2, <1>3, PartIs
<1>5. Len(SubSeq(text, p + 1, Len(text))) = Len(text) - p
  BY <1>2, <1>4
<1>6. QED
  BY <1>1, <1>2, <1>4, <1>5, TrimTyped

\* A setting that is not refused fits, and the table keeps its shape with it.
LEMMA StoreSound ==
  ASSUME TableInv, NEW line \in Seq(STRING), ~Refused(line),
         entries' = Stored(entries, section, Key(line), Value(line))
  PROVE  entries' \in Seq(Setting) /\ TableSound'
<1>1. PICK k, v : k = Key(line) /\ v = Value(line)
  OBVIOUS
<1>2. /\ k \in Seq(STRING) /\ v \in Seq(STRING) /\ section \in Seq(STRING) /\ entries \in Seq(Setting)
      /\ Len(section) < SectionMax
  BY <1>1, KeyTyped, ValueTyped DEF Refused, TableInv
<1>3. /\ entries' = Stored(entries, section, k, v)
      /\ Len(v) < ValueMax
      /\ Find(entries, section, k) = {} => Len(entries) < MaxEntries /\ Len(k) < KeyMax
  <2>1. Len(v) \in Nat /\ Len(k) \in Nat /\ Len(entries) \in Nat
    BY <1>2, LenProperties
  <2>2. QED
    BY <1>1, <2>1 DEF Refused, Room
<1>4. /\ Len(entries) \in Nat /\ DOMAIN entries = 1 .. Len(entries) /\ Len(entries) <= MaxEntries
      /\ \A i, j \in DOMAIN entries :
            entries[i].section = entries[j].section /\ entries[i].key = entries[j].key => i = j
      /\ \A i \in DOMAIN entries :
            /\ Len(entries[i].section) < SectionMax /\ Len(entries[i].key) < KeyMax
            /\ Len(entries[i].value) < ValueMax
  BY <1>2, LenProperties DEF TableInv, TableSound
<1>5. PICK r : r = [section |-> section, key |-> k, value |-> v]
  OBVIOUS
<1>6. r.section = section /\ r.key = k /\ r.value = v
  BY <1>5
<1>7. PICK e : e = entries'
  OBVIOUS
<1>8. e \in Seq(Setting)
  <2>1. Stored(entries, section, k, v) \in Seq(Setting)
    BY <1>2, StoredIs
  <2>2. QED
    BY <1>3, <1>7, <2>1
<1>9. CASE Find(entries, section, k) # {}
  <2>1. /\ DOMAIN e = DOMAIN entries /\ Len(e) = Len(entries)
        /\ \A i \in DOMAIN entries :
             /\ i \in Find(entries, section, k) => e[i] = r
             /\ i \notin Find(entries, section, k) => e[i] = entries[i]
    BY <1>2, <1>3, <1>5, <1>7, <1>9, StoredIs
  <2>2. \A i \in DOMAIN entries :
          /\ e[i].section = entries[i].section /\ e[i].key = entries[i].key
          /\ Len(e[i].value) < ValueMax
    BY <1>3, <1>4, <1>6, <2>1 DEF Find
  <2>3. QED
    <3>1. \A i, j \in DOMAIN e : e[i].section = e[j].section /\ e[i].key = e[j].key => i = j
      BY <1>4, <2>1, <2>2
    <3>2. \A i \in DOMAIN e :
             /\ Len(e[i].section) < SectionMax /\ Len(e[i].key) < KeyMax
             /\ Len(e[i].value) < ValueMax
      BY <1>4, <2>1, <2>2
    <3>3. Len(e) <= MaxEntries
      BY <1>4, <2>1
    <3>4. QED
      BY <1>7, <1>8, <3>1, <3>2, <3>3 DEF TableSound
<1>10. CASE Find(entries, section, k) = {}
  <2>1. /\ DOMAIN e = 1 .. Len(entries) + 1 /\ Len(e) = Len(entries) + 1
        /\ \A i \in DOMAIN entries : e[i] = entries[i]
        /\ e[Len(entries) + 1] = r
    BY <1>2, <1>3, <1>5, <1>7, <1>10, StoredIs
  <2>2. PICK n : n = Len(entries)
    OBVIOUS
  <2>3. /\ DOMAIN e = 1 .. n + 1 /\ Len(e) = n + 1 /\ n \in Nat /\ n < MaxEntries
        /\ \A i \in 1 .. n : e[i] = entries[i]
        /\ e[n + 1] = r
    BY <1>3, <1>4, <1>10, <2>1, <2>2
  <2>4. \A i \in 1 .. n : ~(entries[i].section = section /\ entries[i].key = k)
    BY <1>4, <1>10, <2>2 DEF Find
  <2>5. \A i, j \in 1 .. n + 1 : e[i].section = e[j].section /\ e[i].key = e[j].key => i = j
    <3>1. ASSUME NEW i \in 1 .. n + 1, NEW j \in 1 .. n + 1,
                 e[i].section = e[j].section, e[i].key = e[j].key
          PROVE  i = j
      <4>1. i \in 1 .. n \/ i = n + 1
        BY <2>3
      <4>2. j \in 1 .. n \/ j = n + 1
        BY <2>3
      <4>3. CASE i \in 1 .. n /\ j \in 1 .. n
        BY <1>4, <2>2, <2>3, <3>1, <4>3
      <4>4. CASE i \in 1 .. n /\ j = n + 1
        BY <1>6, <2>3, <2>4, <3>1, <4>4
      <4>5. CASE i = n + 1 /\ j \in 1 .. n
        BY <1>6, <2>3, <2>4, <3>1, <4>5
      <4>6. QED
        BY <4>1, <4>2, <4>3, <4>4, <4>5
    <3>2. QED
      BY <3>1
  <2>6. ASSUME NEW i \in 1 .. n + 1
        PROVE  Len(e[i].section) < SectionMax /\ Len(e[i].key) < KeyMax /\ Len(e[i].value) < ValueMax
    <3>1. i \in 1 .. n \/ i = n + 1
      BY <2>3
    <3>2. CASE i \in 1 .. n
      BY <1>4, <2>2, <2>3, <3>2
    <3>3. CASE i = n + 1
      BY <1>2, <1>3, <1>6, <1>10, <2>3, <3>3
    <3>4. QED
      BY <3>1, <3>2, <3>3
  <2>7. Len(e) <= MaxEntries
    BY <2>3
  <2>8. QED
    BY <1>7, <1>8, <2>3, <2>5, <2>6, <2>7 DEF TableSound
<1>11. QED
  BY <1>9, <1>10

\* Whatever a line says, the table stays sound.
LEMMA TableRead == ASSUME TableInv, ReadLine, contents' = contents PROVE TableInv'
<1>1. PICK line : line = Trim(Piece(text))
  OBVIOUS
<1>2. line \in Seq(STRING) /\ TextTyped'
  BY <1>1, LineTyped DEF ReadLine, TableInv, TextTyped
<1>3. CASE UNCHANGED <<section, entries>>
  BY <1>2, <1>3 DEF TableInv, TableSound
<1>4. CASE IsSection(line) /\ ~BadSection(line) /\ section' = SectionName(line) /\ UNCHANGED entries
  <2>1. section' \in Seq(STRING)
    BY <1>2, <1>4, NameTyped DEF IsSection, Nothing
  <2>2. Len(section') < SectionMax
    <3>1. Len(section') \in Nat
      BY <2>1, LenProperties
    <3>2. QED
      BY <1>4, <3>1 DEF BadSection
  <2>3. QED
    BY <1>2, <1>4, <2>1, <2>2 DEF TableInv, TableSound
<1>5. CASE /\ ~Refused(line) /\ entries' = Stored(entries, section, Key(line), Value(line))
           /\ UNCHANGED section
  BY <1>2, <1>5, StoreSound DEF TableInv
<1>6. QED
  BY <1>1, <1>3, <1>4, <1>5 DEF ReadLine

-----------------------------------------------------------------------------
(* What the table says while the file is read *)

\* A section line begins a section, and no other line does.
LEMMA SectionPast ==
  ASSUME NEW c \in Seq(STRING), NEW w, NEW x, NEW l, Passed(c, w, x, l)
  PROVE  SectionAt(c, x) = IF IsSection(l.line) THEN SectionName(l.line) ELSE SectionAt(c, w)
<1> DEFINE above(y) == {m \in WholeLines(c) : IsSection(m.line) /\ m.from < y}
<1>1. /\ l \in WholeLines(c) /\ l.from = w
      /\ \A m \in WholeLines(c) : m.from < x <=> m.from < w \/ m = l
  BY DEF Passed
<1>2. SectionAt(c, x) = IF above(x) = {} THEN <<>> ELSE SectionName(LastOf(above(x)).line)
  BY DEF SectionAt
<1>3. CASE ~IsSection(l.line)
  <2>1. above(x) = above(w)
    BY <1>1, <1>3
  <2>2. SectionAt(c, w) = IF above(w) = {} THEN <<>> ELSE SectionName(LastOf(above(w)).line)
    BY DEF SectionAt
  <2> HIDE DEF above
  <2>3. QED
    BY <1>2, <1>3, <2>1, <2>2
<1>4. CASE IsSection(l.line)
  <2>1. l \in above(x) /\ above(x) \in SUBSET WholeLines(c)
    BY <1>1, <1>4
  <2>2. ASSUME NEW m \in above(x) PROVE m.from <= l.from
    <3>1. m \in WholeLines(c) /\ (m.from < w \/ m = l)
      BY <1>1
    <3>2. m.from \in Int /\ l.from \in Int
      BY <1>1, <3>1, LineIs
    <3>3. QED
      BY <1>1, <3>1, <3>2
  <2> HIDE DEF above
  <2>3. LastOf(above(x)) = l
    BY <2>1, <2>2, LastOnly
  <2>4. QED
    BY <1>2, <1>4, <2>1, <2>3
<1>5. QED
  BY <1>3, <1>4

\* A line about another setting takes nothing back.
LEMMA SaidPast ==
  ASSUME NEW c, NEW w, NEW x, NEW l, Passed(c, w, x, l), NEW e,
         SaidBefore(c, w, e), l \notin Assigning(c, e.section, e.key)
  PROVE  SaidBefore(c, x, e)
<1>1. Assigning(c, e.section, e.key) \subseteq WholeLines(c)
  BY DEF Assigning, Settling
<1>2. PICK A : A = Assigning(c, e.section, e.key)
  OBVIOUS
<1>3. PICK r \in A : r.from < w /\ e.value = Value(r.line) /\ \A m \in A : m.from < w => m.from <= r.from
  BY <1>2 DEF SaidBefore
<1>4. \A m \in A : m.from < x <=> m.from < w
  BY <1>1, <1>2 DEF Passed
<1>5. r.from < x /\ \A m \in A : m.from < x => m.from <= r.from
  BY <1>3, <1>4
<1>6. QED
  BY <1>2, <1>3, <1>5 DEF SaidBefore

\* A line about this one is the last so far.
LEMMA SaidNow ==
  ASSUME NEW c \in Seq(STRING), NEW w, NEW x, NEW l, Passed(c, w, x, l), NEW e,
         l \in Assigning(c, e.section, e.key), e.value = Value(l.line)
  PROVE  SaidBefore(c, x, e)
<1>1. l.from < x
  BY DEF Passed
<1>2. ASSUME NEW m \in Assigning(c, e.section, e.key), m.from < x PROVE m.from <= l.from
  <2>1. m \in WholeLines(c) /\ l \in WholeLines(c)
    BY DEF Assigning, Settling
  <2>2. m.from \in Int /\ l.from \in Int /\ (m.from < l.from \/ m = l)
    BY <1>2, <2>1, LineIs DEF Passed
  <2>3. QED
    BY <2>2
<1>3. QED
  BY <1>1, <1>2 DEF SaidBefore

\* A line that gives no setting.
LEMMA OtherLine ==
  ASSUME NEW c \in Seq(STRING), NEW w, NEW x, NEW l, Passed(c, w, x, l), Meaning(c, w),
         Nothing(l.line) \/ IsSection(l.line), entries' = entries,
         section' = IF IsSection(l.line) THEN SectionName(l.line) ELSE section
  PROVE  Meaning(c, x)'
<1>1. section' = SectionAt(c, x)
  BY SectionPast DEF Meaning
<1>2. l \notin Settling(c)
  BY DEF Settling
<1>3. \A i \in DOMAIN entries : SaidBefore(c, x, entries[i])
  BY <1>2, SaidPast DEF Meaning, Assigning
<1>4. \A m \in Settling(c) : m.from < x => m.from < w
  BY <1>2 DEF Passed, Settling
<1>5. QED
  BY <1>1, <1>3, <1>4 DEF Meaning

\* A line that gives one: it is the last so far that does, and the search finds
\* what the earlier ones stored.
LEMMA SettingLine ==
  ASSUME TableInv, NEW c \in Seq(STRING), NEW w, NEW x, NEW l, Passed(c, w, x, l), Meaning(c, w),
         ~Nothing(l.line), ~IsSection(l.line), ~Refused(l.line), section' = section,
         entries' = Stored(entries, section, Key(l.line), Value(l.line))
  PROVE  Meaning(c, x)'
<1>1. PICK k, v : k = Key(l.line) /\ v = Value(l.line)
  OBVIOUS
<1>2. l \in WholeLines(c) /\ l.line \in Seq(STRING) /\ l.from = w
  BY LineIs DEF Passed
<1>3. /\ k \in Seq(STRING) /\ v \in Seq(STRING) /\ section \in Seq(STRING) /\ entries \in Seq(Setting)
      /\ Places(l.line, {"="}) # {}
  BY <1>1, <1>2, KeyTyped, ValueTyped DEF Refused, TableInv
<1>4. SectionAt(c, x) = section /\ SectionAt(c, w) = section
  BY SectionPast DEF Meaning
<1>5. l \in Settling(c) /\ l \in Assigning(c, section, k)
  BY <1>1, <1>2, <1>3, <1>4 DEF Settling, Assigning
<1>6. \A s, j : l \in Assigning(c, s, j) => s = section /\ j = k
  BY <1>1, <1>2, <1>4 DEF Assigning
<1>7. PICK e : e = entries'
  OBVIOUS
<1>8. PICK r : r = [section |-> section, key |-> k, value |-> v]
  OBVIOUS
<1>9. r.section = section /\ r.key = k /\ r.value = v
  BY <1>8
<1>10. SaidBefore(c, x, r)
  BY <1>1, <1>5, <1>9, SaidNow
<1>11. /\ \A i \in DOMAIN entries : i \in DOMAIN e /\ (e[i] = r \/ (e[i] = entries[i] /\ i \notin Find(entries, section, k)))
       /\ \A i \in DOMAIN e : e[i] = r \/ (i \in DOMAIN entries /\ e[i] = entries[i] /\ i \notin Find(entries, section, k))
       /\ \A i \in DOMAIN entries : e[i].section = entries[i].section /\ e[i].key = entries[i].key
       /\ \E i \in DOMAIN e : e[i] = r
  <2>1. DOMAIN entries = 1 .. Len(entries) /\ Len(entries) \in Nat
    BY <1>3, LenProperties
  <2>2. CASE Find(entries, section, k) # {}
    <3>1. /\ DOMAIN e = DOMAIN entries
          /\ \A i \in DOMAIN entries :
               /\ i \in Find(entries, section, k) => e[i] = r
               /\ i \notin Find(entries, section, k) => e[i] = entries[i]
      BY <1>1, <1>3, <1>7, <1>8, <2>2, StoredIs
    <3>2. \A i \in Find(entries, section, k) :
             i \in DOMAIN entries /\ entries[i].section = section /\ entries[i].key = k
      BY DEF Find
    <3>3. QED
      BY <1>9, <2>2, <3>1, <3>2
  <2>3. CASE Find(entries, section, k) = {}
    <3>1. /\ DOMAIN e = 1 .. Len(entries) + 1
          /\ \A i \in DOMAIN entries : e[i] = entries[i]
          /\ e[Len(entries) + 1] = r
      BY <1>1, <1>3, <1>7, <1>8, <2>3, StoredIs
    <3>2. /\ \A i \in DOMAIN entries : i \in DOMAIN e
          /\ \A i \in DOMAIN e : i \in DOMAIN entries \/ i = Len(entries) + 1
          /\ Len(entries) + 1 \in DOMAIN e
      BY <2>1, <3>1
    <3>3. QED
      BY <2>3, <3>1, <3>2
  <2>4. QED
    BY <2>2, <2>3
<1>12. ASSUME NEW i \in DOMAIN e PROVE SaidBefore(c, x, e[i])
  <2>1. CASE e[i] = r
    BY <1>10, <2>1
  <2>2. CASE i \in DOMAIN entries /\ e[i] = entries[i] /\ i \notin Find(entries, section, k)
    <3>1. ~(e[i].section = section /\ e[i].key = k)
      BY <2>2 DEF Find
    <3>2. l \notin Assigning(c, e[i].section, e[i].key)
      BY <1>6, <3>1
    <3>3. SaidBefore(c, w, e[i])
      BY <2>2 DEF Meaning
    <3>4. QED
      BY <3>2, <3>3, SaidPast
  <2>3. QED
    BY <1>11, <2>1, <2>2
<1>13. ASSUME NEW m \in Settling(c), m.from < x
       PROVE  Find(e, SectionAt(c, m.from), Key(m.line)) # {}
  <2>1. m.from < w \/ m = l
    BY <1>13 DEF Passed, Settling
  <2>2. CASE m.from < w
    <3>1. PICK i \in DOMAIN entries : i \in Find(entries, SectionAt(c, m.from), Key(m.line))
      BY <2>2 DEF Meaning, Find
    <3>2. i \in Find(e, SectionAt(c, m.from), Key(m.line))
      BY <1>11, <3>1 DEF Find
    <3>3. QED
      BY <3>2
  <2>3. CASE m = l
    <3>1. PICK i \in DOMAIN e : e[i] = r
      BY <1>11
    <3>2. i \in Find(e, section, k)
      BY <1>9, <3>1 DEF Find
    <3>3. QED
      BY <1>1, <1>2, <1>4, <2>3, <3>2
  <2>4. QED
    BY <2>1, <2>2, <2>3
<1>14. QED
  BY <1>4, <1>7, <1>12, <1>13 DEF Meaning

\* What is left of the rest of a file.
LEMMA RestIs ==
  ASSUME NEW c \in Seq(STRING), NEW w \in 0 .. Len(c), NEW t, t = SubSeq(c, w + 1, Len(c)),
         NEW p \in 0 .. Len(t)
  PROVE  SubSeq(t, p + 1, Len(t)) = SubSeq(c, w + p + 1, Len(c)) /\ Len(t) = Len(c) - w
<1>1. PICK n : n = Len(c)
  OBVIOUS
<1>2. n \in Nat /\ w \in Nat /\ w <= n
  BY <1>1, LenProperties
<1>3. t \in Seq(STRING) /\ Len(t) = n - w /\ \A i \in 1 .. n - w : t[i] = c[w + i]
  <2>1. w + 1 \in Nat /\ n \in Nat /\ 1 <= w + 1 /\ n <= Len(c)
    BY <1>1, <1>2
  <2>2. /\ t \in Seq(STRING) /\ Len(t) = IF w + 1 <= n THEN n - (w + 1) + 1 ELSE 0
        /\ \A i \in 1 .. n - (w + 1) + 1 : t[i] = c[w + 1 + i - 1]
    BY <1>1, <2>1, PartIs
  <2>3. n - (w + 1) + 1 = n - w /\ \A i \in 1 .. n - w : w + 1 + i - 1 = w + i
    BY <1>2
  <2>4. Len(t) = n - w
    BY <1>2, <2>2
  <2>5. QED
    BY <2>2, <2>3, <2>4
<1>4. /\ p \in Nat /\ p <= n - w /\ p + 1 \in Nat /\ n - w \in Nat /\ 1 <= p + 1
      /\ w + p + 1 \in Nat /\ 1 <= w + p + 1
  BY <1>2, <1>3
<1> DEFINE u == SubSeq(t, p + 1, n - w)
           v == SubSeq(c, w + p + 1, n)
<1>5. /\ u \in Seq(STRING) /\ Len(u) = IF p + 1 <= n - w THEN n - w - (p + 1) + 1 ELSE 0
      /\ \A i \in 1 .. n - w - (p + 1) + 1 : u[i] = t[p + 1 + i - 1]
  <2>1. PICK a \in Nat, b \in Nat : a = p + 1 /\ b = n - w
    BY <1>4
  <2>2. 1 <= a /\ b <= Len(t)
    BY <1>3, <1>4, <2>1
  <2>3. /\ SubSeq(t, a, b) \in Seq(STRING) /\ Len(SubSeq(t, a, b)) = IF a <= b THEN b - a + 1 ELSE 0
        /\ \A i \in 1 .. b - a + 1 : SubSeq(t, a, b)[i] = t[a + i - 1]
    BY <1>3, <2>2, PartIs
  <2>4. QED
    BY <2>1, <2>3
<1>6. /\ v \in Seq(STRING) /\ Len(v) = IF w + p + 1 <= n THEN n - (w + p + 1) + 1 ELSE 0
      /\ \A i \in 1 .. n - (w + p + 1) + 1 : v[i] = c[w + p + 1 + i - 1]
  <2>1. n <= Len(c)
    BY <1>1, <1>2
  <2>2. QED
    BY <1>2, <1>4, <2>1, PartIs
<1> HIDE DEF u, v
<1>7. PICK q \in Nat : q = n - w - p
  <2>1. n - w - p \in Nat
    BY <1>2, <1>4
  <2>2. QED
    BY <2>1
<1>8. /\ n - w - (p + 1) + 1 = q /\ n - (w + p + 1) + 1 = q
      /\ \A i \in 1 .. q : /\ p + 1 + i - 1 = p + i /\ p + i \in 1 .. n - w
                           /\ w + p + 1 + i - 1 = w + (p + i)
  BY <1>2, <1>4, <1>7
<1>9. Len(u) = q /\ Len(v) = q
  <2>1. p + 1 <= n - w <=> q > 0
    BY <1>2, <1>4, <1>7
  <2>2. w + p + 1 <= n <=> q > 0
    BY <1>2, <1>4, <1>7
  <2>3. QED
    BY <1>5, <1>6, <1>7, <1>8, <2>1, <2>2
<1>10. \A i \in 1 .. q : u[i] = v[i]
  <2>1. ASSUME NEW i \in 1 .. q PROVE u[i] = v[i]
    <3>1. u[i] = t[p + i]
      BY <1>5, <1>8
    <3>2. t[p + i] = c[w + (p + i)]
      BY <1>3, <1>8
    <3>3. v[i] = c[w + (p + i)]
      BY <1>6, <1>8
    <3>4. QED
      BY <3>1, <3>2, <3>3
  <2>2. QED
    BY <2>1
<1>11. u = v
  BY <1>5, <1>6, <1>9, <1>10, SeqEqual
<1>12. QED
  BY <1>1, <1>3, <1>11 DEF u, v

\* One fgets() and what is done with it.
LEMMA FileRead ==
  ASSUME TableInv, FileInv, ReadLine, pc = "read", pc' = pc, contents' = contents
  PROVE  FileInv'
<1> SUFFICES ASSUME reading' # "bad" PROVE FileInv'
  BY DEF FileInv
<1>1. PICK c, w, t, p : c = contents /\ w = Where /\ t = text /\ p = Len(Piece(text))
  OBVIOUS
<1>2. /\ reading = "yes" /\ c \in Seq(STRING) /\ t \in Seq(STRING)
      /\ w \in 0 .. Len(c) /\ t = SubSeq(c, w + 1, Len(c))
      /\ LinesFit(c) => (w \in Ends(c) \/ t = <<>>) /\ Meaning(c, w)
  BY <1>1 DEF FileInv, ReadLine, TableInv, TextTyped
<1>3. /\ p \in 0 .. Len(t) /\ Len(c) \in Nat /\ Len(t) = Len(c) - w
      /\ text' = SubSeq(c, w + p + 1, Len(c)) /\ Len(text') = Len(t) - p /\ text' \in Seq(STRING)
  <2>1. p \in 0 .. Len(t)
    BY <1>1, <1>2, PieceIs
  <2>2. text' = SubSeq(t, p + 1, Len(t))
    BY <1>1 DEF ReadLine
  <2>3. SubSeq(t, p + 1, Len(t)) \in Seq(STRING) /\ Len(SubSeq(t, p + 1, Len(t))) = Len(t) - p
    BY <1>1, LineTyped DEF TableInv
  <2>4. SubSeq(t, p + 1, Len(t)) = SubSeq(c, w + p + 1, Len(c)) /\ Len(t) = Len(c) - w
    BY <1>2, <2>1, RestIs
  <2>5. Len(c) \in Nat
    BY <1>2, LenProperties
  <2>6. QED
    BY <2>1, <2>2, <2>3, <2>4, <2>5
<1>4. Where' = w + p /\ w + p \in 0 .. Len(c)
  <2>1. Where' = Len(c) - Len(text')
    BY <1>1 DEF Where
  <2>2. QED
    BY <1>2, <1>3, <2>1
<1>5. p = Len(t) => text' = <<>>
  BY <1>3, EmptySeq
<1>6. reading' = "ok" => text' = <<>>
  <2> SUFFICES ASSUME reading' = "ok" PROVE text' = <<>>
    OBVIOUS
  <2>1. t = <<>>
    BY <1>1, <1>2 DEF ReadLine
  <2>2. p = Len(t)
    BY <1>3, <2>1
  <2>3. QED
    BY <1>5, <2>2
<1>7. ASSUME LinesFit(c)
      PROVE  (w + p \in Ends(c) \/ text' = <<>>) /\ Meaning(c, w + p)'
  <2>1. CASE t = <<>>
    <3>1. UNCHANGED <<section, entries>>
      BY <1>1, <1>2, <2>1 DEF ReadLine
    <3>2. w + p = w /\ p = Len(t)
      <4>1. Len(t) = 0
        BY <2>1
      <4>2. QED
        BY <1>2, <1>3, <4>1
    <3>3. Meaning(c, w)'
      BY <1>2, <1>7, <3>1 DEF Meaning
    <3>4. QED
      BY <1>5, <3>2, <3>3
  <2>2. CASE t # <<>>
    <3>1. w \in Ends(c) /\ Meaning(c, w)
      BY <1>2, <1>7, <2>2
    <3>2. PICK l \in WholeLines(c) :
             /\ Passed(c, w, w + Len(Piece(t)), l) /\ l.line = Trim(Piece(t))
             /\ w + Len(Piece(t)) \in Ends(c) \/ Len(Piece(t)) = Len(t)
      BY <1>2, <1>7, <2>2, <3>1, NextLine
    <3>3. Passed(c, w, w + p, l)
      BY <1>1, <3>2
    <3>4. CASE Nothing(l.line) /\ UNCHANGED <<section, entries>>
      <4>1. section' = IF IsSection(l.line) THEN SectionName(l.line) ELSE section
        BY <3>4 DEF IsSection
      <4>2. Meaning(c, w + p)'
        BY <1>2, <3>1, <3>3, <3>4, <4>1, OtherLine
      <4>3. QED
        BY <1>1, <1>5, <3>2, <4>2
    <3>5. CASE IsSection(l.line) /\ section' = SectionName(l.line) /\ UNCHANGED entries
      <4>1. Meaning(c, w + p)'
        BY <1>2, <3>1, <3>3, <3>5, OtherLine
      <4>2. QED
        BY <1>1, <1>5, <3>2, <4>1
    <3>6. CASE /\ ~Nothing(l.line) /\ ~IsSection(l.line) /\ ~Refused(l.line) /\ section' = section
               /\ entries' = Stored(entries, section, Key(l.line), Value(l.line))
      <4>1. Meaning(c, w + p)'
        BY <1>2, <3>1, <3>3, <3>6, SettingLine
      <4>2. QED
        BY <1>1, <1>5, <3>2, <4>1
    <3>7. QED
      BY <1>1, <1>2, <2>2, <3>2, <3>4, <3>5, <3>6 DEF ReadLine
  <2>3. QED
    BY <2>1, <2>2
<1>8. text' = SubSeq(contents', Where' + 1, Len(contents')) /\ Where' \in 0 .. Len(contents')
  BY <1>1, <1>3, <1>4
<1>9. LinesFit(contents') => (Where' \in Ends(contents') \/ text' = <<>>) /\ Meaning(contents, Where)'
  <2>1. Meaning(c, w + p)' => Meaning(contents, Where)'
    BY <1>1, <1>4 DEF Meaning
  <2>2. QED
    BY <1>1, <1>4, <1>7, <2>1
<1>10. QED
  BY <1>6, <1>8, <1>9 DEF FileInv

\* A file that has just been opened.
LEMMA FileOpened ==
  ASSUME NEW c \in Files, LoadFile(c), contents' = c
  PROVE  TableInv' /\ FileInv'
<1>1. c \in Seq(STRING) /\ Len(c) \in Nat
  BY LenProperties
<1>2. text' = c /\ section' = <<>> /\ entries' = <<>> /\ reading' = "yes"
  BY DEF LoadFile
<1>3. TableInv'
  <2>1. <<>> \in Seq(Setting) /\ <<>> \in Seq(STRING) /\ Len(<<>>) = 0
    OBVIOUS
  <2>2. TableSound'
    BY <1>2 DEF TableSound
  <2>3. QED
    BY <1>1, <1>2, <2>1, <2>2 DEF TableInv, TextTyped
<1>4. Where' = 0
  BY <1>1, <1>2 DEF Where
<1>5. SubSeq(c, 0 + 1, Len(c)) = c /\ 0 \in 0 .. Len(c) /\ 0 \in Ends(c)
  BY <1>1, SubSeqFull, EndsIn
<1>6. \A l \in WholeLines(c) : ~(l.from < 0)
  BY <1>1, LineIs
<1>7. SectionAt(c, 0) = <<>>
  BY <1>6 DEF SectionAt
<1>8. Meaning(c, 0)'
  BY <1>2, <1>6, <1>7 DEF Meaning, Settling
<1>9. Meaning(contents, Where)'
  BY <1>4, <1>8 DEF Meaning
<1>10. /\ Where' \in 0 .. Len(contents') /\ text' = SubSeq(contents', Where' + 1, Len(contents'))
       /\ Where' \in Ends(contents')
  BY <1>2, <1>4, <1>5
<1>11. QED
  BY <1>2, <1>3, <1>9, <1>10 DEF FileInv

\* Steps that leave the file and the table alone.
LEMMA FileStays ==
  ASSUME TableInv, FileInv, UNCHANGED fileVars,
         \/ contents' = contents /\ (pc' \in {"read", "loaded"} => pc \in {"read", "loaded"})
         \/ contents' = <<>> /\ pc' \notin {"read", "loaded"}
  PROVE  TableInv' /\ FileInv'
<1>1. UNCHANGED <<text, section, entries, reading>>
  BY DEF fileVars
<1>2. contents' \in Seq(STRING)
  <2>1. contents \in Seq(STRING) /\ <<>> \in Seq(STRING)
    BY DEF TableInv, TextTyped
  <2>2. QED
    BY <2>1
<1>3. TableInv'
  BY <1>1, <1>2 DEF TableInv, TextTyped, TableSound
<1>4. CASE pc' \notin {"read", "loaded"}
  BY <1>3, <1>4 DEF FileInv
<1>5. CASE contents' = contents /\ pc \in {"read", "loaded"}
  <2>1. Where' = Where
    BY <1>1, <1>5 DEF Where
  <2>2. Meaning(contents, Where) => Meaning(contents, Where)'
    BY <1>1, <1>5, <2>1 DEF Meaning
  <2>3. QED
    BY <1>1, <1>3, <1>5, <2>1, <2>2 DEF FileInv
<1>6. QED
  BY <1>4, <1>5

\* Every step keeps the table sound and true to the file.
LEMMA FileNext == TableInv /\ FileInv /\ [Next]_vars => TableInv' /\ FileInv'
<1> SUFFICES ASSUME TableInv, FileInv, [Next]_vars PROVE TableInv' /\ FileInv'
  OBVIOUS
<1>1. CASE Arguments
  BY <1>1, FileStays DEF Arguments, Exit
<1>2. CASE OpenFile
  <2>1. CASE \E c \in Files : LoadFile(c) /\ contents' = c
    BY <2>1, FileOpened
  <2>2. CASE Exit(1) /\ UNCHANGED <<contents, fileVars>>
    BY <2>2, FileStays DEF Exit
  <2>3. QED
    BY <1>2, <2>1, <2>2 DEF OpenFile
<1>3. CASE ReadFile
  BY <1>3, TableRead, FileRead DEF ReadFile
<1>4. CASE CloseFile
  BY <1>4, FileStays DEF CloseFile
<1>5. CASE Configured
  BY <1>5, FileStays DEF Configured, Exit
<1>6. CASE MakeCall
  BY <1>6, FileStays DEF MakeCall
<1>7. CASE InCall
  BY <1>7, FileStays DEF InCall
<1>8. CASE CheckEnds
  BY <1>8, FileStays DEF CheckEnds, Exit
<1>9. CASE SessionEnds
  BY <1>9, FileStays DEF SessionEnds, Exit
<1>10. CASE UNCHANGED vars
  BY <1>10, FileStays DEF vars
<1>11. QED
  BY <1>1, <1>2, <1>3, <1>4, <1>5, <1>6, <1>7, <1>8, <1>9, <1>10 DEF Next, Ended

\* The line behind the last end is empty.
LEMMA SettlingInside ==
  ASSUME NEW c \in Seq(STRING), NEW l \in Settling(c) PROVE l.from < Len(c)
<1>1. l \in WholeLines(c) /\ ~Nothing(l.line)
  BY DEF Settling
<1>2. PICK b \in Ends(c) :
         /\ Adjacent(c, l.from, b)
         /\ l = [from |-> l.from, line |-> Trim(SubSeq(c, l.from + 1, b - 1))]
  BY <1>1, LineIs
<1>3. l.from \in 0 .. Len(c) /\ b \in 0 .. Len(c) + 1 /\ l.from < b /\ Len(c) \in Nat
  BY <1>1, <1>2, LineIs, EndsIn, LenProperties DEF Adjacent
<1>4. ASSUME l.from = Len(c) PROVE FALSE
  <2>1. b - 1 = Len(c) /\ Len(c) < l.from + 1
    BY <1>3, <1>4
  <2>2. SubSeq(c, l.from + 1, b - 1) = <<>>
    BY <1>3, <2>1, SubSeqEmpty
  <2>3. Trim(<<>>) = <<>>
    BY DEF Trim
  <2>4. l.line = <<>>
    <3>1. l.line = Trim(SubSeq(c, l.from + 1, b - 1))
      BY <1>2
    <3>2. QED
      BY <2>2, <2>3, <3>1
  <2>5. QED
    BY <1>1, <2>4 DEF Nothing
<1>5. QED
  BY <1>3, <1>4

\* The table never outgrows its array, holds each setting once and each text in
\* its field; and once a file whose lines fit the buffer is read, every setting
\* has the value of the last line that gives it one in its section.
THEOREM SettingsMeanTheFile == Spec => []SettingsAsWritten
<1>1. Init => TableInv /\ FileInv
  <2> SUFFICES ASSUME Init PROVE TableInv /\ FileInv
    OBVIOUS
  <2>1. /\ contents = <<>> /\ text = <<>> /\ section = <<>> /\ entries = <<>> /\ pc = "args"
    BY DEF Init
  <2>2. <<>> \in Seq(Setting) /\ <<>> \in Seq(STRING) /\ Len(<<>>) = 0
    OBVIOUS
  <2>3. TableSound
    BY <2>1 DEF TableSound
  <2>4. QED
    BY <2>1, <2>2, <2>3 DEF TableInv, TextTyped, FileInv
<1>2. TableInv /\ FileInv => SettingsAsWritten
  <2> SUFFICES ASSUME TableInv, FileInv PROVE SettingsAsWritten
    OBVIOUS
  <2>1. TableSound /\ contents \in Seq(STRING)
    BY DEF TableInv, TextTyped
  <2>2. SUFFICES ASSUME pc = "loaded", reading = "ok", LinesFit(contents)
                 PROVE  /\ \A i \in DOMAIN entries :
                             LET lines == Assigning(contents, entries[i].section, entries[i].key)
                             IN lines # {} /\ entries[i].value = Value(LastOf(lines).line)
                        /\ \A l \in Settling(contents) :
                             Find(entries, SectionAt(contents, l.from), Key(l.line)) # {}
    BY <2>1 DEF SettingsAsWritten
  <2>3. Meaning(contents, Where) /\ Where = Len(contents)
    <3>1. Meaning(contents, Where) /\ text = <<>> /\ Where = Len(contents) - Len(text)
      BY <2>2 DEF FileInv, Where
    <3>2. Len(text) = 0 /\ Len(contents) \in Nat
      BY <2>1, <3>1, LenProperties
    <3>3. QED
      BY <3>1, <3>2
  <2>4. \A l \in Settling(contents) : l.from < Where
    BY <2>1, <2>3, SettlingInside
  <2>5. ASSUME NEW e, SaidBefore(contents, Where, e)
        PROVE  /\ Assigning(contents, e.section, e.key) # {}
               /\ e.value = Value(LastOf(Assigning(contents, e.section, e.key)).line)
    <3>1. PICK A : A = Assigning(contents, e.section, e.key)
      OBVIOUS
    <3>2. A \in SUBSET WholeLines(contents) /\ \A m \in A : m.from < Where
      BY <2>4, <3>1 DEF Assigning, Settling
    <3>3. PICK l \in A : e.value = Value(l.line) /\ \A m \in A : m.from < Where => m.from <= l.from
      BY <2>5, <3>1 DEF SaidBefore
    <3>4. LastOf(A) = l
      BY <2>1, <3>2, <3>3, LastOnly
    <3>5. QED
      BY <3>1, <3>3, <3>4
  <2>6. QED
    BY <2>3, <2>4, <2>5 DEF Meaning
<1>3. QED
  BY <1>1, <1>2, FileNext, PTL DEF Spec

===============================================================================
