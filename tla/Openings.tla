------------------------------- MODULE Openings -------------------------------
(***************************************************************************)
(* The calls by which the node opens something, one system call at a time: *)
(* ntap_tcp_connect and ntap_tcp_listen of src/common/net.c, and           *)
(* ntap_tap_open and ntap_tap_attach_bridge of src/common/tap_linux.c.     *)
(* Each works with things that must not outlive it: a list of addresses, a *)
(* socket for every address it tries, a control socket for every ioctl().  *)
(* Any of the system calls may fail.                                       *)
(***************************************************************************)
EXTENDS Integers, FiniteSets

CONSTANTS
    Fds,       \* descriptor numbers the process may use
    NoFd,      \* NTAP_INVALID_SOCKET, and -1
    MaxAddrs   \* bound: addresses a name resolves to

ASSUME OpeningsAssumption ==
    Fds \subseteq Nat /\ NoFd \notin Fds /\ MaxAddrs \in Nat

VARIABLES
    file,     \* kernel: descriptor -> what it denotes, "none" when closed
    call,     \* the call under way, "none" between two
    at,       \* where it is
    fd, ctl,  \* its locals: the descriptor to give, the control socket
    addrs,    \* getaddrinfo's list: -1 when there is none, else the untried ones
    held,     \* what the caller has been given: *out, tap->fd
    result,   \* how the last call ended
    before    \* ghost: the table at the last call's beginning

openVars == <<file, call, at, fd, ctl, addrs, held, result, before>>

Things == {"conf", "ctl", "tap", "lis"}
First(S) == {x \in S : \A y \in S : x <= y}
FreshFds == First({f \in Fds : file[f] = "none"})
Closed(fds) == [f \in Fds |-> IF f \in fds THEN "none" ELSE file[f]]

OpenInit ==
    /\ file = [f \in Fds |-> "none"] /\ before = file
    /\ call = "none" /\ at = "none" /\ fd = NoFd /\ ctl = NoFd /\ addrs = -1
    /\ held = [x \in Things |-> NoFd] /\ result = "none"

-----------------------------------------------------------------------------
\* A call ends, having closed "fds"; "given" is what its caller holds then.
End(how, fds, given) ==
    /\ file' = Closed(fds) /\ held' = given /\ result' = how
    /\ call' = "none" /\ at' = "none" /\ fd' = NoFd /\ ctl' = NoFd /\ addrs' = -1
    /\ UNCHANGED before

Fails(fds) == End("failed", fds, held)

Goto(step) == at' = step /\ UNCHANGED <<call, held, result, before>>

\* socket() or open(): the lowest free descriptor.
NewFd(thing, f) == f \in FreshFds /\ file' = [file EXCEPT ![f] = thing]

Begin(c) ==
    /\ call = "none"
    /\ call' = c /\ result' = "none" /\ before' = file
    /\ at' = CASE c \in {"ctl", "lis"} -> "resolve" [] c = "tap" -> "device" [] OTHER -> "enslave"
    /\ UNCHANGED <<file, fd, ctl, addrs, held>>

(* ntap_tcp_connect ("ctl") and ntap_tcp_listen ("lis") *)

Resolve ==
    /\ at = "resolve"
    /\ \/ Fails({})                              \* parse_addr or getaddrinfo
       \/ /\ addrs' \in 1 .. MaxAddrs
          /\ Goto("socket") /\ UNCHANGED <<file, fd, ctl>>

NextAddress ==
    /\ at = "socket"
    /\ \/ addrs = 0 /\ Fails({})
       \/ /\ addrs > 0 /\ addrs' = addrs - 1    \* socket() fails: continue
          /\ Goto("socket") /\ UNCHANGED <<file, fd, ctl>>
       \/ /\ addrs > 0 /\ \E f \in Fds : NewFd("temp", f) /\ fd' = f
          /\ Goto("try") /\ UNCHANGED <<ctl, addrs>>

\* [slip] The socket of an address that did not answer is left open.
TryAddress_keeps_fd ==
    /\ at = "try"
    /\ \/ /\ file' = [file EXCEPT ![fd] = call]
          /\ held' = [held EXCEPT ![call] = fd] /\ result' = "ok"
          /\ call' = "none" /\ at' = "none" /\ fd' = NoFd /\ addrs' = -1
          /\ UNCHANGED <<ctl, before>>
       \/ /\ fd' = NoFd /\ addrs' = addrs - 1
          /\ Goto("socket") /\ UNCHANGED <<file, ctl>>

\* connect(), or bind() and listen(), on the socket of one address.
TryAddress ==
    /\ at = "try"
    /\ \/ /\ file' = [file EXCEPT ![fd] = call]
          /\ held' = [held EXCEPT ![call] = fd] /\ result' = "ok"
          /\ call' = "none" /\ at' = "none" /\ fd' = NoFd /\ addrs' = -1
          /\ UNCHANGED <<ctl, before>>
       \/ /\ file' = Closed({fd}) /\ fd' = NoFd /\ addrs' = addrs - 1
          /\ Goto("socket") /\ UNCHANGED ctl

(* ntap_tap_open, with tap_set_mtu and tap_set_up *)

OpenDevice ==
    /\ at = "device"
    /\ \/ Fails({})                              \* the name, or open()
       \/ /\ \E f \in Fds : NewFd("tap", f) /\ fd' = f
          /\ Goto("name") /\ UNCHANGED <<ctl, addrs>>

NameDevice ==
    /\ at = "name"
    /\ \/ Fails({fd})
       \/ Goto("mtu") /\ UNCHANGED <<file, fd, ctl, addrs>>

ControlSocket ==
    /\ at \in {"mtu", "up"}
    /\ \/ Fails({fd})
       \/ /\ \E f \in Fds : NewFd("temp", f) /\ ctl' = f
          /\ Goto(IF at = "mtu" THEN "set mtu" ELSE "set up") /\ UNCHANGED <<fd, addrs>>

SetDevice ==
    /\ at \in {"set mtu", "set up"}
    /\ \/ Fails({ctl, fd})
       \/ /\ at = "set mtu" /\ file' = Closed({ctl}) /\ ctl' = NoFd
          /\ Goto("up") /\ UNCHANGED <<fd, addrs>>
       \/ at = "set up" /\ End("ok", {ctl}, [held EXCEPT !["tap"] = fd])

(* ntap_tap_attach_bridge *)

Enslave ==
    /\ at = "enslave"
    /\ \/ Fails({})                              \* a name that is too long or unknown
       \/ End("ok", {}, held)                    \* no bridge is asked for
       \/ /\ \E f \in Fds : NewFd("temp", f) /\ ctl' = f
          /\ Goto("add") /\ UNCHANGED <<fd, addrs>>

AddToBridge ==
    /\ at = "add"
    /\ \/ Fails({ctl})
       \/ End("ok", {ctl}, held)

OpenStep ==
    \/ Resolve \/ NextAddress \/ TryAddress
    \/ OpenDevice \/ NameDevice \/ ControlSocket \/ SetDevice
    \/ Enslave \/ AddToBridge

\* The caller closes some of what it holds.
Release(things) ==
    /\ call = "none"
    /\ file' = Closed({held[x] : x \in things})
    /\ held' = [x \in Things |-> IF x \in things THEN NoFd ELSE held[x]]
    /\ UNCHANGED <<call, at, fd, ctl, addrs, before>>

=============================================================================
