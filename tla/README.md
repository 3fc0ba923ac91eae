# A verification model of NTAP-B

NTAP-B is the node side of NTAP: one process, one thread. It connects to the
server NTAP-A, authenticates, receives its configuration (`CONFIG_PUSH`) and then
either relays Ethernet frames between NTAP-A, a local TAP device and directly
connected clients (`run --tap`), or runs the control loop (`run`), which proxies
SOCKS streams for NTAP-A and carries out link tests. NTAP-A and the clients
(NTAP-C) are in other repositories; they appear here as the environment.

Line numbers below are those of `src/b/control_client.c` unless a file is named.

## 1. The system

| Part | State it keeps | Operations | What makes it correct |
|---|---|---|---|
| Session and retry loop (957-1107, `main.c` 102-159) | control descriptor, return code, attempts and sessions done | connect, HELLO, AUTH_NODE, AUTH_OK/AUTH_FAIL, CONFIG_PUSH, a data loop, close, pause, retry | a loop runs only after the whole handshake on this connection; rejection is final; the exit status means what it says; nothing leaks over retries; failures are followed by a pause; the service comes back |
| TAP loop (230-441) | TAP, listener and control descriptors, `readfds` | select; PING on timeout; TAP frame in; control message in; accept; client message in | it is a hub; descriptors are owned; no blocking call on a silent peer; no stale readiness |
| Direct clients (50-54, 102-228, 597-732) | 8 slots: active, descriptor | add, close, fan-out, read, close all; accept with token check | only admitted clients take part; a lost client costs nobody else a frame |
| Control loop (734-955) | `pings_done`, `sent_test_frames`, `got_test_frame`, listener | PING, PONG, test frames, SOCKS messages, probe of the listener | a link test ends when, and only when, its counts are reached |
| SOCKS streams (42-48, 445-595) | 32 slots: active, id, descriptor, the two FIN flags | open, data, FIN from either side, close, close all | each stream is two independent ordered pipes; slots come back |
| Message transport (`net.c`, `proto.c`) | position in the header or payload | `ntap_send_all`, `ntap_recv_all`, `ntap_send_msg`, `ntap_recv_msg`, header codec, length limits | messages survive partial sends and receives; the limits fit the configuration |
| Direct tokens (`direct_token.c`, 621-716) | none | read a line, verify, make | only a token for this node, network and key, not expired |
| Payload codecs (`wire.c`, `buffer.c`) | none | encode and decode each message; the growable buffer | what arrives whole is decoded to what was sent; nothing is read or written out of bounds; what is cut or lengthened is refused |
| TAP device (`tap_linux.c`) | descriptor, name | open, MTU, attach to a bridge, read, write, close | an attempt that fails leaves nothing open |
| Opening calls (`net.c`) | a list of addresses, a socket at a time | connect, listen | the same |
| Configuration (`b/config.c`, `common/config.c`) | the table of settings | load a file, take the node's settings | settings mean what the file says |
| Command line and environment check (`main.c`, `env_check.c`) | the arguments | parse, refuse, check, run | a session starts only from arguments and settings it was written for |
| Helpers (`hash.c`, `time.c`, `log.c`) | none | | |

How the parts interact: `main` calls the retry loop, which calls `run_session`,
which owns the control descriptor and calls one of the two loops; both call the
transport. Everything shared is on the stack of that one thread, so there are no
data races. What makes the code hard is that every call may block, that every
peer and the kernel act between any two steps, that descriptor *numbers* are
reused while a pass still works with an older `readfds`, that all clean-up is by
hand on many return paths, and that `continue` decides who is served at all.

`PROJECT.json` lists the hazards this gives rise to, each with its line and the
properties that would notice.

## 2. The modules

`Sockets` is the picture of one connection all loops share: a queue of whole
messages, `part` (the beginning of another one is there), `life` and `stall` (the
peer has stopped reading). Its operators say when a connection is readable, when
`ntap_recv_msg` returns and with what, when a send blocks, fails or kills.
`Framing` justifies this picture (below).

`life` is what a lost connection does to a `send()` without `MSG_NOSIGNAL`, which
is not the same at every time (`SendFails`, `SendKills`). `up` and `eof` (the
peer has finished sending) take what is written. After a reset of a connection
that was up (`reset`) the first call on it, `send()` or `recv()`, returns
ECONNRESET, and only a `send()` after that (`broken`) raises SIGPIPE; a reset of
a connection whose peer had finished before makes it `broken` at once. A peer
that has closed answers what it is still sent with a reset (`Answers`).
`ntap_send_msg` writes a message by two calls of `ntap_send_all`, header and
payload; they are one send here.

`TapLoop` is `run_tap_loop`. `pc` names the branch of the loop: `open`,
`bridge`, `listener`, `hello` before it, then `select`, `ping`, `tap`, `ctl`,
`listen`, `clients` (with `next` for the slot index), `ended` after
`return -1`, `killed` after SIGPIPE. `clients` is the table, a slot holding
`NoFd` when it is not active. `file` is the kernel's descriptor table: what a
number denotes at this moment. `ready` is `readfds`; for the property
`ReadinessIsCurrent` each member also remembers what the number denoted when
`select` looked. One action is one branch of the loop, with every call it makes
inside it: `TapReadable` sends to NTAP-A and fans out to all clients,
`ClientReadable` writes to the TAP device and fans out to the others, and both
close clients whose send fails. The operators `ToControl`, `ToListener`,
`ToClients` are the order of the `if (FD_ISSET(...))` tests, `Continue` is
`continue`. Descriptors are handed out lowest first, as POSIX has it.

`TapHub` is the abstract specification: a set of attached ports and, in each
step, the frame that was relayed, from and to whom. `TapLoop!RelaysAsHub` is the
refinement, with `attached` mapped to the connections the slots denote.

`ControlLoop` is `run_control_loop`, built the same way (`pc`: `start`, `hello`,
`select`, `ping`, `ctl`, `listen`, `streams`). NTAP-A is the peer this code
expects: stream ids are not used twice, OPEN before DATA before FIN or CLOSE, a
PONG for each PING; any other message is `BAD`. It may go on talking about a
stream the node has just ended, but sends no data behind its own FIN, so that the
check of `client_fin` (549) never refuses a unit. Units of stream data are labelled with their
stream and number, so that a unit in the wrong place shows.

`Pipe` is what one direction of a stream promises: in order, nothing lost,
repeated or mixed, an end seen only after the last unit, and nothing after a cut.
`ControlLoop` implements it twice for each stream, once each way:
`StreamsArePipes` is the conjunction of the two instances.

`NodeSession` is `run_session`, `ntap_b_control_run_once` and `..._run_loop`. A
data loop is one step that returns what the two modules above return (-1 from a
TAP session, 0 or 1 from the other). The server may be down, keep the protocol,
or answer anything (`odd`), and may crash, leaving the node a reset or a
connection with nobody at the other end (`orphan`).

`Framing` is `ntap_send_msg` and `ntap_recv_msg`: bytes, partial `send()` and
`recv()`, header, payload, limits. Bytes carry the message and place they belong
to. `AsSockets` shows that each step of the byte stream is a step of `Sockets`.

`DirectAdmission` is what `b_direct_accept_client` does with a caller: the line
is read a byte at a time, with `ntap_socket_wait_read` before each, trimmed, and
given to `ntap_direct_token_verify`. `pc` is `read` until it is `admitted` or
`rejected`; `buf` is `token_buf` up to `len`; `sent` and `taken` are what the
caller wrote and how much of it `recv()` has returned. A byte is a symbol of a
token, a blank, a NUL or a newline; a token is what its fields say, and its
signature fits when the node's own key made it. Here there is time: `clock`
counts ticks since `accept`, `waited` those of the current wait. `TapLoop` takes
all of this as one step, which it may, as the thread does nothing else meanwhile.

`Wire` is the payload codecs of `wire.c` with the growable buffer they write
into. A codec is a layout: the sequence of the reads and of the comparisons of
`offset` with the length that its decoder makes. The reads check nothing by
themselves but a text's own length, as in the code, so a layout with a check too
few reads past the payload. A payload is encoded, arrives (as it was sent, cut,
a byte longer, or with one byte changed) and is decoded.

`ConfigFile` is `ntap_config_load`, one `fgets()` at a time, and
`ntap_b_config_load`. `Openings` is every call that opens something
(`ntap_tcp_connect`, `ntap_tcp_listen`, `ntap_tap_open`,
`ntap_tap_attach_bridge`), one system call at a time, any of which may fail;
`Opened` is what those calls promise, and `OpensInOneStep` the refinement. It is
what entitles `TapLoop`, `ControlLoop` and `NodeSession` to take each as one
step. `Startup` composes the two with `main` and `ntap_b_env_check`: from the
arguments to a session and back, again and again.

`MC...` modules give small instances for TLC; `..._proofs` modules hold theorems.

Definitions marked `[slip]` are plausible mistakes in the definition after them.
No specification uses them; each is there because some property must notice it
when it takes the place of the original.

## 3. What the runs show

| Run | Instance | Question |
|---|---|---|
| `TapLoop_relay` | 2 slots, 3 callers (1 without a valid token), 6 descriptors, queues of 1; connections closed and reset in mid-relay; 1.6 M states | tables consistent, no leak, no stale readiness, no blind blocking call, the loop is a hub, and what a client's misfortune can cost (`ClientFaultsContained`) |
| `TapLoop_served` | 2 slots, 2 callers that send and stall, a LAN that may always have a frame; an NTAP-A that stalls, stops in mid-message, closes, or sends what the loop does not expect | no client is passed over in favour of its neighbours; the end of the control connection ends the session |
| `TapLoop_sigpipe` | 1 client that closes and answers what it is still sent with a reset; NTAP-A only answers PINGs | **violated**, see 5 |
| `ControlLoop_streams` | 2 streams, 2 slots, 1 unit each way, resets, unexpected messages; 2.4 M states | tables consistent, each stream two pipes, and a stream's misfortune stays its own (`StreamFaultsContained`) |
| `ControlLoop_drain` | 1 stream, 2 units each way, test frames and direct callers that may never stop, stalls, lost session; 0.5 M states | slots come back when passes get to them; order of units |
| `ControlLoop_tests` | every combination of the link-test flags up to 2 PONGs and 2 frames, test frames at any time, ends, resets; 1.1 M states | a session ends well exactly when it should, and does end |
| `NodeSession_all` | every combination of `--once`, `--tap`, `--max-attempts`, `--max-sessions` up to 2 | handshake, exit status, retry, descriptor accounting, recovery |
| `DirectAdmission_line` | 5 tokens (2 good, one each of another maker, node, network), a buffer of 5, anything written in up to 5 bytes; 0.25 M states | only rightful callers enter and they do; the line fits; the first message stays whole; the thread is held for a bounded time |
| `Framing_bytes` | sizes scaled down, 3 messages, a window smaller than the largest message | messages survive fragmentation; the byte stream is the queue of `Sockets` |
| `Framing_mtu` | the real sizes, one message | **violated**, see 5 |
| `Wire_payloads` | bytes of two values, texts of 0 to 4 bytes in arrays of 2 or 3, every type, any two fields unusual at a time; the payload whole, cut anywhere, lengthened, or with any byte changed | round trip, bounds, no half message accepted, every byte accounted for, the signature binds |
| `Startup_all` | a complete file with up to two lines put in anywhere, 15 command lines, 5 descriptors, 2 addresses, any system call failing | settings as written; sessions only from good ones; nothing left open; each opening call is one step |

Bounds. A hazard of the TAP loop needs at most a frame's source, a client lost
in the relay and a caller who gets its descriptor number, hence two slots and
three callers; a queue of one message suffices because a pass takes one message
from each connection. Two streams are enough to mix streams up and to pass a
slot and a number on to another one; two units are enough to reorder or lose
one. A refused OPEN is the same step of the node whether the connect failed or
the table is full, so it happens in every instance. Counts up to 2 separate
"first", "last" and "one short" for the link tests and the limits of `run`. The
counters `pings`, `sessions` and `attempt` stop where no test can tell further
values apart; NTAP-A remembers at most `MaxQueue` unanswered PINGs.

A buffer of 5 holds lines of up to 3 bytes: the longest good token fills it, one
byte more is too much, and behind shorter ones there is room for blanks, a NUL
and part of a message. The good tokens expire before and after the time the
slowest caller can take. (The buffer of the code has 1024 bytes; the longest
token `ntap_direct_token_make` can produce is some 680 long.)

In `Wire_payloads` a byte has two values, so that two length bytes reach 3 and
texts of every length up to one past the largest length occur; the arrays are
smaller than what the length can say, as in `wire.h`. Two unusual fields at a
time suffice, as a decoder looks at each text once and compares its place only
with the total. `SizeBits = 6` is where the doubling of the capacity can first
wrap. In `Startup_all` the limits of the file reader (9 for a line, 3 for names,
5 for values and entries) are met and passed by some line each.

Fairness. The process runs when it can (`SF` on the loop: a blocked `send()`
wakes up in the very step that opens the window, so a window that opens again
and again is used). A peer that began a message finishes it or its connection
ends; one that stopped reading resumes or ends; NTAP-A answers PINGs. Nobody has
to send, call or hang up. The code has no timeout on a receive or a send, so
without the middle assumption one peer holds the node for ever: that is a fact
about the code, and the properties are stated under the assumption rather than
hiding it. In `NodeSession` a server that is up answers, and a connect or send
that could succeed again and again is not refused for ever.

In `DirectAdmission` the thread runs and time passes; the caller need do nothing.

Where a liveness property carries a hypothesis, the code is why:

* `ClientsServed` supposes the client pass is reached again and again. A busy
  control connection or listener ends every pass before it (`continue`, 412 and
  432).
* `StreamsDrain` supposes that again and again a pass gets beyond the control
  connection and the listener or `select` times out (`PassGoesOn`). Every message
  of NTAP-A (PONGs, test frames, the data of other streams) and every direct
  caller ends the pass (`continue`, 855-902 and 915), so a steady flow of any of
  them starves the streams; the instance has such flows of test frames and
  callers.
* `LinkTestEnds` supposes that direct callers and test frames stop coming: a PING
  goes out only when `select` times out. Data from the targets of streams would
  keep it from that just as well; its instance has no slot for a stream.
* `ComesBack` excludes a connection lost without a word: in the handshake no
  receive has a timeout and no PING is sent.

## 4. What is proved

`TapLoop_proofs`, for every number of descriptors, callers, slots and every
choice of message kinds and faults, from `TapLoopAssumption` alone (descriptor
numbers are naturals, `NoFd` is not one, callers are not called "ctl", "tap",
"lis", "lan" or "none"):

* `TypeCorrect`: `Spec => []TypeOK`
* `DescriptorsNeverLeak`: `Spec => []DescriptorsOwned`
* `NoStaleReadiness`: `Spec => []ReadinessIsCurrent`

None of the three is inductive alone. `DescriptorsOwned` after an `accept` needs
that the new number is not already named by a slot, which follows because what a
slot names is open and a fresh number is not; after a return it needs that what
`Teardown` closes is *all* that is open, which is `NothingLeaks`; and in the
stages before the loop, where the error paths close less, it needs that those
stages hold less (`StagesHold`: no listener before `hello`, no clients before
`select`). `ReadinessIsCurrent` needs that the only branch that opens a
descriptor leaves the pass. The inductive invariant is therefore

    IndInv == TypeOK /\ NamesAreRight /\ NothingLeaks /\ ReadinessIsCurrent /\ StagesHold

with one lemma per action, resting on lemmas about `Close`, `Finish`, `FanOut`,
`Admit` and the rest of the pass (`ToControl`, `ToListener`, `ToClients`).

`DirectAdmission_proofs`, for every set of tokens, every buffer size and time
limit, and a caller who writes anything at any pace, from
`DirectAdmissionAssumption` (the buffer has room for more than the NUL, a wait
lasts at least a tick, and a token is not empty, has no NUL or newline in it and
does not end in a blank, which `ntap_direct_token_make` sees to: it ends in the
hex digits of the signature):

* `OnlyTheEntitledEnter`: `Spec => []AdmittedRightly`
* `NothingBehindTheLineIsTaken`: `Spec => []FramesKept`
* `HoldIsBounded`: `Spec => []HeldBriefly`
* `LineFitsItsBuffer`: `Spec => []TypeOK`

The invariant they need on top of themselves is `Reading`: while the line is
read, it is byte for byte what the caller has sent, without a newline, shorter
than the buffer by two, and `clock <= Wait * Len(buf) + waited`, which a byte
moves from one summand to the other and a tick adds to both sides. Admission
then rests on lemmas about the trimming (`UpToNulCuts`, `TrimmedCuts`,
`LineCuts`): what is verified is a prefix of what was sent, followed by blanks up
to the newline or a NUL. That the two cuts exist is the least-number principle
(`Least`), which the library's well-founded induction gives without induction
over an operator.

`NodeSession_proofs`, for every set of arguments `main` lets through, every set
of answers and every queue bound, from `NodeSessionAssumption`:

* `NoConnectionLeaks`: `Spec => []OneConnection`
* `LoopsAreEntitled`: `Spec => []Entitled`
* `RejectedForGood`: `Spec => []RejectionIsFinal`
* `StatusCanBeTrusted`: `Spec => []StatusIsEarned`
* `FailuresArePaused`: `Spec => []BacksOff`
* `TypeCorrect`: `Spec => []TypeOK`

These speak of the loop or of the exit; the inductive invariant says what leads
there. `Shaken` gives for each step of the handshake what has been said and heard
so far. `Judged` is what `BacksOff` is before the head of the loop: at `begin`
the last session ended well or the node has slept. `Counted` keeps the sessions
below the attempts, strictly while one is under way, and at least one once the
code is 0. The lemmas `GiveInv`, `SendInv` and `ExpectInv` are about the ways a
step can go, and each step of `run_session` follows from one of them.

`TapLoop_proofs` also shows, on top of these:

* `NeverWaitsInVain`: `Spec => []CallsHaveInput`
* `ClientsFallAlone`: `Spec => ClientFaultsContained`

The latter says what the faults of direct clients can cost. While the session
lasts, no descriptor is closed but that of the client being served and those of
clients whose send has just failed. Serving a client ends the session in one case
only: its frame is relayed to *another* admitted client whose connection is
broken, and the outcome is SIGPIPE (section 5). Errors of `accept()` are no part
of it: they end the session in the listener's branch (419), as the code is
written. It rests on the invariant above and on the one of `NeverWaitsInVain`:
that the broken client is another one than the served needs that no connection is
open under two numbers (`ClientsDiffer`).

What `select` found must still be there when the pass gets to it. That needs
`StillReadable` (a branch takes input only from the descriptor it serves), which
in turn needs `EachOnce`: were one connection open under two numbers, serving
the one could empty the other.

and the refinement, `LoopIsHub`: `Spec => RelaysAsHub`. It maps the
ports to the connections the slots denote; that a hub with a free slot has room
for a port (`RoomLeft`) is a fact about the cardinality of two sets, and the
lemma `FanOutRelays` says that whatever a fan-out loses, the frame goes to all
the others and never back to its sender.

`ControlLoop_proofs`, for any number of descriptors, slots, streams and units,
and any options, from `ControlLoopAssumption`:

* `TypeCorrect`: `Spec => []TypeOK`
* `DescriptorsNeverLeak`: `Spec => []DescriptorsOwned`
* `NeverWaitsInVain`: `Spec => []CallsHaveInput`
* `StreamsFallAlone`: `Spec => StreamFaultsContained`
* `TestsEndRight`: `Spec => []TestsEndOnTime`

The invariant is `Typed /\ Owned /\ Fed`. `Typed` is sharper than `TypeOK` about
what NTAP-A says (`Proper`: a stream message names a stream, data is numbered
from 1). `Owned` adds to `DescriptorsOwned` that a slot in use has an id, which
makes its target the connection of that id and no other (`SlotsDiffer`). `Fed` is
what `StillReadable` is for the TAP loop, with one difference: here a handler of
the same pass may close a stream and give its number to another one, but a
message ends the pass (`continue`, 855-902), so nothing set in `readfds` outlives it.
The counts of the link test have an invariant of their own on top, `TestInv`:
the frames sent keep step with the PONGs counted (`InStep`).

`Pipe_proofs`: `LoopIsPipes`, `Spec => StreamsArePipes`. The pipe from NTAP-A
runs through the queue of the control connection, where messages of all streams
are mixed with PONGs and test frames, so the invariant says what the queue is:

* `Ordered`: of two messages about one stream, the later may come behind the
  earlier (no data behind a FIN or CLOSE, no OPEN behind anything,
  data in rising numbers);
* `Meant`: what waits agrees with the state of the stream it names: behind an
  OPEN that waits the stream has no slot yet, data that waits the target has not
  got, and an end that waits NTAP-A has come to;
* `NothingLost`: while the pipe is open, every unit that was written and not
  delivered waits in the queue;
* `Answerable`: while the pipe is open, the OPEN waits or a slot takes its data;
  and a slot that has not seen an end has its pipe open.

From these, data that is taken is the *next* unit (`NothingLost` and `Ordered`),
and a FIN that is taken finds the pipe empty. For the other direction
`FromTargets` says that a target's queue starts with the next unit of its pipe,
and `Unread` that a stream whose target has finished is not looked at again.

`Framing_proofs` shows `MessagesSurvive` (`Survival`) from `FramingAssumption`, for
any sizes, window and number of messages. The model-checked statement speaks of what was returned only;
the invariant says where everything else is. `Laid` lays the messages one behind
the other in one stream of bytes, message k from `start[k]` on; `InPlace` has a
place `base` in it where the next message to be returned begins, `buf` the bytes
from there on, the wire those behind them, and the end of the wire where the
sender is. A `send()` adds bytes at the end, a `recv()` moves some from the wire to
`buf`, and neither moves `base`; only a message that is whole does, by its size.
`AllSent` (nothing of the last message is unsent once it was returned) keeps the
sender from going on with a message the receiver is done with, and `ReadsWithin`
that no `recv()` reaches into the next message, so a header is always read at a
message's beginning (`HeaderTells`).

The same module shows that the byte stream is the queue the loops are modelled
with (`StreamIsQueue`, `Spec => AsSockets`), which is what entitles `TapLoop`,
`ControlLoop` and `NodeSession` to speak of messages. `ConnInv` adds to the
invariant above that less is held of the next message than decides about it
(`Holding`: a header, or all of it when its length is allowed) and that what was
said could be said (`SaidRight`). The idea of the proof is that the queue depends
on very little: on the messages said, on how many were returned, and on how much
of the last one was sent, not on which of its bytes are where (`Inbox`, `InPart`;
`QueuedIs`, `BegunIs`, `ConnectionIs`). `ByteIs` and `ByteOf` are the two
directions between places in the stream and bytes of messages. Then `SayingAdds`,
`SendingAdds`, `TakingTakes`, `RefusedIsFirst` and `NothingHasCome` say what each
step does to the queue, and one lemma per action (`SayingShows` to `EndShows`)
that `Sockets` allows it. `TypeCorrect` shows `TypeOK` here: `ntap_send_all` and
`ntap_recv_all` stay within their buffers and never ask for nothing.

`Startup_proofs`, for any command lines, files, sizes of the buffers and the
table, descriptors, addresses and failures, from `StartupAssumption` (command
lines and files are sequences of strings), `ConfigAssumption` (the buffer has
room for more than the NUL, the fields for more than nothing, and the MTU that
holds when none is given is in range) and `OpeningsAssumption`:

* `CallsAreAtomic`: `Spec => OpensInOneStep`
* `NothingIsLeft`: `Spec => []NothingLeft`
* `ConfiguredFirst`: `Spec => []SessionsAreConfigured`
* `SettingsMeanTheFile`: `Spec => []SettingsAsWritten`

The first is the refinement of `Opened`. While a call runs, the table its caller
sees is the one from before it (`Between`), so every system call inside is a
stutter and the last one is the step. For this `Calling` says, for each place a
call can be at, exactly what it has added to that table (`Progress`); `ToCome`
that no thing is opened while it is held, and `Stage` what each stage of `main`
holds. `OpenInv` is their conjunction with `OpenTyped`. `SessionsAreConfigured`
needs `Fit`: past the checks nothing that was checked changes.

`SettingsAsWritten` is about the file as a whole, the code about one line at a
time. `FileInv` says what the lines read *so far* amount to: the section is the
one the last header named, each entry has the value of the last line before this
place that gives it one, and no such line is without its entry (`Meaning`,
`SaidBefore`). It needs two facts: that what `fgets()` returns is a line of the
file when the lines fit the buffer (`NextLine`: the piece ends at the next end of
a line, and a line is what lies between two of them), and what
`ntap_config_store` does to the table (`StoredIs`: the first entry of that
section and key is replaced, or one is added, or the file is bad). `TableInv`
holds without the lines fitting.

`Wire_proofs`, for any messages, widths, limits and capacities, and whatever
arrives, from `WireAssumption` (a byte has at least two values, `size_t` is wide
enough for the largest payload) and `MessagesAssumption` (the messages have the
fields of their type, and the `frame_len` of a TAP frame is the frame's length,
which both call sites see to):

* `NeverOutOfBounds`: `Spec => []StaysInside`
* `HalfMessagesAreRefused`: `Spec => []OnlyWholeMessages`
* `MessagesComeBack`: `Spec => []RoundTrip`
* `NoByteIsIgnored`: `Spec => []EveryByteCounts`
* `NothingElseIsSigned`: `Spec => []SignatureBinds`

The state has little in it: `WireInv` says that what was sent is an encoding,
what arrives is that or one change away from it, and what was decoded is what
arrived. All else is about the two functions. To reason about nine layouts at
once, each has a *plan*: what the decoder knows, before and behind each of its
items, of what is left of the payload ("exactly" or "at least" so much), and how
much an encoder still writes from there. That every layout keeps to its plan is
the only place where they are looked at one by one; in it a check that is
missing, or stands one item too late, shows. Everything later goes item by item:
`Inside` (no read beyond the payload), `Written` and `Along` (what was written is
what is read), `Left` and `Fits` (a whole message is accepted, exactly when its
texts fit their arrays), `Keeping` (what is accepted and encoded again is the
payload). "At every item" would be induction over a position; it is had from the
least or the greatest position at which it fails (`UpTo`, `DownTo`), which the
library's well-founded orders give.

Only model-checked: the liveness properties `ClientsServed` and `LossNoticed` of
the TAP loop, `StreamsDrain` and `LinkTestEnds` of the control loop, and
`ComesBack`, `Delivered` and `GoodCallersEnter`. They are out of the prover's
reach, which has no rule for fairness and `ENABLED` here. Everything else the
runs check, invariants, action properties and refinements, is proved.

## 5. Disagreements found

* **SIGPIPE** (`TapLoop_sigpipe`, `SurvivesPeers`). `ntap_send_all` calls
  `send(..., 0)` (`net.c:496`) and nothing ignores SIGPIPE. A direct client that
  closes its connection and answers a frame that was still on its way with a
  reset kills the node at the next frame sent to it, if that comes before the
  pass looks at its slot: the LAN (333) and the control connection (362) are
  looked at first. A reset without a close before it is reported by the first
  `send()`, and the slot dropped, as intended. The fan-out is written to drop a
  client whose send fails and go on (178-187), and `main.c:134` calls TAP mode
  "a long-running mode". In the run NTAP-A loses nothing and its connection stays
  up.
* **MTU** (`Framing_mtu`, `FramesOfTheMtuPass`). `ntap_recv_msg` checks lengths
  against the default MTU of 1400 (`net.c:644`); `CONFIG_PUSH` may set up to 1500,
  and the sender follows it. Frames of more than 1426 bytes are refused and end
  the session.

## 6. What is not modelled

Contents of frames, keys, nonces and signatures (right or wrong; what is signed
is in `Wire`); time (a timeout may happen whenever nothing is readable; only
`DirectAdmission` has a clock); the text of errors and logs, the hash and clock
helpers, and the log settings of the configuration, which nothing reads.

`ntap_tcp_connect_timeout`, `ntap_socket_set_send_timeout` and
`ntap_socket_set_nonblocking` (`net.c`) have no caller in the repository, so
nothing says how they are meant to be used. The Windows branches: `run_session`
refuses TAP mode there (1048), and the socket calls differ in names only.
Address parsing is a text with a colon in it.

The lengths of host, port, node id and interface name in the calls they are
passed to (63, 31, 127, 15 bytes): a configuration `-t` accepts may fail in each
of these calls, and they may fail for any reason in the model.

NTAP-A is modelled as the peer, never as a program: what happens when it and the
node both block in `send()` with full buffers cannot be said from this
repository, since whether NTAP-A reads while it writes is in its code. The
fairness assumption (a peer that stopped reading resumes or ends) excludes it.

## 7. Plan

Modelled: every component but the helpers. What could still be added, in the
order of what it would show:

1. The real sizes of texts across components (`-t`, `wire.h`, `IFNAMSIZ`), in a
   module of its own: for which configurations that pass the check the calls
   cannot succeed.
2. Stronger statements where a theorem is about one component and its
   neighbours are pictures: `TapLoop` and `ControlLoop` as the `data loop` step
   of `NodeSession`.
