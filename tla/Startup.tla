-------------------------------- MODULE Startup --------------------------------
(***************************************************************************)
(* The process from its arguments to a served session: main of             *)
(* src/b/main.c, ntap_b_env_check of src/b/env_check.c, the configuration  *)
(* file (ConfigFile) and the calls that open the control connection, the   *)
(* TAP device and the direct listener (Openings), with what main,          *)
(* run_session and run_tap_loop do when one of them fails.                 *)
(*                                                                         *)
(* What happens in a session besides is the subject of NodeSession,        *)
(* TapLoop and ControlLoop; here it may end anywhere and be tried again.   *)
(* Definitions marked [slip] are plausible mistakes and no part of it.     *)
(***************************************************************************)
EXTENDS ConfigFile, Openings

CONSTANTS
    CommandLines,  \* argv[1 .. argc - 1] the process may be started with
    Files          \* contents the configuration file may have

ASSUME StartupAssumption == CommandLines \subseteq Seq(STRING) /\ Files \subseteq Seq(STRING)

VARIABLES
    argv,     \* the arguments
    pc,       \* where main is
    todo,     \* calls that are still to be made
    status,   \* what main returns, -1 while it runs
    contents  \* ghost: the file ntap_config_load was given

vars == <<argv, pc, todo, status, contents, fileVars, openVars>>

-----------------------------------------------------------------------------
(* The arguments *)

\* The arguments the loop over argv[] looks at.  The one behind a -c is its value,
\* whatever it is; the loop ends with the first that is neither -c nor -t.
Looked(args) ==
    LET from[i \in 1 .. Len(args) + 2] ==
            IF i > Len(args) THEN {}
            ELSE {i} \cup (IF args[i] = "-c" THEN from[i + 2]
                           ELSE IF args[i] = "-t" THEN from[i + 1] ELSE {})
    IN from[1]

LastLooked == Greatest({0} \cup Looked(argv))
\* The command, -h, or a -c that lacks its value.
Command ==
    IF LastLooked = 0 \/ argv[LastLooked] = "-t" \/ (argv[LastLooked] = "-c" /\ LastLooked < Len(argv))
    THEN "none" ELSE argv[LastLooked]
TestConfig == \E k \in Looked(argv) : argv[k] = "-t"
Rest == SubSeq(argv, LastLooked + 1, Len(argv))
Flag(name) == name \in ToSet(Rest)

\* arg_value: the argument behind the first "name" that has one behind it.
HasValue(name) == \E k \in 1 .. Len(Rest) - 1 : Rest[k] = name
ValueOf(name) == Rest[Least({k \in 1 .. Len(Rest) - 1 : Rest[k] = name}) + 1]

\* atoi; only numbers are numbers.
Number(arg) == CASE arg = "2" -> 2 [] arg = "1" -> 1 [] OTHER -> 0
FrameCount ==
    IF HasValue("--send-test-frame-count") THEN Number(ValueOf("--send-test-frame-count"))
    ELSE IF Flag("--send-test-frame") THEN 1 ELSE 0

\* [slip] The count that must go with --send-test-frame-each-pong is asked for as a flag.
Misused_count_as_flag ==
    \/ HasValue("--send-test-frame-count") /\ FrameCount <= 0
    \/ Flag("--tap") /\ Flag("--once")
    \/ Flag("--tap") /\ (FrameCount > 0 \/ Flag("--send-test-frame-each-pong")
                         \/ Flag("--expect-test-frame"))
    \/ Flag("--send-test-frame-each-pong") /\ ~Flag("--send-test-frame-count")
                                           /\ ~Flag("--send-test-frame")

\* The combinations of run's arguments main refuses.
Misused ==
    \/ HasValue("--send-test-frame-count") /\ FrameCount <= 0
    \/ Flag("--tap") /\ Flag("--once")
    \/ Flag("--tap") /\ (FrameCount > 0 \/ Flag("--send-test-frame-each-pong")
                         \/ Flag("--expect-test-frame"))
    \/ Flag("--send-test-frame-each-pong") /\ FrameCount <= 0

-----------------------------------------------------------------------------
(* main *)

Init ==
    /\ argv \in CommandLines /\ pc = "args" /\ todo = <<>> /\ status = -1
    /\ contents = <<>> /\ text = <<>> /\ section = <<>> /\ entries = <<>> /\ reading = "no"
    /\ OpenInit

Exit(code) == pc' = "exit" /\ status' = code

\* The loop over argv[], and check-env, which needs no configuration.
Arguments ==
    /\ pc = "args"
    /\ \/ /\ Command = "-c" /\ Exit(2) /\ UNCHANGED todo
       \/ /\ Command = "-h" /\ Exit(0) /\ UNCHANGED todo
       \/ /\ Command = "check-env" /\ Flag("--bridge-name") /\ ~HasValue("--bridge-name")
          /\ Exit(2) /\ UNCHANGED todo
       \/ /\ Command = "check-env" /\ (Flag("--bridge-name") => HasValue("--bridge-name"))
          /\ pc' = "open" /\ todo' = IF Flag("--bridge-name") THEN <<"tap", "bridge">> ELSE <<"tap">>
          /\ UNCHANGED status
       \/ /\ Command \notin {"-c", "-h", "check-env"} /\ pc' = "load" /\ UNCHANGED <<todo, status>>
    /\ UNCHANGED <<argv, contents, fileVars, openVars>>

\* fopen, whose FILE has a descriptor too.
OpenFile ==
    /\ pc = "load"
    /\ \/ Exit(1) /\ UNCHANGED <<contents, fileVars, openVars>>
       \/ \E f \in FreshFds, c \in Files :
            /\ file' = [file EXCEPT ![f] = "conf"] /\ held' = [held EXCEPT !["conf"] = f]
            /\ LoadFile(c) /\ contents' = c
            /\ pc' = "read"
            /\ UNCHANGED <<status, call, at, fd, ctl, addrs, result, before>>
    /\ UNCHANGED <<argv, todo>>

ReadFile ==
    /\ pc = "read" /\ ReadLine
    /\ UNCHANGED <<argv, pc, todo, status, contents, openVars>>

\* fclose, on every way out of ntap_config_load.
CloseFile ==
    /\ pc = "read" /\ reading # "yes"
    /\ Release({"conf"}) /\ UNCHANGED result
    /\ pc' = "loaded"
    /\ UNCHANGED <<argv, todo, status, contents, fileVars>>

\* Which loop a CONFIG_PUSH and the arguments lead to, and what it opens.
Session ==
    IF Flag("--tap") THEN {<<"ctl", "tap", "bridge", "lis">>, <<"ctl", "tap", "bridge">>}
                     ELSE {<<"ctl">>, <<"ctl", "lis">>}

\* The settings are taken from the table, and the command is looked at.
Configured ==
    /\ pc = "loaded"
    /\ IF ~(reading = "ok" /\ ConfigGood) THEN Exit(1) /\ UNCHANGED todo
       ELSE IF TestConfig \/ Command = "none" THEN Exit(0) /\ UNCHANGED todo
       ELSE IF Command # "run" \/ Misused THEN Exit(2) /\ UNCHANGED todo
       ELSE pc' = "open" /\ todo' \in Session /\ UNCHANGED status
    /\ contents' = <<>> /\ UNCHANGED <<argv, fileVars, openVars>>

\* The next call that opens something.
MakeCall ==
    /\ pc = "open" /\ call = "none" /\ result # "failed" /\ todo # <<>>
    /\ Begin(Head(todo)) /\ todo' = Tail(todo)
    /\ UNCHANGED <<argv, pc, status, contents, fileVars>>

InCall ==
    /\ pc = "open" /\ call # "none" /\ OpenStep
    /\ UNCHANGED <<argv, pc, todo, status, contents, fileVars>>

\* ntap_b_env_check: everything is closed again, whatever it found.
CheckEnds ==
    /\ pc = "open" /\ call = "none" /\ Command = "check-env"
    /\ (result = "failed" \/ todo = <<>>)
    /\ Release({"tap"}) /\ UNCHANGED result
    /\ Exit(IF result = "failed" THEN 1 ELSE 0) /\ todo' = <<>>
    /\ UNCHANGED <<argv, contents, fileVars>>

\* A call failed, the handshake did, or the session was served for a while.
Over == result = "failed" \/ todo = <<>> \/ (held["ctl"] # NoFd /\ held["tap"] = NoFd)

\* [slip] The listener's failure is answered like that of the bridge, without the
\* control connection.
SessionEnds_by_hand ==
    /\ pc = "open" /\ call = "none" /\ Command = "run"
    /\ Over
    /\ Release(IF result = "failed" THEN {"tap"} ELSE {"ctl", "tap", "lis"})
    /\ \/ todo' \in Session /\ result' = "none" /\ UNCHANGED <<pc, status>>
       \/ \E code \in {0, 1, 3} : Exit(code) /\ todo' = <<>> /\ UNCHANGED result
    /\ UNCHANGED <<argv, contents, fileVars>>

\* A session ends: run_tap_loop or run_control_loop and run_session close what they were given,
\* and the retry loop of ntap_b_control_run_loop goes on or the process ends.
SessionEnds ==
    /\ pc = "open" /\ call = "none" /\ Command = "run"
    /\ Over
    /\ Release({"ctl", "tap", "lis"})
    /\ \/ todo' \in Session /\ result' = "none" /\ UNCHANGED <<pc, status>>
       \/ \E code \in {0, 1, 3} : Exit(code) /\ todo' = <<>> /\ UNCHANGED result
    /\ UNCHANGED <<argv, contents, fileVars>>

Ended == pc = "exit" /\ UNCHANGED vars

Next ==
    \/ Arguments \/ OpenFile \/ ReadFile \/ CloseFile \/ Configured
    \/ MakeCall \/ InCall \/ CheckEnds \/ SessionEnds \/ Ended

Spec == Init /\ [][Next]_vars

-----------------------------------------------------------------------------
(* Properties *)

\* Seen from the outside every opening call is one step: it fails and nothing
\* has changed, or it holds one descriptor more, the lowest that was free.  And
\* what the process holds at any time it has opened once and not yet closed.
Between == IF call = "none" THEN file ELSE before
Calls == INSTANCE Opened WITH table <- Between, held <- held
OpensInOneStep == Calls!Spec

\* No temporary thing outlives its call: between two calls every open
\* descriptor is one the caller was given and still names, no list of addresses
\* is left, and nothing at all is open when main returns, however it came to.
NothingLeft ==
    call = "none" =>
        /\ addrs = -1
        /\ \A f \in Fds : file[f] # "none" => file[f] \in Things /\ held[file[f]] = f
        /\ \A x \in Things : held[x] # NoFd => pc # "exit" /\ file[held[x]] = x

\* The file c as its author sees it: whole lines, each in the section begun last.
Ends(c) == {0, Len(c) + 1} \cup Places(c, {"nl"})
Adjacent(c, a, b) == a < b /\ \A e \in Ends(c) : ~(a < e /\ e < b)
WholeLines(c) ==
    {[from |-> p[1], line |-> Trim(SubSeq(c, p[1] + 1, p[2] - 1))] : p \in
        {q \in Ends(c) \X Ends(c) : Adjacent(c, q[1], q[2])}}
LinesFit(c) == \A a, b \in Ends(c) : Adjacent(c, a, b) => b - a < Buf
LastOf(lines) == CHOOSE l \in lines : \A m \in lines : m.from <= l.from
SectionAt(c, place) ==
    LET above == {m \in WholeLines(c) : IsSection(m.line) /\ m.from < place}
    IN IF above = {} THEN <<>> ELSE SectionName(LastOf(above).line)
Settling(c) == {l \in WholeLines(c) : ~Nothing(l.line) /\ ~IsSection(l.line)}
Assigning(c, s, k) ==
    {l \in Settling(c) : /\ Places(l.line, {"="}) # {}
                         /\ SectionAt(c, l.from) = s /\ Key(l.line) = k}

\* The table never outgrows its array, holds a setting once, and every text in
\* it fits its field: so the search finds what was stored.
TableSound ==
    /\ Len(entries) <= MaxEntries
    /\ \A i, j \in DOMAIN entries :
          entries[i].section = entries[j].section /\ entries[i].key = entries[j].key => i = j
    /\ \A i \in DOMAIN entries :
          /\ Len(entries[i].section) < SectionMax /\ Len(entries[i].key) < KeyMax
          /\ Len(entries[i].value) < ValueMax

\* A file that was loaded means what its lines say, as long as each fits the
\* buffer: a setting has the value of the last line that gives it one in that
\* very section, and no other setting is there.
SettingsAsWritten ==
    /\ TableSound
    /\ pc = "loaded" /\ reading = "ok" /\ LinesFit(contents) =>
        /\ \A i \in DOMAIN entries :
             LET lines == Assigning(contents, entries[i].section, entries[i].key)
             IN lines # {} /\ entries[i].value = Value(LastOf(lines).line)
        /\ \A l \in Settling(contents) :
             Find(entries, SectionAt(contents, l.from), Key(l.line)) # {}

\* Nothing is opened for a session unless the file was read to its end and gave
\* a server, an id and a key, and the arguments are ones NodeSession is right
\* about: TAP mode runs for ever and without test frames, and frames that are
\* to be sent with each PONG have a number.
SessionsAreConfigured ==
    held["ctl"] # NoFd \/ call = "ctl" =>
        /\ reading = "ok" /\ Settings.node_id # <<>> /\ Settings.node_key # <<>>
        /\ Places(Settings.server_addr, {":"}) # {} /\ Settings.mtu \in MinMtu .. MaxMtu
        /\ Flag("--tap") => ~Flag("--once") /\ ~Flag("--expect-test-frame") /\ FrameCount = 0
        /\ Flag("--send-test-frame-each-pong") => FrameCount > 0

=============================================================================
