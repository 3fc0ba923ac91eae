------------------------------ MODULE ConfigFile ------------------------------
(***************************************************************************)
(* The configuration file: ntap_config_load of src/common/config.c, which  *)
(* reads it one fgets() at a time into a table of settings, and            *)
(* ntap_b_config_load of src/b/config.c, which takes the node's settings   *)
(* from the table.                                                         *)
(*                                                                         *)
(* A file is a sequence of symbols: "nl" and " " are the blanks, "#"       *)
(* stands for "#" and ";", "0" .. "9" are the digits, and any other        *)
(* symbol is a letter.  Sections and keys are short sequences of letters   *)
(* given by the constants.                                                 *)
(*                                                                         *)
(* fgets() takes at most Buf - 1 symbols, so a line longer than that comes *)
(* in pieces, each of which is read as a line of its own.  A definition    *)
(* marked [slip] is no part of the model but a plausible mistake in the    *)
(* definition that follows it.                                             *)
(***************************************************************************)
EXTENDS Integers, Sequences, FiniteSets, SequencesExt

CONSTANTS
    Buf,                          \* sizeof(line_buf), 1024
    SectionMax, KeyMax, ValueMax, \* NTAP_CONFIG_SECTION_MAX, _KEY_MAX, _VALUE_MAX
    MaxEntries,                   \* NTAP_CONFIG_MAX_ENTRIES
    MaxPort, MinMtu, MaxMtu, DefaultMtu,
    Node, Tap,                    \* the sections [node] and [tap]
    ServerAddr, NodeId, NodeKey,  \* keys of [node]
    TapName, Mtu                  \* keys of [tap]

ASSUME ConfigAssumption ==
    /\ Buf \in Nat /\ Buf > 1 /\ MaxEntries \in Nat
    /\ SectionMax \in Nat \ {0} /\ KeyMax \in Nat \ {0} /\ ValueMax \in Nat \ {0}
    /\ MinMtu \in Nat /\ MaxMtu \in Nat /\ DefaultMtu \in MinMtu .. MaxMtu

VARIABLES
    text,     \* what is left of the file
    section,  \* the section being read
    entries,  \* cfg->entries[0 .. count - 1]
    reading   \* "yes", or how ntap_config_load ended: "ok", "bad"

fileVars == <<text, section, entries, reading>>

-----------------------------------------------------------------------------
(* Lines *)

Digits == <<"0", "1", "2", "3", "4", "5", "6", "7", "8", "9">>
Blank == {" ", "nl"}
Places(s, symbols) == {k \in DOMAIN s : s[k] \in symbols}
Least(S) == CHOOSE k \in S : \A j \in S : k <= j
Greatest(S) == CHOOSE k \in S : \A j \in S : j <= k

\* The symbols before the first of "symbols", all if there is none.
Before(s, symbols) ==
    IF Places(s, symbols) = {} THEN s ELSE SubSeq(s, 1, Least(Places(s, symbols)) - 1)
After(s, symbols) == SubSeq(s, Least(Places(s, symbols)) + 1, Len(s))

\* fgets: up to and with the next newline, if the buffer is large enough.
Piece(s) ==
    SubSeq(s, 1, Least({Buf - 1, Len(s)} \cup Places(s, {"nl"})))

TrimLeft(s) ==
    LET solid == DOMAIN s \ Places(s, Blank)
    IN IF solid = {} THEN <<>> ELSE SubSeq(s, Least(solid), Len(s))

\* trim
Trim(s) ==
    LET solid == DOMAIN s \ Places(s, Blank)
    IN IF solid = {} THEN <<>> ELSE SubSeq(s, Least(solid), Greatest(solid))

\* strip_inline_comment: from the first "#" outside quotes on.
Uncommented(s) ==
    LET outside(k) == Cardinality({j \in Places(s, {"quote"}) : j < k}) % 2 = 0
        marks == {k \in Places(s, {"#"}) : outside(k)}
    IN IF marks = {} THEN s ELSE SubSeq(s, 1, Least(marks) - 1)

Nothing(line) == line # <<>> => line[1] = "#"
IsSection(line) == ~Nothing(line) /\ line[1] = "["
SectionName(line) == Trim(Before(Tail(line), {"]"}))
BadSection(line) ==
    \/ Places(line, {"]"}) = {}
    \/ SectionName(line) = <<>> \/ Len(SectionName(line)) >= SectionMax
Key(line) == Trim(Before(line, {"="}))
Value(line) == Trim(Uncommented(After(line, {"="})))

-----------------------------------------------------------------------------
(* The table *)

\* [slip] The key alone decides, whatever section it is in.
Find_any_section(table, s, k) == {i \in DOMAIN table : table[i].key = k}

\* find_entry
Find(table, s, k) == {i \in DOMAIN table : table[i].section = s /\ table[i].key = k}

\* Whether another entry may be added.
Room(table) == Len(table) < MaxEntries

\* One setting into the table: over the value it has, or behind the others.
Stored(table, s, k, v) ==
    IF Find(table, s, k) # {}
    THEN [i \in DOMAIN table |-> IF i \in Find(table, s, k) THEN [table[i] EXCEPT !.value = v]
                                                            ELSE table[i]]
    ELSE Append(table, [section |-> s, key |-> k, value |-> v])

\* What ends the reading of a setting with an error.  Whatever is in the table
\* then, ntap_b_config_load does not look at it.
Refused(line) ==
    \/ Places(line, {"="}) = {} \/ section = <<>>
    \/ Key(line) = <<>>
    \/ Find(entries, section, Key(line)) = {} /\ (~Room(entries) \/ Len(Key(line)) >= KeyMax)
    \/ Len(Value(line)) >= ValueMax

LoadFile(contents) ==
    /\ text' = contents /\ section' = <<>> /\ entries' = <<>> /\ reading' = "yes"

\* One pass of the while loop.  fgets() finds the end of the file, or fails
\* anywhere and ferror() says so.
ReadLine ==
    LET line == Trim(Piece(text))
    IN /\ reading = "yes"
       /\ text' = SubSeq(text, Len(Piece(text)) + 1, Len(text))
       /\ \/ /\ reading' = "bad" \/ (text = <<>> /\ reading' = "ok")
             /\ UNCHANGED <<section, entries>>
          \/ /\ text # <<>> /\ Nothing(line)
             /\ UNCHANGED <<section, entries, reading>>
          \/ /\ text # <<>> /\ IsSection(line)
             /\ IF BadSection(line) THEN reading' = "bad" /\ UNCHANGED section
                                    ELSE section' = SectionName(line) /\ UNCHANGED reading
             /\ UNCHANGED entries
          \/ /\ text # <<>> /\ ~Nothing(line) /\ ~IsSection(line)
             /\ IF Refused(line)
                THEN reading' = "bad" /\ UNCHANGED entries
                ELSE /\ entries' = Stored(entries, section, Key(line), Value(line))
                     /\ UNCHANGED reading
             /\ UNCHANGED section

-----------------------------------------------------------------------------
(* The node's settings *)

\* ntap_config_get, with <<>> for a setting that is not there or is empty.
Get(s, k) ==
    LET found == Find(entries, s, k)
    IN IF found = {} THEN <<>> ELSE entries[Least(found)].value

\* strtol over the whole of a text: -1 when it is no number.  It skips blanks
\* in front; signs are left out.
NumberOf(s) ==
    LET t == TrimLeft(s)
        digit(c) == CHOOSE n \in 0 .. 9 : Digits[n + 1] = c
    IN IF t = <<>> \/ ~(ToSet(t) \subseteq ToSet(Digits)) THEN -1
       ELSE FoldLeft(LAMBDA n, c : 10 * n + digit(c), 0, t)

\* ntap_config_require_addr: host, the last colon, and a port.
IsAddress(v) ==
    LET colons == Places(v, {":"})
    IN /\ colons # {} /\ Greatest(colons) > 1
       /\ NumberOf(SubSeq(v, Greatest(colons) + 1, Len(v))) \in 1 .. MaxPort

IsMtu(v) == v = <<>> \/ NumberOf(v) \in MinMtu .. MaxMtu

\* ntap_b_config_load gives the node these, or fails.
ConfigGood ==
    /\ IsAddress(Get(Node, ServerAddr))
    /\ Get(Node, NodeId) # <<>> /\ Get(Node, NodeKey) # <<>>
    /\ IsMtu(Get(Tap, Mtu))

Settings ==
    [server_addr |-> Get(Node, ServerAddr), node_id |-> Get(Node, NodeId),
     node_key |-> Get(Node, NodeKey),
     tap_name |-> IF Get(Tap, TapName) = <<>> THEN <<"ntap-b0">> ELSE Get(Tap, TapName),
     mtu |-> IF Get(Tap, Mtu) = <<>> THEN DefaultMtu ELSE NumberOf(Get(Tap, Mtu))]

=============================================================================
