------------------------------ MODULE MCStartup ------------------------------
(* A small instance of Startup for TLC: a complete configuration file with up  *)
(* to two lines put in anywhere, and one command line of each kind.            *)
EXTENDS Startup

NoDescriptor == -1

N == <<"n">>  T == <<"t">>
A == <<"a">>  I == <<"i">>  K == <<"k">>  P == <<"p">>  M == <<"m">>

Complete ==
    << <<"[", "n", "]">>, <<"a", "=", "h", ":", "1">>, <<"i", "=", "x">>, <<"k", " ", "=", "y">>,
       <<"[", "t", "]">>, <<"m", "=", "5">> >>

\* Lines that give a setting another value, here or in another section ...
Settled ==
    { <<"i", "=">>, <<"i", "=", "w">>, <<"m", "=", "9">>, <<"a", "=", "h", ":", " ", "1">>,
      <<"a", "=", ":", "1">>, <<"p", "=", "q", "#", "z">>, <<"k", "=", "quote", "#", "quote", "#">> }
\* ... of which two may come ...
Twice == { <<"i", "=">>, <<"i", "=", "w">>, <<"p", "=", "q", "#", "z">>, <<"[", "n", "]">> }
\* ... lines that are no settings ...
Others ==
    { <<"[", "n", "]">>, <<"[", "t", "]", "x">>, <<" ">>, <<"#", "i", "=", "z">> }
\* ... lines in error, or at a limit, and a comment that fgets() cuts in two.
Odd ==
    { <<"[", "n">>, <<"[", " ", "]">>, <<"=", "v">>, <<"v">>,
      <<"k", "k", "=", "y">>, <<"k", "k", "k", "=">>, <<"[", "n", "n", "n", "]">>,
      <<"i", "=", "x", "x", "x", "x">>, <<"i", "=", "x", "x", "x", "x", "x">>,
      <<"#", "#", "#", "#", "#", "#", "#", "#", "i", "=", "z">> }

PutIn(lines, k, line) == SubSeq(lines, 1, k) \o <<line>> \o SubSeq(lines, k + 1, Len(lines))
OneMore(lines, extra) == {PutIn(lines, k, x) : k \in 0 .. Len(lines), x \in extra}
Text(lines) == FoldLeft(LAMBDA t, l : t \o l \o <<"nl">>, <<>>, lines)
AllFiles ==
    {Text(f) : f \in {Complete} \cup OneMore(Complete, Settled \cup Others \cup Odd)
                  \cup UNION {OneMore(g, Twice) : g \in OneMore(Complete, Twice)}}
        \cup {Front(Text(Complete))}

Each == "--send-test-frame-each-pong"
Count == "--send-test-frame-count"
AllCommandLines ==
    { <<"-c">>, <<"-h">>, <<"-c", "-t", "run">>, <<"-t", "-c", "f", "run", "--tap", "--once">>,
      <<"-c", "f", "run", "--tap">>, <<"run", "--once">>, <<"run", "--tap", "--once">>,
      <<"run", Each, Count>>, <<"run", Count, "2", Each>>, <<"run", "--tap", Count, "1">>,
      <<"check-env">>, <<"check-env", "--bridge-name">>, <<"check-env", "--bridge-name", "br">>,
      <<"serve">>, <<>> }

=============================================================================
