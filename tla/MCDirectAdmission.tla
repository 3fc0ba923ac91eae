------------------------- MODULE MCDirectAdmission -------------------------
(* A small instance of DirectAdmission for TLC.                            *)
EXTENDS DirectAdmission

Token(text, by, node, net, expire) ==
    [text |-> text, by |-> by, node |-> node, net |-> net, expire |-> expire]

\* Good ones that expire sooner and later, and one each of another maker, node
\* and network; the longest is as long as a line may be and has a blank in it.
Known == {
    Token(<<"a">>, "key", "node", 1, 9),
    Token(<<"a", "blank", "a">>, "key", "node", 1, 2),
    Token(<<"b">>, "nobody", "node", 1, 9),
    Token(<<"b", "a">>, "key", "elsewhere", 1, 9),
    Token(<<"b", "b">>, "key", "node", 2, 9)}

=============================================================================
