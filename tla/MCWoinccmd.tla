------------------------------ MODULE MCWoinccmd ------------------------------
EXTENDS Woinccmd

\* Every command with up to four words, with and without the options before it,
\* and every beginning of such a line.
MCWords == {"text", "op", "number"}

MCLines ==
  LET whole == {h \o p \o <<c>> \o words :
                  h \in {<<>>, <<"--host", "text">>}, p \in {<<>>, <<"--passwd", "text">>},
                  c \in CommandNames \cup {"--version", "-h", "text"}, words \in BoundedSeq(MCWords, 4)}
  IN whole \cup {<<>>, <<"--host">>, <<"--host", "text">>, <<"--passwd">>,
                 <<"--passwd", "text">>, <<"--host", "text", "--passwd">>}

\* Up to five letters of a host, a port of one digit or two.
MCHostTexts == BoundedSeq({"[", "]", ":", "h", "1"}, 5)
=============================================================================
