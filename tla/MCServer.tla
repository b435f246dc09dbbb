------------------------------- MODULE MCServer -------------------------------
(* Requests for TLC: one connection with requests that try the parser, or  *)
(* two whose clients send nothing.                                         *)
EXTENDS Server
CONSTANTS c1, c2

MCLegible(args) == \A i \in DOMAIN args : args[i] # <<>> /\ args[i][1] # "$"
MCCommand(args) == [bytes |-> ToBytes(args), means |-> Command(args), legible |-> MCLegible(args)]
MCLine(line, means) == [bytes |-> line, means |-> means, legible |-> TRUE]
MCShort == MCLine(<<"a">> \o Crlf, Command(<<(<<"a">>)>>))
MCSilent == [bytes |-> <<>>, means |-> Nothing, legible |-> FALSE]

(* Lines that are no command: errors, a command as text, an empty command  *)
(* and two replies, which get no answer, and one that makes it panic.      *)
MCLines ==
  {MCLine(<<"*", "a">> \o Crlf, ProtocolError), MCLine(<<"a", LF>>, ProtocolError),
   MCLine(<<"*", "2">> \o Crlf \o <<"x", LF>>, ProtocolError),
   MCLine(<<"a", " ", "1">> \o Crlf, Command(<<(<<"a">>), (<<"1">>)>>)),
   MCLine(<<"*", "0">> \o Crlf, Payload("emptymultibulk", <<>>)),
   MCLine(<<"$", "-", "1">> \o Crlf, Payload("nullbulk", <<>>)),
   MCLine(<<"$", "2">> \o Crlf \o <<"$", "x">> \o Crlf, ProtocolError),
   MCLine(<<":", "1">> \o Crlf, Payload("int", <<1>>)),
   [bytes |-> <<LF>>, means |-> Nothing, legible |-> FALSE]}

(* Arguments with the bytes that mean something to the parser.             *)
MCArgs == {<<>>, <<"$", "1">>, <<"a", "$">>, <<"*">>, Crlf, <<"a", LF>>}
MCTried == MCLines \cup {MCCommand(<<x>>) : x \in MCArgs} \cup
           {MCCommand(<<x, y>>) : x \in {<<>>, Crlf}, y \in {<<"$", "1">>, <<"*">>, <<LF>>}}
MCOf(s, t) == [c \in Conn |-> IF c = c1 THEN s ELSE t]
MCLoads == {MCOf(<<r, MCShort>>, <<>>) : r \in MCTried} \cup {MCOf(<<MCSilent>>, <<MCSilent>>)}
=============================================================================
