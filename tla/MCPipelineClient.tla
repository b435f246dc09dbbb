--------------------------- MODULE MCPipelineClient ---------------------------
(* A small instance of the pipelining client for TLC.                      *)
EXTENDS PipelineClient, TLC

CONSTANTS u

-----------------------------------------------------------------------------
(* The parser that the readers and the other end use, and what it makes of *)
(* bytes: the payloads it sends until it has to wait, or panics.           *)
P == INSTANCE Parser
RECURSIVE Payloads(_, _)
Payloads(rs, in) ==
  LET n == P!LineLength(rs, in)
      turn == P!Parse0(rs, SubSeq(in, 1, n))
      rest == IF turn.sent = P!Panic THEN <<>> ELSE Payloads(turn.rs, SubSeq(in, n + 1, Len(in)))
  IN  IF n = 0 THEN <<>> ELSE (IF turn.sent = P!Nothing THEN <<>> ELSE <<turn.sent>>) \o rest
Parsed(bytes) == Payloads(P!FreshState, bytes)

OK == <<"+", "O", "K">> \o P!Crlf
NullBulk == <<"$", "-", "1">>
Kinds(bytes) == [i \in DOMAIN Parsed(bytes) |-> Parsed(bytes)[i].kind]

(* Answers is what that parser makes of the replies of reply.go (Misread:  *)
(* data that begins with $; Spoilt: what follows an empty value) and of    *)
(* requests with an empty argument.                                        *)
ASSUME AnswersAreParsed ==
  /\ Kinds(OK) = <<"status">> /\ Kinds(P!Bulk(<<"v">>)) = <<"bulk">>
  /\ Kinds(P!Bulk(<<"$", "a">>) \o OK) = <<"error", "status">>
  /\ Kinds(P!Bulk(<<"$", "3">>)) = <<>>
  /\ Parsed(P!Bulk(<<"$", "3">>) \o OK) = <<P!Payload("bulk", <<"+", "O", "K">>)>>
  /\ Kinds(P!Bulk(<<"$", "9">>) \o OK) = <<>>
  /\ Kinds(NullBulk) = <<>> /\ Kinds(NullBulk \o NullBulk) = <<>>
  /\ Kinds(NullBulk \o OK) = <<"error">>
  /\ Kinds(NullBulk \o P!Bulk(<<"v">>)) = <<"error", "multibulk">>
  /\ Kinds(NullBulk \o P!Bulk(<<P!LF, P!LF>>)) = <<"error", "panic">>
  /\ Kinds(P!ToBytes(<< <<"S">>, <<"k">>, <<>> >>)) = <<"multibulk", "multibulk">>
  /\ Kinds(P!ToBytes(<< <<"R">>, <<>>, <<"k">> >>)) = <<"panic">>
=============================================================================
