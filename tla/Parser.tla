-------------------------------- MODULE Parser --------------------------------
(***************************************************************************)
(* The protocol reader of resp/parser/parser.go as operators: one turn of  *)
(* the loop of parse0 takes a line, or as many bytes as the last header    *)
(* has announced, from what has come in, changes the readState and may     *)
(* send a payload.  With it the writer of commands, MultiBulkReply.ToBytes *)
(* of resp/reply/reply.go.  A byte is a string; a number has few digits,   *)
(* so that neither a 32 nor a 64 bit conversion fails for its size.        *)
(***************************************************************************)
EXTENDS Integers, Sequences, SequencesExt

CR == "CR"
LF == "LF"
Crlf == <<CR, LF>>
Digits == <<"0", "1", "2", "3", "4", "5", "6", "7", "8", "9">>
DigitOf(n) == Digits[n + 1]
ValueOf(d) == (CHOOSE i \in DOMAIN Digits : Digits[i] = d) - 1

(* strconv.ParseUint and ParseInt.                                         *)
IsUint(s) == s # <<>> /\ \A i \in DOMAIN s : s[i] \in ToSet(Digits)
IsInt(s) == IsUint(s) \/ (s # <<>> /\ s[1] \in {"+", "-"} /\ IsUint(Tail(s)))
UintOf(s) ==
  LET value[n \in 0..Len(s)] == IF n = 0 THEN 0 ELSE 10 * value[n - 1] + ValueOf(s[n])
  IN  value[Len(s)]
IntOf(s) == IF IsUint(s) THEN UintOf(s) ELSE (IF s[1] = "-" THEN -1 ELSE 1) * UintOf(Tail(s))

(* strings.Split at blanks.                                                *)
Split(s) ==
  FoldLeft(LAMBDA fs, b : IF b = " " THEN Append(fs, <<>>)
                          ELSE [fs EXCEPT ![Len(fs)] = Append(@, b)], <<(<<>>)>>, s)

-----------------------------------------------------------------------------
(* MultiBulkReply.ToBytes, for as many arguments and bytes as one digit    *)
(* can count.                                                              *)
Bulk(arg) == <<"$", DigitOf(Len(arg))>> \o Crlf \o arg \o Crlf
ToBytes(args) ==
  <<"*", DigitOf(Len(args))>> \o Crlf \o FlattenSeq([i \in DOMAIN args |-> Bulk(args[i])])

-----------------------------------------------------------------------------
(* A payload: what a line meant, an error of the protocol, or the error    *)
(* that ended the reading.                                                 *)
Payload(kind, data) == [kind |-> kind, data |-> data]
Command(args) == Payload("multibulk", args)
ProtocolError == Payload("error", <<>>)

(* What a turn comes to beside a payload: nothing yet, or a panic.         *)
Nothing == Payload("nothing", <<>>)
Panic == Payload("panic", <<>>)

FreshState == [multi |-> FALSE, count |-> 0, type |-> "none", args |-> <<>>, bulkLen |-> 0]
Turn(rs, sent) == [rs |-> rs, sent |-> sent]
Sends(payload) == Turn(FreshState, payload)
Finished(rs) == rs.count > 0 /\ Len(rs.args) = rs.count

(* readLine: the bytes it takes of what has come, 0 if it has to wait for  *)
(* more, and whether it accepts them.                                      *)
LineLength(rs, in) ==
  IF rs.bulkLen = 0
  THEN LET ends == {i \in DOMAIN in : in[i] = LF}
       IN  IF ends = {} THEN 0 ELSE CHOOSE i \in ends : \A j \in ends : i <= j
  ELSE IF Len(in) < rs.bulkLen + 2 THEN 0 ELSE rs.bulkLen + 2

EndsWell(msg) == SubSeq(msg, Len(msg) - 1, Len(msg)) = Crlf
Text(msg) == SubSeq(msg, 1, Len(msg) - 2)

(* parseMultiBulkHeader, parseBulkHeader and what parse0 makes of them.    *)
Expect(type, count, bulkLen) ==
  Turn([multi |-> TRUE, count |-> count, type |-> type, args |-> <<>>, bulkLen |-> bulkLen], Nothing)

MultiBulkHeader(digits) ==
  IF ~IsUint(digits) THEN Sends(ProtocolError)
  ELSE IF UintOf(digits) = 0 THEN Sends(Payload("emptymultibulk", <<>>))
  ELSE Expect("*", UintOf(digits), 0)

BulkHeader(digits) ==
  IF ~IsInt(digits) \/ (IntOf(digits) <= 0 /\ IntOf(digits) # -1) THEN Sends(ProtocolError)
  ELSE IF IntOf(digits) = -1 THEN Sends(Payload("nullbulk", <<>>))
  ELSE Expect("$", 1, IntOf(digits))

(* parseSingleLineReply.                                                   *)
SingleLine(text) ==
  LET rest == Tail(text) IN
  CASE text # <<>> /\ text[1] = "+" -> Sends(Payload("status", rest))
    [] text # <<>> /\ text[1] = "-" -> Sends(Payload("err", rest))
    [] text # <<>> /\ text[1] = ":" ->
         Sends(IF IsInt(rest) THEN Payload("int", <<IntOf(rest)>>) ELSE ProtocolError)
    [] OTHER -> Sends(Command(Split(text)))

FirstLine(text) ==
  CASE text # <<>> /\ text[1] = "*" -> MultiBulkHeader(Tail(text))
    [] text # <<>> /\ text[1] = "$" -> BulkHeader(Tail(text))
    [] OTHER -> SingleLine(text)

(* readBody.  A line that begins with $ is a header, were it the data that *)
(* a header has announced; the data of an announced length 0 is not read.  *)
Argument(rs, arg) == [rs EXCEPT !.args = Append(@, arg), !.bulkLen = 0]

ReadBody(rs, text) ==
  LET digits == Tail(text) IN
  CASE text = <<>> -> Turn(rs, Panic)
    [] text # <<>> /\ text[1] = "$" /\ ~IsInt(digits) -> Sends(ProtocolError)
    [] text # <<>> /\ text[1] = "$" /\ IsInt(digits) ->
         Turn(IF IntOf(digits) <= 0 THEN Argument(rs, <<>>) ELSE [rs EXCEPT !.bulkLen = IntOf(digits)], Nothing)
    [] OTHER -> Turn(Argument(rs, text), Nothing)

Body(rs, text) ==
  LET turn == ReadBody([rs EXCEPT !.bulkLen = 0], text) IN
  IF turn.sent = Nothing /\ Finished(turn.rs)
  THEN Sends(IF rs.type = "*" THEN Command(turn.rs.args) ELSE Payload("bulk", turn.rs.args[1]))
  ELSE turn

(* A slip: the readState survives an error of the protocol.                *)
Parse0KeepsState(rs, msg) ==
  IF rs.bulkLen = 0 /\ msg = <<LF>> THEN Turn(rs, Panic)
  ELSE IF ~EndsWell(msg) THEN Turn(rs, ProtocolError)
  ELSE IF rs.multi THEN Body(rs, Text(msg)) ELSE FirstLine(Text(msg))

(* One turn of the loop of parse0 with the line it has read.  readLine     *)
(* looks for the CR of a line of one byte in front of it.                  *)
Parse0(rs, msg) ==
  IF rs.bulkLen = 0 /\ msg = <<LF>> THEN Turn(rs, Panic)
  ELSE IF ~EndsWell(msg) THEN Sends(ProtocolError)
  ELSE IF rs.multi THEN Body(rs, Text(msg)) ELSE FirstLine(Text(msg))

-----------------------------------------------------------------------------
(* The requests that the parser reads as what they mean: a command from    *)
(* ToBytes whose arguments neither are empty nor begin with $, and what    *)
(* means something to it in one turn, or a header and the line behind it.  *)
Plain(args) ==
  /\ args \in Seq(Seq(STRING)) /\ Len(args) \in 1..9
  /\ \A i \in DOMAIN args : Len(args[i]) \in 1..9 /\ args[i][1] # "$"
Written(bytes, means) ==
  means = Command(means.data) /\ Plain(means.data) /\ bytes = ToBytes(means.data)

LastLine(rs, bytes, means) ==
  bytes # <<>> /\ LineLength(rs, bytes) = Len(bytes) /\ Parse0(rs, bytes).sent = means
HeaderAndLine(bytes, means) ==
  LET n == LineLength(FreshState, bytes)
      turn == Parse0(FreshState, SubSeq(bytes, 1, n))
  IN  n > 0 /\ turn.sent = Nothing /\ LastLine(turn.rs, SubSeq(bytes, n + 1, Len(bytes)), means)

Legible(bytes, means) ==
  /\ means \notin {Nothing, Panic}
  /\ \/ Written(bytes, means) \/ LastLine(FreshState, bytes, means) \/ HeaderAndLine(bytes, means)
=============================================================================
