-------------------------------- MODULE Bytes --------------------------------
(***************************************************************************)
(* Bytes of the Redis protocol as the numbers they are, and a definition   *)
(* of the protocol itself: what a request and the four kinds of reply look *)
(* like. The parser and the formatting of replies are judged against it.   *)
(***************************************************************************)
EXTENDS Naturals, Sequences, SequencesExt

LF == 10
CR == 13
DOLLAR == 36
STAR == 42
PLUS == 43
MINUS == 45
COLON == 58
CRLF == <<CR, LF>>

IsDigit(c) == c \in 48 .. 57

\* A number as "%d" prints it.
Decimal[n \in Nat] ==
  IF n < 10 THEN <<48 + n>> ELSE Append(Decimal[n \div 10], 48 + (n % 10))

-----------------------------------------------------------------------------

BulkString(s) == <<DOLLAR>> \o Decimal[Len(s)] \o CRLF \o s \o CRLF
NullBulkString == <<DOLLAR, MINUS, 49>> \o CRLF
SimpleString(s) == <<PLUS>> \o s \o CRLF
SimpleError(s) == <<MINUS>> \o s \o CRLF
RespInteger(n) == <<COLON>> \o Decimal[n] \o CRLF

\* A request is an array of bulk strings.
Request(argv) ==
  <<STAR>> \o Decimal[Len(argv)] \o CRLF \o
  FlattenSeq([i \in DOMAIN argv |-> BulkString(argv[i])])
=============================================================================
