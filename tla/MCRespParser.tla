---------------------------- MODULE MCRespParser ----------------------------
(* Small instances of RespParser for TLC. *)
EXTENDS RespParser

CONSTANTS plain, terminators, header, long, empty

\* 'a', "\n\r", "*2\r\n$1", "abcdefg\n*$", ""
Word == [name \in {plain, terminators, header, long, empty} |->
  CASE name = plain       -> <<97>>
    [] name = terminators -> <<LF, CR>>
    [] name = header      -> <<STAR, 50, CR, LF, DOLLAR, 49>>
    [] name = long        -> <<97, 98, 99, 100, 101, 102, 103, LF, STAR, DOLLAR>>
    [] name = empty       -> <<>>]

Words == {plain, terminators, header, long, empty}
Short == <<Word[plain]>>

\* Every request of one or two arguments alone, those of one argument in pairs,
\* some of two arguments with one behind them, and three short ones, which one read can hold with a part of the next.
MCStreams ==
  {<<<<Word[a]>>>> : a \in Words}
  \cup {<<<<Word[a], Word[b]>>>> : a, b \in Words}
  \cup {<<<<Word[a]>>, <<Word[b]>>>> : a, b \in Words}
  \cup {<<<<Word[a], Word[b]>>, <<Word[b]>>>> : a, b \in Words}
  \cup {<<Short, Short, Short>>}
=============================================================================
