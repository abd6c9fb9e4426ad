------------------------------ MODULE RespParser ------------------------------
(***************************************************************************)
(* The parser of one connection: parse_cli_mes (work_with_socket.c), which *)
(* takes requests out of the read buffer byte by byte, and the loop of     *)
(* on_read_cb (redis_proxy.c) around it. A read may end anywhere, and what *)
(* the parser has understood so far stays in the connection.               *)
(*                                                                         *)
(* A client sends one of the Streams, sequences of well-formed requests.   *)
(***************************************************************************)
EXTENDS Bytes, Integers

CONSTANTS
  Streams,      \* sequences of requests, a request being a sequence of arguments
  BUFFER_SIZE   \* bytes that one read takes (200 in the code)

\* The numbers of a stream.
Numbers(stream) ==
  {Len(request) : request \in Range(stream)}
  \cup {Len(s) : s \in UNION {Range(request) : request \in Range(stream)}}

\* The parser has int for them, with one more byte for the NUL of an argument.
INT_MAX == 2147483647

ASSUME ParserAssumption ==
  /\ \A stream \in Streams :
       /\ stream \in Seq(Seq(Seq(0 .. 255)) \ {<<>>})
       /\ \A n \in Numbers(stream) : n < INT_MAX
  /\ BUFFER_SIZE \in Nat \ {0}

VARIABLES
  requests,    \* what the client sends
  unread,      \* the bytes of it that were not read
  worker,      \* "up", or "down" once the process has ended
  buffer,      \* the cur_buffer_size bytes of read_buffer that were not parsed
  read_status,
  exit_status,
  parsing_num,
  size_str,
  parsing_str, \* the cur_size_str bytes of the argument under way
  argc,
  argv,        \* the cur_count_argv arguments that are complete
  done         \* history: the requests given to process_redis_to_postgres

stringVars == <<size_str, parsing_str>>
argVars == <<argc, argv>>
vars == <<requests, unread, worker, buffer, read_status, exit_status,
          parsing_num, stringVars, argVars, done>>

Statuses == {"ARRAY_WAIT", "NUM_OR_MINUS_WAIT", "NUM_WAIT", "STRING_WAIT",
             "START_STRING_WAIT", "STR_SYM_WAIT", "END"}

\* The parser works with no number above those it was sent.
UpToSent == {0} \cup UNION {0 .. n : n \in Numbers(requests)}

TypeOK ==
  /\ requests \in Streams
  /\ worker \in {"up", "down"}
  /\ unread \in Seq(0 .. 255)
  /\ buffer \in Seq(0 .. 255)
  /\ Len(buffer) <= BUFFER_SIZE
  /\ read_status \in Statuses
  /\ exit_status \in {"NOT_ALL", "ALL"}
  /\ parsing_num \in UpToSent
  /\ size_str \in UpToSent
  /\ parsing_str \in Seq(0 .. 255)
  /\ argc \in {-1} \cup (UpToSent \ {0})
  /\ argv \in Seq(Seq(0 .. 255))
  /\ done \in Seq(Seq(Seq(0 .. 255)))

-----------------------------------------------------------------------------
(***************************************************************************)
(* The loop of on_read_cb.                                                 *)
(***************************************************************************)

\* It returns when the buffer is empty. What a read brings counts as all there
\* is in the buffer.
read_data ==
  /\ worker = "up"
  /\ buffer = <<>>
  /\ \E size \in 1 .. BUFFER_SIZE :
       /\ size <= Len(unread)
       /\ buffer' = SubSeq(unread, 1, size)
       /\ unread' = SubSeq(unread, size + 1, Len(unread))
  /\ UNCHANGED <<requests, worker, read_status, exit_status, parsing_num, stringVars, argVars, done>>

\* The last request was answered: the parser starts afresh.
NextRequest ==
  /\ worker = "up"
  /\ exit_status = "ALL"
  /\ buffer # <<>>
  /\ read_status' = "ARRAY_WAIT"
  /\ exit_status' = "NOT_ALL"
  /\ argc' = -1
  /\ argv' = <<>>
  /\ parsing_num' = 0
  /\ UNCHANGED <<requests, unread, worker, buffer, stringVars, done>>

-----------------------------------------------------------------------------
(***************************************************************************)
(* The steps of parse_cli_mes: each takes the first byte of the buffer.    *)
(***************************************************************************)

\* A step in a state of the automaton; only the last one of a request differs
\* in what it does to buffer, exit_status and done.
Parsing(status) ==
  /\ worker = "up"
  /\ exit_status = "NOT_ALL"
  /\ buffer # <<>>
  /\ read_status = status
  /\ UNCHANGED <<requests, unread>>

Symbol == Head(buffer)

\* The next byte; after the last one cur_buffer_size is 0 and exit_status NOT_ALL.
TakeSymbol ==
  /\ buffer' = Tail(buffer)
  /\ UNCHANGED <<exit_status, done>>

\* Takes symbol c and waits for something else.
Expect(c, status, next) ==
  /\ Parsing(status)
  /\ Symbol = c
  /\ read_status' = next
  /\ TakeSymbol
  /\ UNCHANGED <<worker, parsing_num, stringVars, argVars>>

\* Faulty form: a '$' that a read ends with is forgotten.
StringStart_forgets ==
  /\ Parsing("START_STRING_WAIT")
  /\ Symbol = DOLLAR
  /\ read_status' = IF Len(buffer) = 1 THEN read_status ELSE "NUM_OR_MINUS_WAIT"
  /\ TakeSymbol
  /\ UNCHANGED <<worker, parsing_num, stringVars, argVars>>

ArrayStart == Expect(STAR, "ARRAY_WAIT", "NUM_OR_MINUS_WAIT")
StringStart == Expect(DOLLAR, "START_STRING_WAIT", "NUM_OR_MINUS_WAIT")
SizeLine == Expect(LF, "STRING_WAIT", "STR_SYM_WAIT")

FirstDigit ==
  /\ Parsing("NUM_OR_MINUS_WAIT")
  /\ IsDigit(Symbol)
  /\ parsing_num' = parsing_num * 10 + (Symbol - 48)
  /\ read_status' = "NUM_WAIT"
  /\ TakeSymbol
  /\ UNCHANGED <<worker, stringVars, argVars>>

NextDigit ==
  /\ Parsing("NUM_WAIT")
  /\ IsDigit(Symbol)
  /\ parsing_num' = parsing_num * 10 + (Symbol - 48)
  /\ TakeSymbol
  /\ UNCHANGED <<worker, read_status, stringVars, argVars>>

\* Faulty form: the number is kept for the next one to be added to.
NumberEnds_keeps_number ==
  /\ Parsing("NUM_WAIT")
  /\ Symbol = CR
  /\ \/ /\ argc = -1
        /\ argc' = parsing_num
        /\ argv' = <<>>
        /\ read_status' = "START_STRING_WAIT"
        /\ UNCHANGED stringVars
     \/ /\ argc # -1
        /\ size_str' = parsing_num
        /\ parsing_str' = <<>>
        /\ read_status' = "STRING_WAIT"
        /\ UNCHANGED argVars
  /\ TakeSymbol
  /\ UNCHANGED <<worker, parsing_num>>

\* The first number of a request is its argc, every other one the size of an
\* argument. The minus sign, which no number of a request has, is left out.
NumberEnds ==
  /\ Parsing("NUM_WAIT")
  /\ Symbol = CR
  /\ \/ /\ argc = -1
        /\ argc' = parsing_num
        /\ argv' = <<>>
        /\ read_status' = "START_STRING_WAIT"
        /\ UNCHANGED stringVars
     \/ /\ argc # -1
        /\ size_str' = parsing_num
        /\ parsing_str' = <<>>
        /\ read_status' = "STRING_WAIT"
        /\ UNCHANGED argVars
  /\ parsing_num' = 0
  /\ TakeSymbol
  /\ UNCHANGED worker

\* Faulty form: the argument ends one byte late.
ArgumentEnds_late(str) == Len(str) = size_str + 1

\* cur_size_str was increased before it is compared with size_str.
ArgumentEnds(str) == Len(str) = size_str

\* A byte of an argument, whatever it is; the one that ends it goes to argv.
ArgumentByte ==
  LET str == Append(parsing_str, Symbol) IN
  /\ Parsing("STR_SYM_WAIT")
  /\ TakeSymbol
  /\ UNCHANGED <<worker, parsing_num, argc>>
  /\ \/ /\ ~ArgumentEnds(str)
        /\ parsing_str' = str
        /\ UNCHANGED <<read_status, size_str, argv>>
     \/ /\ ArgumentEnds(str)
        /\ argv' = Append(argv, str)
        /\ parsing_str' = <<>>
        /\ size_str' = 0
        /\ read_status' = IF Len(argv') = argc THEN "END" ELSE "START_STRING_WAIT"

\* parsing_str has room for size_str + 1 bytes. What a byte behind them hits may
\* end the process, or nobody notices.
ArgumentOverflows ==
  /\ Parsing("STR_SYM_WAIT")
  /\ Len(parsing_str) > size_str
  /\ worker' = "down"
  /\ UNCHANGED <<buffer, read_status, exit_status, parsing_num, stringVars, argVars, done>>

\* Every byte that no other step is for. Outside an argument the automaton
\* passes over the bytes it does not wait for, without complaint.
Skip ==
  /\ \/ Parsing("ARRAY_WAIT") /\ Symbol # STAR
     \/ Parsing("NUM_OR_MINUS_WAIT") /\ ~IsDigit(Symbol)
     \/ Parsing("NUM_WAIT") /\ ~IsDigit(Symbol) /\ Symbol # CR
     \/ Parsing("START_STRING_WAIT") /\ Symbol # DOLLAR
     \/ Parsing("STRING_WAIT") /\ Symbol # LF
     \/ Parsing("END") /\ Symbol # LF
  /\ TakeSymbol
  /\ UNCHANGED <<worker, read_status, parsing_num, stringVars, argVars>>

\* Faulty form: the bytes behind a request are dropped.
replace_part_of_buffer_drops == buffer' = <<>>

replace_part_of_buffer == buffer' = Tail(buffer)

\* The request is complete, and on_read_cb has it processed. The bytes behind it
\* move to the front of the buffer.
RequestEnds ==
  /\ Parsing("END")
  /\ Symbol = LF
  /\ replace_part_of_buffer
  /\ exit_status' = "ALL"
  /\ done' = Append(done, argv)
  /\ UNCHANGED <<worker, read_status, parsing_num, stringVars, argVars>>

parse_cli_mes ==
  \/ ArrayStart \/ FirstDigit \/ NextDigit \/ NumberEnds
  \/ StringStart \/ SizeLine \/ ArgumentByte \/ ArgumentOverflows
  \/ RequestEnds \/ Skip

-----------------------------------------------------------------------------

Encoded(stream) == FlattenSeq([i \in DOMAIN stream |-> Request(stream[i])])

\* on_accept_cb sets the parser up.
Init ==
  /\ requests \in Streams
  /\ unread = Encoded(requests)
  /\ worker = "up"
  /\ buffer = <<>>
  /\ read_status = "ARRAY_WAIT"
  /\ exit_status = "NOT_ALL"
  /\ parsing_num = 0
  /\ size_str = 0
  /\ parsing_str = <<>>
  /\ argc = -1
  /\ argv = <<>>
  /\ done = <<>>

Next == read_data \/ NextRequest \/ parse_cli_mes

Spec == Init /\ [][Next]_vars

\* The client sends all it has to send, and the loop goes on reading.
FairSpec == Spec /\ WF_vars(Next)

-----------------------------------------------------------------------------
(***************************************************************************)
(* Properties.                                                             *)
(***************************************************************************)

\* The bytes the parser has taken, and the requests whose last byte is among them.
BytesTaken == Len(Encoded(requests)) - Len(unread) - Len(buffer)
Taken == {n \in DOMAIN requests : Len(Encoded(SubSeq(requests, 1, n))) <= BytesTaken}

\* The requests up to the first one with an empty argument.
BeforeEmpty == {n \in DOMAIN requests : \A i \in 1 .. n : <<>> \notin Range(requests[i])}

\* However the bytes are cut into reads, a request reaches the command layer with
\* its last byte, with the arguments it was sent with, and in its turn. Arguments
\* may hold any bytes, those of the protocol too. The parser does not find the
\* end of an empty argument, and parses nothing from there on.
ParsedAsSent == done = SubSeq(requests, 1, Cardinality(Taken \cap BeforeEmpty))

\* Nothing is written behind the size_str + 1 bytes of parsing_str, the last of
\* which is for the NUL, or the argc places of argv. The one exception is the
\* argument that was sent empty, behind whose memory the rest of the stream goes.
WritesStayInside ==
  /\ read_status = "STR_SYM_WAIT" =>
       Len(parsing_str) < size_str \/ requests[Len(done) + 1][Len(argv) + 1] = <<>>
  /\ argc # -1 => Len(argv) <= argc

\* The parser comes to an end of what it was sent: no byte is taken twice, and
\* no read waits for bytes that are already there.
EventuallyParsed == DOMAIN requests = BeforeEmpty ~> done = requests
=============================================================================
