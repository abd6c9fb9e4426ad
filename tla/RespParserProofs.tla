--------------------------- MODULE RespParserProofs ---------------------------
(***************************************************************************)
(* Proofs about RespParser, for every stream of well-formed requests and   *)
(* every cut of it into reads.                                             *)
(***************************************************************************)
EXTENDS RespParser, RecursionProofs

Byte == 0 .. 255
Strings == Seq(Byte)

\* What was sent and not yet taken by the parser.
Rest == buffer \o unread

\* The bytes of a request behind its j-th argument, and those of a stream behind
\* its k-th request.
Arguments(request) == [i \in DOMAIN request |-> BulkString(request[i])]
ArgsAfter(request, j) == FlattenSeq(SubSeq(Arguments(request), j + 1, Len(request)))

Requests(stream) == [i \in DOMAIN stream |-> Request(stream[i])]
After(stream, k) == FlattenSeq(SubSeq(Requests(stream), k + 1, Len(stream)))

\* What the digits of n are read as.
Reading(n) == CHOOSE v : IsReading(v, n)

-----------------------------------------------------------------------------
(***************************************************************************)
(* The inductive invariant: what the parser knows of the request it is in, *)
(* and what is behind the place it has come to. request is the one that is *)
(* read, rest the bytes of the stream behind it.                           *)
(***************************************************************************)

Idle == size_str = 0 /\ parsing_str = <<>>

\* In number n, which behind is behind.
InNumber(n, behind) ==
  \/ /\ read_status = "NUM_OR_MINUS_WAIT"
     /\ parsing_num = 0
     /\ Rest = Decimal[n] \o (CRLF \o behind)
  \/ /\ read_status = "NUM_WAIT"
     /\ \E i \in 1 .. Len(Decimal[n]) :
          /\ parsing_num = Reading(n)[i]
          /\ Rest = SubSeq(Decimal[n], i + 1, Len(Decimal[n])) \o (CRLF \o behind)

InCount(request, rest) ==
  /\ argc = -1
  /\ argv = <<>>
  /\ Idle
  /\ InNumber(Len(request), ArgsAfter(request, 0) \o rest)

\* The bytes behind the j-th argument and its terminator.
BehindArg(request, rest, j) == ArgsAfter(request, j) \o rest

\* In front of argument j + 1: what its array or the argument before it ends with
\* may be left to pass over.
InGap(request, rest, j) ==
  /\ read_status = "START_STRING_WAIT"
  /\ parsing_num = 0
  /\ Idle
  /\ \E gap \in {<<>>, <<LF>>, CRLF} : Rest = gap \o BehindArg(request, rest, j)

InSize(request, rest, j) ==
  /\ Idle
  /\ InNumber(Len(request[j + 1]), request[j + 1] \o (CRLF \o BehindArg(request, rest, j + 1)))

InSizeLine(request, rest, j) ==
  /\ read_status = "STRING_WAIT"
  /\ parsing_num = 0
  /\ size_str = Len(request[j + 1])
  /\ parsing_str = <<>>
  /\ Rest = <<LF>> \o (request[j + 1] \o (CRLF \o BehindArg(request, rest, j + 1)))

InArgument(request, rest, j) ==
  /\ read_status = "STR_SYM_WAIT"
  /\ parsing_num = 0
  /\ size_str = Len(request[j + 1])
  /\ \E i \in 0 .. Len(request[j + 1]) - 1 :
       /\ parsing_str = SubSeq(request[j + 1], 1, i)
       /\ Rest = SubSeq(request[j + 1], i + 1, Len(request[j + 1]))
                   \o (CRLF \o BehindArg(request, rest, j + 1))

\* Behind the size of an empty argument, for good.
Stuck(request, j) ==
  /\ read_status = "STR_SYM_WAIT"
  /\ parsing_num = 0
  /\ request[j + 1] = <<>>
  /\ size_str = 0
  /\ parsing_str \in Strings

InTerminator(request, rest) ==
  /\ read_status = "END"
  /\ parsing_num = 0
  /\ Idle
  /\ \E gap \in {<<LF>>, CRLF} : Rest = gap \o rest

InArguments(request, rest) ==
  /\ argc = Len(request)
  /\ \E j \in 0 .. Len(request) :
       /\ argv = SubSeq(request, 1, j)
       /\ \A i \in 1 .. j : request[i] # <<>>
       /\ \/ /\ j < Len(request)
             /\ \/ InGap(request, rest, j)
                \/ InSize(request, rest, j)
                \/ InSizeLine(request, rest, j)
                \/ InArgument(request, rest, j)
                \/ Stuck(request, j)
          \/ /\ j = Len(request)
             /\ InTerminator(request, rest)

InRequest(request, rest) == InCount(request, rest) \/ InArguments(request, rest)

\* Between two requests, in front of the next one or with one just completed.
Between(stream, k) ==
  /\ parsing_num = 0
  /\ Idle
  /\ Rest = After(stream, k)
  /\ \/ /\ read_status = "ARRAY_WAIT"
        /\ exit_status = "NOT_ALL"
        /\ argc = -1
        /\ argv = <<>>
     \/ /\ read_status = "END"
        /\ exit_status = "ALL"
        /\ k # 0
        /\ argv = stream[k]
        /\ argc = Len(stream[k])

Within(stream, k) ==
  /\ k < Len(stream)
  /\ exit_status = "NOT_ALL"
  /\ InRequest(stream[k + 1], After(stream, k + 1))

\* What holds everywhere, with k requests of the stream parsed.
Kept(stream, k) ==
  /\ requests = stream
  /\ worker \in {"up", "down"}
  /\ buffer \in Strings
  /\ unread \in Strings
  /\ Len(buffer) <= BUFFER_SIZE
  /\ done = SubSeq(stream, 1, k)
  /\ \A i \in 1 .. k : <<>> \notin Range(stream[i])
  /\ Len(Rest) <= Len(After(stream, k))

Parsed(stream, k) == Kept(stream, k) /\ (Between(stream, k) \/ Within(stream, k))

ParserInv == \E stream \in Streams : \E k \in 0 .. Len(stream) : Parsed(stream, k)
-----------------------------------------------------------------------------
(***************************************************************************)
(* What is behind what in a stream.                                        *)
(***************************************************************************)

\* Strings put together.
LEMMA Joined == \A p, q \in Strings : p \o q \in Strings /\ Len(p \o q) = Len(p) + Len(q)
<1> SUFFICES ASSUME NEW p \in Strings, NEW q \in Strings
             PROVE  p \o q \in Strings /\ Len(p \o q) = Len(p) + Len(q)
  OBVIOUS
<1> QED
  BY ConcatProperties DEF Strings

LEMMA Associated == \A p, q, r \in Strings : (p \o q) \o r = p \o (q \o r)
<1> SUFFICES ASSUME NEW p \in Strings, NEW q \in Strings, NEW r \in Strings
             PROVE  (p \o q) \o r = p \o (q \o r)
  OBVIOUS
<1> QED
  BY ConcatAssociative DEF Strings

LEMMA StringLength == \A p \in Strings : Len(p) \in Nat
BY DEF Strings

LEMMA Typed ==
  ASSUME NEW stream \in Streams
  PROVE  stream \in Seq(Seq(Strings) \ {<<>>}) /\ Len(stream) \in Nat
BY ParserAssumption DEF Byte, Strings

LEMMA Constants ==
  /\ CRLF \in Strings /\ <<LF>> \in Strings /\ <<CR>> \in Strings /\ <<>> \in Strings
  /\ <<STAR>> \in Strings /\ <<DOLLAR>> \in Strings
  /\ CRLF = <<CR>> \o <<LF>>
  /\ Len(CRLF) = 2 /\ Len(<<LF>>) = 1 /\ Len(<<STAR>>) = 1 /\ Len(<<DOLLAR>>) = 1
  /\ STAR \in Byte /\ DOLLAR \in Byte /\ LF \in Byte /\ CR \in Byte
BY DEF Byte, Strings, CRLF, LF, CR, STAR, DOLLAR

LEMMA NumberBytes ==
  ASSUME NEW n \in Nat
  PROVE  /\ Decimal[n] \in Strings /\ Len(Decimal[n]) \in Nat \ {0}
         /\ \A i \in 1 .. Len(Decimal[n]) : Decimal[n][i] \in 48 .. 57
<1>1. Decimal[n] \in Seq(Digits) /\ Len(Decimal[n]) \in Nat \ {0}
  BY DecimalIsDigits
<1>2. Digits \subseteq Byte
  BY DEF Digits, Byte
<1> HIDE DEF Byte
<1>3. Decimal[n] \in Strings
  BY <1>1, <1>2, SeqMonotonic DEF Strings
<1> QED
  BY <1>1, <1>3, ElementOfSeq DEF Digits

\* A terminator is taken in two steps.
LEMMA CrlfFirst ==
  ASSUME NEW b \in Strings
  PROVE  /\ CRLF \o b = <<CR>> \o (<<LF>> \o b)
         /\ CRLF \o b \in Strings /\ <<LF>> \o b \in Strings
<1>1. CRLF \in Strings
  BY Constants
<1>2. PICK r \in Strings : r = <<CR>>
  BY Constants
<1>3. PICK l \in Strings : l = <<LF>>
  BY Constants
<1>4. CRLF = r \o l
  BY <1>2, <1>3, Constants
<1>5. CRLF \o b \in Strings /\ l \o b \in Strings
  BY <1>1, Joined, Zenon
<1>6. (r \o l) \o b = r \o (l \o b)
  BY Associated, ZenonT(60)
<1> QED
  BY <1>2, <1>3, <1>4, <1>5, <1>6

\* An argument, with what is behind it.
LEMMA BulkStringBytes ==
  ASSUME NEW s \in Strings, NEW b \in Strings
  PROVE  /\ BulkString(s) \in Strings
         /\ BulkString(s) \o b = <<DOLLAR>> \o (Decimal[Len(s)] \o (CRLF \o (s \o (CRLF \o b))))
<1> DEFINE d == Decimal[Len(s)]
           r == <<DOLLAR>>
           c == CRLF
<1>1. d \in Strings
  BY NumberBytes, StringLength
<1>2. r \in Strings /\ c \in Strings
  BY Constants
<1>3. BulkString(s) = (((r \o d) \o c) \o s) \o c
  BY DEF BulkString
<1> HIDE DEF d, r, c
<1>4. PICK x1 : x1 = r \o d
  OBVIOUS
<1>5. PICK x2 : x2 = x1 \o c
  OBVIOUS
<1>6. PICK x3 : x3 = x2 \o s
  OBVIOUS
<1>7. PICK b1 : b1 = c \o b
  OBVIOUS
<1>8. PICK b2 : b2 = s \o b1
  OBVIOUS
<1>9. PICK b3 : b3 = c \o b2
  OBVIOUS
<1>10. x1 \in Strings
  BY <1>1, <1>2, <1>4, Joined, Zenon
<1>11. x2 \in Strings
  BY <1>2, <1>5, <1>10, Joined, Zenon
<1>12. x3 \in Strings /\ x3 \o c \in Strings
  BY <1>2, <1>6, <1>11, Joined, Zenon
<1>13. b1 \in Strings
  BY <1>2, <1>7, Joined, Zenon
<1>14. b2 \in Strings
  BY <1>8, <1>13, Joined, Zenon
<1>15. b3 \in Strings
  BY <1>2, <1>9, <1>14, Joined, Zenon
<1>16. (x3 \o c) \o b = x3 \o b1
  <2>1. c \in Strings /\ x3 \in Strings
    BY <1>2, <1>12
  <2>2. (x3 \o c) \o b = x3 \o (c \o b)
    BY <2>1, Associated, ZenonT(60)
  <2> QED
    BY <1>7, <2>2
<1>17. (x2 \o s) \o b1 = x2 \o b2
  BY <1>8, <1>11, <1>13, Associated, ZenonT(60)
<1>18. (x1 \o c) \o b2 = x1 \o b3
  BY <1>2, <1>9, <1>10, <1>14, Associated, ZenonT(60)
<1>19. (r \o d) \o b3 = r \o (d \o b3)
  <2>1. r \in Strings
    BY <1>2
  <2> QED
    BY <1>1, <1>15, <2>1, Associated, ZenonT(60)
<1>20. BulkString(s) = x3 \o c
  BY <1>3, <1>4, <1>5, <1>6, Zenon
<1>21. BulkString(s) \o b = r \o (d \o b3)
  BY <1>4, <1>5, <1>6, <1>16, <1>17, <1>18, <1>19, <1>20, Zenon
<1>22. BulkString(s) \in Strings
  BY <1>12, <1>20, Zenon
<1> QED
  BY <1>7, <1>8, <1>9, <1>21, <1>22, Zenon DEF d, r, c

LEMMA ArgumentsTyped ==
  ASSUME NEW request \in Seq(Strings)
  PROVE  /\ Arguments(request) \in Seq(Strings)
         /\ Len(Arguments(request)) = Len(request) /\ Len(request) \in Nat
         /\ \A i \in 1 .. Len(request) : /\ request[i] \in Strings
                                         /\ Arguments(request)[i] = BulkString(request[i])
<1> DEFINE B == Strings
<1>1. request \in Seq(B)
  OBVIOUS
<1>b. \A s \in B : BulkString(s) \in B
  BY Constants, BulkStringBytes
<1> HIDE DEF B
<1>2. DOMAIN request = 1 .. Len(request) /\ Len(request) \in Nat
  BY <1>1
<1>3. \A i \in 1 .. Len(request) : request[i] \in B
  BY <1>1, ElementOfSeq
<1>4. Arguments(request) \in [1 .. Len(request) -> B]
  BY <1>2, <1>3, <1>b DEF Arguments
<1>5. Arguments(request) \in Seq(B) /\ Len(Arguments(request)) = Len(request)
  <2>1. PICK f, n : f = Arguments(request) /\ n = Len(request)
    OBVIOUS
  <2>2. f \in Seq(B) /\ Len(f) = n
    <3>1. f \in [1 .. n -> B] /\ n \in Nat
      BY <1>2, <1>4, <2>1
    <3>2. f \in Seq(B)
      BY <3>1
    <3>3. Len(f) = n
      BY <3>1, <3>2
    <3> QED
      BY <3>2, <3>3
  <2> QED
    BY <2>1, <2>2
<1>6. \A i \in 1 .. Len(request) : Arguments(request)[i] = BulkString(request[i])
  BY <1>2 DEF Arguments
<1> QED
  BY <1>2, <1>3, <1>5, <1>6 DEF B

\* Behind an argument comes the next one, or nothing.
LEMMA ArgsFollow ==
  ASSUME NEW request \in Seq(Strings), NEW b \in Strings, NEW j \in 0 .. Len(request)
  PROVE  /\ ArgsAfter(request, j) \in Strings
         /\ j < Len(request) =>
              ArgsAfter(request, j) \o b =
                <<DOLLAR>> \o (Decimal[Len(request[j + 1])] \o
                  (CRLF \o (request[j + 1] \o (CRLF \o (ArgsAfter(request, j + 1) \o b)))))
         /\ j = Len(request) => ArgsAfter(request, j) \o b = b
<1> DEFINE seqs == Arguments(request)
<1>1. seqs \in Seq(Strings) /\ Len(seqs) = Len(request) /\ Len(request) \in Nat
  BY ArgumentsTyped
<1>2. j \in 0 .. Len(seqs) /\ Len(seqs) \in j .. Len(seqs)
  BY <1>1
<1>b. \A k \in 0 .. Len(seqs) : ArgsAfter(request, k) = FlattenSeq(SubSeq(seqs, k + 1, Len(seqs)))
  BY <1>1 DEF ArgsAfter
<1> HIDE DEF seqs
<1>c. \A k \in 0 .. Len(seqs) : ArgsAfter(request, k) \in Strings
  <2> SUFFICES ASSUME NEW k \in 0 .. Len(seqs) PROVE ArgsAfter(request, k) \in Strings
    OBVIOUS
  <2>1. k \in k .. Len(seqs)
    BY <1>1
  <2> QED
    BY <1>1, <1>b, <2>1, FlatRest DEF Strings
<1>3. ASSUME j < Len(request)
      PROVE  ArgsAfter(request, j) \o b =
                <<DOLLAR>> \o (Decimal[Len(request[j + 1])] \o
                  (CRLF \o (request[j + 1] \o (CRLF \o (ArgsAfter(request, j + 1) \o b)))))
  <2>1. j \in 0 .. Len(seqs) - 1 /\ j + 1 \in 0 .. Len(seqs) /\ j + 1 \in 1 .. Len(request)
    BY <1>1, <1>3
  <2>2. ArgsAfter(request, j) = seqs[j + 1] \o ArgsAfter(request, j + 1)
    <3>1. FlattenSeq(SubSeq(seqs, j + 1, Len(seqs))) =
            seqs[j + 1] \o FlattenSeq(SubSeq(seqs, (j + 1) + 1, Len(seqs)))
      BY <1>1, <2>1, FlatFirst DEF Strings
    <3> QED
      BY <1>2, <1>b, <2>1, <3>1
  <2>3. seqs[j + 1] = BulkString(request[j + 1]) /\ request[j + 1] \in Strings
    BY <2>1, ArgumentsTyped DEF seqs
  <2> DEFINE rest == ArgsAfter(request, j + 1)
             s == request[j + 1]
             B == Strings
  <2>4. rest \in B /\ s \in B /\ b \in B
    BY <1>c, <2>1, <2>3
  <2>5. BulkString(s) \in B
    BY <2>4, BulkStringBytes
  <2> HIDE DEF rest, s
  <2>6. (BulkString(s) \o rest) \o b = BulkString(s) \o (rest \o b)
    BY <2>4, <2>5, Associated, ZenonT(60)
  <2>7. rest \o b \in B
    BY <2>4, Joined, Zenon
  <2>8. BulkString(s) \o (rest \o b) = <<DOLLAR>> \o (Decimal[Len(s)] \o (CRLF \o (s \o (CRLF \o (rest \o b)))))
    BY <2>4, <2>7, BulkStringBytes
  <2> QED
    BY <2>2, <2>3, <2>6, <2>8, Zenon DEF rest, s
<1>4. ASSUME j = Len(request)
      PROVE  ArgsAfter(request, j) \o b = b
  <2>1. SubSeq(seqs, j + 1, Len(seqs)) = <<>>
    BY <1>1, <1>4, SubSeqEmpty
  <2> QED
    <3>1. ArgsAfter(request, j) = <<>>
      BY <1>2, <1>b, <2>1, FlatEmpty
    <3>2. <<>> \o b = b
      BY ConcatEmptySeq DEF Strings
    <3> QED
      BY <3>1, <3>2
<1> QED
  BY <1>1, <1>3, <1>4, <1>c

LEMMA RequestBytes ==
  ASSUME NEW request \in Seq(Strings), NEW b \in Strings
  PROVE  /\ Request(request) \in Strings /\ Len(Request(request)) > 0
         /\ Request(request) \o b =
              <<STAR>> \o (Decimal[Len(request)] \o (CRLF \o (ArgsAfter(request, 0) \o b)))
<1> DEFINE d == Decimal[Len(request)]
           r == <<STAR>>
           c == CRLF
           s == ArgsAfter(request, 0)
<1>1. Len(request) \in Nat /\ 0 \in 0 .. Len(request)
  OBVIOUS
<1>2. d \in Strings
  BY <1>1, NumberBytes
<1>3. r \in Strings /\ c \in Strings /\ Len(r) = 1
  BY Constants
<1>4. s \in Strings
  BY <1>1, ArgsFollow
<1>5. Request(request) = ((r \o d) \o c) \o s
  <2>1. Arguments(request) \in Seq(Strings) /\ Len(Arguments(request)) = Len(request)
    BY ArgumentsTyped
  <2>2. SubSeq(Arguments(request), 1, Len(request)) = Arguments(request)
    BY <2>1, SubSeqFull
  <2>3. s = FlattenSeq(Arguments(request))
    <3>1. 0 + 1 = 1
      OBVIOUS
    <3> QED
      BY <2>2, <3>1, Zenon DEF ArgsAfter
  <2> HIDE DEF s
  <2> QED
    BY <2>3 DEF Request, Arguments
<1> HIDE DEF d, r, c, s
<1>6. PICK x1 : x1 = r \o d
  OBVIOUS
<1>7. PICK x2 : x2 = x1 \o c
  OBVIOUS
<1>8. PICK b1 : b1 = s \o b
  OBVIOUS
<1>9. PICK b2 : b2 = c \o b1
  OBVIOUS
<1>10. x1 \in Strings /\ Len(x1) = Len(r) + Len(d)
  BY <1>2, <1>3, <1>6, Joined, Zenon
<1>11. x2 \in Strings /\ Len(x2) = Len(x1) + Len(c)
  BY <1>3, <1>7, <1>10, Joined, Zenon
<1>12. x2 \o s \in Strings /\ Len(x2 \o s) = Len(x2) + Len(s)
  BY <1>4, <1>11, Joined, Zenon
<1>13. b1 \in Strings
  BY <1>4, <1>8, Joined, Zenon
<1>14. b2 \in Strings
  BY <1>3, <1>9, <1>13, Joined, Zenon
<1>15. (x2 \o s) \o b = x2 \o b1
  BY <1>4, <1>8, <1>11, Associated, ZenonT(60)
<1>16. (x1 \o c) \o b1 = x1 \o b2
  BY <1>3, <1>9, <1>10, <1>13, Associated, ZenonT(60)
<1>17. (r \o d) \o b2 = r \o (d \o b2)
  BY <1>2, <1>3, <1>14, Associated, ZenonT(60)
<1>18. Request(request) = x2 \o s
  BY <1>5, <1>6, <1>7, Zenon
<1>19. Len(x2 \o s) > 0
  <2>1. Len(d) \in Nat /\ Len(c) \in Nat /\ Len(s) \in Nat
    BY <1>2, <1>3, <1>4, StringLength, Zenon
  <2> QED
    BY <1>3, <1>10, <1>11, <1>12, <2>1
<1>20. Request(request) \o b = r \o (d \o b2)
  BY <1>6, <1>7, <1>15, <1>16, <1>17, <1>18, Zenon
<1>21. Request(request) \in Strings /\ Len(Request(request)) > 0
  BY <1>12, <1>18, <1>19, Zenon
<1> QED
  BY <1>8, <1>9, <1>20, <1>21, Zenon DEF d, r, c, s

LEMMA RequestsTyped ==
  ASSUME NEW stream \in Streams
  PROVE  /\ Requests(stream) \in Seq(Strings)
         /\ Len(Requests(stream)) = Len(stream) /\ Len(stream) \in Nat
         /\ \A i \in 1 .. Len(stream) : /\ stream[i] \in Seq(Strings) \ {<<>>}
                                        /\ Requests(stream)[i] = Request(stream[i])
<1> DEFINE R == Seq(Strings) \ {<<>>}
<1>1. stream \in Seq(R) /\ Len(stream) \in Nat
  BY Typed
<1>2. \A r \in R : Request(r) \in Strings
  BY Constants, RequestBytes
<1> HIDE DEF R
<1>3. DOMAIN stream = 1 .. Len(stream)
  BY <1>1
<1>4. \A i \in 1 .. Len(stream) : stream[i] \in R
  BY <1>1, ElementOfSeq
<1>5. Requests(stream) \in [1 .. Len(stream) -> Strings]
  BY <1>2, <1>3, <1>4 DEF Requests
<1>6. Requests(stream) \in Seq(Strings) /\ Len(Requests(stream)) = Len(stream)
  <2>1. PICK f, n : f = Requests(stream) /\ n = Len(stream)
    OBVIOUS
  <2>2. f \in [1 .. n -> Strings] /\ n \in Nat
    BY <1>1, <1>5, <2>1
  <2>3. f \in Seq(Strings)
    BY <2>2
  <2>4. Len(f) = n
    BY <2>2, <2>3
  <2> QED
    BY <2>1, <2>3, <2>4
<1>7. \A i \in 1 .. Len(stream) : Requests(stream)[i] = Request(stream[i])
  BY <1>3 DEF Requests
<1> QED
  BY <1>1, <1>4, <1>6, <1>7 DEF R

\* What is behind m requests is behind fewer of them.
LEMMA AfterParts ==
  ASSUME NEW stream \in Streams, NEW k \in 0 .. Len(stream), NEW m \in k .. Len(stream)
  PROVE  /\ After(stream, k) \in Strings
         /\ FlattenSeq(SubSeq(Requests(stream), k + 1, m)) \in Strings
         /\ After(stream, k) = FlattenSeq(SubSeq(Requests(stream), k + 1, m)) \o After(stream, m)
         /\ Len(After(stream, m)) <= Len(After(stream, k))
<1> DEFINE seqs == Requests(stream)
           between == FlattenSeq(SubSeq(seqs, k + 1, m))
<1>1. seqs \in Seq(Strings) /\ Len(seqs) = Len(stream) /\ Len(stream) \in Nat
  BY RequestsTyped
<1>2. \A n \in 0 .. Len(stream) : After(stream, n) = FlattenSeq(SubSeq(seqs, n + 1, Len(seqs)))
  BY <1>1 DEF After
<1>3. m \in 0 .. Len(stream)
  BY <1>1
<1> HIDE DEF seqs
<1>4. /\ between \in Strings
      /\ FlattenSeq(SubSeq(seqs, m + 1, Len(seqs))) \in Strings
      /\ FlattenSeq(SubSeq(seqs, k + 1, Len(seqs))) = between \o FlattenSeq(SubSeq(seqs, m + 1, Len(seqs)))
  BY <1>1, FlatRest DEF Strings
<1> HIDE DEF between
<1>5. After(stream, k) = between \o After(stream, m) /\ After(stream, m) \in Strings
  BY <1>2, <1>3, <1>4
<1>6. After(stream, k) \in Strings /\ Len(After(stream, k)) = Len(between) + Len(After(stream, m))
  BY <1>4, <1>5, Joined, Zenon
<1>7. Len(between) \in Nat /\ Len(After(stream, m)) \in Nat
  BY <1>4, <1>5, StringLength
<1>8. Len(After(stream, m)) <= Len(After(stream, k))
  BY <1>6, <1>7
<1> QED
  BY <1>4, <1>5, <1>6, <1>8 DEF between, seqs

\* Behind a request comes the next one, or nothing.
LEMMA RequestsFollow ==
  ASSUME NEW stream \in Streams, NEW k \in 0 .. Len(stream)
  PROVE  /\ After(stream, k) \in Strings
         /\ k < Len(stream) =>
              /\ After(stream, k) =
                   <<STAR>> \o (Decimal[Len(stream[k + 1])] \o
                     (CRLF \o (ArgsAfter(stream[k + 1], 0) \o After(stream, k + 1))))
              /\ Len(After(stream, k + 1)) < Len(After(stream, k))
         /\ k = Len(stream) => After(stream, k) = <<>>
<1> DEFINE seqs == Requests(stream)
<1>1. seqs \in Seq(Strings) /\ Len(seqs) = Len(stream) /\ Len(stream) \in Nat
  BY RequestsTyped
<1>2. \A n \in 0 .. Len(stream) : After(stream, n) = FlattenSeq(SubSeq(seqs, n + 1, Len(seqs)))
  BY <1>1 DEF After
<1>3. k \in k .. Len(stream)
  BY <1>1
<1>4. After(stream, k) \in Strings
  BY <1>3, AfterParts
<1>5. ASSUME k < Len(stream)
      PROVE  /\ After(stream, k) =
                  <<STAR>> \o (Decimal[Len(stream[k + 1])] \o
                    (CRLF \o (ArgsAfter(stream[k + 1], 0) \o After(stream, k + 1))))
             /\ Len(After(stream, k + 1)) < Len(After(stream, k))
  <2> DEFINE r == stream[k + 1]
             rest == After(stream, k + 1)
  <2>1. /\ k \in 0 .. Len(seqs) - 1 /\ k + 1 \in 0 .. Len(stream) /\ k + 1 \in 1 .. Len(stream)
        /\ k + 1 \in k + 1 .. Len(stream)
    BY <1>1, <1>5
  <2>2. r \in Seq(Strings) /\ seqs[k + 1] = Request(r)
    BY <2>1, RequestsTyped
  <2>3. rest \in Strings
    BY <2>1, AfterParts
  <2>4. After(stream, k) = Request(r) \o rest
    <3> HIDE DEF seqs
    <3>1. FlattenSeq(SubSeq(seqs, k + 1, Len(seqs))) =
            seqs[k + 1] \o FlattenSeq(SubSeq(seqs, (k + 1) + 1, Len(seqs)))
      BY <1>1, <2>1, FlatFirst DEF Strings
    <3> QED
      BY <1>2, <2>1, <2>2, <3>1
  <2> HIDE DEF r, rest
  <2>5. Request(r) \in Strings /\ Len(Request(r)) > 0
        /\ Request(r) \o rest = <<STAR>> \o (Decimal[Len(r)] \o (CRLF \o (ArgsAfter(r, 0) \o rest)))
    BY <2>2, <2>3, RequestBytes
  <2>6. Len(After(stream, k)) = Len(Request(r)) + Len(rest)
    BY <2>3, <2>4, <2>5, Joined, Zenon
  <2>7. Len(rest) \in Nat /\ Len(Request(r)) \in Nat
    BY <2>3, <2>5, StringLength
  <2>8. Len(rest) < Len(After(stream, k))
    BY <2>5, <2>6, <2>7
  <2> QED
    BY <2>4, <2>5, <2>8 DEF r, rest
<1>6. ASSUME k = Len(stream)
      PROVE  After(stream, k) = <<>>
  <2> HIDE DEF seqs
  <2>1. SubSeq(seqs, k + 1, Len(seqs)) = <<>>
    BY <1>1, <1>6, SubSeqEmpty
  <2> QED
    BY <1>2, <2>1, FlatEmpty
<1> QED
  BY <1>4, <1>5, <1>6

\* The part of a stream up to its n-th request, and what is behind it.
LEMMA EncodedLength ==
  ASSUME NEW stream \in Streams, NEW n \in 0 .. Len(stream)
  PROVE  /\ Encoded(stream) = After(stream, 0)
         /\ Encoded(SubSeq(stream, 1, n)) \in Strings
         /\ Len(Encoded(stream)) = Len(Encoded(SubSeq(stream, 1, n))) + Len(After(stream, n))
<1> DEFINE seqs == Requests(stream)
           first == SubSeq(stream, 1, n)
           R == Seq(Strings) \ {<<>>}
<1>1. /\ seqs \in Seq(Strings) /\ Len(seqs) = Len(stream) /\ Len(stream) \in Nat
      /\ \A i \in 1 .. Len(stream) : seqs[i] = Request(stream[i])
  BY RequestsTyped
<1>2. stream \in Seq(R)
  BY Typed
<1> HIDE DEF R, seqs
<1>3. Encoded(stream) = After(stream, 0)
  <2>1. Encoded(stream) = FlattenSeq(seqs)
    BY DEF Encoded, Requests, seqs
  <2>2. SubSeq(seqs, 1, Len(seqs)) = seqs
    BY <1>1, SubSeqFull
  <2>3. 0 + 1 = 1
    OBVIOUS
  <2> QED
    BY <1>1, <2>1, <2>2, <2>3, Zenon DEF After, seqs
<1>4. Encoded(first) = FlattenSeq(SubSeq(seqs, 1, n))
  <2>1. Len(first) = n /\ DOMAIN first = 1 .. n /\ \A i \in 1 .. n : first[i] = stream[i]
    BY <1>1, <1>2
  <2>2. SubSeq(seqs, 1, n) = [i \in 1 .. n |-> seqs[i]]
    BY <1>1
  <2>3. \A i \in 1 .. n : seqs[i] = Request(stream[i])
    BY <1>1
  <2> HIDE DEF first
  <2>4. [i \in 1 .. n |-> Request(first[i])] = [i \in 1 .. n |-> seqs[i]]
    BY <2>1, <2>3
  <2> QED
    BY <2>1, <2>2, <2>4 DEF Encoded
<1>5. 0 \in 0 .. Len(stream) /\ n \in 0 .. Len(stream) /\ n \in n .. Len(stream) /\ 0 + 1 = 1
  BY <1>1
<1> DEFINE head == FlattenSeq(SubSeq(seqs, 1, n))
<1>6. head \in Strings /\ After(stream, 0) = head \o After(stream, n)
  <2>1. /\ FlattenSeq(SubSeq(seqs, 0 + 1, n)) \in Strings
        /\ After(stream, 0) = FlattenSeq(SubSeq(seqs, 0 + 1, n)) \o After(stream, n)
    BY <1>5, AfterParts DEF seqs
  <2> QED
    BY <1>5, <2>1
<1> HIDE DEF head
<1>7. After(stream, n) \in Strings
  BY <1>5, AfterParts
<1>8. Len(After(stream, 0)) = Len(head) + Len(After(stream, n))
  BY <1>6, <1>7, Joined, Zenon
<1> QED
  BY <1>3, <1>4, <1>6, <1>8 DEF head

-----------------------------------------------------------------------------
(***************************************************************************)
(* Taking bytes.                                                           *)
(***************************************************************************)

\* What is left of d from its i-th byte on, in front of t.
LEMMA Peeled ==
  ASSUME NEW d \in Strings, NEW t \in Strings, NEW i \in 1 .. Len(d)
  PROVE  /\ d[i] \in Byte
         /\ SubSeq(d, i + 1, Len(d)) \in Strings
         /\ SubSeq(d, i, Len(d)) \o t = <<d[i]>> \o (SubSeq(d, i + 1, Len(d)) \o t)
<1>1. Len(d) \in Nat /\ Len(d) \in i .. Len(d) /\ d \in Seq(Byte)
  BY StringLength DEF Strings
<1> HIDE DEF Byte
<1>2. d[i] \in Byte /\ <<d[i]>> \in Strings
  BY <1>1, ElementOfSeq DEF Strings
<1>3. SubSeq(d, i, Len(d)) = <<d[i]>> \o SubSeq(d, i + 1, Len(d))
  BY <1>1, SubSeqRecursiveFirst
<1>4. SubSeq(d, i + 1, Len(d)) \in Strings
  <2>1. \A k \in i + 1 .. Len(d) : d[k] \in Byte
    BY <1>1, ElementOfSeq
  <2> QED
    BY <1>1, <2>1, SubSeqProperties DEF Strings
<1>5. (<<d[i]>> \o SubSeq(d, i + 1, Len(d))) \o t = <<d[i]>> \o (SubSeq(d, i + 1, Len(d)) \o t)
  BY <1>2, <1>4, Associated, ZenonT(60)
<1> QED
  BY <1>2, <1>3, <1>4, <1>5

LEMMA WholeAndNothing ==
  ASSUME NEW d \in Strings, NEW t \in Strings
  PROVE  /\ SubSeq(d, 1, Len(d)) = d
         /\ SubSeq(d, Len(d) + 1, Len(d)) \o t = t
<1>1. d \in Seq(Byte) /\ t \in Seq(Byte) /\ Len(d) \in Nat
  BY StringLength DEF Strings
<1> HIDE DEF Byte
<1>2. SubSeq(d, 1, Len(d)) = d
  BY <1>1, SubSeqFull
<1>3. SubSeq(d, Len(d) + 1, Len(d)) = <<>>
  BY <1>1, SubSeqEmpty
<1>4. <<>> \o t = t
  BY <1>1, ConcatEmptySeq
<1> QED
  BY <1>2, <1>3, <1>4

\* The first byte of what is left is the first one of the buffer.
LEMMA FirstOfRest ==
  ASSUME buffer \in Strings, unread \in Strings, buffer # <<>>
  PROVE  /\ Symbol \in Byte
         /\ Tail(buffer) \in Strings /\ Len(Tail(buffer)) = Len(buffer) - 1
         /\ Rest = <<Symbol>> \o (Tail(buffer) \o unread)
         /\ Tail(buffer) \o unread \in Strings
         /\ Rest \in Strings
         /\ Len(Tail(buffer) \o unread) < Len(Rest)
<1>1. buffer \in Seq(Byte) /\ Len(buffer) \in Nat /\ Len(buffer) # 0 /\ Len(unread) \in Nat
  BY StringLength DEF Strings
<1> HIDE DEF Byte
<1>2. Symbol \in Byte /\ Tail(buffer) \in Strings /\ Len(Tail(buffer)) = Len(buffer) - 1
  BY <1>1, HeadTailProperties DEF Symbol, Strings
<1>3. <<Symbol>> \in Strings
  BY <1>2 DEF Strings
<1>4. buffer = <<Symbol>> \o Tail(buffer)
  BY <1>1 DEF Symbol, Strings
<1>5. (<<Symbol>> \o Tail(buffer)) \o unread = <<Symbol>> \o (Tail(buffer) \o unread)
  BY <1>2, <1>3, Associated, ZenonT(60)
<1>6. Tail(buffer) \o unread \in Strings /\ Len(Tail(buffer) \o unread) = Len(Tail(buffer)) + Len(unread)
  BY <1>2, Joined, Zenon
<1>7. Rest \in Strings /\ Len(Rest) = Len(buffer) + Len(unread)
  BY Joined, Zenon DEF Rest
<1>8. Len(Tail(buffer) \o unread) < Len(Rest)
  BY <1>1, <1>2, <1>6, <1>7
<1> QED
  BY <1>2, <1>4, <1>5, <1>6, <1>7, <1>8 DEF Rest

LEMMA SameFirst ==
  ASSUME NEW x \in Byte, NEW y \in Byte, NEW s \in Strings, NEW t \in Strings,
         <<x>> \o s = <<y>> \o t
  PROVE  x = y /\ s = t
<1> DEFINE p == <<x>> \o s
           q == <<y>> \o t
<1>1. s \in Seq(Byte) /\ t \in Seq(Byte) /\ <<x>> \in Seq(Byte) /\ <<y>> \in Seq(Byte)
  BY DEF Strings
<1> HIDE DEF Byte
<1>2. /\ Len(p) = 1 + Len(s) /\ p[1] = x
      /\ \A i \in 1 .. Len(s) : p[1 + i] = s[i]
  BY <1>1
<1>3. /\ Len(q) = 1 + Len(t) /\ q[1] = y
      /\ \A i \in 1 .. Len(t) : q[1 + i] = t[i]
  BY <1>1
<1>4. p = q
  OBVIOUS
<1> HIDE DEF p, q
<1>5. Len(s) = Len(t) /\ Len(s) \in Nat
  BY <1>1, <1>2, <1>3, <1>4
<1>6. \A i \in 1 .. Len(s) : s[i] = t[i]
  BY <1>2, <1>3, <1>4, <1>5
<1>7. s = t
  BY <1>1, <1>5, <1>6, SeqEqual
<1> QED
  BY <1>2, <1>3, <1>4, <1>7

\* If c is the next byte, the parser takes c.
LEMMA Taking ==
  ASSUME buffer \in Strings, unread \in Strings, buffer # <<>>,
         NEW c \in Byte, NEW t \in Strings, Rest = <<c>> \o t
  PROVE  Symbol = c /\ Tail(buffer) \o unread = t
<1>1. Symbol \in Byte /\ Tail(buffer) \o unread \in Strings /\ Rest = <<Symbol>> \o (Tail(buffer) \o unread)
  BY FirstOfRest
<1>2. PICK s \in Strings : s = Tail(buffer) \o unread
  BY <1>1
<1>3. PICK x \in Byte : x = Symbol
  BY <1>1
<1>4. <<x>> \o s = <<c>> \o t
  BY <1>1, <1>2, <1>3
<1>5. x = c /\ s = t
  BY <1>4, SameFirst
<1> QED
  BY <1>2, <1>3, <1>5

-----------------------------------------------------------------------------
(***************************************************************************)
(* The steps of parse_cli_mes, place by place.                             *)
(***************************************************************************)

\* What every step does but RequestEnds and ArgumentOverflows.
Takes ==
  /\ buffer # <<>>
  /\ buffer' = Tail(buffer)
  /\ UNCHANGED <<requests, unread, worker, exit_status, done>>

\* In each state of the automaton few steps are possible.
LEMMA StepsOf ==
  ASSUME parse_cli_mes
  PROVE  /\ buffer # <<>> /\ exit_status = "NOT_ALL" /\ worker = "up" /\ UNCHANGED <<requests, unread>>
         /\ read_status = "ARRAY_WAIT" => Takes /\ (ArrayStart \/ Skip)
         /\ read_status = "NUM_OR_MINUS_WAIT" => Takes /\ (FirstDigit \/ Skip)
         /\ read_status = "NUM_WAIT" => Takes /\ (NextDigit \/ NumberEnds \/ Skip)
         /\ read_status = "START_STRING_WAIT" => Takes /\ (StringStart \/ Skip)
         /\ read_status = "STRING_WAIT" => Takes /\ (SizeLine \/ Skip)
         /\ read_status = "STR_SYM_WAIT" => (ArgumentByte /\ Takes) \/ ArgumentOverflows
         /\ read_status = "END" => RequestEnds \/ (Skip /\ Takes)
<1> USE DEF Parsing, TakeSymbol, Takes
<1>1. CASE ArrayStart
  BY <1>1 DEF ArrayStart, Expect
<1>2. CASE FirstDigit
  BY <1>2 DEF FirstDigit
<1>3. CASE NextDigit
  BY <1>3 DEF NextDigit
<1>4. CASE NumberEnds
  BY <1>4 DEF NumberEnds
<1>5. CASE StringStart
  BY <1>5 DEF StringStart, Expect
<1>6. CASE SizeLine
  BY <1>6 DEF SizeLine, Expect
<1>7. CASE ArgumentByte
  BY <1>7 DEF ArgumentByte
<1>8. CASE ArgumentOverflows
  BY <1>8 DEF ArgumentOverflows
<1>9. CASE RequestEnds
  BY <1>9 DEF RequestEnds
<1>10. CASE Skip
  BY <1>10 DEF Skip
<1> QED
  BY <1>1, <1>2, <1>3, <1>4, <1>5, <1>6, <1>7, <1>8, <1>9, <1>10 DEF parse_cli_mes

LEMMA TakesRest ==
  ASSUME buffer \in Strings, unread \in Strings, Takes,
         NEW c \in Byte, NEW t \in Strings, Rest = <<c>> \o t
  PROVE  Symbol = c /\ Rest' = t
<1>1. Symbol = c /\ Tail(buffer) \o unread = t
  BY Taking DEF Takes
<1> QED
  BY <1>1 DEF Takes, Rest

LEMMA ReadingIs ==
  ASSUME NEW n \in Nat
  PROVE  /\ \A i \in 1 .. Len(Decimal[n]) : Reading(n)[i] \in 0 .. n
         /\ Reading(n)[1] = Decimal[n][1] - 48
         /\ Reading(n)[Len(Decimal[n])] = n
         /\ \A i \in 1 .. Len(Decimal[n]) - 1 :
              Reading(n)[i + 1] = Reading(n)[i] * 10 + (Decimal[n][i + 1] - 48)
<1>1. IsReading(Reading(n), n)
  BY ReadingExists, Zenon DEF Reading
<1> QED
  BY <1>1 DEF IsReading

\* A number: the next digit is added, or the number is complete.
LEMMA NumberStep ==
  ASSUME buffer \in Strings, unread \in Strings, parse_cli_mes,
         NEW n \in Nat, NEW behind \in Strings, InNumber(n, behind)
  PROVE  /\ Takes
         /\ \/ InNumber(n, behind)' /\ UNCHANGED <<stringVars, argVars>>
            \/ NumberEnds /\ parsing_num = n /\ Rest' = <<LF>> \o behind
<1> DEFINE d == Decimal[n]
           L == Len(d)
           b == CRLF \o behind
           v == Reading(n)
<1>1. d \in Strings /\ L \in Nat \ {0} /\ \A i \in 1 .. L : d[i] \in 48 .. 57
  BY NumberBytes
<1>2. b \in Strings /\ <<LF>> \o behind \in Strings
  BY CrlfFirst
<1>3. /\ \A i \in 1 .. L : v[i] \in 0 .. n
      /\ v[1] = d[1] - 48 /\ v[L] = n
      /\ \A i \in 1 .. L - 1 : v[i + 1] = v[i] * 10 + (d[i + 1] - 48)
  BY ReadingIs
<1>4. b = <<CR>> \o (<<LF>> \o behind) /\ CR \in Byte
  BY CrlfFirst, Constants
<1>5. InNumber(n, behind) <=>
        \/ /\ read_status = "NUM_OR_MINUS_WAIT"
           /\ parsing_num = 0
           /\ Rest = d \o b
        \/ /\ read_status = "NUM_WAIT"
           /\ \E i \in 1 .. L : /\ parsing_num = v[i]
                                /\ Rest = SubSeq(d, i + 1, L) \o b
  BY Zenon DEF InNumber
<1>6. InNumber(n, behind)' <=>
        \/ /\ read_status' = "NUM_OR_MINUS_WAIT"
           /\ parsing_num' = 0
           /\ Rest' = d \o b
        \/ /\ read_status' = "NUM_WAIT"
           /\ \E i \in 1 .. L : /\ parsing_num' = v[i]
                                /\ Rest' = SubSeq(d, i + 1, L) \o b
  BY Zenon DEF InNumber
<1> HIDE DEF d, L, b, v
<1>7. ASSUME NEW i \in 1 .. L PROVE d[i] \in Byte /\ SubSeq(d, i + 1, L) \o b \in Strings
                                    /\ SubSeq(d, i, L) \o b = <<d[i]>> \o (SubSeq(d, i + 1, L) \o b)
  <2>1. /\ d[i] \in Byte /\ SubSeq(d, i + 1, L) \in Strings
        /\ SubSeq(d, i, L) \o b = <<d[i]>> \o (SubSeq(d, i + 1, L) \o b)
    BY <1>1, <1>2, Peeled DEF L
  <2>2. SubSeq(d, i + 1, L) \o b \in Strings
    BY <1>2, <2>1, Joined, Zenon
  <2> QED
    BY <2>1, <2>2
<1>8. CASE read_status = "NUM_OR_MINUS_WAIT"
  <2>1. Takes /\ (FirstDigit \/ Skip)
    BY <1>8, StepsOf
  <2>2. 1 \in 1 .. L
    BY <1>1
  <2>3. Rest = SubSeq(d, 1, L) \o b
    BY <1>1, <1>2, <1>5, <1>8, WholeAndNothing DEF L
  <2>4. Symbol = d[1] /\ Rest' = SubSeq(d, 1 + 1, L) \o b
    <3>1. Rest = <<d[1]>> \o (SubSeq(d, 1 + 1, L) \o b)
      BY <1>7, <2>2, <2>3
    <3> QED
      BY <1>7, <2>1, <2>2, <3>1, TakesRest
  <2>5. IsDigit(Symbol)
    BY <1>1, <2>2, <2>4 DEF IsDigit
  <2>6. FirstDigit
    BY <1>8, <2>1, <2>5 DEF Skip, Parsing
  <2>7. parsing_num' = v[1]
    <3>1. parsing_num = 0
      BY <1>5, <1>8
    <3>2. parsing_num' = parsing_num * 10 + (Symbol - 48)
      BY <2>6 DEF FirstDigit
    <3> QED
      BY <1>1, <1>3, <2>2, <2>4, <3>1, <3>2
  <2>8. read_status' = "NUM_WAIT" /\ UNCHANGED <<stringVars, argVars>>
    BY <2>6 DEF FirstDigit
  <2> QED
    BY <1>6, <2>1, <2>2, <2>4, <2>7, <2>8
<1>9. CASE read_status = "NUM_WAIT"
  <2>1. Takes /\ (NextDigit \/ NumberEnds \/ Skip)
    BY <1>9, StepsOf
  <2>2. PICK i \in 1 .. L : parsing_num = v[i] /\ Rest = SubSeq(d, i + 1, L) \o b
    BY <1>5, <1>9
  <2>3. CASE i # L
    <3>1. i + 1 \in 1 .. L /\ i \in 1 .. L - 1
      BY <1>1, <2>3
    <3>2. Symbol = d[i + 1] /\ Rest' = SubSeq(d, (i + 1) + 1, L) \o b
      BY <1>7, <2>1, <2>2, <3>1, TakesRest
    <3>3. IsDigit(Symbol) /\ Symbol # CR
      BY <1>1, <3>1, <3>2 DEF IsDigit, CR
    <3>4. NextDigit
      BY <1>9, <2>1, <3>3 DEF Skip, Parsing, NumberEnds
    <3>5. parsing_num' = v[i + 1]
      <4>1. parsing_num' = parsing_num * 10 + (Symbol - 48)
        BY <3>4 DEF NextDigit
      <4> QED
        BY <1>3, <2>2, <3>1, <3>2, <4>1
    <3>6. read_status' = "NUM_WAIT" /\ UNCHANGED <<stringVars, argVars>>
      BY <1>9, <3>4 DEF NextDigit
    <3> QED
      BY <1>6, <2>1, <3>1, <3>2, <3>5, <3>6
  <2>4. CASE i = L
    <3>1. Rest = b
      BY <1>1, <1>2, <2>2, <2>4, WholeAndNothing DEF L
    <3>2. Symbol = CR /\ Rest' = <<LF>> \o behind
      BY <1>2, <1>4, <2>1, <3>1, TakesRest
    <3>3. ~IsDigit(Symbol)
      BY <3>2 DEF IsDigit, CR
    <3>4. NumberEnds
      BY <1>9, <2>1, <3>2, <3>3 DEF Skip, Parsing, NextDigit
    <3> QED
      BY <1>3, <2>1, <2>2, <2>4, <3>2, <3>4
  <2> QED
    BY <2>3, <2>4
<1> QED
  BY <1>5, <1>8, <1>9

\* The argument count: behind it the parser waits for the first argument.
LEMMA CountStep ==
  ASSUME buffer \in Strings, unread \in Strings, parse_cli_mes,
         NEW request \in Seq(Strings) \ {<<>>}, NEW rest \in Strings,
         InCount(request, rest)
  PROVE  Takes /\ InRequest(request, rest)'
<1> DEFINE behind == ArgsAfter(request, 0) \o rest
<1>1. Len(request) \in Nat /\ Len(request) # 0 /\ 0 \in 0 .. Len(request) /\ 0 < Len(request)
  OBVIOUS
<1>2. behind \in Strings
  <2>1. ArgsAfter(request, 0) \in Strings
    BY <1>1, ArgsFollow
  <2> QED
    BY <2>1, Joined, Zenon
<1>3. InNumber(Len(request), behind) /\ argc = -1 /\ argv = <<>> /\ Idle
  BY DEF InCount
<1>4. /\ Takes
      /\ \/ InNumber(Len(request), behind)' /\ UNCHANGED <<stringVars, argVars>>
         \/ NumberEnds /\ parsing_num = Len(request) /\ Rest' = <<LF>> \o behind
  BY <1>1, <1>2, <1>3, NumberStep
<1>5. CASE InNumber(Len(request), behind)' /\ UNCHANGED <<stringVars, argVars>>
  <2>1. InCount(request, rest)'
    BY <1>3, <1>5 DEF InCount, Idle, stringVars, argVars
  <2> QED
    BY <1>4, <2>1 DEF InRequest
<1>6. CASE NumberEnds /\ parsing_num = Len(request) /\ Rest' = <<LF>> \o behind
  <2>1. /\ argc' = Len(request) /\ argv' = <<>> /\ read_status' = "START_STRING_WAIT"
        /\ parsing_num' = 0 /\ UNCHANGED stringVars
    BY <1>3, <1>6 DEF NumberEnds
  <2>2. InGap(request, rest, 0)'
    BY <1>3, <1>6, <2>1 DEF InGap, BehindArg, Idle, stringVars
  <2>3. argv' = SubSeq(request, 1, 0) /\ \A i \in 1 .. 0 : request[i] # <<>>
    BY <2>1
  <2>4. InArguments(request, rest)'
    BY <1>1, <2>1, <2>2, <2>3 DEF InArguments
  <2> QED
    BY <1>4, <2>4 DEF InRequest
<1> QED
  BY <1>4, <1>5, <1>6

\* In the arguments, with j of them complete.
AtArgument(request, rest, j) ==
  /\ argc = Len(request)
  /\ argv = SubSeq(request, 1, j)
  /\ \A i \in 1 .. j : request[i] # <<>>
  /\ \/ /\ j < Len(request)
        /\ \/ InGap(request, rest, j)
           \/ InSize(request, rest, j)
           \/ InSizeLine(request, rest, j)
           \/ InArgument(request, rest, j)
           \/ Stuck(request, j)
     \/ /\ j = Len(request)
        /\ InTerminator(request, rest)

LEMMA ArgumentsAre ==
  ASSUME NEW request, NEW rest
  PROVE  /\ InArguments(request, rest) <=> \E j \in 0 .. Len(request) : AtArgument(request, rest, j)
         /\ InArguments(request, rest)' <=> \E j \in 0 .. Len(request) : AtArgument(request, rest, j)'
BY Zenon DEF InArguments, AtArgument

\* What is behind the places in argument j + 1.
LEMMA BehindTyped ==
  ASSUME NEW request \in Seq(Strings), NEW rest \in Strings, NEW j \in 0 .. Len(request)
  PROVE  /\ BehindArg(request, rest, j) \in Strings
         /\ CRLF \o BehindArg(request, rest, j) \in Strings
         /\ <<LF>> \o BehindArg(request, rest, j) \in Strings
         /\ CRLF \o BehindArg(request, rest, j) = <<CR>> \o (<<LF>> \o BehindArg(request, rest, j))
         /\ j = Len(request) => BehindArg(request, rest, j) = rest
<1>1. ArgsAfter(request, j) \in Strings
  BY ArgsFollow
<1>2. BehindArg(request, rest, j) \in Strings
  BY <1>1, Joined, Zenon DEF BehindArg
<1>3. j = Len(request) => BehindArg(request, rest, j) = rest
  BY ArgsFollow DEF BehindArg
<1> DEFINE b == BehindArg(request, rest, j)
<1>4. b \in Strings
  BY <1>2
<1> HIDE DEF b
<1>5. CRLF \o b \in Strings /\ <<LF>> \o b \in Strings /\ CRLF \o b = <<CR>> \o (<<LF>> \o b)
  BY <1>4, CrlfFirst
<1> QED
  BY <1>2, <1>3, <1>5 DEF b

LEMMA NextArgument ==
  ASSUME NEW request \in Seq(Strings), NEW rest \in Strings, NEW j \in 0 .. Len(request) - 1
  PROVE  /\ request[j + 1] \in Strings /\ Len(request[j + 1]) \in Nat
         /\ request[j + 1] \o (CRLF \o BehindArg(request, rest, j + 1)) \in Strings
         /\ CRLF \o BehindArg(request, rest, j + 1) \in Strings
         /\ BehindArg(request, rest, j) =
              <<DOLLAR>> \o (Decimal[Len(request[j + 1])] \o
                (CRLF \o (request[j + 1] \o (CRLF \o BehindArg(request, rest, j + 1)))))
<1>1. /\ j \in 0 .. Len(request) /\ j < Len(request) /\ j + 1 \in 0 .. Len(request)
      /\ j + 1 \in 1 .. Len(request)
  OBVIOUS
<1>2. request[j + 1] \in Strings
  BY <1>1, ElementOfSeq
<1>3. CRLF \o BehindArg(request, rest, j + 1) \in Strings
  BY <1>1, BehindTyped
<1>4. request[j + 1] \o (CRLF \o BehindArg(request, rest, j + 1)) \in Strings
  BY <1>2, <1>3, Joined, Zenon
<1>5. BehindArg(request, rest, j) =
        <<DOLLAR>> \o (Decimal[Len(request[j + 1])] \o
          (CRLF \o (request[j + 1] \o (CRLF \o BehindArg(request, rest, j + 1)))))
  BY <1>1, ArgsFollow DEF BehindArg
<1> QED
  BY <1>2, <1>3, <1>4, <1>5, StringLength

\* In front of an argument the parser waits for its '$'.
LEMMA GapStep ==
  ASSUME buffer \in Strings, unread \in Strings, parse_cli_mes,
         NEW request \in Seq(Strings), NEW rest \in Strings, NEW j \in 0 .. Len(request) - 1,
         InGap(request, rest, j)
  PROVE  /\ Takes /\ UNCHANGED argVars
         /\ InGap(request, rest, j)' \/ InSize(request, rest, j)'
<1> DEFINE b == BehindArg(request, rest, j)
           n == Len(request[j + 1])
           behind == request[j + 1] \o (CRLF \o BehindArg(request, rest, j + 1))
<1>0. j \in 0 .. Len(request)
  OBVIOUS
<1>1. b \in Strings /\ <<LF>> \o b \in Strings /\ CRLF \o b = <<CR>> \o (<<LF>> \o b)
  BY <1>0, BehindTyped
<1>2. behind \in Strings /\ n \in Nat /\ b = <<DOLLAR>> \o (Decimal[n] \o (CRLF \o behind))
  BY NextArgument
<1>3. /\ read_status = "START_STRING_WAIT" /\ parsing_num = 0 /\ Idle
      /\ \E gap \in {<<>>, <<LF>>, CRLF} : Rest = gap \o b
  BY DEF InGap
<1>4. Takes /\ (StringStart \/ Skip)
  BY <1>3, StepsOf
<1>5. InGap(request, rest, j)' <=>
        /\ read_status' = "START_STRING_WAIT" /\ parsing_num' = 0 /\ Idle'
        /\ \E gap \in {<<>>, <<LF>>, CRLF} : Rest' = gap \o b
  BY Zenon DEF InGap
<1>6. InSize(request, rest, j)' <=> Idle' /\ InNumber(n, behind)'
  BY Zenon DEF InSize
<1> HIDE DEF b, n, behind
<1>7. ASSUME NEW c \in {CR, LF}, NEW gap \in {<<>>, <<LF>>}, gap \o b \in Strings,
             Rest = <<c>> \o (gap \o b)
      PROVE  UNCHANGED argVars /\ InGap(request, rest, j)'
  <2>1. c \in Byte /\ c # DOLLAR
    BY DEF Byte, CR, LF, DOLLAR
  <2>2. Symbol = c /\ Rest' = gap \o b
    BY <1>4, <1>7, <2>1, TakesRest
  <2>3. Skip
    BY <1>4, <2>1, <2>2 DEF StringStart, Expect
  <2>4. UNCHANGED <<read_status, parsing_num, stringVars, argVars>>
    BY <2>3 DEF Skip
  <2> QED
    BY <1>3, <1>5, <2>2, <2>4 DEF Idle, stringVars
<1>8. CASE Rest = CRLF \o b
  BY <1>1, <1>4, <1>7, <1>8
<1>9. CASE Rest = <<LF>> \o b
  <2>1. <<>> \o b = b
    BY <1>1, ConcatEmptySeq DEF Strings
  <2> QED
    BY <1>1, <1>4, <1>7, <1>9, <2>1
<1>10. CASE Rest = <<>> \o b
  <2>1. <<>> \o b = b
    BY <1>1, ConcatEmptySeq DEF Strings
  <2> DEFINE t == Decimal[n] \o (CRLF \o behind)
  <2>2. t \in Strings
    <3>1. Decimal[n] \in Strings /\ CRLF \in Strings
      BY <1>2, NumberBytes, Constants
    <3>2. CRLF \o behind \in Strings
      BY <1>2, <3>1, Joined, Zenon
    <3> QED
      BY <3>1, <3>2, Joined, Zenon
  <2>3. Rest = <<DOLLAR>> \o t
    BY <1>2, <1>10, <2>1
  <2> HIDE DEF t
  <2>4. Symbol = DOLLAR /\ Rest' = t
    BY <1>4, <2>2, <2>3, Constants, TakesRest
  <2>5. StringStart
    BY <1>3, <1>4, <2>4 DEF Skip, Parsing
  <2>6. read_status' = "NUM_OR_MINUS_WAIT" /\ UNCHANGED <<parsing_num, stringVars, argVars>>
    BY <2>5 DEF StringStart, Expect
  <2>7. InNumber(n, behind)'
    BY <1>3, <2>4, <2>6 DEF InNumber, t
  <2>8. Idle'
    BY <1>3, <2>6 DEF Idle, stringVars
  <2> QED
    BY <1>4, <1>6, <2>6, <2>7, <2>8
<1> QED
  BY <1>3, <1>8, <1>9, <1>10

\* The size of an argument.
LEMMA SizeStep ==
  ASSUME buffer \in Strings, unread \in Strings, parse_cli_mes,
         NEW request \in Seq(Strings), NEW rest \in Strings, NEW j \in 0 .. Len(request) - 1,
         InSize(request, rest, j), argc # -1
  PROVE  /\ Takes /\ UNCHANGED argVars
         /\ InSize(request, rest, j)' \/ InSizeLine(request, rest, j)'
<1> DEFINE n == Len(request[j + 1])
           behind == request[j + 1] \o (CRLF \o BehindArg(request, rest, j + 1))
<1>1. behind \in Strings /\ n \in Nat
  BY NextArgument
<1>2. Idle /\ InNumber(n, behind)
  BY DEF InSize
<1>3. InSize(request, rest, j)' <=> Idle' /\ InNumber(n, behind)'
  BY Zenon DEF InSize
<1>4. InSizeLine(request, rest, j)' <=>
        /\ read_status' = "STRING_WAIT" /\ parsing_num' = 0
        /\ size_str' = n /\ parsing_str' = <<>> /\ Rest' = <<LF>> \o behind
  BY Zenon DEF InSizeLine
<1> HIDE DEF n, behind
<1>5. /\ Takes
      /\ \/ InNumber(n, behind)' /\ UNCHANGED <<stringVars, argVars>>
         \/ NumberEnds /\ parsing_num = n /\ Rest' = <<LF>> \o behind
  BY <1>1, <1>2, NumberStep
<1>6. CASE InNumber(n, behind)' /\ UNCHANGED <<stringVars, argVars>>
  BY <1>2, <1>3, <1>5, <1>6 DEF Idle, stringVars
<1>7. CASE NumberEnds /\ parsing_num = n /\ Rest' = <<LF>> \o behind
  <2>1. /\ size_str' = n /\ parsing_str' = <<>> /\ read_status' = "STRING_WAIT"
        /\ parsing_num' = 0 /\ UNCHANGED argVars
    BY <1>7 DEF NumberEnds
  <2> QED
    BY <1>4, <1>5, <1>7, <2>1
<1> QED
  BY <1>5, <1>6, <1>7

\* The end of its line. Behind it an empty argument has nothing to stop the parser.
LEMMA SizeLineStep ==
  ASSUME buffer \in Strings, unread \in Strings, parse_cli_mes,
         NEW request \in Seq(Strings), NEW rest \in Strings, NEW j \in 0 .. Len(request) - 1,
         InSizeLine(request, rest, j)
  PROVE  /\ Takes /\ UNCHANGED argVars
         /\ InArgument(request, rest, j)' \/ Stuck(request, j)'
<1> DEFINE s == request[j + 1]
           b == CRLF \o BehindArg(request, rest, j + 1)
<1>1. s \in Strings /\ Len(s) \in Nat /\ b \in Strings /\ s \o b \in Strings
  BY NextArgument
<1>2. /\ read_status = "STRING_WAIT" /\ parsing_num = 0 /\ size_str = Len(s)
      /\ parsing_str = <<>> /\ Rest = <<LF>> \o (s \o b)
  BY DEF InSizeLine
<1>3. InArgument(request, rest, j)' <=>
        /\ read_status' = "STR_SYM_WAIT" /\ parsing_num' = 0 /\ size_str' = Len(s)
        /\ \E i \in 0 .. Len(s) - 1 : /\ parsing_str' = SubSeq(s, 1, i)
                                      /\ Rest' = SubSeq(s, i + 1, Len(s)) \o b
  BY Zenon DEF InArgument
<1>4. Stuck(request, j)' <=>
        /\ read_status' = "STR_SYM_WAIT" /\ parsing_num' = 0 /\ s = <<>>
        /\ size_str' = 0 /\ parsing_str' \in Strings
  BY Zenon DEF Stuck
<1> HIDE DEF s, b
<1>5. Takes /\ (SizeLine \/ Skip)
  BY <1>2, StepsOf
<1>6. Symbol = LF /\ Rest' = s \o b
  BY <1>1, <1>2, <1>5, Constants, TakesRest
<1>7. SizeLine
  BY <1>2, <1>5, <1>6 DEF Skip, Parsing
<1>8. read_status' = "STR_SYM_WAIT" /\ UNCHANGED <<parsing_num, stringVars, argVars>>
  BY <1>7 DEF SizeLine, Expect
<1>9. parsing_num' = 0 /\ size_str' = Len(s) /\ parsing_str' = <<>> /\ UNCHANGED argVars
  BY <1>2, <1>8 DEF stringVars
<1>10. CASE s = <<>>
  <2>1. Len(s) = 0 /\ <<>> \in Strings
    BY <1>10, Constants
  <2> QED
    BY <1>4, <1>5, <1>8, <1>9, <1>10, <2>1
<1>11. CASE s # <<>>
  <2>1. 0 \in 0 .. Len(s) - 1 /\ 0 + 1 = 1
    BY <1>1, <1>11 DEF Strings
  <2>2. SubSeq(s, 1, Len(s)) = s /\ SubSeq(s, 1, 0) = <<>>
    BY <1>1, WholeAndNothing
  <2> QED
    BY <1>3, <1>5, <1>6, <1>8, <1>9, <2>1, <2>2
<1> QED
  BY <1>10, <1>11

\* The next byte of an argument; the last one completes it.
LEMMA ByteStep ==
  ASSUME buffer \in Strings, unread \in Strings, parse_cli_mes,
         NEW request \in Seq(Strings), NEW rest \in Strings, NEW j \in 0 .. Len(request) - 1,
         argc = Len(request), argv = SubSeq(request, 1, j), InArgument(request, rest, j)
  PROVE  /\ Takes /\ UNCHANGED argc
         /\ \/ UNCHANGED argv /\ InArgument(request, rest, j)'
            \/ /\ argv' = SubSeq(request, 1, j + 1)
               /\ request[j + 1] # <<>>
               /\ j + 1 < Len(request) => InGap(request, rest, j + 1)'
               /\ j + 1 = Len(request) => InTerminator(request, rest)'
<1> DEFINE s == request[j + 1]
           behind == BehindArg(request, rest, j + 1)
           b == CRLF \o behind
           L == Len(s)
           n == Len(request)
<1>1. s \in Strings /\ L \in Nat /\ b \in Strings
  BY NextArgument
<1>2. n \in Nat /\ j + 1 \in 0 .. n /\ j \in Nat
  OBVIOUS
<1>3. j + 1 = n => behind = rest
  BY <1>2, BehindTyped
<1>4. /\ read_status = "STR_SYM_WAIT" /\ parsing_num = 0 /\ size_str = L
      /\ \E i \in 0 .. L - 1 : /\ parsing_str = SubSeq(s, 1, i)
                               /\ Rest = SubSeq(s, i + 1, L) \o b
  BY DEF InArgument
<1>5. InArgument(request, rest, j)' <=>
        /\ read_status' = "STR_SYM_WAIT" /\ parsing_num' = 0 /\ size_str' = L
        /\ \E i \in 0 .. L - 1 : /\ parsing_str' = SubSeq(s, 1, i)
                                 /\ Rest' = SubSeq(s, i + 1, L) \o b
  BY Zenon DEF InArgument
<1>6. InGap(request, rest, j + 1)' <=>
        /\ read_status' = "START_STRING_WAIT" /\ parsing_num' = 0 /\ Idle'
        /\ \E gap \in {<<>>, <<LF>>, CRLF} : Rest' = gap \o behind
  BY Zenon DEF InGap
<1>7. InTerminator(request, rest)' <=>
        /\ read_status' = "END" /\ parsing_num' = 0 /\ Idle'
        /\ \E gap \in {<<LF>>, CRLF} : Rest' = gap \o rest
  BY Zenon DEF InTerminator
<1>8. SubSeq(request, 1, j + 1) = Append(SubSeq(request, 1, j), s)
      /\ Len(SubSeq(request, 1, j + 1)) = j + 1
  BY <1>2
<1> HIDE DEF s, L, b, n
<1>9. PICK i \in 0 .. L - 1 : parsing_str = SubSeq(s, 1, i) /\ Rest = SubSeq(s, i + 1, L) \o b
  BY <1>4
<1>10. i + 1 \in 1 .. L /\ i \in Nat
  BY <1>1, <1>9
<1>11. SubSeq(s, 1, i + 1) = Append(SubSeq(s, 1, i), s[i + 1])
       /\ Len(SubSeq(s, 1, i + 1)) = i + 1 /\ Len(SubSeq(s, 1, i)) = i
  BY <1>1, <1>10 DEF Strings, L
<1>12. ArgumentByte /\ Takes
  <2>1. (ArgumentByte /\ Takes) \/ ArgumentOverflows
    BY <1>4, StepsOf
  <2>2. ~ArgumentOverflows
    <3>1. Len(parsing_str) = i /\ i <= L /\ size_str = L /\ L \in Nat
      BY <1>1, <1>4, <1>9, <1>10, <1>11
    <3> QED
      BY <1>10, <3>1 DEF ArgumentOverflows
  <2> QED
    BY <2>1, <2>2
<1>13. Symbol = s[i + 1] /\ Rest' = SubSeq(s, (i + 1) + 1, L) \o b
  <2>1. /\ s[i + 1] \in Byte /\ SubSeq(s, (i + 1) + 1, L) \in Strings
        /\ SubSeq(s, i + 1, L) \o b = <<s[i + 1]>> \o (SubSeq(s, (i + 1) + 1, L) \o b)
    BY <1>1, <1>10, Peeled DEF L
  <2>2. SubSeq(s, (i + 1) + 1, L) \o b \in Strings
    BY <1>1, <2>1, Joined, Zenon
  <2> QED
    BY <1>9, <1>12, <2>1, <2>2, TakesRest
<1>14. Append(parsing_str, Symbol) = SubSeq(s, 1, i + 1) /\ Len(Append(parsing_str, Symbol)) = i + 1
  BY <1>9, <1>11, <1>13
<1>15. UNCHANGED <<parsing_num, argc>>
  BY <1>12 DEF ArgumentByte
<1>16. CASE i + 1 # L
  <2>1. ~ArgumentEnds(Append(parsing_str, Symbol))
    BY <1>4, <1>14, <1>16 DEF ArgumentEnds
  <2>2. parsing_str' = SubSeq(s, 1, i + 1) /\ UNCHANGED <<read_status, size_str, argv>>
    BY <1>12, <1>14, <2>1 DEF ArgumentByte
  <2>3. i + 1 \in 0 .. L - 1
    BY <1>1, <1>10, <1>16
  <2> QED
    BY <1>4, <1>5, <1>12, <1>13, <1>15, <2>2, <2>3
<1>17. CASE i + 1 = L
  <2>1. ArgumentEnds(Append(parsing_str, Symbol))
    BY <1>4, <1>14, <1>17 DEF ArgumentEnds
  <2>2. SubSeq(s, 1, i + 1) = s
    BY <1>1, <1>17, WholeAndNothing DEF L
  <2>3. /\ argv' = Append(argv, s) /\ parsing_str' = <<>> /\ size_str' = 0
        /\ read_status' = IF Len(argv') = argc THEN "END" ELSE "START_STRING_WAIT"
    BY <1>12, <1>14, <2>1, <2>2 DEF ArgumentByte
  <2>4. argv' = SubSeq(request, 1, j + 1) /\ Len(argv') = j + 1
    BY <1>8, <2>3
  <2>5. Rest' = b
    BY <1>1, <1>13, <1>17, WholeAndNothing DEF L
  <2>6. parsing_num' = 0 /\ Idle'
    BY <1>4, <1>15, <2>3 DEF Idle
  <2>7. s # <<>>
    BY <1>10 DEF L
  <2>8. j + 1 < n => InGap(request, rest, j + 1)'
    BY <1>2, <1>6, <2>3, <2>4, <2>5, <2>6 DEF b, n
  <2>9. j + 1 = n => InTerminator(request, rest)'
    BY <1>3, <1>7, <2>3, <2>4, <2>5, <2>6 DEF b, n
  <2> QED
    BY <1>12, <1>15, <2>4, <2>7, <2>8, <2>9 DEF s, n
<1> QED
  BY <1>16, <1>17

\* An empty argument is left by no byte.
LEMMA StuckStep ==
  ASSUME buffer \in Strings, unread \in Strings, parse_cli_mes,
         NEW request \in Seq(Strings), NEW j \in 0 .. Len(request) - 1,
         Stuck(request, j)
  PROVE  /\ Stuck(request, j)' /\ UNCHANGED <<argVars, exit_status, done, requests, unread>>
         /\ \/ Takes
            \/ worker' = "down" /\ UNCHANGED buffer
<1>1. /\ read_status = "STR_SYM_WAIT" /\ parsing_num = 0 /\ request[j + 1] = <<>>
      /\ size_str = 0 /\ parsing_str \in Strings /\ buffer # <<>>
  BY StepsOf DEF Stuck
<1>2. (ArgumentByte /\ Takes) \/ ArgumentOverflows
  BY <1>1, StepsOf
<1>3. CASE ArgumentByte /\ Takes
  <2> DEFINE str == Append(parsing_str, Symbol)
  <2>1. str \in Strings /\ Len(str) # 0
    <3>1. Symbol \in Byte
      BY <1>1, FirstOfRest
    <3>2. parsing_str \in Seq(Byte)
      BY <1>1 DEF Strings
    <3> HIDE DEF Byte
    <3> QED
      BY <3>1, <3>2, AppendProperties DEF Strings
  <2>2. ~ArgumentEnds(str)
    BY <1>1, <2>1 DEF ArgumentEnds
  <2>3. parsing_str' = str /\ UNCHANGED <<read_status, size_str, argv, parsing_num, argc>>
    BY <1>3, <2>2 DEF ArgumentByte
  <2> HIDE DEF str
  <2>4. Stuck(request, j)'
    BY <1>1, <2>1, <2>3 DEF Stuck
  <2> QED
    BY <1>3, <2>3, <2>4 DEF Takes, argVars
<1>4. CASE ArgumentOverflows
  <2>1. UNCHANGED <<buffer, read_status, exit_status, parsing_num, stringVars, argVars, done, requests, unread>>
        /\ worker' = "down"
    BY <1>4 DEF ArgumentOverflows, Parsing
  <2>2. Stuck(request, j)'
    BY <1>1, <2>1 DEF Stuck, stringVars
  <2> QED
    BY <2>1, <2>2
<1> QED
  BY <1>2, <1>3, <1>4

\* The end of the request.
LEMMA TerminatorStep ==
  ASSUME buffer \in Strings, unread \in Strings, parse_cli_mes,
         NEW request, NEW rest \in Strings, InTerminator(request, rest)
  PROVE  /\ UNCHANGED <<argVars, parsing_num, stringVars, requests, unread, worker, read_status>>
         /\ buffer # <<>> /\ buffer' = Tail(buffer)
         /\ \/ Takes /\ InTerminator(request, rest)'
            \/ /\ exit_status' = "ALL"
               /\ done' = Append(done, argv)
               /\ Rest' = rest
<1>1. /\ read_status = "END" /\ parsing_num = 0 /\ Idle
      /\ \E gap \in {<<LF>>, CRLF} : Rest = gap \o rest
  BY DEF InTerminator
<1>2. /\ RequestEnds \/ (Skip /\ Takes)
      /\ UNCHANGED <<requests, unread>> /\ buffer # <<>>
  BY <1>1, StepsOf
<1>3. CRLF \o rest = <<CR>> \o (<<LF>> \o rest) /\ <<LF>> \o rest \in Strings
  BY CrlfFirst
<1>4. CASE Rest = CRLF \o rest
  <2>1. Symbol = CR /\ Tail(buffer) \o unread = <<LF>> \o rest
    BY <1>2, <1>3, <1>4, Constants, Taking
  <2>2. Skip /\ Takes
    BY <1>2, <2>1 DEF RequestEnds, CR, LF
  <2>3. UNCHANGED <<argVars, parsing_num, stringVars, worker, read_status>>
    BY <2>2 DEF Skip
  <2>4. Rest' = <<LF>> \o rest
    BY <2>1, <2>2 DEF Takes, Rest
  <2>5. InTerminator(request, rest)'
    BY <1>1, <2>3, <2>4 DEF InTerminator, Idle, stringVars
  <2> QED
    BY <1>2, <2>2, <2>3, <2>5 DEF Takes
<1>5. CASE Rest = <<LF>> \o rest
  <2>1. Symbol = LF /\ Tail(buffer) \o unread = rest
    BY <1>2, <1>5, Constants, Taking
  <2>2. RequestEnds
    BY <1>1, <1>2, <2>1 DEF Skip, Parsing
  <2>3. /\ buffer' = Tail(buffer) /\ exit_status' = "ALL" /\ done' = Append(done, argv)
        /\ UNCHANGED <<argVars, parsing_num, stringVars, worker, read_status>>
    BY <2>2 DEF RequestEnds, replace_part_of_buffer
  <2>4. Rest' = rest
    BY <1>2, <2>1, <2>3 DEF Rest
  <2> QED
    BY <1>2, <2>3, <2>4
<1> QED
  BY <1>1, <1>4, <1>5

\* All of them: a step stays in the request, or completes it.
LEMMA ArgumentsStep ==
  ASSUME buffer \in Strings, unread \in Strings, parse_cli_mes,
         NEW request \in Seq(Strings) \ {<<>>}, NEW rest \in Strings,
         InArguments(request, rest)
  PROVE  \/ Takes /\ InArguments(request, rest)'
         \/ /\ InArguments(request, rest)'
            /\ worker' = "down" /\ UNCHANGED <<requests, unread, buffer, exit_status, done>>
         \/ /\ buffer # <<>> /\ buffer' = Tail(buffer)
            /\ read_status' = "END" /\ exit_status' = "ALL"
            /\ argv = request /\ \A i \in 1 .. Len(request) : request[i] # <<>>
            /\ done' = Append(done, request)
            /\ argv' = request /\ argc' = Len(request)
            /\ parsing_num' = 0 /\ Idle' /\ Rest' = rest
            /\ UNCHANGED <<requests, unread, worker>>
<1>1. PICK j \in 0 .. Len(request) : AtArgument(request, rest, j)
  BY ArgumentsAre
<1>2. /\ argc = Len(request) /\ argv = SubSeq(request, 1, j)
      /\ \A i \in 1 .. j : request[i] # <<>>
  BY <1>1 DEF AtArgument
<1>3. Len(request) \in Nat /\ request \in Seq(Strings) /\ Len(request) # -1
  OBVIOUS
<1>4. ASSUME UNCHANGED argVars, j < Len(request),
             \/ InGap(request, rest, j)' \/ InSize(request, rest, j)'
             \/ InSizeLine(request, rest, j)' \/ InArgument(request, rest, j)'
             \/ Stuck(request, j)'
      PROVE  InArguments(request, rest)'
  <2>1. argc' = Len(request) /\ argv' = SubSeq(request, 1, j)
    BY <1>2, <1>4 DEF argVars
  <2>2. AtArgument(request, rest, j)'
    BY <1>2, <1>4, <2>1 DEF AtArgument
  <2> QED
    BY <2>2, ArgumentsAre
<1>5. CASE j < Len(request)
  <2>1. j \in 0 .. Len(request) - 1
    BY <1>3, <1>5
  <2>2. CASE InGap(request, rest, j)
    BY <1>3, <1>4, <1>5, <2>1, <2>2, GapStep
  <2>3. CASE InSize(request, rest, j)
    BY <1>2, <1>3, <1>4, <1>5, <2>1, <2>3, SizeStep
  <2>4. CASE InSizeLine(request, rest, j)
    BY <1>3, <1>4, <1>5, <2>1, <2>4, SizeLineStep
  <2>5. CASE InArgument(request, rest, j)
    <3>1. /\ Takes /\ UNCHANGED argc
          /\ \/ UNCHANGED argv /\ InArgument(request, rest, j)'
             \/ /\ argv' = SubSeq(request, 1, j + 1)
                /\ request[j + 1] # <<>>
                /\ j + 1 < Len(request) => InGap(request, rest, j + 1)'
                /\ j + 1 = Len(request) => InTerminator(request, rest)'
      BY <1>2, <1>3, <2>1, <2>5, ByteStep
    <3>2. CASE UNCHANGED argv /\ InArgument(request, rest, j)'
      BY <1>4, <1>5, <3>1, <3>2 DEF argVars
    <3>3. CASE /\ argv' = SubSeq(request, 1, j + 1)
               /\ request[j + 1] # <<>>
               /\ j + 1 < Len(request) => InGap(request, rest, j + 1)'
               /\ j + 1 = Len(request) => InTerminator(request, rest)'
      <4>1. argc' = Len(request) /\ \A i \in 1 .. j + 1 : request[i] # <<>>
        BY <1>2, <2>1, <3>1, <3>3
      <4>2. j + 1 \in 0 .. Len(request) /\ (j + 1 < Len(request) \/ j + 1 = Len(request))
        BY <1>3, <2>1
      <4>3. AtArgument(request, rest, j + 1)'
        BY <3>3, <4>1, <4>2 DEF AtArgument
      <4>4. InArguments(request, rest)'
        BY <4>2, <4>3, ArgumentsAre
      <4> QED
        BY <3>1, <4>4
    <3> QED
      BY <3>1, <3>2, <3>3
  <2>6. CASE Stuck(request, j)
    <3>1. /\ Stuck(request, j)' /\ UNCHANGED <<argVars, exit_status, done, requests, unread>>
          /\ \/ Takes
             \/ worker' = "down" /\ UNCHANGED buffer
      BY <1>3, <2>1, <2>6, StuckStep
    <3> QED
      BY <1>4, <1>5, <3>1
  <2> QED
    BY <1>1, <1>3, <1>5, <2>2, <2>3, <2>4, <2>5, <2>6 DEF AtArgument
<1>6. CASE ~(j < Len(request))
  <2>1. j = Len(request) /\ InTerminator(request, rest)
    BY <1>1, <1>3, <1>6 DEF AtArgument
  <2>2. argv = request
    BY <1>2, <1>3, <2>1, SubSeqFull
  <2>3. /\ UNCHANGED <<argVars, parsing_num, stringVars, requests, unread, worker, read_status>>
        /\ buffer # <<>> /\ buffer' = Tail(buffer)
        /\ \/ Takes /\ InTerminator(request, rest)'
           \/ /\ exit_status' = "ALL"
              /\ done' = Append(done, argv)
              /\ Rest' = rest
    BY <2>1, TerminatorStep
  <2>4. CASE Takes /\ InTerminator(request, rest)'
    <3>1. argc' = Len(request) /\ argv' = SubSeq(request, 1, j)
      BY <1>2, <2>3 DEF argVars
    <3>2. AtArgument(request, rest, j)'
      BY <1>2, <2>1, <2>4, <3>1 DEF AtArgument
    <3> QED
      BY <2>4, <3>2, ArgumentsAre
  <2>5. CASE /\ exit_status' = "ALL"
             /\ done' = Append(done, argv)
             /\ Rest' = rest
    <3>1. read_status = "END" /\ parsing_num = 0 /\ Idle
      BY <2>1 DEF InTerminator
    <3>2. read_status' = "END" /\ parsing_num' = 0 /\ Idle'
      BY <2>3, <3>1 DEF Idle, stringVars
    <3>3. argv' = request /\ argc' = Len(request)
      BY <1>2, <2>2, <2>3 DEF argVars
    <3> QED
      BY <1>2, <2>1, <2>2, <2>3, <2>5, <3>2, <3>3
  <2> QED
    BY <2>3, <2>4, <2>5
<1> QED
  BY <1>5, <1>6

-----------------------------------------------------------------------------
(***************************************************************************)
(* The invariant is inductive.                                             *)
(***************************************************************************)

\* A byte taken makes what is left shorter, and changes nothing else that holds
\* everywhere.
LEMMA KeptByTaking ==
  ASSUME NEW stream \in Streams, NEW k \in 0 .. Len(stream), Kept(stream, k),
         buffer # <<>>, buffer' = Tail(buffer), UNCHANGED <<requests, unread>>
  PROVE  /\ buffer' \in Strings /\ unread' \in Strings /\ requests' = stream
         /\ Len(buffer') <= BUFFER_SIZE
         /\ Len(Rest') < Len(After(stream, k))
         /\ UNCHANGED <<worker, done>> => Kept(stream, k)'
<1>1. /\ requests = stream /\ worker \in {"up", "down"} /\ buffer \in Strings /\ unread \in Strings
      /\ Len(buffer) <= BUFFER_SIZE /\ done = SubSeq(stream, 1, k)
      /\ \A i \in 1 .. k : <<>> \notin Range(stream[i])
      /\ Len(Rest) <= Len(After(stream, k))
  BY Zenon DEF Kept
<1>2. /\ Tail(buffer) \in Strings /\ Len(Tail(buffer)) = Len(buffer) - 1
      /\ Tail(buffer) \o unread \in Strings /\ Rest \in Strings
      /\ Len(Tail(buffer) \o unread) < Len(Rest)
  BY <1>1, FirstOfRest
<1>3. Rest' = Tail(buffer) \o unread
  BY DEF Rest
<1>4. After(stream, k) \in Strings
  BY RequestsFollow
<1>5. /\ Len(buffer) \in Nat /\ Len(Rest) \in Nat /\ Len(Rest') \in Nat
      /\ Len(After(stream, k)) \in Nat /\ BUFFER_SIZE \in Nat
  BY <1>1, <1>2, <1>3, <1>4, StringLength, ParserAssumption
<1>6. Len(buffer') <= BUFFER_SIZE /\ Len(Rest') < Len(After(stream, k))
  <2>1. Len(buffer') = Len(buffer) - 1 /\ Len(Rest') < Len(Rest)
    BY <1>2, <1>3
  <2> QED
    BY <1>1, <1>5, <2>1
<1>7. Len(Rest') <= Len(After(stream, k))
  BY <1>5, <1>6
<1>8. buffer' \in Strings /\ unread' \in Strings /\ requests' = stream
  BY <1>1, <1>2
<1>9. ASSUME UNCHANGED <<worker, done>> PROVE Kept(stream, k)'
  BY <1>1, <1>6, <1>7, <1>8, <1>9 DEF Kept
<1> QED
  BY <1>6, <1>8, <1>9

\* The first byte of a request.
LEMMA BetweenStep ==
  ASSUME NEW stream \in Streams, NEW k \in 0 .. Len(stream), Kept(stream, k),
         Between(stream, k), parse_cli_mes
  PROVE  Takes /\ Within(stream, k)'
<1> DEFINE n == Len(stream[k + 1])
           behind == ArgsAfter(stream[k + 1], 0) \o After(stream, k + 1)
           t == Decimal[n] \o (CRLF \o behind)
<1>1. buffer \in Strings /\ unread \in Strings
  BY DEF Kept
<1>2. buffer # <<>> /\ exit_status = "NOT_ALL"
  BY StepsOf
<1>3. /\ read_status = "ARRAY_WAIT" /\ argc = -1 /\ argv = <<>>
      /\ parsing_num = 0 /\ Idle /\ Rest = After(stream, k)
  BY <1>2 DEF Between
<1>4. Takes /\ (ArrayStart \/ Skip)
  BY <1>3, StepsOf
<1>5. Len(stream) \in Nat
  BY Typed
<1>6. k < Len(stream)
  <2>1. Rest \in Strings /\ Tail(buffer) \o unread \in Strings
        /\ Len(Tail(buffer) \o unread) < Len(Rest)
    BY <1>1, <1>2, FirstOfRest
  <2>2. Len(Rest) \in Nat /\ Len(Tail(buffer) \o unread) \in Nat
    BY <2>1, StringLength
  <2>3. Rest # <<>>
    BY <2>1, <2>2
  <2>4. k # Len(stream)
    BY <1>3, <2>3, RequestsFollow
  <2> QED
    BY <1>5, <2>4
<1>7. Rest = <<STAR>> \o t
  BY <1>3, <1>6, RequestsFollow
<1>8. t \in Strings
  <2>1. k + 1 \in 1 .. Len(stream) /\ k + 1 \in 0 .. Len(stream)
    BY <1>5, <1>6
  <2>2. stream[k + 1] \in Seq(Strings) /\ After(stream, k + 1) \in Strings
    BY <2>1, RequestsTyped, RequestsFollow
  <2>3. n \in Nat /\ 0 \in 0 .. n
    BY <2>2
  <2>7. ArgsAfter(stream[k + 1], 0) \in Strings
    BY <2>2, <2>3, ArgsFollow
  <2>4. behind \in Strings
    BY <2>2, <2>7, Joined, Zenon
  <2>5. CRLF \in Strings /\ Decimal[n] \in Strings
    BY <2>3, NumberBytes, Constants
  <2>6. CRLF \o behind \in Strings
    BY <2>4, <2>5, Joined, Zenon
  <2> QED
    BY <2>5, <2>6, Joined, Zenon
<1>9. Symbol = STAR /\ Rest' = t
  <2> HIDE DEF t
  <2> QED
    BY <1>1, <1>4, <1>7, <1>8, Constants, TakesRest
<1>10. ArrayStart
  BY <1>3, <1>4, <1>9 DEF Skip, Parsing
<1>11. read_status' = "NUM_OR_MINUS_WAIT" /\ UNCHANGED <<parsing_num, stringVars, argVars, exit_status>>
  BY <1>10 DEF ArrayStart, Expect, TakeSymbol
<1>12. parsing_num' = 0 /\ Idle' /\ argc' = -1 /\ argv' = <<>> /\ exit_status' = "NOT_ALL"
  BY <1>2, <1>3, <1>11 DEF Idle, stringVars, argVars
<1>13. InNumber(n, behind)'
  BY <1>9, <1>11, <1>12 DEF InNumber
<1>14. InCount(stream[k + 1], After(stream, k + 1))'
  BY <1>12, <1>13 DEF InCount
<1> QED
  BY <1>4, <1>6, <1>12, <1>14 DEF Within, InRequest

\* Every step of parse_cli_mes stays with its request, or completes it.
LEMMA ParseStep ==
  ASSUME NEW stream \in Streams, NEW k \in 0 .. Len(stream), Parsed(stream, k), parse_cli_mes
  PROVE  \E m \in 0 .. Len(stream) : Parsed(stream, m)'
<1>1. Kept(stream, k) /\ (Between(stream, k) \/ Within(stream, k))
  BY DEF Parsed
<1>2. /\ requests = stream /\ worker \in {"up", "down"} /\ buffer \in Strings /\ unread \in Strings
      /\ Len(buffer) <= BUFFER_SIZE /\ done = SubSeq(stream, 1, k)
      /\ \A i \in 1 .. k : <<>> \notin Range(stream[i])
      /\ Len(Rest) <= Len(After(stream, k))
  BY <1>1, Zenon DEF Kept
<1>3. exit_status = "NOT_ALL"
  BY StepsOf
<1>4. ASSUME Takes PROVE Kept(stream, k)' /\ exit_status' = "NOT_ALL"
  <2>1. buffer # <<>> /\ buffer' = Tail(buffer) /\ UNCHANGED <<requests, unread>>
        /\ UNCHANGED <<worker, done>> /\ UNCHANGED exit_status
    BY <1>4 DEF Takes
  <2> QED
    BY <1>1, <1>3, <2>1, KeptByTaking
<1>5. CASE Between(stream, k)
  <2>1. Takes /\ Within(stream, k)'
    BY <1>1, <1>5, BetweenStep
  <2> QED
    BY <1>4, <2>1 DEF Parsed
<1>6. CASE Within(stream, k)
  <2> DEFINE request == stream[k + 1]
             rest == After(stream, k + 1)
  <2>1. k < Len(stream) /\ InRequest(request, rest)
    BY <1>6 DEF Within
  <2>2. Len(stream) \in Nat /\ k + 1 \in 1 .. Len(stream) /\ k + 1 \in 0 .. Len(stream)
    <3>1. Len(stream) \in Nat
      BY Typed
    <3> QED
      BY <2>1, <3>1
  <2>3. request \in Seq(Strings) \ {<<>>} /\ rest \in Strings
    BY <2>2, RequestsTyped, RequestsFollow
  <2>4. Within(stream, k)' <=> k < Len(stream) /\ exit_status' = "NOT_ALL" /\ InRequest(request, rest)'
    BY Zenon DEF Within
  <2>5. Between(stream, k + 1)' <=>
          /\ parsing_num' = 0 /\ Idle' /\ Rest' = rest
          /\ \/ /\ read_status' = "ARRAY_WAIT" /\ exit_status' = "NOT_ALL"
                /\ argc' = -1 /\ argv' = <<>>
             \/ /\ read_status' = "END" /\ exit_status' = "ALL" /\ k + 1 # 0
                /\ argv' = request /\ argc' = Len(request)
    BY Zenon DEF Between
  <2>6. Kept(stream, k + 1)' <=>
          /\ requests' = stream /\ worker' \in {"up", "down"} /\ buffer' \in Strings /\ unread' \in Strings
          /\ Len(buffer') <= BUFFER_SIZE /\ done' = SubSeq(stream, 1, k + 1)
          /\ \A i \in 1 .. k + 1 : <<>> \notin Range(stream[i])
          /\ Len(Rest') <= Len(rest)
    BY Zenon DEF Kept
  <2>7. SubSeq(stream, 1, k + 1) = Append(SubSeq(stream, 1, k), request)
    <3>1. stream \in Seq(Seq(Strings) \ {<<>>})
      BY Typed
    <3> HIDE DEF Strings
    <3> QED
      BY <2>2, <3>1
  <2> HIDE DEF request, rest
  <2>8. ASSUME Takes, InRequest(request, rest)'
        PROVE  Parsed(stream, k)'
    BY <1>4, <2>1, <2>4, <2>8 DEF Parsed
  <2>9. CASE InCount(request, rest)
    BY <1>2, <2>3, <2>8, <2>9, CountStep
  <2>10. CASE InArguments(request, rest)
    <3>1. \/ Takes /\ InArguments(request, rest)'
          \/ /\ InArguments(request, rest)'
             /\ worker' = "down" /\ UNCHANGED <<requests, unread, buffer, exit_status, done>>
          \/ /\ buffer # <<>> /\ buffer' = Tail(buffer)
             /\ read_status' = "END" /\ exit_status' = "ALL"
             /\ argv = request /\ \A i \in 1 .. Len(request) : request[i] # <<>>
             /\ done' = Append(done, request)
             /\ argv' = request /\ argc' = Len(request)
             /\ parsing_num' = 0 /\ Idle' /\ Rest' = rest
             /\ UNCHANGED <<requests, unread, worker>>
      BY <1>2, <2>3, <2>10, ArgumentsStep
    <3>2. CASE Takes /\ InArguments(request, rest)'
      BY <2>8, <3>2 DEF InRequest
    <3>3. CASE /\ InArguments(request, rest)'
               /\ worker' = "down" /\ UNCHANGED <<requests, unread, buffer, exit_status, done>>
      <4>1. Rest' = Rest
        BY <3>3 DEF Rest
      <4>2. Kept(stream, k)'
        BY <1>2, <3>3, <4>1 DEF Kept
      <4>3. Within(stream, k)'
        BY <1>3, <2>1, <2>4, <3>3 DEF InRequest
      <4> QED
        BY <4>2, <4>3 DEF Parsed
    <3>4. CASE /\ buffer # <<>> /\ buffer' = Tail(buffer)
               /\ read_status' = "END" /\ exit_status' = "ALL"
               /\ argv = request /\ \A i \in 1 .. Len(request) : request[i] # <<>>
               /\ done' = Append(done, request)
               /\ argv' = request /\ argc' = Len(request)
               /\ parsing_num' = 0 /\ Idle' /\ Rest' = rest
               /\ UNCHANGED <<requests, unread, worker>>
      <4>1. buffer' \in Strings /\ unread' \in Strings /\ requests' = stream
            /\ Len(buffer') <= BUFFER_SIZE
        BY <1>1, <3>4, KeptByTaking
      <4>2. <<>> \notin Range(request)
        BY <2>3, <3>4 DEF Range
      <4>3. \A i \in 1 .. k + 1 : <<>> \notin Range(stream[i])
        <5>1. \A i \in 1 .. k + 1 : i \in 1 .. k \/ i = k + 1
          OBVIOUS
        <5> QED
          BY <1>2, <4>2, <5>1 DEF request
      <4>4. done' = SubSeq(stream, 1, k + 1)
        BY <1>2, <2>7, <3>4
      <4>5. Len(Rest') <= Len(rest)
        <5>1. Len(rest) \in Nat
          BY <2>3, StringLength
        <5> QED
          BY <3>4, <5>1
      <4>6. Kept(stream, k + 1)'
        BY <1>2, <2>6, <3>4, <4>1, <4>3, <4>4, <4>5
      <4>7. Between(stream, k + 1)'
        BY <2>2, <2>5, <3>4
      <4> QED
        BY <2>2, <4>6, <4>7 DEF Parsed
    <3> QED
      BY <3>1, <3>2, <3>3, <3>4
  <2> QED
    BY <2>1, <2>9, <2>10 DEF InRequest
<1> QED
  BY <1>1, <1>5, <1>6

LEMMA InitInvariant == Init => ParserInv
<1> SUFFICES ASSUME Init PROVE ParserInv
  OBVIOUS
<1>1. PICK stream \in Streams : stream = requests
  BY DEF Init
<1>2. Len(stream) \in Nat /\ stream \in Seq(Seq(Strings) \ {<<>>})
  BY Typed
<1>3. 0 \in 0 .. Len(stream)
  BY <1>2
<1>4. Encoded(stream) = After(stream, 0) /\ After(stream, 0) \in Strings
  BY <1>3, EncodedLength, RequestsFollow
<1>5. unread = After(stream, 0) /\ buffer = <<>>
  BY <1>1, <1>4 DEF Init
<1>6. Rest = After(stream, 0)
  <2>1. PICK a \in Strings : a = After(stream, 0)
    BY <1>4
  <2>2. <<>> \o a = a
    BY <2>1, ConcatEmptySeq DEF Strings
  <2> QED
    BY <1>5, <2>1, <2>2 DEF Rest
<1>7. Kept(stream, 0)
  <2>1. done = SubSeq(stream, 1, 0)
    <3> HIDE DEF Strings
    <3>1. SubSeq(stream, 1, 0) = <<>>
      BY <1>2, SubSeqEmpty
    <3> QED
      BY <3>1 DEF Init
  <2>2. worker = "up" /\ buffer \in Strings /\ Len(buffer) = 0
    BY <1>5, Constants DEF Init
  <2>3. Len(buffer) <= BUFFER_SIZE
    BY <2>2, ParserAssumption
  <2>4. Len(Rest) <= Len(After(stream, 0))
    <3>1. Len(After(stream, 0)) \in Nat
      BY <1>4, StringLength
    <3> QED
      BY <1>6, <3>1
  <2>5. \A i \in 1 .. 0 : <<>> \notin Range(stream[i])
    OBVIOUS
  <2> QED
    BY <1>1, <1>4, <1>5, <2>1, <2>2, <2>3, <2>4, <2>5 DEF Kept
<1>8. Between(stream, 0)
  BY <1>6 DEF Between, Init, Idle
<1> QED
  BY <1>3, <1>7, <1>8 DEF ParserInv, Parsed

\* A read changes nothing in what is left.
LEMMA ReadStep ==
  ASSUME NEW stream \in Streams, NEW k \in 0 .. Len(stream), Parsed(stream, k), read_data
  PROVE  Parsed(stream, k)'
<1>1. Kept(stream, k) /\ (Between(stream, k) \/ Within(stream, k))
  BY DEF Parsed
<1>2. buffer = <<>> /\ unread \in Strings
  BY <1>1 DEF Kept, read_data
<1>3. PICK size \in 1 .. BUFFER_SIZE :
        /\ size <= Len(unread)
        /\ buffer' = SubSeq(unread, 1, size)
        /\ unread' = SubSeq(unread, size + 1, Len(unread))
  BY DEF read_data
<1>4. UNCHANGED <<requests, worker, read_status, exit_status, parsing_num, stringVars, argVars, done>>
  BY DEF read_data
<1>5. buffer' \in Strings /\ unread' \in Strings /\ Len(buffer') <= BUFFER_SIZE
      /\ buffer' \o unread' = unread
  <2>1. PICK u \in Strings : u = unread
    BY <1>2
  <2>2. u \in Seq(Byte) /\ Len(u) \in Nat /\ size \in Nat /\ size <= BUFFER_SIZE /\ BUFFER_SIZE \in Nat
        /\ size <= Len(u)
    BY <1>3, <2>1, ParserAssumption DEF Strings
  <2> HIDE DEF Byte
  <2>3. SubSeq(u, 1, size) \in Seq(Byte) /\ Len(SubSeq(u, 1, size)) = size
    BY <1>3, <2>2
  <2>4. SubSeq(u, size + 1, Len(u)) \in Seq(Byte)
    BY <2>2
  <2>5. SubSeq(u, 1, size) \o SubSeq(u, size + 1, Len(u)) = u
    <3>1. SubSeq(u, 1, Len(u)) = SubSeq(u, 1, size) \o SubSeq(u, size + 1, Len(u))
      BY <2>2, ConcatAdjacentSubSeq
    <3>2. SubSeq(u, 1, Len(u)) = u
      BY <2>2, SubSeqFull
    <3> QED
      BY <3>1, <3>2
  <2> QED
    BY <1>3, <2>1, <2>2, <2>3, <2>4, <2>5 DEF Strings
<1>6. Rest' = Rest
  <2>1. <<>> \o unread = unread
    BY <1>2, ConcatEmptySeq DEF Strings
  <2> QED
    BY <1>2, <1>5, <2>1 DEF Rest
<1>7. Kept(stream, k)'
  BY <1>1, <1>4, <1>5, <1>6 DEF Kept
<1>8. UNCHANGED <<requests, read_status, exit_status, parsing_num, size_str, parsing_str, argc, argv, Rest>>
  BY <1>4, <1>6 DEF stringVars, argVars
<1>9. Between(stream, k) => Between(stream, k)'
  BY <1>8 DEF Between, Idle
<1>10. Within(stream, k) => Within(stream, k)'
  BY <1>8 DEF Within, InRequest, InCount, InArguments, InGap, InSize, InSizeLine, InArgument, Stuck,
       InTerminator, InNumber, Idle
<1> QED
  BY <1>1, <1>7, <1>9, <1>10 DEF Parsed

\* The parser is set up for the request that follows.
LEMMA NextRequestStep ==
  ASSUME NEW stream \in Streams, NEW k \in 0 .. Len(stream), Parsed(stream, k), NextRequest
  PROVE  Parsed(stream, k)'
<1>1. Kept(stream, k) /\ Between(stream, k)
  BY DEF Parsed, Within, NextRequest
<1>2. /\ read_status' = "ARRAY_WAIT" /\ exit_status' = "NOT_ALL" /\ argc' = -1 /\ argv' = <<>>
      /\ parsing_num' = 0
      /\ UNCHANGED <<requests, unread, worker, buffer, stringVars, done>>
  BY DEF NextRequest
<1>3. Rest' = Rest /\ Idle'
  BY <1>1, <1>2 DEF Rest, Between, Idle, stringVars
<1>4. Kept(stream, k)'
  BY <1>1, <1>2, <1>3 DEF Kept
<1>5. Between(stream, k)'
  BY <1>1, <1>2, <1>3 DEF Between
<1> QED
  BY <1>4, <1>5 DEF Parsed

LEMMA NextInvariant == ParserInv /\ [Next]_vars => ParserInv'
<1> SUFFICES ASSUME ParserInv, [Next]_vars
             PROVE  ParserInv'
  OBVIOUS
<1>1. PICK stream \in Streams : \E k \in 0 .. Len(stream) : Parsed(stream, k)
  BY DEF ParserInv
<1>2. PICK k \in 0 .. Len(stream) : Parsed(stream, k)
  BY <1>1
<1>3. \E m \in 0 .. Len(stream) : Parsed(stream, m)'
  <2>1. CASE read_data
    BY <1>2, <2>1, ReadStep
  <2>2. CASE NextRequest
    BY <1>2, <2>2, NextRequestStep
  <2>3. CASE parse_cli_mes
    BY <1>2, <2>3, ParseStep
  <2>4. CASE UNCHANGED vars
    <3>1. UNCHANGED <<requests, unread, worker, buffer, read_status, exit_status,
                      parsing_num, size_str, parsing_str, argc, argv, done, Rest>>
      BY <2>4 DEF vars, stringVars, argVars, Rest
    <3>2. Parsed(stream, k)'
      BY <1>2, <3>1 DEF Parsed, Kept, Between, Within, InRequest, InCount, InArguments, InGap, InSize,
           InSizeLine, InArgument, Stuck, InTerminator, InNumber, Idle
    <3> QED
      BY <3>2
  <2> QED
    BY <2>1, <2>2, <2>3, <2>4 DEF Next
<1> QED
  BY <1>3 DEF ParserInv

LEMMA Inductive == Spec => []ParserInv
<1> QED
  BY InitInvariant, NextInvariant, PTL DEF Spec

-----------------------------------------------------------------------------
(***************************************************************************)
(* What the invariant says of a request under way.                         *)
(***************************************************************************)

LEMMA Longer ==
  ASSUME NEW p \in Strings, NEW q \in Strings, NEW m \in Nat, m <= Len(q)
  PROVE  /\ p \o q \in Strings /\ Len(p \o q) \in Nat /\ m <= Len(p \o q)
         /\ Len(p) # 0 => m < Len(p \o q)
         /\ m < Len(q) => m < Len(p \o q)
<1>1. p \o q \in Strings /\ Len(p \o q) = Len(p) + Len(q)
  BY Joined, Zenon
<1>2. Len(p) \in Nat /\ Len(q) \in Nat /\ Len(p \o q) \in Nat
  BY <1>1, StringLength
<1> QED
  BY <1>1, <1>2

\* In the j + 1st argument of a request more than the bytes behind the request is left.
LEMMA MoreIsLeft ==
  ASSUME NEW request \in Seq(Strings), NEW rest \in Strings, NEW j \in 0 .. Len(request) - 1,
         NEW p \in Strings
  PROVE  /\ Len(rest) < Len(p \o BehindArg(request, rest, j))
         /\ Len(rest) < Len(p \o (CRLF \o BehindArg(request, rest, j + 1)))
         /\ Len(rest) < Len(p \o (CRLF \o (request[j + 1] \o (CRLF \o BehindArg(request, rest, j + 1)))))
         /\ Len(rest) < Len(p \o (request[j + 1] \o (CRLF \o BehindArg(request, rest, j + 1))))
<1> DEFINE s == request[j + 1]
           c == CRLF
           a == ArgsAfter(request, j + 1)
           b == BehindArg(request, rest, j + 1)
           n == Decimal[Len(s)]
<1>1. j + 1 \in 0 .. Len(request)
  OBVIOUS
<1>2. s \in Strings /\ Len(s) \in Nat /\ BehindArg(request, rest, j) = <<DOLLAR>> \o (n \o (c \o (s \o (c \o b))))
  BY NextArgument
<1>3. c \in Strings /\ Len(c) = 2 /\ <<DOLLAR>> \in Strings /\ Len(rest) \in Nat /\ n \in Strings
  BY <1>2, Constants, StringLength, NumberBytes
<1>4. a \in Strings /\ b = a \o rest
  BY <1>1, ArgsFollow DEF BehindArg
<1> HIDE DEF s, c, a, b, n
<1>5. b \in Strings /\ Len(rest) <= Len(b)
  BY <1>3, <1>4, Longer
<1>6. c \o b \in Strings /\ Len(rest) < Len(c \o b)
  <2>1. Len(c) # 0
    BY <1>3
  <2> QED
    BY <1>3, <1>5, <2>1, Longer
<1>7. ASSUME NEW x \in Strings, NEW y \in Strings, Len(rest) < Len(y)
      PROVE  x \o y \in Strings /\ Len(rest) < Len(x \o y)
  <2>1. Len(y) \in Nat
    BY StringLength
  <2>2. Len(rest) <= Len(y)
    BY <1>3, <1>7, <2>1
  <2> QED
    BY <1>3, <1>7, <2>2, Longer
<1>8. s \o (c \o b) \in Strings /\ Len(rest) < Len(s \o (c \o b))
  BY <1>2, <1>6, <1>7
<1>9. c \o (s \o (c \o b)) \in Strings /\ Len(rest) < Len(c \o (s \o (c \o b)))
  BY <1>3, <1>7, <1>8
<1>10. n \o (c \o (s \o (c \o b))) \in Strings /\ Len(rest) < Len(n \o (c \o (s \o (c \o b))))
  BY <1>3, <1>7, <1>9
<1>11. BehindArg(request, rest, j) \in Strings /\ Len(rest) < Len(BehindArg(request, rest, j))
  BY <1>2, <1>3, <1>7, <1>10
<1>12. PICK d \in Strings : d = BehindArg(request, rest, j) /\ Len(rest) < Len(d)
  BY <1>11
<1>13. Len(rest) < Len(p \o d)
  BY <1>7, <1>12
<1>14. Len(rest) < Len(p \o (c \o b))
  BY <1>6, <1>7
<1>15. Len(rest) < Len(p \o (c \o (s \o (c \o b))))
  BY <1>7, <1>9
<1>16. Len(rest) < Len(p \o (s \o (c \o b)))
  BY <1>7, <1>8
<1> QED
  BY <1>12, <1>13, <1>14, <1>15, <1>16 DEF s, c, b

\* In a number.
LEMMA NumberFacts ==
  ASSUME NEW n \in Nat, NEW behind \in Strings, NEW m \in Nat, m <= Len(behind), InNumber(n, behind)
  PROVE  /\ read_status \in {"NUM_OR_MINUS_WAIT", "NUM_WAIT"}
         /\ parsing_num \in 0 .. n
         /\ m < Len(Rest)
<1> DEFINE d == Decimal[n]
           c == CRLF
<1>1. d \in Strings /\ c \in Strings /\ Len(c) = 2
  BY NumberBytes, Constants
<1>2. /\ read_status = "NUM_OR_MINUS_WAIT" \/ read_status = "NUM_WAIT"
      /\ \/ parsing_num = 0 /\ Rest = d \o (c \o behind)
         \/ \E i \in 1 .. Len(d) : /\ parsing_num = Reading(n)[i]
                                   /\ Rest = SubSeq(d, i + 1, Len(d)) \o (c \o behind)
  BY Zenon DEF InNumber
<1>3. \A i \in 1 .. Len(d) : Reading(n)[i] \in 0 .. n
  BY ReadingIs
<1> HIDE DEF d, c
<1>4. c \o behind \in Strings /\ Len(c \o behind) \in Nat /\ m < Len(c \o behind)
  <2>1. Len(c) # 0
    BY <1>1
  <2>2. c \o behind \in Strings /\ m < Len(c \o behind)
    BY <1>1, <2>1, Longer
  <2> QED
    BY <2>2, StringLength
<1>5. m <= Len(c \o behind)
  BY <1>4
<1>6. \A x \in Strings : m < Len(x \o (c \o behind))
  BY <1>4, <1>5, Longer
<1>7. \A i \in 1 .. Len(d) : SubSeq(d, i + 1, Len(d)) \in Strings
  BY <1>1, Peeled
<1>8. CASE parsing_num = 0 /\ Rest = d \o (c \o behind)
  BY <1>1, <1>2, <1>6, <1>8
<1>9. CASE \E i \in 1 .. Len(d) : /\ parsing_num = Reading(n)[i]
                                  /\ Rest = SubSeq(d, i + 1, Len(d)) \o (c \o behind)
  BY <1>2, <1>3, <1>6, <1>7, <1>9
<1> QED
  BY <1>2, <1>8, <1>9

\* The numbers, the places and the bytes of a request. N has all the numbers up to
\* those the request has.
LEMMA RequestFacts ==
  ASSUME NEW request \in Seq(Strings) \ {<<>>}, NEW rest \in Strings, InRequest(request, rest),
         NEW N, 0 .. Len(request) \subseteq N,
         \A j \in 1 .. Len(request) : 0 .. Len(request[j]) \subseteq N
  PROVE  /\ read_status \in Statuses
         /\ parsing_num \in N /\ size_str \in N /\ parsing_str \in Strings
         /\ argv \in Seq(Strings)
         /\ argc = -1 \/ (argc = Len(request) /\ Len(argv) <= argc)
         /\ \/ /\ Len(rest) < Len(Rest)
               /\ read_status = "STR_SYM_WAIT" => Len(parsing_str) < size_str
            \/ \E j \in 0 .. Len(request) - 1 : request[j + 1] = <<>> /\ Len(argv) = j
<1>1. /\ Len(request) \in Nat /\ Len(request) # 0 /\ request \in Seq(Strings)
      /\ Len(rest) \in Nat /\ <<>> \in Strings /\ 0 \in N /\ <<>> \in Seq(Strings)
  BY StringLength, Constants
<1>2. CASE InCount(request, rest)
  <2> DEFINE behind == ArgsAfter(request, 0) \o rest
  <2>1. argc = -1 /\ argv = <<>> /\ Idle /\ InNumber(Len(request), behind)
    BY <1>2 DEF InCount
  <2>2. ArgsAfter(request, 0) \in Strings
    <3>1. 0 \in 0 .. Len(request)
      BY <1>1
    <3> QED
      BY <1>1, <3>1, ArgsFollow
  <2>3. behind \in Strings /\ Len(rest) <= Len(behind)
    <3>1. PICK a \in Strings : a = ArgsAfter(request, 0)
      BY <2>2
    <3>2. Len(rest) <= Len(rest)
      BY <1>1
    <3> QED
      BY <1>1, <3>1, <3>2, Longer
  <2> HIDE DEF behind
  <2>4. /\ read_status \in {"NUM_OR_MINUS_WAIT", "NUM_WAIT"}
        /\ parsing_num \in 0 .. Len(request) /\ Len(rest) < Len(Rest)
    BY <1>1, <2>1, <2>3, NumberFacts
  <2> QED
    BY <1>1, <2>1, <2>4 DEF Idle, Statuses
<1>3. CASE InArguments(request, rest)
  <2>1. PICK j \in 0 .. Len(request) : AtArgument(request, rest, j)
    BY <1>3, ArgumentsAre
  <2>2. argc = Len(request) /\ argv = SubSeq(request, 1, j)
    BY <2>1 DEF AtArgument
  <2>3. argv \in Seq(Strings) /\ Len(argv) <= argc
    <3> HIDE DEF Strings
    <3>1. SubSeq(request, 1, j) \in Seq(Strings) /\ Len(SubSeq(request, 1, j)) = j /\ j <= Len(request)
      BY <1>1
    <3> QED
      BY <2>2, <3>1
  <2>4. ASSUME j < Len(request)
        PROVE  /\ j \in 0 .. Len(request) - 1 /\ j + 1 \in 1 .. Len(request)
               /\ request[j + 1] \in Strings /\ Len(request[j + 1]) \in Nat
               /\ 0 .. Len(request[j + 1]) \subseteq N
    <3>1. j \in 0 .. Len(request) - 1 /\ j + 1 \in 1 .. Len(request)
      BY <1>1, <2>4
    <3> QED
      BY <1>1, <3>1, NextArgument
  <2>5. CASE j < Len(request) /\ InGap(request, rest, j)
    <3>1. /\ read_status = "START_STRING_WAIT" /\ parsing_num = 0 /\ Idle
          /\ \E gap \in {<<>>, <<LF>>, CRLF} : Rest = gap \o BehindArg(request, rest, j)
      BY <2>5 DEF InGap
    <3>2. Len(rest) < Len(Rest)
      <4>1. \A gap \in {<<>>, <<LF>>, CRLF} : gap \in Strings
        BY Constants
      <4>2. \A gap \in Strings : Len(rest) < Len(gap \o BehindArg(request, rest, j))
        BY <1>1, <2>4, <2>5, MoreIsLeft
      <4> QED
        BY <3>1, <4>1, <4>2
    <3> QED
      BY <1>1, <2>2, <2>3, <3>1, <3>2 DEF Idle, Statuses
  <2>6. CASE j < Len(request) /\ InSize(request, rest, j)
    <3> DEFINE behind == request[j + 1] \o (CRLF \o BehindArg(request, rest, j + 1))
    <3>1. Idle /\ InNumber(Len(request[j + 1]), behind)
      BY <2>6 DEF InSize
    <3>2. behind \in Strings
      BY <1>1, <2>4, <2>6, NextArgument
    <3>3. Len(rest) < Len(<<>> \o behind)
      BY <1>1, <2>4, <2>6, MoreIsLeft
    <3> HIDE DEF behind
    <3>4. <<>> \o behind = behind /\ Len(behind) \in Nat
      BY <3>2, ConcatEmptySeq, StringLength DEF Strings
    <3>5. Len(rest) <= Len(behind)
      BY <1>1, <3>3, <3>4
    <3>6. /\ read_status \in {"NUM_OR_MINUS_WAIT", "NUM_WAIT"}
          /\ parsing_num \in 0 .. Len(request[j + 1]) /\ Len(rest) < Len(Rest)
      BY <1>1, <2>4, <2>6, <3>1, <3>2, <3>5, NumberFacts
    <3>7. parsing_num \in N
      BY <2>4, <2>6, <3>6
    <3> QED
      BY <1>1, <2>2, <2>3, <3>1, <3>6, <3>7 DEF Idle, Statuses
  <2>7. CASE j < Len(request) /\ InSizeLine(request, rest, j)
    <3>1. /\ read_status = "STRING_WAIT" /\ parsing_num = 0
          /\ size_str = Len(request[j + 1]) /\ parsing_str = <<>>
          /\ Rest = <<LF>> \o (request[j + 1] \o (CRLF \o BehindArg(request, rest, j + 1)))
      BY <2>7 DEF InSizeLine
    <3>2. Len(rest) < Len(Rest)
      BY <1>1, <2>4, <2>7, <3>1, MoreIsLeft, Constants
    <3>3. size_str \in N
      BY <2>4, <2>7, <3>1
    <3> QED
      BY <1>1, <2>2, <2>3, <3>1, <3>2, <3>3 DEF Statuses
  <2>8. CASE j < Len(request) /\ InArgument(request, rest, j)
    <3> DEFINE s == request[j + 1]
    <3>1. read_status = "STR_SYM_WAIT" /\ parsing_num = 0 /\ size_str = Len(s)
      BY <2>8 DEF InArgument
    <3>2. PICK i \in 0 .. Len(s) - 1 :
            /\ parsing_str = SubSeq(s, 1, i)
            /\ Rest = SubSeq(s, i + 1, Len(s)) \o (CRLF \o BehindArg(request, rest, j + 1))
      BY <2>8 DEF InArgument
    <3>3. s \in Strings /\ Len(s) \in Nat /\ i + 1 \in 1 .. Len(s) /\ s \in Seq(Byte)
      BY <2>4, <2>8, <3>2 DEF Strings
    <3>4. parsing_str \in Strings /\ Len(parsing_str) < size_str
      <4> HIDE DEF s, Byte
      <4>1. SubSeq(s, 1, i) \in Seq(Byte) /\ Len(SubSeq(s, 1, i)) = i /\ i < Len(s)
        BY <3>3
      <4> QED
        BY <3>1, <3>2, <4>1 DEF Strings
    <3>5. SubSeq(s, i + 1, Len(s)) \in Strings
      <4> HIDE DEF s, Byte
      <4> QED
        BY <3>3 DEF Strings
    <3>6. Len(rest) < Len(Rest)
      BY <1>1, <2>4, <2>8, <3>2, <3>5, MoreIsLeft
    <3>7. size_str \in N
      BY <2>4, <2>8, <3>1
    <3> QED
      BY <1>1, <2>2, <2>3, <3>1, <3>4, <3>6, <3>7 DEF Statuses
  <2>9. CASE j < Len(request) /\ Stuck(request, j)
    <3>1. /\ read_status = "STR_SYM_WAIT" /\ parsing_num = 0 /\ request[j + 1] = <<>>
          /\ size_str = 0 /\ parsing_str \in Strings
      BY <2>9 DEF Stuck
    <3>2. j \in 0 .. Len(request) - 1
      BY <2>4, <2>9
    <3>3. Len(argv) = j
      <4> HIDE DEF Strings
      <4> QED
        BY <1>1, <2>2
    <3> QED
      BY <1>1, <2>2, <2>3, <3>1, <3>2, <3>3 DEF Statuses
  <2>10. CASE j = Len(request) /\ InTerminator(request, rest)
    <3>1. /\ read_status = "END" /\ parsing_num = 0 /\ Idle
          /\ \E gap \in {<<LF>>, CRLF} : Rest = gap \o rest
      BY <2>10 DEF InTerminator
    <3>2. Len(rest) < Len(Rest)
      <4>1. Len(rest) <= Len(rest)
        BY <1>1
      <4>2. \A gap \in {<<LF>>, CRLF} : gap \in Strings /\ Len(gap) # 0
        <5>1. <<LF>> \in Strings /\ CRLF \in Strings /\ Len(<<LF>>) = 1 /\ Len(CRLF) = 2
          BY Constants
        <5>2. Len(<<LF>>) # 0 /\ Len(CRLF) # 0
          BY <5>1
        <5> QED
          BY <5>1, <5>2
      <4> QED
        BY <1>1, <3>1, <4>1, <4>2, Longer
    <3> QED
      BY <1>1, <2>2, <2>3, <3>1, <3>2 DEF Idle, Statuses
  <2> QED
    BY <2>1, <2>5, <2>6, <2>7, <2>8, <2>9, <2>10 DEF AtArgument
<1> QED
  BY <1>2, <1>3 DEF InRequest

-----------------------------------------------------------------------------
(***************************************************************************)
(* What it says of the parser.                                             *)
(***************************************************************************)

LEMMA NumbersOf ==
  ASSUME NEW stream \in Streams, stream = requests, NEW i \in 1 .. Len(stream)
  PROVE  /\ 0 .. Len(stream[i]) \subseteq UpToSent
         /\ \A j \in 1 .. Len(stream[i]) : 0 .. Len(stream[i][j]) \subseteq UpToSent
         /\ Len(stream[i]) \in UpToSent \ {0}
<1>1. stream[i] \in Seq(Strings) \ {<<>>} /\ Len(stream[i]) \in Nat /\ Len(stream[i]) # 0
  BY RequestsTyped
<1>2. i \in DOMAIN stream /\ \A j \in 1 .. Len(stream[i]) : j \in DOMAIN stream[i]
  BY <1>1, Typed
<1>3. Len(stream[i]) \in Numbers(stream)
  BY <1>2 DEF Numbers, Range
<1>4. \A j \in 1 .. Len(stream[i]) : Len(stream[i][j]) \in Numbers(stream)
  <2> TAKE j \in 1 .. Len(stream[i])
  <2>1. stream[i] \in Range(stream) /\ stream[i][j] \in Range(stream[i])
    BY <1>2 DEF Range
  <2> QED
    BY <2>1 DEF Numbers
<1>5. UpToSent = {0} \cup UNION {0 .. n : n \in Numbers(stream)}
  BY DEF UpToSent
<1>6. Len(stream[i]) \in 0 .. Len(stream[i])
  BY <1>1
<1> QED
  BY <1>1, <1>3, <1>4, <1>5, <1>6

\* What is left tells how many requests were taken, unless an empty argument is
\* read.
LEMMA ParsedFacts ==
  ASSUME NEW stream \in Streams, NEW k \in 0 .. Len(stream), Parsed(stream, k)
  PROVE  /\ read_status \in Statuses /\ exit_status \in {"NOT_ALL", "ALL"}
         /\ parsing_num \in UpToSent /\ size_str \in UpToSent /\ parsing_str \in Strings
         /\ argc \in {-1} \cup (UpToSent \ {0}) /\ argv \in Seq(Strings)
         /\ argc # -1 => Len(argv) <= argc
         /\ \/ /\ \A n \in k + 1 .. Len(stream) : Len(After(stream, n)) < Len(Rest)
               /\ read_status = "STR_SYM_WAIT" => Len(parsing_str) < size_str
            \/ /\ k < Len(stream) /\ <<>> \in Range(stream[k + 1])
               /\ stream[k + 1][Len(argv) + 1] = <<>>
<1>1. Kept(stream, k) /\ (Between(stream, k) \/ Within(stream, k))
  BY DEF Parsed
<1>2. requests = stream
  BY <1>1 DEF Kept
<1>3. Len(stream) \in Nat /\ 0 \in UpToSent /\ <<>> \in Strings /\ <<>> \in Seq(Strings)
  BY Typed, Constants DEF UpToSent
<1>4. ASSUME NEW n \in k + 1 .. Len(stream)
      PROVE  /\ Len(After(stream, n)) \in Nat /\ Len(After(stream, k + 1)) \in Nat
             /\ Len(After(stream, n)) <= Len(After(stream, k + 1))
             /\ Len(After(stream, k + 1)) < Len(After(stream, k)) /\ Len(After(stream, k)) \in Nat
  <2>1. k + 1 \in 0 .. Len(stream) /\ k < Len(stream) /\ n \in 0 .. Len(stream) /\ n \in (k + 1) .. Len(stream)
    BY <1>3
  <2>2. After(stream, n) \in Strings /\ After(stream, k + 1) \in Strings /\ After(stream, k) \in Strings
    BY <2>1, RequestsFollow
  <2>3. Len(After(stream, n)) <= Len(After(stream, k + 1))
    BY <2>1, AfterParts
  <2>4. Len(After(stream, k + 1)) < Len(After(stream, k))
    BY <2>1, RequestsFollow
  <2> QED
    BY <2>2, <2>3, <2>4, StringLength
<1>5. CASE Between(stream, k)
  <2>1. /\ parsing_num = 0 /\ size_str = 0 /\ parsing_str = <<>>
        /\ Rest = After(stream, k)
        /\ \/ /\ read_status = "ARRAY_WAIT" /\ exit_status = "NOT_ALL"
              /\ argc = -1 /\ argv = <<>>
           \/ /\ read_status = "END" /\ exit_status = "ALL" /\ k # 0
              /\ argv = stream[k] /\ argc = Len(stream[k])
    BY <1>5 DEF Between, Idle
  <2>2. \A n \in k + 1 .. Len(stream) : Len(After(stream, n)) < Len(Rest)
    BY <1>4, <2>1
  <2>3. ASSUME k # 0
        PROVE  stream[k] \in Seq(Strings) /\ Len(stream[k]) \in UpToSent \ {0} /\ Len(stream[k]) \in Nat
    <3>1. k \in 1 .. Len(stream)
      BY <1>3, <2>3
    <3> QED
      BY <1>2, <3>1, NumbersOf, RequestsTyped
  <2>4. CASE argc = -1 /\ argv = <<>> /\ read_status = "ARRAY_WAIT" /\ exit_status = "NOT_ALL"
    BY <1>3, <2>1, <2>2, <2>4 DEF Statuses
  <2>5. CASE /\ read_status = "END" /\ exit_status = "ALL" /\ k # 0
             /\ argv = stream[k] /\ argc = Len(stream[k])
    BY <1>3, <2>1, <2>2, <2>3, <2>5 DEF Statuses
  <2> QED
    BY <2>1, <2>4, <2>5
<1>6. CASE Within(stream, k)
  <2> DEFINE request == stream[k + 1]
             rest == After(stream, k + 1)
  <2>1. k < Len(stream) /\ exit_status = "NOT_ALL" /\ InRequest(request, rest)
    BY <1>6 DEF Within
  <2>2. k + 1 \in 1 .. Len(stream) /\ k + 1 \in 0 .. Len(stream)
    BY <1>3, <2>1
  <2>3. request \in Seq(Strings) \ {<<>>} /\ rest \in Strings
    BY <2>2, RequestsTyped, RequestsFollow
  <2>4. /\ 0 .. Len(request) \subseteq UpToSent
        /\ \A j \in 1 .. Len(request) : 0 .. Len(request[j]) \subseteq UpToSent
        /\ Len(request) \in UpToSent \ {0}
    BY <1>2, <2>2, NumbersOf
  <2> HIDE DEF request, rest
  <2>5. /\ read_status \in Statuses
        /\ parsing_num \in UpToSent /\ size_str \in UpToSent /\ parsing_str \in Strings
        /\ argv \in Seq(Strings)
        /\ argc = -1 \/ (argc = Len(request) /\ Len(argv) <= argc)
        /\ \/ /\ Len(rest) < Len(Rest)
              /\ read_status = "STR_SYM_WAIT" => Len(parsing_str) < size_str
           \/ \E j \in 0 .. Len(request) - 1 : request[j + 1] = <<>> /\ Len(argv) = j
    BY <2>1, <2>3, <2>4, RequestFacts
  <2>6. argc \in {-1} \cup (UpToSent \ {0}) /\ (argc # -1 => Len(argv) <= argc)
    BY <2>4, <2>5
  <2>7. ASSUME NEW j \in 0 .. Len(request) - 1, request[j + 1] = <<>>
        PROVE  <<>> \in Range(request)
    <3>1. j + 1 \in DOMAIN request
      BY <2>3
    <3> QED
      BY <2>7, <3>1 DEF Range
  <2>8. ASSUME Len(rest) < Len(Rest), NEW n \in k + 1 .. Len(stream)
        PROVE  Len(After(stream, n)) < Len(Rest)
    <3>1. Rest \in Strings /\ Len(Rest) \in Nat
      <4>1. buffer \in Strings /\ unread \in Strings
        BY <1>1 DEF Kept
      <4>2. Rest \in Strings
        BY <4>1, Joined, Zenon DEF Rest
      <4> QED
        BY <4>2, StringLength
    <3> QED
      BY <1>4, <2>8, <3>1 DEF rest
  <2> QED
    BY <2>1, <2>5, <2>6, <2>7, <2>8 DEF request
<1> QED
  BY <1>1, <1>5, <1>6

\* The k requests that are done are those whose last byte is taken, up to the first
\* with an empty argument.
LEMMA TakenAre ==
  ASSUME NEW stream \in Streams, NEW k \in 0 .. Len(stream), Parsed(stream, k)
  PROVE  Taken \cap BeforeEmpty = 1 .. k
<1>1. /\ requests = stream /\ buffer \in Strings /\ unread \in Strings
      /\ \A i \in 1 .. k : <<>> \notin Range(stream[i])
      /\ Len(Rest) <= Len(After(stream, k))
  BY Zenon DEF Parsed, Kept
<1>2. Len(stream) \in Nat /\ DOMAIN stream = 1 .. Len(stream)
  BY Typed
<1>3. Rest \in Strings /\ Len(Rest) = Len(buffer) + Len(unread)
  BY <1>1, Joined, Zenon DEF Rest
<1>4. Len(buffer) \in Nat /\ Len(unread) \in Nat /\ Len(Rest) \in Nat
  BY <1>1, <1>3, StringLength
<1>5. ASSUME NEW n \in 1 .. Len(stream)
      PROVE  /\ Len(Encoded(SubSeq(stream, 1, n))) <= BytesTaken <=> Len(Rest) <= Len(After(stream, n))
             /\ Len(After(stream, n)) \in Nat
  <2>1. n \in 0 .. Len(stream)
    BY <1>2
  <2>2. /\ Encoded(SubSeq(stream, 1, n)) \in Strings
        /\ Len(Encoded(stream)) = Len(Encoded(SubSeq(stream, 1, n))) + Len(After(stream, n))
    BY <2>1, EncodedLength
  <2>3. After(stream, n) \in Strings
    BY <2>1, RequestsFollow
  <2>4. Len(Encoded(SubSeq(stream, 1, n))) \in Nat /\ Len(After(stream, n)) \in Nat
    BY <2>2, <2>3, StringLength
  <2>5. BytesTaken = Len(Encoded(stream)) - Len(unread) - Len(buffer)
    BY <1>1 DEF BytesTaken
  <2> QED
    BY <1>3, <1>4, <2>2, <2>4, <2>5
<1>6. Taken = {n \in 1 .. Len(stream) : Len(Rest) <= Len(After(stream, n))}
  BY <1>1, <1>2, <1>5 DEF Taken
<1>7. BeforeEmpty = {n \in 1 .. Len(stream) : \A i \in 1 .. n : <<>> \notin Range(stream[i])}
  BY <1>1, <1>2 DEF BeforeEmpty
<1>8. ASSUME NEW n \in 1 .. k
      PROVE  n \in Taken \cap BeforeEmpty
  <2>1. n \in 1 .. Len(stream) /\ n \in 0 .. Len(stream) /\ k \in n .. Len(stream) /\ 1 .. n \subseteq 1 .. k
    BY <1>2
  <2>2. Len(After(stream, k)) <= Len(After(stream, n))
    BY <2>1, AfterParts
  <2>3. Len(After(stream, k)) \in Nat
    BY RequestsFollow, StringLength
  <2>4. Len(Rest) <= Len(After(stream, n))
    BY <1>1, <1>4, <1>5, <2>1, <2>2, <2>3
  <2> QED
    BY <1>1, <1>6, <1>7, <2>1, <2>4
<1>9. ASSUME NEW n \in k + 1 .. Len(stream)
      PROVE  n \notin Taken \cap BeforeEmpty
  <2>1. n \in 1 .. Len(stream) /\ k + 1 \in 1 .. n
    BY <1>2
  <2>2. \/ \A m \in k + 1 .. Len(stream) : Len(After(stream, m)) < Len(Rest)
        \/ k < Len(stream) /\ <<>> \in Range(stream[k + 1])
    BY ParsedFacts
  <2>3. CASE \A m \in k + 1 .. Len(stream) : Len(After(stream, m)) < Len(Rest)
    BY <1>4, <1>5, <1>6, <2>1, <2>3
  <2>4. CASE <<>> \in Range(stream[k + 1])
    BY <1>7, <2>1, <2>4
  <2> QED
    BY <2>2, <2>3, <2>4
<1>10. \A n \in 1 .. Len(stream) : n \in 1 .. k \/ n \in k + 1 .. Len(stream)
  BY <1>2
<1> QED
  BY <1>6, <1>8, <1>9, <1>10

LEMMA Safe ==
  ASSUME ParserInv
  PROVE  TypeOK /\ ParsedAsSent /\ WritesStayInside
<1>1. PICK stream \in Streams : \E k \in 0 .. Len(stream) : Parsed(stream, k)
  BY DEF ParserInv
<1>2. PICK k \in 0 .. Len(stream) : Parsed(stream, k)
  BY <1>1
<1>3. /\ requests = stream /\ worker \in {"up", "down"} /\ buffer \in Strings /\ unread \in Strings
      /\ Len(buffer) <= BUFFER_SIZE /\ done = SubSeq(stream, 1, k)
      /\ \A i \in 1 .. k : <<>> \notin Range(stream[i])
  BY <1>2, Zenon DEF Parsed, Kept
<1>4. /\ read_status \in Statuses /\ exit_status \in {"NOT_ALL", "ALL"}
      /\ parsing_num \in UpToSent /\ size_str \in UpToSent /\ parsing_str \in Strings
      /\ argc \in {-1} \cup (UpToSent \ {0}) /\ argv \in Seq(Strings)
      /\ argc # -1 => Len(argv) <= argc
      /\ \/ /\ \A n \in k + 1 .. Len(stream) : Len(After(stream, n)) < Len(Rest)
            /\ read_status = "STR_SYM_WAIT" => Len(parsing_str) < size_str
         \/ k < Len(stream) /\ stream[k + 1][Len(argv) + 1] = <<>>
  BY <1>2, ParsedFacts
<1>5. stream \in Seq(Seq(Strings) \ {<<>>}) /\ Len(stream) \in Nat
  BY Typed
<1>6. TypeOK
  <2>1. done \in Seq(Seq(Strings))
    <3> DEFINE R == Seq(Strings)
    <3>1. stream \in Seq(R)
      BY <1>5
    <3> HIDE DEF R
    <3>2. SubSeq(stream, 1, k) \in Seq(R)
      BY <1>5, <3>1
    <3> QED
      BY <1>3, <3>2 DEF R
  <2> QED
    BY <1>3, <1>4, <2>1 DEF TypeOK, Strings, Byte
<1>7. ParsedAsSent
  <2>1. Taken \cap BeforeEmpty = 1 .. k
    BY <1>2, TakenAre
  <2>2. Cardinality(1 .. k) = k
    <3>1. k \in Nat /\ 1 \in Int /\ k \in Int
      BY <1>5
    <3>2. Cardinality(1 .. k) = IF 1 > k THEN 0 ELSE k - 1 + 1
      BY <3>1, FS_Interval
    <3> QED
      BY <3>1, <3>2
  <2> QED
    BY <1>3, <2>1, <2>2 DEF ParsedAsSent
<1>8. WritesStayInside
  <2>1. Len(done) = k
    <3> DEFINE R == Seq(Strings) \ {<<>>}
    <3>1. stream \in Seq(R)
      BY <1>5
    <3> HIDE DEF R
    <3>2. Len(SubSeq(stream, 1, k)) = k
      BY <1>5, <3>1
    <3> QED
      BY <1>3, <3>2
  <2> QED
    BY <1>3, <1>4, <2>1 DEF WritesStayInside
<1> QED
  BY <1>6, <1>7, <1>8

\* The parser works with the numbers it was sent, and on bytes.
THEOREM TypeCorrect == Spec => []TypeOK
<1>1. ParserInv => TypeOK
  BY Safe
<1> QED
  BY <1>1, Inductive, PTL

\* parse_cli_mes hands over every request with its last byte, as it was sent and in
\* its turn, for every stream and every cut of it into reads, until an empty
\* argument comes.
THEOREM RequestsAreParsedAsSent == Spec => []ParsedAsSent
<1>1. ParserInv => ParsedAsSent
  BY Safe
<1> QED
  BY <1>1, Inductive, PTL

\* parse_cli_mes writes no byte of an argument behind its memory, and no argument
\* behind those argv has places for, but for an argument that was sent empty.
THEOREM WritesAreInside == Spec => []WritesStayInside
<1>1. ParserInv => WritesStayInside
  BY Safe
<1> QED
  BY <1>1, Inductive, PTL
=============================================================================
