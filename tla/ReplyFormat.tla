----------------------------- MODULE ReplyFormat -----------------------------
(***************************************************************************)
(* The replies of the proxy, from the answer of the command layer (a type  *)
(* byte and a text, redis_reqv_converter.c) to what is written to the      *)
(* client (postgres_reqv_converter.c). Every size and place is computed as *)
(* the code does it: a byte that no memcpy reaches stays UNSET, and one    *)
(* that is copied from behind a text is UNSET too.                         *)
(***************************************************************************)
EXTENDS Bytes, Integers

UNSET == 256

malloc(size) == [i \in 1 .. size |-> UNSET]

\* memcpy(answer + at, bytes, Len(bytes)).
memcpy(answer, at, bytes) ==
  [i \in DOMAIN answer |-> IF i - at \in DOMAIN bytes THEN bytes[i - at] ELSE answer[i]]

\* The size bytes that start at text + 1, where there are so many.
Behind(text, size) == [i \in 1 .. size |-> IF i + 1 \in DOMAIN text THEN text[i + 1] ELSE UNSET]

\* A sign, the data and the end of a line.
Framed(sign, reqv, size_reqv_data) ==
  LET size_answer == size_reqv_data + 3 IN
  memcpy(memcpy(memcpy(malloc(size_answer), 0, sign), 1, Behind(reqv, size_reqv_data)),
         size_answer - 2, CRLF)

\* Its texts end with a NUL that is not sent.
CreateSimplStr(reqv) == Framed(<<PLUS>>, reqv, Len(reqv) - 2)

CreateInt(reqv) == Framed(<<COLON>>, reqv, Len(reqv) - 1)

ERR_ == <<MINUS, 69, 82, 82, 32>>  \* "-ERR "

\* One byte more than the text has is copied, and the end of the line put over it.
CreateErr(reqv) ==
  LET size_answer == 5 + Len(reqv) + 2 - 1 IN
  memcpy(memcpy(memcpy(malloc(size_answer), 0, ERR_), 5, Behind(reqv, Len(reqv))),
         size_answer - 2, CRLF)

\* Faulty form: the size line is taken to have one digit.
CreateStr_one_digit(reqv) ==
  LET size_reqv_data == IF Len(reqv) = 1 THEN 0 ELSE Len(reqv) - 2
      size == IF size_reqv_data = 0 THEN <<MINUS, 49>> ELSE Decimal[size_reqv_data]
      head == memcpy(memcpy(malloc(size_reqv_data + 6), 0, <<DOLLAR>>), 1, size)
  IN memcpy(memcpy(memcpy(head, 2, CRLF), 4, Behind(reqv, size_reqv_data)), size_reqv_data + 4, CRLF)

\* A type byte alone is the answer for a missing value. A text ends with a NUL
\* that is not sent.
CreateStr(reqv) ==
  LET size_reqv_data == IF Len(reqv) = 1 THEN 0 ELSE Len(reqv) - 2
      size == IF size_reqv_data = 0 THEN <<MINUS, 49>> ELSE Decimal[size_reqv_data]
      count_write_sym == Len(size)
      count_shell_sym == 1 + count_write_sym + 2 + (IF size_reqv_data = 0 THEN 0 ELSE 2)
      size_answer == size_reqv_data + count_shell_sym
      head == memcpy(memcpy(memcpy(malloc(size_answer), 0, <<DOLLAR>>), 1, size),
                     1 + count_write_sym, CRLF)
  IN IF size_reqv_data = 0 THEN head
     ELSE memcpy(memcpy(head, 1 + count_write_sym + 2, Behind(reqv, size_reqv_data)),
                 size_answer - 2, CRLF)

\* The first byte says what the answer is.
define_type_req(reqv) ==
  CASE reqv[1] = 0 -> CreateSimplStr(reqv)
    [] reqv[1] = 1 -> CreateErr(reqv)
    [] reqv[1] = 2 -> CreateInt(reqv)
    [] reqv[1] = 3 -> CreateStr(reqv)
=============================================================================
