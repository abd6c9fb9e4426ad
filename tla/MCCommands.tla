----------------------------- MODULE MCCommands -----------------------------
(* Small instances of Commands for TLC. *)
EXTENDS Commands

CONSTANTS k1, k2, kLong, s1, s2, big

\* A text with the bytes of the protocol in it, of a length with two digits.
MCTextOf == [v \in Values |-> IF v = s1 THEN <<DOLLAR, 49, 48, CR, LF, STAR, 97, 98, 99, CR, LF>> ELSE <<97>>]

\* One key, two, the same twice, and keys that take different paths.
MCKeyLists == {<<k1>>, <<k2>>, <<kLong>>, <<k1, k1>>, <<k1, k2>>, <<kLong, k1>>, <<k2, kLong>>}
=============================================================================
