------------------------------- MODULE MCProxy -------------------------------
(* Small instances of Proxy for TLC. *)
EXTENDS Proxy

CONSTANTS c1, c2, k1, s1

MCTextOf == [v \in Values |-> <<97>>]
MCKeyLists == {<<k1, k1>>}

Get == [name |-> "GET", key |-> k1]
Set == [name |-> "SET", key |-> k1, value |-> s1]
Del == [name |-> "DEL", keys |-> <<k1, k1>>]
Ping == [name |-> "PING"]
Command == [name |-> "COMMAND"]
Unknown == [name |-> "UNKNOWN"]

MCRequests == {Get, Set, Del, Ping, Command, Unknown}

MCScripts == [c \in {c1, c2} |->
  IF c = c1 THEN {<<Set, Get>>, <<Ping, Command>>} ELSE {<<Get>>, <<Del>>, <<Unknown>>}]
=============================================================================
