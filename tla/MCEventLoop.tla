----------------------------- MODULE MCEventLoop -----------------------------
(* Small instances of EventLoop for TLC. *)
EXTENDS EventLoop, TLC

CONSTANTS c1, c2

MCSymmetry == Permutations({c1, c2})
=============================================================================
