------------------------------- MODULE GoTypes -------------------------------
(***************************************************************************)
(* The two facts of the Go language the other modules rely on: a pointer   *)
(* may be nil, and arithmetic on uint64 wraps around.                      *)
(***************************************************************************)
EXTENDS Integers

CONSTANTS
  Nil,    \* the nil pointer, different from every other value
  Word    \* number of uint64 values: 2^64 in the program, smaller in TLC

ASSUME WordAssumption == Word \in Nat \ {0}

UInt64 == 0 .. Word - 1

Minus(a, b) == (a - b) % Word
Times(a, b) == (a * b) % Word
==============================================================================
