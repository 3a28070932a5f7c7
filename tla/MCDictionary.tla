---------------------------- MODULE MCDictionary ----------------------------
(* An instance of Dictionary for TLC. *)
EXTENDS Dictionary

CONSTANTS w1, w2

\* "7" and "07" are one number.
Stored == [p \in Passwords |-> IF p = "07" THEN "7" ELSE p]

\* A word may have two lines.
ThreeLines == <<<<w1, "m1">>, <<w2, "m2">>, <<w1, "m3">>>>

=============================================================================
