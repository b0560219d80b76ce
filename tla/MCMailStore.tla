----------------------------- MODULE MCMailStore -----------------------------
EXTENDS MailStore, TLC

CONSTANTS k1, k2, w1, w2

(* Both ids are names. *)
Named == [k \in Keys |-> 0]

(* The id k2 is the digit 1, as messages imported without ids have. *)
Digits == [k \in Keys |-> IF k = k2 THEN 1 ELSE 0]

Writes == {"save", "delete"}

SameIds == Permutations(Keys)

Everything == {"save", "delete", "list", "compact"}
=============================================================================
