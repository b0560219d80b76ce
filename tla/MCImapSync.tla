----------------------------- MODULE MCImapSync -----------------------------
(* Instances of ImapSync for TLC. *)
EXTENDS ImapSync, TLC

CONSTANTS inbox, twin, m1, m2, w1, w2

(* The first can be read through an int. *)
SomeValidities == {1, 3, 4}

SameMail == Permutations(Mail)
=============================================================================
