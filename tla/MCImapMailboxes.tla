-------------------------- MODULE MCImapMailboxes --------------------------
(* Instances of ImapMailboxes for TLC. *)
EXTENDS ImapMailboxes

CONSTANTS a1, plain, twin, dotted

(* As "Lists/A" and "Lists-A" have the id Lists-A by both functions, and    *)
(* "Lists.A" has the ids Lists-A and Lists.A.                               *)
LocalIds == [n \in Names |-> "x-y"]
ListIds == [n \in Names |-> IF n = dotted THEN "x.y" ELSE "x-y"]
AllIds == {LocalIds[n] : n \in Names} \cup {ListIds[n] : n \in Names}

OnFirst == [a \in Accounts |-> {plain, dotted} \cap Names]
=============================================================================
