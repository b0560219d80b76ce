--------------------------- MODULE MCImapJournal ---------------------------
(* Instances of ImapJournal for TLC. *)
EXTENDS ImapJournal

CONSTANTS inbox, other, m1, m2, w1, w2

TwoBoxes == {inbox, other}
OneMessage == {m1}
TwoMessages == {m1, m2}
OneWindow == {w1}
TwoWindows == {w1, w2}
OnlyInbox == {inbox}

InInbox == [m \in Messages |-> <<inbox, 1>>]
InEach == [m \in Messages |-> IF m = m1 THEN <<inbox, 1>> ELSE <<other, 1>>]

InPlace == {"delete", "expunge", "fetch"}
AllCommands == {"delete", "undelete", "expunge", "move", "copy", "fetch"}
Everything == {"move", "mark", "erase"}
=============================================================================
