---------------------------- MODULE ImapJournal ----------------------------
(***************************************************************************)
(* The offline work on one IMAP account: the Queue* calls of               *)
(* MailTransportCoordinator change the local store at once and journal an  *)
(* action; CheckMail and RefreshMailbox replay the journal on the server   *)
(* and then synchronise; actions are retried and cancelled.                *)
(*                                                                         *)
(* Messages are queued in the main window.  Any window may start a pass    *)
(* (a check there, a refresh in the others), and the task list of another  *)
(* window retries and cancels.  Nothing is locked.  The process may die    *)
(* at any point; the files and the server stay.                            *)
(***************************************************************************)
EXTENDS Integers, FiniteSets, Sequences

CONSTANTS
  Boxes,       \* mailboxes, here and on the server
  Trash,       \* the one of trash_mailbox_name
  Messages,    \* contents of messages
  Start,       \* Start[m]: where m is in the beginning, <<mailbox, UID>>
  Windows,     \* windows, each with its thread
  Main,        \* the main window
  Commands,    \* what the user does, of "delete", "undelete", "expunge",
               \* "move", "copy" and "fetch"
  OnDelete,    \* the account settings for Delete: "move", "mark", "erase"
  MaxUid,      \* bound on the UIDs a mailbox gives out
  MaxActions,  \* bound on the actions queued
  Synced,      \* the mailboxes that are synchronised
  Faults,      \* whether calls fail and the process dies
  None         \* nothing there

VARIABLES
  srv,      \* the server: its mailboxes and their UIDNEXT
  local,    \* local[b][i]: the record of mailbox b with id i, or None
  seen,     \* last_seen_uid of each mailbox
  journal,  \* journal[a]: the state in the file of action a, or "absent"
  queued,   \* the actions, in the order of their ids
  account,  \* what Delete does
  pc,       \* pc[w]: the next step of window w
  task,     \* the action the main window is queueing, or None
  source,   \* where the message it moves is to be erased
  todo,     \* todo[w]: the listed actions the pass of w has not reached
  cur,      \* cur[w]: the action it replays or edits, or 0
  edit,     \* edit[w]: the state to be saved by Retry or Cancel
  pulled,   \* pulled[w]: what a synchronisation has to save
  (* history, read by the properties only *)
  told,     \* actions the user was told are queued
  done,     \* actions whose commands the server has all executed
  twice,    \* ... again
  dropped,  \* actions the user last said to cancel
  late,     \* actions executed while dropped
  torn,     \* actions whose file was not written in full
  unsure,   \* actions the client may replay again after they are done
  overrun,  \* actions cancelled while a pass had them listed
  swept     \* messages the server expunged with another one

files == <<local, seen, journal, queued>>
thread == <<task, source, todo, cur, edit, pulled>>
history == <<told, done, twice, dropped, late, torn, unsure, overrun, swept>>
vars == <<srv, files, account, pc, thread, history>>

Uids == 1..MaxUid
Actions == 1..MaxActions

(* ImapMessageId: the id holds the mailbox and UID the message was fetched *)
(* under; remote_id is the UID.  Both stay as they are when the record     *)
(* moves.                                                                  *)
Ids == Boxes \X Uids

(* A message on the server, and a MessageRecord: content and \Deleted. *)
Mail == [of : Messages, deleted : BOOLEAN]

Kinds == {"move", "mark", "erase", "unmark", "expunge", "copy", "fetch"}

(* ImapActionRecord: "mark" and "erase" are kDelete, as is a "move" to the *)
(* trash; of is the message the user selected.                             *)
Action == [kind : Kinds, box : Boxes, id : Ids \cup {None}, dest : Boxes,
           of : Messages \cup {None}]

Found(m) == [of |-> m, deleted |-> FALSE]

InitialMail ==
  [b \in Boxes |-> [u \in Uids |->
     IF \E m \in Messages : Start[m] = <<b, u>>
     THEN Found(CHOOSE m \in Messages : Start[m] = <<b, u>>) ELSE None]]

(* The UIDs of a mailbox that have been given out. *)
Given(b) == Cardinality({m \in Messages : Start[m][1] = b})

ASSUME ImapJournalAssumption ==
  /\ MaxUid \in Nat /\ MaxActions \in Nat
  /\ Trash \in Boxes /\ Main \in Windows
  /\ Start \in [Messages -> Ids]
  /\ \A m \in Messages : Start[m][2] \in 1..Given(Start[m][1])
  /\ \A m, n \in Messages : Start[m] = Start[n] => m = n
  /\ OnDelete \subseteq {"move", "mark", "erase"}
  /\ Synced \subseteq Boxes /\ Faults \in BOOLEAN
  /\ None \notin Mail \cup Ids \cup Action \cup Messages

(* The account has been synchronised, and the journal is empty. *)
Init ==
  /\ srv = [mail |-> InitialMail, next |-> [b \in Boxes |-> Given(b) + 1]]
  /\ local = [b \in Boxes |-> [i \in Ids |->
                IF i[1] = b THEN InitialMail[b][i[2]] ELSE None]]
  /\ seen = [b \in Boxes |-> Given(b)]
  /\ journal = [a \in Actions |-> "absent"]
  /\ queued = <<>>
  /\ account \in OnDelete
  /\ pc = [w \in Windows |-> "idle"]
  /\ task = None /\ source = None
  /\ todo = [w \in Windows |-> {}]
  /\ cur = [w \in Windows |-> 0]
  /\ edit = [w \in Windows |-> "absent"]
  /\ pulled = [w \in Windows |-> None]
  /\ told = {} /\ done = {} /\ twice = {} /\ dropped = {} /\ late = {}
  /\ torn = {} /\ unsure = {} /\ overrun = {} /\ swept = {}

Goto(w, step) == pc' = [pc EXCEPT ![w] = step]

-----------------------------------------------------------------------------
(* The user queues an action, in the main window *)

Room == Len(queued) < MaxActions

(* The record with id i of mailbox b is selected, and the window is free. *)
Selected(b, i) == pc[Main] = "idle" /\ Room /\ local[b][i] # None

Queue(kind, b, i, d) ==
  task' = [kind |-> kind, box |-> b, id |-> i, dest |-> d, of |-> local[b][i].of]

Unqueued == UNCHANGED <<srv, seen, journal, queued, account, todo, cur, edit, pulled, history>>

(* OptimisticallyMoveMessage: the record is saved in the destination under *)
(* the same id and erased where it was.  The menus offer other mailboxes   *)
(* only; Delete moves to the trash from the trash, too.                    *)
QueueMove(b, i, d) ==
  /\ Selected(b, i)
  /\ \/ "move" \in Commands /\ d # b
     \/ "delete" \in Commands /\ account = "move" /\ d = Trash
  /\ local' = [local EXCEPT ![d][i] = Found(local[b][i].of)]
  /\ source' = b
  /\ Queue("move", b, i, d)
  /\ Goto(Main, "erase")
  /\ Unqueued

(* Mutant: the record stays where it was. *)
LeaveSource ==
  /\ pc[Main] = "erase"
  /\ source' = None
  /\ Goto(Main, "journal")
  /\ UNCHANGED <<local, task>>
  /\ Unqueued

EraseSource ==
  /\ pc[Main] = "erase"
  /\ local' = [local EXCEPT ![source][task.id] = None]
  /\ source' = None
  /\ Goto(Main, "journal")
  /\ UNCHANGED task
  /\ Unqueued

QueueCopy(b, i, d) ==
  /\ Selected(b, i)
  /\ "copy" \in Commands /\ d # b
  /\ local' = [local EXCEPT ![d][i] = local[b][i]]
  /\ Queue("copy", b, i, d)
  /\ Goto(Main, "journal")
  /\ UNCHANGED source
  /\ Unqueued

(* QueueDeleteMessage, when it does not move to the trash. *)
QueueDelete(b, i) ==
  /\ Selected(b, i)
  /\ "delete" \in Commands
  /\ \/ /\ account = "mark"
        /\ local' = [local EXCEPT ![b][i].deleted = TRUE]
     \/ /\ account = "erase"
        /\ local' = [local EXCEPT ![b][i] = None]
  /\ Queue(account, b, i, b)
  /\ Goto(Main, "journal")
  /\ UNCHANGED source
  /\ Unqueued

QueueUndelete(b, i) ==
  /\ Selected(b, i)
  /\ "undelete" \in Commands
  /\ local' = [local EXCEPT ![b][i].deleted = FALSE]
  /\ Queue("unmark", b, i, b)
  /\ Goto(Main, "journal")
  /\ UNCHANGED source
  /\ Unqueued

(* QueueFetch*: nothing is changed here before the replay. *)
QueueFetch(b, i) ==
  /\ Selected(b, i)
  /\ "fetch" \in Commands
  /\ Queue("fetch", b, i, b)
  /\ Goto(Main, "journal")
  /\ UNCHANGED <<local, source>>
  /\ Unqueued

(* QueueExpungeMailbox erases the records marked deleted, one by one; when *)
(* one cannot be erased the action is not queued.                          *)
QueueExpunge(b) ==
  LET marked == {i \in Ids : local[b][i] # None /\ local[b][i].deleted}
  IN /\ pc[Main] = "idle" /\ Room
     /\ "expunge" \in Commands
     /\ marked # {}
     /\ \E gone \in SUBSET marked :
          /\ local' = [local EXCEPT ![b] =
                         [i \in Ids |-> IF i \in gone THEN None ELSE local[b][i]]]
          /\ \/ /\ gone = marked
                /\ task' = [kind |-> "expunge", box |-> b, id |-> None, dest |-> b, of |-> None]
                /\ Goto(Main, "journal")
             \/ /\ Faults /\ gone # marked
                /\ UNCHANGED <<task, pc>>
     /\ UNCHANGED source
     /\ Unqueued

(* A save or an erasure fails: the call returns false. *)
QueueFails ==
  /\ Faults
  /\ pc[Main] \in {"erase", "journal"}
  /\ task' = None /\ source' = None
  /\ Goto(Main, "idle")
  /\ UNCHANGED <<local>>
  /\ Unqueued

(* SaveAction of the new action.  A file that cannot be written in full is *)
(* reported as saved, and read as an action that does nothing.             *)
Journal ==
  LET a == Len(queued) + 1
  IN /\ pc[Main] = "journal"
     /\ queued' = Append(queued, task)
     /\ told' = told \cup {a}
     /\ \/ journal' = [journal EXCEPT ![a] = "waiting"] /\ UNCHANGED torn
        \/ Faults /\ journal' = [journal EXCEPT ![a] = "void"] /\ torn' = torn \cup {a}
     /\ task' = None
     /\ Goto(Main, "idle")
     /\ UNCHANGED <<srv, local, seen, account, source, todo, cur, edit, pulled,
                    done, twice, dropped, late, unsure, overrun, swept>>

-----------------------------------------------------------------------------
(* The server *)

(* UID COPY, and the commands below, do nothing for a UID that is gone. *)
Copied(s, b, u, d) ==
  IF s.mail[b][u] = None THEN s
  ELSE [mail |-> [s.mail EXCEPT ![d][s.next[d]] = s.mail[b][u]],
        next |-> [s.next EXCEPT ![d] = @ + 1]]

Erased(s, b, u) == [s EXCEPT !.mail[b][u] = None]

(* UID STORE of \Deleted. *)
Stored(s, b, u, flag) ==
  IF s.mail[b][u] = None THEN s ELSE [s EXCEPT !.mail[b][u].deleted = flag]

(* EXPUNGE erases every message marked deleted. *)
Expunged(s, b) ==
  [s EXCEPT !.mail[b] = [u \in Uids |->
     IF s.mail[b][u] # None /\ s.mail[b][u].deleted THEN None ELSE s.mail[b][u]]]

StoreAndExpunge(s, b, u) ==
  LET marked == Stored(s, b, u, TRUE) IN <<marked, Expunged(marked, b)>>

(* Mutant: without UID MOVE, the UID is deleted in the destination. *)
CoursesInDestination(a) ==
  LET u == IF a.id = None THEN 0 ELSE a.id[2]
      copied == Copied(srv, a.box, u, a.dest)
  IN IF a.kind = "move" THEN {<<copied>> \o StoreAndExpunge(copied, a.dest, u)}
     ELSE {<<srv>>}

(* The server after each command of an action, for each course it can take *)
(* in ReplaySingleImapAction: a move is UID MOVE, or else COPY, STORE and  *)
(* EXPUNGE.                                                                *)
Courses(a) ==
  LET u == IF a.id = None THEN 0 ELSE a.id[2]
      copied == Copied(srv, a.box, u, a.dest)
  IN CASE a.kind = "move" -> {<<Erased(copied, a.box, u)>>,
                              <<copied>> \o StoreAndExpunge(copied, a.box, u)}
       [] a.kind = "copy" -> {<<copied>>}
       [] a.kind = "mark" -> {<<Stored(srv, a.box, u, TRUE)>>}
       [] a.kind = "erase" -> {StoreAndExpunge(srv, a.box, u)}
       [] a.kind = "unmark" -> {<<Stored(srv, a.box, u, FALSE)>>}
       [] a.kind = "expunge" -> {<<Expunged(srv, a.box)>>}
       [] a.kind = "fetch" -> {<<srv>>}

-----------------------------------------------------------------------------
(* A pass of CheckMail or RefreshMailbox *)

Least(S) == CHOOSE a \in S : \A b \in S : a <= b

(* The actions a pass of another window has listed and not settled. *)
Held(w) ==
  UNION {todo[v] \cup {cur[v]} : v \in {v \in Windows \ {w} : pc[v] \in {"next", "run", "ok", "failed"}}}

(* Mutant: the state of an action is not looked at. *)
ListedWithCancelled == {a \in Actions : journal[a] \in {"waiting", "cancelled"}}

Listed == {a \in Actions : journal[a] = "waiting"}

(* ListActions: the pass works on what it reads here. *)
StartPass(w) ==
  /\ pc[w] = "idle"
  /\ todo' = [todo EXCEPT ![w] = Listed]
  /\ unsure' = unsure \cup (Listed \cap Held(w))
  /\ Goto(w, "next")
  /\ UNCHANGED <<srv, files, account, task, source, cur, edit, pulled,
                 told, done, twice, dropped, late, torn, overrun, swept>>

(* SaveAction, its result ignored: the whole record is written.  The write *)
(* may fail before or after the old one is gone.                           *)
Save(a, state) ==
  \/ journal' = [journal EXCEPT ![a] = state] /\ UNCHANGED torn
  \/ Faults /\ UNCHANGED <<journal, torn>>
  \/ Faults /\ journal' = [journal EXCEPT ![a] = "void"] /\ torn' = torn \cup {a}

(* The next action is saved as running. *)
MarkRunning(w) ==
  LET a == Least(todo[w])
  IN /\ pc[w] = "next"
     /\ todo[w] # {}
     /\ cur' = [cur EXCEPT ![w] = a]
     /\ todo' = [todo EXCEPT ![w] = @ \ {a}]
     /\ Save(a, "waiting")
     /\ Goto(w, "run")
     /\ UNCHANGED <<srv, local, seen, queued, account, task, source, edit, pulled,
                    told, done, twice, dropped, late, unsure, overrun, swept>>

(* What a replayed fetch saves: the message the server has under the UID,  *)
(* under the id made from it.                                              *)
Refetched(a) ==
  IF a.kind = "fetch" THEN [local EXCEPT ![a.box][<<a.box, a.id[2]>>] = srv.mail[a.box][a.id[2]]]
  ELSE local

(* The server has what a fetch asks for, or room for one more message. *)
Possible(a) ==
  /\ a.kind = "fetch" => srv.mail[a.box][a.id[2]] # None
  /\ a.kind \in {"move", "copy"} => srv.next[a.dest] <= MaxUid

(* History: the server has begun to execute the action. *)
Record(w, a) ==
  /\ done' = done \cup {cur[w]}
  /\ twice' = twice \cup ({cur[w]} \cap done)
  /\ late' = late \cup ({cur[w]} \cap dropped)
  /\ swept' = swept \cup
       {m \in Messages \ {a.of} : a.kind # "expunge" /\ \E u \in Uids :
          /\ srv.mail[a.box][u] # None /\ srv'.mail[a.box][u] = None
          /\ srv.mail[a.box][u].of = m}

(* The session carries out all the commands and has every answer. *)
Succeed(w) ==
  LET a == queued[cur[w]]
  IN /\ pc[w] = "run"
     /\ Possible(a)
     /\ \E c \in Courses(a) : srv' = c[Len(c)]
     /\ local' = Refetched(a)
     /\ Goto(w, "ok")
     /\ Record(w, a)
     /\ UNCHANGED <<seen, journal, queued, account, thread, told, dropped, torn, unsure, overrun>>

(* The server refuses the first command, or cannot be reached. *)
Refused(w) ==
  /\ pc[w] = "run"
  /\ Faults \/ ~Possible(queued[cur[w]])
  /\ Goto(w, "failed")
  /\ UNCHANGED <<srv, files, account, thread, history>>

(* The session fails on a later command, or on the answer to one. *)
BreakOff(w) ==
  LET a == queued[cur[w]]
  IN /\ Faults
     /\ pc[w] = "run"
     /\ Possible(a)
     /\ \E c \in Courses(a) : \E n \in 1..Len(c) : srv' = c[n]
     /\ Goto(w, "failed")
     /\ Record(w, a)
     /\ unsure' = unsure \cup {cur[w]}
     /\ UNCHANGED <<files, account, thread, told, dropped, torn, overrun>>

(* Mutant: the action is saved as it was, not removed. *)
SaveDone(w) ==
  /\ pc[w] = "ok"
  /\ Save(cur[w], "waiting")
  /\ cur' = [cur EXCEPT ![w] = 0]
  /\ Goto(w, "next")
  /\ UNCHANGED <<srv, local, seen, queued, account, task, source, todo, edit, pulled,
                 told, done, twice, dropped, late, unsure, overrun, swept>>

(* Success: DeleteAction, its result ignored. *)
Remove(w) ==
  /\ pc[w] = "ok"
  /\ \/ journal' = [journal EXCEPT ![cur[w]] = "absent"] /\ UNCHANGED unsure
     \/ Faults /\ unsure' = unsure \cup {cur[w]} /\ UNCHANGED journal
  /\ cur' = [cur EXCEPT ![w] = 0]
  /\ Goto(w, "next")
  /\ UNCHANGED <<srv, local, seen, queued, account, task, source, todo, edit, pulled,
                 told, done, twice, dropped, late, torn, overrun, swept>>

(* Mutant: a failed action is removed. *)
GiveUp(w) ==
  /\ pc[w] = "failed"
  /\ journal' = [journal EXCEPT ![cur[w]] = "absent"]
  /\ cur' = [cur EXCEPT ![w] = 0]
  /\ Goto(w, "next")
  /\ UNCHANGED <<srv, local, seen, queued, account, task, source, todo, edit, pulled, history>>

(* Failure: the action is saved as failed, or as pending after a stop. *)
Keep(w) ==
  /\ pc[w] = "failed"
  /\ Save(cur[w], "waiting")
  /\ cur' = [cur EXCEPT ![w] = 0]
  /\ Goto(w, "next")
  /\ UNCHANGED <<srv, local, seen, queued, account, task, source, todo, edit, pulled,
                 told, done, twice, dropped, late, unsure, overrun, swept>>

(* The pass ends here: the user stopped it, or it has nothing to           *)
(* synchronise.                                                            *)
EndPass(w) ==
  /\ pc[w] = "next"
  /\ todo' = [todo EXCEPT ![w] = {}]
  /\ Goto(w, "idle")
  /\ UNCHANGED <<srv, files, account, task, source, cur, edit, pulled, history>>

-----------------------------------------------------------------------------
(* The synchronisation of a mailbox, after the replay *)

Highest(S) == CHOOSE u \in S : \A v \in S : v <= u

(* UID FETCH from:*.  The range always holds the highest UID. *)
Answered(b, from) ==
  LET present == {u \in Uids : srv.mail[b][u] # None}
  IN {u \in present : u >= from \/ u = Highest(present)}

(* Mutant: the next UID of the server is taken for the last one seen. *)
SynchroniseToNext(w, b, full) ==
  LET new == Answered(b, IF full THEN 1 ELSE seen[b] + 1)
  IN /\ pc[w] = "next"
     /\ todo[w] = {}
     /\ pulled' = [pulled EXCEPT ![w] = [box |-> b, top |-> srv.next[b],
                                        mail |-> [u \in new |-> srv.mail[b][u]]]]
     /\ Goto(w, "state")
     /\ UNCHANGED <<srv, files, account, task, source, todo, cur, edit, history>>

(* LoadImapState and SyncMailbox; a full resync asks for everything. *)
Synchronise(w, b, full) ==
  LET last == IF full THEN 0 ELSE seen[b]
      new == Answered(b, last + 1)
  IN /\ pc[w] = "next"
     /\ todo[w] = {}
     /\ pulled' = [pulled EXCEPT ![w] = [box |-> b, top |-> Highest(new \cup {last}),
                                        mail |-> [u \in new |-> srv.mail[b][u]]]]
     /\ Goto(w, "state")
     /\ UNCHANGED <<srv, files, account, task, source, todo, cur, edit, history>>

(* SaveImapState, its result ignored, before the messages.  A state file   *)
(* that is not written in full reads as 0.                                 *)
SaveSeen(w) ==
  /\ pc[w] = "state"
  /\ \E uid \in {pulled[w].top} \cup (IF Faults THEN {0, seen[pulled[w].box]} ELSE {}) :
       seen' = [seen EXCEPT ![pulled[w].box] = uid]
  /\ Goto(w, "store")
  /\ UNCHANGED <<srv, local, journal, queued, account, thread, history>>

(* Mutant: the message stays in the list. *)
StoreFirst(w) ==
  LET got == pulled[w]
      u == Least(DOMAIN got.mail)
  IN /\ pc[w] = "store"
     /\ DOMAIN got.mail # {}
     /\ local' = [local EXCEPT ![got.box][<<got.box, u>>] = got.mail[u]]
     /\ UNCHANGED <<srv, seen, journal, queued, account, pc, thread, history>>

(* SaveMessage of the next message, its result ignored. *)
StoreNext(w) ==
  LET got == pulled[w]
      u == Least(DOMAIN got.mail)
  IN /\ pc[w] = "store"
     /\ DOMAIN got.mail # {}
     /\ \/ local' = [local EXCEPT ![got.box][<<got.box, u>>] = got.mail[u]]
        \/ Faults /\ UNCHANGED local
     /\ pulled' = [pulled EXCEPT ![w].mail = [v \in DOMAIN got.mail \ {u} |-> got.mail[v]]]
     /\ UNCHANGED <<srv, seen, journal, queued, account, pc, task, source, todo, cur, edit, history>>

EndSync(w) ==
  /\ pc[w] = "store"
  /\ DOMAIN pulled[w].mail = {}
  /\ pulled' = [pulled EXCEPT ![w] = None]
  /\ Goto(w, "idle")
  /\ UNCHANGED <<srv, files, account, task, source, todo, cur, edit, history>>

-----------------------------------------------------------------------------
(* Retry and Cancel in the task list, and crashes *)

(* GetAction. *)
ReadAction(w, a, state) ==
  /\ w # Main
  /\ pc[w] = "idle"
  /\ journal[a] \in {"waiting", "cancelled"}
  /\ cur' = [cur EXCEPT ![w] = a]
  /\ edit' = [edit EXCEPT ![w] = state]
  /\ Goto(w, "edit")
  /\ UNCHANGED <<srv, files, account, task, source, todo, pulled, history>>

(* SaveAction of what was read, with the new state. *)
SaveEdit(w) ==
  LET a == cur[w]
  IN /\ pc[w] = "edit"
     /\ Save(a, edit[w])
     /\ dropped' = IF journal'[a] = "cancelled" THEN dropped \cup {a}
                   ELSE IF edit[w] = "waiting" THEN dropped \ {a} ELSE dropped
     /\ overrun' = IF edit[w] = "cancelled" THEN overrun \cup ({a} \cap Held(w)) ELSE overrun
     /\ unsure' = IF journal[a] = "absent" THEN unsure \cup {a} ELSE unsure
     /\ cur' = [cur EXCEPT ![w] = 0]
     /\ edit' = [edit EXCEPT ![w] = "absent"]
     /\ Goto(w, "idle")
     /\ UNCHANGED <<srv, local, seen, queued, account, task, source, todo, pulled,
                    told, done, twice, late, swept>>

(* Actions whose file a window is about to write. *)
BeingSaved ==
  {cur[w] : w \in {w \in Windows : pc[w] \in {"failed", "edit"}}}
  \cup {Least(todo[w]) : w \in {w \in Windows : pc[w] = "next" /\ todo[w] # {}}}

(* The process dies.  A file that was just being written is empty. *)
Crash ==
  /\ Faults
  /\ \E w \in Windows : pc[w] # "idle"
  /\ \E empty \in SUBSET BeingSaved :
       /\ journal' = [a \in Actions |-> IF a \in empty THEN "void" ELSE journal[a]]
       /\ torn' = torn \cup empty
  /\ unsure' = unsure \cup {cur[w] : w \in {w \in Windows : pc[w] = "ok"}}
  /\ pc' = [w \in Windows |-> "idle"]
  /\ task' = None /\ source' = None
  /\ todo' = [w \in Windows |-> {}]
  /\ cur' = [w \in Windows |-> 0]
  /\ edit' = [w \in Windows |-> "absent"]
  /\ pulled' = [w \in Windows |-> None]
  /\ UNCHANGED <<srv, local, seen, queued, account, told, done, twice, dropped, late,
                 overrun, swept>>

-----------------------------------------------------------------------------
QueueNext ==
  \/ \E b \in Boxes, i \in Ids :
       \/ \E d \in Boxes : QueueMove(b, i, d) \/ QueueCopy(b, i, d)
       \/ QueueDelete(b, i) \/ QueueUndelete(b, i) \/ QueueFetch(b, i)
  \/ \E b \in Boxes : QueueExpunge(b)

(* What window w does next, once it has begun something and nothing fails. *)
Advance(w) ==
  \/ MarkRunning(w) \/ Succeed(w) \/ Remove(w) \/ Keep(w)
  \/ todo[w] = {} /\ EndPass(w)
  \/ SaveSeen(w) \/ StoreNext(w) \/ EndSync(w) \/ SaveEdit(w)
  \/ w = Main /\ (EraseSource \/ Journal)
  \/ Refused(w) /\ ~Possible(queued[cur[w]])

Next ==
  \/ QueueNext \/ QueueFails \/ Crash
  \/ \E w \in Windows :
       \/ StartPass(w) \/ Advance(w) \/ Refused(w) \/ BreakOff(w) \/ EndPass(w)
       \/ \E b \in Synced, full \in BOOLEAN : Synchronise(w, b, full)
       \/ \E a \in 1..Len(queued), state \in {"waiting", "cancelled"} : ReadAction(w, a, state)

Spec == Init /\ [][Next]_vars

(* Every wait on the server has a timeout, and every thread runs on. *)
FairSpec == Spec /\ \A w \in Windows : WF_vars(Advance(w))

-----------------------------------------------------------------------------
(* Properties *)

(* Every variable holds a value the code can store in it; last_seen_uid is *)
(* a UID the server has given out.                                         *)
TypeOK ==
  /\ srv.mail \in [Boxes -> [Uids -> Mail \cup {None}]]
  /\ srv.next \in [Boxes -> 1..(MaxUid + 1)]
  /\ local \in [Boxes -> [Ids -> Mail \cup {None}]]
  /\ seen \in [Boxes -> 0..MaxUid] /\ \A b \in Boxes : seen[b] < srv.next[b]
  /\ journal \in [Actions -> {"absent", "waiting", "cancelled", "void"}]
  /\ queued \in Seq(Action) /\ Len(queued) <= MaxActions
  /\ account \in OnDelete
  /\ pc \in [Windows -> {"idle", "erase", "journal", "next", "run", "ok", "failed",
                         "state", "store", "edit"}]
  /\ task \in Action \cup {None} /\ source \in Boxes \cup {None}
  /\ todo \in [Windows -> SUBSET (1..Len(queued))]
  /\ cur \in [Windows -> 0..Len(queued)]
  /\ edit \in [Windows -> {"absent", "waiting", "cancelled"}]
  /\ \A w \in Windows : pulled[w] # None =>
       /\ pulled[w].box \in Boxes /\ pulled[w].top \in 0..MaxUid
       /\ \A u \in DOMAIN pulled[w].mail : pulled[w].mail[u] \in Mail
  /\ told \cup done \cup twice \cup dropped \cup late \cup torn \cup unsure \cup overrun
       \subseteq Actions
  /\ swept \subseteq Messages

(* An action the user was told is queued stays in the journal until the    *)
(* server has executed it, unless its file was not written in full.        *)
ActionsKept ==
  \A a \in told : journal[a] \in {"waiting", "cancelled"} \/ a \in done \/ a \in torn

(* The server begins to execute an action a second time only if an answer  *)
(* or the removal of the action failed, the process died between the two,  *)
(* another pass had the action listed, or Retry or Cancel saved what had   *)
(* been removed.                                                           *)
ExecutedOnce == twice \subseteq unsure

(* An action is not executed after the user cancelled it, unless a pass    *)
(* had it listed by then.                                                  *)
CancelHolds == late \subseteq overrun

(* The record is not in the mailbox it was fetched from: its remote_id is  *)
(* a UID of that one.                                                      *)
Displaced(a) == a.id # None /\ a.id[1] # a.box

(* A replayed action changes no message on the server but the one the user *)
(* selected, and what EXPUNGE takes with it, unless the record had been    *)
(* moved or copied here; and a copy of that message is all it adds.        *)
OnItsMessage ==
  [][\A b \in Boxes, u \in Uids : srv'.mail[b][u] # srv.mail[b][u] =>
       \E w \in Windows : pc[w] = "run" /\
         LET a == queued[cur[w]] IN
           \/ Displaced(a)
           \/ a.of = (IF srv.mail[b][u] = None THEN srv'.mail[b][u] ELSE srv.mail[b][u]).of
           \/ /\ srv.mail[b][u] # None /\ srv.mail[b][u].deleted
              /\ a.kind \in {"move", "erase", "expunge"}]_vars

(* Nothing is under way and nothing is left to replay. *)
Settled == Listed = {} /\ \A w \in Windows : pc[w] = "idle"

(* Message m is in the same mailboxes here and on the server. *)
Agrees(m) ==
  {b \in Boxes : \E i \in Ids : local[b][i] # None /\ local[b][i].of = m} =
  {b \in Boxes : \E u \in Uids : srv.mail[b][u] # None /\ srv.mail[b][u].of = m}

InTrash(a) == a.kind = "move" /\ a.dest = a.box

(* With one window and no failures, the local store agrees with the server *)
(* whenever the journal has been replayed, unless an action was queued for *)
(* a moved or copied record, and except on messages deleted in the trash,  *)
(* those with an action, or any expunge, queued after a fetch, a move or a *)
(* copy (which leave a record behind that has no message), and what an     *)
(* EXPUNGE took along.                                                     *)
ReplayAgrees ==
  Settled /\ (\A a \in 1..Len(queued) : ~Displaced(queued[a])) =>
    \A m \in Messages \ swept :
      \/ Agrees(m)
      \/ \E a, b \in 1..Len(queued) :
           /\ queued[a].of = m /\ queued[b].of \in {m, None}
           /\ InTrash(queued[a]) \/ (queued[a].kind \in {"fetch", "move", "copy"} /\ a < b)

(* Every pass, queueing and edit comes to an end. *)
WorkEnds == \A w \in Windows : pc[w] # "idle" ~> pc[w] = "idle"
=============================================================================
