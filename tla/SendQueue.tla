------------------------------ MODULE SendQueue ------------------------------
(***************************************************************************)
(* The outgoing queue: MailTransportCoordinator::SendQueuedInternal, the   *)
(* user operations on the Out mailbox that run in other windows (each     *)
(* Haiku window is a thread of its own), the SMTP server, and a crash of   *)
(* the application at any point.                                          *)
(*                                                                         *)
(* A pass lists Out once, then works through that list from its private    *)
(* copy: what other windows do to Out meanwhile is not seen by the pass.   *)
(* One SaveMessage or DeleteMessage is one step here, and may fail without *)
(* effect; MailStore models what such a call does to the files.            *)
(***************************************************************************)
EXTENDS FiniteSets

CONSTANTS
  Msgs,        \* ids of the messages the user composes, one id each
  Workers,     \* windows whose thread may run SendQueuedInternal
  KeepCopies,  \* messages composed with compose_options.keep_copies
  NonMime,     \* messages whose attachment_encoding is BinHex or Uuencode
  None         \* no message, no record

VARIABLES
  out,        \* the Out mailbox on disk: out[m] is the record of m, or None
  sentBox,    \* ids with a copy in the Sent mailbox
  snap,       \* snap[w][m]: the record of m in the list w has not reached yet
  cur,        \* cur[w]: the message w is processing, or None
  pc,         \* pc[w]: the next step of w
  edit,       \* the write a user operation has prepared: [msg, rec], or None
  accepted,   \* ids the SMTP server has taken responsibility for
  (* history of the environment, read by the properties only *)
  duplicated, \* ids the server has taken more than once
  excused,    \* ids for which an event that permits a second send happened
  removed     \* ids the user deleted from Out

vars == <<out, sentBox, snap, cur, pc, edit, accepted, duplicated, excused, removed>>

workerVars == <<snap, cur, pc>>
serverVars == <<accepted, duplicated>>

Delivery == {"Queued", "Sending", "Failed", "Sent"}

(* What the queue reads of a MessageRecord.  legacy is "waiting" for the   *)
(* legacy statuses Queued, TimeQueued and Sendable, "other" for the rest;  *)
(* due is scheduled_send_at = 0 or already past.                           *)
Legacy == {"waiting", "other"}
Record == [delivery : Delivery, legacy : Legacy, due : BOOLEAN]

ASSUME SendQueueAssumption ==
  /\ KeepCopies \subseteq Msgs
  /\ NonMime \subseteq Msgs
  /\ None \notin Msgs \cup Record

Rec(delivery, legacy, due) ==
  [delivery |-> delivery, legacy |-> legacy, due |-> due]

Steps == {"idle", "next", "transmit", "reject", "failed", "sent", "copy", "erase"}

(* Mutant: a record left in Sending counts as sendable too. *)
EligibleWithSending(r) == r # None /\ r.delivery \in {"Queued", "Sending", "Failed"}

(* A listed record that SendQueuedInternal tries to send. *)
Eligible(r) == r # None /\ r.delivery \in {"Queued", "Failed"}

NothingListed == [m \in Msgs |-> None]

Init ==
  /\ out = [m \in Msgs |-> None]
  /\ sentBox = {}
  /\ snap = [w \in Workers |-> NothingListed]
  /\ cur = [w \in Workers |-> None]
  /\ pc = [w \in Workers |-> "idle"]
  /\ edit = None
  /\ accepted = {}
  /\ duplicated = {}
  /\ excused = {}
  /\ removed = {}

-----------------------------------------------------------------------------
(* The user's operations on Out *)

(* QueueComposeMessage: a composed message, past validation, enters Out.   *)
QueueMessage(m) ==
  /\ out[m] = None
  /\ m \notin sentBox \cup removed
  /\ out' = [out EXCEPT ![m] = Rec("Queued", "waiting", TRUE)]
  /\ UNCHANGED <<sentBox, workerVars, serverVars, excused, edit, removed>>

(* Change Queueing.  The menu is enabled for a record that is Queued or    *)
(* Failed, or whose legacy status is a waiting one: a record in Sending on *)
(* its first attempt qualifies, one being retried does not.                *)
CanChangeQueueing(r) ==
  r # None /\ (r.delivery \in {"Queued", "Failed"} \/ r.legacy = "waiting")

(* The record a user operation would write, from the one it has read:      *)
(* UpdateQueuedMessageTiming queues it again, now or for later;            *)
(* SetLegacyStatus changes the legacy status alone.                        *)
Retimed == {Rec("Queued", "waiting", TRUE), Rec("Queued", "waiting", FALSE)}

EditsOf(r) ==
  {e \in Retimed : CanChangeQueueing(r)} \cup {[r EXCEPT !.legacy = l] : l \in Legacy}

(* Both are GetMessage, an update of the copy, and SaveMessage in one      *)
(* handler: a pass in another window can run between the two calls.        *)
ReadForEdit(m) ==
  /\ edit = None
  /\ out[m] # None
  /\ \E r \in EditsOf(out[m]) : edit' = [msg |-> m, rec |-> r]
  /\ UNCHANGED <<out, sentBox, workerVars, serverVars, excused, removed>>

(* The edit makes a message sendable again that was not when it is saved.  *)
PutsBack(m, r) == Eligible(r) /\ ~Eligible(out[m])

SaveEdit ==
  /\ edit # None
  /\ edit' = None
  /\ \/ /\ out' = [out EXCEPT ![edit.msg] = edit.rec]
        /\ excused' = IF PutsBack(edit.msg, edit.rec)
                      THEN excused \cup {edit.msg} ELSE excused
     \/ UNCHANGED <<out, excused>>
  /\ UNCHANGED <<sentBox, workerVars, serverVars, removed>>

(* The user deletes a message from Out, whatever its state. *)
DeleteFromOut(m) ==
  /\ out[m] # None
  /\ out' = [out EXCEPT ![m] = None]
  /\ removed' = removed \cup {m}
  /\ UNCHANGED <<sentBox, workerVars, serverVars, edit, excused>>

(* The scheduled time passes, for the stored record or for the one a pass  *)
(* holds in its list: after a reschedule the two differ.                   *)
TimePasses(m) ==
  /\ \/ /\ out[m] # None
        /\ ~out[m].due
        /\ out' = [out EXCEPT ![m].due = TRUE]
        /\ UNCHANGED snap
     \/ \E w \in Workers :
          /\ snap[w][m] # None
          /\ ~snap[w][m].due
          /\ snap' = [snap EXCEPT ![w][m].due = TRUE]
          /\ UNCHANGED out
  /\ UNCHANGED <<sentBox, cur, pc, serverVars, excused, edit, removed>>

-----------------------------------------------------------------------------
(* One pass of SendQueuedInternal in window w *)

(* Messages some other pass has listed and may still send. *)
ListedElsewhere(w, m) == \E v \in Workers \ {w} : Eligible(snap[v][m])

(* ListMessages("out"): the pass works from this copy to its end. *)
StartPass(w) ==
  /\ pc[w] = "idle"
  /\ snap' = [snap EXCEPT ![w] = out]
  /\ pc' = [pc EXCEPT ![w] = "next"]
  /\ excused' = excused \cup {m \in Msgs : Eligible(out[m]) /\ ListedElsewhere(w, m)}
  /\ UNCHANGED <<out, sentBox, cur, serverVars, edit, removed>>

(* Mutant: the skipped record is not passed over. *)
SkipInPlace(w, m) ==
  /\ pc[w] = "next"
  /\ snap[w][m] # None
  /\ UNCHANGED vars

(* continue: not a queued record, scheduled for later, or its account is   *)
(* filtered out, unknown, or has no usable secret (any record may be).     *)
SkipMessage(w, m) ==
  /\ pc[w] = "next"
  /\ snap[w][m] # None
  /\ snap' = [snap EXCEPT ![w][m] = None]
  /\ UNCHANGED <<out, sentBox, cur, pc, serverVars, excused, edit, removed>>

(* SaveMessage replaces or inserts the record; with its result ignored, a  *)
(* failed save is no save.  A failed save leaves the old state on disk.    *)
SaveToOut(m, r) ==
  \/ /\ out' = [out EXCEPT ![m] = r]
     /\ UNCHANGED excused
  \/ /\ UNCHANGED out
     /\ excused' = excused \cup {m}

(* Mutant: the record is not marked before the message is sent. *)
SendUnmarked(w, m) ==
  /\ pc[w] = "next"
  /\ Eligible(snap[w][m])
  /\ snap[w][m].due
  /\ snap' = [snap EXCEPT ![w][m] = None]
  /\ cur' = [cur EXCEPT ![w] = m]
  /\ pc' = [pc EXCEPT ![w] = IF m \in NonMime THEN "reject" ELSE "transmit"]
  /\ UNCHANGED <<out, sentBox, serverVars, edit, excused, removed>>

(* The message is marked Sending from the listed copy, before it is sent. *)
MarkSending(w, m) ==
  LET r == snap[w][m]
  IN /\ pc[w] = "next"
     /\ Eligible(r)
     /\ r.due
     /\ SaveToOut(m, Rec("Sending", r.legacy, TRUE))
     /\ snap' = [snap EXCEPT ![w][m] = None]
     /\ cur' = [cur EXCEPT ![w] = m]
     /\ pc' = [pc EXCEPT ![w] = IF m \in NonMime THEN "reject" ELSE "transmit"]
     /\ UNCHANGED <<sentBox, serverVars, edit, removed>>

Goto(w, step) == pc' = [pc EXCEPT ![w] = step]

(* End of one iteration of the loop. *)
NextMessage(w) ==
  /\ cur' = [cur EXCEPT ![w] = None]
  /\ Goto(w, "next")

(* The server answers the final dot with 250: it has the message. *)
ServerAccepts(m) ==
  /\ accepted' = accepted \cup {m}
  /\ duplicated' = IF m \in accepted THEN duplicated \cup {m} ELSE duplicated

(* Mutant: the reply to the final dot is not looked at. *)
TransmitIgnoringReply(w) ==
  /\ pc[w] = "transmit"
  /\ ServerAccepts(cur[w]) \/ UNCHANGED serverVars
  /\ Goto(w, "sent")
  /\ UNCHANGED <<out, sentBox, snap, cur, excused, edit, removed>>

(* SmtpSession::SendMessage succeeds, is refused at some command, or loses *)
(* the connection after the server took the message.  The refresh of an    *)
(* OAuth token and second attempt follow a refused authentication only,    *)
(* before any message was offered: the outcome is that of the last one.    *)
Transmit(w) ==
  LET m == cur[w] IN
  /\ pc[w] = "transmit"
  /\ \/ /\ ServerAccepts(m)
        /\ Goto(w, "sent")
        /\ UNCHANGED excused
     \/ /\ ServerAccepts(m)
        /\ Goto(w, "failed")
        /\ excused' = excused \cup {m}
     \/ /\ Goto(w, "failed")
        /\ UNCHANGED <<serverVars, excused>>
  /\ UNCHANGED <<out, sentBox, snap, cur, edit, removed>>

(* Mutant: the legacy status is stored as the delivery state. *)
MarkUnsendable(w) ==
  /\ pc[w] \in {"reject", "failed"}
  /\ SaveToOut(cur[w], Rec("Unsendable", "other", TRUE))
  /\ NextMessage(w)
  /\ UNCHANGED <<sentBox, snap, serverVars, edit, removed>>

(* A refused message, or one with an encoding the sender lacks, is Failed. *)
MarkFailed(w) ==
  /\ pc[w] \in {"reject", "failed"}
  /\ SaveToOut(cur[w], Rec("Failed", "other", TRUE))
  /\ NextMessage(w)
  /\ UNCHANGED <<sentBox, snap, serverVars, edit, removed>>

SentRecord == Rec("Sent", "other", TRUE)

(* keep_copies: the record in Out becomes Sent, then a copy goes to Sent.  *)
MarkSentInOut(w) ==
  /\ pc[w] = "sent"
  /\ cur[w] \in KeepCopies
  /\ SaveToOut(cur[w], SentRecord)
  /\ Goto(w, "copy")
  /\ UNCHANGED <<sentBox, snap, cur, serverVars, edit, removed>>

(* Mutant: the record leaves Out with the copy. *)
MoveToSent(w) ==
  /\ pc[w] = "copy"
  /\ sentBox' = sentBox \cup {cur[w]} \/ UNCHANGED sentBox
  /\ out' = [out EXCEPT ![cur[w]] = None]
  /\ NextMessage(w)
  /\ UNCHANGED <<snap, serverVars, excused, edit, removed>>

CopyToSent(w) ==
  /\ pc[w] = "copy"
  /\ \/ sentBox' = sentBox \cup {cur[w]}
     \/ UNCHANGED sentBox
  /\ NextMessage(w)
  /\ UNCHANGED <<out, snap, serverVars, excused, edit, removed>>

(* Mutant: the deletion does not wait for the save to succeed. *)
SaveInSentUnchecked(w) ==
  /\ pc[w] = "sent"
  /\ cur[w] \notin KeepCopies
  /\ sentBox' = sentBox \cup {cur[w]} \/ UNCHANGED sentBox
  /\ Goto(w, "erase")
  /\ UNCHANGED <<out, snap, cur, serverVars, excused, edit, removed>>

(* Otherwise the message is saved in Sent and, when that worked, deleted   *)
(* from Out; the deletion may fail too.                                    *)
SaveInSent(w) ==
  /\ pc[w] = "sent"
  /\ cur[w] \notin KeepCopies
  /\ \/ /\ sentBox' = sentBox \cup {cur[w]}
        /\ Goto(w, "erase")
        /\ UNCHANGED cur
     \/ /\ NextMessage(w)
        /\ UNCHANGED sentBox
  /\ UNCHANGED <<out, snap, serverVars, excused, edit, removed>>

EraseFromOut(w) ==
  /\ pc[w] = "erase"
  /\ \/ out' = [out EXCEPT ![cur[w]] = None]
     \/ UNCHANGED out
  /\ NextMessage(w)
  /\ UNCHANGED <<sentBox, snap, serverVars, excused, edit, removed>>

EndPass(w) ==
  /\ pc[w] = "next"
  /\ snap[w] = NothingListed
  /\ Goto(w, "idle")
  /\ UNCHANGED <<out, sentBox, snap, cur, serverVars, excused, edit, removed>>

-----------------------------------------------------------------------------
(* The process dies; the mailboxes stay as they are on disk and no start-  *)
(* up code looks at records left in Sending.                               *)
Crash ==
  /\ edit # None \/ \E w \in Workers : pc[w] # "idle"
  /\ snap' = [w \in Workers |-> NothingListed]
  /\ cur' = [w \in Workers |-> None]
  /\ pc' = [w \in Workers |-> "idle"]
  /\ edit' = None
  /\ UNCHANGED <<out, sentBox, serverVars, excused, removed>>

Handle(w) ==
  \/ \E m \in Msgs : SkipMessage(w, m) \/ MarkSending(w, m)
  \/ Transmit(w)
  \/ MarkFailed(w)
  \/ MarkSentInOut(w)
  \/ CopyToSent(w)
  \/ SaveInSent(w)
  \/ EraseFromOut(w)
  \/ EndPass(w)

UserStep(m) ==
  \/ QueueMessage(m)
  \/ ReadForEdit(m)
  \/ DeleteFromOut(m)
  \/ TimePasses(m)

Next ==
  \/ \E m \in Msgs : UserStep(m)
  \/ SaveEdit
  \/ \E w \in Workers : StartPass(w) \/ Handle(w)
  \/ Crash

Spec == Init /\ [][Next]_vars

(* Every socket wait has a timeout, so a running pass keeps going; the     *)
(* user owes nothing, and crashes are not excluded.                        *)
FairSpec == Spec /\ \A w \in Workers : WF_vars(Handle(w))

-----------------------------------------------------------------------------
(* Properties *)

(* Every variable holds a value the code can store in it. *)
TypeOK ==
  /\ out \in [Msgs -> Record \cup {None}]
  /\ sentBox \subseteq Msgs
  /\ snap \in [Workers -> [Msgs -> Record \cup {None}]]
  /\ cur \in [Workers -> Msgs \cup {None}]
  /\ pc \in [Workers -> Steps]
  /\ edit \in [msg : Msgs, rec : Record] \cup {None}
  /\ accepted \subseteq Msgs
  /\ duplicated \subseteq Msgs
  /\ excused \subseteq Msgs
  /\ removed \subseteq Msgs

IsSent(r) == r # None /\ r.delivery = "Sent"

(* Whatever is shown as sent, in Out or in Sent, the server has accepted:  *)
(* no failure, crash, stale list or concurrent edit in SendQueuedInternal  *)
(* turns an unsent message into a sent one.                                *)
SentWasAccepted == \A m \in Msgs : IsSent(out[m]) \/ m \in sentBox => m \in accepted

(* The server gets a message twice only after one of: its answer to the    *)
(* final dot was lost, a save of the record failed, two passes had it      *)
(* listed at the same time, or an edit made it sendable again.  A crash    *)
(* of the application between any two steps is none of these: the record   *)
(* is on disk as Sending before SendMessage starts and stays out of later  *)
(* passes.                                                                 *)
NoUnexplainedDuplicate == duplicated \subseteq excused

Composed(m) == out[m] # None \/ m \in sentBox \/ m \in removed

(* A message that was queued is in Out or in Sent until the user deletes   *)
(* it: it is saved in Sent before it leaves Out.                           *)
NoMessageVanishes == [][\A m \in Msgs : Composed(m) => Composed(m)']_vars

(* A pass of SendQueuedInternal comes to an end (or the process dies),     *)
(* whatever the user does to Out meanwhile: it never lists Out again.      *)
PassEnds == \A w \in Workers : pc[w] # "idle" ~> pc[w] = "idle"

-----------------------------------------------------------------------------
(* The inductive invariant behind the safety properties *)

AfterAccept == {"sent", "copy", "erase"}

(* What a pass, its list or a prepared edit says of a message is backed.   *)
SentBacked ==
  /\ SentWasAccepted
  /\ \A m \in Msgs : \A w \in Workers :
       /\ IsSent(snap[w][m]) => m \in accepted
       /\ cur[w] = m /\ pc[w] \in AfterAccept => m \in accepted
       /\ cur[w] = m /\ pc[w] = "erase" => m \in sentBox
       /\ cur[w] = m \/ snap[w][m] # None => Composed(m)
  /\ edit # None =>
       /\ Composed(edit.msg)
       /\ IsSent(edit.rec) => edit.msg \in accepted
  /\ \A m \in accepted : Composed(m)

(* A pass has a current message exactly between marking it and dropping it.*)
CurWhileBusy == \A w \in Workers : cur[w] = None <=> pc[w] \in {"idle", "next"}

Holds(w, m) == Eligible(snap[w][m]) \/ cur[w] = m

(* At most one pass has m, no other can list it, and once it is accepted   *)
(* nobody will send it.                                                    *)
Owned(m) ==
  /\ \A v, w \in Workers : Holds(v, m) /\ Holds(w, m) => v = w
  /\ \A w \in Workers : cur[w] = m =>
       ~Eligible(out[m]) /\ ~Eligible(snap[w][m])
  /\ m \in accepted =>
       /\ ~Eligible(out[m])
       /\ \A w \in Workers : ~Eligible(snap[w][m])
       /\ \A w \in Workers : cur[w] = m => pc[w] \in AfterAccept

(* This is so while nothing excuses a second send. *)
SingleOwner == \A m \in Msgs \ excused : Owned(m)

IInv ==
  /\ TypeOK
  /\ SentBacked
  /\ CurWhileBusy
  /\ SingleOwner
  /\ NoUnexplainedDuplicate
=============================================================================
