---------------------------- MODULE PopRetrieval ----------------------------
(***************************************************************************)
(* Retrieval from one POP account: the POP part of CheckMailInternal and   *)
(* PopSession::FetchMessages, with the marks the user sets on messages     *)
(* (HaikuShellHost::SetPopServerStatusForMessages), the server, and a      *)
(* crash at any point.                                                     *)
(*                                                                         *)
(* Checks and marks both run in the main window's thread, so there is one  *)
(* program counter; messages can be deleted or moved out of Inbox in other *)
(* windows while a check runs.  Deletions are held by the server until     *)
(* QUIT; the client works on a copy of its sync state and saves it, then   *)
(* the messages, only after QUIT.                                          *)
(***************************************************************************)
EXTENDS FiniteSets

CONSTANTS
  Uidls,      \* UIDLs of the messages that may arrive in the maildrop
  MessageId,  \* PopMessageId: the local id of each UIDL
  Big,        \* messages over the account's big_message_threshold
  Options,    \* the option records checks are made with
  Chosen,     \* the marks the user chooses from the menu
  None        \* no record

VARIABLES
  server,    \* UIDLs in the maildrop
  dele,      \* UIDLs deleted in the open session, not yet committed
  idMap,     \* saved sync state: the keys of uidl_to_message_id
  statusMap, \* saved sync state: uidl_to_server_status, "None" when absent
  inbox,     \* inbox[id]: the stored record with that id, or None
  moved,     \* UIDLs whose record is in another mailbox
  pc,        \* the next step of the main window's thread
  mark,      \* the mark being set: [uidl, status], or None
  opt,       \* the options of the running check
  listing,   \* the UIDLs the server listed
  cut,       \* the listing ended early: ReceiveLine failed inside it
  memId,     \* the check's copy of the sync state
  memStatus,
  todo,      \* UIDLs the current loop has not reached
  handled,   \* handled_uidls
  pend,      \* pend[u]: the record fetched for u and not stored yet, or None
  (* history, read by the properties only *)
  arrived,   \* UIDLs that were delivered to the maildrop
  gone,      \* UIDLs whose deletion the server committed
  wish,      \* wish[u]: the last mark the user was told is set, or "None"
  excused,   \* UIDLs that need not be in Inbox in full
  stored,    \* UIDLs a record of which was stored
  unsaved,   \* UIDLs fetched by a check whose state was not saved
  unsettled, \* UIDLs whose deletion was entered in the state, not on the server
  askew,     \* UIDLs on which the stored record and the saved state may
  again      \* UIDLs stored a second time as new mail

maildrop == <<server, dele>>
disk == <<idMap, statusMap, inbox, moved>>
session == <<opt, listing, cut, memId, memStatus, todo, handled, pend>>
history == <<arrived, gone, wish, excused, stored, unsaved, unsettled, askew, again>>
vars == <<maildrop, disk, pc, mark, session, history>>

Marks == {"Leave", "Fetch", "Delete", "FetchDelete"}
Status == Marks \cup {"None"}

(* delFetched is delete_retrieved or an account setting to the same effect *)
(* (not leave_mail_on_server, delete_mail_from_server); skipBig is         *)
(* skip_big_messages, with a threshold.                                    *)
Option == [retrieveNew : BOOLEAN, retrieveMarked : BOOLEAN, deleteMarked : BOOLEAN,
           delFetched : BOOLEAN, deleteAll : BOOLEAN, headersOnly : BOOLEAN,
           skipBig : BOOLEAN]

(* A MessageRecord of Inbox: the message it holds, whether in full, and    *)
(* its pop_server_status.                                                  *)
Record == [of : Uidls, full : BOOLEAN, status : Status]

(* A record waiting to be stored is new mail or mail the user asked for.   *)
Fetched == [rec : Record, new : BOOLEAN]

ASSUME PopRetrievalAssumption ==
  /\ MessageId \in [Uidls -> Uidls]
  /\ Big \subseteq Uidls
  /\ Options \subseteq Option
  /\ Chosen \subseteq Marks
  /\ None \notin Record \cup Fetched \cup [uidl : Uidls, status : Marks]

Steps == {"idle", "mark", "status", "all", "list", "new", "quit", "save", "store"}

NoMessages == [u \in Uidls |-> None]
NoStatus == [u \in Uidls |-> "None"]
NoOptions == [retrieveNew |-> FALSE, retrieveMarked |-> FALSE, deleteMarked |-> FALSE,
              delFetched |-> FALSE, deleteAll |-> FALSE, headersOnly |-> FALSE,
              skipBig |-> FALSE]

Init ==
  /\ server = {} /\ dele = {}
  /\ idMap = {} /\ statusMap = NoStatus
  /\ inbox = NoMessages /\ moved = {}
  /\ pc = "idle" /\ mark = None
  /\ opt = NoOptions /\ listing = {} /\ cut = FALSE
  /\ memId = {} /\ memStatus = NoStatus
  /\ todo = {} /\ handled = {} /\ pend = NoMessages
  /\ arrived = {} /\ gone = {} /\ wish = NoStatus
  /\ excused = {} /\ stored = {} /\ unsaved = {} /\ unsettled = {} /\ askew = {}
  /\ again = {}

Goto(step) == pc' = step

(* A check returns: its variables are gone. *)
Return ==
  /\ opt' = NoOptions /\ listing' = {} /\ cut' = FALSE
  /\ memId' = {} /\ memStatus' = NoStatus
  /\ todo' = {} /\ handled' = {} /\ pend' = NoMessages
  /\ Goto("idle")

InInbox(u) == inbox[MessageId[u]] # None /\ inbox[MessageId[u]].of = u

-----------------------------------------------------------------------------
(* The maildrop and the user *)

(* A message arrives under a UIDL of its own. *)
Arrive(u) ==
  /\ u \notin arrived
  /\ arrived' = arrived \cup {u}
  /\ server' = server \cup {u}
  /\ UNCHANGED <<dele, disk, pc, mark, session, gone, wish, excused, stored, unsaved, unsettled, askew,
                 again>>

(* Another client or the server itself removes a message between sessions. *)
Expire(u) ==
  /\ pc = "idle"
  /\ u \in server
  /\ server' = server \ {u}
  /\ UNCHANGED <<dele, disk, pc, mark, session, history>>

(* The user deletes a message from Inbox, or moves it to another mailbox,  *)
(* in another window; filters move messages after a check.                 *)
TakeFromInbox(u) ==
  /\ InInbox(u)
  /\ inbox' = [inbox EXCEPT ![MessageId[u]] = None]
  /\ moved' \in {moved, moved \cup {u}}
  /\ excused' = excused \cup {u}
  /\ UNCHANGED <<maildrop, idMap, statusMap, pc, mark, session, arrived, gone, wish, stored,
                 unsaved, unsettled, askew, again>>

(* Server Status menu: the selected record gets the status first ...       *)
MarkStored(u, s) ==
  /\ pc = "idle"
  /\ \/ /\ InInbox(u)
        /\ inbox' = [inbox EXCEPT ![MessageId[u]].status = s]
        /\ UNCHANGED askew
     \/ /\ u \in moved
        /\ askew' = askew \cup {u}
        /\ UNCHANGED inbox
  /\ mark' = [uidl |-> u, status |-> s]
  /\ Goto("mark")
  /\ UNCHANGED <<maildrop, idMap, statusMap, moved, session, arrived, gone, wish, excused,
                 stored, unsaved, unsettled, again>>

(* ... then the sync state is loaded, changed and saved.  When that fails  *)
(* the user is told so, and the record keeps the new status.               *)
MarkSynced ==
  /\ pc = "mark"
  /\ \/ /\ idMap' = idMap \cup {mark.uidl}
        /\ statusMap' = [statusMap EXCEPT ![mark.uidl] = mark.status]
        /\ wish' = [wish EXCEPT ![mark.uidl] = mark.status]
        /\ UNCHANGED askew
     \/ /\ askew' = askew \cup {mark.uidl}
        /\ UNCHANGED <<idMap, statusMap, wish>>
  /\ mark' = None
  /\ Goto("idle")
  /\ UNCHANGED <<maildrop, inbox, moved, session, arrived, gone, excused, stored, unsaved, unsettled,
                 again>>

-----------------------------------------------------------------------------
(* A check *)

(* LoadPopState, connection, authentication, UIDL.  A listing cut short by *)
(* a failed ReceiveLine is taken for a complete one.                       *)
Connect(o, seen) ==
  /\ pc = "idle"
  /\ opt' = o
  /\ listing' = seen
  /\ cut' = (seen # server)
  /\ memId' = idMap
  /\ memStatus' = statusMap
  /\ todo' = {u \in Uidls : statusMap[u] # "None"}
  /\ handled' = {}
  /\ pend' = NoMessages
  /\ Goto("status")
  /\ UNCHANGED <<maildrop, disk, mark, history>>

(* Other messages of Inbox with the id of u. *)
SameId(u) == {v \in Uidls \ {u} : InInbox(v) /\ MessageId[v] = MessageId[u]}

(* UpdateStoredPopServerStatus, its result ignored: a record that is in    *)
(* Inbox under the id of a known message gets the status, unless the save  *)
(* fails.                                                                  *)
UpdateStored(u, s) ==
  \/ /\ u \in memId
     /\ inbox[MessageId[u]] # None
     /\ inbox' = [inbox EXCEPT ![MessageId[u]].status = s]
     /\ askew' = askew \cup SameId(u)
  \/ /\ askew' = askew \cup {u}
     /\ UNCHANGED inbox

(* What the check has changed in its copy of the state. *)
Changed == {u \in Uidls : memStatus[u] # statusMap[u]}

(* Mutant: only one of the two maps is erased. *)
ForgetIdOnly(u) ==
  /\ memId' = memId \ {u}
  /\ UNCHANGED memStatus

Forget(u) ==
  /\ memId' = memId \ {u}
  /\ memStatus' = [memStatus EXCEPT ![u] = "None"]

(* Commands are answered only after a complete listing: what is left of a  *)
(* listing that was cut is no +OK.                                         *)
Answered == ~cut

(* The status loop, on a UIDL the server no longer lists. *)
DropGone(u) ==
  /\ pc = "status"
  /\ u \in todo \ listing
  /\ UpdateStored(u, "None")
  /\ Forget(u)
  /\ todo' = todo \ {u}
  /\ UNCHANGED <<maildrop, idMap, statusMap, moved, pc, mark, opt, listing, cut, handled, pend,
                 arrived, gone, wish, excused, stored, unsaved, unsettled, again>>

(* Mutant: delete_marked does not look at the status. *)
DeleteAnyMark(u) == opt.deleteAll \/ opt.deleteMarked

(* The pending status asks for a deletion without a retrieval. *)
DeleteMarked(u) ==
  \/ opt.deleteAll
  \/ /\ opt.deleteMarked
     /\ \/ memStatus[u] = "Delete"
        \/ memStatus[u] = "FetchDelete" /\ ~opt.retrieveMarked

RetrieveMarked(u) == opt.retrieveMarked /\ memStatus[u] \in {"Fetch", "FetchDelete"}

(* DELE without retrieval: the stored record and the state are updated at  *)
(* once, before the deletion is committed.                                 *)
Delete(u) ==
  /\ Answered
  /\ dele' = dele \cup {u}
  /\ UpdateStored(u, "None")
  /\ Forget(u)
  /\ handled' = handled \cup {u}
  /\ excused' = excused \cup {u}

DeleteAsMarked(u) ==
  /\ pc = "status"
  /\ u \in todo \cap listing
  /\ DeleteMarked(u)
  /\ Delete(u)
  /\ todo' = todo \ {u}
  /\ UNCHANGED <<server, idMap, statusMap, moved, pc, mark, opt, listing, cut, pend,
                 arrived, gone, wish, stored, unsaved, unsettled, again>>

(* FetchMessages returns false: its messages and its copy of the state are *)
(* dropped, and without QUIT the server drops the deletions.               *)
GiveUp ==
  /\ dele' = {}
  /\ Return

(* Mutant: the state gets a status the code has no name for. *)
FetchAsDeleted(u, new, delete) ==
  /\ Answered
  /\ pend' = [pend EXCEPT ![u] =
                [rec |-> [of |-> u, full |-> ~opt.headersOnly, status |-> "Deleted"],
                 new |-> new]]
  /\ memId' = memId \cup {u}
  /\ memStatus' = [memStatus EXCEPT ![u] = "Deleted"]
  /\ dele' = IF delete THEN dele \cup {u} ELSE dele

(* fetch_message: TOP or RETR, then DELE; the record joins the pending     *)
(* ones and the state is updated in memory.                                *)
Fetch(u, new, delete) ==
  LET status == IF delete THEN "None" ELSE "Leave"
  IN /\ Answered
     /\ pend' = [pend EXCEPT ![u] =
                   [rec |-> [of |-> u, full |-> ~opt.headersOnly, status |-> status],
                    new |-> new]]
     /\ memId' = memId \cup {u}
     /\ memStatus' = [memStatus EXCEPT ![u] = status]
     /\ dele' = IF delete THEN dele \cup {u} ELSE dele

DeleteFetched(u) == opt.delFetched \/ memStatus[u] = "FetchDelete"

Retained(u) == IF DeleteFetched(u) THEN "None" ELSE "Leave"

(* The stored record is updated first.  With a deletion the loop then      *)
(* erases the entry that fetch_message has erased, which is undefined: the *)
(* process dies (below), or goes on with some of the remaining entries.    *)
FetchAsMarked(u) ==
  /\ pc = "status"
  /\ u \in todo \cap listing
  /\ ~DeleteMarked(u)
  /\ RetrieveMarked(u)
  /\ UpdateStored(u, Retained(u))
  /\ Fetch(u, FALSE, DeleteFetched(u))
  /\ handled' = handled \cup {u}
  /\ todo' \in IF DeleteFetched(u) THEN SUBSET (todo \ {u}) ELSE {todo \ {u}}
  /\ UNCHANGED <<server, idMap, statusMap, moved, pc, mark, opt, listing, cut,
                 arrived, gone, wish, excused, stored, unsaved, unsettled, again>>

(* The fetch or its DELETE fails: FetchMessages returns false.             *)
FailInFetch(u) ==
  /\ pc = "status"
  /\ u \in todo \cap listing
  /\ ~DeleteMarked(u)
  /\ RetrieveMarked(u)
  /\ \/ /\ u \in memId
        /\ inbox[MessageId[u]] # None
        /\ inbox' = [inbox EXCEPT ![MessageId[u]].status = Retained(u)]
     \/ UNCHANGED inbox
  /\ askew' = askew \cup Changed \cup {u} \cup SameId(u)
  /\ GiveUp
  /\ UNCHANGED <<server, idMap, statusMap, moved, mark,
                 arrived, gone, wish, excused, stored, unsaved, unsettled, again>>

(* Mutant: the iterator is not advanced over an entry left alone. *)
PassOverInPlace(u) ==
  /\ pc = "status"
  /\ u \in todo \cap listing
  /\ UNCHANGED vars

(* The status loop leaves an entry the options do not select. *)
PassOver(u) ==
  /\ pc = "status"
  /\ u \in todo \cap listing
  /\ ~DeleteMarked(u)
  /\ ~RetrieveMarked(u)
  /\ todo' = todo \ {u}
  /\ UNCHANGED <<maildrop, disk, pc, mark, opt, listing, cut, memId, memStatus, handled,
                 pend, history>>

EndOfStatuses ==
  /\ pc = "status"
  /\ todo = {}
  /\ IF opt.deleteAll
     THEN Goto("all") /\ todo' = listing \ handled
     ELSE Goto("list") /\ UNCHANGED todo
  /\ UNCHANGED <<maildrop, disk, mark, opt, listing, cut, memId, memStatus, handled, pend, history>>

(* delete_all: what the status loop has not handled is deleted. *)
DeleteRest(u) ==
  /\ pc = "all"
  /\ u \in todo
  /\ Delete(u)
  /\ todo' = todo \ {u}
  /\ UNCHANGED <<server, idMap, statusMap, moved, pc, mark, opt, listing, cut, pend,
                 arrived, gone, wish, stored, unsaved, unsettled, again>>

EndOfAll ==
  /\ pc = "all"
  /\ todo = {}
  /\ Goto("list")
  /\ UNCHANGED <<maildrop, disk, mark, session, history>>

(* Mutant: the state is not asked whether the message is known. *)
NewToEveryone == listing \ handled

(* What the last loop does not skip: neither handled nor known. *)
NewMail == listing \ (handled \cup memId)

(* LIST, then the loop over new messages, unless retrieve_new is off. *)
ListSizes ==
  /\ pc = "list"
  /\ Answered
  /\ todo' = IF opt.retrieveNew THEN NewMail ELSE {}
  /\ Goto("new")
  /\ UNCHANGED <<maildrop, disk, mark, opt, listing, cut, memId, memStatus, handled, pend, history>>

TooBig(u) == ~opt.headersOnly /\ opt.skipBig /\ u \in Big

FetchNew(u) ==
  /\ pc = "new"
  /\ u \in todo
  /\ ~TooBig(u)
  /\ Fetch(u, TRUE, opt.delFetched)
  /\ todo' = todo \ {u}
  /\ UNCHANGED <<server, disk, pc, mark, opt, listing, cut, handled,
                 arrived, gone, wish, excused, stored, unsaved, unsettled, askew, again>>

SkipBig(u) ==
  /\ pc = "new"
  /\ u \in todo
  /\ TooBig(u)
  /\ todo' = todo \ {u}
  /\ UNCHANGED <<maildrop, disk, pc, mark, opt, listing, cut, memId, memStatus, handled,
                 pend, history>>

EndOfNew ==
  /\ pc = "new"
  /\ todo = {}
  /\ Goto("quit")
  /\ UNCHANGED <<maildrop, disk, mark, session, history>>

(* QUIT, its answer ignored: the server commits the deletions, or never    *)
(* got the command and drops them.  The check goes on alike.               *)
Quit ==
  /\ pc = "quit"
  /\ \/ /\ server' = server \ dele
        /\ gone' = gone \cup dele
        /\ UNCHANGED unsettled
     \/ /\ unsettled' = unsettled \cup dele
        /\ UNCHANGED <<server, gone>>
  /\ dele' = {}
  /\ Goto("save")
  /\ UNCHANGED <<disk, mark, session, arrived, wish, excused, stored, unsaved, askew,
                 again>>

(* SavePopState, its result ignored. *)
SaveState ==
  /\ pc = "save"
  /\ \/ /\ idMap' = memId
        /\ statusMap' = memStatus
        /\ UNCHANGED <<unsaved, askew>>
     \/ /\ unsaved' = unsaved \cup {u \in Uidls : pend[u] # None}
        /\ askew' = askew \cup Changed
        /\ UNCHANGED <<idMap, statusMap>>
  /\ Goto("store")
  /\ UNCHANGED <<maildrop, inbox, moved, mark, session,
                 arrived, gone, wish, excused, stored, unsettled, again>>

(* Mutant: a message whose id is taken counts as stored. *)
StoreIfAbsent(u) ==
  /\ pc = "store"
  /\ pend[u] # None
  /\ inbox' = IF inbox[MessageId[u]] # None THEN inbox
              ELSE [inbox EXCEPT ![MessageId[u]] = pend[u].rec]
  /\ stored' = stored \cup {u}
  /\ again' = IF pend[u].new /\ u \in stored THEN again \cup {u} ELSE again
  /\ excused' = IF pend[u].rec.full THEN excused \ {u} ELSE excused \cup {u}
  /\ pend' = [pend EXCEPT ![u] = None]
  /\ UNCHANGED <<maildrop, idMap, statusMap, moved, pc, mark, opt, listing, cut, memId,
                 memStatus, todo, handled, arrived, gone, wish, unsaved, unsettled, askew>>

(* SaveMessage in Inbox, its result ignored: the record replaces whatever  *)
(* has its id.                                                             *)
Store(u) ==
  /\ pc = "store"
  /\ pend[u] # None
  /\ \/ /\ inbox' = [inbox EXCEPT ![MessageId[u]] = pend[u].rec]
        /\ stored' = stored \cup {u}
        /\ again' = IF pend[u].new /\ u \in stored THEN again \cup {u} ELSE again
        /\ excused' = IF pend[u].rec.full THEN (excused \ {u}) \cup SameId(u)
                      ELSE excused \cup {u} \cup SameId(u)
        /\ UNCHANGED askew
     \/ /\ excused' = excused \cup {u}
        /\ askew' = askew \cup {u}
        /\ UNCHANGED <<inbox, stored, again>>
  /\ pend' = [pend EXCEPT ![u] = None]
  /\ UNCHANGED <<maildrop, idMap, statusMap, moved, pc, mark, opt, listing, cut, memId,
                 memStatus, todo, handled, arrived, gone, wish, unsaved, unsettled>>

Done ==
  /\ pc = "store"
  /\ pend = NoMessages
  /\ Return
  /\ UNCHANGED <<maildrop, disk, mark, history>>

(* Any other command fails, or its answer is not the expected one. *)
Fail ==
  /\ pc \in {"status", "all", "list", "new"}
  /\ GiveUp
  /\ askew' = askew \cup Changed
  /\ UNCHANGED <<server, disk, mark, arrived, gone, wish, excused, stored, unsaved, unsettled,
                 again>>

(* The process dies.  After QUIT, what it had fetched and not stored is    *)
(* lost, to the user if not on the server.                                 *)
Crash ==
  /\ pc # "idle"
  /\ GiveUp
  /\ mark' = None
  /\ excused' = IF pc \in {"save", "store"}
                THEN excused \cup {u \in Uidls : pend[u] # None} ELSE excused
  /\ askew' = CASE pc = "mark" -> askew \cup {mark.uidl}
                [] pc # "mark" -> askew \cup Changed \cup {u \in Uidls : pend[u] # None}
  /\ UNCHANGED <<server, disk, arrived, gone, wish, stored, unsaved, unsettled, again>>

(* What a check does next, when nothing fails but what must: a command     *)
(* after a cut listing.                                                    *)
Advance ==
  \/ \E u \in Uidls :
       \/ DropGone(u) \/ DeleteAsMarked(u) \/ FetchAsMarked(u) \/ PassOver(u)
       \/ DeleteRest(u) \/ FetchNew(u) \/ SkipBig(u) \/ Store(u)
  \/ EndOfStatuses \/ EndOfAll \/ ListSizes \/ EndOfNew
  \/ Quit \/ SaveState \/ Done
  \/ cut /\ Fail

Next ==
  \/ \E u \in Uidls :
       \/ Arrive(u) \/ Expire(u) \/ TakeFromInbox(u)
       \/ \E s \in Chosen : MarkStored(u, s)
  \/ MarkSynced
  \/ \E o \in Options : \E seen \in SUBSET server : Connect(o, seen)
  \/ Advance
  \/ Fail \/ \E u \in Uidls : FailInFetch(u)
  \/ Crash

Spec == Init /\ [][Next]_vars

(* Every socket wait has a timeout and the thread runs on. *)
FairSpec == Spec /\ WF_vars(Advance \/ MarkSynced)

-----------------------------------------------------------------------------
(* Properties *)

(* Every variable holds a value the code can store in it. *)
TypeOK ==
  /\ server \subseteq Uidls /\ dele \subseteq server
  /\ idMap \subseteq Uidls /\ statusMap \in [Uidls -> Status]
  /\ inbox \in [Uidls -> Record \cup {None}] /\ moved \subseteq Uidls
  /\ pc \in Steps /\ mark \in [uidl : Uidls, status : Marks] \cup {None}
  /\ opt \in Option /\ listing \subseteq Uidls /\ cut \in BOOLEAN
  /\ memId \subseteq Uidls /\ memStatus \in [Uidls -> Status]
  /\ todo \subseteq Uidls /\ handled \subseteq Uidls
  /\ pend \in [Uidls -> Fetched \cup {None}]
  /\ arrived \subseteq Uidls /\ gone \subseteq Uidls
  /\ wish \in [Uidls -> Status]
  /\ excused \subseteq Uidls /\ stored \subseteq Uidls
  /\ unsaved \subseteq Uidls /\ unsettled \subseteq Uidls
  /\ askew \subseteq Uidls /\ again \subseteq Uidls

InFull(u) == InInbox(u) /\ inbox[MessageId[u]].full

(* A message the client had the server delete, or knows and will not fetch *)
(* again, is in Inbox in full or still to be stored by this check, unless  *)
(* the user took it out or asked for its deletion, only its header was     *)
(* fetched, its save failed, the process died in between, or a message     *)
(* with the same id took its place.                                        *)
NoMailLost ==
  \A u \in gone \cup idMap : InFull(u) \/ pend[u] # None \/ u \in excused

(* A message that was stored is retrieved as new mail again only if the    *)
(* state of the check that fetched it was not saved, or its deletion was   *)
(* entered in the state and never reached the server.                      *)
FetchedOnce == again \subseteq unsaved \cup unsettled

(* The server deletes for the client only what the user's last mark says,  *)
(* or what the running check was told to delete: all, or what it fetched.  *)
OnlyAskedDeletions ==
  [][\A u \in gone' \ gone :
       \/ wish[u] \in {"Delete", "FetchDelete"}
       \/ opt.deleteAll
       \/ opt.delFetched /\ pend[u] # None]_vars

(* Between operations, the server status shown for a message of Inbox is   *)
(* the one the next check will act on, unless a write of either failed, a  *)
(* check failed after changing the record, or the process died in between. *)
ShownAsSaved ==
  pc = "idle" =>
    \A u \in Uidls \ askew : InInbox(u) => inbox[MessageId[u]].status = statusMap[u]

(* Every check, and every setting of a mark, comes to an end. *)
CheckEnds == pc # "idle" ~> pc = "idle"
=============================================================================
