------------------------- MODULE PopRetrievalProofs -------------------------
(***************************************************************************)
(* Proofs that retrieval from a POP account loses no mail, fetches none    *)
(* twice as new, has the server delete only what it was told to, and shows *)
(* the marks it will act on: for every set of messages, every assignment   *)
(* of ids to them, all options and any number of checks, failures and      *)
(* crashes.                                                                *)
(***************************************************************************)
EXTENDS PopRetrieval, Naturals, TLAPS

(* The steps of a check in which deletions are open. *)
Active == {"status", "all", "list", "new", "quit"}

(* What the deletions of a session rest on: only listed messages are       *)
(* deleted, and what is listed stays in the maildrop until QUIT.           *)
SessionOK ==
  /\ pc \in Active => listing \subseteq server
  /\ pc \in {"all", "new"} => todo \subseteq listing
  /\ pc \notin Active => dele = {}
  /\ pc = "mark" => mark # None

TInv == TypeOK /\ SessionOK

StatusOf(u) == inbox[MessageId[u]].status

LEMMA IdType ==
  ASSUME NEW u \in Uidls
  PROVE  MessageId[u] \in Uidls
BY PopRetrievalAssumption

(* A record that is there is one. *)
LEMMA InboxType ==
  ASSUME TypeOK, NEW id \in Uidls, inbox[id] # None
  PROVE  inbox[id] \in Record
BY DEF TypeOK

(* A change of status leaves the record of the same message, and of every  *)
(* other id the record it was.                                             *)
LEMMA StatusSet ==
  ASSUME TypeOK, NEW v \in Uidls, NEW s \in Status, inbox[MessageId[v]] # None,
         inbox' = [inbox EXCEPT ![MessageId[v]].status = s]
  PROVE  /\ inbox' \in [Uidls -> Record \cup {None}]
         /\ \A u \in Uidls : InInbox(u)' <=> InInbox(u)
         /\ \A u \in Uidls : InFull(u)' <=> InFull(u)
         /\ \A u \in Uidls : InInbox(u) =>
              StatusOf(u)' = IF MessageId[u] = MessageId[v] THEN s ELSE StatusOf(u)
<1> DEFINE id == MessageId[v]
           new == [inbox[id] EXCEPT !.status = s]
<1>1. id \in Uidls /\ inbox[id] \in Record
  BY IdType, InboxType
<1>2. inbox' = [inbox EXCEPT ![id] = new]
  OBVIOUS
<1>3. new \in Record /\ new.of = inbox[id].of /\ new.full = inbox[id].full /\ new.status = s
  BY <1>1 DEF Record
<1>4. new # None
  BY <1>3, PopRetrievalAssumption
<1> HIDE DEF new
<1>5. inbox' \in [Uidls -> Record \cup {None}]
  BY <1>1, <1>2, <1>3 DEF TypeOK
<1>6. ASSUME NEW u \in Uidls
      PROVE  /\ inbox'[MessageId[u]] = IF MessageId[u] = id THEN new ELSE inbox[MessageId[u]]
  BY <1>1, <1>2, IdType DEF TypeOK
<1>7. ASSUME NEW u \in Uidls
      PROVE  /\ InInbox(u)' <=> InInbox(u)
             /\ InFull(u)' <=> InFull(u)
             /\ InInbox(u) => StatusOf(u)' = IF MessageId[u] = id THEN s ELSE StatusOf(u)
  <2>1. CASE MessageId[u] = id
    BY <1>1, <1>3, <1>4, <1>6, <2>1 DEF InInbox, InFull, StatusOf
  <2>2. CASE MessageId[u] # id
    BY <1>6, <2>2 DEF InInbox, InFull, StatusOf
  <2> QED BY <2>1, <2>2
<1> QED BY <1>5, <1>7

(* What UpdateStored does to Inbox: no message comes or goes, and where    *)
(* the record and the state cannot differ after it the record of v has the *)
(* status and every other one its own.                                     *)
LEMMA UpdateStoredEffect ==
  ASSUME TypeOK, NEW v \in Uidls, NEW s \in Status, UpdateStored(v, s)
  PROVE  /\ inbox' \in [Uidls -> Record \cup {None}]
         /\ askew \subseteq askew' /\ askew' \subseteq Uidls
         /\ \A u \in Uidls : InInbox(u)' <=> InInbox(u)
         /\ \A u \in Uidls : InFull(u)' <=> InFull(u)
         /\ \A u \in Uidls \ askew' : InInbox(u) =>
              StatusOf(u)' = IF u = v THEN s ELSE StatusOf(u)
<1>1. CASE /\ v \in memId
           /\ inbox[MessageId[v]] # None
           /\ inbox' = [inbox EXCEPT ![MessageId[v]].status = s]
           /\ askew' = askew \cup SameId(v)
  <2>1. ASSUME NEW u \in Uidls \ askew', InInbox(u)
        PROVE  StatusOf(u)' = IF u = v THEN s ELSE StatusOf(u)
    <3>1. u # v => MessageId[u] # MessageId[v]
      BY <1>1, <2>1 DEF SameId
    <3> QED BY <1>1, <2>1, <3>1, StatusSet
  <2> QED BY <1>1, <2>1, StatusSet DEF SameId, TypeOK
<1>2. CASE askew' = askew \cup {v} /\ UNCHANGED inbox
  BY <1>2 DEF TypeOK, InInbox, InFull, StatusOf
<1> QED BY <1>1, <1>2 DEF UpdateStored

(* What Fetch does to the check's messages and its copy of the state. *)
LEMMA FetchEffect ==
  ASSUME TypeOK, NEW v \in Uidls, NEW new \in BOOLEAN, NEW delete \in BOOLEAN,
         Fetch(v, new, delete)
  PROVE  /\ Answered
         /\ pend' \in [Uidls -> Fetched \cup {None}]
         /\ pend'[v] # None /\ pend'[v].rec.of = v /\ pend'[v].new = new
         /\ pend'[v].rec.status = IF delete THEN "None" ELSE "Leave"
         /\ \A u \in Uidls \ {v} : pend'[u] = pend[u]
         /\ memId' = memId \cup {v}
         /\ memStatus' \in [Uidls -> Status]
         /\ memStatus'[v] = IF delete THEN "None" ELSE "Leave"
         /\ \A u \in Uidls \ {v} : memStatus'[u] = memStatus[u]
         /\ dele' = IF delete THEN dele \cup {v} ELSE dele
<1> DEFINE status == IF delete THEN "None" ELSE "Leave"
           r == [of |-> v, full |-> ~opt.headersOnly, status |-> status]
           f == [rec |-> r, new |-> new]
<1>1. status \in Status
  BY DEF Status, Marks
<1>2. opt.headersOnly \in BOOLEAN
  BY DEF TypeOK, Option
<1>3. f \in Fetched /\ f # None
  <2>1. r \in Record
    BY <1>1, <1>2 DEF Record
  <2>2. f \in Fetched
    BY <2>1 DEF Fetched
  <2> QED BY <2>2, PopRetrievalAssumption
<1>4. pend' = [pend EXCEPT ![v] = f] /\ memStatus' = [memStatus EXCEPT ![v] = status]
      /\ memId' = memId \cup {v} /\ Answered
      /\ dele' = IF delete THEN dele \cup {v} ELSE dele
  BY DEF Fetch
<1>5. f.rec.of = v /\ f.new = new /\ f.rec.status = status
  OBVIOUS
<1> HIDE DEF f
<1>6. /\ pend' \in [Uidls -> Fetched \cup {None}] /\ pend'[v] = f
      /\ \A u \in Uidls \ {v} : pend'[u] = pend[u]
  BY <1>3, <1>4 DEF TypeOK
<1>7. /\ memStatus' \in [Uidls -> Status] /\ memStatus'[v] = status
      /\ \A u \in Uidls \ {v} : memStatus'[u] = memStatus[u]
  BY <1>1, <1>4 DEF TypeOK
<1> QED BY <1>3, <1>4, <1>5, <1>6, <1>7

LEMMA FetchKeeps ==
  ASSUME TypeOK, NEW v \in Uidls, NEW new \in BOOLEAN, NEW delete \in BOOLEAN,
         Fetch(v, new, delete), NEW u \in Uidls
  PROVE  /\ pend'[v] # None /\ memId' = memId \cup {v} /\ dele' \subseteq dele \cup {v}
         /\ u # v => pend'[u] = pend[u] /\ memStatus'[u] = memStatus[u]
         /\ memStatus'[v] \in {"None", "Leave"}
         /\ pend'[v].rec.status = memStatus'[v]
BY FetchEffect

LEMMA RetainedType ==
  ASSUME TypeOK, NEW u \in Uidls
  PROVE  /\ Retained(u) \in Status
         /\ DeleteFetched(u) \in BOOLEAN
         /\ opt.delFetched \in BOOLEAN
BY DEF TypeOK, Option, Retained, DeleteFetched, Status, Marks

(* What Forget does to the check's copy of the state. *)
LEMMA ForgetEffect ==
  ASSUME TypeOK, NEW v \in Uidls, Forget(v)
  PROVE  /\ memId' = memId \ {v}
         /\ memStatus' \in [Uidls -> Status]
         /\ memStatus'[v] = "None"
         /\ \A u \in Uidls \ {v} : memStatus'[u] = memStatus[u]
BY DEF Forget, TypeOK, Status, Marks

LEMMA ReturnEffect ==
  ASSUME Return
  PROVE  /\ opt' \in Option /\ listing' = {} /\ cut' = FALSE /\ memId' = {}
         /\ memStatus' \in [Uidls -> Status] /\ todo' = {} /\ handled' = {}
         /\ pend' \in [Uidls -> Fetched \cup {None}]
         /\ \A u \in Uidls : pend'[u] = None
         /\ pc' = "idle"
BY DEF Return, NoOptions, Option, NoStatus, Status, NoMessages, Goto

(* Every step keeps the types and the deletions inside the maildrop. *)
LEMMA TypeStep ==
  ASSUME TInv, [Next]_vars
  PROVE  TInv'
<1> USE DEF TInv
<1>1. ASSUME NEW u \in Uidls, Arrive(u) PROVE TInv'
  BY <1>1 DEF Arrive, TypeOK, SessionOK, disk, session
<1>2. ASSUME NEW u \in Uidls, Expire(u) PROVE TInv'
  BY <1>2 DEF Expire, TypeOK, SessionOK, Active, disk, session, history
<1>3. ASSUME NEW u \in Uidls, TakeFromInbox(u) PROVE TInv'
  <2>1. inbox' \in [Uidls -> Record \cup {None}]
    BY <1>3, IdType DEF TakeFromInbox, TypeOK
  <2> QED BY <1>3, <2>1 DEF TakeFromInbox, TypeOK, SessionOK, maildrop, session
<1>4. ASSUME NEW u \in Uidls, NEW s \in Chosen, MarkStored(u, s) PROVE TInv'
  <2>1. s \in Marks /\ s \in Status
    BY PopRetrievalAssumption DEF Status
  <2>2. inbox' \in [Uidls -> Record \cup {None}]
    BY <1>4, <2>1, StatusSet DEF MarkStored, InInbox, TypeOK
  <2>3. mark' \in [uidl : Uidls, status : Marks] /\ mark' # None
    <3>1. mark' \in [uidl : Uidls, status : Marks]
      BY <1>4, <2>1 DEF MarkStored
    <3> QED BY <3>1, PopRetrievalAssumption
  <2> QED BY <1>4, <2>2, <2>3 DEF MarkStored, TypeOK, SessionOK, Active, Steps, Goto,
                                  maildrop, session
<1>5. CASE MarkSynced
  <2>1. mark \in [uidl : Uidls, status : Marks]
    BY <1>5 DEF MarkSynced, TypeOK, SessionOK
  <2>2. mark.uidl \in Uidls /\ mark.status \in Status
    BY <2>1 DEF Status
  <2>3. /\ idMap' \subseteq Uidls /\ statusMap' \in [Uidls -> Status]
        /\ wish' \in [Uidls -> Status] /\ askew' \subseteq Uidls
    BY <1>5, <2>2 DEF MarkSynced, TypeOK
  <2> QED BY <1>5, <2>3 DEF MarkSynced, TypeOK, SessionOK, Active, Steps, Goto, maildrop, session
<1>6. ASSUME NEW o \in Options, NEW seen \in SUBSET server, Connect(o, seen) PROVE TInv'
  BY <1>6, PopRetrievalAssumption
     DEF Connect, TypeOK, SessionOK, Active, Steps, Goto, NoMessages, maildrop, disk, history
<1>7. ASSUME NEW u \in Uidls, DropGone(u) PROVE TInv'
  <2>1. "None" \in Status
    BY DEF Status
  <2> QED BY <1>7, <2>1, UpdateStoredEffect, ForgetEffect
          DEF DropGone, TypeOK, SessionOK, maildrop, Active
<1>8. ASSUME NEW u \in Uidls, DeleteAsMarked(u) PROVE TInv'
  <2>1. "None" \in Status
    BY DEF Status
  <2> QED BY <1>8, <2>1, UpdateStoredEffect, ForgetEffect
          DEF DeleteAsMarked, Delete, TypeOK, SessionOK, Active
<1>9. ASSUME NEW u \in Uidls, FetchAsMarked(u) PROVE TInv'
  <2>1. /\ inbox' \in [Uidls -> Record \cup {None}]
        /\ askew' \subseteq Uidls
    BY <1>9, RetainedType, UpdateStoredEffect DEF FetchAsMarked
  <2>2. Fetch(u, FALSE, DeleteFetched(u)) /\ DeleteFetched(u) \in BOOLEAN
    BY <1>9, RetainedType DEF FetchAsMarked
  <2>3. /\ pend' \in [Uidls -> Fetched \cup {None}]
        /\ memId' = memId \cup {u}
        /\ memStatus' \in [Uidls -> Status]
        /\ dele' \in {dele, dele \cup {u}}
    BY <2>2, FetchEffect
  <2>4. todo' \subseteq todo
    BY <1>9 DEF FetchAsMarked
  <2> QED BY <1>9, <2>1, <2>3, <2>4 DEF FetchAsMarked, TypeOK, SessionOK, Active
<1>10. ASSUME NEW u \in Uidls, FailInFetch(u) PROVE TInv'
  <2>1. inbox' \in [Uidls -> Record \cup {None}]
    BY <1>10, RetainedType, StatusSet DEF FailInFetch, TypeOK
  <2>2. askew' \subseteq Uidls
    BY <1>10 DEF FailInFetch, TypeOK, Changed, SameId
  <2>3. dele' = {} /\ Return
    BY <1>10 DEF FailInFetch, GiveUp
  <2> QED BY <1>10, <2>1, <2>2, <2>3, ReturnEffect DEF FailInFetch, TypeOK, SessionOK, Active, Steps
<1>11. ASSUME NEW u \in Uidls, PassOver(u) PROVE TInv'
  BY <1>11 DEF PassOver, TypeOK, SessionOK, maildrop, disk, history
<1>12. CASE EndOfStatuses
  BY <1>12 DEF EndOfStatuses, TypeOK, SessionOK, Active, Steps, Goto, maildrop, disk, history
<1>13. ASSUME NEW u \in Uidls, DeleteRest(u) PROVE TInv'
  <2>1. "None" \in Status
    BY DEF Status
  <2> QED BY <1>13, <2>1, UpdateStoredEffect, ForgetEffect
          DEF DeleteRest, Delete, TypeOK, SessionOK, Active
<1>14. CASE EndOfAll
  BY <1>14 DEF EndOfAll, TypeOK, SessionOK, Active, Steps, Goto, maildrop, disk, session, history
<1>15. CASE ListSizes
  BY <1>15 DEF ListSizes, NewMail, TypeOK, SessionOK, Active, Steps, Goto, maildrop, disk, history
<1>16. ASSUME NEW u \in Uidls, FetchNew(u) PROVE TInv'
  <2>1. /\ pend' \in [Uidls -> Fetched \cup {None}]
        /\ memId' = memId \cup {u}
        /\ memStatus' \in [Uidls -> Status]
        /\ dele' \in {dele, dele \cup {u}}
    BY ZenonT(60), <1>16, RetainedType, FetchEffect DEF FetchNew
  <2> QED BY <1>16, <2>1 DEF FetchNew, TypeOK, SessionOK, Active, disk
<1>17. ASSUME NEW u \in Uidls, SkipBig(u) PROVE TInv'
  BY <1>17 DEF SkipBig, TypeOK, SessionOK, maildrop, disk, history
<1>18. CASE EndOfNew
  BY <1>18 DEF EndOfNew, TypeOK, SessionOK, Active, Steps, Goto, maildrop, disk, session, history
<1>19. CASE Quit
  BY <1>19 DEF Quit, TypeOK, SessionOK, Active, Steps, Goto, disk, session
<1>20. CASE SaveState
  BY <1>20 DEF SaveState, Changed, TypeOK, SessionOK, Active, Steps, Goto, maildrop, session
<1>21. ASSUME NEW u \in Uidls, Store(u) PROVE TInv'
  <2>1. pend[u] \in Fetched /\ pend[u].rec \in Record
    BY <1>21 DEF Store, TypeOK, Fetched
  <2>2. inbox' \in [Uidls -> Record \cup {None}]
    BY <1>21, <2>1, IdType DEF Store, TypeOK
  <2>3. pend' \in [Uidls -> Fetched \cup {None}]
    BY <1>21 DEF Store, TypeOK
  <2>4. excused' \subseteq Uidls /\ stored' \subseteq Uidls /\ again' \subseteq Uidls
        /\ askew' \subseteq Uidls
    BY <1>21 DEF Store, TypeOK, SameId
  <2> QED BY <1>21, <2>2, <2>3, <2>4 DEF Store, TypeOK, SessionOK, maildrop
<1>22. CASE Done
  BY <1>22, ReturnEffect DEF Done, TypeOK, SessionOK, Active, Steps, maildrop, disk, history
<1>23. CASE Fail
  BY <1>23, ReturnEffect DEF Fail, GiveUp, Changed, TypeOK, SessionOK, Active, Steps, disk
<1>24. CASE Crash
  <2>1. pc = "mark" => mark.uidl \in Uidls
    BY DEF TypeOK, SessionOK
  <2>2. excused' \subseteq Uidls /\ askew' \subseteq Uidls
    BY <1>24, <2>1 DEF Crash, Changed, TypeOK
  <2> QED BY <1>24, <2>2, ReturnEffect DEF Crash, GiveUp, TypeOK, SessionOK, Active, Steps, disk
<1>25. CASE UNCHANGED vars
  BY <1>25 DEF vars, maildrop, disk, session, history, TypeOK, SessionOK
<1> QED BY <1>1, <1>2, <1>3, <1>4, <1>5, <1>6, <1>7, <1>8, <1>9, <1>10, <1>11, <1>12, <1>13, <1>14,
           <1>15, <1>16, <1>17, <1>18, <1>19, <1>20, <1>21, <1>22, <1>23, <1>24, <1>25
        DEF Next, Advance

LEMMA TypeInit ==
  ASSUME Init
  PROVE  TInv
<1>1. /\ statusMap \in [Uidls -> Status] /\ memStatus \in [Uidls -> Status]
      /\ wish \in [Uidls -> Status]
  BY DEF Init, NoStatus, Status
<1>2. inbox \in [Uidls -> Record \cup {None}] /\ pend \in [Uidls -> Fetched \cup {None}]
  BY DEF Init, NoMessages
<1>3. opt \in Option
  BY DEF Init, NoOptions, Option
<1> QED BY <1>1, <1>2, <1>3 DEF Init, TInv, TypeOK, SessionOK, Active, Steps

(* Every variable holds a value the code can store in it; in particular no *)
(* message is deleted in a session that the session did not list.          *)
THEOREM TypesHold == Spec => []TypeOK
<1>1. Spec => []TInv
  BY TypeInit, TypeStep, PTL DEF Spec
<1> QED BY <1>1, PTL DEF TInv

-----------------------------------------------------------------------------
(* No mail is lost *)

(* A message that is in Inbox in full or need not be, and one that is or   *)
(* is still to be stored by the running check.                             *)
Kept(u) == InFull(u) \/ u \in excused
Held(u) == Kept(u) \/ pend[u] # None

(* A record waiting to be stored is of the message it is kept under. *)
PendOK == \A u \in Uidls : pend[u] # None => pend[u].rec.of = u

(* NoMailLost with what it rests on: where messages are known to be kept   *)
(* before the running check stores anything, and what its copy of the      *)
(* state and its open deletions may come to be after QUIT.                 *)
KeptOK(u) ==
  /\ InInbox(u) \/ u \in moved => Kept(u)
  /\ pc = "mark" /\ mark.uidl = u => Kept(u)
  /\ u \in idMap => Kept(u) \/ (pc = "store" /\ Held(u))
  /\ u \in gone => Kept(u) \/ (pc \in {"save", "store"} /\ Held(u))
  /\ pc \in Active \cup {"save"} /\ u \in memId \cup dele => Held(u)

MInv == TInv /\ PendOK /\ \A u \in Uidls : KeptOK(u)

LEMMA PendStep ==
  ASSUME TInv, PendOK, [Next]_vars
  PROVE  PendOK'
<1>1. ASSUME NEW v \in Uidls, NEW u \in Uidls, FetchAsMarked(u), pend'[v] # None
      PROVE  pend'[v].rec.of = v
  <2>1. Fetch(u, FALSE, DeleteFetched(u)) /\ DeleteFetched(u) \in BOOLEAN
    BY <1>1, RetainedType DEF FetchAsMarked, TInv
  <2> QED BY ZenonT(60), <1>1, <2>1, FetchEffect DEF PendOK, TInv
<1>2. ASSUME NEW v \in Uidls, NEW u \in Uidls, FetchNew(u), pend'[v] # None
      PROVE  pend'[v].rec.of = v
  <2>1. Fetch(u, TRUE, opt.delFetched) /\ opt.delFetched \in BOOLEAN
    BY <1>2, RetainedType DEF FetchNew, TInv
  <2> QED BY <1>2, <2>1, FetchEffect DEF PendOK, TInv
<1>3. ASSUME NEW u \in Uidls, Store(u) PROVE PendOK'
  BY <1>3 DEF Store, PendOK, TInv, TypeOK
<1>4. ASSUME NEW o \in Options, NEW seen \in SUBSET server, Connect(o, seen) PROVE PendOK'
  BY <1>4 DEF Connect, PendOK, NoMessages
<1>5. ASSUME Return PROVE PendOK'
  BY <1>5, ReturnEffect DEF PendOK
<1>6. ASSUME UNCHANGED pend PROVE PendOK'
  BY <1>6 DEF PendOK
<1>7. \/ \E u \in Uidls : FetchAsMarked(u) \/ FetchNew(u) \/ Store(u)
      \/ \E o \in Options : \E seen \in SUBSET server : Connect(o, seen)
      \/ Return
      \/ UNCHANGED pend
  BY DEF Next, Advance, Arrive, Expire, TakeFromInbox, MarkStored, MarkSynced, DropGone,
         DeleteAsMarked, FailInFetch, PassOver, EndOfStatuses, DeleteRest, EndOfAll, ListSizes,
         SkipBig, EndOfNew, Quit, SaveState, Done, Fail, Crash, GiveUp, session, vars
<1> QED BY <1>1, <1>2, <1>3, <1>4, <1>5, <1>6, <1>7 DEF PendOK

(* The steps that change Inbox, or which messages need not be in it. *)
LEMMA InboxNext ==
  ASSUME [Next]_vars
  PROVE  \/ \E u \in Uidls :
               \/ TakeFromInbox(u) \/ DropGone(u) \/ DeleteAsMarked(u) \/ FetchAsMarked(u)
               \/ FailInFetch(u) \/ DeleteRest(u) \/ Store(u)
               \/ \E s \in Chosen : MarkStored(u, s)
         \/ Crash
         \/ UNCHANGED <<inbox, excused, moved>>
BY DEF Next, Advance, Arrive, Expire, MarkSynced, Connect, PassOver, EndOfStatuses, EndOfAll,
       ListSizes, FetchNew, SkipBig, EndOfNew, Quit, SaveState, Done, Fail, disk, history, vars

(* What the messages in Inbox can become in any step: a message comes only *)
(* by being stored, and one that goes is excused.                          *)
LEMMA InboxStep ==
  ASSUME TInv, PendOK, [Next]_vars, NEW u \in Uidls
  PROVE  /\ Kept(u) => Kept(u)'
         /\ InInbox(u)' => InInbox(u) \/ Kept(u)'
         /\ u \in moved' => u \in moved \/ InInbox(u)
<1> DEFINE Goal == /\ Kept(u) => Kept(u)'
                   /\ InInbox(u)' => InInbox(u) \/ Kept(u)'
                   /\ u \in moved' => u \in moved \/ InInbox(u)
<1>0. TypeOK /\ "None" \in Status
  BY DEF TInv, Status
<1>1. ASSUME NEW v \in Uidls, TakeFromInbox(v) PROVE Goal
  <2>1. \A w \in Uidls : inbox'[MessageId[w]] =
                         IF MessageId[w] = MessageId[v] THEN None ELSE inbox[MessageId[w]]
    BY <1>0, <1>1, IdType DEF TakeFromInbox, TypeOK
  <2>2. InInbox(v) /\ excused' = excused \cup {v} /\ moved' \in {moved, moved \cup {v}}
    BY <1>1 DEF TakeFromInbox
  <2> QED BY <2>1, <2>2 DEF Kept, InFull, InInbox
<1>2. ASSUME NEW v \in Uidls, DropGone(v) PROVE Goal
  BY <1>0, <1>2, UpdateStoredEffect DEF DropGone, Kept
<1>3. ASSUME NEW v \in Uidls, DeleteAsMarked(v) PROVE Goal
  BY <1>0, <1>3, UpdateStoredEffect DEF DeleteAsMarked, Delete, Kept
<1>4. ASSUME NEW v \in Uidls, FetchAsMarked(v) PROVE Goal
  BY <1>0, <1>4, RetainedType, UpdateStoredEffect DEF FetchAsMarked, Kept
<1>5. ASSUME NEW v \in Uidls, FailInFetch(v) PROVE Goal
  <2>1. UNCHANGED <<excused, moved>>
    BY <1>5 DEF FailInFetch
  <2>2. (InInbox(u)' <=> InInbox(u)) /\ (InFull(u)' <=> InFull(u))
    <3>1. CASE UNCHANGED inbox
      BY <3>1 DEF InInbox, InFull
    <3>2. CASE inbox[MessageId[v]] # None
               /\ inbox' = [inbox EXCEPT ![MessageId[v]].status = Retained(v)]
      BY <1>0, <3>2, RetainedType, StatusSet
    <3> QED BY <1>5, <3>1, <3>2 DEF FailInFetch
  <2> QED BY <2>1, <2>2 DEF Kept
<1>6. ASSUME NEW v \in Uidls, DeleteRest(v) PROVE Goal
  BY <1>0, <1>6, UpdateStoredEffect DEF DeleteRest, Delete, Kept
<1>7. ASSUME NEW v \in Uidls, Store(v) PROVE Goal
  <2>1. CASE inbox' = inbox /\ excused' = excused \cup {v}
    BY <1>7, <2>1 DEF Store, Kept, InFull, InInbox
  <2>2. CASE /\ inbox' = [inbox EXCEPT ![MessageId[v]] = pend[v].rec]
             /\ excused' = IF pend[v].rec.full THEN (excused \ {v}) \cup SameId(v)
                           ELSE excused \cup {v} \cup SameId(v)
    <3>1. \A w \in Uidls : inbox'[MessageId[w]] =
            IF MessageId[w] = MessageId[v] THEN pend[v].rec ELSE inbox[MessageId[w]]
      BY <1>0, <2>2, IdType DEF TypeOK
    <3>2. pend[v] \in Fetched /\ pend[v].rec.of = v
      BY <1>0, <1>7 DEF Store, TypeOK, PendOK
    <3>3. pend[v].rec \in Record
      BY <3>2 DEF Fetched
    <3>4. pend[v].rec # None
      BY <3>3, PopRetrievalAssumption
    <3>5. CASE u = v
      BY <1>7, <2>2, <3>1, <3>2, <3>4, <3>5 DEF Store, Kept, InFull, InInbox
    <3>6. CASE u # v
      BY <1>7, <2>2, <3>1, <3>2, <3>6 DEF Store, Kept, InFull, InInbox, SameId
    <3> QED BY <3>5, <3>6
  <2> QED BY <1>7, <2>1, <2>2 DEF Store
<1>8. ASSUME NEW v \in Uidls, NEW s \in Chosen, MarkStored(v, s) PROVE Goal
  <2>1. s \in Status
    BY PopRetrievalAssumption DEF Status
  <2>2. UNCHANGED <<excused, moved>>
    BY <1>8 DEF MarkStored
  <2>3. (InInbox(u)' <=> InInbox(u)) /\ (InFull(u)' <=> InFull(u))
    <3>1. CASE UNCHANGED inbox
      BY <3>1 DEF InInbox, InFull
    <3>2. CASE InInbox(v) /\ inbox' = [inbox EXCEPT ![MessageId[v]].status = s]
      BY <1>0, <2>1, <3>2, StatusSet DEF InInbox
    <3> QED BY <1>8, <3>1, <3>2 DEF MarkStored
  <2> QED BY <2>2, <2>3 DEF Kept
<1>9. CASE Crash
  BY <1>9 DEF Crash, disk, Kept, InFull, InInbox
<1>10. CASE UNCHANGED <<inbox, excused, moved>>
  BY <1>10 DEF Kept, InFull, InInbox
<1> QED BY <1>1, <1>2, <1>3, <1>4, <1>5, <1>6, <1>7, <1>8, <1>9, <1>10, InboxNext

LEMMA KeptStep ==
  ASSUME MInv, [Next]_vars, NEW u \in Uidls
  PROVE  KeptOK(u)'
<1>0. /\ TInv /\ TypeOK /\ PendOK /\ KeptOK(u) /\ (Kept(u) => Kept(u)')
      /\ (InInbox(u) => Kept(u)) /\ (u \in moved => Kept(u))
  BY InboxStep DEF MInv, TInv, KeptOK
<1>1. InInbox(u)' \/ u \in moved' => Kept(u)'
  BY <1>0, InboxStep
<1> DEFINE
  Others == /\ pc' = "mark" /\ mark'.uidl = u => Kept(u)'
            /\ u \in idMap' => Kept(u)' \/ (pc' = "store" /\ Held(u)')
            /\ u \in gone' => Kept(u)' \/ (pc' \in {"save", "store"} /\ Held(u)')
            /\ pc' \in Active \cup {"save"} /\ u \in memId' \cup dele' => Held(u)'
<1>2. ASSUME NEW v \in Uidls, Arrive(v) \/ Expire(v) \/ TakeFromInbox(v) PROVE Others
  BY <1>0, <1>2 DEF Arrive, Expire, TakeFromInbox, KeptOK, Held, maildrop, disk, session, history
<1>3. ASSUME NEW v \in Uidls, NEW s \in Chosen, MarkStored(v, s) PROVE Others
  BY <1>0, <1>3 DEF MarkStored, KeptOK, Held, Active, Goto, maildrop, session
<1>4. ASSUME MarkSynced PROVE Others
  BY <1>0, <1>4 DEF MarkSynced, KeptOK, Held, Active, Goto, maildrop, session
<1>5. ASSUME NEW o \in Options, NEW seen \in SUBSET server, Connect(o, seen) PROVE Others
  BY <1>0, <1>5 DEF Connect, KeptOK, Held, Active, Goto, maildrop, disk, history, TInv, SessionOK
<1>6. ASSUME NEW v \in Uidls, DropGone(v) PROVE Others
  BY <1>0, <1>6, ForgetEffect DEF DropGone, KeptOK, Held, Active, maildrop
<1>7. ASSUME NEW v \in Uidls, DeleteAsMarked(v) \/ DeleteRest(v) PROVE Others
  <2>1. Delete(v) /\ Forget(v)
    BY <1>7 DEF DeleteAsMarked, DeleteRest, Delete
  <2> QED BY <1>0, <1>7, <2>1, ForgetEffect
          DEF DeleteAsMarked, DeleteRest, Delete, KeptOK, Kept, Held, Active
<1>8. ASSUME NEW v \in Uidls, FetchAsMarked(v) PROVE Others
  <2>1. Fetch(v, FALSE, DeleteFetched(v)) /\ DeleteFetched(v) \in BOOLEAN
    BY <1>0, <1>8, RetainedType DEF FetchAsMarked
  <2>2. /\ pend'[v] # None /\ memId' = memId \cup {v} /\ dele' \subseteq dele \cup {v}
        /\ u # v => pend'[u] = pend[u]
    BY <1>0, <2>1, FetchKeeps
  <2> QED BY <1>0, <1>8, <2>2 DEF FetchAsMarked, KeptOK, Held, Active
<1>9. ASSUME NEW v \in Uidls, FetchNew(v) PROVE Others
  <2>1. Fetch(v, TRUE, opt.delFetched) /\ opt.delFetched \in BOOLEAN
    BY <1>0, <1>9, RetainedType DEF FetchNew
  <2>2. /\ pend'[v] # None /\ memId' = memId \cup {v} /\ dele' \subseteq dele \cup {v}
        /\ u # v => pend'[u] = pend[u]
    BY <1>0, <2>1, FetchKeeps
  <2> QED BY <1>0, <1>9, <2>2 DEF FetchNew, KeptOK, Held, Active, disk
<1>10. ASSUME NEW v \in Uidls, PassOver(v) \/ SkipBig(v) PROVE Others
  BY <1>0, <1>10 DEF PassOver, SkipBig, KeptOK, Held, maildrop, disk, history
<1>11. ASSUME EndOfStatuses \/ EndOfAll \/ ListSizes \/ EndOfNew PROVE Others
  BY <1>0, <1>11 DEF EndOfStatuses, EndOfAll, ListSizes, EndOfNew, Goto, Active, KeptOK, Held,
                     maildrop, disk, session, history
<1>12. ASSUME Quit PROVE Others
  BY <1>0, <1>12 DEF Quit, Goto, Active, KeptOK, Held, disk, session
<1>13. ASSUME SaveState PROVE Others
  BY <1>0, <1>13 DEF SaveState, Goto, Active, KeptOK, Held, maildrop, session
<1>14. ASSUME NEW v \in Uidls, Store(v) PROVE Others
  <2>1. u # v => pend'[u] = pend[u]
    BY <1>0, <1>14 DEF Store, TypeOK
  <2>2. Kept(v)'
    <3>1. CASE excused' = excused \cup {v}
      BY <3>1 DEF Kept
    <3>2. CASE /\ inbox' = [inbox EXCEPT ![MessageId[v]] = pend[v].rec]
               /\ excused' = IF pend[v].rec.full THEN (excused \ {v}) \cup SameId(v)
                             ELSE excused \cup {v} \cup SameId(v)
      <4>1. pend[v] \in Fetched /\ pend[v].rec.of = v
        BY <1>0, <1>14 DEF Store, TypeOK, PendOK
      <4>2. pend[v].rec \in Record
        BY <4>1 DEF Fetched
      <4>3. pend[v].rec # None
        BY <4>2, PopRetrievalAssumption
      <4>4. inbox'[MessageId[v]] = pend[v].rec
        BY <1>0, <3>2, IdType DEF TypeOK
      <4> QED BY <3>2, <4>1, <4>3, <4>4 DEF Kept, InFull, InInbox
    <3> QED BY <1>14, <3>1, <3>2 DEF Store
  <2>3. Held(u) => Held(u)'
    BY <1>0, <2>1, <2>2 DEF Held
  <2> QED BY <1>0, <1>14, <2>3 DEF Store, Active, KeptOK, maildrop
<1>15. ASSUME Done PROVE Others
  <2>1. pend[u] = None
    BY <1>15 DEF Done, NoMessages
  <2> QED BY <1>0, <1>15, <2>1, ReturnEffect
          DEF Done, KeptOK, Held, Active, maildrop, disk, history, TInv, SessionOK
<1>16. ASSUME Fail PROVE Others
  BY <1>0, <1>16, ReturnEffect DEF Fail, GiveUp, KeptOK, Held, Active, disk
<1>17. ASSUME NEW v \in Uidls, FailInFetch(v) PROVE Others
  BY <1>0, <1>17, ReturnEffect DEF FailInFetch, GiveUp, KeptOK, Held, Active
<1>18. ASSUME Crash PROVE Others
  <2>1. Held(u) /\ pc \in {"save", "store"} => Kept(u)'
    BY <1>0, <1>18 DEF Crash, Kept, Held
  <2> QED BY <1>0, <1>18, <2>1, ReturnEffect DEF Crash, GiveUp, KeptOK, Active, disk
<1>19. ASSUME UNCHANGED vars PROVE Others
  BY <1>0, <1>19 DEF vars, maildrop, disk, session, history, KeptOK, Held
<1>20. Others
  BY <1>2, <1>3, <1>4, <1>5, <1>6, <1>7, <1>8, <1>9, <1>10, <1>11, <1>12, <1>13, <1>14, <1>15,
     <1>16, <1>17, <1>18, <1>19 DEF Next, Advance
<1> QED BY <1>1, <1>20 DEF KeptOK

LEMMA KeptInit ==
  ASSUME Init
  PROVE  MInv
<1>1. \A u \in Uidls : inbox[MessageId[u]] = None /\ pend[u] = None
  BY IdType DEF Init, NoMessages
<1> QED BY <1>1, TypeInit DEF Init, MInv, PendOK, KeptOK, InInbox, Active

(* No message is lost: one the client had the server delete, or knows and  *)
(* will not fetch again, is in Inbox in full or still to be stored, unless *)
(* it is excused.                                                          *)
THEOREM MailKept == Spec => []NoMailLost
<1>1. MInv /\ [Next]_vars => MInv'
  BY TypeStep, PendStep, KeptStep DEF MInv
<1>2. MInv => NoMailLost
  BY DEF MInv, KeptOK, Kept, Held, NoMailLost, TInv, TypeOK
<1> QED BY <1>1, <1>2, KeptInit, PTL DEF Spec

-----------------------------------------------------------------------------
(* No message is fetched twice as new *)

Again(u) == u \in unsaved \cup unsettled

(* What a check knows of u: a stored message that is on the server is in   *)
(* the saved state, in the check's copy of it, or deleted in the session;  *)
(* a message fetched by the check is in the copy and is not reached again; *)
(* and the loop over new messages reaches none that is known or handled.   *)
(* A listing that was cut is good for none of this, and its check does not *)
(* get as far as that loop.                                                *)
OnceOK(u) ==
  /\ u \in server \cup stored \/ pend[u] # None => u \in arrived
  /\ u \in stored \cap server => u \in idMap \/ Again(u)
  /\ pc \in Active \cup {"save"} /\ u \in stored \cap server =>
       u \in memId \cup dele \/ Again(u) \/ cut
  /\ cut => pc \in {"status", "all", "list"}
  /\ pc \in Active /\ ~cut /\ u \in stored \cap server => u \in listing
  /\ u \in dele => u \in listing /\ u \in memId \cup handled
  /\ pc \in Active \cup {"save"} /\ pend[u] # None => u \in memId
  /\ pc \in Active /\ pend[u] # None => u \notin todo
  /\ pc \in {"status", "all", "list"} /\ pend[u] # None => u \in handled
  /\ pc = "store" /\ pend[u] # None => u \in idMap \cup unsaved
  /\ pc = "new" /\ u \in todo => u \notin memId \cup handled
  /\ pend[u] # None /\ pend[u].new /\ u \in stored => Again(u)
  /\ u \in again => Again(u)

OInv == TInv /\ \A u \in Uidls : OnceOK(u)

LEMMA OnceStep ==
  ASSUME OInv, [Next]_vars, NEW u \in Uidls
  PROVE  OnceOK(u)'
<1>0. /\ TypeOK /\ SessionOK /\ OnceOK(u) /\ "None" \in Status
  BY DEF OInv, TInv, Status
<1> USE DEF Again
<1>1. ASSUME NEW v \in Uidls, Arrive(v) \/ Expire(v) \/ TakeFromInbox(v) PROVE OnceOK(u)'
  BY <1>0, <1>1 DEF Arrive, Expire, TakeFromInbox, OnceOK, Active, maildrop, disk, session, history
<1>2. ASSUME NEW v \in Uidls, NEW s \in Chosen, MarkStored(v, s) PROVE OnceOK(u)'
  BY <1>0, <1>2 DEF MarkStored, OnceOK, Active, Goto, maildrop, session
<1>3. CASE MarkSynced
  BY <1>0, <1>3 DEF MarkSynced, OnceOK, Active, Goto, maildrop, session
<1>4. ASSUME NEW o \in Options, NEW seen \in SUBSET server, Connect(o, seen) PROVE OnceOK(u)'
  <2>1. pend'[u] = None
    BY <1>4 DEF Connect, NoMessages
  <2>2. dele = {}
    BY <1>0, <1>4 DEF Connect, SessionOK, Active
  <2> QED BY <1>0, <1>4, <2>1, <2>2
          DEF Connect, OnceOK, Active, Goto, maildrop, disk, history
<1>5. ASSUME NEW v \in Uidls, DropGone(v) PROVE OnceOK(u)'
  <2>1. memId' = memId \ {v}
    BY <1>0, <1>5, ForgetEffect DEF DropGone
  <2> QED BY <1>0, <1>5, <2>1 DEF DropGone, OnceOK, Active, maildrop
<1>6. ASSUME NEW v \in Uidls, DeleteAsMarked(v) \/ DeleteRest(v) PROVE OnceOK(u)'
  <2>1. /\ memId' = memId \ {v} /\ dele' = dele \cup {v} /\ handled' = handled \cup {v}
        /\ todo' = todo \ {v} /\ v \in todo /\ pc \in {"status", "all"} /\ ~cut
        /\ UNCHANGED <<server, idMap, pc, listing, cut, pend, arrived, stored, unsaved, unsettled,
                      again>>
    BY <1>0, <1>6, ForgetEffect DEF DeleteAsMarked, DeleteRest, Delete, Answered
  <2>2. v \in listing
    BY <1>0, <1>6 DEF DeleteAsMarked, DeleteRest, SessionOK
  <2> QED BY <1>0, <2>1, <2>2 DEF OnceOK, Active
<1>7. ASSUME NEW v \in Uidls, FetchAsMarked(v) PROVE OnceOK(u)'
  <2>1. Fetch(v, FALSE, DeleteFetched(v)) /\ DeleteFetched(v) \in BOOLEAN
    BY <1>0, <1>7, RetainedType DEF FetchAsMarked
  <2>2. /\ pend'[v] # None /\ memId' = memId \cup {v} /\ dele' \subseteq dele \cup {v}
        /\ u # v => pend'[u] = pend[u]
    BY <1>0, <2>1, FetchKeeps
  <2>3. pend'[v].new = FALSE
    BY <1>0, <2>1, FetchEffect
  <2>4. /\ pc = "status" /\ handled' = handled \cup {v} /\ todo' \subseteq todo \ {v}
        /\ v \in listing
        /\ UNCHANGED <<server, idMap, pc, listing, cut, arrived, stored, unsaved, unsettled, again>>
    BY <1>7 DEF FetchAsMarked
  <2>5. dele \subseteq dele' /\ v \in arrived
    BY <1>0, <2>1, <2>4 DEF Fetch, OInv, OnceOK, SessionOK, Active
  <2> QED BY <1>0, <2>2, <2>3, <2>4, <2>5 DEF OnceOK, Active
<1>8. ASSUME NEW v \in Uidls, FetchNew(v) PROVE OnceOK(u)'
  <2>1. Fetch(v, TRUE, opt.delFetched) /\ opt.delFetched \in BOOLEAN
    BY <1>0, <1>8, RetainedType DEF FetchNew
  <2>2. /\ pend'[v] # None /\ memId' = memId \cup {v} /\ dele' \subseteq dele \cup {v}
        /\ u # v => pend'[u] = pend[u]
    BY <1>0, <2>1, FetchKeeps
  <2>3. /\ pc = "new" /\ v \in todo /\ todo' = todo \ {v} /\ v \in listing /\ v \in server
        /\ UNCHANGED <<server, idMap, pc, listing, cut, handled, arrived, stored, unsaved,
                      unsettled, again>>
    BY <1>0, <1>8 DEF FetchNew, disk, SessionOK, Active
  <2>4. dele \subseteq dele' /\ v \in arrived /\ (v \in stored => Again(v))
    BY <1>0, <2>1, <2>3 DEF Fetch, OInv, OnceOK, Active
  <2> QED BY <1>0, <2>2, <2>3, <2>4 DEF OnceOK, Active
<1>9. ASSUME NEW v \in Uidls, PassOver(v) \/ SkipBig(v) PROVE OnceOK(u)'
  BY <1>0, <1>9 DEF PassOver, SkipBig, OnceOK, Active, maildrop, disk, history
<1>10. CASE EndOfStatuses \/ EndOfAll
  BY <1>0, <1>10 DEF EndOfStatuses, EndOfAll, Goto, Active, OnceOK,
                     maildrop, disk, session, history
<1>11. CASE ListSizes \/ EndOfNew
  BY <1>0, <1>11 DEF ListSizes, Answered, NewMail, EndOfNew, Goto, Active, OnceOK,
                     maildrop, disk, session, history
<1>12. CASE Quit
  BY <1>0, <1>12 DEF Quit, Goto, Active, OnceOK, disk, session
<1>13. CASE SaveState
  <2>1. dele = {}
    BY <1>0, <1>13 DEF SaveState, SessionOK, Active
  <2> QED BY <1>0, <1>13, <2>1 DEF SaveState, Goto, Active, OnceOK, maildrop, session
<1>14. ASSUME NEW v \in Uidls, Store(v) PROVE OnceOK(u)'
  <2>1. pend'[v] = None /\ (u # v => pend'[u] = pend[u])
    BY <1>0, <1>14 DEF Store, TypeOK
  <2> QED BY <1>0, <1>14, <2>1 DEF Store, Active, OnceOK, maildrop
<1>15. ASSUME Return, UNCHANGED <<arrived, stored, unsaved, unsettled, again, idMap, server>>,
              dele' = {}
       PROVE  OnceOK(u)'
  BY <1>0, <1>15, ReturnEffect DEF OnceOK, Active
<1>16. CASE Done
  BY <1>0, <1>15, <1>16 DEF Done, SessionOK, Active, maildrop, disk, history
<1>17. CASE Fail
  BY <1>15, <1>17 DEF Fail, GiveUp, disk
<1>18. ASSUME NEW v \in Uidls, FailInFetch(v) PROVE OnceOK(u)'
  BY <1>15, <1>18 DEF FailInFetch, GiveUp
<1>19. CASE Crash
  BY <1>15, <1>19 DEF Crash, GiveUp, disk
<1>20. CASE UNCHANGED vars
  BY <1>0, <1>20 DEF vars, maildrop, disk, session, history, OnceOK
<1> QED
  BY <1>1, <1>2, <1>3, <1>4, <1>5, <1>6, <1>7, <1>8, <1>9, <1>10, <1>11, <1>12, <1>13, <1>14,
     <1>16, <1>17, <1>18, <1>19, <1>20 DEF Next, Advance

LEMMA OnceInit ==
  ASSUME Init
  PROVE  OInv
BY TypeInit DEF Init, OInv, OnceOK, NoMessages, Active

(* No message that was stored is retrieved as new mail again, unless the   *)
(* state of the check that fetched it was not saved or its deletion was    *)
(* entered in the state and never reached the server.                      *)
THEOREM NoneFetchedTwice == Spec => []FetchedOnce
<1>1. OInv /\ [Next]_vars => OInv'
  BY TypeStep, OnceStep DEF OInv
<1>2. OInv => FetchedOnce
  BY DEF OInv, OnceOK, Again, FetchedOnce, TInv, TypeOK
<1> QED BY <1>1, <1>2, OnceInit, PTL DEF Spec

-----------------------------------------------------------------------------
(* Only what was asked for is deleted *)

ForDeletion == {"Delete", "FetchDelete"}

(* The saved state and a check's copy of it ask for the deletions the user *)
(* last marked, and what a session deletes was marked, is deleted with     *)
(* everything, or was fetched in it.                                       *)
AskedOK(u) ==
  /\ statusMap[u] \in ForDeletion => wish[u] \in ForDeletion
  /\ pc \in Active \cup {"save"} /\ memStatus[u] \in ForDeletion => wish[u] \in ForDeletion
  /\ pc = "all" => opt.deleteAll
  /\ pc \in Active /\ u \in dele =>
       wish[u] \in ForDeletion \/ opt.deleteAll \/ (opt.delFetched /\ pend[u] # None)

AInv == TInv /\ \A u \in Uidls : AskedOK(u)

LEMMA AskedStep ==
  ASSUME AInv, [Next]_vars, NEW u \in Uidls
  PROVE  AskedOK(u)'
<1>0. /\ TInv /\ TypeOK /\ SessionOK /\ AskedOK(u)
  BY DEF AInv, TInv
<1> USE DEF ForDeletion
<1>1. ASSUME NEW v \in Uidls, Arrive(v) \/ Expire(v) \/ TakeFromInbox(v) PROVE AskedOK(u)'
  BY <1>0, <1>1 DEF Arrive, Expire, TakeFromInbox, AskedOK, maildrop, disk, session, history
<1>2. ASSUME NEW v \in Uidls, NEW s \in Chosen, MarkStored(v, s) PROVE AskedOK(u)'
  BY <1>0, <1>2 DEF MarkStored, AskedOK, Active, Goto, maildrop, session
<1>3. CASE MarkSynced
  <2>1. mark.uidl \in Uidls
    BY <1>0, <1>3 DEF MarkSynced, TypeOK, SessionOK
  <2> QED BY <1>0, <1>3, <2>1 DEF MarkSynced, AskedOK, Active, Goto, maildrop, session, TypeOK
<1>4. ASSUME NEW o \in Options, NEW seen \in SUBSET server, Connect(o, seen) PROVE AskedOK(u)'
  BY <1>0, <1>4 DEF Connect, AskedOK, Active, Goto, maildrop, disk, history, SessionOK
<1>5. ASSUME NEW v \in Uidls, DropGone(v) PROVE AskedOK(u)'
  BY <1>0, <1>5, ForgetEffect DEF DropGone, AskedOK, Active, maildrop
<1>6. ASSUME NEW v \in Uidls, DeleteAsMarked(v) PROVE AskedOK(u)'
  BY <1>0, <1>6, ForgetEffect DEF DeleteAsMarked, Delete, DeleteMarked, AskedOK, Active
<1>7. ASSUME NEW v \in Uidls, DeleteRest(v) PROVE AskedOK(u)'
  BY <1>0, <1>7, ForgetEffect DEF DeleteRest, Delete, AskedOK, Active
<1>8. ASSUME NEW v \in Uidls, FetchAsMarked(v) PROVE AskedOK(u)'
  <2>1. Fetch(v, FALSE, DeleteFetched(v)) /\ DeleteFetched(v) \in BOOLEAN
    BY <1>0, <1>8, RetainedType DEF FetchAsMarked
  <2>2. /\ pend'[v] # None /\ (u # v => pend'[u] = pend[u] /\ memStatus'[u] = memStatus[u])
        /\ memStatus'[v] \in {"None", "Leave"}
    BY <1>0, <2>1, FetchKeeps
  <2>3. u \in dele' \ dele => u = v /\ (opt.delFetched \/ memStatus[v] = "FetchDelete")
    BY <2>1 DEF Fetch, DeleteFetched
  <2> QED BY <1>0, <1>8, <2>2, <2>3 DEF FetchAsMarked, AskedOK, Active
<1>9. ASSUME NEW v \in Uidls, FetchNew(v) PROVE AskedOK(u)'
  <2>1. Fetch(v, TRUE, opt.delFetched) /\ opt.delFetched \in BOOLEAN
    BY <1>0, <1>9, RetainedType DEF FetchNew
  <2>2. /\ pend'[v] # None /\ (u # v => pend'[u] = pend[u] /\ memStatus'[u] = memStatus[u])
        /\ memStatus'[v] \in {"None", "Leave"}
    BY <1>0, <2>1, FetchKeeps
  <2>3. u \in dele' \ dele => u = v /\ opt.delFetched
    BY <2>1 DEF Fetch
  <2> QED BY <1>0, <1>9, <2>2, <2>3 DEF FetchNew, AskedOK, Active, disk
<1>10. ASSUME NEW v \in Uidls, PassOver(v) \/ SkipBig(v) PROVE AskedOK(u)'
  BY <1>0, <1>10 DEF PassOver, SkipBig, AskedOK, maildrop, disk, history
<1>11. CASE EndOfStatuses \/ EndOfAll \/ ListSizes \/ EndOfNew
  BY <1>0, <1>11 DEF EndOfStatuses, EndOfAll, ListSizes, EndOfNew, Goto, Active, AskedOK,
                     maildrop, disk, session, history
<1>12. CASE Quit
  BY <1>0, <1>12 DEF Quit, Goto, Active, AskedOK, disk, session
<1>13. CASE SaveState
  BY <1>0, <1>13 DEF SaveState, Goto, Active, AskedOK, maildrop, session
<1>14. ASSUME NEW v \in Uidls, Store(v) PROVE AskedOK(u)'
  BY <1>0, <1>14 DEF Store, Active, AskedOK, maildrop
<1>15. CASE Done
  BY <1>0, <1>15, ReturnEffect DEF Done, Active, AskedOK, maildrop, disk, history
<1>16. CASE Fail
  BY <1>0, <1>16, ReturnEffect DEF Fail, GiveUp, Active, AskedOK, disk
<1>17. ASSUME NEW v \in Uidls, FailInFetch(v) PROVE AskedOK(u)'
  BY <1>0, <1>17, ReturnEffect DEF FailInFetch, GiveUp, Active, AskedOK
<1>18. CASE Crash
  BY <1>0, <1>18, ReturnEffect DEF Crash, GiveUp, Active, AskedOK, disk
<1>19. CASE UNCHANGED vars
  BY <1>0, <1>19 DEF vars, maildrop, disk, session, history, AskedOK
<1> QED
  BY <1>1, <1>2, <1>3, <1>4, <1>5, <1>6, <1>7, <1>8, <1>9, <1>10, <1>11, <1>12, <1>13, <1>14,
     <1>15, <1>16, <1>17, <1>18, <1>19 DEF Next, Advance

LEMMA AskedInit ==
  ASSUME Init
  PROVE  AInv
BY TypeInit DEF Init, AInv, AskedOK, NoStatus, ForDeletion, Active

(* The server deletes for the client only messages the user's last mark    *)
(* says to delete, or what the running check was told to: all, or what it  *)
(* fetched.                                                                *)
THEOREM DeletionsAsked == Spec => OnlyAskedDeletions
<1>1. AInv /\ [Next]_vars => AInv'
  BY TypeStep, AskedStep DEF AInv
<1>2. ASSUME AInv, [Next]_vars, NEW u \in gone' \ gone
      PROVE  wish[u] \in ForDeletion \/ opt.deleteAll \/ (opt.delFetched /\ pend[u] # None)
  <2>1. CASE Quit
    <3>1. u \in dele /\ u \in Uidls /\ pc \in Active
      BY <1>2, <2>1 DEF Quit, Active, AInv, TInv, TypeOK
    <3> QED BY <1>2, <3>1 DEF AInv, AskedOK
  <2>2. CASE ~Quit
    <3>1. UNCHANGED gone
      BY <1>2, <2>2 DEF Next, Advance, Arrive, Expire, TakeFromInbox, MarkStored, MarkSynced,
           Connect, DropGone, DeleteAsMarked, FetchAsMarked, FailInFetch, PassOver, EndOfStatuses,
           DeleteRest, EndOfAll, ListSizes, FetchNew, SkipBig, EndOfNew, SaveState, Store, Done,
           Fail, Crash, history, vars
    <3> QED BY <1>2, <3>1
  <2> QED BY <2>1, <2>2
<1>3. AInv /\ [Next]_vars =>
        [\A u \in gone' \ gone :
           \/ wish[u] \in {"Delete", "FetchDelete"}
           \/ opt.deleteAll
           \/ opt.delFetched /\ pend[u] # None]_vars
  BY <1>2 DEF ForDeletion
<1> QED BY <1>1, <1>3, AskedInit, PTL DEF Spec, OnlyAskedDeletions

-----------------------------------------------------------------------------
(* Marks are shown as they are saved *)

(* The status shown for a message of Inbox: between operations it is the   *)
(* saved one; during a check that of the copy, unless the message waits to *)
(* be stored, and the saved one, unless the check has changed that.        *)
StatusOK(u) ==
  /\ pc = "idle" => StatusOf(u) = statusMap[u]
  /\ pc = "mark" => StatusOf(u) = IF mark.uidl = u THEN mark.status ELSE statusMap[u]
  /\ pc \in Active \cup {"save"} =>
       /\ memStatus[u] = statusMap[u] => StatusOf(u) = statusMap[u]
       /\ pend[u] = None => StatusOf(u) = memStatus[u]
  /\ pc = "store" /\ pend[u] = None => StatusOf(u) = statusMap[u]

(* A message waiting to be stored has the status of the copy, then of the  *)
(* saved state; both maps of a state know a message with a status; and the *)
(* copy knows the messages of the saved state that it has not handled.     *)
ShownOK(u) ==
  /\ u \notin askew /\ InInbox(u) => StatusOK(u)
  /\ pend[u] # None =>
       /\ pc \in Active \cup {"save"} => pend[u].rec.status = memStatus[u]
       /\ pc = "store" /\ u \notin askew => pend[u].rec.status = statusMap[u]
  /\ statusMap[u] # "None" => u \in idMap
  /\ pc \in Active \cup {"save"} /\ memStatus[u] # "None" => u \in memId
  /\ pc \in Active /\ u \in idMap \ memId => u \in handled \/ u \notin listing

HInv == OInv /\ PendOK /\ \A u \in Uidls : ShownOK(u)

LEMMA ShownStep ==
  ASSUME HInv, [Next]_vars, NEW u \in Uidls
  PROVE  ShownOK(u)'
<1>0. /\ TInv /\ TypeOK /\ SessionOK /\ ShownOK(u) /\ OnceOK(u) /\ "None" \in Status /\ PendOK
  BY DEF HInv, OInv, TInv, Status
<1>a. ASSUME UNCHANGED inbox PROVE (InInbox(u)' <=> InInbox(u)) /\ StatusOf(u)' = StatusOf(u)
  BY <1>a DEF InInbox, StatusOf
<1>1. ASSUME NEW v \in Uidls, Arrive(v) \/ Expire(v) PROVE ShownOK(u)'
  BY <1>0, <1>a, <1>1 DEF Arrive, Expire, ShownOK, StatusOK, maildrop, disk, session, history
<1>2. ASSUME NEW v \in Uidls, TakeFromInbox(v) PROVE ShownOK(u)'
  <2>1. InInbox(u)' => InInbox(u) /\ StatusOf(u)' = StatusOf(u)
    BY <1>0, <1>2, IdType DEF TakeFromInbox, InInbox, StatusOf, TypeOK
  <2> QED BY <1>0, <1>2, <2>1 DEF TakeFromInbox, ShownOK, StatusOK, maildrop, session
<1>3. ASSUME NEW v \in Uidls, NEW s \in Chosen, MarkStored(v, s) PROVE ShownOK(u)'
  <2>1. s \in Status
    BY PopRetrievalAssumption DEF Status
  <2>2. /\ mark'.uidl = v /\ mark'.status = s
        /\ pc' = "mark" /\ pc = "idle" /\ askew \subseteq askew'
        /\ UNCHANGED <<idMap, statusMap, memId, memStatus, pend>>
    BY <1>3 DEF MarkStored, Goto, session
  <2>3. CASE InInbox(v) /\ inbox' = [inbox EXCEPT ![MessageId[v]].status = s] /\ UNCHANGED askew
    <3>1. /\ InInbox(u)' <=> InInbox(u)
          /\ InInbox(u) => StatusOf(u)' = IF MessageId[u] = MessageId[v] THEN s ELSE StatusOf(u)
      BY <1>0, <2>1, <2>3, StatusSet DEF InInbox
    <3>2. InInbox(u) => (MessageId[u] = MessageId[v] <=> u = v)
      BY <2>3 DEF InInbox
    <3> QED BY <1>0, <2>2, <2>3, <3>1, <3>2 DEF ShownOK, StatusOK, Active
  <2>4. CASE askew' = askew \cup {v} /\ UNCHANGED inbox
    BY <1>0, <1>a, <2>2, <2>4 DEF ShownOK, StatusOK, Active
  <2> QED BY <1>3, <2>3, <2>4 DEF MarkStored
<1>4. CASE MarkSynced
  <2>1. mark.uidl \in Uidls
    BY <1>0, <1>4 DEF MarkSynced, TypeOK, SessionOK
  <2> QED BY <1>0, <1>a, <1>4, <2>1
          DEF MarkSynced, ShownOK, StatusOK, Active, Goto, maildrop, session, TypeOK
<1>5. ASSUME NEW o \in Options, NEW seen \in SUBSET server, Connect(o, seen) PROVE ShownOK(u)'
  <2>1. pend'[u] = None
    BY <1>5 DEF Connect, NoMessages
  <2> QED BY <1>0, <1>a, <1>5, <2>1
          DEF Connect, ShownOK, StatusOK, Active, Goto, maildrop, disk, history
<1>6. ASSUME NEW v \in Uidls, UpdateStored(v, "None"), Forget(v),
             pc \in Active, v \in todo, v \in handled' \/ v \notin listing,
             handled \subseteq handled',
             UNCHANGED <<idMap, statusMap, pc, listing, pend>>
      PROVE  ShownOK(u)'
  <2>1. /\ InInbox(u)' <=> InInbox(u) /\ askew \subseteq askew'
        /\ InInbox(u) /\ u \notin askew' => StatusOf(u)' = IF u = v THEN "None" ELSE StatusOf(u)
    BY <1>0, <1>6, UpdateStoredEffect
  <2>2. /\ memId' = memId \ {v} /\ memStatus'[v] = "None"
        /\ u # v => memStatus'[u] = memStatus[u]
    BY <1>0, <1>6, ForgetEffect
  <2>3. pend[v] = None
    BY <1>6 DEF HInv, OInv, OnceOK
  <2> QED BY <1>0, <1>6, <2>1, <2>2, <2>3 DEF ShownOK, StatusOK, Active
<1>7. ASSUME NEW v \in Uidls, DropGone(v) \/ DeleteAsMarked(v) \/ DeleteRest(v) PROVE ShownOK(u)'
  BY <1>6, <1>7 DEF DropGone, DeleteAsMarked, DeleteRest, Delete, Active, maildrop
<1>8. ASSUME NEW v \in Uidls, FetchAsMarked(v) PROVE ShownOK(u)'
  <2>1. Fetch(v, FALSE, DeleteFetched(v)) /\ DeleteFetched(v) \in BOOLEAN
    BY <1>0, <1>8, RetainedType DEF FetchAsMarked
  <2>2. /\ pend'[v] # None /\ memId' = memId \cup {v}
        /\ u # v => pend'[u] = pend[u] /\ memStatus'[u] = memStatus[u]
    BY <1>0, <2>1, FetchKeeps
  <2>3. pend'[v].rec.status = Retained(v) /\ memStatus'[v] = Retained(v)
    <3>1. memStatus'[v] = Retained(v)
      BY <1>0, <2>1 DEF Fetch, TypeOK, Retained
    <3> QED BY <1>0, <2>1, <3>1, FetchKeeps
  <2>4. UpdateStored(v, Retained(v)) /\ Retained(v) \in Status
    BY <1>0, <1>8, RetainedType DEF FetchAsMarked
  <2>5. /\ InInbox(u)' <=> InInbox(u) /\ askew \subseteq askew'
        /\ InInbox(u) /\ u \notin askew' =>
             StatusOf(u)' = IF u = v THEN Retained(v) ELSE StatusOf(u)
    BY <1>0, <2>4, UpdateStoredEffect
  <2>6. /\ pc = "status" /\ handled \subseteq handled'
        /\ UNCHANGED <<pc, idMap, statusMap, listing>>
    BY <1>8 DEF FetchAsMarked
  <2> QED BY <1>0, <2>2, <2>3, <2>5, <2>6 DEF ShownOK, StatusOK, Active
<1>9. ASSUME NEW v \in Uidls, FetchNew(v) PROVE ShownOK(u)'
  <2>1. Fetch(v, TRUE, opt.delFetched) /\ opt.delFetched \in BOOLEAN
    BY <1>0, <1>9, RetainedType DEF FetchNew
  <2>2. /\ pend'[v] # None /\ memId' = memId \cup {v}
        /\ u # v => pend'[u] = pend[u] /\ memStatus'[u] = memStatus[u]
    BY <1>0, <2>1, FetchKeeps
  <2>3. pend'[v].rec.status = memStatus'[v]
    BY <1>0, <2>1, FetchKeeps
  <2>4. /\ pc = "new" /\ v \in todo /\ v \in listing
        /\ UNCHANGED <<pc, idMap, statusMap, listing, handled, inbox, askew>>
    BY <1>0, <1>9 DEF FetchNew, SessionOK, disk
  <2>5. pend[v] = None /\ v \notin memId /\ v \notin handled
    BY <2>4 DEF HInv, OInv, OnceOK, Active
  <2>6. statusMap[v] = "None" /\ memStatus[v] = "None"
    BY <2>4, <2>5 DEF HInv, ShownOK, Active
  <2>7. v \notin askew /\ InInbox(v) => StatusOf(v) = statusMap[v]
    BY <2>4, <2>6 DEF HInv, ShownOK, StatusOK, Active
  <2> QED BY <1>0, <1>a, <2>2, <2>3, <2>4, <2>6, <2>7 DEF ShownOK, StatusOK, Active
<1>10. ASSUME NEW v \in Uidls, PassOver(v) \/ SkipBig(v) PROVE ShownOK(u)'
  BY <1>0, <1>a, <1>10 DEF PassOver, SkipBig, ShownOK, StatusOK, maildrop, disk, history
<1>11. CASE EndOfStatuses \/ EndOfAll \/ ListSizes \/ EndOfNew
  BY <1>0, <1>a, <1>11 DEF EndOfStatuses, EndOfAll, ListSizes, EndOfNew, Goto, Active, ShownOK,
                           StatusOK, maildrop, disk, session, history
<1>12. CASE Quit
  BY <1>0, <1>a, <1>12 DEF Quit, Goto, Active, ShownOK, StatusOK, disk, session
<1>13. CASE SaveState
  BY <1>0, <1>a, <1>13 DEF SaveState, Changed, Goto, Active, ShownOK, StatusOK, maildrop, session
<1>14. ASSUME NEW v \in Uidls, Store(v) PROVE ShownOK(u)'
  <2>1. pend'[v] = None /\ (u # v => pend'[u] = pend[u])
    BY <1>0, <1>14 DEF Store, TypeOK
  <2>2. /\ pc = "store" /\ askew \subseteq askew' /\ pend[v] # None
        /\ UNCHANGED <<pc, idMap, statusMap, memId, memStatus>>
    BY <1>14 DEF Store
  <2>3. CASE UNCHANGED inbox /\ askew' = askew \cup {v}
    BY <1>0, <1>a, <2>1, <2>2, <2>3 DEF ShownOK, StatusOK, Active
  <2>4. CASE inbox' = [inbox EXCEPT ![MessageId[v]] = pend[v].rec] /\ UNCHANGED askew
    <3>1. inbox'[MessageId[u]] =
            IF MessageId[u] = MessageId[v] THEN pend[v].rec ELSE inbox[MessageId[u]]
      BY <1>0, <2>4, IdType DEF TypeOK
    <3>2. pend[v].rec.of = v
      BY <1>0, <2>2 DEF PendOK
    <3>3. u # v /\ InInbox(u)' => InInbox(u) /\ StatusOf(u)' = StatusOf(u)
      BY <3>1, <3>2 DEF InInbox, StatusOf
    <3>4. u = v => StatusOf(u)' = pend[v].rec.status
      BY <3>1 DEF StatusOf
    <3> QED BY <1>0, <2>1, <2>2, <2>4, <3>3, <3>4 DEF ShownOK, StatusOK, Active
  <2> QED BY <1>14, <2>3, <2>4 DEF Store
<1>15. ASSUME UNCHANGED <<idMap, statusMap>>, askew \subseteq askew', Return,
              InInbox(u)' /\ u \notin askew' => StatusOf(u)' = statusMap[u]
       PROVE  ShownOK(u)'
  BY <1>0, <1>15, ReturnEffect DEF ShownOK, StatusOK, Active
<1>16. CASE Done
  <2>1. pend[u] = None
    BY <1>16 DEF Done, NoMessages
  <2> QED BY <1>0, <1>a, <1>15, <1>16, <2>1 DEF Done, disk, history, ShownOK, StatusOK
<1>17. CASE Fail
  BY <1>0, <1>a, <1>15, <1>17 DEF Fail, GiveUp, disk, Changed, Active, ShownOK, StatusOK
<1>18. ASSUME NEW v \in Uidls, FailInFetch(v) PROVE ShownOK(u)'
  <2>1. /\ pc = "status" /\ Return /\ UNCHANGED <<idMap, statusMap>>
        /\ askew' = askew \cup Changed \cup {v} \cup SameId(v)
    BY <1>18 DEF FailInFetch, GiveUp
  <2>2. InInbox(u)' /\ u \notin askew' => InInbox(u) /\ StatusOf(u)' = StatusOf(u)
    <3>1. CASE UNCHANGED inbox
      BY <1>a, <3>1
    <3>2. CASE inbox[MessageId[v]] # None
               /\ inbox' = [inbox EXCEPT ![MessageId[v]].status = Retained(v)]
      <4>1. /\ InInbox(u)' <=> InInbox(u)
            /\ InInbox(u) /\ MessageId[u] # MessageId[v] => StatusOf(u)' = StatusOf(u)
        BY <1>0, <3>2, RetainedType, StatusSet
      <4>2. InInbox(u) /\ MessageId[u] = MessageId[v] => u \in askew'
        BY <2>1 DEF SameId
      <4> QED BY <4>1, <4>2
    <3> QED BY <1>18, <3>1, <3>2 DEF FailInFetch
  <2>3. InInbox(u)' /\ u \notin askew' => StatusOf(u)' = statusMap[u]
    BY <1>0, <2>1, <2>2 DEF Changed, Active, ShownOK, StatusOK
  <2> QED BY <1>15, <2>1, <2>3
<1>19. CASE Crash
  <2>1. u \notin askew' => u \notin askew /\ (pc = "mark" => mark.uidl # u)
                          /\ (pc # "mark" => pend[u] = None /\ memStatus[u] = statusMap[u])
    BY <1>19 DEF Crash, Changed
  <2>2. pc \in Active \cup {"mark", "save", "store"}
    BY <1>0, <1>19 DEF Crash, TypeOK, Steps, Active
  <2>3. InInbox(u)' /\ u \notin askew' => StatusOf(u)' = statusMap[u]
    BY <1>0, <1>a, <1>19, <2>1, <2>2 DEF Crash, disk, ShownOK, StatusOK
  <2>4. askew \subseteq askew'
    BY <1>19 DEF Crash
  <2> QED BY <1>15, <1>19, <2>3, <2>4 DEF Crash, GiveUp, disk
<1>20. CASE UNCHANGED vars
  BY <1>0, <1>a, <1>20 DEF vars, maildrop, disk, session, history, ShownOK, StatusOK
<1> QED
  BY <1>1, <1>2, <1>3, <1>4, <1>5, <1>7, <1>8, <1>9, <1>10, <1>11, <1>12, <1>13, <1>14,
     <1>16, <1>17, <1>18, <1>19, <1>20 DEF Next, Advance

LEMMA ShownInit ==
  ASSUME Init
  PROVE  HInv
<1>1. \A u \in Uidls : inbox[MessageId[u]] = None /\ pend[u] = None
  BY IdType DEF Init, NoMessages
<1> QED BY <1>1, OnceInit DEF Init, HInv, PendOK, ShownOK, InInbox, NoStatus, Active

(* Between operations the mark shown for a message of Inbox is the one the *)
(* next check will act on, unless a write of either failed, a check failed *)
(* after changing the record, or the process died in between.              *)
THEOREM MarksShownAsSaved == Spec => []ShownAsSaved
<1>1. HInv /\ [Next]_vars => HInv'
  BY TypeStep, OnceStep, PendStep, ShownStep DEF HInv, OInv
<1>2. HInv => ShownAsSaved
  BY DEF HInv, ShownOK, StatusOK, StatusOf, ShownAsSaved
<1> QED BY <1>1, <1>2, ShownInit, PTL DEF Spec

-----------------------------------------------------------------------------
(* The end of a check, without the scheduler.  CheckEnds is TLC's; what is  *)
(* proved is why no check can go on for ever, for any number of messages.  *)

(* The loops and calls of a check, in their order. *)
Place == [mark |-> 0, status |-> 0, all |-> 1, list |-> 2, new |-> 3, quit |-> 4, save |-> 5,
          store |-> 6]

(* What the loop it is in has not reached. *)
Work == IF pc = "store" THEN {u \in Uidls : pend[u] # None} ELSE todo

(* The step ends the check, leaves a loop for a later one, or takes at     *)
(* least one message from what the loop has to do.                         *)
MovesOn ==
  \/ pc' = "idle"
  \/ Place[pc'] > Place[pc]
  \/ (pc' = pc /\ Work' \subseteq Work /\ Work' # Work)

Waits == pc' = pc /\ Work' = Work

(* Each step of CheckMailInternal and FetchMessages moves the check on:    *)
(* the status loop too, whatever entries a double erase leaves it.         *)
LEMMA AdvanceMovesOn ==
  ASSUME TypeOK, Advance \/ MarkSynced \/ Fail \/ Crash \/ (\E u \in Uidls : FailInFetch(u))
  PROVE  MovesOn
<1>1. ASSUME NEW u \in Uidls, DropGone(u) \/ DeleteAsMarked(u) \/ PassOver(u) PROVE MovesOn
  BY <1>1 DEF DropGone, DeleteAsMarked, PassOver, MovesOn, Work
<1>2. ASSUME NEW u \in Uidls, FetchAsMarked(u) PROVE MovesOn
  <2>1. pc = "status" /\ pc' = pc /\ u \in todo
    BY <1>2 DEF FetchAsMarked
  <2>2. todo' \subseteq todo \ {u}
    BY <1>2 DEF FetchAsMarked
  <2>3. u \notin todo'
    BY <2>2
  <2> QED BY <2>1, <2>2, <2>3 DEF MovesOn, Work
<1>3. ASSUME NEW u \in Uidls, DeleteRest(u) \/ FetchNew(u) \/ SkipBig(u) PROVE MovesOn
  BY <1>3 DEF DeleteRest, FetchNew, SkipBig, MovesOn, Work
<1>4. ASSUME NEW u \in Uidls, Store(u) PROVE MovesOn
  <2>1. pc = "store" /\ pc' = pc /\ pend[u] # None /\ pend' = [pend EXCEPT ![u] = None]
    BY <1>4 DEF Store
  <2>2. u \in Work /\ Work' = Work \ {u}
    BY <2>1 DEF Work, TypeOK
  <2> QED BY <2>1, <2>2 DEF MovesOn
<1>5. ASSUME EndOfStatuses \/ EndOfAll \/ ListSizes \/ EndOfNew \/ Quit \/ SaveState
      PROVE  MovesOn
  BY <1>5 DEF EndOfStatuses, EndOfAll, ListSizes, EndOfNew, Quit, SaveState, Goto, MovesOn, Place
<1>6. ASSUME Done \/ Fail \/ Crash \/ MarkSynced PROVE MovesOn
  BY <1>6 DEF Done, Fail, Crash, MarkSynced, GiveUp, Return, Goto, MovesOn
<1>7. ASSUME NEW u \in Uidls, FailInFetch(u) PROVE MovesOn
  BY <1>7 DEF FailInFetch, GiveUp, Return, Goto, MovesOn
<1> QED BY <1>1, <1>2, <1>3, <1>4, <1>5, <1>6, <1>7 DEF Advance

(* A check is never given more to do, by the server or by other windows,   *)
(* and each of its own steps ends it, goes on to a later loop or takes a   *)
(* message from the loop it is in.  There are seven, and none is entered   *)
(* twice: over n messages a check takes at most 4n + 7 steps, and          *)
(* FetchMessages has no way to run for ever.                               *)
THEOREM ChecksMoveOn ==
  Spec => [][pc # "idle" => /\ MovesOn \/ Waits
                            /\ Advance \/ MarkSynced => MovesOn]_vars
<1>1. TypeOK /\ [Next]_vars =>
        [pc # "idle" => /\ MovesOn \/ Waits
                        /\ Advance \/ MarkSynced => MovesOn]_vars
  <2> SUFFICES ASSUME TypeOK, [Next]_vars, pc # "idle"
               PROVE  /\ MovesOn \/ Waits
                      /\ Advance \/ MarkSynced => MovesOn
    OBVIOUS
  <2>1. ASSUME NEW u \in Uidls, Arrive(u) \/ TakeFromInbox(u) PROVE Waits
    BY <2>1 DEF Arrive, TakeFromInbox, session, Waits, Work
  <2>2. ASSUME UNCHANGED vars PROVE Waits
    BY <2>2 DEF vars, session, Waits, Work
  <2>3. \A u \in Uidls : ~Expire(u) /\ \A s \in Chosen : ~MarkStored(u, s)
    BY DEF Expire, MarkStored
  <2>4. \A o \in Options : \A seen \in SUBSET server : ~Connect(o, seen)
    BY DEF Connect
  <2> QED BY <2>1, <2>2, <2>3, <2>4, AdvanceMovesOn DEF Next
<1> QED BY <1>1, TypesHold, PTL DEF Spec
=============================================================================
