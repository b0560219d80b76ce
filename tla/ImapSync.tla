------------------------------ MODULE ImapSync ------------------------------
(***************************************************************************)
(* The synchronisation of an IMAP mailbox against a server other clients   *)
(* use too: CheckMailInternal, RefreshMailbox and SyncMailbox of           *)
(* MailTransportCoordinator, the sync state file, and the redownload of a  *)
(* message.                                                                *)
(*                                                                         *)
(* The mailboxes are those whose names have one local id: one as a rule,   *)
(* and then they share the state file and the records, whose ids hold the  *)
(* local id and the UID.                                                   *)
(*                                                                         *)
(* Every window is a thread; the user reads, labels and erases meanwhile.  *)
(* The process may die, and saves and commands may fail.                   *)
(***************************************************************************)
EXTENDS Integers, FiniteSets, FiniteSetsExt

CONSTANTS
  Windows,      \* windows that check mail
  Boxes,        \* remote mailboxes with the one local id
  Listed,       \* the first of them in the list: its remote_name
  Mail,         \* messages that arrive
  Validities,   \* values of UIDVALIDITY
  MaxUid,       \* bound on UIDs
  IntMax,       \* the largest number GetInt reads
  HeadersOnly,  \* imap_download_mode is minimal headers
  MaxFaults,    \* bound on failed saves and crashes
  MaxCalls,     \* bound on what the user does
  None

VARIABLES
  validity,  \* validity[n]: UIDVALIDITY of n
  uid,       \* uid[n][m]: the UID of message m in n, or 0
  next,      \* next[n]: the UID the next message of n gets
  arriving,  \* messages that have not arrived yet
  file,      \* the sync state file
  store,     \* store[u]: the record of the id with UID u, or None
  wanted,    \* the waiting redownloads, by UID
  pc,        \* pc[w]: the next step of the check in window w
  jobs,      \* jobs[w]: the redownloads it has listed
  job,       \* job[w]: the one under way and the record before, or None
  mem,       \* mem[w]: the mailbox, whether from the first UID, the state
  batch,     \* batch[w]: messages fetched and not saved yet
  faults, calls,
  (* history, read by the properties only *)
  missed,    \* messages below the last seen UID that were not saved
  dropped,   \* UIDs whose redownload was cancelled
  clean,     \* windows whose synchronisation nothing has disturbed
  top,       \* the largest last seen UID there was to save
  origin     \* what the last seen UID of the file counts

server == <<validity, uid, next, arriving>>
check == <<pc, jobs, job, mem, batch>>
history == <<missed, dropped, clean, top, origin>>
bounded == <<faults, calls>>
vars == <<server, file, store, wanted, check, bounded, history>>

Uids == 1..MaxUid

(* A record: its message, whether it has the text, and a label. *)
Record == [of : Mail, body : BOOLEAN, label : BOOLEAN]

State == [validity : Validities \cup {0}, seen : 0..MaxUid]

(* History of the last seen UID in the state file: the mailbox and          *)
(* UIDVALIDITY it was made under, and up to where it is from another.       *)
Origin == [name : Boxes, validity : Validities \cup {0}, hidden : 0..MaxUid]

(* What SyncMailbox is given: again, if the UIDVALIDITY was another.  *)
Memory == [name : Boxes, full : BOOLEAN, again : BOOLEAN, low : BOOLEAN,
           state : State, origin : Origin]

ASSUME ImapSyncAssumption ==
  /\ Listed \in Boxes
  /\ Validities \subseteq Nat \ {0} /\ Validities # {}
  /\ MaxUid \in Nat \ {0} /\ IntMax \in Nat \ {0} /\ MaxFaults \in Nat /\ MaxCalls \in Nat
  /\ HeadersOnly \in BOOLEAN
  /\ None \notin Record

Nothing == [validity |-> 0, seen |-> 0]

Init ==
  /\ validity \in [Boxes -> Validities]
  /\ uid = [n \in Boxes |-> [m \in Mail |-> 0]]
  /\ next = [n \in Boxes |-> 1]
  /\ arriving = Mail
  /\ file = Nothing
  /\ store = [u \in Uids |-> None]
  /\ wanted = {}
  /\ pc = [w \in Windows |-> "idle"]
  /\ jobs = [w \in Windows |-> {}] /\ job = [w \in Windows |-> None]
  /\ mem = [w \in Windows |-> None]
  /\ batch = [w \in Windows |-> {}]
  /\ faults = 0 /\ calls = 0
  /\ missed = {} /\ dropped = {} /\ clean = {} /\ top = 0
  /\ origin = [name |-> Listed, validity |-> 0, hidden |-> 0]

-----------------------------------------------------------------------------
(* The server and its other clients *)

Deliver(n, m) ==
  /\ m \in arriving /\ next[n] <= MaxUid
  /\ arriving' = arriving \ {m}
  /\ uid' = [uid EXCEPT ![n][m] = next[n]]
  /\ next' = [next EXCEPT ![n] = @ + 1]
  /\ UNCHANGED <<validity, file, store, wanted, check, bounded, history>>

Expunge(n, m) ==
  /\ uid[n][m] # 0
  /\ uid' = [uid EXCEPT ![n][m] = 0]
  /\ UNCHANGED <<validity, next, arriving, file, store, wanted, check, bounded, history>>

(* The mailbox is made anew, or restored: the messages get other UIDs and   *)
(* it a larger UIDVALIDITY.                                                 *)
Renumber(n, v, order) ==
  LET there == {m \in Mail : uid[n][m] # 0}
  IN /\ v > validity[n]
     /\ validity' = [validity EXCEPT ![n] = v]
     /\ \A m \in Mail : order[m] = 0 <=> m \notin there
     /\ {order[m] : m \in there} = 1..Cardinality(there)
     /\ uid' = [uid EXCEPT ![n] = order]
     /\ next' = [next EXCEPT ![n] = Cardinality(there) + 1]
     /\ clean' = {}
     /\ UNCHANGED <<arriving, file, store, wanted, check, bounded, missed, dropped, top, origin>>

-----------------------------------------------------------------------------
(* The user, in another window *)

Call == calls < MaxCalls /\ calls' = calls + 1

Label(u) ==
  /\ Call
  /\ store[u] # None /\ ~store[u].label
  /\ store' = [store EXCEPT ![u].label = TRUE]
  /\ UNCHANGED <<server, file, wanted, check, faults, history>>

(* A deletion here; that on the server is an Expunge. *)
Erase(u) ==
  /\ Call
  /\ store[u] # None
  /\ store' = [store EXCEPT ![u] = None]
  /\ missed' = missed \cup {store[u].of}
  /\ clean' = {}
  /\ UNCHANGED <<server, file, wanted, check, faults, dropped, top, origin>>

QueueRedownload(u) ==
  /\ Call
  /\ store[u] # None
  /\ wanted' = wanted \cup {u}
  /\ UNCHANGED <<server, file, store, check, faults, history>>

CancelRedownload(u) ==
  /\ Call
  /\ u \in wanted
  /\ wanted' = wanted \ {u}
  /\ dropped' = dropped \cup {u}
  /\ UNCHANGED <<server, file, store, check, faults, missed, clean, top, origin>>

-----------------------------------------------------------------------------
(* Redownloads are replayed first *)

Go(w, step) == pc' = [pc EXCEPT ![w] = step]

Fault == faults < MaxFaults /\ faults' = faults + 1

StartCheck(w) ==
  /\ pc[w] = "idle"
  /\ Go(w, "replay")
  /\ jobs' = [jobs EXCEPT ![w] = wanted]
  /\ UNCHANGED <<server, file, store, wanted, job, mem, batch, bounded, history>>

(* Saved as running; ResetCachedImapMessage saves it without its text. *)
Reset(w, u) ==
  /\ pc[w] = "replay" /\ u \in jobs[w]
  /\ wanted' = wanted \cup {u}
  /\ jobs' = [jobs EXCEPT ![w] = @ \ {u}]
  /\ IF store[u] = None
     THEN UNCHANGED <<store, pc, job, clean>>
     ELSE /\ store' = [store EXCEPT ![u].body = FALSE]
          /\ job' = [job EXCEPT ![w] = [u |-> u, old |-> store[u]]]
          /\ Go(w, "fetch")
          /\ clean' = {}
  /\ UNCHANGED <<server, file, mem, batch, bounded, missed, dropped, top, origin>>

ResetFails(w, u) ==
  /\ pc[w] = "replay" /\ u \in jobs[w]
  /\ Fault
  /\ wanted' = wanted \cup {u}
  /\ jobs' = [jobs EXCEPT ![w] = @ \ {u}]
  /\ UNCHANGED <<calls, server, file, store, pc, job, mem, batch, history>>

(* History of the save of message m of mailbox n, fetched under UID u and    *)
(* UIDVALIDITY v: it takes the place of a message that has this UID in      *)
(* another mailbox or now.                                                  *)
Missed(n, v, u, m) ==
  (IF validity[n] = v THEN missed \ {m} ELSE missed)
  \cup {x \in Mail \ {m} : \E b \in Boxes : uid[b][x] = u /\ (b # n \/ validity[b] # v)}

(* FetchMessage, MergeFetchedImapMessageWithExisting, SaveMessage and the   *)
(* removal of the action.                                                   *)
Refetch(w) ==
  /\ pc[w] = "fetch"
  /\ \E m \in Mail :
       /\ uid[Listed][m] = job[w].u
       /\ store' = [store EXCEPT ![job[w].u] =
                      [of |-> m, body |-> ~HeadersOnly, label |-> job[w].old.label]]
       /\ missed' = Missed(Listed, validity[Listed], job[w].u, m)
  /\ wanted' = wanted \ {job[w].u}
  /\ Go(w, "replay")
  /\ job' = [job EXCEPT ![w] = None]
  /\ clean' = {}
  /\ UNCHANGED <<server, file, jobs, mem, batch, bounded, dropped, top, origin>>

(* Mutant: the action is taken off whatever came of it. *)
RefetchGivenUp(w) ==
  /\ pc[w] = "fetch"
  /\ wanted' = wanted \ {job[w].u}
  /\ Go(w, "replay")
  /\ job' = [job EXCEPT ![w] = None]
  /\ UNCHANGED <<server, file, store, jobs, mem, batch, bounded, history>>

(* Not there, not reached, or not saved: the action stays. *)
RefetchFails(w) ==
  /\ pc[w] = "fetch"
  /\ wanted' = wanted \cup {job[w].u}
  /\ Go(w, "replay")
  /\ job' = [job EXCEPT ![w] = None]
  /\ UNCHANGED <<server, file, store, jobs, mem, batch, bounded, history>>

-----------------------------------------------------------------------------
(* The synchronisation *)

(* Mutant: a number too large wraps around. *)
ReadWrapped(number) == IF number > IntMax THEN number - 2 * (IntMax + 1) ELSE number

(* GetInt: a number too large is read as 0. *)
Read(number) == IF number > IntMax THEN 0 ELSE number

(* Mutant: a resync starts at the last seen UID. *)
LoadSeen(w, n, full) ==
  /\ pc[w] \in {"replay", "mailboxes"} /\ (pc[w] = "replay" => jobs[w] = {})
  /\ full => pc[w] = "replay" /\ n = Listed
  /\ Go(w, "select")
  /\ mem' = [mem EXCEPT ![w] = [name |-> n, full |-> full, again |-> FALSE,
               low |-> Read(file.seen) < top, origin |-> origin,
               state |-> [validity |-> Read(file.validity),
                          seen |-> Read(file.seen)]]]
  /\ clean' = clean \cup {w}
  /\ UNCHANGED <<server, file, store, wanted, jobs, job, batch, bounded, missed, dropped, top, origin>>

(* LoadImapState.  A check takes each mailbox, a refresh the one with the   *)
(* name of the list, a resync from its first UID.                           *)
Load(w, n, full) ==
  /\ pc[w] \in {"replay", "mailboxes"} /\ (pc[w] = "replay" => jobs[w] = {})
  /\ full => pc[w] = "replay" /\ n = Listed
  /\ Go(w, "select")
  /\ mem' = [mem EXCEPT ![w] = [name |-> n, full |-> full, again |-> FALSE,
               low |-> Read(file.seen) < top, origin |-> origin,
               state |-> [validity |-> Read(file.validity),
                          seen |-> IF full THEN 0 ELSE Read(file.seen)]]]
  /\ clean' = clean \cup {w}
  /\ UNCHANGED <<server, file, store, wanted, jobs, job, batch, bounded, missed, dropped, top, origin>>

(* Mutant: the first UID that is new is left out. *)
AnswerPast(n, first) ==
  LET there == {m \in Mail : uid[n][m] # 0}
      last == Max({uid[n][m] : m \in there})
  IN {m \in there : uid[n][m] > first \/ uid[n][m] = last}

(* Mutant: the last seen UID is asked for again. *)
AnswerFromSeen(n, first) ==
  LET there == {m \in Mail : uid[n][m] # 0}
      last == Max({uid[n][m] : m \in there})
  IN {m \in there : uid[n][m] >= first - 1 \/ uid[n][m] = last}

(* UID FETCH first:*, which answers the last message if none is from first on. *)
Answer(n, first) ==
  LET there == {m \in Mail : uid[n][m] # 0}
      last == Max({uid[n][m] : m \in there})
  IN {m \in there : uid[n][m] >= first \/ uid[n][m] = last}

(* Up to where the first UIDs of mailbox n are passed over as seen, though  *)
(* they were counted in another mailbox or under another UIDVALIDITY.       *)
Hidden(from, n, seen) ==
  IF from.name = n /\ from.validity = validity[n] THEN Min({from.hidden, seen}) ELSE seen

(* SyncMailbox *)
Fetch(w) ==
  LET s == mem[w].state
      n == mem[w].name
      again == s.validity # 0 /\ s.validity # validity[n]
      seen == IF again THEN 0 ELSE s.seen
      got == Answer(n, seen + 1)
  IN /\ pc[w] = "select"
     /\ Go(w, "save")
     /\ batch' = [batch EXCEPT ![w] = {<<uid[n][m], m>> : m \in got}]
     /\ mem' = [mem EXCEPT ![w].again = again,
                           ![w].state = [validity |-> validity[n],
                                         seen |-> Max({seen} \cup {uid[n][m] : m \in got})],
                           ![w].origin = [name |-> n, validity |-> validity[n],
                                          hidden |-> Hidden(mem[w].origin, n, seen)]]
     /\ UNCHANGED <<server, file, store, wanted, jobs, job, bounded, history>>

Top(w) == Max({top, mem[w].state.seen})

(* SaveImapState; that it may fail is ignored. *)
SaveState(w) ==
  /\ pc[w] = "save"
  /\ file' = mem[w].state
  /\ origin' = mem[w].origin
  /\ top' = Top(w)
  /\ Go(w, "store")
  /\ clean' = clean \cap {w}
  /\ UNCHANGED <<server, store, wanted, jobs, job, mem, batch, bounded, missed, dropped>>

SaveStateFails(w) ==
  /\ pc[w] = "save"
  /\ Fault
  /\ Go(w, "store")
  /\ top' = Top(w)
  /\ UNCHANGED <<calls, server, file, store, wanted, jobs, job, mem, batch, missed, dropped, clean, origin>>

(* The next message of the batch is saved, or not: that too is ignored. *)
StoreNext(w) ==
  \E item \in batch[w] :
    /\ pc[w] = "store"
    /\ \A other \in batch[w] : item[1] <= other[1]
    /\ batch' = [batch EXCEPT ![w] = @ \ {item}]
    /\ store' = [store EXCEPT ![item[1]] = [of |-> item[2], body |-> ~HeadersOnly, label |-> FALSE]]
    /\ missed' = Missed(mem[w].name, mem[w].state.validity, item[1], item[2])
    /\ clean' = clean \cap {w}
    /\ UNCHANGED <<server, file, wanted, pc, jobs, job, mem, bounded, dropped, top, origin>>

StoreFails(w) ==
  \E item \in batch[w] :
    /\ pc[w] = "store"
    /\ \A other \in batch[w] : item[1] <= other[1]
    /\ Fault
    /\ batch' = [batch EXCEPT ![w] = @ \ {item}]
    /\ missed' = IF store[item[1]] # None /\ store[item[1]].of = item[2] THEN missed
                 ELSE missed \cup {item[2]}
    /\ clean' = clean \ {w}
    /\ UNCHANGED <<calls, server, file, store, wanted, pc, jobs, job, mem, dropped, top, origin>>

(* All saved; a check goes on with the next mailbox. *)
EndSync(w) ==
  /\ pc[w] = "store" /\ batch[w] = {}
  /\ Go(w, IF mem[w].full THEN "idle" ELSE "mailboxes")
  /\ mem' = [mem EXCEPT ![w] = None]
  /\ clean' = clean \ {w}
  /\ UNCHANGED <<server, file, store, wanted, jobs, job, batch, bounded, missed, dropped, top, origin>>

(* The end of a check, one that is stopped, or a failed command. *)
EndCheck(w) ==
  /\ \/ pc[w] \in {"select", "mailboxes"}
     \/ pc[w] = "replay"
  /\ Go(w, "idle")
  /\ jobs' = [jobs EXCEPT ![w] = {}]
  /\ mem' = [mem EXCEPT ![w] = None]
  /\ clean' = clean \ {w}
  /\ UNCHANGED <<server, file, store, wanted, job, batch, bounded, missed, dropped, top, origin>>

-----------------------------------------------------------------------------
(* The process dies.  Of a state file that is being written there is a      *)
(* part: the last seen UID comes first, then UIDVALIDITY.                   *)
Torn(s) ==
  {[validity |-> 0, seen |-> n] : n \in 0..s.seen}
  \cup {[validity |-> v, seen |-> s.seen] : v \in {x \in Validities : x <= s.validity}}

Crash ==
  LET unsaved == UNION {batch[w] : w \in Windows}
  IN /\ \E w \in Windows : pc[w] # "idle"
     /\ Fault
     /\ \/ UNCHANGED <<file, origin>>
        \/ \E w \in Windows :
             /\ pc[w] = "save"
             /\ file' \in Torn(mem[w].state)
             /\ origin' = mem[w].origin
     /\ top' = Max({top} \cup {Top(w) : w \in {v \in Windows : pc[v] = "save"}})
     /\ missed' = missed \cup
          {item[2] : item \in {x \in unsaved : ~(store[x[1]] # None /\ store[x[1]].of = x[2])}}
     /\ pc' = [w \in Windows |-> "idle"]
     /\ jobs' = [w \in Windows |-> {}] /\ job' = [w \in Windows |-> None]
     /\ mem' = [w \in Windows |-> None]
     /\ batch' = [w \in Windows |-> {}]
     /\ clean' = {}
     /\ UNCHANGED <<calls, server, store, wanted, dropped>>

Window(w) ==
  \/ StartCheck(w) \/ Refetch(w) \/ RefetchFails(w)
  \/ Fetch(w) \/ SaveState(w) \/ SaveStateFails(w) \/ StoreNext(w) \/ StoreFails(w)
  \/ EndSync(w) \/ EndCheck(w)
  \/ \E u \in Uids : Reset(w, u) \/ ResetFails(w, u)
  \/ \E n \in Boxes, full \in BOOLEAN : Load(w, n, full)

Next ==
  \/ \E w \in Windows : Window(w)
  \/ Crash
  \/ \E u \in Uids : Label(u) \/ Erase(u) \/ QueueRedownload(u) \/ CancelRedownload(u)
  \/ \E n \in Boxes :
       \/ \E m \in Mail : Deliver(n, m) \/ Expunge(n, m)
       \/ \E v \in Validities, order \in [Mail -> 0..Cardinality(Mail)] : Renumber(n, v, order)

Spec == Init /\ [][Next]_vars

-----------------------------------------------------------------------------
(* Properties *)

TypeOK ==
  /\ validity \in [Boxes -> Validities]
  /\ uid \in [Boxes -> [Mail -> 0..MaxUid]]
  /\ next \in [Boxes -> 1..(MaxUid + 1)]
  /\ arriving \subseteq Mail
  /\ file \in State
  /\ store \in [Uids -> Record \cup {None}]
  /\ wanted \subseteq Uids
  /\ pc \in [Windows -> {"idle", "replay", "fetch", "mailboxes", "select", "save", "store"}]
  /\ jobs \in [Windows -> SUBSET Uids]
  /\ job \in [Windows -> [u : Uids, old : Record] \cup {None}]
  /\ mem \in [Windows -> Memory \cup {None}]
  /\ batch \in [Windows -> SUBSET (Uids \X Mail)]
  /\ faults \in 0..MaxFaults /\ calls \in 0..MaxCalls
  /\ origin \in Origin /\ top \in 0..MaxUid

Stored(m, u) == store[u] # None /\ store[u].of = m

(* A message on the server that is below the last seen UID of its mailbox   *)
(* has its record, or is about to be saved.  The exceptions: the user       *)
(* erased it, or the save of it failed or was cut short by a crash (the     *)
(* last seen UID is saved first); a change of UIDVALIDITY, or of the        *)
(* mailbox where two have one id, was not noticed; or a message fetched     *)
(* before the change, or from the other mailbox, took its place.            *)
SeenIsStored ==
  \A n \in Boxes, m \in Mail :
    LET u == uid[n][m]
    IN u # 0 /\ u <= file.seen /\ origin.name = n /\ origin.validity = validity[n] =>
         \/ Stored(m, u)
         \/ u <= origin.hidden
         \/ m \in missed
         \/ \E w \in Windows : <<u, m>> \in batch[w]

(* A resync that nothing disturbs stores every message of the mailbox, also *)
(* those a crash, a failure or a change of UIDVALIDITY had left out.        *)
ResyncRepairs ==
  [][\A w \in Windows :
       pc[w] = "store" /\ batch[w] = {} /\ mem[w].full /\ w \in clean =>
         \A m \in Mail :
           LET u == uid[mem[w].name][m]
           IN u # 0 /\ u <= mem[w].state.seen => Stored(m, u)]_vars

(* A record that has lost its text to a redownload keeps the action that    *)
(* brings it back, unless it was cancelled.                                 *)
TextComesBack ==
  ~HeadersOnly =>
    \A u \in Uids : store[u] # None /\ ~store[u].body => u \in wanted \/ u \in dropped

(* A synchronisation takes the label off a record only if that is the last  *)
(* message on the server, UIDVALIDITY has changed, it is a resync, the last *)
(* seen UID was too low (once it was higher, and so are UIDs of records),   *)
(* or another window has disturbed it.  A redownload does if the user       *)
(* labelled the record meanwhile.                                           *)
LabelKept ==
  [][\A u \in Uids :
       store[u] # None /\ store[u].label /\ store'[u] # None /\ ~store'[u].label =>
         \E w \in Windows :
           \/ pc[w] = "fetch" /\ job[w].u = u
           \/ /\ pc[w] = "store" /\ batch'[w] # batch[w]
              /\ \/ mem[w].full \/ mem[w].again \/ mem[w].low \/ w \notin clean
                 \/ \A item \in batch[w] : item[1] <= u]_vars
=============================================================================
