--------------------------- MODULE ImapMailboxes ---------------------------
(***************************************************************************)
(* The mailboxes of the IMAP accounts: the list file and the directories   *)
(* EudoraStorage keeps for each account, and the calls of                  *)
(* MailTransportCoordinator that create, rename and delete a mailbox here  *)
(* at once and, through the journal, on the server later.                  *)
(*                                                                         *)
(* A mailbox has two ids made from its remote name: LocalMailboxIdForImap  *)
(* replaces every character that is not alphanumeric, and the list derives *)
(* one from the name of the directory, which may keep . _ and - (and has   *)
(* none of these in front).                                                *)
(*                                                                         *)
(* The calls run in the main window.  The process may die in between.      *)
(***************************************************************************)
EXTENDS Integers, FiniteSets, FiniteSetsExt, Sequences, SequencesExt

CONSTANTS
  Accounts,    \* IMAP accounts
  Names,       \* remote names of mailboxes
  Ids,         \* what the two functions make of the names
  LocalId,     \* LocalId[n]: SanitizeId of n
  ListId,      \* ListId[n]: SanitizePathComponent of n
  Mail,        \* messages that arrive
  Present,     \* the names on each server in the beginning
  MaxEntries,  \* bound on the entries of one name in one list
  MaxActions,  \* bound on the actions queued
  MaxCrashes,  \* bound on crashes
  None

VARIABLES
  remote,   \* remote[a][n]: the messages of mailbox n on the server, or None
  list,     \* list[a][n]: how many entries of the list of a have name n
  box,      \* box[a][i]: the messages in directory i, or None
  seen,     \* seen[a][i]: the messages below the last seen UID, in the
            \* sync state of mailbox id i
  journal,  \* the waiting actions
  queued,   \* number of actions queued
  arriving, \* messages that have not arrived yet
  pc,       \* the next step of the main window
  task,     \* the action it is queueing, or the rename under way, or None
  at,       \* position of the replay in the journal
  todo,     \* the mailboxes the check has discovered and not synchronised
  crashes,
  (* history, read by the properties only *)
  asked,    \* names the user has asked to rename or delete
  gone,     \* messages erased here with their mailbox
  merged,   \* names a rename gave to several entries
  adrift,   \* directories renamed before a crash, the list not written
  astray    \* messages fetched from a mailbox whose two ids differ

disk == <<list, box, seen, journal>>
run == <<pc, task, at, todo>>
history == <<asked, gone, merged, adrift, astray>>
vars == <<remote, disk, queued, arriving, run, crashes, history>>

(* ImapActionRecord: name is remote_name as found here, picked the name the *)
(* user saw.                                                                *)
Action == [kind : {"create", "rename", "delete"}, acct : Accounts, id : Ids,
           name : Names, target : Names, picked : Names]

ASSUME ImapMailboxesAssumption ==
  /\ LocalId \in [Names -> Ids] /\ ListId \in [Names -> Ids]
  /\ Present \in [Accounts -> SUBSET Names]
  /\ MaxEntries \in Nat \ {0} /\ MaxActions \in Nat /\ MaxCrashes \in Nat
  /\ IsFiniteSet(Accounts) /\ IsFiniteSet(Names)
  /\ None \notin Action /\ None \notin Names /\ \A some \in SUBSET Mail : some # None

Init ==
  /\ remote = [a \in Accounts |-> [n \in Names |-> IF n \in Present[a] THEN {} ELSE None]]
  /\ list = [a \in Accounts |-> [n \in Names |-> 0]]
  /\ box = [a \in Accounts |-> [i \in Ids |-> None]]
  /\ seen = [a \in Accounts |-> [i \in Ids |-> {}]]
  /\ journal = <<>> /\ queued = 0
  /\ arriving = Mail
  /\ pc = "idle" /\ task = None /\ at = 1 /\ todo = {}
  /\ crashes = 0
  /\ asked = {} /\ gone = {} /\ merged = {} /\ adrift = {} /\ astray = {}

-----------------------------------------------------------------------------
(* The list of mailboxes and their directories *)

(* ListImapResolvedMailboxes: the names listed, those with one id.  More    *)
(* than one name may have it: ResolveMailboxInternal takes the first.       *)
Listed(a) == {n \in Names : list[a][n] > 0}

(* Mutant: the id is not compared. *)
ResolvedAny(a, i) == Listed(a)

Resolved(a, i) == {n \in Listed(a) : ListId[n] = i}

(* The records a message id is looked for in: none when i does not resolve. *)
Contents(a, i) == IF Resolved(a, i) = {} \/ box[a][i] = None THEN {} ELSE box[a][i]

(* Mutant: entries found are appended again. *)
RelistedTwice(a, entry, ids) ==
  [list EXCEPT ![a] = [n \in Names |-> list[a][n] + (IF n = entry THEN 1 ELSE 0)]]

(* WriteImapMailboxList writes the entries of every account to the list of *)
(* this one.  EnsureMailboxInternal appends one whose id is not in ids.     *)
Relisted(a, entry, ids) ==
  [list EXCEPT ![a] = [n \in Names |->
     SumFunction([b \in Accounts |-> list[b][n]])
     + (IF n = entry /\ LocalId[n] \notin ids THEN 1 ELSE 0)]]

Fits(lists) == \A a \in Accounts, n \in Names : lists[a][n] <= MaxEntries

(* EnsureMailboxInternal, of a mailbox named n with the id LocalId[n]. *)
Ensure(a, n, boxes) ==
  /\ list' = Relisted(a, n, {ListId[k] : k \in Listed(a)})
  /\ Fits(list')
  /\ box' = [boxes EXCEPT ![a][ListId[n]] = IF @ = None THEN {} ELSE @]

(* DeleteMailboxMessages and DeleteMailbox: the directory goes, the list is *)
(* written again as it is.                                                  *)
Delete(a, i) ==
  /\ IF Resolved(a, i) = {} THEN UNCHANGED <<list, box>>
     ELSE /\ list' = Relisted(a, None, {})
          /\ Fits(list')
          /\ box' = [box EXCEPT ![a][i] = None]
  /\ gone' = gone \cup {[acct |-> a, of |-> m] : m \in Contents(a, i)}

(* RenameMailbox renames the directory of id i to that of the name n, which *)
(* has to be free.                                                          *)
CanRename(a, i, n) ==
  /\ Resolved(a, i) # {}
  /\ ListId[n] = i \/ (box[a][i] # None /\ box[a][ListId[n]] = None)

RenameDirectory(a, i, n) ==
  box' = [box EXCEPT ![a][ListId[n]] = box[a][i],
                     ![a][i] = IF ListId[n] = i THEN @ ELSE None]

(* Mutant: the list is left as it is. *)
RenameUnlisted(a, i, n) == UNCHANGED <<list, box, gone, merged>>

(* ... and every entry of the id in the list.  Then RenameMailboxMessages   *)
(* saves what still has the old id under the new one and deletes it under   *)
(* the old one: that is nothing, or, if the directory is the same, all.     *)
RenameEntries(a, i, n) ==
  LET moved == SumFunctionOnSet(list[a], Resolved(a, i))
      others == [list EXCEPT ![a] = [k \in Names |->
                   IF k \in Resolved(a, i) THEN 0 ELSE list[a][k]]]
      named == [others EXCEPT ![a][n] = @ + moved]
      same == ListId[n] = i
  IN /\ list' = [named EXCEPT ![a] = [k \in Names |->
                   SumFunction([b \in Accounts |-> named[b][k]])]]
     /\ Fits(list')
     /\ merged' = IF named[a][n] > 1 THEN merged \cup {[acct |-> a, of |-> n]} ELSE merged
     /\ IF same /\ LocalId[n] = i
        THEN /\ box' = [box EXCEPT ![a][i] = IF @ = None THEN @ ELSE {}]
             /\ gone' = gone \cup {[acct |-> a, of |-> m] : m \in Contents(a, i)}
        ELSE UNCHANGED <<box, gone>>

-----------------------------------------------------------------------------
(* The user creates, renames and deletes mailboxes *)

Room == pc = "idle" /\ queued < MaxActions

Queue(action) ==
  /\ task' = action
  /\ pc' = "journal"

QueueCreate(a, n) ==
  /\ Room
  /\ Ensure(a, n, box)
  /\ Queue([kind |-> "create", acct |-> a, id |-> LocalId[n], name |-> n, target |-> n, picked |-> n])
  /\ UNCHANGED <<remote, seen, journal, queued, arriving, at, todo, crashes, history>>

(* The user picks an entry; its id is looked up again. *)
QueueRename(a, picked, n, target) ==
  LET i == ListId[picked]
  IN /\ Room
     /\ picked \in Listed(a) /\ n \in Resolved(a, i)
     /\ target # picked
     /\ CanRename(a, i, target)
     /\ RenameDirectory(a, i, target)
     /\ task' = [kind |-> "rename", acct |-> a, id |-> i, name |-> n, target |-> target,
                 picked |-> picked]
     /\ pc' = "relist"
     /\ asked' = asked \cup {[acct |-> a, of |-> picked]}
     /\ UNCHANGED <<remote, list, seen, journal, queued, arriving, at, todo, crashes, gone, merged, adrift, astray>>

(* The second half of a rename, by the user or by the replay. *)
FinishRename ==
  /\ pc \in {"relist", "replay-relist"}
  /\ RenameEntries(task.acct, task.id, task.target)
  /\ IF pc = "relist" THEN pc' = "journal" /\ UNCHANGED task
     ELSE pc' = "remove" /\ task' = None
  /\ UNCHANGED <<remote, seen, journal, queued, arriving, at, todo, crashes, asked, adrift, astray>>

QueueDelete(a, picked, n) ==
  LET i == ListId[picked]
  IN /\ Room
     /\ picked \in Listed(a) /\ n \in Resolved(a, i)
     /\ Delete(a, i)
     /\ Queue([kind |-> "delete", acct |-> a, id |-> i, name |-> n, target |-> n, picked |-> picked])
     /\ asked' = asked \cup {[acct |-> a, of |-> picked]}
     /\ UNCHANGED <<remote, seen, journal, queued, arriving, at, todo, crashes, merged, adrift,
                    astray>>

(* Mutant: a failed save is tried again, and had worked. *)
JournalTwice ==
  /\ pc = "journal"
  /\ \E times \in 0..2 : journal' = journal \o [k \in 1..times |-> task]
  /\ queued' = queued + 1
  /\ task' = None
  /\ pc' = "idle"
  /\ UNCHANGED <<remote, list, box, seen, arriving, at, todo, crashes, history>>

(* SaveAction, which may fail; the call then returns false. *)
Journal ==
  /\ pc = "journal"
  /\ \/ journal' = Append(journal, task)
     \/ UNCHANGED journal
  /\ queued' = queued + 1
  /\ task' = None
  /\ pc' = "idle"
  /\ UNCHANGED <<remote, list, box, seen, arriving, at, todo, crashes, history>>

-----------------------------------------------------------------------------
(* CheckMail replays the journal and synchronises every mailbox *)

StartCheck ==
  /\ pc = "idle"
  /\ pc' = "replay"
  /\ at' = 1
  /\ UNCHANGED <<remote, disk, queued, arriving, task, todo, crashes, history>>

(* The server carries out an action if it can: the mailbox is there, and    *)
(* the new name is free.                                                    *)
Possible(action) ==
  LET mailboxes == remote[action.acct]
  IN CASE action.kind = "create" -> mailboxes[action.name] = None
       [] action.kind = "delete" -> mailboxes[action.name] # None
       [] action.kind = "rename" -> mailboxes[action.name] # None /\ mailboxes[action.target] = None

Executed(action) ==
  LET a == action.acct
  IN CASE action.kind = "create" -> [remote EXCEPT ![a][action.name] = {}]
       [] action.kind = "delete" -> [remote EXCEPT ![a][action.name] = None]
       [] action.kind = "rename" -> [remote EXCEPT ![a][action.target] = remote[a][action.name],
                                                   ![a][action.name] = None]

Execute(action) ==
  /\ Possible(action)
  /\ remote' = Executed(action)

ReplayNext ==
  /\ pc = "replay"
  /\ at <= Len(journal)
  /\ Execute(journal[at])
  /\ pc' = "local"
  /\ UNCHANGED <<disk, queued, arriving, task, at, todo, crashes, history>>

(* The command is refused, or its answer does not come: the action stays.   *)
ReplayFails ==
  /\ pc = "replay"
  /\ at <= Len(journal)
  /\ Execute(journal[at]) \/ UNCHANGED remote
  /\ at' = at + 1
  /\ UNCHANGED <<disk, queued, arriving, pc, task, todo, crashes, history>>

(* What ReplaySingleImapAction does here after the command. *)
ReplayCreate ==
  /\ pc = "local"
  /\ journal[at].kind = "create"
  /\ Ensure(journal[at].acct, journal[at].name, box)
  /\ pc' = "remove"
  /\ UNCHANGED <<remote, seen, journal, queued, arriving, task, at, todo, crashes, history>>

ReplayDelete ==
  /\ pc = "local"
  /\ journal[at].kind = "delete"
  /\ Delete(journal[at].acct, journal[at].id)
  /\ pc' = "remove"
  /\ UNCHANGED <<remote, seen, journal, queued, arriving, task, at, todo, crashes,
                 asked, merged, adrift, astray>>

(* The new name is there already, or the old one is renamed, or neither is. *)
ReplayRename ==
  LET action == journal[at]
      a == action.acct
  IN /\ pc = "local"
     /\ action.kind = "rename"
     /\ \/ /\ Resolved(a, LocalId[action.target]) # {} \/ Resolved(a, action.id) = {}
           /\ Ensure(a, action.target, box)
           /\ pc' = "remove"
           /\ UNCHANGED <<task, at>>
        \/ /\ Resolved(a, LocalId[action.target]) = {} /\ Resolved(a, action.id) # {}
           /\ IF CanRename(a, action.id, action.target)
              THEN /\ RenameDirectory(a, action.id, action.target)
                   /\ task' = action
                   /\ pc' = "replay-relist"
                   /\ UNCHANGED at
              ELSE /\ UNCHANGED <<box, task>>
                   /\ pc' = "replay"
                   /\ at' = at + 1
           /\ UNCHANGED list
     /\ UNCHANGED <<remote, seen, journal, queued, arriving, todo, crashes, history>>

(* DeleteAction of the action that is done. *)
Dequeue ==
  /\ pc = "remove"
  /\ journal' = RemoveAt(journal, at)
  /\ pc' = "replay"
  /\ UNCHANGED <<remote, list, box, seen, queued, arriving, task, at, todo, crashes, history>>

(* DiscoverMailboxes of each account that can be reached. *)
Discover(reached) ==
  /\ pc = "replay"
  /\ at > Len(journal)
  /\ todo' = {entry \in reached \X Names : remote[entry[1]][entry[2]] # None}
  /\ pc' = "sync"
  /\ UNCHANGED <<remote, disk, queued, arriving, task, at, crashes, history>>

(* Mutant: the mailbox is looked up before it is ensured. *)
SynchronisedEarly(a, n, new, boxes) ==
  LET i == LocalId[n]
  IN IF Resolved(a, i) = {} THEN boxes
     ELSE [boxes EXCEPT ![a][i] =
             IF @ = None THEN None ELSE @ \cup new]

(* The records SyncMailbox makes go to the mailbox with the first of the    *)
(* two ids; when that is not in the list, none can be saved.                *)
Synchronised(a, n, new, boxes) ==
  LET i == LocalId[n]
  IN IF \A k \in Names : list'[a][k] = 0 \/ ListId[k] # i THEN boxes
     ELSE [boxes EXCEPT ![a][i] =
             IF @ = None THEN None ELSE @ \cup new]

(* The two ids of a name are the same. *)
Plain(n) == LocalId[n] = ListId[n]

(* EnsureMailbox, SyncMailbox, SaveImapState and the messages, of one       *)
(* mailbox; ImapSync has the steps.                                         *)
SyncNext(a, n) ==
  LET new == remote[a][n] \ seen[a][LocalId[n]]
      ensured == [box EXCEPT ![a][ListId[n]] = IF @ = None THEN {} ELSE @]
  IN /\ pc = "sync"
     /\ <<a, n>> \in todo /\ remote[a][n] # None
     /\ todo' = todo \ {<<a, n>>}
     /\ list' = Relisted(a, n, {ListId[k] : k \in Listed(a)})
     /\ Fits(list')
     /\ box' = Synchronised(a, n, new, ensured)
     /\ seen' = [seen EXCEPT ![a][LocalId[n]] = @ \cup new]
     /\ astray' = IF Plain(n) THEN astray ELSE astray \cup {[acct |-> a, of |-> m] : m \in new}
     /\ UNCHANGED <<remote, journal, queued, arriving, pc, task, at, crashes, asked, gone, merged,
                    adrift>>

(* Stopped, failed, or all done. *)
EndCheck ==
  /\ pc = "sync"
  /\ todo' = {}
  /\ pc' = "idle"
  /\ UNCHANGED <<remote, disk, queued, arriving, task, at, crashes, history>>

-----------------------------------------------------------------------------
(* Mail arrives on a server. *)
Arrive(a, n, m) ==
  /\ m \in arriving
  /\ remote[a][n] # None
  /\ arriving' = arriving \ {m}
  /\ remote' = [remote EXCEPT ![a][n] = @ \cup {m}]
  /\ UNCHANGED <<disk, queued, run, crashes, history>>

Crash ==
  /\ crashes < MaxCrashes /\ pc # "idle"
  /\ crashes' = crashes + 1
  /\ pc' = "idle" /\ task' = None /\ at' = 1 /\ todo' = {}
  /\ adrift' = IF pc \in {"relist", "replay-relist"}
               THEN adrift \cup {[acct |-> task.acct, of |-> ListId[task.target]]} ELSE adrift
  /\ UNCHANGED <<remote, disk, queued, arriving, asked, gone, merged, astray>>

UserNext ==
  \E a \in Accounts, n \in Names :
    \/ QueueCreate(a, n)
    \/ \E picked \in Names :
         \/ QueueDelete(a, picked, n)
         \/ \E target \in Names : QueueRename(a, picked, n, target)

Next ==
  \/ UserNext \/ FinishRename \/ Journal
  \/ StartCheck \/ ReplayNext \/ ReplayFails \/ ReplayCreate \/ ReplayDelete \/ ReplayRename
  \/ Dequeue \/ EndCheck \/ Crash
  \/ \E reached \in SUBSET Accounts : Discover(reached)
  \/ \E a \in Accounts, n \in Names : SyncNext(a, n) \/ \E m \in Mail : Arrive(a, n, m)

Spec == Init /\ [][Next]_vars

-----------------------------------------------------------------------------
(* Properties *)

TypeOK ==
  /\ remote \in [Accounts -> [Names -> (SUBSET Mail) \cup {None}]]
  /\ list \in [Accounts -> [Names -> 0..MaxEntries]]
  /\ box \in [Accounts -> [Ids -> (SUBSET Mail) \cup {None}]]
  /\ seen \in [Accounts -> [Ids -> SUBSET Mail]]
  /\ journal \in Seq(Action) /\ queued \in 0..MaxActions /\ Len(journal) <= queued
  /\ arriving \subseteq Mail
  /\ pc \in {"idle", "journal", "relist", "replay", "local", "replay-relist", "remove", "sync"}
  /\ task \in Action \cup {None}
  /\ at \in 1..(MaxActions + 1)
  /\ todo \subseteq Accounts \X Names

(* Message m is in a mailbox of account a that is in the list. *)
Shown(a, m) == \E i \in Ids : m \in Contents(a, i)

(* A directory that holds messages is that of a listed mailbox, unless the  *)
(* process died in the middle of a rename.                                  *)
NothingOrphaned ==
  pc \notin {"relist", "replay-relist"} =>
    \A a \in Accounts, i \in Ids :
      box[a][i] \in {None, {}} \/ Resolved(a, i) # {} \/ [acct |-> a, of |-> i] \in adrift

(* A message below the last seen UID of a mailbox id, so never fetched      *)
(* again, is shown in some mailbox of the account, unless the user erased   *)
(* it with its mailbox, it was fetched from a mailbox whose two ids differ, *)
(* or it is in a directory cut adrift.                                      *)
SeenIsShown ==
  pc \notin {"relist", "replay-relist"} =>
    \A a \in Accounts, i \in Ids : \A m \in seen[a][i] :
      \/ Shown(a, m)
      \/ [acct |-> a, of |-> m] \in gone \cup astray
      \/ \E d \in Ids : /\ [acct |-> a, of |-> d] \in adrift
                        /\ box[a][d] # None /\ m \in box[a][d]

(* A mailbox whose two ids agree is listed once, unless a mailbox of that   *)
(* name is listed for another account too, or one was renamed to a name     *)
(* still listed, as that of a deleted mailbox is.                           *)
ListedOnce ==
  \A a \in Accounts, n \in Names :
    Plain(n) /\ list[a][n] > 1 =>
      \/ [acct |-> a, of |-> n] \in merged
      \/ \E b \in Accounts \ {a} : list[b][n] > 0

(* A mailbox disappears from a server only if the user asked to rename or   *)
(* delete the mailbox of that name, or one whose directory is the same.     *)
OnlyAsked ==
  [][\A a \in Accounts, n \in Names :
       remote[a][n] # None /\ remote'[a][n] = None =>
         \E picked \in Names : /\ ListId[picked] = ListId[n]
                               /\ [acct |-> a, of |-> picked] \in asked]_vars
=============================================================================
