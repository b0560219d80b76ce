# TLA+ models of Hemera

Hemera is a port of the Eudora mail client to Haiku: a C++ core
(`src/hermes_port/core`) with the mail transports and the mailbox files, and a
Haiku user interface (`src/hermes_port/haiku`). These modules model the parts
of the core in which messages can be lost, sent twice, fetched twice or brought
back from the dead, TLC checks them on small instances, and TLAPS proves some of
the results for every instance. Paths below are relative to the repository; MTC
is `src/hermes_port/core/src/MailTransportCoordinator.cpp` and ES is
`src/hermes_port/core/src/EudoraStorage.cpp`.

## The system

| Part | State | Operations | Talks to |
|---|---|---|---|
| Outgoing queue (MTC `SendQueuedInternal`, `ComposeQueue.cpp`) | the Out and Sent mailboxes, a private list per pass | queue, change queueing, set status, delete, send pass | SMTP server, message store |
| POP retrieval (MTC `PopSession`, `CheckMailInternal`, `SyncStateStore.cpp`) | `uidl_to_message_id`, `uidl_to_server_status`, Inbox | check with options, set server status | POP server, message store, sync state |
| Mailbox files (ES) | an MBX file and a TOC file per mailbox, attachment directory | save, delete, get, list, copy, move, compact, rebuild | file system |
| Mailbox lists (ES, MTC `QueueCreateMailbox` to `QueueDeleteMailbox`) | per IMAP account a list file and a directory for each mailbox; the local tree | create, rename, delete, discover | IMAP journal and server |
| IMAP action journal (MTC `Queue*`, `ReplaySingleImapAction`, `ImapActionStore.cpp`) | one file per action | queue with optimistic local change, replay, retry, cancel, stop | IMAP server, message store |
| IMAP synchronisation (MTC `ImapSession::SyncMailbox`, `RefreshMailbox`) | UIDVALIDITY, last seen UID | check, refresh, resync, redownload | IMAP server, sync state, journal |
| Compose controller, drafts, signatures, stationery | the composed message | edit, choose signature, validate, autosave | draft store, queue |
| Mailbox workflow, filters, junk (`MailboxWorkflow.cpp`, `RuleBasedFilterEngine.cpp`) | message fields | filter pass, junk, label, status | message store, IMAP journal |
| Credentials, OAuth, GSSAPI | tokens | refresh, device flow | HTTP, credential store |
| Sockets and TLS | a connection | send, receive line, upgrade | network |
| Settings, tasks, search, spelling, nicknames, plug-ins | view models and key/value files | get, set | |
| Legacy importers, mood analyser | none that outlives a call | | |
| Rollout to HaikuPorts (`src/tools/haiku_rollout`, Elixir) | `state.json` per version, artifacts, one checkout for all | release, resume, watch | git, GitHub |

**How the parts interact.** Everything is a direct call. Each Haiku window is a
thread of its own, and the core has no locks (the one shared flag is
`stop_requested_`, an atomic). Mail checks and server marks run in the main
window's thread; compose windows send the queue from theirs; the main window,
the Wazoo window and compose windows all save, move and delete messages. What
they share is on disk: the mailbox files, the IMAP journal and the sync state,
read at the start of an operation and written at its end.

**What is hard.** (1) A list or a record read at the start of an operation is
stale when it is written back. (2) Two files, or a file and a server, are
updated one after the other, and the process may die or a write may fail (many
results are ignored) in between. (3) The server's answer to the final dot or to
`QUIT`, or to an IMAP command, may be lost; other clients change the mailbox and
its UIDVALIDITY. (4) The TOC is trusted or rebuilt by comparing sizes, and
nothing keeps two windows from writing it at once. (5) A remote mailbox has two
ids, made from its name in two ways, which do not always agree and are not
always its own. (6) A rollout may stop at any of its steps and is resumed from its
records. `PROJECT.json` lists each
place under "hazards", with its line and the properties that cover it.

**What makes each part correct.** A message shown as sent was accepted by the
server; it is not sent twice by our doing; it is never in no mailbox. A message
the server deleted for us is stored; it is not retrieved twice; only what the
user asked for is deleted; the status shown is the one that will be acted on. A
saved message is listed, the last save is the one read, and a deleted message
stays deleted. What the user did to an IMAP mailbox is done on the server, once, to
that message and no other, and not after it was cancelled. A mailbox disappears from a
server only when the user asked for that; what was fetched is shown in some
mailbox; what is below the last seen UID is stored, and a resync stores the rest; a
redownload gives the text back. The branch offered to HaikuPorts holds the
checksum of the tarball that can be downloaded.

## Modules

- `SendQueue`: the outgoing queue. `MCSendQueue` instantiates it for TLC,
  `SendQueueProofs` holds its theorems.
- `PopRetrieval`: retrieval from one POP account. `MCPopRetrieval` instantiates it,
  `PopRetrievalProofs` holds its theorems.
- `MessageStore`: what one mailbox promises, a map from ids to versions that holds
  what was asked for by the time a call returns.
- `MailStore`: one mailbox on disk, file access by file access, and the
  refinement mapping to `MessageStore`. `MCMailStore` instantiates it,
  `MailStoreProofs` holds its theorems, that of the refinement among them.
- `ImapJournal`: the offline work on one IMAP account, its journal, the replay and
  the synchronisation after it. `MCImapJournal` instantiates it, `ImapJournalProofs`
  holds its theorems.
- `ImapMailboxes`: the mailboxes of the IMAP accounts, their list files and
  directories, and the journal's actions on mailboxes. `MCImapMailboxes`
  instantiates it, `ImapMailboxesProofs` holds its theorems.
- `ImapSync`: the synchronisation of one local id against a server others use
  too, and redownloads. `MCImapSync` instantiates it, `ImapSyncProofs` holds its
  theorems.
- `Rollout`: the rollout of releases to HaikuPorts. `MCRollout` instantiates it,
  `RolloutProofs` holds its theorems.
- `Extrema`: least and greatest elements of sets of numbers, and induction up to a
  number, for the proofs.

All but `MailStore` and `Rollout` take a call of the message store as one step
that works or fails without effect; `MailStore` is the model of such a call.
`SendQueue`, `PopRetrieval` and the IMAP modules share nothing but the store, in
which each has mailboxes of its own (Out and Sent, Inbox, those of the account),
so they are not composed. The three IMAP modules each take one side of the same
pass in detail and the others in brief: `ImapJournal` the actions on messages,
with a server of this client alone; `ImapMailboxes` those on mailboxes, with
`SyncNext` for a whole synchronisation; `ImapSync` the synchronisation itself,
with redownload as the only action.

### SendQueue

`out` and `sentBox` are the two mailboxes on disk. `snap[w]`, `cur[w]` and `pc[w]`
are the pass that runs in window `w`: the part of the list of Out it has not
reached, the message it works on and its next step. `StartPass` is the listing;
`SkipMessage` the `continue`s; `MarkSending` the save as Sending; `Transmit`
the SMTP session by its three outcomes (accepted; accepted and the answer lost;
not accepted, with the one retry after a refused OAuth token folded in);
`MarkFailed`, `MarkSentInOut`, `CopyToSent`, `SaveInSent` and `EraseFromOut` the
saves after it. Every save may fail without effect, as the code ignores or
returns the result. The list is taken in any order, which includes the code's.

The user's operations run in other windows and are interleaved: `QueueMessage`,
`DeleteFromOut`, and the two that read a record, change it and save it
(`ReadForEdit`, `SaveEdit`: Change Queueing, and setting a legacy status). One edit
is in progress at a time: the menus that start them are those of one window.
`TimePasses` makes a scheduled message due. `Crash` ends all passes and keeps the disk.

A record is reduced to its delivery state, whether its legacy status is a
waiting one (the menus look at that), and whether it is due. `accepted` is the
server's state. `duplicated`, `excused` and `removed` are history: `excused`
holds the messages for which one of four events happened that do lead to a
second send (see `NoUnexplainedDuplicate`).

### PopRetrieval

`idMap` and `statusMap` are the saved sync state and `memId` and `memStatus` a
check's copy. The check goes through the steps of `FetchMessages`: the status
loop (`DropGone`, `DeleteAsMarked`, `FetchAsMarked`, `PassOver`), `DeleteRest` for
delete_all, `ListSizes`, the loop over new mail (`FetchNew`, `SkipBig`), `Quit`,
then `SaveState` and `Store` of `CheckMailInternal`. The server holds deletions in
`dele` until `QUIT`. `MarkStored` and `MarkSynced` are the two halves of setting a
server status. A UIDL listing that a failed read cuts short is taken for
complete by the code (`cut`); every later command then fails, because it reads
the rest of the listing for its answer. `Fail`, `FailInFetch` and `Crash` are the
ways a check does not finish, and saves may fail. When the options have it delete
what it fetches, `FetchAsMarked` erases a map entry that is erased already, which is
undefined: the model goes on with any part of the remaining entries, or crashes.
The two loops take their entries in any order. Attachment payload files are left out.

### MailStore and MessageStore

`mbx` is the MBX file as a sequence of records, `toc` the TOC file or `None` when
it is missing or cannot be read. An entry of a TOC stands for the bytes it points
at, which never change while the file only grows; the size test of
`LoadOrRebuildToc` is "the contents are those the TOC was written for", so two
different contents of equal size (a compaction that ends at the very size
of an older file) are out of the model. Each call is cut at its file
accesses: `Load` (or `OpenRebuilt` and `WriteRebuilt`), `Look` (the second load, in
`LoadMessageEntries`), `AppendRecord` or `RenameCompacted`, `Open` (the size is put
in, the TOC truncated) and `Write`. A crash may leave the TOC truncated and may
leave any kind of part of the appended record; `Found`, `Scanned` and `Parsed` say
what a scan makes of such a file. `Promise` maps (`Store`, `Past`, `Doubled`) the files to the
variables of `MessageStore`: the version a read returns; the versions of each id
still in the file (`past`, in which 0 stands for a part of a record); the ids the
TOC lists more than once (`doubled`); and `acked`, what the last returned call on
an id told its caller. So `Implements` says what a crash may do and what not: it
may bring back versions of an id that were in the file, or a part of the one being
written, and what later calls on such an id leave is one of these; every other
id is read as the last call left it, after the crash as before it, and a
compaction changes no read. Get is the reading of `list`; copy and move are a save in one
mailbox and a deletion in another.

### ImapJournal

`srv` is the server: the mailboxes with a message or nothing under each UID, and
the next UID of each. `local[b][i]` is the record of mailbox `b` whose id is `i`; an
id holds the mailbox and UID the message was fetched under, and a record keeps
it, and its `remote_id`, wherever it is moved. `seen` is the last seen UID of each
mailbox. `queued` holds the actions in the order of queueing, which is that of replay
while the clock is not set back, and `journal` the state in the file of each: pending,
running and failed are all `"waiting"`, since a pass takes all three. A file that was not
written in full is `"void"`: empty, it reads as a refresh of the mailbox list of
no account, and every replay of it fails before it reaches a server.

The queueing calls run in the main window (`Main`). `QueueMove`, `QueueCopy`,
`QueueDelete`, `QueueUndelete`, `QueueFetch` and `QueueExpunge` make the local change,
`EraseSource` the second half of a move, and `Journal` saves the action. A
deletion is a move to the trash, a mark or an erasure, as the account is set;
the erasures of an expunge are one step, of which a part may be done.
`QueueFails` is a failed save. Any window runs passes, a check or a refresh:
`StartPass` is the listing, `MarkRunning` the save of the next action,
`Succeed`, `Refused` and `BreakOff` what becomes of its commands (`Courses`: `UID MOVE`, or else `COPY`,
`STORE` and `EXPUNGE`), `Remove` and `Keep` what is done with its file. The pass ends
(`EndPass`: stopped, or no mailbox could be synchronised) or goes on with one
mailbox: `Synchronise`, `SaveSeen`, `StoreNext` for each message, `EndSync`. `ReadAction` and `SaveEdit` are
Retry and Cancel, which are in the task list of another window. `Crash` keeps the
files and the server, and may leave empty any file that was about to be written.

The server is changed by this client alone. UIDVALIDITY does not change, a
pass synchronises one mailbox where a check goes through all, and the
contents of a message, its other flags and its attachments are left out. `told` to `swept` are
history.

### ImapMailboxes

`LocalId` and `ListId` are the two functions that make an id of a remote name:
`LocalMailboxIdForImap`, used when a mailbox is created or synchronised, and
`SanitizePathComponent`, used for its directory and when the list is read.
`list[a][n]` counts the entries of the list file of account `a` with name `n`,
`box[a][i]` is the directory of id `i`, and `seen[a][i]` stands for the sync
state. `QueueCreate`, `QueueRename` and `QueueDelete` change the files at once
(`Ensure`; `RenameDirectory` with `RenameEntries`; `Delete`) and save an action
(`Journal`, which may fail). `Relisted` is the writing of a list: the code writes
the entries of all accounts to the list of one. A check replays the actions
(`ReplayNext` or `ReplayFails`; `ReplayCreate`, `ReplayRename` or `ReplayDelete`
for what is done here; `Dequeue`), discovers the mailboxes of the accounts it
reaches and synchronises each (`SyncNext`). The user picks a mailbox by the name
shown; the code looks its id up again and takes the first entry with it
(`Resolved`, any of them in the model). `Crash` may fall between the rename of a
directory and that of its entries. A list file is replaced in one step, the two
files in a directory are one, and a rename that fails halfway is left out.

### ImapSync

`uid[n][m]` is the server's side of mailbox `n`; `Deliver`, `Expunge` and
`Renumber` are its other clients and the change of UIDVALIDITY. `file` is the
state file and `store` the records by UID, both under the one local id of the
mailboxes in `Boxes`. A check replays the waiting redownloads (`Reset` saves the
record without its text, `Refetch` fetches it and saves it merged with the record
as it was, `RefetchFails` leaves the action) and takes one mailbox after the
other: `Load`, `Fetch`, `SaveState`, `StoreNext` for each message, `EndSync`. A
refresh does that with one mailbox, a resync (`full`) from the first UID. `Read`
is `GetInt`: a number past `IntMax` is read as absent. A crash may cut the state
file anywhere (`Torn`): the last seen UID comes first in it and then UIDVALIDITY.
The user labels and erases records meanwhile. UIDs and UIDVALIDITY share the one
`IntMax`; a record is its message, whether it has its text, and a label, which
stands for all that is kept only here.

### Rollout

A `run` goes through `ordered_steps`: a step is skipped (`Skip`: in a resume, when
it is recorded as done and its file is there), or the records of those after it
are dropped (`Start`), it acts (`Act...`), and is recorded (`Record`). `file[v]`
is the state file of version `v`: the steps done and the checksum recorded. A
tarball, an asset and a recipe are identified by the tagged source they were made
from, or are `Cut`. `clone` is the checkout, `branch` its branches, `remote` those
on the fork, `upstream` the target branch. `Fail` and `Refuse` record a failed
step; `Crash` may cut a file, or the state file that is being written. `MoveTag`,
`Clean`, `DropCheckout`, `Touch` and `Merge` are the operator and GitHub;
`WatchReads` and `WatchWrites` are `watch`, which may run beside a release.

## Checks

| Run | Instance | Shows |
|---|---|---|
| `send_two_windows` | 1 message, 2 windows | `TypeOK`, `SentWasAccepted`, `NoUnexplainedDuplicate`, `NoMessageVanishes`, the inductive `IInv`, and `PassEnds`, with edits, deletions, failed saves and crashes anywhere |
| `send_keep_copies` | 2 messages, one with keep_copies, one BinHex, 1 window | the same safety on the other paths of a pass, and that two messages of a list do not disturb each other |
| `pop_one_message` | 1 (big) message, 5 kinds of options | `NoMailLost`, `FetchedOnce`, `ShownAsSaved`, `OnlyAskedDeletions`, `CheckEnds` |
| `pop_shared_id` | 2 messages with one local id, marked or not, all deleted when fetched | `NoMailLost` when one displaces the other |
| `store_refines` | 1 window, 2 ids, 3 saves, 2 crashes | `Implements`: what the files keep, and what a crash may bring back, is what `MessageStore` says |
| `store_crashes` | 1 window, 2 ids, 4 saves, 2 crashes | `SavedIsListed`, `UidsTellApart` |
| `store_two_windows` | 2 windows, 2 saves | refutes `SavedIsListed` |
| `imap_two_windows` | 1 message, 1 action, 2 windows, failures and crashes, one mailbox synchronised | `ActionsKept`, `ExecutedOnce`, `CancelHolds`, `WorkEnds` |
| `imap_replay` | 2 messages in 2 mailboxes, 3 actions of all kinds, 1 window, no failures | `OnItsMessage`, `ReplayAgrees` |
| `imap_mailboxes` | 1 account, 3 names (two with one directory, one with two ids), 1 message, 2 actions, 1 crash | `NothingOrphaned`, `SeenIsShown`, `ListedOnce`, `OnlyAsked` |
| `imap_sync` | 1 window, 1 mailbox, 2 messages, 3 values of UIDVALIDITY (2 too large), 1 failure or crash, 2 calls of the user | `SeenIsStored`, `TextComesBack`, `ResyncRepairs`, `LabelKept` |
| `rollout` | 2 versions, 2 sources, 1 failure or crash, 1 act of the operator | `RecordsCurrent`, `PublishedMatches` |

**Bounds.** `SendQueue` and `PopRetrieval` have no counters: their instances are
explored completely, any number of passes, checks, edits and crashes. Messages
meet in the send queue only through the list of a pass, so one message and two
windows show the races and two messages and one window the rest; the theorems
cover all. In POP messages meet through a failed fetch, which drops all of
them, and a shared id: two do. The user chooses from all four marks (`Chosen`) with
one message, and retrieval with deletion, which takes the most steps, with two. `MailStore` bounds saves (`MaxSaves`) and crashes
(`MaxCrashes`), since the file grows with each: with four saves and two crashes a
record can be replaced, deleted, torn, swallowed, rebuilt and compacted after all
of these. Its passing runs have one window because two break it
(`store_two_windows`), and ids that are names because ids of digits do (an id
`k` of digits takes the place of the message with the unique id `k`; `NumericId`
models it). `ImapJournal` bounds actions (`MaxActions`) and UIDs (`MaxUid`; a server out of
UIDs refuses). What happens to the file of an action does not depend on
other actions, so one action and two windows show the races over it; three
actions are what it takes to mark, fetch and expunge, or to move, move back and
delete a message, and a third UID is what a second copy gets.

`ImapMailboxes` bounds actions (`MaxActions`), the entries one list can have
with one name (`MaxEntries`) and crashes (`MaxCrashes`): two actions rename or delete
what was just created, renamed or deleted, and of the three names two have one
directory and one has two ids, which are all the ways the two functions disagree. `ImapSync`
bounds UIDs (`MaxUid`), failures and crashes (`MaxFaults`) and what the user asks
for besides checks (`MaxCalls`); any number of checks may run. `IntMax` is 1, so
UID 2 and two of the three values of UIDVALIDITY are too large for an int: a
number that fits and two that do not are what the comparisons can tell apart.
`Rollout` bounds commits (`MaxCommits`), failures and crashes (`MaxFaults`) and acts of the
operator (`MaxCalls`), and any number of releases and resumes may run; the
theorems cover all. Messages, versions, sources and the ids of `MailStore` are
symmetric where a run says so: no definition orders them or names one.

These larger instances are beyond the time a regular run should take and were
checked by changing the constants alone: `ImapSync` with two mailboxes of one
id (12 million states) and with two windows (11 million);
`ImapMailboxes` with two accounts, two names and a crash, and with two accounts
and three names; `Rollout` with three commits (14 million) and with one version,
two failures and two acts of the operator (27 million), where a cut file and
a watch that writes over the records of a run come into play.

`CHECK_DEADLOCK FALSE` is given where the system may stop: no mail is
left to come, and the bounds on saves, actions, commits and faults are used up.

**Fairness.** `FairSpec` of `SendQueue` has weak fairness of each pass, that of
`PopRetrieval` of `Advance`, the steps of the running check other than failures (a
check whose listing was cut short does fail, at its next command), that of
`ImapJournal` of `Advance(w)`, the steps of a pass, a queueing call or an edit other
than failures, stops and the choice to synchronise: all are straight-line code whose only waits
are socket operations with a 5 s timeout, in a thread of their own. Nothing is
assumed of the user, the servers or crashes.

**Exemptions.** The code does lose or double things in some cases. The properties
name these, in history variables, and say that there are no others.
`NoUnexplainedDuplicate` exempts a lost answer to the final dot, a failed save, two
passes that had the message listed at once, and an edit that made a message
sendable again. `NoMailLost` exempts a message the user removed, one asked to be
deleted, one fetched by its header alone (on an account that deletes what it
fetches its body is then nowhere), a failed save, a crash between `QUIT` and the
save, and one whose id another message took. `ShownAsSaved` exempts failed writes,
checks that fail or die in between, and messages that are not in Inbox.
`SavedIsListed` exempts a record appended to a line a crash cut short.
`ActionsKept` exempts an action whose file was not written in full. `ExecutedOnce`
exempts an action whose answer or removal failed, that two passes had listed,
or that Retry or Cancel saved after its removal; `CancelHolds` one a pass had
listed when it was cancelled. `OnItsMessage` and `ReplayAgrees` exempt actions on a record that has been moved or
copied here (`Displaced`): its `remote_id` is a UID of the mailbox it came from, and
the server applies the action to what has that UID in the mailbox it is in
now, nothing or another message. `ReplayAgrees` also exempts a deletion in
the trash (the record is erased here, and on the server moved to where it is), an action queued
after a fetch, a move or a copy of the same message (the replayed fetch, or the
synchronisation, saves a second record or brings back the first), and messages
an `EXPUNGE` took along.

In `ImapMailboxes`, `SeenIsShown` exempts a message erased with its mailbox or
fetched from a mailbox whose two ids differ, and a directory that a crash in the middle of a
rename cut adrift; `NothingOrphaned` only the last. `ListedOnce` exempts names the user merged by
renaming, and a name another account has too, as the entries of all accounts
are written to the list of one. `OnlyAsked` takes a request for the mailbox
of the same directory as a request, as the code does.
In `ImapSync`, `SeenIsStored` exempts a message whose record the user erased, whose
save failed or was cut short (the last seen UID is saved before the messages), or
that another displaced, and everything after a change of UIDVALIDITY, or of the mailbox
where two have one id, that was not noticed: a change from a UIDVALIDITY past `IntMax` never is.
`TextComesBack` exempts redownloads that were cancelled.
`ResyncRepairs` is about a resync that nothing disturbs. `LabelKept` exempts the
records it names: the last message of a mailbox is fetched again by every
check (`UID FETCH n:*` always answers the last), and its record is replaced.
In `Rollout`, `RecordsCurrent` exempts a version whose records a watch has written
over, and `PublishedMatches` also one whose branch on the fork the operator has
changed, whose checkout another version has used since, or whose recorded tarball
or recipe a crash cut while it was being made again. Each of the four breaks the
property when its exemption is dropped.

**Findings.** One run refutes what a test of the repository says: two windows that
save in one mailbox lose a message from the listing (`store_two_windows`, see
"findings" in `PROJECT.json`). The other faults the code has are part of the
models, and the properties say that nothing else goes wrong: a lost `QUIT`
makes a message new again (`FetchedOnce`), the double erase of a map entry
(`FetchAsMarked`), old versions that win after a rebuild (`doubled` in
`MessageStore`), the two ids of a mailbox (`Plain`), records shown twice or
addressed to the wrong UID (`Displaced`), and the four exemptions of `PublishedMatches`.

## Proofs

All invariants and action properties of the runs that pass, and the refinement, are
theorems, for every value of the constants, and so is the variant behind each of the
three liveness properties:

| Module | Theorems |
|---|---|
| `SendQueueProofs` | `TypeOK`, `IInv`, `SentWasAccepted`, `NoUnexplainedDuplicate`, `NoMessageVanishes`; `PassesMoveOn` |
| `PopRetrievalProofs` | `TypeOK`, `NoMailLost`, `FetchedOnce`, `OnlyAskedDeletions`, `ShownAsSaved`; `ChecksMoveOn` |
| `MailStoreProofs` | `TypeOK`; with one window and ids that are names, `SavedIsListed`, `UidsTellApart`, `Implements` |
| `ImapJournalProofs` | `TypeOK`, `ActionsKept`, `OnItsMessage`, `ExecutedOnce`, `CancelHolds`; with one window and no failures, `ReplayAgrees`; `WindowsMoveOn` |
| `ImapSyncProofs` | `TypeOK`, `TextComesBack`, `SeenIsStored`, `ResyncRepairs`, `LabelKept` |
| `ImapMailboxesProofs` | `TypeOK`, `ListedOnce`, `OnlyAsked`, `NothingOrphaned`, `SeenIsShown` |
| `RolloutProofs` | `TypeOK`, `RecordsCurrent`, `PublishedMatches` |

Their only assumptions are those the modules state of their constants (bounds are
numbers, `None` is none of the values beside which it is used, ids are of the set of
ids, and the like); in `MailStoreProofs` the two named above, without which TLC
refutes `SavedIsListed` (`store_two_windows`, and ids of digits as described under
Bounds); and for `ReplayAgrees` `OnlyMain`, the condition under which the property is
meant: a failed save or a second pass may leave a record or repeat an action.

`SendQueueProofs` proves, for every set of messages and windows, with
`SendQueueAssumption` (the two kinds of messages are messages, `None` is not a
message or record) as only assumption:

- `TypeCorrect`: `Spec => []TypeOK`;
- `InductiveInvariant`: `Spec => []IInv`;
- `SentIsTrue`, `AtMostOnce`, `NothingVanishes`: `SentWasAccepted`,
  `NoUnexplainedDuplicate` and `NoMessageVanishes`.

`SentWasAccepted` is not inductive: a pass that is past `Transmit`, a listed record
or a prepared edit can make a record Sent later. `SentBacked` says that each of
these is backed by an accepted message, and that what is listed, current or
accepted is still composed, which gives `NoMessageVanishes`.
`NoUnexplainedDuplicate` needs that an unexcused message is held by one pass only
and is not sendable once accepted: `SingleOwner`, with `CurWhileBusy` for the
control state. There is one lemma per conjunct and in it one step per action.

`RolloutProofs` proves, for any sets of versions and sources and any bounds, with
`RolloutAssumption` and `NoCommit` (`None` and `Cut` are not sources, versions or
commits; the bounds are natural numbers) as only assumptions:

- `TypeCorrect`: `Spec => []TypeOK`, in particular that no recipe is rendered without
  a checksum;
- `RecordsAreCurrent`: `RecordsCurrent`;
- `PublicationMatches`: `PublishedMatches`.

None of the three is inductive. A type-correct recipe needs that a run past the
checksum has one (`SumsKnown`). For the others `OrderInv` says that records are made
in order, that a run has all before its step and, while it acts, none after it;
so whatever a step changes, no record that stands for the old contents is left.
`Stands(v, i)` joins a record with a step about to be recorded: `StandsNext` and
`RunNext` say once how records and runs come about, `FilesNext`, `PortsNext` and
`RemoteNext` what can become of the files, the checkout and the branch of a
version, and the invariants `SumsInv`, `MadeInv`, `PortInv`, `HeadInv` and
`PushInv` follow from these. Each drops its exempt versions, and the step that
ends an exemption (the tag, the checkout, the push) is one that leaves no record
the invariant speaks of.

`PopRetrievalProofs`: none of the invariants is inductive, as a check works on
copies. `SessionOK` is the control state (what is listed, deleted and fetched at
each step), `KeptOK` follows a message from the maildrop to Inbox, `OnceOK` the
fact that it was stored through the map of a check to the saved one, and
`ShownOK` the status of a record through the mark, the map of the check and the
saved map.

`ImapJournalProofs`: `TInv` adds to the types the control state of a window
(`WindowOK`) and that the server has messages only under UIDs it has given out.
`Origin(s, i, m)` says that id `i` was the UID of `m`: it holds for every record,
queued action and fetched message (`IdsOK`), and since UIDs are not given out
twice, `OnItsMessage` follows. `OnceOK(a)` and `DroppedOK(a)` say which windows can
still execute an action that is done or cancelled; they are proved action by
action from what a step does to one window (`OnceFrame`, `DroppedFrame`).

`ReplayAgrees` compares two stores at the end of a history, so its invariant tells
the history. `ReplayOK` says that the actions executed so far are the first `n` of
the queue, for some `n` (`Ordered`: a pass replays them in the order of their ids, and
none is taken out of the middle), and that every message has left a trace in the two
stores (`Tracked`): what the server has of it is what the first `n` actions have
made of it (`OnServer`), what is stored here is what all of them will make of it
(`InStore`). When everything is replayed the two are one. A step of the user appends
an action and does here what it will do there; a replayed action does there what was
done here; a synchronisation brings nothing that is not stored already, or what an
exempt message has become. The exceptions of the property are those of the
invariant: messages exempt by the actions queued for them (`Exempt`), and states that
no longer settle, or no longer qualify: a displaced action (`Strays`), or one the
server cannot carry out, which stays in the journal for good (`Stuck`).

`ImapSyncProofs`: `SeenIsStored` needs that what a check has listed is complete
relative to the state it has loaded (`CopyOK`, `BatchOK`), for every window at once;
`ResyncRepairs` that of a resync (`FullOK`); `LabelKept` that the last seen UID
once was above every record (`Known`, `NewOK`).

`ImapMailboxesProofs`: a rename and the writing of a list are two steps, so
`NothingOrphaned` needs what a directory is attached to in between (`Moving`,
`Attached`); `SeenIsShown` rests on it, and on `NoneLeaves`: no step takes a message
out of all directories of its account. `OnlyAsked` needs that an action in the
journal, wherever the replay stands, is one the user asked for (`AInv`).

`MailStoreProofs`: what a load lists is defined by a recursion over the file
(`Rebuild`), so the proofs go by induction over its length (`UpTo` of `Extrema`):
`TableTyped` and `RebuildOf` on any file, `RebuildAppend` on what a record appended
to a file changes, when the file ends in records cut short of which some now run
on into it. `SInv` says that the entries of the TOC and those a rebuild would list
never share a unique id between two messages, that new numbers are above both,
and that both list what has been acknowledged (`Coherent`, `Held`). For the refinement
`RInv` adds that every entry is of a record in the file (`OfFile`), that until the
first crash an id has one entry at most (`Single`), and what each step of a call
has loaded. `Got` returns the first entry of an id (`FirstFound`), so a removal and an
append change the reads of no other id (`RestGot`, `AddedGot`). A save or deletion is
a step of `MessageStore` when its record is appended or its entry found, and its
return when the TOC is written; a compaction when the file is renamed; all other
steps, rebuilds too, are none (`Quiet`).

`PassesMoveOn`, `ChecksMoveOn` and `WindowsMoveOn` are what can be proved of the end of
the work: while a window is at it, no step of the user, of another window or of the
server gives it more to do, and each of its own steps ends it or brings it
further, in an order that goes through the messages or actions left (a set that only
loses members), the place in the code, and what the last loop has left. `Left` counts
the current message, so that it is finished once and not met again (`CurUnlisted`,
`WindowOK`). So with finitely many messages the number of steps is bounded, as the
comments on the theorems say; that a next step is always possible, and is taken, is
what the runs check.

What stays with TLC: liveness under fairness (`PassEnds`, `CheckEnds`, `WorkEnds`),
which the provers do not do, nor ENABLED; and `store_two_windows`, a counterexample.

## Not modelled, and the plan

Next, in this order:

1. `Attachments`: the one attachment directory for all mailboxes, its files named by the
   unique ids of single mailboxes.
2. Compose (signature management, draft autosave), filters, OAuth refresh.

Partly modelled: of the journal, the automatic fetches a preference starts and the
actions no caller queues (resync, refresh list) are left out; of the mailbox
files, the local mailbox tree, drafts and signatures; of the rollout, the
commands that read and print only. The rollout for Linux is scripts of the same make.

Out of reach or without protocol state: sockets and TLS (their outcomes are
choices in the models), text formats and parsers, search, spelling, sorting,
settings and view models, importers, and the user interface, which is the larger part of
the source: its windows keep views of what the core has stored, and the
operations they start are actions of the modules above. So the share of the
source the map covers stays small, while it covers most of the code that
changes mail, journals or records on disk.
