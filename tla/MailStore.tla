------------------------------ MODULE MailStore ------------------------------
(***************************************************************************)
(* One mailbox on disk as EudoraStorage keeps it: an MBX file that only    *)
(* grows (except when compacted) and a TOC file that lists the records of  *)
(* the MBX file that are in the mailbox.  A TOC that is missing,           *)
(* unreadable, or written for another size of the MBX file is rebuilt by   *)
(* scanning the MBX file.                                                  *)
(*                                                                         *)
(* Calls of several windows run interleaved, file access by file access:   *)
(* nothing locks the files.  The process may die between any two accesses, *)
(* and in the middle of an append or of a rewrite of the TOC.              *)
(***************************************************************************)
EXTENDS Naturals, Sequences, SequencesExt

CONSTANTS
  Threads,    \* windows with a call in the store
  Keys,       \* message ids callers use
  NumericId,  \* NumericId[k]: the number an id of digits stands for, or 0
  Ops,        \* the operations called
  MaxSaves,   \* bound on saves begun
  MaxCrashes, \* bound on crashes
  None

VARIABLES
  mbx,      \* the MBX file: a sequence of records
  toc,      \* the TOC file, or None when it is missing or cannot be read
  pc, op,   \* the step and the operation of each thread
  mine,     \* mine[t]: the TOC the call of t has loaded and will write
  rebuilt,  \* rebuilt[t]: the TOC a rebuild by t is writing
  found,    \* found[t]: the entry t read that its save replaces, or None
  saves,    \* number of saves begun
  crashes,
  acked,    \* acked[k]: version of the last save of k that returned, or
            \* None when the last call that returned deleted k
  shadowed  \* the saves that were appended to a cut line

vars == <<mbx, toc, pc, op, mine, rebuilt, found, saves, crashes, acked, shadowed>>

(* A stored message.  A crash may cut a record short: before its envelope   *)
(* can be recognised, in the envelope line, in the headers (before or       *)
(* after the two ids), or in the body.  glued: what follows in the file     *)
(* continues the last line of the record.                                   *)
Stored == [key : Keys \cup {None}, ver : 0..MaxSaves, uid : Nat,
           tear : {"none", "stub", "envelope", "head", "body"}, glued : BOOLEAN]

Record(k, v, uid, tear, g) == [key |-> k, ver |-> v, uid |-> uid, tear |-> tear, glued |-> g]

Whole(k, v, uid) == Record(k, v, uid, "none", FALSE)

Torn(k, uid) ==
  {Record(None, 0, 0, "stub", TRUE), Record(None, 0, 0, "envelope", TRUE)} \cup
  {Record(None, 0, 0, "head", g) : g \in BOOLEAN} \cup
  {Record(k, 0, uid, tear, g) : tear \in {"head", "body"}, g \in BOOLEAN}

(* What the TOC lists of a message, and the TOC. *)
Entry == [key : Keys \cup {None}, ver : 0..MaxSaves, uid : Nat \ {0}]

Table == [sums : Seq(Entry), of : Seq(Stored), next : Nat]

ASSUME MailStoreAssumption ==
  /\ Ops \subseteq {"save", "delete", "list", "compact"}
  /\ NumericId \in [Keys -> Nat]
  /\ MaxSaves \in Nat /\ MaxCrashes \in Nat
  /\ None \notin Keys /\ None \notin 1..MaxSaves /\ None \notin Entry /\ None \notin Table

EmptyToc == [sums |-> <<>>, of |-> <<>>, next |-> 0]

Idle == [kind |-> "none", key |-> None, ver |-> 0]

Init ==
  /\ mbx = <<>>
  /\ toc = None
  /\ pc = [t \in Threads |-> "idle"]
  /\ op = [t \in Threads |-> Idle]
  /\ mine = [t \in Threads |-> EmptyToc]
  /\ rebuilt = [t \in Threads |-> EmptyToc]
  /\ found = [t \in Threads |-> None]
  /\ saves = 0
  /\ crashes = 0
  /\ acked = [k \in Keys |-> None]
  /\ shadowed = {}

Goto(t, step) == pc' = [pc EXCEPT ![t] = step]

-----------------------------------------------------------------------------
(* Reading *)

(* ScanMbxFile finds the first envelope anywhere, and later ones at the     *)
(* start of a line.                                                         *)
Found(file, i) ==
  /\ file[i].tear # "stub"
  /\ i > 1 => ~file[i - 1].glued \/ \A j \in 1..(i - 1) : file[j].tear = "stub"

(* Nothing follows the line of an envelope cut short at the end.            *)
Scanned(file, i) == Found(file, i) /\ ~(file[i].tear = "envelope" /\ i = Len(file))

(* The headers of a record cut short run on in the record that follows.     *)
RunsOn(file, i) == file[i].glued /\ file[i].tear # "body" /\ i < Len(file)

(* ParseStoredMessage: the headers of the record they run on to come later  *)
(* and win.                                                                 *)
Parsed(file) ==
  [i \in 1..Len(file) |-> file[Min({j \in i..Len(file) : ~RunsOn(file, j)})]]

(* Mutants: one entry per id is listed; the next unique id is not kept; a   *)
(* missing unique id stays missing.                                         *)
AddFirstOfId(table, r) ==
  LET uid == IF r.uid = 0 THEN table.next + 1 ELSE r.uid
  IN IF \E i \in DOMAIN table.sums : table.sums[i].key = r.key THEN table
     ELSE [table EXCEPT !.sums = Append(@, [key |-> r.key, ver |-> r.ver, uid |-> uid]),
                        !.next = IF uid > @ THEN uid ELSE @]

AddWithoutNext(table, r) ==
  [table EXCEPT !.sums = Append(@, [key |-> r.key, ver |-> r.ver,
                                    uid |-> IF r.uid = 0 THEN table.next + 1 ELSE r.uid])]

AddAsStored(table, r) ==
  [table EXCEPT !.sums = Append(@, [key |-> r.key, ver |-> r.ver, uid |-> r.uid]),
                !.next = IF r.uid > @ THEN r.uid ELSE @]

(* RebuildTocFromMbx: every record of the file is listed, also those        *)
(* deleted or replaced since.  One without a unique id gets the number      *)
(* after the greatest so far.  An entry stands for the bytes it points at,  *)
(* which do not change while the file grows.                                *)
AddEntry(table, r) ==
  LET uid == IF r.uid = 0 THEN table.next + 1 ELSE r.uid
  IN [table EXCEPT !.sums = Append(@, [key |-> r.key, ver |-> r.ver, uid |-> uid]),
                   !.next = IF uid > @ THEN uid ELSE @]

AddScanned(table, file, i) ==
  IF Scanned(file, i) THEN AddEntry(table, Parsed(file)[i]) ELSE table

Rebuild(file) ==
  LET table[i \in 0..Len(file)] ==
        IF i = 0 THEN [EmptyToc EXCEPT !.of = file] ELSE AddScanned(table[i - 1], file, i)
  IN table[Len(file)]

(* The TOC can be read and is for the file as it is.  The code compares    *)
(* sizes; different contents are taken to have different sizes.            *)
Fresh == toc # None /\ toc.of = mbx

(* ResolveMessageEntry: an entry is of message k if its record has that id  *)
(* or its unique id is the number k stands for; the first one is taken.     *)
Matches(entry, k) == entry.key = k \/ entry.uid = NumericId[k]

Find(sums, k) == SelectInSeq(sums, LAMBDA entry : Matches(entry, k))

(* Mutant: the last entry is never removed. *)
WithoutButLast(sums, i) ==
  IF i \in 1..(Len(sums) - 1) THEN RemoveAt(sums, i) ELSE sums

(* Nothing is removed when no entry was found, or when the TOC loaded first *)
(* is shorter than the entries loaded later.                                *)
Without(sums, i) == IF i \in 1..Len(sums) THEN RemoveAt(sums, i) ELSE sums

-----------------------------------------------------------------------------
(* Calls *)

Begin(t, kind, k) ==
  /\ pc[t] = "idle"
  /\ kind \in {"list", "compact"} <=> k = None
  /\ IF kind = "save"
     THEN saves < MaxSaves /\ saves' = saves + 1
     ELSE UNCHANGED saves
  /\ op' = [op EXCEPT ![t] = [kind |-> kind, key |-> k, ver |-> saves']]
  /\ Goto(t, IF kind = "list" THEN "look" ELSE "load")
  /\ UNCHANGED <<mbx, toc, mine, rebuilt, found, crashes, acked, shadowed>>

(* LoadOrRebuildToc, up to the rewrite of the TOC. *)
Load(t) ==
  /\ pc[t] = "load"
  /\ IF Fresh
     THEN /\ mine' = [mine EXCEPT ![t] = toc]
          /\ Goto(t, "look")
          /\ UNCHANGED rebuilt
     ELSE /\ rebuilt' = [rebuilt EXCEPT ![t] = Rebuild(mbx)]
          /\ Goto(t, "load-open")
          /\ UNCHANGED mine
  /\ UNCHANGED <<mbx, toc, op, found, saves, crashes, acked, shadowed>>

(* WriteToc truncates the file, and has the size of the MBX file put in    *)
(* just before.                                                            *)
OpenRebuilt(t) ==
  /\ pc[t] \in {"load-open", "look-open"}
  /\ toc' = None
  /\ rebuilt' = [rebuilt EXCEPT ![t].of = mbx]
  /\ Goto(t, IF pc[t] = "load-open" THEN "load-write" ELSE "look-write")
  /\ UNCHANGED <<mbx, op, mine, found, saves, crashes, acked, shadowed>>

Return(t) ==
  /\ Goto(t, "idle")
  /\ op' = [op EXCEPT ![t] = Idle]
  /\ mine' = [mine EXCEPT ![t] = EmptyToc]
  /\ rebuilt' = [rebuilt EXCEPT ![t] = EmptyToc]
  /\ found' = [found EXCEPT ![t] = None]

(* What a call does once it has read the entries sums: list and compact    *)
(* need no message, a deletion of none returns.                            *)
UseEntries(t, sums) ==
  LET i == Find(sums, op[t].key)
      rest == Without(mine[t].sums, i)
  IN CASE op[t].kind = "list" ->
            Return(t) /\ UNCHANGED acked
       [] op[t].kind = "save" ->
            /\ found' = [found EXCEPT ![t] = IF i = 0 THEN None ELSE sums[i]]
            /\ mine' = [mine EXCEPT ![t].sums = rest]
            /\ Goto(t, "append")
            /\ UNCHANGED <<op, rebuilt, acked>>
       [] op[t].kind = "delete" /\ i = 0 ->
            Return(t) /\ acked' = [acked EXCEPT ![op[t].key] = None]
       [] op[t].kind = "delete" /\ i # 0 ->
            /\ mine' = [mine EXCEPT ![t].sums = rest]
            /\ Goto(t, "open")
            /\ UNCHANGED <<op, rebuilt, found, acked>>
       [] op[t].kind = "compact" ->
            /\ rebuilt' = [rebuilt EXCEPT ![t].sums = sums]
            /\ Goto(t, "rename")
            /\ UNCHANGED <<op, mine, found, acked>>

(* LoadMessageEntries, which loads or rebuilds the TOC again. *)
Look(t) ==
  /\ pc[t] = "look"
  /\ IF Fresh
     THEN UseEntries(t, toc.sums)
     ELSE /\ rebuilt' = [rebuilt EXCEPT ![t] = Rebuild(mbx)]
          /\ Goto(t, "look-open")
          /\ UNCHANGED <<op, mine, found, acked>>
  /\ UNCHANGED <<mbx, toc, saves, crashes, shadowed>>

WriteRebuilt(t) ==
  /\ \/ /\ pc[t] = "load-write"
        /\ mine' = [mine EXCEPT ![t] = rebuilt[t]]
        /\ Goto(t, "look")
        /\ UNCHANGED <<op, rebuilt, found, acked>>
     \/ /\ pc[t] = "look-write"
        /\ UseEntries(t, rebuilt[t].sums)
  /\ toc' = rebuilt[t]
  /\ UNCHANGED <<mbx, saves, crashes, shadowed>>

(* A crash left the file ending in a line of a body, or in one that is not  *)
(* yet an envelope: a scan will not find a record that is appended to it.   *)
EndsInCutLine ==
  \E i \in DOMAIN mbx : /\ mbx[i].tear \in {"body", "stub"}
                        /\ \A j \in i..Len(mbx) : mbx[j].glued

(* The record SaveMessageInternal writes: with the unique id and the id of  *)
(* the entry it replaces, or the number its id stands for, or a new number. *)
NewRecord(t) ==
  LET k == op[t].key
      old == found[t]
  IN Whole(IF old # None /\ old.key # None THEN old.key ELSE k,
           op[t].ver,
           CASE old # None -> old.uid
             [] old = None /\ NumericId[k] # 0 -> NumericId[k]
             [] old = None /\ NumericId[k] = 0 -> mine[t].next + 1)

AppendRecord(t) ==
  /\ pc[t] = "append"
  /\ mbx' = Append(mbx, NewRecord(t))
  /\ shadowed' = IF EndsInCutLine THEN shadowed \cup {op[t].ver} ELSE shadowed
  /\ mine' = [mine EXCEPT ![t] = AddEntry(@, NewRecord(t))]
  /\ Goto(t, "open")
  /\ UNCHANGED <<toc, op, rebuilt, found, saves, crashes, acked>>

(* CompactMailbox renames a file with the entries alone over the MBX file.  *)
RenameCompacted(t) ==
  /\ pc[t] = "rename"
  /\ LET entries == rebuilt[t].sums
         written(i) == Whole(entries[i].key, entries[i].ver, entries[i].uid)
     IN /\ mbx' = [i \in 1..Len(entries) |-> written(i)]
        /\ mine' = [mine EXCEPT ![t].sums = entries]
  /\ Goto(t, "open")
  /\ UNCHANGED <<toc, op, rebuilt, found, saves, crashes, acked, shadowed>>

Open(t) ==
  /\ pc[t] = "open"
  /\ toc' = None
  /\ mine' = [mine EXCEPT ![t].of = mbx]
  /\ Goto(t, "write")
  /\ UNCHANGED <<mbx, op, rebuilt, found, saves, crashes, acked, shadowed>>

Write(t) ==
  /\ pc[t] = "write"
  /\ toc' = mine[t]
  /\ acked' = CASE op[t].kind = "save" -> [acked EXCEPT ![op[t].key] = op[t].ver]
                [] op[t].kind = "delete" -> [acked EXCEPT ![op[t].key] = None]
                [] op[t].kind = "compact" -> acked
  /\ Return(t)
  /\ UNCHANGED <<mbx, saves, crashes, shadowed>>

(* The process ends.  An append may have got only a part of its record out. *)
Crash ==
  /\ crashes < MaxCrashes
  /\ \E t \in Threads : pc[t] # "idle"
  /\ crashes' = crashes + 1
  /\ pc' = [t \in Threads |-> "idle"]
  /\ op' = [t \in Threads |-> Idle]
  /\ mine' = [t \in Threads |-> EmptyToc]
  /\ rebuilt' = [t \in Threads |-> EmptyToc]
  /\ found' = [t \in Threads |-> None]
  /\ \/ UNCHANGED mbx
     \/ \E t \in Threads :
          /\ pc[t] = "append"
          /\ \E r \in Torn(NewRecord(t).key, NewRecord(t).uid) : mbx' = Append(mbx, r)
  /\ UNCHANGED <<toc, saves, acked, shadowed>>

Step(t) ==
  \/ \E kind \in Ops, k \in Keys \cup {None} : Begin(t, kind, k)
  \/ Load(t) \/ OpenRebuilt(t) \/ WriteRebuilt(t) \/ Look(t)
  \/ AppendRecord(t) \/ RenameCompacted(t) \/ Open(t) \/ Write(t)

Next == Crash \/ \E t \in Threads : Step(t)

Spec == Init /\ [][Next]_vars

-----------------------------------------------------------------------------
(* Properties *)

TypeOK ==
  /\ mbx \in Seq(Stored)
  /\ toc \in Table \cup {None}
  /\ pc \in [Threads -> {"idle", "load", "load-open", "load-write", "look", "look-open", "look-write",
                         "append", "rename", "open", "write"}]
  /\ op \in [Threads -> [kind : Ops \cup {"none"}, key : Keys \cup {None}, ver : 0..MaxSaves]]
  /\ mine \in [Threads -> Table] /\ rebuilt \in [Threads -> Table]
  /\ found \in [Threads -> Entry \cup {None}]
  /\ saves \in 0..MaxSaves /\ crashes \in 0..MaxCrashes
  /\ acked \in [Keys -> (1..MaxSaves) \cup {None}]
  /\ shadowed \subseteq 1..MaxSaves

(* What the next load of the mailbox lists. *)
Listing == IF Fresh THEN toc.sums ELSE Rebuild(mbx).sums

Got(sums, k) == IF Find(sums, k) = 0 THEN None ELSE sums[Find(sums, k)].ver

(* A save or a deletion takes effect when its record is appended or its     *)
(* entry found, a compaction when the file is renamed: with one window the  *)
(* two files are the map of MessageStore.                                   *)
Effective ==
  IF \E t \in Threads : pc[t] \in {"open", "write"}
  THEN mine[CHOOSE t \in Threads : pc[t] \in {"open", "write"}].sums
  ELSE Listing

Store == LET sums == Effective IN [k \in Keys |-> Got(sums, k)]

Past == [k \in Keys |-> {r.ver : r \in {x \in Range(mbx) : x.key = k}}]

Several(sums, k) == \E i, j \in DOMAIN sums : i # j /\ sums[i].key = k /\ sums[j].key = k

Doubled == LET sums == Effective IN {k \in Keys : Several(sums, k)}

Promise == INSTANCE MessageStore WITH
  Versions <- 1..MaxSaves,
  Partial <- 0,
  store <- Store,
  past <- Past,
  doubled <- Doubled,
  crashed <- crashes > 0

Implements == Promise!Spec

(* A version whose save has returned is listed, in every state and so after *)
(* every crash and compaction, unless it was appended to a cut line.        *)
SavedIsListed ==
  \A k \in Keys :
    \/ acked[k] = None
    \/ acked[k] \in shadowed
    \/ \E e \in Range(Listing) : e.key = k /\ e.ver = acked[k]

(* Two messages a load lists have different unique ids, by which the store  *)
(* names their attachment files: also after rebuilds.                       *)
UidsTellApart ==
  \A d, e \in Range(Listing) : d.uid = e.uid => d.key = e.key
=============================================================================
