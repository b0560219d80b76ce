-------------------------- MODULE ImapJournalProofs --------------------------
(***************************************************************************)
(* Proofs about the journal of IMAP actions: nothing the user was told is  *)
(* queued is lost, nothing is executed twice or after it was cancelled but *)
(* where the code admits it, an action touches its own message, and no     *)
(* pass goes on for ever.  They hold for every set of mailboxes, messages  *)
(* and windows, and any number of failures and crashes.  With one window   *)
(* and no failures, the server comes to what is shown here.                *)
(***************************************************************************)
EXTENDS ImapJournal, FiniteSetTheorems, SequenceTheorems, Extrema

-----------------------------------------------------------------------------
(* Types *)

(* An action names a record, unless it is for a whole mailbox. *)
Command == {t \in Action : t.kind # "expunge" => t.id \in Ids}

AtAction == {"run", "ok", "failed", "edit"}
InPass == {"next", "run", "ok", "failed"}

(* The state of window w: it has a current action when its step needs one, *)
(* and one that it has not listed again; only the main window queues.      *)
WindowOK(w) ==
  /\ cur[w] # 0 <=> pc[w] \in AtAction
  /\ cur[w] \notin todo[w]
  /\ pc[w] \notin InPass => todo[w] = {}
  /\ pc[w] = "edit" => edit[w] \in {"waiting", "cancelled"}
  /\ pc[w] \in {"erase", "journal"} => w = Main

ControlOK ==
  /\ journal \in [Actions -> {"absent", "waiting", "cancelled", "void"}]
  /\ queued \in Seq(Command) /\ Len(queued) <= MaxActions
  /\ \A a \in Actions : a > Len(queued) => journal[a] = "absent"
  /\ account \in OnDelete
  /\ pc \in [Windows -> {"idle", "erase", "journal", "next", "run", "ok", "failed",
                         "state", "store", "edit"}]
  /\ task \in Action \cup {None} /\ source \in Boxes \cup {None}
  /\ todo \in [Windows -> SUBSET (1..Len(queued))]
  /\ cur \in [Windows -> 0..Len(queued)]
  /\ edit \in [Windows -> {"absent", "waiting", "cancelled"}]
  /\ told \cup done \cup dropped \subseteq 1..Len(queued)
  /\ twice \cup late \cup torn \cup unsure \cup overrun \subseteq Actions
  /\ swept \subseteq Messages
  /\ \A w \in Windows : WindowOK(w)
  /\ pc[Main] \in {"erase", "journal"} => task \in Command /\ Len(queued) < MaxActions
  /\ pc[Main] = "erase" => source \in Boxes /\ task.id \in Ids

LEMMA Bounds ==
  /\ MaxUid \in Nat /\ MaxActions \in Nat /\ Main \in Windows /\ Trash \in Boxes
  /\ Uids \subseteq Nat /\ Actions \subseteq Nat
  /\ None \notin Mail /\ None \notin Ids /\ None \notin Action /\ None \notin Messages
BY ImapJournalAssumption DEF Uids, Actions

LEMMA LeastOf ==
  ASSUME NEW n \in Nat, NEW S \in SUBSET (1..n), S # {}
  PROVE  Least(S) \in S
<1>1. \E a \in S : \A b \in S : a <= b
  BY LeastExists
<1> QED BY <1>1 DEF Least

(* What a call of Save leaves in the journal. *)
LEMMA SaveEffect ==
  ASSUME ControlOK, NEW a \in Actions, NEW state \in {"waiting", "cancelled"}, Save(a, state)
  PROVE  /\ journal' \in [Actions -> {"absent", "waiting", "cancelled", "void"}]
         /\ \A b \in Actions \ {a} : journal'[b] = journal[b]
         /\ journal'[a] \in {state, journal[a], "void"}
         /\ torn' \subseteq torn \cup {a} /\ torn \subseteq torn'
         /\ journal'[a] = "void" => journal[a] = "void" \/ a \in torn'
BY DEF Save, ControlOK

(* The current action of a window that has one. *)
LEMMA CurType ==
  ASSUME ControlOK, NEW w \in Windows, pc[w] \in AtAction
  PROVE  /\ cur[w] \in 1..Len(queued) /\ cur[w] \in Actions
         /\ queued[cur[w]] \in Command /\ queued[cur[w]] \in Action
<1>1. cur[w] \in 0..Len(queued) /\ cur[w] # 0 /\ Len(queued) \in Nat /\ Len(queued) <= MaxActions
  BY DEF ControlOK, WindowOK
<1>2. cur[w] \in 1..Len(queued) /\ cur[w] \in Actions
  BY <1>1, Bounds DEF Actions
<1> QED BY <1>2 DEF ControlOK, Command

LEMMA NextTodo ==
  ASSUME ControlOK, NEW w \in Windows, todo[w] # {}
  PROVE  /\ Least(todo[w]) \in todo[w] /\ Least(todo[w]) \in 1..Len(queued)
         /\ Least(todo[w]) \in Actions
<1>1. Len(queued) \in Nat /\ Len(queued) <= MaxActions /\ todo[w] \in SUBSET (1..Len(queued))
  BY DEF ControlOK
<1>2. Least(todo[w]) \in todo[w]
  BY <1>1, LeastOf
<1> QED BY <1>1, <1>2, Bounds DEF Actions

LEMMA BeingSavedType ==
  ASSUME ControlOK
  PROVE  BeingSaved \subseteq 1..Len(queued)
<1>1. ASSUME NEW w \in Windows, pc[w] \in {"failed", "edit"} PROVE cur[w] \in 1..Len(queued)
  BY <1>1, CurType DEF AtAction
<1>2. ASSUME NEW w \in Windows, pc[w] = "next", todo[w] # {}
      PROVE  Least(todo[w]) \in 1..Len(queued)
  BY <1>2, NextTodo
<1> QED BY <1>1, <1>2 DEF BeingSaved

LEMMA ListedType ==
  ASSUME ControlOK
  PROVE  Listed \subseteq 1..Len(queued)
BY Bounds DEF Listed, ControlOK, Actions

Server == [mail : [Boxes -> [Uids -> Mail \cup {None}]], next : [Boxes -> 1..(MaxUid + 1)]]

(* The server has messages only under UIDs it has given out. *)
Below(s) == \A b \in Boxes, u \in Uids : s.mail[b][u] # None => u < s.next[b]

(* What a synchronisation has to save. *)
Pulled == [box : Boxes, top : 0..MaxUid, mail : UNION {[D -> Mail] : D \in SUBSET Uids}]

StoreOK ==
  /\ srv \in Server /\ Below(srv)
  /\ local \in [Boxes -> [Ids -> Mail \cup {None}]]
  /\ seen \in [Boxes -> 0..MaxUid] /\ \A b \in Boxes : seen[b] < srv.next[b]
  /\ pulled \in [Windows -> Pulled \cup {None}]
  /\ \A w \in Windows :
       IF pc[w] \in {"state", "store"}
       THEN pulled[w] \in Pulled /\ pulled[w].top < srv.next[pulled[w].box]
       ELSE pulled[w] = None

TInv == ControlOK /\ StoreOK

LEMMA QueuedCommand ==
  ASSUME TInv, NEW kind \in Kinds \ {"expunge"}, NEW b \in Boxes, NEW i \in Ids, NEW d \in Boxes,
         local[b][i] # None
  PROVE  [kind |-> kind, box |-> b, id |-> i, dest |-> d, of |-> local[b][i].of] \in Command
<1>1. local[b][i] \in Mail
  BY DEF TInv, StoreOK
<1>2. local[b][i].of \in Messages
  BY <1>1 DEF Mail
<1> QED BY <1>2 DEF Command, Action

(* Where the main window goes when it begins to queue task'. *)
LEMMA ControlOfQueueing ==
  ASSUME TInv, pc[Main] = "idle", Room, task' \in Command,
         NEW step \in {"erase", "journal"}, Goto(Main, step),
         step = "erase" => source' \in Boxes /\ task'.id \in Ids,
         source' \in Boxes \cup {None}, Unqueued
  PROVE  ControlOK'
<1>1. ControlOK /\ Main \in Windows
  BY Bounds DEF TInv
<1>2. /\ pc' \in [Windows -> {"idle", "erase", "journal", "next", "run", "ok", "failed",
                             "state", "store", "edit"}]
      /\ pc'[Main] = step /\ \A w \in Windows \ {Main} : pc'[w] = pc[w]
  BY <1>1 DEF Goto, ControlOK
<1>3. ASSUME NEW w \in Windows PROVE WindowOK(w)'
  BY <1>1, <1>2 DEF ControlOK, WindowOK, Unqueued, AtAction, InPass
<1>4. task' \in Action \cup {None}
  BY DEF Command
<1> QED BY <1>1, <1>2, <1>3, <1>4 DEF ControlOK, Unqueued, Room, history

LEMMA ControlQueue ==
  ASSUME TInv, QueueNext
  PROVE  ControlOK'
<1>0. OnDelete \subseteq {"move", "mark", "erase"} /\ account \in OnDelete /\ ControlOK
      /\ source \in Boxes \cup {None}
  BY ImapJournalAssumption DEF TInv, ControlOK
<1>1. ASSUME NEW b \in Boxes, NEW i \in Ids, NEW d \in Boxes, QueueMove(b, i, d) PROVE ControlOK'
  <2>1. task' \in Command /\ task'.id = i
    BY <1>1, QueuedCommand DEF QueueMove, Selected, Queue, Kinds
  <2> QED BY <1>1, <2>1, ControlOfQueueing DEF QueueMove, Selected
<1>2. ASSUME NEW b \in Boxes, NEW i \in Ids, NEW d \in Boxes, QueueCopy(b, i, d) PROVE ControlOK'
  <2>1. task' \in Command
    BY <1>2, QueuedCommand DEF QueueCopy, Selected, Queue, Kinds
  <2> QED BY <1>0, <1>2, <2>1, ControlOfQueueing DEF QueueCopy, Selected
<1>3. ASSUME NEW b \in Boxes, NEW i \in Ids, QueueDelete(b, i) PROVE ControlOK'
  <2>1. account \in Kinds \ {"expunge"}
    BY <1>0, <1>3 DEF QueueDelete, Kinds
  <2>2. task' \in Command
    BY <1>3, <2>1, QueuedCommand DEF QueueDelete, Selected, Queue
  <2> QED BY <1>0, <1>3, <2>2, ControlOfQueueing DEF QueueDelete, Selected
<1>4. ASSUME NEW b \in Boxes, NEW i \in Ids, QueueUndelete(b, i) PROVE ControlOK'
  <2>1. task' \in Command
    BY <1>4, QueuedCommand DEF QueueUndelete, Selected, Queue, Kinds
  <2> QED BY <1>0, <1>4, <2>1, ControlOfQueueing DEF QueueUndelete, Selected
<1>5. ASSUME NEW b \in Boxes, NEW i \in Ids, QueueFetch(b, i) PROVE ControlOK'
  <2>1. task' \in Command
    BY <1>5, QueuedCommand DEF QueueFetch, Selected, Queue, Kinds
  <2> QED BY <1>0, <1>5, <2>1, ControlOfQueueing DEF QueueFetch, Selected
<1>6. ASSUME NEW b \in Boxes, QueueExpunge(b) PROVE ControlOK'
  <2>1. [kind |-> "expunge", box |-> b, id |-> None, dest |-> b, of |-> None] \in Command
    BY DEF Command, Action, Kinds
  <2>2. CASE UNCHANGED <<task, pc>>
    BY <1>0, <1>6, <2>2 DEF QueueExpunge, Unqueued, ControlOK, WindowOK, history
  <2>3. CASE task' = [kind |-> "expunge", box |-> b, id |-> None, dest |-> b, of |-> None]
             /\ Goto(Main, "journal")
    BY <1>0, <1>6, <2>1, <2>3, ControlOfQueueing DEF QueueExpunge
  <2> QED BY <1>6, <2>2, <2>3 DEF QueueExpunge
<1> QED BY <1>1, <1>2, <1>3, <1>4, <1>5, <1>6 DEF QueueNext

LEMMA GotoEffect ==
  ASSUME ControlOK, NEW w \in Windows, Goto(w, "idle") \/ Goto(w, "journal") \/ Goto(w, "next")
           \/ Goto(w, "run") \/ Goto(w, "ok") \/ Goto(w, "failed") \/ Goto(w, "state")
           \/ Goto(w, "store") \/ Goto(w, "edit")
  PROVE  /\ pc' \in [Windows -> {"idle", "erase", "journal", "next", "run", "ok", "failed",
                                "state", "store", "edit"}]
         /\ \A v \in Windows \ {w} : pc'[v] = pc[v]
         /\ pc' = [pc EXCEPT ![w] = pc'[w]]
         /\ \A step : Goto(w, step) => pc'[w] = step
BY DEF Goto, ControlOK

(* A step of window w of a pass, that leaves the queue as it is. *)
LEMMA ControlOfPass ==
  ASSUME ControlOK, NEW w \in Windows,
         UNCHANGED <<queued, account, task, source>>,
         pc[w] \notin {"erase", "journal"}, pc'[w] \notin {"erase", "journal"},
         journal' \in [Actions -> {"absent", "waiting", "cancelled", "void"}],
         \A a \in Actions : a > Len(queued) => journal'[a] = journal[a],
         pc' \in [Windows -> {"idle", "erase", "journal", "next", "run", "ok", "failed",
                             "state", "store", "edit"}],
         todo' \in [Windows -> SUBSET (1..Len(queued))],
         cur' \in [Windows -> 0..Len(queued)],
         edit' \in [Windows -> {"absent", "waiting", "cancelled"}],
         \A v \in Windows \ {w} : /\ pc'[v] = pc[v] /\ todo'[v] = todo[v]
                                  /\ cur'[v] = cur[v] /\ edit'[v] = edit[v],
         WindowOK(w)',
         told' \cup done' \cup dropped' \subseteq 1..Len(queued),
         twice' \cup late' \cup torn' \cup unsure' \cup overrun' \subseteq Actions,
         swept' \subseteq Messages
  PROVE  ControlOK'
<1>1. ASSUME NEW v \in Windows PROVE WindowOK(v)'
  <2>1. CASE v = w
    BY <2>1
  <2>2. CASE v # w
    BY <2>2 DEF ControlOK, WindowOK
  <2> QED BY <2>1, <2>2
<1>2. pc'[Main] \in {"erase", "journal"} => pc'[Main] = pc[Main]
  BY Bounds
<1> QED BY <1>1, <1>2 DEF ControlOK

(* The server has begun to execute the action. *)
LEMMA RecordType ==
  ASSUME ControlOK, NEW w \in Windows, pc[w] = "run", NEW a, Record(w, a)
  PROVE  /\ done' \subseteq 1..Len(queued) /\ twice' \subseteq Actions /\ late' \subseteq Actions
         /\ swept' \subseteq Messages
BY CurType DEF AtAction, Record, ControlOK

LEMMA ControlStep ==
  ASSUME TInv, [Next]_vars
  PROVE  ControlOK'
<1>0. ControlOK /\ Main \in Windows /\ Len(queued) \in Nat /\ Len(queued) <= MaxActions
      /\ 1..Len(queued) \subseteq Actions
  BY Bounds DEF TInv, ControlOK, Actions
<1>1. CASE QueueNext
  BY <1>1, ControlQueue
<1>2. CASE QueueFails
  BY <1>0, <1>2, GotoEffect DEF QueueFails, Unqueued, ControlOK, WindowOK, AtAction, InPass, history
<1>3. CASE Crash
  <2>1. ASSUME NEW empty \in SUBSET BeingSaved,
               journal' = [a \in Actions |-> IF a \in empty THEN "void" ELSE journal[a]],
               torn' = torn \cup empty
        PROVE  /\ journal' \in [Actions -> {"absent", "waiting", "cancelled", "void"}]
               /\ \A a \in Actions : a > Len(queued) => journal'[a] = "absent"
               /\ torn' \subseteq Actions
    BY <1>0, <2>1, BeingSavedType DEF ControlOK
  <2>2. /\ journal' \in [Actions -> {"absent", "waiting", "cancelled", "void"}]
        /\ \A a \in Actions : a > Len(queued) => journal'[a] = "absent"
        /\ torn' \subseteq Actions
    BY <1>3, <2>1 DEF Crash
  <2>3. unsure' \subseteq Actions
    BY <1>0, <1>3, CurType DEF Crash, ControlOK, AtAction
  <2>4. /\ pc' = [w \in Windows |-> "idle"] /\ todo' = [w \in Windows |-> {}]
        /\ cur' = [w \in Windows |-> 0] /\ edit' = [w \in Windows |-> "absent"]
        /\ task' = None /\ source' = None
        /\ UNCHANGED <<queued, account, told, done, twice, dropped, late, overrun, swept>>
    BY <1>3 DEF Crash
  <2>5. \A w \in Windows : WindowOK(w)'
    BY <2>4 DEF WindowOK, AtAction, InPass
  <2> QED BY <1>0, <2>2, <2>3, <2>4, <2>5 DEF ControlOK
<1>4. CASE EraseSource
  BY <1>0, <1>4, GotoEffect DEF EraseSource, Unqueued, ControlOK, WindowOK, AtAction, InPass, history
<1>5. CASE Journal
  <2> DEFINE n == Len(queued) + 1
  <2>1. /\ pc[Main] = "journal" /\ queued' = Append(queued, task) /\ told' = told \cup {n}
        /\ task' = None /\ Goto(Main, "idle")
        /\ UNCHANGED <<account, source, todo, cur, edit, done, twice, dropped, late, unsure,
                      overrun, swept>>
    BY <1>5 DEF Journal
  <2>2. task \in Command /\ n \in Actions /\ queued \in Seq(Command)
    BY <1>0, <2>1, Bounds DEF ControlOK, Actions
  <2>3. queued' \in Seq(Command) /\ Len(queued') = n
    BY <2>1, <2>2
  <2>4. /\ journal' \in [Actions -> {"absent", "waiting", "cancelled", "void"}]
        /\ \A a \in Actions \ {n} : journal'[a] = journal[a]
        /\ torn' \subseteq Actions
    BY <1>0, <1>5, <2>2 DEF Journal, ControlOK
  <2>5. \A a \in Actions : a > Len(queued') => journal'[a] = "absent"
    <3>1. ASSUME NEW a \in Actions, a > Len(queued') PROVE a # n /\ a > Len(queued)
      BY <1>0, <2>3, <3>1, Bounds
    <3> QED BY <1>0, <2>4, <3>1 DEF ControlOK
  <2>6. /\ todo' \in [Windows -> SUBSET (1..Len(queued'))]
        /\ cur' \in [Windows -> 0..Len(queued')]
        /\ told' \cup done' \cup dropped' \subseteq 1..Len(queued')
    <3>1. 1..Len(queued) \subseteq 1..n /\ 0..Len(queued) \subseteq 0..n /\ n \in 1..n
      BY <1>0
    <3> QED BY <1>0, <2>1, <2>3, <3>1 DEF ControlOK
  <2>7. \A w \in Windows : WindowOK(w)'
    BY <1>0, <2>1, GotoEffect DEF ControlOK, WindowOK, AtAction, InPass
  <2>8. Len(queued') <= MaxActions
    BY <2>2, <2>3, Bounds DEF Actions
  <2>9. pc'[Main] = "idle"
    BY <1>0, <2>1, GotoEffect
  <2> HIDE DEF n
  <2> QED BY <1>0, <2>1, <2>3, <2>4, <2>5, <2>6, <2>7, <2>8, <2>9, GotoEffect DEF ControlOK
<1>6. ASSUME NEW w \in Windows, StartPass(w) PROVE ControlOK'
  <2>1. todo' \in [Windows -> SUBSET (1..Len(queued))] /\ unsure' \subseteq Actions
    BY <1>0, <1>6, ListedType DEF StartPass, ControlOK
  <2>2. WindowOK(w)'
    <3>1. cur'[w] = 0 /\ pc'[w] = "next"
      BY <1>0, <1>6, GotoEffect DEF StartPass, ControlOK, WindowOK, AtAction
    <3>2. 0 \notin todo'[w]
      BY <1>0, <2>1
    <3> QED BY <3>1, <3>2 DEF WindowOK, AtAction, InPass
  <2>3. \A v \in Windows \ {w} : todo'[v] = todo[v]
    BY <1>0, <1>6 DEF StartPass, ControlOK
  <2>4. pc'[w] = "next" /\ pc[w] = "idle"
    BY <1>0, <1>6, GotoEffect DEF StartPass
  <2> QED BY <1>0, <1>6, <2>1, <2>2, <2>3, <2>4, GotoEffect, ControlOfPass
          DEF StartPass, ControlOK, files
<1>7. ASSUME NEW w \in Windows, MarkRunning(w) PROVE ControlOK'
  <2> DEFINE a == Least(todo[w])
  <2>1. a \in todo[w] /\ a \in 1..Len(queued) /\ a \in Actions
    BY <1>0, <1>7, NextTodo DEF MarkRunning
  <2>2. Save(a, "waiting") /\ pc[w] = "next" /\ Goto(w, "run")
        /\ cur' = [cur EXCEPT ![w] = a] /\ todo' = [todo EXCEPT ![w] = @ \ {a}]
        /\ UNCHANGED <<queued, account, task, source, edit, told, done, twice, dropped, late, unsure,
                      overrun, swept>>
    BY <1>7 DEF MarkRunning
  <2> HIDE DEF a
  <2>3. /\ journal' \in [Actions -> {"absent", "waiting", "cancelled", "void"}]
        /\ \A b \in Actions : b > Len(queued) => journal'[b] = journal[b]
        /\ torn' \subseteq Actions
    BY <1>0, <2>1, <2>2, SaveEffect DEF ControlOK
  <2>4. /\ cur' \in [Windows -> 0..Len(queued)] /\ cur'[w] = a /\ a # 0
        /\ todo' \in [Windows -> SUBSET (1..Len(queued))] /\ todo'[w] = todo[w] \ {a}
        /\ \A v \in Windows \ {w} : todo'[v] = todo[v] /\ cur'[v] = cur[v]
    BY <1>0, <2>1, <2>2 DEF ControlOK
  <2>5. pc'[w] = "run"
    BY <1>0, <2>2, GotoEffect
  <2>6. WindowOK(w)'
    BY <2>4, <2>5 DEF WindowOK, AtAction, InPass
  <2> QED BY <1>0, <2>2, <2>3, <2>4, <2>5, <2>6, GotoEffect, ControlOfPass DEF ControlOK
<1>8. ASSUME NEW w \in Windows, Succeed(w) \/ BreakOff(w) PROVE ControlOK'
  <2>1. /\ pc[w] = "run" /\ Record(w, queued[cur[w]])
        /\ Goto(w, "ok") \/ Goto(w, "failed")
        /\ unsure' \subseteq unsure \cup {cur[w]}
        /\ UNCHANGED <<journal, queued, account, task, source, todo, cur, edit, told, dropped, torn,
                      overrun>>
    BY <1>8 DEF Succeed, BreakOff, files, thread
  <2>2. cur[w] \in Actions
    BY <1>0, <2>1, CurType DEF AtAction
  <2>3. /\ done' \subseteq 1..Len(queued) /\ twice' \subseteq Actions /\ late' \subseteq Actions
        /\ swept' \subseteq Messages
    BY <1>0, <2>1, RecordType
  <2>4. pc'[w] \in {"ok", "failed"}
    BY <1>0, <2>1, GotoEffect
  <2>5. WindowOK(w)'
    BY <1>0, <2>1, <2>4 DEF ControlOK, WindowOK, AtAction, InPass
  <2> QED BY <1>0, <2>1, <2>2, <2>3, <2>4, <2>5, GotoEffect, ControlOfPass DEF ControlOK
<1>9. ASSUME NEW w \in Windows, Refused(w) PROVE ControlOK'
  <2>1. pc'[w] = "failed" /\ pc[w] = "run"
    BY <1>0, <1>9, GotoEffect DEF Refused
  <2>2. WindowOK(w)'
    BY <1>0, <1>9, <2>1 DEF Refused, ControlOK, WindowOK, AtAction, InPass, thread
  <2> QED BY <1>0, <1>9, <2>1, <2>2, GotoEffect, ControlOfPass
          DEF Refused, ControlOK, files, thread, history
<1>10. ASSUME NEW w \in Windows, Remove(w) PROVE ControlOK'
  <2>1. cur[w] \in 1..Len(queued) /\ cur[w] \in Actions /\ pc[w] = "ok"
    BY <1>0, <1>10, CurType DEF Remove, AtAction
  <2>2. /\ journal' \in [Actions -> {"absent", "waiting", "cancelled", "void"}]
        /\ \A b \in Actions : b > Len(queued) => journal'[b] = journal[b]
        /\ unsure' \subseteq Actions
    BY <1>0, <1>10, <2>1 DEF Remove, ControlOK
  <2>3. /\ cur' \in [Windows -> 0..Len(queued)] /\ cur'[w] = 0
        /\ \A v \in Windows \ {w} : cur'[v] = cur[v]
    BY <1>0, <1>10 DEF Remove, ControlOK
  <2>4. pc'[w] = "next"
    BY <1>0, <1>10, GotoEffect DEF Remove
  <2>5. WindowOK(w)'
    BY <1>0, <1>10, <2>3, <2>4 DEF Remove, ControlOK, WindowOK, AtAction, InPass
  <2> QED BY <1>0, <1>10, <2>1, <2>2, <2>3, <2>4, <2>5, GotoEffect, ControlOfPass
          DEF Remove, ControlOK
<1>11. ASSUME NEW w \in Windows, Keep(w) PROVE ControlOK'
  <2>1. cur[w] \in 1..Len(queued) /\ cur[w] \in Actions /\ pc[w] = "failed"
    BY <1>0, <1>11, CurType DEF Keep, AtAction
  <2>2. /\ journal' \in [Actions -> {"absent", "waiting", "cancelled", "void"}]
        /\ \A b \in Actions : b > Len(queued) => journal'[b] = journal[b]
        /\ torn' \subseteq Actions
    BY <1>0, <1>11, <2>1, SaveEffect DEF Keep, ControlOK
  <2>3. /\ cur' \in [Windows -> 0..Len(queued)] /\ cur'[w] = 0
        /\ \A v \in Windows \ {w} : cur'[v] = cur[v]
    BY <1>0, <1>11 DEF Keep, ControlOK
  <2>4. pc'[w] = "next"
    BY <1>0, <1>11, GotoEffect DEF Keep
  <2>5. WindowOK(w)'
    BY <1>0, <1>11, <2>3, <2>4 DEF Keep, ControlOK, WindowOK, AtAction, InPass
  <2> QED BY <1>0, <1>11, <2>1, <2>2, <2>3, <2>4, <2>5, GotoEffect, ControlOfPass
          DEF Keep, ControlOK
<1>12. ASSUME NEW w \in Windows, EndPass(w) PROVE ControlOK'
  <2>1. /\ todo' \in [Windows -> SUBSET (1..Len(queued))] /\ todo'[w] = {}
        /\ \A v \in Windows \ {w} : todo'[v] = todo[v]
    BY <1>0, <1>12 DEF EndPass, ControlOK
  <2>2. pc'[w] = "idle" /\ pc[w] = "next"
    BY <1>0, <1>12, GotoEffect DEF EndPass
  <2>3. WindowOK(w)'
    BY <1>0, <1>12, <2>1, <2>2 DEF EndPass, ControlOK, WindowOK, AtAction, InPass
  <2> QED BY <1>0, <1>12, <2>1, <2>2, <2>3, GotoEffect, ControlOfPass
          DEF EndPass, ControlOK, files, history
<1>13. ASSUME NEW w \in Windows, NEW b \in Synced, NEW full \in BOOLEAN, Synchronise(w, b, full)
       PROVE  ControlOK'
  <2>1. pc'[w] = "state" /\ pc[w] = "next" /\ todo[w] = {}
    BY <1>0, <1>13, GotoEffect DEF Synchronise
  <2>2. WindowOK(w)'
    BY <1>0, <1>13, <2>1 DEF Synchronise, ControlOK, WindowOK, AtAction, InPass
  <2> QED BY <1>0, <1>13, <2>1, <2>2, GotoEffect, ControlOfPass
          DEF Synchronise, ControlOK, files, history
<1>14. ASSUME NEW w \in Windows, SaveSeen(w) PROVE ControlOK'
  <2>1. pc'[w] = "store" /\ pc[w] = "state"
    BY <1>0, <1>14, GotoEffect DEF SaveSeen
  <2>2. WindowOK(w)'
    BY <1>0, <1>14, <2>1 DEF SaveSeen, ControlOK, WindowOK, AtAction, InPass, thread
  <2> QED BY <1>0, <1>14, <2>1, <2>2, GotoEffect, ControlOfPass
          DEF SaveSeen, ControlOK, thread, history
<1>15. ASSUME NEW w \in Windows, StoreNext(w) PROVE ControlOK'
  BY <1>0, <1>15 DEF StoreNext, ControlOK, WindowOK, history
<1>16. ASSUME NEW w \in Windows, EndSync(w) PROVE ControlOK'
  <2>1. pc'[w] = "idle" /\ pc[w] = "store"
    BY <1>0, <1>16, GotoEffect DEF EndSync
  <2>2. WindowOK(w)'
    BY <1>0, <1>16, <2>1 DEF EndSync, ControlOK, WindowOK, AtAction, InPass
  <2> QED BY <1>0, <1>16, <2>1, <2>2, GotoEffect, ControlOfPass
          DEF EndSync, ControlOK, files, history
<1>17. ASSUME NEW w \in Windows, NEW a \in 1..Len(queued), NEW state \in {"waiting", "cancelled"},
              ReadAction(w, a, state)
       PROVE  ControlOK'
  <2>1. pc'[w] = "edit" /\ pc[w] = "idle"
    BY <1>0, <1>17, GotoEffect DEF ReadAction
  <2>2. /\ cur' \in [Windows -> 0..Len(queued)] /\ cur'[w] = a /\ a # 0
        /\ edit' \in [Windows -> {"absent", "waiting", "cancelled"}] /\ edit'[w] = state
        /\ \A v \in Windows \ {w} : cur'[v] = cur[v] /\ edit'[v] = edit[v]
    BY <1>0, <1>17 DEF ReadAction, ControlOK
  <2>3. WindowOK(w)'
    BY <1>0, <1>17, <2>1, <2>2 DEF ReadAction, ControlOK, WindowOK, AtAction, InPass
  <2> QED BY <1>0, <1>17, <2>1, <2>2, <2>3, GotoEffect, ControlOfPass
          DEF ReadAction, ControlOK, files, history
<1>18. ASSUME NEW w \in Windows, SaveEdit(w) PROVE ControlOK'
  <2>1. cur[w] \in 1..Len(queued) /\ cur[w] \in Actions /\ pc[w] = "edit"
        /\ edit[w] \in {"waiting", "cancelled"}
    BY <1>0, <1>18, CurType DEF SaveEdit, AtAction, ControlOK, WindowOK
  <2>2. /\ journal' \in [Actions -> {"absent", "waiting", "cancelled", "void"}]
        /\ \A b \in Actions : b > Len(queued) => journal'[b] = journal[b]
        /\ torn' \subseteq Actions
    BY <1>0, <1>18, <2>1, SaveEffect DEF SaveEdit, ControlOK
  <2>3. dropped' \subseteq 1..Len(queued) /\ overrun' \subseteq Actions /\ unsure' \subseteq Actions
    BY <1>0, <1>18, <2>1 DEF SaveEdit, ControlOK
  <2>4. /\ cur' \in [Windows -> 0..Len(queued)] /\ cur'[w] = 0
        /\ edit' \in [Windows -> {"absent", "waiting", "cancelled"}]
        /\ \A v \in Windows \ {w} : cur'[v] = cur[v] /\ edit'[v] = edit[v]
    BY <1>0, <1>18 DEF SaveEdit, ControlOK
  <2>5. pc'[w] = "idle"
    BY <1>0, <1>18, GotoEffect DEF SaveEdit
  <2>6. WindowOK(w)'
    BY <1>0, <1>18, <2>1, <2>4, <2>5 DEF SaveEdit, ControlOK, WindowOK, AtAction, InPass
  <2> QED BY <1>0, <1>18, <2>1, <2>2, <2>3, <2>4, <2>5, <2>6, GotoEffect, ControlOfPass
          DEF SaveEdit, ControlOK
<1>19. CASE UNCHANGED vars
  BY <1>0, <1>19 DEF vars, files, thread, history, ControlOK, WindowOK
<1> QED BY <1>1, <1>2, <1>3, <1>4, <1>5, <1>6, <1>7, <1>8, <1>9, <1>10, <1>11, <1>12, <1>13, <1>14,
           <1>15, <1>16, <1>17, <1>18, <1>19 DEF Next, Advance

-----------------------------------------------------------------------------
(* What the commands do to the server *)

ServerOK(s) == s \in Server /\ Below(s)

(* UID COPY adds a copy of the message, if it is there, and nothing else. *)
LEMMA CopiedEffect ==
  ASSUME NEW s, ServerOK(s), NEW b \in Boxes, NEW u \in Uids, NEW d \in Boxes, s.next[d] <= MaxUid
  PROVE  /\ ServerOK(Copied(s, b, u, d))
         /\ \A x \in Boxes : s.next[x] <= Copied(s, b, u, d).next[x]
         /\ \A x \in Boxes, y \in Uids : Copied(s, b, u, d).mail[x][y] =
              IF x = d /\ y = s.next[d] /\ s.mail[b][u] # None THEN s.mail[b][u] ELSE s.mail[x][y]
<1>1. CASE s.mail[b][u] = None
  <2>1. Copied(s, b, u, d) = s
    BY <1>1 DEF Copied
  <2>2. \A x \in Boxes : s.next[x] <= s.next[x]
    BY Bounds DEF ServerOK, Server
  <2> QED BY <1>1, <2>1, <2>2
<1>2. CASE s.mail[b][u] # None
  <2> DEFINE n == s.next[d]
             mail == [s.mail EXCEPT ![d][n] = s.mail[b][u]]
             next == [s.next EXCEPT ![d] = n + 1]
  <2>1. Copied(s, b, u, d) = [mail |-> mail, next |-> next]
    BY <1>2 DEF Copied
  <2>2. n \in Uids /\ n \in Nat /\ n + 1 \in 1..(MaxUid + 1) /\ s.mail[b][u] \in Mail
    BY <1>2, Bounds DEF ServerOK, Server, Uids
  <2>3. /\ s.mail \in [Boxes -> [Uids -> Mail \cup {None}]]
        /\ s.next \in [Boxes -> 1..(MaxUid + 1)]
    BY DEF ServerOK, Server
  <2> HIDE DEF n
  <2>4. /\ mail \in [Boxes -> [Uids -> Mail \cup {None}]]
        /\ next \in [Boxes -> 1..(MaxUid + 1)]
    BY <2>2, <2>3
  <2>5. \A x \in Boxes, y \in Uids :
          mail[x][y] = IF x = d /\ y = n THEN s.mail[b][u] ELSE s.mail[x][y]
    BY <2>2, <2>3
  <2>6. \A x \in Boxes : next[x] = IF x = d THEN n + 1 ELSE s.next[x]
    BY <2>3
  <2> HIDE DEF mail, next
  <2>7. \A x \in Boxes : s.next[x] <= next[x]
    BY <2>2, <2>3, <2>6, Bounds DEF n
  <2>8. ASSUME NEW x \in Boxes, NEW y \in Uids, mail[x][y] # None PROVE y < next[x]
    <3>1. CASE x = d /\ y = n
      BY <2>2, <2>6, <3>1
    <3>2. CASE ~(x = d /\ y = n)
      <4>1. y < s.next[x]
        BY <2>5, <2>8, <3>2 DEF ServerOK, Below
      <4> QED BY <2>2, <2>3, <2>6, <4>1, Bounds DEF n
    <3> QED BY <3>1, <3>2
  <2>9. Copied(s, b, u, d).mail = mail /\ Copied(s, b, u, d).next = next
    BY <2>1
  <2>10. Copied(s, b, u, d) \in Server
    BY <2>1, <2>4 DEF Server
  <2> QED BY <1>2, <2>5, <2>7, <2>8, <2>9, <2>10 DEF ServerOK, Below, n
<1> QED BY <1>1, <1>2

WithBox(s, b, box) == [s EXCEPT !.mail = [s.mail EXCEPT ![b] = box]]

(* A change of one mailbox that only erases and marks. *)
LEMMA WithBoxEffect ==
  ASSUME NEW s, ServerOK(s), NEW b \in Boxes, NEW box \in [Uids -> Mail \cup {None}],
         \A u \in Uids : s.mail[b][u] = None => box[u] = None
  PROVE  /\ ServerOK(WithBox(s, b, box))
         /\ \A x \in Boxes : s.next[x] <= WithBox(s, b, box).next[x]
         /\ \A x \in Boxes, y \in Uids :
              WithBox(s, b, box).mail[x][y] = IF x = b THEN box[y] ELSE s.mail[x][y]
<1> DEFINE t == WithBox(s, b, box)
<1>1. /\ s.mail \in [Boxes -> [Uids -> Mail \cup {None}]]
      /\ s.next \in [Boxes -> 1..(MaxUid + 1)] /\ s \in Server
  BY DEF ServerOK, Server
<1>2. t \in Server /\ t.next = s.next /\ t.mail = [s.mail EXCEPT ![b] = box]
  BY <1>1 DEF Server, WithBox
<1> HIDE DEF t
<1>3. \A x \in Boxes, y \in Uids : t.mail[x][y] = IF x = b THEN box[y] ELSE s.mail[x][y]
  BY <1>1, <1>2
<1>4. Below(t)
  BY <1>2, <1>3 DEF ServerOK, Below
<1>5. \A x \in Boxes : s.next[x] <= s.next[x]
  BY <1>1, Bounds
<1> QED BY <1>2, <1>3, <1>4, <1>5 DEF ServerOK, t

LEMMA ErasedEffect ==
  ASSUME NEW s, ServerOK(s), NEW b \in Boxes, NEW u \in Uids
  PROVE  /\ ServerOK(Erased(s, b, u))
         /\ \A x \in Boxes : s.next[x] <= Erased(s, b, u).next[x]
         /\ \A x \in Boxes, y \in Uids : Erased(s, b, u).mail[x][y] =
              IF x = b /\ y = u THEN None ELSE s.mail[x][y]
<1> DEFINE box == [s.mail[b] EXCEPT ![u] = None]
<1>1. s.mail[b] \in [Uids -> Mail \cup {None}]
  BY DEF ServerOK, Server
<1>2. box \in [Uids -> Mail \cup {None}] /\ \A y \in Uids : box[y] = IF y = u THEN None ELSE s.mail[b][y]
  BY <1>1
<1>3. Erased(s, b, u) = WithBox(s, b, box)
  BY DEF Erased, WithBox
<1> HIDE DEF box
<1>4. \A y \in Uids : s.mail[b][y] = None => box[y] = None
  BY <1>2
<1> QED BY <1>2, <1>3, <1>4, WithBoxEffect

LEMMA StoredEffect ==
  ASSUME NEW s, ServerOK(s), NEW b \in Boxes, NEW u \in Uids, NEW flag \in BOOLEAN
  PROVE  /\ ServerOK(Stored(s, b, u, flag))
         /\ \A x \in Boxes : s.next[x] <= Stored(s, b, u, flag).next[x]
         /\ \A x \in Boxes, y \in Uids : Stored(s, b, u, flag).mail[x][y] =
              IF x = b /\ y = u /\ s.mail[b][u] # None
              THEN [s.mail[b][u] EXCEPT !.deleted = flag] ELSE s.mail[x][y]
<1>1. CASE s.mail[b][u] = None
  <2>1. Stored(s, b, u, flag) = s
    BY <1>1 DEF Stored
  <2>2. \A x \in Boxes : s.next[x] <= s.next[x]
    BY Bounds DEF ServerOK, Server
  <2> QED BY <1>1, <2>1, <2>2
<1>2. CASE s.mail[b][u] # None
  <2> DEFINE new == [s.mail[b][u] EXCEPT !.deleted = flag]
             box == [s.mail[b] EXCEPT ![u] = new]
  <2>1. s.mail[b] \in [Uids -> Mail \cup {None}] /\ s.mail[b][u] \in Mail
    BY <1>2 DEF ServerOK, Server
  <2>2. new \in Mail
    BY <2>1 DEF Mail
  <2>3. Stored(s, b, u, flag) = WithBox(s, b, box)
    BY <1>2 DEF Stored, WithBox
  <2> HIDE DEF new
  <2>4. box \in [Uids -> Mail \cup {None}] /\ \A y \in Uids : box[y] = IF y = u THEN new ELSE s.mail[b][y]
    BY <2>1, <2>2
  <2> HIDE DEF box
  <2>5. /\ ServerOK(Stored(s, b, u, flag))
        /\ \A x \in Boxes : s.next[x] <= Stored(s, b, u, flag).next[x]
        /\ \A x \in Boxes, y \in Uids : Stored(s, b, u, flag).mail[x][y] =
             IF x = b THEN box[y] ELSE s.mail[x][y]
    <3>1. \A y \in Uids : s.mail[b][y] = None => box[y] = None
      BY <1>2, <2>4
    <3> QED BY <2>3, <2>4, <3>1, WithBoxEffect
  <2> QED BY <1>2, <2>4, <2>5 DEF new
<1> QED BY <1>1, <1>2

LEMMA ExpungedEffect ==
  ASSUME NEW s, ServerOK(s), NEW b \in Boxes
  PROVE  /\ ServerOK(Expunged(s, b))
         /\ \A x \in Boxes : s.next[x] <= Expunged(s, b).next[x]
         /\ \A x \in Boxes, y \in Uids : Expunged(s, b).mail[x][y] =
              IF x = b /\ s.mail[b][y] # None /\ s.mail[b][y].deleted THEN None ELSE s.mail[x][y]
<1> DEFINE box == [u \in Uids |->
                     IF s.mail[b][u] # None /\ s.mail[b][u].deleted THEN None ELSE s.mail[b][u]]
<1>1. s.mail[b] \in [Uids -> Mail \cup {None}]
  BY DEF ServerOK, Server
<1>2. /\ box \in [Uids -> Mail \cup {None}]
      /\ \A y \in Uids : box[y] = IF s.mail[b][y] # None /\ s.mail[b][y].deleted THEN None
                                 ELSE s.mail[b][y]
  BY <1>1
<1>3. Expunged(s, b) = WithBox(s, b, box)
  BY DEF Expunged, WithBox
<1> HIDE DEF box
<1>4. \A y \in Uids : s.mail[b][y] = None => box[y] = None
  BY <1>2
<1> QED BY <1>2, <1>3, <1>4, WithBoxEffect

(* The server s is one an action can have led to: a UID keeps its message  *)
(* or loses it, and what changes is the message of the action, a copy of   *)
(* it, or what an EXPUNGE takes.                                           *)
Follows(a, s) ==
  /\ ServerOK(s) /\ \A b \in Boxes : srv.next[b] <= s.next[b]
  /\ \A b \in Boxes, v \in Uids : s.mail[b][v] # None /\ v < srv.next[b] =>
       srv.mail[b][v] # None /\ s.mail[b][v].of = srv.mail[b][v].of
  /\ \A b \in Boxes, v \in Uids : s.mail[b][v] # srv.mail[b][v] =>
       \/ /\ srv.mail[b][v] = None /\ a.id \in Ids /\ srv.mail[a.box][a.id[2]] # None
          /\ s.mail[b][v].of = srv.mail[a.box][a.id[2]].of
       \/ srv.mail[b][v] # None /\ a.id \in Ids /\ b = a.box /\ v = a.id[2]
       \/ /\ srv.mail[b][v] # None /\ srv.mail[b][v].deleted
          /\ a.kind \in {"move", "erase", "expunge"} /\ b = a.box /\ s.mail[b][v] = None

LEMMA ServerMail ==
  ASSUME NEW s, ServerOK(s), NEW b \in Boxes, NEW u \in Uids, s.mail[b][u] # None
  PROVE  s.mail[b][u] \in Mail /\ s.mail[b][u].of \in Messages /\ s.mail[b][u].deleted \in BOOLEAN
         /\ u < s.next[b] /\ \A flag \in BOOLEAN : [s.mail[b][u] EXCEPT !.deleted = flag].of = s.mail[b][u].of
<1>1. s.mail[b][u] \in Mail
  BY DEF ServerOK, Server
<1> QED BY <1>1 DEF ServerOK, Below, Mail

LEMMA FollowsSame ==
  ASSUME NEW a \in Command, ServerOK(srv)
  PROVE  Follows(a, srv)
<1>1. \A b \in Boxes : srv.next[b] <= srv.next[b]
  BY Bounds DEF ServerOK, Server
<1> QED BY <1>1 DEF Follows

LEMMA FollowsCopied ==
  ASSUME NEW a \in Command, a.id \in Ids, ServerOK(srv), srv.next[a.dest] <= MaxUid
  PROVE  Follows(a, Copied(srv, a.box, a.id[2], a.dest))
<1> DEFINE u == a.id[2]
           n == srv.next[a.dest]
           t == Copied(srv, a.box, u, a.dest)
<1>1. a.box \in Boxes /\ a.dest \in Boxes /\ u \in Uids
  BY DEF Command, Action, Ids
<1>2. /\ ServerOK(t) /\ \A x \in Boxes : srv.next[x] <= t.next[x]
      /\ \A x \in Boxes, y \in Uids : t.mail[x][y] =
           IF x = a.dest /\ y = n /\ srv.mail[a.box][u] # None THEN srv.mail[a.box][u]
           ELSE srv.mail[x][y]
  BY <1>1, CopiedEffect
<1>3. n \in Uids /\ n \in Nat
  BY <1>1, Bounds DEF ServerOK, Server, Uids
<1>4. srv.mail[a.dest][n] = None
  BY <1>1, <1>3, ServerMail
<1> HIDE DEF t, n
<1>5. ASSUME NEW b \in Boxes, NEW v \in Uids, t.mail[b][v] # None, v < srv.next[b]
      PROVE  srv.mail[b][v] # None /\ t.mail[b][v].of = srv.mail[b][v].of
  BY <1>2, <1>3, <1>5 DEF n
<1>6. ASSUME NEW b \in Boxes, NEW v \in Uids, t.mail[b][v] # srv.mail[b][v]
      PROVE  /\ srv.mail[b][v] = None /\ srv.mail[a.box][u] # None
             /\ t.mail[b][v].of = srv.mail[a.box][u].of
  BY <1>2, <1>4, <1>6
<1> QED BY <1>2, <1>5, <1>6 DEF Follows, t

LEMMA FollowsErased ==
  ASSUME NEW a \in Command, a.id \in Ids, ServerOK(srv), NEW s, Follows(a, s)
  PROVE  Follows(a, Erased(s, a.box, a.id[2]))
<1> DEFINE u == a.id[2]
           t == Erased(s, a.box, u)
<1>1. a.box \in Boxes /\ u \in Uids /\ ServerOK(s)
  BY DEF Command, Action, Ids, Follows
<1>2. /\ ServerOK(t) /\ \A x \in Boxes : s.next[x] <= t.next[x]
      /\ \A x \in Boxes, y \in Uids : t.mail[x][y] =
           IF x = a.box /\ y = u THEN None ELSE s.mail[x][y]
  <2>1. PICK b \in Boxes : b = a.box
    BY <1>1
  <2>2. PICK v \in Uids : v = u
    BY <1>1
  <2>3. t = Erased(s, b, v)
    BY <2>1, <2>2
  <2> HIDE DEF t, u
  <2> QED BY <1>1, <2>1, <2>2, <2>3, ErasedEffect
<1> HIDE DEF t
<1>3. \A x \in Boxes : srv.next[x] <= t.next[x]
  BY <1>1, <1>2, Bounds DEF Follows, ServerOK, Server
<1>4. \A x \in Boxes, y \in Uids :
        \/ t.mail[x][y] = s.mail[x][y]
        \/ x = a.box /\ y = u /\ t.mail[x][y] = None
  BY <1>2
<1>5. ASSUME NEW b \in Boxes, NEW v \in Uids, t.mail[b][v] # None, v < srv.next[b]
      PROVE  srv.mail[b][v] # None /\ t.mail[b][v].of = srv.mail[b][v].of
  BY <1>4, <1>5 DEF Follows
<1>6. ASSUME NEW b \in Boxes, NEW v \in Uids, t.mail[b][v] # srv.mail[b][v]
      PROVE
       \/ /\ srv.mail[b][v] = None /\ srv.mail[a.box][u] # None
          /\ t.mail[b][v].of = srv.mail[a.box][u].of
       \/ srv.mail[b][v] # None /\ b = a.box /\ v = u
       \/ /\ srv.mail[b][v] # None /\ srv.mail[b][v].deleted
          /\ a.kind \in {"move", "erase", "expunge"} /\ b = a.box /\ t.mail[b][v] = None
  BY <1>4, <1>6 DEF Follows
<1>7. Follows(a, t)
  <2>1. \A b \in Boxes, v \in Uids : t.mail[b][v] # None /\ v < srv.next[b] =>
          srv.mail[b][v] # None /\ t.mail[b][v].of = srv.mail[b][v].of
    BY <1>5
  <2>2. \A b \in Boxes, v \in Uids : t.mail[b][v] # srv.mail[b][v] =>
          \/ /\ srv.mail[b][v] = None /\ a.id \in Ids /\ srv.mail[a.box][a.id[2]] # None
             /\ t.mail[b][v].of = srv.mail[a.box][a.id[2]].of
          \/ srv.mail[b][v] # None /\ a.id \in Ids /\ b = a.box /\ v = a.id[2]
          \/ /\ srv.mail[b][v] # None /\ srv.mail[b][v].deleted
             /\ a.kind \in {"move", "erase", "expunge"} /\ b = a.box /\ t.mail[b][v] = None
    BY <1>6 DEF u
  <2>3. ServerOK(t) /\ \A b \in Boxes : srv.next[b] <= t.next[b]
    BY <1>2, <1>3
  <2> QED BY <2>1, <2>2, <2>3 DEF Follows
<1> QED BY <1>7 DEF t

LEMMA FollowsStored ==
  ASSUME NEW a \in Command, a.id \in Ids, ServerOK(srv), NEW s, Follows(a, s), NEW flag \in BOOLEAN
  PROVE  Follows(a, Stored(s, a.box, a.id[2], flag))
<1> DEFINE u == a.id[2]
           t == Stored(s, a.box, u, flag)
<1>1. a.box \in Boxes /\ u \in Uids /\ ServerOK(s)
  BY DEF Command, Action, Ids, Follows
<1>2. /\ ServerOK(t) /\ \A x \in Boxes : s.next[x] <= t.next[x]
      /\ \A x \in Boxes, y \in Uids : t.mail[x][y] =
           IF x = a.box /\ y = u /\ s.mail[a.box][u] # None
           THEN [s.mail[a.box][u] EXCEPT !.deleted = flag] ELSE s.mail[x][y]
  BY <1>1, StoredEffect
<1> HIDE DEF t
<1>3. \A x \in Boxes : srv.next[x] <= t.next[x]
  BY <1>1, <1>2, Bounds DEF Follows, ServerOK, Server
<1>4. \A x \in Boxes, y \in Uids :
        \/ t.mail[x][y] = s.mail[x][y]
        \/ x = a.box /\ y = u /\ s.mail[x][y] # None /\ t.mail[x][y].of = s.mail[x][y].of
  <2>1. s.mail[a.box][u] # None =>
          [s.mail[a.box][u] EXCEPT !.deleted = flag].of = s.mail[a.box][u].of
    BY <1>1, ServerMail
  <2> DEFINE new == [s.mail[a.box][u] EXCEPT !.deleted = flag]
  <2>2. \A x \in Boxes, y \in Uids : t.mail[x][y] =
          IF x = a.box /\ y = u /\ s.mail[a.box][u] # None THEN new ELSE s.mail[x][y]
    BY <1>2
  <2>3. s.mail[a.box][u] # None => new.of = s.mail[a.box][u].of
    BY <2>1
  <2> HIDE DEF new
  <2> QED BY <2>2, <2>3
<1>5. ASSUME NEW b \in Boxes, NEW v \in Uids, t.mail[b][v] # None, v < srv.next[b]
      PROVE  srv.mail[b][v] # None /\ t.mail[b][v].of = srv.mail[b][v].of
  BY <1>4, <1>5 DEF Follows
<1>6. ASSUME NEW b \in Boxes, NEW v \in Uids, t.mail[b][v] # srv.mail[b][v]
      PROVE
       \/ /\ srv.mail[b][v] = None /\ srv.mail[a.box][u] # None
          /\ t.mail[b][v].of = srv.mail[a.box][u].of
       \/ srv.mail[b][v] # None /\ b = a.box /\ v = u
       \/ /\ srv.mail[b][v] # None /\ srv.mail[b][v].deleted
          /\ a.kind \in {"move", "erase", "expunge"} /\ b = a.box /\ t.mail[b][v] = None
  BY <1>4, <1>6 DEF Follows
<1>7. Follows(a, t)
  <2>1. \A b \in Boxes, v \in Uids : t.mail[b][v] # None /\ v < srv.next[b] =>
          srv.mail[b][v] # None /\ t.mail[b][v].of = srv.mail[b][v].of
    BY <1>5
  <2>2. \A b \in Boxes, v \in Uids : t.mail[b][v] # srv.mail[b][v] =>
          \/ /\ srv.mail[b][v] = None /\ a.id \in Ids /\ srv.mail[a.box][a.id[2]] # None
             /\ t.mail[b][v].of = srv.mail[a.box][a.id[2]].of
          \/ srv.mail[b][v] # None /\ a.id \in Ids /\ b = a.box /\ v = a.id[2]
          \/ /\ srv.mail[b][v] # None /\ srv.mail[b][v].deleted
             /\ a.kind \in {"move", "erase", "expunge"} /\ b = a.box /\ t.mail[b][v] = None
    BY <1>6 DEF u
  <2>3. ServerOK(t) /\ \A b \in Boxes : srv.next[b] <= t.next[b]
    BY <1>2, <1>3
  <2> QED BY <2>1, <2>2, <2>3 DEF Follows
<1> QED BY <1>7 DEF t

LEMMA FollowsExpunged ==
  ASSUME NEW a \in Command, ServerOK(srv), NEW s, Follows(a, s), a.kind \in {"move", "erase", "expunge"}
  PROVE  Follows(a, Expunged(s, a.box))
<1> DEFINE t == Expunged(s, a.box)
<1>1. a.box \in Boxes /\ ServerOK(s)
  BY DEF Command, Action, Follows
<1>2. /\ ServerOK(t) /\ \A x \in Boxes : s.next[x] <= t.next[x]
      /\ \A x \in Boxes, y \in Uids : t.mail[x][y] =
           IF x = a.box /\ s.mail[a.box][y] # None /\ s.mail[a.box][y].deleted THEN None
           ELSE s.mail[x][y]
  BY <1>1, ExpungedEffect
<1> HIDE DEF t
<1>3. \A x \in Boxes : srv.next[x] <= t.next[x]
  BY <1>1, <1>2, Bounds DEF Follows, ServerOK, Server
<1>4. \A x \in Boxes, y \in Uids :
        \/ t.mail[x][y] = s.mail[x][y]
        \/ t.mail[x][y] = None /\ s.mail[x][y] # None /\ s.mail[x][y].deleted
  BY <1>1, <1>2
<1> QED BY <1>2, <1>3, <1>4 DEF Follows, t

LEMMA ConcatOneTwo ==
  ASSUME NEW x, NEW y, NEW z
  PROVE  <<x>> \o <<y, z>> = <<x, y, z>>
<1> DEFINE S == {x, y, z}
<1>1. <<x>> \in Seq(S) /\ <<y, z>> \in Seq(S) /\ <<x, y, z>> \in Seq(S)
  OBVIOUS
<1> HIDE DEF S
<1>2. /\ <<x>> \o <<y, z>> \in Seq(S)
      /\ Len(<<x>> \o <<y, z>>) = Len(<<x>>) + Len(<<y, z>>)
      /\ \A i \in 1 .. Len(<<x>>) + Len(<<y, z>>) : (<<x>> \o <<y, z>>)[i] =
                     IF i <= Len(<<x>>) THEN <<x>>[i] ELSE <<y, z>>[i - Len(<<x>>)]
  BY <1>1, ConcatProperties
<1>3. Len(<<x>>) = 1 /\ Len(<<y, z>>) = 2 /\ Len(<<x, y, z>>) = 3
  OBVIOUS
<1>4. \A i \in 1 .. 3 : (<<x>> \o <<y, z>>)[i] = <<x, y, z>>[i]
  BY <1>2, <1>3
<1> DEFINE s == <<x>> \o <<y, z>>
           t == <<x, y, z>>
<1>5. s \in Seq(S) /\ t \in Seq(S) /\ Len(s) = 3 /\ Len(t) = 3 /\ \A i \in 1 .. 3 : s[i] = t[i]
  BY <1>1, <1>2, <1>3, <1>4
<1> HIDE DEF s, t
<1>6. s = t
  BY <1>5, SeqEqual
<1> QED BY <1>6 DEF s, t

(* Every course of an action keeps to its message. *)
LEMMA CourseEffect ==
  ASSUME TInv, NEW a \in Command, Possible(a), NEW c \in Courses(a)
  PROVE  Len(c) \in Nat \ {0} /\ \A n \in 1..Len(c) : Follows(a, c[n])
<1>0. ServerOK(srv) /\ Follows(a, srv) /\ a.kind \in Kinds /\ (a.kind # "expunge" => a.id \in Ids)
  BY FollowsSame DEF TInv, StoreOK, ServerOK, Command, Action
<1> DEFINE u == IF a.id = None THEN 0 ELSE a.id[2]
           copied == Copied(srv, a.box, u, a.dest)
           OneOf(x, y, z) == c = <<x>> \/ c = <<y, z>> \/ c = <<x, y, z>>
<1>1. a.kind # "expunge" => u = a.id[2]
  BY <1>0, Bounds
<1> HIDE DEF u
<1>2. CASE a.kind = "move"
  <2> DEFINE erased == Erased(copied, a.box, u)
             marked == Stored(copied, a.box, u, TRUE)
             expunged == Expunged(marked, a.box)
  <2>1. c = <<erased>> \/ c = <<copied>> \o <<marked, expunged>>
    BY <1>2 DEF Courses, StoreAndExpunge, u
  <2>2. Follows(a, copied)
    BY <1>0, <1>1, <1>2, FollowsCopied DEF Possible
  <2> HIDE DEF copied
  <2>3. Follows(a, erased) /\ Follows(a, marked)
    BY <1>0, <1>1, <1>2, <2>2, FollowsErased, FollowsStored
  <2> HIDE DEF marked
  <2>4. Follows(a, expunged)
    BY <1>0, <1>2, <2>3, FollowsExpunged
  <2> HIDE DEF erased, expunged
  <2>5. c = <<erased>> \/ c = <<copied, marked, expunged>>
    BY <2>1, ConcatOneTwo
  <2> QED BY <2>2, <2>3, <2>4, <2>5
<1>3. CASE a.kind = "copy"
  <2>1. c = <<copied>>
    BY <1>3 DEF Courses, u
  <2>2. Follows(a, copied)
    BY <1>0, <1>1, <1>3, FollowsCopied DEF Possible
  <2> QED BY <2>1, <2>2
<1>4. CASE a.kind \in {"mark", "unmark"}
  <2> DEFINE marked == Stored(srv, a.box, u, a.kind = "mark")
  <2>1. c = <<marked>>
    BY <1>4 DEF Courses, u
  <2>2. Follows(a, marked)
    BY <1>0, <1>1, <1>4, FollowsStored
  <2> QED BY <2>1, <2>2
<1>5. CASE a.kind = "erase"
  <2> DEFINE marked == Stored(srv, a.box, u, TRUE)
             expunged == Expunged(marked, a.box)
  <2>1. c = <<marked, expunged>>
    BY <1>5 DEF Courses, StoreAndExpunge, u
  <2>2. Follows(a, marked)
    BY <1>0, <1>1, <1>5, FollowsStored
  <2> HIDE DEF marked
  <2>3. Follows(a, expunged)
    BY <1>0, <1>5, <2>2, FollowsExpunged
  <2> QED BY <2>1, <2>2, <2>3
<1>6. CASE a.kind = "expunge"
  <2>1. c = <<Expunged(srv, a.box)>>
    BY <1>6 DEF Courses
  <2>2. Follows(a, Expunged(srv, a.box))
    BY <1>0, <1>6, FollowsExpunged
  <2> QED BY <2>1, <2>2
<1>7. CASE a.kind = "fetch"
  <2>1. c = <<srv>>
    BY <1>7 DEF Courses
  <2> QED BY <1>0, <2>1
<1> QED BY <1>0, <1>2, <1>3, <1>4, <1>5, <1>6, <1>7 DEF Kinds

(* What the server can be after a step: as it was, or where a course of    *)
(* the action some window replays has led it.                              *)
LEMMA ServerStep ==
  ASSUME TInv, [Next]_vars
  PROVE  \/ UNCHANGED srv
         \/ \E w \in Windows : /\ pc[w] = "run" /\ queued[cur[w]] \in Command
                               /\ Follows(queued[cur[w]], srv')
<1>1. ASSUME NEW w \in Windows, Succeed(w) \/ BreakOff(w)
      PROVE  pc[w] = "run" /\ queued[cur[w]] \in Command /\ Follows(queued[cur[w]], srv')
  <2>1. pc[w] = "run" /\ Possible(queued[cur[w]])
    BY <1>1 DEF Succeed, BreakOff
  <2>2. queued[cur[w]] \in Command
    BY <2>1, CurType DEF TInv, AtAction
  <2>3. CASE Succeed(w)
    <3>1. PICK c \in Courses(queued[cur[w]]) : srv' = c[Len(c)]
      BY <2>3 DEF Succeed
    <3>2. Len(c) \in Nat \ {0} /\ \A n \in 1..Len(c) : Follows(queued[cur[w]], c[n])
      BY <2>1, <2>2, CourseEffect
    <3> QED BY <2>1, <2>2, <3>1, <3>2
  <2>4. CASE BreakOff(w)
    <3>1. PICK c \in Courses(queued[cur[w]]) : \E n \in 1..Len(c) : srv' = c[n]
      BY <2>4 DEF BreakOff
    <3>2. \A n \in 1..Len(c) : Follows(queued[cur[w]], c[n])
      BY <2>1, <2>2, CourseEffect
    <3> QED BY <2>1, <2>2, <3>1, <3>2
  <2> QED BY <1>1, <2>3, <2>4
<1>2. ASSUME ~ \E w \in Windows : Succeed(w) \/ BreakOff(w)
      PROVE  UNCHANGED srv
  BY ZenonT(60), <1>2 DEF Next, QueueNext, Advance, QueueMove, QueueCopy, QueueDelete, QueueUndelete, QueueFetch,
       QueueExpunge, QueueFails, Crash, StartPass, MarkRunning, Remove, Keep, EndPass, Refused,
       Synchronise, SaveSeen, StoreNext, EndSync, SaveEdit, ReadAction, EraseSource, Journal,
       Unqueued, vars
<1> QED BY <1>1, <1>2

-----------------------------------------------------------------------------
(* What becomes of the local store *)

LocalMail == [Boxes -> [Ids -> Mail \cup {None}]]

(* Where a record with id i of message m can come from: another mailbox,   *)
(* the server, or what a synchronisation has fetched.                      *)
From(i, m) ==
  \/ \E d \in Boxes : local[d][i] # None /\ local[d][i].of = m
  \/ srv.mail[i[1]][i[2]] # None /\ srv.mail[i[1]][i[2]].of = m
  \/ \E w \in Windows : /\ pc[w] = "store" /\ pulled[w].box = i[1] /\ i[2] \in DOMAIN pulled[w].mail
                        /\ pulled[w].mail[i[2]].of = m

(* One record is written or erased. *)
LEMMA LocalPut ==
  ASSUME TInv, NEW b \in Boxes, NEW i \in Ids, NEW r \in Mail \cup {None},
         local' = [local EXCEPT ![b][i] = r], r # None => From(i, r.of)
  PROVE  /\ local' \in LocalMail
         /\ \A x \in Boxes, y \in Ids : local'[x][y] # None => From(y, local'[x][y].of)
<1>1. local \in LocalMail
  BY DEF TInv, StoreOK, LocalMail
<1>2. /\ local' \in LocalMail
      /\ \A x \in Boxes, y \in Ids : local'[x][y] = IF x = b /\ y = i THEN r ELSE local[x][y]
  BY <1>1 DEF LocalMail
<1>3. ASSUME NEW x \in Boxes, NEW y \in Ids, local'[x][y] # None PROVE From(y, local'[x][y].of)
  <2>1. CASE x = b /\ y = i
    BY <1>2, <1>3, <2>1
  <2>2. CASE ~(x = b /\ y = i)
    BY <1>2, <1>3, <2>2 DEF From
  <2> QED BY <2>1, <2>2
<1> QED BY <1>2, <1>3

LEMMA LocalRecord ==
  ASSUME TInv, NEW b \in Boxes, NEW i \in Ids, local[b][i] # None
  PROVE  /\ local[b][i] \in Mail /\ From(i, local[b][i].of)
         /\ Found(local[b][i].of) \in Mail /\ Found(local[b][i].of).of = local[b][i].of
         /\ \A flag \in BOOLEAN : /\ [local[b][i] EXCEPT !.deleted = flag] \in Mail
                                  /\ [local[b][i] EXCEPT !.deleted = flag].of = local[b][i].of
<1>1. local[b][i] \in Mail
  BY DEF TInv, StoreOK
<1> QED BY <1>1 DEF Mail, Found, From

LEMMA PulledMail ==
  ASSUME TInv, NEW w \in Windows, pc[w] \in {"state", "store"}
  PROVE  /\ pulled[w] \in Pulled /\ pulled[w].box \in Boxes /\ pulled[w].top \in 0..MaxUid
         /\ pulled[w].top < srv.next[pulled[w].box]
         /\ DOMAIN pulled[w].mail \subseteq Uids
         /\ \A u \in DOMAIN pulled[w].mail : pulled[w].mail[u] \in Mail
         /\ DOMAIN pulled[w].mail # {} =>
               Least(DOMAIN pulled[w].mail) \in DOMAIN pulled[w].mail
<1>1. pulled[w] \in Pulled /\ pulled[w].top < srv.next[pulled[w].box]
  BY DEF TInv, StoreOK
<1>2. pulled[w].box \in Boxes /\ pulled[w].top \in 0..MaxUid
      /\ pulled[w].mail \in UNION {[D -> Mail] : D \in SUBSET Uids}
  BY <1>1 DEF Pulled
<1>3. PICK D \in SUBSET Uids : pulled[w].mail \in [D -> Mail]
  BY <1>2
<1>4. D # {} => Least(D) \in D
  BY Bounds, LeastOf DEF Uids
<1> QED BY <1>1, <1>2, <1>3, <1>4

LEMMA LocalStep ==
  ASSUME TInv, [Next]_vars
  PROVE  /\ local' \in LocalMail
         /\ \A x \in Boxes, y \in Ids : local'[x][y] # None => From(y, local'[x][y].of)
<1> DEFINE Goal == /\ local' \in LocalMail
                   /\ \A x \in Boxes, y \in Ids : local'[x][y] # None => From(y, local'[x][y].of)
<1>0. /\ Trash \in Boxes /\ local \in LocalMail /\ ControlOK /\ None \in Mail \cup {None}
  BY Bounds DEF TInv, StoreOK, LocalMail
<1>1. ASSUME NEW b \in Boxes, NEW i \in Ids, NEW d \in Boxes, QueueMove(b, i, d) PROVE Goal
  <2>1. local[b][i] # None /\ local' = [local EXCEPT ![d][i] = Found(local[b][i].of)]
    BY <1>1 DEF QueueMove, Selected
  <2> QED BY <2>1, LocalRecord, LocalPut
<1>2. ASSUME NEW b \in Boxes, NEW i \in Ids, NEW d \in Boxes, QueueCopy(b, i, d) PROVE Goal
  <2>1. local[b][i] # None /\ local' = [local EXCEPT ![d][i] = local[b][i]]
    BY <1>2 DEF QueueCopy, Selected
  <2> QED BY <2>1, LocalRecord, LocalPut
<1>3. ASSUME NEW b \in Boxes, NEW i \in Ids, QueueDelete(b, i) \/ QueueUndelete(b, i) PROVE Goal
  <2>1. /\ local[b][i] # None
        /\ \/ local' = [local EXCEPT ![b][i].deleted = TRUE]
           \/ local' = [local EXCEPT ![b][i].deleted = FALSE]
           \/ local' = [local EXCEPT ![b][i] = None]
    BY <1>3 DEF QueueDelete, QueueUndelete, Selected
  <2>2. CASE local' = [local EXCEPT ![b][i] = None]
    BY <1>0, <2>2, LocalPut
  <2>3. ASSUME NEW flag \in BOOLEAN, local' = [local EXCEPT ![b][i].deleted = flag] PROVE Goal
    <3> DEFINE r == [local[b][i] EXCEPT !.deleted = flag]
    <3>1. local' = [local EXCEPT ![b][i] = r]
      BY <2>3
    <3>2. r \in Mail /\ From(i, r.of)
      BY <2>1, LocalRecord
    <3> HIDE DEF r
    <3> QED BY <3>1, <3>2, LocalPut
  <2> QED BY <2>1, <2>2, <2>3
<1>4. ASSUME NEW b \in Boxes, QueueExpunge(b) PROVE Goal
  <2>1. PICK gone \in SUBSET Ids :
          local' = [local EXCEPT ![b] = [i \in Ids |-> IF i \in gone THEN None ELSE local[b][i]]]
    BY <1>4 DEF QueueExpunge
  <2>2. /\ local' \in LocalMail
        /\ \A x \in Boxes, y \in Ids : local'[x][y] \in {None, local[x][y]}
    BY <1>0, <2>1 DEF LocalMail
  <2> QED BY <2>2 DEF From
<1>5. CASE EraseSource
  <2>1. local' = [local EXCEPT ![source][task.id] = None] /\ source \in Boxes /\ task.id \in Ids
    BY <1>0, <1>5 DEF EraseSource, ControlOK
  <2> QED BY <1>0, <2>1, LocalPut
<1>6. ASSUME NEW w \in Windows, Succeed(w) PROVE Goal
  <2> DEFINE a == queued[cur[w]]
  <2>1. a \in Command /\ local' = Refetched(a) /\ Possible(a)
    BY <1>0, <1>6, CurType DEF Succeed, AtAction
  <2> HIDE DEF a
  <2>2. CASE a.kind = "fetch"
    <3> DEFINE id == <<a.box, a.id[2]>>
    <3>1. local' = [local EXCEPT ![a.box][id] = srv.mail[a.box][a.id[2]]]
          /\ srv.mail[a.box][a.id[2]] # None
      BY <2>1, <2>2 DEF Refetched, Possible
    <3>2. a.box \in Boxes /\ a.id[2] \in Uids /\ id \in Ids
      BY <2>1, <2>2 DEF Command, Action, Ids
    <3>3. srv.mail[a.box][a.id[2]] \in Mail /\ From(id, srv.mail[a.box][a.id[2]].of)
      BY <3>1, <3>2 DEF TInv, StoreOK, Server, From
    <3> HIDE DEF id
    <3> QED BY <3>1, <3>2, <3>3, LocalPut
  <2>3. CASE a.kind # "fetch"
    BY <1>0, <2>1, <2>3 DEF Refetched, From
  <2> QED BY <2>2, <2>3
<1>7. ASSUME NEW w \in Windows, StoreNext(w) PROVE Goal
  <2> DEFINE u == Least(DOMAIN pulled[w].mail)
             b == pulled[w].box
             id == <<b, u>>
             r == pulled[w].mail[u]
  <2>1. u \in DOMAIN pulled[w].mail /\ b \in Boxes /\ u \in Uids /\ r \in Mail /\ pc[w] = "store"
    BY <1>7, PulledMail DEF StoreNext
  <2>2. UNCHANGED local \/ local' = [local EXCEPT ![b][id] = r]
    BY <1>7 DEF StoreNext
  <2> HIDE DEF u, b
  <2>3. id \in Ids /\ id[1] = b /\ id[2] = u
    BY <2>1 DEF Ids
  <2>4. From(id, r.of)
    BY <2>1, <2>3 DEF From, b
  <2> HIDE DEF id, r
  <2>5. CASE UNCHANGED local
    BY <1>0, <2>5 DEF From
  <2> QED BY <2>1, <2>2, <2>3, <2>4, <2>5, LocalPut
<1>8. CASE UNCHANGED local
  BY <1>0, <1>8 DEF From
<1>9. \/ \E b \in Boxes, i \in Ids :
           \/ \E d \in Boxes : QueueMove(b, i, d) \/ QueueCopy(b, i, d)
           \/ QueueDelete(b, i) \/ QueueUndelete(b, i)
      \/ \E b \in Boxes : QueueExpunge(b)
      \/ EraseSource \/ \E w \in Windows : Succeed(w) \/ StoreNext(w)
      \/ UNCHANGED local
  BY ZenonT(60) DEF Next, QueueNext, Advance, QueueFetch, QueueFails, Crash, StartPass, MarkRunning, Remove,
       Keep, EndPass, Refused, BreakOff, Synchronise, SaveSeen, EndSync, SaveEdit, ReadAction,
       Journal, files, vars
<1> QED BY <1>1, <1>2, <1>3, <1>4, <1>5, <1>6, <1>7, <1>8, <1>9

-----------------------------------------------------------------------------
(* The types of what is stored *)

LEMMA ServerKept ==
  ASSUME TInv, [Next]_vars
  PROVE  /\ srv' \in Server /\ Below(srv') /\ \A b \in Boxes : srv.next[b] <= srv'.next[b]
         /\ \A b \in Boxes, u \in Uids : srv'.mail[b][u] # None /\ u < srv.next[b] =>
              srv.mail[b][u] # None /\ srv'.mail[b][u].of = srv.mail[b][u].of
<1>1. CASE UNCHANGED srv
  BY <1>1, Bounds DEF TInv, StoreOK, Server
<1>2. CASE \E w \in Windows : /\ pc[w] = "run" /\ queued[cur[w]] \in Command
                              /\ Follows(queued[cur[w]], srv')
  BY <1>2 DEF Follows, ServerOK
<1> QED BY <1>1, <1>2, ServerStep

(* The answer of the server has the messages present from a UID on, or the *)
(* last one; Highest of it and the last UID seen is one it has given out.  *)
LEMMA AnswerType ==
  ASSUME TInv, NEW b \in Boxes, NEW from
  PROVE  /\ Answered(b, from) \subseteq {u \in Uids : srv.mail[b][u] # None}
         /\ \A u \in Answered(b, from) : srv.mail[b][u] \in Mail /\ u < srv.next[b]
         /\ \A last \in 0..MaxUid : last < srv.next[b] =>
              /\ Highest(Answered(b, from) \cup {last}) \in 0..MaxUid
              /\ Highest(Answered(b, from) \cup {last}) < srv.next[b]
<1>1. Answered(b, from) \subseteq {u \in Uids : srv.mail[b][u] # None}
  BY DEF Answered
<1>2. \A u \in Answered(b, from) : srv.mail[b][u] \in Mail /\ u < srv.next[b]
  BY <1>1 DEF TInv, StoreOK, Server, Below
<1>3. ASSUME NEW last \in 0..MaxUid, last < srv.next[b]
      PROVE  /\ Highest(Answered(b, from) \cup {last}) \in 0..MaxUid
             /\ Highest(Answered(b, from) \cup {last}) < srv.next[b]
  <2> DEFINE S == Answered(b, from) \cup {last}
  <2>1. S \in SUBSET Nat /\ S # {} /\ \A v \in S : v <= MaxUid /\ v < srv.next[b]
    BY <1>1, <1>2, <1>3, Bounds DEF Uids
  <2> HIDE DEF S
  <2>2. \E u \in S : \A v \in S : v <= u
    BY <2>1, Bounds, GreatestExists
  <2>3. Highest(S) \in S
    BY <2>2 DEF Highest
  <2>4. \A h \in S : h \in 0..MaxUid /\ h < srv.next[b]
    BY <2>1, Bounds
  <2> QED BY <2>3, <2>4 DEF S
<1> QED BY <1>1, <1>2, <1>3

LEMMA SeenStep ==
  ASSUME TInv, [Next]_vars
  PROVE  seen' \in [Boxes -> 0..MaxUid] /\ \A b \in Boxes : seen'[b] < srv'.next[b]
<1>0. /\ seen \in [Boxes -> 0..MaxUid] /\ \A b \in Boxes : seen[b] < srv.next[b]
      /\ srv.next \in [Boxes -> 1..(MaxUid + 1)] /\ srv'.next \in [Boxes -> 1..(MaxUid + 1)]
      /\ \A b \in Boxes : srv.next[b] <= srv'.next[b] /\ MaxUid \in Nat
  BY ServerKept, Bounds DEF TInv, StoreOK, Server
<1>1. ASSUME NEW w \in Windows, SaveSeen(w)
      PROVE  seen' \in [Boxes -> 0..MaxUid] /\ \A b \in Boxes : seen'[b] < srv'.next[b]
  <2>1. /\ pulled[w].box \in Boxes /\ pulled[w].top \in 0..MaxUid
        /\ pulled[w].top < srv.next[pulled[w].box]
    BY <1>1, PulledMail DEF SaveSeen
  <2> DEFINE box == pulled[w].box
  <2>2. PICK uid : /\ seen' = [seen EXCEPT ![box] = uid]
                   /\ uid = pulled[w].top \/ uid = 0 \/ uid = seen[box]
    BY <1>1 DEF SaveSeen
  <2>3. uid \in 0..MaxUid /\ uid < srv.next[box]
    BY <1>0, <2>1, <2>2
  <2> HIDE DEF box
  <2>4. /\ seen' \in [Boxes -> 0..MaxUid]
        /\ \A b \in Boxes : seen'[b] = IF b = box THEN uid ELSE seen[b]
    BY <1>0, <2>2, <2>3
  <2>5. \A b \in Boxes : seen'[b] < srv.next[b] /\ srv.next[b] <= srv'.next[b]
    BY <1>0, <2>3, <2>4
  <2>6. ASSUME NEW b \in Boxes PROVE seen'[b] < srv'.next[b]
    BY <1>0, <2>4, <2>5
  <2> QED BY <2>4, <2>6
<1>2. CASE UNCHANGED seen
  BY <1>0, <1>2
<1>3. UNCHANGED seen \/ \E w \in Windows : SaveSeen(w)
  BY ZenonT(60) DEF Next, QueueNext, Advance, QueueMove, QueueCopy, QueueDelete, QueueUndelete, QueueFetch,
       QueueExpunge, QueueFails, Crash, StartPass, MarkRunning, Succeed, BreakOff, Remove, Keep,
       EndPass, Refused, Synchronise, StoreNext, EndSync, SaveEdit, ReadAction, EraseSource,
       Journal, Unqueued, files, vars
<1> QED BY <1>1, <1>2, <1>3

(* A step changes what a window has pulled when it synchronises, stores or *)
(* ends.                                                                   *)
LEMMA PulledStep ==
  ASSUME TInv, [Next]_vars
  PROVE  /\ pulled' \in [Windows -> Pulled \cup {None}]
         /\ \A v \in Windows :
              \/ /\ pulled'[v] = pulled[v]
                 /\ pc'[v] \in {"state", "store"} <=> pc[v] \in {"state", "store"}
              \/ /\ pc'[v] \in {"state", "store"} /\ pulled'[v] \in Pulled
                 /\ pulled'[v].top < srv.next[pulled'[v].box]
                 /\ \A u \in DOMAIN pulled'[v].mail :
                      \/ /\ srv.mail[pulled'[v].box][u] # None
                         /\ pulled'[v].mail[u] = srv.mail[pulled'[v].box][u]
                      \/ /\ pc[v] \in {"state", "store"} /\ pulled'[v].box = pulled[v].box
                         /\ u \in DOMAIN pulled[v].mail /\ pulled'[v].mail[u] = pulled[v].mail[u]
              \/ pc'[v] \notin {"state", "store"} /\ pulled'[v] = None
<1> DEFINE Same(v) == /\ pulled'[v] = pulled[v]
                      /\ pc'[v] \in {"state", "store"} <=> pc[v] \in {"state", "store"}
           New(v) == /\ pc'[v] \in {"state", "store"} /\ pulled'[v] \in Pulled
                     /\ pulled'[v].top < srv.next[pulled'[v].box]
                     /\ \A u \in DOMAIN pulled'[v].mail :
                          \/ /\ srv.mail[pulled'[v].box][u] # None
                             /\ pulled'[v].mail[u] = srv.mail[pulled'[v].box][u]
                          \/ /\ pc[v] \in {"state", "store"} /\ pulled'[v].box = pulled[v].box
                             /\ u \in DOMAIN pulled[v].mail
                             /\ pulled'[v].mail[u] = pulled[v].mail[u]
           Gone(v) == pc'[v] \notin {"state", "store"} /\ pulled'[v] = None
           Goal == /\ pulled' \in [Windows -> Pulled \cup {None}]
                   /\ \A v \in Windows : Same(v) \/ New(v) \/ Gone(v)
<1>0. /\ ControlOK /\ pulled \in [Windows -> Pulled \cup {None}] /\ Main \in Windows
      /\ Synced \subseteq Boxes
  BY Bounds, ImapJournalAssumption DEF TInv, StoreOK
<1>1. ASSUME NEW w \in Windows, NEW b \in Synced, NEW full \in BOOLEAN, Synchronise(w, b, full)
      PROVE  Goal
  <2> DEFINE last == IF full THEN 0 ELSE seen[b]
             new == Answered(b, last + 1)
             mail == [u \in new |-> srv.mail[b][u]]
             top == Highest(new \cup {last})
             p == [box |-> b, top |-> top, mail |-> mail]
  <2>1. pulled' = [pulled EXCEPT ![w] = p] /\ Goto(w, "state")
    BY <1>1 DEF Synchronise
  <2>2. b \in Boxes /\ last \in 0..MaxUid /\ last < srv.next[b]
    BY <1>0, Bounds DEF TInv, StoreOK, Server
  <2> HIDE DEF last
  <2>3. /\ new \subseteq {u \in Uids : srv.mail[b][u] # None}
        /\ \A u \in new : srv.mail[b][u] \in Mail
        /\ top \in 0..MaxUid /\ top < srv.next[b]
    BY <2>2, AnswerType
  <2> HIDE DEF new
  <2>4. mail \in [new -> Mail] /\ new \in SUBSET Uids
    BY <2>3
  <2>5. mail \in UNION {[D -> Mail] : D \in SUBSET Uids}
    BY <2>4
  <2>6. \A u \in DOMAIN mail : srv.mail[b][u] # None /\ mail[u] = srv.mail[b][u]
    BY <2>3
  <2> HIDE DEF mail, top
  <2>7. p \in Pulled /\ p.top = top /\ p.box = b /\ p.mail = mail
    BY <2>2, <2>3, <2>5 DEF Pulled
  <2> HIDE DEF p
  <2>8. /\ pulled' \in [Windows -> Pulled \cup {None}] /\ pulled'[w] = p
        /\ \A v \in Windows \ {w} : pulled'[v] = pulled[v]
    BY <1>0, <2>1, <2>7
  <2>9. pc'[w] = "state" /\ \A v \in Windows \ {w} : pc'[v] = pc[v]
    BY <1>0, <2>1, GotoEffect
  <2>10. New(w)
    BY <2>3, <2>6, <2>7, <2>8, <2>9
  <2> QED BY <2>8, <2>9, <2>10
<1>2. ASSUME NEW w \in Windows, StoreNext(w) PROVE Goal
  <2> DEFINE D == DOMAIN pulled[w].mail
             E == D \ {Least(D)}
             mail == [u \in E |-> pulled[w].mail[u]]
             p == [pulled[w] EXCEPT !.mail = mail]
  <2>1. pulled' = [pulled EXCEPT ![w].mail = mail] /\ UNCHANGED pc /\ pc[w] = "store"
    BY <1>2 DEF StoreNext
  <2>2. /\ pulled[w] \in Pulled /\ pulled[w].top < srv.next[pulled[w].box]
        /\ D \subseteq Uids /\ \A u \in D : pulled[w].mail[u] \in Mail
    BY <2>1, PulledMail
  <2>3. pulled' = [pulled EXCEPT ![w] = p]
    BY <1>0, <2>1
  <2>4. mail \in [E -> Mail] /\ E \in SUBSET Uids
    BY <2>2
  <2>5. mail \in UNION {[S -> Mail] : S \in SUBSET Uids}
    BY <2>4
  <2>6. DOMAIN mail \subseteq D /\ \A u \in DOMAIN mail : mail[u] = pulled[w].mail[u]
    OBVIOUS
  <2> HIDE DEF mail
  <2>7. p \in Pulled /\ p.mail = mail /\ p.box = pulled[w].box /\ p.top = pulled[w].top
    BY <2>2, <2>5 DEF Pulled
  <2> HIDE DEF p
  <2>8. /\ pulled' \in [Windows -> Pulled \cup {None}] /\ pulled'[w] = p
        /\ \A v \in Windows \ {w} : pulled'[v] = pulled[v]
    BY <1>0, <2>3, <2>7
  <2>9. New(w)
    BY <2>1, <2>2, <2>6, <2>7, <2>8
  <2> QED BY <2>1, <2>8, <2>9
<1>3. ASSUME NEW w \in Windows, EndSync(w) PROVE Goal
  <2>1. pulled' = [pulled EXCEPT ![w] = None] /\ Goto(w, "idle")
    BY <1>3 DEF EndSync
  <2>2. /\ pulled' \in [Windows -> Pulled \cup {None}] /\ pulled'[w] = None
        /\ \A v \in Windows \ {w} : pulled'[v] = pulled[v]
    BY <1>0, <2>1
  <2>3. pc'[w] = "idle" /\ \A v \in Windows \ {w} : pc'[v] = pc[v]
    BY <1>0, <2>1, GotoEffect
  <2> QED BY <2>2, <2>3
<1>4. CASE Crash
  <2>1. /\ pc' = [w \in Windows |-> "idle"] /\ pulled' = [w \in Windows |-> None]
    BY <1>4 DEF Crash
  <2> QED BY <2>1
<1>5. ASSUME UNCHANGED pulled,
             \/ UNCHANGED pc
             \/ \E w \in Windows :
                  \/ \E step \in {"erase", "journal", "idle", "next", "run", "ok", "failed", "edit"} :
                       Goto(w, step) /\ pc[w] \notin {"state", "store"}
                  \/ Goto(w, "store") /\ pc[w] = "state"
      PROVE  Goal
  <2>1. CASE UNCHANGED pc
    BY <1>0, <1>5, <2>1
  <2>2. ASSUME NEW w \in Windows,
               NEW step \in {"erase", "journal", "idle", "next", "run", "ok", "failed", "edit"},
               Goto(w, step), pc[w] \notin {"state", "store"}
        PROVE  Goal
    <3>1. \A v \in Windows : pc'[v] = IF v = w THEN step ELSE pc[v]
      BY <1>0, <2>2 DEF Goto, ControlOK
    <3>2. \A v \in Windows : Same(v)
      BY <1>5, <2>2, <3>1
    <3> QED BY <1>0, <1>5, <3>2
  <2>3. ASSUME NEW w \in Windows, Goto(w, "store"), pc[w] = "state" PROVE Goal
    <3>1. \A v \in Windows : pc'[v] = IF v = w THEN "store" ELSE pc[v]
      BY <1>0, <2>3 DEF Goto, ControlOK
    <3>2. \A v \in Windows : Same(v)
      BY <1>5, <2>3, <3>1
    <3> QED BY <1>0, <1>5, <3>2
  <2> QED BY <1>5, <2>1, <2>2, <2>3
<1>6. CASE QueueNext \/ QueueFails \/ EraseSource \/ Journal
  <2>1. UNCHANGED pulled
    BY <1>6 DEF QueueNext, QueueMove, QueueCopy, QueueDelete, QueueUndelete, QueueFetch, QueueExpunge,
       QueueFails, EraseSource, Journal, Unqueued
  <2>2. UNCHANGED pc \/ \E step \in {"erase", "journal", "idle"} :
                          Goto(Main, step) /\ pc[Main] \notin {"state", "store"}
    BY <1>6 DEF QueueNext, QueueMove, QueueCopy, QueueDelete, QueueUndelete, QueueFetch, QueueExpunge,
       QueueFails, EraseSource, Journal, Selected
  <2> QED BY <1>0, <1>5, <2>1, <2>2
<1>7. ASSUME NEW w \in Windows,
             \/ StartPass(w) \/ MarkRunning(w) \/ Succeed(w) \/ Remove(w) \/ Keep(w) \/ EndPass(w)
             \/ SaveSeen(w) \/ SaveEdit(w) \/ Refused(w) \/ BreakOff(w)
             \/ \E a \in 1..Len(queued), state \in {"waiting", "cancelled"} : ReadAction(w, a, state)
      PROVE  Goal
  <2>1. UNCHANGED pulled
    BY <1>7 DEF StartPass, MarkRunning, Succeed, Remove, Keep, EndPass, SaveSeen, SaveEdit, Refused,
       BreakOff, ReadAction, thread
  <2>2. \/ \E step \in {"idle", "next", "run", "ok", "failed", "edit"} :
             Goto(w, step) /\ pc[w] \notin {"state", "store"}
        \/ Goto(w, "store") /\ pc[w] = "state"
    BY <1>7 DEF StartPass, MarkRunning, Succeed, Remove, Keep, EndPass, SaveSeen, SaveEdit, Refused,
       BreakOff, ReadAction
  <2> QED BY <1>5, <2>1, <2>2
<1>8. CASE UNCHANGED vars
  BY <1>5, <1>8 DEF vars, thread
<1>9. Goal
  BY <1>1, <1>2, <1>3, <1>4, <1>6, <1>7, <1>8 DEF Next, Advance
<1> QED BY <1>9

LEMMA StoreStep ==
  ASSUME TInv, [Next]_vars
  PROVE  StoreOK'
<1>1. /\ srv' \in Server /\ Below(srv') /\ \A b \in Boxes : srv.next[b] <= srv'.next[b]
      /\ srv \in Server /\ MaxUid \in Nat
  BY ServerKept, Bounds DEF TInv, StoreOK
<1>2. ASSUME NEW v \in Windows
      PROVE  IF pc'[v] \in {"state", "store"}
             THEN pulled'[v] \in Pulled /\ pulled'[v].top < srv'.next[pulled'[v].box]
             ELSE pulled'[v] = None
  <2>1. ASSUME NEW p \in Pulled, p.top < srv.next[p.box] PROVE p.top < srv'.next[p.box]
    <3>1. /\ p.top \in 0..MaxUid /\ p.box \in Boxes /\ srv.next[p.box] \in 1..(MaxUid + 1)
          /\ srv'.next[p.box] \in 1..(MaxUid + 1)
      BY <1>1 DEF Pulled, Server
    <3> QED BY <1>1, <2>1, <3>1
  <2>2. CASE /\ pulled'[v] = pulled[v]
             /\ pc'[v] \in {"state", "store"} <=> pc[v] \in {"state", "store"}
    BY <2>1, <2>2 DEF TInv, StoreOK
  <2>3. CASE /\ pc'[v] \in {"state", "store"} /\ pulled'[v] \in Pulled
             /\ pulled'[v].top < srv.next[pulled'[v].box]
    BY <2>1, <2>3
  <2>4. CASE pc'[v] \notin {"state", "store"} /\ pulled'[v] = None
    BY <2>4
  <2> QED BY <2>2, <2>3, <2>4, PulledStep
<1> QED BY <1>1, <1>2, SeenStep, PulledStep, LocalStep DEF StoreOK, LocalMail, Below

(* In the beginning a mailbox has no more UIDs given out than there are,   *)
(* for no two messages have the same.                                      *)
LEMMA GivenType ==
  ASSUME NEW b \in Boxes
  PROVE  Given(b) \in 0..MaxUid
<1> DEFINE M == {m \in Messages : Start[m][1] = b}
           f == [m \in M |-> Start[m][2]]
<1>1. f \in [M -> 1..MaxUid]
  BY ImapJournalAssumption DEF Ids, Uids
<1>2. \A m, n \in M : f[m] = f[n] => m = n
  <2>1. \A m, n \in M : f[m] = f[n] => Start[m] = Start[n]
    BY ImapJournalAssumption DEF Ids
  <2> QED BY <2>1, ImapJournalAssumption
<1>3. f \in Injection(M, 1..MaxUid)
  BY <1>1, <1>2 DEF Injection, IsInjective
<1>4. IsFiniteSet(1..MaxUid) /\ Cardinality(1..MaxUid) = MaxUid
  BY FS_Interval, Bounds
<1> HIDE DEF f
<1>5. IsFiniteSet(M) /\ Cardinality(M) <= MaxUid
  BY <1>3, <1>4, FS_Injection
<1>6. Cardinality(M) \in Nat
  BY <1>5, FS_CardinalityType
<1> QED BY <1>5, <1>6, Bounds DEF Given

LEMMA InitialMailType ==
  /\ InitialMail \in [Boxes -> [Uids -> Mail \cup {None}]]
  /\ \A b \in Boxes, u \in Uids : InitialMail[b][u] # None => u < Given(b) + 1
<1>1. ASSUME NEW b \in Boxes, NEW u \in Uids, NEW m \in Messages, Start[m] = <<b, u>>
      PROVE  /\ (CHOOSE n \in Messages : Start[n] = <<b, u>>) \in Messages
             /\ u \in 1..Given(b)
  <2>1. Start[m][1] = b /\ Start[m][2] = u
    BY <1>1
  <2>2. Start[m][2] \in 1..Given(Start[m][1])
    BY ImapJournalAssumption
  <2>3. u \in 1..Given(b)
    BY <2>1, <2>2
  <2> QED BY <1>1, <2>3
<1>2. ASSUME NEW b \in Boxes, NEW u \in Uids
      PROVE  /\ InitialMail[b][u] \in Mail \cup {None}
             /\ InitialMail[b][u] # None => u < Given(b) + 1
  <2> DEFINE m == CHOOSE n \in Messages : Start[n] = <<b, u>>
  <2>1. InitialMail[b][u] = IF \E n \in Messages : Start[n] = <<b, u>> THEN Found(m) ELSE None
    BY DEF InitialMail
  <2>2. (\E n \in Messages : Start[n] = <<b, u>>) => m \in Messages /\ u \in 1..Given(b)
    BY <1>1
  <2> HIDE DEF m
  <2>3. m \in Messages => Found(m) \in Mail
    BY DEF Found, Mail
  <2>4. Given(b) \in Nat
    BY GivenType, Bounds
  <2> QED BY <2>1, <2>2, <2>3, <2>4
<1> HIDE DEF InitialMail
<1>3. InitialMail = [b \in Boxes |-> [u \in Uids |-> InitialMail[b][u]]]
  BY DEF InitialMail
<1> QED BY <1>2, <1>3

LEMMA TypeInit ==
  ASSUME Init
  PROVE  TInv
<1>1. ControlOK
  <2>1. queued = <<>> /\ Len(queued) = 0 /\ queued \in Seq(Command)
    BY DEF Init
  <2>2. /\ journal = [a \in Actions |-> "absent"] /\ pc = [w \in Windows |-> "idle"]
        /\ todo = [w \in Windows |-> {}] /\ cur = [w \in Windows |-> 0]
        /\ edit = [w \in Windows |-> "absent"] /\ task = None /\ source = None
        /\ account \in OnDelete
        /\ told = {} /\ done = {} /\ twice = {} /\ dropped = {} /\ late = {}
        /\ torn = {} /\ unsure = {} /\ overrun = {} /\ swept = {}
    BY DEF Init
  <2>3. \A w \in Windows : WindowOK(w)
    BY <2>2 DEF WindowOK, AtAction, InPass
  <2> QED BY <2>1, <2>2, <2>3, Bounds DEF ControlOK
<1>2. StoreOK
  <2>0. \A b \in Boxes : Given(b) \in 0..MaxUid
    BY GivenType
  <2>1. srv.mail = InitialMail /\ srv.next = [b \in Boxes |-> Given(b) + 1]
        /\ srv = [mail |-> InitialMail, next |-> [b \in Boxes |-> Given(b) + 1]]
    BY DEF Init
  <2>2. srv \in Server /\ Below(srv)
    <3>1. [b \in Boxes |-> Given(b) + 1] \in [Boxes -> 1..(MaxUid + 1)]
      BY <2>0, Bounds
    <3> QED BY <2>1, <3>1, InitialMailType DEF Server, Below
  <2>3. local \in [Boxes -> [Ids -> Mail \cup {None}]]
    <3>1. \A b \in Boxes, i \in Ids :
            (IF i[1] = b THEN InitialMail[b][i[2]] ELSE None) \in Mail \cup {None}
      BY InitialMailType DEF Ids
    <3>2. local = [b \in Boxes |-> [i \in Ids |->
                     IF i[1] = b THEN InitialMail[b][i[2]] ELSE None]]
      BY DEF Init
    <3> QED BY <3>1, <3>2
  <2>4. seen \in [Boxes -> 0..MaxUid] /\ \A b \in Boxes : seen[b] < srv.next[b]
    <3>1. seen = [b \in Boxes |-> Given(b)]
      BY DEF Init
    <3> QED BY <2>0, <2>1, <3>1, Bounds
  <2>5. pc = [w \in Windows |-> "idle"] /\ pulled = [w \in Windows |-> None]
    BY DEF Init
  <2> QED BY <2>2, <2>3, <2>4, <2>5 DEF StoreOK
<1> QED BY <1>1, <1>2 DEF TInv

LEMMA TypeStep ==
  ASSUME TInv, [Next]_vars
  PROVE  TInv'
BY ControlStep, StoreStep DEF TInv

LEMMA TypeImplied ==
  ASSUME TInv
  PROVE  TypeOK
<1>1. queued \in Seq(Action) /\ Len(queued) \in Nat /\ Len(queued) <= MaxActions
  BY DEF TInv, ControlOK, Command
<1>2. 1..Len(queued) \subseteq Actions
  BY <1>1, Bounds DEF Actions
<1>3. ASSUME NEW w \in Windows, pulled[w] # None
      PROVE  /\ pulled[w].box \in Boxes /\ pulled[w].top \in 0..MaxUid
             /\ \A u \in DOMAIN pulled[w].mail : pulled[w].mail[u] \in Mail
  BY <1>3, PulledMail DEF TInv, StoreOK
<1> QED BY <1>1, <1>2, <1>3 DEF TInv, ControlOK, StoreOK, Server, TypeOK

(* Every variable holds a value the code can store in it, whatever fails:  *)
(* last_seen_uid stays below UIDNEXT, a pass works on actions that were    *)
(* queued, and a synchronisation saves what the server answered.           *)
THEOREM TypesHold == Spec => []TypeOK
<1>1. Init => TInv
  BY TypeInit
<1>2. TInv /\ [Next]_vars => TInv'
  BY TypeStep
<1>3. TInv => TypeOK
  BY TypeImplied
<1> QED BY <1>1, <1>2, <1>3, PTL DEF Spec

-----------------------------------------------------------------------------
(* No action is lost *)

(* What a step can do to the file of action a. *)
LEMMA JournalStep ==
  ASSUME TInv, [Next]_vars, NEW a \in Actions
  PROVE  /\ torn \subseteq torn' /\ done \subseteq done'
         /\ \/ journal'[a] = journal[a]
            \/ journal'[a] \in {"waiting", "cancelled"}
            \/ journal'[a] = "void" /\ a \in torn'
            \/ journal'[a] = "absent" /\ \E w \in Windows : pc[w] = "ok" /\ cur[w] = a
         /\ a \in told' \ told => journal'[a] = "waiting" \/ a \in torn'
<1> DEFINE Goal == /\ torn \subseteq torn' /\ done \subseteq done'
                   /\ \/ journal'[a] = journal[a]
                      \/ journal'[a] \in {"waiting", "cancelled"}
                      \/ journal'[a] = "void" /\ a \in torn'
                      \/ journal'[a] = "absent" /\ \E w \in Windows : pc[w] = "ok" /\ cur[w] = a
                   /\ a \in told' \ told => journal'[a] = "waiting" \/ a \in torn'
<1>0. ControlOK /\ journal \in [Actions -> {"absent", "waiting", "cancelled", "void"}]
  BY DEF TInv, ControlOK
<1>1. ASSUME NEW w \in Windows, MarkRunning(w) \/ Keep(w) \/ SaveEdit(w) PROVE Goal
  <2>1. PICK b \in Actions, state \in {"waiting", "cancelled"} : Save(b, state)
    <3>1. CASE MarkRunning(w)
      BY <1>0, <3>1, NextTodo DEF MarkRunning
    <3>2. CASE Keep(w)
      BY <1>0, <3>2, CurType DEF Keep, AtAction
    <3>3. CASE SaveEdit(w)
      <4>1. edit[w] \in {"waiting", "cancelled"} /\ cur[w] \in Actions
        BY <1>0, <3>3, CurType DEF SaveEdit, AtAction, ControlOK, WindowOK
      <4> QED BY <3>3, <4>1 DEF SaveEdit
    <3> QED BY <1>1, <3>1, <3>2, <3>3
  <2>2. UNCHANGED <<told, done>>
    BY <1>1 DEF MarkRunning, Keep, SaveEdit
  <2> QED BY <1>0, <2>1, <2>2 DEF Save
<1>2. ASSUME NEW w \in Windows, Remove(w) PROVE Goal
  BY <1>0, <1>2 DEF Remove
<1>3. CASE Crash
  BY <1>0, <1>3 DEF Crash
<1>4. CASE Journal
  <2>1. Len(queued) + 1 \in Actions
    BY <1>0, <1>4, Bounds DEF Journal, ControlOK, Actions
  <2> QED BY <1>0, <1>4, <2>1 DEF Journal
<1>5. CASE \/ \E w \in Windows : Succeed(w) \/ BreakOff(w)
           \/ UNCHANGED <<journal, told, done, torn>>
  BY <1>5 DEF Succeed, BreakOff, Record, files, thread
<1>6. ASSUME NEW w \in Windows,
             \/ StartPass(w) \/ EndPass(w) \/ Refused(w) \/ SaveSeen(w) \/ StoreNext(w) \/ EndSync(w)
             \/ \E b \in Synced, full \in BOOLEAN : Synchronise(w, b, full)
             \/ \E n \in 1..Len(queued), state \in {"waiting", "cancelled"} : ReadAction(w, n, state)
      PROVE  UNCHANGED <<journal, told, done, torn>>
  BY <1>6 DEF StartPass, EndPass, Refused, Synchronise, SaveSeen, StoreNext, EndSync, ReadAction,
       files, history
<1>7. CASE QueueNext \/ QueueFails \/ EraseSource
  <2>1. Unqueued
    BY <1>7 DEF QueueNext, QueueMove, QueueCopy, QueueDelete, QueueUndelete, QueueFetch, QueueExpunge,
       QueueFails, EraseSource
  <2> QED BY <1>5, <2>1 DEF Unqueued, history
<1>8. CASE UNCHANGED vars
  BY <1>5, <1>8 DEF vars, files, history
<1> QED BY <1>1, <1>2, <1>3, <1>4, <1>5, <1>6, <1>7, <1>8 DEF Next, Advance

(* A window whose replay has succeeded is at an action that is done. *)
DoneOK == \A w \in Windows : pc[w] = "ok" => cur[w] \in done

LEMMA DoneStep ==
  ASSUME TInv, DoneOK, [Next]_vars
  PROVE  DoneOK'
<1>0. ControlOK
  BY DEF TInv
<1>1. ASSUME NEW w \in Windows, pc'[w] = "ok"
      PROVE  \/ pc[w] = "ok" /\ cur'[w] = cur[w]
             \/ Succeed(w)
  <2>1. ASSUME NEW v \in Windows, NEW step, step # "ok", Goto(v, step),
               \A x \in Windows \ {v} : cur'[x] = cur[x]
        PROVE  pc[w] = "ok" /\ cur'[w] = cur[w]
    <3>1. pc'[w] = IF w = v THEN step ELSE pc[w]
      BY <1>0, <2>1 DEF Goto, ControlOK
    <3> QED BY <1>1, <2>1, <3>1
  <2>2. CASE QueueNext \/ QueueFails \/ EraseSource \/ Journal
    <3>1. UNCHANGED cur
      BY <2>2 DEF QueueNext, QueueMove, QueueCopy, QueueDelete, QueueUndelete, QueueFetch,
         QueueExpunge, QueueFails, EraseSource, Journal, Unqueued
    <3>2. UNCHANGED pc \/ \E step \in {"erase", "journal", "idle"} : Goto(Main, step)
      BY <2>2 DEF QueueNext, QueueMove, QueueCopy, QueueDelete, QueueUndelete, QueueFetch,
         QueueExpunge, QueueFails, EraseSource, Journal
    <3> QED BY <1>1, <2>1, <3>1, <3>2, Bounds
  <2>3. ASSUME NEW v \in Windows,
               \/ StartPass(v) \/ MarkRunning(v) \/ Remove(v) \/ Keep(v) \/ EndPass(v)
               \/ SaveSeen(v) \/ StoreNext(v) \/ EndSync(v) \/ SaveEdit(v) \/ Refused(v)
               \/ BreakOff(v) \/ \E b \in Synced, full \in BOOLEAN : Synchronise(v, b, full)
               \/ \E a \in 1..Len(queued), state \in {"waiting", "cancelled"} : ReadAction(v, a, state)
        PROVE  pc[w] = "ok" /\ cur'[w] = cur[w]
    <3>1. UNCHANGED cur \/ \E c : cur' = [cur EXCEPT ![v] = c]
      BY <2>3 DEF StartPass, MarkRunning, Remove, Keep, EndPass, SaveSeen, StoreNext, EndSync,
         SaveEdit, Refused, BreakOff, Synchronise, ReadAction, thread
    <3>2. \A x \in Windows \ {v} : cur'[x] = cur[x]
      BY <1>0, <3>1 DEF ControlOK
    <3>3. \/ UNCHANGED <<pc, cur>>
          \/ \E step \in {"idle", "next", "run", "failed", "state", "store", "edit"} : Goto(v, step)
      BY <2>3 DEF StartPass, MarkRunning, Remove, Keep, EndPass, SaveSeen, StoreNext, EndSync,
         SaveEdit, Refused, BreakOff, Synchronise, ReadAction, thread
    <3> QED BY <1>1, <2>1, <3>2, <3>3
  <2>4. ASSUME NEW v \in Windows, Succeed(v)
        PROVE  w = v \/ (pc[w] = "ok" /\ cur'[w] = cur[w])
    <3>1. UNCHANGED cur /\ pc'[w] = IF w = v THEN "ok" ELSE pc[w]
      BY <1>0, <2>4 DEF Succeed, thread, Goto, ControlOK
    <3> QED BY <1>1, <3>1
  <2>5. CASE Crash
    BY <1>1, <2>5 DEF Crash
  <2>6. CASE UNCHANGED vars
    BY <1>1, <2>6 DEF vars, thread
  <2> QED BY <2>2, <2>3, <2>4, <2>5, <2>6 DEF Next, Advance
<1>2. ASSUME NEW w \in Windows, Succeed(w) PROVE cur'[w] \in done'
  BY <1>2 DEF Succeed, Record, thread
<1>3. done \subseteq done'
  <2>1. ASSUME NEW a \in done PROVE a \in done'
    <3>1. a \in Actions
      BY <1>0, Bounds DEF ControlOK, Actions
    <3> QED BY <3>1, JournalStep
  <2> QED BY <2>1
<1> QED BY <1>1, <1>2, <1>3 DEF DoneOK

KInv == TInv /\ DoneOK /\ ActionsKept

(* An action the user was told is queued is not lost: it stays in the      *)
(* journal, waiting or cancelled, until the server has executed it, unless *)
(* its file was not written in full; through every failure and crash, and  *)
(* with any number of windows replaying and editing.                       *)
THEOREM ActionsStayQueued == Spec => []ActionsKept
<1>1. Init => KInv
  BY TypeInit DEF Init, KInv, DoneOK, ActionsKept
<1>2. KInv /\ [Next]_vars => KInv'
  <2>1. ASSUME KInv, [Next]_vars, NEW a \in told'
        PROVE  journal'[a] \in {"waiting", "cancelled"} \/ a \in done' \/ a \in torn'
    <3>1. TInv' /\ DoneOK'
      BY <2>1, TypeStep, DoneStep DEF KInv
    <3>2. a \in Actions
      BY <3>1, Bounds DEF TInv, ControlOK, Actions
    <3>3. CASE a \in told
      BY <2>1, <3>2, <3>3, JournalStep DEF KInv, DoneOK, ActionsKept
    <3>4. CASE a \notin told
      BY <2>1, <3>2, <3>4, JournalStep DEF KInv
    <3> QED BY <3>3, <3>4
  <2> QED BY <2>1, TypeStep, DoneStep DEF KInv, ActionsKept
<1>3. KInv => ActionsKept
  BY DEF KInv
<1> QED BY <1>1, <1>2, <1>3, PTL DEF Spec

-----------------------------------------------------------------------------
(* An action is carried out on its message *)

(* On the server s the id i stands for message m: it is one s has given    *)
(* out, and it has m under it or nothing.                                  *)
Origin(s, i, m) ==
  /\ i[2] < s.next[i[1]]
  /\ s.mail[i[1]][i[2]] # None => s.mail[i[1]][i[2]].of = m

(* Whatever names a message by an id means the message the server gave it. *)
LocalIds == \A b \in Boxes, i \in Ids : local[b][i] # None => Origin(srv, i, local[b][i].of)
TaskIds == pc[Main] \in {"erase", "journal"} /\ task.id \in Ids => Origin(srv, task.id, task.of)
QueuedIds == \A a \in 1..Len(queued) : queued[a].id \in Ids => Origin(srv, queued[a].id, queued[a].of)
PulledIds == \A w \in Windows : pc[w] \in {"state", "store"} =>
               \A u \in DOMAIN pulled[w].mail : Origin(srv, <<pulled[w].box, u>>, pulled[w].mail[u].of)

IdsOK == LocalIds /\ TaskIds /\ QueuedIds /\ PulledIds

LEMMA OriginKept ==
  ASSUME TInv, [Next]_vars, NEW i \in Ids, NEW m, Origin(srv, i, m)
  PROVE  Origin(srv', i, m)
<1>1. i[1] \in Boxes /\ i[2] \in Uids /\ i[2] \in Nat
  BY Bounds DEF Ids, Uids
<1>2. /\ srv.next[i[1]] \in 1..(MaxUid + 1) /\ srv'.next[i[1]] \in 1..(MaxUid + 1)
      /\ srv.next[i[1]] <= srv'.next[i[1]]
  BY <1>1, ServerKept DEF TInv, StoreOK, Server
<1>3. i[2] < srv'.next[i[1]]
  BY <1>1, <1>2, Bounds DEF Origin
<1>4. ASSUME srv'.mail[i[1]][i[2]] # None PROVE srv'.mail[i[1]][i[2]].of = m
  BY <1>1, <1>4, ServerKept DEF Origin
<1> QED BY <1>3, <1>4 DEF Origin

(* A record, wherever it comes from, is under the id of its message.       *)
LEMMA OriginFrom ==
  ASSUME TInv, IdsOK, NEW i \in Ids, NEW m, From(i, m)
  PROVE  Origin(srv, i, m)
<1>1. i = <<i[1], i[2]>> /\ i[1] \in Boxes /\ i[2] \in Uids
  BY DEF Ids
<1>2. CASE \E d \in Boxes : local[d][i] # None /\ local[d][i].of = m
  BY <1>2 DEF IdsOK, LocalIds
<1>3. CASE srv.mail[i[1]][i[2]] # None /\ srv.mail[i[1]][i[2]].of = m
  BY <1>1, <1>3 DEF TInv, StoreOK, Below, Origin
<1>4. ASSUME NEW w \in Windows, pc[w] = "store", pulled[w].box = i[1], i[2] \in DOMAIN pulled[w].mail,
             pulled[w].mail[i[2]].of = m
      PROVE  Origin(srv, i, m)
  BY <1>1, <1>4 DEF IdsOK, PulledIds
<1> QED BY <1>2, <1>3, <1>4 DEF From

LEMMA LocalIdsStep ==
  ASSUME TInv, IdsOK, [Next]_vars
  PROVE  LocalIds'
<1>1. ASSUME NEW b \in Boxes, NEW i \in Ids, local'[b][i] # None PROVE Origin(srv', i, local'[b][i].of)
  <2> DEFINE m == local'[b][i].of
  <2>1. From(i, m)
    BY <1>1, LocalStep
  <2> HIDE DEF m
  <2>2. Origin(srv, i, m)
    BY <2>1, OriginFrom
  <2> QED BY <2>2, OriginKept DEF m
<1> QED BY <1>1 DEF LocalIds

(* What the main window queues: the message of the record selected, under  *)
(* the id of that record.                                                  *)
LEMMA TaskStep ==
  ASSUME TInv, [Next]_vars, pc'[Main] \in {"erase", "journal"}
  PROVE  \/ UNCHANGED task /\ pc[Main] \in {"erase", "journal"}
         \/ task'.id = None
         \/ \E b \in Boxes, i \in Ids : /\ local[b][i] # None
                                        /\ task'.id = i /\ task'.of = local[b][i].of
<1>0. ControlOK /\ Main \in Windows
  BY Bounds DEF TInv
<1> DEFINE Goal == \/ UNCHANGED task /\ pc[Main] \in {"erase", "journal"}
                   \/ task'.id = None
                   \/ \E b \in Boxes, i \in Ids : /\ local[b][i] # None
                                                  /\ task'.id = i /\ task'.of = local[b][i].of
<1>1. ASSUME NEW b \in Boxes, NEW i \in Ids,
             \/ \E d \in Boxes : QueueMove(b, i, d) \/ QueueCopy(b, i, d)
             \/ QueueDelete(b, i) \/ QueueUndelete(b, i) \/ QueueFetch(b, i)
      PROVE  Goal
  <2>1. PICK kind, d : Queue(kind, b, i, d)
    BY <1>1 DEF QueueMove, QueueCopy, QueueDelete, QueueUndelete, QueueFetch
  <2>2. local[b][i] # None
    BY <1>1 DEF QueueMove, QueueCopy, QueueDelete, QueueUndelete, QueueFetch, Selected
  <2>3. task'.id = i /\ task'.of = local[b][i].of
    BY <2>1 DEF Queue
  <2> QED BY <2>2, <2>3
<1>2. ASSUME NEW b \in Boxes, QueueExpunge(b) PROVE Goal
  BY <1>2 DEF QueueExpunge
<1>3. CASE QueueFails \/ Journal \/ Crash
  BY <1>0, <1>3, GotoEffect DEF QueueFails, Journal, Crash
<1>4. CASE EraseSource
  BY <1>4 DEF EraseSource
<1>5. ASSUME NEW w \in Windows,
             \/ StartPass(w) \/ MarkRunning(w) \/ Succeed(w) \/ Remove(w) \/ Keep(w) \/ EndPass(w)
             \/ SaveSeen(w) \/ StoreNext(w) \/ EndSync(w) \/ SaveEdit(w) \/ Refused(w) \/ BreakOff(w)
             \/ \E b \in Synced, full \in BOOLEAN : Synchronise(w, b, full)
             \/ \E a \in 1..Len(queued), state \in {"waiting", "cancelled"} : ReadAction(w, a, state)
      PROVE  Goal
  <2>1. UNCHANGED task
    BY <1>5 DEF StartPass, MarkRunning, Succeed, Remove, Keep, EndPass, SaveSeen, StoreNext, EndSync,
       SaveEdit, Refused, BreakOff, Synchronise, ReadAction, thread
  <2>2. \/ UNCHANGED pc
        \/ \E step \in {"idle", "next", "run", "ok", "failed", "state", "store", "edit"} : Goto(w, step)
    BY <1>5 DEF StartPass, MarkRunning, Succeed, Remove, Keep, EndPass, SaveSeen, StoreNext, EndSync,
       SaveEdit, Refused, BreakOff, Synchronise, ReadAction
  <2>3. pc'[Main] = pc[Main]
    BY <1>0, <2>2 DEF Goto, ControlOK
  <2> QED BY <2>1, <2>3
<1>6. CASE UNCHANGED vars
  BY <1>6 DEF vars, thread
<1>7. Goal
  BY <1>1, <1>2, <1>3, <1>4, <1>5, <1>6 DEF Next, QueueNext, Advance
<1> QED BY <1>7

LEMMA TaskIdsStep ==
  ASSUME TInv, IdsOK, [Next]_vars
  PROVE  TaskIds'
<1> SUFFICES ASSUME pc'[Main] \in {"erase", "journal"}, task'.id \in Ids
             PROVE  Origin(srv', task'.id, task'.of)
  BY DEF TaskIds
<1>1. CASE UNCHANGED task /\ pc[Main] \in {"erase", "journal"}
  BY <1>1, OriginKept DEF IdsOK, TaskIds
<1>2. CASE task'.id = None
  BY <1>2, Bounds
<1>3. ASSUME NEW b \in Boxes, NEW i \in Ids, local[b][i] # None,
             task'.id = i, task'.of = local[b][i].of
      PROVE  Origin(srv', task'.id, task'.of)
  BY <1>3, OriginKept DEF IdsOK, LocalIds
<1> QED BY <1>1, <1>2, <1>3, TaskStep

LEMMA QueuedStep ==
  ASSUME TInv, [Next]_vars
  PROVE  \/ UNCHANGED queued
         \/ pc[Main] = "journal" /\ task \in Command /\ queued' = Append(queued, task)
<1>1. CASE QueueNext \/ QueueFails \/ EraseSource
  BY <1>1 DEF QueueNext, QueueMove, QueueCopy, QueueDelete, QueueUndelete, QueueFetch, QueueExpunge,
       QueueFails, EraseSource, Unqueued
<1>2. ASSUME NEW w \in Windows,
             \/ StartPass(w) \/ MarkRunning(w) \/ Succeed(w) \/ Remove(w) \/ Keep(w) \/ EndPass(w)
             \/ SaveSeen(w) \/ StoreNext(w) \/ EndSync(w) \/ SaveEdit(w) \/ Refused(w) \/ BreakOff(w)
             \/ \E b \in Synced, full \in BOOLEAN : Synchronise(w, b, full)
             \/ \E a \in 1..Len(queued), state \in {"waiting", "cancelled"} : ReadAction(w, a, state)
      PROVE  UNCHANGED queued
  BY <1>2 DEF StartPass, MarkRunning, Succeed, Remove, Keep, EndPass, SaveSeen, StoreNext, EndSync,
       SaveEdit, Refused, BreakOff, Synchronise, ReadAction, files
<1>3. CASE Crash \/ UNCHANGED vars
  BY <1>3 DEF Crash, vars, files
<1>4. CASE Journal
  BY <1>4 DEF Journal, TInv, ControlOK
<1> QED BY <1>1, <1>2, <1>3, <1>4 DEF Next, Advance

LEMMA QueuedIdsStep ==
  ASSUME TInv, IdsOK, [Next]_vars
  PROVE  QueuedIds'
<1>0. queued \in Seq(Command) /\ Len(queued) \in Nat
  BY DEF TInv, ControlOK
<1>1. ASSUME NEW a \in 1..Len(queued'), queued'[a].id \in Ids
      PROVE  Origin(srv', queued'[a].id, queued'[a].of)
  <2>1. CASE a \in 1..Len(queued) /\ queued'[a] = queued[a]
    BY <1>1, <2>1, OriginKept DEF IdsOK, QueuedIds
  <2>2. CASE pc[Main] = "journal" /\ queued'[a] = task
    BY <1>1, <2>2, OriginKept DEF IdsOK, TaskIds
  <2>3. ASSUME task \in Command, queued' = Append(queued, task)
        PROVE  (a \in 1..Len(queued) /\ queued'[a] = queued[a]) \/ queued'[a] = task
    BY <1>0, <1>1, <2>3
  <2> QED BY <1>1, <2>1, <2>2, <2>3, QueuedStep
<1> QED BY <1>1 DEF QueuedIds

LEMMA PulledIdsStep ==
  ASSUME TInv, IdsOK, [Next]_vars
  PROVE  PulledIds'
<1>1. ASSUME NEW v \in Windows, pc'[v] \in {"state", "store"}, NEW u \in DOMAIN pulled'[v].mail
      PROVE  Origin(srv', <<pulled'[v].box, u>>, pulled'[v].mail[u].of)
  <2> DEFINE i == <<pulled'[v].box, u>>
             m == pulled'[v].mail[u].of
  <2>1. i \in Ids
    <3>1. TInv'
      BY TypeStep
    <3>2. pulled'[v] \in Pulled
      BY <1>1, <3>1 DEF TInv, StoreOK
    <3> QED BY <1>1, <3>2 DEF Pulled, Ids
  <2>2. CASE /\ pulled'[v] = pulled[v] /\ pc[v] \in {"state", "store"}
    BY <1>1, <2>1, <2>2, OriginKept DEF IdsOK, PulledIds
  <2>3. CASE /\ pc[v] \in {"state", "store"} /\ pulled'[v].box = pulled[v].box
             /\ u \in DOMAIN pulled[v].mail /\ pulled'[v].mail[u] = pulled[v].mail[u]
    BY <2>1, <2>3, OriginKept DEF IdsOK, PulledIds
  <2>4. CASE /\ srv.mail[pulled'[v].box][u] # None
             /\ pulled'[v].mail[u] = srv.mail[pulled'[v].box][u]
    <3>1. Origin(srv, i, m)
      BY <2>1, <2>4 DEF TInv, StoreOK, Below, Origin, Ids
    <3> HIDE DEF i, m
    <3>2. Origin(srv', i, m)
      BY <2>1, <3>1, OriginKept
    <3> QED BY <3>2 DEF i, m
  <2> QED BY <1>1, <2>2, <2>3, <2>4, PulledStep, Bounds
<1> QED BY <1>1 DEF PulledIds

OnItsOwn ==
  \A b \in Boxes, u \in Uids : srv'.mail[b][u] # srv.mail[b][u] =>
    \E w \in Windows : pc[w] = "run" /\
      LET a == queued[cur[w]] IN
        \/ Displaced(a)
        \/ a.of = (IF srv.mail[b][u] = None THEN srv'.mail[b][u] ELSE srv.mail[b][u]).of
        \/ /\ srv.mail[b][u] # None /\ srv.mail[b][u].deleted
           /\ a.kind \in {"move", "erase", "expunge"}

LEMMA OwnStep ==
  ASSUME TInv, IdsOK, [Next]_vars
  PROVE  OnItsOwn
<1> SUFFICES ASSUME NEW b \in Boxes, NEW u \in Uids, srv'.mail[b][u] # srv.mail[b][u]
             PROVE  \E w \in Windows : pc[w] = "run" /\
                      LET a == queued[cur[w]] IN
                        \/ Displaced(a)
                        \/ a.of = (IF srv.mail[b][u] = None THEN srv'.mail[b][u]
                                   ELSE srv.mail[b][u]).of
                        \/ /\ srv.mail[b][u] # None /\ srv.mail[b][u].deleted
                           /\ a.kind \in {"move", "erase", "expunge"}
  BY DEF OnItsOwn
<1>1. PICK w \in Windows : pc[w] = "run" /\ Follows(queued[cur[w]], srv')
  BY ServerStep
<1> DEFINE a == queued[cur[w]]
<1>2. /\ a \in Command /\ (a.id \in Ids => Origin(srv, a.id, a.of))
  BY <1>1, CurType DEF TInv, AtAction, IdsOK, QueuedIds
<1> HIDE DEF a
<1>3. \/ /\ srv.mail[b][u] = None /\ a.id \in Ids /\ srv.mail[a.box][a.id[2]] # None
         /\ srv'.mail[b][u].of = srv.mail[a.box][a.id[2]].of
      \/ srv.mail[b][u] # None /\ a.id \in Ids /\ b = a.box /\ u = a.id[2]
      \/ srv.mail[b][u] # None /\ srv.mail[b][u].deleted /\ a.kind \in {"move", "erase", "expunge"}
  BY <1>1 DEF Follows, a
<1>4. CASE a.id \in Ids /\ a.id[1] # a.box
  <2>1. Displaced(a)
    BY <1>4, Bounds DEF Displaced
  <2> QED BY <1>1, <2>1 DEF a
<1>5. ASSUME a.id \in Ids => a.id[1] = a.box
      PROVE  \/ a.of = (IF srv.mail[b][u] = None THEN srv'.mail[b][u] ELSE srv.mail[b][u]).of
             \/ /\ srv.mail[b][u] # None /\ srv.mail[b][u].deleted
                /\ a.kind \in {"move", "erase", "expunge"}
  <2>1. a.id \in Ids /\ srv.mail[a.box][a.id[2]] # None => srv.mail[a.box][a.id[2]].of = a.of
    BY <1>2, <1>5 DEF Origin
  <2> QED BY <1>3, <2>1
<1> QED BY <1>1, <1>4, <1>5 DEF a

LEMMA IdsInit ==
  ASSUME Init
  PROVE  IdsOK
<1>1. TInv
  BY TypeInit
<1>2. ASSUME NEW b \in Boxes, NEW i \in Ids, local[b][i] # None
      PROVE  Origin(srv, i, local[b][i].of)
  <2>1. local[b][i] = IF i[1] = b THEN InitialMail[b][i[2]] ELSE None
    BY DEF Init
  <2>2. local[b][i] = srv.mail[i[1]][i[2]] /\ i[1] \in Boxes /\ i[2] \in Uids
    BY <1>2, <2>1 DEF Init, Ids
  <2> QED BY <1>1, <1>2, <2>2 DEF TInv, StoreOK, Below, Origin
<1>3. pc = [w \in Windows |-> "idle"] /\ Len(queued) = 0 /\ Main \in Windows
  BY Bounds DEF Init
<1> QED BY <1>2, <1>3 DEF IdsOK, LocalIds, TaskIds, QueuedIds, PulledIds

(* A replayed action changes no message on the server but the one the user *)
(* selected, and what EXPUNGE takes with it; what it adds is a copy of     *)
(* that message.  The exception is an action on a record that had been     *)
(* moved or copied to its mailbox, whose UID is of another one.            *)
THEOREM ActionsOnTheirMessage == Spec => OnItsMessage
<1>1. Init => TInv /\ IdsOK
  BY TypeInit, IdsInit
<1>2. TInv /\ IdsOK /\ [Next]_vars => TInv' /\ IdsOK'
  BY TypeStep, LocalIdsStep, TaskIdsStep, QueuedIdsStep, PulledIdsStep DEF IdsOK
<1>3. TInv /\ IdsOK /\ [Next]_vars => [OnItsOwn]_vars
  BY OwnStep
<1> QED BY <1>1, <1>2, <1>3, PTL DEF Spec, OnItsMessage, OnItsOwn

-----------------------------------------------------------------------------
(* No action is executed twice, or after it was cancelled *)

(* The pass of window v has action a listed and has not settled it. *)
Engaged(v, a) == pc[v] \in InPass /\ (a \in todo[v] \/ a = cur[v])

At(v, step, a) == pc[v] = step /\ cur[v] = a

(* Unless it is known to be unsure, an action is in one pass at most; once *)
(* it is done that pass is about to remove it, or it is removed, or its    *)
(* file is empty and no window is about to write it again.                 *)
OnceOK(a) == a \notin unsure =>
  /\ \A v, w \in Windows : Engaged(v, a) /\ Engaged(w, a) => v = w
  /\ a \in done => \A v \in Windows : Engaged(v, a) => At(v, "ok", a)
  /\ a \in done => \/ journal[a] = "absent"
                   \/ \E v \in Windows : At(v, "ok", a)
                   \/ journal[a] = "void" /\ \A v \in Windows : ~At(v, "edit", a)

(* What the journal calls cancelled, the user has cancelled; and what he   *)
(* cancelled in time is neither waiting nor in a pass.                     *)
DroppedOK(a) ==
  /\ journal[a] = "cancelled" => a \in dropped
  /\ a \in dropped \ overrun => journal[a] # "waiting" /\ \A v \in Windows : ~Engaged(v, a)

(* Another window than the one that steps stays where it is. *)
Still(w) == \A v \in Windows \ {w} : pc'[v] = pc[v] /\ todo'[v] = todo[v] /\ cur'[v] = cur[v]

LEMMA OthersStill ==
  ASSUME ControlOK, NEW w \in Windows,
         \/ StartPass(w) \/ MarkRunning(w) \/ Succeed(w) \/ Remove(w) \/ Keep(w) \/ EndPass(w)
         \/ SaveSeen(w) \/ StoreNext(w) \/ EndSync(w) \/ SaveEdit(w) \/ Refused(w) \/ BreakOff(w)
         \/ \E b \in Synced, full \in BOOLEAN : Synchronise(w, b, full)
         \/ \E a \in 1..Len(queued), state \in {"waiting", "cancelled"} : ReadAction(w, a, state)
         \/ w = Main /\ (QueueNext \/ QueueFails \/ EraseSource \/ Journal)
  PROVE  Still(w)
<1>1. \/ UNCHANGED pc
      \/ \E step \in {"idle", "next", "run", "ok", "failed", "state", "store", "edit", "erase",
                      "journal"} : Goto(w, step)
  BY DEF StartPass, MarkRunning, Succeed, Remove, Keep, EndPass, SaveSeen, StoreNext, EndSync,
     SaveEdit, Refused, BreakOff, Synchronise, ReadAction, QueueNext, QueueMove, QueueCopy,
     QueueDelete, QueueUndelete, QueueFetch, QueueExpunge, QueueFails, EraseSource, Journal
<1>2. UNCHANGED todo \/ \E t : todo' = [todo EXCEPT ![w] = t]
  <2>1. MarkRunning(w) => todo' = [todo EXCEPT ![w] = todo[w] \ {Least(todo[w])}]
    BY DEF MarkRunning
  <2> QED BY ZenonT(60), <2>1 DEF StartPass, Succeed, Remove, Keep, EndPass, SaveSeen, StoreNext, EndSync,
     SaveEdit, Refused, BreakOff, Synchronise, ReadAction, QueueNext, QueueMove, QueueCopy,
     QueueDelete, QueueUndelete, QueueFetch, QueueExpunge, QueueFails, EraseSource, Journal,
     Unqueued, thread
<1>3. UNCHANGED cur \/ \E c : cur' = [cur EXCEPT ![w] = c]
  BY ZenonT(60) DEF StartPass, MarkRunning, Succeed, Remove, Keep, EndPass, SaveSeen, StoreNext, EndSync,
     SaveEdit, Refused, BreakOff, Synchronise, ReadAction, QueueNext, QueueMove, QueueCopy,
     QueueDelete, QueueUndelete, QueueFetch, QueueExpunge, QueueFails, EraseSource, Journal,
     Unqueued, thread
<1> QED BY <1>1, <1>2, <1>3 DEF Still, Goto, ControlOK

LEMMA OnceFrame ==
  ASSUME ControlOK, NEW w \in Windows, Still(w), NEW a, OnceOK(a), unsure \subseteq unsure',
         a \in done' => a \in done,
         Engaged(w, a)' => Engaged(w, a) /\ (At(w, "ok", a) => At(w, "ok", a)'),
         At(w, "ok", a) => At(w, "ok", a)' \/ journal'[a] = "absent" \/ a \in unsure',
         At(w, "edit", a)' => At(w, "edit", a) \/ journal[a] # "void",
         \/ journal'[a] = journal[a] \/ journal'[a] = "absent"
         \/ a \notin done
         \/ journal[a] # "absent" /\ At(w, "edit", a)
  PROVE  OnceOK(a)'
<1> SUFFICES ASSUME a \notin unsure' PROVE OnceOK(a)'
  BY DEF OnceOK
<1>0. a \notin unsure
  OBVIOUS
<1>1. ASSUME NEW v \in Windows, Engaged(v, a)'
      PROVE  Engaged(v, a) /\ (At(v, "ok", a) => At(v, "ok", a)')
  <2>1. CASE v = w
    BY <1>1, <2>1
  <2>2. CASE v # w
    BY <1>1, <2>2 DEF Still, Engaged, At
  <2> QED BY <2>1, <2>2
<1>2. \A v, x \in Windows : Engaged(v, a)' /\ Engaged(x, a)' => v = x
  BY <1>0, <1>1 DEF OnceOK
<1>3. a \in done' => \A v \in Windows : Engaged(v, a)' => At(v, "ok", a)'
  BY <1>0, <1>1 DEF OnceOK
<1>4. ASSUME a \in done', journal'[a] # "absent", ~ \E v \in Windows : At(v, "ok", a)'
      PROVE  journal'[a] = "void" /\ \A v \in Windows : ~At(v, "edit", a)'
  <2>1. ~ \E v \in Windows : At(v, "ok", a)
    <3>1. ASSUME NEW v \in Windows, At(v, "ok", a) PROVE FALSE
      <4>1. CASE v = w
        BY <1>4, <3>1, <4>1
      <4>2. CASE v # w
        BY <1>4, <3>1, <4>2 DEF Still, At
      <4> QED BY <4>1, <4>2
    <3> QED BY <3>1
  <2>2. a \in done /\ (journal[a] = "absent"
                        \/ (journal[a] = "void" /\ \A v \in Windows : ~At(v, "edit", a)))
    BY <1>0, <1>4, <2>1 DEF OnceOK
  <2>3. journal'[a] = journal[a]
    BY <1>4, <2>2
  <2>4. journal[a] = "void" /\ \A v \in Windows : ~At(v, "edit", a)
    BY <1>4, <2>2, <2>3
  <2>5. ASSUME NEW v \in Windows, At(v, "edit", a)' PROVE FALSE
    <3>1. CASE v = w
      BY <2>4, <2>5, <3>1
    <3>2. CASE v # w
      BY <2>4, <2>5, <3>2 DEF Still, At
    <3> QED BY <3>1, <3>2
  <2> QED BY <2>3, <2>4, <2>5
<1> QED BY <1>2, <1>3, <1>4 DEF OnceOK

(* A step of window w that saves nothing: what it has listed does not grow. *)
LEMMA QuietStep ==
  ASSUME ControlOK, NEW w \in Windows, NEW a,
         \/ EndPass(w) \/ SaveSeen(w) \/ StoreNext(w) \/ EndSync(w) \/ Refused(w)
         \/ \E b \in Synced, full \in BOOLEAN : Synchronise(w, b, full)
  PROVE  /\ Still(w) /\ UNCHANGED <<journal, done, unsure, dropped, overrun, late, twice>>
         /\ Engaged(w, a)' => Engaged(w, a)
         /\ ~At(w, "ok", a) /\ ~At(w, "edit", a)'
<1>1. UNCHANGED <<journal, done, unsure, dropped, overrun, late, twice, cur>>
  BY DEF EndPass, SaveSeen, StoreNext, EndSync, Refused, Synchronise, files, thread, history
<1>2. \/ pc[w] = "store" /\ UNCHANGED <<pc, todo>>
      \/ pc[w] = "run" /\ Goto(w, "failed") /\ UNCHANGED todo
      \/ pc[w] \in {"next", "state", "store"} /\ (Goto(w, "idle") \/ Goto(w, "state") \/ Goto(w, "store"))
  BY DEF EndPass, SaveSeen, StoreNext, EndSync, Refused, Synchronise, thread
<1>3. Still(w)
  BY OthersStill
<1>4. \/ pc[w] = "store" /\ pc'[w] = "store"
      \/ pc[w] = "run" /\ pc'[w] = "failed" /\ UNCHANGED todo
      \/ pc[w] \in {"next", "state", "store"} /\ pc'[w] \in {"idle", "state", "store"}
  BY <1>2, GotoEffect
<1> QED BY <1>1, <1>3, <1>4 DEF Engaged, At, InPass

(* The next action of a pass. *)
LEMMA RunStep ==
  ASSUME ControlOK, NEW w \in Windows, NEW a \in Actions, MarkRunning(w)
  PROVE  /\ Still(w) /\ UNCHANGED <<done, unsure, dropped, overrun, late, twice>>
         /\ Engaged(w, a)' => Engaged(w, a)
         /\ ~At(w, "ok", a) /\ ~At(w, "edit", a)'
         /\ \/ journal'[a] = journal[a]
            \/ Engaged(w, a) /\ journal'[a] \in {"waiting", "void"}
<1> DEFINE c == Least(todo[w])
<1>1. c \in todo[w] /\ c \in Actions
  BY NextTodo DEF MarkRunning
<1>2. /\ pc[w] = "next" /\ Save(c, "waiting") /\ Goto(w, "run")
      /\ cur' = [cur EXCEPT ![w] = c] /\ todo' = [todo EXCEPT ![w] = @ \ {c}]
      /\ UNCHANGED <<done, unsure, dropped, overrun, late, twice>>
  BY DEF MarkRunning
<1> HIDE DEF c
<1>3. pc'[w] = "run" /\ cur'[w] = c /\ todo'[w] = todo[w] \ {c}
  BY <1>2, GotoEffect DEF ControlOK
<1>4. /\ \A b \in Actions \ {c} : journal'[b] = journal[b]
      /\ journal'[c] \in {"waiting", journal[c], "void"}
  BY <1>1, <1>2, SaveEffect
<1>5. Still(w)
  BY OthersStill
<1> QED BY <1>1, <1>2, <1>3, <1>4, <1>5 DEF Engaged, At, InPass

LEMMA KeepStep ==
  ASSUME ControlOK, NEW w \in Windows, NEW a \in Actions, Keep(w)
  PROVE  /\ Still(w) /\ UNCHANGED <<done, unsure, dropped, overrun, late, twice>>
         /\ Engaged(w, a)' => Engaged(w, a)
         /\ ~At(w, "ok", a) /\ ~At(w, "edit", a)'
         /\ \/ journal'[a] = journal[a]
            \/ Engaged(w, a) /\ journal'[a] \in {"waiting", "void"}
<1>1. cur[w] \in Actions /\ pc[w] = "failed"
  BY CurType DEF Keep, AtAction
<1>2. /\ Save(cur[w], "waiting") /\ Goto(w, "next") /\ cur' = [cur EXCEPT ![w] = 0]
      /\ UNCHANGED <<todo, done, unsure, dropped, overrun, late, twice>>
  BY DEF Keep
<1>3. pc'[w] = "next" /\ cur'[w] = 0
  BY <1>2, GotoEffect DEF ControlOK
<1>4. /\ \A b \in Actions \ {cur[w]} : journal'[b] = journal[b]
      /\ journal'[cur[w]] \in {"waiting", journal[cur[w]], "void"}
  BY <1>1, <1>2, SaveEffect
<1>5. Still(w) /\ a # 0
  BY OthersStill, Bounds DEF Actions
<1> QED BY <1>1, <1>2, <1>3, <1>4, <1>5 DEF Engaged, At, InPass

LEMMA RemoveStep ==
  ASSUME ControlOK, NEW w \in Windows, NEW a \in Actions, Remove(w)
  PROVE  /\ Still(w) /\ UNCHANGED <<done, dropped, overrun, late, twice>>
         /\ unsure \subseteq unsure'
         /\ Engaged(w, a)' => Engaged(w, a) /\ ~At(w, "ok", a)
         /\ At(w, "ok", a) => journal'[a] = "absent" \/ a \in unsure'
         /\ ~At(w, "edit", a)'
         /\ journal'[a] = journal[a] \/ journal'[a] = "absent"
<1>1. cur[w] \in Actions /\ pc[w] = "ok"
  BY CurType DEF Remove, AtAction
<1>2. /\ Goto(w, "next") /\ cur' = [cur EXCEPT ![w] = 0]
      /\ UNCHANGED <<todo, done, dropped, overrun, late, twice>>
      /\ \/ journal' = [journal EXCEPT ![cur[w]] = "absent"] /\ UNCHANGED unsure
         \/ unsure' = unsure \cup {cur[w]} /\ UNCHANGED journal
  BY DEF Remove
<1>3. pc'[w] = "next" /\ cur'[w] = 0
  BY <1>2, GotoEffect DEF ControlOK
<1>4. cur[w] \notin todo[w]
  BY DEF ControlOK, WindowOK
<1>5. Still(w) /\ a # 0
  BY OthersStill, Bounds DEF Actions
<1>6. /\ journal'[a] = journal[a] \/ journal'[a] = "absent"
      /\ a = cur[w] => journal'[a] = "absent" \/ a \in unsure'
  BY <1>1, <1>2 DEF ControlOK
<1> QED BY <1>1, <1>2, <1>3, <1>4, <1>5, <1>6 DEF Engaged, At, InPass

LEMMA ReadStep ==
  ASSUME ControlOK, NEW w \in Windows, NEW a \in Actions, NEW b \in 1..Len(queued),
         NEW state \in {"waiting", "cancelled"}, ReadAction(w, b, state)
  PROVE  /\ Still(w) /\ UNCHANGED <<journal, done, unsure, dropped, overrun, late, twice>>
         /\ ~Engaged(w, a)' /\ ~At(w, "ok", a)
         /\ At(w, "edit", a)' => journal[a] # "void"
<1>1. /\ pc[w] = "idle" /\ Goto(w, "edit") /\ cur' = [cur EXCEPT ![w] = b]
      /\ journal[b] \in {"waiting", "cancelled"}
      /\ UNCHANGED <<todo, journal, done, unsure, dropped, overrun, late, twice>>
  BY DEF ReadAction, files, history
<1>2. pc'[w] = "edit" /\ cur'[w] = b
  BY <1>1, GotoEffect DEF ControlOK
<1>3. Still(w)
  BY OthersStill
<1> QED BY <1>1, <1>2, <1>3 DEF Engaged, At, InPass

LEMMA EditStep ==
  ASSUME ControlOK, NEW w \in Windows, NEW a \in Actions, SaveEdit(w)
  PROVE  /\ Still(w) /\ UNCHANGED <<done, late, twice>>
         /\ unsure \subseteq unsure' /\ overrun \subseteq overrun'
         /\ ~Engaged(w, a)' /\ ~Engaged(w, a) /\ ~At(w, "ok", a) /\ ~At(w, "edit", a)'
         /\ ~At(w, "edit", a) => journal'[a] = journal[a] /\ (a \in dropped' <=> a \in dropped)
         /\ At(w, "edit", a) =>
              /\ journal'[a] \in {edit[w], journal[a], "void"}
              /\ edit[w] \in {"waiting", "cancelled"}
              /\ journal[a] = "absent" => a \in unsure'
              /\ journal'[a] = "cancelled" => a \in dropped'
              /\ journal'[a] # "cancelled" /\ edit[w] = "waiting" => a \notin dropped'
              /\ journal'[a] # "cancelled" /\ edit[w] = "cancelled" => (a \in dropped' <=> a \in dropped)
              /\ edit[w] = "cancelled" /\ a \in Held(w) => a \in overrun'
<1>1. /\ cur[w] \in Actions /\ pc[w] = "edit" /\ edit[w] \in {"waiting", "cancelled"}
      /\ todo[w] = {}
  BY CurType DEF SaveEdit, AtAction, InPass, ControlOK, WindowOK
<1>2. /\ Save(cur[w], edit[w]) /\ Goto(w, "idle") /\ cur' = [cur EXCEPT ![w] = 0]
      /\ UNCHANGED <<todo, done, late, twice>>
  BY DEF SaveEdit
<1>3. /\ dropped' = IF journal'[cur[w]] = "cancelled" THEN dropped \cup {cur[w]}
                    ELSE IF edit[w] = "waiting" THEN dropped \ {cur[w]} ELSE dropped
      /\ overrun' = IF edit[w] = "cancelled" THEN overrun \cup ({cur[w]} \cap Held(w)) ELSE overrun
      /\ unsure' = IF journal[cur[w]] = "absent" THEN unsure \cup {cur[w]} ELSE unsure
  BY DEF SaveEdit
<1>4. pc'[w] = "idle" /\ cur'[w] = 0
  BY <1>2, GotoEffect DEF ControlOK
<1>5. /\ \A b \in Actions \ {cur[w]} : journal'[b] = journal[b]
      /\ journal'[cur[w]] \in {edit[w], journal[cur[w]], "void"}
  BY <1>1, <1>2, SaveEffect
<1>6. Still(w)
  BY OthersStill
<1>7. /\ ~Engaged(w, a)' /\ ~Engaged(w, a) /\ ~At(w, "ok", a) /\ ~At(w, "edit", a)'
      /\ At(w, "edit", a) <=> a = cur[w]
  BY <1>1, <1>4 DEF Engaged, At, InPass
<1>8. unsure \subseteq unsure' /\ overrun \subseteq overrun'
  BY <1>3
<1>9. CASE a = cur[w]
  <2>1. /\ journal[a] = "absent" => a \in unsure'
        /\ edit[w] = "cancelled" /\ a \in Held(w) => a \in overrun'
    BY <1>3, <1>9
  <2>2. /\ journal'[a] = "cancelled" => a \in dropped'
        /\ journal'[a] # "cancelled" /\ edit[w] = "waiting" => a \notin dropped'
        /\ journal'[a] # "cancelled" /\ edit[w] = "cancelled" => (a \in dropped' <=> a \in dropped)
    BY <1>3, <1>9
  <2> QED BY <1>1, <1>2, <1>5, <1>6, <1>7, <1>8, <1>9, <2>1, <2>2
<1>10. CASE a # cur[w]
  BY <1>1, <1>2, <1>3, <1>5, <1>6, <1>7, <1>8, <1>10
<1> QED BY <1>9, <1>10

LEMMA StartStep ==
  ASSUME ControlOK, NEW w \in Windows, NEW a \in Actions, StartPass(w)
  PROVE  /\ Still(w) /\ UNCHANGED <<journal, done, dropped, overrun, late, twice>>
         /\ unsure \subseteq unsure'
         /\ Engaged(w, a)' => journal[a] = "waiting" /\ (a \in Held(w) => a \in unsure')
         /\ ~Engaged(w, a) /\ ~At(w, "ok", a) /\ ~At(w, "edit", a)'
<1>1. /\ pc[w] = "idle" /\ Goto(w, "next") /\ todo' = [todo EXCEPT ![w] = Listed]
      /\ unsure' = unsure \cup (Listed \cap Held(w))
      /\ UNCHANGED <<cur, journal, done, dropped, overrun, late, twice>>
  BY DEF StartPass, files
<1>2. pc'[w] = "next" /\ todo'[w] = Listed
  BY <1>1, GotoEffect DEF ControlOK
<1>3. cur[w] = 0 /\ a # 0
  <2>1. WindowOK(w) /\ pc[w] = "idle"
    BY <1>1 DEF ControlOK
  <2>2. cur[w] = 0
    BY <2>1 DEF WindowOK, AtAction
  <2> QED BY <2>2, Bounds DEF Actions
<1>4. Still(w)
  BY OthersStill
<1> QED BY <1>1, <1>2, <1>3, <1>4 DEF Engaged, At, InPass, Listed

LEMMA HeldEngaged ==
  ASSUME NEW w \in Windows, NEW v \in Windows \ {w}, NEW a, Engaged(v, a)
  PROVE  a \in Held(w)
BY DEF Engaged, InPass, Held

(* The server begins to execute the action of w. *)
LEMMA ExecuteStep ==
  ASSUME ControlOK, NEW w \in Windows, NEW a \in Actions, Succeed(w) \/ BreakOff(w)
  PROVE  /\ Still(w) /\ UNCHANGED <<journal, dropped, overrun>> /\ unsure \subseteq unsure'
         /\ Engaged(w, a)' => Engaged(w, a)
         /\ ~At(w, "ok", a) /\ ~At(w, "edit", a)'
         /\ At(w, "run", a) => At(w, "ok", a)' \/ a \in unsure'
         /\ a \in done' => a \in done \/ At(w, "run", a)
         /\ a \in twice' => a \in twice \/ (At(w, "run", a) /\ a \in done)
         /\ a \in late' => a \in late \/ (At(w, "run", a) /\ a \in dropped)
<1>1. /\ pc[w] = "run" /\ UNCHANGED <<todo, cur, journal, dropped, overrun>>
      /\ Record(w, queued[cur[w]])
      /\ \/ Goto(w, "ok") /\ UNCHANGED unsure
         \/ Goto(w, "failed") /\ unsure' = unsure \cup {cur[w]}
  BY DEF Succeed, BreakOff, files, thread
<1>2. \/ pc'[w] = "ok" /\ UNCHANGED unsure
      \/ pc'[w] = "failed" /\ unsure' = unsure \cup {cur[w]}
  BY <1>1, GotoEffect
<1>3. Still(w)
  BY OthersStill
<1> QED BY <1>1, <1>2, <1>3 DEF Engaged, At, InPass, Record

(* The main window queues. *)
LEMMA QueueStep ==
  ASSUME ControlOK, NEW a \in Actions, QueueNext \/ QueueFails \/ EraseSource \/ Journal
  PROVE  /\ Main \in Windows /\ Still(Main) /\ UNCHANGED <<done, unsure, dropped, overrun, late, twice>>
         /\ ~Engaged(Main, a)' /\ ~At(Main, "ok", a) /\ ~At(Main, "edit", a)'
         /\ \/ journal'[a] = journal[a]
            \/ journal'[a] \in {"waiting", "void"} /\ a \notin done /\ a \notin dropped
               /\ \A v \in Windows : ~Engaged(v, a)
<1>0. Main \in Windows
  BY Bounds
<1>1. Still(Main)
  BY <1>0, OthersStill
<1>2. pc'[Main] \in {"idle", "erase", "journal"} /\ pc[Main] \in {"idle", "erase", "journal"}
  <2>1. /\ pc[Main] \in {"idle", "erase", "journal"}
        /\ UNCHANGED pc \/ \E step \in {"idle", "erase", "journal"} : Goto(Main, step)
    BY DEF QueueNext, QueueMove, QueueCopy, QueueDelete, QueueUndelete, QueueFetch, QueueExpunge,
       QueueFails, EraseSource, Journal, Selected
  <2> QED BY <1>0, <2>1 DEF Goto, ControlOK
<1>3. CASE Journal
  <2>1. /\ UNCHANGED <<done, unsure, dropped, overrun, late, twice>>
        /\ \/ journal' = [journal EXCEPT ![Len(queued) + 1] = "waiting"]
           \/ journal' = [journal EXCEPT ![Len(queued) + 1] = "void"]
    BY <1>3 DEF Journal
  <2>2. CASE a # Len(queued) + 1
    BY <1>0, <1>1, <1>2, <2>1, <2>2 DEF ControlOK, Engaged, At, InPass
  <2>3. CASE a = Len(queued) + 1
    <3>0. Len(queued) \in Nat
      BY DEF ControlOK
    <3>1. a \notin done /\ a \notin dropped /\ a \notin 0..Len(queued)
      BY <2>3, <3>0 DEF ControlOK
    <3>2. \A v \in Windows : a \notin todo[v] /\ a # cur[v]
      <4>1. \A v \in Windows : todo[v] \subseteq 0..Len(queued) /\ cur[v] \in 0..Len(queued)
        BY <3>0 DEF ControlOK
      <4> QED BY <3>1, <4>1
    <3>3. journal'[a] \in {"waiting", "void"}
      BY <2>1, <2>3 DEF ControlOK
    <3> QED BY <1>0, <1>1, <1>2, <2>1, <3>1, <3>2, <3>3 DEF Engaged, At, InPass
  <2> QED BY <2>2, <2>3
<1>4. CASE QueueNext \/ QueueFails \/ EraseSource
  <2>1. Unqueued
    BY <1>4 DEF QueueNext, QueueMove, QueueCopy, QueueDelete, QueueUndelete, QueueFetch, QueueExpunge,
       QueueFails, EraseSource
  <2> QED BY <1>0, <1>1, <1>2, <2>1 DEF Engaged, At, InPass, Unqueued, history
<1> QED BY <1>3, <1>4

LEMMA CrashStep ==
  ASSUME ControlOK, NEW a \in Actions, Crash
  PROVE  /\ UNCHANGED <<done, dropped, overrun, late, twice>> /\ unsure \subseteq unsure'
         /\ \A v \in Windows : ~Engaged(v, a)' /\ ~At(v, "edit", a)'
         /\ \A v \in Windows : At(v, "ok", a) => a \in unsure'
         /\ journal'[a] \in {journal[a], "void"}
BY DEF Crash, ControlOK, Engaged, At, InPass

LEMMA OnceStep ==
  ASSUME ControlOK, [Next]_vars, NEW a \in Actions, OnceOK(a)
  PROVE  OnceOK(a)'
<1> SUFFICES ASSUME a \notin unsure' PROVE OnceOK(a)'
  BY DEF OnceOK
<1>1. ASSUME NEW w \in Windows,
             \/ EndPass(w) \/ SaveSeen(w) \/ StoreNext(w) \/ EndSync(w) \/ Refused(w)
             \/ \E b \in Synced, full \in BOOLEAN : Synchronise(w, b, full)
      PROVE  OnceOK(a)'
  BY <1>1, QuietStep, OnceFrame
<1>2. ASSUME NEW w \in Windows, MarkRunning(w) \/ Keep(w) PROVE OnceOK(a)'
  <2>1. /\ Still(w) /\ UNCHANGED <<done, unsure>> /\ (Engaged(w, a)' => Engaged(w, a))
        /\ ~At(w, "ok", a) /\ ~At(w, "edit", a)'
        /\ journal'[a] = journal[a] \/ Engaged(w, a)
    BY <1>2, RunStep, KeepStep
  <2>2. Engaged(w, a) => a \notin done
    BY <2>1 DEF OnceOK
  <2> QED BY <2>1, <2>2, OnceFrame
<1>3. ASSUME NEW w \in Windows, Remove(w) PROVE OnceOK(a)'
  BY <1>3, RemoveStep, OnceFrame
<1>4. ASSUME NEW w \in Windows, NEW b \in 1..Len(queued), NEW state \in {"waiting", "cancelled"},
             ReadAction(w, b, state)
      PROVE  OnceOK(a)'
  BY <1>4, ReadStep, OnceFrame
<1>5. ASSUME NEW w \in Windows, SaveEdit(w) PROVE OnceOK(a)'
  <2>1. /\ Still(w) /\ UNCHANGED done /\ unsure \subseteq unsure' /\ ~Engaged(w, a)'
        /\ ~At(w, "ok", a) /\ ~At(w, "edit", a)'
        /\ ~At(w, "edit", a) => journal'[a] = journal[a]
        /\ At(w, "edit", a) /\ journal[a] = "absent" => a \in unsure'
    BY <1>5, EditStep
  <2> QED BY <2>1, OnceFrame
<1>6. CASE QueueNext \/ QueueFails \/ EraseSource \/ Journal
  BY <1>6, QueueStep, OnceFrame
<1>7. ASSUME NEW w \in Windows, StartPass(w) PROVE OnceOK(a)'
  <2>1. /\ Still(w) /\ UNCHANGED <<journal, done>> /\ unsure \subseteq unsure'
        /\ Engaged(w, a)' => journal[a] = "waiting" /\ (a \in Held(w) => a \in unsure')
        /\ ~Engaged(w, a) /\ ~At(w, "ok", a) /\ ~At(w, "edit", a)'
    BY <1>7, StartStep
  <2>2. CASE ~Engaged(w, a)'
    BY <2>1, <2>2, OnceFrame
  <2>3. CASE Engaged(w, a)'
    <3>1. ASSUME NEW v \in Windows \ {w} PROVE ~Engaged(v, a)
      BY <2>1, <2>3, HeldEngaged
    <3>2. \A v \in Windows : ~At(v, "ok", a)
      <4>1. \A v \in Windows : At(v, "ok", a) => Engaged(v, a)
        BY DEF At, Engaged, InPass
      <4> QED BY <2>1, <3>1, <4>1
    <3>3. a \notin unsure /\ a \notin done
      BY <2>1, <2>3, <3>2 DEF OnceOK
    <3>4. \A v \in Windows \ {w} : ~Engaged(v, a)'
      BY <2>1, <3>1 DEF Still, Engaged
    <3> QED BY <2>1, <3>3, <3>4 DEF OnceOK
  <2> QED BY <2>2, <2>3
<1>8. ASSUME NEW w \in Windows, Succeed(w) \/ BreakOff(w) PROVE OnceOK(a)'
  <2>1. /\ Still(w) /\ UNCHANGED journal /\ unsure \subseteq unsure'
        /\ Engaged(w, a)' => Engaged(w, a)
        /\ ~At(w, "ok", a) /\ ~At(w, "edit", a)'
        /\ At(w, "run", a) => At(w, "ok", a)' \/ a \in unsure'
        /\ a \in done' => a \in done \/ At(w, "run", a)
    BY <1>8, ExecuteStep
  <2>2. CASE ~At(w, "run", a)
    BY <2>1, <2>2, OnceFrame
  <2>3. CASE At(w, "run", a)
    <3>1. Engaged(w, a) /\ a \notin unsure
      BY <2>1, <2>3 DEF At, Engaged, InPass
    <3>2. \A v \in Windows \ {w} : ~Engaged(v, a)'
      BY <2>1, <3>1 DEF OnceOK, Still, Engaged
    <3>3. At(w, "ok", a)'
      BY <2>1, <2>3
    <3> QED BY <3>2, <3>3 DEF OnceOK
  <2> QED BY <2>2, <2>3
<1>9. CASE Crash
  <2>1. a \notin unsure /\ \A v \in Windows : ~At(v, "ok", a)
    BY <1>9, CrashStep
  <2>2. /\ a \in done' <=> a \in done
        /\ \A v \in Windows : ~Engaged(v, a)' /\ ~At(v, "edit", a)'
        /\ journal'[a] \in {journal[a], "void"}
    BY <1>9, CrashStep
  <2>3. a \in done => journal[a] \in {"absent", "void"}
    BY <2>1 DEF OnceOK
  <2> QED BY <2>2, <2>3 DEF OnceOK
<1>10. CASE UNCHANGED vars
  BY <1>10 DEF vars, files, thread, history, OnceOK, Engaged, At
<1> QED BY <1>1, <1>2, <1>3, <1>4, <1>5, <1>6, <1>7, <1>8, <1>9, <1>10 DEF Next, Advance

LEMMA TwiceStep ==
  ASSUME ControlOK, [Next]_vars, NEW a \in Actions, OnceOK(a), a \in twice => a \in unsure
  PROVE  a \in twice' => a \in unsure'
<1>1. ASSUME NEW w \in Windows, Succeed(w) \/ BreakOff(w) PROVE a \in twice' => a \in unsure'
  <2>1. /\ unsure \subseteq unsure'
        /\ a \in twice' => a \in twice \/ (At(w, "run", a) /\ a \in done)
    BY <1>1, ExecuteStep
  <2>2. At(w, "run", a) => Engaged(w, a) /\ ~At(w, "ok", a)
    BY DEF At, Engaged, InPass
  <2>3. At(w, "run", a) /\ a \in done => a \in unsure
    BY <2>2 DEF OnceOK
  <2> QED BY <2>1, <2>3
<1>2. ASSUME NEW w \in Windows,
             \/ EndPass(w) \/ SaveSeen(w) \/ StoreNext(w) \/ EndSync(w) \/ Refused(w)
             \/ \E b \in Synced, full \in BOOLEAN : Synchronise(w, b, full)
             \/ MarkRunning(w) \/ Keep(w) \/ Remove(w) \/ SaveEdit(w) \/ StartPass(w)
             \/ \E b \in 1..Len(queued), state \in {"waiting", "cancelled"} : ReadAction(w, b, state)
      PROVE  UNCHANGED twice /\ unsure \subseteq unsure'
  BY <1>2, QuietStep, RunStep, KeepStep, RemoveStep, EditStep, StartStep, ReadStep
<1>3. CASE QueueNext \/ QueueFails \/ EraseSource \/ Journal \/ Crash
  BY <1>3, QueueStep, CrashStep
<1>4. CASE UNCHANGED vars
  BY <1>4 DEF vars, history
<1> QED BY <1>1, <1>2, <1>3, <1>4 DEF Next, Advance

EInv == TInv /\ (\A a \in Actions : OnceOK(a)) /\ ExecutedOnce

(* The server begins to execute an action a second time only if an answer  *)
(* or the removal of the action failed, the process died between the two,  *)
(* another pass had the action listed, or Retry or Cancel saved what had   *)
(* been removed: with any number of windows, nothing else does it.         *)
THEOREM NoneExecutedTwice == Spec => []ExecutedOnce
<1>1. Init => EInv
  BY TypeInit DEF Init, EInv, OnceOK, Engaged, InPass, ExecutedOnce
<1>2. EInv /\ [Next]_vars => EInv'
  <2>1. ASSUME EInv, [Next]_vars PROVE EInv'
    <3>1. ControlOK /\ TInv'
      BY <2>1, TypeStep DEF EInv, TInv
    <3>2. ASSUME NEW a \in Actions PROVE OnceOK(a)'
      BY <2>1, <3>1, OnceStep DEF EInv
    <3>3. ASSUME NEW a \in Actions PROVE a \in twice' => a \in unsure'
      BY <2>1, <3>1, TwiceStep DEF EInv, ExecutedOnce
    <3>4. twice' \subseteq Actions
      BY <3>1 DEF TInv, ControlOK
    <3> QED BY <3>1, <3>2, <3>3, <3>4 DEF EInv, ExecutedOnce
  <2> QED BY <2>1
<1>3. EInv => ExecutedOnce
  BY DEF EInv
<1> QED BY <1>1, <1>2, <1>3, PTL DEF Spec

LEMMA DroppedFrame ==
  ASSUME ControlOK, NEW w \in Windows, Still(w), NEW a, DroppedOK(a), overrun \subseteq overrun',
         a \in dropped' <=> a \in dropped, Engaged(w, a)' => Engaged(w, a),
         \/ journal'[a] \in {journal[a], "absent", "void"}
         \/ journal'[a] = "waiting" /\ (Engaged(w, a) \/ a \notin dropped)
  PROVE  DroppedOK(a)'
<1>1. ASSUME NEW v \in Windows, Engaged(v, a)' PROVE Engaged(v, a)
  <2>1. CASE v = w
    BY <1>1, <2>1
  <2>2. CASE v # w
    BY <1>1, <2>2 DEF Still, Engaged
  <2> QED BY <2>1, <2>2
<1>2. journal'[a] = "cancelled" => a \in dropped'
  BY DEF DroppedOK
<1>3. ASSUME a \in dropped' \ overrun'
      PROVE  journal'[a] # "waiting" /\ \A v \in Windows : ~Engaged(v, a)'
  <2>1. a \in dropped /\ a \notin overrun
    BY <1>3
  <2>2. journal[a] # "waiting" /\ \A v \in Windows : ~Engaged(v, a)
    BY <2>1 DEF DroppedOK
  <2> QED BY <1>1, <2>1, <2>2
<1> QED BY <1>2, <1>3 DEF DroppedOK

LEMMA DroppedStep ==
  ASSUME ControlOK, [Next]_vars, NEW a \in Actions, DroppedOK(a)
  PROVE  DroppedOK(a)'
<1>1. ASSUME NEW w \in Windows,
             \/ EndPass(w) \/ SaveSeen(w) \/ StoreNext(w) \/ EndSync(w) \/ Refused(w)
             \/ \E b \in Synced, full \in BOOLEAN : Synchronise(w, b, full)
      PROVE  DroppedOK(a)'
  <2>1. Still(w) /\ UNCHANGED <<journal, dropped, overrun>> /\ (Engaged(w, a)' => Engaged(w, a))
    BY <1>1, QuietStep
  <2> QED BY <2>1, DroppedFrame
<1>2. ASSUME NEW w \in Windows, MarkRunning(w) \/ Keep(w) PROVE DroppedOK(a)'
  <2>1. /\ Still(w) /\ UNCHANGED <<dropped, overrun>> /\ (Engaged(w, a)' => Engaged(w, a))
        /\ \/ journal'[a] = journal[a]
           \/ Engaged(w, a) /\ journal'[a] \in {"waiting", "void"}
    BY <1>2, RunStep, KeepStep
  <2> QED BY <2>1, DroppedFrame
<1>3. ASSUME NEW w \in Windows, Remove(w) PROVE DroppedOK(a)'
  <2>1. /\ Still(w) /\ UNCHANGED <<dropped, overrun>> /\ (Engaged(w, a)' => Engaged(w, a))
        /\ journal'[a] = journal[a] \/ journal'[a] = "absent"
    BY <1>3, RemoveStep
  <2> QED BY <2>1, DroppedFrame
<1>4. ASSUME NEW w \in Windows, NEW b \in 1..Len(queued), NEW state \in {"waiting", "cancelled"},
             ReadAction(w, b, state)
      PROVE  DroppedOK(a)'
  <2>1. Still(w) /\ UNCHANGED <<journal, dropped, overrun>> /\ ~Engaged(w, a)'
    BY <1>4, ReadStep
  <2> QED BY <2>1, DroppedFrame
<1>5. ASSUME NEW w \in Windows, SaveEdit(w) PROVE DroppedOK(a)'
  <2>1. /\ Still(w) /\ overrun \subseteq overrun' /\ ~Engaged(w, a)' /\ ~Engaged(w, a)
        /\ ~At(w, "edit", a) => journal'[a] = journal[a] /\ (a \in dropped' <=> a \in dropped)
    BY <1>5, EditStep
  <2>2. CASE ~At(w, "edit", a)
    BY <2>1, <2>2, DroppedFrame
  <2>3. CASE At(w, "edit", a)
    <3>1. /\ journal'[a] \in {edit[w], journal[a], "void"} /\ edit[w] \in {"waiting", "cancelled"}
          /\ journal'[a] = "cancelled" => a \in dropped'
          /\ journal'[a] # "cancelled" /\ edit[w] = "waiting" => a \notin dropped'
          /\ journal'[a] # "cancelled" /\ edit[w] = "cancelled" => (a \in dropped' <=> a \in dropped)
          /\ edit[w] = "cancelled" /\ a \in Held(w) => a \in overrun'
      BY <1>5, <2>3, EditStep
    <3>2. ASSUME a \in dropped', a \notin overrun'
          PROVE  journal'[a] # "waiting" /\ \A v \in Windows : ~Engaged(v, a)'
      <4>1. CASE edit[w] = "cancelled"
        <5>1. \A v \in Windows \ {w} : ~Engaged(v, a)
          BY <3>1, <3>2, <4>1, HeldEngaged
        <5>2. \A v \in Windows : ~Engaged(v, a)'
          BY <2>1, <5>1 DEF Still, Engaged
        <5>3. journal'[a] # "waiting"
          BY <2>1, <3>1, <3>2, <4>1 DEF DroppedOK
        <5> QED BY <5>2, <5>3
      <4>2. CASE edit[w] = "waiting"
        <5>1. journal'[a] = "cancelled" /\ journal[a] = "cancelled"
          BY <3>1, <3>2, <4>2
        <5>2. \A v \in Windows : ~Engaged(v, a)
          BY <2>1, <3>2, <5>1 DEF DroppedOK
        <5> QED BY <2>1, <5>1, <5>2 DEF Still, Engaged
      <4> QED BY <3>1, <4>1, <4>2
    <3> QED BY <3>1, <3>2 DEF DroppedOK
  <2> QED BY <2>2, <2>3
<1>6. CASE QueueNext \/ QueueFails \/ EraseSource \/ Journal
  <2>1. /\ Main \in Windows /\ Still(Main) /\ UNCHANGED <<dropped, overrun>> /\ ~Engaged(Main, a)'
        /\ journal'[a] = journal[a] \/ (journal'[a] \in {"waiting", "void"} /\ a \notin dropped)
    BY <1>6, QueueStep
  <2> QED BY <2>1, DroppedFrame
<1>7. ASSUME NEW w \in Windows, StartPass(w) PROVE DroppedOK(a)'
  <2>1. /\ Still(w) /\ UNCHANGED <<journal, dropped, overrun>>
        /\ (Engaged(w, a)' => journal[a] = "waiting")
    BY <1>7, StartStep
  <2>2. CASE Engaged(w, a)'
    BY <2>1, <2>2 DEF DroppedOK
  <2>3. CASE ~Engaged(w, a)'
    BY <2>1, <2>3, DroppedFrame
  <2> QED BY <2>2, <2>3
<1>8. ASSUME NEW w \in Windows, Succeed(w) \/ BreakOff(w) PROVE DroppedOK(a)'
  <2>1. Still(w) /\ UNCHANGED <<journal, dropped, overrun>> /\ (Engaged(w, a)' => Engaged(w, a))
    BY <1>8, ExecuteStep
  <2> QED BY <2>1, DroppedFrame
<1>9. CASE Crash
  <2>1. /\ UNCHANGED <<dropped, overrun>> /\ \A v \in Windows : ~Engaged(v, a)'
        /\ journal'[a] \in {journal[a], "void"}
    BY <1>9, CrashStep
  <2> QED BY <2>1 DEF DroppedOK
<1>10. CASE UNCHANGED vars
  BY <1>10 DEF vars, files, thread, history, DroppedOK, Engaged
<1> QED BY <1>1, <1>2, <1>3, <1>4, <1>5, <1>6, <1>7, <1>8, <1>9, <1>10 DEF Next, Advance

LEMMA LateStep ==
  ASSUME ControlOK, [Next]_vars, NEW a \in Actions, DroppedOK(a), a \in late => a \in overrun
  PROVE  a \in late' => a \in overrun'
<1>1. ASSUME NEW w \in Windows, Succeed(w) \/ BreakOff(w) PROVE a \in late' => a \in overrun'
  <2>1. /\ UNCHANGED overrun
        /\ a \in late' => a \in late \/ (At(w, "run", a) /\ a \in dropped)
    BY <1>1, ExecuteStep
  <2>2. At(w, "run", a) => Engaged(w, a)
    BY DEF At, Engaged, InPass
  <2> QED BY <2>1, <2>2 DEF DroppedOK
<1>2. ASSUME NEW w \in Windows,
             \/ EndPass(w) \/ SaveSeen(w) \/ StoreNext(w) \/ EndSync(w) \/ Refused(w)
             \/ \E b \in Synced, full \in BOOLEAN : Synchronise(w, b, full)
             \/ MarkRunning(w) \/ Keep(w) \/ Remove(w) \/ SaveEdit(w) \/ StartPass(w)
             \/ \E b \in 1..Len(queued), state \in {"waiting", "cancelled"} : ReadAction(w, b, state)
      PROVE  UNCHANGED late /\ overrun \subseteq overrun'
  BY <1>2, QuietStep, RunStep, KeepStep, RemoveStep, EditStep, StartStep, ReadStep
<1>3. CASE QueueNext \/ QueueFails \/ EraseSource \/ Journal \/ Crash
  BY <1>3, QueueStep, CrashStep
<1>4. CASE UNCHANGED vars
  BY <1>4 DEF vars, history
<1> QED BY <1>1, <1>2, <1>3, <1>4 DEF Next, Advance

CInv == TInv /\ (\A a \in Actions : DroppedOK(a)) /\ CancelHolds

(* An action is not executed after the user cancelled it, unless a pass    *)
(* had it listed by then.                                                  *)
THEOREM CancelledNotExecuted == Spec => []CancelHolds
<1>1. Init => CInv
  BY TypeInit DEF Init, CInv, DroppedOK, CancelHolds
<1>2. CInv /\ [Next]_vars => CInv'
  <2>1. ASSUME CInv, [Next]_vars PROVE CInv'
    <3>1. ControlOK /\ TInv'
      BY <2>1, TypeStep DEF CInv, TInv
    <3>2. ASSUME NEW a \in Actions PROVE DroppedOK(a)'
      BY <2>1, <3>1, DroppedStep DEF CInv
    <3>3. ASSUME NEW a \in Actions PROVE a \in late' => a \in overrun'
      BY <2>1, <3>1, LateStep DEF CInv, CancelHolds
    <3>4. late' \subseteq Actions
      BY <3>1 DEF TInv, ControlOK
    <3> QED BY <3>1, <3>2, <3>3, <3>4 DEF CInv, CancelHolds
  <2> QED BY <2>1
<1>3. CInv => CancelHolds
  BY DEF CInv
<1> QED BY <1>1, <1>2, <1>3, PTL DEF Spec

-----------------------------------------------------------------------------
(* With one window and no failures, the server comes to what is shown here *)

OnlyMain == Windows = {Main} /\ ~Faults

(* The queue with the action that is being added to it, and the local      *)
(* store once a move has erased its source.                                *)
All == IF task = None THEN queued ELSE Append(queued, task)
Here == IF pc[Main] = "erase" THEN [local EXCEPT ![source][task.id] = None] ELSE local

Strays(q) == \E a \in 1..Len(q) : Displaced(q[a])

(* The exceptions of ReplayAgrees. *)
Exempt(q, m) ==
  \E a, b \in 1..Len(q) :
    /\ q[a].of = m /\ q[b].of \in {m, None}
    /\ InTrash(q[a]) \/ (q[a].kind \in {"fetch", "move", "copy"} /\ a < b)

(* An action that no replay can carry out stays in the journal for ever. *)
Stuck ==
  \E a \in 1..Len(queued) : a \notin done /\ journal[a] = "waiting" /\ ~Possible(queued[a])

(* The first n actions are executed, in the order they were queued. *)
Ordered(n) ==
  /\ n \in 0..Len(queued) /\ done = 1..n
  /\ \A a \in Actions : journal[a] =
       IF a \in (n + 1)..Len(queued) \/ (pc[Main] = "ok" /\ a = n) THEN "waiting" ELSE "absent"
  /\ pc[Main] = "next" => todo[Main] = (n + 1)..Len(queued)
  /\ pc[Main] = "run" => cur[Main] = n + 1 /\ todo[Main] = (n + 2)..Len(queued)
  /\ pc[Main] = "ok" => cur[Main] = n /\ todo[Main] = (n + 1)..Len(queued)
  /\ pc[Main] # "failed"
  /\ pc[Main] \in {"state", "store"} => n = Len(queued)

(* Only an action for a whole mailbox is for no message. *)
PerBox(q) == \A a \in 1..Len(q) : q[a].of = None <=> q[a].kind = "expunge"

TaskOK ==
  /\ pc[Main] \in {"erase", "journal"} <=> task # None
  /\ pc[Main] # "edit"
  /\ PerBox(All)

(* The server does not change while a synchronisation saves its answer. *)
PulledOK ==
  pc[Main] \in {"state", "store"} =>
    \A u \in DOMAIN pulled[Main].mail : pulled[Main].mail[u] = srv.mail[pulled[Main].box][u]

(* The first id of a message is never another one's. *)
StartOK ==
  \A m \in Messages :
    /\ Origin(srv, Start[m], m)
    /\ \A b \in Boxes : local[b][Start[m]] # None => local[b][Start[m]].of = m

Solo == TInv /\ IdsOK /\ DoneOK /\ TaskOK /\ PulledOK /\ StartOK

LEMMA SoloStep ==
  ASSUME OnlyMain, TInv, TaskOK, [Next]_vars
  PROVE  \/ QueueNext \/ EraseSource \/ Journal
         \/ StartPass(Main) \/ MarkRunning(Main) \/ Succeed(Main) \/ Remove(Main) \/ Keep(Main)
         \/ EndPass(Main) \/ SaveSeen(Main) \/ StoreNext(Main) \/ EndSync(Main) \/ Refused(Main)
         \/ \E b \in Synced, full \in BOOLEAN : Synchronise(Main, b, full)
         \/ UNCHANGED vars
<1>1. ~QueueFails /\ ~Crash
  BY DEF OnlyMain, QueueFails, Crash
<1>2. \A w \in Windows : w = Main
  BY DEF OnlyMain
<1>3. ~BreakOff(Main) /\ ~SaveEdit(Main) /\ \A a, state : ~ReadAction(Main, a, state)
  BY DEF OnlyMain, BreakOff, SaveEdit, ReadAction, TaskOK
<1> QED BY <1>1, <1>2, <1>3 DEF Next, Advance

(* Main goes on to its next step. *)
LEMMA MainGoes ==
  ASSUME TInv
  PROVE  /\ Main \in Windows
         /\ \A step : Goto(Main, step) => pc'[Main] = step
         /\ \A c : cur' = [cur EXCEPT ![Main] = c] => cur'[Main] = c
         /\ \A t : todo' = [todo EXCEPT ![Main] = t] => todo'[Main] = t
         /\ \A p : pulled' = [pulled EXCEPT ![Main] = p] => pulled'[Main] = p
<1>1. Main \in Windows
  BY Bounds
<1> QED BY <1>1 DEF TInv, ControlOK, StoreOK, Goto

(* Save, when nothing fails. *)
LEMMA SaveWaiting ==
  ASSUME OnlyMain, TInv, NEW a \in Actions, Save(a, "waiting")
  PROVE  \A x \in Actions : journal'[x] = IF x = a THEN "waiting" ELSE journal[x]
BY DEF OnlyMain, Save, TInv, ControlOK
-----------------------------------------------------------------------------
(* What an action makes of a message on the server *)

Has(s, b, u, m) == s.mail[b][u] # None /\ s.mail[b][u].of = m

(* What action a makes of the message m where it was in the beginning. *)
Effect(m, a, x) ==
  IF x = None THEN None
  ELSE IF a.of = m
       THEN IF a.kind = "mark" THEN [of |-> m, deleted |-> TRUE]
            ELSE IF a.kind = "unmark" THEN [of |-> m, deleted |-> FALSE]
            ELSE IF a.kind \in {"erase", "move"} THEN None ELSE x
       ELSE IF a.kind = "expunge" /\ a.box = Start[m][1] /\ x.deleted THEN None ELSE x

(* Action a brings message m to mailbox b. *)
Carries(a, m, b) == a.of = m /\ a.kind \in {"move", "copy"} /\ a.dest = b

(* One of the first n actions of q does. *)
Brings(q, n, m, b) == \E f \in 1..n : Carries(q[f], m, b)

LEMMA StartType ==
  ASSUME NEW m \in Messages
  PROVE  Start[m] \in Ids /\ Start[m][1] \in Boxes /\ Start[m][2] \in Uids /\ m # None
BY ImapJournalAssumption DEF Ids

(* An action for another message, but for what an EXPUNGE takes along. *)
LEMMA OtherEffect ==
  ASSUME TInv, NEW m \in Messages, Origin(srv, Start[m], m),
         NEW a \in Command, a.kind # "expunge", a.of # m, ~Displaced(a), Origin(srv, a.id, a.of),
         NEW s, Follows(a, s),
         \A u \in Uids : srv.mail[a.box][u] # None /\ s.mail[a.box][u] = None =>
           srv.mail[a.box][u].of # m
  PROVE  /\ \A b \in Boxes, u \in Uids : Has(s, b, u, m) <=> Has(srv, b, u, m)
         /\ s.mail[Start[m][1]][Start[m][2]] = srv.mail[Start[m][1]][Start[m][2]]
<1>1. /\ a.id \in Ids /\ a.id[1] = a.box /\ a.box \in Boxes /\ a.id[2] \in Uids
      /\ srv.mail[a.box][a.id[2]] # None => srv.mail[a.box][a.id[2]].of # m
  BY Bounds DEF Command, Action, Displaced, Origin, Ids
<1>2. ASSUME NEW b \in Boxes, NEW u \in Uids, s.mail[b][u] # srv.mail[b][u]
      PROVE  ~Has(s, b, u, m) /\ ~Has(srv, b, u, m)
  <2>1. CASE srv.mail[b][u] = None /\ s.mail[b][u].of = srv.mail[a.box][a.id[2]].of
             /\ srv.mail[a.box][a.id[2]] # None
    BY <1>1, <2>1 DEF Has
  <2>2. CASE srv.mail[b][u] # None /\ b = a.box /\ u = a.id[2]
    <3>1. u < srv.next[b]
      BY <1>1, <2>2 DEF TInv, StoreOK, Below
    <3>2. s.mail[b][u] # None => s.mail[b][u].of = srv.mail[b][u].of
      BY <3>1 DEF Follows
    <3> QED BY <1>1, <2>2, <3>2 DEF Has
  <2>3. CASE srv.mail[b][u] # None /\ b = a.box /\ s.mail[b][u] = None
    BY <2>3 DEF Has
  <2> QED BY <1>1, <1>2, <2>1, <2>2, <2>3 DEF Follows
<1>3. \A b \in Boxes, u \in Uids : Has(s, b, u, m) <=> Has(srv, b, u, m)
  BY <1>2 DEF Has
<1>4. s.mail[Start[m][1]][Start[m][2]] = srv.mail[Start[m][1]][Start[m][2]]
  <2> DEFINE b == Start[m][1]
             u == Start[m][2]
  <2>1. b \in Boxes /\ u \in Uids /\ u < srv.next[b] /\ (srv.mail[b][u] # None => srv.mail[b][u].of = m)
    BY StartType DEF Origin
  <2> HIDE DEF b, u
  <2>2. srv.mail[b][u] # None => Has(srv, b, u, m)
    BY <2>1 DEF Has
  <2>3. srv.mail[b][u] = None => s.mail[b][u] = None
    BY <2>1 DEF Follows
  <2>4. s.mail[b][u] = srv.mail[b][u]
    BY <1>2, <2>1, <2>2, <2>3
  <2> QED BY <2>4 DEF b, u
<1> QED BY <1>3, <1>4

(* An EXPUNGE on its own. *)
LEMMA ExpungeEffect ==
  ASSUME TInv, NEW m \in Messages, NEW a \in Command, a.kind = "expunge", a.of = None,
         NEW s, s = Expunged(srv, a.box)
  PROVE  /\ \A b \in Boxes, u \in Uids : Has(s, b, u, m) => Has(srv, b, u, m)
         /\ s.mail[Start[m][1]][Start[m][2]] = Effect(m, a, srv.mail[Start[m][1]][Start[m][2]])
<1>1. a.box \in Boxes /\ ServerOK(srv) /\ m # None
  BY StartType DEF Command, Action, TInv, StoreOK, ServerOK
<1>2. \A b \in Boxes, u \in Uids : s.mail[b][u] =
        IF b = a.box /\ srv.mail[a.box][u] # None /\ srv.mail[a.box][u].deleted THEN None
        ELSE srv.mail[b][u]
  BY <1>1, ExpungedEffect
<1>3. \A b \in Boxes, u \in Uids : Has(s, b, u, m) => Has(srv, b, u, m)
  BY <1>2 DEF Has
<1>4. s.mail[Start[m][1]][Start[m][2]] = Effect(m, a, srv.mail[Start[m][1]][Start[m][2]])
  BY <1>1, <1>2, StartType DEF Effect
<1> QED BY <1>3, <1>4

(* An action for the message, where it was in the beginning. *)
LEMMA OwnEffect ==
  ASSUME TInv, NEW m \in Messages, Origin(srv, Start[m], m),
         NEW a \in Command, a.kind # "expunge", a.of = m, a.id = Start[m], a.box = Start[m][1],
         a.kind \in {"move", "copy"} => a.dest # a.box,
         Possible(a), NEW c \in Courses(a), NEW s, s = c[Len(c)],
         srv.mail[Start[m][1]][Start[m][2]] # None
  PROVE  /\ s.mail[Start[m][1]][Start[m][2]] = Effect(m, a, srv.mail[Start[m][1]][Start[m][2]])
         /\ \A u \in Uids \ {Start[m][2]} : Has(s, Start[m][1], u, m) => Has(srv, Start[m][1], u, m)
         /\ \A b \in Boxes \ {Start[m][1]}, u \in Uids : Has(srv, b, u, m) => Has(s, b, u, m)
         /\ \A b \in Boxes \ {Start[m][1]}, u \in Uids :
              Has(s, b, u, m) /\ ~Has(srv, b, u, m) => Carries(a, m, b)
         /\ \A b \in Boxes : Carries(a, m, b) => \E u \in Uids : Has(s, b, u, m)
<1> DEFINE h == Start[m][1]
           i == Start[m][2]
           x == srv.mail[h][i]
           copied == Copied(srv, h, i, a.dest)
           Goal == /\ s.mail[h][i] = Effect(m, a, x)
                   /\ \A u \in Uids \ {i} : Has(s, h, u, m) => Has(srv, h, u, m)
                   /\ \A b \in Boxes \ {h}, u \in Uids : Has(srv, b, u, m) => Has(s, b, u, m)
                   /\ \A b \in Boxes \ {h}, u \in Uids :
                        Has(s, b, u, m) /\ ~Has(srv, b, u, m) => Carries(a, m, b)
                   /\ \A b \in Boxes : Carries(a, m, b) => \E u \in Uids : Has(s, b, u, m)
<1> SUFFICES Goal
  OBVIOUS
<1>1. /\ h \in Boxes /\ i \in Uids /\ a.dest \in Boxes /\ a.kind \in Kinds /\ a.id # None
      /\ ServerOK(srv) /\ x \in Mail /\ x.of = m /\ x # None /\ a.box = h /\ a.id[2] = i
  <2>1. h \in Boxes /\ i \in Uids
    BY StartType
  <2>2. a.dest \in Boxes /\ a.kind \in Kinds /\ a.id \in Ids
    BY DEF Command, Action
  <2>3. ServerOK(srv)
    BY DEF TInv, StoreOK, ServerOK
  <2>4. x \in Mail
    BY <2>1, <2>3 DEF ServerOK, Server
  <2>5. x.of = m
    BY DEF Origin
  <2>6. a.id # None
    BY <2>2, Bounds
  <2> QED BY <2>1, <2>2, <2>3, <2>4, <2>5, <2>6
<1> HIDE DEF h, i, x
<1>2. CASE a.kind \in {"mark", "unmark"}
  <2> DEFINE flag == a.kind = "mark"
             t == Stored(srv, h, i, flag)
  <2>1. c = <<t>>
    BY <1>1, <1>2 DEF Courses
  <2>2. s = t
    BY <2>1
  <2>8. flag \in BOOLEAN /\ (a.kind = "mark" => flag = TRUE) /\ (a.kind # "mark" => flag = FALSE)
    OBVIOUS
  <2> HIDE DEF flag
  <2>3. \A y \in Boxes, z \in Uids : t.mail[y][z] =
           IF y = h /\ z = i /\ srv.mail[h][i] # None
           THEN [srv.mail[h][i] EXCEPT !.deleted = flag] ELSE srv.mail[y][z]
    BY <1>1, <2>8, StoredEffect
  <2>4. [x EXCEPT !.deleted = flag] = [of |-> m, deleted |-> flag]
    BY <1>1 DEF Mail
  <2> HIDE DEF t
  <2>5. s.mail[h][i] = [of |-> m, deleted |-> flag]
    BY <1>1, <2>2, <2>3, <2>4 DEF x
  <2>6. \A y \in Boxes, z \in Uids : ~(y = h /\ z = i) => s.mail[y][z] = srv.mail[y][z]
    BY <2>2, <2>3
  <2>7. Effect(m, a, x) = [of |-> m, deleted |-> flag]
    BY <1>1, <1>2, <2>8 DEF Effect
  <2> QED BY <1>1, <1>2, <2>5, <2>6, <2>7 DEF Has, Carries
<1>3. CASE a.kind = "fetch"
  <2>3. c = <<srv>>
    BY <1>3 DEF Courses
  <2>1. s = srv
    BY <2>3
  <2>2. Effect(m, a, x) = x
    BY <1>1, <1>3 DEF Effect
  <2> QED BY <1>1, <1>3, <2>1, <2>2 DEF Carries, x
<1>4. ASSUME NEW t, ServerOK(t), t.mail[h][i] # None,
             s = Erased(t, h, i) \/ s = Expunged(Stored(t, h, i, TRUE), h)
      PROVE  /\ s.mail[h][i] = None
             /\ \A u \in Uids : s.mail[h][u] # None => s.mail[h][u] = t.mail[h][u]
             /\ \A b \in Boxes \ {h}, u \in Uids : s.mail[b][u] = t.mail[b][u]
  <2>1. CASE s = Erased(t, h, i)
    BY SMTT(30), <1>1, <1>4, <2>1, ErasedEffect
  <2>2. CASE s = Expunged(Stored(t, h, i, TRUE), h)
    <3>10. PICK flag \in BOOLEAN : flag = TRUE
      OBVIOUS
    <3> DEFINE marked == Stored(t, h, i, flag)
               new == [t.mail[h][i] EXCEPT !.deleted = flag]
    <3>1. /\ ServerOK(marked)
          /\ \A y \in Boxes, z \in Uids : marked.mail[y][z] =
               IF y = h /\ z = i /\ t.mail[h][i] # None THEN new ELSE t.mail[y][z]
      BY <1>1, <1>4, StoredEffect
    <3>2. new \in Mail /\ new.deleted /\ new # None
      <4>1. t.mail[h][i] \in Mail
        BY <1>1, <1>4 DEF ServerOK, Server
      <4> QED BY <3>10, <4>1, Bounds DEF Mail
    <3> HIDE DEF marked, new
    <3>3. /\ s = Expunged(marked, h)
          /\ \A y \in Boxes, z \in Uids : s.mail[y][z] =
              IF y = h /\ marked.mail[h][z] # None /\ marked.mail[h][z].deleted THEN None
              ELSE marked.mail[y][z]
      <4>1. s = Expunged(marked, h)
        BY <2>2, <3>10 DEF marked
      <4> QED BY SMTT(30), <1>1, <3>1, <4>1, ExpungedEffect
    <3>4. marked.mail[h][i] = new
      BY <1>1, <1>4, <3>1
    <3>5. \A y \in Boxes, z \in Uids : ~(y = h /\ z = i) => marked.mail[y][z] = t.mail[y][z]
      BY <3>1
    <3>6. s.mail[h][i] = None
      BY <1>1, <3>2, <3>3, <3>4
    <3>7. \A u \in Uids : s.mail[h][u] # None => s.mail[h][u] = t.mail[h][u]
      BY <1>1, <3>3, <3>5, <3>6
    <3>8. \A b \in Boxes \ {h}, u \in Uids : s.mail[b][u] = t.mail[b][u]
      BY <3>3, <3>5
    <3> QED BY <3>6, <3>7, <3>8
  <2> QED BY <1>4, <2>1, <2>2
<1>5. CASE a.kind = "erase"
  <2>1. c = StoreAndExpunge(srv, h, i)
    BY <1>1, <1>5 DEF Courses
  <2>2. s = Expunged(Stored(srv, h, i, TRUE), h)
    BY <2>1 DEF StoreAndExpunge
  <2>3. /\ s.mail[h][i] = None
        /\ \A u \in Uids : s.mail[h][u] # None => s.mail[h][u] = srv.mail[h][u]
        /\ \A b \in Boxes \ {h}, u \in Uids : s.mail[b][u] = srv.mail[b][u]
    BY ZenonT(60), <1>1, <1>4, <2>2 DEF x
  <2>4. Effect(m, a, x) = None
    BY <1>1, <1>5 DEF Effect
  <2> QED BY <1>1, <1>5, <2>3, <2>4 DEF Has, Carries
<1>6. ASSUME a.kind \in {"move", "copy"}
      PROVE  /\ ServerOK(copied) /\ srv.next[a.dest] \in Uids /\ srv.mail[a.dest][srv.next[a.dest]] = None
             /\ \A b \in Boxes, u \in Uids : copied.mail[b][u] =
                   IF b = a.dest /\ u = srv.next[a.dest] THEN x ELSE srv.mail[b][u]
  <2>1. srv.next[a.dest] <= MaxUid
    BY <1>6 DEF Possible
  <2>2. /\ ServerOK(copied)
        /\ \A b \in Boxes, u \in Uids : copied.mail[b][u] =
              IF b = a.dest /\ u = srv.next[a.dest] /\ srv.mail[h][i] # None THEN srv.mail[h][i]
              ELSE srv.mail[b][u]
    BY <1>1, <2>1, CopiedEffect
  <2> HIDE DEF copied
  <2>3. srv.next[a.dest] \in Uids
    BY <1>1, <2>1, Bounds DEF ServerOK, Server, Uids
  <2>4. srv.mail[a.dest][srv.next[a.dest]] = None
    <3> DEFINE n == srv.next[a.dest]
    <3>1. n \in Nat
      BY <2>3, Bounds
    <3>2. ~(n < n)
      BY <3>1
    <3>3. srv.mail[a.dest][n] # None => n < srv.next[a.dest]
      BY <1>1, <2>3 DEF ServerOK, Below
    <3> QED BY <3>2, <3>3
  <2> QED BY <1>1, <2>2, <2>3, <2>4 DEF x
<1>7. ASSUME NEW t, \A b \in Boxes, u \in Uids : t.mail[b][u] =
                   IF b = a.dest /\ u = srv.next[a.dest] THEN x ELSE srv.mail[b][u],
             a.kind \in {"move", "copy"}, s.mail[h][i] = Effect(m, a, x),
             \A u \in Uids : s.mail[h][u] # None => s.mail[h][u] = t.mail[h][u],
             \A b \in Boxes \ {h}, u \in Uids : s.mail[b][u] = t.mail[b][u]
      PROVE  Goal
  <2>1. /\ a.dest \in Boxes \ {h} /\ srv.next[a.dest] \in Uids
        /\ srv.mail[a.dest][srv.next[a.dest]] = None
    BY <1>1, <1>6, <1>7
  <2>2. \A u \in Uids : t.mail[h][u] = srv.mail[h][u]
    BY <1>1, <1>7, <2>1
  <2>3. \A u \in Uids \ {i} : Has(s, h, u, m) => Has(srv, h, u, m)
    BY <1>7, <2>2 DEF Has
  <2>4. \A b \in Boxes \ {h}, u \in Uids : Has(srv, b, u, m) => Has(s, b, u, m)
    BY <1>7, <2>1 DEF Has
  <2>5. \A b \in Boxes \ {h}, u \in Uids : Has(s, b, u, m) /\ ~Has(srv, b, u, m) => Carries(a, m, b)
    BY <1>7, <2>1 DEF Has, Carries
  <2>6. Has(s, a.dest, srv.next[a.dest], m)
    BY <1>1, <1>7, <2>1 DEF Has
  <2>7. \A b \in Boxes : Carries(a, m, b) => \E u \in Uids : Has(s, b, u, m)
    BY <2>1, <2>6 DEF Carries
  <2> QED BY <1>7, <2>3, <2>4, <2>5, <2>7
<1>8. CASE a.kind = "copy"
  <2>4. c = <<copied>>
    BY <1>1, <1>8 DEF Courses
  <2>1. s = copied
    BY <2>4
  <2>2. Effect(m, a, x) = x
    BY <1>1, <1>8 DEF Effect
  <2>3. copied.mail[h][i] = x
    BY <1>1, <1>6, <1>8 DEF x
  <2> HIDE DEF copied, Goal
  <2> QED BY <1>6, <1>7, <1>8, <2>1, <2>2, <2>3
<1>9. CASE a.kind = "move"
  <2>1. c = <<Erased(copied, h, i)>> \/ c = <<copied>> \o StoreAndExpunge(copied, h, i)
    BY <1>1, <1>9 DEF Courses
  <2> DEFINE marked == Stored(copied, h, i, TRUE)
  <2>2. c = <<Erased(copied, h, i)>> \/ c = <<copied, marked, Expunged(marked, h)>>
    BY <2>1, ConcatOneTwo DEF StoreAndExpunge
  <2> DEFINE erased == Erased(copied, h, i)
             expunged == Expunged(marked, h)
  <2>7. s = erased \/ s = expunged
    <3>1. c = <<erased>> \/ c = <<copied, marked, expunged>>
      BY <2>2
    <3> HIDE DEF erased, copied, marked, expunged
    <3>2. CASE c = <<erased>>
      BY <3>2
    <3>3. CASE c = <<copied, marked, expunged>>
      <4>1. Len(c) = 3 /\ c[3] = expunged
        BY <3>3
      <4> QED BY <4>1
    <3> QED BY <3>1, <3>2, <3>3
  <2>3. s = Erased(copied, h, i) \/ s = Expunged(Stored(copied, h, i, TRUE), h)
    BY <2>7
  <2>4. copied.mail[h][i] = x
    BY <1>1, <1>6, <1>9 DEF x
  <2> HIDE DEF copied, Goal
  <2>5. /\ s.mail[h][i] = None
        /\ \A u \in Uids : s.mail[h][u] # None => s.mail[h][u] = copied.mail[h][u]
        /\ \A b \in Boxes \ {h}, u \in Uids : s.mail[b][u] = copied.mail[b][u]
    <3>1. ServerOK(copied) /\ copied.mail[h][i] # None
      BY <1>1, <1>6, <1>9, <2>4
    <3> QED BY ZenonT(60), <1>4, <2>3, <3>1
  <2>6. Effect(m, a, x) = None
    BY <1>1, <1>9 DEF Effect
  <2> QED BY <1>6, <1>7, <1>9, <2>5, <2>6
<1>10. Goal
  BY <1>1, <1>2, <1>3, <1>5, <1>8, <1>9 DEF Kinds
<1> QED BY <1>10 DEF h, i, x

(* Where m is on the server s after n actions of q: in its first mailbox   *)
(* under its first UID only, as x, and in those the actions brought it to. *)
OnServer(m, q, n, s, x) ==
  /\ s.mail[Start[m][1]][Start[m][2]] = x
  /\ \A u \in Uids : Has(s, Start[m][1], u, m) => u = Start[m][2]
  /\ \A b \in Boxes \ {Start[m][1]} :
       (\E u \in Uids : Has(s, b, u, m)) <=> Brings(q, n, m, b)

LEMMA ExecuteServer ==
  ASSUME TInv, NEW m \in Messages, Origin(srv, Start[m], m),
         NEW q \in Seq(Command), NEW n \in Nat, n + 1 \in 1..Len(q), NEW a, a = q[n + 1],
         PerBox(q), ~Strays(q), ~Exempt(q, m), NEW x, OnServer(m, q, n, srv, x),
         a.of = m => /\ a.id = Start[m] /\ a.box = Start[m][1] /\ x # None
                     /\ a.kind \in {"move", "copy"} => a.dest # a.box,
         a.id \in Ids => Origin(srv, a.id, a.of),
         Possible(a), NEW c \in Courses(a), NEW s, s = c[Len(c)],
         a.kind # "expunge" /\ a.of # m => \A u \in Uids :
           srv.mail[a.box][u] # None /\ s.mail[a.box][u] = None => srv.mail[a.box][u].of # m
  PROVE  OnServer(m, q, n + 1, s, Effect(m, a, x))
<1> DEFINE h == Start[m][1]
           i == Start[m][2]
<1>1. /\ a \in Command /\ (a.of = None <=> a.kind = "expunge") /\ ~Displaced(a)
      /\ (a.kind # "expunge" => a.id \in Ids) /\ m # None
  BY StartType DEF PerBox, Strays, Command
<1>2. \A f : f \in 1..(n + 1) <=> f \in 1..n \/ f = n + 1
  OBVIOUS
<1>3. h \in Boxes /\ i \in Uids
  BY StartType
<1>4. CASE a.of = m
  <2>1. a.kind # "expunge" /\ srv.mail[h][i] = x /\ x # None
    BY <1>1, <1>4 DEF OnServer
  <2>2. /\ s.mail[h][i] = Effect(m, a, x)
        /\ \A u \in Uids \ {i} : Has(s, h, u, m) => Has(srv, h, u, m)
        /\ \A b \in Boxes \ {h}, u \in Uids : Has(srv, b, u, m) => Has(s, b, u, m)
        /\ \A b \in Boxes \ {h}, u \in Uids : Has(s, b, u, m) /\ ~Has(srv, b, u, m) => Carries(a, m, b)
        /\ \A b \in Boxes : Carries(a, m, b) => \E u \in Uids : Has(s, b, u, m)
    BY <1>1, <1>4, <2>1, OwnEffect
  <2>3. \A u \in Uids : Has(s, h, u, m) => u = i
    BY <2>2 DEF OnServer
  <2>4. ASSUME NEW b \in Boxes \ {h}
        PROVE  (\E u \in Uids : Has(s, b, u, m)) <=> Brings(q, n + 1, m, b)
    <3>1. (\E u \in Uids : Has(srv, b, u, m)) <=> Brings(q, n, m, b)
      BY DEF OnServer
    <3>2. Brings(q, n + 1, m, b) <=> Brings(q, n, m, b) \/ Carries(a, m, b)
      BY <1>2 DEF Brings
    <3> QED BY <2>2, <3>1, <3>2
  <2> QED BY <2>2, <2>3, <2>4 DEF OnServer
<1>5. CASE a.kind = "expunge"
  <2>1. c = <<Expunged(srv, a.box)>>
    BY <1>5 DEF Courses
  <2>2. s = Expunged(srv, a.box)
    BY <2>1
  <2>3. /\ \A b \in Boxes, u \in Uids : Has(s, b, u, m) => Has(srv, b, u, m)
        /\ s.mail[h][i] = Effect(m, a, srv.mail[h][i])
    BY <1>1, <1>5, <2>2, ExpungeEffect
  <2>4. \A b \in Boxes, f \in 1..(n + 1) : ~Carries(q[f], m, b)
    <3>1. \A f \in 1..n : f \in 1..Len(q) /\ f < n + 1
      OBVIOUS
    <3> QED BY <1>1, <1>2, <1>5, <3>1 DEF Exempt, Carries
  <2>5. \A b \in Boxes : ~Brings(q, n, m, b) /\ ~Brings(q, n + 1, m, b)
    BY <1>2, <2>4 DEF Brings
  <2>6. \A b \in Boxes \ {h}, u \in Uids : ~Has(s, b, u, m)
    BY <2>3, <2>5 DEF OnServer
  <2>7. /\ s.mail[h][i] = Effect(m, a, x)
        /\ \A u \in Uids : Has(s, h, u, m) => u = i
    BY <1>3, <2>3 DEF OnServer
  <2> QED BY <2>5, <2>6, <2>7 DEF OnServer
<1>6. CASE a.kind # "expunge" /\ a.of # m
  <2>1. Follows(a, s)
    <3>1. Len(c) \in 1..Len(c) /\ Follows(a, c[Len(c)])
      BY <1>1, CourseEffect
    <3> QED BY <3>1
  <2>2. /\ \A b \in Boxes, u \in Uids : Has(s, b, u, m) <=> Has(srv, b, u, m)
        /\ s.mail[h][i] = srv.mail[h][i]
    BY <1>1, <1>6, <2>1, OtherEffect
  <2>3. \A b \in Boxes : ~Carries(a, m, b)
    BY <1>6 DEF Carries
  <2>4. \A b \in Boxes : Brings(q, n + 1, m, b) <=> Brings(q, n, m, b)
    BY <1>2, <2>3 DEF Brings
  <2>5. Effect(m, a, x) = x
    BY <1>6 DEF Effect
  <2> QED BY <1>3, <2>2, <2>4, <2>5 DEF OnServer
<1> QED BY <1>4, <1>5, <1>6

-----------------------------------------------------------------------------
(* What the user's actions make of a message here *)

Holds(l, b, i, m) == l[b][i] # None /\ l[b][i].of = m

(* Where m is in the local store l when q is queued: in its first mailbox  *)
(* under its first id only, as x, and, under that id too, in those the     *)
(* actions bring it to.                                                    *)
InStore(m, q, x, l) ==
  /\ l[Start[m][1]][Start[m]] = x
  /\ \A i \in Ids : Holds(l, Start[m][1], i, m) => i = Start[m]
  /\ \A b \in Boxes \ {Start[m][1]}, i \in Ids :
       Holds(l, b, i, m) => Brings(q, Len(q), m, b)
  /\ \A b \in Boxes \ {Start[m][1]} :
       Brings(q, Len(q), m, b) => l[b][Start[m]] # None

(* One record is written, of another message or one of the server's.       *)
LEMMA InStorePut ==
  ASSUME NEW m \in Messages, NEW q, NEW x, NEW l, InStore(m, q, x, l),
         NEW b \in Boxes, NEW i \in Ids, i[1] = b, NEW r, NEW k,
         \A y \in Boxes, z \in Ids : k[y][z] = IF y = b /\ z = i THEN r ELSE l[y][z],
         i = Start[m] => r = x,
         r # None /\ r.of = m =>
            IF b = Start[m][1] THEN i = Start[m] ELSE Brings(q, Len(q), m, b)
  PROVE  InStore(m, q, x, k)
<1>1. Start[m] \in Ids /\ Start[m][1] \in Boxes
  BY StartType
<1>2. k[Start[m][1]][Start[m]] = x
  BY <1>1 DEF InStore
<1>3. \A z \in Ids : Holds(k, Start[m][1], z, m) => z = Start[m]
  BY <1>1 DEF InStore, Holds
<1>4. ASSUME NEW y \in Boxes \ {Start[m][1]}, NEW z \in Ids, Holds(k, y, z, m)
      PROVE  Brings(q, Len(q), m, y)
  BY <1>4 DEF InStore, Holds
<1>5. \A y \in Boxes \ {Start[m][1]} : k[y][Start[m]] = l[y][Start[m]]
  BY <1>1
<1> QED BY <1>2, <1>3, <1>4, <1>5 DEF InStore

LEMMA AppendBrings ==
  ASSUME NEW q \in Seq(Command), NEW a, NEW m, NEW b
  PROVE  Brings(Append(q, a), Len(Append(q, a)), m, b) <=> Brings(q, Len(q), m, b) \/ Carries(a, m, b)
<1>1. \A f : f \in 1..Len(Append(q, a)) <=> f \in 1..Len(q) \/ f = Len(q) + 1
  OBVIOUS
<1>2. Append(q, a)[Len(q) + 1] = a /\ \A f \in 1..Len(q) : Append(q, a)[f] = q[f]
  OBVIOUS
<1> QED BY <1>1, <1>2 DEF Brings

(* An action for another message is added, that changes nothing of this.   *)
LEMMA InStoreOther ==
  ASSUME NEW m \in Messages, NEW q \in Seq(Command), NEW x, NEW l, InStore(m, q, x, l),
         NEW a, a.of # m, NEW k, \A b \in Boxes : k[b][Start[m]] = l[b][Start[m]],
         \A b \in Boxes, i \in Ids : Holds(k, b, i, m) => Holds(l, b, i, m)
  PROVE  InStore(m, Append(q, a), x, k)
<1>1. Start[m] \in Ids /\ Start[m][1] \in Boxes
  BY StartType
<1>2. ASSUME NEW b PROVE Brings(Append(q, a), Len(Append(q, a)), m, b) <=> Brings(q, Len(q), m, b)
  BY AppendBrings DEF Carries
<1> QED BY <1>1, <1>2 DEF InStore

(* A command on record i of mailbox b leads from the local store l to k,   *)
(* and queues a.                                                           *)
Queues(a, b, i, l, k) ==
  /\ l[b][i] # None /\ a.of = l[b][i].of /\ a.id = i /\ a.box = b
  /\ a.kind \in Kinds \ {"expunge"} /\ (a.kind = "copy" => a.dest # b)
  /\ \A y \in Boxes, z \in Ids \ {i} : k[y][z] = l[y][z]
  /\ k[b][i] = Effect(a.of, a, l[b][i])
  /\ \A y \in Boxes \ {b} :
       IF a.kind \in {"move", "copy"} /\ y = a.dest THEN Holds(k, y, i, a.of) ELSE k[y][i] = l[y][i]

(* Nothing was queued for the message before that could have moved it.     *)
LEMMA NotCarried ==
  ASSUME NEW m \in Messages, NEW q \in Seq(Command), NEW a, a.of \in {m, None},
         ~Exempt(Append(q, a), m)
  PROVE  /\ \A f \in 1..Len(q) : q[f].of = m => q[f].kind \notin {"fetch", "move", "copy"}
         /\ \A b : ~Brings(q, Len(q), m, b)
         /\ a.of = m => ~InTrash(a)
<1> DEFINE p == Append(q, a)
           n == Len(q) + 1
<1>1. /\ n \in 1..Len(p) /\ p[n] = a
      /\ \A f \in 1..Len(q) : f \in 1..Len(p) /\ f < n /\ p[f] = q[f]
  OBVIOUS
<1> HIDE DEF p, n
<1>2. ~Exempt(p, m)
  BY DEF p
<1>3. \A f \in 1..Len(q) : q[f].of = m => q[f].kind \notin {"fetch", "move", "copy"}
  BY <1>1, <1>2 DEF Exempt
<1>4. a.of = m => ~InTrash(a)
  BY <1>1, <1>2 DEF Exempt
<1> QED BY <1>3, <1>4 DEF Brings, Carries

LEMMA QueueOwn ==
  ASSUME NEW m \in Messages, NEW q \in Seq(Command), NEW x, NEW l, InStore(m, q, x, l),
         NEW a, NEW b \in Boxes, NEW i \in Ids, NEW k, Queues(a, b, i, l, k), a.of = m,
         ~Exempt(Append(q, a), m)
  PROVE  /\ a.id = Start[m] /\ a.box = Start[m][1] /\ x # None
         /\ a.kind \in {"move", "copy"} => a.dest # a.box
         /\ InStore(m, Append(q, a), Effect(m, a, x), k)
<1> DEFINE h == Start[m][1]
           j == Start[m]
<1>0. /\ \A y : ~Brings(q, Len(q), m, y)
      /\ ~InTrash(a)
  <2>1. a.of \in {m, None}
    OBVIOUS
  <2> QED BY <2>1, NotCarried
<1>1. /\ j \in Ids /\ h \in Boxes
      /\ \A y : ~Brings(q, Len(q), m, y)
      /\ ~InTrash(a)
  BY <1>0, StartType
<1>2. b = h /\ i = j /\ l[b][i] = x /\ x # None
  <2>1. Holds(l, b, i, m)
    BY DEF Queues, Holds
  <2> QED BY <1>1, <2>1 DEF InStore, Holds
<1>3. a.kind \in {"move", "copy"} => a.dest # a.box
  BY <1>1 DEF Queues, InTrash
<1>4. \A y \in Boxes \ {h}, z \in Ids : ~Holds(l, y, z, m)
  BY <1>1 DEF InStore
<1>5. \A z \in Ids : Holds(k, h, z, m) => z = j
  BY <1>1, <1>2 DEF Queues, InStore, Holds
<1>6. \A y \in Boxes \ {h}, z \in Ids : Holds(k, y, z, m) => Carries(a, m, y)
  BY <1>2, <1>4 DEF Queues, Holds, Carries
<1>7. \A y \in Boxes \ {h} : Carries(a, m, y) => k[y][j] # None
  BY <1>2 DEF Queues, Holds, Carries
<1>8. k[h][j] = Effect(m, a, x)
  BY <1>2 DEF Queues
<1>10. ASSUME NEW y PROVE Brings(Append(q, a), Len(Append(q, a)), m, y) <=> Carries(a, m, y)
  BY <1>0, AppendBrings
<1>9. InStore(m, Append(q, a), Effect(m, a, x), k)
  BY <1>5, <1>6, <1>7, <1>8, <1>10 DEF InStore
<1> QED BY <1>2, <1>3, <1>9 DEF Queues

LEMMA QueueOther ==
  ASSUME NEW m \in Messages, NEW q \in Seq(Command), NEW x, NEW l, InStore(m, q, x, l),
         NEW a, NEW b \in Boxes, NEW i \in Ids, NEW k, Queues(a, b, i, l, k), a.of # m,
         \A y \in Boxes : l[y][Start[m]] # None => l[y][Start[m]].of = m
  PROVE  InStore(m, Append(q, a), Effect(m, a, x), k)
<1>1. i # Start[m] /\ Start[m] \in Ids
  BY StartType DEF Queues
<1>2. \A y \in Boxes : k[y][Start[m]] = l[y][Start[m]]
  BY <1>1 DEF Queues
<1>3. k[b][i] = None \/ k[b][i].of # m
  BY DEF Queues, Effect
<1>4. ASSUME NEW y \in Boxes, NEW z \in Ids, Holds(k, y, z, m) PROVE Holds(l, y, z, m)
  <2>1. CASE z # i
    BY <1>4, <2>1 DEF Queues, Holds
  <2>2. CASE z = i /\ y = b
    BY <1>3, <1>4, <2>2 DEF Holds
  <2>3. CASE z = i /\ y # b
    BY <1>4, <2>3 DEF Queues, Holds
  <2> QED BY <2>1, <2>2, <2>3
<1>5. Effect(m, a, x) = x
  BY DEF Effect, Queues
<1> QED BY <1>2, <1>4, <1>5, InStoreOther

LEMMA QueueWhole ==
  ASSUME NEW m \in Messages, NEW q \in Seq(Command), NEW x, NEW l, InStore(m, q, x, l),
         NEW a, a.kind = "expunge", a.of = None, NEW k,
         \A y \in Boxes, z \in Ids : k[y][z] =
           IF y = a.box /\ l[y][z] # None /\ l[y][z].deleted THEN None ELSE l[y][z],
         ~Exempt(Append(q, a), m)
  PROVE  InStore(m, Append(q, a), Effect(m, a, x), k)
<1> DEFINE h == Start[m][1]
           j == Start[m]
<1>0. \A y : ~Brings(q, Len(q), m, y)
  <2>1. a.of \in {m, None}
    OBVIOUS
  <2> QED BY <2>1, NotCarried
<1>1. /\ j \in Ids /\ h \in Boxes /\ m # None
      /\ \A y : ~Brings(q, Len(q), m, y)
  BY <1>0, StartType
<1>2. \A y : ~Carries(a, m, y)
  BY <1>1 DEF Carries
<1>3. \A y \in Boxes, z \in Ids : Holds(k, y, z, m) => Holds(l, y, z, m)
  BY DEF Holds
<1>4. k[h][j] = Effect(m, a, x)
  BY <1>1 DEF Effect, InStore
<1> QED BY <1>1, <1>2, <1>3, <1>4, AppendBrings DEF InStore

-----------------------------------------------------------------------------
(* A message and the queue *)

(* What becomes of m where it was in the beginning: g[j] is what the first *)
(* j actions of q make of it.                                              *)
Trace(m, q, g) ==
  /\ g[0] = Found(m)
  /\ \A j \in 1..Len(q) : g[j] = Effect(m, q[j], g[j - 1])
  /\ \A j \in 1..Len(q) : q[j].of = m =>
       /\ q[j].id = Start[m] /\ q[j].box = Start[m][1] /\ g[j - 1] # None
       /\ q[j].kind \in {"move", "copy"} => q[j].dest # q[j].box
       /\ q[j].kind = "fetch" => g[Len(q)] = g[j]

Traces == [0..MaxActions -> Mail \cup {None}]

(* After n actions of q, all of them queued, the server s and the local    *)
(* store l have m where these actions bring it.                            *)
Tracked(m, q, n, s, l) ==
  \E g \in Traces : Trace(m, q, g) /\ OnServer(m, q, n, s, g[n]) /\ InStore(m, q, g[Len(q)], l)

LEMMA EffectType ==
  ASSUME NEW m \in Messages, NEW a, NEW x \in Mail \cup {None}
  PROVE  Effect(m, a, x) \in Mail \cup {None}
<1>1. [of |-> m, deleted |-> TRUE] \in Mail /\ [of |-> m, deleted |-> FALSE] \in Mail
  BY DEF Mail
<1> QED BY <1>1 DEF Effect

LEMMA TrackQueued ==
  ASSUME NEW m \in Messages, NEW q \in Seq(Command), Len(q) < MaxActions, NEW n \in 0..Len(q),
         NEW s, NEW l, NEW k, Tracked(m, q, n, s, l),
         NEW a \in Command, a.of = None <=> a.kind = "expunge", ~Exempt(Append(q, a), m),
         \A y \in Boxes : l[y][Start[m]] # None => l[y][Start[m]].of = m,
         \/ \E b \in Boxes, i \in Ids : Queues(a, b, i, l, k)
         \/ /\ a.kind = "expunge"
            /\ \A y \in Boxes, z \in Ids : k[y][z] =
                 IF y = a.box /\ l[y][z] # None /\ l[y][z].deleted THEN None ELSE l[y][z]
  PROVE  Tracked(m, Append(q, a), n, s, k)
<1>1. PICK g \in Traces : Trace(m, q, g) /\ OnServer(m, q, n, s, g[n]) /\ InStore(m, q, g[Len(q)], l)
  BY DEF Tracked
<1> DEFINE p == Append(q, a)
           x == g[Len(q)]
           y == Effect(m, a, x)
           e == [g EXCEPT ![Len(p)] = y]
<1>2. /\ Len(q) \in Nat /\ Len(p) = Len(q) + 1 /\ Len(p) \in 1..MaxActions /\ p[Len(p)] = a
      /\ Len(p) - 1 = Len(q) /\ Len(q) \in 0..MaxActions
      /\ \A j \in 1..Len(p) : j = Len(p) \/ j \in 1..Len(q)
      /\ \A j \in 1..Len(q) : p[j] = q[j] /\ j # Len(p) /\ j - 1 # Len(p) /\ j \in 0..MaxActions /\ j - 1 \in 0..MaxActions
      /\ 0 # Len(p) /\ 0 \in 0..MaxActions /\ n # Len(p) /\ n \in 0..MaxActions
  BY Bounds
<1>3. /\ InStore(m, p, y, k)
      /\ a.of = m => /\ a.id = Start[m] /\ a.box = Start[m][1] /\ x # None
                     /\ a.kind \in {"move", "copy"} => a.dest # a.box
  BY <1>1, QueueOwn, QueueOther, QueueWhole, StartType
<1>4. \A j \in 1..Len(q) : q[j].of = m /\ q[j].kind = "fetch" => y = x
  <2>1. ASSUME NEW j \in 1..Len(q), q[j].of = m, q[j].kind = "fetch" PROVE a.of # m /\ a.of # None
    BY <2>1, NotCarried
  <2> QED BY <2>1 DEF Effect
<1>5. x \in Mail \cup {None} /\ y \in Mail \cup {None}
  BY <1>2, EffectType DEF Traces
<1> HIDE DEF p, x, y
<1>6. e \in Traces /\ e[Len(p)] = y /\ \A j \in 0..MaxActions : j # Len(p) => e[j] = g[j]
  BY <1>2, <1>5 DEF Traces
<1> HIDE DEF e
<1>7. Trace(m, p, e)
  <2>1. e[0] = Found(m)
    BY <1>1, <1>2, <1>6 DEF Trace
  <2>2. ASSUME NEW j \in 1..Len(p) PROVE e[j] = Effect(m, p[j], e[j - 1])
    <3>1. CASE j \in 1..Len(q)
      BY <1>1, <1>2, <1>6, <3>1 DEF Trace
    <3>2. CASE j = Len(p)
      BY <1>2, <1>6, <3>2 DEF x, y
    <3> QED BY <1>2, <3>1, <3>2
  <2>3. ASSUME NEW j \in 1..Len(p), p[j].of = m
        PROVE /\ p[j].id = Start[m] /\ p[j].box = Start[m][1] /\ e[j - 1] # None
              /\ p[j].kind \in {"move", "copy"} => p[j].dest # p[j].box
              /\ p[j].kind = "fetch" => e[Len(p)] = e[j]
    <3>1. CASE j \in 1..Len(q)
      BY <1>1, <1>2, <1>4, <1>6, <2>3, <3>1 DEF Trace, x
    <3>2. CASE j = Len(p)
      BY <1>2, <1>3, <1>6, <2>3, <3>2 DEF x
    <3> QED BY <1>2, <3>1, <3>2
  <2> QED BY <2>1, <2>2, <2>3 DEF Trace
<1>8. OnServer(m, p, n, s, e[n])
  <2>1. \A f \in 1..n : p[f] = q[f]
    BY <1>2
  <2>2. \A b : Brings(p, n, m, b) <=> Brings(q, n, m, b)
    BY <2>1 DEF Brings
  <2> QED BY <1>1, <1>2, <1>6, <2>2 DEF OnServer
<1>9. InStore(m, p, e[Len(p)], k)
  BY <1>3, <1>6
<1> QED BY <1>6, <1>7, <1>8, <1>9 DEF Tracked, p

LEMMA TrackExecuted ==
  ASSUME TInv, NEW m \in Messages, Origin(srv, Start[m], m),
         NEW q \in Seq(Command), NEW n \in Nat, n + 1 \in 1..Len(q), NEW l, Tracked(m, q, n, srv, l),
         PerBox(q), ~Strays(q), ~Exempt(q, m), NEW a, a = q[n + 1],
         a.id \in Ids => Origin(srv, a.id, a.of),
         Possible(a), NEW c \in Courses(a), NEW s, s = c[Len(c)],
         a.kind # "expunge" /\ a.of # m => \A u \in Uids :
           srv.mail[a.box][u] # None /\ s.mail[a.box][u] = None => srv.mail[a.box][u].of # m
  PROVE  Tracked(m, q, n + 1, s, l)
<1>1. PICK g \in Traces : Trace(m, q, g) /\ OnServer(m, q, n, srv, g[n]) /\ InStore(m, q, g[Len(q)], l)
  BY DEF Tracked
<1>2. (n + 1) - 1 = n
  OBVIOUS
<1>3. /\ g[n + 1] = Effect(m, a, g[n])
      /\ a.of = m => /\ a.id = Start[m] /\ a.box = Start[m][1] /\ g[n] # None
                     /\ a.kind \in {"move", "copy"} => a.dest # a.box
  BY <1>1, <1>2 DEF Trace
<1>4. OnServer(m, q, n + 1, s, g[n + 1])
  BY <1>1, <1>3, ExecuteServer
<1> QED BY <1>1, <1>4 DEF Tracked

(* What the server has is saved here, when it has executed the queue, or   *)
(* has just executed the fetch of it.                                      *)
LEMMA TrackStored ==
  ASSUME NEW m \in Messages, NEW q \in Seq(Command), NEW n \in 0..Len(q), NEW s, NEW l,
         Tracked(m, q, n, s, l), NEW b \in Boxes, NEW i \in Ids, i[1] = b,
         NEW r, r = s.mail[b][i[2]], r # None, i = Start[m] => r.of = m,
         \/ n = Len(q) \/ r.of # m
         \/ n \in 1..Len(q) /\ q[n].of = m /\ q[n].kind = "fetch",
         NEW k, \A y \in Boxes, z \in Ids : k[y][z] = IF y = b /\ z = i THEN r ELSE l[y][z]
  PROVE  Tracked(m, q, n, s, k)
<1>1. PICK g \in Traces : Trace(m, q, g) /\ OnServer(m, q, n, s, g[n]) /\ InStore(m, q, g[Len(q)], l)
  BY DEF Tracked
<1>2. r.of = m => g[n] = g[Len(q)]
  BY <1>1 DEF Trace
<1>3. i = Start[m] => r = g[Len(q)]
  BY <1>1, <1>2 DEF OnServer
<1>4. i[2] \in Uids /\ i = <<b, i[2]>> /\ Start[m] = <<Start[m][1], Start[m][2]>>
  BY StartType DEF Ids
<1>5. ASSUME r.of = m
      PROVE  IF b = Start[m][1] THEN i = Start[m] ELSE Brings(q, Len(q), m, b)
  <2>1. Has(s, b, i[2], m)
    BY <1>5 DEF Has
  <2>2. CASE b = Start[m][1]
    BY <1>1, <1>4, <2>1, <2>2 DEF OnServer
  <2>3. CASE b # Start[m][1]
    <3>1. Brings(q, n, m, b)
      BY <1>1, <1>4, <2>1, <2>3 DEF OnServer
    <3>2. \A f \in 1..n : f \in 1..Len(q)
      OBVIOUS
    <3> QED BY <2>3, <3>1, <3>2 DEF Brings
  <2> QED BY <2>2, <2>3
<1>6. InStore(m, q, g[Len(q)], k)
  BY <1>1, <1>3, <1>5, InStorePut
<1> QED BY <1>1, <1>6 DEF Tracked

-----------------------------------------------------------------------------
(* The steps of the one window *)

LEMMA SoloType ==
  ASSUME TInv, TaskOK
  PROVE  /\ queued \in Seq(Command) /\ Len(queued) \in Nat /\ Len(queued) <= MaxActions
         /\ 1..Len(queued) \subseteq Actions
         /\ task # None => /\ task \in Command /\ Len(queued) < MaxActions
                           /\ All = Append(queued, task)
         /\ task = None => All = queued
         /\ All \in Seq(Command) /\ Len(queued) <= Len(All) /\ Len(All) <= MaxActions
         /\ \A a \in 1..Len(queued) : a \in 1..Len(All) /\ All[a] = queued[a]
         /\ Here \in LocalMail
<1>1. /\ queued \in Seq(Command) /\ Len(queued) \in Nat /\ Len(queued) <= MaxActions
      /\ MaxActions \in Nat /\ Main \in Windows
  BY Bounds DEF TInv, ControlOK
<1>2. 1..Len(queued) \subseteq Actions
  BY <1>1 DEF Actions
<1>3. task # None => /\ task \in Command /\ Len(queued) < MaxActions /\ All = Append(queued, task)
  BY DEF TaskOK, TInv, ControlOK, All
<1>4. task = None => All = queued
  BY DEF All
<1>5. /\ All \in Seq(Command) /\ Len(queued) <= Len(All) /\ Len(All) <= MaxActions
      /\ \A a \in 1..Len(queued) : a \in 1..Len(All) /\ All[a] = queued[a]
  <2>1. CASE task = None
    BY <1>1, <1>4, <2>1
  <2>2. CASE task # None
    BY <1>1, <1>3, <2>2
  <2> QED BY <2>1, <2>2
<1>6. Here \in LocalMail
  BY DEF Here, TInv, ControlOK, StoreOK, LocalMail
<1> QED BY <1>1, <1>2, <1>3, <1>4, <1>5, <1>6

(* What a command that queues an action does.                              *)
Queueing ==
  /\ pc[Main] = "idle" /\ task = None /\ Len(queued) < MaxActions
  /\ UNCHANGED <<srv, journal, queued, done, swept, todo, cur, pulled>>
  /\ pc'[Main] \in {"erase", "journal"} /\ task' \in Command
  /\ task'.of = None <=> task'.kind = "expunge"
  /\ \/ \E b \in Boxes, i \in Ids : Queues(task', b, i, local, Here')
     \/ /\ task'.kind = "expunge"
        /\ \A y \in Boxes, z \in Ids : Here'[y][z] =
             IF y = task'.box /\ local[y][z] # None /\ local[y][z].deleted THEN None
             ELSE local[y][z]

LEMMA QueueingStep ==
  ASSUME OnlyMain, TInv, TaskOK, QueueNext
  PROVE  Queueing
<1>1. Main \in Windows /\ local \in LocalMail /\ None \notin Messages /\ None \notin Mail
      /\ Trash \in Boxes
  BY Bounds DEF TInv, StoreOK, LocalMail
<1>2. /\ pc[Main] = "idle" /\ Len(queued) < MaxActions
      /\ UNCHANGED <<srv, journal, queued, done, swept, todo, cur, pulled>>
  BY DEF QueueNext, QueueMove, QueueCopy, QueueDelete, QueueUndelete, QueueFetch, QueueExpunge,
     Selected, Room, Unqueued, history
<1>3. task = None
  BY <1>2 DEF TaskOK
<1>4. TInv'
  BY TypeStep DEF Next
<1>5. ASSUME pc'[Main] \in {"erase", "journal"} PROVE task' \in Command
  BY <1>4, <1>5 DEF TInv, ControlOK
<1>6. ASSUME NEW b \in Boxes, NEW i \in Ids, local[b][i] # None
      PROVE  /\ local[b][i] \in Mail /\ local[b][i].of \in Messages /\ local[b][i].of # None
             /\ Found(local[b][i].of) # None /\ Found(local[b][i].of).of = local[b][i].of
             /\ \A flag \in BOOLEAN : [local[b][i] EXCEPT !.deleted = flag] =
                                      [of |-> local[b][i].of, deleted |-> flag]
  <2>1. local[b][i] \in Mail
    BY <1>1, <1>6 DEF LocalMail
  <2>2. local[b][i].of \in Messages /\ Found(local[b][i].of) \in Mail
    BY <2>1 DEF Mail, Found
  <2>3. \A flag \in BOOLEAN : [local[b][i] EXCEPT !.deleted = flag] =
                              [of |-> local[b][i].of, deleted |-> flag]
    BY <2>1 DEF Mail
  <2> QED BY <1>1, <2>1, <2>2, <2>3 DEF Found
<1>7. ASSUME NEW b \in Boxes, NEW i \in Ids, NEW d \in Boxes, NEW kind \in Kinds \ {"expunge"},
             Queue(kind, b, i, d), local[b][i] # None, pc'[Main] \in {"erase", "journal"},
             kind = "copy" => d # b,
             \A y \in Boxes, z \in Ids \ {i} : Here'[y][z] = local[y][z],
             Here'[b][i] = Effect(local[b][i].of, task', local[b][i]),
             \A y \in Boxes \ {b} :
               IF kind \in {"move", "copy"} /\ y = d THEN Holds(Here', y, i, local[b][i].of)
               ELSE Here'[y][i] = local[y][i]
      PROVE  Queueing
  <2>1. /\ task'.kind = kind /\ task'.box = b /\ task'.id = i /\ task'.dest = d
        /\ task'.of = local[b][i].of
    BY <1>7 DEF Queue
  <2>2. Queues(task', b, i, local, Here')
    BY <1>7, <2>1 DEF Queues
  <2> QED BY <1>2, <1>3, <1>5, <1>6, <1>7, <2>1, <2>2 DEF Queueing
<1>8. ASSUME NEW b \in Boxes, NEW i \in Ids, NEW d \in Boxes, QueueMove(b, i, d) PROVE Queueing
  <2>1. /\ local[b][i] # None /\ Queue("move", b, i, d) /\ source' = b /\ pc'[Main] = "erase"
        /\ local' = [local EXCEPT ![d][i] = Found(local[b][i].of)] /\ task'.id = i
        /\ task'.kind = "move" /\ task'.of = local[b][i].of
    BY <1>8, MainGoes DEF QueueMove, Selected, Queue
  <2>2. Here' = [local' EXCEPT ![b][i] = None]
    BY <2>1 DEF Here
  <2>3. \A y \in Boxes, z \in Ids : Here'[y][z] =
          IF y = b /\ z = i THEN None ELSE IF y = d /\ z = i THEN Found(local[b][i].of) ELSE local[y][z]
    BY <1>1, <2>1, <2>2 DEF LocalMail
  <2>4. Effect(local[b][i].of, task', local[b][i]) = None
    BY <2>1 DEF Effect
  <2> QED BY <1>6, <1>7, <2>1, <2>3, <2>4 DEF Kinds, Holds
<1>9. ASSUME NEW b \in Boxes, NEW i \in Ids, NEW d \in Boxes, QueueCopy(b, i, d) PROVE Queueing
  <2>1. /\ local[b][i] # None /\ Queue("copy", b, i, d) /\ pc'[Main] = "journal" /\ d # b
        /\ local' = [local EXCEPT ![d][i] = local[b][i]]
        /\ task'.kind = "copy" /\ task'.of = local[b][i].of
    BY <1>9, MainGoes DEF QueueCopy, Selected, Queue
  <2>2. Here' = local'
    BY <2>1 DEF Here
  <2>3. \A y \in Boxes, z \in Ids : Here'[y][z] = IF y = d /\ z = i THEN local[b][i] ELSE local[y][z]
    BY <1>1, <2>1, <2>2 DEF LocalMail
  <2>4. Effect(local[b][i].of, task', local[b][i]) = local[b][i]
    BY <2>1 DEF Effect
  <2> QED BY <1>6, <1>7, <2>1, <2>3, <2>4 DEF Kinds, Holds
<1>10. ASSUME NEW b \in Boxes, NEW i \in Ids, NEW kind \in {"mark", "erase", "unmark", "fetch"},
              Queue(kind, b, i, b), local[b][i] # None, Goto(Main, "journal"),
              local' = [local EXCEPT ![b][i] = Effect(local[b][i].of, task', local[b][i])]
       PROVE  Queueing
  <2> DEFINE r == Effect(local[b][i].of, task', local[b][i])
  <2>1. pc'[Main] = "journal" /\ Here' = local'
    BY <1>10, MainGoes DEF Here
  <2> HIDE DEF r
  <2>2. \A y \in Boxes, z \in Ids : Here'[y][z] = IF y = b /\ z = i THEN r ELSE local[y][z]
    BY <1>1, <1>10, <2>1 DEF LocalMail, r
  <2> QED BY <1>7, <1>10, <2>1, <2>2 DEF Kinds, r
<1>11. ASSUME NEW b \in Boxes, NEW i \in Ids, QueueDelete(b, i) \/ QueueUndelete(b, i) \/ QueueFetch(b, i)
       PROVE  Queueing
  <2> DEFINE r == local[b][i]
  <2>0. r # None
    BY <1>11 DEF QueueDelete, QueueUndelete, QueueFetch, Selected
  <2>1. CASE QueueDelete(b, i) /\ account = "mark"
    <3>1. /\ Queue("mark", b, i, b) /\ Goto(Main, "journal")
          /\ local' = [local EXCEPT ![b][i] = [r EXCEPT !.deleted = TRUE]]
          /\ task'.kind = "mark" /\ task'.of = r.of
      BY <1>1, <2>1 DEF QueueDelete, Queue, LocalMail
    <3>2. Effect(r.of, task', r) = [r EXCEPT !.deleted = TRUE]
      BY <1>6, <2>0, <3>1 DEF Effect
    <3> QED BY <1>10, <2>0, <3>1, <3>2
  <2>2. CASE QueueDelete(b, i) /\ account = "erase"
    <3>1. /\ Queue("erase", b, i, b) /\ Goto(Main, "journal")
          /\ local' = [local EXCEPT ![b][i] = None]
          /\ task'.kind = "erase" /\ task'.of = r.of
      BY <2>2 DEF QueueDelete, Queue
    <3>2. Effect(r.of, task', r) = None
      BY <2>0, <3>1 DEF Effect
    <3> QED BY <1>10, <2>0, <3>1, <3>2
  <2>3. CASE QueueUndelete(b, i)
    <3>1. /\ Queue("unmark", b, i, b) /\ Goto(Main, "journal")
          /\ local' = [local EXCEPT ![b][i] = [r EXCEPT !.deleted = FALSE]]
          /\ task'.kind = "unmark" /\ task'.of = r.of
      BY <1>1, <2>3 DEF QueueUndelete, Queue, LocalMail
    <3>2. Effect(r.of, task', r) = [r EXCEPT !.deleted = FALSE]
      BY <1>6, <2>0, <3>1 DEF Effect
    <3> QED BY <1>10, <2>0, <3>1, <3>2
  <2>4. CASE QueueFetch(b, i)
    <3>1. /\ Queue("fetch", b, i, b) /\ Goto(Main, "journal") /\ local' = local
          /\ task'.kind = "fetch" /\ task'.of = r.of
      BY <2>4 DEF QueueFetch, Queue
    <3>2. Effect(r.of, task', r) = r
      BY <2>0, <3>1 DEF Effect
    <3>3. local = [local EXCEPT ![b][i] = r]
      BY <1>1 DEF LocalMail
    <3> QED BY <1>10, <2>0, <3>1, <3>2, <3>3
  <2> QED BY <1>11, <2>1, <2>2, <2>3, <2>4 DEF QueueDelete
<1>12. ASSUME NEW b \in Boxes, QueueExpunge(b) PROVE Queueing
  <2> DEFINE marked == {i \in Ids : local[b][i] # None /\ local[b][i].deleted}
  <2>1. /\ local' = [local EXCEPT ![b] = [i \in Ids |-> IF i \in marked THEN None ELSE local[b][i]]]
        /\ task' = [kind |-> "expunge", box |-> b, id |-> None, dest |-> b, of |-> None]
        /\ pc'[Main] = "journal"
    BY <1>12, MainGoes DEF QueueExpunge, OnlyMain
  <2>2. Here' = local' /\ task'.kind = "expunge" /\ task'.of = None /\ task'.box = b
    BY <2>1 DEF Here
  <2>3. \A y \in Boxes, z \in Ids : Here'[y][z] =
          IF y = b /\ local[y][z] # None /\ local[y][z].deleted THEN None ELSE local[y][z]
    BY <1>1, <2>1, <2>2 DEF LocalMail
  <2> QED BY <1>2, <1>3, <1>5, <2>1, <2>2, <2>3 DEF Queueing
<1> QED BY <1>8, <1>9, <1>11, <1>12 DEF QueueNext

(* A step queues an action, executes one, saves a message here, or leaves  *)
(* the queue, the server and the local store as they are.                  *)
LEMMA AllStep ==
  ASSUME OnlyMain, TInv, TaskOK, [Next]_vars
  PROVE  /\ \/ Queueing /\ All = queued /\ task' # None /\ All' = Append(queued, task')
            \/ /\ All' = All /\ (task' = None <=> pc'[Main] \notin {"erase", "journal"})
               /\ pc'[Main] # "edit"
               /\ \/ Succeed(Main) \/ StoreNext(Main)
                  \/ UNCHANGED <<srv, swept>> /\ Here' = Here
<1>1. Main \in Windows /\ (task # None => task \in Command) /\ None \notin Command
  BY SoloType, Bounds DEF Command
<1>2. CASE QueueNext
  <2>1. Queueing
    BY <1>2, QueueingStep
  <2>2. All = queued /\ task' # None /\ queued' = queued
    BY <1>1, <2>1 DEF Queueing, All
  <2> QED BY <2>1, <2>2 DEF All
<1>3. CASE EraseSource
  <2>1. /\ pc[Main] = "erase" /\ pc'[Main] = "journal" /\ UNCHANGED <<task, queued, srv, swept>>
        /\ local' = [local EXCEPT ![source][task.id] = None]
    BY <1>3, MainGoes DEF EraseSource, Unqueued, history
  <2>2. Here' = Here
    BY <2>1 DEF Here
  <2>3. task # None
    BY <2>1 DEF TaskOK
  <2> QED BY <2>1, <2>2, <2>3 DEF All
<1>4. CASE Journal
  <2>1. /\ pc[Main] = "journal" /\ pc'[Main] = "idle" /\ UNCHANGED <<srv, swept, local>>
        /\ task' = None /\ queued' = Append(queued, task)
    BY <1>4, MainGoes DEF Journal
  <2>2. task # None
    BY <2>1 DEF TaskOK
  <2> QED BY <2>1, <2>2 DEF All, Here
<1>5. ASSUME UNCHANGED <<task, queued>>, pc[Main] \notin {"erase", "journal"},
             pc'[Main] \notin {"erase", "journal", "edit"},
             UNCHANGED <<srv, swept, local>> \/ Succeed(Main) \/ StoreNext(Main)
      PROVE  /\ All' = All /\ (task' = None <=> pc'[Main] \notin {"erase", "journal"})
             /\ pc'[Main] # "edit"
             /\ \/ Succeed(Main) \/ StoreNext(Main)
                \/ UNCHANGED <<srv, swept>> /\ Here' = Here
  BY <1>5 DEF TaskOK, All, Here
<1>6. CASE StartPass(Main) \/ EndPass(Main) \/ EndSync(Main) \/ Refused(Main) \/ SaveSeen(Main)
           \/ \E b \in Synced, full \in BOOLEAN : Synchronise(Main, b, full)
  BY <1>5, <1>6, MainGoes DEF StartPass, EndPass, EndSync, Refused, SaveSeen, Synchronise, files,
     history, thread
<1>7. CASE MarkRunning(Main) \/ Remove(Main) \/ Keep(Main)
  BY <1>5, <1>7, MainGoes DEF MarkRunning, Remove, Keep
<1>8. CASE Succeed(Main)
  BY <1>5, <1>8, MainGoes DEF Succeed, thread
<1>9. CASE StoreNext(Main)
  BY <1>5, <1>9 DEF StoreNext
<1>10. CASE UNCHANGED vars
  BY <1>10 DEF vars, files, thread, history, All, Here, TaskOK
<1> QED BY SoloStep, <1>2, <1>3, <1>4, <1>6, <1>7, <1>8, <1>9, <1>10

LEMMA TaskOKStep ==
  ASSUME OnlyMain, TInv, TaskOK, [Next]_vars
  PROVE  TaskOK'
<1>1. CASE Queueing /\ All = queued /\ task' # None /\ All' = Append(queued, task')
  <2>1. \A a \in 1..Len(All') : a \in 1..Len(queued) \/ a = Len(queued) + 1
    BY <1>1, SoloType
  <2>2. /\ \A a \in 1..Len(queued) : All'[a] = All[a] /\ a \in 1..Len(All)
        /\ All'[Len(queued) + 1] = task'
    BY <1>1, SoloType
  <2>3. PerBox(All')
    BY <1>1, <2>1, <2>2 DEF TaskOK, PerBox, Queueing
  <2> QED BY <1>1, <2>3 DEF TaskOK, Queueing
<1>2. CASE All' = All /\ (task' = None <=> pc'[Main] \notin {"erase", "journal"}) /\ pc'[Main] # "edit"
  BY <1>2 DEF TaskOK
<1> QED BY <1>1, <1>2, AllStep

LEMMA PulledOKStep ==
  ASSUME OnlyMain, TInv, TaskOK, PulledOK, [Next]_vars
  PROVE  PulledOK'
<1> SUFFICES ASSUME pc'[Main] \in {"state", "store"}, NEW u \in DOMAIN pulled'[Main].mail
             PROVE  pulled'[Main].mail[u] = srv'.mail[pulled'[Main].box][u]
  BY DEF PulledOK
<1>1. srv' = srv
  <2>1. ~Succeed(Main)
    BY MainGoes DEF Succeed
  <2> QED BY <2>1, AllStep DEF Queueing, StoreNext
<1>2. pulled'[Main].mail[u] = srv.mail[pulled'[Main].box][u]
  BY Bounds, PulledStep DEF PulledOK
<1> QED BY <1>1, <1>2

LEMMA StartOKStep ==
  ASSUME OnlyMain, TInv, PulledOK, StartOK, [Next]_vars
  PROVE  StartOK'
<1> SUFFICES ASSUME NEW m \in Messages
             PROVE  /\ Origin(srv', Start[m], m)
                    /\ \A b \in Boxes : local'[b][Start[m]] # None => local'[b][Start[m]].of = m
  BY DEF StartOK
<1>1. Start[m] \in Ids /\ Start[m][1] \in Boxes /\ Start[m][2] \in Uids
  BY StartType
<1>2. Origin(srv, Start[m], m) /\ \A b \in Boxes : local[b][Start[m]] # None => local[b][Start[m]].of = m
  BY DEF StartOK
<1>3. Origin(srv', Start[m], m)
  BY <1>1, <1>2, OriginKept
<1>4. ASSUME NEW b \in Boxes, local'[b][Start[m]] # None PROVE local'[b][Start[m]].of = m
  <2> DEFINE x == local'[b][Start[m]].of
  <2>1. From(Start[m], x)
    BY <1>1, <1>4, LocalStep
  <2> HIDE DEF x
  <2>2. CASE \E d \in Boxes : local[d][Start[m]] # None /\ local[d][Start[m]].of = x
    BY <1>2, <2>2 DEF x
  <2>3. CASE srv.mail[Start[m][1]][Start[m][2]] # None /\ srv.mail[Start[m][1]][Start[m][2]].of = x
    BY <1>2, <2>3 DEF Origin, x
  <2>4. ASSUME NEW w \in Windows, pc[w] = "store", pulled[w].box = Start[m][1],
               Start[m][2] \in DOMAIN pulled[w].mail, pulled[w].mail[Start[m][2]].of = x
        PROVE  x = m
    <3>1. w = Main
      BY DEF OnlyMain
    <3>2. /\ pulled[w].mail[Start[m][2]] = srv.mail[Start[m][1]][Start[m][2]]
          /\ pulled[w].mail[Start[m][2]] # None
      BY <2>4, <3>1, PulledMail, Bounds DEF PulledOK
    <3> QED BY <1>2, <2>4, <3>2 DEF Origin
  <2> QED BY <2>1, <2>2, <2>3, <2>4 DEF From, x
<1> QED BY <1>3, <1>4

LEMMA SoloKept ==
  ASSUME OnlyMain, Solo, [Next]_vars
  PROVE  Solo'
BY TypeStep, LocalIdsStep, TaskIdsStep, QueuedIdsStep, PulledIdsStep, DoneStep, TaskOKStep,
   PulledOKStep, StartOKStep DEF Solo, IdsOK

LEMMA StraysStep ==
  ASSUME OnlyMain, TInv, TaskOK, [Next]_vars, Strays(All)
  PROVE  Strays(All')
<1>1. CASE All' = All
  BY <1>1
<1>2. CASE All' = Append(queued, task') /\ All = queued
  BY <1>2, SoloType DEF Strays
<1> QED BY <1>1, <1>2, AllStep

(* What cannot be replayed never can be.                                   *)
LEMMA StuckStep ==
  ASSUME OnlyMain, Solo, ~Strays(All), [Next]_vars, Stuck
  PROVE  Stuck'
<1>0. /\ TInv /\ TaskOK /\ ControlOK /\ Main \in Windows
  BY Bounds DEF Solo, TInv
<1>1. PICK a \in 1..Len(queued) : a \notin done /\ journal[a] = "waiting" /\ ~Possible(queued[a])
  BY DEF Stuck
<1>2. /\ a \in Actions /\ queued[a] \in Command /\ ~Displaced(queued[a])
      /\ queued[a].id \in Ids => Origin(srv, queued[a].id, queued[a].of)
      /\ a \in 1..Len(queued') /\ queued'[a] = queued[a]
  <2>1. a \in Actions /\ queued[a] \in Command /\ queued \in Seq(Command)
    BY <1>0, SoloType
  <2>2. ~Displaced(queued[a])
    BY <1>0, SoloType DEF Strays
  <2>3. queued[a].id \in Ids => Origin(srv, queued[a].id, queued[a].of)
    BY DEF Solo, IdsOK, QueuedIds
  <2>4. a \in 1..Len(queued') /\ queued'[a] = queued[a]
    BY <1>0, <2>1, QueuedStep
  <2> QED BY <2>1, <2>2, <2>3, <2>4
<1>3. ~Possible(queued[a])'
  <2> DEFINE x == queued[a]
  <2>1. /\ x.box \in Boxes /\ x.dest \in Boxes /\ (x.kind = "fetch" => x.id \in Ids)
        /\ x.id \in Ids => x.id[1] = x.box /\ x.id[2] \in Uids
    BY <1>2, Bounds DEF Command, Action, Displaced, Ids
  <2> HIDE DEF x
  <2>2. CASE x.kind = "fetch" /\ srv.mail[x.box][x.id[2]] = None
    <3>1. x.id[2] < srv.next[x.box]
      BY <1>2, <2>1, <2>2 DEF Origin, x
    <3>2. srv'.mail[x.box][x.id[2]] = None
      BY <1>0, <2>1, <2>2, <3>1, ServerKept
    <3> QED BY <1>2, <2>2, <3>2 DEF Possible, x
  <2>3. CASE x.kind \in {"move", "copy"} /\ ~(srv.next[x.dest] <= MaxUid)
    <3>1. /\ srv.next[x.dest] \in Nat /\ srv'.next[x.dest] \in Nat
          /\ srv.next[x.dest] <= srv'.next[x.dest]
      <4>1. srv \in Server /\ srv' \in Server
        BY <1>0, ServerKept DEF TInv, StoreOK
      <4>2. 1..(MaxUid + 1) \subseteq Nat
        BY Bounds
      <4>3. srv.next[x.dest] \in 1..(MaxUid + 1) /\ srv'.next[x.dest] \in 1..(MaxUid + 1)
        BY <2>1, <4>1 DEF Server
      <4>4. srv.next[x.dest] <= srv'.next[x.dest]
        BY <1>0, <2>1, ServerKept
      <4> QED BY <4>2, <4>3, <4>4
    <3>2. ~(srv'.next[x.dest] <= MaxUid)
      BY <2>3, <3>1, Bounds
    <3> QED BY <1>2, <2>3, <3>2 DEF Possible, x
  <2> QED BY <1>1, <2>2, <2>3 DEF Possible, x
<1>4. journal'[a] = "waiting" /\ a \notin done'
  <2>1. CASE QueueNext
    BY <1>0, <1>1, <2>1, QueueingStep DEF Queueing
  <2>2. CASE EraseSource
    BY <1>1, <2>2 DEF EraseSource, Unqueued, history
  <2>3. CASE Journal
    <3>1. a # Len(queued) + 1
      BY <1>0, SoloType
    <3> QED BY <1>0, <1>1, <1>2, <2>3, <3>1 DEF Journal, OnlyMain, ControlOK
  <2>4. CASE StartPass(Main) \/ EndPass(Main) \/ EndSync(Main) \/ Refused(Main) \/ SaveSeen(Main)
             \/ StoreNext(Main) \/ \E b \in Synced, full \in BOOLEAN : Synchronise(Main, b, full)
    BY <1>1, <2>4 DEF StartPass, EndPass, EndSync, Refused, SaveSeen, StoreNext, Synchronise, files, history
  <2>5. CASE MarkRunning(Main)
    <3>1. Least(todo[Main]) \in Actions /\ Save(Least(todo[Main]), "waiting") /\ UNCHANGED done
      BY <1>0, <2>5, NextTodo DEF MarkRunning
    <3> QED BY <1>0, <1>1, <1>2, <3>1, SaveWaiting
  <2>6. CASE Keep(Main)
    <3>1. cur[Main] \in Actions /\ Save(cur[Main], "waiting") /\ UNCHANGED done
      BY <1>0, <2>6, CurType DEF Keep, AtAction
    <3> QED BY <1>0, <1>1, <1>2, <3>1, SaveWaiting
  <2>7. CASE Remove(Main)
    <3>1. cur[Main] # a
      BY <1>0, <1>1, <2>7 DEF Remove, Solo, DoneOK
    <3> QED BY <1>0, <1>1, <1>2, <2>7, <3>1 DEF Remove, OnlyMain, ControlOK
  <2>8. CASE Succeed(Main)
    <3>1. cur[Main] # a
      BY <1>1, <2>8 DEF Succeed
    <3> QED BY <1>1, <2>8, <3>1 DEF Succeed, Record
  <2>9. CASE UNCHANGED vars
    BY <1>1, <2>9 DEF vars, files, history
  <2> QED BY <1>0, SoloStep, <2>1, <2>2, <2>3, <2>4, <2>5, <2>6, <2>7, <2>8, <2>9
<1> QED BY <1>2, <1>3, <1>4 DEF Stuck

(* The action a pass executes is the next one of the queue; what a         *)
(* synchronisation saves, it was sent when all were executed.              *)
LEMMA OrderedStep ==
  ASSUME OnlyMain, Solo, ~Stuck, [Next]_vars, NEW n \in Nat, Ordered(n)
  PROVE  /\ Succeed(Main) => Ordered(n + 1)' /\ cur[Main] = n + 1
         /\ ~Succeed(Main) => Ordered(n)'
         /\ StoreNext(Main) => n = Len(queued)
<1> DEFINE L == Len(queued)
<1>1. /\ TInv /\ TaskOK /\ ControlOK /\ Main \in Windows /\ L \in Nat /\ L <= MaxActions
      /\ MaxActions \in Nat /\ n <= L /\ 1..L \subseteq Actions /\ queued \in Seq(Command)
  BY Bounds, SoloType DEF Solo, TInv, Ordered
<1>2. Actions = 1..MaxActions
  BY DEF Actions
<1>3. StoreNext(Main) => n = L
  BY DEF StoreNext, Ordered
<1>4. ASSUME UNCHANGED <<journal, queued, done>>, pc[Main] # "ok", pc'[Main] \notin {"ok", "failed"},
             pc'[Main] = "next" => todo'[Main] = (n + 1)..L,
             pc'[Main] = "run" => cur'[Main] = n + 1 /\ todo'[Main] = (n + 2)..L,
             pc'[Main] \in {"state", "store"} => n = L
      PROVE  Ordered(n)'
  BY <1>4 DEF Ordered
<1>5. CASE QueueNext
  <2>1. Queueing
    BY <1>1, <1>5, QueueingStep
  <2>2. ~Succeed(Main)
    BY <2>1 DEF Queueing, Succeed
  <2> QED BY <1>3, <1>4, <2>1, <2>2 DEF Queueing
<1>6. CASE EraseSource
  <2>1. pc[Main] = "erase" /\ pc'[Main] = "journal" /\ UNCHANGED <<journal, queued, done>>
    BY <1>1, <1>6, MainGoes DEF EraseSource, Unqueued, history
  <2> QED BY <1>3, <1>4, <2>1 DEF Succeed
<1>7. CASE Journal
  <2>1. /\ pc[Main] = "journal" /\ pc'[Main] = "idle" /\ queued' = Append(queued, task)
        /\ \A a \in Actions : journal'[a] = IF a = L + 1 THEN "waiting" ELSE journal[a]
        /\ UNCHANGED done
    BY <1>1, <1>7, MainGoes DEF Journal, OnlyMain, ControlOK
  <2>2. Len(queued') = L + 1
    BY <1>1, <2>1
  <2>3. \A a \in Actions : journal'[a] = IF a \in (n + 1)..(L + 1) THEN "waiting" ELSE "absent"
    BY <1>1, <1>2, <2>1 DEF Ordered
  <2>4. n \in 0..(L + 1) /\ done' = 1..n
    BY <1>1, <2>1 DEF Ordered
  <2>5. Ordered(n)'
    BY <2>1, <2>2, <2>3, <2>4 DEF Ordered
  <2> QED BY <1>3, <2>1, <2>5 DEF Succeed
<1>8. CASE StartPass(Main)
  <2>1. /\ pc[Main] = "idle" /\ pc'[Main] = "next" /\ UNCHANGED <<journal, queued, done>>
        /\ todo'[Main] = Listed
    BY <1>1, <1>8, MainGoes DEF StartPass, files
  <2>2. Listed = (n + 1)..L
    BY <1>1, <1>2, <2>1 DEF Listed, Ordered
  <2> QED BY <1>3, <1>4, <2>1, <2>2 DEF Succeed
<1>9. CASE MarkRunning(Main)
  <2> DEFINE a == Least(todo[Main])
  <2>1. /\ pc[Main] = "next" /\ pc'[Main] = "run" /\ UNCHANGED <<queued, done>>
        /\ cur'[Main] = a /\ todo'[Main] = todo[Main] \ {a} /\ Save(a, "waiting") /\ todo[Main] # {}
    BY <1>1, <1>9, MainGoes DEF MarkRunning
  <2>2. todo[Main] = (n + 1)..L
    BY <2>1 DEF Ordered
  <2>3. a = n + 1 /\ n + 1 <= L
    <3>1. n + 1 <= L
      BY <1>1, <2>1, <2>2
    <3>2. n + 1 \in todo[Main] /\ \A y \in todo[Main] : n + 1 <= y
      BY <1>1, <2>2, <3>1
    <3>3. \A y \in todo[Main] : (\A z \in todo[Main] : y <= z) => y = n + 1
      BY <1>1, <2>2, <3>2
    <3> QED BY <3>1, <3>2, <3>3 DEF Least
  <2> HIDE DEF a
  <2>4. a \in Actions /\ journal[a] = "waiting"
    BY <1>1, <2>1, <2>3 DEF Ordered
  <2>5. \A x \in Actions : journal'[x] = journal[x]
    BY <1>1, <2>1, <2>4, SaveWaiting
  <2>6. todo'[Main] = (n + 2)..L
    BY <1>1, <2>1, <2>2, <2>3
  <2>7. Ordered(n)'
    BY <2>1, <2>3, <2>5, <2>6 DEF Ordered
  <2> QED BY <1>3, <2>1, <2>7 DEF Succeed
<1>10. CASE Succeed(Main)
  <2>1. /\ pc[Main] = "run" /\ pc'[Main] = "ok" /\ UNCHANGED <<journal, queued, cur, todo>>
        /\ done' = done \cup {cur[Main]}
    BY <1>1, <1>10, MainGoes DEF Succeed, Record, thread
  <2>2. cur[Main] = n + 1 /\ todo[Main] = (n + 2)..L
    BY <2>1 DEF Ordered
  <2>3. n + 1 <= L
    BY <1>1, <2>1, <2>2, CurType DEF AtAction
  <2>4. n + 1 \in 0..L /\ done' = 1..(n + 1) /\ (n + 1) + 1 = n + 2
    BY <1>1, <2>1, <2>2, <2>3 DEF Ordered
  <2>5. \A a : a \in (n + 1)..L <=> a \in (n + 2)..L \/ a = n + 1
    BY <1>1, <2>3
  <2>6. Ordered(n + 1)'
    BY <2>1, <2>2, <2>4, <2>5 DEF Ordered
  <2> QED BY <1>3, <1>10, <2>2, <2>6
<1>11. CASE Remove(Main)
  <2>1. /\ pc[Main] = "ok" /\ pc'[Main] = "next" /\ UNCHANGED <<queued, todo, done>>
        /\ cur[Main] = n /\ todo[Main] = (n + 1)..L
    BY <1>1, <1>11, MainGoes DEF Remove, Ordered
  <2>2. \A a \in Actions : journal'[a] = IF a = n THEN "absent" ELSE journal[a]
    BY <1>1, <1>11, <2>1 DEF Remove, OnlyMain, ControlOK
  <2>3. Ordered(n)'
    BY <2>1, <2>2 DEF Ordered
  <2> QED BY <1>3, <2>1, <2>3 DEF Succeed
<1>12. CASE Keep(Main)
  BY <1>12 DEF Keep, Ordered
<1>13. CASE EndPass(Main) \/ EndSync(Main) \/ SaveSeen(Main)
  <2>1. /\ UNCHANGED <<journal, queued, done>> /\ pc[Main] \in {"next", "state", "store"}
        /\ pc'[Main] \in {"idle", "store"} /\ (pc'[Main] = "store" => pc[Main] = "state")
    BY <1>1, <1>13, MainGoes DEF EndPass, EndSync, SaveSeen, files, history
  <2>2. pc'[Main] = "store" => n = L
    BY <2>1 DEF Ordered
  <2> QED BY <1>3, <1>4, <2>1, <2>2 DEF Succeed
<1>14. CASE StoreNext(Main)
  <2>1. UNCHANGED <<journal, queued, done, pc>> /\ pc[Main] = "store"
    BY <1>14 DEF StoreNext, history
  <2> QED BY <1>3, <1>4, <1>14, <2>1 DEF Succeed
<1>15. CASE Refused(Main)
  <2>1. pc[Main] = "run" /\ ~Possible(queued[cur[Main]])
    BY <1>15 DEF Refused, OnlyMain
  <2>2. cur[Main] = n + 1 /\ cur[Main] \in 1..L
    BY <1>1, <2>1, CurType DEF Ordered, AtAction
  <2>3. n + 1 \notin done /\ journal[n + 1] = "waiting"
    BY <1>1, <2>1, <2>2 DEF Ordered
  <2> QED BY <2>1, <2>2, <2>3 DEF Stuck
<1>16. ASSUME NEW b \in Synced, NEW full \in BOOLEAN, Synchronise(Main, b, full)
       PROVE  n = L /\ Ordered(n)' /\ ~Succeed(Main)
  <2>1. /\ UNCHANGED <<journal, queued, done>> /\ pc[Main] = "next" /\ pc'[Main] = "state"
        /\ todo[Main] = {}
    BY <1>1, <1>16, MainGoes DEF Synchronise, files, history
  <2>2. n = L
    BY <1>1, <2>1 DEF Ordered
  <2> QED BY <1>4, <2>1, <2>2 DEF Succeed
<1>17. CASE UNCHANGED vars
  <2>1. UNCHANGED <<journal, queued, done, pc, todo, cur>>
    BY <1>17 DEF vars, files, thread, history
  <2>2. Ordered(n)'
    BY <2>1 DEF Ordered
  <2>3. ~Succeed(Main)
    BY <1>1, <2>1, MainGoes DEF Succeed
  <2> QED BY <1>3, <2>2, <2>3
<1> QED BY SoloStep, <1>1, <1>3, <1>5, <1>6, <1>7, <1>8, <1>9, <1>10, <1>11, <1>12, <1>13, <1>14,
           <1>15, <1>16, <1>17

(* The messages the properties are about, after n actions are executed.    *)
Tracks(n) == \A m \in Messages \ swept : Exempt(All, m) \/ Tracked(m, All, n, srv, Here)

(* A message stays exempt.                                                 *)
LEMMA ExemptKept ==
  ASSUME NEW q \in Seq(Command), NEW a, NEW m, Exempt(q, m)
  PROVE  Exempt(Append(q, a), m)
<1>1. \A f \in 1..Len(q) : f \in 1..Len(Append(q, a)) /\ Append(q, a)[f] = q[f]
  OBVIOUS
<1> QED BY <1>1 DEF Exempt

LEMMA TracksExecuted ==
  ASSUME OnlyMain, Solo, ~Strays(All), Succeed(Main), NEW n \in Nat, cur[Main] = n + 1,
         NEW m \in Messages, m \notin swept', ~Exempt(All, m), Tracked(m, All, n, srv, Here)
  PROVE  Tracked(m, All', n + 1, srv', Here')
<1> DEFINE a == queued[n + 1]
<1>1. /\ TInv /\ TaskOK /\ StartOK /\ ControlOK /\ IdsOK /\ Main \in Windows
      /\ local \in LocalMail
  BY Bounds DEF Solo, TInv, StoreOK, LocalMail
<1>2. /\ pc[Main] = "run" /\ pc'[Main] = "ok" /\ UNCHANGED <<queued, task>>
      /\ Possible(a) /\ local' = Refetched(a)
      /\ \E c \in Courses(a) : srv' = c[Len(c)]
      /\ swept' = swept \cup {x \in Messages \ {a.of} : a.kind # "expunge" /\ \E u \in Uids :
                                /\ srv.mail[a.box][u] # None /\ srv'.mail[a.box][u] = None
                                /\ srv.mail[a.box][u].of = x}
  BY <1>1, MainGoes DEF Succeed, Record, thread
<1>3. /\ All = queued /\ All' = queued /\ Here = local /\ Here' = local' /\ queued \in Seq(Command)
      /\ n + 1 \in 1..Len(queued) /\ a \in Command /\ ~Displaced(a)
      /\ a.id \in Ids => Origin(srv, a.id, a.of)
  <2>1. task = None
    BY <1>1, <1>2 DEF TaskOK
  <2>2. n + 1 \in 1..Len(queued) /\ a \in Command
    BY <1>1, <1>2, CurType DEF AtAction
  <2>3. All = queued /\ queued \in Seq(Command)
    BY <1>1, <2>1, SoloType
  <2> QED BY <1>1, <1>2, <2>1, <2>2, <2>3 DEF All, Here, Strays, IdsOK, QueuedIds
<1> HIDE DEF a
<1>4. Origin(srv, Start[m], m) /\ PerBox(queued) /\ ~Strays(queued) /\ ~Exempt(queued, m)
      /\ Tracked(m, queued, n, srv, local)
  BY <1>1, <1>3 DEF StartOK, TaskOK
<1>5. PICK c \in Courses(a) : srv' = c[Len(c)]
  BY <1>2
<1>6. a.kind # "expunge" /\ a.of # m => \A u \in Uids :
         srv.mail[a.box][u] # None /\ srv'.mail[a.box][u] = None => srv.mail[a.box][u].of # m
  BY <1>2
<1>7. Tracked(m, queued, n + 1, srv', local)
  <2> DEFINE s == srv'
  <2>1. s = c[Len(c)]
    BY <1>5
  <2>2. a.kind # "expunge" /\ a.of # m => \A u \in Uids :
           srv.mail[a.box][u] # None /\ s.mail[a.box][u] = None => srv.mail[a.box][u].of # m
    BY <1>6
  <2> HIDE DEF s
  <2>3. a = queued[n + 1]
    BY DEF a
  <2>4. Tracked(m, queued, n + 1, s, local)
    BY <1>1, <1>2, <1>3, <1>4, <2>1, <2>2, <2>3, TrackExecuted
  <2> QED BY <2>4 DEF s
<1>8. CASE a.kind # "fetch"
  BY <1>2, <1>3, <1>7, <1>8 DEF Refetched
<1>9. CASE a.kind = "fetch"
  <2> DEFINE i == <<a.box, a.id[2]>>
             r == srv.mail[a.box][a.id[2]]
  <2>1. a.id \in Ids /\ a.id = i /\ a.box \in Boxes /\ i[1] = a.box /\ i[2] = a.id[2]
    BY <1>3, <1>9, Bounds DEF Command, Action, Displaced, Ids
  <2>2. srv' = srv
    <3>1. c = <<srv>>
      BY <1>9 DEF Courses
    <3> QED BY <1>5, <3>1
  <2>3. r # None /\ r.of = a.of
    BY <1>2, <1>3, <1>9, <2>1 DEF Possible, Origin
  <2>4. i = Start[m] => r.of = m
    BY <1>4, <2>1, <2>3 DEF Origin
  <2>5. local' = [local EXCEPT ![a.box][i] = r]
    BY <1>2, <1>9 DEF Refetched
  <2> HIDE DEF i
  <2>6. \A y \in Boxes, z \in Ids : local'[y][z] = IF y = a.box /\ z = i THEN r ELSE local[y][z]
    BY <1>1, <2>1, <2>5 DEF LocalMail
  <2>7. r.of # m \/ (n + 1 \in 1..Len(queued) /\ queued[n + 1].of = m /\ queued[n + 1].kind = "fetch")
    BY <1>3, <1>9, <2>3 DEF a
  <2>8. r = srv.mail[a.box][i[2]]
    BY <2>1
  <2>9. n + 1 \in 0..Len(queued)
    BY <1>3
  <2> HIDE DEF r
  <2>10. Tracked(m, queued, n + 1, srv, local')
    BY SMTT(30), <1>3, <1>7, <2>1, <2>2, <2>3, <2>4, <2>6, <2>7, <2>8, <2>9, TrackStored
  <2> QED BY <1>3, <2>2, <2>10
<1> QED BY <1>8, <1>9

LEMMA TracksStored ==
  ASSUME OnlyMain, Solo, StoreNext(Main), NEW m \in Messages,
         Tracked(m, All, Len(queued), srv, Here)
  PROVE  Tracked(m, All', Len(queued), srv', Here')
<1> DEFINE got == pulled[Main]
           u == Least(DOMAIN got.mail)
           i == <<got.box, u>>
           r == got.mail[u]
<1>1. /\ TInv /\ TaskOK /\ StartOK /\ PulledOK /\ ControlOK /\ Main \in Windows
      /\ local \in LocalMail
  BY Bounds DEF Solo, TInv, StoreOK, LocalMail
<1>2. /\ pc[Main] = "store" /\ UNCHANGED <<srv, queued, task, pc>> /\ DOMAIN got.mail # {}
      /\ local' = [local EXCEPT ![got.box][i] = r]
  BY DEF StoreNext, OnlyMain
<1>3. got.box \in Boxes /\ u \in Uids /\ u \in DOMAIN got.mail /\ r \in Mail /\ i \in Ids
  BY <1>1, <1>2, PulledMail DEF Ids
<1>4. r = srv.mail[got.box][u] /\ r # None
  BY <1>1, <1>2, <1>3, Bounds DEF PulledOK
<1>5. /\ task = None /\ All = queued /\ All' = queued /\ Here = local /\ Here' = local'
      /\ queued \in Seq(Command) /\ Len(queued) \in Nat
  <2>1. task = None
    BY <1>1, <1>2 DEF TaskOK
  <2> QED BY <1>1, <1>2, <2>1, SoloType DEF All, Here
<1>6. Origin(srv, Start[m], m)
  BY <1>1 DEF StartOK
<1>7. i[1] = got.box /\ i[2] = u
  OBVIOUS
<1> DEFINE b == got.box
<1> HIDE DEF i, r, b, u
<1>8. i = Start[m] => r.of = m
  BY <1>4, <1>6, <1>7 DEF Origin, u, r
<1>9. \A y \in Boxes, z \in Ids : local'[y][z] = IF y = b /\ z = i THEN r ELSE local[y][z]
  BY <1>1, <1>2, <1>3 DEF LocalMail, b
<1>10. b \in Boxes /\ i[1] = b /\ r = srv.mail[b][i[2]]
  BY <1>3, <1>4, <1>7 DEF b
<1>11. Len(queued) \in 0..Len(queued)
  BY <1>5
<1>12. Tracked(m, queued, Len(queued), srv, local')
  BY SMTT(30), <1>3, <1>4, <1>5, <1>8, <1>9, <1>10, <1>11, TrackStored
<1> QED BY <1>2, <1>5, <1>12

LEMMA TracksStep ==
  ASSUME OnlyMain, Solo, ~Strays(All), ~Stuck, [Next]_vars, NEW n \in Nat, Ordered(n), Tracks(n)
  PROVE  \E k \in Nat : Ordered(k)' /\ Tracks(k)'
<1>1. /\ TInv /\ TaskOK /\ StartOK /\ n \in 0..Len(queued) /\ queued \in Seq(Command)
      /\ Len(queued) \in Nat /\ All \in Seq(Command)
  BY SoloType DEF Solo, Ordered
<1>2. CASE Succeed(Main)
  <2>1. Ordered(n + 1)' /\ cur[Main] = n + 1
    BY <1>2, OrderedStep
  <2>2. All' = All
    BY <1>1, <1>2, <2>1, AllStep DEF Queueing, Succeed
  <2>3. ASSUME NEW m \in Messages \ swept' PROVE Exempt(All', m) \/ Tracked(m, All', n + 1, srv', Here')
    <3>1. m \notin swept
      BY <1>2, <2>3 DEF Succeed, Record
    <3> QED BY <1>2, <2>1, <2>2, <2>3, <3>1, TracksExecuted DEF Tracks
  <2>4. Tracks(n + 1)'
    BY <2>3 DEF Tracks
  <2> QED BY <2>1, <2>4
<1>3. CASE StoreNext(Main)
  <2>1. Ordered(n)' /\ n = Len(queued)
    BY <1>3, OrderedStep DEF StoreNext, Succeed
  <2>2. All' = All /\ swept' = swept
    BY <1>1, <1>3, AllStep DEF Queueing, StoreNext, history
  <2>3. ASSUME NEW m \in Messages \ swept' PROVE Exempt(All', m) \/ Tracked(m, All', n, srv', Here')
    BY <1>3, <2>1, <2>2, <2>3, TracksStored DEF Tracks
  <2>4. Tracks(n)'
    BY <2>3 DEF Tracks
  <2> QED BY <2>1, <2>4
<1>4. CASE ~Succeed(Main) /\ All' = All /\ UNCHANGED <<srv, swept>> /\ Here' = Here
  <2>1. Ordered(n)'
    BY <1>4, OrderedStep
  <2>2. Tracks(n)'
    BY <1>4 DEF Tracks
  <2> QED BY <2>1, <2>2
<1>5. CASE Queueing /\ All = queued /\ task' # None /\ All' = Append(queued, task')
  <2>1. ~Succeed(Main)
    BY <1>5 DEF Queueing, Succeed
  <2>2. Ordered(n)'
    BY <2>1, OrderedStep
  <2>3. /\ Here = local /\ UNCHANGED <<srv, swept>> /\ Len(queued) < MaxActions
        /\ task' \in Command /\ (task'.of = None <=> task'.kind = "expunge")
    BY <1>5 DEF Queueing, Here
  <2> DEFINE a == task'
             l == Here'
  <2>4. ASSUME NEW m \in Messages, Tracked(m, queued, n, srv, local), ~Exempt(Append(queued, a), m)
        PROVE  Tracked(m, Append(queued, a), n, srv, l)
    <3>1. a \in Command /\ (a.of = None <=> a.kind = "expunge")
      BY <2>3
    <3>2. \/ \E b \in Boxes, i \in Ids : Queues(a, b, i, local, l)
          \/ /\ a.kind = "expunge"
             /\ \A y \in Boxes, z \in Ids : l[y][z] =
                  IF y = a.box /\ local[y][z] # None /\ local[y][z].deleted THEN None
                  ELSE local[y][z]
      BY <1>5 DEF Queueing
    <3>3. \A y \in Boxes : local[y][Start[m]] # None => local[y][Start[m]].of = m
      BY <1>1 DEF StartOK
    <3> HIDE DEF a, l
    <3> QED BY <1>1, <2>3, <2>4, <3>1, <3>2, <3>3, TrackQueued
  <2>5. ASSUME NEW m \in Messages \ swept' PROVE Exempt(All', m) \/ Tracked(m, All', n, srv', Here')
    <3>1. Exempt(queued, m) \/ Tracked(m, queued, n, srv, local)
      BY <1>5, <2>3 DEF Tracks
    <3>2. Exempt(queued, m) => Exempt(Append(queued, task'), m)
      BY <1>1, ExemptKept
    <3> QED BY <1>5, <2>3, <2>4, <3>1, <3>2
  <2>6. Tracks(n)'
    BY <2>5 DEF Tracks
  <2> QED BY <2>2, <2>6
<1> QED BY <1>1, <1>2, <1>3, <1>4, <1>5, AllStep

LEMMA StartMail ==
  ASSUME NEW m \in Messages
  PROVE  /\ InitialMail[Start[m][1]][Start[m][2]] = Found(m)
         /\ \A b \in Boxes, u \in Uids :
              InitialMail[b][u] # None /\ InitialMail[b][u].of = m => Start[m] = <<b, u>>
         /\ Start[m][2] < Given(Start[m][1]) + 1
         /\ Found(m) \in Mail /\ Found(m).of = m /\ Found(m) # None
<1>1. /\ Start[m][1] \in Boxes /\ Start[m][2] \in Uids /\ Start[m] \in Ids
      /\ Start[m] = <<Start[m][1], Start[m][2]>> /\ None \notin Mail
  BY StartType, Bounds DEF Ids
<1>2. Found(m) \in Mail /\ Found(m).of = m /\ Found(m) # None
  <2>1. Found(m) \in Mail /\ Found(m).of = m
    BY DEF Found, Mail
  <2> QED BY <1>1, <2>1
<1>3. \A b \in Boxes, u \in Uids : InitialMail[b][u] =
        IF \E x \in Messages : Start[x] = <<b, u>>
        THEN Found(CHOOSE x \in Messages : Start[x] = <<b, u>>) ELSE None
  BY DEF InitialMail
<1>4. ASSUME NEW b \in Boxes, NEW u \in Uids, NEW y \in Messages, Start[y] = <<b, u>>
      PROVE  (CHOOSE x \in Messages : Start[x] = <<b, u>>) = y
  <2> DEFINE z == CHOOSE x \in Messages : Start[x] = <<b, u>>
  <2>1. z \in Messages /\ Start[z] = <<b, u>>
    BY <1>4
  <2> HIDE DEF z
  <2>2. Start[z] = Start[y]
    BY <1>4, <2>1
  <2>3. z = y
    BY <2>1, <2>2, ImapJournalAssumption
  <2> QED BY <2>3 DEF z
<1>5. InitialMail[Start[m][1]][Start[m][2]] = Found(m)
  BY <1>1, <1>3, <1>4
<1>6. ASSUME NEW b \in Boxes, NEW u \in Uids, InitialMail[b][u] # None, InitialMail[b][u].of = m
      PROVE  Start[m] = <<b, u>>
  <2>1. PICK y \in Messages : Start[y] = <<b, u>>
    BY <1>3, <1>6
  <2>2. InitialMail[b][u] = Found(y)
    BY <1>3, <1>4, <2>1
  <2> QED BY <1>6, <2>1, <2>2 DEF Found
<1>7. Start[m][2] < Given(Start[m][1]) + 1
  <2>1. Start[m][2] \in 1..Given(Start[m][1]) /\ Given(Start[m][1]) \in Nat
    BY <1>1, GivenType, Bounds, ImapJournalAssumption
  <2> QED BY <2>1
<1> QED BY <1>2, <1>5, <1>6, <1>7

LEMMA ReplayInit ==
  ASSUME OnlyMain, Init
  PROVE  Solo /\ Ordered(0) /\ Tracks(0)
<1>1. /\ TInv /\ IdsOK /\ Main \in Windows /\ pc[Main] = "idle" /\ task = None /\ queued = <<>>
      /\ Len(queued) = 0 /\ done = {} /\ MaxActions \in Nat
      /\ \A a \in Actions : journal[a] = "absent"
  BY TypeInit, IdsInit, Bounds DEF Init
<1>2. /\ srv.mail = InitialMail /\ \A b \in Boxes : srv.next[b] = Given(b) + 1
      /\ \A b \in Boxes, i \in Ids : local[b][i] = IF i[1] = b THEN InitialMail[b][i[2]] ELSE None
  BY DEF Init
<1>3. DoneOK /\ TaskOK /\ PulledOK /\ All = <<>> /\ Here = local
  <2>1. \A w \in Windows : pc[w] = "idle"
    BY DEF Init
  <2>2. All = <<>> /\ Here = local
    BY <1>1 DEF All, Here
  <2> QED BY <1>1, <2>1, <2>2 DEF DoneOK, TaskOK, PulledOK, PerBox
<1>4. ASSUME NEW m \in Messages
      PROVE  /\ Origin(srv, Start[m], m)
             /\ \A b \in Boxes : local[b][Start[m]] # None => local[b][Start[m]].of = m
             /\ Tracked(m, All, 0, srv, Here)
  <2>1. /\ InitialMail[Start[m][1]][Start[m][2]] = Found(m)
        /\ \A b \in Boxes, u \in Uids :
             InitialMail[b][u] # None /\ InitialMail[b][u].of = m => Start[m] = <<b, u>>
        /\ Start[m][2] < Given(Start[m][1]) + 1
        /\ Found(m) \in Mail /\ Found(m).of = m
    BY StartMail
  <2>2. Start[m] \in Ids /\ Start[m][1] \in Boxes /\ Start[m][2] \in Uids
    BY StartType
  <2>3. Origin(srv, Start[m], m)
    BY <1>2, <2>1, <2>2 DEF Origin
  <2>4. \A b \in Boxes : local[b][Start[m]] # None => local[b][Start[m]].of = m
    BY <1>2, <2>1, <2>2
  <2> DEFINE g == [j \in 0..MaxActions |-> Found(m)]
  <2>5. g \in Traces /\ g[0] = Found(m)
    BY <1>1, <2>1 DEF Traces
  <2> HIDE DEF g
  <2>6. \A b : ~Brings(<<>>, 0, m, b) /\ ~Brings(<<>>, Len(<<>>), m, b)
    BY DEF Brings
  <2>7. Trace(m, <<>>, g)
    BY <2>5 DEF Trace
  <2>8. OnServer(m, <<>>, 0, srv, g[0])
    BY <1>2, <2>1, <2>2, <2>5, <2>6 DEF OnServer, Has
  <2>9. InStore(m, <<>>, g[0], local)
    <3>1. \A b \in Boxes, i \in Ids : Holds(local, b, i, m) => i = Start[m] /\ b = Start[m][1]
      BY <1>2, <2>1 DEF Holds, Ids
    <3> QED BY <1>2, <2>1, <2>2, <2>5, <2>6, <3>1 DEF InStore
  <2>10. Tracked(m, <<>>, 0, srv, local)
    BY <2>5, <2>7, <2>8, <2>9 DEF Tracked
  <2> QED BY <1>3, <2>3, <2>4, <2>10
<1>5. Solo
  BY <1>1, <1>3, <1>4 DEF Solo, StartOK
<1>6. Ordered(0)
  BY <1>1 DEF Ordered
<1> QED BY <1>4, <1>5, <1>6 DEF Tracks

(* As long as no action was queued for a moved record, and each can be     *)
(* replayed, the queue tells where every message is, here and there.       *)
ReplayOK == Solo /\ (Strays(All) \/ Stuck \/ \E n \in Nat : Ordered(n) /\ Tracks(n))

LEMMA TrackedAgrees ==
  ASSUME Solo, NEW m \in Messages, Tracked(m, queued, Len(queued), srv, local)
  PROVE  Agrees(m)
<1> DEFINE h == Start[m][1]
           i == Start[m]
<1>1. PICK x \in Mail \cup {None} : /\ OnServer(m, queued, Len(queued), srv, x)
                                    /\ InStore(m, queued, x, local)
  <2>1. Len(queued) \in 0..MaxActions
    BY SoloType, Bounds DEF Solo
  <2> QED BY <2>1 DEF Tracked, Traces
<1>2. h \in Boxes /\ i \in Ids /\ i[2] \in Uids
  BY StartType
<1>3. \A b \in Boxes : local[b][i] # None => Holds(local, b, i, m)
  BY DEF Solo, StartOK, Holds
<1>4. ASSUME NEW b \in Boxes
      PROVE  (\E j \in Ids : Holds(local, b, j, m)) <=> (\E u \in Uids : Has(srv, b, u, m))
  <2>1. CASE b # h
    BY <1>1, <1>2, <1>3, <2>1 DEF OnServer, InStore
  <2>2. CASE b = h
    <3>1. (\E j \in Ids : Holds(local, b, j, m)) <=> x # None /\ x.of = m
      BY <1>1, <1>2, <2>2 DEF InStore, Holds
    <3>2. (\E u \in Uids : Has(srv, b, u, m)) <=> x # None /\ x.of = m
      BY <1>1, <1>2, <2>2 DEF OnServer, Has
    <3> QED BY <3>1, <3>2
  <2> QED BY <2>1, <2>2
<1> QED BY <1>4 DEF Agrees, Holds, Has

LEMMA ReplayImplied ==
  ASSUME ReplayOK
  PROVE  ReplayAgrees
<1> SUFFICES ASSUME Settled, \A a \in 1..Len(queued) : ~Displaced(queued[a]),
                    NEW m \in Messages \ swept
             PROVE  Agrees(m) \/ Exempt(queued, m)
  BY DEF ReplayAgrees, Exempt
<1>1. /\ TInv /\ TaskOK /\ ControlOK /\ Main \in Windows /\ Len(queued) \in Nat
      /\ 1..Len(queued) \subseteq Actions
  BY SoloType, Bounds DEF ReplayOK, Solo, TInv
<1>2. pc[Main] = "idle" /\ \A a \in Actions : journal[a] # "waiting"
  BY <1>1 DEF Settled, Listed
<1>3. All = queued /\ Here = local
  BY <1>1, <1>2 DEF TaskOK, All, Here
<1>4. ~Strays(All) /\ ~Stuck
  BY <1>1, <1>2, <1>3 DEF Strays, Stuck
<1>5. PICK n \in Nat : Ordered(n) /\ Tracks(n)
  BY <1>4 DEF ReplayOK
<1>6. n = Len(queued)
  <2>1. n \in 0..Len(queued) /\ (n + 1 \in (n + 1)..Len(queued) => journal[n + 1] = "waiting")
    BY <1>1, <1>5 DEF Ordered
  <2>2. n < Len(queued) => n + 1 \in (n + 1)..Len(queued) /\ n + 1 \in Actions
    BY <1>1, <2>1
  <2> QED BY <1>1, <1>2, <2>1, <2>2
<1>7. Exempt(queued, m) \/ Tracked(m, queued, Len(queued), srv, local)
  BY <1>3, <1>5, <1>6 DEF Tracks
<1> QED BY <1>7, TrackedAgrees DEF ReplayOK

(* With one window and no failures, the local store agrees with the server *)
(* whenever the journal has been replayed, with the exceptions that        *)
(* ReplayAgrees names: however many actions the user queues, with          *)
(* whatever passes and synchronisations between them.                      *)
THEOREM ReplayReachesTheServer == ASSUME OnlyMain PROVE Spec => []ReplayAgrees
<1>1. Init => ReplayOK
  <2>1. 0 \in Nat
    OBVIOUS
  <2> QED BY <2>1, ReplayInit DEF ReplayOK
<1>2. ReplayOK /\ [Next]_vars => ReplayOK'
  <2> SUFFICES ASSUME ReplayOK, [Next]_vars PROVE ReplayOK'
    OBVIOUS
  <2>1. Solo /\ Solo' /\ TInv /\ TaskOK
    BY SoloKept DEF ReplayOK, Solo
  <2>2. CASE Strays(All)
    BY <2>1, <2>2, StraysStep DEF ReplayOK
  <2>3. CASE ~Strays(All) /\ Stuck
    BY <2>1, <2>3, StuckStep DEF ReplayOK
  <2>4. CASE ~Strays(All) /\ ~Stuck
    <3>1. PICK n \in Nat : Ordered(n) /\ Tracks(n)
      BY <2>4 DEF ReplayOK
    <3>2. \E k \in Nat : Ordered(k)' /\ Tracks(k)'
      BY <2>1, <2>4, <3>1, TracksStep
    <3> QED BY <2>1, <3>2 DEF ReplayOK
  <2> QED BY <2>2, <2>3, <2>4
<1>3. ReplayOK => ReplayAgrees
  BY ReplayImplied
<1> QED BY <1>1, <1>2, <1>3, PTL DEF Spec

-----------------------------------------------------------------------------
(* The end of a pass, without the scheduler.  WorkEnds is TLC's; what is    *)
(* proved is why nothing a window has begun can go on for ever, for any    *)
(* number of actions and messages.                                         *)

(* The actions a pass has listed and not finished. *)
Left(w) == todo[w] \cup ({cur[w]} \ {0})

(* How far it is with one of them, or with its synchronisation, and how    *)
(* far the main window is with what it queues.                             *)
Place == [erase |-> 0, journal |-> 1, edit |-> 0,
          next |-> 0, run |-> 1, ok |-> 2, failed |-> 2, state |-> 3, store |-> 4]

(* The messages a synchronisation has fetched and not saved. *)
Unsaved(w) == IF pc[w] = "store" THEN DOMAIN pulled[w].mail ELSE {}

(* The step ends the work of w, is done with an action, comes further with *)
(* the current one or to the next part, or saves a message.                *)
MovesOn(w) ==
  \/ pc'[w] = "idle"
  \/ (Left(w)' \subseteq Left(w) /\ Left(w)' # Left(w))
  \/ (Left(w)' = Left(w) /\ Place[pc'[w]] > Place[pc[w]])
  \/ /\ Left(w)' = Left(w) /\ pc'[w] = pc[w]
     /\ Unsaved(w)' \subseteq Unsaved(w) /\ Unsaved(w)' # Unsaved(w)

Waits(w) == pc'[w] = pc[w] /\ Left(w)' = Left(w) /\ Unsaved(w)' = Unsaved(w)

(* What w does on its own, failures of the server among it. *)
Works(w) ==
  \/ Advance(w) \/ Refused(w) \/ BreakOff(w) \/ EndPass(w)
  \/ \E b \in Synced, full \in BOOLEAN : Synchronise(w, b, full)

(* A message that has been saved is not saved again. *)
LEMMA StoreNextMovesOn ==
  ASSUME TInv, NEW w \in Windows, StoreNext(w)
  PROVE  MovesOn(w)
<1> DEFINE D == DOMAIN pulled[w].mail
           u == Least(D)
           mail == [v \in D \ {u} |-> pulled[w].mail[v]]
           p == [pulled[w] EXCEPT !.mail = mail]
<1>1. /\ pc[w] = "store" /\ D # {} /\ pulled' = [pulled EXCEPT ![w].mail = mail]
      /\ UNCHANGED <<pc, todo, cur>>
  BY DEF StoreNext
<1>2. pulled[w] \in Pulled /\ pulled \in [Windows -> Pulled \cup {None}]
  BY <1>1 DEF TInv, StoreOK
<1>3. D \subseteq Uids
  BY <1>2 DEF Pulled
<1>4. u \in D
  BY <1>1, <1>3, LeastOf, Bounds DEF Uids
<1>5. DOMAIN mail = D \ {u}
  OBVIOUS
<1> HIDE DEF mail, u
<1>6. p.mail = mail
  BY <1>2 DEF Pulled
<1>7. pulled' = [pulled EXCEPT ![w] = p]
  BY <1>1, <1>2
<1> HIDE DEF p
<1>8. pulled'[w] = p
  BY <1>2, <1>7
<1>9. pc'[w] = "store" /\ Left(w)' = Left(w)
  BY <1>1 DEF Left
<1>10. Unsaved(w) = D /\ Unsaved(w)' = D \ {u}
  BY <1>1, <1>5, <1>6, <1>8, <1>9 DEF Unsaved
<1> QED BY <1>1, <1>4, <1>9, <1>10 DEF MovesOn

(* A replayed action, succeeded or failed, is not in the list any more, and *)
(* the parts of a pass follow one another.                                 *)
LEMMA WorkMovesOn ==
  ASSUME TInv, NEW w \in Windows, Works(w)
  PROVE  MovesOn(w)
<1>0. ControlOK /\ Main \in Windows /\ WindowOK(w)
  BY Bounds DEF TInv, ControlOK
<1>g. ASSUME NEW s, Goto(w, s) PROVE pc'[w] = s
  BY <1>0, <1>g DEF Goto, ControlOK
<1>1. CASE MarkRunning(w)
  <2> DEFINE a == Least(todo[w])
  <2>1. /\ pc[w] = "next" /\ todo[w] # {} /\ cur' = [cur EXCEPT ![w] = a]
        /\ todo' = [todo EXCEPT ![w] = @ \ {a}] /\ pc'[w] = "run"
    BY <1>g, <1>1 DEF MarkRunning
  <2>2. a \in todo[w] /\ a \in 1..Len(queued) /\ Len(queued) \in Nat
    BY <1>0, <2>1, NextTodo DEF ControlOK
  <2>3. a # 0 /\ cur[w] = 0
    BY <1>0, <2>1, <2>2 DEF WindowOK, AtAction
  <2> HIDE DEF a
  <2>4. cur'[w] = a /\ todo'[w] = todo[w] \ {a}
    BY <1>0, <2>1 DEF ControlOK
  <2>5. Left(w)' = Left(w)
    BY <2>2, <2>3, <2>4 DEF Left
  <2> QED BY <2>1, <2>5 DEF MovesOn, Place
<1>2. CASE Succeed(w) \/ Refused(w) \/ BreakOff(w)
  <2>1. pc[w] = "run" /\ pc'[w] \in {"ok", "failed"} /\ todo' = todo /\ cur' = cur
    BY <1>g, <1>2 DEF Succeed, Refused, BreakOff, thread
  <2> QED BY <2>1 DEF MovesOn, Place, Left
<1>3. CASE Remove(w) \/ Keep(w)
  <2>1. pc[w] \in {"ok", "failed"} /\ todo' = todo /\ cur' = [cur EXCEPT ![w] = 0]
    BY <1>3 DEF Remove, Keep
  <2>2. cur[w] # 0 /\ cur[w] \notin todo[w] /\ cur'[w] = 0
    BY <1>0, <2>1 DEF WindowOK, AtAction, ControlOK
  <2>3. cur[w] \in Left(w) /\ Left(w)' = Left(w) \ {cur[w]}
    BY <1>0, <2>1, <2>2 DEF Left
  <2> QED BY <2>3 DEF MovesOn
<1>4. CASE EndPass(w) \/ EndSync(w) \/ SaveEdit(w) \/ (w = Main /\ Journal)
  BY <1>g, <1>4 DEF EndPass, EndSync, SaveEdit, Journal, MovesOn
<1>5. ASSUME NEW b \in Synced, NEW full \in BOOLEAN, Synchronise(w, b, full) PROVE MovesOn(w)
  BY <1>g, <1>5 DEF Synchronise, MovesOn, Place, Left
<1>6. CASE SaveSeen(w)
  BY <1>g, <1>6 DEF SaveSeen, thread, MovesOn, Place, Left
<1>7. CASE w = Main /\ EraseSource
  BY <1>g, <1>7 DEF EraseSource, Unqueued, MovesOn, Place, Left
<1>8. CASE StoreNext(w)
  BY <1>8, StoreNextMovesOn
<1> QED BY <1>1, <1>2, <1>3, <1>4, <1>5, <1>6, <1>7, <1>8 DEF Works, Advance

(* The user, and the windows beside w, give it nothing more to do. *)
LEMMA OthersLeaveIt ==
  ASSUME TInv, [Next]_vars, NEW w \in Windows, pc[w] # "idle", ~Works(w)
  PROVE  Waits(w) \/ pc'[w] = "idle"
<1>0. ControlOK /\ Main \in Windows /\ pulled \in [Windows -> Pulled \cup {None}]
  BY Bounds DEF TInv, ControlOK, StoreOK
<1>s. ASSUME pc'[w] = pc[w], todo'[w] = todo[w], cur'[w] = cur[w], pulled'[w] = pulled[w]
      PROVE  Waits(w)
  <2>1. Left(w)' = Left(w)
    BY <1>s DEF Left
  <2>2. Unsaved(w)' = Unsaved(w)
    BY <1>s DEF Unsaved
  <2> QED BY <1>s, <2>1, <2>2 DEF Waits
<1>g. ASSUME NEW v \in Windows, v # w, NEW s, Goto(v, s) PROVE pc'[w] = pc[w]
  BY <1>0, <1>g DEF Goto, ControlOK
<1>1. CASE QueueNext
  <2>1. pc[Main] = "idle" /\ UNCHANGED <<todo, cur, pulled>>
    BY <1>1 DEF QueueNext, QueueMove, QueueCopy, QueueDelete, QueueUndelete, QueueFetch,
           QueueExpunge, Selected, Unqueued
  <2>2. UNCHANGED pc \/ \E s \in {"erase", "journal"} : Goto(Main, s)
    BY <1>1 DEF QueueNext, QueueMove, QueueCopy, QueueDelete, QueueUndelete, QueueFetch,
           QueueExpunge
  <2>3. pc'[w] = pc[w]
    BY <1>0, <1>g, <2>1, <2>2
  <2> QED BY <1>s, <2>1, <2>3
<1>2. CASE QueueFails \/ EraseSource \/ Journal
  <2>1. UNCHANGED <<todo, cur, pulled>>
    BY <1>2 DEF QueueFails, EraseSource, Journal, Unqueued
  <2>2. CASE w # Main
    <3>1. pc'[w] = pc[w]
      BY <1>0, <1>2, <1>g, <2>2 DEF QueueFails, EraseSource, Journal
    <3> QED BY <1>s, <2>1, <3>1
  <2>3. CASE w = Main
    <3>1. QueueFails
      BY <1>2, <2>3 DEF Works, Advance
    <3> QED BY <1>0, <2>3, <3>1 DEF QueueFails, Goto, ControlOK
  <2> QED BY <2>2, <2>3
<1>3. CASE Crash
  BY <1>3 DEF Crash
<1>4. ASSUME NEW v \in Windows, v # w,
             \/ StartPass(v) \/ MarkRunning(v) \/ Succeed(v) \/ Remove(v) \/ Keep(v) \/ EndPass(v)
             \/ SaveSeen(v) \/ StoreNext(v) \/ EndSync(v) \/ SaveEdit(v) \/ Refused(v) \/ BreakOff(v)
             \/ \E b \in Synced, full \in BOOLEAN : Synchronise(v, b, full)
             \/ \E a \in 1..Len(queued), state \in {"waiting", "cancelled"} : ReadAction(v, a, state)
      PROVE  Waits(w)
  <2>1. pc'[w] = pc[w]
    BY <1>g, <1>4 DEF StartPass, MarkRunning, Succeed, Remove, Keep, EndPass, SaveSeen, StoreNext,
           EndSync, SaveEdit, Refused, BreakOff, Synchronise, ReadAction
  <2>2. todo'[w] = todo[w] /\ cur'[w] = cur[w]
    BY <1>0, <1>4 DEF ControlOK, StartPass, MarkRunning, Succeed, Remove, Keep, EndPass, SaveSeen,
           StoreNext, EndSync, SaveEdit, Refused, BreakOff, Synchronise, ReadAction, thread
  <2>3. pulled'[w] = pulled[w]
    BY <1>0, <1>4 DEF StartPass, MarkRunning, Succeed, Remove, Keep, EndPass, SaveSeen,
           StoreNext, EndSync, SaveEdit, Refused, BreakOff, Synchronise, ReadAction, thread
  <2> QED BY <1>s, <2>1, <2>2, <2>3
<1>5. ~StartPass(w) /\ \A a \in 1..Len(queued), state \in {"waiting", "cancelled"} : ~ReadAction(w, a, state)
  BY DEF StartPass, ReadAction
<1>6. CASE UNCHANGED vars
  BY <1>s, <1>6 DEF vars, thread
<1> QED BY <1>1, <1>2, <1>3, <1>4, <1>5, <1>6 DEF Next, Advance, Works

(* Nothing that happens gives the work a window has begun more to do, and  *)
(* each of its own steps, whether the server does what it asks or not,     *)
(* ends it, is done with an action or comes further with it, goes on from  *)
(* the replay to the synchronisation, or saves a message: a failed action  *)
(* is kept for a later pass and not met again in this one.  So with n      *)
(* actions listed and k messages fetched the work takes at most            *)
(* 3n + k + 3 steps.                                                       *)
THEOREM WindowsMoveOn ==
  Spec => [][\A w \in Windows : pc[w] # "idle" =>
               /\ MovesOn(w) \/ Waits(w)
               /\ Works(w) => MovesOn(w)]_vars
<1>1. TInv /\ [Next]_vars =>
        [\A w \in Windows : pc[w] # "idle" =>
           /\ MovesOn(w) \/ Waits(w)
           /\ Works(w) => MovesOn(w)]_vars
  <2> SUFFICES ASSUME TInv, [Next]_vars, NEW w \in Windows, pc[w] # "idle"
               PROVE  /\ MovesOn(w) \/ Waits(w)
                      /\ Works(w) => MovesOn(w)
    OBVIOUS
  <2> QED BY WorkMovesOn, OthersLeaveIt DEF MovesOn
<1> QED BY <1>1, TypeInit, TypeStep, PTL DEF Spec
=============================================================================
