--------------------------- MODULE SendQueueProofs ---------------------------
(***************************************************************************)
(* Proofs that the safety properties of SendQueue hold for every set of    *)
(* messages, every number of windows and every choice of options.  The     *)
(* properties follow from IInv; its parts are shown to be inductive one    *)
(* after the other, each resting on the ones before.                       *)
(***************************************************************************)
EXTENDS SendQueue, Naturals, TLAPS

(* SaveMessage's two outcomes keep Out well-typed. *)
LEMMA SaveToOutType ==
  ASSUME TypeOK, NEW m \in Msgs, NEW r \in Record, SaveToOut(m, r)
  PROVE  /\ out' \in [Msgs -> Record \cup {None}]
         /\ excused' \subseteq Msgs
  BY DEF TypeOK, SaveToOut

LEMMA RecType ==
  ASSUME NEW d \in Delivery, NEW l \in Legacy, NEW b \in BOOLEAN
  PROVE  Rec(d, l, b) \in Record
  BY DEF Rec, Record

(* A user edit yields a record. *)
LEMMA EditsType ==
  ASSUME NEW r \in Record, NEW e \in EditsOf(r)
  PROVE  e \in Record
<1>1. \A l \in Legacy : [r EXCEPT !.legacy = l] \in Record
  BY DEF Record
<1>2. Retimed \subseteq Record
  BY DEF Retimed, Rec, Record, Delivery, Legacy
<1> QED BY <1>1, <1>2 DEF EditsOf

(* A pass at work on a message has one. *)
LEMMA BusyHasMessage ==
  ASSUME TypeOK, CurWhileBusy, NEW w \in Workers, pc[w] \notin {"idle", "next"}
  PROVE  cur[w] \in Msgs
  BY DEF TypeOK, CurWhileBusy

(* The next step of a pass and its current message always agree, and every *)
(* variable keeps its type.                                                *)
THEOREM TypeInvariant == Spec => [](TypeOK /\ CurWhileBusy)
<1>1. Init => TypeOK /\ CurWhileBusy
  BY DEF Init, TypeOK, CurWhileBusy, NothingListed, Steps
<1>2. TypeOK /\ CurWhileBusy /\ [Next]_vars => TypeOK' /\ CurWhileBusy'
  <2> SUFFICES ASSUME TypeOK, CurWhileBusy, [Next]_vars
               PROVE  TypeOK' /\ CurWhileBusy'
    OBVIOUS
  <2> USE SendQueueAssumption
  <2>1. ASSUME NEW m \in Msgs, QueueMessage(m) PROVE TypeOK' /\ CurWhileBusy'
    BY <2>1, RecType DEF QueueMessage, TypeOK, CurWhileBusy, workerVars, serverVars, Delivery, Legacy
  <2>2. ASSUME NEW m \in Msgs, ReadForEdit(m) PROVE TypeOK' /\ CurWhileBusy'
    <3>1. out[m] \in Record
      BY <2>2 DEF ReadForEdit, TypeOK
    <3>2. PICK r \in EditsOf(out[m]) : edit' = [msg |-> m, rec |-> r]
      BY <2>2 DEF ReadForEdit
    <3>3. r \in Record
      BY <3>1, <3>2, EditsType
    <3> QED BY <2>2, <3>2, <3>3 DEF ReadForEdit, TypeOK, CurWhileBusy, workerVars, serverVars
  <2>3. ASSUME NEW m \in Msgs, DeleteFromOut(m) PROVE TypeOK' /\ CurWhileBusy'
    BY <2>3 DEF DeleteFromOut, TypeOK, CurWhileBusy, workerVars, serverVars
  <2>4. ASSUME NEW m \in Msgs, TimePasses(m) PROVE TypeOK' /\ CurWhileBusy'
    <3>1. ASSUME NEW r \in Record PROVE [r EXCEPT !.due = TRUE] \in Record
      BY <3>1 DEF Record
    <3>2. CASE out[m] # None /\ out' = [out EXCEPT ![m].due = TRUE] /\ UNCHANGED snap
      <4>1. [out[m] EXCEPT !.due = TRUE] \in Record
        BY <3>1, <3>2 DEF TypeOK
      <4> QED BY <4>1, <2>4, <3>1, <3>2 DEF TimePasses, TypeOK, CurWhileBusy, serverVars
    <3>3. ASSUME NEW w \in Workers, snap[w][m] # None,
                 snap' = [snap EXCEPT ![w][m].due = TRUE], UNCHANGED out
          PROVE  TypeOK' /\ CurWhileBusy'
      <4>1. [snap[w][m] EXCEPT !.due = TRUE] \in Record
        BY <3>1, <3>3 DEF TypeOK
      <4> QED BY <2>4, <3>3, <4>1 DEF TimePasses, TypeOK, CurWhileBusy, serverVars
    <3> QED BY <2>4, <3>2, <3>3 DEF TimePasses
  <2>5. ASSUME SaveEdit PROVE TypeOK' /\ CurWhileBusy'
    BY <2>5 DEF SaveEdit, TypeOK, CurWhileBusy, workerVars, serverVars
  <2>6. ASSUME NEW w \in Workers, StartPass(w) PROVE TypeOK' /\ CurWhileBusy'
    BY <2>6 DEF StartPass, TypeOK, CurWhileBusy, serverVars, Steps
  <2>7. ASSUME NEW w \in Workers, NEW m \in Msgs, SkipMessage(w, m) PROVE TypeOK' /\ CurWhileBusy'
    BY <2>7 DEF SkipMessage, TypeOK, CurWhileBusy, serverVars
  <2>8. ASSUME NEW w \in Workers, NEW m \in Msgs, MarkSending(w, m) PROVE TypeOK' /\ CurWhileBusy'
    <3>1. snap[w][m] \in Record
      BY <2>8 DEF MarkSending, Eligible, TypeOK
    <3>2. Rec("Sending", snap[w][m].legacy, TRUE) \in Record
      BY <3>1 DEF Rec, Record, Delivery
    <3> QED BY <2>8, <3>2, SaveToOutType DEF MarkSending, TypeOK, CurWhileBusy, serverVars, Steps
  <2>9. ASSUME NEW w \in Workers, Transmit(w) PROVE TypeOK' /\ CurWhileBusy'
    <3>1. cur[w] \in Msgs
      BY <2>9, BusyHasMessage DEF Transmit
    <3> QED BY <2>9, <3>1 DEF Transmit, TypeOK, CurWhileBusy, serverVars, ServerAccepts, Goto, Steps
  <2>10. ASSUME NEW w \in Workers, MarkFailed(w) PROVE TypeOK' /\ CurWhileBusy'
    <3>1. Rec("Failed", "other", TRUE) \in Record
      BY RecType DEF Delivery, Legacy
    <3>2. cur[w] \in Msgs
      BY <2>10, BusyHasMessage DEF MarkFailed
    <3> QED BY <2>10, <3>1, <3>2, SaveToOutType
            DEF MarkFailed, NextMessage, Goto, TypeOK, CurWhileBusy, serverVars, Steps
  <2>11. ASSUME NEW w \in Workers, MarkSentInOut(w) PROVE TypeOK' /\ CurWhileBusy'
    <3>1. SentRecord \in Record
      BY RecType DEF SentRecord, Delivery, Legacy
    <3>2. cur[w] \in Msgs
      BY <2>11, BusyHasMessage DEF MarkSentInOut
    <3> QED BY <2>11, <3>1, <3>2, SaveToOutType DEF MarkSentInOut, Goto, TypeOK, CurWhileBusy, serverVars, Steps
  <2>12. ASSUME NEW w \in Workers, CopyToSent(w) PROVE TypeOK' /\ CurWhileBusy'
    <3>1. cur[w] \in Msgs
      BY <2>12, BusyHasMessage DEF CopyToSent
    <3> QED BY <2>12, <3>1 DEF CopyToSent, NextMessage, Goto, TypeOK, CurWhileBusy, serverVars, Steps
  <2>13. ASSUME NEW w \in Workers, SaveInSent(w) PROVE TypeOK' /\ CurWhileBusy'
    <3>1. cur[w] \in Msgs
      BY <2>13, BusyHasMessage DEF SaveInSent
    <3> QED BY <2>13, <3>1 DEF SaveInSent, NextMessage, Goto, TypeOK, CurWhileBusy, serverVars, Steps
  <2>14. ASSUME NEW w \in Workers, EraseFromOut(w) PROVE TypeOK' /\ CurWhileBusy'
    <3>1. cur[w] \in Msgs
      BY <2>14, BusyHasMessage DEF EraseFromOut
    <3> QED BY <2>14, <3>1 DEF EraseFromOut, NextMessage, Goto, TypeOK, CurWhileBusy, serverVars, Steps
  <2>15. ASSUME NEW w \in Workers, EndPass(w) PROVE TypeOK' /\ CurWhileBusy'
    BY <2>15 DEF EndPass, Goto, TypeOK, CurWhileBusy, serverVars, Steps
  <2>16. ASSUME Crash PROVE TypeOK' /\ CurWhileBusy'
    BY <2>16 DEF Crash, NothingListed, TypeOK, CurWhileBusy, serverVars, Steps
  <2>17. CASE UNCHANGED vars
    BY <2>17 DEF vars, TypeOK, CurWhileBusy
  <2> QED
    BY <2>1, <2>2, <2>3, <2>4, <2>5, <2>6, <2>7, <2>8, <2>9, <2>10, <2>11, <2>12,
       <2>13, <2>14, <2>15, <2>16, <2>17 DEF Next, UserStep, Handle
<1> QED BY <1>1, <1>2, PTL DEF Spec

(* Type correctness of the outgoing queue: every step of a pass, of the    *)
(* user and of the environment keeps every variable in its range.          *)
THEOREM TypeCorrect == Spec => []TypeOK
  BY TypeInvariant, PTL

-----------------------------------------------------------------------------
(* A saved record is a record: it does not take the message out of Out. *)
LEMMA SaveKeeps ==
  ASSUME TypeOK, NEW n \in Msgs, NEW r \in Record, SaveToOut(n, r),
         NEW m \in Msgs, out[m] # None
  PROVE  out'[m] # None
  BY SendQueueAssumption DEF TypeOK, SaveToOut

LEMMA SentRecordType == SentRecord \in Record
  BY RecType DEF SentRecord, Delivery, Legacy

LEMMA FailedRecordType == Rec("Failed", "other", TRUE) \in Record
  BY RecType DEF Delivery, Legacy

LEMMA SendingRecordType ==
  ASSUME NEW r \in Record PROVE Rec("Sending", r.legacy, TRUE) \in Record
  BY DEF Rec, Record, Delivery

(* A composed message stays in Out or in Sent until the user removes it:   *)
(* the only step that takes it out of Out after a send has it in Sent.     *)
LEMMA ComposedStable ==
  ASSUME TypeOK, CurWhileBusy, SentBacked, [Next]_vars,
         NEW m \in Msgs, Composed(m)
  PROVE  Composed(m)'
<1> USE SendQueueAssumption DEF Composed
<1>1. ASSUME NEW n \in Msgs, QueueMessage(n) PROVE Composed(m)'
  <2>1. Rec("Queued", "waiting", TRUE) \in Record
    BY RecType DEF Delivery, Legacy
  <2> QED BY <1>1, <2>1 DEF QueueMessage, TypeOK
<1>2. ASSUME NEW n \in Msgs, ReadForEdit(n) PROVE Composed(m)'
  BY <1>2 DEF ReadForEdit
<1>3. ASSUME NEW n \in Msgs, DeleteFromOut(n) PROVE Composed(m)'
  BY <1>3 DEF DeleteFromOut, TypeOK
<1>4. ASSUME NEW n \in Msgs, TimePasses(n) PROVE Composed(m)'
  <2>1. out[n] # None /\ out' = [out EXCEPT ![n].due = TRUE] => [out[n] EXCEPT !.due = TRUE] \in Record
    BY ZenonT(60) DEF TypeOK, Record
  <2> QED BY <1>4, <2>1 DEF TimePasses, TypeOK
<1>5. ASSUME SaveEdit PROVE Composed(m)'
  BY <1>5 DEF SaveEdit, TypeOK
<1>6. ASSUME NEW w \in Workers, NEW n \in Msgs, MarkSending(w, n) PROVE Composed(m)'
  <2>1. snap[w][n] \in Record
    BY <1>6 DEF MarkSending, Eligible, TypeOK
  <2>2. Rec("Sending", snap[w][n].legacy, TRUE) \in Record
    BY <2>1, SendingRecordType
  <2> QED BY <1>6, <2>2, SaveKeeps DEF MarkSending
<1>7. ASSUME NEW w \in Workers, MarkFailed(w) PROVE Composed(m)'
  <2>1. cur[w] \in Msgs
    BY <1>7, BusyHasMessage DEF MarkFailed
  <2> QED BY <1>7, <2>1, FailedRecordType, SaveKeeps DEF MarkFailed
<1>8. ASSUME NEW w \in Workers, MarkSentInOut(w) PROVE Composed(m)'
  <2>1. cur[w] \in Msgs
    BY <1>8, BusyHasMessage DEF MarkSentInOut
  <2> QED BY <1>8, <2>1, SentRecordType, SaveKeeps DEF MarkSentInOut
<1>9. ASSUME NEW w \in Workers, EraseFromOut(w) PROVE Composed(m)'
  <2>1. cur[w] = m => m \in sentBox
    BY <1>9 DEF EraseFromOut, SentBacked
  <2> QED BY <1>9, <2>1 DEF EraseFromOut, TypeOK
<1>10. ASSUME NEW w \in Workers,
              \/ StartPass(w)
              \/ \E n \in Msgs : SkipMessage(w, n)
              \/ Transmit(w)
              \/ CopyToSent(w)
              \/ SaveInSent(w)
              \/ EndPass(w)
       PROVE  Composed(m)'
  BY <1>10 DEF StartPass, SkipMessage, Transmit, CopyToSent, SaveInSent, EndPass
<1>11. CASE Crash \/ UNCHANGED vars
  BY <1>11 DEF Crash, vars
<1> QED
  BY <1>1, <1>2, <1>3, <1>4, <1>5, <1>6, <1>7, <1>8, <1>9, <1>10, <1>11
  DEF Next, UserStep, Handle

(* What the server accepted and what an edit is about are messages. *)
LEMMA TypeSubset ==
  ASSUME TypeOK
  PROVE  accepted \subseteq Msgs /\ (edit # None => edit.msg \in Msgs)
  BY DEF TypeOK

(* No step takes back what is known of a sent message: each one that shows *)
(* a message as sent copies it from a backed record or follows the server. *)
LEMMA SentBackedStep ==
  ASSUME TypeOK, CurWhileBusy, SentBacked, [Next]_vars
  PROVE  SentBacked'
<1> USE SendQueueAssumption
<1>a. \A m \in Msgs : Composed(m) => Composed(m)'
  BY ComposedStable
<1>1. ASSUME NEW n \in Msgs, QueueMessage(n) PROVE SentBacked'
  BY <1>a, <1>1 DEF QueueMessage, TypeOK, SentBacked, SentWasAccepted, IsSent, Rec, workerVars, serverVars
<1>2. ASSUME NEW n \in Msgs, ReadForEdit(n) PROVE SentBacked'
  <2>1. PICK r \in EditsOf(out[n]) : edit' = [msg |-> n, rec |-> r]
    BY <1>2 DEF ReadForEdit
  <2>2. IsSent(r) => IsSent(out[n])
    <3>1. out[n] \in Record
      BY <1>2 DEF ReadForEdit, TypeOK
    <3>2. \A l \in Legacy : [out[n] EXCEPT !.legacy = l].delivery = out[n].delivery
      BY <3>1 DEF Record
    <3>3. CASE r \in Retimed
      BY <3>3 DEF Retimed, Rec, IsSent
    <3>4. ASSUME NEW l \in Legacy, r = [out[n] EXCEPT !.legacy = l]
          PROVE  IsSent(r) => IsSent(out[n])
      BY <1>2, <3>2, <3>4 DEF ReadForEdit, IsSent
    <3> QED BY <2>1, <3>3, <3>4 DEF EditsOf
  <2>3. Composed(n) /\ edit'.msg = n /\ edit'.rec = r
    BY <1>2, <2>1 DEF ReadForEdit, Composed
  <2>4. Composed(edit.msg)' /\ (IsSent(edit'.rec) => edit'.msg \in accepted')
    BY <1>a, <1>2, <2>2, <2>3 DEF ReadForEdit, SentBacked, SentWasAccepted, serverVars, Composed
  <2>5. UNCHANGED <<out, sentBox, snap, cur, pc, accepted, removed>>
    BY <1>2 DEF ReadForEdit, workerVars, serverVars
  <2>6. SentWasAccepted'
    BY <2>5 DEF SentBacked, SentWasAccepted
  <2>7. \A m \in Msgs : \A w \in Workers :
          /\ IsSent(snap'[w][m]) => m \in accepted'
          /\ cur'[w] = m /\ pc'[w] \in AfterAccept => m \in accepted'
          /\ cur'[w] = m /\ pc'[w] = "erase" => m \in sentBox'
          /\ cur'[w] = m \/ snap'[w][m] # None => Composed(m)'
    BY <1>a, <2>5 DEF SentBacked
  <2>8. \A m \in accepted' : Composed(m)'
    BY <1>a, <2>5, TypeSubset DEF SentBacked
  <2> QED BY <2>4, <2>6, <2>7, <2>8 DEF SentBacked
<1>3. ASSUME NEW n \in Msgs, DeleteFromOut(n) PROVE SentBacked'
  BY <1>a, <1>3 DEF DeleteFromOut, TypeOK, SentBacked, SentWasAccepted, IsSent, workerVars, serverVars
<1>4. ASSUME NEW n \in Msgs, TimePasses(n) PROVE SentBacked'
  <2>1. \A m \in Msgs : IsSent(out'[m]) => IsSent(out[m])
    <3>1. out[n] # None => [out[n] EXCEPT !.due = TRUE].delivery = out[n].delivery
      BY DEF TypeOK, Record
    <3>2. CASE out' = out
      BY <3>2 DEF IsSent
    <3>3. CASE out[n] # None /\ out' = [out EXCEPT ![n].due = TRUE]
      BY <3>1, <3>3 DEF TypeOK, IsSent
    <3> QED BY <1>4, <3>2, <3>3 DEF TimePasses
  <2>2. \A m \in Msgs : \A w \in Workers : IsSent(snap'[w][m]) => IsSent(snap[w][m])
    <3>1. \A w \in Workers : snap[w][n] # None =>
            [snap[w][n] EXCEPT !.due = TRUE].delivery = snap[w][n].delivery
      BY DEF TypeOK, Record
    <3>2. CASE snap' = snap
      BY <3>2
    <3>3. ASSUME NEW v \in Workers, snap[v][n] # None,
                 snap' = [snap EXCEPT ![v][n].due = TRUE],
                 NEW m \in Msgs, NEW w \in Workers, IsSent(snap'[w][m])
          PROVE  IsSent(snap[w][m])
      <4>1. CASE w = v /\ m = n
        BY <3>1, <3>3, <4>1 DEF TypeOK, IsSent
      <4>2. CASE ~(w = v /\ m = n)
        BY <3>3, <4>2 DEF TypeOK, IsSent
      <4> QED BY <4>1, <4>2
    <3> QED BY <1>4, <3>2, <3>3 DEF TimePasses
  <2>3. \A m \in Msgs : \A w \in Workers : snap'[w][m] # None => snap[w][m] # None
    BY <1>4 DEF TimePasses, TypeOK
  <2>4. UNCHANGED <<sentBox, cur, pc, edit, accepted>>
    BY <1>4 DEF TimePasses, serverVars
  <2>5. SentWasAccepted'
    BY <2>1, <2>4 DEF SentBacked, SentWasAccepted
  <2>6. \A m \in Msgs : \A w \in Workers :
          /\ IsSent(snap'[w][m]) => m \in accepted'
          /\ cur'[w] = m \/ snap'[w][m] # None => Composed(m)'
    BY <1>a, <2>2, <2>3, <2>4 DEF SentBacked
  <2>7. edit' # None => Composed(edit.msg)'
    BY <1>a, <2>4, TypeSubset DEF SentBacked, Composed
  <2> QED BY <1>a, <2>4, <2>5, <2>6, <2>7, TypeSubset DEF SentBacked
<1>5. ASSUME SaveEdit PROVE SentBacked'
  <2>1. edit.msg \in Msgs
    BY <1>5 DEF SaveEdit, TypeOK
  <2> QED BY <1>a, <1>5, <2>1 DEF SaveEdit, TypeOK, SentBacked, SentWasAccepted, workerVars, serverVars
<1>6. ASSUME NEW w \in Workers, StartPass(w) PROVE SentBacked'
  <2>1. UNCHANGED <<out, sentBox, cur, accepted, edit>>
    BY <1>6 DEF StartPass, serverVars
  <2>2. \A v \in Workers : \A m \in Msgs :
          /\ snap'[v][m] # None => Composed(m)
          /\ IsSent(snap'[v][m]) => m \in accepted
    BY <1>6 DEF StartPass, TypeOK, SentBacked, SentWasAccepted, Composed
  <2>3. \A v \in Workers : pc'[v] = pc[v] \/ pc'[v] = "next"
    BY <1>6 DEF StartPass, TypeOK
  <2>4. edit' # None => Composed(edit.msg)'
    BY <1>a, <2>1, TypeSubset DEF SentBacked, Composed
  <2> QED
    BY <1>a, <2>1, <2>2, <2>3, <2>4, TypeSubset DEF SentBacked, SentWasAccepted, AfterAccept
<1>7. ASSUME NEW w \in Workers, NEW n \in Msgs, SkipMessage(w, n) PROVE SentBacked'
  BY <1>a, <1>7 DEF SkipMessage, TypeOK, SentBacked, SentWasAccepted, IsSent, serverVars
<1>8. ASSUME NEW w \in Workers, NEW n \in Msgs, MarkSending(w, n) PROVE SentBacked'
  <2>1. \A m \in Msgs : IsSent(out'[m]) => IsSent(out[m])
    BY <1>8 DEF MarkSending, SaveToOut, TypeOK, IsSent, Rec
  <2>2. \A m \in Msgs : \A v \in Workers : snap'[v][m] # None => snap'[v][m] = snap[v][m]
    BY <1>8 DEF MarkSending, TypeOK
  <2>3. Composed(n)
    BY <1>8 DEF MarkSending, Eligible, SentBacked
  <2>4. \A v \in Workers : v # w => cur'[v] = cur[v] /\ pc'[v] = pc[v]
    BY <1>8 DEF MarkSending, TypeOK
  <2>5. cur'[w] = n /\ pc'[w] \in {"reject", "transmit"}
    BY <1>8 DEF MarkSending, TypeOK
  <2>6. UNCHANGED <<sentBox, accepted, edit>>
    BY <1>8 DEF MarkSending, serverVars
  <2>7. SentWasAccepted'
    BY <2>1, <2>6 DEF SentBacked, SentWasAccepted
  <2>8. \A m \in Msgs : \A v \in Workers :
          /\ IsSent(snap'[v][m]) => m \in accepted'
          /\ cur'[v] = m /\ pc'[v] \in AfterAccept => m \in accepted'
          /\ cur'[v] = m /\ pc'[v] = "erase" => m \in sentBox'
          /\ cur'[v] = m \/ snap'[v][m] # None => Composed(m)'
    BY <1>a, <2>2, <2>3, <2>4, <2>5, <2>6 DEF SentBacked, AfterAccept, IsSent
  <2>9. edit' # None => Composed(edit.msg)'
    BY <1>a, <2>6, TypeSubset DEF SentBacked, Composed
  <2> QED BY <1>a, <2>6, <2>7, <2>8, <2>9, TypeSubset DEF SentBacked
<1>9. ASSUME NEW w \in Workers, Transmit(w) PROVE SentBacked'
  <2>1. cur[w] \in Msgs /\ Composed(cur[w])
    BY <1>9, BusyHasMessage DEF Transmit, SentBacked
  <2>2. /\ accepted \subseteq accepted'
        /\ accepted' \subseteq accepted \cup {cur[w]}
        /\ pc'[w] \in AfterAccept => cur[w] \in accepted'
        /\ pc'[w] # "erase"
    BY <1>9 DEF Transmit, ServerAccepts, Goto, serverVars, AfterAccept, TypeOK
  <2>3. \A v \in Workers : v # w => pc'[v] = pc[v]
    BY <1>9 DEF Transmit, Goto, TypeOK
  <2>4. UNCHANGED <<out, sentBox, snap, cur, edit>>
    BY <1>9 DEF Transmit
  <2>5. SentWasAccepted'
    BY <2>2, <2>4 DEF SentBacked, SentWasAccepted
  <2>6. /\ edit' # None => Composed(edit.msg)'
        /\ \A m \in accepted' : Composed(m)'
    BY <1>a, <2>1, <2>2, <2>4, TypeSubset DEF SentBacked, Composed
  <2> QED
    BY <1>a, <1>9, <2>1, <2>2, <2>3, <2>4, <2>5, <2>6 DEF SentBacked
<1>10. ASSUME NEW w \in Workers, MarkFailed(w) PROVE SentBacked'
  <2>1. \A m \in Msgs : IsSent(out'[m]) => IsSent(out[m])
    BY <1>10 DEF MarkFailed, SaveToOut, TypeOK, IsSent, Rec
  <2> QED
    BY <1>a, <1>10, <2>1
    DEF MarkFailed, NextMessage, Goto, TypeOK, SentBacked, SentWasAccepted, AfterAccept, serverVars
<1>11. ASSUME NEW w \in Workers, MarkSentInOut(w) PROVE SentBacked'
  <2>1. cur[w] \in Msgs /\ cur[w] \in accepted
    BY <1>11, BusyHasMessage DEF MarkSentInOut, SentBacked, AfterAccept
  <2>2. \A m \in Msgs : IsSent(out'[m]) => IsSent(out[m]) \/ m = cur[w]
    BY <1>11 DEF MarkSentInOut, SaveToOut, TypeOK
  <2> QED
    BY <1>a, <1>11, <2>1, <2>2
    DEF MarkSentInOut, Goto, TypeOK, SentBacked, SentWasAccepted, AfterAccept, serverVars
<1>12. ASSUME NEW w \in Workers, CopyToSent(w) PROVE SentBacked'
  <2>1. cur[w] \in accepted
    BY <1>12, BusyHasMessage DEF CopyToSent, SentBacked, AfterAccept
  <2> QED
    BY <1>a, <1>12, <2>1
    DEF CopyToSent, NextMessage, Goto, TypeOK, SentBacked, SentWasAccepted, AfterAccept, serverVars
<1>13. ASSUME NEW w \in Workers, SaveInSent(w) PROVE SentBacked'
  <2>1. cur[w] \in accepted
    BY <1>13, BusyHasMessage DEF SaveInSent, SentBacked, AfterAccept
  <2> QED
    BY <1>a, <1>13, <2>1
    DEF SaveInSent, NextMessage, Goto, TypeOK, SentBacked, SentWasAccepted, AfterAccept, serverVars
<1>14. ASSUME NEW w \in Workers, EraseFromOut(w) PROVE SentBacked'
  <2>1. \A m \in Msgs : IsSent(out'[m]) => IsSent(out[m])
    BY <1>14 DEF EraseFromOut, TypeOK, IsSent
  <2> QED
    BY <1>a, <1>14, <2>1
    DEF EraseFromOut, NextMessage, Goto, TypeOK, SentBacked, SentWasAccepted, AfterAccept, serverVars
<1>15. ASSUME NEW w \in Workers, EndPass(w) PROVE SentBacked'
  BY <1>a, <1>15 DEF EndPass, Goto, TypeOK, SentBacked, SentWasAccepted, AfterAccept, serverVars
<1>16. ASSUME Crash PROVE SentBacked'
  BY <1>a, <1>16 DEF Crash, NothingListed, TypeOK, SentBacked, SentWasAccepted, IsSent, AfterAccept, serverVars
<1>17. CASE UNCHANGED vars
  BY <1>17 DEF vars, SentBacked, SentWasAccepted, Composed
<1> QED
  BY <1>1, <1>2, <1>3, <1>4, <1>5, <1>6, <1>7, <1>8, <1>9, <1>10, <1>11, <1>12,
     <1>13, <1>14, <1>15, <1>16, <1>17 DEF Next, UserStep, Handle

-----------------------------------------------------------------------------
(* Ownership survives a step that gives nobody a new claim on the message. *)
LEMMA OwnedShrinks ==
  ASSUME NEW m \in Msgs, Owned(m),
         Eligible(out'[m]) => Eligible(out[m]),
         \A v \in Workers : Eligible(snap'[v][m]) => Eligible(snap[v][m]),
         \A v \in Workers : cur'[v] = m =>
           cur[v] = m /\ (pc[v] \in AfterAccept => pc'[v] \in AfterAccept),
         m \in accepted' => m \in accepted
  PROVE  Owned(m)'
  BY DEF Owned, Holds

(* The passing of time changes no record's delivery state. *)
LEMMA TimeKeepsEligible ==
  ASSUME TypeOK, NEW n \in Msgs, TimePasses(n), NEW m \in Msgs
  PROVE  /\ Eligible(out'[m]) => Eligible(out[m])
         /\ \A v \in Workers : Eligible(snap'[v][m]) => Eligible(snap[v][m])
<1> USE SendQueueAssumption
<1>1. \A r \in Record : [r EXCEPT !.due = TRUE].delivery = r.delivery
  BY DEF Record
<1>2. CASE out[n] # None /\ out' = [out EXCEPT ![n].due = TRUE] /\ UNCHANGED snap
  <2>1. out[n] \in Record
    BY <1>2 DEF TypeOK
  <2>2. CASE m = n
    BY <1>1, <1>2, <2>1, <2>2 DEF TypeOK, Eligible
  <2>3. CASE m # n
    BY <1>2, <2>3 DEF TypeOK
  <2> QED BY <1>2, <2>2, <2>3
<1>3. ASSUME NEW w \in Workers, snap[w][n] # None,
             snap' = [snap EXCEPT ![w][n].due = TRUE], UNCHANGED out,
             NEW v \in Workers, Eligible(snap'[v][m])
      PROVE  Eligible(snap[v][m])
  <2>1. snap[w][n] \in Record
    BY <1>3 DEF TypeOK
  <2>2. CASE v = w /\ m = n
    BY <1>1, <1>3, <2>1, <2>2 DEF TypeOK, Eligible
  <2>3. CASE ~(v = w /\ m = n)
    BY <1>3, <2>3 DEF TypeOK
  <2> QED BY <2>2, <2>3
<1> QED BY <1>2, <1>3 DEF TimePasses

(* Every step that could give a second pass a claim on a message, or put   *)
(* it back before a pass, is one that excuses a second send.               *)
LEMMA OwnedStep ==
  ASSUME TypeOK, CurWhileBusy, SentBacked, SingleOwner, [Next]_vars,
         NEW m \in Msgs, m \notin excused'
  PROVE  Owned(m)'
<1> USE SendQueueAssumption
<1>a. ASSUME excused \subseteq excused' PROVE Owned(m)
  BY <1>a DEF SingleOwner
<1>1. ASSUME NEW n \in Msgs, QueueMessage(n) PROVE Owned(m)'
  <2>1. Owned(m)
    BY <1>1, <1>a DEF QueueMessage
  <2>2. UNCHANGED <<snap, cur, pc, accepted>>
    BY <1>1 DEF QueueMessage, workerVars, serverVars
  <2>3. CASE m = n
    <3>1. ~Composed(m)
      BY <1>1, <2>3 DEF QueueMessage, Composed
    <3>2. m \notin accepted /\ \A w \in Workers : cur[w] # m /\ ~Eligible(snap[w][m])
      BY <3>1 DEF SentBacked, Eligible
    <3> QED BY <2>2, <3>2 DEF Owned, Holds
  <2>4. CASE m # n
    <3>1. out'[m] = out[m]
      BY <1>1, <2>4 DEF QueueMessage, TypeOK
    <3> QED BY <2>1, <2>2, <3>1, OwnedShrinks
  <2> QED BY <2>3, <2>4
<1>2. ASSUME NEW n \in Msgs, ReadForEdit(n) PROVE Owned(m)'
  <2>1. Owned(m)
    BY <1>2, <1>a DEF ReadForEdit
  <2> QED BY <1>2, <2>1, OwnedShrinks DEF ReadForEdit, workerVars, serverVars
<1>3. ASSUME NEW n \in Msgs, DeleteFromOut(n) PROVE Owned(m)'
  <2>1. Owned(m)
    BY <1>3, <1>a DEF DeleteFromOut
  <2>2. Eligible(out'[m]) => Eligible(out[m])
    BY <1>3 DEF DeleteFromOut, TypeOK, Eligible
  <2> QED BY <1>3, <2>1, <2>2, OwnedShrinks DEF DeleteFromOut, workerVars, serverVars
<1>4. ASSUME NEW n \in Msgs, TimePasses(n) PROVE Owned(m)'
  <2>1. Owned(m)
    BY <1>4, <1>a DEF TimePasses
  <2> QED BY <1>4, <2>1, TimeKeepsEligible, OwnedShrinks DEF TimePasses, serverVars
<1>5. ASSUME SaveEdit PROVE Owned(m)'
  <2>1. Owned(m)
    BY <1>5, <1>a DEF SaveEdit
  <2>2. Eligible(out'[m]) => Eligible(out[m])
    BY <1>5 DEF SaveEdit, PutsBack, TypeOK
  <2> QED BY <1>5, <2>1, <2>2, OwnedShrinks DEF SaveEdit, workerVars, serverVars
<1>6. ASSUME NEW w \in Workers, StartPass(w) PROVE Owned(m)'
  <2>1. Owned(m)
    BY <1>6, <1>a DEF StartPass
  <2>2. UNCHANGED <<out, cur, accepted>>
    BY <1>6 DEF StartPass, serverVars
  <2>3. snap'[w] = out /\ \A v \in Workers \ {w} : snap'[v] = snap[v]
    BY <1>6 DEF StartPass, TypeOK
  <2>4. \A v \in Workers : cur[v] = m /\ pc[v] \in AfterAccept => pc'[v] \in AfterAccept
    BY <1>6 DEF StartPass, TypeOK, AfterAccept
  <2>5. CASE Eligible(out[m])
    <3>1. \A v \in Workers \ {w} : ~Eligible(snap[v][m])
      BY <1>6, <2>5 DEF StartPass, ListedElsewhere
    <3>2. m \notin accepted /\ \A v \in Workers : cur[v] # m
      BY <2>1, <2>5 DEF Owned
    <3> QED BY <2>2, <2>3, <3>1, <3>2 DEF Owned, Holds
  <2>6. CASE ~Eligible(out[m])
    BY <2>1, <2>2, <2>3, <2>4, <2>6, OwnedShrinks
  <2> QED BY <2>5, <2>6
<1>7. ASSUME NEW w \in Workers, NEW n \in Msgs, SkipMessage(w, n) PROVE Owned(m)'
  <2>1. Owned(m)
    BY <1>7, <1>a DEF SkipMessage
  <2>2. \A v \in Workers : Eligible(snap'[v][m]) => Eligible(snap[v][m])
    BY <1>7 DEF SkipMessage, TypeOK, Eligible
  <2> QED BY <1>7, <2>1, <2>2, OwnedShrinks DEF SkipMessage, serverVars
<1>8. ASSUME NEW w \in Workers, NEW n \in Msgs, MarkSending(w, n) PROVE Owned(m)'
  <2>1. Owned(m)
    BY <1>8, <1>a DEF MarkSending, SaveToOut
  <2>2. /\ UNCHANGED accepted
        /\ snap'[w][n] = None
        /\ \A v \in Workers : \A k \in Msgs : Eligible(snap'[v][k]) => Eligible(snap[v][k])
    BY <1>8 DEF MarkSending, serverVars, TypeOK, Eligible
  <2>3. /\ cur'[w] = n
        /\ \A v \in Workers \ {w} : cur'[v] = cur[v] /\ pc'[v] = pc[v]
    BY <1>8 DEF MarkSending, TypeOK
  <2>4. CASE m = n
    <3>1. Eligible(snap[w][m])
      BY <1>8, <2>4 DEF MarkSending
    <3>2. out'[m] = Rec("Sending", snap[w][m].legacy, TRUE)
      BY <1>8, <2>4 DEF MarkSending, SaveToOut, TypeOK
    <3>3. ~Eligible(out'[m])
      BY <3>2 DEF Eligible, Rec
    <3>4. \A v \in Workers : Holds(v, m) => v = w
      BY <2>1, <3>1 DEF Owned, Holds
    <3>5. m \notin accepted
      BY <2>1, <3>1 DEF Owned
    <3>6. \A v \in Workers : ~Eligible(snap'[v][m])
      BY <2>2, <2>4, <3>4 DEF Holds, Eligible
    <3>7. \A v \in Workers : cur'[v] = m => v = w
      BY <2>3, <3>4 DEF Holds
    <3> QED BY <2>2, <3>3, <3>5, <3>6, <3>7 DEF Owned, Holds
  <2>5. CASE m # n
    <3>1. out'[m] = out[m]
      BY <1>8, <2>5 DEF MarkSending, SaveToOut, TypeOK
    <3> QED BY <2>1, <2>2, <2>3, <2>5, <3>1, OwnedShrinks
  <2> QED BY <2>4, <2>5
<1>9. ASSUME NEW w \in Workers, Transmit(w) PROVE Owned(m)'
  <2>1. Owned(m)
    BY <1>9, <1>a DEF Transmit
  <2>2. UNCHANGED <<out, snap, cur>> /\ pc[w] = "transmit"
    BY <1>9 DEF Transmit
  <2>3. \A v \in Workers \ {w} : pc'[v] = pc[v]
    BY <1>9 DEF Transmit, Goto, TypeOK
  <2>4. CASE cur[w] = m /\ m \in accepted'
    <3>1. pc'[w] = "sent"
      <4>1. CASE UNCHANGED accepted
        BY <2>1, <2>2, <2>4, <4>1 DEF Owned, AfterAccept
      <4>2. CASE pc' = [pc EXCEPT ![w] = "sent"]
        BY <4>2 DEF TypeOK
      <4> QED BY <1>9, <2>4, <4>1, <4>2 DEF Transmit, Goto, serverVars
    <3>2. \A v \in Workers : Holds(v, m) => v = w
      BY <2>1, <2>4 DEF Owned, Holds
    <3>3. ~Eligible(out[m]) /\ \A v \in Workers : ~Eligible(snap[v][m])
      BY <2>1, <2>4, <3>2 DEF Owned, Holds
    <3> QED BY <2>2, <3>1, <3>2, <3>3 DEF Owned, Holds, AfterAccept
  <2>5. CASE cur[w] # m
    <3>1. m \in accepted' => m \in accepted
      BY <1>9, <2>5 DEF Transmit, ServerAccepts, serverVars
    <3> QED BY <2>1, <2>2, <2>3, <2>5, <3>1, OwnedShrinks
  <2>6. CASE m \notin accepted'
    BY <2>1, <2>2, <2>6 DEF Owned, Holds
  <2> QED BY <2>4, <2>5, <2>6
<1>10. ASSUME NEW w \in Workers, MarkFailed(w) PROVE Owned(m)'
  <2>1. Owned(m)
    BY <1>10, <1>a DEF MarkFailed, SaveToOut
  <2>2. UNCHANGED <<snap, accepted>> /\ pc[w] \notin AfterAccept
    BY <1>10 DEF MarkFailed, serverVars, AfterAccept
  <2>3. /\ cur'[w] = None
        /\ \A v \in Workers \ {w} : cur'[v] = cur[v] /\ pc'[v] = pc[v]
    BY <1>10 DEF MarkFailed, NextMessage, Goto, TypeOK
  <2>4. CASE cur[w] = m
    <3>1. m \notin accepted
      BY <2>1, <2>2, <2>4 DEF Owned
    <3>2. \A v \in Workers : Holds(v, m) => v = w
      BY <2>1, <2>4 DEF Owned, Holds
    <3>3. \A v \in Workers : cur'[v] # m
      BY <2>3, <3>2 DEF Holds
    <3>4. \A v \in Workers : ~Eligible(snap[v][m])
      BY <2>1, <2>4, <3>2 DEF Owned, Holds
    <3> QED BY <2>2, <3>1, <3>3, <3>4 DEF Owned, Holds
  <2>5. CASE cur[w] # m
    <3>1. out'[m] = out[m]
      BY <1>10, <2>5 DEF MarkFailed, SaveToOut, TypeOK
    <3> QED BY <2>1, <2>2, <2>3, <3>1, OwnedShrinks
  <2> QED BY <2>4, <2>5
<1>11. ASSUME NEW w \in Workers, MarkSentInOut(w) PROVE Owned(m)'
  <2>1. Owned(m)
    BY <1>11, <1>a DEF MarkSentInOut, SaveToOut
  <2>2. Eligible(out'[m]) => Eligible(out[m])
    BY <1>11 DEF MarkSentInOut, SaveToOut, SentRecord, Rec, Eligible, TypeOK
  <2>3. \A v \in Workers : pc[v] \in AfterAccept => pc'[v] \in AfterAccept
    BY <1>11 DEF MarkSentInOut, Goto, TypeOK, AfterAccept
  <2> QED BY <1>11, <2>1, <2>2, <2>3, OwnedShrinks DEF MarkSentInOut, serverVars
<1>12. ASSUME NEW w \in Workers, CopyToSent(w) \/ SaveInSent(w) \/ EraseFromOut(w)
       PROVE  Owned(m)'
  <2>1. Owned(m)
    BY <1>12, <1>a DEF CopyToSent, SaveInSent, EraseFromOut
  <2>2. Eligible(out'[m]) => Eligible(out[m])
    BY <1>12 DEF CopyToSent, SaveInSent, EraseFromOut, Eligible, TypeOK
  <2>3. \A v \in Workers : cur'[v] = m =>
          cur[v] = m /\ (pc[v] \in AfterAccept => pc'[v] \in AfterAccept)
    BY <1>12 DEF CopyToSent, SaveInSent, EraseFromOut, NextMessage, Goto, TypeOK, AfterAccept
  <2>4. UNCHANGED <<snap, accepted>>
    BY <1>12 DEF CopyToSent, SaveInSent, EraseFromOut, serverVars
  <2> QED BY <2>1, <2>2, <2>3, <2>4, OwnedShrinks
<1>13. ASSUME NEW w \in Workers, EndPass(w) PROVE Owned(m)'
  <2>1. Owned(m)
    BY <1>13, <1>a DEF EndPass
  <2>2. \A v \in Workers : pc[v] \in AfterAccept => pc'[v] \in AfterAccept
    BY <1>13 DEF EndPass, Goto, TypeOK, AfterAccept
  <2> QED BY <1>13, <2>1, <2>2, OwnedShrinks DEF EndPass, serverVars
<1>14. ASSUME Crash PROVE Owned(m)'
  <2>1. Owned(m)
    BY <1>14, <1>a DEF Crash
  <2>2. \A v \in Workers : ~Eligible(snap'[v][m]) /\ cur'[v] # m
    BY <1>14 DEF Crash, NothingListed, Eligible
  <2> QED BY <1>14, <2>1, <2>2, OwnedShrinks DEF Crash, serverVars
<1>15. CASE UNCHANGED vars
  BY <1>15, <1>a, OwnedShrinks DEF vars
<1> QED
  BY <1>1, <1>2, <1>3, <1>4, <1>5, <1>6, <1>7, <1>8, <1>9, <1>10, <1>11, <1>12,
     <1>13, <1>14, <1>15 DEF Next, UserStep, Handle

(* What excuses a second send is never forgotten. *)
LEMMA ExcusedGrows ==
  ASSUME [Next]_vars
  PROVE  excused \subseteq excused'
  BY DEF Next, UserStep, Handle, vars, SaveToOut, QueueMessage, ReadForEdit, DeleteFromOut,
         TimePasses, SaveEdit, StartPass, SkipMessage, MarkSending, Transmit, MarkFailed,
         MarkSentInOut, CopyToSent, SaveInSent, EraseFromOut, EndPass, Crash

(* The server is offered a message again only when that is excused. *)
LEMMA DuplicateStep ==
  ASSUME TypeOK, CurWhileBusy, SingleOwner, NoUnexplainedDuplicate, [Next]_vars
  PROVE  NoUnexplainedDuplicate'
<1>1. ASSUME NEW w \in Workers, Transmit(w) PROVE duplicated' \subseteq excused'
  <2>1. cur[w] \in Msgs /\ pc[w] = "transmit"
    BY <1>1, BusyHasMessage DEF Transmit
  <2>2. cur[w] \in accepted => cur[w] \in excused
    BY <2>1 DEF SingleOwner, Owned, AfterAccept
  <2>3. duplicated' \subseteq duplicated \cup {m \in {cur[w]} : m \in accepted}
    BY <1>1 DEF Transmit, ServerAccepts, serverVars
  <2> QED BY <2>2, <2>3, ExcusedGrows DEF NoUnexplainedDuplicate
<1>2. ASSUME \A w \in Workers : ~Transmit(w) PROVE UNCHANGED duplicated
  BY <1>2 DEF Next, UserStep, Handle, vars, serverVars, QueueMessage, ReadForEdit, DeleteFromOut,
         TimePasses, SaveEdit, StartPass, SkipMessage, MarkSending, MarkFailed,
         MarkSentInOut, CopyToSent, SaveInSent, EraseFromOut, EndPass, Crash
<1> QED BY <1>1, <1>2, ExcusedGrows DEF NoUnexplainedDuplicate

(* The inductive invariant of the outgoing queue. *)
THEOREM InductiveInvariant == Spec => []IInv
<1>1. Init => IInv
  <2> SUFFICES ASSUME Init PROVE IInv
    OBVIOUS
  <2> USE SendQueueAssumption
  <2>1. TypeOK /\ CurWhileBusy
    BY DEF Init, TypeOK, CurWhileBusy, NothingListed, Steps
  <2>2. SentBacked
    BY DEF Init, SentBacked, SentWasAccepted, NothingListed, IsSent, AfterAccept
  <2>3. SingleOwner
    BY DEF Init, SingleOwner, Owned, Holds, NothingListed, Eligible
  <2>4. NoUnexplainedDuplicate
    BY DEF Init, NoUnexplainedDuplicate
  <2> QED BY <2>1, <2>2, <2>3, <2>4 DEF IInv
<1>2. ASSUME TypeOK, CurWhileBusy, TypeOK', CurWhileBusy', IInv, [Next]_vars PROVE IInv'
  <2>1. SentBacked'
    BY <1>2, SentBackedStep DEF IInv
  <2>2. \A m \in Msgs \ excused' : Owned(m)'
    BY <1>2, OwnedStep DEF IInv
  <2>3. SingleOwner'
    BY <2>2 DEF SingleOwner
  <2>4. NoUnexplainedDuplicate'
    BY <1>2, DuplicateStep DEF IInv
  <2> QED BY <1>2, <2>1, <2>3, <2>4 DEF IInv
<1> QED BY <1>1, <1>2, TypeInvariant, PTL DEF Spec

(* Nothing is shown as sent that the server has not accepted. *)
THEOREM SentIsTrue == Spec => []SentWasAccepted
<1>1. IInv => SentWasAccepted
  BY DEF IInv, SentBacked
<1> QED BY <1>1, InductiveInvariant, PTL

(* The server gets a message twice only after an event that excuses it. *)
THEOREM AtMostOnce == Spec => []NoUnexplainedDuplicate
<1>1. IInv => NoUnexplainedDuplicate
  BY DEF IInv
<1> QED BY <1>1, InductiveInvariant, PTL

(* A queued message stays in Out or in Sent until the user deletes it. *)
THEOREM NothingVanishes == Spec => NoMessageVanishes
<1>1. IInv /\ [Next]_vars => [\A m \in Msgs : Composed(m) => Composed(m)']_vars
  BY ComposedStable DEF IInv
<1> QED BY <1>1, InductiveInvariant, PTL DEF Spec, NoMessageVanishes

-----------------------------------------------------------------------------
(* The end of a pass, without the scheduler.  PassEnds is TLC's; what is    *)
(* proved is why no pass can go on for ever, for any number of messages.   *)

(* The messages a pass has listed and not finished. *)
Left(w) == {m \in Msgs : snap[w][m] # None \/ cur[w] = m}

(* How far it is with one of them. *)
Place == [next |-> 0, transmit |-> 1, reject |-> 1, failed |-> 2, sent |-> 2,
          copy |-> 3, erase |-> 3]

(* The step ends the pass, is done with a message, or comes further with   *)
(* the current one.                                                        *)
MovesOn(w) ==
  \/ pc'[w] = "idle"
  \/ (Left(w)' \subseteq Left(w) /\ Left(w)' # Left(w))
  \/ (Left(w)' = Left(w) /\ Place[pc'[w]] > Place[pc[w]])

Waits(w) == pc'[w] = pc[w] /\ Left(w)' = Left(w)

(* The current message has left the list: it is not met again. *)
CurUnlisted == \A w \in Workers : cur[w] # None => snap[w][cur[w]] = None

LInv == TypeOK /\ CurWhileBusy /\ CurUnlisted

LEMMA UnlistedStep ==
  ASSUME LInv, [Next]_vars
  PROVE  CurUnlisted'
<1> USE SendQueueAssumption DEF LInv
<1>1. ASSUME NEW n \in Msgs, TimePasses(n) PROVE CurUnlisted'
  <2>1. \A w \in Workers : \A m \in Msgs : snap[w][m] = None => snap'[w][m] = None
    BY <1>1 DEF TimePasses, TypeOK
  <2> QED BY <1>1, <2>1 DEF TimePasses, TypeOK, CurUnlisted
<1>2. ASSUME NEW w \in Workers, StartPass(w) PROVE CurUnlisted'
  <2>1. cur[w] = None
    BY <1>2 DEF StartPass, CurWhileBusy
  <2> QED BY <1>2, <2>1 DEF StartPass, TypeOK, CurUnlisted
<1>3. ASSUME NEW w \in Workers, NEW n \in Msgs, SkipMessage(w, n) PROVE CurUnlisted'
  BY <1>3 DEF SkipMessage, TypeOK, CurUnlisted
<1>4. ASSUME NEW w \in Workers, NEW n \in Msgs, MarkSending(w, n) PROVE CurUnlisted'
  BY <1>4 DEF MarkSending, TypeOK, CurUnlisted
<1>5. ASSUME NEW w \in Workers,
             MarkFailed(w) \/ CopyToSent(w) \/ SaveInSent(w) \/ EraseFromOut(w)
      PROVE  CurUnlisted'
  BY <1>5 DEF MarkFailed, CopyToSent, SaveInSent, EraseFromOut, NextMessage, TypeOK, CurUnlisted
<1>6. ASSUME UNCHANGED <<snap, cur>> PROVE CurUnlisted'
  BY <1>6 DEF CurUnlisted
<1>7. CASE Crash
  BY <1>7 DEF Crash, NothingListed, CurUnlisted
<1> QED
  BY <1>1, <1>2, <1>3, <1>4, <1>5, <1>6, <1>7
  DEF Next, UserStep, Handle, QueueMessage, ReadForEdit, DeleteFromOut, SaveEdit, Transmit,
      MarkSentInOut, EndPass, workerVars, vars

(* Each step of the loop of SendQueuedInternal moves its pass on. *)
LEMMA HandleMovesOn ==
  ASSUME LInv, NEW w \in Workers, Handle(w)
  PROVE  MovesOn(w)
<1> USE SendQueueAssumption DEF LInv
<1>1. ASSUME NEW n \in Msgs, SkipMessage(w, n) PROVE MovesOn(w)
  <2>1. cur[w] = None
    BY <1>1 DEF SkipMessage, CurWhileBusy
  <2>2. n \in Left(w) /\ Left(w)' = Left(w) \ {n}
    BY <1>1, <2>1 DEF SkipMessage, TypeOK, Left
  <2> QED BY <2>2 DEF MovesOn
<1>2. ASSUME NEW n \in Msgs, MarkSending(w, n) PROVE MovesOn(w)
  <2>1. cur[w] = None /\ snap[w][n] # None
    BY <1>2 DEF MarkSending, CurWhileBusy, Eligible
  <2>2. Left(w)' = Left(w)
    BY <1>2, <2>1 DEF MarkSending, TypeOK, Left
  <2>3. pc[w] = "next" /\ pc'[w] \in {"transmit", "reject"}
    BY <1>2 DEF MarkSending, TypeOK
  <2> QED BY <2>2, <2>3 DEF MovesOn, Place
<1>3. ASSUME NextMessage(w), UNCHANGED snap, pc[w] \notin {"idle", "next"}
      PROVE  MovesOn(w)
  <2>1. cur[w] \in Msgs
    BY <1>3, BusyHasMessage
  <2>2. snap[w][cur[w]] = None
    BY <2>1 DEF CurUnlisted
  <2>3. cur[w] \in Left(w) /\ Left(w)' = Left(w) \ {cur[w]}
    BY <1>3, <2>1, <2>2 DEF NextMessage, TypeOK, Left
  <2> QED BY <2>3 DEF MovesOn
<1>4. ASSUME Transmit(w) \/ MarkSentInOut(w) \/ (SaveInSent(w) /\ UNCHANGED cur)
      PROVE  MovesOn(w)
  <2>1. Left(w)' = Left(w)
    BY <1>4 DEF Transmit, MarkSentInOut, SaveInSent, Left
  <2>2. \/ pc[w] = "transmit" /\ pc'[w] \in {"sent", "failed"}
        \/ pc[w] = "sent" /\ pc'[w] \in {"copy", "erase"}
    <3>1. \A s \in Steps : Goto(w, s) => pc'[w] = s
      BY DEF Goto, TypeOK
    <3>2. CASE Transmit(w)
      BY <3>1, <3>2 DEF Transmit, Steps
    <3>3. CASE MarkSentInOut(w)
      BY <3>1, <3>3 DEF MarkSentInOut, Steps
    <3>4. CASE SaveInSent(w) /\ UNCHANGED cur
      <4>1. cur[w] # None
        BY <3>4, BusyHasMessage DEF SaveInSent
      <4>2. ~NextMessage(w)
        BY <3>4, <4>1 DEF NextMessage, TypeOK
      <4> QED BY <3>1, <3>4, <4>2 DEF SaveInSent, Steps
    <3> QED BY <1>4, <3>2, <3>3, <3>4
  <2> QED BY <2>1, <2>2 DEF MovesOn, Place
<1>5. ASSUME EndPass(w) PROVE MovesOn(w)
  BY <1>5 DEF EndPass, Goto, TypeOK, MovesOn
<1>6. ASSUME MarkFailed(w) \/ CopyToSent(w) \/ EraseFromOut(w) PROVE MovesOn(w)
  BY <1>3, <1>6 DEF MarkFailed, CopyToSent, EraseFromOut
<1>7. ASSUME SaveInSent(w) PROVE MovesOn(w)
  BY <1>3, <1>4, <1>7 DEF SaveInSent
<1>8. ASSUME Transmit(w) \/ MarkSentInOut(w) PROVE MovesOn(w)
  BY <1>4, <1>8
<1> HIDE DEF LInv
<1> QED BY <1>1, <1>2, <1>5, <1>6, <1>7, <1>8 DEF Handle

(* No step of another window, of the user or of time gives a running pass  *)
(* more to do.                                                             *)
LEMMA OthersLeaveIt ==
  ASSUME LInv, [Next]_vars, NEW w \in Workers, pc[w] # "idle", ~Handle(w)
  PROVE  Waits(w) \/ pc'[w] = "idle"
<1> USE SendQueueAssumption DEF LInv
<1>1. ASSUME NEW n \in Msgs, TimePasses(n) PROVE Waits(w)
  <2>1. UNCHANGED <<cur, pc>>
    BY <1>1 DEF TimePasses
  <2>2. \A m \in Msgs : snap'[w][m] = None <=> snap[w][m] = None
    <3>1. CASE UNCHANGED snap
      BY <3>1
    <3>2. ASSUME NEW v \in Workers, snap[v][n] # None,
                 snap' = [snap EXCEPT ![v][n].due = TRUE]
          PROVE  \A m \in Msgs : snap'[w][m] = None <=> snap[w][m] = None
      <4>1. snap[v][n] \in Record
        BY <3>2 DEF TypeOK
      <4>2. [snap[v][n] EXCEPT !.due = TRUE] # None
        <5>1. \A r \in Record : [r EXCEPT !.due = TRUE] \in Record
          BY DEF Record
        <5> QED BY <4>1, <5>1
      <4> QED BY <3>2, <4>2 DEF TypeOK
    <3> QED BY <1>1, <3>1, <3>2 DEF TimePasses
  <2> QED BY <2>1, <2>2 DEF Waits, Left
<1>2. ASSUME NEW v \in Workers \ {w}, StartPass(v) \/ Handle(v) PROVE Waits(w)
  <2>1. cur'[w] = cur[w] /\ pc'[w] = pc[w] /\ snap'[w] = snap[w]
    BY <1>2 DEF StartPass, Handle, SkipMessage, MarkSending, Transmit, MarkFailed, MarkSentInOut,
           CopyToSent, SaveInSent, EraseFromOut, EndPass, NextMessage, Goto, TypeOK
  <2> QED BY <2>1 DEF Waits, Left
<1>3. ~StartPass(w)
  BY DEF StartPass
<1>4. ASSUME UNCHANGED <<snap, cur, pc>> PROVE Waits(w)
  BY <1>4 DEF Waits, Left
<1>5. CASE Crash
  BY <1>5 DEF Crash
<1>6. ASSUME NEW n \in Msgs, QueueMessage(n) \/ ReadForEdit(n) \/ DeleteFromOut(n) PROVE Waits(w)
  BY <1>4, <1>6 DEF QueueMessage, ReadForEdit, DeleteFromOut, workerVars
<1>7. CASE SaveEdit \/ UNCHANGED vars
  BY <1>4, <1>7 DEF SaveEdit, workerVars, vars
<1> QED BY <1>1, <1>2, <1>3, <1>5, <1>6, <1>7 DEF Next, UserStep

(* A pass lists Out once and is never given more to do: whatever happens,  *)
(* the set of messages it has left does not grow, and each of its own      *)
(* steps ends it, finishes a message, or brings the current message        *)
(* further, of which there are three steps at most.  So a pass over n      *)
(* messages takes at most 4n + 1 steps, and the loop of                    *)
(* SendQueuedInternal has no way to run for ever.                          *)
THEOREM PassesMoveOn ==
  Spec => [][\A w \in Workers : pc[w] # "idle" =>
               /\ MovesOn(w) \/ Waits(w)
               /\ Handle(w) => MovesOn(w)]_vars
<1>1. Init => CurUnlisted
  BY DEF Init, CurUnlisted
<1>2. LInv /\ [Next]_vars => CurUnlisted'
  BY UnlistedStep
<1>3. LInv /\ [Next]_vars =>
        [\A w \in Workers : pc[w] # "idle" =>
           /\ MovesOn(w) \/ Waits(w)
           /\ Handle(w) => MovesOn(w)]_vars
  <2> SUFFICES ASSUME LInv, [Next]_vars, NEW w \in Workers, pc[w] # "idle"
               PROVE  /\ MovesOn(w) \/ Waits(w)
                      /\ Handle(w) => MovesOn(w)
    OBVIOUS
  <2> QED BY HandleMovesOn, OthersLeaveIt DEF MovesOn
<1> QED BY <1>1, <1>2, <1>3, TypeInvariant, PTL DEF Spec, LInv
=============================================================================
