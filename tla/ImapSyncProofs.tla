--------------------------- MODULE ImapSyncProofs ---------------------------
(***************************************************************************)
(* Proofs about the synchronisation of an IMAP mailbox, for every number   *)
(* of windows, mailboxes with one local id, messages, failed saves and     *)
(* crashes.                                                                *)
(***************************************************************************)
EXTENDS ImapSync, FiniteSetTheorems, Extrema

LEMMA Bounds ==
  /\ MaxUid \in Nat \ {0} /\ MaxFaults \in Nat /\ MaxCalls \in Nat /\ HeadersOnly \in BOOLEAN
  /\ Listed \in Boxes /\ Validities \subseteq Nat \ {0} /\ None \notin Record
  /\ Uids \subseteq Nat /\ 0 \in 0..MaxUid /\ Uids \subseteq 0..MaxUid /\ 0..MaxUid \subseteq Nat
BY ImapSyncAssumption DEF Uids

LEMMA MaxOf ==
  ASSUME NEW S \in SUBSET (0..MaxUid), S # {}
  PROVE  Max(S) \in S /\ \A x \in S : x <= Max(S)
<1>1. \E a \in S : \A b \in S : b <= a
  <2>1. S \in SUBSET Nat /\ \A b \in S : b <= MaxUid
    BY Bounds
  <2> QED BY <2>1, Bounds, GreatestExists
<1>2. \E a \in S : \A b \in S : a >= b
  BY <1>1, Bounds
<1>3. Max(S) \in S /\ \A x \in S : Max(S) >= x
  BY <1>2 DEF Max
<1> QED BY <1>3, Bounds

LEMMA MinOf ==
  ASSUME NEW a \in 0..MaxUid, NEW b \in 0..MaxUid
  PROVE  Min({a, b}) \in 0..MaxUid /\ (Min({a, b}) = a \/ Min({a, b}) = b)
         /\ Min({a, b}) <= a /\ Min({a, b}) <= b
<1>1. \E x \in {a, b} : \A y \in {a, b} : x <= y
  OBVIOUS
<1>2. Min({a, b}) \in {a, b} /\ \A y \in {a, b} : Min({a, b}) <= y
  BY <1>1 DEF Min
<1> QED BY <1>2

-----------------------------------------------------------------------------
(* Types *)

(* A mailbox has a UID for one message, below its UIDNEXT; a message is in *)
(* one mailbox, and one that arrives in none.                              *)
ServerOK ==
  /\ validity \in [Boxes -> Validities]
  /\ uid \in [Boxes -> [Mail -> 0..MaxUid]]
  /\ next \in [Boxes -> 1..(MaxUid + 1)]
  /\ arriving \subseteq Mail
  /\ \A n \in Boxes, m \in Mail : uid[n][m] < next[n]
  /\ \A n \in Boxes, m, x \in Mail : uid[n][m] # 0 /\ uid[n][m] = uid[n][x] => m = x
  /\ \A a, b \in Boxes, m \in Mail : uid[a][m] # 0 /\ uid[b][m] # 0 => a = b
  /\ \A n \in Boxes, m \in arriving : uid[n][m] = 0

Job == [u : Uids, old : Record]

Steps == {"idle", "replay", "fetch", "mailboxes", "select", "save", "store"}

(* A window has what its next step needs. *)
WindowOK(w) ==
  /\ pc[w] = "fetch" => job[w] \in Job
  /\ pc[w] \in {"select", "save", "store"} => mem[w] \in Memory
  /\ pc[w] \notin {"save", "store"} => batch[w] = {}

CheckOK ==
  /\ pc \in [Windows -> Steps]
  /\ jobs \in [Windows -> SUBSET Uids]
  /\ job \in [Windows -> Job \cup {None}]
  /\ mem \in [Windows -> Memory \cup {None}]
  /\ batch \in [Windows -> SUBSET (Uids \X Mail)]
  /\ \A w \in Windows : WindowOK(w)

DiskOK ==
  /\ file \in State
  /\ store \in [Uids -> Record \cup {None}]
  /\ wanted \subseteq Uids
  /\ origin \in Origin /\ top \in 0..MaxUid
  /\ faults \in 0..MaxFaults /\ calls \in 0..MaxCalls

TInv == ServerOK /\ CheckOK /\ DiskOK

(* What a mailbox made anew gives its messages: each a UID of its own.     *)
LEMMA RenumberType ==
  ASSUME ServerOK, NEW n \in Boxes, NEW v \in Validities,
         NEW order \in [Mail -> 0..Cardinality(Mail)], Renumber(n, v, order)
  PROVE  /\ order \in [Mail -> 0..MaxUid]
         /\ Cardinality({m \in Mail : uid[n][m] # 0}) \in 0..MaxUid
         /\ \A m \in Mail : order[m] < Cardinality({x \in Mail : uid[n][x] # 0}) + 1
         /\ \A m, x \in Mail : order[m] # 0 /\ order[m] = order[x] => m = x
         /\ \A m \in Mail : order[m] = 0 <=> uid[n][m] = 0
<1> DEFINE there == {m \in Mail : uid[n][m] # 0}
           size == Cardinality(there)
           f == [m \in there |-> uid[n][m]]
           g == [m \in there |-> order[m]]
<1>1. /\ \A m \in Mail : order[m] = 0 <=> m \notin there
      /\ {order[m] : m \in there} = 1..size
  BY DEF Renumber
<1>2. f \in [there -> 1..MaxUid] /\ \A a, b \in there : f[a] = f[b] => a = b
  BY DEF ServerOK
<1>3. f \in Injection(there, 1..MaxUid)
  BY <1>2 DEF Injection, IsInjective
<1>4. IsFiniteSet(1..MaxUid) /\ Cardinality(1..MaxUid) = MaxUid
  BY FS_Interval, Bounds
<1> HIDE DEF f
<1>5. IsFiniteSet(there) /\ size <= MaxUid
  BY <1>3, <1>4, FS_Injection
<1>6. size \in Nat
  BY <1>5, FS_CardinalityType
<1> HIDE DEF size
<1>7. IsFiniteSet(1..size) /\ Cardinality(1..size) = size
  BY <1>6, FS_Interval
<1>8. g \in [there -> 1..size] /\ \A t \in 1..size : \E m \in there : g[m] = t
  BY <1>1
<1>9. g \in Surjection(there, 1..size)
  BY <1>8 DEF Surjection
<1> HIDE DEF g, there
<1>10. g \in Injection(there, 1..size)
  BY <1>5, <1>7, <1>9, FS_Surjection DEF size
<1>11. \A a, b \in there : g[a] = g[b] => a = b
  BY <1>8, <1>10 DEF Injection, IsInjective
<1>12. \A m \in Mail : order[m] # 0 => m \in there /\ g[m] = order[m] /\ order[m] \in 1..size
  BY <1>1, <1>8 DEF g
<1>13. \A m \in Mail : order[m] \in 0..MaxUid /\ order[m] < size + 1
  BY <1>5, <1>6, <1>12, Bounds
<1>14. order \in [Mail -> 0..MaxUid]
  BY <1>13
<1>15. size \in 0..MaxUid
  BY <1>5, <1>6, Bounds
<1> QED BY <1>1, <1>11, <1>12, <1>13, <1>14, <1>15 DEF size, there

(* What UID FETCH answers: messages of the mailbox, all from the first UID *)
(* on, and of those below it only the last.                                *)
LEMMA AnswerEffect ==
  ASSUME ServerOK, NEW n \in Boxes, NEW first \in Nat
  PROVE  /\ Answer(n, first) \subseteq {m \in Mail : uid[n][m] # 0}
         /\ \A m \in Mail : uid[n][m] # 0 /\ uid[n][m] >= first => m \in Answer(n, first)
         /\ \A m \in Answer(n, first) :
              uid[n][m] >= first \/ \A x \in Mail : uid[n][x] <= uid[n][m]
<1> DEFINE there == {m \in Mail : uid[n][m] # 0}
           uids == {uid[n][m] : m \in there}
<1>1. Answer(n, first) = {m \in there : uid[n][m] >= first \/ uid[n][m] = Max(uids)}
  BY DEF Answer
<1>2. uids \in SUBSET (0..MaxUid) /\ \A m \in Mail : uid[n][m] \in 0..MaxUid
  BY DEF ServerOK
<1>3. ASSUME NEW m \in Answer(n, first), ~(uid[n][m] >= first), NEW x \in Mail
      PROVE  uid[n][x] <= uid[n][m]
  <2>1. m \in there /\ uid[n][m] = Max(uids)
    BY <1>1, <1>3
  <2>2. uids # {}
    BY <2>1
  <2> HIDE DEF uids
  <2>3. Max(uids) \in uids /\ \A y \in uids : y <= Max(uids)
    BY <1>2, <2>2, MaxOf
  <2>4. uid[n][x] # 0 => uid[n][x] \in uids
    BY DEF uids
  <2> QED BY <1>2, <2>1, <2>3, <2>4, Bounds
<1> QED BY <1>1, <1>3

LEMMA GoEffect ==
  ASSUME CheckOK, NEW w \in Windows, NEW step \in Steps, Go(w, step)
  PROVE  /\ pc' \in [Windows -> Steps]
         /\ pc'[w] = step
         /\ \A v \in Windows \ {w} : pc'[v] = pc[v]
BY DEF Go, CheckOK

(* The largest last seen UID there is to save. *)
LEMMA TopType ==
  ASSUME TInv, NEW w \in Windows, pc[w] \in {"select", "save", "store"}
  PROVE  /\ mem[w] \in Memory /\ mem[w].state.seen \in 0..MaxUid
         /\ Top(w) \in 0..MaxUid /\ top <= Top(w) /\ mem[w].state.seen <= Top(w)
<1>1. mem[w] \in Memory /\ mem[w].state \in State
  BY DEF TInv, CheckOK, WindowOK, Memory
<1>2. mem[w].state.seen \in 0..MaxUid /\ top \in 0..MaxUid
  BY <1>1 DEF State, TInv, DiskOK
<1> DEFINE two == {top, mem[w].state.seen}
<1>3. two \in SUBSET (0..MaxUid) /\ two # {} /\ top \in two /\ mem[w].state.seen \in two
  BY <1>2
<1>4. Top(w) = Max(two)
  BY DEF Top
<1> HIDE DEF two
<1>5. Max(two) \in two /\ \A x \in two : x <= Max(two)
  BY <1>3, MaxOf
<1> QED BY <1>1, <1>2, <1>3, <1>4, <1>5

(* Whether the UIDVALIDITY read is another, and after which UID the        *)
(* messages are asked for.                                                 *)
Again(w) == mem[w].state.validity # 0 /\ mem[w].state.validity # validity[mem[w].name]
Start(w) == IF Again(w) THEN 0 ELSE mem[w].state.seen

LEMMA HiddenType ==
  ASSUME ServerOK, NEW from \in Origin, NEW n \in Boxes, NEW seen \in 0..MaxUid
  PROVE  /\ Hidden(from, n, seen) \in 0..MaxUid /\ Hidden(from, n, seen) <= seen
         /\ ~(from.name = n /\ from.validity = validity[n]) => Hidden(from, n, seen) = seen
         /\ Hidden(from, n, seen) = seen \/ Hidden(from, n, seen) = from.hidden
<1>1. from.hidden \in 0..MaxUid
  BY DEF Origin
<1> QED BY <1>1, MinOf, Bounds DEF Hidden

(* What SyncMailbox makes of the answer. *)
LEMMA FetchEffect ==
  ASSUME TInv, NEW w \in Windows, Fetch(w)
  PROVE  LET n == mem[w].name
             s == mem'[w].state
         IN /\ pc[w] = "select" /\ mem[w] \in Memory /\ n \in Boxes
            /\ mem' \in [Windows -> Memory \cup {None}] /\ mem'[w] \in Memory
            /\ \A v \in Windows \ {w} : mem'[v] = mem[v] /\ batch'[v] = batch[v]
            /\ mem'[w].name = n /\ mem'[w].full = mem[w].full /\ mem'[w].low = mem[w].low
            /\ mem'[w].again = Again(w)
            /\ mem'[w].origin = [name |-> n, validity |-> validity[n],
                                 hidden |-> Hidden(mem[w].origin, n, Start(w))]
            /\ s.validity = validity[n]
            /\ s.seen \in 0..MaxUid /\ Start(w) \in 0..MaxUid /\ Start(w) <= s.seen
            /\ s.seen = Start(w) \/ \E m \in Mail : uid[n][m] # 0 /\ uid[n][m] = s.seen
            /\ batch' \in [Windows -> SUBSET (Uids \X Mail)]
            /\ \A m \in Mail : uid[n][m] > Start(w) => <<uid[n][m], m>> \in batch'[w]
            /\ \A u \in Uids, m \in Mail : <<u, m>> \in batch'[w] =>
                 /\ uid[n][m] = u /\ u <= s.seen
                 /\ u > Start(w) \/ \A x \in Mail : uid[n][x] <= u
<1> DEFINE n == mem[w].name
           got == Answer(n, Start(w) + 1)
           seens == {Start(w)} \cup {uid[n][m] : m \in got}
           s == [validity |-> validity[n], seen |-> Max(seens)]
           o == [name |-> n, validity |-> validity[n],
                 hidden |-> Hidden(mem[w].origin, n, Start(w))]
           items == {<<uid[n][m], m>> : m \in got}
           new == [mem[w] EXCEPT !.again = Again(w), !.state = s, !.origin = o]
<1>1. /\ pc[w] = "select"
      /\ batch' = [batch EXCEPT ![w] = items]
      /\ mem' = [mem EXCEPT ![w].again = Again(w), ![w].state = s, ![w].origin = o]
  BY DEF Fetch, Again, Start
<1>2. /\ mem[w] \in Memory /\ n \in Boxes
      /\ mem[w].state \in State /\ mem[w].origin \in Origin /\ mem[w].state.seen \in 0..MaxUid
  BY <1>1 DEF TInv, CheckOK, WindowOK, Memory, State
<1>3. Start(w) \in 0..MaxUid /\ Start(w) + 1 \in Nat
  BY <1>2, Bounds DEF Start
<1>4. /\ got \subseteq {m \in Mail : uid[n][m] # 0}
      /\ \A m \in Mail : uid[n][m] # 0 /\ uid[n][m] >= Start(w) + 1 => m \in got
      /\ \A m \in got : uid[n][m] >= Start(w) + 1 \/ \A x \in Mail : uid[n][x] <= uid[n][m]
  BY <1>2, <1>3, AnswerEffect DEF TInv
<1>5. \A m \in Mail : uid[n][m] \in 0..MaxUid
  BY <1>2 DEF TInv, ServerOK
<1>6. seens \in SUBSET (0..MaxUid) /\ seens # {}
  BY <1>3, <1>4, <1>5
<1>7. Max(seens) \in seens /\ \A x \in seens : x <= Max(seens)
  <2> HIDE DEF seens
  <2> QED BY <1>6, MaxOf
<1>8. s.seen \in 0..MaxUid /\ Start(w) <= s.seen /\ s.validity = validity[n]
      /\ \A m \in got : uid[n][m] <= s.seen
  BY <1>6, <1>7
<1>9. s.seen = Start(w) \/ \E m \in Mail : uid[n][m] # 0 /\ uid[n][m] = s.seen
  BY <1>4, <1>7
<1>10. items \subseteq Uids \X Mail
  <2>1. \A m \in got : uid[n][m] \in Uids /\ m \in Mail
    BY <1>4, <1>5 DEF Uids
  <2> QED BY <2>1
<1>11. s \in State
  BY <1>2, <1>8 DEF State, TInv, ServerOK
<1>12. o \in Origin
  BY <1>2, <1>3, HiddenType DEF Origin, TInv, ServerOK
<1>13. Again(w) \in BOOLEAN
  BY DEF Again
<1> HIDE DEF s, o
<1>14. new \in Memory /\ new.name = n /\ new.full = mem[w].full /\ new.low = mem[w].low
       /\ new.again = Again(w) /\ new.state = s /\ new.origin = o
  BY <1>2, <1>11, <1>12, <1>13 DEF Memory
<1>15. mem' = [mem EXCEPT ![w] = new]
  BY <1>1, <1>2, <1>14 DEF TInv, CheckOK
<1> HIDE DEF new
<1>16. /\ mem' \in [Windows -> Memory \cup {None}] /\ mem'[w] = new
       /\ \A v \in Windows \ {w} : mem'[v] = mem[v]
  BY <1>14, <1>15 DEF TInv, CheckOK
<1>17. /\ batch' \in [Windows -> SUBSET (Uids \X Mail)] /\ batch'[w] = items
       /\ \A v \in Windows \ {w} : batch'[v] = batch[v]
  BY <1>1, <1>10 DEF TInv, CheckOK
<1>18. \A m \in Mail : uid[n][m] > Start(w) => m \in got
  BY <1>3, <1>4, <1>5, Bounds
<1>19. \A m \in got : uid[n][m] > Start(w) \/ \A x \in Mail : uid[n][x] <= uid[n][m]
  BY <1>3, <1>4, <1>5, Bounds
<1>20. \A u \in Uids, m \in Mail : <<u, m>> \in items => m \in got /\ uid[n][m] = u
  OBVIOUS
<1> HIDE DEF got, seens
<1>21. \A m \in Mail : uid[n][m] > Start(w) => <<uid[n][m], m>> \in items
  BY <1>18
<1> HIDE DEF items
<1>22. \A u \in Uids, m \in Mail : <<u, m>> \in batch'[w] =>
                 /\ uid[n][m] = u /\ u <= s.seen
                 /\ u > Start(w) \/ \A x \in Mail : uid[n][x] <= u
  BY <1>8, <1>17, <1>19, <1>20
<1> QED BY <1>1, <1>2, <1>3, <1>8, <1>9, <1>14, <1>16, <1>17, <1>21, <1>22 DEF o

(* What LoadImapState reads. *)
LEMMA LoadEffect ==
  ASSUME TInv, NEW w \in Windows, NEW n \in Boxes, NEW full \in BOOLEAN, Load(w, n, full)
  PROVE  /\ mem' \in [Windows -> Memory \cup {None}] /\ mem'[w] \in Memory
         /\ \A v \in Windows \ {w} : mem'[v] = mem[v]
         /\ mem'[w].name = n /\ mem'[w].full = full /\ mem'[w].again = FALSE
         /\ mem'[w].origin = origin
         /\ mem'[w].low = (Read(file.seen) < top)
         /\ mem'[w].state.validity \in {file.validity, 0}
         /\ mem'[w].state.seen = IF full THEN 0 ELSE Read(file.seen)
         /\ Read(file.seen) \in {file.seen, 0}
<1> DEFINE s == [validity |-> Read(file.validity), seen |-> IF full THEN 0 ELSE Read(file.seen)]
           new == [name |-> n, full |-> full, again |-> FALSE,
                   low |-> Read(file.seen) < top, origin |-> origin, state |-> s]
<1>1. mem' = [mem EXCEPT ![w] = new]
  BY DEF Load
<1>2. file.validity \in Validities \cup {0} /\ file.seen \in 0..MaxUid
  BY DEF TInv, DiskOK, State
<1>3. Read(file.seen) \in {file.seen, 0} /\ Read(file.validity) \in {file.validity, 0}
  BY DEF Read
<1>4. s \in State
  BY <1>2, <1>3, Bounds DEF State
<1>5. (Read(file.seen) < top) \in BOOLEAN
  OBVIOUS
<1>6. new \in Memory
  BY <1>4, <1>5 DEF Memory, TInv, DiskOK
<1>7. s.validity \in {file.validity, 0} /\ s.seen = IF full THEN 0 ELSE Read(file.seen)
  BY <1>3
<1> HIDE DEF s
<1>8. /\ new.name = n /\ new.full = full /\ new.again = FALSE /\ new.origin = origin
      /\ new.low = (Read(file.seen) < top) /\ new.state = s
  OBVIOUS
<1> HIDE DEF new
<1>9. /\ mem' \in [Windows -> Memory \cup {None}] /\ mem'[w] = new
      /\ \A v \in Windows \ {w} : mem'[v] = mem[v]
  BY <1>1, <1>6 DEF TInv, CheckOK
<1> QED BY <1>3, <1>6, <1>7, <1>8, <1>9

(* The steps of the server and of the windows leave each other's state. *)
LEMMA ServerFrame ==
  ASSUME [Next]_vars
  PROVE  \/ UNCHANGED server
         \/ /\ UNCHANGED <<check, file, wanted, store, bounded, missed, dropped, top, origin>>
            /\ \E n \in Boxes :
                 \/ \E m \in Mail : Deliver(n, m) \/ Expunge(n, m)
                 \/ \E v \in Validities, order \in [Mail -> 0..Cardinality(Mail)] :
                      Renumber(n, v, order)
<1>1. ASSUME NEW w \in Windows, Window(w)
      PROVE  UNCHANGED server
  <2>1. ASSUME NEW u \in Uids, Reset(w, u) \/ ResetFails(w, u)
        PROVE  UNCHANGED server
    BY <2>1 DEF Reset, ResetFails
  <2>2. ASSUME NEW n \in Boxes, NEW full \in BOOLEAN, Load(w, n, full)
        PROVE  UNCHANGED server
    BY <2>2 DEF Load
  <2>3. CASE StartCheck(w) \/ Refetch(w) \/ RefetchFails(w) \/ Fetch(w) \/ SaveState(w)
    BY <2>3 DEF StartCheck, Refetch, RefetchFails, Fetch, SaveState
  <2>4. CASE SaveStateFails(w) \/ StoreNext(w) \/ StoreFails(w) \/ EndSync(w) \/ EndCheck(w)
    BY <2>4 DEF SaveStateFails, StoreNext, StoreFails, EndSync, EndCheck
  <2> QED BY <1>1, <2>1, <2>2, <2>3, <2>4 DEF Window
<1>2. CASE Crash
  BY <1>2 DEF Crash
<1>3. ASSUME NEW u \in Uids, Label(u) \/ Erase(u) \/ QueueRedownload(u) \/ CancelRedownload(u)
      PROVE  UNCHANGED server
  BY <1>3 DEF Label, Erase, QueueRedownload, CancelRedownload
<1>4. ASSUME NEW n \in Boxes, NEW m \in Mail, Deliver(n, m) \/ Expunge(n, m)
      PROVE  UNCHANGED <<check, file, wanted, store, bounded, missed, dropped, top, origin>>
  BY <1>4 DEF Deliver, Expunge, history
<1>5. ASSUME NEW n \in Boxes, NEW v \in Validities, NEW order \in [Mail -> 0..Cardinality(Mail)],
             Renumber(n, v, order)
      PROVE  UNCHANGED <<check, file, wanted, store, bounded, missed, dropped, top, origin>>
  BY <1>5 DEF Renumber
<1>6. CASE UNCHANGED vars
  BY <1>6 DEF vars
<1> QED BY <1>1, <1>2, <1>3, <1>4, <1>5, <1>6 DEF Next

LEMMA ServerStep ==
  ASSUME TInv, [Next]_vars
  PROVE  ServerOK'
<1> USE DEF TInv, ServerOK
<1>1. CASE UNCHANGED server
  BY <1>1 DEF server
<1>2. ASSUME NEW n \in Boxes, NEW m \in Mail, Deliver(n, m)
      PROVE  ServerOK'
  <2>1. /\ arriving' = arriving \ {m} /\ m \in arriving /\ validity' = validity
        /\ uid' = [uid EXCEPT ![n][m] = next[n]]
        /\ next' = [next EXCEPT ![n] = @ + 1] /\ next[n] <= MaxUid
    BY <1>2 DEF Deliver
  <2>2. next[n] \in 1..MaxUid /\ next[n] + 1 \in 1..(MaxUid + 1)
    BY <2>1, Bounds
  <2>3. \A k \in Boxes : next'[k] = IF k = n THEN next[n] + 1 ELSE next[k]
    BY <2>1
  <2>4. \A k \in Boxes, x \in Mail :
          uid'[k][x] = IF k = n /\ x = m THEN next[n] ELSE uid[k][x]
    BY <2>1
  <2>5. uid' \in [Boxes -> [Mail -> 0..MaxUid]] /\ next' \in [Boxes -> 1..(MaxUid + 1)]
    BY <2>1, <2>2
  <2>6. \A k \in Boxes : uid[k][m] = 0
    BY <2>1
  <2>7. \A k \in Boxes, x \in Mail : uid'[k][x] < next'[k]
    BY <2>2, <2>3, <2>4
  <2>8. \A k \in Boxes, x, y \in Mail : uid'[k][x] # 0 /\ uid'[k][x] = uid'[k][y] => x = y
    BY <2>2, <2>4
  <2>9. \A a, b \in Boxes, x \in Mail : uid'[a][x] # 0 /\ uid'[b][x] # 0 => a = b
    BY <2>2, <2>4, <2>6
  <2>10. \A k \in Boxes, x \in arriving' : uid'[k][x] = 0
    BY <2>1, <2>4
  <2> QED BY <2>1, <2>5, <2>7, <2>8, <2>9, <2>10
<1>3. ASSUME NEW n \in Boxes, NEW m \in Mail, Expunge(n, m)
      PROVE  ServerOK'
  <2>1. UNCHANGED <<arriving, validity, next>> /\ uid' = [uid EXCEPT ![n][m] = 0]
    BY <1>3 DEF Expunge
  <2>2. \A k \in Boxes, x \in Mail : uid'[k][x] = IF k = n /\ x = m THEN 0 ELSE uid[k][x]
    BY <2>1
  <2>3. uid' \in [Boxes -> [Mail -> 0..MaxUid]]
    BY <2>1, Bounds
  <2>4. \A k \in Boxes, x \in Mail : uid'[k][x] < next'[k]
    BY <2>1, <2>2
  <2> QED BY <2>1, <2>2, <2>3, <2>4
<1>4. ASSUME NEW n \in Boxes, NEW v \in Validities, NEW order \in [Mail -> 0..Cardinality(Mail)],
             Renumber(n, v, order)
      PROVE  ServerOK'
  <2> DEFINE size == Cardinality({m \in Mail : uid[n][m] # 0})
  <2>1. /\ validity' = [validity EXCEPT ![n] = v] /\ arriving' = arriving
        /\ uid' = [uid EXCEPT ![n] = order] /\ next' = [next EXCEPT ![n] = size + 1]
    BY <1>4 DEF Renumber
  <2>2. /\ order \in [Mail -> 0..MaxUid] /\ size \in 0..MaxUid
        /\ \A m \in Mail : order[m] < size + 1
        /\ \A m, x \in Mail : order[m] # 0 /\ order[m] = order[x] => m = x
        /\ \A m \in Mail : order[m] = 0 <=> uid[n][m] = 0
    BY <1>4, RenumberType
  <2> HIDE DEF size
  <2>3. size + 1 \in 1..(MaxUid + 1)
    BY <2>2, Bounds
  <2>4. /\ validity' \in [Boxes -> Validities] /\ uid' \in [Boxes -> [Mail -> 0..MaxUid]]
        /\ next' \in [Boxes -> 1..(MaxUid + 1)]
    BY <2>1, <2>2, <2>3
  <2>5. \A k \in Boxes, x \in Mail : uid'[k][x] = IF k = n THEN order[x] ELSE uid[k][x]
    BY <2>1
  <2>6. \A k \in Boxes : next'[k] = IF k = n THEN size + 1 ELSE next[k]
    BY <2>1
  <2>7. \A k \in Boxes, x \in Mail : uid'[k][x] < next'[k]
    BY <2>2, <2>5, <2>6
  <2>8. \A k \in Boxes, x, y \in Mail : uid'[k][x] # 0 /\ uid'[k][x] = uid'[k][y] => x = y
    BY <2>2, <2>5
  <2>9. \A k \in Boxes, x \in Mail : uid'[k][x] = 0 <=> uid[k][x] = 0
    BY <2>2, <2>5
  <2> QED BY <2>1, <2>4, <2>7, <2>8, <2>9
<1> QED BY <1>1, <1>2, <1>3, <1>4, ServerFrame

(* Where a window is not the one that steps, it has what it had. *)
Still(v) == mem'[v] = mem[v] /\ batch'[v] = batch[v] /\ pc'[v] = pc[v] /\ job'[v] = job[v]

LEMMA StillOK ==
  ASSUME CheckOK, NEW v \in Windows, Still(v)
  PROVE  WindowOK(v)'
BY DEF CheckOK, WindowOK, Still

LEMMA CheckStep ==
  ASSUME TInv, [Next]_vars
  PROVE  CheckOK'
<1>0. /\ pc \in [Windows -> Steps] /\ jobs \in [Windows -> SUBSET Uids]
      /\ job \in [Windows -> Job \cup {None}] /\ mem \in [Windows -> Memory \cup {None}]
      /\ batch \in [Windows -> SUBSET (Uids \X Mail)]
      /\ \A w \in Windows : WindowOK(w)
      /\ CheckOK /\ wanted \subseteq Uids /\ store \in [Uids -> Record \cup {None}]
  BY DEF TInv, CheckOK, DiskOK
<1>1. ASSUME NEW w \in Windows, StartCheck(w)
      PROVE  CheckOK'
  <2>1. /\ pc' \in [Windows -> Steps] /\ pc'[w] = "replay"
        /\ \A v \in Windows \ {w} : pc'[v] = pc[v]
    BY <1>0, <1>1, GoEffect DEF StartCheck, Steps
  <2>2. jobs' \in [Windows -> SUBSET Uids] /\ UNCHANGED <<mem, batch, job>>
    BY <1>0, <1>1 DEF StartCheck
  <2>3. \A v \in Windows : WindowOK(v)'
    BY <1>0, <1>1, <2>1, <2>2 DEF WindowOK, StartCheck
  <2> QED BY <1>0, <2>1, <2>2, <2>3 DEF CheckOK
<1>2. ASSUME NEW w \in Windows, NEW u \in Uids, Reset(w, u)
      PROVE  CheckOK'
  <2>1. jobs' \in [Windows -> SUBSET Uids] /\ UNCHANGED <<mem, batch>> /\ pc[w] = "replay"
    BY <1>0, <1>2 DEF Reset
  <2>2. CASE UNCHANGED <<store, pc, job, clean>>
    <3>1. \A v \in Windows : WindowOK(v)'
      BY <1>0, <2>1, <2>2 DEF WindowOK
    <3> QED BY <1>0, <2>1, <2>2, <3>1 DEF CheckOK
  <2>3. CASE store[u] # None /\ job' = [job EXCEPT ![w] = [u |-> u, old |-> store[u]]]
             /\ Go(w, "fetch")
    <3>1. store[u] \in Record
      BY <1>0, <2>3
    <3>2. [u |-> u, old |-> store[u]] \in Job
      BY <3>1 DEF Job
    <3>3. job' \in [Windows -> Job \cup {None}] /\ job'[w] \in Job
          /\ \A v \in Windows \ {w} : job'[v] = job[v]
      BY <1>0, <2>3, <3>2
    <3>4. /\ pc' \in [Windows -> Steps] /\ pc'[w] = "fetch"
          /\ \A v \in Windows \ {w} : pc'[v] = pc[v]
      BY <1>0, <2>3, GoEffect DEF Steps
    <3>5. WindowOK(w)'
      BY <1>0, <2>1, <3>3, <3>4 DEF WindowOK
    <3>6. \A v \in Windows \ {w} : WindowOK(v)'
      BY <1>0, <2>1, <3>3, <3>4 DEF WindowOK
    <3> QED BY <1>0, <2>1, <3>3, <3>4, <3>5, <3>6 DEF CheckOK
  <2> QED BY <1>2, <2>2, <2>3 DEF Reset
<1>3. ASSUME NEW w \in Windows, NEW u \in Uids, ResetFails(w, u)
      PROVE  CheckOK'
  <2>1. jobs' \in [Windows -> SUBSET Uids] /\ UNCHANGED <<mem, batch, pc, job>>
    BY <1>0, <1>3 DEF ResetFails
  <2>2. \A v \in Windows : WindowOK(v)'
    BY <1>0, <2>1 DEF WindowOK
  <2> QED BY <1>0, <2>1, <2>2 DEF CheckOK
<1>4. ASSUME NEW w \in Windows, Refetch(w) \/ RefetchFails(w)
      PROVE  CheckOK'
  <2>1. /\ pc[w] = "fetch" /\ Go(w, "replay") /\ job' = [job EXCEPT ![w] = None]
        /\ UNCHANGED <<jobs, mem, batch>>
    BY <1>4 DEF Refetch, RefetchFails
  <2>2. /\ pc' \in [Windows -> Steps] /\ pc'[w] = "replay"
        /\ \A v \in Windows \ {w} : pc'[v] = pc[v]
    BY <1>0, <2>1, GoEffect DEF Steps
  <2>3. job' \in [Windows -> Job \cup {None}] /\ \A v \in Windows \ {w} : job'[v] = job[v]
    BY <1>0, <2>1
  <2>4. \A v \in Windows : WindowOK(v)'
    BY <1>0, <2>1, <2>2, <2>3 DEF WindowOK
  <2> QED BY <1>0, <2>1, <2>2, <2>3, <2>4 DEF CheckOK
<1>5. ASSUME NEW w \in Windows, NEW n \in Boxes, NEW full \in BOOLEAN, Load(w, n, full)
      PROVE  CheckOK'
  <2>1. /\ pc[w] \in {"replay", "mailboxes"} /\ Go(w, "select")
        /\ UNCHANGED <<jobs, job, batch>>
    BY <1>5 DEF Load
  <2>2. /\ pc' \in [Windows -> Steps] /\ pc'[w] = "select"
        /\ \A v \in Windows \ {w} : pc'[v] = pc[v]
    BY <1>0, <2>1, GoEffect DEF Steps
  <2>3. /\ mem' \in [Windows -> Memory \cup {None}] /\ mem'[w] \in Memory
        /\ \A v \in Windows \ {w} : mem'[v] = mem[v]
    BY <1>5, LoadEffect
  <2>4. \A v \in Windows : WindowOK(v)'
    BY <1>0, <2>1, <2>2, <2>3 DEF WindowOK
  <2> QED BY <1>0, <2>1, <2>2, <2>3, <2>4 DEF CheckOK
<1>6. ASSUME NEW w \in Windows, Fetch(w)
      PROVE  CheckOK'
  <2>1. /\ pc[w] = "select" /\ mem' \in [Windows -> Memory \cup {None}] /\ mem'[w] \in Memory
        /\ batch' \in [Windows -> SUBSET (Uids \X Mail)]
        /\ \A v \in Windows \ {w} : mem'[v] = mem[v] /\ batch'[v] = batch[v]
    BY <1>6, FetchEffect
  <2>2. Go(w, "save") /\ UNCHANGED <<jobs, job>>
    BY <1>6 DEF Fetch
  <2>3. /\ pc' \in [Windows -> Steps] /\ pc'[w] = "save"
        /\ \A v \in Windows \ {w} : pc'[v] = pc[v]
    BY <1>0, <2>2, GoEffect DEF Steps
  <2>4. \A v \in Windows : WindowOK(v)'
    BY <1>0, <2>1, <2>2, <2>3 DEF WindowOK
  <2> QED BY <1>0, <2>1, <2>2, <2>3, <2>4 DEF CheckOK
<1>7. ASSUME NEW w \in Windows, SaveState(w) \/ SaveStateFails(w)
      PROVE  CheckOK'
  <2>1. pc[w] = "save" /\ Go(w, "store") /\ UNCHANGED <<jobs, job, mem, batch>>
    BY <1>7 DEF SaveState, SaveStateFails
  <2>2. /\ pc' \in [Windows -> Steps] /\ pc'[w] = "store"
        /\ \A v \in Windows \ {w} : pc'[v] = pc[v]
    BY <1>0, <2>1, GoEffect DEF Steps
  <2>3. \A v \in Windows : WindowOK(v)'
    BY <1>0, <2>1, <2>2 DEF WindowOK
  <2> QED BY <1>0, <2>1, <2>2, <2>3 DEF CheckOK
<1>8. ASSUME NEW w \in Windows, StoreNext(w) \/ StoreFails(w)
      PROVE  CheckOK'
  <2>1. PICK item \in batch[w] : pc[w] = "store" /\ batch' = [batch EXCEPT ![w] = @ \ {item}]
                                 /\ UNCHANGED <<pc, jobs, job, mem>>
    BY <1>8 DEF StoreNext, StoreFails
  <2>2. batch' \in [Windows -> SUBSET (Uids \X Mail)]
        /\ \A v \in Windows \ {w} : batch'[v] = batch[v]
    BY <1>0, <2>1
  <2>3. \A v \in Windows : WindowOK(v)'
    BY <1>0, <2>1, <2>2 DEF WindowOK
  <2> QED BY <1>0, <2>1, <2>2, <2>3 DEF CheckOK
<1>9. ASSUME NEW w \in Windows, EndSync(w) \/ EndCheck(w)
      PROVE  CheckOK'
  <2>1. PICK step \in {"idle", "mailboxes"} : Go(w, step)
    BY <1>9 DEF EndSync, EndCheck
  <2>2. /\ pc' \in [Windows -> Steps] /\ pc'[w] = step
        /\ \A v \in Windows \ {w} : pc'[v] = pc[v]
    BY <1>0, <2>1, GoEffect DEF Steps
  <2>3. mem' = [mem EXCEPT ![w] = None] /\ UNCHANGED <<job, batch>>
        /\ (jobs' = jobs \/ jobs' = [jobs EXCEPT ![w] = {}])
        /\ batch[w] = {}
    BY <1>0, <1>9 DEF EndSync, EndCheck, WindowOK
  <2>4. mem' \in [Windows -> Memory \cup {None}] /\ jobs' \in [Windows -> SUBSET Uids]
        /\ \A v \in Windows \ {w} : mem'[v] = mem[v]
    BY <1>0, <2>3
  <2>5. \A v \in Windows : WindowOK(v)'
    BY <1>0, <2>1, <2>2, <2>3, <2>4 DEF WindowOK
  <2> QED BY <1>0, <2>2, <2>3, <2>4, <2>5 DEF CheckOK
<1>10. CASE Crash
  BY <1>10 DEF Crash, CheckOK, WindowOK, Steps
<1>11. CASE UNCHANGED check
  BY <1>0, <1>11 DEF check, CheckOK, WindowOK
<1>12. ASSUME NEW u \in Uids, Label(u) \/ Erase(u) \/ QueueRedownload(u) \/ CancelRedownload(u)
       PROVE  UNCHANGED check
  BY <1>12 DEF Label, Erase, QueueRedownload, CancelRedownload
<1>13. ASSUME NEW w \in Windows, Window(w)
       PROVE  CheckOK'
  BY <1>1, <1>2, <1>3, <1>4, <1>5, <1>6, <1>7, <1>8, <1>9, <1>13 DEF Window
<1>14. CASE UNCHANGED vars
  BY <1>11, <1>14 DEF vars
<1>15. ASSUME NEW n \in Boxes, NEW m \in Mail, Deliver(n, m) \/ Expunge(n, m)
       PROVE  UNCHANGED check
  BY <1>15 DEF Deliver, Expunge
<1>16. ASSUME NEW n \in Boxes, NEW v \in Validities, NEW order \in [Mail -> 0..Cardinality(Mail)],
              Renumber(n, v, order)
       PROVE  UNCHANGED check
  BY <1>16 DEF Renumber
<1> QED BY <1>10, <1>11, <1>12, <1>13, <1>14, <1>15, <1>16 DEF Next

LEMMA FaultType ==
  ASSUME DiskOK, Fault
  PROVE  faults' \in 0..MaxFaults
BY Bounds DEF DiskOK, Fault

(* What a call of the user leaves in range. *)
LEMMA CallType ==
  ASSUME DiskOK, Call
  PROVE  calls' \in 0..MaxCalls
BY Bounds DEF DiskOK, Call

LEMMA DiskStep ==
  ASSUME TInv, [Next]_vars
  PROVE  DiskOK'
<1>0. /\ file \in State /\ store \in [Uids -> Record \cup {None}]
      /\ wanted \subseteq Uids /\ origin \in Origin /\ top \in 0..MaxUid
      /\ faults \in 0..MaxFaults /\ calls \in 0..MaxCalls
      /\ pc \in [Windows -> Steps] /\ jobs \in [Windows -> SUBSET Uids]
      /\ batch \in [Windows -> SUBSET (Uids \X Mail)]
      /\ \A w \in Windows : pc[w] = "fetch" => job[w] \in Job
      /\ \A w \in Windows : pc[w] \in {"select", "save", "store"} => mem[w] \in Memory
      /\ DiskOK /\ HeadersOnly \in BOOLEAN
  BY Bounds DEF TInv, CheckOK, DiskOK, WindowOK
<1>1. ASSUME NEW w \in Windows, NEW u \in Uids, Reset(w, u) \/ ResetFails(w, u)
      PROVE  DiskOK'
  <2>1. wanted' \subseteq Uids
    BY <1>0, <1>1 DEF Reset, ResetFails
  <2>2. faults' \in 0..MaxFaults
    BY <1>0, <1>1, FaultType DEF Reset, ResetFails, bounded
  <2>3. store' = store \/ (store[u] # None /\ store' = [store EXCEPT ![u].body = FALSE])
    BY <1>1 DEF Reset, ResetFails
  <2>4. store' \in [Uids -> Record \cup {None}]
    <3>1. CASE store[u] # None /\ store' = [store EXCEPT ![u].body = FALSE]
      <4>1. [store[u] EXCEPT !.body = FALSE] \in Record
        BY <1>0, <3>1 DEF Record
      <4> QED BY <1>0, <3>1, <4>1
    <3> QED BY <1>0, <2>3, <3>1
  <2> QED BY <1>0, <1>1, <2>1, <2>2, <2>4 DEF Reset, ResetFails, DiskOK, bounded, history
<1>2. ASSUME NEW w \in Windows, Refetch(w)
      PROVE  DiskOK'
  <2>1. job[w].u \in Uids /\ job[w].old \in Record
    BY <1>0, <1>2 DEF Refetch, Job
  <2>2. PICK m \in Mail :
          store' = [store EXCEPT ![job[w].u] =
                      [of |-> m, body |-> ~HeadersOnly, label |-> job[w].old.label]]
    BY <1>2 DEF Refetch
  <2>3. [of |-> m, body |-> ~HeadersOnly, label |-> job[w].old.label] \in Record
    BY <1>0, <2>1 DEF Record
  <2>4. store' \in [Uids -> Record \cup {None}]
    BY <1>0, <2>2, <2>3
  <2> QED BY <1>0, <1>2, <2>4 DEF Refetch, DiskOK, bounded
<1>3. ASSUME NEW w \in Windows, RefetchFails(w)
      PROVE  DiskOK'
  <2>1. job[w].u \in Uids
    BY <1>0, <1>3 DEF RefetchFails, Job
  <2> QED BY <1>0, <1>3, <2>1 DEF RefetchFails, DiskOK, bounded, history
<1>4. ASSUME NEW w \in Windows, SaveState(w) \/ SaveStateFails(w)
      PROVE  DiskOK'
  <2>1. pc[w] = "save" /\ mem[w] \in Memory
    BY <1>0, <1>4 DEF SaveState, SaveStateFails
  <2>2. Top(w) \in 0..MaxUid /\ mem[w].state \in State /\ mem[w].origin \in Origin
    BY <2>1, TopType DEF Memory
  <2>3. CASE SaveState(w)
    BY <1>0, <2>2, <2>3 DEF SaveState, DiskOK, bounded
  <2>4. CASE SaveStateFails(w)
    BY <1>0, <2>2, <2>4, FaultType DEF SaveStateFails, DiskOK
  <2> QED BY <1>4, <2>3, <2>4
<1>5. ASSUME NEW w \in Windows, StoreNext(w)
      PROVE  DiskOK'
  <2>1. PICK item \in batch[w] :
          store' = [store EXCEPT ![item[1]] =
                      [of |-> item[2], body |-> ~HeadersOnly, label |-> FALSE]]
    BY <1>5 DEF StoreNext
  <2>2. item \in Uids \X Mail
    BY <1>0
  <2>3. item[1] \in Uids /\ [of |-> item[2], body |-> ~HeadersOnly, label |-> FALSE] \in Record
    BY <1>0, <2>2 DEF Record
  <2>4. store' \in [Uids -> Record \cup {None}]
    BY <1>0, <2>1, <2>3
  <2> QED BY <1>0, <1>5, <2>4 DEF StoreNext, DiskOK, bounded
<1>6. ASSUME NEW w \in Windows, StoreFails(w)
      PROVE  DiskOK'
  BY <1>0, <1>6, FaultType DEF StoreFails, DiskOK
<1>7. CASE Crash
  <2>1. faults' \in 0..MaxFaults
    BY <1>0, <1>7, FaultType DEF Crash
  <2>2. file' \in State /\ origin' \in Origin
    <3>1. ASSUME NEW w \in Windows, pc[w] = "save", file' \in Torn(mem[w].state),
                 origin' = mem[w].origin
          PROVE  file' \in State /\ origin' \in Origin
      <4>1. mem[w].state \in State /\ mem[w].origin \in Origin
        BY <1>0, <3>1 DEF Memory
      <4>2. mem[w].state.seen \in 0..MaxUid
        BY <4>1 DEF State
      <4>3. \A k \in 0..mem[w].state.seen : k \in 0..MaxUid
        BY <4>2, Bounds
      <4> QED BY <3>1, <4>1, <4>2, <4>3, Bounds DEF Torn, State
    <3> QED BY <1>0, <1>7, <3>1 DEF Crash
  <2>3. top' \in 0..MaxUid
    <3> DEFINE tops == {top} \cup {Top(w) : w \in {v \in Windows : pc[v] = "save"}}
    <3>1. tops \in SUBSET (0..MaxUid) /\ tops # {}
      BY <1>0, TopType
    <3>2. top' = Max(tops)
      BY <1>7 DEF Crash
    <3> HIDE DEF tops
    <3> QED BY <3>1, <3>2, MaxOf
  <2> QED BY <1>0, <1>7, <2>1, <2>2, <2>3 DEF Crash, DiskOK
<1>8. ASSUME NEW u \in Uids, Label(u)
      PROVE  DiskOK'
  <2>1. store[u] \in Record /\ store' = [store EXCEPT ![u].label = TRUE]
    BY <1>0, <1>8 DEF Label
  <2>2. [store[u] EXCEPT !.label = TRUE] \in Record
    BY <2>1 DEF Record
  <2>3. store' \in [Uids -> Record \cup {None}]
    BY <1>0, <2>1, <2>2
  <2> QED BY <1>0, <1>8, <2>3, CallType DEF Label, DiskOK, history
<1>9. ASSUME NEW u \in Uids, Erase(u)
      PROVE  DiskOK'
  <2>1. store' = [store EXCEPT ![u] = None]
    BY <1>9 DEF Erase
  <2>2. store' \in [Uids -> Record \cup {None}]
    BY <1>0, <2>1
  <2> QED BY <1>0, <1>9, <2>2, CallType DEF Erase, DiskOK
<1>10. ASSUME NEW u \in Uids, QueueRedownload(u) \/ CancelRedownload(u)
       PROVE  DiskOK'
  <2>1. wanted' \subseteq Uids
    BY <1>0, <1>10 DEF QueueRedownload, CancelRedownload
  <2>2. calls' \in 0..MaxCalls
    BY <1>0, <1>10, CallType DEF QueueRedownload, CancelRedownload
  <2> QED BY <1>0, <1>10, <2>1, <2>2 DEF QueueRedownload, CancelRedownload, DiskOK, history
<1>11. CASE UNCHANGED <<file, store, wanted, bounded, top, origin>>
  BY <1>0, <1>11 DEF DiskOK, bounded
<1>12. ASSUME NEW w \in Windows, StartCheck(w) \/ Fetch(w) \/ EndSync(w) \/ EndCheck(w)
       PROVE  UNCHANGED <<file, store, wanted, bounded, top, origin>>
  BY <1>12 DEF StartCheck, Fetch, EndSync, EndCheck, history
<1>13. ASSUME NEW w \in Windows, NEW n \in Boxes, NEW full \in BOOLEAN, Load(w, n, full)
       PROVE  UNCHANGED <<file, store, wanted, bounded, top, origin>>
  BY <1>13 DEF Load
<1>14. ASSUME NEW w \in Windows, Window(w)
       PROVE  DiskOK'
  BY <1>1, <1>2, <1>3, <1>4, <1>5, <1>6, <1>11, <1>12, <1>13, <1>14 DEF Window
<1>15. ASSUME NEW n \in Boxes, NEW m \in Mail, Deliver(n, m) \/ Expunge(n, m)
       PROVE  UNCHANGED <<file, store, wanted, bounded, top, origin>>
  BY <1>15 DEF Deliver, Expunge, history
<1>16. ASSUME NEW n \in Boxes, NEW v \in Validities, NEW order \in [Mail -> 0..Cardinality(Mail)],
              Renumber(n, v, order)
       PROVE  UNCHANGED <<file, store, wanted, bounded, top, origin>>
  BY <1>16 DEF Renumber
<1>17. CASE UNCHANGED vars
  BY <1>11, <1>17 DEF vars, history
<1> QED BY <1>7, <1>8, <1>9, <1>10, <1>11, <1>14, <1>15, <1>16, <1>17 DEF Next

LEMMA TypeInit ==
  ASSUME Init
  PROVE  TInv
<1>1. 1 \in 1..(MaxUid + 1) /\ 0 \in 0..MaxFaults /\ 0 \in 0..MaxCalls
  BY Bounds
<1>2. Nothing \in State /\ origin \in Origin
  BY Bounds DEF Init, Nothing, State, Origin
<1> QED BY <1>1, <1>2, Bounds DEF Init, TInv, ServerOK, CheckOK, WindowOK, DiskOK, Steps

(* Every variable holds a value the code can store in it. *)
THEOREM TypesHold == Spec => []TypeOK
<1>1. TInv /\ [Next]_vars => TInv'
  BY ServerStep, CheckStep, DiskStep DEF TInv
<1>2. TInv => TypeOK
  BY DEF TInv, ServerOK, CheckOK, DiskOK, TypeOK, Job, Steps
<1> QED BY TypeInit, <1>1, <1>2, PTL DEF Spec

-----------------------------------------------------------------------------
(* The text of a message comes back *)

(* Only a redownload takes the text away, and every step that ends one     *)
(* without the text leaves the action: TextComesBack is inductive.         *)
LEMMA TextStep ==
  ASSUME TInv, TextComesBack, ~HeadersOnly, [Next]_vars, NEW u \in Uids,
         store'[u] # None, ~store'[u].body
  PROVE  u \in wanted' \/ u \in dropped'
<1>0. /\ store \in [Uids -> Record \cup {None}] /\ job \in [Windows -> Job \cup {None}]
      /\ batch \in [Windows -> SUBSET (Uids \X Mail)]
      /\ \A w \in Windows : pc[w] = "fetch" => job[w] \in Job
      /\ store[u] # None => store[u] \in Record
      /\ store[u] # None /\ ~store[u].body => u \in wanted \/ u \in dropped
  BY DEF TInv, CheckOK, DiskOK, WindowOK, TextComesBack
<1>1. ASSUME NEW w \in Windows, NEW v \in Uids, Reset(w, v)
      PROVE  u \in wanted' \/ u \in dropped'
  <2>1. wanted' = wanted \cup {v} /\ dropped' = dropped
    BY <1>1 DEF Reset
  <2>2. u # v => store'[u] = store[u]
    BY <1>0, <1>1 DEF Reset
  <2> QED BY <1>0, <2>1, <2>2
<1>2. ASSUME NEW w \in Windows, NEW v \in Uids, ResetFails(w, v)
      PROVE  u \in wanted' \/ u \in dropped'
  BY <1>0, <1>2 DEF ResetFails, history
<1>3. ASSUME NEW w \in Windows, Refetch(w)
      PROVE  u \in wanted' \/ u \in dropped'
  <2>1. job[w].u \in Uids /\ wanted' = wanted \ {job[w].u} /\ dropped' = dropped
    BY <1>0, <1>3 DEF Refetch, Job
  <2>2. PICK m \in Mail :
          store' = [store EXCEPT ![job[w].u] =
                      [of |-> m, body |-> ~HeadersOnly, label |-> job[w].old.label]]
    BY <1>3 DEF Refetch
  <2>3. u # job[w].u /\ store'[u] = store[u]
    BY <1>0, <2>1, <2>2
  <2> QED BY <1>0, <2>1, <2>3
<1>4. ASSUME NEW w \in Windows, StoreNext(w)
      PROVE  u \in wanted' \/ u \in dropped'
  <2>1. PICK item \in batch[w] :
          store' = [store EXCEPT ![item[1]] =
                      [of |-> item[2], body |-> ~HeadersOnly, label |-> FALSE]]
    BY <1>4 DEF StoreNext
  <2>2. item[1] \in Uids
    BY <1>0
  <2>3. u # item[1] /\ store'[u] = store[u]
    BY <1>0, <2>1, <2>2
  <2> QED BY <1>0, <1>4, <2>3 DEF StoreNext
<1>5. ASSUME NEW v \in Uids, Label(v)
      PROVE  u \in wanted' \/ u \in dropped'
  <2>1. store' = [store EXCEPT ![v].label = TRUE] /\ store[v] \in Record
    BY <1>0, <1>5 DEF Label
  <2>2. store'[v].body = store[v].body /\ (u # v => store'[u] = store[u]) /\ store[v] # None
    BY <1>0, <1>5, <2>1 DEF Record, Label
  <2>3. u \in wanted \/ u \in dropped
    BY <1>0, <2>2
  <2> QED BY <1>5, <2>3 DEF Label, history
<1>6. ASSUME NEW v \in Uids, Erase(v)
      PROVE  u \in wanted' \/ u \in dropped'
  <2>1. store' = [store EXCEPT ![v] = None]
    BY <1>6 DEF Erase
  <2>2. store'[u] = store[u]
    BY <1>0, <2>1
  <2> QED BY <1>0, <1>6, <2>2 DEF Erase
<1>7. ASSUME NEW v \in Uids, QueueRedownload(v) \/ CancelRedownload(v)
      PROVE  u \in wanted' \/ u \in dropped'
  BY <1>0, <1>7 DEF QueueRedownload, CancelRedownload, history
<1>8. CASE store' = store /\ wanted \subseteq wanted' /\ dropped' = dropped
  BY <1>0, <1>8
<1>9. ASSUME NEW w \in Windows,
             \/ StartCheck(w) \/ RefetchFails(w) \/ Fetch(w) \/ SaveState(w) \/ SaveStateFails(w)
             \/ StoreFails(w) \/ EndSync(w) \/ EndCheck(w)
      PROVE  store' = store /\ wanted \subseteq wanted' /\ dropped' = dropped
  BY <1>9 DEF StartCheck, RefetchFails, Fetch, SaveState, SaveStateFails, StoreFails, EndSync,
              EndCheck, history
<1>10. ASSUME NEW w \in Windows, NEW n \in Boxes, NEW full \in BOOLEAN, Load(w, n, full)
       PROVE  store' = store /\ wanted \subseteq wanted' /\ dropped' = dropped
  BY <1>10 DEF Load
<1>11. ASSUME NEW w \in Windows, Window(w)
       PROVE  u \in wanted' \/ u \in dropped'
  BY <1>1, <1>2, <1>3, <1>4, <1>8, <1>9, <1>10, <1>11 DEF Window
<1>12. CASE Crash
  BY <1>8, <1>12 DEF Crash
<1>13. CASE UNCHANGED <<store, wanted, dropped>>
  BY <1>8, <1>13
<1>14. ASSUME NEW n \in Boxes, NEW m \in Mail, Deliver(n, m) \/ Expunge(n, m)
       PROVE  UNCHANGED <<store, wanted, dropped>>
  BY <1>14 DEF Deliver, Expunge, history
<1>15. ASSUME NEW n \in Boxes, NEW v \in Validities, NEW order \in [Mail -> 0..Cardinality(Mail)],
              Renumber(n, v, order)
       PROVE  UNCHANGED <<store, wanted, dropped>>
  BY <1>15 DEF Renumber
<1>16. CASE UNCHANGED vars
  BY <1>13, <1>16 DEF vars, history
<1> QED BY <1>5, <1>6, <1>7, <1>11, <1>12, <1>13, <1>14, <1>15, <1>16 DEF Next

(* A record that has lost its text to a redownload keeps the action that   *)
(* brings it back, whatever fails or crashes and however many windows      *)
(* check at once.                                                          *)
THEOREM TextsComeBack == Spec => []TextComesBack
<1>1. TInv /\ [Next]_vars => TInv'
  BY ServerStep, CheckStep, DiskStep DEF TInv
<1>2. Init => TextComesBack
  BY DEF Init, TextComesBack
<1>3. TInv /\ TextComesBack /\ [Next]_vars => TextComesBack'
  BY TextStep DEF TextComesBack
<1> QED BY TypeInit, <1>1, <1>2, <1>3, PTL DEF Spec

-----------------------------------------------------------------------------
(* What was counted as seen is stored *)

Saved(u, m) ==
  \/ Stored(m, u)
  \/ m \in missed
  \/ \E w \in Windows : <<u, m>> \in batch[w]

(* A last seen UID of the origin o counts messages that were saved, while  *)
(* the mailbox has the UIDVALIDITY it was counted under; and a message     *)
(* that arrives is past it, or hidden.                                     *)
Counted(seen, o) ==
  /\ o.validity <= validity[o.name]
  /\ o.validity = validity[o.name] =>
       /\ seen < next[o.name] \/ seen <= o.hidden
       /\ \A m \in Mail : uid[o.name][m] # 0 /\ uid[o.name][m] <= seen =>
            Saved(uid[o.name][m], m) \/ uid[o.name][m] <= o.hidden

CopyOK(w) == pc[w] \in {"select", "save"} => Counted(mem[w].state.seen, mem[w].origin)

(* A fetched message stays in the mailbox it was fetched from, if it is on *)
(* the server at all; and until UIDVALIDITY changes its UID is its own.    *)
BatchOK(w) ==
  pc[w] \in {"save", "store"} =>
    /\ mem[w].state.validity <= validity[mem[w].name]
    /\ mem[w].origin.name = mem[w].name
    /\ mem[w].origin.validity = mem[w].state.validity
    /\ \A u \in Uids, m \in Mail : <<u, m>> \in batch[w] =>
         /\ m \notin arriving
         /\ \A b \in Boxes \ {mem[w].name} : uid[b][m] = 0
         /\ validity[mem[w].name] = mem[w].state.validity =>
              /\ uid[mem[w].name][m] \in {u, 0}
              /\ u < next[mem[w].name]
              /\ \A x \in Mail : uid[mem[w].name][x] = u => x = m

SInv ==
  /\ TInv
  /\ Counted(file.seen, origin)
  /\ \A w \in Windows : CopyOK(w) /\ BatchOK(w)

LEMMA TypeStep ==
  ASSUME TInv, [Next]_vars
  PROVE  TInv'
BY ServerStep, CheckStep, DiskStep DEF TInv

(* The typed facts the steps below rest on. *)
LEMMA Typed ==
  ASSUME TInv
  PROVE  /\ file \in State /\ store \in [Uids -> Record \cup {None}]
         /\ origin \in Origin /\ top \in 0..MaxUid
         /\ pc \in [Windows -> Steps]
         /\ job \in [Windows -> Job \cup {None}] /\ mem \in [Windows -> Memory \cup {None}]
         /\ batch \in [Windows -> SUBSET (Uids \X Mail)]
         /\ \A w \in Windows : pc[w] = "fetch" => job[w] \in Job /\ job[w].u \in Uids
         /\ \A w \in Windows : pc[w] \in {"select", "save", "store"} =>
              /\ mem[w] \in Memory /\ mem[w].name \in Boxes /\ mem[w].state \in State
              /\ mem[w].origin \in Origin
         /\ \A w \in Windows : pc[w] \notin {"save", "store"} => batch[w] = {}
         /\ HeadersOnly \in BOOLEAN /\ Listed \in Boxes
BY Bounds DEF TInv, CheckOK, DiskOK, WindowOK, Job, Memory

(* A batch that loses an item has the others. *)
LEMMA Taken ==
  ASSUME TInv, NEW w \in Windows, NEW item \in batch[w], batch' = [batch EXCEPT ![w] = @ \ {item}]
  PROVE  /\ item[1] \in Uids /\ item[2] \in Mail /\ item = <<item[1], item[2]>>
         /\ batch'[w] = batch[w] \ {item}
         /\ \A v \in Windows \ {w} : batch'[v] = batch[v]
         /\ \A u \in Uids, m \in Mail : \A v \in Windows :
              <<u, m>> \in batch[v] => <<u, m>> \in batch'[v] \/ (v = w /\ u = item[1] /\ m = item[2])
<1>1. batch \in [Windows -> SUBSET (Uids \X Mail)]
  BY Typed
<1>2. item \in Uids \X Mail
  BY <1>1
<1>3. batch'[w] = batch[w] \ {item} /\ \A v \in Windows \ {w} : batch'[v] = batch[v]
  BY <1>1
<1>4. item[1] \in Uids /\ item[2] \in Mail /\ item = <<item[1], item[2]>>
  BY <1>2
<1> QED BY <1>3, <1>4

(* The history of a save: only m comes off it, and a message whose place m *)
(* takes comes on it.                                                      *)
LEMMA MissedEffect ==
  ASSUME NEW n \in Boxes, NEW v, NEW u \in Uids, NEW m \in Mail, missed' = Missed(n, v, u, m)
  PROVE  /\ \A x \in Mail \ {m} : x \in missed => x \in missed'
         /\ validity[n] # v => missed \subseteq missed'
         /\ \A x \in Mail \ {m}, b \in Boxes :
              uid[b][x] = u /\ (b # n \/ validity[b] # v) => x \in missed'
BY DEF Missed

(* A message saved under the UID that it keeps stays saved. *)
LEMMA SavedStep ==
  ASSUME SInv, [Next]_vars, NEW n \in Boxes, NEW m \in Mail, NEW u \in Uids,
         uid[n][m] = u, Saved(u, m)
  PROVE  Saved(u, m)'
<1> USE DEF SInv
<1>0. /\ store \in [Uids -> Record \cup {None}]
      /\ batch \in [Windows -> SUBSET (Uids \X Mail)]
      /\ u # 0
  BY Typed DEF Uids
<1>1. CASE /\ store'[u] # None \/ ~Stored(m, u)
           /\ Stored(m, u) => store'[u].of = store[u].of
           /\ missed \subseteq missed'
           /\ \A w \in Windows : <<u, m>> \in batch[w] => <<u, m>> \in batch'[w]
  BY <1>1 DEF Saved, Stored
<1>2. CASE UNCHANGED <<store, missed, batch>>
  BY <1>1, <1>2 DEF Stored
<1>3. ASSUME NEW w \in Windows, NEW v \in Uids, Reset(w, v)
      PROVE  Saved(u, m)'
  <2>1. UNCHANGED <<missed, batch>>
    BY <1>3 DEF Reset
  <2>2. Stored(m, u) => store'[u] # None /\ store'[u].of = store[u].of
    <3>1. CASE u = v /\ store[v] # None
      <4>1. [store[v] EXCEPT !.body = FALSE] \in Record /\ store[v] \in Record
            /\ [store[v] EXCEPT !.body = FALSE].of = store[v].of
        BY <1>0, <3>1 DEF Record
      <4>2. store'[u] = [store[v] EXCEPT !.body = FALSE]
        BY <1>0, <1>3, <3>1 DEF Reset
      <4> QED BY <3>1, <4>1, <4>2, Bounds
    <3>2. CASE ~(u = v /\ store[v] # None)
      BY <1>0, <1>3, <3>2 DEF Reset, Stored
    <3> QED BY <3>1, <3>2
  <2> QED BY <1>1, <2>1, <2>2
<1>4. ASSUME NEW w \in Windows, Refetch(w)
      PROVE  Saved(u, m)'
  <2>1. job[w].u \in Uids /\ batch' = batch /\ Listed \in Boxes
    BY <1>4, Typed DEF Refetch
  <2>2. PICK x \in Mail :
          /\ uid[Listed][x] = job[w].u
          /\ store' = [store EXCEPT ![job[w].u] =
                         [of |-> x, body |-> ~HeadersOnly, label |-> job[w].old.label]]
          /\ missed' = Missed(Listed, validity[Listed], job[w].u, x)
    BY <1>4 DEF Refetch
  <2> DEFINE r == [of |-> x, body |-> ~HeadersOnly, label |-> job[w].old.label]
  <2>3. r \in Record /\ r # None /\ r.of = x
    <3>1. job[w].old \in Record
      BY <1>4, Typed DEF Refetch, Job
    <3>2. r \in Record
      BY <3>1, Typed DEF Record
    <3> QED BY <3>2, Bounds
  <2>4. store'[job[w].u] = r /\ \A y \in Uids \ {job[w].u} : store'[y] = store[y]
    BY <1>0, <2>1, <2>2
  <2> HIDE DEF r
  <2>5. \A a, b \in Boxes, y \in Mail : uid[a][y] # 0 /\ uid[b][y] # 0 => a = b
    BY DEF TInv, ServerOK
  <2>6. \A y, z \in Mail : uid[n][y] # 0 /\ uid[n][y] = uid[n][z] => y = z
    BY DEF TInv, ServerOK
  <2>7. /\ \A y \in Mail \ {x} : y \in missed => y \in missed'
        /\ \A y \in Mail \ {x}, b \in Boxes : uid[b][y] = job[w].u /\ b # Listed => y \in missed'
    BY ZenonT(60), <2>1, <2>2, MissedEffect
  <2>8. CASE m = x
    <3>1. u = job[w].u
      BY <1>0, <2>1, <2>2, <2>5, <2>8 DEF Uids
    <3> QED BY <2>3, <2>4, <2>8, <3>1 DEF Saved, Stored
  <2>9. CASE m # x /\ u = job[w].u
    <3>1. n # Listed
      BY <1>0, <2>2, <2>6, <2>9
    <3> QED BY <2>7, <2>9, <3>1 DEF Saved
  <2>10. CASE m # x /\ u # job[w].u
    BY <2>1, <2>4, <2>7, <2>10 DEF Saved, Stored
  <2> QED BY <2>8, <2>9, <2>10
<1>5. ASSUME NEW w \in Windows, StoreNext(w)
      PROVE  Saved(u, m)'
  <2>1. PICK item \in batch[w] :
          /\ pc[w] = "store"
          /\ batch' = [batch EXCEPT ![w] = @ \ {item}]
          /\ store' = [store EXCEPT ![item[1]] =
                         [of |-> item[2], body |-> ~HeadersOnly, label |-> FALSE]]
          /\ missed' = Missed(mem[w].name, mem[w].state.validity, item[1], item[2])
    BY <1>5 DEF StoreNext
  <2> DEFINE v == item[1]
             x == item[2]
             r == [of |-> x, body |-> ~HeadersOnly, label |-> FALSE]
             k == mem[w].name
  <2>2. /\ v \in Uids /\ x \in Mail /\ <<v, x>> \in batch[w] /\ k \in Boxes
        /\ \A y \in Windows : <<u, m>> \in batch[y] => <<u, m>> \in batch'[y] \/ (u = v /\ m = x)
    BY <2>1, Taken, Typed
  <2>3. r \in Record /\ r # None /\ r.of = x
    <3>1. r \in Record
      BY <2>2, Typed DEF Record
    <3> QED BY <3>1, Bounds
  <2>4. store'[v] = r /\ \A y \in Uids \ {v} : store'[y] = store[y]
    BY <1>0, <2>1, <2>2
  <2>5. /\ \A b \in Boxes \ {k} : uid[b][x] = 0
        /\ validity[k] = mem[w].state.validity =>
             /\ uid[k][x] \in {v, 0}
             /\ \A y \in Mail : uid[k][y] = v => y = x
    BY <2>1, <2>2 DEF BatchOK
  <2>6. /\ \A y \in Mail \ {x} : y \in missed => y \in missed'
        /\ validity[k] # mem[w].state.validity => missed \subseteq missed'
        /\ \A y \in Mail \ {x}, b \in Boxes :
             uid[b][y] = v /\ (b # k \/ validity[b] # mem[w].state.validity) => y \in missed'
    BY SMTT(30), <2>1, <2>2, MissedEffect
  <2> HIDE DEF v, x, r, k
  <2>7. CASE u = v /\ m = x
    BY <2>3, <2>4, <2>7 DEF Saved, Stored
  <2>8. CASE u = v /\ m # x
    BY <2>5, <2>6, <2>8 DEF Saved
  <2>9. CASE u # v /\ m # x
    BY <2>2, <2>4, <2>6, <2>9 DEF Saved, Stored
  <2>10. CASE u # v /\ m = x
    <3>1. validity[k] # mem[w].state.validity
      BY <1>0, <2>5, <2>10
    <3> QED BY <2>2, <2>4, <2>6, <2>10, <3>1 DEF Saved, Stored
  <2> QED BY <2>7, <2>8, <2>9, <2>10
<1>6. ASSUME NEW w \in Windows, StoreFails(w)
      PROVE  Saved(u, m)'
  <2>1. PICK item \in batch[w] :
          /\ batch' = [batch EXCEPT ![w] = @ \ {item}]
          /\ store' = store
          /\ missed' = IF store[item[1]] # None /\ store[item[1]].of = item[2] THEN missed
                       ELSE missed \cup {item[2]}
    BY <1>6 DEF StoreFails
  <2>2. \A y \in Windows : <<u, m>> \in batch[y] =>
          <<u, m>> \in batch'[y] \/ (u = item[1] /\ m = item[2])
    BY <2>1, Taken
  <2> QED BY <2>1, <2>2 DEF Saved, Stored
<1>7. CASE Crash
  <2>1. /\ store' = store
        /\ missed' = missed \cup {item[2] : item \in
             {x \in UNION {batch[w] : w \in Windows} :
                ~(store[x[1]] # None /\ store[x[1]].of = x[2])}}
    BY <1>7 DEF Crash
  <2>2. ASSUME NEW w \in Windows, <<u, m>> \in batch[w], ~Stored(m, u)
        PROVE  m \in missed'
    <3> DEFINE i == <<u, m>>
    <3>1. i \in {x \in UNION {batch[y] : y \in Windows} :
                   ~(store[x[1]] # None /\ store[x[1]].of = x[2])}
      BY <2>2 DEF Stored
    <3>2. i[2] = m
      OBVIOUS
    <3> QED BY <2>1, <3>1, <3>2
  <2> QED BY <2>1, <2>2 DEF Saved, Stored
<1>8. ASSUME NEW v \in Uids, Label(v)
      PROVE  Saved(u, m)'
  <2>1. store' = [store EXCEPT ![v].label = TRUE] /\ store[v] \in Record
        /\ UNCHANGED <<missed, batch>>
    BY <1>0, <1>8 DEF Label, history, check
  <2>2. [store[v] EXCEPT !.label = TRUE] \in Record
        /\ [store[v] EXCEPT !.label = TRUE].of = store[v].of
    BY <2>1 DEF Record
  <2>3. store'[u] = IF u = v THEN [store[v] EXCEPT !.label = TRUE] ELSE store[u]
    BY <1>0, <2>1
  <2> QED BY <1>1, <2>1, <2>2, <2>3, Bounds DEF Stored
<1>9. ASSUME NEW v \in Uids, Erase(v)
      PROVE  Saved(u, m)'
  <2>1. store' = [store EXCEPT ![v] = None] /\ missed' = missed \cup {store[v].of}
        /\ batch' = batch
    BY <1>9 DEF Erase, check
  <2>2. store'[u] = IF u = v THEN None ELSE store[u]
    BY <1>0, <2>1
  <2> QED BY <2>1, <2>2 DEF Saved, Stored
<1>10. ASSUME NEW v \in Uids, QueueRedownload(v) \/ CancelRedownload(v)
       PROVE  UNCHANGED <<store, missed, batch>>
  BY <1>10 DEF QueueRedownload, CancelRedownload, history, check
<1>11. ASSUME NEW w \in Windows,
              \/ StartCheck(w) \/ RefetchFails(w) \/ SaveState(w) \/ SaveStateFails(w)
              \/ EndSync(w) \/ EndCheck(w)
       PROVE  UNCHANGED <<store, missed, batch>>
  BY <1>11 DEF StartCheck, RefetchFails, SaveState, SaveStateFails, EndSync, EndCheck, history
<1>12. ASSUME NEW w \in Windows, NEW v \in Uids, ResetFails(w, v)
       PROVE  UNCHANGED <<store, missed, batch>>
  BY <1>12 DEF ResetFails, history
<1>13. ASSUME NEW w \in Windows, NEW k \in Boxes, NEW full \in BOOLEAN, Load(w, k, full)
       PROVE  UNCHANGED <<store, missed, batch>>
  BY <1>13 DEF Load
<1>14. ASSUME NEW w \in Windows, Fetch(w)
       PROVE  Saved(u, m)'
  <2>1. pc[w] = "select" /\ \A v \in Windows \ {w} : batch'[v] = batch[v]
    BY <1>14, FetchEffect
  <2>2. batch[w] = {} /\ UNCHANGED <<store, missed>>
    BY <1>14, <2>1, Typed DEF Fetch, history
  <2> QED BY <1>1, <2>1, <2>2 DEF Stored
<1>15. ASSUME NEW w \in Windows, Window(w)
       PROVE  Saved(u, m)'
  BY <1>2, <1>3, <1>4, <1>5, <1>6, <1>11, <1>12, <1>13, <1>14, <1>15 DEF Window
<1>16. ASSUME NEW k \in Boxes, NEW x \in Mail, Deliver(k, x) \/ Expunge(k, x)
       PROVE  UNCHANGED <<store, missed, batch>>
  BY <1>16 DEF Deliver, Expunge, history, check
<1>17. ASSUME NEW k \in Boxes, NEW v \in Validities, NEW order \in [Mail -> 0..Cardinality(Mail)],
              Renumber(k, v, order)
       PROVE  UNCHANGED <<store, missed, batch>>
  BY <1>17 DEF Renumber, check
<1>18. CASE UNCHANGED vars
  BY <1>2, <1>18 DEF vars, history, check
<1> QED BY <1>2, <1>7, <1>8, <1>9, <1>10, <1>15, <1>16, <1>17, <1>18 DEF Next

(* What was counted stays counted, whoever steps. *)
LEMMA CountedStep ==
  ASSUME SInv, [Next]_vars, NEW seen \in 0..MaxUid, NEW o \in Origin, Counted(seen, o)
  PROVE  Counted(seen, o)'
<1> USE DEF SInv
<1> DEFINE n == o.name
<1>0. /\ n \in Boxes /\ o.hidden \in 0..MaxUid /\ o.validity \in Nat
      /\ validity \in [Boxes -> Validities] /\ \A b \in Boxes : validity[b] \in Nat
      /\ uid \in [Boxes -> [Mail -> 0..MaxUid]] /\ next \in [Boxes -> 1..(MaxUid + 1)]
      /\ seen \in Nat /\ 0..MaxUid \subseteq Nat /\ 1..(MaxUid + 1) \subseteq Nat
      /\ next[n] \in Nat
  <2>1. n \in Boxes /\ o.hidden \in 0..MaxUid /\ o.validity \in Validities \cup {0}
    BY DEF Origin
  <2>2. /\ validity \in [Boxes -> Validities] /\ uid \in [Boxes -> [Mail -> 0..MaxUid]]
        /\ next \in [Boxes -> 1..(MaxUid + 1)]
    BY DEF TInv, ServerOK
  <2>3. 1..(MaxUid + 1) \subseteq Nat
    BY Bounds
  <2>4. next[n] \in 1..(MaxUid + 1)
    BY <2>1, <2>2
  <2> QED BY <2>1, <2>2, <2>3, <2>4, Bounds
<1>1. /\ o.validity <= validity[n]
      /\ o.validity = validity[n] =>
           /\ seen < next[n] \/ seen <= o.hidden
           /\ \A m \in Mail : uid[n][m] # 0 /\ uid[n][m] <= seen =>
                Saved(uid[n][m], m) \/ uid[n][m] <= o.hidden
  BY DEF Counted
<1>2. ASSUME o.validity = validity[n], NEW m \in Mail, uid[n][m] # 0, uid[n][m] <= seen,
             uid'[n][m] = uid[n][m]
      PROVE  Saved(uid[n][m], m)' \/ uid'[n][m] <= o.hidden
  <2>1. Saved(uid[n][m], m) \/ uid[n][m] <= o.hidden
    BY <1>1, <1>2
  <2>2. PICK u \in Uids : u = uid[n][m]
    BY <1>0, <1>2 DEF Uids
  <2>3. Saved(u, m) => Saved(u, m)'
    BY <1>0, <2>2, SavedStep
  <2>4. uid'[n][m] = u
    BY <1>2, <2>2
  <2>5. Saved(uid[n][m], m) => Saved(u, m)
    BY <2>2
  <2>6. Saved(u, m)' => Saved(uid[n][m], m)'
    BY <2>4 DEF Saved, Stored
  <2> QED BY <1>2, <2>1, <2>3, <2>5, <2>6
<1>3. ASSUME \A m \in Mail : uid'[n][m] = uid[n][m] \/ uid'[n][m] = 0 \/ uid'[n][m] = next[n],
             validity'[n] = validity[n], next'[n] \in {next[n], next[n] + 1}
      PROVE  Counted(seen, o)'
  <2>1. CASE o.validity # validity[n]
    BY <1>1, <1>3, <2>1 DEF Counted
  <2>2. CASE o.validity = validity[n]
    <3>1. seen < next'[n] \/ seen <= o.hidden
      BY <1>0, <1>1, <1>3, <2>2
    <3>2. ASSUME NEW m \in Mail, uid'[n][m] # 0, uid'[n][m] <= seen
          PROVE  Saved(uid[n][m], m)' \/ uid'[n][m] <= o.hidden
      <4>1. CASE uid'[n][m] = uid[n][m]
        BY <1>2, <2>2, <3>2, <4>1
      <4>2. CASE uid'[n][m] = next[n]
        BY <1>0, <1>1, <2>2, <3>2, <4>2
      <4> QED BY <1>3, <3>2, <4>1, <4>2
    <3> QED BY <1>1, <1>3, <2>2, <3>1, <3>2 DEF Counted
  <2> QED BY <2>1, <2>2
<1>4. CASE UNCHANGED server
  BY <1>3, <1>4 DEF server
<1>5. ASSUME NEW k \in Boxes, NEW m \in Mail, Deliver(k, m)
      PROVE  Counted(seen, o)'
  <2>1. /\ validity' = validity /\ uid' = [uid EXCEPT ![k][m] = next[k]]
        /\ next' = [next EXCEPT ![k] = @ + 1]
    BY <1>5 DEF Deliver
  <2>2. \A x \in Mail : uid'[n][x] = IF k = n /\ x = m THEN next[n] ELSE uid[n][x]
    BY <1>0, <2>1
  <2>3. next'[n] \in {next[n], next[n] + 1}
    BY <1>0, <2>1
  <2> QED BY <1>3, <2>1, <2>2, <2>3
<1>6. ASSUME NEW k \in Boxes, NEW m \in Mail, Expunge(k, m)
      PROVE  Counted(seen, o)'
  <2>1. validity' = validity /\ uid' = [uid EXCEPT ![k][m] = 0] /\ next' = next
    BY <1>6 DEF Expunge
  <2>2. \A x \in Mail : uid'[n][x] = IF k = n /\ x = m THEN 0 ELSE uid[n][x]
    BY <1>0, <2>1
  <2> QED BY <1>3, <2>1, <2>2
<1>7. ASSUME NEW k \in Boxes, NEW v \in Validities, NEW order \in [Mail -> 0..Cardinality(Mail)],
             Renumber(k, v, order)
      PROVE  Counted(seen, o)'
  <2>1. /\ validity' = [validity EXCEPT ![k] = v] /\ v > validity[k] /\ v \in Nat
        /\ uid' = [uid EXCEPT ![k] = order]
        /\ next' = [next EXCEPT ![k] = Cardinality({m \in Mail : uid[k][m] # 0}) + 1]
    BY <1>7, Bounds DEF Renumber
  <2>2. CASE k = n
    <3>1. validity'[n] = v /\ o.validity < v
      BY <1>0, <1>1, <2>1, <2>2
    <3> QED BY <1>0, <2>1, <3>1 DEF Counted
  <2>3. CASE k # n
    <3>1. uid'[n] = uid[n] /\ validity'[n] = validity[n] /\ next'[n] = next[n]
      BY <1>0, <2>1, <2>3
    <3> QED BY <1>3, <3>1
  <2> QED BY <2>2, <2>3
<1> QED BY <1>4, <1>5, <1>6, <1>7, ServerFrame

(* A step of one window leaves every other the mailbox it is in. *)
LEMMA OthersStill ==
  ASSUME TInv, NEW v \in Windows, Window(v), NEW w \in Windows, w # v
  PROVE  Still(w)
<1>0. /\ CheckOK /\ mem \in [Windows -> Memory \cup {None}] /\ pc \in [Windows -> Steps]
      /\ batch \in [Windows -> SUBSET (Uids \X Mail)] /\ job \in [Windows -> Job \cup {None}]
  BY Typed DEF TInv
<1>1. ASSUME NEW step \in Steps, Go(v, step)
      PROVE  pc'[w] = pc[w]
  BY <1>0, <1>1 DEF Go
<1>2. ASSUME NEW u \in Uids, Reset(v, u) \/ ResetFails(v, u)
      PROVE  Still(w)
  BY <1>0, <1>2 DEF Reset, ResetFails, Go, Still
<1>3. CASE StartCheck(v) \/ Refetch(v) \/ RefetchFails(v)
  BY <1>0, <1>3 DEF StartCheck, Refetch, RefetchFails, Go, Still
<1>4. CASE Fetch(v)
  BY ZenonT(60), <1>0, <1>4, FetchEffect DEF Fetch, Go, Still
<1>5. CASE SaveState(v) \/ SaveStateFails(v)
  BY <1>0, <1>5 DEF SaveState, SaveStateFails, Go, Still
<1>6. CASE StoreNext(v) \/ StoreFails(v)
  BY <1>0, <1>6 DEF StoreNext, StoreFails, Still
<1>7. CASE EndSync(v) \/ EndCheck(v)
  BY <1>0, <1>7 DEF EndSync, EndCheck, Go, Still
<1>8. ASSUME NEW n \in Boxes, NEW full \in BOOLEAN, Load(v, n, full)
      PROVE  Still(w)
  <2>1. mem'[w] = mem[w]
    BY <1>8, LoadEffect
  <2> QED BY <1>0, <1>8, <2>1 DEF Load, Go, Still
<1> QED BY <1>2, <1>3, <1>4, <1>5, <1>6, <1>7, <1>8 DEF Window

(* The steps that concern the mailbox a window is in. *)
LEMMA Moves ==
  ASSUME TInv, [Next]_vars, NEW w \in Windows
  PROVE  \/ Still(w)
         \/ pc'[w] \in {"idle", "replay", "mailboxes"}
         \/ \E u \in Uids : Reset(w, u) /\ pc'[w] = "fetch"
         \/ \E n \in Boxes, full \in BOOLEAN : Load(w, n, full) /\ pc'[w] = "select"
         \/ Fetch(w) /\ pc[w] = "select" /\ pc'[w] = "save"
         \/ /\ SaveState(w) \/ SaveStateFails(w)
            /\ pc[w] = "save" /\ pc'[w] = "store" /\ mem' = mem /\ batch' = batch
         \/ /\ StoreNext(w) \/ StoreFails(w)
            /\ pc[w] = "store" /\ pc' = pc /\ mem' = mem
<1>0. CheckOK /\ pc \in [Windows -> Steps]
  BY DEF TInv, CheckOK
<1>1. ASSUME NEW u \in Uids, Reset(w, u)
      PROVE  Still(w) \/ pc'[w] = "fetch"
  BY <1>0, <1>1 DEF Reset, Go, Still
<1>2. ASSUME NEW u \in Uids, ResetFails(w, u)
      PROVE  Still(w)
  BY <1>2 DEF ResetFails, Still
<1>3. CASE StartCheck(w) \/ Refetch(w) \/ RefetchFails(w) \/ EndSync(w) \/ EndCheck(w)
  <2>1. \E step \in {"idle", "replay", "mailboxes"} : Go(w, step)
    BY <1>3 DEF StartCheck, Refetch, RefetchFails, EndSync, EndCheck
  <2> QED BY <1>0, <2>1 DEF Go
<1>4. ASSUME NEW n \in Boxes, NEW full \in BOOLEAN, Load(w, n, full)
      PROVE  pc'[w] = "select"
  BY <1>0, <1>4 DEF Load, Go
<1>5. CASE Fetch(w)
  <2>1. pc[w] = "select" /\ pc'[w] = "save"
    BY <1>0, <1>5 DEF Fetch, Go
  <2> QED BY <1>5, <2>1
<1>6. CASE SaveState(w) \/ SaveStateFails(w)
  <2>1. pc[w] = "save" /\ pc'[w] = "store" /\ mem' = mem /\ batch' = batch
    BY <1>0, <1>6 DEF SaveState, SaveStateFails, Go
  <2> QED BY <1>6, <2>1
<1>7. CASE StoreNext(w) \/ StoreFails(w)
  <2>1. pc[w] = "store" /\ pc' = pc /\ mem' = mem
    BY <1>7 DEF StoreNext, StoreFails
  <2> QED BY <1>7, <2>1
<1>8. ASSUME NEW v \in Windows, Window(v), v # w
      PROVE  Still(w)
  BY <1>8, OthersStill
<1>9. CASE Crash
  <2>1. pc'[w] = "idle"
    BY <1>9 DEF Crash
  <2> QED BY <2>1
<1>10. CASE UNCHANGED check
  BY <1>10 DEF check, Still
<1>11. ASSUME NEW u \in Uids, Label(u) \/ Erase(u) \/ QueueRedownload(u) \/ CancelRedownload(u)
       PROVE  UNCHANGED check
  BY <1>11 DEF Label, Erase, QueueRedownload, CancelRedownload
<1>12. ASSUME NEW n \in Boxes, NEW m \in Mail, Deliver(n, m) \/ Expunge(n, m)
       PROVE  UNCHANGED check
  BY <1>12 DEF Deliver, Expunge
<1>13. ASSUME NEW n \in Boxes, NEW v \in Validities, NEW order \in [Mail -> 0..Cardinality(Mail)],
              Renumber(n, v, order)
       PROVE  UNCHANGED check
  BY <1>13 DEF Renumber
<1>14. CASE UNCHANGED vars
  BY <1>10, <1>14 DEF vars
<1>15. CASE Window(w)
  <2>1. CASE \E u \in Uids : Reset(w, u) \/ ResetFails(w, u)
    BY <1>1, <1>2, <2>1
  <2>2. CASE \E n \in Boxes, full \in BOOLEAN : Load(w, n, full)
    BY <1>4, <2>2
  <2> QED BY <1>3, <1>5, <1>6, <1>7, <1>15, <2>1, <2>2 DEF Window
<1>16. CASE \E v \in Windows : Window(v)
  BY <1>8, <1>15, <1>16
<1> QED BY <1>9, <1>10, <1>11, <1>12, <1>13, <1>14, <1>16 DEF Next

(* What the server may do to a message that a window has fetched. *)
LEMMA BatchFrame ==
  ASSUME SInv, [Next]_vars, NEW w \in Windows, pc[w] \in {"save", "store"},
         mem'[w] = mem[w], batch'[w] \subseteq batch[w]
  PROVE  BatchOK(w)'
<1> USE DEF SInv
<1> DEFINE n == mem[w].name
           v == mem[w].state.validity
<1>0. /\ n \in Boxes /\ v \in Nat
      /\ validity \in [Boxes -> Validities] /\ \A b \in Boxes : validity[b] \in Nat
      /\ uid \in [Boxes -> [Mail -> 0..MaxUid]] /\ next \in [Boxes -> 1..(MaxUid + 1)]
      /\ \A b \in Boxes : next[b] \in Nat
      /\ \A u \in Uids : u \in Nat
  <2>1. n \in Boxes /\ mem[w].state \in State
    BY Typed
  <2>2. v \in Validities \cup {0}
    BY <2>1 DEF State
  <2>3. /\ validity \in [Boxes -> Validities] /\ uid \in [Boxes -> [Mail -> 0..MaxUid]]
        /\ next \in [Boxes -> 1..(MaxUid + 1)]
    BY DEF TInv, ServerOK
  <2>4. 1..(MaxUid + 1) \subseteq Nat
    BY Bounds
  <2>5. \A b \in Boxes : next[b] \in 1..(MaxUid + 1)
    BY <2>3
  <2> QED BY <2>1, <2>2, <2>3, <2>4, <2>5, Bounds
<1>1. /\ v <= validity[n] /\ mem[w].origin.name = n /\ mem[w].origin.validity = v
      /\ \A u \in Uids, m \in Mail : <<u, m>> \in batch[w] =>
         /\ m \notin arriving
         /\ \A b \in Boxes \ {n} : uid[b][m] = 0
         /\ validity[n] = v =>
              /\ uid[n][m] \in {u, 0}
              /\ u < next[n]
              /\ \A x \in Mail : uid[n][x] = u => x = m
  BY DEF BatchOK
<1>2. ASSUME /\ arriving' \subseteq arriving
             /\ v <= validity'[n]
             /\ \A m \in Mail \ arriving, b \in Boxes : uid[b][m] = 0 => uid'[b][m] = 0
             /\ validity'[n] = v =>
                  /\ validity'[n] = validity[n]
                  /\ next'[n] \in {next[n], next[n] + 1}
                  /\ \A m \in Mail : uid'[n][m] \in {uid[n][m], 0, next[n]}
                  /\ \A m \in Mail \ arriving : uid'[n][m] \in {uid[n][m], 0}
      PROVE  BatchOK(w)'
  <2>1. ASSUME NEW u \in Uids, NEW m \in Mail, <<u, m>> \in batch'[w]
        PROVE  /\ m \notin arriving'
               /\ \A b \in Boxes \ {n} : uid'[b][m] = 0
               /\ validity'[n] = v =>
                    /\ uid'[n][m] \in {u, 0}
                    /\ u < next'[n]
                    /\ \A x \in Mail : uid'[n][x] = u => x = m
    <3>1. <<u, m>> \in batch[w] /\ u \in Nat /\ u # 0
      BY <1>0, <2>1 DEF Uids
    <3>2. m \notin arriving /\ \A b \in Boxes \ {n} : uid[b][m] = 0
      BY <1>1, <3>1
    <3>3. ASSUME validity'[n] = v
          PROVE  /\ uid'[n][m] \in {u, 0}
                 /\ u < next'[n]
                 /\ \A x \in Mail : uid'[n][x] = u => x = m
      <4>1. /\ uid[n][m] \in {u, 0} /\ u < next[n]
            /\ \A x \in Mail : uid[n][x] = u => x = m
        BY <1>1, <1>2, <3>1, <3>3
      <4>2. u < next'[n]
        BY <1>0, <1>2, <3>1, <3>3, <4>1
      <4>3. uid'[n][m] \in {u, 0}
        BY <1>2, <3>2, <3>3, <4>1
      <4>4. ASSUME NEW x \in Mail, uid'[n][x] = u
            PROVE  x = m
        <5>1. u # next[n]
          BY <1>0, <3>1, <4>1
        <5>2. uid[n][x] = u
          BY <1>2, <3>1, <3>3, <4>4, <5>1
        <5> QED BY <4>1, <5>2
      <4> QED BY <4>2, <4>3, <4>4
    <3> QED BY <1>2, <3>2, <3>3
  <2> QED BY <1>1, <1>2, <2>1 DEF BatchOK
<1>3. CASE UNCHANGED server
  BY <1>1, <1>2, <1>3 DEF server
<1>4. ASSUME NEW k \in Boxes, NEW m \in Mail, Deliver(k, m)
      PROVE  BatchOK(w)'
  <2>1. /\ validity' = validity /\ uid' = [uid EXCEPT ![k][m] = next[k]]
        /\ next' = [next EXCEPT ![k] = @ + 1] /\ m \in arriving /\ arriving' = arriving \ {m}
    BY <1>4 DEF Deliver
  <2>2. \A b \in Boxes, x \in Mail : uid'[b][x] = IF b = k /\ x = m THEN next[b] ELSE uid[b][x]
    BY <1>0, <2>1
  <2>3. next'[n] \in {next[n], next[n] + 1}
    BY <1>0, <2>1
  <2> QED BY <1>0, <1>1, <1>2, <2>1, <2>2, <2>3
<1>5. ASSUME NEW k \in Boxes, NEW m \in Mail, Expunge(k, m)
      PROVE  BatchOK(w)'
  <2>1. validity' = validity /\ uid' = [uid EXCEPT ![k][m] = 0] /\ next' = next
        /\ arriving' = arriving
    BY <1>5 DEF Expunge
  <2>2. \A b \in Boxes, x \in Mail : uid'[b][x] = IF b = k /\ x = m THEN 0 ELSE uid[b][x]
    BY <1>0, <2>1
  <2> QED BY <1>0, <1>1, <1>2, <2>1, <2>2
<1>6. ASSUME NEW k \in Boxes, NEW z \in Validities, NEW order \in [Mail -> 0..Cardinality(Mail)],
             Renumber(k, z, order)
      PROVE  BatchOK(w)'
  <2>1. /\ validity' = [validity EXCEPT ![k] = z] /\ z > validity[k] /\ z \in Nat
        /\ uid' = [uid EXCEPT ![k] = order] /\ arriving' = arriving
        /\ next' = [next EXCEPT ![k] = Cardinality({m \in Mail : uid[k][m] # 0}) + 1]
    BY <1>6, Bounds DEF Renumber
  <2>2. \A m \in Mail : order[m] = 0 <=> uid[k][m] = 0
    BY <1>6, RenumberType DEF TInv
  <2>3. \A b \in Boxes, x \in Mail : uid'[b][x] = IF b = k THEN order[x] ELSE uid[b][x]
    BY <1>0, <2>1
  <2>4. \A m \in Mail, b \in Boxes : uid[b][m] = 0 => uid'[b][m] = 0
    BY <2>2, <2>3
  <2>5. CASE k = n
    <3>1. validity'[n] = z /\ v < z
      BY <1>0, <1>1, <2>1, <2>5
    <3> QED BY <1>0, <1>2, <2>1, <2>4, <3>1
  <2>6. CASE k # n
    <3>1. uid'[n] = uid[n] /\ validity'[n] = validity[n] /\ next'[n] = next[n]
      BY <1>0, <2>1, <2>6
    <3> QED BY <1>1, <1>2, <2>1, <2>4, <3>1
  <2> QED BY <2>5, <2>6
<1> QED BY <1>3, <1>4, <1>5, <1>6, ServerFrame

(* The batch of a window, and the state it will save with it. *)
LEMMA BatchStep ==
  ASSUME SInv, [Next]_vars, NEW w \in Windows
  PROVE  BatchOK(w)'
<1> USE DEF SInv
<1>1. CASE pc[w] \in {"save", "store"} /\ mem'[w] = mem[w] /\ batch'[w] \subseteq batch[w]
  BY <1>1, BatchFrame
<1>2. CASE pc'[w] \notin {"save", "store"}
  BY <1>2 DEF BatchOK
<1>3. CASE Still(w)
  BY <1>1, <1>2, <1>3 DEF Still
<1>4. CASE Fetch(w)
  <2> DEFINE n == mem[w].name
  <2>1. /\ n \in Boxes /\ mem'[w].name = n /\ mem'[w].state.validity = validity[n]
        /\ mem'[w].origin = [name |-> n, validity |-> validity[n],
                             hidden |-> Hidden(mem[w].origin, n, Start(w))]
        /\ \A u \in Uids, m \in Mail : <<u, m>> \in batch'[w] => uid[n][m] = u
    BY <1>4, FetchEffect
  <2>2. UNCHANGED server /\ validity[n] \in Nat
    <3>1. validity[n] \in Validities
      BY <2>1 DEF TInv, ServerOK
    <3> QED BY <1>4, <3>1, Bounds DEF Fetch
  <2>3. ASSUME NEW u \in Uids, NEW m \in Mail, <<u, m>> \in batch'[w]
        PROVE  /\ m \notin arriving'
               /\ \A b \in Boxes \ {n} : uid'[b][m] = 0
               /\ uid'[n][m] = u
               /\ u < next'[n]
               /\ \A x \in Mail : uid'[n][x] = u => x = m
    <3>1. uid[n][m] = u /\ u # 0
      BY <2>1, <2>3 DEF Uids
    <3> QED BY <2>1, <2>2, <3>1 DEF TInv, ServerOK, server
  <2>4. mem'[w].origin.name = n /\ mem'[w].origin.validity = validity[n]
    BY <2>1
  <2>5. validity' = validity
    BY <2>2 DEF server
  <2> QED BY <2>1, <2>2, <2>3, <2>4, <2>5 DEF BatchOK
<1>5. CASE (SaveState(w) \/ SaveStateFails(w)) /\ pc[w] = "save" /\ mem' = mem /\ batch' = batch
  BY <1>1, <1>5
<1>6. CASE (StoreNext(w) \/ StoreFails(w)) /\ pc[w] = "store" /\ mem' = mem
  <2>1. PICK item \in batch[w] : batch' = [batch EXCEPT ![w] = @ \ {item}]
    BY <1>6 DEF StoreNext, StoreFails
  <2>2. batch'[w] \subseteq batch[w]
    BY <2>1, Taken
  <2> QED BY <1>1, <1>6, <2>2
<1> QED BY <1>2, <1>3, <1>4, <1>5, <1>6, Moves

LEMMA CountedLower ==
  ASSUME TInv, NEW seen \in 0..MaxUid, NEW low \in 0..MaxUid, low <= seen,
         NEW o \in Origin, Counted(seen, o)
  PROVE  Counted(low, o)
<1>1. /\ o.name \in Boxes /\ next[o.name] \in Nat /\ o.hidden \in Nat
      /\ \A m \in Mail : uid[o.name][m] \in Nat
      /\ seen \in Nat /\ low \in Nat
  <2>1. o.name \in Boxes /\ o.hidden \in 0..MaxUid
    BY DEF Origin
  <2>2. next[o.name] \in 1..(MaxUid + 1) /\ \A m \in Mail : uid[o.name][m] \in 0..MaxUid
    BY <2>1 DEF TInv, ServerOK
  <2> QED BY <2>1, <2>2, Bounds
<1> QED BY <1>1 DEF Counted

(* The copy of the state in a window that is about to fetch or to save.    *)
LEMMA CopyStep ==
  ASSUME SInv, [Next]_vars, NEW w \in Windows
  PROVE  CopyOK(w)'
<1> USE DEF SInv
<1>0. file \in State /\ origin \in Origin /\ file.seen \in 0..MaxUid
  BY Typed DEF State
<1>1. CASE Still(w)
  <2>1. CASE pc[w] \in {"select", "save"}
    <3>1. mem[w].state \in State /\ mem[w].origin \in Origin
      BY <2>1, Typed
    <3>2. PICK s \in 0..MaxUid : s = mem[w].state.seen
      BY <3>1 DEF State
    <3>3. PICK o \in Origin : o = mem[w].origin
      BY <3>1
    <3>4. Counted(s, o)
      BY <2>1, <3>2, <3>3 DEF CopyOK
    <3>5. Counted(s, o)'
      BY <3>4, CountedStep
    <3>6. mem'[w].state.seen = s /\ mem'[w].origin = o
      BY <1>1, <3>2, <3>3 DEF Still
    <3> QED BY <3>5, <3>6 DEF CopyOK, Counted
  <2> QED BY <1>1, <2>1 DEF CopyOK, Still
<1>2. CASE pc'[w] \notin {"select", "save"}
  BY <1>2 DEF CopyOK
<1>3. ASSUME NEW n \in Boxes, NEW full \in BOOLEAN, Load(w, n, full)
      PROVE  CopyOK(w)'
  <2>1. PICK o \in Origin : o = origin
    BY <1>0
  <2>2. PICK s \in 0..MaxUid : s = file.seen
    BY <1>0
  <2>3. mem'[w].origin = o /\ mem'[w].state.seen \in {0, s}
    BY <1>3, <2>1, <2>2, LoadEffect
  <2>4. PICK low \in {0, s} : low = mem'[w].state.seen
    BY <2>3
  <2>5. low \in 0..MaxUid /\ low <= s
    BY Bounds
  <2>6. Counted(s, o)
    BY <2>1, <2>2
  <2>7. Counted(low, o)
    BY <2>5, <2>6, CountedLower
  <2>8. Counted(low, o)'
    BY <2>5, <2>7, CountedStep
  <2> QED BY <2>3, <2>4, <2>8 DEF CopyOK, Counted
<1>4. CASE Fetch(w)
  <2>1. PICK n \in Boxes : n = mem[w].name
    BY <1>4, FetchEffect
  <2>2. PICK hid \in 0..MaxUid : hid = Hidden(mem[w].origin, n, Start(w))
    <3>1. pc[w] = "select" /\ Start(w) \in 0..MaxUid
      BY <1>4, FetchEffect
    <3> QED BY <3>1, Typed, HiddenType DEF TInv
  <2>3. PICK s \in 0..MaxUid : s = mem'[w].state.seen
    BY <1>4, FetchEffect
  <2> DEFINE from == mem[w].origin
  <2>4. /\ pc[w] = "select" /\ n \in Boxes
        /\ mem'[w].origin = [name |-> n, validity |-> validity[n], hidden |-> hid]
        /\ s \in 0..MaxUid /\ Start(w) \in 0..MaxUid /\ Start(w) <= s
        /\ s = Start(w) \/ \E m \in Mail : uid[n][m] # 0 /\ uid[n][m] = s
        /\ \A m \in Mail : uid[n][m] > Start(w) => <<uid[n][m], m>> \in batch'[w]
    BY <1>4, <2>1, <2>2, <2>3, FetchEffect
  <2>5. from \in Origin /\ Counted(mem[w].state.seen, from)
    BY <2>4, Typed DEF CopyOK
  <2>6. UNCHANGED server /\ UNCHANGED <<store, missed>>
    BY <1>4 DEF Fetch, history
  <2>7. validity[n] \in Nat /\ next[n] \in Nat /\ \A m \in Mail : uid[n][m] \in Nat
    <3>1. validity[n] \in Validities /\ next[n] \in 1..(MaxUid + 1)
          /\ \A m \in Mail : uid[n][m] \in 0..MaxUid
      BY <2>4 DEF TInv, ServerOK
    <3>2. 1..(MaxUid + 1) \subseteq Nat
      BY Bounds
    <3> QED BY <3>1, <3>2, Bounds
  <2>8. /\ hid \in 0..MaxUid /\ hid <= Start(w)
        /\ ~(from.name = n /\ from.validity = validity[n]) => hid = Start(w)
        /\ hid = Start(w) \/ hid = from.hidden
    BY <2>2, <2>4, <2>5, HiddenType DEF TInv
  <2>9. mem[w].state.seen \in 0..MaxUid
    BY <2>4, Typed DEF State
  <2> HIDE DEF from
  <2>10. ASSUME NEW m \in Mail, uid[n][m] # 0, uid[n][m] <= Start(w), ~(uid[n][m] <= hid)
        PROVE  \/ Stored(m, uid[n][m]) \/ m \in missed
               \/ \E v \in Windows \ {w} : <<uid[n][m], m>> \in batch[v]
    <3>1. from.name = n /\ from.validity = validity[n] /\ hid = from.hidden /\ hid # Start(w)
      BY <2>4, <2>7, <2>8, <2>10
    <3>2. Start(w) = mem[w].state.seen
      BY <2>7, <2>10, Bounds DEF Start
    <3>3. Saved(uid[n][m], m)
      BY <2>5, <2>10, <3>1, <3>2 DEF Counted
    <3>4. batch[w] = {}
      BY <2>4, Typed
    <3> QED BY <3>3, <3>4 DEF Saved
  <2>11. ASSUME NEW m \in Mail, uid[n][m] # 0, uid[n][m] <= s
        PROVE  Saved(uid[n][m], m)' \/ uid[n][m] <= hid
    <3>1. uid' = uid /\ UNCHANGED <<store, missed>>
      BY <2>6 DEF server
    <3>2. CASE uid[n][m] > Start(w)
      <4>1. <<uid'[n][m], m>> \in batch'[w]
        BY <2>4, <3>1, <3>2
      <4> QED BY <3>1, <4>1 DEF Saved
    <3>3. CASE uid[n][m] <= Start(w) /\ ~(uid[n][m] <= hid)
      <4>1. \A v \in Windows \ {w} : batch'[v] = batch[v]
        BY <1>4, FetchEffect
      <4> QED BY <2>10, <2>11, <3>1, <3>3, <4>1 DEF Saved, Stored
    <3> QED BY <2>4, <2>7, <2>11, <3>2, <3>3, Bounds
  <2>12. s < next[n] \/ s <= hid
    <3>1. CASE \E m \in Mail : uid[n][m] # 0 /\ uid[n][m] = s
      BY <2>4, <3>1 DEF TInv, ServerOK
    <3>2. CASE s = Start(w) /\ hid = Start(w)
      BY <2>4, <3>2, Bounds
    <3>3. CASE s = Start(w) /\ hid # Start(w)
      <4>1. from.name = n /\ from.validity = validity[n] /\ hid = from.hidden
        BY <2>8, <3>3
      <4>2. CASE Start(w) = 0
        BY <2>4, <2>8, <3>3, <4>2, Bounds
      <4>3. CASE Start(w) = mem[w].state.seen
        BY <2>5, <3>3, <4>1, <4>3 DEF Counted
      <4> QED BY <4>2, <4>3 DEF Start
    <3> QED BY <2>4, <3>1, <3>2, <3>3
  <2>13. /\ mem'[w].origin.name = n /\ mem'[w].origin.validity = validity[n]
         /\ mem'[w].origin.hidden = hid /\ mem'[w].state.seen = s
    BY <2>4, <2>3
  <2>14. validity' = validity /\ next' = next /\ uid' = uid
    BY <2>6 DEF server
  <2>15. validity[n] <= validity[n]
    BY <2>7
  <2>16. \A m \in Mail : uid'[n][m] # 0 /\ uid'[n][m] <= s =>
           Saved(uid[n][m], m)' \/ uid'[n][m] <= hid
    BY <2>11, <2>14
  <2>17. \A m \in Mail : Saved(uid[n][m], m)' = Saved(uid[mem[w].origin.name][m], m)'
    BY <2>13 DEF Saved, Stored
  <2> QED BY <2>12, <2>13, <2>14, <2>15, <2>16, <2>17 DEF CopyOK, Counted
<1>5. ASSUME (SaveState(w) \/ SaveStateFails(w)) /\ pc'[w] = "store"
      PROVE  CopyOK(w)'
  BY <1>2, <1>5
<1>6. ASSUME (StoreNext(w) \/ StoreFails(w)) /\ pc[w] = "store" /\ pc' = pc
      PROVE  CopyOK(w)'
  BY <1>2, <1>6
<1> QED BY <1>1, <1>2, <1>3, <1>4, <1>5, <1>6, Moves

(* What a state file cut short tells is no more than the state told. *)
LEMMA TornEffect ==
  ASSUME NEW s \in State, NEW t \in Torn(s)
  PROVE  t.seen \in 0..MaxUid /\ t.seen <= s.seen
<1>1. s.seen \in 0..MaxUid
  BY DEF State
<1> QED BY <1>1, Bounds DEF Torn

LEMMA FileStep ==
  ASSUME SInv, [Next]_vars
  PROVE  Counted(file.seen, origin)'
<1> USE DEF SInv
<1>1. ASSUME NEW s \in 0..MaxUid, NEW low \in 0..MaxUid, low <= s, NEW o \in Origin, Counted(s, o),
             file'.seen = low, origin' = o
      PROVE  Counted(file.seen, origin)'
  <2>1. Counted(low, o)'
    BY <1>1, CountedLower, CountedStep
  <2> QED BY <1>1, <2>1 DEF Counted
<1>2. CASE UNCHANGED <<file, origin>>
  <2>1. PICK s \in 0..MaxUid : s = file.seen
    BY Typed DEF State
  <2>2. PICK o \in Origin : o = origin
    BY Typed
  <2>3. Counted(s, o) /\ s <= s
    BY <2>1, <2>2, Bounds
  <2> QED BY <1>1, <1>2, <2>1, <2>2, <2>3
<1>3. ASSUME NEW w \in Windows, pc[w] = "save", origin' = mem[w].origin,
             file' \in Torn(mem[w].state) \cup {mem[w].state}
      PROVE  Counted(file.seen, origin)'
  <2>1. mem[w].state \in State /\ mem[w].origin \in Origin /\ Counted(mem[w].state.seen, mem[w].origin)
    BY <1>3, Typed DEF CopyOK
  <2>2. PICK s \in 0..MaxUid : s = mem[w].state.seen
    BY <2>1 DEF State
  <2>3. PICK o \in Origin : o = mem[w].origin
    BY <2>1
  <2>4. file'.seen \in 0..MaxUid /\ file'.seen <= s
    BY <1>3, <2>1, <2>2, TornEffect, Bounds
  <2>5. PICK low \in 0..MaxUid : low = file'.seen
    BY <2>4
  <2>6. Counted(s, o)
    BY <2>1, <2>2, <2>3
  <2> QED BY <1>1, <1>3, <2>3, <2>4, <2>5, <2>6
<1>4. ASSUME NEW w \in Windows, Window(w)
      PROVE  Counted(file.seen, origin)'
  <2>1. CASE SaveState(w)
    BY <1>3, <2>1 DEF SaveState
  <2>2. ASSUME \/ StartCheck(w) \/ Refetch(w) \/ RefetchFails(w) \/ Fetch(w) \/ SaveStateFails(w)
               \/ StoreNext(w) \/ StoreFails(w) \/ EndSync(w) \/ EndCheck(w)
        PROVE  UNCHANGED <<file, origin>>
    BY <2>2 DEF StartCheck, Refetch, RefetchFails, Fetch, SaveStateFails, StoreNext, StoreFails,
                EndSync, EndCheck, history
  <2>3. ASSUME NEW u \in Uids, Reset(w, u) \/ ResetFails(w, u)
        PROVE  UNCHANGED <<file, origin>>
    BY <2>3 DEF Reset, ResetFails, history
  <2>4. ASSUME NEW n \in Boxes, NEW full \in BOOLEAN, Load(w, n, full)
        PROVE  UNCHANGED <<file, origin>>
    BY <2>4 DEF Load
  <2> QED BY <1>2, <1>4, <2>1, <2>2, <2>3, <2>4 DEF Window
<1>5. CASE Crash
  BY <1>2, <1>3, <1>5 DEF Crash
<1>6. ASSUME NEW u \in Uids, Label(u) \/ Erase(u) \/ QueueRedownload(u) \/ CancelRedownload(u)
      PROVE  UNCHANGED <<file, origin>>
  BY <1>6 DEF Label, Erase, QueueRedownload, CancelRedownload, history
<1>7. ASSUME NEW n \in Boxes, NEW m \in Mail, Deliver(n, m) \/ Expunge(n, m)
      PROVE  UNCHANGED <<file, origin>>
  BY <1>7 DEF Deliver, Expunge, history
<1>8. ASSUME NEW n \in Boxes, NEW v \in Validities, NEW order \in [Mail -> 0..Cardinality(Mail)],
              Renumber(n, v, order)
      PROVE  UNCHANGED <<file, origin>>
  BY <1>8 DEF Renumber
<1>9. CASE UNCHANGED vars
  BY <1>2, <1>9 DEF vars, history
<1> QED BY <1>2, <1>4, <1>5, <1>6, <1>7, <1>8, <1>9 DEF Next

LEMMA SeenInit ==
  ASSUME Init
  PROVE  SInv
<1>1. TInv
  BY TypeInit
<1>2. /\ file.seen = 0 /\ origin.name = Listed /\ origin.validity = 0 /\ Listed \in Boxes
      /\ next[Listed] = 1 /\ \A m \in Mail : uid[Listed][m] = 0
      /\ validity[Listed] \in Nat /\ validity[Listed] # 0
  BY Bounds DEF Init, Nothing
<1>3. Counted(file.seen, origin)
  BY <1>2 DEF Counted
<1>4. \A w \in Windows : CopyOK(w) /\ BatchOK(w)
  BY DEF Init, CopyOK, BatchOK
<1> QED BY <1>1, <1>3, <1>4 DEF SInv

LEMMA SeenStep ==
  ASSUME SInv, [Next]_vars
  PROVE  SInv'
BY TypeStep, FileStep, CopyStep, BatchStep DEF SInv

(* Whatever other clients, failures, crashes and other windows do, a       *)
(* message below the last seen UID in the state file has its record, or is *)
(* about to be saved, or is one of the exceptions SeenIsStored names.      *)
THEOREM SeenAreStored == Spec => []SeenIsStored
<1>1. SInv => SeenIsStored
  BY DEF SInv, Counted, Saved, SeenIsStored
<1> QED BY SeenInit, SeenStep, <1>1, PTL DEF Spec

-----------------------------------------------------------------------------
(* A resync repairs *)

(* A window that stays clean meets no change of UIDVALIDITY, and no record *)
(* is put in, taken out or replaced but by itself.                         *)
LEMMA Undisturbed ==
  ASSUME TInv, [Next]_vars, NEW w \in Windows, w \in clean', pc[w] \in {"select", "save", "store"}
  PROVE  /\ w \in clean
         /\ \A n \in Boxes : /\ validity'[n] = validity[n]
                             /\ next'[n] \in {next[n], next[n] + 1}
                             /\ \A m \in Mail : uid'[n][m] \in {uid[n][m], 0, next[n]}
         /\ \/ StoreNext(w)
            \/ \A u \in Uids : /\ store'[u] = None <=> store[u] = None
                               /\ store[u] # None => store'[u].of = store[u].of
<1>0. /\ store \in [Uids -> Record \cup {None}] /\ validity \in [Boxes -> Validities]
      /\ uid \in [Boxes -> [Mail -> 0..MaxUid]] /\ next \in [Boxes -> 1..(MaxUid + 1)]
  BY Typed DEF TInv, ServerOK
<1> DEFINE Same == \A u \in Uids : /\ store'[u] = None <=> store[u] = None
                                   /\ store[u] # None => store'[u].of = store[u].of
           Calm == \A n \in Boxes : /\ validity'[n] = validity[n]
                                    /\ next'[n] \in {next[n], next[n] + 1}
                                    /\ \A m \in Mail : uid'[n][m] \in {uid[n][m], 0, next[n]}
<1>1. UNCHANGED server => Calm
  BY DEF server
<1>2. store' = store => Same
  OBVIOUS
<1>3. ASSUME NEW v \in Windows, Window(v)
      PROVE  w \in clean /\ (Same \/ StoreNext(w))
  <2>1. CASE StoreNext(v)
    <3>1. v = w /\ w \in clean
      BY <2>1 DEF StoreNext
    <3> QED BY <2>1, <3>1
  <2>2. ASSUME \/ StartCheck(v) \/ RefetchFails(v) \/ Fetch(v) \/ SaveState(v) \/ SaveStateFails(v)
               \/ StoreFails(v) \/ EndSync(v) \/ EndCheck(v)
        PROVE  w \in clean /\ store' = store
    BY <2>2 DEF StartCheck, RefetchFails, Fetch, SaveState, SaveStateFails, StoreFails, EndSync,
                EndCheck, history
  <2>3. ~Refetch(v)
    BY DEF Refetch
  <2>4. ASSUME NEW u \in Uids, Reset(v, u) \/ ResetFails(v, u)
        PROVE  w \in clean /\ store' = store
    BY <2>4 DEF Reset, ResetFails, history
  <2>5. ASSUME NEW n \in Boxes, NEW full \in BOOLEAN, Load(v, n, full)
        PROVE  w \in clean /\ store' = store
    BY <2>5 DEF Load
  <2> QED BY <1>2, <1>3, <2>1, <2>2, <2>3, <2>4, <2>5 DEF Window
<1>4. ASSUME NEW v \in Uids, Label(v)
      PROVE  w \in clean /\ Same
  <2>1. store' = [store EXCEPT ![v].label = TRUE] /\ store[v] \in Record /\ store[v] # None
        /\ clean' = clean
    BY <1>0, <1>4 DEF Label, history
  <2> DEFINE r == [store[v] EXCEPT !.label = TRUE]
  <2>2. r \in Record /\ r.of = store[v].of
    BY <2>1 DEF Record
  <2>3. \A u \in Uids : store'[u] = IF u = v THEN r ELSE store[u]
    BY <1>0, <2>1
  <2>4. r # None
    BY <2>2, Bounds
  <2> HIDE DEF r
  <2> QED BY <2>1, <2>2, <2>3, <2>4
<1>5. ASSUME NEW u \in Uids, Erase(u)
      PROVE  FALSE
  BY <1>5 DEF Erase
<1>6. ASSUME NEW u \in Uids, QueueRedownload(u) \/ CancelRedownload(u)
      PROVE  w \in clean /\ store' = store
  BY <1>6 DEF QueueRedownload, CancelRedownload, history
<1>7. ~Crash
  BY DEF Crash
<1>8. ASSUME NEW k \in Boxes, NEW m \in Mail, Deliver(k, m)
      PROVE  w \in clean /\ store' = store /\ Calm
  <2>1. /\ validity' = validity /\ uid' = [uid EXCEPT ![k][m] = next[k]]
        /\ next' = [next EXCEPT ![k] = @ + 1] /\ store' = store /\ clean' = clean
    BY <1>8 DEF Deliver, history
  <2>2. \A b \in Boxes, x \in Mail : uid'[b][x] = IF b = k /\ x = m THEN next[b] ELSE uid[b][x]
    BY <1>0, <2>1
  <2>3. \A b \in Boxes : next'[b] \in {next[b], next[b] + 1}
    BY <1>0, <2>1
  <2> QED BY <2>1, <2>2, <2>3
<1>9. ASSUME NEW k \in Boxes, NEW m \in Mail, Expunge(k, m)
      PROVE  w \in clean /\ store' = store /\ Calm
  <2>1. /\ validity' = validity /\ uid' = [uid EXCEPT ![k][m] = 0] /\ next' = next
        /\ store' = store /\ clean' = clean
    BY <1>9 DEF Expunge, history
  <2>2. \A b \in Boxes, x \in Mail : uid'[b][x] = IF b = k /\ x = m THEN 0 ELSE uid[b][x]
    BY <1>0, <2>1
  <2> QED BY <2>1, <2>2
<1>10. ASSUME NEW k \in Boxes, NEW v \in Validities, NEW order \in [Mail -> 0..Cardinality(Mail)],
              Renumber(k, v, order)
       PROVE  FALSE
  BY <1>10 DEF Renumber
<1>11. ASSUME UNCHANGED vars
       PROVE  w \in clean /\ Same
  BY <1>2, <1>11 DEF vars, history
<1> HIDE DEF Same, Calm
<1>12. CASE UNCHANGED server
  <2>1. Calm
    BY <1>1, <1>12
  <2>2. ASSUME NEW u \in Uids, Label(u) \/ Erase(u) \/ QueueRedownload(u) \/ CancelRedownload(u)
        PROVE  w \in clean /\ Same
    BY <1>2, <1>4, <1>5, <1>6, <2>2
  <2>3. ASSUME NEW n \in Boxes,
               \/ \E m \in Mail : Deliver(n, m) \/ Expunge(n, m)
               \/ \E v \in Validities, order \in [Mail -> 0..Cardinality(Mail)] :
                    Renumber(n, v, order)
        PROVE  w \in clean /\ Same
    BY <1>2, <1>8, <1>9, <1>10, <2>3
  <2>4. w \in clean /\ (Same \/ StoreNext(w))
    BY <1>3, <1>7, <1>11, <2>2, <2>3 DEF Next
  <2> QED BY <2>1, <2>4 DEF Same, Calm
<1>13. ASSUME NEW n \in Boxes,
              \/ \E m \in Mail : Deliver(n, m) \/ Expunge(n, m)
              \/ \E v \in Validities, order \in [Mail -> 0..Cardinality(Mail)] :
                   Renumber(n, v, order)
       PROVE  w \in clean /\ Same /\ Calm
  BY <1>2, <1>8, <1>9, <1>10, <1>13
<1> QED BY <1>12, <1>13, ServerFrame DEF Same, Calm

(* A resync asks from the first UID; all it saw is stored or to be stored, *)
(* until somebody disturbs it.                                             *)
FullOK(w) ==
  mem[w].full =>
    /\ pc[w] = "select" => mem[w].state.seen = 0
    /\ pc[w] \in {"save", "store"} /\ w \in clean =>
         /\ mem[w].state.validity = validity[mem[w].name]
         /\ mem[w].state.seen < next[mem[w].name]
         /\ \A m \in Mail :
              uid[mem[w].name][m] # 0 /\ uid[mem[w].name][m] <= mem[w].state.seen =>
                \/ Stored(m, uid[mem[w].name][m])
                \/ <<uid[mem[w].name][m], m>> \in batch[w]

LEMMA FullFrame ==
  ASSUME SInv, [Next]_vars, NEW w \in Windows, FullOK(w), pc[w] \in {"save", "store"},
         pc'[w] # "select", w \in clean', mem'[w] = mem[w], mem[w].full,
         \A u \in Uids, m \in Mail :
           /\ uid[mem[w].name][m] = u /\ Stored(m, u) => store'[u] # None /\ store'[u].of = m
           /\ <<u, m>> \in batch[w] =>
                <<u, m>> \in batch'[w] \/ (store'[u] # None /\ store'[u].of = m)
  PROVE  FullOK(w)'
<1>1. PICK n \in Boxes : n = mem[w].name
  BY SInv, Typed DEF SInv
<1>2. PICK s \in State : s = mem[w].state
  BY Typed DEF SInv
<1>3. /\ s.seen \in Nat /\ next[n] \in Nat /\ \A m \in Mail : uid[n][m] \in Nat
  <2>1. s.seen \in 0..MaxUid
    BY DEF State
  <2>2. next[n] \in 1..(MaxUid + 1) /\ \A m \in Mail : uid[n][m] \in 0..MaxUid
    BY DEF SInv, TInv, ServerOK
  <2>3. 1..(MaxUid + 1) \subseteq Nat
    BY Bounds
  <2> QED BY <2>1, <2>2, <2>3, Bounds
<1>4. /\ w \in clean /\ validity'[n] = validity[n] /\ next'[n] \in {next[n], next[n] + 1}
      /\ \A m \in Mail : uid'[n][m] \in {uid[n][m], 0, next[n]}
  BY Undisturbed DEF SInv
<1>5. /\ s.validity = validity[n] /\ s.seen < next[n]
      /\ \A m \in Mail : uid[n][m] # 0 /\ uid[n][m] <= s.seen =>
           Stored(m, uid[n][m]) \/ <<uid[n][m], m>> \in batch[w]
  BY <1>1, <1>2, <1>4 DEF FullOK
<1>6. s.validity = validity'[n] /\ s.seen < next'[n]
  BY <1>3, <1>4, <1>5
<1>7. ASSUME NEW m \in Mail, uid'[n][m] # 0, uid'[n][m] <= s.seen
      PROVE  \/ store'[uid'[n][m]] # None /\ store'[uid'[n][m]].of = m
             \/ <<uid'[n][m], m>> \in batch'[w]
  <2>1. uid'[n][m] = uid[n][m]
    BY <1>3, <1>4, <1>5, <1>7
  <2>2. PICK u \in Uids : u = uid[n][m]
    BY <1>1, <1>7, <2>1 DEF SInv, TInv, ServerOK, Uids
  <2>3. Stored(m, u) \/ <<u, m>> \in batch[w]
    BY <1>5, <1>7, <2>1, <2>2
  <2>4. CASE Stored(m, u)
    BY <1>1, <2>1, <2>2, <2>4
  <2>5. CASE <<u, m>> \in batch[w]
    BY <1>1, <2>1, <2>2, <2>5
  <2> QED BY <2>3, <2>4, <2>5
<1>8. mem'[w].name = n /\ mem'[w].state = s
  BY <1>1, <1>2
<1> QED BY <1>6, <1>7, <1>8 DEF FullOK, Stored

RInv == SInv /\ \A w \in Windows : FullOK(w)

LEMMA FullStep ==
  ASSUME RInv, [Next]_vars, NEW w \in Windows
  PROVE  FullOK(w)'
<1> USE DEF RInv, SInv
<1>0. SInv /\ TInv /\ FullOK(w)
  OBVIOUS
<1>1. CASE pc'[w] \notin {"select", "save", "store"}
  BY <1>1 DEF FullOK
<1>2. ASSUME pc[w] \in {"save", "store"}, pc'[w] # "select", mem'[w] = mem[w],
             batch[w] \subseteq batch'[w], ~StoreNext(w)
      PROVE  FullOK(w)'
  <2>1. CASE w \in clean' /\ mem[w].full
    <3>1. \A u \in Uids : /\ store'[u] = None <=> store[u] = None
                          /\ store[u] # None => store'[u].of = store[u].of
      BY <1>0, <1>2, <2>1, Undisturbed
    <3>2. \A u \in Uids, m \in Mail :
            /\ uid[mem[w].name][m] = u /\ Stored(m, u) => store'[u] # None /\ store'[u].of = m
            /\ <<u, m>> \in batch[w] =>
                 <<u, m>> \in batch'[w] \/ (store'[u] # None /\ store'[u].of = m)
      BY <1>2, <3>1 DEF Stored
    <3> QED BY <1>0, <1>2, <2>1, <3>2, FullFrame
  <2>2. CASE ~(w \in clean' /\ mem[w].full)
    BY <1>2, <2>2 DEF FullOK
  <2> QED BY <2>1, <2>2
<1>3. CASE Still(w)
  <2>1. CASE pc[w] \in {"save", "store"}
    <3>1. CASE StoreNext(w)
      <4>1. PICK item \in batch[w] : batch' = [batch EXCEPT ![w] = @ \ {item}]
        BY <3>1 DEF StoreNext
      <4>2. batch'[w] = batch[w] \ {item}
        BY <1>0, <4>1, Taken
      <4> QED BY <1>3, <4>2 DEF Still
    <3>2. CASE ~StoreNext(w)
      BY <1>2, <1>3, <2>1, <3>2 DEF Still
    <3> QED BY <3>1, <3>2
  <2>2. CASE pc[w] \notin {"save", "store"}
    BY <1>0, <1>3, <2>2 DEF FullOK, Still
  <2> QED BY <2>1, <2>2
<1>4. ASSUME NEW n \in Boxes, NEW full \in BOOLEAN, Load(w, n, full), pc'[w] = "select"
      PROVE  FullOK(w)'
  BY <1>0, <1>4, LoadEffect DEF FullOK
<1>5. CASE Fetch(w) /\ pc[w] = "select" /\ pc'[w] = "save"
  <2>1. PICK n \in Boxes : n = mem[w].name
    BY <1>0, <1>5, FetchEffect
  <2>2. PICK s \in State : s = mem'[w].state
    BY <1>0, <1>5, FetchEffect DEF Memory
  <2>3. /\ mem'[w].name = n /\ mem'[w].full = mem[w].full /\ s.validity = validity[n]
        /\ s.seen \in 0..MaxUid
        /\ s.seen = Start(w) \/ \E m \in Mail : uid[n][m] # 0 /\ uid[n][m] = s.seen
        /\ \A m \in Mail : uid[n][m] > Start(w) => <<uid[n][m], m>> \in batch'[w]
    BY <1>0, <1>5, <2>1, <2>2, FetchEffect
  <2>4. mem[w].full => Start(w) = 0
    BY <1>0, <1>5 DEF FullOK, Start
  <2>5. validity' = validity /\ uid' = uid /\ next' = next
    BY <1>5 DEF Fetch, server
  <2>6. next[n] > 0 /\ \A m \in Mail : uid[n][m] \in 0..MaxUid /\ uid[n][m] < next[n]
    <3>1. next[n] \in 1..(MaxUid + 1) /\ \A m \in Mail : uid[n][m] \in 0..MaxUid /\ uid[n][m] < next[n]
      BY <1>0 DEF TInv, ServerOK
    <3> QED BY <3>1, Bounds
  <2>7. mem[w].full => s.seen < next[n]
    BY <2>3, <2>4, <2>6
  <2>8. ASSUME mem[w].full, NEW m \in Mail, uid[n][m] # 0
        PROVE  <<uid[n][m], m>> \in batch'[w]
    <3>1. uid[n][m] > 0
      BY <2>6, <2>8, Bounds
    <3> QED BY <2>3, <2>4, <2>8, <3>1
  <2> QED BY <1>5, <2>2, <2>3, <2>5, <2>7, <2>8 DEF FullOK
<1>6. CASE /\ SaveState(w) \/ SaveStateFails(w)
           /\ pc[w] = "save" /\ pc'[w] = "store" /\ mem' = mem /\ batch' = batch
  <2>1. ~StoreNext(w)
    BY <1>6 DEF StoreNext
  <2> QED BY <1>2, <1>6, <2>1
<1>7. CASE StoreFails(w)
  <2>1. w \notin clean' /\ pc' = pc /\ pc[w] = "store"
    BY <1>7 DEF StoreFails
  <2> QED BY <2>1 DEF FullOK
<1>8. CASE StoreNext(w)
  <2>1. PICK item \in batch[w] :
          /\ batch' = [batch EXCEPT ![w] = @ \ {item}]
          /\ store' = [store EXCEPT ![item[1]] =
                         [of |-> item[2], body |-> ~HeadersOnly, label |-> FALSE]]
    BY <1>8 DEF StoreNext
  <2>2. pc[w] = "store" /\ pc' = pc /\ mem' = mem
    BY <1>8 DEF StoreNext
  <2>3. PICK v \in Uids, x \in Mail : item = <<v, x>>
    <3>1. item[1] \in Uids /\ item[2] \in Mail /\ item = <<item[1], item[2]>>
      BY <1>0, <2>1, Taken
    <3> QED BY <3>1
  <2>4. item[1] = v /\ item[2] = x
    BY <2>3
  <2> DEFINE r == [of |-> x, body |-> ~HeadersOnly, label |-> FALSE]
  <2>5. r \in Record /\ r.of = x
    BY <1>0, Typed DEF Record
  <2>6. r # None
    BY <2>5, Bounds
  <2>7. \A u \in Uids : store'[u] = IF u = v THEN r ELSE store[u]
    BY <1>0, <2>1, <2>4, Typed
  <2> HIDE DEF r
  <2>8. \A u \in Uids, m \in Mail :
          <<u, m>> \in batch[w] => <<u, m>> \in batch'[w] \/ (u = v /\ m = x)
    <3>1. batch'[w] = batch[w] \ {item}
      BY <1>0, <2>1, Taken
    <3> QED BY <2>3, <3>1
  <2>9. CASE w \in clean' /\ mem[w].full
    <3>1. w \in clean /\ validity[mem[w].name] = mem[w].state.validity
      BY <1>0, <2>2, <2>9, Undisturbed DEF FullOK
    <3>2. \A m \in Mail : uid[mem[w].name][m] = v => m = x
      BY <2>1, <2>2, <2>3, <3>1, <1>0 DEF BatchOK, SInv
    <3>3. \A u \in Uids, m \in Mail :
            /\ uid[mem[w].name][m] = u /\ Stored(m, u) => store'[u] # None /\ store'[u].of = m
            /\ <<u, m>> \in batch[w] =>
                 <<u, m>> \in batch'[w] \/ (store'[u] # None /\ store'[u].of = m)
      <4>1. store'[v] # None /\ store'[v].of = x /\ \A u \in Uids \ {v} : store'[u] = store[u]
        BY <2>3, <2>5, <2>6, <2>7
      <4>2. \A u \in Uids, m \in Mail :
              uid[mem[w].name][m] = u /\ Stored(m, u) => store'[u] # None /\ store'[u].of = m
        BY <3>2, <4>1 DEF Stored
      <4>3. \A u \in Uids, m \in Mail : <<u, m>> \in batch[w] =>
              <<u, m>> \in batch'[w] \/ (store'[u] # None /\ store'[u].of = m)
        BY <2>8, <4>1
      <4> QED BY <4>2, <4>3
    <3> QED BY <1>0, <2>2, <2>9, <3>3, FullFrame
  <2>10. CASE ~(w \in clean' /\ mem[w].full)
    BY <2>2, <2>10 DEF FullOK
  <2> QED BY <2>9, <2>10
<1>9. CASE \E u \in Uids : Reset(w, u) /\ pc'[w] = "fetch"
  BY <1>1, <1>9
<1>10. CASE \E n \in Boxes, full \in BOOLEAN : Load(w, n, full) /\ pc'[w] = "select"
  BY <1>4, <1>10
<1>11. CASE pc'[w] \in {"idle", "replay", "mailboxes"}
  BY <1>1, <1>11
<1> QED BY <1>0, <1>3, <1>5, <1>6, <1>7, <1>8, <1>9, <1>10, <1>11, Moves

(* When a resync that nothing disturbed has saved its batch, every message *)
(* of the mailbox up to the last seen UID has its record.                  *)
THEOREM ResyncsRepair == Spec => ResyncRepairs
<1>1. Init => RInv
  BY SeenInit DEF Init, RInv, FullOK
<1>2. RInv /\ [Next]_vars => RInv'
  BY SeenStep, FullStep DEF RInv
<1>3. ASSUME RInv, NEW w \in Windows, pc[w] = "store", batch[w] = {}, mem[w].full, w \in clean,
             NEW m \in Mail, uid[mem[w].name][m] # 0, uid[mem[w].name][m] <= mem[w].state.seen
      PROVE  Stored(m, uid[mem[w].name][m])
  BY <1>3 DEF RInv, FullOK
<1>4. RInv /\ [Next]_vars =>
        [\A w \in Windows :
           pc[w] = "store" /\ batch[w] = {} /\ mem[w].full /\ w \in clean =>
             \A m \in Mail :
               LET u == uid[mem[w].name][m]
               IN u # 0 /\ u <= mem[w].state.seen => Stored(m, u)]_vars
  BY <1>3
<1> QED BY <1>1, <1>2, <1>4, PTL DEF Spec, ResyncRepairs

-----------------------------------------------------------------------------
(* A label is kept *)

(* What a window fetched anew has UIDs no record has, but for the last of  *)
(* the mailbox; what it knows is below the largest last seen UID.          *)
NewOK(w) ==
  /\ pc[w] = "fetch" => job[w].u <= top
  /\ pc[w] = "store" => mem[w].state.seen <= top
  /\ pc[w] \in {"save", "store"} => \A u \in Uids, m \in Mail : <<u, m>> \in batch[w] =>
       /\ u <= mem[w].state.seen
       /\ \A x \in Mail : <<u, x>> \in batch[w] => m = x
  /\ w \in clean /\ pc[w] = "select" /\ ~mem[w].full /\ ~mem[w].low =>
       \A u \in Uids : u > mem[w].state.seen => store[u] = None
  /\ w \in clean /\ pc[w] \in {"save", "store"} =>
       \/ mem[w].full \/ mem[w].low \/ mem[w].again
       \/ \A u \in Uids, m \in Mail : <<u, m>> \in batch[w] =>
            store[u] = None \/ \A v \in Uids, x \in Mail : <<v, x>> \in batch[w] => v <= u

Known == \A u \in Uids : store[u] # None => u <= top

LInv == TInv /\ Known /\ \A w \in Windows : NewOK(w)

LEMMA TopStep ==
  ASSUME TInv, [Next]_vars
  PROVE  /\ top \in Nat /\ top' \in Nat /\ top <= top'
         /\ \A w \in Windows : SaveState(w) \/ SaveStateFails(w) => mem[w].state.seen <= top'
<1>0. top \in 0..MaxUid /\ top' \in 0..MaxUid
  BY DiskStep DEF TInv, DiskOK
<1>1. ASSUME NEW w \in Windows, SaveState(w) \/ SaveStateFails(w)
      PROVE  top <= top' /\ mem[w].state.seen <= top'
  BY <1>1, TopType DEF SaveState, SaveStateFails
<1>2. CASE Crash
  <2> DEFINE tops == {top} \cup {Top(w) : w \in {v \in Windows : pc[v] = "save"}}
  <2>1. tops \in SUBSET (0..MaxUid) /\ top \in tops
    BY <1>0, TopType
  <2>2. top' = Max(tops)
    BY <1>2 DEF Crash
  <2> HIDE DEF tops
  <2>3. top <= top'
    BY <2>1, <2>2, MaxOf
  <2> QED BY <1>0, <1>1, <2>3, Bounds
<1>3. CASE top' = top
  BY <1>0, <1>1, <1>3, Bounds
<1>4. ASSUME NEW w \in Windows, Window(w)
      PROVE  top' = top \/ SaveState(w) \/ SaveStateFails(w)
  <2>1. ASSUME \/ StartCheck(w) \/ Refetch(w) \/ RefetchFails(w) \/ Fetch(w)
               \/ StoreNext(w) \/ StoreFails(w) \/ EndSync(w) \/ EndCheck(w)
        PROVE  top' = top
    BY <2>1 DEF StartCheck, Refetch, RefetchFails, Fetch, StoreNext, StoreFails, EndSync, EndCheck,
                history
  <2>2. ASSUME NEW u \in Uids, Reset(w, u) \/ ResetFails(w, u)
        PROVE  top' = top
    BY <2>2 DEF Reset, ResetFails, history
  <2>3. ASSUME NEW n \in Boxes, NEW full \in BOOLEAN, Load(w, n, full)
        PROVE  top' = top
    BY <2>3 DEF Load
  <2> QED BY <1>4, <2>1, <2>2, <2>3 DEF Window
<1>5. ASSUME NEW u \in Uids, Label(u) \/ Erase(u) \/ QueueRedownload(u) \/ CancelRedownload(u)
      PROVE  top' = top
  BY <1>5 DEF Label, Erase, QueueRedownload, CancelRedownload, history
<1>6. ASSUME NEW n \in Boxes, NEW m \in Mail, Deliver(n, m) \/ Expunge(n, m)
      PROVE  top' = top
  BY <1>6 DEF Deliver, Expunge, history
<1>7. ASSUME NEW n \in Boxes, NEW v \in Validities, NEW order \in [Mail -> 0..Cardinality(Mail)],
              Renumber(n, v, order)
      PROVE  top' = top
  BY <1>7 DEF Renumber
<1>8. CASE UNCHANGED vars
  BY <1>3, <1>8 DEF vars, history
<1>9. top <= top'
  BY <1>1, <1>2, <1>3, <1>4, <1>5, <1>6, <1>7, <1>8 DEF Next
<1> QED BY <1>0, <1>1, <1>9, Bounds

(* The records a step may put in or change: one that a window stores, one  *)
(* it fetches again, or one that had to be there.                          *)
LEMMA StoreSteps ==
  ASSUME TInv, [Next]_vars, NEW u \in Uids, store'[u] # None
  PROVE  \/ store[u] # None /\ (store[u].label => store'[u].label)
         \/ \E w \in Windows : /\ pc[w] = "fetch" /\ job[w].u = u
         \/ \E w \in Windows, m \in Mail :
              /\ pc[w] = "store" /\ <<u, m>> \in batch[w] /\ batch'[w] # batch[w]
<1>0. /\ store \in [Uids -> Record \cup {None}]
      /\ batch \in [Windows -> SUBSET (Uids \X Mail)]
      /\ \A w \in Windows : pc[w] = "fetch" => job[w] \in Job /\ job[w].u \in Uids
  BY Typed
<1>1. CASE store' = store
  BY <1>1
<1>2. ASSUME NEW w \in Windows, NEW v \in Uids, Reset(w, v) \/ ResetFails(w, v)
      PROVE  store[u] # None /\ (store[u].label => store'[u].label)
  <2>1. store' = store \/ (store[v] # None /\ store' = [store EXCEPT ![v].body = FALSE])
    BY <1>2 DEF Reset, ResetFails
  <2>2. CASE store[v] # None /\ store' = [store EXCEPT ![v].body = FALSE] /\ u = v
    <3>1. [store[v] EXCEPT !.body = FALSE].label = store[v].label
      BY <1>0, <2>2 DEF Record
    <3>2. store'[u] = [store[v] EXCEPT !.body = FALSE]
      BY <1>0, <2>2
    <3> QED BY <2>2, <3>1, <3>2
  <2>3. CASE store[v] # None /\ store' = [store EXCEPT ![v].body = FALSE] /\ u # v
    BY <1>0, <2>3
  <2> QED BY <2>1, <2>2, <2>3
<1>3. ASSUME NEW w \in Windows, Refetch(w)
      PROVE  store'[u] = store[u] \/ (pc[w] = "fetch" /\ job[w].u = u)
  BY <1>0, <1>3 DEF Refetch
<1>4. ASSUME NEW w \in Windows, StoreNext(w)
      PROVE  \/ store'[u] = store[u]
             \/ \E m \in Mail : pc[w] = "store" /\ <<u, m>> \in batch[w] /\ batch'[w] # batch[w]
  <2>1. PICK item \in batch[w] :
          /\ pc[w] = "store"
          /\ batch' = [batch EXCEPT ![w] = @ \ {item}]
          /\ store' = [store EXCEPT ![item[1]] =
                         [of |-> item[2], body |-> ~HeadersOnly, label |-> FALSE]]
    BY <1>4 DEF StoreNext
  <2>2. item[1] \in Uids /\ item[2] \in Mail /\ item = <<item[1], item[2]>>
        /\ batch'[w] = batch[w] \ {item}
    BY <2>1, Taken
  <2>3. CASE u = item[1]
    <3>1. <<u, item[2]>> \in batch[w]
      BY <2>2, <2>3
    <3> QED BY <2>1, <2>2, <3>1
  <2>4. CASE u # item[1]
    BY <1>0, <2>1, <2>2, <2>4
  <2> QED BY <2>3, <2>4
<1>5. ASSUME NEW v \in Uids, Label(v)
      PROVE  store[u] # None /\ (store[u].label => store'[u].label)
  <2>1. store' = [store EXCEPT ![v].label = TRUE] /\ store[v] \in Record /\ store[v] # None
    BY <1>0, <1>5 DEF Label
  <2>2. [store[v] EXCEPT !.label = TRUE].label = TRUE
    BY <2>1 DEF Record
  <2>3. store'[u] = IF u = v THEN [store[v] EXCEPT !.label = TRUE] ELSE store[u]
    BY <1>0, <2>1
  <2> QED BY <2>1, <2>2, <2>3
<1>6. ASSUME NEW v \in Uids, Erase(v)
      PROVE  store'[u] = store[u]
  <2>1. store' = [store EXCEPT ![v] = None]
    BY <1>6 DEF Erase
  <2> QED BY <1>0, <2>1
<1>7. ASSUME NEW v \in Uids, QueueRedownload(v) \/ CancelRedownload(v)
      PROVE  store' = store
  BY <1>7 DEF QueueRedownload, CancelRedownload
<1>8. ASSUME NEW w \in Windows,
              \/ StartCheck(w) \/ RefetchFails(w) \/ Fetch(w) \/ SaveState(w) \/ SaveStateFails(w)
              \/ StoreFails(w) \/ EndSync(w) \/ EndCheck(w)
      PROVE  store' = store
  BY <1>8 DEF StartCheck, RefetchFails, Fetch, SaveState, SaveStateFails, StoreFails, EndSync, EndCheck
<1>9. ASSUME NEW w \in Windows, NEW n \in Boxes, NEW full \in BOOLEAN, Load(w, n, full)
      PROVE  store' = store
  BY <1>9 DEF Load
<1>10. ASSUME Crash
       PROVE  store' = store
  BY <1>10 DEF Crash
<1>11. ASSUME NEW n \in Boxes, NEW m \in Mail, Deliver(n, m) \/ Expunge(n, m)
       PROVE  store' = store
  BY <1>11 DEF Deliver, Expunge
<1>12. ASSUME NEW n \in Boxes, NEW v \in Validities, NEW order \in [Mail -> 0..Cardinality(Mail)],
              Renumber(n, v, order)
       PROVE  store' = store
  BY <1>12 DEF Renumber
<1>13. CASE UNCHANGED vars
  BY <1>1, <1>13 DEF vars
<1>14. CASE \E w \in Windows : Window(w)
  BY <1>1, <1>2, <1>3, <1>4, <1>8, <1>9, <1>14 DEF Window
<1> QED BY <1>1, <1>5, <1>6, <1>7, <1>10, <1>11, <1>12, <1>13, <1>14 DEF Next

LEMMA KnownStep ==
  ASSUME LInv, [Next]_vars
  PROVE  Known'
<1>0. TInv /\ top \in Nat /\ top' \in Nat /\ top <= top' /\ \A u \in Uids : u \in Nat
  BY TopStep, Bounds DEF LInv
<1>1. ASSUME NEW u \in Uids, store'[u] # None
      PROVE  u <= top'
  <2>1. CASE store[u] # None
    BY <1>0, <2>1 DEF LInv, Known
  <2>2. CASE \E w \in Windows : pc[w] = "fetch" /\ job[w].u = u
    BY <1>0, <2>2 DEF LInv, NewOK
  <2>3. ASSUME NEW w \in Windows, NEW m \in Mail, pc[w] = "store", <<u, m>> \in batch[w]
        PROVE  u <= top'
    <3>1. u <= mem[w].state.seen /\ mem[w].state.seen <= top
      BY <2>3 DEF LInv, NewOK
    <3>2. mem[w].state.seen \in Nat
      BY <1>0, <2>3, Typed, Bounds DEF State
    <3> QED BY <1>0, <3>1, <3>2
  <2> QED BY <1>0, <1>1, <2>1, <2>2, <2>3, StoreSteps
<1> QED BY <1>1 DEF Known

(* A batch that has lost items at most, in a window that has not moved on. *)
LEMMA NewFrame ==
  ASSUME TInv, NEW w \in Windows, NewOK(w), [Next]_vars, pc[w] \in {"save", "store"},
         pc'[w] \in {"save", "store"}, mem'[w] = mem[w], batch'[w] \subseteq batch[w],
         pc'[w] = "store" => mem[w].state.seen <= top',
         w \in clean' => \A u \in Uids, m \in Mail : <<u, m>> \in batch'[w] =>
                           w \in clean /\ (store[u] = None => store'[u] = None)
  PROVE  NewOK(w)'
<1>1. \A u \in Uids, m \in Mail : <<u, m>> \in batch'[w] =>
        /\ u <= mem[w].state.seen
        /\ \A x \in Mail : <<u, x>> \in batch'[w] => m = x
  BY DEF NewOK
<1>2. w \in clean' =>
       \/ mem[w].full \/ mem[w].low \/ mem[w].again
       \/ \A u \in Uids, m \in Mail : <<u, m>> \in batch'[w] =>
            store'[u] = None \/ \A v \in Uids, x \in Mail : <<v, x>> \in batch'[w] => v <= u
  BY DEF NewOK
<1> QED BY <1>1, <1>2 DEF NewOK

LEMMA NewStep ==
  ASSUME LInv, [Next]_vars, NEW w \in Windows
  PROVE  NewOK(w)'
<1>0. /\ TInv /\ NewOK(w) /\ Known
      /\ top \in Nat /\ top' \in Nat /\ top <= top' /\ \A u \in Uids : u \in Nat
      /\ \A v \in 0..MaxUid : v \in Nat
  BY TopStep, Bounds DEF LInv
<1>1. CASE pc'[w] \notin {"fetch", "select", "save", "store"}
  BY <1>1 DEF NewOK
<1>2. CASE Still(w)
  <2>1. CASE pc[w] \in {"save", "store"}
    <3>1. pc[w] = "store" => mem[w].state.seen <= top'
      <4>1. mem[w].state.seen \in Nat
        BY <1>0, <2>1, Typed DEF State
      <4> QED BY <1>0, <4>1 DEF NewOK
    <3>2. ~StoreNext(w)
      <4>1. ASSUME StoreNext(w)
            PROVE  FALSE
        <5>1. PICK item \in batch[w] : batch' = [batch EXCEPT ![w] = @ \ {item}]
          BY <4>1 DEF StoreNext
        <5>2. batch'[w] = batch[w] \ {item}
          BY <1>0, <5>1, Taken
        <5> QED BY <1>2, <5>2 DEF Still
      <4> QED BY <4>1
    <3>3. w \in clean' => w \in clean /\ \A u \in Uids : store[u] = None => store'[u] = None
      BY <1>0, <2>1, <3>2, Undisturbed
    <3> QED BY <1>0, <1>2, <2>1, <3>1, <3>3, NewFrame DEF Still
  <2>2. CASE pc[w] = "fetch"
    <3>1. job[w].u \in Uids
      BY <1>0, <2>2, Typed
    <3> QED BY <1>0, <1>2, <2>2, <3>1 DEF NewOK, Still
  <2>3. CASE pc[w] = "select"
    <3>1. ~StoreNext(w)
      BY <2>3 DEF StoreNext
    <3>2. w \in clean' => w \in clean /\ \A u \in Uids : store[u] = None => store'[u] = None
      BY <1>0, <2>3, <3>1, Undisturbed
    <3> QED BY <1>0, <1>2, <2>3, <3>2 DEF NewOK, Still
  <2> QED BY <1>1, <1>2, <2>1, <2>2, <2>3 DEF Still
<1>3. ASSUME NEW u \in Uids, Reset(w, u), pc'[w] = "fetch"
      PROVE  NewOK(w)'
  <2>1. CASE store[u] # None /\ job' = [job EXCEPT ![w] = [u |-> u, old |-> store[u]]]
    <3>1. job'[w].u = u /\ u <= top
      BY <1>0, <2>1, Typed DEF Known
    <3> QED BY <1>0, <1>3, <3>1 DEF NewOK
  <2>2. CASE UNCHANGED pc
    BY <1>3, <2>2 DEF Reset
  <2> QED BY <1>3, <2>1, <2>2 DEF Reset
<1>4. ASSUME NEW n \in Boxes, NEW full \in BOOLEAN, Load(w, n, full), pc'[w] = "select"
      PROVE  NewOK(w)'
  <2>1. /\ mem'[w].full = full /\ mem'[w].low = (Read(file.seen) < top)
        /\ mem'[w].state.seen = IF full THEN 0 ELSE Read(file.seen)
        /\ Read(file.seen) \in {file.seen, 0}
    BY <1>0, <1>4, LoadEffect
  <2>2. Read(file.seen) \in Nat
    BY <1>0, <2>1, Typed DEF State
  <2>3. store' = store
    BY <1>4 DEF Load
  <2>4. ~mem'[w].full /\ ~mem'[w].low =>
          \A u \in Uids : u > mem'[w].state.seen => store'[u] = None
    <3>1. ASSUME ~mem'[w].full, ~mem'[w].low, NEW u \in Uids, u > mem'[w].state.seen
          PROVE  store'[u] = None
      <4>1. ~full /\ ~(Read(file.seen) < top)
        BY <2>1, <3>1, Zenon
      <4>2. mem'[w].state.seen = Read(file.seen)
        BY <2>1, <4>1
      <4>3. ~(u <= top)
        BY <1>0, <2>2, <3>1, <4>1, <4>2
      <4> QED BY <1>0, <2>3, <4>3 DEF Known
    <3> QED BY <3>1
  <2> QED BY <1>4, <2>4 DEF NewOK
<1>5. CASE Fetch(w) /\ pc[w] = "select" /\ pc'[w] = "save"
  <2>1. PICK n \in Boxes : n = mem[w].name
    BY <1>0, <1>5, FetchEffect
  <2>2. /\ mem'[w].full = mem[w].full /\ mem'[w].low = mem[w].low /\ mem'[w].again = Again(w)
        /\ Start(w) \in 0..MaxUid
        /\ \A u \in Uids, m \in Mail : <<u, m>> \in batch'[w] =>
                 /\ uid[n][m] = u /\ u <= mem'[w].state.seen
                 /\ u > Start(w) \/ \A x \in Mail : uid[n][x] <= u
    <3>1. TInv /\ Fetch(w)
      BY <1>0, <1>5
    <3>2. /\ mem'[w].full = mem[w].full /\ mem'[w].low = mem[w].low /\ mem'[w].again = Again(w)
          /\ Start(w) \in 0..MaxUid
      BY <3>1, FetchEffect
    <3>3. \A u \in Uids, m \in Mail : <<u, m>> \in batch'[w] =>
            /\ uid[n][m] = u /\ u <= mem'[w].state.seen
            /\ u > Start(w) \/ \A x \in Mail : uid[n][x] <= u
      BY <2>1, <3>1, FetchEffect
    <3> QED BY <3>2, <3>3
  <2>3. \A u \in Uids, m, x \in Mail : <<u, m>> \in batch'[w] /\ <<u, x>> \in batch'[w] => m = x
    <3>1. \A u \in Uids : u # 0
      BY DEF Uids
    <3> QED BY <1>0, <2>2, <3>1 DEF TInv, ServerOK
  <2>4. store' = store
    BY <1>5 DEF Fetch
  <2>5. ASSUME w \in clean', ~mem[w].full, ~mem[w].low, ~Again(w),
               NEW u \in Uids, NEW m \in Mail, <<u, m>> \in batch'[w], store'[u] # None,
               NEW v \in Uids, NEW x \in Mail, <<v, x>> \in batch'[w]
        PROVE  v <= u
    <3>1. w \in clean /\ Start(w) = mem[w].state.seen
      BY <1>5, <2>5 DEF Fetch, Start, history
    <3>2. ~(u > Start(w))
      BY <1>0, <1>5, <2>4, <2>5, <3>1 DEF NewOK
    <3>3. uid[n][x] <= u /\ uid[n][x] = v
      BY <2>2, <2>5, <3>2
    <3> QED BY <3>3
  <2>6. w \in clean' =>
          \/ mem'[w].full \/ mem'[w].low \/ mem'[w].again
          \/ \A u \in Uids, m \in Mail : <<u, m>> \in batch'[w] =>
               store'[u] = None \/ \A v \in Uids, x \in Mail : <<v, x>> \in batch'[w] => v <= u
    BY <2>2, <2>5
  <2> QED BY <1>5, <2>2, <2>3, <2>6 DEF NewOK
<1>6. CASE /\ SaveState(w) \/ SaveStateFails(w)
           /\ pc[w] = "save" /\ pc'[w] = "store" /\ mem' = mem /\ batch' = batch
  <2>1. mem[w].state.seen <= top'
    BY <1>0, <1>6, TopStep
  <2>2. w \in clean' => w \in clean /\ store' = store
    BY <1>6 DEF SaveState, SaveStateFails
  <2> QED BY <1>0, <1>6, <2>1, <2>2, NewFrame
<1>7. CASE (StoreNext(w) \/ StoreFails(w)) /\ pc[w] = "store" /\ pc' = pc /\ mem' = mem
  <2>1. PICK item \in batch[w] :
          /\ batch' = [batch EXCEPT ![w] = @ \ {item}]
          /\ \A u \in Uids : u # item[1] => store'[u] = store[u]
    <3>1. store \in [Uids -> Record \cup {None}]
      BY <1>0, Typed
    <3> QED BY <1>7, <3>1 DEF StoreNext, StoreFails
  <2>2. item[1] \in Uids /\ item[2] \in Mail /\ item = <<item[1], item[2]>>
    BY <1>0, <2>1, Taken
  <2>3. batch'[w] = batch[w] \ {item}
    BY <1>0, <2>1, Taken
  <2>4. mem[w].state.seen <= top'
    <3>1. mem[w].state.seen \in Nat
      BY <1>0, <1>7, Typed DEF State
    <3> QED BY <1>0, <1>7, <3>1 DEF NewOK
  <2>5. ASSUME NEW u \in Uids, NEW m \in Mail, <<u, m>> \in batch'[w]
        PROVE  store'[u] = store[u]
    <3>1. <<u, m>> \in batch[w] /\ <<u, m>> # item
      BY <2>3, <2>5
    <3>2. CASE u = item[1]
      <4>1. <<u, item[2]>> \in batch[w]
        BY <2>2, <3>2
      <4>2. m = item[2]
        BY <1>0, <1>7, <2>2, <3>1, <4>1 DEF NewOK
      <4> QED BY <2>2, <3>1, <3>2, <4>2
    <3> QED BY <2>1, <3>2
  <2>6. w \in clean' => w \in clean
    BY <1>7 DEF StoreNext, StoreFails
  <2> QED BY <1>0, <1>7, <2>3, <2>4, <2>5, <2>6, NewFrame
<1>8. CASE \E u \in Uids : Reset(w, u) /\ pc'[w] = "fetch"
  BY <1>3, <1>8
<1>9. CASE \E n \in Boxes, full \in BOOLEAN : Load(w, n, full) /\ pc'[w] = "select"
  BY <1>4, <1>9
<1>10. CASE pc'[w] \in {"idle", "replay", "mailboxes"}
  BY <1>1, <1>10
<1> QED BY <1>0, <1>2, <1>5, <1>6, <1>7, <1>8, <1>9, <1>10, Moves

(* Only the steps that LabelKept names take a label off a record. *)
THEOREM LabelsKept == Spec => LabelKept
<1>1. Init => LInv
  BY TypeInit DEF Init, LInv, Known, NewOK
<1>2. LInv /\ [Next]_vars => LInv'
  BY TypeStep, KnownStep, NewStep DEF LInv
<1>3. ASSUME LInv, Next, NEW u \in Uids,
             store[u] # None, store[u].label, store'[u] # None, ~store'[u].label
      PROVE  \E w \in Windows :
               \/ pc[w] = "fetch" /\ job[w].u = u
               \/ /\ pc[w] = "store" /\ batch'[w] # batch[w]
                  /\ \/ mem[w].full \/ mem[w].again \/ mem[w].low \/ w \notin clean
                     \/ \A item \in batch[w] : item[1] <= u
  <2>1. ASSUME NEW w \in Windows, NEW m \in Mail, pc[w] = "store", <<u, m>> \in batch[w]
        PROVE  \/ mem[w].full \/ mem[w].again \/ mem[w].low \/ w \notin clean
               \/ \A item \in batch[w] : item[1] <= u
    <3>1. ASSUME ~mem[w].full, ~mem[w].again, ~mem[w].low, w \in clean, NEW item \in batch[w]
          PROVE  item[1] <= u
      <4>1. item \in Uids \X Mail
        BY <1>3, <3>1, Typed DEF LInv
      <4>2. item[1] \in Uids /\ item[2] \in Mail /\ <<item[1], item[2]>> \in batch[w]
        BY <4>1
      <4> QED BY <1>3, <2>1, <3>1, <4>2 DEF LInv, NewOK
    <3> QED BY <3>1
  <2> QED BY <1>3, <2>1, StoreSteps DEF LInv
<1>4. LInv /\ [Next]_vars =>
        [\A u \in Uids :
           store[u] # None /\ store[u].label /\ store'[u] # None /\ ~store'[u].label =>
             \E w \in Windows :
               \/ pc[w] = "fetch" /\ job[w].u = u
               \/ /\ pc[w] = "store" /\ batch'[w] # batch[w]
                  /\ \/ mem[w].full \/ mem[w].again \/ mem[w].low \/ w \notin clean
                     \/ \A item \in batch[w] : item[1] <= u]_vars
  BY <1>3
<1> QED BY <1>1, <1>2, <1>4, PTL DEF Spec, LabelKept
=============================================================================
