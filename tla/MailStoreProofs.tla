-------------------------- MODULE MailStoreProofs --------------------------
(* What MailStore keeps: for every number of windows, the types; for one    *)
(* window and ids that stand for no number, however many messages, calls    *)
(* and crashes there are, that a saved message is listed and that the       *)
(* unique ids of a listing tell its messages apart.                         *)
EXTENDS MailStore, Extrema

OneWindow == \A s, t \in Threads : s = t

NamedIds == \A k \in Keys : NumericId[k] = 0

Rebuilt == Rebuild(mbx)

Lists(sums, k, v) == \E e \in Range(sums) : e.key = k /\ e.ver = v

(* Entries with one unique id have one message id. *)
Apart(entries) == \A d, e \in entries : d.uid = e.uid => d.key = e.key

(* A TOC that may stand beside the file: its entries and those a rebuild    *)
(* would list are told apart, and new numbers are above all of them.        *)
Coherent(listed, table) ==
  /\ Apart(Range(listed.sums) \cup Range(table.sums))
  /\ \A e \in Range(table.sums) : e.uid <= table.next
  /\ listed.next <= table.next

(* The versions whose saves have returned are listed, except of one id and  *)
(* except those appended to a cut line.                                     *)
Held(sums, but, returned, cut) ==
  \A k \in Keys \ {but} : returned[k] \in {None} \cup cut \/ Lists(sums, k, returned[k])

(* No entry with the unique id of e is of another message. *)
Named(e, entries) == \A d \in entries : d.uid = e.uid => d.key = e.key

(* The files between calls. *)
FInv ==
  /\ Apart(Range(Rebuilt.sums)) /\ Held(Rebuilt.sums, None, acked, shadowed)
  /\ Fresh => Coherent(Rebuilt, toc) /\ Held(toc.sums, None, acked, shadowed)

(* The call of a window. *)
CInv(t) ==
  /\ pc[t] \in {"load-open", "load-write", "look-open", "look-write"} => rebuilt[t] = Rebuilt
  /\ pc[t] \in {"look-open", "look-write"} => op[t].kind = "list"
  /\ pc[t] = "look" /\ op[t].kind # "list" => Fresh /\ mine[t] = toc
  /\ pc[t] = "rename" => Fresh /\ mine[t] = toc /\ rebuilt[t].sums = mine[t].sums
  /\ pc[t] = "append" =>
       /\ Fresh /\ Coherent(Rebuilt, mine[t]) /\ Held(mine[t].sums, op[t].key, acked, shadowed)
       /\ found[t] # None =>
            /\ found[t].key = op[t].key
            /\ Named(found[t], Range(Rebuilt.sums) \cup Range(mine[t].sums))
  /\ pc[t] \in {"open", "write"} =>
       /\ Coherent(Rebuilt, mine[t]) /\ Held(mine[t].sums, op[t].key, acked, shadowed)
       /\ op[t].kind = "save" =>
            /\ Lists(mine[t].sums, op[t].key, op[t].ver)
            /\ op[t].ver \in shadowed \/ Lists(Rebuilt.sums, op[t].key, op[t].ver)
  /\ pc[t] = "write" => mine[t].of = mbx /\ toc = None

SInv == FInv /\ \A t \in Threads : CInv(t)

-----------------------------------------------------------------------------
(* What a rebuild lists *)

(* The tables RebuildTocFromMbx goes through, one for each prefix.          *)
IsTable(g, file) ==
  g = [i \in 0..Len(file) |->
         IF i = 0 THEN [EmptyToc EXCEPT !.of = file] ELSE AddScanned(g[i - 1], file, i)]

TableOf(file) == CHOOSE g : IsTable(g, file)

LEMMA RebuildIs == ASSUME NEW file PROVE Rebuild(file) = TableOf(file)[Len(file)]
BY DEF Rebuild, TableOf, IsTable

LEMMA TableIs ==
  ASSUME NEW file \in Seq(Stored)
  PROVE  IsTable(TableOf(file), file)
<1> DEFINE Filled(h, i) == IF i = 0 THEN [EmptyToc EXCEPT !.of = file]
                           ELSE AddScanned(h[i - 1], file, i)
           G(g, n) == g = [i \in 0..n |-> Filled(g, i)]
           S == {n \in Nat : \E g : G(g, n)}
<1>1. Len(file) \in Nat
  OBVIOUS
<1>2. \A g, h : \A i \in Nat : (i > 0 => g[i - 1] = h[i - 1]) => Filled(g, i) = Filled(h, i)
  OBVIOUS
<1>3. 0 \in S
  <2> DEFINE g == [i \in 0..0 |-> [EmptyToc EXCEPT !.of = file]]
  <2>1. G(g, 0)
    OBVIOUS
  <2> QED BY <2>1
<1>4. ASSUME NEW n \in 0..(Len(file) - 1), n \in S
      PROVE  n + 1 \in S
  <2>1. PICK h : G(h, n)
    BY <1>4
  <2> DEFINE g == [i \in 0..(n + 1) |-> Filled(h, i)]
  <2> HIDE DEF Filled
  <2>2. n \in Nat
    OBVIOUS
  <2>3. \A i \in 0..n : g[i] = h[i]
    BY <2>1, <2>2
  <2>4. \A i \in 0..(n + 1) : i > 0 => g[i - 1] = h[i - 1]
    <3> SUFFICES ASSUME NEW i \in 0..(n + 1), i > 0 PROVE g[i - 1] = h[i - 1]
      OBVIOUS
    <3>1. i - 1 \in 0..n
      BY <2>2
    <3> HIDE DEF g
    <3> QED BY <2>3, <3>1
  <2>5. n + 1 \in Nat
    BY <2>2
  <2>6. \A i \in 0..(n + 1) : g[i] = Filled(g, i)
    <3> HIDE DEF g
    <3>1. \A i \in 0..(n + 1) : Filled(g, i) = Filled(h, i)
      BY <1>2, <2>4, <2>5
    <3> QED BY <3>1 DEF g
  <2>7. g = [i \in 0..(n + 1) |-> g[i]]
    OBVIOUS
  <2>8. G(g, n + 1)
    <3> HIDE DEF g
    <3> QED BY <2>6, <2>7
  <2> QED BY <2>5, <2>8
<1> HIDE DEF S
<1>5. Len(file) \in S
  <2>1. \A i \in 0..(Len(file) - 1) : i \in S => i + 1 \in S
    BY <1>4
  <2>2. \A i \in 0..Len(file) : i \in S
    BY <1>1, <1>3, <2>1, UpTo
  <2> QED BY <1>1, <2>2
<1>6. \E g : G(g, Len(file))
  BY <1>5 DEF S
<1>7. \E g : IsTable(g, file)
  BY <1>6 DEF IsTable
<1> QED BY <1>7 DEF TableOf

LEMMA TableSteps ==
  ASSUME NEW file \in Seq(Stored)
  PROVE  /\ TableOf(file)[0] = [EmptyToc EXCEPT !.of = file]
         /\ \A i \in 1..Len(file) :
              /\ Scanned(file, i) => TableOf(file)[i] = AddEntry(TableOf(file)[i - 1], Parsed(file)[i])
              /\ ~Scanned(file, i) => TableOf(file)[i] = TableOf(file)[i - 1]
<1> DEFINE g == TableOf(file)
<1>1. IsTable(g, file)
  BY TableIs
<1>2. Len(file) \in Nat
  OBVIOUS
<1> HIDE DEF g
<1>3. g[0] = [EmptyToc EXCEPT !.of = file]
  BY <1>1, <1>2 DEF IsTable
<1>4. \A i \in 1..Len(file) :
        /\ Scanned(file, i) => g[i] = AddEntry(g[i - 1], Parsed(file)[i])
        /\ ~Scanned(file, i) => g[i] = g[i - 1]
  BY <1>1, <1>2 DEF IsTable, AddScanned
<1> QED BY <1>3, <1>4 DEF g

(* The record whose headers count for record i: the first from i on that    *)
(* does not run on.                                                         *)
LEMMA ParsedAt ==
  ASSUME NEW file \in Seq(Stored), NEW i \in 1..Len(file)
  PROVE  \E m \in i..Len(file) :
           /\ ~RunsOn(file, m) /\ \A j \in i..(m - 1) : RunsOn(file, j)
           /\ Parsed(file)[i] = file[m]
<1> DEFINE Ends == {j \in i..Len(file) : ~RunsOn(file, j)}
<1>1. Len(file) \in Nat /\ i \in Nat /\ i <= Len(file)
  OBVIOUS
<1>2. Len(file) \in Ends /\ Ends \in SUBSET Nat
  BY <1>1 DEF RunsOn
<1>3. PICK m \in Ends : \A j \in Ends : m <= j
  BY <1>2, LeastExists
<1>4. Min(Ends) \in Ends /\ \A j \in Ends : Min(Ends) <= j
  BY <1>3 DEF Min
<1>5. Min(Ends) = m
  <2> HIDE DEF Ends
  <2>1. Min(Ends) <= m /\ m <= Min(Ends)
    BY <1>3, <1>4
  <2>2. m \in Nat /\ Min(Ends) \in Nat
    BY <1>2, <1>3, <1>4
  <2> QED BY <2>1, <2>2
<1>6. Parsed(file)[i] = file[m]
  BY <1>5 DEF Parsed
<1>7. \A j \in i..(m - 1) : RunsOn(file, j)
  <2> SUFFICES ASSUME NEW j \in i..(m - 1), ~RunsOn(file, j) PROVE FALSE
    OBVIOUS
  <2>1. j \in Ends
    BY <1>1, <1>3
  <2> QED BY <1>1, <1>3, <2>1
<1> QED BY <1>3, <1>6, <1>7

(* ... and there is one only. *)
LEMMA ParsedIs ==
  ASSUME NEW file \in Seq(Stored), NEW i \in 1..Len(file), NEW m \in i..Len(file),
         ~RunsOn(file, m), \A j \in i..(m - 1) : RunsOn(file, j)
  PROVE  Parsed(file)[i] = file[m]
<1>1. PICK n \in i..Len(file) : /\ ~RunsOn(file, n) /\ \A j \in i..(n - 1) : RunsOn(file, j)
                                /\ Parsed(file)[i] = file[n]
  BY ParsedAt
<1>2. i \in Nat /\ m \in Nat /\ n \in Nat /\ i <= m /\ i <= n
  BY <1>1
<1>3. ~(m < n)
  <2> SUFFICES ASSUME m < n PROVE FALSE
    OBVIOUS
  <2>1. m \in i..(n - 1)
    BY <1>2
  <2> QED BY <1>1, <2>1
<1>4. ~(n < m)
  <2> SUFFICES ASSUME n < m PROVE FALSE
    OBVIOUS
  <2>1. n \in i..(m - 1)
    BY <1>2
  <2> QED BY <1>1, <2>1
<1> QED BY <1>1, <1>2, <1>3, <1>4

LEMMA StoredTyped ==
  ASSUME NEW file \in Seq(Stored), NEW i \in 1..Len(file)
  PROVE  file[i] \in Stored /\ Parsed(file)[i] \in Stored
<1>1. \A j \in 1..Len(file) : file[j] \in Stored
  OBVIOUS
<1>2. PICK m \in i..Len(file) : Parsed(file)[i] = file[m]
  BY ParsedAt
<1>3. m \in 1..Len(file)
  OBVIOUS
<1> QED BY <1>1, <1>2, <1>3

(* The entry a record gets. *)
Entered(next, r) ==
  [key |-> r.key, ver |-> r.ver, uid |-> IF r.uid = 0 THEN next + 1 ELSE r.uid]

LEMMA AddEntryIs ==
  ASSUME NEW table \in Table, NEW r \in Stored
  PROVE  /\ AddEntry(table, r) \in Table
         /\ Entered(table.next, r) \in Entry
         /\ AddEntry(table, r).sums = Append(table.sums, Entered(table.next, r))
         /\ AddEntry(table, r).of = table.of
         /\ AddEntry(table, r).next = IF Entered(table.next, r).uid > table.next
                                      THEN Entered(table.next, r).uid ELSE table.next
         /\ Range(AddEntry(table, r).sums) = Range(table.sums) \cup {Entered(table.next, r)}
<1> DEFINE e == Entered(table.next, r)
<1>1. /\ table.sums \in Seq(Entry) /\ table.of \in Seq(Stored) /\ table.next \in Nat
      /\ table = [sums |-> table.sums, of |-> table.of, next |-> table.next]
  BY DEF Table
<1>2. r.key \in Keys \cup {None} /\ r.ver \in 0..MaxSaves /\ r.uid \in Nat
  BY DEF Stored
<1>3. e \in Entry
  BY <1>1, <1>2 DEF Entered, Entry
<1>4. AddEntry(table, r) = [table EXCEPT !.sums = Append(@, e), !.next = IF e.uid > @ THEN e.uid ELSE @]
  BY DEF AddEntry, Entered
<1> HIDE DEF e
<1>5. /\ AddEntry(table, r).sums = Append(table.sums, e)
      /\ AddEntry(table, r).of = table.of
      /\ AddEntry(table, r).next = IF e.uid > table.next THEN e.uid ELSE table.next
      /\ AddEntry(table, r) = [sums |-> Append(table.sums, e), of |-> table.of,
                               next |-> IF e.uid > table.next THEN e.uid ELSE table.next]
  BY <1>1, <1>4
<1>6. AddEntry(table, r) \in Table
  <2>1. e.uid \in Nat
    BY <1>3 DEF Entry
  <2>2. Append(table.sums, e) \in Seq(Entry)
    BY <1>1, <1>3
  <2> QED BY <1>1, <1>5, <2>1, <2>2 DEF Table
<1>7. Range(Append(table.sums, e)) = Range(table.sums) \cup {e}
  <2> DEFINE s == table.sums
  <2>1. s \in Seq(Entry) /\ Len(s) \in Nat
    BY <1>1
  <2> HIDE DEF s
  <2>2. /\ DOMAIN Append(s, e) = 1..(Len(s) + 1) /\ DOMAIN s = 1..Len(s)
        /\ \A i \in 1..Len(s) : Append(s, e)[i] = s[i]
        /\ Append(s, e)[Len(s) + 1] = e
    BY <1>3, <2>1
  <2>3. \A i \in 1..(Len(s) + 1) : i \in 1..Len(s) \/ i = Len(s) + 1
    BY <2>1
  <2>4. 1..Len(s) \subseteq 1..(Len(s) + 1) /\ Len(s) + 1 \in 1..(Len(s) + 1)
    BY <2>1
  <2>5. Range(Append(s, e)) = Range(s) \cup {e}
    BY <2>2, <2>3, <2>4 DEF Range
  <2> QED BY <2>5 DEF s
<1> QED BY <1>3, <1>5, <1>6, <1>7 DEF e

(* Numbers are at most the greatest so far. *)
Below(table) == \A e \in Range(table.sums) : e.uid <= table.next

LEMMA AddEntryBelow ==
  ASSUME NEW table \in Table, NEW r \in Stored, Below(table)
  PROVE  Below(AddEntry(table, r))
<1> DEFINE e == Entered(table.next, r)
           new == AddEntry(table, r)
<1>1. /\ e \in Entry /\ table.next \in Nat
      /\ new.next = IF e.uid > table.next THEN e.uid ELSE table.next
      /\ Range(new.sums) = Range(table.sums) \cup {e}
  BY AddEntryIs DEF Table
<1>2. e.uid \in Nat /\ \A d \in Range(table.sums) : d.uid \in Nat
  <2>1. table.sums \in Seq(Entry)
    BY DEF Table
  <2>2. \A d \in Range(table.sums) : d \in Entry
    BY <2>1 DEF Range
  <2> QED BY <1>1, <2>2 DEF Entry
<1> HIDE DEF e, new
<1>3. ASSUME NEW d \in Range(new.sums) PROVE d.uid <= new.next
  <2>1. CASE d = e
    BY <1>1, <1>2, <2>1
  <2>2. CASE d \in Range(table.sums)
    BY <1>1, <1>2, <2>2 DEF Below
  <2> QED BY <1>1, <2>1, <2>2
<1> QED BY <1>3 DEF Below, new

LEMMA EmptyTyped ==
  ASSUME NEW file \in Seq(Stored)
  PROVE  /\ EmptyToc \in Table /\ [EmptyToc EXCEPT !.of = file] \in Table
         /\ [EmptyToc EXCEPT !.of = file].of = file
         /\ [EmptyToc EXCEPT !.of = file].next = 0
         /\ Range([EmptyToc EXCEPT !.of = file].sums) = {}
<1>1. <<>> \in Seq(Entry) /\ <<>> \in Seq(Stored) /\ 0 \in Nat
  OBVIOUS
<1>2. [EmptyToc EXCEPT !.of = file] = [sums |-> <<>>, of |-> file, next |-> 0]
  BY DEF EmptyToc
<1>3. Range(<<>>) = {}
  BY DEF Range
<1> QED BY <1>1, <1>2, <1>3 DEF EmptyToc, Table

LEMMA TableTyped ==
  ASSUME NEW file \in Seq(Stored)
  PROVE  \A i \in 0..Len(file) :
           /\ TableOf(file)[i] \in Table /\ Below(TableOf(file)[i])
           /\ TableOf(file)[i].of = file
<1> DEFINE T == TableOf(file)
           Ok(i) == T[i] \in Table /\ Below(T[i]) /\ T[i].of = file
           S == {i \in Nat : Ok(i)}
<1>1. Len(file) \in Nat
  OBVIOUS
<1>2. Ok(0)
  BY EmptyTyped, TableSteps DEF Below
<1>3. ASSUME NEW i \in 0..(Len(file) - 1), Ok(i)
      PROVE  Ok(i + 1)
  <2>1. i + 1 \in 1..Len(file) /\ (i + 1) - 1 = i
    BY <1>1
  <2>2. T[i + 1] = T[i] \/ T[i + 1] = AddEntry(T[i], Parsed(file)[i + 1])
    BY <2>1, TableSteps
  <2>3. Parsed(file)[i + 1] \in Stored
    BY <2>1, StoredTyped
  <2> HIDE DEF T
  <2> QED BY <1>3, <2>2, <2>3, AddEntryIs, AddEntryBelow
<1> HIDE DEF Ok
<1>4. 0 \in S /\ \A i \in 0..(Len(file) - 1) : i \in S => i + 1 \in S
  BY <1>1, <1>2, <1>3
<1> HIDE DEF S
<1>5. \A i \in 0..Len(file) : i \in S
  BY <1>1, <1>4, UpTo
<1> QED BY <1>5 DEF S, Ok

LEMMA RebuildTyped ==
  ASSUME NEW file \in Seq(Stored)
  PROVE  Rebuild(file) \in Table /\ Below(Rebuild(file)) /\ Rebuild(file).of = file
<1>1. Len(file) \in 0..Len(file)
  OBVIOUS
<1> QED BY <1>1, RebuildIs, TableTyped

(* Two tables with the same entries and numbers. *)
Same(a, b) == a.sums = b.sums /\ a.next = b.next

(* Files that scan alike up to record c have the same table there. *)
LEMMA Prefix ==
  ASSUME NEW file \in Seq(Stored), NEW other \in Seq(Stored),
         NEW c \in 0..Len(file), c <= Len(other),
         \A i \in 1..c : /\ Scanned(file, i) <=> Scanned(other, i)
                         /\ Scanned(file, i) => Parsed(file)[i] = Parsed(other)[i]
  PROVE  Same(TableOf(file)[c], TableOf(other)[c])
<1> DEFINE A == TableOf(file)
           B == TableOf(other)
           S == {i \in Nat : Same(A[i], B[i])}
<1>1. Len(file) \in Nat /\ Len(other) \in Nat /\ c \in Nat /\ c <= Len(file) /\ c <= Len(other)
  OBVIOUS
<1>2. Same(A[0], B[0])
  BY ZenonT(60), TableSteps DEF Same, EmptyToc
<1>3. ASSUME NEW i \in 0..(c - 1), Same(A[i], B[i])
      PROVE  Same(A[i + 1], B[i + 1])
  <2>1. /\ i + 1 \in 1..c /\ i + 1 \in 1..Len(file) /\ i + 1 \in 1..Len(other)
        /\ (i + 1) - 1 = i /\ i \in 0..Len(file) /\ i \in 0..Len(other)
    BY <1>1
  <2>2. A[i] \in Table /\ B[i] \in Table
    BY <2>1, TableTyped
  <2>3. CASE Scanned(file, i + 1)
    <3>1. PICK r \in Stored : r = Parsed(file)[i + 1] /\ r = Parsed(other)[i + 1]
      BY <2>1, <2>3, StoredTyped
    <3>2. A[i + 1] = AddEntry(A[i], r) /\ B[i + 1] = AddEntry(B[i], r)
      BY <2>1, <2>3, <3>1, TableSteps
    <3> HIDE DEF A, B
    <3>3. Entered(A[i].next, r) = Entered(B[i].next, r)
      BY <1>3 DEF Same, Entered
    <3>4. /\ A[i + 1].sums = Append(A[i].sums, Entered(A[i].next, r))
          /\ A[i + 1].next = IF Entered(A[i].next, r).uid > A[i].next
                             THEN Entered(A[i].next, r).uid ELSE A[i].next
      BY ZenonT(60), <2>2, <3>2, AddEntryIs
    <3>5. /\ B[i + 1].sums = Append(B[i].sums, Entered(B[i].next, r))
          /\ B[i + 1].next = IF Entered(B[i].next, r).uid > B[i].next
                             THEN Entered(B[i].next, r).uid ELSE B[i].next
      BY ZenonT(60), <2>2, <3>2, AddEntryIs
    <3> QED BY <1>3, <3>3, <3>4, <3>5 DEF Same
  <2>4. CASE ~Scanned(file, i + 1)
    <3>1. A[i + 1] = A[i] /\ B[i + 1] = B[i]
      BY ZenonT(60), <2>1, <2>4, TableSteps
    <3> HIDE DEF A, B
    <3> QED BY <1>3, <3>1
  <2> QED BY <2>3, <2>4
<1> HIDE DEF A, B
<1>4. 0 \in S /\ \A i \in 0..(c - 1) : i \in S => i + 1 \in S
  BY <1>1, <1>2, <1>3
<1> HIDE DEF S
<1>5. c \in S
  <2>1. \A i \in 0..c : i \in S
    BY <1>1, <1>4, UpTo
  <2> QED BY <1>1, <2>1
<1> QED BY <1>5 DEF S, A, B

(* Where nothing is found the table stays. *)
LEMMA Skips ==
  ASSUME NEW file \in Seq(Stored), NEW c \in 0..Len(file), NEW d \in c..Len(file),
         \A i \in (c + 1)..d : ~Scanned(file, i)
  PROVE  TableOf(file)[d] = TableOf(file)[c]
<1> DEFINE T == TableOf(file)
           S == {k \in Nat : T[c + k] = T[c]}
<1>1. Len(file) \in Nat /\ c \in Nat /\ d \in Nat /\ c <= d /\ d <= Len(file) /\ d - c \in Nat
  OBVIOUS
<1>2. ASSUME NEW k \in 0..((d - c) - 1), T[c + k] = T[c]
      PROVE  T[c + (k + 1)] = T[c]
  <2>1. c + (k + 1) \in (c + 1)..d /\ c + (k + 1) \in 1..Len(file) /\ (c + (k + 1)) - 1 = c + k
    BY <1>1
  <2>2. T[c + (k + 1)] = T[c + k]
    BY <2>1, TableSteps
  <2> QED BY <1>2, <2>2
<1> HIDE DEF T
<1>3. 0 \in S /\ \A k \in 0..((d - c) - 1) : k \in S => k + 1 \in S
  <2>1. c + 0 = c
    BY <1>1
  <2>2. 0 \in S
    BY <2>1
  <2>3. ASSUME NEW k \in 0..((d - c) - 1), k \in S PROVE k + 1 \in S
    <3>1. k + 1 \in Nat /\ T[c + k] = T[c]
      BY <1>1, <2>3
    <3> QED BY <1>2, <3>1
  <2> QED BY <2>2, <2>3
<1> HIDE DEF S
<1>4. d - c \in S
  <2>1. \A k \in 0..(d - c) : k \in S
    BY <1>1, <1>3, UpTo
  <2> QED BY <1>1, <2>1
<1>5. T[c + (d - c)] = T[c] /\ c + (d - c) = d
  BY <1>1, <1>4 DEF S
<1> QED BY <1>5 DEF T

-----------------------------------------------------------------------------
(* What a rebuild lists when a record was appended *)

(* A record cut short has no version, and only such a record is continued   *)
(* by what follows; one cut before its headers always is.                   *)
Shaped(r) ==
  /\ r.glued => r.tear # "none"
  /\ r.tear \in {"stub", "envelope"} => r.glued
  /\ r.tear # "none" => r.ver = 0

CutTail(file) ==
  \E i \in 1..Len(file) : /\ file[i].tear \in {"body", "stub"}
                          /\ \A j \in i..Len(file) : file[j].glued

(* The records that what is appended next will continue. *)
OpenTail(file) == {i \in 1..Len(file) : \A j \in i..Len(file) : file[j].glued /\ file[j].tear # "body"}

(* How a scan of the longer file goes. *)
ScansOn(file, r, longer) ==
  /\ longer \in Seq(Stored) /\ Len(longer) = Len(file) + 1
  /\ longer[Len(file) + 1] = r /\ Parsed(longer)[Len(file) + 1] = r
  /\ \A i \in 1..Len(file) : longer[i] = file[i] /\ (Found(longer, i) <=> Found(file, i))
  /\ \A i \in (1..Len(file)) \ OpenTail(file) : /\ Scanned(longer, i) <=> Scanned(file, i)
                                                /\ Parsed(longer)[i] = Parsed(file)[i]
  /\ \A i \in OpenTail(file) : /\ Scanned(longer, i) <=> Found(file, i)
                               /\ Parsed(longer)[i] = r /\ Parsed(file)[i] = file[Len(file)]

LEMMA AppendedParsed ==
  ASSUME NEW file \in Seq(Stored), NEW r \in Stored, NEW longer, longer = Append(file, r),
         \A i \in 1..Len(file) : Shaped(file[i])
  PROVE  ScansOn(file, r, longer)
<1> DEFINE n == Len(file)
<1>1. n \in Nat /\ longer \in Seq(Stored) /\ Len(longer) = n + 1 /\ longer[n + 1] = r
  OBVIOUS
<1>2. \A i \in 1..n : longer[i] = file[i]
  OBVIOUS
<1> HIDE DEF n
<1>3. ASSUME NEW i \in 1..n PROVE Found(longer, i) <=> Found(file, i)
  <2>1. i > 1 => longer[i - 1] = file[i - 1]
    BY <1>1, <1>2
  <2>2. \A j \in 1..(i - 1) : longer[j] = file[j]
    BY <1>1, <1>2
  <2> QED BY <1>2, <2>1, <2>2 DEF Found
<1>4. \A j \in 1..n : RunsOn(longer, j) <=> file[j].glued /\ file[j].tear # "body"
  BY <1>1, <1>2 DEF RunsOn
<1>5. ~RunsOn(longer, n + 1)
  BY <1>1 DEF RunsOn
<1>6. Parsed(longer)[n + 1] = r
  <2>1. n + 1 \in 1..Len(longer) /\ n + 1 \in (n + 1)..Len(longer)
        /\ \A j \in (n + 1)..((n + 1) - 1) : RunsOn(longer, j)
    BY <1>1
  <2> QED BY <1>1, <1>5, <2>1, ParsedIs
<1>7. ASSUME NEW i \in 1..n, i \notin OpenTail(file)
      PROVE  /\ Scanned(longer, i) <=> Scanned(file, i)
             /\ Parsed(longer)[i] = Parsed(file)[i]
  <2>1. PICK m \in i..n : /\ ~RunsOn(file, m) /\ \A j \in i..(m - 1) : RunsOn(file, j)
                          /\ Parsed(file)[i] = file[m]
    BY ParsedAt DEF n
  <2>2. m \in 1..n /\ \A j \in i..(m - 1) : j \in 1..n
    BY <1>1
  <2>3. \A j \in i..(m - 1) : RunsOn(longer, j)
    BY <1>4, <2>1, <2>2 DEF RunsOn
  <2>4. ~(file[m].glued /\ file[m].tear # "body")
    <3>1. CASE m < n
      BY <2>1, <3>1 DEF RunsOn, n
    <3>2. CASE m = n
      <4>1. \A j \in i..n : j = n \/ j \in i..(m - 1)
        BY <1>1, <3>2
      <4>2. \E j \in i..n : ~(file[j].glued /\ file[j].tear # "body")
        BY <1>7 DEF OpenTail, n
      <4> QED BY <2>1, <3>2, <4>1, <4>2 DEF RunsOn
    <3> QED BY <1>1, <3>1, <3>2
  <2>5. ~RunsOn(longer, m)
    BY <1>4, <2>2, <2>4
  <2>6. Parsed(longer)[i] = longer[m]
    <3>1. i \in 1..Len(longer) /\ m \in i..Len(longer)
      BY <1>1
    <3> QED BY <1>1, <2>3, <2>5, <3>1, ParsedIs
  <2>7. ~(file[i].tear = "envelope" /\ i = n)
    <3> SUFFICES ASSUME file[i].tear = "envelope", i = n PROVE FALSE
      OBVIOUS
    <3>1. file[n].glued /\ file[n].tear # "body"
      BY DEF Shaped, n
    <3>2. \A j \in i..n : j = n
      BY <1>1
    <3> QED BY <1>7, <3>1, <3>2 DEF OpenTail, n
  <2>8. i # n + 1
    BY <1>1
  <2> QED BY <1>1, <1>2, <1>3, <2>1, <2>2, <2>6, <2>7, <2>8 DEF Scanned, n
<1>8. ASSUME NEW i \in OpenTail(file)
      PROVE  /\ Scanned(longer, i) <=> Found(file, i)
             /\ Parsed(longer)[i] = r /\ Parsed(file)[i] = file[n]
  <2>1. i \in 1..n /\ \A j \in i..n : file[j].glued /\ file[j].tear # "body"
    BY DEF OpenTail, n
  <2>2. i \in 1..Len(longer) /\ n + 1 \in i..Len(longer) /\ n \in i..n /\ i # n + 1
    BY <1>1, <2>1
  <2>3. \A j \in i..((n + 1) - 1) : RunsOn(longer, j)
    <3> SUFFICES ASSUME NEW j \in i..((n + 1) - 1) PROVE RunsOn(longer, j)
      OBVIOUS
    <3>1. j \in i..n /\ j \in 1..n
      BY <1>1, <2>1
    <3> QED BY <1>4, <2>1, <3>1
  <2>4. Parsed(longer)[i] = r
    BY <1>1, <1>5, <2>2, <2>3, ParsedIs
  <2>5. ~RunsOn(file, n)
    BY <1>1 DEF RunsOn, n
  <2>6. \A j \in i..(n - 1) : RunsOn(file, j)
    <3> SUFFICES ASSUME NEW j \in i..(n - 1) PROVE RunsOn(file, j)
      OBVIOUS
    <3>1. j \in i..n /\ j < n
      BY <1>1, <2>1
    <3> QED BY <2>1, <3>1 DEF RunsOn, n
  <2>7. Parsed(file)[i] = file[n]
    BY <2>1, <2>2, <2>5, <2>6, ParsedIs DEF n
  <2>8. Scanned(longer, i) <=> Found(file, i)
    BY <1>1, <1>3, <2>1, <2>2 DEF Scanned
  <2> QED BY <2>4, <2>7, <2>8
<1> QED BY <1>1, <1>2, <1>3, <1>6, <1>7, <1>8 DEF ScansOn, n

(* A record is added to the table of some prefix that the file already has, *)
(* in the place of the entry of records cut short; or, after a cut line, it *)
(* is not seen.                                                             *)
LEMMA RebuildAppend ==
  ASSUME NEW file \in Seq(Stored), NEW r \in Stored, NEW longer, longer = Append(file, r),
         \A i \in 1..Len(file) : Shaped(file[i])
  PROVE  \/ Same(Rebuild(longer), Rebuild(file)) /\ (r.tear = "none" => CutTail(file))
         \/ \E base \in Table :
              /\ Below(base) /\ base.next <= Rebuild(file).next
              /\ Range(base.sums) \subseteq Range(Rebuild(file).sums)
              /\ \A e \in Range(Rebuild(file).sums) \ Range(base.sums) : e.ver = 0
              /\ Same(Rebuild(longer), AddEntry(base, r))
<1> DEFINE n == Len(file)
           A == TableOf(file)
           B == TableOf(longer)
<1>1. n \in Nat /\ n \in 0..n /\ n + 1 \in 1..(n + 1) /\ (n + 1) - 1 = n
  OBVIOUS
<1>2. /\ longer \in Seq(Stored) /\ Len(longer) = n + 1
      /\ longer[n + 1] = r /\ Parsed(longer)[n + 1] = r
      /\ \A i \in 1..n : longer[i] = file[i] /\ (Found(longer, i) <=> Found(file, i))
      /\ \A i \in (1..n) \ OpenTail(file) : /\ Scanned(longer, i) <=> Scanned(file, i)
                                            /\ Parsed(longer)[i] = Parsed(file)[i]
      /\ \A i \in OpenTail(file) : /\ Scanned(longer, i) <=> Found(file, i)
                                   /\ Parsed(longer)[i] = r /\ Parsed(file)[i] = file[n]
  <2>1. ScansOn(file, r, longer)
    BY AppendedParsed
  <2> QED BY <2>1 DEF ScansOn
<1>3. OpenTail(file) \subseteq 1..n
  BY DEF OpenTail
<1>4. Rebuild(file) = A[n] /\ Rebuild(longer) = B[n + 1]
  BY <1>2, RebuildIs
<1>5. \A i \in 0..n : A[i] \in Table /\ Below(A[i])
  BY TableTyped
<1>6. \A i \in 0..(n + 1) : B[i] \in Table
  BY <1>2, TableTyped
<1> HIDE DEF n, A, B
<1>7. /\ \A i \in 1..n : /\ Scanned(file, i) => A[i] = AddEntry(A[i - 1], Parsed(file)[i])
                         /\ ~Scanned(file, i) => A[i] = A[i - 1]
      /\ \A i \in 1..(n + 1) : /\ Scanned(longer, i) => B[i] = AddEntry(B[i - 1], Parsed(longer)[i])
                               /\ ~Scanned(longer, i) => B[i] = B[i - 1]
  <2>1. \A i \in 1..n : /\ Scanned(file, i) => A[i] = AddEntry(A[i - 1], Parsed(file)[i])
                        /\ ~Scanned(file, i) => A[i] = A[i - 1]
    BY TableSteps DEF A, n
  <2>2. \A i \in 1..Len(longer) :
           /\ Scanned(longer, i) => B[i] = AddEntry(B[i - 1], Parsed(longer)[i])
           /\ ~Scanned(longer, i) => B[i] = B[i - 1]
    BY <1>2, TableSteps DEF B
  <2> QED BY <1>2, <2>1, <2>2
<1>8. ASSUME NEW c \in 0..n, \A i \in 1..c : i \in OpenTail(file) => ~Found(file, i)
      PROVE  Same(A[c], B[c])
  <2>1. c \in 0..Len(file) /\ c <= Len(longer) /\ \A i \in 1..c : i \in 1..n
    BY <1>1, <1>2 DEF n
  <2>2. \A i \in 1..c : /\ Scanned(file, i) <=> Scanned(longer, i)
                        /\ Scanned(file, i) => Parsed(file)[i] = Parsed(longer)[i]
    BY <1>2, <1>8, <2>1 DEF Scanned
  <2> QED BY <1>2, <2>1, <2>2, Prefix DEF A, B
<1>9. CASE \E c \in OpenTail(file) : Found(file, c)
  <2>1. PICK c \in OpenTail(file) : Found(file, c)
    BY <1>9
  <2>2. c \in 1..n /\ c \in Nat /\ c <= n /\ c > 0 /\ \A j \in c..n : file[j].glued
    BY <1>1, <1>3 DEF OpenTail, n
  <2>3. c - 1 \in 0..n /\ c - 1 \in 0..(n + 1) /\ c \in 0..n /\ c \in 1..(n + 1) /\ n + 1 \in c..(n + 1) /\ n \in c..n
    BY <1>1, <2>2
  <2>4. file[c].tear # "stub" /\ file[n] \in Stored /\ Shaped(file[n]) /\ file[n].ver = 0
    <3>1. n \in 1..n /\ file[n] \in Stored /\ Shaped(file[n]) /\ file[n].glued
      BY <1>1, <2>2, <2>3, StoredTyped DEF n
    <3> QED BY <2>1, <3>1 DEF Found, Shaped
  <2>5. ASSUME NEW d \in (c + 1)..n PROVE ~Found(file, d)
    <3>1. d - 1 \in c..n /\ d > 1 /\ c \in 1..(d - 1)
      BY <1>1, <2>2
    <3> QED BY <2>2, <2>4, <3>1 DEF Found
  <2>6. ASSUME NEW d \in (c + 1)..(n + 1) PROVE ~Scanned(longer, d)
    <3>1. CASE d = n + 1
      <4>1. n \in c..n /\ n + 1 > 1 /\ c \in 1..n
        BY <1>1, <2>2
      <4>2. longer[c] = file[c] /\ longer[n] = file[n] /\ file[n].glued
        BY <1>2, <2>2, <2>3
      <4>3. ~Found(longer, n + 1)
        BY <1>1, <2>4, <4>1, <4>2 DEF Found
      <4> QED BY <3>1, <4>3 DEF Scanned
    <3>2. CASE d \in (c + 1)..n
      <4>1. d \in 1..n
        BY <1>1, <2>2, <3>2
      <4> QED BY <1>2, <2>5, <3>2, <4>1 DEF Scanned
    <3>3. d = n + 1 \/ d \in (c + 1)..n
      BY <1>1, <2>2
    <3> QED BY <3>1, <3>2, <3>3
  <2>7. ASSUME NEW i \in 1..(c - 1), i \in OpenTail(file) PROVE ~Found(file, i)
    <3>1. file[i].glued /\ c - 1 \in i..n /\ file[c - 1].glued /\ c > 1 /\ i \in 1..(c - 1)
      BY <1>1, <2>2, <2>7 DEF OpenTail, n
    <3>2. \A j \in 1..(c - 1) : file[j].tear = "stub"
      BY <2>1, <3>1 DEF Found
    <3> QED BY <3>1, <3>2 DEF Found
  <2>8. Same(A[c - 1], B[c - 1])
    BY <1>8, <2>3, <2>7
  <2>9. B[n + 1] = B[c]
    <3>1. c \in 0..Len(longer) /\ n + 1 \in c..Len(longer)
      BY <1>1, <1>2, <2>2
    <3> QED BY <1>2, <2>6, <3>1, Skips DEF B
  <2>10. A[n] = A[c]
    BY <2>3, <2>5, Skips DEF Scanned, A, n
  <2>11. B[c] = AddEntry(B[c - 1], r)
    <3>1. Scanned(longer, c) => B[c] = AddEntry(B[c - 1], Parsed(longer)[c])
      BY <1>7, <2>3
    <3> QED BY <1>2, <2>1, <3>1
  <2>12. A[c] = A[c - 1] \/ A[c] = AddEntry(A[c - 1], file[n])
    <3>1. /\ Scanned(file, c) => A[c] = AddEntry(A[c - 1], Parsed(file)[c])
          /\ ~Scanned(file, c) => A[c] = A[c - 1]
      BY <1>7, <2>2
    <3>2. Parsed(file)[c] = file[n]
      BY <1>2
    <3> QED BY <3>1, <3>2
  <2>13. PICK base \in Table : base = A[c - 1] /\ Below(base)
    BY <1>5, <2>3
  <2>14. PICK bas2 \in Table : bas2 = B[c - 1]
    BY <1>6, <2>3
  <2>15. /\ base.next <= A[n].next
         /\ Range(base.sums) \subseteq Range(A[n].sums)
         /\ \A e \in Range(A[n].sums) \ Range(base.sums) : e.ver = 0
    <3>1. base.next \in Nat
      BY DEF Table
    <3>2. CASE A[c] = base
      BY <2>10, <3>1, <3>2
    <3>3. CASE A[c] = AddEntry(base, file[n])
      <4>1. PICK new \in Table : new = A[n]
        BY <1>1, <1>5
      <4>2. PICK e : e = Entered(base.next, file[n])
        OBVIOUS
      <4>3. e.ver = 0 /\ e \in Entry
        BY <2>4, <4>2, AddEntryIs DEF Entered
      <4>4. /\ new.next = IF e.uid > base.next THEN e.uid ELSE base.next
            /\ Range(new.sums) = Range(base.sums) \cup {e}
        <5>1. new = AddEntry(base, file[n]) /\ file[n] \in Stored
          BY <2>4, <2>10, <3>3, <4>1
        <5> QED BY <4>2, <5>1, AddEntryIs
      <4>5. e.uid \in Nat
        BY <4>3 DEF Entry
      <4>6. base.next <= new.next
        BY <3>1, <4>4, <4>5
      <4> QED BY <4>1, <4>3, <4>4, <4>6
    <3> QED BY <2>12, <2>13, <3>2, <3>3
  <2>16. Same(AddEntry(bas2, r), AddEntry(base, r))
    BY SMTT(30), <2>8, <2>13, <2>14 DEF Same, AddEntry
  <2>17. Same(Rebuild(longer), AddEntry(base, r))
    BY <1>4, <2>9, <2>11, <2>14, <2>16
  <2> QED BY <1>4, <2>13, <2>15, <2>17
<1>10. CASE \A c \in OpenTail(file) : ~Found(file, c)
  <2>1. Same(A[n], B[n])
    BY <1>1, <1>8, <1>10
  <2>2. CASE Scanned(longer, n + 1)
    <3>1. PICK base \in Table : base = A[n] /\ Below(base)
      BY <1>1, <1>5
    <3>2. Same(AddEntry(B[n], r), AddEntry(base, r))
      <4>1. PICK bas2 \in Table : bas2 = B[n]
        BY <1>1, <1>6
      <4>2. Entered(bas2.next, r) = Entered(base.next, r)
        BY <2>1, <3>1, <4>1 DEF Same, Entered
      <4>3. /\ AddEntry(base, r).sums = Append(base.sums, Entered(base.next, r))
            /\ AddEntry(base, r).next = IF Entered(base.next, r).uid > base.next
                                       THEN Entered(base.next, r).uid ELSE base.next
        BY AddEntryIs
      <4>4. /\ AddEntry(bas2, r).sums = Append(bas2.sums, Entered(bas2.next, r))
            /\ AddEntry(bas2, r).next = IF Entered(bas2.next, r).uid > bas2.next
                                       THEN Entered(bas2.next, r).uid ELSE bas2.next
        BY AddEntryIs
      <4> QED BY <2>1, <3>1, <4>1, <4>2, <4>3, <4>4 DEF Same
    <3>3. base.next \in Nat
      BY DEF Table
    <3>4. B[n + 1] = AddEntry(B[n], r)
      <4>1. Scanned(longer, n + 1) => B[n + 1] = AddEntry(B[(n + 1) - 1], Parsed(longer)[n + 1])
        BY <1>1, <1>7
      <4> QED BY <1>1, <1>2, <2>2, <4>1
    <3> QED BY <1>4, <3>1, <3>2, <3>3, <3>4
  <2>3. CASE ~Scanned(longer, n + 1)
    <3>1. Same(Rebuild(longer), Rebuild(file))
      <4>1. B[n + 1] = B[n]
        <5>1. ~Scanned(longer, n + 1) => B[n + 1] = B[(n + 1) - 1]
          BY <1>1, <1>7
        <5> QED BY <1>1, <2>3, <5>1
      <4> QED BY <1>4, <2>1, <4>1 DEF Same
    <3>2. ASSUME r.tear = "none" PROVE CutTail(file)
      <4>1. ~Found(longer, n + 1)
        BY <1>2, <2>3, <3>2 DEF Scanned
      <4>2. n \in 1..n /\ file[n].glued
        <5>1. r.tear # "stub"
          BY <3>2
        <5>2. n + 1 > 1 /\ longer[(n + 1) - 1].glued
          BY <1>2, <4>1, <5>1 DEF Found
        <5> QED BY <1>1, <1>2, <5>2
      <4> DEFINE Run == {i \in 1..n : \A j \in i..n : file[j].glued}
      <4>3. n \in Run
        BY <1>1, <4>2
      <4>4. Run \in SUBSET Nat /\ Run # {}
        BY <4>3
      <4>5. PICK i \in Run : \A j \in Run : i <= j
        BY <4>4, LeastExists
      <4>6. i \in 1..n /\ \A j \in i..n : file[j].glued
        OBVIOUS
      <4>7. i > 1 => ~file[i - 1].glued
        <5> SUFFICES ASSUME i > 1, file[i - 1].glued PROVE FALSE
          OBVIOUS
        <5>1. i - 1 \in 1..n /\ ~(i <= i - 1) /\ \A j \in (i - 1)..n : j = i - 1 \/ j \in i..n
          BY <1>1, <4>6
        <5>2. i - 1 \in Run
          BY <4>6, <5>1
        <5> QED BY <4>5, <5>1, <5>2
      <4> HIDE DEF Run
      <4>8. ASSUME \A j \in i..n : file[j].tear \notin {"body", "stub"} PROVE FALSE
        <5>1. i \in i..n
          BY <1>1, <4>6
        <5>2. i \in OpenTail(file)
          BY <4>6, <4>8 DEF OpenTail, n
        <5>3. Found(file, i)
          BY <4>7, <4>8, <5>1 DEF Found
        <5> QED BY <1>10, <5>2, <5>3
      <4>9. PICK j \in i..n : file[j].tear \in {"body", "stub"}
        BY <4>8
      <4>10. j \in 1..n /\ \A k \in j..n : k \in i..n
        BY <1>1, <4>6
      <4> QED BY <4>6, <4>9, <4>10 DEF CutTail, n
    <3> QED BY <3>1, <3>2
  <2> QED BY <2>2, <2>3
<1> QED BY <1>9, <1>10

(* What a rebuild lists with the record that was appended: never a message  *)
(* that another's unique id names, every version it listed before, and the  *)
(* record itself if it is whole and does not follow a cut line.             *)
LEMMA AppendKeeps ==
  ASSUME NEW file \in Seq(Stored), NEW r \in Stored, \A i \in 1..Len(file) : Shaped(file[i]),
         NEW table \in Table, Below(table),
         Apart(Range(Rebuild(file).sums) \cup Range(table.sums)),
         Rebuild(file).next <= table.next,
         \A e \in Range(Rebuild(file).sums) \cup Range(table.sums) : e.uid = r.uid => e.key = r.key,
         NEW new, new = AddEntry(table, r),
         NEW listed, listed = Rebuild(Append(file, r))
  PROVE  /\ listed \in Table /\ Apart(Range(listed.sums))
         /\ \A e \in Range(Rebuild(file).sums) : e.ver # 0 => e \in Range(listed.sums)
         /\ r.uid # 0 => Apart(Range(listed.sums) \cup Range(new.sums)) /\ listed.next <= new.next
         /\ r.tear = "none" =>
              CutTail(file) \/ \E e \in Range(listed.sums) : e.key = r.key /\ e.ver = r.ver
<1>0. Append(file, r) \in Seq(Stored)
  OBVIOUS
<1>1. PICK longer : longer = Append(file, r) /\ longer \in Seq(Stored)
  BY <1>0
<1>2. PICK old \in Table : old = Rebuild(file) /\ Below(old)
  BY RebuildTyped
<1>3. listed \in Table
  BY <1>1, RebuildTyped
<1>4. \A tab \in Table : tab.next \in Nat /\ \A e \in Range(tab.sums) : e \in Entry /\ e.uid \in Nat
  <2> SUFFICES ASSUME NEW tab \in Table
               PROVE  tab.next \in Nat /\ \A e \in Range(tab.sums) : e \in Entry /\ e.uid \in Nat
    OBVIOUS
  <2>1. tab.next \in Nat /\ tab.sums \in Seq(Entry)
    BY DEF Table
  <2>2. \A e \in Range(tab.sums) : e \in Entry
    BY <2>1 DEF Range
  <2> QED BY <2>1, <2>2 DEF Entry
<1>5. /\ new \in Table /\ Range(new.sums) = Range(table.sums) \cup {Entered(table.next, r)}
      /\ new.next = IF Entered(table.next, r).uid > table.next THEN Entered(table.next, r).uid ELSE table.next
  BY AddEntryIs
<1>6. ASSUME r.uid # 0
      PROVE  /\ \A next : Entered(next, r) = [key |-> r.key, ver |-> r.ver, uid |-> r.uid]
             /\ r.uid \in Nat
  BY <1>6 DEF Entered, Stored
<1>7. ASSUME NEW base \in Table,
             Below(base), base.next <= old.next, Range(base.sums) \subseteq Range(old.sums),
             \A e \in Range(old.sums) \ Range(base.sums) : e.ver = 0,
             Same(listed, AddEntry(base, r))
      PROVE  /\ Apart(Range(listed.sums))
             /\ \A e \in Range(old.sums) : e.ver # 0 => e \in Range(listed.sums)
             /\ r.uid # 0 => Apart(Range(listed.sums) \cup Range(new.sums)) /\ listed.next <= new.next
             /\ \E e \in Range(listed.sums) : e.key = r.key /\ e.ver = r.ver
  <2>1. PICK e : e = Entered(base.next, r)
    OBVIOUS
  <2>2. /\ e \in Entry /\ Range(listed.sums) = Range(base.sums) \cup {e}
        /\ listed.next = IF e.uid > base.next THEN e.uid ELSE base.next
    BY <1>7, <2>1, AddEntryIs DEF Same
  <2>3. e.key = r.key /\ e.ver = r.ver /\ e.uid = IF r.uid = 0 THEN base.next + 1 ELSE r.uid
    BY <2>1 DEF Entered
  <2>4. \A d \in Range(base.sums) : d.uid = e.uid => d.key = e.key
    <3>1. CASE r.uid = 0
      <4>1. \A d \in Range(base.sums) : d.uid <= base.next /\ d.uid \in Nat
        BY <1>4, <1>7 DEF Below
      <4> QED BY <1>4, <2>3, <3>1, <4>1
    <3>2. CASE r.uid # 0
      BY <1>2, <1>7, <2>3, <3>2
    <3> QED BY <3>1, <3>2
  <2>5. Apart(Range(listed.sums))
    BY <1>2, <1>7, <2>2, <2>4 DEF Apart
  <2>6. ASSUME r.uid # 0
        PROVE  Apart(Range(listed.sums) \cup Range(new.sums)) /\ listed.next <= new.next
    <3>1. e = Entered(table.next, r) /\ e.uid = r.uid /\ e.key = r.key
      BY <1>6, <2>1, <2>3, <2>6
    <3>2. Range(listed.sums) \cup Range(new.sums) \subseteq (Range(old.sums) \cup Range(table.sums)) \cup {e}
      BY <1>5, <1>7, <2>2, <3>1
    <3>3. Apart(Range(listed.sums) \cup Range(new.sums))
      BY <1>2, <3>1, <3>2 DEF Apart
    <3>4. listed.next <= new.next
      BY <1>2, <1>4, <1>5, <1>6, <1>7, <2>2, <2>6, <3>1
    <3> QED BY <3>3, <3>4
  <2> QED BY <1>7, <2>2, <2>3, <2>5, <2>6
<1>8. CASE Same(listed, old) /\ (r.tear = "none" => CutTail(file))
  <2>1. Apart(Range(listed.sums))
    BY <1>2, <1>8 DEF Same, Apart
  <2>2. ASSUME r.uid # 0
        PROVE  Apart(Range(listed.sums) \cup Range(new.sums)) /\ listed.next <= new.next
    <3>1. PICK e : e = Entered(table.next, r)
      OBVIOUS
    <3>2. e.uid = r.uid /\ e.key = r.key
      BY <1>6, <2>2, <3>1
    <3>3. Range(listed.sums) \cup Range(new.sums) = (Range(old.sums) \cup Range(table.sums)) \cup {e}
      BY <1>5, <1>8, <3>1 DEF Same
    <3>4. Apart(Range(listed.sums) \cup Range(new.sums))
      BY <1>2, <3>2, <3>3 DEF Apart
    <3>5. listed.next <= new.next
      BY <1>2, <1>4, <1>5, <1>6, <1>8, <2>2, <3>1, <3>2 DEF Same
    <3> QED BY <3>4, <3>5
  <2> QED BY <1>2, <1>3, <1>8, <2>1, <2>2 DEF Same
<1>9. CASE \E base \in Table :
             /\ Below(base) /\ base.next <= old.next
             /\ Range(base.sums) \subseteq Range(old.sums)
             /\ \A e \in Range(old.sums) \ Range(base.sums) : e.ver = 0
             /\ Same(listed, AddEntry(base, r))
  BY <1>2, <1>3, <1>7, <1>9
<1> QED BY <1>1, <1>2, <1>8, <1>9, RebuildAppend

(* A compacted file lists its entries again. *)
Compacted(entries) ==
  [i \in 1..Len(entries) |-> Whole(entries[i].key, entries[i].ver, entries[i].uid)]

LEMMA RebuildWhole ==
  ASSUME NEW sums \in Seq(Entry), NEW file, file = Compacted(sums),
         NEW bound \in Nat, \A e \in Range(sums) : e.uid <= bound
  PROVE  /\ file \in Seq(Stored) /\ \A i \in 1..Len(file) : Shaped(file[i])
         /\ Range(Rebuild(file).sums) = Range(sums) /\ Rebuild(file).next <= bound
<1> DEFINE n == Len(sums)
           T == TableOf(file)
           Ok(i) == /\ \A e \in Range(T[i].sums) : \E j \in 1..i : e = sums[j]
                    /\ \A j \in 1..i : sums[j] \in Range(T[i].sums)
                    /\ T[i].next <= bound
           S == {i \in Nat : Ok(i)}
<1>1. /\ n \in Nat /\ DOMAIN sums = 1..n
      /\ \A i \in 1..n : /\ sums[i] \in Entry
                         /\ sums[i] = [key |-> sums[i].key, ver |-> sums[i].ver, uid |-> sums[i].uid]
                         /\ sums[i].key \in Keys \cup {None} /\ sums[i].ver \in 0..MaxSaves
                         /\ sums[i].uid \in Nat /\ sums[i].uid # 0 /\ sums[i].uid <= bound
  <2>1. \A i \in 1..n : sums[i] \in Entry /\ sums[i] \in Range(sums)
    BY DEF Range
  <2>2. \A i \in 1..n : /\ sums[i] = [key |-> sums[i].key, ver |-> sums[i].ver, uid |-> sums[i].uid]
                        /\ sums[i].key \in Keys \cup {None} /\ sums[i].ver \in 0..MaxSaves
                        /\ sums[i].uid \in Nat /\ sums[i].uid # 0
    BY <2>1 DEF Entry
  <2> QED BY <2>1, <2>2
<1> HIDE DEF n
<1>2. \A i \in 1..n : file[i] = Whole(sums[i].key, sums[i].ver, sums[i].uid)
  BY DEF Compacted, n
<1>3. ASSUME NEW i \in 1..n
      PROVE  /\ file[i] \in Stored /\ Shaped(file[i])
             /\ ~file[i].glued /\ file[i].tear = "none"
             /\ \A next : Entered(next, file[i]) = sums[i]
  <2>1. file[i] = [key |-> sums[i].key, ver |-> sums[i].ver, uid |-> sums[i].uid,
                   tear |-> "none", glued |-> FALSE]
    BY <1>2 DEF Whole, Record
  <2>2. file[i] \in Stored
    BY <1>1, <2>1 DEF Stored
  <2>3. \A next : Entered(next, file[i]) = sums[i]
    BY <1>1, <2>1 DEF Entered
  <2>4. ~file[i].glued /\ file[i].tear = "none"
    BY <2>1
  <2>5. Shaped(file[i])
    BY <2>4 DEF Shaped
  <2> QED BY <2>2, <2>3, <2>4, <2>5
<1>4. file \in Seq(Stored) /\ Len(file) = n
  <2>1. file = [i \in 1..n |-> file[i]]
    BY DEF Compacted, n
  <2> HIDE DEF n
  <2>2. file \in [1..n -> Stored]
    BY <1>3, <2>1
  <2> QED BY <1>1, <2>2
<1>5. ASSUME NEW i \in 1..n
      PROVE  Scanned(file, i) /\ Parsed(file)[i] = file[i]
  <2>1. ~RunsOn(file, i)
    BY <1>3 DEF RunsOn
  <2>2. i \in 1..Len(file) /\ i \in i..Len(file) /\ \A j \in i..(i - 1) : RunsOn(file, j)
    BY <1>1, <1>4
  <2>3. Parsed(file)[i] = file[i]
    BY <1>4, <2>1, <2>2, ParsedIs
  <2>4. i > 1 => i - 1 \in 1..n
    BY <1>1
  <2>5. Scanned(file, i)
    BY <1>3, <2>4 DEF Scanned, Found
  <2> QED BY <2>3, <2>5
<1>6. \A i \in 0..n : T[i] \in Table
  BY <1>4, TableTyped
<1>7. Ok(0)
  <2>1. T[0].next = 0 /\ Range(T[0].sums) = {}
    <3>1. T[0] = [EmptyToc EXCEPT !.of = file]
      BY <1>4, TableSteps
    <3> QED BY <1>4, <3>1, EmptyTyped
  <2> HIDE DEF T
  <2> QED BY <2>1
<1>8. ASSUME NEW i \in 0..(n - 1), Ok(i)
      PROVE  Ok(i + 1)
  <2>1. /\ i + 1 \in 1..n /\ (i + 1) - 1 = i /\ i \in 0..n
        /\ \A j \in 1..(i + 1) : j = i + 1 \/ j \in 1..i
        /\ \A j \in 1..i : j \in 1..(i + 1)
        /\ i + 1 \in 1..(i + 1)
    BY <1>1
  <2>2. PICK table \in Table : table = T[i]
    BY <1>6, <2>1
  <2>3. T[i + 1] = AddEntry(table, file[i + 1])
    <3>1. Scanned(file, i + 1) => T[i + 1] = AddEntry(T[(i + 1) - 1], Parsed(file)[i + 1])
      BY <1>4, <2>1, TableSteps
    <3> QED BY <1>5, <2>1, <2>2, <3>1
  <2>4. Entered(table.next, file[i + 1]) = sums[i + 1] /\ file[i + 1] \in Stored
    BY <1>3, <2>1
  <2> HIDE DEF T
  <2>5. /\ Range(T[i + 1].sums) = Range(table.sums) \cup {sums[i + 1]}
        /\ T[i + 1].next = IF sums[i + 1].uid > table.next THEN sums[i + 1].uid ELSE table.next
    <3>1. PICK r \in Stored : r = file[i + 1]
      BY <2>4
    <3>2. PICK e : e = Entered(table.next, r)
      OBVIOUS
    <3>3. /\ Range(AddEntry(table, r).sums) = Range(table.sums) \cup {e}
          /\ AddEntry(table, r).next = IF e.uid > table.next THEN e.uid ELSE table.next
      BY <3>2, AddEntryIs
    <3>4. e = sums[i + 1]
      BY <2>4, <3>1, <3>2
    <3> QED BY <2>3, <3>1, <3>3, <3>4
  <2>6. T[i + 1].next <= bound
    BY <1>1, <1>8, <2>1, <2>2, <2>5
  <2> QED BY <1>8, <2>1, <2>2, <2>5, <2>6
<1> HIDE DEF Ok
<1>9. n \in S
  <2>1. 0 \in S /\ \A i \in 0..(n - 1) : i \in S => i + 1 \in S
    BY <1>1, <1>7, <1>8
  <2> HIDE DEF S
  <2>2. \A i \in 0..n : i \in S
    BY <1>1, <2>1, UpTo
  <2> QED BY <1>1, <2>2
<1>10. Ok(n)
  BY <1>9
<1>11. Rebuild(file) = T[n]
  BY <1>4, RebuildIs
<1> HIDE DEF T
<1>12. Range(sums) = {sums[j] : j \in 1..n}
  BY <1>1 DEF Range
<1>13. file \in Seq(Stored) /\ \A i \in 1..Len(file) : Shaped(file[i])
  BY <1>3, <1>4
<1>14. /\ \A e \in Range(T[n].sums) : \E j \in 1..n : e = sums[j]
       /\ \A j \in 1..n : sums[j] \in Range(T[n].sums)
       /\ T[n].next <= bound
  BY <1>10 DEF Ok
<1>15. Range(T[n].sums) = Range(sums)
  BY <1>12, <1>14
<1> QED BY <1>11, <1>13, <1>14, <1>15

-----------------------------------------------------------------------------
(* Finding and removing an entry *)

LEMMA FindIs ==
  ASSUME NEW sums \in Seq(Entry), NEW k
  PROVE  /\ Find(sums, k) \in 0..Len(sums)
         /\ Find(sums, k) # 0 => Matches(sums[Find(sums, k)], k)
<1> DEFINE I == {i \in 1..Len(sums) : Matches(sums[i], k)}
<1>1. Find(sums, k) = IF I # {} THEN Min(I) ELSE 0
  BY DEF Find, SelectInSeq
<1>2. Len(sums) \in Nat /\ I \in SUBSET Nat
  OBVIOUS
<1>3. CASE I = {}
  BY <1>1, <1>2, <1>3
<1>4. CASE I # {}
  <2>1. PICK i \in I : \A j \in I : i <= j
    BY <1>2, <1>4, LeastExists
  <2>2. Min(I) \in I
    BY <2>1 DEF Min
  <2> QED BY <1>1, <1>2, <1>4, <2>2
<1> QED BY <1>3, <1>4

LEMMA WithoutAt ==
  ASSUME NEW sums \in Seq(Entry), NEW p \in 1..Len(sums)
  PROVE  /\ Without(sums, p) \in Seq(Entry)
         /\ DOMAIN Without(sums, p) = 1..(Len(sums) - 1) /\ Len(Without(sums, p)) = Len(sums) - 1
         /\ \A j \in 1..(Len(sums) - 1) :
              Without(sums, p)[j] = IF j <= p - 1 THEN sums[j] ELSE sums[j + 1]
<1> DEFINE before == SubSeq(sums, 1, p - 1)
           after == SubSeq(sums, p + 1, Len(sums))
           n == Len(sums)
<1>1. Without(sums, p) = before \o after
  BY DEF Without, RemoveAt
<1>2. /\ before \in Seq(Entry) /\ Len(before) = p - 1
      /\ \A j \in 1..(p - 1) : before[j] = sums[j]
  OBVIOUS
<1>3. /\ after \in Seq(Entry) /\ Len(after) = n - p
      /\ \A j \in 1..(n - p) : after[j] = sums[p + j]
  OBVIOUS
<1>4. n \in Nat /\ p \in 1..n
  OBVIOUS
<1> HIDE DEF before, after, n
<1>5. /\ before \o after \in Seq(Entry)
      /\ DOMAIN (before \o after) = 1..(n - 1) /\ Len(before \o after) = n - 1
      /\ \A j \in 1..(n - 1) :
           (before \o after)[j] = IF j <= p - 1 THEN before[j] ELSE after[j - (p - 1)]
  <2>1. /\ Len(before \o after) = Len(before) + Len(after)
        /\ before \o after \in Seq(Entry)
        /\ \A j \in 1..(Len(before) + Len(after)) :
             (before \o after)[j] = IF j <= Len(before) THEN before[j] ELSE after[j - Len(before)]
    <3>1. before \in Seq(Entry) /\ after \in Seq(Entry)
      BY <1>2, <1>3
    <3> QED BY <3>1
  <2>2. Len(before) + Len(after) = n - 1
    BY <1>2, <1>3, <1>4
  <2>3. DOMAIN (before \o after) = 1..Len(before \o after)
    BY <2>1
  <2> QED BY <1>2, <2>1, <2>2, <2>3
<1>6. \A j \in 1..(n - 1) : (before \o after)[j] = IF j <= p - 1 THEN sums[j] ELSE sums[j + 1]
  <2> SUFFICES ASSUME NEW j \in 1..(n - 1)
               PROVE  (before \o after)[j] = IF j <= p - 1 THEN sums[j] ELSE sums[j + 1]
    OBVIOUS
  <2>1. CASE j <= p - 1
    <3>1. j \in 1..(p - 1)
      BY <1>4, <2>1
    <3> QED BY <1>2, <1>5, <2>1, <3>1
  <2>2. CASE ~(j <= p - 1)
    <3>1. j - (p - 1) \in 1..(n - p) /\ p + (j - (p - 1)) = j + 1
      BY <1>4, <2>2
    <3>2. after[j - (p - 1)] = sums[j + 1]
      BY <1>3, <3>1
    <3> QED BY <1>5, <2>2, <3>2
  <2> QED BY <2>1, <2>2
<1> QED BY <1>1, <1>5, <1>6 DEF n

LEMMA WithoutIs ==
  ASSUME NEW sums \in Seq(Entry), NEW p \in Nat
  PROVE  /\ Without(sums, p) \in Seq(Entry)
         /\ Range(Without(sums, p)) \subseteq Range(sums)
         /\ \A e \in Range(sums) : e \in Range(Without(sums, p)) \/ (p \in 1..Len(sums) /\ e = sums[p])
<1>1. CASE p \notin 1..Len(sums)
  <2>1. Without(sums, p) = sums
    BY <1>1 DEF Without
  <2> QED BY <2>1
<1>2. CASE p \in 1..Len(sums)
  <2>1. PICK rest : rest = Without(sums, p)
    OBVIOUS
  <2>2. PICK n \in Nat : n = Len(sums) /\ DOMAIN sums = 1..n
    OBVIOUS
  <2>3. /\ rest \in Seq(Entry) /\ DOMAIN rest = 1..(n - 1)
        /\ \A j \in 1..(n - 1) : rest[j] = IF j <= p - 1 THEN sums[j] ELSE sums[j + 1]
    BY <1>2, <2>1, <2>2, WithoutAt
  <2>4. p \in 1..n /\ \A j \in 1..(n - 1) : j \in 1..n /\ j + 1 \in 1..n
    BY <1>2, <2>2
  <2>5. Range(rest) \subseteq Range(sums)
    <3> SUFFICES ASSUME NEW e \in Range(rest) PROVE e \in Range(sums)
      OBVIOUS
    <3>1. PICK j \in 1..(n - 1) : e = rest[j]
      BY <2>3 DEF Range
    <3>2. e = sums[j] \/ e = sums[j + 1]
      BY <2>3, <3>1
    <3> QED BY <2>2, <2>4, <3>2 DEF Range
  <2>6. ASSUME NEW e \in Range(sums), e # sums[p] PROVE e \in Range(rest)
    <3>1. PICK i \in 1..n : e = sums[i]
      BY <2>2 DEF Range
    <3>2. i # p
      BY <2>6, <3>1
    <3>3. CASE i < p
      <4>1. i \in 1..(n - 1) /\ i <= p - 1
        BY <2>4, <3>3
      <4> QED BY <2>3, <3>1, <4>1 DEF Range
    <3>4. CASE i > p
      <4>1. i - 1 \in 1..(n - 1) /\ ~(i - 1 <= p - 1) /\ (i - 1) + 1 = i
        BY <2>4, <3>4
      <4>2. rest[i - 1] = e
        BY <2>3, <3>1, <4>1
      <4> QED BY <2>3, <4>1, <4>2 DEF Range
    <3> QED BY <2>4, <3>2, <3>3, <3>4
  <2> QED BY <1>2, <2>1, <2>3, <2>5, <2>6
<1> QED BY <1>1, <1>2

(* What a call does with the entries it has read, one way each. *)
Used(t, sums, i) ==
  \/ op[t].kind = "list" /\ Return(t) /\ UNCHANGED acked
  \/ op[t].kind = "delete" /\ Return(t) /\ acked' = [acked EXCEPT ![op[t].key] = None]
  \/ /\ op[t].kind = "save" /\ Goto(t, "append")
     /\ found' = [found EXCEPT ![t] = IF i = 0 THEN None ELSE sums[i]]
     /\ mine' = [mine EXCEPT ![t].sums = Without(mine[t].sums, i)]
     /\ UNCHANGED <<op, rebuilt, acked>>
  \/ /\ op[t].kind = "delete" /\ i # 0 /\ Goto(t, "open")
     /\ mine' = [mine EXCEPT ![t].sums = Without(mine[t].sums, i)]
     /\ UNCHANGED <<op, rebuilt, found, acked>>
  \/ /\ op[t].kind = "compact" /\ Goto(t, "rename")
     /\ rebuilt' = [rebuilt EXCEPT ![t].sums = sums]
     /\ UNCHANGED <<op, mine, found, acked>>

LEMMA UseEntriesIs ==
  ASSUME NEW t \in Threads, NEW sums \in Seq(Entry), UseEntries(t, sums),
         op[t].kind \in {"save", "delete", "list", "compact"}
  PROVE  \E i \in 0..Len(sums) : (i # 0 => Matches(sums[i], op[t].key)) /\ Used(t, sums, i)
<1>1. PICK i \in 0..Len(sums) : i = Find(sums, op[t].key) /\ (i # 0 => Matches(sums[i], op[t].key))
  BY FindIs
<1>2. Used(t, sums, i)
  <2>1. CASE op[t].kind = "list"
    BY <1>1, <2>1 DEF UseEntries, Used
  <2>2. CASE op[t].kind = "save"
    BY <1>1, <2>2 DEF UseEntries, Used
  <2>3. CASE op[t].kind = "delete" /\ i = 0
    BY <1>1, <2>3 DEF UseEntries, Used
  <2>4. CASE op[t].kind = "delete" /\ i # 0
    BY <1>1, <2>4 DEF UseEntries, Used
  <2>5. CASE op[t].kind = "compact"
    BY <1>1, <2>5 DEF UseEntries, Used
  <2> QED BY <2>1, <2>2, <2>3, <2>4, <2>5
<1> QED BY <1>1, <1>2

-----------------------------------------------------------------------------
(* Types *)

(* Which calls reach which steps. *)
CallOK(t) ==
  /\ pc[t] # "idle" => op[t].kind \in {"save", "delete", "list", "compact"}
  /\ op[t].kind \in {"save", "delete"} => op[t].key \in Keys
  /\ op[t].kind = "compact" => op[t].key = None
  /\ op[t].kind = "save" => op[t].ver # 0
  /\ pc[t] = "append" => op[t].kind = "save"
  /\ pc[t] = "rename" => op[t].kind = "compact"
  /\ pc[t] \in {"open", "write"} => op[t].kind # "list"

TInv ==
  /\ TypeOK
  /\ \A i \in 1..Len(mbx) : Shaped(mbx[i])
  /\ \A t \in Threads : CallOK(t)

LEMMA InitTyped == Init => TInv
<1> SUFFICES ASSUME Init PROVE TInv
  OBVIOUS
<1>1. EmptyToc \in Table
  <2>1. <<>> \in Seq(Stored)
    OBVIOUS
  <2> QED BY <2>1, EmptyTyped
<1>2. TypeOK
  <2>1. 0 \in 0..MaxSaves /\ 0 \in 0..MaxCrashes
    BY MailStoreAssumption
  <2> QED BY <1>1, <2>1 DEF Init, TypeOK, Idle
<1>3. \A t \in Threads : CallOK(t)
  BY DEF Init, CallOK, Idle
<1> QED BY <1>2, <1>3 DEF TInv, Init

LEMMA NewRecordTyped ==
  ASSUME TInv, NEW t \in Threads, pc[t] = "append"
  PROVE  /\ NewRecord(t) \in Stored /\ Shaped(NewRecord(t))
         /\ NewRecord(t).uid # 0 /\ NewRecord(t).tear = "none" /\ NewRecord(t).ver = op[t].ver
         /\ NewRecord(t).key = IF found[t] # None /\ found[t].key # None THEN found[t].key ELSE op[t].key
         /\ NewRecord(t).uid = CASE found[t] # None -> found[t].uid
                                 [] found[t] = None /\ NumericId[op[t].key] # 0 -> NumericId[op[t].key]
                                 [] found[t] = None /\ NumericId[op[t].key] = 0 -> mine[t].next + 1
<1> DEFINE key == IF found[t] # None /\ found[t].key # None THEN found[t].key ELSE op[t].key
           uid == CASE found[t] # None -> found[t].uid
                    [] found[t] = None /\ NumericId[op[t].key] # 0 -> NumericId[op[t].key]
                    [] found[t] = None /\ NumericId[op[t].key] = 0 -> mine[t].next + 1
<1>1. /\ op[t].key \in Keys /\ op[t].ver \in 0..MaxSaves
      /\ found[t] \in Entry \cup {None} /\ mine[t] \in Table
  BY DEF TInv, TypeOK, CallOK
<1>2. mine[t].next \in Nat /\ NumericId[op[t].key] \in Nat
  BY <1>1, MailStoreAssumption DEF Table
<1>3. found[t] # None => found[t].key \in Keys \cup {None} /\ found[t].uid \in Nat \ {0}
  BY <1>1 DEF Entry
<1>4. key \in Keys \cup {None}
  BY <1>1, <1>3
<1>5. uid \in Nat /\ uid # 0
  BY <1>2, <1>3
<1>6. NewRecord(t) = [key |-> key, ver |-> op[t].ver, uid |-> uid, tear |-> "none", glued |-> FALSE]
  BY DEF NewRecord, Whole, Record
<1> HIDE DEF key, uid
<1>7. NewRecord(t) \in Stored
  BY <1>1, <1>4, <1>5, <1>6 DEF Stored
<1>8. ~NewRecord(t).glued /\ NewRecord(t).tear = "none"
  BY <1>6
<1>9. Shaped(NewRecord(t))
  BY <1>8 DEF Shaped
<1>10. NewRecord(t).uid = uid /\ NewRecord(t).key = key /\ NewRecord(t).ver = op[t].ver
  BY <1>6
<1>11. NewRecord(t).uid # 0
  BY <1>5, <1>10
<1> QED BY <1>7, <1>8, <1>9, <1>10, <1>11 DEF key, uid

LEMMA TornTyped ==
  ASSUME NEW k \in Keys \cup {None}, NEW uid \in Nat, NEW r \in Torn(k, uid)
  PROVE  /\ r \in Stored /\ Shaped(r) /\ r.ver = 0 /\ r.tear # "none"
         /\ r.uid = 0 \/ (r.uid = uid /\ r.key = k)
<1>1. PICK tear \in {"stub", "envelope", "head", "body"}, g \in BOOLEAN :
        /\ r = Record(None, 0, 0, tear, g) \/ r = Record(k, 0, uid, tear, g)
        /\ tear \in {"stub", "envelope"} => g
  <2> DEFINE Early == {Record(None, 0, 0, "stub", TRUE), Record(None, 0, 0, "envelope", TRUE)}
             Unnamed == {Record(None, 0, 0, "head", g) : g \in BOOLEAN}
             Whose == {Record(k, 0, uid, tear, g) : tear \in {"head", "body"}, g \in BOOLEAN}
  <2>1. CASE r \in Early
    BY <2>1
  <2>2. CASE r \in Unnamed
    BY <2>2
  <2>3. CASE r \in Whose
    <3>1. PICK tear \in {"head", "body"}, g \in BOOLEAN : r = Record(k, 0, uid, tear, g)
      BY <2>3
    <3> QED BY <3>1
  <2>4. Torn(k, uid) = (Early \cup Unnamed) \cup Whose
    BY DEF Torn
  <2> HIDE DEF Early, Unnamed, Whose
  <2> QED BY <2>1, <2>2, <2>3, <2>4
<1>2. \/ r = [key |-> None, ver |-> 0, uid |-> 0, tear |-> tear, glued |-> g]
      \/ r = [key |-> k, ver |-> 0, uid |-> uid, tear |-> tear, glued |-> g]
  BY <1>1 DEF Record
<1>3. 0 \in 0..MaxSaves
  BY MailStoreAssumption
<1>4. r \in Stored
  BY <1>2, <1>3 DEF Stored
<1>5. r.ver = 0 /\ r.tear = tear /\ r.glued = g
  BY <1>2
<1>6. Shaped(r)
  BY <1>1, <1>5 DEF Shaped
<1>7. r.uid = 0 \/ (r.uid = uid /\ r.key = k)
  BY <1>2
<1> QED BY <1>4, <1>5, <1>6, <1>7

(* One call moves, as the types and the calls ask. *)
Moves(t, p, o, m, b, f) ==
  /\ pc' = [pc EXCEPT ![t] = p] /\ op' = [op EXCEPT ![t] = o]
  /\ mine' = [mine EXCEPT ![t] = m] /\ rebuilt' = [rebuilt EXCEPT ![t] = b]
  /\ found' = [found EXCEPT ![t] = f]
  /\ p \in {"idle", "load", "load-open", "load-write", "look", "look-open", "look-write",
            "append", "rename", "open", "write"}
  /\ o \in [kind : Ops \cup {"none"}, key : Keys \cup {None}, ver : 0..MaxSaves]
  /\ m \in Table /\ b \in Table /\ f \in Entry \cup {None}
  /\ p # "idle" => o.kind \in {"save", "delete", "list", "compact"}
  /\ o.kind \in {"save", "delete"} => o.key \in Keys
  /\ o.kind = "compact" => o.key = None
  /\ o.kind = "save" => o.ver # 0
  /\ p = "append" => o.kind = "save"
  /\ p = "rename" => o.kind = "compact"
  /\ p \in {"open", "write"} => o.kind # "list"

(* What all calls share stays typed. *)
SharedTyped ==
  /\ mbx' \in Seq(Stored) /\ (\A i \in 1..Len(mbx') : Shaped(mbx'[i]))
  /\ toc' \in Table \cup {None}
  /\ saves' \in 0..MaxSaves /\ crashes' \in 0..MaxCrashes
  /\ acked' \in [Keys -> (1..MaxSaves) \cup {None}] /\ shadowed' \subseteq 1..MaxSaves

LEMMA OneMoves ==
  ASSUME TInv, NEW t \in Threads, NEW p, NEW o, NEW m, NEW b, NEW f,
         Moves(t, p, o, m, b, f), SharedTyped
  PROVE  TInv'
<1>1. /\ pc \in [Threads -> {"idle", "load", "load-open", "load-write", "look", "look-open", "look-write",
                             "append", "rename", "open", "write"}]
      /\ op \in [Threads -> [kind : Ops \cup {"none"}, key : Keys \cup {None}, ver : 0..MaxSaves]]
      /\ mine \in [Threads -> Table] /\ rebuilt \in [Threads -> Table]
      /\ found \in [Threads -> Entry \cup {None}]
  BY DEF TInv, TypeOK
<1>a. /\ pc' = [pc EXCEPT ![t] = p] /\ op' = [op EXCEPT ![t] = o]
      /\ mine' = [mine EXCEPT ![t] = m] /\ rebuilt' = [rebuilt EXCEPT ![t] = b]
      /\ found' = [found EXCEPT ![t] = f] /\ m \in Table /\ b \in Table /\ f \in Entry \cup {None}
      /\ o \in [kind : Ops \cup {"none"}, key : Keys \cup {None}, ver : 0..MaxSaves]
      /\ p \in {"idle", "load", "load-open", "load-write", "look", "look-open", "look-write",
               "append", "rename", "open", "write"}
  BY DEF Moves
<1>2. /\ pc' \in [Threads -> {"idle", "load", "load-open", "load-write", "look", "look-open", "look-write",
                              "append", "rename", "open", "write"}]
      /\ op' \in [Threads -> [kind : Ops \cup {"none"}, key : Keys \cup {None}, ver : 0..MaxSaves]]
  BY <1>1, <1>a
<1>3. mine' \in [Threads -> Table] /\ rebuilt' \in [Threads -> Table]
      /\ found' \in [Threads -> Entry \cup {None}]
  BY <1>1, <1>a
<1>4. TypeOK'
  BY <1>2, <1>3 DEF TypeOK, SharedTyped
<1>5. ASSUME NEW s \in Threads PROVE CallOK(s)'
  <2>1. CASE s = t
    <3>1. pc'[s] = p /\ op'[s] = o
      BY <1>1, <1>a, <2>1
    <3> QED BY <3>1 DEF CallOK, Moves
  <2>2. CASE s # t
    <3>1. pc'[s] = pc[s] /\ op'[s] = op[s] /\ CallOK(s)
      BY <1>1, <1>a, <2>2 DEF TInv
    <3> QED BY <3>1 DEF CallOK
  <2> QED BY <2>1, <2>2
<1> QED BY <1>4, <1>5 DEF TInv, SharedTyped

LEMMA ReturnTyped ==
  ASSUME TInv, NEW t \in Threads, Return(t), UNCHANGED <<mbx, saves, crashes, shadowed>>,
         toc' \in Table \cup {None}, acked' \in [Keys -> (1..MaxSaves) \cup {None}]
  PROVE  TInv'
<1>1. EmptyToc \in Table
  <2>1. <<>> \in Seq(Stored)
    OBVIOUS
  <2> QED BY <2>1, EmptyTyped
<1>2. Idle \in [kind : Ops \cup {"none"}, key : Keys \cup {None}, ver : 0..MaxSaves]
  <2>1. 0 \in 0..MaxSaves
    BY MailStoreAssumption
  <2> QED BY <2>1 DEF Idle
<1>3. /\ pc' = [pc EXCEPT ![t] = "idle"] /\ op' = [op EXCEPT ![t] = Idle]
      /\ mine' = [mine EXCEPT ![t] = EmptyToc] /\ rebuilt' = [rebuilt EXCEPT ![t] = EmptyToc]
      /\ found' = [found EXCEPT ![t] = None]
  BY DEF Return, Goto
<1>4. Idle.kind = "none"
  BY DEF Idle
<1>5. /\ mbx' \in Seq(Stored) /\ \A i \in 1..Len(mbx') : Shaped(mbx'[i])
      /\ saves' \in 0..MaxSaves /\ crashes' \in 0..MaxCrashes /\ shadowed' \subseteq 1..MaxSaves
  BY DEF TInv, TypeOK
<1>6. SharedTyped
  BY <1>5 DEF SharedTyped
<1>7. Moves(t, "idle", Idle, EmptyToc, EmptyToc, None)
  BY <1>1, <1>2, <1>3, <1>4 DEF Moves
<1> QED BY <1>6, <1>7, OneMoves

LEMMA CallTyped ==
  ASSUME TInv, NEW t \in Threads
  PROVE  /\ pc[t] \in {"idle", "load", "load-open", "load-write", "look", "look-open", "look-write",
                       "append", "rename", "open", "write"}
         /\ op[t] \in [kind : Ops \cup {"none"}, key : Keys \cup {None}, ver : 0..MaxSaves]
         /\ mine[t] \in Table /\ rebuilt[t] \in Table /\ found[t] \in Entry \cup {None}
         /\ mine[t].sums \in Seq(Entry) /\ mine[t].next \in Nat
         /\ op = [op EXCEPT ![t] = op[t]] /\ mine = [mine EXCEPT ![t] = mine[t]]
         /\ rebuilt = [rebuilt EXCEPT ![t] = rebuilt[t]] /\ found = [found EXCEPT ![t] = found[t]]
         /\ mbx \in Seq(Stored) /\ (\A i \in 1..Len(mbx) : Shaped(mbx[i]))
         /\ toc \in Table \cup {None} /\ saves \in 0..MaxSaves /\ crashes \in 0..MaxCrashes
         /\ acked \in [Keys -> (1..MaxSaves) \cup {None}] /\ shadowed \subseteq 1..MaxSaves
         /\ CallOK(t)
<1>1. /\ pc \in [Threads -> {"idle", "load", "load-open", "load-write", "look", "look-open", "look-write",
                             "append", "rename", "open", "write"}]
      /\ op \in [Threads -> [kind : Ops \cup {"none"}, key : Keys \cup {None}, ver : 0..MaxSaves]]
      /\ mine \in [Threads -> Table] /\ rebuilt \in [Threads -> Table]
      /\ found \in [Threads -> Entry \cup {None}]
      /\ mbx \in Seq(Stored) /\ (\A i \in 1..Len(mbx) : Shaped(mbx[i]))
      /\ toc \in Table \cup {None} /\ saves \in 0..MaxSaves /\ crashes \in 0..MaxCrashes
      /\ acked \in [Keys -> (1..MaxSaves) \cup {None}] /\ shadowed \subseteq 1..MaxSaves
      /\ CallOK(t)
  BY DEF TInv, TypeOK
<1>2. mine[t] \in Table /\ mine[t].sums \in Seq(Entry) /\ mine[t].next \in Nat
  BY <1>1 DEF Table
<1>3. /\ op[t] \in [kind : Ops \cup {"none"}, key : Keys \cup {None}, ver : 0..MaxSaves]
      /\ pc[t] \in {"idle", "load", "load-open", "load-write", "look", "look-open", "look-write",
                    "append", "rename", "open", "write"}
  BY <1>1
<1>4. rebuilt[t] \in Table /\ found[t] \in Entry \cup {None}
  BY <1>1
<1>5. /\ op = [op EXCEPT ![t] = op[t]] /\ mine = [mine EXCEPT ![t] = mine[t]]
      /\ rebuilt = [rebuilt EXCEPT ![t] = rebuilt[t]] /\ found = [found EXCEPT ![t] = found[t]]
  BY <1>1
<1> QED BY <1>1, <1>2, <1>3, <1>4, <1>5
LEMMA BeginTyped ==
  ASSUME TInv, NEW t \in Threads, NEW kind \in Ops, NEW k \in Keys \cup {None}, Begin(t, kind, k)
  PROVE  TInv'
<1> DEFINE o == [kind |-> kind, key |-> k, ver |-> saves']
           p == IF kind = "list" THEN "look" ELSE "load"
<1>1. /\ kind \in {"save", "delete", "list", "compact"}
      /\ kind \in {"list", "compact"} <=> k = None
      /\ saves' \in 0..MaxSaves
      /\ kind = "save" => saves' # 0
  <2>1. kind \in {"save", "delete", "list", "compact"} /\ MaxSaves \in Nat /\ saves \in 0..MaxSaves
    BY MailStoreAssumption, CallTyped
  <2>2. saves' = IF kind = "save" THEN saves + 1 ELSE saves
    BY DEF Begin
  <2>3. kind = "save" => saves < MaxSaves
    BY DEF Begin
  <2>4. kind \in {"list", "compact"} <=> k = None
    BY DEF Begin
  <2> QED BY <2>1, <2>2, <2>3, <2>4
<1>2. o \in [kind : Ops \cup {"none"}, key : Keys \cup {None}, ver : 0..MaxSaves]
  BY <1>1
<1>3. /\ o.kind = kind /\ o.key = k /\ o.ver = saves' /\ p \in {"look", "load"}
  OBVIOUS
<1>4. /\ pc' = [pc EXCEPT ![t] = p] /\ op' = [op EXCEPT ![t] = o]
      /\ UNCHANGED <<mbx, toc, mine, rebuilt, found, crashes, acked, shadowed>>
  BY DEF Begin, Goto
<1> HIDE DEF o, p
<1>5. /\ o.kind \in {"save", "delete"} => o.key \in Keys
      /\ o.kind = "compact" => o.key = None
      /\ o.kind = "save" => o.ver # 0
      /\ o.kind \in {"save", "delete", "list", "compact"}
  BY <1>1, <1>3, MailStoreAssumption
<1>6. SharedTyped
  BY <1>1, <1>4, CallTyped DEF SharedTyped
<1>7. Moves(t, p, o, mine[t], rebuilt[t], found[t])
  BY <1>2, <1>3, <1>4, <1>5, CallTyped DEF Moves
<1> QED BY <1>6, <1>7, OneMoves

LEMMA LoadTyped ==
  ASSUME TInv, NEW t \in Threads, Load(t) \/ OpenRebuilt(t)
  PROVE  TInv'
<1>1. CASE Load(t) /\ Fresh
  <2>1. toc \in Table
    BY <1>1, CallTyped DEF Fresh
  <2>2. /\ pc[t] = "load" /\ mine' = [mine EXCEPT ![t] = toc] /\ pc' = [pc EXCEPT ![t] = "look"]
        /\ UNCHANGED <<mbx, toc, op, rebuilt, found, saves, crashes, acked, shadowed>>
    BY <1>1 DEF Load, Goto
  <2>8. SharedTyped
    BY <2>1, <2>2, CallTyped DEF SharedTyped
  <2>9. Moves(t, "look", op[t], toc, rebuilt[t], found[t])
    BY <2>1, <2>2, CallTyped DEF CallOK, Moves
  <2> QED BY <2>8, <2>9, OneMoves
<1>2. CASE Load(t) /\ ~Fresh
  <2>1. Rebuild(mbx) \in Table
    BY CallTyped, RebuildTyped
  <2>2. /\ pc[t] = "load" /\ rebuilt' = [rebuilt EXCEPT ![t] = Rebuild(mbx)]
        /\ pc' = [pc EXCEPT ![t] = "load-open"]
        /\ UNCHANGED <<mbx, toc, op, mine, found, saves, crashes, acked, shadowed>>
    BY <1>2 DEF Load, Goto
  <2>8. SharedTyped
    BY <2>1, <2>2, CallTyped DEF SharedTyped
  <2>9. Moves(t, "load-open", op[t], mine[t], Rebuild(mbx), found[t])
    BY <2>1, <2>2, CallTyped DEF CallOK, Moves
  <2> QED BY <2>8, <2>9, OneMoves
<1>3. CASE OpenRebuilt(t)
  <2> DEFINE b == [rebuilt[t] EXCEPT !.of = mbx]
             p == IF pc[t] = "load-open" THEN "load-write" ELSE "look-write"
  <2>1. b \in Table
    BY CallTyped DEF Table
  <2>2. /\ pc[t] \in {"load-open", "look-open"} /\ toc' = None
        /\ rebuilt' = [rebuilt EXCEPT ![t] = b] /\ pc' = [pc EXCEPT ![t] = p]
        /\ UNCHANGED <<mbx, op, mine, found, saves, crashes, acked, shadowed>>
    BY <1>3 DEF OpenRebuilt, Goto
  <2>3. p \in {"load-write", "look-write"}
    OBVIOUS
  <2> HIDE DEF b, p
  <2>8. SharedTyped
    BY <2>1, <2>2, <2>3, CallTyped DEF SharedTyped
  <2>9. Moves(t, p, op[t], mine[t], b, found[t])
    BY <2>1, <2>2, <2>3, CallTyped DEF CallOK, Moves
  <2> QED BY <2>8, <2>9, OneMoves
<1> QED BY <1>1, <1>2, <1>3

(* Reading the entries, with the TOC as it is or as a rebuild has written it. *)
LEMMA UsedTyped ==
  ASSUME TInv, NEW t \in Threads, NEW sums \in Seq(Entry),
         pc[t] # "idle", UseEntries(t, sums), toc' \in Table \cup {None},
         UNCHANGED <<mbx, saves, crashes, shadowed>>
  PROVE  TInv'
<1>1. op[t].kind \in {"save", "delete", "list", "compact"}
  BY CallTyped DEF CallOK
<1>2. PICK i \in 0..Len(sums) : Used(t, sums, i)
  BY <1>1, UseEntriesIs
<1>3. CASE op[t].kind = "list" /\ Return(t) /\ UNCHANGED acked
  BY <1>3, CallTyped, ReturnTyped
<1>4. CASE op[t].kind = "delete" /\ Return(t) /\ acked' = [acked EXCEPT ![op[t].key] = None]
  <2>1. acked' \in [Keys -> (1..MaxSaves) \cup {None}]
    BY <1>4, CallTyped
  <2> QED BY <1>4, <2>1, ReturnTyped
<1> DEFINE m == [mine[t] EXCEPT !.sums = Without(mine[t].sums, i)]
           b == [rebuilt[t] EXCEPT !.sums = sums]
<1>5. m \in Table /\ b \in Table
  <2>1. i \in Nat
    OBVIOUS
  <2>2. Without(mine[t].sums, i) \in Seq(Entry)
    BY <2>1, CallTyped, WithoutIs
  <2> QED BY ZenonT(60), <2>2, CallTyped DEF Table
<1>6. CASE /\ op[t].kind = "save" /\ Goto(t, "append")
           /\ found' = [found EXCEPT ![t] = IF i = 0 THEN None ELSE sums[i]]
           /\ mine' = [mine EXCEPT ![t].sums = Without(mine[t].sums, i)]
           /\ UNCHANGED <<op, rebuilt, acked>>
  <2> DEFINE f == IF i = 0 THEN None ELSE sums[i]
  <2>1. f \in Entry \cup {None}
    OBVIOUS
  <2>2. /\ pc' = [pc EXCEPT ![t] = "append"] /\ found' = [found EXCEPT ![t] = f]
        /\ mine' = [mine EXCEPT ![t] = m]
    BY <1>6 DEF Goto
  <2> HIDE DEF m, f
  <2>8. SharedTyped
    BY <1>5, <1>6, <2>1, <2>2, CallTyped DEF SharedTyped
  <2>9. Moves(t, "append", op[t], m, rebuilt[t], f)
    BY <1>5, <1>6, <2>1, <2>2, CallTyped DEF CallOK, Moves
  <2> QED BY <2>8, <2>9, OneMoves
<1>7. CASE /\ op[t].kind = "delete" /\ i # 0 /\ Goto(t, "open")
           /\ mine' = [mine EXCEPT ![t].sums = Without(mine[t].sums, i)]
           /\ UNCHANGED <<op, rebuilt, found, acked>>
  <2>1. pc' = [pc EXCEPT ![t] = "open"] /\ mine' = [mine EXCEPT ![t] = m]
    BY <1>7 DEF Goto
  <2> HIDE DEF m
  <2>8. SharedTyped
    BY <1>5, <1>7, <2>1, CallTyped DEF SharedTyped
  <2>9. Moves(t, "open", op[t], m, rebuilt[t], found[t])
    BY <1>5, <1>7, <2>1, CallTyped DEF CallOK, Moves
  <2> QED BY <2>8, <2>9, OneMoves
<1>8. CASE /\ op[t].kind = "compact" /\ Goto(t, "rename")
           /\ rebuilt' = [rebuilt EXCEPT ![t].sums = sums]
           /\ UNCHANGED <<op, mine, found, acked>>
  <2>1. pc' = [pc EXCEPT ![t] = "rename"] /\ rebuilt' = [rebuilt EXCEPT ![t] = b]
    BY <1>8 DEF Goto
  <2> HIDE DEF b
  <2>8. SharedTyped
    BY <1>5, <1>8, <2>1, CallTyped DEF SharedTyped
  <2>9. Moves(t, "rename", op[t], mine[t], b, found[t])
    BY <1>5, <1>8, <2>1, CallTyped DEF CallOK, Moves
  <2> QED BY <2>8, <2>9, OneMoves
<1> QED BY <1>2, <1>3, <1>4, <1>6, <1>7, <1>8 DEF Used

LEMMA ReadTyped ==
  ASSUME TInv, NEW t \in Threads, WriteRebuilt(t) \/ Look(t)
  PROVE  TInv'
<1>0. rebuilt[t] \in Table /\ rebuilt[t].sums \in Seq(Entry) /\ mbx \in Seq(Stored)
  <2>1. rebuilt[t] \in Table /\ mbx \in Seq(Stored)
    BY CallTyped
  <2> QED BY <2>1 DEF Table
<1>1. CASE /\ pc[t] = "load-write" /\ mine' = [mine EXCEPT ![t] = rebuilt[t]]
           /\ Goto(t, "look") /\ UNCHANGED <<op, rebuilt, found, acked>>
           /\ toc' = rebuilt[t] /\ UNCHANGED <<mbx, saves, crashes, shadowed>>
  <2>1. SharedTyped
    BY <1>0, <1>1, CallTyped DEF SharedTyped
  <2>2. Moves(t, "look", op[t], rebuilt[t], rebuilt[t], found[t])
    BY <1>0, <1>1, CallTyped DEF CallOK, Moves, Goto
  <2> QED BY <2>1, <2>2, OneMoves
<1>2. CASE /\ pc[t] = "look-write" /\ UseEntries(t, rebuilt[t].sums)
           /\ toc' = rebuilt[t] /\ UNCHANGED <<mbx, saves, crashes, shadowed>>
  BY <1>0, <1>2, UsedTyped
<1>3. CASE Look(t) /\ Fresh
  <2>1. toc \in Table /\ toc.sums \in Seq(Entry)
    BY <1>3, CallTyped DEF Fresh, Table
  <2>2. /\ pc[t] = "look" /\ UseEntries(t, toc.sums)
        /\ UNCHANGED <<mbx, toc, saves, crashes, shadowed>>
    BY <1>3 DEF Look
  <2> QED BY <2>1, <2>2, UsedTyped
<1>4. CASE Look(t) /\ ~Fresh
  <2>1. Rebuild(mbx) \in Table
    BY <1>0, RebuildTyped
  <2>2. /\ pc[t] = "look" /\ rebuilt' = [rebuilt EXCEPT ![t] = Rebuild(mbx)]
        /\ pc' = [pc EXCEPT ![t] = "look-open"]
        /\ UNCHANGED <<mbx, toc, op, mine, found, saves, crashes, acked, shadowed>>
    BY <1>4 DEF Look, Goto
  <2>3. SharedTyped
    BY <2>1, <2>2, CallTyped DEF SharedTyped
  <2>4. Moves(t, "look-open", op[t], mine[t], Rebuild(mbx), found[t])
    BY <2>1, <2>2, CallTyped DEF CallOK, Moves
  <2> QED BY <2>3, <2>4, OneMoves
<1> QED BY <1>1, <1>2, <1>3, <1>4 DEF WriteRebuilt

(* What an append and a compaction write. *)
LEMMA Grows ==
  ASSUME NEW file \in Seq(Stored), \A i \in 1..Len(file) : Shaped(file[i]),
         NEW r \in Stored, Shaped(r)
  PROVE  /\ Append(file, r) \in Seq(Stored)
         /\ \A i \in 1..Len(Append(file, r)) : Shaped(Append(file, r)[i])
<1>1. /\ Append(file, r) \in Seq(Stored) /\ Len(Append(file, r)) = Len(file) + 1 /\ Len(file) \in Nat
      /\ \A i \in 1..Len(file) : Append(file, r)[i] = file[i]
      /\ Append(file, r)[Len(file) + 1] = r
  OBVIOUS
<1>2. \A i \in 1..(Len(file) + 1) : i \in 1..Len(file) \/ i = Len(file) + 1
  BY <1>1
<1> QED BY <1>1, <1>2

LEMMA AppendTyped ==
  ASSUME TInv, NEW t \in Threads, AppendRecord(t)
  PROVE  TInv'
<1> DEFINE m == AddEntry(mine[t], NewRecord(t))
<1>1. /\ pc[t] = "append" /\ mbx' = Append(mbx, NewRecord(t))
      /\ shadowed' = (IF EndsInCutLine THEN shadowed \cup {op[t].ver} ELSE shadowed)
      /\ mine' = [mine EXCEPT ![t] = m] /\ pc' = [pc EXCEPT ![t] = "open"]
      /\ UNCHANGED <<toc, op, rebuilt, found, saves, crashes, acked>>
  BY DEF AppendRecord, Goto
<1>2. NewRecord(t) \in Stored /\ Shaped(NewRecord(t))
  BY <1>1, NewRecordTyped
<1>3. m \in Table
  BY <1>2, CallTyped, AddEntryIs
<1>4. op[t].kind = "save" /\ op[t].ver \in 1..MaxSaves
  <2>1. op[t].ver \in 0..MaxSaves /\ op[t].ver # 0 /\ MaxSaves \in Nat
    BY <1>1, CallTyped, MailStoreAssumption DEF CallOK
  <2> QED BY <1>1, <2>1, CallTyped DEF CallOK
<1> HIDE DEF m
<1>5. mbx' \in Seq(Stored) /\ (\A i \in 1..Len(mbx') : Shaped(mbx'[i]))
  BY <1>1, <1>2, CallTyped, Grows
<1>6. SharedTyped
  BY <1>1, <1>4, <1>5, CallTyped DEF SharedTyped
<1>7. Moves(t, "open", op[t], m, rebuilt[t], found[t])
  BY <1>1, <1>3, <1>4, CallTyped DEF CallOK, Moves
<1> QED BY <1>6, <1>7, OneMoves

LEMMA CompactedTyped ==
  ASSUME NEW sums \in Seq(Entry), NEW file, file = Compacted(sums)
  PROVE  file \in Seq(Stored) /\ (\A i \in 1..Len(file) : Shaped(file[i]))
<1>1. Len(sums) \in Nat
  OBVIOUS
<1>2. ASSUME NEW i \in 1..Len(sums)
      PROVE  file[i] \in Stored /\ Shaped(file[i])
  <2>1. file[i] = [key |-> sums[i].key, ver |-> sums[i].ver, uid |-> sums[i].uid,
                   tear |-> "none", glued |-> FALSE]
    BY DEF Compacted, Whole, Record
  <2>2. sums[i] \in Entry
    OBVIOUS
  <2>3. sums[i].key \in Keys \cup {None} /\ sums[i].ver \in 0..MaxSaves /\ sums[i].uid \in Nat
    BY <2>2 DEF Entry
  <2>4. file[i] \in Stored
    BY <2>1, <2>3 DEF Stored
  <2>5. ~file[i].glued /\ file[i].tear = "none"
    BY <2>1
  <2> QED BY <2>4, <2>5 DEF Shaped
<1>3. file = [i \in 1..Len(sums) |-> file[i]]
  BY DEF Compacted
<1>4. file \in Seq(Stored) /\ Len(file) = Len(sums)
  <2>1. file \in [1..Len(sums) -> Stored]
    BY <1>2, <1>3
  <2> QED BY <1>1, <2>1
<1> QED BY <1>2, <1>4

LEMMA RewriteTyped ==
  ASSUME TInv, NEW t \in Threads, RenameCompacted(t) \/ Open(t) \/ Write(t)
  PROVE  TInv'
<1>1. CASE RenameCompacted(t)
  <2> DEFINE m == [mine[t] EXCEPT !.sums = rebuilt[t].sums]
  <2>1. /\ pc[t] = "rename" /\ mbx' = Compacted(rebuilt[t].sums)
        /\ mine' = [mine EXCEPT ![t] = m] /\ pc' = [pc EXCEPT ![t] = "open"]
        /\ UNCHANGED <<toc, op, rebuilt, found, saves, crashes, acked, shadowed>>
    BY <1>1 DEF RenameCompacted, Compacted, Goto
  <2>2. rebuilt[t] \in Table /\ rebuilt[t].sums \in Seq(Entry) /\ m \in Table
    <3>1. rebuilt[t] \in Table /\ mine[t] \in Table
      BY CallTyped
    <3> QED BY <3>1 DEF Table
  <2> HIDE DEF m
  <2>3. mbx' \in Seq(Stored) /\ (\A i \in 1..Len(mbx') : Shaped(mbx'[i]))
    BY <2>1, <2>2, CompactedTyped
  <2>4. SharedTyped
    BY <2>1, <2>3, CallTyped DEF SharedTyped
  <2>5. Moves(t, "open", op[t], m, rebuilt[t], found[t])
    BY <2>1, <2>2, CallTyped DEF CallOK, Moves
  <2> QED BY <2>4, <2>5, OneMoves
<1>2. CASE Open(t)
  <2> DEFINE m == [mine[t] EXCEPT !.of = mbx]
  <2>1. /\ pc[t] = "open" /\ toc' = None
        /\ mine' = [mine EXCEPT ![t] = m] /\ pc' = [pc EXCEPT ![t] = "write"]
        /\ UNCHANGED <<mbx, op, rebuilt, found, saves, crashes, acked, shadowed>>
    BY <1>2 DEF Open, Goto
  <2>2. m \in Table
    BY CallTyped DEF Table
  <2> HIDE DEF m
  <2>3. SharedTyped
    BY <2>1, CallTyped DEF SharedTyped
  <2>4. Moves(t, "write", op[t], m, rebuilt[t], found[t])
    BY <2>1, <2>2, CallTyped DEF CallOK, Moves
  <2> QED BY <2>3, <2>4, OneMoves
<1>3. CASE Write(t)
  <2>1. /\ pc[t] = "write" /\ toc' = mine[t] /\ Return(t)
        /\ UNCHANGED <<mbx, saves, crashes, shadowed>>
        /\ op[t].kind \in {"save", "delete", "compact"}
    BY <1>3, CallTyped DEF Write, CallOK
  <2>2. acked' \in [Keys -> (1..MaxSaves) \cup {None}]
    <3>1. op[t].kind = "save" => op[t].ver \in 1..MaxSaves
      <4>1. op[t].ver \in 0..MaxSaves /\ MaxSaves \in Nat
        BY CallTyped, MailStoreAssumption
      <4> QED BY <4>1, CallTyped DEF CallOK
    <3>2. CASE op[t].kind = "save"
      <4>1. acked' = [acked EXCEPT ![op[t].key] = op[t].ver]
        BY <1>3, <3>2 DEF Write
      <4> QED BY <3>1, <3>2, <4>1, CallTyped
    <3>3. CASE op[t].kind = "delete"
      <4>1. acked' = [acked EXCEPT ![op[t].key] = None]
        BY <1>3, <3>3 DEF Write
      <4> QED BY <4>1, CallTyped
    <3>4. CASE op[t].kind = "compact"
      <4>1. acked' = acked
        BY <1>3, <3>4 DEF Write
      <4> QED BY <4>1, CallTyped
    <3> QED BY <2>1, <3>2, <3>3, <3>4
  <2> QED BY <2>1, <2>2, CallTyped, ReturnTyped
<1> QED BY <1>1, <1>2, <1>3

LEMMA CrashTyped ==
  ASSUME TInv, Crash
  PROVE  TInv'
<1>1. /\ crashes < MaxCrashes /\ crashes' = crashes + 1 /\ crashes \in 0..MaxCrashes /\ MaxCrashes \in Nat
      /\ pc' = [t \in Threads |-> "idle"] /\ op' = [t \in Threads |-> Idle]
      /\ mine' = [t \in Threads |-> EmptyToc] /\ rebuilt' = [t \in Threads |-> EmptyToc]
      /\ found' = [t \in Threads |-> None] /\ UNCHANGED <<toc, saves, acked, shadowed>>
  BY MailStoreAssumption DEF Crash, TInv, TypeOK
<1>2. mbx' \in Seq(Stored) /\ (\A i \in 1..Len(mbx') : Shaped(mbx'[i]))
  <2>1. CASE UNCHANGED mbx
    BY <2>1 DEF TInv, TypeOK
  <2>2. CASE \E t \in Threads : /\ pc[t] = "append"
                                /\ \E r \in Torn(NewRecord(t).key, NewRecord(t).uid) : mbx' = Append(mbx, r)
    <3>1. PICK t \in Threads : /\ pc[t] = "append"
                               /\ \E r \in Torn(NewRecord(t).key, NewRecord(t).uid) : mbx' = Append(mbx, r)
      BY <2>2
    <3>2. PICK r \in Torn(NewRecord(t).key, NewRecord(t).uid) : mbx' = Append(mbx, r)
      BY <3>1
    <3>3. NewRecord(t).key \in Keys \cup {None} /\ NewRecord(t).uid \in Nat
      BY <3>1, NewRecordTyped DEF Stored
    <3>4. r \in Stored /\ Shaped(r)
      BY <3>3, TornTyped
    <3> QED BY <3>2, <3>4, CallTyped, Grows
  <2> QED BY <2>1, <2>2 DEF Crash
<1>3. EmptyToc \in Table
  <2>1. <<>> \in Seq(Stored)
    OBVIOUS
  <2> QED BY <2>1, EmptyTyped
<1>4. Idle \in [kind : Ops \cup {"none"}, key : Keys \cup {None}, ver : 0..MaxSaves]
  <2>1. 0 \in 0..MaxSaves
    BY MailStoreAssumption
  <2> QED BY <2>1 DEF Idle
<1>5. TypeOK'
  <2>1. crashes' \in 0..MaxCrashes
    BY <1>1
  <2> QED BY <1>1, <1>2, <1>3, <1>4, <2>1 DEF TInv, TypeOK
<1>6. \A t \in Threads : CallOK(t)'
  BY <1>1 DEF CallOK, Idle
<1> QED BY <1>2, <1>5, <1>6 DEF TInv

LEMMA NextTyped == TInv /\ [Next]_vars => TInv'
<1> SUFFICES ASSUME TInv, [Next]_vars PROVE TInv'
  OBVIOUS
<1>1. CASE UNCHANGED vars
  BY <1>1 DEF vars, TInv, TypeOK, CallOK
<1>2. CASE Crash
  BY <1>2, CrashTyped
<1>3. ASSUME NEW t \in Threads, Step(t) PROVE TInv'
  BY <1>3, BeginTyped, LoadTyped, ReadTyped, AppendTyped, RewriteTyped DEF Step
<1> QED BY <1>1, <1>2, <1>3 DEF Next

(* The files, the calls and the histories keep their types: no call of any  *)
(* window, and no crash, leaves a record or a TOC another would not read.   *)
THEOREM TypesHold == Spec => []TypeOK
<1>1. Init => TInv
  BY InitTyped
<1>2. TInv /\ [Next]_vars => TInv'
  BY NextTyped
<1>3. TInv => TypeOK
  BY DEF TInv
<1> QED BY <1>1, <1>2, <1>3, PTL DEF Spec

-----------------------------------------------------------------------------
(* One window *)

LEMMA Known ==
  ASSUME TInv, SInv, NEW t \in Threads
  PROVE  /\ FInv /\ CInv(t) /\ Rebuilt \in Table /\ Below(Rebuilt) /\ Rebuilt.of = mbx
         /\ DOMAIN pc = Threads /\ DOMAIN op = Threads /\ DOMAIN mine = Threads
         /\ DOMAIN rebuilt = Threads /\ DOMAIN found = Threads
<1>1. Rebuilt \in Table /\ Below(Rebuilt) /\ Rebuilt.of = mbx
  BY RebuildTyped DEF Rebuilt, TInv, TypeOK
<1>2. DOMAIN pc = Threads /\ DOMAIN op = Threads /\ DOMAIN mine = Threads
      /\ DOMAIN rebuilt = Threads /\ DOMAIN found = Threads
  BY DEF TInv, TypeOK
<1> QED BY <1>1, <1>2 DEF SInv

LEMMA TheOnly ==
  ASSUME OneWindow, NEW t \in Threads, FInv', CInv(t)'
  PROVE  SInv'
<1>1. \A s \in Threads : s = t
  BY DEF OneWindow
<1>2. ASSUME NEW s \in Threads PROVE CInv(s)'
  <2>1. s = t
    BY <1>1
  <2> QED BY <2>1
<1> QED BY <1>2 DEF SInv
(* What was held stays held when entries are added, when those cut short go, *)
(* and when less has returned.                                               *)
LEMMA HeldOn ==
  ASSUME NEW sums, NEW but, NEW a, NEW c, Held(sums, but, a, c),
         NEW more, NEW b, NEW d, c \subseteq d,
         \A k \in Keys : b[k] = None \/ (b[k] # 0 /\ b[k] = a[k]),
         \A e \in Range(sums) : e.ver # 0 => e \in Range(more)
  PROVE  Held(more, but, b, d)
<1> SUFFICES ASSUME NEW k \in Keys \ {but}, b[k] \notin {None} \cup d
             PROVE  Lists(more, k, b[k])
  BY DEF Held
<1>1. b[k] = a[k] /\ b[k] # 0 /\ Lists(sums, k, a[k])
  BY DEF Held
<1> QED BY <1>1 DEF Lists

LEMMA ReturnedNotZero ==
  ASSUME TInv PROVE \A k \in Keys : acked[k] = None \/ acked[k] # 0
<1>1. acked \in [Keys -> (1..MaxSaves) \cup {None}] /\ MaxSaves \in Nat
  BY MailStoreAssumption DEF TInv, TypeOK
<1> QED BY <1>1

(* Without the entry of a message, the others are held. *)
LEMMA HeldWithout ==
  ASSUME NEW sums, NEW a, NEW c, Held(sums, None, a, c), NEW k \in Keys,
         NEW rest, \A e \in Range(sums) : e \in Range(rest) \/ e.key = k
  PROVE  Held(rest, k, a, c)
<1> SUFFICES ASSUME NEW other \in Keys \ {k}, a[other] \notin {None} \cup c
             PROVE  Lists(rest, other, a[other])
  BY DEF Held
<1>1. Lists(sums, other, a[other])
  BY MailStoreAssumption DEF Held
<1> QED BY <1>1 DEF Lists

LEMMA CoherentFewer ==
  ASSUME NEW listed, NEW table, Coherent(listed, table),
         NEW less, Range(less.sums) \subseteq Range(table.sums), less.next = table.next
  PROVE  Coherent(listed, less)
<1>1. Apart(Range(listed.sums) \cup Range(less.sums))
  BY DEF Coherent, Apart
<1> QED BY <1>1 DEF Coherent

LEMMA BeginSafe ==
  ASSUME TInv, SInv, OneWindow, NEW t \in Threads,
         NEW kind \in Ops, NEW k \in Keys \cup {None}, Begin(t, kind, k)
  PROVE  SInv'
<1>1. /\ pc'[t] = IF kind = "list" THEN "look" ELSE "load"
      /\ op'[t].kind = kind
      /\ mbx' = mbx /\ toc' = toc /\ acked' = acked /\ shadowed' = shadowed
  BY Known DEF Begin, Goto
<1>2. FInv'
  BY <1>1, Known DEF FInv, Fresh, Rebuilt
<1>3. CInv(t)'
  BY <1>1 DEF CInv
<1> QED BY <1>2, <1>3, TheOnly

LEMMA LoadSafe ==
  ASSUME TInv, SInv, OneWindow, NEW t \in Threads, Load(t) \/ OpenRebuilt(t)
  PROVE  SInv'
<1>1. CASE Load(t)
  <2>1. /\ mbx' = mbx /\ toc' = toc /\ acked' = acked /\ shadowed' = shadowed
        /\ (Fresh /\ pc'[t] = "look" /\ mine'[t] = toc) \/ (pc'[t] = "load-open" /\ rebuilt'[t] = Rebuilt)
    BY <1>1, Known DEF Load, Goto, Rebuilt
  <2>2. FInv'
    BY <2>1, Known DEF FInv, Fresh, Rebuilt
  <2>3. CInv(t)'
    BY <2>1 DEF CInv, Fresh, Rebuilt
  <2> QED BY <2>2, <2>3, TheOnly
<1>2. CASE OpenRebuilt(t)
  <2>1. /\ mbx' = mbx /\ toc' = None /\ acked' = acked /\ shadowed' = shadowed /\ op' = op
        /\ rebuilt'[t] = [rebuilt[t] EXCEPT !.of = mbx]
        /\ pc[t] \in {"load-open", "look-open"}
        /\ pc'[t] = IF pc[t] = "load-open" THEN "load-write" ELSE "look-write"
    BY <1>2, Known DEF OpenRebuilt, Goto
  <2>2. rebuilt[t] = Rebuilt /\ (pc[t] = "look-open" => op[t].kind = "list")
    BY <2>1, Known DEF CInv
  <2>3. rebuilt'[t] = Rebuilt
    BY <2>1, <2>2, Known DEF Table
  <2>4. FInv'
    BY <2>1, Known DEF FInv, Fresh, Rebuilt
  <2>5. CInv(t)'
    BY <2>1, <2>2, <2>3 DEF CInv, Rebuilt
  <2> QED BY <2>4, <2>5, TheOnly
<1> QED BY <1>1, <1>2

(* A TOC just rebuilt may stand beside the file. *)
LEMMA RebuiltStands ==
  ASSUME TInv, FInv
  PROVE  Coherent(Rebuilt, Rebuilt) /\ Held(Rebuilt.sums, None, acked, shadowed)
<1>1. Rebuilt \in Table /\ Below(Rebuilt)
  BY RebuildTyped DEF Rebuilt, TInv, TypeOK
<1>2. Rebuilt.next <= Rebuilt.next
  BY <1>1 DEF Table
<1>3. Apart(Range(Rebuilt.sums) \cup Range(Rebuilt.sums))
  BY DEF FInv, Apart
<1> QED BY <1>1, <1>2, <1>3 DEF Coherent, Below, FInv

LEMMA UsedSafe ==
  ASSUME TInv, SInv, OneWindow, NamedIds, NEW t \in Threads, pc[t] = "look", Fresh,
         UseEntries(t, toc.sums), UNCHANGED <<mbx, toc, saves, crashes, shadowed>>
  PROVE  SInv'
<1>0. /\ FInv /\ CInv(t) /\ CallOK(t) /\ Rebuilt' = Rebuilt /\ (Fresh <=> Fresh')
      /\ Coherent(Rebuilt, toc) /\ Held(toc.sums, None, acked, shadowed)
      /\ toc \in Table /\ toc.sums \in Seq(Entry)
  <2>1. toc \in Table
    BY CallTyped DEF Fresh
  <2>2. FInv /\ CInv(t) /\ CallOK(t)
    BY Known, CallTyped
  <2> QED BY <2>1, <2>2 DEF FInv, Rebuilt, Fresh, Table
<1>1. op[t].kind \in {"save", "delete", "list", "compact"}
  BY <1>0 DEF CallOK
<1>2. PICK i \in 0..Len(toc.sums) : (i # 0 => Matches(toc.sums[i], op[t].key)) /\ Used(t, toc.sums, i)
  BY <1>0, <1>1, UseEntriesIs
<1>3. op[t].kind # "list" => mine[t] = toc
  BY <1>0 DEF CInv
<1> DEFINE rest == Without(toc.sums, i)
           m == [toc EXCEPT !.sums = rest]
<1>4. i # 0 => toc.sums[i] \in Range(toc.sums) /\ toc.sums[i] \in Entry
  BY <1>0 DEF Range
<1>5. op[t].key \in Keys => (i # 0 => toc.sums[i].key = op[t].key)
  <2> SUFFICES ASSUME op[t].key \in Keys, i # 0 PROVE toc.sums[i].key = op[t].key
    OBVIOUS
  <2>1. toc.sums[i].uid # 0 /\ NumericId[op[t].key] = 0
    BY <1>4 DEF Entry, NamedIds
  <2> QED BY <1>2, <2>1 DEF Matches
<1>6. /\ Range(rest) \subseteq Range(toc.sums)
      /\ op[t].key \in Keys => \A e \in Range(toc.sums) : e \in Range(rest) \/ e.key = op[t].key
  <2>1. i \in Nat
    OBVIOUS
  <2>2. /\ Range(rest) \subseteq Range(toc.sums)
        /\ \A e \in Range(toc.sums) : e \in Range(rest) \/ (i \in 1..Len(toc.sums) /\ e = toc.sums[i])
    BY <1>0, <2>1, WithoutIs
  <2>3. \A e \in Range(toc.sums) : e \in Range(rest) \/ (i # 0 /\ e = toc.sums[i])
    BY <2>2
  <2> QED BY <1>5, <2>2, <2>3
<1>7. m.sums = rest /\ m.next = toc.next
  BY <1>0 DEF Table
<1> HIDE DEF rest, m
<1>8. Coherent(Rebuilt, m)
  BY <1>0, <1>6, <1>7, CoherentFewer
<1>9. op[t].key \in Keys => Held(m.sums, op[t].key, acked, shadowed)
  BY <1>0, <1>6, <1>7, HeldWithout
<1>10. ASSUME Return(t), acked' = acked \/ acked' = [acked EXCEPT ![op[t].key] = None]
       PROVE  SInv'
  <2>1. pc'[t] = "idle"
    BY <1>10, Known DEF Return, Goto
  <2>2. \A k \in Keys : acked'[k] = None \/ (acked'[k] # 0 /\ acked'[k] = acked[k])
    <3>1. DOMAIN acked = Keys
      BY DEF TInv, TypeOK
    <3> QED BY <1>10, <3>1, ReturnedNotZero
  <2>3. Held(Rebuilt.sums, None, acked', shadowed') /\ Held(toc.sums, None, acked', shadowed')
    <3>1. Held(Rebuilt.sums, None, acked, shadowed)
      BY <1>0 DEF FInv
    <3> QED BY <1>0, <2>2, <3>1, HeldOn
  <2>4. FInv'
    BY <1>0, <2>3 DEF FInv
  <2>5. CInv(t)'
    BY <2>1 DEF CInv
  <2> QED BY <2>4, <2>5, TheOnly
<1>11. CASE op[t].kind = "list" /\ Return(t) /\ UNCHANGED acked
  BY <1>10, <1>11
<1>12. CASE op[t].kind = "delete" /\ Return(t) /\ acked' = [acked EXCEPT ![op[t].key] = None]
  BY <1>10, <1>12
<1>13. ASSUME acked' = acked, op' = op PROVE FInv'
  BY <1>0, <1>13 DEF FInv
<1>14. CASE /\ op[t].kind = "save" /\ Goto(t, "append")
            /\ found' = [found EXCEPT ![t] = IF i = 0 THEN None ELSE toc.sums[i]]
            /\ mine' = [mine EXCEPT ![t].sums = Without(mine[t].sums, i)]
            /\ UNCHANGED <<op, rebuilt, acked>>
  <2>1. pc'[t] = "append" /\ mine'[t] = m /\ found'[t] = IF i = 0 THEN None ELSE toc.sums[i]
    BY <1>3, <1>14, Known DEF Goto, m, rest
  <2>2. op[t].key \in Keys
    BY <1>0, <1>14 DEF CallOK
  <2>3. found'[t] # None =>
          /\ found'[t].key = op[t].key
          /\ Named(found'[t], Range(Rebuilt.sums) \cup Range(m.sums))
    <3> SUFFICES ASSUME i # 0, found'[t] = toc.sums[i]
                 PROVE  /\ found'[t].key = op[t].key
                        /\ Named(found'[t], Range(Rebuilt.sums) \cup Range(m.sums))
      BY <2>1
    <3>1. Range(Rebuilt.sums) \cup Range(m.sums) \subseteq Range(Rebuilt.sums) \cup Range(toc.sums)
      BY <1>6, <1>7
    <3> QED BY <1>0, <1>4, <1>5, <2>2, <3>1 DEF Coherent, Apart, Named
  <2>4. CInv(t)'
    BY <1>0, <1>8, <1>9, <1>14, <2>1, <2>2, <2>3 DEF CInv
  <2> QED BY <1>13, <1>14, <2>4, TheOnly
<1>15. CASE /\ op[t].kind = "delete" /\ i # 0 /\ Goto(t, "open")
            /\ mine' = [mine EXCEPT ![t].sums = Without(mine[t].sums, i)]
            /\ UNCHANGED <<op, rebuilt, found, acked>>
  <2>1. pc'[t] = "open" /\ mine'[t] = m
    BY <1>3, <1>15, Known DEF Goto, m, rest
  <2>2. op[t].key \in Keys
    BY <1>0, <1>15 DEF CallOK
  <2>3. CInv(t)'
    BY <1>0, <1>8, <1>9, <1>15, <2>1, <2>2 DEF CInv
  <2> QED BY <1>13, <1>15, <2>3, TheOnly
<1>16. CASE /\ op[t].kind = "compact" /\ Goto(t, "rename")
            /\ rebuilt' = [rebuilt EXCEPT ![t].sums = toc.sums]
            /\ UNCHANGED <<op, mine, found, acked>>
  <2>1. pc'[t] = "rename" /\ rebuilt'[t].sums = toc.sums /\ mine'[t] = toc
    <3>1. rebuilt[t] \in Table
      BY CallTyped
    <3>2. rebuilt'[t] = [rebuilt[t] EXCEPT !.sums = toc.sums]
      BY <1>16, Known
    <3> QED BY <1>3, <1>16, <3>1, <3>2, Known DEF Goto, Table
  <2>2. CInv(t)'
    BY <1>0, <2>1 DEF CInv
  <2> QED BY <1>13, <1>16, <2>2, TheOnly
<1> QED BY <1>2, <1>11, <1>12, <1>14, <1>15, <1>16 DEF Used

LEMMA ReadSafe ==
  ASSUME TInv, SInv, OneWindow, NamedIds, NEW t \in Threads, WriteRebuilt(t) \/ Look(t)
  PROVE  SInv'
<1>0. FInv /\ CInv(t) /\ Rebuilt \in Table /\ Rebuilt.of = mbx
  BY Known
<1>1. CASE WriteRebuilt(t)
  <2>1. /\ mbx' = mbx /\ toc' = Rebuilt /\ rebuilt[t] = Rebuilt /\ shadowed' = shadowed
        /\ \/ pc'[t] = "look" /\ mine'[t] = Rebuilt /\ acked' = acked
           \/ pc[t] = "look-write" /\ op[t].kind = "list" /\ UseEntries(t, rebuilt[t].sums)
    <3>1. pc[t] \in {"load-write", "look-write"}
      BY <1>1 DEF WriteRebuilt
    <3>2. rebuilt[t] = Rebuilt /\ (pc[t] = "look-write" => op[t].kind = "list")
      BY <1>0, <3>1 DEF CInv
    <3> QED BY <1>1, <3>2, Known DEF WriteRebuilt, Goto
  <2>2. Fresh' /\ Rebuilt' = Rebuilt
    BY <1>0, <2>1, MailStoreAssumption DEF Fresh, Rebuilt
  <2>3. ASSUME acked' = acked PROVE FInv'
    BY <1>0, <2>1, <2>2, <2>3, RebuiltStands DEF FInv
  <2>4. CASE pc'[t] = "look" /\ mine'[t] = Rebuilt /\ acked' = acked
    <3>1. CInv(t)'
      BY <2>1, <2>2, <2>4 DEF CInv
    <3> QED BY <2>3, <2>4, <3>1, TheOnly
  <2>5. CASE op[t].kind = "list" /\ UseEntries(t, rebuilt[t].sums)
    <3>1. Return(t) /\ acked' = acked
      BY <2>5 DEF UseEntries
    <3>2. pc'[t] = "idle"
      BY <3>1, Known DEF Return, Goto
    <3>3. CInv(t)'
      BY <3>2 DEF CInv
    <3> QED BY <2>3, <3>1, <3>3, TheOnly
  <2> QED BY <2>1, <2>4, <2>5
<1>2. CASE Look(t) /\ Fresh
  BY <1>2, UsedSafe DEF Look
<1>3. CASE Look(t) /\ ~Fresh
  <2>1. /\ mbx' = mbx /\ toc' = toc /\ acked' = acked /\ shadowed' = shadowed /\ op' = op
        /\ pc'[t] = "look-open" /\ rebuilt'[t] = Rebuilt /\ op[t].kind = "list"
    BY <1>0, <1>3, Known DEF Look, Goto, CInv, Rebuilt
  <2>2. FInv'
    BY <1>0, <2>1 DEF FInv, Fresh, Rebuilt
  <2>3. CInv(t)'
    BY <2>1 DEF CInv, Rebuilt
  <2> QED BY <2>2, <2>3, TheOnly
<1> QED BY <1>1, <1>2, <1>3

(* A record appended, whole or cut short, while the TOC was for the file. *)
LEMMA Appends ==
  ASSUME TInv, SInv, NamedIds, NEW t \in Threads, pc[t] = "append",
         NEW r \in Stored, r.uid = 0 \/ (r.uid = NewRecord(t).uid /\ r.key = NewRecord(t).key),
         mbx' = Append(mbx, r), toc' = toc, acked' = acked, shadowed \subseteq shadowed'
  PROVE  /\ FInv'
         /\ r.uid # 0 => Coherent(Rebuilt', AddEntry(mine[t], r))
         /\ r.tear = "none" =>
              EndsInCutLine \/ \E e \in Range(Rebuilt'.sums) : e.key = r.key /\ e.ver = r.ver
<1>0. /\ FInv /\ CInv(t) /\ CallOK(t) /\ Rebuilt = Rebuild(mbx) /\ Rebuilt' = Rebuild(mbx')
      /\ mbx \in Seq(Stored) /\ (\A i \in 1..Len(mbx) : Shaped(mbx[i]))
      /\ mine[t] \in Table /\ found[t] \in Entry \cup {None}
      /\ Rebuilt \in Table /\ Below(Rebuilt)
  BY Known, CallTyped DEF Rebuilt
<1>1. /\ Fresh /\ Coherent(Rebuilt, mine[t])
      /\ found[t] # None =>
           /\ found[t].key = op[t].key
           /\ Named(found[t], Range(Rebuilt.sums) \cup Range(mine[t].sums))
  BY <1>0 DEF CInv
<1>2. op[t].key \in Keys /\ NumericId[op[t].key] = 0
  BY <1>0 DEF CallOK, NamedIds
<1>3. \A e \in Range(Rebuilt.sums) \cup Range(mine[t].sums) : e.uid \in Nat /\ e.uid <= mine[t].next
  <2>1. mine[t].next \in Nat /\ Rebuilt.next \in Nat /\ Rebuilt.next <= mine[t].next
    BY <1>0, <1>1 DEF Table, Coherent
  <2>2. \A e \in Range(Rebuilt.sums) \cup Range(mine[t].sums) : e \in Entry
    <3>1. Rebuilt.sums \in Seq(Entry) /\ mine[t].sums \in Seq(Entry)
      BY <1>0 DEF Table
    <3> QED BY <3>1 DEF Range
  <2>3. \A e \in Range(Rebuilt.sums) : e.uid <= Rebuilt.next
    BY <1>0 DEF Below
  <2>4. \A e \in Range(mine[t].sums) : e.uid <= mine[t].next
    BY <1>1 DEF Coherent
  <2> QED BY <2>1, <2>2, <2>3, <2>4 DEF Entry
<1>4. \A e \in Range(Rebuilt.sums) \cup Range(mine[t].sums) : e.uid = r.uid => e.key = r.key
  <2> SUFFICES ASSUME NEW e \in Range(Rebuilt.sums) \cup Range(mine[t].sums), e.uid = r.uid
               PROVE  e.key = r.key
    OBVIOUS
  <2>1. e.uid # 0
    <3>1. Rebuilt.sums \in Seq(Entry) /\ mine[t].sums \in Seq(Entry)
      BY <1>0 DEF Table
    <3>2. e \in Entry
      BY <3>1 DEF Range
    <3> QED BY <3>2 DEF Entry
  <2>2. r.uid = NewRecord(t).uid /\ r.key = NewRecord(t).key
    BY <2>1
  <2>3. CASE found[t] = None
    <3>1. NewRecord(t).uid = mine[t].next + 1
      BY <1>2, <2>3, NewRecordTyped
    <3>2. mine[t].next \in Nat
      BY <1>0 DEF Table
    <3> QED BY <1>3, <2>2, <3>1, <3>2
  <2>4. CASE found[t] # None
    <3>1. NewRecord(t).uid = found[t].uid
      BY <2>4, NewRecordTyped
    <3>2. NewRecord(t).key = found[t].key
      BY <1>1, <1>2, <2>4, NewRecordTyped, MailStoreAssumption
    <3> QED BY <1>1, <2>2, <2>4, <3>1, <3>2 DEF Named
  <2> QED BY <2>3, <2>4
<1>5. PICK new : new = AddEntry(mine[t], r)
  OBVIOUS
<1>6. PICK listed : listed = Rebuild(Append(mbx, r))
  OBVIOUS
<1>7. Below(mine[t]) /\ Apart(Range(Rebuild(mbx).sums) \cup Range(mine[t].sums))
      /\ Rebuild(mbx).next <= mine[t].next
  BY <1>0, <1>1 DEF Coherent, Below
<1>8. /\ listed \in Table /\ Apart(Range(listed.sums))
      /\ \A e \in Range(Rebuild(mbx).sums) : e.ver # 0 => e \in Range(listed.sums)
      /\ r.uid # 0 => Apart(Range(listed.sums) \cup Range(new.sums)) /\ listed.next <= new.next
      /\ r.tear = "none" =>
           CutTail(mbx) \/ \E e \in Range(listed.sums) : e.key = r.key /\ e.ver = r.ver
  BY <1>0, <1>4, <1>5, <1>6, <1>7, AppendKeeps
<1>9. ~Fresh'
  <2>1. Len(Append(mbx, r)) = Len(mbx) + 1 /\ Len(mbx) \in Nat
    BY <1>0
  <2>2. toc.of = mbx
    BY <1>1 DEF Fresh
  <2>3. Append(mbx, r) # mbx
    BY <2>1
  <2> QED BY <2>2, <2>3 DEF Fresh
<1>10. Held(listed.sums, None, acked, shadowed')
  <2>1. Held(Rebuilt.sums, None, acked, shadowed)
    BY <1>0 DEF FInv
  <2> QED BY <1>0, <1>8, <2>1, ReturnedNotZero, HeldOn
<1>11. FInv'
  BY <1>0, <1>6, <1>8, <1>9, <1>10 DEF FInv
<1>12. ASSUME r.uid # 0 PROVE Coherent(Rebuilt', AddEntry(mine[t], r))
  <2>1. Below(new)
    BY <1>0, <1>5, <1>7, AddEntryBelow
  <2> QED BY <1>0, <1>5, <1>6, <1>8, <1>12, <2>1 DEF Coherent, Below
<1>13. CutTail(mbx) => EndsInCutLine
  <2>1. DOMAIN mbx = 1..Len(mbx)
    BY <1>0
  <2> QED BY <2>1 DEF CutTail, EndsInCutLine
<1> QED BY <1>0, <1>6, <1>8, <1>11, <1>12, <1>13

LEMMA AppendSafe ==
  ASSUME TInv, SInv, OneWindow, NamedIds, NEW t \in Threads, AppendRecord(t)
  PROVE  SInv'
<1>1. PICK r : r = NewRecord(t)
  OBVIOUS
<1>2. /\ pc[t] = "append" /\ mbx' = Append(mbx, r) /\ toc' = toc /\ acked' = acked /\ op' = op
      /\ shadowed' = (IF EndsInCutLine THEN shadowed \cup {op[t].ver} ELSE shadowed)
      /\ pc'[t] = "open" /\ mine'[t] = AddEntry(mine[t], r)
  BY <1>1, Known DEF AppendRecord, Goto
<1>3. /\ FInv /\ CInv(t) /\ CallOK(t) /\ mine[t] \in Table
  BY Known, CallTyped
<1>4. op[t].kind = "save" /\ op[t].key \in Keys
  BY <1>2, <1>3 DEF CallOK
<1>5. r \in Stored /\ r.uid # 0 /\ r.tear = "none" /\ r.ver = op[t].ver /\ r.key = op[t].key
  <2>1. found[t] # None => found[t].key = op[t].key
    BY <1>2, <1>3 DEF CInv
  <2> QED BY <1>1, <1>2, <2>1, NewRecordTyped
<1>6. /\ FInv' /\ Coherent(Rebuilt', mine'[t])
      /\ EndsInCutLine \/ Lists(Rebuilt'.sums, op[t].key, op[t].ver)
  BY <1>1, <1>2, <1>5, Appends DEF Lists
<1>7. PICK e : e = Entered(mine[t].next, r)
  OBVIOUS
<1>8. e \in Range(mine'[t].sums) /\ Range(mine[t].sums) \subseteq Range(mine'[t].sums)
  BY <1>2, <1>3, <1>5, <1>7, AddEntryIs
<1>9. Lists(mine'[t].sums, op[t].key, op[t].ver)
  BY <1>5, <1>7, <1>8 DEF Lists, Entered
<1>10. Held(mine'[t].sums, op[t].key, acked, shadowed')
  <2>1. Held(mine[t].sums, op[t].key, acked, shadowed)
    BY <1>2, <1>3 DEF CInv
  <2>2. shadowed \subseteq shadowed'
    BY <1>2
  <2> QED BY <1>8, <2>1, <2>2, ReturnedNotZero, HeldOn
<1>11. op[t].ver \in shadowed' \/ Lists(Rebuilt'.sums, op[t].key, op[t].ver)
  BY <1>2, <1>6
<1>12. CInv(t)'
  BY <1>2, <1>6, <1>9, <1>10, <1>11 DEF CInv
<1> QED BY <1>6, <1>12, TheOnly

(* A compacted file lists what the TOC listed. *)
LEMMA RenameSafe ==
  ASSUME TInv, SInv, OneWindow, NEW t \in Threads, RenameCompacted(t)
  PROVE  SInv'
<1>1. /\ pc[t] = "rename" /\ mbx' = Compacted(rebuilt[t].sums)
      /\ mine'[t] = [mine[t] EXCEPT !.sums = rebuilt[t].sums] /\ pc'[t] = "open"
      /\ toc' = toc /\ op' = op /\ acked' = acked /\ shadowed' = shadowed
  BY Known DEF RenameCompacted, Compacted, Goto
<1>2. FInv /\ CInv(t) /\ CallOK(t) /\ mine[t] \in Table /\ mine[t].sums \in Seq(Entry)
  BY Known, CallTyped
<1>3. Fresh /\ mine[t] = toc /\ rebuilt[t].sums = toc.sums /\ op[t].kind = "compact" /\ op[t].key = None
  BY <1>1, <1>2 DEF CInv, CallOK
<1>4. Coherent(Rebuilt, toc) /\ Held(toc.sums, None, acked, shadowed)
  BY <1>2, <1>3 DEF FInv
<1>5. mine'[t] = toc
  BY <1>1, <1>2, <1>3 DEF Table
<1>6. PICK file : file = Compacted(toc.sums)
  OBVIOUS
<1>7. toc.next \in Nat /\ \A e \in Range(toc.sums) : e.uid <= toc.next
  BY <1>2, <1>3, <1>4 DEF Coherent, Table
<1>8. file \in Seq(Stored) /\ Range(Rebuild(file).sums) = Range(toc.sums) /\ Rebuild(file).next <= toc.next
  BY <1>2, <1>3, <1>6, <1>7, RebuildWhole
<1>9. Rebuilt' = Rebuild(file)
  BY <1>1, <1>3, <1>6 DEF Rebuilt
<1>10. Apart(Range(Rebuilt'.sums) \cup Range(toc.sums)) /\ Apart(Range(Rebuilt'.sums))
  BY <1>4, <1>8, <1>9 DEF Coherent, Apart
<1>11. Coherent(Rebuilt', toc)
  BY <1>7, <1>8, <1>9, <1>10 DEF Coherent
<1>12. Held(Rebuilt'.sums, None, acked, shadowed)
  BY <1>4, <1>8, <1>9, ReturnedNotZero, HeldOn
<1>13. FInv'
  BY <1>1, <1>4, <1>10, <1>11, <1>12 DEF FInv
<1>14. CInv(t)'
  BY <1>1, <1>3, <1>4, <1>5, <1>11 DEF CInv
<1> QED BY <1>13, <1>14, TheOnly

LEMMA OpenSafe ==
  ASSUME TInv, SInv, OneWindow, NEW t \in Threads, Open(t)
  PROVE  SInv'
<1>1. /\ pc[t] = "open" /\ mbx' = mbx /\ toc' = None /\ pc'[t] = "write"
      /\ mine'[t] = [mine[t] EXCEPT !.of = mbx]
      /\ op' = op /\ acked' = acked /\ shadowed' = shadowed
  BY Known DEF Open, Goto
<1>2. FInv /\ CInv(t) /\ mine[t] \in Table
  BY Known, CallTyped
<1>3. mine'[t].sums = mine[t].sums /\ mine'[t].next = mine[t].next /\ mine'[t].of = mbx
  BY <1>1, <1>2 DEF Table
<1>4. /\ Coherent(Rebuilt, mine[t]) /\ Held(mine[t].sums, op[t].key, acked, shadowed)
      /\ op[t].kind = "save" =>
           /\ Lists(mine[t].sums, op[t].key, op[t].ver)
           /\ op[t].ver \in shadowed \/ Lists(Rebuilt.sums, op[t].key, op[t].ver)
  BY <1>1, <1>2 DEF CInv
<1>5. PICK m : m = mine'[t]
  OBVIOUS
<1>6. Coherent(Rebuilt, m) /\ m.sums = mine[t].sums
  BY <1>3, <1>4, <1>5, CoherentFewer
<1>7. FInv'
  BY <1>1, <1>2 DEF FInv, Fresh, Rebuilt
<1>8. Rebuilt' = Rebuilt
  BY <1>1 DEF Rebuilt
<1>9. CInv(t)'
  BY <1>1, <1>3, <1>4, <1>5, <1>6, <1>8 DEF CInv
<1> QED BY <1>7, <1>9, TheOnly

LEMMA WriteSafe ==
  ASSUME TInv, SInv, OneWindow, NEW t \in Threads, Write(t)
  PROVE  SInv'
<1>1. /\ pc[t] = "write" /\ mbx' = mbx /\ toc' = mine[t] /\ pc'[t] = "idle" /\ shadowed' = shadowed
  BY Known DEF Write, Return, Goto
<1>2. FInv /\ CInv(t) /\ CallOK(t) /\ mine[t] \in Table /\ DOMAIN acked = Keys
  BY Known, CallTyped
<1>3. /\ Coherent(Rebuilt, mine[t]) /\ Held(mine[t].sums, op[t].key, acked, shadowed)
      /\ op[t].kind = "save" =>
           /\ Lists(mine[t].sums, op[t].key, op[t].ver)
           /\ op[t].ver \in shadowed \/ Lists(Rebuilt.sums, op[t].key, op[t].ver)
      /\ mine[t].of = mbx
  BY <1>1, <1>2 DEF CInv
<1>4. Held(Rebuilt.sums, None, acked, shadowed)
  BY <1>2 DEF FInv
<1>5. op[t].kind \in {"save", "delete", "compact"}
  BY <1>1, <1>2 DEF CallOK
<1>6. CASE op[t].kind = "save"
  <2>1. acked' = [acked EXCEPT ![op[t].key] = op[t].ver] /\ op[t].key \in Keys
    BY <1>2, <1>6 DEF Write, CallOK
  <2>2. Held(mine[t].sums, None, acked', shadowed)
    BY <1>2, <1>3, <1>6, <2>1 DEF Held
  <2>3. Held(Rebuilt.sums, None, acked', shadowed)
    BY <1>2, <1>3, <1>4, <1>6, <2>1 DEF Held
  <2> QED BY <1>1, <1>2, <1>3, <2>2, <2>3, TheOnly DEF FInv, CInv, Rebuilt
<1>7. CASE op[t].kind = "delete"
  <2>1. acked' = [acked EXCEPT ![op[t].key] = None] /\ op[t].key \in Keys
    BY <1>2, <1>7 DEF Write, CallOK
  <2>2. Held(mine[t].sums, None, acked', shadowed)
    BY <1>2, <1>3, <2>1 DEF Held
  <2>3. Held(Rebuilt.sums, None, acked', shadowed)
    BY <1>2, <1>4, <2>1 DEF Held
  <2> QED BY <1>1, <1>2, <1>3, <2>2, <2>3, TheOnly DEF FInv, CInv, Rebuilt
<1>8. CASE op[t].kind = "compact"
  <2>1. acked' = acked /\ op[t].key = None
    BY <1>2, <1>8 DEF Write, CallOK
  <2> QED BY <1>1, <1>2, <1>3, <1>4, <2>1, TheOnly DEF FInv, CInv, Rebuilt
<1> QED BY <1>5, <1>6, <1>7, <1>8

LEMMA CrashSafe ==
  ASSUME TInv, SInv, NamedIds, Crash
  PROVE  SInv'
<1>1. toc' = toc /\ acked' = acked /\ shadowed' = shadowed /\ \A t \in Threads : pc'[t] = "idle"
  BY DEF Crash
<1>2. FInv
  BY DEF SInv
<1>3. FInv'
  <2>1. CASE UNCHANGED mbx
    BY <1>1, <1>2, <2>1 DEF FInv, Fresh, Rebuilt
  <2>2. CASE \E t \in Threads : /\ pc[t] = "append"
                                /\ \E r \in Torn(NewRecord(t).key, NewRecord(t).uid) : mbx' = Append(mbx, r)
    <3>1. PICK t \in Threads : /\ pc[t] = "append"
                               /\ \E r \in Torn(NewRecord(t).key, NewRecord(t).uid) : mbx' = Append(mbx, r)
      BY <2>2
    <3>2. PICK r \in Torn(NewRecord(t).key, NewRecord(t).uid) : mbx' = Append(mbx, r)
      BY <3>1
    <3>3. NewRecord(t).key \in Keys \cup {None} /\ NewRecord(t).uid \in Nat
      BY <3>1, NewRecordTyped DEF Stored
    <3>4. r \in Stored /\ (r.uid = 0 \/ (r.uid = NewRecord(t).uid /\ r.key = NewRecord(t).key))
      BY <3>3, TornTyped
    <3> QED BY <1>1, <3>1, <3>2, <3>4, Appends
  <2> QED BY <2>1, <2>2 DEF Crash
<1>4. \A t \in Threads : CInv(t)'
  BY <1>1 DEF CInv
<1> QED BY <1>3, <1>4 DEF SInv

LEMMA InitSafe == Init => SInv
<1> SUFFICES ASSUME Init PROVE SInv
  OBVIOUS
<1>1. mbx = <<>> /\ <<>> \in Seq(Stored) /\ Len(<<>>) = 0
  BY DEF Init
<1>2. Rebuild(mbx) = [EmptyToc EXCEPT !.of = mbx]
  BY <1>1, RebuildIs, TableSteps
<1>3. Range(Rebuilt.sums) = {}
  BY <1>1, <1>2, EmptyTyped DEF Rebuilt
<1>4. Held(Rebuilt.sums, None, acked, shadowed)
  BY DEF Held, Init
<1>5. FInv
  BY <1>3, <1>4 DEF FInv, Apart, Fresh, Init
<1>6. \A t \in Threads : CInv(t)
  BY DEF CInv, Init
<1> QED BY <1>5, <1>6 DEF SInv

LEMMA NextSafe == OneWindow /\ NamedIds /\ TInv /\ SInv /\ [Next]_vars => SInv'
<1> SUFFICES ASSUME OneWindow, NamedIds, TInv, SInv, [Next]_vars PROVE SInv'
  OBVIOUS
<1>1. CASE UNCHANGED vars
  BY <1>1 DEF vars, SInv, FInv, CInv, Fresh, Rebuilt
<1>2. CASE Crash
  BY <1>2, CrashSafe
<1>3. ASSUME NEW t \in Threads, Step(t) PROVE SInv'
  BY <1>3, BeginSafe, LoadSafe, ReadSafe, AppendSafe, RenameSafe, OpenSafe, WriteSafe DEF Step
<1> QED BY <1>1, <1>2, <1>3 DEF Next

(* What SInv says of what the next load lists. *)
LEMMA Promised ==
  ASSUME TInv, SInv PROVE SavedIsListed /\ UidsTellApart
<1>1. Apart(Range(Listing)) /\ Held(Listing, None, acked, shadowed)
  <2>1. CASE Fresh
    BY <2>1 DEF SInv, FInv, Listing, Coherent, Apart
  <2>2. CASE ~Fresh
    BY <2>2 DEF SInv, FInv, Listing, Rebuilt
  <2> QED BY <2>1, <2>2
<1>2. SavedIsListed
  BY <1>1, MailStoreAssumption DEF Held, Lists, SavedIsListed
<1>3. UidsTellApart
  BY <1>1 DEF Apart, UidsTellApart
<1> QED BY <1>2, <1>3

(* With one window and ids that are names, a version whose save has         *)
(* returned is listed by every later load, whatever was saved, deleted and  *)
(* compacted since and wherever the process died, unless the save was       *)
(* appended to a cut line.                                                  *)
THEOREM SavesStayListed ==
  ASSUME OneWindow, NamedIds
  PROVE  Spec => []SavedIsListed
<1>1. Init => TInv /\ SInv
  BY InitTyped, InitSafe
<1>2. (TInv /\ SInv) /\ [Next]_vars => (TInv /\ SInv)'
  BY NextTyped, NextSafe
<1>3. TInv /\ SInv => SavedIsListed
  BY Promised
<1> QED BY <1>1, <1>2, <1>3, PTL DEF Spec

(* And two messages a load lists have different unique ids, also when the   *)
(* numbers were given out again by a rebuild.                               *)
THEOREM UidsStayApart ==
  ASSUME OneWindow, NamedIds
  PROVE  Spec => []UidsTellApart
<1>1. Init => TInv /\ SInv
  BY InitTyped, InitSafe
<1>2. (TInv /\ SInv) /\ [Next]_vars => (TInv /\ SInv)'
  BY NextTyped, NextSafe
<1>3. TInv /\ SInv => UidsTellApart
  BY Promised
<1> QED BY <1>1, <1>2, <1>3, PTL DEF Spec

-----------------------------------------------------------------------------
(* Which version is read *)

First(sums, k, i) ==
  i \in DOMAIN sums /\ sums[i].key = k /\ \A j \in 1..(i - 1) : sums[j].key # k

NoEntry(sums, k) == \A i \in DOMAIN sums : sums[i].key # k

(* With names for ids, the first entry of a message is the one found. *)
LEMMA FirstFound ==
  ASSUME NamedIds, NEW sums \in Seq(Entry), NEW k \in Keys
  PROVE  /\ NoEntry(sums, k) => Find(sums, k) = 0 /\ Got(sums, k) = None
         /\ \A i : First(sums, k, i) => Find(sums, k) = i /\ Got(sums, k) = sums[i].ver
         /\ NoEntry(sums, k) \/ \E i \in 1..Len(sums) : First(sums, k, i)
<1> DEFINE I == {i \in 1..Len(sums) : Matches(sums[i], k)}
<1>1. Len(sums) \in Nat /\ DOMAIN sums = 1..Len(sums) /\ I \in SUBSET Nat
  OBVIOUS
<1>2. \A i \in 1..Len(sums) : Matches(sums[i], k) <=> sums[i].key = k
  <2> SUFFICES ASSUME NEW i \in 1..Len(sums) PROVE Matches(sums[i], k) <=> sums[i].key = k
    OBVIOUS
  <2>1. sums[i] \in Entry
    OBVIOUS
  <2>2. sums[i].uid # 0 /\ NumericId[k] = 0
    BY <2>1 DEF Entry, NamedIds
  <2> QED BY <2>2 DEF Matches
<1>3. Find(sums, k) = IF I # {} THEN Min(I) ELSE 0
  BY DEF Find, SelectInSeq
<1>4. CASE I = {}
  <2>1. NoEntry(sums, k)
    BY <1>1, <1>2, <1>4 DEF NoEntry
  <2>2. Find(sums, k) = 0 /\ Got(sums, k) = None
    BY <1>3, <1>4 DEF Got
  <2>3. \A i : ~First(sums, k, i)
    BY <2>1 DEF NoEntry, First
  <2> QED BY <2>1, <2>2, <2>3
<1>5. CASE I # {}
  <2>1. PICK least \in I : \A j \in I : least <= j
    BY <1>1, <1>5, LeastExists
  <2>2. Min(I) \in I /\ \A j \in I : Min(I) <= j
    BY <2>1 DEF Min
  <2>3. PICK m \in 1..Len(sums) : m = Min(I) /\ m \in I /\ sums[m].key = k /\ \A j \in I : m <= j
    BY <1>2, <2>2
  <2>4. \A j \in 1..Len(sums) : sums[j].key = k => m <= j
    BY <1>2, <2>3
  <2>5. Find(sums, k) = m /\ m # 0
    BY <1>3, <1>5, <2>3
  <2>6. Got(sums, k) = sums[m].ver
    BY <2>5 DEF Got
  <2> HIDE DEF I
  <2>7. First(sums, k, m)
    <3>1. ASSUME NEW j \in 1..(m - 1) PROVE sums[j].key # k
      <4>1. j \in 1..Len(sums) /\ ~(m <= j)
        BY <1>1, <2>3
      <4> QED BY <2>4, <4>1
    <3> QED BY <1>1, <2>3, <3>1 DEF First
  <2>8. ASSUME NEW i, First(sums, k, i) PROVE i = m
    <3>1. i \in 1..Len(sums) /\ sums[i].key = k /\ \A j \in 1..(i - 1) : sums[j].key # k
      BY <1>1, <2>8 DEF First
    <3>2. m <= i
      BY <2>4, <3>1
    <3>3. ~(m < i)
      <4> SUFFICES ASSUME m < i PROVE FALSE
        OBVIOUS
      <4>1. m \in 1..(i - 1)
        BY <1>1, <3>1
      <4> QED BY <2>3, <3>1, <4>1
    <3> QED BY <1>1, <3>1, <3>2, <3>3
  <2>9. ~NoEntry(sums, k)
    BY <1>1, <2>3 DEF NoEntry
  <2> QED BY <2>5, <2>6, <2>7, <2>8, <2>9
<1> QED BY <1>4, <1>5

(* Removing an entry of one message leaves the others as they were. *)
LEMMA RemovedGot ==
  ASSUME NamedIds, NEW sums \in Seq(Entry), NEW k \in Keys, NEW p, First(sums, k, p),
         NEW rest, rest = Without(sums, p)
  PROVE  /\ \A o \in Keys \ {k} : Got(rest, o) = Got(sums, o) /\ (Several(rest, o) <=> Several(sums, o))
         /\ ~Several(sums, k) => NoEntry(rest, k)
<1>1. PICK n \in Nat : n = Len(sums) /\ DOMAIN sums = 1..n
  OBVIOUS
<1>2. p \in 1..n /\ p \in 1..Len(sums) /\ sums[p].key = k
  BY <1>1 DEF First
<1>3. /\ rest \in Seq(Entry) /\ DOMAIN rest = 1..(n - 1)
      /\ \A j \in 1..(n - 1) : rest[j] = IF j <= p - 1 THEN sums[j] ELSE sums[j + 1]
  BY <1>1, <1>2, WithoutAt
<1> DEFINE To(i) == IF i < p THEN i ELSE i - 1
           From(j) == IF j < p THEN j ELSE j + 1
<1>4. ASSUME NEW i \in 1..n, i # p
      PROVE  To(i) \in 1..(n - 1) /\ rest[To(i)] = sums[i] /\ From(To(i)) = i
  <2>1. CASE i < p
    <3>1. i \in 1..(n - 1) /\ i <= p - 1
      BY <1>2, <2>1
    <3> QED BY <1>3, <2>1, <3>1
  <2>2. CASE i > p
    <3>1. i - 1 \in 1..(n - 1) /\ ~(i - 1 <= p - 1) /\ (i - 1) + 1 = i /\ ~(i - 1 < p) /\ ~(i < p)
      BY <1>2, <2>2
    <3> QED BY <1>3, <3>1
  <2> QED BY <1>2, <1>4, <2>1, <2>2
<1>5. ASSUME NEW j \in 1..(n - 1)
      PROVE  From(j) \in 1..n /\ From(j) # p /\ rest[j] = sums[From(j)] /\ To(From(j)) = j
  <2>1. CASE j < p
    <3>1. j <= p - 1 /\ j \in 1..n
      BY <1>2, <2>1
    <3> QED BY <1>3, <2>1, <3>1
  <2>2. CASE ~(j < p)
    <3>1. ~(j <= p - 1) /\ j + 1 \in 1..n /\ j + 1 # p /\ ~(j + 1 < p) /\ (j + 1) - 1 = j
      BY <1>2, <2>2
    <3> QED BY <1>3, <2>2, <3>1
  <2> QED BY <2>1, <2>2
<1>6. \A i, j \in 1..n : i # p /\ j # p /\ i < j => To(i) < To(j)
  BY <1>1, <1>2
<1>7. \A i, j \in 1..(n - 1) : i < j => From(i) < From(j)
  BY <1>1, <1>2
<1> HIDE DEF To, From
<1>8. ASSUME NEW o \in Keys, o # k
      PROVE  Got(rest, o) = Got(sums, o)
  <2>1. CASE NoEntry(sums, o)
    <3>1. NoEntry(rest, o)
      BY <1>1, <1>3, <1>5, <2>1 DEF NoEntry
    <3> QED BY <1>3, <2>1, <3>1, FirstFound
  <2>2. CASE \E i \in 1..Len(sums) : First(sums, o, i)
    <3>1. PICK i \in 1..n : First(sums, o, i)
      BY <1>1, <2>2
    <3>2. sums[i].key = o /\ i # p /\ \A j \in 1..(i - 1) : sums[j].key # o
      BY <1>2, <1>8, <3>1 DEF First
    <3>3. To(i) \in 1..(n - 1) /\ rest[To(i)] = sums[i] /\ From(To(i)) = i
      BY <1>4, <3>2
    <3>4. ASSUME NEW j \in 1..(To(i) - 1) PROVE rest[j].key # o
      <4>1. j \in 1..(n - 1) /\ j < To(i)
        BY <1>1, <3>3
      <4>2. From(j) < i /\ From(j) \in 1..n
        BY <1>5, <1>7, <3>3, <4>1
      <4>3. From(j) \in 1..(i - 1)
        BY <1>1, <4>2
      <4> QED BY <1>5, <3>2, <4>1, <4>3
    <3>5. First(rest, o, To(i))
      BY <1>3, <3>2, <3>3, <3>4 DEF First
    <3>6. Got(sums, o) = sums[i].ver
      BY <3>1, FirstFound
    <3>7. Got(rest, o) = rest[To(i)].ver
      BY <1>3, <3>5, FirstFound
    <3> QED BY <3>3, <3>6, <3>7
  <2> QED BY <2>1, <2>2, FirstFound
<1>9. ASSUME NEW o \in Keys, o # k
      PROVE  Several(rest, o) <=> Several(sums, o)
  <2>1. ASSUME Several(rest, o) PROVE Several(sums, o)
    <3>1. PICK i \in 1..(n - 1), j \in 1..(n - 1) : i # j /\ rest[i].key = o /\ rest[j].key = o
      BY <1>3, <2>1 DEF Several
    <3>2. From(i) # From(j)
      BY <1>5, <3>1
    <3> QED BY <1>1, <1>5, <3>1, <3>2 DEF Several
  <2>2. ASSUME Several(sums, o) PROVE Several(rest, o)
    <3>1. PICK i \in 1..n, j \in 1..n : i # j /\ sums[i].key = o /\ sums[j].key = o
      BY <1>1, <2>2 DEF Several
    <3>2. i # p /\ j # p
      BY <1>2, <1>9, <3>1
    <3>3. To(i) # To(j)
      BY <1>4, <3>1, <3>2
    <3> QED BY <1>3, <1>4, <3>1, <3>2, <3>3 DEF Several
  <2> QED BY <2>1, <2>2
<1>10. ASSUME ~Several(sums, k) PROVE NoEntry(rest, k)
  <2> SUFFICES ASSUME NEW j \in 1..(n - 1), rest[j].key = k PROVE FALSE
    BY <1>3 DEF NoEntry
  <2>1. From(j) \in 1..n /\ From(j) # p /\ sums[From(j)].key = k
    BY <1>5
  <2> QED BY <1>1, <1>2, <1>10, <2>1 DEF Several
<1> QED BY <1>8, <1>9, <1>10

(* So does a call that removes what it finds. *)
LEMMA RestGot ==
  ASSUME NamedIds, NEW sums \in Seq(Entry), NEW k \in Keys,
         NEW rest, rest = Without(sums, Find(sums, k))
  PROVE  /\ rest \in Seq(Entry) /\ Range(rest) \subseteq Range(sums)
         /\ \A o \in Keys \ {k} : Got(rest, o) = Got(sums, o) /\ (Several(rest, o) <=> Several(sums, o))
         /\ ~Several(sums, k) => NoEntry(rest, k)
<1>1. rest \in Seq(Entry) /\ Range(rest) \subseteq Range(sums)
  <2>1. Find(sums, k) \in Nat
    BY FindIs
  <2> QED BY <2>1, WithoutIs
<1>2. CASE NoEntry(sums, k)
  <2>1. Find(sums, k) = 0
    BY <1>2, FirstFound
  <2>2. rest = sums
    BY <2>1 DEF Without
  <2> QED BY <1>1, <1>2, <2>2
<1>3. CASE \E i \in 1..Len(sums) : First(sums, k, i)
  <2>1. PICK i \in 1..Len(sums) : First(sums, k, i)
    BY <1>3
  <2>2. rest = Without(sums, i)
    BY <2>1, FirstFound
  <2> QED BY <1>1, <2>1, <2>2, RemovedGot
<1> QED BY <1>2, <1>3, FirstFound

(* An entry added at the end is read if the message has no other. *)
LEMMA AddedGot ==
  ASSUME NamedIds, NEW sums \in Seq(Entry), NEW e \in Entry, e.key \in Keys,
         NEW more, more = Append(sums, e)
  PROVE  /\ more \in Seq(Entry)
         /\ \A o \in Keys \ {e.key} : Got(more, o) = Got(sums, o) /\ (Several(more, o) <=> Several(sums, o))
         /\ NoEntry(sums, e.key) => Got(more, e.key) = e.ver /\ ~Several(more, e.key)
<1>1. PICK n \in Nat : n = Len(sums) /\ DOMAIN sums = 1..n
  OBVIOUS
<1>2. /\ more \in Seq(Entry) /\ DOMAIN more = 1..(n + 1) /\ more[n + 1] = e
      /\ \A i \in 1..n : more[i] = sums[i]
  BY <1>1
<1>3. /\ \A i \in 1..(n + 1) : i \in 1..n \/ i = n + 1
      /\ \A i \in 1..n : i \in 1..(n + 1) /\ i # n + 1
      /\ n + 1 \in 1..(n + 1)
  BY <1>1
<1>4. ASSUME NEW o \in Keys, o # e.key
      PROVE  Got(more, o) = Got(sums, o)
  <2>1. CASE NoEntry(sums, o)
    <3>1. NoEntry(more, o)
      BY <1>1, <1>2, <1>3, <1>4, <2>1 DEF NoEntry
    <3> QED BY <1>2, <2>1, <3>1, FirstFound
  <2>2. CASE \E i \in 1..Len(sums) : First(sums, o, i)
    <3>1. PICK i \in 1..n : First(sums, o, i)
      BY <1>1, <2>2
    <3>2. \A j \in 1..(i - 1) : j \in 1..n
      BY <1>1
    <3>3. First(more, o, i)
      BY <1>2, <1>3, <3>1, <3>2 DEF First
    <3>4. Got(more, o) = more[i].ver /\ Got(sums, o) = sums[i].ver
      BY <1>2, <3>1, <3>3, FirstFound
    <3> QED BY <1>2, <3>4
  <2> QED BY <2>1, <2>2, FirstFound
<1>5. ASSUME NEW o \in Keys, o # e.key
      PROVE  Several(more, o) <=> Several(sums, o)
  <2>1. ASSUME Several(more, o) PROVE Several(sums, o)
    <3>1. PICK i \in 1..(n + 1), j \in 1..(n + 1) : i # j /\ more[i].key = o /\ more[j].key = o
      BY <1>2, <2>1 DEF Several
    <3>2. i \in 1..n /\ j \in 1..n
      BY <1>2, <1>3, <1>5, <3>1
    <3> QED BY <1>1, <1>2, <3>1, <3>2 DEF Several
  <2>2. ASSUME Several(sums, o) PROVE Several(more, o)
    <3>1. PICK i \in 1..n, j \in 1..n : i # j /\ sums[i].key = o /\ sums[j].key = o
      BY <1>1, <2>2 DEF Several
    <3> QED BY <1>2, <1>3, <3>1 DEF Several
  <2> QED BY <2>1, <2>2
<1>6. ASSUME NoEntry(sums, e.key)
      PROVE  Got(more, e.key) = e.ver /\ ~Several(more, e.key)
  <2>1. \A i \in 1..n : more[i].key # e.key
    BY <1>1, <1>2, <1>6 DEF NoEntry
  <2>2. First(more, e.key, n + 1)
    <3>1. (n + 1) - 1 = n
      BY <1>1
    <3> QED BY <1>2, <1>3, <2>1, <3>1 DEF First
  <2>3. Got(more, e.key) = more[n + 1].ver
    <3>1. PICK k \in Keys : k = e.key
      OBVIOUS
    <3>2. Got(more, k) = more[n + 1].ver
      BY <1>2, <2>2, <3>1, FirstFound
    <3> QED BY <3>1, <3>2
  <2>4. ~Several(more, e.key)
    BY <1>2, <1>3, <2>1 DEF Several
  <2> QED BY <1>2, <2>3, <2>4
<1> QED BY <1>2, <1>4, <1>5, <1>6

-----------------------------------------------------------------------------
(* The two files as one map *)

(* What entries say of versions is in the file. *)
OfFile(sums, file) ==
  \A e \in Range(sums) : e.key \in Keys => \E r \in Range(file) : r.key = e.key /\ r.ver = e.ver

Single(sums) == \A k \in Keys : ~Several(sums, k)

Reads(sums) == [k \in Keys |-> Got(sums, k)]

Kept(file) == [k \in Keys |-> {r.ver : r \in {x \in Range(file) : x.key = k}}]

Twice(sums) == {k \in Keys : Several(sums, k)}

Acting(t) == pc[t] \in {"open", "write"}

(* The TOC is of the file, and of an id it has one entry until a crash.      *)
RFiles == Fresh => OfFile(toc.sums, mbx) /\ (crashes = 0 => Single(toc.sums))

RCall(t) ==
  /\ crashes = 0 /\ ~Acting(t) => Fresh \/ mbx = <<>>
  /\ pc[t] \in {"load-open", "load-write", "look-open", "look-write"} => ~Fresh
  /\ pc[t] = "append" => mine[t].sums = Without(toc.sums, Find(toc.sums, op[t].key))
  /\ Acting(t) =>
       /\ OfFile(mine[t].sums, mbx)
       /\ crashes = 0 => Single(mine[t].sums)
       /\ crashes = 0 /\ op[t].kind = "delete" => NoEntry(mine[t].sums, op[t].key)

RInv == RFiles /\ \A t \in Threads : RCall(t)

LEMMA TheOnlyCall ==
  ASSUME OneWindow, NEW t \in Threads, RFiles', RCall(t)'
  PROVE  RInv'
<1>1. \A s \in Threads : s = t
  BY DEF OneWindow
<1>2. ASSUME NEW s \in Threads PROVE RCall(s)'
  <2>1. s = t
    BY <1>1
  <2> QED BY <2>1
<1> QED BY <1>2 DEF RInv

(* With one window, the call that has taken effect is its call. *)
LEMMA EffectiveIs ==
  ASSUME OneWindow, NEW t \in Threads
  PROVE  /\ Acting(t) => Effective = mine[t].sums
         /\ ~Acting(t) => Effective = Listing
         /\ Acting(t)' => Effective' = mine'[t].sums
         /\ ~Acting(t)' => Effective' = Listing'
<1>1. \A s \in Threads : s = t
  BY DEF OneWindow
<1> QED BY <1>1 DEF Effective, Acting

LEMMA OfLonger ==
  ASSUME NEW sums, NEW file, OfFile(sums, file), NEW longer, Range(file) \subseteq Range(longer)
  PROVE  OfFile(sums, longer)
BY DEF OfFile

LEMMA OfFewer ==
  ASSUME NEW sums, NEW file, OfFile(sums, file), NEW less, Range(less) \subseteq Range(sums)
  PROVE  OfFile(less, file)
BY DEF OfFile

(* A rebuild lists what is in the file, and nothing of an empty one. *)
LEMMA RebuildOf ==
  ASSUME NEW file \in Seq(Stored)
  PROVE  /\ OfFile(Rebuild(file).sums, file)
         /\ file = <<>> => Single(Rebuild(file).sums)
<1> DEFINE T == TableOf(file)
           S == {i \in Nat : OfFile(T[i].sums, file)}
<1>1. Len(file) \in Nat
  OBVIOUS
<1>2. T[0] = [EmptyToc EXCEPT !.of = file] /\ T[0].sums = <<>> /\ Range(T[0].sums) = {}
  BY TableSteps, EmptyTyped DEF EmptyToc
<1>3. 0 \in S
  BY <1>2 DEF OfFile
<1>4. ASSUME NEW i \in 0..(Len(file) - 1), i \in S
      PROVE  i + 1 \in S
  <2>1. i + 1 \in 1..Len(file) /\ (i + 1) - 1 = i /\ i + 1 \in Nat /\ i \in 0..Len(file)
    BY <1>1
  <2>2. PICK r : r = Parsed(file)[i + 1]
    OBVIOUS
  <2>3. r \in Stored /\ r \in Range(file)
    <3>1. PICK m \in (i + 1)..Len(file) : r = file[m]
      BY <2>1, <2>2, ParsedAt
    <3>2. m \in 1..Len(file) /\ DOMAIN file = 1..Len(file)
      BY <2>1, <3>1
    <3> QED BY <2>1, <2>2, <3>1, <3>2, StoredTyped DEF Range
  <2>4. T[i] \in Table
    BY <2>1, TableTyped
  <2>5. T[i + 1] = T[i] \/ T[i + 1] = AddEntry(T[i], r)
    BY <2>1, <2>2, TableSteps
  <2> HIDE DEF T
  <2>6. T[i + 1] = T[i] \/ Range(T[i + 1].sums) = Range(T[i].sums) \cup {Entered(T[i].next, r)}
    BY <2>3, <2>4, <2>5, AddEntryIs
  <2>7. OfFile(T[i + 1].sums, file)
    BY <1>4, <2>3, <2>6 DEF OfFile, Entered
  <2> QED BY <2>1, <2>7
<1> HIDE DEF S
<1>5. \A i \in 0..Len(file) : i \in S
  <2>1. \A i \in 0..(Len(file) - 1) : i \in S => i + 1 \in S
    BY <1>4
  <2> QED BY <1>1, <1>3, <2>1, UpTo
<1>6. OfFile(T[Len(file)].sums, file)
  BY <1>1, <1>5 DEF S
<1>7. file = <<>> => Single(T[Len(file)].sums)
  <2> SUFFICES ASSUME file = <<>> PROVE Single(T[Len(file)].sums)
    OBVIOUS
  <2>1. Len(file) = 0
    OBVIOUS
  <2> HIDE DEF T
  <2>2. T[Len(file)].sums = <<>>
    BY <1>2, <2>1
  <2>3. DOMAIN <<>> = {}
    OBVIOUS
  <2> QED BY <2>2, <2>3 DEF Single, Several
<1> QED BY <1>6, <1>7, RebuildIs

LEMMA GotIs ==
  ASSUME NamedIds, NEW sums \in Seq(Entry), NEW k \in Keys
  PROVE  /\ NoEntry(sums, k) => Got(sums, k) = None
         /\ Got(sums, k) # None => \E e \in Range(sums) : e.key = k /\ e.ver = Got(sums, k)
         /\ ~Several(sums, k) => \A v : Lists(sums, k, v) => Got(sums, k) = v
<1>1. DOMAIN sums = 1..Len(sums)
  OBVIOUS
<1>2. CASE NoEntry(sums, k)
  <2>1. Got(sums, k) = None
    BY <1>2, FirstFound
  <2>2. \A v : ~Lists(sums, k, v)
    BY <1>2 DEF NoEntry, Lists, Range
  <2> QED BY <1>2, <2>1, <2>2
<1>3. CASE \E i \in 1..Len(sums) : First(sums, k, i)
  <2>1. PICK i \in 1..Len(sums) : First(sums, k, i)
    BY <1>3
  <2>2. Got(sums, k) = sums[i].ver /\ sums[i].key = k
    BY <2>1, FirstFound DEF First
  <2>3. sums[i] \in Range(sums) /\ sums[i] \in Entry
    BY <1>1 DEF Range
  <2>4. ~NoEntry(sums, k)
    BY <1>1, <2>2 DEF NoEntry
  <2>5. ASSUME ~Several(sums, k), NEW v, Lists(sums, k, v) PROVE Got(sums, k) = v
    <3>1. PICK j \in 1..Len(sums) : sums[j].key = k /\ sums[j].ver = v
      BY <1>1, <2>5 DEF Lists, Range
    <3> QED BY <1>1, <2>2, <2>5, <3>1 DEF Several
  <2> QED BY <2>2, <2>3, <2>4, <2>5
<1> QED BY <1>2, <1>3, FirstFound

LEMMA MappedIs ==
  /\ Store = Reads(Effective) /\ Past = Kept(mbx) /\ Doubled = Twice(Effective)
  /\ Store' = Reads(Effective') /\ Past' = Kept(mbx') /\ Doubled' = Twice(Effective')
BY DEF Store, Past, Doubled, Reads, Kept, Twice

(* A step the callers see nothing of. *)
LEMMA Quiet ==
  ASSUME mbx' = mbx, crashes' = crashes, acked' = acked, Effective' = Effective
  PROVE  UNCHANGED Promise!vars
BY MappedIs DEF Promise!vars

LEMMA KeptIs ==
  ASSUME NEW file, NEW k \in Keys, NEW v
  PROVE  v \in Kept(file)[k] <=> \E r \in Range(file) : r.key = k /\ r.ver = v
BY DEF Kept

(* What is read is in the file. *)
LEMMA ReadKept ==
  ASSUME NamedIds, NEW sums \in Seq(Entry), NEW k \in Keys, NEW file, OfFile(sums, file)
  PROVE  Reads(sums)[k] \in Kept(file)[k] \cup {None}
<1>1. Reads(sums)[k] = Got(sums, k)
  BY DEF Reads
<1>2. CASE Got(sums, k) = None
  BY <1>1, <1>2
<1>3. CASE Got(sums, k) # None
  <2>1. PICK e \in Range(sums) : e.key = k /\ e.ver = Got(sums, k)
    BY <1>3, GotIs
  <2>2. \E r \in Range(file) : r.key = k /\ r.ver = Got(sums, k)
    BY <2>1 DEF OfFile
  <2> QED BY <1>1, <2>2, KeptIs
<1> QED BY <1>2, <1>3

(* A call that leaves all ids but k as they were, and k with value or with  *)
(* what was left over of it.                                                *)
LEMMA LeaveIs ==
  ASSUME NamedIds, NEW k \in Keys, NEW value,
         NEW sums \in Seq(Entry), NEW new \in Seq(Entry), Effective = sums, Effective' = new,
         OfFile(new, mbx'),
         \A o \in Keys \ {k} : Got(new, o) = Got(sums, o) /\ (Several(new, o) <=> Several(sums, o)),
         ~Several(sums, k) => Got(new, k) = value /\ ~Several(new, k)
  PROVE  Promise!Leave(k, value)
<1>1. /\ Store = Reads(sums) /\ Past' = Kept(mbx') /\ Doubled = Twice(sums)
      /\ Store' = Reads(new) /\ Doubled' = Twice(new)
  BY MappedIs
<1>2. PICK left : left = Reads(new)[k]
  OBVIOUS
<1>3. left \in Past'[k] \cup {None}
  BY <1>1, <1>2, ReadKept
<1>4. k \notin Doubled => left = value
  BY <1>1, <1>2 DEF Twice, Reads
<1>5. Store' = [Store EXCEPT ![k] = left]
  BY <1>1, <1>2 DEF Reads
<1>6. Doubled' \in {Doubled, Doubled \ {k}}
  <2>1. CASE Several(new, k)
    <3>1. Twice(new) = Twice(sums)
      BY <2>1 DEF Twice
    <3> QED BY <1>1, <3>1
  <2>2. CASE ~Several(new, k)
    <3>1. Twice(new) = Twice(sums) \ {k}
      BY <2>2 DEF Twice
    <3> QED BY <1>1, <3>1
  <2> QED BY <2>1, <2>2
<1> QED BY <1>3, <1>4, <1>5, <1>6 DEF Promise!Leave

LEMMA InitPromised ==
  ASSUME NamedIds, Init PROVE RInv /\ Promise!Init
<1>1. mbx = <<>> /\ <<>> \in Seq(Stored) /\ toc = None /\ \A t \in Threads : pc[t] = "idle"
  BY DEF Init
<1>2. Effective = Rebuild(mbx).sums
  BY <1>1 DEF Effective, Listing, Fresh
<1>3. PICK sums \in Seq(Entry) : sums = Rebuild(mbx).sums
  BY <1>1, RebuildTyped DEF Table
<1>4. OfFile(sums, mbx) /\ Single(sums)
  BY <1>1, <1>3, RebuildOf
<1>5. \A k \in Keys : NoEntry(sums, k)
  <2>1. Range(mbx) = {}
    BY <1>1 DEF Range
  <2> QED BY <1>4, <2>1 DEF OfFile, NoEntry, Range
<1>6. Store = [k \in Keys |-> None]
  BY <1>2, <1>3, <1>5, MappedIs, GotIs DEF Reads
<1>7. Past = [k \in Keys |-> {}]
  <2>1. Range(mbx) = {}
    BY <1>1 DEF Range
  <2> QED BY <2>1, MappedIs DEF Kept
<1>8. Doubled = {}
  BY <1>2, <1>3, <1>4, MappedIs DEF Single, Twice
<1>9. RInv
  BY <1>1 DEF RInv, RFiles, RCall, Fresh, Acting
<1>10. (crashes > 0) = FALSE /\ acked = [k \in Keys |-> None]
  BY DEF Init
<1> QED BY <1>6, <1>7, <1>8, <1>9, <1>10 DEF Promise!Init

-----------------------------------------------------------------------------
(* Every step is one of the map *)

MapStep == Promise!Next \/ UNCHANGED Promise!vars

LEMMA ListingIs ==
  ASSUME TInv, RInv, NEW t \in Threads
  PROVE  /\ Listing \in Seq(Entry) /\ OfFile(Listing, mbx) /\ RFiles /\ RCall(t)
         /\ crashes = 0 /\ ~Acting(t) => Single(Listing)
         /\ mine[t] \in Table /\ mine[t].sums \in Seq(Entry)
<1>1. RFiles /\ RCall(t)
  BY DEF RInv
<1>2. mbx \in Seq(Stored) /\ Rebuild(mbx) \in Table
  BY RebuildTyped DEF TInv, TypeOK
<1>3. mine[t] \in Table /\ toc \in Table \cup {None}
  BY DEF TInv, TypeOK
<1>4. CASE Fresh
  BY <1>1, <1>3, <1>4 DEF RFiles, Fresh, Table, Listing
<1>5. CASE ~Fresh
  BY <1>1, <1>2, <1>3, <1>5, RebuildOf DEF RCall, Table, Listing
<1> QED BY <1>1, <1>3, <1>4, <1>5

LEMMA BeginMaps ==
  ASSUME TInv, SInv, RInv, OneWindow, NEW t \in Threads,
         NEW kind \in Ops, NEW k \in Keys \cup {None}, Begin(t, kind, k)
  PROVE  RInv' /\ MapStep
<1>1. /\ pc[t] = "idle" /\ pc'[t] \in {"look", "load"}
      /\ mbx' = mbx /\ toc' = toc /\ acked' = acked /\ crashes' = crashes
  BY Known DEF Begin, Goto
<1>2. RFiles /\ RCall(t)
  BY ListingIs
<1>3. RFiles' /\ RCall(t)'
  BY <1>1, <1>2 DEF RFiles, RCall, Fresh, Acting
<1>4. Effective' = Effective
  BY <1>1, EffectiveIs DEF Acting, Listing, Fresh
<1> QED BY <1>1, <1>3, <1>4, TheOnlyCall, Quiet DEF MapStep

LEMMA LoadMaps ==
  ASSUME TInv, SInv, RInv, OneWindow, NEW t \in Threads, Load(t) \/ OpenRebuilt(t)
  PROVE  RInv' /\ MapStep
<1>1. RFiles /\ RCall(t)
  BY ListingIs
<1>2. CASE Load(t)
  <2>1. /\ pc[t] = "load" /\ mbx' = mbx /\ toc' = toc /\ acked' = acked /\ crashes' = crashes
        /\ (Fresh /\ pc'[t] = "look") \/ (~Fresh /\ pc'[t] = "load-open")
    BY <1>2, Known DEF Load, Goto
  <2>2. RFiles' /\ RCall(t)'
    BY <1>1, <2>1 DEF RFiles, RCall, Fresh, Acting
  <2>3. Effective' = Effective
    BY <2>1, EffectiveIs DEF Acting, Listing, Fresh
  <2> QED BY <2>1, <2>2, <2>3, TheOnlyCall, Quiet DEF MapStep
<1>3. CASE OpenRebuilt(t)
  <2>1. /\ pc[t] \in {"load-open", "look-open"} /\ pc'[t] \in {"load-write", "look-write"}
        /\ mbx' = mbx /\ toc' = None /\ acked' = acked /\ crashes' = crashes
    BY <1>3, Known DEF OpenRebuilt, Goto
  <2>2. ~Fresh /\ ~Fresh'
    BY <1>1, <2>1 DEF RCall, Fresh
  <2>3. RFiles' /\ RCall(t)'
    BY <1>1, <2>1, <2>2 DEF RFiles, RCall, Acting
  <2>4. Effective' = Effective
    BY <2>1, <2>2, EffectiveIs DEF Acting, Listing
  <2> QED BY <2>1, <2>3, <2>4, TheOnlyCall, Quiet DEF MapStep
<1> QED BY <1>2, <1>3

(* A call returns: the one told is what is read, unless there was a crash. *)
LEMMA ReturnMaps ==
  ASSUME NamedIds, NEW k \in Keys, NEW told, NEW sums \in Seq(Entry),
         Effective = sums, Effective' = sums, mbx' = mbx, crashes' = crashes,
         acked' = [acked EXCEPT ![k] = told],
         told = None \/ \E r \in Range(mbx) : r.key = k /\ r.ver = told,
         crashes = 0 => told = Got(sums, k), crashes \in Nat
  PROVE  MapStep
<1>1. /\ Store = Reads(sums) /\ Past = Kept(mbx) /\ Doubled = Twice(sums)
      /\ Store' = Store /\ Past' = Past /\ Doubled' = Doubled
  BY MappedIs
<1>2. told \in Past[k] \cup {None}
  BY <1>1, KeptIs
<1>3. ~(crashes > 0) => told = Store[k]
  BY <1>1 DEF Reads
<1>4. Promise!Return(k)
  BY <1>1, <1>2, <1>3 DEF Promise!Return
<1> QED BY <1>4 DEF MapStep, Promise!Next

LEMMA UsedMaps ==
  ASSUME TInv, SInv, RInv, OneWindow, NamedIds, NEW t \in Threads, pc[t] = "look", Fresh,
         UseEntries(t, toc.sums), UNCHANGED <<mbx, toc, saves, crashes, shadowed>>
  PROVE  RInv' /\ MapStep
<1>1. PICK sums \in Seq(Entry) : sums = toc.sums
  BY CallTyped DEF Fresh, Table
<1>2. /\ RFiles /\ RCall(t) /\ CallOK(t) /\ CInv(t) /\ Fresh' /\ crashes \in Nat
      /\ Listing = sums /\ Listing' = sums /\ Effective = sums
      /\ OfFile(sums, mbx) /\ (crashes = 0 => Single(sums)) /\ mbx' = mbx /\ toc' = toc /\ crashes' = crashes
  <2>1. RFiles /\ RCall(t) /\ CallOK(t) /\ CInv(t) /\ crashes \in 0..MaxCrashes
    BY ListingIs, Known, CallTyped
  <2>2. Fresh' /\ Listing = sums /\ Listing' = sums
    BY <1>1 DEF Listing, Fresh
  <2>3. Effective = sums
    BY <2>2, EffectiveIs DEF Acting
  <2> QED BY <1>1, <2>1, <2>2, <2>3, MailStoreAssumption DEF RFiles
<1>3. RFiles'
  BY <1>1, <1>2 DEF RFiles
<1>4. ASSUME pc'[t] \in {"idle", "rename"} PROVE RInv' /\ Effective' = sums
  <2>1. RCall(t)'
    BY <1>2, <1>4 DEF RCall, Acting
  <2> QED BY <1>2, <1>3, <1>4, <2>1, TheOnlyCall, EffectiveIs DEF Acting
<1>5. CASE op[t].kind = "list"
  <2>1. Return(t) /\ acked' = acked
    BY <1>5 DEF UseEntries
  <2>2. pc'[t] = "idle"
    BY <2>1, Known DEF Return, Goto
  <2> QED BY <1>2, <1>4, <2>1, <2>2, Quiet DEF MapStep
<1>6. CASE op[t].kind = "compact"
  <2>1. Goto(t, "rename") /\ acked' = acked
    BY <1>6 DEF UseEntries
  <2>2. pc'[t] = "rename"
    BY <2>1, Known DEF Goto
  <2> QED BY <1>2, <1>4, <2>1, <2>2, Quiet DEF MapStep
<1>7. op[t].kind \in {"save", "delete"} => op[t].key \in Keys /\ mine[t] = toc
  BY <1>2 DEF CallOK, CInv
<1>8. CASE op[t].kind = "save"
  <2>1. /\ Goto(t, "append") /\ UNCHANGED <<op, acked>>
        /\ mine' = [mine EXCEPT ![t].sums = Without(mine[t].sums, Find(sums, op[t].key))]
    BY <1>1, <1>8 DEF UseEntries
  <2>2. pc'[t] = "append" /\ op' = op
    BY <2>1, Known DEF Goto
  <2>3. mine'[t].sums = Without(toc.sums, Find(toc.sums, op[t].key))
    <3>1. mine'[t] = [mine[t] EXCEPT !.sums = Without(mine[t].sums, Find(sums, op[t].key))]
      BY <2>1, Known
    <3>2. mine[t] \in Table
      BY CallTyped
    <3> QED BY <1>1, <1>7, <1>8, <3>1, <3>2 DEF Table
  <2>4. RCall(t)'
    BY <1>2, <2>2, <2>3 DEF RCall, Acting
  <2>5. Effective' = sums
    BY <1>2, <2>2, EffectiveIs DEF Acting
  <2> QED BY <1>2, <1>3, <2>1, <2>4, <2>5, TheOnlyCall, Quiet DEF MapStep
<1>9. CASE op[t].kind = "delete" /\ Find(sums, op[t].key) = 0
  <2>1. Return(t) /\ acked' = [acked EXCEPT ![op[t].key] = None]
    BY <1>1, <1>9 DEF UseEntries
  <2>2. pc'[t] = "idle"
    BY <2>1, Known DEF Return, Goto
  <2>3. None = Got(sums, op[t].key)
    BY <1>9 DEF Got
  <2>4. Effective' = sums /\ RInv'
    BY <1>4, <2>2
  <2>5. MapStep
    BY <1>2, <1>7, <1>9, <2>1, <2>3, <2>4, ReturnMaps
  <2> QED BY <2>4, <2>5
<1>10. CASE op[t].kind = "delete" /\ Find(sums, op[t].key) # 0
  <2>1. /\ Goto(t, "open") /\ UNCHANGED <<op, acked>>
        /\ mine' = [mine EXCEPT ![t].sums = Without(mine[t].sums, Find(sums, op[t].key))]
    BY <1>1, <1>10 DEF UseEntries
  <2>2. pc'[t] = "open" /\ op' = op
    BY <2>1, Known DEF Goto
  <2>3. PICK k \in Keys : k = op[t].key
    BY <1>7, <1>10
  <2>4. PICK rest : rest = Without(sums, Find(sums, k))
    OBVIOUS
  <2>5. mine'[t].sums = rest
    <3>1. mine'[t] = [mine[t] EXCEPT !.sums = Without(mine[t].sums, Find(sums, k))]
      BY <2>1, <2>3, Known
    <3>2. mine[t] \in Table
      BY CallTyped
    <3> QED BY <1>1, <1>7, <1>10, <2>4, <3>1, <3>2 DEF Table
  <2>6. /\ rest \in Seq(Entry) /\ Range(rest) \subseteq Range(sums)
        /\ \A o \in Keys \ {k} : Got(rest, o) = Got(sums, o) /\ (Several(rest, o) <=> Several(sums, o))
        /\ ~Several(sums, k) => NoEntry(rest, k)
    BY <2>4, RestGot
  <2>7. NoEntry(rest, k) => Got(rest, k) = None /\ ~Several(rest, k)
    BY <2>6, GotIs DEF NoEntry, Several
  <2>8. OfFile(rest, mbx) /\ (crashes = 0 => Single(rest) /\ NoEntry(rest, k))
    BY <1>2, <2>6, <2>7, OfFewer DEF Single
  <2>9. RCall(t)'
    BY <1>2, <2>2, <2>3, <2>5, <2>8 DEF RCall, Acting
  <2>10. Effective' = rest
    BY <2>2, <2>5, EffectiveIs DEF Acting
  <2>11. Promise!Leave(k, None)
    BY <1>2, <2>6, <2>7, <2>8, <2>10, LeaveIs
  <2>12. Promise!DeleteMessage(k)
    BY <1>2, <2>1, <2>11, MappedIs DEF Promise!DeleteMessage
  <2> QED BY <1>3, <2>9, <2>12, TheOnlyCall DEF MapStep, Promise!Next
<1>11. op[t].kind \in {"save", "delete", "list", "compact"}
  BY <1>2 DEF CallOK
<1> QED BY <1>5, <1>6, <1>8, <1>9, <1>10, <1>11

LEMMA ReadMaps ==
  ASSUME TInv, SInv, RInv, OneWindow, NamedIds, NEW t \in Threads, WriteRebuilt(t) \/ Look(t)
  PROVE  RInv' /\ MapStep
<1>1. RFiles /\ RCall(t) /\ CInv(t)
  BY ListingIs, Known
<1>2. CASE WriteRebuilt(t)
  <2>1. pc[t] \in {"load-write", "look-write"}
    BY <1>2 DEF WriteRebuilt
  <2>2. ~Fresh /\ rebuilt[t] = Rebuilt /\ (pc[t] = "look-write" => op[t].kind = "list")
    BY <1>1, <2>1 DEF RCall, CInv
  <2>3. toc' = Rebuilt /\ mbx' = mbx /\ crashes' = crashes
    BY <1>2, <2>2 DEF WriteRebuilt
  <2>4. pc'[t] \in {"look", "idle"} /\ acked' = acked
    <3>1. CASE pc[t] = "load-write"
      BY <1>2, <3>1, Known DEF WriteRebuilt, Goto
    <3>2. CASE pc[t] = "look-write"
      <4>1. UseEntries(t, rebuilt[t].sums)
        BY <1>2, <3>2 DEF WriteRebuilt
      <4>2. Return(t) /\ acked' = acked
        BY <2>2, <3>2, <4>1 DEF UseEntries
      <4> QED BY <4>2, Known DEF Return, Goto
    <3> QED BY <2>1, <3>1, <3>2
  <2>5. Fresh' /\ Listing' = Listing /\ Listing = toc'.sums
    <3>1. Rebuilt # None /\ Rebuilt.of = mbx
      BY Known, MailStoreAssumption
    <3> QED BY <2>2, <2>3, <3>1 DEF Fresh, Listing, Rebuilt
  <2>6. Effective' = Effective
    BY <2>1, <2>4, <2>5, EffectiveIs DEF Acting
  <2>7. RFiles'
    BY <2>1, <2>3, <2>5, ListingIs DEF RFiles, Acting
  <2>8. RCall(t)'
    BY <2>4, <2>5 DEF RCall, Acting
  <2> QED BY <2>3, <2>4, <2>6, <2>7, <2>8, TheOnlyCall, Quiet DEF MapStep
<1>3. CASE Look(t) /\ Fresh
  BY <1>3, UsedMaps DEF Look
<1>4. CASE Look(t) /\ ~Fresh
  <2>1. /\ pc[t] = "look" /\ pc'[t] = "look-open"
        /\ mbx' = mbx /\ toc' = toc /\ acked' = acked /\ crashes' = crashes
    BY <1>4, Known DEF Look, Goto
  <2>2. RFiles' /\ RCall(t)'
    BY <1>1, <1>4, <2>1 DEF RFiles, RCall, Fresh, Acting
  <2>3. Effective' = Effective
    BY <2>1, EffectiveIs DEF Acting, Listing, Fresh
  <2> QED BY <2>1, <2>2, <2>3, TheOnlyCall, Quiet DEF MapStep
<1> QED BY <1>2, <1>3, <1>4

LEMMA RangeAppend ==
  ASSUME NEW S, NEW s \in Seq(S), NEW x \in S
  PROVE  Range(Append(s, x)) = Range(s) \cup {x}
<1>1. /\ Len(s) \in Nat /\ DOMAIN s = 1..Len(s) /\ DOMAIN Append(s, x) = 1..(Len(s) + 1)
      /\ \A i \in 1..Len(s) : Append(s, x)[i] = s[i]
      /\ Append(s, x)[Len(s) + 1] = x
  OBVIOUS
<1>2. \A i \in 1..(Len(s) + 1) : i \in 1..Len(s) \/ i = Len(s) + 1
  BY <1>1
<1>3. 1..Len(s) \subseteq 1..(Len(s) + 1) /\ Len(s) + 1 \in 1..(Len(s) + 1)
  BY <1>1
<1> QED BY <1>1, <1>2, <1>3 DEF Range

(* A record more in the file is a version more of its message. *)
LEMMA KeptMore ==
  ASSUME NEW file \in Seq(Stored), NEW r \in Stored
  PROVE  /\ r.key \in Keys => Kept(Append(file, r)) = [Kept(file) EXCEPT ![r.key] = @ \cup {r.ver}]
         /\ r.key \notin Keys => Kept(Append(file, r)) = Kept(file)
<1>1. PICK new : new = Append(file, r)
  OBVIOUS
<1>2. Range(new) = Range(file) \cup {r}
  BY <1>1, RangeAppend
<1>3. ASSUME NEW k \in Keys
      PROVE  Kept(new)[k] = IF k = r.key THEN Kept(file)[k] \cup {r.ver} ELSE Kept(file)[k]
  BY <1>2 DEF Kept
<1>4. CASE r.key \in Keys
  <2>1. Kept(new) = [k \in Keys |-> IF k = r.key THEN Kept(file)[k] \cup {r.ver} ELSE Kept(file)[k]]
    BY <1>3 DEF Kept
  <2>2. DOMAIN Kept(file) = Keys
    BY DEF Kept
  <2>3. Kept(new) = [Kept(file) EXCEPT ![r.key] = @ \cup {r.ver}]
    BY <1>4, <2>1, <2>2
  <2> QED BY <1>1, <1>4, <2>3
<1>5. CASE r.key \notin Keys
  <2>1. Kept(new) = [k \in Keys |-> Kept(file)[k]]
    BY <1>3, <1>5 DEF Kept
  <2>2. Kept(file) = [k \in Keys |-> Kept(file)[k]]
    BY DEF Kept
  <2> QED BY <1>1, <1>5, <2>1, <2>2
<1> QED BY <1>4, <1>5

LEMMA AppendMaps ==
  ASSUME TInv, SInv, RInv, OneWindow, NamedIds, NEW t \in Threads, AppendRecord(t)
  PROVE  RInv' /\ MapStep
<1>1. PICK r : r = NewRecord(t)
  OBVIOUS
<1>2. /\ pc[t] = "append" /\ mbx' = Append(mbx, r) /\ toc' = toc /\ acked' = acked /\ op' = op
      /\ pc'[t] = "open" /\ mine'[t] = AddEntry(mine[t], r) /\ crashes' = crashes
  BY <1>1, Known DEF AppendRecord, Goto
<1>3. /\ RFiles /\ RCall(t) /\ CInv(t) /\ CallOK(t) /\ mine[t] \in Table /\ Fresh /\ mbx \in Seq(Stored)
  BY <1>2, Known, CallTyped, ListingIs DEF CInv
<1>4. op[t].kind = "save" /\ op[t].key \in Keys /\ op[t].ver \in 0..MaxSaves /\ op[t].ver # 0
  BY <1>2, <1>3, CallTyped DEF CallOK
<1>5. PICK k \in Keys : k = op[t].key
  BY <1>4
<1>6. r \in Stored /\ r.uid # 0 /\ r.ver = op[t].ver /\ r.key = k
  <2>1. found[t] # None => found[t].key = op[t].key
    BY <1>2, <1>3 DEF CInv
  <2> QED BY <1>1, <1>2, <1>5, <2>1, NewRecordTyped
<1>7. PICK sums \in Seq(Entry) : sums = toc.sums
  BY <1>3, CallTyped DEF Fresh, Table
<1>8. Effective = sums
  BY <1>2, <1>3, <1>7, EffectiveIs DEF Listing, Acting
<1>9. PICK rest : rest = Without(sums, Find(sums, k))
  OBVIOUS
<1>10. mine[t].sums = rest
  BY <1>2, <1>3, <1>5, <1>7, <1>9 DEF RCall
<1>11. PICK e : e = Entered(mine[t].next, r)
  OBVIOUS
<1>12. e \in Entry /\ e.key = k /\ e.ver = op[t].ver
  BY <1>3, <1>6, <1>11, AddEntryIs DEF Entered
<1>13. PICK new : new = Append(rest, e)
  OBVIOUS
<1>14. mine'[t].sums = new
  BY <1>2, <1>3, <1>6, <1>10, <1>11, <1>13, AddEntryIs
<1>15. /\ rest \in Seq(Entry) /\ Range(rest) \subseteq Range(sums)
       /\ \A o \in Keys \ {k} : Got(rest, o) = Got(sums, o) /\ (Several(rest, o) <=> Several(sums, o))
       /\ ~Several(sums, k) => NoEntry(rest, k)
  BY <1>9, RestGot
<1>16. /\ new \in Seq(Entry)
       /\ \A o \in Keys \ {k} : Got(new, o) = Got(rest, o) /\ (Several(new, o) <=> Several(rest, o))
       /\ NoEntry(rest, k) => Got(new, k) = op[t].ver /\ ~Several(new, k)
  BY <1>12, <1>13, <1>15, AddedGot
<1>17. OfFile(sums, mbx) /\ (crashes = 0 => Single(sums))
  BY <1>3, <1>7 DEF RFiles
<1>18. Range(mbx') = Range(mbx) \cup {r} /\ Range(new) = Range(rest) \cup {e}
  BY <1>2, <1>3, <1>6, <1>12, <1>13, <1>15, RangeAppend
<1>19. OfFile(sums, mbx') /\ OfFile(new, mbx')
  BY <1>6, <1>12, <1>15, <1>17, <1>18 DEF OfFile
<1>20. crashes = 0 => Single(new)
  BY <1>15, <1>16, <1>17 DEF Single
<1>21. RFiles'
  BY <1>2, <1>7, <1>17, <1>19 DEF RFiles
<1>22. RCall(t)'
  BY <1>2, <1>4, <1>14, <1>19, <1>20 DEF RCall, Acting
<1>23. Effective' = new
  BY <1>2, <1>14, EffectiveIs DEF Acting
<1>24. Promise!Leave(k, op[t].ver)
  <2>1. \A o \in Keys \ {k} : Got(new, o) = Got(sums, o) /\ (Several(new, o) <=> Several(sums, o))
    BY <1>15, <1>16
  <2>2. ~Several(sums, k) => Got(new, k) = op[t].ver /\ ~Several(new, k)
    BY <1>15, <1>16
  <2> QED BY <1>8, <1>16, <1>19, <1>23, <2>1, <2>2, LeaveIs
<1>25. Past' = [Past EXCEPT ![k] = @ \cup {op[t].ver}]
  BY <1>2, <1>3, <1>6, KeptMore, MappedIs
<1>26. Promise!SaveMessage(k, op[t].ver) /\ op[t].ver \in 1..MaxSaves
  BY <1>2, <1>4, <1>24, <1>25, MailStoreAssumption DEF Promise!SaveMessage
<1>27. MapStep
  BY <1>26 DEF MapStep, Promise!Next
<1> QED BY <1>21, <1>22, <1>27, TheOnlyCall

LEMMA RenameMaps ==
  ASSUME TInv, SInv, RInv, OneWindow, NamedIds, NEW t \in Threads, RenameCompacted(t)
  PROVE  RInv' /\ MapStep
<1>1. /\ pc[t] = "rename" /\ mbx' = Compacted(rebuilt[t].sums)
      /\ mine'[t] = [mine[t] EXCEPT !.sums = rebuilt[t].sums] /\ pc'[t] = "open"
      /\ toc' = toc /\ op' = op /\ acked' = acked /\ crashes' = crashes
  BY Known DEF RenameCompacted, Compacted, Goto
<1>2. RFiles /\ RCall(t) /\ CInv(t) /\ CallOK(t) /\ mine[t] \in Table
  BY Known, CallTyped, ListingIs
<1>3. Fresh /\ rebuilt[t].sums = toc.sums /\ mine[t] = toc /\ op[t].kind = "compact"
  BY <1>1, <1>2 DEF CInv, CallOK
<1>4. PICK sums \in Seq(Entry) : sums = toc.sums
  BY <1>2, <1>3 DEF Table
<1>5. OfFile(sums, mbx) /\ (crashes = 0 => Single(sums))
  BY <1>2, <1>3, <1>4 DEF RFiles
<1>6. PICK file : file = Compacted(sums)
  OBVIOUS
<1>7. mbx' = file /\ mine'[t].sums = sums
  BY <1>1, <1>2, <1>3, <1>4, <1>6 DEF Table
<1>8. /\ \A e \in Range(sums) : \E r \in Range(file) : r.key = e.key /\ r.ver = e.ver
      /\ \A r \in Range(file) : \E e \in Range(sums) : r.key = e.key /\ r.ver = e.ver
  <2>1. DOMAIN sums = 1..Len(sums) /\ DOMAIN file = 1..Len(sums)
    BY <1>6 DEF Compacted
  <2>2. \A i \in 1..Len(sums) : file[i].key = sums[i].key /\ file[i].ver = sums[i].ver
    BY <1>6 DEF Compacted, Whole, Record
  <2> QED BY <2>1, <2>2 DEF Range
<1>9. OfFile(sums, file)
  BY <1>8 DEF OfFile
<1>10. Effective = sums /\ Effective' = sums
  BY <1>1, <1>3, <1>4, <1>7, EffectiveIs DEF Acting, Listing
<1>11. RFiles'
  BY <1>1, <1>4, <1>5, <1>7, <1>9 DEF RFiles
<1>12. RCall(t)'
  BY <1>1, <1>3, <1>5, <1>7, <1>9 DEF RCall, Acting
<1>13. Store = Reads(sums) /\ Store' = Store /\ Doubled' = Doubled /\ Past = Kept(mbx) /\ Past' = Kept(file)
  BY <1>7, <1>10, MappedIs
<1>14. ASSUME NEW k \in Keys
       PROVE  Past'[k] \subseteq Past[k] /\ Store[k] \in Past'[k] \cup {None}
  <2>1. Store[k] \in Past'[k] \cup {None}
    BY <1>9, <1>13, ReadKept
  <2>2. ASSUME NEW v, v \in Kept(file)[k] PROVE v \in Kept(mbx)[k]
    <3>1. PICK r \in Range(file) : r.key = k /\ r.ver = v
      BY <2>2, KeptIs
    <3>2. PICK e \in Range(sums) : e.key = k /\ e.ver = v
      BY <1>8, <3>1
    <3>3. \E x \in Range(mbx) : x.key = k /\ x.ver = v
      BY <1>5, <3>2 DEF OfFile
    <3> QED BY <3>3, KeptIs
  <2> QED BY <1>13, <2>1, <2>2
<1>15. Promise!Compact
  BY <1>1, <1>13, <1>14 DEF Promise!Compact
<1> QED BY <1>11, <1>12, <1>15, TheOnlyCall DEF MapStep, Promise!Next

LEMMA OpenMaps ==
  ASSUME TInv, SInv, RInv, OneWindow, NEW t \in Threads, Open(t)
  PROVE  RInv' /\ MapStep
<1>1. /\ pc[t] = "open" /\ mbx' = mbx /\ toc' = None /\ pc'[t] = "write"
      /\ mine'[t] = [mine[t] EXCEPT !.of = mbx]
      /\ op' = op /\ acked' = acked /\ crashes' = crashes
  BY Known DEF Open, Goto
<1>2. RFiles /\ RCall(t) /\ mine[t] \in Table
  BY ListingIs
<1>3. mine'[t].sums = mine[t].sums
  BY <1>1, <1>2 DEF Table
<1>4. RFiles'
  BY <1>1 DEF RFiles, Fresh
<1>5. RCall(t)'
  BY <1>1, <1>2, <1>3 DEF RCall, Acting
<1>6. Effective' = Effective
  BY <1>1, <1>3, EffectiveIs DEF Acting
<1> QED BY <1>1, <1>4, <1>5, <1>6, TheOnlyCall, Quiet DEF MapStep

LEMMA WriteMaps ==
  ASSUME TInv, SInv, RInv, OneWindow, NamedIds, NEW t \in Threads, Write(t)
  PROVE  RInv' /\ MapStep
<1>1. /\ pc[t] = "write" /\ mbx' = mbx /\ toc' = mine[t] /\ pc'[t] = "idle" /\ crashes' = crashes
  BY Known DEF Write, Return, Goto
<1>2. /\ RFiles /\ RCall(t) /\ CInv(t) /\ CallOK(t) /\ mine[t] \in Table /\ mine[t].of = mbx
      /\ crashes \in Nat /\ op[t].ver \in 0..MaxSaves
  <2>1. CInv(t) /\ CallOK(t) /\ RFiles /\ RCall(t) /\ mine[t] \in Table /\ crashes \in 0..MaxCrashes
    BY Known, CallTyped, ListingIs
  <2>2. op[t].ver \in 0..MaxSaves
    BY CallTyped
  <2> QED BY <1>1, <2>1, <2>2, MailStoreAssumption DEF CInv
<1>3. PICK sums \in Seq(Entry) : sums = mine[t].sums
  BY <1>2 DEF Table
<1>4. OfFile(sums, mbx) /\ (crashes = 0 => Single(sums))
  BY <1>1, <1>2, <1>3 DEF RCall, Acting
<1>5. Fresh' /\ Listing' = sums
  <2>1. mine[t] # None
    BY <1>2, MailStoreAssumption
  <2> QED BY <1>1, <1>2, <1>3, <2>1 DEF Fresh, Listing
<1>6. Effective = sums /\ Effective' = sums
  BY <1>1, <1>3, <1>5, EffectiveIs DEF Acting
<1>7. RFiles' /\ RCall(t)'
  BY <1>1, <1>3, <1>4, <1>5 DEF RFiles, RCall, Acting
<1>8. CASE op[t].kind = "save"
  <2>1. PICK k \in Keys : k = op[t].key
    BY <1>2, <1>8 DEF CallOK
  <2>2. acked' = [acked EXCEPT ![k] = op[t].ver]
    BY <1>8, <2>1 DEF Write
  <2>3. Lists(sums, k, op[t].ver)
    BY <1>1, <1>2, <1>3, <1>8, <2>1 DEF CInv
  <2>4. \E r \in Range(mbx) : r.key = k /\ r.ver = op[t].ver
    BY <1>4, <2>3 DEF Lists, OfFile
  <2>5. crashes = 0 => op[t].ver = Got(sums, k)
    BY <1>4, <2>3, GotIs DEF Single
  <2> QED BY <1>1, <1>2, <1>6, <1>7, <2>2, <2>4, <2>5, TheOnlyCall, ReturnMaps
<1>9. CASE op[t].kind = "delete"
  <2>1. PICK k \in Keys : k = op[t].key
    BY <1>2, <1>9 DEF CallOK
  <2>2. acked' = [acked EXCEPT ![k] = None]
    BY <1>9, <2>1 DEF Write
  <2>3. crashes = 0 => None = Got(sums, k)
    BY <1>1, <1>2, <1>3, <1>9, <2>1, GotIs DEF RCall, Acting
  <2> QED BY <1>1, <1>2, <1>6, <1>7, <2>2, <2>3, TheOnlyCall, ReturnMaps
<1>10. CASE op[t].kind = "compact"
  <2>1. acked' = acked
    BY <1>10 DEF Write
  <2> QED BY <1>1, <1>6, <1>7, <2>1, TheOnlyCall, Quiet DEF MapStep
<1>11. op[t].kind \in {"save", "delete", "compact"}
  BY <1>1, <1>2 DEF CallOK
<1> QED BY <1>8, <1>9, <1>10, <1>11

LEMMA CrashMaps ==
  ASSUME TInv, SInv, TInv', RInv, OneWindow, NamedIds, Crash
  PROVE  RInv' /\ MapStep
<1>1. /\ toc' = toc /\ acked' = acked /\ crashes' = crashes + 1 /\ crashes \in Nat /\ crashes' > 0
      /\ \A t \in Threads : pc'[t] = "idle"
  <2>1. crashes \in 0..MaxCrashes
    BY DEF TInv, TypeOK
  <2> QED BY <2>1, MailStoreAssumption DEF Crash
<1>2. PICK t \in Threads : pc[t] # "idle"
  BY DEF Crash
<1>3. RFiles /\ mbx \in Seq(Stored) /\ mbx' \in Seq(Stored) /\ toc \in Table \cup {None}
  BY ListingIs DEF TInv, TypeOK
<1>4. \/ mbx' = mbx
      \/ Fresh /\ \E r \in Stored : mbx' = Append(mbx, r) /\ (r.key \in Keys => r.ver = 0)
  <2>1. ASSUME pc[t] = "append", NEW r \in Torn(NewRecord(t).key, NewRecord(t).uid), mbx' = Append(mbx, r)
        PROVE  Fresh /\ \E x \in Stored : mbx' = Append(mbx, x) /\ (x.key \in Keys => x.ver = 0)
    <3>1. NewRecord(t).key \in Keys \cup {None} /\ NewRecord(t).uid \in Nat
      BY <2>1, NewRecordTyped DEF Stored
    <3>2. r \in Stored
      BY <3>1, TornTyped
    <3>3. r.ver = 0
      BY DEF Torn, Record
    <3>4. Fresh
      BY <2>1, Known DEF CInv
    <3> QED BY <2>1, <3>2, <3>3, <3>4
  <2>2. \A s \in Threads : s = t
    BY DEF OneWindow
  <2> QED BY <2>1, <2>2 DEF Crash
<1>5. PICK new \in Seq(Entry) : new = Listing'
  <2>1. Rebuild(mbx') \in Table
    BY <1>3, RebuildTyped
  <2> QED BY <1>1, <1>3, <2>1 DEF Listing, Fresh, Table
<1>6. RFiles'
  <2>1. CASE mbx' = mbx
    BY <1>1, <1>3, <2>1 DEF RFiles, Fresh
  <2>2. CASE Fresh /\ \E r \in Stored : mbx' = Append(mbx, r) /\ (r.key \in Keys => r.ver = 0)
    <3>1. PICK r \in Stored : mbx' = Append(mbx, r)
      BY <2>2
    <3>2. Range(mbx') = Range(mbx) \cup {r}
      BY <1>3, <3>1, RangeAppend
    <3>3. OfFile(toc.sums, mbx')
      BY <1>3, <2>2, <3>2, OfLonger DEF RFiles
    <3> QED BY <1>1, <3>3 DEF RFiles
  <2> QED BY <1>4, <2>1, <2>2
<1>7. RCall(t)'
  BY <1>1 DEF RCall, Acting
<1>8. Effective' = new
  BY <1>1, <1>5, EffectiveIs DEF Acting
<1>9. OfFile(new, mbx')
  <2>1. CASE Fresh'
    BY <1>5, <1>6, <2>1 DEF RFiles, Listing
  <2>2. CASE ~Fresh'
    BY <1>3, <1>5, <2>2, RebuildOf DEF Listing
  <2> QED BY <2>1, <2>2
<1>10. Store' = Reads(new) /\ Doubled' = Twice(new) /\ Past = Kept(mbx) /\ Past' = Kept(mbx')
  BY <1>8, MappedIs
<1>11. \A k \in Keys : Store'[k] \in Past'[k] \cup {None}
  BY <1>9, <1>10, ReadKept
<1>12. Past' = Past \/ \E k \in Keys : Past' = [Past EXCEPT ![k] = @ \cup {0}]
  <2>1. CASE mbx' = mbx
    BY <1>10, <2>1
  <2>2. CASE \E r \in Stored : mbx' = Append(mbx, r) /\ (r.key \in Keys => r.ver = 0)
    <3>1. PICK r \in Stored : mbx' = Append(mbx, r) /\ (r.key \in Keys => r.ver = 0)
      BY <2>2
    <3>2. CASE r.key \in Keys
      <4>1. Kept(mbx') = [Kept(mbx) EXCEPT ![r.key] = @ \cup {0}]
        BY <1>3, <3>1, <3>2, KeptMore
      <4> QED BY <1>10, <3>2, <4>1
    <3>3. CASE r.key \notin Keys
      BY <1>3, <1>10, <3>1, <3>3, KeptMore
    <3> QED BY <3>2, <3>3
  <2> QED BY <1>4, <2>1, <2>2
<1>13. Doubled' \subseteq Keys
  BY <1>10 DEF Twice
<1>14. Promise!Crash
  BY <1>1, <1>11, <1>12, <1>13 DEF Promise!Crash
<1> QED BY <1>6, <1>7, <1>14, TheOnlyCall DEF MapStep, Promise!Next

LEMMA NextMaps ==
  ASSUME OneWindow, NamedIds, TInv, SInv, RInv, TInv', [Next]_vars
  PROVE  RInv' /\ [Promise!Next]_(Promise!vars)
<1>1. CASE UNCHANGED vars
  <2>1. RInv'
    BY <1>1 DEF vars, RInv, RFiles, RCall, Fresh, Acting
  <2>2. Effective' = Effective
    BY <1>1 DEF vars, Effective, Listing, Fresh
  <2>3. UNCHANGED Promise!vars
    BY <1>1, <2>2, Quiet DEF vars
  <2> QED BY <2>1, <2>3
<1>2. CASE Crash
  BY <1>2, CrashMaps DEF MapStep
<1>3. ASSUME NEW t \in Threads, Step(t) PROVE RInv' /\ MapStep
  BY <1>3, BeginMaps, LoadMaps, ReadMaps, AppendMaps, RenameMaps, OpenMaps, WriteMaps DEF Step
<1> QED BY <1>1, <1>2, <1>3 DEF Next, MapStep

(* With one window and ids that are names, the two files implement the map  *)
(* of MessageStore: from any step of any call, any crash and any rebuild,   *)
(* what is read is what the abstract store allows.                          *)
THEOREM FilesAreTheMap ==
  ASSUME OneWindow, NamedIds
  PROVE  Spec => Implements
<1>1. Init => TInv /\ SInv /\ RInv /\ Promise!Init
  BY InitTyped, InitSafe, InitPromised
<1>2. (TInv /\ SInv /\ RInv) /\ [Next]_vars =>
        (TInv /\ SInv /\ RInv)' /\ [Promise!Next]_(Promise!vars)
  BY NextTyped, NextSafe, NextMaps
<1> QED BY <1>1, <1>2, PTL DEF Spec, Implements, Promise!Spec
=============================================================================
