------------------------ MODULE ImapMailboxesProofs ------------------------
(* What ImapMailboxes keeps, for all accounts, names, ids and bounds: the   *)
(* types, that no directory with messages loses its mailbox, that what is   *)
(* marked as seen is shown, how often a mailbox is listed, and that only    *)
(* what the user asked for disappears from a server.                        *)
EXTENDS ImapMailboxes, Extrema, FiniteSetTheorems

-----------------------------------------------------------------------------
(* Sums.  SumFunctionOnSet chooses a function that folds the subsets of a   *)
(* set; where the induction over their size is needed it is by the least    *)
(* size that fails.                                                         *)

(* g is the fold SumFunctionOnSet chooses, of f over the subsets of S.      *)
Folds(g, f, S) ==
  g = [s \in SUBSET S |-> IF s = {} THEN 0
                          ELSE f[CHOOSE x \in s : TRUE] + g[s \ {CHOOSE x \in s : TRUE}]]

LEMMA SumIsFold ==
  ASSUME NEW f, NEW S
  PROVE  SumFunctionOnSet(f, S) = (CHOOSE g : Folds(g, f, S))[S]
BY Zenon DEF SumFunctionOnSet, FoldFunctionOnSet, MapThenFoldSet, Folds

(* A set without one of its elements is smaller. *)
LEMMA Smaller ==
  ASSUME NEW S, IsFiniteSet(S), NEW s \in SUBSET S, s # {}, NEW c, c = CHOOSE x \in s : TRUE
  PROVE  /\ c \in s /\ s \ {c} \in SUBSET S
         /\ Cardinality(s) \in Nat /\ Cardinality(s \ {c}) \in Nat
         /\ Cardinality(s \ {c}) < Cardinality(s)
<1>1. c \in s
  OBVIOUS
<1>2. IsFiniteSet(s)
  BY FS_Subset
<1>3. Cardinality(s \ {c}) = Cardinality(s) - 1 /\ Cardinality(s) \in Nat /\ IsFiniteSet(s \ {c})
  BY <1>1, <1>2, FS_RemoveElement, FS_CardinalityType
<1>4. Cardinality(s \ {c}) \in Nat
  BY <1>3, FS_CardinalityType
<1> QED BY <1>1, <1>3, <1>4

(* The fold exists: it is built for subsets of n elements at most, for each n. *)
LEMMA FoldExists ==
  ASSUME NEW f, NEW S, IsFiniteSet(S)
  PROVE  \E g : Folds(g, f, S)
<1> DEFINE Sub(n) == {s \in SUBSET S : Cardinality(s) <= n}
           First(s) == CHOOSE x \in s : TRUE
           G(g, n) == g = [s \in Sub(n) |-> IF s = {} THEN 0 ELSE f[First(s)] + g[s \ {First(s)}]]
           Bad == {n \in Nat : ~ \E g : G(g, n)}
<1>1. \E g : G(g, 0)
  <2>1. Sub(0) \subseteq {{}}
    <3> SUFFICES ASSUME NEW s \in Sub(0), s # {} PROVE FALSE
      OBVIOUS
    <3>1. /\ Cardinality(s) \in Nat /\ Cardinality(s \ {First(s)}) \in Nat
          /\ Cardinality(s \ {First(s)}) < Cardinality(s)
      BY Smaller
    <3>2. Cardinality(s) <= 0
      OBVIOUS
    <3> QED BY <3>1, <3>2
  <2> DEFINE g == [s \in Sub(0) |-> 0]
  <2>2. G(g, 0)
    BY <2>1
  <2> QED BY <2>2
<1>2. ASSUME NEW n \in Nat, n # 0, NEW h, G(h, n - 1)
      PROVE  \E g : G(g, n)
  <2> DEFINE g == [s \in Sub(n) |-> IF s = {} THEN 0 ELSE f[First(s)] + h[s \ {First(s)}]]
  <2>1. ASSUME NEW s \in Sub(n), s # {}
        PROVE  g[s \ {First(s)}] = h[s \ {First(s)}]
    <3> DEFINE t == s \ {First(s)}
    <3>1. t \in SUBSET S /\ Cardinality(t) \in Nat /\ Cardinality(s) \in Nat
          /\ Cardinality(t) < Cardinality(s) /\ Cardinality(s) <= n
      BY <2>1, Smaller
    <3> HIDE DEF t
    <3>2. t \in Sub(n - 1) /\ t \in Sub(n)
      BY <3>1
    <3>3. h[t] = IF t = {} THEN 0 ELSE f[First(t)] + h[t \ {First(t)}]
      BY <1>2, <3>2
    <3>4. g[t] = h[t]
      BY <3>2, <3>3
    <3> QED BY <3>4 DEF t
  <2>2. [s \in Sub(n) |-> IF s = {} THEN 0 ELSE f[First(s)] + h[s \ {First(s)}]]
        = [s \in Sub(n) |-> IF s = {} THEN 0 ELSE f[First(s)] + g[s \ {First(s)}]]
    <3> HIDE DEF g
    <3> QED BY <2>1
  <2>3. G(g, n)
    BY <2>2
  <2> QED BY <2>3
<1> HIDE DEF G
<1>3. Bad = {}
  <2> SUFFICES ASSUME Bad # {} PROVE FALSE
    OBVIOUS
  <2>1. Bad \in SUBSET Nat
    OBVIOUS
  <2>2. PICK n \in Bad : \A b \in Bad : n <= b
    BY <2>1, LeastExists
  <2>3. n \in Nat /\ n # 0
    BY <1>1
  <2>4. n - 1 \in Nat /\ ~(n <= n - 1)
    BY <2>3
  <2>5. n - 1 \notin Bad
    BY <2>2, <2>4
  <2>6. PICK h : G(h, n - 1)
    BY <2>4, <2>5
  <2> QED BY <1>2, <2>3, <2>6
<1>4. Cardinality(S) \in Nat
  BY FS_CardinalityType
<1>5. PICK g : G(g, Cardinality(S))
  BY <1>3, <1>4
<1>6. Sub(Cardinality(S)) = SUBSET S
  BY FS_Subset
<1>7. Folds(g, f, S)
  BY <1>5, <1>6 DEF G, Folds
<1> QED BY <1>7

(* What the proofs need of a sum of naturals: it is a natural, no summand   *)
(* exceeds it, and it is its only summand if the others are 0.              *)
LEMMA SumFacts ==
  ASSUME NEW f, NEW S, IsFiniteSet(S), \A x \in S : f[x] \in Nat
  PROVE  /\ SumFunctionOnSet(f, S) \in Nat
         /\ \A x \in S : f[x] <= SumFunctionOnSet(f, S)
         /\ \A y \in S : (\A x \in S \ {y} : f[x] = 0) => SumFunctionOnSet(f, S) = f[y]
<1> DEFINE g == CHOOSE h : Folds(h, f, S)
           First(s) == CHOOSE x \in s : TRUE
           P(s) == /\ g[s] \in Nat
                   /\ \A x \in s : f[x] <= g[s]
                   /\ \A y : (\A x \in s \ {y} : f[x] = 0) => g[s] = IF y \in s THEN f[y] ELSE 0
           Bad == {n \in Nat : \E s \in SUBSET S : Cardinality(s) = n /\ ~P(s)}
<1>1. Folds(g, f, S)
  BY FoldExists
<1>2. SumFunctionOnSet(f, S) = g[S]
  BY SumIsFold
<1> HIDE DEF g
<1>3. g[{}] = 0
  BY <1>1 DEF Folds
<1>4. ASSUME NEW s \in SUBSET S, s # {}
      PROVE  g[s] = f[First(s)] + g[s \ {First(s)}]
  BY <1>1, <1>4 DEF Folds
<1>5. ASSUME NEW s \in SUBSET S, s # {}, P(s \ {First(s)})
      PROVE  P(s)
  <2> DEFINE c == First(s)
             t == s \ {c}
  <2>1. c \in s /\ f[c] \in Nat /\ g[s] = f[c] + g[t]
    BY <1>4, <1>5
  <2> HIDE DEF c
  <2>2. g[t] \in Nat /\ \A x \in t : f[x] <= g[t]
    BY <1>5 DEF c
  <2>3. g[s] \in Nat
    BY <2>1, <2>2
  <2>4. ASSUME NEW x \in s PROVE f[x] <= g[s]
    <3>1. f[x] \in Nat
      OBVIOUS
    <3>2. CASE x = c
      BY <2>1, <2>2, <3>1, <3>2
    <3>3. CASE x # c
      <4>1. f[x] <= g[t]
        BY <2>2, <3>3
      <4> HIDE DEF t
      <4> QED BY <2>1, <2>2, <3>1, <4>1
    <3> QED BY <3>2, <3>3
  <2>5. ASSUME NEW y, \A x \in s \ {y} : f[x] = 0
        PROVE  g[s] = IF y \in s THEN f[y] ELSE 0
    <3>1. \A x \in t \ {y} : f[x] = 0
      BY <2>5
    <3>2. g[t] = IF y \in t THEN f[y] ELSE 0
      BY <1>5, <3>1 DEF c
    <3>3. CASE y = c
      BY <2>1, <3>2, <3>3
    <3>4. CASE y # c
      <4>1. f[c] = 0
        BY <2>1, <2>5, <3>4
      <4>2. y \in t <=> y \in s
        BY <3>4
      <4>3. y \in s => f[y] \in Nat
        OBVIOUS
      <4> QED BY <2>1, <3>2, <4>1, <4>2, <4>3
    <3> QED BY <3>3, <3>4
  <2> QED BY <2>3, <2>4, <2>5
<1>6. P({})
  BY <1>3
<1> HIDE DEF P
<1>7. Bad = {}
  <2> SUFFICES ASSUME Bad # {} PROVE FALSE
    OBVIOUS
  <2>1. Bad \in SUBSET Nat
    OBVIOUS
  <2>2. PICK n \in Bad : \A b \in Bad : n <= b
    BY <2>1, LeastExists
  <2>3. PICK s \in SUBSET S : Cardinality(s) = n /\ ~P(s)
    BY <2>2
  <2>4. s # {}
    BY <1>6, <2>3
  <2> DEFINE t == s \ {First(s)}
  <2>5. t \in SUBSET S /\ Cardinality(t) \in Nat /\ Cardinality(t) < n
    <3>1. /\ s \ {First(s)} \in SUBSET S /\ Cardinality(s \ {First(s)}) \in Nat
          /\ Cardinality(s \ {First(s)}) < Cardinality(s)
      BY <2>4, Smaller
    <3> QED BY <2>3, <3>1
  <2> HIDE DEF t
  <2>6. n \in Nat /\ ~(n <= Cardinality(t))
    BY <2>5
  <2>7. Cardinality(t) \notin Bad
    BY <2>2, <2>6
  <2>8. P(t)
    BY <2>5, <2>7
  <2> QED BY <1>5, <2>3, <2>4, <2>8 DEF t
<1>8. Cardinality(S) \in Nat
  BY FS_CardinalityType
<1>9. P(S)
  BY <1>7, <1>8
<1> QED BY <1>2, <1>9 DEF P
-----------------------------------------------------------------------------
(* The list file *)

(* A list read for every account. *)
Lists == [Accounts -> [Names -> 0..MaxEntries]]

(* The entries of a name in the lists of all accounts. *)
LEMMA Totals ==
  ASSUME NEW lists, NEW n, \A b \in Accounts : lists[b][n] \in Nat
  PROVE  /\ SumFunction([b \in Accounts |-> lists[b][n]]) \in Nat
         /\ \A b \in Accounts : lists[b][n] <= SumFunction([c \in Accounts |-> lists[c][n]])
         /\ \A b \in Accounts : (\A c \in Accounts \ {b} : lists[c][n] = 0)
              => SumFunction([c \in Accounts |-> lists[c][n]]) = lists[b][n]
<1> DEFINE f == [b \in Accounts |-> lists[b][n]]
<1>1. SumFunction(f) = SumFunctionOnSet(f, Accounts)
  BY Zenon DEF SumFunction
<1>2. \A b \in Accounts : f[b] = lists[b][n]
  OBVIOUS
<1>3. IsFiniteSet(Accounts)
  BY ImapMailboxesAssumption
<1> HIDE DEF f
<1>4. \A b \in Accounts : f[b] \in Nat
  BY <1>2
<1>5. /\ SumFunctionOnSet(f, Accounts) \in Nat
      /\ \A b \in Accounts : f[b] <= SumFunctionOnSet(f, Accounts)
      /\ \A b \in Accounts : (\A c \in Accounts \ {b} : f[c] = 0)
           => SumFunctionOnSet(f, Accounts) = f[b]
  BY <1>3, <1>4, SumFacts
<1>6. /\ SumFunction(f) \in Nat
      /\ \A b \in Accounts : lists[b][n] <= SumFunction(f)
      /\ \A b \in Accounts : (\A c \in Accounts \ {b} : lists[c][n] = 0)
           => SumFunction(f) = lists[b][n]
  BY <1>1, <1>2, <1>5
<1> QED BY <1>6 DEF f

(* The list written for account a: no entry is lost, those of the other     *)
(* accounts are added, and entry once more when its id is not in ids.       *)
LEMMA RelistedIs ==
  ASSUME TypeOK, NEW a \in Accounts, NEW entry, NEW ids, NEW lists,
         lists = Relisted(a, entry, ids), Fits(lists)
  PROVE  /\ lists \in Lists
         /\ \A b \in Accounts \ {a} : lists[b] = list[b]
         /\ \A b \in Accounts, n \in Names : list[b][n] <= lists[b][n]
         /\ \A b \in Accounts, n \in Names : list[b][n] <= lists[a][n]
         /\ \A n \in Names : n = entry /\ LocalId[n] \notin ids => lists[a][n] > 0
         /\ \A n \in Names : /\ ~(n = entry /\ LocalId[n] \notin ids)
                             /\ \A b \in Accounts \ {a} : list[b][n] = 0
                             => lists[a][n] = list[a][n]
         /\ \A n \in Names : (\A b \in Accounts : list[b][n] = 0) => lists[a][n] <= 1
<1>1. list \in [Accounts -> [Names -> 0..MaxEntries]] /\ MaxEntries \in Nat
  BY ImapMailboxesAssumption DEF TypeOK
<1>2. \A b \in Accounts, n \in Names : list[b][n] \in Nat
  BY <1>1
<1> DEFINE Sum(n) == SumFunction([b \in Accounts |-> list[b][n]])
           Plus(n) == IF n = entry /\ LocalId[n] \notin ids THEN 1 ELSE 0
<1>3. ASSUME NEW n \in Names
      PROVE  /\ Sum(n) \in Nat
             /\ \A b \in Accounts : list[b][n] <= Sum(n)
             /\ \A b \in Accounts : (\A c \in Accounts \ {b} : list[c][n] = 0) => Sum(n) = list[b][n]
  BY <1>2, Totals
<1>4. lists = [list EXCEPT ![a] = [n \in Names |-> Sum(n) + Plus(n)]]
  BY Zenon DEF Relisted
<1> HIDE DEF Sum
<1>5. /\ \A b \in Accounts \ {a} : lists[b] = list[b]
      /\ \A n \in Names : lists[a][n] = Sum(n) + Plus(n)
  BY <1>1, <1>4
<1>6. \A n \in Names : Plus(n) \in {0, 1}
  OBVIOUS
<1>7. \A b \in Accounts, n \in Names : list[b][n] <= lists[a][n]
  <2> SUFFICES ASSUME NEW b \in Accounts, NEW n \in Names PROVE list[b][n] <= lists[a][n]
    OBVIOUS
  <2> HIDE DEF Plus
  <2> QED BY <1>2, <1>3, <1>5, <1>6
<1>8. \A b \in Accounts, n \in Names : list[b][n] <= lists[b][n]
  <2> SUFFICES ASSUME NEW b \in Accounts, NEW n \in Names PROVE list[b][n] <= lists[b][n]
    OBVIOUS
  <2>1. CASE b = a
    BY <1>7, <2>1
  <2>2. CASE b # a
    BY <1>2, <1>5, <2>2
  <2> QED BY <2>1, <2>2
<1>9. \A b \in Accounts, n \in Names : lists[b][n] \in 0..MaxEntries
  <2> SUFFICES ASSUME NEW b \in Accounts, NEW n \in Names PROVE lists[b][n] \in 0..MaxEntries
    OBVIOUS
  <2>1. lists[b][n] \in Nat
    <3>1. CASE b = a
      <4> HIDE DEF Plus
      <4> QED BY <1>3, <1>5, <1>6, <3>1
    <3>2. CASE b # a
      BY <1>2, <1>5, <3>2
    <3> QED BY <3>1, <3>2
  <2> QED BY <1>1, <2>1 DEF Fits
<1>10. lists \in Lists
  <2>1. lists \in [Accounts -> [Names -> Int]]
    <3>1. \A n \in Names : Sum(n) + Plus(n) \in Int
      BY <1>3
    <3>2. [n \in Names |-> Sum(n) + Plus(n)] \in [Names -> Int]
      BY <3>1
    <3>3. list \in [Accounts -> [Names -> Int]]
      BY <1>1
    <3> QED BY <1>4, <3>2, <3>3
  <2> QED BY <1>9, <2>1 DEF Lists
<1>11. ASSUME NEW n \in Names, n = entry, LocalId[n] \notin ids
       PROVE  lists[a][n] > 0
  BY <1>3, <1>5, <1>11
<1>12. ASSUME NEW n \in Names, ~(n = entry /\ LocalId[n] \notin ids),
              \A b \in Accounts \ {a} : list[b][n] = 0
       PROVE  lists[a][n] = list[a][n]
  <2>1. Sum(n) = list[a][n]
    BY <1>3, <1>12
  <2>2. Plus(n) = 0
    BY <1>12
  <2> QED BY <1>2, <1>5, <2>1, <2>2
<1>13. ASSUME NEW n \in Names, \A b \in Accounts : list[b][n] = 0
       PROVE  lists[a][n] <= 1
  <2>1. Sum(n) = 0
    BY <1>3, <1>13
  <2> QED BY <1>5, <1>6, <2>1
<1> QED BY <1>5, <1>7, <1>8, <1>10, <1>11, <1>12, <1>13

(* The list after a rename in account a: the entries of id i have become    *)
(* entries of name n, the others are kept, and those of the other accounts  *)
(* are added.                                                               *)
LEMMA RenamedIs ==
  ASSUME TypeOK, NEW a \in Accounts, NEW i \in Ids, NEW n \in Names, RenameEntries(a, i, n)
  PROVE  /\ list' \in Lists
         /\ \A b \in Accounts \ {a} : list'[b] = list[b]
         /\ \A k \in Names \ Resolved(a, i) : list[a][k] <= list'[a][k]
         /\ Resolved(a, i) # {} => list'[a][n] > 0
         /\ \A b \in Accounts \ {a}, k \in Names : list[b][k] <= list'[a][k]
         /\ \A k \in Names \ {n} : (\A b \in Accounts \ {a} : list[b][k] = 0)
                                   => list'[a][k] <= list[a][k]
         /\ list'[a][n] > 1 /\ (\A b \in Accounts \ {a} : list[b][n] = 0)
              => [acct |-> a, of |-> n] \in merged'
         /\ merged \subseteq merged'
<1>1. list \in [Accounts -> [Names -> 0..MaxEntries]] /\ MaxEntries \in Nat
  BY ImapMailboxesAssumption DEF TypeOK
<1>2. list \in [Accounts -> [Names -> Nat]]
  BY <1>1
<1> DEFINE moved == SumFunctionOnSet(list[a], Resolved(a, i))
           others == [list EXCEPT ![a] = [k \in Names |->
                        IF k \in Resolved(a, i) THEN 0 ELSE list[a][k]]]
           named == [others EXCEPT ![a][n] = @ + moved]
           Sum(k) == SumFunction([b \in Accounts |-> named[b][k]])
<1>3. /\ list' = [named EXCEPT ![a] = [k \in Names |-> Sum(k)]]
      /\ Fits(list')
      /\ merged' = IF named[a][n] > 1 THEN merged \cup {[acct |-> a, of |-> n]} ELSE merged
  BY Zenon DEF RenameEntries
<1>4. moved \in Nat /\ (Resolved(a, i) # {} => moved > 0)
  <2>1. Resolved(a, i) \subseteq Names /\ \A k \in Resolved(a, i) : list[a][k] > 0
    BY DEF Resolved, Listed
  <2>2. IsFiniteSet(Resolved(a, i))
    BY <2>1, FS_Subset, ImapMailboxesAssumption
  <2>3. \A k \in Resolved(a, i) : list[a][k] \in Nat
    BY <1>2, <2>1
  <2>4. moved \in Nat /\ \A k \in Resolved(a, i) : list[a][k] <= moved
    <3> DEFINE f == list[a]
               S == Resolved(a, i)
    <3> HIDE DEF f, S
    <3>1. IsFiniteSet(S) /\ \A k \in S : f[k] \in Nat
      BY <2>2, <2>3 DEF f, S
    <3>2. SumFunctionOnSet(f, S) \in Nat /\ \A k \in S : f[k] <= SumFunctionOnSet(f, S)
      BY <3>1, SumFacts
    <3> QED BY <3>2 DEF f, S
  <2> HIDE DEF moved
  <2> QED BY <2>1, <2>3, <2>4
<1> HIDE DEF moved
<1>5. others \in [Accounts -> [Names -> Nat]]
  BY <1>2
<1>6. /\ \A b \in Accounts \ {a} : others[b] = list[b]
      /\ \A k \in Names : others[a][k] = IF k \in Resolved(a, i) THEN 0 ELSE list[a][k]
  BY <1>2
<1> HIDE DEF others
<1>7. /\ named \in [Accounts -> [Names -> Nat]]
      /\ \A b \in Accounts \ {a} : named[b] = others[b]
      /\ \A k \in Names \ {n} : named[a][k] = others[a][k]
      /\ named[a][n] = others[a][n] + moved
  BY <1>4, <1>5
<1> HIDE DEF named
<1>8. ASSUME NEW k \in Names
      PROVE  /\ Sum(k) \in Nat
             /\ \A b \in Accounts : named[b][k] <= Sum(k)
             /\ (\A b \in Accounts \ {a} : named[b][k] = 0) => Sum(k) = named[a][k]
  <2>1. \A b \in Accounts : named[b][k] \in Nat
    BY <1>7
  <2> QED BY <2>1, Totals
<1> HIDE DEF Sum
<1>9. /\ \A b \in Accounts \ {a} : list'[b] = list[b]
      /\ \A k \in Names : list'[a][k] = Sum(k)
      /\ DOMAIN list' = Accounts /\ DOMAIN list'[a] = Names
  BY <1>3, <1>6, <1>7
<1>10. list' \in Lists
  <2>1. [k \in Names |-> Sum(k)] \in [Names -> Nat]
    BY <1>8
  <2>2. list' \in [Accounts -> [Names -> Nat]]
    BY <1>3, <1>7, <2>1
  <2>3. \A b \in Accounts, k \in Names : list'[b][k] \in 0..MaxEntries
    BY <1>1, <1>3, <2>2 DEF Fits
  <2> QED BY <2>2, <2>3 DEF Lists
<1>11. ASSUME NEW k \in Names \ Resolved(a, i)
       PROVE  list[a][k] <= list'[a][k]
  <2>1. others[a][k] = list[a][k] /\ others[a][k] \in Nat
    BY <1>5, <1>6
  <2>2. others[a][k] <= named[a][k] /\ named[a][k] \in Nat
    BY <1>4, <1>7, <2>1
  <2> QED BY <1>8, <1>9, <2>1, <2>2
<1>12. ASSUME Resolved(a, i) # {} PROVE list'[a][n] > 0
  <2>1. others[a][n] \in Nat
    BY <1>5
  <2>2. named[a][n] > 0 /\ named[a][n] \in Nat
    BY <1>4, <1>7, <1>12, <2>1
  <2> QED BY <1>8, <1>9, <2>2
<1>13. ASSUME NEW b \in Accounts \ {a}, NEW k \in Names PROVE list[b][k] <= list'[a][k]
  <2>1. named[b][k] = list[b][k]
    BY <1>6, <1>7
  <2> QED BY <1>8, <1>9, <2>1
<1>14. ASSUME NEW k \in Names, \A b \in Accounts \ {a} : list[b][k] = 0
       PROVE  list'[a][k] = named[a][k]
  <2>1. \A b \in Accounts \ {a} : named[b][k] = 0
    BY <1>6, <1>7, <1>14
  <2> QED BY <1>8, <1>9, <2>1
<1>15. ASSUME NEW k \in Names \ {n} PROVE named[a][k] <= list[a][k]
  BY <1>2, <1>6, <1>7
<1>16. \A k \in Names \ {n} : (\A b \in Accounts \ {a} : list[b][k] = 0)
                              => list'[a][k] <= list[a][k]
  BY <1>14, <1>15
<1>17. /\ merged \subseteq merged'
       /\ list'[a][n] > 1 /\ (\A b \in Accounts \ {a} : list[b][n] = 0)
            => [acct |-> a, of |-> n] \in merged'
  BY <1>3, <1>14
<1> QED BY <1>9, <1>10, <1>11, <1>12, <1>13, <1>16, <1>17

(* What Relisted adds to what is listed more than once: nothing, when no    *)
(* other account lists the name.                                            *)
LEMMA RelistedOnce ==
  ASSUME TypeOK, NEW a \in Accounts, NEW entry, NEW ids, NEW lists,
         lists = Relisted(a, entry, ids), Fits(lists),
         entry \notin Names \/ ids = {ListId[k] : k \in Listed(a)},
         NEW n \in Names, Plain(n), lists[a][n] > 1
  PROVE  list[a][n] > 1 \/ \E b \in Accounts \ {a} : list[b][n] > 0
<1> SUFFICES ASSUME \A b \in Accounts \ {a} : ~(list[b][n] > 0)
             PROVE  list[a][n] > 1
  OBVIOUS
<1>1. \A b \in Accounts : list[b][n] \in Nat
  BY DEF TypeOK
<1>2. \A b \in Accounts \ {a} : list[b][n] = 0
  BY <1>1
<1>3. lists[a][n] \in Nat
  <2>1. lists \in Lists
    BY RelistedIs
  <2> QED BY <2>1 DEF Lists
<1>4. CASE ~(n = entry /\ LocalId[n] \notin ids)
  <2>1. lists[a][n] = list[a][n]
    BY <1>2, <1>4, RelistedIs
  <2> QED BY <2>1
<1>5. CASE n = entry /\ LocalId[n] \notin ids
  <2>1. n \notin Listed(a)
    BY <1>5 DEF Plain
  <2>2. list[a][n] = 0
    BY <1>1, <2>1 DEF Listed
  <2>3. \A b \in Accounts : list[b][n] = 0
    BY <1>2, <2>2
  <2>4. lists[a][n] <= 1
    BY <2>3, RelistedIs
  <2> QED BY <1>3, <2>4
<1> QED BY <1>4, <1>5

-----------------------------------------------------------------------------
(* What the operations do to the list and the directories *)

Boxes == [Accounts -> [Ids -> (SUBSET Mail) \cup {None}]]

(* No id stops resolving. *)
StillResolved == \A b \in Accounts, j \in Ids : Resolved(b, j) \subseteq Resolved(b, j)'

(* No entry is lost, and none is listed again. *)
OnceKept ==
  /\ \A b \in Accounts, n \in Names : list[b][n] <= list'[b][n]
  /\ \A b \in Accounts, n \in Names :
       Plain(n) /\ list'[b][n] > 1 => list[b][n] > 1 \/ \E c \in Accounts \ {b} : list[c][n] > 0

LEMMA Grows ==
  ASSUME list \in Lists, list' \in Lists,
         \A b \in Accounts, n \in Names : list[b][n] <= list'[b][n]
  PROVE  StillResolved
<1> SUFFICES ASSUME NEW b \in Accounts, NEW j \in Ids, NEW n \in Resolved(b, j)
             PROVE  n \in Resolved(b, j)'
  BY DEF StillResolved
<1>1. n \in Names /\ list[b][n] > 0 /\ ListId[n] = j
  BY DEF Resolved, Listed
<1>2. list[b][n] \in Nat /\ list'[b][n] \in Nat /\ list[b][n] <= list'[b][n]
  BY <1>1 DEF Lists
<1>3. list'[b][n] > 0
  BY <1>1, <1>2
<1> QED BY <1>1, <1>3 DEF Resolved, Listed

LEMMA WrittenIs ==
  ASSUME TypeOK, NEW a \in Accounts, NEW entry, NEW ids,
         list' = Relisted(a, entry, ids), Fits(list'),
         entry \notin Names \/ ids = {ListId[k] : k \in Listed(a)}
  PROVE  list' \in Lists /\ StillResolved /\ OnceKept
<1>1. /\ list' \in Lists
      /\ \A b \in Accounts \ {a} : list'[b] = list[b]
      /\ \A b \in Accounts, n \in Names : list[b][n] <= list'[b][n]
  BY RelistedIs
<1>2. list \in Lists
  BY DEF TypeOK, Lists
<1>3. StillResolved
  BY <1>1, <1>2, Grows
<1>4. ASSUME NEW b \in Accounts, NEW n \in Names, Plain(n), list'[b][n] > 1
      PROVE  list[b][n] > 1 \/ \E c \in Accounts \ {b} : list[c][n] > 0
  <2>1. CASE b = a
    BY <1>4, <2>1, RelistedOnce
  <2>2. CASE b # a
    BY <1>1, <1>4, <2>2
  <2> QED BY <2>1, <2>2
<1> QED BY <1>1, <1>3, <1>4 DEF OnceKept

LEMMA EnsureIs ==
  ASSUME TypeOK, NEW a \in Accounts, NEW n \in Names, Ensure(a, n, box)
  PROVE  /\ list' \in Lists /\ StillResolved /\ OnceKept
         /\ box' \in Boxes
         /\ \A b \in Accounts, j \in Ids :
              box'[b][j] = IF b = a /\ j = ListId[n] /\ box[b][j] = None THEN {} ELSE box[b][j]
<1>1. list' \in Lists /\ StillResolved /\ OnceKept
  BY WrittenIs DEF Ensure
<1>2. box \in Boxes /\ ListId[n] \in Ids
  BY ImapMailboxesAssumption DEF TypeOK, Boxes
<1>3. box' = [box EXCEPT ![a][ListId[n]] = IF @ = None THEN {} ELSE @]
  BY DEF Ensure
<1>4. \A b \in Accounts, j \in Ids :
        box'[b][j] = IF b = a /\ j = ListId[n] /\ box[b][j] = None THEN {} ELSE box[b][j]
  BY <1>2, <1>3 DEF Boxes
<1>5. box' \in Boxes
  BY <1>2, <1>3 DEF Boxes
<1> QED BY <1>1, <1>4, <1>5

LEMMA DeleteIs ==
  ASSUME TypeOK, NEW a \in Accounts, NEW i \in Ids, Delete(a, i)
  PROVE  /\ list' \in Lists /\ StillResolved /\ OnceKept
         /\ box' \in Boxes
         /\ \A b \in Accounts, j \in Ids :
              box'[b][j] = IF b = a /\ j = i /\ Resolved(a, i) # {} THEN None ELSE box[b][j]
         /\ gone' = gone \cup {[acct |-> a, of |-> m] : m \in Contents(a, i)}
<1>1. list \in Lists /\ box \in Boxes
  BY DEF TypeOK, Lists, Boxes
<1>2. gone' = gone \cup {[acct |-> a, of |-> m] : m \in Contents(a, i)}
  BY DEF Delete
<1>3. CASE Resolved(a, i) = {}
  <2>1. list' = list /\ box' = box
    BY <1>3 DEF Delete
  <2>2. \A b \in Accounts, n \in Names : list[b][n] \in Nat
    BY <1>1 DEF Lists
  <2>3. StillResolved
    BY <2>1 DEF StillResolved, Resolved, Listed
  <2>4. OnceKept
    BY <2>1, <2>2 DEF OnceKept
  <2> QED BY <1>1, <1>2, <1>3, <2>1, <2>3, <2>4
<1>4. CASE Resolved(a, i) # {}
  <2>1. list' = Relisted(a, None, {}) /\ Fits(list') /\ box' = [box EXCEPT ![a][i] = None]
    BY <1>4 DEF Delete
  <2>2. list' \in Lists /\ StillResolved /\ OnceKept
    BY <2>1, WrittenIs, ImapMailboxesAssumption
  <2>3. box' \in Boxes
    <3>1. [box[a] EXCEPT ![i] = None] \in [Ids -> (SUBSET Mail) \cup {None}]
      BY <1>1 DEF Boxes
    <3>2. box' = [box EXCEPT ![a] = [box[a] EXCEPT ![i] = None]]
      BY <1>1, <2>1 DEF Boxes
    <3> QED BY <1>1, <3>1, <3>2 DEF Boxes
  <2>4. \A b \in Accounts, j \in Ids :
          box'[b][j] = IF b = a /\ j = i THEN None ELSE box[b][j]
    BY <1>1, <2>1 DEF Boxes
  <2> QED BY <1>2, <1>4, <2>2, <2>3, <2>4
<1> QED BY <1>3, <1>4

LEMMA RenameDirectoryIs ==
  ASSUME TypeOK, NEW a \in Accounts, NEW i \in Ids, NEW n \in Names,
         CanRename(a, i, n), RenameDirectory(a, i, n)
  PROVE  /\ box' \in Boxes
         /\ ListId[n] \in Ids
         /\ ListId[n] # i => box[a][ListId[n]] = None /\ box'[a][i] = None
         /\ box'[a][ListId[n]] = box[a][i]
         /\ \A b \in Accounts, j \in Ids :
              b # a \/ j \notin {i, ListId[n]} => box'[b][j] = box[b][j]
<1>1. box \in Boxes /\ ListId[n] \in Ids
  BY ImapMailboxesAssumption DEF TypeOK, Boxes
<1>2. box' = [box EXCEPT ![a][ListId[n]] = box[a][i],
                         ![a][i] = IF ListId[n] = i THEN @ ELSE None]
  BY DEF RenameDirectory
<1>3. ListId[n] # i => box[a][ListId[n]] = None
  BY DEF CanRename
<1>4. box' \in Boxes
  BY <1>1, <1>2 DEF Boxes
<1>5. \A b \in Accounts, j \in Ids :
        b # a \/ j \notin {i, ListId[n]} => box'[b][j] = box[b][j]
  BY <1>1, <1>2 DEF Boxes
<1>6. /\ ListId[n] # i => box'[a][i] = None
      /\ box'[a][ListId[n]] = box[a][i]
  BY <1>1, <1>2 DEF Boxes
<1> QED BY <1>1, <1>3, <1>4, <1>5, <1>6

(* The mailbox with the first of the ids of n is emptied by a rename to the *)
(* same directory, and no other directory changes.                          *)
LEMMA RenameEntriesBox ==
  ASSUME TypeOK, NEW a \in Accounts, NEW i \in Ids, NEW n \in Names, RenameEntries(a, i, n)
  PROVE  /\ box' \in Boxes
         /\ \A b \in Accounts, j \in Ids : b # a \/ j # i => box'[b][j] = box[b][j]
         /\ \/ box'[a][i] = box[a][i] /\ gone' = gone
            \/ /\ ListId[n] = i
               /\ box'[a][i] = IF box[a][i] = None THEN None ELSE {}
               /\ gone' = gone \cup {[acct |-> a, of |-> m] : m \in Contents(a, i)}
<1>1. box \in Boxes
  BY DEF TypeOK, Boxes
<1>2. CASE ListId[n] = i /\ LocalId[n] = i
  <2>1. /\ box' = [box EXCEPT ![a][i] = IF @ = None THEN @ ELSE {}]
        /\ gone' = gone \cup {[acct |-> a, of |-> m] : m \in Contents(a, i)}
    BY <1>2, Zenon DEF RenameEntries
  <2>2. box' \in Boxes
    BY <1>1, <2>1 DEF Boxes
  <2>3. \A b \in Accounts, j \in Ids : b # a \/ j # i => box'[b][j] = box[b][j]
    BY <1>1, <2>1 DEF Boxes
  <2>4. box'[a][i] = IF box[a][i] = None THEN None ELSE {}
    BY <1>1, <2>1 DEF Boxes
  <2> QED BY <1>2, <2>1, <2>2, <2>3, <2>4
<1>3. CASE ~(ListId[n] = i /\ LocalId[n] = i)
  <2>1. box' = box /\ gone' = gone
    BY <1>3, Zenon DEF RenameEntries
  <2> QED BY <1>1, <2>1
<1> QED BY <1>2, <1>3

(* A mailbox is synchronised: the new messages are in the directory of its  *)
(* local id if that resolves, which it does when its two ids agree.         *)
LEMMA SyncIs ==
  ASSUME TypeOK, NEW a \in Accounts, NEW n \in Names, SyncNext(a, n),
         NEW new, new = remote[a][n] \ seen[a][LocalId[n]]
  PROVE  /\ list' \in Lists /\ StillResolved /\ OnceKept
         /\ box' \in Boxes
         /\ new \subseteq Mail
         /\ \A b \in Accounts, j \in Ids :
              /\ box[b][j] # None => box'[b][j] # None /\ box[b][j] \subseteq box'[b][j]
              /\ \/ box'[b][j] \in {box[b][j], {}}
                 \/ Resolved(b, j)' # {}
         /\ Plain(n) => /\ Resolved(a, LocalId[n])' # {}
                        /\ box'[a][LocalId[n]] # None /\ new \subseteq box'[a][LocalId[n]]
<1> DEFINE ids == {ListId[k] : k \in Listed(a)}
           i == LocalId[n]
           ensured == [box EXCEPT ![a][ListId[n]] = IF @ = None THEN {} ELSE @]
<1>1. /\ list' = Relisted(a, n, ids) /\ Fits(list')
      /\ box' = Synchronised(a, n, new, ensured)
      /\ remote[a][n] # None
  BY DEF SyncNext
<1>2. /\ box \in Boxes /\ i \in Ids /\ ListId[n] \in Ids
      /\ new \subseteq Mail
  BY <1>1, ImapMailboxesAssumption DEF TypeOK, Boxes
<1>3. list' \in Lists /\ StillResolved /\ OnceKept
  BY <1>1, WrittenIs
<1>4. ensured \in Boxes
  BY <1>2 DEF Boxes
<1>5. \A b \in Accounts, j \in Ids :
        ensured[b][j] = IF b = a /\ j = ListId[n] /\ box[b][j] = None THEN {} ELSE box[b][j]
  BY <1>2 DEF Boxes
<1> HIDE DEF ensured
<1>6. CASE \A k \in Names : list'[a][k] = 0 \/ ListId[k] # i
  <2>1. box' = ensured
    BY <1>1, <1>6 DEF Synchronised
  <2>2. ~Plain(n)
    <3> SUFFICES ASSUME Plain(n) PROVE FALSE
      OBVIOUS
    <3>1. i = ListId[n]
      BY DEF Plain
    <3>2. list'[a][n] = 0
      BY <1>6, <3>1
    <3>3. i \in ids
      BY <1>1, <3>2, RelistedIs
    <3>4. PICK k \in Listed(a) : ListId[k] = i
      BY <3>3
    <3>5. k \in Names /\ list[a][k] > 0 /\ list[a][k] <= list'[a][k]
      BY <1>1, <3>4, RelistedIs DEF Listed
    <3>6. list'[a][k] # 0
      <4>1. list[a][k] \in Nat /\ list'[a][k] \in Nat
        BY <1>3, <3>5 DEF TypeOK, Lists
      <4> QED BY <3>5, <4>1
    <3> QED BY <1>6, <3>4, <3>5, <3>6
  <2> QED BY <1>2, <1>3, <1>4, <1>5, <2>1, <2>2
<1>7. CASE \E k \in Names : list'[a][k] # 0 /\ ListId[k] = i
  <2>1. box' = [ensured EXCEPT ![a][i] = IF @ = None THEN None ELSE @ \cup new]
    BY <1>1, <1>7 DEF Synchronised
  <2>2. box' \in Boxes
    BY <1>2, <1>4, <2>1 DEF Boxes
  <2>3. /\ \A b \in Accounts, j \in Ids : b # a \/ j # i => box'[b][j] = ensured[b][j]
        /\ box'[a][i] = IF ensured[a][i] = None THEN None ELSE ensured[a][i] \cup new
    BY <1>2, <1>4, <2>1 DEF Boxes
  <2>4. Resolved(a, i)' # {}
    <3>1. PICK k \in Names : list'[a][k] # 0 /\ ListId[k] = i
      BY <1>7
    <3>2. list'[a][k] > 0
      BY <1>3, <3>1 DEF Lists
    <3> QED BY <3>1, <3>2 DEF Resolved, Listed
  <2>5. \A b \in Accounts, j \in Ids :
          /\ box[b][j] # None => box'[b][j] # None /\ box[b][j] \subseteq box'[b][j]
          /\ box'[b][j] \in {box[b][j], {}} \/ Resolved(b, j)' # {}
    <3> SUFFICES ASSUME NEW b \in Accounts, NEW j \in Ids
                 PROVE  /\ box[b][j] # None => box'[b][j] # None /\ box[b][j] \subseteq box'[b][j]
                        /\ box'[b][j] \in {box[b][j], {}} \/ Resolved(b, j)' # {}
      OBVIOUS
    <3>1. CASE b = a /\ j = i
      <4>1. box[b][j] # None => ensured[b][j] = box[b][j]
        BY <1>5
      <4>2. box'[b][j] \in (SUBSET Mail) \cup {None}
        BY <2>2 DEF Boxes
      <4>3. box[b][j] # None => box'[b][j] = box[b][j] \cup new
        BY <2>3, <3>1, <4>1
      <4>4. box[b][j] # None => box[b][j] \cup new \in SUBSET Mail
        BY <1>2 DEF Boxes
      <4> QED BY <2>4, <3>1, <4>3, <4>4, ImapMailboxesAssumption
    <3>2. CASE b # a \/ j # i
      BY <1>5, <2>3, <3>2
    <3> QED BY <3>1, <3>2
  <2>6. ASSUME Plain(n)
        PROVE  box'[a][i] # None /\ new \subseteq box'[a][i]
    <3>1. i = ListId[n]
      BY <2>6 DEF Plain
    <3>2. ensured[a][i] # None
      BY <1>2, <1>5, <3>1, ImapMailboxesAssumption
    <3>3. ensured[a][i] \cup new \in SUBSET Mail
      BY <1>2, <1>4, <3>2 DEF Boxes
    <3> QED BY <2>3, <3>2, <3>3, ImapMailboxesAssumption
  <2> QED BY <1>2, <1>3, <2>2, <2>4, <2>5, <2>6
<1> QED BY <1>6, <1>7

-----------------------------------------------------------------------------
(* Types *)

(* Between the steps of a call: there is room for the action it queues, the *)
(* replay is at an action of the journal, and a rename has its task.        *)
Under ==
  /\ pc \in {"journal", "relist"} => queued < MaxActions
  /\ pc \in {"local", "remove", "replay-relist"} => at \in 1..Len(journal)
  /\ pc \in {"journal", "relist", "replay-relist"} => task \in Action
  /\ pc = "relist" => task.kind = "rename"

TInv == TypeOK /\ Under

Remotes == [Accounts -> [Names -> (SUBSET Mail) \cup {None}]]
Queued == journal \in Seq(Action) /\ queued \in 0..MaxActions /\ Len(journal) <= queued
Running == /\ pc \in {"idle", "journal", "relist", "replay", "local", "replay-relist", "remove", "sync"}
           /\ task \in Action \cup {None}
           /\ at \in 1..(MaxActions + 1)
           /\ todo \subseteq Accounts \X Names

LEMMA Parts ==
  TypeOK <=> /\ remote \in Remotes /\ list \in Lists /\ box \in Boxes
             /\ seen \in [Accounts -> [Ids -> SUBSET Mail]]
             /\ Queued /\ arriving \subseteq Mail /\ Running
BY DEF TypeOK, Remotes, Lists, Boxes, Queued, Running

LEMMA Bounds == MaxActions \in Nat /\ MaxEntries \in Nat /\ MaxCrashes \in Nat
BY ImapMailboxesAssumption

(* The action the replay is at. *)
LEMMA AtAction ==
  ASSUME TypeOK, at \in 1..Len(journal)
  PROVE  journal[at] \in Action /\ at + 1 \in 1..(MaxActions + 1)
<1>1. journal \in Seq(Action) /\ Len(journal) \in Nat /\ Len(journal) <= MaxActions
  BY Bounds DEF TypeOK
<1>2. journal[at] \in Action
  BY <1>1
<1>3. at \in Int /\ 1 <= at /\ at <= MaxActions
  BY <1>1, Bounds
<1> QED BY <1>2, <1>3, Bounds

(* What a command leaves on the servers. *)
LEMMA ExecutedTyped ==
  ASSUME TypeOK, NEW action \in Action, Execute(action)
  PROVE  remote' \in Remotes
<1>1. remote \in Remotes
  BY DEF TypeOK, Remotes
<1>2. /\ action.acct \in Accounts /\ action.name \in Names /\ action.target \in Names
      /\ action.kind \in {"create", "rename", "delete"}
  BY DEF Action
<1>3. CASE action.kind = "create"
  <2>1. remote' = [remote EXCEPT ![action.acct][action.name] = {}]
    BY <1>3 DEF Execute, Executed
  <2> QED BY <1>1, <1>2, <2>1 DEF Remotes
<1>4. CASE action.kind = "delete"
  <2>1. remote' = [remote EXCEPT ![action.acct] = [remote[action.acct] EXCEPT ![action.name] = None]]
    BY <1>1, <1>2, <1>4 DEF Execute, Executed, Remotes
  <2>2. [remote[action.acct] EXCEPT ![action.name] = None] \in [Names -> (SUBSET Mail) \cup {None}]
    BY <1>1, <1>2 DEF Remotes
  <2> QED BY <1>1, <2>1, <2>2 DEF Remotes
<1>5. CASE action.kind = "rename"
  <2> DEFINE row == [[remote[action.acct] EXCEPT ![action.target] = remote[action.acct][action.name]]
                     EXCEPT ![action.name] = None]
  <2>1. remote' = [remote EXCEPT ![action.acct] = row]
    BY <1>1, <1>2, <1>5 DEF Execute, Executed, Remotes
  <2>2. row \in [Names -> (SUBSET Mail) \cup {None}]
    BY <1>1, <1>2 DEF Remotes
  <2> HIDE DEF row
  <2> QED BY <1>1, <2>1, <2>2 DEF Remotes
<1> QED BY <1>2, <1>3, <1>4, <1>5

LEMMA InitTyped == Init => TInv
<1> SUFFICES ASSUME Init PROVE TInv
  OBVIOUS
<1>1. remote \in Remotes
  BY DEF Init, Remotes
<1>2. list \in Lists
  BY Bounds DEF Init, Lists
<1>3. box \in Boxes /\ seen \in [Accounts -> [Ids -> SUBSET Mail]]
  BY DEF Init, Boxes
<1>4. Queued
  <2>1. journal = <<>> /\ queued = 0
    BY DEF Init
  <2> QED BY <2>1, Bounds DEF Queued
<1>5. Running /\ arriving \subseteq Mail
  BY Bounds DEF Init, Running
<1>6. Under
  BY DEF Init, Under
<1> QED BY <1>1, <1>2, <1>3, <1>4, <1>5, <1>6, Parts DEF TInv

LEMMA UserTyped ==
  ASSUME TInv, UserNext
  PROVE  TInv'
<1>0. TypeOK /\ remote \in Remotes /\ list \in Lists /\ box \in Boxes /\ Queued /\ Running
  BY Parts DEF TInv
<1>1. ASSUME NEW a \in Accounts, NEW n \in Names, QueueCreate(a, n)
      PROVE  TInv'
  <2>1. list' \in Lists /\ box' \in Boxes
    BY <1>0, <1>1, EnsureIs DEF QueueCreate
  <2>2. task' \in Action
    BY <1>1, ImapMailboxesAssumption DEF QueueCreate, Queue, Action
  <2>3. /\ pc' = "journal" /\ queued < MaxActions
        /\ UNCHANGED <<remote, seen, journal, queued, arriving, at, todo>>
    BY <1>1 DEF QueueCreate, Queue, Room
  <2>4. Queued' /\ Running' /\ Under'
    BY <1>0, <2>2, <2>3 DEF Queued, Running, Under
  <2> QED BY <1>0, <2>1, <2>3, <2>4 DEF TInv, TypeOK, Remotes, Lists, Boxes, Queued, Running
<1>2. ASSUME NEW a \in Accounts, NEW n \in Names, NEW picked \in Names, QueueDelete(a, picked, n)
      PROVE  TInv'
  <2>1. ListId[picked] \in Ids
    BY ImapMailboxesAssumption
  <2>2. list' \in Lists /\ box' \in Boxes
    BY <1>0, <1>2, <2>1, DeleteIs DEF QueueDelete
  <2>3. task' \in Action
    BY <1>2, <2>1 DEF QueueDelete, Queue, Action
  <2>4. /\ pc' = "journal" /\ queued < MaxActions
        /\ UNCHANGED <<remote, seen, journal, queued, arriving, at, todo>>
    BY <1>2 DEF QueueDelete, Queue, Room
  <2>5. Queued' /\ Running' /\ Under'
    BY <1>0, <2>3, <2>4 DEF Queued, Running, Under
  <2> QED BY <1>0, <2>2, <2>4, <2>5 DEF TInv, TypeOK, Remotes, Lists, Boxes, Queued, Running
<1>3. ASSUME NEW a \in Accounts, NEW n \in Names, NEW picked \in Names, NEW target \in Names,
             QueueRename(a, picked, n, target)
      PROVE  TInv'
  <2>1. ListId[picked] \in Ids
    BY ImapMailboxesAssumption
  <2>2. box' \in Boxes
    BY <1>0, <1>3, <2>1, RenameDirectoryIs DEF QueueRename
  <2>3. task' = [kind |-> "rename", acct |-> a, id |-> ListId[picked], name |-> n,
                 target |-> target, picked |-> picked]
    BY <1>3 DEF QueueRename
  <2>4. task' \in Action /\ task'.kind = "rename"
    BY <2>1, <2>3 DEF Action
  <2>5. /\ pc' = "relist" /\ queued < MaxActions
        /\ UNCHANGED <<remote, list, seen, journal, queued, arriving, at, todo>>
    BY <1>3 DEF QueueRename, Room
  <2>6. Queued' /\ Running' /\ Under'
    BY <1>0, <2>4, <2>5 DEF Queued, Running, Under
  <2> QED BY <1>0, <2>2, <2>5, <2>6 DEF TInv, TypeOK, Remotes, Lists, Boxes, Queued, Running
<1> QED BY <1>1, <1>2, <1>3 DEF UserNext

LEMMA QueueTyped ==
  ASSUME TInv, FinishRename \/ Journal \/ Dequeue \/ Crash
  PROVE  TInv'
<1>0. TypeOK /\ remote \in Remotes /\ list \in Lists /\ box \in Boxes /\ Queued /\ Running /\ Under
  BY Parts DEF TInv
<1>1. ASSUME FinishRename PROVE TInv'
  <2>1. task \in Action
    BY <1>0, <1>1 DEF FinishRename, Under
  <2>2. task.acct \in Accounts /\ task.id \in Ids /\ task.target \in Names
    BY <2>1 DEF Action
  <2>3. list' \in Lists /\ box' \in Boxes
    BY <1>0, <1>1, <2>2, RenamedIs, RenameEntriesBox DEF FinishRename
  <2>4. /\ \/ pc = "relist" /\ pc' = "journal" /\ task' = task
           \/ pc = "replay-relist" /\ pc' = "remove" /\ task' = None
        /\ UNCHANGED <<remote, seen, journal, queued, arriving, at, todo>>
    BY <1>1 DEF FinishRename
  <2>5. Queued' /\ Running' /\ Under'
    BY <1>0, <2>4 DEF Queued, Running, Under
  <2> QED BY <1>0, <2>3, <2>4, <2>5 DEF TInv, TypeOK, Remotes, Lists, Boxes, Queued, Running
<1>2. ASSUME Journal PROVE TInv'
  <2>1. /\ task \in Action /\ queued < MaxActions
        /\ journal' = Append(journal, task) \/ journal' = journal
        /\ queued' = queued + 1 /\ task' = None /\ pc' = "idle"
        /\ UNCHANGED <<remote, list, box, seen, arriving, at, todo>>
    BY <1>0, <1>2 DEF Journal, Under
  <2>2. Queued'
    <3>1. /\ journal \in Seq(Action) /\ queued \in Nat /\ Len(journal) \in Nat
          /\ Len(journal) <= queued
      BY <1>0 DEF Queued
    <3>2. journal' \in Seq(Action) /\ Len(journal') <= Len(journal) + 1 /\ Len(journal') \in Nat
      BY <2>1, <3>1
    <3> QED BY <2>1, <3>1, <3>2, Bounds DEF Queued
  <2>3. Running' /\ Under'
    BY <1>0, <2>1 DEF Running, Under
  <2> QED BY <1>0, <2>1, <2>2, <2>3 DEF TInv, TypeOK, Remotes, Lists, Boxes, Queued, Running
<1>3. ASSUME Dequeue PROVE TInv'
  <2>1. /\ journal' = RemoveAt(journal, at) /\ at \in 1..Len(journal) /\ pc' = "replay"
        /\ UNCHANGED <<remote, list, box, seen, queued, arriving, task, at, todo>>
    BY <1>0, <1>3 DEF Dequeue, Under
  <2>2. Queued'
    <3>1. /\ journal \in Seq(Action) /\ queued \in Nat /\ Len(journal) \in Nat
          /\ Len(journal) <= queued
      BY <1>0 DEF Queued
    <3> DEFINE before == SubSeq(journal, 1, at - 1)
               after == SubSeq(journal, at + 1, Len(journal))
    <3>2. journal' = before \o after
      BY <2>1 DEF RemoveAt
    <3>3. before \in Seq(Action) /\ Len(before) = at - 1
      BY <2>1, <3>1
    <3>4. after \in Seq(Action) /\ Len(after) = Len(journal) - at
      BY <2>1, <3>1
    <3> HIDE DEF before, after
    <3>5. before \o after \in Seq(Action) /\ Len(before \o after) = Len(before) + Len(after)
      BY <3>3, <3>4
    <3>6. Len(journal') = Len(journal) - 1 /\ 1 <= Len(journal)
      BY <2>1, <3>1, <3>2, <3>3, <3>4, <3>5
    <3>7. journal' \in Seq(Action) /\ Len(journal') <= Len(journal) /\ Len(journal') \in Nat
      BY <3>1, <3>2, <3>5, <3>6
    <3> QED BY <1>0, <2>1, <3>1, <3>7, Bounds DEF Queued
  <2>3. Running' /\ Under'
    BY <1>0, <2>1 DEF Running, Under
  <2> QED BY <1>0, <2>1, <2>2, <2>3 DEF TInv, TypeOK, Remotes, Lists, Boxes, Queued, Running
<1>4. ASSUME Crash PROVE TInv'
  <2>1. /\ pc' = "idle" /\ task' = None /\ at' = 1 /\ todo' = {}
        /\ UNCHANGED <<remote, list, box, seen, journal, queued, arriving>>
    BY <1>4 DEF Crash, disk
  <2>2. Queued' /\ Running' /\ Under'
    BY <1>0, <2>1, Bounds DEF Queued, Running, Under
  <2> QED BY <1>0, <2>1, <2>2 DEF TInv, TypeOK, Remotes, Lists, Boxes, Queued, Running
<1> QED BY <1>1, <1>2, <1>3, <1>4

LEMMA ReplayTyped ==
  ASSUME TInv, ReplayNext \/ ReplayFails \/ ReplayCreate \/ ReplayDelete \/ ReplayRename
  PROVE  TInv'
<1>0. TypeOK /\ remote \in Remotes /\ list \in Lists /\ box \in Boxes /\ Queued /\ Running /\ Under
  BY Parts DEF TInv
<1>1. at \in 1..Len(journal)
  <2>1. pc = "local" \/ (pc = "replay" /\ at <= Len(journal))
    BY DEF ReplayNext, ReplayFails, ReplayCreate, ReplayDelete, ReplayRename
  <2> QED BY <1>0, <2>1 DEF Under, Running, Queued
<1> DEFINE action == journal[at]
<1>2. action \in Action /\ at + 1 \in 1..(MaxActions + 1)
  BY <1>0, <1>1, AtAction
<1>3. action.acct \in Accounts /\ action.id \in Ids /\ action.name \in Names /\ action.target \in Names
  BY <1>2 DEF Action
<1> HIDE DEF action
<1>4. ASSUME ReplayNext PROVE TInv'
  <2>1. remote' \in Remotes
    BY <1>0, <1>2, <1>4, ExecutedTyped DEF ReplayNext, action
  <2>2. pc' = "local" /\ UNCHANGED <<list, box, seen, journal, queued, arriving, task, at, todo>>
    BY <1>4 DEF ReplayNext, disk
  <2>3. Queued' /\ Running' /\ Under'
    BY <1>0, <1>1, <2>2 DEF Queued, Running, Under
  <2> QED BY <1>0, <2>1, <2>2, <2>3 DEF TInv, TypeOK, Remotes, Lists, Boxes, Queued, Running
<1>5. ASSUME ReplayFails PROVE TInv'
  <2>1. remote' \in Remotes
    BY <1>0, <1>2, <1>5, ExecutedTyped DEF ReplayFails, action
  <2>2. /\ pc = "replay" /\ at' = at + 1
        /\ UNCHANGED <<list, box, seen, journal, queued, arriving, pc, task, todo>>
    BY <1>5 DEF ReplayFails, disk
  <2>3. Queued' /\ Running' /\ Under'
    BY <1>0, <1>2, <2>2 DEF Queued, Running, Under
  <2> QED BY <1>0, <2>1, <2>2, <2>3 DEF TInv, TypeOK, Remotes, Lists, Boxes, Queued, Running
<1>6. ASSUME ReplayCreate PROVE TInv'
  <2>1. list' \in Lists /\ box' \in Boxes
    BY <1>0, <1>3, <1>6, EnsureIs DEF ReplayCreate, action
  <2>2. pc' = "remove" /\ UNCHANGED <<remote, seen, journal, queued, arriving, task, at, todo>>
    BY <1>6 DEF ReplayCreate
  <2>3. Queued' /\ Running' /\ Under'
    BY <1>0, <1>1, <2>2 DEF Queued, Running, Under
  <2> QED BY <1>0, <2>1, <2>2, <2>3 DEF TInv, TypeOK, Remotes, Lists, Boxes, Queued, Running
<1>7. ASSUME ReplayDelete PROVE TInv'
  <2>1. list' \in Lists /\ box' \in Boxes
    BY <1>0, <1>3, <1>7, DeleteIs DEF ReplayDelete, action
  <2>2. pc' = "remove" /\ UNCHANGED <<remote, seen, journal, queued, arriving, task, at, todo>>
    BY <1>7 DEF ReplayDelete
  <2>3. Queued' /\ Running' /\ Under'
    BY <1>0, <1>1, <2>2 DEF Queued, Running, Under
  <2> QED BY <1>0, <2>1, <2>2, <2>3 DEF TInv, TypeOK, Remotes, Lists, Boxes, Queued, Running
<1>8. ASSUME ReplayRename PROVE TInv'
  <2>1. UNCHANGED <<remote, seen, journal, queued, arriving, todo>>
    BY <1>8 DEF ReplayRename
  <2>2. CASE Ensure(action.acct, action.target, box) /\ pc' = "remove" /\ UNCHANGED <<task, at>>
    <3>1. list' \in Lists /\ box' \in Boxes
      BY <1>0, <1>3, <2>2, EnsureIs
    <3>2. Queued' /\ Running' /\ Under'
      BY <1>0, <1>1, <2>1, <2>2 DEF Queued, Running, Under
    <3> QED BY <1>0, <2>1, <3>1, <3>2 DEF TInv, TypeOK, Remotes, Lists, Boxes, Queued, Running
  <2>3. CASE /\ CanRename(action.acct, action.id, action.target)
             /\ RenameDirectory(action.acct, action.id, action.target)
             /\ task' = action /\ pc' = "replay-relist" /\ UNCHANGED <<at, list>>
    <3>1. box' \in Boxes
      BY <1>0, <1>3, <2>3, RenameDirectoryIs
    <3>2. Queued' /\ Running' /\ Under'
      BY <1>0, <1>1, <1>2, <2>1, <2>3 DEF Queued, Running, Under
    <3> QED BY <1>0, <2>1, <2>3, <3>1, <3>2 DEF TInv, TypeOK, Remotes, Lists, Boxes, Queued, Running
  <2>4. CASE UNCHANGED <<box, task, list>> /\ pc' = "replay" /\ at' = at + 1
    <3>1. Queued' /\ Running' /\ Under'
      BY <1>0, <1>2, <2>1, <2>4 DEF Queued, Running, Under
    <3> QED BY <1>0, <2>1, <2>4, <3>1 DEF TInv, TypeOK, Remotes, Lists, Boxes, Queued, Running
  <2> QED BY <1>8, <2>2, <2>3, <2>4, Zenon DEF ReplayRename, action
<1> QED BY <1>4, <1>5, <1>6, <1>7, <1>8

LEMMA CheckTyped ==
  ASSUME TInv,
         \/ StartCheck \/ EndCheck
         \/ \E reached \in SUBSET Accounts : Discover(reached)
         \/ \E a \in Accounts, n \in Names : SyncNext(a, n) \/ \E m \in Mail : Arrive(a, n, m)
         \/ UNCHANGED vars
  PROVE  TInv'
<1>0. TypeOK /\ remote \in Remotes /\ list \in Lists /\ box \in Boxes /\ Queued /\ Running /\ Under
  BY Parts DEF TInv
<1>1. ASSUME StartCheck PROVE TInv'
  <2>1. /\ pc' = "replay" /\ at' = 1
        /\ UNCHANGED <<remote, list, box, seen, journal, queued, arriving, task, todo>>
    BY <1>1 DEF StartCheck, disk
  <2>2. Queued' /\ Running' /\ Under'
    BY <1>0, <2>1, Bounds DEF Queued, Running, Under
  <2> QED BY <1>0, <2>1, <2>2 DEF TInv, TypeOK, Remotes, Lists, Boxes, Queued, Running
<1>2. ASSUME EndCheck PROVE TInv'
  <2>1. /\ pc' = "idle" /\ todo' = {}
        /\ UNCHANGED <<remote, list, box, seen, journal, queued, arriving, task, at>>
    BY <1>2 DEF EndCheck, disk
  <2>2. Queued' /\ Running' /\ Under'
    BY <1>0, <2>1 DEF Queued, Running, Under
  <2> QED BY <1>0, <2>1, <2>2 DEF TInv, TypeOK, Remotes, Lists, Boxes, Queued, Running
<1>3. ASSUME NEW reached \in SUBSET Accounts, Discover(reached) PROVE TInv'
  <2>1. /\ pc' = "sync" /\ todo' \subseteq Accounts \X Names
        /\ UNCHANGED <<remote, list, box, seen, journal, queued, arriving, task, at>>
    BY <1>3 DEF Discover, disk
  <2>2. Queued' /\ Running' /\ Under'
    BY <1>0, <2>1 DEF Queued, Running, Under
  <2> QED BY <1>0, <2>1, <2>2 DEF TInv, TypeOK, Remotes, Lists, Boxes, Queued, Running
<1>4. ASSUME NEW a \in Accounts, NEW n \in Names, SyncNext(a, n) PROVE TInv'
  <2> DEFINE new == remote[a][n] \ seen[a][LocalId[n]]
  <2>1. list' \in Lists /\ box' \in Boxes /\ new \subseteq Mail
    BY <1>0, <1>4, SyncIs
  <2>2. /\ pc' = pc /\ todo' \subseteq Accounts \X Names
        /\ seen' = [seen EXCEPT ![a][LocalId[n]] = @ \cup new]
        /\ UNCHANGED <<remote, journal, queued, arriving, task, at>>
    BY <1>0, <1>4 DEF SyncNext, Running
  <2> HIDE DEF new
  <2>3. seen' \in [Accounts -> [Ids -> SUBSET Mail]]
    BY <1>0, <2>1, <2>2, ImapMailboxesAssumption DEF TypeOK
  <2>4. Queued' /\ Running' /\ Under'
    BY <1>0, <2>2 DEF Queued, Running, Under
  <2> QED BY <1>0, <2>1, <2>2, <2>3, <2>4 DEF TInv, TypeOK, Remotes, Lists, Boxes, Queued, Running
<1>5. ASSUME NEW a \in Accounts, NEW n \in Names, NEW m \in Mail, Arrive(a, n, m) PROVE TInv'
  <2>1. /\ remote[a][n] # None /\ remote' = [remote EXCEPT ![a][n] = @ \cup {m}]
        /\ arriving' \subseteq arriving
        /\ UNCHANGED <<list, box, seen, journal, queued, pc, task, at, todo>>
    BY <1>5 DEF Arrive, disk, run
  <2>2. remote' \in Remotes
    BY <1>0, <2>1 DEF Remotes
  <2>3. Queued' /\ Running' /\ Under'
    BY <1>0, <2>1 DEF Queued, Running, Under
  <2> QED BY <1>0, <2>1, <2>2, <2>3 DEF TInv, TypeOK, Remotes, Lists, Boxes, Queued, Running
<1>6. ASSUME UNCHANGED vars PROVE TInv'
  <2>1. UNCHANGED <<remote, list, box, seen, journal, queued, arriving, pc, task, at, todo>>
    BY <1>6 DEF vars, disk, run
  <2> QED BY <1>0, <2>1 DEF TInv, TypeOK, Under
<1> QED BY <1>1, <1>2, <1>3, <1>4, <1>5, <1>6

LEMMA StepTyped == TInv /\ [Next]_vars => TInv'
<1> SUFFICES ASSUME TInv, [Next]_vars PROVE TInv'
  OBVIOUS
<1>1. CASE UserNext
  BY <1>1, UserTyped
<1>2. CASE FinishRename \/ Journal \/ Dequeue \/ Crash
  BY <1>2, QueueTyped
<1>3. CASE ReplayNext \/ ReplayFails \/ ReplayCreate \/ ReplayDelete \/ ReplayRename
  BY <1>3, ReplayTyped
<1>4. CASE \/ StartCheck \/ EndCheck
           \/ \E reached \in SUBSET Accounts : Discover(reached)
           \/ \E a \in Accounts, n \in Names : SyncNext(a, n) \/ \E m \in Mail : Arrive(a, n, m)
           \/ UNCHANGED vars
  BY <1>4, CheckTyped
<1> QED BY <1>1, <1>2, <1>3, <1>4 DEF Next

LEMMA TypedAlways == Spec => []TInv
BY InitTyped, StepTyped, PTL DEF Spec

(* Every variable keeps its type, with the journal no longer than the count *)
(* of the actions queued and the replay inside it.                          *)
THEOREM TypesHold == Spec => []TypeOK
<1>1. TInv => TypeOK
  BY DEF TInv
<1> QED BY <1>1, TypedAlways, PTL

-----------------------------------------------------------------------------
(* How often a mailbox is listed *)

LEMMA OnceKeptSuffices ==
  ASSUME TypeOK, TypeOK', ListedOnce, OnceKept, merged' = merged
  PROVE  ListedOnce'
<1> SUFFICES ASSUME NEW a \in Accounts, NEW n \in Names, Plain(n), list'[a][n] > 1,
                    [acct |-> a, of |-> n] \notin merged
             PROVE  \E b \in Accounts \ {a} : list'[b][n] > 0
  BY DEF ListedOnce
<1>1. PICK b \in Accounts \ {a} : list[b][n] > 0
  BY DEF ListedOnce, OnceKept
<1>2. list[b][n] \in Nat /\ list'[b][n] \in Nat /\ list[b][n] <= list'[b][n]
  BY DEF TypeOK, OnceKept
<1>3. list'[b][n] > 0
  BY <1>1, <1>2
<1> QED BY <1>3

LEMMA RenameListsOnce ==
  ASSUME TypeOK, TypeOK', ListedOnce, NEW a \in Accounts, NEW i \in Ids, NEW n \in Names,
         RenameEntries(a, i, n)
  PROVE  ListedOnce'
<1>1. /\ \A b \in Accounts \ {a} : list'[b] = list[b]
      /\ \A b \in Accounts \ {a}, k \in Names : list[b][k] <= list'[a][k]
      /\ \A k \in Names \ {n} : (\A b \in Accounts \ {a} : list[b][k] = 0)
                                => list'[a][k] <= list[a][k]
      /\ list'[a][n] > 1 /\ (\A b \in Accounts \ {a} : list[b][n] = 0)
           => [acct |-> a, of |-> n] \in merged'
      /\ merged \subseteq merged'
  BY RenamedIs
<1>2. \A b \in Accounts, k \in Names : list[b][k] \in Nat /\ list'[b][k] \in Nat
  BY DEF TypeOK
<1> SUFFICES ASSUME NEW c \in Accounts, NEW k \in Names, Plain(k), list'[c][k] > 1,
                    [acct |-> c, of |-> k] \notin merged'
             PROVE  \E b \in Accounts \ {c} : list'[b][k] > 0
  BY DEF ListedOnce
<1>3. CASE c = a
  <2>1. CASE \A b \in Accounts \ {a} : list[b][k] = 0
    <3>1. k # n
      BY <1>1, <1>3, <2>1
    <3>2. list[a][k] > 1
      BY <1>1, <1>2, <1>3, <2>1, <3>1
    <3>3. \E b \in Accounts \ {a} : list[b][k] > 0
      BY <1>1, <1>3, <3>2 DEF ListedOnce
    <3> QED BY <2>1, <3>3
  <2>2. CASE \E b \in Accounts \ {a} : list[b][k] # 0
    <3>1. PICK b \in Accounts \ {a} : list[b][k] # 0
      BY <2>2
    <3>2. list'[b][k] > 0
      BY <1>1, <1>2, <3>1
    <3> QED BY <1>3, <3>2
  <2> QED BY <2>1, <2>2
<1>4. CASE c # a
  <2>1. list[c][k] > 1 /\ list[c][k] <= list'[a][k]
    BY <1>1, <1>4
  <2>2. list'[a][k] > 0
    BY <1>2, <2>1
  <2> QED BY <1>4, <2>2
<1> QED BY <1>3, <1>4

LEMMA StepListedOnce ==
  ASSUME TInv, TInv', ListedOnce, [Next]_vars
  PROVE  ListedOnce'
<1>0. TypeOK /\ TypeOK' /\ Under
  BY DEF TInv
<1>1. CASE list' = list /\ merged' = merged
  BY <1>1 DEF ListedOnce
<1>2. ASSUME NEW a \in Accounts, NEW n \in Names, QueueCreate(a, n) PROVE ListedOnce'
  BY <1>0, <1>2, EnsureIs, OnceKeptSuffices DEF QueueCreate, history
<1>3. ASSUME NEW a \in Accounts, NEW n \in Names, NEW picked \in Names, QueueDelete(a, picked, n)
      PROVE  ListedOnce'
  <2>1. ListId[picked] \in Ids
    BY ImapMailboxesAssumption
  <2> QED BY <1>0, <1>3, <2>1, DeleteIs, OnceKeptSuffices DEF QueueDelete
<1>4. CASE FinishRename
  <2>1. task \in Action
    BY <1>0, <1>4 DEF FinishRename, Under
  <2>2. task.acct \in Accounts /\ task.id \in Ids /\ task.target \in Names
    BY <2>1 DEF Action
  <2> QED BY <1>0, <1>4, <2>2, RenameListsOnce DEF FinishRename
<1>5. CASE ReplayCreate \/ ReplayDelete \/ ReplayRename
  <2>1. at \in 1..Len(journal)
    BY <1>0, <1>5 DEF Under, ReplayCreate, ReplayDelete, ReplayRename
  <2>2. journal[at] \in Action
    BY <1>0, <2>1, AtAction
  <2>3. /\ journal[at].acct \in Accounts /\ journal[at].id \in Ids
        /\ journal[at].name \in Names /\ journal[at].target \in Names
    BY <2>2 DEF Action
  <2>4. merged' = merged
    BY <1>5 DEF ReplayCreate, ReplayDelete, ReplayRename, history
  <2>5. OnceKept \/ list' = list
    <3>1. CASE ReplayCreate
      BY <1>0, <2>3, <3>1, EnsureIs DEF ReplayCreate
    <3>2. CASE ReplayDelete
      BY <1>0, <2>3, <3>2, DeleteIs DEF ReplayDelete
    <3>3. CASE ReplayRename
      <4>1. Ensure(journal[at].acct, journal[at].target, box) \/ list' = list
        BY <3>3 DEF ReplayRename
      <4> QED BY <1>0, <2>3, <4>1, EnsureIs
    <3> QED BY <1>5, <3>1, <3>2, <3>3
  <2> QED BY <1>0, <1>1, <2>4, <2>5, OnceKeptSuffices
<1>6. ASSUME NEW a \in Accounts, NEW n \in Names, SyncNext(a, n) PROVE ListedOnce'
  BY <1>0, <1>6, SyncIs, OnceKeptSuffices DEF SyncNext
<1>7. CASE \E a \in Accounts, n \in Names, picked \in Names, target \in Names :
             QueueRename(a, picked, n, target)
  BY <1>1, <1>7 DEF QueueRename
<1>8. CASE Journal \/ StartCheck \/ ReplayNext \/ ReplayFails \/ Dequeue \/ EndCheck \/ Crash
  BY <1>1, <1>8 DEF Journal, StartCheck, ReplayNext, ReplayFails, Dequeue, EndCheck, Crash, disk, history
<1>9. CASE \/ \E reached \in SUBSET Accounts : Discover(reached)
           \/ \E a \in Accounts, n \in Names, m \in Mail : Arrive(a, n, m)
           \/ UNCHANGED vars
  BY <1>1, <1>9 DEF Discover, Arrive, vars, disk, history
<1> QED BY <1>2, <1>3, <1>4, <1>5, <1>6, <1>7, <1>8, <1>9 DEF Next, UserNext

(* However lists are written, read and written again for several accounts,  *)
(* and mailboxes created, renamed, deleted and found on the servers, a      *)
(* mailbox whose two ids agree has a second entry only after a rename to a  *)
(* listed name or beside another account with that name.                    *)
THEOREM EntriesOnce == Spec => []ListedOnce
<1>1. Init => ListedOnce
  BY DEF Init, ListedOnce
<1>2. TInv /\ TInv' /\ ListedOnce /\ [Next]_vars => ListedOnce'
  BY StepListedOnce
<1> QED BY <1>1, <1>2, TypedAlways, PTL DEF Spec

-----------------------------------------------------------------------------
(* What disappears from a server *)

(* A queued rename or deletion is of a mailbox whose directory is that of   *)
(* the one the user picked.                                                 *)
Asks(action) ==
  action.kind \in {"rename", "delete"} =>
    /\ ListId[action.picked] = ListId[action.name]
    /\ [acct |-> action.acct, of |-> action.picked] \in asked

AInv ==
  /\ \A k \in 1..Len(journal) : Asks(journal[k])
  /\ pc \in {"journal", "relist"} => Asks(task)

(* The actions left after one is removed were there. *)
LEMMA RemovedFrom ==
  ASSUME NEW s \in Seq(Action), NEW p \in 1..Len(s), NEW k \in 1..Len(RemoveAt(s, p))
  PROVE  \E j \in 1..Len(s) : RemoveAt(s, p)[k] = s[j]
<1> DEFINE before == SubSeq(s, 1, p - 1)
           after == SubSeq(s, p + 1, Len(s))
<1>1. RemoveAt(s, p) = before \o after
  BY DEF RemoveAt
<1>2. /\ before \in Seq(Action) /\ Len(before) = p - 1
      /\ \A j \in 1..(p - 1) : before[j] = s[j]
  OBVIOUS
<1>3. /\ after \in Seq(Action) /\ Len(after) = Len(s) - p
      /\ \A j \in 1..(Len(s) - p) : after[j] = s[p + j]
  OBVIOUS
<1> HIDE DEF before, after
<1>4. /\ Len(before \o after) = Len(before) + Len(after)
      /\ \A j \in 1..(Len(before) + Len(after)) :
           (before \o after)[j] = IF j <= Len(before) THEN before[j] ELSE after[j - Len(before)]
  <2>1. before \in Seq(Action) /\ after \in Seq(Action)
    BY <1>2, <1>3
  <2> QED BY <2>1
<1>5. k \in 1..(Len(s) - 1) /\ Len(s) \in Nat /\ p \in 1..Len(s)
  BY <1>1, <1>2, <1>3, <1>4
<1>6. CASE k <= p - 1
  <2>1. k \in 1..(p - 1) /\ k \in 1..Len(s)
    BY <1>5, <1>6
  <2>2. RemoveAt(s, p)[k] = s[k]
    BY <1>1, <1>2, <1>4, <1>5, <1>6, <2>1
  <2> QED BY <2>1, <2>2
<1>7. CASE ~(k <= p - 1)
  <2>1. k - (p - 1) \in 1..(Len(s) - p) /\ k + 1 \in 1..Len(s) /\ p + (k - (p - 1)) = k + 1
    BY <1>5, <1>7
  <2>2. RemoveAt(s, p)[k] = after[k - (p - 1)]
    BY <1>1, <1>2, <1>3, <1>4, <1>5, <1>7
  <2>3. after[k - (p - 1)] = s[k + 1]
    BY <1>3, <2>1
  <2> QED BY <2>1, <2>2, <2>3
<1> QED BY <1>6, <1>7

LEMMA UserLeaves ==
  ASSUME UserNext
  PROVE  remote' = remote /\ journal' = journal /\ asked \subseteq asked'
<1>1. ASSUME NEW a \in Accounts, NEW n \in Names, QueueCreate(a, n)
      PROVE  remote' = remote /\ journal' = journal /\ asked \subseteq asked'
  BY <1>1 DEF QueueCreate, history
<1>2. ASSUME NEW a \in Accounts, NEW n \in Names, NEW picked \in Names, QueueDelete(a, picked, n)
      PROVE  remote' = remote /\ journal' = journal /\ asked \subseteq asked'
  BY <1>2 DEF QueueDelete
<1>3. ASSUME NEW a \in Accounts, NEW n \in Names, NEW picked \in Names, NEW target \in Names,
             QueueRename(a, picked, n, target)
      PROVE  remote' = remote /\ journal' = journal /\ asked \subseteq asked'
  BY <1>3 DEF QueueRename
<1> QED BY <1>1, <1>2, <1>3 DEF UserNext

LEMMA StepAsks ==
  ASSUME TInv, AInv, [Next]_vars
  PROVE  AInv'
<1>0. TypeOK /\ Under
  BY DEF TInv
<1>1. ASSUME asked \subseteq asked', NEW action, Asks(action) PROVE Asks(action)'
  BY <1>1 DEF Asks
<1>2. CASE UserNext
  <2>1. asked \subseteq asked' /\ journal' = journal
    BY <1>2, UserLeaves
  <2>2. Asks(task)'
    <3>1. ASSUME NEW a \in Accounts, NEW n \in Names, QueueCreate(a, n) PROVE task'.kind = "create"
      BY <3>1 DEF QueueCreate, Queue
    <3>2. ASSUME NEW a \in Accounts, NEW n \in Names, NEW picked \in Names, QueueDelete(a, picked, n)
          PROVE  Asks(task)'
      <4>1. /\ task'.picked = picked /\ task'.acct = a /\ task'.name = n
            /\ ListId[n] = ListId[picked] /\ [acct |-> a, of |-> picked] \in asked'
        BY <3>2 DEF QueueDelete, Queue, Resolved
      <4> QED BY <4>1 DEF Asks
    <3>3. ASSUME NEW a \in Accounts, NEW n \in Names, NEW picked \in Names, NEW target \in Names,
                 QueueRename(a, picked, n, target)
          PROVE  Asks(task)'
      <4>1. /\ task'.picked = picked /\ task'.acct = a /\ task'.name = n
            /\ ListId[n] = ListId[picked] /\ [acct |-> a, of |-> picked] \in asked'
        BY <3>3 DEF QueueRename, Resolved
      <4> QED BY <4>1 DEF Asks
    <3> QED BY <1>2, <3>1, <3>2, <3>3 DEF UserNext, Asks
  <2> QED BY <1>1, <2>1, <2>2 DEF AInv, Asks
<1>3. CASE FinishRename
  <2>1. asked' = asked /\ journal' = journal
    BY <1>3 DEF FinishRename
  <2>2. pc' \in {"journal", "relist"} => pc = "relist" /\ task' = task
    BY <1>3 DEF FinishRename
  <2> QED BY <2>1, <2>2 DEF AInv, Asks
<1>4. CASE Journal
  <2>1. /\ asked' = asked /\ pc' = "idle" /\ task \in Action /\ Asks(task)
        /\ journal' = Append(journal, task) \/ journal' = journal
    BY <1>0, <1>4 DEF Journal, history, Under, AInv
  <2>2. CASE journal' = journal
    BY <2>1, <2>2 DEF AInv, Asks
  <2>3. CASE journal' = Append(journal, task)
    <3>1. journal \in Seq(Action) /\ Len(journal) \in Nat
      BY <1>0 DEF TypeOK
    <3>2. Len(journal') = Len(journal) + 1 /\ journal'[Len(journal) + 1] = task
      BY <2>1, <2>3, <3>1
    <3>3. \A k \in 1..Len(journal) : journal'[k] = journal[k]
      BY <2>1, <2>3, <3>1
    <3>4. \A k \in 1..Len(journal') : k \in 1..Len(journal) \/ k = Len(journal) + 1
      BY <3>1, <3>2
    <3>5. \A k \in 1..Len(journal') : Asks(journal'[k])
      BY <2>1, <3>2, <3>3, <3>4 DEF AInv
    <3> QED BY <2>1, <3>5 DEF AInv, Asks
  <2> QED BY <2>1, <2>2, <2>3
<1>5. CASE Dequeue
  <2>1. /\ asked' = asked /\ pc' = "replay" /\ journal' = RemoveAt(journal, at)
        /\ at \in 1..Len(journal) /\ journal \in Seq(Action)
    BY <1>0, <1>5 DEF Dequeue, history, Under, TypeOK
  <2>2. \A k \in 1..Len(journal') : Asks(journal'[k])
    BY <2>1, RemovedFrom DEF AInv
  <2> QED BY <2>1, <2>2 DEF AInv, Asks
<1>6. CASE \/ StartCheck \/ ReplayNext \/ ReplayFails \/ ReplayCreate \/ ReplayDelete \/ ReplayRename
           \/ EndCheck \/ Crash
  <2>1. /\ asked' = asked /\ journal' = journal
        /\ pc' \notin {"journal", "relist"}
    BY <1>6 DEF StartCheck, ReplayNext, ReplayFails, ReplayCreate, ReplayDelete, ReplayRename,
                EndCheck, Crash, disk, history
  <2> QED BY <2>1 DEF AInv, Asks
<1>7. CASE \/ \E reached \in SUBSET Accounts : Discover(reached)
           \/ \E a \in Accounts, n \in Names : SyncNext(a, n) \/ \E m \in Mail : Arrive(a, n, m)
           \/ UNCHANGED vars
  <2>1. /\ asked' = asked /\ journal' = journal
        /\ pc' \in {"journal", "relist"} => pc' = pc /\ task' = task
    BY <1>7 DEF Discover, SyncNext, Arrive, vars, disk, history, run
  <2> QED BY <2>1 DEF AInv, Asks
<1> QED BY <1>2, <1>3, <1>4, <1>5, <1>6, <1>7 DEF Next

LEMMA AsksAlways == Spec => []AInv
<1>1. Init => AInv
  <2> SUFFICES ASSUME Init PROVE AInv
    OBVIOUS
  <2>1. journal = <<>> /\ pc = "idle"
    BY DEF Init
  <2> QED BY <2>1 DEF AInv
<1>2. TInv /\ AInv /\ [Next]_vars => AInv'
  BY StepAsks
<1> QED BY <1>1, <1>2, TypedAlways, PTL DEF Spec

LEMMA CommandAsked ==
  ASSUME TInv, AInv, at \in 1..Len(journal), Execute(journal[at]),
         NEW a \in Accounts, NEW n \in Names, remote[a][n] # None, remote'[a][n] = None
  PROVE  \E picked \in Names : /\ ListId[picked] = ListId[n]
                               /\ [acct |-> a, of |-> picked] \in asked
<1> DEFINE action == journal[at]
<1>1. action \in Action /\ remote \in Remotes
  BY AtAction DEF TInv, TypeOK, Remotes
<1>2. /\ action.acct \in Accounts /\ action.name \in Names /\ action.target \in Names
      /\ action.picked \in Names /\ action.kind \in {"create", "rename", "delete"}
  BY <1>1 DEF Action
<1>3. Asks(action) /\ Execute(action)
  BY DEF AInv
<1> HIDE DEF action
<1>4. action.kind \in {"rename", "delete"} /\ action.acct = a /\ action.name = n
  <2>1. CASE action.kind = "create"
    <3>1. remote' = [remote EXCEPT ![action.acct][action.name] = {}]
      BY <1>3, <2>1 DEF Execute, Executed
    <3>2. remote'[a][n] \in {remote[a][n], {}}
      BY <1>1, <1>2, <3>1 DEF Remotes
    <3> QED BY <3>2, ImapMailboxesAssumption
  <2>2. CASE action.kind = "delete"
    <3>1. remote' = [remote EXCEPT ![action.acct][action.name] = None]
      BY <1>3, <2>2 DEF Execute, Executed
    <3> QED BY <1>1, <1>2, <2>2, <3>1 DEF Remotes
  <2>3. CASE action.kind = "rename"
    <3> DEFINE row == [remote[action.acct] EXCEPT ![action.target] = remote[action.acct][action.name],
                                                  ![action.name] = None]
    <3>1. remote' = [remote EXCEPT ![action.acct] = row]
      BY <1>1, <1>2, <1>3, <2>3 DEF Execute, Executed, Remotes
    <3>2. remote[action.acct][action.name] # None
      BY <1>3, <2>3 DEF Execute, Possible
    <3>3. \A k \in Names \ {action.name} : row[k] # None \/ row[k] = remote[action.acct][k]
      BY <1>1, <1>2, <3>2 DEF Remotes
    <3> HIDE DEF row
    <3>4. /\ a # action.acct => remote'[a] = remote[a]
          /\ a = action.acct => remote'[a] = row
      BY <1>1, <3>1 DEF Remotes
    <3>5. a = action.acct /\ n = action.name
      BY <3>3, <3>4
    <3> QED BY <2>3, <3>5
  <2> QED BY <1>2, <2>1, <2>2, <2>3
<1> QED BY <1>2, <1>3, <1>4 DEF Asks

(* A mailbox disappears from a server only when the user asked to rename or *)
(* delete one with its directory: the replay, which looks an action's       *)
(* mailbox up by the remote name found when it was queued, never reaches    *)
(* another, whatever was queued, refused and replayed before.               *)
THEOREM RemovedAsAsked == Spec => OnlyAsked
<1> DEFINE A == \A a \in Accounts, n \in Names :
                  remote[a][n] # None /\ remote'[a][n] = None =>
                    \E picked \in Names : /\ ListId[picked] = ListId[n]
                                          /\ [acct |-> a, of |-> picked] \in asked
<1>1. TInv /\ AInv /\ [Next]_vars => [A]_vars
  <2> SUFFICES ASSUME TInv, AInv, Next PROVE A
    OBVIOUS
  <2> SUFFICES ASSUME NEW a \in Accounts, NEW n \in Names, remote[a][n] # None, remote'[a][n] = None
               PROVE  \E picked \in Names : /\ ListId[picked] = ListId[n]
                                            /\ [acct |-> a, of |-> picked] \in asked
    OBVIOUS
  <2>1. CASE remote' = remote
    BY <2>1
  <2>2. CASE ReplayNext \/ ReplayFails
    <3>1. /\ at \in 1..Len(journal)
          /\ Execute(journal[at]) \/ remote' = remote
      <4>1. at \in 1..(MaxActions + 1) /\ at <= Len(journal) /\ Len(journal) \in Nat
        BY <2>2 DEF ReplayNext, ReplayFails, TInv, TypeOK
      <4> QED BY <2>2, <4>1, Bounds DEF ReplayNext, ReplayFails
    <3> QED BY <2>1, <3>1, CommandAsked
  <2>3. CASE \E b \in Accounts, k \in Names, m \in Mail : Arrive(b, k, m)
    <3>1. PICK b \in Accounts, k \in Names, m \in Mail : Arrive(b, k, m)
      BY <2>3
    <3>2. /\ remote \in Remotes /\ remote[b][k] # None
          /\ remote' = [remote EXCEPT ![b][k] = @ \cup {m}]
      BY <3>1 DEF Arrive, TInv, TypeOK, Remotes
    <3>3. remote[b][k] \cup {m} \in SUBSET Mail
      BY <3>2 DEF Remotes
    <3>4. remote'[a][n] \in {remote[a][n], remote[b][k] \cup {m}}
      BY <3>2 DEF Remotes
    <3> QED BY <3>3, <3>4, ImapMailboxesAssumption
  <2>4. CASE UserNext
    BY <2>1, <2>4, UserLeaves
  <2>5. CASE FinishRename \/ Journal \/ StartCheck \/ ReplayCreate \/ ReplayDelete \/ ReplayRename
             \/ Dequeue \/ EndCheck \/ Crash
    BY <2>1, <2>5 DEF FinishRename, Journal, StartCheck, ReplayCreate, ReplayDelete, ReplayRename,
                      Dequeue, EndCheck, Crash
  <2>6. CASE \/ \E reached \in SUBSET Accounts : Discover(reached)
             \/ \E b \in Accounts, k \in Names : SyncNext(b, k)
    BY <2>1, <2>6 DEF Discover, SyncNext
  <2> QED BY <2>2, <2>3, <2>4, <2>5, <2>6 DEF Next
<1> HIDE DEF A
<1>2. Spec => [][A]_vars
  BY <1>1, TypedAlways, AsksAlways, PTL DEF Spec
<1> QED BY <1>2 DEF A, OnlyAsked

-----------------------------------------------------------------------------
(* Directories and their mailboxes *)

(* The directory a rename that is under way has moved. *)
Moving(a, i) ==
  pc \in {"relist", "replay-relist"} /\ a = task.acct /\ i = ListId[task.target]

Attached(a, i) ==
  \/ box[a][i] \in {None, {}}
  \/ Resolved(a, i) # {}
  \/ [acct |-> a, of |-> i] \in adrift
  \/ Moving(a, i)

(* While a rename is under way its id still resolves, and nothing is left   *)
(* in the directory it had unless that is the one it has now.               *)
Relisting ==
  pc \in {"relist", "replay-relist"} =>
    /\ Resolved(task.acct, task.id) # {}
    /\ ListId[task.target] = task.id \/ box[task.acct][task.id] = None

NInv == Relisting /\ \A a \in Accounts, i \in Ids : Attached(a, i)

(* Steps that rename nothing keep this when they make no other directory    *)
(* with messages than that of an id that resolves.                          *)
LEMMA KeptAttached ==
  ASSUME NInv, StillResolved, adrift' = adrift,
         pc \notin {"relist", "replay-relist"}, pc' \notin {"relist", "replay-relist"},
         \A b \in Accounts, j \in Ids :
           box'[b][j] \in {box[b][j], {}, None} \/ Resolved(b, j)' # {}
  PROVE  NInv'
<1>1. ASSUME NEW b \in Accounts, NEW j \in Ids PROVE Attached(b, j)'
  <2>1. box[b][j] \in {None, {}} \/ Resolved(b, j) # {} \/ [acct |-> b, of |-> j] \in adrift
    BY DEF NInv, Attached, Moving
  <2>2. Resolved(b, j) \subseteq Resolved(b, j)'
    BY DEF StillResolved
  <2> QED BY <2>1, <2>2 DEF Attached
<1>2. Relisting'
  BY DEF Relisting
<1> QED BY <1>1, <1>2 DEF NInv

(* The directory is renamed. *)
LEMMA MovedAttached ==
  ASSUME TypeOK, NInv, NEW a \in Accounts, NEW i \in Ids, NEW n \in Names,
         pc \notin {"relist", "replay-relist"}, pc' \in {"relist", "replay-relist"},
         CanRename(a, i, n), RenameDirectory(a, i, n),
         task'.acct = a, task'.id = i, task'.target = n, list' = list, adrift' = adrift
  PROVE  NInv'
<1>1. \A b \in Accounts, j \in Ids : Resolved(b, j)' = Resolved(b, j)
  BY DEF Resolved, Listed
<1>2. /\ ListId[n] \in Ids
      /\ ListId[n] # i => box'[a][i] = None
      /\ \A b \in Accounts, j \in Ids : b # a \/ j \notin {i, ListId[n]} => box'[b][j] = box[b][j]
  BY RenameDirectoryIs
<1>3. Resolved(a, i)' # {}
  BY <1>1 DEF CanRename
<1>4. ASSUME NEW b \in Accounts, NEW j \in Ids PROVE Attached(b, j)'
  <2>1. CASE b # a \/ j \notin {i, ListId[n]}
    <3>1. box[b][j] \in {None, {}} \/ Resolved(b, j) # {} \/ [acct |-> b, of |-> j] \in adrift
      BY DEF NInv, Attached, Moving
    <3>2. Resolved(b, j)' = Resolved(b, j) /\ box'[b][j] = box[b][j]
      BY <1>1, <1>2, <2>1
    <3> QED BY <3>1, <3>2 DEF Attached
  <2>2. CASE b = a /\ j = i
    BY <1>3, <2>2 DEF Attached
  <2>3. CASE b = a /\ j = ListId[n]
    BY <2>3 DEF Attached, Moving
  <2> QED BY <2>1, <2>2, <2>3
<1>5. Relisting'
  BY <1>2, <1>3 DEF Relisting
<1> QED BY <1>4, <1>5 DEF NInv

(* ... and then the entries. *)
LEMMA RelistedAttached ==
  ASSUME TInv, NInv, FinishRename
  PROVE  NInv'
<1>0. TypeOK /\ pc \in {"relist", "replay-relist"} /\ task \in Action
  BY DEF TInv, Under, FinishRename
<1>1. task.acct \in Accounts /\ task.id \in Ids /\ task.target \in Names
  BY <1>0 DEF Action
<1>2. PICK a \in Accounts, i \in Ids, n \in Names : a = task.acct /\ i = task.id /\ n = task.target
  BY <1>1
<1>3. RenameEntries(a, i, n) /\ adrift' = adrift /\ pc' \in {"journal", "remove"}
  BY <1>2 DEF FinishRename
<1>4. /\ list' \in Lists
      /\ \A b \in Accounts \ {a} : list'[b] = list[b]
      /\ \A k \in Names \ Resolved(a, i) : list[a][k] <= list'[a][k]
      /\ Resolved(a, i) # {} => list'[a][n] > 0
  BY <1>0, <1>3, RenamedIs
<1>5. /\ \A b \in Accounts, j \in Ids : b # a \/ j # i => box'[b][j] = box[b][j]
      /\ box'[a][i] = box[a][i] \/ box'[a][i] \in {None, {}}
  BY <1>0, <1>3, RenameEntriesBox
<1>6. Resolved(a, i) # {} /\ (ListId[n] = i \/ box[a][i] = None)
  BY <1>0, <1>2 DEF NInv, Relisting
<1>7. Resolved(a, ListId[n])' # {}
  BY <1>4, <1>6 DEF Resolved, Listed
<1>8. ASSUME NEW b \in Accounts, NEW j \in Ids, b # a \/ j # i, Resolved(b, j) # {}
      PROVE  Resolved(b, j)' # {}
  <2>1. PICK k \in Resolved(b, j) : TRUE
    BY <1>8
  <2>2. k \in Names /\ list[b][k] > 0 /\ ListId[k] = j
    BY <2>1 DEF Resolved, Listed
  <2>3. list[b][k] <= list'[b][k]
    <3>1. list[b][k] \in Nat
      BY <1>0, <2>2 DEF TypeOK
    <3>2. CASE b = a
      <4>1. k \notin Resolved(a, i)
        BY <1>8, <2>2, <3>2 DEF Resolved
      <4> QED BY <1>4, <2>2, <3>2, <4>1
    <3>3. CASE b # a
      BY <1>4, <3>1, <3>3
    <3> QED BY <3>2, <3>3
  <2>4. list[b][k] \in Nat /\ list'[b][k] \in Nat
    BY <1>0, <1>4, <2>2 DEF TypeOK, Lists
  <2>5. list'[b][k] > 0
    BY <2>2, <2>3, <2>4
  <2> QED BY <2>2, <2>5 DEF Resolved, Listed
<1>9. ASSUME NEW b \in Accounts, NEW j \in Ids PROVE Attached(b, j)'
  <2>1. CASE b = a /\ j = ListId[n]
    BY <1>7, <2>1 DEF Attached
  <2>2. CASE b = a /\ j = i /\ ListId[n] # i
    BY <1>5, <1>6, <2>2 DEF Attached
  <2>3. CASE b # a \/ j \notin {i, ListId[n]}
    <3>1. ~Moving(b, j)
      BY <1>2, <2>3 DEF Moving
    <3>2. box[b][j] \in {None, {}} \/ Resolved(b, j) # {} \/ [acct |-> b, of |-> j] \in adrift
      BY <3>1 DEF NInv, Attached
    <3>3. box'[b][j] = box[b][j]
      BY <1>5, <2>3
    <3> QED BY <1>3, <1>8, <2>3, <3>2, <3>3 DEF Attached
  <2> QED BY <2>1, <2>2, <2>3
<1>10. Relisting'
  BY <1>3 DEF Relisting
<1> QED BY <1>9, <1>10 DEF NInv

(* What each operation needs of the one it replays. *)
LEMMA ReplayedAction ==
  ASSUME TInv, pc = "local"
  PROVE  /\ journal[at] \in Action
         /\ journal[at].acct \in Accounts /\ journal[at].id \in Ids
         /\ journal[at].name \in Names /\ journal[at].target \in Names
<1>1. journal[at] \in Action
  BY AtAction DEF TInv, Under
<1> QED BY <1>1 DEF Action

(* What the two outcomes of a replayed rename are. *)
LEMMA ReplayRenameIs ==
  ASSUME TInv, ReplayRename,
         NEW a, a = journal[at].acct, NEW i, i = journal[at].id, NEW n, n = journal[at].target
  PROVE  \/ Ensure(a, n, box) /\ pc' = "remove"
         \/ /\ CanRename(a, i, n) /\ RenameDirectory(a, i, n) /\ list' = list
            /\ pc' = "replay-relist" /\ task'.acct = a /\ task'.id = i /\ task'.target = n
         \/ list' = list /\ box' = box /\ pc' = "replay"
BY Zenon DEF ReplayRename

LEMMA StepAttached ==
  ASSUME TInv, NInv, [Next]_vars
  PROVE  NInv'
<1>0. TypeOK /\ Under
  BY DEF TInv
<1>1. ASSUME list' = list, box' = box, adrift' = adrift,
             pc \notin {"relist", "replay-relist"}, pc' \notin {"relist", "replay-relist"}
      PROVE  NInv'
  <2>1. StillResolved
    BY <1>1 DEF StillResolved, Resolved, Listed
  <2> QED BY <1>1, <2>1, KeptAttached
<1>2. ASSUME UNCHANGED <<list, box, adrift, pc, task>>
      PROVE  NInv'
  <2>1. \A a \in Accounts, i \in Ids : Attached(a, i)'
    BY <1>2 DEF NInv, Attached, Moving, Resolved, Listed
  <2>2. Relisting'
    BY <1>2 DEF NInv, Relisting, Resolved, Listed
  <2> QED BY <2>1, <2>2 DEF NInv
<1>3. ASSUME NEW a \in Accounts, NEW n \in Names, QueueCreate(a, n) PROVE NInv'
  <2>1. /\ pc \notin {"relist", "replay-relist"} /\ pc' \notin {"relist", "replay-relist"}
        /\ adrift' = adrift /\ Ensure(a, n, box)
    BY <1>3 DEF QueueCreate, Room, Queue, history
  <2>2. /\ StillResolved
        /\ \A b \in Accounts, j \in Ids : box'[b][j] \in {box[b][j], {}, None}
    BY <1>0, <2>1, EnsureIs
  <2> QED BY <2>1, <2>2, KeptAttached
<1>4. ASSUME NEW a \in Accounts, NEW n \in Names, NEW picked \in Names, QueueDelete(a, picked, n)
      PROVE  NInv'
  <2>1. ListId[picked] \in Ids
    BY ImapMailboxesAssumption
  <2>2. /\ pc \notin {"relist", "replay-relist"} /\ pc' \notin {"relist", "replay-relist"}
        /\ adrift' = adrift /\ Delete(a, ListId[picked])
    BY <1>4 DEF QueueDelete, Room, Queue
  <2>3. /\ StillResolved
        /\ \A b \in Accounts, j \in Ids : box'[b][j] \in {box[b][j], {}, None}
    BY <1>0, <2>1, <2>2, DeleteIs
  <2> QED BY <2>2, <2>3, KeptAttached
<1>5. ASSUME NEW a \in Accounts, NEW n \in Names, NEW picked \in Names, NEW target \in Names,
             QueueRename(a, picked, n, target)
      PROVE  NInv'
  <2>1. ListId[picked] \in Ids
    BY ImapMailboxesAssumption
  <2>2. /\ pc \notin {"relist", "replay-relist"} /\ pc' \in {"relist", "replay-relist"}
        /\ adrift' = adrift /\ list' = list
        /\ CanRename(a, ListId[picked], target) /\ RenameDirectory(a, ListId[picked], target)
        /\ task'.acct = a /\ task'.id = ListId[picked] /\ task'.target = target
    BY <1>5 DEF QueueRename, Room
  <2> QED BY <1>0, <2>1, <2>2, MovedAttached
<1>6. CASE FinishRename
  BY <1>6, RelistedAttached
<1>7. CASE ReplayCreate \/ ReplayDelete
  <2>1. /\ pc = "local" /\ pc' \notin {"relist", "replay-relist"} /\ adrift' = adrift
        /\ Ensure(journal[at].acct, journal[at].name, box) \/ Delete(journal[at].acct, journal[at].id)
    BY <1>7 DEF ReplayCreate, ReplayDelete, history
  <2>2. /\ journal[at].acct \in Accounts /\ journal[at].id \in Ids /\ journal[at].name \in Names
    BY <2>1, ReplayedAction
  <2>3. /\ StillResolved
        /\ \A b \in Accounts, j \in Ids : box'[b][j] \in {box[b][j], {}, None}
    <3>1. CASE Ensure(journal[at].acct, journal[at].name, box)
      BY <1>0, <2>2, <3>1, EnsureIs
    <3>2. CASE Delete(journal[at].acct, journal[at].id)
      BY <1>0, <2>2, <3>2, DeleteIs
    <3> QED BY <2>1, <3>1, <3>2
  <2> QED BY <2>1, <2>3, KeptAttached
<1>8. CASE ReplayRename
  <2>1. pc = "local" /\ adrift' = adrift
    BY <1>8 DEF ReplayRename, history
  <2>2. PICK a \in Accounts, i \in Ids, n \in Names :
          a = journal[at].acct /\ i = journal[at].id /\ n = journal[at].target
    BY <2>1, ReplayedAction
  <2>3. \/ Ensure(a, n, box) /\ pc' = "remove"
        \/ /\ CanRename(a, i, n) /\ RenameDirectory(a, i, n) /\ list' = list
           /\ pc' = "replay-relist" /\ task'.acct = a /\ task'.id = i /\ task'.target = n
        \/ list' = list /\ box' = box /\ pc' = "replay"
    BY <1>8, <2>2, ReplayRenameIs
  <2>4. CASE Ensure(a, n, box) /\ pc' = "remove"
    <3>1. /\ StillResolved
          /\ \A b \in Accounts, j \in Ids : box'[b][j] \in {box[b][j], {}, None}
      BY <1>0, <2>4, EnsureIs
    <3> QED BY <2>1, <2>4, <3>1, KeptAttached
  <2>5. CASE /\ CanRename(a, i, n) /\ RenameDirectory(a, i, n) /\ list' = list
             /\ pc' = "replay-relist" /\ task'.acct = a /\ task'.id = i /\ task'.target = n
    BY <1>0, <2>1, <2>5, MovedAttached
  <2>6. CASE list' = list /\ box' = box /\ pc' = "replay"
    BY <1>1, <2>1, <2>6
  <2> QED BY <2>3, <2>4, <2>5, <2>6
<1>9. ASSUME NEW a \in Accounts, NEW n \in Names, SyncNext(a, n) PROVE NInv'
  <2>1. /\ pc = "sync" /\ pc' = "sync" /\ adrift' = adrift
    BY <1>9 DEF SyncNext
  <2>2. /\ StillResolved
        /\ \A b \in Accounts, j \in Ids :
             box'[b][j] \in {box[b][j], {}} \/ Resolved(b, j)' # {}
    BY <1>0, <1>9, SyncIs
  <2>3. \A b \in Accounts, j \in Ids :
          box'[b][j] \in {box[b][j], {}, None} \/ Resolved(b, j)' # {}
    BY <2>2
  <2> QED BY <2>1, <2>2, <2>3, KeptAttached
<1>10. CASE Journal \/ StartCheck \/ ReplayNext \/ ReplayFails \/ Dequeue \/ EndCheck
  <2>1. /\ list' = list /\ box' = box /\ adrift' = adrift
        /\ pc \notin {"relist", "replay-relist"} /\ pc' \notin {"relist", "replay-relist"}
    BY <1>10 DEF Journal, StartCheck, ReplayNext, ReplayFails, Dequeue, EndCheck, disk, history
  <2> QED BY <1>1, <2>1
<1>11. ASSUME NEW reached \in SUBSET Accounts, Discover(reached) PROVE NInv'
  BY <1>1, <1>11 DEF Discover, disk, history
<1>12. CASE Crash
  <2>1. list' = list /\ box' = box /\ pc' = "idle"
    BY <1>12 DEF Crash, disk
  <2>2. ASSUME NEW b \in Accounts, NEW j \in Ids PROVE Attached(b, j)'
    <3>1. Attached(b, j)
      BY DEF NInv
    <3>2. [acct |-> b, of |-> j] \in adrift \/ Moving(b, j) => [acct |-> b, of |-> j] \in adrift'
      BY <1>12 DEF Crash, Moving
    <3>3. Resolved(b, j)' = Resolved(b, j)
      BY <2>1 DEF Resolved, Listed
    <3> QED BY <2>1, <3>1, <3>2, <3>3 DEF Attached
  <2>3. Relisting'
    BY <2>1 DEF Relisting
  <2> QED BY <2>2, <2>3 DEF NInv
<1>13. CASE \/ \E a \in Accounts, n \in Names, m \in Mail : Arrive(a, n, m)
            \/ UNCHANGED vars
  BY <1>2, <1>13 DEF Arrive, vars, disk, run, history
<1> QED BY <1>3, <1>4, <1>5, <1>6, <1>7, <1>8, <1>9, <1>10, <1>11, <1>12, <1>13 DEF Next, UserNext

LEMMA AttachedAlways == Spec => []NInv
<1>1. Init => NInv
  <2> SUFFICES ASSUME Init PROVE NInv
    OBVIOUS
  <2>1. \A a \in Accounts, i \in Ids : box[a][i] = None
    BY DEF Init
  <2> QED BY <2>1 DEF Init, NInv, Relisting, Attached
<1>2. TInv /\ NInv /\ [Next]_vars => NInv'
  BY StepAttached
<1> QED BY <1>1, <1>2, TypedAlways, PTL DEF Spec

(* No sequence of creations, renames and deletions, here and by the replay, *)
(* leaves messages in a directory no mailbox of the list leads to, except   *)
(* when the process dies between the two halves of a rename.                *)
THEOREM DirectoriesAttached == Spec => []NothingOrphaned
<1>1. NInv => NothingOrphaned
  BY DEF NInv, Attached, Moving, NothingOrphaned
<1> QED BY <1>1, AttachedAlways, PTL

-----------------------------------------------------------------------------
(* Messages that were seen *)

Holds(a, i, m) == box[a][i] # None /\ m \in box[a][i]

(* A message the sync state counts is in a directory of its account. *)
SInv ==
  \A a \in Accounts, i \in Ids : \A m \in seen[a][i] :
    [acct |-> a, of |-> m] \in gone \cup astray \/ \E d \in Ids : Holds(a, d, m)

(* No message leaves the directories but into the account's others, or by a *)
(* deletion the user asked for.                                             *)
NoneLeaves ==
  /\ gone \subseteq gone' /\ astray \subseteq astray'
  /\ \A a \in Accounts, i \in Ids, m \in Mail :
       Holds(a, i, m) => [acct |-> a, of |-> m] \in gone' \/ \E d \in Ids : Holds(a, d, m)'

LEMMA KeptSeen ==
  ASSUME TypeOK, SInv, NoneLeaves, seen' = seen
  PROVE  SInv'
<1> SUFFICES ASSUME NEW a \in Accounts, NEW i \in Ids, NEW m \in seen[a][i]
             PROVE  \/ [acct |-> a, of |-> m] \in gone' \cup astray'
                    \/ \E d \in Ids : Holds(a, d, m)'
  BY DEF SInv
<1>1. m \in Mail
  BY DEF TypeOK
<1>2. [acct |-> a, of |-> m] \in gone \cup astray \/ \E d \in Ids : Holds(a, d, m)
  BY DEF SInv
<1> QED BY <1>1, <1>2 DEF NoneLeaves

LEMMA EnsureHolds ==
  ASSUME TypeOK, NEW a \in Accounts, NEW n \in Names, Ensure(a, n, box), gone' = gone, astray' = astray
  PROVE  NoneLeaves
<1>1. \A b \in Accounts, j \in Ids :
        box'[b][j] = IF b = a /\ j = ListId[n] /\ box[b][j] = None THEN {} ELSE box[b][j]
  BY EnsureIs
<1> QED BY <1>1 DEF NoneLeaves, Holds

LEMMA DeleteHolds ==
  ASSUME TypeOK, NEW a \in Accounts, NEW i \in Ids, Delete(a, i), astray' = astray
  PROVE  NoneLeaves
<1>1. /\ \A b \in Accounts, j \in Ids :
           box'[b][j] = IF b = a /\ j = i /\ Resolved(a, i) # {} THEN None ELSE box[b][j]
      /\ gone' = gone \cup {[acct |-> a, of |-> m] : m \in Contents(a, i)}
  BY DeleteIs
<1>2. ASSUME NEW b \in Accounts, NEW j \in Ids, NEW m \in Mail, Holds(b, j, m)
      PROVE  [acct |-> b, of |-> m] \in gone' \/ \E d \in Ids : Holds(b, d, m)'
  <2>1. CASE b = a /\ j = i /\ Resolved(a, i) # {}
    <3>1. m \in Contents(a, i)
      BY <1>2, <2>1 DEF Contents, Holds
    <3> QED BY <1>1, <2>1, <3>1
  <2>2. CASE ~(b = a /\ j = i /\ Resolved(a, i) # {})
    BY <1>1, <1>2, <2>2 DEF Holds
  <2> QED BY <2>1, <2>2
<1> QED BY <1>1, <1>2 DEF NoneLeaves

LEMMA RenameHolds ==
  ASSUME TypeOK, NEW a \in Accounts, NEW i \in Ids, NEW n \in Names,
         CanRename(a, i, n), RenameDirectory(a, i, n), gone' = gone, astray' = astray
  PROVE  NoneLeaves
<1>1. /\ ListId[n] \in Ids
      /\ ListId[n] # i => box[a][ListId[n]] = None
      /\ box'[a][ListId[n]] = box[a][i]
      /\ \A b \in Accounts, j \in Ids : b # a \/ j \notin {i, ListId[n]} => box'[b][j] = box[b][j]
  BY RenameDirectoryIs
<1>2. ASSUME NEW b \in Accounts, NEW j \in Ids, NEW m \in Mail, Holds(b, j, m)
      PROVE  \E d \in Ids : Holds(b, d, m)'
  <2>1. CASE b # a \/ j \notin {i, ListId[n]}
    BY <1>1, <1>2, <2>1 DEF Holds
  <2>2. CASE b = a /\ j \in {i, ListId[n]}
    <3>1. j = i
      BY <1>1, <1>2, <2>2 DEF Holds
    <3>2. Holds(b, ListId[n], m)'
      BY <1>1, <1>2, <2>2, <3>1 DEF Holds
    <3> QED BY <1>1, <3>2
  <2> QED BY <2>1, <2>2
<1> QED BY <1>2 DEF NoneLeaves

LEMMA RelistHolds ==
  ASSUME TInv, NInv, FinishRename
  PROVE  NoneLeaves
<1>0. TypeOK /\ pc \in {"relist", "replay-relist"} /\ task \in Action
  BY DEF TInv, Under, FinishRename
<1>1. task.acct \in Accounts /\ task.id \in Ids /\ task.target \in Names
  BY <1>0 DEF Action
<1>2. PICK a \in Accounts, i \in Ids, n \in Names : a = task.acct /\ i = task.id /\ n = task.target
  BY <1>1
<1>3. RenameEntries(a, i, n) /\ astray' = astray
  BY <1>2 DEF FinishRename
<1>4. Resolved(a, i) # {}
  BY <1>0, <1>2 DEF NInv, Relisting
<1>5. /\ \A b \in Accounts, j \in Ids : b # a \/ j # i => box'[b][j] = box[b][j]
      /\ \/ box'[a][i] = box[a][i] /\ gone' = gone
         \/ gone' = gone \cup {[acct |-> a, of |-> m] : m \in Contents(a, i)}
  BY <1>0, <1>3, RenameEntriesBox
<1>6. ASSUME NEW b \in Accounts, NEW j \in Ids, NEW m \in Mail, Holds(b, j, m)
      PROVE  [acct |-> b, of |-> m] \in gone' \/ \E d \in Ids : Holds(b, d, m)'
  <2>1. CASE b = a /\ j = i
    <3>1. m \in Contents(a, i)
      BY <1>4, <1>6, <2>1 DEF Contents, Holds
    <3> QED BY <1>5, <1>6, <2>1, <3>1 DEF Holds
  <2>2. CASE b # a \/ j # i
    BY <1>5, <1>6, <2>2 DEF Holds
  <2> QED BY <2>1, <2>2
<1> QED BY <1>3, <1>5, <1>6 DEF NoneLeaves

LEMMA SyncSeen ==
  ASSUME TInv, SInv, NEW a \in Accounts, NEW n \in Names, SyncNext(a, n)
  PROVE  SInv'
<1> DEFINE new == remote[a][n] \ seen[a][LocalId[n]]
<1>0. TypeOK /\ LocalId[n] \in Ids
  BY ImapMailboxesAssumption DEF TInv
<1>1. /\ \A b \in Accounts, j \in Ids :
           box[b][j] # None => box'[b][j] # None /\ box[b][j] \subseteq box'[b][j]
      /\ Plain(n) => box'[a][LocalId[n]] # None /\ new \subseteq box'[a][LocalId[n]]
  BY <1>0, SyncIs
<1>2. /\ seen' = [seen EXCEPT ![a][LocalId[n]] = @ \cup new]
      /\ astray' = IF Plain(n) THEN astray ELSE astray \cup {[acct |-> a, of |-> m] : m \in new}
      /\ gone' = gone
  BY DEF SyncNext
<1> HIDE DEF new
<1> SUFFICES ASSUME NEW b \in Accounts, NEW i \in Ids, NEW m \in seen'[b][i]
             PROVE  \/ [acct |-> b, of |-> m] \in gone' \cup astray'
                    \/ \E d \in Ids : Holds(b, d, m)'
  BY DEF SInv
<1>3. m \in seen[b][i] \/ (b = a /\ m \in new)
  BY <1>0, <1>2 DEF TypeOK
<1>4. CASE m \in seen[b][i]
  <2>1. [acct |-> b, of |-> m] \in gone \cup astray \/ \E d \in Ids : Holds(b, d, m)
    BY <1>4 DEF SInv
  <2>2. ASSUME NEW d \in Ids, Holds(b, d, m) PROVE Holds(b, d, m)'
    BY <1>1, <2>2 DEF Holds
  <2> QED BY <1>2, <2>1, <2>2
<1>5. CASE b = a /\ m \in new
  <2>1. CASE Plain(n)
    BY <1>0, <1>1, <1>5, <2>1 DEF Holds
  <2>2. CASE ~Plain(n)
    BY <1>2, <1>5, <2>2
  <2> QED BY <2>1, <2>2
<1> QED BY <1>3, <1>4, <1>5

LEMMA StepSeen ==
  ASSUME TInv, NInv, SInv, [Next]_vars
  PROVE  SInv'
<1>0. TypeOK
  BY DEF TInv
<1>1. ASSUME UNCHANGED <<box, seen, gone, astray>> PROVE SInv'
  BY <1>1 DEF SInv, Holds
<1>2. ASSUME NEW a \in Accounts, NEW n \in Names, QueueCreate(a, n) PROVE SInv'
  BY <1>0, <1>2, EnsureHolds, KeptSeen DEF QueueCreate, history
<1>3. ASSUME NEW a \in Accounts, NEW n \in Names, NEW picked \in Names, QueueDelete(a, picked, n)
      PROVE  SInv'
  <2>1. ListId[picked] \in Ids /\ Delete(a, ListId[picked]) /\ astray' = astray /\ seen' = seen
    BY <1>3, ImapMailboxesAssumption DEF QueueDelete
  <2> QED BY <1>0, <2>1, DeleteHolds, KeptSeen
<1>4. ASSUME NEW a \in Accounts, NEW n \in Names, NEW picked \in Names, NEW target \in Names,
             QueueRename(a, picked, n, target)
      PROVE  SInv'
  <2>1. /\ ListId[picked] \in Ids
        /\ CanRename(a, ListId[picked], target) /\ RenameDirectory(a, ListId[picked], target)
        /\ gone' = gone /\ astray' = astray /\ seen' = seen
    BY <1>4, ImapMailboxesAssumption DEF QueueRename
  <2> QED BY <1>0, <2>1, RenameHolds, KeptSeen
<1>5. CASE FinishRename
  BY <1>0, <1>5, RelistHolds, KeptSeen DEF FinishRename
<1>6. CASE ReplayCreate \/ ReplayDelete
  <2>1. /\ pc = "local" /\ seen' = seen /\ astray' = astray
        /\ \/ Ensure(journal[at].acct, journal[at].name, box) /\ gone' = gone
           \/ Delete(journal[at].acct, journal[at].id)
    BY <1>6 DEF ReplayCreate, ReplayDelete, history
  <2>2. journal[at].acct \in Accounts /\ journal[at].id \in Ids /\ journal[at].name \in Names
    BY <2>1, ReplayedAction
  <2>3. NoneLeaves
    <3>1. CASE Ensure(journal[at].acct, journal[at].name, box) /\ gone' = gone
      BY <1>0, <2>1, <2>2, <3>1, EnsureHolds
    <3>2. CASE Delete(journal[at].acct, journal[at].id)
      BY <1>0, <2>1, <2>2, <3>2, DeleteHolds
    <3> QED BY <2>1, <3>1, <3>2
  <2> QED BY <1>0, <2>1, <2>3, KeptSeen
<1>7. CASE ReplayRename
  <2>1. pc = "local" /\ seen' = seen /\ gone' = gone /\ astray' = astray
    BY <1>7 DEF ReplayRename, history
  <2>2. PICK a \in Accounts, i \in Ids, n \in Names :
          a = journal[at].acct /\ i = journal[at].id /\ n = journal[at].target
    BY <2>1, ReplayedAction
  <2>3. Ensure(a, n, box) \/ (CanRename(a, i, n) /\ RenameDirectory(a, i, n)) \/ box' = box
    BY <1>7, <2>2, ReplayRenameIs
  <2>4. CASE Ensure(a, n, box)
    BY <1>0, <2>1, <2>4, EnsureHolds, KeptSeen
  <2>5. CASE CanRename(a, i, n) /\ RenameDirectory(a, i, n)
    BY <1>0, <2>1, <2>5, RenameHolds, KeptSeen
  <2>6. CASE box' = box
    BY <1>1, <2>1, <2>6
  <2> QED BY <2>3, <2>4, <2>5, <2>6
<1>8. CASE \E a \in Accounts, n \in Names : SyncNext(a, n)
  BY <1>8, SyncSeen
<1>9. CASE Journal \/ StartCheck \/ ReplayNext \/ ReplayFails \/ Dequeue \/ EndCheck \/ Crash
  BY <1>1, <1>9 DEF Journal, StartCheck, ReplayNext, ReplayFails, Dequeue, EndCheck, Crash, disk, history
<1>10. CASE \/ \E reached \in SUBSET Accounts : Discover(reached)
            \/ \E a \in Accounts, n \in Names, m \in Mail : Arrive(a, n, m)
            \/ UNCHANGED vars
  BY <1>1, <1>10 DEF Discover, Arrive, vars, disk, history
<1> QED BY <1>2, <1>3, <1>4, <1>5, <1>6, <1>7, <1>8, <1>9, <1>10 DEF Next, UserNext

(* A message that will not be fetched again, because the sync state of some *)
(* mailbox id of its account counts it, is shown in a mailbox of that       *)
(* account, whatever was renamed, replayed and synchronised; what the user  *)
(* erased, the two ids and a crash can cost are the only exceptions.        *)
THEOREM SeenAreShown == Spec => []SeenIsShown
<1>1. NInv /\ SInv => SeenIsShown
  <2> SUFFICES ASSUME NInv, SInv, pc \notin {"relist", "replay-relist"},
                      NEW a \in Accounts, NEW i \in Ids, NEW m \in seen[a][i],
                      [acct |-> a, of |-> m] \notin gone \cup astray
               PROVE  \/ Shown(a, m)
                      \/ \E d \in Ids : /\ [acct |-> a, of |-> d] \in adrift
                                        /\ box[a][d] # None /\ m \in box[a][d]
    BY DEF SeenIsShown
  <2>1. PICK d \in Ids : Holds(a, d, m)
    BY DEF SInv
  <2>2. Attached(a, d)
    BY DEF NInv
  <2>3. Resolved(a, d) # {} \/ [acct |-> a, of |-> d] \in adrift
    BY <2>1, <2>2 DEF Holds, Attached, Moving
  <2> QED BY <2>1, <2>3 DEF Holds, Shown, Contents
<1>2. Init => SInv
  BY DEF Init, SInv
<1>3. TInv /\ NInv /\ SInv /\ [Next]_vars => SInv'
  BY StepSeen
<1> QED BY <1>1, <1>2, <1>3, TypedAlways, AttachedAlways, PTL DEF Spec
=============================================================================
