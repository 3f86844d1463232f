--------------------------- MODULE AppTimerProofs ---------------------------
(***************************************************************************)
(* Proofs about AppTimer for all timers, intervals and uses, for every     *)
(* range of the counter, length of the queue and number of calls, and      *)
(* however late level 2 is: the list holds every timer once, RTC1 runs     *)
(* exactly while there is one, a timer that was stopped stays silent, and  *)
(* no timeout handler is called early.                                     *)
(*                                                                         *)
(* The callers are Careful, and NotWrapped is a hypothesis on the time     *)
(* that passes: between the moment the interrupt of RTC1 has added up the  *)
(* expired ticks and the moment SWI0 takes them from the list the counter  *)
(* does not go round.                                                      *)
(*                                                                         *)
(* A stop marks the timer at once and takes it from the list later, so the *)
(* invariant follows it on its way: which timers of the list were found    *)
(* expired (WalkInv, and Gone), what a marked timer that is still in the   *)
(* list waits for (MarkInv), and what is left of a stopped one             *)
(* (SilenceInv).                                                           *)
(*                                                                         *)
(* A timer's time is handed on from the queue to the list, from the list   *)
(* to RTC1's interrupt, and back: EarlyInv says at each place that the     *)
(* timer is given no fewer ticks than it has left.                         *)
(***************************************************************************)
EXTENDS AppTimer, SequenceTheorems, WellFoundedInduction, TLAPS

(* Induction over the naturals, without an operator as a parameter.        *)

Below == {ss \in Nat \X Nat : ss[1] < ss[2]}

\* A set of naturals has a least element.
LEMMA Smallest ==
  ASSUME NEW S \in SUBSET Nat, S # {}
  PROVE  \E n \in S : \A m \in S : n <= m
<1>1. IsWellFoundedOn(Below, Nat)
  BY NatLessThanWellFounded DEF OpToRel, Below
<1>2. PICK n \in S : \A m \in S : <<m, n>> \notin Below
  BY <1>1, WFMin, Zenon
<1>3. ASSUME NEW m \in S PROVE n <= m
  <2>1. SUFFICES ASSUME m < n PROVE FALSE
    BY <1>3
  <2>2. <<m, n>> \in Nat \X Nat /\ <<m, n>>[1] < <<m, n>>[2]
    BY <2>1, <1>3
  <2>3. <<m, n>> \in Below
    BY <2>2, Zenon DEF Below
  <2> QED BY <1>2, <2>3
<1> QED BY <1>3

\* A set that contains zero and with each natural the next contains them all.
LEMMA Induct ==
  ASSUME NEW S, 0 \in S, \A n \in Nat : n \in S => n + 1 \in S
  PROVE  Nat \subseteq S
<1>1. SUFFICES ASSUME NEW k \in Nat, k \notin S PROVE FALSE
  OBVIOUS
<1> DEFINE T == {n \in Nat : n \notin S}
<1>2. T \in SUBSET Nat /\ T # {}
  BY <1>1
<1>3. PICK n \in T : \A m \in T : n <= m
  <2> HIDE DEF T
  <2> QED BY <1>2, Smallest
<1>4. n # 0 /\ n - 1 \in Nat
  BY <1>3
<1>5. n - 1 \in S
  BY <1>3, <1>4
<1> QED BY <1>3, <1>4, <1>5

\* A bounded set of naturals has a greatest element.
LEMMA Greatest ==
  ASSUME NEW S \in SUBSET Nat, S # {}, NEW b \in Nat, \A i \in S : i <= b
  PROVE  Max(S) \in S /\ \A i \in S : i <= Max(S)
<1> DEFINE T == {k \in Nat : \A i \in S : i <= k}
<1>1. T \in SUBSET Nat /\ T # {}
  OBVIOUS
<1>2. PICK m \in T : \A k \in T : m <= k
  <2> HIDE DEF T
  <2> QED BY <1>1, Smallest
<1>3. m \in S
  <2>1. SUFFICES ASSUME m \notin S PROVE FALSE
    OBVIOUS
  <2>2. PICK i \in S : TRUE
    OBVIOUS
  <2>3. m # 0 /\ m - 1 \in Nat
    BY <1>2, <2>1, <2>2
  <2>4. \A j \in S : j <= m - 1
    BY <1>2, <2>1, <2>3
  <2>5. m - 1 \in T
    BY <2>3, <2>4
  <2> QED BY <1>2, <2>3, <2>5
<1>4. \A y \in S : m >= y
  BY <1>2
<1>5. Max(S) \in S /\ \A y \in S : Max(S) >= y
  BY <1>3, <1>4, Zenon DEF Max
<1> QED BY <1>5

(* Sums along the list.                                                    *)

SumOf(f, g, n) == f = [i \in 0 .. n |-> IF i = 0 THEN 0 ELSE f[i - 1] + g[i]]

LEMMA SumExists ==
  ASSUME NEW n \in Nat, NEW g
  PROVE  \E f : SumOf(f, g, n)
<1> DEFINE T == {k \in Nat : \E f : SumOf(f, g, k)}
<1>1. 0 \in T
  <2> DEFINE f == [i \in 0 .. 0 |-> 0]
  <2>1. f = [i \in 0 .. 0 |-> IF i = 0 THEN 0 ELSE f[i - 1] + g[i]]
    OBVIOUS
  <2>2. SumOf(f, g, 0)
    BY <2>1 DEF SumOf
  <2> QED BY <2>2
<1>2. ASSUME NEW k \in Nat, k \in T PROVE k + 1 \in T
  <2>1. PICK f : SumOf(f, g, k)
    BY <1>2
  <2> DEFINE h == [i \in 0 .. k + 1 |-> IF i = k + 1 THEN f[k] + g[k + 1] ELSE f[i]]
  <2>2. ASSUME NEW i \in 0 .. k + 1 PROVE h[i] = IF i = 0 THEN 0 ELSE h[i - 1] + g[i]
    <3>1. CASE i = k + 1
      BY <3>1
    <3>2. CASE i \in 0 .. k
      <4>1. f[i] = IF i = 0 THEN 0 ELSE f[i - 1] + g[i]
        BY <2>1, <3>2 DEF SumOf
      <4>2. h[i] = f[i] /\ (i # 0 => h[i - 1] = f[i - 1])
        BY <3>2
      <4> QED BY <4>1, <4>2
    <3> QED BY <3>1, <3>2
  <2>3. h = [i \in 0 .. k + 1 |-> IF i = 0 THEN 0 ELSE h[i - 1] + g[i]]
    BY <2>2
  <2> HIDE DEF h
  <2>4. SumOf(h, g, k + 1)
    BY <2>3 DEF SumOf
  <2> QED BY <2>4
<1> HIDE DEF T
<1>3. Nat \subseteq T
  BY <1>1, <1>2, Induct
<1> QED BY <1>3 DEF T

\* What Due computes, one timer at a time.
LEMMA DueSteps ==
  ASSUME NEW s \in Seq(Timers), NEW ticks
  PROVE  /\ Due(s, ticks, 0) = 0
         /\ \A n \in 1 .. Len(s) : Due(s, ticks, n) = Due(s, ticks, n - 1) + ticks[s[n]]
<1> DEFINE g == [i \in 1 .. Len(s) |-> ticks[s[i]]]
           Def(f) == f = [i \in 0 .. Len(s) |-> IF i = 0 THEN 0 ELSE f[i - 1] + ticks[s[i]]]
           sum == CHOOSE f : Def(f)
<1>1. Len(s) \in Nat
  OBVIOUS
<1>2. PICK f : SumOf(f, g, Len(s))
  BY <1>1, SumExists
<1>3. Def(f)
  <2>1. \A i \in 0 .. Len(s) : f[i] = IF i = 0 THEN 0 ELSE f[i - 1] + ticks[s[i]]
    <3>1. ASSUME NEW i \in 0 .. Len(s) PROVE f[i] = IF i = 0 THEN 0 ELSE f[i - 1] + g[i]
      <4> HIDE DEF g
      <4> QED BY <1>1, <1>2 DEF SumOf
    <3>2. \A i \in 0 .. Len(s) : i # 0 => g[i] = ticks[s[i]]
      BY <1>1
    <3> HIDE DEF g
    <3> QED BY <3>1, <3>2
  <2>2. f = [i \in 0 .. Len(s) |-> f[i]]
    <3> HIDE DEF g
    <3> QED BY <1>2 DEF SumOf
  <2> QED BY <2>1, <2>2
<1>4. Def(sum)
  BY <1>3, Zenon
<1>5. \A n : Due(s, ticks, n) = sum[n]
  BY DEF Due
<1>6. \A i \in 0 .. Len(s) : sum[i] = IF i = 0 THEN 0 ELSE sum[i - 1] + ticks[s[i]]
  <2> HIDE DEF sum
  <2> QED BY <1>4
<1> HIDE DEF sum
<1> QED BY <1>1, <1>5, <1>6

\* The times to the expiries are naturals and grow along the list.
LEMMA DueGrows ==
  ASSUME NEW s \in Seq(Timers), NEW ticks \in [Timers -> Nat]
  PROVE  /\ \A n \in 0 .. Len(s) : Due(s, ticks, n) \in Nat
         /\ \A m, n \in 0 .. Len(s) : m <= n => Due(s, ticks, m) <= Due(s, ticks, n)
<1> DEFINE D(n) == Due(s, ticks, n)
           T == {n \in Nat : n <= Len(s) => D(n) \in Nat /\ \A m \in 0 .. n : D(m) \in Nat /\ D(m) <= D(n)}
<1>1. Len(s) \in Nat /\ D(0) = 0
  BY DueSteps
<1>2. \A n \in 1 .. Len(s) : D(n) = D(n - 1) + ticks[s[n]] /\ ticks[s[n]] \in Nat
  BY DueSteps
<1> HIDE DEF D
<1>3. 0 \in T
  BY <1>1
<1>4. ASSUME NEW n \in Nat, n \in T PROVE n + 1 \in T
  <2>1. SUFFICES ASSUME n + 1 <= Len(s)
                 PROVE  D(n + 1) \in Nat /\ \A m \in 0 .. n + 1 : D(m) \in Nat /\ D(m) <= D(n + 1)
    OBVIOUS
  <2>2. D(n) \in Nat /\ \A m \in 0 .. n : D(m) \in Nat /\ D(m) <= D(n)
    BY <1>1, <1>4, <2>1
  <2>3. n + 1 \in 1 .. Len(s) /\ (n + 1) - 1 = n
    BY <1>1, <2>1
  <2>4. D(n + 1) = D(n) + ticks[s[n + 1]] /\ ticks[s[n + 1]] \in Nat
    BY <1>2, <2>3
  <2>5. D(n + 1) \in Nat /\ D(n) <= D(n + 1)
    BY <2>2, <2>4
  <2>6. ASSUME NEW m \in 0 .. n + 1 PROVE D(m) \in Nat /\ D(m) <= D(n + 1)
    <3>1. CASE m = n + 1
      BY <2>5, <3>1
    <3>2. CASE m \in 0 .. n
      BY <2>2, <2>5, <3>2
    <3> QED BY <3>1, <3>2
  <2> QED BY <2>5, <2>6
<1> HIDE DEF T
<1>5. Nat \subseteq T
  BY <1>3, <1>4, Induct
<1> QED BY <1>1, <1>5 DEF D, T

(* What the list's operators return.                                       *)

LEMMA InsertAtFacts ==
  ASSUME NEW s \in Seq(Timers), NEW i \in 1 .. Len(s) + 1, NEW e \in Timers
  PROVE  /\ InsertAt(s, i, e) \in Seq(Timers)
         /\ Len(InsertAt(s, i, e)) = Len(s) + 1
         /\ \A j \in 1 .. Len(s) + 1 : InsertAt(s, i, e)[j] =
              IF j < i THEN s[j] ELSE IF j = i THEN e ELSE s[j - 1]
<1> DEFINE a == SubSeq(s, 1, i - 1)
           b == SubSeq(s, i, Len(s))
<1>1. Len(s) \in Nat /\ i \in Nat
  OBVIOUS
<1>2. a \in Seq(Timers) /\ Len(a) = i - 1 /\ \A j \in 1 .. i - 1 : a[j] = s[j]
  BY <1>1, SubSeqProperties
<1>3. b \in Seq(Timers) /\ Len(b) = Len(s) - i + 1 /\ \A j \in 1 .. Len(s) - i + 1 : b[j] = s[i + j - 1]
  BY <1>1, SubSeqProperties
<1>4. <<e>> \in Seq(Timers) /\ Len(<<e>>) = 1 /\ <<e>>[1] = e
  OBVIOUS
<1>5. InsertAt(s, i, e) = a \o <<e>> \o b
  BY DEF InsertAt
<1> HIDE DEF a, b
<1>6. /\ a \o <<e>> \in Seq(Timers) /\ Len(a \o <<e>>) = i
      /\ \A j \in 1 .. i : (a \o <<e>>)[j] = IF j < i THEN s[j] ELSE e
  BY <1>1, <1>2, <1>4
<1> DEFINE c == a \o <<e>>
<1> HIDE DEF c
<1>7. c \in Seq(Timers) /\ Len(c) = i /\ \A j \in 1 .. i : c[j] = IF j < i THEN s[j] ELSE e
  BY <1>6 DEF c
<1>8. InsertAt(s, i, e) = c \o b
  BY <1>5 DEF c
<1>9. c \o b \in Seq(Timers) /\ Len(c \o b) = Len(s) + 1
  <2>1. c \o b \in Seq(Timers) /\ Len(c \o b) = Len(c) + Len(b)
    BY <1>3, <1>7, ConcatProperties, Zenon
  <2> QED BY <1>1, <1>3, <1>7, <2>1
<1>10. ASSUME NEW j \in 1 .. Len(s) + 1
       PROVE  (c \o b)[j] = IF j < i THEN s[j] ELSE IF j = i THEN e ELSE s[j - 1]
  <2>1. CASE j <= i
    <3>1. (c \o b)[j] = c[j]
      BY <1>1, <1>3, <1>7, <2>1, ConcatProperties
    <3> QED BY <1>1, <1>7, <2>1, <3>1
  <2>2. CASE j > i
    <3>1. (c \o b)[j] = b[j - i]
      BY <1>1, <1>3, <1>7, <2>2, ConcatProperties
    <3>2. j - i \in 1 .. Len(s) - i + 1 /\ i + (j - i) - 1 = j - 1
      BY <1>1, <2>2
    <3> QED BY <1>1, <1>3, <2>2, <3>1, <3>2
  <2>3. j <= i \/ j > i
    BY <1>1
  <2> QED BY <2>1, <2>2, <2>3, Zenon
<1> QED BY <1>8, <1>9, <1>10

LEMMA RemoveAtFacts ==
  ASSUME NEW s \in Seq(Timers), NEW i \in 1 .. Len(s)
  PROVE  /\ RemoveAt(s, i) \in Seq(Timers)
         /\ Len(RemoveAt(s, i)) = Len(s) - 1
         /\ \A j \in 1 .. Len(s) - 1 : RemoveAt(s, i)[j] = IF j < i THEN s[j] ELSE s[j + 1]
<1> DEFINE a == SubSeq(s, 1, i - 1)
           b == SubSeq(s, i + 1, Len(s))
<1>1. Len(s) \in Nat /\ i \in Nat
  OBVIOUS
<1>2. a \in Seq(Timers) /\ Len(a) = i - 1 /\ \A j \in 1 .. i - 1 : a[j] = s[j]
  BY <1>1, SubSeqProperties
<1>3. b \in Seq(Timers) /\ Len(b) = Len(s) - i /\ \A j \in 1 .. Len(s) - i : b[j] = s[i + j]
  BY <1>1, SubSeqProperties
<1>4. RemoveAt(s, i) = a \o b
  BY DEF RemoveAt
<1> HIDE DEF a, b
<1>5. a \o b \in Seq(Timers) /\ Len(a \o b) = Len(s) - 1
  <2>1. a \o b \in Seq(Timers) /\ Len(a \o b) = Len(a) + Len(b)
    BY <1>2, <1>3, ConcatProperties
  <2>2. (i - 1) + (Len(s) - i) = Len(s) - 1
    BY <1>1
  <2> QED BY <1>2, <1>3, <2>1, <2>2, Zenon
<1>6. ASSUME NEW j \in 1 .. Len(s) - 1
      PROVE  (a \o b)[j] = IF j < i THEN s[j] ELSE s[j + 1]
  <2>1. (a \o b)[j] = IF j <= Len(a) THEN a[j] ELSE b[j - Len(a)]
    BY <1>1, <1>2, <1>3, ConcatProperties
  <2>2. CASE j < i
    <3>1. j \in 1 .. i - 1 /\ j <= Len(a)
      BY <1>1, <1>2, <2>2
    <3> QED BY <1>2, <2>1, <2>2, <3>1
  <2>3. CASE ~(j < i)
    <3>1. /\ ~(j <= Len(a)) /\ j - Len(a) \in 1 .. Len(s) - i
          /\ i + (j - Len(a)) = j + 1
      BY <1>1, <1>2, <2>3
    <3>2. b[j - Len(a)] = s[j + 1]
      BY <1>3, <3>1
    <3> QED BY <2>1, <2>3, <3>1, <3>2
  <2> QED BY <2>2, <2>3
<1> QED BY <1>4, <1>5, <1>6

\* Where timer_list_insert puts a timer, and whose ticks it changes.
PutIn(n, t, ticks) ==
  /\ Len(list') = Len(list) + 1
  /\ \A j \in 1 .. Len(list) + 1 :
       list'[j] = IF j < n + 1 THEN list[j] ELSE IF j = n + 1 THEN t ELSE list[j - 1]
  /\ tte'[t] = ticks - Due(list, tte, n)
  /\ \A i \in 1 .. Len(list) :
       tte'[list[i]] = IF i = n + 1 THEN tte[list[i]] - (ticks - Due(list, tte, n)) ELSE tte[list[i]]

\* timer_list_insert puts a timer into the list once, and no time gets negative.
LEMMA InsertFacts ==
  ASSUME NEW t \in Timers, NEW ticks \in Nat, list \in Seq(Timers), tte \in [Timers -> Nat],
         InsertedOnce, ~Contains(list, t), Insert(t, ticks)
  PROVE  /\ list' \in Seq(Timers) /\ tte' \in [Timers -> Nat] /\ InsertedOnce' /\ list' # <<>>
         /\ \A u : Contains(list', u) <=> u = t \/ Contains(list, u)
         /\ \E n \in 0 .. Len(list) : PutIn(n, t, ticks)
<1> DEFINE D(i) == Due(list, tte, i)
           Before == {i \in DOMAIN list : ticks > D(i)}
           n == IF Before = {} THEN 0 ELSE Max(Before)
           own == ticks - D(n)
<1>1. Len(list) \in Nat /\ DOMAIN list = 1 .. Len(list)
  OBVIOUS
<1>2. /\ \A i \in 0 .. Len(list) : D(i) \in Nat
      /\ \A i \in 1 .. Len(list) : D(i) = D(i - 1) + tte[list[i]]
      /\ D(0) = 0
  BY DueGrows, DueSteps
<1>3. /\ list' = InsertAt(list, n + 1, t)
      /\ tte' = [u \in Timers |->
           CASE u = t -> own
             [] n < Len(list) /\ u # t /\ u = list[n + 1] -> tte[u] - own
             [] OTHER -> tte[u]]
  BY DEF Insert
<1> HIDE DEF D
<1>4. n \in 0 .. Len(list) /\ (n # 0 => ticks > D(n)) /\ (n < Len(list) => ticks <= D(n + 1))
  <2>1. CASE Before = {}
    <3>1. n = 0
      BY <2>1
    <3>2. 0 < Len(list) => ticks <= D(1)
      BY <1>1, <1>2, <2>1
    <3> QED BY <1>1, <3>1, <3>2
  <2>2. CASE Before # {}
    <3>1. Before \in SUBSET Nat /\ \A i \in Before : i <= Len(list)
      BY <1>1
    <3>2. Max(Before) \in Before /\ \A i \in Before : i <= Max(Before)
      <4> HIDE DEF Before
      <4> QED BY <1>1, <2>2, <3>1, Greatest
    <3>3. n \in Before /\ \A i \in Before : i <= n
      BY <2>2, <3>2
    <3>4. n + 1 \notin Before
      <4> HIDE DEF n, Before
      <4>1. n \in Nat /\ ~(n + 1 <= n)
        BY <3>1, <3>3
      <4> QED BY <3>3, <4>1
    <3> HIDE DEF n
    <3> QED BY <1>1, <1>2, <3>3, <3>4
  <2> QED BY <2>1, <2>2
<1> HIDE DEF n, Before
<1>5. own \in Nat
  BY <1>1, <1>2, <1>4
<1>6. n < Len(list) => tte[list[n + 1]] - own \in Nat
  <2>1. SUFFICES ASSUME n < Len(list) PROVE tte[list[n + 1]] - own \in Nat
    OBVIOUS
  <2>2. n + 1 \in 1 .. Len(list) /\ (n + 1) - 1 = n /\ n \in 0 .. Len(list)
    BY <1>1, <1>4, <2>1
  <2>3. D(n + 1) = D(n) + tte[list[n + 1]] /\ ticks <= D(n + 1)
    BY <1>2, <1>4, <2>1, <2>2
  <2>4. list[n + 1] \in Timers /\ tte[list[n + 1]] \in Nat /\ D(n) \in Nat
    BY <1>1, <1>2, <2>2
  <2> QED BY <2>3, <2>4
<1> HIDE DEF own
<1>7. ASSUME NEW u \in Timers
      PROVE  (CASE u = t -> own
                [] n < Len(list) /\ u # t /\ u = list[n + 1] -> tte[u] - own
                [] OTHER -> tte[u]) \in Nat
  <2>1. CASE u = t
    BY <1>5, <2>1
  <2>2. CASE u # t /\ n < Len(list) /\ u = list[n + 1]
    BY <1>6, <2>2
  <2>3. CASE u # t /\ ~(n < Len(list) /\ u = list[n + 1])
    BY <2>3
  <2> QED BY <2>1, <2>2, <2>3
<1>8. tte' \in [Timers -> Nat]
  BY <1>3, <1>7
<1>9. /\ list' \in Seq(Timers) /\ Len(list') = Len(list) + 1
      /\ \A j \in 1 .. Len(list) + 1 :
           list'[j] = IF j < n + 1 THEN list[j] ELSE IF j = n + 1 THEN t ELSE list[j - 1]
  <2>1. n + 1 \in 1 .. Len(list) + 1
    BY <1>1, <1>4
  <2> DEFINE m == n + 1
  <2> HIDE DEF m
  <2>2. m \in 1 .. Len(list) + 1 /\ list' = InsertAt(list, m, t)
    BY <1>3, <2>1 DEF m
  <2>3. /\ list' \in Seq(Timers) /\ Len(list') = Len(list) + 1
        /\ \A j \in 1 .. Len(list) + 1 :
             list'[j] = IF j < m THEN list[j] ELSE IF j = m THEN t ELSE list[j - 1]
    <3> DEFINE r == InsertAt(list, m, t)
    <3>1. /\ r \in Seq(Timers) /\ Len(r) = Len(list) + 1
          /\ \A j \in 1 .. Len(list) + 1 :
               r[j] = IF j < m THEN list[j] ELSE IF j = m THEN t ELSE list[j - 1]
      BY <2>2, InsertAtFacts
    <3>2. list' = r
      BY <2>2
    <3> HIDE DEF r
    <3> QED BY <3>1, <3>2
  <2> QED BY <2>3 DEF m
<1>10. \A i \in 1 .. Len(list) : list[i] # t
  BY DEF Contains
<1>11. ASSUME NEW i \in DOMAIN list', NEW j \in DOMAIN list', list'[i] = list'[j] PROVE i = j
  <2>1. i \in 1 .. Len(list) + 1 /\ j \in 1 .. Len(list) + 1
    <3>1. DOMAIN list' = 1 .. Len(list')
      BY <1>9
    <3> QED BY <1>9, <1>11, <3>1
  <2>2. \A k, m \in 1 .. Len(list) : list[k] = list[m] => k = m
    BY <1>1 DEF InsertedOnce
  <2> DEFINE from(k) == IF k < n + 1 THEN k ELSE k - 1
  <2>3. ASSUME NEW k \in 1 .. Len(list) + 1, k # n + 1
        PROVE  from(k) \in 1 .. Len(list) /\ list'[k] = list[from(k)]
    <3>1. list'[k] = IF k < n + 1 THEN list[k] ELSE list[k - 1]
      BY <1>9, <2>3
    <3>2. from(k) \in 1 .. Len(list)
      BY <1>1, <1>4, <2>3
    <3> QED BY <3>1, <3>2
  <2>4. list'[n + 1] = t
    <3>1. n + 1 \in 1 .. Len(list) + 1 /\ ~(n + 1 < n + 1)
      BY <1>1, <1>4
    <3> QED BY <1>9, <3>1
  <2>5. CASE i # n + 1 /\ j # n + 1
    <3>1. from(i) = from(j)
      <4> HIDE DEF from
      <4>1. /\ from(i) \in 1 .. Len(list) /\ list'[i] = list[from(i)]
            /\ from(j) \in 1 .. Len(list) /\ list'[j] = list[from(j)]
        BY <2>1, <2>3, <2>5
      <4>2. list[from(i)] = list[from(j)]
        BY <1>11, <4>1
      <4> QED BY <2>2, <4>1, <4>2
    <3> QED BY <1>1, <1>4, <2>1, <2>5, <3>1
  <2>6. CASE i = n + 1 \/ j = n + 1
    <3> HIDE DEF from
    <3> QED BY <1>10, <1>11, <2>1, <2>3, <2>4, <2>6
  <2> QED BY <2>5, <2>6
<1>12. ASSUME NEW u PROVE Contains(list', u) <=> u = t \/ Contains(list, u)
  <2>1. ASSUME Contains(list', u) PROVE u = t \/ Contains(list, u)
    <3>1. PICK j \in 1 .. Len(list) + 1 : list'[j] = u
      BY <1>9, <2>1 DEF Contains
    <3>2. CASE j = n + 1
      BY <1>9, <3>1, <3>2
    <3>3. CASE j < n + 1
      <4>1. j \in 1 .. Len(list) /\ list[j] = u
        BY <1>1, <1>4, <1>9, <3>1, <3>3
      <4> QED BY <4>1 DEF Contains
    <3>4. CASE j > n + 1
      <4>1. j - 1 \in 1 .. Len(list) /\ list[j - 1] = u
        BY <1>1, <1>4, <1>9, <3>1, <3>4
      <4> QED BY <4>1 DEF Contains
    <3> QED BY <1>4, <3>1, <3>2, <3>3, <3>4
  <2>2. ASSUME u = t PROVE Contains(list', u)
    <3>1. n + 1 \in 1 .. Len(list')
      BY <1>1, <1>4, <1>9
    <3> QED BY <1>9, <2>2, <3>1 DEF Contains
  <2>3. ASSUME Contains(list, u) PROVE Contains(list', u)
    <3>1. PICK j \in 1 .. Len(list) : list[j] = u
      BY <2>3 DEF Contains
    <3>2. CASE j < n + 1
      <4>1. j \in 1 .. Len(list') /\ list'[j] = u
        <5>1. j \in 1 .. Len(list) + 1 /\ Len(list') = Len(list) + 1
          BY <1>1, <1>9
        <5>2. list'[j] = list[j]
          BY <1>9, <3>2, <5>1
        <5> QED BY <3>1, <5>1, <5>2
      <4> QED BY <4>1 DEF Contains
    <3>3. CASE j >= n + 1
      <4>1. j + 1 \in 1 .. Len(list') /\ list'[j + 1] = u
        BY <1>1, <1>4, <1>9, <3>1, <3>3
      <4> QED BY <4>1 DEF Contains
    <3> QED BY <1>1, <1>4, <3>1, <3>2, <3>3
  <2> QED BY <2>1, <2>2, <2>3
<1>13. list' # <<>>
  BY <1>1, <1>9
<1>14. ASSUME NEW i \in 1 .. Len(list)
       PROVE  tte'[list[i]] = IF i = n + 1 THEN tte[list[i]] - own ELSE tte[list[i]]
  <2>1. list[i] \in Timers /\ list[i] # t
    BY <1>1, <1>10
  <2>2. CASE i = n + 1
    <3>1. n < Len(list)
      BY <1>1, <1>4, <2>2
    <3> QED BY <1>3, <2>1, <2>2, <3>1
  <2>3. CASE i # n + 1
    <3>1. ASSUME n < Len(list) PROVE list[i] # list[n + 1]
      <4>1. n + 1 \in 1 .. Len(list)
        BY <1>1, <1>4, <3>1
      <4> QED BY <1>1, <2>3, <4>1 DEF InsertedOnce
    <3> QED BY <1>3, <2>1, <2>3, <3>1
  <2> QED BY <2>2, <2>3
<1>15. own = ticks - Due(list, tte, n) /\ tte'[t] = own
  BY <1>3 DEF own, D
<1>16. PutIn(n, t, ticks)
  BY <1>9, <1>14, <1>15 DEF PutIn
<1> QED BY <1>4, <1>8, <1>9, <1>11, <1>12, <1>13, <1>16 DEF InsertedOnce

\* What timer_list_remove leaves: the next timer takes over the ticks.
TakenOut(n, t) ==
  /\ list[n] = t
  /\ Len(list') = Len(list) - 1
  /\ \A j \in 1 .. Len(list) - 1 : list'[j] = IF j < n THEN list[j] ELSE list[j + 1]
  /\ \A i \in 1 .. Len(list) : i # n =>
       tte'[list[i]] = IF i = n + 1 THEN tte[list[i]] + tte[t] ELSE tte[list[i]]

\* timer_list_remove takes it out.
LEMMA UnlinkFacts ==
  ASSUME NEW t \in Timers, list \in Seq(Timers), tte \in [Timers -> Nat],
         InsertedOnce, Contains(list, t), Unlink(t)
  PROVE  /\ list' \in Seq(Timers) /\ tte' \in [Timers -> Nat] /\ InsertedOnce'
         /\ \A u : Contains(list', u) <=> u # t /\ Contains(list, u)
         /\ \E n \in 1 .. Len(list) : TakenOut(n, t)
<1> DEFINE n == CHOOSE i \in DOMAIN list : list[i] = t
<1>1. Len(list) \in Nat /\ DOMAIN list = 1 .. Len(list)
  OBVIOUS
<1>2. n \in 1 .. Len(list) /\ list[n] = t
  BY <1>1 DEF Contains
<1>3. /\ list' = RemoveAt(list, n)
      /\ tte' = [u \in Timers |->
           CASE u = t -> 0
             [] n < Len(list) /\ u # t /\ u = list[n + 1] -> tte[u] + tte[t]
             [] OTHER -> tte[u]]
  BY DEF Unlink
<1> HIDE DEF n
<1>4. \A u \in Timers : (CASE u = t -> 0
             [] n < Len(list) /\ u # t /\ u = list[n + 1] -> tte[u] + tte[t]
             [] OTHER -> tte[u]) \in Nat
  OBVIOUS
<1>5. tte' \in [Timers -> Nat]
  BY <1>3, <1>4
<1>6. /\ list' \in Seq(Timers) /\ Len(list') = Len(list) - 1
      /\ \A j \in 1 .. Len(list) - 1 : list'[j] = IF j < n THEN list[j] ELSE list[j + 1]
  BY <1>2, <1>3, RemoveAtFacts
<1>7. \A k, m \in 1 .. Len(list) : list[k] = list[m] => k = m
  BY <1>1 DEF InsertedOnce
<1>8. ASSUME NEW i \in DOMAIN list', NEW j \in DOMAIN list', list'[i] = list'[j] PROVE i = j
  <2>1. i \in 1 .. Len(list) - 1 /\ j \in 1 .. Len(list) - 1
    <3>1. DOMAIN list' = 1 .. Len(list')
      BY <1>6
    <3> QED BY <1>6, <1>8, <3>1
  <2> DEFINE from(k) == IF k < n THEN k ELSE k + 1
  <2>2. ASSUME NEW k \in 1 .. Len(list) - 1
        PROVE  from(k) \in 1 .. Len(list) /\ list'[k] = list[from(k)]
    <3>1. list'[k] = IF k < n THEN list[k] ELSE list[k + 1]
      BY <1>6
    <3>2. from(k) \in 1 .. Len(list)
      BY <1>1
    <3> QED BY <3>1, <3>2
  <2>3. from(i) = from(j)
    <3> HIDE DEF from
    <3> QED BY <1>7, <1>8, <2>1, <2>2
  <2> QED BY <1>1, <1>2, <2>1, <2>3
<1>9. ASSUME NEW u PROVE Contains(list', u) <=> u # t /\ Contains(list, u)
  <2>1. ASSUME Contains(list', u) PROVE u # t /\ Contains(list, u)
    <3>1. PICK j \in 1 .. Len(list) - 1 : list'[j] = u
      BY <1>1, <1>6, <2>1 DEF Contains
    <3>2. \E k \in 1 .. Len(list) : list[k] = u /\ k # n
      <4>1. CASE j < n
        <5>1. j \in 1 .. Len(list) /\ j # n
          BY <1>1, <1>2, <4>1
        <5>2. list[j] = u
          BY <1>6, <3>1, <4>1, Zenon
        <5> QED BY <5>1, <5>2
      <4>2. CASE ~(j < n)
        <5>1. j + 1 \in 1 .. Len(list) /\ j + 1 # n
          BY <1>1, <1>2, <4>2
        <5>2. list[j + 1] = u
          BY <1>6, <3>1, <4>2, Zenon
        <5> QED BY <5>1, <5>2
      <4> QED BY <4>1, <4>2
    <3> QED BY <1>2, <1>7, <3>2 DEF Contains
  <2>2. ASSUME u # t, Contains(list, u) PROVE Contains(list', u)
    <3>1. PICK j \in 1 .. Len(list) : list[j] = u /\ j # n
      BY <1>2, <2>2 DEF Contains
    <3>2. CASE j < n
      <4>1. j \in 1 .. Len(list') /\ list'[j] = u
        <5>1. j \in 1 .. Len(list) - 1
          BY <1>1, <1>2, <3>2
        <5>2. list'[j] = list[j]
          BY <1>6, <3>2, <5>1
        <5> QED BY <1>6, <3>1, <5>1, <5>2
      <4> QED BY <4>1 DEF Contains
    <3>3. CASE j > n
      <4>1. j - 1 \in 1 .. Len(list') /\ list'[j - 1] = u
        <5>1. j - 1 \in 1 .. Len(list) - 1 /\ ~(j - 1 < n) /\ (j - 1) + 1 = j
          BY <1>1, <1>2, <3>3
        <5>2. list'[j - 1] = list[j]
          BY <1>6, <5>1
        <5> QED BY <1>6, <3>1, <5>1, <5>2
      <4> QED BY <4>1 DEF Contains
    <3> QED BY <1>1, <1>2, <3>1, <3>2, <3>3
  <2> QED BY <2>1, <2>2
<1>10. ASSUME NEW i \in 1 .. Len(list), i # n
       PROVE  tte'[list[i]] = IF i = n + 1 THEN tte[list[i]] + tte[t] ELSE tte[list[i]]
  <2>1. list[i] \in Timers /\ list[i] # t
    BY <1>1, <1>2, <1>7, <1>10
  <2>2. CASE i = n + 1
    <3>1. n < Len(list)
      BY <1>1, <1>2, <2>2
    <3> QED BY <1>3, <2>1, <2>2, <3>1
  <2>3. CASE i # n + 1
    <3>1. ASSUME n < Len(list) PROVE list[i] # list[n + 1]
      <4>1. n + 1 \in 1 .. Len(list)
        BY <1>1, <1>2, <3>1
      <4> QED BY <1>7, <2>3, <4>1
    <3> QED BY <1>3, <2>1, <2>3, <3>1
  <2> QED BY <2>2, <2>3
<1>11. TakenOut(n, t)
  BY <1>2, <1>6, <1>10 DEF TakenOut
<1> QED BY <1>2, <1>5, <1>6, <1>8, <1>9, <1>11 DEF InsertedOnce

ChosenOf(f, s, n) ==
  f = [i \in 0 .. n |->
        IF i = 0 THEN <<>> ELSE IF period[s[i]] # 0 THEN <<s[i]>> \o f[i - 1] ELSE f[i - 1]]

LEMMA ChosenExists ==
  ASSUME NEW s, NEW n \in Nat
  PROVE  \E f : ChosenOf(f, s, n)
<1> DEFINE T == {k \in Nat : \E f : ChosenOf(f, s, k)}
           Step(i, r) == IF period[s[i]] # 0 THEN <<s[i]>> \o r ELSE r
<1>1. 0 \in T
  <2> DEFINE f == [i \in 0 .. 0 |-> <<>>]
  <2>1. f = [i \in 0 .. 0 |->
              IF i = 0 THEN <<>> ELSE IF period[s[i]] # 0 THEN <<s[i]>> \o f[i - 1] ELSE f[i - 1]]
    OBVIOUS
  <2>2. ChosenOf(f, s, 0)
    BY <2>1 DEF ChosenOf
  <2> QED BY <2>2
<1>2. ASSUME NEW k \in Nat, k \in T PROVE k + 1 \in T
  <2>1. PICK f : ChosenOf(f, s, k)
    BY <1>2
  <2> DEFINE h == [i \in 0 .. k + 1 |-> IF i = k + 1 THEN Step(k + 1, f[k]) ELSE f[i]]
  <2>2. f = [i \in 0 .. k |-> IF i = 0 THEN <<>> ELSE Step(i, f[i - 1])]
    BY <2>1 DEF ChosenOf
  <2>3. ASSUME NEW i \in 0 .. k + 1 PROVE h[i] = IF i = 0 THEN <<>> ELSE Step(i, h[i - 1])
    <3> HIDE DEF Step
    <3>1. CASE i = k + 1
      BY <3>1
    <3>2. CASE i \in 0 .. k
      <4>1. f[i] = IF i = 0 THEN <<>> ELSE Step(i, f[i - 1])
        BY <2>2, <3>2
      <4>2. h[i] = f[i] /\ (i # 0 => h[i - 1] = f[i - 1])
        BY <3>2
      <4> QED BY <4>1, <4>2
    <3> QED BY <3>1, <3>2
  <2>4. h = [i \in 0 .. k + 1 |-> IF i = 0 THEN <<>> ELSE Step(i, h[i - 1])]
    <3>1. h = [i \in 0 .. k + 1 |-> h[i]]
      <4> HIDE DEF Step
      <4> QED OBVIOUS
    <3> HIDE DEF h, Step
    <3> QED BY <2>3, <3>1
  <2> HIDE DEF h
  <2>5. ChosenOf(h, s, k + 1)
    BY <2>4 DEF ChosenOf
  <2> QED BY <2>5
<1> HIDE DEF T
<1>3. Nat \subseteq T
  BY <1>1, <1>2, Induct
<1> QED BY <1>3 DEF T

LEMMA RepeatingSteps ==
  ASSUME NEW s \in Seq(Timers)
  PROVE  /\ Repeating(s, 0) = <<>>
         /\ \A n \in 1 .. Len(s) : Repeating(s, n) =
              IF period[s[n]] # 0 THEN <<s[n]>> \o Repeating(s, n - 1) ELSE Repeating(s, n - 1)
<1> DEFINE chosen == CHOOSE f : ChosenOf(f, s, Len(s))
<1>1. Len(s) \in Nat
  OBVIOUS
<1>2. ChosenOf(chosen, s, Len(s))
  BY <1>1, ChosenExists, Zenon
<1>3. \A n : Repeating(s, n) = chosen[n]
  BY DEF Repeating, ChosenOf
<1> HIDE DEF chosen
<1>4. \A i \in 0 .. Len(s) : chosen[i] =
        IF i = 0 THEN <<>> ELSE IF period[s[i]] # 0 THEN <<s[i]>> \o chosen[i - 1] ELSE chosen[i - 1]
  BY <1>2 DEF ChosenOf
<1>5. ASSUME NEW n \in 1 .. Len(s)
      PROVE  chosen[n] = IF period[s[n]] # 0 THEN <<s[n]>> \o chosen[n - 1] ELSE chosen[n - 1]
  <2>1. n \in 0 .. Len(s) /\ n # 0
    BY <1>1
  <2> QED BY <1>4, <2>1, Zenon
<1>6. chosen[0] = <<>>
  <2>1. 0 \in 0 .. Len(s)
    BY <1>1
  <2> QED BY <1>4, <2>1, Zenon
<1> QED BY <1>3, <1>5, <1>6, Zenon

\* The repeated timers among the first of a list without duplicates: each once.
LEMMA RepeatingFacts ==
  ASSUME NEW s \in Seq(Timers), \A i, j \in DOMAIN s : s[i] = s[j] => i = j
  PROVE  \A n \in 0 .. Len(s) :
           /\ Repeating(s, n) \in Seq(Timers)
           /\ \A i \in DOMAIN Repeating(s, n) : \E k \in 1 .. n : Repeating(s, n)[i] = s[k]
           /\ \A i, j \in DOMAIN Repeating(s, n) : Repeating(s, n)[i] = Repeating(s, n)[j] => i = j
<1> DEFINE R(n) == Repeating(s, n)
           Good(r, n) == /\ r \in Seq(Timers)
                         /\ \A i \in DOMAIN r : \E k \in 1 .. n : r[i] = s[k]
                         /\ \A i, j \in DOMAIN r : r[i] = r[j] => i = j
           T == {n \in Nat : n <= Len(s) => Good(R(n), n)}
<1>1. Len(s) \in Nat /\ DOMAIN s = 1 .. Len(s)
  OBVIOUS
<1>2. /\ R(0) = <<>>
      /\ \A n \in 1 .. Len(s) : R(n) = IF period[s[n]] # 0 THEN <<s[n]>> \o R(n - 1) ELSE R(n - 1)
  BY RepeatingSteps
<1> HIDE DEF R
<1>3. 0 \in T
  <2>1. Good(<<>>, 0)
    OBVIOUS
  <2> QED BY <1>2, <2>1
<1>4. ASSUME NEW n \in Nat, n \in T PROVE n + 1 \in T
  <2>1. SUFFICES ASSUME n + 1 <= Len(s) PROVE Good(R(n + 1), n + 1)
    <3> HIDE DEF Good
    <3> QED OBVIOUS
  <2>2. Good(R(n), n)
    BY <1>1, <1>4, <2>1
  <2>3. n + 1 \in 1 .. Len(s) /\ (n + 1) - 1 = n
    BY <1>1, <2>1
  <2>4. CASE period[s[n + 1]] # 0
    <3> DEFINE e == s[n + 1]
               q == R(n)
               r == <<e>> \o q
    <3>1. R(n + 1) = r
      BY <1>2, <2>3, <2>4
    <3>2. q \in Seq(Timers) /\ e \in Timers /\ Len(q) \in Nat /\ DOMAIN q = 1 .. Len(q)
      BY <1>1, <2>2, <2>3
    <3>3. \A i \in 1 .. Len(q) : \E k \in 1 .. n : q[i] = s[k]
      BY <2>2, <3>2
    <3>4. \A i, j \in 1 .. Len(q) : q[i] = q[j] => i = j
      BY <2>2, <3>2
    <3>5. \A k \in 1 .. n : s[k] # e
      <4>1. \A k \in 1 .. n : k \in DOMAIN s /\ n + 1 \in DOMAIN s /\ k # n + 1
        BY <1>1, <2>3
      <4> QED BY <4>1
    <3> HIDE DEF e, q
    <3>6. /\ r \in Seq(Timers) /\ Len(r) = Len(q) + 1
          /\ r[1] = e /\ \A i \in 2 .. Len(q) + 1 : r[i] = q[i - 1] /\ i - 1 \in 1 .. Len(q)
      <4>1. <<e>> \in Seq(Timers) /\ Len(<<e>>) = 1 /\ <<e>>[1] = e
        BY <3>2
      <4> QED BY <3>2, <4>1
    <3> HIDE DEF r
    <3>7. DOMAIN r = 1 .. Len(q) + 1
      BY <3>2, <3>6
    <3>8. ASSUME NEW i \in DOMAIN r PROVE \E k \in 1 .. n + 1 : r[i] = s[k]
      <4>1. CASE i = 1
        BY <3>6, <4>1 DEF e
      <4>2. CASE i \in 2 .. Len(q) + 1
        BY <3>3, <3>6, <4>2
      <4> QED BY <3>2, <3>7, <4>1, <4>2
    <3>9. ASSUME NEW i \in DOMAIN r, NEW j \in DOMAIN r, r[i] = r[j] PROVE i = j
      <4>1. \A k \in 1 .. Len(q) : q[k] # e
        BY <3>3, <3>5
      <4>2. \A k \in 2 .. Len(q) + 1 : r[k] # r[1]
        BY <3>6, <4>1
      <4>3. CASE i = 1 \/ j = 1
        BY <3>2, <3>7, <3>9, <4>2, <4>3
      <4>4. CASE i # 1 /\ j # 1
        <5>1. i \in 2 .. Len(q) + 1 /\ j \in 2 .. Len(q) + 1
          BY <3>2, <3>7, <4>4
        <5>2. q[i - 1] = q[j - 1] /\ i - 1 \in 1 .. Len(q) /\ j - 1 \in 1 .. Len(q)
          BY <3>6, <3>9, <5>1
        <5>3. i - 1 = j - 1
          BY <3>4, <5>2
        <5> QED BY <5>1, <5>3
      <4> QED BY <4>3, <4>4
    <3> QED BY <3>1, <3>6, <3>8, <3>9
  <2>5. CASE ~(period[s[n + 1]] # 0)
    <3>1. R(n + 1) = R(n)
      BY <1>2, <2>3, <2>5
    <3> QED BY <2>2, <3>1
  <2> QED BY <2>4, <2>5
<1> HIDE DEF T
<1>5. Nat \subseteq T
  BY <1>3, <1>4, Induct
<1>6. ASSUME NEW n \in 0 .. Len(s) PROVE Good(R(n), n)
  <2> HIDE DEF Good
  <2> QED BY <1>1, <1>5 DEF T
<1> QED BY <1>6 DEF R

(* The invariant.                                                          *)

Starts(o, t) == o.type = "start" /\ o.timer = t
Stops(o, t) == o.type = "stop" /\ o.timer = t

Ops == [type : {"start", "stop", "stopall"}, timer : Timers \cup {None},
        at : 0 .. Wrap - 1, ticks : Intervals \cup {0}, age : Nat]

Walks == [at : {"expire", "handler"}, walk : Seq(Timers), ticks : Nat, expired : Nat,
          timer : Timers \cup {None}]
Inserts == [at : {"insert"}, restart : Seq(Timers),
            since : UNION {[T -> 0 .. Wrap - 1] : T \in SUBSET Timers},
            update : BOOLEAN, head : Timers \cup {None}]
Compares == [at : {"set", "check"}, pre : 0 .. Wrap - 1, cc : 0 .. Wrap - 1]
Jobs == [at : {"idle", "other", "compare", "clear"}] \cup Walks \cup Inserts \cup Compares

OpInv(o) ==
  /\ o.type \in {"start", "stop"} => o.timer \in Timers
  /\ o.type = "start" => o.ticks \in Intervals

TypeInv ==
  /\ AppTimerTypeOK
  /\ ops \in Seq(Ops)
  /\ \A i \in DOMAIN ops : OpInv(ops[i])
  /\ job \in Jobs

\* A timer is in the list or waits to be put back, and once.
ListInv ==
  /\ InsertedOnce
  /\ At("insert") =>
       /\ IsInjective(job.restart)
       /\ \A i \in DOMAIN job.restart :
            /\ ~Contains(list, job.restart[i])
            /\ job.restart[i] \in DOMAIN job.since

InService == job.at \in {"expire", "handler"}

\* How many timers of the list the interrupt of RTC1 has found expired.
Walked == Len(list) - Len(job.walk)

WalkInv ==
  /\ InService =>
       /\ Walked \in 0 .. Len(list)
       /\ job.walk = SubSeq(list, Walked + 1, Len(list))
       /\ job.expired = Due(list, tte, Walked)
       /\ elapsed # NoTicks /\ Intact => elapsed <= job.ticks + job.expired
  /\ job.at \in {"insert", "compare", "set", "check", "clear"} => elapsed = NoTicks

\* The i-th timer of the list was found expired, and SWI0 is going to take it out.
Gone(i) ==
  \/ elapsed # NoTicks /\ Due(list, tte, i) <= elapsed
  \/ InService /\ i <= Walked

Waiting(t) == \E i \in DOMAIN list : list[i] = t /\ ~Gone(i)

\* A call of app_timer_stop is on its way to the list, or found the queue full.
Held(t) ==
  \/ stopped[t] = "failed"
  \/ t \in {stopping[1], stopping[2]}
  \/ \E i \in DOMAIN ops : Stops(ops[i], t)

\* A timer of the list that is marked as not running is about to leave it, and
\* does so before it is started.
MarkInv ==
  /\ Intact => \A t \in Timers : Waiting(t) /\ ~isRunning[t] => Held(t)
  /\ \A t \in Timers, j \in DOMAIN ops :
       Starts(ops[j], t) /\ Waiting(t) /\ ~isRunning[t] => \E i \in 1 .. j - 1 : Stops(ops[i], t)
  /\ stopping[2] # None => job.at \in {"handler", "other"} /\ ~isRunning[stopping[2]]

\* The stop of t is in the queue, with no start of it behind.
StopAhead(t) ==
  \E i \in DOMAIN ops : Stops(ops[i], t) /\ \A j \in i + 1 .. Len(ops) : ~Starts(ops[j], t)

\* Nothing is left of t.
Out(t) ==
  /\ ~Contains(list, t) /\ ~isRunning[t]
  /\ At("insert") => ~Contains(job.restart, t)
NoStart(t) == \A j \in DOMAIN ops : ~Starts(ops[j], t)
Still(t) == Out(t) /\ NoStart(t)

SilenceInv ==
  \A t \in Timers : stopped[t] = "yes" =>
    /\ StopAhead(t) \/ Still(t)
    /\ ~At("insert") => ~isRunning[t]

\* RTC1 runs for the timers of the list, but for the changes just being made.
RunsInv ==
  /\ job.at \in {"idle", "other", "expire", "handler"} => (rtcOn <=> list # <<>>)
  /\ At("insert") /\ ~job.update => (rtcOn <=> job.head # None)
  /\ job.at \in {"set", "check"} => rtcOn /\ list # <<>>
  /\ At("clear") => ~rtcOn /\ list = <<>>

TimerInv == TypeInv /\ ListInv /\ WalkInv /\ MarkInv /\ SilenceInv /\ RunsInv

-----------------------------------------------------------------------------
(* Types.                                                                  *)

LEMMA SmallNumbers ==
  /\ \A n \in Intervals \cup {0} : n \in Nat
  /\ 0 \in 0 .. Wrap - 1
  /\ None \notin Timers
<1>1. Intervals \subseteq Nat \ {0} /\ Wrap \in Nat \ {0, 1} /\ None \notin Timers
  BY AppTimerAssumption, Zenon
<1> QED BY <1>1

LEMMA ModRange ==
  ASSUME NEW a \in Int
  PROVE  a % Wrap \in 0 .. Wrap - 1
BY AppTimerAssumption

LEMMA DiffRange ==
  ASSUME NEW a \in 0 .. Wrap - 1, NEW b \in 0 .. Wrap - 1
  PROVE  Diff(a, b) \in 0 .. Wrap - 1
<1>1. a - b \in Int
  OBVIOUS
<1> QED BY <1>1, ModRange DEF Diff

LEMMA ToExpireIsNat ==
  ASSUME NEW at \in 0 .. Wrap - 1, NEW ticks \in Nat, latest \in 0 .. Wrap - 1
  PROVE  ToExpire(at, ticks) \in Nat
<1>1. Diff(at, latest) \in Nat /\ Diff(latest, at) \in Nat
  <2>1. \A n \in 0 .. Wrap - 1 : n \in Nat
    BY AppTimerAssumption
  <2> QED BY <2>1, DiffRange
<1> DEFINE a == Diff(at, latest)
           b == Diff(latest, at)
<1>2. ToExpire(at, ticks) = IF a < (Wrap - 1) \div 2 THEN a + ticks
                            ELSE IF ticks > b THEN ticks - b ELSE 0
  BY DEF ToExpire
<1>3. a \in Nat /\ b \in Nat
  BY <1>1
<1> HIDE DEF a, b
<1> QED BY <1>2, <1>3

\* What level 2 is doing says which variables of its own it has.
LEMMA JobKinds ==
  ASSUME job \in Jobs
  PROVE  /\ InService => job \in Walks
         /\ At("insert") => job \in Inserts
         /\ job.at \in {"set", "check"} => job \in Compares
         /\ job.at \in {"idle", "other", "compare", "clear", "expire", "handler", "insert", "set", "check"}
BY DEF Jobs, Walks, Inserts, Compares, InService, At

LEMMA IdleIsJob == Idle \in Jobs
BY DEF Idle, Jobs

\* app_timer_start and app_timer_stop put one operation behind the others.
LEMMA EnqueueFacts ==
  ASSUME ops \in Seq(Ops), \A i \in DOMAIN ops : OpInv(ops[i]), Len(ops) <= QueueSize,
         NEW o \in Ops, OpInv(o), Enqueue(o)
  PROVE  /\ ops' \in Seq(Ops) /\ \A i \in DOMAIN ops' : OpInv(ops'[i])
         /\ Len(ops') <= QueueSize
         /\ Len(ops') = Len(ops) + 1 /\ ops'[Len(ops) + 1] = o
         /\ \A i \in DOMAIN ops : ops'[i] = ops[i]
         /\ swi' = TRUE
<1>1. Len(ops) \in Nat /\ DOMAIN ops = 1 .. Len(ops) /\ QueueSize \in Nat
  BY AppTimerAssumption
<1>2. ops' = Append(ops, o) /\ Len(ops) < QueueSize /\ swi' = TRUE
  BY DEF Enqueue
<1>3. ops' \in Seq(Ops) /\ Len(ops') = Len(ops) + 1 /\ ops'[Len(ops) + 1] = o
      /\ \A i \in 1 .. Len(ops) : ops'[i] = ops[i]
  BY <1>2
<1>4. \A i \in DOMAIN ops' : OpInv(ops'[i])
  <2>1. DOMAIN ops' = 1 .. Len(ops) + 1
    BY <1>3
  <2> HIDE DEF OpInv
  <2> QED BY <1>1, <1>3, <2>1
<1> QED BY <1>1, <1>2, <1>3, <1>4

\* The handler of SWI0 takes the first operation.
LEMMA DequeueFacts ==
  ASSUME ops \in Seq(Ops), \A i \in DOMAIN ops : OpInv(ops[i]), Len(ops) <= QueueSize,
         NEW type, Applying(type)
  PROVE  /\ ops' \in Seq(Ops) /\ \A i \in DOMAIN ops' : OpInv(ops'[i])
         /\ Len(ops') <= QueueSize
         /\ Len(ops) \in Nat /\ Len(ops) >= 1 /\ Len(ops') = Len(ops) - 1
         /\ \A i \in 1 .. Len(ops) - 1 : ops'[i] = ops[i + 1]
         /\ Head(ops) = ops[1] /\ ops[1].type = type /\ ops[1] \in Ops /\ OpInv(ops[1])
         /\ At("insert") /\ job.restart = <<>>
<1>1. /\ At("insert") /\ job.restart = <<>>
      /\ ops # <<>> /\ Head(ops).type = type /\ ops' = Tail(ops)
  BY DEF Applying
<1>2. Len(ops) \in Nat /\ DOMAIN ops = 1 .. Len(ops) /\ QueueSize \in Nat
  BY AppTimerAssumption
<1>3. /\ Len(ops) >= 1 /\ Head(ops) = ops[1] /\ ops[1] \in Ops
      /\ ops' \in Seq(Ops) /\ Len(ops') = Len(ops) - 1
      /\ \A i \in 1 .. Len(ops) - 1 : ops'[i] = ops[i + 1]
  BY <1>1, <1>2
<1>4. OpInv(ops[1]) /\ \A i \in DOMAIN ops' : OpInv(ops'[i])
  <2>1. DOMAIN ops' = 1 .. Len(ops) - 1
    BY <1>3
  <2> HIDE DEF OpInv
  <2> QED BY <1>2, <1>3, <2>1
<1> QED BY <1>1, <1>2, <1>3, <1>4

-----------------------------------------------------------------------------
(* The steps, one by one: types.                                           *)

LEMMA TickTypes ==
  ASSUME TypeInv, Tick
  PROVE  TypeInv'
<1>1. counter' \in 0 .. Wrap - 1 /\ event' \in BOOLEAN /\ skip' \in BOOLEAN
  <2>1. (counter + 1) % Wrap \in 0 .. Wrap - 1
    <3>1. counter + 1 \in Int
      BY AppTimerAssumption DEF TypeInv, AppTimerTypeOK
    <3> QED BY <3>1, ModRange
  <2>2. CASE rtcOn
    <3>1. counter' = (counter + 1) % Wrap
      BY <2>2 DEF Tick
    <3>2. event' \in BOOLEAN /\ skip' \in BOOLEAN
      BY <2>2 DEF Tick, TypeInv, AppTimerTypeOK
    <3> QED BY <2>1, <3>1, <3>2
  <2>3. CASE ~rtcOn
    BY <2>3 DEF Tick, TypeInv, AppTimerTypeOK
  <2> QED BY <2>2, <2>3
<1>2. busy' \in 0 .. MaxBusy
  BY AppTimerAssumption DEF Tick, TypeInv, AppTimerTypeOK
<1>3. left' \in [Timers -> Int]
  BY DEF Tick, TypeInv, AppTimerTypeOK
<1>4. /\ ops' \in Seq(Ops) /\ Len(ops') = Len(ops)
      /\ \A i \in DOMAIN ops' : OpInv(ops'[i])
  <2>1. /\ Len(ops) \in Nat /\ DOMAIN ops = 1 .. Len(ops)
        /\ ops' = [i \in 1 .. Len(ops) |-> [ops[i] EXCEPT !.age = @ + 1]]
        /\ \A i \in 1 .. Len(ops) : ops[i] \in Ops /\ OpInv(ops[i])
    BY DEF Tick, TypeInv
  <2>2. ASSUME NEW i \in 1 .. Len(ops)
        PROVE  [ops[i] EXCEPT !.age = @ + 1] \in Ops /\ OpInv([ops[i] EXCEPT !.age = @ + 1])
    <3>1. ops[i] \in Ops /\ OpInv(ops[i])
      BY <2>1
    <3> QED BY <3>1 DEF Ops, OpInv
  <2> QED BY <2>1, <2>2, IsASeq
<1>5. UNCHANGED <<rtcOn, cc, forced, swi, nodes, latest, elapsed, rtcReset, job, stopping, stopped, calls, disturbed>>
  BY DEF Tick
<1> QED BY <1>1, <1>2, <1>3, <1>4, <1>5 DEF TypeInv, AppTimerTypeOK, nodes

LEMMA CallTypes ==
  ASSUME TypeInv,
         \/ \E level \in 1 .. 3, t \in Timers, ticks \in Intervals : Start(level, t, ticks)
         \/ \E level \in 1 .. 3 : StopAll(level)
         \/ \E level \in 1 .. 2, t \in Timers : StopBegin(level, t)
         \/ \E level \in 1 .. 2 : StopEnd(level)
         \/ \E t \in Timers : StopAbove(t)
  PROVE  TypeInv'
<1>1. /\ ops \in Seq(Ops) /\ Len(ops) <= QueueSize
      /\ \A i \in DOMAIN ops : OpInv(ops[i])
  BY DEF TypeInv, AppTimerTypeOK
<1>2. ASSUME Count PROVE calls' \in 0 .. MaxCalls
  BY <1>2, AppTimerAssumption DEF Count, TypeInv, AppTimerTypeOK
<1>3. \A t \in Timers : StopOp(t) \in Ops /\ OpInv(StopOp(t))
  BY AppTimerAssumption DEF StopOp, Ops, OpInv
<1>4. ASSUME NEW level \in 1 .. 3, NEW t \in Timers, NEW ticks \in Intervals, Start(level, t, ticks)
      PROVE  TypeInv'
  <2> DEFINE o == [type |-> "start", timer |-> t, at |-> counter, ticks |-> ticks, age |-> 0]
  <2>1. o \in Ops /\ OpInv(o)
    BY DEF Ops, OpInv, TypeInv, AppTimerTypeOK
  <2>2. Enqueue(o) /\ Count /\ stopped' = [stopped EXCEPT ![t] = "no"]
    BY <1>4 DEF Start
  <2> HIDE DEF o
  <2>3. /\ ops' \in Seq(Ops) /\ \A i \in DOMAIN ops' : OpInv(ops'[i])
        /\ Len(ops') <= QueueSize /\ swi' = TRUE
    BY <1>1, <2>1, <2>2, EnqueueFacts
  <2>4. disturbed' \in BOOLEAN
    BY <1>4 DEF Start
  <2>5. UNCHANGED <<rtc, nodes, latest, elapsed, rtcReset, job, stopping, left, busy>>
    BY <1>4 DEF Start
  <2> QED BY <1>2, <2>2, <2>3, <2>4, <2>5 DEF TypeInv, AppTimerTypeOK, rtc, nodes
<1>5. ASSUME NEW level \in 1 .. 3, StopAll(level) PROVE TypeInv'
  <2> DEFINE o == [type |-> "stopall", timer |-> None, at |-> 0, ticks |-> 0, age |-> 0]
  <2>1. o \in Ops /\ OpInv(o)
    BY AppTimerAssumption DEF Ops, OpInv
  <2>2. Enqueue(o) /\ Count
    BY <1>5 DEF StopAll
  <2> HIDE DEF o
  <2>3. /\ ops' \in Seq(Ops) /\ \A i \in DOMAIN ops' : OpInv(ops'[i])
        /\ Len(ops') <= QueueSize /\ swi' = TRUE
    BY <1>1, <2>1, <2>2, EnqueueFacts
  <2>4. UNCHANGED <<rtc, nodes, latest, elapsed, rtcReset, job, stopping, left, stopped, busy, disturbed>>
    BY <1>5 DEF StopAll
  <2> QED BY <1>2, <2>2, <2>3, <2>4 DEF TypeInv, AppTimerTypeOK, rtc, nodes
<1>6. ASSUME NEW level \in 1 .. 2, NEW t \in Timers, StopBegin(level, t) PROVE TypeInv'
  <2>1. Count /\ isRunning' = [isRunning EXCEPT ![t] = FALSE]
        /\ stopping' = [stopping EXCEPT ![level] = t]
        /\ UNCHANGED <<rtc, swi, list, tte, period, latest, elapsed, rtcReset, ops, job, left,
                 stopped, busy, disturbed>>
    BY <1>6 DEF StopBegin
  <2> QED BY <1>2, <2>1 DEF TypeInv, AppTimerTypeOK, rtc
<1>7. ASSUME NEW level \in 1 .. 2, StopEnd(level) PROVE TypeInv'
  <2>1. stopping[level] \in Timers /\ stopping' = [stopping EXCEPT ![level] = None]
        /\ UNCHANGED <<rtc, nodes, latest, elapsed, rtcReset, job, left, busy, calls, disturbed>>
    BY <1>7 DEF StopEnd, TypeInv, AppTimerTypeOK
  <2>2. CASE Enqueue(StopOp(stopping[level]))
             /\ stopped' = [stopped EXCEPT ![stopping[level]] = IF level = 1 THEN "no" ELSE "yes"]
    <3>1. /\ ops' \in Seq(Ops) /\ \A i \in DOMAIN ops' : OpInv(ops'[i])
          /\ Len(ops') <= QueueSize /\ swi' = TRUE
      BY <1>1, <1>3, <2>1, <2>2, EnqueueFacts
    <3> QED BY <2>1, <2>2, <3>1 DEF TypeInv, AppTimerTypeOK, rtc, nodes
  <2>3. CASE stopped' = [stopped EXCEPT ![stopping[level]] = "failed"] /\ UNCHANGED <<ops, swi>>
    BY <2>1, <2>3 DEF TypeInv, AppTimerTypeOK, rtc, nodes
  <2> QED BY <1>7, <2>2, <2>3 DEF StopEnd
<1>8. ASSUME NEW t \in Timers, StopAbove(t) PROVE TypeInv'
  <2>1. Count /\ isRunning' = [isRunning EXCEPT ![t] = FALSE]
        /\ UNCHANGED <<rtc, list, tte, period, latest, elapsed, rtcReset, job, stopping, left,
                 busy, disturbed>>
    BY <1>8 DEF StopAbove
  <2>2. CASE Enqueue(StopOp(t)) /\ stopped' = [stopped EXCEPT ![t] = "yes"]
    <3>1. /\ ops' \in Seq(Ops) /\ \A i \in DOMAIN ops' : OpInv(ops'[i])
          /\ Len(ops') <= QueueSize /\ swi' = TRUE
      BY <1>1, <1>3, <2>1, <2>2, EnqueueFacts
    <3> QED BY <1>2, <2>1, <2>2, <3>1 DEF TypeInv, AppTimerTypeOK, rtc
  <2>3. CASE stopped' = [stopped EXCEPT ![t] = "failed"] /\ UNCHANGED <<ops, swi>>
    BY <1>2, <2>1, <2>3 DEF TypeInv, AppTimerTypeOK, rtc
  <2> QED BY <1>8, <2>2, <2>3 DEF StopAbove
<1> QED BY <1>4, <1>5, <1>6, <1>7, <1>8

\* What level 2 does without changing the list.
LEMMA WorkTypes ==
  ASSUME TypeInv,
         \/ OtherEnter \/ HandlerReturn \/ RtcEnter \/ Expire \/ RtcLeave \/ InsertLeave
         \/ CompareBegin \/ CompareSet \/ CompareCheck \/ RtcStop \/ RtcClear
  PROVE  TypeInv'
<1>1. job \in Jobs
  BY DEF TypeInv
<1>2. CASE OtherEnter
  <2>1. job' \in Jobs
    BY <1>2 DEF OtherEnter, Jobs
  <2> QED BY <1>2, <2>1 DEF OtherEnter, TypeInv, AppTimerTypeOK, rtc, nodes, ghosts
<1>3. CASE HandlerReturn
  <2>1. job' \in Jobs
    <3>1. CASE At("other") /\ job' = Idle
      BY <3>1, IdleIsJob
    <3>2. CASE At("handler") /\ job' = [job EXCEPT !.at = "expire"]
      <4>1. job \in Walks
        BY <1>1, <3>2, JobKinds DEF InService, At
      <4>2. job' \in Walks
        BY <3>2, <4>1 DEF Walks
      <4> QED BY <4>2 DEF Jobs
    <3> QED BY <1>3, <3>1, <3>2 DEF HandlerReturn
  <2> QED BY <1>3, <2>1 DEF HandlerReturn, TypeInv, AppTimerTypeOK, rtc, nodes, ghosts
<1>4. CASE RtcEnter
  <2>1. job' \in Jobs
    <3>1. CASE list = <<>>
      BY <1>4, <3>1, IdleIsJob DEF RtcEnter
    <3>2. CASE list # <<>>
      <4>1. Diff(counter, latest) \in Nat
        <5>1. Diff(counter, latest) \in 0 .. Wrap - 1
          BY DiffRange DEF TypeInv, AppTimerTypeOK
        <5> QED BY <5>1, AppTimerAssumption
      <4> DEFINE d == Diff(counter, latest)
      <4>2. job' = [at |-> "expire", walk |-> list, ticks |-> d, expired |-> 0, timer |-> None]
        BY <1>4, <3>2 DEF RtcEnter
      <4>3. list \in Seq(Timers) /\ d \in Nat
        BY <4>1 DEF TypeInv, AppTimerTypeOK
      <4> HIDE DEF d
      <4>4. job' \in Walks
        BY <4>2, <4>3 DEF Walks
      <4> QED BY <4>4 DEF Jobs
    <3> QED BY <3>1, <3>2
  <2> QED BY <1>4, <2>1 DEF RtcEnter, TypeInv, AppTimerTypeOK, nodes, ghosts
<1>5. CASE Expire
  <2> DEFINE t == Head(job.walk)
  <2>1. /\ At("expire") /\ job.walk # <<>> /\ job.ticks >= tte[t]
        /\ job' = [job EXCEPT !.at = IF CallsHandler(t) THEN "handler" ELSE "expire",
                              !.walk = Tail(@), !.timer = t,
                              !.ticks = @ - tte[t], !.expired = @ + tte[t]]
        /\ isRunning' = [isRunning EXCEPT ![t] = FALSE]
    BY <1>5 DEF Expire, MoreExpired, Expired
  <2>2. job \in Walks
    BY <1>1, <2>1, JobKinds DEF InService, At
  <2>3. t \in Timers /\ Tail(job.walk) \in Seq(Timers)
    BY <2>1, <2>2 DEF Walks
  <2>4. tte[t] \in Nat
    BY <2>3 DEF TypeInv, AppTimerTypeOK
  <2> DEFINE at == IF CallsHandler(t) THEN "handler" ELSE "expire"
  <2>5. at \in {"expire", "handler"}
    OBVIOUS
  <2> HIDE DEF t
  <2>6. job' \in Walks
    <3>1. job.ticks - tte[t] \in Nat /\ job.expired + tte[t] \in Nat
      BY <2>1, <2>2, <2>4 DEF Walks
    <3>2. job' = [job EXCEPT !.at = at, !.walk = Tail(job.walk), !.timer = t,
                             !.ticks = job.ticks - tte[t], !.expired = job.expired + tte[t]]
      BY <2>1
    <3> HIDE DEF at
    <3> QED BY <2>2, <2>3, <2>5, <3>1, <3>2 DEF Walks
  <2>7. job' \in Jobs
    BY <2>6 DEF Jobs
  <2>8. UNCHANGED <<rtc, swi, list, tte, period, latest, elapsed, rtcReset, ops, stopping, ghosts>>
    BY <1>5 DEF Expire
  <2>9. isRunning' \in [Timers -> BOOLEAN]
    BY <2>1 DEF TypeInv, AppTimerTypeOK
  <2> QED BY <2>7, <2>8, <2>9 DEF TypeInv, AppTimerTypeOK, rtc, ghosts
<1>6. CASE RtcLeave
  <2>1. job \in Walks
    BY <1>1, <1>6, JobKinds DEF InService, At, RtcLeave
  <2>2. elapsed' \in Nat
    BY <1>6, <2>1 DEF RtcLeave, Walks
  <2> QED BY <1>6, <2>2, IdleIsJob DEF RtcLeave, TypeInv, AppTimerTypeOK, rtc, nodes, ghosts
<1>7. CASE InsertLeave
  <2>1. job' \in Jobs /\ rtcReset' \in BOOLEAN
    <3>1. CASE UpdateNeeded
      BY <1>7, <3>1 DEF InsertLeave, Jobs, TypeInv, AppTimerTypeOK
    <3>2. CASE ~UpdateNeeded
      BY <1>7, <3>2, IdleIsJob DEF InsertLeave
    <3> QED BY <3>1, <3>2
  <2> QED BY <1>7, <2>1 DEF InsertLeave, TypeInv, AppTimerTypeOK, rtc, nodes, ghosts
<1>8. CASE CompareBegin
  <2>1. PICK v \in Int : job' = [at |-> "set", pre |-> counter, cc |-> v % Wrap]
    <3> DEFINE passed == Diff(counter, latest) + CompareOffset
               ticks == tte[Head(list)]
               v == latest + IF passed < ticks THEN ticks ELSE passed
    <3>1. job' = [at |-> "set", pre |-> counter, cc |-> v % Wrap]
      BY <1>8 DEF CompareBegin
    <3>2. passed \in Nat
      <4>1. Diff(counter, latest) \in 0 .. Wrap - 1
        BY DiffRange DEF TypeInv, AppTimerTypeOK
      <4> QED BY <4>1, AppTimerAssumption
    <3>3. ticks \in Nat
      <4>1. list # <<>>
        BY <1>8 DEF CompareBegin
      <4>2. Head(list) \in Timers
        BY <4>1 DEF TypeInv, AppTimerTypeOK
      <4> QED BY <4>2 DEF TypeInv, AppTimerTypeOK
    <3>4. latest \in Int
      BY AppTimerAssumption DEF TypeInv, AppTimerTypeOK
    <3> HIDE DEF passed, ticks
    <3>5. v \in Int
      BY <3>2, <3>3, <3>4
    <3> QED BY <3>1, <3>5
  <2>2. v % Wrap \in 0 .. Wrap - 1
    BY ModRange
  <2>3. job' \in Compares
    BY <2>1, <2>2 DEF Compares, TypeInv, AppTimerTypeOK
  <2>4. job' \in Jobs
    BY <2>3 DEF Jobs
  <2> QED BY <1>8, <2>4 DEF CompareBegin, TypeInv, AppTimerTypeOK, nodes, ghosts
<1>9. CASE CompareSet
  <2>1. job \in Compares
    BY <1>1, <1>9, JobKinds DEF At, CompareSet
  <2>2. job' \in Compares
    BY <1>9, <2>1 DEF CompareSet, Compares
  <2>3. job' \in Jobs
    BY <2>2 DEF Jobs
  <2>4. cc' \in 0 .. Wrap - 1 /\ event' \in BOOLEAN /\ skip' \in BOOLEAN
    BY <1>9, <2>1 DEF CompareSet, WriteCC, Compares, TypeInv, AppTimerTypeOK
  <2> QED BY <1>9, <2>3, <2>4 DEF CompareSet, TypeInv, AppTimerTypeOK, nodes, ghosts
<1>10. CASE CompareCheck
  <2>1. cc' \in 0 .. Wrap - 1 /\ event' \in BOOLEAN /\ skip' \in BOOLEAN /\ forced' \in BOOLEAN
    BY <1>10 DEF CompareCheck, WriteCC, TypeInv, AppTimerTypeOK
  <2> QED BY <1>10, <2>1, IdleIsJob DEF CompareCheck, TypeInv, AppTimerTypeOK, nodes, ghosts
<1>11. CASE RtcStop
  <2>1. job' \in Jobs
    BY <1>11 DEF RtcStop, Jobs
  <2> QED BY <1>11, <2>1 DEF RtcStop, TypeInv, AppTimerTypeOK, nodes, ghosts
<1>12. CASE RtcClear
  <2>1. 0 \in 0 .. Wrap - 1
    BY AppTimerAssumption
  <2> QED BY <1>12, <2>1, IdleIsJob DEF RtcClear, TypeInv, AppTimerTypeOK, nodes, ghosts
<1> QED BY <1>2, <1>3, <1>4, <1>5, <1>6, <1>7, <1>8, <1>9, <1>10, <1>11, <1>12 

-----------------------------------------------------------------------------
(* The steps that change the list.                                         *)

\* Neither interrupt is being served.
LEMMA IdleGone ==
  ASSUME At("idle")
  PROVE  \A i : Gone(i) <=> elapsed # NoTicks /\ Due(list, tte, i) <= elapsed
BY DEF At, Gone, InService

\* What SWI0 leaves in the list when it takes these ticks and the first n timers
\* from it, and what it puts aside.
TakesOff(n, ticks) ==
  /\ elapsed # NoTicks => ticks = elapsed
  /\ elapsed = NoTicks => ticks = 0 /\ n = 0
  /\ Due(list, tte, n) <= ticks
  /\ latest' = (latest + ticks) % Wrap
  /\ Len(list') = Len(list) - n
  /\ \A i \in 1 .. Len(list) - n : list'[i] = list[n + i]
  /\ \A i \in n + 1 .. Len(list) :
       /\ tte'[list[i]] = IF i = n + 1 THEN tte[list[i]] - (ticks - Due(list, tte, n)) ELSE tte[list[i]]
       /\ left'[list[i]] = left[list[i]]
  /\ \A i \in DOMAIN job'.restart : \E k \in 1 .. n :
       /\ job'.restart[i] = list[k]
       /\ job'.since[list[k]] = (latest + Due(list, tte, k)) % Wrap
       /\ left'[list[k]] = left[list[k]] + period[list[k]]

\* SWI0 takes exactly the timers that were found expired, and of these it puts
\* the repeated ones aside.
LEMMA SwiEnterFacts ==
  ASSUME TypeInv, InsertedOnce, SwiEnter
  PROVE  /\ TypeInv' /\ ListInv'
         /\ \A t : Contains(list', t) <=> Waiting(t)
         /\ \A t : Contains(job'.restart, t) => Contains(list, t)
         /\ job'.at = "insert" /\ job'.update = (elapsed # NoTicks)
         /\ job'.head = IF list' = <<>> THEN None ELSE Head(list')
         /\ elapsed = NoTicks => list' = list
         /\ \E n \in 0 .. Len(list), ticks \in Nat : TakesOff(n, ticks)
<1> DEFINE D(i) == Due(list, tte, i)
           ticks == IF elapsed = NoTicks THEN 0 ELSE elapsed
           gone == {i \in DOMAIN list : elapsed # NoTicks /\ D(i) <= ticks}
           n == IF gone = {} THEN 0 ELSE Max(gone)
           rest == SubSeq(list, n + 1, Len(list))
           again == Repeating(list, n)
           at(t) == (latest + D(CHOOSE i \in gone : list[i] = t)) % Wrap
           since == [t \in ToSet(again) |-> at(t)]
           head == IF rest = <<>> THEN None ELSE Head(rest)
<1>1. /\ At("idle") /\ swi' = FALSE /\ elapsed' = NoTicks
      /\ latest' = (latest + ticks) % Wrap
      /\ list' = rest
      /\ tte' = [t \in Timers |->
           CASE \E i \in gone : list[i] = t -> 0
             [] rest # <<>> /\ t = Head(rest) /\ elapsed # NoTicks -> tte[t] - (ticks - D(n))
             [] OTHER -> tte[t]]
      /\ left' = [t \in Timers |->
           IF Contains(again, t) THEN left[t] + period[t] ELSE IF Contains(rest, t) THEN left[t] ELSE 0]
      /\ job' = [at |-> "insert", restart |-> again, since |-> since,
                 update |-> elapsed # NoTicks, head |-> head]
      /\ UNCHANGED <<rtc, isRunning, period, rtcReset, ops, stopping, stopped, busy, calls, disturbed>>
  BY DEF SwiEnter
<1>2. /\ list \in Seq(Timers) /\ Len(list) \in Nat /\ DOMAIN list = 1 .. Len(list)
      /\ tte \in [Timers -> Nat] /\ elapsed \in Nat \cup {NoTicks} /\ latest \in 0 .. Wrap - 1
  BY DEF TypeInv, AppTimerTypeOK
<1>3. /\ \A i \in 0 .. Len(list) : D(i) \in Nat
      /\ \A i, j \in 0 .. Len(list) : i <= j => D(i) <= D(j)
      /\ \A i \in 1 .. Len(list) : D(i) = D(i - 1) + tte[list[i]]
  BY <1>2, DueGrows, DueSteps
<1>4. ticks \in Nat /\ (elapsed # NoTicks => ticks = elapsed)
  BY <1>2 DEF NoTicks
<1> HIDE DEF D, ticks
<1>5. n \in 0 .. Len(list) /\ \A i \in 1 .. Len(list) : i \in gone <=> i <= n
  <2>1. CASE gone = {}
    <3>1. n = 0
      BY <2>1
    <3> HIDE DEF n, gone
    <3> QED BY <1>2, <2>1, <3>1
  <2>2. CASE gone # {}
    <3>1. gone \in SUBSET Nat /\ \A i \in gone : i \in 1 .. Len(list)
      BY <1>2
    <3>2. Max(gone) \in gone /\ \A i \in gone : i <= Max(gone)
      <4>1. \A i \in gone : i <= Len(list)
        BY <3>1
      <4> HIDE DEF gone
      <4> QED BY <1>2, <2>2, <3>1, <4>1, Greatest
    <3>3. n \in gone /\ \A i \in gone : i <= n
      BY <2>2, <3>2
    <3> HIDE DEF n
    <3>4. n \in 1 .. Len(list) /\ elapsed # NoTicks /\ D(n) <= ticks
      BY <1>2, <3>3
    <3>5. ASSUME NEW i \in 1 .. Len(list), i <= n PROVE i \in gone
      <4>1. D(i) <= D(n) /\ D(i) \in Nat /\ D(n) \in Nat
        BY <1>2, <1>3, <3>4, <3>5
      <4>2. D(i) <= ticks
        BY <1>4, <3>4, <4>1
      <4> QED BY <1>2, <3>4, <4>2
    <3> HIDE DEF gone
    <3> QED BY <1>2, <3>3, <3>4, <3>5
  <2> QED BY <2>1, <2>2
<1>6. \A i \in 1 .. Len(list) : i \in gone <=> Gone(i)
  BY <1>1, <1>2, <1>4, IdleGone DEF D
<1>7. /\ elapsed = NoTicks => gone = {}
      /\ n < Len(list) /\ elapsed # NoTicks => D(n + 1) > ticks
      /\ n # 0 => elapsed # NoTicks /\ D(n) <= ticks
  <2>1. elapsed = NoTicks => gone = {}
    OBVIOUS
  <2>2. ASSUME n < Len(list), elapsed # NoTicks PROVE D(n + 1) > ticks
    <3>1. n + 1 \in 1 .. Len(list) /\ ~(n + 1 <= n)
      BY <1>2, <1>5, <2>2
    <3>2. n + 1 \notin gone
      <4> HIDE DEF gone, n
      <4> QED BY <1>5, <3>1
    <3>3. ~(D(n + 1) <= ticks)
      <4> HIDE DEF n
      <4> QED BY <1>2, <2>2, <3>1, <3>2
    <3>4. D(n + 1) \in Nat
      <4> HIDE DEF n
      <4> QED BY <1>2, <1>3, <3>1
    <3> QED BY <1>4, <3>3, <3>4
  <2>3. ASSUME n # 0 PROVE elapsed # NoTicks /\ D(n) <= ticks
    <3>1. n \in gone
      <4> HIDE DEF gone, n
      <4> QED BY <1>2, <1>5, <2>3
    <3> HIDE DEF n
    <3> QED BY <3>1
  <2> QED BY <2>1, <2>2, <2>3
<1>8. n = 0 => D(n) = 0
  BY DueSteps, <1>2 DEF D
<1>9. elapsed = NoTicks => n = 0
  BY <1>7
<1> HIDE DEF n
<1>10. /\ rest \in Seq(Timers) /\ Len(rest) = Len(list) - n
       /\ \A i \in 1 .. Len(list) - n : rest[i] = list[n + i]
  <2>1. n + 1 \in 1 .. Len(list) + 1 /\ n \in Nat
    BY <1>2, <1>5
  <2> DEFINE m == n + 1
  <2>2. m \in 1 .. Len(list) + 1 /\ rest = SubSeq(list, m, Len(list))
    BY <2>1
  <2> HIDE DEF m, rest, gone, again
  <2>3. /\ rest \in Seq(Timers) /\ Len(rest) = Len(list) - m + 1
        /\ \A i \in 1 .. Len(list) - m + 1 : rest[i] = list[m + i - 1]
    BY <1>2, <2>2, SubSeqProperties
  <2>4. Len(list) - m + 1 = Len(list) - n /\ \A i \in 1 .. Len(list) : m + i - 1 = n + i
    BY <1>2, <2>1 DEF m
  <2>5. ASSUME NEW i \in 1 .. Len(list) - n PROVE rest[i] = list[n + i]
    <3>1. i \in 1 .. Len(list)
      BY <1>2, <2>1
    <3> QED BY <2>3, <2>4, <3>1
  <2> QED BY <2>3, <2>4, <2>5
<1>11. \A i, j \in 1 .. Len(list) : list[i] = list[j] => i = j
  BY <1>2 DEF InsertedOnce
<1>12. /\ again \in Seq(Timers)
       /\ \A i \in DOMAIN again : \E k \in 1 .. n : again[i] = list[k]
       /\ \A i, j \in DOMAIN again : again[i] = again[j] => i = j
  <2>1. \A i, j \in DOMAIN list : list[i] = list[j] => i = j
    BY <1>2, <1>11
  <2> QED BY <1>2, <1>5, <2>1, RepeatingFacts
<1> HIDE DEF rest, again, gone
<1>13. ASSUME NEW t PROVE Contains(rest, t) <=> Waiting(t)
  <2>1. ASSUME Contains(rest, t) PROVE Waiting(t)
    <3>1. PICK i \in 1 .. Len(list) - n : rest[i] = t
      BY <1>2, <1>5, <1>10, <2>1 DEF Contains
    <3>2. n + i \in 1 .. Len(list) /\ list[n + i] = t /\ ~(n + i <= n)
      BY <1>2, <1>5, <1>10, <3>1
    <3>3. n + i \in DOMAIN list /\ ~Gone(n + i)
      BY <1>2, <1>5, <1>6, <3>2
    <3> QED BY <3>2, <3>3 DEF Waiting
  <2>2. ASSUME Waiting(t) PROVE Contains(rest, t)
    <3>1. PICK i \in 1 .. Len(list) : list[i] = t /\ ~Gone(i)
      BY <1>2, <2>2 DEF Waiting
    <3>2. ~(i <= n)
      BY <1>5, <1>6, <3>1
    <3>3. i - n \in 1 .. Len(list) - n /\ n + (i - n) = i
      BY <1>2, <1>5, <3>2
    <3>4. rest[i - n] = t /\ i - n \in 1 .. Len(rest)
      BY <1>10, <3>1, <3>3
    <3> QED BY <3>4 DEF Contains
  <2> QED BY <2>1, <2>2
<1>14. \A t : Contains(again, t) => \E k \in 1 .. n : list[k] = t
  BY <1>12 DEF Contains
<1>15. \A t : Contains(again, t) => Contains(list, t) /\ ~Contains(rest, t)
  <2>1. SUFFICES ASSUME NEW t, Contains(again, t) PROVE Contains(list, t) /\ ~Contains(rest, t)
    OBVIOUS
  <2>2. PICK k \in 1 .. n : list[k] = t
    BY <1>14, <2>1
  <2>3. k \in 1 .. Len(list)
    BY <1>2, <1>5, <2>2
  <2>4. \A i \in 1 .. Len(list) - n : rest[i] # t
    <3>1. SUFFICES ASSUME NEW i \in 1 .. Len(list) - n, rest[i] = t PROVE FALSE
      OBVIOUS
    <3>2. n + i \in 1 .. Len(list) /\ list[n + i] = t /\ n + i # k
      BY <1>2, <1>5, <1>10, <2>2, <3>1
    <3> QED BY <1>11, <2>2, <2>3, <3>2
  <2>5. ~Contains(rest, t)
    BY <1>2, <1>5, <1>10, <2>4 DEF Contains
  <2> QED BY <2>2, <2>3, <2>5 DEF Contains
<1>16. ASSUME NEW i \in 1 .. Len(rest), NEW j \in 1 .. Len(rest), rest[i] = rest[j] PROVE i = j
  <2>1. /\ n + i \in 1 .. Len(list) /\ n + j \in 1 .. Len(list)
        /\ rest[i] = list[n + i] /\ rest[j] = list[n + j]
    BY <1>2, <1>5, <1>10
  <2>2. n + i = n + j
    BY <1>11, <1>16, <2>1
  <2> QED BY <1>2, <1>5, <1>10, <2>2
<1>17. InsertedOnce'
  <2>1. DOMAIN rest = 1 .. Len(rest)
    BY <1>10
  <2> QED BY <1>1, <1>16, <2>1 DEF InsertedOnce
<1>18. since \in UNION {[T -> 0 .. Wrap - 1] : T \in SUBSET Timers} /\ DOMAIN since = ToSet(again)
  <2>1. ToSet(again) \subseteq Timers
    BY <1>12 DEF ToSet
  <2>2. ASSUME NEW t \in ToSet(again) PROVE at(t) \in 0 .. Wrap - 1
    <3>1. Contains(again, t)
      BY <1>12, <2>2 DEF ToSet, Contains
    <3>2. PICK k \in 1 .. n : list[k] = t
      BY <1>14, <3>1
    <3>3. k \in gone
      BY <1>2, <1>5, <3>2
    <3> DEFINE c == CHOOSE i \in gone : list[i] = t
    <3>4. c \in gone
      BY <3>2, <3>3
    <3>5. c \in 1 .. Len(list)
      <4> HIDE DEF c
      <4> QED BY <1>2, <3>4 DEF gone
    <3>6. D(c) \in Nat
      <4> HIDE DEF c
      <4> QED BY <1>2, <1>3, <3>5
    <3>7. latest + D(c) \in Int
      <4> HIDE DEF c
      <4> QED BY <1>2, <3>6, AppTimerAssumption
    <3>8. at(t) = (latest + D(c)) % Wrap
      OBVIOUS
    <3> HIDE DEF c, at
    <3> QED BY <3>7, <3>8, ModRange
  <2> HIDE DEF at
  <2>3. since \in [ToSet(again) -> 0 .. Wrap - 1]
    BY <2>2
  <2> HIDE DEF since
  <2> QED BY <2>1, <2>3
<1> HIDE DEF since
<1>19. head \in Timers \cup {None}
  BY <1>10
<1> HIDE DEF head
<1>20. job' \in Inserts
  BY <1>1, <1>12, <1>18, <1>19 DEF Inserts
<1>21. job' \in Jobs
  BY <1>20 DEF Jobs
<1>22. ASSUME NEW t \in Timers
       PROVE  (CASE \E i \in gone : list[i] = t -> 0
                 [] rest # <<>> /\ t = Head(rest) /\ elapsed # NoTicks -> tte[t] - (ticks - D(n))
                 [] OTHER -> tte[t]) \in Nat
  <2>4. ASSUME rest # <<>>, t = Head(rest)
        PROVE  n < Len(list) /\ t = list[n + 1] /\ ~(\E i \in gone : list[i] = t)
    <3>1. Len(rest) \in Nat /\ Len(rest) # 0 /\ t = rest[1]
      BY <1>10, <2>4
    <3>2. n \in Nat /\ Len(rest) = Len(list) - n
      BY <1>5, <1>10
    <3> DEFINE m == Len(rest)
               k == Len(list)
    <3>6. m \in Nat /\ m # 0 /\ k \in Nat /\ n \in Nat /\ m = k - n
      BY <1>2, <3>1, <3>2
    <3>7. n < k /\ 1 \in 1 .. k - n /\ n + 1 \in 1 .. k
      <4> HIDE DEF m, k
      <4> QED BY <3>6
    <3>3. n < Len(list) /\ 1 \in 1 .. Len(list) - n
      BY <3>7
    <3>4. t = list[n + 1] /\ n + 1 \in 1 .. Len(list)
      BY <1>10, <3>1, <3>7
    <3>5. ASSUME NEW i \in gone, list[i] = t PROVE FALSE
      <4>1. i \in 1 .. Len(list)
        BY <1>2 DEF gone
      <4>2. i <= n /\ i = n + 1
        BY <1>5, <1>11, <3>4, <3>5, <4>1
      <4> QED BY <3>2, <4>2
    <3> QED BY <3>3, <3>4, <3>5
  <2>1. CASE \E i \in gone : list[i] = t
    <3>1. ~(rest # <<>> /\ t = Head(rest) /\ elapsed # NoTicks)
      BY <2>1, <2>4
    <3> QED BY <2>1, <3>1
  <2>2. CASE ~(\E i \in gone : list[i] = t) /\ rest # <<>> /\ t = Head(rest) /\ elapsed # NoTicks
    <3>1. n < Len(list) /\ t = list[n + 1]
      BY <2>2, <2>4
    <3>2. n + 1 \in 1 .. Len(list) /\ (n + 1) - 1 = n
      BY <1>2, <1>5, <3>1
    <3>3. D(n + 1) = D(n) + tte[t] /\ D(n) \in Nat /\ D(n + 1) \in Nat /\ tte[t] \in Nat
      BY <1>2, <1>3, <1>5, <3>1, <3>2
    <3>4. D(n + 1) > ticks
      BY <1>7, <2>2, <3>1
    <3>5. D(n) <= ticks
      BY <1>4, <1>5, <1>7, <1>8
    <3>6. tte[t] - (ticks - D(n)) \in Nat
      BY <1>4, <3>3, <3>4, <3>5
    <3> QED BY <2>2, <3>6
  <2>3. CASE ~(\E i \in gone : list[i] = t) /\ ~(rest # <<>> /\ t = Head(rest) /\ elapsed # NoTicks)
    BY <1>2, <2>3
  <2> QED BY <2>1, <2>2, <2>3
<1>23. tte' \in [Timers -> Nat]
  BY <1>1, <1>22
<1>24. latest' \in 0 .. Wrap - 1
  <2>1. latest + ticks \in Int
    BY <1>2, <1>4, AppTimerAssumption
  <2> QED BY <1>1, <2>1, ModRange
<1>25. left' \in [Timers -> Int]
  <2>1. left \in [Timers -> Int] /\ period \in [Timers -> Intervals \cup {0}]
    BY DEF TypeInv, AppTimerTypeOK
  <2>2. Intervals \cup {0} \subseteq Int
    BY AppTimerAssumption
  <2>3. \A t \in Timers : left[t] \in Int /\ period[t] \in Int
    BY <2>1, <2>2
  <2> QED BY <1>1, <2>3
<1>26. TypeInv'
  <2>1. /\ list' \in Seq(Timers) /\ swi' \in BOOLEAN /\ elapsed' \in Nat \cup {NoTicks}
        /\ UNCHANGED <<rtc, isRunning, period, rtcReset, ops, stopping, stopped, busy, calls, disturbed>>
    BY <1>1, <1>10
  <2>3. ops' = ops
    BY <2>1
  <2>4. UNCHANGED <<counter, rtcOn, cc, skip, event, forced>>
    BY <2>1 DEF rtc
  <2>2. AppTimerTypeOK'
    <3>1. AppTimerTypeOK
      BY DEF TypeInv
    <3> QED BY <1>23, <1>24, <1>25, <2>1, <2>4, <3>1 DEF AppTimerTypeOK
  <2> QED BY <1>21, <2>2, <2>3 DEF TypeInv
<1>27. job'.at = "insert" /\ job'.restart = again /\ job'.since = since
       /\ job'.update = (elapsed # NoTicks) /\ job'.head = head
  BY <1>1
<1>28. ListInv'
  <2>1. IsInjective(again)
    BY <1>12 DEF IsInjective
  <2>2. \A i \in DOMAIN again : ~Contains(rest, again[i]) /\ again[i] \in DOMAIN since
    <3>1. SUFFICES ASSUME NEW i \in DOMAIN again
                   PROVE  ~Contains(rest, again[i]) /\ again[i] \in DOMAIN since
      OBVIOUS
    <3>2. again[i] \in ToSet(again) /\ Contains(again, again[i])
      BY <1>12 DEF ToSet, Contains
    <3> QED BY <1>15, <1>18, <3>2
  <2> QED BY <1>1, <1>17, <1>27, <2>1, <2>2 DEF ListInv
<1>29. elapsed = NoTicks => rest = list
  BY <1>2, <1>9 DEF rest
<1>30. ASSUME NEW i \in n + 1 .. Len(list)
       PROVE  /\ i \in 1 .. Len(list) /\ i - n \in 1 .. Len(list) - n /\ list[i] \in Timers
              /\ rest[i - n] = list[i] /\ Contains(rest, list[i])
              /\ ~Contains(again, list[i]) /\ ~(\E k \in gone : list[k] = list[i])
  <2>1. i \in 1 .. Len(list) /\ i - n \in 1 .. Len(list) - n /\ n + (i - n) = i /\ ~(i <= n)
    BY <1>2, <1>5
  <2>2. rest[i - n] = list[i] /\ list[i] \in Timers
    BY <1>2, <1>10, <2>1
  <2>3. Contains(rest, list[i])
    BY <1>10, <2>1, <2>2 DEF Contains
  <2>4. ASSUME NEW k \in gone, list[k] = list[i] PROVE FALSE
    <3>1. k \in 1 .. Len(list)
      BY <1>2 DEF gone
    <3> QED BY <1>5, <1>11, <2>1, <2>4, <3>1
  <2> QED BY <1>15, <2>1, <2>2, <2>3, <2>4
<1>31. ASSUME NEW i \in n + 1 .. Len(list)
       PROVE  /\ tte'[list[i]] = IF i = n + 1 THEN tte[list[i]] - (ticks - D(n)) ELSE tte[list[i]]
              /\ left'[list[i]] = left[list[i]]
  <2>1. left'[list[i]] = left[list[i]]
    BY <1>1, <1>30, Zenon
  <2>2. rest # <<>> /\ Head(rest) = rest[1] /\ rest[1] = list[n + 1] /\ n + 1 \in 1 .. Len(list)
    <3>1. Len(list) - n > 0 /\ 1 \in 1 .. Len(list) - n /\ n + 1 \in 1 .. Len(list)
      BY <1>2, <1>5, <1>30
    <3> QED BY <1>10, <3>1
  <2>3. list[i] = Head(rest) <=> i = n + 1
    BY <1>11, <1>30, <2>2
  <2>4. CASE elapsed # NoTicks /\ i = n + 1
    <3>1. tte'[list[i]] = tte[list[i]] - (ticks - D(n))
      BY <1>1, <1>30, <2>2, <2>3, <2>4, Zenon
    <3> QED BY <2>1, <2>4, <3>1
  <2>5. CASE ~(elapsed # NoTicks /\ i = n + 1)
    <3>1. tte'[list[i]] = tte[list[i]]
      BY <1>1, <1>30, <2>3, <2>5, Zenon
    <3>2. ASSUME i = n + 1 PROVE ticks - D(n) = 0
      <4>1. elapsed = NoTicks
        BY <2>5, <3>2
      <4>2. n = 0 /\ D(n) = 0 /\ ticks = 0
        BY <1>8, <1>9, <4>1 DEF ticks
      <4> QED BY <4>2
    <3>3. tte[list[i]] \in Int
      BY <1>2, <1>30
    <3>4. i = n + 1 => tte[list[i]] - (ticks - D(n)) = tte[list[i]]
      BY <3>2, <3>3
    <3> QED BY <2>1, <3>1, <3>4
  <2> QED BY <2>4, <2>5
<1>32. ASSUME NEW i \in DOMAIN again
       PROVE  \E k \in 1 .. n :
                /\ again[i] = list[k]
                /\ since[list[k]] = (latest + D(k)) % Wrap
                /\ left'[list[k]] = left[list[k]] + period[list[k]]
  <2>1. PICK k \in 1 .. n : again[i] = list[k]
    BY <1>12
  <2>2. k \in 1 .. Len(list) /\ k \in gone /\ list[k] \in Timers
    BY <1>2, <1>5, <2>1
  <2>3. Contains(again, list[k]) /\ list[k] \in ToSet(again)
    BY <1>12, <2>1 DEF Contains, ToSet
  <2> DEFINE c == CHOOSE m \in gone : list[m] = list[k]
  <2>4. c \in gone /\ list[c] = list[k]
    BY <2>2
  <2>5. c \in 1 .. Len(list)
    <3> HIDE DEF c
    <3> QED BY <1>2, <2>4 DEF gone
  <2>6. c = k
    <3> HIDE DEF c
    <3> QED BY <1>11, <2>2, <2>4, <2>5
  <2>7. since[list[k]] = (latest + D(c)) % Wrap
    BY <2>3, Zenon DEF since
  <2> HIDE DEF c
  <2>8. left'[list[k]] = left[list[k]] + period[list[k]]
    BY <1>1, <2>2, <2>3, Zenon
  <2> QED BY <2>1, <2>6, <2>7, <2>8
<1>33. TakesOff(n, ticks)
  <2>1. elapsed = NoTicks => ticks = 0
    BY DEF ticks
  <2>2. D(n) <= ticks
    BY <1>4, <1>7, <1>8
  <2> QED BY <1>1, <1>4, <1>9, <1>10, <1>27, <1>31, <1>32, <2>1, <2>2 DEF TakesOff, D
<1>34. \E m \in 0 .. Len(list), e \in Nat : TakesOff(m, e)
  BY <1>4, <1>5, <1>33
<1> QED BY <1>1, <1>13, <1>15, <1>26, <1>27, <1>28, <1>29, <1>34 DEF head

\* While operations are applied nothing is expired that is still in the list.
LEMMA InsertGone ==
  ASSUME TypeInv, WalkInv, At("insert")
  PROVE  elapsed = NoTicks /\ \A t : Waiting(t) <=> Contains(list, t)
<1>1. elapsed = NoTicks
  BY DEF WalkInv, At
<1>2. \A i : ~Gone(i)
  BY <1>1 DEF Gone, InService, At
<1>3. DOMAIN list = 1 .. Len(list)
  BY DEF TypeInv, AppTimerTypeOK
<1> QED BY <1>1, <1>2, <1>3 DEF Waiting, Contains

LEMMA InsertGoneNext ==
  ASSUME TypeInv', WalkInv', At("insert")'
  PROVE  \A t : Waiting(t)' <=> Contains(list', t)
<1>1. elapsed' = NoTicks
  BY DEF WalkInv, At
<1>2. \A i : ~Gone(i)'
  BY <1>1 DEF Gone, InService, At
<1>3. DOMAIN list' = 1 .. Len(list')
  BY DEF TypeInv, AppTimerTypeOK
<1> QED BY <1>2, <1>3 DEF Waiting, Contains

\* A repeated timer is put back.
LEMMA RestartFacts ==
  ASSUME TypeInv, ListInv, Restart
  PROVE  /\ TypeInv' /\ ListInv' /\ list' # <<>>
         /\ job.restart # <<>> /\ Head(job.restart) \in Timers
         /\ isRunning' = [isRunning EXCEPT ![Head(job.restart)] = TRUE]
         /\ \A u : Contains(list', u) <=> u = Head(job.restart) \/ Contains(list, u)
         /\ \A u : Contains(job.restart, u) <=> u = Head(job.restart) \/ Contains(job'.restart, u)
         /\ job'.at = "insert" /\ job'.update = job.update /\ job'.head = job.head
<1> DEFINE t == Head(job.restart)
           rest == job.restart
           more == Tail(rest)
<1>1. job \in Inserts
  BY JobKinds DEF Restart, TypeInv
<1>2. /\ At("insert") /\ rest # <<>>
      /\ Insert(t, ToExpire(job.since[t], period[t]))
      /\ isRunning' = [isRunning EXCEPT ![t] = TRUE]
      /\ job' = [job EXCEPT !.restart = more]
      /\ UNCHANGED <<rtc, swi, period, latest, elapsed, rtcReset, ops, stopping, ghosts>>
  BY DEF Restart
<1>3. rest \in Seq(Timers) /\ Len(rest) \in Nat /\ DOMAIN rest = 1 .. Len(rest)
  BY <1>1 DEF Inserts
<1>4. /\ Len(rest) >= 1 /\ t = rest[1] /\ t \in Timers
      /\ more \in Seq(Timers) /\ Len(more) = Len(rest) - 1 /\ DOMAIN more = 1 .. Len(rest) - 1
      /\ \A i \in 1 .. Len(rest) - 1 : more[i] = rest[i + 1]
  BY <1>2, <1>3
<1>5. /\ \A i, j \in 1 .. Len(rest) : rest[i] = rest[j] => i = j
      /\ \A i \in 1 .. Len(rest) : ~Contains(list, rest[i]) /\ rest[i] \in DOMAIN job.since
  BY <1>2, <1>3 DEF ListInv, IsInjective
<1>6. InsertedOnce /\ ~Contains(list, t) /\ list \in Seq(Timers) /\ tte \in [Timers -> Nat]
  BY <1>3, <1>4, <1>5 DEF ListInv, TypeInv, AppTimerTypeOK
<1>7. ToExpire(job.since[t], period[t]) \in Nat
  <2>1. job.since[t] \in 0 .. Wrap - 1
    <3>1. t \in DOMAIN job.since
      BY <1>3, <1>4, <1>5
    <3>2. PICK T \in SUBSET Timers : job.since \in [T -> 0 .. Wrap - 1]
      BY <1>1 DEF Inserts
    <3> HIDE DEF t
    <3> QED BY <3>1, <3>2
  <2>2. period[t] \in Nat
    <3>1. period[t] \in Intervals \cup {0}
      BY <1>4 DEF TypeInv, AppTimerTypeOK
    <3> QED BY <3>1, SmallNumbers
  <2>3. latest \in 0 .. Wrap - 1
    BY DEF TypeInv, AppTimerTypeOK
  <2> QED BY <2>1, <2>2, <2>3, ToExpireIsNat
<1> HIDE DEF t, rest, more
<1>8. /\ list' \in Seq(Timers) /\ tte' \in [Timers -> Nat] /\ InsertedOnce' /\ list' # <<>>
      /\ \A u : Contains(list', u) <=> u = t \/ Contains(list, u)
  BY <1>2, <1>4, <1>6, <1>7, InsertFacts
<1>9. /\ job' \in Inserts /\ job'.at = "insert" /\ job'.restart = more /\ job'.since = job.since
      /\ job'.update = job.update /\ job'.head = job.head
  BY <1>1, <1>2, <1>4 DEF Inserts
<1>10. TypeInv'
  <2>1. AppTimerTypeOK /\ ops \in Seq(Ops) /\ \A i \in DOMAIN ops : OpInv(ops[i])
    BY DEF TypeInv
  <2>2. ops' = ops /\ UNCHANGED <<counter, rtcOn, cc, skip, event, forced, swi, period, latest,
                                  elapsed, rtcReset, stopping, left, stopped, busy, calls, disturbed>>
    BY <1>2 DEF rtc, ghosts
  <2>3. isRunning' \in [Timers -> BOOLEAN]
    BY <1>2, <2>1 DEF AppTimerTypeOK
  <2>4. AppTimerTypeOK'
    BY <1>8, <2>1, <2>2, <2>3 DEF AppTimerTypeOK
  <2>5. job' \in Jobs
    BY <1>9 DEF Jobs
  <2> QED BY <2>1, <2>2, <2>4, <2>5 DEF TypeInv
<1>11. \A i, j \in 1 .. Len(rest) - 1 : more[i] = more[j] => i = j
  <2>1. SUFFICES ASSUME NEW i \in 1 .. Len(rest) - 1, NEW j \in 1 .. Len(rest) - 1, more[i] = more[j]
                 PROVE  i = j
    OBVIOUS
  <2>2. i + 1 \in 1 .. Len(rest) /\ j + 1 \in 1 .. Len(rest) /\ rest[i + 1] = rest[j + 1]
    BY <1>3, <1>4, <2>1
  <2>3. i + 1 = j + 1
    BY <1>5, <2>2
  <2> QED BY <2>3
<1>12. \A i \in 1 .. Len(rest) - 1 : ~Contains(list', more[i]) /\ more[i] \in DOMAIN job.since
  <2>1. SUFFICES ASSUME NEW i \in 1 .. Len(rest) - 1
                 PROVE  ~Contains(list', more[i]) /\ more[i] \in DOMAIN job.since
    OBVIOUS
  <2>2. i + 1 \in 1 .. Len(rest) /\ 1 \in 1 .. Len(rest) /\ i + 1 # 1 /\ more[i] = rest[i + 1]
    BY <1>3, <1>4
  <2>3. more[i] # t
    BY <1>4, <1>5, <2>2
  <2> QED BY <1>5, <1>8, <2>2, <2>3
<1>13. ListInv'
  <2>1. IsInjective(more)
    BY <1>4, <1>11 DEF IsInjective
  <2> QED BY <1>4, <1>8, <1>9, <1>12, <2>1 DEF ListInv
<1>14. ASSUME NEW u PROVE Contains(rest, u) <=> u = t \/ Contains(more, u)
  <2>1. ASSUME Contains(rest, u), u # t PROVE Contains(more, u)
    <3>1. PICK i \in 1 .. Len(rest) : rest[i] = u
      BY <1>3, <2>1 DEF Contains
    <3>2. i - 1 \in 1 .. Len(rest) - 1 /\ (i - 1) + 1 = i
      BY <1>3, <1>4, <2>1, <3>1
    <3>3. i - 1 \in DOMAIN more /\ more[i - 1] = u
      BY <1>4, <3>1, <3>2
    <3> QED BY <1>4, <3>3 DEF Contains
  <2>2. ASSUME u = t PROVE Contains(rest, u)
    BY <1>3, <1>4, <2>2 DEF Contains
  <2>3. ASSUME Contains(more, u) PROVE Contains(rest, u)
    <3>1. PICK i \in 1 .. Len(rest) - 1 : more[i] = u
      BY <1>4, <2>3 DEF Contains
    <3>2. i + 1 \in 1 .. Len(rest) /\ rest[i + 1] = u
      BY <1>3, <1>4, <3>1
    <3> QED BY <1>3, <3>2 DEF Contains
  <2> QED BY <2>1, <2>2, <2>3
<1> QED BY <1>2, <1>4, <1>8, <1>9, <1>10, <1>13, <1>14 DEF t, rest

\* The first operation is a start.
LEMMA ApplyStartFacts ==
  ASSUME TypeInv, ListInv, WalkInv, MarkInv, ApplyStart
  PROVE  /\ TypeInv' /\ ListInv'
         /\ job' = job
         /\ \/ /\ ~isRunning[ops[1].timer] /\ list' # <<>>
               /\ isRunning' = [isRunning EXCEPT ![ops[1].timer] = TRUE]
               /\ \A u : Contains(list', u) <=> u = ops[1].timer \/ Contains(list, u)
            \/ isRunning[ops[1].timer] /\ UNCHANGED nodes
<1> DEFINE o == ops[1]
           t == o.timer
<1>1. /\ ops \in Seq(Ops) /\ Len(ops) <= QueueSize
      /\ \A i \in DOMAIN ops : OpInv(ops[i])
  BY DEF TypeInv, AppTimerTypeOK
<1>2. Applying("start")
  BY DEF ApplyStart
<1>3. /\ ops' \in Seq(Ops) /\ \A i \in DOMAIN ops' : OpInv(ops'[i])
      /\ Len(ops') <= QueueSize
      /\ Len(ops) \in Nat /\ Len(ops) >= 1
      /\ Head(ops) = o /\ o.type = "start" /\ o \in Ops /\ OpInv(o)
      /\ At("insert") /\ job.restart = <<>>
  BY <1>1, <1>2, DequeueFacts
<1>4. t \in Timers /\ o.at \in 0 .. Wrap - 1 /\ o.ticks \in Intervals /\ o.age \in Nat
  BY <1>3 DEF Ops, OpInv
<1>5. /\ IF MayInsert(t)
         THEN /\ Insert(t, ToExpire(IF rtcReset THEN 0 ELSE o.at, o.ticks))
              /\ isRunning' = [isRunning EXCEPT ![t] = TRUE]
              /\ period' = [period EXCEPT ![t] = IF t \in Repeated THEN o.ticks ELSE 0]
              /\ left' = [left EXCEPT ![t] = o.ticks - o.age]
         ELSE UNCHANGED <<nodes, left>>
      /\ UNCHANGED <<rtc, swi, latest, elapsed, rtcReset, job, stopping, stopped, busy, calls, disturbed>>
  BY <1>3 DEF ApplyStart
<1>6. AppTimerTypeOK /\ InsertedOnce /\ job \in Jobs
  BY DEF TypeInv, ListInv
<1>7. UNCHANGED <<counter, rtcOn, cc, skip, event, forced, swi, latest, elapsed, rtcReset, job,
                 stopping, stopped, busy, calls, disturbed>>
  BY <1>5 DEF rtc
<1>8. ~isRunning[t] => ~Contains(list, t)
  <2>1. SUFFICES ASSUME ~isRunning[t], Contains(list, t) PROVE FALSE
    OBVIOUS
  <2>2. Waiting(t)
    BY <1>3, <2>1, InsertGone
  <2>3. 1 \in DOMAIN ops /\ Starts(ops[1], t)
    BY <1>1, <1>3 DEF Starts
  <2>4. \E i \in 1 .. 1 - 1 : Stops(ops[i], t)
    BY <1>4, <2>1, <2>2, <2>3 DEF MarkInv
  <2> QED BY <2>4
<1> HIDE DEF o
<1>9. InsertedOnce' => ListInv'
  BY <1>3, <1>7 DEF ListInv, IsInjective, At
<1>10. CASE ~isRunning[t]
  <2>1. /\ Insert(t, ToExpire(IF rtcReset THEN 0 ELSE o.at, o.ticks))
        /\ isRunning' = [isRunning EXCEPT ![t] = TRUE]
        /\ period' = [period EXCEPT ![t] = IF t \in Repeated THEN o.ticks ELSE 0]
        /\ left' = [left EXCEPT ![t] = o.ticks - o.age]
    BY <1>5, <1>10 DEF MayInsert
  <2> DEFINE at == IF rtcReset THEN 0 ELSE o.at
  <2>2. at \in 0 .. Wrap - 1 /\ o.ticks \in Nat
    BY <1>4, SmallNumbers
  <2>3. ToExpire(at, o.ticks) \in Nat
    <3> HIDE DEF at
    <3> QED BY <1>6, <2>2, ToExpireIsNat DEF AppTimerTypeOK
  <2>4. /\ list' \in Seq(Timers) /\ tte' \in [Timers -> Nat] /\ InsertedOnce' /\ list' # <<>>
        /\ \A u : Contains(list', u) <=> u = t \/ Contains(list, u)
    <3> HIDE DEF t
    <3>1. list \in Seq(Timers) /\ tte \in [Timers -> Nat]
      BY <1>6 DEF AppTimerTypeOK
    <3> QED BY <1>4, <1>6, <1>8, <1>10, <2>1, <2>3, <3>1, InsertFacts
  <2>5. /\ isRunning' \in [Timers -> BOOLEAN] /\ period' \in [Timers -> Intervals \cup {0}]
        /\ left' \in [Timers -> Int]
    <3>1. (IF t \in Repeated THEN o.ticks ELSE 0) \in Intervals \cup {0}
      BY <1>4
    <3>2. o.ticks - o.age \in Int
      BY <1>4, <2>2
    <3> QED BY <1>6, <2>1, <3>1, <3>2 DEF AppTimerTypeOK
  <2>6. AppTimerTypeOK'
    BY <1>3, <1>6, <1>7, <2>4, <2>5 DEF AppTimerTypeOK
  <2>7. TypeInv'
    BY <1>3, <1>6, <1>7, <2>6 DEF TypeInv
  <2> QED BY <1>7, <1>9, <1>10, <2>1, <2>4, <2>7 DEF o
<1>11. CASE isRunning[t]
  <2>1. UNCHANGED <<nodes, left>>
    BY <1>5, <1>11 DEF MayInsert
  <2>2. AppTimerTypeOK'
    BY <1>3, <1>6, <1>7, <2>1 DEF AppTimerTypeOK, nodes
  <2>3. TypeInv'
    BY <1>3, <1>6, <1>7, <2>2 DEF TypeInv
  <2>4. InsertedOnce'
    BY <1>6, <2>1 DEF InsertedOnce, nodes
  <2> QED BY <1>7, <1>9, <1>11, <2>1, <2>3, <2>4 DEF o
<1> QED BY <1>10, <1>11

\* The first operation is a stop.
LEMMA ApplyStopFacts ==
  ASSUME TypeInv, ListInv, ApplyStop
  PROVE  /\ TypeInv' /\ ListInv'
         /\ job'.at = "insert" /\ job'.restart = <<>> /\ job'.head = job.head
         /\ job.update => job'.update
         /\ isRunning' = [isRunning EXCEPT ![ops[1].timer] = FALSE]
         /\ \A u : Contains(list', u) <=> u # ops[1].timer /\ Contains(list, u)
<1> DEFINE o == ops[1]
           t == o.timer
<1>1. /\ ops \in Seq(Ops) /\ Len(ops) <= QueueSize
      /\ \A i \in DOMAIN ops : OpInv(ops[i])
  BY DEF TypeInv, AppTimerTypeOK
<1>2. Applying("stop")
  BY DEF ApplyStop
<1>3. /\ ops' \in Seq(Ops) /\ \A i \in DOMAIN ops' : OpInv(ops'[i])
      /\ Len(ops') <= QueueSize
      /\ Head(ops) = o /\ o.type = "stop" /\ o \in Ops /\ OpInv(o)
      /\ At("insert") /\ job.restart = <<>>
  BY <1>1, <1>2, DequeueFacts
<1>4. t \in Timers
  BY <1>3 DEF Ops, OpInv
<1>5. /\ IF Contains(list, t)
         THEN /\ Unlink(t)
              /\ ClearWithLast
              /\ job' = [job EXCEPT !.update = @ \/ Head(list) = t]
         ELSE UNCHANGED <<list, tte, counter, latest, rtcReset, job>>
      /\ isRunning' = [isRunning EXCEPT ![t] = FALSE]
      /\ left' = [left EXCEPT ![t] = 0]
      /\ stopped' = IF \E i \in 2 .. Len(ops) : ops[i].type = "start" /\ ops[i].timer = t
                    THEN stopped ELSE [stopped EXCEPT ![t] = "yes"]
      /\ UNCHANGED <<rtcOn, cc, skip, event, forced, swi, period, elapsed, stopping, busy, calls,
                 disturbed>>
  BY <1>3 DEF ApplyStop
<1>6. AppTimerTypeOK /\ InsertedOnce /\ job \in Inserts
  BY <1>3, JobKinds DEF TypeInv, ListInv
<1>7. /\ list \in Seq(Timers) /\ tte \in [Timers -> Nat] /\ counter \in 0 .. Wrap - 1
      /\ latest \in 0 .. Wrap - 1 /\ rtcReset \in BOOLEAN
  BY <1>6 DEF AppTimerTypeOK
<1> HIDE DEF o, t
<1>8. /\ list' \in Seq(Timers) /\ tte' \in [Timers -> Nat] /\ InsertedOnce'
      /\ \A u : Contains(list', u) <=> u # t /\ Contains(list, u)
      /\ counter' \in 0 .. Wrap - 1 /\ latest' \in 0 .. Wrap - 1 /\ rtcReset' \in BOOLEAN
      /\ job' \in Inserts /\ job'.at = "insert" /\ job'.restart = <<>> /\ job'.head = job.head
      /\ job.update => job'.update
  <2>1. CASE Contains(list, t)
    <3>1. Unlink(t) /\ ClearWithLast /\ job' = [job EXCEPT !.update = @ \/ Head(list) = t]
      BY <1>5, <2>1
    <3>2. /\ list' \in Seq(Timers) /\ tte' \in [Timers -> Nat] /\ InsertedOnce'
          /\ \A u : Contains(list', u) <=> u # t /\ Contains(list, u)
      BY <1>4, <1>6, <1>7, <2>1, <3>1, UnlinkFacts
    <3>3. counter' \in 0 .. Wrap - 1 /\ latest' \in 0 .. Wrap - 1 /\ rtcReset' \in BOOLEAN
      BY <1>7, <3>1, SmallNumbers DEF ClearWithLast
    <3>4. /\ job' \in Inserts /\ job'.at = "insert" /\ job'.restart = <<>> /\ job'.head = job.head
          /\ job.update => job'.update
      <4> DEFINE up == job.update \/ Head(list) = t
      <4>1. job' = [job EXCEPT !.update = up] /\ up \in BOOLEAN /\ (job.update => up)
        BY <1>6, <3>1 DEF Inserts
      <4> HIDE DEF up
      <4> QED BY <1>3, <1>6, <4>1 DEF Inserts, At
    <3> QED BY <3>2, <3>3, <3>4
  <2>2. CASE ~Contains(list, t)
    <3>1. UNCHANGED <<list, tte, counter, latest, rtcReset, job>>
      BY <1>5, <2>2
    <3>2. InsertedOnce' /\ \A u : Contains(list', u) <=> u # t /\ Contains(list, u)
      BY <1>6, <2>2, <3>1 DEF InsertedOnce
    <3> QED BY <1>3, <1>6, <1>7, <3>1, <3>2 DEF At
  <2> QED BY <2>1, <2>2
<1>9. isRunning' \in [Timers -> BOOLEAN] /\ left' \in [Timers -> Int]
      /\ stopped' \in [Timers -> {"no", "yes", "failed"}]
  <2>1. /\ isRunning \in [Timers -> BOOLEAN] /\ left \in [Timers -> Int]
        /\ stopped \in [Timers -> {"no", "yes", "failed"}]
    BY <1>6 DEF AppTimerTypeOK
  <2>2. isRunning' = [isRunning EXCEPT ![t] = FALSE] /\ left' = [left EXCEPT ![t] = 0]
    BY <1>5
  <2>3. stopped' = stopped \/ stopped' = [stopped EXCEPT ![t] = "yes"]
    BY <1>5
  <2>4. isRunning' \in [Timers -> BOOLEAN]
    BY <2>1, <2>2
  <2>5. left' \in [Timers -> Int]
    <3>1. left \in [Timers -> Int] /\ left' = [left EXCEPT ![t] = 0]
      BY <2>1, <2>2
    <3>2. left' = [u \in Timers |-> IF u = t THEN 0 ELSE left[u]]
      BY <3>1, Zenon
    <3>3. \A u \in Timers : (IF u = t THEN 0 ELSE left[u]) \in Int
      BY <3>1
    <3> QED BY <3>2, <3>3
  <2>6. stopped' \in [Timers -> {"no", "yes", "failed"}]
    BY <2>1, <2>3
  <2> QED BY <2>4, <2>5, <2>6
<1>10. AppTimerTypeOK'
  BY <1>3, <1>5, <1>6, <1>8, <1>9 DEF AppTimerTypeOK
<1>11. job' \in Jobs
  BY <1>8 DEF Jobs
<1>12. TypeInv'
  BY <1>3, <1>10, <1>11 DEF TypeInv
<1>13. ListInv'
  BY <1>8 DEF ListInv, IsInjective
<1> QED BY <1>5, <1>8, <1>12, <1>13 DEF o, t

\* The first operation empties the list.
LEMMA ApplyStopAllFacts ==
  ASSUME TypeInv, ListInv, ApplyStopAll
  PROVE  /\ TypeInv' /\ ListInv' /\ job' = job
         /\ isRunning' = [t \in Timers |-> isRunning[t] /\ ~Contains(list, t)]
         /\ \A u : ~Contains(list', u)
<1>1. /\ ops \in Seq(Ops) /\ Len(ops) <= QueueSize
      /\ \A i \in DOMAIN ops : OpInv(ops[i])
  BY DEF TypeInv, AppTimerTypeOK
<1>2. Applying("stopall")
  BY DEF ApplyStopAll
<1>3. /\ ops' \in Seq(Ops) /\ \A i \in DOMAIN ops' : OpInv(ops'[i])
      /\ Len(ops') <= QueueSize
      /\ At("insert") /\ job.restart = <<>>
  BY <1>1, <1>2, DequeueFacts
<1>4. /\ isRunning' = [t \in Timers |-> isRunning[t] /\ ~Contains(list, t)]
      /\ list' = <<>>
      /\ tte' = [t \in Timers |-> 0]
      /\ left' = [t \in Timers |-> 0]
      /\ UNCHANGED <<rtc, swi, period, latest, elapsed, rtcReset, job, stopping, stopped,
                     busy, calls, disturbed>>
  BY DEF ApplyStopAll
<1>5. AppTimerTypeOK /\ job \in Jobs
  BY DEF TypeInv
<1>6. /\ isRunning' \in [Timers -> BOOLEAN] /\ list' \in Seq(Timers)
      /\ tte' \in [Timers -> Nat] /\ left' \in [Timers -> Int]
  <2>1. \A t \in Timers : isRunning[t] \in BOOLEAN
    BY <1>5 DEF AppTimerTypeOK
  <2>2. \A t \in Timers : (isRunning[t] /\ ~Contains(list, t)) \in BOOLEAN
    OBVIOUS
  <2> QED BY <1>4, <2>2
<1>7. UNCHANGED <<counter, rtcOn, cc, skip, event, forced, swi, period, latest, elapsed, rtcReset, job,
                 stopping, stopped, busy, calls, disturbed>>
  BY <1>4 DEF rtc
<1>8. AppTimerTypeOK'
  BY <1>3, <1>5, <1>6, <1>7 DEF AppTimerTypeOK
<1>9. TypeInv'
  BY <1>3, <1>5, <1>7, <1>8 DEF TypeInv
<1>10. ListInv'
  BY <1>3, <1>4, <1>7 DEF ListInv, InsertedOnce, IsInjective, At
<1>11. \A u : ~Contains(list', u)
  BY <1>4 DEF Contains
<1> QED BY <1>4, <1>9, <1>10, <1>11

-----------------------------------------------------------------------------
(* The other steps, as far as the invariant sees them.                     *)

LEMMA TickFacts ==
  ASSUME TypeInv, Tick
  PROVE  /\ UNCHANGED <<list, tte, isRunning, elapsed, job, stopping, stopped, disturbed, rtcOn>>
         /\ Len(ops) \in Nat /\ DOMAIN ops = 1 .. Len(ops)
         /\ Len(ops') = Len(ops) /\ DOMAIN ops' = DOMAIN ops
         /\ \A i \in DOMAIN ops : ops'[i].type = ops[i].type /\ ops'[i].timer = ops[i].timer
<1>1. /\ ops' = [i \in DOMAIN ops |-> [ops[i] EXCEPT !.age = @ + 1]]
      /\ UNCHANGED <<rtcOn, nodes, elapsed, job, stopping, stopped, disturbed>>
  BY DEF Tick
<1>2. ops \in Seq(Ops)
  BY DEF TypeInv
<1>3. Len(ops) \in Nat /\ DOMAIN ops = 1 .. Len(ops)
  BY <1>2
<1>4. DOMAIN ops' = DOMAIN ops
  BY <1>1
<1>5. ops' = [i \in 1 .. Len(ops) |-> [ops[i] EXCEPT !.age = @ + 1]]
  BY <1>1, <1>3
<1>6. Len(ops') = Len(ops)
  BY <1>3, <1>5
<1>7. ASSUME NEW i \in DOMAIN ops PROVE ops'[i].type = ops[i].type /\ ops'[i].timer = ops[i].timer
  <2>1. ops[i] \in Ops
    BY <1>2
  <2>2. ops'[i] = [ops[i] EXCEPT !.age = @ + 1]
    BY <1>1
  <2> QED BY <2>1, <2>2 DEF Ops
<1> QED BY <1>1, <1>3, <1>4, <1>6, <1>7 DEF nodes

\* A call leaves the list alone; what it queues is one operation behind the others.
LEMMA StartFacts ==
  ASSUME TypeInv, NEW level, NEW t \in Timers, NEW ticks \in Intervals, Start(level, t, ticks)
  PROVE  /\ UNCHANGED <<list, tte, isRunning, elapsed, job, stopping, rtcOn>>
         /\ ~disturbed /\ MayStart(t)
         /\ stopped' = [stopped EXCEPT ![t] = "no"]
         /\ Len(ops) \in Nat /\ DOMAIN ops = 1 .. Len(ops)
         /\ DOMAIN ops' = 1 .. Len(ops) + 1 /\ Len(ops') = Len(ops) + 1
         /\ Starts(ops'[Len(ops) + 1], t)
         /\ \A i \in DOMAIN ops : ops'[i] = ops[i]
<1> DEFINE o == [type |-> "start", timer |-> t, at |-> counter, ticks |-> ticks, age |-> 0]
<1>1. /\ MayStart(t) /\ Count /\ Enqueue(o)
      /\ stopped' = [stopped EXCEPT ![t] = "no"]
      /\ UNCHANGED <<rtc, nodes, elapsed, job, stopping>>
  BY DEF Start
<1>2. o \in Ops /\ OpInv(o) /\ Starts(o, t)
  BY DEF Ops, OpInv, Starts, TypeInv, AppTimerTypeOK
<1>3. /\ ops \in Seq(Ops) /\ Len(ops) <= QueueSize
      /\ \A i \in DOMAIN ops : OpInv(ops[i])
  BY DEF TypeInv, AppTimerTypeOK
<1> HIDE DEF o
<1>4. /\ ops' \in Seq(Ops)
      /\ Len(ops') = Len(ops) + 1 /\ ops'[Len(ops) + 1] = o
      /\ \A i \in DOMAIN ops : ops'[i] = ops[i]
  BY <1>1, <1>2, <1>3, EnqueueFacts
<1>5. Len(ops) \in Nat /\ DOMAIN ops = 1 .. Len(ops) /\ DOMAIN ops' = 1 .. Len(ops) + 1
  BY <1>3, <1>4
<1> QED BY <1>1, <1>2, <1>4, <1>5 DEF Count, rtc, nodes

LEMMA StopAllFacts ==
  ASSUME TypeInv, NEW level, StopAll(level)
  PROVE  /\ UNCHANGED <<list, tte, isRunning, elapsed, job, stopping, stopped, disturbed, rtcOn>>
         /\ Len(ops) \in Nat /\ DOMAIN ops = 1 .. Len(ops)
         /\ DOMAIN ops' = 1 .. Len(ops) + 1 /\ Len(ops') = Len(ops) + 1
         /\ ops'[Len(ops) + 1].type = "stopall"
         /\ \A i \in DOMAIN ops : ops'[i] = ops[i]
<1> DEFINE o == [type |-> "stopall", timer |-> None, at |-> 0, ticks |-> 0, age |-> 0]
<1>1. /\ Enqueue(o)
      /\ UNCHANGED <<rtc, nodes, elapsed, job, stopping, stopped, disturbed>>
  BY DEF StopAll
<1>2. o \in Ops /\ OpInv(o) /\ o.type = "stopall"
  BY SmallNumbers DEF Ops, OpInv
<1>3. /\ ops \in Seq(Ops) /\ Len(ops) <= QueueSize
      /\ \A i \in DOMAIN ops : OpInv(ops[i])
  BY DEF TypeInv, AppTimerTypeOK
<1> HIDE DEF o
<1>4. /\ ops' \in Seq(Ops)
      /\ Len(ops') = Len(ops) + 1 /\ ops'[Len(ops) + 1] = o
      /\ \A i \in DOMAIN ops : ops'[i] = ops[i]
  BY <1>1, <1>2, <1>3, EnqueueFacts
<1>5. Len(ops) \in Nat /\ DOMAIN ops = 1 .. Len(ops) /\ DOMAIN ops' = 1 .. Len(ops) + 1
  BY <1>3, <1>4
<1> QED BY <1>1, <1>2, <1>4, <1>5 DEF rtc, nodes

\* The operation of a stop is queued, or the queue is full and the call fails.
Queued(t) ==
  /\ DOMAIN ops' = 1 .. Len(ops) + 1 /\ Len(ops') = Len(ops) + 1
  /\ Stops(ops'[Len(ops) + 1], t)
  /\ \A i \in DOMAIN ops : ops'[i] = ops[i]

LEMMA QueuedFacts ==
  ASSUME TypeInv, NEW t \in Timers, Enqueue(StopOp(t))
  PROVE  Queued(t)
<1> DEFINE o == StopOp(t)
<1>1. o \in Ops /\ OpInv(o) /\ Stops(o, t)
  BY SmallNumbers DEF StopOp, Ops, OpInv, Stops
<1>2. /\ ops \in Seq(Ops) /\ Len(ops) <= QueueSize
      /\ \A i \in DOMAIN ops : OpInv(ops[i])
  BY DEF TypeInv, AppTimerTypeOK
<1> HIDE DEF o
<1>3. /\ ops' \in Seq(Ops)
      /\ Len(ops') = Len(ops) + 1 /\ ops'[Len(ops) + 1] = o
      /\ \A i \in DOMAIN ops : ops'[i] = ops[i]
  BY <1>1, <1>2, EnqueueFacts DEF o
<1>4. DOMAIN ops' = 1 .. Len(ops) + 1
  BY <1>2, <1>3
<1> QED BY <1>1, <1>3, <1>4 DEF Queued

LEMMA StopEndFacts ==
  ASSUME TypeInv, NEW level \in 1 .. 2, StopEnd(level)
  PROVE  /\ UNCHANGED <<list, tte, isRunning, elapsed, job, disturbed, rtcOn>>
         /\ Len(ops) \in Nat /\ DOMAIN ops = 1 .. Len(ops)
         /\ stopping[level] \in Timers /\ stopping' = [stopping EXCEPT ![level] = None]
         /\ \/ /\ Queued(stopping[level])
               /\ stopped' = [stopped EXCEPT ![stopping[level]] = IF level = 1 THEN "no" ELSE "yes"]
            \/ ops' = ops /\ stopped' = [stopped EXCEPT ![stopping[level]] = "failed"]
<1>1. Len(ops) \in Nat /\ DOMAIN ops = 1 .. Len(ops)
  BY DEF TypeInv
<1>2. stopping[level] \in Timers
  BY DEF StopEnd, TypeInv, AppTimerTypeOK
<1>3. /\ stopping' = [stopping EXCEPT ![level] = None]
      /\ \/ /\ Enqueue(StopOp(stopping[level]))
            /\ stopped' = [stopped EXCEPT ![stopping[level]] = IF level = 1 THEN "no" ELSE "yes"]
         \/ ops' = ops /\ stopped' = [stopped EXCEPT ![stopping[level]] = "failed"]
      /\ UNCHANGED <<rtc, nodes, elapsed, job, disturbed>>
  BY DEF StopEnd
<1> QED BY <1>1, <1>2, <1>3, QueuedFacts DEF rtc, nodes

LEMMA StopAboveFacts ==
  ASSUME TypeInv, NEW t \in Timers, StopAbove(t)
  PROVE  /\ UNCHANGED <<list, tte, elapsed, job, stopping, disturbed, rtcOn>>
         /\ Len(ops) \in Nat /\ DOMAIN ops = 1 .. Len(ops)
         /\ MayStop(t) /\ isRunning' = [isRunning EXCEPT ![t] = FALSE]
         /\ \/ Queued(t) /\ stopped' = [stopped EXCEPT ![t] = "yes"]
            \/ ops' = ops /\ stopped' = [stopped EXCEPT ![t] = "failed"]
<1>1. Len(ops) \in Nat /\ DOMAIN ops = 1 .. Len(ops)
  BY DEF TypeInv
<1>2. /\ MayStop(t) /\ isRunning' = [isRunning EXCEPT ![t] = FALSE]
      /\ \/ Enqueue(StopOp(t)) /\ stopped' = [stopped EXCEPT ![t] = "yes"]
         \/ ops' = ops /\ stopped' = [stopped EXCEPT ![t] = "failed"]
      /\ UNCHANGED <<rtc, list, tte, elapsed, job, stopping, disturbed>>
  BY DEF StopAbove
<1> QED BY <1>1, <1>2, QueuedFacts DEF rtc

\* What level 2 does without the list: only its job changes, and m_ticks_elapsed.
LEMMA WorkFacts ==
  ASSUME \/ OtherEnter \/ HandlerReturn \/ RtcEnter \/ RtcLeave \/ InsertLeave
         \/ CompareBegin \/ CompareSet \/ CompareCheck \/ RtcStop \/ RtcClear
  PROVE  UNCHANGED <<list, tte, isRunning, ops, stopping, stopped, disturbed>>
BY DEF OtherEnter, HandlerReturn, RtcEnter, RtcLeave, InsertLeave, CompareBegin, CompareSet,
       CompareCheck, RtcStop, RtcClear, nodes, ghosts

\* Any call: at most one operation more, and the list as it was.
LEMMA CallFacts ==
  ASSUME TypeInv,
         \/ \E level \in 1 .. 3, t \in Timers, ticks \in Intervals : Start(level, t, ticks)
         \/ \E level \in 1 .. 3 : StopAll(level)
         \/ \E level \in 1 .. 2, t \in Timers : StopBegin(level, t)
         \/ \E level \in 1 .. 2 : StopEnd(level)
         \/ \E t \in Timers : StopAbove(t)
  PROVE  UNCHANGED <<list, tte, elapsed, job, rtcOn>> /\ (Intact' => Intact)
<1>1. ASSUME NEW level \in 1 .. 3, NEW t \in Timers, NEW ticks \in Intervals, Start(level, t, ticks)
      PROVE  UNCHANGED <<list, tte, elapsed, job, rtcOn>> /\ (Intact' => Intact)
  BY <1>1, StartFacts DEF Intact
<1>2. ASSUME NEW level \in 1 .. 3, StopAll(level)
      PROVE  UNCHANGED <<list, tte, elapsed, job, rtcOn>> /\ (Intact' => Intact)
  <2>1. /\ UNCHANGED <<list, tte, elapsed, job, disturbed, rtcOn>>
        /\ Len(ops) \in Nat /\ DOMAIN ops = 1 .. Len(ops) /\ DOMAIN ops' = 1 .. Len(ops) + 1
        /\ ops'[Len(ops) + 1].type = "stopall" /\ \A i \in DOMAIN ops : ops'[i] = ops[i]
    BY <1>2, StopAllFacts
  <2>2. \A i \in DOMAIN ops' : ops'[i].type = "start" => i \in DOMAIN ops /\ ops[i].type = "start"
    BY <2>1
  <2> QED BY <2>1, <2>2 DEF Intact
<1>3. ASSUME NEW level \in 1 .. 2, NEW t \in Timers, StopBegin(level, t)
      PROVE  UNCHANGED <<list, tte, elapsed, job, rtcOn>> /\ (Intact' => Intact)
  BY <1>3 DEF StopBegin, Intact, rtc
<1>4. ASSUME NEW t, Queued(t), Len(ops) \in Nat, DOMAIN ops = 1 .. Len(ops)
      PROVE  \A i \in DOMAIN ops' : ops'[i].type = "start" => i \in DOMAIN ops /\ ops[i].type = "start"
  BY <1>4 DEF Queued, Stops
<1>5. ASSUME NEW level \in 1 .. 2, StopEnd(level)
      PROVE  UNCHANGED <<list, tte, elapsed, job, rtcOn>> /\ (Intact' => Intact)
  <2>1. /\ UNCHANGED <<list, tte, elapsed, job, disturbed, rtcOn>>
        /\ Len(ops) \in Nat /\ DOMAIN ops = 1 .. Len(ops)
        /\ Queued(stopping[level]) \/ ops' = ops
    BY <1>5, StopEndFacts
  <2> QED BY <1>4, <2>1 DEF Intact
<1>6. ASSUME NEW t \in Timers, StopAbove(t)
      PROVE  UNCHANGED <<list, tte, elapsed, job, rtcOn>> /\ (Intact' => Intact)
  <2>1. /\ UNCHANGED <<list, tte, elapsed, job, disturbed, rtcOn>>
        /\ Len(ops) \in Nat /\ DOMAIN ops = 1 .. Len(ops)
        /\ Queued(t) \/ ops' = ops
    BY <1>6, StopAboveFacts
  <2> QED BY <1>4, <2>1 DEF Intact
<1> QED BY <1>1, <1>2, <1>3, <1>5, <1>6

-----------------------------------------------------------------------------
(* RTC1's interrupt and the list.                                          *)

\* Where the interrupt is in the list.
LEMMA WalkFacts ==
  ASSUME TypeInv, WalkInv, InService
  PROVE  /\ list \in Seq(Timers) /\ Len(list) \in Nat /\ DOMAIN list = 1 .. Len(list)
         /\ job.walk \in Seq(Timers) /\ job.ticks \in Nat /\ job.expired \in Nat
         /\ Walked \in 0 .. Len(list) /\ job.expired = Due(list, tte, Walked)
         /\ job.walk = <<>> <=> Walked = Len(list)
         /\ job.walk # <<>> => /\ Walked + 1 \in 1 .. Len(list) /\ Head(job.walk) = list[Walked + 1]
                               /\ Head(job.walk) \in Timers
                               /\ Due(list, tte, Walked + 1) = job.expired + tte[Head(job.walk)]
         /\ elapsed # NoTicks /\ Intact => elapsed <= job.ticks + job.expired
<1>1. list \in Seq(Timers) /\ Len(list) \in Nat /\ DOMAIN list = 1 .. Len(list)
  BY DEF TypeInv, AppTimerTypeOK
<1>2. job \in Walks
  BY JobKinds DEF TypeInv
<1>3. job.walk \in Seq(Timers) /\ job.ticks \in Nat /\ job.expired \in Nat /\ Len(job.walk) \in Nat
  BY <1>2 DEF Walks
<1>4. /\ Walked \in 0 .. Len(list) /\ job.walk = SubSeq(list, Walked + 1, Len(list))
      /\ job.expired = Due(list, tte, Walked)
      /\ elapsed # NoTicks /\ Intact => elapsed <= job.ticks + job.expired
  BY DEF WalkInv
<1> DEFINE w == Walked
           walk == job.walk
           m == Len(list)
           k == Len(walk)
<1>5. m \in Nat /\ k \in Nat /\ w = m - k /\ w \in 0 .. m
  BY <1>1, <1>3, <1>4 DEF Walked
<1>6. walk = SubSeq(list, w + 1, m) /\ walk \in Seq(Timers) /\ list \in Seq(Timers)
  BY <1>1, <1>3, <1>4
<1>7. walk = <<>> <=> w = m
  <2>1. walk = <<>> <=> k = 0
    <3> HIDE DEF walk
    <3>1. walk = <<>> => k = 0
      BY EmptySeq
    <3>2. walk # <<>> => k # 0
      BY <1>6, EmptySeq
    <3> QED BY <3>1, <3>2
  <2> HIDE DEF w, walk, m, k
  <2> QED BY <1>5, <2>1
<1>8. ASSUME walk # <<>>
      PROVE  /\ w + 1 \in 1 .. m /\ Head(walk) = list[w + 1] /\ Head(walk) \in Timers
             /\ Due(list, tte, w + 1) = Due(list, tte, w) + tte[Head(walk)]
  <2>1. w + 1 \in 1 .. m /\ (w + 1) - 1 = w /\ m \in w + 1 .. m
    <3> HIDE DEF w, walk, m, k
    <3> QED BY <1>5, <1>7, <1>8
  <2> HIDE DEF w, walk, k
  <2>2. Head(walk) = list[w + 1]
    <3> DEFINE n == w + 1
    <3>1. n \in 1 .. Len(list) /\ m \in n .. Len(list) /\ walk = SubSeq(list, n, m)
      BY <1>6, <2>1
    <3> HIDE DEF n
    <3>2. Head(SubSeq(list, n, m)) = list[n]
      BY <1>6, <3>1, HeadTailOfSubSeq
    <3> QED BY <3>1, <3>2 DEF n
  <2>3. Head(walk) \in Timers
    BY <1>6, <1>8
  <2>4. Due(list, tte, w + 1) = Due(list, tte, w) + tte[list[w + 1]]
    BY <1>6, <2>1, DueSteps
  <2> QED BY <2>1, <2>2, <2>3, <2>4
<1> QED BY <1>1, <1>3, <1>4, <1>7, <1>8 DEF w, walk

\* RTC1's interrupt finds the next timer expired.
LEMMA ExpireFacts ==
  ASSUME TypeInv, WalkInv, Expire
  PROVE  /\ At("expire") /\ job'.at \in {"expire", "handler"}
         /\ Walked + 1 \in 1 .. Len(list) /\ Walked' = Walked + 1
         /\ job'.timer = list[Walked + 1] /\ job'.timer \in Timers
         /\ job'.at = "handler" => isRunning[job'.timer]
         /\ isRunning' = [isRunning EXCEPT ![job'.timer] = FALSE]
         /\ job'.walk = Tail(job.walk)
         /\ job'.expired = job.expired + tte[job'.timer]
         /\ job'.ticks = job.ticks - tte[job'.timer] /\ tte[job'.timer] \in Nat
         /\ UNCHANGED <<rtcOn, list, tte, elapsed, ops, stopping, stopped, disturbed>>
<1> DEFINE t == Head(job.walk)
<1>1. /\ At("expire") /\ job.walk # <<>>
      /\ job' = [job EXCEPT !.at = IF CallsHandler(t) THEN "handler" ELSE "expire",
                            !.walk = Tail(@), !.timer = t,
                            !.ticks = @ - tte[t], !.expired = @ + tte[t]]
      /\ isRunning' = [isRunning EXCEPT ![t] = FALSE]
      /\ UNCHANGED <<rtcOn, list, tte, elapsed, ops, stopping, stopped, disturbed>>
  BY DEF Expire, MoreExpired, rtc, ghosts
<1>2. InService
  BY <1>1 DEF InService, At
<1>3. /\ Len(list) \in Nat /\ Walked \in 0 .. Len(list)
      /\ Walked + 1 \in 1 .. Len(list) /\ t = list[Walked + 1] /\ t \in Timers
      /\ job.walk \in Seq(Timers)
  BY <1>1, <1>2, WalkFacts
<1>4. job \in Walks
  BY <1>2, JobKinds DEF TypeInv
<1>5. tte[t] \in Nat
  BY <1>3 DEF TypeInv, AppTimerTypeOK
<1> HIDE DEF t
<1>6. /\ job'.walk = Tail(job.walk) /\ job'.timer = t
      /\ job'.ticks = job.ticks - tte[t] /\ job'.expired = job.expired + tte[t]
      /\ job'.at = IF CallsHandler(t) THEN "handler" ELSE "expire"
  BY <1>1, <1>4 DEF Walks
<1>7. Walked' = Walked + 1
  <2> DEFINE k == Len(job.walk)
             m == Len(list)
  <2>1. Len(Tail(job.walk)) = k - 1 /\ k \in Nat /\ m \in Nat
    BY <1>1, <1>3
  <2>2. Walked = m - k /\ Walked' = m - (k - 1)
    BY <1>1, <1>6, <2>1 DEF Walked
  <2> HIDE DEF k, m
  <2> QED BY <2>1, <2>2
<1> QED BY <1>1, <1>3, <1>5, <1>6, <1>7 DEF CallsHandler

LEMMA WalkExpire ==
  ASSUME TypeInv, WalkInv, Expire
  PROVE  WalkInv'
<1>1. InService /\ InService'
  BY ExpireFacts DEF InService, At
<1>2. /\ Walked + 1 \in 1 .. Len(list) /\ Walked' = Walked + 1
      /\ job'.timer = list[Walked + 1] /\ job'.timer \in Timers
      /\ job'.walk = Tail(job.walk)
      /\ job'.expired = job.expired + tte[job'.timer]
      /\ job'.ticks = job.ticks - tte[job'.timer] /\ tte[job'.timer] \in Nat
      /\ UNCHANGED <<list, tte, elapsed, ops, disturbed>>
  BY ExpireFacts
<1>3. /\ list \in Seq(Timers) /\ Len(list) \in Nat
      /\ job.walk \in Seq(Timers) /\ job.ticks \in Nat /\ job.expired \in Nat
      /\ job.expired = Due(list, tte, Walked) /\ Walked \in 0 .. Len(list)
      /\ elapsed # NoTicks /\ Intact => elapsed <= job.ticks + job.expired
  BY <1>1, WalkFacts
<1>4. job.walk = SubSeq(list, Walked + 1, Len(list))
  BY <1>1 DEF WalkInv
<1>5. Due(list, tte, Walked + 1) = job.expired + tte[job'.timer]
  <2>1. (Walked + 1) - 1 = Walked
    BY <1>3
  <2> QED BY <1>2, <1>3, <2>1, DueSteps
<1>6. Tail(job.walk) = SubSeq(list, Walked' + 1, Len(list))
  <2> DEFINE m == Walked + 1
  <2>1. m \in 1 .. Len(list) /\ Len(list) \in m .. Len(list) /\ Walked' + 1 = m + 1
        /\ job.walk = SubSeq(list, m, Len(list))
    BY <1>2, <1>3, <1>4
  <2> HIDE DEF m
  <2>2. Tail(SubSeq(list, m, Len(list))) = SubSeq(list, m + 1, Len(list))
    BY <1>3, <2>1, HeadTailOfSubSeq
  <2> QED BY <2>1, <2>2
<1>7. job'.ticks + job'.expired = job.ticks + job.expired
  BY <1>2, <1>3
<1>8. Intact' => Intact
  BY <1>2 DEF Intact
<1>9. ~(job'.at \in {"insert", "compare", "set", "check", "clear"})
  BY ExpireFacts
<1>10. Walked' \in 0 .. Len(list)
  BY <1>2, <1>3
<1> QED BY <1>2, <1>3, <1>5, <1>6, <1>7, <1>8, <1>9, <1>10 DEF WalkInv

\* The calls of the application and of the thread.
Call ==
  \/ \E level \in 1 .. 3, t \in Timers, ticks \in Intervals : Start(level, t, ticks)
  \/ \E level \in 1 .. 3 : StopAll(level)
  \/ \E level \in 1 .. 2, t \in Timers : StopBegin(level, t)
  \/ \E level \in 1 .. 2 : StopEnd(level)
  \/ \E t \in Timers : StopAbove(t)

\* While the list is being changed, or the compare register is set.
Settling == job.at \in {"insert", "compare", "set", "check", "clear"}

LEMMA WalkFrame ==
  ASSUME WalkInv, UNCHANGED <<list, tte, elapsed, job>>, Intact' => Intact
  PROVE  WalkInv'
<1>1. Walked' = Walked /\ (InService' <=> InService)
  BY DEF Walked, InService
<1> QED BY <1>1 DEF WalkInv

LEMMA WalkStep ==
  ASSUME TypeInv, WalkInv, NotWrapped, Next
  PROVE  WalkInv'
<1>1. ASSUME Settling, Settling' \/ job'.at = "idle", elapsed' = elapsed PROVE WalkInv'
  BY <1>1 DEF WalkInv, Settling, InService
<1>2. ASSUME ~InService', ~Settling' PROVE WalkInv'
  BY <1>2 DEF WalkInv, Settling
<1>3. CASE RtcEnter
  <2>1. CASE list = <<>>
    <3>1. job' = Idle
      BY <1>3, <2>1 DEF RtcEnter
    <3> QED BY <1>2, <3>1 DEF InService, Settling, Idle
  <2>2. CASE list # <<>>
    <3> DEFINE d == Diff(counter, latest)
    <3>1. /\ job' = [at |-> "expire", walk |-> list, ticks |-> d, expired |-> 0, timer |-> None]
          /\ UNCHANGED <<list, tte, elapsed, ops, disturbed>>
      BY <1>3, <2>2 DEF RtcEnter, nodes, ghosts
    <3>2. elapsed # NoTicks /\ Intact => elapsed <= d
      BY DEF NotWrapped
    <3>3. d \in 0 .. Wrap - 1
      BY DiffRange DEF TypeInv, AppTimerTypeOK
    <3> HIDE DEF d
    <3>4. /\ job'.at = "expire" /\ job'.walk = list /\ job'.ticks = d /\ job'.expired = 0
      BY <3>1
    <3>5. list \in Seq(Timers) /\ Len(list) \in Nat
      BY DEF TypeInv, AppTimerTypeOK
    <3>6. Walked' = 0
      BY <3>1, <3>4, <3>5 DEF Walked
    <3>7. SubSeq(list, 0 + 1, Len(list)) = list
      BY <3>5, SubSeqFull
    <3>8. Due(list, tte, 0) = 0
      BY <3>5, DueSteps
    <3>9. Intact' => Intact
      BY <3>1 DEF Intact
    <3>10. d + 0 = d
      BY <3>3
    <3>11. Walked' \in 0 .. Len(list)
      BY <3>5, <3>6
    <3> QED BY <3>1, <3>2, <3>4, <3>6, <3>7, <3>8, <3>9, <3>10, <3>11 DEF WalkInv
  <2> QED BY <2>1, <2>2
<1>4. CASE Expire
  BY <1>4, WalkExpire
<1>5. CASE RtcLeave
  BY <1>2, <1>5 DEF RtcLeave, Idle, InService, Settling
<1>6. CASE SwiEnter
  <2>1. job'.at = "insert" /\ elapsed' = NoTicks
    BY <1>6 DEF SwiEnter
  <2> QED BY <2>1 DEF WalkInv, InService
<1>7. CASE Restart \/ ApplyStart \/ ApplyStop \/ ApplyStopAll
  <2>1. At("insert") /\ elapsed' = elapsed
    BY <1>7 DEF Restart, ApplyStart, ApplyStop, ApplyStopAll, Applying
  <2>2. job \in Inserts
    BY <2>1, JobKinds DEF TypeInv
  <2>3. job'.at = "insert"
    BY <1>7, <2>1, <2>2 DEF Restart, ApplyStart, ApplyStop, ApplyStopAll, At, Inserts
  <2> QED BY <1>1, <2>1, <2>3 DEF Settling, At
<1>8. CASE InsertLeave
  <2>1. At("insert") /\ elapsed' = elapsed /\ job'.at \in {"compare", "idle"}
    BY <1>8 DEF InsertLeave, Idle
  <2> QED BY <1>1, <2>1 DEF Settling, At
<1>9. CASE CompareBegin \/ CompareCheck \/ RtcStop \/ RtcClear
  <2>1. Settling /\ elapsed' = elapsed /\ job'.at \in {"set", "clear", "idle"}
    BY <1>9 DEF CompareBegin, CompareCheck, RtcStop, RtcClear, Idle, Settling, At
  <2> QED BY <1>1, <2>1 DEF Settling
<1>10. CASE CompareSet
  <2>1. At("set") /\ elapsed' = elapsed /\ job' = [job EXCEPT !.at = "check"]
    BY <1>10 DEF CompareSet
  <2>2. job \in Compares
    BY <2>1, JobKinds DEF TypeInv, At
  <2>3. job'.at = "check"
    BY <2>1, <2>2 DEF Compares
  <2> QED BY <1>1, <2>1, <2>3 DEF Settling, At
<1>11. CASE Tick
  <2>1. UNCHANGED <<list, tte, elapsed, job>> /\ (Intact' => Intact)
    BY <1>11, TickFacts DEF Intact
  <2> QED BY <2>1, WalkFrame
<1>12. CASE OtherEnter
  BY <1>2, <1>12 DEF OtherEnter, InService, Settling
<1>13. CASE HandlerReturn
  <2>1. CASE At("other")
    <3>1. job' = Idle
      BY <1>13, <2>1 DEF HandlerReturn, At
    <3> QED BY <1>2, <3>1 DEF Idle, InService, Settling
  <2>2. CASE At("handler")
    <3>1. /\ job' = [job EXCEPT !.at = "expire"]
          /\ UNCHANGED <<list, tte, elapsed, ops, disturbed>>
      BY <1>13, <2>2 DEF HandlerReturn, At, nodes, ghosts
    <3>2. job \in Walks
      BY <2>2, JobKinds DEF TypeInv, InService, At
    <3>3. /\ job'.at = "expire" /\ job'.walk = job.walk /\ job'.ticks = job.ticks
          /\ job'.expired = job.expired
      BY <3>1, <3>2 DEF Walks
    <3>4. Walked' = Walked /\ (Intact' <=> Intact)
      BY <3>1, <3>3 DEF Walked, Intact
    <3>5. InService
      BY <2>2 DEF InService, At
    <3> QED BY <3>1, <3>3, <3>4, <3>5 DEF WalkInv
  <2> QED BY <1>13, <2>1, <2>2 DEF HandlerReturn
<1>14. CASE Call
  BY <1>14, CallFacts, WalkFrame DEF Call
<1> QED BY <1>3, <1>4, <1>5, <1>6, <1>7, <1>8, <1>9, <1>10, <1>11, <1>12, <1>13, <1>14
        DEF Next, Level2, Call

\* The steps of level 2 that leave the list, and of other interrupts.
Work ==
  \/ OtherEnter \/ HandlerReturn \/ RtcEnter \/ RtcLeave \/ InsertLeave
  \/ CompareBegin \/ CompareSet \/ CompareCheck \/ RtcStop \/ RtcClear

\* From where to where.
LEMMA WorkJobs ==
  ASSUME TypeInv, Work
  PROVE  /\ job'.at # "insert"
         /\ InsertLeave \/ ~At("insert")
         /\ OtherEnter => At("idle") /\ job'.at = "other"
         /\ HandlerReturn => (At("other") /\ job'.at = "idle") \/ (At("handler") /\ job'.at = "expire")
         /\ RtcEnter => At("idle") /\ (job'.at = "idle" \/ (job'.at = "expire" /\ list # <<>>))
         /\ RtcLeave => At("expire") /\ job'.at = "idle"
         /\ InsertLeave => job'.at \in {"compare", "idle"}
         /\ CompareBegin => At("compare") /\ job'.at = "set"
         /\ CompareSet => At("set") /\ job'.at = "check"
         /\ CompareCheck => At("check") /\ job'.at = "idle"
         /\ RtcStop => At("compare") /\ job'.at = "clear"
         /\ RtcClear => At("clear") /\ job'.at = "idle"
<1>1. CASE OtherEnter
  BY <1>1 DEF OtherEnter, HandlerReturn, RtcEnter, RtcLeave, InsertLeave, CompareBegin, CompareSet, CompareCheck, RtcStop, RtcClear, At, Idle
<1>2. CASE HandlerReturn
  <2>1. CASE At("handler") /\ job' = [job EXCEPT !.at = "expire"]
    <3>1. job \in Walks
      BY <2>1, JobKinds DEF TypeInv, InService, At
    <3>2. job'.at = "expire"
      BY <2>1, <3>1 DEF Walks
    <3> QED BY <1>2, <2>1, <3>2 DEF OtherEnter, RtcEnter, RtcLeave, InsertLeave, CompareBegin, CompareSet, CompareCheck, RtcStop, RtcClear, At
  <2>2. CASE At("other") /\ job' = Idle
    BY <1>2, <2>2 DEF OtherEnter, RtcEnter, RtcLeave, InsertLeave, CompareBegin, CompareSet, CompareCheck, RtcStop, RtcClear, At, Idle
  <2> QED BY <1>2, <2>1, <2>2 DEF HandlerReturn
<1>3. CASE RtcEnter
  <2>1. At("idle") /\ (job'.at = "idle" \/ (job'.at = "expire" /\ list # <<>>))
    BY <1>3 DEF RtcEnter, Idle
  <2> QED BY <1>3, <2>1 DEF OtherEnter, HandlerReturn, RtcLeave, InsertLeave, CompareBegin, CompareSet, CompareCheck, RtcStop, RtcClear, At, Idle
<1>4. CASE RtcLeave
  BY <1>4 DEF OtherEnter, HandlerReturn, RtcEnter, RtcLeave, InsertLeave, CompareBegin, CompareSet, CompareCheck, RtcStop, RtcClear, At, Idle
<1>5. CASE InsertLeave
  BY <1>5 DEF OtherEnter, HandlerReturn, RtcEnter, RtcLeave, InsertLeave, CompareBegin, CompareSet, CompareCheck, RtcStop, RtcClear, At, Idle
<1>6. CASE CompareBegin
  BY <1>6 DEF OtherEnter, HandlerReturn, RtcEnter, RtcLeave, InsertLeave, CompareBegin, CompareSet, CompareCheck, RtcStop, RtcClear, At
<1>7. CASE CompareSet
  <2>1. At("set") /\ job' = [job EXCEPT !.at = "check"]
    BY <1>7 DEF CompareSet
  <2>2. job \in Compares
    BY <2>1, JobKinds DEF TypeInv, At
  <2>3. job'.at = "check"
    BY <2>1, <2>2 DEF Compares
  <2> QED BY <1>7, <2>1, <2>3 DEF OtherEnter, HandlerReturn, RtcEnter, RtcLeave, InsertLeave, CompareBegin, CompareCheck, RtcStop, RtcClear, At
<1>8. CASE CompareCheck
  BY <1>8 DEF OtherEnter, HandlerReturn, RtcEnter, RtcLeave, InsertLeave, CompareBegin, CompareSet, CompareCheck, RtcStop, RtcClear, At, Idle
<1>9. CASE RtcStop \/ RtcClear
  BY <1>9 DEF OtherEnter, HandlerReturn, RtcEnter, RtcLeave, InsertLeave, CompareBegin, CompareSet, CompareCheck, RtcStop, RtcClear, At, Idle
<1> QED BY <1>1, <1>2, <1>3, <1>4, <1>5, <1>6, <1>7, <1>8, <1>9 DEF Work

LEMMA ListStep ==
  ASSUME TypeInv, ListInv, WalkInv, MarkInv, Next
  PROVE  TypeInv' /\ ListInv'
<1>1. CASE Tick
  <2>1. list' = list /\ job' = job
    BY <1>1, TickFacts
  <2> QED BY <1>1, <2>1, TickTypes DEF ListInv, InsertedOnce, At
<1>2. CASE Call
  <2>1. list' = list /\ job' = job
    BY <1>2, CallFacts DEF Call
  <2> QED BY <1>2, <2>1, CallTypes DEF ListInv, InsertedOnce, At, Call
<1>3. CASE Work
  <2>1. list' = list /\ ~At("insert")'
    BY <1>3, WorkFacts, WorkJobs DEF Work, At
  <2>2. TypeInv'
    BY <1>3, WorkTypes DEF Work
  <2> QED BY <2>1, <2>2 DEF ListInv, InsertedOnce
<1>4. CASE Expire
  <2>1. list' = list /\ ~At("insert")'
    BY <1>4, ExpireFacts DEF At
  <2> QED BY <1>4, <2>1, WorkTypes DEF ListInv, InsertedOnce
<1>5. CASE SwiEnter
  BY <1>5, SwiEnterFacts DEF ListInv
<1>6. CASE Restart
  BY <1>6, RestartFacts
<1>7. CASE ApplyStart
  BY <1>7, ApplyStartFacts
<1>8. CASE ApplyStop
  BY <1>8, ApplyStopFacts
<1>9. CASE ApplyStopAll
  BY <1>9, ApplyStopAllFacts
<1> QED BY <1>1, <1>2, <1>3, <1>4, <1>5, <1>6, <1>7, <1>8, <1>9 DEF Next, Level2, Call, Work

LEMMA RunsStep ==
  ASSUME TypeInv, ListInv, WalkInv, MarkInv, RunsInv, Next
  PROVE  RunsInv'
<1>1. CASE Tick \/ Call
  <2>1. UNCHANGED <<list, job, rtcOn>>
    BY <1>1, TickFacts, CallFacts DEF Call
  <2> QED BY <2>1 DEF RunsInv, At
<1>2. CASE Expire
  <2>1. UNCHANGED <<list, rtcOn>> /\ At("expire") /\ job'.at \in {"expire", "handler"}
    BY <1>2, ExpireFacts
  <2> QED BY <2>1 DEF RunsInv, At
<1>3. CASE Work
  <2>1. list' = list
    BY <1>3, WorkFacts DEF Work
  <2>2. CASE InsertLeave
    <3>1. /\ At("insert") /\ rtcOn' = rtcOn
          /\ job'.at = "compare" \/ (job'.at = "idle" /\ ~UpdateNeeded)
      BY <2>2 DEF InsertLeave, Idle, rtc
    <3>2. CASE job'.at = "compare"
      BY <3>2 DEF RunsInv, At
    <3>3. CASE job'.at = "idle" /\ ~UpdateNeeded
      <4>1. ~job.update /\ job.head = IF list = <<>> THEN None ELSE Head(list)
        BY <3>3 DEF UpdateNeeded
      <4>2. list # <<>> => Head(list) \in Timers
        BY DEF TypeInv, AppTimerTypeOK
      <4>3. rtcOn <=> list # <<>>
        BY <3>1, <4>1, <4>2, SmallNumbers DEF RunsInv
      <4> QED BY <2>1, <3>1, <3>3, <4>3 DEF RunsInv, At
    <3> QED BY <3>1, <3>2, <3>3
  <2>3. CASE CompareBegin
    <3>1. At("compare") /\ job'.at = "set" /\ rtcOn' = TRUE /\ list # <<>>
      BY <1>3, <2>3, WorkJobs DEF CompareBegin
    <3> QED BY <2>1, <3>1 DEF RunsInv, At
  <2>4. CASE RtcStop
    <3>1. job'.at = "clear" /\ rtcOn' = FALSE /\ list = <<>>
      BY <1>3, <2>4, WorkJobs DEF RtcStop
    <3> QED BY <2>1, <3>1 DEF RunsInv, At
  <2>5. CASE OtherEnter \/ HandlerReturn \/ RtcEnter \/ RtcLeave
    <3>1. /\ job.at \in {"idle", "other", "expire", "handler"}
          /\ job'.at \in {"idle", "other", "expire", "handler"}
      BY <1>3, <2>5, WorkJobs DEF At
    <3>2. rtcOn' = rtcOn
      BY <2>5 DEF OtherEnter, HandlerReturn, RtcEnter, RtcLeave, rtc
    <3> QED BY <2>1, <3>1, <3>2 DEF RunsInv, At
  <2>6. CASE CompareSet \/ CompareCheck \/ RtcClear
    <3>1. \/ At("set") /\ job'.at = "check"
          \/ At("check") /\ job'.at = "idle"
          \/ At("clear") /\ job'.at = "idle"
      BY <1>3, <2>6, WorkJobs
    <3>2. rtcOn' = rtcOn
      BY <2>6 DEF CompareSet, CompareCheck, RtcClear
    <3> QED BY <2>1, <3>1, <3>2 DEF RunsInv, At
  <2> QED BY <1>3, <2>2, <2>3, <2>4, <2>5, <2>6 DEF Work
<1>4. CASE SwiEnter
  <2>1. At("idle") /\ rtcOn' = rtcOn
    BY <1>4 DEF SwiEnter, rtc
  <2>2. /\ job'.at = "insert" /\ job'.update = (elapsed # NoTicks)
        /\ job'.head = IF list' = <<>> THEN None ELSE Head(list')
        /\ elapsed = NoTicks => list' = list
    BY <1>4, SwiEnterFacts DEF ListInv
  <2>3. list # <<>> => Head(list) \in Timers
    BY DEF TypeInv, AppTimerTypeOK
  <2>4. rtcOn <=> list # <<>>
    BY <2>1 DEF RunsInv, At
  <2>5. ~job'.update => (rtcOn' <=> job'.head # None)
    BY <2>1, <2>2, <2>3, <2>4, SmallNumbers
  <2> QED BY <2>2, <2>5 DEF RunsInv, At
<1>5. CASE Restart \/ ApplyStart \/ ApplyStop \/ ApplyStopAll
  <2>1. At("insert") /\ rtcOn' = rtcOn
    BY <1>5 DEF Restart, ApplyStart, ApplyStop, ApplyStopAll, Applying, rtc
  <2>2. job'.at = "insert" /\ job'.head = job.head /\ (job.update => job'.update)
    BY <1>5, <2>1, RestartFacts, ApplyStartFacts, ApplyStopFacts, ApplyStopAllFacts DEF At
  <2> QED BY <2>1, <2>2 DEF RunsInv, At
<1> QED BY <1>1, <1>2, <1>3, <1>4, <1>5 DEF Next, Level2, Call, Work

-----------------------------------------------------------------------------
(* Timers that are marked as not running.                                  *)

\* The list tells the same.
LEMMA WaitingFrame ==
  ASSUME UNCHANGED <<list, tte, elapsed>>,
         job' = job \/ (~InService /\ ~InService')
  PROVE  \A t : Waiting(t)' <=> Waiting(t)
<1>1. CASE job' = job
  BY <1>1 DEF Waiting, Gone, InService, Walked
<1>2. CASE ~InService /\ ~InService'
  BY <1>2 DEF Waiting, Gone
<1> QED BY <1>1, <1>2

\* What level 2 leaves in the list is not found waiting because of that.
LEMMA WaitingWork ==
  ASSUME TypeInv, WalkInv, Intact, Work
  PROVE  \A t : Waiting(t)' => Waiting(t)
<1>1. list' = list /\ tte' = tte
  BY WorkFacts DEF Work
<1>2. list \in Seq(Timers) /\ Len(list) \in Nat /\ DOMAIN list = 1 .. Len(list) /\ tte \in [Timers -> Nat]
      /\ elapsed \in Nat \cup {NoTicks}
  BY DEF TypeInv, AppTimerTypeOK
<1>3. ASSUME \A i \in DOMAIN list : Gone(i) => Gone(i)' PROVE \A t : Waiting(t)' => Waiting(t)
  BY <1>1, <1>3 DEF Waiting
<1>4. CASE RtcLeave
  <2>1. /\ At("expire") /\ ~MoreExpired /\ elapsed' = job.expired /\ job' = Idle
    BY <1>4 DEF RtcLeave
  <2>2. InService /\ ~InService'
    BY <2>1 DEF InService, At, Idle
  <2>3. /\ job.walk \in Seq(Timers) /\ job.ticks \in Nat /\ job.expired \in Nat
        /\ Walked \in 0 .. Len(list) /\ job.expired = Due(list, tte, Walked)
        /\ job.walk = <<>> <=> Walked = Len(list)
        /\ job.walk # <<>> => /\ Walked + 1 \in 1 .. Len(list) /\ Head(job.walk) \in Timers
                              /\ Due(list, tte, Walked + 1) = job.expired + tte[Head(job.walk)]
        /\ elapsed # NoTicks => elapsed <= job.ticks + job.expired
    BY <2>2, WalkFacts
  <2> DEFINE D(n) == Due(list, tte, n)
             w == Walked
             m == Len(list)
  <2>4. /\ \A n \in 0 .. m : D(n) \in Nat
        /\ \A i, j \in 0 .. m : i <= j => D(i) <= D(j)
    BY <1>2, DueGrows
  <2>5. elapsed' # NoTicks /\ elapsed' = D(w)
    BY <2>1, <2>3 DEF NoTicks
  <2>6. ASSUME NEW i \in DOMAIN list, Gone(i) PROVE i <= w
    <3>1. i \in 1 .. m /\ ((elapsed # NoTicks /\ D(i) <= elapsed) \/ i <= w)
      BY <1>2, <2>6 DEF Gone
    <3>2. ASSUME elapsed # NoTicks, D(i) <= elapsed PROVE i <= w
      <4>1. CASE w = m
        BY <3>1, <4>1
      <4>2. CASE w # m
        <5>1. job.walk # <<>>
          BY <2>3, <4>2
        <5>2. ~(job.ticks >= tte[Head(job.walk)])
          BY <2>1, <5>1 DEF MoreExpired, Expired
        <5>3. tte[Head(job.walk)] \in Nat
          BY <1>2, <2>3, <5>1
        <5>4. D(w + 1) = job.expired + tte[Head(job.walk)] /\ w + 1 \in 1 .. m
          BY <2>3, <5>1
        <5> DEFINE e == job.expired
                   k == job.ticks
                   h == tte[Head(job.walk)]
        <5>5. /\ e \in Nat /\ k \in Nat /\ h \in Nat /\ elapsed \in Nat /\ elapsed <= k + e
              /\ ~(k >= h) /\ D(w + 1) = e + h
          BY <1>2, <2>3, <3>2, <5>2, <5>3, <5>4
        <5> HIDE DEF D, w, m, e, k, h
        <5>6. D(w + 1) > elapsed
          BY <5>5
        <5>7. D(i) \in Nat /\ (w + 1 <= i => D(w + 1) <= D(i))
          <6>1. i \in 0 .. m /\ w + 1 \in 0 .. m
            BY <3>1, <5>4
          <6> QED BY <2>4, <6>1
        <5>8. ~(w + 1 <= i)
          BY <3>2, <5>5, <5>6, <5>7
        <5>9. w \in Nat /\ i \in Nat
          BY <2>3, <3>1 DEF w, m
        <5> QED BY <5>8, <5>9
      <4> QED BY <4>1, <4>2
    <3> QED BY <3>1, <3>2
  <2>7. ASSUME NEW i \in DOMAIN list, Gone(i) PROVE Gone(i)'
    <3>1. i <= w
      BY <2>6, <2>7
    <3>4. i \in 0 .. m /\ w \in 0 .. m
      <4>1. i \in 1 .. m /\ m \in Nat
        BY <1>2
      <4>2. w \in 0 .. m
        BY <2>3
      <4> HIDE DEF m, w
      <4> QED BY <4>1, <4>2
    <3>2. D(i) <= D(w)
      BY <2>4, <3>1, <3>4
    <3>3. D(i)' = D(i)
      BY <1>1
    <3> QED BY <2>5, <3>2, <3>3 DEF Gone
  <2> QED BY <1>3, <2>7
<1>5. CASE RtcEnter
  <2>1. elapsed' = elapsed /\ At("idle")
    BY <1>5 DEF RtcEnter
  <2> QED BY <1>1, <1>3, <2>1, IdleGone DEF Gone
<1>6. CASE HandlerReturn
  <2>1. elapsed' = elapsed
    BY <1>6 DEF HandlerReturn
  <2>2. CASE At("other")
    <3>1. ~InService /\ ~InService'
      BY <1>6, <2>2, WorkJobs DEF At, InService
    <3> QED BY <1>1, <2>1, <3>1, WaitingFrame
  <2>3. CASE At("handler")
    <3>1. job' = [job EXCEPT !.at = "expire"]
      BY <1>6, <2>3 DEF HandlerReturn, At
    <3>2. job \in Walks /\ InService
      BY <2>3, JobKinds DEF TypeInv, InService, At
    <3>3. InService' /\ job'.walk = job.walk
      BY <3>1, <3>2 DEF Walks, InService
    <3>4. Walked' = Walked
      BY <1>1, <3>3 DEF Walked
    <3> QED BY <1>1, <1>3, <2>1, <3>2, <3>3, <3>4 DEF Gone
  <2> QED BY <1>6, <2>2, <2>3 DEF HandlerReturn
<1>7. CASE OtherEnter \/ InsertLeave \/ CompareBegin \/ CompareSet \/ CompareCheck \/ RtcStop \/ RtcClear
  <2>1. ~InService /\ ~InService'
    <3>1. InsertLeave => At("insert")
      BY DEF InsertLeave
    <3> QED BY <1>7, <3>1, WorkJobs DEF At, InService
  <2>2. elapsed' = elapsed
    BY <1>7 DEF OtherEnter, InsertLeave, CompareBegin, CompareSet, CompareCheck, RtcStop, RtcClear
  <2> QED BY <1>1, <2>1, <2>2, WaitingFrame
<1> QED BY <1>4, <1>5, <1>6, <1>7 DEF Work

\* A timer that was found expired is not waiting any more.
LEMMA WaitingExpire ==
  ASSUME TypeInv, ListInv, WalkInv, Expire
  PROVE  \A t : Waiting(t)' => Waiting(t) /\ t # job'.timer
<1>1. /\ UNCHANGED <<list, tte, elapsed>>
      /\ Walked + 1 \in 1 .. Len(list) /\ Walked' = Walked + 1 /\ job'.timer = list[Walked + 1]
      /\ InService /\ InService'
  BY ExpireFacts DEF InService, At
<1>2. Len(list) \in Nat /\ DOMAIN list = 1 .. Len(list) /\ Walked \in 0 .. Len(list)
  BY <1>1, WalkFacts
<1>3. ASSUME NEW i \in DOMAIN list PROVE (Gone(i) => Gone(i)') /\ (i = Walked + 1 => Gone(i)')
  <2>1. i \in Nat /\ Walked \in Nat
    BY <1>2
  <2>2. i <= Walked => i <= Walked'
    BY <1>1, <2>1
  <2>3. i = Walked + 1 => i <= Walked'
    BY <1>1, <2>1
  <2> QED BY <1>1, <2>2, <2>3 DEF Gone
<1>4. ASSUME NEW t, Waiting(t)' PROVE Waiting(t) /\ t # job'.timer
  <2>1. PICK i \in DOMAIN list : list[i] = t /\ ~Gone(i)'
    BY <1>1, <1>4 DEF Waiting
  <2>2. ~Gone(i) /\ i # Walked + 1
    BY <1>3, <2>1
  <2>3. list[i] # list[Walked + 1]
    BY <1>1, <1>2, <2>2 DEF ListInv, InsertedOnce
  <2> QED BY <1>1, <2>1, <2>2, <2>3 DEF Waiting
<1> QED BY <1>4

\* The parts of MarkInv.
HeldBack == Intact => \A t \in Timers : Waiting(t) /\ ~isRunning[t] => Held(t)
StopFirst ==
  \A t \in Timers, j \in DOMAIN ops :
    Starts(ops[j], t) /\ Waiting(t) /\ ~isRunning[t] => \E i \in 1 .. j - 1 : Stops(ops[i], t)

\* A step that leaves the calls alone and lets no timer wait that did not.
LEMMA MarkKeep ==
  ASSUME TypeInv, MarkInv,
         Intact' => Intact,
         Intact => \A t \in Timers : Waiting(t)' /\ ~isRunning'[t] => Waiting(t) /\ ~isRunning[t],
         stopping' = stopping, stopped' = stopped,
         DOMAIN ops' = DOMAIN ops,
         \A i \in DOMAIN ops : ops'[i].type = ops[i].type /\ ops'[i].timer = ops[i].timer,
         stopping[2] # None => job'.at \in {"handler", "other"} /\ ~isRunning'[stopping[2]]
  PROVE  MarkInv'
<1>1. Len(ops) \in Nat /\ DOMAIN ops = 1 .. Len(ops)
  BY DEF TypeInv
<1>2. \A i \in DOMAIN ops, t \in Timers :
        /\ Starts(ops'[i], t) <=> Starts(ops[i], t)
        /\ Stops(ops'[i], t) <=> Stops(ops[i], t)
  BY DEF Starts, Stops
<1>3. \A t \in Timers : Held(t) => Held(t)'
  BY <1>2 DEF Held
<1>4. HeldBack /\ StopFirst
  BY DEF MarkInv, HeldBack, StopFirst
<1>5. HeldBack'
  BY <1>3, <1>4 DEF HeldBack
<1>6. StopFirst'
  <2>1. SUFFICES ASSUME NEW t \in Timers, NEW j \in DOMAIN ops', Starts(ops'[j], t), Waiting(t)',
                        ~isRunning'[t]
                 PROVE  \E i \in 1 .. j - 1 : Stops(ops'[i], t)
    BY DEF StopFirst
  <2>2. j \in DOMAIN ops /\ Starts(ops[j], t)
    BY <1>2, <2>1
  <2>3. Intact
    BY <2>2 DEF Intact, Starts
  <2>4. PICK i \in 1 .. j - 1 : Stops(ops[i], t)
    BY <1>4, <2>1, <2>2, <2>3 DEF StopFirst
  <2>5. i \in DOMAIN ops
    BY <1>1, <2>2
  <2> QED BY <1>2, <2>4, <2>5
<1> QED BY <1>5, <1>6 DEF MarkInv, HeldBack, StopFirst

LEMMA MarkStart ==
  ASSUME TypeInv, MarkInv, Careful, NEW level, NEW t \in Timers, NEW ticks \in Intervals,
         Start(level, t, ticks)
  PROVE  MarkInv'
<1> DEFINE n == Len(ops)
<1>1. /\ UNCHANGED <<list, tte, isRunning, elapsed, job, stopping>>
      /\ ~disturbed /\ MayStart(t)
      /\ stopped' = [stopped EXCEPT ![t] = "no"]
      /\ n \in Nat /\ DOMAIN ops = 1 .. n /\ DOMAIN ops' = 1 .. n + 1
      /\ Starts(ops'[n + 1], t) /\ \A i \in DOMAIN ops : ops'[i] = ops[i]
  BY StartFacts
<1>2. Intact
  BY <1>1 DEF Intact
<1>3. \A u : Waiting(u)' <=> Waiting(u)
  BY <1>1, WaitingFrame
<1>4. HeldBack /\ StopFirst /\ stopped \in [Timers -> {"no", "yes", "failed"}]
  BY DEF MarkInv, HeldBack, StopFirst, TypeInv, AppTimerTypeOK
<1> HIDE DEF n
<1>5. ASSUME Waiting(t), ~isRunning[t] PROVE \E i \in 1 .. n : Stops(ops[i], t)
  <2>1. Held(t)
    BY <1>2, <1>4, <1>5 DEF HeldBack
  <2>2. ~(stopped[t] = "failed" /\ Contains(list, t)) /\ t \notin {stopping[1], stopping[2]}
    BY <1>1 DEF MayStart
  <2>3. Contains(list, t)
    BY <1>5 DEF Waiting, Contains, TypeInv, AppTimerTypeOK
  <2> QED BY <1>1, <2>1, <2>2, <2>3 DEF Held
<1>6. ASSUME NEW u \in Timers, Waiting(u), ~isRunning[u] PROVE Held(u)'
  <2>1. CASE u = t
    <3>1. PICK i \in 1 .. n : Stops(ops[i], t)
      BY <1>5, <1>6, <2>1
    <3>2. i \in DOMAIN ops' /\ Stops(ops'[i], u)
      BY <1>1, <2>1, <3>1
    <3> QED BY <3>2 DEF Held
  <2>2. CASE u # t
    <3>1. Held(u) /\ stopped'[u] = stopped[u]
      BY <1>1, <1>2, <1>4, <1>6, <2>2 DEF HeldBack
    <3>2. \A i \in DOMAIN ops : i \in DOMAIN ops'
      BY <1>1
    <3> QED BY <1>1, <3>1, <3>2 DEF Held
  <2> QED BY <2>1, <2>2
<1>7. HeldBack'
  BY <1>1, <1>3, <1>6 DEF HeldBack
<1>8. StopFirst'
  <2>1. SUFFICES ASSUME NEW u \in Timers, NEW j \in 1 .. n + 1, Starts(ops'[j], u), Waiting(u),
                        ~isRunning[u]
                 PROVE  \E i \in 1 .. j - 1 : Stops(ops'[i], u)
    BY <1>1, <1>3 DEF StopFirst
  <2>2. CASE j = n + 1
    <3>1. u = t /\ j - 1 = n
      BY <1>1, <2>1, <2>2 DEF Starts
    <3> QED BY <1>1, <1>5, <2>1, <3>1
  <2>3. CASE j # n + 1
    <3>1. j \in 1 .. n
      BY <1>1, <2>1, <2>3
    <3>2. PICK i \in 1 .. j - 1 : Stops(ops[i], u)
      BY <1>1, <1>4, <2>1, <3>1 DEF StopFirst
    <3>3. i \in 1 .. n
      BY <1>1, <3>1, <3>2
    <3> QED BY <1>1, <3>2, <3>3
  <2> QED BY <2>2, <2>3
<1> QED BY <1>1, <1>7, <1>8 DEF MarkInv, HeldBack, StopFirst

\* A call that queues no start.
LEMMA MarkQueue ==
  ASSUME TypeInv, MarkInv, UNCHANGED <<list, tte, elapsed, job, disturbed>>,
         ops' = ops \/ (/\ DOMAIN ops' = 1 .. Len(ops) + 1
                        /\ ops'[Len(ops) + 1].type # "start"
                        /\ \A i \in DOMAIN ops : ops'[i] = ops[i]),
         \A u \in Timers : ~isRunning'[u] /\ isRunning[u] =>
             Held(u)' /\ \A j \in DOMAIN ops : ~Starts(ops[j], u),
         \A u \in Timers : Held(u) => Held(u)',
         stopping'[2] # None => job.at \in {"handler", "other"} /\ ~isRunning'[stopping'[2]],
         isRunning \in [Timers -> BOOLEAN], isRunning' \in [Timers -> BOOLEAN]
  PROVE  MarkInv'
<1>1. Len(ops) \in Nat /\ DOMAIN ops = 1 .. Len(ops)
  BY DEF TypeInv
<1>2. \A u : Waiting(u)' <=> Waiting(u)
  BY WaitingFrame
<1>3. HeldBack /\ StopFirst
  BY DEF MarkInv, HeldBack, StopFirst
<1>4. \A j \in DOMAIN ops' : ops'[j].type = "start" => j \in DOMAIN ops /\ ops'[j] = ops[j]
  BY <1>1
<1>5. \A i \in DOMAIN ops : i \in DOMAIN ops' /\ ops'[i] = ops[i]
  BY <1>1
<1>6. Intact' => Intact
  BY <1>4 DEF Intact
<1>7. HeldBack'
  <2>1. SUFFICES ASSUME Intact, NEW u \in Timers, Waiting(u), ~isRunning'[u] PROVE Held(u)'
    BY <1>2, <1>6 DEF HeldBack
  <2>2. CASE isRunning[u]
    BY <2>1, <2>2
  <2>3. CASE ~isRunning[u]
    BY <1>3, <2>1, <2>3 DEF HeldBack
  <2> QED BY <2>2, <2>3
<1>8. StopFirst'
  <2>1. SUFFICES ASSUME NEW u \in Timers, NEW j \in DOMAIN ops', Starts(ops'[j], u), Waiting(u),
                        ~isRunning'[u]
                 PROVE  \E i \in 1 .. j - 1 : Stops(ops'[i], u)
    BY <1>2 DEF StopFirst
  <2>2. j \in DOMAIN ops /\ Starts(ops[j], u)
    BY <1>4, <2>1 DEF Starts
  <2>3. ~isRunning[u]
    BY <2>1, <2>2
  <2>4. PICK i \in 1 .. j - 1 : Stops(ops[i], u)
    BY <1>3, <2>1, <2>2, <2>3 DEF StopFirst
  <2>5. i \in DOMAIN ops
    BY <1>1, <2>2, <2>4
  <2> QED BY <1>5, <2>4, <2>5
<1> QED BY <1>7, <1>8 DEF MarkInv, HeldBack, StopFirst

LEMMA MarkCall ==
  ASSUME TypeInv, TypeInv', MarkInv, Careful, Call
  PROVE  MarkInv'
<1>1. /\ isRunning \in [Timers -> BOOLEAN] /\ isRunning' \in [Timers -> BOOLEAN]
      /\ stopped \in [Timers -> {"no", "yes", "failed"}]
      /\ stopping \in [{1, 2} -> Timers \cup {None}]
  BY DEF TypeInv, AppTimerTypeOK
<1>2. Len(ops) \in Nat /\ DOMAIN ops = 1 .. Len(ops)
  BY DEF TypeInv
<1>3. stopping[2] # None => job.at \in {"handler", "other"} /\ ~isRunning[stopping[2]]
  BY DEF MarkInv
<1>4. ASSUME NEW level \in 1 .. 3, NEW t \in Timers, NEW ticks \in Intervals, Start(level, t, ticks)
      PROVE  MarkInv'
  BY <1>4, MarkStart
<1>5. ASSUME NEW level \in 1 .. 3, StopAll(level) PROVE MarkInv'
  <2>1. /\ UNCHANGED <<list, tte, isRunning, elapsed, job, stopping, stopped, disturbed>>
        /\ DOMAIN ops' = 1 .. Len(ops) + 1
        /\ ops'[Len(ops) + 1].type = "stopall"
        /\ \A i \in DOMAIN ops : ops'[i] = ops[i]
    BY <1>5, StopAllFacts
  <2>2. \A u \in Timers : Held(u) => Held(u)'
    <3>1. \A i \in DOMAIN ops : i \in DOMAIN ops' /\ ops'[i] = ops[i]
      BY <1>2, <2>1
    <3> QED BY <2>1, <3>1 DEF Held
  <2> QED BY <1>1, <1>3, <2>1, <2>2, MarkQueue
<1>6. ASSUME NEW level \in 1 .. 2, NEW t \in Timers, StopBegin(level, t) PROVE MarkInv'
  <2>1. /\ UNCHANGED <<list, tte, elapsed, job, disturbed, ops, stopped>>
        /\ MayStop(t) /\ Calling(level) /\ stopping[level] = None
        /\ stopping' = [stopping EXCEPT ![level] = t]
        /\ isRunning' = [isRunning EXCEPT ![t] = FALSE]
    BY <1>6 DEF StopBegin
  <2>2. level = 1 \/ level = 2
    OBVIOUS
  <2>3. \A u \in Timers : Held(u) => Held(u)'
    <3>1. \A u \in Timers : u \in {stopping[1], stopping[2]} => u \in {stopping'[1], stopping'[2]}
      BY <1>1, <2>1, <2>2, SmallNumbers
    <3> QED BY <2>1, <3>1 DEF Held
  <2>4. Held(t)'
    <3>1. t \in {stopping'[1], stopping'[2]}
      BY <1>1, <2>1, <2>2
    <3> QED BY <3>1 DEF Held
  <2>5. \A u \in Timers : ~isRunning'[u] /\ isRunning[u] =>
             Held(u)' /\ \A j \in DOMAIN ops : ~Starts(ops[j], u)
    <3>1. \A u \in Timers : ~isRunning'[u] /\ isRunning[u] => u = t
      BY <1>1, <2>1
    <3>2. isRunning[t] => \A j \in DOMAIN ops : ~Starts(ops[j], t)
      BY <2>1 DEF MayStop, Starts
    <3> QED BY <2>4, <3>1, <3>2
  <2>6. stopping'[2] # None => job.at \in {"handler", "other"} /\ ~isRunning'[stopping'[2]]
    <3>1. CASE level = 2
      BY <1>1, <2>1, <3>1 DEF Calling
    <3>2. CASE level = 1
      <4>1. stopping'[2] = stopping[2]
        BY <1>1, <2>1, <3>2
      <4>2. \A u \in Timers : ~isRunning[u] => ~isRunning'[u]
        BY <1>1, <2>1
      <4> QED BY <1>1, <1>3, <4>1, <4>2
    <3> QED BY <2>2, <3>1, <3>2
  <2> QED BY <1>1, <2>1, <2>3, <2>5, <2>6, MarkQueue
<1>7. ASSUME NEW level \in 1 .. 2, StopEnd(level) PROVE MarkInv'
  <2>0. PICK t \in Timers : stopping[level] = t
    BY <1>7, StopEndFacts
  <2>1. /\ UNCHANGED <<list, tte, isRunning, elapsed, job, disturbed>>
        /\ t \in Timers /\ stopping' = [stopping EXCEPT ![level] = None]
        /\ \/ /\ Queued(t)
              /\ stopped' = [stopped EXCEPT ![t] = IF level = 1 THEN "no" ELSE "yes"]
           \/ ops' = ops /\ stopped' = [stopped EXCEPT ![t] = "failed"]
    BY <1>7, <2>0, StopEndFacts
  <2>2. level = 1 \/ level = 2
    OBVIOUS
  <2>3. \A u \in Timers : u # t => stopped'[u] = stopped[u]
    BY <1>1, <2>1
  <2>4. \A u \in Timers : u # t /\ u \in {stopping[1], stopping[2]} => u \in {stopping'[1], stopping'[2]}
    BY <1>1, <2>0, <2>1, <2>2
  <2>5. \A i \in DOMAIN ops : i \in DOMAIN ops' /\ ops'[i] = ops[i]
    BY <1>2, <2>1 DEF Queued
  <2>6. Held(t)'
    <3>1. CASE Queued(t)
      <4>1. Len(ops) + 1 \in DOMAIN ops' /\ Stops(ops'[Len(ops) + 1], t)
        BY <1>2, <3>1 DEF Queued
      <4> QED BY <4>1 DEF Held
    <3>2. CASE stopped' = [stopped EXCEPT ![t] = "failed"]
      BY <1>1, <2>1, <3>2 DEF Held
    <3> QED BY <2>1, <3>1, <3>2
  <2>7. ASSUME NEW u \in Timers, Held(u) PROVE Held(u)'
    <3>1. CASE u = t
      BY <2>6, <3>1
    <3>2. CASE u # t
      <4>1. CASE stopped[u] = "failed"
        BY <2>3, <3>2, <4>1 DEF Held
      <4>2. CASE u \in {stopping[1], stopping[2]}
        BY <2>4, <3>2, <4>2 DEF Held
      <4>3. CASE \E i \in DOMAIN ops : Stops(ops[i], u)
        BY <2>5, <4>3 DEF Held
      <4> QED BY <2>7, <4>1, <4>2, <4>3 DEF Held
    <3> QED BY <3>1, <3>2
  <2>8. stopping'[2] # None => job.at \in {"handler", "other"} /\ ~isRunning'[stopping'[2]]
    <3>1. stopping'[2] # None => stopping'[2] = stopping[2]
      BY <1>1, <2>1, <2>2
    <3> QED BY <1>3, <2>1, <3>1
  <2>9. ops' = ops \/ (/\ DOMAIN ops' = 1 .. Len(ops) + 1
                       /\ ops'[Len(ops) + 1].type # "start"
                       /\ \A i \in DOMAIN ops : ops'[i] = ops[i])
    BY <2>1 DEF Queued, Stops
  <2> QED BY <1>1, <2>1, <2>7, <2>8, <2>9, MarkQueue
<1>8. ASSUME NEW t \in Timers, StopAbove(t) PROVE MarkInv'
  <2>1. /\ UNCHANGED <<list, tte, elapsed, job, stopping, disturbed>>
        /\ MayStop(t) /\ isRunning' = [isRunning EXCEPT ![t] = FALSE]
        /\ \/ Queued(t) /\ stopped' = [stopped EXCEPT ![t] = "yes"]
           \/ ops' = ops /\ stopped' = [stopped EXCEPT ![t] = "failed"]
    BY <1>8, StopAboveFacts
  <2>2. \A u \in Timers : u # t => stopped'[u] = stopped[u]
    BY <1>1, <2>1
  <2>3. \A i \in DOMAIN ops : i \in DOMAIN ops' /\ ops'[i] = ops[i]
    BY <1>2, <2>1 DEF Queued
  <2>4. Held(t)'
    <3>1. CASE Queued(t)
      <4>1. Len(ops) + 1 \in DOMAIN ops' /\ Stops(ops'[Len(ops) + 1], t)
        BY <1>2, <3>1 DEF Queued
      <4> QED BY <4>1 DEF Held
    <3>2. CASE stopped' = [stopped EXCEPT ![t] = "failed"]
      BY <1>1, <2>1, <3>2 DEF Held
    <3> QED BY <2>1, <3>1, <3>2
  <2>5. \A u \in Timers : Held(u) => Held(u)'
    BY <2>1, <2>2, <2>3, <2>4 DEF Held
  <2>6. \A u \in Timers : ~isRunning'[u] /\ isRunning[u] =>
             Held(u)' /\ \A j \in DOMAIN ops : ~Starts(ops[j], u)
    <3>1. \A u \in Timers : ~isRunning'[u] /\ isRunning[u] => u = t
      BY <1>1, <2>1
    <3>2. isRunning[t] => \A j \in DOMAIN ops : ~Starts(ops[j], t)
      BY <2>1 DEF MayStop, Starts
    <3> QED BY <2>4, <3>1, <3>2
  <2>7. stopping'[2] # None => job.at \in {"handler", "other"} /\ ~isRunning'[stopping'[2]]
    <3>1. \A u \in Timers : ~isRunning[u] => ~isRunning'[u]
      BY <1>1, <2>1
    <3> QED BY <1>1, <1>3, <2>1, <3>1
  <2>8. ops' = ops \/ (/\ DOMAIN ops' = 1 .. Len(ops) + 1
                       /\ ops'[Len(ops) + 1].type # "start"
                       /\ \A i \in DOMAIN ops : ops'[i] = ops[i])
    BY <2>1 DEF Queued, Stops
  <2> QED BY <1>1, <2>1, <2>5, <2>6, <2>7, <2>8, MarkQueue
<1> QED BY <1>4, <1>5, <1>6, <1>7, <1>8 DEF Call

\* An operation that is applied leaves the queue.
LEMMA MarkApply ==
  ASSUME TypeInv, TypeInv', WalkInv, WalkInv', MarkInv, NEW type, Applying(type), At("insert")',
         stopping' = stopping, disturbed' = disturbed,
         \A u \in Timers : Contains(list', u) /\ ~isRunning'[u] =>
           /\ Contains(list, u) /\ ~isRunning[u] /\ ~Stops(ops[1], u) /\ stopped'[u] = stopped[u]
  PROVE  MarkInv'
<1> DEFINE n == Len(ops)
<1>1. /\ n \in Nat /\ n >= 1 /\ Len(ops') = n - 1
      /\ \A i \in 1 .. n - 1 : ops'[i] = ops[i + 1]
      /\ At("insert")
      /\ DOMAIN ops = 1 .. n /\ DOMAIN ops' = 1 .. n - 1
  <2>1. ops \in Seq(Ops) /\ Len(ops) <= QueueSize /\ \A i \in DOMAIN ops : OpInv(ops[i])
    BY DEF TypeInv, AppTimerTypeOK
  <2>2. /\ ops' \in Seq(Ops) /\ Len(ops) \in Nat /\ Len(ops) >= 1 /\ Len(ops') = Len(ops) - 1
        /\ \A i \in 1 .. Len(ops) - 1 : ops'[i] = ops[i + 1]
        /\ At("insert")
    BY <2>1, DequeueFacts
  <2> QED BY <2>1, <2>2
<1>2. \A u : Waiting(u) <=> Contains(list, u)
  BY <1>1, InsertGone
<1>3. \A u : Waiting(u)' <=> Contains(list', u)
  BY InsertGoneNext
<1>4. HeldBack /\ StopFirst
  BY DEF MarkInv, HeldBack, StopFirst
<1> HIDE DEF n
<1>5. \A i \in 1 .. n - 1 : i + 1 \in 1 .. n
  BY <1>1
<1>6. Intact' => Intact
  BY <1>1, <1>5 DEF Intact
<1>7. ASSUME NEW i \in 1 .. n, NEW u, Stops(ops[i], u), ~Stops(ops[1], u)
      PROVE  i - 1 \in 1 .. n - 1 /\ Stops(ops'[i - 1], u)
  <2>1. i # 1
    BY <1>7
  <2>2. i - 1 \in 1 .. n - 1 /\ (i - 1) + 1 = i
    BY <1>1, <2>1
  <2> QED BY <1>1, <1>7, <2>2
<1>8. HeldBack'
  <2>1. SUFFICES ASSUME Intact, NEW u \in Timers, Contains(list', u), ~isRunning'[u] PROVE Held(u)'
    BY <1>3, <1>6 DEF HeldBack
  <2>2. /\ Contains(list, u) /\ ~isRunning[u] /\ ~Stops(ops[1], u) /\ stopped'[u] = stopped[u]
    BY <2>1
  <2>3. Held(u)
    BY <1>2, <1>4, <2>1, <2>2 DEF HeldBack
  <2>4. CASE stopped[u] = "failed" \/ u \in {stopping[1], stopping[2]}
    BY <2>2, <2>4 DEF Held
  <2>5. CASE \E i \in DOMAIN ops : Stops(ops[i], u)
    BY <1>1, <1>7, <2>2, <2>5 DEF Held
  <2> QED BY <2>3, <2>4, <2>5 DEF Held
<1>9. StopFirst'
  <2>1. SUFFICES ASSUME NEW u \in Timers, NEW j \in 1 .. n - 1, Starts(ops'[j], u),
                        Contains(list', u), ~isRunning'[u]
                 PROVE  \E i \in 1 .. j - 1 : Stops(ops'[i], u)
    BY <1>1, <1>3 DEF StopFirst
  <2>2. Contains(list, u) /\ ~isRunning[u] /\ ~Stops(ops[1], u)
    BY <2>1
  <2>3. j + 1 \in 1 .. n /\ Starts(ops[j + 1], u) /\ (j + 1) - 1 = j
    BY <1>1, <2>1
  <2>4. PICK i \in 1 .. j : Stops(ops[i], u)
    BY <1>1, <1>2, <1>4, <2>2, <2>3 DEF StopFirst
  <2>5. i \in 1 .. n
    BY <1>1
  <2>6. i - 1 \in 1 .. n - 1 /\ Stops(ops'[i - 1], u)
    BY <1>7, <2>2, <2>4, <2>5
  <2>7. i - 1 \in 1 .. j - 1
    BY <1>1, <2>6
  <2> QED BY <2>6, <2>7
<1>10. stopping[2] = None
  BY <1>1 DEF MarkInv, At
<1> QED BY <1>8, <1>9, <1>10 DEF MarkInv, HeldBack, StopFirst

LEMMA MarkStep ==
  ASSUME TypeInv, TypeInv', ListInv, WalkInv, WalkInv', MarkInv, Careful, Next
  PROVE  MarkInv'
<1>1. /\ isRunning \in [Timers -> BOOLEAN] /\ Len(ops) \in Nat /\ DOMAIN ops = 1 .. Len(ops)
      /\ ops \in Seq(Ops) /\ Len(ops) <= QueueSize /\ \A i \in DOMAIN ops : OpInv(ops[i])
  <2>1. ops \in Seq(Ops) /\ \A i \in DOMAIN ops : OpInv(ops[i])
    BY DEF TypeInv
  <2>2. isRunning \in [Timers -> BOOLEAN] /\ Len(ops) <= QueueSize
    BY DEF TypeInv, AppTimerTypeOK
  <2> QED BY <2>1, <2>2
<1>2. stopping[2] # None => job.at \in {"handler", "other"} /\ ~isRunning[stopping[2]]
  BY DEF MarkInv
<1>3. CASE Tick
  <2>1. /\ UNCHANGED <<list, tte, isRunning, elapsed, job, stopping, stopped, disturbed>>
        /\ DOMAIN ops' = DOMAIN ops
        /\ \A i \in DOMAIN ops : ops'[i].type = ops[i].type /\ ops'[i].timer = ops[i].timer
    BY <1>3, TickFacts
  <2>2. Intact' => Intact
    BY <2>1 DEF Intact
  <2>3. \A t : Waiting(t)' <=> Waiting(t)
    BY <2>1, WaitingFrame
  <2> QED BY <1>2, <2>1, <2>2, <2>3, MarkKeep
<1>4. CASE Work
  <2>1. UNCHANGED <<list, tte, isRunning, ops, stopping, stopped, disturbed>>
    BY <1>4, WorkFacts DEF Work
  <2>2. Intact' <=> Intact
    BY <2>1 DEF Intact
  <2>3. Intact => \A t \in Timers : Waiting(t)' /\ ~isRunning'[t] => Waiting(t) /\ ~isRunning[t]
    BY <1>4, <2>1, WaitingWork
  <2>4. stopping[2] = None
    <3>1. CASE HandlerReturn
      BY <3>1 DEF HandlerReturn
    <3>2. CASE ~HandlerReturn
      <4>1. InsertLeave => At("insert")
        BY DEF InsertLeave
      <4>2. job.at \notin {"handler", "other"}
        BY <1>4, <3>2, <4>1, WorkJobs DEF Work, At
      <4> QED BY <1>2, <4>2
    <3> QED BY <3>1, <3>2
  <2> QED BY <2>1, <2>2, <2>3, <2>4, MarkKeep
<1>5. CASE Expire
  <2>1. /\ UNCHANGED <<ops, stopping, stopped, disturbed>> /\ At("expire")
        /\ isRunning' = [isRunning EXCEPT ![job'.timer] = FALSE] /\ job'.timer \in Timers
    BY <1>5, ExpireFacts
  <2>2. Intact' <=> Intact
    BY <2>1 DEF Intact
  <2>3. stopping[2] = None
    BY <1>2, <2>1 DEF At
  <2>4. \A t \in Timers : Waiting(t)' => Waiting(t) /\ isRunning'[t] = isRunning[t]
    BY <1>1, <1>5, <2>1, WaitingExpire
  <2> QED BY <2>1, <2>2, <2>3, <2>4, MarkKeep
<1>6. CASE SwiEnter
  <2>1. /\ UNCHANGED <<isRunning, ops, stopping, stopped, disturbed>> /\ At("idle")
    BY <1>6 DEF SwiEnter
  <2>2. job'.at = "insert" /\ \A t : Contains(list', t) <=> Waiting(t)
    BY <1>6, SwiEnterFacts DEF ListInv
  <2>3. \A t : Waiting(t)' <=> Contains(list', t)
    BY <2>2, InsertGoneNext DEF At
  <2>4. Intact' <=> Intact
    BY <2>1 DEF Intact
  <2>5. stopping[2] = None
    BY <1>2, <2>1 DEF At
  <2> QED BY <2>1, <2>2, <2>3, <2>4, <2>5, MarkKeep
<1>7. CASE Restart
  <2> DEFINE h == Head(job.restart)
  <2>1. UNCHANGED <<ops, stopping, stopped, disturbed>> /\ At("insert")
    BY <1>7 DEF Restart, ghosts
  <2>2. /\ isRunning' = [isRunning EXCEPT ![h] = TRUE] /\ h \in Timers
        /\ \A u : Contains(list', u) <=> u = h \/ Contains(list, u)
        /\ job'.at = "insert"
    BY <1>7, RestartFacts
  <2>3. \A t : Waiting(t)' <=> Contains(list', t)
    BY <2>2, InsertGoneNext DEF At
  <2>4. \A t : Waiting(t) <=> Contains(list, t)
    BY <2>1, InsertGone
  <2>5. Intact' <=> Intact
    BY <2>1 DEF Intact
  <2>6. stopping[2] = None
    BY <1>2, <2>1 DEF At
  <2> HIDE DEF h
  <2>7. \A t \in Timers : Waiting(t)' /\ ~isRunning'[t] => Waiting(t) /\ ~isRunning[t]
    <3>1. isRunning'[h] = TRUE /\ \A t \in Timers : t # h => isRunning'[t] = isRunning[t]
      BY <1>1, <2>2
    <3> QED BY <2>2, <2>3, <2>4, <3>1
  <2> QED BY <2>1, <2>5, <2>6, <2>7, MarkKeep
<1>8. CASE ApplyStart
  <2>1. Applying("start") /\ UNCHANGED <<stopping, stopped, disturbed>>
    BY <1>8 DEF ApplyStart
  <2>2. At("insert") /\ ops[1].type = "start" /\ OpInv(ops[1])
    BY <1>1, <2>1, DequeueFacts
  <2>3. ops[1].timer \in Timers
    BY <2>2 DEF OpInv
  <2>4. /\ job' = job
        /\ \/ /\ isRunning' = [isRunning EXCEPT ![ops[1].timer] = TRUE]
              /\ \A u : Contains(list', u) <=> u = ops[1].timer \/ Contains(list, u)
           \/ isRunning[ops[1].timer] /\ UNCHANGED nodes
    BY <1>8, ApplyStartFacts
  <2>5. \A u \in Timers : Contains(list', u) /\ ~isRunning'[u] => Contains(list, u) /\ ~isRunning[u]
    <3>1. CASE /\ isRunning' = [isRunning EXCEPT ![ops[1].timer] = TRUE]
               /\ \A u : Contains(list', u) <=> u = ops[1].timer \/ Contains(list, u)
      BY <1>1, <2>3, <3>1
    <3>2. CASE UNCHANGED nodes
      BY <3>2 DEF nodes
    <3> QED BY <2>4, <3>1, <3>2
  <2>6. \A u : ~Stops(ops[1], u)
    BY <2>2 DEF Stops
  <2>7. At("insert")'
    BY <2>2, <2>4 DEF At
  <2> QED BY <2>1, <2>5, <2>6, <2>7, MarkApply
<1>9. CASE ApplyStop
  <2> DEFINE h == ops[1].timer
  <2>1. Applying("stop") /\ UNCHANGED <<stopping, disturbed>>
    BY <1>9 DEF ApplyStop
  <2>2. At("insert") /\ ops[1].type = "stop" /\ OpInv(ops[1]) /\ Head(ops) = ops[1]
    BY <1>1, <2>1, DequeueFacts
  <2>3. h \in Timers
    BY <2>2 DEF OpInv
  <2>4. /\ job'.at = "insert" /\ isRunning' = [isRunning EXCEPT ![h] = FALSE]
        /\ \A u : Contains(list', u) <=> u # h /\ Contains(list, u)
    BY <1>9, ApplyStopFacts
  <2>5. stopped' = stopped \/ stopped' = [stopped EXCEPT ![h] = "yes"]
    BY <1>9, <2>2 DEF ApplyStop
  <2>6. \A u : Stops(ops[1], u) => u = h
    BY DEF Stops
  <2> HIDE DEF h
  <2>7. \A u \in Timers : Contains(list', u) /\ ~isRunning'[u] =>
           /\ Contains(list, u) /\ ~isRunning[u] /\ ~Stops(ops[1], u) /\ stopped'[u] = stopped[u]
    <3>1. \A u \in Timers : u # h => isRunning'[u] = isRunning[u]
      BY <1>1, <2>4
    <3>2. \A u \in Timers : u # h => stopped'[u] = stopped[u]
      BY <2>5 DEF TypeInv, AppTimerTypeOK
    <3> QED BY <2>4, <2>6, <3>1, <3>2
  <2>8. At("insert")'
    BY <2>4 DEF At
  <2> QED BY <2>1, <2>7, <2>8, MarkApply
<1>10. CASE ApplyStopAll
  <2>1. Applying("stopall") /\ UNCHANGED <<stopping, disturbed>>
    BY <1>10 DEF ApplyStopAll
  <2>2. At("insert")
    BY <2>1 DEF Applying
  <2>3. job' = job /\ \A u : ~Contains(list', u)
    BY <1>10, ApplyStopAllFacts
  <2>4. At("insert")'
    BY <2>2, <2>3 DEF At
  <2> QED BY <2>1, <2>3, <2>4, MarkApply
<1>11. CASE Call
  BY <1>11, MarkCall
<1> QED BY <1>3, <1>4, <1>5, <1>6, <1>7, <1>8, <1>9, <1>10, <1>11 DEF Next, Level2, Call, Work

-----------------------------------------------------------------------------
(* Timers that were stopped.                                               *)

\* The queue says the same of t.
LEMMA QueueKeep ==
  ASSUME TypeInv, NEW t, Len(ops') = Len(ops), DOMAIN ops' = DOMAIN ops,
         \A i \in DOMAIN ops : ops'[i].type = ops[i].type /\ ops'[i].timer = ops[i].timer
  PROVE  (StopAhead(t) => StopAhead(t)') /\ (NoStart(t) => NoStart(t)')
<1>1. Len(ops) \in Nat /\ DOMAIN ops = 1 .. Len(ops)
  BY DEF TypeInv
<1>2. ASSUME NEW i \in DOMAIN ops
      PROVE  /\ Starts(ops'[i], t) <=> Starts(ops[i], t)
             /\ Stops(ops'[i], t) <=> Stops(ops[i], t)
  BY DEF Starts, Stops
<1>3. ASSUME StopAhead(t) PROVE StopAhead(t)'
  <2>1. PICK i \in DOMAIN ops : Stops(ops[i], t) /\ \A j \in i + 1 .. Len(ops) : ~Starts(ops[j], t)
    BY <1>3 DEF StopAhead
  <2>2. \A j \in i + 1 .. Len(ops) : j \in DOMAIN ops
    BY <1>1
  <2>3. ASSUME NEW j \in i + 1 .. Len(ops) PROVE ~Starts(ops'[j], t)
    BY <2>1, <2>2 DEF Starts
  <2> QED BY <1>2, <2>1, <2>3 DEF StopAhead
<1>4. NoStart(t) => NoStart(t)'
  BY DEF NoStart, Starts
<1> QED BY <1>3, <1>4

\* One more operation is queued.
LEMMA QueueGrow ==
  ASSUME TypeInv, NEW t, Len(ops') = Len(ops) + 1, DOMAIN ops' = 1 .. Len(ops) + 1,
         \A i \in DOMAIN ops : ops'[i] = ops[i], ~Starts(ops'[Len(ops) + 1], t)
  PROVE  /\ StopAhead(t) => StopAhead(t)'
         /\ NoStart(t) => NoStart(t)'
         /\ Stops(ops'[Len(ops) + 1], t) => StopAhead(t)'
<1> DEFINE n == Len(ops)
<1>1. n \in Nat /\ DOMAIN ops = 1 .. n /\ Len(ops') = n + 1 /\ DOMAIN ops' = 1 .. n + 1
      /\ ~Starts(ops'[n + 1], t) /\ \A i \in 1 .. n : ops'[i] = ops[i]
  BY DEF TypeInv
<1> HIDE DEF n
<1>2. ASSUME StopAhead(t) PROVE StopAhead(t)'
  <2>1. PICK i \in 1 .. n : Stops(ops[i], t) /\ \A j \in i + 1 .. n : ~Starts(ops[j], t)
    BY <1>1, <1>2 DEF StopAhead, n
  <2>2. i \in 1 .. n + 1 /\ Stops(ops'[i], t)
    BY <1>1, <2>1
  <2>3. ASSUME NEW j \in i + 1 .. n + 1 PROVE ~Starts(ops'[j], t)
    <3>1. CASE j = n + 1
      BY <1>1, <3>1
    <3>2. CASE j # n + 1
      <4>1. j \in i + 1 .. n /\ j \in 1 .. n
        BY <1>1, <2>1, <3>2
      <4> QED BY <1>1, <2>1, <4>1
    <3> QED BY <3>1, <3>2
  <2> QED BY <1>1, <2>2, <2>3 DEF StopAhead
<1>3. ASSUME NoStart(t) PROVE NoStart(t)'
  <2>1. ASSUME NEW j \in 1 .. n + 1 PROVE ~Starts(ops'[j], t)
    <3>1. CASE j = n + 1
      BY <1>1, <3>1
    <3>2. CASE j # n + 1
      <4>1. j \in 1 .. n
        BY <1>1, <3>2
      <4> QED BY <1>1, <1>3, <4>1 DEF NoStart
    <3> QED BY <3>1, <3>2
  <2> QED BY <1>1, <2>1 DEF NoStart
<1>4. ASSUME Stops(ops'[n + 1], t) PROVE StopAhead(t)'
  <2>1. n + 1 \in 1 .. n + 1 /\ \A j \in (n + 1) + 1 .. n + 1 : FALSE
    BY <1>1
  <2> QED BY <1>1, <1>4, <2>1 DEF StopAhead
<1> QED BY <1>2, <1>3, <1>4 DEF n

\* The first operation is taken.
LEMMA QueueShrink ==
  ASSUME TypeInv, NEW type, Applying(type), NEW t
  PROVE  /\ NoStart(t) => NoStart(t)'
         /\ StopAhead(t) /\ ~Stops(ops[1], t) => StopAhead(t)'
         /\ StopAhead(t) /\ (\E i \in 2 .. Len(ops) : Starts(ops[i], t)) => StopAhead(t)'
         /\ (\A i \in 2 .. Len(ops) : ~Starts(ops[i], t)) => NoStart(t)'
<1> DEFINE n == Len(ops)
<1>1. /\ n \in Nat /\ n >= 1 /\ Len(ops') = n - 1
      /\ \A i \in 1 .. n - 1 : ops'[i] = ops[i + 1]
      /\ DOMAIN ops = 1 .. n /\ DOMAIN ops' = 1 .. n - 1
  <2>1. ops \in Seq(Ops) /\ Len(ops) <= QueueSize /\ \A i \in DOMAIN ops : OpInv(ops[i])
    BY DEF TypeInv, AppTimerTypeOK
  <2>2. /\ ops' \in Seq(Ops) /\ Len(ops) \in Nat /\ Len(ops) >= 1 /\ Len(ops') = Len(ops) - 1
        /\ \A i \in 1 .. Len(ops) - 1 : ops'[i] = ops[i + 1]
    BY <2>1, DequeueFacts
  <2> QED BY <2>1, <2>2
<1>2. StopAhead(t) <=> \E i \in 1 .. n : Stops(ops[i], t) /\ \A j \in i + 1 .. n : ~Starts(ops[j], t)
  BY <1>1 DEF StopAhead
<1> HIDE DEF n
<1>3. ASSUME NEW i \in 2 .. n, Stops(ops[i], t), \A j \in i + 1 .. n : ~Starts(ops[j], t)
      PROVE  StopAhead(t)'
  <2>1. i - 1 \in 1 .. n - 1 /\ (i - 1) + 1 = i
    BY <1>1
  <2>2. ASSUME NEW j \in (i - 1) + 1 .. n - 1 PROVE ~Starts(ops'[j], t)
    <3>1. j + 1 \in i + 1 .. n /\ j \in 1 .. n - 1
      BY <1>1
    <3> QED BY <1>1, <1>3, <3>1
  <2>3. Stops(ops'[i - 1], t)
    BY <1>1, <1>3, <2>1
  <2>4. \E k \in 1 .. n - 1 : Stops(ops'[k], t) /\ \A j \in k + 1 .. n - 1 : ~Starts(ops'[j], t)
    BY <2>1, <2>2, <2>3
  <2> QED BY <1>1, <2>4 DEF StopAhead
<1>4. ASSUME \A i \in 2 .. n : ~Starts(ops[i], t) PROVE NoStart(t)'
  <2>1. \A j \in 1 .. n - 1 : j + 1 \in 2 .. n
    BY <1>1
  <2> QED BY <1>1, <1>4, <2>1 DEF NoStart
<1>5. ASSUME NoStart(t) PROVE NoStart(t)'
  <2>1. \A i \in 2 .. n : i \in DOMAIN ops
    BY <1>1
  <2> QED BY <1>4, <1>5, <2>1 DEF NoStart
<1>6. ASSUME StopAhead(t), ~Stops(ops[1], t) \/ \E i \in 2 .. n : Starts(ops[i], t)
      PROVE  StopAhead(t)'
  <2>1. PICK i \in 1 .. n : Stops(ops[i], t) /\ \A j \in i + 1 .. n : ~Starts(ops[j], t)
    BY <1>2, <1>6
  <2>2. i # 1
    <3>1. SUFFICES ASSUME i = 1 PROVE FALSE
      OBVIOUS
    <3>2. \A k \in 2 .. n : ~Starts(ops[k], t)
      BY <2>1, <3>1
    <3> QED BY <1>6, <2>1, <3>1, <3>2
  <2>3. i \in 2 .. n
    BY <1>1, <2>2
  <2> QED BY <1>3, <2>1, <2>3
<1> QED BY <1>4, <1>5, <1>6 DEF n

\* A step that brings no timer back and leaves what the queue says of it.
LEMMA SilenceKeep ==
  ASSUME SilenceInv, NEW t \in Timers, stopped[t] = "yes",
         Out(t) /\ NoStart(t) => Out(t)',
         ~At("insert")' => ~isRunning'[t],
         StopAhead(t) => StopAhead(t)', NoStart(t) => NoStart(t)'
  PROVE  (StopAhead(t)' \/ Still(t)') /\ (~At("insert")' => ~isRunning'[t])
BY DEF SilenceInv, Still

LEMMA SilenceStep ==
  ASSUME TypeInv, ListInv, WalkInv, MarkInv, SilenceInv, Next
  PROVE  SilenceInv'
<1> DEFINE Silent(t) == (StopAhead(t) \/ Still(t)) /\ (~At("insert") => ~isRunning[t])
<1>1. /\ isRunning \in [Timers -> BOOLEAN] /\ Len(ops) \in Nat /\ DOMAIN ops = 1 .. Len(ops)
      /\ stopped \in [Timers -> {"no", "yes", "failed"}]
  BY DEF TypeInv, AppTimerTypeOK
<1>2. \A t \in Timers : stopped[t] = "yes" => Silent(t)
  BY DEF SilenceInv
<1>3. SUFFICES ASSUME NEW t \in Timers, stopped'[t] = "yes" PROVE Silent(t)'
  BY DEF SilenceInv
<1>4. CASE Tick
  <2>1. /\ UNCHANGED <<list, isRunning, job, stopped>>
        /\ Len(ops') = Len(ops) /\ DOMAIN ops' = DOMAIN ops
        /\ \A i \in DOMAIN ops : ops'[i].type = ops[i].type /\ ops'[i].timer = ops[i].timer
    BY <1>4, TickFacts
  <2>2. (StopAhead(t) => StopAhead(t)') /\ (NoStart(t) => NoStart(t)')
    BY <2>1, QueueKeep
  <2>3. Out(t) => Out(t)'
    BY <2>1 DEF Out, At
  <2>4. ~At("insert")' => ~isRunning'[t]
    BY <1>2, <1>3, <2>1 DEF At
  <2> QED BY <1>3, <2>1, <2>2, <2>3, <2>4, SilenceKeep
<1>5. CASE Work
  <2>1. UNCHANGED <<list, isRunning, ops, stopped>> /\ job'.at # "insert"
    BY <1>5, WorkFacts, WorkJobs DEF Work
  <2>2. (StopAhead(t) => StopAhead(t)') /\ (NoStart(t) => NoStart(t)')
    BY <2>1, QueueKeep
  <2>3. Out(t) => Out(t)'
    BY <2>1 DEF Out, At
  <2>4. ~isRunning[t]
    <3>1. CASE At("insert")
      <4>1. InsertLeave
        BY <1>5, <3>1, WorkJobs
      <4>2. ops = <<>>
        BY <4>1 DEF InsertLeave
      <4>3. ~StopAhead(t)
        BY <1>1, <4>2 DEF StopAhead
      <4>4. Still(t)
        BY <1>2, <1>3, <2>1, <4>3
      <4> QED BY <4>4 DEF Still, Out
    <3>2. CASE ~At("insert")
      BY <1>2, <1>3, <2>1, <3>2
    <3> QED BY <3>1, <3>2
  <2> QED BY <1>3, <2>1, <2>2, <2>3, <2>4, SilenceKeep
<1>6. CASE Expire
  <2>1. /\ UNCHANGED <<list, ops, stopped>> /\ At("expire") /\ job'.at # "insert"
        /\ isRunning' = [isRunning EXCEPT ![job'.timer] = FALSE] /\ job'.timer \in Timers
    BY <1>6, ExpireFacts
  <2>2. (StopAhead(t) => StopAhead(t)') /\ (NoStart(t) => NoStart(t)')
    BY <2>1, QueueKeep
  <2>3. ~isRunning[t] /\ ~isRunning'[t]
    <3>1. ~isRunning[t]
      BY <1>2, <1>3, <2>1 DEF At
    <3> QED BY <1>1, <2>1, <3>1
  <2>4. Out(t) => Out(t)'
    BY <2>1, <2>3 DEF Out, At
  <2> QED BY <1>3, <2>1, <2>2, <2>3, <2>4, SilenceKeep
<1>7. CASE SwiEnter
  <2>1. UNCHANGED <<isRunning, ops, stopped>>
    BY <1>7 DEF SwiEnter
  <2>2. /\ job'.at = "insert"
        /\ \A u : Contains(list', u) <=> Waiting(u)
        /\ \A u : Contains(job'.restart, u) => Contains(list, u)
    BY <1>7, SwiEnterFacts DEF ListInv
  <2>3. (StopAhead(t) => StopAhead(t)') /\ (NoStart(t) => NoStart(t)')
    BY <2>1, QueueKeep
  <2>4. Waiting(t) => Contains(list, t)
    BY DEF Waiting, Contains, TypeInv, AppTimerTypeOK
  <2>5. Out(t) => Out(t)'
    BY <2>1, <2>2, <2>4 DEF Out
  <2>6. At("insert")'
    BY <2>2 DEF At
  <2> QED BY <1>3, <2>1, <2>3, <2>5, <2>6, SilenceKeep
<1>8. CASE Restart
  <2> DEFINE h == Head(job.restart)
  <2>1. UNCHANGED <<ops, stopped>> /\ At("insert")
    BY <1>8 DEF Restart, ghosts
  <2>2. /\ isRunning' = [isRunning EXCEPT ![h] = TRUE] /\ h \in Timers
        /\ \A u : Contains(list', u) <=> u = h \/ Contains(list, u)
        /\ \A u : Contains(job.restart, u) <=> u = h \/ Contains(job'.restart, u)
        /\ job'.at = "insert"
    BY <1>8, RestartFacts
  <2>3. (StopAhead(t) => StopAhead(t)') /\ (NoStart(t) => NoStart(t)')
    BY <2>1, QueueKeep
  <2> HIDE DEF h
  <2>4. Out(t) => Out(t)'
    <3>1. SUFFICES ASSUME Out(t) PROVE Out(t)'
      OBVIOUS
    <3>2. t # h /\ ~Contains(list, t) /\ ~isRunning[t] /\ ~Contains(job'.restart, t)
      BY <2>1, <2>2, <3>1 DEF Out
    <3>3. ~isRunning'[t]
      BY <1>1, <2>2, <3>2
    <3> QED BY <2>2, <3>2, <3>3 DEF Out
  <2>5. At("insert")'
    BY <2>2 DEF At
  <2> QED BY <1>3, <2>1, <2>3, <2>4, <2>5, SilenceKeep
<1>9. CASE ApplyStart
  <2> DEFINE h == ops[1].timer
  <2>1. Applying("start") /\ UNCHANGED stopped
    BY <1>9 DEF ApplyStart
  <2>2. At("insert") /\ ops # <<>> /\ Head(ops).type = "start" /\ Head(ops) = ops[1]
    BY <1>1, <2>1 DEF Applying
  <2>3. Starts(ops[1], h) /\ 1 \in DOMAIN ops /\ \A u : ~Stops(ops[1], u)
    <3>1. ops \in Seq(Ops)
      BY DEF TypeInv
    <3>2. 1 \in DOMAIN ops
      BY <2>2, <3>1
    <3> QED BY <2>2, <3>2 DEF Starts, Stops
  <2>4. (StopAhead(t) => StopAhead(t)') /\ (NoStart(t) => NoStart(t)')
    BY <2>1, <2>3, QueueShrink
  <2>5. /\ job' = job
        /\ \/ /\ isRunning' = [isRunning EXCEPT ![h] = TRUE]
              /\ \A u : Contains(list', u) <=> u = h \/ Contains(list, u)
           \/ UNCHANGED nodes
    BY <1>9, ApplyStartFacts
  <2>6. NoStart(t) => t # h
    BY <2>3 DEF NoStart
  <2> HIDE DEF h
  <2>7. Out(t) /\ NoStart(t) => Out(t)'
    <3>1. SUFFICES ASSUME Out(t), t # h PROVE Out(t)'
      BY <2>6
    <3>2. CASE UNCHANGED nodes
      BY <2>5, <3>1, <3>2 DEF Out, nodes, At
    <3>3. CASE /\ isRunning' = [isRunning EXCEPT ![h] = TRUE]
               /\ \A u : Contains(list', u) <=> u = h \/ Contains(list, u)
      <4>1. isRunning'[t] = isRunning[t]
        BY <1>1, <3>1, <3>3
      <4> QED BY <2>5, <3>1, <3>3, <4>1 DEF Out, At
    <3> QED BY <2>5, <3>2, <3>3
  <2>8. At("insert")'
    BY <2>2, <2>5 DEF At
  <2> QED BY <1>3, <2>1, <2>4, <2>7, <2>8, SilenceKeep
<1>10. CASE ApplyStop
  <2> DEFINE h == ops[1].timer
  <2>1. Applying("stop")
    BY <1>10 DEF ApplyStop
  <2>2. At("insert") /\ Head(ops).type = "stop" /\ Head(ops) = ops[1] /\ job.restart = <<>>
    BY <1>1, <2>1 DEF Applying
  <2>3. /\ job'.at = "insert" /\ job'.restart = <<>>
        /\ isRunning' = [isRunning EXCEPT ![h] = FALSE]
        /\ \A u : Contains(list', u) <=> u # h /\ Contains(list, u)
    BY <1>10, ApplyStopFacts
  <2>4. h \in Timers
    <3>1. ops # <<>> /\ \A i \in DOMAIN ops : OpInv(ops[i])
      BY <2>1 DEF Applying, TypeInv
    <3>2. 1 \in DOMAIN ops
      BY <3>1 DEF TypeInv
    <3> QED BY <2>2, <3>1, <3>2 DEF OpInv
  <2>5. stopped' = IF \E i \in 2 .. Len(ops) : Starts(ops[i], h)
                   THEN stopped ELSE [stopped EXCEPT ![h] = "yes"]
    BY <1>10, <2>2 DEF ApplyStop, Starts
  <2>6. \A u : Stops(ops[1], u) => u = h
    BY DEF Stops
  <2>7. At("insert")' /\ ~Contains(job'.restart, t)
    BY <2>3 DEF At, Contains
  <2> HIDE DEF h
  <2>8. CASE t = h /\ ~(\E i \in 2 .. Len(ops) : Starts(ops[i], h))
    <3>1. NoStart(t)'
      BY <2>1, <2>8, QueueShrink
    <3>2. Out(t)'
      BY <1>1, <2>3, <2>4, <2>7, <2>8 DEF Out
    <3> QED BY <2>7, <3>1, <3>2 DEF Still
  <2>9. CASE t = h /\ \E i \in 2 .. Len(ops) : Starts(ops[i], h)
    <3>1. stopped[t] = "yes"
      BY <1>3, <2>5, <2>9
    <3>2. ~NoStart(t)
      BY <1>1, <2>9 DEF NoStart
    <3>3. StopAhead(t)
      BY <1>2, <3>1, <3>2 DEF Still
    <3>4. StopAhead(t)'
      BY <2>1, <2>9, <3>3, QueueShrink
    <3> QED BY <2>7, <3>4
  <2>10. CASE t # h
    <3>1. stopped[t] = "yes"
      BY <1>1, <1>3, <2>5, <2>10
    <3>2. ~Stops(ops[1], t)
      BY <2>6, <2>10
    <3>3. (StopAhead(t) => StopAhead(t)') /\ (NoStart(t) => NoStart(t)')
      BY <2>1, <3>2, QueueShrink
    <3>4. Out(t) => Out(t)'
      <4>1. isRunning'[t] = isRunning[t]
        BY <1>1, <2>3, <2>10
      <4> QED BY <2>3, <2>7, <2>10, <4>1 DEF Out
    <3> QED BY <2>7, <3>1, <3>3, <3>4, SilenceKeep
  <2> QED BY <2>8, <2>9, <2>10
<1>11. CASE ApplyStopAll
  <2>1. Applying("stopall") /\ UNCHANGED stopped
    BY <1>11 DEF ApplyStopAll
  <2>2. At("insert") /\ Head(ops).type = "stopall" /\ Head(ops) = ops[1]
    BY <1>1, <2>1 DEF Applying
  <2>3. (StopAhead(t) => StopAhead(t)') /\ (NoStart(t) => NoStart(t)')
    BY <2>1, <2>2, QueueShrink DEF Stops
  <2>4. /\ job' = job /\ isRunning' = [u \in Timers |-> isRunning[u] /\ ~Contains(list, u)]
        /\ \A u : ~Contains(list', u)
    BY <1>11, ApplyStopAllFacts
  <2>5. Out(t) => Out(t)'
    BY <2>4 DEF Out, At
  <2>6. At("insert")'
    BY <2>2, <2>4 DEF At
  <2> QED BY <1>3, <2>1, <2>3, <2>5, <2>6, SilenceKeep
<1>12. CASE Call
  <2>1. list' = list /\ job' = job
    BY <1>12, CallFacts DEF Call
  <2>2. ASSUME stopped[t] = "yes", isRunning'[t] => isRunning[t],
               StopAhead(t) => StopAhead(t)', NoStart(t) => NoStart(t)'
        PROVE  Silent(t)'
    <3>1. Out(t) => Out(t)'
      BY <2>1, <2>2 DEF Out, At
    <3>2. ~At("insert")' => ~isRunning'[t]
      BY <1>2, <2>1, <2>2 DEF At
    <3> QED BY <2>2, <3>1, <3>2, SilenceKeep
  <2>3. ASSUME NEW level \in 1 .. 3, NEW u \in Timers, NEW ticks \in Intervals, Start(level, u, ticks)
        PROVE  Silent(t)'
    <3>1. /\ isRunning' = isRunning /\ stopped' = [stopped EXCEPT ![u] = "no"]
          /\ DOMAIN ops' = 1 .. Len(ops) + 1 /\ Len(ops') = Len(ops) + 1
          /\ Starts(ops'[Len(ops) + 1], u)
          /\ \A i \in DOMAIN ops : ops'[i] = ops[i]
      BY <2>3, StartFacts
    <3>2. t # u /\ stopped[t] = "yes"
      BY <1>1, <1>3, <3>1
    <3>3. ~Starts(ops'[Len(ops) + 1], t)
      BY <3>1, <3>2 DEF Starts
    <3>4. (StopAhead(t) => StopAhead(t)') /\ (NoStart(t) => NoStart(t)')
      BY <3>1, <3>3, QueueGrow
    <3> QED BY <2>2, <3>1, <3>2, <3>4
  <2>4. ASSUME NEW level \in 1 .. 3, StopAll(level) PROVE Silent(t)'
    <3>1. /\ isRunning' = isRunning /\ stopped' = stopped
          /\ DOMAIN ops' = 1 .. Len(ops) + 1 /\ Len(ops') = Len(ops) + 1
          /\ ops'[Len(ops) + 1].type = "stopall"
          /\ \A i \in DOMAIN ops : ops'[i] = ops[i]
      BY <2>4, StopAllFacts
    <3>2. ~Starts(ops'[Len(ops) + 1], t)
      BY <3>1 DEF Starts
    <3>3. (StopAhead(t) => StopAhead(t)') /\ (NoStart(t) => NoStart(t)')
      BY <3>1, <3>2, QueueGrow
    <3> QED BY <1>3, <2>2, <3>1, <3>3
  <2>5. ASSUME NEW level \in 1 .. 2, NEW u \in Timers, StopBegin(level, u) PROVE Silent(t)'
    <3>1. /\ isRunning' = [isRunning EXCEPT ![u] = FALSE] /\ stopped' = stopped /\ ops' = ops
      BY <2>5 DEF StopBegin
    <3>2. isRunning'[t] => isRunning[t]
      BY <1>1, <3>1
    <3>3. (StopAhead(t) => StopAhead(t)') /\ (NoStart(t) => NoStart(t)')
      BY <3>1, QueueKeep
    <3> QED BY <1>3, <2>2, <3>1, <3>2, <3>3
  <2>6. ASSUME NEW u \in Timers, Queued(u)
        PROVE  /\ (StopAhead(t) => StopAhead(t)') /\ (NoStart(t) => NoStart(t)')
               /\ t = u => StopAhead(t)'
    <3>1. ~Starts(ops'[Len(ops) + 1], t)
      BY <2>6 DEF Queued, Starts, Stops
    <3> QED BY <2>6, <3>1, QueueGrow DEF Queued
  <2>7. ASSUME NEW level \in 1 .. 2, StopEnd(level) PROVE Silent(t)'
    <3>0. PICK u \in Timers : stopping[level] = u
      BY <2>7, StopEndFacts
    <3>1. /\ isRunning' = isRunning
          /\ \/ /\ Queued(u)
                /\ stopped' = [stopped EXCEPT ![u] = IF level = 1 THEN "no" ELSE "yes"]
             \/ ops' = ops /\ stopped' = [stopped EXCEPT ![u] = "failed"]
      BY <2>7, <3>0, StopEndFacts
    <3>2. (StopAhead(t) => StopAhead(t)') /\ (NoStart(t) => NoStart(t)')
      BY <2>6, <3>1, QueueKeep
    <3>3. CASE t # u
      <4>1. stopped[t] = "yes"
        BY <1>1, <1>3, <3>1, <3>3
      <4> QED BY <2>2, <3>1, <3>2, <4>1
    <3>4. CASE t = u
      <4>1. Queued(u) /\ level # 1
        BY <1>1, <1>3, <3>1, <3>4
      <4>2. level = 2
        BY <4>1
      <4>3. ~isRunning[t]
        <5>1. stopping[2] = t /\ stopping[2] # None
          BY <3>0, <3>4, <4>2, SmallNumbers
        <5> QED BY <5>1 DEF MarkInv
      <4>4. StopAhead(t)'
        BY <2>6, <3>4, <4>1
      <4> QED BY <3>1, <4>3, <4>4
    <3> QED BY <3>3, <3>4
  <2>8. ASSUME NEW u \in Timers, StopAbove(u) PROVE Silent(t)'
    <3>1. /\ isRunning' = [isRunning EXCEPT ![u] = FALSE]
          /\ \/ Queued(u) /\ stopped' = [stopped EXCEPT ![u] = "yes"]
             \/ ops' = ops /\ stopped' = [stopped EXCEPT ![u] = "failed"]
      BY <2>8, StopAboveFacts
    <3>2. (StopAhead(t) => StopAhead(t)') /\ (NoStart(t) => NoStart(t)')
      BY <2>6, <3>1, QueueKeep
    <3>3. CASE t # u
      <4>1. stopped[t] = "yes" /\ isRunning'[t] = isRunning[t]
        BY <1>1, <1>3, <3>1, <3>3
      <4> QED BY <2>2, <3>2, <4>1
    <3>4. CASE t = u
      <4>1. Queued(u)
        BY <1>1, <1>3, <3>1, <3>4
      <4>2. ~isRunning'[t]
        BY <1>1, <3>1, <3>4
      <4>3. StopAhead(t)'
        BY <2>6, <3>4, <4>1
      <4> QED BY <4>2, <4>3
    <3> QED BY <3>3, <3>4
  <2> QED BY <1>12, <2>3, <2>4, <2>5, <2>7, <2>8 DEF Call
<1> QED BY <1>4, <1>5, <1>6, <1>7, <1>8, <1>9, <1>10, <1>11, <1>12 DEF Next, Level2, Call, Work

-----------------------------------------------------------------------------
(* Ticks: differences on the counter, and the times of the list.           *)

LEMMA ModNear ==
  ASSUME NEW a \in Int
  PROVE  /\ a \in 0 .. Wrap - 1 => a % Wrap = a
         /\ a \in Wrap .. Wrap + Wrap - 1 => a % Wrap = a - Wrap
         /\ a \in -Wrap .. -1 => a % Wrap = a + Wrap
<1>1. Wrap \in Nat /\ Wrap > 0
  BY AppTimerAssumption
<1> DEFINE q == a \div Wrap
           r == a % Wrap
<1>2. q \in Int /\ r \in 0 .. Wrap - 1 /\ a = Wrap * q + r
  BY <1>1
<1>3. ASSUME a \in 0 .. Wrap - 1 PROVE r = a
  BY <1>1, <1>3
<1>4. ASSUME a \in Wrap .. Wrap + Wrap - 1 PROVE r = a - Wrap
  BY <1>1, <1>4
<1>5. ASSUME a \in -Wrap .. -1 PROVE r = a + Wrap
  BY <1>1, <1>5
<1> QED BY <1>3, <1>4, <1>5

LEMMA AddIs ==
  ASSUME NEW b \in 0 .. Wrap - 1, NEW e \in 0 .. Wrap - 1
  PROVE  (b + e) % Wrap = IF b + e < Wrap THEN b + e ELSE b + e - Wrap
<1>1. Wrap \in Nat /\ Wrap > 0
  BY AppTimerAssumption
<1> DEFINE d == b + e
           r == d % Wrap
<1>2. /\ d \in Int /\ (d < Wrap => d \in 0 .. Wrap - 1)
      /\ (~(d < Wrap) => d \in Wrap .. Wrap + Wrap - 1)
  BY <1>1
<1>3. r = IF d < Wrap THEN d ELSE d - Wrap
  <2>1. /\ d \in 0 .. Wrap - 1 => r = d
        /\ d \in Wrap .. Wrap + Wrap - 1 => r = d - Wrap
    <3> HIDE DEF d
    <3> QED BY <1>2, ModNear
  <2> HIDE DEF d, r
  <2> QED BY <1>2, <2>1
<1>4. (b + e) % Wrap = r
  OBVIOUS
<1> HIDE DEF r
<1> QED BY <1>1, <1>2, <1>3, <1>4

\* ticks_diff_get.
LEMMA DiffIs ==
  ASSUME NEW a \in 0 .. Wrap - 1, NEW b \in 0 .. Wrap - 1
  PROVE  Diff(a, b) = IF a >= b THEN a - b ELSE a - b + Wrap
<1>1. Wrap \in Nat /\ Wrap > 0
  BY AppTimerAssumption
<1> DEFINE d == a - b
<1>2. d \in Int /\ (a >= b => d \in 0 .. Wrap - 1) /\ (~(a >= b) => d \in -Wrap .. -1)
  BY <1>1
<1>3. Diff(a, b) = d % Wrap
  BY DEF Diff
<1>4. (d \in 0 .. Wrap - 1 => d % Wrap = d) /\ (d \in -Wrap .. -1 => d % Wrap = d + Wrap)
  <2> HIDE DEF d
  <2> QED BY <1>2, ModNear
<1> QED BY <1>2, <1>3, <1>4

\* The counter moves on: away from what was, or round to it.
LEMMA DiffTick ==
  ASSUME NEW a \in 0 .. Wrap - 1, NEW b \in 0 .. Wrap - 1
  PROVE  Diff((a + 1) % Wrap, b) <= Diff(a, b) + 1
<1>1. Wrap \in Nat /\ Wrap > 0
  BY AppTimerAssumption
<1> DEFINE c == (a + 1) % Wrap
<1>2. c = IF a = Wrap - 1 THEN 0 ELSE a + 1
  <2>1. a + 1 \in Int /\ (a = Wrap - 1 => a + 1 \in Wrap .. Wrap + Wrap - 1)
        /\ (a # Wrap - 1 => a + 1 \in 0 .. Wrap - 1)
    BY <1>1
  <2> QED BY <1>1, <2>1, ModNear
<1>3. c \in 0 .. Wrap - 1
  BY <1>1, <1>2
<1>4. Diff(c, b) = IF c >= b THEN c - b ELSE c - b + Wrap
  <2> HIDE DEF c
  <2> QED BY <1>3, DiffIs
<1>5. Diff(a, b) = IF a >= b THEN a - b ELSE a - b + Wrap
  BY DiffIs
<1> HIDE DEF c
<1> QED BY <1>1, <1>2, <1>4, <1>5

\* m_ticks_latest moves towards the counter: away from what was before it, and
\* towards what comes after it, which it may pass.
LEMMA DiffMoved ==
  ASSUME NEW b \in 0 .. Wrap - 1, NEW e \in 0 .. Wrap - 1, NEW a \in 0 .. Wrap - 1
  PROVE  LET c == (b + e) % Wrap IN
         /\ c \in 0 .. Wrap - 1
         /\ e <= Diff(a, b) => Diff(a, c) = Diff(a, b) - e
         /\ e > Diff(a, b) => Diff(c, a) = e - Diff(a, b)
         /\ Diff(c, a) <= Diff(b, a) + e
<1>1. Wrap \in Nat /\ Wrap > 0
  BY AppTimerAssumption
<1> DEFINE c == (b + e) % Wrap
<1>2. c = IF b + e < Wrap THEN b + e ELSE b + e - Wrap
  BY AddIs
<1>3. c \in 0 .. Wrap - 1
  BY <1>1, <1>2
<1>4. /\ Diff(c, a) = IF c >= a THEN c - a ELSE c - a + Wrap
      /\ Diff(a, c) = IF a >= c THEN a - c ELSE a - c + Wrap
  <2> HIDE DEF c
  <2> QED BY <1>3, DiffIs
<1>5. /\ Diff(a, b) = IF a >= b THEN a - b ELSE a - b + Wrap
      /\ Diff(b, a) = IF b >= a THEN b - a ELSE b - a + Wrap
  BY DiffIs
<1> HIDE DEF c
<1>6. e <= Diff(a, b) => Diff(a, c) = Diff(a, b) - e
  BY <1>1, <1>2, <1>3, <1>4, <1>5
<1>7. e > Diff(a, b) => Diff(c, a) = e - Diff(a, b)
  BY <1>1, <1>2, <1>3, <1>4, <1>5
<1>8. Diff(c, a) <= Diff(b, a) + e
  BY <1>1, <1>2, <1>3, <1>4, <1>5
<1> QED BY <1>3, <1>6, <1>7, <1>8 DEF c

LEMMA DiffPassed ==
  ASSUME NEW b \in 0 .. Wrap - 1, NEW e \in 0 .. Wrap - 1, NEW d \in 0 .. e
  PROVE  Diff((b + e) % Wrap, (b + d) % Wrap) = e - d
<1>1. Wrap \in Nat /\ Wrap > 0 /\ d \in 0 .. Wrap - 1
  BY AppTimerAssumption
<1> DEFINE x == (b + e) % Wrap
           y == (b + d) % Wrap
<1>2. /\ x = IF b + e < Wrap THEN b + e ELSE b + e - Wrap
      /\ y = IF b + d < Wrap THEN b + d ELSE b + d - Wrap
  BY <1>1, AddIs
<1>3. x \in 0 .. Wrap - 1 /\ y \in 0 .. Wrap - 1
  BY <1>1, <1>2
<1>4. Diff(x, y) = IF x >= y THEN x - y ELSE x - y + Wrap
  <2> HIDE DEF x, y
  <2> QED BY <1>3, DiffIs
<1> HIDE DEF x, y
<1>5. Diff(x, y) = e - d
  BY <1>1, <1>2, <1>3, <1>4
<1> QED BY <1>5 DEF x, y

\* The time of a timer that was started late, or put back late, is too late
\* rather than too early.
LEMMA ToExpireIsLate ==
  ASSUME NEW at \in 0 .. Wrap - 1, NEW ticks \in Nat, latest \in 0 .. Wrap - 1
  PROVE  ToExpire(at, ticks) >= ticks - Diff(latest, at)
<1>1. Diff(at, latest) \in Nat /\ Diff(latest, at) \in Nat
  BY DiffRange, SmallNumbers
<1> QED BY <1>1 DEF ToExpire

\* Insertion leaves the times of the others as they were.
LEMMA InsertDue ==
  ASSUME NEW t \in Timers, NEW ticks \in Nat, list \in Seq(Timers), tte \in [Timers -> Nat],
         list' \in Seq(Timers), NEW n \in 0 .. Len(list), PutIn(n, t, ticks)
  PROVE  \A i \in DOMAIN list' :
           \/ list'[i] = t /\ Due(list', tte', i) = ticks
           \/ \E j \in DOMAIN list : list'[i] = list[j] /\ Due(list', tte', i) = Due(list, tte, j)
<1> DEFINE D(k) == Due(list, tte, k)
           E(k) == Due(list', tte', k)
           Was(k) == IF k <= n THEN D(k) ELSE IF k = n + 1 THEN ticks ELSE D(k - 1)
           T == {k \in Nat : k <= Len(list) + 1 => E(k) = Was(k)}
<1>1. /\ Len(list) \in Nat /\ DOMAIN list = 1 .. Len(list)
      /\ Len(list') = Len(list) + 1 /\ DOMAIN list' = 1 .. Len(list) + 1
  BY DEF PutIn
<1>2. D(0) = 0 /\ \A k \in 1 .. Len(list) : D(k) = D(k - 1) + tte[list[k]] /\ tte[list[k]] \in Nat
  BY DueSteps
<1>3. \A k \in 0 .. Len(list) : D(k) \in Nat
  BY DueGrows
<1>4. E(0) = 0 /\ \A k \in 1 .. Len(list) + 1 : E(k) = E(k - 1) + tte'[list'[k]]
  <2>1. ASSUME NEW s \in Seq(Timers), NEW f
        PROVE  Due(s, f, 0) = 0 /\ \A k \in 1 .. Len(s) : Due(s, f, k) = Due(s, f, k - 1) + f[s[k]]
    BY DueSteps
  <2>2. Due(list', tte', 0) = 0
        /\ \A k \in 1 .. Len(list') : Due(list', tte', k) = Due(list', tte', k - 1) + tte'[list'[k]]
    BY <2>1, Zenon
  <2> QED BY <1>1, <2>2
<1>5. /\ \A j \in 1 .. Len(list) + 1 :
           list'[j] = IF j < n + 1 THEN list[j] ELSE IF j = n + 1 THEN t ELSE list[j - 1]
      /\ tte'[t] = ticks - D(n)
      /\ \A i \in 1 .. Len(list) :
           tte'[list[i]] = IF i = n + 1 THEN tte[list[i]] - (ticks - D(n)) ELSE tte[list[i]]
  BY DEF PutIn
<1> HIDE DEF D, E
<1>6. 0 \in T
  BY <1>2, <1>4
<1>7. ASSUME NEW k \in Nat, k \in T PROVE k + 1 \in T
  <2>1. SUFFICES ASSUME k + 1 <= Len(list) + 1 PROVE E(k + 1) = Was(k + 1)
    OBVIOUS
  <2>2. k <= Len(list) + 1 /\ k + 1 \in 1 .. Len(list) + 1 /\ (k + 1) - 1 = k
    BY <1>1, <2>1
  <2>3. E(k) = Was(k)
    BY <1>7, <2>2
  <2>4. E(k + 1) = Was(k) + tte'[list'[k + 1]]
    BY <1>4, <2>2, <2>3
  <2>5. CASE k + 1 <= n
    <3>1. k + 1 \in 1 .. Len(list) /\ k + 1 < n + 1 /\ k + 1 # n + 1 /\ k <= n
      BY <1>1, <2>5
    <3>2. list'[k + 1] = list[k + 1]
      BY <1>5, <2>2, <3>1
    <3>3. tte'[list[k + 1]] = tte[list[k + 1]]
      BY <1>5, <3>1
    <3>4. D(k + 1) = D(k) + tte[list[k + 1]]
      BY <1>2, <2>2, <3>1
    <3> QED BY <2>4, <2>5, <3>1, <3>2, <3>3, <3>4
  <2>6. CASE k + 1 = n + 1
    <3>3. k = n /\ k <= n /\ ~(k + 1 <= n) /\ ~(k + 1 < n + 1)
      BY <1>1, <2>6
    <3>4. list'[k + 1] = t
      BY <1>5, <2>2, <2>6, <3>3
    <3>1. list'[k + 1] = t /\ Was(k) = D(n) /\ Was(k + 1) = ticks
      BY <2>6, <3>3, <3>4
    <3>2. D(n) \in Nat
      BY <1>3
    <3> QED BY <1>5, <2>4, <3>1, <3>2
  <2>7. CASE k + 1 = n + 2
    <3>1. /\ n + 1 \in 1 .. Len(list) /\ k = n + 1 /\ (n + 1) - 1 = n
          /\ ~(n + 2 < n + 1) /\ n + 2 # n + 1 /\ (n + 2) - 1 = n + 1
          /\ n + 2 \in 1 .. Len(list) + 1 /\ ~(n + 1 <= n) /\ ~(n + 2 <= n)
      BY <1>1, <2>2, <2>7
    <3>2. list'[n + 2] = list[n + 1] /\ tte'[list[n + 1]] = tte[list[n + 1]] - (ticks - D(n))
      BY <1>5, <3>1
    <3>3. D(n + 1) = D(n) + tte[list[n + 1]] /\ tte[list[n + 1]] \in Nat /\ D(n) \in Nat
      BY <1>2, <1>3, <3>1
    <3>4. Was(k) = ticks /\ Was(k + 1) = D(n + 1)
      BY <2>7, <3>1
    <3>5. E(k + 1) = ticks + (tte[list[n + 1]] - (ticks - D(n)))
      BY <2>4, <2>7, <3>2, <3>4
    <3> QED BY <3>3, <3>4, <3>5
  <2>8. CASE k + 1 > n + 2
    <3>1. /\ k \in 1 .. Len(list) /\ k # n + 1 /\ ~(k + 1 < n + 1) /\ k + 1 # n + 1
          /\ ~(k <= n) /\ ~(k + 1 <= n)
      BY <1>1, <2>2, <2>8
    <3>2. list'[k + 1] = list[(k + 1) - 1] /\ (k + 1) - 1 = k
      BY <1>5, <2>2, <3>1
    <3>5. tte'[list[k]] = tte[list[k]]
      BY <1>5, <3>1
    <3>3. D(k) = D(k - 1) + tte[list[k]]
      BY <1>2, <3>1
    <3>4. Was(k) = D(k - 1) /\ Was(k + 1) = D(k)
      BY <2>2, <3>1
    <3> QED BY <2>4, <3>2, <3>3, <3>4, <3>5
  <2>9. k + 1 <= n \/ k + 1 = n + 1 \/ k + 1 = n + 2 \/ k + 1 > n + 2
    BY <1>1
  <2> QED BY <2>5, <2>6, <2>7, <2>8, <2>9
<1> HIDE DEF T
<1>8. Nat \subseteq T
  BY <1>6, <1>7, Induct
<1>9. ASSUME NEW i \in 1 .. Len(list) + 1
      PROVE  \/ list'[i] = t /\ E(i) = ticks
             \/ \E j \in DOMAIN list : list'[i] = list[j] /\ E(i) = D(j)
  <2>1. E(i) = Was(i)
    BY <1>1, <1>8 DEF T
  <2>2. CASE i <= n
    <3>1. i \in DOMAIN list /\ i < n + 1
      BY <1>1, <2>2
    <3>2. list'[i] = list[i] /\ E(i) = D(i)
      BY <1>5, <2>1, <2>2, <3>1
    <3> QED BY <3>1, <3>2
  <2>3. CASE i = n + 1
    <3>1. list'[i] = t /\ E(i) = ticks
      BY <1>1, <1>5, <2>1, <2>3
    <3> QED BY <3>1
  <2>4. CASE i > n + 1
    <3>1. i - 1 \in DOMAIN list /\ ~(i < n + 1) /\ i # n + 1 /\ ~(i <= n)
      BY <1>1, <2>4
    <3>2. list'[i] = list[i - 1]
      BY <1>5, <3>1
    <3>3. E(i) = D(i - 1)
      BY <2>1, <3>1
    <3> QED BY <3>1, <3>2, <3>3
  <2>5. i <= n \/ i = n + 1 \/ i > n + 1
    BY <1>1
  <2> QED BY <2>2, <2>3, <2>4, <2>5
<1> QED BY <1>1, <1>9 DEF D, E

\* Nor does taking one out change them.
LEMMA UnlinkDue ==
  ASSUME NEW t \in Timers, list \in Seq(Timers), tte \in [Timers -> Nat],
         list' \in Seq(Timers), NEW n \in 1 .. Len(list), TakenOut(n, t)
  PROVE  \A i \in DOMAIN list' :
           \E j \in DOMAIN list : list'[i] = list[j] /\ Due(list', tte', i) = Due(list, tte, j)
<1> DEFINE D(k) == Due(list, tte, k)
           E(k) == Due(list', tte', k)
           Was(k) == IF k < n THEN D(k) ELSE D(k + 1)
           T == {k \in Nat : k <= Len(list) - 1 => E(k) = Was(k)}
<1>1. /\ Len(list) \in Nat /\ DOMAIN list = 1 .. Len(list)
      /\ Len(list') = Len(list) - 1 /\ DOMAIN list' = 1 .. Len(list) - 1
  BY DEF TakenOut
<1>2. D(0) = 0 /\ \A k \in 1 .. Len(list) : D(k) = D(k - 1) + tte[list[k]] /\ tte[list[k]] \in Nat
  BY DueSteps
<1>3. \A k \in 0 .. Len(list) : D(k) \in Nat
  BY DueGrows
<1>4. E(0) = 0 /\ \A k \in 1 .. Len(list) - 1 : E(k) = E(k - 1) + tte'[list'[k]]
  <2>1. ASSUME NEW s \in Seq(Timers), NEW f
        PROVE  Due(s, f, 0) = 0 /\ \A k \in 1 .. Len(s) : Due(s, f, k) = Due(s, f, k - 1) + f[s[k]]
    BY DueSteps
  <2>2. Due(list', tte', 0) = 0
        /\ \A k \in 1 .. Len(list') : Due(list', tte', k) = Due(list', tte', k - 1) + tte'[list'[k]]
    BY <2>1, Zenon
  <2> QED BY <1>1, <2>2
<1>5. /\ list[n] = t
      /\ \A j \in 1 .. Len(list) - 1 : list'[j] = IF j < n THEN list[j] ELSE list[j + 1]
      /\ \A i \in 1 .. Len(list) : i # n =>
           tte'[list[i]] = IF i = n + 1 THEN tte[list[i]] + tte[t] ELSE tte[list[i]]
  BY DEF TakenOut
<1> HIDE DEF D, E
<1>6. 0 \in T
  <2>1. 0 < n
    OBVIOUS
  <2> QED BY <1>2, <1>4, <2>1
<1>7. ASSUME NEW k \in Nat, k \in T PROVE k + 1 \in T
  <2>1. SUFFICES ASSUME k + 1 <= Len(list) - 1 PROVE E(k + 1) = Was(k + 1)
    OBVIOUS
  <2>2. /\ k <= Len(list) - 1 /\ k + 1 \in 1 .. Len(list) - 1 /\ (k + 1) - 1 = k
        /\ k + 1 \in 1 .. Len(list) /\ k + 2 \in 1 .. Len(list)
        /\ (k + 1) + 1 = k + 2 /\ (k + 2) - 1 = k + 1
    BY <1>1, <2>1
  <2>3. E(k) = Was(k)
    BY <1>7, <2>2
  <2>4. E(k + 1) = Was(k) + tte'[list'[k + 1]]
    BY <1>4, <2>2, <2>3
  <2>10. /\ D(k + 1) = D(k) + tte[list[k + 1]] /\ D(k + 2) = D(k + 1) + tte[list[k + 2]]
         /\ tte[list[k + 1]] \in Nat /\ tte[list[k + 2]] \in Nat
    BY <1>2, <2>2
  <2>11. D(k) \in Nat
    <3>1. k \in 0 .. Len(list)
      BY <1>1, <2>1
    <3> QED BY <1>3, <3>1
  <2>5. CASE k + 1 < n
    <3>1. k < n /\ k + 1 # n /\ k + 1 # n + 1
      BY <1>1, <2>5
    <3>2. list'[k + 1] = list[k + 1]
      BY <1>5, <2>2, <2>5
    <3>3. tte'[list[k + 1]] = tte[list[k + 1]]
      BY <1>5, <2>2, <3>1
    <3> QED BY <2>4, <2>5, <2>10, <3>1, <3>2, <3>3
  <2>6. CASE k + 1 = n
    <3>1. k < n /\ ~(k + 1 < n) /\ k + 2 # n /\ k + 2 = n + 1
      BY <1>1, <2>6
    <3>2. list'[k + 1] = list[k + 2]
      BY <1>5, <2>2, <3>1
    <3>3. tte'[list[k + 2]] = tte[list[k + 2]] + tte[t]
      BY <1>5, <2>2, <3>1
    <3>4. tte[t] = tte[list[k + 1]]
      BY <1>5, <2>6
    <3>5. Was(k) = D(k) /\ Was(k + 1) = D(k + 2)
      BY <2>2, <3>1
    <3>6. E(k + 1) = D(k) + (tte[list[k + 2]] + tte[list[k + 1]])
      BY <2>4, <3>2, <3>3, <3>4, <3>5
    <3>7. D(k + 2) = D(k) + (tte[list[k + 2]] + tte[list[k + 1]])
      BY <2>10, <2>11
    <3> QED BY <3>5, <3>6, <3>7
  <2>7. CASE k + 1 > n
    <3>1. ~(k < n) /\ ~(k + 1 < n) /\ k + 2 # n /\ k + 2 # n + 1
      BY <1>1, <2>7
    <3>2. list'[k + 1] = list[k + 2]
      BY <1>5, <2>2, <3>1
    <3>3. tte'[list[k + 2]] = tte[list[k + 2]]
      BY <1>5, <2>2, <3>1
    <3>5. Was(k) = D(k + 1) /\ Was(k + 1) = D(k + 2)
      BY <2>2, <3>1
    <3> QED BY <2>4, <2>10, <3>2, <3>3, <3>5
  <2>9. k + 1 < n \/ k + 1 = n \/ k + 1 > n
    BY <1>1
  <2> QED BY <2>5, <2>6, <2>7, <2>9
<1> HIDE DEF T
<1>8. Nat \subseteq T
  BY <1>6, <1>7, Induct
<1>9. ASSUME NEW i \in 1 .. Len(list) - 1
      PROVE  \E j \in DOMAIN list : list'[i] = list[j] /\ E(i) = D(j)
  <2>1. E(i) = Was(i)
    BY <1>1, <1>8 DEF T
  <2>2. CASE i < n
    <3>1. i \in DOMAIN list
      BY <1>1
    <3>2. list'[i] = list[i] /\ E(i) = D(i)
      BY <1>5, <2>1, <2>2
    <3> QED BY <3>1, <3>2
  <2>3. CASE ~(i < n)
    <3>1. i + 1 \in DOMAIN list
      BY <1>1
    <3>2. list'[i] = list[i + 1] /\ E(i) = D(i + 1)
      BY <1>5, <2>1, <2>3
    <3> QED BY <3>1, <3>2
  <2> QED BY <2>2, <2>3
<1> QED BY <1>1, <1>9 DEF D, E

\* With the ticks taken off the front the times of those left are that much less.
LEMMA TakeOffDue ==
  ASSUME list \in Seq(Timers), tte \in [Timers -> Nat], list' \in Seq(Timers),
         NEW n \in 0 .. Len(list), NEW ticks \in Nat, TakesOff(n, ticks)
  PROVE  \A i \in 1 .. Len(list) - n : Due(list', tte', i) = Due(list, tte, n + i) - ticks
<1> DEFINE D(k) == Due(list, tte, k)
           E(k) == Due(list', tte', k)
           T == {k \in Nat : k \in 1 .. Len(list) - n => E(k) = D(n + k) - ticks}
<1>1. /\ Len(list) \in Nat /\ n \in Nat /\ Len(list') = Len(list) - n
  BY DEF TakesOff
<1>2. \A k \in 1 .. Len(list) : D(k) = D(k - 1) + tte[list[k]] /\ tte[list[k]] \in Nat
  BY DueSteps
<1>3. \A k \in 0 .. Len(list) : D(k) \in Nat
  BY DueGrows
<1>4. E(0) = 0 /\ \A k \in 1 .. Len(list) - n : E(k) = E(k - 1) + tte'[list'[k]]
  <2>1. ASSUME NEW s \in Seq(Timers), NEW f
        PROVE  Due(s, f, 0) = 0 /\ \A k \in 1 .. Len(s) : Due(s, f, k) = Due(s, f, k - 1) + f[s[k]]
    BY DueSteps
  <2>2. Due(list', tte', 0) = 0
        /\ \A k \in 1 .. Len(list') : Due(list', tte', k) = Due(list', tte', k - 1) + tte'[list'[k]]
    BY <2>1, Zenon
  <2> QED BY <1>1, <2>2
<1>5. /\ \A i \in 1 .. Len(list) - n : list'[i] = list[n + i]
      /\ \A i \in n + 1 .. Len(list) :
           tte'[list[i]] = IF i = n + 1 THEN tte[list[i]] - (ticks - D(n)) ELSE tte[list[i]]
  BY DEF TakesOff
<1> HIDE DEF D, E
<1>6. 0 \in T
  OBVIOUS
<1>7. ASSUME NEW k \in Nat, k \in T PROVE k + 1 \in T
  <2>1. SUFFICES ASSUME k + 1 \in 1 .. Len(list) - n PROVE E(k + 1) = D(n + (k + 1)) - ticks
    OBVIOUS
  <2> DEFINE m == n + (k + 1)
  <2>2. m \in n + 1 .. Len(list) /\ m \in 1 .. Len(list) /\ m - 1 = n + k /\ (k + 1) - 1 = k
    BY <1>1, <2>1
  <2>3. E(k + 1) = E(k) + tte'[list[m]]
    BY <1>4, <1>5, <2>1, <2>2
  <2>4. D(m) = D(n + k) + tte[list[m]] /\ tte[list[m]] \in Nat /\ D(n) \in Nat /\ D(n + k) \in Nat
    <3>1. D(m) = D(m - 1) + tte[list[m]] /\ tte[list[m]] \in Nat
      BY <1>2, <2>2
    <3>2. n + k \in 0 .. Len(list)
      BY <1>1, <2>1
    <3> QED BY <1>3, <2>2, <3>1, <3>2
  <2>5. CASE k = 0
    <3>1. m = n + 1 /\ n + k = n
      BY <1>1, <2>5
    <3>2. tte'[list[m]] = tte[list[m]] - (ticks - D(n))
      BY <1>5, <2>2, <3>1
    <3>3. E(k) = 0
      BY <1>4, <2>5
    <3> HIDE DEF m
    <3> QED BY <2>3, <2>4, <3>1, <3>2, <3>3 DEF m
  <2>6. CASE k # 0
    <3>1. m # n + 1 /\ k \in 1 .. Len(list) - n
      BY <1>1, <2>1, <2>6
    <3>2. tte'[list[m]] = tte[list[m]]
      BY <1>5, <2>2, <3>1
    <3>3. E(k) = D(n + k) - ticks
      BY <1>7, <3>1
    <3> QED BY <2>3, <2>4, <3>2, <3>3
  <2> QED BY <2>5, <2>6
<1> HIDE DEF T
<1>8. Nat \subseteq T
  BY <1>6, <1>7, Induct
<1>9. ASSUME NEW i \in 1 .. Len(list) - n PROVE E(i) = D(n + i) - ticks
  BY <1>1, <1>8 DEF T
<1> QED BY <1>9 DEF D, E

-----------------------------------------------------------------------------
(* No timer has fewer ticks on the list than it has left.                   *)

Passed == Diff(counter, latest)

\* No timer of the list falls due before its time.
DueInv == \A i \in DOMAIN list : left[list[i]] <= Due(list, tte, i) - Passed

\* What RTC1's interrupt has found passed.
ServiceInv ==
  /\ InService =>
       \A i \in DOMAIN list : left[list[i]] <= Due(list, tte, i) - (job.ticks + job.expired)
  /\ At("handler") => job.timer \in Timers /\ left[job.timer] <= 0

\* What waits to be put back counts from the moment it expired.
BackInv ==
  At("insert") =>
    \A i \in DOMAIN job.restart :
      LET t == job.restart[i] IN left[t] <= period[t] - Diff(latest, job.since[t]) - Passed

\* The counter has told no start of more ticks than have passed since: it is
\* after m_ticks_latest, or m_ticks_latest has passed it, or the counter was
\* cleared since.
Half == (Wrap - 1) \div 2
Counted(o, last, passed, reset) ==
  IF reset THEN last = 0 /\ passed <= o.age
  ELSE \/ Diff(o.at, last) < Half /\ passed <= o.age + Diff(o.at, last)
       \/ Diff(last, o.at) + passed <= o.age
StartInv ==
  \A i \in DOMAIN ops : ops[i].type = "start" => Counted(ops[i], latest, Passed, rtcReset)

\* Nothing was started in a gap.
GapInv ==
  /\ rtcReset => job.at \in {"insert", "compare", "set", "check", "clear"}
  /\ rtcReset \/ (job.at \in {"compare", "clear"} /\ list = <<>>) =>
       At("insert") \/ \A i \in DOMAIN ops : ops[i].type # "start"

EarlyInv == ~disturbed => DueInv /\ ServiceInv /\ BackInv /\ StartInv /\ GapInv

LEMMA HalfType == Half \in Nat
BY AppTimerAssumption DEF Half

\* The types that the arithmetic needs.
LEMMA EarlyTypes ==
  ASSUME TypeInv
  PROVE  /\ counter \in 0 .. Wrap - 1 /\ latest \in 0 .. Wrap - 1 /\ Passed \in 0 .. Wrap - 1
         /\ Wrap \in Nat /\ Wrap > 1 /\ Passed \in Nat /\ latest \in Nat /\ counter \in Nat
         /\ list \in Seq(Timers) /\ Len(list) \in Nat /\ DOMAIN list = 1 .. Len(list)
         /\ tte \in [Timers -> Nat]
         /\ left \in [Timers -> Int]
         /\ \A t \in Timers : left[t] \in Int /\ period[t] \in Nat
         /\ \A i \in 1 .. Len(list) : list[i] \in Timers /\ left[list[i]] \in Int
         /\ \A i \in 0 .. Len(list) : Due(list, tte, i) \in Nat
         /\ ops \in Seq(Ops) /\ Len(ops) \in Nat /\ DOMAIN ops = 1 .. Len(ops)
         /\ \A i \in 1 .. Len(ops) : /\ ops[i].at \in 0 .. Wrap - 1 /\ ops[i].age \in Nat
                                     /\ Diff(ops[i].at, latest) \in 0 .. Wrap - 1
                                     /\ Diff(latest, ops[i].at) \in 0 .. Wrap - 1
<1>1. AppTimerTypeOK /\ ops \in Seq(Ops)
  BY DEF TypeInv
<1>2. /\ counter \in 0 .. Wrap - 1 /\ latest \in 0 .. Wrap - 1
      /\ list \in Seq(Timers) /\ tte \in [Timers -> Nat] /\ left \in [Timers -> Int]
      /\ period \in [Timers -> Intervals \cup {0}]
  BY <1>1 DEF AppTimerTypeOK
<1>3. Wrap \in Nat /\ Wrap > 1
  BY AppTimerAssumption
<1>4. Passed \in 0 .. Wrap - 1
  BY <1>2, DiffRange DEF Passed
<1>5. \A t \in Timers : left[t] \in Int /\ period[t] \in Nat
  BY <1>2, SmallNumbers
<1>6. \A i \in 0 .. Len(list) : Due(list, tte, i) \in Nat
  BY <1>2, DueGrows
<1>7. Len(list) \in Nat /\ DOMAIN list = 1 .. Len(list) /\ \A i \in 1 .. Len(list) : list[i] \in Timers
  BY <1>2
<1>8. Len(ops) \in Nat /\ DOMAIN ops = 1 .. Len(ops) /\ \A i \in 1 .. Len(ops) : ops[i] \in Ops
  BY <1>1
<1>9. ASSUME NEW i \in 1 .. Len(ops)
      PROVE  /\ ops[i].at \in 0 .. Wrap - 1 /\ ops[i].age \in Nat
             /\ Diff(ops[i].at, latest) \in 0 .. Wrap - 1
             /\ Diff(latest, ops[i].at) \in 0 .. Wrap - 1
  <2>1. ops[i].at \in 0 .. Wrap - 1 /\ ops[i].age \in Nat
    BY <1>8 DEF Ops
  <2> QED BY <1>2, <2>1, DiffRange
<1>10. Passed \in Nat /\ latest \in Nat /\ counter \in Nat
  BY <1>2, <1>3, <1>4
<1> QED BY <1>1, <1>2, <1>3, <1>4, <1>5, <1>6, <1>7, <1>8, <1>9, <1>10

LEMMA BackTypes ==
  ASSUME TypeInv, At("insert")
  PROVE  /\ job \in Inserts /\ Len(job.restart) \in Nat /\ DOMAIN job.restart = 1 .. Len(job.restart)
         /\ \A i \in DOMAIN job.restart :
              /\ job.restart[i] \in Timers /\ Contains(job.restart, job.restart[i])
              /\ ListInv => /\ job.since[job.restart[i]] \in 0 .. Wrap - 1
                            /\ Diff(latest, job.since[job.restart[i]]) \in Nat
<1>1. job \in Inserts
  BY JobKinds DEF TypeInv
<1>2. /\ job.restart \in Seq(Timers)
      /\ job.since \in UNION {[T -> 0 .. Wrap - 1] : T \in SUBSET Timers}
  BY <1>1 DEF Inserts
<1>3. PICK T \in SUBSET Timers : job.since \in [T -> 0 .. Wrap - 1]
  BY <1>2
<1>4. latest \in 0 .. Wrap - 1
  BY EarlyTypes
<1>5. ASSUME NEW i \in DOMAIN job.restart, ListInv
      PROVE  /\ job.since[job.restart[i]] \in 0 .. Wrap - 1
             /\ Diff(latest, job.since[job.restart[i]]) \in Nat
  <2>1. job.restart[i] \in T
    BY <1>3, <1>5 DEF ListInv
  <2>2. job.since[job.restart[i]] \in 0 .. Wrap - 1
    BY <1>3, <2>1
  <2>3. Diff(latest, job.since[job.restart[i]]) \in 0 .. Wrap - 1
    BY <1>4, <2>2, DiffRange
  <2> QED BY <2>2, <2>3, AppTimerAssumption
<1> QED BY <1>1, <1>2, <1>5 DEF Contains

LEMMA EarlyInit == Init => EarlyInv
BY DEF Init, EarlyInv, DueInv, ServiceInv, BackInv, StartInv, GapInv, InService, At, Idle

\* Nothing that the invariant is about changes, and no start is queued.
LEMMA EarlyFrame ==
  ASSUME EarlyInv, UNCHANGED <<counter, latest, list, tte, left, period, rtcReset, job, disturbed>>,
         \A i \in DOMAIN ops' : ops'[i].type = "start" => i \in DOMAIN ops /\ ops'[i] = ops[i]
  PROVE  EarlyInv'
<1> SUFFICES ASSUME ~disturbed PROVE (DueInv /\ ServiceInv /\ BackInv /\ StartInv /\ GapInv)'
  BY DEF EarlyInv
<1>1. DueInv /\ ServiceInv /\ BackInv /\ StartInv /\ GapInv
  BY DEF EarlyInv
<1>2. DueInv' /\ ServiceInv' /\ BackInv'
  BY <1>1 DEF DueInv, ServiceInv, BackInv, Passed, InService, At
<1>3. StartInv'
  BY <1>1 DEF StartInv, Counted, Passed
<1>4. GapInv'
  BY <1>1 DEF GapInv, At
<1> QED BY <1>2, <1>3, <1>4

LEMMA EarlyStop ==
  ASSUME TypeInv, EarlyInv,
         \/ \E level \in 1 .. 3 : StopAll(level)
         \/ \E level \in 1 .. 2, t \in Timers : StopBegin(level, t)
         \/ \E level \in 1 .. 2 : StopEnd(level)
         \/ \E t \in Timers : StopAbove(t)
  PROVE  EarlyInv'
<1>1. UNCHANGED <<counter, latest, list, tte, left, period, rtcReset, job, disturbed>>
  BY DEF StopAll, StopBegin, StopEnd, StopAbove, rtc, nodes
<1>2. Len(ops) \in Nat /\ DOMAIN ops = 1 .. Len(ops)
  BY EarlyTypes
<1>3. ASSUME NEW t \in Timers, Queued(t), NEW i \in DOMAIN ops', ops'[i].type = "start"
      PROVE  i \in DOMAIN ops /\ ops'[i] = ops[i]
  <2>1. i \in 1 .. Len(ops) + 1 /\ i # Len(ops) + 1
    BY <1>3 DEF Queued, Stops
  <2>2. i \in DOMAIN ops
    BY <1>2, <2>1
  <2> QED BY <1>3, <2>2 DEF Queued
<1>4. ASSUME NEW i \in DOMAIN ops', ops'[i].type = "start"
      PROVE  i \in DOMAIN ops /\ ops'[i] = ops[i]
  <2>1. CASE \E level \in 1 .. 3 : StopAll(level)
    <3>1. PICK level \in 1 .. 3 : StopAll(level)
      BY <2>1
    <3>2. /\ DOMAIN ops' = 1 .. Len(ops) + 1 /\ ops'[Len(ops) + 1].type = "stopall"
          /\ \A j \in DOMAIN ops : ops'[j] = ops[j]
      BY <3>1, StopAllFacts
    <3>3. i \in DOMAIN ops
      BY <1>2, <1>4, <3>2
    <3> QED BY <3>2, <3>3
  <2>2. CASE \E level \in 1 .. 2, t \in Timers : StopBegin(level, t)
    <3>1. ops' = ops
      BY <2>2 DEF StopBegin
    <3> QED BY <1>4, <3>1
  <2>3. CASE \E level \in 1 .. 2 : StopEnd(level)
    <3>1. PICK level \in 1 .. 2 : StopEnd(level)
      BY <2>3
    <3>2. stopping[level] \in Timers /\ (Queued(stopping[level]) \/ ops' = ops)
      BY <3>1, StopEndFacts
    <3> QED BY <1>3, <1>4, <3>2
  <2>4. CASE \E t \in Timers : StopAbove(t)
    <3>1. PICK t \in Timers : StopAbove(t)
      BY <2>4
    <3>2. Queued(t) \/ ops' = ops
      BY <3>1, StopAboveFacts
    <3> QED BY <1>3, <1>4, <3>2
  <2> QED BY <2>1, <2>2, <2>3, <2>4
<1> QED BY <1>1, <1>4, EarlyFrame

\* A start that is in no gap has the counter between m_ticks_latest and half the
\* range after it.
LEMMA EarlyStart ==
  ASSUME TypeInv, EarlyInv, NEW level, NEW t \in Timers, NEW ticks \in Intervals, Start(level, t, ticks)
  PROVE  EarlyInv'
<1> SUFFICES ASSUME ~disturbed' PROVE (DueInv /\ ServiceInv /\ BackInv /\ StartInv /\ GapInv)'
  BY DEF EarlyInv
<1>1. /\ UNCHANGED <<counter, latest, list, tte, left, period, rtcReset, job>>
      /\ ~disturbed /\ ~GapClear /\ ~GapStale
      /\ ops' = Append(ops, [type |-> "start", timer |-> t, at |-> counter, ticks |-> ticks, age |-> 0])
  BY DEF Start, rtc, nodes, Enqueue
<1>2. DueInv /\ ServiceInv /\ BackInv /\ StartInv /\ GapInv
  BY <1>1 DEF EarlyInv
<1>3. DueInv' /\ ServiceInv' /\ BackInv'
  BY <1>1, <1>2 DEF DueInv, ServiceInv, BackInv, Passed, InService, At
<1>4. GapInv'
  <2>1. ~rtcReset /\ ~(job.at \in {"compare", "clear"} /\ list = <<>>)
    BY <1>1 DEF GapClear
  <2> QED BY <1>1, <2>1 DEF GapInv, At
<1>5. StartInv'
  <2> DEFINE o == [type |-> "start", timer |-> t, at |-> counter, ticks |-> ticks, age |-> 0]
             k == Len(ops) + 1
  <2>1. Len(ops) \in Nat /\ DOMAIN ops = 1 .. Len(ops) /\ Passed \in Nat /\ Wrap \in Nat
    BY EarlyTypes
  <2>2. /\ DOMAIN ops' = 1 .. k /\ ops'[k] = o
        /\ \A i \in DOMAIN ops : ops'[i] = ops[i]
    BY <1>1, <2>1, EarlyTypes
  <2>3. Counted(o, latest, Passed, rtcReset)
    <3>1. ~rtcReset
      BY <1>1 DEF GapClear
    <3>2. o.at = counter /\ o.age = 0
      OBVIOUS
    <3>3. Diff(o.at, latest) = Passed
      BY <3>2 DEF Passed
    <3>4. Passed < Half
      <4>1. ~(Passed >= Half) /\ Half \in Int
        BY <1>1, <2>1 DEF GapStale, Passed, Half
      <4> QED BY <2>1, <4>1
    <3> HIDE DEF o
    <3>5. Passed <= o.age + Diff(o.at, latest)
      BY <2>1, <3>2, <3>3
    <3> QED BY <3>1, <3>3, <3>4, <3>5 DEF Counted
  <2>4. ASSUME NEW i \in DOMAIN ops', ops'[i].type = "start"
        PROVE  Counted(ops'[i], latest, Passed, rtcReset)
    <3>1. CASE i = k
      BY <2>2, <2>3, <3>1
    <3>2. CASE i # k
      <4>1. i \in DOMAIN ops /\ ops'[i] = ops[i]
        BY <2>1, <2>2, <3>2
      <4> QED BY <1>2, <2>4, <4>1 DEF StartInv
    <3> QED BY <3>1, <3>2
  <2>5. latest' = latest /\ Passed' = Passed /\ rtcReset' = rtcReset
    BY <1>1 DEF Passed
  <2> HIDE DEF o, k
  <2> QED BY <2>4, <2>5 DEF StartInv
<1> QED BY <1>3, <1>4, <1>5

\* Time passes.
LEMMA EarlyTick ==
  ASSUME TypeInv, ListInv, EarlyInv, Tick
  PROVE  EarlyInv'
<1> SUFFICES ASSUME ~disturbed' PROVE (DueInv /\ ServiceInv /\ BackInv /\ StartInv /\ GapInv)'
  BY DEF EarlyInv
<1>1. /\ UNCHANGED <<list, tte, period, latest, rtcReset, job, disturbed>>
      /\ counter' \in {counter, (counter + 1) % Wrap}
      /\ left' = [t \in Timers |->
           IF Counting(t) /\ (disturbed => left[t] > -Prompt) THEN left[t] - 1 ELSE left[t]]
      /\ ops' = [i \in DOMAIN ops |-> [ops[i] EXCEPT !.age = @ + 1]]
  BY DEF Tick, nodes
<1>2. DueInv /\ ServiceInv /\ BackInv /\ StartInv /\ GapInv
  BY <1>1 DEF EarlyInv
<1>3. Passed \in Nat /\ Passed' \in Int /\ Passed' <= Passed + 1
  <2>1. counter \in 0 .. Wrap - 1 /\ latest \in 0 .. Wrap - 1 /\ Passed \in Nat
    BY EarlyTypes
  <2>2. Diff((counter + 1) % Wrap, latest) <= Passed + 1
    BY <2>1, DiffTick DEF Passed
  <2>3. (counter + 1) % Wrap \in 0 .. Wrap - 1
    BY <2>1, ModRange, AppTimerAssumption
  <2>4. counter' \in 0 .. Wrap - 1
    BY <1>1, <2>1, <2>3
  <2>5. Passed' = Diff(counter', latest)
    BY <1>1 DEF Passed
  <2>6. Passed' \in 0 .. Wrap - 1
    BY <2>1, <2>4, <2>5, DiffRange
  <2>7. Passed' \in Int
    BY <2>6, AppTimerAssumption
  <2> QED BY <1>1, <2>1, <2>2, <2>5, <2>7 DEF Passed
<1>4. /\ \A t \in Timers : left'[t] \in Int /\ left[t] \in Int /\ period[t] \in Nat /\ left'[t] <= left[t]
      /\ \A t \in Timers : Counting(t) => left'[t] = left[t] - 1
  BY <1>1, EarlyTypes
<1>5. /\ Len(list) \in Nat /\ DOMAIN list = 1 .. Len(list)
      /\ \A i \in 1 .. Len(list) : list[i] \in Timers /\ Due(list, tte, i) \in Nat
  BY EarlyTypes
<1>6. DueInv'
  <2>1. ASSUME NEW i \in DOMAIN list PROVE left'[list[i]] <= Due(list, tte, i) - Passed'
    <3>1. Counting(list[i])
      BY <1>5 DEF Counting, Contains
    <3>2. left[list[i]] <= Due(list, tte, i) - Passed
      BY <1>2 DEF DueInv
    <3>3. left'[list[i]] = left[list[i]] - 1 /\ left[list[i]] \in Int /\ Due(list, tte, i) \in Nat
      BY <1>4, <1>5, <3>1
    <3> QED BY <1>3, <3>2, <3>3
  <2> QED BY <1>1, <2>1 DEF DueInv
<1>7. ServiceInv'
  <2>1. ASSUME InService, NEW i \in DOMAIN list
        PROVE  left'[list[i]] <= Due(list, tte, i) - (job.ticks + job.expired)
    <3>1. left[list[i]] <= Due(list, tte, i) - (job.ticks + job.expired)
      BY <1>2, <2>1 DEF ServiceInv
    <3>2. job.ticks \in Nat /\ job.expired \in Nat
      BY <2>1, JobKinds DEF TypeInv, Walks
    <3> QED BY <1>4, <1>5, <3>1, <3>2
  <2>2. ASSUME At("handler") PROVE job.timer \in Timers /\ left'[job.timer] <= 0
    BY <1>2, <1>4, <2>2 DEF ServiceInv
  <2> QED BY <1>1, <2>1, <2>2 DEF ServiceInv, InService, At
<1>8. BackInv'
  <2>1. ASSUME At("insert"), NEW i \in DOMAIN job.restart
        PROVE  left'[job.restart[i]] <=
                 period[job.restart[i]] - Diff(latest, job.since[job.restart[i]]) - Passed'
    <3> DEFINE t == job.restart[i]
               d == Diff(latest, job.since[t])
    <3>1. left[t] <= period[t] - d - Passed
      BY <1>2, <2>1 DEF BackInv
    <3>2. t \in Timers /\ d \in Nat
      BY <2>1, BackTypes
    <3>3. Counting(t)
      BY <2>1, BackTypes DEF Counting
    <3>4. left'[t] = left[t] - 1 /\ left[t] \in Int /\ period[t] \in Nat
      BY <1>4, <3>2, <3>3
    <3> HIDE DEF t, d
    <3>5. left'[t] <= period[t] - d - Passed'
      BY <1>3, <3>1, <3>2, <3>4
    <3> QED BY <3>5 DEF t, d
  <2> QED BY <1>1, <2>1 DEF BackInv, At
<1>9. Len(ops) \in Nat /\ DOMAIN ops = 1 .. Len(ops) /\ DOMAIN ops' = DOMAIN ops
      /\ \A i \in DOMAIN ops :
           /\ ops'[i].type = ops[i].type /\ ops'[i].at = ops[i].at /\ ops'[i].age = ops[i].age + 1
           /\ ops[i].age \in Nat
           /\ Diff(ops[i].at, latest) \in Nat /\ Diff(latest, ops[i].at) \in Nat
  <2>1. ASSUME NEW i \in DOMAIN ops
        PROVE  /\ ops'[i].type = ops[i].type /\ ops'[i].at = ops[i].at /\ ops'[i].age = ops[i].age + 1
    <3>1. ops[i] \in Ops /\ ops'[i] = [ops[i] EXCEPT !.age = @ + 1]
      BY <1>1, EarlyTypes
    <3> QED BY <3>1 DEF Ops
  <2>2. ASSUME NEW i \in DOMAIN ops
        PROVE  ops[i].age \in Nat /\ Diff(ops[i].at, latest) \in Nat /\ Diff(latest, ops[i].at) \in Nat
    <3>1. \A n \in 0 .. Wrap - 1 : n \in Nat
      BY AppTimerAssumption
    <3> QED BY <3>1, EarlyTypes
  <2>3. Len(ops) \in Nat /\ DOMAIN ops = 1 .. Len(ops)
    BY EarlyTypes
  <2>4. DOMAIN ops' = DOMAIN ops
    BY <1>1
  <2> QED BY <2>1, <2>2, <2>3, <2>4
<1>10. StartInv'
  <2>1. ASSUME NEW i \in DOMAIN ops, ops[i].type = "start"
        PROVE  Counted(ops'[i], latest, Passed', rtcReset)
    <3> DEFINE f == Diff(ops[i].at, latest)
               g == Diff(latest, ops[i].at)
               a == ops[i].age
               b == ops'[i].age
    <3>1. Counted(ops[i], latest, Passed, rtcReset)
      BY <1>2, <2>1 DEF StartInv
    <3>2. f \in Nat /\ g \in Nat /\ a \in Nat /\ b = a + 1
      BY <1>9
    <3>3. IF rtcReset THEN latest = 0 /\ Passed <= a
          ELSE (f < Half /\ Passed <= a + f) \/ g + Passed <= a
      BY <3>1 DEF Counted
    <3>4. Diff(ops'[i].at, latest) = f /\ Diff(latest, ops'[i].at) = g
      BY <1>9
    <3> HIDE DEF f, g, a, b
    <3>5. IF rtcReset THEN latest = 0 /\ Passed' <= b
          ELSE (f < Half /\ Passed' <= b + f) \/ g + Passed' <= b
      <4> DEFINE p == Passed
                 q == Passed'
      <4>1. p \in Nat /\ q \in Int /\ q <= p + 1
        BY <1>3
      <4>2. (p <= a => q <= b) /\ (p <= a + f => q <= b + f) /\ (g + p <= a => g + q <= b)
        <5> HIDE DEF p, q
        <5> QED BY <3>2, <4>1
      <4> QED BY <3>3, <4>2
    <3>6. b = ops'[i].age
      BY DEF b
    <3> QED BY <3>4, <3>5, <3>6 DEF Counted
  <2>2. latest' = latest /\ rtcReset' = rtcReset
    BY <1>1
  <2> QED BY <1>9, <2>1, <2>2 DEF StartInv
<1>11. GapInv'
  BY <1>1, <1>2, <1>9 DEF GapInv, At
<1> QED BY <1>6, <1>7, <1>8, <1>10, <1>11

\* What level 2 does without the list.
LEMMA EarlyWork ==
  ASSUME TypeInv, RunsInv, EarlyInv, Work
  PROVE  EarlyInv'
<1>1. UNCHANGED <<list, tte, ops, disturbed, left, period>>
  <2>1. UNCHANGED <<list, tte, ops, disturbed>>
    BY WorkFacts DEF Work
  <2>2. UNCHANGED <<left, period>>
    BY DEF Work, OtherEnter, HandlerReturn, RtcEnter, RtcLeave, InsertLeave, CompareBegin,
           CompareSet, CompareCheck, RtcStop, RtcClear, nodes, ghosts
  <2> QED BY <2>1, <2>2
<1> SUFFICES ASSUME ~disturbed PROVE (DueInv /\ ServiceInv /\ BackInv /\ StartInv /\ GapInv)'
  BY <1>1 DEF EarlyInv
<1>2. DueInv /\ ServiceInv /\ BackInv /\ StartInv /\ GapInv
  BY DEF EarlyInv
<1>3. BackInv'
  BY WorkJobs DEF BackInv, At
<1> DEFINE NoStarts == \A i \in DOMAIN ops : ops[i].type # "start"
<1>4. CASE RtcClear
  <2>1. list = <<>> /\ At("clear") /\ job'.at = "idle" /\ rtcReset' = FALSE
    BY <1>4, WorkJobs DEF RtcClear, RunsInv
  <2>2. NoStarts
    BY <1>2, <2>1 DEF GapInv, At
  <2>3. DOMAIN list' = {}
    BY <1>1, <2>1
  <2> QED BY <1>1, <1>3, <2>1, <2>2, <2>3 DEF DueInv, ServiceInv, StartInv, GapInv, InService, At
<1>5. CASE ~RtcClear
  <2>1. UNCHANGED <<counter, latest>>
    BY <1>5 DEF Work, OtherEnter, HandlerReturn, RtcEnter, RtcLeave, InsertLeave, CompareBegin,
                CompareSet, CompareCheck, RtcStop, rtc
  <2>2. DueInv'
    BY <1>1, <1>2, <2>1 DEF DueInv, Passed
  <2>3. ServiceInv'
    <3>1. CASE HandlerReturn
      <4>1. (At("other") /\ job' = Idle) \/ (At("handler") /\ job' = [job EXCEPT !.at = "expire"])
        BY <3>1 DEF HandlerReturn
      <4>2. CASE At("other") /\ job' = Idle
        BY <4>2 DEF ServiceInv, InService, At, Idle
      <4>3. CASE At("handler") /\ job' = [job EXCEPT !.at = "expire"]
        <5>1. job \in Walks /\ InService
          BY <4>3, JobKinds DEF TypeInv, InService, At
        <5>2. job'.ticks = job.ticks /\ job'.expired = job.expired /\ job'.at = "expire"
          BY <4>3, <5>1 DEF Walks
        <5> QED BY <1>1, <1>2, <5>1, <5>2 DEF ServiceInv, At
      <4> QED BY <4>1, <4>2, <4>3
    <3>2. CASE RtcEnter
      <4>1. job' = IF list = <<>> THEN Idle
                   ELSE [at |-> "expire", walk |-> list, ticks |-> Passed, expired |-> 0, timer |-> None]
        BY <3>2 DEF RtcEnter, Passed
      <4>2. CASE list = <<>>
        BY <4>1, <4>2 DEF ServiceInv, InService, At, Idle
      <4>3. CASE list # <<>>
        <5>1. job'.ticks = Passed /\ job'.expired = 0 /\ job'.at = "expire"
          BY <4>1, <4>3
        <5>2. Passed \in Nat
          BY EarlyTypes
        <5>3. job'.ticks + job'.expired = Passed
          BY <5>1, <5>2
        <5> QED BY <1>1, <1>2, <5>1, <5>3 DEF ServiceInv, DueInv, At
      <4> QED BY <4>2, <4>3
    <3>3. CASE ~HandlerReturn /\ ~RtcEnter
      <4>1. job'.at \notin {"expire", "handler"}
        BY <3>3, WorkJobs DEF Work
      <4> QED BY <4>1 DEF ServiceInv, InService, At
    <3> QED BY <3>1, <3>2, <3>3
  <2>4. rtcReset' = rtcReset \/ NoStarts
    <3>1. CASE InsertLeave
      BY <3>1 DEF InsertLeave
    <3>2. CASE CompareCheck
      <4>1. At("check")
        BY <3>2 DEF CompareCheck
      <4>2. ~rtcReset \/ NoStarts
        BY <1>2, <4>1 DEF GapInv, At
      <4>3. rtcReset' = FALSE /\ (~rtcReset => rtcReset = FALSE)
        BY <3>2 DEF CompareCheck, TypeInv, AppTimerTypeOK
      <4> QED BY <4>2, <4>3
    <3>3. CASE ~InsertLeave /\ ~CompareCheck
      BY <1>5, <3>3 DEF Work, OtherEnter, HandlerReturn, RtcEnter, RtcLeave, CompareBegin,
                        CompareSet, RtcStop
    <3> QED BY <3>1, <3>2, <3>3
  <2>5. StartInv'
    <3>1. CASE NoStarts
      BY <1>1, <3>1 DEF StartInv
    <3>2. CASE rtcReset' = rtcReset
      BY <1>1, <1>2, <2>1, <3>2 DEF StartInv, Passed
    <3> QED BY <2>4, <3>1, <3>2
  <2>6. GapInv'
    <3>1. CASE InsertLeave
      <4>1. ops = <<>> /\ job'.at \in {"compare", "idle"}
        BY <3>1, WorkJobs DEF InsertLeave
      <4>2. job'.at = "compare" \/ rtcReset' = FALSE
        BY <3>1 DEF InsertLeave
      <4> QED BY <1>1, <4>1, <4>2 DEF GapInv, At
    <3>2. CASE CompareBegin
      <4>1. At("compare") /\ job'.at = "set" /\ rtcReset' = rtcReset
        BY <3>2, WorkJobs DEF CompareBegin
      <4> QED BY <1>1, <1>2, <4>1 DEF GapInv, At
    <3>3. CASE CompareSet
      <4>1. At("set") /\ job'.at = "check" /\ rtcReset' = rtcReset
        BY <3>3, WorkJobs DEF CompareSet
      <4> QED BY <1>1, <1>2, <4>1 DEF GapInv, At
    <3>4. CASE CompareCheck
      <4>1. job'.at = "idle" /\ rtcReset' = FALSE
        BY <3>4, WorkJobs DEF CompareCheck
      <4> QED BY <4>1 DEF GapInv
    <3>5. CASE RtcStop
      <4>1. At("compare") /\ list = <<>> /\ job'.at = "clear" /\ rtcReset' = rtcReset
        BY <3>5, WorkJobs DEF RtcStop
      <4> QED BY <1>1, <1>2, <4>1 DEF GapInv, At
    <3>6. CASE OtherEnter \/ HandlerReturn \/ RtcEnter \/ RtcLeave
      <4>1. job.at \in {"idle", "other", "handler", "expire"} /\ rtcReset' = rtcReset
        BY <3>6, WorkJobs DEF OtherEnter, HandlerReturn, RtcEnter, RtcLeave, At
      <4>2. ~rtcReset'
        BY <1>2, <4>1 DEF GapInv
      <4>3. job'.at \notin {"compare", "clear"}
        BY <3>6, WorkJobs
      <4> QED BY <4>2, <4>3 DEF GapInv
    <3> QED BY <1>5, <3>1, <3>2, <3>3, <3>4, <3>5, <3>6 DEF Work
  <2> QED BY <1>3, <2>2, <2>3, <2>5, <2>6
<1> QED BY <1>4, <1>5

\* A timer that is found expired has no ticks left.
LEMMA EarlyExpire ==
  ASSUME TypeInv, WalkInv, EarlyInv, Expire
  PROVE  EarlyInv'
<1>1. UNCHANGED <<counter, latest, list, tte, ops, disturbed, left, period, rtcReset>>
  BY DEF Expire, rtc, ghosts
<1> SUFFICES ASSUME ~disturbed PROVE (DueInv /\ ServiceInv /\ BackInv /\ StartInv /\ GapInv)'
  BY <1>1 DEF EarlyInv
<1>2. DueInv /\ ServiceInv /\ BackInv /\ StartInv /\ GapInv
  BY DEF EarlyInv
<1>3. /\ At("expire") /\ InService /\ job'.at \in {"expire", "handler"}
      /\ Walked + 1 \in 1 .. Len(list)
      /\ job'.timer = list[Walked + 1] /\ job'.timer \in Timers
      /\ job'.expired = job.expired + tte[job'.timer]
      /\ job'.ticks = job.ticks - tte[job'.timer] /\ tte[job'.timer] \in Nat
  BY ExpireFacts DEF InService, At
<1>4. /\ job.ticks \in Nat /\ job.expired \in Nat
      /\ Due(list, tte, Walked + 1) = job.expired + tte[Head(job.walk)]
      /\ Head(job.walk) = job'.timer /\ DOMAIN list = 1 .. Len(list)
  <2>1. job.walk # <<>>
    BY DEF Expire, MoreExpired
  <2> QED BY <1>3, <2>1, WalkFacts
<1>5. job'.ticks + job'.expired = job.ticks + job.expired
  BY <1>3, <1>4
<1>6. left[job'.timer] <= 0
  <2>1. left[job'.timer] <= Due(list, tte, Walked + 1) - (job.ticks + job.expired)
    BY <1>2, <1>3, <1>4 DEF ServiceInv
  <2>2. job.ticks >= tte[job'.timer]
    BY <1>4 DEF Expire, MoreExpired, Expired
  <2>3. left[job'.timer] \in Int
    BY <1>3, EarlyTypes
  <2> QED BY <1>3, <1>4, <2>1, <2>2, <2>3
<1>7. ServiceInv'
  BY <1>1, <1>2, <1>3, <1>5, <1>6 DEF ServiceInv, InService, At
<1>8. DueInv' /\ StartInv'
  BY <1>1, <1>2 DEF DueInv, StartInv, Passed
<1>9. BackInv'
  BY <1>3 DEF BackInv, At
<1>10. GapInv'
  BY <1>1, <1>2, <1>3 DEF GapInv, At
<1> QED BY <1>7, <1>8, <1>9, <1>10

LEMMA EarlyStutter ==
  ASSUME EarlyInv, UNCHANGED vars
  PROVE  EarlyInv'
BY EarlyFrame DEF vars, rtc, nodes, ghosts

\* SWI0 takes the expired ticks: m_ticks_latest moves towards the counter.
LEMMA EarlySwi ==
  ASSUME TypeInv, ListInv, NotWrapped, EarlyInv, SwiEnter
  PROVE  EarlyInv'
<1>1. /\ UNCHANGED <<counter, ops, disturbed, period, rtcReset>>
      /\ At("idle")
  BY DEF SwiEnter, rtc
<1> SUFFICES ASSUME ~disturbed PROVE (DueInv /\ ServiceInv /\ BackInv /\ StartInv /\ GapInv)'
  BY <1>1 DEF EarlyInv
<1>2. DueInv /\ ServiceInv /\ BackInv /\ StartInv /\ GapInv
  BY DEF EarlyInv
<1>3. PICK n \in 0 .. Len(list), ticks \in Nat : TakesOff(n, ticks)
  BY SwiEnterFacts DEF ListInv
<1>4. TypeInv' /\ job'.at = "insert"
  BY SwiEnterFacts DEF ListInv
<1>5. /\ counter \in 0 .. Wrap - 1 /\ latest \in 0 .. Wrap - 1 /\ Passed \in 0 .. Wrap - 1
      /\ Passed \in Nat /\ Wrap \in Nat
      /\ list \in Seq(Timers) /\ tte \in [Timers -> Nat] /\ list' \in Seq(Timers)
      /\ Len(list) \in Nat /\ DOMAIN list = 1 .. Len(list)
      /\ Len(list') \in Nat /\ DOMAIN list' = 1 .. Len(list')
  <2>1. list' \in Seq(Timers)
    BY <1>4 DEF TypeInv, AppTimerTypeOK
  <2> QED BY <2>1, EarlyTypes
<1>6. ticks <= Passed /\ ticks \in 0 .. Wrap - 1
  <2>1. CASE elapsed = NoTicks
    BY <1>3, <1>5, <2>1 DEF TakesOff
  <2>2. CASE elapsed # NoTicks
    <3>1. elapsed <= Passed /\ ticks = elapsed
      BY <1>3, <2>2 DEF NotWrapped, Intact, Passed, TakesOff
    <3> QED BY <1>5, <3>1
  <2> QED BY <2>1, <2>2
<1>7. latest' = (latest + ticks) % Wrap
  BY <1>3 DEF TakesOff
<1>8. Passed' = Passed - ticks /\ Passed' \in Int
  <2>1. Diff(counter, (latest + ticks) % Wrap) = Diff(counter, latest) - ticks
    BY <1>5, <1>6, DiffMoved DEF Passed
  <2>2. Passed' = Passed - ticks
    BY <1>1, <1>7, <2>1 DEF Passed
  <2> QED BY <1>5, <1>6, <2>2
<1>9. \A i \in 0 .. Len(list) : Due(list, tte, i) \in Nat
  BY EarlyTypes
<1>10. DueInv'
  <2>1. \A i \in 1 .. Len(list) - n : Due(list', tte', i) = Due(list, tte, n + i) - ticks
    BY <1>3, <1>5, TakeOffDue
  <2>2. ASSUME NEW i \in DOMAIN list' PROVE left'[list'[i]] <= Due(list', tte', i) - Passed'
    <3>1. i \in 1 .. Len(list) - n /\ n + i \in n + 1 .. Len(list) /\ n + i \in DOMAIN list
      <4>1. Len(list') = Len(list) - n
        BY <1>3 DEF TakesOff
      <4>2. i \in 1 .. Len(list) - n
        BY <1>5, <4>1
      <4> DEFINE m == Len(list)
      <4>3. m \in Nat /\ n \in 0 .. m /\ i \in 1 .. m - n
        BY <1>5, <4>2
      <4>4. n + i \in n + 1 .. m /\ n + i \in 1 .. m
        <5> HIDE DEF m
        <5> QED BY <4>3
      <4> QED BY <1>5, <4>2, <4>4
    <3>2. list'[i] = list[n + i] /\ left'[list[n + i]] = left[list[n + i]]
      BY <1>3, <3>1 DEF TakesOff
    <3>3. left[list[n + i]] <= Due(list, tte, n + i) - Passed
      BY <1>2, <3>1 DEF DueInv
    <3>4. Due(list', tte', i) = Due(list, tte, n + i) - ticks
      BY <2>1, <3>1
    <3>5. left[list[n + i]] \in Int /\ Due(list, tte, n + i) \in Nat
      BY <1>5, <1>9, <3>1, EarlyTypes
    <3> QED BY <1>5, <1>6, <1>8, <3>2, <3>3, <3>4, <3>5
  <2> QED BY <2>2 DEF DueInv
<1>11. ServiceInv'
  BY <1>4 DEF ServiceInv, InService, At
<1>12. BackInv'
  <2>1. ASSUME NEW i \in DOMAIN job'.restart
        PROVE  left'[job'.restart[i]] <=
                 period'[job'.restart[i]] - Diff(latest', job'.since[job'.restart[i]]) - Passed'
    <3>1. PICK k \in 1 .. n : /\ job'.restart[i] = list[k]
                              /\ job'.since[list[k]] = (latest + Due(list, tte, k)) % Wrap
                              /\ left'[list[k]] = left[list[k]] + period[list[k]]
      BY <1>3 DEF TakesOff
    <3> DEFINE t == list[k]
               d == Due(list, tte, k)
    <3>2. k \in 0 .. Len(list) /\ k \in DOMAIN list /\ n \in 0 .. Len(list) /\ k <= n
      BY <1>5
    <3>3. d \in Nat /\ d <= Due(list, tte, n) /\ Due(list, tte, n) \in Nat
      BY <1>5, <3>2, DueGrows
    <3>4. Due(list, tte, n) <= ticks
      BY <1>3 DEF TakesOff
    <3>5. d \in 0 .. ticks
      BY <3>3, <3>4
    <3>6. Diff(latest', job'.since[t]) = ticks - d
      <4>1. job'.since[t] = (latest + d) % Wrap /\ latest' = (latest + ticks) % Wrap
        BY <1>7, <3>1
      <4>2. Diff((latest + ticks) % Wrap, (latest + d) % Wrap) = ticks - d
        <5> HIDE DEF t, d
        <5> QED BY <1>5, <1>6, <3>5, DiffPassed
      <4> HIDE DEF t, d
      <4> QED BY <4>1, <4>2
    <3>7. left[t] <= d - Passed
      BY <1>2, <3>2 DEF DueInv
    <3>8. left[t] \in Int /\ period[t] \in Nat /\ period'[t] = period[t] /\ left'[t] = left[t] + period[t]
      BY <1>1, <1>5, <3>1, <3>2, EarlyTypes
    <3>10. job'.restart[i] = t
      BY <3>1
    <3> HIDE DEF t, d
    <3>9. left'[t] <= period'[t] - (ticks - d) - Passed'
      <4>1. Passed \in Nat /\ Passed' = Passed - ticks
        BY <1>5, <1>8
      <4> QED BY <3>3, <3>7, <3>8, <4>1
    <3> QED BY <3>6, <3>9, <3>10
  <2> QED BY <2>1 DEF BackInv
<1>13. ~rtcReset /\ ~rtcReset'
  BY <1>1, <1>2 DEF GapInv, At
<1>14. StartInv'
  <2>1. ASSUME NEW i \in DOMAIN ops, ops[i].type = "start"
        PROVE  Counted(ops[i], latest', Passed', rtcReset')
    <3> DEFINE o == ops[i]
               f == Diff(o.at, latest)
               g == Diff(latest, o.at)
               c == (latest + ticks) % Wrap
    <3>1. Counted(o, latest, Passed, rtcReset)
      BY <1>2, <2>1 DEF StartInv
    <3>2. o.at \in 0 .. Wrap - 1 /\ o.age \in Nat /\ f \in 0 .. Wrap - 1 /\ g \in 0 .. Wrap - 1
      BY EarlyTypes
    <3>3. /\ c \in 0 .. Wrap - 1
          /\ ticks <= f => Diff(o.at, c) = f - ticks
          /\ ticks > f => Diff(c, o.at) = ticks - f
          /\ Diff(c, o.at) <= g + ticks
      <4> HIDE DEF o
      <4> QED BY <1>5, <1>6, <3>2, DiffMoved
    <3>4. Diff(c, o.at) \in 0 .. Wrap - 1
      <4> HIDE DEF o, c
      <4> QED BY <3>2, <3>3, DiffRange
    <3>5. (f < Half /\ Passed <= o.age + f) \/ g + Passed <= o.age
      BY <1>13, <3>1 DEF Counted
    <3>6. Counted(o, c, Passed - ticks, rtcReset')
      <4> DEFINE p == Diff(o.at, c)
                 q == Diff(c, o.at)
                 a == o.age
      <4>1. /\ ticks <= f => p = f - ticks
            /\ ticks > f => q = ticks - f
            /\ q <= g + ticks
        BY <3>3
      <4>2. a \in Nat /\ f \in Nat /\ g \in Nat /\ q \in Nat
        BY <1>5, <3>2, <3>4
      <4>3. (f < Half /\ Passed <= a + f) \/ g + Passed <= a
        BY <3>5
      <4>4. (p < Half /\ Passed - ticks <= a + p) \/ q + (Passed - ticks) <= a
        <5> HIDE DEF o, f, g, c, p, q, a
        <5>1. CASE f < Half /\ Passed <= a + f /\ ticks <= f
          BY <1>5, <4>1, <4>2, <5>1, HalfType
        <5>2. CASE Passed <= a + f /\ ticks > f
          BY <1>5, <4>1, <4>2, <5>2
        <5>3. CASE g + Passed <= a
          BY <1>5, <4>1, <4>2, <5>3
        <5>4. ticks <= f \/ ticks > f
          BY <4>2
        <5> QED BY <4>3, <5>1, <5>2, <5>3, <5>4
      <4> QED BY <1>13, <4>4 DEF Counted
    <3> QED BY <1>7, <1>8, <3>6
  <2> QED BY <1>1, <2>1 DEF StartInv
<1>15. GapInv'
  BY <1>4, <1>13 DEF GapInv, At
<1> QED BY <1>10, <1>11, <1>12, <1>14, <1>15

\* A timer is put into the list with no fewer ticks than it has left.
LEMMA EarlyInsert ==
  ASSUME TypeInv, InsertedOnce, NEW t \in Timers, NEW ticks \in Nat,
         ~Contains(list, t), Insert(t, ticks),
         DueInv, UNCHANGED <<counter, latest>>,
         left'[t] <= ticks - Passed, \A u \in Timers \ {t} : left'[u] = left[u]
  PROVE  DueInv'
<1>1. list \in Seq(Timers) /\ tte \in [Timers -> Nat] /\ Len(list) \in Nat
      /\ DOMAIN list = 1 .. Len(list) /\ \A j \in 1 .. Len(list) : list[j] \in Timers
  BY EarlyTypes
<1>2. list' \in Seq(Timers)
  BY <1>1, InsertFacts
<1>3. PICK n \in 0 .. Len(list) : PutIn(n, t, ticks)
  BY <1>1, InsertFacts
<1>4. \A i \in DOMAIN list' :
        \/ list'[i] = t /\ Due(list', tte', i) = ticks
        \/ \E j \in DOMAIN list : list'[i] = list[j] /\ Due(list', tte', i) = Due(list, tte, j)
  BY <1>1, <1>2, <1>3, InsertDue
<1>5. Passed' = Passed
  BY DEF Passed
<1>6. ASSUME NEW i \in DOMAIN list' PROVE left'[list'[i]] <= Due(list', tte', i) - Passed
  <2>1. CASE list'[i] = t /\ Due(list', tte', i) = ticks
    BY <2>1
  <2>2. CASE \E j \in DOMAIN list : list'[i] = list[j] /\ Due(list', tte', i) = Due(list, tte, j)
    <3>1. PICK j \in DOMAIN list : list'[i] = list[j] /\ Due(list', tte', i) = Due(list, tte, j)
      BY <2>2
    <3>2. list[j] # t
      BY <3>1 DEF Contains
    <3>3. left'[list[j]] = left[list[j]]
      BY <1>1, <3>2
    <3>4. left[list[j]] <= Due(list, tte, j) - Passed
      BY DEF DueInv
    <3> QED BY <3>1, <3>3, <3>4
  <2> QED BY <1>4, <2>1, <2>2
<1> QED BY <1>5, <1>6 DEF DueInv

\* A repeated timer is put back.
LEMMA EarlyRestart ==
  ASSUME TypeInv, ListInv, EarlyInv, Restart
  PROVE  EarlyInv'
<1> DEFINE t == Head(job.restart)
           rest == job.restart
           since == job.since[t]
           own == ToExpire(since, period[t])
<1>1. /\ UNCHANGED <<counter, latest, ops, disturbed, left, period, rtcReset>>
      /\ At("insert") /\ Insert(t, own) /\ job' = [job EXCEPT !.restart = Tail(rest)]
      /\ rest # <<>>
  BY DEF Restart, rtc, ghosts
<1> SUFFICES ASSUME ~disturbed PROVE (DueInv /\ ServiceInv /\ BackInv /\ StartInv /\ GapInv)'
  BY <1>1 DEF EarlyInv
<1>2. DueInv /\ ServiceInv /\ BackInv /\ StartInv /\ GapInv
  BY DEF EarlyInv
<1>3. job \in Inserts /\ rest \in Seq(Timers) /\ Len(rest) \in Nat /\ DOMAIN rest = 1 .. Len(rest)
  BY <1>1, BackTypes DEF Inserts
<1>4. /\ 1 \in DOMAIN rest /\ t = rest[1]
      /\ Len(Tail(rest)) = Len(rest) - 1 /\ DOMAIN Tail(rest) = 1 .. Len(rest) - 1
      /\ \A i \in 1 .. Len(rest) - 1 : i + 1 \in DOMAIN rest /\ Tail(rest)[i] = rest[i + 1]
  BY <1>1, <1>3
<1>5. job'.at = "insert" /\ job'.restart = Tail(rest) /\ job'.since = job.since
  BY <1>1, <1>3 DEF Inserts
<1>6. /\ t \in Timers /\ since \in 0 .. Wrap - 1 /\ Diff(latest, since) \in Nat
      /\ period[t] \in Nat /\ left[t] \in Int
      /\ latest \in 0 .. Wrap - 1 /\ Passed \in Nat
  <2>1. t \in Timers /\ since \in 0 .. Wrap - 1 /\ Diff(latest, since) \in Nat
    BY <1>1, <1>4, BackTypes
  <2> HIDE DEF t, since
  <2> QED BY <2>1, EarlyTypes
<1>7. own \in Nat /\ own >= period[t] - Diff(latest, since)
  <2> HIDE DEF t, since
  <2> QED BY <1>6, ToExpireIsNat, ToExpireIsLate
<1>8. DueInv'
  <2>1. left[t] <= period[t] - Diff(latest, since) - Passed
    BY <1>1, <1>2, <1>4 DEF BackInv
  <2>2. InsertedOnce /\ ~Contains(list, t)
    BY <1>1, <1>4 DEF ListInv
  <2> HIDE DEF t, since, own
  <2>3. left'[t] <= own - Passed
    <3> DEFINE d == Diff(latest, since)
    <3>1. left[t] <= period[t] - d - Passed /\ own >= period[t] - d /\ d \in Nat
      BY <1>6, <1>7, <2>1
    <3> HIDE DEF d
    <3>2. left[t] <= own - Passed
      BY <1>6, <1>7, <3>1
    <3> QED BY <1>1, <3>2
  <2> QED BY <1>1, <1>2, <1>6, <1>7, <2>2, <2>3, EarlyInsert
<1>9. ServiceInv'
  BY <1>5 DEF ServiceInv, InService, At
<1>10. BackInv'
  <2>1. Passed' = Passed
    BY <1>1 DEF Passed
  <2>2. ASSUME NEW i \in DOMAIN job'.restart
        PROVE  left[job'.restart[i]] <=
                 period[job'.restart[i]] - Diff(latest, job.since[job'.restart[i]]) - Passed
    <3>1. i + 1 \in DOMAIN rest /\ job'.restart[i] = rest[i + 1]
      BY <1>4, <1>5
    <3> QED BY <1>1, <1>2, <3>1 DEF BackInv
  <2> QED BY <1>1, <1>5, <2>1, <2>2 DEF BackInv
<1>11. StartInv'
  BY <1>1, <1>2 DEF StartInv, Passed
<1>12. GapInv'
  BY <1>2, <1>5 DEF GapInv, At
<1> QED BY <1>8, <1>9, <1>10, <1>11, <1>12

\* The rest of the queue, and what SWI0 does while it applies operations.
LEMMA EarlyApply ==
  ASSUME TypeInv, EarlyInv, ~disturbed, NEW type, Applying(type),
         job'.at = "insert", job'.restart = <<>>,
         \/ UNCHANGED <<counter, latest, rtcReset>>
         \/ counter' = 0 /\ latest' = 0 /\ rtcReset'
  PROVE  (ServiceInv /\ BackInv /\ StartInv /\ GapInv)'
<1>1. /\ Len(ops) \in Nat /\ Len(ops) >= 1 /\ Len(ops') = Len(ops) - 1
      /\ \A i \in 1 .. Len(ops) - 1 : ops'[i] = ops[i + 1]
      /\ DOMAIN ops' = 1 .. Len(ops) - 1 /\ DOMAIN ops = 1 .. Len(ops)
  BY DequeueFacts DEF TypeInv, AppTimerTypeOK
<1>2. StartInv /\ GapInv
  BY DEF EarlyInv
<1>3. ServiceInv' /\ BackInv'
  BY DEF ServiceInv, BackInv, InService, At
<1>4. GapInv'
  BY DEF GapInv, At
<1>5. ASSUME NEW i \in DOMAIN ops', ops'[i].type = "start"
      PROVE  Counted(ops'[i], latest', Passed', rtcReset')
  <2>1. i + 1 \in DOMAIN ops /\ ops'[i] = ops[i + 1]
    BY <1>1
  <2>2. CASE UNCHANGED <<counter, latest, rtcReset>>
    <3>1. Passed' = Passed
      BY <2>2 DEF Passed
    <3> QED BY <1>2, <1>5, <2>1, <2>2, <3>1 DEF StartInv
  <2>3. CASE counter' = 0 /\ latest' = 0 /\ rtcReset'
    <3>1. Passed' = 0
      <4>1. Passed' = Diff(0, 0)
        BY <2>3 DEF Passed
      <4>2. Diff(0, 0) = 0
        BY DiffIs, SmallNumbers
      <4> QED BY <4>1, <4>2
    <3>2. ops'[i].age \in Nat
      BY <1>1, <2>1, EarlyTypes
    <3> QED BY <2>3, <3>1, <3>2 DEF Counted
  <2> QED BY <2>2, <2>3
<1> QED BY <1>3, <1>4, <1>5 DEF StartInv

LEMMA EarlyApplyStart ==
  ASSUME TypeInv, ListInv, WalkInv, MarkInv, EarlyInv, ApplyStart
  PROVE  EarlyInv'
<1> DEFINE o == ops[1]
           t == o.timer
           at == IF rtcReset THEN 0 ELSE o.at
           own == ToExpire(at, o.ticks)
<1>1. Applying("start") /\ job' = job
  BY ApplyStartFacts DEF ApplyStart
<1>2. /\ Head(ops) = o /\ o.type = "start" /\ o \in Ops /\ OpInv(o)
      /\ At("insert") /\ job.restart = <<>> /\ 1 \in DOMAIN ops
  BY <1>1, DequeueFacts DEF TypeInv, AppTimerTypeOK
<1>3. /\ IF MayInsert(t)
         THEN /\ Insert(t, own)
              /\ left' = [left EXCEPT ![t] = o.ticks - o.age]
         ELSE UNCHANGED <<nodes, left>>
      /\ UNCHANGED <<counter, latest, rtcReset, disturbed>>
  BY <1>2 DEF ApplyStart, rtc
<1> SUFFICES ASSUME ~disturbed PROVE (DueInv /\ ServiceInv /\ BackInv /\ StartInv /\ GapInv)'
  BY <1>3 DEF EarlyInv
<1>4. DueInv /\ StartInv
  BY DEF EarlyInv
<1>5. (ServiceInv /\ BackInv /\ StartInv /\ GapInv)'
  <2>1. job'.at = "insert" /\ job'.restart = <<>>
    BY <1>1, <1>2 DEF At
  <2>2. UNCHANGED <<counter, latest, rtcReset>>
    BY <1>3
  <2> QED BY <1>1, <2>1, <2>2, EarlyApply
<1>6. CASE ~isRunning[t]
  <2>1. ~Contains(list, t)
    <3>1. SUFFICES ASSUME Contains(list, t) PROVE FALSE
      OBVIOUS
    <3>2. Waiting(t) /\ Starts(ops[1], t)
      BY <1>2, <3>1, InsertGone DEF Starts
    <3>3. \E i \in 1 .. 1 - 1 : Stops(ops[i], t)
      <4>1. t \in Timers
        BY <1>2 DEF Ops, OpInv
      <4> QED BY <1>2, <1>6, <3>2, <4>1 DEF MarkInv
    <3> QED BY <3>3
  <2>2. Insert(t, own) /\ left' = [left EXCEPT ![t] = o.ticks - o.age]
    BY <1>3, <1>6 DEF MayInsert
  <2>3. /\ t \in Timers /\ o.at \in 0 .. Wrap - 1 /\ o.ticks \in Nat /\ o.age \in Nat
        /\ latest \in 0 .. Wrap - 1 /\ Passed \in Nat /\ left \in [Timers -> Int]
        /\ Diff(o.at, latest) \in Nat /\ Diff(latest, o.at) \in Nat
    <3>1. t \in Timers /\ o.ticks \in Nat
      BY <1>2, SmallNumbers DEF Ops, OpInv
    <3>2. /\ o.at \in 0 .. Wrap - 1 /\ o.age \in Nat
          /\ Diff(o.at, latest) \in 0 .. Wrap - 1 /\ Diff(latest, o.at) \in 0 .. Wrap - 1
      BY <1>2, EarlyTypes
    <3> HIDE DEF o, t
    <3>3. \A n \in 0 .. Wrap - 1 : n \in Nat
      BY AppTimerAssumption
    <3> QED BY <3>1, <3>2, <3>3, EarlyTypes
  <2>4. own \in Nat /\ own >= o.ticks - o.age + Passed
    <3>1. at \in 0 .. Wrap - 1
      BY <2>3, SmallNumbers
    <3>2. own \in Nat /\ own >= o.ticks - Diff(latest, at) /\ Diff(latest, at) \in 0 .. Wrap - 1
      <4> HIDE DEF o, at
      <4> QED BY <2>3, <3>1, ToExpireIsNat, ToExpireIsLate, DiffRange
    <3>3. Counted(o, latest, Passed, rtcReset)
      BY <1>2, <1>4 DEF StartInv
    <3>4. CASE rtcReset
      <4>1. at = 0 /\ latest = 0 /\ Passed <= o.age
        BY <3>3, <3>4 DEF Counted
      <4>2. Diff(latest, at) = 0
        BY <4>1, DiffIs, SmallNumbers
      <4> HIDE DEF o, t, at, own
      <4> QED BY <2>3, <3>2, <4>1, <4>2
    <3>5. CASE ~rtcReset
      <4> DEFINE f == Diff(o.at, latest)
                 g == Diff(latest, o.at)
      <4>1. at = o.at /\ f \in Nat /\ g \in Nat
        BY <2>3, <3>5
      <4>2. (f < Half /\ Passed <= o.age + f) \/ g + Passed <= o.age
        BY <3>3, <3>5 DEF Counted
      <4>3. f < Half => own = f + o.ticks
        BY <4>1 DEF ToExpire, Half
      <4>4. own >= o.ticks - g
        BY <3>2, <4>1
      <4> HIDE DEF f, g, o, t, at, own
      <4>5. CASE f < Half /\ Passed <= o.age + f
        BY <2>3, <4>1, <4>3, <4>5
      <4>6. CASE g + Passed <= o.age
        BY <2>3, <3>2, <4>1, <4>4, <4>6
      <4> QED BY <3>2, <4>2, <4>5, <4>6
    <3> QED BY <3>4, <3>5
  <2>5. left'[t] <= own - Passed /\ \A u \in Timers \ {t} : left'[u] = left[u]
    <3> HIDE DEF o, t, own
    <3>1. left'[t] = o.ticks - o.age
      BY <2>2, <2>3
    <3> QED BY <2>2, <2>3, <2>4, <3>1
  <2>6. InsertedOnce /\ UNCHANGED <<counter, latest>>
    BY <1>3 DEF ListInv
  <2> HIDE DEF o, t, own
  <2>7. DueInv'
    BY <1>4, <2>1, <2>2, <2>3, <2>4, <2>5, <2>6, EarlyInsert
  <2> QED BY <1>5, <2>7
<1>7. CASE isRunning[t]
  <2>1. UNCHANGED <<list, tte, left, counter, latest>>
    BY <1>3, <1>7 DEF MayInsert, nodes
  <2>2. DueInv'
    BY <1>4, <2>1 DEF DueInv, Passed
  <2> QED BY <1>5, <2>2
<1> QED BY <1>6, <1>7

LEMMA EarlyApplyStop ==
  ASSUME TypeInv, ListInv, EarlyInv, ApplyStop
  PROVE  EarlyInv'
<1> DEFINE t == ops[1].timer
<1>1. Applying("stop") /\ job'.at = "insert" /\ job'.restart = <<>> /\ TypeInv'
      /\ \A u : Contains(list', u) <=> u # t /\ Contains(list, u)
  BY ApplyStopFacts DEF ApplyStop
<1>2. t \in Timers /\ Head(ops) = ops[1]
  <2>1. ops[1].type = "stop" /\ OpInv(ops[1]) /\ Head(ops) = ops[1]
    BY <1>1, DequeueFacts DEF TypeInv, AppTimerTypeOK
  <2> QED BY <2>1 DEF OpInv
<1>3. /\ IF Contains(list, t)
         THEN Unlink(t) /\ ClearWithLast
         ELSE UNCHANGED <<list, tte, counter, latest, rtcReset>>
      /\ left' = [left EXCEPT ![t] = 0] /\ disturbed' = disturbed
  BY <1>2 DEF ApplyStop
<1> SUFFICES ASSUME ~disturbed PROVE (DueInv /\ ServiceInv /\ BackInv /\ StartInv /\ GapInv)'
  BY <1>3 DEF EarlyInv
<1>4. DueInv
  BY DEF EarlyInv
<1> HIDE DEF t
<1>5. \/ UNCHANGED <<counter, latest, rtcReset>>
      \/ counter' = 0 /\ latest' = 0 /\ rtcReset' /\ list' = <<>>
  BY <1>3 DEF ClearWithLast
<1>6. (ServiceInv /\ BackInv /\ StartInv /\ GapInv)'
  BY <1>1, <1>5, EarlyApply
<1>7. \A u \in Timers \ {t} : left'[u] = left[u]
  BY <1>3, EarlyTypes
<1>8. list \in Seq(Timers) /\ tte \in [Timers -> Nat] /\ list' \in Seq(Timers)
      /\ DOMAIN list = 1 .. Len(list) /\ \A j \in 1 .. Len(list) : list[j] \in Timers
  <2>1. list' \in Seq(Timers)
    BY <1>1 DEF TypeInv, AppTimerTypeOK
  <2> QED BY <2>1, EarlyTypes
<1>9. \A i \in DOMAIN list' :
        \E j \in DOMAIN list : list'[i] = list[j] /\ Due(list', tte', i) = Due(list, tte, j)
  <2>1. CASE Contains(list, t)
    <3>1. Unlink(t)
      BY <1>3, <2>1
    <3>2. PICK n \in 1 .. Len(list) : TakenOut(n, t)
      BY <1>2, <1>8, <2>1, <3>1, UnlinkFacts DEF ListInv
    <3> QED BY <1>2, <1>8, <3>2, UnlinkDue
  <2>2. CASE ~Contains(list, t)
    BY <1>3, <2>2
  <2> QED BY <2>1, <2>2
<1>10. DueInv'
  <2>1. CASE list' = <<>>
    BY <2>1 DEF DueInv
  <2>2. CASE list' # <<>>
    <3>1. Passed' = Passed
      BY <1>5, <2>2 DEF Passed
    <3>2. ASSUME NEW i \in DOMAIN list' PROVE left'[list'[i]] <= Due(list', tte', i) - Passed
      <4>1. PICK j \in DOMAIN list : list'[i] = list[j] /\ Due(list', tte', i) = Due(list, tte, j)
        BY <1>9
      <4>2. list[j] # t
        <5>1. Contains(list', list'[i])
          BY DEF Contains
        <5> QED BY <1>1, <4>1, <5>1 DEF t
      <4>3. left'[list[j]] = left[list[j]]
        BY <1>7, <1>8, <4>2
      <4>4. left[list[j]] <= Due(list, tte, j) - Passed
        BY <1>4 DEF DueInv
      <4> QED BY <4>1, <4>3, <4>4
    <3> QED BY <3>1, <3>2 DEF DueInv
  <2> QED BY <2>1, <2>2
<1> QED BY <1>6, <1>10

LEMMA EarlyApplyStopAll ==
  ASSUME TypeInv, ListInv, EarlyInv, ApplyStopAll
  PROVE  EarlyInv'
<1>1. Applying("stopall") /\ job' = job
  BY ApplyStopAllFacts DEF ApplyStopAll
<1>2. At("insert") /\ job.restart = <<>>
  BY <1>1 DEF Applying
<1>3. list' = <<>> /\ UNCHANGED <<counter, latest, rtcReset, disturbed>>
  BY DEF ApplyStopAll, rtc
<1> SUFFICES ASSUME ~disturbed PROVE (DueInv /\ ServiceInv /\ BackInv /\ StartInv /\ GapInv)'
  BY <1>3 DEF EarlyInv
<1>4. (ServiceInv /\ BackInv /\ StartInv /\ GapInv)'
  BY <1>1, <1>2, <1>3, EarlyApply DEF At
<1>5. DueInv'
  BY <1>3 DEF DueInv
<1> QED BY <1>4, <1>5

-----------------------------------------------------------------------------
(* The theorems.                                                           *)

LEMMA InitTimer == Init => TimerInv
<1> SUFFICES ASSUME Init PROVE TimerInv
  OBVIOUS
<1>1. /\ list = <<>> /\ ops = <<>> /\ job = Idle /\ elapsed = NoTicks /\ rtcOn = FALSE
      /\ stopping = [l \in {1, 2} |-> None] /\ stopped = [t \in Timers |-> "no"]
  BY DEF Init
<1>2. TypeInv
  <2>1. /\ list \in Seq(Timers) /\ ops \in Seq(Ops) /\ Len(ops) = 0 /\ DOMAIN ops = {}
        /\ 0 \in Nat
    BY <1>1
  <2>2. Len(ops) <= QueueSize /\ 0 \in 0 .. Wrap - 1 /\ 0 \in 0 .. MaxBusy /\ 0 \in 0 .. MaxCalls
    <3>1. QueueSize \in Nat /\ MaxBusy \in Nat /\ MaxCalls \in Nat
      BY AppTimerAssumption
    <3> QED BY <2>1, <3>1, SmallNumbers
  <2>3. AppTimerTypeOK
    <3>1. /\ tte \in [Timers -> Nat] /\ isRunning \in [Timers -> BOOLEAN]
          /\ period \in [Timers -> Intervals \cup {0}] /\ left \in [Timers -> Int]
          /\ stopped \in [Timers -> {"no", "yes", "failed"}]
          /\ stopping \in [{1, 2} -> Timers \cup {None}]
      BY DEF Init
    <3> QED BY <1>1, <2>1, <2>2, <3>1 DEF Init, AppTimerTypeOK
  <2> QED BY <1>1, <2>1, <2>3, IdleIsJob DEF TypeInv
<1>3. ListInv
  BY <1>1 DEF ListInv, InsertedOnce, At, Idle
<1>4. WalkInv
  BY <1>1 DEF WalkInv, InService, Idle
<1>5. MarkInv
  <2>1. \A t : ~Waiting(t)
    BY <1>1 DEF Waiting
  <2>2. stopping[2] = None
    BY <1>1
  <2> QED BY <2>1, <2>2 DEF MarkInv
<1>6. SilenceInv
  BY <1>1 DEF SilenceInv
<1>7. RunsInv
  BY <1>1 DEF RunsInv, At, Idle
<1> QED BY <1>2, <1>3, <1>4, <1>5, <1>6, <1>7 DEF TimerInv

LEMMA TimerStutter ==
  ASSUME TimerInv, UNCHANGED vars
  PROVE  TimerInv'
<1>1. UNCHANGED <<counter, rtcOn, cc, skip, event, forced, swi, list, tte, isRunning, period, latest,
                 elapsed, rtcReset, ops, job, stopping, left, stopped, busy, calls, disturbed>>
  BY DEF vars, rtc, nodes, ghosts
<1>2. TypeInv'
  BY <1>1 DEF TimerInv, TypeInv, AppTimerTypeOK
<1>3. ListInv'
  BY <1>1 DEF TimerInv, ListInv, InsertedOnce, At
<1>4. WalkInv'
  <2>1. Intact' => Intact
    BY <1>1 DEF Intact
  <2> QED BY <1>1, <2>1, WalkFrame DEF TimerInv
<1>5. MarkInv'
  <2>1. \A t : (Waiting(t)' <=> Waiting(t)) /\ (Held(t)' <=> Held(t))
    BY <1>1, WaitingFrame DEF Held
  <2> QED BY <1>1, <2>1 DEF TimerInv, MarkInv, Intact
<1>6. SilenceInv'
  <2>1. \A t : (StopAhead(t)' <=> StopAhead(t)) /\ (Still(t)' <=> Still(t)) /\ (At("insert")' <=> At("insert"))
    BY <1>1 DEF StopAhead, Still, Out, NoStart, At
  <2> QED BY <1>1, <2>1 DEF TimerInv, SilenceInv
<1>7. RunsInv'
  BY <1>1 DEF TimerInv, RunsInv, At
<1> QED BY <1>2, <1>3, <1>4, <1>5, <1>6, <1>7 DEF TimerInv

LEMMA TimerStep ==
  ASSUME Careful, TimerInv, NotWrapped, [Next]_vars
  PROVE  TimerInv'
<1>1. CASE Next
  <2>1. TypeInv /\ ListInv /\ WalkInv /\ MarkInv /\ SilenceInv /\ RunsInv
    BY DEF TimerInv
  <2>2. TypeInv' /\ ListInv' /\ WalkInv'
    BY <1>1, <2>1, ListStep, WalkStep
  <2>3. MarkInv'
    BY <1>1, <2>1, <2>2, MarkStep
  <2>4. SilenceInv' /\ RunsInv'
    BY <1>1, <2>1, SilenceStep, RunsStep
  <2> QED BY <2>2, <2>3, <2>4 DEF TimerInv
<1>2. CASE UNCHANGED vars
  BY <1>2, TimerStutter
<1> QED BY <1>1, <1>2

LEMMA EarlyStep ==
  ASSUME TimerInv, NotWrapped, EarlyInv, [Next]_vars
  PROVE  EarlyInv'
<1>1. TypeInv /\ ListInv /\ WalkInv /\ MarkInv /\ RunsInv
  BY DEF TimerInv
<1>2. CASE UNCHANGED vars
  BY <1>2, EarlyStutter
<1>3. CASE Tick
  BY <1>1, <1>3, EarlyTick
<1>4. CASE Work
  BY <1>1, <1>4, EarlyWork
<1>5. CASE Call
  <2>1. CASE \E level \in 1 .. 3, t \in Timers, ticks \in Intervals : Start(level, t, ticks)
    BY <1>1, <2>1, EarlyStart
  <2>2. CASE ~\E level \in 1 .. 3, t \in Timers, ticks \in Intervals : Start(level, t, ticks)
    BY <1>1, <1>5, <2>2, EarlyStop DEF Call
  <2> QED BY <2>1, <2>2
<1>6. CASE Expire
  BY <1>1, <1>6, EarlyExpire
<1>7. CASE SwiEnter
  BY <1>1, <1>7, EarlySwi
<1>8. CASE Restart
  BY <1>1, <1>8, EarlyRestart
<1>9. CASE ApplyStart
  BY <1>1, <1>9, EarlyApplyStart
<1>10. CASE ApplyStop
  BY <1>1, <1>10, EarlyApplyStop
<1>11. CASE ApplyStopAll
  BY <1>1, <1>11, EarlyApplyStopAll
<1> QED BY <1>2, <1>3, <1>4, <1>5, <1>6, <1>7, <1>8, <1>9, <1>10, <1>11 DEF Next, Level2, Call, Work

\* The list holds every timer once, RTC1 runs exactly while it holds one, and
\* every variable has its type.
THEOREM TimerList ==
  ASSUME Careful
  PROVE  Spec /\ []NotWrapped => [](AppTimerTypeOK /\ InsertedOnce /\ RunsForTimers)
<1>1. Init => TimerInv
  BY InitTimer
<1>2. TimerInv /\ NotWrapped /\ [Next]_vars => TimerInv'
  BY TimerStep
<1>3. TimerInv => AppTimerTypeOK /\ InsertedOnce /\ RunsForTimers
  BY DEF TimerInv, TypeInv, ListInv, RunsInv, RunsForTimers, Quiet, At
<1> QED BY <1>1, <1>2, <1>3, PTL DEF Spec

\* app_timer_stop: once it has returned NRF_SUCCESS the handler is not called.
THEOREM StoppedTimersAreSilent ==
  ASSUME Careful
  PROVE  Spec /\ []NotWrapped => StoppedIsSilent
<1> DEFINE Silent == At("expire") /\ job'.at = "handler" => stopped[job'.timer] # "yes"
<1>1. Init => TimerInv
  BY InitTimer
<1>2. TimerInv /\ NotWrapped /\ [Next]_vars => TimerInv'
  BY TimerStep
<1>3. TimerInv /\ [Next]_vars => [Silent]_vars
  <2> SUFFICES ASSUME TimerInv, Next, At("expire"), job'.at = "handler"
               PROVE  stopped[job'.timer] # "yes"
    OBVIOUS
  <2>1. TypeInv /\ WalkInv /\ SilenceInv
    BY DEF TimerInv
  <2>2. CASE Expire
    <3>1. isRunning[job'.timer] /\ job'.timer \in Timers
      BY <2>1, <2>2, ExpireFacts
    <3> QED BY <2>1, <3>1 DEF SilenceInv, At
  <2>3. CASE Tick \/ Call
    BY <2>1, <2>3, TickFacts, CallFacts DEF Call, At
  <2>4. CASE Work
    BY <2>1, <2>4, WorkJobs DEF At, Work
  <2>5. CASE SwiEnter \/ Restart \/ ApplyStart \/ ApplyStop \/ ApplyStopAll
    BY <2>5 DEF SwiEnter, Restart, ApplyStart, ApplyStop, ApplyStopAll, Applying, At
  <2> QED BY <2>2, <2>3, <2>4, <2>5 DEF Next, Level2, Call, Work
<1> QED BY <1>1, <1>2, <1>3, PTL DEF Spec, StoppedIsSilent

\* app_timer calls no timeout handler before its time.
THEOREM HandlersAreNeverEarly ==
  ASSUME Careful
  PROVE  Spec /\ []NotWrapped => []NeverEarly
<1>1. Init => TimerInv /\ EarlyInv
  BY InitTimer, EarlyInit
<1>2. TimerInv /\ EarlyInv /\ NotWrapped /\ [Next]_vars => (TimerInv /\ EarlyInv)'
  BY TimerStep, EarlyStep
<1>3. EarlyInv => NeverEarly
  BY DEF EarlyInv, ServiceInv, NeverEarly
<1> QED BY <1>1, <1>2, <1>3, PTL DEF Spec
=============================================================================
