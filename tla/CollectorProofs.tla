---------------------------- MODULE CollectorProofs ----------------------------
(***************************************************************************)
(* What the River collectors make of a payload: CollectorsMake, for every  *)
(* vendor and every payload of any size, that each reading that should be  *)
(* there is in the events once, with the MessageId of its quantity, and    *)
(* nothing else is.  The arrays of a payload are taken one at a time: the  *)
(* sensors of an array read it (Reads), an event of them makes its items   *)
(* (Makes), and events behind each other make the items of both.           *)
(***************************************************************************)
EXTENDS Telemetry, FiniteSetTheorems, WellFoundedInduction, TLAPS

IsSequence(s) == s \in Seq({s[i] : i \in DOMAIN s})

Less == {x \in Nat \X Nat : x[1] < x[2]}
\* A set of numbers that is not empty has a least element...
LEMMA Least ==
  ASSUME NEW T \in SUBSET Nat, T # {}
  PROVE  \E x \in T : \A y \in T : x <= y
<1>1. IsWellFoundedOn(Less, Nat)
  BY NatLessThanWellFounded DEF OpToRel, Less
<1>2. PICK x \in T : \A y \in T : ~(<<y, x>> \in Less)
  BY <1>1, WFMin
<1>3. ASSUME NEW y \in T PROVE x <= y
  <2>1. x \in Nat /\ y \in Nat /\ <<y, x>> \notin Less
    BY <1>2
  <2>2. ~(y < x)
    BY <2>1 DEF Less
  <2> QED BY <2>1, <2>2
<1> QED BY <1>3

\* ...and, if there is a bound, a greatest.
LEMMA Greatest ==
  ASSUME NEW n \in Nat, NEW T \in SUBSET (0 .. n), T # {}
  PROVE  /\ Max(T) \in T /\ \A y \in T : y <= Max(T)
<1> DEFINE D == {n - x : x \in T}
<1>1. D \in SUBSET Nat /\ D # {}
  <2>1. \A x \in T : x \in 0 .. n
    OBVIOUS
  <2>2. \A x \in 0 .. n : n - x \in Nat
    OBVIOUS
  <2>3. \A x \in T : n - x \in Nat
    BY <2>1, <2>2
  <2> QED BY <2>3
<1>2. PICK d \in D : \A y \in D : d <= y
  BY <1>1, Least
<1>3. PICK x \in T : d = n - x
  OBVIOUS
<1>4. \A y \in T : y <= x
  <2> SUFFICES ASSUME NEW y \in T PROVE y <= x
    OBVIOUS
  <2>1. d <= n - y
    BY <1>2
  <2>2. x \in Nat /\ y \in Nat
    OBVIOUS
  <2> QED BY <2>1, <2>2, <1>3
<1>5. \E z \in T : \A y \in T : z >= y
  BY <1>4
<1>6. /\ Max(T) \in T /\ \A y \in T : Max(T) >= y
  BY <1>5 DEF Max
<1> QED BY <1>6

\* s lists S in increasing order.
Ordered(S, s) ==
  /\ s \in [1 .. Cardinality(S) -> S]
  /\ \A i, j \in 1 .. Cardinality(S) : i < j => s[i] < s[j]

\* A finite set of numbers can be put in order.
LEMMA OrderExists ==
  ASSUME NEW S \in SUBSET Nat, IsFiniteSet(S)
  PROVE  \E s : Ordered(S, s)
<1> DEFINE Bad == {n \in Nat : \E R \in SUBSET Nat : /\ IsFiniteSet(R) /\ Cardinality(R) = n
                                                     /\ \A s : ~Ordered(R, s)}
<1> SUFFICES ASSUME \A s : ~Ordered(S, s) PROVE FALSE
  OBVIOUS
<1>1. Cardinality(S) \in Nat
  BY FS_CardinalityType
<1>2. Cardinality(S) \in Bad
  BY <1>1
<1>3. PICK n \in Bad : \A m \in Bad : n <= m
  BY <1>2, Least
<1>4. PICK R \in SUBSET Nat : /\ IsFiniteSet(R) /\ Cardinality(R) = n
                              /\ \A s : ~Ordered(R, s)
  OBVIOUS
<1>5. R # {}
  <2> SUFFICES ASSUME R = {} PROVE FALSE
    OBVIOUS
  <2>1. n = 0
    BY <1>4, FS_EmptySet
  <2>2. 1 .. n = {}
    BY <2>1
  <2>3. Ordered(R, [i \in 1 .. n |-> i])
    BY <2>2, <1>4 DEF Ordered
  <2> QED BY <2>3, <1>4
<1>6. PICK x \in R : \A y \in R : x <= y
  BY <1>5, Least
<1> DEFINE Q == R \ {x}
<1>7. IsFiniteSet(Q) /\ Cardinality(Q) = n - 1 /\ n \in Nat
  BY <1>4, FS_RemoveElement
<1>8. n - 1 \in Nat /\ n - 1 \notin Bad
  <2>1. Cardinality(Q) \in Nat
    BY <1>7, FS_CardinalityType
  <2> QED BY <2>1, <1>3, <1>7
<1>9. PICK s : Ordered(Q, s)
  <2>1. Q \in SUBSET Nat
    OBVIOUS
  <2> HIDE DEF Q
  <2> QED BY <1>7, <1>8, <2>1
<1>10. /\ s \in [1 .. n - 1 -> Q] /\ \A i, j \in 1 .. n - 1 : i < j => s[i] < s[j]
  BY <1>7, <1>9 DEF Ordered
<1> DEFINE r == [i \in 1 .. n |-> IF i = 1 THEN x ELSE s[i - 1]]
<1>11. r \in [1 .. n -> R]
  <2> SUFFICES ASSUME NEW i \in 1 .. n, i # 1 PROVE s[i - 1] \in R
    OBVIOUS
  <2>1. i - 1 \in 1 .. n - 1
    BY <1>8
  <2> QED BY <2>1, <1>10
<1>12. \A i, j \in 1 .. n : i < j => r[i] < r[j]
  <2> SUFFICES ASSUME NEW i \in 1 .. n, NEW j \in 1 .. n, i < j PROVE r[i] < r[j]
    OBVIOUS
  <2>1. j - 1 \in 1 .. n - 1 /\ j # 1 /\ r[j] = s[j - 1]
    BY <1>8
  <2>2. CASE i = 1
    <3>1. s[j - 1] \in R /\ s[j - 1] # x
      BY <2>1, <1>10
    <3>2. x \in Nat /\ s[j - 1] \in Nat /\ x <= s[j - 1]
      BY <3>1, <1>6
    <3> QED BY <2>1, <2>2, <3>1, <3>2
  <2>3. CASE i # 1
    <3>1. i - 1 \in 1 .. n - 1 /\ i - 1 < j - 1 /\ r[i] = s[i - 1]
      BY <2>3, <1>8
    <3> QED BY <2>1, <3>1, <1>10
  <2> QED BY <2>2, <2>3
<1>13. Ordered(R, r)
  BY <1>4, <1>11, <1>12 DEF Ordered
<1> QED BY <1>4, <1>13

\* Every element of S is in one place of s.
Lists(s, S) ==
  /\ DOMAIN s = 1 .. Cardinality(S) /\ Cardinality(S) \in Nat
  /\ \A i \in DOMAIN s : s[i] \in S
  /\ \A i, j \in DOMAIN s : s[i] = s[j] => i = j
  /\ \A x \in S : \E i \in DOMAIN s : s[i] = x

\* Ascending has every number of a finite set in one place.
LEMMA AscendingOnce ==
  ASSUME NEW S \in SUBSET Nat, IsFiniteSet(S)
  PROVE  Lists(Ascending(S), S)
<1> DEFINE s == Ascending(S)
           n == Cardinality(S)
<1>1. n \in Nat
  BY FS_CardinalityType
<1>2. \E r \in [1 .. n -> S] : \A i, j \in 1 .. n : i < j => r[i] < r[j]
  BY OrderExists DEF Ordered
<1>3. /\ s \in [1 .. n -> S] /\ \A i, j \in 1 .. n : i < j => s[i] < s[j]
  <2> HIDE DEF n
  <2>1. s = CHOOSE r \in [1 .. n -> S] : \A i, j \in 1 .. n : i < j => r[i] < r[j]
    BY DEF Ascending, n
  <2> HIDE DEF s
  <2> QED BY <2>1, <1>2
<1> HIDE DEF s
<1>4. \A i, j \in 1 .. n : s[i] = s[j] => i = j
  <2> SUFFICES ASSUME NEW i \in 1 .. n, NEW j \in 1 .. n, s[i] = s[j] PROVE i = j
    OBVIOUS
  <2>1. s[i] \in Nat /\ s[j] \in Nat
    BY <1>3
  <2>2. ~(i < j) /\ ~(j < i)
    BY <2>1, <1>3
  <2> QED BY <2>2, <1>1
<1>5. \A x \in S : \E i \in 1 .. n : s[i] = x
  <2>1. Cardinality(1 .. n) = n
    BY <1>1, FS_Interval
  <2>2. s \in Injection(1 .. n, S)
    BY <1>3, <1>4 DEF Injection, IsInjective
  <2>3. s \in Surjection(1 .. n, S)
    BY <2>1, <2>2, FS_Injection DEF n
  <2> QED BY <2>3 DEF Surjection
<1> QED BY <1>1, <1>3, <1>4, <1>5 DEF s, n, Lists

\* r is s with t behind it, place by place.
Behind(r, s, t) ==
  /\ IsSequence(r) /\ Len(s) \in Nat /\ Len(t) \in Nat
  /\ DOMAIN s = 1 .. Len(s) /\ DOMAIN t = 1 .. Len(t)
  /\ DOMAIN r = 1 .. Len(s) + Len(t)
  /\ \A i \in DOMAIN s : i \in DOMAIN r /\ r[i] = s[i]
  /\ \A i \in DOMAIN t : Len(s) + i \in DOMAIN r /\ r[Len(s) + i] = t[i]
  /\ \A j \in DOMAIN r : \/ j \in DOMAIN s /\ r[j] = s[j]
                         \/ \E i \in DOMAIN t : j = Len(s) + i /\ r[j] = t[i]

\* A concatenation has the elements of both, the second behind the first.
LEMMA Joined ==
  ASSUME NEW s, NEW t, IsSequence(s), IsSequence(t)
  PROVE  Behind(s \o t, s, t)
<1> DEFINE S == {s[i] : i \in DOMAIN s} \cup {t[i] : i \in DOMAIN t}
           r == s \o t
<1>1. s \in Seq({s[i] : i \in DOMAIN s}) /\ t \in Seq({t[i] : i \in DOMAIN t})
  BY DEF IsSequence
<1>2. s \in Seq(S) /\ t \in Seq(S)
  BY <1>1
<1> HIDE DEF S
<1>3. /\ r \in Seq(S) /\ Len(r) = Len(s) + Len(t) /\ Len(s) \in Nat /\ Len(t) \in Nat
      /\ DOMAIN s = 1 .. Len(s) /\ DOMAIN t = 1 .. Len(t) /\ DOMAIN r = 1 .. Len(r)
      /\ \A i \in 1 .. Len(r) : r[i] = IF i <= Len(s) THEN s[i] ELSE t[i - Len(s)]
  BY <1>2
<1> HIDE DEF r
<1>4. r \in Seq({r[i] : i \in DOMAIN r})
  <2>1. r = [i \in 1 .. Len(r) |-> r[i]] /\ Len(r) \in Nat
    BY <1>3
  <2>2. \A i \in 1 .. Len(r) : r[i] \in {r[j] : j \in DOMAIN r}
    BY <1>3
  <2> QED BY <2>1, <2>2
<1>5. \A i \in DOMAIN s : i \in DOMAIN r /\ r[i] = s[i]
  BY <1>3
<1>6. \A i \in DOMAIN t : Len(s) + i \in DOMAIN r /\ r[Len(s) + i] = t[i]
  <2> SUFFICES ASSUME NEW i \in 1 .. Len(t)
               PROVE  Len(s) + i \in 1 .. Len(r) /\ r[Len(s) + i] = t[i]
    BY <1>3
  <2>1. /\ Len(s) + i \in 1 .. Len(r) /\ ~(Len(s) + i <= Len(s)) /\ (Len(s) + i) - Len(s) = i
    BY <1>3
  <2> QED BY <2>1, <1>3
<1>7. ASSUME NEW j \in DOMAIN r
      PROVE  \/ j \in DOMAIN s /\ r[j] = s[j]
             \/ \E i \in DOMAIN t : j = Len(s) + i /\ r[j] = t[i]
  <2>1. CASE j <= Len(s)
    BY <2>1, <1>3
  <2>2. CASE ~(j <= Len(s))
    <3>1. j - Len(s) \in 1 .. Len(t) /\ j = Len(s) + (j - Len(s)) /\ r[j] = t[j - Len(s)]
      BY <2>2, <1>3
    <3> QED BY <3>1, <1>3
  <2> QED BY <2>1, <2>2
<1> QED BY <1>3, <1>4, <1>5, <1>6, <1>7 DEF r, Behind, IsSequence

\* A sequence of one element.
LEMMA OneSequence ==
  ASSUME NEW x
  PROVE  IsSequence(<<x>>) /\ DOMAIN <<x>> = {1} /\ Len(<<x>>) = 1 /\ <<x>>[1] = x
<1> DEFINE s == <<x>>
<1>1. s \in Seq({x}) /\ DOMAIN s = 1 .. 1 /\ Len(s) = 1 /\ s[1] = x
  OBVIOUS
<1>a. DOMAIN s = {1}
  BY <1>1
<1> HIDE DEF s
<1>2. {s[i] : i \in DOMAIN s} = {x}
  BY <1>1, <1>a
<1>3. IsSequence(s)
  BY <1>1, <1>2 DEF IsSequence
<1> QED BY <1>1, <1>a, <1>3 DEF s

(***************************************************************************)
(* What the items of a sequence of events are.                             *)
(***************************************************************************)
\* Every item of X is in one place, and nothing else is.
Makes(evs, X) ==
  /\ IsSequence(evs)
  /\ \A j \in DOMAIN evs : evs[j].id \in MessageId
  /\ \A j \in DOMAIN evs : \A i \in DOMAIN Items(evs[j]) :
       Items(evs[j])[i] \in X /\ Items(evs[j])[i].q = evs[j].id
  /\ \A x \in X : \E j \in DOMAIN evs : \E i \in DOMAIN Items(evs[j]) :
       Items(evs[j])[i] = x
  /\ \A j, l \in DOMAIN evs :
       \A i \in DOMAIN Items(evs[j]), h \in DOMAIN Items(evs[l]) :
         Items(evs[j])[i] = Items(evs[l])[h] => j = l /\ i = h

\* Nothing is made of nothing.
LEMMA MakesNothing == Makes(<<>>, {})
<1>1. IsSequence(<<>>) /\ DOMAIN <<>> = {}
  BY DEF IsSequence
<1> QED BY <1>1 DEF Makes

\* One event, if its items are those of X, each once.
LEMMA MakesOne ==
  ASSUME NEW ev, ev.id \in MessageId, NEW X,
         \A i \in DOMAIN Items(ev) : Items(ev)[i] \in X /\ Items(ev)[i].q = ev.id,
         \A x \in X : \E i \in DOMAIN Items(ev) : Items(ev)[i] = x,
         \A i, h \in DOMAIN Items(ev) : Items(ev)[i] = Items(ev)[h] => i = h
  PROVE  Makes(<<ev>>, X)
<1> DEFINE s == <<ev>>
<1>1. IsSequence(s) /\ DOMAIN s = {1} /\ s[1] = ev
  BY OneSequence
<1> HIDE DEF s
<1>2. Makes(s, X)
  BY <1>1 DEF Makes
<1> QED BY <1>2 DEF s

\* The events of one kind and those of another behind them.
LEMMA MakesBoth ==
  ASSUME NEW s, NEW t, NEW X, NEW Y, Makes(s, X), Makes(t, Y),
         \A x \in X : x \notin Y
  PROVE  Makes(s \o t, X \cup Y)
<1> DEFINE r == s \o t
<1>1. IsSequence(s) /\ IsSequence(t)
  BY DEF Makes
<1>a. Behind(r, s, t)
  BY <1>1, Joined
<1> HIDE DEF r
<1>2. /\ IsSequence(r) /\ Len(s) \in Nat
      /\ DOMAIN s = 1 .. Len(s) /\ DOMAIN t = 1 .. Len(t)
      /\ \A i \in DOMAIN s : i \in DOMAIN r /\ r[i] = s[i]
      /\ \A i \in DOMAIN t : Len(s) + i \in DOMAIN r /\ r[Len(s) + i] = t[i]
      /\ \A j \in DOMAIN r : \/ j \in DOMAIN s /\ r[j] = s[j]
                             \/ \E i \in DOMAIN t : j = Len(s) + i /\ r[j] = t[i]
  BY <1>a DEF Behind
<1>3. \A j \in DOMAIN r : r[j].id \in MessageId
  BY <1>2 DEF Makes
<1>4. ASSUME NEW j \in DOMAIN r, NEW i \in DOMAIN Items(r[j])
      PROVE  /\ Items(r[j])[i] \in X \cup Y /\ Items(r[j])[i].q = r[j].id
             /\ j \in DOMAIN s => Items(r[j])[i] \in X
             /\ j \notin DOMAIN s => Items(r[j])[i] \in Y
  <2>1. CASE j \in DOMAIN s /\ r[j] = s[j]
    BY <2>1 DEF Makes
  <2>2. CASE \E h \in DOMAIN t : j = Len(s) + h /\ r[j] = t[h]
    <3>1. PICK h \in DOMAIN t : j = Len(s) + h /\ r[j] = t[h]
      BY <2>2
    <3>2. j \notin DOMAIN s
      BY <3>1, <1>2
    <3>3. Items(t[h])[i] \in Y /\ Items(t[h])[i].q = t[h].id
      BY <3>1 DEF Makes
    <3> QED BY <3>1, <3>2, <3>3
  <2> QED BY <2>1, <2>2, <1>2
<1>5. ASSUME NEW x \in X \cup Y
      PROVE  \E j \in DOMAIN r : \E i \in DOMAIN Items(r[j]) : Items(r[j])[i] = x
  <2>1. CASE x \in X
    <3>1. PICK j \in DOMAIN s : \E i \in DOMAIN Items(s[j]) : Items(s[j])[i] = x
      BY <2>1 DEF Makes
    <3> QED BY <3>1, <1>2
  <2>2. CASE x \in Y
    <3>1. PICK j \in DOMAIN t : \E i \in DOMAIN Items(t[j]) : Items(t[j])[i] = x
      BY <2>2 DEF Makes
    <3>2. Len(s) + j \in DOMAIN r /\ r[Len(s) + j] = t[j]
      BY <1>2
    <3> QED BY <3>1, <3>2
  <2> QED BY <2>1, <2>2
<1>6. ASSUME NEW j \in DOMAIN r, NEW l \in DOMAIN r,
             NEW i \in DOMAIN Items(r[j]), NEW h \in DOMAIN Items(r[l]),
             Items(r[j])[i] = Items(r[l])[h]
      PROVE  j = l /\ i = h
  <2>1. CASE j \in DOMAIN s /\ l \in DOMAIN s
    BY <2>1, <1>2, <1>6 DEF Makes
  <2>2. CASE j \notin DOMAIN s /\ l \notin DOMAIN s
    <3>1. PICK g \in DOMAIN t : j = Len(s) + g /\ r[j] = t[g]
      BY <2>2, <1>2
    <3>2. PICK k \in DOMAIN t : l = Len(s) + k /\ r[l] = t[k]
      BY <2>2, <1>2
    <3> QED BY <3>1, <3>2, <1>6 DEF Makes
  <2>3. CASE (j \in DOMAIN s) # (l \in DOMAIN s)
    BY <2>3, <1>4, <1>6
  <2> QED BY <2>1, <2>2, <2>3
<1>7. Makes(r, X \cup Y)
  BY <1>2, <1>3, <1>4, <1>5, <1>6 DEF Makes
<1> QED BY <1>7 DEF r

(***************************************************************************)
(* The readings of a sequence of sensors.                                  *)
(***************************************************************************)
\* Every reading <<array, element>> of R is in one place, and nothing else is.
At(x) == <<x.value.array, x.value.at>>
Reads(sensors, R) ==
  /\ \A i \in DOMAIN sensors : At(sensors[i]) \in R
  /\ \A r \in R : \E i \in DOMAIN sensors : At(sensors[i]) = r
  /\ \A i, h \in DOMAIN sensors : At(sensors[i]) = At(sensors[h]) => i = h
ItemsOf(id, R) == {Item(id, r[1], r[2]) : r \in R}

\* The sensors of all elements of an array.
LEMMA AllRead ==
  ASSUME NEW array, NEW D, NEW sensors, DOMAIN sensors = D,
         \A i \in D : sensors[i].value.array = array /\ sensors[i].value.at = i
  PROVE  Reads(sensors, {array} \X D)
BY DEF Reads, At

\* The elements with certain names.
Having(list, names) == {i \in DOMAIN list : list[i].Name \in names}
\* The sensors of the elements with certain names.
LEMMA NamedRead ==
  ASSUME NEW array, NEW list \in Seq(Element), NEW names, NEW sensors,
         \A i \in DOMAIN list : sensors[i].value.array = array /\ sensors[i].value.at = i
  PROVE  /\ Reads(Named(list, names, sensors),
                  {array} \X Having(list, names))
         /\ IsSequence(Named(list, names, sensors))
<1> DEFINE D == Having(list, names)
           at == Ascending(D)
           s == Named(list, names, sensors)
<1>1. DOMAIN list = 1 .. Len(list) /\ Len(list) \in Nat
  OBVIOUS
<1>2. IsFiniteSet(1 .. Len(list))
  BY <1>1, FS_Interval
<1>3. D \in SUBSET Nat /\ D \subseteq 1 .. Len(list)
  BY <1>1 DEF Having
<1>4. IsFiniteSet(D)
  BY <1>2, <1>3, FS_Subset
<1>a. s = [k \in DOMAIN at |-> sensors[at[k]]]
  BY DEF Named, Having
<1>6. \A i \in D : sensors[i].value.array = array /\ sensors[i].value.at = i
  BY DEF Having
<1> HIDE DEF D
<1>b. Lists(at, D)
  BY <1>3, <1>4, AscendingOnce
<1> HIDE DEF at, s
<1>5. /\ DOMAIN at = 1 .. Cardinality(D) /\ Cardinality(D) \in Nat
      /\ \A i \in DOMAIN at : at[i] \in D
      /\ \A i, j \in DOMAIN at : at[i] = at[j] => i = j
      /\ \A x \in D : \E i \in DOMAIN at : at[i] = x
  BY <1>b DEF Lists
<1>7. \A k \in DOMAIN at : At(s[k]) = <<array, at[k]>>
  BY <1>a, <1>5, <1>6 DEF At
<1>8. Reads(s, {array} \X D)
  <2>1. DOMAIN s = DOMAIN at
    BY <1>a
  <2>2. \A i \in DOMAIN s : At(s[i]) \in {array} \X D
    BY <2>1, <1>5, <1>7
  <2>3. ASSUME NEW r \in {array} \X D PROVE \E i \in DOMAIN s : At(s[i]) = r
    <3>1. PICK i \in DOMAIN at : at[i] = r[2]
      BY <1>5
    <3> QED BY <3>1, <2>1, <1>7
  <2>4. \A i, h \in DOMAIN s : At(s[i]) = At(s[h]) => i = h
    BY <2>1, <1>5, <1>7
  <2> QED BY <2>2, <2>3, <2>4 DEF Reads
<1>9. s \in Seq({s[i] : i \in DOMAIN s})
  <2>1. s = [i \in 1 .. Cardinality(D) |-> s[i]] /\ DOMAIN s = 1 .. Cardinality(D)
    BY <1>a, <1>5
  <2>2. \A i \in 1 .. Cardinality(D) : s[i] \in {s[j] : j \in DOMAIN s}
    BY <2>1
  <2> QED BY <2>1, <2>2, <1>5
<1> QED BY <1>8, <1>9 DEF IsSequence, D, s

\* The sensors of one array behind those of another.
LEMMA BothRead ==
  ASSUME NEW s, NEW t, IsSequence(s), IsSequence(t), NEW R, NEW Q,
         Reads(s, R), Reads(t, Q), \A r \in R : r \notin Q
  PROVE  Reads(s \o t, R \cup Q)
<1> DEFINE r == s \o t
<1>1. Behind(r, s, t)
  BY Joined
<1> HIDE DEF r
<1>2. /\ IsSequence(r) /\ Len(s) \in Nat
      /\ DOMAIN s = 1 .. Len(s) /\ DOMAIN t = 1 .. Len(t)
      /\ \A i \in DOMAIN s : i \in DOMAIN r /\ r[i] = s[i]
      /\ \A i \in DOMAIN t : Len(s) + i \in DOMAIN r /\ r[Len(s) + i] = t[i]
      /\ \A j \in DOMAIN r : \/ j \in DOMAIN s /\ r[j] = s[j]
                             \/ \E i \in DOMAIN t : j = Len(s) + i /\ r[j] = t[i]
  BY <1>1 DEF Behind
<1>3. ASSUME NEW j \in DOMAIN r
      PROVE  \/ j \in DOMAIN s /\ r[j] = s[j] /\ At(r[j]) \in R
             \/ j \notin DOMAIN s /\ At(r[j]) \in Q
                /\ \E i \in DOMAIN t : j = Len(s) + i /\ r[j] = t[i]
  <2>1. CASE j \in DOMAIN s /\ r[j] = s[j]
    BY <2>1 DEF Reads
  <2>2. CASE \E i \in DOMAIN t : j = Len(s) + i /\ r[j] = t[i]
    <3>1. j \notin DOMAIN s
      BY <2>2, <1>2
    <3> QED BY <2>2, <3>1 DEF Reads
  <2> QED BY <2>1, <2>2, <1>2
<1>4. ASSUME NEW x \in R \cup Q PROVE \E j \in DOMAIN r : At(r[j]) = x
  <2>1. CASE x \in R
    <3>1. PICK j \in DOMAIN s : At(s[j]) = x
      BY <2>1 DEF Reads
    <3> QED BY <3>1, <1>2
  <2>2. CASE x \in Q
    <3>1. PICK j \in DOMAIN t : At(t[j]) = x
      BY <2>2 DEF Reads
    <3>2. Len(s) + j \in DOMAIN r /\ r[Len(s) + j] = t[j]
      BY <1>2
    <3> QED BY <3>1, <3>2
  <2> QED BY <2>1, <2>2
<1>5. ASSUME NEW j \in DOMAIN r, NEW l \in DOMAIN r, At(r[j]) = At(r[l])
      PROVE  j = l
  <2>1. CASE j \in DOMAIN s /\ l \in DOMAIN s
    BY <2>1, <1>2, <1>5 DEF Reads
  <2>2. CASE j \notin DOMAIN s /\ l \notin DOMAIN s
    <3>1. PICK g \in DOMAIN t : j = Len(s) + g /\ r[j] = t[g]
      BY <2>2, <1>2
    <3>2. PICK k \in DOMAIN t : l = Len(s) + k /\ r[l] = t[k]
      BY <2>2, <1>2
    <3> QED BY <3>1, <3>2, <1>5 DEF Reads
  <2>3. CASE (j \in DOMAIN s) # (l \in DOMAIN s)
    BY <2>3, <1>3, <1>5
  <2> QED BY <2>1, <2>2, <2>3
<1>6. Reads(r, R \cup Q)
  BY <1>3, <1>4, <1>5 DEF Reads
<1> QED BY <1>6 DEF r

\* An event has an item for every reading of its sensors.
LEMMA EventMakes ==
  ASSUME NEW id \in MessageId, NEW sensors, NEW R, Reads(sensors, R),
         \A r \in R : r = <<r[1], r[2]>>
  PROVE  Makes(NewEvent(id, sensors), ItemsOf(id, R))
<1> DEFINE ev == [id |-> id, sensors |-> sensors, args |-> <<>>]
           X == ItemsOf(id, R)
<1>1. ev.id = id /\ ev.args = <<>> /\ ev.sensors = sensors
  OBVIOUS
<1>2. NewEvent(id, sensors) = <<ev>>
  BY DEF NewEvent
<1> HIDE DEF ev
<1>3. Items(ev) = [i \in DOMAIN sensors |->
                     Item(id, sensors[i].value.array, sensors[i].value.at)]
  BY <1>1 DEF Items
<1>4. \A i \in DOMAIN sensors :
        /\ Items(ev)[i] = Item(id, At(sensors[i])[1], At(sensors[i])[2])
        /\ At(sensors[i]) \in R
  BY <1>3 DEF At, Reads
<1>5. \A i \in DOMAIN Items(ev) : Items(ev)[i] \in X /\ Items(ev)[i].q = ev.id
  BY <1>1, <1>3, <1>4 DEF ItemsOf, Item
<1>6. \A x \in X : \E i \in DOMAIN Items(ev) : Items(ev)[i] = x
  <2> SUFFICES ASSUME NEW r \in R
               PROVE  \E i \in DOMAIN Items(ev) : Items(ev)[i] = Item(id, r[1], r[2])
    BY DEF ItemsOf
  <2>1. PICK i \in DOMAIN sensors : At(sensors[i]) = r
    BY DEF Reads
  <2> QED BY <2>1, <1>3, <1>4
<1>7. \A i, h \in DOMAIN Items(ev) : Items(ev)[i] = Items(ev)[h] => i = h
  <2> SUFFICES ASSUME NEW i \in DOMAIN sensors, NEW h \in DOMAIN sensors,
                      Items(ev)[i] = Items(ev)[h]
               PROVE  i = h
    BY <1>3
  <2>1. At(sensors[i])[1] = At(sensors[h])[1] /\ At(sensors[i])[2] = At(sensors[h])[2]
    <3>1. Item(id, At(sensors[i])[1], At(sensors[i])[2])
            = Item(id, At(sensors[h])[1], At(sensors[h])[2])
      BY <1>4
    <3> QED BY <3>1 DEF Item
  <2>2. At(sensors[i]) = At(sensors[h])
    BY <2>1 DEF At
  <2> QED BY <2>2 DEF Reads
<1>8. Makes(<<ev>>, X)
  <2> HIDE DEF X
  <2> QED BY <1>1, <1>5, <1>6, <1>7, MakesOne
<1> QED BY <1>2, <1>8

\* The event of an array, left out if there is nothing in it.
LEMMA EventIfMakes ==
  ASSUME NEW id \in MessageId, NEW sensors, NEW R, Reads(sensors, R),
         \A r \in R : r = <<r[1], r[2]>>, NEW cond \in BOOLEAN, ~cond => R = {}
  PROVE  Makes(EventIf(cond, id, sensors), ItemsOf(id, R))
<1>1. CASE cond
  BY <1>1, EventMakes DEF EventIf
<1>2. CASE ~cond
  <2>1. ItemsOf(id, R) = {}
    BY <1>2 DEF ItemsOf
  <2> QED BY <1>2, <2>1, MakesNothing DEF EventIf
<1> QED BY <1>1, <1>2

(***************************************************************************)
(* The events of one array.                                                *)
(***************************************************************************)
Readings(id, array, D) == {Item(id, array, i) : i \in D}

\* Every quantity a collector reports has a MessageId of its own.
LEMMA Ids == {"Power", "Voltage", "Energy", "Current", "Temperature", "Fan"} \subseteq MessageId
BY DEF MessageId

\* Readings of different quantities or arrays are different.
LEMMA ReadingsDiffer ==
  ASSUME NEW id, NEW jd, NEW a, NEW c, NEW D, NEW E, id # jd \/ a # c
  PROVE  \A x \in Readings(id, a, D) : x \notin Readings(jd, c, E)
<1>1. \A x \in Readings(id, a, D) : x.q = id /\ x.array = a
  BY DEF Readings, Item
<1>2. \A x \in Readings(jd, c, E) : x.q = jd /\ x.array = c
  BY DEF Readings, Item
<1> QED BY <1>1, <1>2

\* The items of an array's readings, as pairs and as items.
LEMMA ReadingsAre ==
  ASSUME NEW id, NEW array, NEW D
  PROVE  /\ ItemsOf(id, {array} \X D) = Readings(id, array, D)
         /\ \A r \in {array} \X D : r = <<r[1], r[2]>>
         /\ D = {} => {array} \X D = {}
<1>1. \A r \in {array} \X D : r[1] = array /\ r[2] \in D /\ r = <<r[1], r[2]>>
  OBVIOUS
<1>2. \A i \in D : <<array, i>> \in {array} \X D
  OBVIOUS
<1>3. \A x \in ItemsOf(id, {array} \X D) : x \in Readings(id, array, D)
  BY <1>1 DEF ItemsOf, Readings
<1>4. ASSUME NEW i \in D PROVE Item(id, array, i) \in ItemsOf(id, {array} \X D)
  <2> DEFINE r == <<array, i>>
  <2>1. r \in {array} \X D /\ r[1] = array /\ r[2] = i
    OBVIOUS
  <2> HIDE DEF r
  <2> QED BY <2>1 DEF ItemsOf
<1>5. \A x \in Readings(id, array, D) : x \in ItemsOf(id, {array} \X D)
  BY <1>4 DEF Readings
<1> QED BY <1>1, <1>3, <1>5

\* The event of the elements of an array that have certain names.
LEMMA NamedMakes ==
  ASSUME NEW id \in MessageId, NEW array, NEW list \in Seq(Element), NEW names, NEW sensors,
         \A i \in DOMAIN list : sensors[i].value.array = array /\ sensors[i].value.at = i,
         NEW cond \in BOOLEAN,
         ~cond => list = <<>> \/ Named(list, names, sensors) = <<>>
  PROVE  Makes(EventIf(cond, id, Named(list, names, sensors)),
               Readings(id, array, Having(list, names)))
<1> DEFINE s == Named(list, names, sensors)
           D == Having(list, names)
           R == {array} \X D
<1>1. Reads(s, R)
  BY NamedRead
<1>2. /\ ItemsOf(id, R) = Readings(id, array, D) /\ \A r \in R : r = <<r[1], r[2]>>
      /\ D = {} => R = {}
  BY ReadingsAre
<1>3. list = <<>> => D = {}
  BY DEF Having
<1>4. s = <<>> => R = {}
  <2> HIDE DEF s, R
  <2> QED BY <1>1 DEF Reads
<1>5. ~cond => R = {}
  BY <1>2, <1>3, <1>4
<1> HIDE DEF s, R
<1>6. Makes(EventIf(cond, id, s), ItemsOf(id, R))
  BY <1>1, <1>2, <1>5, EventIfMakes
<1> QED BY <1>2, <1>6 DEF s

\* The event of all elements of an array.
LEMMA AllMakes ==
  ASSUME NEW id \in MessageId, NEW array, NEW list, NEW sensors,
         DOMAIN sensors = DOMAIN list,
         \A i \in DOMAIN list : sensors[i].value.array = array /\ sensors[i].value.at = i,
         NEW cond \in BOOLEAN, ~cond => list = <<>> \/ sensors = <<>>
  PROVE  Makes(EventIf(cond, id, sensors), Readings(id, array, DOMAIN list))
<1> DEFINE D == DOMAIN list
           R == {array} \X D
<1>1. Reads(sensors, R)
  BY AllRead
<1>3. list = <<>> \/ sensors = <<>> => D = {}
  OBVIOUS
<1> HIDE DEF D
<1>2. /\ ItemsOf(id, R) = Readings(id, array, D) /\ \A r \in R : r = <<r[1], r[2]>>
      /\ D = {} => R = {}
  BY ReadingsAre
<1> HIDE DEF R
<1>6. Makes(EventIf(cond, id, sensors), ItemsOf(id, R))
  BY <1>1, <1>2, <1>3, EventIfMakes
<1> QED BY <1>2, <1>6 DEF D

\* What each vendor's nodes report.
LEMMA GigabyteReports ==
  LET q == Quantities("gigabyte") IN
  /\ q["PowerControl"] = "Power" /\ q["Voltages"] = "Voltage"
  /\ q["Fans"] = "Fan" /\ q["Temperatures"] = "Temperature"
  /\ DOMAIN q = {"PowerControl", "Voltages", "Fans", "Temperatures"}
  /\ Controls("gigabyte") = {"Chassis Power Control", "Server Power Control"}
BY DEF Quantities, Controls
\* Intel's voltages are of the supplies and of the board.
LEMMA IntelReports ==
  LET q == Quantities("intel") IN
  /\ q["PowerControl"] = "Power" /\ q["PowerSupplies"] = "Voltage"
  /\ q["Voltages"] = "Voltage" /\ q["Temperatures"] = "Temperature"
  /\ DOMAIN q = {"PowerControl", "PowerSupplies", "Voltages", "Temperatures"}
  /\ Controls("intel") = {"Server Power Control"}
BY DEF Quantities, Controls
\* HPE's controls all count.
LEMMA HpeReports ==
  LET q == Quantities("hpe") IN
  /\ q["PowerControl"] = "Power" /\ q["PowerSupplies"] = "Voltage"
  /\ q["Fans"] = "Fan" /\ q["Temperatures"] = "Temperature"
  /\ DOMAIN q = {"PowerControl", "PowerSupplies", "Fans", "Temperatures"}
  /\ Controls("hpe") = Names
BY DEF Quantities, Controls
\* OpenBMC's supplies are read for their power.
LEMMA OpenBmcReports ==
  LET q == Quantities("openbmc") IN
  /\ q["PowerControl"] = "Power" /\ q["PowerSupplies"] = "Power"
  /\ q["Voltages"] = "Voltage"
  /\ q["Fans"] = "Fan" /\ q["Temperatures"] = "Temperature"
  /\ DOMAIN q = {"PowerControl", "PowerSupplies", "Voltages", "Fans", "Temperatures"}
  /\ Controls("openbmc") = {"Chassis Power Control"}
BY DEF Quantities, Controls

\* The elements of an array that count.
Counted(v, p, x) ==
  {i \in DOMAIN p[x] : x = "PowerControl" => p[x][i].Name \in Controls(v)}
MeantOf(v, p, x) == Readings(Quantities(v)[x], x, Counted(v, p, x))

\* What a node's payload should give, array by array.
LEMMA MeantHas ==
  ASSUME NEW v \in Vendor \ {"hpepdu"}, NEW p, NEW before, NEW A,
         DOMAIN Quantities(v) \cap DOMAIN p = A
  PROVE  Meant(v, p, before) = UNION {MeantOf(v, p, x) : x \in A}
<1>1. v # "hpepdu"
  OBVIOUS
<1> QED BY <1>1 DEF Meant, MeantOf, Counted, Readings

\* All elements count, except among the controls.
LEMMA CountedAre ==
  ASSUME NEW v, NEW p, NEW x
  PROVE  /\ x # "PowerControl" => Counted(v, p, x) = DOMAIN p[x]
         /\ x = "PowerControl" => Counted(v, p, x) = Having(p[x], Controls(v))
BY DEF Counted, Having

\* A payload of which two arrays are reported,...
LEMMA MeantTwo ==
  ASSUME NEW v \in Vendor \ {"hpepdu"}, NEW p, NEW before, NEW a, NEW c,
         DOMAIN Quantities(v) \cap DOMAIN p = {a, c}
  PROVE  Meant(v, p, before) = MeantOf(v, p, a) \cup MeantOf(v, p, c)
<1>1. Meant(v, p, before) = UNION {MeantOf(v, p, x) : x \in {a, c}}
  BY MeantHas
<1> QED BY <1>1
\* ...three,...
LEMMA MeantThree ==
  ASSUME NEW v \in Vendor \ {"hpepdu"}, NEW p, NEW before, NEW a, NEW c, NEW d,
         DOMAIN Quantities(v) \cap DOMAIN p = {a, c, d}
  PROVE  Meant(v, p, before) = (MeantOf(v, p, a) \cup MeantOf(v, p, c)) \cup MeantOf(v, p, d)
<1>1. Meant(v, p, before) = UNION {MeantOf(v, p, x) : x \in {a, c, d}}
  BY MeantHas
<1> QED BY <1>1

\* ...and one.
LEMMA MeantOne ==
  ASSUME NEW v \in Vendor \ {"hpepdu"}, NEW p, NEW before, NEW a,
         DOMAIN Quantities(v) \cap DOMAIN p = {a}
  PROVE  Meant(v, p, before) = MeantOf(v, p, a)
<1>1. Meant(v, p, before) = UNION {MeantOf(v, p, x) : x \in {a}}
  BY MeantHas
<1> QED BY <1>1

\* Gigabyte reports its controls and voltages.
LEMMA GigabytePowerMakes ==
  ASSUME NEW p \in Power, NEW before
  PROVE  Makes(GigabytePower(p), Meant("gigabyte", p, before))
<1> DEFINE controls == [i \in DOMAIN p.PowerControl |-> LET c == p.PowerControl[i] IN
             CrayJSONPayload(c.PhysicalContext, <<c.PhysicalContext, "_PowerControl">>,
               Index(c.MemberId), Reading("PowerControl", i, "AverageConsumedWatts"))]
           volts == [i \in DOMAIN p.Voltages |-> LET v == p.Voltages[i] IN
             CrayJSONPayload(v.PhysicalContext, <<v.Name>>, NoIndex,
               Reading("Voltages", i, "ReadingVolts"))]
           names == {"Chassis Power Control", "Server Power Control"}
           C == MeantOf("gigabyte", p, "PowerControl")
           V == MeantOf("gigabyte", p, "Voltages")
<1>1. /\ p.PowerControl \in Seq(Element) /\ p.Voltages \in Seq(Element)
      /\ DOMAIN p = {"PowerControl", "PowerSupplies", "Voltages"}
      /\ p["PowerControl"] = p.PowerControl /\ p["Voltages"] = p.Voltages
  BY DEF Power
<1>2. GigabytePower(p) = EventIf(p.PowerControl # <<>>, "Power",
                                 Named(p.PowerControl, names, controls))
                         \o EventIf(p.Voltages # <<>>, "Voltage", volts)
  BY DEF GigabytePower
<1>3. /\ \A i \in DOMAIN p.PowerControl : /\ controls[i].value.array = "PowerControl"
                                          /\ controls[i].value.at = i
      /\ \A i \in DOMAIN p.Voltages : volts[i].value.array = "Voltages" /\ volts[i].value.at = i
      /\ DOMAIN volts = DOMAIN p.Voltages
  BY DEF CrayJSONPayload, Reading
<1>a. Controls("gigabyte") = names
  BY GigabyteReports
<1> HIDE DEF names
<1>4. /\ C = Readings("Power", "PowerControl", Having(p.PowerControl, names))
      /\ V = Readings("Voltage", "Voltages", DOMAIN p.Voltages)
  <2>1. Counted("gigabyte", p, "PowerControl") = Having(p.PowerControl, names)
    BY <1>a, CountedAre
  <2>2. Counted("gigabyte", p, "Voltages") = DOMAIN p.Voltages
    BY CountedAre
  <2> QED BY <2>1, <2>2, GigabyteReports DEF MeantOf
<1> HIDE DEF controls, volts, C, V
<1> DEFINE E == EventIf(p.PowerControl # <<>>, "Power", Named(p.PowerControl, names, controls))
           F == EventIf(p.Voltages # <<>>, "Voltage", volts)
<1>5. Makes(E, C)
  BY <1>1, <1>3, <1>4, Ids, NamedMakes
<1>6. Makes(F, V)
  BY <1>3, <1>4, Ids, AllMakes
<1> HIDE DEF E, F
<1>7. \A x \in C : x \notin V
  BY <1>4, ReadingsDiffer
<1>8. Meant("gigabyte", p, before) = C \cup V
  <2>1. DOMAIN Quantities("gigabyte") \cap DOMAIN p = {"PowerControl", "Voltages"}
    BY <1>1, GigabyteReports
  <2>2. "gigabyte" \in Vendor \ {"hpepdu"}
    BY DEF Vendor
  <2> QED BY <2>1, <2>2, MeantTwo DEF C, V
<1>9. Makes(E \o F, C \cup V)
  BY <1>5, <1>6, <1>7, MakesBoth
<1> QED BY <1>2, <1>8, <1>9 DEF E, F

\* The sensors of power supplies.
LEMMA SuppliesAre ==
  ASSUME NEW p \in Power
  PROVE  LET s == PowerSupplyVolts(p) IN
         /\ DOMAIN s = DOMAIN p.PowerSupplies /\ IsSequence(s)
         /\ \A i \in DOMAIN s : s[i].value.array = "PowerSupplies" /\ s[i].value.at = i
<1> DEFINE s == PowerSupplyVolts(p)
           n == Len(p.PowerSupplies)
<1>1. p.PowerSupplies \in Seq(Element)
  BY DEF Power
<1>2. DOMAIN p.PowerSupplies = 1 .. n /\ n \in Nat
  BY <1>1
<1>3. /\ DOMAIN s = DOMAIN p.PowerSupplies
      /\ \A i \in DOMAIN s : s[i].value.array = "PowerSupplies" /\ s[i].value.at = i
  BY DEF PowerSupplyVolts, CrayJSONPayload, Reading
<1>4. s = [i \in 1 .. n |-> s[i]]
  BY <1>2 DEF PowerSupplyVolts
<1> HIDE DEF s, n
<1>5. s \in Seq({s[i] : i \in DOMAIN s})
  <2>1. \A i \in 1 .. n : s[i] \in {s[j] : j \in DOMAIN s}
    BY <1>2, <1>3
  <2> QED BY <2>1, <1>2, <1>4
<1> QED BY <1>3, <1>5 DEF IsSequence, s

\* Intel puts the voltages behind those of the supplies, in one event.
LEMMA IntelPowerMakes ==
  ASSUME NEW p \in Power, NEW before
  PROVE  Makes(IntelPower(p), Meant("intel", p, before))
<1> DEFINE controls == [i \in DOMAIN p.PowerControl |->
             CrayJSONPayload("Chassis", <<"Chassis_PowerControl">>,
               Index(p.PowerControl[i].MemberId),
               Reading("PowerControl", i, "PowerConsumedWatts"))]
           volts == [i \in DOMAIN p.Voltages |->
             CrayJSONPayload("SystemBoard", <<Text[p.Voltages[i].Name].rest>>, 0,
               Reading("Voltages", i, "ReadingVolts"))]
           supplies == PowerSupplyVolts(p)
           names == {"Server Power Control"}
           C == MeantOf("intel", p, "PowerControl")
           S == MeantOf("intel", p, "PowerSupplies")
           V == MeantOf("intel", p, "Voltages")
<1>1. /\ p.PowerControl \in Seq(Element) /\ p.Voltages \in Seq(Element)
      /\ DOMAIN p = {"PowerControl", "PowerSupplies", "Voltages"}
      /\ p["PowerControl"] = p.PowerControl /\ p["Voltages"] = p.Voltages
      /\ p["PowerSupplies"] = p.PowerSupplies
  BY DEF Power
<1>2. IntelPower(p) = NewEvent("Power", Named(p.PowerControl, names, controls))
                      \o NewEvent("Voltage", supplies \o volts)
  BY DEF IntelPower
<1>3. /\ \A i \in DOMAIN p.PowerControl : /\ controls[i].value.array = "PowerControl"
                                          /\ controls[i].value.at = i
      /\ \A i \in DOMAIN p.Voltages : volts[i].value.array = "Voltages" /\ volts[i].value.at = i
      /\ DOMAIN volts = DOMAIN p.Voltages
  BY DEF CrayJSONPayload, Reading
<1>a. Controls("intel") = names
  BY IntelReports
<1> HIDE DEF names
<1>4. /\ C = Readings("Power", "PowerControl", Having(p.PowerControl, names))
      /\ S = Readings("Voltage", "PowerSupplies", DOMAIN p.PowerSupplies)
      /\ V = Readings("Voltage", "Voltages", DOMAIN p.Voltages)
  <2>1. Counted("intel", p, "PowerControl") = Having(p.PowerControl, names)
    BY <1>a, CountedAre
  <2>2. Counted("intel", p, "PowerSupplies") = DOMAIN p.PowerSupplies
    BY CountedAre
  <2>3. Counted("intel", p, "Voltages") = DOMAIN p.Voltages
    BY CountedAre
  <2> QED BY <2>1, <2>2, <2>3, IntelReports DEF MeantOf
<1>5. IsSequence(volts)
  <2>1. DOMAIN p.Voltages = 1 .. Len(p.Voltages) /\ Len(p.Voltages) \in Nat
    BY <1>1
  <2>2. volts = [i \in 1 .. Len(p.Voltages) |-> volts[i]]
    BY <2>1
  <2> HIDE DEF volts
  <2>3. \A i \in 1 .. Len(p.Voltages) : volts[i] \in {volts[j] : j \in DOMAIN volts}
    BY <2>1, <1>3
  <2> QED BY <2>1, <2>2, <2>3 DEF IsSequence
<1>6. /\ DOMAIN supplies = DOMAIN p.PowerSupplies /\ IsSequence(supplies)
      /\ \A i \in DOMAIN supplies : /\ supplies[i].value.array = "PowerSupplies"
                                    /\ supplies[i].value.at = i
  BY SuppliesAre
<1> HIDE DEF controls, volts, supplies, C, S, V
<1> DEFINE E == NewEvent("Power", Named(p.PowerControl, names, controls))
           F == NewEvent("Voltage", supplies \o volts)
<1>7. Makes(E, C)
  <2>1. Makes(EventIf(TRUE, "Power", Named(p.PowerControl, names, controls)), C)
    BY <1>1, <1>3, <1>4, Ids, NamedMakes
  <2> QED BY <2>1 DEF EventIf
<1>8. Makes(F, S \cup V)
  <2> DEFINE DS == DOMAIN p.PowerSupplies
             DV == DOMAIN p.Voltages
             R == {"PowerSupplies"} \X DS
             Q == {"Voltages"} \X DV
  <2>1. Reads(supplies, R)
    BY <1>6, AllRead
  <2>2. Reads(volts, Q)
    BY <1>3, AllRead
  <2> HIDE DEF DS, DV
  <2>3. \A r \in R : r \notin Q
    OBVIOUS
  <2>4. /\ ItemsOf("Voltage", R) = S /\ \A r \in R : r = <<r[1], r[2]>>
        /\ ItemsOf("Voltage", Q) = V /\ \A r \in Q : r = <<r[1], r[2]>>
    BY <1>4, ReadingsAre DEF DS, DV
  <2> HIDE DEF R, Q
  <2>5. Reads(supplies \o volts, R \cup Q)
    BY <2>1, <2>2, <2>3, <1>5, <1>6, BothRead
  <2>6. \A r \in R \cup Q : r = <<r[1], r[2]>>
    BY <2>4
  <2>7. Makes(F, ItemsOf("Voltage", R \cup Q))
    BY <2>5, <2>6, Ids, EventMakes
  <2>8. ItemsOf("Voltage", R \cup Q) = ItemsOf("Voltage", R) \cup ItemsOf("Voltage", Q)
    BY DEF ItemsOf
  <2> QED BY <2>4, <2>7, <2>8
<1> HIDE DEF E, F
<1>9. \A x \in C : x \notin S \cup V
  BY <1>4, ReadingsDiffer
<1>10. Meant("intel", p, before) = C \cup (S \cup V)
  <2>1. DOMAIN Quantities("intel") \cap DOMAIN p = {"PowerControl", "PowerSupplies", "Voltages"}
    BY <1>1, IntelReports
  <2>2. "intel" \in Vendor \ {"hpepdu"}
    BY DEF Vendor
  <2>3. Meant("intel", p, before) = (C \cup S) \cup V
    BY <2>1, <2>2, MeantThree DEF C, S, V
  <2> QED BY <2>3
<1>11. Makes(E \o F, C \cup (S \cup V))
  BY <1>7, <1>8, <1>9, MakesBoth
<1> QED BY <1>2, <1>10, <1>11 DEF E, F

\* HPE reports all controls, and its power supplies.
LEMMA HpePowerMakes ==
  ASSUME NEW p \in Power, NEW before
  PROVE  Makes(HpePower(p), Meant("hpe", p, before))
<1> DEFINE controls == [i \in DOMAIN p.PowerControl |->
             CrayJSONPayload("PowerControlIntake", <<"PowerIntake">>,
               Index(p.PowerControl[i].MemberId),
               Reading("PowerControl", i, "AverageConsumedWatts"))]
           supplies == PowerSupplyVolts(p)
           C == MeantOf("hpe", p, "PowerControl")
           S == MeantOf("hpe", p, "PowerSupplies")
<1>1. /\ p.PowerControl \in Seq(Element) /\ p.PowerSupplies \in Seq(Element)
      /\ DOMAIN p = {"PowerControl", "PowerSupplies", "Voltages"}
      /\ p["PowerControl"] = p.PowerControl /\ p["PowerSupplies"] = p.PowerSupplies
  BY DEF Power
<1>2. HpePower(p) = EventIf(p.PowerControl # <<>>, "Power", controls)
                    \o EventIf(p.PowerSupplies # <<>>, "Voltage", supplies)
  BY DEF HpePower
<1>3. /\ \A i \in DOMAIN p.PowerControl : /\ controls[i].value.array = "PowerControl"
                                          /\ controls[i].value.at = i
      /\ DOMAIN controls = DOMAIN p.PowerControl
  BY DEF CrayJSONPayload, Reading
<1>4. /\ C = Readings("Power", "PowerControl", Having(p.PowerControl, Names))
      /\ S = Readings("Voltage", "PowerSupplies", DOMAIN p.PowerSupplies)
  BY <1>1, CountedAre, HpeReports DEF MeantOf
<1>5. Having(p.PowerControl, Names) = DOMAIN p.PowerControl
  <2>1. \A i \in DOMAIN p.PowerControl : p.PowerControl[i] \in Element
    BY <1>1
  <2> QED BY <2>1 DEF Having, Element
<1>6. /\ DOMAIN supplies = DOMAIN p.PowerSupplies
      /\ \A i \in DOMAIN p.PowerSupplies : /\ supplies[i].value.array = "PowerSupplies"
                                           /\ supplies[i].value.at = i
  BY SuppliesAre
<1> HIDE DEF controls, supplies, C, S
<1> DEFINE E == EventIf(p.PowerControl # <<>>, "Power", controls)
           F == EventIf(p.PowerSupplies # <<>>, "Voltage", supplies)
<1>7. Makes(E, C)
  BY <1>3, <1>4, <1>5, Ids, AllMakes
<1>8. Makes(F, S)
  BY <1>4, <1>6, Ids, AllMakes
<1> HIDE DEF E, F
<1>9. \A x \in C : x \notin S
  BY <1>4, ReadingsDiffer
<1>10. Meant("hpe", p, before) = C \cup S
  <2>1. DOMAIN Quantities("hpe") \cap DOMAIN p = {"PowerControl", "PowerSupplies"}
    BY <1>1, HpeReports
  <2>2. "hpe" \in Vendor \ {"hpepdu"}
    BY DEF Vendor
  <2> QED BY <2>1, <2>2, MeantTwo DEF C, S
<1>11. Makes(E \o F, C \cup S)
  BY <1>7, <1>8, <1>9, MakesBoth
<1> QED BY <1>2, <1>10, <1>11 DEF E, F

\* OpenBMC reports controls and supplies as powers, and voltages.
LEMMA OpenBmcPowerMakes ==
  ASSUME NEW p \in Power, NEW before
  PROVE  Makes(OpenBmcPower(p), Meant("openbmc", p, before))
<1> DEFINE all == [i \in DOMAIN p.PowerControl |-> LET c == p.PowerControl[i] IN
             CrayJSONPayload("Chassis", <<c.Name>>, Index(c.MemberId),
               Reading("PowerControl", i, "PowerConsumedWatts"))]
           names == {"Chassis Power Control"}
           controls == Named(p.PowerControl, names, all)
           supplies == [i \in DOMAIN p.PowerSupplies |-> LET s == p.PowerSupplies[i] IN
             CrayJSONPayload("PowerSupplyBay", <<s.Name>>, Index(s.MemberId),
               Reading("PowerSupplies", i, "PowerOutputWatts"))]
           volts == [i \in DOMAIN p.Voltages |->
             CrayJSONPayload("SystemBoard", <<p.Voltages[i].Name>>, 0,
               Reading("Voltages", i, "ReadingVolts"))]
           C == MeantOf("openbmc", p, "PowerControl")
           S == MeantOf("openbmc", p, "PowerSupplies")
           V == MeantOf("openbmc", p, "Voltages")
<1>1. /\ p.PowerControl \in Seq(Element)
      /\ DOMAIN p = {"PowerControl", "PowerSupplies", "Voltages"}
  BY DEF Power
<1>2. OpenBmcPower(p) = (EventIf(controls # <<>>, "Power", controls)
                         \o EventIf(supplies # <<>>, "Power", supplies))
                        \o EventIf(volts # <<>>, "Voltage", volts)
  BY DEF OpenBmcPower
<1>3. /\ \A i \in DOMAIN p.PowerControl : /\ all[i].value.array = "PowerControl"
                                          /\ all[i].value.at = i
      /\ \A i \in DOMAIN p.PowerSupplies : /\ supplies[i].value.array = "PowerSupplies"
                                           /\ supplies[i].value.at = i
      /\ DOMAIN supplies = DOMAIN p.PowerSupplies
      /\ \A i \in DOMAIN p.Voltages : volts[i].value.array = "Voltages" /\ volts[i].value.at = i
      /\ DOMAIN volts = DOMAIN p.Voltages
  BY DEF CrayJSONPayload, Reading
<1>a. Controls("openbmc") = names
  BY OpenBmcReports
<1> HIDE DEF names
<1>4. /\ C = Readings("Power", "PowerControl", Having(p.PowerControl, names))
      /\ S = Readings("Power", "PowerSupplies", DOMAIN p.PowerSupplies)
      /\ V = Readings("Voltage", "Voltages", DOMAIN p.Voltages)
  <2>1. Counted("openbmc", p, "PowerControl") = Having(p.PowerControl, names)
    BY <1>a, CountedAre
  <2>2. Counted("openbmc", p, "PowerSupplies") = DOMAIN p.PowerSupplies
    BY CountedAre
  <2>3. Counted("openbmc", p, "Voltages") = DOMAIN p.Voltages
    BY CountedAre
  <2> QED BY <2>1, <2>2, <2>3, OpenBmcReports DEF MeantOf
<1> HIDE DEF all, supplies, volts, C, S, V
<1> DEFINE E == EventIf(controls # <<>>, "Power", controls)
           F == EventIf(supplies # <<>>, "Power", supplies)
           G == EventIf(volts # <<>>, "Voltage", volts)
<1>5. Makes(E, C)
  BY <1>1, <1>3, <1>4, Ids, NamedMakes
<1>6. Makes(F, S)
  BY <1>3, <1>4, Ids, AllMakes
<1>7. Makes(G, V)
  BY <1>3, <1>4, Ids, AllMakes
<1> HIDE DEF E, F, G
<1>8. /\ \A x \in C : x \notin S
      /\ \A x \in C \cup S : x \notin V
  BY <1>4, ReadingsDiffer
<1>9. Meant("openbmc", p, before) = (C \cup S) \cup V
  <2>1. DOMAIN Quantities("openbmc") \cap DOMAIN p = {"PowerControl", "PowerSupplies", "Voltages"}
    BY <1>1, OpenBmcReports
  <2>2. "openbmc" \in Vendor \ {"hpepdu"}
    BY DEF Vendor
  <2> QED BY <2>1, <2>2, MeantThree DEF C, S, V
<1>10. Makes(E \o F, C \cup S)
  BY <1>5, <1>6, <1>8, MakesBoth
<1>11. Makes((E \o F) \o G, (C \cup S) \cup V)
  BY <1>7, <1>8, <1>10, MakesBoth
<1> QED BY <1>2, <1>9, <1>11 DEF E, F, G

(***************************************************************************)
(* Temperatures and fans.                                                  *)
(***************************************************************************)
\* The temperatures of all vendors but Intel.
LEMMA TemperatureMakes ==
  ASSUME NEW p \in EnclosureThermal
  PROVE  Makes(TemperatureEvent(p), Readings("Temperature", "Temperatures", DOMAIN p.Temperatures))
<1> DEFINE temps == [i \in DOMAIN p.Temperatures |-> LET t == p.Temperatures[i] IN
             CrayJSONPayload(t.PhysicalContext, <<t.Name>>, Index(t.MemberId),
               Reading("Temperatures", i, "ReadingCelsius"))]
<1>1. TemperatureEvent(p) = EventIf(p.Temperatures # <<>>, "Temperature", temps)
  BY DEF TemperatureEvent
<1>2. /\ \A i \in DOMAIN p.Temperatures : /\ temps[i].value.array = "Temperatures"
                                          /\ temps[i].value.at = i
      /\ DOMAIN temps = DOMAIN p.Temperatures
  BY DEF CrayJSONPayload, Reading
<1> HIDE DEF temps
<1>3. Makes(EventIf(p.Temperatures # <<>>, "Temperature", temps),
            Readings("Temperature", "Temperatures", DOMAIN p.Temperatures))
  BY <1>2, Ids, AllMakes
<1> QED BY <1>1, <1>3

\* The fans.
LEMMA FanMakes ==
  ASSUME NEW p \in EnclosureThermal, NEW own \in BOOLEAN
  PROVE  Makes(FanEvent(p, own), Readings("Fan", "Fans", DOMAIN p.Fans))
<1> DEFINE fans == [i \in DOMAIN p.Fans |-> LET f == p.Fans[i] IN
             CrayJSONPayload(IF own THEN f.PhysicalContext ELSE "System",
               <<f.Name>>, Index(f.MemberId), Reading("Fans", i, "Reading"))]
<1>1. FanEvent(p, own) = EventIf(p.Fans # <<>>, "Fan", fans)
  BY DEF FanEvent
<1>2. /\ \A i \in DOMAIN p.Fans : fans[i].value.array = "Fans" /\ fans[i].value.at = i
      /\ DOMAIN fans = DOMAIN p.Fans
  BY DEF CrayJSONPayload, Reading
<1> HIDE DEF fans
<1>3. Makes(EventIf(p.Fans # <<>>, "Fan", fans), Readings("Fan", "Fans", DOMAIN p.Fans))
  BY <1>2, Ids, AllMakes
<1> QED BY <1>1, <1>3

\* The thermal readings of all vendors but Intel...
LEMMA ThermalMakes ==
  ASSUME NEW p \in EnclosureThermal, NEW own \in BOOLEAN, NEW before,
         NEW v \in {"gigabyte", "hpe", "openbmc"}
  PROVE  Makes(FanEvent(p, own) \o TemperatureEvent(p), Meant(v, p, before))
<1> DEFINE F == Readings("Fan", "Fans", DOMAIN p.Fans)
           T == Readings("Temperature", "Temperatures", DOMAIN p.Temperatures)
<1>1. DOMAIN p = {"Temperatures", "Fans"}
  BY DEF EnclosureThermal
<1>2. /\ Quantities(v)["Fans"] = "Fan" /\ Quantities(v)["Temperatures"] = "Temperature"
      /\ DOMAIN Quantities(v) \cap DOMAIN p = {"Fans", "Temperatures"}
  BY <1>1, GigabyteReports, HpeReports, OpenBmcReports
<1>3. v \in Vendor \ {"hpepdu"}
  BY DEF Vendor
<1>4. Meant(v, p, before) = MeantOf(v, p, "Fans") \cup MeantOf(v, p, "Temperatures")
  BY <1>2, <1>3, MeantTwo
<1>5. MeantOf(v, p, "Fans") = F /\ MeantOf(v, p, "Temperatures") = T
  BY <1>2, CountedAre DEF MeantOf
<1>6. \A x \in F : x \notin T
  BY ReadingsDiffer
<1>7. Makes(FanEvent(p, own), F) /\ Makes(TemperatureEvent(p), T)
  BY FanMakes, TemperatureMakes
<1> HIDE DEF F, T
<1>8. Makes(FanEvent(p, own) \o TemperatureEvent(p), F \cup T)
  BY <1>6, <1>7, MakesBoth
<1> QED BY <1>4, <1>5, <1>8

\* ...and Intel's.
LEMMA IntelThermalMakes ==
  ASSUME NEW p \in EnclosureThermal, NEW before
  PROVE  Makes(IntelThermal(p), Meant("intel", p, before))
<1> DEFINE temps == [i \in DOMAIN p.Temperatures |->
             CrayJSONPayload("Baseboard", <<p.Temperatures[i].Name>>, 0,
               Reading("Temperatures", i, "ReadingCelsius"))]
           T == Readings("Temperature", "Temperatures", DOMAIN p.Temperatures)
<1>1. IntelThermal(p) = EventIf(TRUE, "Temperature", temps)
  BY DEF IntelThermal, EventIf
<1>2. /\ \A i \in DOMAIN p.Temperatures : /\ temps[i].value.array = "Temperatures"
                                          /\ temps[i].value.at = i
      /\ DOMAIN temps = DOMAIN p.Temperatures
  BY DEF CrayJSONPayload, Reading
<1> HIDE DEF temps
<1>3. Makes(EventIf(TRUE, "Temperature", temps), T)
  BY <1>2, Ids, AllMakes
<1>4. Meant("intel", p, before) = MeantOf("intel", p, "Temperatures")
  <2>1. DOMAIN Quantities("intel") \cap DOMAIN p = {"Temperatures"}
    BY IntelReports DEF EnclosureThermal
  <2>2. "intel" \in Vendor \ {"hpepdu"}
    BY DEF Vendor
  <2> QED BY <2>1, <2>2, MeantOne
<1>5. MeantOf("intel", p, "Temperatures") = T
  <2>1. Counted("intel", p, "Temperatures") = DOMAIN p.Temperatures
    BY CountedAre
  <2> QED BY <2>1, IntelReports DEF MeantOf
<1> QED BY <1>1, <1>3, <1>4, <1>5

(***************************************************************************)
(* PDUs.                                                                   *)
(***************************************************************************)
\* An event with one sensor.
LEMMA SingleMakes ==
  ASSUME NEW id \in MessageId, NEW s, NEW array, NEW at,
         s.value.array = array, s.value.at = at
  PROVE  Makes(NewEvent(id, <<s>>), {Item(id, array, at)})
<1> DEFINE t == <<s>>
           R == {array} \X {at}
<1>1. DOMAIN t = {1} /\ t[1] = s
  BY OneSequence
<1> HIDE DEF t
<1>2. Reads(t, R)
  <2>1. \A i \in DOMAIN t : At(t[i]) = <<array, at>>
    BY <1>1 DEF At
  <2>2. R = {<<array, at>>}
    OBVIOUS
  <2> QED BY <1>1, <2>1, <2>2 DEF Reads
<1>3. /\ ItemsOf(id, R) = Readings(id, array, {at}) /\ \A r \in R : r = <<r[1], r[2]>>
  BY ReadingsAre
<1> HIDE DEF R
<1>4. Makes(NewEvent(id, t), ItemsOf(id, R))
  BY <1>2, <1>3, EventMakes
<1>5. Readings(id, array, {at}) = {Item(id, array, at)}
  BY DEF Readings
<1> QED BY <1>3, <1>4, <1>5 DEF t

\* The event of a power state.
LEMMA StateMakes ==
  ASSUME NEW outlet, NEW state
  PROVE  Makes(<<[id |-> "ResourcePowerStateChanged", sensors |-> <<>>,
                  args |-> <<outlet, state>>]>>,
               {Item("ResourcePowerStateChanged", outlet, state)})
<1> DEFINE ev == [id |-> "ResourcePowerStateChanged", sensors |-> <<>>,
                  args |-> <<outlet, state>>]
           x == Item("ResourcePowerStateChanged", outlet, state)
<1>1. /\ ev.id = "ResourcePowerStateChanged" /\ ev.args # <<>>
      /\ ev.args[1] = outlet /\ ev.args[2] = state
  OBVIOUS
<1>2. Items(ev) = <<x>>
  <2> HIDE DEF ev
  <2> QED BY <1>1 DEF Items
<1>3. x.q = ev.id
  BY <1>1 DEF Item
<1>4. ev.id \in MessageId
  BY <1>1 DEF MessageId
<1> HIDE DEF ev, x
<1>5. DOMAIN Items(ev) = {1} /\ Items(ev)[1] = x
  BY <1>2, OneSequence
<1>6. Makes(<<ev>>, {x})
  BY <1>3, <1>4, <1>5, MakesOne
<1> QED BY <1>6 DEF ev, x

\* An outlet: four readings, and the change of its state if it changed.
LEMMA OutletMakes ==
  ASSUME NEW p \in Outlet, NEW last, NEW before,
         DOMAIN last = Urls["hpepdu"]["Power"],
         p.Oid \in DOMAIN last => last[p.Oid] = before
  PROVE  Makes(ParseOutlet(p, last), Meant("hpepdu", p, before))
<1> DEFINE s(field) == CrayJSONPayload("Outlet", <<>>, Index(OidNumber[p.Oid]),
                                       Reading("Outlet", p.Oid, field))
           X(id) == Item(id, "Outlet", p.Oid)
           P == NewEvent("Power", <<s("PowerWatts")>>)
           C == NewEvent("Current", <<s("CurrentAmps")>>)
           V == NewEvent("Voltage", <<s("Voltage")>>)
           E == NewEvent("Energy", <<s("EnergykWh")>>)
           changed == p.Oid \in DOMAIN last /\ last[p.Oid] # p.PowerState
           S == IF changed
                THEN <<[id |-> "ResourcePowerStateChanged", sensors |-> <<>>,
                        args |-> <<p.Oid, p.PowerState>>]>>
                ELSE <<>>
           Y == IF changed THEN {Item("ResourcePowerStateChanged", p.Oid, p.PowerState)} ELSE {}
<1>1. ParseOutlet(p, last) = (((P \o C) \o V) \o E) \o S
  BY DEF ParseOutlet
<1>2. \A field : s(field).value.array = "Outlet" /\ s(field).value.at = p.Oid
  BY DEF CrayJSONPayload, Reading
<1> HIDE DEF s
<1>3. /\ Makes(P, {X("Power")}) /\ Makes(C, {X("Current")})
      /\ Makes(V, {X("Voltage")}) /\ Makes(E, {X("Energy")})
  BY <1>2, Ids, SingleMakes
<1>4. Makes(S, Y)
  BY StateMakes, MakesNothing
<1>5. /\ X("Power").q = "Power" /\ X("Current").q = "Current" /\ X("Voltage").q = "Voltage"
      /\ X("Energy").q = "Energy" /\ \A y \in Y : y.q = "ResourcePowerStateChanged"
  BY DEF Item
<1>6. Meant("hpepdu", p, before) =
        ((({X("Power")} \cup {X("Current")}) \cup {X("Voltage")}) \cup {X("Energy")}) \cup Y
  <2>1. p.Name = "Outlet"
    BY DEF Outlet
  <2>2. Meant("hpepdu", p, before) =
          {X(q) : q \in {"Power", "Current", "Voltage", "Energy"}} \cup Y
    BY <2>1 DEF Meant
  <2> HIDE DEF X, Y
  <2> QED BY <2>2
<1> HIDE DEF P, C, V, E, S, Y, X
<1>7. Makes(P \o C, {X("Power")} \cup {X("Current")})
  BY <1>3, <1>5, MakesBoth
<1>8. Makes((P \o C) \o V, ({X("Power")} \cup {X("Current")}) \cup {X("Voltage")})
  BY <1>3, <1>5, <1>7, MakesBoth
<1>9. Makes(((P \o C) \o V) \o E,
            (({X("Power")} \cup {X("Current")}) \cup {X("Voltage")}) \cup {X("Energy")})
  BY <1>3, <1>5, <1>8, MakesBoth
<1>10. Makes((((P \o C) \o V) \o E) \o S,
            ((({X("Power")} \cup {X("Current")}) \cup {X("Voltage")}) \cup {X("Energy")}) \cup Y)
  BY <1>4, <1>5, <1>9, MakesBoth
<1> QED BY <1>1, <1>6, <1>10

\* A branch, whichever of its lines the loop over the map met last.
LEMMA BranchMakes ==
  ASSUME NEW p \in Branch, NEW before, NEW evs \in ParseBranch(p)
  PROVE  Makes(evs, Meant("hpepdu", p, before))
<1> DEFINE s(field, line) == CrayJSONPayload("Branch", line, p.letter - 64,
                                             Reading("Branch", p.letter, field))
           X(id) == Item(id, "Branch", p.letter)
<1>1. PICK l : evs = NewEvent("Current", <<s("CurrentAmps", l)>>)
                     \o NewEvent("Energy", <<s("EnergykWh", l)>>)
  BY DEF ParseBranch
<1>2. \A field : s(field, l).value.array = "Branch" /\ s(field, l).value.at = p.letter
  BY DEF CrayJSONPayload, Reading
<1> HIDE DEF s
<1> DEFINE C == NewEvent("Current", <<s("CurrentAmps", l)>>)
           E == NewEvent("Energy", <<s("EnergykWh", l)>>)
<1>3. Makes(C, {X("Current")}) /\ Makes(E, {X("Energy")})
  BY <1>2, Ids, SingleMakes
<1>4. X("Current").q = "Current" /\ X("Energy").q = "Energy"
  BY DEF Item
<1>5. Meant("hpepdu", p, before) = {X("Current")} \cup {X("Energy")}
  <2>1. p.Name = "Branch"
    BY DEF Branch
  <2>2. Meant("hpepdu", p, before) = {X(q) : q \in {"Current", "Energy"}}
    BY <2>1 DEF Meant
  <2> HIDE DEF X
  <2> QED BY <2>2
<1> HIDE DEF C, E, X
<1>6. Makes(C \o E, {X("Current")} \cup {X("Energy")})
  BY <1>3, <1>4, MakesBoth
<1> QED BY <1>1, <1>5, <1>6 DEF C, E

\* The sensors of the phases.
LEMMA PhasesMake ==
  ASSUME NEW id \in MessageId, NEW keys \in SUBSET Nat, IsFiniteSet(keys), NEW ctx, NEW field,
         NEW names, names = Ascending(keys)
  PROVE  Makes(NewEvent(id, [i \in DOMAIN names |->
                               CrayJSONPayload(ctx, <<names[i]>>, i - 1,
                                               Reading("Mains", names[i], field))]),
               Readings(id, "Mains", keys))
<1> DEFINE s == [i \in DOMAIN names |->
                   CrayJSONPayload(ctx, <<names[i]>>, i - 1,
                                   Reading("Mains", names[i], field))]
           R == {"Mains"} \X keys
<1>1. Lists(names, keys)
  BY AscendingOnce
<1>2. /\ DOMAIN s = DOMAIN names
      /\ \A i \in DOMAIN s : At(s[i]) = <<"Mains", names[i]>>
  BY DEF CrayJSONPayload, Reading, At
<1> HIDE DEF s
<1>3. Reads(s, R)
  <2>1. \A i \in DOMAIN s : At(s[i]) \in R
    BY <1>1, <1>2 DEF Lists
  <2>2. ASSUME NEW r \in R PROVE \E i \in DOMAIN s : At(s[i]) = r
    <3>1. PICK i \in DOMAIN names : names[i] = r[2]
      BY <1>1 DEF Lists
    <3> QED BY <3>1, <1>2
  <2>3. \A i, h \in DOMAIN s : At(s[i]) = At(s[h]) => i = h
    BY <1>1, <1>2 DEF Lists
  <2> QED BY <2>1, <2>2, <2>3 DEF Reads
<1>4. /\ ItemsOf(id, R) = Readings(id, "Mains", keys) /\ \A r \in R : r = <<r[1], r[2]>>
  BY ReadingsAre
<1> HIDE DEF R
<1>5. Makes(NewEvent(id, s), ItemsOf(id, R))
  BY <1>3, <1>4, EventMakes
<1> QED BY <1>4, <1>5 DEF s

\* The mains: every key of the three maps.
LEMMA MainsMake ==
  ASSUME NEW p \in Mains, NEW before,
         IsFiniteSet(p.PolyPhasePowerWatts), IsFiniteSet(p.PolyPhaseVoltage),
         IsFiniteSet(p.PolyPhaseCurrentAmps)
  PROVE  Makes(ParseMain(p), Meant("hpepdu", p, before))
<1> DEFINE s(keys, ctx, field) ==
             [i \in DOMAIN Ascending(keys) |->
                CrayJSONPayload(ctx, <<Ascending(keys)[i]>>, i - 1,
                                Reading("Mains", Ascending(keys)[i], field))]
           P == NewEvent("Power", s(p.PolyPhasePowerWatts, "Phase", "PolyPhasePowerWatts"))
           V == NewEvent("Voltage", s(p.PolyPhaseVoltage, "Phase", "PolyPhaseVoltage"))
           C == NewEvent("Current", s(p.PolyPhaseCurrentAmps, "Line", "PolyPhaseCurrentAmps"))
           X == Readings("Power", "Mains", p.PolyPhasePowerWatts)
           Y == Readings("Voltage", "Mains", p.PolyPhaseVoltage)
           Z == Readings("Current", "Mains", p.PolyPhaseCurrentAmps)
<1>1. ParseMain(p) = (P \o V) \o C
  BY DEF ParseMain
<1>2. /\ p.PolyPhasePowerWatts \in SUBSET Nat /\ p.PolyPhaseVoltage \in SUBSET Nat
      /\ p.PolyPhaseCurrentAmps \in SUBSET Nat /\ p.Name = "Mains"
  BY DEF Mains
<1>3. Makes(P, X)
  BY <1>2, Ids, PhasesMake
<1>4. Makes(V, Y)
  BY <1>2, Ids, PhasesMake
<1>5. Makes(C, Z)
  BY <1>2, Ids, PhasesMake
<1>6. Meant("hpepdu", p, before) = (X \cup Y) \cup Z
  BY <1>2 DEF Meant, Readings
<1>7. /\ \A x \in X : x.q = "Power"
      /\ \A x \in Y : x.q = "Voltage"
      /\ \A x \in Z : x.q = "Current"
  BY DEF Readings, Item
<1> HIDE DEF P, V, C, X, Y, Z
<1>8. Makes(P \o V, X \cup Y)
  BY <1>3, <1>4, <1>7, MakesBoth
<1>9. Makes((P \o V) \o C, (X \cup Y) \cup Z)
  BY <1>5, <1>7, <1>8, MakesBoth
<1> QED BY <1>1, <1>6, <1>9

(***************************************************************************)
(* All collectors.                                                         *)
(***************************************************************************)
\* Whatever a collector is given: its events have one item for every reading
\* that should be there, and no other.
LEMMA CollectorsMake ==
  ASSUME NEW v \in Vendor, NEW t \in TelemetryType, NEW p \in Decoded(v, t),
         p # Undecodable, v = "hpepdu" => t = "Power",
         p \in Mains => \A keys \in {p.PolyPhasePowerWatts, p.PolyPhaseVoltage,
                                     p.PolyPhaseCurrentAmps} : IsFiniteSet(keys),
         NEW last, NEW before,
         (v = "hpepdu" /\ p \in Outlet) =>
           /\ DOMAIN last = Urls["hpepdu"]["Power"]
           /\ p.Oid \in DOMAIN last => last[p.Oid] = before,
         NEW evs \in GetEventsForPayload(v, t, p, last)
  PROVE  Makes(evs, Meant(v, p, before))
<1>1. CASE v = "hpepdu"
  <2>0. t = "Power" /\ evs \in HpePduPower(p, last)
    BY <1>1 DEF GetEventsForPayload
  <2>1. p \in Outlet \cup Branch \cup Mains \cup OtherPdu
    BY <1>1 DEF Decoded
  <2>2. CASE p \in Outlet
    <3>1. p.Name = "Outlet" /\ evs = ParseOutlet(p, last)
      BY <2>0, <2>2 DEF Outlet, HpePduPower
    <3> QED BY <1>1, <2>2, <3>1, OutletMakes
  <2>3. CASE p \in Branch
    <3>1. p.Name = "Branch" /\ evs \in ParseBranch(p)
      BY <2>0, <2>3 DEF Branch, HpePduPower
    <3> QED BY <1>1, <2>3, <3>1, BranchMakes
  <2>4. CASE p \in Mains
    <3>1. p.Name = "Mains" /\ evs = ParseMain(p)
      BY <2>0, <2>4 DEF Mains, HpePduPower
    <3> QED BY <1>1, <2>4, <3>1, MainsMake
  <2>5. CASE p \in OtherPdu
    <3>1. p.Name \notin {"Outlet", "Branch", "Mains"}
      BY <2>5 DEF OtherPdu
    <3>2. evs = <<>>
      BY <2>0, <3>1 DEF HpePduPower
    <3>3. Meant("hpepdu", p, before) = {}
      BY <3>1 DEF Meant
    <3> QED BY <1>1, <3>2, <3>3, MakesNothing
  <2> QED BY <2>1, <2>2, <2>3, <2>4, <2>5
<1>2. CASE v # "hpepdu" /\ t = "Power"
  <2>1. p \in Power
    BY <1>2 DEF Decoded
  <2>2. \/ v = "gigabyte" /\ evs = GigabytePower(p)
        \/ v = "intel" /\ evs = IntelPower(p)
        \/ v = "hpe" /\ evs = HpePower(p)
        \/ v = "openbmc" /\ evs = OpenBmcPower(p)
    BY <1>2 DEF Vendor, GetEventsForPayload
  <2> QED BY <2>1, <2>2, GigabytePowerMakes, IntelPowerMakes, HpePowerMakes, OpenBmcPowerMakes
<1>3. CASE v # "hpepdu" /\ t = "Thermal"
  <2>1. p \in EnclosureThermal
    BY <1>3 DEF Decoded
  <2>2. \/ v = "gigabyte" /\ evs = FanEvent(p, TRUE) \o TemperatureEvent(p)
        \/ v = "intel" /\ evs = IntelThermal(p)
        \/ v \in {"hpe", "openbmc"} /\ evs = FanEvent(p, FALSE) \o TemperatureEvent(p)
    BY <1>3 DEF Vendor, GetEventsForPayload, GigabyteThermal, HpeThermal, OpenBmcThermal
  <2> QED BY <2>1, <2>2, ThermalMakes, IntelThermalMakes
<1> QED BY <1>1, <1>2, <1>3 DEF TelemetryType

(***************************************************************************)
(* What tells readings apart.  A payload is followed as the set of what is *)
(* in its events, <<MessageId, sensor>>.                                   *)
(***************************************************************************)
Payload(s) == s = CrayJSONPayload(s.ctx, s.dev, s.index, s.value)
\* A consumer sees no difference but that of the values.
Same(x, y) == [x EXCEPT !.value = 0] = [y EXCEPT !.value = 0]

\* The fields of a CrayJSONPayload.
LEMMA PayloadIs ==
  ASSUME NEW c, NEW d, NEW i, NEW v
  PROVE  LET s == CrayJSONPayload(c, d, i, v) IN
         Payload(s) /\ s.ctx = c /\ s.dev = d /\ s.index = i /\ s.value = v
BY DEF Payload, CrayJSONPayload

\* Without a difference, contexts and Index are the same.
LEMMA SameIs ==
  ASSUME NEW x, NEW y, Payload(x), Payload(y), Same(x, y)
  PROVE  x.ctx = y.ctx /\ x.dev = y.dev /\ x.index = y.index
<1> DEFINE r == [x EXCEPT !.value = 0]
           s == [y EXCEPT !.value = 0]
<1>1. r.ctx = x.ctx /\ r.dev = x.dev /\ r.index = x.index
  BY DEF Payload, CrayJSONPayload
<1>2. s.ctx = y.ctx /\ s.dev = y.dev /\ s.index = y.index
  BY DEF Payload, CrayJSONPayload
<1>3. r = s
  BY DEF Same
<1> HIDE DEF r, s
<1> QED BY <1>1, <1>2, <1>3

\* What a sensor array gives, under a MessageId.
Tagged(id, sensors) == {<<id, sensors[i]>> : i \in DOMAIN sensors}

\* What cannot be told apart is the same.
Told(D) ==
  /\ \A x \in D : Payload(x[2])
  /\ \A x, y \in D : x[1] = y[1] /\ Same(x[2], y[2]) => x[2] = y[2]
\* No reading of D can be taken for one of E.
Apart(D, E) == \A x \in D, y \in E : x[1] = y[1] => x[2].ctx # y[2].ctx

\* The events carry what is in D, which can be told apart.
Tells(evs, D) ==
  /\ IsSequence(evs) /\ Told(D)
  /\ \A j \in DOMAIN evs : \A h \in DOMAIN evs[j].sensors :
       <<evs[j].id, evs[j].sensors[h]>> \in D

\* No events carry nothing.
LEMMA TellsNothing == ASSUME NEW D, Told(D) PROVE Tells(<<>>, D)
<1>1. IsSequence(<<>>) /\ DOMAIN <<>> = {}
  BY DEF IsSequence
<1> QED BY <1>1 DEF Tells

\* The events of one kind and those of another behind them.
LEMMA TellsBoth ==
  ASSUME NEW s, NEW t, NEW D, NEW E, Tells(s, D), Tells(t, E), Apart(D, E)
  PROVE  Tells(s \o t, D \cup E)
<1> DEFINE r == s \o t
<1>1. IsSequence(s) /\ IsSequence(t) /\ Told(D) /\ Told(E)
  BY DEF Tells
<1>2. Behind(r, s, t)
  BY <1>1, Joined
<1> HIDE DEF r
<1>3. Told(D \cup E)
  <2>1. \A x \in D \cup E : Payload(x[2])
    BY <1>1 DEF Told
  <2>2. ASSUME NEW x \in D \cup E, NEW y \in D \cup E, x[1] = y[1], Same(x[2], y[2])
        PROVE  x[2] = y[2]
    <3>1. x[2].ctx = y[2].ctx
      BY <2>1, <2>2, SameIs
    <3>2. CASE x \in D /\ y \in D
      BY <3>2, <2>2, <1>1 DEF Told
    <3>3. CASE x \in E /\ y \in E
      BY <3>3, <2>2, <1>1 DEF Told
    <3>4. CASE x \in D /\ y \in E
      BY <3>1, <3>4, <2>2 DEF Apart
    <3>5. CASE x \in E /\ y \in D
      BY <3>1, <3>5, <2>2 DEF Apart
    <3> QED BY <3>2, <3>3, <3>4, <3>5
  <2> QED BY <2>1, <2>2 DEF Told
<1>4. ASSUME NEW j \in DOMAIN r, NEW h \in DOMAIN r[j].sensors
      PROVE  <<r[j].id, r[j].sensors[h]>> \in D \cup E
  <2>1. CASE j \in DOMAIN s /\ r[j] = s[j]
    BY <2>1 DEF Tells
  <2>2. CASE \E i \in DOMAIN t : j = Len(s) + i /\ r[j] = t[i]
    BY <2>2 DEF Tells
  <2> QED BY <2>1, <2>2, <1>2 DEF Behind
<1>5. Tells(r, D \cup E)
  BY <1>2, <1>3, <1>4 DEF Tells, Behind
<1> QED BY <1>5 DEF r

\* The event of a sensor array, or of some of its sensors.
LEMMA EventTells ==
  ASSUME NEW id, NEW sensors, NEW D, Told(D), Tagged(id, sensors) \subseteq D
  PROVE  Tells(NewEvent(id, sensors), D)
<1> DEFINE ev == [id |-> id, sensors |-> sensors, args |-> <<>>]
           s == <<ev>>
<1>1. ev.id = id /\ ev.sensors = sensors
  OBVIOUS
<1>2. NewEvent(id, sensors) = s
  BY DEF NewEvent
<1> HIDE DEF ev
<1>3. IsSequence(s) /\ DOMAIN s = {1} /\ s[1] = ev
  BY OneSequence
<1> HIDE DEF s
<1>4. \A h \in DOMAIN sensors : <<id, sensors[h]>> \in D
  BY DEF Tagged
<1>5. Tells(s, D)
  BY <1>1, <1>3, <1>4 DEF Tells
<1> QED BY <1>2, <1>5

\* The same for an event that may be left out.
LEMMA EventIfTells ==
  ASSUME NEW id, NEW sensors, NEW D, Told(D), Tagged(id, sensors) \subseteq D,
         NEW cond \in BOOLEAN
  PROVE  Tells(EventIf(cond, id, sensors), D)
BY EventTells, TellsNothing DEF EventIf

\* The sensors of the elements with certain names are some of those of all.
LEMMA NamedTagged ==
  ASSUME NEW id, NEW list \in Seq(Element), NEW names, NEW sensors,
         DOMAIN sensors = DOMAIN list
  PROVE  Tagged(id, Named(list, names, sensors)) \subseteq Tagged(id, sensors)
<1> DEFINE D == {i \in DOMAIN list : list[i].Name \in names}
           at == Ascending(D)
           s == Named(list, names, sensors)
<1>1. DOMAIN list = 1 .. Len(list) /\ Len(list) \in Nat
  OBVIOUS
<1>2. IsFiniteSet(1 .. Len(list))
  BY <1>1, FS_Interval
<1>3. D \in SUBSET Nat /\ D \subseteq 1 .. Len(list) /\ D \subseteq DOMAIN list
  BY <1>1
<1>4. IsFiniteSet(D)
  BY <1>2, <1>3, FS_Subset
<1>5. s = [k \in DOMAIN at |-> sensors[at[k]]]
  BY DEF Named
<1> HIDE DEF D
<1>6. \A k \in DOMAIN at : at[k] \in D
  BY <1>3, <1>4, AscendingOnce DEF Lists
<1> HIDE DEF at, s
<1>7. \A k \in DOMAIN s : s[k] = sensors[at[k]] /\ at[k] \in DOMAIN sensors
  BY <1>3, <1>5, <1>6
<1>8. Tagged(id, s) \subseteq Tagged(id, sensors)
  BY <1>7 DEF Tagged
<1> QED BY <1>8 DEF s

\* The elements of an array are told apart by their MemberIds, if these are
\* different and fit the index,...
LEMMA IndexTold ==
  ASSUME NEW id, NEW list, NEW sensors, DOMAIN sensors = DOMAIN list,
         \A i \in DOMAIN list : list[i].MemberId \in 0 .. 255,
         \A i, j \in DOMAIN list : list[i].MemberId = list[j].MemberId => i = j,
         \A i \in DOMAIN list : /\ Payload(sensors[i])
                                /\ sensors[i].index = Index(list[i].MemberId)
  PROVE  Told(Tagged(id, sensors))
<1>1. \A m \in 0 .. 255 : Index(m) = m
  BY CollectorAssumption DEF Index
<1>2. \A i \in DOMAIN list : sensors[i].index = list[i].MemberId
  BY <1>1
<1>3. ASSUME NEW i \in DOMAIN list, NEW j \in DOMAIN list, Same(sensors[i], sensors[j])
      PROVE  i = j
  <2>1. sensors[i].index = sensors[j].index
    BY <1>3, SameIs
  <2> QED BY <2>1, <1>2
<1> QED BY <1>3 DEF Told, Tagged

\* ...or by their names.
LEMMA NameTold ==
  ASSUME NEW id, NEW sensors, NEW name, DOMAIN sensors = DOMAIN name,
         \A i, j \in DOMAIN name : name[i] = name[j] => i = j,
         \A i \in DOMAIN name : Payload(sensors[i]) /\ sensors[i].dev = <<name[i]>>
  PROVE  Told(Tagged(id, sensors))
<1>1. ASSUME NEW i \in DOMAIN name, NEW j \in DOMAIN name, Same(sensors[i], sensors[j])
      PROVE  i = j
  <2>1. sensors[i].dev = sensors[j].dev
    BY <1>1, SameIs
  <2>2. <<name[i]>> = <<name[j]>>
    BY <2>1
  <2>3. name[i] = name[j]
    BY <2>2
  <2> QED BY <2>3
<1> QED BY <1>1 DEF Told, Tagged

\* What is in an array carries its MessageId...
LEMMA TaggedHas ==
  ASSUME NEW id, NEW sensors, NEW x \in Tagged(id, sensors)
  PROVE  x[1] = id /\ \E i \in DOMAIN sensors : x[2] = sensors[i]
BY DEF Tagged
\* ...and that tells it from others.
LEMMA IdsApart ==
  ASSUME NEW D, NEW E, \A x \in D, y \in E : x[1] # y[1]
  PROVE  Apart(D, E)
BY DEF Apart

\* What Clean says of an array.
Numbered(list) ==
  /\ \A i \in DOMAIN list : list[i].MemberId \in 0 .. 255
  /\ \A i, j \in DOMAIN list : list[i].MemberId = list[j].MemberId => i = j
ShortName(v, n) == IF v = "intel" THEN Text[n].rest ELSE n

\* The arrays of a power resource...
LEMMA CleanPower ==
  ASSUME NEW v, NEW p \in Power, Clean(v, p), p # Undecodable
  PROVE  /\ Numbered(p.PowerControl) /\ Numbered(p.PowerSupplies)
         /\ \A i, j \in DOMAIN p.Voltages :
              ShortName(v, p.Voltages[i].Name) = ShortName(v, p.Voltages[j].Name) => i = j
<1>1. /\ DOMAIN p = {"PowerControl", "PowerSupplies", "Voltages"}
      /\ p["PowerControl"] = p.PowerControl /\ p["PowerSupplies"] = p.PowerSupplies
      /\ p["Voltages"] = p.Voltages
  BY DEF Power
<1>2. Numbered(p.PowerControl)
  BY <1>1 DEF Clean, Numbered
<1>3. Numbered(p.PowerSupplies)
  BY <1>1 DEF Clean, Numbered
<1>4. \A i, j \in DOMAIN p.Voltages :
        ShortName(v, p.Voltages[i].Name) = ShortName(v, p.Voltages[j].Name) => i = j
  BY <1>1 DEF Clean, ShortName
<1> QED BY <1>2, <1>3, <1>4

\* ...and of a thermal one.
LEMMA CleanThermal ==
  ASSUME NEW v, NEW p \in EnclosureThermal, Clean(v, p), p # Undecodable
  PROVE  /\ Numbered(p.Fans)
         /\ \A i, j \in DOMAIN p.Temperatures :
              p.Temperatures[i].Name = p.Temperatures[j].Name => i = j
<1>1. DOMAIN p = {"Temperatures", "Fans"}
  BY DEF EnclosureThermal
<1>2. Numbered(p.Fans)
  BY <1>1 DEF Clean, Numbered
<1>3. \A i, j \in DOMAIN p.Temperatures :
        p.Temperatures[i].Name = p.Temperatures[j].Name => i = j
  BY <1>1 DEF Clean
<1> QED BY <1>2, <1>3

(***************************************************************************)
(* The vendors of nodes.                                                   *)
(***************************************************************************)
\* Gigabyte: controls by their index, voltages by their names.
LEMMA GigabyteTells ==
  ASSUME NEW p \in Power, Clean("gigabyte", p), p # Undecodable
  PROVE  \E D : Tells(GigabytePower(p), D) /\ \A x \in D : x[1] \in {"Power", "Voltage"}
<1> DEFINE controls == [i \in DOMAIN p.PowerControl |-> LET c == p.PowerControl[i] IN
             CrayJSONPayload(c.PhysicalContext, <<c.PhysicalContext, "_PowerControl">>,
               Index(c.MemberId), Reading("PowerControl", i, "AverageConsumedWatts"))]
           volts == [i \in DOMAIN p.Voltages |-> LET v == p.Voltages[i] IN
             CrayJSONPayload(v.PhysicalContext, <<v.Name>>, NoIndex,
               Reading("Voltages", i, "ReadingVolts"))]
           names == {"Chassis Power Control", "Server Power Control"}
           some == Named(p.PowerControl, names, controls)
           name == [i \in DOMAIN p.Voltages |-> p.Voltages[i].Name]
           C == Tagged("Power", controls)
           V == Tagged("Voltage", volts)
<1>1. p.PowerControl \in Seq(Element)
  BY DEF Power
<1>2. GigabytePower(p) = EventIf(p.PowerControl # <<>>, "Power", some)
                         \o EventIf(p.Voltages # <<>>, "Voltage", volts)
  BY DEF GigabytePower
<1>3. Numbered(p.PowerControl) /\ \A i, j \in DOMAIN name : name[i] = name[j] => i = j
  BY CleanPower DEF ShortName
<1>4. /\ DOMAIN controls = DOMAIN p.PowerControl /\ DOMAIN volts = DOMAIN name
      /\ \A i \in DOMAIN p.PowerControl :
           Payload(controls[i]) /\ controls[i].index = Index(p.PowerControl[i].MemberId)
      /\ \A i \in DOMAIN name : Payload(volts[i]) /\ volts[i].dev = <<name[i]>>
  BY PayloadIs
<1> HIDE DEF controls, volts, names, name
<1>5. Told(C) /\ Told(V)
  <2>1. Told(C)
    BY <1>3, <1>4, IndexTold DEF Numbered
  <2>2. Told(V)
    BY <1>3, <1>4, NameTold
  <2> QED BY <2>1, <2>2
<1>6. Tagged("Power", some) \subseteq C
  BY <1>1, <1>4, NamedTagged
<1>7. (\A x \in C : x[1] = "Power") /\ \A x \in V : x[1] = "Voltage"
  BY TaggedHas
<1> HIDE DEF some, C
<1> DEFINE E == EventIf(p.PowerControl # <<>>, "Power", some)
           F == EventIf(p.Voltages # <<>>, "Voltage", volts)
<1>8. Tells(E, C)
  BY <1>5, <1>6, EventIfTells
<1>9. Tells(F, V)
  BY <1>5, EventIfTells
<1> HIDE DEF V, E, F
<1>10. Tells(E \o F, C \cup V)
  BY <1>7, <1>8, <1>9, IdsApart, TellsBoth
<1> QED BY <1>2, <1>7, <1>10 DEF E, F

\* The power supplies of Intel and HPE.
LEMMA SuppliesTold ==
  ASSUME NEW p, Numbered(p.PowerSupplies), NEW id
  PROVE  LET D == Tagged(id, PowerSupplyVolts(p)) IN
         Told(D) /\ \A x \in D : x[1] = id /\ x[2].ctx = "PowerSupplyBay"
<1> DEFINE s == PowerSupplyVolts(p)
<1>1. /\ DOMAIN s = DOMAIN p.PowerSupplies
      /\ \A i \in DOMAIN p.PowerSupplies :
           /\ Payload(s[i]) /\ s[i].index = Index(p.PowerSupplies[i].MemberId)
           /\ s[i].ctx = "PowerSupplyBay"
  BY PayloadIs DEF PowerSupplyVolts
<1> HIDE DEF s
<1>2. Told(Tagged(id, s))
  BY <1>1, IndexTold DEF Numbered
<1>3. \A x \in Tagged(id, s) : x[1] = id /\ x[2].ctx = "PowerSupplyBay"
  BY <1>1, TaggedHas
<1> QED BY <1>2, <1>3 DEF s

\* Intel: the supplies share the event of the voltages, not their context.
LEMMA IntelTells ==
  ASSUME NEW p \in Power, Clean("intel", p), p # Undecodable
  PROVE  \E D : Tells(IntelPower(p), D) /\ \A x \in D : x[1] \in {"Power", "Voltage"}
<1> DEFINE controls == [i \in DOMAIN p.PowerControl |->
             CrayJSONPayload("Chassis", <<"Chassis_PowerControl">>,
               Index(p.PowerControl[i].MemberId),
               Reading("PowerControl", i, "PowerConsumedWatts"))]
           volts == [i \in DOMAIN p.Voltages |->
             CrayJSONPayload("SystemBoard", <<Text[p.Voltages[i].Name].rest>>, 0,
               Reading("Voltages", i, "ReadingVolts"))]
           supplies == PowerSupplyVolts(p)
           some == Named(p.PowerControl, {"Server Power Control"}, controls)
           name == [i \in DOMAIN p.Voltages |-> Text[p.Voltages[i].Name].rest]
           C == Tagged("Power", controls)
           S == Tagged("Voltage", supplies)
           V == Tagged("Voltage", volts)
<1>1. p.PowerControl \in Seq(Element) /\ p.Voltages \in Seq(Element)
  BY DEF Power
<1>2. IntelPower(p) = NewEvent("Power", some) \o NewEvent("Voltage", supplies \o volts)
  BY DEF IntelPower
<1>3. /\ Numbered(p.PowerControl) /\ Numbered(p.PowerSupplies)
      /\ \A i, j \in DOMAIN name : name[i] = name[j] => i = j
  BY CleanPower DEF ShortName
<1>4. /\ DOMAIN controls = DOMAIN p.PowerControl /\ DOMAIN volts = DOMAIN name
      /\ DOMAIN volts = DOMAIN p.Voltages
      /\ \A i \in DOMAIN p.PowerControl :
           Payload(controls[i]) /\ controls[i].index = Index(p.PowerControl[i].MemberId)
      /\ \A i \in DOMAIN name :
           Payload(volts[i]) /\ volts[i].dev = <<name[i]>> /\ volts[i].ctx = "SystemBoard"
  BY PayloadIs
<1>5. IsSequence(volts)
  <2>1. DOMAIN p.Voltages = 1 .. Len(p.Voltages) /\ Len(p.Voltages) \in Nat
    BY <1>1
  <2>2. volts = [i \in 1 .. Len(p.Voltages) |-> volts[i]]
    BY <2>1
  <2> HIDE DEF volts
  <2>3. \A i \in 1 .. Len(p.Voltages) : volts[i] \in {volts[j] : j \in DOMAIN volts}
    BY <2>1, <1>4
  <2> QED BY <2>1, <2>2, <2>3 DEF IsSequence
<1>6. IsSequence(supplies)
  BY SuppliesAre
<1> HIDE DEF controls, volts, name
<1>7. Told(C) /\ Told(S) /\ Told(V)
  <2>1. Told(C)
    BY <1>3, <1>4, IndexTold DEF Numbered
  <2>2. Told(V)
    BY <1>3, <1>4, NameTold
  <2> QED BY <2>1, <2>2, <1>3, SuppliesTold
<1>8. /\ \A x \in C : x[1] = "Power"
      /\ \A x \in S : x[1] = "Voltage" /\ x[2].ctx = "PowerSupplyBay"
      /\ \A x \in V : x[1] = "Voltage" /\ x[2].ctx = "SystemBoard"
  BY <1>3, <1>4, TaggedHas, SuppliesTold
<1> HIDE DEF supplies
<1>9. Tagged("Power", some) \subseteq C
  BY <1>1, <1>4, NamedTagged
<1>10. Tagged("Voltage", supplies \o volts) \subseteq S \cup V
  <2> DEFINE r == supplies \o volts
  <2>1. Behind(r, supplies, volts)
    BY <1>5, <1>6, Joined
  <2> HIDE DEF r
  <2>2. \A j \in DOMAIN r : \/ \E i \in DOMAIN supplies : r[j] = supplies[i]
                            \/ \E i \in DOMAIN volts : r[j] = volts[i]
    BY <2>1 DEF Behind
  <2>3. Tagged("Voltage", r) \subseteq S \cup V
    BY <2>2 DEF Tagged
  <2> QED BY <2>3 DEF r
<1> HIDE DEF some, C, S, V
<1>11. Told(S \cup V)
  <2>1. Apart(S, V)
    BY <1>8 DEF Apart
  <2>2. Tells(<<>>, S) /\ Tells(<<>>, V)
    BY <1>7, TellsNothing
  <2>3. Tells(<<>> \o <<>>, S \cup V)
    BY <2>1, <2>2, TellsBoth
  <2> QED BY <2>3 DEF Tells
<1> DEFINE E == NewEvent("Power", some)
           F == NewEvent("Voltage", supplies \o volts)
<1>12. Tells(E, C)
  BY <1>7, <1>9, EventTells
<1>13. Tells(F, S \cup V)
  BY <1>10, <1>11, EventTells
<1> HIDE DEF E, F
<1>14. Tells(E \o F, C \cup (S \cup V))
  <2>1. \A x \in C, y \in S \cup V : x[1] # y[1]
    BY <1>8
  <2> QED BY <2>1, <1>12, <1>13, IdsApart, TellsBoth
<1> QED BY <1>2, <1>8, <1>14 DEF E, F

\* HPE: controls and supplies by their index.
LEMMA HpeTells ==
  ASSUME NEW p \in Power, Clean("hpe", p), p # Undecodable
  PROVE  \E D : Tells(HpePower(p), D) /\ \A x \in D : x[1] \in {"Power", "Voltage"}
<1> DEFINE controls == [i \in DOMAIN p.PowerControl |->
             CrayJSONPayload("PowerControlIntake", <<"PowerIntake">>,
               Index(p.PowerControl[i].MemberId),
               Reading("PowerControl", i, "AverageConsumedWatts"))]
           supplies == PowerSupplyVolts(p)
           C == Tagged("Power", controls)
           S == Tagged("Voltage", supplies)
<1>1. HpePower(p) = EventIf(p.PowerControl # <<>>, "Power", controls)
                    \o EventIf(p.PowerSupplies # <<>>, "Voltage", supplies)
  BY DEF HpePower
<1>2. Numbered(p.PowerControl) /\ Numbered(p.PowerSupplies)
  BY CleanPower
<1>3. /\ DOMAIN controls = DOMAIN p.PowerControl
      /\ \A i \in DOMAIN p.PowerControl :
           Payload(controls[i]) /\ controls[i].index = Index(p.PowerControl[i].MemberId)
  BY PayloadIs
<1> HIDE DEF controls
<1>4. Told(C)
  BY <1>2, <1>3, IndexTold DEF Numbered
<1>5. Told(S) /\ \A x \in S : x[1] = "Voltage"
  BY <1>2, SuppliesTold
<1>6. \A x \in C : x[1] = "Power"
  BY TaggedHas
<1> HIDE DEF supplies
<1> DEFINE E == EventIf(p.PowerControl # <<>>, "Power", controls)
           F == EventIf(p.PowerSupplies # <<>>, "Voltage", supplies)
<1>7. Tells(E, C)
  BY <1>4, EventIfTells
<1>8. Tells(F, S)
  BY <1>5, EventIfTells
<1> HIDE DEF C, S, E, F
<1>9. Tells(E \o F, C \cup S)
  BY <1>5, <1>6, <1>7, <1>8, IdsApart, TellsBoth
<1> QED BY <1>1, <1>5, <1>6, <1>9 DEF E, F

\* OpenBMC's controls and supplies share a MessageId, not a context.
LEMMA OpenBmcTells ==
  ASSUME NEW p \in Power, Clean("openbmc", p), p # Undecodable
  PROVE  \E D : Tells(OpenBmcPower(p), D) /\ \A x \in D : x[1] \in {"Power", "Voltage"}
<1> DEFINE all == [i \in DOMAIN p.PowerControl |-> LET c == p.PowerControl[i] IN
             CrayJSONPayload("Chassis", <<c.Name>>, Index(c.MemberId),
               Reading("PowerControl", i, "PowerConsumedWatts"))]
           controls == Named(p.PowerControl, {"Chassis Power Control"}, all)
           supplies == [i \in DOMAIN p.PowerSupplies |-> LET s == p.PowerSupplies[i] IN
             CrayJSONPayload("PowerSupplyBay", <<s.Name>>, Index(s.MemberId),
               Reading("PowerSupplies", i, "PowerOutputWatts"))]
           volts == [i \in DOMAIN p.Voltages |->
             CrayJSONPayload("SystemBoard", <<p.Voltages[i].Name>>, 0,
               Reading("Voltages", i, "ReadingVolts"))]
           name == [i \in DOMAIN p.Voltages |-> p.Voltages[i].Name]
           C == Tagged("Power", all)
           S == Tagged("Power", supplies)
           V == Tagged("Voltage", volts)
<1>1. p.PowerControl \in Seq(Element)
  BY DEF Power
<1>2. OpenBmcPower(p) = (EventIf(controls # <<>>, "Power", controls)
                         \o EventIf(supplies # <<>>, "Power", supplies))
                        \o EventIf(volts # <<>>, "Voltage", volts)
  BY DEF OpenBmcPower
<1>3. /\ Numbered(p.PowerControl) /\ Numbered(p.PowerSupplies)
      /\ \A i, j \in DOMAIN name : name[i] = name[j] => i = j
  BY CleanPower DEF ShortName
<1>4. /\ DOMAIN all = DOMAIN p.PowerControl /\ DOMAIN supplies = DOMAIN p.PowerSupplies
      /\ DOMAIN volts = DOMAIN name
      /\ \A i \in DOMAIN p.PowerControl :
           /\ Payload(all[i]) /\ all[i].index = Index(p.PowerControl[i].MemberId)
           /\ all[i].ctx = "Chassis"
      /\ \A i \in DOMAIN p.PowerSupplies :
           /\ Payload(supplies[i]) /\ supplies[i].index = Index(p.PowerSupplies[i].MemberId)
           /\ supplies[i].ctx = "PowerSupplyBay"
      /\ \A i \in DOMAIN name : Payload(volts[i]) /\ volts[i].dev = <<name[i]>>
  BY PayloadIs
<1> HIDE DEF all, supplies, volts, name
<1>5. Told(C) /\ Told(S) /\ Told(V)
  <2>1. Told(C)
    BY <1>3, <1>4, IndexTold DEF Numbered
  <2>2. Told(S)
    BY <1>3, <1>4, IndexTold DEF Numbered
  <2>3. Told(V)
    BY <1>3, <1>4, NameTold
  <2> QED BY <2>1, <2>2, <2>3
<1>6. /\ \A x \in C : x[1] = "Power" /\ x[2].ctx = "Chassis"
      /\ \A x \in S : x[1] = "Power" /\ x[2].ctx = "PowerSupplyBay"
      /\ \A x \in V : x[1] = "Voltage"
  BY <1>4, TaggedHas
<1>7. Tagged("Power", controls) \subseteq C
  BY <1>1, <1>4, NamedTagged
<1> HIDE DEF controls, C
<1> DEFINE E == EventIf(controls # <<>>, "Power", controls)
           F == EventIf(supplies # <<>>, "Power", supplies)
           G == EventIf(volts # <<>>, "Voltage", volts)
<1>8. Tells(E, C)
  BY <1>5, <1>7, EventIfTells
<1>9. Tells(F, S)
  BY <1>5, EventIfTells
<1>10. Tells(G, V)
  BY <1>5, EventIfTells
<1> HIDE DEF S, V, E, F, G
<1>11. Tells(E \o F, C \cup S)
  <2>1. Apart(C, S)
    BY <1>6 DEF Apart
  <2> QED BY <2>1, <1>8, <1>9, TellsBoth
<1>12. Tells((E \o F) \o G, (C \cup S) \cup V)
  <2>1. \A x \in C \cup S, y \in V : x[1] # y[1]
    BY <1>6
  <2> QED BY <2>1, <1>10, <1>11, IdsApart, TellsBoth
<1> QED BY <1>2, <1>6, <1>12 DEF E, F, G

\* Fans by their index, temperatures by their names.
LEMMA ThermalTells ==
  ASSUME NEW v, NEW p \in EnclosureThermal, Clean(v, p), p # Undecodable, NEW own \in BOOLEAN
  PROVE  \E D : /\ Tells(FanEvent(p, own) \o TemperatureEvent(p), D)
                /\ \A x \in D : x[1] \in {"Fan", "Temperature"}
<1> DEFINE fans == [i \in DOMAIN p.Fans |-> LET f == p.Fans[i] IN
             CrayJSONPayload(IF own THEN f.PhysicalContext ELSE "System",
               <<f.Name>>, Index(f.MemberId), Reading("Fans", i, "Reading"))]
           temps == [i \in DOMAIN p.Temperatures |-> LET t == p.Temperatures[i] IN
             CrayJSONPayload(t.PhysicalContext, <<t.Name>>, Index(t.MemberId),
               Reading("Temperatures", i, "ReadingCelsius"))]
           name == [i \in DOMAIN p.Temperatures |-> p.Temperatures[i].Name]
           F == Tagged("Fan", fans)
           T == Tagged("Temperature", temps)
<1>1. /\ FanEvent(p, own) = EventIf(p.Fans # <<>>, "Fan", fans)
      /\ TemperatureEvent(p) = EventIf(p.Temperatures # <<>>, "Temperature", temps)
  BY DEF FanEvent, TemperatureEvent
<1>2. Numbered(p.Fans) /\ \A i, j \in DOMAIN name : name[i] = name[j] => i = j
  BY CleanThermal
<1>3. /\ DOMAIN fans = DOMAIN p.Fans /\ DOMAIN temps = DOMAIN name
      /\ \A i \in DOMAIN p.Fans :
           Payload(fans[i]) /\ fans[i].index = Index(p.Fans[i].MemberId)
      /\ \A i \in DOMAIN name : Payload(temps[i]) /\ temps[i].dev = <<name[i]>>
  BY PayloadIs
<1> HIDE DEF fans, temps, name
<1>4. Told(F) /\ Told(T)
  <2>1. Told(F)
    BY <1>2, <1>3, IndexTold DEF Numbered
  <2>2. Told(T)
    BY <1>2, <1>3, NameTold
  <2> QED BY <2>1, <2>2
<1>5. (\A x \in F : x[1] = "Fan") /\ \A x \in T : x[1] = "Temperature"
  BY TaggedHas
<1>6. Tells(FanEvent(p, own), F) /\ Tells(TemperatureEvent(p), T)
  BY <1>1, <1>4, EventIfTells
<1> HIDE DEF F, T
<1>7. Tells(FanEvent(p, own) \o TemperatureEvent(p), F \cup T)
  BY <1>5, <1>6, IdsApart, TellsBoth
<1> QED BY <1>5, <1>7

\* Intel has temperatures only.
LEMMA IntelThermalTells ==
  ASSUME NEW p \in EnclosureThermal, Clean("intel", p), p # Undecodable
  PROVE  \E D : Tells(IntelThermal(p), D) /\ \A x \in D : x[1] \in {"Fan", "Temperature"}
<1> DEFINE temps == [i \in DOMAIN p.Temperatures |->
             CrayJSONPayload("Baseboard", <<p.Temperatures[i].Name>>, 0,
               Reading("Temperatures", i, "ReadingCelsius"))]
           name == [i \in DOMAIN p.Temperatures |-> p.Temperatures[i].Name]
           T == Tagged("Temperature", temps)
<1>1. IntelThermal(p) = NewEvent("Temperature", temps)
  BY DEF IntelThermal
<1>2. \A i, j \in DOMAIN name : name[i] = name[j] => i = j
  BY CleanThermal
<1>3. /\ DOMAIN temps = DOMAIN name
      /\ \A i \in DOMAIN name : Payload(temps[i]) /\ temps[i].dev = <<name[i]>>
  BY PayloadIs
<1> HIDE DEF temps, name
<1>4. Told(T)
  BY <1>2, <1>3, NameTold
<1>5. \A x \in T : x[1] = "Temperature"
  BY TaggedHas
<1>6. Tells(IntelThermal(p), T)
  BY <1>1, <1>4, EventTells
<1> QED BY <1>5, <1>6

\* What the events of a node's payload carry can be told apart; whether it is
\* one of power or of temperatures shows in the MessageIds.
LEMMA NodesTell ==
  ASSUME NEW v \in Vendor \ {"hpepdu"}, NEW t \in TelemetryType, NEW p \in Decoded(v, t),
         p # Undecodable, Clean(v, p), NEW last, NEW evs \in GetEventsForPayload(v, t, p, last)
  PROVE  \E D : /\ Tells(evs, D)
                /\ \A x \in D : IF t = "Power" THEN x[1] \in {"Power", "Voltage"}
                                ELSE x[1] \in {"Fan", "Temperature"}
<1>1. CASE t = "Power"
  <2>1. p \in Power
    BY <1>1 DEF Decoded
  <2>2. \/ v = "gigabyte" /\ evs = GigabytePower(p)
        \/ v = "intel" /\ evs = IntelPower(p)
        \/ v = "hpe" /\ evs = HpePower(p)
        \/ v = "openbmc" /\ evs = OpenBmcPower(p)
    BY <1>1 DEF Vendor, GetEventsForPayload
  <2> QED BY <1>1, <2>1, <2>2, GigabyteTells, IntelTells, HpeTells, OpenBmcTells
<1>2. CASE t = "Thermal"
  <2>1. p \in EnclosureThermal
    BY <1>2 DEF Decoded
  <2>2. \/ v = "gigabyte" /\ evs = FanEvent(p, TRUE) \o TemperatureEvent(p)
        \/ v = "intel" /\ evs = IntelThermal(p)
        \/ v \in {"hpe", "openbmc"} /\ evs = FanEvent(p, FALSE) \o TemperatureEvent(p)
    BY <1>2 DEF Vendor, GetEventsForPayload, GigabyteThermal, HpeThermal, OpenBmcThermal
  <2> QED BY <1>2, <2>1, <2>2, ThermalTells, IntelThermalTells
<1> QED BY <1>1, <1>2 DEF TelemetryType

(***************************************************************************)
(* PDUs.  A payload's readings tell which resource they are from.          *)
(***************************************************************************)
FromPdu(p, x) ==
  \/ p \in Outlet /\ x[2].ctx = "Outlet" /\ x[2].index = Index(OidNumber[p.Oid])
  \/ p \in Branch /\ x[2].ctx = "Branch" /\ x[2].index = p.letter - 64
  \/ p \in Mains /\ x[2].ctx \in {"Phase", "Line"}

\* Readings of one MessageId each.
LEMMA SingleTells ==
  ASSUME NEW id, NEW s, Payload(s)
  PROVE  Tells(NewEvent(id, <<s>>), {<<id, s>>})
<1> DEFINE t == <<s>>
           D == {<<id, s>>}
<1>1. DOMAIN t = {1} /\ t[1] = s
  BY OneSequence
<1> HIDE DEF t
<1>2. Tagged(id, t) \subseteq D
  BY <1>1 DEF Tagged
<1>3. Told(D)
  BY DEF Told
<1> HIDE DEF D
<1>4. Tells(NewEvent(id, t), D)
  BY <1>2, <1>3, EventTells
<1> QED BY <1>4 DEF t, D

\* An outlet has one reading of each quantity,...
LEMMA OutletTells ==
  ASSUME NEW p \in Outlet, NEW last
  PROVE  \E D : Tells(ParseOutlet(p, last), D) /\ \A x \in D : FromPdu(p, x)
<1> DEFINE s(field) == CrayJSONPayload("Outlet", <<>>, Index(OidNumber[p.Oid]),
                                       Reading("Outlet", p.Oid, field))
           P == NewEvent("Power", <<s("PowerWatts")>>)
           C == NewEvent("Current", <<s("CurrentAmps")>>)
           V == NewEvent("Voltage", <<s("Voltage")>>)
           E == NewEvent("Energy", <<s("EnergykWh")>>)
           S == IF p.Oid \in DOMAIN last /\ last[p.Oid] # p.PowerState
                THEN <<[id |-> "ResourcePowerStateChanged", sensors |-> <<>>,
                        args |-> <<p.Oid, p.PowerState>>]>>
                ELSE <<>>
           X(id, field) == {<<id, s(field)>>}
           DP == X("Power", "PowerWatts")
           DC == X("Current", "CurrentAmps")
           DV == X("Voltage", "Voltage")
           DE == X("Energy", "EnergykWh")
<1>1. ParseOutlet(p, last) = (((P \o C) \o V) \o E) \o S
  BY DEF ParseOutlet
<1>2. \A field : /\ Payload(s(field)) /\ s(field).ctx = "Outlet"
                 /\ s(field).index = Index(OidNumber[p.Oid])
  BY PayloadIs
<1> HIDE DEF s
<1>3. Tells(P, DP) /\ Tells(C, DC) /\ Tells(V, DV) /\ Tells(E, DE)
  BY <1>2, SingleTells
<1>4. Tells(S, {})
  <2>1. Told({})
    BY DEF Told
  <2> DEFINE ev == [id |-> "ResourcePowerStateChanged", sensors |-> <<>>,
                    args |-> <<p.Oid, p.PowerState>>]
             r == <<ev>>
  <2>2. ev.sensors = <<>>
    OBVIOUS
  <2> HIDE DEF ev
  <2>3. IsSequence(r) /\ DOMAIN r = {1} /\ r[1] = ev
    BY OneSequence
  <2> HIDE DEF r
  <2>4. Tells(r, {})
    BY <2>1, <2>2, <2>3 DEF Tells
  <2> QED BY <2>1, <2>4, TellsNothing DEF r, ev
<1>5. /\ \A x \in DP : x[1] = "Power"
      /\ \A x \in DC : x[1] = "Current"
      /\ \A x \in DV : x[1] = "Voltage"
      /\ \A x \in DE : x[1] = "Energy"
  OBVIOUS
<1>6. \A x \in DP \cup DC \cup DV \cup DE : FromPdu(p, x)
  BY <1>2 DEF FromPdu
<1> HIDE DEF P, C, V, E, S, DP, DC, DV, DE
<1>7. Tells(P \o C, DP \cup DC)
  BY <1>3, <1>5, IdsApart, TellsBoth
<1>8. Tells((P \o C) \o V, (DP \cup DC) \cup DV)
  <2>1. \A x \in DP \cup DC, y \in DV : x[1] # y[1]
    BY <1>5
  <2> QED BY <2>1, <1>3, <1>7, IdsApart, TellsBoth
<1>9. Tells(((P \o C) \o V) \o E, ((DP \cup DC) \cup DV) \cup DE)
  <2>1. \A x \in (DP \cup DC) \cup DV, y \in DE : x[1] # y[1]
    BY <1>5
  <2> QED BY <2>1, <1>3, <1>8, IdsApart, TellsBoth
<1>10. Tells((((P \o C) \o V) \o E) \o S, (((DP \cup DC) \cup DV) \cup DE) \cup {})
  <2>1. Apart(((DP \cup DC) \cup DV) \cup DE, {})
    BY DEF Apart
  <2> QED BY <2>1, <1>4, <1>9, TellsBoth
<1> QED BY <1>1, <1>6, <1>10

\* ...so has a branch,...
LEMMA BranchTells ==
  ASSUME NEW p \in Branch, NEW evs \in ParseBranch(p)
  PROVE  \E D : Tells(evs, D) /\ \A x \in D : FromPdu(p, x)
<1> DEFINE s(field, line) == CrayJSONPayload("Branch", line, p.letter - 64,
                                             Reading("Branch", p.letter, field))
<1>1. PICK l : evs = NewEvent("Current", <<s("CurrentAmps", l)>>)
                     \o NewEvent("Energy", <<s("EnergykWh", l)>>)
  BY DEF ParseBranch
<1>2. \A field : /\ Payload(s(field, l)) /\ s(field, l).ctx = "Branch"
                 /\ s(field, l).index = p.letter - 64
  BY PayloadIs
<1> HIDE DEF s
<1> DEFINE C == NewEvent("Current", <<s("CurrentAmps", l)>>)
           E == NewEvent("Energy", <<s("EnergykWh", l)>>)
           DC == {<<"Current", s("CurrentAmps", l)>>}
           DE == {<<"Energy", s("EnergykWh", l)>>}
<1>3. Tells(C, DC) /\ Tells(E, DE)
  BY <1>2, SingleTells
<1>4. \A x \in DC, y \in DE : x[1] # y[1]
  OBVIOUS
<1>5. \A x \in DC \cup DE : FromPdu(p, x)
  BY <1>2 DEF FromPdu
<1> HIDE DEF C, E, DC, DE
<1>6. Tells(C \o E, DC \cup DE)
  BY <1>3, <1>4, IdsApart, TellsBoth
<1> QED BY <1>1, <1>5, <1>6 DEF C, E

\* The sensors of a map of phases.
PhaseSensors(keys, ctx, field) ==
  [i \in DOMAIN Ascending(keys) |->
     CrayJSONPayload(ctx, <<Ascending(keys)[i]>>, i - 1,
                     Reading("Mains", Ascending(keys)[i], field))]

\* They are told apart by their names.
LEMMA PhasesTell ==
  ASSUME NEW id, NEW keys \in SUBSET Nat, IsFiniteSet(keys), NEW ctx, NEW field
  PROVE  LET s == PhaseSensors(keys, ctx, field) IN
         /\ Tells(NewEvent(id, s), Tagged(id, s))
         /\ \A x \in Tagged(id, s) : x[1] = id /\ x[2].ctx = ctx
<1> DEFINE s == PhaseSensors(keys, ctx, field)
           names == Ascending(keys)
<1>1. \A i, j \in DOMAIN names : names[i] = names[j] => i = j
  BY AscendingOnce DEF Lists
<1>2. /\ DOMAIN s = DOMAIN names
      /\ \A i \in DOMAIN names :
           Payload(s[i]) /\ s[i].dev = <<names[i]>> /\ s[i].ctx = ctx
  BY PayloadIs DEF PhaseSensors
<1> HIDE DEF s, names
<1>3. Told(Tagged(id, s))
  BY <1>1, <1>2, NameTold
<1>4. Tells(NewEvent(id, s), Tagged(id, s))
  BY <1>3, EventTells
<1>5. \A x \in Tagged(id, s) : x[1] = id /\ x[2].ctx = ctx
  BY <1>2, TaggedHas
<1> QED BY <1>4, <1>5 DEF s

\* ...and the mains one for each phase or line.
LEMMA MainsTell ==
  ASSUME NEW p \in Mains,
         IsFiniteSet(p.PolyPhasePowerWatts), IsFiniteSet(p.PolyPhaseVoltage),
         IsFiniteSet(p.PolyPhaseCurrentAmps)
  PROVE  \E D : Tells(ParseMain(p), D) /\ \A x \in D : FromPdu(p, x)
<1> DEFINE watts == PhaseSensors(p.PolyPhasePowerWatts, "Phase", "PolyPhasePowerWatts")
           volts == PhaseSensors(p.PolyPhaseVoltage, "Phase", "PolyPhaseVoltage")
           amps == PhaseSensors(p.PolyPhaseCurrentAmps, "Line", "PolyPhaseCurrentAmps")
           P == NewEvent("Power", watts)
           V == NewEvent("Voltage", volts)
           C == NewEvent("Current", amps)
           X == Tagged("Power", watts)
           Y == Tagged("Voltage", volts)
           Z == Tagged("Current", amps)
<1>1. ParseMain(p) = (P \o V) \o C
  BY DEF ParseMain, PhaseSensors
<1>2. /\ p.PolyPhasePowerWatts \in SUBSET Nat /\ p.PolyPhaseVoltage \in SUBSET Nat
      /\ p.PolyPhaseCurrentAmps \in SUBSET Nat
  BY DEF Mains
<1>3. Tells(P, X) /\ \A x \in X : x[1] = "Power" /\ x[2].ctx = "Phase"
  BY <1>2, PhasesTell
<1>4. Tells(V, Y) /\ \A x \in Y : x[1] = "Voltage" /\ x[2].ctx = "Phase"
  BY <1>2, PhasesTell
<1>5. Tells(C, Z) /\ \A x \in Z : x[1] = "Current" /\ x[2].ctx = "Line"
  BY <1>2, PhasesTell
<1> HIDE DEF P, V, C, X, Y, Z
<1>6. Tells(P \o V, X \cup Y)
  BY <1>3, <1>4, IdsApart, TellsBoth
<1>7. Tells((P \o V) \o C, (X \cup Y) \cup Z)
  <2>1. \A x \in X \cup Y, y \in Z : x[1] # y[1]
    BY <1>3, <1>4, <1>5
  <2> QED BY <2>1, <1>5, <1>6, IdsApart, TellsBoth
<1>8. \A x \in (X \cup Y) \cup Z : FromPdu(p, x)
  BY <1>3, <1>4, <1>5 DEF FromPdu
<1> QED BY <1>1, <1>7, <1>8

\* What the events of a PDU's answer carry can be told apart.
LEMMA PdusTell ==
  ASSUME NEW p \in Decoded("hpepdu", "Power"), p # Undecodable,
         p \in Mains => \A keys \in {p.PolyPhasePowerWatts, p.PolyPhaseVoltage,
                                     p.PolyPhaseCurrentAmps} : IsFiniteSet(keys),
         NEW last, NEW evs \in GetEventsForPayload("hpepdu", "Power", p, last)
  PROVE  \E D : Tells(evs, D) /\ \A x \in D : FromPdu(p, x)
<1>1. evs \in HpePduPower(p, last)
  BY DEF GetEventsForPayload
<1>2. p \in Outlet \cup Branch \cup Mains \cup OtherPdu
  BY DEF Decoded
<1>3. CASE p \in Outlet
  <2>1. evs = ParseOutlet(p, last)
    BY <1>1, <1>3 DEF Outlet, HpePduPower
  <2> QED BY <1>3, <2>1, OutletTells
<1>4. CASE p \in Branch
  <2>1. evs \in ParseBranch(p)
    BY <1>1, <1>4 DEF Branch, HpePduPower
  <2> QED BY <1>4, <2>1, BranchTells
<1>5. CASE p \in Mains
  <2>1. evs = ParseMain(p)
    BY <1>1, <1>5 DEF Mains, HpePduPower
  <2> QED BY <1>5, <2>1, MainsTell
<1>6. CASE p \in OtherPdu
  <2>1. p.Name \notin {"Outlet", "Branch", "Mains"}
    BY <1>6 DEF OtherPdu
  <2>2. evs = <<>>
    BY <1>1, <2>1 DEF HpePduPower
  <2>3. Told({})
    BY DEF Told
  <2>4. Tells(evs, {})
    BY <2>2, <2>3, TellsNothing
  <2> QED BY <2>4
<1> QED BY <1>2, <1>3, <1>4, <1>5, <1>6

\* Readings of two resources of a PDU are told apart by context and index.
LEMMA PduApart ==
  ASSUME NEW a, NEW c, PduClean(a, c), a.payload # Undecodable, c.payload # Undecodable,
         NEW x, NEW y, FromPdu(a.payload, x), FromPdu(c.payload, y)
  PROVE  x[2].ctx # y[2].ctx \/ x[2].index # y[2].index
<1> DEFINE p == a.payload
           q == c.payload
<1>1. SUFFICES ASSUME x[2].ctx = y[2].ctx, x[2].index = y[2].index PROVE FALSE
  OBVIOUS
<1>2. CASE p \in Outlet
  <2>1. q \in Outlet
    BY <1>1, <1>2 DEF FromPdu, Outlet, Branch, Mains
  <2> QED BY <1>1, <1>2, <2>1 DEF FromPdu, PduClean, Outlet, Branch, Mains
<1>3. CASE p \in Branch
  <2>1. q \in Branch
    BY <1>1, <1>3 DEF FromPdu, Outlet, Branch, Mains
  <2>2. p.letter - 64 = q.letter - 64 /\ p.letter \in 65 .. 90 /\ q.letter \in 65 .. 90
    BY <1>1, <1>3, <2>1 DEF FromPdu, Outlet, Branch, Mains
  <2>3. p.Name = "Branch" /\ q.Name = "Branch" /\ p.letter = q.letter
    BY <1>3, <2>1, <2>2 DEF Branch
  <2> QED BY <2>3 DEF PduClean
<1>4. CASE p \in Mains
  <2>1. q \in Mains
    BY <1>1, <1>4 DEF FromPdu, Outlet, Branch, Mains
  <2> QED BY <1>4, <2>1 DEF PduClean, Mains
<1> QED BY <1>2, <1>3, <1>4 DEF FromPdu
================================================================================
