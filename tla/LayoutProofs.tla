---------------------------- MODULE LayoutProofs ----------------------------
(***************************************************************************)
(* What filter, sort and find of the tables return, for any rows.          *)
(***************************************************************************)
EXTENDS Layout, TLAPS, WellFoundedInduction, SequenceTheorems, FiniteSetTheorems

\* A non-empty set of natural numbers has a least element.
LEMMA LeastNatural ==
    ASSUME NEW S \in SUBSET Nat, S # {}
    PROVE  \E n \in S : \A m \in S : n =< m
<1> DEFINE R == OpToRel(<, Nat)
<1>1. PICK n \in S : \A m \in S : ~ (<<m, n>> \in R)
  <2> HIDE DEF R
  <2> QED
    BY NatLessThanWellFounded, WFMin DEF R
<1>2. \A m \in S : ~ (m < n)
  BY <1>1 DEF OpToRel
<1> QED
  BY <1>2

\* Induction over sequences, for a set of them.
LEMMA SequencesInSet ==
    ASSUME NEW T, NEW G, <<>> \in G,
           \A s \in Seq(T), x \in T : s \in G => Append(s, x) \in G
    PROVE  Seq(T) \subseteq G
<1> DEFINE Bad == {n \in Nat : \E s \in Seq(T) : Len(s) = n /\ s \notin G}
<1>1. Bad = {}
  <2> SUFFICES ASSUME Bad # {} PROVE FALSE
    OBVIOUS
  <2>1. PICK n \in Bad : \A m \in Bad : n =< m
    <3>1. Bad \in SUBSET Nat
      OBVIOUS
    <3> QED
      BY <3>1, LeastNatural
  <2>2. PICK s \in Seq(T) : Len(s) = n /\ s \notin G
    BY <2>1
  <2>3. s # <<>>
    BY <2>2
  <2>4. \E f \in Seq(T) : \E x \in T : s = Append(f, x)
    BY <2>3, SequenceEmptyOrAppend
  <2>5. PICK f \in Seq(T), x \in T : s = Append(f, x)
    BY <2>4
  <2>6. Len(f) \in Nat /\ Len(s) = Len(f) + 1
    BY <2>5
  <2>7. f \in G
    <3>1. Len(f) \notin Bad
      BY <2>1, <2>2, <2>6
    <3> QED
      BY <3>1, <2>6
  <2> QED
    BY <2>2, <2>5, <2>7
<1>2. ASSUME NEW s \in Seq(T) PROVE s \in G
  BY <1>1
<1> QED
  BY <1>2
-----------------------------------------------------------------------------
(* filter is defined by recursion: first that a function satisfies its     *)
(* equation, then what appending a row does.                               *)

PassedStep(rows, passing, f, i) ==
    IF i = 0 THEN <<>>
    ELSE IF rows[i] \in passing THEN Append(f[i - 1], rows[i]) ELSE f[i - 1]

LEMMA FilterEquation ==
    ASSUME NEW T, NEW rows \in Seq(T), NEW passing
    PROVE  \E f : /\ filter(rows, passing) = f[Len(rows)]
                  /\ \A i \in 0..Len(rows) : f[i] = PassedStep(rows, passing, f, i)
<1> DEFINE Step(f, i) == IF i = 0 THEN <<>>
                         ELSE IF rows[i] \in passing THEN Append(f[i - 1], rows[i]) ELSE f[i - 1]
           Passed(f, n) == f = [i \in 0..n |-> Step(f, i)]
           Bad == {n \in 0..Len(rows) : ~ \E f : Passed(f, n)}
<1>1. Bad = {}
  <2> SUFFICES ASSUME Bad # {} PROVE FALSE
    OBVIOUS
  <2>1. PICK n \in Bad : \A m \in Bad : n =< m
    <3>1. Bad \in SUBSET Nat
      OBVIOUS
    <3> QED
      BY <3>1, LeastNatural
  <2>2. CASE n = 0
    <3>1. Passed([i \in 0..0 |-> <<>>], 0)
      OBVIOUS
    <3> QED
      BY <2>1, <2>2, <3>1
  <2>3. CASE n # 0
    <3>1. PICK f : Passed(f, n - 1)
      <4> HIDE DEF Passed
      <4>1. n - 1 \in 0..Len(rows) /\ ~ (n =< n - 1)
        BY <2>1, <2>3
      <4> QED
        BY <2>1, <4>1
    <3> DEFINE g == [i \in 0..n |-> IF i = n THEN Step(f, n) ELSE f[i]]
    <3>2. ASSUME NEW i \in 0..n PROVE g[i] = Step(g, i)
      <4>1. CASE i = n
        BY <2>1, <2>3, <4>1
      <4>2. CASE i # n
        <5>1. i \in 0..(n - 1) /\ (i # 0 => i - 1 \in 0..(n - 1))
          BY <2>1, <4>2
        <5>2. f[i] = Step(f, i)
          BY <3>1, <5>1
        <5>3. g[i] = f[i] /\ (i # 0 => g[i - 1] = f[i - 1])
          BY <2>1, <4>2, <5>1
        <5> QED
          BY <5>2, <5>3
      <4> QED
        BY <4>1, <4>2
    <3>3. Passed(g, n)
      <4> DEFINE h == [i \in 0..n |-> Step(g, i)]
      <4>1. DOMAIN g = 0..n /\ DOMAIN h = 0..n
        OBVIOUS
      <4>2. \A i \in 0..n : h[i] = Step(g, i)
        OBVIOUS
      <4>3. g = h
        <5> SUFFICES \A i \in 0..n : g[i] = h[i]
          OBVIOUS
        <5> HIDE DEF g, h, Step
        <5> QED
          BY <3>2, <4>2
      <4> QED
        BY <4>3
    <3> QED
      BY <2>1, <3>3
  <2> QED
    BY <2>2, <2>3
<1> DEFINE passed == CHOOSE f : Passed(f, Len(rows))
<1>2. Passed(passed, Len(rows))
  <2>1. Len(rows) \in 0..Len(rows)
    OBVIOUS
  <2> HIDE DEF Passed
  <2> QED
    BY <1>1, <2>1
<1>3. filter(rows, passing) = passed[Len(rows)]
  BY DEF filter
<1>4. \A i \in 0..Len(rows) : passed[i] = PassedStep(rows, passing, passed, i)
  <2> HIDE DEF passed
  <2> QED
    BY <1>2 DEF PassedStep
<1> HIDE DEF passed
<1> QED
  BY <1>3, <1>4

\* The rows up to the last one, and the last one.
LEMMA FilterEmpty == ASSUME NEW passing PROVE filter(<<>>, passing) = <<>>
<1> DEFINE none == <<>>
<1>1. none \in Seq({}) /\ Len(none) = 0
  OBVIOUS
<1> HIDE DEF none
<1>2. PICK f : /\ filter(none, passing) = f[Len(none)]
               /\ \A i \in 0..Len(none) : f[i] = PassedStep(none, passing, f, i)
  BY <1>1, FilterEquation
<1>3. filter(none, passing) = <<>>
  BY <1>1, <1>2 DEF PassedStep
<1> QED
  BY <1>3 DEF none

LEMMA FilterAppend ==
    ASSUME NEW T, NEW rows \in Seq(T), NEW x \in T, NEW passing
    PROVE  filter(Append(rows, x), passing) =
               IF x \in passing THEN Append(filter(rows, passing), x) ELSE filter(rows, passing)
<1> DEFINE more == Append(rows, x)
           n == Len(rows)
<1>1. /\ more \in Seq(T) /\ n \in Nat /\ Len(more) = n + 1 /\ more[n + 1] = x
      /\ \A i \in 1..n : more[i] = rows[i]
  OBVIOUS
<1> HIDE DEF more
<1>2. PICK f : /\ filter(rows, passing) = f[n]
               /\ \A i \in 0..n : f[i] = PassedStep(rows, passing, f, i)
  BY FilterEquation
<1>3. PICK g : /\ filter(more, passing) = g[n + 1]
               /\ \A i \in 0..(n + 1) : g[i] = PassedStep(more, passing, g, i)
  BY <1>1, FilterEquation
<1> HIDE DEF n
<1> DEFINE Differ == {i \in 0..n : f[i] # g[i]}
<1>4. Differ = {}
  <2> SUFFICES ASSUME Differ # {} PROVE FALSE
    OBVIOUS
  <2>1. PICK i \in Differ : \A m \in Differ : i =< m
    <3>1. Differ \in SUBSET Nat
      BY <1>1
    <3> QED
      BY <3>1, LeastNatural
  <2>2. f[i] = PassedStep(rows, passing, f, i) /\ g[i] = PassedStep(more, passing, g, i)
    BY <1>1, <1>2, <1>3, <2>1
  <2>3. CASE i = 0
    BY <2>1, <2>2, <2>3 DEF PassedStep
  <2>4. CASE i # 0
    <3>1. i - 1 \in 0..n /\ ~ (i =< i - 1) /\ i \in 1..n
      BY <1>1, <2>1, <2>4
    <3>2. f[i - 1] = g[i - 1] /\ rows[i] = more[i]
      BY <1>1, <2>1, <3>1
    <3> QED
      BY <2>1, <2>2, <3>2 DEF PassedStep
  <2> QED
    BY <2>3, <2>4
<1>5. g[n] = f[n]
  BY <1>1, <1>4
<1>6. g[n + 1] = IF x \in passing THEN Append(g[n], x) ELSE g[n]
  BY <1>1, <1>3 DEF PassedStep
<1> QED
  BY <1>2, <1>3, <1>5, <1>6 DEF more

LEMMA AppendSet ==
    ASSUME NEW T, NEW s \in Seq(T), NEW x
    PROVE  ToSet(Append(s, x)) = ToSet(s) \cup {x}
<1>1. Len(s) \in Nat /\ Len(Append(s, x)) = Len(s) + 1
  OBVIOUS
<1>2. \A i \in 1..(Len(s) + 1) : Append(s, x)[i] = IF i =< Len(s) THEN s[i] ELSE x
  OBVIOUS
<1>3. DOMAIN s = 1..Len(s) /\ DOMAIN Append(s, x) = 1..(Len(s) + 1)
  OBVIOUS
<1> DEFINE t == Append(s, x)
<1> HIDE DEF t
<1>4. ToSet(t) \subseteq ToSet(s) \cup {x}
  BY <1>1, <1>2, <1>3 DEF ToSet, t
<1>5. ASSUME NEW i \in 1..Len(s) PROVE s[i] \in ToSet(t)
  <2>1. t[i] = s[i] /\ i \in DOMAIN t
    BY <1>1, <1>2, <1>3 DEF t
  <2> QED
    BY <2>1 DEF ToSet
<1>6. x \in ToSet(t)
  <2>1. t[Len(s) + 1] = x /\ Len(s) + 1 \in DOMAIN t
    BY <1>1, <1>2, <1>3 DEF t
  <2> QED
    BY <2>1 DEF ToSet
<1> QED
  BY <1>3, <1>4, <1>5, <1>6 DEF ToSet, t

\* A filter keeps exactly the rows that pass.
LEMMA FilterRows ==
    ASSUME NEW T, NEW rows \in Seq(T), NEW passing
    PROVE  /\ filter(rows, passing) \in Seq(T)
           /\ ToSet(filter(rows, passing)) = ToSet(rows) \cap passing
<1> DEFINE Fits(s) == filter(s, passing) \in Seq(T) /\ ToSet(filter(s, passing)) = ToSet(s) \cap passing
           G == {s \in Seq(T) : Fits(s)}
<1>1. <<>> \in G
  <2>1. filter(<<>>, passing) = <<>>
    BY FilterEmpty
  <2>2. <<>> \in Seq(T) /\ ToSet(<<>>) = {}
    BY DEF ToSet
  <2>3. Fits(<<>>)
    BY <2>1, <2>2
  <2> HIDE DEF Fits
  <2> QED
    BY <2>2, <2>3
<1>2. ASSUME NEW s \in Seq(T), NEW x \in T, s \in G PROVE Append(s, x) \in G
  <2>1. Fits(s)
    BY <1>2
  <2> DEFINE f == filter(s, passing)
  <2>2. f \in Seq(T) /\ ToSet(f) = ToSet(s) \cap passing
    BY <2>1
  <2>3. filter(Append(s, x), passing) = IF x \in passing THEN Append(f, x) ELSE f
    BY FilterAppend
  <2>4. ToSet(Append(s, x)) = ToSet(s) \cup {x}
    BY AppendSet
  <2> HIDE DEF f
  <2>5. ToSet(Append(f, x)) = ToSet(f) \cup {x} /\ Append(f, x) \in Seq(T)
    BY <2>2, AppendSet
  <2>6. Append(s, x) \in Seq(T)
    OBVIOUS
  <2>7. CASE x \in passing
    <3>1. filter(Append(s, x), passing) = Append(f, x)
      BY <2>3, <2>7
    <3>2. ToSet(Append(f, x)) = ToSet(Append(s, x)) \cap passing
      BY <2>2, <2>4, <2>5, <2>7
    <3> QED
      BY <2>5, <2>6, <3>1, <3>2
  <2>8. CASE x \notin passing
    <3>1. filter(Append(s, x), passing) = f
      BY <2>3, <2>8
    <3>2. ToSet(f) = ToSet(Append(s, x)) \cap passing
      BY <2>2, <2>4, <2>8
    <3> QED
      BY <2>2, <2>6, <3>1, <3>2
  <2> QED
    BY <2>7, <2>8
<1> HIDE DEF G
<1>3. rows \in G
  BY <1>1, <1>2, SequencesInSet
<1> QED
  BY <1>3 DEF G

\* It leaves alone what passes entirely, and nothing of what does not.
LEMMA FilterAll ==
    ASSUME NEW T, NEW rows \in Seq(T), NEW passing, ToSet(rows) \subseteq passing
    PROVE  filter(rows, passing) = rows
<1> DEFINE G == {s \in Seq(T) : ToSet(s) \subseteq passing => filter(s, passing) = s}
<1>1. <<>> \in G
  BY FilterEmpty
<1>2. ASSUME NEW s \in Seq(T), NEW x \in T, s \in G PROVE Append(s, x) \in G
  <2>1. ToSet(Append(s, x)) = ToSet(s) \cup {x} /\ Append(s, x) \in Seq(T)
    BY AppendSet
  <2>2. x \in passing => filter(Append(s, x), passing) = Append(filter(s, passing), x)
    BY FilterAppend
  <2> QED
    BY <1>2, <2>1, <2>2
<1> HIDE DEF G
<1>3. rows \in G
  BY <1>1, <1>2, SequencesInSet
<1> QED
  BY <1>3 DEF G

LEMMA FilterNone ==
    ASSUME NEW T, NEW rows \in Seq(T), NEW passing, ToSet(rows) \cap passing = {}
    PROVE  filter(rows, passing) = <<>>
<1>1. filter(rows, passing) \in Seq(T) /\ ToSet(filter(rows, passing)) = {}
  BY FilterRows
<1> DEFINE f == filter(rows, passing)
<1> HIDE DEF f
<1>2. f # <<>> => f[1] \in ToSet(f)
  BY <1>1 DEF ToSet, f
<1> QED
  BY <1>1, <1>2 DEF f

\* Only which of the rows pass counts.
LEMMA FilterSame ==
    ASSUME NEW T, NEW rows \in Seq(T), NEW A, NEW B, ToSet(rows) \cap A = ToSet(rows) \cap B
    PROVE  filter(rows, A) = filter(rows, B)
<1> DEFINE G == {s \in Seq(T) : ToSet(s) \cap A = ToSet(s) \cap B => filter(s, A) = filter(s, B)}
<1>1. <<>> \in G
  BY FilterEmpty
<1>2. ASSUME NEW s \in Seq(T), NEW x \in T, s \in G PROVE Append(s, x) \in G
  <2>1. ToSet(Append(s, x)) = ToSet(s) \cup {x} /\ Append(s, x) \in Seq(T)
    BY AppendSet
  <2>2. /\ filter(Append(s, x), A) = IF x \in A THEN Append(filter(s, A), x) ELSE filter(s, A)
        /\ filter(Append(s, x), B) = IF x \in B THEN Append(filter(s, B), x) ELSE filter(s, B)
    BY FilterAppend
  <2>3. SUFFICES ASSUME ToSet(Append(s, x)) \cap A = ToSet(Append(s, x)) \cap B
                 PROVE  filter(Append(s, x), A) = filter(Append(s, x), B)
    BY <2>1
  <2>4. ToSet(s) \cap A = ToSet(s) \cap B
    <3>1. ASSUME NEW y \in ToSet(s) PROVE y \in A <=> y \in B
      BY <2>1, <2>3
    <3> QED
      BY <3>1
  <2>5. filter(s, A) = filter(s, B) /\ (x \in A <=> x \in B)
    BY <1>2, <2>1, <2>3, <2>4
  <2> QED
    BY <2>2, <2>5
<1> HIDE DEF G
<1>3. rows \in G
  BY <1>1, <1>2, SequencesInSet
<1> QED
  BY <1>3 DEF G

LEMMA FilterTwice ==
    ASSUME NEW T, NEW rows \in Seq(T), NEW A, NEW B
    PROVE  filter(filter(rows, A), B) = filter(rows, A \cap B)
<1> DEFINE G == {s \in Seq(T) : filter(filter(s, A), B) = filter(s, A \cap B)}
<1>1. <<>> \in G
  BY FilterEmpty
<1>2. ASSUME NEW s \in Seq(T), NEW x \in T, s \in G PROVE Append(s, x) \in G
  <2>1. /\ filter(Append(s, x), A) = IF x \in A THEN Append(filter(s, A), x) ELSE filter(s, A)
        /\ filter(Append(s, x), A \cap B) =
               IF x \in A \cap B THEN Append(filter(s, A \cap B), x) ELSE filter(s, A \cap B)
    BY FilterAppend
  <2>2. filter(s, A) \in Seq(T)
    BY FilterRows
  <2>3. filter(Append(filter(s, A), x), B) =
            IF x \in B THEN Append(filter(filter(s, A), B), x) ELSE filter(filter(s, A), B)
    BY <2>2, FilterAppend
  <2>4. filter(filter(s, A), B) = filter(s, A \cap B) /\ Append(s, x) \in Seq(T)
    BY <1>2
  <2>5. CASE x \in A /\ x \in B
    BY <2>1, <2>3, <2>4, <2>5
  <2>6. CASE x \in A /\ x \notin B
    BY <2>1, <2>3, <2>4, <2>6
  <2>7. CASE x \notin A
    BY <2>1, <2>4, <2>7
  <2> QED
    BY <2>5, <2>6, <2>7
<1> HIDE DEF G
<1>3. rows \in G
  BY <1>1, <1>2, SequencesInSet
<1> QED
  BY <1>3 DEF G

LEMMA FilterConcat ==
    ASSUME NEW T, NEW rows \in Seq(T), NEW more \in Seq(T), NEW A
    PROVE  filter(rows \o more, A) = filter(rows, A) \o filter(more, A)
<1>1. filter(rows, A) \in Seq(T)
  BY FilterRows
<1> DEFINE G == {s \in Seq(T) : filter(rows \o s, A) = filter(rows, A) \o filter(s, A)}
<1>2. <<>> \in G
  <2>1. rows \o <<>> = rows /\ filter(rows, A) \o <<>> = filter(rows, A) /\ <<>> \in Seq(T)
    BY <1>1, ConcatEmptySeq
  <2> QED
    BY <2>1, FilterEmpty
<1>3. ASSUME NEW s \in Seq(T), NEW x \in T, s \in G PROVE Append(s, x) \in G
  <2>1. rows \o Append(s, x) = Append(rows \o s, x) /\ rows \o s \in Seq(T) /\ Append(s, x) \in Seq(T)
    OBVIOUS
  <2>2. filter(s, A) \in Seq(T)
    BY FilterRows
  <2>3. filter(rows, A) \o Append(filter(s, A), x) = Append(filter(rows, A) \o filter(s, A), x)
    BY <1>1, <2>2
  <2>4. filter(Append(s, x), A) = IF x \in A THEN Append(filter(s, A), x) ELSE filter(s, A)
    BY FilterAppend
  <2>5. filter(Append(rows \o s, x), A) = IF x \in A THEN Append(filter(rows \o s, A), x) ELSE filter(rows \o s, A)
    BY <2>1, FilterAppend
  <2>6. filter(rows \o s, A) = filter(rows, A) \o filter(s, A)
    BY <1>3
  <2>7. filter(rows \o Append(s, x), A) = filter(rows, A) \o filter(Append(s, x), A)
    <3>1. CASE x \in A
      BY <2>1, <2>3, <2>4, <2>5, <2>6, <3>1
    <3>2. CASE x \notin A
      BY <2>1, <2>4, <2>5, <2>6, <3>2
    <3> QED
      BY <3>1, <3>2
  <2> QED
    BY <2>1, <2>7
<1> HIDE DEF G
<1>4. more \in G
  BY <1>2, <1>3, SequencesInSet
<1> QED
  BY <1>4 DEF G
-----------------------------------------------------------------------------
(* Rows that differ in a column.                                           *)

Distinct(rows, key) == \A i, j \in DOMAIN rows : rows[i][key] = rows[j][key] => i = j

LEMMA DistinctAppend ==
    ASSUME NEW T, NEW s \in Seq(T), NEW x \in T, NEW key
    PROVE  Distinct(Append(s, x), key) <=> Distinct(s, key) /\ \A r \in ToSet(s) : r[key] # x[key]
<1> DEFINE t == Append(s, x)
           n == Len(s)
<1>1. /\ n \in Nat /\ DOMAIN s = 1..n /\ DOMAIN t = 1..(n + 1) /\ t[n + 1] = x
      /\ \A i \in 1..n : t[i] = s[i]
  OBVIOUS
<1> HIDE DEF t, n
<1>2. ASSUME Distinct(t, key) PROVE Distinct(s, key) /\ \A r \in ToSet(s) : r[key] # x[key]
  <2>1. ASSUME NEW i \in 1..n, NEW j \in 1..n, s[i][key] = s[j][key] PROVE i = j
    BY <1>1, <1>2, <2>1 DEF Distinct
  <2>2. ASSUME NEW i \in 1..n PROVE s[i][key] # x[key]
    <3>1. i # n + 1 /\ i \in DOMAIN t /\ n + 1 \in DOMAIN t
      BY <1>1
    <3> QED
      BY <1>1, <1>2, <3>1 DEF Distinct
  <2> QED
    BY <1>1, <2>1, <2>2 DEF Distinct, ToSet
<1>3. ASSUME Distinct(s, key), \A r \in ToSet(s) : r[key] # x[key] PROVE Distinct(t, key)
  <2> SUFFICES ASSUME NEW i \in 1..(n + 1), NEW j \in 1..(n + 1), t[i][key] = t[j][key] PROVE i = j
    BY <1>1 DEF Distinct
  <2>1. \A k \in 1..n : s[k][key] # x[key]
    BY <1>1, <1>3 DEF ToSet
  <2>2. CASE i \in 1..n /\ j \in 1..n
    BY <1>1, <1>3, <2>2 DEF Distinct
  <2>3. CASE i = n + 1 /\ j \in 1..n
    BY <1>1, <2>1, <2>3
  <2>4. CASE i \in 1..n /\ j = n + 1
    BY <1>1, <2>1, <2>4
  <2>5. CASE i = n + 1 /\ j = n + 1
    BY <2>5
  <2> QED
    BY <1>1, <2>2, <2>3, <2>4, <2>5
<1> QED
  BY <1>2, <1>3 DEF t

LEMMA FilterDistinct ==
    ASSUME NEW T, NEW rows \in Seq(T), NEW A, NEW key, Distinct(rows, key)
    PROVE  Distinct(filter(rows, A), key)
<1> DEFINE G == {s \in Seq(T) : Distinct(s, key) => Distinct(filter(s, A), key)}
<1>1. <<>> \in G
  BY FilterEmpty DEF Distinct
<1>2. ASSUME NEW s \in Seq(T), NEW x \in T, s \in G PROVE Append(s, x) \in G
  <2>1. Append(s, x) \in Seq(T)
    OBVIOUS
  <2>2. SUFFICES ASSUME Distinct(Append(s, x), key) PROVE Distinct(filter(Append(s, x), A), key)
    BY <2>1
  <2>3. Distinct(s, key) /\ \A r \in ToSet(s) : r[key] # x[key]
    BY <2>2, DistinctAppend
  <2>4. Distinct(filter(s, A), key)
    BY <1>2, <2>3
  <2>5. filter(s, A) \in Seq(T) /\ ToSet(filter(s, A)) \subseteq ToSet(s)
    BY FilterRows
  <2>6. Distinct(Append(filter(s, A), x), key)
    BY <2>3, <2>4, <2>5, DistinctAppend
  <2>7. filter(Append(s, x), A) = IF x \in A THEN Append(filter(s, A), x) ELSE filter(s, A)
    BY FilterAppend
  <2> QED
    BY <2>4, <2>6, <2>7
<1> HIDE DEF G
<1>3. rows \in G
  BY <1>1, <1>2, SequencesInSet
<1> QED
  BY <1>3 DEF G
-----------------------------------------------------------------------------
(* sort: Before is a strict total order of the positions, so that a row's  *)
(* place, one more than the number of positions before it, is its own.     *)

Before(j, i, rows, tableSort) ==
    Precedes(rows[j], rows[i], tableSort) \/ (j < i /\ ~Precedes(rows[i], rows[j], tableSort))

\* The columns that are compared hold numbers.
Comparable(rows, tableSort) == \A i \in DOMAIN rows : rows[i][tableSort.sortBy] \in Int

LEMMA BeforeOrders ==
    ASSUME NEW T, NEW rows \in Seq(T), NEW tableSort, Comparable(rows, tableSort),
           NEW i \in DOMAIN rows, NEW j \in DOMAIN rows
    PROVE  /\ ~Before(i, i, rows, tableSort)
           /\ i # j => Before(i, j, rows, tableSort) \/ Before(j, i, rows, tableSort)
           /\ \A k \in DOMAIN rows :
                Before(k, i, rows, tableSort) /\ Before(i, j, rows, tableSort) => Before(k, j, rows, tableSort)
<1> DEFINE v(k) == rows[k][tableSort.sortBy]
<1>1. DOMAIN rows \subseteq Int /\ \A k \in DOMAIN rows : v(k) \in Int
  BY DEF Comparable
<1>2. CASE tableSort.sortDirection = "ascending"
  <2>1. \A a, b \in DOMAIN rows : Before(a, b, rows, tableSort) <=> v(a) < v(b) \/ (a < b /\ ~(v(b) < v(a)))
    BY <1>2 DEF Before, Precedes
  <2> HIDE DEF v
  <2> QED
    BY <1>1, <2>1
<1>3. CASE tableSort.sortDirection # "ascending"
  <2>1. \A a, b \in DOMAIN rows : Before(a, b, rows, tableSort) <=> v(a) > v(b) \/ (a < b /\ ~(v(b) > v(a)))
    BY <1>3 DEF Before, Precedes
  <2> HIDE DEF v
  <2> QED
    BY <1>1, <2>1
<1> QED
  BY <1>2, <1>3

\* Places are numbers of positions, and follow the order.
LEMMA Places ==
    ASSUME NEW T, NEW rows \in Seq(T), NEW tableSort, Comparable(rows, tableSort)
    PROVE  /\ \A i \in DOMAIN rows : placeOf(i, rows, tableSort) \in 1..Len(rows)
           /\ \A i, j \in DOMAIN rows : Before(i, j, rows, tableSort) =>
                placeOf(i, rows, tableSort) < placeOf(j, rows, tableSort)
<1> DEFINE B(i) == {j \in DOMAIN rows : Before(j, i, rows, tableSort)}
           n == Len(rows)
<1>1. DOMAIN rows = 1..n /\ n \in Nat
  OBVIOUS
<1>2. IsFiniteSet(DOMAIN rows) /\ Cardinality(DOMAIN rows) = n
  <2> HIDE DEF n
  <2>1. 1 \in Int /\ n \in Int
    BY <1>1
  <2>2. IsFiniteSet(1..n) /\ Cardinality(1..n) = IF 1 > n THEN 0 ELSE n - 1 + 1
    BY <2>1, FS_Interval
  <2>3. Cardinality(1..n) = n
    BY <1>1, <2>2
  <2> QED
    BY <1>1, <2>2, <2>3
<1>3. \A i \in DOMAIN rows : placeOf(i, rows, tableSort) = 1 + Cardinality(B(i))
  BY DEF placeOf, Before
<1>4. \A i \in DOMAIN rows : i \notin B(i)
  BY BeforeOrders
<1>5. ASSUME NEW i \in DOMAIN rows, NEW j \in DOMAIN rows, Before(i, j, rows, tableSort)
      PROVE  B(i) \subseteq B(j) /\ i \in B(j)
  BY <1>5, BeforeOrders
<1> HIDE DEF n
<1>6. ASSUME NEW S \in SUBSET DOMAIN rows, NEW R \in SUBSET S, NEW x \in S, x \notin R
      PROVE  Cardinality(R) \in Nat /\ Cardinality(S) \in Nat /\ Cardinality(R) < Cardinality(S)
  <2>1. IsFiniteSet(S) /\ IsFiniteSet(R)
    BY <1>2, <1>6, FS_Subset
  <2>2. Cardinality(R) \in Nat /\ Cardinality(S) \in Nat
    BY <2>1, FS_CardinalityType
  <2>3. Cardinality(R) <= Cardinality(S) /\ (Cardinality(S) = Cardinality(R) => S = R)
    BY <2>1, FS_Subset
  <2> QED
    BY <1>6, <2>2, <2>3
<1> DEFINE D == DOMAIN rows
<1>7. \A i \in D : B(i) \in SUBSET D
  OBVIOUS
<1> HIDE DEF B
<1>8. ASSUME NEW i \in D PROVE placeOf(i, rows, tableSort) \in 1..n
  <2>1. Cardinality(B(i)) \in Nat /\ Cardinality(B(i)) < Cardinality(D)
    BY <1>4, <1>6, <1>7
  <2> QED
    BY <1>1, <1>2, <1>3, <2>1
<1>9. ASSUME NEW i \in D, NEW j \in D, Before(i, j, rows, tableSort)
      PROVE  placeOf(i, rows, tableSort) < placeOf(j, rows, tableSort)
  <2>1. B(i) \in SUBSET B(j) /\ i \in B(j) /\ i \notin B(i) /\ B(j) \in SUBSET D
    BY <1>4, <1>5, <1>7, <1>9
  <2>2. Cardinality(B(i)) \in Nat /\ Cardinality(B(j)) \in Nat /\ Cardinality(B(i)) < Cardinality(B(j))
    BY <1>6, <2>1
  <2> QED
    BY <1>3, <2>2
<1> QED
  BY <1>8, <1>9 DEF n

\* Every place is that of one row.
LEMMA SortPlaces ==
    ASSUME NEW T, NEW rows \in Seq(T), NEW tableSort, Comparable(rows, tableSort)
    PROVE  LET D == DOMAIN rows
           IN  /\ \A i \in D : placeOf(i, rows, tableSort) \in D
               /\ \A i, j \in D : placeOf(i, rows, tableSort) = placeOf(j, rows, tableSort) => i = j
               /\ \A k \in D : \E i \in D : placeOf(i, rows, tableSort) = k /\ sort(rows, tableSort)[k] = rows[i]
<1> DEFINE D == DOMAIN rows
           place(i) == placeOf(i, rows, tableSort)
           f == [i \in D |-> place(i)]
           at(k) == CHOOSE i \in D : place(i) = k
<1>1. D = 1..Len(rows) /\ Len(rows) \in Nat
  OBVIOUS
<1>2. \A i \in D : place(i) \in D
  BY <1>1, Places
<1>3. ASSUME NEW i \in D, NEW j \in D, place(i) = place(j) PROVE i = j
  <2>1. place(i) \in Int /\ place(j) \in Int
    BY <1>1, <1>2
  <2>2. ~(place(i) < place(j)) /\ ~(place(j) < place(i))
    BY <1>3, <2>1
  <2>3. ~Before(i, j, rows, tableSort) /\ ~Before(j, i, rows, tableSort)
    BY <2>2, Places
  <2> QED
    BY <2>3, BeforeOrders
<1>4. f \in Injection(D, D)
  <2>1. f \in [D -> D]
    BY <1>2
  <2>2. IsInjective(f)
    BY <1>3 DEF IsInjective
  <2> HIDE DEF f
  <2> QED
    BY <2>1, <2>2 DEF Injection
<1>5. f \in Surjection(D, D)
  <2>1. IsFiniteSet(D)
    BY <1>1, FS_Interval
  <2> HIDE DEF f, D
  <2> QED
    BY <1>4, <2>1, FS_Injection
<1>6. ASSUME NEW k \in D PROVE at(k) \in D /\ place(at(k)) = k
  <2>1. \E i \in D : f[i] = k
    <3> HIDE DEF f, D
    <3> QED
      BY <1>5 DEF Surjection
  <2>2. \E i \in D : place(i) = k
    BY <2>1
  <2> HIDE DEF place
  <2> QED
    BY <2>2
<1>7. ASSUME NEW k \in D PROVE sort(rows, tableSort)[k] = rows[at(k)]
  BY DEF sort
<1>8. ASSUME NEW k \in D PROVE \E i \in D : place(i) = k /\ sort(rows, tableSort)[k] = rows[i]
  <2>1. at(k) \in D /\ place(at(k)) = k /\ sort(rows, tableSort)[k] = rows[at(k)]
    BY <1>6, <1>7
  <2> HIDE DEF at, place, D
  <2> QED
    BY <2>1
<1> QED
  BY <1>2, <1>3, <1>8

\* sort returns the rows in another order, and in the order of the column.
LEMMA SortRows ==
    ASSUME NEW T, NEW rows \in Seq(T), NEW tableSort, Comparable(rows, tableSort)
    PROVE  /\ sort(rows, tableSort) \in Seq(T)
           /\ Len(sort(rows, tableSort)) = Len(rows)
           /\ ToSet(sort(rows, tableSort)) = ToSet(rows)
           /\ SortedBy(sort(rows, tableSort), tableSort)
<1> DEFINE D == DOMAIN rows
           place(i) == placeOf(i, rows, tableSort)
           at(k) == CHOOSE i \in D : place(i) = k
           s == sort(rows, tableSort)
<1>1. D = 1..Len(rows) /\ Len(rows) \in Nat
  OBVIOUS
<1>2. \A i \in D : place(i) \in D
  BY SortPlaces
<1>3. ASSUME NEW i \in D, NEW j \in D, place(i) = place(j) PROVE i = j
  BY <1>3, SortPlaces
<1>6. ASSUME NEW k \in D PROVE at(k) \in D /\ place(at(k)) = k
  <2>1. \E i \in D : place(i) = k
    BY SortPlaces
  <2> HIDE DEF place
  <2> QED
    BY <2>1
<1>7. s = [k \in D |-> rows[at(k)]]
  BY DEF sort
<1>8. \A i \in D : rows[i] \in T
  OBVIOUS
<1>9. s \in Seq(T) /\ Len(s) = Len(rows) /\ DOMAIN s = D /\ \A k \in D : s[k] = rows[at(k)]
  <2> HIDE DEF at, s
  <2>1. s = [k \in 1..Len(rows) |-> rows[at(k)]] /\ \A k \in 1..Len(rows) : rows[at(k)] \in T
    BY <1>1, <1>6, <1>7, <1>8
  <2> QED
    BY <1>1, <2>1
<1>10. ToSet(s) = ToSet(rows)
  <2>1. ToSet(s) \subseteq ToSet(rows)
    <3> HIDE DEF at, s
    <3> QED
      BY <1>6, <1>9 DEF ToSet
  <2>2. ASSUME NEW i \in D PROVE rows[i] \in ToSet(s)
    <3>1. place(i) \in D /\ at(place(i)) = i
      <4>1. place(i) \in D
        BY <1>2
      <4> HIDE DEF place, at, D
      <4>2. at(place(i)) \in D /\ place(at(place(i))) = place(i)
        BY <1>6, <4>1
      <4> QED
        BY <1>3, <4>1, <4>2
    <3> HIDE DEF at, s, place
    <3> QED
      BY <1>9, <3>1 DEF ToSet
  <2> QED
    BY <2>1, <2>2 DEF ToSet
<1>11. SortedBy(s, tableSort)
  <2> SUFFICES ASSUME NEW k \in D, NEW l \in D, k < l
               PROVE  IF tableSort.sortDirection = "ascending"
                      THEN s[k][tableSort.sortBy] <= s[l][tableSort.sortBy]
                      ELSE s[k][tableSort.sortBy] >= s[l][tableSort.sortBy]
    <3> HIDE DEF s, D
    <3> QED
      BY <1>9 DEF SortedBy
  <2> DEFINE a == at(k)
             b == at(l)
  <2>1. a \in D /\ b \in D /\ place(a) = k /\ place(b) = l
    BY <1>6
  <2> HIDE DEF a, b
  <2>2. ~Before(b, a, rows, tableSort) /\ a # b
    <3>1. k \in Int /\ l \in Int /\ ~(l < k)
      BY <1>1
    <3>2. Before(b, a, rows, tableSort) => place(b) < place(a)
      BY <2>1, Places
    <3> HIDE DEF place
    <3> QED
      BY <2>1, <3>1, <3>2
  <2>3. ~Precedes(rows[b], rows[a], tableSort)
    BY <2>2 DEF Before
  <2>4. rows[a][tableSort.sortBy] \in Int /\ rows[b][tableSort.sortBy] \in Int
    BY <2>1 DEF Comparable
  <2>5. s[k] = rows[a] /\ s[l] = rows[b]
    <3> HIDE DEF s, at
    <3> QED
      BY <1>9 DEF a, b
  <2> HIDE DEF s
  <2> QED
    BY <2>3, <2>4, <2>5 DEF Precedes
<1> QED
  BY <1>9, <1>10, <1>11

LEMMA SortDistinct ==
    ASSUME NEW T, NEW rows \in Seq(T), NEW tableSort, Comparable(rows, tableSort), NEW key, Distinct(rows, key)
    PROVE  Distinct(sort(rows, tableSort), key)
<1> DEFINE D == DOMAIN rows
           s == sort(rows, tableSort)
<1>1. DOMAIN s = D
  BY DEF sort
<1> SUFFICES ASSUME NEW k \in D, NEW l \in D, s[k][key] = s[l][key] PROVE k = l
  <2> HIDE DEF s
  <2> QED
    BY <1>1 DEF Distinct, s
<1>2. PICK i \in D : placeOf(i, rows, tableSort) = k /\ s[k] = rows[i]
  BY SortPlaces
<1>3. PICK j \in D : placeOf(j, rows, tableSort) = l /\ s[l] = rows[j]
  BY SortPlaces
<1>4. i = j
  <2> HIDE DEF s
  <2> QED
    BY <1>2, <1>3 DEF Distinct
<1> QED
  BY <1>2, <1>3, <1>4

\* find returns a row with the value asked for, if there is one.
LEMMA FindRow ==
    ASSUME NEW T, NEW rows \in Seq(T), NEW key, NEW id
    PROVE  IF \E r \in ToSet(rows) : r[key] = id
           THEN find(rows, key, id) \in ToSet(rows) /\ find(rows, key, id)[key] = id
           ELSE find(rows, key, id) = NoRow
<1> DEFINE found == {i \in DOMAIN rows : rows[i][key] = id}
<1>1. DOMAIN rows = 1..Len(rows) /\ Len(rows) \in Nat
  OBVIOUS
<1>2. CASE found = {}
  <2>1. find(rows, key, id) = NoRow
    BY <1>2 DEF find
  <2>2. ~ \E r \in ToSet(rows) : r[key] = id
    BY <1>2 DEF ToSet
  <2> QED
    BY <2>1, <2>2
<1>3. CASE found # {}
  <2> DEFINE first == CHOOSE i \in found : \A j \in found : i <= j
  <2>1. first \in found
    <3>1. found \in SUBSET Nat
      BY <1>1
    <3>2. \E i \in found : \A j \in found : i =< j
      BY <1>3, <3>1, LeastNatural
    <3> HIDE DEF found
    <3> QED
      BY <3>2
  <2>2. find(rows, key, id) = rows[first]
    BY <1>3 DEF find
  <2> HIDE DEF first
  <2>3. rows[first] \in ToSet(rows) /\ rows[first][key] = id
    BY <2>1 DEF ToSet
  <2> QED
    BY <2>2, <2>3
<1> QED
  BY <1>2, <1>3

\* What passes a filter stays in order.
LEMMA FilterSorted ==
    ASSUME NEW T, NEW rows \in Seq(T), NEW A, NEW tableSort, SortedBy(rows, tableSort)
    PROVE  SortedBy(filter(rows, A), tableSort)
<1> DEFINE Le(a, b) == IF tableSort.sortDirection = "ascending"
                       THEN a[tableSort.sortBy] <= b[tableSort.sortBy] ELSE a[tableSort.sortBy] >= b[tableSort.sortBy]
           Sorted(s) == SortedBy(s, tableSort)
           G == {s \in Seq(T) : Sorted(s) => Sorted(filter(s, A))}
<1>0. ASSUME NEW s \in Seq(T), NEW x \in T
      PROVE  Sorted(Append(s, x)) <=> Sorted(s) /\ \A r \in ToSet(s) : Le(r, x)
  <2> DEFINE t == Append(s, x)
             n == Len(s)
  <2>1. /\ n \in Nat /\ DOMAIN s = 1..n /\ DOMAIN t = 1..(n + 1) /\ t[n + 1] = x
        /\ \A i \in 1..n : t[i] = s[i]
    OBVIOUS
  <2>2. Sorted(t) <=> \A i, j \in DOMAIN t : i < j => Le(t[i], t[j])
    BY DEF SortedBy
  <2>3. Sorted(s) <=> \A i, j \in DOMAIN s : i < j => Le(s[i], s[j])
    BY DEF SortedBy
  <2>4. (\A r \in ToSet(s) : Le(r, x)) <=> \A i \in DOMAIN s : Le(s[i], x)
    BY DEF ToSet
  <2> HIDE DEF Le, t, n, Sorted
  <2>5. ASSUME Sorted(t) PROVE Sorted(s) /\ \A i \in DOMAIN s : Le(s[i], x)
    <3>1. \A i, j \in 1..(n + 1) : i < j => Le(t[i], t[j])
      BY <2>1, <2>2, <2>5
    <3>2. ASSUME NEW i \in 1..n PROVE Le(s[i], x)
      <4>1. i \in 1..(n + 1) /\ n + 1 \in 1..(n + 1) /\ i < n + 1
        BY <2>1
      <4>2. Le(t[i], t[n + 1])
        BY <3>1, <4>1
      <4> QED
        BY <2>1, <4>2
    <3>3. ASSUME NEW i \in 1..n, NEW j \in 1..n, i < j PROVE Le(s[i], s[j])
      <4>1. i \in 1..(n + 1) /\ j \in 1..(n + 1)
        BY <2>1
      <4>2. Le(t[i], t[j])
        BY <3>1, <3>3, <4>1
      <4> QED
        BY <2>1, <4>2
    <3> QED
      BY <2>1, <2>3, <3>2, <3>3
  <2>6. ASSUME Sorted(s), \A i \in DOMAIN s : Le(s[i], x) PROVE Sorted(t)
    <3>1. ASSUME NEW i \in 1..(n + 1), NEW j \in 1..(n + 1), i < j PROVE Le(t[i], t[j])
      <4>1. i \in 1..n /\ t[i] = s[i]
        BY <2>1, <3>1
      <4>2. CASE j = n + 1
        BY <2>1, <2>6, <4>1, <4>2
      <4>3. CASE j # n + 1
        <5>1. j \in 1..n /\ t[j] = s[j]
          BY <2>1, <4>3
        <5> QED
          BY <2>1, <2>3, <2>6, <3>1, <4>1, <5>1
      <4> QED
        BY <4>2, <4>3
    <3> QED
      BY <2>1, <2>2, <3>1
  <2> QED
    BY <2>4, <2>5, <2>6 DEF t
<1>1. <<>> \in G
  BY FilterEmpty
<1>2. ASSUME NEW s \in Seq(T), NEW x \in T, s \in G PROVE Append(s, x) \in G
  <2>1. Append(s, x) \in Seq(T) /\ filter(s, A) \in Seq(T) /\ ToSet(filter(s, A)) = ToSet(s) \cap A
    BY FilterRows
  <2>2. filter(Append(s, x), A) = IF x \in A THEN Append(filter(s, A), x) ELSE filter(s, A)
    BY FilterAppend
  <2>3. Sorted(s) => Sorted(filter(s, A))
    BY <1>2
  <2>4. Sorted(Append(s, x)) <=> Sorted(s) /\ \A r \in ToSet(s) : Le(r, x)
    BY <1>0
  <2>5. Sorted(Append(filter(s, A), x)) <=> Sorted(filter(s, A)) /\ \A r \in ToSet(filter(s, A)) : Le(r, x)
    BY <1>0, <2>1
  <2> HIDE DEF Sorted, Le
  <2>6. Sorted(Append(s, x)) => Sorted(filter(Append(s, x), A))
    BY <2>1, <2>2, <2>3, <2>4, <2>5
  <2> QED
    BY <2>1, <2>6
<1>3. Seq(T) \subseteq G
  <2> HIDE DEF G
  <2> QED
    BY <1>1, <1>2, SequencesInSet
<1> QED
  BY <1>3
-----------------------------------------------------------------------------
(* Functions defined by recursion, and how long sequences are.             *)

Iterates(f, n, X, a, G) ==
    f \in [0..n -> X] /\ f[0] = a /\ \A i \in 1..n : f[i] = G[<<i, f[i - 1]>>]

\* A function defined by recursion over 0..n, each value from the one before it,
\* exists and has its values in every set that the steps do not leave.
LEMMA RecursiveValues ==
    ASSUME NEW n \in Nat, NEW X, NEW a \in X, NEW G \in [(1..n) \X X -> X]
    PROVE  \E f : Iterates(f, n, X, a, G)
<1> DEFINE Values(f, m) == f \in [0..m -> X] /\ f[0] = a /\ \A i \in 1..m : f[i] = G[<<i, f[i - 1]>>]
           Bad == {m \in 0..n : ~ \E f : Values(f, m)}
<1>1. Bad = {}
  <2> SUFFICES ASSUME Bad # {} PROVE FALSE
    OBVIOUS
  <2>1. PICK m \in Bad : \A k \in Bad : m =< k
    <3>1. Bad \in SUBSET Nat
      OBVIOUS
    <3> QED
      BY <3>1, LeastNatural
  <2>2. CASE m = 0
    <3>1. Values([i \in 0..0 |-> a], 0)
      OBVIOUS
    <3> QED
      BY <2>1, <2>2, <3>1
  <2>3. CASE m # 0
    <3>1. PICK f : Values(f, m - 1)
      <4> HIDE DEF Values
      <4>1. m - 1 \in 0..n /\ ~ (m =< m - 1)
        BY <2>1, <2>3
      <4> QED
        BY <2>1, <4>1
    <3>2. f[m - 1] \in X /\ <<m, f[m - 1]>> \in (1..n) \X X
      BY <2>1, <2>3, <3>1
    <3> DEFINE last == G[<<m, f[m - 1]>>]
               g == [i \in 0..m |-> IF i = m THEN last ELSE f[i]]
    <3>3. last \in X
      BY <3>2
    <3>4. g \in [0..m -> X] /\ g[0] = a
      <4>1. \A i \in 0..m : i # m => i \in 0..(m - 1)
        BY <2>1, <2>3
      <4> HIDE DEF last
      <4> QED
        BY <2>1, <2>3, <3>1, <3>3, <4>1
    <3>5. ASSUME NEW i \in 1..m PROVE g[i] = G[<<i, g[i - 1]>>]
      <4>1. CASE i = m
        <5>1. m \in 0..m /\ m - 1 \in 0..m /\ m - 1 # m
          BY <2>1, <2>3
        <5>2. g[m] = last /\ g[m - 1] = f[m - 1]
          <6> HIDE DEF last
          <6> QED
            BY <5>1
        <5> HIDE DEF g
        <5> QED
          BY <4>1, <5>2
      <4>2. CASE i # m
        <5>1. i \in 1..(m - 1) /\ i \in 0..m /\ i - 1 \in 0..m /\ i - 1 # m
          BY <2>1, <4>2
        <5>2. g[i] = f[i] /\ g[i - 1] = f[i - 1]
          <6> HIDE DEF last
          <6> QED
            BY <4>2, <5>1
        <5> HIDE DEF g
        <5> QED
          BY <3>1, <5>1, <5>2
      <4> QED
        BY <4>1, <4>2
    <3>6. Values(g, m)
      <4> HIDE DEF g
      <4> QED
        BY <3>4, <3>5
    <3> QED
      BY <2>1, <3>6
  <2> QED
    BY <2>2, <2>3
<1>2. PICK f : Values(f, n)
  <2> HIDE DEF Values
  <2> QED
    BY <1>1
<1> QED
  BY <1>2 DEF Iterates

\* A filter keeps at most all rows.
LEMMA FilterLength ==
    ASSUME NEW T, NEW rows \in Seq(T), NEW passing
    PROVE  Len(filter(rows, passing)) \in Nat /\ Len(filter(rows, passing)) =< Len(rows)
<1> DEFINE G == {s \in Seq(T) : Len(filter(s, passing)) =< Len(s)}
<1>1. <<>> \in G
  <2>1. Len(<<>>) =< Len(<<>>)
    OBVIOUS
  <2> QED
    BY <2>1, FilterEmpty
<1>2. ASSUME NEW s \in Seq(T), NEW x \in T, s \in G PROVE Append(s, x) \in G
  <2> DEFINE f == filter(s, passing)
  <2>1. f \in Seq(T)
    BY FilterRows
  <2>2. filter(Append(s, x), passing) = IF x \in passing THEN Append(f, x) ELSE f
    BY FilterAppend
  <2>3. Len(f) =< Len(s)
    BY <1>2
  <2> HIDE DEF f
  <2>4. Len(f) \in Nat /\ Len(s) \in Nat /\ Len(Append(f, x)) = Len(f) + 1 /\ Len(Append(s, x)) = Len(s) + 1
    BY <2>1
  <2>5. Len(IF x \in passing THEN Append(f, x) ELSE f) =< Len(s) + 1
    BY <2>3, <2>4
  <2>6. Append(s, x) \in Seq(T)
    OBVIOUS
  <2> QED
    BY <2>2, <2>4, <2>5, <2>6
<1> HIDE DEF G
<1>3. rows \in G
  BY <1>1, <1>2, SequencesInSet
<1>4. filter(rows, passing) \in Seq(T)
  BY FilterRows
<1> QED
  BY <1>3, <1>4 DEF G

\* Rows that differ in a column are no more than a sequence with all of them has.
LEMMA DistinctFewer ==
    ASSUME NEW T, NEW s \in Seq(T), NEW rows \in Seq(T), NEW key,
           Distinct(s, key), ToSet(s) \subseteq ToSet(rows)
    PROVE  Len(s) =< Len(rows)
<1>1. /\ Len(s) \in Nat /\ Len(rows) \in Nat /\ DOMAIN s = 1..Len(s) /\ DOMAIN rows = 1..Len(rows)
  OBVIOUS
<1>2. ASSUME NEW n \in Nat PROVE IsFiniteSet(1..n) /\ Cardinality(1..n) = n
  <2>1. IsFiniteSet(1..n) /\ Cardinality(1..n) = IF 1 > n THEN 0 ELSE n - 1 + 1
    BY FS_Interval
  <2> QED
    BY <2>1
<1>3. /\ IsFiniteSet(1..Len(s)) /\ Cardinality(1..Len(s)) = Len(s)
      /\ IsFiniteSet(1..Len(rows)) /\ Cardinality(1..Len(rows)) = Len(rows)
  BY <1>1, <1>2
<1> DEFINE at == [i \in 1..Len(s) |-> CHOOSE j \in 1..Len(rows) : rows[j] = s[i]]
<1>4. ASSUME NEW i \in 1..Len(s) PROVE at[i] \in 1..Len(rows) /\ rows[at[i]] = s[i]
  <2>1. \E j \in 1..Len(rows) : rows[j] = s[i]
    BY <1>1 DEF ToSet
  <2> QED
    BY <2>1
<1>5. \A i, j \in 1..Len(s) : at[i] = at[j] => i = j
  <2> HIDE DEF at
  <2> QED
    BY <1>1, <1>4 DEF Distinct
<1>6. at \in Injection(1..Len(s), 1..Len(rows))
  <2>1. at \in [1..Len(s) -> 1..Len(rows)]
    BY <1>4
  <2> HIDE DEF at
  <2> QED
    BY <1>5, <2>1 DEF Injection, IsInjective
<1>7. Cardinality(1..Len(s)) <= Cardinality(1..Len(rows))
  BY <1>3, <1>6, FS_Injection
<1> QED
  BY <1>3, <1>7
=============================================================================
