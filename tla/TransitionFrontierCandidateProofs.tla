------------------ MODULE TransitionFrontierCandidateProofs ------------------
(***************************************************************************)
(* Proofs about TransitionFrontierCandidate, for any set of blocks with    *)
(* any consensus states.  Fork choice need not be a transitive order (see  *)
(* ForkChoice).  What is proved of the types, of the verifier's answers and*)
(* of the targets does not rest on where the search in the ordered set of  *)
(* candidates ends.  Short range forks make fork choice an order, and then *)
(* the list is sorted; what is proved of waiting candidates and of pruning *)
(* has that order, BlocksOrdered, as its hypothesis.                       *)
(***************************************************************************)
EXTENDS TransitionFrontierCandidate, TLAPS, WellFoundedInduction, SequenceTheorems

-----------------------------------------------------------------------------
(* The table of pending requests. *)

Request == [status : {"Init", "Pending"}, block : Blocks]
Counters == 0..(CounterSize - 1)
JobEntry == [counter : Counters, request : Request]
JobSlots == {<<>>} \cup {<<e>> : e \in JobEntry}

TableTypes(t) ==
    /\ DOMAIN t = {"list", "free", "counter"}
    /\ t.list \in Seq(JobSlots) /\ t.free \in Seq(Nat) /\ t.counter \in Counters

(* Vacated slots are empty, and each is in the chain of vacated slots once.  *)
FreeEmpty(t) ==
    /\ \A i \in DOMAIN t.free : t.free[i] \in DOMAIN t.list /\ t.list[t.free[i]] = <<>>
    /\ \A i, j \in DOMAIN t.free : t.free[i] = t.free[j] => i = j

Occupied(t) == {l \in DOMAIN t.list : t.list[l] # <<>>}

(* Between events no job is left in Init. *)
AllPending(t) == \A l \in Occupied(t) : t.list[l][1].request.status = "Pending"

Table(t) == TableTypes(t) /\ FreeEmpty(t) /\ AllPending(t)

(* What the verifier is asked, as the table has it. *)
Asked(t) == {[id |-> id, block |-> Jobs!get(t, id).block] : id \in Jobs!ids(t)}

(* The same by slots. *)
LEMMA AskedBySlot ==
    ASSUME NEW t
    PROVE  Asked(t) = {[id |-> [locator |-> l, counter |-> t.list[l][1].counter],
                        block |-> t.list[l][1].request.block] : l \in Occupied(t)}
BY DEF Asked, Occupied, Jobs!ids, Jobs!get, Jobs!RequestId

LEMMA AppendFacts ==
    ASSUME NEW T, NEW s \in Seq(T), NEW e \in T
    PROVE  /\ Append(s, e) \in Seq(T)
           /\ DOMAIN Append(s, e) = 1..(Len(s) + 1)
           /\ Append(s, e)[Len(s) + 1] = e
           /\ \A i \in 1..Len(s) : Append(s, e)[i] = s[i]
<1> DEFINE a == Append(s, e)
<1>1. a \in Seq(T) /\ Len(a) = Len(s) + 1
  OBVIOUS
<1>2. a[Len(s) + 1] = e /\ \A i \in 1..Len(s) : a[i] = s[i]
  OBVIOUS
<1> HIDE DEF a
<1>3. DOMAIN a = 1..(Len(s) + 1)
  BY <1>1
<1> QED
  BY <1>1, <1>2, <1>3 DEF a

(* An insertion takes an empty slot, which leaves the chain of vacated ones. *)
LEMMA AddFacts ==
    ASSUME NEW t, TableTypes(t), FreeEmpty(t), NEW r \in Request
    PROVE  LET l == Jobs!vacant_key(t)
               c == (t.counter + 1) % CounterSize
               u == Jobs!add(t, r)
           IN  /\ TableTypes(u) /\ c \in Counters
               /\ l \notin Occupied(t)
               /\ DOMAIN u.list = DOMAIN t.list \cup {l}
               /\ u.list[l] = <<[counter |-> c, request |-> r]>>
               /\ \A k \in DOMAIN t.list : k # l => u.list[k] = t.list[k]
               /\ \A i \in DOMAIN u.free : u.free[i] \in DOMAIN t.list \ {l} /\ t.list[u.free[i]] = <<>>
               /\ \A i, j \in DOMAIN u.free : u.free[i] = u.free[j] => i = j
<1> DEFINE l == Jobs!vacant_key(t)
           c == (t.counter + 1) % CounterSize
           u == Jobs!add(t, r)
           e == <<[counter |-> c, request |-> r]>>
<1>1. c \in Counters
  BY CandidateAssumption DEF TableTypes, Counters
<1>2. e \in JobSlots
  BY <1>1 DEF JobSlots, JobEntry
<1>3. u = [list    |-> IF t.free = <<>> THEN Append(t.list, e) ELSE [t.list EXCEPT ![l] = e],
           free    |-> IF t.free = <<>> THEN <<>> ELSE Tail(t.free),
           counter |-> c]
  BY DEF Jobs!add, Jobs!next_req_id, Jobs!RequestId
<1>4. t.list \in Seq(JobSlots) /\ DOMAIN t.list = 1..Len(t.list)
  BY DEF TableTypes
<1> HIDE DEF c, u, e
<1>5. CASE t.free = <<>>
  <2>1. l = Len(t.list) + 1
    BY <1>5 DEF Jobs!vacant_key
  <2>2. u.list = Append(t.list, e) /\ u.free = <<>> /\ u.counter = c
        /\ DOMAIN u = {"list", "free", "counter"}
    BY <1>3, <1>5
  <2>3. TableTypes(u)
    BY <1>1, <1>2, <1>4, <2>2, AppendFacts DEF TableTypes
  <2>4. l \notin DOMAIN t.list /\ DOMAIN u.list = DOMAIN t.list \cup {l}
    BY <1>2, <1>4, <2>1, <2>2, AppendFacts
  <2>5. u.list[l] = e /\ \A k \in DOMAIN t.list : u.list[k] = t.list[k]
    BY <1>2, <1>4, <2>1, <2>2, AppendFacts
  <2>6. DOMAIN u.free = {}
    BY <2>2
  <2> QED
    BY <1>1, <2>3, <2>4, <2>5, <2>6 DEF Occupied, c, e, u
<1>6. CASE t.free # <<>>
  <2>1. l = t.free[1] /\ 1 \in DOMAIN t.free
    BY <1>6 DEF Jobs!vacant_key, TableTypes
  <2>2. l \in DOMAIN t.list /\ t.list[l] = <<>>
    BY <2>1 DEF FreeEmpty
  <2> HIDE DEF l
  <2>3. u.list = [t.list EXCEPT ![l] = e] /\ u.free = Tail(t.free) /\ u.counter = c
        /\ DOMAIN u = {"list", "free", "counter"}
    BY <1>3, <1>6
  <2>4. /\ Tail(t.free) \in Seq(Nat)
        /\ \A i \in DOMAIN Tail(t.free) : /\ i \in Nat /\ i + 1 \in DOMAIN t.free /\ i + 1 # 1
                                          /\ Tail(t.free)[i] = t.free[i + 1]
    BY <1>6 DEF TableTypes
  <2>5. TableTypes(u)
    BY <1>1, <1>2, <1>4, <2>2, <2>3, <2>4, ExceptSeq DEF TableTypes
  <2>6. DOMAIN u.list = DOMAIN t.list \cup {l} /\ u.list[l] = e
        /\ \A k \in DOMAIN t.list : k # l => u.list[k] = t.list[k]
    BY <2>2, <2>3
  <2>7. \A i \in DOMAIN u.free : u.free[i] \in DOMAIN t.list \ {l} /\ t.list[u.free[i]] = <<>>
    BY <2>1, <2>3, <2>4 DEF FreeEmpty
  <2>8. \A i, j \in DOMAIN u.free : u.free[i] = u.free[j] => i = j
    BY <2>3, <2>4 DEF FreeEmpty
  <2> QED
    BY <1>1, <2>2, <2>5, <2>6, <2>7, <2>8 DEF Occupied, c, e, u, l
<1> QED
  BY <1>5, <1>6

LEMMA Singleton ==
    ASSUME NEW c, NEW r, NEW q
    PROVE  LET e == [counter |-> c, request |-> r]
               f == [counter |-> c, request |-> q]
           IN  [<<e>> EXCEPT ![1].request = q] = <<f>> /\ <<e>>[1] = e /\ <<e>> # <<>>
<1> DEFINE e == [counter |-> c, request |-> r]
           f == [counter |-> c, request |-> q]
           g == [e EXCEPT !.request = q]
<1>1. g \in [counter : {c}, request : {q}] /\ f \in [counter : {c}, request : {q}]
  OBVIOUS
<1>2. g = f
  BY <1>1
<1> HIDE DEF e, f
<1>3. [<<e>> EXCEPT ![1].request = q] = <<g>>
  OBVIOUS
<1> QED
  BY <1>2, <1>3 DEF e, f

(* The table after SnarkBlockVerifyInit: a job under an id that no other has.  *)
LEMMA InitFacts ==
    ASSUME NEW t, Table(t), NEW b \in Blocks
    PROVE  LET id == Jobs!next_req_id(t)
               t1 == Jobs!add(t, [status |-> "Init", block |-> b])
               t2 == Jobs!set(t1, id, [status |-> "Pending", block |-> b])
           IN  /\ Jobs!contains(t1, id)
               /\ id.locator \notin Occupied(t)
               /\ Table(t2)
               /\ Asked(t2) = Asked(t) \cup {[id |-> id, block |-> b]}
<1> DEFINE id == Jobs!next_req_id(t)
           l  == Jobs!vacant_key(t)
           c  == (t.counter + 1) % CounterSize
           r  == [status |-> "Init", block |-> b]
           q  == [status |-> "Pending", block |-> b]
           t1 == Jobs!add(t, r)
           t2 == Jobs!set(t1, id, q)
<1>1. id = [locator |-> l, counter |-> c]
  BY DEF Jobs!next_req_id, Jobs!RequestId
<1>2. r \in Request /\ q \in Request /\ q.status = "Pending" /\ q.block = b
  BY DEF Request
<1> HIDE DEF l, c, r, q
<1>3. /\ TableTypes(t1) /\ c \in Counters
      /\ l \notin Occupied(t)
      /\ DOMAIN t1.list = DOMAIN t.list \cup {l}
      /\ t1.list[l] = <<[counter |-> c, request |-> r]>>
      /\ \A k \in DOMAIN t.list : k # l => t1.list[k] = t.list[k]
      /\ \A i \in DOMAIN t1.free : t1.free[i] \in DOMAIN t.list \ {l} /\ t.list[t1.free[i]] = <<>>
      /\ \A i, j \in DOMAIN t1.free : t1.free[i] = t1.free[j] => i = j
  BY <1>2, AddFacts DEF Table, l, c
<1> HIDE DEF t1
<1>4. Jobs!contains(t1, id)
  <2>1. id.locator = l /\ id.counter = c
    BY <1>1
  <2>2. t1.list[l] # <<>> /\ t1.list[l][1].counter = c
    BY <1>3
  <2> QED
    BY <1>3, <2>1, <2>2 DEF Jobs!contains
<1>5. t2 = [t1 EXCEPT !.list = [t1.list EXCEPT ![l] = [t1.list[l] EXCEPT ![1].request = q]]]
  BY <1>1, <1>4 DEF Jobs!set
<1> DEFINE f == <<[counter |-> c, request |-> q]>>
<1>6. [t1.list[l] EXCEPT ![1].request = q] = f
  BY <1>3, Singleton
<1>7. f \in JobSlots
  BY <1>2, <1>3 DEF JobSlots, JobEntry
<1> HIDE DEF t2, f, id
<1>8. t2.list = [t1.list EXCEPT ![l] = f] /\ t2.free = t1.free /\ t2.counter = t1.counter
      /\ DOMAIN t2 = {"list", "free", "counter"}
  BY <1>3, <1>5, <1>6 DEF TableTypes
<1>9. TableTypes(t2)
  BY <1>3, <1>7, <1>8, ExceptSeq DEF TableTypes
<1>10. /\ DOMAIN t2.list = DOMAIN t.list \cup {l} /\ t2.list[l] = f
       /\ \A k \in DOMAIN t.list : k # l => t2.list[k] = t.list[k]
  BY <1>3, <1>8
<1>11. f # <<>> /\ f[1].counter = c /\ f[1].request = q
  BY Singleton DEF f
<1>12. FreeEmpty(t2)
  BY <1>3, <1>8, <1>10 DEF FreeEmpty
<1>13. Occupied(t2) = Occupied(t) \cup {l}
  BY <1>3, <1>10, <1>11 DEF Occupied
<1>14. \A k \in Occupied(t) : k # l /\ t2.list[k] = t.list[k]
  BY <1>3, <1>10 DEF Occupied
<1>15. AllPending(t2)
  BY <1>2, <1>10, <1>11, <1>13, <1>14 DEF AllPending, Table
<1>16. Asked(t2) = Asked(t) \cup {[id |-> id, block |-> b]}
  BY <1>1, <1>2, <1>10, <1>11, <1>13, <1>14, AskedBySlot
<1> QED
  BY <1>1, <1>3, <1>4, <1>9, <1>12, <1>15, <1>16 DEF Table, t1, t2, id, r, q

(* Finish empties the slot of the job, and of no other. *)
LEMMA FinishFacts ==
    ASSUME NEW t, Table(t), NEW v \in Asked(t)
    PROVE  /\ Jobs!contains(t, v.id)
           /\ Jobs!get(t, v.id).status = "Pending" /\ Jobs!get(t, v.id).block = v.block
           /\ v.id.locator \in Occupied(t)
           /\ Table(Jobs!remove(t, v.id))
           /\ Asked(Jobs!remove(t, v.id)) = Asked(t) \ {v}
<1>1. PICK l \in Occupied(t) :
          v = [id |-> [locator |-> l, counter |-> t.list[l][1].counter],
               block |-> t.list[l][1].request.block]
  BY AskedBySlot
<1>2. l \in DOMAIN t.list /\ t.list[l] # <<>> /\ t.list \in Seq(JobSlots) /\ l \in Nat
  BY <1>1 DEF Occupied, Table, TableTypes
<1>3. v.id.locator = l /\ v.id.counter = t.list[l][1].counter /\ v.block = t.list[l][1].request.block
  BY <1>1
<1>4. Jobs!contains(t, v.id)
  BY <1>2, <1>3 DEF Jobs!contains
<1>5. Jobs!get(t, v.id).status = "Pending" /\ Jobs!get(t, v.id).block = v.block
  BY <1>1, <1>3 DEF Jobs!get, Table, AllPending
<1> DEFINE u == Jobs!remove(t, v.id)
<1>6. /\ u.list = [t.list EXCEPT ![l] = <<>>] /\ u.free = <<l>> \o t.free /\ u.counter = t.counter
      /\ DOMAIN u = {"list", "free", "counter"}
  BY <1>3, <1>4 DEF Jobs!remove, Table, TableTypes
<1> HIDE DEF u
<1>7. TableTypes(u)
  <2>1. <<>> \in JobSlots
    BY DEF JobSlots
  <2>2. u.list \in Seq(JobSlots)
    BY <1>2, <1>6, <2>1, ExceptSeq
  <2>3. u.free \in Seq(Nat)
    BY <1>2, <1>6 DEF Table, TableTypes
  <2> QED
    BY <1>6, <2>2, <2>3 DEF Table, TableTypes
<1>8. DOMAIN u.list = DOMAIN t.list /\ u.list[l] = <<>>
      /\ \A k \in DOMAIN t.list : k # l => u.list[k] = t.list[k]
  BY <1>2, <1>6
<1>9. /\ u.free[1] = l
      /\ \A i \in DOMAIN u.free : i # 1 => i - 1 \in DOMAIN t.free /\ u.free[i] = t.free[i - 1]
  BY <1>2, <1>6 DEF Table, TableTypes
<1>10. FreeEmpty(u)
  <2>1. \A i \in DOMAIN t.free : t.free[i] # l
    BY <1>2 DEF Table, FreeEmpty
  <2>2. \A i \in DOMAIN u.free : u.free[i] \in DOMAIN u.list /\ u.list[u.free[i]] = <<>>
    BY <1>2, <1>8, <1>9, <2>1 DEF Table, FreeEmpty
  <2>3. DOMAIN u.free \subseteq Nat
    BY <1>7 DEF TableTypes
  <2>4. \A i, j \in DOMAIN u.free : u.free[i] = u.free[j] => i = j
    BY <1>9, <2>1, <2>3 DEF Table, FreeEmpty
  <2> QED
    BY <2>2, <2>4 DEF FreeEmpty
<1>11. Occupied(u) = Occupied(t) \ {l}
  BY <1>2, <1>8 DEF Occupied
<1>12. \A k \in Occupied(u) : u.list[k] = t.list[k]
  BY <1>8, <1>11 DEF Occupied
<1>13. AllPending(u)
  BY <1>11, <1>12 DEF Table, AllPending
<1>14. Asked(u) = Asked(t) \ {v}
  BY <1>1, <1>11, <1>12, AskedBySlot
<1> QED
  BY <1>1, <1>3, <1>4, <1>5, <1>7, <1>10, <1>13, <1>14 DEF Table, u

-----------------------------------------------------------------------------
(* The ordered set of candidates. *)

Valid == WellFormed \cap ValidProof

RequestIds == [locator : Nat, counter : Counters]

(* A candidate past prevalidation is well-formed, and the proof of a verified  *)
(* one is valid.                                                               *)
Checked ==
    {c \in [block       : Blocks,
            status      : {"Received", "Prevalidated", "SnarkVerifyPending", "SnarkVerifySuccess"},
            req         : {<<>>} \cup {<<id>> : id \in RequestIds},
            chain_proof : BOOLEAN] :
        /\ c.status # "Received" => c.block \in WellFormed
        /\ c.status = "SnarkVerifySuccess" => c.block \in ValidProof}

(* A non-empty set of natural numbers has a least element. *)
LEMMA LeastNatural ==
    ASSUME NEW S \in SUBSET Nat, S # {}
    PROVE  \E m \in S : \A n \in S : m =< n
<1> DEFINE R == OpToRel(<, Nat)
<1>1. PICK m \in S : \A n \in S : ~ (<<n, m>> \in R)
  <2> HIDE DEF R
  <2> QED BY NatLessThanWellFounded, WFMin DEF R
<1>2. \A n \in S : ~ (n < m)
  BY <1>1 DEF OpToRel
<1> QED
  BY <1>2

LEMMA Extremes ==
    ASSUME NEW n \in Nat, NEW S \in SUBSET (1..n), S # {}
    PROVE  Min(S) \in S /\ Max(S) \in S
<1>1. \E m \in S : \A k \in S : m =< k
  BY LeastNatural
<1> DEFINE D == {n - k : k \in S}
<1>2. D \in SUBSET Nat /\ D # {}
  <2>1. \A k \in S : n - k \in Nat
    OBVIOUS
  <2> QED
    BY <2>1
<1>3. PICK d \in D : \A e \in D : d =< e
  BY <1>2, LeastNatural
<1>4. PICK m \in S : d = n - m
  BY <1>3
<1>5. \A k \in S : m >= k
  BY <1>3, <1>4
<1> QED
  BY <1>1, <1>5 DEF Min, Max

(* Whatever the order, a search in the leaf ends at an entry or at its end. *)
LEMMA SearchType ==
    ASSUME NEW s \in Seq(Checked), NEW b
    PROVE  search(s, b) \in 1..(Len(s) + 1)
<1> DEFINE stops == {i \in DOMAIN s : ~IsGreater(b, s[i].block)}
<1>1. stops \in SUBSET (1..Len(s)) /\ Len(s) \in Nat
  OBVIOUS
<1>2. search(s, b) = IF stops = {} THEN Len(s) + 1 ELSE Min(stops)
  BY DEF search
<1> HIDE DEF stops
<1>3. stops # {} => Min(stops) \in stops
  BY <1>1, Extremes
<1>4. CASE stops = {}
  BY <1>1, <1>2, <1>4
<1>5. CASE stops # {}
  <2>1. Min(stops) \in 1..Len(s)
    BY <1>1, <1>3, <1>5
  <2> QED
    BY <1>1, <1>2, <1>5, <2>1
<1> QED
  BY <1>4, <1>5

LEMMA SubSeqType ==
    ASSUME NEW T, NEW s \in Seq(T), NEW i \in 1..(Len(s) + 1), NEW j \in 0..Len(s)
    PROVE  SubSeq(s, i, j) \in Seq(T)
BY SubSeqProperties

LEMMA InsertRemoveType ==
    ASSUME NEW s \in Seq(Checked)
    PROVE  /\ \A c \in Checked : insert(s, c) \in Seq(Checked)
           /\ \A b : remove(s, b) \in Seq(Checked)
<1>1. ASSUME NEW c \in Checked PROVE insert(s, c) \in Seq(Checked)
  <2> DEFINE i == search(s, c.block)
  <2>1. i \in 1..(Len(s) + 1) /\ i - 1 \in 0..Len(s) /\ Len(s) \in 0..Len(s)
    BY SearchType
  <2> HIDE DEF i
  <2>2. SubSeq(s, 1, i - 1) \in Seq(Checked) /\ SubSeq(s, i, Len(s)) \in Seq(Checked)
    BY <2>1, SubSeqType
  <2>3. InsertAt(s, i, c) \in Seq(Checked)
    BY <2>2 DEF InsertAt
  <2> QED
    BY <2>3 DEF insert, i
<1>2. ASSUME NEW b PROVE remove(s, b) \in Seq(Checked)
  <2> DEFINE i == search(s, b)
  <2>1. CASE ~found(s, b)
    BY <2>1 DEF remove
  <2>2. CASE found(s, b)
    <3>1. i \in 1..Len(s) /\ Len(s) \in Nat
      BY <2>2 DEF found
    <3> HIDE DEF i
    <3>2. i - 1 \in 0..Len(s) /\ i + 1 \in 1..(Len(s) + 1) /\ 1 \in 1..(Len(s) + 1)
          /\ Len(s) \in 0..Len(s)
      BY <3>1
    <3>3. SubSeq(s, 1, i - 1) \in Seq(Checked) /\ SubSeq(s, i + 1, Len(s)) \in Seq(Checked)
      BY <3>2, SubSeqType
    <3>4. RemoveAt(s, i) \in Seq(Checked)
      BY <3>3 DEF RemoveAt
    <3> QED
      BY <2>2, <3>4 DEF remove, i
  <2> QED
    BY <2>1, <2>2
<1> QED
  BY <1>1, <1>2

(* without is defined by recursion: first that a function satisfies its        *)
(* equation, then what it returns, each by a smallest counterexample.          *)
KeptStep(s, b, f, i) ==
    IF i = 0 THEN <<>>
    ELSE IF s[i].block = b THEN f[i - 1] ELSE Append(f[i - 1], s[i])

LEMMA WithoutEquation ==
    ASSUME NEW T, NEW b, NEW s \in Seq(T)
    PROVE  \E f : /\ without(s, b) = f[Len(s)]
                  /\ \A i \in 0..Len(s) : f[i] = KeptStep(s, b, f, i)
<1> DEFINE Step(f, i) == IF i = 0 THEN <<>>
                         ELSE IF s[i].block = b THEN f[i - 1] ELSE Append(f[i - 1], s[i])
           Kept(f, n) == f = [i \in 0..n |-> Step(f, i)]
           Bad == {n \in 0..Len(s) : ~ \E f : Kept(f, n)}
<1>1. Bad = {}
  <2> SUFFICES ASSUME Bad # {} PROVE FALSE
    OBVIOUS
  <2>1. PICK n \in Bad : \A m \in Bad : n =< m
    <3>1. Bad \in SUBSET Nat
      OBVIOUS
    <3> QED
      BY <3>1, LeastNatural
  <2>2. CASE n = 0
    <3>1. Kept([i \in 0..0 |-> <<>>], 0)
      OBVIOUS
    <3> QED
      BY <2>1, <2>2, <3>1
  <2>3. CASE n # 0
    <3>1. PICK f : Kept(f, n - 1)
      <4> HIDE DEF Kept
      <4>1. n - 1 \in 0..Len(s) /\ ~ (n =< n - 1)
        BY <2>1, <2>3
      <4> QED
        BY <2>1, <4>1
    <3> DEFINE g == [i \in 0..n |-> IF i = n THEN Step(f, n) ELSE f[i]]
    <3>2. ASSUME NEW i \in 0..n PROVE g[i] = Step(g, i)
      <4>1. CASE i = n
        BY <2>1, <2>3, <4>1
      <4>2. CASE i # n
        <5>1. i \in 0..(n - 1) /\ (i # 0 => i - 1 \in 0..(n - 1))
          BY <2>1, <4>2
        <5>2. f[i] = Step(f, i)
          BY <3>1, <5>1
        <5>3. g[i] = f[i] /\ (i # 0 => g[i - 1] = f[i - 1])
          BY <2>1, <4>2, <5>1
        <5> QED
          BY <5>2, <5>3
      <4> QED
        BY <4>1, <4>2
    <3>3. Kept(g, n)
      <4> HIDE DEF Step
      <4>1. g = [i \in 0..n |-> g[i]]
        OBVIOUS
      <4> HIDE DEF g
      <4> QED
        BY <4>1, <3>2
    <3> QED
      BY <2>1, <3>3
  <2> QED
    BY <2>2, <2>3
<1> DEFINE kept == CHOOSE f : Kept(f, Len(s))
<1>2. Kept(kept, Len(s))
  <2> HIDE DEF Kept
  <2>1. Len(s) \in 0..Len(s)
    OBVIOUS
  <2> QED
    BY <1>1, <2>1
<1>3. without(s, b) = kept[Len(s)]
  BY DEF without
<1>4. \A i \in 0..Len(s) : kept[i] = KeptStep(s, b, kept, i)
  <2> HIDE DEF kept
  <2> QED
    BY <1>2 DEF KeptStep
<1> HIDE DEF kept
<1> QED
  BY <1>3, <1>4

LEMMA WithoutType ==
    ASSUME NEW T, NEW b, NEW s \in Seq(T)
    PROVE  without(s, b) \in Seq(T)
<1>1. PICK kept : /\ without(s, b) = kept[Len(s)]
                  /\ \A i \in 0..Len(s) : kept[i] = KeptStep(s, b, kept, i)
  BY WithoutEquation
<1> DEFINE Wrong == {n \in 0..Len(s) : kept[n] \notin Seq(T)}
<1>2. Wrong = {}
  <2> SUFFICES ASSUME Wrong # {} PROVE FALSE
    OBVIOUS
  <2>1. PICK n \in Wrong : \A m \in Wrong : n =< m
    <3>1. Wrong \in SUBSET Nat
      OBVIOUS
    <3> QED
      BY <3>1, LeastNatural
  <2>2. kept[n] = KeptStep(s, b, kept, n)
    BY <1>1, <2>1
  <2>3. CASE n # 0
    <3>1. n - 1 \in 0..Len(s) /\ ~ (n =< n - 1) /\ s[n] \in T
      BY <2>1, <2>3
    <3>2. kept[n - 1] \in Seq(T)
      BY <2>1, <3>1
    <3>3. Append(kept[n - 1], s[n]) \in Seq(T)
      BY <3>1, <3>2
    <3> QED
      BY <2>1, <2>2, <2>3, <3>2, <3>3 DEF KeptStep
  <2>4. CASE n = 0
    <3>1. kept[n] = <<>>
      BY <2>2, <2>4 DEF KeptStep
    <3>2. <<>> \in Seq(T)
      OBVIOUS
    <3> QED
      BY <2>1, <3>1, <3>2
  <2> QED
    BY <2>3, <2>4
<1> QED
  BY <1>1, <1>2

LEMMA IndexFacts ==
    ASSUME NEW s \in Seq(Checked), NEW b, Index(s, b) # 0
    PROVE  s[Index(s, b)] \in Checked /\ s[Index(s, b)].block = b
<1> DEFINE I == {i \in 1..Len(s) : s[i].block = b}
<1>1. Index(s, b) = IF I # {} THEN Max(I) ELSE 0
  BY DEF Index, SelectLastInSeq
<1>2. I # {} => Max(I) \in I
  <2>1. I \in SUBSET (1..Len(s)) /\ Len(s) \in Nat
    OBVIOUS
  <2> HIDE DEF I
  <2> QED
    BY <2>1, Extremes
<1> QED
  BY <1>1, <1>2

LEMMA VerifiedFacts ==
    ASSUME NEW n, n.ordered \in Seq(Checked), has_verified(n)
    PROVE  /\ VerifiedIndex(n) \in 1..Len(n.ordered)
           /\ best_verified(n).block \in Valid
           /\ best_verified(n).status = "SnarkVerifySuccess"
<1> DEFINE s == n.ordered
           I == {i \in 1..Len(s) : s[i].status = "SnarkVerifySuccess"}
<1>1. VerifiedIndex(n) = IF I # {} THEN Max(I) ELSE 0
  BY DEF VerifiedIndex, SelectLastInSeq
<1>2. I # {} => Max(I) \in I
  <2>1. I \in SUBSET (1..Len(s)) /\ Len(s) \in Nat
    OBVIOUS
  <2> HIDE DEF I
  <2> QED
    BY <2>1, Extremes
<1>3. VerifiedIndex(n) \in I
  BY <1>1, <1>2 DEF has_verified
<1>4. s[VerifiedIndex(n)] \in Checked /\ s[VerifiedIndex(n)].status = "SnarkVerifySuccess"
  BY <1>3
<1> QED
  BY <1>3, <1>4 DEF best_verified, Checked, Valid

-----------------------------------------------------------------------------
(* The store. *)

(* What the candidates and the synchronization leave behind each other: only   *)
(* checked candidates, valid targets, and a commit of a target that applies.   *)
Store(n) ==
    /\ DOMAIN n = {"ordered", "invalid", "jobs", "best_tip", "target", "committing",
                   "blacklist", "cur_slot"}
    /\ n.ordered \in Seq(Checked)
    /\ n.best_tip \in {Genesis} \cup Valid
    /\ n.target \in {NoBlock} \cup Valid
    /\ n.committing => n.target # NoBlock /\ Chain[n.target] \subseteq Applies
    /\ n.invalid \subseteq Blocks /\ n.cur_slot \in Times

LEMMA OrderedFacts ==
    ASSUME NEW n, Store(n), NEW s \in Seq(Checked)
    PROVE  LET m == [n EXCEPT !.ordered = s] IN Store(m) /\ m.jobs = n.jobs
BY DEF Store

LEMMA UpdateFacts ==
    ASSUME NEW n, Store(n), NEW b, NEW c \in Checked
    PROVE  Store(update(n, b, c)) /\ update(n, b, c).jobs = n.jobs
<1>1. insert(remove(n.ordered, b), c) \in Seq(Checked)
  BY InsertRemoveType DEF Store
<1>2. update(n, b, c) = [n EXCEPT !.ordered = insert(remove(n.ordered, b), c)]
  BY DEF update
<1> QED
  BY <1>1, <1>2, OrderedFacts

LEMMA SetStatusFacts ==
    ASSUME NEW n, Store(n), NEW b, has(n, b),
           NEW status \in {"Received", "Prevalidated", "SnarkVerifyPending", "SnarkVerifySuccess"},
           NEW req \in {<<>>} \cup {<<id>> : id \in RequestIds},
           status # "Received" => b \in WellFormed,
           status = "SnarkVerifySuccess" => b \in ValidProof
    PROVE  Store(set_status(n, b, status, req)) /\ set_status(n, b, status, req).jobs = n.jobs
<1>1. get(n, b) \in Checked /\ get(n, b).block = b
  BY IndexFacts DEF has, get, Store
<1>2. [get(n, b) EXCEPT !.status = status, !.req = req] \in Checked
  BY <1>1 DEF Checked
<1> QED
  BY <1>2, UpdateFacts DEF set_status

LEMMA InvalidateFacts ==
    ASSUME NEW n, Store(n), NEW b, NEW forever
    PROVE  Store(invalidate(n, b, forever)) /\ invalidate(n, b, forever).jobs = n.jobs
<1>1. without(n.ordered, b) \in Seq(Checked)
  BY WithoutType DEF Store
<1> DEFINE invalid == IF forever /\ has(n, b) THEN n.invalid \cup {b} ELSE n.invalid
<1>2. invalidate(n, b, forever) = [n EXCEPT !.ordered = without(n.ordered, b), !.invalid = invalid]
  BY DEF invalidate
<1>3. invalid \subseteq Blocks
  <2>1. has(n, b) => b \in Blocks
    BY IndexFacts DEF has, Store, Checked
  <2> QED
    BY <2>1 DEF Store
<1> HIDE DEF invalid
<1> QED
  BY <1>1, <1>2, <1>3 DEF Store

LEMMA TargetUpdateFacts ==
    ASSUME NEW n, Store(n)
    PROVE  /\ Store(TransitionFrontierSyncTargetUpdate(n))
           /\ TransitionFrontierSyncTargetUpdate(n).jobs = n.jobs
<1>1. ASSUME NEW b \in Valid
      PROVE  Store(BestTipUpdate(n, b)) /\ BestTipUpdate(n, b).jobs = n.jobs
  <2>1. CASE BestTipUpdate(n, b) = n
    BY <2>1
  <2>2. CASE ~n.committing /\ BestTipUpdate(n, b) = [n EXCEPT !.target = b]
    BY <2>2 DEF Store
  <2> QED
    BY <2>1, <2>2 DEF BestTipUpdate
<1>2. has_verified(n) => best_verified(n).block \in Valid
  BY VerifiedFacts DEF Store
<1> QED
  BY <1>1, <1>2 DEF TransitionFrontierSyncTargetUpdate

LEMMA PruneFacts ==
    ASSUME NEW n, Store(n)
    PROVE  Store(prune(n)) /\ prune(n).jobs = n.jobs
<1>1. CASE ~has_verified(n)
  BY <1>1 DEF prune
<1>2. CASE has_verified(n)
  <2> DEFINE s == n.ordered
             best == best_verified(n).block
             I == {i \in 1..Len(s) : s[i].block = best}
             first == SelectInSeq(s, LAMBDA c : c.block = best)
  <2>1. s \in Seq(Checked) /\ Len(s) \in Nat
    BY DEF Store
  <2>2. VerifiedIndex(n) \in I
    BY <1>2, <2>1, VerifiedFacts DEF best_verified
  <2>3. first = IF I # {} THEN Min(I) ELSE 0
    BY DEF SelectInSeq
  <2>4. I \in SUBSET (1..Len(s))
    OBVIOUS
  <2>5. prune(n) = [n EXCEPT !.ordered = SubSeq(s, first, Len(s)),
                             !.invalid = {b \in n.invalid : Slot(b) >= Slot(best)}]
    BY <1>2 DEF prune
  <2> HIDE DEF I, first, best
  <2>6. first \in 1..(Len(s) + 1) /\ Len(s) \in 0..Len(s)
    <3>1. Min(I) \in I
      BY <2>1, <2>2, <2>4, Extremes
    <3>2. first \in 1..Len(s)
      BY <2>2, <2>3, <2>4, <3>1
    <3> QED
      BY <2>1, <3>2
  <2>7. SubSeq(s, first, Len(s)) \in Seq(Checked)
    BY <2>1, <2>6, SubSeqType
  <2> DEFINE invalid == {b \in n.invalid : Slot(b) >= Slot(best)}
  <2>6a. invalid \subseteq Blocks
    BY DEF Store
  <2> HIDE DEF invalid
  <2>8. prune(n) = [n EXCEPT !.ordered = SubSeq(s, first, Len(s)), !.invalid = invalid]
    BY <2>5 DEF invalid
  <2> QED
    BY <2>6a, <2>7, <2>8 DEF Store
<1> QED
  BY <1>1, <1>2

LEMMA NextIdType ==
    ASSUME NEW t, Table(t)
    PROVE  Jobs!next_req_id(t) \in RequestIds
<1> DEFINE l == Jobs!vacant_key(t)
           c == (t.counter + 1) % CounterSize
           r == [status |-> "Init", block |-> Genesis]
           u == Jobs!add(t, r)
<1>1. r \in Request
  BY CandidateAssumption DEF Request
<1>2. DOMAIN u.list = DOMAIN t.list \cup {l} /\ TableTypes(u) /\ c \in Counters
  BY <1>1, AddFacts DEF Table
<1> HIDE DEF u
<1>3. DOMAIN u.list \subseteq Nat
  <2>1. u.list \in Seq(JobSlots)
    BY <1>2 DEF TableTypes
  <2> QED
    BY <2>1
<1>4. l \in Nat
  BY <1>2, <1>3
<1> QED
  BY <1>2, <1>4 DEF RequestIds, Jobs!next_req_id, Jobs!RequestId

(* The event of receiving a block: a verification starts with the job of       *)
(* InitFacts, or the table stays as it is.                                     *)
LEMMA ReceivedFacts ==
    ASSUME NEW n, Store(n), Table(n.jobs), NEW b \in Blocks
    PROVE  LET m  == BlockReceived(n, b)
               id == Jobs!next_req_id(n.jobs)
           IN  /\ Store(m) /\ Table(m.jobs)
               /\ StartsVerification(n, b) =>
                     /\ id.locator \notin Occupied(n.jobs)
                     /\ Asked(m.jobs) = Asked(n.jobs) \cup {[id |-> id, block |-> b]}
               /\ ~StartsVerification(n, b) => m.jobs = n.jobs
<1> DEFINE m  == BlockReceived(n, b)
           id == Jobs!next_req_id(n.jobs)
           n1 == add(n, b)
<1>1. Candidate(b, "Received", FALSE) \in Checked
  BY DEF Candidate, Checked
<1>2. insert(n.ordered, Candidate(b, "Received", FALSE)) \in Seq(Checked)
  BY <1>1, InsertRemoveType DEF Store
<1>3. Store(n1) /\ n1.jobs = n.jobs
  BY <1>2, OrderedFacts DEF add
<1> HIDE DEF n1
<1>4. CASE ~StartsVerification(n, b)
  <2>1. m = BlockPrevalidateError(n1, b)
    BY <1>4 DEF BlockReceived, n1
  <2>2. Store(m) /\ m.jobs = n.jobs
    BY <1>3, <2>1, InvalidateFacts DEF BlockPrevalidateError
  <2> HIDE DEF m
  <2> QED
    BY <1>4, <2>2 DEF m
<1>5. CASE StartsVerification(n, b)
  <2>1. b \in WellFormed /\ has(n1, b)
    BY <1>5 DEF StartsVerification, Prevalid, has_status, n1
  <2> DEFINE n2 == set_status(n1, b, "Prevalidated", <<>>)
  <2>2. Store(n2) /\ n2.jobs = n.jobs
    BY <1>3, <2>1, SetStatusFacts
  <2>3. m = SnarkBlockVerifyInit(n2, b)
    BY <1>5 DEF BlockReceived, n1
  <2> HIDE DEF n2
  <2> DEFINE r  == [status |-> "Init", block |-> b]
             q  == [status |-> "Pending", block |-> b]
             t1 == Jobs!add(n.jobs, r)
             n3 == [n2 EXCEPT !.jobs = t1]
             n4 == BlockSnarkVerifyPending(n3, b, id)
  <2>4. m = [n4 EXCEPT !.jobs = Jobs!set(n4.jobs, id, q)]
    BY <2>2, <2>3 DEF SnarkBlockVerifyInit
  <2> HIDE DEF t1
  <2>5. Store(n3) /\ n3.jobs = t1
    BY <2>2 DEF Store
  <2>6. id \in RequestIds
    BY NextIdType
  <2> HIDE DEF n3, id
  <2>7. Store(n4) /\ n4.jobs = t1
    BY <2>1, <2>5, <2>6, SetStatusFacts DEF BlockSnarkVerifyPending, has_status
  <2> HIDE DEF n4, m
  <2>8. Store(m) /\ m.jobs = Jobs!set(t1, id, q)
    BY <2>4, <2>7 DEF Store
  <2> QED
    BY <1>5, <2>8, InitFacts DEF m, id, t1
<1> QED
  BY <1>4, <1>5

(* The answer of the verifier to a block it was asked about. *)
LEMMA DoneFacts ==
    ASSUME NEW n, Store(n), Table(n.jobs), NEW v \in Asked(n.jobs)
    PROVE  LET m == SnarkBlockVerifyDone(n, v.id, v.block \in ValidProof)
           IN  Store(m) /\ Table(m.jobs) /\ Asked(m.jobs) = Asked(n.jobs) \ {v}
<1> DEFINE b  == v.block
           n1 == IF b \in ValidProof THEN BlockSnarkVerifySuccess(n, b)
                 ELSE BlockSnarkVerifyError(n, b)
           m  == SnarkBlockVerifyDone(n, v.id, b \in ValidProof)
<1>1. m = [n1 EXCEPT !.jobs = Jobs!remove(n1.jobs, v.id)]
  BY FinishFacts DEF SnarkBlockVerifyDone
<1>2. ASSUME b \in ValidProof, has_status(n, b, "SnarkVerifyPending")
      PROVE  LET k == set_status(n, b, "SnarkVerifySuccess", <<>>)
             IN  Store(k) /\ k.jobs = n.jobs
  <2>1. has(n, b) /\ get(n, b).status = "SnarkVerifyPending"
    BY <1>2 DEF has_status
  <2>2. get(n, b) \in Checked /\ get(n, b).block = b
    BY <2>1, IndexFacts DEF has, get, Store
  <2>3. b \in WellFormed
    BY <2>1, <2>2 DEF Checked
  <2> HIDE DEF b
  <2> QED
    BY <1>2, <2>1, <2>3, SetStatusFacts
<1>3. CASE b \in ValidProof
  <2> HIDE DEF b
  <2>1. n1 = BlockSnarkVerifySuccess(n, b)
    BY <1>3
  <2>2. Store(n1) /\ n1.jobs = n.jobs
    BY <1>2, <1>3, <2>1, TargetUpdateFacts DEF BlockSnarkVerifySuccess
  <2> HIDE DEF n1
  <2>3. Store(m) /\ m.jobs = Jobs!remove(n.jobs, v.id)
    BY <1>1, <2>2 DEF Store
  <2> QED
    BY <2>3, FinishFacts DEF b
<1>4. CASE b \notin ValidProof
  <2> HIDE DEF b
  <2>1. n1 = BlockSnarkVerifyError(n, b)
    BY <1>4
  <2>2. Store(n1) /\ n1.jobs = n.jobs
    BY <2>1, InvalidateFacts DEF BlockSnarkVerifyError
  <2> HIDE DEF n1
  <2>3. Store(m) /\ m.jobs = Jobs!remove(n.jobs, v.id)
    BY <1>1, <2>2 DEF Store
  <2> QED
    BY <2>3, FinishFacts DEF b
<1> QED
  BY <1>3, <1>4

-----------------------------------------------------------------------------
(* The inductive invariant.  OnlyValidTargets needs that verified candidates   *)
(* are valid, which needs that an answer is applied to the block it is about:  *)
(* the jobs in the table are the requests of the verifier.                     *)
IInv ==
    /\ Store(node)
    /\ Table(node.jobs)
    /\ verifying = Asked(node.jobs)

LEMMA InitIInv == Init => IInv
<1> SUFFICES ASSUME Init PROVE IInv
  OBVIOUS
<1>1. node.jobs = [list |-> <<>>, free |-> <<>>, counter |-> 0]
  BY DEF Init, Jobs!NewRequests
<1>2. Store(node)
  <2>1. Min(Times) \in Times
    <3>1. \E m \in Times : \A k \in Times : m =< k
      BY CandidateAssumption, LeastNatural
    <3> QED
      BY <3>1 DEF Min
  <2> QED
    BY <2>1 DEF Init, Store
<1>3. Occupied(node.jobs) = {} /\ DOMAIN node.jobs.free = {}
  BY <1>1 DEF Occupied
<1>4. Table(node.jobs)
  <2>1. 0 \in Counters
    BY CandidateAssumption DEF Counters
  <2> QED
    BY <1>1, <1>3, <2>1 DEF Table, TableTypes, FreeEmpty, AllPending
<1>5. Asked(node.jobs) = {}
  BY <1>3, AskedBySlot
<1> QED
  BY <1>2, <1>4, <1>5 DEF IInv, Init

LEMMA NextIInv == IInv /\ [Next]_vars => IInv'
<1> SUFFICES ASSUME IInv, [Next]_vars PROVE IInv'
  OBVIOUS
<1> USE DEF IInv
<1>1. ASSUME Store(node'), node'.jobs = node.jobs, UNCHANGED verifying PROVE IInv'
  BY <1>1 DEF Store, Table, TableTypes, FreeEmpty, AllPending, Occupied, Asked, Jobs!get, Jobs!ids,
              Jobs!RequestId
<1>2. ASSUME NEW b \in Blocks, P2pBestTipUpdate(b) PROVE IInv'
  BY <1>2, ReceivedFacts DEF P2pBestTipUpdate
<1>3. ASSUME NEW v \in verifying, VerifierAnswer(v) PROVE IInv'
  BY <1>3, DoneFacts DEF VerifierAnswer
<1>4. ASSUME NEW b \in Blocks, BlockChainProofUpdate(b) PROVE IInv'
  <2>1. get(node, b) \in Checked
    BY <1>4, IndexFacts DEF BlockChainProofUpdate, has, get, Store
  <2>2. [get(node, b) EXCEPT !.chain_proof = TRUE] \in Checked
    BY <2>1 DEF Checked
  <2>3. Store(node') /\ node'.jobs = node.jobs
    BY <1>4, <2>2, UpdateFacts, TargetUpdateFacts DEF BlockChainProofUpdate
  <2> QED
    BY <1>1, <1>4, <2>3 DEF BlockChainProofUpdate
<1>5. CASE CheckTimeouts
  BY <1>1, <1>5, TargetUpdateFacts DEF CheckTimeouts
<1>6. CASE CommitInit
  BY <1>1, <1>6 DEF CommitInit, Store
<1>7. CASE Synced
  <2> DEFINE n == [node EXCEPT !.best_tip = node.target, !.target = NoBlock, !.committing = FALSE]
  <2>1. node' = prune(n)
    BY <1>7 DEF Synced
  <2>2. Store(n) /\ n.jobs = node.jobs
    BY <1>7 DEF Synced, Store
  <2> HIDE DEF n
  <2> QED
    BY <1>1, <1>7, <2>1, <2>2, PruneFacts DEF Synced
<1>8. CASE SyncFailed
  <2>1. PICK b \in Chain[node.target] \ Applies :
            node' = [node EXCEPT !.blacklist = @ \cup {b}, !.target = NoBlock]
    BY <1>8 DEF SyncFailed
  <2>2. ~node.committing
    BY <2>1 DEF Store
  <2> QED
    BY <1>1, <1>8, <2>1, <2>2 DEF SyncFailed, Store
<1>9. CASE Tick
  BY <1>1, <1>9 DEF Tick, Store
<1>10. CASE UNCHANGED vars
  BY <1>1, <1>10 DEF vars
<1> QED
  BY <1>2, <1>3, <1>4, <1>5, <1>6, <1>7, <1>8, <1>9, <1>10 DEF Next

(* For any blocks, consensus states and counter size: an answer of the         *)
(* verifier finds the job of the block it was asked to verify, although slots  *)
(* of the table are reused and the counter wraps around, and every job is one  *)
(* the verifier still has to answer.                                           *)
THEOREM AnswersTheorem == Spec => []AnswersReachJob
<1>1. IInv => AnswersReachJob
  <2> SUFFICES ASSUME IInv PROVE AnswersReachJob
    OBVIOUS
  <2>1. \A v, w \in Asked(node.jobs) : v.id = w.id => v = w
    BY AskedBySlot
  <2> QED
    BY <2>1 DEF IInv, AnswersReachJob, Asked
<1> QED
  BY <1>1, InitIInv, NextIInv, PTL DEF Spec

(* For any blocks and any order of announcements, answers, prunings, commits   *)
(* and failures: only a block that passed prevalidation and whose proof the    *)
(* verifier accepted becomes the target of the synchronization or the best     *)
(* tip.                                                                        *)
THEOREM TargetsTheorem == Spec => []OnlyValidTargets
<1>1. IInv => OnlyValidTargets
  BY DEF IInv, Store, Valid, OnlyValidTargets
<1> QED
  BY <1>1, InitIInv, NextIInv, PTL DEF Spec

-----------------------------------------------------------------------------
(* The ordered list.  Its entries are followed as a set; their order is        *)
(* looked at where fork choice is an order on the blocks.                      *)

Entries(s) == {s[i] : i \in DOMAIN s}

Sorted(s) == \A i, j \in DOMAIN s : i < j => s[j].block \in Better[s[i].block]

(* No entry of s is about b. *)
Lacks(s, b) == \A i \in DOMAIN s : s[i].block # b

LEMMA Ordering ==
    ASSUME BlocksOrdered
    PROVE  /\ \A a, b \in Blocks : b \in Better[a] => a \notin Better[b]
           /\ \A a, b \in Blocks : a # b => b \in Better[a] \/ a \in Better[b]
           /\ \A a, b, c \in Blocks : b \in Better[a] /\ c \in Better[b] => c \in Better[a]
BY DEF BlocksOrdered, TotalOrder, Better

LEMMA LeastFirst ==
    ASSUME NEW n \in Nat, NEW S \in SUBSET (1..n), S # {}
    PROVE  \A k \in S : Min(S) =< k
<1>1. \E m \in S : \A k \in S : m =< k
  BY LeastNatural
<1> QED
  BY <1>1 DEF Min

(* The search ends at the first entry that b is not greater than. *)
LEMMA SearchFacts ==
    ASSUME NEW s \in Seq(Checked), NEW b
    PROVE  /\ search(s, b) \in 1..(Len(s) + 1)
           /\ \A i \in 1..(search(s, b) - 1) : i \in DOMAIN s /\ IsGreater(b, s[i].block)
           /\ search(s, b) \in DOMAIN s => ~IsGreater(b, s[search(s, b)].block)
<1> DEFINE stops == {i \in DOMAIN s : ~IsGreater(b, s[i].block)}
           p == search(s, b)
<1>1. stops \in SUBSET (1..Len(s)) /\ Len(s) \in Nat /\ DOMAIN s = 1..Len(s)
  OBVIOUS
<1>2. p = IF stops = {} THEN Len(s) + 1 ELSE Min(stops)
  BY DEF search
<1>3. stops # {} => Min(stops) \in stops /\ \A k \in stops : Min(stops) =< k
  <2> HIDE DEF stops
  <2> QED
    BY <1>1, Extremes, LeastFirst
<1>4. p \in 1..(Len(s) + 1)
  BY SearchType
<1> HIDE DEF p
<1>5. p \in DOMAIN s => p \in stops
  <2> HIDE DEF stops
  <2> QED
    BY <1>1, <1>2, <1>3
<1>6. ASSUME NEW i \in 1..(p - 1) PROVE i \in DOMAIN s /\ i \notin stops
  <2>1. i \in 1..Len(s) /\ ~(p =< i)
    BY <1>1, <1>4
  <2> HIDE DEF stops
  <2>2. CASE stops = {}
    BY <1>1, <2>1, <2>2
  <2>3. CASE stops # {}
    BY <1>1, <1>2, <1>3, <2>1, <2>3
  <2> QED
    BY <2>2, <2>3
<1> QED
  BY <1>4, <1>5, <1>6 DEF p

LEMMA InsertAtFacts ==
    ASSUME NEW T, NEW s \in Seq(T), NEW p \in 1..(Len(s) + 1), NEW e \in T
    PROVE  LET u == InsertAt(s, p, e)
           IN  /\ u \in Seq(T) /\ Len(u) = Len(s) + 1 /\ u[p] = e
               /\ \A i \in 1..(p - 1) : u[i] = s[i]
               /\ \A i \in (p + 1)..(Len(s) + 1) : u[i] = s[i - 1]
<1> DEFINE L == SubSeq(s, 1, p - 1)
           R == SubSeq(s, p, Len(s))
           m == L \o <<e>>
           u == m \o R
<1>1. p \in Nat /\ p >= 1 /\ p =< Len(s) + 1 /\ Len(s) \in Nat
  OBVIOUS
<1>2. L \in Seq(T) /\ Len(L) = p - 1 /\ \A i \in 1..(p - 1) : L[i] = s[i]
  <2>1. \A i \in 1..(p - 1) : s[i] \in T
    BY <1>1
  <2> QED
    BY <1>1, <2>1, SubSeqProperties
<1>3. R \in Seq(T) /\ Len(R) = Len(s) + 1 - p /\ \A i \in 1..(Len(s) + 1 - p) : R[i] = s[p + i - 1]
  <2>1. \A i \in p..Len(s) : s[i] \in T
    BY <1>1
  <2> QED
    BY <1>1, <2>1, SubSeqProperties
<1> HIDE DEF L, R
<1>4. m \in Seq(T) /\ Len(m) = p /\ m[p] = e /\ \A i \in 1..(p - 1) : m[i] = s[i]
  BY <1>1, <1>2
<1> HIDE DEF m
<1>5. /\ u \in Seq(T) /\ Len(u) = Len(m) + Len(R)
      /\ \A i \in 1..(Len(m) + Len(R)) : u[i] = IF i =< Len(m) THEN m[i] ELSE R[i - Len(m)]
  BY <1>3, <1>4, ConcatProperties
<1> HIDE DEF u
<1>6. u \in Seq(T) /\ Len(u) = Len(s) + 1 /\ u[p] = e /\ \A i \in 1..(p - 1) : u[i] = s[i]
  BY <1>1, <1>3, <1>4, <1>5
<1>7. ASSUME NEW i \in (p + 1)..(Len(s) + 1) PROVE u[i] = s[i - 1]
  <2>1. i - p \in 1..(Len(s) + 1 - p) /\ p + (i - p) - 1 = i - 1
    BY <1>1
  <2>2. u[i] = R[i - p]
    BY <1>1, <1>3, <1>4, <1>5
  <2> QED
    BY <1>3, <2>1, <2>2
<1>8. InsertAt(s, p, e) = u
  BY DEF InsertAt, u, m, L, R
<1> QED
  BY <1>6, <1>7, <1>8

LEMMA RemoveAtFacts ==
    ASSUME NEW T, NEW s \in Seq(T), NEW p \in 1..Len(s)
    PROVE  LET u == RemoveAt(s, p)
           IN  /\ u \in Seq(T) /\ Len(u) = Len(s) - 1
               /\ \A i \in 1..(p - 1) : u[i] = s[i]
               /\ \A i \in p..(Len(s) - 1) : u[i] = s[i + 1]
<1> DEFINE L == SubSeq(s, 1, p - 1)
           R == SubSeq(s, p + 1, Len(s))
           u == L \o R
<1>1. p \in Nat /\ p >= 1 /\ p =< Len(s) /\ Len(s) \in Nat
  OBVIOUS
<1>2. L \in Seq(T) /\ Len(L) = p - 1 /\ \A i \in 1..(p - 1) : L[i] = s[i]
  <2>1. \A i \in 1..(p - 1) : s[i] \in T
    BY <1>1
  <2> QED
    BY <1>1, <2>1, SubSeqProperties
<1>3. R \in Seq(T) /\ Len(R) = Len(s) - p /\ \A i \in 1..(Len(s) - p) : R[i] = s[p + i]
  <2>1. \A i \in (p + 1)..Len(s) : s[i] \in T
    BY <1>1
  <2> QED
    BY <1>1, <2>1, SubSeqProperties
<1> HIDE DEF L, R
<1>4. /\ u \in Seq(T) /\ Len(u) = Len(L) + Len(R)
      /\ \A i \in 1..(Len(L) + Len(R)) : u[i] = IF i =< Len(L) THEN L[i] ELSE R[i - Len(L)]
  BY <1>2, <1>3, ConcatProperties
<1> HIDE DEF u
<1> DEFINE n == Len(s)
<1>4a. u \in Seq(T) /\ Len(u) = n - 1
  BY <1>1, <1>2, <1>3, <1>4
<1>4b. \A i \in 1..(n - 1) : u[i] = IF i =< p - 1 THEN L[i] ELSE R[i - (p - 1)]
  <2>1. Len(L) + Len(R) = n - 1
    BY <1>1, <1>2, <1>3
  <2> HIDE DEF n
  <2> QED
    BY <1>2, <1>4, <2>1
<1>5. u \in Seq(T) /\ Len(u) = Len(s) - 1 /\ \A i \in 1..(p - 1) : u[i] = s[i]
  <2>1. \A i \in 1..(p - 1) : i \in 1..(n - 1) /\ i =< p - 1
    BY <1>1
  <2> HIDE DEF n
  <2>2. \A i \in 1..(p - 1) : u[i] = s[i]
    BY <1>2, <1>4b, <2>1
  <2> QED
    BY <1>4a, <2>2 DEF n
<1>6. ASSUME NEW i \in p..(Len(s) - 1) PROVE u[i] = s[i + 1]
  <2>1. i - (p - 1) \in 1..(Len(s) - p) /\ p + (i - (p - 1)) = i + 1
    BY <1>1
  <2>2. u[i] = R[i - (p - 1)]
    <3>1. i \in 1..(n - 1) /\ ~(i =< p - 1)
      BY <1>1
    <3> HIDE DEF n
    <3> QED
      BY <1>4b, <3>1
  <2> QED
    BY <1>3, <2>1, <2>2
<1>7. RemoveAt(s, p) = u
  BY DEF RemoveAt, u, L, R
<1> QED
  BY <1>5, <1>6, <1>7

LEMMA NotFound ==
    ASSUME NEW s, NEW b, Lacks(s, b)
    PROVE  ~found(s, b)
<1> DEFINE p == search(s, b)
<1>1. p \in DOMAIN s => s[p].block # b
  BY DEF Lacks
<1> QED
  BY <1>1 DEF found

(* A new entry joins the others, and the search for it ends where it is. *)
LEMMA InsertFacts ==
    ASSUME NEW s \in Seq(Checked), NEW c \in Checked, ~found(s, c.block)
    PROVE  LET u == insert(s, c)
           IN  /\ u \in Seq(Checked) /\ Entries(u) = Entries(s) \cup {c}
               /\ search(u, c.block) \in DOMAIN u /\ u[search(u, c.block)] = c
               /\ \A i \in DOMAIN u : i # search(u, c.block) => u[i] \in Entries(s)
               /\ BlocksOrdered /\ Sorted(s) => Sorted(u)
<1> DEFINE b == c.block
           p == search(s, b)
           n == Len(s)
           u == InsertAt(s, p, c)
<1>1. /\ p \in 1..(n + 1) /\ n \in Nat /\ DOMAIN s = 1..n
      /\ \A i \in 1..(p - 1) : i \in DOMAIN s /\ IsGreater(b, s[i].block)
      /\ p \in DOMAIN s => ~IsGreater(b, s[p].block)
  BY SearchFacts
<1>2. p \in DOMAIN s => s[p].block # b
  BY DEF found
<1>3. insert(s, c) = u
  BY DEF insert
<1> HIDE DEF p, n
<1>4. /\ u \in Seq(Checked) /\ Len(u) = n + 1 /\ u[p] = c
      /\ \A i \in 1..(p - 1) : u[i] = s[i]
      /\ \A i \in (p + 1)..(n + 1) : u[i] = s[i - 1]
  <2>1. p \in 1..(Len(s) + 1)
    BY <1>1 DEF n
  <2> QED
    BY <2>1, InsertAtFacts DEF n
<1> HIDE DEF u
<1>5. DOMAIN u = 1..(n + 1) /\ p \in DOMAIN u
  BY <1>1, <1>4
<1>6. ASSUME NEW i \in DOMAIN u, i # p PROVE u[i] \in Entries(s)
  <2>1. CASE i < p
    BY <1>1, <1>4, <1>5, <2>1 DEF Entries
  <2>2. CASE i > p
    <3>1. i \in (p + 1)..(n + 1) /\ i - 1 \in 1..n
      BY <1>1, <1>5, <2>2
    <3> QED
      BY <1>1, <1>4, <3>1 DEF Entries
  <2> QED
    BY <1>1, <1>5, <1>6, <2>1, <2>2
<1>7. Entries(u) = Entries(s) \cup {c}
  <2>1. \A i \in DOMAIN u : u[i] \in Entries(s) \cup {c}
    BY <1>4, <1>6
  <2>2. \A i \in DOMAIN s : s[i] \in Entries(u)
    <3> SUFFICES ASSUME NEW i \in DOMAIN s PROVE s[i] \in Entries(u)
      OBVIOUS
    <3>1. CASE i < p
      <4>1. i \in 1..(p - 1) /\ i \in DOMAIN u
        BY <1>1, <1>5, <3>1
      <4> QED
        BY <1>4, <4>1 DEF Entries
    <3>2. CASE i >= p
      <4>1. i + 1 \in (p + 1)..(n + 1) /\ i + 1 \in DOMAIN u /\ (i + 1) - 1 = i
        BY <1>1, <1>5, <3>2
      <4> QED
        BY <1>4, <4>1 DEF Entries
    <3> QED
      BY <1>1, <3>1, <3>2
  <2>3. c \in Entries(u)
    BY <1>4, <1>5 DEF Entries
  <2> QED
    BY <2>1, <2>2, <2>3 DEF Entries
<1>8. search(u, b) = p
  <2> DEFINE q == search(u, b)
  <2>1. /\ q \in 1..(n + 2)
        /\ \A i \in 1..(q - 1) : i \in DOMAIN u /\ IsGreater(b, u[i].block)
        /\ q \in DOMAIN u => ~IsGreater(b, u[q].block)
    <3>1. Len(u) + 1 = n + 2
      BY <1>1, <1>4
    <3> QED
      BY <1>4, <3>1, SearchFacts
  <2>2. ~IsGreater(b, u[p].block)
    BY <1>4 DEF IsGreater
  <2>3. \A i \in 1..(p - 1) : IsGreater(b, u[i].block)
    BY <1>1, <1>4
  <2> HIDE DEF q
  <2>4. ~(q > p)
    BY <1>1, <2>1, <2>2
  <2>5. ~(q < p)
    <3> SUFFICES ASSUME q < p PROVE FALSE
      OBVIOUS
    <3>1. q \in 1..(p - 1) /\ q \in DOMAIN u
      BY <1>1, <1>5, <2>1
    <3> QED
      BY <2>1, <2>3, <3>1
  <2>6. q = p
    BY <1>1, <2>1, <2>4, <2>5
  <2> QED
    BY <2>6 DEF q
<1>9. ASSUME BlocksOrdered, Sorted(s) PROVE Sorted(u)
  <2>1. b \in Blocks /\ \A i \in DOMAIN s : s[i].block \in Blocks
    BY DEF Checked
  <2>2. \A i \in DOMAIN s : i < p => b \in Better[s[i].block]
    <3> SUFFICES ASSUME NEW i \in DOMAIN s, i < p PROVE b \in Better[s[i].block]
      OBVIOUS
    <3>1. i \in 1..(p - 1)
      BY <1>1
    <3>2. b # s[i].block /\ s[i].block \notin Better[b]
      BY <1>1, <3>1 DEF IsGreater
    <3> QED
      BY <1>9, <2>1, <3>2, Ordering
  <2>3. \A i \in DOMAIN s : i >= p => s[i].block \in Better[b]
    <3> SUFFICES ASSUME NEW i \in DOMAIN s, i >= p PROVE s[i].block \in Better[b]
      OBVIOUS
    <3>1. p \in DOMAIN s
      BY <1>1
    <3>2. s[p].block \in Better[b]
      BY <1>1, <1>2, <3>1 DEF IsGreater
    <3>3. CASE i = p
      BY <3>2, <3>3
    <3>4. CASE i > p
      <4>1. s[i].block \in Better[s[p].block]
        BY <1>9, <3>1, <3>4 DEF Sorted
      <4> QED
        BY <1>9, <2>1, <3>1, <3>2, <4>1, Ordering
    <3> QED
      BY <1>1, <3>3, <3>4
  <2> SUFFICES ASSUME NEW i \in DOMAIN u, NEW j \in DOMAIN u, i < j
               PROVE  u[j].block \in Better[u[i].block]
    BY DEF Sorted
  <2> DEFINE Old(k) == IF k < p THEN k ELSE k - 1
  <2>4. \A k \in DOMAIN u : k # p => u[k] = s[Old(k)] /\ Old(k) \in DOMAIN s
    <3> SUFFICES ASSUME NEW k \in DOMAIN u, k # p PROVE u[k] = s[Old(k)] /\ Old(k) \in DOMAIN s
      OBVIOUS
    <3>1. CASE k < p
      <4>1. k \in 1..(p - 1)
        BY <1>1, <1>5, <3>1
      <4> QED
        BY <1>1, <1>4, <3>1, <4>1
    <3>2. CASE k > p
      <4>1. k \in (p + 1)..(n + 1) /\ k - 1 \in 1..n /\ ~(k < p)
        BY <1>1, <1>5, <3>2
      <4> QED
        BY <1>1, <1>4, <4>1
    <3> QED
      BY <1>1, <1>5, <3>1, <3>2
  <2>5. CASE i = p
    <3>1. j # p /\ Old(j) >= p
      BY <1>1, <1>5, <2>5
    <3> HIDE DEF Old
    <3> QED
      BY <1>4, <2>3, <2>4, <2>5, <3>1
  <2>6. CASE j = p
    <3>1. i # p /\ Old(i) < p
      BY <1>1, <1>5, <2>6
    <3> HIDE DEF Old
    <3> QED
      BY <1>4, <2>2, <2>4, <2>6, <3>1
  <2>7. CASE i # p /\ j # p
    <3>1. Old(i) < Old(j)
      BY <1>1, <1>5, <2>7
    <3> HIDE DEF Old
    <3> QED
      BY <1>9, <2>4, <2>7, <3>1 DEF Sorted
  <2> QED
    BY <2>5, <2>6, <2>7
<1> QED
  BY <1>3, <1>4, <1>5, <1>6, <1>7, <1>8, <1>9

(* Taking one entry out. *)
LEMMA RemovedEntry ==
    ASSUME NEW s \in Seq(Checked), NEW p \in DOMAIN s
    PROVE  LET u == RemoveAt(s, p)
           IN  /\ u \in Seq(Checked) /\ Entries(u) = {s[i] : i \in DOMAIN s \ {p}}
               /\ Sorted(s) => Sorted(u)
<1> DEFINE n == Len(s)
           u == RemoveAt(s, p)
<1>1. n \in Nat /\ DOMAIN s = 1..n /\ p \in 1..n
  OBVIOUS
<1>2. /\ u \in Seq(Checked) /\ Len(u) = n - 1
      /\ \A i \in 1..(p - 1) : u[i] = s[i]
      /\ \A i \in p..(n - 1) : u[i] = s[i + 1]
  BY <1>1, RemoveAtFacts
<1> HIDE DEF u, n
<1>3. DOMAIN u = 1..(n - 1)
  BY <1>1, <1>2
<1> DEFINE Old(k) == IF k < p THEN k ELSE k + 1
<1>4. \A k \in DOMAIN u : u[k] = s[Old(k)] /\ Old(k) \in DOMAIN s \ {p}
  <2> SUFFICES ASSUME NEW k \in DOMAIN u PROVE u[k] = s[Old(k)] /\ Old(k) \in DOMAIN s \ {p}
    OBVIOUS
  <2>1. CASE k < p
    <3>1. k \in 1..(p - 1) /\ k \in 1..n /\ k # p
      BY <1>1, <1>3, <2>1
    <3> QED
      BY <1>1, <1>2, <2>1, <3>1
  <2>2. CASE k >= p
    <3>1. k \in p..(n - 1) /\ k + 1 \in 1..n /\ k + 1 # p /\ ~(k < p)
      BY <1>1, <1>3, <2>2
    <3> QED
      BY <1>1, <1>2, <3>1
  <2> QED
    BY <1>1, <1>3, <2>1, <2>2
<1>5. \A i \in DOMAIN s \ {p} : \E k \in DOMAIN u : u[k] = s[i]
  <2> SUFFICES ASSUME NEW i \in DOMAIN s \ {p} PROVE \E k \in DOMAIN u : u[k] = s[i]
    OBVIOUS
  <2>1. CASE i < p
    <3>1. i \in 1..(p - 1) /\ i \in DOMAIN u
      BY <1>1, <1>3, <2>1
    <3> QED
      BY <1>2, <3>1
  <2>2. CASE i > p
    <3>1. i - 1 \in p..(n - 1) /\ i - 1 \in DOMAIN u /\ (i - 1) + 1 = i
      BY <1>1, <1>3, <2>2
    <3> QED
      BY <1>2, <3>1
  <2> QED
    BY <1>1, <2>1, <2>2
<1>6. ASSUME Sorted(s) PROVE Sorted(u)
  <2> SUFFICES ASSUME NEW i \in DOMAIN u, NEW j \in DOMAIN u, i < j
               PROVE  u[j].block \in Better[u[i].block]
    BY DEF Sorted
  <2>1. Old(i) < Old(j)
    BY <1>1, <1>3
  <2> HIDE DEF Old
  <2> QED
    BY <1>4, <1>6, <2>1 DEF Sorted
<1>7. Entries(u) = {s[i] : i \in DOMAIN s \ {p}}
  <2> HIDE DEF Old
  <2> QED
    BY <1>4, <1>5 DEF Entries
<1> QED
  BY <1>2, <1>6, <1>7 DEF u

LEMMA RemoveFacts ==
    ASSUME NEW s \in Seq(Checked), NEW b
    PROVE  LET u == remove(s, b)
           IN  /\ u \in Seq(Checked) /\ Entries(u) \subseteq Entries(s)
               /\ Sorted(s) => Sorted(u)
               /\ ~found(s, b) => u = s
               /\ found(s, b) => Entries(u) = {s[i] : i \in DOMAIN s \ {search(s, b)}}
<1>1. CASE ~found(s, b)
  BY <1>1 DEF remove
<1>2. CASE found(s, b)
  <2> DEFINE p == search(s, b)
  <2>1. p \in DOMAIN s /\ remove(s, b) = RemoveAt(s, p)
    BY <1>2 DEF remove, found
  <2> HIDE DEF p
  <2>2. /\ remove(s, b) \in Seq(Checked)
        /\ Entries(remove(s, b)) = {s[i] : i \in DOMAIN s \ {p}}
        /\ Sorted(s) => Sorted(remove(s, b))
    BY <2>1, RemovedEntry
  <2>3. Entries(remove(s, b)) \subseteq Entries(s)
    BY <2>2 DEF Entries
  <2> QED
    BY <1>2, <2>2, <2>3 DEF p
<1> QED
  BY <1>1, <1>2

(* An entry just inserted can be taken out again, whether or not fork choice   *)
(* is an order.                                                                *)
LEMMA RemoveInserted ==
    ASSUME NEW s \in Seq(Checked), NEW c \in Checked, Lacks(s, c.block)
    PROVE  Entries(remove(insert(s, c), c.block)) = Entries(s)
<1> DEFINE u == insert(s, c)
           p == search(u, c.block)
<1>1. /\ u \in Seq(Checked) /\ Entries(u) = Entries(s) \cup {c} /\ p \in DOMAIN u /\ u[p] = c
      /\ \A i \in DOMAIN u : i # p => u[i] \in Entries(s)
  BY NotFound, InsertFacts
<1>2. found(u, c.block)
  <2> HIDE DEF u
  <2> QED
    BY <1>1 DEF found
<1>3. Entries(remove(u, c.block)) = {u[i] : i \in DOMAIN u \ {p}}
  <2> HIDE DEF u
  <2> QED
    BY <1>1, <1>2, RemoveFacts
<1>4. c \notin Entries(s)
  BY DEF Entries, Lacks
<1> HIDE DEF u, p
<1>5. \A e \in Entries(s) : \E i \in DOMAIN u \ {p} : u[i] = e
  BY <1>1, <1>4 DEF Entries
<1>6. {u[i] : i \in DOMAIN u \ {p}} = Entries(s)
  BY <1>1, <1>5
<1> QED
  BY <1>3, <1>6 DEF u

(* In a sorted list the search finds every entry. *)
LEMMA RemoveSorted ==
    ASSUME BlocksOrdered, NEW s \in Seq(Checked), Sorted(s), NEW b
    PROVE  Entries(remove(s, b)) = {e \in Entries(s) : e.block # b} /\ Lacks(remove(s, b), b)
<1> DEFINE p == search(s, b)
<1>1. /\ p \in 1..(Len(s) + 1) /\ Len(s) \in Nat /\ DOMAIN s = 1..Len(s)
      /\ \A i \in 1..(p - 1) : i \in DOMAIN s /\ IsGreater(b, s[i].block)
      /\ p \in DOMAIN s => ~IsGreater(b, s[p].block)
  BY SearchFacts
<1>2. \A i \in DOMAIN s : s[i].block \in Blocks
  BY DEF Checked
<1> HIDE DEF p
<1>3. ASSUME NEW k \in DOMAIN s, s[k].block = b PROVE p = k
  <2>1. ~(k < p)
    <3>1. k \in 1..(p - 1) => IsGreater(b, s[k].block)
      BY <1>1
    <3>2. ~IsGreater(b, s[k].block)
      BY <1>3 DEF IsGreater
    <3> QED
      BY <1>1, <3>1, <3>2
  <2>2. ~(p < k)
    <3> SUFFICES ASSUME p < k PROVE FALSE
      OBVIOUS
    <3>1. p \in DOMAIN s
      BY <1>1
    <3>2. b \in Better[s[p].block]
      BY <1>3, <3>1 DEF Sorted
    <3>3. b # s[p].block /\ s[p].block \notin Better[b]
      BY <1>2, <1>3, <3>1, <3>2, Ordering
    <3> QED
      BY <1>1, <3>1, <3>3 DEF IsGreater
  <2> QED
    BY <1>1, <2>1, <2>2
<1>4. CASE Lacks(s, b)
  <2>1. ~found(s, b)
    BY <1>4, NotFound
  <2> QED
    BY <1>4, <2>1, RemoveFacts DEF Lacks, Entries
<1>5. CASE ~Lacks(s, b)
  <2>1. PICK k \in DOMAIN s : s[k].block = b
    BY <1>5 DEF Lacks
  <2>2. p = k /\ \A i \in DOMAIN s \ {p} : s[i].block # b
    BY <1>3, <2>1
  <2>3. found(s, b)
    BY <2>1, <2>2 DEF found, p
  <2>4. remove(s, b) \in Seq(Checked) /\ Entries(remove(s, b)) = {s[i] : i \in DOMAIN s \ {p}}
    BY <2>3, RemoveFacts DEF p
  <2>5. {s[i] : i \in DOMAIN s \ {p}} = {e \in Entries(s) : e.block # b}
    BY <2>1, <2>2 DEF Entries
  <2>6. \A e \in Entries(remove(s, b)) : e.block # b
    BY <2>4, <2>5
  <2> QED
    BY <2>4, <2>5, <2>6 DEF Entries, Lacks
<1> QED
  BY <1>4, <1>5

(* retain keeps the other entries, in their order. *)
LEMMA WithoutFacts ==
    ASSUME NEW s \in Seq(Checked), NEW b
    PROVE  /\ Entries(without(s, b)) = {e \in Entries(s) : e.block # b}
           /\ Sorted(s) => Sorted(without(s, b))
<1>1. PICK kept : /\ without(s, b) = kept[Len(s)]
                  /\ \A i \in 0..Len(s) : kept[i] = KeptStep(s, b, kept, i)
  BY WithoutEquation
<1> DEFINE From(r, n) == \A k \in DOMAIN r : \E j \in 1..n : r[k] = s[j] /\ s[j].block # b
           All(r, n)  == \A j \in 1..n : s[j].block # b => \E k \in DOMAIN r : r[k] = s[j]
           Good(r, n) == /\ r \in Seq(Checked) /\ From(r, n) /\ All(r, n)
                         /\ Sorted(s) => Sorted(r)
           Wrong == {n \in 0..Len(s) : ~Good(kept[n], n)}
<1>2. Wrong = {}
  <2> SUFFICES ASSUME Wrong # {} PROVE FALSE
    OBVIOUS
  <2> HIDE DEF Good
  <2>1. PICK n \in Wrong : \A m \in Wrong : n =< m
    <3>1. Wrong \in SUBSET Nat
      OBVIOUS
    <3> QED
      BY <3>1, LeastNatural
  <2>2. n \in 0..Len(s) /\ ~Good(kept[n], n) /\ Len(s) \in Nat
    BY <2>1
  <2>3. kept[n] = KeptStep(s, b, kept, n)
    BY <1>1, <2>1
  <2>4. CASE n = 0
    <3>1. kept[n] = <<>>
      BY <2>3, <2>4 DEF KeptStep
    <3>2. <<>> \in Seq(Checked) /\ DOMAIN <<>> = {} /\ 1..0 = {}
      OBVIOUS
    <3>3. Good(<<>>, 0)
      BY <3>2 DEF Good, Sorted
    <3> QED
      BY <2>2, <2>4, <3>1, <3>3
  <2>5. CASE n # 0
    <3> DEFINE r == kept[n - 1]
    <3>1. Good(r, n - 1)
      <4>1. n - 1 \in 0..Len(s) /\ ~ (n =< n - 1)
        BY <2>2, <2>5
      <4> QED
        BY <2>1, <4>1
    <3>2. n \in DOMAIN s /\ s[n] \in Checked /\ n \in Nat /\ n >= 1
      BY <2>2, <2>5
    <3>3. \A j : j \in 1..n <=> j \in 1..(n - 1) \/ j = n
      BY <3>2
    <3> HIDE DEF r
    <3>4. CASE s[n].block = b
      <4>1. kept[n] = r
        BY <2>3, <2>5, <3>4 DEF KeptStep, r
      <4>2. Good(r, n)
        BY <3>1, <3>3, <3>4 DEF Good
      <4> QED
        BY <2>2, <4>1, <4>2
    <3>5. CASE s[n].block # b
      <4> DEFINE u == Append(r, s[n])
                 L == Len(r) + 1
      <4>1. kept[n] = u
        BY <2>3, <2>5, <3>5 DEF KeptStep, r
      <4>2. r \in Seq(Checked) /\ From(r, n - 1) /\ All(r, n - 1)
        BY <3>1 DEF Good
      <4>3. /\ u \in Seq(Checked) /\ DOMAIN u = 1..L /\ u[L] = s[n]
            /\ \A i \in 1..Len(r) : u[i] = r[i]
        BY <3>2, <4>2, AppendFacts
      <4>4. DOMAIN r = 1..Len(r) /\ Len(r) \in Nat
        BY <4>2
      <4>5. \A k \in DOMAIN u : (k \in DOMAIN r /\ u[k] = r[k]) \/ (k = L /\ u[k] = s[n])
        BY <4>3, <4>4
      <4>6. L \in DOMAIN u /\ \A k \in DOMAIN r : k \in DOMAIN u /\ u[k] = r[k]
        BY <4>3, <4>4
      <4> HIDE DEF u, L
      <4>7. From(u, n)
        <5> SUFFICES ASSUME NEW k \in DOMAIN u
                     PROVE  \E j \in 1..n : u[k] = s[j] /\ s[j].block # b
          OBVIOUS
        <5>1. CASE u[k] = s[n]
          BY <3>3, <3>5, <5>1
        <5>2. CASE k \in DOMAIN r /\ u[k] = r[k]
          <6>1. PICK j \in 1..(n - 1) : r[k] = s[j] /\ s[j].block # b
            BY <4>2, <5>2
          <6> QED
            BY <3>3, <5>2, <6>1
        <5> QED
          BY <4>5, <5>1, <5>2
      <4>8. All(u, n)
        <5> SUFFICES ASSUME NEW j \in 1..n, s[j].block # b
                     PROVE  \E k \in DOMAIN u : u[k] = s[j]
          OBVIOUS
        <5>1. CASE j = n
          BY <4>3, <4>6, <5>1
        <5>2. CASE j \in 1..(n - 1)
          <6>1. PICK k \in DOMAIN r : r[k] = s[j]
            BY <4>2, <5>2
          <6> QED
            BY <4>6, <6>1
        <5> QED
          BY <3>3, <5>1, <5>2
      <4>9. ASSUME Sorted(s) PROVE Sorted(u)
        <5> SUFFICES ASSUME NEW i \in DOMAIN u, NEW j \in DOMAIN u, i < j
                     PROVE  u[j].block \in Better[u[i].block]
          BY DEF Sorted
        <5>1. i \in DOMAIN r /\ u[i] = r[i]
          BY <4>3, <4>4, <4>5 DEF L
        <5>2. CASE j \in DOMAIN r
          <6>1. Sorted(r)
            BY <3>1, <4>9 DEF Good
          <6> QED
            BY <4>6, <5>1, <5>2, <6>1 DEF Sorted
        <5>3. CASE u[j] = s[n]
          <6>1. PICK k \in 1..(n - 1) : r[i] = s[k]
            BY <4>2, <5>1
          <6>2. k \in DOMAIN s /\ k < n
            BY <2>2, <3>2
          <6> QED
            BY <3>2, <4>9, <5>1, <5>3, <6>1, <6>2 DEF Sorted
        <5> QED
          BY <4>5, <5>2, <5>3
      <4>10. Good(u, n)
        BY <4>3, <4>7, <4>8, <4>9 DEF Good
      <4> QED
        BY <2>2, <4>1, <4>10
    <3> QED
      BY <3>4, <3>5
  <2> QED
    BY <2>4, <2>5
<1>3. Good(without(s, b), Len(s)) /\ Len(s) \in Nat
  <2>1. Len(s) \in 0..Len(s) /\ Len(s) \in Nat
    OBVIOUS
  <2> HIDE DEF Good
  <2> QED
    BY <1>1, <1>2, <2>1
<1> DEFINE r == without(s, b)
<1>4. From(r, Len(s)) /\ All(r, Len(s)) /\ (Sorted(s) => Sorted(r)) /\ DOMAIN s = 1..Len(s)
  BY <1>3
<1> HIDE DEF r
<1>5. Entries(r) = {e \in Entries(s) : e.block # b}
  BY <1>4 DEF Entries
<1> QED
  BY <1>4, <1>5 DEF r

LEMMA HasFacts ==
    ASSUME NEW n, n.ordered \in Seq(Checked), NEW b
    PROVE  /\ ~has(n, b) <=> Lacks(n.ordered, b)
           /\ has(n, b) => get(n, b) \in Entries(n.ordered) /\ get(n, b) \in Checked
                           /\ get(n, b).block = b
<1> DEFINE s == n.ordered
           I == {i \in 1..Len(s) : s[i].block = b}
<1>1. Index(s, b) = IF I # {} THEN Max(I) ELSE 0
  BY DEF Index, SelectLastInSeq
<1>2. I # {} => Max(I) \in I
  <2>1. I \in SUBSET (1..Len(s)) /\ Len(s) \in Nat
    OBVIOUS
  <2> HIDE DEF I
  <2> QED
    BY <2>1, Extremes
<1>3. DOMAIN s = 1..Len(s)
  OBVIOUS
<1>4. I = {} <=> Lacks(s, b)
  BY <1>3 DEF Lacks
<1>5. Index(s, b) # 0 <=> I # {}
  <2>1. \A i \in I : i # 0
    OBVIOUS
  <2> HIDE DEF I
  <2> QED
    BY <1>1, <1>2, <2>1
<1>6. I # {} => Index(s, b) \in DOMAIN s /\ s[Index(s, b)].block = b
  BY <1>1, <1>2, <1>3
<1> HIDE DEF I, s
<1> QED
  BY <1>4, <1>5, <1>6 DEF has, get, Entries, s

LEMMA OneEntry ==
    ASSUME BlocksOrdered, NEW s \in Seq(Checked), Sorted(s),
           NEW e \in Entries(s), NEW f \in Entries(s), e.block = f.block
    PROVE  e = f
<1>1. PICK i \in DOMAIN s, j \in DOMAIN s : e = s[i] /\ f = s[j]
  BY DEF Entries
<1>2. i \in Nat /\ j \in Nat /\ e.block \in Blocks
  BY <1>1 DEF Checked
<1>3. e.block \notin Better[e.block]
  BY <1>2, Ordering
<1>4. ~(i < j) /\ ~(j < i)
  BY <1>1, <1>3 DEF Sorted
<1> QED
  BY <1>1, <1>2, <1>4

-----------------------------------------------------------------------------
(* What the operations of the store make of the list. *)

LEMMA InsertEntries ==
    ASSUME NEW s \in Seq(Checked), NEW c \in Checked
    PROVE  Entries(insert(s, c)) \subseteq Entries(s) \cup {c}
<1>1. CASE found(s, c.block)
  BY <1>1 DEF insert
<1>2. CASE ~found(s, c.block)
  BY <1>2, InsertFacts
<1> QED
  BY <1>1, <1>2

LEMMA UpdateList ==
    ASSUME NEW n, Store(n), NEW c \in Checked
    PROVE  LET b == c.block
               s == n.ordered
               u == update(n, b, c).ordered
           IN  /\ u = insert(remove(s, b), c)
               /\ Entries(u) \subseteq Entries(s) \cup {c}
               /\ BlocksOrdered /\ Sorted(s) =>
                     Sorted(u) /\ Entries(u) = {e \in Entries(s) : e.block # b} \cup {c}
<1> DEFINE b == c.block
           s == n.ordered
           r == remove(s, b)
           u == insert(r, c)
<1>1. s \in Seq(Checked) /\ update(n, b, c).ordered = u
  BY DEF Store, update
<1> HIDE DEF s
<1>2. r \in Seq(Checked) /\ Entries(r) \subseteq Entries(s) /\ (Sorted(s) => Sorted(r))
  BY <1>1, RemoveFacts
<1>3. Entries(u) \subseteq Entries(s) \cup {c}
  <2> HIDE DEF r
  <2>1. Entries(u) \subseteq Entries(r) \cup {c}
    BY <1>2, InsertEntries
  <2> QED
    BY <1>2, <2>1
<1>4. ASSUME BlocksOrdered, Sorted(s)
      PROVE  Sorted(u) /\ Entries(u) = {e \in Entries(s) : e.block # b} \cup {c}
  <2>1. Entries(r) = {e \in Entries(s) : e.block # b} /\ Lacks(r, b)
    BY <1>1, <1>4, RemoveSorted
  <2> HIDE DEF r
  <2>2. ~found(r, b)
    BY <2>1, NotFound
  <2>3. Entries(u) = Entries(r) \cup {c} /\ Sorted(u)
    BY <1>2, <1>4, <2>2, InsertFacts
  <2> QED
    BY <2>1, <2>3
<1> QED
  BY <1>1, <1>3, <1>4 DEF s

LEMMA TargetUpdateList ==
    ASSUME NEW n, Store(n)
    PROVE  TransitionFrontierSyncTargetUpdate(n).ordered = n.ordered
<1>1. ASSUME NEW b PROVE BestTipUpdate(n, b).ordered = n.ordered
  <2>1. [n EXCEPT !.target = b].ordered = n.ordered
    BY DEF Store
  <2> QED
    BY <2>1 DEF BestTipUpdate
<1> QED
  BY <1>1 DEF TransitionFrontierSyncTargetUpdate

(* A list of candidates to which c has just been added: s and c. *)
Newest(n, c, s) ==
    /\ Store(n) /\ c \in Checked
    /\ \E r \in Seq(Checked) :
          /\ n.ordered = insert(r, c) /\ Lacks(r, c.block) /\ Entries(r) = Entries(s)
          /\ BlocksOrdered /\ Sorted(s) => Sorted(r)

LEMMA NewestFacts ==
    ASSUME NEW n, NEW c, NEW s, Newest(n, c, s)
    PROVE  /\ has(n, c.block) /\ get(n, c.block) = c
           /\ Entries(n.ordered) = Entries(s) \cup {c}
           /\ \A e \in Entries(s) : e.block # c.block
           /\ BlocksOrdered /\ Sorted(s) => Sorted(n.ordered)
<1>1. Store(n) /\ c \in Checked
  BY DEF Newest
<1>2. PICK r \in Seq(Checked) :
         /\ n.ordered = insert(r, c) /\ Lacks(r, c.block) /\ Entries(r) = Entries(s)
         /\ BlocksOrdered /\ Sorted(s) => Sorted(r)
  BY DEF Newest
<1>3. \A e \in Entries(s) : e.block # c.block
  <2>1. \A e \in Entries(r) : e.block # c.block
    BY <1>2 DEF Entries, Lacks
  <2> QED
    BY <1>2, <2>1
<1>4. /\ n.ordered \in Seq(Checked) /\ Entries(n.ordered) = Entries(s) \cup {c}
      /\ BlocksOrdered /\ Sorted(s) => Sorted(n.ordered)
  BY <1>1, <1>2, NotFound, InsertFacts
<1>5. ~Lacks(n.ordered, c.block)
  BY <1>4 DEF Entries, Lacks
<1>6. /\ has(n, c.block) /\ get(n, c.block) \in Entries(n.ordered)
      /\ get(n, c.block).block = c.block
  BY <1>4, <1>5, HasFacts
<1> QED
  BY <1>3, <1>4, <1>6

LEMMA NewestUpdate ==
    ASSUME NEW n, NEW c, NEW s, Newest(n, c, s), NEW d \in Checked, d.block = c.block
    PROVE  Newest(update(n, c.block, d), d, s)
<1>1. Store(n) /\ c \in Checked
  BY DEF Newest
<1>2. PICK r \in Seq(Checked) :
         /\ n.ordered = insert(r, c) /\ Lacks(r, c.block) /\ Entries(r) = Entries(s)
         /\ BlocksOrdered /\ Sorted(s) => Sorted(r)
  BY DEF Newest
<1> DEFINE u == insert(r, c)
           q == remove(u, c.block)
<1>3. u \in Seq(Checked) /\ (BlocksOrdered /\ Sorted(r) => Sorted(u))
  BY <1>1, <1>2, NotFound, InsertFacts
<1>4. Entries(q) = Entries(r)
  BY <1>1, <1>2, RemoveInserted
<1>5. n.ordered = u
  BY <1>2
<1> HIDE DEF u
<1>6. q \in Seq(Checked) /\ (Sorted(u) => Sorted(q))
  BY <1>3, RemoveFacts
<1>7. update(n, c.block, d).ordered = insert(q, d) /\ Store(update(n, c.block, d))
  BY <1>1, <1>5, UpdateFacts, UpdateList
<1> HIDE DEF q
<1>8. Lacks(q, c.block)
  <2>1. \A e \in Entries(q) : e.block # c.block
    BY <1>2, <1>4 DEF Entries, Lacks
  <2> QED
    BY <2>1 DEF Entries, Lacks
<1>9. BlocksOrdered /\ Sorted(s) => Sorted(q)
  BY <1>2, <1>3, <1>6
<1> QED
  BY <1>2, <1>4, <1>6, <1>7, <1>8, <1>9 DEF Newest

Restated(c, status, req) == [c EXCEPT !.status = status, !.req = req]
Waiting(b, id) ==
    [block |-> b, status |-> "SnarkVerifyPending", req |-> <<id>>, chain_proof |-> FALSE]

LEMMA RestatedWaits ==
    ASSUME NEW b, NEW id
    PROVE  Restated(Restated(Candidate(b, "Received", FALSE), "Prevalidated", <<>>),
                    "SnarkVerifyPending", <<id>>)
           = Waiting(b, id)
<1> DEFINE d == Restated(Restated(Candidate(b, "Received", FALSE), "Prevalidated", <<>>),
                         "SnarkVerifyPending", <<id>>)
           P == {FALSE}
           R == [block : {b}, status : {"SnarkVerifyPending"}, req : {<<id>>}, chain_proof : P]
<1>1. d \in R /\ Waiting(b, id) \in R
  BY DEF Candidate, Restated, Waiting
<1>2. \A p, q \in P : p = q
  OBVIOUS
<1> HIDE DEF d, P
<1>3. d = Waiting(b, id)
  BY <1>1, <1>2
<1> QED
  BY <1>3 DEF d

(* Receiving a block leaves a candidate that waits for the verifier, or none.  *)
LEMMA ReceivedList ==
    ASSUME NEW n, Store(n), Table(n.jobs), NEW b \in Blocks, ~contains(n, b)
    PROVE  LET s == n.ordered
               u == BlockReceived(n, b).ordered
               c == [block |-> b, status |-> "SnarkVerifyPending",
                     req |-> <<Jobs!next_req_id(n.jobs)>>, chain_proof |-> FALSE]
           IN  /\ Entries(u) = IF StartsVerification(n, b) THEN Entries(s) \cup {c}
                               ELSE Entries(s)
               /\ BlocksOrdered /\ Sorted(s) => Sorted(u)
<1> DEFINE s  == n.ordered
           u  == BlockReceived(n, b).ordered
           id == Jobs!next_req_id(n.jobs)
           c  == [block |-> b, status |-> "SnarkVerifyPending", req |-> <<id>>,
                  chain_proof |-> FALSE]
           c1 == Candidate(b, "Received", FALSE)
           n1 == add(n, b)
<1>1. c1 \in Checked /\ c1.block = b /\ c1.status = "Received"
  BY DEF Candidate, Checked
<1>2. Lacks(s, b) /\ s \in Seq(Checked)
  BY HasFacts DEF contains, Store
<1>3. Store(n1) /\ n1.jobs = n.jobs /\ n1.ordered = insert(s, c1)
  <2>1. insert(s, c1) \in Seq(Checked)
    BY <1>1, <1>2, InsertRemoveType
  <2> QED
    BY <2>1, OrderedFacts DEF add, Store
<1>4. Newest(n1, c1, s)
  BY <1>1, <1>2, <1>3 DEF Newest
<1> HIDE DEF c1, n1, s
<1>5. has(n1, b) /\ get(n1, b) = c1 /\ Entries(n1.ordered) = Entries(s) \cup {c1}
      /\ (\A e \in Entries(s) : e.block # b)
      /\ (BlocksOrdered /\ Sorted(s) => Sorted(n1.ordered))
  BY <1>1, <1>4, NewestFacts
<1>6. CASE ~StartsVerification(n, b)
  <2>1. BlockReceived(n, b) = BlockPrevalidateError(n1, b)
    BY <1>6 DEF BlockReceived, n1
  <2>2. has_status(n1, b, "Received")
    BY <1>1, <1>5 DEF has_status
  <2>3. u = without(n1.ordered, b)
    BY <1>3, <2>1, <2>2 DEF BlockPrevalidateError, invalidate, Store
  <2>4. n1.ordered \in Seq(Checked)
    BY <1>3 DEF Store
  <2>5. /\ Entries(without(n1.ordered, b)) = {e \in Entries(n1.ordered) : e.block # b}
        /\ Sorted(n1.ordered) => Sorted(without(n1.ordered, b))
    BY <2>4, WithoutFacts
  <2>6. {e \in Entries(n1.ordered) : e.block # b} = Entries(s)
    BY <1>1, <1>5
  <2> HIDE DEF u
  <2>7. Entries(u) = Entries(s) /\ (BlocksOrdered /\ Sorted(s) => Sorted(u))
    BY <1>5, <2>3, <2>5, <2>6
  <2> QED
    BY <1>6, <2>7 DEF u, s
<1>7. CASE StartsVerification(n, b)
  <2>1. b \in WellFormed
    BY <1>7 DEF StartsVerification, Prevalid
  <2> DEFINE c2 == [c1 EXCEPT !.status = "Prevalidated", !.req = <<>>]
             n2 == set_status(n1, b, "Prevalidated", <<>>)
  <2>2. c2 \in Checked /\ c2.block = b /\ c2.status = "Prevalidated"
    BY <1>1, <2>1 DEF Checked, c1, Candidate
  <2>3. n2 = update(n1, b, c2)
    BY <1>5 DEF set_status
  <2> HIDE DEF c2, n2
  <2>4. Newest(n2, c2, s) /\ n2.jobs = n.jobs
    <3>1. n2.jobs = n1.jobs
      BY <1>3, <2>2, <2>3, UpdateFacts
    <3> QED
      BY <1>1, <1>3, <1>4, <2>2, <2>3, <3>1, NewestUpdate
  <2> DEFINE r  == [status |-> "Init", block |-> b]
             q  == [status |-> "Pending", block |-> b]
             t1 == Jobs!add(n.jobs, r)
             n3 == [n2 EXCEPT !.jobs = t1]
             n4 == BlockSnarkVerifyPending(n3, b, id)
  <2>5. BlockReceived(n, b) = [n4 EXCEPT !.jobs = Jobs!set(n4.jobs, id, q)]
    BY <1>7, <2>4 DEF BlockReceived, SnarkBlockVerifyInit, n1, n2
  <2>6. Jobs!contains(t1, id)
    BY InitFacts
  <2> HIDE DEF t1
  <2>7. Newest(n3, c2, s) /\ n3.jobs = t1
    <3>1. Store(n2)
      BY <2>4 DEF Newest
    <3>2. Store(n3) /\ n3.ordered = n2.ordered /\ n3.jobs = t1
      BY <3>1 DEF Store
    <3> HIDE DEF n3
    <3> QED
      BY <2>4, <3>2 DEF Newest
  <2>8. id \in RequestIds
    BY NextIdType
  <2> HIDE DEF n3, id
  <2>9. has(n3, b) /\ get(n3, b) = c2
    BY <2>2, <2>7, NewestFacts
  <2>10. n4 = update(n3, b, [c2 EXCEPT !.status = "SnarkVerifyPending", !.req = <<id>>])
    BY <2>2, <2>6, <2>7, <2>9 DEF BlockSnarkVerifyPending, has_status, set_status
  <2>11. c = [c2 EXCEPT !.status = "SnarkVerifyPending", !.req = <<id>>] /\ c \in Checked
         /\ c.block = b
    <3>1. /\ c = Waiting(b, id)
          /\ [c2 EXCEPT !.status = "SnarkVerifyPending", !.req = <<id>>]
                = Restated(Restated(Candidate(b, "Received", FALSE), "Prevalidated", <<>>),
                           "SnarkVerifyPending", <<id>>)
      BY DEF c2, c1, Waiting, Restated
    <3>2. <<id>> \in {<<x>> : x \in RequestIds}
      BY <2>8
    <3>3. c \in Checked /\ c.block = b
      BY <2>1, <3>2 DEF Checked
    <3> HIDE DEF c
    <3> QED
      BY <3>1, <3>3, RestatedWaits
  <2> HIDE DEF n4, c
  <2>12. Newest(n4, c, s)
    BY <2>2, <2>7, <2>10, <2>11, NewestUpdate
  <2>13. u = n4.ordered
    <3>1. Store(n4)
      BY <2>12 DEF Newest
    <3> QED
      BY <2>5, <3>1 DEF Store
  <2>14. Entries(u) = Entries(s) \cup {c} /\ (BlocksOrdered /\ Sorted(s) => Sorted(u))
    BY <2>12, <2>13, NewestFacts
  <2> HIDE DEF u
  <2> QED
    BY <1>7, <2>14 DEF u, s, c, id
<1> QED
  BY <1>6, <1>7

(* The verifier's answer changes the entry of its block only, and takes a      *)
(* candidate out only if its proof is not valid.                               *)
LEMMA DoneList ==
    ASSUME NEW n, Store(n), Table(n.jobs), NEW v \in Asked(n.jobs)
    PROVE  LET b == v.block
               s == n.ordered
               u == SnarkBlockVerifyDone(n, v.id, b \in ValidProof).ordered
           IN  /\ \A e \in Entries(u) :
                     \/ e \in Entries(s)
                     \/ e.status = "SnarkVerifySuccess" /\ \E d \in Entries(s) : d.block = e.block
               /\ BlocksOrdered /\ Sorted(s) =>
                     /\ Sorted(u)
                     /\ \A e \in Entries(u) : e.status = "SnarkVerifyPending" =>
                                                  e \in Entries(s) /\ e.block # b
                     /\ \A e \in Entries(s) : e.block \in ValidProof =>
                                                  \E f \in Entries(u) : f.block = e.block
<1> DEFINE b  == v.block
           s  == n.ordered
           n1 == IF b \in ValidProof THEN BlockSnarkVerifySuccess(n, b)
                 ELSE BlockSnarkVerifyError(n, b)
           m  == SnarkBlockVerifyDone(n, v.id, b \in ValidProof)
           u  == m.ordered
<1>1. m = [n1 EXCEPT !.jobs = Jobs!remove(n1.jobs, v.id)]
  BY FinishFacts DEF SnarkBlockVerifyDone
<1>2. s \in Seq(Checked)
  BY DEF Store
<1> HIDE DEF b, m
<1>3. CASE ~has_status(n, b, "SnarkVerifyPending")
  <2>1. n1 = n
    BY <1>3 DEF BlockSnarkVerifySuccess, BlockSnarkVerifyError
  <2>2. u = s
    BY <1>1, <2>1 DEF Store
  <2>3. ASSUME BlocksOrdered, Sorted(s), NEW e \in Entries(s), e.status = "SnarkVerifyPending"
        PROVE  e.block # b
    <3> SUFFICES ASSUME e.block = b PROVE FALSE
      OBVIOUS
    <3>1. ~Lacks(s, b)
      BY DEF Entries, Lacks
    <3>2. has(n, b) /\ get(n, b) \in Entries(s) /\ get(n, b).block = b
      BY <1>2, <3>1, HasFacts
    <3>3. get(n, b) = e
      BY <1>2, <2>3, <3>2, OneEntry
    <3> QED
      BY <1>3, <2>3, <3>2, <3>3 DEF has_status
  <2> HIDE DEF s, u
  <2>4. \A e \in Entries(s) : \E f \in Entries(s) : f.block = e.block
    OBVIOUS
  <2> QED
    BY <2>2, <2>3, <2>4 DEF s, u, b, m
<1>4. CASE has_status(n, b, "SnarkVerifyPending") /\ b \in ValidProof
  <2> DEFINE g == get(n, b)
             c == [g EXCEPT !.status = "SnarkVerifySuccess", !.req = <<>>]
             k == update(n, b, c)
  <2>1. has(n, b) /\ g.status = "SnarkVerifyPending"
    BY <1>4 DEF has_status
  <2>2. g \in Checked /\ g \in Entries(s) /\ g.block = b
    BY <1>2, <2>1, HasFacts
  <2> HIDE DEF g
  <2>3. c \in Checked /\ c.block = b /\ c.status = "SnarkVerifySuccess"
    BY <1>4, <2>1, <2>2 DEF Checked
  <2>4. n1 = TransitionFrontierSyncTargetUpdate(k)
    BY <1>4 DEF BlockSnarkVerifySuccess, set_status, g
  <2> HIDE DEF c
  <2>5. Store(k)
    BY <2>3, UpdateFacts
  <2>6. Store(n1) /\ n1.ordered = k.ordered
    <3> HIDE DEF k, n1
    <3> QED
      BY <2>4, <2>5, TargetUpdateFacts, TargetUpdateList
  <2>7. u = k.ordered
    <3> HIDE DEF k, n1
    <3> QED
      BY <1>1, <2>6 DEF Store
  <2>8. /\ Entries(k.ordered) \subseteq Entries(s) \cup {c}
        /\ BlocksOrdered /\ Sorted(s) =>
              /\ Sorted(k.ordered)
              /\ Entries(k.ordered) = {e \in Entries(s) : e.block # b} \cup {c}
    BY <2>3, UpdateList
  <2> HIDE DEF s, u, k
  <2>9. \A e \in Entries(u) :
           \/ e \in Entries(s)
           \/ e.status = "SnarkVerifySuccess" /\ \E d \in Entries(s) : d.block = e.block
    BY <2>2, <2>3, <2>7, <2>8
  <2>10. ASSUME BlocksOrdered, Sorted(s)
         PROVE  /\ Sorted(u)
                /\ \A e \in Entries(u) : e.status = "SnarkVerifyPending" =>
                                             e \in Entries(s) /\ e.block # b
                /\ \A e \in Entries(s) : \E f \in Entries(u) : f.block = e.block
    <3>1. Sorted(u) /\ Entries(u) = {e \in Entries(s) : e.block # b} \cup {c}
      BY <2>7, <2>8, <2>10
    <3>2. \A e \in Entries(s) : e.block = b => c.block = e.block
      BY <2>3
    <3> QED
      BY <2>3, <3>1, <3>2
  <2> QED
    BY <2>9, <2>10 DEF s, u, b, m
<1>5. CASE has_status(n, b, "SnarkVerifyPending") /\ b \notin ValidProof
  <2>1. n1 = invalidate(n, b, TRUE)
    BY <1>5 DEF BlockSnarkVerifyError
  <2>2. Store(n1) /\ n1.ordered = without(s, b)
    <3>1. invalidate(n, b, TRUE).ordered = without(s, b)
      BY DEF invalidate, Store
    <3> HIDE DEF n1
    <3> QED
      BY <2>1, <3>1, InvalidateFacts
  <2>3. u = without(s, b)
    <3> HIDE DEF n1
    <3> QED
      BY <1>1, <2>2 DEF Store
  <2>4. Entries(without(s, b)) = {e \in Entries(s) : e.block # b}
        /\ (Sorted(s) => Sorted(without(s, b)))
    BY <1>2, WithoutFacts
  <2> HIDE DEF s, u
  <2>5. Entries(u) = {e \in Entries(s) : e.block # b} /\ (Sorted(s) => Sorted(u))
    BY <2>3, <2>4
  <2>6. \A e \in Entries(s) : e.block \in ValidProof => e \in Entries(u)
    BY <1>5, <2>5
  <2> QED
    BY <2>5, <2>6 DEF s, u, b, m
<1> QED
  BY <1>3, <1>4, <1>5

(* Pruning keeps the best verified candidate and what is above it. *)
LEMMA PruneList ==
    ASSUME NEW n, Store(n)
    PROVE  LET s == n.ordered
               u == prune(n).ordered
           IN  /\ Entries(u) \subseteq Entries(s)
               /\ Sorted(s) =>
                     /\ Sorted(u)
                     /\ \A e \in Entries(s) \ Entries(u) :
                           \E f \in Entries(u) : /\ f.status = "SnarkVerifySuccess"
                                                 /\ f.block \in Better[e.block]
<1> DEFINE s == n.ordered
           u == prune(n).ordered
<1>1. CASE ~has_verified(n)
  <2>1. u = s
    BY <1>1 DEF prune
  <2> HIDE DEF s, u
  <2> QED
    BY <2>1 DEF s, u
<1>2. CASE has_verified(n)
  <2> DEFINE best == best_verified(n).block
             p == VerifiedIndex(n)
             I == {i \in 1..Len(s) : s[i].block = best}
             first == SelectInSeq(s, LAMBDA c : c.block = best)
  <2>1. s \in Seq(Checked) /\ Len(s) \in Nat /\ DOMAIN s = 1..Len(s)
    BY DEF Store
  <2>2. p \in I /\ s[p].status = "SnarkVerifySuccess"
    BY <1>2, <2>1, VerifiedFacts DEF best_verified
  <2>3. first = IF I # {} THEN Min(I) ELSE 0
    BY DEF SelectInSeq
  <2>4. I \in SUBSET (1..Len(s))
    OBVIOUS
  <2>5. u = SubSeq(s, first, Len(s))
    BY <1>2 DEF prune, Store
  <2>6. p \in 1..Len(s)
    BY <2>2
  <2> HIDE DEF I, first, best, p, s, u
  <2>7. first \in 1..Len(s) /\ first =< p
    <3>1. Min(I) \in I /\ Min(I) =< p
      BY <2>1, <2>2, <2>4, Extremes, LeastFirst
    <3> QED
      BY <2>2, <2>3, <2>4, <3>1
  <2> DEFINE d == first - 1
  <2>8. /\ d \in Nat /\ DOMAIN u = 1..(Len(s) - d)
        /\ \A i \in 1..(Len(s) - d) : i + d \in 1..Len(s) /\ u[i] = s[i + d]
    <3>1. /\ Len(u) = Len(s) - d /\ DOMAIN u = 1..Len(u)
          /\ \A i \in 1..(Len(s) - d) : u[i] = s[first + i - 1]
      BY <2>1, <2>5, <2>7
    <3>2. \A i \in 1..(Len(s) - d) : first + i - 1 = i + d /\ i + d \in 1..Len(s)
      BY <2>1, <2>7
    <3>3. d \in Nat
      BY <2>7
    <3> QED
      BY <3>1, <3>2, <3>3
  <2>9. \A k \in 1..Len(s) : first =< k => k - d \in 1..(Len(s) - d) /\ (k - d) + d = k
    BY <2>1, <2>7
  <2> HIDE DEF d
  <2>10. Entries(u) = {s[k] : k \in first..Len(s)}
    <3>1. \A i \in DOMAIN u : \E k \in first..Len(s) : u[i] = s[k]
      <4>1. \A i \in 1..(Len(s) - d) : i + d \in first..Len(s)
        BY <2>1, <2>7, <2>8 DEF d
      <4> QED
        BY <2>8, <4>1
    <3>2. \A k \in first..Len(s) : \E i \in DOMAIN u : u[i] = s[k]
      <4>1. \A k \in first..Len(s) : k \in 1..Len(s) /\ first =< k
        BY <2>1, <2>7
      <4> QED
        BY <2>8, <2>9, <4>1
    <3> QED
      BY <3>1, <3>2 DEF Entries
  <2>11. Entries(u) \subseteq Entries(s)
    <3>1. \A k \in first..Len(s) : k \in DOMAIN s
      BY <2>1, <2>7
    <3> QED
      BY <2>10, <3>1 DEF Entries
  <2>12. ASSUME Sorted(s) PROVE Sorted(u)
    <3> SUFFICES ASSUME NEW i \in DOMAIN u, NEW j \in DOMAIN u, i < j
                 PROVE  u[j].block \in Better[u[i].block]
      BY DEF Sorted
    <3>1. /\ i + d \in DOMAIN s /\ j + d \in DOMAIN s
          /\ u[i] = s[i + d] /\ u[j] = s[j + d]
      BY <2>1, <2>8
    <3>2. i + d < j + d
      BY <2>1, <2>8
    <3> QED
      BY <2>12, <3>1, <3>2 DEF Sorted
  <2>13. ASSUME Sorted(s), NEW e \in Entries(s) \ Entries(u)
         PROVE  \E f \in Entries(u) : /\ f.status = "SnarkVerifySuccess"
                                      /\ f.block \in Better[e.block]
    <3>1. PICK k \in DOMAIN s : e = s[k]
      BY DEF Entries
    <3>2. k < p /\ p \in DOMAIN s
      <4>1. k \notin first..Len(s)
        BY <2>10, <3>1
      <4> QED
        BY <2>1, <2>6, <2>7, <4>1
    <3>3. s[p].block \in Better[e.block]
      BY <2>13, <3>1, <3>2 DEF Sorted
    <3>4. s[p] \in Entries(u)
      <4>1. p \in first..Len(s)
        BY <2>1, <2>6, <2>7
      <4> QED
        BY <2>10, <4>1
    <3> QED
      BY <2>2, <3>3, <3>4
  <2> QED
    BY <2>11, <2>12, <2>13 DEF s, u
<1> QED
  BY <1>1, <1>2

-----------------------------------------------------------------------------
(* Between events a candidate waits for the verifier or is verified, and the   *)
(* genesis block is none.                                                      *)
Settled(n) ==
    \A e \in Entries(n.ordered) :
        e.block # Genesis /\ e.status \in {"SnarkVerifyPending", "SnarkVerifySuccess"}

TypesInv == IInv /\ Settled(node)

LEMMA ChainProofList ==
    ASSUME NEW n, Store(n), NEW b, has(n, b)
    PROVE  LET g == get(n, b)
               c == [g EXCEPT !.chain_proof = TRUE]
               s == n.ordered
               u == TransitionFrontierSyncTargetUpdate(update(n, b, c)).ordered
           IN  /\ g \in Entries(s) /\ c.block = g.block /\ c.status = g.status /\ c.req = g.req
               /\ g.block = b
               /\ Entries(u) \subseteq Entries(s) \cup {c}
               /\ BlocksOrdered /\ Sorted(s) =>
                     Sorted(u) /\ Entries(u) = {e \in Entries(s) : e.block # b} \cup {c}
<1> DEFINE g == get(n, b)
           c == [g EXCEPT !.chain_proof = TRUE]
           k == update(n, b, c)
<1>1. g \in Entries(n.ordered) /\ g \in Checked /\ g.block = b
  BY HasFacts DEF Store
<1> HIDE DEF g
<1>2. c \in Checked /\ c.block = b /\ c.status = g.status /\ c.req = g.req
  BY <1>1 DEF Checked
<1> HIDE DEF c
<1>3. Store(k)
  BY <1>2, UpdateFacts
<1>4. /\ Entries(k.ordered) \subseteq Entries(n.ordered) \cup {c}
      /\ BlocksOrdered /\ Sorted(n.ordered) =>
            /\ Sorted(k.ordered)
            /\ Entries(k.ordered) = {e \in Entries(n.ordered) : e.block # b} \cup {c}
  BY <1>2, UpdateList
<1>5. TransitionFrontierSyncTargetUpdate(k).ordered = k.ordered
  BY <1>3, TargetUpdateList
<1> HIDE DEF k
<1> QED
  BY <1>1, <1>2, <1>4, <1>5 DEF g, c, k

(* The steps that keep the list. *)
LEMMA OtherSteps ==
    ASSUME Store(node), CheckTimeouts \/ CommitInit \/ SyncFailed \/ Tick \/ UNCHANGED vars
    PROVE  node'.ordered = node.ordered /\ node'.jobs = node.jobs
<1>1. CASE CheckTimeouts
  BY <1>1, TargetUpdateList, TargetUpdateFacts DEF CheckTimeouts
<1>2. CASE CommitInit
  BY <1>2 DEF CommitInit, Store
<1>3. CASE SyncFailed
  BY <1>3 DEF SyncFailed, Store
<1>4. CASE Tick
  BY <1>4 DEF Tick, Store
<1>5. CASE UNCHANGED vars
  BY <1>5 DEF vars
<1> QED
  BY <1>1, <1>2, <1>3, <1>4, <1>5

(* A commit prunes the list. *)
LEMMA SyncedList ==
    ASSUME Store(node), Synced
    PROVE  LET s == node.ordered
               u == node'.ordered
           IN  /\ node'.jobs = node.jobs
               /\ Entries(u) \subseteq Entries(s)
               /\ Sorted(s) =>
                     /\ Sorted(u)
                     /\ \A e \in Entries(s) \ Entries(u) :
                           \E f \in Entries(u) : /\ f.status = "SnarkVerifySuccess"
                                                 /\ f.block \in Better[e.block]
<1> DEFINE n == [node EXCEPT !.best_tip = node.target, !.target = NoBlock, !.committing = FALSE]
<1>1. node' = prune(n)
  BY DEF Synced
<1>2. Store(n) /\ n.jobs = node.jobs /\ n.ordered = node.ordered
  BY DEF Synced, Store
<1> HIDE DEF n
<1> QED
  BY <1>1, <1>2, PruneFacts, PruneList

LEMMA NextSettled == TypesInv /\ [Next]_vars => Settled(node')
<1> SUFFICES ASSUME Store(node), Table(node.jobs), verifying = Asked(node.jobs),
                    Settled(node), [Next]_vars
             PROVE  Settled(node')
  BY DEF TypesInv, IInv
<1>1. ASSUME NEW b \in Blocks, P2pBestTipUpdate(b) PROVE Settled(node')
  <2>1. b # Genesis /\ ~contains(node, b) /\ node' = BlockReceived(node, b)
    BY <1>1 DEF P2pBestTipUpdate, BlockReceivedEnabled
  <2> DEFINE c == [block |-> b, status |-> "SnarkVerifyPending",
                   req |-> <<Jobs!next_req_id(node.jobs)>>, chain_proof |-> FALSE]
  <2>2. Entries(node'.ordered) \subseteq Entries(node.ordered) \cup {c}
    BY <2>1, ReceivedList
  <2>3. c.block = b /\ c.status = "SnarkVerifyPending"
    OBVIOUS
  <2> HIDE DEF c
  <2> QED
    BY <2>1, <2>2, <2>3 DEF Settled
<1>2. ASSUME NEW v \in verifying, VerifierAnswer(v) PROVE Settled(node')
  <2>1. \A e \in Entries(node'.ordered) :
           \/ e \in Entries(node.ordered)
           \/ /\ e.status = "SnarkVerifySuccess"
              /\ \E d \in Entries(node.ordered) : d.block = e.block
    BY <1>2, DoneList DEF VerifierAnswer
  <2> QED
    BY <2>1 DEF Settled
<1>3. ASSUME NEW b \in Blocks, BlockChainProofUpdate(b) PROVE Settled(node')
  <2> DEFINE g == get(node, b)
             c == [g EXCEPT !.chain_proof = TRUE]
  <2>1. /\ g \in Entries(node.ordered) /\ c.block = g.block /\ c.status = g.status
        /\ Entries(node'.ordered) \subseteq Entries(node.ordered) \cup {c}
    BY <1>3, ChainProofList DEF BlockChainProofUpdate
  <2> HIDE DEF g, c
  <2> QED
    BY <2>1 DEF Settled
<1>4. CASE CheckTimeouts \/ CommitInit \/ SyncFailed \/ Tick \/ UNCHANGED vars
  BY <1>4, OtherSteps DEF Settled
<1>5. CASE Synced
  <2>1. Entries(node'.ordered) \subseteq Entries(node.ordered)
    BY <1>5, SyncedList
  <2> QED
    BY <2>1 DEF Settled
<1> QED
  BY <1>1, <1>2, <1>3, <1>4, <1>5 DEF Next

(* For any blocks, consensus states and counter size: between events every     *)
(* candidate is with the verifier or verified and none is the genesis block,   *)
(* every job is Pending, a commit has a target, and the verifier's requests    *)
(* are about blocks and under ids of the table.                                *)
THEOREM CandidateTypes == Spec => []TypeOK
<1>1. Init => TypesInv
  <2> SUFFICES ASSUME Init PROVE Settled(node)
    BY InitIInv DEF TypesInv
  <2>1. Entries(node.ordered) = {}
    BY DEF Init, Entries
  <2> QED
    BY <2>1 DEF Settled
<1>2. TypesInv /\ [Next]_vars => TypesInv'
  BY NextIInv, NextSettled DEF TypesInv
<1>3. TypesInv => TypeOK
  <2> SUFFICES ASSUME TypesInv PROVE TypeOK
    OBVIOUS
  <2>1. Store(node) /\ Table(node.jobs) /\ verifying = Asked(node.jobs) /\ Settled(node)
    BY DEF TypesInv, IInv
  <2> DEFINE s == node.ordered
             t == node.jobs
  <2>2. \A i \in DOMAIN s : /\ s[i].block \in Blocks \ {Genesis}
                            /\ s[i].status \in {"SnarkVerifyPending", "SnarkVerifySuccess"}
    <3>1. s \in Seq(Checked) /\ \A i \in DOMAIN s : s[i] \in Checked /\ s[i] \in Entries(s)
      BY <2>1 DEF Store, Entries
    <3> HIDE DEF s
    <3> QED
      BY <2>1, <3>1 DEF Settled, Checked, s
  <2>3. \A id \in Jobs!ids(t) : Jobs!get(t, id).status = "Pending"
    BY <2>1 DEF Table, AllPending, Occupied, Jobs!ids, Jobs!get, Jobs!RequestId
  <2>4. Valid \subseteq Blocks /\ Genesis \in Blocks
    BY CandidateAssumption DEF Valid
  <2>5. ASSUME NEW v \in verifying PROVE v.id \in Ids /\ v.block \in Blocks
    <3>1. PICK l \in Occupied(t) :
              v = [id |-> [locator |-> l, counter |-> t.list[l][1].counter],
                   block |-> t.list[l][1].request.block]
      BY <2>1, AskedBySlot
    <3>2. /\ t.list \in Seq(JobSlots) /\ l \in DOMAIN t.list /\ t.list[l] # <<>>
          /\ DOMAIN t.list = 1..Len(t.list)
      BY <2>1 DEF Table, TableTypes, Occupied
    <3>3. t.list[l] \in JobSlots
      BY <3>2
    <3>4. PICK e \in JobEntry : t.list[l] = <<e>>
      BY <3>2, <3>3 DEF JobSlots
    <3>5. t.list[l][1] = e /\ e.counter \in Counters /\ e.request.block \in Blocks
      BY <3>4 DEF JobEntry, Request
    <3>6. /\ v.id = [locator |-> l, counter |-> e.counter]
          /\ v.block = e.request.block
      BY <3>1, <3>5
    <3> QED
      BY <3>2, <3>5, <3>6 DEF Ids, Counters
  <2>6. /\ node.invalid \subseteq Blocks /\ node.best_tip \in Blocks
        /\ node.target \in Blocks \cup {NoBlock} /\ node.cur_slot \in Times
        /\ node.committing => node.target # NoBlock
    BY <2>1, <2>4 DEF Store
  <2> QED
    BY <2>2, <2>3, <2>5, <2>6 DEF TypeOK
<1> QED
  BY <1>1, <1>2, <1>3, PTL DEF Spec

-----------------------------------------------------------------------------
(* The list where fork choice is an order.  That the list is sorted is needed  *)
(* for the others: in a list that is not, the search misses entries, updates   *)
(* leave copies behind, and an answer finds one of them only.                  *)

(* A candidate waits for a request that the verifier has. *)
Backed(n) ==
    \A e \in Entries(n.ordered) : e.status = "SnarkVerifyPending" =>
        \E id \in RequestIds : e.req = <<id>> /\ [id |-> id, block |-> e.block] \in Asked(n.jobs)

OrderInv == BlocksOrdered /\ IInv /\ Sorted(node.ordered) /\ Backed(node)

LEMMA InitOrderInv == BlocksOrdered /\ Init => OrderInv
<1> SUFFICES ASSUME BlocksOrdered, Init PROVE OrderInv
  OBVIOUS
<1>1. DOMAIN node.ordered = {}
  BY DEF Init
<1> QED
  BY <1>1, InitIInv DEF OrderInv, Sorted, Backed, Entries

LEMMA NextOrdered ==
    ASSUME OrderInv, [Next]_vars
    PROVE  Sorted(node'.ordered) /\ Backed(node')
<1>1. Store(node) /\ Table(node.jobs) /\ verifying = Asked(node.jobs)
      /\ BlocksOrdered /\ Sorted(node.ordered) /\ Backed(node)
  BY DEF OrderInv, IInv
<1> DEFINE s == node.ordered
           u == node'.ordered
<1>2. ASSUME node'.jobs = node.jobs, \A e \in Entries(u) : \E d \in Entries(s) :
                e.status = d.status /\ e.req = d.req /\ e.block = d.block
      PROVE  Backed(node')
  BY <1>1, <1>2 DEF Backed
<1>3. ASSUME NEW b \in Blocks, P2pBestTipUpdate(b) PROVE Sorted(u) /\ Backed(node')
  <2> DEFINE id == Jobs!next_req_id(node.jobs)
             c  == [block |-> b, status |-> "SnarkVerifyPending", req |-> <<id>>,
                    chain_proof |-> FALSE]
  <2>1. ~contains(node, b) /\ node' = BlockReceived(node, b)
    BY <1>3 DEF P2pBestTipUpdate, BlockReceivedEnabled
  <2>2. /\ Entries(u) = IF StartsVerification(node, b) THEN Entries(s) \cup {c} ELSE Entries(s)
        /\ Sorted(u)
    BY <1>1, <2>1, ReceivedList
  <2>3. /\ StartsVerification(node, b) =>
              Asked(node'.jobs) = Asked(node.jobs) \cup {[id |-> id, block |-> b]}
        /\ ~StartsVerification(node, b) => node'.jobs = node.jobs
    BY <1>1, <2>1, ReceivedFacts
  <2>4. id \in RequestIds
    BY <1>1, NextIdType
  <2>5. c.block = b /\ c.req = <<id>>
    OBVIOUS
  <2> HIDE DEF c, id
  <2>6. CASE ~StartsVerification(node, b)
    BY <1>1, <2>2, <2>3, <2>6 DEF Backed
  <2>7. CASE StartsVerification(node, b)
    BY <1>1, <2>2, <2>3, <2>4, <2>5, <2>7 DEF Backed
  <2> QED
    BY <2>2, <2>6, <2>7
<1>4. ASSUME NEW v \in verifying, VerifierAnswer(v) PROVE Sorted(u) /\ Backed(node')
  <2>1. /\ Sorted(u)
        /\ \A e \in Entries(u) : e.status = "SnarkVerifyPending" =>
                                     e \in Entries(s) /\ e.block # v.block
    BY <1>1, <1>4, DoneList DEF VerifierAnswer
  <2>2. Asked(node'.jobs) = Asked(node.jobs) \ {v}
    BY <1>1, <1>4, DoneFacts DEF VerifierAnswer
  <2> SUFFICES ASSUME NEW e \in Entries(u), e.status = "SnarkVerifyPending"
               PROVE  \E id \in RequestIds : /\ e.req = <<id>>
                                             /\ [id |-> id, block |-> e.block] \in Asked(node'.jobs)
    BY <2>1 DEF Backed
  <2>3. PICK id \in RequestIds : e.req = <<id>> /\ [id |-> id, block |-> e.block] \in Asked(node.jobs)
    BY <1>1, <2>1 DEF Backed
  <2>4. [id |-> id, block |-> e.block] # v
    <3>1. [id |-> id, block |-> e.block].block = e.block
      OBVIOUS
    <3> QED
      BY <2>1, <3>1
  <2> QED
    BY <2>2, <2>3, <2>4
<1>5. ASSUME NEW b \in Blocks, BlockChainProofUpdate(b) PROVE Sorted(u) /\ Backed(node')
  <2> DEFINE g == get(node, b)
             c == [g EXCEPT !.chain_proof = TRUE]
             k == update(node, b, c)
  <2>1. /\ g \in Entries(s) /\ c.block = g.block /\ c.status = g.status /\ c.req = g.req
        /\ Entries(u) \subseteq Entries(s) \cup {c} /\ Sorted(u)
    BY <1>1, <1>5, ChainProofList DEF BlockChainProofUpdate
  <2>2. node'.jobs = node.jobs
    <3>1. g \in Checked
      BY <1>1, <1>5, HasFacts DEF BlockChainProofUpdate, Store
    <3> HIDE DEF g
    <3>2. c \in Checked
      BY <3>1 DEF Checked
    <3> HIDE DEF c
    <3>3. Store(k) /\ k.jobs = node.jobs
      BY <1>1, <3>2, UpdateFacts
    <3>4. node' = TransitionFrontierSyncTargetUpdate(k)
      BY <1>5 DEF BlockChainProofUpdate, g, c
    <3> HIDE DEF k
    <3> QED
      BY <3>3, <3>4, TargetUpdateFacts
  <2> HIDE DEF g, c, k
  <2> QED
    BY <1>2, <2>1, <2>2
<1>6. CASE CheckTimeouts \/ CommitInit \/ SyncFailed \/ Tick \/ UNCHANGED vars
  BY <1>1, <1>2, <1>6, OtherSteps
<1>7. CASE Synced
  <2>1. node'.jobs = node.jobs /\ Entries(u) \subseteq Entries(s) /\ Sorted(u)
    BY <1>1, <1>7, SyncedList
  <2> QED
    BY <1>2, <2>1
<1> QED
  BY <1>3, <1>4, <1>5, <1>6, <1>7 DEF Next

LEMMA NextOrderInv == OrderInv /\ [Next]_vars => OrderInv'
<1> SUFFICES ASSUME OrderInv, [Next]_vars PROVE OrderInv'
  OBVIOUS
<1>1. IInv'
  BY NextIInv DEF OrderInv
<1>2. Sorted(node'.ordered) /\ Backed(node')
  BY NextOrdered
<1> QED
  BY <1>1, <1>2 DEF OrderInv

(* On short range forks consensus_take compares heights, then VRF outputs,     *)
(* then hashes, which are all different: this is an order, within an epoch and *)
(* across its end.                                                             *)
LEMMA ShortRangeOrdered == ShortRangeForks => BlocksOrdered
<1> SUFFICES ASSUME ShortRangeForks PROVE BlocksOrdered
  OBVIOUS
<1> DEFINE Less(a, b) == \/ CS[b].height > CS[a].height
                         \/ /\ CS[b].height = CS[a].height
                            /\ \/ CS[b].vrf > CS[a].vrf
                               \/ CS[b].vrf = CS[a].vrf /\ CS[b].hash > CS[a].hash
<1>1. \A a, b \in Blocks : consensus_take(CS[a], CS[b]) <=> Less(a, b)
  BY DEF ShortRangeForks, ShortRange, consensus_take, short_range_fork_take, TakeByVrf
<1>2. \A a, b \in Blocks : Less(a, b) => ~Less(b, a)
  BY CandidateAssumption
<1>3. \A a, b \in Blocks : a # b => Less(a, b) \/ Less(b, a)
  BY CandidateAssumption
<1>4. \A a, b, c \in Blocks : Less(a, b) /\ Less(b, c) => Less(a, c)
  BY CandidateAssumption
<1> HIDE DEF Less
<1> QED
  BY <1>1, <1>2, <1>3, <1>4 DEF BlocksOrdered, TotalOrder

(* As long as all blocks are short range forks of each other the candidates    *)
(* are ordered from worst to best and no block has two entries, whatever is    *)
(* received, verified, updated, rejected and pruned.  With a long range fork   *)
(* among them they need not be.                                                *)
THEOREM OrderTheorem == ShortRangeForks /\ Spec => []WorstToBest
<1>1. OrderInv => WorstToBest
  BY DEF OrderInv, Sorted, WorstToBest
<1> QED
  BY <1>1, ShortRangeOrdered, InitOrderInv, NextOrderInv, PTL DEF Spec

(* If fork choice is an order on the blocks, then a candidate that waits for   *)
(* the verifier has a job for its block that is still to be answered, although *)
(* slots are reused, the counter wraps around, and a block may be received     *)
(* again while a first job for it is running.                                  *)
THEOREM PendingTheorem == BlocksOrdered /\ Spec => []PendingHasJob
<1>1. OrderInv => PendingHasJob
  <2> SUFFICES ASSUME OrderInv, NEW i \in DOMAIN node.ordered,
                      node.ordered[i].status = "SnarkVerifyPending"
               PROVE  LET c == node.ordered[i]
                      IN  /\ Jobs!contains(node.jobs, c.req[1])
                          /\ Jobs!get(node.jobs, c.req[1]).block = c.block
                          /\ [id |-> c.req[1], block |-> c.block] \in verifying
    BY DEF PendingHasJob
  <2> DEFINE c == node.ordered[i]
  <2>1. Table(node.jobs) /\ verifying = Asked(node.jobs) /\ Backed(node) /\ c \in Entries(node.ordered)
    BY DEF OrderInv, IInv, Entries
  <2> HIDE DEF c
  <2>2. PICK id \in RequestIds : c.req = <<id>> /\ [id |-> id, block |-> c.block] \in Asked(node.jobs)
    BY <2>1 DEF Backed, c
  <2> DEFINE v == [id |-> id, block |-> c.block]
  <2>3. v.id = id /\ v.block = c.block /\ v \in Asked(node.jobs)
    BY <2>2
  <2>4. c.req[1] = id
    BY <2>2
  <2> HIDE DEF v
  <2>5. Jobs!contains(node.jobs, id) /\ Jobs!get(node.jobs, id).block = c.block
    BY <2>1, <2>3, FinishFacts
  <2> QED
    BY <2>1, <2>2, <2>4, <2>5 DEF c
<1> QED
  BY <1>1, InitOrderInv, NextOrderInv, PTL DEF Spec

(* If fork choice is an order on the blocks, then a candidate with a valid     *)
(* proof leaves the list only in favour of a better verified one that stays.   *)
THEOREM LostTheorem == BlocksOrdered /\ Spec => NothingBetterLost
<1> DEFINE Justified == \A b \in (Held \ Held') \cap ValidProof : \E v \in Verified' : v \in Better[b]
<1>1. OrderInv /\ [Next]_vars => Justified
  <2> SUFFICES ASSUME OrderInv, [Next]_vars, NEW b \in (Held \ Held') \cap ValidProof
               PROVE  \E v \in Verified' : v \in Better[b]
    OBVIOUS
  <2> DEFINE s == node.ordered
             u == node'.ordered
  <2>1. Store(node) /\ Table(node.jobs) /\ verifying = Asked(node.jobs)
        /\ BlocksOrdered /\ Sorted(s)
    BY DEF OrderInv, IInv
  <2>2. PICK e \in Entries(s) : e.block = b
    BY DEF Held, Entries
  <2>3. \A f \in Entries(u) : f.block # b
    BY DEF Held, Entries
  <2>4. ASSUME NEW f \in Entries(u), f.status = "SnarkVerifySuccess", f.block \in Better[b]
        PROVE  \E v \in Verified' : v \in Better[b]
    BY <2>4 DEF Verified, Entries
  <2>5. ASSUME NEW a \in Blocks, P2pBestTipUpdate(a) PROVE FALSE
    <3>1. ~contains(node, a) /\ node' = BlockReceived(node, a)
      BY <2>5 DEF P2pBestTipUpdate, BlockReceivedEnabled
    <3>2. Entries(s) \subseteq Entries(u)
      BY <2>1, <3>1, ReceivedList
    <3> QED
      BY <2>2, <2>3, <3>2
  <2>6. ASSUME NEW v \in verifying, VerifierAnswer(v) PROVE FALSE
    <3>1. \A d \in Entries(s) : d.block \in ValidProof => \E f \in Entries(u) : f.block = d.block
      BY <2>1, <2>6, DoneList DEF VerifierAnswer
    <3> QED
      BY <2>2, <2>3, <3>1
  <2>7. ASSUME NEW a \in Blocks, BlockChainProofUpdate(a) PROVE FALSE
    <3> DEFINE c == [get(node, a) EXCEPT !.chain_proof = TRUE]
    <3>1. /\ Entries(u) = {d \in Entries(s) : d.block # a} \cup {c}
          /\ c.block = get(node, a).block /\ get(node, a).block = a
      BY <2>1, <2>7, ChainProofList DEF BlockChainProofUpdate
    <3> HIDE DEF c
    <3> QED
      BY <2>2, <2>3, <3>1
  <2>8. CASE CheckTimeouts \/ CommitInit \/ SyncFailed \/ Tick \/ UNCHANGED vars
    <3>1. Entries(u) = Entries(s)
      BY <2>1, <2>8, OtherSteps
    <3> QED
      BY <2>2, <2>3, <3>1
  <2>9. CASE Synced
    <3>1. \A d \in Entries(s) \ Entries(u) :
             \E f \in Entries(u) : /\ f.status = "SnarkVerifySuccess"
                                   /\ f.block \in Better[d.block]
      BY <2>1, <2>9, SyncedList
    <3> QED
      BY <2>2, <2>3, <2>4, <3>1
  <2> QED
    BY <2>5, <2>6, <2>7, <2>8, <2>9 DEF Next
<1>2. OrderInv /\ [Next]_vars => [Justified]_vars
  BY <1>1
<1> QED
  BY <1>2, InitOrderInv, NextOrderInv, PTL DEF Spec, NothingBetterLost
=============================================================================
