-------------------------- MODULE NetworkPagesProofs --------------------------
(***************************************************************************)
(* Theorems about the pages of the network section, for all answers of     *)
(* the servers: the search for the connected sets of peers, the tables and *)
(* the requests of the pages.                                              *)
(***************************************************************************)
EXTENDS NetworkPages, LayoutProofs

-----------------------------------------------------------------------------
(* Sequences as sets.                                                      *)

LEMMA ConcatSet ==
    ASSUME NEW T, NEW s \in Seq(T), NEW t \in Seq(T)
    PROVE  s \o t \in Seq(T) /\ ToSet(s \o t) = ToSet(s) \cup ToSet(t)
<1> DEFINE u == s \o t
           m == Len(s)
           n == Len(t)
<1>0. m \in Nat /\ n \in Nat /\ DOMAIN s = 1..m /\ DOMAIN t = 1..n
  OBVIOUS
<1>1. /\ m \in Nat /\ n \in Nat /\ u \in Seq(T) /\ DOMAIN u = 1..(m + n) /\ DOMAIN s = 1..m /\ DOMAIN t = 1..n
      /\ \A i \in 1..(m + n) : u[i] = IF i =< m THEN s[i] ELSE t[i - m]
  <2>1. u \in Seq(T) /\ Len(u) = m + n
    OBVIOUS
  <2>2. DOMAIN u = 1..(m + n)
    BY <2>1
  <2>3. ASSUME NEW i \in 1..(m + n) PROVE u[i] = IF i =< m THEN s[i] ELSE t[i - m]
    OBVIOUS
  <2> QED
    BY <1>0, <2>1, <2>2, <2>3
<1> HIDE DEF u, m, n
<1>2. ASSUME NEW i \in 1..(m + n) PROVE u[i] \in ToSet(s) \cup ToSet(t)
  <2>1. CASE i =< m
    <3>1. i \in 1..m /\ u[i] = s[i]
      BY <1>1, <2>1
    <3> QED
      BY <1>1, <3>1 DEF ToSet
  <2>2. CASE ~ (i =< m)
    <3>1. i - m \in 1..n /\ u[i] = t[i - m]
      BY <1>1, <2>2
    <3> QED
      BY <1>1, <3>1 DEF ToSet
  <2> QED
    BY <2>1, <2>2
<1>3. ASSUME NEW i \in 1..m PROVE s[i] \in ToSet(u)
  <2>1. i \in 1..(m + n) /\ u[i] = s[i]
    BY <1>1
  <2> QED
    BY <1>1, <2>1 DEF ToSet
<1>4. ASSUME NEW i \in 1..n PROVE t[i] \in ToSet(u)
  <2>1. i + m \in 1..(m + n) /\ ~ (i + m =< m) /\ (i + m) - m = i
    BY <1>1
  <2>2. u[i + m] = t[i]
    BY <1>1, <2>1
  <2> QED
    BY <1>1, <2>1, <2>2 DEF ToSet
<1>5. ToSet(u) = {u[i] : i \in 1..(m + n)} /\ ToSet(s) = {s[i] : i \in 1..m} /\ ToSet(t) = {t[i] : i \in 1..n}
  BY <1>1 DEF ToSet
<1>6. ToSet(u) \subseteq ToSet(s) \cup ToSet(t)
  BY <1>2, <1>5
<1>7. ToSet(s) \subseteq ToSet(u) /\ ToSet(t) \subseteq ToSet(u)
  <2> DEFINE all == ToSet(u)
  <2> HIDE DEF all
  <2>1. (\A i \in 1..m : s[i] \in all) /\ \A i \in 1..n : t[i] \in all
    BY <1>3, <1>4 DEF all
  <2>2. ToSet(s) \subseteq all /\ ToSet(t) \subseteq all
    BY <1>5, <2>1
  <2> QED
    BY <2>2 DEF all
<1> QED
  BY <1>1, <1>6, <1>7 DEF u

LEMMA TailSet ==
    ASSUME NEW T, NEW s \in Seq(T), s # <<>>
    PROVE  /\ Head(s) \in T /\ Tail(s) \in Seq(T) /\ Len(s) \in Nat /\ Len(Tail(s)) \in Nat
           /\ Len(Tail(s)) = Len(s) - 1
           /\ ToSet(s) = {Head(s)} \cup ToSet(Tail(s))
<1> DEFINE u == Tail(s)
           n == Len(s)
<1>1. /\ n \in Nat /\ 1 =< n /\ Head(s) = s[1] /\ Head(s) \in T /\ u \in Seq(T) /\ Len(u) = n - 1
      /\ DOMAIN s = 1..n /\ DOMAIN u = 1..(n - 1) /\ \A i \in 1..(n - 1) : u[i] = s[i + 1]
  OBVIOUS
<1> HIDE DEF u, n
<1>2. ASSUME NEW i \in 1..n PROVE s[i] \in {Head(s)} \cup ToSet(u)
  <2>1. CASE i = 1
    BY <1>1, <2>1
  <2>2. CASE i # 1
    <3>1. i - 1 \in 1..(n - 1) /\ (i - 1) + 1 = i
      BY <1>1, <2>2
    <3>2. u[i - 1] = s[i]
      BY <1>1, <3>1
    <3> QED
      BY <1>1, <3>1, <3>2 DEF ToSet
  <2> QED
    BY <2>1, <2>2
<1>3. ASSUME NEW i \in 1..(n - 1) PROVE u[i] \in ToSet(s)
  <2>1. i + 1 \in 1..n
    BY <1>1
  <2> QED
    BY <1>1, <2>1 DEF ToSet
<1>4. Head(s) \in ToSet(s)
  <2>1. 1 \in 1..n
    BY <1>1
  <2> QED
    BY <1>1, <2>1 DEF ToSet
<1>5. ToSet(u) = {u[i] : i \in 1..(n - 1)} /\ ToSet(s) = {s[i] : i \in 1..n}
  BY <1>1 DEF ToSet
<1> QED
  BY <1>1, <1>2, <1>3, <1>4, <1>5 DEF u, n

\* A sequence is one of the elements it has.
LEMMA SequenceOf ==
    ASSUME NEW T, NEW s \in Seq(T), NEW U, ToSet(s) \subseteq U
    PROVE  s \in Seq(U)
<1>1. DOMAIN s = 1..Len(s) /\ Len(s) \in Nat /\ s = [i \in 1..Len(s) |-> s[i]]
  OBVIOUS
<1>2. \A i \in 1..Len(s) : s[i] \in U
  BY <1>1 DEF ToSet
<1>3. s \in [1..Len(s) -> U]
  BY <1>1, <1>2
<1> QED
  BY <1>1, <1>3, SeqDef
-----------------------------------------------------------------------------
(* The search for the connected sets.                                      *)

AddressesOf(s) == {p.address : p \in ToSet(s)}

Linked(a, b, links) ==
    \E l \in ToSet(links) : (l.source = a /\ l.target = b) \/ (l.source = b /\ l.target = a)

\* What removeDuplicatedPeers and the service make sure of.
Graph(peers, links) ==
    /\ peers \in Seq(ToSet(peers)) /\ Distinct(peers, "address") /\ links \in Seq(ToSet(links))
    /\ \A l \in ToSet(links) : l.source \in AddressesOf(peers) /\ l.target \in AddressesOf(peers)

LEMMA SameAddress ==
    ASSUME NEW peers, Distinct(peers, "address"), NEW p \in ToSet(peers), NEW q \in ToSet(peers), p.address = q.address
    PROVE  p = q
BY DEF Distinct, ToSet

\* What a peer puts into the queue: the peers at the other ends of its links that
\* have not been seen.
LEMMA QueuedPeers ==
    ASSUME NEW peers, NEW links, Graph(peers, links), NEW peer \in ToSet(peers), NEW seen, peer.address \in seen
    PROVE  LET q == queued(peer, seen, peers, links)
           IN  /\ q \in Seq(ToSet(peers)) /\ Len(q) \in Nat /\ Len(q) =< Len(links)
               /\ \A r \in ToSet(q) : r.address \notin seen /\ Linked(peer.address, r.address, links)
               /\ \A a : Linked(peer.address, a, links) /\ a \notin seen => a \in AddressesOf(q)
<1> DEFINE passing == {l \in ToSet(links) : Leads(l, peer.address, seen)}
           leading == filter(links, passing)
           other(l) == IF l.source = peer.address /\ l.target \notin seen THEN l.target ELSE l.source
           q == [i \in DOMAIN leading |-> find(peers, "address", other(leading[i]))]
<1>1. queued(peer, seen, peers, links) = q
  BY DEF queued
<1>2. links \in Seq(ToSet(links)) /\ peers \in Seq(ToSet(peers))
  BY DEF Graph
<1>3. leading \in Seq(ToSet(links)) /\ ToSet(leading) = ToSet(links) \cap passing /\ Len(leading) \in Nat /\ Len(leading) =< Len(links)
  <2> HIDE DEF passing
  <2> QED
    BY <1>2, FilterRows, FilterLength
<1> HIDE DEF leading
<1>4. DOMAIN leading = 1..Len(leading)
  BY <1>3
<1>5. ASSUME NEW l \in passing
      PROVE  /\ other(l) \notin seen /\ Linked(peer.address, other(l), links)
             /\ find(peers, "address", other(l)) \in ToSet(peers) /\ find(peers, "address", other(l)).address = other(l)
  <2>1. l \in ToSet(links) /\ Leads(l, peer.address, seen)
    OBVIOUS
  <2>2. other(l) \notin seen /\ other(l) \in {l.source, l.target}
    BY <2>1 DEF Leads
  <2>3. Linked(peer.address, other(l), links)
    BY <2>1 DEF Leads, Linked
  <2>4. other(l) \in AddressesOf(peers)
    BY <2>1, <2>2 DEF Graph
  <2> DEFINE o == other(l)
  <2> HIDE DEF o
  <2>5. \E r \in ToSet(peers) : r["address"] = o
    BY <2>4 DEF AddressesOf, o
  <2>6. find(peers, "address", o) \in ToSet(peers) /\ find(peers, "address", o)["address"] = o
    BY <1>2, <2>5, FindRow
  <2> QED
    BY <2>2, <2>3, <2>6 DEF o
<1>6. ASSUME NEW i \in 1..Len(leading) PROVE leading[i] \in passing
  BY <1>3, <1>4 DEF ToSet
<1>7. q \in Seq(ToSet(peers)) /\ Len(q) = Len(leading) /\ DOMAIN q = 1..Len(leading)
  <2>1. \A i \in 1..Len(leading) : q[i] \in ToSet(peers)
    <3> HIDE DEF other, passing
    <3> QED
      BY <1>4, <1>5, <1>6
  <2>2. q \in [1..Len(leading) -> ToSet(peers)]
    <3>1. q = [i \in 1..Len(leading) |-> q[i]]
      BY <1>4
    <3> HIDE DEF q
    <3> QED
      BY <2>1, <3>1
  <2> HIDE DEF q
  <2> QED
    BY <1>3, <2>2
<1>8. ASSUME NEW r \in ToSet(q) PROVE r.address \notin seen /\ Linked(peer.address, r.address, links)
  <2>1. PICK i \in 1..Len(leading) : r = q[i]
    <3> HIDE DEF q
    <3> QED
      BY <1>7 DEF ToSet
  <2>2. r = find(peers, "address", other(leading[i]))
    BY <1>4, <2>1
  <2> HIDE DEF other, passing, q
  <2> QED
    BY <1>5, <1>6, <2>2
<1>9. ASSUME NEW a, Linked(peer.address, a, links), a \notin seen PROVE a \in AddressesOf(q)
  <2>1. PICK l \in ToSet(links) : (l.source = peer.address /\ l.target = a) \/ (l.source = a /\ l.target = peer.address)
    BY <1>9 DEF Linked
  <2>2. l \in passing /\ other(l) = a
    BY <1>9, <2>1 DEF Leads
  <2>3. PICK i \in 1..Len(leading) : leading[i] = l
    <3>1. l \in ToSet(leading)
      BY <1>3, <2>2
    <3> QED
      BY <1>4, <3>1 DEF ToSet
  <2>4. q[i] = find(peers, "address", other(l))
    BY <1>4, <2>3
  <2>5. q[i].address = a
    <3> HIDE DEF other, passing, q
    <3> QED
      BY <1>5, <2>2, <2>4
  <2>6. q[i] \in ToSet(q)
    <3> HIDE DEF q
    <3> QED
      BY <1>7, <2>3 DEF ToSet
  <2> HIDE DEF q
  <2> QED
    BY <2>5, <2>6 DEF AddressesOf
<1> HIDE DEF q
<1> QED
  BY <1>1, <1>3, <1>7, <1>8, <1>9

SearchStates(peers) ==
    [queue: Seq(ToSet(peers)), set: Seq(ToSet(peers)), visited: SUBSET AddressesOf(peers)]

\* The set grows from its first peer: each further peer has a link to an earlier one.
Grown(set, links) ==
    \A i \in Nat : 1 < i /\ i =< Len(set) =>
        \E j \in Nat : 1 =< j /\ j < i /\ Linked(set[j].address, set[i].address, links)

\* What is found so far, with the peers visited before the search apart.
FoundFits(s, start, before, links) ==
    /\ s.visited = before \cup AddressesOf(s.set)
    /\ Distinct(s.set, "address")
    /\ AddressesOf(s.set) \cap before = {} /\ AddressesOf(s.queue) \cap before = {}
    /\ Grown(s.set, links)

\* Every link of a peer found leads to one that is visited or in the queue.
Followed(s, links) ==
    \A a \in AddressesOf(s.set) : \A b : Linked(a, b, links) => b \in s.visited \cup AddressesOf(s.queue)

\* Every peer in the queue has a link to one that is found, or is the first.
QueueFits(s, start, links) ==
    IF s.set = <<>> THEN s.queue = <<start>>
    ELSE /\ s.set[1] = start
         /\ \A q \in ToSet(s.queue) : \E j \in Nat : 1 =< j /\ j =< Len(s.set) /\ Linked(s.set[j].address, q.address, links)

\* The turns that are left.
TurnsFit(s, k, peers, links) ==
    s.queue = <<>> \/ Len(s.queue) + (Len(peers) - Len(s.set)) * Len(links) + k =< 1 + Len(peers) * Len(links)

SearchFits(s, k, start, before, peers, links) ==
    /\ s \in SearchStates(peers) /\ FoundFits(s, start, before, links) /\ Followed(s, links)
    /\ QueueFits(s, start, links) /\ TurnsFit(s, k, peers, links)

\* A turn that takes a peer that is already found.
LEMMA TurnAgain ==
    ASSUME NEW peers, NEW links, Graph(peers, links), NEW start, NEW before, NEW k \in Nat, NEW s,
           SearchFits(s, k, start, before, peers, links), s.queue # <<>>, Head(s.queue) \in ToSet(s.set)
    PROVE  SearchFits(searchTurn(s, peers, links), k + 1, start, before, peers, links)
<1> DEFINE t == searchTurn(s, peers, links)
           P == ToSet(peers)
<1>1. s \in SearchStates(peers) /\ s.queue \in Seq(P) /\ s.set \in Seq(P)
  BY DEF SearchFits, SearchStates
<1>2. /\ Head(s.queue) \in P /\ Tail(s.queue) \in Seq(P) /\ Len(s.queue) \in Nat /\ Len(Tail(s.queue)) \in Nat
      /\ Len(Tail(s.queue)) = Len(s.queue) - 1 /\ ToSet(s.queue) = {Head(s.queue)} \cup ToSet(Tail(s.queue))
  BY <1>1, TailSet
<1>3. t = [s EXCEPT !.queue = Tail(s.queue)]
  BY DEF searchTurn
<1>4. t \in SearchStates(peers) /\ t.queue = Tail(s.queue) /\ t.set = s.set /\ t.visited = s.visited
  BY <1>1, <1>2, <1>3 DEF SearchStates
<1> HIDE DEF t
<1>5. AddressesOf(s.queue) = {Head(s.queue).address} \cup AddressesOf(t.queue)
  BY <1>2, <1>4 DEF AddressesOf
<1>6. Head(s.queue).address \in AddressesOf(s.set)
  BY DEF AddressesOf
<1>7. FoundFits(t, start, before, links)
  BY <1>4, <1>5 DEF SearchFits, FoundFits
<1>8. Followed(t, links)
  <2>1. Head(s.queue).address \in s.visited
    BY <1>6 DEF SearchFits, FoundFits
  <2> QED
    BY <1>4, <1>5, <2>1 DEF SearchFits, Followed
<1>9. QueueFits(t, start, links)
  <2>1. s.set # <<>>
    BY DEF ToSet
  <2> QED
    BY <1>2, <1>4, <2>1 DEF SearchFits, QueueFits
<1>10. TurnsFit(t, k + 1, peers, links)
  <2> DEFINE x == (Len(peers) - Len(s.set)) * Len(links)
             y == 1 + Len(peers) * Len(links)
  <2>1. Len(s.queue) + x + k =< y
    BY DEF SearchFits, TurnsFit
  <2>2. x \in Int /\ y \in Int
    <3>1. Len(peers) \in Nat /\ Len(s.set) \in Nat /\ Len(links) \in Nat
      BY <1>1 DEF Graph
    <3> QED
      BY <3>1
  <2> HIDE DEF x, y
  <2>3. Len(t.queue) + x + (k + 1) =< y
    <3> DEFINE a == Len(s.queue)
               b == Len(t.queue)
    <3>1. a \in Nat /\ b = a - 1
      BY <1>2, <1>4
    <3>2. a + x + k =< y
      BY <2>1
    <3> HIDE DEF a, b
    <3>3. b + x + (k + 1) =< y
      BY <2>2, <3>1, <3>2
    <3> QED
      BY <3>3 DEF b
  <2>4. x = (Len(peers) - Len(t.set)) * Len(links)
    <3>1. Len(t.set) = Len(s.set)
      BY <1>4
    <3> QED
      BY <3>1, Zenon DEF x
  <2>5. Len(t.queue) + (Len(peers) - Len(t.set)) * Len(links) + (k + 1) =< y
    BY <2>3, <2>4
  <2> QED
    BY <2>5 DEF TurnsFit, y
<1> QED
  BY <1>4, <1>7, <1>8, <1>9, <1>10 DEF SearchFits, t

\* A turn that finds a peer.
LEMMA TurnFinds ==
    ASSUME NEW peers, NEW links, Graph(peers, links), NEW start, NEW before, NEW k \in Nat, NEW s,
           SearchFits(s, k, start, before, peers, links), s.queue # <<>>, Head(s.queue) \notin ToSet(s.set)
    PROVE  SearchFits(searchTurn(s, peers, links), k + 1, start, before, peers, links)
<1> DEFINE t == searchTurn(s, peers, links)
           P == ToSet(peers)
           peer == Head(s.queue)
           rest == Tail(s.queue)
           seen == s.visited \cup {peer.address}
           more == queued(peer, seen, peers, links)
           n == Len(s.set)
<1>1. /\ s \in SearchStates(peers) /\ s.queue \in Seq(P) /\ s.set \in Seq(P) /\ n \in Nat
      /\ s.visited \subseteq AddressesOf(peers)
  BY DEF SearchFits, SearchStates
<1>2. /\ peer \in P /\ rest \in Seq(P) /\ Len(s.queue) \in Nat /\ Len(rest) \in Nat
      /\ Len(rest) = Len(s.queue) - 1 /\ ToSet(s.queue) = {peer} \cup ToSet(rest)
  BY <1>1, TailSet
<1>3. t = [queue |-> rest \o more, set |-> Append(s.set, peer), visited |-> seen]
  BY DEF searchTurn
<1> HIDE DEF peer, rest
<1>4. /\ more \in Seq(P) /\ Len(more) \in Nat /\ Len(more) =< Len(links)
      /\ \A r \in ToSet(more) : r.address \notin seen /\ Linked(peer.address, r.address, links)
      /\ \A a : Linked(peer.address, a, links) /\ a \notin seen => a \in AddressesOf(more)
  <2>1. peer.address \in seen
    OBVIOUS
  <2> HIDE DEF seen
  <2> QED
    BY <1>2, <2>1, QueuedPeers
<1> HIDE DEF more
<1>5. /\ rest \o more \in Seq(P) /\ ToSet(rest \o more) = ToSet(rest) \cup ToSet(more)
      /\ Len(rest \o more) = Len(rest) + Len(more)
  BY <1>2, <1>4, ConcatSet
<1>6. /\ Append(s.set, peer) \in Seq(P) /\ ToSet(Append(s.set, peer)) = ToSet(s.set) \cup {peer}
      /\ Len(Append(s.set, peer)) = n + 1 /\ Append(s.set, peer)[n + 1] = peer
      /\ \A i \in 1..n : Append(s.set, peer)[i] = s.set[i]
  BY <1>1, <1>2, AppendSet
<1>7. peer.address \in AddressesOf(peers)
  BY <1>2 DEF AddressesOf
<1> DEFINE q1 == rest \o more
           s1 == Append(s.set, peer)
<1> HIDE DEF q1, s1, seen
<1>8. /\ t.queue = q1 /\ t.set = s1 /\ t.visited = seen /\ t \in SearchStates(peers)
  <2>1. t = [queue |-> q1, set |-> s1, visited |-> seen]
    BY <1>3 DEF q1, s1
  <2>2. q1 \in Seq(P) /\ s1 \in Seq(P) /\ seen \in SUBSET AddressesOf(peers)
    BY <1>1, <1>5, <1>6, <1>7 DEF q1, s1, seen
  <2> HIDE DEF t
  <2> QED
    BY <2>1, <2>2 DEF SearchStates
<1> HIDE DEF t
<1>9. /\ AddressesOf(s.queue) = {peer.address} \cup AddressesOf(rest)
      /\ AddressesOf(q1) = AddressesOf(rest) \cup AddressesOf(more)
      /\ AddressesOf(s1) = AddressesOf(s.set) \cup {peer.address}
  BY <1>2, <1>5, <1>6 DEF AddressesOf, q1, s1
<1>10. AddressesOf(more) \cap seen = {}
  BY <1>4 DEF AddressesOf
<1>11. \A r \in ToSet(s.set) : r.address # peer.address
  <2> SUFFICES ASSUME NEW r \in ToSet(s.set), r.address = peer.address PROVE FALSE
    OBVIOUS
  <2>1. r \in P
    BY <1>1 DEF ToSet
  <2>2. Distinct(peers, "address")
    BY DEF Graph
  <2>3. r = peer
    BY <1>2, <2>1, <2>2, SameAddress
  <2> QED
    BY <2>3 DEF peer
<1>12. FoundFits(s, start, before, links)
  BY DEF SearchFits
<1>13. /\ s.visited = before \cup AddressesOf(s.set) /\ AddressesOf(s.set) \cap before = {}
       /\ AddressesOf(s.queue) \cap before = {} /\ Distinct(s.set, "address") /\ Grown(s.set, links)
  BY <1>12 DEF FoundFits
<1>14. Grown(s1, links)
  <2> SUFFICES ASSUME NEW i \in Nat, 1 < i, i =< n + 1
               PROVE  \E j \in Nat : 1 =< j /\ j < i /\ Linked(s1[j].address, s1[i].address, links)
    BY <1>6 DEF Grown, s1
  <2>1. CASE i =< n
    <3>1. PICK j \in Nat : 1 =< j /\ j < i /\ Linked(s.set[j].address, s.set[i].address, links)
      BY <1>13, <2>1 DEF Grown
    <3>2. s1[j] = s.set[j] /\ s1[i] = s.set[i]
      BY <1>1, <1>6, <2>1, <3>1 DEF s1
    <3> QED
      BY <3>1, <3>2
  <2>2. CASE i = n + 1
    <3>1. s.set # <<>>
      BY <1>1, <2>2
    <3>2. peer \in ToSet(s.queue)
      BY <1>2
    <3>3. PICK j \in Nat : 1 =< j /\ j =< n /\ Linked(s.set[j].address, peer.address, links)
      BY <3>1, <3>2 DEF SearchFits, QueueFits
    <3>4. s1[j] = s.set[j] /\ s1[i] = peer /\ j < i
      BY <1>1, <1>6, <2>2, <3>3 DEF s1
    <3> QED
      BY <3>3, <3>4
  <2>3. i =< n \/ i = n + 1
    BY <1>1
  <2> QED
    BY <2>1, <2>2, <2>3
<1>15. FoundFits(t, start, before, links)
  <2>1. Distinct(s1, "address")
    <3>1. \A r \in ToSet(s.set) : r["address"] # peer["address"]
      BY <1>11
    <3> QED
      BY <1>1, <1>2, <1>13, <3>1, DistinctAppend DEF s1
  <2>2. t.visited = before \cup AddressesOf(s1)
    BY <1>8, <1>9, <1>13 DEF seen
  <2>3. AddressesOf(s1) \cap before = {} /\ AddressesOf(q1) \cap before = {}
    BY <1>9, <1>10, <1>13 DEF seen
  <2> QED
    BY <1>8, <1>14, <2>1, <2>2, <2>3 DEF FoundFits
<1>16. Followed(t, links)
  <2> SUFFICES ASSUME NEW a \in AddressesOf(s1), NEW b, Linked(a, b, links)
               PROVE  b \in seen \cup AddressesOf(q1)
    BY <1>8 DEF Followed
  <2>1. CASE a \in AddressesOf(s.set)
    <3>1. b \in s.visited \cup AddressesOf(s.queue)
      BY <2>1 DEF SearchFits, Followed
    <3> QED
      BY <1>9, <3>1 DEF seen
  <2>2. CASE a = peer.address
    BY <1>4, <1>9, <2>2
  <2> QED
    BY <1>9, <2>1, <2>2
<1>17. QueueFits(t, start, links)
  <2>1. s1 # <<>> /\ Len(s1) = n + 1
    <3>1. s1 \in Seq(P) /\ Len(s1) = n + 1
      BY <1>6 DEF s1
    <3>2. n + 1 # 0
      BY <1>1
    <3> HIDE DEF n
    <3> QED
      BY <3>1, <3>2
  <2>2. s1[1] = start
    <3>1. CASE s.set = <<>>
      <4>1. peer = start /\ n = 0
        BY <3>1 DEF SearchFits, QueueFits, peer
      <4> QED
        BY <1>6, <4>1 DEF s1
    <3>2. CASE s.set # <<>>
      <4>1. s.set[1] = start /\ 1 \in 1..n
        BY <1>1, <3>2 DEF SearchFits, QueueFits
      <4> QED
        BY <1>6, <4>1 DEF s1
    <3> QED
      BY <3>1, <3>2
  <2>3. ASSUME NEW q \in ToSet(q1)
        PROVE  \E j \in Nat : 1 =< j /\ j =< n + 1 /\ Linked(s1[j].address, q.address, links)
    <3>1. CASE q \in ToSet(more)
      <4>1. s1[n + 1] = peer /\ n + 1 \in Nat /\ 1 =< n + 1 /\ n + 1 =< n + 1
        BY <1>1, <1>6 DEF s1
      <4> QED
        BY <1>4, <3>1, <4>1
    <3>2. CASE q \in ToSet(rest)
      <4>1. s.set # <<>>
        <5> SUFFICES ASSUME s.set = <<>> PROVE FALSE
          OBVIOUS
        <5>1. s.queue = <<start>>
          BY DEF SearchFits, QueueFits
        <5>2. rest = <<>>
          BY <5>1 DEF rest
        <5> QED
          BY <3>2, <5>2 DEF ToSet
      <4>2. PICK j \in Nat : 1 =< j /\ j =< n /\ Linked(s.set[j].address, q.address, links)
        BY <1>2, <3>2, <4>1 DEF SearchFits, QueueFits
      <4>3. s1[j] = s.set[j] /\ j =< n + 1
        BY <1>1, <1>6, <4>2 DEF s1
      <4> QED
        BY <4>2, <4>3
    <3> QED
      BY <1>5, <3>1, <3>2 DEF q1
  <2> QED
    BY <1>8, <2>1, <2>2, <2>3 DEF QueueFits
<1>18. TurnsFit(t, k + 1, peers, links)
  <2> DEFINE L == Len(links)
             N == Len(peers)
             y == 1 + N * L
  <2>1. Len(s.queue) + (N - n) * L + k =< y
    BY DEF SearchFits, TurnsFit, peer
  <2>2. N \in Nat /\ L \in Nat
    BY DEF Graph
  <2> HIDE DEF L, N
  <2>3. (N - (n + 1)) * L = (N - n) * L - L /\ (N - n) * L \in Int /\ N * L \in Int
    BY <1>1, <2>2
  <2> DEFINE x == (N - n) * L
             z == N * L
  <2> HIDE DEF x, z
  <2>4. Len(q1) = Len(rest) + Len(more) /\ Len(more) =< L
    BY <1>4, <1>5 DEF q1, L
  <2>5. Len(q1) + (x - L) + (k + 1) =< 1 + z
    <3> DEFINE a == Len(s.queue)
               b == Len(q1)
               c == Len(more)
    <3>1. a \in Nat /\ c \in Nat /\ b = (a - 1) + c /\ c =< L
      BY <1>2, <1>4, <2>4
    <3>2. a + x + k =< 1 + z
      BY <2>1 DEF x, z
    <3>3. x \in Int /\ z \in Int
      BY <2>3 DEF x, z
    <3> HIDE DEF a, b, c
    <3>4. b + (x - L) + (k + 1) =< 1 + z
      BY <2>2, <3>1, <3>2, <3>3
    <3> QED
      BY <3>4 DEF b
  <2>6. Len(s1) = n + 1
    BY <1>6 DEF s1
  <2>7. (N - Len(t.set)) * L = x - L
    <3>1. Len(t.set) = n + 1
      BY <1>8, <2>6
    <3>2. (N - (n + 1)) * L = x - L
      BY <2>3 DEF x
    <3> QED
      BY <3>1, <3>2, Zenon
  <2>8. Len(t.queue) + (N - Len(t.set)) * L + (k + 1) =< 1 + z
    BY <1>8, <2>5, <2>7
  <2> QED
    BY <2>8 DEF TurnsFit, N, L, z
<1> QED
  BY <1>8, <1>15, <1>16, <1>17, <1>18 DEF SearchFits, t

LEMMA TurnFits ==
    ASSUME NEW peers, NEW links, Graph(peers, links), NEW start, NEW before, NEW k \in Nat, NEW s,
           SearchFits(s, k, start, before, peers, links)
    PROVE  SearchFits(searchTurn(s, peers, links), k + 1, start, before, peers, links)
<1>1. CASE s.queue = <<>>
  <2>1. searchTurn(s, peers, links) = s
    BY <1>1 DEF searchTurn
  <2> QED
    BY <1>1, <2>1 DEF SearchFits, TurnsFit
<1>2. CASE s.queue # <<>> /\ Head(s.queue) \in ToSet(s.set)
  BY <1>2, TurnAgain
<1>3. CASE s.queue # <<>> /\ Head(s.queue) \notin ToSet(s.set)
  BY <1>3, TurnFinds
<1> QED
  BY <1>1, <1>2, <1>3

\* The values of the function that searchSet defines.
LEMMA SearchEquation ==
    ASSUME NEW peers, NEW links, NEW start, NEW before, NEW X,
           [queue |-> <<start>>, set |-> <<>>, visited |-> before] \in X,
           \A s \in X : searchTurn(s, peers, links) \in X,
           Len(peers) \in Nat, Len(links) \in Nat
    PROVE  LET turns == 1 + Len(peers) * Len(links)
           IN  \E f : /\ searchSet(start, before, peers, links) = f[turns]
                      /\ f[0] = [queue |-> <<start>>, set |-> <<>>, visited |-> before]
                      /\ \A k \in 1..turns : f[k] = searchTurn(f[k - 1], peers, links)
<1> DEFINE turns == 1 + Len(peers) * Len(links)
           first == [queue |-> <<start>>, set |-> <<>>, visited |-> before]
           Turns(f) == f = [k \in 0..turns |-> IF k = 0 THEN first ELSE searchTurn(f[k - 1], peers, links)]
           G == [p \in (1..turns) \X X |-> searchTurn(p[2], peers, links)]
<1>1. turns \in Nat
  OBVIOUS
<1> HIDE DEF turns, first
<1>2. first \in X
  BY DEF first
<1>3. G \in [(1..turns) \X X -> X]
  OBVIOUS
<1>4. PICK f : f \in [0..turns -> X] /\ f[0] = first /\ \A i \in 1..turns : f[i] = G[<<i, f[i - 1]>>]
  <2> HIDE DEF G
  <2>1. \E f : Iterates(f, turns, X, first, G)
    BY <1>1, <1>2, <1>3, RecursiveValues
  <2> QED
    BY <2>1 DEF Iterates
<1>5. ASSUME NEW k \in 1..turns PROVE f[k] = searchTurn(f[k - 1], peers, links)
  <2>1. k - 1 \in 0..turns
    BY <1>1
  <2>2. <<k, f[k - 1]>> \in (1..turns) \X X
    BY <1>4, <2>1
  <2> QED
    BY <1>4, <2>2
<1>6. Turns(f)
  <2>1. \A k \in 0..turns : f[k] = IF k = 0 THEN first ELSE searchTurn(f[k - 1], peers, links)
    BY <1>1, <1>4, <1>5
  <2> QED
    BY <1>4, <2>1
<1> DEFINE after == CHOOSE g : Turns(g)
<1>7. Turns(after)
  <2> HIDE DEF Turns
  <2> QED
    BY <1>6
<1>8. searchSet(start, before, peers, links) = after[turns]
  BY DEF searchSet, turns, first
<1> HIDE DEF after
<1>9. after[0] = first /\ \A k \in 1..turns : after[k] = searchTurn(after[k - 1], peers, links)
  <2>1. 0 \in 0..turns /\ \A k \in 1..turns : k \in 0..turns /\ k # 0
    BY <1>1
  <2>2. \A k \in 0..turns : after[k] = IF k = 0 THEN first ELSE searchTurn(after[k - 1], peers, links)
    BY <1>7
  <2> QED
    BY <2>1, <2>2
<1> QED
  BY <1>8, <1>9 DEF turns, first

\* A set of addresses that no link leaves.
Closed(S, links) == \A l \in ToSet(links) : l.source \in S <=> l.target \in S

\* The search from a peer that is not visited yet ends with an empty queue, and has
\* found a set that no link leaves and that has grown from that peer.
LEMMA SearchResult ==
    ASSUME NEW peers, NEW links, Graph(peers, links), NEW start \in ToSet(peers),
           NEW before \in SUBSET AddressesOf(peers), Closed(before, links), start.address \notin before
    PROVE  LET r == searchSet(start, before, peers, links)
           IN  /\ r \in SearchStates(peers) /\ r.set # <<>> /\ Distinct(r.set, "address") /\ Grown(r.set, links)
               /\ r.visited = before \cup AddressesOf(r.set) /\ AddressesOf(r.set) \cap before = {}
               /\ r.set[1] = start
               /\ Closed(r.visited, links) /\ Closed(AddressesOf(r.set), links)
<1> DEFINE N == Len(peers)
           L == Len(links)
           turns == 1 + N * L
           first == [queue |-> <<start>>, set |-> <<>>, visited |-> before]
           Fits(s, k) == SearchFits(s, k, start, before, peers, links)
           X == {s \in SearchStates(peers) : \E k \in Nat : Fits(s, k)}
           r == searchSet(start, before, peers, links)
<1>1. N \in Nat /\ L \in Nat
  BY DEF Graph
<1>2. turns \in Nat /\ N * L \in Nat
  BY <1>1
<1>3. Fits(first, 0)
  <2>1. /\ first.queue = <<start>> /\ first.set = <<>> /\ first.visited = before
        /\ AddressesOf(<<>>) = {} /\ ToSet(<<start>>) = {start} /\ AddressesOf(<<start>>) = {start.address}
    BY DEF AddressesOf, ToSet
  <2>2. first \in SearchStates(peers)
    BY DEF SearchStates
  <2> HIDE DEF first
  <2>3. FoundFits(first, start, before, links)
    BY <2>1 DEF FoundFits, Distinct, Grown
  <2>4. Followed(first, links) /\ QueueFits(first, start, links)
    BY <2>1 DEF Followed, QueueFits
  <2>5. TurnsFit(first, 0, peers, links)
    <3>1. Len(<<start>>) = 1 /\ Len(<<>>) = 0
      OBVIOUS
    <3>2. 1 + (N - 0) * L + 0 =< 1 + N * L
      BY <1>1
    <3> QED
      BY <2>1, <3>1, <3>2 DEF TurnsFit
  <2> QED
    BY <2>2, <2>3, <2>4, <2>5 DEF SearchFits
<1>4. first \in X
  <2>1. first \in SearchStates(peers)
    BY <1>3 DEF SearchFits
  <2> HIDE DEF Fits, first
  <2> QED
    BY <1>3, <2>1
<1>5. ASSUME NEW s \in X PROVE searchTurn(s, peers, links) \in X
  <2>1. PICK k \in Nat : Fits(s, k)
    OBVIOUS
  <2>2. Fits(searchTurn(s, peers, links), k + 1) /\ k + 1 \in Nat
    BY <2>1, TurnFits
  <2>3. searchTurn(s, peers, links) \in SearchStates(peers)
    BY <2>2 DEF SearchFits
  <2> HIDE DEF Fits
  <2> QED
    BY <2>2, <2>3
<1>6. PICK f : r = f[turns] /\ f[0] = first /\ \A k \in 1..turns : f[k] = searchTurn(f[k - 1], peers, links)
  <2> HIDE DEF X
  <2> QED
    BY <1>1, <1>4, <1>5, SearchEquation
<1> HIDE DEF turns, first, r
<1> DEFINE Bad == {k \in 0..turns : ~ Fits(f[k], k)}
<1>7. Bad = {}
  <2> SUFFICES ASSUME Bad # {} PROVE FALSE
    OBVIOUS
  <2>1. PICK k \in Bad : \A m \in Bad : k =< m
    <3>1. Bad \in SUBSET Nat
      BY <1>2
    <3> HIDE DEF Bad
    <3> QED
      BY <3>1, LeastNatural
  <2>2. k # 0
    BY <1>3, <1>6, <2>1
  <2>3. k - 1 \in 0..turns /\ ~ (k =< k - 1) /\ k \in 1..turns /\ k - 1 \in Nat /\ (k - 1) + 1 = k
    BY <1>2, <2>1, <2>2
  <2>4. Fits(f[k - 1], k - 1)
    <3> HIDE DEF Fits
    <3> QED
      BY <2>1, <2>3
  <2>5. Fits(searchTurn(f[k - 1], peers, links), (k - 1) + 1)
    BY <2>3, <2>4, TurnFits
  <2> HIDE DEF Fits
  <2> QED
    BY <1>6, <2>1, <2>3, <2>5
<1>8. Fits(r, turns)
  <2>1. turns \in 0..turns
    BY <1>2
  <2> HIDE DEF Fits
  <2> QED
    BY <1>6, <1>7, <2>1
<1>9. /\ r \in SearchStates(peers) /\ FoundFits(r, start, before, links) /\ Followed(r, links)
      /\ QueueFits(r, start, links) /\ TurnsFit(r, turns, peers, links)
  BY <1>8 DEF SearchFits
<1>10. /\ r.queue \in Seq(ToSet(peers)) /\ r.set \in Seq(ToSet(peers)) /\ r.visited \subseteq AddressesOf(peers)
       /\ Len(r.queue) \in Nat /\ Len(r.set) \in Nat
  BY <1>9 DEF SearchStates
<1>11. Len(r.set) =< N
  <2>1. Distinct(r.set, "address") /\ peers \in Seq(ToSet(peers))
    BY <1>9 DEF FoundFits, Graph
  <2>2. ToSet(r.set) \subseteq ToSet(peers)
    BY <1>10 DEF ToSet
  <2> QED
    BY <1>10, <2>1, <2>2, DistinctFewer
<1>12. r.queue = <<>>
  <2> SUFFICES ASSUME r.queue # <<>> PROVE FALSE
    OBVIOUS
  <2> DEFINE n == Len(r.set)
             a == Len(r.queue)
             x == (N - n) * L
             z == N * L
  <2>1. a + x + turns =< 1 + z
    BY <1>9 DEF TurnsFit
  <2>2. N - n \in Nat
    BY <1>1, <1>10, <1>11
  <2>3. x \in Nat /\ z \in Nat /\ turns = 1 + z /\ a \in Nat
    <3> DEFINE d == N - n
    <3>1. d \in Nat
      BY <2>2
    <3> HIDE DEF d
    <3>2. d * L \in Nat
      BY <1>1, <3>1
    <3> QED
      BY <1>2, <1>10, <3>2 DEF d, turns
  <2> HIDE DEF a, x, z
  <2>4. a = 0
    BY <2>1, <2>3
  <2> QED
    BY <1>10, <2>4 DEF a
<1>13. r.set # <<>>
  <2> SUFFICES ASSUME r.set = <<>> PROVE FALSE
    OBVIOUS
  <2>1. r.queue = <<start>>
    BY <1>9 DEF QueueFits
  <2> QED
    BY <1>12, <2>1
<1>14. r.set[1] = start
  BY <1>9, <1>13 DEF QueueFits
<1>15. AddressesOf(r.queue) = {}
  BY <1>12 DEF AddressesOf, ToSet
<1>16. ASSUME NEW a \in AddressesOf(r.set), NEW b, Linked(a, b, links) PROVE b \in r.visited
  BY <1>9, <1>15, <1>16 DEF Followed
<1>17. ASSUME NEW l \in ToSet(links)
       PROVE  Linked(l.source, l.target, links) /\ Linked(l.target, l.source, links)
  BY DEF Linked
<1>18. r.visited = before \cup AddressesOf(r.set) /\ AddressesOf(r.set) \cap before = {}
  BY <1>9 DEF FoundFits
<1>19. Closed(AddressesOf(r.set), links)
  <2> SUFFICES ASSUME NEW l \in ToSet(links) PROVE l.source \in AddressesOf(r.set) <=> l.target \in AddressesOf(r.set)
    BY DEF Closed
  <2>1. l.source \in before <=> l.target \in before
    BY DEF Closed
  <2>2. l.source \in AddressesOf(r.set) => l.target \in AddressesOf(r.set)
    BY <1>16, <1>17, <1>18, <2>1
  <2>3. l.target \in AddressesOf(r.set) => l.source \in AddressesOf(r.set)
    BY <1>16, <1>17, <1>18, <2>1
  <2> QED
    BY <2>2, <2>3
<1>20. Closed(r.visited, links)
  BY <1>18, <1>19 DEF Closed
<1> QED
  BY <1>9, <1>13, <1>14, <1>18, <1>19, <1>20 DEF FoundFits, r

\* No set that the links do not leave divides what has grown from one peer.
LEMMA GrownTogether ==
    ASSUME NEW T, NEW t \in Seq(T), NEW links, Grown(t, links), NEW S, Closed(S, links),
           AddressesOf(t) \cap S # {}
    PROVE  AddressesOf(t) \subseteq S
<1> DEFINE n == Len(t)
           in(i) == t[i].address \in S
           Bad == {i \in 1..n : ~ (in(i) <=> in(1))}
<1>1. n \in Nat /\ DOMAIN t = 1..n
  OBVIOUS
<1>2. Bad = {}
  <2> SUFFICES ASSUME Bad # {} PROVE FALSE
    OBVIOUS
  <2>1. PICK i \in Bad : \A m \in Bad : i =< m
    <3>1. Bad \in SUBSET Nat
      BY <1>1
    <3> HIDE DEF Bad
    <3> QED
      BY <3>1, LeastNatural
  <2>2. i # 1 /\ i \in 1..n
    BY <2>1
  <2>3. i \in Nat /\ 1 < i /\ i =< Len(t)
    BY <1>1, <2>2
  <2>4. PICK j \in Nat : 1 =< j /\ j < i /\ Linked(t[j].address, t[i].address, links)
    BY <2>3 DEF Grown
  <2>5. in(j) <=> in(i)
    BY <2>4 DEF Linked, Closed
  <2>6. j \in 1..n /\ ~ (i =< j)
    BY <1>1, <2>3, <2>4
  <2>7. in(j) <=> in(1)
    <3> HIDE DEF in
    <3> QED
      BY <2>1, <2>6
  <2> HIDE DEF in
  <2> QED
    BY <2>1, <2>5, <2>7
<1>3. \A i \in 1..n : in(i) <=> in(1)
  <2> HIDE DEF in
  <2> QED
    BY <1>2
<1>4. PICK i \in 1..n : in(i)
  BY <1>1 DEF AddressesOf, ToSet
<1>5. \A k \in 1..n : in(k)
  <2> HIDE DEF in
  <2> QED
    BY <1>3, <1>4
<1> QED
  BY <1>1, <1>5 DEF AddressesOf, ToSet

\* A connected component: no link leaves it, and nothing that no link leaves
\* divides it.
Component(A, links) ==
    /\ A # {} /\ Closed(A, links)
    /\ \A S : Closed(S, links) /\ A \cap S # {} => A \subseteq S

\* The sets are connected components, and each of the addresses is in one of them.
SetsFit(sets, addresses, peers, links) ==
    /\ sets \in Seq(Seq(ToSet(peers)))
    /\ \A m \in DOMAIN sets : Component(AddressesOf(sets[m]), links)
    /\ \A m, k \in DOMAIN sets : m # k => AddressesOf(sets[m]) \cap AddressesOf(sets[k]) = {}
    /\ \A a : a \in addresses <=> \E m \in DOMAIN sets : a \in AddressesOf(sets[m])

SplitStates(peers) == [sets: Seq(Seq(ToSet(peers))), visited: SUBSET AddressesOf(peers)]

SplitFits(s, peers, links) ==
    /\ s \in SplitStates(peers) /\ Closed(s.visited, links) /\ SetsFit(s.sets, s.visited, peers, links)

Counted(peers) == \A p \in ToSet(peers) : p.outgoingConnections \in Int

LEMMA SortedPeers ==
    ASSUME NEW P, NEW set \in Seq(P), \A p \in P : p.outgoingConnections \in Int, NEW tableSort,
           tableSort.sortBy = "outgoingConnections"
    PROVE  sort(set, tableSort) \in Seq(P) /\ ToSet(sort(set, tableSort)) = ToSet(set)
           /\ AddressesOf(sort(set, tableSort)) = AddressesOf(set)
<1>1. Comparable(set, tableSort)
  BY DEF Comparable
<1>2. sort(set, tableSort) \in Seq(P) /\ ToSet(sort(set, tableSort)) = ToSet(set)
  BY <1>1, SortRows
<1> QED
  BY <1>2 DEF AddressesOf

LEMMA WithPeerFits ==
    ASSUME NEW peers, NEW links, Graph(peers, links), Counted(peers), NEW peer \in ToSet(peers), NEW s,
           SplitFits(s, peers, links)
    PROVE  LET t == withPeer(s, peer, peers, links)
           IN  SplitFits(t, peers, links) /\ s.visited \subseteq t.visited /\ peer.address \in t.visited
<1> DEFINE t == withPeer(s, peer, peers, links)
           P == ToSet(peers)
<1>1. CASE peer.address \in s.visited
  <2>1. t = s
    BY <1>1 DEF withPeer
  <2> QED
    BY <1>1, <2>1
<1>2. CASE peer.address \notin s.visited
  <2> DEFINE found == searchSet(peer, s.visited, peers, links)
             set == sort(found.set, initialSplits.sort)
             more == Append(s.sets, set)
             n == Len(s.sets)
  <2>1. t = [sets |-> more, visited |-> found.visited]
    BY <1>2 DEF withPeer
  <2>2. /\ s \in SplitStates(peers) /\ Closed(s.visited, links) /\ SetsFit(s.sets, s.visited, peers, links)
        /\ s.visited \in SUBSET AddressesOf(peers) /\ s.sets \in Seq(Seq(P))
    BY DEF SplitFits, SplitStates
  <2>3. /\ found \in SearchStates(peers) /\ found.set # <<>> /\ Grown(found.set, links)
        /\ found.visited = s.visited \cup AddressesOf(found.set) /\ AddressesOf(found.set) \cap s.visited = {}
        /\ found.set[1] = peer
        /\ Closed(found.visited, links) /\ Closed(AddressesOf(found.set), links)
    BY <1>2, <2>2, SearchResult
  <2> HIDE DEF found
  <2>4. found.set \in Seq(P) /\ found.visited \in SUBSET AddressesOf(peers)
    BY <2>3 DEF SearchStates
  <2>5. set \in Seq(P) /\ AddressesOf(set) = AddressesOf(found.set)
    <3>1. initialSplits.sort.sortBy = "outgoingConnections"
      BY DEF initialSplits
    <3> QED
      BY <2>4, <3>1, SortedPeers DEF Counted
  <2> HIDE DEF set
  <2>6. /\ n \in Nat /\ more \in Seq(Seq(P)) /\ DOMAIN s.sets = 1..n /\ DOMAIN more = 1..(n + 1)
        /\ more[n + 1] = set /\ \A m \in 1..n : more[m] = s.sets[m]
    BY <2>2, <2>5
  <2> HIDE DEF more, n
  <2>7. t \in SplitStates(peers) /\ t.sets = more /\ t.visited = found.visited
    <3> HIDE DEF t
    <3> QED
      BY <2>1, <2>4, <2>6 DEF SplitStates
  <2> HIDE DEF t
  <2>8. peer.address \in AddressesOf(found.set)
    <3>1. 1 \in DOMAIN found.set
      BY <2>3, <2>4
    <3>2. peer \in ToSet(found.set)
      BY <2>3, <3>1 DEF ToSet
    <3> QED
      BY <3>2 DEF AddressesOf
  <2>9. Component(AddressesOf(set), links)
    <3>1. ASSUME NEW S, Closed(S, links), AddressesOf(found.set) \cap S # {} PROVE AddressesOf(found.set) \subseteq S
      BY <2>3, <2>4, <3>1, GrownTogether
    <3> QED
      BY <2>3, <2>5, <2>8, <3>1 DEF Component
  <2>10. /\ \A m \in 1..n : Component(AddressesOf(s.sets[m]), links) /\ AddressesOf(s.sets[m]) \subseteq s.visited
         /\ \A m, k \in 1..n : m # k => AddressesOf(s.sets[m]) \cap AddressesOf(s.sets[k]) = {}
         /\ \A a : a \in s.visited <=> \E m \in 1..n : a \in AddressesOf(s.sets[m])
    BY <2>2, <2>6 DEF SetsFit
  <2>11. AddressesOf(set) \cap s.visited = {} /\ found.visited = s.visited \cup AddressesOf(set)
    BY <2>3, <2>5
  <2>12. \A m \in 1..(n + 1) : m \in 1..n \/ m = n + 1
    BY <2>6
  <2>13. \A m \in 1..(n + 1) : Component(AddressesOf(more[m]), links)
    BY <2>6, <2>9, <2>10, <2>12
  <2>14. \A m, k \in 1..(n + 1) : m # k => AddressesOf(more[m]) \cap AddressesOf(more[k]) = {}
    <3> SUFFICES ASSUME NEW m \in 1..(n + 1), NEW k \in 1..(n + 1), m # k
                 PROVE  AddressesOf(more[m]) \cap AddressesOf(more[k]) = {}
      OBVIOUS
    <3>1. CASE m \in 1..n /\ k \in 1..n
      BY <2>6, <2>10, <3>1
    <3>2. CASE m = n + 1 /\ k \in 1..n
      BY <2>6, <2>10, <2>11, <3>2
    <3>3. CASE m \in 1..n /\ k = n + 1
      BY <2>6, <2>10, <2>11, <3>3
    <3> QED
      BY <2>12, <3>1, <3>2, <3>3
  <2>15. ASSUME NEW a PROVE a \in found.visited <=> \E m \in 1..(n + 1) : a \in AddressesOf(more[m])
    <3>1. ASSUME a \in s.visited PROVE \E m \in 1..(n + 1) : a \in AddressesOf(more[m])
      <4>1. PICK m \in 1..n : a \in AddressesOf(s.sets[m])
        BY <2>10, <3>1
      <4>2. m \in 1..(n + 1) /\ more[m] = s.sets[m]
        BY <2>6
      <4> QED
        BY <4>1, <4>2
    <3>2. ASSUME a \in AddressesOf(set) PROVE \E m \in 1..(n + 1) : a \in AddressesOf(more[m])
      <4>1. n + 1 \in 1..(n + 1)
        BY <2>6
      <4> QED
        BY <2>6, <3>2, <4>1
    <3>3. ASSUME NEW m \in 1..(n + 1), a \in AddressesOf(more[m]) PROVE a \in found.visited
      <4>1. CASE m \in 1..n
        BY <2>6, <2>10, <2>11, <3>3, <4>1
      <4>2. CASE m = n + 1
        BY <2>6, <2>11, <3>3, <4>2
      <4> QED
        BY <2>12, <4>1, <4>2
    <3> QED
      BY <2>11, <3>1, <3>2, <3>3
  <2>16. SetsFit(more, found.visited, peers, links)
    BY <2>6, <2>13, <2>14, <2>15 DEF SetsFit
  <2> QED
    BY <2>3, <2>7, <2>8, <2>16 DEF SplitFits, t
<1> QED
  BY <1>1, <1>2

\* splitThePeers divides the peers into the connected components of the graph.
LEMMA SplitResult ==
    ASSUME NEW peers, NEW links, Graph(peers, links), Counted(peers)
    PROVE  SetsFit(splitThePeers(peers, links), AddressesOf(peers), peers, links)
<1> DEFINE n == Len(peers)
           first == [sets |-> <<>>, visited |-> {}]
           X == {s \in SplitStates(peers) : SplitFits(s, peers, links)}
           Turns(f) == f = [i \in 0..n |-> IF i = 0 THEN first ELSE withPeer(f[i - 1], peers[i], peers, links)]
           G == [p \in (1..n) \X X |-> withPeer(p[2], peers[p[1]], peers, links)]
<1>1. n \in Nat /\ DOMAIN peers = 1..n /\ \A i \in 1..n : peers[i] \in ToSet(peers)
  BY DEF Graph, ToSet
<1> HIDE DEF n
<1>2. first \in X
  <2>1. first \in SplitStates(peers)
    BY DEF SplitStates
  <2>2. first.sets = <<>> /\ first.visited = {}
    OBVIOUS
  <2> HIDE DEF first
  <2>3. SplitFits(first, peers, links)
    <3>1. DOMAIN <<>> = {} /\ <<>> \in Seq(Seq(ToSet(peers)))
      OBVIOUS
    <3> DEFINE none == <<>>
    <3> HIDE DEF none
    <3>2. DOMAIN none = {} /\ none \in Seq(Seq(ToSet(peers))) /\ first.sets = none
      BY <2>2, <3>1 DEF none
    <3>3. SetsFit(first.sets, first.visited, peers, links)
      BY <2>2, <3>2 DEF SetsFit
    <3> QED
      BY <2>1, <2>2, <3>3 DEF SplitFits, Closed
  <2> QED
    BY <2>1, <2>3
<1> HIDE DEF first
<1>3. ASSUME NEW s \in X, NEW i \in 1..n
      PROVE  LET t == withPeer(s, peers[i], peers, links)
             IN  t \in X /\ s.visited \subseteq t.visited /\ peers[i].address \in t.visited
  <2> DEFINE t == withPeer(s, peers[i], peers, links)
  <2>1. SplitFits(s, peers, links)
    OBVIOUS
  <2>2. SplitFits(t, peers, links) /\ s.visited \subseteq t.visited /\ peers[i].address \in t.visited
    BY <1>1, <2>1, WithPeerFits
  <2>3. t \in SplitStates(peers)
    BY <2>2 DEF SplitFits
  <2> HIDE DEF t
  <2> QED
    BY <2>2, <2>3 DEF t
<1>4. G \in [(1..n) \X X -> X]
  <2>1. \A p \in (1..n) \X X : withPeer(p[2], peers[p[1]], peers, links) \in X
    <3> SUFFICES ASSUME NEW p \in (1..n) \X X PROVE withPeer(p[2], peers[p[1]], peers, links) \in X
      OBVIOUS
    <3>1. p[1] \in 1..n /\ p[2] \in X
      OBVIOUS
    <3> HIDE DEF X
    <3> QED
      BY <1>3, <3>1
  <2> HIDE DEF X
  <2> QED
    BY <2>1
<1>5. PICK f : f \in [0..n -> X] /\ f[0] = first /\ \A i \in 1..n : f[i] = G[<<i, f[i - 1]>>]
  <2> HIDE DEF G, X
  <2>1. \E f : Iterates(f, n, X, first, G)
    BY <1>1, <1>2, <1>4, RecursiveValues
  <2> QED
    BY <2>1 DEF Iterates
<1> HIDE DEF X
<1>6. ASSUME NEW i \in 1..n PROVE f[i] = withPeer(f[i - 1], peers[i], peers, links)
  <2>1. i - 1 \in 0..n
    BY <1>1
  <2>2. <<i, f[i - 1]>> \in (1..n) \X X
    BY <1>5, <2>1
  <2> QED
    BY <1>5, <2>2
<1>7. Turns(f)
  <2>1. \A i \in 0..n : f[i] = IF i = 0 THEN first ELSE withPeer(f[i - 1], peers[i], peers, links)
    BY <1>1, <1>5, <1>6
  <2> QED
    BY <1>5, <2>1
<1> DEFINE after == CHOOSE g : Turns(g)
<1>8. Turns(after)
  <2> HIDE DEF Turns
  <2> QED
    BY <1>7
<1>9. splitThePeers(peers, links) = after[n].sets
  BY DEF splitThePeers, n, first
<1> HIDE DEF after
<1>10. \A i \in 0..n : after[i] = IF i = 0 THEN first ELSE withPeer(after[i - 1], peers[i], peers, links)
  BY <1>8
<1> HIDE DEF Turns, G
<1> DEFINE Fits(i) == after[i] \in X /\ \A j \in Nat : 1 =< j /\ j =< i => peers[j].address \in after[i].visited
           Bad == {i \in 0..n : ~ Fits(i)}
<1>11. Bad = {}
  <2> SUFFICES ASSUME Bad # {} PROVE FALSE
    OBVIOUS
  <2>1. PICK i \in Bad : \A m \in Bad : i =< m
    <3>1. Bad \in SUBSET Nat
      BY <1>1
    <3> HIDE DEF Bad
    <3> QED
      BY <3>1, LeastNatural
  <2>2. CASE i = 0
    <3>1. after[0] = first
      BY <1>1, <1>10
    <3>2. Fits(0)
      BY <1>2, <3>1
    <3> HIDE DEF Fits
    <3> QED
      BY <2>1, <2>2, <3>2
  <2>3. CASE i # 0
    <3>1. i - 1 \in 0..n /\ ~ (i =< i - 1) /\ i \in 1..n /\ i \in 0..n
      BY <1>1, <2>1, <2>3
    <3>2. Fits(i - 1)
      <4> HIDE DEF Fits
      <4> QED
        BY <2>1, <3>1
    <3>3. after[i] = withPeer(after[i - 1], peers[i], peers, links)
      BY <1>10, <2>3, <3>1
    <3>4. after[i] \in X /\ after[i - 1].visited \subseteq after[i].visited /\ peers[i].address \in after[i].visited
      <4>1. after[i - 1] \in X
        BY <3>2
      <4> QED
        BY <1>3, <3>1, <3>3, <4>1
    <3>5. ASSUME NEW j \in Nat, 1 =< j, j =< i PROVE peers[j].address \in after[i].visited
      <4>1. CASE j = i
        BY <3>4, <4>1
      <4>2. CASE j # i
        <5>1. j =< i - 1
          BY <3>1, <3>5, <4>2
        <5> QED
          BY <3>2, <3>4, <3>5, <5>1
      <4> QED
        BY <4>1, <4>2
    <3>6. Fits(i)
      BY <3>4, <3>5
    <3> HIDE DEF Fits
    <3> QED
      BY <2>1, <3>6
  <2> QED
    BY <2>2, <2>3
<1>12. Fits(n)
  <2>1. n \in 0..n
    BY <1>1
  <2> HIDE DEF Fits
  <2> QED
    BY <1>11, <2>1
<1>13. SetsFit(after[n].sets, after[n].visited, peers, links) /\ after[n].visited \in SUBSET AddressesOf(peers)
  BY <1>12 DEF X, SplitFits, SplitStates
<1>14. AddressesOf(peers) \subseteq after[n].visited
  <2> SUFFICES ASSUME NEW p \in ToSet(peers) PROVE p.address \in after[n].visited
    BY DEF AddressesOf
  <2>1. PICK j \in 1..n : p = peers[j]
    BY <1>1 DEF ToSet
  <2> QED
    BY <1>1, <1>12, <2>1
<1>15. after[n].visited = AddressesOf(peers)
  BY <1>13, <1>14
<1> QED
  BY <1>9, <1>13, <1>15

\* Sorting the sets leaves them what they are.
LEMMA SortedSets ==
    ASSUME NEW peers, NEW links, Counted(peers), NEW sets, NEW addresses, SetsFit(sets, addresses, peers, links),
           NEW tableSort, tableSort.sortBy = "outgoingConnections"
    PROVE  LET sorted == [i \in DOMAIN sets |-> sort(sets[i], tableSort)]
           IN  /\ SetsFit(sorted, addresses, peers, links)
               /\ DOMAIN sorted = DOMAIN sets /\ Len(sorted) = Len(sets)
               /\ \A i \in DOMAIN sets : ToSet(sorted[i]) = ToSet(sets[i])
<1> DEFINE sorted == [i \in DOMAIN sets |-> sort(sets[i], tableSort)]
           P == ToSet(peers)
           n == Len(sets)
<1>1. sets \in Seq(Seq(P)) /\ n \in Nat /\ DOMAIN sets = 1..n /\ DOMAIN sorted = 1..n
  BY DEF SetsFit
<1>2. ASSUME NEW i \in 1..n
      PROVE  /\ sorted[i] \in Seq(P) /\ ToSet(sorted[i]) = ToSet(sets[i])
             /\ AddressesOf(sorted[i]) = AddressesOf(sets[i])
  <2>1. sets[i] \in Seq(P) /\ sorted[i] = sort(sets[i], tableSort)
    BY <1>1
  <2> HIDE DEF sorted
  <2> QED
    BY <2>1, SortedPeers DEF Counted
<1> HIDE DEF n
<1>3. sorted \in Seq(Seq(P)) /\ Len(sorted) = n
  <2>1. sorted = [i \in 1..n |-> sorted[i]]
    BY <1>1
  <2> HIDE DEF sorted
  <2>2. sorted \in [1..n -> Seq(P)]
    BY <1>2, <2>1
  <2> QED
    BY <1>1, <2>2
<1> HIDE DEF sorted
<1>4. SetsFit(sorted, addresses, peers, links)
  BY <1>1, <1>2, <1>3 DEF SetsFit
<1> QED
  BY <1>1, <1>2, <1>3, <1>4 DEF sorted, n
-----------------------------------------------------------------------------
(* The page "Blocks".                                                      *)

LatenciesFit(rows) ==
    \A b \in ToSet(rows) : b.latency = b.timestamp - Min({c.timestamp : c \in ToSet(rows)})

LEMMA TableSoundness ==
    BlocksTableSound <=> SortedBy(blocks.filteredBlocks, blocks.sort) /\ LatenciesFit(blocks.filteredBlocks)
<1> DEFINE rows == blocks.filteredBlocks
           least == Min({c.timestamp : c \in ToSet(rows)})
           first == IF rows = <<>> THEN 0 ELSE least
<1>1. rows = <<>> => ToSet(rows) = {}
  <2>1. ToSet(<<>>) = {}
    BY DEF ToSet
  <2> QED
    BY <2>1
<1>2. BlocksTableSound <=> SortedBy(rows, blocks.sort) /\ \A b \in ToSet(rows) : b.latency = b.timestamp - first
  BY DEF BlocksTableSound
<1>3. LatenciesFit(rows) <=> \A b \in ToSet(rows) : b.latency = b.timestamp - least
  BY DEF LatenciesFit
<1> HIDE DEF rows, least
<1>4. (\A b \in ToSet(rows) : b.latency = b.timestamp - first) <=> \A b \in ToSet(rows) : b.latency = b.timestamp - least
  BY <1>1
<1> QED
  BY <1>2, <1>3, <1>4 DEF rows

LEMMA LeastOf ==
    ASSUME NEW S \in SUBSET Nat, S # {}
    PROVE  Min(S) \in S /\ \A y \in S : Min(S) =< y
BY LeastNatural DEF Min

\* applyNewLatencies leaves hashes and times alone.
LEMMA NewLatencies ==
    ASSUME NEW bs \in Seq(NetworkBlock), bs # <<>>
    PROVE  LET rows == applyNewLatencies(bs)
           IN  /\ rows \in Seq(NetworkBlock) /\ LatenciesFit(rows)
               /\ \A tableSort \in BlocksSorts : SortedBy(bs, tableSort) => SortedBy(rows, tableSort)
<1> DEFINE rows == applyNewLatencies(bs)
           n == Len(bs)
           times == {b.timestamp : b \in ToSet(bs)}
           fastest == Min(times)
<1>1. n \in Nat /\ DOMAIN bs = 1..n /\ \A i \in 1..n : bs[i] \in NetworkBlock /\ bs[i] \in ToSet(bs)
  BY DEF ToSet
<1>2. 1 \in 1..n
  OBVIOUS
<1>3. \A b \in ToSet(bs) : b \in NetworkBlock
  BY DEF ToSet
<1>4. times \in SUBSET Nat /\ times # {}
  BY <1>1, <1>2, <1>3 DEF NetworkBlock
<1>5. fastest \in Nat /\ \A t \in times : fastest =< t
  <2> HIDE DEF times
  <2> QED
    BY <1>4, LeastOf
<1>6. rows = [i \in 1..n |-> [bs[i] EXCEPT !.latency = bs[i].timestamp - fastest]]
  BY <1>1 DEF applyNewLatencies
<1> HIDE DEF rows, fastest, n
<1>7. ASSUME NEW i \in 1..n
      PROVE  /\ rows[i] \in NetworkBlock /\ rows[i].timestamp = bs[i].timestamp /\ rows[i].hash = bs[i].hash
             /\ rows[i].latency = rows[i].timestamp - fastest
  <2>1. rows[i] = [bs[i] EXCEPT !.latency = bs[i].timestamp - fastest] /\ bs[i] \in NetworkBlock
    BY <1>1, <1>6
  <2>2. bs[i].timestamp \in Nat /\ fastest =< bs[i].timestamp
    BY <1>1, <1>5, <2>1 DEF NetworkBlock
  <2>3. bs[i].timestamp - fastest \in Nat
    BY <1>5, <2>2
  <2> QED
    BY <2>1, <2>3 DEF NetworkBlock
<1>8. rows \in Seq(NetworkBlock) /\ DOMAIN rows = 1..n /\ Len(rows) = n
  <2>1. rows = [i \in 1..n |-> rows[i]]
    BY <1>6
  <2>2. rows \in [1..n -> NetworkBlock]
    BY <1>7, <2>1
  <2> QED
    BY <1>1, <2>2
<1>9. {b.timestamp : b \in ToSet(rows)} = times
  <2>1. ToSet(rows) = {rows[i] : i \in 1..n} /\ ToSet(bs) = {bs[i] : i \in 1..n}
    BY <1>1, <1>8 DEF ToSet
  <2> QED
    BY <1>7, <2>1
<1>10. LatenciesFit(rows)
  <2> SUFFICES ASSUME NEW b \in ToSet(rows) PROVE b.latency = b.timestamp - fastest
    BY <1>9 DEF LatenciesFit, fastest
  <2> QED
    BY <1>7, <1>8 DEF ToSet
<1>11. ASSUME NEW tableSort \in BlocksSorts, SortedBy(bs, tableSort) PROVE SortedBy(rows, tableSort)
  <2>1. \A i \in 1..n : rows[i][tableSort.sortBy] = bs[i][tableSort.sortBy]
    BY <1>7 DEF BlocksSorts
  <2> DEFINE key == tableSort.sortBy
             up == tableSort.sortDirection = "ascending"
  <2>2. \A i, j \in 1..n : i < j => IF up THEN bs[i][key] <= bs[j][key] ELSE bs[i][key] >= bs[j][key]
    BY <1>1, <1>11 DEF SortedBy
  <2>3. \A i \in 1..n : rows[i][key] = bs[i][key]
    BY <2>1
  <2> HIDE DEF key, up
  <2>4. \A i, j \in 1..n : i < j => IF up THEN rows[i][key] <= rows[j][key] ELSE rows[i][key] >= rows[j][key]
    BY <2>2, <2>3
  <2> QED
    BY <1>8, <2>4 DEF SortedBy, key, up
<1> QED
  BY <1>8, <1>10, <1>11 DEF rows

LEMMA MappedBlocks ==
    ASSUME NEW events \in BlockAnswers, NEW height \in Heights
    PROVE  mapBlocks(events, height) \in Seq(NetworkBlock) /\ LatenciesFit(mapBlocks(events, height))
<1> DEFINE n == Len(events)
           bs == [i \in DOMAIN events |->
                    [hash |-> events[i].hash, timestamp |-> events[i].time, height |-> height, latency |-> 0]]
<1>1. events \in Seq([hash: Nat, time: Nat])
  BY BlocksAssumption
<1>2. n \in Nat /\ DOMAIN events = 1..n /\ \A i \in 1..n : events[i] \in [hash: Nat, time: Nat]
  <2> DEFINE E == [hash: Nat, time: Nat]
  <2> HIDE DEF E
  <2>1. events \in Seq(E)
    BY <1>1 DEF E
  <2>2. n \in Nat /\ DOMAIN events = 1..n /\ \A i \in 1..n : events[i] \in E
    BY <2>1
  <2> QED
    BY <2>2 DEF E
<1>3. CASE events = <<>>
  <2>1. mapBlocks(events, height) = <<>>
    BY <1>3 DEF mapBlocks
  <2>2. <<>> \in Seq(NetworkBlock) /\ ToSet(<<>>) = {}
    BY DEF ToSet
  <2> DEFINE none == <<>>
  <2> HIDE DEF none
  <2>3. mapBlocks(events, height) = none /\ none \in Seq(NetworkBlock) /\ ToSet(none) = {}
    BY <2>1, <2>2 DEF none
  <2> QED
    BY <2>3 DEF LatenciesFit
<1>4. CASE events # <<>>
  <2>1. mapBlocks(events, height) = applyNewLatencies(bs)
    BY <1>4 DEF mapBlocks
  <2>2. \A i \in 1..n : bs[i] \in NetworkBlock
    BY <1>2 DEF NetworkBlock
  <2>3. bs = [i \in 1..n |-> bs[i]]
    BY <1>2
  <2>4. n # 0
    BY <1>1, <1>4
  <2> HIDE DEF bs, n
  <2>5. bs \in Seq(NetworkBlock) /\ Len(bs) = n
    <3>1. bs \in [1..n -> NetworkBlock]
      BY <2>2, <2>3
    <3> QED
      BY <1>2, <3>1
  <2>6. bs # <<>>
    BY <2>4, <2>5
  <2> QED
    BY <2>1, <2>5, <2>6, NewLatencies
<1> QED
  BY <1>3, <1>4

BlocksStateFits(b) ==
    b \in NetworkBlocksState /\ SortedBy(b.filteredBlocks, b.sort) /\ LatenciesFit(b.filteredBlocks)

LEMMA SortedBlocks ==
    ASSUME NEW rows \in Seq(NetworkBlock), NEW tableSort \in BlocksSorts
    PROVE  /\ sort(rows, tableSort) \in Seq(NetworkBlock) /\ ToSet(sort(rows, tableSort)) = ToSet(rows)
           /\ SortedBy(sort(rows, tableSort), tableSort)
           /\ LatenciesFit(rows) => LatenciesFit(sort(rows, tableSort))
<1>1. Comparable(rows, tableSort)
  <2>1. \A i \in DOMAIN rows : rows[i] \in NetworkBlock
    OBVIOUS
  <2> QED
    BY <2>1 DEF Comparable, NetworkBlock, BlocksSorts
<1>2. /\ sort(rows, tableSort) \in Seq(NetworkBlock) /\ ToSet(sort(rows, tableSort)) = ToSet(rows)
      /\ SortedBy(sort(rows, tableSort), tableSort)
  BY <1>1, SortRows
<1> QED
  BY <1>2 DEF LatenciesFit

\* What passes the filters of the toolbar.
LEMMA FilteredBlocks ==
    ASSUME NEW rows \in Seq(NetworkBlock), NEW filters
    PROVE  /\ getFilteredBlocks(rows, filters) \in Seq(NetworkBlock)
           /\ \A tableSort : SortedBy(rows, tableSort) => SortedBy(getFilteredBlocks(rows, filters), tableSort)
           /\ ToSet(getFilteredBlocks(rows, filters)) =
                 {b \in ToSet(rows) : filters = {} \/ b.hash \in filters}
<1> DEFINE passing == {b \in ToSet(rows) : b.hash \in filters}
<1>1. CASE filters = {}
  <2>1. getFilteredBlocks(rows, filters) = rows
    BY <1>1 DEF getFilteredBlocks
  <2> QED
    BY <1>1, <2>1
<1>2. CASE filters # {}
  <2>1. getFilteredBlocks(rows, filters) = filter(rows, passing)
    BY <1>2 DEF getFilteredBlocks
  <2>2. ToSet(rows) \cap passing = {b \in ToSet(rows) : filters = {} \/ b.hash \in filters}
    BY <1>2
  <2> HIDE DEF passing
  <2> QED
    BY <2>1, <2>2, FilterRows, FilterSorted
<1> QED
  BY <1>1, <1>2

LEMMA NoRows ==
    ASSUME NEW T, NEW s \in Seq(T)
    PROVE  s = <<>> <=> ToSet(s) = {}
<1>1. CASE s = <<>>
  <2>1. ToSet(<<>>) = {}
    BY DEF ToSet
  <2> QED
    BY <1>1, <2>1
<1>2. CASE s # <<>>
  <2>1. 1 \in DOMAIN s
    BY <1>2
  <2> QED
    BY <1>2, <2>1 DEF ToSet
<1> QED
  BY <1>1, <1>2

LEMMA BlocksAnswered ==
    ASSUME BlocksStateFits(blocks), NEW payload \in Seq(NetworkBlock), LatenciesFit(payload),
           blocks.activeFilters # {} => getFilteredBlocks(payload, blocks.activeFilters) # <<>>
    PROVE  LET b == GetBlocksSuccessReduced(payload)
           IN  BlocksStateFits(b) /\ b.activeBlock = blocks.activeBlock /\ b.activeFilters = blocks.activeFilters
<1> DEFINE b == GetBlocksSuccessReduced(payload)
           sorted == sort(payload, blocks.sort)
           filters == blocks.activeFilters
           filtered == getFilteredBlocks(sorted, filters)
           shown == IF filters # {} THEN applyNewLatencies(filtered) ELSE filtered
<1>1. blocks \in NetworkBlocksState /\ blocks.sort \in BlocksSorts
  BY DEF BlocksStateFits, NetworkBlocksState
<1>2. sorted \in Seq(NetworkBlock) /\ ToSet(sorted) = ToSet(payload) /\ SortedBy(sorted, blocks.sort) /\ LatenciesFit(sorted)
  BY <1>1, SortedBlocks
<1>3. b = [blocks EXCEPT !.blocks = sorted, !.filteredBlocks = shown]
  BY DEF GetBlocksSuccessReduced
<1> HIDE DEF sorted, b
<1>4. filtered \in Seq(NetworkBlock) /\ SortedBy(filtered, blocks.sort)
  BY <1>2, FilteredBlocks
<1>5. shown \in Seq(NetworkBlock) /\ SortedBy(shown, blocks.sort) /\ LatenciesFit(shown)
  <2>1. CASE filters = {}
    <3>1. filtered = sorted
      BY <2>1 DEF getFilteredBlocks
    <3> QED
      BY <1>2, <2>1, <3>1
  <2>2. CASE filters # {}
    <3>1. filtered # <<>>
      <4> DEFINE passed == getFilteredBlocks(payload, filters)
      <4>1. ToSet(passed) = ToSet(filtered) /\ passed \in Seq(NetworkBlock) /\ passed # <<>>
        <5>1. passed \in Seq(NetworkBlock) /\ ToSet(passed) = {r \in ToSet(payload) : filters = {} \/ r.hash \in filters}
          BY FilteredBlocks
        <5>2. ToSet(filtered) = {r \in ToSet(sorted) : filters = {} \/ r.hash \in filters}
          BY <1>2, FilteredBlocks
        <5>3. passed # <<>>
          BY <2>2
        <5> HIDE DEF passed, filtered, filters
        <5> QED
          BY <1>2, <5>1, <5>2, <5>3
      <4> HIDE DEF passed, filtered
      <4> QED
        BY <1>4, <4>1, NoRows
    <3> HIDE DEF filtered
    <3> QED
      BY <1>1, <1>4, <2>2, <3>1, NewLatencies
  <2> QED
    BY <2>1, <2>2
<1> HIDE DEF shown
<1>6. /\ b \in NetworkBlocksState /\ b.filteredBlocks = shown /\ b.sort = blocks.sort
      /\ b.activeBlock = blocks.activeBlock /\ b.activeFilters = blocks.activeFilters
  BY <1>1, <1>2, <1>3, <1>5 DEF NetworkBlocksState
<1> QED
  BY <1>5, <1>6 DEF BlocksStateFits, b

LEMMA ActiveBlockSet ==
    ASSUME NEW state, BlocksStateFits(state), NEW height \in Heights \cup {NoHeight}, NEW fetchNew \in BOOLEAN
    PROVE  LET b == SetActiveBlockReduced(state, height, fetchNew)
           IN  /\ BlocksStateFits(b) /\ b.activeBlock = height
               /\ b.activeFilters = IF fetchNew THEN {} ELSE state.activeFilters
<1> DEFINE b == SetActiveBlockReduced(state, height, fetchNew)
           filters == IF fetchNew THEN {} ELSE state.activeFilters
<1>1. state \in NetworkBlocksState
  BY DEF BlocksStateFits
<1>2. b = [state EXCEPT !.activeBlock = height, !.activeFilters = filters]
  BY <1>1 DEF SetActiveBlockReduced, NetworkBlocksState
<1>3. filters \in SUBSET Nat
  BY <1>1 DEF NetworkBlocksState
<1> HIDE DEF b, filters
<1>4. /\ b \in NetworkBlocksState /\ b.activeBlock = height /\ b.activeFilters = filters
      /\ b.filteredBlocks = state.filteredBlocks /\ b.sort = state.sort
  BY <1>1, <1>2, <1>3 DEF NetworkBlocksState
<1> QED
  BY <1>4 DEF BlocksStateFits, b, filters

LEMMA InitialBlocks == BlocksStateFits(initialBlocks)
<1> DEFINE none == <<>>
<1>1. none \in Seq(NetworkBlock) /\ ToSet(none) = {} /\ DOMAIN none = {}
  BY DEF ToSet
<1>2. initialBlocks.filteredBlocks = none
  BY DEF initialBlocks
<1>3. initialBlocks \in NetworkBlocksState
  BY DEF initialBlocks, NetworkBlocksState, BlocksSorts
<1> HIDE DEF none
<1> QED
  BY <1>1, <1>2, <1>3 DEF BlocksStateFits, LatenciesFit, SortedBy

BlockRequests == [height: Heights, stale: BOOLEAN]
EarliestRequests == [setActive: BOOLEAN, stale: BOOLEAN]

\* At most one request for blocks, patient timers, and a page that is not shown has
\* no filter and waits for nothing.
BlocksRequestsFit(req, fx, b, pg) ==
    /\ fx \in [waitingForServer: BOOLEAN, timer: BOOLEAN]
    /\ req \in [blocks: SUBSET BlockRequests, earliest: SUBSET EarliestRequests]
    /\ \A r, q \in req.blocks : r = q
    /\ req.blocks # {} => fx.waitingForServer
    /\ fx.timer => b.activeBlock \in Heights
    /\ pg \notin {"blocks", "ended"} => b.activeFilters = {} /\ \A r \in req.blocks : r.stale
    /\ \A r \in req.blocks : ~r.stale => r.height = b.activeBlock

BlocksFit == BlocksStateFits(blocks) /\ BlocksRequestsFit(blocksReq, blocksFx, blocks, page)

\* A page enters the empty outlet or leaves it.
PageMoves(p) == page' = page \/ (page = "none" /\ page' = p) \/ (page = p /\ page' = "none")

LEMMA StaleRequests ==
    ASSUME NEW requests \in SUBSET BlockRequests, \A r, q \in requests : r = q
    PROVE  /\ Stale(requests) \in SUBSET BlockRequests /\ \A r, q \in Stale(requests) : r = q
           /\ \A r \in Stale(requests) : r.stale
           /\ requests = {} => Stale(requests) = {}
BY DEF Stale, BlockRequests

LEMMA StaleEarliest ==
    ASSUME NEW requests \in SUBSET EarliestRequests
    PROVE  Stale(requests) \in SUBSET EarliestRequests
BY DEF Stale, EarliestRequests

LEMMA BlocksFitInit == LayoutInit /\ BlocksInit => BlocksFit
<1> SUFFICES ASSUME LayoutInit, BlocksInit PROVE BlocksFit
  OBVIOUS
<1>1. BlocksStateFits(blocks)
  BY InitialBlocks DEF BlocksInit
<1>2. blocks.activeFilters = {} /\ blocks.activeBlock = NoHeight
  BY DEF BlocksInit, initialBlocks
<1>3. BlocksRequestsFit(blocksReq, blocksFx, blocks, page)
  BY <1>2 DEF BlocksInit, BlocksRequestsFit
<1> QED
  BY <1>1, <1>3 DEF BlocksFit

LEMMA BlocksFetches ==
    ASSUME BlocksFit, page # "ended", NEW state, BlocksStateFits(state), NEW height \in Heights, getBlocks(state, height),
           state.activeBlock = height, page # "blocks" => state.activeFilters = {}, UNCHANGED page
    PROVE  BlocksFit'
<1> DEFINE r == [height |-> height, stale |-> page # "blocks"]
<1>1. /\ blocks' = state /\ blocksFx' = [blocksFx EXCEPT !.waitingForServer = TRUE]
      /\ blocksReq' = [blocksReq EXCEPT !.blocks = {r}] /\ page' = page
  BY DEF getBlocks, switchMap
<1>2. r \in BlockRequests /\ r.height = height /\ r.stale = (page # "blocks")
  BY DEF BlockRequests
<1> HIDE DEF r
<1>3. /\ blocksFx' \in [waitingForServer: BOOLEAN, timer: BOOLEAN] /\ blocksFx'.waitingForServer
      /\ blocksReq' \in [blocks: SUBSET BlockRequests, earliest: SUBSET EarliestRequests] /\ blocksReq'.blocks = {r}
  BY <1>1, <1>2 DEF BlocksFit, BlocksRequestsFit
<1>4. BlocksRequestsFit(blocksReq', blocksFx', blocks', page')
  BY <1>1, <1>2, <1>3 DEF BlocksRequestsFit
<1> QED
  BY <1>1, <1>4 DEF BlocksFit

LEMMA BlocksFitStep ==
    ASSUME BlocksFit, page # "ended", BlocksNext
    PROVE  /\ BlocksFit' /\ loading' = loading
           /\ PageMoves("blocks") \/ (page = "blocks" /\ page' = "ended")
<1> DEFINE fxs == [waitingForServer: BOOLEAN, timer: BOOLEAN]
           reqs == [blocks: SUBSET BlockRequests, earliest: SUBSET EarliestRequests]
           Fits == /\ BlocksFit' /\ loading' = loading
                   /\ PageMoves("blocks") \/ (page = "blocks" /\ page' = "ended")
<1>1. BlocksStateFits(blocks) /\ BlocksRequestsFit(blocksReq, blocksFx, blocks, page)
  BY DEF BlocksFit
<1>2. blocks \in NetworkBlocksState /\ blocksFx \in fxs /\ blocksReq \in reqs
  BY <1>1 DEF BlocksStateFits, BlocksRequestsFit
<1>3. ASSUME BlocksTick PROVE Fits
  <2>1. /\ blocksFx.timer /\ ~blocksFx.waitingForServer /\ getBlocks(blocks, blocks.activeBlock)
        /\ page' = page /\ loading' = loading
    BY <1>3 DEF BlocksTick, layoutVars
  <2>2. blocks.activeBlock \in Heights /\ (page # "blocks" => blocks.activeFilters = {})
    BY <1>1, <2>1 DEF BlocksRequestsFit
  <2>3. BlocksFit'
    BY <1>1, <2>1, <2>2, BlocksFetches
  <2> QED
    BY <2>1, <2>3 DEF PageMoves
<1>4. ASSUME GetBlocksSuccess PROVE Fits
  <2>1. PICK r \in blocksReq.blocks, events \in BlockAnswers :
           /\ blocksFx' = [blocksFx EXCEPT !.waitingForServer = FALSE]
           /\ blocksReq' = [blocksReq EXCEPT !.blocks = Completed(blocksReq.blocks, r)] /\ loading' = loading
           /\ IF blocks.activeFilters # {} /\ getFilteredBlocks(mapBlocks(events, r.height), blocks.activeFilters) = <<>>
              THEN page' = "ended" /\ blocks' = blocks
              ELSE blocks' = GetBlocksSuccessReduced(mapBlocks(events, r.height)) /\ page' = page
    BY <1>4 DEF GetBlocksSuccess, Throws
  <2> DEFINE payload == mapBlocks(events, r.height)
  <2>2. r \in BlockRequests /\ r.height \in Heights
    BY <1>2 DEF BlockRequests
  <2>3. payload \in Seq(NetworkBlock) /\ LatenciesFit(payload)
    BY <2>2, MappedBlocks
  <2>4. Completed(blocksReq.blocks, r) = {}
    BY <1>1 DEF BlocksRequestsFit, Completed
  <2>5. /\ blocksFx' \in fxs /\ blocksFx'.timer = blocksFx.timer
        /\ blocksReq' \in reqs /\ blocksReq'.blocks = {}
    BY <1>2, <2>1, <2>4
  <2> HIDE DEF payload
  <2>6. CASE blocks.activeFilters # {} /\ getFilteredBlocks(payload, blocks.activeFilters) = <<>>
    <3>1. page' = "ended" /\ blocks' = blocks
      BY <2>1, <2>6 DEF payload
    <3>2. page = "blocks"
      BY <1>1, <2>6 DEF BlocksRequestsFit
    <3>3. BlocksRequestsFit(blocksReq', blocksFx', blocks', page')
      BY <1>1, <2>5, <3>1 DEF BlocksRequestsFit
    <3> QED
      BY <1>1, <2>1, <3>1, <3>2, <3>3 DEF BlocksFit
  <2>7. CASE ~ (blocks.activeFilters # {} /\ getFilteredBlocks(payload, blocks.activeFilters) = <<>>)
    <3>1. page' = page /\ blocks' = GetBlocksSuccessReduced(payload)
      BY <2>1, <2>7 DEF payload
    <3>2. BlocksStateFits(blocks') /\ blocks'.activeBlock = blocks.activeBlock /\ blocks'.activeFilters = blocks.activeFilters
      BY <1>1, <2>3, <2>7, <3>1, BlocksAnswered
    <3>3. BlocksRequestsFit(blocksReq', blocksFx', blocks', page')
      BY <1>1, <2>5, <3>1, <3>2 DEF BlocksRequestsFit
    <3> QED
      BY <2>1, <3>1, <3>2, <3>3 DEF BlocksFit, PageMoves
  <2> QED
    BY <2>6, <2>7
<1>5. ASSUME GetBlocksError PROVE Fits
  <2> DEFINE none == <<>>
  <2>1. none \in Seq(NetworkBlock) /\ LatenciesFit(none)
    BY DEF LatenciesFit, ToSet
  <2>2. /\ blocksReq.blocks # {} /\ blocksReq' = [blocksReq EXCEPT !.blocks = {}] /\ blocksFx' = blocksFx /\ loading' = loading
        /\ IF blocks.activeFilters # {} THEN page' = "ended" /\ blocks' = blocks
           ELSE blocks' = GetBlocksSuccessReduced(none) /\ page' = page
    BY <1>5 DEF GetBlocksError, Throws, catchErrorAndRepeat
  <2> HIDE DEF none
  <2>3. blocksReq' \in reqs /\ blocksReq'.blocks = {}
    BY <1>2, <2>2
  <2>4. CASE blocks.activeFilters # {}
    <3>1. page' = "ended" /\ blocks' = blocks
      BY <2>2, <2>4
    <3>2. page = "blocks"
      BY <1>1, <2>4 DEF BlocksRequestsFit
    <3>3. BlocksRequestsFit(blocksReq', blocksFx', blocks', page')
      BY <1>1, <2>2, <2>3, <3>1 DEF BlocksRequestsFit
    <3> QED
      BY <1>1, <2>2, <3>1, <3>2, <3>3 DEF BlocksFit
  <2>5. CASE blocks.activeFilters = {}
    <3>1. page' = page /\ blocks' = GetBlocksSuccessReduced(none)
      BY <2>2, <2>5
    <3>2. BlocksStateFits(blocks') /\ blocks'.activeBlock = blocks.activeBlock /\ blocks'.activeFilters = blocks.activeFilters
      BY <1>1, <2>1, <2>5, <3>1, BlocksAnswered
    <3>3. BlocksRequestsFit(blocksReq', blocksFx', blocks', page')
      BY <1>1, <2>2, <2>3, <3>1, <3>2 DEF BlocksRequestsFit
    <3> QED
      BY <2>2, <3>1, <3>2, <3>3 DEF BlocksFit, PageMoves
  <2> QED
    BY <2>4, <2>5
<1>6. ASSUME GetEarliestBlockSuccess PROVE Fits
  <2>1. PICK r \in blocksReq.earliest, height \in Heights :
          /\ blocks' = (IF r.setActive THEN SetActiveBlockReduced([blocks EXCEPT !.earliestBlock = height], height, FALSE)
                                       ELSE [blocks EXCEPT !.earliestBlock = height])
          /\ blocksFx' = [blocksFx EXCEPT !.timer = blocksFx.timer \/ r.setActive]
          /\ blocksReq' = [earliest |-> Completed(blocksReq.earliest, r),
                           blocks |-> IF r.setActive THEN Stale(blocksReq.blocks) ELSE blocksReq.blocks]
          /\ page' = page /\ loading' = loading
    BY <1>2, <1>6 DEF GetEarliestBlockSuccess, layoutVars
  <2> DEFINE known == [blocks EXCEPT !.earliestBlock = height]
  <2>2. /\ known \in NetworkBlocksState /\ known.filteredBlocks = blocks.filteredBlocks /\ known.sort = blocks.sort
        /\ known.activeBlock = blocks.activeBlock /\ known.activeFilters = blocks.activeFilters
    BY <1>2 DEF NetworkBlocksState
  <2>3. blocks' = IF r.setActive THEN SetActiveBlockReduced(known, height, FALSE) ELSE known
    BY <2>1
  <2> HIDE DEF known
  <2>4. BlocksStateFits(known)
    BY <1>1, <2>2 DEF BlocksStateFits
  <2>5. r.setActive \in BOOLEAN
    BY <1>2 DEF EarliestRequests
  <2>6. Completed(blocksReq.earliest, r) \in SUBSET EarliestRequests
    BY <1>2 DEF Completed
  <2>7. blocksReq.blocks \in SUBSET BlockRequests /\ \A q, s \in blocksReq.blocks : q = s
    BY <1>1, <1>2 DEF BlocksRequestsFit
  <2>8. CASE r.setActive
    <3>1. /\ BlocksStateFits(blocks') /\ blocks'.activeBlock = height /\ blocks'.activeFilters = blocks.activeFilters
      BY <2>2, <2>3, <2>4, <2>8, ActiveBlockSet
    <3>2. blocksReq'.blocks = Stale(blocksReq.blocks) /\ blocksReq'.earliest = Completed(blocksReq.earliest, r)
      BY <2>1, <2>8
    <3>3. /\ blocksReq'.blocks \in SUBSET BlockRequests /\ \A q, s \in blocksReq'.blocks : q = s
          /\ \A q \in blocksReq'.blocks : q.stale
          /\ blocksReq.blocks = {} => blocksReq'.blocks = {}
      BY <2>7, <3>2, StaleRequests
    <3>4. blocksReq' \in reqs
      BY <2>1, <2>6, <3>2, <3>3
    <3>5. blocksFx' \in fxs /\ blocksFx'.waitingForServer = blocksFx.waitingForServer
      BY <1>2, <2>1, <2>5
    <3>6. BlocksRequestsFit(blocksReq', blocksFx', blocks', page')
      BY <1>1, <2>1, <3>1, <3>3, <3>4, <3>5 DEF BlocksRequestsFit
    <3> QED
      BY <2>1, <3>1, <3>6 DEF BlocksFit, PageMoves
  <2>9. CASE ~ r.setActive
    <3>1. BlocksStateFits(blocks') /\ blocks'.activeBlock = blocks.activeBlock /\ blocks'.activeFilters = blocks.activeFilters
      BY <2>2, <2>3, <2>4, <2>9
    <3>2. blocksReq' \in reqs /\ blocksReq'.blocks = blocksReq.blocks
      BY <1>2, <2>1, <2>6, <2>9
    <3>3. blocksFx' \in fxs /\ blocksFx'.waitingForServer = blocksFx.waitingForServer /\ (blocksFx'.timer => blocksFx.timer)
      BY <1>2, <2>1, <2>5, <2>9
    <3>4. BlocksRequestsFit(blocksReq', blocksFx', blocks', page')
      BY <1>1, <2>1, <3>1, <3>2, <3>3 DEF BlocksRequestsFit
    <3> QED
      BY <2>1, <3>1, <3>4 DEF BlocksFit, PageMoves
  <2> QED
    BY <2>8, <2>9
<1>7. ASSUME GetEarliestBlockError PROVE Fits
  <2>1. /\ blocks' = [blocks EXCEPT !.earliestBlock = NoHeight] /\ blocksReq' = [blocksReq EXCEPT !.earliest = {}]
        /\ blocksFx' = blocksFx /\ page' = page /\ loading' = loading
    BY <1>7 DEF GetEarliestBlockError, layoutVars, catchErrorAndRepeat
  <2>2. /\ blocks' \in NetworkBlocksState /\ blocks'.filteredBlocks = blocks.filteredBlocks /\ blocks'.sort = blocks.sort
        /\ blocks'.activeBlock = blocks.activeBlock /\ blocks'.activeFilters = blocks.activeFilters
    BY <1>2, <2>1 DEF NetworkBlocksState
  <2>3. blocksReq' \in reqs /\ blocksReq'.blocks = blocksReq.blocks
    BY <1>2, <2>1
  <2>4. BlocksStateFits(blocks') /\ BlocksRequestsFit(blocksReq', blocksFx', blocks', page')
    BY <1>1, <2>1, <2>2, <2>3 DEF BlocksRequestsFit, BlocksStateFits
  <2> QED
    BY <2>1, <2>4 DEF BlocksFit, PageMoves
<1>8. ASSUME NEW state, blocksReq' = earliestBlock(state)
      PROVE  blocksReq' \in reqs /\ blocksReq'.blocks = blocksReq.blocks
  <2> DEFINE r == [setActive |-> state.activeBlock = NoHeight, stale |-> FALSE]
  <2>1. blocksReq' = [blocksReq EXCEPT !.earliest = {r}]
    BY <1>8 DEF earliestBlock, switchMap
  <2>2. r \in EarliestRequests
    BY DEF EarliestRequests
  <2> HIDE DEF r
  <2> QED
    BY <1>2, <2>1, <2>2
<1>9. ASSUME BlocksOpen PROVE Fits
  <2>1. PICK height \in Heights \cup {NoHeight} :
          /\ page = "none" /\ page' = "blocks" /\ loading' = loading
          /\ blocks' = IF height = NoHeight THEN blocks ELSE SetActiveBlockReduced(blocks, height, FALSE)
          /\ blocksFx' = [blocksFx EXCEPT !.timer = blocksFx.timer \/ height # NoHeight]
          /\ blocksReq' = earliestBlock(blocks')
    BY <1>2, <1>9 DEF BlocksOpen, Enter
  <2>2. blocksReq' \in reqs /\ blocksReq'.blocks = blocksReq.blocks
    BY <1>8, <2>1
  <2>3. \A r \in blocksReq.blocks : r.stale
    BY <1>1, <2>1 DEF BlocksRequestsFit
  <2>4. /\ blocksFx' \in fxs /\ blocksFx'.waitingForServer = blocksFx.waitingForServer
        /\ blocksFx'.timer => blocksFx.timer \/ height # NoHeight
    BY <1>2, <2>1
  <2>5. /\ BlocksStateFits(blocks') /\ (height = NoHeight => blocks' = blocks)
        /\ height # NoHeight => blocks'.activeBlock \in Heights
    <3>1. CASE height = NoHeight
      BY <1>1, <2>1, <3>1
    <3>2. CASE height # NoHeight
      <4> DEFINE fetchNew == FALSE
      <4>1. fetchNew \in BOOLEAN /\ blocks' = SetActiveBlockReduced(blocks, height, fetchNew)
        BY <2>1, <3>2
      <4> HIDE DEF fetchNew
      <4>2. BlocksStateFits(blocks') /\ blocks'.activeBlock = height
        BY <1>1, <4>1, ActiveBlockSet
      <4> QED
        BY <3>2, <4>2
    <3> QED
      BY <3>1, <3>2
  <2>6. BlocksRequestsFit(blocksReq', blocksFx', blocks', page')
    BY <1>1, <2>1, <2>2, <2>3, <2>4, <2>5 DEF BlocksRequestsFit
  <2> QED
    BY <2>1, <2>5, <2>6 DEF BlocksFit, PageMoves
<1>10. ASSUME BlocksNodeChange PROVE Fits
  <2>1. /\ page = "blocks" /\ page' = page /\ loading' = loading /\ blocks' = blocks /\ blocksFx' = blocksFx
        /\ blocksReq' = earliestBlock(blocks)
    BY <1>10 DEF BlocksNodeChange, On
  <2>2. blocksReq' \in reqs /\ blocksReq'.blocks = blocksReq.blocks
    BY <1>8, <2>1
  <2>3. BlocksRequestsFit(blocksReq', blocksFx', blocks', page')
    BY <1>1, <2>1, <2>2 DEF BlocksRequestsFit
  <2> QED
    BY <1>1, <2>1, <2>3 DEF BlocksFit, PageMoves
<1>11. ASSUME BlocksClose PROVE Fits
  <2>1. /\ page = "blocks" /\ page' = "none" /\ loading' = loading /\ blocks' = initialBlocks
        /\ blocksFx' = [blocksFx EXCEPT !.timer = FALSE]
        /\ blocksReq' = [blocks |-> Stale(blocksReq.blocks), earliest |-> Stale(blocksReq.earliest)]
    BY <1>11 DEF BlocksClose, Leave
  <2>2. blocksReq.blocks \in SUBSET BlockRequests /\ \A q, s \in blocksReq.blocks : q = s
    BY <1>1, <1>2 DEF BlocksRequestsFit
  <2>3. blocksReq'.blocks = Stale(blocksReq.blocks) /\ blocksReq'.earliest = Stale(blocksReq.earliest)
    BY <2>1
  <2>4. /\ blocksReq'.blocks \in SUBSET BlockRequests /\ \A q, s \in blocksReq'.blocks : q = s
        /\ \A q \in blocksReq'.blocks : q.stale
        /\ blocksReq.blocks = {} => blocksReq'.blocks = {}
    BY <2>2, <2>3, StaleRequests
  <2>5. blocksReq'.earliest \in SUBSET EarliestRequests
    BY <1>2, <2>3, StaleEarliest
  <2>6. blocksReq' \in reqs
    BY <2>1, <2>3, <2>4, <2>5
  <2>7. blocksFx' \in fxs /\ blocksFx'.waitingForServer = blocksFx.waitingForServer /\ ~ blocksFx'.timer
    BY <1>2, <2>1
  <2>8. BlocksStateFits(blocks') /\ blocks'.activeFilters = {}
    BY <2>1, InitialBlocks DEF initialBlocks
  <2>9. BlocksRequestsFit(blocksReq', blocksFx', blocks', page')
    BY <1>1, <2>1, <2>4, <2>6, <2>7, <2>8 DEF BlocksRequestsFit
  <2> QED
    BY <2>1, <2>8, <2>9 DEF BlocksFit, PageMoves
<1>12. ASSUME BlocksSort PROVE Fits
  <2>1. PICK column \in {"hash", "timestamp"} :
          /\ page = "blocks" /\ page' = page /\ loading' = loading /\ blocksFx' = blocksFx /\ blocksReq' = blocksReq
          /\ blocks' = [blocks EXCEPT !.sort = sortTable(blocks.sort, column),
                                      !.filteredBlocks = sort(blocks.filteredBlocks, sortTable(blocks.sort, column))]
    BY <1>2, <1>12 DEF BlocksSort, On
  <2> DEFINE tableSort == sortTable(blocks.sort, column)
             rows == sort(blocks.filteredBlocks, tableSort)
  <2>2. tableSort \in BlocksSorts
    BY <1>2 DEF sortTable, NetworkBlocksState, BlocksSorts
  <2>3. rows \in Seq(NetworkBlock) /\ SortedBy(rows, tableSort) /\ LatenciesFit(rows)
    <3>1. blocks.filteredBlocks \in Seq(NetworkBlock) /\ LatenciesFit(blocks.filteredBlocks)
      BY <1>1, <1>2 DEF NetworkBlocksState, BlocksStateFits
    <3> HIDE DEF tableSort
    <3> QED
      BY <2>2, <3>1, SortedBlocks
  <2>4. blocks' = [blocks EXCEPT !.sort = tableSort, !.filteredBlocks = rows]
    BY <2>1
  <2> HIDE DEF tableSort, rows
  <2>5. /\ blocks' \in NetworkBlocksState /\ blocks'.filteredBlocks = rows /\ blocks'.sort = tableSort
        /\ blocks'.activeBlock = blocks.activeBlock /\ blocks'.activeFilters = blocks.activeFilters
    BY <1>2, <2>2, <2>3, <2>4 DEF NetworkBlocksState
  <2>6. BlocksStateFits(blocks') /\ BlocksRequestsFit(blocksReq', blocksFx', blocks', page')
    BY <1>1, <2>1, <2>3, <2>5 DEF BlocksRequestsFit, BlocksStateFits
  <2> QED
    BY <2>1, <2>6 DEF BlocksFit, PageMoves
<1>13. ASSUME BlocksToggleFilter PROVE Fits
  <2> DEFINE filters(f) == IF f \in blocks.activeFilters THEN blocks.activeFilters \ {f} ELSE blocks.activeFilters \cup {f}
  <2>1. PICK f \in {b.hash : b \in ToSet(blocks.blocks)} :
          /\ page = "blocks" /\ loading' = loading /\ blocksFx' = blocksFx /\ blocksReq' = blocksReq
          /\ IF getFilteredBlocks(blocks.blocks, filters(f)) = <<>> THEN page' = "ended" /\ blocks' = blocks
             ELSE /\ page' = page
                  /\ blocks' = [blocks EXCEPT !.activeFilters = filters(f),
                        !.filteredBlocks = applyNewLatencies(sort(getFilteredBlocks(blocks.blocks, filters(f)), blocks.sort))]
    BY <1>13 DEF BlocksToggleFilter, Throws
  <2> DEFINE chosen == filters(f)
             passed == getFilteredBlocks(blocks.blocks, chosen)
             sorted == sort(passed, blocks.sort)
             rows == applyNewLatencies(sorted)
  <2>2. blocks.blocks \in Seq(NetworkBlock) /\ blocks.sort \in BlocksSorts /\ blocks.activeFilters \in SUBSET Nat
    BY <1>2 DEF NetworkBlocksState
  <2>3. chosen \in SUBSET Nat
    <3>1. \A b \in ToSet(blocks.blocks) : b \in NetworkBlock
      BY <2>2 DEF ToSet
    <3>2. f \in Nat
      BY <3>1 DEF NetworkBlock
    <3> QED
      BY <2>2, <3>2
  <2>4. IF passed = <<>> THEN page' = "ended" /\ blocks' = blocks
        ELSE page' = page /\ blocks' = [blocks EXCEPT !.activeFilters = chosen, !.filteredBlocks = rows]
    BY <2>1
  <2> HIDE DEF chosen
  <2>5. passed \in Seq(NetworkBlock)
    BY <2>2, FilteredBlocks
  <2> HIDE DEF passed
  <2>6. sorted \in Seq(NetworkBlock) /\ ToSet(sorted) = ToSet(passed) /\ SortedBy(sorted, blocks.sort)
    BY <2>2, <2>5, SortedBlocks
  <2> HIDE DEF sorted
  <2>7. CASE passed = <<>>
    <3>1. page' = "ended" /\ blocks' = blocks
      BY <2>4, <2>7
    <3>2. BlocksRequestsFit(blocksReq', blocksFx', blocks', page')
      BY <1>1, <2>1, <3>1 DEF BlocksRequestsFit
    <3> QED
      BY <1>1, <2>1, <3>1, <3>2 DEF BlocksFit
  <2>8. CASE passed # <<>>
    <3>1. sorted # <<>>
      BY <2>5, <2>6, <2>8, NoRows
    <3>2. rows \in Seq(NetworkBlock) /\ SortedBy(rows, blocks.sort) /\ LatenciesFit(rows)
      BY <2>2, <2>6, <3>1, NewLatencies
    <3> HIDE DEF rows
    <3>3. page' = page /\ blocks' = [blocks EXCEPT !.activeFilters = chosen, !.filteredBlocks = rows]
      BY <2>4, <2>8
    <3>4. /\ blocks' \in NetworkBlocksState /\ blocks'.filteredBlocks = rows /\ blocks'.sort = blocks.sort
          /\ blocks'.activeBlock = blocks.activeBlock
      BY <1>2, <2>3, <3>2, <3>3 DEF NetworkBlocksState
    <3>5. BlocksStateFits(blocks') /\ BlocksRequestsFit(blocksReq', blocksFx', blocks', page')
      BY <1>1, <2>1, <3>2, <3>3, <3>4 DEF BlocksRequestsFit, BlocksStateFits
    <3> QED
      BY <2>1, <3>3, <3>5 DEF BlocksFit, PageMoves
  <2> QED
    BY <2>7, <2>8
<1>14. ASSUME BlocksToggleSidePanel PROVE Fits
  <2>1. /\ page = "blocks" /\ page' = page /\ loading' = loading /\ blocksFx' = blocksFx /\ blocksReq' = blocksReq
        /\ blocks' = [blocks EXCEPT !.openSidePanel = ~ blocks.openSidePanel]
    BY <1>14 DEF BlocksToggleSidePanel, On
  <2>2. /\ blocks' \in NetworkBlocksState /\ blocks'.filteredBlocks = blocks.filteredBlocks /\ blocks'.sort = blocks.sort
        /\ blocks'.activeBlock = blocks.activeBlock /\ blocks'.activeFilters = blocks.activeFilters
    BY <1>2, <2>1 DEF NetworkBlocksState
  <2>3. BlocksStateFits(blocks') /\ BlocksRequestsFit(blocksReq', blocksFx', blocks', page')
    BY <1>1, <2>1, <2>2 DEF BlocksRequestsFit, BlocksStateFits
  <2> QED
    BY <2>1, <2>3 DEF BlocksFit, PageMoves
<1>15. ASSUME BlocksGetBlock PROVE Fits
  <2>1. PICK height \in Heights :
          /\ page = "blocks" /\ page' = page /\ loading' = loading
          /\ getBlocks(SetActiveBlockReduced(blocks, height, TRUE), height)
    BY <1>15 DEF BlocksGetBlock, On
  <2> DEFINE fetchNew == TRUE
             state == SetActiveBlockReduced(blocks, height, fetchNew)
  <2>2. fetchNew \in BOOLEAN /\ getBlocks(state, height)
    BY <2>1
  <2> HIDE DEF fetchNew
  <2>3. BlocksStateFits(state) /\ state.activeBlock = height
    BY <1>1, <2>2, ActiveBlockSet
  <2> HIDE DEF state
  <2>4. BlocksFit'
    BY <2>1, <2>2, <2>3, BlocksFetches
  <2> QED
    BY <2>1, <2>4 DEF PageMoves
<1> HIDE DEF Fits
<1>16. Fits
  BY <1>3, <1>4, <1>5, <1>6, <1>7, <1>9, <1>10, <1>11, <1>12, <1>13, <1>14, <1>15 DEF BlocksNext
<1> QED
  BY <1>16 DEF Fits
-----------------------------------------------------------------------------
(* The page "Connections".                                                 *)

ConnectionsFit ==
    /\ connections \in NetworkConnectionsState
    /\ connectionsFx \in [streamActive: BOOLEAN, waitingForServer: BOOLEAN, timer: BOOLEAN]
    /\ connectionsReq \in SUBSET {"getConnections"}
    /\ connectionsReq # {} => connectionsFx.waitingForServer

LEMMA ReversedList ==
    ASSUME NEW list \in ConnectionLists
    PROVE  mapNetworkConnectionsResponse(list) \in Seq(NetworkConnection)
<1> DEFINE n == Len(list)
           r == [i \in 1..n |-> list[(n - i) + 1]]
<1>1. list \in Seq(ToSet(list)) /\ ToSet(list) \subseteq NetworkConnection
  BY ConnectionListsAssumption DEF NetworkConnection
<1>2. list \in Seq(NetworkConnection)
  BY <1>1, SequenceOf
<1>3. mapNetworkConnectionsResponse(list) = r
  BY DEF mapNetworkConnectionsResponse, Reverse
<1>4. n \in Nat /\ \A i \in 1..n : list[i] \in NetworkConnection
  BY <1>2
<1> HIDE DEF n
<1>5. \A i \in 1..n : (n - i) + 1 \in 1..n
  BY <1>4
<1>6. r \in [1..n -> NetworkConnection]
  BY <1>4, <1>5
<1> QED
  BY <1>3, <1>4, <1>6

LEMMA ConnectionsAnswered ==
    ASSUME connections \in NetworkConnectionsState, NEW payload \in Seq(NetworkConnection)
    PROVE  GetConnectionsSuccessReduced(payload) \in NetworkConnectionsState
<1> DEFINE rows == IF page = "connections" THEN rowsShown(connections.rows, payload) ELSE connections.rows
           c == GetConnectionsSuccessReduced(payload)
<1>1. rows \in Seq(NetworkConnection)
  BY DEF rowsShown, NetworkConnectionsState
<1>2. c = [connections EXCEPT !.connections = payload, !.rows = rows]
  BY DEF GetConnectionsSuccessReduced, NetworkConnectionsState
<1> HIDE DEF rows, c
<1>3. c \in NetworkConnectionsState
  BY <1>1, <1>2 DEF NetworkConnectionsState
<1> QED
  BY <1>3 DEF c

LEMMA ConnectionsFitInit == ConnectionsInit => ConnectionsFit
<1> SUFFICES ASSUME ConnectionsInit PROVE ConnectionsFit
  OBVIOUS
<1>1. initialConnections \in NetworkConnectionsState
  BY DEF initialConnections, NetworkConnectionsState
<1> QED
  BY <1>1 DEF ConnectionsInit, ConnectionsFit

LEMMA ConnectionsFitStep ==
    ASSUME ConnectionsFit, ConnectionsNext
    PROVE  ConnectionsFit' /\ loading' = loading /\ PageMoves("connections")
<1> DEFINE fxs == [streamActive: BOOLEAN, waitingForServer: BOOLEAN, timer: BOOLEAN]
           Fits == ConnectionsFit' /\ loading' = loading /\ PageMoves("connections")
<1>1. /\ connections \in NetworkConnectionsState /\ connectionsFx \in fxs
      /\ connectionsReq \in SUBSET {"getConnections"} /\ (connectionsReq # {} => connectionsFx.waitingForServer)
  BY DEF ConnectionsFit
<1>2. ASSUME ConnectionsTick PROVE Fits
  <2>1. /\ connectionsFx' = [connectionsFx EXCEPT !.streamActive = connections.stream, !.waitingForServer = TRUE]
        /\ connectionsReq' = {"getConnections"} /\ connections' = connections /\ page' = page /\ loading' = loading
    BY <1>2 DEF ConnectionsTick, getConnections, switchMap, layoutVars
  <2>2. connections.stream \in BOOLEAN
    BY <1>1 DEF NetworkConnectionsState
  <2>3. connectionsFx' \in fxs /\ connectionsFx'.waitingForServer
    BY <1>1, <2>1, <2>2
  <2> QED
    BY <1>1, <2>1, <2>3 DEF ConnectionsFit, PageMoves
<1>3. ASSUME GetConnectionsSuccess PROVE Fits
  <2>1. PICK r \in connectionsReq, list \in ConnectionLists :
          /\ connections' = GetConnectionsSuccessReduced(mapNetworkConnectionsResponse(list))
          /\ connectionsFx' = [connectionsFx EXCEPT !.waitingForServer = FALSE]
          /\ connectionsReq' = connectionsReq \ {r} /\ page' = page /\ loading' = loading
    BY <1>3 DEF GetConnectionsSuccess, Completed, layoutVars
  <2>2. connections' \in NetworkConnectionsState
    BY <1>1, <2>1, ReversedList, ConnectionsAnswered
  <2>3. connectionsReq' = {}
    BY <1>1, <2>1
  <2>4. connectionsFx' \in fxs
    BY <1>1, <2>1
  <2> QED
    BY <2>1, <2>2, <2>3, <2>4 DEF ConnectionsFit, PageMoves
<1>4. ASSUME GetConnectionsError PROVE Fits
  <2> DEFINE none == <<>>
  <2>1. none \in Seq(NetworkConnection)
    OBVIOUS
  <2>2. /\ connections' = GetConnectionsSuccessReduced(none) /\ connectionsReq' = {}
        /\ connectionsFx' = connectionsFx /\ page' = page /\ loading' = loading
    BY <1>4 DEF GetConnectionsError, catchErrorAndRepeat, layoutVars
  <2> HIDE DEF none
  <2>3. connections' \in NetworkConnectionsState
    BY <1>1, <2>1, <2>2, ConnectionsAnswered
  <2> QED
    BY <1>1, <2>2, <2>3 DEF ConnectionsFit, PageMoves
<1>5. ASSUME ConnectionsInitEffect PROVE ConnectionsFit'
  <2>1. /\ connections' = [connections EXCEPT !.stream = TRUE] /\ connectionsReq' = connectionsReq
        /\ connectionsFx' = [connectionsFx EXCEPT !.streamActive = TRUE, !.timer = TRUE]
    BY <1>5 DEF ConnectionsInitEffect
  <2>2. connections' \in NetworkConnectionsState
    BY <1>1, <2>1 DEF NetworkConnectionsState
  <2>3. connectionsFx' \in fxs /\ connectionsFx'.waitingForServer = connectionsFx.waitingForServer
    BY <1>1, <2>1
  <2> QED
    BY <1>1, <2>1, <2>2, <2>3 DEF ConnectionsFit
<1>6. ASSUME ConnectionsOpen PROVE Fits
  BY <1>5, <1>6 DEF ConnectionsOpen, Enter, PageMoves
<1>7. ASSUME ConnectionsNodeChange PROVE Fits
  BY <1>5, <1>7 DEF ConnectionsNodeChange, On, PageMoves
<1>8. ASSUME ConnectionsClose PROVE Fits
  <2>1. /\ page = "connections" /\ page' = "none" /\ loading' = loading /\ connectionsReq' = connectionsReq
        /\ connections' = initialConnections
        /\ connectionsFx' = [connectionsFx EXCEPT !.streamActive = FALSE, !.timer = FALSE]
    BY <1>8 DEF ConnectionsClose, Leave
  <2>2. connections' \in NetworkConnectionsState
    BY <2>1 DEF NetworkConnectionsState, initialConnections
  <2>3. connectionsFx' \in fxs /\ connectionsFx'.waitingForServer = connectionsFx.waitingForServer
    BY <1>1, <2>1
  <2> QED
    BY <1>1, <2>1, <2>2, <2>3 DEF ConnectionsFit, PageMoves
<1>9. ASSUME ConnectionsRowClick PROVE Fits
  <2>1. PICK row \in ToSet(connections.rows) :
          /\ page' = page /\ loading' = loading /\ connectionsFx' = connectionsFx /\ connectionsReq' = connectionsReq
          /\ connections' = [connections EXCEPT !.activeConnection = row]
    BY <1>9 DEF ConnectionsRowClick, On, Clickable
  <2>2. row \in NetworkConnection
    <3>1. connections.rows \in Seq(NetworkConnection)
      BY <1>1 DEF NetworkConnectionsState
    <3> QED
      BY <3>1 DEF ToSet
  <2>3. connections' \in NetworkConnectionsState
    BY <1>1, <2>1, <2>2 DEF NetworkConnectionsState
  <2> QED
    BY <1>1, <2>1, <2>3 DEF ConnectionsFit, PageMoves
<1>10. ASSUME ConnectionsClosePanel PROVE Fits
  <2>1. /\ page' = page /\ loading' = loading /\ connectionsFx' = connectionsFx /\ connectionsReq' = connectionsReq
        /\ connections' = [connections EXCEPT !.activeConnection = NoRow]
    BY <1>10 DEF ConnectionsClosePanel, On
  <2>2. connections' \in NetworkConnectionsState
    BY <1>1, <2>1 DEF NetworkConnectionsState
  <2> QED
    BY <1>1, <2>1, <2>2 DEF ConnectionsFit, PageMoves
<1> HIDE DEF Fits
<1>11. Fits
  BY <1>2, <1>3, <1>4, <1>6, <1>7, <1>8, <1>9, <1>10 DEF ConnectionsNext
<1> QED
  BY <1>11 DEF Fits
-----------------------------------------------------------------------------
(* The page "Node DHT".                                                    *)

DhtShaped(d) ==
    d = [peers |-> d.peers, thisKey |-> d.thisKey, activePeer |-> d.activePeer, buckets |-> d.buckets]

LineFits(d, line) ==
    d.thisKey # NoKey => \A i \in DOMAIN line \cap DOMAIN d.peers : line[i].hexDistance = d.peers[i].hexDistance

DhtRequestsFit(requests, fx, types) ==
    /\ fx \in [pendingRequest: BOOLEAN] /\ requests \in SUBSET {"getPeers"}
    /\ requests # {} => fx.pendingRequest
    /\ "NETWORK_NODE_DHT_INIT" \in types => requests # {}

DhtFit ==
    /\ DhtShaped(dht) /\ LineFits(dht, dhtPage.line)
    /\ DhtRequestsFit(dhtReq, dhtFx, loading)
    /\ page # "node-dht" => dht = initialDht /\ dhtReq = {}

LEMMA DhtFitInit == LayoutInit /\ DhtInit => DhtFit
<1> SUFFICES ASSUME LayoutInit, DhtInit PROVE DhtFit
  OBVIOUS
<1>1. DhtShaped(dht) /\ dht.thisKey = NoKey
  BY DEF DhtInit, initialDht, DhtShaped
<1>2. DhtRequestsFit(dhtReq, dhtFx, loading)
  BY DEF DhtInit, LayoutInit, DhtRequestsFit
<1> QED
  BY <1>1, <1>2 DEF DhtFit, DhtInit, LineFits

\* Whatever is answered, the line fits the table.
LEMMA DhtShownFits ==
    ASSUME DhtShaped(dht), NEW payload, DhtShown(GetPeersSuccessReduced(payload))
    PROVE  DhtShaped(dht') /\ LineFits(dht', dhtPage'.line)
<1> DEFINE state == GetPeersSuccessReduced(payload)
           new == state.peers # dht.peers /\ state.peers # <<>>
<1>1. DhtShaped(state)
  <2>1. CASE sameRecord(dht, payload)
    BY <2>1 DEF GetPeersSuccessReduced
  <2>2. CASE ~sameRecord(dht, payload)
    <3>1. state = [dht EXCEPT !.peers = payload.peers, !.thisKey = payload.thisKey, !.buckets = payload.buckets]
      BY <2>2 DEF GetPeersSuccessReduced
    <3> HIDE DEF state
    <3> DEFINE d == [peers |-> payload.peers, thisKey |-> payload.thisKey, activePeer |-> dht.activePeer, buckets |-> payload.buckets]
    <3>2. state = d
      BY <3>1 DEF DhtShaped
    <3>3. DhtShaped(d)
      BY DEF DhtShaped
    <3> QED
      BY <3>2, <3>3
  <2> QED
    BY <2>1, <2>2
<1>2. /\ dhtPage'.line = lineDrawn(dhtPage.line, state)
      /\ dht' = IF new /\ dhtPage.idFromRoute # NoId
                THEN [state EXCEPT !.activePeer = find(state.peers, "peerId", dhtPage.idFromRoute)] ELSE state
  BY DEF DhtShown
<1> HIDE DEF state
<1>3. DhtShaped(dht') /\ dht'.peers = state.peers /\ dht'.thisKey = state.thisKey
  <2>1. CASE new /\ dhtPage.idFromRoute # NoId
    <3> DEFINE active == find(state.peers, "peerId", dhtPage.idFromRoute)
               d == [peers |-> state.peers, thisKey |-> state.thisKey, activePeer |-> active, buckets |-> state.buckets]
    <3>1. dht' = [state EXCEPT !.activePeer = active]
      BY <1>2, <2>1
    <3> HIDE DEF active
    <3>2. dht' = d
      BY <1>1, <3>1 DEF DhtShaped
    <3>3. DhtShaped(d)
      BY DEF DhtShaped
    <3> QED
      BY <3>2, <3>3
  <2>2. CASE ~ (new /\ dhtPage.idFromRoute # NoId)
    BY <1>1, <1>2, <2>2
  <2> QED
    BY <2>1, <2>2
<1> DEFINE line == dhtPage'.line
<1>4. LineFits(state, line)
  <2>1. line = lineDrawn(dhtPage.line, state)
    BY <1>2
  <2> HIDE DEF line
  <2>2. ASSUME state.thisKey # NoKey, NEW i \in DOMAIN line \cap DOMAIN state.peers
        PROVE  line[i].hexDistance = state.peers[i].hexDistance
    <3>1. CASE line = state.peers
      BY <3>1
    <3>2. CASE line # state.peers
      <4>1. line = dhtPage.line
        BY <2>1, <3>2 DEF lineDrawn
      <4> QED
        BY <2>1, <2>2, <3>2, <4>1 DEF lineDrawn
    <3> QED
      BY <3>1, <3>2
  <2> QED
    BY <2>2 DEF LineFits
<1> HIDE DEF line
<1>5. LineFits(dht', line)
  BY <1>3, <1>4 DEF LineFits
<1> QED
  BY <1>3, <1>5 DEF line

LEMMA DhtFitStep ==
    ASSUME DhtFit, DhtNext
    PROVE  DhtFit' /\ PageMoves("node-dht") /\ loading' \ {"NETWORK_NODE_DHT_INIT"} \subseteq loading
<1> DEFINE Fits == DhtFit' /\ PageMoves("node-dht") /\ loading' \ {"NETWORK_NODE_DHT_INIT"} \subseteq loading
           type == "NETWORK_NODE_DHT_INIT"
<1>1. /\ DhtShaped(dht) /\ LineFits(dht, dhtPage.line) /\ DhtRequestsFit(dhtReq, dhtFx, loading)
      /\ page # "node-dht" => dht = initialDht /\ dhtReq = {}
  BY DEF DhtFit
<1>2. ASSUME dhtFx' = [pendingRequest |-> TRUE], dhtReq' = {"getPeers"} PROVE DhtRequestsFit(dhtReq', dhtFx', loading')
  BY <1>2 DEF DhtRequestsFit
<1>3. ASSUME dhtReq' = {}, dhtFx' \in [pendingRequest: BOOLEAN], loading' = loading \ {type}
      PROVE  DhtRequestsFit(dhtReq', dhtFx', loading')
  BY <1>3 DEF DhtRequestsFit
<1>4. ASSUME NEW row, dht' = [dht EXCEPT !.activePeer = row] PROVE DhtShaped(dht') /\ LineFits(dht', dhtPage.line)
  <2> DEFINE d == [peers |-> dht.peers, thisKey |-> dht.thisKey, activePeer |-> row, buckets |-> dht.buckets]
  <2>1. dht' = d
    BY <1>1, <1>4 DEF DhtShaped
  <2>2. DhtShaped(d) /\ d.peers = dht.peers /\ d.thisKey = dht.thisKey
    BY DEF DhtShaped
  <2> HIDE DEF d
  <2> QED
    BY <1>1, <2>1, <2>2 DEF LineFits
<1>5. ASSUME DhtTick PROVE Fits
  <2>1. /\ page' = page /\ loading' = loading /\ dht' = dht /\ dhtPage' = dhtPage /\ page = "node-dht"
        /\ dhtFx' = [pendingRequest |-> TRUE] /\ dhtReq' = {"getPeers"}
    BY <1>5 DEF DhtTick, On, getPeers, switchMap
  <2> QED
    BY <1>1, <1>2, <2>1 DEF DhtFit, PageMoves
<1>6. ASSUME GetPeersSuccess PROVE Fits
  <2>1. PICK r \in dhtReq, response \in RoutingTables :
          /\ DhtShown(GetPeersSuccessReduced(mapDhtPeers(response))) /\ dhtFx' = [pendingRequest |-> FALSE]
          /\ dhtReq' = dhtReq \ {r} /\ loading' = loading \ {type} /\ page' = page
    BY <1>6 DEF GetPeersSuccess, Completed, remove
  <2>2. DhtShaped(dht') /\ LineFits(dht', dhtPage'.line)
    BY <1>1, <2>1, DhtShownFits
  <2>3. dhtReq' = {} /\ page = "node-dht" /\ dhtFx' \in [pendingRequest: BOOLEAN]
    BY <1>1, <2>1 DEF DhtRequestsFit
  <2> QED
    BY <1>3, <2>1, <2>2, <2>3 DEF DhtFit, PageMoves
<1>7. ASSUME GetPeersError PROVE Fits
  <2> DEFINE payload == [peers |-> <<>>, thisKey |-> NoKey, buckets |-> <<>>]
  <2>1. /\ dhtReq # {} /\ DhtShown(GetPeersSuccessReduced(payload)) /\ dhtFx' = dhtFx
        /\ dhtReq' = {} /\ loading' = loading \ {type} /\ page' = page
    BY <1>7 DEF GetPeersError, catchErrorAndRepeat, remove
  <2> HIDE DEF payload
  <2>2. DhtShaped(dht') /\ LineFits(dht', dhtPage'.line)
    BY <1>1, <2>1, DhtShownFits
  <2>3. page = "node-dht" /\ dhtFx' \in [pendingRequest: BOOLEAN]
    BY <1>1, <2>1 DEF DhtRequestsFit
  <2> QED
    BY <1>3, <2>1, <2>2, <2>3 DEF DhtFit, PageMoves
<1>8. ASSUME DhtOpen PROVE Fits
  <2>1. PICK id : dhtPage' = [NoDhtPage EXCEPT !.idFromRoute = id]
    BY <1>8 DEF DhtOpen
  <2>2. /\ page = "none" /\ page' = "node-dht" /\ loading' = loading \cup {type} /\ dht' = dht
        /\ dhtFx' = [pendingRequest |-> TRUE] /\ dhtReq' = {"getPeers"}
    BY <1>8 DEF DhtOpen, Enter, add, getPeers, switchMap
  <2>3. dht'.thisKey = NoKey
    BY <1>1, <2>2 DEF initialDht
  <2>4. LineFits(dht', dhtPage'.line)
    BY <2>3 DEF LineFits
  <2> QED
    BY <1>1, <1>2, <2>2, <2>4 DEF DhtFit, PageMoves
<1>9. ASSUME DhtClose PROVE Fits
  <2>1. /\ page = "node-dht" /\ page' = "none" /\ loading' = loading \ {type} /\ dht' = initialDht
        /\ dhtFx' = [pendingRequest |-> FALSE] /\ dhtReq' = {}
    BY <1>9 DEF DhtClose, Leave, remove
  <2>2. DhtShaped(dht') /\ dht'.thisKey = NoKey /\ dhtFx' \in [pendingRequest: BOOLEAN]
    BY <2>1 DEF initialDht, DhtShaped
  <2>3. LineFits(dht', dhtPage'.line)
    BY <2>2 DEF LineFits
  <2> QED
    BY <1>3, <2>1, <2>2, <2>3 DEF DhtFit, PageMoves
<1>10. ASSUME DhtRowClick \/ selectPeer \/ DhtClosePanel PROVE Fits
  <2>1. PICK row : dht' = [dht EXCEPT !.activePeer = row]
    BY <1>10 DEF DhtRowClick, selectPeer, DhtClosePanel
  <2>2. /\ page = "node-dht" /\ page' = page /\ loading' = loading /\ dhtPage' = dhtPage /\ dhtFx' = dhtFx /\ dhtReq' = dhtReq
    BY <1>10 DEF DhtRowClick, selectPeer, DhtClosePanel, On
  <2>3. DhtShaped(dht') /\ LineFits(dht', dhtPage.line)
    BY <1>4, <2>1
  <2> QED
    BY <1>1, <2>2, <2>3 DEF DhtFit, PageMoves
<1> HIDE DEF Fits
<1>11. Fits
  BY <1>5, <1>6, <1>7, <1>8, <1>9, <1>10 DEF DhtNext
<1> QED
  BY <1>11 DEF Fits
-----------------------------------------------------------------------------
(* The page "Bootstrap Stats".                                             *)

StatsSorts == [sortBy: StatsColumns, sortDirection: {"ascending", "descending"}]

StatsRows(rows) ==
    rows \in Seq(ToSet(rows)) /\ \A r \in ToSet(rows) : r.start \in Int /\ r.durationInSecs \in Int

StatsShaped(s) ==
    /\ s = [boostrapStats |-> s.boostrapStats, activeBootstrapRequest |-> s.activeBootstrapRequest, sort |-> s.sort]
    /\ s.sort \in StatsSorts /\ StatsRows(s.boostrapStats) /\ SortedBy(s.boostrapStats, s.sort)

StatsRequestsFit(requests, fx, types) ==
    /\ fx \in [pendingRequest: BOOLEAN] /\ requests \in SUBSET {"getBootstrapStats"}
    /\ requests # {} => fx.pendingRequest
    /\ "NETWORK_BOOTSTRAP_STATS_INIT" \in types => requests # {}

StatsFit ==
    /\ StatsShaped(stats)
    /\ StatsRequestsFit(statsReq, statsFx, loading)
    /\ page # "bootstrap-stats" => stats = initialStats /\ statsReq = {}

LEMMA SortedStats ==
    ASSUME NEW rows, StatsRows(rows), NEW tableSort \in StatsSorts
    PROVE  StatsRows(sort(rows, tableSort)) /\ SortedBy(sort(rows, tableSort), tableSort)
<1> DEFINE s == sort(rows, tableSort)
<1>1. rows \in Seq(ToSet(rows))
  BY DEF StatsRows
<1>2. Comparable(rows, tableSort)
  <2> SUFFICES ASSUME NEW i \in DOMAIN rows PROVE rows[i][tableSort.sortBy] \in Int
    BY DEF Comparable
  <2>1. rows[i] \in ToSet(rows)
    BY DEF ToSet
  <2>2. rows[i].start \in Int /\ rows[i].durationInSecs \in Int
    BY <2>1 DEF StatsRows
  <2>3. tableSort.sortBy \in {"start", "durationInSecs"}
    BY DEF StatsSorts, StatsColumns
  <2> QED
    BY <2>2, <2>3
<1>3. s \in Seq(ToSet(rows)) /\ ToSet(s) = ToSet(rows) /\ SortedBy(s, tableSort)
  BY <1>1, <1>2, SortRows
<1> HIDE DEF s
<1>4. StatsRows(s)
  BY <1>3 DEF StatsRows
<1> QED
  BY <1>3, <1>4 DEF s

LEMMA MappedStats ==
    ASSUME NEW list \in BootstrapLists
    PROVE  StatsRows(mapBootstrapStats(list))
<1> DEFINE n == Len(list)
           duration(i) == IF list[i].finish = 0 THEN 0
                          ELSE (list[i].finish - list[i].start + OneBillion - 1) \div OneBillion
           row(i) == [peerId |-> list[i].peer_id, start |-> list[i].start, durationInSecs |-> duration(i)]
           rows == [i \in 1..n |-> row(i)]
<1>1. list \in Seq(ToSet(list)) /\ OneBillion \in Nat \ {0}
  BY BootstrapAssumption
<1>2. n \in Nat /\ DOMAIN list = 1..n
  BY <1>1
<1>3. mapBootstrapStats(list) = rows
  BY <1>2 DEF mapBootstrapStats
<1>4. ASSUME NEW i \in 1..n PROVE list[i].start \in Int /\ duration(i) \in Int
  <2>1. list[i].start \in Nat /\ list[i].finish \in Nat
    BY <1>2, BootstrapAssumption
  <2> DEFINE a == list[i].start
             b == list[i].finish
  <2>2. a \in Nat /\ b \in Nat
    BY <2>1
  <2> HIDE DEF a, b
  <2>3. (b - a + OneBillion - 1) \div OneBillion \in Int
    <3> DEFINE c == b - a + OneBillion - 1
    <3>1. c \in Int
      BY <1>1, <2>2
    <3> HIDE DEF c
    <3>2. c \div OneBillion \in Int
      BY <1>1, <3>1
    <3> QED
      BY <3>2 DEF c
  <2> QED
    BY <2>1, <2>3 DEF a, b
<1>5. \A i \in 1..n : row(i).start \in Int /\ row(i).durationInSecs \in Int
  <2> HIDE DEF duration
  <2> QED
    BY <1>4
<1>6. DOMAIN rows = 1..n /\ \A i \in 1..n : rows[i] = row(i)
  OBVIOUS
<1> HIDE DEF row, n
<1>7. ToSet(rows) = {row(i) : i \in 1..n}
  BY <1>6 DEF ToSet
<1>8. rows \in [1..n -> ToSet(rows)]
  BY <1>7
<1> HIDE DEF rows
<1>9. rows \in Seq(ToSet(rows))
  BY <1>2, <1>8
<1>10. StatsRows(rows)
  BY <1>5, <1>7, <1>9 DEF StatsRows
<1> QED
  BY <1>3, <1>10

\* The table of a state that is sorted as its head says.
LEMMA StatsShownFits ==
    ASSUME StatsShaped(stats), NEW rows, StatsRows(rows), NEW tableSort \in StatsSorts, NEW state,
           state = [stats EXCEPT !.sort = tableSort, !.boostrapStats = sort(rows, tableSort)], StatsShown(state)
    PROVE  StatsShaped(stats')
<1> DEFINE sorted == sort(rows, tableSort)
           new == state.boostrapStats # <<>>
           shaped(s) == s = [boostrapStats |-> sorted, activeBootstrapRequest |-> s.activeBootstrapRequest, sort |-> tableSort]
<1>1. StatsRows(sorted) /\ SortedBy(sorted, tableSort)
  BY SortedStats
<1> HIDE DEF sorted
<1>2. shaped(state)
  <2> DEFINE t == [boostrapStats |-> sorted, activeBootstrapRequest |-> stats.activeBootstrapRequest, sort |-> tableSort]
  <2>1. state = t
    BY DEF StatsShaped, sorted
  <2>2. shaped(t)
    OBVIOUS
  <2> HIDE DEF t, shaped
  <2> QED
    BY <2>1, <2>2
<1>3. shaped(stats')
  <2> DEFINE active == find(state.boostrapStats, "peerId", statsPage.idFromRoute)
             t == [boostrapStats |-> sorted, activeBootstrapRequest |-> active, sort |-> tableSort]
  <2>1. stats' = (IF new /\ statsPage.idFromRoute # NoId THEN [state EXCEPT !.activeBootstrapRequest = active] ELSE state)
    BY DEF StatsShown
  <2> HIDE DEF active
  <2>2. [state EXCEPT !.activeBootstrapRequest = active] = t
    <3> DEFINE a == state.activeBootstrapRequest
    <3>1. state = [boostrapStats |-> sorted, activeBootstrapRequest |-> a, sort |-> tableSort]
      BY <1>2, Zenon
    <3>2. ASSUME NEW x, NEW y, NEW z, NEW w
          PROVE  [[boostrapStats |-> x, activeBootstrapRequest |-> y, sort |-> z] EXCEPT !.activeBootstrapRequest = w]
                    = [boostrapStats |-> x, activeBootstrapRequest |-> w, sort |-> z]
      OBVIOUS
    <3>3. [[boostrapStats |-> sorted, activeBootstrapRequest |-> a, sort |-> tableSort] EXCEPT !.activeBootstrapRequest = active] = t
      BY <3>2
    <3> HIDE DEF a, t
    <3> QED
      BY <3>1, <3>3, Zenon
  <2>3. shaped(t)
    OBVIOUS
  <2>4. stats' = t \/ stats' = state
    BY <2>1, <2>2
  <2> HIDE DEF t, shaped
  <2> QED
    BY <1>2, <2>3, <2>4
<1>4. stats'.boostrapStats = sorted /\ stats'.sort = tableSort
  BY <1>3
<1> QED
  BY <1>1, <1>3, <1>4 DEF StatsShaped

LEMMA InitialStats == StatsShaped(initialStats)
<1> DEFINE none == <<>>
<1>1. none \in Seq(ToSet(none)) /\ ToSet(none) = {} /\ DOMAIN none = {}
  BY DEF ToSet
<1>2. initialStats.boostrapStats = none /\ initialStats.sort \in StatsSorts
  BY DEF initialStats, StatsSorts, StatsColumns
<1> HIDE DEF none
<1>3. StatsRows(none) /\ SortedBy(none, initialStats.sort)
  BY <1>1 DEF StatsRows, SortedBy
<1>4. initialStats = [boostrapStats |-> initialStats.boostrapStats,
                      activeBootstrapRequest |-> initialStats.activeBootstrapRequest, sort |-> initialStats.sort]
  BY DEF initialStats
<1> QED
  BY <1>2, <1>3, <1>4 DEF StatsShaped

LEMMA StatsFitInit == LayoutInit /\ StatsInit => StatsFit
BY InitialStats DEF LayoutInit, StatsInit, StatsFit, StatsRequestsFit

LEMMA StatsFitStep ==
    ASSUME StatsFit, StatsNext
    PROVE  StatsFit' /\ PageMoves("bootstrap-stats") /\ loading' \ {"NETWORK_BOOTSTRAP_STATS_INIT"} \subseteq loading
<1> DEFINE Fits == StatsFit' /\ PageMoves("bootstrap-stats") /\ loading' \ {"NETWORK_BOOTSTRAP_STATS_INIT"} \subseteq loading
           type == "NETWORK_BOOTSTRAP_STATS_INIT"
<1>1. /\ StatsShaped(stats) /\ StatsRequestsFit(statsReq, statsFx, loading)
      /\ page # "bootstrap-stats" => stats = initialStats /\ statsReq = {}
  BY DEF StatsFit
<1>2. ASSUME statsFx' = [pendingRequest |-> TRUE], statsReq' = {"getBootstrapStats"}
      PROVE  StatsRequestsFit(statsReq', statsFx', loading')
  BY <1>2 DEF StatsRequestsFit
<1>3. ASSUME statsReq' = {}, statsFx' \in [pendingRequest: BOOLEAN], loading' = loading \ {type}
      PROVE  StatsRequestsFit(statsReq', statsFx', loading')
  BY <1>3 DEF StatsRequestsFit
<1>4. ASSUME NEW row, stats' = [stats EXCEPT !.activeBootstrapRequest = row] PROVE StatsShaped(stats')
  <2> DEFINE t == [boostrapStats |-> stats.boostrapStats, activeBootstrapRequest |-> row, sort |-> stats.sort]
  <2>1. stats' = t
    BY <1>1, <1>4 DEF StatsShaped
  <2>2. t.boostrapStats = stats.boostrapStats /\ t.sort = stats.sort /\ t.activeBootstrapRequest = row
    OBVIOUS
  <2>3. t = [boostrapStats |-> t.boostrapStats, activeBootstrapRequest |-> t.activeBootstrapRequest, sort |-> t.sort]
    BY <2>2
  <2> HIDE DEF t
  <2>4. StatsShaped(t)
    BY <1>1, <2>2, <2>3 DEF StatsShaped
  <2> QED
    BY <2>1, <2>4
<1>5. ASSUME NEW rows, StatsRows(rows), StatsShown(GetBootstrapStatsReduced(rows)) PROVE StatsShaped(stats')
  <2> DEFINE state == GetBootstrapStatsReduced(rows)
             tableSort == stats.sort
  <2>1. tableSort \in StatsSorts
    BY <1>1 DEF StatsShaped
  <2>2. state = [stats EXCEPT !.sort = tableSort, !.boostrapStats = sort(rows, tableSort)]
    BY <1>1 DEF GetBootstrapStatsReduced, StatsShaped
  <2>3. StatsShown(state)
    BY <1>5
  <2> HIDE DEF state, tableSort
  <2> QED
    BY <1>1, <1>5, <2>1, <2>2, <2>3, StatsShownFits
<1>6. ASSUME StatsTick PROVE Fits
  <2>1. /\ page' = page /\ loading' = loading /\ stats' = stats /\ page = "bootstrap-stats"
        /\ statsFx' = [pendingRequest |-> TRUE] /\ statsReq' = {"getBootstrapStats"}
    BY <1>6 DEF StatsTick, On, getBootstrapStats, switchMap
  <2> QED
    BY <1>1, <1>2, <2>1 DEF StatsFit, PageMoves
<1>7. ASSUME GetBootstrapStatsSuccess PROVE Fits
  <2>1. PICK r \in statsReq, list \in BootstrapLists :
          /\ StatsShown(GetBootstrapStatsReduced(mapBootstrapStats(list))) /\ statsFx' = [pendingRequest |-> FALSE]
          /\ statsReq' = statsReq \ {r} /\ loading' = loading \ {type} /\ page' = page
    BY <1>7 DEF GetBootstrapStatsSuccess, Completed, remove
  <2>2. StatsShaped(stats')
    BY <1>5, <2>1, MappedStats
  <2>3. statsReq' = {} /\ page = "bootstrap-stats" /\ statsFx' \in [pendingRequest: BOOLEAN]
    BY <1>1, <2>1 DEF StatsRequestsFit
  <2> QED
    BY <1>3, <2>1, <2>2, <2>3 DEF StatsFit, PageMoves
<1>8. ASSUME GetBootstrapStatsError PROVE Fits
  <2> DEFINE none == <<>>
  <2>1. /\ statsReq # {} /\ StatsShown(GetBootstrapStatsReduced(none)) /\ statsFx' = statsFx
        /\ statsReq' = {} /\ loading' = loading \ {type} /\ page' = page
    BY <1>8 DEF GetBootstrapStatsError, catchErrorAndRepeat, remove
  <2>2. StatsRows(none)
    BY DEF StatsRows, ToSet
  <2> HIDE DEF none
  <2>3. StatsShaped(stats')
    BY <1>5, <2>1, <2>2
  <2>4. page = "bootstrap-stats" /\ statsFx' \in [pendingRequest: BOOLEAN]
    BY <1>1, <2>1 DEF StatsRequestsFit
  <2> QED
    BY <1>3, <2>1, <2>3, <2>4 DEF StatsFit, PageMoves
<1>9. ASSUME StatsOpen PROVE Fits
  <2>1. /\ page = "none" /\ page' = "bootstrap-stats" /\ loading' = loading \cup {type} /\ stats' = stats
        /\ statsFx' = [pendingRequest |-> TRUE] /\ statsReq' = {"getBootstrapStats"}
    BY <1>9 DEF StatsOpen, Enter, add, getBootstrapStats, switchMap
  <2> QED
    BY <1>1, <1>2, <2>1 DEF StatsFit, PageMoves
<1>10. ASSUME StatsClose PROVE Fits
  <2>1. /\ page = "bootstrap-stats" /\ page' = "none" /\ loading' = loading \ {type} /\ stats' = initialStats
        /\ statsFx' = [pendingRequest |-> FALSE] /\ statsReq' = {}
    BY <1>10 DEF StatsClose, Leave, remove
  <2>2. StatsShaped(stats') /\ statsFx' \in [pendingRequest: BOOLEAN]
    BY <2>1, InitialStats
  <2> QED
    BY <1>3, <2>1, <2>2 DEF StatsFit, PageMoves
<1>11. ASSUME StatsSort PROVE Fits
  <2>1. PICK column \in StatsColumns : StatsShown(StatsSortReduced(sortTable(stats.sort, column)))
    BY <1>11 DEF StatsSort
  <2>2. page = "bootstrap-stats" /\ page' = page /\ loading' = loading /\ statsFx' = statsFx /\ statsReq' = statsReq
    BY <1>11 DEF StatsSort, On
  <2> DEFINE tableSort == sortTable(stats.sort, column)
             state == StatsSortReduced(tableSort)
             rows == stats.boostrapStats
  <2>3. tableSort \in StatsSorts
    BY <1>1 DEF sortTable, StatsSorts, StatsShaped
  <2>4. StatsShown(state)
    BY <2>1
  <2> HIDE DEF tableSort
  <2>5. state = [stats EXCEPT !.sort = tableSort, !.boostrapStats = sort(rows, tableSort)]
    BY <1>1 DEF StatsSortReduced, StatsShaped
  <2>6. StatsRows(rows)
    BY <1>1 DEF StatsShaped
  <2> HIDE DEF state, rows
  <2>7. StatsShaped(stats')
    BY <1>1, <2>3, <2>4, <2>5, <2>6, StatsShownFits
  <2> QED
    BY <1>1, <2>2, <2>7 DEF StatsFit, PageMoves
<1>12. ASSUME StatsRowClick \/ StatsClosePanel PROVE Fits
  <2>1. PICK row : stats' = [stats EXCEPT !.activeBootstrapRequest = row]
    BY <1>12 DEF StatsRowClick, StatsClosePanel
  <2>2. page = "bootstrap-stats" /\ page' = page /\ loading' = loading /\ statsFx' = statsFx /\ statsReq' = statsReq
    BY <1>12 DEF StatsRowClick, StatsClosePanel, On
  <2>3. StatsShaped(stats')
    BY <1>4, <2>1
  <2> QED
    BY <1>1, <2>2, <2>3 DEF StatsFit, PageMoves
<1> HIDE DEF Fits
<1>13. Fits
  BY <1>6, <1>7, <1>8, <1>9, <1>10, <1>11, <1>12 DEF StatsNext
<1> QED
  BY <1>13 DEF Fits
-----------------------------------------------------------------------------
(* The page "Topology".                                                    *)

LEMMA SetsConnected ==
    ASSUME SetsFit(splits.sets, AddressesOf(splits.peers), splits.peers, splits.links)
    PROVE  SplitsSetsConnected
<1> DEFINE peers == AddressesOf(splits.peers)
           links == splits.links
           A(i) == AddressesOf(splits.sets[i])
           D == DOMAIN splits.sets
           connected(a, b) == \A S \in SUBSET peers : Closed(S, links) /\ a \in S => b \in S
           together(a, b) == {i \in D : {a, b} \subseteq A(i)}
<1>1. SUFFICES ASSUME NEW a \in peers, NEW b \in peers
               PROVE  Cardinality(together(a, b)) = IF connected(a, b) THEN 1 ELSE 0
  BY DEF SplitsSetsConnected, AddressesOf, Closed
<1>2. /\ \A m \in D : Component(A(m), links) /\ A(m) \subseteq peers
      /\ \A m, k \in D : m # k => A(m) \cap A(k) = {}
      /\ \A c \in peers : \E m \in D : c \in A(m)
  BY DEF SetsFit
<1> HIDE DEF peers, links, A, D
<1>3. PICK m \in D : a \in A(m)
  BY <1>2
<1>4. \A k \in D : a \in A(k) => k = m
  BY <1>2, <1>3
<1>5. CASE b \in A(m)
  <2>1. together(a, b) = {m}
    BY <1>3, <1>4, <1>5
  <2>2. connected(a, b)
    BY <1>2, <1>3, <1>5 DEF Component
  <2> HIDE DEF together, connected
  <2> QED
    BY <2>1, <2>2, FS_Singleton
<1>6. CASE b \notin A(m)
  <2>1. together(a, b) = {}
    BY <1>3, <1>4, <1>6
  <2>2. ~ connected(a, b)
    BY <1>2, <1>3, <1>6 DEF Component
  <2> HIDE DEF together, connected
  <2> QED
    BY <2>1, <2>2, FS_EmptySet
<1> QED
  BY <1>5, <1>6

\* What is left after removeDuplicatedPeers: one peer of each address.
LEMMA DuplicatesRemoved ==
    ASSUME NEW T, NEW peers \in Seq(T)
    PROVE  LET r == removeDuplicatedPeers(peers)
           IN  /\ r \in Seq(T) /\ Distinct(r, "address") /\ ToSet(r) \subseteq ToSet(peers)
               /\ AddressesOf(r) = AddressesOf(peers)
<1> DEFINE n == Len(peers)
           none == <<>>
           known(i) == \E j \in 1 .. i - 1 : peers[j].address = peers[i].address
           Kept(f) == f = [i \in 0..n |-> IF i = 0 THEN none
                                          ELSE IF known(i) THEN f[i - 1] ELSE Append(f[i - 1], peers[i])]
           X == Seq(T)
           G == [p \in (1..n) \X X |-> IF known(p[1]) THEN p[2] ELSE Append(p[2], peers[p[1]])]
<1>1. n \in Nat /\ DOMAIN peers = 1..n /\ \A i \in 1..n : peers[i] \in T /\ peers[i] \in ToSet(peers)
  BY DEF ToSet
<1> DEFINE kept == CHOOSE f : Kept(f)
<1>2. removeDuplicatedPeers(peers) = kept[n]
  BY DEF removeDuplicatedPeers
<1> HIDE DEF n, known
<1>3. G \in [(1..n) \X X -> X]
  <2>1. \A p \in (1..n) \X X : (IF known(p[1]) THEN p[2] ELSE Append(p[2], peers[p[1]])) \in X
    <3> SUFFICES ASSUME NEW p \in (1..n) \X X PROVE (IF known(p[1]) THEN p[2] ELSE Append(p[2], peers[p[1]])) \in X
      OBVIOUS
    <3>1. p[1] \in 1..n /\ p[2] \in X
      OBVIOUS
    <3>2. peers[p[1]] \in T
      BY <1>1, <3>1
    <3>3. Append(p[2], peers[p[1]]) \in X
      BY <3>1, <3>2
    <3> QED
      BY <3>1, <3>3
  <2> HIDE DEF X
  <2> QED
    BY <2>1
<1>4. none \in X
  OBVIOUS
<1> HIDE DEF X
<1>5. PICK f : f \in [0..n -> X] /\ f[0] = none /\ \A i \in 1..n : f[i] = G[<<i, f[i - 1]>>]
  <2> HIDE DEF G, none
  <2>1. \E f : Iterates(f, n, X, none, G)
    BY <1>1, <1>3, <1>4, RecursiveValues
  <2> QED
    BY <2>1 DEF Iterates
<1> HIDE DEF none
<1>6. ASSUME NEW i \in 1..n PROVE f[i] = IF known(i) THEN f[i - 1] ELSE Append(f[i - 1], peers[i])
  <2>1. i - 1 \in 0..n
    BY <1>1
  <2>2. <<i, f[i - 1]>> \in (1..n) \X X
    BY <1>5, <2>1
  <2> QED
    BY <1>5, <2>2
<1>7. Kept(f)
  <2> DEFINE E(i) == IF i = 0 THEN none ELSE IF known(i) THEN f[i - 1] ELSE Append(f[i - 1], peers[i])
  <2>1. ASSUME NEW i \in 0..n PROVE f[i] = E(i)
    <3>1. CASE i = 0
      <4>1. f[0] = none
        BY <1>5
      <4> QED
        BY <3>1, <4>1
    <3>2. CASE i # 0
      <4>1. i \in 1..n
        BY <1>1, <3>2
      <4> QED
        BY <1>6, <3>2, <4>1
    <3> QED
      BY <3>1, <3>2
  <2> HIDE DEF E
  <2>2. f = [i \in 0..n |-> E(i)]
    BY <1>5, <2>1
  <2> QED
    BY <2>2, Zenon DEF E
<1>8. Kept(kept)
  <2> HIDE DEF Kept
  <2> QED
    BY <1>7
<1> HIDE DEF kept
<1>9. \A i \in 0..n : kept[i] = IF i = 0 THEN none ELSE IF known(i) THEN kept[i - 1] ELSE Append(kept[i - 1], peers[i])
  BY <1>8
<1> HIDE DEF Kept, G
<1> DEFINE Fits(i) == /\ kept[i] \in Seq(T) /\ Distinct(kept[i], "address") /\ ToSet(kept[i]) \subseteq ToSet(peers)
                      /\ AddressesOf(kept[i]) = {peers[j].address : j \in 1..i}
           Bad == {i \in 0..n : ~ Fits(i)}
<1>10. Bad = {}
  <2> SUFFICES ASSUME Bad # {} PROVE FALSE
    OBVIOUS
  <2>1. PICK i \in Bad : \A m \in Bad : i =< m
    <3>1. Bad \in SUBSET Nat
      BY <1>1
    <3> HIDE DEF Bad
    <3> QED
      BY <3>1, LeastNatural
  <2>2. CASE i = 0
    <3>1. kept[0] = none
      BY <1>1, <1>9
    <3>2. none \in Seq(T) /\ ToSet(none) = {} /\ DOMAIN none = {}
      BY DEF none, ToSet
    <3>3. {peers[j].address : j \in 1..0} = {}
      OBVIOUS
    <3>4. Fits(0)
      BY <3>1, <3>2, <3>3 DEF Distinct, AddressesOf
    <3> HIDE DEF Fits
    <3> QED
      BY <2>1, <2>2, <3>4
  <2>3. CASE i # 0
    <3>1. i - 1 \in 0..n /\ ~ (i =< i - 1) /\ i \in 1..n /\ i \in 0..n
      BY <1>1, <2>1, <2>3
    <3>2. Fits(i - 1)
      <4> HIDE DEF Fits
      <4> QED
        BY <2>1, <3>1
    <3>3. kept[i] = IF known(i) THEN kept[i - 1] ELSE Append(kept[i - 1], peers[i])
      BY <1>9, <2>3, <3>1
    <3>4. {peers[j].address : j \in 1..i} = {peers[j].address : j \in 1..(i - 1)} \cup {peers[i].address}
      <4>1. 1..i = (1..(i - 1)) \cup {i}
        BY <1>1, <3>1
      <4> QED
        BY <4>1
    <3>5. known(i) <=> peers[i].address \in {peers[j].address : j \in 1..(i - 1)}
      BY DEF known
    <3>6. CASE known(i)
      <4>1. kept[i] = kept[i - 1] /\ AddressesOf(kept[i]) = {peers[j].address : j \in 1..i}
        BY <3>2, <3>3, <3>4, <3>5, <3>6
      <4> QED
        BY <3>2, <4>1
    <3>7. CASE ~ known(i)
      <4> DEFINE s == kept[i - 1]
                 x == peers[i]
      <4>1. /\ s \in Seq(T) /\ Distinct(s, "address") /\ ToSet(s) \subseteq ToSet(peers)
            /\ AddressesOf(s) = {peers[j].address : j \in 1..(i - 1)} /\ x \in T /\ x \in ToSet(peers)
        BY <1>1, <3>1, <3>2
      <4>2. kept[i] = Append(s, x)
        BY <3>3, <3>7
      <4>3. x.address \notin AddressesOf(s)
        BY <3>5, <3>7, <4>1
      <4>4. {peers[j].address : j \in 1..i} = AddressesOf(s) \cup {x.address}
        BY <3>4, <4>1
      <4> HIDE DEF s, x
      <4>5. Append(s, x) \in Seq(T)
        BY <4>1
      <4>6. ToSet(Append(s, x)) = ToSet(s) \cup {x}
        BY <4>1, AppendSet
      <4>7. Distinct(Append(s, x), "address")
        <5>1. \A r \in ToSet(s) : r["address"] # x["address"]
          BY <4>3 DEF AddressesOf
        <5> QED
          BY <4>1, <5>1, DistinctAppend
      <4>8. AddressesOf(Append(s, x)) = AddressesOf(s) \cup {x.address}
        BY <4>6 DEF AddressesOf
      <4> QED
        BY <4>1, <4>2, <4>4, <4>5, <4>6, <4>7, <4>8
    <3>8. Fits(i)
      BY <3>6, <3>7
    <3> HIDE DEF Fits
    <3> QED
      BY <2>1, <3>8
  <2> QED
    BY <2>2, <2>3
<1>11. Fits(n)
  <2>1. n \in 0..n
    BY <1>1
  <2> HIDE DEF Fits
  <2> QED
    BY <1>10, <2>1
<1>12. {peers[j].address : j \in 1..n} = AddressesOf(peers)
  BY <1>1 DEF AddressesOf, ToSet
<1> QED
  BY <1>2, <1>11, <1>12

SplitsSorts == [sortBy: SplitsColumns, sortDirection: {"ascending", "descending"}]

SplitsShaped(s) ==
    /\ s = [peers |-> s.peers, links |-> s.links, sets |-> s.sets, activePeer |-> s.activePeer,
            detached |-> s.detached, fetching |-> s.fetching, sort |-> s.sort]
    /\ s.detached \in BOOLEAN /\ s.fetching \in BOOLEAN /\ s.sort \in SplitsSorts

\* The peers come from one answer.
Known(peers) ==
    \A p, q \in ToSet(peers) : \E t \in Topologies : \E x, y \in ToSet(t.peers) :
        x.address = p.address /\ x.node = p.node /\ y.address = q.address /\ y.node = q.node

SplitsStateFits(s) ==
    /\ SplitsShaped(s) /\ Graph(s.peers, s.links) /\ Counted(s.peers) /\ Known(s.peers)
    /\ SetsFit(s.sets, AddressesOf(s.peers), s.peers, s.links)
    /\ s.activePeer # NoRow /\ ~s.detached => s.activePeer \in ToSet(s.peers)

LEMMA TopologyGraph ==
    ASSUME NEW t \in Topologies
    PROVE  LET r == removeDuplicatedPeers(t.peers) IN Graph(r, t.links) /\ Known(r)
<1> DEFINE r == removeDuplicatedPeers(t.peers)
           P == [address: Nat, node: Nat]
           L == [source: Nat, target: Nat]
<1>1. t.peers \in Seq(P) /\ t.links \in Seq(L)
  BY TopologiesAssumption
<1>2. \A l \in ToSet(t.links) : l.source \in AddressesOf(t.peers) /\ l.target \in AddressesOf(t.peers)
  BY TopologiesAssumption DEF AddressesOf
<1> HIDE DEF P, L
<1>3. r \in Seq(P) /\ Distinct(r, "address") /\ ToSet(r) \subseteq ToSet(t.peers) /\ AddressesOf(r) = AddressesOf(t.peers)
  BY <1>1, DuplicatesRemoved
<1> HIDE DEF r
<1>4. r \in Seq(ToSet(r)) /\ t.links \in Seq(ToSet(t.links))
  BY <1>1, <1>3, SequenceOf
<1>5. Graph(r, t.links)
  BY <1>2, <1>3, <1>4 DEF Graph
<1>6. Known(r)
  BY <1>3 DEF Known
<1> QED
  BY <1>5, <1>6 DEF r

LEMMA NoGraph == Graph(<<>>, <<>>) /\ Known(<<>>)
<1> DEFINE none == <<>>
<1>1. none \in Seq(ToSet(none)) /\ ToSet(none) = {} /\ DOMAIN none = {}
  BY DEF ToSet
<1> HIDE DEF none
<1>2. Graph(none, none) /\ Known(none)
  BY <1>1 DEF Graph, Known, Distinct
<1> QED
  BY <1>2 DEF none

\* What an answer makes of the slice.
LEMMA SplitsAnswered ==
    ASSUME SplitsStateFits(splits), NEW ps, NEW ls, Graph(ps, ls), Known(ps)
    PROVE  LET s == GetSplitsSuccessReduced([peers |-> ps, links |-> ls])
           IN  SplitsStateFits(s) /\ ~s.fetching /\ (s.activePeer # NoRow => s.detached)
<1> DEFINE s == GetSplitsSuccessReduced([peers |-> ps, links |-> ls])
           n == Len(ps)
           out(i) == Len(filter(ls, {l \in ToSet(ls) : l.source = ps[i].address}))
           row(i) == [address |-> ps[i].address, node |-> ps[i].node, outgoingConnections |-> out(i)]
           peers == [i \in DOMAIN ps |-> row(i)]
           sets == splitThePeers(peers, ls)
           sorted == [i \in DOMAIN sets |-> sort(sets[i], splits.sort)]
           detached == splits.activePeer # NoRow
           new == [peers |-> peers, links |-> ls, sets |-> sorted, activePeer |-> splits.activePeer,
                   detached |-> detached, fetching |-> FALSE, sort |-> splits.sort]
<1>1. s = [splits EXCEPT !.peers = peers, !.links = ls, !.fetching = FALSE, !.sets = sorted, !.detached = detached]
  BY DEF GetSplitsSuccessReduced
<1>2. n \in Nat /\ DOMAIN ps = 1..n /\ ls \in Seq(ToSet(ls)) /\ \A i \in 1..n : ps[i] \in ToSet(ps)
  BY DEF Graph, ToSet
<1>3. ASSUME NEW i \in 1..n PROVE out(i) \in Int
  <2> DEFINE passing == {l \in ToSet(ls) : l.source = ps[i].address}
  <2> HIDE DEF passing
  <2>1. Len(filter(ls, passing)) \in Nat
    BY <1>2, FilterLength
  <2> QED
    BY <2>1 DEF passing
<1>4. /\ DOMAIN peers = 1..n /\ peers = [i \in 1..n |-> row(i)]
      /\ \A i \in 1..n : peers[i].address = ps[i].address /\ peers[i].node = ps[i].node /\ peers[i].outgoingConnections = out(i)
  <2> HIDE DEF out
  <2> QED
    BY <1>2
<1> HIDE DEF n, out, row
<1> HIDE DEF peers
<1>5. peers \in Seq(ToSet(peers)) /\ ToSet(peers) = {peers[i] : i \in 1..n} /\ ToSet(ps) = {ps[i] : i \in 1..n}
  <2>1. \A i \in 1..n : peers[i] \in ToSet(peers)
    BY <1>4 DEF ToSet
  <2>2. peers \in [1..n -> ToSet(peers)]
    BY <1>4, <2>1
  <2>3. peers \in Seq(ToSet(peers))
    BY <1>2, <2>2
  <2>4. ToSet(peers) = {peers[i] : i \in 1..n} /\ ToSet(ps) = {ps[i] : i \in 1..n}
    BY <1>2, <1>4 DEF ToSet
  <2> QED
    BY <2>3, <2>4
<1>6. AddressesOf(peers) = AddressesOf(ps)
  <2>1. ASSUME NEW p \in ToSet(peers) PROVE \E q \in ToSet(ps) : q.address = p.address
    <3>1. PICK i \in 1..n : p = peers[i]
      BY <1>5
    <3> QED
      BY <1>2, <1>4, <3>1
  <2>2. ASSUME NEW q \in ToSet(ps) PROVE \E p \in ToSet(peers) : q.address = p.address
    <3>1. PICK i \in 1..n : q = ps[i]
      BY <1>5
    <3>2. peers[i] \in ToSet(peers)
      BY <1>5
    <3> QED
      BY <1>4, <3>1, <3>2
  <2> QED
    BY <2>1, <2>2 DEF AddressesOf
<1>7. Distinct(peers, "address")
  <2>1. \A i, j \in 1..n : ps[i].address = ps[j].address => i = j
    BY <1>2 DEF Graph, Distinct
  <2>2. \A i, j \in 1..n : peers[i].address = peers[j].address => i = j
    BY <1>4, <2>1
  <2> QED
    BY <1>4, <2>2 DEF Distinct
<1>8. Graph(peers, ls)
  BY <1>2, <1>5, <1>6, <1>7 DEF Graph
<1>9. Counted(peers)
  BY <1>3, <1>4, <1>5 DEF Counted
<1>10. Known(peers)
  <2> SUFFICES ASSUME NEW p \in ToSet(peers), NEW q \in ToSet(peers)
               PROVE  \E t \in Topologies : \E x, y \in ToSet(t.peers) :
                        x.address = p.address /\ x.node = p.node /\ y.address = q.address /\ y.node = q.node
    BY DEF Known
  <2>1. PICK i \in 1..n, j \in 1..n : p = peers[i] /\ q = peers[j]
    BY <1>5
  <2>2. /\ p.address = ps[i].address /\ p.node = ps[i].node /\ q.address = ps[j].address /\ q.node = ps[j].node
    BY <1>4, <2>1
  <2>3. ps[i] \in ToSet(ps) /\ ps[j] \in ToSet(ps)
    BY <1>2
  <2> QED
    BY <2>2, <2>3 DEF Known
<1>11. SetsFit(sets, AddressesOf(peers), peers, ls)
  BY <1>8, <1>9, SplitResult
<1> HIDE DEF sets
<1>12. splits.sort.sortBy = "outgoingConnections"
  BY DEF SplitsStateFits, SplitsShaped, SplitsSorts, SplitsColumns
<1>13. SetsFit(sorted, AddressesOf(peers), peers, ls)
  BY <1>9, <1>11, <1>12, SortedSets
<1> HIDE DEF sorted
<1>14. detached \in BOOLEAN /\ splits.sort \in SplitsSorts
  BY DEF SplitsStateFits, SplitsShaped
<1>15. (splits.activePeer # NoRow) = detached
  OBVIOUS
<1> HIDE DEF detached
<1>16. s = new
  BY <1>1 DEF SplitsStateFits, SplitsShaped
<1> HIDE DEF s
<1>17. /\ s.peers = peers /\ s.links = ls /\ s.sets = sorted /\ s.activePeer = splits.activePeer
       /\ s.detached = detached /\ s.fetching = FALSE /\ s.sort = splits.sort
  BY <1>16
<1>18. SplitsShaped(s)
  BY <1>14, <1>16, <1>17 DEF SplitsShaped
<1> HIDE DEF new
<1>19. SplitsStateFits(s)
  BY <1>8, <1>9, <1>10, <1>13, <1>15, <1>17, <1>18 DEF SplitsStateFits
<1> QED
  BY <1>15, <1>17, <1>19 DEF s

\* A selected peer is in exactly one of the sets.
LEMMA ActiveIndex ==
    ASSUME NEW s, SplitsStateFits(s), s.activePeer # NoRow, ~s.detached
    PROVE  /\ setIndex(s) \in DOMAIN s.sets /\ s.activePeer \in ToSet(s.sets[setIndex(s)])
           /\ \A j \in DOMAIN s.sets : s.activePeer \in ToSet(s.sets[j]) => j = setIndex(s)
<1> DEFINE a == s.activePeer
           found == {i \in DOMAIN s.sets : a \in ToSet(s.sets[i])}
           P == ToSet(s.peers)
<1>1. a \in P /\ Distinct(s.peers, "address") /\ SetsFit(s.sets, AddressesOf(s.peers), s.peers, s.links)
  BY DEF SplitsStateFits, Graph
<1>2. a.address \in AddressesOf(s.peers)
  BY <1>1 DEF AddressesOf
<1>3. PICK m \in DOMAIN s.sets : a.address \in AddressesOf(s.sets[m])
  BY <1>1, <1>2 DEF SetsFit
<1>4. PICK q \in ToSet(s.sets[m]) : q.address = a.address
  BY <1>3 DEF AddressesOf
<1>5. q \in P
  <2>1. s.sets \in Seq(Seq(P))
    BY <1>1 DEF SetsFit
  <2>2. s.sets[m] \in Seq(P)
    BY <1>3, <2>1
  <2> QED
    BY <1>4, <2>2 DEF ToSet
<1>6. q = a
  BY <1>1, <1>4, <1>5, SameAddress
<1>7. m \in found
  BY <1>3, <1>4, <1>6
<1>8. ASSUME NEW j \in DOMAIN s.sets, NEW k \in DOMAIN s.sets, a \in ToSet(s.sets[j]), a \in ToSet(s.sets[k]) PROVE j = k
  <2>1. a.address \in AddressesOf(s.sets[j]) /\ a.address \in AddressesOf(s.sets[k])
    BY <1>8 DEF AddressesOf
  <2> QED
    BY <1>1, <2>1 DEF SetsFit
<1>9. setIndex(s) = CHOOSE i \in found : TRUE
  BY <1>7 DEF setIndex
<1>10. setIndex(s) \in found
  BY <1>7, <1>9
<1> QED
  BY <1>8, <1>10

SplitsPageShaped(g) ==
    /\ g = [expandedItems |-> g.expandedItems, fetching |-> g.fetching, peers |-> g.peers]
    /\ g.fetching \in BOOLEAN

\* Two addresses of one half of a network.
Halved(a, b) ==
    \E t \in Topologies : \E p, q \in ToSet(t.peers) : p.address = a /\ q.address = b /\ p.node % 2 = q.node % 2

HalfFits(todo, ips) ==
    todo \in Seq(ToSet(todo)) /\ \A p \in ToSet(todo) : \A b \in ips : Halved(p.address, b)

SplitRequestFits(r) ==
    /\ r = [todo |-> r.todo, ips |-> r.ips] /\ r.todo = <<r.todo[1], r.todo[2]>>
    /\ HalfFits(r.todo[1], r.ips[1]) /\ HalfFits(r.todo[2], r.ips[2])

SplitsRequestsFit(req, s) ==
    /\ req = [get |-> req.get, split |-> req.split, merge |-> req.merge]
    /\ req.get \in SUBSET {"getPeers"} /\ (req.get # {} => s.fetching)
    /\ \A r \in req.split : SplitRequestFits(r)

FirewallFits(f) ==
    f = [a \in Addresses |-> f[a]] /\ \A a \in Addresses : \A b \in f[a] : Halved(a, b)

GraphFits(s, g) == ~s.fetching /\ s.peers # <<>> /\ s.links # <<>> => g.peers = s.peers

ActiveFits(s, g) == s.activePeer # NoRow /\ ~s.detached => setIndex(s) \in g.expandedItems

SplitsFit ==
    /\ SplitsStateFits(splits) /\ SplitsPageShaped(splitsPage)
    /\ SplitsRequestsFit(splitsReq, splits) /\ FirewallFits(firewall)
    /\ GraphFits(splits, splitsPage) /\ ActiveFits(splits, splitsPage)
    /\ page = "topology" /\ splits.fetching => splitsPage.fetching
    /\ page # "topology" => splits = initialSplits /\ splitsReq.get = {}

\* What the panel and the graph do with a new state.
LEMMA SplitsPageShown ==
    ASSUME SplitsPageShaped(splitsPage), NEW state, SplitsShaped(state), NEW newSets, NEW expanded,
           PanelShown(state, newSets, expanded)
    PROVE  /\ splits' = state /\ SplitsPageShaped(splitsPage')
           /\ state.fetching => splitsPage'.fetching
           /\ ~state.fetching /\ state.peers # <<>> /\ state.links # <<>>
              /\ (splitsPage.fetching \/ splitsPage.peers = state.peers) => splitsPage'.peers = state.peers
           /\ splitsPage'.expandedItems =
                IF newSets /\ Len(state.sets) = 1 THEN {1} ELSE splitsPage.expandedItems \cup expanded
<1> DEFINE g == splitsPage
           h == GraphUpdated(state)
           fetching == g.fetching \/ state.fetching
           draws == state.peers # <<>> /\ state.links # <<>> /\ fetching /\ ~state.fetching
           shown == IF newSets /\ Len(state.sets) = 1 THEN {1} ELSE g.expandedItems \cup expanded
           loads == IF draws THEN FALSE ELSE fetching
           drawn == IF draws THEN state.peers ELSE g.peers
<1>1. g = [expandedItems |-> g.expandedItems, fetching |-> g.fetching, peers |-> g.peers] /\ g.fetching \in BOOLEAN
  BY DEF SplitsPageShaped
<1>2. h = IF draws THEN [g EXCEPT !.fetching = FALSE, !.peers = state.peers] ELSE [g EXCEPT !.fetching = fetching]
  BY DEF GraphUpdated
<1>3. loads \in BOOLEAN /\ (state.fetching => loads) /\ state.fetching \in BOOLEAN
  BY <1>1 DEF SplitsShaped
<1>4. ~state.fetching /\ state.peers # <<>> /\ state.links # <<>> /\ (g.fetching \/ g.peers = state.peers) => drawn = state.peers
  OBVIOUS
<1>5. h = [expandedItems |-> g.expandedItems, fetching |-> loads, peers |-> drawn]
  <2> DEFINE e == g.expandedItems
             f == g.fetching
             p == g.peers
             no == FALSE
  <2>1. g = [expandedItems |-> e, fetching |-> f, peers |-> p]
    BY <1>1
  <2>2. ASSUME NEW x, NEW y, NEW z, NEW v, NEW w
        PROVE  /\ [[expandedItems |-> x, fetching |-> y, peers |-> z] EXCEPT !.fetching = v, !.peers = w]
                    = [expandedItems |-> x, fetching |-> v, peers |-> w]
               /\ [[expandedItems |-> x, fetching |-> y, peers |-> z] EXCEPT !.fetching = v]
                    = [expandedItems |-> x, fetching |-> v, peers |-> z]
    <3>1. ASSUME NEW u PROVE [[expandedItems |-> x, fetching |-> u, peers |-> z] EXCEPT !.fetching = v]
                                = [expandedItems |-> x, fetching |-> v, peers |-> z]
      OBVIOUS
    <3>2. ASSUME NEW u PROVE [[expandedItems |-> x, fetching |-> u, peers |-> z] EXCEPT !.peers = w]
                                = [expandedItems |-> x, fetching |-> u, peers |-> w]
      OBVIOUS
    <3> QED
      BY <3>1, <3>2
  <2>3. CASE draws
    <3>1. h = [g EXCEPT !.fetching = no, !.peers = state.peers] /\ loads = no /\ drawn = state.peers
      BY <1>2, <2>3
    <3> HIDE DEF h, loads, drawn, no, g
    <3>2. h = [expandedItems |-> e, fetching |-> no, peers |-> state.peers]
      <4> HIDE DEF e, f, p
      <4> QED
        BY <2>1, <2>2, <3>1
    <3> QED
      BY <3>1, <3>2
  <2>4. CASE ~draws
    <3>1. h = [g EXCEPT !.fetching = fetching] /\ loads = fetching /\ drawn = p
      BY <1>2, <2>4
    <3> HIDE DEF h, loads, drawn, fetching, g
    <3>2. h = [expandedItems |-> e, fetching |-> fetching, peers |-> p]
      <4> HIDE DEF e, f, p
      <4> QED
        BY <2>1, <2>2, <3>1
    <3> QED
      BY <3>1, <3>2
  <2> QED
    BY <2>3, <2>4
<1>6. splits' = state /\ splitsPage' = [h EXCEPT !.expandedItems =
         IF newSets /\ Len(state.sets) = 1 THEN {1} ELSE h.expandedItems \cup expanded]
  <2> HIDE DEF h
  <2>1. h.expandedItems = g.expandedItems
    BY <1>5
  <2> QED
    BY <2>1 DEF PanelShown, h
<1> HIDE DEF h, loads, drawn
<1>7. splitsPage' = [h EXCEPT !.expandedItems = shown]
  <2>1. h.expandedItems = g.expandedItems
    BY <1>5
  <2> QED
    BY <1>6, <2>1
<1> HIDE DEF shown
<1>8. splitsPage' = [expandedItems |-> shown, fetching |-> loads, peers |-> drawn]
  BY <1>5, <1>7
<1>9. splitsPage'.expandedItems = shown /\ splitsPage'.fetching = loads /\ splitsPage'.peers = drawn
  BY <1>8
<1>10. SplitsPageShaped(splitsPage')
  BY <1>3, <1>8, <1>9 DEF SplitsPageShaped
<1> QED
  BY <1>3, <1>4, <1>6, <1>9, <1>10 DEF shown

\* A new state of the slice, shown, fits when graph and selection do.
LEMMA PanelShownFits ==
    ASSUME SplitsFit, NEW state, SplitsStateFits(state), NEW newSets, NEW expanded, PanelShown(state, newSets, expanded),
           page' = "topology", FirewallFits(firewall'), SplitsRequestsFit(splitsReq', state),
           ~state.fetching => splitsPage.fetching \/ splitsPage.peers = state.peers \/ state.peers = <<>> \/ state.links = <<>>,
           state.activePeer # NoRow /\ ~state.detached =>
              setIndex(state) \in (IF newSets /\ Len(state.sets) = 1 THEN {1} ELSE splitsPage.expandedItems \cup expanded)
    PROVE  SplitsFit'
<1>1. SplitsPageShaped(splitsPage) /\ SplitsShaped(state)
  BY DEF SplitsFit, SplitsStateFits
<1>2. /\ splits' = state /\ SplitsPageShaped(splitsPage') /\ (state.fetching => splitsPage'.fetching)
      /\ (~state.fetching /\ state.peers # <<>> /\ state.links # <<>>
              /\ (splitsPage.fetching \/ splitsPage.peers = state.peers) => splitsPage'.peers = state.peers)
      /\ splitsPage'.expandedItems =
            (IF newSets /\ Len(state.sets) = 1 THEN {1} ELSE splitsPage.expandedItems \cup expanded)
  BY <1>1, SplitsPageShown
<1>3. GraphFits(state, splitsPage')
  BY <1>2 DEF GraphFits
<1>4. ActiveFits(state, splitsPage')
  BY <1>2 DEF ActiveFits
<1> QED
  BY <1>2, <1>3, <1>4 DEF SplitsFit

LEMMA SplitsShownFits ==
    ASSUME SplitsFit, NEW state, SplitsStateFits(state), NEW newSets, SplitsShown(state, newSets),
           page' = "topology", FirewallFits(firewall'), SplitsRequestsFit(splitsReq', state),
           ~state.fetching => splitsPage.fetching \/ splitsPage.peers = state.peers \/ state.peers = <<>> \/ state.links = <<>>,
           state.activePeer # NoRow /\ ~state.detached =>
              \/ ~newSets /\ (state.activePeer # splits.activePeer \/ (splits.detached /\ ~state.detached))
              \/ setIndex(state) \in (IF newSets /\ Len(state.sets) = 1 THEN {1} ELSE splitsPage.expandedItems)
    PROVE  SplitsFit'
<1> DEFINE changed == state.activePeer # splits.activePeer \/ (splits.detached /\ ~state.detached)
           expanded == IF changed THEN {setIndex(state)} ELSE {}
<1>1. PanelShown(state, newSets, expanded)
  BY DEF SplitsShown
<1>2. changed => setIndex(state) \in expanded
  OBVIOUS
<1> HIDE DEF expanded
<1>3. state.activePeer # NoRow /\ ~state.detached =>
        setIndex(state) \in (IF newSets /\ Len(state.sets) = 1 THEN {1} ELSE splitsPage.expandedItems \cup expanded)
  BY <1>2
<1> QED
  BY <1>1, <1>3, PanelShownFits

LEMMA InitialSplits == SplitsStateFits(initialSplits)
<1> DEFINE none == <<>>
           s == initialSplits
<1>1. /\ s.peers = none /\ s.links = none /\ s.sets = none /\ s.activePeer = NoRow
      /\ s.detached \in BOOLEAN /\ s.fetching \in BOOLEAN /\ s.sort \in SplitsSorts
  BY DEF initialSplits, SplitsSorts, SplitsColumns
<1>2. s = [peers |-> s.peers, links |-> s.links, sets |-> s.sets, activePeer |-> s.activePeer,
            detached |-> s.detached, fetching |-> s.fetching, sort |-> s.sort]
  BY DEF initialSplits
<1>3. Graph(none, none) /\ Known(none)
  BY NoGraph
<1>4. ToSet(none) = {} /\ DOMAIN none = {} /\ none \in Seq(Seq(ToSet(none)))
  BY DEF ToSet
<1> HIDE DEF s, none
<1>5. SetsFit(none, AddressesOf(none), none, none) /\ Counted(none)
  BY <1>4 DEF SetsFit, AddressesOf, Counted
<1>6. SplitsShaped(s)
  BY <1>1, <1>2 DEF SplitsShaped
<1>7. SplitsStateFits(s)
  BY <1>1, <1>3, <1>5, <1>6 DEF SplitsStateFits
<1> QED
  BY <1>7 DEF s

LEMMA SplitsFitInit == LayoutInit /\ SplitsInit => SplitsFit
<1> SUFFICES ASSUME LayoutInit, SplitsInit PROVE SplitsFit
  OBVIOUS
<1>1. SplitsStateFits(splits) /\ splits = initialSplits
  BY InitialSplits DEF SplitsInit
<1>2. splits.fetching = TRUE /\ splits.activePeer = NoRow
  BY <1>1 DEF initialSplits
<1>3. SplitsPageShaped(splitsPage)
  BY DEF SplitsInit, NoSplitsPage, SplitsPageShaped
<1>4. SplitsRequestsFit(splitsReq, splits) /\ splitsReq.get = {}
  BY DEF SplitsInit, SplitsRequestsFit
<1>5. FirewallFits(firewall)
  BY DEF SplitsInit, FirewallFits
<1> QED
  BY <1>1, <1>2, <1>3, <1>4, <1>5 DEF SplitsFit, LayoutInit, GraphFits, ActiveFits

\* The other requests are left alone.
LEMMA GetRequest ==
    ASSUME NEW req, NEW s, NEW state, SplitsRequestsFit(req, s), NEW get \in SUBSET {"getPeers"}, get # {} => state.fetching
    PROVE  SplitsRequestsFit([req EXCEPT !.get = get], state) /\ [req EXCEPT !.get = get].get = get
<1> DEFINE n == [req EXCEPT !.get = get]
           a == req.split
           b == req.merge
           c == req.get
<1>1. req = [get |-> c, split |-> a, merge |-> b] /\ \A r \in a : SplitRequestFits(r)
  BY DEF SplitsRequestsFit
<1>2. ASSUME NEW x, NEW y, NEW z, NEW w
      PROVE  [[get |-> x, split |-> y, merge |-> z] EXCEPT !.get = w] = [get |-> w, split |-> y, merge |-> z]
  OBVIOUS
<1> HIDE DEF a, b, c
<1>3. n = [get |-> get, split |-> a, merge |-> b]
  BY <1>1, <1>2
<1> HIDE DEF n
<1>4. n.get = get /\ n.split = a /\ n.merge = b
  BY <1>3
<1>5. SplitsRequestsFit(n, state)
  BY <1>1, <1>3, <1>4 DEF SplitsRequestsFit
<1> QED
  BY <1>4, <1>5 DEF n

LEMMA SplitRequest ==
    ASSUME NEW req, NEW s, SplitsRequestsFit(req, s), NEW split, \A r \in split : SplitRequestFits(r)
    PROVE  SplitsRequestsFit([req EXCEPT !.split = split], s) /\ [req EXCEPT !.split = split].get = req.get
<1> DEFINE n == [req EXCEPT !.split = split]
           a == req.split
           b == req.merge
           c == req.get
<1>1. req = [get |-> c, split |-> a, merge |-> b] /\ c \in SUBSET {"getPeers"} /\ (c # {} => s.fetching)
  BY DEF SplitsRequestsFit
<1>2. ASSUME NEW x, NEW y, NEW z, NEW w
      PROVE  [[get |-> x, split |-> y, merge |-> z] EXCEPT !.split = w] = [get |-> x, split |-> w, merge |-> z]
  OBVIOUS
<1> HIDE DEF a, b, c
<1>3. n = [get |-> c, split |-> split, merge |-> b]
  BY <1>1, <1>2
<1> HIDE DEF n
<1>4. n.get = c /\ n.split = split /\ n.merge = b
  BY <1>3
<1>5. SplitsRequestsFit(n, s)
  BY <1>1, <1>3, <1>4 DEF SplitsRequestsFit
<1> QED
  BY <1>4, <1>5 DEF n, c

LEMMA MergeRequest ==
    ASSUME NEW req, NEW s, SplitsRequestsFit(req, s), NEW merge
    PROVE  SplitsRequestsFit([req EXCEPT !.merge = merge], s) /\ [req EXCEPT !.merge = merge].get = req.get
<1> DEFINE n == [req EXCEPT !.merge = merge]
           a == req.split
           b == req.merge
           c == req.get
<1>1. /\ req = [get |-> c, split |-> a, merge |-> b] /\ c \in SUBSET {"getPeers"} /\ (c # {} => s.fetching)
      /\ \A r \in a : SplitRequestFits(r)
  BY DEF SplitsRequestsFit
<1>2. ASSUME NEW x, NEW y, NEW z, NEW w
      PROVE  [[get |-> x, split |-> y, merge |-> z] EXCEPT !.merge = w] = [get |-> x, split |-> y, merge |-> w]
  OBVIOUS
<1> HIDE DEF a, b, c
<1>3. n = [get |-> c, split |-> a, merge |-> merge]
  BY <1>1, <1>2
<1> HIDE DEF n
<1>4. n.get = c /\ n.split = a /\ n.merge = merge
  BY <1>3
<1>5. SplitsRequestsFit(n, s)
  BY <1>1, <1>3, <1>4 DEF SplitsRequestsFit
<1> QED
  BY <1>4, <1>5 DEF n, c

\* The states that getSplits, a selection and a sort make.
LEMMA SplitsFetched ==
    ASSUME SplitsStateFits(splits)
    PROVE  LET s == GetSplitsReduced IN SplitsStateFits(s) /\ s.fetching /\ s.activePeer = NoRow
<1> DEFINE s == GetSplitsReduced
           no == FALSE
           yes == TRUE
           new == [peers |-> splits.peers, links |-> splits.links, sets |-> splits.sets, activePeer |-> NoRow,
                   detached |-> no, fetching |-> yes, sort |-> splits.sort]
<1>1. s = [splits EXCEPT !.activePeer = NoRow, !.detached = no, !.fetching = yes]
  BY DEF GetSplitsReduced
<1>2. no \in BOOLEAN /\ yes \in BOOLEAN /\ yes
  OBVIOUS
<1> HIDE DEF s, no, yes
<1>3. s = new
  BY <1>1 DEF SplitsStateFits, SplitsShaped
<1>4. /\ s.peers = splits.peers /\ s.links = splits.links /\ s.sets = splits.sets /\ s.activePeer = NoRow
      /\ s.detached = no /\ s.fetching = yes /\ s.sort = splits.sort
  BY <1>3
<1>5. SplitsShaped(s)
  BY <1>2, <1>3, <1>4 DEF SplitsShaped, SplitsStateFits
<1> HIDE DEF new
<1>6. SplitsStateFits(s)
  BY <1>4, <1>5 DEF SplitsStateFits
<1> QED
  BY <1>2, <1>4, <1>6 DEF s

LEMMA PeerSelected ==
    ASSUME NEW old, SplitsStateFits(old), NEW peer, peer # NoRow => peer \in ToSet(old.peers)
    PROVE  LET s == SetActivePeerReduced(old, peer)
           IN  /\ SplitsStateFits(s) /\ s.activePeer = peer /\ ~s.detached /\ s.fetching = old.fetching
               /\ s.peers = old.peers /\ s.links = old.links /\ s.sets = old.sets
<1> DEFINE s == SetActivePeerReduced(old, peer)
           no == FALSE
           new == [peers |-> old.peers, links |-> old.links, sets |-> old.sets, activePeer |-> peer,
                   detached |-> no, fetching |-> old.fetching, sort |-> old.sort]
<1>1. s = [old EXCEPT !.activePeer = peer, !.detached = no]
  BY DEF SetActivePeerReduced
<1>2. no \in BOOLEAN /\ ~no
  OBVIOUS
<1> HIDE DEF s, no
<1>3. s = new
  BY <1>1 DEF SplitsStateFits, SplitsShaped
<1>4. /\ s.peers = old.peers /\ s.links = old.links /\ s.sets = old.sets /\ s.activePeer = peer
      /\ s.detached = no /\ s.fetching = old.fetching /\ s.sort = old.sort
  BY <1>3
<1>5. SplitsShaped(s)
  BY <1>2, <1>3, <1>4 DEF SplitsShaped, SplitsStateFits
<1> HIDE DEF new
<1>6. SplitsStateFits(s)
  BY <1>4, <1>5 DEF SplitsStateFits
<1> QED
  BY <1>2, <1>4, <1>6 DEF s

LEMMA PeersSorted ==
    ASSUME SplitsStateFits(splits), NEW tableSort \in SplitsSorts
    PROVE  LET s == SortPeersReduced(tableSort)
           IN  /\ SplitsStateFits(s) /\ s.activePeer = splits.activePeer /\ s.detached = splits.detached
               /\ s.fetching = splits.fetching /\ s.peers = splits.peers /\ s.links = splits.links
               /\ DOMAIN s.sets = DOMAIN splits.sets /\ Len(s.sets) = Len(splits.sets)
               /\ \A i \in DOMAIN splits.sets : ToSet(s.sets[i]) = ToSet(splits.sets[i])
<1> DEFINE s == SortPeersReduced(tableSort)
           sorted == [i \in DOMAIN splits.sets |-> sort(splits.sets[i], tableSort)]
           new == [peers |-> splits.peers, links |-> splits.links, sets |-> sorted, activePeer |-> splits.activePeer,
                   detached |-> splits.detached, fetching |-> splits.fetching, sort |-> tableSort]
<1>1. s = [splits EXCEPT !.sort = tableSort, !.sets = sorted]
  BY DEF SortPeersReduced
<1>2. tableSort.sortBy = "outgoingConnections"
  BY DEF SplitsSorts, SplitsColumns
<1>3. /\ SetsFit(sorted, AddressesOf(splits.peers), splits.peers, splits.links)
      /\ DOMAIN sorted = DOMAIN splits.sets /\ Len(sorted) = Len(splits.sets)
      /\ \A i \in DOMAIN splits.sets : ToSet(sorted[i]) = ToSet(splits.sets[i])
  <2>1. Counted(splits.peers) /\ SetsFit(splits.sets, AddressesOf(splits.peers), splits.peers, splits.links)
    BY DEF SplitsStateFits
  <2> QED
    BY <1>2, <2>1, SortedSets
<1> HIDE DEF s, sorted
<1>4. s = new
  BY <1>1 DEF SplitsStateFits, SplitsShaped
<1>5. /\ s.peers = splits.peers /\ s.links = splits.links /\ s.sets = sorted /\ s.activePeer = splits.activePeer
      /\ s.detached = splits.detached /\ s.fetching = splits.fetching /\ s.sort = tableSort
  BY <1>4
<1>6. SplitsShaped(s)
  BY <1>4, <1>5 DEF SplitsShaped, SplitsStateFits
<1> HIDE DEF new
<1>7. SplitsStateFits(s)
  BY <1>3, <1>5, <1>6 DEF SplitsStateFits
<1> QED
  BY <1>3, <1>5, <1>7 DEF s

\* The halves of splitNodes.
LEMMA Halves ==
    ASSUME NEW peers, peers \in Seq(ToSet(peers)), Known(peers), NEW k
    PROVE  LET half == filter(peers, {p \in ToSet(peers) : p.node # 0 /\ p.node % 2 = k})
           IN  HalfFits(half, {p.address : p \in ToSet(half)})
<1> DEFINE passing == {p \in ToSet(peers) : p.node # 0 /\ p.node % 2 = k}
           half == filter(peers, passing)
<1>1. half \in Seq(ToSet(peers)) /\ ToSet(half) = ToSet(peers) \cap passing
  <2> HIDE DEF passing
  <2> QED
    BY FilterRows
<1> HIDE DEF half
<1>2. half \in Seq(ToSet(half))
  BY <1>1, SequenceOf
<1>3. ASSUME NEW p \in ToSet(half), NEW q \in ToSet(half) PROVE Halved(p.address, q.address)
  <2>1. p \in ToSet(peers) /\ q \in ToSet(peers) /\ p.node % 2 = q.node % 2
    BY <1>1
  <2>2. PICK t \in Topologies : \E x, y \in ToSet(t.peers) :
           x.address = p.address /\ x.node = p.node /\ y.address = q.address /\ y.node = q.node
    BY <2>1 DEF Known
  <2>3. PICK x \in ToSet(t.peers), y \in ToSet(t.peers) :
           x.address = p.address /\ x.node = p.node /\ y.address = q.address /\ y.node = q.node
    BY <2>2
  <2>4. x.node % 2 = y.node % 2
    BY <2>1, <2>3
  <2> QED
    BY <2>3, <2>4 DEF Halved
<1>4. HalfFits(half, {p.address : p \in ToSet(half)})
  BY <1>2, <1>3 DEF HalfFits
<1> QED
  BY <1>4 DEF half

\* A node of a half is told to let its half through.
LEMMA SplitPosted ==
    ASSUME FirewallFits(firewall), SplitsRequestsFit(splitsReq, splits), NEW r \in splitsReq.split, NEW h \in 1..2,
           splitPosted(r, h)
    PROVE  FirewallFits(firewall') /\ SplitsRequestsFit(splitsReq', splits) /\ splitsReq'.get = splitsReq.get
<1> DEFINE todo == r.todo[h]
           node == Head(todo).address
           rest == [r.todo EXCEPT ![h] = Tail(todo)]
           n == [r EXCEPT !.todo = rest]
<1>1. SplitRequestFits(r)
  BY DEF SplitsRequestsFit
<1>2. HalfFits(todo, r.ips[h])
  BY <1>1 DEF SplitRequestFits
<1>3. /\ todo # <<>> /\ firewall' = [firewall EXCEPT ![node] = r.ips[h]]
      /\ splitsReq' = [splitsReq EXCEPT !.split = {n}]
  BY <1>1 DEF splitPosted, SplitRequestFits
<1>4. Tail(todo) \in Seq(ToSet(todo)) /\ ToSet(todo) = {Head(todo)} \cup ToSet(Tail(todo))
  BY <1>2, <1>3, TailSet DEF HalfFits
<1>5. Tail(todo) \in Seq(ToSet(Tail(todo)))
  BY <1>4, SequenceOf
<1>6. HalfFits(Tail(todo), r.ips[h])
  <2> HIDE DEF todo
  <2> QED
    BY <1>2, <1>4, <1>5 DEF HalfFits
<1>7. \A b \in r.ips[h] : Halved(node, b)
  BY <1>2, <1>4 DEF HalfFits
<1>8. FirewallFits(firewall')
  <2> DEFINE ips == r.ips[h]
  <2> HIDE DEF node, ips
  <2>1. firewall' = [firewall EXCEPT ![node] = ips] /\ \A b \in ips : Halved(node, b)
    BY <1>3, <1>7 DEF ips
  <2>2. firewall = [a \in Addresses |-> firewall[a]]
    BY DEF FirewallFits
  <2>3. firewall' = [a \in Addresses |-> IF a = node THEN ips ELSE firewall[a]]
    BY <2>1, <2>2
  <2>4. firewall' = [a \in Addresses |-> firewall'[a]]
    BY <2>3
  <2>5. ASSUME NEW a \in Addresses, NEW b \in firewall'[a] PROVE Halved(a, b)
    <3>1. firewall'[a] = IF a = node THEN ips ELSE firewall[a]
      BY <2>3
    <3> QED
      BY <2>1, <2>5, <3>1 DEF FirewallFits
  <2> QED
    BY <2>4, <2>5 DEF FirewallFits
<1>9. SplitRequestFits(n)
  <2> DEFINE x == r.todo[1]
             y == r.todo[2]
             ips == r.ips
             t == Tail(todo)
  <2>1. r = [todo |-> r.todo, ips |-> ips] /\ r.todo = <<x, y>> /\ HalfFits(x, ips[1]) /\ HalfFits(y, ips[2])
    BY <1>1 DEF SplitRequestFits
  <2>2. HalfFits(t, ips[h])
    BY <1>6
  <2> HIDE DEF x, y, t, ips
  <2>3. n = [todo |-> rest, ips |-> ips] /\ n.todo = rest /\ n.ips = ips
    <3> DEFINE both == r.todo
    <3>1. ASSUME NEW u, NEW v, NEW w PROVE [[todo |-> u, ips |-> v] EXCEPT !.todo = w] = [todo |-> w, ips |-> v]
      OBVIOUS
    <3>2. r = [todo |-> both, ips |-> ips] /\ n = [r EXCEPT !.todo = rest]
      BY <2>1
    <3> HIDE DEF both, rest, n
    <3>3. n = [todo |-> rest, ips |-> ips]
      BY <3>1, <3>2
    <3> QED
      BY <3>3
  <2>4. rest = [<<x, y>> EXCEPT ![h] = t]
    BY <2>1 DEF t
  <2>5. CASE h = 1
    <3>1. rest = <<t, y>>
      BY <2>4, <2>5
    <3> HIDE DEF n, rest
    <3> QED
      BY <2>1, <2>2, <2>3, <2>5, <3>1 DEF SplitRequestFits
  <2>6. CASE h = 2
    <3>1. rest = <<x, t>>
      BY <2>4, <2>6
    <3> HIDE DEF n, rest
    <3> QED
      BY <2>1, <2>2, <2>3, <2>6, <3>1 DEF SplitRequestFits
  <2> QED
    BY <2>5, <2>6
<1> HIDE DEF n
<1>10. SplitsRequestsFit(splitsReq', splits) /\ splitsReq'.get = splitsReq.get
  <2> DEFINE split == {n}
  <2>1. \A q \in split : SplitRequestFits(q)
    BY <1>9
  <2>2. splitsReq' = [splitsReq EXCEPT !.split = split]
    BY <1>3
  <2> HIDE DEF split
  <2> QED
    BY <2>1, <2>2, SplitRequest
<1> QED
  BY <1>8, <1>10

LEMMA SplitsFitStep ==
    ASSUME SplitsFit, SplitsNext
    PROVE  SplitsFit' /\ loading' = loading /\ PageMoves("topology")
<1> DEFINE Fits == SplitsFit' /\ loading' = loading /\ PageMoves("topology")
<1>1. /\ SplitsStateFits(splits) /\ SplitsPageShaped(splitsPage)
      /\ SplitsRequestsFit(splitsReq, splits) /\ FirewallFits(firewall)
      /\ GraphFits(splits, splitsPage) /\ ActiveFits(splits, splitsPage)
      /\ (page = "topology" /\ splits.fetching => splitsPage.fetching)
      /\ (page # "topology" => splits = initialSplits /\ splitsReq.get = {})
  BY DEF SplitsFit
<1>2. ASSUME NEW ps, NEW ls, Graph(ps, ls), Known(ps), splitsReq.get # {},
             \/ SplitsShown(GetSplitsSuccessReduced([peers |-> ps, links |-> ls]), TRUE)
             \/ AnswerShown(GetSplitsSuccessReduced([peers |-> ps, links |-> ls])),
             splitsReq' = [splitsReq EXCEPT !.get = {}], page' = page, loading' = loading, firewall' = firewall
      PROVE  Fits
  <2> DEFINE s == GetSplitsSuccessReduced([peers |-> ps, links |-> ls])
             newSets == TRUE
  <2>1. SplitsStateFits(s) /\ ~s.fetching /\ (s.activePeer # NoRow => s.detached)
    BY <1>1, <1>2, SplitsAnswered
  <2>2. SplitsShown(s, newSets) \/ AnswerShown(s)
    BY <1>2
  <2> HIDE DEF s
  <2>3. page = "topology" /\ splits.fetching /\ splitsPage.fetching
    BY <1>1, <1>2 DEF SplitsRequestsFit
  <2>4. SplitsRequestsFit(splitsReq', s)
    <3> DEFINE get == {}
    <3>1. get \in SUBSET {"getPeers"} /\ (get # {} => s.fetching) /\ splitsReq' = [splitsReq EXCEPT !.get = get]
      BY <1>2
    <3> HIDE DEF get
    <3> QED
      BY <1>1, <3>1, GetRequest
  <2>5. page' = "topology" /\ FirewallFits(firewall')
    BY <1>1, <1>2, <2>3
  <2>6. CASE SplitsShown(s, newSets)
    <3> HIDE DEF newSets
    <3>1. SplitsFit'
      BY <2>1, <2>3, <2>4, <2>5, <2>6, SplitsShownFits
    <3> QED
      BY <1>2, <3>1 DEF PageMoves
  <2>7. ASSUME NEW peer \in ToSet(s.peers), NEW others,
               PanelShown(SetActivePeerReduced(s, peer), newSets,
                          {setIndex(SetActivePeerReduced(s, peer))} \cup others)
        PROVE  Fits
    <3> DEFINE new == SetActivePeerReduced(s, peer)
               expanded == {setIndex(new)} \cup others
    <3>1. SplitsStateFits(new) /\ new.activePeer = peer /\ ~new.detached /\ new.fetching = s.fetching
      BY <2>1, PeerSelected
    <3>2. PanelShown(new, newSets, expanded) /\ setIndex(new) \in expanded
      BY <2>7
    <3> HIDE DEF new, newSets, expanded
    <3>3. SplitsRequestsFit(splitsReq', new)
      BY <2>4, <3>1 DEF SplitsRequestsFit
    <3>4. ASSUME new.activePeer # NoRow, Len(new.sets) = 1 PROVE setIndex(new) = 1
      <4>1. setIndex(new) \in DOMAIN new.sets
        BY <3>1, <3>4, ActiveIndex
      <4>2. new.sets \in Seq(Seq(ToSet(new.peers)))
        BY <3>1 DEF SplitsStateFits, SetsFit
      <4> QED
        BY <3>4, <4>1, <4>2
    <3>5. new.activePeer # NoRow /\ ~new.detached =>
            setIndex(new) \in (IF newSets /\ Len(new.sets) = 1 THEN {1} ELSE splitsPage.expandedItems \cup expanded)
      BY <3>2, <3>4
    <3>6. SplitsFit'
      BY <2>1, <2>3, <2>5, <3>1, <3>2, <3>3, <3>5, PanelShownFits
    <3> QED
      BY <1>2, <3>6 DEF PageMoves
  <2>8. CASE AnswerShown(s)
    <3>1. \/ SplitsShown(s, newSets)
          \/ \E peer \in ToSet(s.peers) : \E others :
                PanelShown(SetActivePeerReduced(s, peer), newSets,
                           {setIndex(SetActivePeerReduced(s, peer))} \cup others)
      BY <2>8 DEF AnswerShown
    <3> HIDE DEF newSets, Fits
    <3> QED
      BY <2>6, <2>7, <3>1
  <2> QED
    BY <2>2, <2>6, <2>8
<1>3. ASSUME GetSplitsSuccess PROVE Fits
  <2>1. PICK r \in splitsReq.get, t \in Topologies :
          /\ AnswerShown(GetSplitsSuccessReduced([peers |-> removeDuplicatedPeers(t.peers), links |-> t.links]))
          /\ splitsReq' = [splitsReq EXCEPT !.get = splitsReq.get \ {r}]
          /\ page' = page /\ loading' = loading /\ firewall' = firewall
    BY <1>3 DEF GetSplitsSuccess, Completed, layoutVars
  <2> DEFINE ps == removeDuplicatedPeers(t.peers)
  <2>2. Graph(ps, t.links) /\ Known(ps)
    BY TopologyGraph
  <2>3. splitsReq.get \ {r} = {} /\ splitsReq.get # {}
    BY <1>1 DEF SplitsRequestsFit
  <2>4. splitsReq' = [splitsReq EXCEPT !.get = {}]
    BY <2>1, <2>3
  <2>5. AnswerShown(GetSplitsSuccessReduced([peers |-> ps, links |-> t.links]))
    BY <2>1
  <2> HIDE DEF ps, Fits
  <2> QED
    BY <1>2, <2>1, <2>2, <2>3, <2>4, <2>5
<1>4. ASSUME GetSplitsError PROVE Fits
  <2> DEFINE none == <<>>
  <2>1. /\ splitsReq.get # {} /\ SplitsShown(GetSplitsSuccessReduced([peers |-> none, links |-> none]), TRUE)
        /\ splitsReq' = [splitsReq EXCEPT !.get = {}] /\ page' = page /\ loading' = loading /\ firewall' = firewall
    BY <1>4 DEF GetSplitsError, catchErrorAndRepeat, layoutVars
  <2>2. Graph(none, none) /\ Known(none)
    BY NoGraph
  <2> HIDE DEF none, Fits
  <2> QED
    BY <1>2, <2>1, <2>2
<1>5. ASSUME getSplits, NEW expanded, PanelShown(GetSplitsReduced, FALSE, expanded), page' = "topology",
             page \in {"none", "topology"}, loading' = loading, firewall' = firewall
      PROVE  Fits
  <2> DEFINE s == GetSplitsReduced
             newSets == FALSE
             get == {"getPeers"}
  <2>1. SplitsStateFits(s) /\ s.fetching /\ s.activePeer = NoRow
    BY <1>1, SplitsFetched
  <2>2. PanelShown(s, newSets, expanded) /\ splitsReq' = [splitsReq EXCEPT !.get = get] /\ get \in SUBSET {"getPeers"}
    BY <1>5 DEF getSplits, switchMap
  <2> HIDE DEF s, newSets, get
  <2>3. SplitsRequestsFit(splitsReq', s)
    BY <1>1, <2>1, <2>2, GetRequest
  <2>4. FirewallFits(firewall')
    BY <1>1, <1>5
  <2>5. SplitsFit'
    BY <1>5, <2>1, <2>2, <2>3, <2>4, PanelShownFits
  <2> QED
    BY <1>5, <2>5 DEF PageMoves
<1>6. ASSUME SplitsOpen PROVE Fits
  <2>1. /\ getSplits /\ PanelShown(GetSplitsReduced, FALSE, {0}) /\ page' = "topology" /\ page \in {"none", "topology"}
        /\ loading' = loading /\ firewall' = firewall
    BY <1>6 DEF SplitsOpen, Enter
  <2> HIDE DEF Fits
  <2> QED
    BY <1>5, <2>1
<1>7. ASSUME refresh PROVE Fits
  <2> DEFINE s == GetSplitsReduced
             expanded == IF s.activePeer # splits.activePeer \/ (splits.detached /\ ~s.detached)
                         THEN {setIndex(s)} ELSE {}
  <2>1. /\ getSplits /\ PanelShown(GetSplitsReduced, FALSE, expanded) /\ page' = "topology" /\ page \in {"none", "topology"}
        /\ loading' = loading /\ firewall' = firewall
    BY <1>7 DEF refresh, On, SplitsShown
  <2> HIDE DEF Fits, expanded
  <2> QED
    BY <1>5, <2>1
<1>8. ASSUME SplitsClose PROVE Fits
  <2> DEFINE get == {}
  <2>1. /\ page = "topology" /\ page' = "none" /\ loading' = loading /\ firewall' = firewall
        /\ splits' = initialSplits /\ splitsPage' = NoSplitsPage /\ splitsReq' = [splitsReq EXCEPT !.get = get]
    BY <1>8 DEF SplitsClose, Leave
  <2>2. get \in SUBSET {"getPeers"} /\ get = {}
    OBVIOUS
  <2> HIDE DEF get
  <2>3. SplitsRequestsFit(splitsReq', splits') /\ splitsReq'.get = get
    BY <1>1, <2>1, <2>2, GetRequest
  <2>4. SplitsStateFits(splits')
    BY <2>1, InitialSplits
  <2>5. splits'.fetching = TRUE /\ splits'.activePeer = NoRow
    BY <2>1 DEF initialSplits
  <2>6. SplitsPageShaped(splitsPage')
    BY <2>1 DEF NoSplitsPage, SplitsPageShaped
  <2>7. FirewallFits(firewall') /\ GraphFits(splits', splitsPage') /\ ActiveFits(splits', splitsPage')
    BY <1>1, <2>1, <2>5 DEF GraphFits, ActiveFits
  <2> QED
    BY <2>1, <2>2, <2>3, <2>4, <2>6, <2>7 DEF SplitsFit, PageMoves
<1>9. ASSUME SplitsSort PROVE Fits
  <2>1. PICK column \in SplitsColumns : SplitsShown(SortPeersReduced(sortTable(splits.sort, column)), TRUE)
    BY <1>9 DEF SplitsSort
  <2>2. /\ page = "topology" /\ page' = "topology" /\ loading' = loading /\ splitsReq' = splitsReq /\ firewall' = firewall
    BY <1>9 DEF SplitsSort, On
  <2> DEFINE tableSort == sortTable(splits.sort, column)
             s == SortPeersReduced(tableSort)
             newSets == TRUE
  <2>3. tableSort \in SplitsSorts
    BY <1>1 DEF sortTable, SplitsSorts, SplitsStateFits, SplitsShaped
  <2>4. SplitsShown(s, newSets)
    BY <2>1
  <2> HIDE DEF tableSort, newSets
  <2>5. /\ SplitsStateFits(s) /\ s.activePeer = splits.activePeer /\ s.detached = splits.detached
        /\ s.fetching = splits.fetching /\ s.peers = splits.peers /\ s.links = splits.links
        /\ DOMAIN s.sets = DOMAIN splits.sets /\ Len(s.sets) = Len(splits.sets)
        /\ \A i \in DOMAIN splits.sets : ToSet(s.sets[i]) = ToSet(splits.sets[i])
    BY <1>1, <2>3, PeersSorted
  <2> HIDE DEF s
  <2>6. SplitsRequestsFit(splitsReq', s) /\ FirewallFits(firewall')
    BY <1>1, <2>2, <2>5 DEF SplitsRequestsFit
  <2>7. ~s.fetching => splitsPage.fetching \/ splitsPage.peers = s.peers \/ s.peers = <<>> \/ s.links = <<>>
    BY <1>1, <2>5 DEF GraphFits
  <2>8. ASSUME s.activePeer # NoRow, ~s.detached
        PROVE  setIndex(s) \in (IF newSets /\ Len(s.sets) = 1 THEN {1} ELSE splitsPage.expandedItems)
    <3>1. setIndex(splits) \in DOMAIN splits.sets /\ splits.activePeer \in ToSet(splits.sets[setIndex(splits)])
      BY <1>1, <2>5, <2>8, ActiveIndex
    <3>2. /\ setIndex(s) \in DOMAIN s.sets
          /\ \A j \in DOMAIN s.sets : s.activePeer \in ToSet(s.sets[j]) => j = setIndex(s)
      BY <2>5, <2>8, ActiveIndex
    <3>3. setIndex(splits) = setIndex(s)
      BY <2>5, <3>1, <3>2
    <3>4. setIndex(s) \in splitsPage.expandedItems
      BY <1>1, <2>5, <2>8, <3>3 DEF ActiveFits
    <3>5. Len(s.sets) = 1 => setIndex(s) = 1
      <4>1. s.sets \in Seq(Seq(ToSet(s.peers)))
        BY <2>5 DEF SplitsStateFits, SetsFit
      <4> QED
        BY <3>2, <4>1
    <3> QED
      BY <3>4, <3>5
  <2>9. SplitsFit'
    BY <2>2, <2>4, <2>5, <2>6, <2>7, <2>8, SplitsShownFits
  <2> QED
    BY <2>2, <2>9 DEF PageMoves
<1>10. ASSUME SplitsSelectPeer PROVE Fits
  <2>1. PICK peer \in ToSet(splits.peers) :
           SplitsShown(SetActivePeerReduced(splits, IF peer = splits.activePeer /\ ~splits.detached THEN NoRow ELSE peer), FALSE)
    BY <1>10 DEF SplitsSelectPeer
  <2>2. /\ page = "topology" /\ page' = "topology" /\ loading' = loading /\ splitsReq' = splitsReq /\ firewall' = firewall
    BY <1>10 DEF SplitsSelectPeer, On
  <2> DEFINE selected == IF peer = splits.activePeer /\ ~splits.detached THEN NoRow ELSE peer
             s == SetActivePeerReduced(splits, selected)
             newSets == FALSE
  <2>3. SplitsShown(s, newSets)
    BY <2>1
  <2>4. /\ selected # NoRow => selected \in ToSet(splits.peers)
        /\ selected # NoRow => selected # splits.activePeer \/ splits.detached
    OBVIOUS
  <2> HIDE DEF selected, newSets
  <2>5. /\ SplitsStateFits(s) /\ s.activePeer = selected /\ ~s.detached /\ s.fetching = splits.fetching
        /\ s.peers = splits.peers /\ s.links = splits.links
    BY <1>1, <2>4, PeerSelected
  <2> HIDE DEF s
  <2>6. SplitsRequestsFit(splitsReq', s) /\ FirewallFits(firewall')
    BY <1>1, <2>2, <2>5 DEF SplitsRequestsFit
  <2>7. ~s.fetching => splitsPage.fetching \/ splitsPage.peers = s.peers \/ s.peers = <<>> \/ s.links = <<>>
    BY <1>1, <2>5 DEF GraphFits
  <2>8. /\ s.activePeer # NoRow /\ ~s.detached => s.activePeer # splits.activePeer \/ (splits.detached /\ ~s.detached)
        /\ ~newSets
    BY <2>4, <2>5 DEF newSets
  <2>9. SplitsFit'
    BY <2>2, <2>3, <2>5, <2>6, <2>7, <2>8, SplitsShownFits
  <2> QED
    BY <2>2, <2>9 DEF PageMoves
<1>11. ASSUME toggleExpandedItems PROVE Fits
  <2> DEFINE items(i) == toggleItem(splitsPage.expandedItems, i)
             kept(i) == splits.activePeer = NoRow \/ setIndex(splits) \in items(i)
             state(i) == IF kept(i) THEN splits ELSE SetActivePeerReduced(splits, NoRow)
  <2>1. PICK i \in DOMAIN splits.sets :
          /\ splits' = state(i)
          /\ splitsPage' = [splitsPage EXCEPT !.expandedItems = IF kept(i) THEN items(i) ELSE ActivePeerShown(items(i), state(i))]
    BY <1>11 DEF toggleExpandedItems
  <2>2. /\ page = "topology" /\ page' = "topology" /\ loading' = loading /\ splitsReq' = splitsReq /\ firewall' = firewall
    BY <1>11 DEF toggleExpandedItems, On
  <2> DEFINE shown == IF kept(i) THEN items(i) ELSE ActivePeerShown(items(i), state(i))
             e == splitsPage.expandedItems
             f == splitsPage.fetching
             p == splitsPage.peers
  <2>3. /\ SplitsPageShaped(splitsPage') /\ splitsPage'.expandedItems = shown
        /\ splitsPage'.fetching = splitsPage.fetching /\ splitsPage'.peers = splitsPage.peers
    <3>1. splitsPage' = [splitsPage EXCEPT !.expandedItems = shown]
      BY <2>1
    <3>2. splitsPage = [expandedItems |-> e, fetching |-> f, peers |-> p] /\ f \in BOOLEAN
      BY <1>1 DEF SplitsPageShaped
    <3>3. ASSUME NEW x, NEW y, NEW z, NEW w
          PROVE  [[expandedItems |-> x, fetching |-> y, peers |-> z] EXCEPT !.expandedItems = w]
                    = [expandedItems |-> w, fetching |-> y, peers |-> z]
      OBVIOUS
    <3> HIDE DEF shown, e, f, p
    <3>4. splitsPage' = [expandedItems |-> shown, fetching |-> f, peers |-> p]
      BY <3>1, <3>2, <3>3
    <3>5. splitsPage'.expandedItems = shown /\ splitsPage'.fetching = f /\ splitsPage'.peers = p
      BY <3>4
    <3>6. SplitsPageShaped(splitsPage')
      BY <3>2, <3>4, <3>5 DEF SplitsPageShaped
    <3> QED
      BY <3>5, <3>6 DEF f, p
  <2>4. CASE kept(i)
    <3>1. splits' = splits /\ splitsPage'.expandedItems = items(i)
      BY <2>1, <2>3, <2>4
    <3>2. ActiveFits(splits', splitsPage') /\ GraphFits(splits', splitsPage')
      BY <1>1, <2>3, <2>4, <3>1 DEF ActiveFits, GraphFits
    <3> QED
      BY <1>1, <2>2, <2>3, <3>1, <3>2 DEF SplitsFit, PageMoves
  <2>5. CASE ~kept(i)
    <3> DEFINE none == NoRow
               s == SetActivePeerReduced(splits, none)
    <3>1. splits' = s /\ none = NoRow
      BY <2>1, <2>5
    <3> HIDE DEF none
    <3>2. /\ SplitsStateFits(s) /\ s.activePeer = none /\ ~s.detached /\ s.fetching = splits.fetching
          /\ s.peers = splits.peers /\ s.links = splits.links
      BY <1>1, <3>1, PeerSelected
    <3> HIDE DEF s
    <3>3. ActiveFits(s, splitsPage') /\ GraphFits(s, splitsPage')
      BY <1>1, <2>3, <3>1, <3>2 DEF ActiveFits, GraphFits
    <3>4. SplitsRequestsFit(splitsReq', s) /\ FirewallFits(firewall')
      BY <1>1, <2>2, <3>2 DEF SplitsRequestsFit
    <3>5. SplitsFit'
      BY <1>1, <2>2, <2>3, <3>1, <3>2, <3>3, <3>4 DEF SplitsFit
    <3> QED
      BY <2>2, <3>5 DEF PageMoves
  <2> QED
    BY <2>4, <2>5
<1>12. ASSUME FirewallFits(firewall'), SplitsRequestsFit(splitsReq', splits), splitsReq'.get = splitsReq.get,
              page' = page, loading' = loading, splits' = splits, splitsPage' = splitsPage
       PROVE  Fits
  BY <1>1, <1>12 DEF SplitsFit, PageMoves
<1>13. ASSUME splitNodes PROVE Fits
  <2> DEFINE half(k) == filter(splits.peers, {p \in ToSet(splits.peers) : p.node # 0 /\ p.node % 2 = k})
             ips(k) == {p.address : p \in ToSet(half(k))}
             r == [todo |-> <<half(0), half(1)>>, ips |-> <<ips(0), ips(1)>>]
             split == {r}
  <2>1. /\ page' = page /\ loading' = loading /\ splits' = splits /\ splitsPage' = splitsPage /\ firewall' = firewall
        /\ splitsReq' = [splitsReq EXCEPT !.split = split]
    BY <1>13 DEF splitNodes, On, switchMap
  <2>2. splits.peers \in Seq(ToSet(splits.peers)) /\ Known(splits.peers)
    BY <1>1 DEF SplitsStateFits, Graph
  <2>3. HalfFits(half(0), ips(0)) /\ HalfFits(half(1), ips(1))
    BY <2>2, Halves
  <2> HIDE DEF half, ips
  <2>4. SplitRequestFits(r)
    BY <2>3 DEF SplitRequestFits
  <2> HIDE DEF r
  <2>5. \A q \in split : SplitRequestFits(q)
    BY <2>4
  <2> HIDE DEF split
  <2>6. SplitsRequestsFit(splitsReq', splits) /\ splitsReq'.get = splitsReq.get
    BY <1>1, <2>1, <2>5, SplitRequest
  <2> HIDE DEF Fits
  <2> QED
    BY <1>1, <1>12, <2>1, <2>6
<1>14. ASSUME SplitStep PROVE Fits
  <2>1. PICK r \in splitsReq.split, h \in 1..2 : splitPosted(r, h)
    BY <1>14 DEF SplitStep
  <2>2. page' = page /\ loading' = loading /\ splits' = splits /\ splitsPage' = splitsPage
    BY <1>14 DEF SplitStep, layoutVars
  <2>3. FirewallFits(firewall') /\ SplitsRequestsFit(splitsReq', splits) /\ splitsReq'.get = splitsReq.get
    BY <1>1, <2>1, SplitPosted
  <2> HIDE DEF Fits
  <2> QED
    BY <1>12, <2>2, <2>3
<1>15. ASSUME mergeNodes PROVE Fits
  <2>1. PICK merge : splitsReq' = [splitsReq EXCEPT !.merge = merge]
    BY <1>15 DEF mergeNodes
  <2>2. page' = page /\ loading' = loading /\ splits' = splits /\ splitsPage' = splitsPage /\ firewall' = firewall
    BY <1>15 DEF mergeNodes, On
  <2>3. SplitsRequestsFit(splitsReq', splits) /\ splitsReq'.get = splitsReq.get
    BY <1>1, <2>1, MergeRequest
  <2> HIDE DEF Fits
  <2> QED
    BY <1>1, <1>12, <2>2, <2>3
<1>16. ASSUME MergeStep PROVE Fits
  <2>1. PICK todo \in splitsReq.merge :
          /\ firewall' = [firewall EXCEPT ![Head(todo).address] = {}]
          /\ splitsReq' = [splitsReq EXCEPT !.merge = {Tail(todo)}]
    BY <1>16 DEF MergeStep
  <2>2. page' = page /\ loading' = loading /\ splits' = splits /\ splitsPage' = splitsPage
    BY <1>16 DEF MergeStep, layoutVars
  <2> DEFINE node == Head(todo).address
             merge == {Tail(todo)}
  <2>3. firewall' = [firewall EXCEPT ![node] = {}] /\ splitsReq' = [splitsReq EXCEPT !.merge = merge]
    BY <2>1
  <2> HIDE DEF node, merge
  <2>4. SplitsRequestsFit(splitsReq', splits) /\ splitsReq'.get = splitsReq.get
    BY <1>1, <2>3, MergeRequest
  <2>5. FirewallFits(firewall')
    <3>1. firewall = [a \in Addresses |-> firewall[a]]
      BY <1>1 DEF FirewallFits
    <3>2. firewall' = [a \in Addresses |-> IF a = node THEN {} ELSE firewall[a]]
      BY <2>3, <3>1
    <3>3. firewall' = [a \in Addresses |-> firewall'[a]]
      BY <3>2
    <3>4. ASSUME NEW a \in Addresses, NEW b \in firewall'[a] PROVE Halved(a, b)
      <4>1. firewall'[a] = IF a = node THEN {} ELSE firewall[a]
        BY <3>2
      <4> QED
        BY <1>1, <3>4, <4>1 DEF FirewallFits
    <3> QED
      BY <3>3, <3>4 DEF FirewallFits
  <2> HIDE DEF Fits
  <2> QED
    BY <1>12, <2>2, <2>4, <2>5
<1>17. ASSUME SplitOrMergeEnds PROVE Fits
  <2> DEFINE none == {}
  <2>1. page' = page /\ loading' = loading /\ splits' = splits /\ splitsPage' = splitsPage /\ firewall' = firewall
    BY <1>17 DEF SplitOrMergeEnds, layoutVars
  <2>2. splitsReq' = [splitsReq EXCEPT !.split = none] \/ splitsReq' = [splitsReq EXCEPT !.merge = none]
    BY <1>17 DEF SplitOrMergeEnds
  <2>3. \A r \in none : SplitRequestFits(r)
    OBVIOUS
  <2> HIDE DEF none
  <2>4. SplitsRequestsFit(splitsReq', splits) /\ splitsReq'.get = splitsReq.get
    <3>1. CASE splitsReq' = [splitsReq EXCEPT !.split = none]
      BY <1>1, <2>3, <3>1, SplitRequest
    <3>2. CASE splitsReq' = [splitsReq EXCEPT !.merge = none]
      BY <1>1, <3>2, MergeRequest
    <3> QED
      BY <2>2, <3>1, <3>2
  <2> HIDE DEF Fits
  <2> QED
    BY <1>1, <1>12, <2>1, <2>4
<1> HIDE DEF Fits
<1>18. Fits
  BY <1>3, <1>4, <1>6, <1>7, <1>8, <1>9, <1>10, <1>11, <1>13, <1>14, <1>15, <1>16, <1>17 DEF SplitsNext
<1> QED
  BY <1>18 DEF Fits
-----------------------------------------------------------------------------
(* All pages in one application.                                           *)

NetworkFit == BlocksFit /\ ConnectionsFit /\ DhtFit /\ StatsFit /\ SplitsFit

\* A page that is left alone fits as long as it is not the one that is left.
LEMMA BlocksKept ==
    ASSUME BlocksFit, UNCHANGED blocksVars, page \in {"blocks", "ended"} => page' \in {"blocks", "ended"}
    PROVE  BlocksFit'
BY DEF BlocksFit, BlocksRequestsFit, blocksVars

LEMMA ConnectionsKept ==
    ASSUME ConnectionsFit, UNCHANGED connectionsVars
    PROVE  ConnectionsFit'
BY DEF ConnectionsFit, connectionsVars

LEMMA DhtKept ==
    ASSUME DhtFit, UNCHANGED dhtVars, page = "node-dht" => page' = "node-dht",
           "NETWORK_NODE_DHT_INIT" \in loading' => "NETWORK_NODE_DHT_INIT" \in loading
    PROVE  DhtFit'
BY DEF DhtFit, DhtRequestsFit, dhtVars

LEMMA StatsKept ==
    ASSUME StatsFit, UNCHANGED statsVars, page = "bootstrap-stats" => page' = "bootstrap-stats",
           "NETWORK_BOOTSTRAP_STATS_INIT" \in loading' => "NETWORK_BOOTSTRAP_STATS_INIT" \in loading
    PROVE  StatsFit'
BY DEF StatsFit, StatsRequestsFit, statsVars

LEMMA SplitsKept ==
    ASSUME SplitsFit, UNCHANGED splitsVars, page = "topology" <=> page' = "topology"
    PROVE  SplitsFit'
BY DEF SplitsFit, splitsVars

LEMMA NetworkFitReload == ASSUME NetworkFit, Reload PROVE NetworkFit'
<1>1. page' = "none" /\ loading' = {} /\ LayoutInit' /\ BlocksInit' /\ ConnectionsInit' /\ DhtInit' /\ StatsInit'
  BY DEF Reload, LayoutInit, BlocksInit, ConnectionsInit, DhtInit, StatsInit
<1>2. BlocksFit' /\ ConnectionsFit' /\ DhtFit' /\ StatsFit'
  <2>1. /\ (LayoutInit /\ BlocksInit => BlocksFit)' /\ (ConnectionsInit => ConnectionsFit)'
        /\ (LayoutInit /\ DhtInit => DhtFit)' /\ (LayoutInit /\ StatsInit => StatsFit)'
    BY BlocksFitInit, ConnectionsFitInit, DhtFitInit, StatsFitInit, PTL
  <2> QED
    BY <1>1, <2>1
<1>3. SplitsFit'
  <2>1. /\ splits' = initialSplits /\ splitsPage' = NoSplitsPage /\ firewall' = firewall
        /\ splitsReq' = [get |-> {}, split |-> {}, merge |-> {}]
    BY DEF Reload
  <2>2. SplitsStateFits(splits')
    BY <2>1, InitialSplits
  <2>3. splits'.fetching = TRUE /\ splits'.activePeer = NoRow
    BY <2>1 DEF initialSplits
  <2>4. SplitsPageShaped(splitsPage')
    BY <2>1 DEF NoSplitsPage, SplitsPageShaped
  <2>5. SplitsRequestsFit(splitsReq', splits') /\ splitsReq'.get = {}
    BY <2>1 DEF SplitsRequestsFit
  <2>6. FirewallFits(firewall') /\ GraphFits(splits', splitsPage') /\ ActiveFits(splits', splitsPage')
    BY <2>1, <2>3 DEF NetworkFit, SplitsFit, GraphFits, ActiveFits
  <2> QED
    BY <1>1, <2>1, <2>2, <2>4, <2>5, <2>6 DEF SplitsFit
<1> QED
  BY <1>2, <1>3 DEF NetworkFit

LEMMA NetworkFitStep == NetworkFit /\ [NetworkNext]_<<layoutVars, networkVars, session>> => NetworkFit'
<1> SUFFICES ASSUME NetworkFit, [NetworkNext]_<<layoutVars, networkVars, session>> PROVE NetworkFit'
  OBVIOUS
<1> DEFINE dhtType == "NETWORK_NODE_DHT_INIT"
           statsType == "NETWORK_BOOTSTRAP_STATS_INIT"
<1>1. BlocksFit /\ ConnectionsFit /\ DhtFit /\ StatsFit /\ SplitsFit
  BY DEF NetworkFit
<1>2. CASE UNCHANGED <<layoutVars, networkVars, session>>
  <2>1. page' = page /\ loading' = loading
    BY <1>2 DEF layoutVars
  <2>2. UNCHANGED blocksVars /\ UNCHANGED connectionsVars /\ UNCHANGED dhtVars /\ UNCHANGED statsVars /\ UNCHANGED splitsVars
    BY <1>2 DEF networkVars
  <2> QED
    BY <1>1, <2>1, <2>2, BlocksKept, ConnectionsKept, DhtKept, StatsKept, SplitsKept DEF NetworkFit
<1>3. CASE Reload
  BY <1>3, NetworkFitReload
<1>4. CASE /\ page # "ended" /\ BlocksNext
           /\ UNCHANGED connectionsVars /\ UNCHANGED dhtVars /\ UNCHANGED statsVars /\ UNCHANGED splitsVars
  <2>1. BlocksFit' /\ loading' = loading /\ (PageMoves("blocks") \/ (page = "blocks" /\ page' = "ended"))
    BY <1>1, <1>4, BlocksFitStep
  <2>2. /\ (page = "node-dht" => page' = "node-dht") /\ (page = "bootstrap-stats" => page' = "bootstrap-stats")
        /\ (page = "topology" <=> page' = "topology")
    BY <2>1 DEF PageMoves
  <2> QED
    BY <1>1, <1>4, <2>1, <2>2, ConnectionsKept, DhtKept, StatsKept, SplitsKept DEF NetworkFit
<1>5. CASE /\ page # "ended" /\ ConnectionsNext
           /\ UNCHANGED blocksVars /\ UNCHANGED dhtVars /\ UNCHANGED statsVars /\ UNCHANGED splitsVars
  <2>1. ConnectionsFit' /\ loading' = loading /\ PageMoves("connections")
    BY <1>1, <1>5, ConnectionsFitStep
  <2>2. /\ (page \in {"blocks", "ended"} => page' \in {"blocks", "ended"})
        /\ (page = "node-dht" => page' = "node-dht") /\ (page = "bootstrap-stats" => page' = "bootstrap-stats")
        /\ (page = "topology" <=> page' = "topology")
    BY <2>1 DEF PageMoves
  <2> QED
    BY <1>1, <1>5, <2>1, <2>2, BlocksKept, DhtKept, StatsKept, SplitsKept DEF NetworkFit
<1>6. CASE /\ page # "ended" /\ DhtNext
           /\ UNCHANGED blocksVars /\ UNCHANGED connectionsVars /\ UNCHANGED statsVars /\ UNCHANGED splitsVars
  <2>1. DhtFit' /\ PageMoves("node-dht") /\ loading' \ {dhtType} \subseteq loading
    BY <1>1, <1>6, DhtFitStep
  <2>2. /\ (page \in {"blocks", "ended"} => page' \in {"blocks", "ended"})
        /\ (page = "bootstrap-stats" => page' = "bootstrap-stats") /\ (page = "topology" <=> page' = "topology")
        /\ statsType \in loading' => statsType \in loading
    BY <2>1 DEF PageMoves
  <2> QED
    BY <1>1, <1>6, <2>1, <2>2, BlocksKept, ConnectionsKept, StatsKept, SplitsKept DEF NetworkFit
<1>7. CASE /\ page # "ended" /\ StatsNext
           /\ UNCHANGED blocksVars /\ UNCHANGED connectionsVars /\ UNCHANGED dhtVars /\ UNCHANGED splitsVars
  <2>1. StatsFit' /\ PageMoves("bootstrap-stats") /\ loading' \ {statsType} \subseteq loading
    BY <1>1, <1>7, StatsFitStep
  <2>2. /\ (page \in {"blocks", "ended"} => page' \in {"blocks", "ended"})
        /\ (page = "node-dht" => page' = "node-dht") /\ (page = "topology" <=> page' = "topology")
        /\ dhtType \in loading' => dhtType \in loading
    BY <2>1 DEF PageMoves
  <2> QED
    BY <1>1, <1>7, <2>1, <2>2, BlocksKept, ConnectionsKept, DhtKept, SplitsKept DEF NetworkFit
<1>8. CASE /\ page # "ended" /\ SplitsNext
           /\ UNCHANGED blocksVars /\ UNCHANGED connectionsVars /\ UNCHANGED dhtVars /\ UNCHANGED statsVars
  <2>1. SplitsFit' /\ loading' = loading /\ PageMoves("topology")
    BY <1>1, <1>8, SplitsFitStep
  <2>2. /\ (page \in {"blocks", "ended"} => page' \in {"blocks", "ended"})
        /\ (page = "node-dht" => page' = "node-dht") /\ (page = "bootstrap-stats" => page' = "bootstrap-stats")
    BY <2>1 DEF PageMoves
  <2> QED
    BY <1>1, <1>8, <2>1, <2>2, BlocksKept, ConnectionsKept, DhtKept, StatsKept DEF NetworkFit
<1> QED
  BY <1>2, <1>3, <1>4, <1>5, <1>6, <1>7, <1>8 DEF NetworkNext

LEMMA NetworkFitInit == NetworkInit => NetworkFit
BY BlocksFitInit, ConnectionsFitInit, DhtFitInit, StatsFitInit, SplitsFitInit DEF NetworkInit, NetworkFit

\* The requests of the network section, for all answers and any order of timers,
\* answers, failures, clicks, navigations and reloads: a poller is patient while its
\* request is in flight, the loading bar stands for a request that is awaited, and no
\* late answer fills the slice of a page that was left.
THEOREM RequestsTheorem == NetworkSpec => []RequestsSound
<1>1. NetworkFit => RequestsSound
  <2> SUFFICES ASSUME NetworkFit PROVE RequestsSound
    OBVIOUS
  <2>1. PollersPatient
    BY DEF NetworkFit, BlocksFit, BlocksRequestsFit, ConnectionsFit, DhtFit, DhtRequestsFit, StatsFit, StatsRequestsFit,
           PollersPatient
  <2>2. LoadingHasRequest
    BY DEF NetworkFit, DhtFit, DhtRequestsFit, StatsFit, StatsRequestsFit, LoadingHasRequest
  <2>3. ClosedPagesForget
    BY DEF NetworkFit, DhtFit, StatsFit, SplitsFit, ClosedPagesForget
  <2> QED
    BY <2>1, <2>2, <2>3 DEF RequestsSound
<1> QED
  BY <1>1, NetworkFitInit, NetworkFitStep, PTL DEF NetworkSpec

\* The lists of the network section: the slices keep their shapes, the blocks are
\* sorted and their latencies relative to the first one shown, the answer that is
\* waited for is about the active block, the points of the line stand at the
\* distances of the peers, and the bootstrap requests are sorted as the head says.
THEOREM ListsTheorem == NetworkSpec => []ListsSound
<1>1. NetworkFit => ListsSound
  <2> SUFFICES ASSUME NetworkFit PROVE ListsSound
    OBVIOUS
  <2>1. NetworkTypeOK
    BY DEF NetworkFit, BlocksFit, BlocksStateFits, ConnectionsFit, NetworkTypeOK
  <2>2. BlocksTableSound
    BY TableSoundness DEF NetworkFit, BlocksFit, BlocksStateFits
  <2>3. BlocksAnswersFit
    BY DEF NetworkFit, BlocksFit, BlocksRequestsFit, BlocksAnswersFit
  <2>4. DhtLineSound
    BY DEF NetworkFit, DhtFit, LineFits, DhtLineSound
  <2>5. StatsSorted
    BY DEF NetworkFit, StatsFit, StatsShaped, StatsSorted
  <2> QED
    BY <2>1, <2>2, <2>3, <2>4, <2>5 DEF ListsSound
<1> QED
  BY <1>1, NetworkFitInit, NetworkFitStep, PTL DEF NetworkSpec

\* The page "Topology", for every network: splitThePeers and its search end with the
\* connected components of the graph, the graph shows the peers that were answered
\* last, a selected peer is visible in the panel, and no firewall lets a node of the
\* other half through, however splits, merges and refreshes interleave.
THEOREM SplitsTheorem == NetworkSpec => []SplitsSound
<1>1. NetworkFit => SplitsSound
  <2> SUFFICES ASSUME NetworkFit PROVE SplitsSound
    OBVIOUS
  <2>1. SplitsSetsConnected
    BY SetsConnected DEF NetworkFit, SplitsFit, SplitsStateFits
  <2>2. SplitsGraphFresh /\ SplitsActiveVisible
    BY DEF NetworkFit, SplitsFit, GraphFits, ActiveFits, SplitsGraphFresh, SplitsActiveVisible
  <2>3. FirewallsSeparate
    BY DEF NetworkFit, SplitsFit, FirewallFits, Halved, FirewallsSeparate
  <2> QED
    BY <2>1, <2>2, <2>3 DEF SplitsSound
<1> QED
  BY <1>1, NetworkFitInit, NetworkFitStep, PTL DEF NetworkSpec
=============================================================================
