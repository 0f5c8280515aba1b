--------------------------- MODULE PendingRequests ---------------------------
(***************************************************************************)
(* The table of pending requests of core/src/requests: a slab of requests  *)
(* addressed by a locator (the slab index), each tagged with the value of  *)
(* a wrapping counter.  A RequestId is the pair of both, and a look-up     *)
(* checks both, so that the id of a removed request does not name the one  *)
(* that reuses its slot.                                                   *)
(*                                                                         *)
(* A table is a value [list, free, counter]: list[l] is <<>> or <<entry>>, *)
(* free the slab's chain of vacated slots, the one vacated last first.     *)
(***************************************************************************)
EXTENDS Naturals, Sequences

CONSTANT CounterSize   \* the counter wraps around at 2^64 in the code

RequestId(locator, counter) == [locator |-> locator, counter |-> counter]

NewRequests == [list |-> <<>>, free |-> <<>>, counter |-> 0]

(* Slab::vacant_key: the slot that the next insertion takes. *)
vacant_key(t) == IF t.free = <<>> THEN Len(t.list) + 1 ELSE Head(t.free)

contains(t, id) ==
    /\ id.locator \in DOMAIN t.list
    /\ t.list[id.locator] # <<>>
    /\ t.list[id.locator][1].counter = id.counter

get(t, id) == t.list[id.locator][1].request

next_req_id(t) == RequestId(vacant_key(t), (t.counter + 1) % CounterSize)

add(t, request) ==
    LET id    == next_req_id(t)
        entry == <<[counter |-> id.counter, request |-> request]>>
    IN  [list    |-> IF t.free = <<>> THEN Append(t.list, entry)
                     ELSE [t.list EXCEPT ![id.locator] = entry],
         free    |-> IF t.free = <<>> THEN <<>> ELSE Tail(t.free),
         counter |-> id.counter]

(* An assignment through get_mut. *)
set(t, id, request) ==
    IF contains(t, id) THEN [t EXCEPT !.list[id.locator][1].request = request] ELSE t

remove_KeepsSlot(t, id) ==
    IF contains(t, id) THEN [t EXCEPT !.free = <<id.locator>> \o @] ELSE t

remove(t, id) ==
    IF contains(t, id)
    THEN [t EXCEPT !.list[id.locator] = <<>>, !.free = <<id.locator>> \o @]
    ELSE t

(* iter *)
ids(t) == {RequestId(l, t.list[l][1].counter) : l \in {k \in DOMAIN t.list : t.list[k] # <<>>}}
=============================================================================
