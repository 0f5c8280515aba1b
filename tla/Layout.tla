------------------------------- MODULE Layout -------------------------------
(***************************************************************************)
(* The frame the pages of the front end live in: the router outlet, which  *)
(* shows one page at a time, and the loading bar of the toolbar; and the   *)
(* table component the pages share: the rows it was last given, how it is  *)
(* sorted, and the row a link names.                                       *)
(***************************************************************************)
EXTENDS Integers, Sequences, FiniteSets, SequencesExt, Rxjs

VARIABLES page,     \* the page in the router outlet, "none", or "ended"
          loading   \* the types in the list "loading" of the store

layoutVars == <<page, loading>>

LayoutInit == page = "none" /\ loading = {}

\* The router creates a component in the empty outlet and destroys it before
\* it creates the next.
Enter(p) == page = "none" /\ page' = p
Leave(p) == page = p /\ page' = "none"
On(p) == page = p /\ UNCHANGED page

\* A reducer that throws ends the subscription of the store: no action is
\* reduced and no effect runs any more until the user reloads the application.
Throws == page' = "ended"

\* loadingReducer.  Only whether the list is empty is shown, and "remove" drops
\* all occurrences of a type, so the list is modelled by its set.
add(type) == loading' = loading \cup {type}
remove(types) == loading' = loading \ types

\* History: a request in flight when its page is left or the node is changed
\* is marked, its answer then is one nobody is waiting for.
Stale(requests) == {[r EXCEPT !.stale = TRUE] : r \in requests}
-----------------------------------------------------------------------------
NoRow == [none |-> TRUE]
NoId == "none"

\* Array.prototype.filter, by the set of the rows that pass.
filter(rows, passing) ==
    LET passed[i \in 0..Len(rows)] ==
            IF i = 0 THEN <<>>
            ELSE IF rows[i] \in passing THEN Append(passed[i - 1], rows[i]) ELSE passed[i - 1]
    IN  passed[Len(rows)]

\* sort of @openmina/shared, which is stable: row i comes after the rows that are
\* before it by their values, and after earlier ones with the same value.  Values
\* are numbers here; the code compares the columns it is told to as strings.
Precedes(a, b, tableSort) ==
    IF tableSort.sortDirection = "ascending" THEN a[tableSort.sortBy] < b[tableSort.sortBy]
                                             ELSE a[tableSort.sortBy] > b[tableSort.sortBy]

placeOf(i, rows, tableSort) ==
    1 + Cardinality({j \in DOMAIN rows : \/ Precedes(rows[j], rows[i], tableSort)
                                         \/ j < i /\ ~Precedes(rows[i], rows[j], tableSort)})

sort(rows, tableSort) ==
    [k \in DOMAIN rows |-> rows[CHOOSE i \in DOMAIN rows : placeOf(i, rows, tableSort) = k]]

\* sortTable: a click on the current column turns the direction around, a click
\* on another keeps it.
sortTable(currentSort, sortBy) ==
    [sortBy |-> sortBy,
     sortDirection |-> IF sortBy # currentSort.sortBy THEN currentSort.sortDirection
                       ELSE IF currentSort.sortDirection = "ascending" THEN "descending"
                                                                       ELSE "ascending"]

SortedBy(rows, tableSort) ==
    \A i, j \in DOMAIN rows : i < j =>
        IF tableSort.sortDirection = "ascending"
        THEN rows[i][tableSort.sortBy] <= rows[j][tableSort.sortBy]
        ELSE rows[i][tableSort.sortBy] >= rows[j][tableSort.sortBy]

\* Most tables ignore an empty list and keep the rows they show.
rowsShown(old, new) == IF new = <<>> THEN old ELSE new

\* rows.find(row => row[key] === id), undefined without one.
find(rows, key, id) ==
    LET found == {i \in DOMAIN rows : rows[i][key] = id}
    IN  IF found = {} THEN NoRow ELSE rows[CHOOSE i \in found : \A j \in found : i <= j]

\* A click on a row changes the selection only when it is another row.
Clickable(rows, key, active) ==
    {row \in ToSet(rows) : active = NoRow \/ active[key] # row[key]}
=============================================================================
