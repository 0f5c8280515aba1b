-------------------------------- MODULE Rxjs --------------------------------
(***************************************************************************)
(* What the front end's NgRx effects rely on in RxJS.  An effect is        *)
(* described by the set of the inner observables (HTTP requests) it is     *)
(* subscribed to; an answer is delivered only while its request is in that *)
(* set.                                                                    *)
(***************************************************************************)

\* switchMap: a new inner observable unsubscribes from the previous one.
switchMap(requests, request) == {request}

\* mergeMap: inner observables run side by side and answer in any order.
mergeMap(requests, request) == requests \cup {request}

\* An HTTP observable emits once and completes.
Completed(requests, request) == requests \ {request}

\* catchError(...), repeat(): an error of one inner observable ends the whole
\* source, and with it all its siblings; repeat() subscribes anew.
catchErrorAndRepeat(requests) == {}
=============================================================================
