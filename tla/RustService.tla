----------------------------- MODULE RustService -----------------------------
(***************************************************************************)
(* The node the front end is talking to.  Requests go to the URL that is   *)
(* set when they are sent, whichever node is active when they answer.      *)
(***************************************************************************)
EXTENDS Layout

CONSTANTS RustNodes,   \* the nodes of the node picker
          isDesktop    \* whether the window is wide: side panels are open at first

ASSUME RustServiceAssumption == RustNodes # {} /\ isDesktop \in BOOLEAN

VARIABLE rust        \* RustService.node

RustInit == rust \in RustNodes

\* The node picker offers the nodes that are not active.
changeRustNode == \E n \in RustNodes \ {rust} : rust' = n
=============================================================================
