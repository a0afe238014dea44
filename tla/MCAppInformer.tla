---------------------------- MODULE MCAppInformer ----------------------------
(* A small instance of AppInformer. *)
EXTENDS AppInformer

CONSTANTS k1, k2

OneKey == {k1}
TwoKeys == {k1, k2}

Times(write, stale, lost, crash) ==
    [write |-> write, stale |-> stale, lost |-> lost, crash |-> crash]

\* Every disturbance once, two lost watches, or more writes.
MixedBounds == {Times(3, 1, 1, 1), Times(3, 0, 2, 0), Times(4, 0, 0, 0)}
\* An App created, a watch lost, the App deleted.
GhostBounds == {Times(2, 0, 1, 0)}
=============================================================================
