--------------------------- MODULE MCAppReconciler ---------------------------
(* Small instances of AppReconciler. *)
EXTENDS AppReconciler

CONSTANT a1

OneApp == {a1}

Times(user, others, fault, relist, crash) ==
    [user |-> user, others |-> others, fault |-> fault, relist |-> relist,
     crash |-> crash]

\* An App, what others do or a failure, and a lost watch; the same and a crash;
\* or two changes of the App and a failure.
MixedBounds ==
    {Times(1, 1, 0, 1, 0), Times(1, 0, 1, 1, 0), Times(1, 1, 1, 0, 1),
     Times(2, 0, 1, 0, 0)}
=============================================================================
