------------------------- MODULE MCServiceController -------------------------
(* Small instances of ServiceController.  Services do not meet: each has a  *)
(* key, an Ingress and a failure count of its own, and only one worker at a *)
(* time has its key, so that one Service and one worker are enough.         *)
EXTENDS ServiceController

CONSTANTS s1,  \* a Service
          w1   \* a worker

OneService == {s1}
OneWorker == {w1}

Times(user, ingress, fault, relist, crash) ==
    [user |-> user, ingress |-> ingress, fault |-> fault, relist |-> relist,
     crash |-> crash]

\* Changes of the Service and of its Ingress with a lost watch and a failing
\* call, with failures up to giving up, with every disturbance, or with two lost
\* watches.
MixedBounds ==
    {Times(3, 1, 1, 1, 0), Times(2, 1, 3, 0, 0), Times(2, 1, 1, 1, 1),
     Times(3, 0, 0, 2, 0)}
QuietBounds == {Times(3, 0, 0, 0, 0)}
TombstoneBounds == {Times(2, 1, 0, 1, 0)}
=============================================================================
