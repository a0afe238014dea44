--------------------------- MODULE MCAppController ---------------------------
(* Small instances of AppController. *)
EXTENDS AppController, TLC

CONSTANTS a1, a2,        \* Apps
          n1, n2, n3,    \* names
          w1, w2         \* workers

\* The order of syncHandler, and the same without the Ingress, which is treated
\* as the Service is.
ThreeKinds == <<"Deployment", "Service", "Ingress">>
TwoKinds == <<"Deployment", "Service">>

OneApp == {a1}
TwoApps == {a1, a2}
OneName == {n1}
TwoNames == {n1, n2}
ThreeNames == {n1, n2, n3}
OneWorker == {w1}
TwoWorkers == {w1, w2}

SpecOf(dn, sn, gn, r) ==
    [names |-> [k \in Kinds |-> CASE k = "Deployment" -> dn
                                  [] k = "Service" -> sn
                                  [] k = "Ingress" -> gn],
     replicas |-> r]

\* Every dependent carries the same name.
OneNameSpecs == {SpecOf(n1, n1, n1, 1)}
SameNameSpecs == {SpecOf(n1, n1, n1, 1), SpecOf(n2, n2, n2, 1)}
\* Three names, as in artifacts/crd/example.app.yaml.
SampleSpecs == {SpecOf(n1, n2, n3, 2)}

Times(user, delete, fault, relist, crash) ==
    [user |-> user, delete |-> delete, fault |-> fault, relist |-> relist,
     crash |-> crash]

SafetyBounds ==
    {Times(2, 0, 1, 0, 0), Times(2, 0, 0, 0, 1), Times(2, 0, 0, 1, 0)}
LiveBounds ==
    {Times(1, 1, 0, 1, 0), Times(2, 0, 0, 1, 0), Times(2, 0, 1, 0, 0),
     Times(2, 0, 0, 0, 1)}
SampleBounds == {Times(1, 0, 0, 0, 0)}

Symmetry == Permutations(TwoApps) \cup Permutations(TwoWorkers)
=============================================================================
