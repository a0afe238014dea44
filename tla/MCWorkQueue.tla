----------------------------- MODULE MCWorkQueue -----------------------------
(* Model values and symmetry for the runs of WorkQueue. *)
EXTENDS WorkQueue, TLC

CONSTANTS a, b, c,       \* items
          w1, w2, w3,    \* workers
          s1, d1         \* a caller of ShutDown and one of ShutDownWithDrain

ThreeItems == {a, b, c}
ThreeWorkers == {w1, w2, w3}
OneStopper == {s1}
OneDrainer == {d1}
=============================================================================
