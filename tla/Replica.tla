------------------------------- MODULE Replica -------------------------------
(***************************************************************************)
(* What an informer's cache promises: each key shows what was stored at    *)
(* some moment of the past, and the moments go forward.  Keys are not in   *)
(* step with one another, and the end of the process forgets everything.   *)
(***************************************************************************)
EXTENDS Naturals, Sequences

CONSTANTS Keys, None

VARIABLES log,    \* what was written: a sequence of [key, obj]
          copy,   \* the copy of each key
          moment  \* how much of the log the copy of each key takes into account

\* The last write to k among the first p.
LastWrite(k, p) ==
    {i \in 1 .. p : /\ log[i].key = k
                    /\ \A j \in i + 1 .. p : log[j].key # k}

\* What is stored under k after the first p writes.
StoredAt(k, p) ==
    IF LastWrite(k, p) = {} THEN None
    ELSE log[CHOOSE i \in LastWrite(k, p) : TRUE].obj

ReplicaInit ==
    /\ log = <<>>
    /\ copy = [k \in Keys |-> None]
    /\ moment = [k \in Keys |-> 0]

\* A copy moves to a later moment, or is looked at again.
Advance(k) ==
    /\ UNCHANGED log
    /\ \E p \in moment[k] .. Len(log) :
         /\ moment' = [moment EXCEPT ![k] = p]
         /\ copy' = [copy EXCEPT ![k] = StoredAt(k, p)]

\* All copies move at once, as a list moves them.
AdvanceAll ==
    /\ UNCHANGED log
    /\ \E p \in [Keys -> 0 .. Len(log)] :
         /\ \A k \in Keys : moment[k] <= p[k]
         /\ moment' = p
         /\ copy' = [k \in Keys |-> StoredAt(k, p[k])]

Extend ==
    /\ Len(log') > Len(log)
    /\ SubSeq(log', 1, Len(log)) = log
    /\ UNCHANGED <<copy, moment>>

Forget ==
    /\ copy' = [k \in Keys |-> None]
    /\ moment' = [k \in Keys |-> 0]
    /\ UNCHANGED log

ReplicaNext == Extend \/ Forget \/ AdvanceAll \/ \E k \in Keys : Advance(k)

ReplicaSpec == ReplicaInit /\ [][ReplicaNext]_<<log, copy, moment>>
=============================================================================
