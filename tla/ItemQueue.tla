------------------------------ MODULE ItemQueue ------------------------------
(***************************************************************************)
(* What a controller may rely on when it uses a client-go work queue: the  *)
(* promise, without the slice, the condition variable and the shutdown     *)
(* protocol that implement it (those are in WorkQueue, which refines this  *)
(* module).                                                                *)
(*                                                                         *)
(* An item is marked dirty by Add however often it is added; a worker      *)
(* takes a dirty item that no worker holds, which clears the mark, and     *)
(* holds the item until Done.  An Add while the item is held therefore     *)
(* survives the Done and leads to another round.                           *)
(***************************************************************************)
CONSTANTS Items,    \* the keys put on the queue
          Workers,  \* the goroutines that call Get
          NoItem    \* what a worker holds between Done and Get

VARIABLES dirty,        \* items that need (another round of) processing
          holding,      \* holding[w]: the item Get returned to w, until Done
          shuttingDown  \* TRUE once ShutDown was called

itemVars == <<dirty, holding, shuttingDown>>

\* The items some worker is processing.
Held == {holding[w] : w \in Workers} \ {NoItem}

ItemInit ==
    /\ dirty = {}
    /\ holding = [w \in Workers |-> NoItem]
    /\ shuttingDown = FALSE

\* A queue that is shutting down ignores Add, which is then a stuttering step.
Add(i) ==
    /\ ~shuttingDown
    /\ dirty' = dirty \cup {i}
    /\ UNCHANGED <<holding, shuttingDown>>

Take(w, i) ==
    /\ holding[w] = NoItem
    /\ i \in dirty \ Held
    /\ dirty' = dirty \ {i}
    /\ holding' = [holding EXCEPT ![w] = i]
    /\ UNCHANGED shuttingDown

Done(w) ==
    /\ holding[w] # NoItem
    /\ holding' = [holding EXCEPT ![w] = NoItem]
    /\ UNCHANGED <<dirty, shuttingDown>>

ShutDown ==
    /\ shuttingDown' = TRUE
    /\ UNCHANGED <<dirty, holding>>

ItemNext ==
    \/ \E i \in Items : Add(i)
    \/ \E w \in Workers, i \in Items : Take(w, i)
    \/ \E w \in Workers : Done(w)
    \/ ShutDown

ItemSafety == ItemInit /\ [][ItemNext]_itemVars

\* Provided the workers finish what they take, no item starves: an item that
\* is again and again free to be taken is again and again taken.
ItemFairness ==
    \A i \in Items : SF_itemVars(\E w \in Workers : Take(w, i))

ItemSpec == ItemSafety /\ ItemFairness
=============================================================================
