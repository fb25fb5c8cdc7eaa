--------------------------- MODULE ExclusiveLease ---------------------------
(***************************************************************************)
(* What may be expected of the leases of one blob: each is granted at most *)
(* once, held by the manager it was granted to and by no other, and never  *)
(* held again when it was given up or lost; and while all goes in time,    *)
(* none is granted before the one before it is in nobody's hands any more. *)
(***************************************************************************)

CONSTANTS Managers, Leases, NoLease

VARIABLES used,     \* the leases that have been granted
          granted,  \* granted[m]: the lease on its way to m, or NoLease
          holds     \* holds[m]: the lease m says to have, or NoLease

vars == <<used, granted, holds>>

Init == /\ used = {}
        /\ granted = [m \in Managers |-> NoLease]
        /\ holds = [m \in Managers |-> NoLease]

\* The answer may be lost on its way.
Grant(m, i) == /\ i \notin used
               /\ used' = used \cup {i}
               /\ granted' \in {granted, [granted EXCEPT ![m] = i]}
               /\ UNCHANGED holds

Hold(m) == /\ granted[m] # NoLease /\ holds[m] = NoLease
           /\ holds' = [holds EXCEPT ![m] = granted[m]]
           /\ granted' = [granted EXCEPT ![m] = NoLease]
           /\ UNCHANGED used

\* What m holds is given up or lost, and what was on its way comes to nothing.
End(m) == /\ granted' \in {granted, [granted EXCEPT ![m] = NoLease]}
          /\ holds' \in {holds, [holds EXCEPT ![m] = NoLease]}
          /\ UNCHANGED used

Next == \E m \in Managers : (\E i \in Leases : Grant(m, i)) \/ Hold(m) \/ End(m)

InNobodysHands == \A m \in Managers : granted[m] = NoLease /\ holds[m] = NoLease

InTurn == used' # used => InNobodysHands

Spec == Init /\ [][Next /\ InTurn]_vars
=============================================================================
