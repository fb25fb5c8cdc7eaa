---------------------------- MODULE AtLeastOnce -----------------------------
(***************************************************************************)
(* What a sender may expect of a queue with a poison queue beside it: a    *)
(* message that was sent goes away only after it has been processed to the *)
(* end at least once, or a copy of it parked.  It may be processed again,  *)
(* even when it is gone, and it may be both processed and parked.          *)
(***************************************************************************)

CONSTANT Messages

VARIABLES life,        \* life[m]: "unsent", "pending" or "gone"
          processed,   \* processed[m]: some processing of m has succeeded
          parked       \* parked[m]: the poison queue holds a copy of m

vars == <<life, processed, parked>>

Init == /\ life = [m \in Messages |-> "unsent"]
        /\ processed = [m \in Messages |-> FALSE]
        /\ parked = [m \in Messages |-> FALSE]

Send(m) == /\ life[m] = "unsent"
           /\ life' = [life EXCEPT ![m] = "pending"]
           /\ UNCHANGED <<processed, parked>>

Process(m) == /\ life[m] # "unsent"
              /\ processed' = [processed EXCEPT ![m] = TRUE]
              /\ UNCHANGED <<life, parked>>

Park(m) == /\ life[m] # "unsent"
           /\ parked' = [parked EXCEPT ![m] = TRUE]
           /\ UNCHANGED <<life, processed>>

Remove(m) == /\ life[m] = "pending"
             /\ processed[m] \/ parked[m]
             /\ life' = [life EXCEPT ![m] = "gone"]
             /\ UNCHANGED <<processed, parked>>

Next == \E m \in Messages : Send(m) \/ Process(m) \/ Park(m) \/ Remove(m)

Spec == Init /\ [][Next]_vars

\* A message that was sent does not stay for ever.
EventuallyGone == \A m \in Messages : life[m] = "pending" ~> life[m] = "gone"
=============================================================================
