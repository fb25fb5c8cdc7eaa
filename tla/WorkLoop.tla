------------------------------ MODULE WorkLoop ------------------------------
(***************************************************************************)
(* What the template method of PollingTask promises to the worker written  *)
(* on top of it: a loop polls, takes a batch, runs every item through      *)
(* Execute and then Completed, at most once each, and neither polls again  *)
(* nor stops by itself while an item of the batch is in hand.              *)
(* PollingTask and QueueWorker are both shown to implement this module.    *)
(***************************************************************************)

CONSTANTS Items,
          MayCrash   \* whether the process may die under the loop

VARIABLES phase,   \* where the loop is
          item     \* item[i]: how far item i of the present batch has come

vars == <<phase, item>>

Batch(S) == [i \in Items |-> IF i \in S THEN "waiting" ELSE "absent"]
NoItems  == Batch({})

\* Into Execute, out of it, through Completed; both may throw.
ItemSteps == {<<"waiting", "executing">>, <<"executing", "executed">>,
              <<"executed", "done">>, <<"executing", "threw">>, <<"executed", "threw">>}

Init == phase = "idle" /\ item = NoItems

Poll == phase = "idle" /\ phase' = "polling" /\ UNCHANGED item

\* The poll finds nothing, or fails in a way the loop survives.
FindNothing == phase = "polling" /\ phase' = "idle" /\ UNCHANGED item

Take == /\ phase = "polling" /\ phase' = "working"
        /\ \E S \in SUBSET Items : S # {} /\ item' = Batch(S)

Work(i) == /\ phase = "working" /\ UNCHANGED phase
           /\ \E step \in ItemSteps :
                item[i] = step[1] /\ item' = [item EXCEPT ![i] = step[2]]

\* The batch ends when no item is in hand; an item is left unstarted only
\* when another one has thrown.
EndBatch == /\ phase = "working" /\ phase' = "idle"
            /\ \A i \in Items : item[i] \notin {"executing", "executed"}
            /\ \A i \in Items : item[i] = "waiting" => \E j \in Items : item[j] = "threw"
            /\ item' = NoItems

\* The loop ends by itself, between batches.
Stop == phase \in {"idle", "polling"} /\ phase' = "stopped" /\ UNCHANGED item

\* The process that runs it dies, anywhere.
Crash == MayCrash /\ phase # "stopped" /\ phase' = "stopped" /\ item' = NoItems

\* Where the process may die, another may take its place.
Restart == MayCrash /\ phase = "stopped" /\ phase' = "idle" /\ UNCHANGED item

Next == \/ Poll \/ FindNothing \/ Take \/ EndBatch \/ Stop \/ Crash \/ Restart
        \/ \E i \in Items : Work(i)

Spec == Init /\ [][Next]_vars
=============================================================================
