--------------------------- MODULE PartitionedLog ---------------------------
(***************************************************************************)
(* What each thread that executes a TableStorageWriter promises:           *)
(* operations are known by the order they were submitted in, and within a  *)
(* partition this thread writes them in that order, a batch at a time.     *)
(* Operations may be left out, and the last batch of a partition may be    *)
(* written again.                                                          *)
(***************************************************************************)
EXTENDS Integers, Sequences, FiniteSets

CONSTANTS Partitions, BatchLimit

VARIABLES
  submitted,  \* submitted[n]: the partition of the n-th operation
  written     \* the batches in the order the table took them, sets of numbers

vars == <<submitted, written>>

Init == submitted = <<>> /\ written = <<>>

Submit == /\ \E p \in Partitions : submitted' = Append(submitted, p)
          /\ UNCHANGED written

InPartition(p) == {n \in DOMAIN submitted : submitted[n] = p}

\* The batches written to partition p, by their place in the log.
BatchesOf(p) == {k \in DOMAIN written : written[k] \subseteq InPartition(p)}

\* b comes after everything written to p, or is what was written last, again.
Follows(b, p) == \A k \in BatchesOf(p) :
  written[k] = b \/ \A m \in b, n \in written[k] : n < m

Write(p) ==
  /\ \E b \in SUBSET InPartition(p) :
       /\ b # {} /\ Cardinality(b) <= BatchLimit
       /\ Follows(b, p)
       /\ written' = Append(written, b)
  /\ UNCHANGED submitted

Next == Submit \/ \E p \in Partitions : Write(p)

Spec == Init /\ [][Next]_vars
=============================================================================
