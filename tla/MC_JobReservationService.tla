---------------------- MODULE MC_JobReservationService ----------------------
(* JobReservationService for TLC: managers are alike, and so are lease ids. *)
EXTENDS JobReservationService, TLC

Symmetry == Permutations(Managers) \cup Permutations(Leases)
=============================================================================
