------------------------------ MODULE MCLeadBook ------------------------------
(* LeadBook for TLC: server processes and telecallers are interchangeable.   *)
EXTENDS LeadBook, TLC

Symmetry == Permutations(Processes) \cup Permutations(Telecallers)

=============================================================================
