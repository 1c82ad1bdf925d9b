------------------------------- MODULE MCStaff -------------------------------
(* Staff with one person, who may be an employee and a supervisor in turn. *)
EXTENDS Staff, TLC

Sent == {[active |-> "inactive", role |-> "keep"],
         [active |-> "active", role |-> "keep"],
         [active |-> "inactive", role |-> "invalid"],
         [active |-> "keep", role |-> "keep"]}

Interchangeable == Permutations(Callers)
=============================================================================
