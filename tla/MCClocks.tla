------------------------------- MODULE MCClocks -------------------------------
(***************************************************************************)
(* The two places where what one clock granted is used under another: a     *)
(* lease, and an observation of a router's table.  A behaviour follows one. *)
(***************************************************************************)
EXTENDS Lease, RouterStatus, TLC

VARIABLE subject

Init == LeaseInit /\ StatusInit /\ subject \in {"lease", "status"}
        /\ (subject = "lease" => legacy = FALSE) /\ (subject = "status" => skew = 0)
Next ==
    \/ subject = "lease" /\ LeaseNext /\ UNCHANGED <<statusVars, subject>>
    \/ subject = "status" /\ StatusNext /\ UNCHANGED <<leaseVars, subject>>
Spec == Init /\ [][Next]_<<leaseVars, statusVars, subject>>

ConnectionSymmetry == Permutations(Configured)
=============================================================================
