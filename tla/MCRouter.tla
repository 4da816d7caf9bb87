------------------------------- MODULE MCRouter -------------------------------
(***************************************************************************)
(* A router's authority, and the suite that is run over a deployment of it. *)
(* They share no state here, and a behaviour follows one of them.           *)
(***************************************************************************)
EXTENDS RouterAuthority, SuiteRun, TLC

VARIABLE followed

DeployedInit == Init /\ SuiteInit /\ followed \in {"router", "suite"}
DeployedNext ==
    \/ followed = "router" /\ Next /\ UNCHANGED <<suiteVars, followed>>
    \/ followed = "suite" /\ SuiteNext /\ UNCHANGED <<vars, followed>>
DeployedSpec == DeployedInit /\ [][DeployedNext]_<<vars, suiteVars, followed>>

RouterSymmetry == Permutations(Requests) \cup Permutations(Policies) \cup Permutations(Scopes)
=============================================================================
