-------------------------------- MODULE ProofRun --------------------------------
(***************************************************************************)
(* A containment proof: experiments/isolation/run.ts, which creates all its *)
(* containers and cleans once, and experiments/harness/run.ts, which cleans *)
(* after every mode.  Both keep their verdict in one file that an earlier   *)
(* run may have left saying "passed", and both talk to a Docker daemon that *)
(* may finish a creation the CLI was given up on.  What a container is      *)
(* asked and answers is one step that succeeds or fails.                    *)
(***************************************************************************)
EXTENDS Naturals, Sequences, FiniteSets

CONSTANTS Modes          \* how many modes the harness run goes through

VARIABLES perMode,       \* the harness run: it cleans between its modes
          proof,         \* "starting", "running", "cleaning", "querying", "deciding",
                         \* "writing", "over" or "killed"
          todo,          \* what is still to be created, in order
          ids,           \* the names cleanup knows: ids and the volume
          unchecked,     \* the names this cleanup has not come to yet
          uncertain,     \* a removal or its verification failed in this cleanup
          standing,      \* the owned containers and volumes the daemon has
          late,          \* creations the CLI gave up on, which may still happen
          interrupted,   \* SIGINT or SIGTERM came
          result,        \* evidence.result
          verified,      \* evidence.cleanup.verified
          record         \* the file: the result and the cleanup it claims

proofVars == <<perMode, proof, todo, ids, unchecked, uncertain, standing, late,
               interrupted, result, verified, record>>

\* The names of one mode, and the sweep that ends it; the isolation run has one round.
Round(n) == <<<<n, "volume">>, <<n, "gateway">>, <<n, "worker">>>>
Resources == (1..Modes) \X {"volume", "gateway", "worker"}
Sweep == <<0, "sweep">>
Plan(sweeps) == Round(1) \o (IF sweeps THEN <<Sweep>> \o Round(2) \o <<Sweep>> ELSE <<>>)

ProofInit ==
    /\ perMode \in BOOLEAN /\ todo = Plan(perMode)
    /\ proof = "starting" /\ ids = {} /\ unchecked = {} /\ uncertain = FALSE
    /\ standing = {} /\ late = {} /\ interrupted = FALSE
    /\ result = "blocked" /\ verified = FALSE
    /\ record \in {[result |-> "passed", clean |-> TRUE],     \* of an earlier run
                   [result |-> "blocked", clean |-> FALSE]}

\* A blocked record is on disk before the daemon is asked for anything.
Mark ==
    /\ proof = "starting" /\ proof' = "running"
    /\ record' = [result |-> "blocked", clean |-> FALSE]
    /\ UNCHANGED <<perMode, todo, ids, unchecked, uncertain, standing, late, interrupted,
                   result, verified>>

RememberCreated(name, done) == IF done THEN ids \cup {name} ELSE ids           \* slip
\* The name is remembered before the create, whatever comes of it.
Remember(name, done) == ids \cup {name}

\* docker create: it is done, it failed, or the CLI ended without an answer.
CreateResource(outcome) ==
    /\ proof = "running" /\ todo # <<>> /\ Head(todo) # Sweep /\ ~interrupted
    /\ ids' = Remember(Head(todo), outcome = "created")
    /\ standing' = IF outcome = "created" THEN standing \cup {Head(todo)} ELSE standing
    /\ late' = IF outcome = "unanswered" THEN late \cup {Head(todo)} ELSE late
    /\ proof' = IF outcome = "created" THEN "running" ELSE "cleaning"
    /\ todo' = IF outcome = "created" THEN Tail(todo) ELSE <<>>
    /\ unchecked' = IF outcome = "created" THEN {} ELSE ids'
    /\ UNCHANGED <<perMode, uncertain, interrupted, result, verified, record>>

\* clean() between two modes, and the finally block: everything remembered is checked,
\* and a stop refuses none of it.
SweepMode ==
    /\ proof = "running" /\ todo # <<>> /\ Head(todo) = Sweep
    /\ proof' = "cleaning" /\ unchecked' = ids
    /\ UNCHANGED <<perMode, todo, ids, uncertain, standing, late, interrupted, result,
                   verified, record>>
\* An assertion, a timeout, or a command refused after a stop.
GiveUpProof ==
    /\ proof = "running"
    /\ proof' = "cleaning" /\ todo' = <<>> /\ unchecked' = ids
    /\ UNCHANGED <<perMode, ids, uncertain, standing, late, interrupted, result, verified, record>>
Conclude ==
    /\ proof = "running" /\ todo = <<>> /\ (perMode \/ ~interrupted)
    /\ result' = "passed"
    /\ proof' = "cleaning" /\ unchecked' = ids
    /\ UNCHANGED <<perMode, todo, ids, uncertain, standing, late, interrupted, verified, record>>

\* cleanupOwned: what cannot be inspected as owned cannot be verified gone.
Removes(name) ==
    /\ name \in standing
    /\ standing' = standing \ {name} /\ UNCHANGED uncertain
CannotRemove(name) ==
    /\ uncertain' = TRUE /\ UNCHANGED standing
CleanupOwned(name) ==
    /\ proof = "cleaning" /\ name \in unchecked
    /\ unchecked' = unchecked \ {name}
    /\ Removes(name) \/ CannotRemove(name)
    /\ UNCHANGED <<perMode, proof, todo, ids, late, interrupted, result, verified, record>>

\* A sweep that verified everything forgets its names and the next mode starts; one that
\* did not ends the run, whose finally block cleans what it remembers once more.
Swept ==
    /\ proof = "cleaning" /\ unchecked = {} /\ todo # <<>>
    /\ IF uncertain
       THEN proof' = "cleaning" /\ todo' = <<>> /\ unchecked' = ids /\ UNCHANGED ids
       ELSE proof' = "running" /\ todo' = Tail(todo) /\ ids' = {} /\ UNCHANGED unchecked
    /\ uncertain' = FALSE
    /\ UNCHANGED <<perMode, standing, late, interrupted, result, verified, record>>
Cleaned ==
    /\ proof = "cleaning" /\ unchecked = {} /\ todo = <<>>
    /\ IF uncertain THEN proof' = "deciding" /\ result' = "blocked"
       ELSE proof' = "querying" /\ UNCHANGED result
    /\ UNCHANGED <<perMode, todo, ids, unchecked, uncertain, standing, late, interrupted,
                   verified, record>>
\* docker ps and docker volume ls by the run's label, one after the other.
Query ==
    /\ proof = "querying" /\ proof' = "deciding"
    /\ verified' = (standing = {})
    /\ result' = IF standing = {} THEN result ELSE "blocked"
    /\ UNCHANGED <<perMode, todo, ids, unchecked, uncertain, standing, late, interrupted, record>>
Decide ==
    /\ proof = "deciding" /\ proof' = "writing"
    /\ result' = IF interrupted THEN "blocked" ELSE result
    /\ UNCHANGED <<perMode, todo, ids, unchecked, uncertain, standing, late, interrupted,
                   verified, record>>
WriteRecord ==
    /\ proof = "writing" /\ proof' = "over"
    /\ record' = [result |-> result, clean |-> verified]
    /\ UNCHANGED <<perMode, todo, ids, unchecked, uncertain, standing, late, interrupted,
                   result, verified>>

Interrupt ==
    /\ proof # "over" /\ ~interrupted /\ interrupted' = TRUE
    /\ UNCHANGED <<perMode, proof, todo, ids, unchecked, uncertain, standing, late, result,
                   verified, record>>
KillProof ==
    /\ proof \notin {"over", "killed"} /\ proof' = "killed"
    /\ UNCHANGED <<perMode, todo, ids, unchecked, uncertain, standing, late, interrupted,
                   result, verified, record>>
\* The daemon finishes a creation nobody waits for, or never does.
Land(name) ==
    /\ name \in late /\ late' = late \ {name}
    /\ standing' \in {standing, standing \cup {name}}
    /\ UNCHANGED <<perMode, proof, todo, ids, unchecked, uncertain, interrupted, result,
                   verified, record>>

ProofNext ==
    \/ Mark \/ SweepMode \/ GiveUpProof \/ Conclude \/ Swept \/ Cleaned \/ Query \/ Decide
    \/ WriteRecord \/ Interrupt \/ KillProof
    \/ \E outcome \in {"created", "failed", "unanswered"} : CreateResource(outcome)
    \/ \E name \in Resources : CleanupOwned(name) \/ Land(name)

(***************************************************************************)
(* A file that says its run was cleaned up is right, at any moment and for  *)
(* good: no container or volume of a run is there or may still appear, not  *)
(* even after a create that was given up on or in a run that was killed,    *)
(* and no run is recorded as passed that does not say so (cleanupOwned, the *)
(* name remembered first, the blocked marker written before anything).      *)
(***************************************************************************)
RecordedCleanupIsTrue ==
    /\ record.clean => standing = {} /\ late = {}
    /\ record.result = "passed" => record.clean
=============================================================================
