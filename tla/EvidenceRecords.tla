---------------------------- MODULE EvidenceRecords ----------------------------
(***************************************************************************)
(* How the experiments keep what they measured: one content-addressed       *)
(* record written by several writers (experiments/baseline/artifacts/       *)
(* store.ts when strict, experiments/native-evaluation/durable-records.mjs  *)
(* when not), and one export of several files (baseline/collect.ts).        *)
(*                                                                          *)
(* A directory is what its names refer to now and what it referred to when  *)
(* it was last synced.  A power loss keeps any mixture of the two, and      *)
(* bytes that were never synced may be gone; the store's documentation      *)
(* leaves the file system's own guarantees out of its claims, and these are *)
(* the weakest a POSIX file system gives.                                   *)
(***************************************************************************)
EXTENDS Integers, FiniteSets

CONSTANTS Writers,       \* processes that retain the same value
          Tries,         \* bound of the retentions each of them starts
          NoFile

ASSUME RecordAssumption == Tries \in Nat \ {0} /\ NoFile \notin Writers \X (1..Tries)

VARIABLES strict,        \* which of the two stores the directory belongs to
          at,            \* per writer: the step of Steps it takes next, or Stopped
          try,           \* per writer: its retention, which names its temporary file
          held,          \* per writer: the file it opened under the record's name
          target,        \* the file the record's name refers to
          pending,       \* the files that still have their temporary name
          synced,        \* the files whose bytes are on disk
          torn,          \* the files a power loss took bytes from
          onDisk,        \* the directory when it was last synced
          acknowledged   \* the files a retention returned a reference to

recordVars == <<strict, at, try, held, target, pending, synced, torn, onDisk, acknowledged>>

Files == Writers \X (1..Tries)
Own(w) == <<w, try[w]>>

\* writeRecord checks the link count and content after the temporary name is gone;
\* persistImmutable compares first and removes its temporary name last.
Steps ==
    IF strict THEN <<"create", "sync", "publish", "unlink", "check", "flush", "directory", "return">>
    ELSE <<"create", "sync", "publish", "check", "flush", "unlink", "directory", "return">>
Stopped == 9
Doing(w, step) == at[w] # Stopped /\ Steps[at[w]] = step
Advance(w) == at' = [at EXCEPT ![w] = @ + 1]

Links(f) == Cardinality({n \in {"record", "temporary"} :
                            IF n = "record" THEN target = f ELSE f \in pending})

\* checkFile: the bytes are the expected ones and, in the private store, the file has
\* this name only.
CheckFile(f) == f \notin torn /\ (strict => Links(f) = 1)

RecordInit ==
    /\ strict \in BOOLEAN
    /\ at = [w \in Writers |-> 1] /\ try = [w \in Writers |-> 1]
    /\ held = [w \in Writers |-> NoFile]
    /\ target = NoFile /\ pending = {} /\ synced = {} /\ torn = {}
    /\ onDisk = [target |-> NoFile, pending |-> {}] /\ acknowledged = {}

CreateTemporary(w) ==
    /\ Doing(w, "create") /\ Advance(w)
    /\ pending' = pending \cup {Own(w)}
    /\ UNCHANGED <<strict, try, held, target, synced, torn, onDisk, acknowledged>>

SyncFile(w) ==
    /\ Doing(w, "sync") /\ Advance(w)
    /\ synced' = synced \cup {Own(w)}
    /\ UNCHANGED <<strict, try, held, target, pending, torn, onDisk, acknowledged>>

\* link is exclusive: whoever comes later opens the record that is there.
Publish(w) ==
    /\ Doing(w, "publish") /\ Advance(w)
    /\ strict => CheckFile(Own(w))
    /\ target' = IF target = NoFile THEN Own(w) ELSE target
    /\ held' = [held EXCEPT ![w] = target']
    /\ UNCHANGED <<strict, try, pending, synced, torn, onDisk, acknowledged>>

Unlink(w) ==
    /\ Doing(w, "unlink") /\ Advance(w)
    /\ pending' = pending \ {Own(w)}
    /\ UNCHANGED <<strict, try, held, target, synced, torn, onDisk, acknowledged>>

Check(w) ==
    /\ Doing(w, "check") /\ Advance(w)
    /\ target = held[w] /\ CheckFile(held[w])
    /\ UNCHANGED <<strict, try, held, target, pending, synced, torn, onDisk, acknowledged>>

Flush(w) ==
    /\ Doing(w, "flush") /\ Advance(w)
    /\ synced' = synced \cup {held[w]}
    /\ UNCHANGED <<strict, try, held, target, pending, torn, onDisk, acknowledged>>

SyncDirectoryNever(w) ==                                                       \* slip
    /\ Doing(w, "directory") /\ Advance(w)
    /\ UNCHANGED <<strict, try, held, target, pending, synced, torn, onDisk, acknowledged>>
SyncDirectory(w) ==
    /\ Doing(w, "directory") /\ Advance(w)
    /\ onDisk' = [target |-> target, pending |-> pending]
    /\ UNCHANGED <<strict, try, held, target, pending, synced, torn, acknowledged>>

\* The reference is returned after one more look in the private store.
Return(w) ==
    /\ Doing(w, "return") /\ at' = [at EXCEPT ![w] = Stopped]
    /\ strict => target = held[w] /\ CheckFile(held[w])
    /\ acknowledged' = acknowledged \cup {held[w]}
    /\ UNCHANGED <<strict, try, held, target, pending, synced, torn, onDisk>>

\* A failed check, an I/O error or a kill at any step.  The private store leaves its
\* temporary file; the other one tries to remove it.
FailRetention(w) ==
    /\ at[w] # Stopped /\ at' = [at EXCEPT ![w] = Stopped]
    /\ pending' \in {pending} \cup IF strict THEN {} ELSE {pending \ {Own(w)}}
    /\ UNCHANGED <<strict, try, held, target, synced, torn, onDisk, acknowledged>>

\* The same value again, under a new temporary name.
Retain(w) ==
    /\ at[w] = Stopped /\ try[w] < Tries
    /\ at' = [at EXCEPT ![w] = 1] /\ try' = [try EXCEPT ![w] = @ + 1]
    /\ held' = [held EXCEPT ![w] = NoFile]
    /\ UNCHANGED <<strict, target, pending, synced, torn, onDisk, acknowledged>>

PowerLoss ==
    /\ at' = [w \in Writers |-> Stopped]
    /\ target' \in {target, onDisk.target}
    /\ \E kept \in SUBSET (pending \cup onDisk.pending) :
        /\ pending \cap onDisk.pending \subseteq kept
        /\ pending' = kept
    /\ torn' \in {torn, torn \cup (Files \ synced)}
    /\ onDisk' = [target |-> target', pending |-> pending']
    /\ UNCHANGED <<strict, try, held, synced, acknowledged>>

RecordNext ==
    \/ \E w \in Writers :
        \/ CreateTemporary(w) \/ SyncFile(w) \/ Publish(w) \/ Unlink(w) \/ Check(w)
        \/ Flush(w) \/ SyncDirectory(w) \/ Return(w) \/ FailRetention(w) \/ Retain(w)
    \/ PowerLoss

\* Whoever reads the record finds f and nothing to refuse about it.
ReadEvidence(f) == target = f /\ CheckFile(f)

(***************************************************************************)
(* A reference that was returned can be read for good: its record is the    *)
(* file that was checked, whole, and under no second name a reader would    *)
(* refuse, whatever other writers of the same value do, and through a power *)
(* loss (writeRecord, readEvidence; persistImmutable).                      *)
(***************************************************************************)
AcknowledgedIsReadable ==
    \A f \in acknowledged : ReadEvidence(f)
=============================================================================
