---------------------------- MODULE RecordsProofs ----------------------------
(***************************************************************************)
(* What TLAPS proves of the records the experiments keep, for any number of *)
(* writers and tries, any names of modes, any faults and any export: a      *)
(* record or export that was acknowledged is whole after power losses; what *)
(* a record says of a containment proof, of a check or of a run is so, and  *)
(* what the suite reports of its phases and of the deployment it leaves;    *)
(* a snapshot is what its archive holds, a bundle two edits of the base; and*)
(* what a dataset reports of its cases, and the totals it adds up, are so.  *)
(***************************************************************************)
EXTENDS Export, BaselineRun, SuiteRun, Artifacts, Dataset, FiniteSetTheorems, SequenceTheorems, TLAPS

-----------------------------------------------------------------------------
(* One content-addressed record *)

RecordTypeOK ==
    /\ strict \in BOOLEAN
    /\ at \in [Writers -> 1..9] /\ try \in [Writers -> 1..Tries]
    /\ held \in [Writers -> Files \cup {NoFile}]
    /\ target \in Files \cup {NoFile}
    /\ pending \in SUBSET Files /\ synced \in SUBSET Files /\ torn \in SUBSET Files
    /\ onDisk \in [target : Files \cup {NoFile}, pending : SUBSET Files]
    /\ acknowledged \in SUBSET Files

\* The record's file is of a retention that has published, and is what the disk has, if
\* the disk has any.
NameIsTaken ==
    /\ target # NoFile => /\ target[2] <= try[target[1]]
                          /\ target[2] = try[target[1]] => at[target[1]] > 3
    /\ onDisk.target \in {NoFile, target}

\* A file that is whole under its one name.
Whole(f) == f \notin torn /\ (strict => f \notin pending)

\* What a writer that is past a step has seen done.
WriterHolds(w) ==
    /\ at[w] \in 4..8 => target # NoFile /\ held[w] = target
    /\ at[w] \in (IF strict THEN 6 ELSE 5)..8 => Whole(target)
    /\ at[w] \in (IF strict THEN 7 ELSE 6)..8 => target \in synced
    /\ at[w] = 8 => /\ onDisk.target = target
                    /\ strict => target \notin onDisk.pending

\* What was acknowledged is on disk, whole, under its one name.
AcknowledgedIsKept ==
    \A f \in acknowledged :
        /\ f = target /\ f = onDisk.target /\ f \in synced /\ Whole(f)
        /\ strict => f \notin onDisk.pending

RecordInv ==
    RecordTypeOK /\ NameIsTaken /\ (\A w \in Writers : WriterHolds(w)) /\ AcknowledgedIsKept

\* Where a writer stands when it does a step.
LEMMA DoingAt ==
    ASSUME RecordTypeOK, NEW w \in Writers
    PROVE  /\ Doing(w, "create") <=> at[w] = 1
           /\ Doing(w, "sync") <=> at[w] = 2
           /\ Doing(w, "publish") <=> at[w] = 3
           /\ Doing(w, "unlink") <=> at[w] = IF strict THEN 4 ELSE 6
           /\ Doing(w, "check") <=> at[w] = IF strict THEN 5 ELSE 4
           /\ Doing(w, "flush") <=> at[w] = IF strict THEN 6 ELSE 5
           /\ Doing(w, "directory") <=> at[w] = 7
           /\ Doing(w, "return") <=> at[w] = 8
<1>1. PICK i \in 1..9 : i = at[w]
  BY DEF RecordTypeOK
<1>2. i \in {1, 2, 3, 4, 5, 6, 7, 8, 9}
  BY <1>1
<1>3. CASE strict
  BY <1>1, <1>2, <1>3 DEF Doing, Steps, Stopped
<1>4. CASE ~strict
  BY <1>1, <1>2, <1>4 DEF Doing, Steps, Stopped
<1>5. QED
  BY <1>3, <1>4

\* The record's own file has one link exactly when its temporary name is gone.
LEMMA OneLink ==
    ASSUME target # NoFile
    PROVE  CheckFile(target) <=> Whole(target)
<1> DEFINE N == {n \in {"record", "temporary"} :
                    IF n = "record" THEN target = target ELSE target \in pending}
<1>1. Links(target) = Cardinality(N)
  BY DEF Links
<1>2. CASE target \in pending
  <2>1. N = {"record"} \cup {"temporary"} /\ "temporary" \notin {"record"}
    BY <1>2
  <2>2. IsFiniteSet({"record"}) /\ Cardinality({"record"}) = 1
    BY FS_Singleton
  <2>3. Cardinality({"record"} \cup {"temporary"}) = 1 + 1
    BY <2>1, <2>2, FS_AddElement
  <2>4. Links(target) # 1
    BY <1>1, <2>1, <2>3
  <2>5. QED
    BY <1>2, <2>4 DEF CheckFile, Whole
<1>3. CASE target \notin pending
  <2>1. N = {"record"}
    BY <1>3
  <2>2. Links(target) = 1
    BY <1>1, <2>1, FS_Singleton
  <2>3. QED
    BY <1>3, <2>2 DEF CheckFile, Whole
<1>4. QED
  BY <1>2, <1>3

\* A new temporary name is not the record's.
LEMMA OwnIsNew ==
    ASSUME RecordTypeOK, NameIsTaken, NEW w \in Writers, at[w] <= 3
    PROVE  Own(w) \in Files /\ Own(w) # target
<1>1. Own(w) \in Files
  BY DEF RecordTypeOK, Own, Files
<1>2. ASSUME Own(w) = target PROVE FALSE
  <2>1. NoFile \notin Files
    BY RecordAssumption DEF Files
  <2>2. target # NoFile /\ target[1] = w /\ target[2] = try[w]
    BY <1>1, <1>2, <2>1 DEF Own
  <2>3. QED
    BY <2>2 DEF NameIsTaken, RecordTypeOK
<1>3. QED
  BY <1>1, <1>2

\* A file's parts.
LEMMA FileParts ==
    ASSUME NEW f \in Files
    PROVE  f[1] \in Writers /\ f[2] \in 1..Tries /\ f # NoFile
  BY RecordAssumption DEF Files

\* A step of one writer that leaves the directory, the disk and the files alone.
LEMMA WriterMoves ==
    ASSUME RecordInv, NEW w \in Writers, NEW next \in 1..9,
           at' = [at EXCEPT ![w] = next], next >= at[w],
           UNCHANGED <<strict, try, held, target, onDisk, torn>>,
           pending' \in SUBSET Files, synced' \in SUBSET Files,
           synced \subseteq synced',
           target # NoFile => (target \in pending' => target \in pending),
           acknowledged' = acknowledged,
           WriterHolds(w)'
    PROVE  RecordInv'
<1>1. RecordTypeOK'
  BY DEF RecordInv, RecordTypeOK
<1>2. at[w] \in 1..9 /\ at'[w] = next /\ \A v \in Writers : v # w => at'[v] = at[v]
  BY DEF RecordInv, RecordTypeOK
<1>3. NameIsTaken'
  <2>1. ASSUME target # NoFile PROVE target[1] \in Writers
    BY <2>1, FileParts DEF RecordInv, RecordTypeOK
  <2>2. ASSUME target # NoFile, target[2] = try[target[1]] PROVE at'[target[1]] > 3
    <3>1. at[target[1]] > 3 /\ target[1] \in Writers
      BY <2>1, <2>2 DEF RecordInv, NameIsTaken
    <3>2. CASE target[1] = w
      BY <1>2, <3>1, <3>2
    <3>3. CASE target[1] # w
      BY <1>2, <3>1, <3>3
    <3>4. QED
      BY <3>2, <3>3
  <2>3. QED
    BY <2>2 DEF RecordInv, NameIsTaken
<1>4. target # NoFile => (Whole(target) => Whole(target)')
  BY DEF Whole
<1>5. ASSUME NEW v \in Writers PROVE WriterHolds(v)'
  <2>1. CASE v = w
    BY <2>1
  <2>2. CASE v # w
    <3>1. at'[v] = at[v] /\ WriterHolds(v)
      BY <1>2, <2>2 DEF RecordInv
    <3>2. QED
      BY <1>4, <3>1 DEF WriterHolds
  <2>3. QED
    BY <2>1, <2>2
<1>6. AcknowledgedIsKept'
  <2>1. ASSUME NEW f \in acknowledged PROVE f # NoFile /\ f = target
    BY FileParts DEF RecordInv, RecordTypeOK, AcknowledgedIsKept
  <2>2. QED
    BY <1>4, <2>1 DEF RecordInv, AcknowledgedIsKept
<1>7. QED
  BY <1>1, <1>3, <1>5, <1>6 DEF RecordInv

\* A step of a writer up to its acknowledgement.
LEMMA WriterSteps ==
    ASSUME RecordInv, NEW w \in Writers,
           CreateTemporary(w) \/ SyncFile(w) \/ Unlink(w) \/ Check(w) \/ Flush(w)
    PROVE  RecordInv'
<1>1. RecordTypeOK /\ NameIsTaken /\ WriterHolds(w)
  BY DEF RecordInv
<1>2. /\ at[w] \in 1..8 /\ at' = [at EXCEPT ![w] = at[w] + 1] /\ acknowledged' = acknowledged
      /\ UNCHANGED <<strict, try, held, target, onDisk, torn>>
  BY <1>1, DoingAt DEF CreateTemporary, SyncFile, Unlink, Check, Flush, Advance, RecordTypeOK
<1>3. PICK next \in 1..9 : next = at[w] + 1
  BY <1>2
<1>4. /\ at' = [at EXCEPT ![w] = next] /\ next >= at[w] /\ at'[w] = next
      /\ strict \in BOOLEAN /\ held[w] \in Files \cup {NoFile} /\ pending \in SUBSET Files /\ synced \in SUBSET Files
  BY <1>1, <1>2, <1>3 DEF RecordTypeOK
<1>5. ASSUME pending' \in SUBSET Files, synced' \in SUBSET Files, synced \subseteq synced',
             target # NoFile => (target \in pending' => target \in pending), WriterHolds(w)'
      PROVE  RecordInv'
  BY <1>2, <1>4, <1>5, WriterMoves
<1>6. CASE CreateTemporary(w)
  <2>1. at[w] = 1 /\ synced' = synced /\ pending' = pending \cup {Own(w)}
    BY <1>1, <1>6, DoingAt DEF CreateTemporary
  <2>2. Own(w) \in Files /\ Own(w) # target
    BY <1>1, <2>1, OwnIsNew
  <2>3. WriterHolds(w)'
    BY <1>1, <1>2, <1>3, <1>4, <2>1 DEF WriterHolds
  <2>4. QED
    BY <1>4, <1>5, <2>1, <2>2, <2>3
<1>7. CASE SyncFile(w)
  <2>1. at[w] = 2 /\ synced' = synced \cup {Own(w)} /\ pending' = pending
    BY <1>1, <1>7, DoingAt DEF SyncFile
  <2>2. Own(w) \in Files
    BY <1>1, <2>1, OwnIsNew
  <2>3. WriterHolds(w)'
    BY <1>1, <1>2, <1>3, <1>4, <2>1 DEF WriterHolds
  <2>4. QED
    BY <1>4, <1>5, <2>1, <2>2, <2>3
<1>8. CASE Unlink(w)
  <2>1. at[w] = (IF strict THEN 4 ELSE 6) /\ synced' = synced /\ pending' = pending \ {Own(w)}
    BY <1>1, <1>8, DoingAt DEF Unlink
  <2>2. WriterHolds(w)'
    BY <1>1, <1>2, <1>3, <1>4, <2>1 DEF WriterHolds, Whole
  <2>3. QED
    BY <1>4, <1>5, <2>1, <2>2
<1>9. CASE Check(w)
  <2>1. /\ at[w] = (IF strict THEN 5 ELSE 4) /\ synced' = synced /\ pending' = pending
        /\ target = held[w] /\ CheckFile(held[w])
    BY <1>1, <1>9, DoingAt DEF Check
  <2>2. target # NoFile
    BY <1>1, <1>2, <1>3, <1>4, <2>1 DEF WriterHolds
  <2>3. Whole(target)
    BY <2>1, <2>2, OneLink
  <2>4. WriterHolds(w)'
    BY <1>1, <1>2, <1>3, <1>4, <2>1, <2>2, <2>3 DEF WriterHolds, Whole
  <2>5. QED
    BY <1>4, <1>5, <2>1, <2>4
<1>10. CASE Flush(w)
  <2>1. at[w] = (IF strict THEN 6 ELSE 5) /\ synced' = synced \cup {held[w]} /\ pending' = pending
    BY <1>1, <1>10, DoingAt DEF Flush
  <2>2. target # NoFile /\ held[w] = target /\ Whole(target)
    BY <1>1, <1>2, <1>3, <1>4, <2>1 DEF WriterHolds
  <2>3. WriterHolds(w)'
    BY <1>1, <1>2, <1>3, <1>4, <2>1, <2>2 DEF WriterHolds, Whole
  <2>4. QED
    BY <1>4, <1>5, <2>1, <2>2, <2>3
<1>11. QED
  BY <1>6, <1>7, <1>8, <1>9, <1>10

\* The record gets its name once; whoever comes later finds it taken.
LEMMA RecordIsPublished ==
    ASSUME RecordInv, NEW w \in Writers, Publish(w)
    PROVE  RecordInv'
<1> USE DEF RecordInv
<1>1. /\ at[w] = 3 /\ at' = [at EXCEPT ![w] = 4] /\ target' = (IF target = NoFile THEN Own(w) ELSE target)
      /\ held' = [held EXCEPT ![w] = target']
      /\ UNCHANGED <<strict, try, pending, synced, torn, onDisk, acknowledged>>
  <2>1. at[w] = 3
    BY DoingAt DEF Publish
  <2>2. QED
    BY <2>1 DEF Publish, Advance
<1>2. Own(w) \in Files /\ Own(w)[1] = w /\ Own(w)[2] = try[w] /\ Own(w) # NoFile
  BY <1>1, OwnIsNew, FileParts DEF Own
<1>3. RecordTypeOK'
  BY <1>1, <1>2 DEF RecordTypeOK
<1>4. /\ at'[w] = 4 /\ held'[w] = target' /\ target' # NoFile /\ (target # NoFile => target' = target)
      /\ \A v \in Writers : v # w => at'[v] = at[v] /\ held'[v] = held[v]
  BY <1>1, <1>2 DEF RecordTypeOK
<1>5. NameIsTaken'
  <2>1. CASE target = NoFile
    <3>1. target' = Own(w) /\ onDisk'.target = NoFile
      BY <1>1, <2>1 DEF NameIsTaken
    <3>2. try'[w] = try[w] /\ try[w] \in Nat /\ at'[w] > 3
      BY <1>1, <1>4 DEF RecordTypeOK
    <3>3. QED
      BY <1>2, <3>1, <3>2 DEF NameIsTaken
  <2>2. CASE target # NoFile
    <3>1. target' = target /\ onDisk'.target \in {NoFile, target} /\ target[1] \in Writers
      BY <1>1, <2>2, FileParts DEF NameIsTaken, RecordTypeOK
    <3>2. /\ target[2] <= try[target[1]]
          /\ target[2] = try[target[1]] => at[target[1]] > 3
      BY <2>2 DEF NameIsTaken
    <3>3. target[2] = try[target[1]] => at'[target[1]] > 3
      BY <1>1, <1>4, <3>1, <3>2
    <3>4. QED
      BY <1>1, <3>1, <3>2, <3>3 DEF NameIsTaken
  <2>3. QED
    BY <2>1, <2>2
<1>6. ASSUME NEW v \in Writers PROVE WriterHolds(v)'
  <2>1. CASE v = w
    BY <1>1, <1>4, <2>1 DEF WriterHolds
  <2>2. CASE v # w
    <3>1. WriterHolds(v) /\ at'[v] = at[v] /\ held'[v] = held[v] /\ at[v] \in 1..9
      BY <1>4, <2>2 DEF RecordTypeOK
    <3>2. CASE at[v] \in 4..8
      <4>1. target' = target
        BY <1>4, <3>1, <3>2 DEF WriterHolds
      <4>2. QED
        BY <1>1, <3>1, <4>1 DEF WriterHolds, Whole
    <3>3. CASE at[v] \notin 4..8
      <4>1. at'[v] \notin 4..8
        BY <3>1, <3>3
      <4>2. at'[v] \notin (IF strict' THEN 6 ELSE 5)..8 /\ at'[v] \notin (IF strict' THEN 7 ELSE 6)..8 /\ at'[v] # 8
        BY <3>1, <4>1
      <4>3. QED
        BY <4>1, <4>2 DEF WriterHolds
    <3>4. QED
      BY <3>2, <3>3
  <2>3. QED
    BY <2>1, <2>2
<1>7. AcknowledgedIsKept'
  <2>1. ASSUME NEW f \in acknowledged PROVE f # NoFile /\ f = target /\ target' = target
    BY <1>4, FileParts DEF RecordTypeOK, AcknowledgedIsKept
  <2>2. QED
    BY <1>1, <2>1 DEF AcknowledgedIsKept, Whole
<1>8. QED
  BY <1>3, <1>5, <1>6, <1>7

\* What is synced of the directory is what its names are then.
LEMMA DirectoryIsSynced ==
    ASSUME RecordInv, NEW w \in Writers, SyncDirectory(w)
    PROVE  RecordInv'
<1> USE DEF RecordInv
<1>1. /\ at[w] = 7 /\ at' = [at EXCEPT ![w] = 8] /\ onDisk' = [target |-> target, pending |-> pending]
      /\ UNCHANGED <<strict, try, held, target, pending, synced, torn, acknowledged>>
  <2>1. at[w] = 7
    BY DoingAt DEF SyncDirectory
  <2>2. QED
    BY <2>1 DEF SyncDirectory, Advance
<1>2. RecordTypeOK'
  BY <1>1 DEF RecordTypeOK
<1>3. /\ at'[w] = 8 /\ onDisk'.target = target /\ onDisk'.pending = pending
      /\ \A v \in Writers : v # w => at'[v] = at[v]
  BY <1>1 DEF RecordTypeOK
<1>4. NameIsTaken'
  <2>1. ASSUME target # NoFile, target[2] = try[target[1]] PROVE at'[target[1]] > 3
    <3>1. at[target[1]] > 3 /\ target[1] \in Writers
      BY <2>1, FileParts DEF NameIsTaken, RecordTypeOK
    <3>2. QED
      BY <1>3, <3>1
  <2>2. QED
    BY <1>1, <1>3, <2>1 DEF NameIsTaken
<1>5. target # NoFile /\ held[w] = target /\ Whole(target) /\ target \in synced
  BY <1>1 DEF WriterHolds, RecordTypeOK
<1>6. ASSUME NEW v \in Writers PROVE WriterHolds(v)'
  <2>1. CASE v = w
    BY <1>1, <1>3, <1>5, <2>1 DEF WriterHolds, Whole
  <2>2. CASE v # w
    BY <1>1, <1>3, <1>5, <2>2 DEF WriterHolds, Whole
  <2>3. QED
    BY <2>1, <2>2
<1>7. AcknowledgedIsKept'
  BY <1>1, <1>3 DEF AcknowledgedIsKept, Whole
<1>8. QED
  BY <1>2, <1>4, <1>6, <1>7

\* What is acknowledged was published, checked, flushed and synced with its directory.
LEMMA RecordIsAcknowledged ==
    ASSUME RecordInv, NEW w \in Writers, Return(w)
    PROVE  RecordInv'
<1> USE DEF RecordInv
<1>1. /\ at[w] = 8 /\ at' = [at EXCEPT ![w] = 9] /\ acknowledged' = acknowledged \cup {held[w]}
      /\ UNCHANGED <<strict, try, held, target, pending, synced, torn, onDisk>>
  BY DoingAt DEF Return, Stopped, RecordTypeOK
<1>2. /\ target # NoFile /\ held[w] = target /\ Whole(target) /\ target \in synced
      /\ onDisk.target = target /\ (strict => target \notin onDisk.pending)
  BY <1>1 DEF WriterHolds, RecordTypeOK
<1>3. RecordTypeOK'
  BY <1>1, <1>2 DEF RecordTypeOK
<1>4. at'[w] = 9 /\ \A v \in Writers : v # w => at'[v] = at[v]
  BY <1>1 DEF RecordTypeOK
<1>5. NameIsTaken'
  <2>1. ASSUME target # NoFile, target[2] = try[target[1]] PROVE at'[target[1]] > 3
    <3>1. at[target[1]] > 3 /\ target[1] \in Writers
      BY <2>1, FileParts DEF NameIsTaken, RecordTypeOK
    <3>2. QED
      BY <1>4, <3>1
  <2>2. QED
    BY <1>1, <2>1 DEF NameIsTaken
<1>6. ASSUME NEW v \in Writers PROVE WriterHolds(v)'
  <2>1. CASE v = w
    BY <1>1, <1>4, <2>1 DEF WriterHolds
  <2>2. CASE v # w
    BY <1>1, <1>4, <2>2 DEF WriterHolds, Whole
  <2>3. QED
    BY <2>1, <2>2
<1>7. AcknowledgedIsKept'
  BY <1>1, <1>2 DEF AcknowledgedIsKept, Whole
<1>8. QED
  BY <1>3, <1>5, <1>6, <1>7

\* A retention that fails leaves what others retained.
LEMMA RetentionFails ==
    ASSUME RecordInv, NEW w \in Writers, FailRetention(w)
    PROVE  RecordInv'
<1> USE DEF RecordInv
<1>1. /\ at[w] \in 1..9 /\ at' = [at EXCEPT ![w] = 9] /\ pending' \subseteq pending
      /\ UNCHANGED <<strict, try, held, target, onDisk, torn>> /\ synced' = synced /\ acknowledged' = acknowledged
  BY DEF FailRetention, Stopped, RecordTypeOK
<1>2. WriterHolds(w)'
  <2>1. at'[w] = 9
    BY <1>1 DEF RecordTypeOK
  <2>2. QED
    BY <1>1, <2>1 DEF WriterHolds
<1>3. 9 \in 1..9 /\ 9 >= at[w] /\ pending' \in SUBSET Files /\ synced' \in SUBSET Files
  BY <1>1 DEF RecordTypeOK
<1> QED
  BY <1>1, <1>2, <1>3, WriterMoves

\* Another retention begins under a temporary name of its own.
LEMMA RetentionBegins ==
    ASSUME RecordInv, NEW w \in Writers, Retain(w)
    PROVE  RecordInv'
<1> USE DEF RecordInv
<1>1. /\ at' = [at EXCEPT ![w] = 1] /\ try' = [try EXCEPT ![w] = try[w] + 1]
      /\ held' = [held EXCEPT ![w] = NoFile] /\ try[w] \in 1..Tries /\ try[w] < Tries /\ Tries \in Nat
      /\ UNCHANGED <<strict, target, pending, synced, torn, onDisk, acknowledged>>
  BY RecordAssumption DEF Retain, RecordTypeOK
<1>2. RecordTypeOK'
  BY <1>1 DEF RecordTypeOK
<1>3. /\ at'[w] = 1 /\ try'[w] = try[w] + 1
      /\ \A v \in Writers : v # w => at'[v] = at[v] /\ held'[v] = held[v] /\ try'[v] = try[v]
  BY <1>1 DEF RecordTypeOK
<1>4. NameIsTaken'
  <2>1. ASSUME target # NoFile
        PROVE  target[2] <= try'[target[1]] /\ (target[2] = try'[target[1]] => at'[target[1]] > 3)
    <3>1. /\ target[1] \in Writers /\ target[2] \in Nat /\ target[2] <= try[target[1]]
          /\ target[2] = try[target[1]] => at[target[1]] > 3
      BY <2>1, FileParts DEF NameIsTaken, RecordTypeOK
    <3>2. CASE target[1] = w
      BY <1>1, <1>3, <3>1, <3>2
    <3>3. CASE target[1] # w
      BY <1>3, <3>1, <3>3
    <3>4. QED
      BY <3>2, <3>3
  <2>2. QED
    BY <1>1, <2>1 DEF NameIsTaken
<1>5. ASSUME NEW v \in Writers PROVE WriterHolds(v)'
  <2>1. CASE v = w
    BY <1>1, <1>3, <2>1 DEF WriterHolds
  <2>2. CASE v # w
    BY <1>1, <1>3, <2>2 DEF WriterHolds, Whole
  <2>3. QED
    BY <2>1, <2>2
<1>6. AcknowledgedIsKept'
  BY <1>1 DEF AcknowledgedIsKept, Whole
<1>7. QED
  BY <1>2, <1>4, <1>5, <1>6

\* A power loss keeps what was acknowledged, whichever mixture of the directory it leaves.
LEMMA PowerIsLost ==
    ASSUME RecordInv, PowerLoss
    PROVE  RecordInv'
<1> USE DEF RecordInv
<1>1. /\ at' = [w \in Writers |-> 9] /\ target' \in {target, onDisk.target}
      /\ pending' \subseteq pending \cup onDisk.pending /\ torn' \in {torn, torn \cup (Files \ synced)}
      /\ onDisk' = [target |-> target', pending |-> pending']
      /\ UNCHANGED <<strict, try, held, synced, acknowledged>>
  BY DEF PowerLoss, Stopped
<1>2. RecordTypeOK'
  BY <1>1 DEF RecordTypeOK
<1>3. target' # NoFile => target' = target
  BY <1>1 DEF NameIsTaken
<1>4. NameIsTaken'
  <2>1. ASSUME target' # NoFile
        PROVE  target'[2] <= try[target'[1]] /\ at'[target'[1]] > 3
    <3>1. target[1] \in Writers /\ target[2] <= try[target[1]]
      BY <1>3, <2>1, FileParts DEF NameIsTaken, RecordTypeOK
    <3>2. QED
      BY <1>1, <1>3, <2>1, <3>1
  <2>2. QED
    BY <1>1, <2>1 DEF NameIsTaken
<1>5. ASSUME NEW v \in Writers PROVE WriterHolds(v)'
  BY <1>1 DEF WriterHolds
<1>6. ASSUME NEW f \in acknowledged
      PROVE  /\ f = target' /\ f = onDisk'.target /\ f \in synced' /\ Whole(f)'
             /\ strict' => f \notin onDisk'.pending
  <2>1. /\ f = target /\ f = onDisk.target /\ f \in synced /\ Whole(f)
        /\ strict => f \notin onDisk.pending
    BY DEF AcknowledgedIsKept
  <2>2. f = target' /\ onDisk'.target = target' /\ onDisk'.pending = pending'
    BY <1>1, <2>1
  <2>3. f \notin torn' /\ (strict => f \notin pending')
    BY <1>1, <2>1 DEF Whole
  <2>4. QED
    BY <1>1, <2>1, <2>2, <2>3 DEF Whole
<1>7. AcknowledgedIsKept'
  BY <1>1, <1>6 DEF AcknowledgedIsKept
<1>8. QED
  BY <1>2, <1>4, <1>5, <1>7

\* Every step keeps the record.
LEMMA RecordKept == RecordInv /\ [RecordNext]_recordVars => RecordInv'
<1> SUFFICES ASSUME RecordInv, [RecordNext]_recordVars PROVE RecordInv'
  OBVIOUS
<1>1. CASE UNCHANGED recordVars
  <2>1. RecordTypeOK' /\ NameIsTaken' /\ AcknowledgedIsKept'
    BY <1>1 DEF recordVars, RecordInv, RecordTypeOK, NameIsTaken, AcknowledgedIsKept, Whole
  <2>2. \A w \in Writers : WriterHolds(w)'
    BY <1>1 DEF recordVars, RecordInv, WriterHolds, Whole
  <2>3. QED
    BY <2>1, <2>2 DEF RecordInv
<1>2. QED
  BY <1>1, WriterSteps, RecordIsPublished, DirectoryIsSynced, RecordIsAcknowledged, RetentionFails,
     RetentionBegins, PowerIsLost DEF RecordNext

\* A reference that was returned can be read for good (writeRecord, persistImmutable).
LEMMA ReferencesAreKept == RecordInit /\ [][RecordNext]_recordVars => []AcknowledgedIsReadable
<1>1. RecordInit => RecordInv
  <2> SUFFICES ASSUME RecordInit PROVE RecordInv
    OBVIOUS
  <2>1. RecordTypeOK
    BY RecordAssumption DEF RecordInit, RecordTypeOK
  <2>2. NameIsTaken /\ AcknowledgedIsKept /\ \A w \in Writers : WriterHolds(w)
    BY DEF RecordInit, NameIsTaken, AcknowledgedIsKept, WriterHolds
  <2>3. QED
    BY <2>1, <2>2 DEF RecordInv
<1>2. RecordInv => AcknowledgedIsReadable
  <2> SUFFICES ASSUME RecordInv, NEW f \in acknowledged PROVE ReadEvidence(f)
    BY DEF AcknowledgedIsReadable
  <2>1. f = target /\ Whole(f) /\ f # NoFile
    BY FileParts DEF RecordInv, RecordTypeOK, AcknowledgedIsKept
  <2>2. QED
    BY <2>1, OneLink DEF ReadEvidence
<1>3. QED
  BY <1>1, <1>2, RecordKept, PTL

-----------------------------------------------------------------------------
(* One export *)

\* While it is written everything before the step is whole, and the directory on disk has
\* what its last sync found; complete.json comes after that, and what is synced stays.
ExportInv ==
    /\ exported \in [Exported -> {"absent", "open", "whole"}] /\ exportSynced \subseteq Exported
    /\ exporting \in 1..8 /\ exportState \in {"writing", "returned", "failed"}
    /\ \A f \in exportSynced : exported[f] # "absent"
    /\ exported["complete.json"] # "absent" =>
        Contents \subseteq exportSynced /\ \A f \in Contents : exported[f] = "whole"
    /\ exportState = "writing" =>
        /\ exporting > 1 => exported["private-records.json"] = "whole"
        /\ exporting > 2 => exported["public-summary.json"] = "whole"
        /\ exporting > 3 => exported["public-summary.csv"] = "whole"
        /\ exporting > 4 => Contents \subseteq exportSynced
        /\ exporting > 5 => exported["complete.json"] = "whole"
        /\ exporting > 6 => exportSynced = Exported
    /\ exportState = "returned" =>
        exporting = 8 /\ exportSynced = Exported /\ \A f \in Exported : exported[f] = "whole"

\* Where the export stands when it does a step.
LEMMA WritingAt ==
    ASSUME exporting \in 1..8
    PROVE  /\ Len(ExportSteps) = 7
           /\ Writing("private-records.json") <=> exportState = "writing" /\ exporting = 1
           /\ Writing("public-summary.json") <=> exportState = "writing" /\ exporting = 2
           /\ Writing("public-summary.csv") <=> exportState = "writing" /\ exporting = 3
           /\ Writing("directory") <=> exportState = "writing" /\ exporting \in {4, 6}
           /\ Writing("complete.json") <=> exportState = "writing" /\ exporting = 5
           /\ Writing("parent") <=> exportState = "writing" /\ exporting = 7
           /\ exporting = 8 => ParentSynced
<1>1. Len(ExportSteps) = 7
  BY DEF ExportSteps
<1>2. exporting \in {1, 2, 3, 4, 5, 6, 7, 8}
  OBVIOUS
<1>3. exporting = 8 => ParentSynced
  <2> SUFFICES ASSUME exporting = 8 PROVE ParentSynced
    OBVIOUS
  <2>1. 7 \in 1..exporting - 1 /\ ExportSteps[7] = "parent"
    BY DEF ExportSteps
  <2>2. QED
    BY <2>1 DEF ParentSynced
<1>4. QED
  BY <1>1, <1>2, <1>3 DEF Writing, ExportSteps

\* Every step keeps it.
LEMMA ExportKept == ExportInv /\ [ExportNext]_exportVars => ExportInv'
<1> SUFFICES ASSUME ExportInv, [ExportNext]_exportVars PROVE ExportInv'
  OBVIOUS
<1> USE DEF Exported, Contents
<1>1. ASSUME NEW f \in Exported, OpenFile(f) PROVE ExportInv'
  <2>1. /\ exportState = "writing" /\ exported[f] = "absent" /\ exported' = [exported EXCEPT ![f] = "open"]
        /\ UNCHANGED <<exportSynced, exporting, exportState>> /\ f \notin exportSynced
        /\ f = "private-records.json" => exporting = 1
        /\ f = "public-summary.json" => exporting = 2
        /\ f = "public-summary.csv" => exporting = 3
        /\ f = "complete.json" => exporting = 5
    BY <1>1, WritingAt DEF OpenFile, Writing, ExportInv
  <2>2. f # "complete.json" => exported["complete.json"] = "absent"
    BY <2>1 DEF ExportInv
  <2>3. /\ exported' \in [Exported -> {"absent", "open", "whole"}] /\ exported'[f] = "open"
        /\ \A g \in Exported : g # f => exported'[g] = exported[g]
    BY <2>1 DEF ExportInv
  <2>4. f = "complete.json" => Contents \subseteq exportSynced /\ \A g \in Contents : exported[g] = "whole"
    BY <2>1 DEF ExportInv
  <2>5. QED
    BY <2>1, <2>2, <2>3, <2>4 DEF ExportInv
<1>2. ASSUME NEW f \in Exported, SyncExported(f) PROVE ExportInv'
  <2>1. /\ exportState = "writing" /\ exported[f] = "open" /\ exported' = [exported EXCEPT ![f] = "whole"]
        /\ UNCHANGED <<exportSynced, exportState>> /\ exporting' = exporting + 1
        /\ f = "private-records.json" => exporting = 1
        /\ f = "public-summary.json" => exporting = 2
        /\ f = "public-summary.csv" => exporting = 3
        /\ f = "complete.json" => exporting = 5
    BY <1>2, WritingAt DEF SyncExported, Writing, ExportInv
  <2>2. f # "complete.json" => exported["complete.json"] = "absent"
    BY <2>1 DEF ExportInv
  <2>3. /\ exported' \in [Exported -> {"absent", "open", "whole"}] /\ exported'[f] = "whole"
        /\ \A g \in Exported : g # f => exported'[g] = exported[g]
    BY <2>1 DEF ExportInv
  <2>4. QED
    BY <2>1, <2>2, <2>3 DEF ExportInv
<1>3. CASE SyncExport
  <2>1. /\ exportState = "writing" /\ exporting \in {4, 6} /\ UNCHANGED <<exported, exportState>>
        /\ exportSynced' = {f \in Exported : exported[f] # "absent"} /\ exporting' = exporting + 1
    BY <1>3, WritingAt DEF SyncExport, Writing, ExportInv
  <2>2. /\ Contents \subseteq exportSynced' /\ exportSynced \subseteq exportSynced'
        /\ \A f \in Contents : exported[f] = "whole"
    BY <2>1 DEF ExportInv
  <2>3. exporting = 6 => exportSynced' = Exported
    BY <2>1 DEF ExportInv
  <2>4. QED
    BY <2>1, <2>2, <2>3 DEF ExportInv
<1>4. CASE Acknowledge
  <2>1. exporting = 8 /\ exportState = "writing" /\ exportState' = "returned" /\ UNCHANGED <<exported, exportSynced, exporting>>
    <3>1. exporting \in 1..8 /\ Len(ExportSteps) = 7 /\ exporting > Len(ExportSteps)
      BY <1>4, WritingAt DEF Acknowledge, ExportInv
    <3>2. QED
      BY <1>4, <3>1 DEF Acknowledge
  <2>2. QED
    BY <2>1 DEF ExportInv
<1>5. CASE FailExport
  BY <1>5 DEF FailExport, ExportInv
<1>6. CASE LosePower
  <2>1. PICK kept \in SUBSET Exported :
          /\ exportSynced \subseteq kept \/ (~ParentSynced /\ kept = {})
          /\ exported' = [f \in Exported |-> IF f \in kept THEN exported[f] ELSE "absent"]
          /\ exportSynced' = exportSynced \cap kept
    BY <1>6 DEF LosePower
  <2>2. exportState' = (IF exportState = "returned" THEN "returned" ELSE "failed") /\ UNCHANGED exporting
    BY <1>6 DEF LosePower
  <2>3. /\ \A f \in exportSynced' : exported'[f] = exported[f]
        /\ \A f \in Exported : exported'[f] # "absent" => exported'[f] = exported[f] /\ f \in kept
    BY <2>1 DEF ExportInv
  <2>4. exported' \in [Exported -> {"absent", "open", "whole"}]
    BY <2>1 DEF ExportInv
  <2>5. exportSynced' \subseteq Exported /\ (exportSynced \subseteq kept => exportSynced' = exportSynced)
    BY <2>1 DEF ExportInv
  <2>6. CASE exportSynced \subseteq kept
    BY <2>2, <2>3, <2>4, <2>5, <2>6 DEF ExportInv
  <2>7. CASE ~ParentSynced /\ kept = {}
    <3>1. exporting # 8
      BY <2>7, WritingAt DEF ExportInv
    <3>2. exportState' = "failed" /\ exportSynced' = {} /\ \A f \in Exported : exported'[f] = "absent"
      BY <2>1, <2>2, <2>7, <3>1 DEF ExportInv
    <3>3. QED
      BY <2>2, <2>4, <3>2 DEF ExportInv
  <2>8. QED
    BY <2>1, <2>6, <2>7
<1>7. CASE SyncParent
  <2>1. /\ exportState = "writing" /\ exporting = 7 /\ exporting' = 8
        /\ UNCHANGED <<exported, exportSynced, exportState>>
    BY <1>7, WritingAt DEF SyncParent, ExportInv
  <2>2. QED
    BY <2>1 DEF ExportInv
<1>8. CASE UNCHANGED exportVars
  BY <1>8 DEF exportVars, ExportInv
<1>9. QED
  BY <1>1, <1>2, <1>3, <1>4, <1>5, <1>6, <1>7, <1>8 DEF ExportNext

\* complete.json is never found without the files it names (writeExport).
LEMMA ExportsAreWhole == ExportInit /\ [][ExportNext]_exportVars => []CompleteExportIsWhole
<1>1. ExportInit => ExportInv
  BY DEF ExportInit, ExportInv, Exported, Contents
<1>2. ExportInv => CompleteExportIsWhole
  BY DEF ExportInv, CompleteExportIsWhole
<1>3. QED
  BY <1>1, <1>2, ExportKept, PTL

-----------------------------------------------------------------------------
(* One containment proof *)

Proofs == {"starting", "running", "cleaning", "querying", "deciding", "writing", "over", "killed"}
TodoNames == ((1..2) \X {"volume", "gateway", "worker"}) \cup {Sweep}
Record == [result : {"passed", "blocked"}, clean : BOOLEAN]

\* What is still to be created is named once, and was not remembered since the last sweep
\* that verified everything gone.
PlanIsNew ==
    /\ todo \in Seq(TodoNames)
    /\ \A m, n \in DOMAIN todo : m # n /\ todo[m] = todo[n] => todo[m] = Sweep
    /\ proof \in {"starting", "running"} =>
        \A n \in DOMAIN todo : todo[n] # Sweep => todo[n] \notin ids
    /\ proof = "cleaning" /\ todo # <<>> => Head(todo) = Sweep

\* Cleanup knows what the daemon has or may still make, and has yet to come to it.
CleanupKnows ==
    /\ proof = "starting" => ids = {}
    /\ proof \in {"starting", "running", "querying"} => late = {}
    /\ proof \in {"starting", "querying"} => standing = {}
    /\ standing \cap late = {}
    /\ proof \in {"running", "cleaning"} => standing \cup late \subseteq ids
    /\ proof = "cleaning" /\ ~uncertain => standing \cup late \subseteq unchecked

\* What is claimed is so; a verdict that passed was cleaned up; and until the run writes
\* its own verdict the file says it is blocked.
ClaimsAreTrue ==
    /\ verified \in BOOLEAN /\ result \in {"passed", "blocked"} /\ record \in Record
    /\ verified \/ record.clean => standing = {} /\ late = {}
    /\ verified => proof \notin {"starting", "running", "cleaning", "querying"}
    /\ proof \in {"deciding", "writing"} /\ result = "passed" => verified
    /\ proof \notin {"starting", "over", "killed"} => ~record.clean
    /\ record.result = "passed" => record.clean

ProofInv == proof \in Proofs /\ PlanIsNew /\ CleanupKnows /\ ClaimsAreTrue

\* A sequence is the one made of two when its parts are.
LEMMA ConcatIs ==
    ASSUME NEW S, NEW p \in Seq(S), NEW q \in Seq(S), NEW r \in Seq(S), Len(r) = Len(p) + Len(q),
           \A i \in 1..Len(p) : r[i] = p[i], \A i \in 1..Len(q) : r[Len(p) + i] = q[i]
    PROVE  p \o q = r
<1>1. /\ p \o q \in Seq(S) /\ Len(p \o q) = Len(r) /\ Len(p) \in Nat /\ Len(q) \in Nat
      /\ \A i \in 1 .. Len(r) : (p \o q)[i] = IF i <= Len(p) THEN p[i] ELSE q[i - Len(p)]
  BY ConcatProperties
<1>2. ASSUME NEW i \in 1 .. Len(r) PROVE (p \o q)[i] = r[i]
  <2>1. CASE i <= Len(p)
    BY <1>1, <2>1
  <2>2. CASE ~(i <= Len(p))
    <3>1. PICK k \in 1 .. Len(q) : i = Len(p) + k
      <4>1. i - Len(p) \in 1 .. Len(q) /\ i = Len(p) + (i - Len(p))
        BY <1>1, <2>2
      <4>2. QED
        BY <4>1
    <3>2. i - Len(p) = k
      BY <1>1, <3>1
    <3>3. QED
      BY <1>1, <2>2, <3>1, <3>2
  <2>3. QED
    BY <2>1, <2>2
<1>3. QED
  BY <1>1, <1>2, SeqEqual

\* The rest of a plan is as new as the plan.
LEMMA RestIsNew ==
    ASSUME PlanIsNew, todo # <<>>
    PROVE  /\ Head(todo) = todo[1] /\ 1 \in DOMAIN todo /\ Tail(todo) \in Seq(TodoNames)
           /\ \A n \in DOMAIN Tail(todo) : /\ n + 1 \in DOMAIN todo /\ n + 1 # 1
                                           /\ Tail(todo)[n] = todo[n + 1]
           /\ \A m, n \in DOMAIN Tail(todo) :
                 m # n /\ Tail(todo)[m] = Tail(todo)[n] => Tail(todo)[m] = Sweep
<1> HIDE DEF TodoNames
<1>1. /\ todo \in Seq(TodoNames) /\ Len(todo) \in Nat /\ Len(todo) > 0 /\ DOMAIN todo = 1 .. Len(todo)
  BY DEF PlanIsNew
<1>2. /\ Tail(todo) \in Seq(TodoNames) /\ Len(Tail(todo)) = Len(todo) - 1 /\ Head(todo) = todo[1]
      /\ \A n \in 1 .. Len(Tail(todo)) : Tail(todo)[n] = todo[n + 1]
      /\ DOMAIN Tail(todo) = 1 .. Len(Tail(todo))
  BY <1>1
<1>3. \A n \in DOMAIN Tail(todo) : n + 1 \in DOMAIN todo /\ n + 1 # 1 /\ n \in Nat
  BY <1>1, <1>2
<1>4. ASSUME NEW m \in DOMAIN Tail(todo), NEW n \in DOMAIN Tail(todo), m # n, Tail(todo)[m] = Tail(todo)[n]
      PROVE  Tail(todo)[m] = Sweep
  <2>1. m + 1 \in DOMAIN todo /\ n + 1 \in DOMAIN todo /\ m + 1 # n + 1
    BY <1>3, <1>4
  <2>2. todo[m + 1] = todo[n + 1]
    BY <1>2, <1>4
  <2>3. QED
    BY <1>2, <2>1, <2>2 DEF PlanIsNew
<1>5. QED
  BY <1>1, <1>2, <1>3, <1>4

\* A creation is known before it is asked for.
LEMMA CreationIsKnown ==
    ASSUME ProofInv, NEW answer \in {"created", "failed", "unanswered"}, CreateResource(answer)
    PROVE  ProofInv'
<1>1. /\ proof = "running" /\ todo # <<>> /\ Head(todo) # Sweep /\ ids' = ids \cup {Head(todo)}
      /\ standing' = (IF answer = "created" THEN standing \cup {Head(todo)} ELSE standing)
      /\ late' = (IF answer = "unanswered" THEN late \cup {Head(todo)} ELSE late)
      /\ proof' = (IF answer = "created" THEN "running" ELSE "cleaning")
      /\ todo' = (IF answer = "created" THEN Tail(todo) ELSE <<>>)
      /\ unchecked' = (IF answer = "created" THEN {} ELSE ids')
      /\ UNCHANGED <<uncertain, result, verified, record>>
  BY DEF CreateResource, Remember
<1>2. Head(todo) \notin ids /\ late = {} /\ standing \subseteq ids /\ ~verified /\ ~record.clean
  BY <1>1, RestIsNew DEF ProofInv, PlanIsNew, CleanupKnows, ClaimsAreTrue
<1>3. PlanIsNew'
  <2>1. CASE answer = "created"
    <3>1. \A n \in DOMAIN Tail(todo) : Tail(todo)[n] # Sweep => Tail(todo)[n] \notin ids \cup {Head(todo)}
      BY <1>1, RestIsNew DEF ProofInv, PlanIsNew
    <3>2. todo' = Tail(todo) /\ proof' = "running"
      BY <1>1, <2>1
    <3>3. QED
      BY <1>1, <3>1, <3>2, RestIsNew DEF ProofInv, PlanIsNew
  <2>2. CASE answer # "created"
    BY <1>1, <2>2 DEF PlanIsNew
  <2>3. QED
    BY <2>1, <2>2
<1>4. CleanupKnows'
  BY <1>1, <1>2 DEF CleanupKnows
<1>5. ClaimsAreTrue'
  BY <1>1, <1>2 DEF ProofInv, ClaimsAreTrue
<1>6. QED
  BY <1>1, <1>3, <1>4, <1>5 DEF ProofInv, Proofs

\* What is cleaned up one by one, and what a cleanup ends with.
LEMMA CleanupIsKept ==
    ASSUME ProofInv, Swept \/ Cleaned \/ \E name \in Resources : CleanupOwned(name)
    PROVE  ProofInv'
<1>1. proof = "cleaning" /\ UNCHANGED <<late, verified, record>> /\ ~verified /\ ~record.clean
  BY DEF Swept, Cleaned, CleanupOwned, ProofInv, ClaimsAreTrue
<1>2. ASSUME NEW name \in Resources, CleanupOwned(name) PROVE ProofInv'
  <2>1. /\ unchecked' = unchecked \ {name} /\ UNCHANGED <<proof, todo, ids, result>>
        /\ \/ name \in standing /\ standing' = standing \ {name} /\ uncertain' = uncertain
           \/ uncertain' = TRUE /\ standing' = standing
    BY <1>2 DEF CleanupOwned, Removes, CannotRemove
  <2>2. QED
    BY <1>1, <2>1 DEF ProofInv, PlanIsNew, CleanupKnows, ClaimsAreTrue
<1>3. CASE Swept
  <2>1. /\ unchecked = {} /\ todo # <<>> /\ uncertain' = FALSE /\ UNCHANGED <<standing, result>>
        /\ \/ uncertain /\ proof' = "cleaning" /\ todo' = <<>> /\ unchecked' = ids /\ ids' = ids
           \/ ~uncertain /\ proof' = "running" /\ todo' = Tail(todo) /\ ids' = {} /\ unchecked' = unchecked
    BY <1>3 DEF Swept
  <2>2. PlanIsNew'
    <3>1. CASE uncertain
      BY <2>1, <3>1 DEF PlanIsNew
    <3>2. CASE ~uncertain
      <4>1. todo' = Tail(todo) /\ proof' = "running" /\ ids' = {}
        BY <2>1, <3>2
      <4>2. PlanIsNew
        BY DEF ProofInv
      <4>3. /\ todo' \in Seq(TodoNames)
            /\ \A m, n \in DOMAIN todo' : m # n /\ todo'[m] = todo'[n] => todo'[m] = Sweep
        BY <2>1, <4>1, <4>2, RestIsNew
      <4>4. QED
        BY <4>1, <4>3 DEF PlanIsNew
    <3>3. QED
      BY <3>1, <3>2
  <2>3. CleanupKnows'
    BY <1>1, <2>1 DEF ProofInv, CleanupKnows
  <2>4. ClaimsAreTrue'
    BY <1>1, <2>1 DEF ProofInv, ClaimsAreTrue
  <2>5. QED
    BY <2>1, <2>2, <2>3, <2>4 DEF ProofInv, Proofs
<1>4. CASE Cleaned
  <2>1. /\ unchecked = {} /\ todo = <<>> /\ UNCHANGED <<todo, ids, unchecked, uncertain, standing>>
        /\ \/ uncertain /\ proof' = "deciding" /\ result' = "blocked"
           \/ ~uncertain /\ proof' = "querying" /\ result' = result
    BY <1>4 DEF Cleaned
  <2>2. QED
    BY <1>1, <2>1 DEF ProofInv, PlanIsNew, CleanupKnows, ClaimsAreTrue, Proofs
<1>5. QED
  BY <1>2, <1>3, <1>4

\* Every step keeps the invariant.
LEMMA ProofKept == ProofInv /\ [ProofNext]_proofVars => ProofInv'
<1> SUFFICES ASSUME ProofInv, [ProofNext]_proofVars PROVE ProofInv'
  OBVIOUS
<1>1. CASE Mark
  <2>1. /\ proof = "starting" /\ proof' = "running" /\ record' = [result |-> "blocked", clean |-> FALSE]
        /\ UNCHANGED <<todo, ids, unchecked, uncertain, standing, late, result, verified>>
    BY <1>1 DEF Mark
  <2>2. record' \in Record /\ record'.result = "blocked" /\ ~record'.clean
    BY <2>1 DEF Record
  <2>3. QED
    BY <2>1, <2>2 DEF ProofInv, PlanIsNew, CleanupKnows, ClaimsAreTrue, Proofs
<1>2. CASE SweepMode \/ GiveUpProof \/ Conclude
  <2>1. /\ proof = "running" /\ proof' = "cleaning" /\ unchecked' = ids
        /\ todo' = <<>> \/ (todo' = todo /\ (todo = <<>> \/ Head(todo) = Sweep))
        /\ UNCHANGED <<ids, uncertain, standing, late, verified, record>> /\ result' \in {"passed", result}
    BY <1>2 DEF SweepMode, GiveUpProof, Conclude
  <2>2. PlanIsNew'
    <3>1. CASE todo' = <<>>
      BY <2>1, <3>1 DEF PlanIsNew
    <3>2. CASE todo' # <<>>
      <4>1. todo' = todo /\ Head(todo) = Sweep /\ proof' = "cleaning"
        BY <2>1, <3>2
      <4>2. QED
        BY <4>1 DEF ProofInv, PlanIsNew
    <3>3. QED
      BY <3>1, <3>2
  <2>3. QED
    BY <2>1, <2>2 DEF ProofInv, CleanupKnows, ClaimsAreTrue, Proofs
<1>3. CASE Query
  <2>1. /\ proof = "querying" /\ proof' = "deciding" /\ verified' = (standing = {})
        /\ result' = (IF standing = {} THEN result ELSE "blocked")
        /\ UNCHANGED <<todo, ids, unchecked, uncertain, standing, late, record>>
    BY <1>3 DEF Query
  <2>2. QED
    BY <2>1 DEF ProofInv, PlanIsNew, CleanupKnows, ClaimsAreTrue, Proofs
<1>4. CASE Decide
  <2>1. /\ proof = "deciding" /\ proof' = "writing" /\ result' \in {result, "blocked"}
        /\ UNCHANGED <<todo, ids, unchecked, uncertain, standing, late, verified, record>>
    BY <1>4 DEF Decide
  <2>2. QED
    BY <2>1 DEF ProofInv, PlanIsNew, CleanupKnows, ClaimsAreTrue, Proofs
<1>5. CASE WriteRecord
  <2>1. /\ proof = "writing" /\ proof' = "over" /\ record' = [result |-> result, clean |-> verified]
        /\ UNCHANGED <<todo, ids, unchecked, uncertain, standing, late, verified, result>>
    BY <1>5 DEF WriteRecord
  <2>2. record' \in Record /\ record'.result = result /\ record'.clean = verified
    BY <2>1 DEF ProofInv, ClaimsAreTrue, Record
  <2>3. QED
    BY <2>1, <2>2 DEF ProofInv, PlanIsNew, CleanupKnows, ClaimsAreTrue, Proofs
<1>6. CASE Interrupt \/ KillProof \/ UNCHANGED proofVars
  <2>1. /\ proof' \in {proof, "killed"}
        /\ UNCHANGED <<todo, ids, unchecked, uncertain, standing, late, verified, result, record>>
    BY <1>6 DEF Interrupt, KillProof, proofVars
  <2>2. QED
    BY <2>1 DEF ProofInv, PlanIsNew, CleanupKnows, ClaimsAreTrue, Proofs
<1>7. ASSUME NEW name \in Resources, Land(name) PROVE ProofInv'
  <2>1. /\ name \in late /\ late' = late \ {name} /\ standing' \in {standing, standing \cup {name}}
        /\ UNCHANGED <<proof, todo, ids, unchecked, uncertain, verified, result, record>>
    BY <1>7 DEF Land
  <2>2. QED
    BY <2>1 DEF ProofInv, PlanIsNew, CleanupKnows, ClaimsAreTrue, Proofs
<1>8. QED
  BY <1>1, <1>2, <1>3, <1>4, <1>5, <1>6, <1>7, CreationIsKnown, CleanupIsKept DEF ProofNext

\* A file that says its run was cleaned up is right (cleanupOwned, the name remembered first).
LEMMA CleanupsAreTrue == ProofInit /\ [][ProofNext]_proofVars => []RecordedCleanupIsTrue
<1>1. ProofInit => ProofInv
  <2> SUFFICES ASSUME ProofInit PROVE ProofInv
    OBVIOUS
  <2>1. PlanIsNew
    <3>1. /\ todo = Plan(perMode) /\ ids = {} /\ proof = "starting"
      BY DEF ProofInit
    <3>2. CASE perMode
      <4>1. todo = <<<<1, "volume">>, <<1, "gateway">>, <<1, "worker">>, Sweep,
                     <<2, "volume">>, <<2, "gateway">>, <<2, "worker">>, Sweep>>
        <5>1. \A a, b, c, d, e, f, s : <<a, b, c>> \o (<<s>> \o <<d, e, f>> \o <<s>>) = <<a, b, c, s, d, e, f, s>>
          <6> SUFFICES ASSUME NEW a, NEW b, NEW c, NEW d, NEW e, NEW f, NEW s
                       PROVE  <<a, b, c>> \o (<<s>> \o <<d, e, f>> \o <<s>>) = <<a, b, c, s, d, e, f, s>>
            OBVIOUS
          <6> DEFINE T == {a, b, c, d, e, f, s}
          <6>1. <<s>> \o <<d, e, f>> = <<s, d, e, f>>
            <7> DEFINE p == <<s>>
                       q == <<d, e, f>>
                       r == <<s, d, e, f>>
            <7>1. p \in Seq(T) /\ q \in Seq(T) /\ r \in Seq(T) /\ Len(p) = 1 /\ Len(q) = 3 /\ Len(r) = 4
              OBVIOUS
            <7>2. \A i \in 1..1 : r[i] = p[i]
              <8>1. \A i \in 1..1 : i \in {1}
                OBVIOUS
              <8>2. QED
                BY <8>1
            <7>3. \A i \in 1..3 : r[1 + i] = q[i]
              <8>1. \A i \in 1..3 : i \in {1, 2, 3}
                OBVIOUS
              <8>2. QED
                BY <8>1
            <7>4. p \o q = r
              <8> HIDE DEF T, p, q, r
              <8>1. Len(r) = Len(p) + Len(q)
                BY <7>1
              <8>2. \A i \in 1..Len(p) : r[i] = p[i]
                BY <7>1, <7>2
              <8>3. \A i \in 1..Len(q) : r[Len(p) + i] = q[i]
                BY <7>1, <7>3
              <8>4. p \in Seq(T) /\ q \in Seq(T) /\ r \in Seq(T)
                BY <7>1
              <8>5. QED
                BY <8>1, <8>2, <8>3, <8>4, ConcatIs, Zenon
            <7>5. QED
              BY <7>4
          <6>2. <<s, d, e, f>> \o <<s>> = <<s, d, e, f, s>>
            <7> DEFINE p == <<s, d, e, f>>
                       q == <<s>>
                       r == <<s, d, e, f, s>>
            <7>1. p \in Seq(T) /\ q \in Seq(T) /\ r \in Seq(T) /\ Len(p) = 4 /\ Len(q) = 1 /\ Len(r) = 5
              OBVIOUS
            <7>2. \A i \in 1..4 : r[i] = p[i]
              <8>1. \A i \in 1..4 : i \in {1, 2, 3, 4}
                OBVIOUS
              <8>2. QED
                BY <8>1
            <7>3. \A i \in 1..1 : r[4 + i] = q[i]
              <8>1. \A i \in 1..1 : i \in {1}
                OBVIOUS
              <8>2. QED
                BY <8>1
            <7>4. p \o q = r
              <8> HIDE DEF T, p, q, r
              <8>1. Len(r) = Len(p) + Len(q)
                BY <7>1
              <8>2. \A i \in 1..Len(p) : r[i] = p[i]
                BY <7>1, <7>2
              <8>3. \A i \in 1..Len(q) : r[Len(p) + i] = q[i]
                BY <7>1, <7>3
              <8>4. p \in Seq(T) /\ q \in Seq(T) /\ r \in Seq(T)
                BY <7>1
              <8>5. QED
                BY <8>1, <8>2, <8>3, <8>4, ConcatIs, Zenon
            <7>5. QED
              BY <7>4
          <6>3. <<a, b, c>> \o <<s, d, e, f, s>> = <<a, b, c, s, d, e, f, s>>
            <7> DEFINE p == <<a, b, c>>
                       q == <<s, d, e, f, s>>
                       r == <<a, b, c, s, d, e, f, s>>
            <7>1. p \in Seq(T) /\ q \in Seq(T) /\ r \in Seq(T) /\ Len(p) = 3 /\ Len(q) = 5 /\ Len(r) = 8
              OBVIOUS
            <7>2. \A i \in 1..3 : r[i] = p[i]
              <8>1. \A i \in 1..3 : i \in {1, 2, 3}
                OBVIOUS
              <8>2. QED
                BY <8>1
            <7>3. \A i \in 1..5 : r[3 + i] = q[i]
              <8>1. \A i \in 1..5 : i \in {1, 2, 3, 4, 5}
                OBVIOUS
              <8>2. QED
                BY <8>1
            <7>4. p \o q = r
              <8> HIDE DEF T, p, q, r
              <8>1. Len(r) = Len(p) + Len(q)
                BY <7>1
              <8>2. \A i \in 1..Len(p) : r[i] = p[i]
                BY <7>1, <7>2
              <8>3. \A i \in 1..Len(q) : r[Len(p) + i] = q[i]
                BY <7>1, <7>3
              <8>4. p \in Seq(T) /\ q \in Seq(T) /\ r \in Seq(T)
                BY <7>1
              <8>5. QED
                BY <8>1, <8>2, <8>3, <8>4, ConcatIs, Zenon
            <7>5. QED
              BY <7>4
          <6>4. QED
            BY <6>1, <6>2, <6>3
        <5>2. QED
          BY <3>1, <3>2, <5>1 DEF Plan, Round
      <4>2. QED
        BY <3>1, <4>1 DEF PlanIsNew, TodoNames, Sweep
    <3>3. CASE ~perMode
      <4>1. todo = <<<<1, "volume">>, <<1, "gateway">>, <<1, "worker">>>>
        BY <3>1, <3>3 DEF Plan, Round
      <4>2. QED
        BY <3>1, <4>1 DEF PlanIsNew, TodoNames, Sweep
    <3>4. QED
      BY <3>2, <3>3 DEF ProofInit
  <2>2. CleanupKnows /\ ClaimsAreTrue /\ proof \in Proofs
    <3>1. record \in Record /\ (record.result = "passed" => record.clean)
      <4>1. CASE record = [result |-> "passed", clean |-> TRUE]
        BY <4>1 DEF Record
      <4>2. CASE record = [result |-> "blocked", clean |-> FALSE]
        BY <4>2 DEF Record
      <4>3. QED
        BY <4>1, <4>2 DEF ProofInit
    <3>2. QED
      BY <3>1 DEF ProofInit, CleanupKnows, ClaimsAreTrue, Proofs
  <2>3. QED
    BY <2>1, <2>2 DEF ProofInv
<1>2. ProofInv => RecordedCleanupIsTrue
  BY DEF ProofInv, ClaimsAreTrue, RecordedCleanupIsTrue
<1>3. QED
  BY <1>1, <1>2, ProofKept, PTL

-----------------------------------------------------------------------------
(* One check *)

DaemonStates == {"none", "late", "created", "running", "gone"} \cup ExitCodes
CheckTypeOK ==
    /\ checking \in {"admitting", "probe", "measured", "check", "leaving", "observing", "returned", "threw"}
    /\ phase \in {"idle", "create", "start", "state", "remove", "ended"}
    /\ id \in BOOLEAN /\ reason \in BOOLEAN /\ expired \in BOOLEAN /\ cleanup \in BOOLEAN
    /\ exitCode \in ExitCodes \cup {Unset} /\ status \in Statuses
    /\ daemon \in [Containers -> DaemonStates]

\* The check's container comes after the probe's is gone, and nothing is said before it ended.
InTurn ==
    /\ checking \in {"admitting", "probe", "measured", "check"} => status = "not-run"
    /\ checking \in {"admitting", "probe", "measured"} => daemon["check"] = "none"
    /\ checking = "admitting" => daemon["probe"] = "none"
    /\ checking \in {"measured", "check"} => daemon["probe"] = "gone"
    /\ checking \in {"admitting", "measured"} => cleanup

\* What the caller of runContainer knows of its container, phase by phase.
ContainerKnown ==
    checking \in Containers =>
        /\ phase = "create" => daemon[checking] = "none" /\ ~id /\ exitCode = Unset
        /\ phase = "start" => daemon[checking] = "created" /\ id /\ exitCode = Unset
        /\ phase = "state" => daemon[checking] \in {"running"} \cup ExitCodes /\ id /\ exitCode = Unset
        /\ phase = "remove" =>
            /\ id => daemon[checking] \in {"created", "running"} \cup ExitCodes
            /\ ~reason => id /\ exitCode # Unset
        /\ phase = "ended" =>
            /\ cleanup => daemon[checking] \in {"none", "gone"}
            /\ ~reason => cleanup /\ daemon[checking] = "gone"

\* From the check's end on what it says is true.
ToldTruly ==
    checking \in {"leaving", "observing", "returned"} =>
        /\ cleanup => \A c \in Containers : daemon[c] \in {"none", "gone"}
        /\ status \in {"passed", "failed"} => cleanup /\ daemon["check"] = "gone"
        /\ status = "not-run" => daemon["check"] = "none"

CheckInv == CheckTypeOK /\ InTurn /\ ContainerKnown /\ ToldTruly

\* Every step keeps it.
LEMMA CheckKept == CheckInv /\ [CheckNext]_checkVars => CheckInv'
<1> SUFFICES ASSUME CheckInv, [CheckNext]_checkVars PROVE CheckInv'
  OBVIOUS
<1> USE CheckAssumption DEF CheckInv, CheckTypeOK, InTurn, ContainerKnown, ToldTruly, Containers,
        ExitCodes, DaemonStates, Statuses
<1>1. CASE Refuse
  BY <1>1 DEF Refuse
<1>2. ASSUME NEW c \in Containers, Begin(c) PROVE CheckInv'
  BY <1>2 DEF Begin
<1>3. CASE CreateContainer
  <2>1. /\ checking \in Containers /\ phase = "create" /\ daemon[checking] = "none" /\ ~id
        /\ exitCode = Unset /\ UNCHANGED <<checking, exitCode, expired, status, cleanup>>
    BY <1>3 DEF CreateContainer, InContainer
  <2>2. CASE id' = TRUE /\ Daemon("created") /\ phase' = "start" /\ UNCHANGED reason
    BY <2>1, <2>2 DEF Daemon
  <2>3. CASE reason' = TRUE /\ phase' = "remove" /\ UNCHANGED <<id, daemon>>
    BY <2>1, <2>3
  <2>4. CASE reason' = TRUE /\ phase' = "remove" /\ Daemon("late") /\ UNCHANGED id
    BY <2>1, <2>4 DEF Daemon
  <2>5. QED
    BY <1>3, <2>2, <2>3, <2>4 DEF CreateContainer
<1>4. CASE StartContainer
  BY <1>4 DEF StartContainer, InContainer, Daemon
<1>5. CASE ReadState
  BY <1>5 DEF ReadState, InContainer
<1>6. ASSUME NEW removed \in BOOLEAN, RemoveContainer(removed) PROVE CheckInv'
  BY <1>6 DEF RemoveContainer, InContainer, Daemon, CleanupEstablished
<1>7. ASSUME NEW retained \in BOOLEAN, Measured(retained) PROVE CheckInv'
  BY <1>7 DEF Measured
<1>8. CASE Unstaged
  BY <1>8 DEF Unstaged
<1>9. CASE Checked
  BY <1>9 DEF Checked, StatusOf
<1>10. ASSUME NEW removed \in BOOLEAN, RemoveStaging(removed) PROVE CheckInv'
  BY <1>10 DEF RemoveStaging
<1>11. ASSUME NEW retained \in BOOLEAN, RetainObservation(retained) PROVE CheckInv'
  BY <1>11 DEF RetainObservation
<1>12. CASE Expire
  BY <1>12 DEF Expire
<1>13. ASSUME NEW c \in Containers, DaemonActs(c) PROVE CheckInv'
  <2>1. /\ UNCHANGED <<checking, phase, id, reason, exitCode, expired, status, cleanup>>
        /\ daemon' \in [Containers -> DaemonStates]
        /\ \A d \in Containers : d # c => daemon'[d] = daemon[d]
        /\ \/ daemon[c] = "late" /\ daemon'[c] \in {"none", "created"}
           \/ daemon[c] = "running" /\ daemon'[c] \in ExitCodes
    BY <1>13 DEF DaemonActs
  <2>2. QED
    BY <2>1
<1>14. CASE UNCHANGED checkVars
  BY <1>14 DEF checkVars
<1>15. QED
  BY <1>1, <1>2, <1>3, <1>4, <1>5, <1>6, <1>7, <1>8, <1>9, <1>10, <1>11, <1>12, <1>13, <1>14 DEF CheckNext

\* The observation a check returns is true and stays true (checks/index.ts, container.ts).
LEMMA ChecksAreTrue == CheckInit /\ [][CheckNext]_checkVars => []CheckTellsTheTruth
<1>1. CheckInit => CheckInv
  BY CheckAssumption DEF CheckInit, CheckInv, CheckTypeOK, InTurn, ContainerKnown, ToldTruly,
     Containers, ExitCodes, DaemonStates, Statuses
<1>2. CheckInv => CheckTellsTheTruth
  BY DEF CheckInv, ToldTruly, CheckTellsTheTruth
<1>3. QED
  BY <1>1, <1>2, CheckKept, PTL

-----------------------------------------------------------------------------
(* One run of a case *)

RecordNames ==
    {"registration", "packet", "invocation", "observation", "candidate", "checks", "routerEvidence",
     "verificationInput", "transcript", "acknowledgement", "dataset", "export"}
BaselineTypeOK ==
    /\ caseStage \in {Stages[i] : i \in 1..11} \cup {"catch", "finally", "saving", "saved", "resaving", "over"}
    /\ entered \in BOOLEAN /\ signal \in BOOLEAN /\ storage \in BOOLEAN
    /\ repository \in {"none", "there", "destroyed"}
    /\ report \in [result : {"passed", "failed"}, error : BOOLEAN, terminal : BOOLEAN,
                   cleanup : BOOLEAN, destroyed : BOOLEAN, refs : SUBSET RecordNames]
    /\ outcome \in {"none", "passed", "failed", "threw"}

\* A stage is entered when those before it ended: their records are referred to, and no
\* creation is left unanswered.
StagesAreDone ==
    \A i \in 1..11 : caseStage = Stages[i] =>
        /\ \A k \in 1..(i - 1) : Records(Stages[k]) \subseteq report.refs
        /\ unanswered = {} /\ repository # "destroyed" /\ report.result = "failed" /\ ~report.error
        /\ i > 9 => running = {}

\* The repository goes last; a passed report is of a run that got there, and reports keep
\* to the order of the finally block.
ReportsFollow ==
    /\ repository = "destroyed" =>
        /\ Required("replay") \subseteq report.refs
        /\ running = {} /\ unanswered = {}
    /\ report.result = "passed" =>
        /\ repository = "destroyed" /\ report.destroyed /\ ~report.error
        /\ report.terminal => report.cleanup
    /\ caseStage \in {"saving", "saved", "resaving"} => report.terminal
    /\ caseStage \notin {"saving", "saved", "resaving", "over"} => ~report.terminal
    /\ caseStage \in {"catch", "resaving"} => report.result = "failed"

\* What is saved: passed journals are of a destroyed repository, terminal ones come last.
JournalsFollow ==
    /\ \A j \in journals : j.result = "passed" => repository = "destroyed" /\ j.terminal
    /\ caseStage \notin {"saved", "resaving", "over"} => \A j \in journals : ~j.terminal
    /\ caseStage = "saved" => report \in journals /\ \A j \in journals : j.terminal => j = report
    /\ caseStage # "over" => outcome = "none"
    /\ outcome # "none" /\ storage => (Replayable <=> outcome = "passed")

BaselineInv == BaselineTypeOK /\ StagesAreDone /\ ReportsFollow /\ JournalsFollow

\* The order of the stages.
LEMMA StagesInOrder ==
    /\ Len(Stages) = 11 /\ DOMAIN Stages = 1..11
    /\ \A i, j \in 1..11 : Stages[i] = Stages[j] => i = j
    /\ \A i \in 1..11 : Stages[i] \notin {"catch", "finally", "saving", "saved", "resaving", "over"}
    /\ \A i \in 1..11 : After(Stages[i]) = IF i = 11 THEN "finally" ELSE Stages[i + 1]
<1>1. Len(Stages) = 11 /\ DOMAIN Stages = 1..11
  BY DEF Stages
<1>2. \A i, j \in 1..11 : Stages[i] = Stages[j] => i = j
  <2> SUFFICES ASSUME NEW i \in 1..11, NEW j \in 1..11, Stages[i] = Stages[j] PROVE i = j
    OBVIOUS
  <2>1. /\ i \in {1, 2, 3, 4, 5, 6, 7, 8, 9, 10, 11} /\ j \in {1, 2, 3, 4, 5, 6, 7, 8, 9, 10, 11}
    OBVIOUS
  <2>2. QED
    BY <2>1 DEF Stages
<1>3. \A i \in 1..11 : Stages[i] \notin {"catch", "finally", "saving", "saved", "resaving", "over"}
  <2> SUFFICES ASSUME NEW i \in 1..11
               PROVE  Stages[i] \notin {"catch", "finally", "saving", "saved", "resaving", "over"}
    OBVIOUS
  <2>1. i \in {1, 2, 3, 4, 5, 6, 7, 8, 9, 10, 11}
    OBVIOUS
  <2>2. QED
    BY <2>1 DEF Stages
<1>4. ASSUME NEW i \in 1..11 PROVE After(Stages[i]) = IF i = 11 THEN "finally" ELSE Stages[i + 1]
  <2>1. (CHOOSE j \in DOMAIN Stages : Stages[j] = Stages[i]) = i
    BY <1>1, <1>2
  <2>2. QED
    BY <1>1, <2>1 DEF After
<1>5. QED
  BY <1>1, <1>2, <1>3, <1>4

\* Being in a stage is having one of the eleven; its successor and the ones after it.
LEMMA StageOf ==
    ASSUME BaselineTypeOK, InStage
    PROVE  \E i \in 1..11 : caseStage = Stages[i]
BY StagesInOrder DEF InStage

\* A stage that creates, saves, or has records a replay needs.
LEMMA StagesDiffer ==
    /\ \A i \in 10..11 : Creates(Stages[i]) = {}
    /\ Stages[11] = "remove" /\ Stages[9] = "stop" /\ Stages[1] = "gateway"
    /\ \A i \in 1..11 : (Stages[i] = "stop" => i = 9) /\ (Stages[i] = "remove" => i = 11)
                        /\ (Stages[i] = "gateway" => i = 1)
    /\ \A s : Records(s) \subseteq RecordNames
<1>1. /\ Stages[11] = "remove" /\ Stages[9] = "stop" /\ Stages[1] = "gateway" /\ Stages[10] = "export"
  BY DEF Stages
<1>2. \A i \in 1..11 : (Stages[i] = "stop" => i = 9) /\ (Stages[i] = "remove" => i = 11)
                       /\ (Stages[i] = "gateway" => i = 1)
  BY <1>1, StagesInOrder
<1>3. \A i \in 10..11 : Creates(Stages[i]) = {}
  <2>1. \A i \in 10..11 : i \in {10, 11}
    OBVIOUS
  <2>2. Creates("export") = {} /\ Creates("remove") = {}
    BY DEF Creates
  <2>3. QED
    BY <1>1, <2>1, <2>2
<1>4. ASSUME NEW s PROVE Records(s) \subseteq RecordNames
  <2>1. CASE s \in {"scope", "worker", "observe", "candidate", "evidence", "acknowledge", "export"}
    <3>1. /\ Records("scope") = {"registration", "packet"} /\ Records("worker") = {"invocation"}
          /\ Records("observe") = {"observation", "candidate"} /\ Records("candidate") = {"checks"}
          /\ Records("evidence") = {"routerEvidence", "verificationInput", "transcript"}
          /\ Records("acknowledge") = {"acknowledgement"} /\ Records("export") = {"dataset", "export"}
      BY DEF Records
    <3>2. QED
      BY <2>1, <3>1 DEF RecordNames
  <2>2. CASE s \notin {"scope", "worker", "observe", "candidate", "evidence", "acknowledge", "export"}
    <3>1. Records(s) = {}
      BY <2>2 DEF Records
    <3>2. QED
      BY <3>1
  <2>3. QED
    BY <2>1, <2>2
<1>5. QED
  BY <1>1, <1>2, <1>3, <1>4

\* A replay needs nothing but the records of the stages before the removal.
LEMMA ReplayNeeds ==
    ASSUME NEW kept, \A k \in 1..10 : Records(Stages[k]) \subseteq kept
    PROVE  Required("replay") \subseteq kept
<1>1. /\ Stages[2] = "scope" /\ Stages[4] = "worker" /\ Stages[5] = "observe" /\ Stages[6] = "candidate"
      /\ Stages[7] = "evidence" /\ Stages[8] = "acknowledge" /\ Stages[10] = "export"
  BY DEF Stages
<1>2. /\ Records("scope") \subseteq kept /\ Records("worker") \subseteq kept /\ Records("observe") \subseteq kept
      /\ Records("candidate") \subseteq kept /\ Records("evidence") \subseteq kept
      /\ Records("acknowledge") \subseteq kept /\ Records("export") \subseteq kept
  <2>1. {2, 4, 5, 6, 7, 8, 10} \subseteq 1..10
    OBVIOUS
  <2>2. QED
    BY <1>1, <2>1
<1>3. ASSUME NEW x \in Required("replay") PROVE x \in kept
  <2>1. \/ x \in UNION {Records(s) : s \in {"scope", "worker", "observe", "candidate", "evidence"}}
        \/ x \in Records("acknowledge") \/ x \in Records("export")
    <3> DEFINE U == (UNION {Records(s) : s \in {"scope", "worker", "observe", "candidate", "evidence"}})
    <3>1. Required("replay") = U \cup (IF "replay" = "before-ack" THEN {} ELSE Records("acknowledge"))
                                 \cup (IF "replay" = "replay" THEN Records("export") ELSE {})
      BY DEF Required
    <3> HIDE DEF U
    <3>2. x \in U \/ x \in Records("acknowledge") \/ x \in Records("export")
      BY <1>3, <3>1
    <3>3. QED
      BY <3>2 DEF U
  <2>2. CASE x \in UNION {Records(s) : s \in {"scope", "worker", "observe", "candidate", "evidence"}}
    <3>1. PICK r \in {"scope", "worker", "observe", "candidate", "evidence"} : x \in Records(r)
      BY <2>2
    <3>2. QED
      BY <1>2, <3>1
  <2>3. QED
    BY <1>2, <2>1, <2>2
<1>4. QED
  BY <1>3

\* The report a stage leaves.
LEMMA RetainedIs ==
    ASSUME BaselineTypeOK, NEW i \in 1..11, caseStage = Stages[i]
    PROVE  /\ Retained \in [result : {"passed", "failed"}, error : BOOLEAN, terminal : BOOLEAN,
                            cleanup : BOOLEAN, destroyed : BOOLEAN, refs : SUBSET RecordNames]
           /\ Retained.refs = report.refs \cup Records(Stages[i]) /\ Retained.result = report.result
           /\ Retained.error = report.error /\ Retained.terminal = report.terminal
BY StagesDiffer DEF Retained, BaselineTypeOK

\* A stage that fails: what is saved of it is no end of the run.
LEMMA FailKept == BaselineInv /\ FailStage => BaselineInv'
<1> SUFFICES ASSUME BaselineInv, FailStage PROVE BaselineInv'
  OBVIOUS
<1>1. PICK i \in 1..11 : caseStage = Stages[i]
  BY StageOf DEF BaselineInv, FailStage
<1>2. /\ caseStage' = "catch" /\ entered' = FALSE /\ UNCHANGED <<signal, outcome, storage>>
      /\ report' = report \/ report' = Retained
      /\ journals' = journals \/ journals' = journals \cup {report'}
  BY DEF FailStage
<1>3. /\ BaselineTypeOK /\ unanswered = {} /\ repository # "destroyed" /\ report.result = "failed"
      /\ ~report.terminal
  BY <1>1, StagesInOrder DEF BaselineInv, StagesAreDone, JournalsFollow, ReportsFollow
<1>4. /\ report' \in [result : {"passed", "failed"}, error : BOOLEAN, terminal : BOOLEAN,
                      cleanup : BOOLEAN, destroyed : BOOLEAN, refs : SUBSET RecordNames]
      /\ report.refs \subseteq report'.refs /\ report'.result = "failed" /\ ~report'.terminal
  BY <1>1, <1>2, <1>3, RetainedIs DEF BaselineTypeOK
<1>5. repository' = "destroyed" => running' = {} /\ unanswered' = {} /\ Required("replay") \subseteq report'.refs
  <2> SUFFICES ASSUME repository' = "destroyed"
               PROVE  running' = {} /\ unanswered' = {} /\ Required("replay") \subseteq report'.refs
    OBVIOUS
  <2>1. entered /\ caseStage = "remove"
    BY <1>3 DEF FailStage
  <2>2. i = 11
    BY <1>1, <2>1, StagesDiffer
  <2>3. running = {} /\ Required("replay") \subseteq report.refs
    BY <1>1, <2>2, ReplayNeeds DEF BaselineInv, StagesAreDone
  <2>4. Creates(caseStage) = {}
    BY <1>1, <2>2, StagesDiffer
  <2>5. running' = {} /\ unanswered' = {}
    BY <2>1, <2>3, <2>4 DEF FailStage
  <2>6. QED
    BY <1>4, <2>3, <2>5
<1>6. \A j \in journals' : ~j.terminal /\ j.result # "passed"
  <2>1. \A j \in journals : ~j.terminal /\ j.result # "passed"
    BY <1>1, <1>3, StagesInOrder DEF BaselineInv, JournalsFollow
  <2>2. QED
    BY <1>2, <1>4, <2>1
<1>7. BaselineTypeOK'
  <2>1. repository' \in {"none", "there", "destroyed"}
    BY <1>3 DEF FailStage, BaselineTypeOK
  <2>2. QED
    BY <1>2, <1>3, <1>4, <2>1 DEF BaselineTypeOK
<1>8. StagesAreDone'
  BY <1>2, StagesInOrder DEF StagesAreDone
<1>9. ReportsFollow'
  BY <1>2, <1>4, <1>5 DEF ReportsFollow
<1>10. JournalsFollow'
  BY <1>1, <1>2, <1>6, StagesInOrder DEF BaselineInv, JournalsFollow
<1>11. QED
  BY <1>7, <1>8, <1>9, <1>10 DEF BaselineInv

\* A stage that ends: its records are kept, and the last one destroys the repository.
LEMMA CompleteKept == BaselineInv /\ CompleteStage => BaselineInv'
<1> SUFFICES ASSUME BaselineInv, CompleteStage PROVE BaselineInv'
  OBVIOUS
<1>1. PICK i \in 1..11 : caseStage = Stages[i]
  BY StageOf DEF BaselineInv, CompleteStage
<1>2. /\ BaselineTypeOK /\ unanswered = {} /\ repository # "destroyed" /\ report.result = "failed"
      /\ ~report.terminal /\ ~report.error
      /\ \A k \in 1..(i - 1) : Records(Stages[k]) \subseteq report.refs
      /\ i > 9 => running = {}
  BY <1>1, StagesInOrder DEF BaselineInv, StagesAreDone, ReportsFollow
<1>3. /\ caseStage' = IF i = 11 THEN "finally" ELSE Stages[i + 1]
      /\ entered' = FALSE /\ UNCHANGED <<signal, unanswered, outcome, storage>>
      /\ journals' = journals \/ (journals' = journals \cup {report'} /\ i # 11)
  <2>1. i = 11 => ~Saves
    BY <1>1, StagesDiffer DEF Saves
  <2>2. caseStage' = IF i = 11 THEN "finally" ELSE Stages[i + 1]
    BY <1>1, StagesInOrder DEF CompleteStage
  <2>3. QED
    BY <2>1, <2>2 DEF CompleteStage
<1>4. /\ report' \in [result : {"passed", "failed"}, error : BOOLEAN, terminal : BOOLEAN,
                      cleanup : BOOLEAN, destroyed : BOOLEAN, refs : SUBSET RecordNames]
      /\ report'.refs = report.refs \cup Records(Stages[i])
      /\ ~report'.terminal /\ ~report'.error
      /\ i # 11 => report'.result = "failed"
      /\ i = 11 => report'.destroyed
  <2>1. CASE i = 11
    <3>1. report' = [Retained EXCEPT !.destroyed = TRUE, !.result = "passed"]
      BY <1>1, <2>1, StagesDiffer DEF CompleteStage
    <3> DEFINE R == Retained
    <3>2. /\ R \in [result : {"passed", "failed"}, error : BOOLEAN, terminal : BOOLEAN,
                    cleanup : BOOLEAN, destroyed : BOOLEAN, refs : SUBSET RecordNames]
          /\ R.refs = report.refs \cup Records(Stages[i])
          /\ R.error = report.error /\ R.terminal = report.terminal
      BY <1>1, <1>2, RetainedIs
    <3>3. report' = [R EXCEPT !.destroyed = TRUE, !.result = "passed"]
      BY <3>1
    <3> HIDE DEF R
    <3>4. QED
      BY <1>2, <2>1, <3>2, <3>3
  <2>2. CASE i # 11
    <3>1. report' = Retained
      BY <1>1, <2>2, StagesDiffer DEF CompleteStage
    <3>2. QED
      BY <1>1, <1>2, <2>2, <3>1, RetainedIs
  <2>3. QED
    BY <2>1, <2>2
<1>5. /\ repository' \in {"none", "there", "destroyed"}
      /\ i # 11 => repository' # "destroyed"
      /\ i = 11 => repository' = "destroyed"
  BY <1>1, <1>2, StagesDiffer DEF CompleteStage, BaselineTypeOK
<1>6. i > 8 => running' = {}
  <2>1. CASE i = 9
    BY <1>1, <2>1, StagesDiffer DEF CompleteStage
  <2>2. CASE i > 9
    <3>1. Creates(caseStage) = {}
      BY <1>1, <2>2, StagesDiffer
    <3>2. QED
      BY <1>2, <2>2, <3>1 DEF CompleteStage
  <2>3. QED
    BY <2>1, <2>2
<1>7. \A k \in 1..i : Records(Stages[k]) \subseteq report'.refs
  BY <1>2, <1>4
<1>8. \A j \in journals' : ~j.terminal /\ j.result # "passed"
  <2>1. \A j \in journals : ~j.terminal /\ j.result # "passed"
    BY <1>1, <1>2, StagesInOrder DEF BaselineInv, JournalsFollow
  <2>2. QED
    BY <1>3, <1>4, <2>1
<1>9. BaselineTypeOK'
  <2>1. i # 11 => i + 1 \in 1..11
    OBVIOUS
  <2>2. QED
    BY <1>2, <1>3, <1>4, <1>5, <2>1 DEF BaselineTypeOK
<1>10. StagesAreDone'
  <2> SUFFICES ASSUME NEW k \in 1..11, caseStage' = Stages[k]
               PROVE  /\ \A h \in 1..(k - 1) : Records(Stages[h]) \subseteq report'.refs
                      /\ unanswered' = {} /\ repository' # "destroyed" /\ report'.result = "failed"
                      /\ ~report'.error
                      /\ k > 9 => running' = {}
    BY DEF StagesAreDone
  <2>1. i # 11 /\ k = i + 1
    <3>1. i # 11 => i + 1 \in 1..11
      OBVIOUS
    <3>2. i # 11
      BY <1>3, StagesInOrder
    <3>3. QED
      BY <1>3, <3>1, <3>2, StagesInOrder
  <2>2. QED
    BY <1>2, <1>3, <1>4, <1>5, <1>6, <1>7, <2>1
<1>11. ReportsFollow'
  <2>1. caseStage' \notin {"saving", "saved", "resaving", "over", "catch"}
    <3>1. i # 11 => i + 1 \in 1..11
      OBVIOUS
    <3>2. QED
      BY <1>3, <3>1, StagesInOrder
  <2>2. repository' = "destroyed" => Required("replay") \subseteq report'.refs /\ running' = {} /\ unanswered' = {}
    BY <1>2, <1>3, <1>5, <1>6, <1>7, ReplayNeeds
  <2>3. QED
    BY <1>4, <1>5, <2>1, <2>2 DEF ReportsFollow
<1>12. JournalsFollow'
  <2>1. caseStage' \notin {"saved", "resaving", "over"}
    <3>1. i # 11 => i + 1 \in 1..11
      OBVIOUS
    <3>2. QED
      BY <1>3, <3>1, StagesInOrder
  <2>2. outcome' = "none"
    BY <1>1, <1>3, StagesInOrder DEF BaselineInv, JournalsFollow
  <2>3. QED
    BY <1>8, <2>1, <2>2 DEF JournalsFollow
<1>13. QED
  BY <1>9, <1>10, <1>11, <1>12 DEF BaselineInv

\* Outside the stages only the report and what is saved of it decide.
LEMMA EndingKept ==
    ASSUME BaselineInv, ~InStage, UNCHANGED <<repository, unanswered>>,
           caseStage' \in {"catch", "finally", "saving", "saved", "resaving", "over"},
           entered' \in BOOLEAN, signal' \in BOOLEAN, running' \subseteq running,
           BaselineTypeOK', ReportsFollow', JournalsFollow'
    PROVE  BaselineInv'
BY StagesInOrder DEF BaselineInv, StagesAreDone

\* The steps of the finally block and of the saves.
LEMMA EndKept == BaselineInv /\ (Catch \/ End \/ \E c \in BOOLEAN : Settle(c)) => BaselineInv'
<1> SUFFICES ASSUME BaselineInv, Catch \/ End \/ \E c \in BOOLEAN : Settle(c) PROVE BaselineInv'
  OBVIOUS
<1>1. /\ BaselineTypeOK /\ ReportsFollow /\ JournalsFollow
      /\ ~InStage /\ UNCHANGED <<repository, unanswered>>
      /\ caseStage' \in {"catch", "finally", "saving", "saved", "resaving", "over"}
      /\ entered' \in BOOLEAN /\ signal' \in BOOLEAN /\ signal' = signal
  <2>1. /\ caseStage \in {"catch", "saved", "finally"} /\ caseStage' \in {"finally", "resaving", "over", "saving"}
        /\ UNCHANGED <<repository, unanswered, entered, signal>>
    BY DEF Catch, End, Settle
  <2>2. ~InStage
    BY <2>1, StagesInOrder DEF InStage
  <2>3. QED
    BY <2>1, <2>2 DEF BaselineInv, BaselineTypeOK
<1>2. CASE Catch
  <2>1. /\ caseStage = "catch" /\ caseStage' = "finally" /\ UNCHANGED <<running, outcome, storage>>
        /\ report'.refs = report.refs /\ report'.result = report.result /\ report'.destroyed = report.destroyed
        /\ report'.terminal = report.terminal /\ report'.cleanup = report.cleanup /\ report'.error
        /\ report' \in [result : {"passed", "failed"}, error : BOOLEAN, terminal : BOOLEAN,
                        cleanup : BOOLEAN, destroyed : BOOLEAN, refs : SUBSET RecordNames]
        /\ journals' = journals \/ journals' = journals \cup {report'}
    BY <1>1, <1>2 DEF Catch, BaselineTypeOK
  <2>2. report.result = "failed"
    BY <1>1, <2>1 DEF ReportsFollow, BaselineTypeOK
  <2>3. BaselineTypeOK'
    BY <1>1, <2>1 DEF BaselineTypeOK
  <2>4. ReportsFollow'
    BY <1>1, <2>1, <2>2 DEF ReportsFollow
  <2>5. JournalsFollow'
    BY <1>1, <2>1, <2>2 DEF JournalsFollow, ReportsFollow
  <2>6. QED
    BY <1>1, <2>1, <2>3, <2>4, <2>5, EndingKept
<1>3. ASSUME NEW c \in BOOLEAN, Settle(c) PROVE BaselineInv'
  <2>1. /\ caseStage = "finally" /\ caseStage' = "saving" /\ UNCHANGED <<outcome, storage, journals>>
        /\ running' \subseteq running
    BY <1>3 DEF Settle
  <2>2. /\ report'.refs = report.refs /\ report'.result = ResultOf(c) /\ report'.destroyed = report.destroyed
        /\ report'.terminal /\ report'.cleanup = c /\ report'.error = (report.error \/ signal)
        /\ report' \in [result : {"passed", "failed"}, error : BOOLEAN, terminal : BOOLEAN,
                        cleanup : BOOLEAN, destroyed : BOOLEAN, refs : SUBSET RecordNames]
    BY <1>1, <1>3 DEF Settle, BaselineTypeOK, ResultOf
  <2>3. report'.result = "passed" => report.result = "passed" /\ c /\ ~signal
    BY <2>2 DEF ResultOf
  <2>4. BaselineTypeOK'
    BY <1>1, <2>1, <2>2 DEF BaselineTypeOK
  <2>5. ReportsFollow'
    BY <1>1, <2>1, <2>2, <2>3 DEF ReportsFollow
  <2>6. JournalsFollow'
    BY <1>1, <2>1 DEF JournalsFollow
  <2>7. QED
    BY <1>1, <2>1, <2>4, <2>5, <2>6, EndingKept
<1>4. CASE End
  <2>1. /\ caseStage = "saved" /\ UNCHANGED <<running, journals, storage>>
        /\ report \in journals /\ report.terminal
        /\ \A j \in journals : j.terminal => j = report
        /\ outcome = "none"
    BY <1>1, <1>4 DEF End, JournalsFollow, ReportsFollow
  <2>2. CASE signal /\ report.result = "passed"
    <3>1. /\ caseStage' = "resaving" /\ UNCHANGED outcome
          /\ report'.result = "failed" /\ report'.refs = report.refs /\ report'.terminal
          /\ report' \in [result : {"passed", "failed"}, error : BOOLEAN, terminal : BOOLEAN,
                          cleanup : BOOLEAN, destroyed : BOOLEAN, refs : SUBSET RecordNames]
      BY <1>1, <1>4, <2>1, <2>2 DEF End, BaselineTypeOK
    <3>2. BaselineTypeOK'
      BY <1>1, <2>1, <3>1 DEF BaselineTypeOK
    <3>3. ReportsFollow'
      BY <1>1, <2>1, <3>1 DEF ReportsFollow
    <3>4. JournalsFollow'
      BY <1>1, <2>1, <3>1 DEF JournalsFollow
    <3>5. QED
      BY <1>1, <2>1, <3>1, <3>2, <3>3, <3>4, EndingKept
  <2>3. CASE ~(signal /\ report.result = "passed")
    <3>1. /\ caseStage' = "over" /\ UNCHANGED report
          /\ outcome' = IF signal \/ report.error THEN "threw" ELSE report.result
      BY <1>4, <2>3 DEF End
    <3>2. BaselineTypeOK'
      BY <1>1, <2>1, <3>1 DEF BaselineTypeOK
    <3>3. ReportsFollow'
      BY <1>1, <2>1, <3>1 DEF ReportsFollow
    <3>4. Replayable' <=> outcome' = "passed"
      <4>1. CASE report.result = "passed"
        <5>1. Replays(report)
          BY <1>1, <2>1, <4>1 DEF Replays, ReportsFollow
        <5>2. Replayable' /\ outcome' = "passed"
          BY <1>1, <2>1, <2>3, <3>1, <4>1, <5>1 DEF Replayable, Replays, ReportsFollow
        <5>3. QED
          BY <5>2
      <4>2. CASE report.result # "passed"
        <5>1. ~Replayable'
          BY <2>1, <3>1, <4>2 DEF Replayable, Replays
        <5>2. QED
          BY <3>1, <4>2, <5>1
      <4>3. QED
        BY <4>1, <4>2
    <3>5. JournalsFollow'
      BY <1>1, <2>1, <3>1, <3>4 DEF JournalsFollow
    <3>6. QED
      BY <1>1, <2>1, <3>1, <3>2, <3>3, <3>5, EndingKept
  <2>4. QED
    BY <2>2, <2>3
<1>5. QED
  BY <1>2, <1>3, <1>4

\* A save: the terminal report, or the one that takes a passed run back.
LEMMA SaveKept ==
    ASSUME BaselineInv, NEW kept \in BOOLEAN, NEW pointed \in BOOLEAN, Save(kept, pointed)
    PROVE  BaselineInv'
<1>1. /\ BaselineTypeOK /\ ReportsFollow /\ JournalsFollow
      /\ ~InStage /\ UNCHANGED <<repository, unanswered, report, running, signal, entered>>
      /\ caseStage' \in {"catch", "finally", "saving", "saved", "resaving", "over"}
      /\ entered' \in BOOLEAN /\ signal' \in BOOLEAN
      /\ caseStage \in {"saving", "resaving"} /\ report.terminal /\ outcome = "none"
      /\ journals' = IF kept THEN journals \cup {report} ELSE journals
      /\ (pointed => kept) /\ storage' = (storage /\ pointed) /\ storage \in BOOLEAN
      /\ caseStage' = IF pointed /\ caseStage = "saving" THEN "saved" ELSE "over"
      /\ outcome' = IF ~pointed \/ caseStage = "resaving" THEN "threw" ELSE outcome
  BY StagesInOrder DEF BaselineInv, BaselineTypeOK, InStage, Save, ReportsFollow, JournalsFollow
<1>2. BaselineTypeOK'
  BY <1>1 DEF BaselineTypeOK
<1>3. ReportsFollow'
  BY <1>1 DEF ReportsFollow
<1>4. \A j \in journals' : j.result = "passed" => repository = "destroyed" /\ j.terminal
  BY <1>1 DEF ReportsFollow, JournalsFollow
<1>5. caseStage' = "saved" => report \in journals' /\ \A j \in journals' : j.terminal => j = report
  BY <1>1 DEF JournalsFollow
<1>6. caseStage' # "over" => outcome' = "none"
  BY <1>1
<1>7. outcome' # "none" /\ storage' => ~Replayable' /\ outcome' # "passed"
  <2> SUFFICES ASSUME outcome' # "none", storage' PROVE ~Replayable' /\ outcome' # "passed"
    OBVIOUS
  <2>1. caseStage = "resaving" /\ pointed /\ kept
    BY <1>1
  <2>2. report.result = "failed" /\ report \in journals'
    BY <1>1, <2>1 DEF ReportsFollow
  <2>3. QED
    BY <1>1, <2>1, <2>2 DEF Replayable, Replays
<1>8. JournalsFollow'
  <2>1. caseStage' \in {"saved", "over"}
    BY <1>1
  <2>2. QED
    BY <1>1, <1>4, <1>5, <1>6, <1>7, <2>1 DEF JournalsFollow
<1>9. QED
  BY <1>1, <1>2, <1>3, <1>8, EndingKept

\* Every step keeps it.
LEMMA BaselineKept == BaselineInv /\ [BaselineNext]_baselineVars => BaselineInv'
<1> SUFFICES ASSUME BaselineInv, [BaselineNext]_baselineVars PROVE BaselineInv'
  OBVIOUS
<1>1. CASE Enter
  <2>1. \A i \in 1..11 : caseStage = Stages[i] => unanswered = {} /\ repository # "destroyed"
    BY DEF BaselineInv, StagesAreDone
  <2>2. BaselineInv'
    <3>1. UNCHANGED <<report, journals, repository, outcome, storage, caseStage, unanswered, running, signal>>
          /\ entered' = TRUE
      BY <1>1 DEF Enter
    <3>2. Replayable' <=> Replayable
      BY <3>1 DEF Replayable, Replays
    <3>3. QED
      BY <3>1, <3>2 DEF BaselineInv, BaselineTypeOK, StagesAreDone, ReportsFollow, JournalsFollow
  <2>3. QED
    BY <2>2
<1>2. CASE OnStop \/ UNCHANGED baselineVars
  <2>1. UNCHANGED <<report, journals, repository, outcome, storage, caseStage, unanswered, running, entered>>
        /\ signal' \in {TRUE, signal}
    BY <1>2 DEF OnStop, baselineVars
  <2>2. Replayable' <=> Replayable
    BY <2>1 DEF Replayable, Replays
  <2>3. BaselineTypeOK'
    <3>1. signal' \in BOOLEAN
      BY <2>1 DEF BaselineInv, BaselineTypeOK
    <3>2. QED
      BY <2>1, <3>1 DEF BaselineInv, BaselineTypeOK
  <2>4. StagesAreDone' /\ ReportsFollow'
    BY <2>1 DEF BaselineInv, StagesAreDone, ReportsFollow
  <2>5. JournalsFollow'
    BY <2>1, <2>2 DEF BaselineInv, JournalsFollow
  <2>6. QED
    BY <2>3, <2>4, <2>5 DEF BaselineInv
<1>3. CASE KillRun
  <2>1. /\ UNCHANGED <<report, journals, repository, outcome, storage, unanswered, running, entered, signal>>
        /\ caseStage # "over" /\ caseStage' = "over"
    BY <1>3 DEF KillRun
  <2>2. outcome = "none"
    BY <2>1 DEF BaselineInv, JournalsFollow
  <2>3. QED
    BY <2>1, <2>2, StagesInOrder DEF BaselineInv, BaselineTypeOK, StagesAreDone, ReportsFollow, JournalsFollow
<1>4. ASSUME NEW name \in {"gateway", "control", "worker"}, LandContainer(name) PROVE BaselineInv'
  <2>1. /\ UNCHANGED <<report, journals, repository, outcome, storage, caseStage, entered, signal>>
        /\ unanswered # {}
    BY <1>4 DEF LandContainer
  <2>2. repository # "destroyed" /\ \A i \in 1..11 : caseStage # Stages[i]
    BY <2>1 DEF BaselineInv, StagesAreDone, ReportsFollow
  <2>3. Replayable' <=> Replayable
    BY <2>1 DEF Replayable, Replays
  <2>4. QED
    BY <2>1, <2>2, <2>3 DEF BaselineInv, BaselineTypeOK, StagesAreDone, ReportsFollow, JournalsFollow
<1>5. CASE CompleteStage
  BY <1>5, CompleteKept
<1>6. CASE FailStage
  BY <1>6, FailKept
<1>7. CASE Catch \/ End \/ \E c \in BOOLEAN : Settle(c)
  BY <1>7, EndKept
<1>8. ASSUME NEW kept \in BOOLEAN, NEW pointed \in BOOLEAN, Save(kept, pointed) PROVE BaselineInv'
  BY <1>8, SaveKept
<1>9. QED
  BY <1>1, <1>2, <1>3, <1>4, <1>5, <1>6, <1>7, <1>8 DEF BaselineNext

\* What a reader accepts is what happened (run-case.ts, validateRetainedRun).
LEMMA ReplaysAreTrue == BaselineInit /\ [][BaselineNext]_baselineVars => []ReplayTellsWhatHappened
<1>1. BaselineInit => BaselineInv
  <2> SUFFICES ASSUME BaselineInit PROVE BaselineInv
    OBVIOUS
  <2>1. caseStage = Stages[1] /\ 1 \in 1..11
    BY StagesDiffer DEF BaselineInit
  <2>2. BaselineTypeOK
    BY <2>1 DEF BaselineInit, BaselineTypeOK
  <2>3. StagesAreDone
    <3>1. \A i \in 1..11 : caseStage = Stages[i] => i = 1
      BY <2>1, StagesInOrder
    <3>2. QED
      BY <3>1 DEF BaselineInit, StagesAreDone
  <2>4. ReportsFollow
    BY DEF BaselineInit, ReportsFollow
  <2>5. JournalsFollow
    BY DEF BaselineInit, JournalsFollow
  <2>6. QED
    BY <2>2, <2>3, <2>4, <2>5 DEF BaselineInv
<1>2. BaselineInv => ReplayTellsWhatHappened
  BY DEF BaselineInv, ReportsFollow, JournalsFollow, ReplayTellsWhatHappened, Replayable
<1>3. QED
  BY <1>1, <1>2, BaselineKept, PTL

-----------------------------------------------------------------------------
(* All of them *)

\* Whatever other writers and power losses did, what was acknowledged is readable and a
\* complete export is whole (writeRecord, persistImmutable, writeExport).
THEOREM TheDurableIsWhole ==
    RecordInit /\ [][RecordNext]_recordVars /\ ExportInit /\ [][ExportNext]_exportVars => []DurableIsWhole
<1>1. []AcknowledgedIsReadable /\ []CompleteExportIsWhole => []DurableIsWhole
  <2>1. AcknowledgedIsReadable /\ CompleteExportIsWhole => DurableIsWhole
    BY DEF DurableIsWhole
  <2>2. QED
    BY <2>1, PTL
<1>2. QED
  BY <1>1, ReferencesAreKept, ExportsAreWhole, PTL

\* Whatever is interrupted, killed or lands late, what the records of a run say of it was so
\* (isolation/run.ts, checks/index.ts, run-case.ts with retained.ts).
THEOREM TheRecordsOfRunsAreTrue ==
    /\ ProofInit /\ [][ProofNext]_proofVars
    /\ CheckInit /\ [][CheckNext]_checkVars
    /\ BaselineInit /\ [][BaselineNext]_baselineVars
    => []RunRecordsAreTrue
<1>1. []RecordedCleanupIsTrue /\ []CheckTellsTheTruth /\ []ReplayTellsWhatHappened => []RunRecordsAreTrue
  <2>1. RecordedCleanupIsTrue /\ CheckTellsTheTruth /\ ReplayTellsWhatHappened => RunRecordsAreTrue
    BY DEF RunRecordsAreTrue
  <2>2. QED
    BY <2>1, PTL
<1>2. QED
  BY <1>1, CleanupsAreTrue, ChecksAreTrue, ReplaysAreTrue, PTL

-----------------------------------------------------------------------------
(* One run of the suite *)

Early == {"inspect", "start", "current", "select", "grant", "create"}
Attached == {"watch", "judge", "acknowledge", "settle", "thrown"}
Ending == {"failed", "stop", "fence", "sweep", "ended"}
WorkerStates == {"none", "named", "created", "starting", "running", "exited", "removed"}

SuiteTypeOK ==
    /\ suiteAt \in Early \cup Attached \cup {"after", "transition", "join"} \cup Ending
    /\ suitePhase \in Positions /\ phaseWorker \in [Positions -> WorkerStates]
    /\ suiteReport \in [result : {"failed", "passed"}, receipts : Nat, unknown : BOOLEAN,
                        qualified : SUBSET Positions, transition : BOOLEAN, spent : Nat, cleanup : BOOLEAN]
    /\ scopeSpent \in Nat /\ inFlight \in BOOLEAN /\ endedUnknown \in BOOLEAN
    /\ refused \in BOOLEAN /\ transientLeft \in BOOLEAN /\ commandLock \in BOOLEAN

\* One worker after the other; a worker lives past its phase only where Docker refused.
PhasesInOrder ==
    /\ \A p \in Positions :
        /\ p > suitePhase => phaseWorker[p] = "none"
        /\ p < suitePhase => p \in suiteReport.qualified
        /\ phaseWorker[p] \in Alive =>
            p = suitePhase /\ (suiteAt \in Attached \/ (refused /\ suiteAt \in Ending))
        /\ p \in suiteReport.qualified => phaseWorker[p] # "none"
    /\ suiteAt \in Early => phaseWorker[suitePhase] = "none"
    /\ suiteAt \in {"watch", "judge", "acknowledge"} => phaseWorker[suitePhase] # "none"
    /\ suiteAt \in {"settle", "after", "transition"} => suitePhase \in suiteReport.qualified
    /\ suiteAt = "transition" => suitePhase < Len(SuitePhases)

\* What the evidence has counted is no more than what has ended, and less if something
\* ended unknown without its knowing.
EndedSends == IF inFlight THEN scopeSpent - 1 ELSE scopeSpent
ReceiptsTell ==
    /\ suiteReport.spent <= EndedSends /\ suiteReport.receipts <= EndedSends
    /\ suiteAt \in Early \cup {"watch", "judge", "transition", "join"} =>
        suiteReport.receipts <= suiteReport.spent
    /\ endedUnknown /\ ~suiteReport.unknown => suiteReport.receipts < EndedSends
    /\ suiteAt = "join" => suiteReport.spent = scopeSpent /\ ~inFlight

\* A report that says passed.
PassedTells ==
    suiteReport.result = "passed" =>
        /\ suiteAt \in {"stop", "sweep", "ended"}
        /\ suiteReport.qualified = Positions /\ suiteReport.transition
        /\ suiteReport.receipts = scopeSpent /\ ~endedUnknown /\ ~inFlight
        /\ \A p \in Positions : phaseWorker[p] \notin Alive
        /\ suiteAt # "stop" => deployment = "stopped" /\ suiteGateway = "drained"

\* Only the sweep claims a cleanup.
OutputTells ==
    /\ ~Ended => ~suiteReport.cleanup /\ (suiteOutput # NoReport => ~suiteOutput.cleanup)
    /\ suiteOutput # NoReport /\ suiteOutput.result = "passed" /\ suiteOutput.cleanup =>
        suiteReport.result = "passed" /\ \A p \in Positions : phaseWorker[p] = "removed"

\* A transient container is left only by a command after which the run can no longer pass;
\* nothing is swept before the deployment was stopped or fenced.
DeploymentTells ==
    /\ transientLeft => suiteReport.result # "passed" /\ suiteAt \in {"thrown"} \cup Ending
    /\ suiteAt \in {"sweep", "ended"} /\ ~refused => suiteGateway # "serving"
    /\ Ended /\ ~refused => \A p \in Positions : phaseWorker[p] \notin Alive

SuiteInv ==
    SuiteTypeOK /\ PhasesInOrder /\ ReceiptsTell /\ PassedTells /\ OutputTells /\ DeploymentTells

-----------------------------------------------------------------------------
\* The phases of a run.
LEMMA FourPhases == Positions = 1 .. 4 /\ Len(SuitePhases) = 4
BY DEF Positions, SuitePhases

\* What a command does leaves a refusal known.
DeploymentGoesOn ==
    /\ refused' \in BOOLEAN /\ transientLeft' \in BOOLEAN /\ commandLock' \in BOOLEAN
    /\ refused => refused'

\* The ways a command can end; only one that went wrong leaves a transient container.
LEMMA CommandsGoOn ==
    ASSUME SuiteInv, NEW c,
           Command(c) \/ CommandThrows(c) \/ UNCHANGED <<deploymentVars, refused>> \/ (DeploymentFenced /\ UNCHANGED commandLock)
    PROVE  DeploymentGoesOn /\ (transientLeft' => transientLeft \/ CommandThrows(c))
<1>1. refused \in BOOLEAN /\ transientLeft \in BOOLEAN /\ commandLock \in BOOLEAN
  BY DEF SuiteInv, SuiteTypeOK
<1>2. CASE Command(c)
  BY <1>1, <1>2 DEF Command, DeploymentGoesOn
<1>3. CASE UNCHANGED <<deploymentVars, refused>>
  BY <1>1, <1>3 DEF deploymentVars, DeploymentGoesOn
<1>4. ASSUME KilledOrRefused PROVE refused' \in BOOLEAN /\ (refused => refused')
  <2>1. refused' = refused \/ refused' = TRUE
    BY <1>4 DEF KilledOrRefused
  <2>2. QED
    BY <1>1, <2>1
<1>5. CASE DeploymentFenced /\ UNCHANGED commandLock
  <2>1. transientLeft' = FALSE \/ transientLeft' = transientLeft
    BY <1>5 DEF DeploymentFenced
  <2>2. commandLock' = commandLock /\ KilledOrRefused
    BY <1>5 DEF DeploymentFenced
  <2>3. transientLeft' \in BOOLEAN /\ (transientLeft' => transientLeft)
    <3>1. CASE transientLeft' = FALSE
      BY <3>1
    <3>2. CASE transientLeft' = transientLeft
      BY <1>1, <3>2
    <3>3. QED
      BY <2>1, <3>1, <3>2
  <2>4. QED
    BY <1>1, <1>4, <2>2, <2>3 DEF DeploymentGoesOn
<1>6. CASE CommandFails(c)
  <2>1. \/ UNCHANGED <<deploymentVars, refused>>
        \/ KilledOrRefused /\ transientLeft' \in BOOLEAN /\ UNCHANGED commandLock
    BY <1>6 DEF CommandFails
  <2>2. CASE KilledOrRefused /\ transientLeft' \in BOOLEAN /\ UNCHANGED commandLock
    <3>1. refused' \in BOOLEAN /\ (refused => refused') /\ transientLeft' \in BOOLEAN
      BY <1>4, <2>2
    <3>2. commandLock' \in BOOLEAN
      BY <1>1, <2>2
    <3>3. QED
      BY <1>6, <3>1, <3>2 DEF DeploymentGoesOn, CommandThrows
  <2>3. QED
    BY <1>3, <2>1, <2>2
<1>7. CASE CommandKilled(c)
  BY <1>1, <1>7 DEF CommandKilled, CommandThrows, DeploymentGoesOn
<1>8. QED
  BY <1>2, <1>3, <1>5, <1>6, <1>7 DEF CommandThrows

\* A step up to the end of a phase that leaves the report alone, or sets only what is named.
LEMMA ThrowKeeps ==
    ASSUME SuiteInv, DeploymentGoesOn, Throw,
           suiteAt \in Early \cup {"after", "transition", "join", "failed"},
           UNCHANGED <<suitePhase, scopeVars>>,
           phaseWorker' \in [Positions -> WorkerStates],
           \A p \in Positions : \/ phaseWorker'[p] = phaseWorker[p]
                                \/ p = suitePhase /\ phaseWorker'[p] \in {"named", "created"}
    PROVE  SuiteInv'
<1>1. /\ suiteAt' = "stop" /\ suiteReport' = [suiteReport EXCEPT !.result = "failed"]
      /\ suiteOutput' \in {suiteOutput, Kept(suiteReport')}
      /\ UNCHANGED <<suitePhase, scopeSpent, inFlight, endedUnknown>>
  BY DEF Throw, Moves, Saved, SaveFails, scopeVars
<1>2. /\ suiteReport' \in [result : {"failed", "passed"}, receipts : Nat, unknown : BOOLEAN,
                        qualified : SUBSET Positions, transition : BOOLEAN, spent : Nat, cleanup : BOOLEAN]
      /\ suiteReport'.result = "failed" /\ suiteReport'.cleanup = suiteReport.cleanup
      /\ suiteReport'.receipts = suiteReport.receipts /\ suiteReport'.spent = suiteReport.spent
      /\ suiteReport'.unknown = suiteReport.unknown /\ suiteReport'.qualified = suiteReport.qualified
  BY <1>1 DEF SuiteInv, SuiteTypeOK
<1>3. SuiteTypeOK'
  BY <1>1, <1>2 DEF SuiteInv, SuiteTypeOK, DeploymentGoesOn, Ending
<1>4. PhasesInOrder'
  BY <1>1, <1>2 DEF SuiteInv, PhasesInOrder, DeploymentGoesOn, Alive, Ending, Attached, Early
<1>5. ReceiptsTell'
  BY <1>1, <1>2 DEF SuiteInv, ReceiptsTell, EndedSends, Early
<1>6. PassedTells'
  BY <1>2 DEF PassedTells
<1>7. OutputTells'
  <2>1. ~suiteReport.cleanup /\ (suiteOutput # NoReport => ~suiteOutput.cleanup)
    BY DEF SuiteInv, OutputTells, Ended, Early
  <2>2. suiteOutput' # NoReport => ~suiteOutput'.cleanup
    BY <1>1, <1>2, <2>1 DEF Kept
  <2>3. QED
    BY <1>2, <2>1, <2>2 DEF OutputTells
<1>8. DeploymentTells'
  BY <1>1, <1>2 DEF DeploymentTells, Ended, Ending
<1>9. QED
  BY <1>3, <1>4, <1>5, <1>6, <1>7, <1>8 DEF SuiteInv

\* Where the coordinator goes on to, with what the report gains on the way.
LEMMA GoesOn ==
    ASSUME SuiteInv, DeploymentGoesOn, UNCHANGED <<suitePhase, phaseWorker, scopeVars>>,
           NEW next, suiteAt' = next,
           suiteReport'.result = suiteReport.result, suiteReport'.cleanup = suiteReport.cleanup,
           suiteReport' \in [result : {"failed", "passed"}, receipts : Nat, unknown : BOOLEAN,
                        qualified : SUBSET Positions, transition : BOOLEAN, spent : Nat, cleanup : BOOLEAN],
           suiteReport.qualified \subseteq suiteReport'.qualified,
           suiteReport'.qualified \subseteq suiteReport.qualified \cup {suitePhase},
           suiteOutput' \in {suiteOutput, Kept(suiteReport')},
           \/ suiteAt \in Early /\ next \in Early
           \/ suiteAt \in Attached /\ next \in Attached,
           next \in {"watch", "judge", "acknowledge"} => suiteAt \in {"watch", "judge", "acknowledge"},
           suiteReport'.qualified # suiteReport.qualified => suiteAt = "acknowledge",
           next = "settle" => suitePhase \in suiteReport'.qualified,
           suiteAt # "thrown", transientLeft' => transientLeft \/ next = "thrown",
           ReceiptsTell'
    PROVE  SuiteInv'
<1>1. SuiteTypeOK'
  BY DEF SuiteInv, SuiteTypeOK, DeploymentGoesOn, scopeVars
<1>2. PhasesInOrder'
  BY DEF SuiteInv, SuiteTypeOK, PhasesInOrder, DeploymentGoesOn, Ending, Attached, Early
<1>3. suiteReport.result # "passed"
  BY DEF SuiteInv, PassedTells, Attached, Early
<1>4. PassedTells'
  BY <1>3 DEF PassedTells
<1>5. OutputTells'
  <2>1. ~suiteReport.cleanup /\ (suiteOutput # NoReport => ~suiteOutput.cleanup)
    BY DEF SuiteInv, OutputTells, Ended, Early, Attached
  <2>2. suiteOutput' # NoReport => ~suiteOutput'.cleanup
    BY <2>1 DEF Kept
  <2>3. QED
    BY <2>1, <2>2 DEF OutputTells
<1>6. DeploymentTells'
  <2>1. ~transientLeft
    BY DEF SuiteInv, DeploymentTells, Ending, Early, Attached
  <2>2. QED
    BY <1>3, <2>1 DEF DeploymentTells, Ended, Ending, Early, Attached
<1>7. QED
  BY <1>1, <1>2, <1>4, <1>5, <1>6, ReceiptsTell' DEF SuiteInv

\* Before a phase, and its own beginning.
LEMMA BeginningKeeps ==
    ASSUME SuiteInv,
           \/ Inspect \/ Start \/ BeginPhase
           \/ Step("select", "select", "grant") \/ Step("grant", "grant", "create")
    PROVE  SuiteInv'
<1>1. PICK c \in {"inspect", "start", "select", "grant"} :
        /\ Command(c) \/ CommandThrows(c) \/ UNCHANGED <<deploymentVars, refused>>
        /\ suiteAt \in Early \ {"create"} /\ UNCHANGED <<suitePhase, phaseWorker, scopeVars>>
        /\ \/ Throw
           \/ /\ Command(c) /\ suiteAt' \in Early /\ UNCHANGED suiteReport
              /\ suiteOutput' \in {suiteOutput, Kept(suiteReport')}
  <2>1. CASE Inspect
    BY <2>1 DEF Inspect, Early, Elsewhere, Saved, Moves
  <2>2. CASE Start
    BY <2>2 DEF Start, Early, Elsewhere, Saved, Moves
  <2>3. CASE BeginPhase
    BY <2>3 DEF BeginPhase, Early, Elsewhere, CurrentScope, CurrentThrows, reportVars, Moves
  <2>4. CASE Step("select", "select", "grant")
    BY <2>4 DEF Step, Early, Elsewhere, reportVars, Moves
  <2>5. CASE Step("grant", "grant", "create")
    BY <2>5 DEF Step, Early, Elsewhere, reportVars, Moves
  <2>6. QED
    BY <2>1, <2>2, <2>3, <2>4, <2>5
<1>2. DeploymentGoesOn
  BY <1>1, CommandsGoOn
<1>3. CASE Throw
  BY <1>1, <1>2, <1>3, ThrowKeeps DEF SuiteInv, SuiteTypeOK
<1>4. CASE ~Throw
  <2>1. ReceiptsTell'
    BY <1>1, <1>4 DEF SuiteInv, ReceiptsTell, EndedSends, Early, scopeVars
  <2>2. /\ suiteReport' = suiteReport /\ suiteAt' \in Early /\ suiteAt \in Early
        /\ transientLeft' = transientLeft
    BY <1>1, <1>4 DEF Command
  <2>3. suiteAt' \notin {"watch", "judge", "acknowledge", "settle"} /\ suiteAt # "thrown"
    BY <2>2 DEF Early
  <2>4. suiteReport \in [result : {"failed", "passed"}, receipts : Nat, unknown : BOOLEAN,
                        qualified : SUBSET Positions, transition : BOOLEAN, spent : Nat, cleanup : BOOLEAN]
    BY DEF SuiteInv, SuiteTypeOK
  <2>5. QED
    BY <1>1, <1>2, <1>4, <2>1, <2>2, <2>3, <2>4, GoesOn
<1>5. QED
  BY <1>3, <1>4

\* The container of the phase, also where only its name was left.
LEMMA CreateKeeps ==
    ASSUME SuiteInv, CreateWorker
    PROVE  SuiteInv'
<1>1. /\ suiteAt = "create" /\ suiteAt \in Early /\ UNCHANGED <<suitePhase, scopeVars, deploymentVars, refused>>
      /\ \E w \in {"named", "created", "starting"} :
            /\ phaseWorker' = [phaseWorker EXCEPT ![suitePhase] = w]
            /\ \/ Throw /\ w # "starting"
               \/ /\ suiteAt' = "watch" /\ UNCHANGED suiteReport /\ suiteOutput' = Kept(suiteReport')
                  /\ w = "starting"
  BY DEF CreateWorker, Elsewhere, Saved, Moves, Early
<1>2. DeploymentGoesOn
  BY <1>1, CommandsGoOn
<1>3. PICK w \in {"named", "created", "starting"} :
        /\ phaseWorker' = [phaseWorker EXCEPT ![suitePhase] = w]
        /\ \/ Throw /\ w # "starting"
           \/ /\ suiteAt' = "watch" /\ UNCHANGED suiteReport /\ suiteOutput' = Kept(suiteReport')
              /\ w = "starting"
  BY <1>1
<1>4. /\ phaseWorker' \in [Positions -> WorkerStates] /\ phaseWorker'[suitePhase] = w
      /\ \A p \in Positions : p # suitePhase => phaseWorker'[p] = phaseWorker[p]
      /\ suitePhase \in Positions
  BY <1>3 DEF SuiteInv, SuiteTypeOK, WorkerStates
<1>5. CASE Throw
  <2>1. w \in {"named", "created"}
    BY <1>3, <1>5 DEF Throw, Moves
  <2>2. QED
    BY <1>1, <1>2, <1>4, <1>5, <2>1, ThrowKeeps
<1>6. CASE ~Throw
  <2>1. /\ suiteAt' = "watch" /\ UNCHANGED suiteReport /\ suiteOutput' = Kept(suiteReport')
        /\ w = "starting"
    BY <1>3, <1>6
  <2>2. SuiteTypeOK'
    BY <1>1, <1>2, <1>4, <2>1 DEF SuiteInv, SuiteTypeOK, DeploymentGoesOn, Attached, scopeVars
  <2>3. PhasesInOrder'
    <3>1. \A p \in Positions : phaseWorker'[p] = phaseWorker[p] \/ (p = suitePhase /\ phaseWorker'[p] = "starting")
      BY <1>4, <2>1
    <3>2. suitePhase \in 1 .. 4 /\ Positions = 1 .. 4
      BY <1>4, FourPhases
    <3>3. QED
      BY <1>1, <1>4, <2>1, <3>1, <3>2 DEF SuiteInv, PhasesInOrder, Early, Attached, Ending
  <2>4. ReceiptsTell'
    BY <1>1, <2>1 DEF SuiteInv, ReceiptsTell, EndedSends, Early, scopeVars
  <2>5. PassedTells'
    BY <1>1, <2>1 DEF SuiteInv, PassedTells
  <2>6. OutputTells'
    BY <1>1, <2>1 DEF SuiteInv, OutputTells, Ended, Kept
  <2>7. DeploymentTells'
    BY <1>1, <2>1 DEF SuiteInv, DeploymentTells, Early, Ending, Ended, deploymentVars
  <2>8. QED
    BY <2>2, <2>3, <2>4, <2>5, <2>6, <2>7 DEF SuiteInv
<1>7. QED
  BY <1>5, <1>6

\* What a phase observes, and what its evidence says.
LEMMA PhaseKeeps ==
    ASSUME SuiteInv, Observe \/ Judge \/ AcknowledgePhase \/ PhaseThrows
    PROVE  SuiteInv'
<1> DEFINE Reports == [result : {"failed", "passed"}, receipts : Nat, unknown : BOOLEAN,
                       qualified : SUBSET Positions, transition : BOOLEAN, spent : Nat, cleanup : BOOLEAN]
<1>1. /\ suiteReport \in Reports /\ suitePhase \in Positions /\ scopeSpent \in Nat
      /\ inFlight \in BOOLEAN /\ endedUnknown \in BOOLEAN
  BY DEF SuiteInv, SuiteTypeOK
<1>2. CASE Observe \/ PhaseThrows
  <2>1. /\ UNCHANGED <<suitePhase, phaseWorker, scopeVars, suiteReport, suiteOutput>>
        /\ suiteAt \in {"watch", "judge", "acknowledge"} /\ suiteAt' \in {"judge", "thrown"}
        /\ suiteAt' = "judge" => suiteAt = "watch"
    BY <1>2 DEF Observe, PhaseThrows, Elsewhere, reportVars, Moves
  <2>2. UNCHANGED <<deploymentVars, refused>> \/ CommandThrows("evidence")
    BY <1>2 DEF Observe, PhaseThrows
  <2>3. DeploymentGoesOn /\ (transientLeft' => transientLeft \/ suiteAt' = "thrown")
    BY <1>2, <2>1, <2>2, CommandsGoOn DEF Observe, PhaseThrows, Moves, deploymentVars
  <2>4. ReceiptsTell'
    BY <2>1 DEF SuiteInv, ReceiptsTell, EndedSends, Early, scopeVars
  <2>5. suiteAt \in Attached /\ suiteAt' \in Attached
    BY <2>1 DEF Attached
  <2>6. QED
    BY <1>1, <2>1, <2>3, <2>4, <2>5, GoesOn
<1>3. CASE Judge
  <2>1. /\ UNCHANGED <<suitePhase, phaseWorker, scopeVars>> /\ suiteAt = "judge"
        /\ suiteAt' \in {"acknowledge", "thrown"}
        /\ \/ UNCHANGED <<suiteReport, suiteOutput>>
           \/ /\ suiteReport' = [suiteReport EXCEPT !.receipts = @ + Receipts, !.unknown = endedUnknown]
              /\ suiteOutput' \in {suiteOutput, Kept(suiteReport')}
    BY <1>3 DEF Judge, Elsewhere, reportVars, Saved, SaveFails, Moves
  <2>2. DeploymentGoesOn /\ (transientLeft' => transientLeft \/ suiteAt' = "thrown")
    <3>1. Command("evidence") \/ (CommandThrows("evidence") /\ suiteAt' = "thrown")
      BY <1>3 DEF Judge, Moves
    <3>2. QED
      BY <3>1, CommandsGoOn DEF Command
  <2>3. suiteAt \in Attached /\ suiteAt' \in Attached
    BY <2>1 DEF Attached
  <2>4. CASE UNCHANGED <<suiteReport, suiteOutput>>
    <3>1. ReceiptsTell'
      BY <2>1, <2>4 DEF SuiteInv, ReceiptsTell, EndedSends, Early, scopeVars
    <3>2. QED
      BY <1>1, <2>1, <2>2, <2>3, <2>4, <3>1, GoesOn
  <2>5. CASE ~UNCHANGED <<suiteReport, suiteOutput>>
    <3>1. Receipts = EndedSends - suiteReport.spent /\ EndedSends \in Int
      BY <1>1 DEF Receipts, EndedSends
    <3>2. suiteReport.spent <= EndedSends /\ suiteReport.receipts <= suiteReport.spent
      BY <2>1 DEF SuiteInv, ReceiptsTell, Early
    <3>3. suiteReport.receipts \in Nat /\ suiteReport.spent \in Nat /\ Receipts \in Nat
      BY <1>1, <3>1, <3>2
    <3>4. /\ suiteReport' \in Reports /\ suiteReport'.result = suiteReport.result
          /\ suiteReport'.cleanup = suiteReport.cleanup /\ suiteReport'.qualified = suiteReport.qualified
          /\ suiteReport'.spent = suiteReport.spent /\ suiteReport'.unknown = endedUnknown
          /\ suiteReport'.receipts = suiteReport.receipts + Receipts
      <4>1. suiteReport' = [suiteReport EXCEPT !.receipts = @ + Receipts, !.unknown = endedUnknown]
        BY <2>1, <2>5, Zenon
      <4>2. suiteReport.receipts + Receipts \in Nat
        BY <3>3
      <4>3. suiteReport' = [suiteReport EXCEPT !.receipts = suiteReport.receipts + Receipts, !.unknown = endedUnknown]
        BY <4>1
      <4>4. QED
        BY <1>1, <4>2, <4>3
    <3>5. EndedSends' = EndedSends /\ endedUnknown' = endedUnknown
      BY <2>1 DEF EndedSends, scopeVars
    <3>6. suiteReport'.receipts <= EndedSends
      BY <3>1, <3>2, <3>3, <3>4
    <3>7. ReceiptsTell'
      BY <1>1, <2>1, <3>2, <3>4, <3>5, <3>6 DEF ReceiptsTell, Early
    <3>8. QED
      BY <1>1, <2>1, <2>2, <2>3, <2>5, <3>4, <3>7, GoesOn
  <2>6. QED
    BY <2>4, <2>5
<1>4. CASE AcknowledgePhase
  <2>1. /\ UNCHANGED <<suitePhase, phaseWorker, scopeVars>> /\ suiteAt = "acknowledge"
        /\ suiteAt' \in {"settle", "thrown"}
        /\ \/ UNCHANGED <<suiteReport, suiteOutput>> /\ suiteAt' = "thrown"
           \/ /\ suiteReport' = [suiteReport EXCEPT !.qualified = @ \cup {suitePhase}]
              /\ suiteOutput' \in {suiteOutput, Kept(suiteReport')}
    BY <1>4 DEF AcknowledgePhase, Elsewhere, reportVars, Saved, SaveFails, Moves
  <2>2. DeploymentGoesOn /\ (transientLeft' => transientLeft \/ suiteAt' = "thrown")
    <3>1. \/ Command("candidate") \/ UNCHANGED <<deploymentVars, refused>>
          \/ CommandThrows("candidate") /\ suiteAt' = "thrown"
      BY <1>4 DEF AcknowledgePhase, Moves
    <3>2. QED
      BY <3>1, CommandsGoOn DEF Command, deploymentVars
  <2>3. suiteAt \in Attached /\ suiteAt' \in Attached
    BY <2>1 DEF Attached
  <2>4. CASE UNCHANGED <<suiteReport, suiteOutput>> /\ suiteAt' = "thrown"
    <3>1. ReceiptsTell'
      BY <2>1, <2>4 DEF SuiteInv, ReceiptsTell, EndedSends, Early, scopeVars
    <3>2. QED
      BY <1>1, <2>1, <2>2, <2>3, <2>4, <3>1, GoesOn
  <2>5. CASE ~(UNCHANGED <<suiteReport, suiteOutput>> /\ suiteAt' = "thrown")
    <3>1. /\ suiteReport' \in Reports /\ suiteReport'.result = suiteReport.result
          /\ suiteReport'.cleanup = suiteReport.cleanup
          /\ suiteReport'.qualified = suiteReport.qualified \cup {suitePhase}
          /\ suiteReport'.spent = suiteReport.spent /\ suiteReport'.unknown = suiteReport.unknown
          /\ suiteReport'.receipts = suiteReport.receipts
      BY <1>1, <2>1, <2>5
    <3>2. ReceiptsTell'
      BY <2>1, <3>1 DEF SuiteInv, ReceiptsTell, EndedSends, Early, scopeVars
    <3>3. QED
      BY <1>1, <2>1, <2>2, <2>3, <2>5, <3>1, <3>2, GoesOn
  <2>6. QED
    BY <2>4, <2>5
<1>5. QED
  BY <1>2, <1>3, <1>4

\* A container runs, is stopped, or ends by itself; a signal reaches what it was sent to.
LEMMA WorkersKeep ==
    ASSUME SuiteInv, DeploymentGoesOn,
           UNCHANGED <<suiteAt, suitePhase, suiteReport, suiteOutput, scopeVars, deployment>>,
           suiteGateway' = suiteGateway \/ (suiteGateway = "serving" /\ suiteGateway' = "killed"),
           transientLeft' => transientLeft,
           phaseWorker' \in [Positions -> WorkerStates],
           \A p \in Positions :
               \/ phaseWorker'[p] = phaseWorker[p]
               \/ phaseWorker[p] = "running" /\ phaseWorker'[p] = "exited"
               \/ phaseWorker[p] = "starting" /\ phaseWorker'[p] \in {"running", "created"}
    PROVE  SuiteInv'
<1>1. SuiteTypeOK'
  BY DEF SuiteInv, SuiteTypeOK, DeploymentGoesOn, scopeVars
<1>2. PhasesInOrder'
  <2>1. \A p \in Positions : phaseWorker'[p] = "none" <=> phaseWorker[p] = "none"
    BY DEF SuiteInv, PhasesInOrder
  <2>2. \A p \in Positions : phaseWorker'[p] \in Alive => phaseWorker[p] \in Alive
    BY DEF Alive
  <2>3. suitePhase \in Positions
    BY DEF SuiteInv, SuiteTypeOK
  <2>4. QED
    BY <2>1, <2>2, <2>3 DEF SuiteInv, PhasesInOrder, DeploymentGoesOn, Attached
<1>3. ReceiptsTell'
  BY DEF SuiteInv, ReceiptsTell, EndedSends, scopeVars
<1>4. PassedTells'
  BY DEF SuiteInv, PassedTells, scopeVars, Alive
<1>5. OutputTells'
  BY DEF SuiteInv, OutputTells, Ended
<1>6. DeploymentTells'
  BY DEF SuiteInv, DeploymentTells, DeploymentGoesOn, Ended, Alive
<1>7. QED
  BY <1>1, <1>2, <1>3, <1>4, <1>5, <1>6 DEF SuiteInv

\* The worker starts, or ends.
LEMMA WorkerRuns ==
    ASSUME SuiteInv, AttachWorker \/ WorkerExits
    PROVE  SuiteInv'
<1>1. /\ UNCHANGED <<suiteAt, suitePhase, suiteReport, suiteOutput, scopeVars, deploymentVars, refused>>
      /\ \/ /\ phaseWorker[suitePhase] = "starting"
            /\ \E w \in {"running", "created"} : phaseWorker' = [phaseWorker EXCEPT ![suitePhase] = w]
         \/ phaseWorker[suitePhase] = "running" /\ phaseWorker' = [phaseWorker EXCEPT ![suitePhase] = "exited"]
  BY DEF AttachWorker, WorkerExits, reportVars, Elsewhere
<1>2. DeploymentGoesOn
  BY <1>1, CommandsGoOn
<1>3. phaseWorker \in [Positions -> WorkerStates] /\ suitePhase \in Positions
  BY DEF SuiteInv, SuiteTypeOK
<1>4. phaseWorker' \in [Positions -> WorkerStates]
  BY <1>1, <1>3 DEF WorkerStates
<1>5. QED
  BY <1>1, <1>2, <1>3, <1>4, WorkersKeep DEF deploymentVars

\* The signal's own fence.
LEMMA SignalKeeps ==
    ASSUME SuiteInv, SuiteSignal \/ SuiteSignalArrives
    PROVE  SuiteInv'
<1>1. CASE SuiteSignal
  <2>1. UNCHANGED <<suiteAt, suitePhase, reportVars, deploymentVars, phaseWorker, scopeVars, refused>>
    BY <1>1 DEF SuiteSignal
  <2>2. DeploymentGoesOn
    BY <2>1, CommandsGoOn
  <2>3. phaseWorker \in [Positions -> WorkerStates]
    BY DEF SuiteInv, SuiteTypeOK
  <2>4. QED
    BY <2>1, <2>2, <2>3, WorkersKeep DEF deploymentVars, reportVars
<1>2. CASE SuiteSignalArrives
  <2>1. /\ UNCHANGED <<suiteAt, suitePhase, reportVars, deployment, commandLock, scopeVars>> /\ DeploymentFenced
        /\ \/ phaseWorker' = [p \in Positions |-> IF phaseWorker[p] = "running" THEN "exited" ELSE phaseWorker[p]]
           \/ UNCHANGED phaseWorker
    BY <1>2 DEF SuiteSignalArrives
  <2>2. DeploymentGoesOn
    BY <2>1, CommandsGoOn
  <2>3. phaseWorker \in [Positions -> WorkerStates]
    BY DEF SuiteInv, SuiteTypeOK
  <2>4. phaseWorker' \in [Positions -> WorkerStates]
    BY <2>1, <2>3 DEF WorkerStates
  <2>5. \A p \in Positions : phaseWorker'[p] = phaseWorker[p] \/ (phaseWorker[p] = "running" /\ phaseWorker'[p] = "exited")
    BY <2>1
  <2>6. suiteGateway' = suiteGateway \/ (suiteGateway = "serving" /\ suiteGateway' = "killed")
    BY <2>1 DEF DeploymentFenced, KilledOrRefused, GatewayKilled
  <2>7. transientLeft' => transientLeft
    <3>1. transientLeft' = FALSE \/ transientLeft' = transientLeft
      BY <2>1 DEF DeploymentFenced
    <3>2. QED
      BY <3>1
  <2>8. QED
    BY <2>1, <2>2, <2>4, <2>5, <2>6, <2>7, WorkersKeep DEF reportVars
<1>3. QED
  BY <1>1, <1>2

\* What the provider is sent, and its end.
LEMMA SendsKeep ==
    ASSUME SuiteInv, WorkerSends \/ SendEnds
    PROVE  SuiteInv'
<1>1. /\ UNCHANGED <<suiteAt, suitePhase, suiteReport, suiteOutput, deploymentVars, phaseWorker, refused>>
      /\ scopeSpent' \in Nat /\ inFlight' \in BOOLEAN /\ endedUnknown' \in BOOLEAN
  <2>1. scopeSpent \in Nat /\ inFlight \in BOOLEAN /\ endedUnknown \in BOOLEAN
    BY DEF SuiteInv, SuiteTypeOK
  <2>2. CASE WorkerSends
    BY <2>1, <2>2 DEF WorkerSends, reportVars
  <2>3. CASE SendEnds
    BY <2>1, <2>3 DEF SendEnds, reportVars
  <2>4. QED
    BY <2>2, <2>3
<1>2. scopeSpent \in Nat /\ inFlight \in BOOLEAN /\ endedUnknown \in BOOLEAN
      /\ suiteReport.spent \in Nat /\ suiteReport.receipts \in Nat
  BY DEF SuiteInv, SuiteTypeOK
<1>3. \/ /\ phaseWorker[suitePhase] = "running" /\ ~inFlight /\ scopeSpent' = scopeSpent + 1 /\ inFlight'
         /\ endedUnknown' = endedUnknown
      \/ inFlight /\ ~inFlight' /\ scopeSpent' = scopeSpent
  BY <1>2 DEF WorkerSends, SendEnds
<1>4. suitePhase \in Positions
  BY DEF SuiteInv, SuiteTypeOK
<1>5. SuiteTypeOK'
  BY <1>1 DEF SuiteInv, SuiteTypeOK, deploymentVars
<1>6. PhasesInOrder'
  BY <1>1 DEF SuiteInv, PhasesInOrder
<1>7. suiteAt # "join" \/ (phaseWorker[suitePhase] # "running" /\ ~inFlight)
  BY <1>4 DEF SuiteInv, PhasesInOrder, ReceiptsTell, Attached, Ending, Alive
<1>8. ReceiptsTell'
  <2>1. CASE inFlight
    <3>1. EndedSends = scopeSpent - 1 /\ EndedSends' = scopeSpent
      BY <1>3, <2>1 DEF EndedSends
    <3>2. QED
      BY <1>1, <1>2, <1>7, <2>1, <3>1 DEF SuiteInv, ReceiptsTell
  <2>2. CASE ~inFlight
    <3>1. EndedSends = scopeSpent /\ EndedSends' = scopeSpent /\ endedUnknown' = endedUnknown
      BY <1>2, <1>3, <2>2 DEF EndedSends
    <3>2. suiteAt # "join"
      BY <1>3, <1>7, <2>2
    <3>3. QED
      BY <1>1, <1>2, <3>1, <3>2 DEF SuiteInv, ReceiptsTell
  <2>3. QED
    BY <2>1, <2>2
<1>9. PassedTells'
  <2>1. suiteReport.result # "passed"
    BY <1>3, <1>4 DEF SuiteInv, PassedTells, Alive
  <2>2. QED
    BY <1>1, <2>1 DEF PassedTells
<1>10. OutputTells'
  BY <1>1 DEF SuiteInv, OutputTells, Ended
<1>11. DeploymentTells'
  BY <1>1 DEF SuiteInv, DeploymentTells, Ended, deploymentVars
<1>12. QED
  BY <1>5, <1>6, <1>8, <1>9, <1>10, <1>11 DEF SuiteInv

\* The finally of a phase.
LEMMA SettleKeeps ==
    ASSUME SuiteInv, SettlePhase
    PROVE  SuiteInv'
<1>1. /\ suiteAt \in {"settle", "thrown"} /\ suiteAt' \in {"after", "failed"}
      /\ suiteAt' = "after" => suiteAt = "settle"
      /\ UNCHANGED <<suitePhase, suiteReport, scopeVars>>
      /\ suiteOutput' \in {suiteOutput, Kept(suiteReport)}
      /\ \/ /\ phaseWorker[suitePhase] # "starting"
            /\ phaseWorker' = [phaseWorker EXCEPT ![suitePhase] = IF @ = "running" THEN "exited" ELSE @]
            /\ \/ UNCHANGED <<deploymentVars, refused>>
               \/ suiteAt = "thrown" /\ CommandThrows("evidence")
         \/ UNCHANGED <<phaseWorker, deploymentVars>> /\ refused' = TRUE /\ suiteAt' = "failed"
  BY DEF SettlePhase, Elsewhere, Moves
<1>2. DeploymentGoesOn /\ (transientLeft' => transientLeft \/ suiteAt = "thrown")
  <2>1. CASE UNCHANGED <<deploymentVars, refused>> \/ (suiteAt = "thrown" /\ CommandThrows("evidence"))
    BY <2>1, CommandsGoOn DEF deploymentVars
  <2>2. CASE UNCHANGED deploymentVars /\ refused' = TRUE
    BY <2>2 DEF deploymentVars, DeploymentGoesOn, SuiteInv, SuiteTypeOK
  <2>3. QED
    BY <1>1, <2>1, <2>2
<1>3. phaseWorker \in [Positions -> WorkerStates] /\ suitePhase \in Positions
  BY <1>1 DEF SuiteInv, SuiteTypeOK
<1>4. /\ phaseWorker' \in [Positions -> WorkerStates]
      /\ \A p \in Positions : p # suitePhase => phaseWorker'[p] = phaseWorker[p]
      /\ phaseWorker'[suitePhase] = "none" <=> phaseWorker[suitePhase] = "none"
      /\ phaseWorker'[suitePhase] \in Alive => refused' /\ suiteAt' = "failed"
  BY <1>1, <1>3 DEF WorkerStates, Alive
<1>5. SuiteTypeOK'
  BY <1>1, <1>2, <1>4 DEF SuiteInv, SuiteTypeOK, DeploymentGoesOn, Ending, scopeVars
<1>6. PhasesInOrder'
  BY <1>1, <1>2, <1>3, <1>4 DEF SuiteInv, PhasesInOrder, DeploymentGoesOn, Early, Attached, Ending
<1>7. ReceiptsTell'
  BY <1>1 DEF SuiteInv, ReceiptsTell, EndedSends, Early, scopeVars
<1>8. suiteReport.result # "passed"
  BY <1>1 DEF SuiteInv, PassedTells
<1>9. PassedTells'
  BY <1>1, <1>8 DEF PassedTells
<1>10. OutputTells'
  <2>1. ~suiteReport.cleanup /\ (suiteOutput # NoReport => ~suiteOutput.cleanup)
    BY <1>1 DEF SuiteInv, OutputTells, Ended
  <2>2. suiteOutput' # NoReport => ~suiteOutput'.cleanup
    BY <1>1, <2>1 DEF Kept
  <2>3. QED
    BY <1>1, <2>1, <2>2 DEF OutputTells
<1>11. DeploymentTells'
  <2>1. transientLeft' => suiteAt' = "failed"
    BY <1>1, <1>2 DEF SuiteInv, DeploymentTells, Ending
  <2>2. QED
    BY <1>1, <1>8, <2>1 DEF DeploymentTells, Ended, Ending
<1>12. QED
  BY <1>5, <1>6, <1>7, <1>9, <1>10, <1>11 DEF SuiteInv

\* Between two phases, and after the last.
LEMMA BetweenKeeps ==
    ASSUME SuiteInv, Failed \/ AfterPhase \/ TransitionSuite
    PROVE  SuiteInv'
<1> DEFINE Reports == [result : {"failed", "passed"}, receipts : Nat, unknown : BOOLEAN,
                       qualified : SUBSET Positions, transition : BOOLEAN, spent : Nat, cleanup : BOOLEAN]
<1>1. /\ suiteReport \in Reports /\ suitePhase \in Positions /\ scopeSpent \in Nat
      /\ phaseWorker \in [Positions -> WorkerStates] /\ inFlight \in BOOLEAN
  BY DEF SuiteInv, SuiteTypeOK
<1>2. PICK c \in {"inspect", "transition"} :
        /\ Command(c) \/ CommandThrows(c) \/ UNCHANGED <<deploymentVars, refused>>
        /\ suiteAt \in {"failed", "after", "transition"} /\ UNCHANGED <<phaseWorker, scopeVars>>
        /\ \/ Throw /\ UNCHANGED suitePhase
           \/ /\ Command(c) /\ suiteAt = "after" /\ ~inFlight /\ UNCHANGED suiteOutput
              /\ suiteReport' = [suiteReport EXCEPT !.spent = scopeSpent]
              /\ \/ SuitePhases[suitePhase] = "continuity_a" /\ suiteAt' = "transition" /\ UNCHANGED suitePhase
                 \/ suitePhase < Len(SuitePhases) /\ suiteAt' = "current" /\ suitePhase' = suitePhase + 1
                 \/ suiteAt' = "join" /\ UNCHANGED suitePhase
           \/ /\ Command(c) /\ suiteAt = "transition" /\ suiteOutput' = Kept(suiteReport')
              /\ suiteReport' = [suiteReport EXCEPT !.transition = TRUE]
              /\ suiteAt' = "current" /\ suitePhase' = suitePhase + 1
  <2>1. CASE Failed
    BY <2>1 DEF Failed, Elsewhere
  <2>2. CASE AfterPhase
    BY <2>2 DEF AfterPhase, Elsewhere, CurrentScope, CurrentThrows, Moves
  <2>3. CASE TransitionSuite
    BY <2>3 DEF TransitionSuite, Elsewhere, Saved, Moves
  <2>4. QED
    BY <2>1, <2>2, <2>3
<1>3. DeploymentGoesOn
  BY <1>2, CommandsGoOn
<1>4. CASE Throw /\ UNCHANGED suitePhase
  BY <1>1, <1>2, <1>3, <1>4, ThrowKeeps
<1>5. CASE ~(Throw /\ UNCHANGED suitePhase)
  <2>1. /\ suiteAt \in {"after", "transition"} /\ suiteAt' \in {"transition", "current", "join"}
        /\ UNCHANGED <<phaseWorker, scopeVars>>
        /\ suiteOutput' \in {suiteOutput, Kept(suiteReport')} /\ transientLeft' = transientLeft
    BY <1>2, <1>5 DEF Command
  <2>2. /\ suiteReport' \in Reports /\ suiteReport'.result = suiteReport.result
        /\ suiteReport'.receipts = suiteReport.receipts /\ suiteReport'.unknown = suiteReport.unknown
        /\ suiteReport'.qualified = suiteReport.qualified /\ suiteReport'.cleanup = suiteReport.cleanup
        /\ suiteReport'.spent = suiteReport.spent \/ (suiteReport'.spent = scopeSpent /\ ~inFlight)
        /\ suiteAt = "transition" => suiteReport'.spent = suiteReport.spent
        /\ suiteAt = "after" => suiteReport'.spent = scopeSpent /\ ~inFlight
    BY <1>1, <1>2, <1>5
  <2>3. /\ suitePhase' \in Positions /\ suitePhase \in 1 .. 4 /\ suitePhase' \in 1 .. 4 /\ Positions = 1 .. 4
        /\ suiteAt' = "current" => suitePhase' = suitePhase + 1
        /\ suiteAt' # "current" => suitePhase' = suitePhase
        /\ suiteAt' = "transition" => suitePhase' < Len(SuitePhases)
        /\ suiteAt' = "join" => suiteAt = "after"
        /\ suiteAt' = "transition" => suiteAt = "after"
    <3>1. SuitePhases[suitePhase] = "continuity_a" => suitePhase < 4
      BY <1>1, FourPhases DEF SuitePhases
    <3>2. suiteAt = "transition" => suitePhase < 4
      BY FourPhases DEF SuiteInv, PhasesInOrder
    <3>3. QED
      BY <1>1, <1>2, <1>5, <3>1, <3>2, FourPhases
  <2>4. /\ suitePhase \in suiteReport.qualified /\ \A p \in Positions : phaseWorker[p] \notin Alive
        /\ \A p \in Positions : p > suitePhase => phaseWorker[p] = "none"
        /\ \A p \in Positions : p < suitePhase => p \in suiteReport.qualified
        /\ \A p \in suiteReport.qualified : phaseWorker[p] # "none"
    BY <1>1, <2>1 DEF SuiteInv, PhasesInOrder, Attached, Ending
  <2>5. SuiteTypeOK'
    BY <1>1, <1>3, <2>1, <2>2, <2>3 DEF SuiteInv, SuiteTypeOK, DeploymentGoesOn, scopeVars, Early
  <2>6. PhasesInOrder'
    <3>1. phaseWorker' = phaseWorker /\ suiteReport'.qualified = suiteReport.qualified
      BY <2>1, <2>2
    <3>2. \A p \in 1 .. 4 : (p > suitePhase' => p > suitePhase) /\ (p < suitePhase' => p < suitePhase \/ p = suitePhase)
      BY <2>1, <2>3
    <3>3. suiteAt' = "current" => suitePhase' > suitePhase
      BY <2>3
    <3>4. suiteAt' \in Early => suiteAt' = "current"
      BY <2>1 DEF Early
    <3>5. QED
      BY <2>1, <2>3, <2>4, <3>1, <3>2, <3>3, <3>4 DEF PhasesInOrder
  <2>7. ReceiptsTell'
    <3>1. EndedSends' = EndedSends /\ endedUnknown' = endedUnknown /\ scopeSpent' = scopeSpent /\ inFlight' = inFlight
      BY <2>1 DEF EndedSends, scopeVars
    <3>2. suiteReport.receipts <= EndedSends /\ suiteReport.spent <= EndedSends
      BY DEF SuiteInv, ReceiptsTell
    <3>3. suiteReport'.receipts <= suiteReport'.spent
      <4>1. CASE suiteAt = "after"
        BY <2>2, <3>2, <4>1 DEF EndedSends
      <4>2. CASE suiteAt = "transition"
        BY <2>2, <4>2 DEF SuiteInv, ReceiptsTell
      <4>3. QED
        BY <2>1, <4>1, <4>2
    <3>4. suiteReport'.spent <= EndedSends'
      BY <2>2, <1>1, <3>1, <3>2 DEF EndedSends
    <3>5. endedUnknown' /\ ~suiteReport'.unknown => suiteReport'.receipts < EndedSends'
      BY <2>2, <3>1 DEF SuiteInv, ReceiptsTell
    <3>6. suiteAt' = "join" => suiteReport'.spent = scopeSpent' /\ ~inFlight'
      BY <2>2, <2>3, <3>1
    <3>7. QED
      BY <2>2, <3>1, <3>2, <3>3, <3>4, <3>5, <3>6 DEF ReceiptsTell
  <2>8. PassedTells'
    BY <2>1, <2>2 DEF SuiteInv, PassedTells
  <2>9. OutputTells'
    <3>1. ~suiteReport.cleanup /\ (suiteOutput # NoReport => ~suiteOutput.cleanup)
      BY <2>1 DEF SuiteInv, OutputTells, Ended
    <3>2. suiteOutput' # NoReport => ~suiteOutput'.cleanup
      BY <2>1, <2>2, <3>1 DEF Kept
    <3>3. QED
      BY <2>2, <3>1, <3>2 DEF OutputTells
  <2>10. DeploymentTells'
    BY <2>1 DEF SuiteInv, DeploymentTells, Ended, Ending
  <2>11. QED
    BY <2>5, <2>6, <2>7, <2>8, <2>9, <2>10 DEF SuiteInv
<1>6. QED
  BY <1>4, <1>5

\* The end: what passed was counted to the last operation.
LEMMA JoinKeeps ==
    ASSUME SuiteInv, Join
    PROVE  SuiteInv'
<1>1. suiteAt = "join" /\ UNCHANGED <<suitePhase, deploymentVars, phaseWorker, scopeVars, refused>>
  BY DEF Join, Elsewhere
<1>2. DeploymentGoesOn
  BY <1>1, CommandsGoOn
<1>3. CASE Throw
  BY <1>1, <1>2, <1>3, ThrowKeeps DEF SuiteInv, SuiteTypeOK
<1>4. CASE ~Throw
  <2>1. /\ JoinedPhysical /\ suiteReport.transition /\ suiteAt' = "stop"
        /\ suiteReport' = [suiteReport EXCEPT !.result = "passed"]
        /\ suiteOutput' = Kept(suiteReport')
    BY <1>4 DEF Join, Saved, Moves
  <2>2. /\ suiteReport' \in [result : {"failed", "passed"}, receipts : Nat, unknown : BOOLEAN,
                        qualified : SUBSET Positions, transition : BOOLEAN, spent : Nat, cleanup : BOOLEAN]
        /\ suiteReport'.cleanup = suiteReport.cleanup /\ suiteReport'.transition = suiteReport.transition
        /\ suiteReport'.receipts = suiteReport.receipts /\ suiteReport'.spent = suiteReport.spent
        /\ suiteReport'.unknown = suiteReport.unknown /\ suiteReport'.qualified = suiteReport.qualified
    BY <2>1 DEF SuiteInv, SuiteTypeOK
  <2>3. \A p \in Positions : phaseWorker[p] \notin Alive
    BY <1>1 DEF SuiteInv, PhasesInOrder, Attached, Ending
  <2>4. /\ suiteReport.spent = scopeSpent /\ ~inFlight /\ suiteReport.receipts = scopeSpent
        /\ ~suiteReport.unknown /\ suiteReport.qualified = Positions
    BY <1>1, <2>1 DEF SuiteInv, ReceiptsTell, JoinedPhysical
  <2>5. ~endedUnknown
    BY <2>4 DEF SuiteInv, SuiteTypeOK, ReceiptsTell, EndedSends
  <2>6. SuiteTypeOK'
    BY <1>1, <1>2, <2>1, <2>2 DEF SuiteInv, SuiteTypeOK, DeploymentGoesOn, Ending, scopeVars
  <2>7. PhasesInOrder'
    BY <1>1, <2>1, <2>2, <2>3 DEF SuiteInv, PhasesInOrder, Early, Attached, Ending
  <2>8. ReceiptsTell'
    BY <1>1, <2>1, <2>2 DEF SuiteInv, ReceiptsTell, EndedSends, Early, scopeVars
  <2>9. PassedTells'
    BY <1>1, <2>1, <2>2, <2>3, <2>4, <2>5 DEF PassedTells, scopeVars
  <2>10. OutputTells'
    BY <1>1, <2>1, <2>2 DEF SuiteInv, OutputTells, Ended, Kept
  <2>11. DeploymentTells'
    BY <1>1, <2>1 DEF SuiteInv, DeploymentTells, Ended, Ending, deploymentVars
  <2>12. QED
    BY <2>6, <2>7, <2>8, <2>9, <2>10, <2>11 DEF SuiteInv
<1>5. QED
  BY <1>3, <1>4

\* The deployment is stopped in order, or fenced.
LEMMA StoppingKeeps ==
    ASSUME SuiteInv, StopDeployment \/ FenceDeployment
    PROVE  SuiteInv'
<1> DEFINE Reports == [result : {"failed", "passed"}, receipts : Nat, unknown : BOOLEAN,
                       qualified : SUBSET Positions, transition : BOOLEAN, spent : Nat, cleanup : BOOLEAN]
<1>1. /\ UNCHANGED <<suitePhase, suiteOutput, phaseWorker, scopeVars>>
      /\ \/ /\ suiteAt = "stop" /\ Command("stop") /\ suiteAt' = "sweep" /\ UNCHANGED suiteReport
         \/ /\ suiteAt = "stop" /\ CommandThrows("stop") /\ suiteAt' = "fence"
            /\ suiteReport' = [suiteReport EXCEPT !.result = "failed"]
         \/ /\ suiteAt = "fence" /\ DeploymentFenced /\ UNCHANGED commandLock /\ suiteAt' = "sweep"
            /\ UNCHANGED suiteReport
  BY DEF StopDeployment, FenceDeployment, Moves, Elsewhere, reportVars
<1>2. DeploymentGoesOn
  BY <1>1, CommandsGoOn
<1>3. /\ suiteReport \in Reports /\ suiteReport' \in Reports
      /\ suiteReport'.cleanup = suiteReport.cleanup /\ suiteReport'.transition = suiteReport.transition
      /\ suiteReport'.receipts = suiteReport.receipts /\ suiteReport'.spent = suiteReport.spent
      /\ suiteReport'.unknown = suiteReport.unknown /\ suiteReport'.qualified = suiteReport.qualified
  BY <1>1 DEF SuiteInv, SuiteTypeOK
<1>4. suiteAt \in {"stop", "fence"} /\ suiteAt' \in {"fence", "sweep"}
  BY <1>1
<1>5. SuiteTypeOK'
  BY <1>1, <1>2, <1>3, <1>4 DEF SuiteInv, SuiteTypeOK, DeploymentGoesOn, Ending, scopeVars
<1>6. PhasesInOrder'
  BY <1>1, <1>2, <1>3, <1>4 DEF SuiteInv, PhasesInOrder, DeploymentGoesOn, Early, Attached, Ending
<1>7. ReceiptsTell'
  BY <1>1, <1>3, <1>4 DEF SuiteInv, ReceiptsTell, EndedSends, Early, scopeVars
<1>8. PassedTells'
  <2>1. CASE suiteReport'.result = "passed"
    <3>1. suiteAt = "stop" /\ Command("stop") /\ suiteAt' = "sweep" /\ suiteReport' = suiteReport
      BY <1>1, <1>3, <2>1 DEF SuiteInv, PassedTells
    <3>2. deployment' = "stopped" /\ suiteGateway' = "drained"
      BY <3>1 DEF Command, PhaseAfterCommand
    <3>3. QED
      BY <1>1, <2>1, <3>1, <3>2 DEF SuiteInv, PassedTells, scopeVars
  <2>2. QED
    BY <2>1 DEF PassedTells
<1>9. OutputTells'
  BY <1>1, <1>3, <1>4 DEF SuiteInv, OutputTells, Ended
<1>10. DeploymentTells'
  <2>1. suiteAt' = "sweep" /\ ~refused' => suiteGateway' # "serving"
    <3>1. CASE Command("stop")
      BY <3>1 DEF Command
    <3>2. CASE DeploymentFenced
      BY <3>2 DEF DeploymentFenced, KilledOrRefused, GatewayKilled
    <3>3. QED
      BY <1>1, <3>1, <3>2
  <2>2. transientLeft' => suiteReport'.result # "passed"
    <3>1. CASE suiteReport' = [suiteReport EXCEPT !.result = "failed"]
      BY <1>3, <3>1
    <3>2. CASE Command("stop") /\ UNCHANGED suiteReport
      BY <3>2 DEF Command, SuiteInv, DeploymentTells
    <3>3. CASE DeploymentFenced /\ suiteAt = "fence" /\ UNCHANGED suiteReport
      BY <3>3 DEF SuiteInv, PassedTells
    <3>4. QED
      BY <1>1, <3>1, <3>2, <3>3
  <2>3. QED
    BY <1>4, <2>1, <2>2 DEF DeploymentTells, Ended, Ending
<1>11. QED
  BY <1>5, <1>6, <1>7, <1>8, <1>9, <1>10 DEF SuiteInv

\* The sweep of the workers, and the last save.
LEMMA SweepKeeps ==
    ASSUME SuiteInv, SweepWorkers
    PROVE  SuiteInv'
<1>1. PICK kept \in SUBSET {p \in Positions : phaseWorker[p] # "none"} :
        LET left == {p \in Positions : phaseWorker[p] # "none" /\ (retainResources \/ p \in kept)}
            clean == left = {}
        IN /\ phaseWorker' = [p \in Positions |->
                IF phaseWorker[p] = "none" \/ p \in kept THEN phaseWorker[p]
                ELSE IF ~retainResources THEN "removed"
                ELSE IF phaseWorker[p] = "running" THEN "exited" ELSE phaseWorker[p]]
           /\ refused' = (refused \/ \E p \in kept : phaseWorker[p] \in Alive)
           /\ suiteReport' = [suiteReport EXCEPT !.cleanup = clean, !.result = IF clean THEN @ ELSE "failed"]
  BY DEF SweepWorkers
<1>2. /\ suiteAt = "sweep" /\ suiteAt' = "ended" /\ suiteOutput' \in {suiteOutput, Kept(suiteReport')}
      /\ UNCHANGED <<suitePhase, deploymentVars, scopeVars>>
  BY DEF SweepWorkers, Saved, SaveFails, Moves, Elsewhere
<1> DEFINE clean == {p \in Positions : phaseWorker[p] # "none" /\ (retainResources \/ p \in kept)} = {}
<1>3. /\ suiteReport \in [result : {"failed", "passed"}, receipts : Nat, unknown : BOOLEAN,
                       qualified : SUBSET Positions, transition : BOOLEAN, spent : Nat, cleanup : BOOLEAN]
      /\ phaseWorker \in [Positions -> WorkerStates] /\ clean \in BOOLEAN
      /\ refused \in BOOLEAN
  BY DEF SuiteInv, SuiteTypeOK
<1>4. suiteReport' = [suiteReport EXCEPT !.cleanup = clean, !.result = IF clean THEN suiteReport.result ELSE "failed"]
  BY <1>1
<1>5. /\ phaseWorker' \in [Positions -> WorkerStates]
      /\ \A p \in Positions :
            /\ phaseWorker'[p] = "none" <=> phaseWorker[p] = "none"
            /\ phaseWorker'[p] \in Alive => phaseWorker[p] \in Alive
            /\ clean /\ phaseWorker[p] # "none" => phaseWorker'[p] = "removed"
  <2>1. ASSUME NEW p \in Positions
        PROVE  /\ phaseWorker'[p] \in WorkerStates
               /\ phaseWorker'[p] = "none" <=> phaseWorker[p] = "none"
               /\ phaseWorker'[p] \in Alive => phaseWorker[p] \in Alive
               /\ clean /\ phaseWorker[p] # "none" => phaseWorker'[p] = "removed"
    <3>1. phaseWorker'[p] = IF phaseWorker[p] = "none" \/ p \in kept THEN phaseWorker[p]
                ELSE IF ~retainResources THEN "removed"
                ELSE IF phaseWorker[p] = "running" THEN "exited" ELSE phaseWorker[p]
      BY <1>1
    <3>2. clean /\ phaseWorker[p] # "none" => ~retainResources /\ p \notin kept
      OBVIOUS
    <3> HIDE DEF clean
    <3>3. QED
      BY <1>3, <3>1, <3>2 DEF WorkerStates, Alive
  <2>2. phaseWorker' = [p \in Positions |-> phaseWorker'[p]]
    BY <1>1
  <2> HIDE DEF clean
  <2>3. QED
    BY <2>1, <2>2
<1> HIDE DEF clean
<1>6. /\ suiteReport' \in [result : {"failed", "passed"}, receipts : Nat, unknown : BOOLEAN,
                       qualified : SUBSET Positions, transition : BOOLEAN, spent : Nat, cleanup : BOOLEAN]
      /\ suiteReport'.cleanup = clean /\ suiteReport'.transition = suiteReport.transition
      /\ suiteReport'.receipts = suiteReport.receipts /\ suiteReport'.spent = suiteReport.spent
      /\ suiteReport'.unknown = suiteReport.unknown /\ suiteReport'.qualified = suiteReport.qualified
      /\ suiteReport'.result = "passed" => suiteReport.result = "passed" /\ clean
  BY <1>3, <1>4
<1>7. /\ refused' \in BOOLEAN /\ (refused => refused')
      /\ \A p \in Positions : phaseWorker'[p] \in Alive => refused'
  <2>1. refused' = (refused \/ \E p \in kept : phaseWorker[p] \in Alive)
    BY <1>1
  <2>2. refused' \in BOOLEAN
    BY <1>3, <2>1
  <2>3. refused => refused'
    BY <2>1
  <2>4. \A p \in Positions : phaseWorker'[p] \in Alive => refused'
    BY <1>2, <1>5, <2>3 DEF SuiteInv, PhasesInOrder, Attached
  <2>5. QED
    BY <2>2, <2>3, <2>4
<1>8. SuiteTypeOK'
  BY <1>2, <1>5, <1>6, <1>7 DEF SuiteInv, SuiteTypeOK, Ending, scopeVars, deploymentVars
<1>9. PhasesInOrder'
  BY <1>2, <1>5, <1>6, <1>7 DEF SuiteInv, PhasesInOrder, Early, Attached, Ending
<1>10. ReceiptsTell'
  BY <1>2, <1>6 DEF SuiteInv, ReceiptsTell, EndedSends, Early, scopeVars
<1>11. PassedTells'
  BY <1>2, <1>5, <1>6 DEF SuiteInv, PassedTells, scopeVars, deploymentVars
<1>12. OutputTells'
  <2>1. suiteOutput # NoReport => ~suiteOutput.cleanup
    BY <1>2 DEF SuiteInv, OutputTells, Ended
  <2>2. ASSUME suiteOutput' # NoReport, suiteOutput'.result = "passed", suiteOutput'.cleanup
        PROVE  suiteReport'.result = "passed" /\ \A p \in Positions : phaseWorker'[p] = "removed"
    <3>1. suiteOutput' = Kept(suiteReport')
      BY <1>2, <2>1, <2>2
    <3>2. suiteReport'.result = "passed" /\ clean
      BY <1>6, <2>2, <3>1 DEF Kept
    <3>3. suiteReport.qualified = Positions
      BY <1>6, <3>2 DEF SuiteInv, PassedTells
    <3>4. \A p \in Positions : phaseWorker[p] # "none"
      BY <3>3 DEF SuiteInv, PhasesInOrder
    <3>5. QED
      BY <1>5, <3>2, <3>4
  <2>3. QED
    BY <1>2, <2>2 DEF OutputTells, Ended
<1>13. DeploymentTells'
  BY <1>2, <1>6, <1>7 DEF SuiteInv, DeploymentTells, Ended, Ending, deploymentVars
<1>14. QED
  BY <1>8, <1>9, <1>10, <1>11, <1>12, <1>13 DEF SuiteInv

\* The suite's output and its end tell the truth, whatever signals, kills, refusals and failed
\* writes come in between (runSuite, suite-observation, the commands of deployment.ts).
THEOREM TheSuiteTellsTheTruth == SuiteInit /\ [][SuiteNext]_suiteVars => []SuiteTellsTheTruth
<1>1. SuiteInit => SuiteInv
  <2> SUFFICES ASSUME SuiteInit PROVE SuiteInv
    OBVIOUS
  <2>1. Positions = 1 .. 4 /\ Len(SuitePhases) = 4
    BY FourPhases
  <2>2. SuiteTypeOK
    <3>1. suiteReport \in [result : {"failed", "passed"}, receipts : Nat, unknown : BOOLEAN,
                           qualified : SUBSET Positions, transition : BOOLEAN, spent : Nat, cleanup : BOOLEAN]
      BY DEF SuiteInit
    <3>2. phaseWorker \in [Positions -> WorkerStates]
      BY DEF SuiteInit, WorkerStates
    <3>3. inFlight \in BOOLEAN /\ endedUnknown \in BOOLEAN /\ refused \in BOOLEAN
      BY DEF SuiteInit
    <3>4. transientLeft \in BOOLEAN /\ commandLock \in BOOLEAN
      BY DEF SuiteInit
    <3>5. suiteAt \in Early /\ suitePhase \in Positions /\ scopeSpent \in Nat
      BY <2>1 DEF SuiteInit, Early
    <3>6. QED
      BY <3>1, <3>2, <3>3, <3>4, <3>5 DEF SuiteTypeOK
  <2>3. PhasesInOrder
    BY <2>1 DEF SuiteInit, PhasesInOrder, Alive
  <2>4. ReceiptsTell
    BY DEF SuiteInit, ReceiptsTell, EndedSends
  <2>5. PassedTells /\ OutputTells /\ DeploymentTells
    BY DEF SuiteInit, PassedTells, OutputTells, DeploymentTells, Ended
  <2>6. QED
    BY <2>2, <2>3, <2>4, <2>5 DEF SuiteInv
<1>2. SuiteInv /\ [SuiteNext]_suiteVars => SuiteInv'
  <2> SUFFICES ASSUME SuiteInv, [SuiteNext]_suiteVars PROVE SuiteInv'
    OBVIOUS
  <2>1. CASE UNCHANGED suiteVars
    <3>1. SuiteTypeOK' /\ PhasesInOrder'
      BY <2>1 DEF suiteVars, reportVars, deploymentVars, scopeVars, SuiteInv, SuiteTypeOK, PhasesInOrder
    <3>2. ReceiptsTell' /\ PassedTells'
      BY <2>1 DEF suiteVars, reportVars, deploymentVars, scopeVars, SuiteInv, ReceiptsTell, EndedSends, PassedTells
    <3>3. OutputTells' /\ DeploymentTells'
      BY <2>1 DEF suiteVars, reportVars, deploymentVars, scopeVars, SuiteInv, OutputTells, DeploymentTells, Ended
    <3>4. QED
      BY <3>1, <3>2, <3>3 DEF SuiteInv
  <2>2. QED
    BY <2>1, BeginningKeeps, CreateKeeps, PhaseKeeps, WorkerRuns, SignalKeeps, SendsKeep, SettleKeeps,
       BetweenKeeps, JoinKeeps, StoppingKeeps, SweepKeeps DEF SuiteNext
<1>3. SuiteInv => SuiteTellsTheTruth
  <2> SUFFICES ASSUME SuiteInv PROVE SuiteTellsTheTruth
    OBVIOUS
  <2>1. ASSUME suiteOutput # NoReport, suiteOutput.result = "passed", suiteOutput.cleanup
        PROVE  /\ suiteReport.qualified = Positions /\ suiteReport.transition
               /\ suiteReport.receipts = scopeSpent /\ ~endedUnknown /\ ~inFlight
               /\ \A p \in Positions : phaseWorker[p] = "removed"
               /\ deployment = "stopped" /\ suiteGateway = "drained" /\ ~transientLeft
    <3>1. suiteAt = "ended" /\ suiteReport.result = "passed" /\ \A p \in Positions : phaseWorker[p] = "removed"
      BY <2>1 DEF SuiteInv, OutputTells, Ended
    <3>2. QED
      BY <3>1 DEF SuiteInv, PassedTells, DeploymentTells
  <2>2. ASSUME NEW p \in Positions, NEW q \in Positions, phaseWorker[q] # "none", p < q
        PROVE  p \in suiteReport.qualified /\ phaseWorker[p] \notin Alive
    <3>1. Positions = 1 .. 4 /\ suitePhase \in Positions
      BY FourPhases DEF SuiteInv, SuiteTypeOK
    <3>2. q <= suitePhase
      BY <2>2, <3>1 DEF SuiteInv, PhasesInOrder
    <3>3. p < suitePhase
      BY <2>2, <3>1, <3>2
    <3>4. QED
      BY <3>1, <3>3 DEF SuiteInv, PhasesInOrder
  <2>3. Ended /\ ~refused =>
            suiteGateway # "serving" /\ \A p \in Positions : phaseWorker[p] \notin Alive
    BY DEF SuiteInv, DeploymentTells, Ended
  <2>4. QED
    BY <2>1, <2>2, <2>3 DEF SuiteTellsTheTruth
<1>4. QED
  BY <1>1, <1>2, <1>3, PTL

-----------------------------------------------------------------------------
(* Snapshots and bundles *)

Parts == DOMAIN Folded
Key(entries, n) == Fold(Tail(Named(entries, n)))
Extracts(entries) ==
    {[path |-> Tail(Named(entries, n)), mode |-> entries[n].mode, content |-> entries[n].content] : n \in FilesOf(entries)}

\* The name that the next entry was given, if any, is of the entry before it.
NamePends ==
    LET last == archive[Len(archive)]
    IN  pendingName = IF archive = <<>> THEN NoName
                      ELSE IF last.type \notin Metadata THEN NoName
                      ELSE IF last.path = <<>> THEN [kind |-> "kept", path |-> <<>>]
                      ELSE [kind |-> "given", path |-> last.path]

\* Every file is known by its folded name, and every directory but the root.
EntriesKnown ==
    /\ archive \in Seq(ArchiveEntries)
    /\ archiveRoot = NoSnapshot \/ (archiveRoot \in Seq(Parts) /\ Len(archiveRoot) = 1)
    /\ \A n \in DOMAIN archive :
        \/ archive[n].type \in Metadata
        \/ archive[n].type = "directory" /\ Named(archive, n) = archiveRoot /\ archiveRoot # NoSnapshot
        \/ /\ archive[n].type \in {"file", "directory"}
           /\ Len(Named(archive, n)) >= 2
           /\ Key(archive, n) \in DOMAIN entryKinds /\ entryKinds[Key(archive, n)] = archive[n].type

\* No two files have one key, and no directory lies where a file is.
EntriesApart ==
    \A m, n \in DOMAIN archive :
        archive[n].type = "file" /\ m # n =>
            /\ archive[m].type = "file" => Key(archive, m) # Key(archive, n)
            /\ archive[m].type = "directory" /\ Len(Named(archive, m)) >= 2 =>
                  ~IsPrefix(Key(archive, n), Key(archive, m))

ArchivedFiles == [path : Seq(Parts), mode : {e.mode : e \in ArchiveEntries}, content : {e.content : e \in ArchiveEntries}]
Revisions == {"base", "candidate"}

ParserInv ==
    /\ NamePends /\ EntriesKnown /\ EntriesApart
    /\ sources = Extracts(archive)
    /\ parsing = "parsed" => Inventory(sources)

\* A snapshot is what extracting its export would leave, under names that are all apart.
SnapshotsTell ==
    /\ snapshots \in [Revisions -> {NoSnapshot} \cup SUBSET ArchivedFiles] /\ DOMAIN archives = Revisions
    /\ \A r \in Revisions : snapshots[r] # NoSnapshot =>
        /\ archives[r].plain /\ archives[r].files = snapshots[r]
        /\ snapshots[r] \in SUBSET ArchivedFiles /\ Inventory(snapshots[r])
    /\ snapshots["base"] \in {NoSnapshot, BaseTree}

\* A bundle is of the two snapshots, which are final, and was compared.
BundleTells ==
    bundle # NoSnapshot =>
        /\ revision = "done"
        /\ bundle.base = snapshots["base"] /\ bundle.candidate = snapshots["candidate"]
        /\ \A r \in Revisions : snapshots[r] # NoSnapshot
        /\ ChangedPaths(snapshots["base"], snapshots["candidate"]).sound
        /\ ChangedPaths(snapshots["base"], snapshots["candidate"]).paths = WritePaths
        /\ TextWrites(snapshots["candidate"])

ArtifactInv == ParserInv /\ SnapshotsTell /\ BundleTells

-----------------------------------------------------------------------------
\* A prefix, part by part.
LEMMA PrefixIs ==
    ASSUME NEW S, NEW s \in Seq(S), NEW t \in Seq(S)
    PROVE  IsPrefix(s, t) <=> Len(s) <= Len(t) /\ \A i \in 1 .. Len(s) : s[i] = t[i]
<1>1. SubSeq(s, 1, Len(s)) = s
  OBVIOUS
<1>2. ASSUME Len(s) <= Len(t)
      PROVE  SubSeq(t, 1, Len(s)) = s <=> \A i \in 1 .. Len(s) : s[i] = t[i]
  <2>1. /\ SubSeq(t, 1, Len(s)) \in Seq(S) /\ Len(SubSeq(t, 1, Len(s))) = Len(s)
        /\ \A i \in 1 .. Len(s) : SubSeq(t, 1, Len(s))[i] = t[i]
    BY <1>2
  <2> DEFINE u == SubSeq(t, 1, Len(s))
  <2> HIDE DEF u
  <2>2. u = s <=> \A i \in 1 .. Len(s) : s[i] = t[i]
    BY <2>1 DEF u
  <2>3. QED
    BY <2>2 DEF u
<1>3. QED
  BY <1>1, <1>2 DEF IsPrefix

\* Folding a name folds what is below its first part.
LEMMA FoldOfTail ==
    ASSUME NEW s \in Seq(Parts), Len(s) >= 1
    PROVE  /\ Fold(s) \in Seq({Folded[x] : x \in Parts}) /\ Len(Fold(s)) = Len(s)
           /\ Fold(Tail(s)) \in Seq({Folded[x] : x \in Parts}) /\ Len(Fold(Tail(s))) = Len(s) - 1
           /\ \A i \in 1 .. Len(s) - 1 : Fold(Tail(s))[i] = Fold(s)[i + 1]
<1>1. /\ Tail(s) \in Seq(Parts) /\ Len(Tail(s)) = Len(s) - 1 /\ Len(s) \in Nat
      /\ \A i \in 1 .. Len(s) - 1 : Tail(s)[i] = s[i + 1]
  OBVIOUS
<1>2. ASSUME NEW t \in Seq(Parts)
      PROVE  /\ Fold(t) \in Seq({Folded[x] : x \in Parts}) /\ Len(Fold(t)) = Len(t)
             /\ \A i \in 1 .. Len(t) : Fold(t)[i] = Folded[t[i]]
  <2>1. DOMAIN t = 1 .. Len(t) /\ Len(t) \in Nat
    OBVIOUS
  <2>2. Fold(t) = [n \in 1 .. Len(t) |-> Folded[t[n]]]
    BY <2>1 DEF Fold
  <2>3. \A n \in 1 .. Len(t) : Folded[t[n]] \in {Folded[x] : x \in Parts}
    OBVIOUS
  <2> HIDE DEF Parts
  <2>4. QED
    BY <2>1, <2>2, <2>3
<1>3. \A i \in 1 .. Len(s) - 1 : i + 1 \in 1 .. Len(s)
  BY <1>1
<1>4. /\ Fold(s) \in Seq({Folded[x] : x \in Parts}) /\ Len(Fold(s)) = Len(s)
      /\ \A i \in 1 .. Len(s) : Fold(s)[i] = Folded[s[i]]
  BY <1>2
<1> DEFINE t == Tail(s)
<1>5. /\ t \in Seq(Parts) /\ Len(t) = Len(s) - 1 /\ \A i \in 1 .. Len(s) - 1 : t[i] = s[i + 1]
  BY <1>1
<1> HIDE DEF t
<1>6. /\ Fold(t) \in Seq({Folded[x] : x \in Parts}) /\ Len(Fold(t)) = Len(t)
      /\ \A i \in 1 .. Len(t) : Fold(t)[i] = Folded[t[i]]
  BY <1>2, <1>5
<1>7. \A i \in 1 .. Len(s) - 1 : Fold(t)[i] = Fold(s)[i + 1]
  BY <1>3, <1>4, <1>5, <1>6
<1>8. QED
  BY <1>4, <1>5, <1>6, <1>7 DEF t

\* So what is equal, or a prefix, is so below the first part.
LEMMA TailsFollow ==
    ASSUME NEW s \in Seq(Parts), NEW t \in Seq(Parts), Len(s) >= 1, Len(t) >= 1
    PROVE  /\ Fold(s) = Fold(t) => Fold(Tail(s)) = Fold(Tail(t))
           /\ IsPrefix(Fold(s), Fold(t)) => IsPrefix(Fold(Tail(s)), Fold(Tail(t))) /\ Len(s) <= Len(t)
<1> DEFINE S == {Folded[x] : x \in Parts}
           a == Fold(s)
           b == Fold(t)
           c == Fold(Tail(s))
           d == Fold(Tail(t))
<1>1. /\ a \in Seq(S) /\ Len(a) = Len(s) /\ c \in Seq(S) /\ Len(c) = Len(s) - 1
      /\ \A i \in 1 .. Len(s) - 1 : c[i] = a[i + 1]
  BY FoldOfTail
<1>2. /\ b \in Seq(S) /\ Len(b) = Len(t) /\ d \in Seq(S) /\ Len(d) = Len(t) - 1
      /\ \A i \in 1 .. Len(t) - 1 : d[i] = b[i + 1]
  BY FoldOfTail
<1>3. Len(s) \in Nat /\ Len(t) \in Nat
  OBVIOUS
<1> HIDE DEF a, b, c, d, S
<1>4. a = b => c = d
  <2> SUFFICES ASSUME a = b PROVE c = d
    OBVIOUS
  <2>1. Len(c) = Len(d) /\ \A i \in 1 .. Len(c) : c[i] = d[i]
    BY <1>1, <1>2
  <2>2. QED
    BY <1>1, <1>2, <2>1
<1>5. IsPrefix(a, b) => IsPrefix(c, d) /\ Len(s) <= Len(t)
  <2> SUFFICES ASSUME IsPrefix(a, b) PROVE IsPrefix(c, d) /\ Len(s) <= Len(t)
    OBVIOUS
  <2>1. Len(a) <= Len(b) /\ \A i \in 1 .. Len(a) : a[i] = b[i]
    BY <1>1, <1>2, PrefixIs
  <2>2. Len(c) <= Len(d)
    BY <1>1, <1>2, <1>3, <2>1
  <2>3. ASSUME NEW i \in 1 .. Len(c) PROVE c[i] = d[i]
    <3>1. i \in 1 .. Len(s) - 1 /\ i \in 1 .. Len(t) - 1 /\ i + 1 \in 1 .. Len(a)
      BY <1>1, <1>2, <1>3, <2>1
    <3>2. QED
      BY <1>1, <1>2, <2>1, <3>1
  <2>4. IsPrefix(c, d)
    BY <1>1, <1>2, <2>2, <2>3, PrefixIs
  <2>5. QED
    BY <1>1, <1>2, <2>1, <2>4
<1>6. QED
  BY <1>4, <1>5 DEF a, b, c, d

\* What the parser believes of the archive is what extracting it would leave.
LEMMA ParsedIsExtracted ==
    ASSUME ParserInv
    PROVE  Extracted(archive).plain /\ Extracted(archive).files = sources
<1>1. Extracted(archive).files = sources
  BY DEF ParserInv, Extracted, Extracts
<1>2. \A n \in DOMAIN archive : archive[n].type # "link"
  BY DEF ParserInv, EntriesKnown, Metadata
<1>3. ASSUME NEW n \in DOMAIN archive PROVE Named(archive, n) \in Seq(Parts)
  <2>1. archive \in Seq(ArchiveEntries) /\ (n > 1 => n - 1 \in DOMAIN archive)
    BY DEF ParserInv, EntriesKnown
  <2>2. archive[n] \in ArchiveEntries /\ (n > 1 => archive[n - 1] \in ArchiveEntries)
    BY <2>1
  <2>3. QED
    BY <2>2, ArchiveAssumption DEF Named, Parts
<1>4. ASSUME NEW n \in FilesOf(archive)
      PROVE  n \in DOMAIN archive /\ archive[n].type = "file" /\ Len(Named(archive, n)) >= 2
  BY DEF FilesOf, ParserInv, EntriesKnown, Metadata
<1>5. ASSUME NEW m \in FilesOf(archive), NEW n \in FilesOf(archive), m # n
      PROVE  Fold(Named(archive, m)) # Fold(Named(archive, n))
  <2>1. Key(archive, m) # Key(archive, n)
    BY <1>4, <1>5 DEF ParserInv, EntriesApart
  <2>2. Named(archive, m) \in Seq(Parts) /\ Named(archive, n) \in Seq(Parts)
        /\ Len(Named(archive, m)) >= 1 /\ Len(Named(archive, n)) >= 1
    BY <1>3, <1>4
  <2>3. QED
    BY <2>1, <2>2, TailsFollow DEF Key
<1>6. ASSUME NEW m \in DOMAIN archive, NEW n \in FilesOf(archive), archive[m].type = "directory"
      PROVE  ~IsPrefix(Fold(Named(archive, n)), Fold(Named(archive, m)))
  <2>1. Named(archive, m) \in Seq(Parts) /\ Named(archive, n) \in Seq(Parts) /\ Len(Named(archive, n)) >= 2 /\ m # n
    BY <1>3, <1>4, <1>6
  <2>2. Len(Named(archive, m)) = 1 \/ Len(Named(archive, m)) >= 2
    BY <1>6 DEF ParserInv, EntriesKnown, Metadata
  <2>3. CASE Len(Named(archive, m)) = 1
    <3>1. Len(Named(archive, m)) >= 1 /\ Len(Named(archive, n)) >= 1 /\ Len(Named(archive, n)) \in Nat
      BY <2>1, <2>3
    <3>2. ~(Len(Named(archive, n)) <= Len(Named(archive, m)))
      BY <2>1, <2>3, <3>1
    <3>3. QED
      BY <2>1, <3>1, <3>2, TailsFollow
  <2>4. CASE Len(Named(archive, m)) >= 2
    <3>1. ~IsPrefix(Key(archive, n), Key(archive, m))
      BY <1>4, <1>6, <2>1, <2>4 DEF ParserInv, EntriesApart
    <3>2. QED
      BY <2>1, <2>4, <3>1, TailsFollow DEF Key
  <2>5. QED
    BY <2>2, <2>3, <2>4
<1>7. QED
  BY <1>1, <1>2, <1>5, <1>6 DEF Extracted

\* One more entry leaves the names of those before it, and has the name the parser gives it.
LEMMA NamesFollow ==
    ASSUME ParserInv, NEW entry \in ArchiveEntries
    PROVE  /\ Append(archive, entry) \in Seq(ArchiveEntries)
           /\ Len(Append(archive, entry)) = Len(archive) + 1
           /\ DOMAIN Append(archive, entry) = 1 .. Len(archive) + 1
           /\ DOMAIN archive = 1 .. Len(archive) /\ Len(archive) \in Nat
           /\ Append(archive, entry)[Len(archive) + 1] = entry
           /\ \A n \in 1 .. Len(archive) :
                /\ Append(archive, entry)[n] = archive[n]
                /\ Named(Append(archive, entry), n) = Named(archive, n)
           /\ Named(Append(archive, entry), Len(archive) + 1) = NameOf(entry)
           /\ NameOf(entry) \in Seq(Parts) /\ NameOf(entry) # NoSnapshot
<1> DEFINE g == Append(archive, entry)
           k == Len(archive)
<1>1. /\ archive \in Seq(ArchiveEntries) /\ k \in Nat /\ DOMAIN archive = 1 .. k
      /\ g \in Seq(ArchiveEntries) /\ Len(g) = k + 1 /\ DOMAIN g = 1 .. k + 1
      /\ g[k + 1] = entry /\ \A n \in 1 .. k : g[n] = archive[n]
  BY DEF ParserInv, EntriesKnown
<1>2. k = 0 <=> archive = <<>>
  BY <1>1
<1> HIDE DEF g
<1>3. ASSUME NEW n \in 1 .. k PROVE Named(g, n) = Named(archive, n)
  <2>1. n > 1 => n - 1 \in 1 .. k
    BY <1>1
  <2> HIDE DEF k
  <2>2. g[n] = archive[n] /\ (n > 1 => g[n - 1] = archive[n - 1])
    BY <1>1, <2>1
  <2>3. QED
    BY <2>2 DEF Named
<1>4. Named(g, k + 1) = NameOf(entry)
  <2>1. CASE k = 0
    <3>1. pendingName = NoName
      BY <1>2, <2>1 DEF ParserInv, NamePends
    <3>2. NameOf(entry) = entry.path
      BY <3>1 DEF NameOf, NoName
    <3>3. Named(g, k + 1) = entry.path
      BY <1>1, <2>1 DEF Named
    <3>4. QED
      BY <3>2, <3>3
  <2>2. CASE k # 0
    <3> DEFINE last == archive[k]
    <3>1. /\ k + 1 > 1 /\ (k + 1) - 1 = k /\ g[k] = last /\ archive # <<>>
      BY <1>1, <1>2, <2>2
    <3>2. pendingName = IF last.type \notin Metadata THEN NoName
                        ELSE IF last.path = <<>> THEN [kind |-> "kept", path |-> <<>>]
                        ELSE [kind |-> "given", path |-> last.path]
      BY <3>1 DEF ParserInv, NamePends
    <3> HIDE DEF last, k
    <3>3. Named(g, k + 1) = IF last.type \in Metadata /\ last.path # <<>> THEN last.path ELSE entry.path
      BY <1>1, <3>1 DEF Named
    <3>4. NameOf(entry) = IF last.type \in Metadata /\ last.path # <<>> THEN last.path ELSE entry.path
      BY <3>2 DEF NameOf, NoName
    <3>5. QED
      BY <3>3, <3>4
  <2>3. QED
    BY <2>1, <2>2
<1>5. NameOf(entry) \in Seq(Parts) /\ NameOf(entry) # NoSnapshot
  <2>1. entry.path \in Seq(Parts) /\ entry.path # NoSnapshot
    BY ArchiveAssumption DEF Parts
  <2>2. CASE k = 0
    BY <1>2, <2>1, <2>2 DEF ParserInv, NamePends, NameOf, NoName
  <2>3. CASE k # 0
    <3>1. archive # <<>> /\ archive[k] \in ArchiveEntries
      BY <1>1, <1>2, <2>3
    <3>2. archive[k].path \in Seq(Parts) /\ archive[k].path # NoSnapshot
      BY <3>1, ArchiveAssumption DEF Parts
    <3>3. QED
      BY <2>1, <3>1, <3>2 DEF ParserInv, NamePends, NameOf, NoName
  <2>4. QED
    BY <2>2, <2>3
<1>6. QED
  BY <1>1, <1>3, <1>4, <1>5 DEF g

\* What is extracted of one entry more.
LEMMA ExtractsFollow ==
    ASSUME ParserInv, NEW entry \in ArchiveEntries
    PROVE  Extracts(Append(archive, entry)) =
               sources \cup (IF entry.type = "file" /\ NameOf(entry)[2] # ".git"
                             THEN {[path |-> Tail(NameOf(entry)), mode |-> entry.mode, content |-> entry.content]}
                             ELSE {})
<1> DEFINE g == Append(archive, entry)
           k == Len(archive)
           F(entries, n) == [path |-> Tail(Named(entries, n)), mode |-> entries[n].mode, content |-> entries[n].content]
<1>1. /\ DOMAIN g = 1 .. k + 1 /\ DOMAIN archive = 1 .. k /\ k \in Nat
      /\ g[k + 1] = entry /\ Named(g, k + 1) = NameOf(entry)
      /\ \A n \in 1 .. k : g[n] = archive[n] /\ Named(g, n) = Named(archive, n)
  BY NamesFollow
<1>2. sources = {F(archive, n) : n \in FilesOf(archive)} /\ Extracts(g) = {F(g, n) : n \in FilesOf(g)}
  BY DEF ParserInv, Extracts
<1> HIDE DEF g, k
<1>3. \A n \in 1 .. k + 1 : n \in 1 .. k \/ n = k + 1
  BY <1>1
<1>4. 1 .. k \subseteq 1 .. k + 1 /\ k + 1 \in 1 .. k + 1
  BY <1>1
<1>5. \A n \in 1 .. k : n \in FilesOf(g) <=> n \in FilesOf(archive)
  BY <1>1, <1>4 DEF FilesOf
<1>6. k + 1 \in FilesOf(g) <=> entry.type = "file" /\ NameOf(entry)[2] # ".git"
  BY <1>1, <1>4 DEF FilesOf
<1>7. \A n \in 1 .. k : F(g, n) = F(archive, n)
  BY <1>1
<1>8. F(g, k + 1) = [path |-> Tail(NameOf(entry)), mode |-> entry.mode, content |-> entry.content]
  BY <1>1
<1>9. FilesOf(archive) \subseteq 1 .. k /\ FilesOf(g) \subseteq 1 .. k + 1
  BY <1>1 DEF FilesOf
<1> HIDE DEF F
<1>10. FilesOf(g) = FilesOf(archive) \cup (IF entry.type = "file" /\ NameOf(entry)[2] # ".git" THEN {k + 1} ELSE {})
  BY <1>3, <1>4, <1>5, <1>6, <1>9
<1>11. {F(g, n) : n \in FilesOf(archive)} = sources
  BY <1>2, <1>7, <1>9
<1>12. QED
  BY <1>2, <1>8, <1>10, <1>11 DEF g

\* Metadata and the root.
LEMMA HeadersKeep ==
    ASSUME ParserInv, NEW entry \in ArchiveEntries, ReadMetadata(entry) \/ ReadRoot(entry)
    PROVE  ParserInv'
<1> DEFINE k == Len(archive)
<1>1. /\ archive' = Append(archive, entry) /\ UNCHANGED <<entryKinds, sources, parsing>>
      /\ parsing = "reading" /\ Fits(entry)
  BY DEF ReadMetadata, ReadRoot, Reads
<1>2. /\ archive' \in Seq(ArchiveEntries) /\ Len(archive') = k + 1 /\ DOMAIN archive' = 1 .. k + 1
      /\ DOMAIN archive = 1 .. k /\ k \in Nat /\ archive'[k + 1] = entry
      /\ \A n \in 1 .. k : archive'[n] = archive[n] /\ Named(archive', n) = Named(archive, n)
      /\ Named(archive', k + 1) = NameOf(entry)
      /\ NameOf(entry) \in Seq(Parts) /\ NameOf(entry) # NoSnapshot
  BY <1>1, NamesFollow
<1>3. archive' # <<>>
  BY <1>2
<1>4. \/ entry.type \in Metadata /\ archiveRoot' = archiveRoot
      \/ /\ entry.type = "directory" /\ entry.type \notin Metadata /\ archiveRoot = NoSnapshot
         /\ archiveRoot' = NameOf(entry) /\ Len(NameOf(entry)) = 1
  BY <1>1 DEF ReadMetadata, ReadRoot, Fits, RootFits
<1>5. \A n \in 1 .. k + 1 : n \in 1 .. k \/ n = k + 1
  BY <1>2
<1>6. \A n \in 1 .. k : Key(archive', n) = Key(archive, n)
  BY <1>2 DEF Key
<1>7. "file" \notin Metadata /\ "directory" \notin Metadata
  BY DEF Metadata
<1> HIDE DEF k
<1>8. NamePends'
  <2>1. archive'[Len(archive')] = entry
    BY <1>2
  <2>2. pendingName' = IF entry.type \notin Metadata THEN NoName
                       ELSE IF entry.path = <<>> THEN [kind |-> "kept", path |-> <<>>]
                       ELSE [kind |-> "given", path |-> entry.path]
    BY DEF ReadMetadata, ReadRoot
  <2>3. QED
    BY <1>3, <2>1, <2>2 DEF NamePends, NoName
<1>9. EntriesKnown'
  <2>1. ASSUME NEW n \in 1 .. k + 1
        PROVE  \/ archive'[n].type \in Metadata
               \/ archive'[n].type = "directory" /\ Named(archive', n) = archiveRoot' /\ archiveRoot' # NoSnapshot
               \/ /\ archive'[n].type \in {"file", "directory"} /\ Len(Named(archive', n)) >= 2
                  /\ Key(archive', n) \in DOMAIN entryKinds /\ entryKinds[Key(archive', n)] = archive'[n].type
    <3>1. CASE n = k + 1
      BY <1>2, <1>4, <3>1
    <3>2. CASE n \in 1 .. k
      BY <1>2, <1>4, <1>6, <3>2 DEF ParserInv, EntriesKnown
    <3>3. QED
      BY <1>5, <3>1, <3>2
  <2>2. archiveRoot' = NoSnapshot \/ (archiveRoot' \in Seq(Parts) /\ Len(archiveRoot') = 1)
    BY <1>2, <1>4 DEF ParserInv, EntriesKnown
  <2>3. QED
    BY <1>1, <1>2, <2>1, <2>2 DEF EntriesKnown
<1>10. EntriesApart'
  <2> SUFFICES ASSUME NEW m \in 1 .. k + 1, NEW n \in 1 .. k + 1, archive'[n].type = "file", m # n
               PROVE  /\ archive'[m].type = "file" => Key(archive', m) # Key(archive', n)
                      /\ archive'[m].type = "directory" /\ Len(Named(archive', m)) >= 2 =>
                            ~IsPrefix(Key(archive', n), Key(archive', m))
    BY <1>2 DEF EntriesApart
  <2>1. n \in 1 .. k
    BY <1>2, <1>4, <1>5, <1>7
  <2>2. CASE m = k + 1
    <3>1. archive'[m].type # "file"
      BY <1>2, <1>4, <1>7, <2>2
    <3>2. archive'[m].type = "directory" => ~(Len(Named(archive', m)) >= 2)
      <4>1. archive'[m] = entry /\ Named(archive', m) = NameOf(entry)
        BY <1>2, <2>2
      <4>2. entry.type = "directory" => Len(NameOf(entry)) = 1
        BY <1>4, <1>7
      <4> DEFINE named == Len(NameOf(entry))
      <4>3. entry.type = "directory" => ~(named >= 2)
        <5>1. entry.type = "directory" => named = 1
          BY <4>2
        <5> HIDE DEF named
        <5>2. QED
          BY <5>1
      <4> HIDE DEF named
      <4>4. archive'[m].type = entry.type /\ Len(Named(archive', m)) = named
        BY <4>1 DEF named
      <4>5. QED
        BY <4>3, <4>4
    <3>3. QED
      BY <3>1, <3>2
  <2>3. CASE m \in 1 .. k
    BY <1>2, <1>6, <2>1, <2>3 DEF ParserInv, EntriesApart
  <2>4. QED
    BY <1>5, <2>2, <2>3
<1>11. sources' = Extracts(archive')
  <2>1. entry.type # "file"
    BY <1>4, <1>7
  <2>2. QED
    BY <1>1, <2>1, ExtractsFollow
<1>12. QED
  BY <1>1, <1>8, <1>9, <1>10, <1>11 DEF ParserInv

\* A file or a directory below the root.
LEMMA EntryKeeps ==
    ASSUME ParserInv, NEW entry \in ArchiveEntries, ReadEntry(entry)
    PROVE  ParserInv'
<1> DEFINE k == Len(archive)
           key == Fold(Tail(NameOf(entry)))
<1>1. /\ archive' = Append(archive, entry) /\ UNCHANGED <<archiveRoot, parsing>>
      /\ parsing = "reading" /\ EntryFits(entry) /\ entry.type \notin Metadata
      /\ entryKinds' = [x \in {key} \cup DOMAIN entryKinds |-> IF x = key THEN entry.type ELSE entryKinds[x]]
      /\ pendingName' = NoName /\ archiveRoot # NoSnapshot
  BY DEF ReadEntry, Reads, Fits
<1>2. /\ archive' \in Seq(ArchiveEntries) /\ Len(archive') = k + 1 /\ DOMAIN archive' = 1 .. k + 1
      /\ DOMAIN archive = 1 .. k /\ k \in Nat /\ archive'[k + 1] = entry
      /\ \A n \in 1 .. k : archive'[n] = archive[n] /\ Named(archive', n) = Named(archive, n)
      /\ Named(archive', k + 1) = NameOf(entry)
      /\ NameOf(entry) \in Seq(Parts)
  BY <1>1, NamesFollow
<1>3. archive' # <<>>
  BY <1>2
<1>4. /\ entry.type \in {"file", "directory"} /\ key \notin DOMAIN entryKinds
      /\ \A other \in DOMAIN entryKinds :
            /\ ~(IsStrictPrefix(other, key) /\ entryKinds[other] = "file")
            /\ ~(entry.type = "file" /\ IsStrictPrefix(key, other))
      /\ IsStrictPrefix(archiveRoot, NameOf(entry))
  BY <1>1 DEF EntryFits, Collides
<1>5. Len(NameOf(entry)) >= 2
  <2>1. archiveRoot \in Seq(Parts) /\ Len(archiveRoot) = 1
    BY <1>1 DEF ParserInv, EntriesKnown
  <2> DEFINE name == NameOf(entry)
  <2>2. name \in Seq(Parts) /\ IsPrefix(archiveRoot, name) /\ archiveRoot # name
    BY <1>2, <1>4 DEF IsStrictPrefix
  <2> HIDE DEF name
  <2>3. PICK r \in Seq(Parts) : r = archiveRoot
    BY <2>1
  <2>6. Len(r) = 1 /\ IsPrefix(r, name) /\ r # name
    BY <2>1, <2>2, <2>3
  <2>7. IsPrefix(r, name) <=> Len(r) <= Len(name) /\ \A i \in 1 .. Len(r) : r[i] = name[i]
    BY <2>2, PrefixIs
  <2>8. Len(r) <= Len(name) /\ \A i \in 1 .. Len(r) : r[i] = name[i]
    BY <2>6, <2>7
  <2>4. Len(name) # 1
    BY <2>2, <2>6, <2>8
  <2>5. QED
    BY <2>2, <2>6, <2>8, <2>4 DEF name
<1>6. \A n \in 1 .. k + 1 : n \in 1 .. k \/ n = k + 1
  BY <1>2
<1>7. (\A n \in 1 .. k : Key(archive', n) = Key(archive, n)) /\ Key(archive', k + 1) = key
  BY <1>2 DEF Key
<1> HIDE DEF k, key
<1>8. /\ DOMAIN entryKinds' = DOMAIN entryKinds \cup {key} /\ entryKinds'[key] = entry.type
      /\ \A other \in DOMAIN entryKinds : entryKinds'[other] = entryKinds[other]
  BY <1>1, <1>4
<1>9. NamePends'
  <2>1. archive'[Len(archive')] = entry
    BY <1>2
  <2>2. QED
    BY <1>1, <1>3, <2>1 DEF NamePends
<1>10. EntriesKnown'
  <2>1. ASSUME NEW n \in 1 .. k + 1
        PROVE  \/ archive'[n].type \in Metadata
               \/ archive'[n].type = "directory" /\ Named(archive', n) = archiveRoot' /\ archiveRoot' # NoSnapshot
               \/ /\ archive'[n].type \in {"file", "directory"} /\ Len(Named(archive', n)) >= 2
                  /\ Key(archive', n) \in DOMAIN entryKinds' /\ entryKinds'[Key(archive', n)] = archive'[n].type
    <3>1. CASE n = k + 1
      BY <1>2, <1>4, <1>5, <1>7, <1>8, <3>1
    <3>2. CASE n \in 1 .. k
      <4>1. archiveRoot' = archiveRoot /\ n \in DOMAIN archive /\ archive'[n] = archive[n]
            /\ Named(archive', n) = Named(archive, n) /\ Key(archive', n) = Key(archive, n)
        BY <1>1, <1>2, <1>7, <3>2
      <4>2. QED
        BY <1>8, <4>1 DEF ParserInv, EntriesKnown
    <3>3. QED
      BY <1>6, <3>1, <3>2
  <2>2. archiveRoot' = NoSnapshot \/ (archiveRoot' \in Seq(Parts) /\ Len(archiveRoot') = 1)
    BY <1>1 DEF ParserInv, EntriesKnown
  <2>3. QED
    BY <1>2, <2>1, <2>2 DEF EntriesKnown
<1>11. ASSUME NEW n \in 1 .. k, archive[n].type = "file" \/ (archive[n].type = "directory" /\ Len(Named(archive, n)) >= 2)
       PROVE  Key(archive, n) \in DOMAIN entryKinds /\ entryKinds[Key(archive, n)] = archive[n].type
  <2>1. archive[n].type \notin Metadata
    BY <1>11 DEF Metadata
  <2>2. ~(archive[n].type = "directory" /\ Named(archive, n) = archiveRoot)
    <3>1. Len(archiveRoot) = 1
      BY <1>1 DEF ParserInv, EntriesKnown
    <3>2. CASE archive[n].type = "file"
      BY <3>2
    <3>3. CASE Len(Named(archive, n)) >= 2
      <4>1. Named(archive, n) = archiveRoot => Len(Named(archive, n)) = 1
        BY <3>1, Zenon
      <4> DEFINE named == Len(Named(archive, n))
      <4>2. named >= 2
        BY <3>3
      <4> HIDE DEF named
      <4>3. named # 1
        BY <4>2
      <4>4. QED
        BY <4>1, <4>3 DEF named
    <3>4. QED
      BY <1>11, <3>2, <3>3
  <2>3. QED
    BY <1>2, <2>1, <2>2 DEF ParserInv, EntriesKnown
<1>12. EntriesApart'
  <2> SUFFICES ASSUME NEW m \in 1 .. k + 1, NEW n \in 1 .. k + 1, archive'[n].type = "file", m # n
               PROVE  /\ archive'[m].type = "file" => Key(archive', m) # Key(archive', n)
                      /\ archive'[m].type = "directory" /\ Len(Named(archive', m)) >= 2 =>
                            ~IsPrefix(Key(archive', n), Key(archive', m))
    BY <1>2 DEF EntriesApart
  <2>1. CASE m \in 1 .. k /\ n \in 1 .. k
    BY <1>2, <1>7, <2>1 DEF ParserInv, EntriesApart
  <2>2. CASE m = k + 1 /\ n \in 1 .. k
    <3>1. Key(archive', m) = key /\ Key(archive', n) = Key(archive, n) /\ archive'[n] = archive[n]
      BY <1>2, <1>7, <2>2
    <3>2. Key(archive, n) \in DOMAIN entryKinds /\ entryKinds[Key(archive, n)] = "file"
      BY <1>11, <2>2, <3>1
    <3>3. key # Key(archive, n) /\ ~IsStrictPrefix(Key(archive, n), key)
      BY <1>4, <3>2
    <3>4. QED
      BY <3>1, <3>3 DEF IsStrictPrefix
  <2>3. CASE m \in 1 .. k /\ n = k + 1
    <3>1. /\ Key(archive', n) = key /\ Key(archive', m) = Key(archive, m) /\ archive'[m] = archive[m]
          /\ Named(archive', m) = Named(archive, m) /\ entry.type = "file"
      BY <1>2, <1>7, <2>3
    <3>2. ASSUME archive[m].type = "file" \/ (archive[m].type = "directory" /\ Len(Named(archive, m)) >= 2)
          PROVE  key # Key(archive, m) /\ ~IsStrictPrefix(key, Key(archive, m))
      BY <1>4, <1>11, <2>3, <3>1, <3>2
    <3>3. QED
      BY <3>1, <3>2 DEF IsStrictPrefix
  <2>4. QED
    BY <1>6, <2>1, <2>2, <2>3
<1>13. sources' = Extracts(archive')
  <2>1. Tail(NameOf(entry))[1] = NameOf(entry)[2]
    BY <1>2, <1>5
  <2>2. sources' = IF entry.type = "directory" \/ Tail(NameOf(entry))[1] = ".git" THEN sources
                   ELSE sources \cup {[path |-> Tail(NameOf(entry)), mode |-> entry.mode, content |-> entry.content]}
    BY DEF ReadEntry
  <2>3. QED
    BY <1>1, <1>4, <2>1, <2>2, ExtractsFollow
<1>14. QED
  BY <1>1, <1>9, <1>10, <1>12, <1>13 DEF ParserInv
\* One tree is another with new text in exactly the paths that may be written.
IsEdited(base, candidate) ==
    \E edit \in [WritePaths -> {f.content : f \in candidate} \ {"binary"}] :
        /\ \A f \in base : f.path \in WritePaths => edit[f.path] # f.content
        /\ candidate = {IF f.path \in WritePaths THEN [f EXCEPT !.content = edit[f.path]] ELSE f : f \in base}

\* Files of one tree have one path each.
LEMMA PathsAreApart ==
    ASSUME NEW files, Inventory(files), NEW f \in files, NEW g \in files, f.path = g.path
    PROVE  f = g
  BY DEF Inventory

\* Two trees that differ in their text only, and in the text of the paths that may be
\* written, are one tree with those texts edited.
LEMMA ComparedIsEdited ==
    ASSUME NEW base \in SUBSET ArchivedFiles, NEW candidate \in SUBSET ArchivedFiles,
           Inventory(base), Inventory(candidate), TextWrites(candidate),
           ChangedPaths(base, candidate).sound, ChangedPaths(base, candidate).paths = WritePaths
    PROVE  IsEdited(base, candidate)
<1> DEFINE edit == [p \in WritePaths |-> (CHOOSE f \in candidate : f.path = p).content]
<1>1. ASSUME NEW f \in candidate, f.path \in WritePaths
      PROVE  edit[f.path] = f.content
  <2> DEFINE g == CHOOSE h \in candidate : h.path = f.path
  <2>1. g \in candidate /\ g.path = f.path
    OBVIOUS
  <2> HIDE DEF g
  <2>2. g = f
    BY <2>1, PathsAreApart
  <2>3. edit[f.path] = g.content
    BY <1>1 DEF g
  <2>4. QED
    BY <2>2, <2>3
<1>2. DOMAIN edit = WritePaths /\ edit = [p \in WritePaths |-> edit[p]]
  OBVIOUS
<1> HIDE DEF edit
<1>3. edit \in [WritePaths -> {f.content : f \in candidate} \ {"binary"}]
  <2>1. ASSUME NEW p \in WritePaths PROVE edit[p] \in {f.content : f \in candidate} \ {"binary"}
    <3>1. PICK f \in candidate : f.path = p /\ f.content # "binary"
      BY DEF TextWrites
    <3>2. edit[p] = f.content
      BY <1>1, <3>1
    <3>3. QED
      BY <3>1, <3>2
  <2>2. QED
    BY <1>2, <2>1
<1>4. ASSUME NEW b \in base, NEW c \in candidate, b.path = c.path
      PROVE  c.path \in WritePaths <=> b.content # c.content
  <2>1. c.path \in WritePaths <=> \E g \in candidate : (\E a \in base : a.path = g.path /\ a.content # g.content) /\ g.path = c.path
    BY DEF ChangedPaths
  <2>2. \A g \in candidate : g.path = c.path => g = c
    BY PathsAreApart
  <2>3. \A a \in base : a.path = c.path => a = b
    BY <1>4, PathsAreApart
  <2>4. QED
    BY <1>4, <2>1, <2>2, <2>3
<1>5. {[f EXCEPT !.content = "any"] : f \in base} = {[f EXCEPT !.content = "any"] : f \in candidate}
  BY DEF ChangedPaths
<1>6. ASSUME NEW b \in ArchivedFiles, NEW c \in ArchivedFiles, [b EXCEPT !.content = "any"] = [c EXCEPT !.content = "any"]
      PROVE  b.path = c.path /\ b.mode = c.mode
  <2>1. b = [path |-> b.path, mode |-> b.mode, content |-> b.content] /\ c = [path |-> c.path, mode |-> c.mode, content |-> c.content]
    BY DEF ArchivedFiles
  <2>2. [b EXCEPT !.content = "any"].path = b.path /\ [b EXCEPT !.content = "any"].mode = b.mode
    BY <2>1
  <2>3. [c EXCEPT !.content = "any"].path = c.path /\ [c EXCEPT !.content = "any"].mode = c.mode
    BY <2>1
  <2>4. QED
    BY <1>6, <2>2, <2>3
<1>7. \A c \in candidate : \E b \in base : b.path = c.path /\ b.mode = c.mode
  <2> SUFFICES ASSUME NEW c \in candidate PROVE \E b \in base : b.path = c.path /\ b.mode = c.mode
    OBVIOUS
  <2>1. PICK b \in base : [b EXCEPT !.content = "any"] = [c EXCEPT !.content = "any"]
    BY <1>5
  <2>2. b \in ArchivedFiles /\ c \in ArchivedFiles
    OBVIOUS
  <2>3. QED
    BY <1>6, <2>1, <2>2
<1>8. \A b \in base : \E c \in candidate : b.path = c.path /\ b.mode = c.mode
  <2> SUFFICES ASSUME NEW b \in base PROVE \E c \in candidate : b.path = c.path /\ b.mode = c.mode
    OBVIOUS
  <2>1. PICK c \in candidate : [b EXCEPT !.content = "any"] = [c EXCEPT !.content = "any"]
    BY <1>5
  <2>2. b \in ArchivedFiles /\ c \in ArchivedFiles
    OBVIOUS
  <2>3. QED
    BY <1>6, <2>1, <2>2
<1> DEFINE Edited(f) == IF f.path \in WritePaths THEN [f EXCEPT !.content = edit[f.path]] ELSE f
<1>9. ASSUME NEW b \in base, NEW c \in candidate, b.path = c.path, b.mode = c.mode
      PROVE  Edited(b) = c
  <2>1. b = [path |-> b.path, mode |-> b.mode, content |-> b.content] /\ c = [path |-> c.path, mode |-> c.mode, content |-> c.content]
    BY DEF ArchivedFiles
  <2>2. CASE c.path \in WritePaths
    <3>1. edit[c.path] = c.content
      BY <1>1, <2>2
    <3>2. Edited(b) = [b EXCEPT !.content = c.content]
      BY <1>9, <2>2, <3>1
    <3>3. [b EXCEPT !.content = c.content] = [path |-> b.path, mode |-> b.mode, content |-> c.content]
      BY <2>1
    <3>4. QED
      BY <1>9, <2>1, <3>2, <3>3
  <2>3. CASE c.path \notin WritePaths
    <3>1. b.content = c.content
      BY <1>4, <1>9, <2>3
    <3>2. Edited(b) = b
      BY <1>9, <2>3
    <3>3. QED
      BY <1>9, <2>1, <3>1, <3>2
  <2>4. QED
    BY <2>2, <2>3
<1> HIDE DEF Edited
<1>10. candidate = {Edited(f) : f \in base}
  <2>1. \A c \in candidate : \E b \in base : c = Edited(b)
    BY <1>7, <1>9
  <2>2. \A b \in base : Edited(b) \in candidate
    BY <1>8, <1>9
  <2>3. QED
    BY <2>1, <2>2
<1>11. ASSUME NEW b \in base, b.path \in WritePaths PROVE edit[b.path] # b.content
  <2>1. PICK c \in candidate : b.path = c.path /\ b.mode = c.mode
    BY <1>8
  <2>2. QED
    BY <1>1, <1>4, <1>11, <2>1
<1>12. QED
  BY <1>3, <1>10, <1>11 DEF Edited, IsEdited

\* What is extracted are files.
LEMMA ExtractsAreFiles ==
    ASSUME ParserInv
    PROVE  sources \in SUBSET ArchivedFiles
<1>1. ASSUME NEW n \in FilesOf(archive)
      PROVE  [path |-> Tail(Named(archive, n)), mode |-> archive[n].mode, content |-> archive[n].content] \in ArchivedFiles
  <2>1. archive \in Seq(ArchiveEntries) /\ n \in DOMAIN archive /\ (n > 1 => n - 1 \in DOMAIN archive)
    BY DEF ParserInv, EntriesKnown, FilesOf
  <2>2. archive[n] \in ArchiveEntries /\ (n > 1 => archive[n - 1] \in ArchiveEntries)
    BY <2>1
  <2>3. Named(archive, n) \in Seq(Parts)
    BY <2>2, ArchiveAssumption DEF Named, Parts
  <2>4. Len(Named(archive, n)) >= 2
    BY DEF FilesOf, ParserInv, EntriesKnown, Metadata
  <2> DEFINE name == Named(archive, n)
  <2>5. name \in Seq(Parts) /\ Len(name) >= 2
    BY <2>3, <2>4
  <2> HIDE DEF name
  <2>6. Tail(name) \in Seq(Parts)
    BY <2>5
  <2>7. QED
    BY <2>2, <2>6 DEF ArchivedFiles, name
<1>2. QED
  BY <1>1 DEF ParserInv, Extracts

\* Nothing is read.
LEMMA EmptyIsParsed ==
    ASSUME archive' = <<>>, archiveRoot' = NoSnapshot, pendingName' = NoName, entryKinds' = <<>>, sources' = {}
    PROVE  ParserInv'
<1>1. DOMAIN archive' = {} /\ archive' \in Seq(ArchiveEntries)
  OBVIOUS
<1>2. FilesOf(archive') = {}
  BY <1>1 DEF FilesOf
<1>3. Extracts(archive') = {}
  BY <1>2 DEF Extracts
<1>4. Inventory(sources')
  BY DEF Inventory
<1>5. NamePends'
  BY DEF NamePends
<1>6. EntriesKnown' /\ EntriesApart'
  BY <1>1 DEF EntriesKnown, EntriesApart
<1>7. QED
  BY <1>3, <1>4, <1>5, <1>6 DEF ParserInv

\* A snapshot is taken of what was parsed, and none after the candidate's.
LEMMA CaptureKeeps ==
    ASSUME ArtifactInv, CaptureSnapshot
    PROVE  ArtifactInv'
<1>1. ParserInv'
  BY EmptyIsParsed DEF CaptureSnapshot, Forget
<1>2. /\ Extracted(archive).plain /\ Extracted(archive).files = sources
      /\ sources \in SUBSET ArchivedFiles /\ Inventory(sources)
  BY ParsedIsExtracted, ExtractsAreFiles DEF ArtifactInv, ParserInv, CaptureSnapshot
<1>3. /\ snapshots \in [Revisions -> {NoSnapshot} \cup SUBSET ArchivedFiles] /\ DOMAIN archives = Revisions
      /\ snapshots' = [snapshots EXCEPT ![revision] = sources]
      /\ archives' = [archives EXCEPT ![revision] = Extracted(archive)]
  BY DEF ArtifactInv, SnapshotsTell, CaptureSnapshot
<1>4. DOMAIN snapshots' = Revisions /\ DOMAIN archives' = Revisions
  BY <1>3
<1>5. \A r \in Revisions : /\ snapshots'[r] = IF r = revision THEN sources ELSE snapshots[r]
                           /\ archives'[r] = IF r = revision THEN Extracted(archive) ELSE archives[r]
  BY <1>3
<1>6. SnapshotsTell'
  <2>1. \A r \in Revisions : snapshots'[r] \in {NoSnapshot} \cup SUBSET ArchivedFiles
    BY <1>2, <1>3, <1>5
  <2>2. snapshots' = [r \in Revisions |-> snapshots'[r]]
    BY <1>3, <1>4
  <2>3. snapshots' \in [Revisions -> {NoSnapshot} \cup SUBSET ArchivedFiles]
    BY <2>1, <2>2
  <2>4. ASSUME NEW r \in Revisions, snapshots'[r] # NoSnapshot
        PROVE  /\ archives'[r].plain /\ archives'[r].files = snapshots'[r]
               /\ snapshots'[r] \in SUBSET ArchivedFiles /\ Inventory(snapshots'[r])
    <3>1. CASE r = revision
      BY <1>2, <1>5, <3>1
    <3>2. CASE r # revision
      BY <1>5, <2>4, <3>2 DEF ArtifactInv, SnapshotsTell
    <3>3. QED
      BY <3>1, <3>2
  <2>5. snapshots'["base"] \in {NoSnapshot, BaseTree}
    <3>1. "base" \in Revisions
      BY DEF Revisions
    <3>2. revision = "base" => sources = BaseTree
      BY DEF CaptureSnapshot
    <3>3. QED
      BY <1>5, <3>1, <3>2 DEF ArtifactInv, SnapshotsTell
  <2>6. QED
    BY <1>4, <2>3, <2>4, <2>5 DEF SnapshotsTell
<1>7. BundleTells'
  <2> SUFFICES ASSUME bundle' # NoSnapshot PROVE BundleTells'
    BY DEF BundleTells
  <2>1. bundle' = bundle /\ revision = "done"
    BY DEF CaptureSnapshot, ArtifactInv, BundleTells
  <2>2. revision' = "done"
    BY <2>1 DEF CaptureSnapshot
  <2>3. "base" \in Revisions /\ "candidate" \in Revisions /\ "done" \notin Revisions
    BY DEF Revisions
  <2>4. snapshots'["base"] = snapshots["base"] /\ snapshots'["candidate"] = snapshots["candidate"]
        /\ \A r \in Revisions : snapshots'[r] = snapshots[r]
    BY <1>5, <2>1, <2>3
  <2>5. QED
    BY <2>1, <2>2, <2>4 DEF ArtifactInv, BundleTells
<1>8. QED
  BY <1>1, <1>6, <1>7 DEF ArtifactInv

\* The invariant holds at the start and every step keeps it.
LEMMA ArtifactsKeep == ArtifactInit /\ [][ArtifactNext]_artifactVars => []ArtifactInv
<1>1. ArtifactInit => ArtifactInv
  <2> SUFFICES ASSUME ArtifactInit PROVE ArtifactInv
    OBVIOUS
  <2>1. DOMAIN archive = {} /\ archive \in Seq(ArchiveEntries) /\ archive = <<>>
    BY DEF ArtifactInit, EmptyParser
  <2>2. FilesOf(archive) = {}
    BY <2>1 DEF FilesOf
  <2>3. Extracts(archive) = {}
    BY <2>2 DEF Extracts
  <2>4. NamePends /\ EntriesKnown /\ EntriesApart
    BY <2>1 DEF ArtifactInit, EmptyParser, NamePends, EntriesKnown, EntriesApart
  <2>5. ParserInv
    BY <2>3, <2>4 DEF ArtifactInit, EmptyParser, ParserInv
  <2>6. SnapshotsTell /\ BundleTells
    BY DEF ArtifactInit, SnapshotsTell, BundleTells, Revisions
  <2>7. QED
    BY <2>5, <2>6 DEF ArtifactInv
<1>2. ArtifactInv /\ [ArtifactNext]_artifactVars => ArtifactInv'
  <2> SUFFICES ASSUME ArtifactInv, [ArtifactNext]_artifactVars PROVE ArtifactInv'
    OBVIOUS
  <2>1. ASSUME UNCHANGED <<archive, parserVars, parsing>>
        PROVE  ParserInv'
    BY <2>1 DEF ArtifactInv, ParserInv, NamePends, EntriesKnown, EntriesApart, Extracts, FilesOf, Named, Key, parserVars
  <2>2. ASSUME UNCHANGED <<revision, storeVars>>
        PROVE  SnapshotsTell' /\ BundleTells'
    BY <2>2 DEF ArtifactInv, SnapshotsTell, BundleTells, storeVars
  <2>3. ASSUME NEW entry \in ArchiveEntries, ReadMetadata(entry) \/ ReadRoot(entry) \/ ReadEntry(entry)
        PROVE  ArtifactInv'
    <3>1. ParserInv'
      BY <2>3, HeadersKeep, EntryKeeps DEF ArtifactInv
    <3>2. UNCHANGED <<revision, storeVars>>
      BY <2>3 DEF ReadMetadata, ReadRoot, ReadEntry, Reads
    <3>3. QED
      BY <2>2, <3>1, <3>2 DEF ArtifactInv
  <2>4. CASE RefuseArchive
    <3>1. ParserInv'
      BY <2>4, EmptyIsParsed DEF RefuseArchive, Forget
    <3>2. QED
      BY <2>2, <2>4, <3>1 DEF ArtifactInv, RefuseArchive
  <2>5. CASE EndBlocks
    <3>1. Inventory(sources) /\ UNCHANGED <<revision, archive, parserVars, storeVars>>
      BY <2>5 DEF EndBlocks
    <3>2. UNCHANGED <<archive, archiveRoot, pendingName, entryKinds, sources>>
      BY <3>1 DEF parserVars
    <3>3. NamePends' /\ EntriesKnown' /\ EntriesApart' /\ sources' = Extracts(archive')
      BY <3>2 DEF ArtifactInv, ParserInv, NamePends, EntriesKnown, EntriesApart, Extracts, FilesOf, Named, Key
    <3>4. Inventory(sources')
      BY <3>1, <3>2
    <3>5. QED
      BY <2>2, <3>1, <3>3, <3>4 DEF ArtifactInv, ParserInv
  <2>6. CASE CaptureSnapshot
    BY <2>6, CaptureKeeps
  <2>7. CASE Damage
    <3>1. ParserInv'
      BY <2>1, <2>7 DEF Damage
    <3>2. UNCHANGED <<revision, archives, snapshots, bundle>>
      BY <2>7 DEF Damage
    <3>3. SnapshotsTell' /\ BundleTells'
      BY <3>2 DEF ArtifactInv, SnapshotsTell, BundleTells
    <3>4. QED
      BY <3>1, <3>3 DEF ArtifactInv
  <2>8. CASE BundleCandidate
    <3>1. ParserInv'
      BY <2>1, <2>8 DEF BundleCandidate
    <3>2. UNCHANGED <<revision, archives, snapshots>>
      BY <2>8 DEF BundleCandidate
    <3>3. SnapshotsTell'
      BY <3>2 DEF ArtifactInv, SnapshotsTell
    <3>4. DOMAIN snapshots = Revisions /\ "candidate" \in Revisions
      BY DEF ArtifactInv, SnapshotsTell, Revisions
    <3>5. /\ revision = "done" /\ \A r \in Revisions : snapshots[r] # NoSnapshot /\ TextWrites(snapshots[r])
          /\ ChangedPaths(snapshots["base"], snapshots["candidate"]).sound
          /\ ChangedPaths(snapshots["base"], snapshots["candidate"]).paths = WritePaths
      BY <2>8, <3>4 DEF BundleCandidate, BundleFits, ReadSnapshot
    <3>6. bundle'.base = snapshots["base"] /\ bundle'.candidate = snapshots["candidate"]
      BY <2>8 DEF BundleCandidate
    <3>7. BundleTells'
      BY <3>2, <3>4, <3>5, <3>6 DEF BundleTells
    <3>8. QED
      BY <3>1, <3>3, <3>7 DEF ArtifactInv
  <2>9. CASE ReturnBundle
    <3>1. ParserInv'
      BY <2>1, <2>9 DEF ReturnBundle
    <3>2. UNCHANGED <<revision, archives, snapshots>> /\ bundle # NoSnapshot
      BY <2>9 DEF ReturnBundle
    <3>3. SnapshotsTell'
      BY <3>2 DEF ArtifactInv, SnapshotsTell
    <3>4. bundle' = [bundle EXCEPT !.returned = TRUE]
      BY <2>9 DEF ReturnBundle
    <3>5. bundle'.base = bundle.base /\ bundle'.candidate = bundle.candidate
      BY <3>4
    <3>6. BundleTells'
      BY <3>2, <3>5 DEF ArtifactInv, BundleTells
    <3>7. QED
      BY <3>1, <3>3, <3>6 DEF ArtifactInv
  <2>10. CASE UNCHANGED artifactVars
    BY <2>1, <2>2, <2>10 DEF artifactVars, ArtifactInv
  <2>11. QED
    BY <2>3, <2>4, <2>5, <2>6, <2>7, <2>8, <2>9, <2>10 DEF ArtifactNext
<1>3. QED
  BY <1>1, <1>2, PTL

\* Whatever an export held, what is kept of it is what extracting it would leave, and a
\* bundle is the registered base with new text in exactly the files that may be written.
THEOREM TheBundlesAreTwoEdits == ArtifactInit /\ [][ArtifactNext]_artifactVars => []BundlesAreTwoEdits
<1>1. ArtifactInv => BundlesAreTwoEdits
  <2> SUFFICES ASSUME ArtifactInv PROVE BundlesAreTwoEdits
    OBVIOUS
  <2>1. /\ DOMAIN snapshots = Revisions
        /\ \A r \in Revisions : snapshots[r] # NoSnapshot => archives[r].plain /\ archives[r].files = snapshots[r]
        /\ snapshots["base"] \in {NoSnapshot, BaseTree}
    BY DEF ArtifactInv, SnapshotsTell
  <2>2. ASSUME bundle # NoSnapshot
        PROVE  bundle.base = BaseTree /\ IsEdited(BaseTree, bundle.candidate)
    <3>1. "base" \in Revisions /\ "candidate" \in Revisions
      BY DEF Revisions
    <3>2. /\ bundle.base = snapshots["base"] /\ bundle.candidate = snapshots["candidate"]
          /\ snapshots["base"] # NoSnapshot /\ snapshots["candidate"] # NoSnapshot
          /\ ChangedPaths(snapshots["base"], snapshots["candidate"]).sound
          /\ ChangedPaths(snapshots["base"], snapshots["candidate"]).paths = WritePaths
          /\ TextWrites(snapshots["candidate"])
      BY <2>2, <3>1 DEF ArtifactInv, BundleTells
    <3>3. /\ snapshots["base"] \in SUBSET ArchivedFiles /\ Inventory(snapshots["base"])
          /\ snapshots["candidate"] \in SUBSET ArchivedFiles /\ Inventory(snapshots["candidate"])
      BY <3>1, <3>2 DEF ArtifactInv, SnapshotsTell
    <3>4. bundle.base = BaseTree /\ snapshots["base"] = BaseTree
      BY <2>1, <3>2
    <3> DEFINE candidate == bundle.candidate
    <3>5. /\ BaseTree \in SUBSET ArchivedFiles /\ Inventory(BaseTree) /\ candidate \in SUBSET ArchivedFiles /\ Inventory(candidate)
          /\ ChangedPaths(BaseTree, candidate).sound /\ ChangedPaths(BaseTree, candidate).paths = WritePaths
          /\ TextWrites(candidate)
      BY <3>2, <3>3, <3>4
    <3> HIDE DEF candidate
    <3>6. IsEdited(BaseTree, candidate)
      BY <3>5, ComparedIsEdited
    <3>7. QED
      BY <3>4, <3>6 DEF candidate
  <2>3. QED
    BY <2>1, <2>2 DEF BundlesAreTwoEdits, IsEdited
<1>2. QED
  BY <1>1, ArtifactsKeep, PTL

-----------------------------------------------------------------------------
(* Sums and powers *)

Summing == INSTANCE FoldFacts WITH Op <- Plus
Powers == INSTANCE FoldFacts WITH Op <- Tenfold

\* The folds of FoldFacts are the model's.
LEMMA DatasetFolds ==
    /\ \A base, s : Summing!Folded(base, s) = FoldLeft(Plus, base, s)
    /\ \A base, s : Powers!Folded(base, s) = FoldLeft(Tenfold, base, s)
<1>1. \A base, s : Summing!Folded(base, s) = FoldLeft(Plus, base, s)
  BY DEF Summing!Folded, Summing!FoldLeft, FoldLeft, Summing!MapThenFoldSet, MapThenFoldSet, Summing!Max, Max
<1>2. \A base, s : Powers!Folded(base, s) = FoldLeft(Tenfold, base, s)
  BY DEF Powers!Folded, Powers!FoldLeft, FoldLeft, Powers!MapThenFoldSet, MapThenFoldSet, Powers!Max, Max
<1>3. QED
  BY <1>1, <1>2

\* What holds of no number, and of the next when of one, holds of all up to any.
LEMMA UpTo ==
    ASSUME NEW m \in Nat, NEW G, G \subseteq 0 .. m, 0 \in G, \A n \in 0 .. m - 1 : n \in G => n + 1 \in G
    PROVE  \A n \in 0 .. m : n \in G
<1> DEFINE Bad == {n \in 0 .. m : n \notin G}
<1>1. ASSUME Bad # {} PROVE FALSE
  <2>1. PICK k \in Bad : \A n \in Bad : k <= n
    <3> HIDE DEF Bad
    <3>1. Bad \in SUBSET Nat
      BY DEF Bad
    <3>2. QED
      BY <1>1, <3>1, Summing!Least
  <2>2. k # 0 /\ k - 1 \in 0 .. m - 1 /\ k - 1 \notin Bad
    BY <2>1
  <2>3. k - 1 \in G
    BY <2>2
  <2>4. QED
    BY <2>1, <2>2, <2>3
<1>2. QED
  BY <1>1

\* The steps of a sum.
LEMMA SumSteps ==
    ASSUME NEW s \in Seq(Int)
    PROVE  \E g : /\ g[0] = 0 /\ g[Len(s)] = SumOf(s)
                  /\ \A n \in 1 .. Len(s) : g[n] = g[n - 1] + s[n]
<1>1. PICK g : /\ g[0] = 0 /\ g[Len(s)] = Summing!Folded(0, s)
               /\ \A n \in 1 .. Len(s) : g[n] = Plus(g[n - 1], s[n])
  BY Summing!FoldTrace
<1>2. QED
  BY <1>1, DatasetFolds DEF SumOf, Plus

\* The steps of a power.
LEMMA PowerSteps ==
    ASSUME NEW base, NEW S, NEW s \in Seq(S)
    PROVE  \E g : /\ g[0] = base /\ g[Len(s)] = Powers!Folded(base, s)
                  /\ \A n \in 1 .. Len(s) : g[n] = Tenfold(g[n - 1], s[n])
  BY Powers!FoldTrace

\* The amounts of a sequence, as they are summed.
LEMMA SumTrace ==
    ASSUME NEW m \in Nat, NEW s, s \in [1 .. m -> Int]
    PROVE  \E g : /\ g[0] = 0 /\ g[m] = SumOf(s) /\ \A n \in 1 .. m : g[n] = g[n - 1] + s[n]
                  /\ \A n \in 0 .. m : g[n] \in Int
<1>1. PICK q \in Seq(Int) : q = s /\ Len(q) = m
  OBVIOUS
<1>2. PICK g : g[0] = 0 /\ g[Len(q)] = SumOf(q) /\ \A n \in 1 .. Len(q) : g[n] = g[n - 1] + q[n]
  BY SumSteps, Zenon
<1>3. g[m] = SumOf(s)
  BY <1>1, <1>2
<1>4. \A n \in 1 .. m : g[n] = g[n - 1] + s[n]
  BY <1>1, <1>2
<1> DEFINE G == {n \in 0 .. m : g[n] \in Int}
<1>5. \A n \in 0 .. m : n \in G
  <2>1. 0 \in G
    BY <1>2
  <2>2. ASSUME NEW n \in 0 .. m - 1, n \in G PROVE n + 1 \in G
    <3>1. n + 1 \in 1 .. m /\ (n + 1) - 1 = n /\ n + 1 \in 0 .. m
      OBVIOUS
    <3>2. g[n + 1] = g[n] + s[n + 1] /\ s[n + 1] \in Int
      BY <1>4, <3>1
    <3>3. QED
      BY <2>2, <3>1, <3>2
  <2> HIDE DEF G
  <2>3. G \subseteq 0 .. m
    BY DEF G
  <2>4. QED
    BY <2>1, <2>2, <2>3, UpTo
<1>6. QED
  BY <1>2, <1>3, <1>4, <1>5

\* A sum of multiples is the multiple of the sum.
LEMMA SumScales ==
    ASSUME NEW m \in Nat, NEW s, s \in [1 .. m -> Int], NEW t, t \in [1 .. m -> Int], NEW k \in Int,
           \A n \in 1 .. m : t[n] = s[n] * k
    PROVE  SumOf(s) \in Int /\ SumOf(t) = SumOf(s) * k
<1>1. PICK g : /\ g[0] = 0 /\ g[m] = SumOf(s) /\ \A n \in 1 .. m : g[n] = g[n - 1] + s[n]
               /\ \A n \in 0 .. m : g[n] \in Int
  BY SumTrace
<1>2. PICK h : /\ h[0] = 0 /\ h[m] = SumOf(t) /\ \A n \in 1 .. m : h[n] = h[n - 1] + t[n]
               /\ \A n \in 0 .. m : h[n] \in Int
  BY SumTrace
<1> DEFINE G == {n \in 0 .. m : h[n] = g[n] * k}
<1>3. 0 \in G
  BY <1>1, <1>2
<1>4. ASSUME NEW n \in 0 .. m - 1, n \in G PROVE n + 1 \in G
  <2>1. n + 1 \in 1 .. m /\ (n + 1) - 1 = n /\ n + 1 \in 0 .. m /\ n \in 0 .. m
    OBVIOUS
  <2>2. PICK x \in Int : x = g[n]
    BY <1>1, <2>1
  <2>3. PICK y \in Int : y = s[n + 1]
    BY <2>1
  <2>4. h[n + 1] = x * k + y * k /\ g[n + 1] = x + y
    BY <1>1, <1>2, <1>4, <2>1, <2>2, <2>3
  <2>5. (x + y) * k = x * k + y * k
    OBVIOUS
  <2>6. QED
    BY <2>1, <2>4, <2>5
<1>5. m \in G
  <2> HIDE DEF G
  <2>1. G \subseteq 0 .. m
    BY DEF G
  <2>2. \A n \in 0 .. m : n \in G
    BY <1>3, <1>4, <2>1, UpTo
  <2>3. QED
    BY <2>2
<1>6. QED
  BY <1>1, <1>2, <1>5

\* u has the sums of the amounts of s and of t.
Added(m, s, t, u) ==
    /\ s \in [1 .. m -> Int] /\ t \in [1 .. m -> Int] /\ u \in [1 .. m -> Int]
    /\ \A n \in 1 .. m : u[n] = s[n] + t[n]

\* A sum of sums is the sum of the sums.
LEMMA SumAdds ==
    ASSUME NEW m \in Nat, NEW s, NEW t, NEW u, Added(m, s, t, u)
    PROVE  SumOf(u) = SumOf(s) + SumOf(t)
<1>1. PICK g : /\ g[0] = 0 /\ g[m] = SumOf(s) /\ \A n \in 1 .. m : g[n] = g[n - 1] + s[n]
               /\ \A n \in 0 .. m : g[n] \in Int
  BY SumTrace DEF Added
<1>2. PICK h : /\ h[0] = 0 /\ h[m] = SumOf(t) /\ \A n \in 1 .. m : h[n] = h[n - 1] + t[n]
               /\ \A n \in 0 .. m : h[n] \in Int
  BY SumTrace DEF Added
<1>3. PICK f : /\ f[0] = 0 /\ f[m] = SumOf(u) /\ \A n \in 1 .. m : f[n] = f[n - 1] + u[n]
               /\ \A n \in 0 .. m : f[n] \in Int
  BY SumTrace DEF Added
<1> DEFINE G == {n \in 0 .. m : f[n] = g[n] + h[n]}
<1>4. 0 \in G
  BY <1>1, <1>2, <1>3
<1>5. ASSUME NEW n \in 0 .. m - 1, n \in G PROVE n + 1 \in G
  <2>1. n + 1 \in 1 .. m /\ (n + 1) - 1 = n /\ n + 1 \in 0 .. m /\ n \in 0 .. m
    OBVIOUS
  <2>2. g[n] \in Int /\ h[n] \in Int /\ s[n + 1] \in Int /\ t[n + 1] \in Int
    BY <1>1, <1>2, <2>1 DEF Added
  <2>3. f[n + 1] = (g[n] + h[n]) + (s[n + 1] + t[n + 1])
    BY <1>3, <1>5, <2>1 DEF Added
  <2>4. g[n + 1] = g[n] + s[n + 1] /\ h[n + 1] = h[n] + t[n + 1]
    BY <1>1, <1>2, <2>1
  <2>5. QED
    BY <2>1, <2>2, <2>3, <2>4
<1>6. m \in G
  <2> HIDE DEF G
  <2>1. G \subseteq 0 .. m
    BY DEF G
  <2>2. \A n \in 0 .. m : n \in G
    BY <1>4, <1>5, <2>1, UpTo
  <2>3. QED
    BY <2>2
<1>7. QED
  BY <1>1, <1>2, <1>3, <1>6

\* A power is ten times the one before.
LEMMA PowerStep == PowerOfTen(0) = 1 /\ \A k \in Nat : PowerOfTen(k + 1) = 10 * PowerOfTen(k)
<1>1. PowerOfTen(0) = 1
  <2>1. PICK s : s = [n \in 1 .. 0 |-> n]
    OBVIOUS
  <2>2. s \in Seq(Nat) /\ Len(s) = 0
    BY <2>1
  <2>3. Powers!Folded(1, s) = 1
    BY <2>2, Powers!FoldNothing
  <2>4. QED
    BY <2>1, <2>3, DatasetFolds DEF PowerOfTen
<1>2. ASSUME NEW k \in Nat PROVE PowerOfTen(k + 1) = 10 * PowerOfTen(k)
  <2>1. PICK s : s = [n \in 1 .. k |-> n]
    OBVIOUS
  <2>2. PICK t : t = [n \in 1 .. k + 1 |-> n]
    OBVIOUS
  <2>3. s \in Seq(Nat) /\ Len(s) = k /\ t \in Seq(Nat) /\ Len(t) = k + 1
    BY <2>1, <2>2
  <2>4. PICK g : /\ g[0] = 1 /\ g[Len(t)] = Powers!Folded(1, t)
                 /\ \A n \in 1 .. Len(t) : g[n] = Tenfold(g[n - 1], t[n])
    <3>1. PICK q \in Seq(Nat) : q = t
      BY <2>3
    <3>2. \E g : /\ g[0] = 1 /\ g[Len(q)] = Powers!Folded(1, q)
                 /\ \A n \in 1 .. Len(q) : g[n] = Tenfold(g[n - 1], q[n])
      BY PowerSteps
    <3>3. QED
      BY <3>1, <3>2
  <2>5. \A n \in 1 .. k : g[n] = Tenfold(g[n - 1], s[n])
    BY <2>3, <2>4 DEF Tenfold
  <2>6. g[Len(s)] = Powers!Folded(1, s)
    BY <2>3, <2>4, <2>5, Powers!FoldOfTrace
  <2>7. g[k + 1] = 10 * g[k]
    <3>1. k + 1 \in 1 .. Len(t) /\ (k + 1) - 1 = k
      BY <2>3
    <3>2. QED
      BY <2>4, <3>1 DEF Tenfold
  <2>8. g[k] = PowerOfTen(k) /\ g[k + 1] = PowerOfTen(k + 1)
    BY <2>1, <2>2, <2>3, <2>4, <2>6, DatasetFolds DEF PowerOfTen
  <2>9. QED
    BY <2>7, <2>8
<1>3. QED
  BY <1>1, <1>2

\* Powers are positive, and the power of a sum is their product.
LEMMA PowerFacts ==
    ASSUME NEW a \in Nat, NEW b \in Nat
    PROVE  /\ PowerOfTen(a) \in Nat \ {0}
           /\ PowerOfTen(a + b) = PowerOfTen(a) * PowerOfTen(b)
<1> DEFINE Positive(n) == PowerOfTen(n) \in Nat \ {0}
<1>1. ASSUME NEW c \in Nat PROVE Positive(c)
  <2> DEFINE G == {n \in 0 .. c : Positive(n)}
  <2>1. 0 \in G
    BY PowerStep
  <2>2. ASSUME NEW n \in 0 .. c - 1, n \in G PROVE n + 1 \in G
    <3>1. n \in Nat /\ n + 1 \in 0 .. c
      OBVIOUS
    <3>2. PowerOfTen(n + 1) = 10 * PowerOfTen(n) /\ PowerOfTen(n) \in Nat \ {0}
      BY <2>2, <3>1, PowerStep
    <3>3. QED
      BY <3>1, <3>2
  <2> HIDE DEF G
  <2>3. G \subseteq 0 .. c
    BY DEF G
  <2>4. \A n \in 0 .. c : n \in G
    BY <2>1, <2>2, <2>3, UpTo
  <2>5. c \in G
    BY <2>4
  <2>6. QED
    BY <2>5 DEF G
<1>2. PowerOfTen(a + b) = PowerOfTen(a) * PowerOfTen(b)
  <2> DEFINE G == {n \in 0 .. b : PowerOfTen(a + n) = PowerOfTen(a) * PowerOfTen(n)}
  <2>1. 0 \in G
    <3>1. a + 0 = a /\ PowerOfTen(a) \in Int /\ PowerOfTen(0) = 1
      BY <1>1, PowerStep
    <3>2. QED
      BY <3>1
  <2>2. ASSUME NEW n \in 0 .. b - 1, n \in G PROVE n + 1 \in G
    <3>1. n \in Nat /\ a + n \in Nat /\ n + 1 \in 0 .. b /\ a + (n + 1) = (a + n) + 1
      OBVIOUS
    <3>2. PICK x \in Int : x = PowerOfTen(a)
      BY <1>1
    <3>3. PICK y \in Int : y = PowerOfTen(n)
      BY <1>1, <3>1
    <3>4. PowerOfTen(a + n) = x * y
      BY <2>2, <3>2, <3>3
    <3>5. PowerOfTen((a + n) + 1) = 10 * (x * y) /\ PowerOfTen(n + 1) = 10 * y
      BY <3>1, <3>3, <3>4, PowerStep
    <3>6. 10 * (x * y) = x * (10 * y)
      OBVIOUS
    <3>7. QED
      BY <3>1, <3>2, <3>5, <3>6
  <2> HIDE DEF G
  <2>3. G \subseteq 0 .. b
    BY DEF G
  <2>4. \A n \in 0 .. b : n \in G
    BY <2>1, <2>2, <2>3, UpTo
  <2>5. b \in G
    BY <2>4
  <2>6. QED
    BY <2>5 DEF G
<1>3. QED
  BY <1>1, <1>2

-----------------------------------------------------------------------------
(* Decimal amounts *)

\* A set of bounded naturals has a greatest one, which is what Max picks.
LEMMA MaxOfScales ==
    ASSUME NEW n \in Nat, NEW t \in SUBSET (0 .. n), t # {}
    PROVE  Max(t) \in t /\ \A k \in t : k <= Max(t)
<1> DEFINE T == {m \in Nat : \A k \in t : k <= m}
<1>1. n \in T
  OBVIOUS
<1>2. PICK m \in T : \A k \in T : m <= k
  <2> HIDE DEF T
  <2>1. T \in SUBSET Nat /\ T # {}
    BY <1>1 DEF T
  <2>2. QED
    BY <2>1, Summing!Least
<1>3. m \in t
  <2> SUFFICES ASSUME m \notin t PROVE FALSE
    OBVIOUS
  <2>1. m # 0 /\ \A k \in t : k <= m - 1
    <3>1. PICK k \in t : TRUE
      OBVIOUS
    <3>2. \A j \in t : j \in 0 .. n /\ j <= m /\ j # m
      OBVIOUS
    <3>3. QED
      BY <3>1, <3>2
  <2>2. m - 1 \in T
    BY <2>1
  <2>3. QED
    BY <1>2, <2>2
<1>4. QED
  BY <1>3 DEF Max

\* An amount brought to a finer scale and then to the finest is the amount at the finest.
LEMMA ScaledTwice ==
    ASSUME NEW d, IsDecimal(d), NEW scale \in 0 .. Finest, d.scale <= scale, Finest \in Nat
    PROVE  /\ AtScale(d, scale) \in Int /\ Ticks(d) \in Int
           /\ Ticks(d) = AtScale(d, scale) * PowerOfTen(Finest - scale)
<1>1. PICK x \in Int, k \in 0 .. scale : d.units = x /\ d.scale = k
  BY DEF IsDecimal
<1>2. PICK a \in Nat, b \in Nat : a = scale - k /\ b = Finest - scale /\ Finest - k = a + b
  <2>1. scale - k \in Nat /\ Finest - scale \in Nat /\ Finest - k = (scale - k) + (Finest - scale)
    OBVIOUS
  <2>2. QED
    BY <2>1
<1>3. PICK p \in Int, q \in Int : p = PowerOfTen(a) /\ q = PowerOfTen(b) /\ PowerOfTen(a + b) = p * q
  <2>1. PowerOfTen(a) \in Nat \ {0} /\ PowerOfTen(b) \in Nat \ {0} /\ PowerOfTen(a + b) = PowerOfTen(a) * PowerOfTen(b)
    BY <1>2, PowerFacts, Zenon
  <2>2. QED
    BY <2>1
<1>4. AtScale(d, scale) = x * p /\ Ticks(d) = x * (p * q)
  BY <1>1, <1>2, <1>3 DEF AtScale, Ticks
<1>5. x * (p * q) = (x * p) * q /\ x * p \in Int /\ x * (p * q) \in Int
  OBVIOUS
<1>6. QED
  BY <1>2, <1>3, <1>4, <1>5

\* A sum of decimal amounts is one, and is exact.
LEMMA SumIsExact ==
    ASSUME NEW m \in Nat, NEW ds, DOMAIN ds = 1 .. m, \A i \in 1 .. m : IsDecimal(ds[i]),
           NEW t, t \in [1 .. m -> Int], \A i \in 1 .. m : t[i] = Ticks(ds[i]), Finest \in Nat
    PROVE  IsDecimal(AddDecimals(ds)) /\ Ticks(AddDecimals(ds)) = SumOf(t)
<1> DEFINE scales == {0} \cup {ds[i].scale : i \in DOMAIN ds}
<1>1. PICK scale \in 0 .. Finest : scale = Max(scales) /\ \A i \in 1 .. m : ds[i].scale <= scale
  <2>1. scales \in SUBSET (0 .. Finest) /\ scales # {}
    BY DEF IsDecimal
  <2>2. \A i \in 1 .. m : ds[i].scale \in scales
    OBVIOUS
  <2> HIDE DEF scales
  <2>3. Max(scales) \in scales /\ \A k \in scales : k <= Max(scales)
    BY <2>1, MaxOfScales
  <2>4. QED
    BY <2>1, <2>2, <2>3
<1>2. PICK s : s = [i \in DOMAIN ds |-> AtScale(ds[i], scale)]
  OBVIOUS
<1>3. \A i \in 1 .. m : AtScale(ds[i], scale) \in Int /\ t[i] = AtScale(ds[i], scale) * PowerOfTen(Finest - scale)
  BY <1>1, ScaledTwice
<1>4. PICK k \in Int : k = PowerOfTen(Finest - scale)
  <2>1. Finest - scale \in Nat
    OBVIOUS
  <2>2. PowerOfTen(Finest - scale) \in Nat \ {0}
    BY <2>1, PowerFacts, Zenon
  <2>3. QED
    BY <2>2
<1>5. s \in [1 .. m -> Int] /\ \A i \in 1 .. m : t[i] = s[i] * k
  BY <1>2, <1>3, <1>4
<1>6. SumOf(s) \in Int /\ SumOf(t) = SumOf(s) * k
  <2>1. m \in Nat /\ k \in Int /\ t \in [1 .. m -> Int]
    BY <1>4
  <2>2. QED
    BY <1>5, <2>1, SumScales, ZenonT(60)
<1>7. AddDecimals(ds) = [units |-> SumOf(s), scale |-> scale]
  BY <1>1, <1>2 DEF AddDecimals
<1>8. QED
  BY <1>4, <1>6, <1>7 DEF IsDecimal, Ticks, AtScale

\* Two amounts are added.
LEMMA TwoAreAdded ==
    ASSUME NEW d, NEW e, IsDecimal(d), IsDecimal(e), Finest \in Nat
    PROVE  /\ IsDecimal(AddDecimals(<<d, e>>)) /\ Ticks(d) \in Int /\ Ticks(e) \in Int
           /\ Ticks(AddDecimals(<<d, e>>)) = Ticks(d) + Ticks(e)
<1>1. PICK x \in Int, y \in Int : x = Ticks(d) /\ y = Ticks(e)
  <2>1. d.scale \in 0 .. Finest /\ e.scale \in 0 .. Finest /\ Finest \in 0 .. Finest
    BY DEF IsDecimal
  <2>2. QED
    BY <2>1, ScaledTwice
<1>2. PICK t : t = [i \in 1 .. 2 |-> IF i = 1 THEN x ELSE y]
  OBVIOUS
<1>3. PICK ds : ds = <<d, e>>
  OBVIOUS
<1>4. DOMAIN ds = 1 .. 2 /\ ds[1] = d /\ ds[2] = e /\ \A i \in 1 .. 2 : i = 1 \/ i = 2
  BY <1>3
<1>5. t \in [1 .. 2 -> Int] /\ t[1] = x /\ t[2] = y
  BY <1>2
<1>6. IsDecimal(AddDecimals(ds)) /\ Ticks(AddDecimals(ds)) = SumOf(t)
  <2>1. \A i \in 1 .. 2 : IsDecimal(ds[i]) /\ t[i] = Ticks(ds[i])
    BY <1>1, <1>4, <1>5
  <2>2. 2 \in Nat
    OBVIOUS
  <2>3. QED
    BY <1>4, <1>5, <2>1, <2>2, SumIsExact, Zenon
<1>7. SumOf(t) = x + y
  <2>1. PICK g : /\ g[0] = 0 /\ g[2] = SumOf(t) /\ \A n \in 1 .. 2 : g[n] = g[n - 1] + t[n]
                 /\ \A n \in 0 .. 2 : g[n] \in Int
    BY <1>5, SumTrace
  <2>2. g[1] = g[0] + t[1] /\ g[2] = g[1] + t[2]
    BY <2>1
  <2>3. QED
    BY <1>5, <2>1, <2>2
<1>8. QED
  BY <1>1, <1>3, <1>6, <1>7

\* Nothing exceeds a maximum by nothing but what is within it.
LEMMA NoExcess ==
    ASSUME NEW d, NEW e, IsDecimal(d), IsDecimal(e), Finest \in Nat, DecimalExcess(d, e).units = 0
    PROVE  Ticks(d) <= Ticks(e)
<1>1. PICK f : f = [e EXCEPT !.units = -@]
  OBVIOUS
<1>2. IsDecimal(f) /\ f.units = -e.units /\ f.scale = e.scale
  BY <1>1 DEF IsDecimal
<1>3. PICK difference : difference = AddDecimals(<<d, f>>)
  OBVIOUS
<1>4. /\ IsDecimal(difference) /\ Ticks(d) \in Int /\ Ticks(f) \in Int
      /\ Ticks(difference) = Ticks(d) + Ticks(f)
  BY <1>2, <1>3, TwoAreAdded
<1>5. DecimalExcess(d, e) = [difference EXCEPT !.units = IF @ > 0 THEN @ ELSE 0]
  BY <1>1, <1>3 DEF DecimalExcess
<1>6. difference.units \in Int /\ difference.units <= 0 /\ difference.scale \in 0 .. Finest
  BY <1>4, <1>5 DEF IsDecimal
<1>7. Ticks(difference) <= 0
  <2>1. Finest - difference.scale \in Nat
    BY <1>6
  <2>2. PICK p \in Nat : p = PowerOfTen(Finest - difference.scale)
    BY <2>1, PowerFacts
  <2>3. PICK x \in Int : x = difference.units /\ x <= 0
    BY <1>6
  <2>4. x * p <= 0
    <3>1. PICK y \in Nat : x = -y
      BY <2>3
    <3>2. y * p \in Nat /\ (-y) * p = -(y * p)
      OBVIOUS
    <3>3. QED
      BY <3>1, <3>2
  <2>5. QED
    BY <2>2, <2>3, <2>4 DEF Ticks, AtScale
<1>8. Ticks(e) \in Int /\ Ticks(f) = -Ticks(e)
  <2>1. e.units \in Int /\ e.scale \in 0 .. Finest /\ Finest - e.scale \in Nat
    BY DEF IsDecimal
  <2>2. PICK p \in Int : p = PowerOfTen(Finest - e.scale)
    BY <2>1, PowerFacts
  <2>3. PICK x \in Int : x = e.units
    BY <2>1
  <2>4. Ticks(e) = x * p /\ Ticks(f) = (-x) * p
    BY <1>2, <2>2, <2>3 DEF Ticks, AtScale
  <2>5. x * p \in Int /\ (-x) * p = -(x * p)
    OBVIOUS
  <2>6. QED
    BY <2>4, <2>5
<1>9. QED
  BY <1>4, <1>7, <1>8

-----------------------------------------------------------------------------
(* The effort of a run and of a cohort *)

\* The effort of a run in a phase, tick by tick, is a number, and what is measured and what is estimated of it.
LEMMA DurationsAreDecimal ==
    ASSUME NEW run, IsRun(run), IntervalsFit(run), NEW work, Finest \in Nat,
           NEW confidence \in {"measured", "estimated"}
    PROVE  /\ DOMAIN Durations(run, work, confidence) = 1 .. Len(run.intervals)
           /\ \A n \in 1 .. Len(run.intervals) :
                /\ IsDecimal(Durations(run, work, confidence)[n])
                /\ Durations(run, work, confidence)[n] =
                    IF run.intervals[n].phase = work /\ run.intervals[n].confidence = confidence
                    THEN run.intervals[n].duration ELSE NoSeconds
<1>1. DOMAIN run.intervals = 1 .. Len(run.intervals)
  BY DEF IsRun
<1>2. PICK d : d = Durations(run, work, confidence)
  OBVIOUS
<1>3. /\ DOMAIN d = 1 .. Len(run.intervals)
      /\ \A n \in 1 .. Len(run.intervals) :
            d[n] = IF run.intervals[n].phase = work /\ run.intervals[n].confidence = confidence
                   THEN run.intervals[n].duration ELSE NoSeconds
  BY <1>1, <1>2 DEF Durations
<1>4. ASSUME NEW n \in 1 .. Len(run.intervals) PROVE IsDecimal(d[n])
  <2>1. CASE run.intervals[n].phase = work /\ run.intervals[n].confidence = confidence
    <3>1. run.intervals[n].confidence # "unknown"
      BY <2>1
    <3>2. run.intervals[n].duration # Null
      BY <1>1, <3>1 DEF IntervalsFit
    <3>3. IsDecimal(run.intervals[n].duration)
      BY <1>1, <3>2 DEF IsRun
    <3>4. QED
      BY <1>3, <2>1, <3>3
  <2>2. CASE ~(run.intervals[n].phase = work /\ run.intervals[n].confidence = confidence)
    <3>1. d[n] = NoSeconds
      BY <1>3, <2>2
    <3>2. QED
      BY <3>1 DEF NoSeconds, IsDecimal
  <2>3. QED
    BY <2>1, <2>2
<1>5. QED
  BY <1>2, <1>3, <1>4

\* An amount of nothing is no tick, and a decimal amount a number of them.
LEMMA TicksOfAmounts ==
    ASSUME Finest \in Nat
    PROVE  Ticks(NoSeconds) = 0 /\ \A d : IsDecimal(d) => Ticks(d) \in Int
<1>1. ASSUME NEW d, IsDecimal(d) PROVE Ticks(d) \in Int
  <2>1. d.scale \in 0 .. Finest /\ Finest \in 0 .. Finest
    BY <1>1 DEF IsDecimal
  <2>2. QED
    BY <1>1, <2>1, ScaledTwice
<1>2. Ticks(NoSeconds) = 0
  <2>1. PICK p \in Int : p = PowerOfTen(Finest)
    <3>1. PowerOfTen(Finest) \in Nat \ {0}
      BY PowerFacts, Zenon
    <3>2. QED
      BY <3>1
  <2>2. Finest - 0 = Finest /\ 0 * p = 0
    OBVIOUS
  <2>3. QED
    BY <2>1, <2>2 DEF Ticks, AtScale, NoSeconds
<1>3. QED
  BY <1>1, <1>2

\* The ticks of an interval that counts for some phases.
TicksIn(run, phases, n) == IF run.intervals[n].phase \in phases THEN Ticks(run.intervals[n].duration) ELSE 0

\* The amount reported for a phase that was completely recorded is what was worked in it.
LEMMA EffortIsExact ==
    ASSUME NEW run, IsRun(run), IntervalsFit(run), NEW work, Finest \in Nat,
           EffortDecimals(run, work).complete
    PROVE  /\ IsDecimal(EffortDecimals(run, work).total)
           /\ WorkedIn(run, {work}) \in Int
           /\ Ticks(EffortDecimals(run, work).total) = WorkedIn(run, {work})
           /\ \A n \in 1 .. Len(run.intervals) : TicksIn(run, {work}, n) \in Int
<1>1. PICK m \in Nat : m = Len(run.intervals) /\ DOMAIN run.intervals = 1 .. m
  BY DEF IsRun
<1>2. PICK a : a = Durations(run, work, "measured")
  OBVIOUS
<1>3. PICK b : b = Durations(run, work, "estimated")
  OBVIOUS
<1>4. /\ DOMAIN a = 1 .. m
      /\ \A n \in 1 .. m : /\ IsDecimal(a[n])
                           /\ a[n] = IF run.intervals[n].phase = work /\ run.intervals[n].confidence = "measured"
                                     THEN run.intervals[n].duration ELSE NoSeconds
  BY <1>1, <1>2, DurationsAreDecimal
<1>5. /\ DOMAIN b = 1 .. m
      /\ \A n \in 1 .. m : /\ IsDecimal(b[n])
                           /\ b[n] = IF run.intervals[n].phase = work /\ run.intervals[n].confidence = "estimated"
                                     THEN run.intervals[n].duration ELSE NoSeconds
  BY <1>1, <1>3, DurationsAreDecimal
<1>6. PICK s : s = [n \in 1 .. m |-> Ticks(a[n])]
  OBVIOUS
<1>7. PICK t : t = [n \in 1 .. m |-> Ticks(b[n])]
  OBVIOUS
<1>8. PICK u : u = [n \in DOMAIN run.intervals |->
                        IF run.intervals[n].phase \in {work} THEN Ticks(run.intervals[n].duration) ELSE 0]
  OBVIOUS
<1>9. \A n \in 1 .. m : Ticks(a[n]) \in Int /\ Ticks(b[n]) \in Int
  BY <1>4, <1>5, TicksOfAmounts
<1>10. ASSUME NEW n \in 1 .. m
       PROVE  TicksIn(run, {work}, n) \in Int /\ TicksIn(run, {work}, n) = Ticks(a[n]) + Ticks(b[n])
  <2>1. CASE run.intervals[n].phase = work
    <3>1. run.intervals[n].confidence \in {"measured", "estimated"}
      <4>1. run.intervals[n].confidence \in {"measured", "estimated", "unknown"}
        BY <1>1 DEF IsRun
      <4>2. run.intervals[n].confidence # "unknown"
        BY <1>1, <2>1 DEF EffortDecimals
      <4>3. QED
        BY <4>1, <4>2
    <3>2. PICK d : d = run.intervals[n].duration
      OBVIOUS
    <3>3. \/ a[n] = d /\ b[n] = NoSeconds
          \/ b[n] = d /\ a[n] = NoSeconds
      BY <1>4, <1>5, <2>1, <3>1, <3>2
    <3>4. Ticks(d) \in Int /\ Ticks(NoSeconds) = 0
      BY <1>9, <3>3, TicksOfAmounts
    <3>5. TicksIn(run, {work}, n) = Ticks(d)
      BY <2>1, <3>2 DEF TicksIn
    <3>6. QED
      BY <3>3, <3>4, <3>5
  <2>2. CASE run.intervals[n].phase # work
    <3>1. a[n] = NoSeconds /\ b[n] = NoSeconds
      BY <1>4, <1>5, <2>2
    <3>2. TicksIn(run, {work}, n) = 0
      BY <2>2 DEF TicksIn
    <3>3. QED
      BY <3>1, <3>2, TicksOfAmounts
  <2>3. QED
    BY <2>1, <2>2
<1>11. /\ s \in [1 .. m -> Int] /\ t \in [1 .. m -> Int] /\ u \in [1 .. m -> Int]
       /\ \A n \in 1 .. m : u[n] = s[n] + t[n]
  <2>1. u = [n \in 1 .. m |-> TicksIn(run, {work}, n)]
    BY <1>1, <1>8 DEF TicksIn
  <2>2. \A n \in 1 .. m : u[n] = TicksIn(run, {work}, n)
    BY <2>1
  <2>3. QED
    BY <1>6, <1>7, <1>9, <1>10, <2>1, <2>2
<1>12. m \in Nat
  BY <1>1
<1>13. SumOf(u) = SumOf(s) + SumOf(t)
  <2>1. Added(m, s, t, u)
    BY <1>11 DEF Added
  <2>2. QED
    BY <1>12, <2>1, SumAdds
<1>14. IsDecimal(AddDecimals(a)) /\ Ticks(AddDecimals(a)) = SumOf(s)
  <2>1. \A n \in 1 .. m : IsDecimal(a[n]) /\ s[n] = Ticks(a[n])
    BY <1>4, <1>6
  <2>2. QED
    BY <1>4, <1>11, <1>12, <2>1, SumIsExact, Zenon
<1>15. IsDecimal(AddDecimals(b)) /\ Ticks(AddDecimals(b)) = SumOf(t)
  <2>1. \A n \in 1 .. m : IsDecimal(b[n]) /\ t[n] = Ticks(b[n])
    BY <1>5, <1>7
  <2>2. QED
    BY <1>5, <1>11, <1>12, <2>1, SumIsExact, Zenon
<1>16. EffortDecimals(run, work).total = AddDecimals(<<AddDecimals(a), AddDecimals(b)>>)
  BY <1>2, <1>3 DEF EffortDecimals
<1>17. /\ IsDecimal(AddDecimals(<<AddDecimals(a), AddDecimals(b)>>))
       /\ Ticks(AddDecimals(a)) \in Int /\ Ticks(AddDecimals(b)) \in Int
       /\ Ticks(AddDecimals(<<AddDecimals(a), AddDecimals(b)>>)) = Ticks(AddDecimals(a)) + Ticks(AddDecimals(b))
  BY <1>14, <1>15, TwoAreAdded, Zenon
<1>18. WorkedIn(run, {work}) = SumOf(u)
  BY <1>8 DEF WorkedIn
<1>19. \A n \in 1 .. Len(run.intervals) : TicksIn(run, {work}, n) \in Int
  BY <1>1, <1>10
<1>20. WorkedIn(run, {work}) \in Int /\ WorkedIn(run, {work}) = SumOf(s) + SumOf(t)
  BY <1>13, <1>14, <1>15, <1>17, <1>18
<1>21. Ticks(EffortDecimals(run, work).total) = WorkedIn(run, {work})
  BY <1>14, <1>15, <1>16, <1>17, <1>20
<1>22. IsDecimal(EffortDecimals(run, work).total)
  BY <1>16, <1>17, Zenon
<1>23. QED
  BY <1>19, <1>20, <1>21, <1>22, Zenon

\* What was worked in two phases is what was in the one and in the other.
LEMMA PhasesAdd ==
    ASSUME NEW run, IsRun(run), IntervalsFit(run), Finest \in Nat,
           EffortDecimals(run, "trial").complete, EffortDecimals(run, "follow-up").complete
    PROVE  WorkedIn(run, {"trial", "follow-up"}) = WorkedIn(run, {"trial"}) + WorkedIn(run, {"follow-up"})
<1>1. PICK m \in Nat : m = Len(run.intervals) /\ DOMAIN run.intervals = 1 .. m
  BY DEF IsRun
<1>2. \A n \in 1 .. m : TicksIn(run, {"trial"}, n) \in Int /\ TicksIn(run, {"follow-up"}, n) \in Int
  BY <1>1, EffortIsExact
<1>3. \A n \in 1 .. m :
        TicksIn(run, {"trial", "follow-up"}, n) = TicksIn(run, {"trial"}, n) + TicksIn(run, {"follow-up"}, n)
  <2> SUFFICES ASSUME NEW n \in 1 .. m
               PROVE  TicksIn(run, {"trial", "follow-up"}, n) = TicksIn(run, {"trial"}, n) + TicksIn(run, {"follow-up"}, n)
    OBVIOUS
  <2>1. TicksIn(run, {"trial"}, n) \in Int /\ TicksIn(run, {"follow-up"}, n) \in Int
    BY <1>2
  <2>2. QED
    BY <2>1 DEF TicksIn
<1>4. PICK s : s = [n \in 1 .. m |-> TicksIn(run, {"trial"}, n)]
  OBVIOUS
<1>5. PICK t : t = [n \in 1 .. m |-> TicksIn(run, {"follow-up"}, n)]
  OBVIOUS
<1>6. PICK u : u = [n \in 1 .. m |-> TicksIn(run, {"trial", "follow-up"}, n)]
  OBVIOUS
<1>7. /\ m \in Nat /\ s \in [1 .. m -> Int] /\ t \in [1 .. m -> Int] /\ u \in [1 .. m -> Int]
      /\ \A n \in 1 .. m : u[n] = s[n] + t[n]
  BY <1>1, <1>2, <1>3, <1>4, <1>5, <1>6
<1>8. SumOf(u) = SumOf(s) + SumOf(t)
  <2>1. Added(m, s, t, u)
    BY <1>7 DEF Added
  <2>2. QED
    BY <1>7, <2>1, SumAdds
<1>9. /\ WorkedIn(run, {"trial"}) = SumOf(s) /\ WorkedIn(run, {"follow-up"}) = SumOf(t)
      /\ WorkedIn(run, {"trial", "follow-up"}) = SumOf(u)
  BY <1>1, <1>4, <1>5, <1>6 DEF WorkedIn, TicksIn
<1>10. QED
  BY <1>8, <1>9

-----------------------------------------------------------------------------
(* A dataset *)

\* Records that were all accepted as they were supplied.
Usable ==
    /\ Len(supplied) \in Nat /\ DOMAIN supplied = 1 .. Len(supplied)
    /\ \A n \in DOMAIN supplied :
        IsRun(supplied[n]) /\ IsRegistration(supplied[n].registration) /\ ValidateRun(supplied[n])
    /\ OperatorsAreSerial(supplied)

\* What was worked in a phase by those whose record of it is complete is a number each.
LEMMA CohortAmounts ==
    ASSUME Finest \in Nat, Usable, NEW work, NEW cohort \in SUBSET DOMAIN supplied,
           \A n \in cohort : EffortDecimals(supplied[n], work).complete
    PROVE  \A n \in cohort : /\ IsDecimal(EffortDecimals(supplied[n], work).total)
                             /\ WorkedIn(supplied[n], {work}) \in Int
                             /\ Ticks(EffortDecimals(supplied[n], work).total) = WorkedIn(supplied[n], {work})
<1> SUFFICES ASSUME NEW n \in cohort
             PROVE  /\ IsDecimal(EffortDecimals(supplied[n], work).total)
                    /\ WorkedIn(supplied[n], {work}) \in Int
                    /\ Ticks(EffortDecimals(supplied[n], work).total) = WorkedIn(supplied[n], {work})
  OBVIOUS
<1>1. IsRun(supplied[n]) /\ ValidateRun(supplied[n])
  BY DEF Usable
<1>2. IntervalsFit(supplied[n])
  BY <1>1 DEF ValidateRun
<1>3. EffortDecimals(supplied[n], work).complete
  OBVIOUS
<1>4. QED
  BY <1>1, <1>2, <1>3, EffortIsExact

\* A total that is reported is what the cohort worked.
LEMMA TotalIsExact ==
    ASSUME Finest \in Nat, Usable, NEW work, Total(supplied, work) # Null,
           NEW cohort, cohort = {n \in DOMAIN supplied : supplied[n].origin = "operator"}
    PROVE  /\ \A n \in cohort : EffortDecimals(supplied[n], work).complete
           /\ IsDecimal(Total(supplied, work)) /\ Ticks(Total(supplied, work)) = WorkedBy(cohort, {work})
<1>1. PICK m \in Nat : m = Len(supplied) /\ DOMAIN supplied = 1 .. m
  BY DEF Usable
<1>2. PICK ds : ds = [n \in DOMAIN supplied |->
                        IF n \in cohort THEN EffortDecimals(supplied[n], work).total ELSE NoSeconds]
  OBVIOUS
<1>3. (\A n \in cohort : EffortDecimals(supplied[n], work).complete) /\ Total(supplied, work) = AddDecimals(ds)
  BY <1>2 DEF Total
<1>4. \A n \in cohort : /\ IsDecimal(EffortDecimals(supplied[n], work).total)
                        /\ WorkedIn(supplied[n], {work}) \in Int
                        /\ Ticks(EffortDecimals(supplied[n], work).total) = WorkedIn(supplied[n], {work})
  <2>1. cohort \in SUBSET DOMAIN supplied
    OBVIOUS
  <2>2. QED
    BY <1>3, <2>1, CohortAmounts
<1>5. PICK t : t = [n \in DOMAIN supplied |-> IF n \in cohort THEN WorkedIn(supplied[n], {work}) ELSE 0]
  OBVIOUS
<1>6. IsDecimal(NoSeconds) /\ Ticks(NoSeconds) = 0
  BY TicksOfAmounts DEF NoSeconds, IsDecimal
<1>7. ASSUME NEW n \in 1 .. m PROVE IsDecimal(ds[n]) /\ t[n] = Ticks(ds[n]) /\ t[n] \in Int
  <2>1. CASE n \in cohort
    <3>1. ds[n] = EffortDecimals(supplied[n], work).total /\ t[n] = WorkedIn(supplied[n], {work})
      BY <1>1, <1>2, <1>5, <2>1
    <3>2. QED
      BY <1>4, <2>1, <3>1
  <2>2. CASE n \notin cohort
    <3>1. ds[n] = NoSeconds /\ t[n] = 0
      BY <1>1, <1>2, <1>5, <2>2
    <3>2. QED
      BY <1>6, <3>1
  <2>3. QED
    BY <2>1, <2>2
<1>8. DOMAIN ds = 1 .. m /\ t \in [1 .. m -> Int]
  BY <1>1, <1>2, <1>5, <1>7
<1>9. m \in Nat
  BY <1>1
<1>10. IsDecimal(AddDecimals(ds)) /\ Ticks(AddDecimals(ds)) = SumOf(t)
  BY <1>7, <1>8, <1>9, SumIsExact, ZenonT(60)
<1>11. WorkedBy(cohort, {work}) = SumOf(t)
  BY <1>5 DEF WorkedBy
<1>12. QED
  BY <1>3, <1>10, <1>11, Zenon

\* All that the cohort worked is what it did in the one phase and in the other.
LEMMA CohortAdds ==
    ASSUME Finest \in Nat, Usable, NEW cohort \in SUBSET DOMAIN supplied,
           \A n \in cohort : EffortDecimals(supplied[n], "trial").complete,
           \A n \in cohort : EffortDecimals(supplied[n], "follow-up").complete
    PROVE  WorkedBy(cohort, {"trial", "follow-up"}) = WorkedBy(cohort, {"trial"}) + WorkedBy(cohort, {"follow-up"})
<1>1. PICK m \in Nat : m = Len(supplied) /\ DOMAIN supplied = 1 .. m
  BY DEF Usable
<1>2. PICK s : s = [n \in DOMAIN supplied |-> IF n \in cohort THEN WorkedIn(supplied[n], {"trial"}) ELSE 0]
  OBVIOUS
<1>3. PICK t : t = [n \in DOMAIN supplied |-> IF n \in cohort THEN WorkedIn(supplied[n], {"follow-up"}) ELSE 0]
  OBVIOUS
<1>4. PICK u : u = [n \in DOMAIN supplied |->
                        IF n \in cohort THEN WorkedIn(supplied[n], {"trial", "follow-up"}) ELSE 0]
  OBVIOUS
<1>5. ASSUME NEW n \in 1 .. m PROVE s[n] \in Int /\ t[n] \in Int /\ u[n] = s[n] + t[n]
  <2>1. CASE n \in cohort
    <3>1. PICK run : run = supplied[n]
      OBVIOUS
    <3>2. IsRun(run) /\ ValidateRun(run)
      BY <2>1, <3>1 DEF Usable
    <3>3. IntervalsFit(run)
      BY <3>2 DEF ValidateRun
    <3>4. EffortDecimals(run, "trial").complete /\ EffortDecimals(run, "follow-up").complete
      BY <2>1, <3>1
    <3>5. WorkedIn(run, {"trial"}) \in Int /\ WorkedIn(run, {"follow-up"}) \in Int
      BY <3>2, <3>3, <3>4, EffortIsExact
    <3>6. WorkedIn(run, {"trial", "follow-up"}) = WorkedIn(run, {"trial"}) + WorkedIn(run, {"follow-up"})
      BY <3>2, <3>3, <3>4, PhasesAdd
    <3>7. /\ s[n] = WorkedIn(run, {"trial"}) /\ t[n] = WorkedIn(run, {"follow-up"})
          /\ u[n] = WorkedIn(run, {"trial", "follow-up"})
      BY <1>1, <1>2, <1>3, <1>4, <2>1, <3>1
    <3>8. QED
      BY <3>5, <3>6, <3>7
  <2>2. CASE n \notin cohort
    BY <1>1, <1>2, <1>3, <1>4, <2>2
  <2>3. QED
    BY <2>1, <2>2
<1>6. Added(m, s, t, u)
  <2>1. DOMAIN s = 1 .. m /\ DOMAIN t = 1 .. m /\ DOMAIN u = 1 .. m
    BY <1>1, <1>2, <1>3, <1>4
  <2>2. s = [n \in 1 .. m |-> s[n]] /\ t = [n \in 1 .. m |-> t[n]] /\ u = [n \in 1 .. m |-> u[n]]
    BY <1>1, <1>2, <1>3, <1>4
  <2>3. \A n \in 1 .. m : s[n] \in Int /\ t[n] \in Int /\ u[n] \in Int /\ u[n] = s[n] + t[n]
    BY <1>5
  <2>4. s \in [1 .. m -> Int]
    BY <2>2, <2>3
  <2>5. t \in [1 .. m -> Int]
    BY <2>2, <2>3
  <2>6. u \in [1 .. m -> Int]
    BY <2>2, <2>3
  <2>7. QED
    BY <2>3, <2>4, <2>5, <2>6 DEF Added
<1>7. SumOf(u) = SumOf(s) + SumOf(t)
  BY <1>6, SumAdds
<1>8. /\ WorkedBy(cohort, {"trial"}) = SumOf(s) /\ WorkedBy(cohort, {"follow-up"}) = SumOf(t)
      /\ WorkedBy(cohort, {"trial", "follow-up"}) = SumOf(u)
  BY <1>2, <1>3, <1>4 DEF WorkedBy
<1>9. QED
  BY <1>7, <1>8

\* Of records that are reported, the totals are true.
LEMMA TotalsOfReport ==
    ASSUME Finest \in Nat, Usable, collected = Report(supplied)
    PROVE  TotalsAreTrue
<1>1. PICK cohort : cohort = {n \in DOMAIN supplied : supplied[n].origin = "operator"}
  OBVIOUS
<1>2. PICK trial : trial = Total(supplied, "trial")
  OBVIOUS
<1>3. PICK followUp : followUp = Total(supplied, "follow-up")
  OBVIOUS
<1>4. /\ collected.trial = trial
      /\ collected.allIn # Null => /\ trial # Null /\ followUp # Null
                                   /\ collected.allIn = AddDecimals(<<trial, followUp>>)
  BY <1>2, <1>3 DEF Report
<1>5. trial # Null => /\ \A n \in cohort : EffortDecimals(supplied[n], "trial").complete
                      /\ IsDecimal(trial) /\ Ticks(trial) = WorkedBy(cohort, {"trial"})
  BY <1>1, <1>2, TotalIsExact
<1>6. followUp # Null => /\ \A n \in cohort : EffortDecimals(supplied[n], "follow-up").complete
                         /\ IsDecimal(followUp) /\ Ticks(followUp) = WorkedBy(cohort, {"follow-up"})
  BY <1>1, <1>3, TotalIsExact
<1>7. ASSUME collected.allIn # Null
      PROVE  Ticks(collected.allIn) = WorkedBy(cohort, {"trial", "follow-up"})
  <2>1. cohort \in SUBSET DOMAIN supplied
    BY <1>1
  <2>2. WorkedBy(cohort, {"trial", "follow-up"}) = WorkedBy(cohort, {"trial"}) + WorkedBy(cohort, {"follow-up"})
    BY <1>4, <1>5, <1>6, <1>7, <2>1, CohortAdds
  <2>3. Ticks(AddDecimals(<<trial, followUp>>)) = Ticks(trial) + Ticks(followUp)
    BY <1>4, <1>5, <1>6, <1>7, TwoAreAdded
  <2>4. QED
    BY <1>4, <1>5, <1>6, <1>7, <2>2, <2>3
<1>8. QED
  BY <1>1, <1>4, <1>5, <1>7 DEF TotalsAreTrue

\* Intervals without a common instant: one ends before the other starts.
LEMMA Apart ==
    ASSUME NEW a \in Int, NEW b \in Int, NEW c \in Int, NEW d \in Int, c >= b \/ a >= d
    PROVE  InstantsOf(a, b) \cap InstantsOf(c, d) = {}
<1> SUFFICES ASSUME NEW x \in InstantsOf(a, b), x \in InstantsOf(c, d) PROVE FALSE
  OBVIOUS
<1>1. x \in Int /\ a <= x /\ x <= b - 1 /\ c <= x /\ x <= d - 1
  BY DEF InstantsOf
<1>2. QED
  BY <1>1

\* Of usable records no operator's measured intervals have a common instant.
LEMMA UsableWorkOnce ==
    ASSUME Usable
    PROVE  OperatorsWorkOnce
<1> SUFFICES ASSUME NEW n \in DOMAIN supplied, NEW m \in DOMAIN supplied,
                    NEW i \in DOMAIN supplied[n].intervals, NEW j \in DOMAIN supplied[m].intervals,
                    NEW x, x = supplied[n].intervals[i], NEW y, y = supplied[m].intervals[j],
                    x.confidence = "measured", y.confidence = "measured", x.operator = y.operator,
                    n # m \/ i # j
             PROVE  InstantsOf(x.start, x.end) \cap InstantsOf(y.start, y.end) = {}
  BY DEF OperatorsWorkOnce
<1>1. IsRun(supplied[n]) /\ IntervalsFit(supplied[n]) /\ IsRun(supplied[m]) /\ IntervalsFit(supplied[m])
  BY DEF Usable, ValidateRun
<1>2. x.start \in Int /\ x.end \in Int /\ x.start # Null
  <2>1. x.start # Null /\ x.end # Null
    BY <1>1 DEF IntervalsFit
  <2>2. x.start \in Int \cup {Null} /\ x.end \in Int \cup {Null}
    BY <1>1 DEF IsRun
  <2>3. QED
    BY <2>1, <2>2
<1>3. y.start \in Int /\ y.end \in Int /\ y.start # Null
  <2>1. y.start # Null /\ y.end # Null
    BY <1>1 DEF IntervalsFit
  <2>2. y.start \in Int \cup {Null} /\ y.end \in Int \cup {Null}
    BY <1>1 DEF IsRun
  <2>3. QED
    BY <2>1, <2>2
<1>4. n \in Int /\ m \in Int /\ i \in Int /\ j \in Int
  <2>1. DOMAIN supplied = 1 .. Len(supplied)
    BY DEF Usable
  <2>2. DOMAIN supplied[n].intervals = 1 .. Len(supplied[n].intervals)
        /\ DOMAIN supplied[m].intervals = 1 .. Len(supplied[m].intervals)
    BY <1>1 DEF IsRun
  <2>3. n \in 1 .. Len(supplied) /\ m \in 1 .. Len(supplied)
    BY <2>1
  <2>4. i \in 1 .. Len(supplied[n].intervals) /\ j \in 1 .. Len(supplied[m].intervals)
    BY <2>2
  <2>5. QED
    BY <2>3, <2>4
<1>5. StartsBefore(supplied, n, i, m, j) \/ StartsBefore(supplied, m, j, n, i)
  BY <1>2, <1>3, <1>4 DEF StartsBefore
<1>6. y.start >= x.end \/ x.start >= y.end
  <2>1. StartsBefore(supplied, n, i, m, j) => y.start >= x.end
    BY <1>2, <1>3 DEF Usable, OperatorsAreSerial
  <2>2. StartsBefore(supplied, m, j, n, i) => x.start >= y.end
    BY <1>2, <1>3 DEF Usable, OperatorsAreSerial
  <2>3. QED
    BY <1>5, <2>1, <2>2
<1>7. QED
  BY <1>2, <1>3, <1>6, Apart

\* Of two cases that do not overlap, no instant is common.
LEMMA ApartCases ==
    ASSUME NEW r, NEW s, r.startedAt \in Int, r.endedAt \in Int, s.startedAt \in Int, s.endedAt \in Int,
           ~Overlap(r, s)
    PROVE  InstantsOf(s.startedAt, s.endedAt) \cap InstantsOf(r.startedAt, r.endedAt) = {}
<1>1. PICK a \in Int, b \in Int, c \in Int, d \in Int :
        a = s.startedAt /\ b = s.endedAt /\ c = r.startedAt /\ d = r.endedAt
  OBVIOUS
<1>2. Max({c, a}) \in {c, a} /\ Max({c, a}) >= c /\ Max({c, a}) >= a
  <2>1. \E x \in {c, a} : \A y \in {c, a} : x >= y
    <3>1. CASE c >= a
      BY <3>1
    <3>2. CASE a >= c
      BY <3>2
    <3>3. QED
      BY <3>1, <3>2
  <2>2. QED
    BY <2>1 DEF Max
<1>3. Min({d, b}) \in {d, b} /\ Min({d, b}) <= d /\ Min({d, b}) <= b
  <2>1. \E x \in {d, b} : \A y \in {d, b} : x =< y
    <3>1. CASE d <= b
      BY <3>1
    <3>2. CASE b <= d
      BY <3>2
    <3>3. QED
      BY <3>1, <3>2
  <2>2. QED
    BY <2>1 DEF Min
<1>4. ~(Max({c, a}) < Min({d, b}))
  BY <1>1 DEF Overlap
<1> SUFFICES ASSUME NEW x \in InstantsOf(a, b), x \in InstantsOf(c, d) PROVE FALSE
  BY <1>1
<1>5. x \in Int /\ a <= x /\ x <= b - 1 /\ c <= x /\ x <= d - 1
  BY DEF InstantsOf
<1>6. PICK p \in Int, q \in Int : p = Max({c, a}) /\ q = Min({d, b})
  BY <1>2, <1>3
<1>7. (p = c \/ p = a) /\ (q = d \/ q = b) /\ ~(p < q)
  BY <1>2, <1>3, <1>4, <1>6
<1>8. QED
  BY <1>5, <1>7

\* A row that is reported accepted is so of its case.
LEMMA AcceptedRows ==
    ASSUME Finest \in Nat, Usable, NEW n \in DOMAIN supplied, Row(supplied, n).accepted
    PROVE  AcceptedRowIsTrue(n)
<1>1. PICK run : run = supplied[n]
  OBVIOUS
<1>2. run.status = "accepted" /\ Violations(supplied, n) = {}
  BY <1>1 DEF Row
<1>3. /\ IsRun(run) /\ IsRegistration(run.registration) /\ TimesFit(run) /\ CountsFit(run)
      /\ IntervalsFit(run) /\ AcceptedFits(run)
  BY <1>1, <1>2 DEF Usable, ValidateRun
<1>4. Started(run) /\ run.scope.quiescence = "confirmed" /\ run.scope.complete
  BY <1>3 DEF AcceptedFits
<1>5. ~AfterUnknown(supplied, n) /\ ~Concurrent(supplied, n)
  BY <1>1, <1>2, <1>4 DEF Violations
<1>6. PICK cohort : cohort = {o \in DOMAIN supplied : supplied[o].origin = run.origin /\ Started(supplied[o])}
  OBVIOUS
<1>7. ASSUME NEW o \in cohort
      PROVE  /\ o \in DOMAIN supplied /\ supplied[o].origin = run.origin /\ Started(supplied[o])
             /\ supplied[o].startedAt \in Int /\ supplied[o].endedAt \in Int /\ CountsFit(supplied[o])
  <2>1. o \in DOMAIN supplied /\ supplied[o].origin = run.origin /\ Started(supplied[o])
    BY <1>6
  <2>2. IsRun(supplied[o]) /\ TimesFit(supplied[o]) /\ CountsFit(supplied[o])
    BY <2>1 DEF Usable, ValidateRun
  <2>3. supplied[o].startedAt # Null /\ supplied[o].endedAt # Null
    BY <2>1, <2>2 DEF Started, TimesFit
  <2>4. supplied[o].startedAt \in Int \cup {Null} /\ supplied[o].endedAt \in Int \cup {Null}
    BY <2>2 DEF IsRun
  <2>5. QED
    BY <2>1, <2>2, <2>3, <2>4
<1>8. n \in cohort /\ run.startedAt \in Int /\ run.endedAt \in Int
  <2>1. n \in cohort
    BY <1>1, <1>4, <1>6
  <2>2. QED
    BY <1>1, <1>7, <2>1
<1>9. ASSUME NEW o \in cohort \ {n}
      PROVE  InstantsOf(run.startedAt, run.endedAt)
                \cap InstantsOf(supplied[o].startedAt, supplied[o].endedAt) = {}
  <2>1. ~Overlap(supplied[o], run)
    BY <1>1, <1>5, <1>7 DEF Concurrent
  <2>2. QED
    BY <1>7, <1>8, <2>1, ApartCases
<1>10. ASSUME NEW o \in cohort, o = n \/ supplied[o].startedAt < run.startedAt
       PROVE  "unknown" \notin ToSet(Operations(supplied[o]))
  <2>1. supplied[o].scope.quiescence # "unknown"
    <3>1. CASE o = n
      BY <1>1, <1>4, <3>1
    <3>2. CASE supplied[o].startedAt < run.startedAt
      BY <1>1, <1>5, <1>7, <3>2 DEF AfterUnknown
    <3>3. QED
      BY <1>10, <3>1, <3>2
  <2>2. PICK operations : operations = Operations(supplied[o])
    OBVIOUS
  <2>3. ~ \E k \in DOMAIN operations : operations[k] = "unknown"
    BY <1>7, <2>1, <2>2 DEF CountsFit
  <2>4. QED
    BY <2>2, <2>3 DEF ToSet
<1>11. Len(Operations(run)) \in 1 .. MaxPhysical
  <2>1. run.scope.physical = Len(Operations(run))
    BY <1>3, <1>4 DEF CountsFit
  <2>2. QED
    BY <1>3, <2>1 DEF AcceptedFits
<1>12. ASSUME run.registration.cap # Null
       PROVE  WorkedIn(run, {"trial"}) <= Ticks(run.registration.cap)
  <2>1. /\ EffortDecimals(run, "trial").complete
        /\ DecimalExcess(EffortDecimals(run, "trial").total, run.registration.cap).units = 0
    BY <1>3, <1>12 DEF AcceptedFits
  <2>2. IsDecimal(run.registration.cap)
    BY <1>3, <1>12 DEF IsRegistration
  <2>3. /\ IsDecimal(EffortDecimals(run, "trial").total)
        /\ Ticks(EffortDecimals(run, "trial").total) = WorkedIn(run, {"trial"})
    BY <1>3, <2>1, EffortIsExact
  <2>4. QED
    BY <2>1, <2>2, <2>3, NoExcess
<1>13. ASSUME NEW check \in run.registration.checks, check.required, check.revisions # "base"
       PROVE  \E c \in run.checks : c.id = check.id /\ c.artifact = run.acceptance.artifact
  <2>1. check.revisions \in {"candidate", "both"}
    BY <1>3, <1>13 DEF IsRegistration
  <2>2. "candidate" \in DeclaredRevisions(check)
    BY <2>1 DEF DeclaredRevisions
  <2>3. QED
    BY <1>3, <1>13, <2>2 DEF AcceptedFits
<1>14. QED
  BY <1>1, <1>6, <1>9, <1>10, <1>11, <1>12, <1>13 DEF AcceptedRowIsTrue

RunRecords == UNION {RunsOf(r) : r \in UNION {ToSet(list) : list \in RegistrationLists}}
Refused == [rows |-> <<>>, trial |-> Null, allIn |-> Null]

\* Every record was supplied for a registered case, and what was collected is of records
\* that were all usable.
DatasetInv ==
    /\ registrations \in RegistrationLists \cup {<<>>}
    /\ supplied \in Seq(RunRecords)
    /\ collected # Null => collected = Refused \/ (Usable /\ collected = Report(supplied))

\* A dataset keeps its invariant.
LEMMA DatasetStep == DatasetInv /\ DatasetNext => DatasetInv'
<1> SUFFICES ASSUME DatasetInv, DatasetNext PROVE DatasetInv'
  OBVIOUS
<1>1. CASE Register
  <2>1. registrations' \in RegistrationLists /\ UNCHANGED <<supplied, collected>>
    BY <1>1 DEF Register
  <2>2. Usable' = Usable /\ Report(supplied)' = Report(supplied)
    BY <2>1 DEF Usable
  <2>3. QED
    BY <2>1, <2>2 DEF DatasetInv
<1>2. ASSUME NEW registration \in ToSet(registrations), NEW run \in RunsOf(registration), Supply(run)
      PROVE  DatasetInv'
  <2>1. run \in RunRecords
    <3>1. registrations \in RegistrationLists
      <4>1. ToSet(<<>>) = {}
        BY DEF ToSet
      <4>2. registrations # <<>>
        BY <4>1
      <4>3. QED
        BY <4>2 DEF DatasetInv
    <3>2. QED
      BY <3>1 DEF RunRecords
  <2>2. supplied' \in Seq(RunRecords)
    BY <1>2, <2>1 DEF DatasetInv, Supply
  <2>3. QED
    BY <1>2, <2>2 DEF DatasetInv, Supply
<1>3. CASE CollectDataset
  <2>1. UNCHANGED <<registrations, supplied>>
    BY <1>3 DEF CollectDataset
  <2>2. CASE OneRecordEach(supplied) /\ (\A n \in DOMAIN supplied : ValidateRun(supplied[n])) /\ OperatorsAreSerial(supplied)
    <3>1. Len(supplied) \in Nat /\ DOMAIN supplied = 1 .. Len(supplied)
          /\ \A n \in DOMAIN supplied : supplied[n] \in RunRecords
      BY DEF DatasetInv
    <3>2. ASSUME NEW n \in DOMAIN supplied PROVE IsRun(supplied[n]) /\ IsRegistration(supplied[n].registration)
      <4>1. IsRun(supplied[n])
        BY <3>1, <3>2, DatasetAssumption DEF RunRecords
      <4>2. supplied[n].registration \in ToSet(registrations)
        BY <2>2 DEF OneRecordEach
      <4>3. registrations \in RegistrationLists
        <5>1. ToSet(<<>>) = {}
          BY DEF ToSet
        <5>2. registrations # <<>>
          BY <4>2, <5>1
        <5>3. QED
          BY <5>2 DEF DatasetInv
      <4>4. QED
        BY <4>1, <4>2, <4>3, DatasetAssumption
    <3>3. Usable
      BY <2>2, <3>1, <3>2 DEF Usable
    <3>4. collected' = Report(supplied)
      BY <1>3, <2>2 DEF CollectDataset
    <3>5. Usable' /\ Report(supplied)' = Report(supplied)
      BY <2>1, <3>3 DEF Usable
    <3>6. QED
      BY <2>1, <3>4, <3>5 DEF DatasetInv
  <2>3. CASE ~(OneRecordEach(supplied) /\ (\A n \in DOMAIN supplied : ValidateRun(supplied[n])) /\ OperatorsAreSerial(supplied))
    <3>1. collected' = Refused
      BY <1>3, <2>3 DEF CollectDataset, Refused
    <3>2. QED
      BY <2>1, <3>1 DEF DatasetInv
  <2>4. QED
    BY <2>2, <2>3
<1>4. QED
  BY <1>1, <1>2, <1>3 DEF DatasetNext

\* What the invariant says of what is reported.
LEMMA DatasetTruth == DatasetInv => DatasetTellsTheTruth
<1> SUFFICES ASSUME DatasetInv, collected # Null
             PROVE  /\ \A n \in DOMAIN collected.rows : collected.rows[n].accepted => AcceptedRowIsTrue(n)
                    /\ TotalsAreTrue
                    /\ collected.rows # <<>> => OperatorsWorkOnce
  BY DEF DatasetTellsTheTruth
<1>1. CASE collected = Refused
  <2>1. collected.rows = <<>> /\ Null = collected.trial /\ Null = collected.allIn
    BY <1>1 DEF Refused
  <2>2. \A n \in DOMAIN collected.rows : FALSE
    BY <2>1
  <2>3. QED
    BY <2>1, <2>2 DEF TotalsAreTrue
<1>2. CASE Usable /\ collected = Report(supplied)
  <2>1. Finest \in Nat
    BY DatasetAssumption
  <2>2. collected.rows = [n \in DOMAIN supplied |-> Row(supplied, n)]
    BY <1>2 DEF Report
  <2>3. ASSUME NEW n \in DOMAIN collected.rows, collected.rows[n].accepted PROVE AcceptedRowIsTrue(n)
    <3>1. n \in DOMAIN supplied /\ Row(supplied, n).accepted
      BY <2>2, <2>3
    <3>2. QED
      BY <1>2, <2>1, <3>1, AcceptedRows
  <2>4. QED
    BY <1>2, <2>1, <2>3, TotalsOfReport, UsableWorkOnce
<1>3. QED
  BY <1>1, <1>2 DEF DatasetInv

\* What a dataset reports is true: an accepted case ran alone, after nothing that ended
\* unheard, within its cap and with its checks; a total is the exact sum of what was
\* recorded; and no operator worked twice at once (collectDataset, validateRun, addDecimals).
THEOREM DatasetsTellTheTruth == DatasetInit /\ [][DatasetNext]_datasetVars => []DatasetTellsTheTruth
<1>1. DatasetInit => DatasetInv
  BY DEF DatasetInit, DatasetInv
<1>2. DatasetInv /\ [DatasetNext]_datasetVars => DatasetInv'
  <2> SUFFICES ASSUME DatasetInv, [DatasetNext]_datasetVars PROVE DatasetInv'
    OBVIOUS
  <2>1. CASE DatasetNext
    BY <2>1, DatasetStep
  <2>2. CASE UNCHANGED datasetVars
    <3>1. UNCHANGED <<registrations, supplied, collected>>
      BY <2>2 DEF datasetVars
    <3>2. Usable' = Usable /\ Report(supplied)' = Report(supplied)
      BY <3>1 DEF Usable
    <3>3. QED
      BY <3>1, <3>2 DEF DatasetInv
  <2>3. QED
    BY <2>1, <2>2
<1>3. QED
  BY <1>1, <1>2, DatasetTruth, PTL

=============================================================================
