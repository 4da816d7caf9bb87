------------------------------- MODULE Artifacts -------------------------------
(***************************************************************************)
(* Snapshots of a case's repository (baseline/artifacts: archive.ts,        *)
(* manifest.ts, index.ts).  A container's export is read entry by entry     *)
(* without extracting it, first for the base and then for the candidate,    *)
(* and both are joined in a bundle.  What an export holds is the            *)
(* container's choice: links, second names, controls of git, metadata.      *)
(* A path is the sequence of its parts, a file [path, mode, content]; a     *)
(* digest is what it is the digest of.  An entry's length, also where its   *)
(* metadata gives another (pax size), is part of its content.               *)
(***************************************************************************)
EXTENDS Naturals, SequencesExt

CONSTANTS ArchiveEntries, \* [type, path, mode, content] an export may hold
          MaxEntries,     \* bound of an export's entries
          Folded,         \* the lower case of a path's part
          BaseTree,       \* the files of the registered base manifest
          WritePaths,     \* rules.writePaths, both in the base
          NoSnapshot

\* Names are sequences of the parts that Folded knows.
ASSUME ArchiveAssumption ==
    \A e \in ArchiveEntries : e.path \in Seq(DOMAIN Folded) /\ e.path # NoSnapshot

VARIABLES revision,    \* which snapshot is being captured
          archive,     \* the entries read so far
          archiveRoot, \* root
          pendingName, \* what pending and longName say of the next entry
          entryKinds,  \* entries: folded path -> kind
          sources,     \* files
          parsing,     \* "reading", "parsed" or "refused"
          archives,    \* what the captured exports unpack to, for the properties
          snapshots,   \* revision -> the files its records hold
          damaged,     \* snapshots whose records no longer hold what was written
          bundle       \* the joined snapshots: [base, candidate, returned]

parserVars == <<archiveRoot, pendingName, entryKinds, sources>>
storeVars == <<archives, snapshots, damaged, bundle>>
artifactVars == <<revision, archive, parserVars, parsing, storeVars>>

---------------------------------------------------------------------------
Fold(path) == [n \in DOMAIN path |-> Folded[path[n]]]
NoName == [kind |-> "none", path |-> <<>>]
EmptyParser ==
    /\ archive = <<>> /\ archiveRoot = NoSnapshot /\ pendingName = NoName
    /\ entryKinds = <<>> /\ sources = {}

\* parseArchive returns or throws, and what it had read is gone.
Forget ==
    /\ archive' = <<>> /\ archiveRoot' = NoSnapshot /\ pendingName' = NoName
    /\ entryKinds' = <<>> /\ sources' = {}

(* parseArchive: one header and its content *)
Metadata == {"pax", "long"}
NameOf(entry) == IF pendingName.kind = "given" THEN pendingName.path ELSE entry.path
ArchivePath(path) ==
    \A n \in DOMAIN path :
        /\ path[n] \notin {".", ".."}
        /\ Folded[path[n]] = ".git" => n = 1 /\ path[n] = ".git"
\* Slip: the spelling counts.
CollidesAsSpelled(path, type) == path \in DOMAIN entryKinds
Collides(path, type) ==
    LET key == Fold(path)
    IN \/ key \in DOMAIN entryKinds
       \/ \E other \in DOMAIN entryKinds :
            \/ IsStrictPrefix(other, key) /\ entryKinds[other] = "file"
            \/ type = "file" /\ IsStrictPrefix(key, other)

MetadataFits(entry) == pendingName = NoName
RootFits(entry) == entry.type = "directory" /\ Len(NameOf(entry)) = 1 /\ NameOf(entry)[1] \notin {"..", ".git"}
EntryFits(entry) ==
    /\ entry.type \in {"file", "directory"} /\ IsStrictPrefix(archiveRoot, NameOf(entry))
    /\ LET path == Tail(NameOf(entry))
       IN /\ ArchivePath(path) /\ ~Collides(path, entry.type)
          /\ entry.type = "file" => path # <<".git">>
          /\ entry.type = "file" /\ path[1] # ".git" => entry.mode \in {"644", "755"}
Fits(entry) ==
    /\ entry.mode # "privileged"
    /\ IF entry.type \in Metadata THEN MetadataFits(entry)
       ELSE IF archiveRoot = NoSnapshot THEN RootFits(entry) ELSE EntryFits(entry)

Reads(entry) ==
    /\ parsing = "reading" /\ Len(archive) < MaxEntries /\ Fits(entry)
    /\ archive' = Append(archive, entry)
    /\ UNCHANGED <<revision, parsing, storeVars>>
ReadMetadata(entry) ==
    /\ entry.type \in Metadata /\ Reads(entry)
    /\ pendingName' = IF entry.path = <<>> THEN [kind |-> "kept", path |-> <<>>]
                      ELSE [kind |-> "given", path |-> entry.path]
    /\ UNCHANGED <<archiveRoot, entryKinds, sources>>
ReadRoot(entry) ==
    /\ entry.type \notin Metadata /\ archiveRoot = NoSnapshot /\ Reads(entry)
    /\ archiveRoot' = NameOf(entry) /\ pendingName' = NoName
    /\ UNCHANGED <<entryKinds, sources>>
ReadEntry(entry) ==
    /\ entry.type \notin Metadata /\ archiveRoot # NoSnapshot /\ Reads(entry)
    /\ pendingName' = NoName
    /\ LET path == Tail(NameOf(entry))
       IN /\ entryKinds' = [key \in {Fold(path)} \cup DOMAIN entryKinds |->
               IF key = Fold(path) THEN entry.type ELSE entryKinds[key]]
          /\ sources' = IF entry.type = "directory" \/ path[1] = ".git" THEN sources
                        ELSE sources \cup {[path |-> path, mode |-> entry.mode, content |-> entry.content]}
    /\ UNCHANGED archiveRoot
\* The first entry that does not fit, or bytes that are no archive, end it.
RefuseArchive ==
    /\ parsing = "reading"
    /\ parsing' = "refused" /\ Forget
    /\ UNCHANGED <<revision, storeVars>>

(* manifest.ts *)
Inventory(files) ==
    LET prefixes == UNION {{SubSeq(file.path, 1, n) : n \in DOMAIN file.path} : file \in files}
    IN /\ \A f, g \in files : Fold(f.path) = Fold(g.path) => f = g
       /\ \A f, g \in files : ~IsStrictPrefix(Fold(f.path), Fold(g.path))
       /\ \A p, q \in prefixes : Fold(p) = Fold(q) => p = q
ChangedPaths(base, candidate) ==
    [sound |-> {[f EXCEPT !.content = "any"] : f \in base} = {[f EXCEPT !.content = "any"] : f \in candidate},
     paths |-> {f.path : f \in {g \in candidate : \E b \in base : b.path = g.path /\ b.content # g.content}}]
TextWrites(files) == \A p \in WritePaths : \E f \in files : f.path = p /\ f.content # "binary"

\* The two zero blocks at the end of the export.
EndBlocks ==
    /\ parsing = "reading" /\ archiveRoot # NoSnapshot /\ pendingName = NoName /\ Inventory(sources)
    /\ parsing' = "parsed"
    /\ UNCHANGED <<revision, archive, parserVars, storeVars>>

---------------------------------------------------------------------------
\* What a tool that unpacks the export would leave, as the measure of the parser: the
\* files outside .git, and whether anything was linked or written under one name twice.
Named(entries, n) ==
    IF n > 1 /\ entries[n - 1].type \in Metadata /\ entries[n - 1].path # <<>>
    THEN entries[n - 1].path ELSE entries[n].path
FilesOf(entries) == {n \in DOMAIN entries : entries[n].type = "file" /\ Named(entries, n)[2] # ".git"}
Extracted(entries) ==
    [files |-> {[path |-> Tail(Named(entries, n)), mode |-> entries[n].mode, content |-> entries[n].content] :
                    n \in FilesOf(entries)},
     plain |-> /\ \A n \in DOMAIN entries : entries[n].type # "link"
               /\ \A m, n \in FilesOf(entries) : m # n => Fold(Named(entries, m)) # Fold(Named(entries, n))
               /\ \A m \in DOMAIN entries, n \in FilesOf(entries) : entries[m].type = "directory" =>
                     ~IsPrefix(Fold(Named(entries, n)), Fold(Named(entries, m)))]

---------------------------------------------------------------------------
(* index.ts *)

ReadSnapshot(r) == snapshots[r] # NoSnapshot /\ snapshots[r] \notin damaged

\* captureSnapshot: both records are written and read again.
CaptureSnapshot ==
    /\ parsing = "parsed" /\ sources \notin damaged /\ TextWrites(sources)
    /\ IF revision = "base" THEN sources = BaseTree
       ELSE LET changed == ChangedPaths(BaseTree, sources) IN changed.sound /\ changed.paths \subseteq WritePaths
    /\ snapshots' = [snapshots EXCEPT ![revision] = sources]
    /\ archives' = [archives EXCEPT ![revision] = Extracted(archive)]
    /\ Forget
    /\ IF revision = "base" THEN revision' = "candidate" /\ parsing' = "reading"
       ELSE revision' = "done" /\ UNCHANGED parsing
    /\ UNCHANGED <<damaged, bundle>>

\* A record that is changed on disk no longer has the digest of its name.
Damage ==
    /\ \E r \in DOMAIN snapshots :
        /\ snapshots[r] # NoSnapshot /\ snapshots[r] \notin damaged
        /\ damaged' = damaged \cup {snapshots[r]}
    /\ UNCHANGED <<revision, archive, parserVars, parsing, archives, snapshots, bundle>>

BundleFits ==
    LET changed == ChangedPaths(snapshots["base"], snapshots["candidate"])
    IN /\ \A r \in DOMAIN snapshots : ReadSnapshot(r) /\ TextWrites(snapshots[r])
       /\ changed.sound /\ changed.paths = WritePaths
BundleCandidate ==
    /\ revision = "done" /\ bundle = NoSnapshot /\ BundleFits
    /\ bundle' = [base |-> snapshots["base"], candidate |-> snapshots["candidate"], returned |-> FALSE]
    /\ UNCHANGED <<revision, archive, parserVars, parsing, archives, snapshots, damaged>>
\* The bundle is returned once all it names was read again.
ReturnBundle ==
    /\ bundle # NoSnapshot /\ ~bundle.returned /\ \A r \in DOMAIN snapshots : ReadSnapshot(r)
    /\ bundle' = [bundle EXCEPT !.returned = TRUE]
    /\ UNCHANGED <<revision, archive, parserVars, parsing, archives, snapshots, damaged>>

---------------------------------------------------------------------------
ArtifactInit ==
    /\ revision = "base" /\ parsing = "reading" /\ EmptyParser
    /\ archives = [r \in {"base", "candidate"} |-> NoSnapshot]
    /\ snapshots = [r \in {"base", "candidate"} |-> NoSnapshot]
    /\ damaged = {} /\ bundle = NoSnapshot

ArtifactNext ==
    \/ \E entry \in ArchiveEntries : ReadMetadata(entry) \/ ReadRoot(entry) \/ ReadEntry(entry)
    \/ RefuseArchive \/ EndBlocks \/ CaptureSnapshot
    \/ Damage \/ BundleCandidate \/ ReturnBundle

---------------------------------------------------------------------------
(***************************************************************************)
(* Whatever names, controls, metadata and aliases an export held, what is   *)
(* kept of it is what extracting it would leave outside .git, and nothing   *)
(* that extracting would have linked, written twice or under two spellings; *)
(* and a bundle that was returned is of the registered base and of the same *)
(* files under the same names and modes with new text in exactly the two    *)
(* files that may be written (parseArchive, changedPaths, retainCandidate). *)
(***************************************************************************)
BundlesAreTwoEdits ==
    /\ \A r \in DOMAIN snapshots : snapshots[r] # NoSnapshot =>
        archives[r].plain /\ archives[r].files = snapshots[r]
    /\ snapshots["base"] \in {NoSnapshot, BaseTree}
    /\ bundle # NoSnapshot /\ bundle.returned =>
        /\ bundle.base = BaseTree
        /\ \E edit \in [WritePaths -> {f.content : f \in bundle.candidate} \ {"binary"}] :
            /\ \A f \in BaseTree : f.path \in WritePaths => edit[f.path] # f.content
            /\ bundle.candidate = {IF f.path \in WritePaths THEN [f EXCEPT !.content = edit[f.path]] ELSE f : f \in BaseTree}
=============================================================================
