---------------------------- MODULE SnapshotBuild ----------------------------
(***************************************************************************)
(* Building snapshots under one output directory (receipts-snapshot/src/    *)
(* assemble.rs).                                                           *)
(*                                                                         *)
(* A build knows the hash of its snapshot before it writes anything.  It   *)
(* writes the four files in .tmp-<hash>, the manifest last, and renames    *)
(* that directory to <hash16>.  A process may die between any two calls or *)
(* halfway through a file, and builds may overlap, also two of the same    *)
(* content: from two fetches of it, or with and without compression.       *)
(*                                                                         *)
(* Directories and files are kept apart from their names, as the system    *)
(* does: a file that is being written stays the same file when its         *)
(* directory is renamed, and is lost when it is unlinked.  The bytes a     *)
(* build writes are the build's name.                                      *)
(***************************************************************************)
EXTENDS Naturals, Sequences, Functions

CONSTANTS
    Builder,
    Hash,
    HashOf,         \* HashOf[b]: the hash of the snapshot that b builds
    None,
    MaxAttempts     \* bound: times each build is run

ASSUME SnapshotBuildAssumption ==
    /\ HashOf \in [Builder -> Hash]
    /\ None \notin Nat
    /\ None \notin [writers : SUBSET Builder, open : SUBSET Builder, whole : BOOLEAN]
    /\ MaxAttempts \in Nat

VARIABLES
    names,       \* paths under the output directory: their directory or None
    dirs,        \* every directory made so far: its files
    pc,          \* what each build does next
    file,        \* the file it is at, and the directory it opened it in
    attempts,    \* runs of each build
    result,      \* of the last run that ended: "ok", "error" or "none"
    overlapped   \* history: hashes that two builds have worked on at once

vars == <<names, dirs, pc, file, attempts, result, overlapped>>

Paths == {"tmp", "final"} \X Hash
Tmp(h) == <<"tmp", h>>
Final(h) == <<"final", h>>

Manifest == "manifest.json"
Written == <<"data.arrow", "cleaning_log.arrow", "rejects.arrow", Manifest>>
Files == Range(Written)

\* A file: who wrote to it since it was last emptied, who holds it open, and
\* whether it is all that its only writer had to write.
File == [writers : SUBSET Builder, open : SUBSET Builder, whole : BOOLEAN]
NoFiles == [f \in Files |-> None]
NoFileOpen == [number |-> 1, dir |-> 0]

Exists(path) == names[path] # None
At(path) == dirs[names[path]]

Init ==
    /\ names = [path \in Paths |-> None]
    /\ dirs = << >>
    /\ pc = [b \in Builder |-> "idle"]
    /\ file = [b \in Builder |-> NoFileOpen]
    /\ attempts = [b \in Builder |-> 0]
    /\ result = [b \in Builder |-> "none"]
    /\ overlapped = {}

----------------------------------------------------------------------------
(* A build.                                                                *)

\* Mutant of WorkPath: no directory for work in progress.
WorkPath_Final(b) == Final(HashOf[b])

\* Where a build writes until it is done.
WorkPath(b) == Tmp(HashOf[b])

Goto(b, next) == pc' = [pc EXCEPT ![b] = next]

\* `?`: the run ends with an error and leaves what it wrote.
Stop(b, outcome) ==
    /\ Goto(b, "idle")
    /\ result' = [result EXCEPT ![b] = outcome]

\* Opens, cleans and hashes the raw directory, which writes nothing.
Begin(b) ==
    /\ pc[b] = "idle" /\ attempts[b] < MaxAttempts
    /\ Goto(b, "check")
    /\ attempts' = [attempts EXCEPT ![b] = @ + 1]
    /\ result' = [result EXCEPT ![b] = "none"]
    /\ overlapped' = overlapped \cup
          {HashOf[c] : c \in {c \in Builder \ {b} : /\ pc[c] # "idle"
                                                    /\ HashOf[c] = HashOf[b]}}
    /\ UNCHANGED <<names, dirs, file>>

\* A snapshot of the same hash is never built again.
CheckFinal(b) ==
    /\ pc[b] = "check"
    /\ IF Exists(Final(HashOf[b])) THEN Stop(b, "error")
       ELSE Goto(b, "clear") /\ UNCHANGED result
    /\ UNCHANGED <<names, dirs, file, attempts, overlapped>>

\* Mutant of CheckTmp: what a crash left behind stops later builds, the way
\* a fetch refuses a directory that is not empty.
CheckTmp_Refuses(b) ==
    /\ pc[b] = "clear"
    /\ IF Exists(WorkPath(b)) THEN Stop(b, "error")
       ELSE Goto(b, "mkdir") /\ UNCHANGED result
    /\ UNCHANGED <<names, dirs, file, attempts, overlapped>>

CheckTmp(b) ==
    /\ pc[b] = "clear"
    /\ Goto(b, IF Exists(WorkPath(b)) THEN "open" ELSE "mkdir")
    /\ UNCHANGED <<names, dirs, file, attempts, result, overlapped>>

\* remove_dir_all opens the directory, unlinks what is in the one it opened,
\* and removes the one of that name, if it is empty.
OpenDir(b) ==
    /\ pc[b] = "open"
    /\ IF Exists(WorkPath(b))
       THEN /\ file' = [file EXCEPT ![b].dir = names[WorkPath(b)]]
            /\ Goto(b, "unlink")
            /\ UNCHANGED result
       ELSE Stop(b, "error") /\ UNCHANGED file
    /\ UNCHANGED <<names, dirs, attempts, overlapped>>

Unlink(b) ==
    /\ pc[b] = "unlink"
    /\ dirs' = [dirs EXCEPT ![file[b].dir] = NoFiles]
    /\ Goto(b, "rmdir")
    /\ UNCHANGED <<names, file, attempts, result, overlapped>>

RemoveDir(b) ==
    /\ pc[b] = "rmdir"
    /\ IF Exists(WorkPath(b)) /\ At(WorkPath(b)) = NoFiles
       THEN /\ names' = [names EXCEPT ![WorkPath(b)] = None]
            /\ Goto(b, "mkdir")
            /\ UNCHANGED result
       ELSE Stop(b, "error") /\ UNCHANGED names
    /\ UNCHANGED <<dirs, file, attempts, overlapped>>

\* create_dir_all is content with a directory that is there already.
CreateDir(b) ==
    /\ pc[b] = "mkdir"
    /\ IF Exists(WorkPath(b)) THEN UNCHANGED <<names, dirs>>
       ELSE /\ dirs' = Append(dirs, NoFiles)
            /\ names' = [names EXCEPT ![WorkPath(b)] = Len(dirs')]
    /\ Goto(b, "create")
    /\ file' = [file EXCEPT ![b] = NoFileOpen]
    /\ UNCHANGED <<attempts, result, overlapped>>

\* File::create empties the file of that name, or makes it.
CreateFile(b) ==
    LET dir == names[WorkPath(b)]
        name == Written[file[b].number]
        holders == IF dirs[dir][name] = None THEN {} ELSE dirs[dir][name].open
    IN /\ pc[b] = "create"
       /\ IF Exists(WorkPath(b))
          THEN /\ dirs' = [dirs EXCEPT ![dir][name] =
                              [writers |-> {b}, open |-> holders \cup {b},
                               whole |-> FALSE]]
               /\ file' = [file EXCEPT ![b].dir = dir]
               /\ Goto(b, "write")
               /\ UNCHANGED result
          ELSE Stop(b, "error") /\ UNCHANGED <<dirs, file>>
       /\ UNCHANGED <<names, attempts, overlapped>>

\* The bytes go to the file that was opened, whatever its directory is called
\* now; nowhere, if it was unlinked.
WriteFile(b) ==
    LET dir == file[b].dir
        name == Written[file[b].number]
        written == dirs[dir][name]
    IN /\ pc[b] = "write"
       /\ IF written # None /\ b \in written.open
          THEN dirs' = [dirs EXCEPT ![dir][name] =
                           [writers |-> written.writers \cup {b},
                            open |-> written.open \ {b},
                            whole |-> written.writers \subseteq {b}]]
          ELSE UNCHANGED dirs
       /\ IF name = Manifest THEN Goto(b, "rename") /\ UNCHANGED file
          ELSE /\ file' = [file EXCEPT ![b].number = @ + 1]
               /\ Goto(b, IF Written[file[b].number + 1] = Manifest
                          THEN "sizes" ELSE "create")
       /\ UNCHANGED <<names, attempts, result, overlapped>>

\* fs::metadata of the three Arrow files, for the manifest.
ReadSizes(b) ==
    /\ pc[b] = "sizes"
    /\ IF /\ Exists(WorkPath(b))
          /\ \A f \in Files \ {Manifest} : At(WorkPath(b))[f] # None
       THEN Goto(b, "create") /\ UNCHANGED result
       ELSE Stop(b, "error")
    /\ UNCHANGED <<names, dirs, file, attempts, overlapped>>

\* Mutant of Rename: makes room for the directory first.
Rename_Replaces(b) ==
    /\ pc[b] = "rename"
    /\ IF Exists(WorkPath(b))
       THEN /\ names' = [names EXCEPT ![WorkPath(b)] = None,
                                      ![Final(HashOf[b])] = names[WorkPath(b)]]
            /\ Stop(b, "ok")
       ELSE Stop(b, "error") /\ UNCHANGED names
    /\ UNCHANGED <<dirs, file, attempts, overlapped>>

\* rename fails onto a directory that holds anything.
Rename(b) ==
    LET final == Final(HashOf[b])
    IN /\ pc[b] = "rename"
       /\ IF Exists(WorkPath(b)) /\ (Exists(final) => At(final) = NoFiles)
          THEN /\ names' = [names EXCEPT ![WorkPath(b)] = None,
                                         ![final] = names[WorkPath(b)]]
               /\ Stop(b, "ok")
          ELSE Stop(b, "error") /\ UNCHANGED names
       /\ UNCHANGED <<dirs, file, attempts, overlapped>>

\* The process dies, or one of its writes fails: nothing is cleaned up.
Crash(b) ==
    /\ pc[b] # "idle"
    /\ Goto(b, "idle")
    /\ dirs' = [d \in DOMAIN dirs |-> [f \in Files |->
                   IF dirs[d][f] = None THEN None
                   ELSE [dirs[d][f] EXCEPT !.open = @ \ {b}]]]
    /\ file' = [file EXCEPT ![b] = NoFileOpen]
    /\ UNCHANGED <<names, attempts, result, overlapped>>

Step(b) ==
    \/ Begin(b) \/ CheckFinal(b) \/ CheckTmp(b) \/ OpenDir(b)
    \/ Unlink(b) \/ RemoveDir(b) \/ CreateDir(b) \/ CreateFile(b) \/ WriteFile(b)
    \/ ReadSizes(b) \/ Rename(b) \/ Crash(b)

Next == \E b \in Builder : Step(b)

Spec == Init /\ [][Next]_vars

----------------------------------------------------------------------------
(* Properties.                                                             *)

\* verify: all four files are there and decode, and belong to one build.
Verifies(path) ==
    \E b \in Builder : \A f \in Files :
        /\ At(path)[f] # None
        /\ At(path)[f].whole /\ At(path)[f].writers = {b}

\* Whatever crashes there were, and whatever builds of other content run at
\* the same time, a directory that has its final name is whole.
PublishedVerifies ==
    \A h \in Hash \ overlapped : Exists(Final(h)) => Verifies(Final(h))

\* No crash stands in the way of a later build: one that ends, with an error
\* or without, leaves the snapshot published.
EndsPublished ==
    \A b \in Builder :
        HashOf[b] \notin overlapped /\ result[b] # "none"
            => Exists(Final(HashOf[b])) /\ Verifies(Final(HashOf[b]))

\* Even builds of the same content at the same time never put one directory
\* in the place of another that holds files.
KeepsItsPlace ==
    [][\A h \in Hash : Exists(Final(h)) /\ At(Final(h)) # NoFiles
          => names'[Final(h)] = names[Final(h)]]_vars

\* "A snapshot is an immutable, content-addressed copy" (docs/snapshot/
\* schema.md:6): once it verifies, what its files hold never changes.
Immutable ==
    [][\A h \in Hash : Exists(Final(h)) /\ Verifies(Final(h))
          => \A f \in Files : At(Final(h))'[f] # None /\
                At(Final(h))'[f].writers = At(Final(h))[f].writers]_vars
=============================================================================
