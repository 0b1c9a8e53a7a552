------------------------------ MODULE ArtifactPack -----------------------------
(***************************************************************************)
(* Packing the artifact trees and recording the release index: pack and    *)
(* record in src/tools/artifacts.py, as `make artifacts-pack` and          *)
(* `make artifacts-record` run them, one at a time.  An archive is created *)
(* exclusively, the index and the checksums are written over what is       *)
(* there; nothing is cleaned up when a command fails or is killed, and the *)
(* operator starts it again, or empties the output directory first.        *)
(* Experiments may write to the trees meanwhile.                           *)
(*                                                                         *)
(* A tree is its version, which stands for its SHA-256; an archive is      *)
(* deterministic, so the version packed stands for its SHA-256.  A change  *)
(* of a tree falls between two readings of it.  The 2 GiB limits and the   *)
(* selection of catalog entries are left out.                              *)
(***************************************************************************)
EXTENDS Integers

CONSTANTS
  SlugCount,         \* catalog entries, packed in order
  MaxVersion,        \* bound: versions of a tree
  MaxCommands,       \* bound: commands that are run
  EditsWhilePacking  \* may a tree change while a command runs?

Slugs == 1 .. SlugCount
Versions == 1 .. MaxVersion

(* The content of an archive: absent, cut short, or a version. *)
Absent == 0
Partial == -1

VARIABLES
  pc,        \* the next step of the command that runs, or "idle"
  slug,      \* the catalog entry pack is at
  entries,   \* the index entries in memory
  trees,     \* the version of each tree
  archives,  \* the archives in the output directory, by slug and tree hash
  index,     \* the index file there
  sums,      \* the checksum file there
  recorded,  \* the index file in the repository
  commands

output == <<archives, index, sums>>
vars == <<pc, slug, entries, trees, output, recorded, commands>>

Entries == [Slugs -> [tree : 0 .. MaxVersion, archive : -1 .. MaxVersion]]
NoEntries == [s \in Slugs |-> [tree |-> 0, archive |-> Absent]]

(* A JSON or checksum file: a torn one cannot be read. *)
Files == [state : {"none", "torn", "whole"}, holds : Entries]
NoFile == [state |-> "none", holds |-> NoEntries]
Torn == [state |-> "torn", holds |-> NoEntries]
Whole(content) == [state |-> "whole", holds |-> content]

Steps == {"idle", "identity", "create", "write", "hash", "index", "dump", "sums", "sum",
          "load", "assets", "exists", "open", "record"}

TypeOK ==
  /\ pc \in Steps
  /\ slug \in 1 .. SlugCount + 1
  /\ pc \in {"identity", "create", "write", "hash"} => slug \in Slugs
  /\ entries \in Entries
  /\ trees \in [Slugs -> Versions]
  /\ archives \in [Slugs -> [Versions -> -1 .. MaxVersion]]
  /\ index \in Files /\ sums \in Files /\ recorded \in Files
  /\ commands \in 0 .. MaxCommands

Init ==
  /\ pc = "idle" /\ slug = 1 /\ entries = NoEntries
  /\ trees = [s \in Slugs |-> 1]
  /\ archives = [s \in Slugs |-> [v \in Versions |-> Absent]]
  /\ index = NoFile /\ sums = NoFile /\ recorded = NoFile
  /\ commands = 0

-----------------------------------------------------------------------------
Begins(step) ==
  /\ pc = "idle" /\ commands < MaxCommands
  /\ pc' = step /\ commands' = commands + 1
  /\ slug' = 1 /\ entries' = NoEntries
  /\ UNCHANGED <<trees, output, recorded>>

(* An exception or a signal ends the command where it is. *)
Dies == pc # "idle" /\ pc' = "idle" /\ UNCHANGED <<slug, entries, trees, output, recorded, commands>>

Refuses == pc' = "idle" /\ UNCHANGED <<slug, entries, trees, output, recorded, commands>>

-----------------------------------------------------------------------------
(* pack *)

StartPack == Begins("identity")

(* The archive of the current entry, in the file named for its tree's hash. *)
Archive == archives[slug][entries[slug].tree]
SetArchive(content) == archives' = [archives EXCEPT ![slug][entries[slug].tree] = content]

IdentifyTree ==
  /\ pc = "identity" /\ pc' = "create"
  /\ entries' = [entries EXCEPT ![slug].tree = trees[slug]]
  /\ UNCHANGED <<slug, trees, output, recorded, commands>>

(* Faulty CreateArchive: keeps an archive that is there already. *)
CreateMissingArchive ==
  /\ pc = "create"
  /\ \/ /\ Archive # Absent /\ pc' = "hash"
        /\ UNCHANGED <<slug, entries, trees, output, recorded, commands>>
     \/ /\ Archive = Absent /\ SetArchive(Partial) /\ pc' = "write"
        /\ UNCHANGED <<slug, entries, trees, index, sums, recorded, commands>>

CreateArchive ==
  /\ pc = "create"
  /\ \/ Archive # Absent /\ Refuses
     \/ /\ Archive = Absent /\ SetArchive(Partial) /\ pc' = "write"
        /\ UNCHANGED <<slug, entries, trees, index, sums, recorded, commands>>

(* The tree is read a second time. *)
WriteArchive ==
  /\ pc = "write" /\ pc' = "hash"
  /\ SetArchive(trees[slug])
  /\ UNCHANGED <<slug, entries, trees, index, sums, recorded, commands>>

HashArchive ==
  /\ pc = "hash"
  /\ entries' = [entries EXCEPT ![slug].archive = Archive]
  /\ slug' = slug + 1
  /\ pc' = IF slug = SlugCount THEN "index" ELSE "identity"
  /\ UNCHANGED <<trees, output, recorded, commands>>

(* write_text empties the file before it fills it. *)
OpenIndex ==
  /\ pc = "index" /\ pc' = "dump" /\ index' = Torn
  /\ UNCHANGED <<slug, entries, trees, archives, sums, recorded, commands>>

DumpIndex ==
  /\ pc = "dump" /\ pc' = "sums" /\ index' = Whole(entries)
  /\ UNCHANGED <<slug, entries, trees, archives, sums, recorded, commands>>

OpenSums ==
  /\ pc = "sums" /\ pc' = "sum" /\ sums' = Torn
  /\ UNCHANGED <<slug, entries, trees, archives, index, recorded, commands>>

WriteSums ==
  /\ pc = "sum" /\ pc' = "idle" /\ sums' = Whole(entries)
  /\ UNCHANGED <<slug, entries, trees, archives, index, recorded, commands>>

-----------------------------------------------------------------------------
(* record *)

StartRecord == Begins("load")

LoadIndex ==
  /\ pc = "load"
  /\ \/ index.state # "whole" /\ Refuses
     \/ /\ index.state = "whole" /\ entries' = index.holds /\ pc' = "assets"
        /\ UNCHANGED <<slug, trees, output, recorded, commands>>

ArchivesMatch(e) == \A s \in Slugs : archives[s][e[s].tree] = e[s].archive

(* Faulty VerifyAssets: compares the archives only. *)
VerifyArchives ==
  /\ pc = "assets"
  /\ \/ ~ArchivesMatch(entries) /\ Refuses
     \/ /\ ArchivesMatch(entries) /\ pc' = "exists"
        /\ UNCHANGED <<slug, entries, trees, output, recorded, commands>>

(* A line of the checksum file: archive hash and name, which has the tree's. *)
SumsMatch(e) == sums = Whole(e)

(* _release_assets *)
VerifyAssets ==
  /\ pc = "assets"
  /\ \/ ~(ArchivesMatch(entries) /\ SumsMatch(entries)) /\ Refuses
     \/ /\ ArchivesMatch(entries) /\ SumsMatch(entries) /\ pc' = "exists"
        /\ UNCHANGED <<slug, entries, trees, output, recorded, commands>>

CheckRecorded ==
  /\ pc = "exists"
  /\ \/ recorded.state # "none" /\ Refuses
     \/ /\ recorded.state = "none" /\ pc' = "open"
        /\ UNCHANGED <<slug, entries, trees, output, recorded, commands>>

OpenRecorded ==
  /\ pc = "open" /\ pc' = "record" /\ recorded' = Torn
  /\ UNCHANGED <<slug, entries, trees, output, commands>>

WriteRecorded ==
  /\ pc = "record" /\ pc' = "idle" /\ recorded' = Whole(entries)
  /\ UNCHANGED <<slug, entries, trees, output, commands>>

-----------------------------------------------------------------------------
(* An experiment changes a tree. *)
Edit(s) ==
  /\ pc = "idle" \/ EditsWhilePacking
  /\ trees[s] < MaxVersion /\ trees' = [trees EXCEPT ![s] = @ + 1]
  /\ UNCHANGED <<pc, slug, entries, output, recorded, commands>>

(* The operator empties the output directory between two commands, ... *)
EmptyOutput ==
  /\ pc = "idle" /\ commands < MaxCommands
  /\ archives' = [s \in Slugs |-> [v \in Versions |-> Absent]]
  /\ index' = NoFile /\ sums' = NoFile
  /\ UNCHANGED <<pc, slug, entries, trees, recorded, commands>>

(* ... or removes a torn index from the repository. *)
RemoveTornRecord ==
  /\ pc = "idle" /\ recorded.state = "torn"
  /\ recorded' = NoFile
  /\ UNCHANGED <<pc, slug, entries, trees, output, commands>>

Next ==
  \/ StartPack \/ IdentifyTree \/ CreateArchive \/ WriteArchive \/ HashArchive
  \/ OpenIndex \/ DumpIndex \/ OpenSums \/ WriteSums
  \/ StartRecord \/ LoadIndex \/ VerifyAssets \/ CheckRecorded \/ OpenRecorded \/ WriteRecorded
  \/ Dies \/ EmptyOutput \/ RemoveTornRecord
  \/ \E s \in Slugs : Edit(s)

Spec == Init /\ [][Next]_vars

-----------------------------------------------------------------------------
(* Properties *)

(* An index enters the repository only when the output directory holds, at  *)
(* that moment, the very archives, the index and the checksums publish will *)
(* ask for: not what an interrupted pack left beside an older one.          *)
RecordsPacked ==
  recorded'.state = "whole" /\ recorded.state # "whole" =>
    /\ ArchivesMatch(recorded'.holds) /\ SumsMatch(recorded'.holds)
    /\ index = recorded'
RecordsWhatIsPacked == [][RecordsPacked]_vars

(* Every archive of a recorded index unpacks to the tree the index names,   *)
(* so fetch can restore it, when trees change between commands only.        *)
RecordedIsRestorable ==
  recorded.state = "whole" =>
    \A s \in Slugs : recorded.holds[s].archive = recorded.holds[s].tree
================================================================================
