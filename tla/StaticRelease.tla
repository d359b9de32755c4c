---------------------------- MODULE StaticRelease ----------------------------
(***************************************************************************)
(* Static releases from the build command to the active pointer.           *)
(*                                                                         *)
(* `static-build` writes the release files into a staging directory, the   *)
(* manifest last, and replaces the output directory as a whole             *)
(* (StagedDir::commit_replace_dir).  `static-activate` verifies a release  *)
(* directory, installs it (renamed or copied into the managed store, or    *)
(* uploaded object by object to S3 with the manifest last) and swaps the   *)
(* pointer static/_head.  Commands are processes of their own and nothing  *)
(* keeps them apart: they interleave, fail at any system call and die      *)
(* between any two.  `crossed` records the releases in which two commands  *)
(* met; no action depends on it.                                           *)
(*                                                                         *)
(* A release id stands for the digest it is: two builds of one corpus in   *)
(* one format have the same id and the same files.  Bytes are the file     *)
(* name with the part of the input the file depends on.                    *)
(***************************************************************************)
EXTENDS Naturals, Sequences, Functions

CONSTANTS
  Corpora,          \* the contents a dataset may be pinned at
  Sources,          \* dataset path and table version the corpus was read from
  Versions,         \* turbo versions: 3 and 4
  Builders, Activators,
  Installs,         \* ways to install: "move", "copy" (another device), "s3"
  MaxCommands,      \* bound on the commands started
  NoId, NoSource

Ids == [corpus : Corpora, version : Versions]

ASSUME InstallsAssumption ==
  /\ Installs \subseteq {"move", "copy", "s3"}
  /\ MaxCommands \in Nat
  /\ NoId \notin Ids

VARIABLES
  fs,        \* the file system: directory contents by path, existing paths only
  remote,    \* S3 objects under static/releases/: bytes by <<id, name>>
  manifests, \* S3 release_manifest.json objects: manifest by id
  head,      \* the pointer static/_head; stamp stands for its ETag
  bld, act,  \* the running build and activation commands
  install,   \* how this deployment installs
  commands,  \* commands started so far
  crossed    \* history: ids of the releases in which commands met

vars == <<fs, remote, manifests, head, bld, act, install, commands, crossed>>

(* One asset of the codec, the records and one blob stand for the file set. *)
Asset(v) == IF v = 3 THEN "centroids.bin" ELSE "codebook.bin"
release_output_files(v) == <<Asset(v), "turbo_static.bin", "turbo_static_text.bin">>

(* What the bytes of a file depend on: an asset on the format, the records on
   the corpus and the format, the blobs on the corpus; the dataset path and
   version (`source`) go into the manifest only. *)
DependsOn(name, id) ==
  CASE name = "turbo_static.bin"      -> <<id.corpus, id.version>>
    [] name = "turbo_static_text.bin" -> <<id.corpus, id.corpus>>
    [] OTHER                          -> <<id.version, id.version>>

\* Mutant of Bytes: the text blob carries the dataset path.
BytesWithSource(name, id, source) ==
  [name |-> name, of |-> IF name = "turbo_static_text.bin" THEN <<id.corpus, source>>
                         ELSE DependsOn(name, id)]
Bytes(name, id, source) == [name |-> name, of |-> DependsOn(name, id)]

Outputs(id, source) ==
  [n \in Range(release_output_files(id.version)) |-> Bytes(n, id, source)]

NoManifest == [id |-> NoId, source |-> NoSource]
EmptyDir == [files |-> <<>>, manifest |-> NoManifest]
RELEASE_MANIFEST_FILE == "release_manifest.json"
(* The entries of a directory, and what is left of it when only some stay. *)
Entries(dir) ==
  DOMAIN dir.files \cup IF dir.manifest = NoManifest THEN {} ELSE {RELEASE_MANIFEST_FILE}
Part(dir, names) ==
  [files |-> Restrict(dir.files, DOMAIN dir.files \cap names),
   manifest |-> IF RELEASE_MANIFEST_FILE \in names THEN dir.manifest ELSE NoManifest]

(* The output directory, the hidden siblings of the commands, the store. *)
OutPath == <<"out", NoId>>
StagePath(b) == <<"staging", b>>
BackupPath(b) == <<"backup", b>>
ManagedPath(id) == <<"managed", id>>
IncomingPath(id) == <<"incoming", id>>

Exists(path) == path \in DOMAIN fs
Without(paths) == Restrict(fs, DOMAIN fs \ paths)
(* The function f with y at x. *)
Put(f, x, y) == [z \in DOMAIN f \cup {x} |-> IF z = x THEN y ELSE f[z]]
Moved(from, to) == Put(Without({from}), to, fs[from])
(* rename(2) of a directory: the target is absent or an empty directory. *)
Renames(from, to) == Exists(from) /\ (Exists(to) => fs[to] = EmptyDir)

IdleBuild == [pc |-> "idle", id |-> NoId, source |-> NoSource, had |-> FALSE]
IdleActivation ==
  [pc |-> "idle", arg |-> OutPath, man |-> NoManifest, todo |-> <<>>, left |-> {},
   local |-> NoManifest, seen |-> 0, outcome |-> "none"]

Init ==
  /\ fs = <<>> /\ remote = <<>> /\ manifests = <<>>
  /\ head = [id |-> NoId, stamp |-> 0]
  /\ bld = [b \in Builders |-> IdleBuild]
  /\ act = [a \in Activators |-> IdleActivation]
  /\ install \in Installs
  /\ commands = 0
  /\ crossed = {}

-----------------------------------------------------------------------------
(* static-build *)

StartBuild(b) ==
  /\ bld[b].pc = "idle" /\ commands < MaxCommands
  /\ \E id \in Ids, source \in Sources :
       bld' = [bld EXCEPT ![b] = [pc |-> "stage", id |-> id, source |-> source, had |-> FALSE]]
  /\ commands' = commands + 1
  /\ UNCHANGED <<fs, remote, manifests, head, act, install>>

\* Mutant of StageRelease: the manifest is left for after the renames.
StageOutputsOnly(b) ==
  /\ bld[b].pc = "stage"
  /\ fs' = Put(fs, StagePath(b), [EmptyDir EXCEPT !.files = Outputs(bld[b].id, bld[b].source)])
  /\ bld' = [bld EXCEPT ![b].pc = "aside"]
  /\ UNCHANGED <<remote, manifests, head, act, install, commands>>

(* build_release up to the manifest: the staging directory gets the outputs,
   their hashes go into the manifest, the manifest is written last.  A failed
   write removes the staging directory. *)
StageRelease(b) ==
  /\ bld[b].pc = "stage"
  /\ fs' = Put(fs, StagePath(b), [files |-> Outputs(bld[b].id, bld[b].source),
                                  manifest |-> [id |-> bld[b].id, source |-> bld[b].source]])
  /\ bld' = [bld EXCEPT ![b].pc = "aside"]
  /\ UNCHANGED <<remote, manifests, head, act, install, commands>>

BuildEnds(b) == bld' = [bld EXCEPT ![b] = IdleBuild]

(* commit_replace_dir, first rename: the previous directory is kept as a
   backup; when that fails the staging directory goes. *)
MoveAside(b) ==
  /\ bld[b].pc = "aside"
  /\ \/ /\ Exists(OutPath)
        /\ fs' = Moved(OutPath, BackupPath(b))
        /\ bld' = [bld EXCEPT ![b].pc = "in", ![b].had = TRUE]
     \/ /\ ~Exists(OutPath)
        /\ bld' = [bld EXCEPT ![b].pc = "in", ![b].had = FALSE]
        /\ UNCHANGED fs
     \/ /\ Exists(OutPath)
        /\ fs' = Without({StagePath(b)})
        /\ BuildEnds(b)
  /\ UNCHANGED <<remote, manifests, head, act, install, commands>>

\* Mutant of MoveIn: a failed rename drops the backup instead of restoring it.
MoveInDropsBackup(b) ==
  /\ bld[b].pc = "in"
  /\ \/ /\ Renames(StagePath(b), OutPath)
        /\ fs' = Moved(StagePath(b), OutPath)
        /\ bld' = [bld EXCEPT ![b].pc = IF bld[b].had THEN "drop" ELSE "idle"]
     \/ /\ fs' = Without({StagePath(b), BackupPath(b)})
        /\ BuildEnds(b)
  /\ UNCHANGED <<remote, manifests, head, act, install, commands>>

(* Second rename.  It fails when another build has put its release there, or
   for a reason of its own; the backup is then renamed back, and when that
   fails too it stays where it is. *)
MoveIn(b) ==
  /\ bld[b].pc = "in"
  /\ \/ /\ Renames(StagePath(b), OutPath)
        /\ fs' = Moved(StagePath(b), OutPath)
        /\ bld' = [bld EXCEPT ![b].pc = IF bld[b].had THEN "drop" ELSE "idle"]
     \/ /\ \/ fs' = Without({StagePath(b)})
           \/ /\ bld[b].had /\ ~Exists(OutPath)
              /\ fs' = Put(Without({StagePath(b), BackupPath(b)}), OutPath, fs[BackupPath(b)])
        /\ BuildEnds(b)
  /\ UNCHANGED <<remote, manifests, head, act, install, commands>>

DropBackup(b) ==
  /\ bld[b].pc = "drop"
  /\ fs' = Without({BackupPath(b)})
  /\ BuildEnds(b)
  /\ UNCHANGED <<remote, manifests, head, act, install, commands>>

(* The process dies: whatever it left on disk stays there.  Names of staging
   and backup directories carry the process id and a clock reading, so a later
   command never meets them; the next build of b stands for a new process. *)
BuildDies(b) ==
  /\ bld[b].pc # "idle"
  /\ BuildEnds(b)
  /\ UNCHANGED <<fs, remote, manifests, head, act, install, commands>>

-----------------------------------------------------------------------------
(* static-activate *)

(* Verification: the manifest is there, names exactly the files of its version
   and every file on disk has the recorded bytes; the id is derived again. *)
VerifiedDir(dir) ==
  /\ dir.manifest # NoManifest
  /\ dir.files = Outputs(dir.manifest.id, dir.manifest.source)

(* A command ends, whatever it reports; two reports are told apart from the rest. *)
Reported(a, outcome) == act' = [act EXCEPT ![a] = [IdleActivation EXCEPT !.outcome = outcome]]
Finish(a) == Reported(a, "none")
Step(a, pc) == act' = [act EXCEPT ![a].pc = pc]

(* A directory that is there is given; a lost swap is retried on the managed
   copy, for the original is gone by then. *)
StartActivation(a) ==
  /\ act[a].pc = "idle" /\ commands < MaxCommands
  /\ \E path \in {OutPath} \cup {ManagedPath(id) : id \in Ids} :
       /\ Exists(path)
       /\ act' = [act EXCEPT ![a] = [IdleActivation EXCEPT !.pc = "verify", !.arg = path]]
  /\ commands' = commands + 1
  /\ UNCHANGED <<fs, remote, manifests, head, bld, install>>

(* verify_release_dir; the expected model and dimension may refuse a release
   that is otherwise whole. *)
VerifyRelease(a) ==
  /\ act[a].pc = "verify"
  /\ \/ /\ Exists(act[a].arg) /\ VerifiedDir(fs[act[a].arg])
        /\ LET man == fs[act[a].arg].manifest IN
           act' = [act EXCEPT ![a].pc = IF install = "s3" THEN "upload" ELSE "check",
                              ![a].man = man,
                              ![a].todo = release_output_files(man.id.version)]
     \/ Finish(a)
  /\ UNCHANGED <<fs, remote, manifests, head, bld, install, commands>>

Target(a) == ManagedPath(act[a].man.id)
Incoming(a) == IncomingPath(act[a].man.id)

(* install_into_managed_store: an installed release is left alone. *)
CheckInstalled(a) ==
  /\ act[a].pc = "check"
  /\ Step(a, IF Exists(Target(a)) THEN "read" ELSE "rename")
  /\ UNCHANGED <<fs, remote, manifests, head, bld, install, commands>>

(* The fast path moves the directory; any failure falls back to the copy. *)
RenameIntoStore(a) ==
  /\ act[a].pc = "rename"
  /\ \/ /\ install = "move" /\ Renames(act[a].arg, Target(a))
        /\ fs' = Moved(act[a].arg, Target(a))
        /\ Step(a, "read")
     \/ /\ install = "copy" \/ ~Renames(act[a].arg, Target(a))
        /\ Step(a, "clear")
        /\ UNCHANGED fs
  /\ UNCHANGED <<remote, manifests, head, bld, install, commands>>

(* The fallback's staging directory has one name per release, and no lock: what
   is in it is removed first.  A removal that fails has removed a part. *)
ClearIncoming(a) ==
  /\ act[a].pc = "clear"
  /\ \/ /\ fs' = Without({Incoming(a)})
        /\ Step(a, "create")
     \/ /\ Exists(Incoming(a))
        /\ \E names \in SUBSET Entries(fs[Incoming(a)]) :
             fs' = [fs EXCEPT ![Incoming(a)] = Part(@, names)]
        /\ Finish(a)
  /\ UNCHANGED <<remote, manifests, head, bld, install, commands>>

Copying(left) == IF left = {} THEN "place" ELSE "copy"

\* Mutant of CreateIncoming: only the files the manifest lists are copied.
CopyListedOnly(a) ==
  /\ act[a].pc = "create" /\ Exists(act[a].arg)
  /\ fs' = IF Exists(Incoming(a)) THEN fs ELSE Put(fs, Incoming(a), EmptyDir)
  /\ act' = [act EXCEPT ![a].pc = "copy", ![a].left = DOMAIN fs[act[a].arg].files]
  /\ UNCHANGED <<remote, manifests, head, bld, install, commands>>

(* copy_dir_recursive: create_dir_all takes a directory that is there as it is,
   read_dir lists what the source holds now. *)
CreateIncoming(a) ==
  /\ act[a].pc = "create"
  /\ fs' = IF Exists(Incoming(a)) THEN fs ELSE Put(fs, Incoming(a), EmptyDir)
  /\ IF Exists(act[a].arg)
     THEN LET left == Entries(fs[act[a].arg]) IN
          act' = [act EXCEPT ![a].pc = Copying(left), ![a].left = left]
     ELSE Finish(a)
  /\ UNCHANGED <<remote, manifests, head, bld, install, commands>>

(* read_dir yields the entries in an order of its own; one order stands for all. *)
NextEntry(left) == CHOOSE name \in left : TRUE

(* One entry at a time, the manifest among the others, each read and written by
   path; copying a file is one step. *)
CopyFile(a) ==
  /\ act[a].pc = "copy"
  /\ LET name == NextEntry(act[a].left) left == act[a].left \ {name} IN
     \/ /\ Exists(Incoming(a)) /\ Exists(act[a].arg) /\ name \in Entries(fs[act[a].arg])
        /\ LET src == fs[act[a].arg] dst == fs[Incoming(a)] IN
           fs' = [fs EXCEPT ![Incoming(a)] =
                    IF name = RELEASE_MANIFEST_FILE
                    THEN [files |-> dst.files, manifest |-> src.manifest]
                    ELSE [files |-> Put(dst.files, name, src.files[name]),
                          manifest |-> dst.manifest]]
        /\ act' = [act EXCEPT ![a].left = left, ![a].pc = Copying(left)]
     \/ /\ Finish(a)
        /\ UNCHANGED fs
  /\ UNCHANGED <<remote, manifests, head, bld, install, commands>>

PlaceCopy(a) ==
  /\ act[a].pc = "place"
  /\ IF Renames(Incoming(a), Target(a))
     THEN fs' = Moved(Incoming(a), Target(a)) /\ Step(a, "read")
     ELSE UNCHANGED fs /\ Finish(a)
  /\ UNCHANGED <<remote, manifests, head, bld, install, commands>>

\* Mutant of UploadFile: a conflict is a file already uploaded, no file is needed twice.
UploadStopsAtConflict(a) ==
  /\ act[a].pc = "upload" /\ act[a].todo # <<>> /\ Exists(act[a].arg)
  /\ LET name == Head(act[a].todo) key == <<act[a].man.id, name>> files == fs[act[a].arg].files IN
     /\ name \in DOMAIN files
     /\ IF key \in DOMAIN remote
        THEN act' = [act EXCEPT ![a].todo = <<>>] /\ UNCHANGED remote
        ELSE /\ remote' = Put(remote, key, files[name])
             /\ act' = [act EXCEPT ![a].todo = Tail(@)]
  /\ UNCHANGED <<fs, manifests, head, bld, install, commands>>

(* upload_release: the files one by one, each read by path, CreateOnly; one that
   is there is read back and must be the file the verified manifest describes. *)
UploadFile(a) ==
  /\ act[a].pc = "upload" /\ act[a].todo # <<>>
  /\ LET name == Head(act[a].todo) key == <<act[a].man.id, name>> IN
     \/ /\ Exists(act[a].arg) /\ name \in DOMAIN fs[act[a].arg].files
        /\ \/ /\ key \notin DOMAIN remote
              /\ remote' = Put(remote, key, fs[act[a].arg].files[name])
              /\ act' = [act EXCEPT ![a].todo = Tail(@)]
           \/ /\ key \in DOMAIN remote
              /\ IF remote[key] = Bytes(name, act[a].man.id, act[a].man.source)
                 THEN act' = [act EXCEPT ![a].todo = Tail(@)]
                 ELSE Reported(a, "corrupt file")
              /\ UNCHANGED remote
     \/ /\ Finish(a)
        /\ UNCHANGED remote
  /\ UNCHANGED <<fs, manifests, head, bld, install, commands>>

HasManifest(path) == Exists(path) /\ fs[path].manifest # NoManifest

(* The manifest goes last.  It is read once to compare with and once more, by
   path, to upload. *)
ReadLocalManifest(a) ==
  /\ act[a].pc = "upload" /\ act[a].todo = <<>>
  /\ IF HasManifest(act[a].arg)
     THEN act' = [act EXCEPT ![a].pc = "seal", ![a].local = fs[act[a].arg].manifest]
     ELSE Finish(a)
  /\ UNCHANGED <<fs, remote, manifests, head, bld, install, commands>>

(* A manifest that is there must be the same, byte for byte. *)
UploadManifest(a) ==
  /\ act[a].pc = "seal"
  /\ LET id == act[a].man.id IN
     \/ /\ HasManifest(act[a].arg) /\ id \notin DOMAIN manifests
        /\ manifests' = Put(manifests, id, fs[act[a].arg].manifest)
        /\ Step(a, "read")
     \/ /\ HasManifest(act[a].arg) /\ id \in DOMAIN manifests
        /\ IF manifests[id] = act[a].local THEN Step(a, "read") ELSE Reported(a, "different manifest")
        /\ UNCHANGED manifests
     \/ /\ ~HasManifest(act[a].arg)
        /\ Finish(a)
        /\ UNCHANGED manifests
  /\ UNCHANGED <<fs, remote, head, bld, install, commands>>

(* activate_static_pointer: read the pointer, then compare and swap. *)
ReadPointer(a) ==
  /\ act[a].pc = "read"
  /\ act' = [act EXCEPT ![a].pc = "swap", ![a].seen = head.stamp]
  /\ UNCHANGED <<fs, remote, manifests, head, bld, install, commands>>

SwapPointer(a) ==
  /\ act[a].pc = "swap"
  /\ IF head.stamp = act[a].seen
     THEN /\ head' = [id |-> act[a].man.id, stamp |-> head.stamp + 1]
          /\ Finish(a)
     ELSE /\ Finish(a)
          /\ UNCHANGED head
  /\ UNCHANGED <<fs, remote, manifests, bld, install, commands>>

ActivationDies(a) ==
  /\ act[a].pc # "idle"
  /\ Finish(a)
  /\ UNCHANGED <<fs, remote, manifests, head, bld, install, commands>>

Build(b) ==
  \/ StartBuild(b) \/ StageRelease(b) \/ MoveAside(b) \/ MoveIn(b) \/ DropBackup(b)
  \/ BuildDies(b)

InstallLocally(a) ==
  \/ CheckInstalled(a) \/ RenameIntoStore(a)
  \/ ClearIncoming(a) \/ CreateIncoming(a) \/ CopyFile(a) \/ PlaceCopy(a)

Activate(a) ==
  \/ StartActivation(a) \/ VerifyRelease(a) \/ InstallLocally(a)
  \/ UploadFile(a) \/ ReadLocalManifest(a) \/ UploadManifest(a)
  \/ ReadPointer(a) \/ SwapPointer(a)
  \/ ActivationDies(a)

WholeRelease(dir, id) == dir.manifest.id = id /\ VerifiedDir(dir)

(* Commands meet in a release while one reads, by path, a directory that is no
   longer the one it verified, and while two are in the copying fallback of the
   same release, whose staging directory they share. *)
Reading == {"rename", "create", "copy", "upload", "seal"}
FallingBack == {"clear", "create", "copy", "place"}
Crossing ==
  {id \in Ids : \E a \in Activators :
     /\ act[a].man.id = id
     /\ \/ /\ act[a].pc \in Reading
           /\ Exists(act[a].arg) /\ ~WholeRelease(fs[act[a].arg], id)
        \/ /\ act[a].pc \in FallingBack
           /\ \E c \in Activators \ {a} : act[c].man.id = id /\ act[c].pc \in FallingBack}

Next ==
  /\ (\E b \in Builders : Build(b)) \/ (\E a \in Activators : Activate(a))
  /\ crossed' = crossed \cup Crossing'

Spec == Init /\ [][Next]_vars

-----------------------------------------------------------------------------
(* Properties *)

(* Every variable stays in its range: paths are the ones the commands build, what
   a build handles has its manifest, S3 keys are files of a release, a pointer
   names a release. *)
TypeOK ==
  /\ \A path \in DOMAIN fs :
       /\ path \in {OutPath} \cup {StagePath(b) : b \in Builders} \cup {BackupPath(b) : b \in Builders}
                   \cup {ManagedPath(i) : i \in Ids} \cup {IncomingPath(i) : i \in Ids}
       /\ \/ fs[path].manifest \in [id : Ids, source : Sources]
          \/ path[1] \in {"incoming", "managed"} /\ fs[path].manifest = NoManifest
  /\ \A key \in DOMAIN remote : key[1] \in Ids /\ key[2] \in Range(release_output_files(key[1].version))
  /\ DOMAIN manifests \subseteq Ids
  /\ head.id \in Ids \cup {NoId} /\ head.stamp \in Nat
  /\ \A a \in Activators :
       /\ act[a].pc \in {"idle", "verify", "check", "rename", "clear", "create", "copy", "place",
                         "upload", "seal", "read", "swap"}
       /\ act[a].outcome \in {"none", "corrupt file", "different manifest"}
  /\ \A b \in Builders : bld[b].pc \in {"idle", "stage", "aside", "in", "drop"}
  /\ install \in Installs /\ commands \in 0 .. MaxCommands /\ crossed \subseteq Ids

(* The output directory holds a whole release or is not there: builds that
   fail, die or overlap never expose a part of one. *)
OutputWhole ==
  Exists(OutPath) => \E id \in Ids : WholeRelease(fs[OutPath], id)

(* A rebuild does not lose the release it replaces: once one was built, a whole
   release stays in the output directory, in a backup beside it, or in the
   store it was moved to, whatever fails, dies or overlaps in between. *)
ReleaseAround ==
  \E path \in DOMAIN fs :
     path[1] \in {"out", "backup", "managed"} /\ \E id \in Ids : WholeRelease(fs[path], id)
ReleaseKept == [][ReleaseAround => ReleaseAround']_vars

(* What S3 holds of a release is whole and is what its manifest was built from. *)
Uploaded(id) ==
  /\ id \in DOMAIN manifests /\ manifests[id].id = id
  /\ \A name \in Range(release_output_files(id.version)) :
       /\ <<id, name>> \in DOMAIN remote
       /\ remote[<<id, name>>] = Bytes(name, id, manifests[id].source)

(* What a release that no commands met in is installed as: the target directory,
   once there, holds every file of the release it is named after, and a
   manifest object on S3 proves the whole release landed, whatever copies,
   removals and uploads failed or died before. *)
InstalledWhole ==
  /\ \A id \in Ids \ crossed :
       Exists(ManagedPath(id)) => WholeRelease(fs[ManagedPath(id)], id)
  /\ \A id \in DOMAIN manifests \ crossed : Uploaded(id)

(* The pointer names a release that is whole where the query side reads it, or
   one that commands met in. *)
PointerServable ==
  head.id \notin crossed \cup {NoId} =>
    IF install = "s3"
    THEN Uploaded(head.id)
    ELSE Exists(ManagedPath(head.id)) /\ WholeRelease(fs[ManagedPath(head.id)], head.id)

(* An upload that died is resumed by any later one, from this build of the
   corpus or another: what it left is never taken for a corrupt file, unless
   commands met in the release. *)
UploadsResume ==
  [][\A a \in Activators :
        act[a].pc # "idle" /\ act'[a].outcome = "corrupt file" => act[a].man.id \in crossed]_vars

(* "so the target only ever appears fully-formed": what is in the managed store
   is a whole release. *)
TargetFullyFormed ==
  \A id \in Ids : Exists(ManagedPath(id)) => VerifiedDir(fs[ManagedPath(id)])

(* "content-addressed ids make this impossible": an activation never meets a
   manifest that differs from its own under the same release id. *)
OneManifestPerId == \A a \in Activators : act[a].outcome # "different manifest"
=============================================================================
