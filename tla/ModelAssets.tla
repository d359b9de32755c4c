----------------------------- MODULE ModelAssets -----------------------------
(***************************************************************************)
(* Cold start of an embedding process (embedding/model_assets.rs,          *)
(* embedding/provider.rs, embedding/ltembed.rs, bootstrap.rs): what the    *)
(* environment asks for, the model bundle copied from S3 into a directory  *)
(* that outlives the process, the engine opened on it.                     *)
(*                                                                         *)
(* Files of two revisions of the bundle have equal sizes: the quick look   *)
(* at a warm directory compares sizes and cannot tell them apart.          *)
(***************************************************************************)
EXTENDS Naturals, Sequences, Functions

CONSTANTS
  AssetFiles,   \* the manifest's files, in its order
  MaxRevision,  \* bound: revisions of the bundle uploaded to the S3 prefix
  MaxStarts     \* bound: starts of the process

Manifest == "manifest.json"

ASSUME AssetConstants ==
  /\ AssetFiles \in Seq(STRING) /\ Manifest \notin Range(AssetFiles)
  /\ MaxRevision \in Nat \ {0} /\ MaxStarts \in Nat

VARIABLES
  env,     \* the environment variables of the deployment
  bucket,  \* S3: revision of each object under the prefix, the manifest included
  disk,    \* bundle directory: revision of each file, Absent, or Cut (written in part)
  proc,    \* the process: pc, the manifest it works from, the files still to fetch
  starts   \* starts so far

assetVars == <<env, bucket, disk, proc, starts>>

Objects == Range(AssetFiles) \cup {Manifest}
Revisions == 1 .. MaxRevision
Absent == 0
Cut == MaxRevision + 1

(* Provider, the pair of S3 variables, the bundle directory variable. *)
Env == [provider : {"unset", "fixed", "ltembed", "other"}, bucket : BOOLEAN, prefix : BOOLEAN,
        bundleDir : BOOLEAN]

Stopped == [pc |-> "stopped", man |-> Absent, todo |-> <<>>]

(* An image may carry a bundle of its own, with no manifest or with one. *)
AssetInit ==
  /\ env \in Env
  /\ bucket = [o \in Objects |-> 1]
  /\ disk \in {[o \in Objects |-> Absent], [o \in Objects |-> IF o = Manifest THEN Absent ELSE 1]}
  /\ proc = Stopped
  /\ starts = 0

(* An upload replaces the objects one by one, in any order. *)
UploadBundle ==
  /\ \E o \in Objects, r \in Revisions :
       /\ r = bucket[o] + 1
       /\ \A p \in Objects : bucket[p] \in {bucket[o], r}
       /\ bucket' = [bucket EXCEPT ![o] = r]
  /\ UNCHANGED <<env, disk, proc, starts>>

(* Something cleans temporary directories up: a file goes while nothing runs. *)
LoseFile ==
  /\ proc.pc \in {"stopped", "failed"}
  /\ \E f \in Range(AssetFiles) : disk' = [disk EXCEPT ![f] = Absent]
  /\ UNCHANGED <<env, bucket, proc, starts>>

Become(pc) == proc' = [proc EXCEPT !.pc = pc]
Leave(pc) == proc' = [Stopped EXCEPT !.pc = pc]

StartProcess ==
  /\ proc.pc \in {"stopped", "failed", "serving"} /\ starts < MaxStarts
  /\ Leave("configure")
  /\ starts' = starts + 1
  /\ UNCHANGED <<env, bucket, disk>>

(* model_asset_source_from_env and provision_from_env: one variable of the pair
   without the other, or no directory to copy to, is an error at start. *)
SourceError == env.bucket # env.prefix \/ (env.bucket /\ ~env.bundleDir)

ReadEnv ==
  /\ proc.pc = "configure"
  /\ IF env.provider # "ltembed" \/ ~(env.bucket \/ env.prefix) THEN Become("open")
     ELSE IF SourceError THEN Leave("failed")
     ELSE Become("look")
  /\ UNCHANGED <<env, bucket, disk, starts>>

(* assets_ready: a manifest that parses, and every file with the size it says. *)
AssetsReady ==
  disk[Manifest] \in Revisions /\ \A f \in Range(AssetFiles) : disk[f] \in Revisions

(* A warm directory is reused; otherwise the old manifest goes before any file
   is touched. *)
LookAtDisk ==
  /\ proc.pc = "look"
  /\ IF AssetsReady THEN Become("open") ELSE Become("invalidate")
  /\ UNCHANGED <<env, bucket, disk, starts>>

\* Mutant of InvalidateMarker: the old manifest stays until it is overwritten.
KeepMarker ==
  /\ proc.pc = "invalidate"
  /\ Become("manifest")
  /\ UNCHANGED <<env, bucket, disk, starts>>
InvalidateMarker ==
  /\ proc.pc = "invalidate"
  /\ disk' = [disk EXCEPT ![Manifest] = Absent]
  /\ Become("manifest")
  /\ UNCHANGED <<env, bucket, starts>>

FetchManifest ==
  /\ proc.pc = "manifest"
  /\ proc' = [pc |-> "fetch", man |-> bucket[Manifest], todo |-> AssetFiles]
  /\ UNCHANGED <<env, bucket, disk, starts>>

\* Mutant of FetchFile: written over the old file before it is checked.
FetchInPlace ==
  /\ proc.pc = "fetch" /\ proc.todo # <<>>
  /\ IF bucket[Head(proc.todo)] = proc.man
     THEN /\ disk' = [disk EXCEPT ![Head(proc.todo)] = proc.man]
          /\ proc' = [proc EXCEPT !.todo = Tail(@)]
     ELSE Leave("failed") /\ disk' = [disk EXCEPT ![Head(proc.todo)] = Cut]
  /\ UNCHANGED <<env, bucket, starts>>
\* Mutant of FetchFile: the hash is not compared.
FetchUnchecked ==
  /\ proc.pc = "fetch" /\ proc.todo # <<>>
  /\ disk' = [disk EXCEPT ![Head(proc.todo)] = bucket[Head(proc.todo)]]
  /\ proc' = [proc EXCEPT !.todo = Tail(@)]
  /\ UNCHANGED <<env, bucket, starts>>
(* A file goes to .partial-<name>, its size and hash are compared with the
   manifest, and only then is it renamed over the old one. *)
FetchFile ==
  /\ proc.pc = "fetch" /\ proc.todo # <<>>
  /\ IF bucket[Head(proc.todo)] = proc.man
     THEN /\ disk' = [disk EXCEPT ![Head(proc.todo)] = proc.man]
          /\ proc' = [proc EXCEPT !.todo = Tail(@)]
     ELSE Leave("failed") /\ UNCHANGED disk
  /\ UNCHANGED <<env, bucket, starts>>

(* The manifest is written last, in place: a death in between cuts it short. *)
WriteMarker ==
  /\ proc.pc = "fetch" /\ proc.todo = <<>>
  /\ \/ disk' = [disk EXCEPT ![Manifest] = proc.man] /\ Become("open")
     \/ disk' = [disk EXCEPT ![Manifest] = Cut] /\ Leave("stopped")
  /\ UNCHANGED <<env, bucket, starts>>

(* parse_provider and the generator: `unset` is the fixed vector on the build
   side; ltembed opens the bundle directory and fails when a file is missing. *)
OpenEngine ==
  /\ proc.pc = "open"
  /\ IF \/ env.provider \in {"unset", "fixed"}
        \/ /\ env.provider = "ltembed" /\ env.bundleDir
           /\ \A f \in Range(AssetFiles) : disk[f] # Absent
     THEN Leave("serving") ELSE Leave("failed")
  /\ UNCHANGED <<env, bucket, disk, starts>>

(* A request to S3 or a system call fails: start-up ends with an error; or the
   container is killed. *)
ProcessFails ==
  /\ proc.pc \in {"look", "invalidate", "manifest", "fetch"}
  /\ Leave("failed")
  /\ UNCHANGED <<env, bucket, disk, starts>>

Provision ==
  LookAtDisk \/ InvalidateMarker \/ FetchManifest \/ FetchFile \/ WriteMarker

AssetNext ==
  UploadBundle \/ LoseFile \/ StartProcess \/ ReadEnv \/ Provision \/ OpenEngine \/ ProcessFails

AssetSpec == AssetInit /\ [][AssetNext]_assetVars

-----------------------------------------------------------------------------
AssetTypeOK ==
  /\ env \in Env
  /\ bucket \in [Objects -> Revisions]
  /\ disk \in [Objects -> Absent .. Cut] /\ \A f \in Range(AssetFiles) : disk[f] # Cut
  /\ proc \in [pc : {"stopped", "configure", "look", "invalidate", "manifest", "fetch", "open",
                     "serving", "failed"},
               man : Absent .. MaxRevision, todo : Seq(Range(AssetFiles))]
  /\ starts \in 0 .. MaxStarts

OneBundle == \E r \in Revisions : \A f \in Range(AssetFiles) : disk[f] = r

(* A directory in which old and new files of one size are mixed is never taken
   for ready by the quick look of assets_ready, and an ltembed process that was to
   copy its bundle and serves has one whole bundle under it, however many starts
   died half-way before. *)
ServesOneBundle ==
  /\ AssetsReady => \A f \in Range(AssetFiles) : disk[f] = disk[Manifest]
  /\ proc.pc = "serving" /\ env.provider = "ltembed" /\ env.bucket => OneBundle
=============================================================================
