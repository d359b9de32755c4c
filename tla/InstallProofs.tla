---------------------------- MODULE InstallProofs ----------------------------
(***************************************************************************)
(* What a query process finds on its disk, with any number of commands     *)
(* that interleave, fail or die anywhere: a release that was built is      *)
(* whole and kept, a release no commands met in is installed whole and     *)
(* can be served, and a model bundle that was copied is of one revision.   *)
(***************************************************************************)
EXTENDS MCInstalls, TLAPS

Manifests == [id : Ids, source : Sources]
Names == {Asset(v) : v \in Versions} \cup {"turbo_static.bin", "turbo_static_text.bin"}
FilesOf(id) == Range(release_output_files(id.version))

Paths ==
  {OutPath} \cup {StagePath(b) : b \in Builders} \cup {BackupPath(b) : b \in Builders}
  \cup {ManagedPath(i) : i \in Ids} \cup {IncomingPath(i) : i \in Ids}

-------------------------------------------------------------------------------
(* The file system *)

Whole(dir) ==
  /\ dir.manifest \in Manifests
  /\ dir.files = Outputs(dir.manifest.id, dir.manifest.source)

\* Where only whole directories are ever seen.
Public == {"out", "staging", "backup"}

DirOK(path, dir) ==
  /\ path \in Paths
  /\ dir.manifest \in Manifests \cup {NoManifest} /\ DOMAIN dir.files \subseteq Names
  /\ path[1] \in Public => Whole(dir)
  /\ path[1] = "managed" /\ path[2] \notin crossed => Whole(dir) /\ dir.manifest.id = path[2]

FsInv == \A path \in DOMAIN fs : DirOK(path, fs[path])

-------------------------------------------------------------------------------
(* S3 and the pointer *)

RemoteInv ==
  \A key \in DOMAIN remote :
      /\ key \in {<<id, name>> : id \in Ids, name \in Names}
      /\ key[2] \in FilesOf(key[1])
      /\ key[1] \notin crossed => \A source \in Sources : remote[key] = Bytes(key[2], key[1], source)

Landed(id) == \A name \in FilesOf(id) : <<id, name>> \in DOMAIN remote

ManifestsInv ==
  \A id \in DOMAIN manifests :
      /\ id \in Ids /\ manifests[id] \in Manifests
      /\ id \notin crossed => manifests[id].id = id /\ Landed(id)

\* Release id is where the query side looks for it.
Installed(id) == IF install = "s3" THEN id \in DOMAIN manifests ELSE Exists(ManagedPath(id))

HeadInv ==
  /\ head.id \in Ids \cup {NoId} /\ head.stamp \in Nat
  /\ head.id \notin crossed \cup {NoId} => Installed(head.id)

-------------------------------------------------------------------------------
(* The commands *)

BuildState ==
  [pc : {"idle", "stage", "aside", "in", "drop"}, id : Ids \cup {NoId},
   source : Sources \cup {NoSource}, had : BOOLEAN]

BuildOK(b) ==
  /\ bld[b].pc = "stage" => bld[b].id \in Ids /\ bld[b].source \in Sources
  /\ bld[b].pc = "in" /\ bld[b].had => Exists(BackupPath(b))

BuildsInv == bld \in [Builders -> BuildState] /\ \A b \in Builders : BuildOK(b)

\* While a build is about to drop its backup, there is another release.
KeptInv ==
  (\E b \in Builders : bld[b].pc = "drop") =>
     \/ Exists(OutPath)
     \/ \E c \in Builders : bld[c].pc # "drop" /\ Exists(BackupPath(c))
     \/ \E path \in DOMAIN fs : path[1] = "managed" /\ Whole(fs[path])

Installing == {"check"} \cup {"rename", "clear", "create", "copy", "place"}
Uploading == {"upload", "seal"}
Verified == Installing \cup Uploading \cup {"read", "swap"}
Args == {OutPath} \cup {ManagedPath(id) : id \in Ids}

ActState ==
  [pc : {"idle", "verify"} \cup Verified, arg : Args, man : Manifests \cup {NoManifest},
   todo : Seq(Names), left : SUBSET (Names \cup {RELEASE_MANIFEST_FILE}),
   local : Manifests \cup {NoManifest}, seen : Nat,
   outcome : {"none", "corrupt file", "different manifest"}]

\* A managed copy is given to be activated again, not to be moved or copied.
ArgOK(a) ==
  LET q == act[a] IN
  /\ q.pc \in Verified => q.man \in Manifests
  /\ q.pc \in Installing /\ q.arg # OutPath /\ q.arg[2] \notin crossed =>
        q.pc = "check" /\ q.man.id = q.arg[2] /\ Exists(q.arg)

\* A copy under way: what is there and what is left make up release id.
Partial(dir, left, id) ==
  /\ left \subseteq FilesOf(id) \cup {RELEASE_MANIFEST_FILE}
  /\ DOMAIN dir.files \subseteq FilesOf(id)
  /\ FilesOf(id) \subseteq DOMAIN dir.files \cup left
  /\ dir.files = <<>> \/ dir.files = [n \in DOMAIN dir.files |-> Bytes(n, id, NoSource)]
  /\ RELEASE_MANIFEST_FILE \in left \/ (dir.manifest \in Manifests /\ dir.manifest.id = id)

CopyOK(a) ==
  LET q == act[a]
      dir == fs[Incoming(a)]
  IN  q.man.id \notin crossed =>
        /\ q.pc = "create" => ~Exists(Incoming(a))
        /\ q.pc = "copy" => Exists(Incoming(a)) /\ q.left # {} /\ Partial(dir, q.left, q.man.id)
        /\ q.pc = "place" => Exists(Incoming(a)) /\ Whole(dir) /\ dir.manifest.id = q.man.id

\* An upload under way, and what it or an installation leads to.
UploadOK(a) ==
  LET q == act[a] IN
  /\ q.pc \in Installing => install # "s3"
  /\ q.pc \in Uploading => install = "s3"
  /\ q.pc = "upload" =>
       /\ Range(q.todo) \subseteq FilesOf(q.man.id)
       /\ \A name \in FilesOf(q.man.id) : <<q.man.id, name>> \in DOMAIN remote \/ name \in Range(q.todo)
  /\ q.pc = "seal" => Landed(q.man.id)
  /\ q.pc \in {"read", "swap"} /\ q.man.id \notin crossed => Installed(q.man.id)

ActOK(a) == ArgOK(a) /\ CopyOK(a) /\ UploadOK(a)

ActsInv == act \in [Activators -> ActState] /\ \A a \in Activators : ActOK(a)

\* Where commands meet now they have been noted.
MeetInv == crossed \subseteq Ids /\ Crossing \subseteq crossed

IInv ==
  /\ install \in Installs /\ commands \in 0 .. MaxCommands
  /\ FsInv /\ RemoteInv /\ ManifestsInv /\ HeadInv
  /\ BuildsInv /\ KeptInv /\ ActsInv /\ MeetInv

-------------------------------------------------------------------------------
(* Names, paths and file systems *)

LEMMA PathIs ==
  /\ OutPath[1] = "out"
  /\ \A b : StagePath(b)[1] = "staging" /\ StagePath(b)[2] = b
  /\ \A b : BackupPath(b)[1] = "backup" /\ BackupPath(b)[2] = b
  /\ \A id : ManagedPath(id)[1] = "managed" /\ ManagedPath(id)[2] = id
  /\ \A id : IncomingPath(id)[1] = "incoming" /\ IncomingPath(id)[2] = id
BY DEF OutPath, StagePath, BackupPath, ManagedPath, IncomingPath

LEMMA PathsAre ==
  /\ OutPath \in Paths
  /\ \A b \in Builders : StagePath(b) \in Paths /\ BackupPath(b) \in Paths
  /\ \A id \in Ids : ManagedPath(id) \in Paths /\ IncomingPath(id) \in Paths
BY DEF Paths

LEMMA PathOfKind ==
  ASSUME NEW path \in Paths
  PROVE  /\ path[1] = "out" => path = OutPath
         /\ path[1] = "managed" => path[2] \in Ids /\ path = ManagedPath(path[2])
         /\ path[1] = "incoming" => path[2] \in Ids /\ path = IncomingPath(path[2])
         /\ path[1] \in {"out", "staging", "backup", "managed", "incoming"}
BY PathIs DEF Paths

LEMMA WithoutIs ==
  ASSUME NEW S
  PROVE  /\ DOMAIN Without(S) = DOMAIN fs \ S
         /\ \A path \in DOMAIN fs \ S : Without(S)[path] = fs[path]
BY DEF Without, Restrict

LEMMA MovedIs ==
  ASSUME NEW from, NEW to, fs' = Moved(from, to)
  PROVE  /\ DOMAIN fs' = (DOMAIN fs \ {from}) \cup {to}
         /\ fs'[to] = fs[from]
         /\ \A path \in DOMAIN fs : path # from /\ path # to => fs'[path] = fs[path]
<1> DEFINE w == Without({from})
           dir == fs[from]
<1>1. DOMAIN w = DOMAIN fs \ {from} /\ \A path \in DOMAIN fs \ {from} : w[path] = fs[path]
  BY WithoutIs
<1>2. fs' = Put(w, to, dir)
  BY DEF Moved
<1> HIDE DEF w, dir
<1>3. /\ DOMAIN fs' = DOMAIN w \cup {to}
      /\ fs'[to] = dir
      /\ \A path \in DOMAIN w : path # to => fs'[path] = w[path]
  BY <1>2 DEF Put
<1>4. QED
  BY <1>1, <1>3 DEF dir

\* The files of a release: there are some, the manifest is not one of them.
LEMMA FilesAre ==
  ASSUME NEW id \in Ids
  PROVE  /\ release_output_files(id.version) \in Seq(Names)
         /\ FilesOf(id) = {Asset(id.version), "turbo_static.bin", "turbo_static_text.bin"}
         /\ FilesOf(id) \subseteq Names
<1> DEFINE s == release_output_files(id.version)
<1>1. id.version \in Versions
  BY DEF Ids
<1>2. Asset(id.version) \in Names /\ "turbo_static.bin" \in Names /\ "turbo_static_text.bin" \in Names
  BY <1>1 DEF Names
<1>3. s \in Seq(Names)
  BY <1>2 DEF release_output_files
<1>4. FilesOf(id) = {Asset(id.version), "turbo_static.bin", "turbo_static_text.bin"}
  <2>1. DOMAIN s = 1 .. 3 /\ s[1] = Asset(id.version) /\ s[2] = "turbo_static.bin"
        /\ s[3] = "turbo_static_text.bin"
    BY DEF release_output_files
  <2> HIDE DEF s
  <2>2. \A i : i \in 1 .. 3 <=> i = 1 \/ i = 2 \/ i = 3
    OBVIOUS
  <2>3. Range(s) = {s[i] : i \in 1 .. 3}
    BY <2>1 DEF Range
  <2>4. Range(s) = {Asset(id.version), "turbo_static.bin", "turbo_static_text.bin"}
    BY <2>1, <2>2, <2>3
  <2>5. QED
    BY <2>4 DEF FilesOf, s
<1>5. QED
  BY <1>2, <1>3, <1>4

LEMMA NotManifests == NoManifest \notin Manifests /\ EmptyDir.manifest = NoManifest
BY InstallsAssumption DEF NoManifest, Manifests, EmptyDir

\* What a file contains depends on the release, not on where the corpus lies.
LEMMA BytesOfId ==
  ASSUME NEW name, NEW id, NEW s, NEW t
  PROVE  Bytes(name, id, s) = Bytes(name, id, t)
BY DEF Bytes

LEMMA OutputsAre ==
  ASSUME NEW id \in Ids, NEW source
  PROVE  /\ DOMAIN Outputs(id, source) = FilesOf(id)
         /\ \A name \in FilesOf(id) : Outputs(id, source)[name] = Bytes(name, id, source)
BY DEF Outputs, FilesOf

\* A verified directory is whole, wherever it lies.
LEMMA VerifiedWhole ==
  ASSUME FsInv, NEW path \in DOMAIN fs
  PROVE  /\ VerifiedDir(fs[path]) => Whole(fs[path])
         /\ Whole(fs[path]) => VerifiedDir(fs[path])
         /\ fs[path].manifest \in Manifests \cup {NoManifest}
BY NotManifests DEF FsInv, DirOK, Whole, VerifiedDir

LEMMA RangeOfTail ==
  ASSUME NEW S, NEW s \in Seq(S), s # <<>>
  PROVE  /\ Head(s) \in S /\ Tail(s) \in Seq(S)
         /\ Range(s) = {Head(s)} \cup Range(Tail(s))
<1>1. Head(s) \in S /\ Tail(s) \in Seq(S)
  OBVIOUS
<1>2. Len(s) \in Nat \ {0} /\ DOMAIN s = 1 .. Len(s) /\ Head(s) = s[1]
  OBVIOUS
<1>3. DOMAIN Tail(s) = 1 .. Len(s) - 1 /\ \A i \in 1 .. Len(s) - 1 : Tail(s)[i] = s[i + 1]
  OBVIOUS
<1>4. \A x \in Range(s) : x \in {Head(s)} \cup Range(Tail(s))
  <2>1. ASSUME NEW i \in 1 .. Len(s) PROVE s[i] \in {Head(s)} \cup Range(Tail(s))
    <3>1. CASE i = 1
      BY <1>2, <3>1
    <3>2. CASE i # 1
      <4>1. i - 1 \in 1 .. Len(s) - 1 /\ (i - 1) + 1 = i
        BY <1>2, <3>2
      <4>2. Tail(s)[i - 1] = s[i]
        BY <1>3, <4>1
      <4>3. QED
        BY <1>3, <4>1, <4>2 DEF Range
    <3>3. QED
      BY <3>1, <3>2
  <2>2. QED
    BY <1>2, <2>1 DEF Range
<1>5. \A x \in {Head(s)} \cup Range(Tail(s)) : x \in Range(s)
  <2>1. Head(s) \in Range(s)
    BY <1>2 DEF Range
  <2>2. ASSUME NEW i \in 1 .. Len(s) - 1 PROVE Tail(s)[i] \in Range(s)
    <3>1. i + 1 \in 1 .. Len(s)
      BY <1>2
    <3>2. QED
      BY <1>2, <1>3, <3>1 DEF Range
  <2>3. QED
    BY <1>3, <2>1, <2>2 DEF Range
<1>6. QED
  BY <1>1, <1>4, <1>5

LEMMA RangeOfEmpty == Range(<<>>) = {}
BY DEF Range

LEMMA WholeNames ==
  ASSUME NEW dir, Whole(dir)
  PROVE  /\ dir.manifest.id \in Ids /\ dir.manifest # NoManifest
         /\ DOMAIN dir.files = FilesOf(dir.manifest.id) /\ DOMAIN dir.files \subseteq Names
         /\ \A name \in FilesOf(dir.manifest.id) :
              dir.files[name] = Bytes(name, dir.manifest.id, dir.manifest.source)
         /\ Entries(dir) = FilesOf(dir.manifest.id) \cup {RELEASE_MANIFEST_FILE}
<1>1. dir.manifest.id \in Ids /\ dir.manifest # NoManifest
  BY NotManifests DEF Whole, Manifests
<1>2. dir.files = Outputs(dir.manifest.id, dir.manifest.source)
  BY DEF Whole
<1>3. QED
  BY <1>1, <1>2, OutputsAre, FilesAre DEF Entries

\* A whole directory may lie anywhere below a path of its release.
LEMMA WholeIsOK ==
  ASSUME NEW path \in Paths, NEW dir, Whole(dir), path[1] = "managed" => dir.manifest.id = path[2]
  PROVE  DirOK(path, dir)
BY WholeNames DEF DirOK, Whole

LEMMA EmptyIs ==
  /\ EmptyDir.files = <<>> /\ DOMAIN EmptyDir.files = {} /\ ~Whole(EmptyDir)
  /\ \A id \in Ids : DirOK(IncomingPath(id), EmptyDir)
<1>1. EmptyDir.files = <<>> /\ DOMAIN EmptyDir.files = {}
  BY DEF EmptyDir
<1>2. QED
  BY <1>1, NotManifests, PathIs, PathsAre DEF DirOK, Whole, Public

LEMMA ManifestNoFile == RELEASE_MANIFEST_FILE \notin Names
BY DEF RELEASE_MANIFEST_FILE, Names, Asset

-------------------------------------------------------------------------------
(* What all steps have in common *)

\* The history goes on.
Meets == crossed' = crossed \cup Crossing'

LEMMA MeetsIs ==
  ASSUME MeetInv, Meets
  PROVE  crossed \subseteq crossed' /\ MeetInv'
BY DEF Meets, MeetInv, Crossing

\* What an activation reads is what it verified, and no other copies along, or
\* the release has been crossed.
LEMMA ReadsVerified ==
  ASSUME IInv, NEW a \in Activators, act[a].pc \in Reading, act[a].man.id \in Ids \ crossed,
         Exists(act[a].arg)
  PROVE  Whole(fs[act[a].arg]) /\ fs[act[a].arg].manifest.id = act[a].man.id
<1>1. act[a].man.id \notin Crossing
  BY DEF IInv, MeetInv
<1>2. WholeRelease(fs[act[a].arg], act[a].man.id)
  BY <1>1 DEF Crossing
<1>3. QED
  BY <1>2, VerifiedWhole DEF IInv, WholeRelease, Exists

LEMMA CopiesAlone ==
  ASSUME IInv, NEW a \in Activators, NEW c \in Activators, a # c,
         act[a].pc \in FallingBack, act[c].pc \in FallingBack, act[a].man.id \in Ids \ crossed
  PROVE  act[c].man.id # act[a].man.id
BY DEF IInv, MeetInv, Crossing

LEMMA IdleActWillBeOK ==
  ASSUME NEW a \in Activators, act'[a].pc \in {"idle", "verify"}
  PROVE  ActOK(a)'
BY DEF ActOK, ArgOK, UploadOK, CopyOK, Verified, Installing, Uploading

\* A release that was installed and not crossed stays where it is.
StoreKept == \A id \in Ids \ crossed : Exists(ManagedPath(id)) => ManagedPath(id) \in DOMAIN fs'

Same(path) ==
  /\ path \in DOMAIN fs' <=> path \in DOMAIN fs
  /\ path \in DOMAIN fs => fs'[path] = fs[path]

\* What an activation relies on while others move.
LEMMA OthersKeep ==
  ASSUME IInv, Meets, install' = install, StoreKept,
         DOMAIN remote \subseteq DOMAIN remote', DOMAIN manifests \subseteq DOMAIN manifests',
         NEW c \in Activators, act'[c] = act[c],
         act[c].pc \in FallingBack /\ act[c].man.id \in Ids \ crossed => Same(Incoming(c))
  PROVE  ActOK(c)'
<1>1. crossed \subseteq crossed'
  BY MeetsIs DEF IInv
<1>2. ActOK(c) /\ act[c] \in ActState
  BY DEF IInv, ActsInv
<1>3. act[c].pc \in Verified => act[c].man \in Manifests /\ act[c].man.id \in Ids
  BY <1>2 DEF ActOK, ArgOK, Manifests
<1>4. ArgOK(c)'
  <2>1. CASE act[c].arg = OutPath
    BY <1>2, <2>1 DEF ActOK, ArgOK
  <2>2. CASE act[c].arg # OutPath
    <3>1. PICK id \in Ids : act[c].arg = ManagedPath(id)
      BY <1>2, <2>2 DEF ActState, Args
    <3>2. act[c].arg[2] = id
      BY <3>1, PathIs
    <3>3. QED
      BY <1>1, <1>2, <2>2, <3>1, <3>2 DEF ActOK, ArgOK, StoreKept, Exists
  <2>3. QED
    BY <2>1, <2>2
<1>5. UploadOK(c)'
  <2>1. Landed(act[c].man.id) => Landed(act[c].man.id)'
    BY DEF Landed
  <2>2. act[c].man.id \in Ids \ crossed /\ Installed(act[c].man.id) => Installed(act[c].man.id)'
    BY DEF Installed, StoreKept, Exists
  <2>3. act[c].pc \in {"read", "swap"} /\ act[c].man.id \notin crossed' => Installed(act[c].man.id)'
    BY <1>1, <1>2, <1>3, <2>2 DEF ActOK, UploadOK, Verified
  <2>4. act[c].pc = "seal" => Landed(act[c].man.id)'
    BY <1>2, <2>1 DEF ActOK, UploadOK
  <2> HIDE DEF Landed, Installed
  <2>5. QED
    BY <1>2, <2>3, <2>4 DEF ActOK, UploadOK
<1>6. CopyOK(c)'
  <2>1. SUFFICES ASSUME act[c].man.id \notin crossed', act[c].pc \in {"create", "copy", "place"}
                 PROVE CopyOK(c)'
    BY DEF CopyOK
  <2>2. act[c].man.id \in Ids \ crossed
    BY <1>1, <1>3, <2>1 DEF Verified, Installing
  <2>3. Same(Incoming(c)) /\ Incoming(c)' = Incoming(c)
    BY <2>1, <2>2 DEF FallingBack, Incoming
  <2>4. CopyOK(c)
    BY <1>2 DEF ActOK
  <2>5. QED
    BY <2>2, <2>3, <2>4 DEF CopyOK, Same, Exists, Partial, Whole
<1>7. QED
  BY <1>4, <1>5, <1>6 DEF ActOK

\* The parts of the invariant that are about one place each.
LEMMA DirsKeep ==
  ASSUME IInv, Meets, \A path \in DOMAIN fs' : DirOK(path, fs'[path])
  PROVE  FsInv'
<1>1. crossed \subseteq crossed'
  BY MeetsIs DEF IInv
<1>2. QED
  BY <1>1 DEF FsInv, DirOK, Whole

LEMMA RemoteKeeps ==
  ASSUME IInv, Meets, UNCHANGED <<remote, manifests>>
  PROVE  RemoteInv' /\ ManifestsInv'
<1>1. crossed \subseteq crossed'
  BY MeetsIs DEF IInv
<1>2. QED
  BY <1>1 DEF IInv, RemoteInv, ManifestsInv, Landed

LEMMA HeadKeeps ==
  ASSUME IInv, Meets, UNCHANGED <<head, install>>, StoreKept, DOMAIN manifests \subseteq DOMAIN manifests'
  PROVE  HeadInv'
<1>1. crossed \subseteq crossed'
  BY MeetsIs DEF IInv
<1>2. QED
  BY <1>1 DEF IInv, HeadInv, Installed, StoreKept, Exists


-------------------------------------------------------------------------------
(* Builds *)

LEMMA BuildStates ==
  /\ IdleBuild \in BuildState /\ IdleBuild.pc = "idle"
  /\ \A q \in BuildState, pc \in {"aside", "in", "drop", "idle"} :
        [q EXCEPT !.pc = pc] \in BuildState /\ [q EXCEPT !.pc = pc].pc = pc
        /\ [q EXCEPT !.pc = pc].had = q.had
BY DEF IdleBuild, BuildState

\* A build moves: the store and the copies under way are not its business.
LEMMA BuildStep ==
  ASSUME IInv, Meets, NEW b \in Builders, NEW q \in BuildState, bld' = [bld EXCEPT ![b] = q],
         UNCHANGED <<remote, manifests, head, act, install>>, commands' \in 0 .. MaxCommands,
         \A path \in DOMAIN fs' : DirOK(path, fs'[path]),
         \A path \in Paths : path[1] \in {"managed", "incoming"} => Same(path),
         \A c \in Builders : c # b /\ BackupPath(c) \in DOMAIN fs => BackupPath(c) \in DOMAIN fs',
         q.pc = "stage" => q.id \in Ids /\ q.source \in Sources,
         q.pc = "in" /\ q.had => BackupPath(b) \in DOMAIN fs',
         \/ OutPath \in DOMAIN fs'
         \/ q.pc # "drop" /\ BackupPath(b) \in DOMAIN fs'
         \/ /\ q.pc # "drop" /\ OutPath \notin DOMAIN fs
            /\ bld[b].pc # "drop" => BackupPath(b) \notin DOMAIN fs
  PROVE  IInv'
<1>1. /\ bld \in [Builders -> BuildState] /\ bld'[b] = q
      /\ bld' \in [Builders -> BuildState] /\ \A c \in Builders : c # b => bld'[c] = bld[c]
  BY DEF IInv, BuildsInv
<1>2. \A id \in Ids : Same(ManagedPath(id)) /\ Same(IncomingPath(id))
  BY PathIs, PathsAre
<1>3. StoreKept
  BY <1>2 DEF StoreKept, Same, Exists
<1>4. FsInv' /\ RemoteInv' /\ ManifestsInv' /\ HeadInv' /\ MeetInv'
  BY <1>3, DirsKeep, RemoteKeeps, HeadKeeps, MeetsIs DEF IInv
<1>5. BuildsInv'
  <2>1. ASSUME NEW c \in Builders PROVE BuildOK(c)'
    <3>1. CASE c = b
      BY <1>1, <3>1 DEF BuildOK, Exists
    <3>2. CASE c # b
      <4>1. bld'[c] = bld[c] /\ BuildOK(c)
        BY <1>1, <3>2 DEF IInv, BuildsInv
      <4>2. QED
        BY <3>2, <4>1 DEF BuildOK, Exists
    <3>3. QED
      BY <3>1, <3>2
  <2>2. QED
    BY <1>1, <2>1 DEF BuildsInv
<1>6. KeptInv'
  <2>1. CASE OutPath \in DOMAIN fs'
    BY <2>1 DEF KeptInv, Exists
  <2>2. CASE q.pc # "drop" /\ BackupPath(b) \in DOMAIN fs'
    BY <1>1, <2>2 DEF KeptInv, Exists
  <2>3. CASE /\ q.pc # "drop" /\ OutPath \notin DOMAIN fs
             /\ bld[b].pc # "drop" => BackupPath(b) \notin DOMAIN fs
    <3>1. SUFFICES ASSUME NEW c \in Builders, bld'[c].pc = "drop"
                   PROVE  \/ \E d \in Builders : bld'[d].pc # "drop" /\ BackupPath(d) \in DOMAIN fs'
                          \/ \E path \in DOMAIN fs' : path[1] = "managed" /\ Whole(fs'[path])
      BY DEF KeptInv, Exists, Whole
    <3>2. bld[c].pc = "drop"
      BY <1>1, <2>3, <3>1
    <3>3. \/ \E d \in Builders : bld[d].pc # "drop" /\ Exists(BackupPath(d))
          \/ \E path \in DOMAIN fs : path[1] = "managed" /\ Whole(fs[path])
      BY <2>3, <3>2 DEF IInv, KeptInv, Exists
    <3>4. ASSUME NEW d \in Builders, bld[d].pc # "drop", Exists(BackupPath(d))
          PROVE  bld'[d].pc # "drop" /\ BackupPath(d) \in DOMAIN fs'
      BY <1>1, <2>3, <3>4 DEF Exists
    <3>5. ASSUME NEW path \in DOMAIN fs, path[1] = "managed", Whole(fs[path])
          PROVE  path \in DOMAIN fs' /\ Whole(fs'[path])
      <4>1. path \in Paths
        BY DEF IInv, FsInv, DirOK
      <4>2. Same(path)
        BY <3>5, <4>1
      <4>3. QED
        BY <3>5, <4>2 DEF Same
    <3>6. QED
      BY <3>3, <3>4, <3>5
  <2>4. QED
    BY <2>1, <2>2, <2>3
<1>7. ASSUME NEW c \in Activators PROVE ActOK(c)'
  <2>1. act'[c] = act[c] /\ act[c] \in ActState
    BY DEF IInv, ActsInv
  <2>2. act[c].man.id \in Ids => Same(Incoming(c))
    BY <1>2 DEF Incoming
  <2>3. QED
    BY <1>3, <2>1, <2>2, OthersKeep
<1>8. ActsInv'
  BY <1>7 DEF IInv, ActsInv
<1>9. QED
  BY <1>4, <1>5, <1>6, <1>8 DEF IInv

\* A release was staged.
LEMMA StageKeeps ==
  ASSUME IInv, Meets, NEW b \in Builders, StageRelease(b)
  PROVE  IInv'
<1> DEFINE man == [id |-> bld[b].id, source |-> bld[b].source]
           dir == [files |-> Outputs(bld[b].id, bld[b].source), manifest |-> man]
           q == [bld[b] EXCEPT !.pc = "aside"]
<1>1. bld[b] \in BuildState /\ bld[b].pc = "stage" /\ bld[b].id \in Ids /\ bld[b].source \in Sources
  BY DEF IInv, BuildsInv, BuildOK, StageRelease
<1>2. Whole(dir)
  BY <1>1 DEF Whole, Manifests
<1>3. fs' = Put(fs, StagePath(b), dir) /\ bld' = [bld EXCEPT ![b] = q]
  BY DEF StageRelease
<1>4. q \in BuildState /\ q.pc = "aside"
  BY <1>1, BuildStates
<1> HIDE DEF dir, q
<1>5. /\ DOMAIN fs' = DOMAIN fs \cup {StagePath(b)} /\ fs'[StagePath(b)] = dir
      /\ \A path \in DOMAIN fs : path # StagePath(b) => fs'[path] = fs[path]
  BY <1>3 DEF Put
<1>6. ASSUME NEW path \in DOMAIN fs' PROVE DirOK(path, fs'[path])
  <2>1. DirOK(StagePath(b), dir)
    BY <1>2, PathIs, PathsAre, WholeIsOK
  <2>2. QED
    BY <1>5, <2>1 DEF IInv, FsInv
<1>7. \A path \in Paths : path[1] \in {"managed", "incoming"} => Same(path)
  BY <1>5, PathIs DEF Same
<1>8. commands' \in 0 .. MaxCommands /\ UNCHANGED <<remote, manifests, head, act, install>>
  BY DEF IInv, StageRelease
<1>9. QED
  BY <1>1, <1>3, <1>4, <1>5, <1>6, <1>7, <1>8, BuildStep

\* A build ends; of the file system it may have removed directories of its own.
LEMMA BuildEndStep ==
  ASSUME IInv, Meets, NEW b \in Builders, bld[b].pc # "idle", BuildEnds(b),
         UNCHANGED <<remote, manifests, head, act, install, commands>>,
         NEW S, S \subseteq {StagePath(b), BackupPath(b)}, fs' = Without(S),
         BackupPath(b) \in S => bld[b].pc = "drop"
  PROVE  IInv'
<1>1. /\ DOMAIN fs' = DOMAIN fs \ S
      /\ \A path \in DOMAIN fs \ S : fs'[path] = fs[path]
  BY WithoutIs
<1>2. \A path \in S : path[1] \in {"staging", "backup"} /\ path[2] = b
  BY PathIs
<1>3. ASSUME NEW path \in DOMAIN fs' PROVE DirOK(path, fs'[path])
  BY <1>1 DEF IInv, FsInv
<1>4. \A path \in Paths : path[1] \in {"managed", "incoming", "out"} => Same(path)
  BY <1>1, <1>2 DEF Same
<1>5. \A c \in Builders : c # b /\ BackupPath(c) \in DOMAIN fs => BackupPath(c) \in DOMAIN fs'
  BY <1>1, <1>2, PathIs
<1>6. OutPath \in DOMAIN fs => OutPath \in DOMAIN fs'
  BY <1>4, PathIs, PathsAre DEF Same
<1>7. bld[b].pc # "drop" /\ BackupPath(b) \in DOMAIN fs => BackupPath(b) \in DOMAIN fs'
  BY <1>1
<1>8. bld' = [bld EXCEPT ![b] = IdleBuild] /\ commands' \in 0 .. MaxCommands
  BY DEF BuildEnds, IInv
<1>9. IdleBuild \in BuildState /\ IdleBuild.pc = "idle"
  BY BuildStates
<1>10. QED
  BY <1>3, <1>4, <1>5, <1>6, <1>7, <1>8, <1>9, BuildStep

LEMMA BuildDiesKeeps ==
  ASSUME IInv, Meets, NEW b \in Builders, BuildDies(b)
  PROVE  IInv'
<1>1. /\ UNCHANGED <<fs, remote, manifests, head, act, install, commands>>
      /\ bld[b].pc # "idle" /\ bld' = [bld EXCEPT ![b] = IdleBuild]
  BY DEF BuildDies, BuildEnds
<1>2. IdleBuild \in BuildState /\ IdleBuild.pc = "idle" /\ commands' \in 0 .. MaxCommands
  BY <1>1, BuildStates DEF IInv
<1>3. ASSUME NEW path \in DOMAIN fs' PROVE DirOK(path, fs'[path])
  BY <1>1 DEF IInv, FsInv
<1>4. QED
  BY <1>1, <1>2, <1>3, BuildStep DEF Same

LEMMA DropBackupKeeps ==
  ASSUME IInv, Meets, NEW b \in Builders, DropBackup(b)
  PROVE  IInv'
BY BuildEndStep DEF DropBackup

LEMMA HadStates ==
  ASSUME NEW q \in BuildState, NEW had \in BOOLEAN
  PROVE  /\ [q EXCEPT !.pc = "in", !.had = had] \in BuildState
         /\ [q EXCEPT !.pc = "in", !.had = had].pc = "in"
         /\ [q EXCEPT !.pc = "in", !.had = had].had = had
BY DEF BuildState

LEMMA MoveAsideKeeps ==
  ASSUME IInv, Meets, NEW b \in Builders, MoveAside(b)
  PROVE  IInv'
<1>1. /\ bld[b] \in BuildState /\ bld[b].pc = "aside" /\ bld \in [Builders -> BuildState]
      /\ commands' \in 0 .. MaxCommands /\ UNCHANGED <<remote, manifests, head, act, install>>
  BY DEF IInv, BuildsInv, MoveAside
<1>2. CASE Exists(OutPath) /\ fs' = Moved(OutPath, BackupPath(b))
           /\ bld' = [bld EXCEPT ![b].pc = "in", ![b].had = TRUE]
  <2> DEFINE q == [bld[b] EXCEPT !.pc = "in", !.had = TRUE]
  <2>1. q \in BuildState /\ q.pc = "in"
    BY <1>1, HadStates
  <2>2. bld' = [bld EXCEPT ![b] = q]
    BY <1>1, <1>2
  <2> HIDE DEF q
  <2>3. OutPath # BackupPath(b)
    BY PathIs
  <2>4. /\ DOMAIN fs' = (DOMAIN fs \ {OutPath}) \cup {BackupPath(b)}
        /\ fs'[BackupPath(b)] = fs[OutPath]
        /\ \A path \in DOMAIN fs : path # OutPath /\ path # BackupPath(b) => fs'[path] = fs[path]
    <3>1. fs' = Moved(OutPath, BackupPath(b))
      BY <1>2
    <3>2. QED
      BY <2>3, <3>1, MovedIs
  <2>5. DirOK(BackupPath(b), fs[OutPath])
    <3>1. Whole(fs[OutPath])
      BY <1>2, PathIs DEF IInv, FsInv, DirOK, Public, Exists
    <3>2. QED
      BY <3>1, PathIs, PathsAre, WholeIsOK
  <2>6. ASSUME NEW path \in DOMAIN fs' PROVE DirOK(path, fs'[path])
    BY <2>4, <2>5 DEF IInv, FsInv
  <2>7. /\ \A path \in Paths : path[1] \in {"managed", "incoming"} => Same(path)
        /\ \A path \in DOMAIN fs : path[1] = "backup" => path \in DOMAIN fs'
    BY <2>4, PathIs DEF Same
  <2>8. QED
    BY <1>1, <2>1, <2>2, <2>4, <2>6, <2>7, PathIs, BuildStep
<1>3. CASE ~Exists(OutPath) /\ fs' = fs /\ bld' = [bld EXCEPT ![b].pc = "in", ![b].had = FALSE]
  <2> DEFINE q == [bld[b] EXCEPT !.pc = "in", !.had = FALSE]
  <2>1. q \in BuildState /\ q.pc = "in" /\ ~q.had
    BY <1>1, HadStates
  <2>2. bld' = [bld EXCEPT ![b] = q]
    BY <1>1, <1>3
  <2> HIDE DEF q
  <2>3. ASSUME NEW path \in DOMAIN fs' PROVE DirOK(path, fs'[path])
    BY <1>3 DEF IInv, FsInv
  <2>4. QED
    BY <1>1, <1>3, <2>1, <2>2, <2>3, BuildStep DEF Exists, Same
<1>4. CASE fs' = Without({StagePath(b)}) /\ BuildEnds(b)
  <2>1. BackupPath(b) \notin {StagePath(b)}
    BY PathIs
  <2>2. QED
    BY <1>1, <1>4, <2>1, BuildEndStep DEF MoveAside
<1>5. QED
  BY <1>2, <1>3, <1>4 DEF MoveAside

LEMMA MoveInKeeps ==
  ASSUME IInv, Meets, NEW b \in Builders, MoveIn(b)
  PROVE  IInv'
<1>1. /\ bld[b] \in BuildState /\ bld[b].pc = "in" /\ bld \in [Builders -> BuildState] /\ BuildOK(b)
      /\ commands' \in 0 .. MaxCommands /\ UNCHANGED <<remote, manifests, head, act, install>>
  BY DEF IInv, BuildsInv, MoveIn
<1>2. CASE Renames(StagePath(b), OutPath) /\ fs' = Moved(StagePath(b), OutPath)
           /\ bld' = [bld EXCEPT ![b].pc = IF bld[b].had THEN "drop" ELSE "idle"]
  <2> DEFINE q == [bld[b] EXCEPT !.pc = IF bld[b].had THEN "drop" ELSE "idle"]
  <2>1. q \in BuildState /\ q.pc \in {"drop", "idle"}
    <3>1. CASE bld[b].had
      <4>1. q = [bld[b] EXCEPT !.pc = "drop"]
        BY <3>1
      <4>2. QED
        BY <1>1, <4>1, BuildStates
    <3>2. CASE ~bld[b].had
      <4>1. q = [bld[b] EXCEPT !.pc = "idle"]
        BY <3>2
      <4>2. QED
        BY <1>1, <4>1 DEF BuildState
    <3>3. QED
      BY <3>1, <3>2
  <2>2. bld' = [bld EXCEPT ![b] = q]
    BY <1>1, <1>2
  <2> HIDE DEF q
  <2>3. StagePath(b) # OutPath
    BY PathIs
  <2>4. /\ DOMAIN fs' = (DOMAIN fs \ {StagePath(b)}) \cup {OutPath}
        /\ fs'[OutPath] = fs[StagePath(b)]
        /\ \A path \in DOMAIN fs : path # StagePath(b) /\ path # OutPath => fs'[path] = fs[path]
    <3>1. fs' = Moved(StagePath(b), OutPath)
      BY <1>2
    <3>2. QED
      BY <2>3, <3>1, MovedIs
  <2>5. DirOK(OutPath, fs[StagePath(b)])
    <3>1. Whole(fs[StagePath(b)])
      BY <1>2, PathIs DEF IInv, FsInv, DirOK, Public, Exists, Renames
    <3>2. QED
      BY <3>1, PathIs, PathsAre, WholeIsOK
  <2>6. ASSUME NEW path \in DOMAIN fs' PROVE DirOK(path, fs'[path])
    BY <2>4, <2>5 DEF IInv, FsInv
  <2>7. /\ \A path \in Paths : path[1] \in {"managed", "incoming"} => Same(path)
        /\ \A path \in DOMAIN fs : path[1] = "backup" => path \in DOMAIN fs'
    BY <2>4, PathIs DEF Same
  <2>8. QED
    BY <1>1, <2>1, <2>2, <2>4, <2>6, <2>7, PathIs, BuildStep
<1>3. CASE fs' = Without({StagePath(b)}) /\ BuildEnds(b)
  <2>1. BackupPath(b) \notin {StagePath(b)}
    BY PathIs
  <2>2. QED
    BY <1>1, <1>3, <2>1, BuildEndStep DEF MoveIn
<1>4. CASE bld[b].had /\ BuildEnds(b)
           /\ fs' = Put(Without({StagePath(b), BackupPath(b)}), OutPath, fs[BackupPath(b)])
  <2> DEFINE w == Without({StagePath(b), BackupPath(b)})
             dir == fs[BackupPath(b)]
  <2>1. /\ DOMAIN w = DOMAIN fs \ {StagePath(b), BackupPath(b)}
        /\ \A path \in DOMAIN w : w[path] = fs[path]
    BY WithoutIs
  <2>2. fs' = Put(w, OutPath, dir)
    BY <1>4
  <2>3. DirOK(OutPath, dir)
    <3>1. BackupPath(b) \in DOMAIN fs
      BY <1>1, <1>4 DEF BuildOK, Exists
    <3>2. Whole(dir)
      BY <3>1, PathIs DEF IInv, FsInv, DirOK, Public
    <3>3. QED
      BY <3>2, PathIs, PathsAre, WholeIsOK
  <2> HIDE DEF w, dir
  <2>4. /\ DOMAIN fs' = DOMAIN w \cup {OutPath} /\ fs'[OutPath] = dir
        /\ \A path \in DOMAIN w : path # OutPath => fs'[path] = fs[path]
    BY <2>1, <2>2 DEF Put
  <2>5. ASSUME NEW path \in DOMAIN fs' PROVE DirOK(path, fs'[path])
    BY <2>1, <2>3, <2>4 DEF IInv, FsInv
  <2>6. \A path \in Paths : path[1] \in {"managed", "incoming"} => Same(path)
    BY <2>1, <2>4, PathIs DEF Same
  <2>7. \A c \in Builders : c # b /\ BackupPath(c) \in DOMAIN fs => BackupPath(c) \in DOMAIN fs'
    BY <2>1, <2>4, PathIs
  <2>8. bld' = [bld EXCEPT ![b] = IdleBuild] /\ IdleBuild \in BuildState /\ IdleBuild.pc = "idle"
    BY <1>4, BuildStates DEF BuildEnds
  <2>9. QED
    BY <1>1, <2>4, <2>5, <2>6, <2>7, <2>8, BuildStep
<1>5. QED
  BY <1>2, <1>3, <1>4 DEF MoveIn

LEMMA StartBuildKeeps ==
  ASSUME IInv, Meets, NEW b \in Builders, StartBuild(b)
  PROVE  IInv'
<1>1. PICK id \in Ids, source \in Sources :
         bld' = [bld EXCEPT ![b] = [pc |-> "stage", id |-> id, source |-> source, had |-> FALSE]]
  BY DEF StartBuild
<1> DEFINE q == [pc |-> "stage", id |-> id, source |-> source, had |-> FALSE]
<1>2. q \in BuildState /\ q.pc = "stage" /\ q.id \in Ids /\ q.source \in Sources
  BY DEF BuildState
<1>3. bld' = [bld EXCEPT ![b] = q]
  BY <1>1
<1> HIDE DEF q
<1>4. /\ UNCHANGED <<fs, remote, manifests, head, act, install>>
      /\ bld[b].pc = "idle" /\ commands' \in 0 .. MaxCommands
  BY InstallsAssumption DEF IInv, StartBuild
<1>5. ASSUME NEW path \in DOMAIN fs' PROVE DirOK(path, fs'[path])
  BY <1>4 DEF IInv, FsInv
<1>6. QED
  BY <1>2, <1>3, <1>4, <1>5, BuildStep DEF Same

LEMMA BuildKeeps ==
  ASSUME IInv, Meets, NEW b \in Builders, Build(b)
  PROVE  IInv'
BY StartBuildKeeps, StageKeeps, MoveAsideKeeps, MoveInKeeps, DropBackupKeeps, BuildDiesKeeps DEF Build

-------------------------------------------------------------------------------
(* Activations *)

Outcomes == {"none", "corrupt file", "different manifest"}

LEMMA IdleStates ==
  /\ \A o \in Outcomes :
        /\ [IdleActivation EXCEPT !.outcome = o] \in ActState
        /\ [IdleActivation EXCEPT !.outcome = o].pc = "idle"
        /\ [IdleActivation EXCEPT !.outcome = o].outcome = o
  /\ \A path \in Args :
        /\ [IdleActivation EXCEPT !.pc = "verify", !.arg = path] \in ActState
        /\ [IdleActivation EXCEPT !.pc = "verify", !.arg = path].pc = "verify"
  /\ IdleActivation \in ActState /\ IdleActivation.pc = "idle" /\ IdleActivation.outcome = "none"
<1>1. <<>> \in Seq(Names) /\ OutPath \in Args
  BY DEF Args
<1>2. IdleActivation \in ActState /\ IdleActivation.pc = "idle" /\ IdleActivation.outcome = "none"
  BY <1>1 DEF IdleActivation, ActState
<1>3. ASSUME NEW o \in Outcomes
      PROVE  /\ [IdleActivation EXCEPT !.outcome = o] \in ActState
             /\ [IdleActivation EXCEPT !.outcome = o].pc = "idle"
             /\ [IdleActivation EXCEPT !.outcome = o].outcome = o
  BY <1>2 DEF ActState, Outcomes
<1>4. ASSUME NEW path \in Args
      PROVE  /\ [IdleActivation EXCEPT !.pc = "verify", !.arg = path] \in ActState
             /\ [IdleActivation EXCEPT !.pc = "verify", !.arg = path].pc = "verify"
  BY <1>2 DEF ActState
<1>5. QED
  BY <1>2, <1>3, <1>4

LEMMA SteppedStates ==
  ASSUME NEW q \in ActState, NEW pc \in Verified
  PROVE  LET r == [q EXCEPT !.pc = pc] IN
         r \in ActState /\ r.pc = pc /\ r.arg = q.arg /\ r.man = q.man /\ r.todo = q.todo
BY DEF ActState

WithRelease(q, pc, man, todo) == [q EXCEPT !.pc = pc, !.man = man, !.todo = todo]

LEMMA VerifiedStates ==
  ASSUME NEW q \in ActState, NEW pc \in Verified, NEW man \in Manifests, NEW todo \in Seq(Names)
  PROVE  LET r == WithRelease(q, pc, man, todo) IN
         r \in ActState /\ r.pc = pc /\ r.arg = q.arg /\ r.man = man /\ r.todo = todo
BY DEF ActState, WithRelease

LEMMA ShortenedStates ==
  ASSUME NEW q \in ActState, NEW todo \in Seq(Names)
  PROVE  LET r == [q EXCEPT !.todo = todo] IN
         r \in ActState /\ r.pc = q.pc /\ r.arg = q.arg /\ r.man = q.man /\ r.todo = todo
BY DEF ActState

LEMMA CopyingStates ==
  ASSUME NEW q \in ActState, NEW left \in SUBSET (Names \cup {RELEASE_MANIFEST_FILE})
  PROVE  LET r == [q EXCEPT !.pc = Copying(left), !.left = left] IN
         /\ r \in ActState /\ r.arg = q.arg /\ r.man = q.man /\ r.left = left
         /\ r.pc = IF left = {} THEN "place" ELSE "copy"
<1>1. Copying(left) \in {"place", "copy"} /\ Copying(left) = IF left = {} THEN "place" ELSE "copy"
  BY DEF Copying
<1>2. QED
  BY <1>1 DEF ActState, Verified, Installing

LEMMA SealStates ==
  ASSUME NEW q \in ActState, NEW local \in Manifests
  PROVE  LET r == [q EXCEPT !.pc = "seal", !.local = local] IN
         r \in ActState /\ r.pc = "seal" /\ r.arg = q.arg /\ r.man = q.man
BY DEF ActState, Verified, Uploading

LEMMA ReadStates ==
  ASSUME NEW q \in ActState, NEW seen \in Nat
  PROVE  LET r == [q EXCEPT !.pc = "swap", !.seen = seen] IN
         r \in ActState /\ r.pc = "swap" /\ r.arg = q.arg /\ r.man = q.man
BY DEF ActState, Verified

\* What the activation a found, when it acts.
LEMMA ActIs ==
  ASSUME IInv, NEW a \in Activators
  PROVE  /\ act[a] \in ActState /\ ActOK(a) /\ act \in [Activators -> ActState]
         /\ \A q : act' = [act EXCEPT ![a] = q] => act'[a] = q
         /\ act[a].pc \in Verified =>
               act[a].man \in Manifests /\ act[a].man.id \in Ids /\ act[a].man.source \in Sources
<1>1. act[a] \in ActState /\ ActOK(a) /\ act \in [Activators -> ActState]
  BY DEF IInv, ActsInv
<1>2. act[a].pc \in Verified => act[a].man \in Manifests
  BY <1>1 DEF ActOK, ArgOK
<1>3. QED
  BY <1>1, <1>2 DEF Manifests

\* One activation moves.  Of the file system it leaves the backups, the releases
\* that were installed, and the copies that are not its own.
LEMMA ActStep ==
  ASSUME IInv, Meets, NEW a \in Activators, NEW q \in ActState, act' = [act EXCEPT ![a] = q],
         UNCHANGED <<bld, install>>, commands' \in 0 .. MaxCommands,
         \A path \in DOMAIN fs' : DirOK(path, fs'[path]),
         StoreKept,
         \A id \in Ids : id # act[a].man.id \/ act[a].pc \notin FallingBack => Same(IncomingPath(id)),
         \A b \in Builders : BackupPath(b) \in DOMAIN fs => BackupPath(b) \in DOMAIN fs',
         DOMAIN remote \subseteq DOMAIN remote', DOMAIN manifests \subseteq DOMAIN manifests',
         KeptInv', RemoteInv', ManifestsInv', HeadInv', ActOK(a)'
  PROVE  IInv'
<1>1. /\ act \in [Activators -> ActState] /\ act'[a] = q
      /\ act' \in [Activators -> ActState] /\ \A c \in Activators : c # a => act'[c] = act[c]
  BY DEF IInv, ActsInv
<1>2. FsInv' /\ MeetInv'
  BY DirsKeep, MeetsIs DEF IInv
<1>3. BuildsInv'
  BY DEF IInv, BuildsInv, BuildOK, Exists
<1>4. ASSUME NEW c \in Activators, c # a PROVE ActOK(c)'
  <2>1. act'[c] = act[c] /\ act[c] \in ActState
    BY <1>1, <1>4
  <2>2. ASSUME act[c].pc \in FallingBack, act[c].man.id \in Ids \ crossed PROVE Same(Incoming(c))
    <3>1. act[a].pc \in FallingBack => act[a].man.id # act[c].man.id
      BY <1>4, <2>2, CopiesAlone
    <3>2. QED
      BY <2>2, <3>1 DEF Incoming
  <2>3. QED
    BY <2>1, <2>2, OthersKeep
<1>5. ActsInv'
  BY <1>1, <1>4 DEF ActsInv
<1>6. install' \in Installs
  BY DEF IInv
<1>7. QED
  BY <1>2, <1>3, <1>5, <1>6 DEF IInv

\* The file system stays; S3 may grow.
LEMMA GrowStep ==
  ASSUME IInv, Meets, NEW a \in Activators, NEW q \in ActState, act' = [act EXCEPT ![a] = q],
         UNCHANGED <<fs, bld, install>>, commands' \in 0 .. MaxCommands,
         DOMAIN remote \subseteq DOMAIN remote', DOMAIN manifests \subseteq DOMAIN manifests',
         RemoteInv', ManifestsInv', HeadInv', ActOK(a)'
  PROVE  IInv'
<1>1. \A path \in DOMAIN fs' : DirOK(path, fs'[path])
  BY DEF IInv, FsInv
<1>2. StoreKept /\ \A path : Same(path)
  BY DEF StoreKept, Exists, Same
<1>3. KeptInv'
  BY DEF IInv, KeptInv, Exists, Whole
<1>4. QED
  BY <1>1, <1>2, <1>3, ActStep

\* Nothing changes but the activation and the count of the commands.
LEMMA QuietStep ==
  ASSUME IInv, Meets, NEW a \in Activators, NEW q \in ActState, act' = [act EXCEPT ![a] = q],
         UNCHANGED <<fs, remote, manifests, head, bld, install>>, commands' \in 0 .. MaxCommands,
         ActOK(a)'
  PROVE  IInv'
<1>1. StoreKept
  BY DEF StoreKept, Exists
<1>2. RemoteInv' /\ ManifestsInv' /\ HeadInv'
  BY <1>1, RemoteKeeps, HeadKeeps
<1>3. QED
  BY <1>2, GrowStep

\* What a report leaves.
LEMMA ReportIs ==
  ASSUME IInv, NEW a \in Activators, NEW o \in Outcomes, Reported(a, o)
  PROVE  \E q \in ActState : act' = [act EXCEPT ![a] = q] /\ q.pc = "idle" /\ ActOK(a)'
<1> DEFINE q == [IdleActivation EXCEPT !.outcome = o]
<1>1. q \in ActState /\ q.pc = "idle"
  BY IdleStates
<1>2. act' = [act EXCEPT ![a] = q]
  BY DEF Reported
<1> HIDE DEF q
<1>3. ActOK(a)'
  BY <1>1, <1>2, ActIs, IdleActWillBeOK
<1>4. QED
  BY <1>1, <1>2, <1>3

LEMMA FinishIs == ASSUME NEW a, Finish(a) PROVE Reported(a, "none") /\ "none" \in Outcomes
BY DEF Finish, Outcomes

LEMMA FinishStep ==
  ASSUME IInv, Meets, NEW a \in Activators, NEW o \in Outcomes, Reported(a, o),
         UNCHANGED <<fs, remote, manifests, head, bld, install, commands>>
  PROVE  IInv'
<1>1. commands' \in 0 .. MaxCommands
  BY DEF IInv
<1>2. QED
  BY <1>1, ReportIs, QuietStep

LEMMA StartActivationKeeps ==
  ASSUME IInv, Meets, NEW a \in Activators, StartActivation(a)
  PROVE  IInv'
<1>1. PICK path \in Args : act' = [act EXCEPT ![a] = [IdleActivation EXCEPT !.pc = "verify", !.arg = path]]
  BY DEF StartActivation, Args
<1> DEFINE q == [IdleActivation EXCEPT !.pc = "verify", !.arg = path]
<1>2. q \in ActState /\ q.pc = "verify"
  BY IdleStates
<1>3. act' = [act EXCEPT ![a] = q]
  BY <1>1
<1> HIDE DEF q
<1>4. ActOK(a)'
  BY <1>2, <1>3, ActIs, IdleActWillBeOK
<1>5. /\ UNCHANGED <<fs, remote, manifests, head, bld, install>>
      /\ commands' \in 0 .. MaxCommands
  BY InstallsAssumption DEF IInv, StartActivation
<1>6. QED
  BY <1>2, <1>3, <1>4, <1>5, QuietStep

LEMMA VerifyReleaseKeeps ==
  ASSUME IInv, Meets, NEW a \in Activators, VerifyRelease(a)
  PROVE  IInv'
<1>1. /\ act[a].pc = "verify" /\ commands' \in 0 .. MaxCommands
      /\ UNCHANGED <<fs, remote, manifests, head, bld, install, commands>>
  BY DEF VerifyRelease, IInv
<1>2. CASE Finish(a)
  BY <1>1, <1>2, FinishIs, FinishStep
<1>3. ASSUME Exists(act[a].arg), VerifiedDir(fs[act[a].arg]), ~Finish(a) PROVE IInv'
  <2> DEFINE path == act[a].arg
             man == fs[path].manifest
             pc == IF install = "s3" THEN "upload" ELSE "check"
             todo == release_output_files(man.id.version)
             q == WithRelease(act[a], pc, man, todo)
  <2>1. path \in DOMAIN fs /\ path \in Args /\ act[a] \in ActState /\ act \in [Activators -> ActState]
    BY <1>3, ActIs DEF Exists, ActState
  <2>2. man \in Manifests /\ man.id \in Ids
    BY <1>3, <2>1, VerifiedWhole DEF IInv, Whole, Manifests
  <2>3. todo \in Seq(Names) /\ Range(todo) = FilesOf(man.id)
    BY <2>2, FilesAre DEF FilesOf
  <2>4. pc \in Verified /\ (pc = "upload" <=> install = "s3") /\ (pc = "check" <=> install # "s3")
    BY DEF Verified, Installing, Uploading
  <2>5. act' = [act EXCEPT ![a] = q]
    BY <1>3, <2>1 DEF VerifyRelease, WithRelease
  <2>6. path # OutPath /\ path[2] \notin crossed => man.id = path[2]
    <3>1. SUFFICES ASSUME path # OutPath, path[2] \notin crossed PROVE man.id = path[2]
      OBVIOUS
    <3>2. path[1] = "managed"
      BY <2>1, <3>1, PathIs DEF Args
    <3>3. QED
      BY <2>1, <3>1, <3>2 DEF IInv, FsInv, DirOK
  <2> HIDE DEF pc, todo, man
  <2>7. q \in ActState /\ q.pc = pc /\ q.arg = path /\ q.man = man /\ q.todo = todo
    BY <2>1, <2>2, <2>3, <2>4, VerifiedStates
  <2> HIDE DEF q
  <2>8. act'[a] = q
    BY <2>5, ActIs
  <2>9. ActOK(a)'
    <3>1. pc = "upload" \/ pc = "check"
      BY <2>4
    <3>2. crossed \subseteq crossed'
      BY MeetsIs DEF IInv
    <3>3. ArgOK(a)'
      BY <1>1, <2>1, <2>2, <2>6, <2>7, <2>8, <3>1, <3>2 DEF ArgOK, Exists, Installing
    <3>4. UploadOK(a)'
      BY <1>1, <2>3, <2>4, <2>7, <2>8, <3>1 DEF UploadOK, Installing, Uploading
    <3>5. CopyOK(a)'
      BY <2>7, <2>8, <3>1 DEF CopyOK
    <3>6. QED
      BY <3>3, <3>4, <3>5 DEF ActOK
  <2>10. QED
    BY <1>1, <2>5, <2>7, <2>9, QuietStep
<1>4. QED
  BY <1>2, <1>3 DEF VerifyRelease

\* A managed release that was not crossed is never moved or copied.
LEMMA ArgStays ==
  ASSUME IInv, Meets, NEW a \in Activators, act[a].pc \in Verified \ {"check"},
         act[a].pc \in Installing \/ act'[a].pc \notin Installing,
         act'[a].pc \in Verified, act'[a].arg = act[a].arg, act'[a].man = act[a].man
  PROVE  ArgOK(a)'
<1>1. crossed \subseteq crossed'
  BY MeetsIs DEF IInv
<1>2. ArgOK(a)
  BY ActIs DEF ActOK
<1>3. QED
  BY <1>1, <1>2 DEF ArgOK, Verified

LEMMA CheckInstalledKeeps ==
  ASSUME IInv, Meets, NEW a \in Activators, CheckInstalled(a)
  PROVE  IInv'
<1> DEFINE pc == IF Exists(Target(a)) THEN "read" ELSE "rename"
           q == [act[a] EXCEPT !.pc = pc]
<1>1. /\ act[a].pc = "check" /\ act' = [act EXCEPT ![a] = q] /\ commands' \in 0 .. MaxCommands
      /\ UNCHANGED <<fs, remote, manifests, head, bld, install, commands>>
  BY ActIs DEF CheckInstalled, Step, IInv
<1>2. /\ act[a] \in ActState /\ ArgOK(a) /\ UploadOK(a)
      /\ act[a].man \in Manifests /\ act[a].man.id \in Ids
  BY <1>1, ActIs DEF ActOK, Verified, Installing
<1>3. pc \in Verified /\ (pc = "read" <=> Exists(Target(a))) /\ (pc = "rename" <=> ~Exists(Target(a)))
  BY DEF Verified, Installing
<1>4. pc = "rename" => act[a].arg = OutPath \/ act[a].arg[2] \in crossed
  <2>1. SUFFICES ASSUME pc = "rename", act[a].arg # OutPath, act[a].arg[2] \notin crossed PROVE FALSE
    OBVIOUS
  <2>2. PICK id \in Ids : act[a].arg = ManagedPath(id)
    BY <1>2, <2>1 DEF ActState, Args
  <2>3. Exists(ManagedPath(id)) /\ act[a].man.id = id
    BY <1>1, <1>2, <2>1, <2>2, PathIs DEF ArgOK, Installing
  <2>4. QED
    BY <1>3, <2>1, <2>3 DEF Target
<1> HIDE DEF pc
<1>5. q \in ActState /\ q.pc = pc /\ q.arg = act[a].arg /\ q.man = act[a].man
  BY <1>2, <1>3, SteppedStates
<1> HIDE DEF q
<1>6. act'[a] = q
  BY <1>1, ActIs
<1>7. ActOK(a)'
  <2>1. pc = "read" \/ pc = "rename"
    BY <1>3
  <2>2. crossed \subseteq crossed'
    BY MeetsIs DEF IInv
  <2>3. ArgOK(a)'
    BY <1>2, <1>4, <1>5, <1>6, <2>1, <2>2 DEF ArgOK, Installing
  <2>4. UploadOK(a)'
    BY <1>1, <1>2, <1>3, <1>5, <1>6, <2>1 DEF UploadOK, Installed, Exists, Target, Installing, Uploading
  <2>5. CopyOK(a)'
    BY <1>5, <1>6, <2>1 DEF CopyOK
  <2>6. QED
    BY <2>3, <2>4, <2>5 DEF ActOK
<1>8. QED
  BY <1>1, <1>5, <1>7, QuietStep

LEMMA ReadPointerKeeps ==
  ASSUME IInv, Meets, NEW a \in Activators, ReadPointer(a)
  PROVE  IInv'
<1> DEFINE q == [act[a] EXCEPT !.pc = "swap", !.seen = head.stamp]
<1>1. /\ act[a].pc = "read" /\ act' = [act EXCEPT ![a] = q] /\ commands' \in 0 .. MaxCommands
      /\ UNCHANGED <<fs, remote, manifests, head, bld, install, commands>>
  BY ActIs DEF ReadPointer, IInv
<1>2. act[a] \in ActState /\ UploadOK(a)
  BY <1>1, ActIs DEF ActOK
<1>3. q \in ActState /\ q.pc = "swap" /\ q.arg = act[a].arg /\ q.man = act[a].man
  BY <1>2, ReadStates DEF IInv, HeadInv
<1> HIDE DEF q
<1>4. act'[a] = q /\ crossed \subseteq crossed'
  BY <1>1, ActIs, MeetsIs DEF IInv
<1>5. ArgOK(a)' /\ CopyOK(a)'
  BY <1>1, <1>3, <1>4, ArgStays DEF CopyOK, Installing, Verified
<1>6. UploadOK(a)'
  BY <1>1, <1>2, <1>3, <1>4 DEF UploadOK, Installed, Exists, Installing, Uploading
<1>7. QED
  BY <1>1, <1>3, <1>5, <1>6, QuietStep DEF ActOK

LEMMA SwapPointerKeeps ==
  ASSUME IInv, Meets, NEW a \in Activators, SwapPointer(a)
  PROVE  IInv'
<1>1. /\ act[a].pc = "swap" /\ Finish(a) /\ commands' \in 0 .. MaxCommands
      /\ UNCHANGED <<fs, remote, manifests, bld, install, commands>>
  BY DEF SwapPointer, IInv
<1>2. CASE UNCHANGED head
  BY <1>1, <1>2, FinishIs, FinishStep
<1>3. CASE head' = [id |-> act[a].man.id, stamp |-> head.stamp + 1]
  <2>1. PICK q \in ActState : act' = [act EXCEPT ![a] = q] /\ ActOK(a)'
    BY <1>1, FinishIs, ReportIs
  <2>2. UploadOK(a) /\ act[a].man.id \in Ids /\ crossed \subseteq crossed'
    BY <1>1, ActIs, MeetsIs DEF ActOK, Verified, IInv
  <2>3. HeadInv'
    BY <1>1, <1>3, <2>2 DEF IInv, HeadInv, UploadOK, Installed, Exists
  <2>4. RemoteInv' /\ ManifestsInv'
    BY <1>1, RemoteKeeps
  <2>5. QED
    BY <1>1, <2>1, <2>3, <2>4, GrowStep
<1>4. QED
  BY <1>2, <1>3 DEF SwapPointer

LEMMA ActivationDiesKeeps ==
  ASSUME IInv, Meets, NEW a \in Activators, ActivationDies(a)
  PROVE  IInv'
BY FinishIs, FinishStep DEF ActivationDies

\* A file is taken off the list of an upload.
ShortOf(q) == [q EXCEPT !.todo = Tail(q.todo)]

LEMMA ShortIs ==
  ASSUME NEW q \in ActState, q.todo # <<>>
  PROVE  /\ ShortOf(q) \in ActState /\ ShortOf(q).pc = q.pc /\ ShortOf(q).arg = q.arg
         /\ ShortOf(q).man = q.man /\ ShortOf(q).todo = Tail(q.todo)
         /\ Range(q.todo) = {Head(q.todo)} \cup Range(Tail(q.todo))
<1>1. q.todo \in Seq(Names)
  BY DEF ActState
<1>2. Tail(q.todo) \in Seq(Names) /\ Range(q.todo) = {Head(q.todo)} \cup Range(Tail(q.todo))
  BY <1>1, RangeOfTail
<1>3. QED
  BY <1>2, ShortenedStates DEF ShortOf

\* An uploaded file is on S3: the upload goes on with the next one.
LEMMA UploadedStep ==
  ASSUME IInv, Meets, NEW a \in Activators, act[a].pc = "upload", act[a].todo # <<>>,
         act' = [act EXCEPT ![a] = ShortOf(act[a])],
         UNCHANGED <<fs, manifests, head, bld, install, commands>>,
         DOMAIN remote' = DOMAIN remote \cup {<<act[a].man.id, Head(act[a].todo)>>},
         RemoteInv'
  PROVE  IInv'
<1> DEFINE q == ShortOf(act[a])
<1>1. act[a] \in ActState /\ UploadOK(a) /\ commands' \in 0 .. MaxCommands
  BY ActIs DEF ActOK, IInv
<1>2. /\ q \in ActState /\ q.pc = "upload" /\ q.arg = act[a].arg /\ q.man = act[a].man
      /\ q.todo = Tail(act[a].todo) /\ Range(act[a].todo) = {Head(act[a].todo)} \cup Range(q.todo)
  BY <1>1, ShortIs
<1> HIDE DEF q
<1>3. act'[a] = q
  BY ActIs DEF q
<1>4. ArgOK(a)' /\ CopyOK(a)'
  BY <1>2, <1>3, ArgStays DEF CopyOK, Installing, Uploading, Verified
<1>5. UploadOK(a)'
  BY <1>1, <1>2, <1>3 DEF UploadOK, Installing, Uploading
<1>6. StoreKept
  BY DEF StoreKept, Exists
<1>7. HeadInv'
  BY <1>6, HeadKeeps
<1>8. ManifestsInv'
  <2>1. crossed \subseteq crossed' /\ \A id : Landed(id) => Landed(id)'
    BY MeetsIs DEF IInv, Landed
  <2>2. QED
    BY <2>1 DEF IInv, ManifestsInv
<1>9. QED
  BY <1>1, <1>2, <1>4, <1>5, <1>7, <1>8, GrowStep DEF ActOK, q

LEMMA UploadFileKeeps ==
  ASSUME IInv, Meets, NEW a \in Activators, UploadFile(a)
  PROVE  IInv'
<1> DEFINE id == act[a].man.id
           name == Head(act[a].todo)
           key == <<id, name>>
<1>1. /\ act[a].pc = "upload" /\ act[a].todo # <<>>
      /\ UNCHANGED <<fs, manifests, head, bld, install, commands>>
  BY DEF UploadFile
<1>2. /\ act[a] \in ActState /\ UploadOK(a) /\ act \in [Activators -> ActState]
      /\ id \in Ids /\ crossed \subseteq crossed'
  BY <1>1, ActIs, MeetsIs DEF ActOK, Verified, Uploading, IInv
<1>3. name \in FilesOf(id) /\ name \in Names
  <2>1. name \in Range(act[a].todo)
    BY <1>1, <1>2, ShortIs
  <2>2. QED
    BY <1>1, <1>2, <2>1, FilesAre DEF UploadOK
<1>4. (act' = [act EXCEPT ![a].todo = Tail(@)]) => act' = [act EXCEPT ![a] = ShortOf(act[a])]
  BY <1>2 DEF ShortOf
<1>5. CASE key \notin DOMAIN remote /\ Exists(act[a].arg)
           /\ remote' = Put(remote, key, fs[act[a].arg].files[name])
           /\ act' = [act EXCEPT ![a].todo = Tail(@)]
  <2> DEFINE file == fs[act[a].arg].files[name]
  <2>1. ASSUME id \notin crossed PROVE \A source \in Sources : file = Bytes(name, id, source)
    <3>1. Whole(fs[act[a].arg]) /\ fs[act[a].arg].manifest.id = id
      BY <1>1, <1>2, <1>5, <2>1, ReadsVerified DEF Reading
    <3>2. file = Bytes(name, id, fs[act[a].arg].manifest.source)
      BY <1>3, <3>1, WholeNames
    <3> HIDE DEF file
    <3>3. QED
      BY <3>2, BytesOfId
  <2> HIDE DEF file
  <2>2. /\ DOMAIN remote' = DOMAIN remote \cup {key} /\ remote'[key] = file
        /\ \A k \in DOMAIN remote : k # key => remote'[k] = remote[k]
    BY <1>5 DEF Put, file
  <2>3. key[1] = id /\ key[2] = name
    OBVIOUS
  <2>4. key \in {<<i, n>> : i \in Ids, n \in Names}
    BY <1>2, <1>3
  <2> HIDE DEF key
  <2>5. RemoteInv'
    BY <1>2, <1>3, <2>1, <2>2, <2>3, <2>4 DEF IInv, RemoteInv
  <2>6. QED
    BY <1>1, <1>4, <1>5, <2>2, <2>5, UploadedStep DEF key
<1>6. CASE key \in DOMAIN remote /\ act' = [act EXCEPT ![a].todo = Tail(@)] /\ UNCHANGED remote
  <2>1. RemoteInv'
    BY <1>1, <1>6, RemoteKeeps
  <2> HIDE DEF key
  <2>2. DOMAIN remote' = DOMAIN remote \cup {key}
    BY <1>6
  <2>3. QED
    BY <1>1, <1>4, <1>6, <2>1, <2>2, UploadedStep DEF key
<1>7. CASE Reported(a, "corrupt file") /\ UNCHANGED remote
  BY <1>1, <1>7, FinishStep DEF Outcomes
<1>8. CASE Finish(a) /\ UNCHANGED remote
  BY <1>1, <1>8, FinishIs, FinishStep
<1>9. QED
  BY <1>5, <1>6, <1>7, <1>8 DEF UploadFile

\* A manifest that is there is one.
LEMMA ManifestIs ==
  ASSUME IInv, NEW path, HasManifest(path)
  PROVE  path \in DOMAIN fs /\ fs[path].manifest \in Manifests
BY VerifiedWhole DEF HasManifest, Exists, IInv

LEMMA ReadLocalManifestKeeps ==
  ASSUME IInv, Meets, NEW a \in Activators, ReadLocalManifest(a)
  PROVE  IInv'
<1>1. /\ act[a].pc = "upload" /\ act[a].todo = <<>> /\ commands' \in 0 .. MaxCommands
      /\ UNCHANGED <<fs, remote, manifests, head, bld, install, commands>>
  BY DEF ReadLocalManifest, IInv
<1>2. CASE Finish(a)
  BY <1>1, <1>2, FinishIs, FinishStep
<1>3. CASE HasManifest(act[a].arg)
           /\ act' = [act EXCEPT ![a].pc = "seal", ![a].local = fs[act[a].arg].manifest]
  <2> DEFINE local == fs[act[a].arg].manifest
             q == [act[a] EXCEPT !.pc = "seal", !.local = local]
  <2>1. /\ act[a] \in ActState /\ UploadOK(a) /\ act \in [Activators -> ActState]
        /\ local \in Manifests
    BY <1>3, ActIs, ManifestIs DEF ActOK
  <2>2. act' = [act EXCEPT ![a] = q]
    BY <1>3, <2>1
  <2> HIDE DEF local
  <2>3. q \in ActState /\ q.pc = "seal" /\ q.arg = act[a].arg /\ q.man = act[a].man
    BY <2>1, SealStates
  <2> HIDE DEF q
  <2>4. act'[a] = q
    BY <2>2, ActIs
  <2>5. ArgOK(a)' /\ CopyOK(a)'
    BY <1>1, <2>3, <2>4, ArgStays DEF CopyOK, Installing, Uploading, Verified
  <2>6. UploadOK(a)'
    <3>1. Landed(act[a].man.id) /\ install = "s3"
      BY <1>1, <2>1, RangeOfEmpty DEF UploadOK, Landed, Uploading
    <3>2. QED
      BY <1>1, <2>3, <2>4, <3>1 DEF UploadOK, Landed, Installing, Uploading
  <2>7. QED
    BY <1>1, <2>2, <2>3, <2>5, <2>6, QuietStep DEF ActOK
<1>4. QED
  BY <1>2, <1>3 DEF ReadLocalManifest

LEMMA UploadManifestKeeps ==
  ASSUME IInv, Meets, NEW a \in Activators, UploadManifest(a)
  PROVE  IInv'
<1> DEFINE id == act[a].man.id
           man == fs[act[a].arg].manifest
           q == [act[a] EXCEPT !.pc = "read"]
<1>1. /\ act[a].pc = "seal" /\ commands' \in 0 .. MaxCommands
      /\ UNCHANGED <<fs, remote, head, bld, install, commands>>
  BY DEF UploadManifest, IInv
<1>2. /\ act[a] \in ActState /\ UploadOK(a) /\ act \in [Activators -> ActState]
      /\ id \in Ids /\ crossed \subseteq crossed'
  BY <1>1, ActIs, MeetsIs DEF ActOK, Verified, Uploading, IInv
<1>3. Landed(id) /\ install = "s3"
  BY <1>1, <1>2 DEF UploadOK, Uploading
<1>4. CASE Reported(a, "different manifest") /\ UNCHANGED manifests
  BY <1>1, <1>4, FinishStep DEF Outcomes
<1>5. CASE Finish(a) /\ UNCHANGED manifests
  BY <1>1, <1>5, FinishIs, FinishStep
<1>6. CASE Step(a, "read") /\ id \in DOMAIN manifests' /\ DOMAIN manifests \subseteq DOMAIN manifests'
           /\ ManifestsInv'
  <2>1. act' = [act EXCEPT ![a] = q]
    BY <1>2, <1>6 DEF Step
  <2>2. q \in ActState /\ q.pc = "read" /\ q.arg = act[a].arg /\ q.man = act[a].man
    BY <1>2, SteppedStates DEF Verified
  <2> HIDE DEF q
  <2>3. act'[a] = q
    BY <2>1, ActIs
  <2>4. ArgOK(a)' /\ CopyOK(a)'
    BY <1>1, <2>2, <2>3, ArgStays DEF CopyOK, Installing, Uploading, Verified
  <2>5. UploadOK(a)'
    BY <1>1, <1>3, <1>6, <2>2, <2>3 DEF UploadOK, Installed, Installing, Uploading
  <2>6. StoreKept
    BY <1>1 DEF StoreKept, Exists
  <2>7. HeadInv'
    BY <1>1, <1>6, <2>6, HeadKeeps
  <2>8. RemoteInv'
    BY <1>1, <1>2 DEF IInv, RemoteInv
  <2>9. QED
    BY <1>1, <1>6, <2>1, <2>2, <2>4, <2>5, <2>7, <2>8, GrowStep DEF ActOK
<1>7. CASE Step(a, "read") /\ HasManifest(act[a].arg) /\ manifests' = Put(manifests, id, man)
  <2>1. man \in Manifests /\ Exists(act[a].arg)
    BY <1>7, ManifestIs DEF Exists
  <2>2. id \notin crossed => man.id = id
    BY <1>1, <1>2, <2>1, ReadsVerified DEF Reading
  <2> HIDE DEF man
  <2>3. /\ DOMAIN manifests' = DOMAIN manifests \cup {id} /\ manifests'[id] = man
        /\ \A i \in DOMAIN manifests : i # id => manifests'[i] = manifests[i]
    BY <1>7 DEF Put
  <2>4. \A i : Landed(i) => Landed(i)'
    BY <1>1 DEF Landed
  <2>5. ManifestsInv'
    BY <1>2, <1>3, <2>1, <2>2, <2>3, <2>4 DEF IInv, ManifestsInv
  <2>6. QED
    BY <1>6, <1>7, <2>3, <2>5
<1>8. CASE Step(a, "read") /\ id \in DOMAIN manifests /\ UNCHANGED manifests
  <2>1. ManifestsInv'
    BY <1>1, <1>8, RemoteKeeps
  <2>2. QED
    BY <1>6, <1>8, <2>1
<1>9. QED
  BY <1>4, <1>5, <1>7, <1>8 DEF UploadManifest

\* A directory goes into the store, and the pointer is next.
LEMMA MoveStep ==
  ASSUME IInv, Meets, NEW a \in Activators, act[a].pc \in {"rename", "place"}, Step(a, "read"),
         UNCHANGED <<remote, manifests, head, bld, install, commands>>,
         NEW from \in Paths, NEW to, to = Target(a),
         from \in DOMAIN fs, to \in DOMAIN fs => fs[to] = EmptyDir, fs' = Moved(from, to),
         from[1] \in {"out", "managed", "incoming"},
         from[1] = "managed" => from[2] \in crossed,
         from[1] = "incoming" => act[a].pc = "place" /\ from[2] = act[a].man.id,
         act[a].man.id \notin crossed => Whole(fs[from]) /\ fs[from].manifest.id = act[a].man.id
  PROVE  IInv'
<1> DEFINE id == act[a].man.id
           q == [act[a] EXCEPT !.pc = "read"]
<1>1. /\ act[a] \in ActState /\ UploadOK(a) /\ act \in [Activators -> ActState]
      /\ id \in Ids /\ crossed \subseteq crossed' /\ commands' \in 0 .. MaxCommands
  BY ActIs, MeetsIs DEF ActOK, Verified, Installing, IInv
<1>2. act' = [act EXCEPT ![a] = q]
  BY <1>1 DEF Step
<1>3. q \in ActState /\ q.pc = "read" /\ q.arg = act[a].arg /\ q.man = act[a].man
  BY <1>1, SteppedStates DEF Verified
<1> HIDE DEF q
<1>4. act'[a] = q
  BY <1>2, ActIs
<1>5. to[1] = "managed" /\ to[2] = id /\ to \in Paths
  BY <1>1, PathIs, PathsAre DEF Target
<1>6. /\ DOMAIN fs' = (DOMAIN fs \ {from}) \cup {to} /\ fs'[to] = fs[from]
      /\ \A path \in DOMAIN fs : path # from /\ path # to => fs'[path] = fs[path]
  BY MovedIs
<1>7. DirOK(to, fs[from])
  <2>1. DirOK(from, fs[from])
    BY DEF IInv, FsInv
  <2>2. QED
    BY <1>5, <2>1 DEF DirOK, Public
<1>8. ASSUME NEW path \in DOMAIN fs' PROVE DirOK(path, fs'[path])
  BY <1>6, <1>7 DEF IInv, FsInv
<1>9. StoreKept
  BY <1>6, PathIs DEF StoreKept, Exists
<1>10. ASSUME NEW i \in Ids, i # id \/ act[a].pc \notin FallingBack PROVE Same(IncomingPath(i))
  <2>1. IncomingPath(i) # to
    BY <1>5, PathIs
  <2>2. IncomingPath(i) # from
    BY <1>10, PathIs DEF FallingBack
  <2>3. QED
    BY <1>6, <2>1, <2>2 DEF Same
<1>11. \A b \in Builders : BackupPath(b) \in DOMAIN fs => BackupPath(b) \in DOMAIN fs'
  BY <1>6, PathIs
<1>12. KeptInv'
  <2>1. ASSUME Exists(OutPath)
        PROVE  OutPath \in DOMAIN fs' \/ \E path \in DOMAIN fs' : path[1] = "managed" /\ Whole(fs'[path])
    <3>1. CASE from # OutPath
      BY <1>6, <2>1, <3>1 DEF Exists
    <3>2. CASE from = OutPath
      <4>1. Whole(fs[from])
        BY <2>1, <3>2, PathIs DEF IInv, FsInv, DirOK, Public, Exists
      <4>2. QED
        BY <1>5, <1>6, <4>1
    <3>3. QED
      BY <3>1, <3>2
  <2>2. ASSUME NEW path \in DOMAIN fs, path[1] = "managed", Whole(fs[path])
        PROVE  \E p \in DOMAIN fs' : p[1] = "managed" /\ Whole(fs'[p])
    <3>1. CASE path = from
      BY <1>5, <1>6, <2>2, <3>1
    <3>2. CASE path # from
      <4>1. path # to
        BY <2>2, EmptyIs
      <4>2. path \in DOMAIN fs' /\ fs'[path] = fs[path]
        BY <1>6, <3>2, <4>1
      <4>3. QED
        BY <2>2, <4>2
    <3>3. QED
      BY <3>1, <3>2
  <2>3. QED
    BY <1>11, <2>1, <2>2 DEF IInv, KeptInv, Exists, Whole
<1>13. RemoteInv' /\ ManifestsInv' /\ HeadInv'
  BY <1>9, RemoteKeeps, HeadKeeps
<1>14. ActOK(a)'
  <2>1. ArgOK(a)' /\ CopyOK(a)'
    BY <1>3, <1>4, ArgStays DEF CopyOK, Installing, Uploading, Verified
  <2>2. UploadOK(a)'
    <3>1. install # "s3" /\ ManagedPath(id) \in DOMAIN fs'
      BY <1>1, <1>6 DEF UploadOK, Installing, Target
    <3>2. QED
      BY <1>3, <1>4, <3>1 DEF UploadOK, Installed, Exists, Installing, Uploading
  <2>3. QED
    BY <2>1, <2>2 DEF ActOK
<1>15. QED
  BY <1>1, <1>2, <1>3, <1>8, <1>9, <1>10, <1>11, <1>12, <1>13, <1>14, ActStep

\* A step that only touches the staging directory of the copy.
LEMMA IncomingStep ==
  ASSUME IInv, Meets, NEW a \in Activators, act[a].pc \in FallingBack,
         NEW q \in ActState, act' = [act EXCEPT ![a] = q],
         UNCHANGED <<remote, manifests, head, bld, install, commands>>,
         DOMAIN fs' \subseteq DOMAIN fs \cup {Incoming(a)},
         Incoming(a) \in DOMAIN fs' => DirOK(Incoming(a), fs'[Incoming(a)]),
         \A path \in DOMAIN fs : path # Incoming(a) => path \in DOMAIN fs' /\ fs'[path] = fs[path],
         ActOK(a)'
  PROVE  IInv'
<1> DEFINE mine == Incoming(a)
<1>1. mine[1] = "incoming" /\ mine[2] = act[a].man.id
  BY PathIs DEF Incoming
<1>2. ASSUME NEW path \in DOMAIN fs' PROVE DirOK(path, fs'[path])
  BY DEF IInv, FsInv
<1>3. \A path : path # mine => Same(path)
  BY DEF Same
<1> HIDE DEF mine
<1>4. StoreKept
  BY <1>1, <1>3, PathIs DEF StoreKept, Same, Exists
<1>5. \A id \in Ids : id # act[a].man.id => Same(IncomingPath(id))
  BY <1>1, <1>3, PathIs
<1>6. \A b \in Builders : BackupPath(b) \in DOMAIN fs => BackupPath(b) \in DOMAIN fs'
  BY <1>1, <1>3, PathIs DEF Same
<1>7. KeptInv'
  <2>1. Exists(OutPath) => OutPath \in DOMAIN fs'
    BY <1>1, <1>3, PathIs DEF Same, Exists
  <2>2. \A path \in DOMAIN fs : path[1] = "managed" => path \in DOMAIN fs' /\ fs'[path] = fs[path]
    BY <1>1, <1>3 DEF Same
  <2>3. QED
    BY <1>6, <2>1, <2>2 DEF IInv, KeptInv, Exists, Whole
<1>8. RemoteInv' /\ ManifestsInv' /\ HeadInv'
  BY <1>4, RemoteKeeps, HeadKeeps
<1>9. commands' \in 0 .. MaxCommands
  BY DEF IInv
<1>10. QED
  BY <1>2, <1>4, <1>5, <1>6, <1>7, <1>8, <1>9, ActStep

LEMMA RenameIntoStoreKeeps ==
  ASSUME IInv, Meets, NEW a \in Activators, RenameIntoStore(a)
  PROVE  IInv'
<1>1. act[a].pc = "rename" /\ UNCHANGED <<remote, manifests, head, bld, install, commands>>
      /\ commands' \in 0 .. MaxCommands
  BY DEF RenameIntoStore, IInv
<1>2. /\ act[a] \in ActState /\ ArgOK(a) /\ UploadOK(a) /\ act \in [Activators -> ActState]
      /\ act[a].man.id \in Ids /\ act[a].arg \in Args
  BY <1>1, ActIs DEF ActOK, Verified, Installing, ActState
<1>3. CASE Renames(act[a].arg, Target(a)) /\ Step(a, "read") /\ fs' = Moved(act[a].arg, Target(a))
  <2>1. PICK from, to : from = act[a].arg /\ to = Target(a)
    OBVIOUS
  <2>2. from \in Paths /\ from[1] \in {"out", "managed"}
    BY <1>2, <2>1, PathIs, PathsAre DEF Args
  <2>3. from[1] = "managed" => from[2] \in crossed
    BY <1>1, <1>2, <2>1, PathIs DEF ArgOK, Installing
  <2>4. from \in DOMAIN fs /\ (to \in DOMAIN fs => fs[to] = EmptyDir)
    BY <1>3, <2>1 DEF Renames, Exists
  <2>5. act[a].man.id \notin crossed => Whole(fs[from]) /\ fs[from].manifest.id = act[a].man.id
    BY <1>1, <1>2, <2>1, <2>4, ReadsVerified DEF Reading, Exists
  <2>6. Step(a, "read") /\ fs' = Moved(from, to)
    BY <1>3, <2>1
  <2>7. QED
    BY <1>1, <2>1, <2>2, <2>3, <2>4, <2>5, <2>6, MoveStep
<1>4. CASE Step(a, "clear") /\ UNCHANGED fs
  <2> DEFINE q == [act[a] EXCEPT !.pc = "clear"]
  <2>1. act' = [act EXCEPT ![a] = q]
    BY <1>2, <1>4 DEF Step
  <2>2. q \in ActState /\ q.pc = "clear" /\ q.arg = act[a].arg /\ q.man = act[a].man
    BY <1>2, SteppedStates DEF Verified, Installing
  <2> HIDE DEF q
  <2>3. act'[a] = q
    BY <2>1, ActIs
  <2>4. ArgOK(a)' /\ CopyOK(a)'
    BY <1>1, <2>2, <2>3, ArgStays DEF CopyOK, Installing, Verified
  <2>5. UploadOK(a)'
    BY <1>1, <1>2, <2>2, <2>3 DEF UploadOK, Installing, Uploading
  <2>6. QED
    BY <1>1, <1>4, <2>1, <2>2, <2>4, <2>5, QuietStep DEF ActOK
<1>5. QED
  BY <1>3, <1>4 DEF RenameIntoStore

\* What stays of a directory.
LEMMA PartIs ==
  ASSUME NEW path \in Paths, path[1] = "incoming", NEW dir, DirOK(path, dir), NEW names
  PROVE  DirOK(path, Part(dir, names))
<1>1. DOMAIN Part(dir, names).files \subseteq DOMAIN dir.files
  BY DEF Part, Restrict
<1>2. Part(dir, names).manifest \in {dir.manifest, NoManifest}
  BY DEF Part
<1>3. QED
  BY <1>1, <1>2 DEF DirOK, Public

LEMMA ClearIncomingKeeps ==
  ASSUME IInv, Meets, NEW a \in Activators, ClearIncoming(a)
  PROVE  IInv'
<1> DEFINE mine == Incoming(a)
<1>1. act[a].pc = "clear" /\ UNCHANGED <<remote, manifests, head, bld, install, commands>>
  BY DEF ClearIncoming
<1>2. /\ act[a] \in ActState /\ UploadOK(a) /\ act \in [Activators -> ActState] /\ act[a].man.id \in Ids
  BY <1>1, ActIs DEF ActOK, Verified, Installing
<1>3. mine[1] = "incoming" /\ mine \in Paths
  BY <1>2, PathIs, PathsAre DEF Incoming
<1>4. CASE fs' = Without({mine}) /\ Step(a, "create")
  <2> DEFINE q == [act[a] EXCEPT !.pc = "create"]
  <2>1. act' = [act EXCEPT ![a] = q]
    BY <1>2, <1>4 DEF Step
  <2>2. q \in ActState /\ q.pc = "create" /\ q.arg = act[a].arg /\ q.man = act[a].man
    BY <1>2, SteppedStates DEF Verified, Installing
  <2> HIDE DEF q
  <2>3. act'[a] = q
    BY <2>1, ActIs
  <2>4. DOMAIN fs' = DOMAIN fs \ {mine} /\ \A path \in DOMAIN fs \ {mine} : fs'[path] = fs[path]
    BY <1>4, WithoutIs
  <2>5. CopyOK(a)'
    <3>1. ~Exists(Incoming(a))'
      BY <2>2, <2>3, <2>4 DEF Exists, Incoming
    <3>2. QED
      BY <2>2, <2>3, <3>1 DEF CopyOK
  <2>6. ArgOK(a)'
    BY <1>1, <2>2, <2>3, ArgStays DEF Installing, Verified
  <2>7. UploadOK(a)'
    BY <1>1, <1>2, <2>2, <2>3 DEF UploadOK, Installing, Uploading
  <2>8. QED
    BY <1>1, <2>1, <2>2, <2>4, <2>5, <2>6, <2>7, IncomingStep DEF ActOK, FallingBack
<1>5. ASSUME NEW names, mine \in DOMAIN fs, fs' = [fs EXCEPT ![mine] = Part(@, names)], Finish(a)
      PROVE  IInv'
  <2>1. PICK q \in ActState : act' = [act EXCEPT ![a] = q] /\ ActOK(a)'
    BY <1>5, FinishIs, ReportIs
  <2>2. DirOK(mine, Part(fs[mine], names))
    BY <1>3, <1>5, PartIs DEF IInv, FsInv
  <2>3. /\ DOMAIN fs' = DOMAIN fs /\ fs'[mine] = Part(fs[mine], names)
        /\ \A path \in DOMAIN fs : path # mine => fs'[path] = fs[path]
    BY <1>5
  <2>4. QED
    BY <1>1, <1>5, <2>1, <2>2, <2>3, IncomingStep DEF FallingBack
<1>6. QED
  BY <1>4, <1>5 DEF ClearIncoming, Exists

\* A copy begins with everything left.
LEMMA PartialBegins ==
  ASSUME NEW dir, Whole(dir)
  PROVE  Partial(EmptyDir, Entries(dir), dir.manifest.id) /\ Entries(dir) # {}
BY WholeNames, EmptyIs DEF Partial

\* Nothing is left: the copy is the release.
LEMMA PartialDone ==
  ASSUME NEW id \in Ids, NEW dir, Partial(dir, {}, id)
  PROVE  Whole(dir) /\ dir.manifest.id = id
<1>1. dir.manifest \in Manifests /\ dir.manifest.id = id
  BY DEF Partial
<1>2. DOMAIN dir.files = FilesOf(id)
  BY DEF Partial
<1>3. dir.files # <<>>
  <2>1. DOMAIN EmptyDir.files = {} /\ EmptyDir.files = <<>> /\ "turbo_static.bin" \in FilesOf(id)
    BY EmptyIs, FilesAre
  <2>2. QED
    BY <1>2, <2>1
<1>4. dir.files = [n \in FilesOf(id) |-> Bytes(n, id, NoSource)]
  BY <1>2, <1>3 DEF Partial
<1>5. dir.files = Outputs(id, dir.manifest.source)
  <2>1. Outputs(id, dir.manifest.source) = [n \in FilesOf(id) |-> Bytes(n, id, dir.manifest.source)]
    BY DEF Outputs, FilesOf
  <2>2. \A n : Bytes(n, id, dir.manifest.source) = Bytes(n, id, NoSource)
    BY BytesOfId
  <2>3. QED
    BY <1>4, <2>1, <2>2
<1>6. QED
  BY <1>1, <1>5 DEF Whole

\* The copy takes one more entry of the release.
WithManifest(dst, src) == [files |-> dst.files, manifest |-> src.manifest]
WithFile(dst, src, name) == [files |-> Put(dst.files, name, src.files[name]), manifest |-> dst.manifest]

LEMMA WithFileIs ==
  ASSUME NEW dst, NEW src, NEW name
  PROVE  /\ WithFile(dst, src, name).files = Put(dst.files, name, src.files[name])
         /\ WithFile(dst, src, name).manifest = dst.manifest
         /\ DOMAIN WithFile(dst, src, name).files = DOMAIN dst.files \cup {name}
BY DEF WithFile, Put

LEMMA PartialGoesOn ==
  ASSUME NEW id \in Ids, NEW dst, NEW left, Partial(dst, left, id),
         NEW src, Whole(src), src.manifest.id = id, NEW name \in left
  PROVE  /\ name = RELEASE_MANIFEST_FILE => Partial(WithManifest(dst, src), left \ {name}, id)
         /\ name # RELEASE_MANIFEST_FILE => Partial(WithFile(dst, src, name), left \ {name}, id)
<1>1. FilesOf(id) \subseteq Names /\ RELEASE_MANIFEST_FILE \notin FilesOf(id)
  BY FilesAre, ManifestNoFile
<1>2. ASSUME name = RELEASE_MANIFEST_FILE PROVE Partial(WithManifest(dst, src), left \ {name}, id)
  BY <1>1, <1>2 DEF Partial, WithManifest, Whole
<1>3. ASSUME name # RELEASE_MANIFEST_FILE PROVE Partial(WithFile(dst, src, name), left \ {name}, id)
  <2> DEFINE dir == WithFile(dst, src, name)
             file == src.files[name]
  <2>1. name \in FilesOf(id)
    BY <1>3 DEF Partial
  <2>2. /\ dir.files = Put(dst.files, name, file) /\ dir.manifest = dst.manifest
        /\ DOMAIN dir.files = DOMAIN dst.files \cup {name}
    BY WithFileIs
  <2>3. file = Bytes(name, id, NoSource)
    <3>1. file = Bytes(name, id, src.manifest.source)
      BY <2>1, WholeNames
    <3> HIDE DEF file
    <3>2. QED
      BY <3>1, BytesOfId
  <2>4. \A n \in DOMAIN dst.files : dst.files[n] = Bytes(n, id, NoSource)
    <3>1. CASE dst.files = <<>>
      BY <3>1, EmptyIs
    <3>2. CASE dst.files = [n \in DOMAIN dst.files |-> Bytes(n, id, NoSource)]
      BY <3>2
    <3>3. QED
      BY <3>1, <3>2 DEF Partial
  <2> HIDE DEF dir, file
  <2>5. dir.files = [n \in DOMAIN dir.files |-> Bytes(n, id, NoSource)]
    <3>1. dir.files = [n \in DOMAIN dst.files \cup {name} |-> IF n = name THEN file ELSE dst.files[n]]
      BY <2>2 DEF Put
    <3>2. \A n \in DOMAIN dst.files \cup {name} :
             (IF n = name THEN file ELSE dst.files[n]) = Bytes(n, id, NoSource)
      BY <2>3, <2>4
    <3>3. QED
      BY <2>2, <3>1, <3>2
  <2>6. /\ left \subseteq FilesOf(id) \cup {RELEASE_MANIFEST_FILE}
        /\ DOMAIN dst.files \subseteq FilesOf(id) /\ FilesOf(id) \subseteq DOMAIN dst.files \cup left
        /\ RELEASE_MANIFEST_FILE \in left \/ (dst.manifest \in Manifests /\ dst.manifest.id = id)
    BY DEF Partial
  <2>7. Partial(dir, left \ {name}, id)
    BY <1>3, <2>1, <2>2, <2>5, <2>6 DEF Partial
  <2>8. QED
    BY <2>7 DEF dir
<1>4. QED
  BY <1>2, <1>3

\* What is listed has the names of a release.
LEMMA EntriesAre ==
  ASSUME IInv, NEW path \in DOMAIN fs
  PROVE  /\ Entries(fs[path]) \subseteq Names \cup {RELEASE_MANIFEST_FILE}
         /\ Entries(fs[path]) \ {RELEASE_MANIFEST_FILE} \subseteq DOMAIN fs[path].files
BY DEF IInv, FsInv, DirOK, Entries

LEMMA CreateIncomingKeeps ==
  ASSUME IInv, Meets, NEW a \in Activators, CreateIncoming(a)
  PROVE  IInv'
<1> DEFINE mine == Incoming(a)
           id == act[a].man.id
<1>1. act[a].pc = "create" /\ UNCHANGED <<remote, manifests, head, bld, install, commands>>
  BY DEF CreateIncoming
<1>2. /\ act[a] \in ActState /\ UploadOK(a) /\ CopyOK(a) /\ act \in [Activators -> ActState]
      /\ id \in Ids /\ crossed \subseteq crossed'
  BY <1>1, ActIs, MeetsIs DEF ActOK, Verified, Installing, IInv
<1>3. mine[1] = "incoming" /\ mine \in Paths /\ DirOK(mine, EmptyDir)
  BY <1>2, PathIs, PathsAre, EmptyIs DEF Incoming
<1>4. fs' = IF Exists(mine) THEN fs ELSE Put(fs, mine, EmptyDir)
  BY DEF CreateIncoming
<1>5. /\ DOMAIN fs' = DOMAIN fs \cup {mine}
      /\ mine \notin DOMAIN fs => fs'[mine] = EmptyDir
      /\ mine \in DOMAIN fs => fs'[mine] = fs[mine]
      /\ \A path \in DOMAIN fs : path # mine => fs'[path] = fs[path]
  <2> HIDE DEF mine
  <2>1. CASE mine \in DOMAIN fs
    BY <1>4, <2>1 DEF Exists
  <2>2. CASE mine \notin DOMAIN fs
    BY <1>4, <2>2 DEF Exists, Put
  <2>3. QED
    BY <2>1, <2>2
<1>6. DirOK(mine, fs'[mine])
  BY <1>3, <1>5 DEF IInv, FsInv
<1>7. ASSUME Exists(act[a].arg),
             act' = [act EXCEPT ![a].pc = Copying(Entries(fs[act[a].arg])), ![a].left = Entries(fs[act[a].arg])]
      PROVE  IInv'
  <2> DEFINE src == fs[act[a].arg]
             left == Entries(src)
             q == [act[a] EXCEPT !.pc = Copying(left), !.left = left]
  <2>1. act' = [act EXCEPT ![a] = q]
    BY <1>2, <1>7
  <2>2. left \in SUBSET (Names \cup {RELEASE_MANIFEST_FILE})
    BY <1>7, EntriesAre DEF Exists
  <2>3. id \notin crossed => Whole(src) /\ src.manifest.id = id
    BY <1>1, <1>2, <1>7, ReadsVerified DEF Reading
  <2>4. id \notin crossed => Partial(EmptyDir, left, id) /\ left # {}
    BY <2>3, PartialBegins
  <2> HIDE DEF src, left
  <2>5. /\ q \in ActState /\ q.arg = act[a].arg /\ q.man = act[a].man /\ q.left = left
        /\ q.pc = IF left = {} THEN "place" ELSE "copy"
    BY <1>2, <2>2, CopyingStates
  <2> HIDE DEF q
  <2>6. act'[a] = q
    BY <2>1, ActIs
  <2>7. ArgOK(a)'
    BY <1>1, <2>5, <2>6, ArgStays DEF Installing, Verified
  <2>8. UploadOK(a)'
    BY <1>1, <1>2, <2>5, <2>6 DEF UploadOK, Installing, Uploading
  <2>9. CopyOK(a)'
    <3>1. SUFFICES ASSUME id \notin crossed' PROVE CopyOK(a)'
      BY <2>5, <2>6 DEF CopyOK
    <3>2. id \notin crossed /\ ~Exists(mine)
      BY <1>1, <1>2, <3>1 DEF CopyOK
    <3>3. fs'[mine] = EmptyDir /\ mine \in DOMAIN fs'
      BY <1>5, <3>2 DEF Exists
    <3>4. q.pc = "copy" /\ Partial(EmptyDir, q.left, id) /\ q.left # {}
      BY <2>4, <2>5, <3>2
    <3>5. QED
      BY <2>5, <2>6, <3>3, <3>4 DEF CopyOK, Exists, Incoming, Partial
  <2>10. QED
    BY <1>1, <1>5, <1>6, <2>1, <2>5, <2>7, <2>8, <2>9, IncomingStep DEF ActOK, FallingBack
<1>8. CASE Finish(a)
  <2>1. PICK q \in ActState : act' = [act EXCEPT ![a] = q] /\ ActOK(a)'
    BY <1>8, FinishIs, ReportIs
  <2>2. QED
    BY <1>1, <1>5, <1>6, <2>1, IncomingStep DEF FallingBack
<1>9. QED
  BY <1>7, <1>8 DEF CreateIncoming

LEMMA CopyFileKeeps ==
  ASSUME IInv, Meets, NEW a \in Activators, CopyFile(a)
  PROVE  IInv'
<1> DEFINE mine == Incoming(a)
           id == act[a].man.id
           name == NextEntry(act[a].left)
           left == act[a].left \ {name}
           src == fs[act[a].arg]
           dst == fs[mine]
           q == [act[a] EXCEPT !.pc = Copying(left), !.left = left]
<1>1. act[a].pc = "copy" /\ UNCHANGED <<remote, manifests, head, bld, install, commands>>
  BY DEF CopyFile
<1>2. /\ act[a] \in ActState /\ UploadOK(a) /\ CopyOK(a) /\ act \in [Activators -> ActState]
      /\ id \in Ids /\ crossed \subseteq crossed'
  BY <1>1, ActIs, MeetsIs DEF ActOK, Verified, Installing, IInv
<1>3. mine[1] = "incoming" /\ mine \in Paths
  BY <1>2, PathIs, PathsAre DEF Incoming
<1>4. CASE Finish(a) /\ UNCHANGED fs
  BY <1>1, <1>4, FinishIs, FinishStep
<1>5. ASSUME Exists(mine), Exists(act[a].arg), name \in Entries(src),
             fs' = [fs EXCEPT ![mine] = IF name = RELEASE_MANIFEST_FILE THEN WithManifest(dst, src)
                                        ELSE WithFile(dst, src, name)],
             act' = [act EXCEPT ![a].left = left, ![a].pc = Copying(left)]
      PROVE  IInv'
  <2> DEFINE dir == IF name = RELEASE_MANIFEST_FILE THEN WithManifest(dst, src) ELSE WithFile(dst, src, name)
  <2>1. act' = [act EXCEPT ![a] = q]
    BY <1>2, <1>5
  <2>2. left \in SUBSET (Names \cup {RELEASE_MANIFEST_FILE})
    BY <1>2 DEF ActState
  <2>3. /\ q \in ActState /\ q.arg = act[a].arg /\ q.man = act[a].man /\ q.left = left
        /\ q.pc = IF left = {} THEN "place" ELSE "copy"
    BY <1>2, <2>2, CopyingStates
  <2>4. mine \in DOMAIN fs /\ act[a].arg \in DOMAIN fs
    BY <1>5 DEF Exists
  <2>5. name # RELEASE_MANIFEST_FILE => name \in Names
    BY <1>5, <2>4, EntriesAre
  <2>6. DirOK(mine, dst) /\ DirOK(act[a].arg, src)
    BY <2>4 DEF IInv, FsInv
  <2>7. DirOK(mine, dir)
    <3>1. CASE name = RELEASE_MANIFEST_FILE
      <4>1. dir.files = dst.files /\ dir.manifest = src.manifest
        BY <3>1 DEF WithManifest
      <4> HIDE DEF dir, src, dst, mine
      <4>2. QED
        BY <1>3, <2>6, <4>1 DEF DirOK, Public
    <3>2. CASE name # RELEASE_MANIFEST_FILE
      <4>1. dir = WithFile(dst, src, name)
        BY <3>2
      <4> HIDE DEF dir, src, dst, mine, name
      <4>2. DOMAIN dir.files = DOMAIN dst.files \cup {name} /\ dir.manifest = dst.manifest
        BY <4>1, WithFileIs
      <4>3. QED
        BY <1>3, <2>5, <2>6, <3>2, <4>2 DEF DirOK, Public
    <3>3. QED
      BY <3>1, <3>2
  <2>8. ASSUME id \notin crossed PROVE Partial(dir, left, id)
    <3>1. Partial(dst, act[a].left, id) /\ act[a].left # {}
      BY <1>1, <1>2, <2>8 DEF CopyOK
    <3>2. name \in act[a].left
      BY <3>1 DEF NextEntry
    <3>3. Whole(src) /\ src.manifest.id = id
      BY <1>1, <1>2, <1>5, <2>8, ReadsVerified DEF Reading
    <3> HIDE DEF src, dst, name, id
    <3>4. /\ name = RELEASE_MANIFEST_FILE => Partial(WithManifest(dst, src), left, id)
          /\ name # RELEASE_MANIFEST_FILE => Partial(WithFile(dst, src, name), left, id)
      BY <1>2, <3>1, <3>2, <3>3, PartialGoesOn
    <3>5. QED
      BY <3>4
  <2>9. fs' = [fs EXCEPT ![mine] = dir]
    BY <1>5
  <2> HIDE DEF dir, q, left, name, src, dst, mine
  <2>10. /\ DOMAIN fs' = DOMAIN fs /\ fs'[mine] = dir
         /\ \A path \in DOMAIN fs : path # mine => fs'[path] = fs[path]
    BY <2>4, <2>9
  <2>11. act'[a] = q
    BY <2>1, ActIs
  <2>12. ArgOK(a)'
    BY <1>1, <2>3, <2>11, ArgStays DEF Installing, Verified
  <2>13. UploadOK(a)'
    BY <1>1, <1>2, <2>3, <2>11 DEF UploadOK, Installing, Uploading
  <2>14. CopyOK(a)'
    <3>1. SUFFICES ASSUME id \notin crossed' PROVE CopyOK(a)'
      BY <2>3, <2>11 DEF CopyOK
    <3>2. Partial(dir, left, id) /\ (left = {} => Whole(dir) /\ dir.manifest.id = id)
      BY <1>2, <2>8, <3>1, PartialDone
    <3>3. Incoming(a)' = mine /\ act'[a].man.id = id
      BY <2>3, <2>11 DEF Incoming, mine
    <3>4. mine \in DOMAIN fs' /\ fs'[mine] = dir
      BY <2>4, <2>10
    <3>5. act'[a].left = left /\ act'[a].pc = IF left = {} THEN "place" ELSE "copy"
      BY <2>3, <2>11
    <3>6. QED
      BY <3>2, <3>3, <3>4, <3>5 DEF CopyOK, Exists, Partial, Whole
  <2>15. ActOK(a)'
    BY <2>12, <2>13, <2>14 DEF ActOK
  <2>16. QED
    BY <1>1, <2>1, <2>3, <2>7, <2>10, <2>15, IncomingStep DEF FallingBack, mine
<1>6. QED
  BY <1>4, <1>5 DEF CopyFile, WithManifest, WithFile

LEMMA PlaceCopyKeeps ==
  ASSUME IInv, Meets, NEW a \in Activators, PlaceCopy(a)
  PROVE  IInv'
<1>1. act[a].pc = "place" /\ UNCHANGED <<remote, manifests, head, bld, install, commands>>
  BY DEF PlaceCopy
<1>2. CopyOK(a) /\ act[a].man.id \in Ids
  BY <1>1, ActIs DEF ActOK, Verified, Installing
<1>3. CASE Renames(Incoming(a), Target(a)) /\ Step(a, "read") /\ fs' = Moved(Incoming(a), Target(a))
  <2>1. PICK from, to : from = Incoming(a) /\ to = Target(a)
    OBVIOUS
  <2>2. from \in Paths /\ from[1] = "incoming" /\ from[2] = act[a].man.id
    BY <1>2, <2>1, PathIs, PathsAre DEF Incoming
  <2>3. from \in DOMAIN fs /\ (to \in DOMAIN fs => fs[to] = EmptyDir)
    BY <1>3, <2>1 DEF Renames, Exists
  <2>4. act[a].man.id \notin crossed => Whole(fs[from]) /\ fs[from].manifest.id = act[a].man.id
    BY <1>1, <1>2, <2>1 DEF CopyOK
  <2>5. Step(a, "read") /\ fs' = Moved(from, to)
    BY <1>3, <2>1
  <2>6. QED
    BY <1>1, <2>1, <2>2, <2>3, <2>4, <2>5, MoveStep
<1>4. CASE Finish(a) /\ UNCHANGED fs
  BY <1>1, <1>4, FinishIs, FinishStep
<1>5. QED
  BY <1>3, <1>4 DEF PlaceCopy

LEMMA ActivateKeeps ==
  ASSUME IInv, Meets, NEW a \in Activators, Activate(a)
  PROVE  IInv'
BY StartActivationKeeps, VerifyReleaseKeeps, CheckInstalledKeeps, RenameIntoStoreKeeps,
   ClearIncomingKeeps, CreateIncomingKeeps, CopyFileKeeps, PlaceCopyKeeps, UploadFileKeeps,
   ReadLocalManifestKeeps, UploadManifestKeeps, ReadPointerKeeps, SwapPointerKeeps,
   ActivationDiesKeeps
DEF Activate, InstallLocally

-------------------------------------------------------------------------------
(* The invariant *)

LEMMA IInvInit == Init => IInv
<1> SUFFICES ASSUME Init PROVE IInv
  OBVIOUS
<1>1. DOMAIN fs = {} /\ DOMAIN remote = {} /\ DOMAIN manifests = {}
  BY DEF Init
<1>2. /\ bld = [b \in Builders |-> IdleBuild] /\ act = [a \in Activators |-> IdleActivation]
      /\ head = [id |-> NoId, stamp |-> 0]
      /\ install \in Installs /\ commands = 0 /\ crossed = {}
  BY DEF Init
<1>3. FsInv /\ RemoteInv /\ ManifestsInv
  BY <1>1 DEF FsInv, RemoteInv, ManifestsInv
<1>4. HeadInv
  BY <1>2 DEF HeadInv
<1>5. /\ bld \in [Builders -> BuildState] /\ \A b \in Builders : bld[b].pc = "idle"
      /\ act \in [Activators -> ActState] /\ \A a \in Activators : act[a].pc = "idle"
  BY <1>2, BuildStates, IdleStates
<1>6. BuildsInv /\ KeptInv
  BY <1>5 DEF BuildsInv, BuildOK, KeptInv
<1>7. ActsInv
  BY <1>5 DEF ActsInv, ActOK, ArgOK, CopyOK, UploadOK, Verified, Installing, Uploading
<1>8. MeetInv
  BY <1>2, <1>5 DEF MeetInv, Crossing, Reading, FallingBack
<1>9. commands \in 0 .. MaxCommands
  BY <1>2, InstallsAssumption
<1>10. QED
  BY <1>2, <1>3, <1>4, <1>6, <1>7, <1>8, <1>9 DEF IInv

LEMMA IInvNext == IInv /\ [Next]_vars => IInv'
<1> SUFFICES ASSUME IInv, [Next]_vars PROVE IInv'
  OBVIOUS
<1>1. CASE Next
  <2>1. Meets
    BY <1>1 DEF Next, Meets
  <2>2. QED
    BY <1>1, <2>1, BuildKeeps, ActivateKeeps DEF Next
<1>2. CASE UNCHANGED vars
  <2>1. UNCHANGED <<fs, remote, manifests, head, bld, act, install, commands, crossed>>
    BY <1>2 DEF vars
  <2>2. crossed' = crossed \cup Crossing' /\ Crossing' = Crossing
    BY <2>1 DEF IInv, MeetInv, Crossing, Exists, WholeRelease, VerifiedDir
  <2>3. MeetInv' /\ Meets
    BY <2>1, <2>2 DEF IInv, MeetInv, Meets
  <2>4. StoreKept /\ \A path : Same(path)
    BY <2>1 DEF StoreKept, Exists, Same
  <2>5. RemoteInv' /\ ManifestsInv' /\ HeadInv'
    BY <2>1, <2>3, <2>4, RemoteKeeps, HeadKeeps
  <2>6. FsInv'
    BY <2>1 DEF IInv, FsInv, DirOK, Whole
  <2>7. BuildsInv' /\ KeptInv'
    BY <2>1 DEF IInv, BuildsInv, BuildOK, KeptInv, Exists, Whole
  <2>8. ASSUME NEW c \in Activators PROVE ActOK(c)'
    BY <2>1, <2>3, <2>4, OthersKeep
  <2>9. ActsInv'
    BY <2>1, <2>8 DEF IInv, ActsInv
  <2>10. QED
    BY <2>1, <2>3, <2>5, <2>6, <2>7, <2>9 DEF IInv
<1>3. QED
  BY <1>1, <1>2

(* What builds, activations and the pointer rely on, at every moment: see IInv. *)
THEOREM ReleaseInvariant == Spec => []IInv
BY IInvInit, IInvNext, PTL DEF Spec

-------------------------------------------------------------------------------
(* What is seen *)

LEMMA WholeIsRelease ==
  ASSUME NEW dir, Whole(dir)
  PROVE  dir.manifest.id \in Ids /\ WholeRelease(dir, dir.manifest.id)
BY NotManifests DEF Whole, WholeRelease, VerifiedDir, Manifests

LEMMA OutputIsWhole == IInv => OutputWhole
<1> SUFFICES ASSUME IInv, Exists(OutPath) PROVE \E id \in Ids : WholeRelease(fs[OutPath], id)
  BY DEF OutputWhole
<1>1. Whole(fs[OutPath])
  BY PathIs DEF IInv, FsInv, DirOK, Public, Exists
<1>2. QED
  BY <1>1, WholeIsRelease

LEMMA InstalledIsWhole == IInv => InstalledWhole
<1> SUFFICES ASSUME IInv PROVE InstalledWhole
  OBVIOUS
<1>1. ASSUME NEW id \in Ids \ crossed, Exists(ManagedPath(id)) PROVE WholeRelease(fs[ManagedPath(id)], id)
  <2> DEFINE dir == fs[ManagedPath(id)]
  <2>1. Whole(dir) /\ dir.manifest.id = id
    BY <1>1, PathIs DEF IInv, FsInv, DirOK, Exists
  <2>2. QED
    BY <2>1, WholeIsRelease
<1>2. ASSUME NEW id \in DOMAIN manifests \ crossed PROVE Uploaded(id)
  <2>1. id \in Ids /\ manifests[id] \in Manifests /\ manifests[id].id = id /\ Landed(id)
    BY DEF IInv, ManifestsInv
  <2>2. manifests[id].source \in Sources
    BY <2>1 DEF Manifests
  <2>3. ASSUME NEW name \in FilesOf(id)
        PROVE  <<id, name>> \in DOMAIN remote /\ remote[<<id, name>>] = Bytes(name, id, manifests[id].source)
    <3> DEFINE key == <<id, name>>
    <3>1. key \in DOMAIN remote /\ key[1] = id /\ key[2] = name
      BY <2>1, <2>3 DEF Landed
    <3> HIDE DEF key
    <3>2. remote[key] = Bytes(name, id, manifests[id].source)
      BY <1>2, <2>2, <3>1 DEF IInv, RemoteInv
    <3>3. QED
      BY <3>1, <3>2 DEF key
  <2>4. QED
    BY <1>2, <2>1, <2>3 DEF Uploaded, FilesOf
<1>3. QED
  BY <1>1, <1>2 DEF InstalledWhole

LEMMA PointerIsServable == IInv => PointerServable
<1> SUFFICES ASSUME IInv, head.id \notin crossed \cup {NoId}
             PROVE  IF install = "s3" THEN Uploaded(head.id)
                    ELSE Exists(ManagedPath(head.id)) /\ WholeRelease(fs[ManagedPath(head.id)], head.id)
  BY DEF PointerServable
<1>1. head.id \in Ids \ crossed /\ Installed(head.id)
  BY DEF IInv, HeadInv
<1>2. QED
  BY <1>1, InstalledIsWhole DEF Installed, InstalledWhole

LEMMA ReleaseTypes == IInv => TypeOK
<1> SUFFICES ASSUME IInv PROVE TypeOK
  OBVIOUS
<1>1. ASSUME NEW path \in DOMAIN fs
      PROVE  /\ path \in Paths
             /\ \/ fs[path].manifest \in Manifests
                \/ path[1] \in {"incoming", "managed"} /\ fs[path].manifest = NoManifest
  <2>1. path \in Paths /\ DirOK(path, fs[path])
    BY DEF IInv, FsInv, DirOK
  <2>2. QED
    BY <2>1, PathOfKind DEF DirOK, Whole, Public
<1>2. ASSUME NEW key \in DOMAIN remote
      PROVE  key[1] \in Ids /\ key[2] \in Range(release_output_files(key[1].version))
  BY DEF IInv, RemoteInv, FilesOf
<1>3. DOMAIN manifests \subseteq Ids /\ head.id \in Ids \cup {NoId} /\ head.stamp \in Nat
  BY DEF IInv, ManifestsInv, HeadInv
<1>4. ASSUME NEW a \in Activators
      PROVE  /\ act[a].pc \in {"idle", "verify", "check", "rename", "clear", "create", "copy", "place",
                               "upload", "seal", "read", "swap"}
             /\ act[a].outcome \in {"none", "corrupt file", "different manifest"}
  BY DEF IInv, ActsInv, ActState, Verified, Installing, Uploading
<1>5. \A b \in Builders : bld[b].pc \in {"idle", "stage", "aside", "in", "drop"}
  BY DEF IInv, BuildsInv, BuildState
<1>6. install \in Installs /\ commands \in 0 .. MaxCommands /\ crossed \subseteq Ids
  BY DEF IInv, MeetInv
<1>7. QED
  BY <1>1, <1>2, <1>3, <1>4, <1>5, <1>6 DEF TypeOK, Paths, Manifests

(* The output directory never shows a part of a release: commit_replace_dir
   renames a finished staging directory in, or the one it moved aside back. *)
THEOREM OutputAlwaysWhole == Spec => []OutputWhole
BY ReleaseInvariant, OutputIsWhole, PTL

(* The names, counters and states of static-build and static-activate stay in
   their ranges, and only a copy may lack its manifest. *)
THEOREM ReleaseTypeCorrect == Spec => []TypeOK
BY ReleaseInvariant, ReleaseTypes, PTL

(* A release that no commands met in is installed whole: install_into_managed_store
   names the target last, upload_release writes the manifest last, and neither
   takes over what a dead command left. *)
THEOREM InstalledAlwaysWhole == Spec => []InstalledWhole
BY ReleaseInvariant, InstalledIsWhole, PTL

(* activate_static_pointer only names what the query side can load, or a release
   that commands met in. *)
THEOREM PointerAlwaysServable == Spec => []PointerServable
BY ReleaseInvariant, PointerIsServable, PTL

-------------------------------------------------------------------------------
(* What a command reports *)

\* A running command has not reported anything.
SilentInv == \A a \in Activators : act[a].pc # "idle" => act[a].outcome = "none"

LEMMA RemoteIs ==
  ASSUME IInv, NEW key \in DOMAIN remote, key[1] \notin crossed, NEW source \in Sources
  PROVE  remote[key] = Bytes(key[2], key[1], source)
BY DEF IInv, RemoteInv

\* A file is only taken for a corrupt one in a release that commands met in.
LEMMA CorruptIsCrossed ==
  ASSUME IInv, NEW a \in Activators, UploadFile(a), Reported(a, "corrupt file"),
         ~Finish(a), act' # [act EXCEPT ![a].todo = Tail(@)]
  PROVE  act[a].man.id \in crossed
<1> DEFINE id == act[a].man.id
           name == Head(act[a].todo)
           key == <<id, name>>
<1>1. act[a].pc = "upload" /\ act[a].todo # <<>>
  BY DEF UploadFile
<1>2. act[a] \in ActState /\ UploadOK(a) /\ act[a].man.source \in Sources
  BY <1>1, ActIs DEF ActOK, Verified, Uploading
<1>3. key \in DOMAIN remote /\ remote[key] # Bytes(name, id, act[a].man.source)
  BY DEF UploadFile
<1>4. key[1] = id /\ key[2] = name
  OBVIOUS
<1> HIDE DEF key
<1>5. SUFFICES ASSUME key[1] \notin crossed PROVE FALSE
  BY <1>4
<1>6. QED
  BY <1>2, <1>3, <1>4, <1>5, RemoteIs

\* How an activation leaves its report.
LEMMA ReportsAre ==
  ASSUME IInv, NEW a \in Activators, Activate(a)
  PROVE  /\ act'[a].pc # "idle" => \/ act'[a].outcome = "none"
                                   \/ act[a].pc # "idle" /\ act'[a].outcome = act[a].outcome
         /\ act[a].pc # "idle" => \/ act'[a].outcome \in {"none", "different manifest", act[a].outcome}
                                  \/ act[a].man.id \in crossed
         /\ \A c \in Activators : c # a => act'[c] = act[c]
<1>1. act \in [Activators -> ActState] /\ act[a] \in ActState
  BY ActIs
<1>2. ASSUME NEW o \in Outcomes, Reported(a, o)
      PROVE  act'[a].pc = "idle" /\ act'[a].outcome = o /\ \A c \in Activators : c # a => act'[c] = act[c]
  BY <1>1, <1>2, IdleStates DEF Reported
<1>3. ASSUME NEW pc, Step(a, pc)
      PROVE  act'[a].outcome = act[a].outcome /\ \A c \in Activators : c # a => act'[c] = act[c]
  BY <1>1, <1>3 DEF Step, ActState
<1>4. ASSUME Finish(a)
      PROVE  act'[a].pc = "idle" /\ act'[a].outcome = "none" /\ \A c \in Activators : c # a => act'[c] = act[c]
  BY <1>2, <1>4, FinishIs
<1>5. CASE StartActivation(a)
  <2>1. PICK path \in Args : act' = [act EXCEPT ![a] = [IdleActivation EXCEPT !.pc = "verify", !.arg = path]]
    BY <1>5 DEF StartActivation, Args
  <2>2. [IdleActivation EXCEPT !.pc = "verify", !.arg = path].outcome = "none"
    BY DEF IdleActivation
  <2>3. act[a].pc = "idle"
    BY <1>5 DEF StartActivation
  <2>4. QED
    BY <1>1, <2>1, <2>2, <2>3
<1>6. CASE VerifyRelease(a)
  <2>1. act[a].pc # "idle"
    BY <1>6 DEF VerifyRelease
  <2>2. CASE Finish(a)
    BY <1>4, <2>1, <2>2
  <2>3. CASE Exists(act[a].arg) /\ VerifiedDir(fs[act[a].arg]) /\ ~Finish(a)
    <3> DEFINE man == fs[act[a].arg].manifest
               pc == IF install = "s3" THEN "upload" ELSE "check"
               todo == release_output_files(man.id.version)
    <3>1. act' = [act EXCEPT ![a] = WithRelease(act[a], pc, man, todo)]
      BY <1>1, <1>6, <2>3 DEF VerifyRelease, WithRelease
    <3> HIDE DEF man, pc, todo
    <3>2. WithRelease(act[a], pc, man, todo).outcome = act[a].outcome
      BY <1>1 DEF WithRelease, ActState
    <3>3. QED
      BY <1>1, <2>1, <3>1, <3>2
  <2>4. QED
    BY <1>6, <2>2, <2>3 DEF VerifyRelease
<1>7. CASE InstallLocally(a)
  <2>1. act[a].pc # "idle"
    BY <1>7 DEF InstallLocally, CheckInstalled, RenameIntoStore, ClearIncoming, CreateIncoming,
                CopyFile, PlaceCopy
  <2>2. CASE Finish(a)
    BY <1>4, <2>1, <2>2
  <2>3. CASE \E pc : Step(a, pc)
    BY <1>3, <2>1, <2>3
  <2>4. CASE \E pc, left : act' = [act EXCEPT ![a].pc = pc, ![a].left = left]
    BY <1>1, <2>1, <2>4 DEF ActState
  <2>5. CASE \E pc, left : act' = [act EXCEPT ![a].left = left, ![a].pc = pc]
    BY <1>1, <2>1, <2>5 DEF ActState
  <2>6. QED
    BY <1>7, <2>2, <2>3, <2>4, <2>5
    DEF InstallLocally, CheckInstalled, RenameIntoStore, ClearIncoming, CreateIncoming, CopyFile, PlaceCopy
<1>8. CASE UploadFile(a)
  <2>1. act[a].pc # "idle"
    BY <1>8 DEF UploadFile
  <2>2. CASE Finish(a)
    BY <1>4, <2>1, <2>2
  <2>3. CASE act' = [act EXCEPT ![a].todo = Tail(@)]
    BY <1>1, <2>1, <2>3 DEF ActState
  <2>4. CASE Reported(a, "corrupt file") /\ ~Finish(a) /\ act' # [act EXCEPT ![a].todo = Tail(@)]
    BY <1>2, <1>8, <2>1, <2>4, CorruptIsCrossed DEF Outcomes
  <2>5. QED
    BY <1>8, <2>2, <2>3, <2>4 DEF UploadFile
<1>9. CASE ReadLocalManifest(a)
  <2>1. act[a].pc # "idle"
    BY <1>9 DEF ReadLocalManifest
  <2>2. CASE Finish(a)
    BY <1>4, <2>1, <2>2
  <2>3. CASE act' = [act EXCEPT ![a].pc = "seal", ![a].local = fs[act[a].arg].manifest]
    <3>1. PICK local : act' = [act EXCEPT ![a].pc = "seal", ![a].local = local]
      BY <2>3
    <3>2. [act[a] EXCEPT !.pc = "seal", !.local = local].outcome = act[a].outcome
      BY <1>1 DEF ActState
    <3>3. act'[a] = [act[a] EXCEPT !.pc = "seal", !.local = local] /\ \A c \in Activators : c # a => act'[c] = act[c]
      BY <1>1, <3>1
    <3>4. QED
      BY <2>1, <3>2, <3>3
  <2>4. QED
    BY <1>9, <2>2, <2>3 DEF ReadLocalManifest
<1>10. CASE UploadManifest(a)
  <2>1. act[a].pc # "idle"
    BY <1>10 DEF UploadManifest
  <2>2. Finish(a) \/ Step(a, "read") \/ Reported(a, "different manifest")
    BY <1>10 DEF UploadManifest
  <2>3. QED
    BY <1>2, <1>3, <1>4, <2>1, <2>2 DEF Outcomes
<1>11. CASE ReadPointer(a)
  BY <1>1, <1>11 DEF ReadPointer, ActState
<1>12. CASE SwapPointer(a) \/ ActivationDies(a)
  BY <1>4, <1>12 DEF SwapPointer, ActivationDies
<1>13. QED
  BY <1>5, <1>6, <1>7, <1>8, <1>9, <1>10, <1>11, <1>12 DEF Activate

LEMMA BuildsReportNothing == ASSUME NEW b, Build(b) PROVE act' = act
BY DEF Build, StartBuild, StageRelease, MoveAside, MoveIn, DropBackup, BuildDies

LEMMA SilentNext == IInv /\ SilentInv /\ [Next]_vars => SilentInv'
<1> SUFFICES ASSUME IInv, SilentInv, [Next]_vars, NEW c \in Activators, act'[c].pc # "idle"
             PROVE  act'[c].outcome = "none"
  BY DEF SilentInv
<1>1. CASE act' = act
  BY <1>1 DEF SilentInv
<1>2. CASE \E a \in Activators : Activate(a)
  <2>1. PICK a \in Activators : Activate(a)
    BY <1>2
  <2>2. CASE c = a
    BY <2>1, <2>2, ReportsAre DEF SilentInv
  <2>3. CASE c # a
    BY <2>1, <2>3, ReportsAre DEF SilentInv
  <2>4. QED
    BY <2>2, <2>3
<1>3. QED
  BY <1>1, <1>2, BuildsReportNothing DEF Next, vars

(* upload_release never takes what a dead upload left for a corrupt file, in a
   release no commands met in: the bytes of a file are those of its release id,
   whoever built it. *)
THEOREM UploadsAlwaysResume == Spec => UploadsResume
<1> DEFINE Corrupt(a) == act[a].pc # "idle" /\ act'[a].outcome = "corrupt file" => act[a].man.id \in crossed
<1>1. Init => SilentInv
  BY DEF Init, SilentInv, IdleActivation
<1>2. IInv /\ SilentInv /\ [Next]_vars => \A a \in Activators : Corrupt(a)
  <2> SUFFICES ASSUME IInv, SilentInv, [Next]_vars, NEW c \in Activators PROVE Corrupt(c)
    OBVIOUS
  <2>1. CASE act' = act
    BY <2>1 DEF SilentInv
  <2>2. CASE \E a \in Activators : Activate(a)
    <3>1. PICK a \in Activators : Activate(a)
      BY <2>2
    <3>2. CASE c = a
      BY <3>1, <3>2, ReportsAre DEF SilentInv
    <3>3. CASE c # a
      BY <3>1, <3>3, ReportsAre DEF SilentInv
    <3>4. QED
      BY <3>2, <3>3
  <2>3. QED
    BY <2>1, <2>2, BuildsReportNothing DEF Next, vars
<1>3. QED
  BY <1>1, <1>2, SilentNext, ReleaseInvariant, PTL DEF Spec, UploadsResume

-------------------------------------------------------------------------------
(* What was built is kept *)

\* A whole release where a rebuild or an activation leaves it.
Lasting == {"out", "backup", "managed"}
At(path) == path \in DOMAIN fs /\ path[1] \in Lasting /\ Whole(fs[path])

LEMMA AroundIsAt == IInv => (ReleaseAround => \E path : At(path))
<1> SUFFICES ASSUME IInv, ReleaseAround PROVE \E path : At(path)
  OBVIOUS
<1>1. PICK path \in DOMAIN fs : path[1] \in Lasting /\ \E id \in Ids : WholeRelease(fs[path], id)
  BY DEF ReleaseAround, Lasting
<1>2. Whole(fs[path])
  BY <1>1, VerifiedWhole DEF IInv, WholeRelease
<1>3. QED
  BY <1>1, <1>2 DEF At

\* Every directory the build moves is whole.
LEMMA PublicAreWhole ==
  ASSUME IInv, NEW path \in DOMAIN fs, path[1] \in Public
  PROVE  Whole(fs[path])
BY DEF IInv, FsInv, DirOK

LEMMA KeptByBuild ==
  ASSUME IInv, NEW b \in Builders, Build(b), NEW p, At(p)
  PROVE  \E path : path \in DOMAIN fs' /\ path[1] \in Lasting /\ Whole(fs'[path])
<1> DEFINE out == OutPath
           stage == StagePath(b)
           back == BackupPath(b)
<1>1. /\ out[1] = "out" /\ stage[1] = "staging" /\ back[1] = "backup"
      /\ out[1] \in Lasting /\ back[1] \in Lasting /\ stage[1] \notin Lasting
  BY PathIs DEF Lasting
<1>2. CASE fs' = fs
  BY <1>2 DEF At
<1>3. CASE fs' = Without({stage})
  <2>1. p \in DOMAIN fs' /\ fs'[p] = fs[p]
    BY <1>1, <1>3, WithoutIs DEF At
  <2>2. QED
    BY <2>1 DEF At
<1>4. CASE StageRelease(b)
  <2>1. p \in DOMAIN fs' /\ fs'[p] = fs[p]
    BY <1>1, <1>4 DEF At, StageRelease, Put
  <2>2. QED
    BY <2>1 DEF At
<1>5. CASE Exists(out) /\ fs' = Moved(out, back)
  <2>1. back \in DOMAIN fs' /\ fs'[back] = fs[out]
    <3>1. fs' = Moved(out, back)
      BY <1>5
    <3>2. DOMAIN fs' = (DOMAIN fs \ {out}) \cup {back} /\ fs'[back] = fs[out]
      BY <3>1, MovedIs
    <3>3. QED
      BY <3>2
  <2>2. Whole(fs[out])
    BY <1>1, <1>5, PublicAreWhole DEF Public, Exists
  <2>3. QED
    BY <1>1, <2>1, <2>2
<1>6. CASE Renames(stage, out) /\ fs' = Moved(stage, out)
  <2>1. out \in DOMAIN fs' /\ fs'[out] = fs[stage]
    <3>1. fs' = Moved(stage, out)
      BY <1>6
    <3>2. DOMAIN fs' = (DOMAIN fs \ {stage}) \cup {out} /\ fs'[out] = fs[stage]
      BY <3>1, MovedIs
    <3>3. QED
      BY <3>2
  <2>2. Whole(fs[stage])
    BY <1>1, <1>6, PublicAreWhole DEF Public, Exists, Renames
  <2>3. QED
    BY <1>1, <2>1, <2>2
<1>7. CASE bld[b].pc = "in" /\ bld[b].had /\ fs' = Put(Without({stage, back}), out, fs[back])
  <2>1. out \in DOMAIN fs' /\ fs'[out] = fs[back]
    BY <1>7 DEF Put
  <2>2. back \in DOMAIN fs
    BY <1>7 DEF IInv, BuildsInv, BuildOK, Exists
  <2>3. Whole(fs[back])
    BY <1>1, <2>2, PublicAreWhole DEF Public
  <2>4. QED
    BY <1>1, <2>1, <2>3
<1>8. CASE DropBackup(b)
  <2>1. bld[b].pc = "drop" /\ fs' = Without({back})
    BY <1>8 DEF DropBackup
  <2>2. PICK path \in DOMAIN fs : path # back /\ path[1] \in Lasting /\ Whole(fs[path])
    <3>1. CASE Exists(OutPath)
      BY <1>1, <3>1, PublicAreWhole DEF Exists, Public
    <3>2. CASE \E c \in Builders : bld[c].pc # "drop" /\ Exists(BackupPath(c))
      <4>1. PICK c \in Builders : bld[c].pc # "drop" /\ Exists(BackupPath(c))
        BY <3>2
      <4>2. c # b /\ BackupPath(c) # back /\ BackupPath(c)[1] = "backup"
        BY <2>1, <4>1, PathIs
      <4>3. QED
        BY <4>1, <4>2, PublicAreWhole DEF Exists, Public, Lasting
    <3>3. CASE \E path \in DOMAIN fs : path[1] = "managed" /\ Whole(fs[path])
      BY <1>1, <3>3 DEF Lasting
    <3>4. QED
      BY <2>1, <3>1, <3>2, <3>3 DEF IInv, KeptInv
  <2>3. path \in DOMAIN fs' /\ fs'[path] = fs[path]
    BY <2>1, <2>2, WithoutIs
  <2>4. QED
    BY <2>2, <2>3
<1>9. QED
  BY <1>2, <1>3, <1>4, <1>5, <1>6, <1>7, <1>8
  DEF Build, StartBuild, MoveAside, MoveIn, BuildDies

LEMMA KeptByActivation ==
  ASSUME IInv, NEW a \in Activators, Activate(a), NEW p, At(p)
  PROVE  \E path : path \in DOMAIN fs' /\ path[1] \in Lasting /\ Whole(fs'[path])
<1>1. CASE fs' = fs
  BY <1>1 DEF At
<1>2. Incoming(a)[1] = "incoming" /\ Target(a)[1] = "managed"
  BY PathIs DEF Incoming, Target
<1>3. p # Incoming(a)
  BY <1>2 DEF At, Lasting
<1>4. CASE \A path \in DOMAIN fs : path # Incoming(a) => path \in DOMAIN fs' /\ fs'[path] = fs[path]
  BY <1>3, <1>4 DEF At
<1>5. CASE \E from : Renames(from, Target(a)) /\ fs' = Moved(from, Target(a))
  <2>1. PICK from, to : to = Target(a) /\ Renames(from, to) /\ fs' = Moved(from, to)
    BY <1>5
  <2>2. /\ DOMAIN fs' = (DOMAIN fs \ {from}) \cup {to} /\ fs'[to] = fs[from]
        /\ \A path \in DOMAIN fs : path # from /\ path # to => fs'[path] = fs[path]
    <3>1. fs' = Moved(from, to)
      BY <2>1
    <3>2. QED
      BY <3>1, MovedIs
  <2>3. CASE p = from
    BY <1>2, <2>1, <2>2, <2>3 DEF At, Lasting
  <2>4. CASE p # from
    <3>1. p # to
      BY <2>1, EmptyIs DEF At, Renames, Exists
    <3>2. QED
      BY <2>2, <2>4, <3>1 DEF At
  <2>5. QED
    BY <2>3, <2>4
<1>6. CASE ClearIncoming(a)
  <2>1. CASE fs' = Without({Incoming(a)})
    BY <1>4, <2>1, WithoutIs
  <2>2. CASE \E names : fs' = [fs EXCEPT ![Incoming(a)] = Part(@, names)]
    BY <1>4, <2>2
  <2>3. QED
    BY <1>6, <2>1, <2>2 DEF ClearIncoming
<1>7. CASE CreateIncoming(a)
  <2>1. CASE fs' = fs
    BY <1>1, <2>1
  <2>2. CASE fs' = Put(fs, Incoming(a), EmptyDir)
    BY <1>4, <2>2 DEF Put
  <2>3. QED
    BY <1>7, <2>1, <2>2 DEF CreateIncoming
<1>8. CASE CopyFile(a)
  <2>1. CASE fs' = fs
    BY <1>1, <2>1
  <2>2. CASE \E dir : fs' = [fs EXCEPT ![Incoming(a)] = dir]
    BY <1>4, <2>2
  <2>3. QED
    BY <1>8, <2>1, <2>2 DEF CopyFile
<1>9. CASE RenameIntoStore(a) \/ PlaceCopy(a)
  BY <1>1, <1>5, <1>9 DEF RenameIntoStore, PlaceCopy
<1>10. QED
  BY <1>1, <1>6, <1>7, <1>8, <1>9
  DEF Activate, InstallLocally, StartActivation, VerifyRelease, CheckInstalled, UploadFile,
      ReadLocalManifest, UploadManifest, ReadPointer, SwapPointer, ActivationDies

(* Once a release was built a whole one is always around: MoveAside keeps what
   it moves, a backup is only dropped beside another release, and an activation
   moves nothing but into the store. *)
THEOREM ReleasesAlwaysKept == Spec => ReleaseKept
<1>1. IInv /\ [Next]_vars => (ReleaseAround => ReleaseAround')
  <2> SUFFICES ASSUME IInv, [Next]_vars, ReleaseAround PROVE ReleaseAround'
    OBVIOUS
  <2>1. PICK p : At(p)
    BY AroundIsAt
  <2>2. \E path : path \in DOMAIN fs' /\ path[1] \in Lasting /\ Whole(fs'[path])
    <3>1. CASE Next
      BY <2>1, <3>1, KeptByBuild, KeptByActivation DEF Next
    <3>2. CASE UNCHANGED vars
      BY <2>1, <3>2 DEF vars, At
    <3>3. QED
      BY <3>1, <3>2
  <2>3. QED
    BY <2>2, WholeIsRelease DEF ReleaseAround, Lasting
<1>2. QED
  BY <1>1, ReleaseInvariant, PTL DEF Spec, ReleaseKept

-------------------------------------------------------------------------------
(* The model bundle: a process that copied it serves one whole revision, for any
   bundle, any number of uploads, starts and deaths. *)

\* The manifest on disk is removed before a file changes and written after the last.
MarkerFirstAndLast == proc.pc \in {"manifest", "fetch"} => disk[Manifest] = Absent

\* Below a manifest every file is of its revision, unless it has been lost since.
MarkedIsOfOneRevision ==
  disk[Manifest] \in Revisions =>
    \A f \in Range(AssetFiles) : disk[f] \in {disk[Manifest], Absent}

\* What was fetched so far is of the revision of the manifest at hand.
FetchedIsOfManifest ==
  proc.pc = "fetch" =>
    /\ proc.man \in Revisions
    /\ \A f \in Range(AssetFiles) : f \in Range(proc.todo) \/ disk[f] = proc.man

CopiedIsOneBundle ==
  proc.pc \in {"open", "serving"} /\ env.provider = "ltembed" /\ env.bucket => OneBundle

BundleInv ==
  /\ AssetTypeOK
  /\ MarkerFirstAndLast
  /\ MarkedIsOfOneRevision
  /\ FetchedIsOfManifest
  /\ CopiedIsOneBundle

USE DEF Absent, Cut, Revisions, Stopped

\* Every start finds the bundle of an image or none.
LEMMA BundleInvInit == AssetInit => BundleInv
<1> SUFFICES ASSUME AssetInit PROVE BundleInv
  OBVIOUS
<1>1. 1 \in Revisions /\ Cut \in Nat /\ <<>> \in Seq(Range(AssetFiles))
  BY AssetConstants
<1>2. AssetTypeOK
  BY <1>1, AssetConstants DEF AssetInit, AssetTypeOK, Objects
<1>3. disk[Manifest] = Absent
  BY DEF AssetInit, Objects
<1>4. QED
  BY <1>2, <1>3, AssetConstants
  DEF BundleInv, AssetInit, MarkerFirstAndLast, MarkedIsOfOneRevision, FetchedIsOfManifest, CopiedIsOneBundle

\* A step that leaves the directory alone and does not begin to open or fetch.
LEMMA DiskUntouched ==
  ASSUME BundleInv, AssetTypeOK', UNCHANGED <<env, disk>>,
         proc'.pc \notin {"manifest", "fetch", "open"},
         proc'.pc = "serving" => proc.pc = "open"
  PROVE  BundleInv'
BY DEF BundleInv, MarkerFirstAndLast, MarkedIsOfOneRevision, FetchedIsOfManifest, CopiedIsOneBundle, OneBundle

Pcs == {"stopped", "configure", "look", "invalidate", "manifest", "fetch", "open",
        "serving", "failed"}

\* Where Become and Leave take a process.
LEMMA Moves ==
  ASSUME AssetTypeOK, NEW pc \in Pcs
  PROVE  /\ Become(pc) => proc' = [pc |-> pc, man |-> proc.man, todo |-> proc.todo]
         /\ Leave(pc) => proc' = [pc |-> pc, man |-> 0, todo |-> <<>>]
         /\ Become(pc) \/ Leave(pc) =>
              /\ proc'.pc = pc
              /\ proc' \in [pc : Pcs, man : 0 .. MaxRevision, todo : Seq(Range(AssetFiles))]
<1> DEFINE R == Range(AssetFiles)
<1>1. <<>> \in Seq(R) /\ 0 \in 0 .. MaxRevision
  BY AssetConstants
<1>2. proc \in [pc : Pcs, man : 0 .. MaxRevision, todo : Seq(R)]
  BY DEF AssetTypeOK, Pcs
<1> HIDE DEF R
<1>3. Become(pc) => proc' = [pc |-> pc, man |-> proc.man, todo |-> proc.todo]
  BY <1>2 DEF Become
<1>4. Leave(pc) => proc' = [pc |-> pc, man |-> 0, todo |-> <<>>]
  BY DEF Leave
<1>5. Become(pc) \/ Leave(pc) =>
       proc'.pc = pc /\ proc' \in [pc : Pcs, man : 0 .. MaxRevision, todo : Seq(R)]
  <2>1. ASSUME NEW m \in 0 .. MaxRevision, NEW t \in Seq(R), proc' = [pc |-> pc, man |-> m, todo |-> t]
        PROVE  proc'.pc = pc /\ proc' \in [pc : Pcs, man : 0 .. MaxRevision, todo : Seq(R)]
    BY <2>1
  <2>2. proc.man \in 0 .. MaxRevision /\ proc.todo \in Seq(R)
    BY <1>2
  <2>3. QED
    BY <1>1, <1>3, <1>4, <2>1, <2>2
<1>6. QED
  BY <1>3, <1>4, <1>5 DEF R

\* A move that changes the process alone keeps the types.
LEMMA BundleTypeKept ==
  ASSUME AssetTypeOK, NEW pc \in Pcs, Become(pc) \/ Leave(pc),
         UNCHANGED <<env, bucket>>, starts' \in 0 .. MaxStarts,
         disk' \in [Objects -> 0 .. MaxRevision + 1], \A f \in Range(AssetFiles) : disk'[f] # MaxRevision + 1
  PROVE  AssetTypeOK'
BY Moves DEF AssetTypeOK, Pcs

LEMMA BundleInvNext == BundleInv /\ [AssetNext]_assetVars => BundleInv'
<1> SUFFICES ASSUME BundleInv, [AssetNext]_assetVars PROVE BundleInv'
  OBVIOUS
<1> USE AssetConstants
<1>t. AssetTypeOK
  BY DEF BundleInv
<1>p. /\ proc = [pc |-> proc.pc, man |-> proc.man, todo |-> proc.todo]
      /\ proc.todo \in Seq(Range(AssetFiles)) /\ proc.man \in 0 .. MaxRevision
  BY <1>t DEF AssetTypeOK
<1>e. <<>> \in Seq(Range(AssetFiles)) /\ AssetFiles \in Seq(Range(AssetFiles))
  BY DEF Range
<1>f. \A f \in Range(AssetFiles) : f \in Objects /\ f # Manifest
  BY DEF Objects
<1>d. /\ disk \in [Objects -> 0 .. MaxRevision + 1] /\ starts \in 0 .. MaxStarts
      /\ \A f \in Range(AssetFiles) : disk[f] # MaxRevision + 1
  BY <1>t DEF AssetTypeOK
<1>1. CASE UploadBundle
  <2>1. bucket' \in [Objects -> Revisions]
    BY <1>1, <1>t DEF UploadBundle, AssetTypeOK
  <2>2. AssetTypeOK'
    BY <1>1, <1>t, <2>1 DEF UploadBundle, AssetTypeOK
  <2>3. QED
    BY <1>1, <2>2 DEF UploadBundle, BundleInv, MarkerFirstAndLast, MarkedIsOfOneRevision,
                      FetchedIsOfManifest, CopiedIsOneBundle, OneBundle
<1>2. CASE LoseFile
  <2>1. PICK f \in Range(AssetFiles) : disk' = [disk EXCEPT ![f] = Absent]
    BY <1>2 DEF LoseFile
  <2>2. AssetTypeOK'
    BY <1>2, <1>t, <1>f, <2>1 DEF LoseFile, AssetTypeOK
  <2>3. MarkedIsOfOneRevision'
    BY <1>t, <1>f, <2>1 DEF BundleInv, MarkedIsOfOneRevision, AssetTypeOK
  <2>4. QED
    BY <1>2, <2>2, <2>3 DEF LoseFile, BundleInv, MarkerFirstAndLast, FetchedIsOfManifest, CopiedIsOneBundle
<1>3. CASE StartProcess
  <2>1. AssetTypeOK'
    <3>1. starts' \in 0 .. MaxStarts
      BY <1>3, <1>d DEF StartProcess
    <3>2. QED
      BY <1>3, <1>t, <1>d, <3>1, BundleTypeKept DEF StartProcess, Pcs
  <2>2. proc'.pc = "configure"
    BY <1>3, <1>t, Moves DEF StartProcess, Pcs
  <2>3. QED
    BY <1>3, <2>1, <2>2, DiskUntouched DEF StartProcess
<1>4. CASE ReadEnv
  <2>1. AssetTypeOK' /\ proc'.pc \in {"open", "failed", "look"}
    BY <1>4, <1>t, <1>d, BundleTypeKept, Moves DEF ReadEnv, Pcs
  <2>2. proc'.pc = "open" => ~(env.provider = "ltembed" /\ env.bucket)
    BY <1>4, <1>t, Moves DEF ReadEnv, Pcs
  <2>3. QED
    BY <1>4, <2>1, <2>2 DEF ReadEnv, BundleInv, MarkerFirstAndLast, MarkedIsOfOneRevision,
                            FetchedIsOfManifest, CopiedIsOneBundle, OneBundle
<1>5. CASE LookAtDisk
  <2>1. AssetTypeOK' /\ proc'.pc \in {"open", "invalidate"}
    BY <1>5, <1>t, <1>d, BundleTypeKept, Moves DEF LookAtDisk, Pcs
  <2>2. AssetsReady => OneBundle
    BY DEF BundleInv, AssetsReady, MarkedIsOfOneRevision, OneBundle
  <2>3. proc'.pc = "open" => OneBundle'
    BY <1>5, <1>t, <2>2, Moves DEF LookAtDisk, OneBundle, Pcs
  <2>4. QED
    BY <1>5, <2>1, <2>3 DEF LookAtDisk, BundleInv, MarkerFirstAndLast, MarkedIsOfOneRevision,
                            FetchedIsOfManifest, CopiedIsOneBundle
<1>6. CASE InvalidateMarker
  <2>1. AssetTypeOK' /\ proc'.pc = "manifest" /\ disk'[Manifest] = Absent
    <3>1. /\ disk' \in [Objects -> 0 .. MaxRevision + 1] /\ disk'[Manifest] = 0
          /\ \A f \in Range(AssetFiles) : disk'[f] # MaxRevision + 1
      BY <1>6, <1>d, <1>f DEF InvalidateMarker, Objects
    <3>2. QED
      BY <1>6, <1>t, <1>d, <3>1, BundleTypeKept, Moves DEF InvalidateMarker, Pcs
  <2>2. QED
    BY <2>1 DEF BundleInv, MarkerFirstAndLast, MarkedIsOfOneRevision, FetchedIsOfManifest, CopiedIsOneBundle
<1>7. CASE FetchManifest
  <2>1. AssetTypeOK' /\ proc'.pc = "fetch" /\ proc'.man \in Revisions /\ proc'.todo = AssetFiles
    BY <1>7, <1>t, <1>e DEF FetchManifest, AssetTypeOK, Objects
  <2>2. QED
    BY <1>7, <2>1 DEF FetchManifest, BundleInv, MarkerFirstAndLast, MarkedIsOfOneRevision,
                      FetchedIsOfManifest, CopiedIsOneBundle
<1>8. CASE FetchFile
  <2>1. CASE bucket[Head(proc.todo)] = proc.man
    <3> DEFINE name == Head(proc.todo)
    <3>1. /\ name \in Range(AssetFiles) /\ Tail(proc.todo) \in Seq(Range(AssetFiles))
          /\ Range(proc.todo) = {name} \cup Range(Tail(proc.todo))
      BY <1>8, <1>p, RangeOfTail DEF FetchFile
    <3>2. /\ disk' = [disk EXCEPT ![name] = proc.man]
          /\ proc' = [pc |-> "fetch", man |-> proc.man, todo |-> Tail(proc.todo)]
          /\ UNCHANGED <<env, bucket, starts>>
      BY <1>8, <1>p, <2>1 DEF FetchFile
    <3>3. proc.man \in Revisions /\ disk[Manifest] = Absent
      BY <1>8 DEF FetchFile, BundleInv, FetchedIsOfManifest, MarkerFirstAndLast
    <3> HIDE DEF name
    <3>4. AssetTypeOK'
      BY <1>t, <1>f, <3>1, <3>2, <3>3 DEF AssetTypeOK
    <3>5. disk'[Manifest] = Absent
      BY <1>t, <1>f, <3>1, <3>2, <3>3 DEF AssetTypeOK, Objects
    <3>6. FetchedIsOfManifest'
      BY <1>8, <1>t, <1>f, <3>1, <3>2, <3>3 DEF FetchFile, BundleInv, FetchedIsOfManifest, AssetTypeOK
    <3>7. QED
      BY <3>2, <3>4, <3>5, <3>6 DEF BundleInv, MarkerFirstAndLast, MarkedIsOfOneRevision, CopiedIsOneBundle
  <2>2. CASE bucket[Head(proc.todo)] # proc.man
    <3>1. AssetTypeOK' /\ proc'.pc = "failed" /\ UNCHANGED <<env, disk>>
      BY <1>8, <1>t, <1>d, <2>2, BundleTypeKept, Moves DEF FetchFile, Pcs
    <3>2. QED
      BY <3>1, DiskUntouched
  <2>3. QED
    BY <2>1, <2>2
<1>9. CASE WriteMarker
  <2>1. /\ proc.man \in Revisions /\ proc.todo = <<>>
        /\ \A f \in Range(AssetFiles) : disk[f] = proc.man
    <3>1. Range(<<>>) = {}
      BY DEF Range
    <3>2. QED
      BY <1>9, <3>1 DEF WriteMarker, BundleInv, FetchedIsOfManifest
  <2>2. CASE disk' = [disk EXCEPT ![Manifest] = proc.man] /\ Become("open")
    <3>1. AssetTypeOK' /\ proc'.pc = "open" /\ disk'[Manifest] = proc.man
      <4>1. /\ disk' \in [Objects -> 0 .. MaxRevision + 1] /\ disk'[Manifest] = proc.man
            /\ \A f \in Range(AssetFiles) : disk'[f] # MaxRevision + 1
        BY <1>d, <1>f, <2>1, <2>2 DEF Objects
      <4>2. QED
        BY <1>9, <1>t, <1>d, <2>2, <4>1, BundleTypeKept, Moves DEF WriteMarker, Pcs
    <3>2. \A f \in Range(AssetFiles) : disk'[f] = proc.man
      BY <1>t, <1>f, <2>1, <2>2 DEF AssetTypeOK
    <3>3. QED
      BY <2>1, <3>1, <3>2 DEF BundleInv, MarkerFirstAndLast, MarkedIsOfOneRevision, FetchedIsOfManifest,
                              CopiedIsOneBundle, OneBundle
  <2>3. CASE disk' = [disk EXCEPT ![Manifest] = Cut] /\ Leave("stopped")
    <3>1. AssetTypeOK' /\ proc'.pc = "stopped" /\ disk'[Manifest] \notin Revisions
      <4>1. /\ disk' \in [Objects -> 0 .. MaxRevision + 1] /\ disk'[Manifest] \notin Revisions
            /\ \A f \in Range(AssetFiles) : disk'[f] # MaxRevision + 1
        BY <1>d, <1>f, <2>3 DEF Objects
      <4>2. QED
        BY <1>9, <1>t, <1>d, <2>3, <4>1, BundleTypeKept, Moves DEF WriteMarker, Pcs
    <3>2. QED
      BY <3>1 DEF BundleInv, MarkerFirstAndLast, MarkedIsOfOneRevision, FetchedIsOfManifest, CopiedIsOneBundle
  <2>4. QED
    BY <1>9, <2>2, <2>3 DEF WriteMarker
<1>10. CASE OpenEngine
  <2>1. AssetTypeOK' /\ proc'.pc \in {"serving", "failed"}
    BY <1>10, <1>t, <1>d, BundleTypeKept, Moves DEF OpenEngine, Pcs
  <2>2. QED
    BY <1>10, <2>1, DiskUntouched DEF OpenEngine
<1>11. CASE ProcessFails
  <2>1. AssetTypeOK' /\ proc'.pc = "failed"
    BY <1>11, <1>t, <1>d, BundleTypeKept, Moves DEF ProcessFails, Pcs
  <2>2. QED
    BY <1>11, <2>1, DiskUntouched DEF ProcessFails
<1>12. CASE UNCHANGED assetVars
  BY <1>12 DEF assetVars, BundleInv, AssetTypeOK, MarkerFirstAndLast, MarkedIsOfOneRevision,
               FetchedIsOfManifest, CopiedIsOneBundle, OneBundle
<1>13. QED
  BY <1>1, <1>2, <1>3, <1>4, <1>5, <1>6, <1>7, <1>8, <1>9, <1>10, <1>11, <1>12 DEF AssetNext, Provision

\* The bundle directory, the process and the bucket stay well formed.
THEOREM AssetTypeCorrect == AssetSpec => []AssetTypeOK
<1>1. BundleInv => AssetTypeOK
  BY DEF BundleInv
<1>2. QED
  BY BundleInvInit, BundleInvNext, <1>1, PTL DEF AssetSpec

\* model_assets.rs: no number of uploads, deaths and starts makes a process serve a
\* bundle of two revisions, or the quick look take one for ready.
THEOREM BundleCorrect == AssetSpec => []ServesOneBundle
<1>1. BundleInv => ServesOneBundle
  BY DEF BundleInv, ServesOneBundle, AssetsReady, MarkedIsOfOneRevision, CopiedIsOneBundle
<1>2. QED
  BY BundleInvInit, BundleInvNext, <1>1, PTL DEF AssetSpec

-------------------------------------------------------------------------------
(* Side by side, where each keeps still while the other moves. *)

(* static_publisher.rs and model_assets.rs share no file: whichever of the two
   moves, the directories, commands and bundles of both stay well formed. *)
THEOREM InstallTypesCorrect == MCSpec => []TypesOK
<1>1. MCInit => Init /\ AssetInit
  BY DEF MCInit
<1>2. [MCNext]_<<about, vars, assetVars>> => [Next]_vars /\ [AssetNext]_assetVars
  BY DEF MCNext
<1>3. MCSpec => Spec /\ AssetSpec
  BY <1>1, <1>2, PTL DEF MCSpec, Spec, AssetSpec
<1>4. QED
  BY <1>3, ReleaseTypeCorrect, AssetTypeCorrect, PTL DEF TypesOK
===============================================================================
