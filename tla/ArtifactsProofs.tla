---------------------------- MODULE ArtifactsProofs ----------------------------
(***************************************************************************)
(* What Artifacts keeps for every set of inputs and every number of runs:  *)
(* that no run loses a file, that backups tell their age, and that a run   *)
(* without an error has left every file its manifest names, whole.         *)
(*                                                                         *)
(* A run goes through a fixed order of files and leaves some out; Place    *)
(* numbers them in that order, and InOrder, the heart of the inductive     *)
(* invariant, says which are of the run already and which are not yet.     *)
(* The operators on sequences that give the order come first.              *)
(***************************************************************************)
EXTENDS Artifacts, ConfigModelProofs

(* The files of a run, and the order they are written in. *)
Written ==
    {"plugin.manifest.json"}
    \cup (IF HasBoot THEN {"config.boot.json", "plugin.boot.yml"} ELSE {})
    \cup (IF HasUser THEN {"config.user.json"} ELSE {})

Place(f) ==
    CASE f = "plugin.manifest.json" -> 1
      [] f = "config.boot.json" -> 2
      [] f = "plugin.boot.yml" -> 3
      [] f = "config.user.json" -> 4

(* Nothing is of a run to come, and a backup is of one that is over. *)
PastOnly ==
    \A f \in Files :
        /\ disk[f].run <= run
        /\ \A i \in 1..MaxRuns : Exists(backups[f][i]) => backups[f][i].run < run

(* A run writes its files in their order: those before the one it is at are
   whole, those from there on are still of an earlier run. *)
InOrder ==
    step # "rest" =>
        /\ file \in Written
        /\ \A f \in Written : Place(f) < Place(file) => disk[f].run = run /\ disk[f].whole
        /\ \A f \in Files : Place(f) > Place(file) => disk[f].run < run
        /\ step \in {"prepare", "backup"} => disk[file].run < run
        /\ step = "write" => disk[file].run = run

AllWhole == status = "ok" => \A f \in Written : disk[f].run = run /\ disk[f].whole

(* What no run has written is absent, and nothing more is said of it. *)
Blank ==
    /\ step # "rest" => run # 0
    /\ \A f \in Files :
        /\ ~Exists(disk[f]) => disk[f] = Absent
        /\ \A i \in 1..MaxRuns : ~Exists(backups[f][i]) => backups[f][i] = Absent

(* The inductive invariant. *)
IInv == TypeOK /\ PastOnly /\ Blank /\ InOrder /\ AllWhole /\ BackupsByAge

-----------------------------------------------------------------------------
(* A sequence is the concatenation of two when it has the elements of both. *)
LEMMA ConcatIs ==
  ASSUME NEW S, NEW s \in Seq(S), NEW t \in Seq(S), NEW u \in Seq(S),
         Len(u) = Len(s) + Len(t),
         \A i \in 1..Len(s) : u[i] = s[i],
         \A i \in 1..Len(t) : u[Len(s) + i] = t[i]
  PROVE  s \o t = u
<1>1. /\ s \o t \in Seq(S)
      /\ Len(s \o t) = Len(u)
      /\ \A i \in 1..Len(u) : (s \o t)[i] = IF i <= Len(s) THEN s[i] ELSE t[i - Len(s)]
  BY ConcatProperties
<1>2. ASSUME NEW i \in 1..Len(u)
      PROVE  (s \o t)[i] = u[i]
  <2>1. CASE i <= Len(s)
    BY <1>1, <2>1
  <2>2. CASE ~(i <= Len(s))
    <3>1. i - Len(s) \in 1..Len(t)
      BY <2>2
    <3>2. u[Len(s) + (i - Len(s))] = t[i - Len(s)]
      BY <3>1
    <3>3. Len(s) + (i - Len(s)) = i
      OBVIOUS
    <3>4. QED
      BY <1>1, <2>2, <3>2, <3>3
  <2>3. QED
    BY <2>1, <2>2
<1>3. QED
  BY <1>1, <1>2, SeqEqual

(* The order, spelled out for the four ways in which models may be nil. *)
LEMMA OrderIs ==
  Order =
    IF HasBoot
    THEN IF HasUser
         THEN <<"plugin.manifest.json", "config.boot.json", "plugin.boot.yml", "config.user.json">>
         ELSE <<"plugin.manifest.json", "config.boot.json", "plugin.boot.yml">>
    ELSE IF HasUser
         THEN <<"plugin.manifest.json", "config.user.json">>
         ELSE <<"plugin.manifest.json">>
<1> DEFINE m == <<"plugin.manifest.json">>
           b == <<"config.boot.json", "plugin.boot.yml">>
           u == <<"config.user.json">>
           mb == <<"plugin.manifest.json", "config.boot.json", "plugin.boot.yml">>
           mu == <<"plugin.manifest.json", "config.user.json">>
           mbu == <<"plugin.manifest.json", "config.boot.json", "plugin.boot.yml", "config.user.json">>
<1>1. /\ m \in Seq(Files) /\ Len(m) = 1 /\ m[1] = "plugin.manifest.json"
      /\ b \in Seq(Files) /\ Len(b) = 2 /\ b[1] = "config.boot.json" /\ b[2] = "plugin.boot.yml"
      /\ u \in Seq(Files) /\ Len(u) = 1 /\ u[1] = "config.user.json"
  BY DEF Files
<1>2. /\ mb \in Seq(Files) /\ Len(mb) = 3
      /\ mb[1] = "plugin.manifest.json" /\ mb[2] = "config.boot.json" /\ mb[3] = "plugin.boot.yml"
      /\ mu \in Seq(Files) /\ Len(mu) = 2
      /\ mu[1] = "plugin.manifest.json" /\ mu[2] = "config.user.json"
  BY DEF Files
<1>3. /\ mbu \in Seq(Files) /\ Len(mbu) = 4
      /\ mbu[1] = "plugin.manifest.json" /\ mbu[2] = "config.boot.json"
      /\ mbu[3] = "plugin.boot.yml" /\ mbu[4] = "config.user.json"
  BY DEF Files
<1>4. Order = (m \o (IF HasBoot THEN b ELSE <<>>)) \o (IF HasUser THEN u ELSE <<>>)
  BY DEF Order
<1>5. (HasBoot /\ HasUser => Order = mbu) /\ (HasBoot /\ ~HasUser => Order = mb)
      /\ (~HasBoot /\ HasUser => Order = mu) /\ (~HasBoot /\ ~HasUser => Order = m)
  <2> HIDE DEF m, b, u, mb, mu, mbu
  <2>1. m \o b = mb
    <3>1. m \in Seq(Files) /\ b \in Seq(Files) /\ mb \in Seq(Files)
      BY <1>1, <1>2
    <3>2. /\ Len(mb) = Len(m) + Len(b)
          /\ \A i \in 1..Len(m) : mb[i] = m[i]
          /\ \A i \in 1..Len(b) : mb[Len(m) + i] = b[i]
      BY <1>1, <1>2
    <3>3. QED
      BY <3>1, <3>2, ConcatIs
  <2>2. m \o u = mu
    <3>1. m \in Seq(Files) /\ u \in Seq(Files) /\ mu \in Seq(Files)
      BY <1>1, <1>2
    <3>2. /\ Len(mu) = Len(m) + Len(u)
          /\ \A i \in 1..Len(m) : mu[i] = m[i]
          /\ \A i \in 1..Len(u) : mu[Len(m) + i] = u[i]
      BY <1>1, <1>2
    <3>3. QED
      BY <3>1, <3>2, ConcatIs
  <2>3. mb \o u = mbu
    <3>1. mb \in Seq(Files) /\ u \in Seq(Files) /\ mbu \in Seq(Files)
      BY <1>1, <1>2, <1>3
    <3>2. /\ Len(mbu) = Len(mb) + Len(u)
          /\ \A i \in 1..Len(mb) : mbu[i] = mb[i]
          /\ \A i \in 1..Len(u) : mbu[Len(mb) + i] = u[i]
      BY <1>1, <1>2, <1>3
    <3>3. QED
      BY <3>1, <3>2, ConcatIs
  <2>4. m \o <<>> = m /\ mb \o <<>> = mb
    BY <1>1, <1>2, ConcatEmptySeq
  <2>5. QED
    BY <1>4, <2>1, <2>2, <2>3, <2>4
<1>6. QED
  BY <1>5

(* What is used of it: it has the files of the run, each once, by their place. *)
LEMMA OrderFacts ==
  /\ Len(Order) \in Nat /\ DOMAIN Order = 1..Len(Order)
  /\ \A f : f \in Written <=> \E i \in DOMAIN Order : Order[i] = f
  /\ \A i, j \in DOMAIN Order : i < j <=> Place(Order[i]) < Place(Order[j])
<1>1. CASE HasBoot /\ HasUser
  <2>1. Order = <<"plugin.manifest.json", "config.boot.json", "plugin.boot.yml", "config.user.json">>
    BY <1>1, OrderIs
  <2>2. Written = {"plugin.manifest.json", "config.boot.json", "plugin.boot.yml", "config.user.json"}
    BY <1>1 DEF Written
  <2>3. QED
    BY <2>1, <2>2 DEF Place
<1>2. CASE HasBoot /\ ~HasUser
  <2>1. Order = <<"plugin.manifest.json", "config.boot.json", "plugin.boot.yml">>
    BY <1>2, OrderIs
  <2>2. Written = {"plugin.manifest.json", "config.boot.json", "plugin.boot.yml"}
    BY <1>2 DEF Written
  <2>3. QED
    BY <2>1, <2>2 DEF Place
<1>3. CASE ~HasBoot /\ HasUser
  <2>1. Order = <<"plugin.manifest.json", "config.user.json">>
    BY <1>3, OrderIs
  <2>2. Written = {"plugin.manifest.json", "config.user.json"}
    BY <1>3 DEF Written
  <2>3. QED
    BY <2>1, <2>2 DEF Place
<1>4. CASE ~HasBoot /\ ~HasUser
  <2>1. Order = <<"plugin.manifest.json">>
    BY <1>4, OrderIs
  <2>2. Written = {"plugin.manifest.json"}
    BY <1>4 DEF Written
  <2>3. QED
    BY <2>1, <2>2 DEF Place
<1>5. QED
  BY <1>1, <1>2, <1>3, <1>4

(* The places tell the files apart. *)
LEMMA Places ==
  /\ Written \subseteq Files
  /\ \A f \in Files : Place(f) \in Nat
  /\ \A f, g \in Files : Place(f) = Place(g) => f = g
<1>1. Written \subseteq Files
  BY DEF Written, Files
<1>2. /\ Place("plugin.manifest.json") = 1
      /\ Place("config.boot.json") = 2
      /\ Place("plugin.boot.yml") = 3
      /\ Place("config.user.json") = 4
  BY DEF Place
<1>3. QED
  BY <1>1, <1>2 DEF Files

(* After a file the run ends when it was the last, or is at the next one. *)
LEMMA ProceedStep ==
  ASSUME file \in Written, Proceed
  PROVE  \/ /\ End("ok")
            /\ \A f \in Written : f # file => Place(f) < Place(file)
         \/ /\ file' \in Written
            /\ step' = "prepare"
            /\ UNCHANGED <<input, run, status>>
            /\ Place(file) < Place(file')
            /\ \A f \in Written : Place(f) < Place(file') => f = file \/ Place(f) < Place(file)
<1> DEFINE i == CHOOSE j \in DOMAIN Order : Order[j] = file
<1>1. i \in DOMAIN Order /\ Order[i] = file
  BY OrderFacts
<1>2. IF i = Len(Order)
      THEN End("ok")
      ELSE /\ file' = Order[i + 1]
           /\ step' = "prepare"
           /\ UNCHANGED <<input, run, status>>
  BY DEF Proceed
<1> HIDE DEF i
<1>3. CASE i = Len(Order)
  <2>1. ASSUME NEW f \in Written, f # file
        PROVE  Place(f) < Place(file)
    <3>1. PICK j \in DOMAIN Order : Order[j] = f
      BY OrderFacts
    <3>2. j < i
      BY <1>1, <1>3, <2>1, <3>1, OrderFacts
    <3>3. QED
      BY <1>1, <3>1, <3>2, OrderFacts
  <2>2. QED
    BY <1>2, <1>3, <2>1
<1>4. CASE i # Len(Order)
  <2>1. i + 1 \in DOMAIN Order /\ i < i + 1
    BY <1>1, <1>4, OrderFacts
  <2>2. file' = Order[i + 1]
    BY <1>2, <1>4
  <2>3. file' \in Written /\ Place(file) < Place(file')
    BY <1>1, <2>1, <2>2, OrderFacts
  <2>4. ASSUME NEW f \in Written, Place(f) < Place(file')
        PROVE  f = file \/ Place(f) < Place(file)
    <3>1. PICK j \in DOMAIN Order : Order[j] = f
      BY OrderFacts
    <3>2. j < i + 1
      BY <2>1, <2>2, <2>4, <3>1, OrderFacts
    <3>3. j = i \/ j < i
      BY <1>1, <3>1, <3>2, OrderFacts
    <3>4. QED
      BY <1>1, <3>1, <3>3, OrderFacts
  <2>5. QED
    BY <1>2, <1>4, <2>3, <2>4
<1>5. QED
  BY <1>3, <1>4

(* The manifest names no file that the run does not write. *)
LEMMA NamedIsWritten == Named \subseteq Written
<1> DEFINE files == [bootConfig |-> "config.boot.json", runtimeBoot |-> "plugin.boot.yml",
                     userConfig |-> "config.user.json"]
           names == (IF HasBoot THEN {"bootConfig", "runtimeBoot"} ELSE {})
                    \cup (IF HasUser THEN {"userConfig"} ELSE {})
<1>1. Manifest.configurationFiles = [n \in names |-> files[n]]
  BY DEF Manifest, GenerateManifest, Restrict
<1>2. \A n \in names : files[n] \in Written
  BY DEF Written
<1>3. Named = {"plugin.manifest.json"} \cup {files[n] : n \in names}
  <2> HIDE DEF files, names
  <2>1. QED
    BY <1>1 DEF Named
<1>4. QED
  <2> HIDE DEF files, names
  <2>1. QED
    BY <1>2, <1>3 DEF Written

-----------------------------------------------------------------------------
(***************************************************************************)
(* The invariant is inductive.                                             *)
(***************************************************************************)

(* At first there are no files. *)
LEMMA InitInv == Init => IInv
<1> SUFFICES ASSUME Init
             PROVE  IInv
  OBVIOUS
<1> USE MaxRunsAssumption DEF Init, Absent, Exists
<1>1. TypeOK
  <2>1. Absent \in Contents
    BY DEF Contents
  <2>2. disk \in [Files -> Contents]
    BY <2>1
  <2>3. backups \in [Files -> [1..MaxRuns -> Contents]]
    BY <2>1
  <2>4. run \in 0..MaxRuns
    OBVIOUS
  <2>5. step = "rest" /\ status = "none" /\ file = "plugin.manifest.json" /\ tidied = FALSE
        /\ input \in Inputs
    OBVIOUS
  <2> HIDE DEF Init, Absent, Exists
  <2>6. QED
    BY <2>2, <2>3, <2>4, <2>5 DEF TypeOK, Files, Steps
<1>2. PastOnly /\ Blank /\ InOrder /\ AllWhole /\ BackupsByAge
  BY DEF PastOnly, Blank, InOrder, AllWhole, BackupsByAge
<1>3. QED
  BY <1>1, <1>2 DEF IInv

(* What TypeOK says of a file and its backups. *)
LEMMA ContentsTyped ==
  ASSUME TypeOK, NEW f \in Files
  PROVE  /\ disk[f] \in Contents
         /\ disk[f].run \in Nat
         /\ \A i \in 1..MaxRuns : backups[f][i] \in Contents /\ backups[f][i].run \in Nat
<1>1. disk[f] \in Contents /\ \A i \in 1..MaxRuns : backups[f][i] \in Contents
  BY DEF TypeOK
<1>2. \A c \in Contents : c.run \in Nat
  BY MaxRunsAssumption DEF Contents
<1>3. QED
  BY <1>1, <1>2

(* A step that leaves the disk alone and goes on with the same file, or ends the
   run without success. *)
LEMMA QuietStep ==
  ASSUME IInv, UNCHANGED <<input, run, file, disk, backups, tidied>>,
         \/ step' = "rest" /\ status' \in {"error", "crashed"}
         \/ step = "rest" /\ UNCHANGED <<step, status>>
         \/ /\ step # "rest" /\ UNCHANGED status
            /\ \/ step = "prepare" /\ step' = "backup"
               \/ step = "backup" /\ step' = "encode" /\ ~Exists(disk[file])
               \/ step = "encode" /\ step' = "open"
  PROVE  IInv'
<1>1. TypeOK'
  BY DEF IInv, TypeOK, Steps
<1>2. PastOnly'
  BY DEF IInv, PastOnly
<1>3. Written' = Written
  BY DEF Written, HasBoot, HasUser
<1>4. InOrder' /\ AllWhole'
  BY <1>3 DEF IInv, TypeOK, InOrder, AllWhole
<1>5. BackupsByAge'
  BY DEF IInv, BackupsByAge
<1>blank. Blank'
  BY DEF IInv, TypeOK, Blank
<1>6. QED
  BY <1>blank, <1>1, <1>2, <1>4, <1>5 DEF IInv

(* Every file is of an earlier run than the one that begins. *)
LEMMA BeginStep ==
  ASSUME IInv, Begin
  PROVE  IInv'
<1>1. run \in 0..MaxRuns /\ run' = run + 1 /\ run' \in 0..MaxRuns
  BY MaxRunsAssumption DEF Begin, IInv, TypeOK
<1>2. UNCHANGED <<disk, backups, tidied>>
  BY DEF Begin
<1>3. \A f \in Files : disk[f].run \in Nat /\ \A i \in 1..MaxRuns : backups[f][i].run \in Nat
  BY ContentsTyped DEF IInv
<1>4. TypeOK'
  BY <1>1, <1>2 DEF Begin, IInv, TypeOK, Steps, Files
<1>5. PastOnly'
  BY <1>1, <1>2, <1>3 DEF IInv, PastOnly
<1>6. InOrder' /\ AllWhole'
  <2>1. file' \in Written' /\ Place(file') = 1
    BY DEF Begin, Written, Place
  <2>2. \A f \in Written' : ~(Place(f) < 1)
    <3>1. Written' \subseteq Files
      BY DEF Written, Files
    <3>2. \A f \in Files : ~(Place(f) < 1)
      BY DEF Files, Place
    <3>3. QED
      BY <3>1, <3>2
  <2>3. file' \in Files /\ \A f \in Files : disk'[f].run < run'
    BY <1>1, <1>2, <1>3 DEF IInv, PastOnly, Begin, Files
  <2>4. QED
    BY <2>1, <2>2, <2>3 DEF Begin, InOrder, AllWhole
<1>7. BackupsByAge'
  BY <1>2 DEF IInv, BackupsByAge
<1>blank. Blank'
  BY <1>1, <1>2 DEF IInv, Blank
<1>8. QED
  BY <1>blank, <1>4, <1>5, <1>6, <1>7 DEF IInv

(* The file goes to the first free number: it is of a later run than what is
   below that number, and nothing is above it. *)
LEMMA BackupStep ==
  ASSUME IInv, Backup
  PROVE  IInv'
<1>1. PICK i \in 1..MaxRuns :
        /\ step = "backup" /\ step' = "encode"
        /\ Exists(disk[file])
        /\ FirstFree(i)
        /\ backups' = [backups EXCEPT ![file][i] = disk[file]]
        /\ disk' = [disk EXCEPT ![file] = Absent]
        /\ UNCHANGED <<input, run, file, status, tidied>>
  BY DEF Backup, Goto
<1>2. file \in Files /\ file \in Written /\ status = "running" /\ disk[file].run < run
  BY <1>1 DEF IInv, TypeOK, InOrder
<1>3. /\ disk'[file] = Absent
      /\ backups'[file][i] = disk[file]
      /\ \A f \in Files : f # file => disk'[f] = disk[f] /\ backups'[f] = backups[f]
      /\ \A j \in 1..MaxRuns : j # i => backups'[file][j] = backups[file][j]
  BY <1>1, <1>2 DEF IInv, TypeOK
<1>4. ~Exists(disk'[file])
  BY <1>3 DEF Exists, Absent
<1>5. TypeOK'
  <2>1. disk[file] \in Contents /\ Absent \in Contents
    BY <1>2, ContentsTyped, MaxRunsAssumption DEF IInv, Absent, Contents
  <2>2. disk' \in [Files -> Contents] /\ backups' \in [Files -> [1..MaxRuns -> Contents]]
    BY <1>1, <2>1 DEF IInv, TypeOK
  <2>3. QED
    BY <1>1, <1>4, <2>2 DEF IInv, TypeOK, Steps
<1>6. PastOnly'
  <2>1. ASSUME NEW f \in Files
        PROVE  /\ disk'[f].run <= run
               /\ \A j \in 1..MaxRuns : Exists(backups'[f][j]) => backups'[f][j].run < run
    <3>1. CASE f # file
      BY <1>3, <3>1 DEF IInv, PastOnly
    <3>2. CASE f = file
      BY <1>2, <1>3, <3>2 DEF IInv, TypeOK, PastOnly, Absent
    <3>3. QED
      BY <3>1, <3>2
  <2>2. QED
    BY <1>1, <2>1 DEF PastOnly, Exists
<1>7. InOrder' /\ AllWhole'
  <2>1. Written' = Written
    BY <1>1 DEF Written, HasBoot, HasUser
  <2>2. \A f \in Files : Place(f) < Place(file) \/ Place(f) > Place(file) => disk'[f] = disk[f]
    BY <1>2, <1>3, Places
  <2>3. QED
    BY <1>1, <1>2, <2>1, <2>2, Places DEF IInv, InOrder, AllWhole
<1>8. BackupsByAge'
  <2> SUFFICES ASSUME ~tidied, NEW f \in Files, NEW k \in 1..MaxRuns, Exists(backups'[f][k])
               PROVE  /\ \A j \in 1..(k - 1) : backups'[f][j].run \in 1..(backups'[f][k].run - 1)
                      /\ Exists(disk'[f]) => backups'[f][k].run < disk'[f].run
    BY <1>1 DEF BackupsByAge, Exists
  <2>1. CASE f # file
    BY <1>3, <2>1 DEF IInv, BackupsByAge
  <2>2. CASE f = file /\ k = i
    <3>1. ASSUME NEW j \in 1..(i - 1)
          PROVE  backups'[file][j].run \in 1..(disk[file].run - 1)
      <4>1. j \in 1..MaxRuns /\ j # i
        BY MaxRunsAssumption
      <4>2. Exists(backups[file][j])
        BY <1>1 DEF FirstFree
      <4>3. backups[file][j].run < disk[file].run
        BY <1>1, <1>2, <4>1, <4>2 DEF IInv, BackupsByAge
      <4>4. backups[file][j].run \in Nat /\ disk[file].run \in Nat /\ backups[file][j].run # 0
        BY <1>2, <4>1, <4>2, ContentsTyped DEF IInv, Exists
      <4>5. QED
        BY <1>3, <4>1, <4>3, <4>4
    <3>2. QED
      BY <1>3, <1>4, <2>2, <3>1
  <2>3. CASE f = file /\ k # i
    <3>1. Exists(backups[file][k])
      BY <1>3, <2>3
    <3>2. \A j \in 1..(k - 1) : backups[file][j].run \in 1..(backups[file][k].run - 1)
      BY <1>1, <1>2, <3>1 DEF IInv, BackupsByAge
    <3>3. i \notin 1..(k - 1)
      BY <1>1, <3>2 DEF FirstFree, Exists
    <3>4. \A j \in 1..(k - 1) : j \in 1..MaxRuns
      BY MaxRunsAssumption
    <3>5. QED
      BY <1>3, <1>4, <2>3, <3>2, <3>3, <3>4
  <2>4. QED
    BY <2>1, <2>2, <2>3
<1>blank. Blank'
  <2>1. ASSUME NEW f \in Files
        PROVE  /\ ~Exists(disk'[f]) => disk'[f] = Absent
               /\ \A j \in 1..MaxRuns : ~Exists(backups'[f][j]) => backups'[f][j] = Absent
    <3>1. CASE f # file
      BY <1>3, <3>1 DEF IInv, Blank
    <3>2. CASE f = file
      BY <1>1, <1>2, <1>3, <3>2 DEF IInv, Blank
    <3>3. QED
      BY <3>1, <3>2
  <2>2. QED
    BY <1>1, <2>1 DEF IInv, Blank, Exists, Absent
<1>9. QED
  BY <1>blank, <1>5, <1>6, <1>7, <1>8 DEF IInv

(* The file is of this run from now on, and all its backups are of earlier ones. *)
LEMMA OpenStep ==
  ASSUME IInv, Open
  PROVE  IInv'
<1> DEFINE new == [run |-> run, whole |-> FALSE, edited |-> FALSE]
<1>1. /\ step = "open" /\ step' = "write"
      /\ disk' = [disk EXCEPT ![file] = new]
      /\ UNCHANGED <<input, run, file, status, backups, tidied>>
  BY DEF Open, Goto
<1>2. file \in Files /\ file \in Written /\ status = "running" /\ run \in Nat
  BY <1>1, MaxRunsAssumption DEF IInv, TypeOK, InOrder
<1>3. disk'[file].run = run /\ \A f \in Files : f # file => disk'[f] = disk[f]
  BY <1>1, <1>2 DEF IInv, TypeOK
<1>4. TypeOK'
  <2>1. new \in Contents
    BY DEF IInv, TypeOK, Contents
  <2>2. disk' \in [Files -> Contents]
    BY <1>1, <2>1 DEF IInv, TypeOK
  <2>3. QED
    BY <1>1, <2>2 DEF IInv, TypeOK, Steps
<1>5. PastOnly'
  BY <1>1, <1>2, <1>3 DEF IInv, PastOnly
<1>6. InOrder' /\ AllWhole'
  <2>1. Written' = Written
    BY <1>1 DEF Written, HasBoot, HasUser
  <2>2. \A f \in Files : Place(f) < Place(file) \/ Place(f) > Place(file) => disk'[f] = disk[f]
    BY <1>2, <1>3, Places
  <2>3. QED
    BY <1>1, <1>2, <1>3, <2>1, <2>2, Places DEF IInv, InOrder, AllWhole
<1>7. BackupsByAge'
  BY <1>1, <1>3 DEF IInv, PastOnly, BackupsByAge
<1>blank. Blank'
  BY <1>1, <1>2, <1>3 DEF IInv, Blank, Exists, Absent
<1>8. QED
  BY <1>blank, <1>4, <1>5, <1>6, <1>7 DEF IInv

(* The file is whole, and the next one not begun. *)
LEMMA WriteStep ==
  ASSUME IInv, Write
  PROVE  IInv'
<1>1. /\ step = "write" /\ Proceed
      /\ disk' = [disk EXCEPT ![file].whole = TRUE]
      /\ UNCHANGED <<backups, tidied>>
  BY DEF Write
<1>2. file \in Files /\ file \in Written /\ status = "running" /\ disk[file].run = run
  BY <1>1 DEF IInv, TypeOK, InOrder
<1>3. /\ disk'[file].run = run /\ disk'[file].whole
      /\ \A f \in Files : disk'[f].run = disk[f].run
      /\ \A f \in Files : f # file => disk'[f] = disk[f]
  BY <1>1, <1>2 DEF IInv, TypeOK, Contents
<1>4. \/ /\ step' = "rest" /\ status' = "ok" /\ file' = file
         /\ \A f \in Written : f # file => Place(f) < Place(file)
      \/ /\ step' = "prepare" /\ status' = "running" /\ file' \in Written
         /\ Place(file) < Place(file')
         /\ \A f \in Written : Place(f) < Place(file') => f = file \/ Place(f) < Place(file)
  BY <1>1, <1>2, ProceedStep DEF End
<1>5. UNCHANGED <<input, run>>
  BY <1>1, <1>2, ProceedStep DEF End
<1>6. TypeOK'
  <2>1. disk' \in [Files -> Contents]
    BY <1>1, <1>2 DEF IInv, TypeOK, Contents
  <2>2. QED
    BY <1>1, <1>2, <1>4, <1>5, <2>1, Places DEF IInv, TypeOK, Steps
<1>7. PastOnly'
  BY <1>1, <1>3, <1>5 DEF IInv, PastOnly
<1>8. InOrder' /\ AllWhole'
  <2>1. Written' = Written
    BY <1>5 DEF Written, HasBoot, HasUser
  <2>2. \A f \in Written : f = file \/ Place(f) < Place(file) => disk'[f].run = run /\ disk'[f].whole
    BY <1>1, <1>3, Places DEF IInv, InOrder
  <2>3. CASE step' = "rest"
    BY <1>4, <1>5, <2>1, <2>2, <2>3 DEF InOrder, AllWhole
  <2>4. CASE step' # "rest"
    <3>1. \A f \in Files : Place(f) > Place(file') => Place(f) > Place(file)
      BY <1>2, <1>4, <2>4, Places
    <3>2. \A f \in Files : Place(f) > Place(file) => disk'[f].run < run
      BY <1>1, <1>3 DEF IInv, InOrder
    <3>3. file' \in Files
      BY <1>4, <2>4, Places
    <3>4. QED
      BY <1>4, <1>5, <2>1, <2>2, <2>4, <3>1, <3>2, <3>3 DEF InOrder, AllWhole
  <2>5. QED
    BY <2>3, <2>4
<1>9. BackupsByAge'
  BY <1>1, <1>3 DEF IInv, BackupsByAge, Exists
<1>blank. Blank'
  BY <1>1, <1>2, <1>3, <1>5 DEF IInv, Blank, Exists, Absent
<1>10. QED
  BY <1>blank, <1>6, <1>7, <1>8, <1>9 DEF IInv

(* The author changes no run and makes nothing less whole; a backup that is
   removed ends what the numbers say of age. *)
LEMMA AuthorStep ==
  ASSUME IInv, Author
  PROVE  IInv'
<1>1. Written' = Written /\ UNCHANGED <<input, run, file, step, status>> /\ step = "rest"
  BY DEF Author, Edit, Tidy, Written, HasBoot, HasUser
<1>2. CASE Edit
  <2>1. /\ disk' = [disk EXCEPT !["plugin.boot.yml"].edited = TRUE]
        /\ UNCHANGED <<backups, tidied>>
    BY <1>2 DEF Edit
  <2>2. \A f \in Files : disk'[f].run = disk[f].run /\ disk'[f].whole = disk[f].whole
    BY <2>1 DEF IInv, TypeOK, Contents
  <2>3. TypeOK'
    <3>1. disk' \in [Files -> Contents]
      BY <2>1 DEF IInv, TypeOK, Contents
    <3>2. QED
      BY <1>1, <2>1, <3>1 DEF IInv, TypeOK
  <2>4. PastOnly' /\ InOrder'
    BY <1>1, <2>1, <2>2 DEF IInv, PastOnly, InOrder
  <2>blank. Blank'
    <3>1. \A f \in Files : disk'[f] = disk[f] \/ Exists(disk'[f])
      BY <1>2, <2>1 DEF Edit, Exists, IInv, TypeOK, Contents
    <3>2. QED
      BY <1>1, <2>1, <3>1 DEF IInv, Blank, Exists, Absent
  <2>5. AllWhole'
    BY <1>1, <2>2, Places DEF IInv, AllWhole
  <2>6. BackupsByAge'
    BY <2>1, <2>2 DEF IInv, BackupsByAge, Exists
  <2>7. QED
    BY <2>3, <2>4, <2>5, <2>6, <2>blank DEF IInv
<1>3. ASSUME NEW f \in Files, NEW i \in 1..MaxRuns, Tidy(f, i)
      PROVE  IInv'
  <2>1. /\ backups' = [backups EXCEPT ![f][i] = Absent]
        /\ tidied' = TRUE
        /\ UNCHANGED disk
    BY <1>3 DEF Tidy
  <2>2. TypeOK'
    <3>1. Absent \in Contents
      BY MaxRunsAssumption DEF Absent, Contents
    <3>2. backups' \in [Files -> [1..MaxRuns -> Contents]]
      BY <2>1, <3>1 DEF IInv, TypeOK
    <3>3. QED
      BY <1>1, <2>1, <3>2 DEF IInv, TypeOK
  <2>3. \A g \in Files, j \in 1..MaxRuns :
          Exists(backups'[g][j]) => backups'[g][j] = backups[g][j]
    BY <2>1 DEF IInv, TypeOK, Exists, Absent
  <2>4. PastOnly' /\ InOrder'
    BY <1>1, <2>1, <2>3 DEF IInv, PastOnly, InOrder
  <2>blank. Blank'
    <3>1. \A g \in Files, j \in 1..MaxRuns :
            backups'[g][j] = backups[g][j] \/ backups'[g][j] = Absent
      BY <2>1 DEF IInv, TypeOK
    <3>2. QED
      BY <1>1, <2>1, <3>1 DEF IInv, Blank, Exists, Absent
  <2>5. AllWhole' /\ BackupsByAge'
    BY <1>1, <2>1 DEF IInv, AllWhole, BackupsByAge
  <2>6. QED
    BY <2>2, <2>4, <2>5, <2>blank DEF IInv
<1>4. QED
  BY <1>2, <1>3 DEF Author

(* Every step keeps the invariant. *)
LEMMA NextInv ==
  ASSUME IInv, [Next]_vars
  PROVE  IInv'
<1>1. CASE Begin \/ Backup \/ Open \/ Write \/ Author
  BY <1>1, BeginStep, BackupStep, OpenStep, WriteStep, AuthorStep
<1>2. CASE Prepare \/ NothingToBackup \/ BackupFails \/ Encode \/ OpenFails \/ WriteFails \/ Crash
  BY <1>2, QuietStep
  DEF Prepare, NothingToBackup, BackupFails, Encode, OpenFails, WriteFails, Crash, Goto, End
<1>3. CASE Rest \/ UNCHANGED vars
  <2>1. IInv' <=> IInv
    BY <1>3 DEF Rest, vars, IInv, TypeOK, PastOnly, Blank, InOrder, AllWhole, BackupsByAge, Written,
                HasBoot, HasUser
  <2>2. QED
    BY <2>1
<1>4. QED
  BY <1>1, <1>2, <1>3 DEF Next, WriteArtifacts

(* IInv holds in every reachable state. *)
THEOREM Invariance == Spec => []IInv
  BY InitInv, NextInv, PTL DEF Spec

-----------------------------------------------------------------------------
(* Every variable keeps its type, and a file that is about to be encoded or
   opened is not there: it has been moved to a backup. *)
THEOREM TypeCorrect == Spec => []TypeOK
<1>1. IInv => TypeOK
  BY DEF IInv
<1>2. QED
  BY <1>1, Invariance, PTL

(* Unless the author has removed some, the backups of a file are numbered
   without gaps in the order of their runs, all older than the file. *)
THEOREM BackupsTellTheirAge == Spec => []BackupsByAge
<1>1. IInv => BackupsByAge
  BY DEF IInv
<1>2. QED
  BY <1>1, Invariance, PTL

(* WriteArtifacts returns without an error only when the manifest, and every
   file that it names, was written by this run to its end. *)
THEOREM SuccessIsWhole == Spec => []SuccessMeansWhole
<1>1. IInv => SuccessMeansWhole
  BY NamedIsWritten DEF IInv, AllWhole, SuccessMeansWhole
<1>2. QED
  BY <1>1, Invariance, PTL

(* A version is found at a path or at one of its numbers. *)
LEMMA VersionsAre ==
  ASSUME NEW f, NEW v
  PROVE  v \in Versions(f) <=>
            v = Version(disk[f]) \/ \E i \in 1..MaxRuns : v = Version(backups[f][i])
BY DEF Versions

(* Only Backup, Open and Write of a run touch the disk: Backup moves a version
   to a number that had none, Open makes a file where none was, Write finishes
   a version. *)
LEMMA HistoryStep ==
  ASSUME IInv, Next, step # "rest", NEW f \in Files, NEW v \in Versions(f), v # Version(Absent)
  PROVE  v \in Versions(f)'
<1>1. v = Version(disk[f]) \/ \E i \in 1..MaxRuns : v = Version(backups[f][i])
  BY VersionsAre
<1>2. SUFFICES v = Version(disk'[f]) \/ \E i \in 1..MaxRuns : v = Version(backups'[f][i])
  BY DEF Versions, Version
<1>3. CASE UNCHANGED <<disk, backups>>
  BY <1>1, <1>3
<1>4. CASE Backup
  <2>1. PICK i \in 1..MaxRuns :
          /\ FirstFree(i)
          /\ backups' = [backups EXCEPT ![file][i] = disk[file]]
          /\ disk' = [disk EXCEPT ![file] = Absent]
    BY <1>4 DEF Backup
  <2>2. file \in Files
    BY DEF IInv, TypeOK
  <2>3. /\ f # file => disk'[f] = disk[f] /\ backups'[f] = backups[f]
        /\ backups'[file][i] = disk[file]
        /\ \A j \in 1..MaxRuns : j # i => backups'[file][j] = backups[file][j]
    BY <2>1, <2>2 DEF IInv, TypeOK
  <2>4. Version(backups[file][i]) = Version(Absent)
    <3>1. ~Exists(backups[file][i])
      BY <2>1 DEF FirstFree
    <3>2. QED
      BY <2>2, <3>1 DEF IInv, Blank
  <2>5. QED
    BY <1>1, <2>3, <2>4
<1>5. CASE Open
  <2>1. /\ disk' = [disk EXCEPT ![file] = [run |-> run, whole |-> FALSE, edited |-> FALSE]]
        /\ UNCHANGED backups
        /\ ~Exists(disk[file])
    BY <1>5 DEF Open, IInv, TypeOK
  <2>2. f # file => disk'[f] = disk[f]
    BY <2>1 DEF IInv, TypeOK
  <2>3. Version(disk[file]) = Version(Absent)
    BY <2>1 DEF IInv, TypeOK, Blank
  <2>4. QED
    BY <1>1, <2>1, <2>2, <2>3
<1>6. CASE Write
  <2>1. disk' = [disk EXCEPT ![file].whole = TRUE] /\ UNCHANGED backups
    BY <1>6 DEF Write
  <2>2. Version(disk'[f]) = Version(disk[f])
    BY <2>1 DEF IInv, TypeOK, Contents, Version
  <2>3. QED
    BY <1>1, <2>1, <2>2
<1>7. QED
  BY <1>3, <1>4, <1>5, <1>6
  DEF Next, WriteArtifacts, Author, Edit, Tidy, Rest, Begin, Prepare, NothingToBackup, BackupFails,
      Encode, OpenFails, WriteFails, Crash, vars

(* No step of a run, failing or killed at whatever point, takes away a version
   of a file that was at its path or in a backup. *)
THEOREM NothingIsLost == Spec => HistoryIsKept
<1>1. IInv /\ [Next]_vars =>
        [step # "rest" => \A f \in Files : Versions(f) \ {Version(Absent)} \subseteq Versions(f)']_vars
  BY HistoryStep
<1>2. QED
  BY <1>1, Invariance, PTL DEF Spec, HistoryIsKept

-----------------------------------------------------------------------------
(***************************************************************************)
(* The two descriptions of the main service.                               *)
(***************************************************************************)

(* The data of a file could be made before the file was touched, and so of any
   file that the run has written to. *)
Prepared ==
    /\ step \in {"backup", "encode", "open", "write"} => Prepares(file)
    /\ \A f \in Files : Exists(disk[f]) /\ disk[f].run = run => Prepares(f)

(* What can be made depends on the input alone. *)
LEMMA PreparesSame ==
  ASSUME UNCHANGED input, NEW f, Prepares(f)
  PROVE  Prepares(f)'
BY DEF Prepares, BootDef, UserDef

(* A step that begins no run keeps it: a file comes to be of the run only by
   Open, after Prepare. *)
LEMMA PreparedStep ==
  ASSUME IInv, Prepared, [Next]_vars
  PROVE  Prepared'
<1>1. ASSUME UNCHANGED <<input, run>>,
             step' \in {"backup", "encode", "open", "write"} => file' = file /\ Prepares(file),
             \A f \in Files : Exists(disk'[f]) =>
                \/ Exists(disk[f]) /\ disk'[f].run = disk[f].run
                \/ Prepares(f)
      PROVE  Prepared'
  <2>1. \A f \in Files : Exists(disk'[f]) /\ disk'[f].run = run => Prepares(f)
    BY <1>1 DEF Prepared
  <2>2. \A f \in Files : Prepares(f) => Prepares(f)'
    BY <1>1, PreparesSame
  <2>3. \A f \in Files : Exists(disk'[f]) /\ disk'[f].run = run' => Prepares(f)'
    BY <1>1, <2>1, <2>2
  <2>4. ASSUME step' \in {"backup", "encode", "open", "write"}
        PROVE  Prepares(file)'
    <3>1. file' = file /\ Prepares(file)
      BY <1>1, <2>4
    <3>2. QED
      BY <1>1, <3>1 DEF Prepares, BootDef, UserDef
  <2>5. QED
    BY <2>3, <2>4 DEF Prepared, Exists
<1>2. CASE Begin
  <2>1. step' = "prepare" /\ run' = run + 1 /\ disk' = disk
    BY <1>2 DEF Begin
  <2>2. \A f \in Files : disk'[f].run # run'
    BY <2>1, MaxRunsAssumption, ContentsTyped DEF IInv, PastOnly, TypeOK
  <2>3. QED
    BY <2>1, <2>2 DEF Prepared
<1>3. CASE Prepare
  BY <1>1, <1>3 DEF Prepare, Goto, End
<1>4. CASE NothingToBackup \/ BackupFails \/ Encode \/ OpenFails \/ WriteFails \/ Crash
  BY <1>1, <1>4 DEF Prepared, NothingToBackup, BackupFails, Encode, OpenFails, WriteFails, Crash, Goto, End
<1>5. CASE Backup
  <2>1. /\ step = "backup" /\ Goto("encode")
        /\ disk' = [disk EXCEPT ![file] = Absent]
    BY <1>5 DEF Backup
  <2>2. \A f \in Files : Exists(disk'[f]) => disk'[f] = disk[f]
    BY <2>1 DEF IInv, TypeOK, Exists, Absent
  <2>3. QED
    BY <1>1, <2>1, <2>2 DEF Prepared, Goto
<1>6. CASE Open
  <2>1. /\ step = "open" /\ Goto("write")
        /\ disk' = [disk EXCEPT ![file] = [run |-> run, whole |-> FALSE, edited |-> FALSE]]
    BY <1>6 DEF Open
  <2>2. Prepares(file) /\ \A f \in Files : f # file => disk'[f] = disk[f]
    BY <2>1 DEF Prepared, IInv, TypeOK
  <2>3. QED
    BY <1>1, <2>1, <2>2 DEF Goto
<1>7. CASE Write
  <2>1. Proceed /\ disk' = [disk EXCEPT ![file].whole = TRUE] /\ step = "write"
    BY <1>7 DEF Write
  <2>2. \A f \in Files : disk'[f].run = disk[f].run
    BY <2>1 DEF IInv, TypeOK, Contents
  <2>3. file \in Written
    BY <2>1 DEF IInv, InOrder
  <2>4. UNCHANGED <<input, run>> /\ step' \in {"rest", "prepare"}
    BY <2>1, <2>3, ProceedStep DEF End
  <2>5. QED
    BY <1>1, <2>2, <2>4 DEF Exists
<1>8. CASE Author
  <2>1. UNCHANGED <<input, run, file, step>> /\ step = "rest"
    BY <1>8 DEF Author, Edit, Tidy
  <2>2. \A f \in Files : disk'[f].run = disk[f].run
    BY <1>8 DEF Author, Edit, Tidy, IInv, TypeOK, Contents
  <2>3. QED
    BY <1>1, <2>1, <2>2 DEF Exists
<1>9. CASE Rest \/ UNCHANGED vars
  <2>1. UNCHANGED vars
    BY <1>9 DEF Rest
  <2>2. QED
    BY <1>1, <2>1 DEF vars, Prepared
<1>10. QED
  BY <1>2, <1>3, <1>4, <1>5, <1>6, <1>7, <1>8, <1>9 DEF Next, WriteArtifacts

LEMMA PreparedInvariance == Spec => []Prepared
<1>1. Init => Prepared
  BY DEF Init, Prepared, Exists, Absent
<1>2. QED
  BY <1>1, PreparedStep, Invariance, PTL DEF Spec

(* A whole file of the last run is one that it prepared. *)
LEMMA WholeIsPrepared ==
  ASSUME IInv, Prepared, NEW f \in Files, disk[f].run = run, disk[f].whole
  PROVE  Prepares(f)
<1>1. Exists(disk[f])
  BY DEF IInv, Blank, Absent
<1>2. QED
  BY <1>1 DEF Prepared

(* What a run has written of the boot model in config.boot.json and in
   plugin.boot.yml, even if it has failed since, are the same service and the
   same keys, and the system's variables are set by the system, once. *)
THEOREM DescriptionsAreOne == Spec => []DescriptionsAgree
<1>1. IInv /\ Prepared => DescriptionsAgree
  <2>1. SUFFICES ASSUME IInv, Prepared,
                        \A f \in {"config.boot.json", "plugin.boot.yml"} : disk[f].run = run /\ disk[f].whole
                 PROVE  DescriptionsAgree
    BY DEF DescriptionsAgree
  <2>2. "config.boot.json" \in Files /\ "plugin.boot.yml" \in Files
    BY DEF Files
  <2>3. Prepares("config.boot.json") /\ Prepares("plugin.boot.yml")
    BY <2>1, <2>2, WholeIsPrepared
  <2>4. BootDef.ok /\ input.meta.mainServiceID # ""
    BY <2>3 DEF Prepares, BootDataGenerates
  <2>5. PICK model, meta, def : model = input.boot /\ meta = input.meta /\ def = BootDef
    OBVIOUS
  <2>6. model.fields \in Seq(StructFields)
    BY <2>1, <2>5, InputsAssumption DEF IInv, TypeOK
  <2>7. IsParsed(def, model, "boot")
    BY <2>4, <2>5 DEF BootDef, ParseBootConfig, IsParsed
  <2>8. PICK fields : AreParsed(fields, model, def)
    BY <2>6, <2>7, ModelIs
  <2>9. PICK service, configs, environment, keys :
          /\ service = BootConfig.services[1]
          /\ configs = ConfigFieldEntries(def)
          /\ environment = BootYAML.environment
          /\ keys = {PluginEntry(entry.key) : entry \in ToSet(configs)}
    OBVIOUS
  <2>10. service.id = meta.mainServiceID /\ service.configs = configs
    BY <2>4, <2>5, <2>9 DEF BootConfig, GenerateBootConfig
  <2>11. BootYAML.mainServiceId = meta.mainServiceID
    BY <2>5 DEF BootYAML, GenerateBootYAMLData
  <2>12. environment = BuildBootYAMLEnvironment(GenerateBootYAMLData(meta, def).environment)
    BY <2>5, <2>9 DEF BootYAML, GenerateBootYAMLData
  <2>13. /\ IsPrefix(SYSTEM_ENVIRONMENT_VARIABLES, environment)
         /\ \A i \in DOMAIN environment \ DOMAIN SYSTEM_ENVIRONMENT_VARIABLES : ~OfSystem(environment[i])
         /\ {e \in ToSet(environment) : ~OfSystem(e)} = {key \in keys : ~OfSystem(key)}
    BY <2>8, <2>9, <2>12, EnvironmentIs
  <2>14. QED
    BY <2>9, <2>10, <2>11, <2>13, Zenon DEF DescriptionsAgree, OfSystem
<1>2. QED
  BY <1>1, Invariance, PreparedInvariance, PTL
=============================================================================
