----------------------------- MODULE Artifacts -----------------------------
(***************************************************************************)
(* WriteArtifacts (artifacts.go): the files that describe a plugin, written*)
(* one after the other into a directory in which earlier runs have left    *)
(* theirs, each moved to a numbered backup first (WriteJSONFile,           *)
(* WriteBootYAMLFile and backupExistingFile of generator.go).              *)
(*                                                                         *)
(* Any step of a run may fail, and its process may end at any step.  One   *)
(* generator runs at a time.  Between the runs the author fills in the     *)
(* scaffold that plugin.boot.yml is, and tidies backups away.              *)
(***************************************************************************)
EXTENDS ConfigModel

CONSTANTS
    Inputs,     \* what a run may be given: metadata, registrations and models
    MaxRuns     \* bound: the runs of the generator

ASSUME MaxRunsAssumption == MaxRuns \in Nat \ {0}

ASSUME InputsAssumption ==
    \A i \in Inputs : {i.boot.fields, i.user.fields} \subseteq Seq(StructFields)

Files == {"plugin.manifest.json", "config.boot.json", "plugin.boot.yml", "config.user.json"}

VARIABLES
    input,      \* what the last run was given
    run,        \* its number, 0 before the first
    file,       \* the file it is at
    step,       \* what comes next for that file, "rest" between runs
    status,     \* how the last run has ended
    disk,       \* the file at each path
    backups,    \* the files at <path>.1, <path>.2, ...
    tidied      \* whether the author has removed a backup

vars == <<input, run, file, step, status, disk, backups, tidied>>

(* A file has the content that a run wrote, all of it or a part, and what the
   author has made of it.  No run wrote what is absent. *)
Contents == [run : 0..MaxRuns, whole : BOOLEAN, edited : BOOLEAN]
Absent == [run |-> 0, whole |-> FALSE, edited |-> FALSE]
Exists(content) == content.run # 0

Steps == {"prepare", "backup", "encode", "open", "write"}

TypeOK ==
    /\ input \in Inputs
    /\ run \in 0..MaxRuns
    /\ file \in Files
    /\ step \in Steps \cup {"rest"}
    /\ status \in {"none", "running", "ok", "error", "crashed"}
    /\ status = "running" <=> step # "rest"
    /\ disk \in [Files -> Contents]
    /\ backups \in [Files -> [1..MaxRuns -> Contents]]
    /\ tidied \in BOOLEAN
    /\ step \in {"encode", "open"} => ~Exists(disk[file])

Init ==
    /\ input \in Inputs
    /\ run = 0
    /\ file = "plugin.manifest.json"
    /\ step = "rest"
    /\ status = "none"
    /\ disk = [f \in Files |-> Absent]
    /\ backups = [f \in Files |-> [i \in 1..MaxRuns |-> Absent]]
    /\ tidied = FALSE

-----------------------------------------------------------------------------
(***************************************************************************)
(* What a run writes.                                                      *)
(***************************************************************************)
HasBoot == input.boot.kind # "nil"
HasUser == input.user.kind # "nil"

BootDef == ParseBootConfig(input.boot)
UserDef == ParseUserConfig(input.user)

Manifest == GenerateManifest(input.meta, input.registered, HasBoot, HasUser)
BootConfig == GenerateBootConfig(input.meta, BootDef)
UserConfig == GenerateUserConfig(input.meta, UserDef)
BootYAML ==
    LET data == GenerateBootYAMLData(input.meta, BootDef)
    IN  [data EXCEPT !.environment = BuildBootYAMLEnvironment(@)]

(* The files in the order of their writing, those of a nil model left out. *)
Order ==
    <<"plugin.manifest.json">>
    \o (IF HasBoot THEN <<"config.boot.json", "plugin.boot.yml">> ELSE <<>>)
    \o (IF HasUser THEN <<"config.user.json">> ELSE <<>>)

(* Whether the data of a file can be made: its model parses, the boot file
   has a main service. *)
Prepares(f) ==
    CASE f = "plugin.manifest.json" -> TRUE
      [] f = "config.boot.json" -> BootDef.ok
      [] f = "plugin.boot.yml" -> BootDataGenerates(input.meta, BootDef)
      [] f = "config.user.json" -> UserDef.ok

(* Whether it can be encoded; the boot file is put together line by line. *)
Encodes(f) ==
    CASE f = "config.boot.json" -> EncodableConfigs(BootConfig.services[1].configs)
      [] f = "config.user.json" -> EncodableConfigs(UserConfig.configs)
      [] OTHER -> TRUE

-----------------------------------------------------------------------------
(***************************************************************************)
(* A run.                                                                  *)
(***************************************************************************)
Begin ==
    /\ step = "rest"
    /\ run < MaxRuns
    /\ input' \in Inputs
    /\ run' = run + 1
    /\ file' = "plugin.manifest.json"
    /\ step' = "prepare"
    /\ status' = "running"
    /\ UNCHANGED <<disk, backups, tidied>>

End(how) ==
    /\ step' = "rest"
    /\ status' = how
    /\ UNCHANGED <<input, run, file>>

Goto(s) ==
    /\ step' = s
    /\ UNCHANGED <<input, run, file, status>>

(* The next file, or the end of the run. *)
Proceed ==
    LET i == CHOOSE j \in DOMAIN Order : Order[j] = file
    IN  IF i = Len(Order)
        THEN End("ok")
        ELSE /\ file' = Order[i + 1]
             /\ step' = "prepare"
             /\ UNCHANGED <<input, run, status>>

(* Parsing or generating the data fails before the file is touched. *)
Prepare ==
    /\ step = "prepare"
    /\ IF Prepares(file) THEN Goto("backup") ELSE End("error")
    /\ UNCHANGED <<disk, backups, tidied>>

(* backupExistingFile: the file goes to the first free number. *)
NothingToBackup ==
    /\ step = "backup"
    /\ ~Exists(disk[file])
    /\ Goto("encode")
    /\ UNCHANGED <<disk, backups, tidied>>

(* MUTATION: the backup has one number, whose file the rename replaces. *)
FirstNumber(i) == i = 1

(* MUTATION: any free number will do. *)
AnyFree(i) == ~Exists(backups[file][i])

FirstFree(i) ==
    /\ ~Exists(backups[file][i])
    /\ \A j \in 1..(i - 1) : Exists(backups[file][j])

Backup ==
    \E i \in 1..MaxRuns :
        /\ step = "backup"
        /\ Exists(disk[file])
        /\ FirstFree(i)
        /\ backups' = [backups EXCEPT ![file][i] = disk[file]]
        /\ disk' = [disk EXCEPT ![file] = Absent]
        /\ Goto("encode")
        /\ UNCHANGED tidied

(* A stat or the rename fails. *)
BackupFails ==
    /\ step = "backup"
    /\ End("error")
    /\ UNCHANGED <<disk, backups, tidied>>

(* MUTATION: the file is opened before its data is encoded. *)
EncodeIntoFile ==
    /\ step = "encode"
    /\ disk' = [disk EXCEPT ![file] = [run |-> run, whole |-> FALSE, edited |-> FALSE]]
    /\ IF Encodes(file) THEN Goto("open") ELSE End("error")
    /\ UNCHANGED <<backups, tidied>>

(* Encoding comes after the backup: when it fails there is no file left. *)
Encode ==
    /\ step = "encode"
    /\ IF Encodes(file) THEN Goto("open") ELSE End("error")
    /\ UNCHANGED <<disk, backups, tidied>>

(* os.WriteFile opens an empty file and writes the bytes. *)
Open ==
    /\ step = "open"
    /\ disk' = [disk EXCEPT ![file] = [run |-> run, whole |-> FALSE, edited |-> FALSE]]
    /\ Goto("write")
    /\ UNCHANGED <<backups, tidied>>

OpenFails ==
    /\ step = "open"
    /\ End("error")
    /\ UNCHANGED <<disk, backups, tidied>>

Write ==
    /\ step = "write"
    /\ disk' = [disk EXCEPT ![file].whole = TRUE]
    /\ Proceed
    /\ UNCHANGED <<backups, tidied>>

(* MUTATION: the error of a write is not looked at. *)
WriteFailsQuietly ==
    /\ step = "write"
    /\ Proceed
    /\ UNCHANGED <<disk, backups, tidied>>

(* Some of the bytes, or none, are in the file. *)
WriteFails ==
    /\ step = "write"
    /\ End("error")
    /\ UNCHANGED <<disk, backups, tidied>>

(* The process is killed. *)
Crash ==
    /\ step # "rest"
    /\ End("crashed")
    /\ UNCHANGED <<disk, backups, tidied>>

WriteArtifacts ==
    \/ Begin \/ Prepare
    \/ NothingToBackup \/ Backup \/ BackupFails
    \/ Encode \/ Open \/ OpenFails \/ Write \/ WriteFails
    \/ Crash

-----------------------------------------------------------------------------
(***************************************************************************)
(* The author.                                                             *)
(***************************************************************************)

(* The scaffold's TODOs are filled in. *)
Edit ==
    /\ step = "rest"
    /\ Exists(disk["plugin.boot.yml"])
    /\ disk' = [disk EXCEPT !["plugin.boot.yml"].edited = TRUE]
    /\ UNCHANGED <<input, run, file, step, status, backups, tidied>>

(* A backup is removed. *)
Tidy(f, i) ==
    /\ step = "rest"
    /\ Exists(backups[f][i])
    /\ backups' = [backups EXCEPT ![f][i] = Absent]
    /\ tidied' = TRUE
    /\ UNCHANGED <<input, run, file, step, status, disk>>

Author == Edit \/ \E f \in Files, i \in 1..MaxRuns : Tidy(f, i)

Rest == step = "rest" /\ UNCHANGED vars

Next == WriteArtifacts \/ Author \/ Rest

Spec == Init /\ [][Next]_vars

-----------------------------------------------------------------------------
(***************************************************************************)
(* Properties.                                                             *)
(***************************************************************************)

(* Nothing is lost to a run: whatever was at a path or in one of its backups
   is there after every step of it, whichever files earlier runs left behind,
   at whatever point they failed or died.  The author's work on the boot file
   is among what is kept. *)
Version(content) == [run |-> content.run, edited |-> content.edited]
Versions(f) == {Version(c) : c \in {disk[f]} \cup {backups[f][i] : i \in 1..MaxRuns}}

HistoryIsKept ==
    [][step # "rest" => \A f \in Files : Versions(f) \ {Version(Absent)} \subseteq Versions(f)']_vars

(* The backups tell their age: the higher the number the later the run, and
   all are older than the file itself, unless the author has taken some. *)
BackupsByAge ==
    ~tidied =>
        \A f \in Files : \A i \in 1..MaxRuns :
            Exists(backups[f][i]) =>
                /\ \A j \in 1..(i - 1) : backups[f][j].run \in 1..(backups[f][i].run - 1)
                /\ Exists(disk[f]) => backups[f][i].run < disk[f].run

(* Success means whole: after a run without an error its manifest, and every
   file that the manifest names, are at their paths, whole and of this run;
   a file that a failed write has cut short is never taken for one. *)
Named == {"plugin.manifest.json"} \cup
    {Manifest.configurationFiles[n] : n \in DOMAIN Manifest.configurationFiles}

SuccessMeansWhole ==
    status = "ok" => \A f \in Named : disk[f].run = run /\ disk[f].whole

(* The two descriptions of the main service agree whenever a run has written
   both, even if it fails later: its id, and its environment, in which every
   system variable comes first and once, set by the system, and every other
   configuration key is declared, and nothing else. *)
DescriptionsAgree ==
    (\A f \in {"config.boot.json", "plugin.boot.yml"} : disk[f].run = run /\ disk[f].whole) =>
        LET service == BootConfig.services[1]
            environment == BootYAML.environment
            keys == {PluginEntry(entry.key) : entry \in ToSet(service.configs)}
        IN  /\ service.id = BootYAML.mainServiceId
            /\ IsPrefix(SYSTEM_ENVIRONMENT_VARIABLES, environment)
            /\ \A i \in DOMAIN environment \ DOMAIN SYSTEM_ENVIRONMENT_VARIABLES :
                    environment[i].name \notin ToSet(SystemEnvKeys)
            /\ {e \in ToSet(environment) : e.name \notin ToSet(SystemEnvKeys)}
                    = {key \in keys : key.name \notin ToSet(SystemEnvKeys)}
=============================================================================
