------------------------------ MODULE Install ------------------------------
(***************************************************************************)
(* What `awgsocks install`, `uninstall`, `repair`, `start`, `stop` and     *)
(* `restart` leave on the machine (internal/service/control_windows.go,    *)
(* with internal/winsys and the load and save of internal/config): the     *)
(* data directory, the files and their ACLs, and the registration of the   *)
(* service.  One command runs at a time.  Every step of it may return an   *)
(* error, and its process may be killed, between any two steps.            *)
(*                                                                         *)
(* Content is abstracted to "none", "part" (a copy that was cut off) and   *)
(* "whole"; that of config.json to whose settings it holds: "whole" stands *)
(* for those of an install, "custom" for an administrator's, "mixed" for   *)
(* an administrator's with the overrides of an install.  An ACL is the one *)
(* some call applied, or "inherit" for what the directory gives.           *)
(***************************************************************************)
EXTENDS Naturals

\* client.conf, config.json, the log directory and awgsocks.exe of older versions.
InRoot == {"conf", "app", "logs", "legacy"}

Files == InRoot \cup {"operator", "program"}   \* the .conf given, awgsocks.exe installed

VARIABLES
    dir,    \* the data directory
    data,   \* Files -> content
    acl,    \* Files -> ACL
    names,  \* the file config.json names as the tunnel's configuration
    prog,   \* the program directory
    scm,    \* the registration: "none", "registered" or "marked" for deletion
    run,    \* the service process
    blind,  \* history: a command did not see the service that is registered
    pc,     \* the step the command is at
    opt     \* its options

disk == <<dir, data, acl, names, prog>>
service == <<scm, run, blind>>
vars == <<disk, service, pc, opt>>

\* set stands for --socks, --log-level and --no-autostart.
Options == [own : BOOLEAN, inPlace : BOOLEAN, self : BOOLEAN, set : BOOLEAN,
            start : BOOLEAN, purge : BOOLEAN, keep : BOOLEAN]
NoOptions == [own |-> FALSE, inPlace |-> FALSE, self |-> FALSE, set |-> FALSE,
              start |-> FALSE, purge |-> FALSE, keep |-> FALSE]

\* Where a command can be, and what the files can hold.
TypeOK ==
    /\ dir \in {"none", "default", "closed", "granted"}
    /\ data \in [Files -> {"none", "part", "whole", "custom", "mixed", "unreadable"}]
    /\ data["program"] \in {"none", "part", "whole"} /\ data["operator"] = "whole"
    /\ data["conf"] \in {"none", "part", "whole"}
    /\ data["app"] \in {"none", "whole", "custom", "mixed", "unreadable"}
    /\ dir = "none" => \A f \in InRoot : data[f] = "none"
    /\ acl \in [Files -> {"inherit", "secret", "readable", "modify", "program"}]
    /\ names \in {"conf", "operator"}
    /\ prog \in {"none", "default", "closed"}
    /\ scm \in {"none", "registered", "marked"}
    /\ blind \in BOOLEAN /\ (blind => scm = "registered")
    /\ run \in {"stopped", "starting", "running", "stopping"}
    /\ opt \in Options
    /\ pc \in {"idle", "mkdir", "dacl", "logs", "logacl", "copy", "copying", "secret",
               "load", "save", "default", "readable", "progdir", "progacl", "exe", "exeing",
               "exeacl", "create", "restrict", "start", "up", "stop", "down",
               "delete", "data", "purge", "rlogs", "rsecret", "rlegacy", "rapp", "rprog", "rexe"}

\* A machine without AWGSocks, or with the program that an older version left in ProgramData.
Init ==
    /\ \E old \in BOOLEAN :
         /\ dir = IF old THEN "default" ELSE "none"
         /\ data = [f \in Files |-> IF f = "operator" \/ (old /\ f = "legacy") THEN "whole"
                                    ELSE "none"]
    /\ acl = [f \in Files |-> "inherit"]
    /\ names = "conf"
    /\ prog = "none"
    /\ scm = "none" /\ run = "stopped" /\ blind = FALSE
    /\ pc = "idle" /\ opt = NoOptions

-----------------------------------------------------------------------------
(* Steps *)

At(label) == pc = label
Goto(label) == pc' = label /\ opt' = opt
Done == pc' = "idle" /\ opt' = NoOptions

\* applyDACL on a file.
Protected(f, sddl) == acl' = [acl EXCEPT ![f] = sddl]

\* A file that is created inherits; one that is overwritten keeps its ACL.
Written(f, content) ==
    /\ data' = [data EXCEPT ![f] = content]
    /\ acl' = IF data[f] = "none" THEN [acl EXCEPT ![f] = "inherit"] ELSE acl

\* Files are gone, with their ACLs and with what config.json names.
Removed(gone) ==
    /\ data' = [f \in Files |-> IF f \in gone THEN "none" ELSE data[f]]
    /\ acl' = [f \in Files |-> IF f \in gone THEN "inherit" ELSE acl[f]]
    /\ names' = IF "app" \in gone THEN "conf" ELSE names

\* A step returns an error, or the process is killed before it.
Abandon ==
    /\ pc # "idle"
    /\ Done
    /\ UNCHANGED <<disk, service>>

-----------------------------------------------------------------------------
(* Install *)

Source == IF opt.own THEN "conf" ELSE "operator"
Dest == IF opt.inPlace THEN Source ELSE "conf"

\* scm.OpenService, when it returns an error: any error is taken for a service that
\* is not there.
NotOpened == blind' = (blind \/ scm = "registered")

\* Mutant: an installed service is not looked for.
InstallAgain ==
    /\ At("idle")
    /\ \E o \in Options :
         /\ o.own => data["conf"] = "whole"
         /\ o.self => data["program"] = "whole"
         /\ ~o.purge /\ ~o.keep
         /\ opt' = o
    /\ pc' = "mkdir"
    /\ UNCHANGED <<disk, service>>

\* The configuration is valid and no service is found.  The one given may be the
\* copy in the data directory, the program the installed one.
Install ==
    /\ At("idle")
    /\ \E o \in Options :
         /\ o.own => data["conf"] = "whole"
         /\ o.self => data["program"] = "whole"
         /\ ~o.purge /\ ~o.keep
         /\ opt' = o
    /\ pc' = "mkdir"
    /\ NotOpened
    /\ UNCHANGED <<disk, scm, run>>

\* Mutant: a directory that exists is taken to be closed.
MakeDataDirOnce ==
    /\ At("mkdir")
    /\ dir' = IF dir = "none" THEN "default" ELSE dir
    /\ Goto(IF dir = "none" THEN "dacl" ELSE "logs")
    /\ UNCHANGED <<data, acl, names, prog, service>>

\* ensureDir creates the directory, ...
MakeDataDir ==
    /\ At("mkdir")
    /\ dir' = IF dir = "none" THEN "default" ELSE dir
    /\ Goto("dacl")
    /\ UNCHANGED <<data, acl, names, prog, service>>

\* ... and closes it, whether it was new or not.
CloseDataDir ==
    /\ At("dacl")
    /\ dir' = "closed"
    /\ Goto("logs")
    /\ UNCHANGED <<data, acl, names, prog, service>>

EnsureLogDir ==
    /\ \/ At("logs") /\ Written("logs", "whole") /\ Goto("logacl")
       \/ /\ At("logacl") /\ Protected("logs", "modify") /\ data' = data
          /\ Goto(IF Dest = Source THEN "secret" ELSE "copy")
    /\ UNCHANGED <<dir, names, prog, service>>

\* copyFile truncates and then fills.
CopyConf ==
    /\ \/ At("copy") /\ Written("conf", "part") /\ Goto("copying")
       \/ At("copying") /\ Written("conf", "whole") /\ Goto("secret")
    /\ UNCHANGED <<dir, names, prog, service>>

ProtectSecret ==
    /\ At("secret")
    /\ Protected(Dest, "secret")
    /\ Goto("load")
    /\ UNCHANGED <<dir, data, names, prog, service>>

\* installApp: the settings are kept when there are any and they can be read.  When
\* Stat or LoadApp returns an error, whatever it is, the defaults take their place.
LoadSettings ==
    /\ At("load")
    /\ \/ data["app"] \in {"whole", "custom", "mixed"} /\ Goto("save")
       \/ Goto("default")
    /\ UNCHANGED <<disk, service>>

\* ... and the options given override what was kept.
Settings ==
    CASE pc = "default" -> "whole"
      [] pc = "save" /\ data["app"] = "custom" /\ opt.set -> "mixed"
      [] OTHER -> data["app"]

\* Mutant: config.json is truncated and then written.
SaveInPlace ==
    /\ pc \in {"save", "default"}
    /\ names' = Dest
    /\ \/ data' = [data EXCEPT !["app"] = Settings] /\ Goto("readable")
       \/ data' = [data EXCEPT !["app"] = "part"] /\ Done
    /\ Protected("app", "inherit")
    /\ UNCHANGED <<dir, prog, service>>

\* App.Save writes a temporary file and renames it, so that all of it happens at
\* once or, when one of the two fails, nothing.
Save ==
    /\ pc \in {"save", "default"}
    /\ data' = [data EXCEPT !["app"] = Settings]
    /\ names' = Dest
    /\ Protected("app", "inherit")
    /\ pc' = "readable" /\ opt' = [NoOptions EXCEPT !.self = opt.self, !.start = opt.start]
    /\ UNCHANGED <<dir, prog, service>>

ProtectApp ==
    /\ At("readable")
    /\ Protected("app", "readable")
    /\ Goto("progdir")
    /\ UNCHANGED <<dir, data, names, prog, service>>

EnsureProgramDir ==
    /\ \/ At("progdir") /\ prog' = (IF prog = "none" THEN "default" ELSE prog) /\ Goto("progacl")
       \/ At("progacl") /\ prog' = "closed" /\ Goto(IF opt.self THEN "exeacl" ELSE "exe")
    /\ UNCHANGED <<dir, data, acl, names, service>>

\* installProgram; the scripts beside the program are left out.  Windows refuses to
\* overwrite a program that runs: copyWhenReleased waits for it or gives up.
CopyProgram ==
    /\ \/ At("exe") /\ run = "stopped" /\ Written("program", "part") /\ Goto("exeing")
       \/ At("exeing") /\ Written("program", "whole") /\ Goto("exeacl")
    /\ UNCHANGED <<dir, names, prog, service>>

\* ProtectProgram, and removeLegacyBinary, which may fail.
ProtectProgram ==
    /\ At("exeacl")
    /\ Protected("program", "program")
    /\ data' \in {data, [data EXCEPT !["legacy"] = "none"]}
    /\ Goto("create")
    /\ UNCHANGED <<dir, names, prog, service>>

\* CreateService fails for a service that exists, marked or not.
CreateService ==
    /\ At("create") /\ scm = "none"
    /\ scm' = "registered"
    /\ Goto("restrict")
    /\ UNCHANGED <<disk, run, blind>>

\* restrictPrivileges.  When it fails the service is deleted, the result of which
\* is not looked at.
Restrict ==
    /\ At("restrict")
    /\ \/ scm' = scm /\ (IF opt.start THEN Goto("start") ELSE Done)
       \/ scm' \in {scm, "marked"} /\ Done
    /\ UNCHANGED <<disk, run, blind>>

-----------------------------------------------------------------------------
(* Start, stop and restart *)

\* s.Start.
Start ==
    /\ At("start") /\ scm = "registered" /\ run = "stopped"
    /\ run' = "starting"
    /\ Goto("up")
    /\ UNCHANGED <<disk, scm, blind>>

\* waitForState.  It gives up after stateWaitTimeout, which ends a command and
\* not an uninstall.
Wait ==
    /\ \/ At("up") /\ run = "running" /\ Done
       \/ At("down") /\ run = "stopped" /\ (IF opt.start THEN Goto("start") ELSE Done)
    /\ UNCHANGED <<disk, service>>

StartService ==
    /\ At("idle") /\ scm # "none" /\ run # "running"
    /\ pc' = "start" /\ opt' = opt
    /\ UNCHANGED <<disk, service>>

\* StopService, and RestartService, which goes on to start it.
StopService ==
    /\ At("idle") /\ scm # "none" /\ run = "running"
    /\ run' = "stopping"
    /\ pc' = "down"
    /\ \E again \in BOOLEAN : opt' = [opt EXCEPT !.start = again]
    /\ UNCHANGED <<disk, scm, blind>>

-----------------------------------------------------------------------------
(* Uninstall *)

\* The service is opened; when that fails, for whatever reason, there is none.
Uninstall ==
    /\ At("idle")
    /\ \E o \in Options :
         /\ ~o.own /\ ~o.inPlace /\ ~o.self /\ ~o.set /\ ~o.start
         /\ ~(o.purge /\ o.keep)
         /\ opt' = o
    /\ \/ scm # "none" /\ pc' = "stop" /\ blind' = blind
       \/ pc' = "data" /\ NotOpened
    /\ UNCHANGED <<disk, scm, run>>

\* The service is told to stop and waited for; both may fail with a warning.
UninstallStop ==
    /\ At("stop")
    /\ \/ run = "running" /\ run' = "stopping" /\ pc' = pc
       \/ run' = run /\ pc' = "delete"
    /\ opt' = opt
    /\ UNCHANGED <<disk, scm, blind>>

\* s.Delete, which fails for a service that is marked already.
Delete ==
    /\ At("delete") /\ scm # "marked"
    /\ scm' = (IF scm = "registered" THEN "marked" ELSE scm) /\ blind' = FALSE
    /\ Goto("data")
    /\ UNCHANGED <<disk, run>>

\* removeInstalledData and removeLegacyBinary; a removal may fail.
RemoveData ==
    /\ At("data")
    /\ \E gone \in SUBSET ({"legacy"} \cup (IF opt.keep THEN {} ELSE {"app", "logs"})) :
         Removed(gone)
    /\ Goto("purge")
    /\ UNCHANGED <<dir, prog, service>>

\* The whole directory with --purge (RemoveAll may stop half way); otherwise the
\* directory if it is empty.
RemoveDir ==
    /\ At("purge")
    /\ \/ \E gone \in SUBSET InRoot :
            /\ opt.purge
            /\ Removed(gone)
            /\ dir' = IF gone = InRoot THEN "none" ELSE dir
       \/ /\ ~opt.purge
          /\ UNCHANGED <<data, acl, names>>
          /\ dir' = IF \A f \in InRoot : data[f] = "none" THEN "none" ELSE dir
    /\ Done
    /\ UNCHANGED <<prog, service>>

-----------------------------------------------------------------------------
(* RepairPermissions *)

\* Directories first.
Repair ==
    /\ At("idle") /\ dir # "none"
    /\ dir' = "closed"
    /\ Goto("rlogs")
    /\ UNCHANGED <<data, acl, names, prog, service>>

\* The ACL of a file that is there.
Repaired(f, sddl) == IF data[f] = "none" THEN acl' = acl ELSE Protected(f, sddl)

\* What LoadApp names: the file in config.json, or the default without one.
Named == IF data["app"] = "none" THEN {"conf"} ELSE {names}

\* Settings that cannot be read name nothing, and so does a failing read.
RepairSecret ==
    /\ At("rsecret")
    /\ \/ /\ data["app"] # "unreadable"
          /\ acl' = [f \in Files |-> IF f \in Named /\ data[f] # "none" THEN "secret" ELSE acl[f]]
       \/ acl' = acl
    /\ Goto("rlegacy")
    /\ UNCHANGED <<dir, data, names, prog, service>>

RepairFile ==
    /\ \/ At("rlogs") /\ Repaired("logs", "modify") /\ Goto("rsecret")
       \/ At("rlegacy") /\ Repaired("legacy", "secret") /\ Goto("rapp")
       \/ At("rapp") /\ Repaired("app", "readable") /\ Goto("rprog")
       \/ At("rexe") /\ Repaired("program", "program") /\ Done
    /\ UNCHANGED <<dir, data, names, prog, service>>

RepairProgramDir ==
    /\ At("rprog")
    /\ prog' = IF prog = "none" THEN prog ELSE "closed"
    /\ Goto("rexe")
    /\ UNCHANGED <<dir, data, acl, names, service>>

-----------------------------------------------------------------------------
(* The service control manager, the user and the administrator *)

\* The process comes up or fails to, goes down, ends unexpectedly, and is started
\* at boot or after an unexpected end.
Service ==
    /\ \/ run = "starting" /\ run' \in {"running", "stopped"}
       \/ run \in {"stopping", "running"} /\ run' = "stopped"
       \/ run = "stopped" /\ scm = "registered" /\ run' = "starting"
    /\ UNCHANGED <<disk, scm, blind, pc, opt>>

\* A marked service is gone when its process and the last handle are.
Forget ==
    /\ scm = "marked" /\ run = "stopped" /\ At("idle")
    /\ scm' = "none"
    /\ UNCHANGED <<disk, run, blind, pc, opt>>

\* `awgsocks run` by any user: logging.New makes the directory of its logs.
Foreground ==
    /\ dir' = IF dir = "none" THEN "default" ELSE dir
    /\ dir \in {"none", "default"} /\ data["logs"] = "none"
    /\ Written("logs", "whole")
    /\ UNCHANGED <<names, prog, service, pc, opt>>

\* Explorer's "grant permanent access".
Grant ==
    /\ dir = "closed"
    /\ dir' = "granted"
    /\ UNCHANGED <<data, acl, names, prog, service, pc, opt>>

\* An administrator edits config.json.
Edit ==
    /\ At("idle") /\ data["app"] # "none"
    /\ \E s \in {"custom", "unreadable"} : data' = [data EXCEPT !["app"] = s]
    /\ UNCHANGED <<dir, acl, names, prog, service, pc, opt>>

-----------------------------------------------------------------------------
Next ==
    \/ Install \/ MakeDataDir \/ CloseDataDir \/ EnsureLogDir \/ CopyConf \/ ProtectSecret
    \/ LoadSettings \/ Save \/ ProtectApp \/ EnsureProgramDir \/ CopyProgram
    \/ ProtectProgram \/ CreateService \/ Restrict \/ Start \/ Wait \/ StartService \/ StopService
    \/ Uninstall \/ UninstallStop \/ Delete \/ RemoveData \/ RemoveDir
    \/ Repair \/ RepairSecret \/ RepairFile \/ RepairProgramDir
    \/ Abandon \/ Service \/ Forget \/ Foreground \/ Grant \/ Edit

Spec == Init /\ [][Next]_vars

-----------------------------------------------------------------------------
(* Properties *)

\* "a private key on disk is not world-readable", at no moment of any sequence of
\* commands that failed or were cut off: a configuration never has the ACL of the
\* settings, and the copy in ProgramData inherits from a directory that was closed
\* first.
KeySecret ==
    /\ \A f \in {"conf", "operator"} : acl[f] \in {"inherit", "secret"}
    /\ (data["conf"] # "none" /\ acl["conf"] = "inherit") => dir # "default"

\* As long as a service is registered, what it runs and reads is there, complete
\* and protected: nothing is taken away before the service is deleted, and no
\* copy is made under it.  The exception is a command that could not open the
\* service and went on as if there were none.
ServiceReady ==
    (scm = "registered" /\ ~blind) =>
        /\ data["program"] = "whole" /\ acl["program"] = "program" /\ prog = "closed"
        /\ data["app"] # "none"
        /\ data[names] = "whole" /\ acl[names] = "secret"

\* What may become of an administrator's settings in a step.
Survives ==
    data["app"] \in {"custom", "mixed"} =>
        \/ data'["app"] = data["app"]
        \/ pc = "save" /\ opt.set /\ data'["app"] = "mixed"
        \/ pc = "default"
        \/ pc = "data" /\ ~opt.keep
        \/ pc = "purge" /\ opt.purge
        \/ pc = "idle"

\* "install keeps the settings in an existing config.json": settings that were read
\* are written again with no more than the overrides asked for.  They are lost only
\* to an install that could not read them, which says "written with the defaults",
\* to an uninstall that was not asked to keep them, and to an edit.
SettingsSurvive == [][Survives]_vars
=============================================================================
