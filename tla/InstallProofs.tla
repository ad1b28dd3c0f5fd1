--------------------------- MODULE InstallProofs ---------------------------
(***************************************************************************)
(* Theorems about module Install.  KeySecret and ServiceReady are not      *)
(* inductive: that the key may be copied, or the service created, rests on *)
(* what the steps before it have done, and a command may be cut off after  *)
(* any of them.  StepInv says what each step may rely on.                  *)
(***************************************************************************)
EXTENDS Install, TLAPS

Saved == {"readable", "progdir", "progacl", "exe", "exeing", "exeacl", "create"}
Closed == {"load", "save", "default"}
Copied == {"secret"} \cup Closed
Installing == {"mkdir", "dacl", "logs", "logacl", "copy", "copying"} \cup Copied \cup Saved

\* A command that installs or takes away under a registered service is known for it,
\* and one that created the service was not.
Unregistered ==
    /\ pc \in Installing \cup {"data", "purge"} => (scm = "registered" => blind)
    /\ pc = "restrict" => ~blind

\* The directory is closed before anything is put into it.
ClosedFirst ==
    pc \in {"logs", "logacl", "copy", "copying", "secret", "load", "save", "default"} =>
        dir \in {"closed", "granted"}

\* What was given stays as it was found, and is not copied onto itself.
SourceKept ==
    pc \in Installing =>
        /\ opt.own => data["conf"] = "whole"
        /\ opt.self => data["program"] = "whole"
        /\ pc \in {"copy", "copying"} => ~opt.own /\ ~opt.inPlace
        /\ pc \in {"exe", "exeing"} => ~opt.self

\* The configuration is whole before it is protected, and protected before it is named.
ConfReady ==
    /\ pc \in Copied => data[Dest] = "whole"
    /\ pc \in Closed => acl[Dest] = "secret"
    /\ pc = "save" => data["app"] # "none"
    /\ pc \in Saved => data["app"] # "none" /\ data[names] = "whole" /\ acl[names] = "secret"

\* The program is whole and protected before the service is created.
ProgramReady ==
    /\ pc \in {"exe", "exeing", "exeacl", "create"} => prog = "closed"
    /\ pc \in {"exeacl", "create"} => data["program"] = "whole"
    /\ pc = "create" => acl["program"] = "program"

StepInv == Unregistered /\ ClosedFirst /\ SourceKept /\ ConfReady /\ ProgramReady

IInv == TypeOK /\ KeySecret /\ ServiceReady /\ StepInv

-----------------------------------------------------------------------------
\* A command that has ended has no options.
LEMMA NoOptionsType == NoOptions \in Options
  BY DEF NoOptions, Options

\* Every step keeps the types; a file is put only into a directory that is there.
LEMMA TypeStep ==
    ASSUME IInv, [Next]_vars
    PROVE  TypeOK'
<1> USE DEF Files, InRoot, disk, service, TypeOK, StepInv, ClosedFirst
<1>1. CASE Install
  <2>1. blind' \in BOOLEAN  BY <1>1, Zenon DEF Install, NotOpened
  <2> QED  BY <1>1, <2>1 DEF IInv, Install, At, NotOpened
<1>2. CASE MakeDataDir  BY <1>2 DEF IInv, MakeDataDir, At, Goto
<1>3. CASE CloseDataDir  BY <1>3 DEF IInv, CloseDataDir, At, Goto
<1>4. CASE EnsureLogDir  BY <1>4 DEF IInv, EnsureLogDir, At, Goto, Written, Protected, Dest,
             Source
<1>5. CASE CopyConf  BY <1>5 DEF IInv, CopyConf, At, Goto, Written
<1>6. CASE ProtectSecret  BY <1>6 DEF IInv, ProtectSecret, At, Goto, Protected, Dest, Source
<1>7. CASE Save
  <2>1. Settings \in {"none", "whole", "custom", "mixed", "unreadable"}
    BY DEF IInv, Settings
  <2>2. opt' \in Options  BY <1>7 DEF IInv, Save, Options, NoOptions
  <2>3. names' \in {"conf", "operator"}  BY <1>7 DEF Save, Dest, Source
  <2> QED  BY <1>7, <2>1, <2>2, <2>3 DEF IInv, Save, Protected
<1>8. CASE ProtectApp  BY <1>8 DEF IInv, ProtectApp, At, Goto, Protected
<1>9. CASE EnsureProgramDir  BY <1>9 DEF IInv, EnsureProgramDir, At, Goto
<1>10. CASE CopyProgram  BY <1>10 DEF IInv, CopyProgram, At, Goto, Written
<1>11. CASE ProtectProgram  BY <1>11 DEF IInv, ProtectProgram, At, Goto, Protected
<1>12. CASE CreateService  BY <1>12 DEF IInv, CreateService, At, Goto
<1>13. CASE Restrict
  <2>1. blind' = blind /\ ~blind  BY <1>13 DEF IInv, Restrict, At, Unregistered
  <2>2. pc' \in {"start", "idle"} /\ opt' \in Options
    BY <1>13, NoOptionsType DEF IInv, Restrict, Goto, Done
  <2> QED  BY <1>13, <2>1, <2>2 DEF IInv, Restrict
<1>14. CASE Start  BY <1>14 DEF IInv, Start, At, Goto
<1>15. CASE Wait
  <2>1. pc' \in {"start", "idle"} /\ opt' \in Options
    BY <1>15, NoOptionsType DEF IInv, Wait, Goto, Done
  <2> QED  BY <1>15, <2>1 DEF IInv, Wait
<1>16. CASE StartService  BY <1>16 DEF IInv, StartService, At
<1>17. CASE StopService  BY <1>17 DEF IInv, StopService, At, Options
<1>18. CASE Uninstall
  <2>1. blind' \in BOOLEAN  BY <1>18, Zenon DEF IInv, Uninstall, NotOpened
  <2> QED  BY <1>18, <2>1 DEF IInv, Uninstall, At, NotOpened
<1>19. CASE UninstallStop  BY <1>19 DEF IInv, UninstallStop, At
<1>20. CASE Delete
  <2>1. blind' \in BOOLEAN /\ ~blind'  BY <1>20, Zenon DEF Delete
  <2>2. scm' \in {"none", "marked"}  BY <1>20 DEF IInv, Delete
  <2>3. pc' = "data" /\ opt' = opt /\ run' = run /\ UNCHANGED disk  BY <1>20 DEF Delete, Goto
  <2> QED  BY <2>1, <2>2, <2>3 DEF IInv
<1>21. CASE RemoveData  BY <1>21 DEF IInv, RemoveData, At, Goto, Removed
<1>22. CASE RemoveDir  BY <1>22, NoOptionsType DEF IInv, RemoveDir, At, Done, Removed
<1>23. CASE Repair  BY <1>23 DEF IInv, Repair, At, Goto
<1>24. CASE RepairSecret  BY <1>24 DEF IInv, RepairSecret, At, Goto, Named
<1>25. CASE RepairFile
  <2>1. acl' \in [Files -> {"inherit", "secret", "readable", "modify", "program"}]
    BY <1>25 DEF IInv, RepairFile, Repaired, Protected
  <2>2. pc' \in {"rsecret", "rapp", "rprog", "idle"} /\ opt' \in Options
    BY <1>25, NoOptionsType DEF IInv, RepairFile, Goto, Done
  <2> QED  BY <1>25, <2>1, <2>2 DEF IInv, RepairFile
<1>26. CASE RepairProgramDir  BY <1>26 DEF IInv, RepairProgramDir, At, Goto
<1>27. CASE Abandon  BY <1>27, NoOptionsType DEF IInv, Abandon, Done
<1>28. CASE Service  BY <1>28 DEF IInv, Service
<1>29. CASE Forget  BY <1>29 DEF IInv, Forget, At
<1>30. CASE Foreground  BY <1>30 DEF IInv, Foreground, Written
<1>31. CASE Grant  BY <1>31 DEF IInv, Grant
<1>32. CASE Edit  BY <1>32 DEF IInv, Edit, At
<1>33. CASE LoadSettings  BY <1>33 DEF IInv, LoadSettings, At, Goto
<1>34. CASE UNCHANGED vars  BY <1>34 DEF IInv, vars
<1> QED
  BY <1>1, <1>2, <1>3, <1>4, <1>5, <1>6, <1>7, <1>8, <1>9, <1>10, <1>11, <1>12, <1>13,
     <1>14, <1>15, <1>16, <1>17, <1>18, <1>19, <1>20, <1>21, <1>22, <1>23, <1>24, <1>25,
     <1>26, <1>27, <1>28, <1>29, <1>30, <1>31, <1>32, <1>33, <1>34 DEF Next

\* A copy of the key inherits only from a directory that was closed before, and a
\* directory is made anew only when nothing is in it.
LEMMA KeyStep ==
    ASSUME IInv, [Next]_vars
    PROVE  KeySecret'
<1> USE DEF Files, InRoot, Options, NoOptions, disk, service, TypeOK, KeySecret, StepInv,
             ClosedFirst
<1>1. CASE Install  BY <1>1 DEF IInv, Install, At, NotOpened
<1>2. CASE MakeDataDir  BY <1>2 DEF IInv, MakeDataDir, At, Goto
<1>3. CASE CloseDataDir  BY <1>3 DEF IInv, CloseDataDir, At, Goto
<1>4. CASE EnsureLogDir  BY <1>4 DEF IInv, EnsureLogDir, At, Goto, Written, Protected, Dest,
             Source
<1>5. CASE CopyConf  BY <1>5 DEF IInv, CopyConf, At, Goto, Written
<1>6. CASE ProtectSecret  BY <1>6 DEF IInv, ProtectSecret, At, Goto, Protected, Dest, Source
<1>7. CASE Save  BY <1>7 DEF IInv, Save, At, Goto, Protected, Settings, Dest, Source
<1>8. CASE ProtectApp  BY <1>8 DEF IInv, ProtectApp, At, Goto, Protected
<1>9. CASE EnsureProgramDir  BY <1>9 DEF IInv, EnsureProgramDir, At, Goto
<1>10. CASE CopyProgram  BY <1>10 DEF IInv, CopyProgram, At, Goto, Written
<1>11. CASE ProtectProgram  BY <1>11 DEF IInv, ProtectProgram, At, Goto, Protected
<1>12. CASE CreateService  BY <1>12 DEF IInv, CreateService, At, Goto
<1>13. CASE Restrict  BY <1>13 DEF IInv, Restrict, At, Goto, Done
<1>14. CASE Start  BY <1>14 DEF IInv, Start, At, Goto
<1>15. CASE Wait  BY <1>15 DEF IInv, Wait, At, Goto, Done
<1>16. CASE StartService  BY <1>16 DEF IInv, StartService, At
<1>17. CASE StopService  BY <1>17 DEF IInv, StopService, At
<1>18. CASE Uninstall  BY <1>18 DEF IInv, Uninstall, At, NotOpened
<1>19. CASE UninstallStop  BY <1>19 DEF IInv, UninstallStop, At
<1>20. CASE Delete  BY <1>20 DEF IInv, Delete, At, Goto
<1>21. CASE RemoveData  BY <1>21 DEF IInv, RemoveData, At, Goto, Removed
<1>22. CASE RemoveDir  BY <1>22 DEF IInv, RemoveDir, At, Done, Removed
<1>23. CASE Repair  BY <1>23 DEF IInv, Repair, At, Goto
<1>24. CASE RepairSecret  BY <1>24 DEF IInv, RepairSecret, At, Goto, Named
<1>25. CASE RepairFile  BY <1>25 DEF IInv, RepairFile, At, Goto, Done, Repaired, Protected
<1>26. CASE RepairProgramDir  BY <1>26 DEF IInv, RepairProgramDir, At, Goto
<1>27. CASE Abandon  BY <1>27 DEF IInv, Abandon, Done
<1>28. CASE Service  BY <1>28 DEF IInv, Service
<1>29. CASE Forget  BY <1>29 DEF IInv, Forget, At
<1>30. CASE Foreground  BY <1>30 DEF IInv, Foreground, Written
<1>31. CASE Grant  BY <1>31 DEF IInv, Grant
<1>32. CASE Edit  BY <1>32 DEF IInv, Edit, At
<1>33. CASE LoadSettings  BY <1>33 DEF IInv, LoadSettings, At, Goto
<1>34. CASE UNCHANGED vars  BY <1>34 DEF IInv, vars
<1> QED
  BY <1>1, <1>2, <1>3, <1>4, <1>5, <1>6, <1>7, <1>8, <1>9, <1>10, <1>11, <1>12, <1>13,
     <1>14, <1>15, <1>16, <1>17, <1>18, <1>19, <1>20, <1>21, <1>22, <1>23, <1>24, <1>25,
     <1>26, <1>27, <1>28, <1>29, <1>30, <1>31, <1>32, <1>33, <1>34 DEF Next

\* What a registered service needs was there when it was created, and the steps
\* that take it away or write it run only when there is no such service.
LEMMA ReadyStep ==
    ASSUME IInv, [Next]_vars
    PROVE  ServiceReady'
<1> USE DEF Files, InRoot, Options, NoOptions, disk, service, TypeOK, ServiceReady, StepInv,
             Unregistered, ConfReady, ProgramReady, Installing, Copied, Closed, Saved
<1>1. CASE Install  BY <1>1 DEF IInv, Install, At, NotOpened
<1>2. CASE MakeDataDir  BY <1>2 DEF IInv, MakeDataDir, At, Goto
<1>3. CASE CloseDataDir  BY <1>3 DEF IInv, CloseDataDir, At, Goto
<1>4. CASE EnsureLogDir  BY <1>4 DEF IInv, EnsureLogDir, At, Goto, Written, Protected, Dest,
             Source
<1>5. CASE CopyConf  BY <1>5 DEF IInv, CopyConf, At, Goto, Written
<1>6. CASE ProtectSecret  BY <1>6 DEF IInv, ProtectSecret, At, Goto, Protected, Dest, Source
<1>7. CASE Save  BY <1>7 DEF IInv, Save, At, Goto, Protected, Settings, Dest, Source
<1>8. CASE ProtectApp  BY <1>8 DEF IInv, ProtectApp, At, Goto, Protected
<1>9. CASE EnsureProgramDir  BY <1>9 DEF IInv, EnsureProgramDir, At, Goto
<1>10. CASE CopyProgram  BY <1>10 DEF IInv, CopyProgram, At, Goto, Written
<1>11. CASE ProtectProgram  BY <1>11 DEF IInv, ProtectProgram, At, Goto, Protected
<1>12. CASE CreateService  BY <1>12 DEF IInv, CreateService, At, Goto
<1>13. CASE Restrict  BY <1>13 DEF IInv, Restrict, At, Goto, Done
<1>14. CASE Start  BY <1>14 DEF IInv, Start, At, Goto
<1>15. CASE Wait  BY <1>15 DEF IInv, Wait, At, Goto, Done
<1>16. CASE StartService  BY <1>16 DEF IInv, StartService, At
<1>17. CASE StopService  BY <1>17 DEF IInv, StopService, At
<1>18. CASE Uninstall  BY <1>18 DEF IInv, Uninstall, At, NotOpened
<1>19. CASE UninstallStop  BY <1>19 DEF IInv, UninstallStop, At
<1>20. CASE Delete  BY <1>20 DEF IInv, Delete, At, Goto
<1>21. CASE RemoveData  BY <1>21 DEF IInv, RemoveData, At, Goto, Removed
<1>22. CASE RemoveDir  BY <1>22 DEF IInv, RemoveDir, At, Done, Removed
<1>23. CASE Repair  BY <1>23 DEF IInv, Repair, At, Goto
<1>24. CASE RepairSecret  BY <1>24 DEF IInv, RepairSecret, At, Goto, Named
<1>25. CASE RepairFile  BY <1>25 DEF IInv, RepairFile, At, Goto, Done, Repaired, Protected
<1>26. CASE RepairProgramDir  BY <1>26 DEF IInv, RepairProgramDir, At, Goto
<1>27. CASE Abandon  BY <1>27 DEF IInv, Abandon, Done
<1>28. CASE Service  BY <1>28 DEF IInv, Service
<1>29. CASE Forget  BY <1>29 DEF IInv, Forget, At
<1>30. CASE Foreground  BY <1>30 DEF IInv, Foreground, Written
<1>31. CASE Grant  BY <1>31 DEF IInv, Grant
<1>32. CASE Edit  BY <1>32 DEF IInv, Edit, At
<1>33. CASE LoadSettings  BY <1>33 DEF IInv, LoadSettings, At, Goto
<1>34. CASE UNCHANGED vars  BY <1>34, SMTT(30) DEF IInv, vars
<1> QED
  BY <1>1, <1>2, <1>3, <1>4, <1>5, <1>6, <1>7, <1>8, <1>9, <1>10, <1>11, <1>12, <1>13,
     <1>14, <1>15, <1>16, <1>17, <1>18, <1>19, <1>20, <1>21, <1>22, <1>23, <1>24, <1>25,
     <1>26, <1>27, <1>28, <1>29, <1>30, <1>31, <1>32, <1>33, <1>34 DEF Next

\* Each step finds what it relies on.
LEMMA StepStep ==
    ASSUME IInv, [Next]_vars
    PROVE  StepInv'
<1> USE DEF Files, InRoot, Options, NoOptions, disk, service, TypeOK, StepInv, Unregistered,
             ClosedFirst, SourceKept, ConfReady, ProgramReady, Installing, Copied, Closed, Saved,
             Dest, Source
<1>1. CASE Install  BY <1>1 DEF IInv, Install, At, NotOpened
<1>2. CASE MakeDataDir  BY <1>2 DEF IInv, MakeDataDir, At, Goto
<1>3. CASE CloseDataDir  BY <1>3 DEF IInv, CloseDataDir, At, Goto
<1>4. CASE EnsureLogDir  BY <1>4 DEF IInv, EnsureLogDir, At, Goto, Written, Protected, Dest,
             Source
<1>5. CASE CopyConf  BY <1>5 DEF IInv, CopyConf, At, Goto, Written
<1>6. CASE ProtectSecret  BY <1>6 DEF IInv, ProtectSecret, At, Goto, Protected, Dest, Source
<1>7. CASE Save  BY <1>7 DEF IInv, Save, At, Goto, Protected, Settings, Dest, Source
<1>8. CASE ProtectApp  BY <1>8 DEF IInv, ProtectApp, At, Goto, Protected
<1>9. CASE EnsureProgramDir  BY <1>9 DEF IInv, EnsureProgramDir, At, Goto
<1>10. CASE CopyProgram  BY <1>10 DEF IInv, CopyProgram, At, Goto, Written
<1>11. CASE ProtectProgram  BY <1>11 DEF IInv, ProtectProgram, At, Goto, Protected
<1>12. CASE CreateService  BY <1>12 DEF IInv, CreateService, At, Goto
<1>13. CASE Restrict  BY <1>13 DEF IInv, Restrict, At, Goto, Done
<1>14. CASE Start  BY <1>14 DEF IInv, Start, At, Goto
<1>15. CASE Wait  BY <1>15 DEF IInv, Wait, At, Goto, Done
<1>16. CASE StartService  BY <1>16 DEF IInv, StartService, At
<1>17. CASE StopService  BY <1>17 DEF IInv, StopService, At
<1>18. CASE Uninstall  BY <1>18 DEF IInv, Uninstall, At, NotOpened
<1>19. CASE UninstallStop  BY <1>19 DEF IInv, UninstallStop, At
<1>20. CASE Delete  BY <1>20 DEF IInv, Delete, At, Goto
<1>21. CASE RemoveData  BY <1>21 DEF IInv, RemoveData, At, Goto, Removed
<1>22. CASE RemoveDir  BY <1>22 DEF IInv, RemoveDir, At, Done, Removed
<1>23. CASE Repair  BY <1>23 DEF IInv, Repair, At, Goto
<1>24. CASE RepairSecret  BY <1>24 DEF IInv, RepairSecret, At, Goto, Named
<1>25. CASE RepairFile  BY <1>25 DEF IInv, RepairFile, At, Goto, Done, Repaired, Protected
<1>26. CASE RepairProgramDir  BY <1>26 DEF IInv, RepairProgramDir, At, Goto
<1>27. CASE Abandon  BY <1>27 DEF IInv, Abandon, Done
<1>28. CASE Service  BY <1>28 DEF IInv, Service
<1>29. CASE Forget  BY <1>29 DEF IInv, Forget, At
<1>30. CASE Foreground  BY <1>30 DEF IInv, Foreground, Written
<1>31. CASE Grant  BY <1>31 DEF IInv, Grant
<1>32. CASE Edit  BY <1>32 DEF IInv, Edit, At
<1>33. CASE LoadSettings  BY <1>33 DEF IInv, LoadSettings, At, Goto
<1>34. CASE UNCHANGED vars  BY <1>34 DEF IInv, vars
<1> QED
  BY <1>1, <1>2, <1>3, <1>4, <1>5, <1>6, <1>7, <1>8, <1>9, <1>10, <1>11, <1>12, <1>13,
     <1>14, <1>15, <1>16, <1>17, <1>18, <1>19, <1>20, <1>21, <1>22, <1>23, <1>24, <1>25,
     <1>26, <1>27, <1>28, <1>29, <1>30, <1>31, <1>32, <1>33, <1>34 DEF Next

\* No other step writes config.json.
LEMMA SettingsStep ==
    ASSUME TypeOK, [Next]_vars
    PROVE  Survives
<1> SUFFICES ASSUME data["app"] \in {"custom", "mixed"}, data'["app"] # data["app"]
             PROVE  \/ pc = "save" /\ opt.set /\ data'["app"] = "mixed"
                    \/ pc = "default"
                    \/ pc = "data" /\ ~opt.keep
                    \/ pc = "purge" /\ opt.purge
                    \/ pc = "idle"
  BY DEF Survives
<1> USE DEF TypeOK, Files, InRoot, disk, service
<1>1. CASE EnsureLogDir  BY <1>1 DEF EnsureLogDir, Written
<1>2. CASE CopyConf  BY <1>2 DEF CopyConf, Written
<1>3. CASE Save  BY <1>3 DEF Save, Settings
<1>4. CASE CopyProgram  BY <1>4 DEF CopyProgram, Written
<1>5. CASE ProtectProgram  BY <1>5 DEF ProtectProgram
<1>6. CASE RemoveData  BY <1>6 DEF RemoveData, At, Removed
<1>7. CASE RemoveDir  BY <1>7 DEF RemoveDir, At, Removed
<1>8. CASE Foreground  BY <1>8 DEF Foreground, Written
<1>9. CASE Edit  BY <1>9 DEF Edit, At
<1>10. CASE UNCHANGED data  BY <1>10
<1> QED
  BY <1>1, <1>2, <1>3, <1>4, <1>5, <1>6, <1>7, <1>8, <1>9, <1>10 DEF Next, vars,
     Install, MakeDataDir, CloseDataDir, ProtectSecret, LoadSettings, ProtectApp, EnsureProgramDir,
     CreateService, Restrict, Start, Wait, StartService, StopService, Uninstall,
     UninstallStop, Delete, Repair, RepairSecret, RepairFile, RepairProgramDir, Abandon,
     Service, Forget, Grant

-----------------------------------------------------------------------------
(* Theorems *)

\* The facts each step relies on hold at every moment of every sequence of
\* commands of control_windows.go, whichever of them failed or were cut off.
THEOREM InstallInv == Spec => []IInv
<1>1. ASSUME Init  PROVE IInv
  <2> USE DEF Init, Files, InRoot
  <2>1. TypeOK  BY <1>1, NoOptionsType DEF TypeOK
  <2>2. KeySecret /\ ServiceReady  BY <1>1 DEF KeySecret, ServiceReady
  <2>3. StepInv
    BY <1>1 DEF StepInv, Unregistered, ClosedFirst, SourceKept, ConfReady, ProgramReady,
                Installing, Copied, Closed, Saved
  <2> QED  BY <2>1, <2>2, <2>3 DEF IInv
<1>2. IInv /\ [Next]_vars => IInv'
  BY TypeStep, KeyStep, ReadyStep, StepStep DEF IInv
<1> QED  BY <1>1, <1>2, PTL DEF Spec

\* The directory, the files, their ACLs and the registration stay well typed; in
\* particular config.json is never found half written.
THEOREM InstallTypes == Spec => []TypeOK
<1>1. IInv => TypeOK  BY DEF IInv
<1> QED  BY <1>1, InstallInv, PTL

\* The private key is never readable to other users: not between the steps of
\* Install, not after one that was cut off, and not after any number of them.
THEOREM KeyStaysSecret == Spec => []KeySecret
<1>1. IInv => KeySecret  BY DEF IInv
<1> QED  BY <1>1, InstallInv, PTL

\* A registered service finds its program and its configuration whole and
\* protected, whatever Install, Uninstall and RepairPermissions did before and
\* wherever they were cut off, until one of them takes an error of OpenService for
\* its absence.
THEOREM ServiceStaysReady == Spec => []ServiceReady
<1>1. IInv => ServiceReady  BY DEF IInv
<1> QED  BY <1>1, InstallInv, PTL

\* Install changes an administrator's settings only by the overrides it was given,
\* unless it could not read them, and an uninstall with --keep-settings not at all;
\* wherever they are cut off.
THEOREM SettingsAreKept == Spec => SettingsSurvive
<1>1. IInv /\ [Next]_vars => [Survives]_vars  BY SettingsStep DEF IInv
<1> QED  BY <1>1, InstallInv, PTL DEF Spec, SettingsSurvive
=============================================================================
