--------------------------- MODULE InstallerProofs ---------------------------
(***************************************************************************)
(* Proofs about the installer: the original configuration of containerd is *)
(* never lost, success means that the runtime is loaded, and the nodes     *)
(* share one certificate authority.                                        *)
(***************************************************************************)
EXTENDS Installer, TLAPS

USE DEF fileVars, caVars, Goto, Step, Original

\* Only a containerd that is configured directly is upgraded: with k3s and
\* rke2 an upgrade leaves what version 1 has put into config.toml there until
\* the next restart, and the backup is taken of that.
PlainUpgrade == Upgradable \subseteq {"containerd"}

-----------------------------------------------------------------------------
(* The invariants. *)

\* The backup is the original, it is there whenever the configuration is
\* another one, and it is only dropped after it was restored.
BackupOriginal ==
    /\ backup \in {None, Original}
    /\ Target \notin {None, Original} => backup # None
    /\ pc \in {"migrated", "dropBackup", "removed-"} => Target = Original
    /\ pc = "removed" => Target \in {None, Original}

\* What is in the configuration was added by one of the two versions, and the
\* version that is running recognises it.
Marked(c) == c # {} => "runtime" \in c \/ "import" \in c

Recognised ==
    /\ Marked(conf)
    /\ tmpl # None => Marked(tmpl)
    /\ ~Templated => tmpl = None
    /\ version = 1 => "import" \notin conf /\ (tmpl # None => "import" \notin tmpl)
    /\ Templated /\ version = 2 =>
          "runtime" \notin conf /\ (tmpl # None => "runtime" \notin tmpl)
    /\ pc \in {"migrated", "load", "import", "toml", "check"} => version = 2
    /\ pc \in {"runtime", "opt"} /\ Templated => version = 1
    /\ pc \in {"template", "migrated"} /\ ~Templated => conf = {}
    /\ pc = "load" /\ ~Templated => "runtime" \notin conf

\* The steps that change the configuration, until the restart.
Changing ==
    /\ pc \in {"runtime", "opt", "import", "toml", "check", "restart"} =>
          Target # None
    /\ pc \in {"runtime", "opt"} => "import" \notin Target
    /\ pc = "opt" => "runtime" \in Target
    /\ pc \in {"toml", "check"} => "import" \in Target
    /\ pc = "check" => toml
    /\ pc = "restart" => ("import" \in Target => toml)
    /\ pc = "restart" => "runtime" \in Target \/ "import" \in Target

\* The next start of containerd loads the runtime.
WillLoad == HasRuntime(Loaded(Generated, toml))

Early == {"idle", "failed", "removed", "criu", "shim", "writeShim", "netinfo",
          "writeNetinfo", "config", "configure", "migrated", "load"}
Late == {"ca", "createCA", "writeCrt", "writeKey", "done"}

\* An attempt begins with a node that is not stuck, or that is known to be.
Unstuck ==
    /\ pc \in Early => stuck \/ ~Stuck
    /\ pc \in Late =>
          stuck \/ ((loaded = Broken \/ HasRuntime(loaded)) /\ WillLoad)

\* The binaries that are there at each step.
BinariesSoFar ==
    /\ pc \in {"shim", "writeShim"} => "criu" \in bin
    /\ pc \in {"netinfo", "writeNetinfo"} => {"criu", "shim"} \subseteq bin
    /\ pc = "config" => {"criu", "shim", "netinfo"} \subseteq bin
    /\ pc \in Configuring \cup {"restart"} \cup Late => bin = Binaries

IInv == TypeOK /\ BackupOriginal /\ Recognised /\ Changing /\ Unstuck
           /\ BinariesSoFar

-----------------------------------------------------------------------------
(* Every step preserves them. *)

\* The sets of parts that the steps make of a configuration are configurations.
LEMMA ConfigsClosed ==
    /\ {} \in Configs
    /\ \A c \in Configs :
          /\ c \cup {"runtime"} \in Configs
          /\ c \cup {"opt"} \in Configs
          /\ c \cup {"import"} \in Configs
          /\ c \cup {"runtime", "opt"} \in Configs
BY Zenon DEF Configs, Parts

\* The same for the files below the opt path.
LEMMA BinariesClosed ==
    \A files \in SUBSET Binaries :
        /\ files \cup {"criu"} \in SUBSET Binaries
        /\ files \cup {"shim"} \in SUBSET Binaries
        /\ files \cup {"netinfo"} \in SUBSET Binaries
        /\ files \cup {"config"} \in SUBSET Binaries
        /\ files \ {"shim"} \in SUBSET Binaries
        /\ files \ {"netinfo"} \in SUBSET Binaries
BY Zenon DEF Binaries

\* What containerd loads when it starts is a configuration, or it is broken.
LEMMA GeneratedType ==
    TypeOK => /\ Generated \in Configs
              /\ Loaded(Generated, toml) \in Configs \cup {Broken}
<1> SUFFICES ASSUME TypeOK
             PROVE  /\ Generated \in Configs
                    /\ Loaded(Generated, toml) \in Configs \cup {Broken}
  BY Zenon
<1>1. Generated \in Configs
  BY Zenon, ConfigsClosed DEF TypeOK, Generated
<1> QED
  BY Zenon, <1>1, ConfigsClosed DEF Loaded

\* Every step of installer, containerd and kubelet keeps the types, and changes
\* the configuration with a backup at hand.
LEMMA TypeStep ==
    TypeOK /\ Changing /\ [Next]_vars => TypeOK'
<1> SUFFICES ASSUME TypeOK, Changing, [Next]_vars PROVE TypeOK'
  BY Zenon
<1> USE InstallerAssumption, ConfigsClosed, BinariesClosed DEF TypeOK,
             Labels, Installing, Configuring, RollingBack, Removing
<1>0. stuck' \in BOOLEAN
  BY Zenon DEF Next, Remember, vars
<1>1. CASE StartInstaller /\ Remember
  BY <1>1, <1>0 DEF StartInstaller
<1>2. CASE StartUninstaller /\ Remember
  BY Zenon, <1>2, <1>0 DEF StartUninstaller
<1>3. CASE Crash /\ Remember
  BY <1>3, <1>0 DEF Crash, Mishap
<1>4. CASE ConfigureFails /\ Remember
  BY <1>4, <1>0 DEF ConfigureFails, Mishap
<1>5. CASE ContainerdRestarts /\ Remember
  BY <1>5, <1>0, GeneratedType DEF ContainerdRestarts, Restarts
<1>6. CASE ContainerdUpgraded /\ Remember
  BY <1>6, <1>0, GeneratedType DEF ContainerdUpgraded, Restarts
<1>7. CASE AnotherNode /\ Remember
  BY <1>7, <1>0 DEF AnotherNode
<1>8. CASE NoContainerd /\ Remember
  BY <1>8, <1>0 DEF NoContainerd
<1>9. CASE InstallCriu /\ Remember
  BY Zenon, <1>9, <1>0 DEF InstallCriu, Binary
<1>10. CASE InstallBinaries /\ Remember
  BY <1>10, <1>0 DEF InstallBinaries, Binary
<1>11. CASE WriteConfig /\ Remember
  BY Zenon, <1>11, <1>0 DEF WriteConfig, Binary
<1>12. CASE ConfigureV1 /\ Remember
  BY Zenon, <1>12, <1>0 DEF ConfigureV1, AlreadyConfigured,
       TakeBackup
<1>13. CASE MigrateToImports /\ Remember
  BY ZenonT(30), <1>13, <1>0 DEF MigrateToImports, RestoreBackup,
       SetTarget, Skip, DropBackup
<1>14. CASE ConfigureV2 /\ Remember
  BY Zenon, <1>14, <1>0 DEF ConfigureV2, AlreadyConfigured,
       TakeBackup, Skip
<1>15. CASE CopyTemplate /\ Remember
  BY Zenon, <1>15, <1>0 DEF CopyTemplate
<1>16. CASE AppendRuntime /\ Remember
  <2>1. Target \in Configs
    BY Zenon, <1>16 DEF AppendRuntime, AddPart, Changing, Target, Templated
  <2> QED
    BY Zenon, <1>16, <1>0, <2>1 DEF AppendRuntime, AddPart, SetTarget
<1>17. CASE AppendOpt /\ Remember
  <2>1. Target \in Configs
    BY Zenon, <1>17 DEF AppendOpt, AddPart, Changing, Target, Templated
  <2> QED
    BY Zenon, <1>17, <1>0, <2>1 DEF AppendOpt, AddPart, SetTarget
<1>18. CASE AddZeropodConfigImport /\ Remember
  <2>1. Target \in Configs
    BY Zenon, <1>18 DEF AddZeropodConfigImport, AddPart, Changing, Target, Templated
  <2> QED
    BY Zenon, <1>18, <1>0, <2>1 DEF AddZeropodConfigImport, AddPart, SetTarget
<1>19. CASE WriteZeropodRuntimeConfig /\ Remember
  BY Zenon, <1>19, <1>0 DEF WriteZeropodRuntimeConfig
<1>20. CASE Rollback /\ Remember
  BY <1>20, <1>0 DEF Rollback, RestoreBackup, SetTarget, Skip,
       DropBackup
<1>21. CASE RestartUnit /\ Remember
  BY Zenon, <1>21, <1>0, GeneratedType DEF RestartUnit, Restarts
<1>22. CASE LoadTLSCA /\ Remember
  <2>1. ca' \in [CAFiles -> {None, "empty", "own", "other"}]
    BY SMT, <1>22 DEF LoadTLSCA
  <2>2. mishaps' \in 0..Mishaps
    BY SMT, <1>22 DEF LoadTLSCA
  <2> QED
    BY Zenon, <1>22, <1>0, <2>1, <2>2 DEF LoadTLSCA
<1>23. CASE GenerateTLSCA /\ Remember
  BY Zenon, <1>23, <1>0 DEF GenerateTLSCA
<1>24. CASE RunUninstall /\ Remember
  BY <1>24, <1>0 DEF RunUninstall, Binary, RestoreBackup,
       SetTarget, Skip, DropBackup
<1>25. CASE UNCHANGED vars
  BY <1>25 DEF vars
<1>26. CASE LoadModified /\ Remember
  BY Zenon, <1>26, <1>0 DEF LoadModified, Skip
<1>27. CASE WriteCA /\ Remember
  <2>1. ca' \in [CAFiles -> {None, "empty", "own", "other"}]
    BY SMT, <1>27 DEF WriteCA, WriteCAFile, CAFiles
  <2> QED
    BY Zenon, <1>27, <1>0, <2>1 DEF WriteCA, WriteCAFile
<1> QED
  BY Zenon, <1>1, <1>2, <1>3, <1>4, <1>5, <1>6, <1>7, <1>8, <1>9, <1>10, <1>11,
       <1>12, <1>13, <1>14, <1>15, <1>16, <1>17, <1>18, <1>19, <1>20, <1>21,
       <1>22, <1>23, <1>24, <1>25, <1>26, <1>27 DEF Next, InstallStep
\* The backup is taken of the original only, and dropped after it was restored.
LEMMA BackupStep ==
    TypeOK /\ BackupOriginal /\ Recognised /\ Changing /\ [Next]_vars
       => BackupOriginal'
<1> SUFFICES ASSUME TypeOK, BackupOriginal, Recognised, Changing, [Next]_vars PROVE BackupOriginal'
  BY Zenon
<1> USE InstallerAssumption DEF TypeOK, BackupOriginal, Target, Templated
<1>1. CASE (StartInstaller \/ StartUninstaller \/ Crash \/ ConfigureFails) /\
     Remember
  BY Zenon, <1>1 DEF StartInstaller, StartUninstaller, Crash, Mishap, ConfigureFails
<1>2. CASE (AnotherNode \/ NoContainerd \/ LoadTLSCA \/ GenerateTLSCA) /\
     Remember
  BY Zenon, <1>2 DEF AnotherNode, NoContainerd, LoadTLSCA, GenerateTLSCA
<1>3. CASE (InstallCriu \/ InstallBinaries \/ WriteConfig) /\ Remember
  BY Zenon, <1>3 DEF InstallCriu, Binary, InstallBinaries, WriteConfig
<1>4. CASE ContainerdRestarts /\ Remember
  BY Zenon, <1>4 DEF ContainerdRestarts, Restarts, Generated, Templated
<1>5. CASE ContainerdUpgraded /\ Remember
  BY Zenon, <1>5 DEF ContainerdUpgraded, Restarts, Generated, Templated
<1>6. CASE ConfigureV1 /\ Remember
  BY Zenon, <1>6 DEF ConfigureV1, AlreadyConfigured, TakeBackup, Recognised, Marked
<1>7. CASE MigrateToImports /\ Remember
  BY Zenon, <1>7 DEF MigrateToImports, RestoreBackup, SetTarget, Skip, DropBackup,
       Recognised
<1>8. CASE ConfigureV2 /\ Remember
  BY Zenon, <1>8 DEF ConfigureV2, AlreadyConfigured, TakeBackup, Skip, Recognised,
       Marked
<1>9. CASE CopyTemplate /\ Remember
  BY Zenon, <1>9 DEF CopyTemplate, Recognised
<1>10. CASE AppendRuntime /\ Remember
  BY Zenon, <1>10 DEF AppendRuntime, AddPart, SetTarget
<1>11. CASE AppendOpt /\ Remember
  BY Zenon, <1>11 DEF AppendOpt, AddPart, SetTarget
<1>12. CASE AddZeropodConfigImport /\ Remember
  BY Zenon, <1>12 DEF AddZeropodConfigImport, AddPart, SetTarget
<1>13. CASE WriteZeropodRuntimeConfig /\ Remember
  BY Zenon, <1>13 DEF WriteZeropodRuntimeConfig
<1>14. CASE Rollback /\ Remember
  BY Zenon, <1>14 DEF Rollback, RestoreBackup, SetTarget, Skip, DropBackup
<1>15. CASE RestartUnit /\ Remember
  BY Zenon, <1>15 DEF RestartUnit, Restarts, Generated
<1>16. CASE RunUninstall /\ Remember
  BY Zenon, <1>16 DEF RunUninstall, Binary, RestoreBackup, SetTarget, Skip,
       DropBackup
<1>17. CASE UNCHANGED vars
  BY Zenon, <1>17 DEF vars
<1>18. CASE LoadModified /\ Remember
  BY Zenon, <1>18 DEF LoadModified, Skip
<1>19. CASE WriteCA /\ Remember
  BY Zenon, <1>19 DEF WriteCA, WriteCAFile
<1> QED
  BY Zenon, <1>1, <1>2, <1>3, <1>4, <1>5, <1>6, <1>7, <1>8, <1>9, <1>10, <1>11,
       <1>12, <1>13, <1>14, <1>15, <1>16, <1>17, <1>18, <1>19 DEF Next, InstallStep
\* A step adds only what the version that is running recognises later.
LEMMA RecognisedStep ==
    ASSUME PlainUpgrade
    PROVE  TypeOK /\ BackupOriginal /\ Recognised /\ Changing /\ [Next]_vars
              => Recognised'
<1> SUFFICES ASSUME TypeOK, BackupOriginal, Recognised, Changing, [Next]_vars PROVE Recognised'
  BY Zenon
<1> USE InstallerAssumption, PlainUpgrade DEF TypeOK, BackupOriginal, Recognised, Changing,
        Target, Templated, Marked, PlainUpgrade
<1>1. CASE (StartInstaller \/ StartUninstaller \/ Crash \/ ConfigureFails) /\
     Remember
  BY Zenon, <1>1 DEF StartInstaller, StartUninstaller, Crash, Mishap, ConfigureFails
<1>2. CASE (AnotherNode \/ NoContainerd \/ LoadTLSCA \/ GenerateTLSCA) /\
     Remember
  BY <1>2 DEF AnotherNode, NoContainerd, LoadTLSCA, GenerateTLSCA
<1>3. CASE (InstallCriu \/ InstallBinaries \/ WriteConfig) /\ Remember
  BY Zenon, <1>3 DEF InstallCriu, Binary, InstallBinaries, WriteConfig
<1>4. CASE ContainerdRestarts /\ Remember
  BY Zenon, <1>4 DEF ContainerdRestarts, Restarts, Generated
<1>5. CASE ContainerdUpgraded /\ Remember
  BY Zenon, <1>5 DEF ContainerdUpgraded, Restarts, Generated
<1>6. CASE ConfigureV1 /\ Remember
  BY Zenon, <1>6 DEF ConfigureV1, AlreadyConfigured, TakeBackup
<1>7. CASE MigrateToImports /\ Remember
  BY <1>7 DEF MigrateToImports, RestoreBackup, SetTarget, Skip, DropBackup
<1>8. CASE ConfigureV2 /\ Remember
  BY Zenon, <1>8 DEF ConfigureV2, AlreadyConfigured, TakeBackup, Skip
<1>9. CASE CopyTemplate /\ Remember
  BY Zenon, <1>9 DEF CopyTemplate
<1>10. CASE AppendRuntime /\ Remember
  BY <1>10 DEF AppendRuntime, AddPart, SetTarget
<1>11. CASE AppendOpt /\ Remember
  BY <1>11 DEF AppendOpt, AddPart, SetTarget
<1>12. CASE AddZeropodConfigImport /\ Remember
  BY <1>12 DEF AddZeropodConfigImport, AddPart, SetTarget
<1>13. CASE WriteZeropodRuntimeConfig /\ Remember
  BY Zenon, <1>13 DEF WriteZeropodRuntimeConfig
<1>14. CASE Rollback /\ Remember
  BY <1>14 DEF Rollback, RestoreBackup, SetTarget, Skip, DropBackup
<1>15. CASE RestartUnit /\ Remember
  BY Zenon, <1>15 DEF RestartUnit, Restarts, Generated
<1>16. CASE RunUninstall /\ Remember
  BY <1>16 DEF RunUninstall, Binary, RestoreBackup, SetTarget, Skip,
       DropBackup
<1>17. CASE UNCHANGED vars
  BY Zenon, <1>17 DEF vars
<1>18. CASE LoadModified /\ Remember
  BY Zenon, <1>18 DEF LoadModified, Skip
<1>19. CASE WriteCA /\ Remember
  BY Zenon, <1>19 DEF WriteCA, WriteCAFile
<1> QED
  BY Zenon, <1>1, <1>2, <1>3, <1>4, <1>5, <1>6, <1>7, <1>8, <1>9, <1>10, <1>11,
       <1>12, <1>13, <1>14, <1>15, <1>16, <1>17, <1>18, <1>19 DEF Next, InstallStep
\* The steps up to the restart add the runtime, or the import and its file.
LEMMA ChangingStep ==
    TypeOK /\ BackupOriginal /\ Recognised /\ Changing /\ [Next]_vars
       => Changing'
<1> SUFFICES ASSUME TypeOK, BackupOriginal, Recognised, Changing, [Next]_vars PROVE Changing'
  BY Zenon
<1> USE InstallerAssumption, ConfigsClosed DEF TypeOK, BackupOriginal, Recognised,
        Changing, Target, Templated
<1>1. CASE (StartInstaller \/ StartUninstaller \/ Crash \/ ConfigureFails) /\
     Remember
  BY Zenon, <1>1 DEF StartInstaller, StartUninstaller, Crash, Mishap, ConfigureFails
<1>2. CASE (AnotherNode \/ NoContainerd \/ LoadTLSCA \/ GenerateTLSCA) /\
     Remember
  BY <1>2 DEF AnotherNode, NoContainerd, LoadTLSCA, GenerateTLSCA
<1>3. CASE (InstallCriu \/ InstallBinaries \/ WriteConfig) /\ Remember
  BY Zenon, <1>3 DEF InstallCriu, Binary, InstallBinaries, WriteConfig
<1>4. CASE ContainerdRestarts /\ Remember
  BY Zenon, <1>4 DEF ContainerdRestarts, Restarts, Generated
<1>5. CASE ContainerdUpgraded /\ Remember
  BY Zenon, <1>5 DEF ContainerdUpgraded, Restarts, Generated
<1>6. CASE ConfigureV1 /\ Remember
  BY Zenon, <1>6 DEF ConfigureV1, AlreadyConfigured, TakeBackup
<1>7. CASE MigrateToImports /\ Remember
  BY Zenon, <1>7 DEF MigrateToImports, RestoreBackup, SetTarget, Skip, DropBackup
<1>8. CASE ConfigureV2 /\ Remember
  BY Zenon, <1>8 DEF ConfigureV2, AlreadyConfigured, TakeBackup, Skip
<1>9. CASE CopyTemplate /\ Remember
  BY Zenon, <1>9 DEF CopyTemplate
<1>10. CASE AppendRuntime /\ Remember
  <2>1. Target \in Configs
    BY Zenon, <1>10 DEF AppendRuntime, AddPart
  <2>2. Target' = Target \cup {"runtime"} /\ UNCHANGED <<runtime, toml>>
    BY Zenon, <1>10 DEF AppendRuntime, AddPart, SetTarget
  <2> QED
    BY Zenon, <1>10, <2>1, <2>2 DEF AppendRuntime, AddPart
<1>11. CASE AppendOpt /\ Remember
  <2>1. Target \in Configs
    BY Zenon, <1>11 DEF AppendOpt, AddPart
  <2>2. Target' = Target \cup {"opt"} /\ UNCHANGED <<runtime, toml>>
    BY Zenon, <1>11 DEF AppendOpt, AddPart, SetTarget
  <2> QED
    BY Zenon, <1>11, <2>1, <2>2 DEF AppendOpt, AddPart
<1>12. CASE AddZeropodConfigImport /\ Remember
  <2>1. Target \in Configs
    BY Zenon, <1>12 DEF AddZeropodConfigImport, AddPart
  <2>2. Target' = Target \cup {"import"} /\ UNCHANGED <<runtime, toml>>
    BY Zenon, <1>12 DEF AddZeropodConfigImport, AddPart, SetTarget
  <2> QED
    BY Zenon, <1>12, <2>1, <2>2 DEF AddZeropodConfigImport, AddPart
<1>13. CASE WriteZeropodRuntimeConfig /\ Remember
  BY Zenon, <1>13 DEF WriteZeropodRuntimeConfig
<1>14. CASE Rollback /\ Remember
  BY Zenon, <1>14 DEF Rollback, RestoreBackup, SetTarget, Skip, DropBackup
<1>15. CASE RestartUnit /\ Remember
  BY Zenon, <1>15 DEF RestartUnit, Restarts, Generated
<1>16. CASE RunUninstall /\ Remember
  BY Zenon, <1>16 DEF RunUninstall, Binary, RestoreBackup, SetTarget, Skip,
       DropBackup
<1>17. CASE UNCHANGED vars
  BY Zenon, <1>17 DEF vars
<1>18. CASE LoadModified /\ Remember
  BY Zenon, <1>18 DEF LoadModified, Skip
<1>19. CASE WriteCA /\ Remember
  BY Zenon, <1>19 DEF WriteCA, WriteCAFile
<1> QED
  BY Zenon, <1>1, <1>2, <1>3, <1>4, <1>5, <1>6, <1>7, <1>8, <1>9, <1>10, <1>11,
       <1>12, <1>13, <1>14, <1>15, <1>16, <1>17, <1>18, <1>19 DEF Next, InstallStep
\* The binaries are removed and written one after the other.
LEMMA BinariesStep ==
    TypeOK /\ BinariesSoFar /\ [Next]_vars => BinariesSoFar'
<1> SUFFICES ASSUME TypeOK, BinariesSoFar, [Next]_vars PROVE BinariesSoFar'
  BY Zenon
<1> USE DEF TypeOK, BinariesSoFar, Binaries, Configuring, Late
<1>1. CASE StartInstaller /\ Remember
  BY Zenon, <1>1 DEF StartInstaller
<1>2. CASE StartUninstaller /\ Remember
  BY Zenon, <1>2 DEF StartUninstaller
<1>3. CASE Crash /\ Remember
  BY Zenon, <1>3 DEF Crash, Mishap
<1>4. CASE ConfigureFails /\ Remember
  BY Zenon, <1>4 DEF ConfigureFails, Mishap
<1>5. CASE ContainerdRestarts /\ Remember
  BY Zenon, <1>5 DEF ContainerdRestarts, Restarts, Generated
<1>6. CASE ContainerdUpgraded /\ Remember
  BY Zenon, <1>6 DEF ContainerdUpgraded, Restarts, Generated
<1>7. CASE AnotherNode /\ Remember
  BY Zenon, <1>7 DEF AnotherNode
<1>8. CASE NoContainerd /\ Remember
  BY Zenon, <1>8 DEF NoContainerd
<1>9. CASE InstallCriu /\ Remember
  BY Zenon, <1>9 DEF InstallCriu, Binary
<1>10. CASE InstallBinaries /\ Remember
  BY Zenon, <1>10 DEF InstallBinaries, Binary
<1>11. CASE WriteConfig /\ Remember
  BY Zenon, <1>11 DEF WriteConfig, Binary
<1>12. CASE ConfigureV1 /\ Remember
  BY Zenon, <1>12 DEF ConfigureV1, AlreadyConfigured, TakeBackup
<1>13. CASE MigrateToImports /\ Remember
  BY Zenon, <1>13 DEF MigrateToImports, RestoreBackup, SetTarget, Skip, DropBackup
<1>14. CASE ConfigureV2 /\ Remember
  BY Zenon, <1>14 DEF ConfigureV2, AlreadyConfigured, TakeBackup, Skip
<1>15. CASE CopyTemplate /\ Remember
  BY Zenon, <1>15 DEF CopyTemplate
<1>16. CASE AppendRuntime /\ Remember
  BY Zenon, <1>16 DEF AppendRuntime, AddPart, SetTarget
<1>17. CASE AppendOpt /\ Remember
  BY Zenon, <1>17 DEF AppendOpt, AddPart, SetTarget
<1>18. CASE AddZeropodConfigImport /\ Remember
  BY Zenon, <1>18 DEF AddZeropodConfigImport, AddPart, SetTarget
<1>19. CASE WriteZeropodRuntimeConfig /\ Remember
  BY Zenon, <1>19 DEF WriteZeropodRuntimeConfig
<1>20. CASE Rollback /\ Remember
  BY Zenon, <1>20 DEF Rollback, RestoreBackup, SetTarget, Skip, DropBackup
<1>21. CASE RestartUnit /\ Remember
  BY Zenon, <1>21 DEF RestartUnit, Restarts, Generated
<1>22. CASE LoadTLSCA /\ Remember
  BY Zenon, <1>22 DEF LoadTLSCA
<1>23. CASE GenerateTLSCA /\ Remember
  BY Zenon, <1>23 DEF GenerateTLSCA
<1>24. CASE RunUninstall /\ Remember
  BY Zenon, <1>24 DEF RunUninstall, Binary, RestoreBackup, SetTarget, Skip,
       DropBackup
<1>25. CASE UNCHANGED vars
  BY Zenon, <1>25 DEF vars
<1>26. CASE LoadModified /\ Remember
  BY Zenon, <1>26 DEF LoadModified, Skip
<1>27. CASE WriteCA /\ Remember
  BY Zenon, <1>27 DEF WriteCA, WriteCAFile
<1> QED
  BY Zenon, <1>1, <1>2, <1>3, <1>4, <1>5, <1>6, <1>7, <1>8, <1>9, <1>10, <1>11,
       <1>12, <1>13, <1>14, <1>15, <1>16, <1>17, <1>18, <1>19, <1>20, <1>21,
       <1>22, <1>23, <1>24, <1>25, <1>26, <1>27 DEF Next, InstallStep
\* A restart of containerd loads what the configuration says.
LEMMA RestartUnsticks ==
    TypeOK /\ Restarts => /\ ~Stuck'
                          /\ WillLoad => WillLoad' /\ HasRuntime(loaded')
<1> SUFFICES ASSUME TypeOK, Restarts
             PROVE  /\ ~Stuck'
                    /\ WillLoad => WillLoad' /\ HasRuntime(loaded')
  BY Zenon
<1>1. Generated' = Generated /\ conf' = Generated /\ toml' = toml
  BY Zenon DEF Restarts, Generated, Templated
<1>2. loaded' = Loaded(conf', toml')
  BY Zenon, <1>1 DEF Restarts
<1>3. conf' \in Configs
  BY Zenon, <1>1, GeneratedType
<1>4. ~Stuck'
  BY Zenon, <1>1, <1>2, <1>3, InstallerAssumption DEF Stuck, HasRuntime, Loaded
<1> QED
  BY Zenon, <1>1, <1>2, <1>4 DEF WillLoad

\* A step that leaves the files of containerd alone leaves the node stuck or not.
LEMMA StuckFrame ==
    UNCHANGED <<runtime, conf, tmpl, toml, loaded>>
        => (Stuck' <=> Stuck) /\ (WillLoad' <=> WillLoad)
BY DEF Stuck, WillLoad, HasRuntime, Loaded, Generated, Templated

\* What the steps before the restart have written loads, with the runtime.
LEMMA RestartLoads ==
    TypeOK /\ Changing /\ pc = "restart" => WillLoad
<1> SUFFICES ASSUME TypeOK, Changing, pc = "restart" PROVE WillLoad
  BY Zenon
<1>1. Generated = Target /\ Target \in Configs
  BY Zenon DEF TypeOK, Changing, Generated, Target, Templated
<1> QED
  BY Zenon, <1>1, InstallerAssumption, ConfigsClosed DEF Changing, WillLoad, HasRuntime, Loaded

\* An attempt that takes the node for configured is right, or an earlier one has
\* left it stuck.
LEMMA UnstuckStep ==
    IInv /\ [Next]_vars => Unstuck'
<1> SUFFICES ASSUME IInv, [Next]_vars PROVE Unstuck'
  BY Zenon
<1> USE DEF IInv, TypeOK, Unstuck, Early, Late, Remember
<1>1. CASE StartInstaller /\ Remember
  <2>1. UNCHANGED <<runtime, conf, tmpl, toml, loaded>>
    BY Zenon, <1>1 DEF StartInstaller
  <2> QED
    BY Zenon, <1>1, <2>1, StuckFrame DEF StartInstaller, Stuck, WillLoad
<1>2. CASE StartUninstaller /\ Remember
  <2>1. UNCHANGED <<runtime, conf, tmpl, toml, loaded>>
    BY Zenon, <1>2 DEF StartUninstaller
  <2> QED
    BY Zenon, <1>2, <2>1, StuckFrame DEF StartUninstaller
<1>3. CASE Crash /\ Remember
  <2>1. UNCHANGED <<runtime, conf, tmpl, toml, loaded>>
    BY Zenon, <1>3 DEF Crash, Mishap
  <2> QED
    BY Zenon, <1>3, <2>1, StuckFrame DEF Crash, Mishap
<1>4. CASE ConfigureFails /\ Remember
  <2>1. UNCHANGED <<runtime, conf, tmpl, toml, loaded>>
    BY Zenon, <1>4 DEF ConfigureFails, Mishap
  <2> QED
    BY Zenon, <1>4, <2>1, StuckFrame DEF ConfigureFails, Mishap
<1>5. CASE ContainerdRestarts /\ Remember
  BY Zenon, <1>5, RestartUnsticks DEF ContainerdRestarts
<1>6. CASE ContainerdUpgraded /\ Remember
  BY Zenon, <1>6, RestartUnsticks DEF ContainerdUpgraded
<1>7. CASE AnotherNode /\ Remember
  <2>1. UNCHANGED <<runtime, conf, tmpl, toml, loaded>>
    BY Zenon, <1>7 DEF AnotherNode
  <2> QED
    BY Zenon, <1>7, <2>1, StuckFrame DEF AnotherNode
<1>8. CASE NoContainerd /\ Remember
  <2>1. UNCHANGED <<runtime, conf, tmpl, toml, loaded>>
    BY Zenon, <1>8 DEF NoContainerd
  <2> QED
    BY Zenon, <1>8, <2>1, StuckFrame DEF NoContainerd
<1>9. CASE InstallCriu /\ Remember
  <2>1. UNCHANGED <<runtime, conf, tmpl, toml, loaded>>
    BY Zenon, <1>9 DEF InstallCriu, Binary
  <2> QED
    BY Zenon, <1>9, <2>1, StuckFrame DEF InstallCriu, Binary
<1>10. CASE InstallBinaries /\ Remember
  <2>1. UNCHANGED <<runtime, conf, tmpl, toml, loaded>>
    BY Zenon, <1>10 DEF InstallBinaries, Binary
  <2> QED
    BY Zenon, <1>10, <2>1, StuckFrame DEF InstallBinaries, Binary
<1>11. CASE WriteConfig /\ Remember
  <2>1. UNCHANGED <<runtime, conf, tmpl, toml, loaded>>
    BY Zenon, <1>11 DEF WriteConfig, Binary
  <2> QED
    BY Zenon, <1>11, <2>1, StuckFrame DEF WriteConfig, Binary
<1>12. CASE ConfigureV1 /\ Remember
  <2>1. CASE AlreadyConfigured("configure")
    <3>1. {"runtime", "import"} \cap conf # {} /\ Loaded(conf, toml) # Broken
      BY Zenon, <1>12, <2>1, InstallerAssumption DEF ConfigureV1, TakeBackup,
         AlreadyConfigured, Recognised, Loaded
    <3>2. stuck \/ (HasRuntime(loaded) /\ WillLoad)
      BY Zenon, <2>1, <3>1 DEF AlreadyConfigured, Stuck, WillLoad
    <3> QED
      BY Zenon, <2>1, <3>2, <1>12, StuckFrame DEF AlreadyConfigured
  <2>2. CASE TakeBackup("configure")
    BY Zenon, <2>2 DEF TakeBackup
  <2> QED
    BY Zenon, <1>12, <2>1, <2>2 DEF ConfigureV1
<1>13. CASE MigrateToImports /\ Remember
  <2>1. CASE RestoreBackup("configure", "migrated")
    <3>1. conf' = Original
      BY Zenon, <1>13, <2>1 DEF MigrateToImports, RestoreBackup, SetTarget, Skip,
         DropBackup, Recognised, BackupOriginal, Target, Templated
    <3> QED
      BY Zenon, <2>1, <3>1 DEF RestoreBackup, Stuck
  <2>2. CASE Skip("configure", "load") \/ DropBackup("migrated", "load")
    BY Zenon, <1>13, <2>2, StuckFrame DEF Skip, DropBackup
  <2> QED
    BY Zenon, <1>13, <2>1, <2>2 DEF MigrateToImports
<1>14. CASE ConfigureV2 /\ Remember
  <2>1. CASE AlreadyConfigured("load")
    <3>1. {"runtime", "import"} \cap conf # {} /\ Loaded(conf, toml) # Broken
      BY Zenon, <1>14, <2>1 DEF ConfigureV2, TakeBackup, AlreadyConfigured, Skip
    <3>2. stuck \/ (HasRuntime(loaded) /\ WillLoad)
      BY Zenon, <2>1, <3>1 DEF AlreadyConfigured, Stuck, WillLoad
    <3> QED
      BY Zenon, <2>1, <3>2, <1>14, StuckFrame DEF AlreadyConfigured
  <2>2. CASE TakeBackup("load") \/ Skip("load", "rollback")
    BY Zenon, <2>2 DEF TakeBackup, Skip
  <2> QED
    BY Zenon, <1>14, <2>1, <2>2 DEF ConfigureV2
<1>15. CASE CopyTemplate /\ Remember
  BY Zenon, <1>15 DEF CopyTemplate
<1>16. CASE AppendRuntime /\ Remember
  BY Zenon, <1>16 DEF AppendRuntime, AddPart, SetTarget
<1>17. CASE AppendOpt /\ Remember
  BY Zenon, <1>17 DEF AppendOpt, AddPart, SetTarget
<1>18. CASE AddZeropodConfigImport /\ Remember
  BY Zenon, <1>18 DEF AddZeropodConfigImport, AddPart, SetTarget
<1>19. CASE WriteZeropodRuntimeConfig /\ Remember
  BY Zenon, <1>19 DEF WriteZeropodRuntimeConfig
<1>20. CASE Rollback /\ Remember
  BY Zenon, <1>20 DEF Rollback, RestoreBackup, SetTarget, Skip, DropBackup
<1>21. CASE RestartUnit /\ Remember
  <2>1. WillLoad
    BY Zenon, <1>21, RestartLoads DEF RestartUnit
  <2>2. CASE loaded = Broken
    BY Zenon, <1>21, <2>1, <2>2, StuckFrame DEF RestartUnit
  <2>3. CASE loaded # Broken
    BY Zenon, <1>21, <2>1, <2>3, RestartUnsticks DEF RestartUnit
  <2> QED
    BY Zenon, <2>2, <2>3
<1>22. CASE LoadTLSCA /\ Remember
  <2>1. UNCHANGED <<runtime, conf, tmpl, toml, loaded>>
    BY Zenon, <1>22 DEF LoadTLSCA
  <2> QED
    BY Zenon, <1>22, <2>1, StuckFrame DEF LoadTLSCA
<1>23. CASE GenerateTLSCA /\ Remember
  <2>1. UNCHANGED <<runtime, conf, tmpl, toml, loaded>>
    BY Zenon, <1>23 DEF GenerateTLSCA
  <2> QED
    BY Zenon, <1>23, <2>1, StuckFrame DEF GenerateTLSCA
<1>24. CASE RunUninstall /\ Remember
  BY Zenon, <1>24 DEF RunUninstall, Binary, RestoreBackup, SetTarget, Skip,
       DropBackup
<1>25. CASE UNCHANGED vars
  BY Zenon, <1>25, StuckFrame DEF vars
<1>26. CASE LoadModified /\ Remember
  BY Zenon, <1>26 DEF LoadModified, Skip
<1>27. CASE WriteCA /\ Remember
  <2>1. UNCHANGED <<runtime, conf, tmpl, toml, loaded>>
    BY Zenon, <1>27 DEF WriteCA, WriteCAFile
  <2> QED
    BY Zenon, <1>27, <2>1, StuckFrame DEF WriteCA, WriteCAFile
<1> QED
  BY Zenon, <1>1, <1>2, <1>3, <1>4, <1>5, <1>6, <1>7, <1>8, <1>9, <1>10, <1>11,
       <1>12, <1>13, <1>14, <1>15, <1>16, <1>17, <1>18, <1>19, <1>20, <1>21,
       <1>22, <1>23, <1>24, <1>25, <1>26, <1>27 DEF Next, InstallStep
-----------------------------------------------------------------------------
(* The theorems. *)

\* A node before the first installation has its original configuration, no
\* backup and none of the binaries.
LEMMA InitIInv == Init => IInv
<1> SUFFICES ASSUME Init PROVE IInv
  BY Zenon
<1> USE InstallerAssumption, ConfigsClosed DEF Init
<1>1. TypeOK
  <2>1. runtime \in Runtimes /\ pc \in Labels /\ mishaps \in 0..Mishaps
    BY DEF Runtimes, Labels
  <2> QED
    BY Zenon, <2>1 DEF TypeOK
<1>2. BackupOriginal /\ Recognised /\ Changing
  BY Zenon DEF BackupOriginal, Recognised, Changing, Marked, Target, Templated
<1>3. Unstuck /\ BinariesSoFar
  BY Zenon DEF Unstuck, BinariesSoFar, Stuck, Early, Late, Configuring
<1> QED
  BY Zenon, <1>1, <1>2, <1>3 DEF IInv

\* No step of the installer, the uninstaller, containerd or another node leaves
\* the inductive invariant.
LEMMA IInvStep == ASSUME PlainUpgrade PROVE IInv /\ [Next]_vars => IInv'
BY Zenon, TypeStep, BackupStep, RecognisedStep, ChangingStep, UnstuckStep,
   BinariesStep DEF IInv

\* The inductive invariant holds in every state of the installation of a node.
LEMMA IInvCorrect == ASSUME PlainUpgrade PROVE Spec => []IInv
<1>1. IInv /\ [Next]_vars => IInv'
  BY Zenon, IInvStep
<1> QED
  BY InitIInv, <1>1, PTL DEF Spec

\* What the comment of runUninstall promises: however often installations were
\* interrupted, rolled back or raced by restarts and an upgrade of containerd,
\* an uninstallation that is through leaves the original configuration.
THEOREM UninstallRestoresCorrect ==
    ASSUME PlainUpgrade PROVE Spec => []UninstallRestores
<1>1. IInv => UninstallRestores
  BY Zenon DEF IInv, BackupOriginal, UninstallRestores
<1> QED
  BY <1>1, IInvCorrect, PTL

\* An installer that reports success leaves all binaries and a containerd that
\* has loaded the runtime, does not run, or was left stuck by an earlier
\* attempt.
THEOREM InstallLoadsCorrect ==
    ASSUME PlainUpgrade PROVE Spec => []InstallLoads
<1>1. IInv => InstallLoads
  BY Zenon DEF IInv, Unstuck, BinariesSoFar, Late, InstallLoads
<1> QED
  BY <1>1, IInvCorrect, PTL

\* RestartUnit never breaks a containerd that runs: the imported file is
\* written before the restart.
THEOREM RestartsLoadableCorrect ==
    ASSUME PlainUpgrade PROVE Spec => RestartsLoadable
<1>1. IInv /\ [Next]_vars =>
         [(pc = "restart" /\ pc' = "ca" /\ loaded # Broken) =>
             loaded' # Broken]_vars
  <2> SUFFICES ASSUME IInv, Next, pc = "restart", pc' = "ca", loaded # Broken
               PROVE  loaded' # Broken
    BY ZenonT(30) DEF vars
  <2>1. RestartUnit
    BY Zenon DEF Next, InstallStep, StartInstaller, StartUninstaller, Crash,
       ConfigureFails, Mishap, ContainerdRestarts, ContainerdUpgraded,
       AnotherNode, NoContainerd, InstallCriu, InstallBinaries, WriteConfig,
       Binary, ConfigureV1, ConfigureV2, MigrateToImports, AlreadyConfigured,
       TakeBackup, RestoreBackup, DropBackup, Skip, CopyTemplate, AddPart,
       AppendRuntime, AppendOpt, AddZeropodConfigImport,
       WriteZeropodRuntimeConfig, LoadModified, Rollback, LoadTLSCA,
       GenerateTLSCA, WriteCA, WriteCAFile, RunUninstall
  <2>2. Restarts /\ WillLoad
    BY Zenon, <2>1, RestartLoads DEF RestartUnit, IInv
  <2> QED
    BY Zenon, <2>2, RestartUnsticks DEF IInv, HasRuntime
<1> QED
  BY <1>1, IInvCorrect, PTL DEF Spec, RestartsLoadable

\* A certificate authority on a node is the one in the secret (loadTLSCA,
\* generateTLSCA), whichever node was the first to create it; for every
\* runtime and every upgrade.
THEOREM SameCACorrect == Spec => []SameCA
<1> DEFINE Held == ca \in [CAFiles -> {None, "empty", secret}]
<1>1. Init => Held
  BY Zenon DEF Init
<1>2. Held /\ [Next]_vars => Held'
  <2> SUFFICES ASSUME Held, [Next]_vars PROVE Held'
    BY Zenon
  <2>1. CASE LoadTLSCA \/ GenerateTLSCA \/ AnotherNode
    BY SMT, <2>1 DEF LoadTLSCA, GenerateTLSCA, AnotherNode
  <2>2. CASE UNCHANGED <<ca, secret>>
    BY Zenon, <2>2
  <2>3. CASE WriteCA
    BY SMT, <2>3 DEF WriteCA, WriteCAFile
  <2>4. LoadTLSCA \/ GenerateTLSCA \/ AnotherNode \/ WriteCA
           \/ UNCHANGED <<ca, secret>>
    BY Zenon DEF Next, InstallStep, StartInstaller, StartUninstaller, Crash,
       ConfigureFails, Mishap, ContainerdRestarts, ContainerdUpgraded,
       NoContainerd, InstallCriu, InstallBinaries, WriteConfig, Binary,
       ConfigureV1, ConfigureV2, MigrateToImports, AlreadyConfigured,
       TakeBackup, RestoreBackup, DropBackup, Skip, CopyTemplate, AddPart,
       AppendRuntime, AppendOpt, AddZeropodConfigImport,
       WriteZeropodRuntimeConfig, LoadModified, Rollback, RestartUnit,
       RunUninstall, vars
  <2> QED
    BY Zenon, <2>1, <2>2, <2>3, <2>4
<1>3. Held => SameCA
  BY Zenon DEF SameCA
<1> QED
  BY <1>1, <1>2, <1>3, PTL DEF Spec
=============================================================================
