----------------------------- MODULE Installer -----------------------------
(***************************************************************************)
(* cmd/installer: the init container that puts the binaries of zeropod on  *)
(* a node, adds the runtime to the configuration of containerd, restarts   *)
(* containerd and fetches the certificate authority the nodes share.       *)
(*                                                                         *)
(* The process may die between any two steps and is then started again by  *)
(* the kubelet; containerd may be restarted by somebody else at any time.  *)
(* A configuration file is the set of the parts in it that matter here:    *)
(* the runtime, the path of the opt plugin, the import of                  *)
(* runtime_zeropod.toml.  The write of one file is a single step.          *)
(***************************************************************************)
EXTENDS Naturals

CONSTANTS
    Upgradable, \* runtimes whose containerd may be upgraded from 1 to 2
    Mishaps,    \* bound: steps that fail and processes that die
    None,       \* a file, a secret that does not exist
    Broken      \* what a containerd that does not start has loaded

Parts   == {"runtime", "opt", "import"}
Configs == SUBSET Parts

\* config.toml before zeropod was installed: nothing of zeropod in it.
Original == {}

Runtimes == {"containerd", "rke2", "k3s"}

ASSUME InstallerAssumption ==
    /\ Upgradable \subseteq Runtimes
    /\ Mishaps \in Nat
    /\ None # Broken
    /\ \A c \in Configs : c \notin {None, Broken}
    /\ None \notin {"empty", "own", "other"}

VARIABLES
    runtime,    \* the flag -runtime
    conf,       \* config.toml
    tmpl,       \* config.toml.tmpl, from which k3s and rke2 write config.toml
    backup,     \* config.toml.original
    toml,       \* runtime_zeropod.toml exists
    bin,        \* the files of zeropod below the opt path
    version,    \* the major version of containerd
    loaded,     \* the configuration that containerd has loaded
    ca,         \* whose authority /tls/ca.crt and /tls/ca.key of the node hold
    secret,     \* the secret ca-cert: whose authority it holds
    pc,         \* where the installer is
    mishaps,    \* how many there were
    stuck       \* history: an attempt has left what Stuck says

fileVars == <<runtime, conf, tmpl, backup, toml, bin>>
caVars   == <<ca, secret>>
vars == <<fileVars, version, loaded, caVars, pc, mishaps, stuck>>

CAFiles == {"crt", "key"}

Binaries == {"criu", "shim", "netinfo", "config"}

Configuring == {"configure", "migrated", "load", "template", "runtime", "opt",
                "import", "toml", "check"}
Installing  == {"criu", "shim", "writeShim", "netinfo", "writeNetinfo",
                "config", "restart", "ca", "createCA", "writeCrt", "writeKey"} \cup Configuring
RollingBack == {"rollback", "dropBackup"}
Removing    == {"remove", "restore", "removed-"}
Labels == {"idle", "failed", "done", "removed"} \cup Installing
             \cup RollingBack \cup Removing

-----------------------------------------------------------------------------
(* containerd and its configuration. *)

Templated == runtime # "containerd"

\* containerdConfigFile: the file the installer restores, and for k3s and
\* rke2 the one it changes.
Target == IF Templated THEN tmpl ELSE conf

SetTarget(c) ==
    IF Templated
      THEN /\ tmpl' = c
           /\ UNCHANGED conf
      ELSE /\ conf' = c
           /\ UNCHANGED tmpl

\* Loading a configuration fails when a file it imports does not exist.
Loaded(c, imported) ==
    IF "import" \notin c THEN c
    ELSE IF imported THEN c \cup {"runtime", "opt"}
    ELSE Broken

HasRuntime(c) == c # Broken /\ "runtime" \in c

\* k3s and rke2 write config.toml when they start.
Generated ==
    IF Templated /\ tmpl # None THEN tmpl
    ELSE IF Templated THEN Original
    ELSE conf

Restarts ==
    /\ conf' = Generated
    /\ loaded' = Loaded(Generated, toml)
    /\ UNCHANGED <<runtime, tmpl, backup, toml, bin>>

ContainerdRestarts ==
    /\ Restarts
    /\ UNCHANGED <<version, caVars, pc, mishaps>>

ContainerdUpgraded ==
    /\ runtime \in Upgradable
    /\ version = 1
    /\ version' = 2
    /\ Restarts
    /\ UNCHANGED <<caVars, pc, mishaps>>

-----------------------------------------------------------------------------
(* The life of the installer's process. *)

Goto(label) == pc' = label

Step(from, to) == pc = from /\ Goto(to)

\* The kubelet starts the init container, which takes a containerd that runs:
\* at first, again after it failed, and again with a new pod of the DaemonSet.
StartInstaller ==
    /\ pc \in {"idle", "failed", "done", "removed"}
    /\ loaded # Broken
    /\ Goto("criu")
    /\ UNCHANGED <<fileVars, version, loaded, caVars, mishaps>>

StartUninstaller ==
    /\ pc \in {"failed", "done"}
    /\ loaded # Broken
    /\ Goto("remove")
    /\ UNCHANGED <<fileVars, version, loaded, caVars, mishaps>>

\* A step returns an error, or the process is killed or runs into its
\* timeout.  An error while containerd is being configured has the original
\* configuration restored first; one in the middle of that has not.
Mishap(next) ==
    /\ mishaps < Mishaps
    /\ mishaps' = mishaps + 1
    /\ Goto(next)
    /\ UNCHANGED <<fileVars, version, loaded, caVars>>

Crash ==
    /\ pc \in Installing \cup RollingBack \cup Removing
    /\ Mishap("failed")

ConfigureFails ==
    /\ pc \in Configuring
    /\ Mishap("rollback")

\* Pulling the image and asking for the version take a containerd that runs.
NoContainerd ==
    /\ loaded = Broken
    /\ \/ Step("criu", "failed")
       \/ Step("configure", "rollback")
    /\ UNCHANGED <<fileVars, version, loaded, caVars, mishaps>>

-----------------------------------------------------------------------------
(* installCriu and installRuntime up to configureContainerd. *)

Binary(from, to, files) ==
    /\ Step(from, to)
    /\ bin' = files
    /\ UNCHANGED <<runtime, conf, tmpl, backup, toml, version, loaded, caVars,
                   mishaps>>

\* The image of criu is unpacked over what is there; its configuration is
\* written.
InstallCriu ==
    /\ loaded # Broken
    /\ Binary("criu", "shim", bin \cup {"criu"})

\* A binary is removed before it is written anew.
InstallBinaries ==
    \/ Binary("shim", "writeShim", bin \ {"shim"})
    \/ Binary("writeShim", "netinfo", bin \cup {"shim"})
    \/ Binary("netinfo", "writeNetinfo", bin \ {"netinfo"})
    \/ Binary("writeNetinfo", "config", bin \cup {"netinfo"})

\* The flags go into config.json; with k3s, tar is linked as well.
WriteConfig == Binary("config", "configure", bin \cup {"config"})

-----------------------------------------------------------------------------
(* configureContainerdv1 and configureContainerdv2. *)

TakeBackup(from) ==
    /\ Step(from, "template")
    /\ backup' = conf
    /\ UNCHANGED <<runtime, conf, tmpl, toml, bin, version, loaded, caVars,
                   mishaps>>

AlreadyConfigured(from) ==
    /\ Step(from, "ca")
    /\ UNCHANGED <<fileVars, version, loaded, caVars, mishaps>>

\* Version 1: a configuration that names the runtime is left as it is.
ConfigureV1 ==
    /\ version = 1
    /\ loaded # Broken
    /\ IF "runtime" \in conf THEN AlreadyConfigured("configure")
       ELSE TakeBackup("configure")

\* The backup takes the place of the configuration; its removal is apart.
RestoreBackup(from, to) ==
    /\ Step(from, to)
    /\ SetTarget(backup)
    /\ UNCHANGED <<runtime, backup, toml, bin, version, loaded, caVars,
                   mishaps>>

DropBackup(from, to) ==
    /\ Step(from, to)
    /\ backup' = None
    /\ UNCHANGED <<runtime, conf, tmpl, toml, bin, version, loaded, caVars,
                   mishaps>>

Skip(from, to) ==
    /\ Step(from, to)
    /\ UNCHANGED <<fileVars, version, loaded, caVars, mishaps>>

\* Version 2 undoes what version 1 has left in the configuration.
MigrateToImports ==
    LET inline == Target # None /\ "runtime" \in Target IN
    \/ /\ version = 2
       /\ loaded # Broken
       /\ IF inline /\ backup # None
            THEN RestoreBackup("configure", "migrated")
            ELSE Skip("configure", "load")
    \/ DropBackup("migrated", "load")

ConfigureV2_NoRollback ==
    IF Loaded(conf, toml) = Broken THEN Skip("load", "failed")
    ELSE IF "import" \in conf THEN AlreadyConfigured("load")
    ELSE TakeBackup("load")

ConfigureV2_NoLoadCheck ==
    IF "import" \in conf THEN AlreadyConfigured("load")
    ELSE TakeBackup("load")

\* Version 2: a configuration that does not load is given up; one with the
\* import is left as it is.
ConfigureV2 ==
    IF Loaded(conf, toml) = Broken THEN Skip("load", "rollback")
    ELSE IF "import" \in conf THEN AlreadyConfigured("load")
    ELSE TakeBackup("load")

\* For k3s and rke2 the changes go to a copy, the template.
CopyTemplate ==
    /\ Step("template", IF version = 1 THEN "runtime" ELSE "import")
    /\ tmpl' = IF Templated THEN conf ELSE tmpl
    /\ UNCHANGED <<runtime, conf, backup, toml, bin, version, loaded, caVars,
                   mishaps>>

AddPart(from, to, parts) ==
    /\ Step(from, to)
    /\ SetTarget(Target \cup parts)
    /\ UNCHANGED <<runtime, backup, toml, bin, version, loaded, caVars,
                   mishaps>>

AppendRuntime == AddPart("runtime", "opt", {"runtime"})

\* Nothing is appended when the configuration has an opt path of its own.
AppendOpt == AddPart("opt", "restart", {"opt"})

AddZeropodConfigImport == AddPart("import", "toml", {"import"})

WriteZeropodRuntimeConfig_Late ==
    /\ Step("toml", "restart")
    /\ UNCHANGED <<fileVars, version, loaded, caVars, mishaps>>

\* The imported file is written.
WriteZeropodRuntimeConfig ==
    /\ Step("toml", "check")
    /\ toml' = TRUE
    /\ UNCHANGED <<runtime, conf, tmpl, backup, bin, version, loaded, caVars,
                   mishaps>>

\* The result is loaded as a test.
LoadModified ==
    Skip("check", IF Loaded(Target, toml) = Broken THEN "rollback" ELSE "restart")

Rollback_DropsFirst ==
    \/ DropBackup("rollback", "dropBackup")
    \/ Skip("dropBackup", "failed")

\* restoreContainerdConfig after an error of configureContainerd.
Rollback ==
    \/ IF backup = None THEN Skip("rollback", "failed")
       ELSE RestoreBackup("rollback", "dropBackup")
    \/ DropBackup("dropBackup", "failed")

\* TryRestartUnit leaves alone what does not run.
RestartUnit ==
    /\ Step("restart", "ca")
    /\ IF loaded = Broken THEN UNCHANGED <<fileVars, loaded>>
       ELSE Restarts
    /\ UNCHANGED <<version, caVars, mishaps>>

-----------------------------------------------------------------------------
(* The certificate authority, and the uninstaller. *)

\* The secret is read.  A failed read that is not NotFound goes unnoticed:
\* what is written is empty.
LoadTLSCA ==
    /\ \/ /\ secret = None
          /\ Step("ca", "createCA")
          /\ UNCHANGED <<ca, mishaps>>
       \/ /\ secret # None
          /\ Step("ca", "writeCrt")
          /\ UNCHANGED <<ca, mishaps>>
       \/ /\ mishaps < Mishaps
          /\ mishaps' = mishaps + 1
          /\ Step("ca", "done")
          /\ ca' = [f \in CAFiles |-> "empty"]
    /\ UNCHANGED <<fileVars, version, loaded, secret>>

GenerateTLSCA_Own ==
    /\ Step("createCA", "done")
    /\ secret' = IF secret = None THEN "own" ELSE secret
    /\ ca' = [f \in CAFiles |-> "own"]
    /\ UNCHANGED <<fileVars, version, loaded, mishaps>>

\* A new authority is offered; when another node was first, its is taken.
GenerateTLSCA ==
    /\ Step("createCA", "writeCrt")
    /\ secret' = IF secret = None THEN "own" ELSE secret
    /\ UNCHANGED <<fileVars, version, loaded, ca, mishaps>>

WriteCAFile(from, to, f) ==
    /\ Step(from, to)
    /\ ca' = [ca EXCEPT ![f] = secret]
    /\ UNCHANGED <<fileVars, version, loaded, secret, mishaps>>

\* The secret that was read, or created, is written; nobody changes it.
WriteCA ==
    \/ WriteCAFile("writeCrt", "writeKey", "crt")
    \/ WriteCAFile("writeKey", "done", "key")

\* The installer of another node offers its authority first.
AnotherNode ==
    /\ secret = None
    /\ secret' = "other"
    /\ UNCHANGED <<fileVars, version, loaded, ca, pc, mishaps>>

\* The binaries go and the original configuration comes back; containerd is
\* not restarted, runtime_zeropod.toml stays.
RunUninstall ==
    \/ Binary("remove", "restore", {})
    \/ IF backup = None THEN Skip("restore", "removed")
       ELSE RestoreBackup("restore", "removed-")
    \/ DropBackup("removed-", "removed")

-----------------------------------------------------------------------------
(* The specification. *)

Init ==
    /\ runtime \in {"containerd", "k3s"}
    /\ conf = Original
    /\ tmpl = None
    /\ backup = None
    /\ toml = FALSE
    /\ bin = {}
    /\ version \in {1, 2}
    /\ loaded = Original
    /\ ca = [f \in CAFiles |-> None]
    /\ secret = None
    /\ pc = "idle"
    /\ mishaps = 0
    /\ stuck = FALSE

InstallStep ==
    \/ NoContainerd
    \/ InstallCriu
    \/ InstallBinaries
    \/ WriteConfig
    \/ ConfigureV1
    \/ MigrateToImports
    \/ ConfigureV2
    \/ CopyTemplate
    \/ AppendRuntime
    \/ AppendOpt
    \/ AddZeropodConfigImport
    \/ WriteZeropodRuntimeConfig
    \/ LoadModified
    \/ Rollback
    \/ RestartUnit
    \/ LoadTLSCA
    \/ GenerateTLSCA
    \/ WriteCA
    \/ RunUninstall

\* The next attempt will take the node for configured and change nothing,
\* although containerd has not loaded the runtime, or will not again.
Stuck ==
    /\ {"runtime", "import"} \cap conf # {}
    /\ \/ ~HasRuntime(loaded)
       \/ ~HasRuntime(Loaded(Generated, toml))
    /\ Loaded(conf, toml) # Broken

Remember == stuck' = (stuck \/ (pc' \in {"failed", "removed"} /\ Stuck'))

Next ==
    /\ \/ StartInstaller
       \/ StartUninstaller
       \/ InstallStep
       \/ Crash
       \/ ConfigureFails
       \/ ContainerdRestarts
       \/ ContainerdUpgraded
       \/ AnotherNode
    /\ Remember

Spec == Init /\ [][Next]_vars

\* A process that runs goes on, and the kubelet starts a failed one again.
FairSpec ==
    /\ Spec
    /\ WF_vars(InstallStep /\ Remember)
    /\ WF_vars(pc = "failed" /\ StartInstaller /\ Remember)

-----------------------------------------------------------------------------
(* Properties. *)

\* Every variable has its type (the files, the steps of the installer), and
\* the configuration is only changed with a backup at hand.
TypeOK ==
    /\ runtime \in Runtimes
    /\ conf \in Configs
    /\ tmpl \in Configs \cup {None}
    /\ backup \in Configs \cup {None}
    /\ toml \in BOOLEAN
    /\ bin \in SUBSET Binaries
    /\ version \in {1, 2}
    /\ loaded \in Configs \cup {Broken}
    /\ ca \in [CAFiles -> {None, "empty", "own", "other"}]
    /\ secret \in {None, "own", "other"}
    /\ pc \in Labels
    /\ mishaps \in 0..Mishaps
    /\ stuck \in BOOLEAN
    /\ pc \in {"template", "runtime", "opt", "import", "toml", "check"} =>
          backup # None

\* What the comment of runUninstall says: when it is through, the original
\* configuration is back, also after any number of interrupted installations.
UninstallRestores ==
    /\ TypeOK
    /\ pc = "removed" => Target \in {None, Original}

\* An installer that reports success leaves a containerd that has loaded the
\* zeropod runtime, and its binaries, although earlier attempts stopped half
\* way.  The exceptions are an attempt that stopped between its last write to
\* config.toml and the restart, and, with k3s and rke2, one that took back the
\* template only.
InstallLoads ==
    pc = "done" =>
        /\ bin = Binaries
        /\ stuck \/ loaded = Broken \/ HasRuntime(loaded)

\* The installer restarts containerd only with a configuration that loads: the
\* imported file is there before.
RestartsLoadable ==
    [][(pc = "restart" /\ pc' = "ca" /\ loaded # Broken) =>
          loaded' # Broken]_vars

\* A node that holds a certificate authority holds the one of the cluster,
\* although the installers of all nodes start together, each may be the first,
\* and each may die between looking for the secret, creating it and writing the
\* two files.
SameCA == \A f \in CAFiles : ca[f] \in {None, "empty", secret}

\* An installation that failed ends, by itself, with a containerd that has
\* loaded the runtime.  There are two exceptions.  The attempt stopped between
\* its last write to config.toml and the restart, or took back the template
\* only: the next one finds the runtime configured and reports success although
\* it is not loaded.  And containerd cannot start any more because somebody else
\* restarted it between the write of the import and that of the imported file.
Heals ==
    pc = "failed" ~>
        \/ pc = "done" /\ bin = Binaries /\ HasRuntime(loaded)
        \/ pc = "removed"
        \/ pc = "failed" /\ Stuck
        \/ loaded = Broken
=============================================================================
