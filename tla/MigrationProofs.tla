--------------------------- MODULE MigrationProofs ---------------------------
(***************************************************************************)
(* Proofs about migrations, for any number of pods and nodes and whatever  *)
(* fails: a claim is never taken over (ClaimStable), no checkpoint is      *)
(* handed out twice (OneCopy), no container goes on in two pods            *)
(* (NoSplitBrain), and, when pods have one container, none is left behind  *)
(* (NothingLost).                                                          *)
(*                                                                         *)
(* The argument for claims rests on the resource versions.  A cache holds  *)
(* an old version of an object or the current one (CacheOK); a write       *)
(* replaces only what was read in the current version, so every step       *)
(* either leaves a Migration alone or gives it the next version and keeps  *)
(* its claim (Advance).  Whoever holds a Migration or its checkpoint has   *)
(* therefore the claim (HeldOK, CkptOK), and there is only one.            *)
(*                                                                         *)
(* The other two follow the image: it is there only while the process does *)
(* not run (ImagesRest), and it stays until the restore that has the claim *)
(* has got it, because servers are shown only after the restore is ready,  *)
(* and the collector waits for the owners (LostInv).                       *)
(***************************************************************************)
EXTENDS PodMigration, TLAPS

\* Where the node service works on the restore of a container.
Restoring == {"ready", "servers", "fail", "pull"}

DataOK ==
    /\ mig \in [Sources -> Migrations]
    /\ cache \in [Nodes -> [Sources -> Migrations]]
    /\ kpc \in [Sources -> {"idle", "created", "done"}]
    /\ held \in [TargetThreads -> [mig : Sources \cup {NoPod}, rv : Nat,
                                   live : BOOLEAN]]
    /\ ckpt \in [TargetThreads -> Sources \cup {NoPod}]
    /\ tpc \in [TargetThreads -> {"idle", "find", "ready", "servers", "fail",
                                  "pull", "start", "finish", "started"}]

\* What a cache holds of a Migration is what the API server holds, or older.
CacheOK ==
    \A n \in Nodes, s \in Sources :
        /\ cache[n][s].rv =< mig[s].rv
        /\ cache[n][s].rv = mig[s].rv => cache[n][s] = mig[s]
        /\ cache[n][s].target # NoPod => cache[n][s].target = mig[s].target

\* Nothing is known of a Migration before it is created.
IdleOK == \A s \in Sources : kpc[s] = "idle" => mig[s] = NoMigration

HeldOK ==
    \A t \in Targets, c \in Containers :
        /\ tpc[<<t, c>>] \in Restoring => held[<<t, c>>].mig # NoPod
        /\ held[<<t, c>>].mig # NoPod => mig[held[<<t, c>>].mig].target = t

CkptOK ==
    \A t \in Targets, c \in Containers :
        ckpt[<<t, c>>] # NoPod => mig[ckpt[<<t, c>>]].target = t

IInv == DataOK /\ CacheOK /\ IdleOK /\ HeldOK /\ CkptOK

\* What a step may do to a Migration.
Advance ==
    /\ kpc' \in [Sources -> {"idle", "created", "done"}]
    /\ \A s \in Sources :
          /\ kpc'[s] = "idle" => kpc[s] = "idle" /\ mig'[s] = mig[s]
          /\ \/ mig'[s] = mig[s]
             \/ /\ mig'[s] \in Migrations
                /\ mig'[s].rv = mig[s].rv + 1
                /\ mig[s].target # NoPod => mig'[s].target = mig[s].target

\* An update that keeps the claim and takes the version it has read.
SameClaim(m, n) == n \in Migrations /\ n.rv = m.rv /\ n.target = m.target

-----------------------------------------------------------------------------
(* What the updates of the code do to the fields of a Migration. *)

\* Updates of a flag (Restore, the garbage collector, the finalizer).
LEMMA FlagUpdate ==
    ASSUME NEW m \in Migrations, NEW b \in BOOLEAN
    PROVE  /\ SameClaim(m, [m EXCEPT !.exists = b])
           /\ SameClaim(m, [m EXCEPT !.deleted = b])
           /\ SameClaim(m, [m EXCEPT !.ready = b])
BY Zenon DEF Migrations, SameClaim

\* Updates of the part of one container (Evac, FinishRestore).
LEMMA ContainerUpdate ==
    ASSUME NEW m \in Migrations, NEW c \in Containers, NEW p \in Phases
    PROVE  SameClaim(m, [m EXCEPT !.phase[c] = p])
BY Zenon DEF Migrations, SameClaim

\* The status a new Migration gets.
LEMMA StatusUpdate ==
    ASSUME NEW m \in Migrations, NEW f \in [Containers -> Phases]
    PROVE  SameClaim(m, [m EXCEPT !.phase = f])
BY Zenon DEF Migrations, SameClaim

\* A new Migration.
LEMMA NewUpdate ==
    ASSUME NEW o \in SUBSET Pods, NEW l \in BOOLEAN, NEW b \in BOOLEAN
    PROVE  /\ NoMigration \in Migrations
           /\ [NoMigration EXCEPT !.exists = b, !.live = l, !.owners = o]
                 \in Migrations
           /\ [NoMigration EXCEPT !.exists = b, !.live = l, !.owners = o].rv = 0
           /\ [NoMigration EXCEPT !.exists = b, !.live = l, !.owners = o].target
                 = NoPod
<1>1. NoMigration \in Migrations
  <2>1. [c \in Containers |-> FALSE] \in [Containers -> BOOLEAN]
    BY Zenon
  <2>2. [c \in Containers |-> "None"] \in [Containers -> Phases]
    BY Zenon DEF Phases
  <2>3. ASSUME NEW x \in [Containers -> BOOLEAN], NEW y \in [Containers -> Phases],
               NEW f \in BOOLEAN
        PROVE  [exists |-> f, deleted |-> f, rv |-> 0, target |-> NoPod,
                ready |-> f, live |-> f, owners |-> {},
                server |-> x, phase |-> y] \in Migrations
    BY Zenon DEF Migrations
  <2>4. QED BY Zenon, <2>1, <2>2, <2>3 DEF NoMigration
<1>2. NoMigration.rv = 0 /\ NoMigration.target = NoPod
   BY Zenon DEF NoMigration
<1>3. QED BY Zenon, <1>1, <1>2 DEF Migrations
\* What an update does that keeps or sets the claim of an unclaimed Migration.
LEMMA WriteAdvances ==
    ASSUME DataOK, IdleOK, NEW s \in Sources, NEW m \in Migrations,
           mig[s].exists, m.rv = mig[s].rv,
           mig[s].target # NoPod => m.target = mig[s].target,
           Write(s, m), kpc' = kpc
    PROVE  /\ mig' \in [Sources -> Migrations]
           /\ mig'[s].target = m.target
           /\ Advance
<1>1. kpc[s] # "idle"
  BY DEF IdleOK, NoMigration
<1>2. /\ mig' = [mig EXCEPT ![s] = IF m = mig[s] THEN m ELSE [m EXCEPT !.rv = @ + 1]]
      /\ [m EXCEPT !.rv = @ + 1] \in Migrations
      /\ [m EXCEPT !.rv = @ + 1].rv = m.rv + 1
      /\ [m EXCEPT !.rv = @ + 1].target = m.target
  BY DEF Write, Migrations
<1>3. mig' \in [Sources -> Migrations]
  BY Zenon, <1>2 DEF DataOK
<1>4. mig'[s].target = m.target
  BY Zenon, <1>2 DEF DataOK
<1>5. \A r \in Sources : r # s => mig'[r] = mig[r]
  BY Zenon, <1>2 DEF DataOK
<1>6. mig'[s] = mig[s] \/ mig'[s].rv = mig[s].rv + 1
  BY Zenon, <1>2 DEF DataOK
<1>7. Advance
  BY Zenon, <1>1, <1>3, <1>4, <1>5, <1>6 DEF Advance, DataOK
<1>8. QED BY Zenon, <1>3, <1>4, <1>7

\* Whoever has the current version in its cache has the current object.
LEMMA FreshIsCurrent ==
    ASSUME DataOK, CacheOK, NEW p \in Pods, NEW s \in Sources, Fresh(p, s)
    PROVE  Cached(p, s) = mig[s] /\ mig[s].exists
<1>1. NodeOf[p] \in Nodes
  BY Zenon, PodsAssumption
<1>2. cache[NodeOf[p]][s].rv = mig[s].rv
  BY Zenon DEF Fresh, Cached
<1>3. QED BY Zenon, <1>1, <1>2 DEF CacheOK, Fresh, Cached

\* An update that keeps the claim.
LEMMA KeepAdvances ==
    ASSUME DataOK, IdleOK, NEW s \in Sources, NEW m, SameClaim(mig[s], m),
           mig[s].exists, Write(s, m), kpc' = kpc
    PROVE  mig' \in [Sources -> Migrations] /\ Advance
BY Zenon, WriteAdvances DEF SameClaim

-----------------------------------------------------------------------------
\* The steps of the API server, its caches and the controllers.
LEMMA ControllerAdvances ==
    ASSUME IInv, ApiStep \/ ControllerStep
    PROVE  /\ mig' \in [Sources -> Migrations] /\ Advance
           /\ held' = held /\ ckpt' = ckpt /\ tpc' = tpc
           /\ \/ cache' = cache
              \/ /\ mig' = mig
                 /\ \E n \in Nodes, s \in Sources :
                       cache' = [cache EXCEPT ![n][s] = mig[s]]
<1> USE DEF apiVars, srcVars, dstVars
<1>1. ASSUME NEW s \in Sources, CollectGarbage(s)
      PROVE  mig' \in [Sources -> Migrations] /\ Advance
  <2>1. /\ mig[s].exists /\ kpc' = kpc
        /\ Write(s, [mig[s] EXCEPT !.deleted = TRUE])
    BY Zenon, <1>1 DEF CollectGarbage
  <2>2. SameClaim(mig[s], [mig[s] EXCEPT !.deleted = TRUE])
    BY Zenon, FlagUpdate DEF IInv, DataOK
  <2>3. QED BY Zenon, <2>1, <2>2, KeepAdvances DEF IInv
<1>2. ASSUME NEW s \in Sources, CleanupDeleted(s)
      PROVE  mig' \in [Sources -> Migrations] /\ Advance
  <2>1. kpc' = kpc
    BY Zenon, <1>2 DEF CleanupDeleted
  <2>2. CASE Fresh(s, s)
    <3>1. Write(s, [mig[s] EXCEPT !.exists = FALSE])
      BY Zenon, <1>2, <2>2 DEF CleanupDeleted
    <3>2. SameClaim(mig[s], [mig[s] EXCEPT !.exists = FALSE])
      BY Zenon, FlagUpdate DEF IInv, DataOK
    <3>3. mig[s].exists
      BY Zenon, <2>2, FreshIsCurrent DEF IInv, Pods
    <3> QED BY Zenon, <2>1, <3>1, <3>2, <3>3, KeepAdvances DEF IInv
  <2>3. CASE ~Fresh(s, s)
    <3>1. mig' = mig
      BY Zenon, <1>2, <2>3 DEF CleanupDeleted
    <3> QED BY Zenon, <2>1, <3>1 DEF Advance, IInv, DataOK
  <2>4. QED BY Zenon, <2>2, <2>3
<1>3. ASSUME NEW s \in Sources, CreateMigration(s)
      PROVE  mig' \in [Sources -> Migrations] /\ Advance
  <2> DEFINE m == [NoMigration EXCEPT !.exists = TRUE, !.live = LiveMigrate,
                                      !.owners = IF AutoGC THEN {s} ELSE {}]
  <2>1. /\ kpc[s] = "idle" /\ kpc' = [kpc EXCEPT ![s] = "created"]
        /\ Write(s, m)
    BY Zenon, <1>3 DEF CreateMigration
  <2>2. (IF AutoGC THEN {s} ELSE {}) \in SUBSET Pods /\ LiveMigrate \in BOOLEAN
    BY Zenon, FlagsAssumption DEF Pods
  <2>3. m \in Migrations /\ m.rv = 0 /\ NoMigration \in Migrations
    BY Zenon, <2>2, NewUpdate
  <2>4. m.exists
    BY Zenon, <2>3 DEF NoMigration
  <2>4a. mig[s] = NoMigration
    BY Zenon, <2>1 DEF IInv, IdleOK
  <2>5. mig[s].rv = 0 /\ mig[s].target = NoPod /\ ~mig[s].exists
    BY <2>4a DEF NoMigration
  <2> HIDE DEF m
  <2>6. /\ [m EXCEPT !.rv = @ + 1] \in Migrations
        /\ [m EXCEPT !.rv = @ + 1].rv = 1
    BY <2>3 DEF Migrations
  <2>7. mig' = [mig EXCEPT ![s] = [m EXCEPT !.rv = @ + 1]]
    BY Zenon, <2>1, <2>4, <2>5, <2>4a DEF Write
  <2>8. mig' \in [Sources -> Migrations]
    BY Zenon, <2>6, <2>7 DEF IInv, DataOK
  <2>9. \A r \in Sources : r # s => mig'[r] = mig[r] /\ kpc'[r] = kpc[r]
    BY Zenon, <2>1, <2>7 DEF IInv, DataOK
  <2>10. /\ mig'[s].rv = mig[s].rv + 1 /\ kpc'[s] # "idle"
         /\ kpc' \in [Sources -> {"idle", "created", "done"}]
    BY <2>1, <2>5, <2>6, <2>7 DEF IInv, DataOK
  <2>11. QED BY Zenon, <2>5, <2>8, <2>9, <2>10 DEF Advance
<1>4. ASSUME NEW s \in Sources, InitStatus(s)
      PROVE  mig' \in [Sources -> Migrations] /\ Advance
  <2>1. /\ kpc[s] = "created" /\ kpc' = [kpc EXCEPT ![s] = "done"]
        /\ \/ mig' = mig
           \/ /\ mig[s].rv = 1
              /\ \E f \in [Containers -> Phases] :
                    Write(s, [mig[s] EXCEPT !.phase = f])
    <3>1. ASSUME NEW failed \in SUBSET Containers
          PROVE  [c \in Containers |-> IF c \in failed THEN "Failed" ELSE "Pending"]
                    \in [Containers -> Phases]
      BY Zenon DEF Phases
    <3>2. QED BY Zenon, <1>4, <3>1 DEF InitStatus
  <2>2. /\ kpc' \in [Sources -> {"idle", "created", "done"}]
        /\ \A r \in Sources : kpc'[r] = "idle" => kpc[r] = "idle" /\ r # s
    BY Zenon, <2>1 DEF IInv, DataOK
  <2>3. CASE mig' = mig
    BY Zenon, <2>2, <2>3 DEF Advance, IInv, DataOK
  <2>4. CASE \E f \in [Containers -> Phases] :
                Write(s, [mig[s] EXCEPT !.phase = f])
    <3>1. PICK f \in [Containers -> Phases] :
                Write(s, [mig[s] EXCEPT !.phase = f])
      BY Zenon, <2>4
    <3> DEFINE m == [mig[s] EXCEPT !.phase = f]
    <3>2. SameClaim(mig[s], m)
      BY Zenon, StatusUpdate DEF IInv, DataOK
    <3>3. Write(s, m)
      BY Zenon, <3>1
    <3> HIDE DEF m
    <3>4. /\ [m EXCEPT !.rv = @ + 1] \in Migrations
          /\ [m EXCEPT !.rv = @ + 1].rv = mig[s].rv + 1
          /\ [m EXCEPT !.rv = @ + 1].target = mig[s].target
      BY <3>2 DEF Migrations, SameClaim
    <3>5. mig' = mig \/ mig' = [mig EXCEPT ![s] = [m EXCEPT !.rv = @ + 1]]
      BY Zenon, <3>3 DEF Write, IInv, DataOK
    <3>6. mig' \in [Sources -> Migrations]
      BY Zenon, <3>4, <3>5 DEF IInv, DataOK
    <3>7. \A r \in Sources : r # s => mig'[r] = mig[r]
      BY Zenon, <3>5 DEF IInv, DataOK
    <3>8. \/ mig'[s] = mig[s]
          \/ mig'[s].rv = mig[s].rv + 1 /\ mig'[s].target = mig[s].target
      BY Zenon, <3>4, <3>5 DEF IInv, DataOK
    <3>9. QED BY Zenon, <2>2, <3>6, <3>7, <3>8 DEF Advance
  <2>5. QED BY Zenon, <2>1, <2>3, <2>4
<1>5. ASSUME NEW s \in Sources, NEW t \in Targets, ControllerClaim(t, s)
      PROVE  mig' \in [Sources -> Migrations] /\ Advance
  <2>1. mig[s] \in Migrations
    BY Zenon DEF IInv, DataOK
  <2>2. (IF AutoGC THEN mig[s].owners \cup {t} ELSE mig[s].owners) \in SUBSET Pods
    BY Zenon, <2>1 DEF Migrations, Pods
  <2>3. PICK o \in SUBSET Pods :
                Write(s, [mig[s] EXCEPT !.target = t, !.owners = o])
    BY Zenon, <1>5, <2>2 DEF ControllerClaim
  <2>4. Fresh(t, s) /\ Claimable(s, t) /\ kpc' = kpc
    BY Zenon, <1>5 DEF ControllerClaim
  <2>5. mig[s].exists /\ mig[s].target = NoPod
    BY Zenon, <2>4, FreshIsCurrent DEF IInv, Pods, Claimable, Claimed
  <2>6. /\ [mig[s] EXCEPT !.target = t, !.owners = o] \in Migrations
        /\ [mig[s] EXCEPT !.target = t, !.owners = o].rv = mig[s].rv
    BY Zenon, <2>1 DEF Migrations
  <2>7. QED BY Zenon, <2>3, <2>4, <2>5, <2>6, WriteAdvances DEF IInv
<1>6. ASSUME NEW s \in Sources,
             \/ \E n \in Nodes : Sync(n, s)
             \/ CleanupFinal(s) \/ PodGone(s)
      PROVE  mig' \in [Sources -> Migrations] /\ Advance
  <2>1. mig' = mig /\ kpc' = kpc
    BY Zenon, <1>6 DEF Sync, CleanupFinal, PodGone
  <2>2. QED BY Zenon, <2>1 DEF Advance, IInv, DataOK
<1>7. held' = held /\ ckpt' = ckpt /\ tpc' = tpc
  BY ZenonT(30) DEF ApiStep, ControllerStep, Sync, CollectGarbage, CleanupFinal,
         CleanupDeleted, CreateMigration, InitStatus, PodGone, ControllerClaim
<1>8. \/ cache' = cache
      \/ /\ mig' = mig
         /\ \E n \in Nodes, s \in Sources :
               cache' = [cache EXCEPT ![n][s] = mig[s]]
  BY Zenon DEF ApiStep, ControllerStep, Sync, CollectGarbage, CleanupFinal,
         CleanupDeleted, CreateMigration, InitStatus, PodGone, ControllerClaim
<1>9. QED
  BY Zenon, <1>1, <1>2, <1>3, <1>4, <1>5, <1>6, <1>7, <1>8 DEF ApiStep, ControllerStep

-----------------------------------------------------------------------------
\* What a step of a target may hold afterwards.
HoldStep(t, c) ==
    /\ held' \in [TargetThreads -> [mig : Sources \cup {NoPod}, rv : Nat,
                                    live : BOOLEAN]]
    /\ \A x \in TargetThreads : x # <<t, c>> => held'[x] = held[x]
    /\ \/ held'[<<t, c>>].mig \in {NoPod, held[<<t, c>>].mig}
       \/ mig'[held'[<<t, c>>].mig].target = t
    /\ ckpt' = ckpt \/ \E k \in {NoPod, held[<<t, c>>].mig} :
          ckpt' = [ckpt EXCEPT ![<<t, c>>] = k]
    /\ \E q \in {"idle", "find", "ready", "servers", "fail", "pull", "start",
                 "finish", "started"} :
          /\ tpc' = [tpc EXCEPT ![<<t, c>>] = q]
          /\ q \in Restoring => held'[<<t, c>>].mig # NoPod

\* A step that leaves the Migration of the container as it is, or drops it.
LEMMA KeepHolds ==
    ASSUME IInv, NEW t \in Targets, NEW c \in Containers,
           held' = held \/ held' = [held EXCEPT ![<<t, c>>] = NotHeld],
           \/ ckpt' = ckpt
           \/ ckpt' = [ckpt EXCEPT ![<<t, c>>] = NoPod]
           \/ ckpt' = [ckpt EXCEPT ![<<t, c>>] = held[<<t, c>>].mig],
           NEW q \in {"idle", "find", "ready", "servers", "fail", "pull",
                      "start", "finish", "started"},
           tpc' = [tpc EXCEPT ![<<t, c>>] = q],
           q \in Restoring => tpc[<<t, c>>] \in Restoring /\ held' = held
    PROVE  HoldStep(t, c)
<1>1. NotHeld \in [mig : Sources \cup {NoPod}, rv : Nat, live : BOOLEAN]
  BY Zenon DEF NotHeld
<1>2. NotHeld.mig = NoPod
  BY Zenon DEF NotHeld
<1>3. <<t, c>> \in TargetThreads
  BY Zenon DEF TargetThreads
<1>4. held' \in [TargetThreads -> [mig : Sources \cup {NoPod}, rv : Nat,
                                   live : BOOLEAN]]
  BY Zenon, <1>1 DEF IInv, DataOK
<1>5. \A x \in TargetThreads : x # <<t, c>> => held'[x] = held[x]
  BY Zenon DEF IInv, DataOK
<1>6. held'[<<t, c>>].mig \in {NoPod, held[<<t, c>>].mig}
  BY Zenon, <1>2, <1>3 DEF IInv, DataOK
<1>7. q \in Restoring => held'[<<t, c>>].mig # NoPod
  BY Zenon DEF IInv, HeldOK
<1>8. QED BY Zenon, <1>4, <1>5, <1>6, <1>7 DEF HoldStep

\* findMatchingMigration has found or claimed the Migration of s.
LEMMA HoldHolds ==
    ASSUME IInv, NEW t \in Targets, NEW c \in Containers, NEW s \in Sources,
           NEW m, m.rv \in Nat, Hold(t, c, s, m), mig'[s].target = t, ckpt' = ckpt
    PROVE  HoldStep(t, c)
<1> DEFINE h == [mig |-> s, rv |-> m.rv, live |-> FALSE]
<1>1. h \in [mig : Sources \cup {NoPod}, rv : Nat, live : BOOLEAN] /\ h.mig = s
  BY Zenon
<1>2. held' = [held EXCEPT ![<<t, c>>] = h]
  BY Zenon DEF Hold
<1>3. \E q \in {"start", "ready"} : tpc' = [tpc EXCEPT ![<<t, c>>] = q]
  BY Zenon DEF Hold, Step
<1> HIDE DEF h
<1>4. <<t, c>> \in TargetThreads
  BY Zenon DEF TargetThreads
<1>5. held' \in [TargetThreads -> [mig : Sources \cup {NoPod}, rv : Nat,
                                   live : BOOLEAN]]
  BY Zenon, <1>1, <1>2 DEF IInv, DataOK
<1>6. \A x \in TargetThreads : x # <<t, c>> => held'[x] = held[x]
  BY Zenon, <1>2 DEF IInv, DataOK
<1>7. held'[<<t, c>>].mig = s /\ s # NoPod
  BY Zenon, <1>1, <1>2, <1>4, PodsAssumption DEF IInv, DataOK, Pods
<1>8. QED BY Zenon, <1>3, <1>5, <1>6, <1>7 DEF HoldStep

\* The steps of the node service and the shim of a target.
LEMMA TargetAdvances ==
    ASSUME IInv, NEW t \in Targets, NEW c \in Containers, TargetStep(t, c)
    PROVE  /\ mig' \in [Sources -> Migrations] /\ Advance
           /\ HoldStep(t, c) /\ cache' = cache
<1> USE DEF apiVars, srcVars, dstVars
<1> DEFINE x == <<t, c>>
           s == held[x].mig
<1>1. tpc[x] \in Restoring => s \in Sources
  BY DEF IInv, DataOK, HeldOK, TargetThreads
<1>2. mig' = mig /\ kpc' = kpc => mig' \in [Sources -> Migrations] /\ Advance
  BY Zenon DEF Advance, IInv, DataOK
<1>3. NodeOf[t] \in Nodes
  BY Zenon, PodsAssumption DEF Pods
<1>4. ASSUME NEW r \in Sources, FindAndClaim(t, c, r)
      PROVE  /\ mig' \in [Sources -> Migrations] /\ Advance
             /\ HoldStep(t, c) /\ cache' = cache
  <2>1. /\ Fresh(t, r) /\ Claimable(r, t) /\ kpc' = kpc
        /\ Write(r, [mig[r] EXCEPT !.target = t])
        /\ ckpt' = ckpt /\ cache' = cache /\ Hold(t, c, r, mig'[r])
    BY Zenon, <1>4 DEF FindAndClaim
  <2>2. /\ [mig[r] EXCEPT !.target = t] \in Migrations
        /\ [mig[r] EXCEPT !.target = t].rv = mig[r].rv
        /\ [mig[r] EXCEPT !.target = t].target = t
    <3>1. mig[r] \in Migrations
      BY Zenon DEF IInv, DataOK
    <3>2. QED BY Zenon, <3>1 DEF Migrations
  <2>3. mig[r].exists /\ mig[r].target = NoPod
    BY Zenon, <2>1, FreshIsCurrent DEF IInv, Pods, Claimable, Claimed
  <2>4. mig' \in [Sources -> Migrations] /\ Advance /\ mig'[r].target = t
    BY Zenon, <2>1, <2>2, <2>3, WriteAdvances DEF IInv
  <2>5. mig'[r].rv \in Nat
    BY Zenon, <2>4 DEF Migrations
  <2>6. QED BY Zenon, <2>1, <2>4, <2>5, HoldHolds
<1>5. ASSUME NEW r \in Sources, FindClaimed(t, c, r)
      PROVE  /\ mig' \in [Sources -> Migrations] /\ Advance
             /\ HoldStep(t, c) /\ cache' = cache
  <2>1. /\ mig' = mig /\ kpc' = kpc /\ ckpt' = ckpt /\ cache' = cache
        /\ Cached(t, r).target = t /\ Hold(t, c, r, Cached(t, r))
    BY Zenon, <1>5 DEF FindClaimed, ClaimedAndMatchesPod
  <2>2. Cached(t, r).rv \in Nat
    BY <1>3 DEF Cached, IInv, DataOK, Migrations
  <2>3. mig[r].target = t
    BY Zenon, <1>3, <2>1, PodsAssumption DEF Cached, IInv, CacheOK, Pods
  <2>4. QED BY Zenon, <1>2, <2>1, <2>2, <2>3, HoldHolds
<1>6. CASE SetRestoreReady(t, c)
  <2>1. kpc' = kpc /\ held' = held /\ ckpt' = ckpt /\ cache' = cache
    BY Zenon, <1>6 DEF SetRestoreReady
  <2>2. /\ tpc[x] = "ready"
        /\ \E q \in {"servers", "start"} : tpc' = [tpc EXCEPT ![x] = q]
        /\ \/ mig' = mig
           \/ mig[s].exists /\ Write(s, [mig[s] EXCEPT !.ready = TRUE])
    BY Zenon, <1>6 DEF SetRestoreReady, Step
  <2>3. s \in Sources
    BY Zenon, <1>1, <2>2 DEF Restoring
  <2>4. SameClaim(mig[s], [mig[s] EXCEPT !.ready = TRUE])
    BY Zenon, <2>3, FlagUpdate DEF IInv, DataOK
  <2>5. mig' \in [Sources -> Migrations] /\ Advance
    BY Zenon, <1>2, <2>1, <2>2, <2>3, <2>4, KeepAdvances DEF IInv
  <2>6. HoldStep(t, c)
    BY Zenon, <2>1, <2>2, KeepHolds DEF Restoring
  <2>7. QED BY Zenon, <2>1, <2>5, <2>6
<1>7. CASE SetMigrationFailed(t, c)
  <2>1. kpc' = kpc /\ held' = held /\ ckpt' = ckpt /\ cache' = cache
    BY Zenon, <1>7 DEF SetMigrationFailed
  <2>2. /\ tpc[x] = "fail" /\ tpc' = [tpc EXCEPT ![x] = "start"]
        /\ \/ mig' = mig
           \/ /\ Fresh(t, s)
              /\ Write(s, [mig[s] EXCEPT !.phase[c] = "Failed"])
    BY Zenon, <1>7 DEF SetMigrationFailed, Step
  <2>3. s \in Sources
    BY Zenon, <1>1, <2>2 DEF Restoring
  <2>4. SameClaim(mig[s], [mig[s] EXCEPT !.phase[c] = "Failed"])
    BY Zenon, <2>3, ContainerUpdate DEF IInv, DataOK, Phases
  <2>5. Fresh(t, s) => mig[s].exists
    BY Zenon, <2>3, FreshIsCurrent DEF IInv, Pods
  <2>6. mig' \in [Sources -> Migrations] /\ Advance
    BY Zenon, <1>2, <2>1, <2>2, <2>3, <2>4, <2>5, KeepAdvances DEF IInv
  <2>7. HoldStep(t, c)
    BY Zenon, <2>1, <2>2, KeepHolds DEF Restoring
  <2>8. QED BY Zenon, <2>1, <2>6, <2>7
<1>8. ASSUME NEW r \in Sources, FinishRestore(t, c, r)
      PROVE  /\ mig' \in [Sources -> Migrations] /\ Advance
             /\ HoldStep(t, c) /\ cache' = cache
  <2>1. /\ kpc' = kpc /\ held' = held /\ ckpt' = ckpt /\ cache' = cache
        /\ tpc' = [tpc EXCEPT ![x] = "started"]
    BY Zenon, <1>8 DEF FinishRestore, Step
  <2>2. \/ mig' = mig
        \/ /\ Fresh(t, r)
           /\ \E p \in Phases : Write(r, [mig[r] EXCEPT !.phase[c] = p])
    <3>1. mig[r].phase[c] \in Phases
      BY DEF IInv, DataOK, Migrations
    <3>2. QED BY Zenon, <1>8, <3>1 DEF FinishRestore, Phases
  <2>3. \A p \in Phases : SameClaim(mig[r], [mig[r] EXCEPT !.phase[c] = p])
    BY Zenon, ContainerUpdate DEF IInv, DataOK
  <2>4. Fresh(t, r) => mig[r].exists
    BY Zenon, FreshIsCurrent DEF IInv, Pods
  <2>5. ASSUME NEW p \in Phases, Write(r, [mig[r] EXCEPT !.phase[c] = p]),
               Fresh(t, r)
        PROVE  mig' \in [Sources -> Migrations] /\ Advance
    BY Zenon, <2>1, <2>3, <2>4, <2>5, KeepAdvances DEF IInv
  <2>6. HoldStep(t, c)
    BY Zenon, <2>1, KeepHolds DEF Restoring
  <2>7. CASE mig' = mig
    BY Zenon, <1>2, <2>1, <2>6, <2>7
  <2>8. CASE /\ Fresh(t, r)
             /\ \E p \in Phases : Write(r, [mig[r] EXCEPT !.phase[c] = p])
    <3>1. PICK p \in Phases : Write(r, [mig[r] EXCEPT !.phase[c] = p])
      BY Zenon, <2>8
    <3>2. QED BY Zenon, <2>1, <2>5, <2>6, <2>8, <3>1
  <2>9. QED BY Zenon, <2>2, <2>7, <2>8
<1>9. CASE ServersSet(t, c)
  <2>1. /\ mig' = mig /\ kpc' = kpc /\ ckpt' = ckpt /\ cache' = cache
        /\ tpc[x] = "servers" /\ tpc' = [tpc EXCEPT ![x] = "pull"]
        /\ held' = [held EXCEPT ![x].live = Cached(t, s).live]
    BY Zenon, <1>9 DEF ServersSet, Step
  <2>2. s \in Sources /\ s # NoPod
    BY Zenon, <1>1, <2>1, PodsAssumption DEF Restoring, Pods
  <2>3. Cached(t, s).live \in BOOLEAN
    BY <1>3, <2>2 DEF Cached, IInv, DataOK, Migrations
  <2>4. PICK l \in BOOLEAN : held' = [held EXCEPT ![x].live = l]
    BY Zenon, <2>1, <2>3
  <2>5. x \in TargetThreads
    BY Zenon DEF TargetThreads
  <2>6. held' \in [TargetThreads -> [mig : Sources \cup {NoPod}, rv : Nat,
                                     live : BOOLEAN]]
    BY ZenonT(30), <2>4 DEF IInv, DataOK
  <2>7. \A y \in TargetThreads : y # x => held'[y] = held[y]
    BY Zenon, <2>4 DEF IInv, DataOK
  <2>8. held'[x].mig = s
    BY Zenon, <2>4, <2>5 DEF IInv, DataOK
  <2>9. HoldStep(t, c)
    BY Zenon, <2>1, <2>2, <2>6, <2>7, <2>8 DEF HoldStep
  <2>10. QED BY Zenon, <1>2, <2>1, <2>9
<1>10. CASE \/ CreateContainer(t, c) \/ FindFails(t, c) \/ ServersTimeout(t, c)
            \/ PullImage(t, c) \/ PullFails(t, c) \/ StartContainer(t, c)
            \/ StartFails(t, c) \/ FinishFindsNone(t, c)
  <2>1. mig' = mig /\ kpc' = kpc /\ cache' = cache
    BY Zenon, <1>10 DEF CreateContainer, FindFails, ServersTimeout, PullImage,
                 PullFails, StartContainer, StartFails, FinishFindsNone
  <2>2. held' = held \/ held' = [held EXCEPT ![x] = NotHeld]
    BY Zenon, <1>10 DEF CreateContainer, FindFails, ServersTimeout, PullImage,
                 PullFails, StartContainer, StartFails, FinishFindsNone
  <2>3. \/ ckpt' = ckpt
        \/ ckpt' = [ckpt EXCEPT ![x] = NoPod]
        \/ ckpt' = [ckpt EXCEPT ![x] = held[x].mig]
    BY Zenon, <1>10 DEF CreateContainer, FindFails, ServersTimeout, PullImage,
                 PullFails, StartContainer, StartFails, FinishFindsNone
  <2>4. PICK q \in {"find", "start", "fail", "finish", "idle", "started"} :
           /\ tpc' = [tpc EXCEPT ![x] = q]
           /\ q = "fail" => tpc[x] \in {"servers", "pull"} /\ held' = held
    BY Zenon, <1>10 DEF CreateContainer, FindFails, ServersTimeout, PullImage,
                 PullFails, StartContainer, StartFails, FinishFindsNone, Step
  <2>5. HoldStep(t, c)
    BY Zenon, <2>2, <2>3, <2>4, KeepHolds DEF Restoring
  <2>6. QED BY Zenon, <1>2, <2>1, <2>5
<1>11. QED
  BY Zenon, <1>4, <1>5, <1>6, <1>7, <1>8, <1>9, <1>10 DEF TargetStep

\* The steps of a source, of the cluster and of the clients.
LEMMA SourceAdvances ==
    ASSUME IInv,
           \/ Environment
           \/ \E s \in Sources, c \in Containers : SourceStep(s, c)
    PROVE  /\ mig' \in [Sources -> Migrations] /\ Advance
           /\ held' = held /\ ckpt' = ckpt /\ tpc' = tpc /\ cache' = cache
<1> USE DEF apiVars, srcVars, dstVars
<1>1. mig' = mig /\ kpc' = kpc => mig' \in [Sources -> Migrations] /\ Advance
  BY Zenon DEF Advance, IInv, DataOK
<1>2. CASE Environment
  BY Zenon, <1>1, <1>2 DEF Environment, DeletePod, SchedulePod, PodRunning,
                    WakeSource, EvictPod
<1>3. ASSUME NEW s \in Sources, NEW c \in Containers, SourceStep(s, c)
      PROVE  /\ mig' \in [Sources -> Migrations] /\ Advance
             /\ held' = held /\ ckpt' = ckpt /\ tpc' = tpc /\ cache' = cache
  <2>1. Fresh(s, s) => mig[s].exists
    BY Zenon, FreshIsCurrent DEF IInv, Pods
  <2>2. \A p \in Phases : SameClaim(mig[s], [mig[s] EXCEPT !.phase[c] = p])
    BY Zenon, ContainerUpdate DEF IInv, DataOK
  <2>3. CASE SetUnclaimed(s, c)
    <3>1. /\ kpc' = kpc /\ cache' = cache
          /\ held' = held /\ ckpt' = ckpt /\ tpc' = tpc
          /\ \/ mig' = mig
             \/ /\ Fresh(s, s)
                /\ Write(s, [mig[s] EXCEPT !.phase[c] = "Unclaimed"])
      BY Zenon, <2>3 DEF SetUnclaimed
    <3>2. SameClaim(mig[s], [mig[s] EXCEPT !.phase[c] = "Unclaimed"])
      BY Zenon, <2>2 DEF Phases
    <3>3. QED BY Zenon, <1>1, <2>1, <3>1, <3>2, KeepAdvances DEF IInv
  <2>4. CASE EvacServers(s, c)
    <3>1. /\ kpc' = kpc /\ cache' = cache
          /\ held' = held /\ ckpt' = ckpt /\ tpc' = tpc
          /\ Fresh(s, s)
      BY Zenon, <2>4 DEF EvacServers
    <3>2. PICK b \in BOOLEAN, l \in BOOLEAN :
             Write(s, [mig[s] EXCEPT !.server[c] = b, !.live = l])
      BY Zenon, <2>4 DEF EvacServers
    <3>3. SameClaim(mig[s], [mig[s] EXCEPT !.server[c] = b, !.live = l])
      <4>1. mig[s] \in Migrations
        BY Zenon DEF IInv, DataOK
      <4>2. QED BY Zenon, <4>1 DEF Migrations, SameClaim
    <3>4. QED BY Zenon, <2>1, <3>1, <3>2, <3>3, KeepAdvances DEF IInv
  <2>5. CASE EvacStatus(s, c)
    <3>1. /\ kpc' = kpc /\ cache' = cache
          /\ held' = held /\ ckpt' = ckpt /\ tpc' = tpc
          /\ \/ mig' = mig
             \/ /\ Fresh(s, s)
                /\ Write(s, [mig[s] EXCEPT !.phase[c] = "Running"])
      BY Zenon, <2>5 DEF EvacStatus
    <3>2. SameClaim(mig[s], [mig[s] EXCEPT !.phase[c] = "Running"])
      BY Zenon, <2>2 DEF Phases
    <3>3. QED BY Zenon, <1>1, <2>1, <3>1, <3>2, KeepAdvances DEF IInv
  <2>6. CASE \/ EvictDone(s, c) \/ KillContainer(s, c) \/ SeesClaim(s, c)
             \/ ClaimTimeout(s, c) \/ SeesReady(s, c) \/ ReadyTimeout(s, c)
             \/ LazyDump(s, c) \/ EvacFails(s, c) \/ TransferDone(s, c)
             \/ Exit(s, c)
    BY Zenon, <1>1, <2>6 DEF EvictDone, KillContainer, SeesClaim, ClaimTimeout,
                      SeesReady, ReadyTimeout, LazyDump, EvacFails,
                      TransferDone, Exit
  <2>7. QED BY Zenon, <1>3, <2>3, <2>4, <2>5, <2>6 DEF SourceStep
<1>4. QED BY Zenon, <1>2, <1>3

-----------------------------------------------------------------------------
(* The invariant is inductive. *)

\* Before any pod is deleted there is no Migration, in the API server or a cache.
LEMMA InitInvariant == Init => IInv
<1> SUFFICES ASSUME Init PROVE IInv
  BY Zenon, SMTT(30)
<1>1. NoMigration \in Migrations
  BY Zenon, NewUpdate
<1>2. NotHeld \in [mig : Sources \cup {NoPod}, rv : Nat, live : BOOLEAN]
  BY Zenon DEF NotHeld
<1>3. DataOK
  BY Zenon, <1>1, <1>2 DEF Init, DataOK
<1>4. CacheOK
  BY DEF Init, CacheOK, NoMigration
<1>5. IdleOK /\ CkptOK
  BY Zenon DEF Init, IdleOK, CkptOK, TargetThreads
<1>6. HeldOK
  BY Zenon DEF Init, HeldOK, NotHeld, Restoring, TargetThreads
<1>7. QED BY Zenon, <1>3, <1>4, <1>5, <1>6 DEF IInv

\* A Migration that advances keeps what the caches and the holders rely on.
LEMMA AdvanceKeeps ==
    ASSUME IInv, Advance, mig' \in [Sources -> Migrations]
    PROVE  /\ \A s \in Sources :
                 /\ mig[s].rv =< mig'[s].rv
                 /\ mig[s].rv = mig'[s].rv => mig'[s] = mig[s]
                 /\ mig[s].target # NoPod => mig'[s].target = mig[s].target
           /\ IdleOK'
<1>1. \A s \in Sources : mig[s].rv \in Nat
  BY Zenon DEF IInv, DataOK, Migrations
<1>2. QED BY <1>1 DEF Advance, IInv, IdleOK, NoMigration

\* The caches, when a Migration advances and when one of them catches up.
LEMMA CacheKeeps ==
    ASSUME IInv, Advance, mig' \in [Sources -> Migrations],
           \/ cache' = cache
           \/ /\ mig' = mig
              /\ \E n \in Nodes, s \in Sources :
                    cache' = [cache EXCEPT ![n][s] = mig[s]]
    PROVE  cache' \in [Nodes -> [Sources -> Migrations]] /\ CacheOK'
<1>1. CASE cache' = cache
  <2>1. \A n \in Nodes, s \in Sources :
           cache[n][s].rv \in Nat /\ mig[s].rv \in Nat /\ mig'[s].rv \in Nat
    BY DEF IInv, DataOK, Migrations
  <2>2. \A n \in Nodes, s \in Sources :
           /\ cache[n][s].rv =< mig'[s].rv
           /\ cache[n][s].rv = mig'[s].rv => cache[n][s] = mig'[s]
           /\ cache[n][s].target # NoPod => cache[n][s].target = mig'[s].target
    BY <2>1, AdvanceKeeps DEF IInv, CacheOK
  <2>3. QED BY <1>1, <2>2 DEF IInv, DataOK, CacheOK
<1>2. CASE /\ mig' = mig
           /\ \E n \in Nodes, s \in Sources :
                 cache' = [cache EXCEPT ![n][s] = mig[s]]
  <2>1. PICK n \in Nodes, s \in Sources :
                 cache' = [cache EXCEPT ![n][s] = mig[s]]
    BY Zenon, <1>2
  <2>2. cache' \in [Nodes -> [Sources -> Migrations]]
    BY Zenon, <2>1 DEF IInv, DataOK
  <2>3. \A k \in Nodes, r \in Sources :
           cache'[k][r] = cache[k][r] \/ cache'[k][r] = mig[r]
    BY Zenon, <2>1 DEF IInv, DataOK
  <2>4. \A r \in Sources : mig[r].rv \in Nat
    BY Zenon DEF IInv, DataOK, Migrations
  <2>5. QED BY <1>2, <2>2, <2>3, <2>4 DEF IInv, CacheOK
<1>3. QED BY Zenon, <1>1, <1>2

\* Steps of the targets keep what they hold, and so do all others.
LEMMA NextInvariant == IInv /\ [Next]_vars => IInv' /\ Advance
<1> SUFFICES ASSUME IInv, [Next]_vars PROVE IInv' /\ Advance
  BY Zenon
<1>1. ASSUME Advance, mig' \in [Sources -> Migrations],
             held' = held, ckpt' = ckpt, tpc' = tpc,
             \/ cache' = cache
             \/ /\ mig' = mig
                /\ \E n \in Nodes, s \in Sources :
                      cache' = [cache EXCEPT ![n][s] = mig[s]]
      PROVE  IInv'
  <2>1. cache' \in [Nodes -> [Sources -> Migrations]] /\ CacheOK'
    BY Zenon, <1>1, CacheKeeps
  <2>2. kpc' \in [Sources -> {"idle", "created", "done"}]
    BY Zenon, <1>1 DEF Advance
  <2>3. DataOK' /\ IdleOK'
    BY Zenon, <1>1, <2>1, <2>2, AdvanceKeeps DEF DataOK, IInv
  <2>4. \A t \in Targets, c \in Containers :
           /\ t # NoPod
           /\ held[<<t, c>>].mig \in Sources \cup {NoPod}
           /\ ckpt[<<t, c>>] \in Sources \cup {NoPod}
    BY Zenon, PodsAssumption DEF IInv, DataOK, TargetThreads, Pods
  <2>5. HeldOK'
    <3> SUFFICES ASSUME NEW t \in Targets, NEW c \in Containers
                 PROVE  /\ tpc[<<t, c>>] \in Restoring
                              => held[<<t, c>>].mig # NoPod
                        /\ held[<<t, c>>].mig # NoPod
                              => mig'[held[<<t, c>>].mig].target = t
      BY Zenon, <1>1 DEF HeldOK, Restoring
    <3>1. QED BY <1>1, <2>4, AdvanceKeeps DEF IInv, HeldOK
  <2>6. CkptOK'
    BY <1>1, <2>4, AdvanceKeeps DEF IInv, CkptOK
  <2>7. QED BY Zenon, <2>1, <2>3, <2>5, <2>6 DEF IInv
<1>2. ASSUME NEW t \in Targets, NEW c \in Containers, HoldStep(t, c), Advance,
             mig' \in [Sources -> Migrations], cache' = cache
      PROVE  IInv'
  <2>1. cache' \in [Nodes -> [Sources -> Migrations]] /\ CacheOK'
    BY Zenon, <1>2, CacheKeeps
  <2>2. /\ kpc' \in [Sources -> {"idle", "created", "done"}]
        /\ <<t, c>> \in TargetThreads
    BY Zenon, <1>2 DEF Advance, TargetThreads
  <2>3. /\ tpc' \in [TargetThreads -> {"idle", "find", "ready", "servers",
                                       "fail", "pull", "start", "finish",
                                       "started"}]
        /\ \A x \in TargetThreads : x # <<t, c>> => tpc'[x] = tpc[x]
        /\ tpc'[<<t, c>>] \in Restoring => held'[<<t, c>>].mig # NoPod
    BY <1>2, <2>2 DEF HoldStep, IInv, DataOK
  <2>4. /\ ckpt' \in [TargetThreads -> Sources \cup {NoPod}]
        /\ \A x \in TargetThreads :
              \/ ckpt'[x] \in {ckpt[x], NoPod}
              \/ x = <<t, c>> /\ ckpt'[x] = held[x].mig
    <3>1. held[<<t, c>>].mig \in Sources \cup {NoPod}
      BY Zenon, <2>2 DEF IInv, DataOK
    <3>2. CASE ckpt' = ckpt
      BY Zenon, <3>2 DEF IInv, DataOK
    <3>3. ASSUME NEW k \in {NoPod, held[<<t, c>>].mig},
                 ckpt' = [ckpt EXCEPT ![<<t, c>>] = k]
          PROVE  /\ ckpt' \in [TargetThreads -> Sources \cup {NoPod}]
                 /\ \A x \in TargetThreads :
                       \/ ckpt'[x] \in {ckpt[x], NoPod}
                       \/ x = <<t, c>> /\ ckpt'[x] = held[x].mig
      BY Zenon, <2>2, <3>1, <3>3 DEF IInv, DataOK
    <3>4. QED BY Zenon, <1>2, <3>2, <3>3 DEF HoldStep
  <2>5. DataOK' /\ IdleOK'
    BY Zenon, <1>2, <2>1, <2>2, <2>3, <2>4, AdvanceKeeps DEF DataOK, HoldStep
  <2>6. HeldOK'
    <3> SUFFICES ASSUME NEW u \in Targets, NEW d \in Containers
                 PROVE  /\ tpc'[<<u, d>>] \in Restoring
                              => held'[<<u, d>>].mig # NoPod
                        /\ held'[<<u, d>>].mig # NoPod
                              => mig'[held'[<<u, d>>].mig].target = u
      BY Zenon DEF HeldOK
    <3>1. <<u, d>> \in TargetThreads /\ u # NoPod
      BY Zenon, PodsAssumption DEF TargetThreads, Pods
    <3>2. CASE <<u, d>> = <<t, c>>
      <4>1. u = t /\ d = c
        BY Zenon, <3>2
      <4>2. QED BY <1>2, <2>2, <2>3, <3>1, <4>1, AdvanceKeeps
                DEF HoldStep, IInv, DataOK, HeldOK
    <3>3. CASE <<u, d>> # <<t, c>>
      BY <1>2, <2>3, <3>1, <3>3, AdvanceKeeps DEF HoldStep, IInv, DataOK, HeldOK
    <3>4. QED BY Zenon, <3>2, <3>3
  <2>7. CkptOK'
    <3> SUFFICES ASSUME NEW u \in Targets, NEW d \in Containers,
                        ckpt'[<<u, d>>] # NoPod
                 PROVE  mig'[ckpt'[<<u, d>>]].target = u
      BY Zenon DEF CkptOK
    <3>1. <<u, d>> \in TargetThreads /\ u # NoPod
      BY Zenon, PodsAssumption DEF TargetThreads, Pods
    <3>2. mig[ckpt'[<<u, d>>]].target = u
      BY <2>4, <3>1 DEF IInv, HeldOK, CkptOK
    <3>3. ckpt'[<<u, d>>] \in Sources
      BY Zenon, <2>4, <3>1
    <3>4. QED BY Zenon, <1>2, <3>1, <3>2, <3>3, AdvanceKeeps
  <2>8. QED BY Zenon, <2>1, <2>5, <2>6, <2>7 DEF IInv
<1>3. CASE ApiStep \/ ControllerStep
  BY Zenon, <1>1, <1>3, ControllerAdvances
<1>4. CASE \/ Environment
           \/ \E s \in Sources, c \in Containers : SourceStep(s, c)
  BY Zenon, <1>1, <1>4, SourceAdvances
<1>5. ASSUME NEW t \in Targets, NEW c \in Containers, TargetStep(t, c)
      PROVE  IInv' /\ Advance
  BY Zenon, <1>2, <1>5, TargetAdvances
<1>6. CASE UNCHANGED vars
  <2>1. /\ mig' = mig /\ kpc' = kpc /\ held' = held /\ ckpt' = ckpt
        /\ tpc' = tpc /\ cache' = cache
    BY Zenon, <1>6 DEF vars, apiVars, dstVars
  <2>2. mig' \in [Sources -> Migrations] /\ Advance
    BY Zenon, <2>1 DEF Advance, IInv, DataOK
  <2>3. QED BY Zenon, <1>1, <2>1, <2>2
<1>7. QED BY Zenon, <1>3, <1>4, <1>5, <1>6 DEF Next

-----------------------------------------------------------------------------
\* The invariant holds in every state of every behaviour.
THEOREM InvariantCorrect == Spec => []IInv
<1>1. Init => IInv
  BY Zenon, InitInvariant
<1>2. IInv /\ [Next]_vars => IInv'
  BY NextInvariant
<1>3. QED BY <1>1, <1>2, PTL DEF Spec

\* A claim is never taken over: of all the pods, controllers and node services
\* that try to claim a Migration from whatever their caches hold, one succeeds
\* and keeps it.
THEOREM ClaimStableCorrect == Spec => ClaimStable
<1>1. IInv /\ [Next]_vars =>
         [\A s \in Sources :
             mig[s].target # NoPod => mig'[s].target = mig[s].target]_vars
  BY NextInvariant DEF Advance
<1>2. QED BY <1>1, InvariantCorrect, PTL DEF Spec, ClaimStable

\* No checkpoint is handed out twice, not even when the container of a target
\* is created again after a start that failed.
THEOREM OneCopyCorrect == Spec => []OneCopy
<1>1. IInv => OneCopy
  BY DEF IInv, CkptOK, OneCopy
<1>2. QED BY <1>1, InvariantCorrect, PTL

-----------------------------------------------------------------------------
(* The old pods: types, and NoSplitBrain. *)

\* What TypeOK says of the other variables.
SourceOK ==
    /\ pod \in [Pods -> {"absent", "pending", "running", "deleting", "gone"}]
    /\ spc \in [SourceThreads ->
                   {"run", "claim", "unclaim", "ready", "dump", "evac",
                    "status", "transfer", "drain", "kill", "exited"}]
    /\ evac \in [SourceThreads -> {"none", "offline", "live"}]
    /\ sproc \in [SourceThreads -> {"running", "scaledDown", "frozen", "exited"}]
    /\ image \subseteq SourceThreads
    /\ evict \in [SourceThreads -> {"no", "waiting", "forwarded", "denied"}]
    /\ gaveUp \subseteq SourceThreads

\* A process whose image is there does not run.
ImagesRest == \A x \in image : sproc[x] # "running"

SplitInv == IInv /\ SourceOK /\ ImagesRest /\ NoSplitBrain

\* The steps that leave the old pods alone.
LEMMA SourceFrame ==
    ASSUME \/ \E s \in Sources :
                 \/ \E n \in Nodes : Sync(n, s)
                 \/ CollectGarbage(s) \/ CreateMigration(s)
                 \/ \E t \in Targets : ControllerClaim(t, s)
           \/ \E t \in Targets, c \in Containers :
                 \/ CreateContainer(t, c) \/ FindFails(t, c)
                 \/ SetRestoreReady(t, c) \/ ServersSet(t, c)
                 \/ SetMigrationFailed(t, c) \/ StartContainer(t, c)
                 \/ FinishFindsNone(t, c)
                 \/ \E s \in Sources : \/ FindClaimed(t, c, s)
                                       \/ FindAndClaim(t, c, s)
                                       \/ FinishRestore(t, c, s)
           \/ UNCHANGED vars
    PROVE  /\ pod' = pod /\ spc' = spc /\ evac' = evac /\ sproc' = sproc
           /\ image' = image /\ evict' = evict /\ gaveUp' = gaveUp
<1> USE DEF srcVars
<1>1. ASSUME NEW s \in Sources,
             \/ \E n \in Nodes : Sync(n, s)
             \/ CollectGarbage(s) \/ CreateMigration(s)
             \/ \E t \in Targets : ControllerClaim(t, s)
      PROVE  UNCHANGED <<pod, srcVars, gaveUp>>
  BY Zenon, <1>1 DEF Sync, CollectGarbage, CreateMigration, ControllerClaim
<1>2. ASSUME NEW t \in Targets, NEW c \in Containers,
             \/ CreateContainer(t, c) \/ FindFails(t, c)
             \/ SetRestoreReady(t, c) \/ ServersSet(t, c)
             \/ SetMigrationFailed(t, c) \/ StartContainer(t, c)
             \/ FinishFindsNone(t, c)
             \/ \E s \in Sources : \/ FindClaimed(t, c, s)
                                   \/ FindAndClaim(t, c, s)
                                   \/ FinishRestore(t, c, s)
      PROVE  UNCHANGED <<pod, srcVars, gaveUp>>
  BY Zenon, <1>2 DEF CreateContainer, FindFails, SetRestoreReady, ServersSet,
     SetMigrationFailed, StartContainer, FinishFindsNone, FindClaimed,
     FindAndClaim, FinishRestore
<1>3. ASSUME UNCHANGED vars PROVE UNCHANGED <<pod, srcVars, gaveUp>>
  BY Zenon, <1>3 DEF vars
<1> QED BY Zenon, <1>1, <1>2, <1>3

\* The steps of the controllers and of the new pods that give an evacuation up
\* or take its image away.
LEMMA OutsideSteps ==
    ASSUME IInv, SourceOK,
           \/ \E s \in Sources :
                 InitStatus(s) \/ CleanupFinal(s) \/ CleanupDeleted(s)
           \/ \E t \in Targets, c \in Containers :
                 \/ ServersTimeout(t, c) \/ StartFails(t, c)
                 \/ PullImage(t, c) \/ PullFails(t, c)
    PROVE  /\ pod' = pod /\ spc' = spc /\ evac' = evac /\ sproc' = sproc
           /\ evict' = evict /\ image' \subseteq image
           /\ gaveUp \subseteq gaveUp' /\ gaveUp' \subseteq SourceThreads
<1> USE DEF srcVars
<1>1. ASSUME NEW s \in Sources, InitStatus(s)
      PROVE  /\ UNCHANGED <<pod, spc, evac, sproc, evict>>
             /\ image' \subseteq image
             /\ gaveUp \subseteq gaveUp' /\ gaveUp' \subseteq SourceThreads
  BY <1>1 DEF InitStatus, SourceOK, SourceThreads
<1>2. ASSUME NEW s \in Sources, CleanupFinal(s) \/ CleanupDeleted(s)
      PROVE  /\ UNCHANGED <<pod, spc, evac, sproc, evict>>
             /\ image' \subseteq image
             /\ gaveUp \subseteq gaveUp' /\ gaveUp' \subseteq SourceThreads
  BY Zenon, <1>2 DEF CleanupFinal, CleanupDeleted, SourceOK
<1>3. ASSUME NEW t \in Targets, NEW c \in Containers,
             \/ ServersTimeout(t, c) \/ PullImage(t, c) \/ PullFails(t, c)
      PROVE  /\ UNCHANGED <<pod, spc, evac, sproc, evict>>
             /\ image' \subseteq image
             /\ gaveUp \subseteq gaveUp' /\ gaveUp' \subseteq SourceThreads
  <2>1. tpc[<<t, c>>] \in Restoring
    BY Zenon, <1>3 DEF ServersTimeout, PullImage, PullFails, Step, Restoring
  <2>2. <<held[<<t, c>>].mig, c>> \in SourceThreads
    BY <2>1 DEF IInv, HeldOK, DataOK, TargetThreads, SourceThreads
  <2> QED BY Zenon, <1>3, <2>2 DEF ServersTimeout, PullImage, PullFails, SourceOK
<1>4. ASSUME NEW t \in Targets, NEW c \in Containers, StartFails(t, c)
      PROVE  /\ UNCHANGED <<pod, spc, evac, sproc, evict>>
             /\ image' \subseteq image
             /\ gaveUp \subseteq gaveUp' /\ gaveUp' \subseteq SourceThreads
  <2>1. <<ckpt[<<t, c>>], c>> \in SourceThreads
    BY Zenon, <1>4 DEF StartFails, IInv, DataOK, TargetThreads, SourceThreads
  <2> QED BY Zenon, <1>4, <2>1 DEF StartFails, SourceOK
<1> QED BY Zenon, <1>1, <1>2, <1>3, <1>4

\* What the shim of an old pod does with its container.
LEMMA SourceSteps ==
    ASSUME SourceOK, NEW s \in Sources, NEW c \in Containers,
           SourceStep(s, c) \/ WakeSource(s, c)
    PROVE  /\ pod' = pod
           /\ \E q \in {"run", "claim", "unclaim", "ready", "dump", "evac",
                        "status", "transfer", "drain", "kill", "exited"} :
                 spc' = [spc EXCEPT ![<<s, c>>] = q]
           /\ \E q \in {"none", "offline", "live"} :
                 evac' = [evac EXCEPT ![<<s, c>>] = q]
           /\ \E q \in {"running", "scaledDown", "frozen", "exited"} :
                 /\ sproc' = [sproc EXCEPT ![<<s, c>>] = q]
                 /\ q = "running" => \/ sproc' = sproc
                                    \/ <<s, c>> \in gaveUp' \ image'
           /\ \E q \in {"no", "waiting", "forwarded", "denied"} :
                 evict' = [evict EXCEPT ![<<s, c>>] = q]
           /\ image' \in {image, image \cup {<<s, c>>}, image \ {<<s, c>>}}
           /\ gaveUp' \in {gaveUp, gaveUp \cup {<<s, c>>}}
<1> USE DEF apiVars, srcVars, dstVars
<1> DEFINE x == <<s, c>>
<1>1. x \in SourceThreads
  BY Zenon DEF SourceThreads
<1>2. /\ spc' = spc => spc' = [spc EXCEPT ![x] = spc[x]]
      /\ evac' = evac => evac' = [evac EXCEPT ![x] = evac[x]]
      /\ sproc' = sproc => sproc' = [sproc EXCEPT ![x] = sproc[x]]
      /\ evict' = evict => evict' = [evict EXCEPT ![x] = evict[x]]
  BY Zenon, <1>1 DEF SourceOK
<1>3. /\ spc[x] \in {"run", "claim", "unclaim", "ready", "dump", "evac",
                     "status", "transfer", "drain", "kill", "exited"}
      /\ evac[x] \in {"none", "offline", "live"}
      /\ sproc[x] \in {"running", "scaledDown", "frozen", "exited"}
      /\ evict[x] \in {"no", "waiting", "forwarded", "denied"}
  BY Zenon, <1>1 DEF SourceOK
<1>4. CASE \/ SeesClaim(s, c) \/ ClaimTimeout(s, c) \/ SetUnclaimed(s, c)
           \/ SeesReady(s, c) \/ ReadyTimeout(s, c) \/ EvacServers(s, c)
           \/ EvacStatus(s, c) \/ EvacFails(s, c)
  <2>1. /\ pod' = pod /\ evac' = evac /\ sproc' = sproc /\ evict' = evict
        /\ image' \in {image, image \ {x}} /\ gaveUp' \in {gaveUp, gaveUp \cup {x}}
    BY Zenon, <1>4 DEF SeesClaim, ClaimTimeout, SetUnclaimed, SeesReady, ReadyTimeout,
                EvacServers, EvacStatus, EvacFails
  <2>2. \E q \in {"run", "claim", "unclaim", "ready", "dump", "evac",
                  "status", "transfer", "drain", "kill", "exited"} :
           spc' = [spc EXCEPT ![x] = q]
    BY Zenon, <1>4 DEF SeesClaim, ClaimTimeout, SetUnclaimed, SeesReady, ReadyTimeout,
                EvacServers, EvacStatus, EvacFails, Move
  <2> QED BY Zenon, <1>2, <1>3, <2>1, <2>2
<1>5. CASE EvictDone(s, c)
  <2>1. UNCHANGED <<pod, spc, evac, sproc, image, gaveUp>>
    BY Zenon, <1>5 DEF EvictDone
  <2>2. \E q \in {"no", "waiting", "forwarded", "denied"} :
           evict' = [evict EXCEPT ![x] = q]
    BY Zenon, <1>5 DEF EvictDone
  <2> QED BY Zenon, <1>2, <1>3, <2>1, <2>2
<1>6. CASE KillContainer(s, c)
  <2>1. UNCHANGED <<pod, sproc, image, evict, gaveUp>>
    BY Zenon, <1>6 DEF KillContainer
  <2>2. /\ \E q \in {"kill", "claim"} : spc' = [spc EXCEPT ![x] = q]
        /\ \E q \in {"none", "offline", "live"} : evac' = [evac EXCEPT ![x] = q]
    BY Zenon, <1>6 DEF KillContainer, Move
  <2> QED BY Zenon, <1>2, <1>3, <2>1, <2>2
<1>7. CASE LazyDump(s, c) \/ TransferDone(s, c) \/ Exit(s, c)
  <2>1. UNCHANGED <<pod, evac, evict, gaveUp>>
    BY Zenon, <1>7 DEF LazyDump, TransferDone, Exit
  <2>2. /\ \E q \in {"evac", "kill", "exited"} : spc' = [spc EXCEPT ![x] = q]
        /\ \E q \in {"frozen", "scaledDown", "exited"} :
              sproc' = [sproc EXCEPT ![x] = q]
        /\ image' \in {image, image \cup {x}, image \ {x}}
    BY Zenon, <1>7 DEF LazyDump, TransferDone, Exit, Move
  <2> QED BY Zenon, <1>2, <1>3, <2>1, <2>2
<1>8. CASE WakeSource(s, c)
  <2>1. /\ UNCHANGED <<pod, spc, evac, evict>>
        /\ sproc' = [sproc EXCEPT ![x] = "running"]
        /\ image' = image \ {x} /\ gaveUp' = gaveUp \cup {x}
    BY Zenon, <1>8 DEF WakeSource
  <2> QED BY Zenon, <1>2, <1>3, <2>1
<1> QED BY Zenon, <1>4, <1>5, <1>6, <1>7, <1>8 DEF SourceStep

\* The types of the old pods.
LEMMA SourceOKStep == IInv /\ SourceOK /\ [Next]_vars => SourceOK'
<1> SUFFICES ASSUME IInv, SourceOK, [Next]_vars PROVE SourceOK'
  BY Zenon
<1>1. ASSUME /\ spc' = spc /\ evac' = evac /\ sproc' = sproc /\ evict' = evict
             /\ image' \subseteq SourceThreads /\ gaveUp' \subseteq SourceThreads
             /\ pod' \in [Pods -> {"absent", "pending", "running", "deleting",
                                   "gone"}]
      PROVE  SourceOK'
  BY Zenon, <1>1 DEF SourceOK
<1>2. ASSUME /\ pod' = pod /\ spc' = spc /\ evac' = evac /\ sproc' = sproc
             /\ image' = image /\ evict' = evict /\ gaveUp' = gaveUp
      PROVE  SourceOK'
  BY Zenon, <1>2 DEF SourceOK
<1>3. ASSUME \/ \E s \in Sources :
                   InitStatus(s) \/ CleanupFinal(s) \/ CleanupDeleted(s)
             \/ \E t \in Targets, c \in Containers :
                   \/ ServersTimeout(t, c) \/ StartFails(t, c)
                   \/ PullImage(t, c) \/ PullFails(t, c)
      PROVE  SourceOK'
  BY Zenon, <1>1, <1>3, OutsideSteps DEF SourceOK
<1>4. ASSUME NEW s \in Sources, NEW c \in Containers,
             SourceStep(s, c) \/ WakeSource(s, c)
      PROVE  SourceOK'
  <2>1. <<s, c>> \in SourceThreads
    BY Zenon DEF SourceThreads
  <2>2. /\ image' \in {image, image \cup {<<s, c>>}, image \ {<<s, c>>}}
        /\ gaveUp' \in {gaveUp, gaveUp \cup {<<s, c>>}}
        /\ pod' = pod
    BY Zenon, <1>4, SourceSteps
  <2>3. image' \subseteq SourceThreads /\ gaveUp' \subseteq SourceThreads
    BY Zenon, <2>1, <2>2 DEF SourceOK
  <2>4. /\ spc' \in [SourceThreads ->
                         {"run", "claim", "unclaim", "ready", "dump", "evac",
                          "status", "transfer", "drain", "kill", "exited"}]
        /\ evac' \in [SourceThreads -> {"none", "offline", "live"}]
        /\ sproc' \in [SourceThreads ->
                           {"running", "scaledDown", "frozen", "exited"}]
        /\ evict' \in [SourceThreads -> {"no", "waiting", "forwarded", "denied"}]
    <3>1. \E q \in {"run", "claim", "unclaim", "ready", "dump", "evac", "status",
                     "transfer", "drain", "kill", "exited"} :
             spc' = [spc EXCEPT ![<<s, c>>] = q]
      BY Zenon, <1>4, SourceSteps
    <3>2. \E q \in {"none", "offline", "live"} : evac' = [evac EXCEPT ![<<s, c>>] = q]
      BY Zenon, <1>4, SourceSteps
    <3>3. \E q \in {"running", "scaledDown", "frozen", "exited"} :
             sproc' = [sproc EXCEPT ![<<s, c>>] = q]
      BY Zenon, <1>4, SourceSteps
    <3>4. \E q \in {"no", "waiting", "forwarded", "denied"} :
             evict' = [evict EXCEPT ![<<s, c>>] = q]
      BY Zenon, <1>4, SourceSteps
    <3>5. spc' \in [SourceThreads ->
                       {"run", "claim", "unclaim", "ready", "dump", "evac",
                        "status", "transfer", "drain", "kill", "exited"}]
      BY Zenon, <3>1 DEF SourceOK
    <3>6. evac' \in [SourceThreads -> {"none", "offline", "live"}]
      BY Zenon, <3>2 DEF SourceOK
    <3>7. sproc' \in [SourceThreads ->
                         {"running", "scaledDown", "frozen", "exited"}]
      BY Zenon, <3>3 DEF SourceOK
    <3>8. evict' \in [SourceThreads -> {"no", "waiting", "forwarded", "denied"}]
      BY Zenon, <3>4 DEF SourceOK
    <3> QED BY Zenon, <3>5, <3>6, <3>7, <3>8
  <2> QED BY Zenon, <2>2, <2>3, <2>4 DEF SourceOK
<1>5. ASSUME NEW s \in Sources, NEW c \in Containers, EvictPod(s, c)
      PROVE  SourceOK'
  <2>1. s \in Pods
    BY Zenon DEF Pods
  <2> QED BY Zenon, <1>5, <2>1 DEF EvictPod, SourceOK
<1>6. ASSUME \/ \E s \in Sources : DeletePod(s) \/ PodGone(s)
             \/ \E t \in Targets : SchedulePod(t) \/ PodRunning(t)
      PROVE  SourceOK'
  <2>1. /\ spc' = spc /\ evac' = evac /\ sproc' = sproc /\ evict' = evict
        /\ image' = image /\ gaveUp' = gaveUp
    BY Zenon, <1>6 DEF DeletePod, PodGone, SchedulePod, PodRunning, srcVars
  <2>2. \E p \in Pods, q \in {"pending", "running", "deleting", "gone"} :
           pod' = [pod EXCEPT ![p] = q]
    BY Zenon, <1>6 DEF DeletePod, PodGone, SchedulePod, PodRunning, Pods
  <2>3. pod' \in [Pods -> {"absent", "pending", "running", "deleting", "gone"}]
    BY Zenon, <2>2 DEF SourceOK
  <2> QED BY Zenon, <1>1, <2>1, <2>3 DEF SourceOK
<1> QED
  BY Zenon, <1>2, <1>3, <1>4, <1>5, <1>6, SourceFrame
     DEF Next, ApiStep, ControllerStep, Environment, TargetStep

\* Only PullImage hands a checkpoint out.
LEMMA CkptSteps ==
    ASSUME IInv, [Next]_vars, NEW t \in Targets, NEW c \in Containers,
           ckpt'[<<t, c>>] # ckpt[<<t, c>>], ckpt'[<<t, c>>] # NoPod
    PROVE  PullImage(t, c) /\ ckpt'[<<t, c>>] = held[<<t, c>>].mig
<1> USE DEF apiVars, srcVars, dstVars
<1>1. ASSUME ApiStep \/ ControllerStep PROVE FALSE
  BY Zenon, <1>1, ControllerAdvances
<1>2. ASSUME Environment \/ \E s \in Sources, d \in Containers : SourceStep(s, d)
      PROVE  FALSE
  BY Zenon, <1>2, SourceAdvances
<1>3. ASSUME NEW u \in Targets, NEW d \in Containers,
             \/ CreateContainer(u, d) \/ FindFails(u, d)
             \/ SetRestoreReady(u, d) \/ ServersSet(u, d)
             \/ ServersTimeout(u, d) \/ SetMigrationFailed(u, d)
             \/ PullFails(u, d) \/ StartContainer(u, d)
             \/ FinishFindsNone(u, d)
             \/ \E s \in Sources : \/ FindClaimed(u, d, s)
                                   \/ FindAndClaim(u, d, s)
                                   \/ FinishRestore(u, d, s)
      PROVE  FALSE
  <2>1. ckpt' = ckpt
    BY Zenon, <1>3 DEF CreateContainer, FindFails, SetRestoreReady, ServersSet,
       ServersTimeout, SetMigrationFailed, PullFails, StartContainer,
       FinishFindsNone, FindClaimed, FindAndClaim, FinishRestore
  <2> QED BY Zenon, <2>1
<1>4. ASSUME NEW u \in Targets, NEW d \in Containers, StartFails(u, d)
      PROVE  FALSE
  BY Zenon, <1>4 DEF StartFails, IInv, DataOK, TargetThreads
<1>5. ASSUME NEW u \in Targets, NEW d \in Containers, PullImage(u, d)
      PROVE  PullImage(t, c) /\ ckpt'[<<t, c>>] = held[<<t, c>>].mig
  <2>1. ckpt' = [ckpt EXCEPT ![<<u, d>>] = held[<<u, d>>].mig]
    BY Zenon, <1>5 DEF PullImage
  <2>2. <<u, d>> = <<t, c>> /\ <<t, c>> \in TargetThreads
    BY Zenon, <2>1 DEF IInv, DataOK, TargetThreads
  <2>3. u = t /\ d = c
    BY Zenon, <2>2
  <2>4. ckpt'[<<t, c>>] = held[<<t, c>>].mig
    BY Zenon, <2>1, <2>2, <2>3 DEF IInv, DataOK
  <2> QED BY Zenon, <1>5, <2>3, <2>4
<1>6. ASSUME UNCHANGED vars PROVE FALSE
  BY Zenon, <1>6 DEF vars
<1> QED BY Zenon, <1>1, <1>2, <1>3, <1>4, <1>5, <1>6 DEF Next, TargetStep

\* A process starts to run again only when a connection wakes it up, which
\* removes its image.
LEMMA WakeSteps ==
    ASSUME IInv, SourceOK, [Next]_vars, NEW x \in SourceThreads,
           sproc'[x] = "running"
    PROVE  sproc[x] = "running" \/ x \in gaveUp' \ image'
<1>1. ASSUME sproc' = sproc PROVE sproc[x] = "running"
  BY Zenon, <1>1
<1>2. ASSUME NEW s \in Sources, NEW c \in Containers,
             SourceStep(s, c) \/ WakeSource(s, c)
      PROVE  sproc[x] = "running" \/ x \in gaveUp' \ image'
  <2>1. PICK q : /\ sproc' = [sproc EXCEPT ![<<s, c>>] = q]
                 /\ q = "running" => \/ sproc' = sproc
                                    \/ <<s, c>> \in gaveUp' \ image'
    BY Zenon, <1>2, SourceSteps
  <2> QED BY Zenon, <2>1 DEF SourceOK
<1>3. ASSUME \/ \E s \in Sources : DeletePod(s) \/ PodGone(s)
             \/ \E t \in Targets : SchedulePod(t) \/ PodRunning(t)
             \/ \E s \in Sources, c \in Containers : EvictPod(s, c)
      PROVE  sproc' = sproc
  BY Zenon, <1>3 DEF DeletePod, PodGone, SchedulePod, PodRunning, EvictPod, srcVars
<1> QED
  BY Zenon, <1>1, <1>2, <1>3, SourceFrame, OutsideSteps
     DEF Next, ApiStep, ControllerStep, Environment, TargetStep

\* An evacuation that was given up stays so.
LEMMA GaveUpStays ==
    ASSUME IInv, SourceOK, [Next]_vars
    PROVE  gaveUp \subseteq gaveUp'
<1>1. ASSUME NEW s \in Sources, NEW c \in Containers,
             SourceStep(s, c) \/ WakeSource(s, c)
      PROVE  gaveUp \subseteq gaveUp'
  BY Zenon, <1>1, SourceSteps
<1>2. ASSUME \/ \E s \in Sources : DeletePod(s) \/ PodGone(s)
             \/ \E t \in Targets : SchedulePod(t) \/ PodRunning(t)
             \/ \E s \in Sources, c \in Containers : EvictPod(s, c)
      PROVE  gaveUp' = gaveUp
  BY Zenon, <1>2 DEF DeletePod, PodGone, SchedulePod, PodRunning, EvictPod
<1> QED
  BY Zenon, <1>1, <1>2, SourceFrame, OutsideSteps
     DEF Next, ApiStep, ControllerStep, Environment, TargetStep

\* An image appears when the process is frozen.
LEMMA ImageSteps ==
    ASSUME IInv, SourceOK, [Next]_vars, NEW x \in image', x \notin image
    PROVE  sproc'[x] = "frozen"
<1>1. ASSUME NEW s \in Sources, NEW c \in Containers, LazyDump(s, c)
      PROVE  sproc'[x] = "frozen"
  BY <1>1 DEF LazyDump, SourceOK, SourceThreads
<1>2. ASSUME NEW s \in Sources, NEW c \in Containers,
             \/ EvictDone(s, c) \/ KillContainer(s, c) \/ SeesClaim(s, c)
             \/ ClaimTimeout(s, c) \/ SetUnclaimed(s, c) \/ SeesReady(s, c)
             \/ ReadyTimeout(s, c) \/ EvacServers(s, c) \/ EvacStatus(s, c)
             \/ Exit(s, c) \/ EvictPod(s, c)
      PROVE  image' = image
  BY Zenon, <1>2 DEF EvictDone, KillContainer, SeesClaim, ClaimTimeout,
     SetUnclaimed, SeesReady, ReadyTimeout, EvacServers, EvacStatus, Exit, EvictPod
<1>3. ASSUME NEW s \in Sources, NEW c \in Containers,
             EvacFails(s, c) \/ TransferDone(s, c) \/ WakeSource(s, c)
      PROVE  image' \subseteq image
  BY Zenon, <1>3 DEF EvacFails, TransferDone, WakeSource
<1>4. ASSUME \/ \E s \in Sources : DeletePod(s) \/ PodGone(s)
             \/ \E t \in Targets : SchedulePod(t) \/ PodRunning(t)
      PROVE  image' = image
  BY Zenon, <1>4 DEF DeletePod, PodGone, SchedulePod, PodRunning, srcVars
<1> QED
  BY Zenon, <1>1, <1>2, <1>3, <1>4, SourceFrame, OutsideSteps
     DEF Next, ApiStep, ControllerStep, Environment, TargetStep, SourceStep

\* What the shims have done is what TypeOK says.
LEMMA TypesHold == IInv /\ SourceOK => TypeOK
BY Zenon DEF IInv, DataOK, SourceOK, TypeOK

\* A container that got a checkpoint got it from a process that did not run,
\* and that runs again only when it is woken up.
LEMMA SplitStep == SplitInv /\ [Next]_vars => SplitInv'
<1> SUFFICES ASSUME SplitInv, [Next]_vars PROVE SplitInv'
  BY Zenon
<1>1. IInv /\ SourceOK /\ ImagesRest /\ NoSplitBrain
  BY Zenon DEF SplitInv
<1>2. IInv' /\ SourceOK'
  BY Zenon, <1>1, NextInvariant, SourceOKStep
<1>3. TypeOK'
  <2>1. (IInv /\ SourceOK)' => TypeOK'
    BY TypesHold, PTL
  <2> QED BY Zenon, <1>2, <2>1
<1>4. ImagesRest'
  <2> SUFFICES ASSUME NEW x \in image', sproc'[x] = "running" PROVE FALSE
    BY Zenon DEF ImagesRest
  <2>1. x \in image
    BY Zenon, <1>1, ImageSteps
  <2>2. sproc[x] # "running" /\ x \in SourceThreads
    BY Zenon, <1>1, <2>1 DEF ImagesRest, SourceOK
  <2> QED BY Zenon, <1>1, <2>2, WakeSteps
<1>5. ASSUME NEW t \in Targets, NEW c \in Containers, ckpt'[<<t, c>>] # NoPod,
             <<ckpt'[<<t, c>>], c>> \notin gaveUp'
      PROVE  sproc'[<<ckpt'[<<t, c>>], c>>] # "running"
  <2> DEFINE x == <<ckpt'[<<t, c>>], c>>
  <2>1. x \in SourceThreads
    BY Zenon, <1>2, <1>5 DEF IInv, DataOK, TargetThreads, SourceThreads
  <2>2. x \notin gaveUp
    BY Zenon, <1>1, <1>5, GaveUpStays
  <2>3. sproc[x] # "running"
    <3>1. CASE ckpt'[<<t, c>>] = ckpt[<<t, c>>]
      BY Zenon, <1>1, <1>5, <2>2, <3>1 DEF NoSplitBrain
    <3>2. CASE ckpt'[<<t, c>>] # ckpt[<<t, c>>]
      <4>1. PullImage(t, c) /\ ckpt'[<<t, c>>] = held[<<t, c>>].mig
        BY Zenon, <1>1, <1>5, <3>2, CkptSteps
      <4>2. x \in image
        BY Zenon, <4>1 DEF PullImage
      <4> QED BY Zenon, <1>1, <4>2 DEF ImagesRest
    <3> QED BY Zenon, <3>1, <3>2
  <2> QED BY Zenon, <1>1, <1>5, <2>1, <2>3, WakeSteps
<1> QED BY Zenon, <1>2, <1>3, <1>4, <1>5 DEF SplitInv, NoSplitBrain

\* At first the containers of the old pods run, or rest with their image.
LEMMA SplitInit == Init => SplitInv
<1> SUFFICES ASSUME Init PROVE SplitInv
  BY Zenon
<1>1. IInv
  BY Zenon, InitInvariant
<1>2. SourceOK
  BY Zenon DEF Init, SourceOK, Pods
<1>3. ImagesRest
  BY Zenon DEF Init, ImagesRest
<1>4. TypeOK
  BY Zenon, <1>1, <1>2, TypesHold
<1>5. \A t \in Targets, c \in Containers : ckpt[<<t, c>>] = NoPod
  BY Zenon DEF Init, TargetThreads
<1> QED BY Zenon, <1>1, <1>2, <1>3, <1>4, <1>5 DEF SplitInv, NoSplitBrain

\* The container that goes on in a new pod does not run in the old one, unless
\* its evacuation was given up or a connection has woken it up.
THEOREM NoSplitBrainCorrect == Spec => []NoSplitBrain
<1>1. SplitInv => NoSplitBrain
  BY Zenon DEF SplitInv
<1> QED BY <1>1, SplitInit, SplitStep, PTL DEF Spec

-----------------------------------------------------------------------------
(* What the steps do to the fields of a Migration. *)

SameLife(m, n)  == n.exists = m.exists /\ n.deleted = m.deleted
SameOwner(m, n) == n.target = m.target /\ n.owners = m.owners
SameWork(m, n)  == n.ready = m.ready /\ n.server = m.server
SamePhase(m, n) == n.phase = m.phase
Same(m, n) == SameLife(m, n) /\ SameOwner(m, n) /\ SameWork(m, n) /\ SamePhase(m, n)

\* Who deletes a Migration.
LifeStep(s) ==
    /\ mig[s].deleted => mig'[s].deleted
    /\ mig'[s].deleted => mig[s].deleted \/ CollectGarbage(s)
    /\ mig'[s].exists => mig[s].exists \/ CreateMigration(s)

\* Who claims it.
OwnerStep(s) ==
    /\ mig[s].target # NoPod =>
          mig'[s].target = mig[s].target /\ mig'[s].owners = mig[s].owners
    /\ \A p \in mig[s].owners : p \in mig'[s].owners
    /\ CreateMigration(s) /\ AutoGC => s \in mig'[s].owners
    /\ mig'[s].target # mig[s].target =>
          \/ \E t \in Targets : ControllerClaim(t, s)
          \/ \E t \in Targets, c \in Containers : FindAndClaim(t, c, s)

\* Who works on the two halves of the migration.
WorkStep(s) ==
    /\ mig[s].ready => mig'[s].ready
    /\ mig'[s].ready => \/ mig[s].ready
                        \/ \E t \in Targets, c \in Containers :
                              /\ SetRestoreReady(t, c) /\ held[<<t, c>>].mig = s
                              /\ tpc'[<<t, c>>] = "servers"
    /\ \A c \in Containers : mig[s].server[c] => mig'[s].server[c]
    /\ \A c \in Containers :
          mig'[s].server[c] => mig[s].server[c] \/ EvacServers(s, c)

\* Who ends it for a container.
PhaseStep(s) ==
    \A c \in Containers :
        \/ mig'[s].phase[c] = mig[s].phase[c]
        \/ mig'[s].phase[c] = "Unclaimed" /\ SetUnclaimed(s, c)
        \/ mig'[s].phase[c] \notin {"Unclaimed", "Completed", "Failed"}
        \/ mig'[s].phase[c] = "Failed" /\ <<s, c>> \in gaveUp'
        \/ /\ mig'[s].phase[c] = "Failed"
           /\ \E t \in Targets : SetMigrationFailed(t, c) /\ held[<<t, c>>].mig = s
        \/ /\ mig'[s].phase[c] \in {"Completed", "Failed"}
           /\ \E t \in Targets : FinishRestore(t, c, s) /\ mig[s].target = t

\* A field that stays the same has no part in a step.
LEMMA SameSteps ==
    ASSUME NEW s \in Sources
    PROVE  /\ SameLife(mig[s], mig'[s]) => LifeStep(s)
           /\ SameOwner(mig[s], mig'[s]) /\ ~CreateMigration(s) => OwnerStep(s)
           /\ SameWork(mig[s], mig'[s]) => WorkStep(s)
           /\ SamePhase(mig[s], mig'[s]) => PhaseStep(s)
<1>1. SameLife(mig[s], mig'[s]) => LifeStep(s)
  BY Zenon DEF SameLife, LifeStep
<1>2. SameOwner(mig[s], mig'[s]) /\ ~CreateMigration(s) => OwnerStep(s)
  BY Zenon DEF SameOwner, OwnerStep
<1>3. SameWork(mig[s], mig'[s]) => WorkStep(s)
  BY Zenon DEF SameWork, WorkStep
<1>4. SamePhase(mig[s], mig'[s]) => PhaseStep(s)
  BY Zenon DEF SamePhase, PhaseStep
<1> QED BY Zenon, <1>1, <1>2, <1>3, <1>4

\* An update changes one Migration, to what is written.
LEMMA WriteSame ==
    ASSUME DataOK, NEW s \in Sources, NEW m \in Migrations, Write(s, m)
    PROVE  /\ Same(m, mig'[s])
           /\ \A r \in Sources : r # s => mig'[r] = mig[r]
<1>1. mig'[s] = m \/ mig'[s] = [m EXCEPT !.rv = @ + 1]
  BY Zenon DEF Write, DataOK
<1>2. Same(m, [m EXCEPT !.rv = @ + 1])
  BY Zenon DEF Migrations, Same, SameLife, SameOwner, SameWork, SamePhase
<1>3. Same(m, m)
  BY Zenon DEF Same, SameLife, SameOwner, SameWork, SamePhase
<1>4. \A r \in Sources : r # s => mig'[r] = mig[r]
  BY Zenon DEF Write, DataOK
<1> QED BY Zenon, <1>1, <1>2, <1>3, <1>4

\* The fields that the updates leave alone: of a flag,
LEMMA FlagSame ==
    ASSUME NEW m \in Migrations
    PROVE  /\ LET n == [m EXCEPT !.deleted = TRUE] IN
              /\ n \in Migrations /\ n.exists = m.exists /\ n.deleted
              /\ SameOwner(m, n) /\ SameWork(m, n) /\ SamePhase(m, n)
           /\ LET n == [m EXCEPT !.exists = FALSE] IN
              /\ n \in Migrations /\ ~n.exists /\ n.deleted = m.deleted
              /\ SameOwner(m, n) /\ SameWork(m, n) /\ SamePhase(m, n)
           /\ LET n == [m EXCEPT !.ready = TRUE] IN
              /\ n \in Migrations /\ n.ready /\ n.server = m.server
              /\ SameLife(m, n) /\ SameOwner(m, n) /\ SamePhase(m, n)
<1> USE DEF Migrations, SameLife, SameOwner, SameWork, SamePhase
<1>1. LET n == [m EXCEPT !.deleted = TRUE] IN
      /\ n \in Migrations /\ n.exists = m.exists /\ n.deleted
      /\ SameOwner(m, n) /\ SameWork(m, n) /\ SamePhase(m, n)
  BY Zenon
<1>2. LET n == [m EXCEPT !.exists = FALSE] IN
      /\ n \in Migrations /\ ~n.exists /\ n.deleted = m.deleted
      /\ SameOwner(m, n) /\ SameWork(m, n) /\ SamePhase(m, n)
  BY Zenon
<1>3. LET n == [m EXCEPT !.ready = TRUE] IN
      /\ n \in Migrations /\ n.ready /\ n.server = m.server
      /\ SameLife(m, n) /\ SameOwner(m, n) /\ SamePhase(m, n)
  BY Zenon
<1> QED BY Zenon, <1>1, <1>2, <1>3

\* of the claim,
LEMMA ClaimSame ==
    ASSUME NEW m \in Migrations, NEW t \in Targets
    PROVE  LET n == [m EXCEPT !.target = t] IN
           /\ n \in Migrations /\ n.target = t /\ n.owners = m.owners
           /\ SameLife(m, n) /\ SameWork(m, n) /\ SamePhase(m, n)
BY Zenon DEF Migrations, SameLife, SameOwner, SameWork, SamePhase

\* of the server of a container,
LEMMA ServerSame ==
    ASSUME NEW m \in Migrations, NEW c \in Containers, NEW l \in BOOLEAN
    PROVE  LET n == [m EXCEPT !.server[c] = TRUE, !.live = l] IN
           /\ n \in Migrations /\ n.ready = m.ready
           /\ n.server = [m.server EXCEPT ![c] = TRUE]
           /\ SameLife(m, n) /\ SameOwner(m, n) /\ SamePhase(m, n)
BY Zenon DEF Migrations, SameLife, SameOwner, SamePhase

\* of the phase of a container, or of all.
LEMMA PhaseSame ==
    ASSUME NEW m \in Migrations
    PROVE  /\ \A f \in [Containers -> Phases] :
                 LET n == [m EXCEPT !.phase = f] IN
                 /\ n \in Migrations /\ n.phase = f
                 /\ SameLife(m, n) /\ SameOwner(m, n) /\ SameWork(m, n)
           /\ \A c \in Containers, p \in Phases :
                 LET n == [m EXCEPT !.phase[c] = p] IN
                 /\ n \in Migrations /\ n.phase = [m.phase EXCEPT ![c] = p]
                 /\ SameLife(m, n) /\ SameOwner(m, n) /\ SameWork(m, n)
<1> USE DEF Migrations, SameLife, SameOwner, SameWork
<1>1. ASSUME NEW f \in [Containers -> Phases]
      PROVE  LET n == [m EXCEPT !.phase = f] IN
             /\ n \in Migrations /\ n.phase = f
             /\ SameLife(m, n) /\ SameOwner(m, n) /\ SameWork(m, n)
  BY Zenon
<1>2. ASSUME NEW c \in Containers, NEW p \in Phases
      PROVE  LET n == [m EXCEPT !.phase[c] = p] IN
             /\ n \in Migrations /\ n.phase = [m.phase EXCEPT ![c] = p]
             /\ SameLife(m, n) /\ SameOwner(m, n) /\ SameWork(m, n)
  BY Zenon
<1> QED BY Zenon, <1>1, <1>2

\* What was written is what the steps say of it.
LEMMA WrittenFields ==
    ASSUME DataOK, NEW s \in Sources, NEW m \in Migrations, Write(s, m)
    PROVE  /\ SameLife(mig[s], m) => SameLife(mig[s], mig'[s])
           /\ SameOwner(mig[s], m) => SameOwner(mig[s], mig'[s])
           /\ SameWork(mig[s], m) => SameWork(mig[s], mig'[s])
           /\ SamePhase(mig[s], m) => SamePhase(mig[s], mig'[s])
           /\ mig'[s].exists = m.exists /\ mig'[s].deleted = m.deleted
           /\ mig'[s].target = m.target /\ mig'[s].owners = m.owners
           /\ mig'[s].ready = m.ready /\ mig'[s].server = m.server
           /\ mig'[s].phase = m.phase
BY Zenon, WriteSame DEF Same, SameLife, SameOwner, SameWork, SamePhase

Effects(s) == LifeStep(s) /\ OwnerStep(s) /\ WorkStep(s) /\ PhaseStep(s)

\* Nobody creates a Migration that is there.
LEMMA CreateWhat ==
    ASSUME IInv, NEW s \in Sources, CreateMigration(s)
    PROVE  /\ SameWork(mig[s], mig'[s]) /\ SamePhase(mig[s], mig'[s])
           /\ mig[s].owners = {} /\ mig[s].target = NoPod
           /\ ~mig[s].deleted /\ ~mig'[s].deleted
           /\ mig'[s].target = NoPod /\ (AutoGC => s \in mig'[s].owners)
           /\ \A r \in Sources : r # s => mig'[r] = mig[r]
<1> DEFINE o == IF AutoGC THEN {s} ELSE {}
           m == [NoMigration EXCEPT !.exists = TRUE, !.live = LiveMigrate,
                                    !.owners = o]
<1>1. mig[s] = NoMigration /\ Write(s, m)
  BY Zenon DEF CreateMigration, IInv, IdleOK
<1>2. o \in SUBSET Pods /\ LiveMigrate \in BOOLEAN /\ (AutoGC => s \in o)
  BY Zenon, FlagsAssumption DEF Pods
<1>3. m \in Migrations
  BY Zenon, <1>2, NewUpdate
<1> HIDE DEF o
<1>4. /\ SameWork(mig[s], m) /\ SamePhase(mig[s], m) /\ m.owners = o
      /\ ~m.deleted /\ m.target = NoPod
      /\ mig[s].owners = {} /\ mig[s].target = NoPod /\ ~mig[s].deleted
  BY <1>1 DEF NoMigration, SameWork, SamePhase
<1> HIDE DEF m
<1>5. DataOK
  BY Zenon DEF IInv
<1> QED BY Zenon, <1>1, <1>2, <1>3, <1>4, <1>5, WrittenFields, WriteSame

\* Every step does to a Migration what LifeStep, OwnerStep, WorkStep and
\* PhaseStep say: the controllers and the garbage collector,
LEMMA ControllerEffects ==
    ASSUME IInv, ApiStep \/ ControllerStep, NEW s \in Sources
    PROVE  Effects(s)
<1>1. DataOK /\ mig[s] \in Migrations
  BY Zenon DEF IInv, DataOK
<1>2. ASSUME mig'[s] = mig[s], ~CreateMigration(s) PROVE Effects(s)
  BY Zenon, <1>2, SameSteps DEF Effects, SameLife, SameOwner, SameWork, SamePhase
<1>3. ASSUME CreateMigration(s) PROVE Effects(s)
  <2>1. WorkStep(s) /\ PhaseStep(s)
    BY Zenon, <1>3, CreateWhat, SameSteps
  <2>2. LifeStep(s)
    BY Zenon, <1>3, CreateWhat DEF LifeStep
  <2>3. OwnerStep(s)
    BY Zenon, <1>3, CreateWhat DEF OwnerStep
  <2> QED BY Zenon, <2>1, <2>2, <2>3 DEF Effects
<1> SUFFICES ASSUME ~CreateMigration(s) PROVE Effects(s)
  BY Zenon, <1>3
<1>4. ASSUME NEW r \in Sources, r # s, NEW m \in Migrations, Write(r, m)
      PROVE  Effects(s)
  BY Zenon, <1>1, <1>2, <1>4, WriteSame
<1>5. ASSUME NEW r \in Sources, CreateMigration(r) PROVE Effects(s)
  BY Zenon, <1>2, <1>5, CreateWhat
<1>6. ASSUME NEW r \in Sources, CollectGarbage(r) PROVE Effects(s)
  <2> DEFINE m == [mig[r] EXCEPT !.deleted = TRUE]
  <2>1. Write(r, m)
    BY Zenon, <1>6 DEF CollectGarbage
  <2>2. /\ m \in Migrations /\ m.exists = mig[r].exists /\ m.deleted
        /\ SameOwner(mig[r], m) /\ SameWork(mig[r], m) /\ SamePhase(mig[r], m)
    BY Zenon, <1>1, FlagSame DEF DataOK
  <2> HIDE DEF m
  <2>3. CASE r = s
    <3>1. /\ mig'[s].exists = mig[s].exists /\ mig'[s].deleted
          /\ OwnerStep(s) /\ WorkStep(s) /\ PhaseStep(s)
      BY Zenon, <1>1, <2>1, <2>2, <2>3, WrittenFields, SameSteps
    <3>2. LifeStep(s)
      BY Zenon, <1>6, <2>3, <3>1 DEF LifeStep
    <3> QED BY Zenon, <3>1, <3>2 DEF Effects
  <2> QED BY Zenon, <1>4, <2>1, <2>2, <2>3
<1>7. ASSUME NEW r \in Sources, CleanupDeleted(r) PROVE Effects(s)
  <2> DEFINE m == [mig[r] EXCEPT !.exists = FALSE]
  <2>0. mig' = mig \/ Write(r, m)
    BY Zenon, <1>7 DEF CleanupDeleted
  <2> SUFFICES ASSUME Write(r, m) PROVE Effects(s)
    BY Zenon, <1>2, <2>0
  <2>1. Write(r, m)
    OBVIOUS
  <2>2. /\ m \in Migrations /\ ~m.exists /\ m.deleted = mig[r].deleted
        /\ SameOwner(mig[r], m) /\ SameWork(mig[r], m) /\ SamePhase(mig[r], m)
    BY Zenon, <1>1, FlagSame DEF DataOK
  <2> HIDE DEF m
  <2>3. CASE r = s
    <3>1. /\ ~mig'[s].exists /\ mig'[s].deleted = mig[s].deleted
          /\ OwnerStep(s) /\ WorkStep(s) /\ PhaseStep(s)
      BY Zenon, <1>1, <2>1, <2>2, <2>3, WrittenFields, SameSteps
    <3>2. LifeStep(s)
      BY Zenon, <3>1 DEF LifeStep
    <3> QED BY Zenon, <3>1, <3>2 DEF Effects
  <2> QED BY Zenon, <1>4, <2>1, <2>2, <2>3
<1>8. ASSUME NEW r \in Sources, InitStatus(r) PROVE Effects(s)
  <2>1. CASE mig' = mig
    BY Zenon, <1>2, <2>1
  <2>2. CASE mig' # mig
    <3>1. PICK failed \in SUBSET Containers :
             /\ Write(r, [mig[r] EXCEPT !.phase =
                             [c \in Containers |-> IF c \in failed THEN "Failed"
                                                   ELSE "Pending"]])
             /\ gaveUp' = gaveUp \cup ({r} \X failed)
      BY Zenon, <1>8, <2>2 DEF InitStatus
    <3> DEFINE f == [c \in Containers |-> IF c \in failed THEN "Failed"
                                          ELSE "Pending"]
               m == [mig[r] EXCEPT !.phase = f]
    <3>2. /\ f \in [Containers -> Phases]
          /\ \A c \in Containers : \/ f[c] = "Pending"
                                   \/ f[c] = "Failed" /\ <<r, c>> \in gaveUp'
      BY Zenon, <3>1 DEF Phases
    <3>3. Write(r, m)
      BY Zenon, <3>1
    <3> HIDE DEF f
    <3>4. /\ m \in Migrations /\ m.phase = f
          /\ SameLife(mig[r], m) /\ SameOwner(mig[r], m) /\ SameWork(mig[r], m)
      BY Zenon, <1>1, <3>2, PhaseSame DEF DataOK
    <3> HIDE DEF m
    <3>5. CASE r = s
      <4>1. /\ mig'[s].phase = f
            /\ LifeStep(s) /\ OwnerStep(s) /\ WorkStep(s)
        BY Zenon, <1>1, <3>3, <3>4, <3>5, WrittenFields, SameSteps
      <4>2. PhaseStep(s)
        BY Zenon, <3>2, <3>5, <4>1 DEF PhaseStep
      <4> QED BY Zenon, <4>1, <4>2 DEF Effects
    <3> QED BY Zenon, <1>4, <3>3, <3>4, <3>5
  <2> QED BY Zenon, <2>1, <2>2
<1>9. ASSUME NEW r \in Sources, NEW t \in Targets, ControllerClaim(t, r)
      PROVE  Effects(s)
  <2> DEFINE o == IF AutoGC THEN mig[r].owners \cup {t} ELSE mig[r].owners
             m == [mig[r] EXCEPT !.target = t, !.owners = o]
  <2>1. Write(r, m) /\ Fresh(t, r) /\ Claimable(r, t)
    BY Zenon, <1>9 DEF ControllerClaim
  <2>2. mig[r] \in Migrations
    BY Zenon, <1>1 DEF DataOK
  <2>3. o \in SUBSET Pods /\ \A p \in mig[r].owners : p \in o
    BY Zenon, <2>2 DEF Migrations, Pods
  <2>4. mig[r].target = NoPod
    BY Zenon, <2>1, FreshIsCurrent DEF IInv, Pods, Claimable, Claimed
  <2> HIDE DEF o
  <2>5. /\ m \in Migrations /\ m.target = t /\ m.owners = o
        /\ SameLife(mig[r], m) /\ SameWork(mig[r], m) /\ SamePhase(mig[r], m)
    BY Zenon, <2>2, <2>3 DEF Migrations, SameLife, SameWork, SamePhase
  <2> HIDE DEF m
  <2>6. CASE r = s
    <3>1. /\ mig'[s].target = t /\ mig'[s].owners = o
          /\ LifeStep(s) /\ WorkStep(s) /\ PhaseStep(s)
      BY Zenon, <1>1, <2>1, <2>5, <2>6, WrittenFields, SameSteps
    <3>2. OwnerStep(s)
      BY Zenon, <1>9, <2>3, <2>4, <2>6, <3>1 DEF OwnerStep
    <3> QED BY Zenon, <3>1, <3>2 DEF Effects
  <2> QED BY Zenon, <1>4, <2>1, <2>5, <2>6
<1>10. ASSUME NEW r \in Sources,
              \/ \E n \in Nodes : Sync(n, r)
              \/ CleanupFinal(r) \/ PodGone(r)
       PROVE  mig' = mig
  BY Zenon, <1>10 DEF Sync, CleanupFinal, PodGone, apiVars
<1> QED
  BY Zenon, <1>2, <1>5, <1>6, <1>7, <1>8, <1>9, <1>10 DEF ApiStep, ControllerStep

\* the node services of the new pods,
LEMMA TargetEffects ==
    ASSUME IInv, NEW t \in Targets, NEW c \in Containers, TargetStep(t, c),
           NEW s \in Sources, ~CreateMigration(s)
    PROVE  Effects(s)
<1>1. DataOK /\ mig[s] \in Migrations
  BY Zenon DEF IInv, DataOK
<1>2. ASSUME mig'[s] = mig[s] PROVE Effects(s)
  BY Zenon, <1>2, SameSteps DEF Effects, SameLife, SameOwner, SameWork, SamePhase
<1>3. ASSUME NEW r \in Sources, r # s, NEW m \in Migrations, Write(r, m)
      PROVE  Effects(s)
  BY Zenon, <1>1, <1>2, <1>3, WriteSame
<1>4. ASSUME NEW r \in Sources, FindAndClaim(t, c, r) PROVE Effects(s)
  <2> DEFINE m == [mig[r] EXCEPT !.target = t]
  <2>1. Write(r, m) /\ Fresh(t, r) /\ Claimable(r, t)
    BY Zenon, <1>4 DEF FindAndClaim
  <2>2. mig[r].target = NoPod
    BY Zenon, <2>1, FreshIsCurrent DEF IInv, Pods, Claimable, Claimed
  <2>3. /\ m \in Migrations /\ m.target = t /\ m.owners = mig[r].owners
        /\ SameLife(mig[r], m) /\ SameWork(mig[r], m) /\ SamePhase(mig[r], m)
    BY Zenon, <1>1, ClaimSame DEF DataOK
  <2> HIDE DEF m
  <2>4. CASE r = s
    <3>1. /\ mig'[s].target = t /\ mig'[s].owners = mig[s].owners
          /\ LifeStep(s) /\ WorkStep(s) /\ PhaseStep(s)
      BY Zenon, <1>1, <2>1, <2>3, <2>4, WrittenFields, SameSteps
    <3>2. OwnerStep(s)
      BY Zenon, <1>4, <2>2, <2>4, <3>1 DEF OwnerStep
    <3> QED BY Zenon, <3>1, <3>2 DEF Effects
  <2> QED BY Zenon, <1>3, <2>1, <2>3, <2>4
<1>5. ASSUME SetRestoreReady(t, c) PROVE Effects(s)
  <2> DEFINE r == held[<<t, c>>].mig
             m == [mig[r] EXCEPT !.ready = TRUE]
  <2>1. CASE mig' = mig
    BY Zenon, <1>2, <2>1
  <2>2. CASE mig' # mig
    <3>1. Write(r, m) /\ Step(<<t, c>>, "ready", "servers")
      BY Zenon, <1>5, <2>2 DEF SetRestoreReady
    <3>2. r \in Sources /\ <<t, c>> \in TargetThreads
      BY <3>1 DEF Step, IInv, DataOK, HeldOK, Restoring, TargetThreads
    <3>3. tpc'[<<t, c>>] = "servers"
      BY Zenon, <3>1, <3>2 DEF Step, IInv, DataOK
    <3>4. /\ m \in Migrations /\ m.ready /\ m.server = mig[r].server
          /\ SameLife(mig[r], m) /\ SameOwner(mig[r], m) /\ SamePhase(mig[r], m)
      BY Zenon, <1>1, <3>2, FlagSame DEF DataOK
    <3> HIDE DEF m
    <3>5. CASE r = s
      <4>1. /\ mig'[s].ready /\ mig'[s].server = mig[s].server
            /\ LifeStep(s) /\ OwnerStep(s) /\ PhaseStep(s)
        BY Zenon, <1>1, <3>1, <3>4, <3>5, WrittenFields, SameSteps
      <4>2. WorkStep(s)
        BY Zenon, <1>5, <3>3, <3>5, <4>1 DEF WorkStep
      <4> QED BY Zenon, <4>1, <4>2 DEF Effects
    <3> HIDE DEF r
    <3> QED BY Zenon, <1>3, <3>1, <3>2, <3>4, <3>5
  <2> QED BY Zenon, <2>1, <2>2
<1>6. ASSUME SetMigrationFailed(t, c) PROVE Effects(s)
  <2> DEFINE r == held[<<t, c>>].mig
             m == [mig[r] EXCEPT !.phase[c] = "Failed"]
  <2>1. CASE mig' = mig
    BY Zenon, <1>2, <2>1
  <2>2. CASE mig' # mig
    <3>1. Write(r, m) /\ tpc[<<t, c>>] = "fail"
      BY Zenon, <1>6, <2>2 DEF SetMigrationFailed, Step
    <3>2. r \in Sources
      BY <3>1 DEF IInv, DataOK, HeldOK, Restoring, TargetThreads
    <3>3. /\ m \in Migrations /\ m.phase = [mig[r].phase EXCEPT ![c] = "Failed"]
          /\ SameLife(mig[r], m) /\ SameOwner(mig[r], m) /\ SameWork(mig[r], m)
      BY Zenon, <1>1, <3>2, PhaseSame DEF DataOK, Phases
    <3> HIDE DEF m
    <3>4. CASE r = s
      <4>1. /\ mig'[s].phase = [mig[s].phase EXCEPT ![c] = "Failed"]
            /\ LifeStep(s) /\ OwnerStep(s) /\ WorkStep(s)
        BY Zenon, <1>1, <3>1, <3>3, <3>4, WrittenFields, SameSteps
      <4>2. mig[s].phase \in [Containers -> Phases]
        BY Zenon, <1>1 DEF Migrations
      <4>3. \A d \in Containers : mig'[s].phase[d] =
               IF d = c THEN "Failed" ELSE mig[s].phase[d]
        BY Zenon, <4>1, <4>2
      <4>4. PhaseStep(s)
        BY Zenon, <1>6, <3>4, <4>3 DEF PhaseStep
      <4> QED BY Zenon, <4>1, <4>4 DEF Effects
    <3> HIDE DEF r
    <3> QED BY Zenon, <1>3, <3>1, <3>2, <3>3, <3>4
  <2> QED BY Zenon, <2>1, <2>2
<1>7. ASSUME NEW r \in Sources, FinishRestore(t, c, r) PROVE Effects(s)
  <2>1. CASE mig' = mig
    BY Zenon, <1>2, <2>1
  <2>2. CASE mig' # mig
    <3>1. /\ Fresh(t, r) /\ ClaimedAndMatchesPod(Cached(t, r), t)
          /\ \E p \in {"Completed", "Failed"} :
                Write(r, [mig[r] EXCEPT !.phase[c] = p])
      BY Zenon, <1>7, <2>2 DEF FinishRestore
    <3>2. PICK p \in {"Completed", "Failed"} :
             Write(r, [mig[r] EXCEPT !.phase[c] = p])
      BY Zenon, <3>1
    <3> DEFINE m == [mig[r] EXCEPT !.phase[c] = p]
    <3>3. mig[r].target = t
      BY Zenon, <3>1, FreshIsCurrent DEF IInv, Pods, ClaimedAndMatchesPod
    <3>4. /\ m \in Migrations /\ m.phase = [mig[r].phase EXCEPT ![c] = p]
          /\ SameLife(mig[r], m) /\ SameOwner(mig[r], m) /\ SameWork(mig[r], m)
      <4>1. mig[r] \in Migrations
        BY Zenon, <1>1 DEF DataOK
      <4>2. p \in Phases
        BY Zenon DEF Phases
      <4> QED BY Zenon, <4>1, <4>2, PhaseSame
    <3>5. Write(r, m)
      BY Zenon, <3>2
    <3> HIDE DEF m
    <3>6. CASE r = s
      <4>1. /\ mig'[s].phase = [mig[s].phase EXCEPT ![c] = p]
            /\ LifeStep(s) /\ OwnerStep(s) /\ WorkStep(s)
        BY Zenon, <1>1, <3>4, <3>5, <3>6, WrittenFields, SameSteps
      <4>2. mig[s].phase \in [Containers -> Phases]
        BY Zenon, <1>1 DEF Migrations
      <4>3. \A d \in Containers : mig'[s].phase[d] =
               IF d = c THEN p ELSE mig[s].phase[d]
        BY Zenon, <4>1, <4>2
      <4>4. PhaseStep(s)
        BY Zenon, <1>7, <3>3, <3>6, <4>3 DEF PhaseStep
      <4> QED BY Zenon, <4>1, <4>4 DEF Effects
    <3> QED BY Zenon, <1>3, <3>4, <3>5, <3>6
  <2> QED BY Zenon, <2>1, <2>2
<1>8. ASSUME \/ CreateContainer(t, c) \/ FindFails(t, c) \/ ServersSet(t, c)
             \/ ServersTimeout(t, c) \/ PullImage(t, c) \/ PullFails(t, c)
             \/ StartContainer(t, c) \/ StartFails(t, c) \/ FinishFindsNone(t, c)
             \/ \E r \in Sources : FindClaimed(t, c, r)
      PROVE  mig' = mig
  BY Zenon, <1>8 DEF CreateContainer, FindFails, ServersSet, ServersTimeout,
     PullImage, PullFails, StartContainer, StartFails, FinishFindsNone,
     FindClaimed, apiVars
<1> QED BY Zenon, <1>2, <1>4, <1>5, <1>6, <1>7, <1>8 DEF TargetStep

\* and the shims and the node services of the old pods.
LEMMA SourceEffects ==
    ASSUME IInv, NEW r \in Sources, NEW c \in Containers, SourceStep(r, c),
           NEW s \in Sources, ~CreateMigration(s)
    PROVE  Effects(s)
<1> USE DEF apiVars
<1>1. DataOK /\ mig[s] \in Migrations /\ mig[r] \in Migrations
  BY Zenon DEF IInv, DataOK
<1>2. ASSUME mig'[s] = mig[s] PROVE Effects(s)
  BY Zenon, <1>2, SameSteps DEF Effects, SameLife, SameOwner, SameWork, SamePhase
<1>3. ASSUME r # s, NEW m \in Migrations, Write(r, m)
      PROVE  Effects(s)
  BY Zenon, <1>1, <1>2, <1>3, WriteSame
<1>4. ASSUME NEW p \in {"Running", "Unclaimed"},
             Write(r, [mig[r] EXCEPT !.phase[c] = p]),
             p = "Unclaimed" => SetUnclaimed(r, c)
      PROVE  Effects(s)
  <2> DEFINE m == [mig[r] EXCEPT !.phase[c] = p]
  <2>1. p \in Phases
    BY Zenon DEF Phases
  <2>2. /\ m \in Migrations /\ m.phase = [mig[r].phase EXCEPT ![c] = p]
        /\ SameLife(mig[r], m) /\ SameOwner(mig[r], m) /\ SameWork(mig[r], m)
    BY Zenon, <1>1, <2>1, PhaseSame
  <2>3. Write(r, m)
    BY Zenon, <1>4
  <2> HIDE DEF m
  <2>4. CASE r = s
    <3>1. /\ mig'[s].phase = [mig[s].phase EXCEPT ![c] = p]
          /\ LifeStep(s) /\ OwnerStep(s) /\ WorkStep(s)
      BY Zenon, <1>1, <2>2, <2>3, <2>4, WrittenFields, SameSteps
    <3>2. mig[s].phase \in [Containers -> Phases]
      BY Zenon, <1>1 DEF Migrations
    <3>3. \A d \in Containers : mig'[s].phase[d] =
             IF d = c THEN p ELSE mig[s].phase[d]
      BY Zenon, <3>1, <3>2
    <3>4. PhaseStep(s)
      BY Zenon, <1>4, <2>4, <3>3 DEF PhaseStep
    <3> QED BY Zenon, <3>1, <3>4 DEF Effects
  <2> QED BY Zenon, <1>3, <2>2, <2>3, <2>4
<1>5. ASSUME SetUnclaimed(r, c) PROVE Effects(s)
  BY Zenon, <1>2, <1>4, <1>5 DEF SetUnclaimed
<1>6. ASSUME EvacStatus(r, c) PROVE Effects(s)
  BY Zenon, <1>2, <1>4, <1>6 DEF EvacStatus
<1>7. ASSUME EvacServers(r, c) PROVE Effects(s)
  <2> DEFINE v == (evac[<<r, c>>] = "live")
             m == [mig[r] EXCEPT !.server[c] = TRUE, !.live = v]
  <2>1. Write(r, m)
    BY Zenon, <1>7 DEF EvacServers
  <2>2. /\ m \in Migrations /\ m.server = [mig[r].server EXCEPT ![c] = TRUE]
        /\ m.ready = mig[r].ready
        /\ SameLife(mig[r], m) /\ SameOwner(mig[r], m) /\ SamePhase(mig[r], m)
    <3>1. v \in BOOLEAN
      BY Zenon
    <3> HIDE DEF v
    <3> QED BY Zenon, <1>1, <3>1, ServerSame
  <2> HIDE DEF m
  <2>3. CASE r = s
    <3>1. /\ mig'[s].server = [mig[s].server EXCEPT ![c] = TRUE]
          /\ mig'[s].ready = mig[s].ready
          /\ LifeStep(s) /\ OwnerStep(s) /\ PhaseStep(s)
      BY Zenon, <1>1, <2>1, <2>2, <2>3, WrittenFields, SameSteps
    <3>2. mig[s].server \in [Containers -> BOOLEAN]
      BY Zenon, <1>1 DEF Migrations
    <3>3. \A d \in Containers :
             mig'[s].server[d] = IF d = c THEN TRUE ELSE mig[s].server[d]
      BY Zenon, <3>1, <3>2
    <3>4. WorkStep(s)
      BY Zenon, <1>7, <2>3, <3>1, <3>3 DEF WorkStep
    <3> QED BY Zenon, <3>1, <3>4 DEF Effects
  <2> QED BY Zenon, <1>3, <2>1, <2>2, <2>3
<1>8. ASSUME \/ EvictDone(r, c) \/ KillContainer(r, c) \/ SeesClaim(r, c)
             \/ ClaimTimeout(r, c) \/ SeesReady(r, c) \/ ReadyTimeout(r, c)
             \/ LazyDump(r, c) \/ EvacFails(r, c) \/ TransferDone(r, c)
             \/ Exit(r, c)
      PROVE  mig' = mig
  BY Zenon, <1>8 DEF EvictDone, KillContainer, SeesClaim, ClaimTimeout,
     SeesReady, ReadyTimeout, LazyDump, EvacFails, TransferDone, Exit
<1> QED BY Zenon, <1>2, <1>5, <1>6, <1>7, <1>8 DEF SourceStep

\* Together.
LEMMA NextEffects ==
    ASSUME IInv, [Next]_vars, NEW s \in Sources
    PROVE  Effects(s)
<1>1. ASSUME kpc' = kpc PROVE ~CreateMigration(s)
  BY Zenon, <1>1 DEF CreateMigration, IInv, DataOK
<1>2. ASSUME UNCHANGED vars \/ Environment PROVE mig'[s] = mig[s] /\ kpc' = kpc
  BY Zenon, <1>2 DEF vars, apiVars, Environment, DeletePod, SchedulePod, PodRunning,
     WakeSource, EvictPod
<1>3. ASSUME UNCHANGED vars \/ Environment PROVE Effects(s)
  BY Zenon, <1>1, <1>2, <1>3, SameSteps
     DEF Effects, SameLife, SameOwner, SameWork, SamePhase
<1>4. ASSUME NEW t \in Targets, NEW c \in Containers, TargetStep(t, c)
      PROVE  Effects(s)
  <2>1. kpc' = kpc
    BY Zenon, <1>4 DEF TargetStep, CreateContainer, FindFails, SetRestoreReady,
       ServersSet, ServersTimeout, SetMigrationFailed, PullImage, PullFails,
       StartContainer, StartFails, FinishFindsNone, FindClaimed, FindAndClaim,
       FinishRestore
  <2> QED BY Zenon, <1>1, <1>4, <2>1, TargetEffects
<1>5. ASSUME NEW r \in Sources, NEW c \in Containers, SourceStep(r, c)
      PROVE  Effects(s)
  <2>1. kpc' = kpc
    BY Zenon, <1>5 DEF SourceStep, EvictDone, KillContainer, SeesClaim,
       ClaimTimeout, SetUnclaimed, SeesReady, ReadyTimeout, LazyDump, EvacServers,
       EvacStatus, EvacFails, TransferDone, Exit
  <2> QED BY Zenon, <1>1, <1>5, <2>1, SourceEffects
<1> QED BY Zenon, <1>3, <1>4, <1>5, ControllerEffects DEF Next

-----------------------------------------------------------------------------
(* NothingLost.  The strengthening relates the Migration, the evacuation and *)
(* the restore of a container.                                               *)

\* The new pod has claimed the Migration and keeps it from being collected.
Keeps(s) ==
    /\ mig[s].target # NoPod
    /\ AutoGC => mig[s].target \in mig[s].owners

\* Where the restore is of the container that the Migration is claimed for.
Restore(s, c) == tpc[<<mig[s].target, c>>]
Started(s, c) == mig[s].target # NoPod /\ Restore(s, c) = "started"

\* A version of a Migration is no further than the current one, and a container
\* is in a final phase only once its restore is over or was given up.
SeenOK(m, s) ==
    /\ m.ready => mig[s].ready
    /\ m.deleted => mig[s].deleted
    /\ \A c \in Containers :
          /\ m.server[c] => mig[s].server[c]
          /\ m.phase[c] = "Unclaimed" => <<s, c>> \in gaveUp
          /\ m.phase[c] \in {"Completed", "Failed"}
                => <<s, c>> \in gaveUp \/ Started(s, c)

Seen ==
    \A s \in Sources :
        SeenOK(mig[s], s) /\ \A n \in Nodes : SeenOK(cache[n][s], s)

\* The claim comes before the restore is ready, and that before the servers.
Ordered ==
    \A s \in Sources, c \in Containers :
        /\ mig[s].ready => mig[s].target # NoPod
        /\ mig[s].server[c] => mig[s].ready
        /\ spc[<<s, c>>] \in {"dump", "evac", "status", "transfer", "drain"}
              => mig[s].ready

\* An evacuation that got through has set the server.
Evacuated ==
    \A s \in Sources, c \in Containers :
        /\ spc[<<s, c>>] = "run" => evac[<<s, c>>] = "none"
        /\ spc[<<s, c>>] \in {"claim", "unclaim", "ready", "dump", "evac",
                              "status", "transfer", "drain"}
              => evac[<<s, c>>] # "none"
        /\ spc[<<s, c>>] = "dump" => evac[<<s, c>>] = "live"
        /\ <<s, c>> \in gaveUp \/
              /\ spc[<<s, c>>] # "unclaim"
              /\ spc[<<s, c>>] \in {"status", "transfer", "drain"}
                    => mig[s].server[c]
              /\ spc[<<s, c>>] \in {"kill", "exited"} /\ evac[<<s, c>>] # "none"
                    => mig[s].server[c]
              /\ evac[<<s, c>>] = "offline" /\ spc[<<s, c>>] # "exited"
                    => sproc[<<s, c>>] = "scaledDown"

\* The garbage collector waits for the owners: a Migration is deleted before a
\* pod that becomes an owner claims it, and then nothing is evacuated any more.
Owned ==
    /\ \A t \in Targets : pod[t] # "gone"
    /\ \A s \in Sources :
          /\ mig[s].deleted => AutoGC
          /\ AutoGC /\ mig[s].exists => s \in mig[s].owners
          /\ \A c \in Containers :
                /\ pod[s] = "gone" => spc[<<s, c>>] = "exited"
                /\ mig[s].deleted /\ (mig[s].target = NoPod \/ Keeps(s))
                      => spc[<<s, c>>] = "exited" /\ ~mig[s].server[c]

\* The image is there until the evacuation has shown it, and from then on until
\* the restore has taken it.
Images ==
    \A s \in Sources, c \in Containers :
        \/ <<s, c>> \in gaveUp
        \/ /\ (/\ ~mig[s].server[c] /\ ~mig[s].deleted /\ ~Started(s, c)
               /\ sproc[<<s, c>>] = "scaledDown" \/ spc[<<s, c>>] = "evac")
                 => <<s, c>> \in image
           /\ (/\ mig[s].server[c] /\ Keeps(s)
               /\ Restore(s, c) \in {"servers", "pull"})
                 => <<s, c>> \in image

\* The restore that has said it is ready waits for the servers, pulls, or has
\* got the checkpoint.
Restored ==
    /\ \A t \in Targets, c \in Containers :
          /\ tpc[<<t, c>>] = "fail" => <<held[<<t, c>>].mig, c>> \in gaveUp
          /\ tpc[<<t, c>>] = "pull" => mig[held[<<t, c>>].mig].server[c]
    /\ \A s \in Sources, c \in Containers :
          mig[s].ready /\ Keeps(s) =>
              \/ <<s, c>> \in gaveUp
              \/ /\ held[<<mig[s].target, c>>].mig = s
                 /\ \/ Restore(s, c) \in {"servers", "pull"}
                    \/ /\ Restore(s, c) \in {"start", "finish", "started"}
                       /\ ckpt[<<mig[s].target, c>>] = s

LostInv ==
    /\ IInv /\ SourceOK
    /\ Seen /\ Ordered /\ Evacuated /\ Owned /\ Images /\ Restored

\* How the restore of a container goes on.
RestoreStep(t, c) ==
    LET x == <<t, c>>
        s == held[x].mig
        keep == held'[x].mig = held[x].mig /\ ckpt'[x] = ckpt[x] IN
    \/ tpc'[x] = tpc[x] /\ keep
    \/ tpc[x] = "idle" /\ tpc'[x] = "find"
    \/ tpc[x] = "find" /\ tpc'[x] \in {"ready", "start"}
    \/ tpc[x] = "ready" /\ tpc'[x] \in {"servers", "start"} /\ keep
    \/ tpc[x] = "servers" /\ tpc'[x] = "pull" /\ keep /\ Cached(t, s).server[c]
    \/ /\ tpc[x] \in {"servers", "pull"} /\ tpc'[x] = "fail" /\ keep
       /\ <<s, c>> \in gaveUp'
    \/ tpc[x] = "fail" /\ tpc'[x] = "start" /\ keep
    \/ /\ tpc[x] = "pull" /\ tpc'[x] = "start" /\ held'[x].mig = s
       /\ ckpt'[x] = s \/ <<s, c>> \in gaveUp' \/ <<s, c>> \notin image
    \/ tpc[x] = "start" /\ tpc'[x] = "finish" /\ keep
    \/ tpc[x] = "start" /\ tpc'[x] = "idle" /\ <<ckpt[x], c>> \in gaveUp'
    \/ tpc[x] = "finish" /\ tpc'[x] = "started" /\ keep

\* The shim of a new pod takes these steps and no other.
LEMMA RestoreSteps ==
    ASSUME IInv, [Next]_vars, NEW t \in Targets, NEW c \in Containers
    PROVE  RestoreStep(t, c)
<1> USE DEF apiVars, srcVars, dstVars
<1>1. ASSUME held' = held, ckpt' = ckpt, tpc' = tpc PROVE RestoreStep(t, c)
  BY Zenon, <1>1 DEF RestoreStep
<1>2. <<t, c>> \in TargetThreads
  BY Zenon DEF TargetThreads
<1>3. ASSUME NEW u \in Targets, NEW d \in Containers, TargetStep(u, d),
             <<u, d>> # <<t, c>>
      PROVE  RestoreStep(t, c)
  <2>1. HoldStep(u, d)
    BY Zenon, <1>3, TargetAdvances
  <2>2. held'[<<t, c>>] = held[<<t, c>>]
    BY Zenon, <1>2, <1>3, <2>1 DEF HoldStep
  <2>3. ckpt'[<<t, c>>] = ckpt[<<t, c>>]
    BY Zenon, <1>2, <1>3, <2>1 DEF HoldStep, IInv, DataOK
  <2>4. tpc'[<<t, c>>] = tpc[<<t, c>>]
    BY Zenon, <1>2, <1>3, <2>1 DEF HoldStep, IInv, DataOK
  <2> QED BY Zenon, <2>2, <2>3, <2>4 DEF RestoreStep
<1>4. ASSUME TargetStep(t, c) PROVE RestoreStep(t, c)
  <2> USE <1>2 DEF RestoreStep, Step, IInv, DataOK
  <2>1. CASE CreateContainer(t, c)
    BY Zenon, <2>1 DEF CreateContainer
  <2>2. CASE FindFails(t, c)
    BY Zenon, <2>2 DEF FindFails
  <2>3. CASE \E s \in Sources : FindClaimed(t, c, s) \/ FindAndClaim(t, c, s)
    <3>1. \E q \in {"start", "ready"} : Step(<<t, c>>, "find", q)
      BY Zenon, <2>3 DEF FindClaimed, FindAndClaim, Hold
    <3> QED BY Zenon, <3>1
  <2>4. CASE SetRestoreReady(t, c)
    BY Zenon, <2>4 DEF SetRestoreReady
  <2>5. CASE ServersSet(t, c)
    BY Zenon, <2>5 DEF ServersSet
  <2>6. CASE ServersTimeout(t, c)
    BY Zenon, <2>6 DEF ServersTimeout
  <2>7. CASE SetMigrationFailed(t, c)
    BY Zenon, <2>7 DEF SetMigrationFailed
  <2>8. CASE PullImage(t, c)
    BY Zenon, <2>8 DEF PullImage
  <2>9. CASE PullFails(t, c)
    BY Zenon, <2>9 DEF PullFails
  <2>10. CASE StartContainer(t, c)
    BY Zenon, <2>10 DEF StartContainer
  <2>11. CASE StartFails(t, c)
    BY Zenon, <2>11 DEF StartFails
  <2>12. CASE FinishFindsNone(t, c) \/ \E s \in Sources : FinishRestore(t, c, s)
    <3>1. Step(<<t, c>>, "finish", "started") /\ held' = held /\ ckpt' = ckpt
      BY Zenon, <2>12 DEF FinishFindsNone, FinishRestore
    <3> QED BY Zenon, <3>1
  <2> QED
    BY Zenon, <1>4, <2>1, <2>2, <2>3, <2>4, <2>5, <2>6, <2>7, <2>8, <2>9, <2>10,
       <2>11, <2>12 DEF TargetStep
<1>5. ASSUME UNCHANGED vars PROVE held' = held /\ ckpt' = ckpt /\ tpc' = tpc
  BY Zenon, <1>5 DEF vars
<1>6. ASSUME NEW u \in Targets, NEW d \in Containers, TargetStep(u, d)
      PROVE  RestoreStep(t, c)
  <2>1. CASE <<u, d>> = <<t, c>>
    <3>1. u = t /\ d = c
      BY Zenon, <2>1
    <3> QED BY Zenon, <1>4, <1>6, <3>1
  <2> QED BY Zenon, <1>3, <1>6, <2>1
<1> QED
  BY Zenon, <1>1, <1>5, <1>6, ControllerAdvances, SourceAdvances DEF Next

\* How the evacuation of a container goes on.
EvacStep(s, c) ==
    LET x == <<s, c>>
        keep == evac'[x] = evac[x] /\ sproc'[x] = sproc[x] IN
    \/ spc'[x] = spc[x] /\ keep
    \/ /\ x \in gaveUp' /\ evac'[x] = evac[x]
       /\ \/ spc'[x] = spc[x]
          \/ spc[x] = "claim" /\ spc'[x] = "unclaim"
          \/ spc[x] # "exited" /\ spc'[x] = "kill"
    \/ spc[x] = "run" /\ spc'[x] = "kill" /\ evac'[x] = "none" /\ sproc'[x] = sproc[x]
    \/ /\ spc[x] = "run" /\ spc'[x] = "claim" /\ sproc'[x] = sproc[x]
       /\ \/ evac'[x] = "live"
          \/ evac'[x] = "offline" /\ sproc[x] = "scaledDown"
    \/ spc[x] = "claim" /\ spc'[x] = "ready" /\ keep
    \/ spc[x] = "unclaim" /\ spc'[x] = "kill" /\ keep
    \/ /\ spc[x] = "ready" /\ keep /\ Cached(s, s).ready
       /\ spc'[x] = IF evac[x] = "live" THEN "dump" ELSE "evac"
    \/ /\ spc[x] = "dump" /\ spc'[x] = "evac" /\ evac'[x] = evac[x]
       /\ sproc'[x] = "frozen" /\ x \in image'
    \/ spc[x] = "evac" /\ spc'[x] = "status" /\ keep /\ mig'[s].server[c]
    \/ spc[x] = "status" /\ spc'[x] \in {"transfer", "drain"} /\ keep
    \/ /\ spc[x] = "transfer" /\ spc'[x] = "kill"
       /\ evac'[x] = evac[x] /\ sproc'[x] = "scaledDown"
    \/ /\ spc[x] \in {"drain", "kill"} /\ spc'[x] = "exited"
       /\ evac'[x] = evac[x] /\ sproc'[x] = "exited"

\* Evac shows the server.
LEMMA EvacShows ==
    ASSUME IInv, NEW s \in Sources, NEW c \in Containers, EvacServers(s, c)
    PROVE  mig'[s].server[c]
<1> DEFINE v == (evac[<<s, c>>] = "live")
           m == [mig[s] EXCEPT !.server[c] = TRUE, !.live = v]
<1>1. DataOK /\ mig[s] \in Migrations
  BY Zenon DEF IInv, DataOK
<1>2. Write(s, m)
  BY Zenon DEF EvacServers
<1>3. m \in Migrations /\ m.server = [mig[s].server EXCEPT ![c] = TRUE]
  <2>1. v \in BOOLEAN
    BY Zenon
  <2> HIDE DEF v
  <2> QED BY Zenon, <1>1, <2>1, ServerSame
<1> HIDE DEF m
<1>4. mig'[s].server = [mig[s].server EXCEPT ![c] = TRUE]
  BY Zenon, <1>1, <1>2, <1>3, WrittenFields
<1>5. mig[s].server \in [Containers -> BOOLEAN]
  BY Zenon, <1>1 DEF Migrations
<1> QED BY Zenon, <1>4, <1>5

\* The shim of an old pod takes these steps and no other.
LEMMA EvacSteps ==
    ASSUME IInv, SourceOK, [Next]_vars, NEW s \in Sources, NEW c \in Containers
    PROVE  EvacStep(s, c)
<1> USE DEF apiVars, srcVars, dstVars
<1>1. ASSUME spc' = spc, evac' = evac, sproc' = sproc PROVE EvacStep(s, c)
  BY Zenon, <1>1 DEF EvacStep
<1>2. <<s, c>> \in SourceThreads
  BY Zenon DEF SourceThreads
<1>3. ASSUME NEW r \in Sources, NEW d \in Containers,
             SourceStep(r, d) \/ WakeSource(r, d), <<r, d>> # <<s, c>>
      PROVE  EvacStep(s, c)
  <2>1. \E q \in {"run", "claim", "unclaim", "ready", "dump", "evac", "status",
                   "transfer", "drain", "kill", "exited"} :
           spc' = [spc EXCEPT ![<<r, d>>] = q]
    BY Zenon, <1>3, SourceSteps
  <2>2. \E q \in {"none", "offline", "live"} : evac' = [evac EXCEPT ![<<r, d>>] = q]
    BY Zenon, <1>3, SourceSteps
  <2>3. \E q \in {"running", "scaledDown", "frozen", "exited"} :
           /\ sproc' = [sproc EXCEPT ![<<r, d>>] = q]
           /\ q = "running" => \/ sproc' = sproc
                              \/ <<r, d>> \in gaveUp' \ image'
    BY Zenon, <1>3, SourceSteps
  <2>4. /\ spc'[<<s, c>>] = spc[<<s, c>>]
        /\ evac'[<<s, c>>] = evac[<<s, c>>]
        /\ sproc'[<<s, c>>] = sproc[<<s, c>>]
    BY Zenon, <1>2, <1>3, <2>1, <2>2, <2>3 DEF SourceOK
  <2> QED BY Zenon, <2>4 DEF EvacStep
<1>4. ASSUME SourceStep(s, c) \/ WakeSource(s, c) PROVE EvacStep(s, c)
  <2> USE <1>2 DEF EvacStep, Move, SourceOK
  <2>1. CASE EvictDone(s, c)
    BY Zenon, <1>1, <2>1 DEF EvictDone
  <2>2. CASE KillContainer(s, c)
    BY Zenon, <2>2 DEF KillContainer
  <2>3. CASE SeesClaim(s, c)
    BY Zenon, <2>3 DEF SeesClaim
  <2>4. CASE ClaimTimeout(s, c)
    BY Zenon, <2>4 DEF ClaimTimeout
  <2>5. CASE SetUnclaimed(s, c)
    BY Zenon, <2>5 DEF SetUnclaimed
  <2>6. CASE SeesReady(s, c)
    BY Zenon, <2>6 DEF SeesReady
  <2>7. CASE ReadyTimeout(s, c)
    BY Zenon, <2>7 DEF ReadyTimeout
  <2>8. CASE LazyDump(s, c)
    BY Zenon, <2>8 DEF LazyDump
  <2>9. CASE EvacServers(s, c)
    <3>1. mig'[s].server[c]
      BY Zenon, <2>9, EvacShows
    <3> QED BY Zenon, <2>9, <3>1 DEF EvacServers
  <2>10. CASE EvacStatus(s, c)
    <3>1. \E q \in {"transfer", "drain"} : Move(<<s, c>>, "status", q)
      BY Zenon, <2>10 DEF EvacStatus
    <3>2. evac' = evac /\ sproc' = sproc
      BY Zenon, <2>10 DEF EvacStatus
    <3> QED BY Zenon, <3>1, <3>2
  <2>11. CASE EvacFails(s, c)
    BY Zenon, <2>11 DEF EvacFails
  <2>12. CASE TransferDone(s, c)
    BY Zenon, <2>12 DEF TransferDone
  <2>13. CASE Exit(s, c)
    BY Zenon, <2>13 DEF Exit
  <2>14. CASE WakeSource(s, c)
    BY Zenon, <2>14 DEF WakeSource
  <2> QED
    BY Zenon, <1>4, <2>1, <2>2, <2>3, <2>4, <2>5, <2>6, <2>7, <2>8, <2>9, <2>10,
       <2>11, <2>12, <2>13, <2>14 DEF SourceStep
<1>5. ASSUME \/ \E r \in Sources : DeletePod(r) \/ PodGone(r)
             \/ \E t \in Targets : SchedulePod(t) \/ PodRunning(t)
             \/ \E r \in Sources, d \in Containers : EvictPod(r, d)
      PROVE  spc' = spc /\ evac' = evac /\ sproc' = sproc
  BY Zenon, <1>5 DEF DeletePod, PodGone, SchedulePod, PodRunning, EvictPod
<1>6. ASSUME NEW r \in Sources, NEW d \in Containers,
             SourceStep(r, d) \/ WakeSource(r, d)
      PROVE  EvacStep(s, c)
  <2>1. CASE <<r, d>> = <<s, c>>
    <3>1. r = s /\ d = c
      BY Zenon, <2>1
    <3> QED BY Zenon, <1>4, <1>6, <3>1
  <2> QED BY Zenon, <1>3, <1>6, <2>1
<1> QED
  BY Zenon, <1>1, <1>5, <1>6, SourceFrame, OutsideSteps
     DEF Next, ApiStep, ControllerStep, Environment, TargetStep

\* Who removes an image.
LEMMA ImageGone ==
    ASSUME IInv, SourceOK, [Next]_vars, NEW s \in Sources, NEW c \in Containers,
           <<s, c>> \in image, <<s, c>> \notin image'
    PROVE  \/ <<s, c>> \in gaveUp' \/ TransferDone(s, c)
           \/ CleanupFinal(s) /\ Final(Cached(s, s).phase[c])
           \/ CleanupDeleted(s)
           \/ \E t \in Targets : PullImage(t, c) /\ held[<<t, c>>].mig = s
<1> USE DEF apiVars, srcVars, dstVars
<1>1. ASSUME NEW r \in Sources, CleanupFinal(r)
      PROVE  CleanupFinal(s) /\ Final(Cached(s, s).phase[c])
  <2>1. r = s /\ Final(Cached(r, r).phase[c])
    BY Zenon, <1>1 DEF CleanupFinal
  <2> QED BY Zenon, <1>1, <2>1
<1>2. ASSUME NEW r \in Sources, CleanupDeleted(r) PROVE CleanupDeleted(s)
  <2>1. r = s
    BY Zenon, <1>2 DEF CleanupDeleted
  <2> QED BY Zenon, <1>2, <2>1
<1>3. ASSUME NEW t \in Targets, NEW d \in Containers, PullImage(t, d)
      PROVE  PullImage(t, c) /\ held[<<t, c>>].mig = s
  <2>1. d = c /\ held[<<t, d>>].mig = s
    BY Zenon, <1>3 DEF PullImage
  <2> QED BY Zenon, <1>3, <2>1
<1>4. ASSUME NEW t \in Targets, NEW d \in Containers, PullFails(t, d)
      PROVE  <<s, c>> \in gaveUp'
  BY Zenon, <1>4 DEF PullFails
<1>5. ASSUME NEW r \in Sources, NEW d \in Containers, TransferDone(r, d)
      PROVE  TransferDone(s, c)
  <2>1. r = s /\ d = c
    BY Zenon, <1>5 DEF TransferDone
  <2> QED BY Zenon, <1>5, <2>1
<1>6. ASSUME NEW r \in Sources, NEW d \in Containers,
             EvacFails(r, d) \/ WakeSource(r, d)
      PROVE  <<s, c>> \in gaveUp'
  BY Zenon, <1>6 DEF EvacFails, WakeSource
<1>7. ASSUME NEW r \in Sources, NEW d \in Containers, LazyDump(r, d)
      PROVE  FALSE
  BY Zenon, <1>7 DEF LazyDump
<1>8. ASSUME NEW r \in Sources, NEW d \in Containers,
             \/ EvictDone(r, d) \/ KillContainer(r, d) \/ SeesClaim(r, d)
             \/ ClaimTimeout(r, d) \/ SetUnclaimed(r, d) \/ SeesReady(r, d)
             \/ ReadyTimeout(r, d) \/ EvacServers(r, d) \/ EvacStatus(r, d)
             \/ Exit(r, d) \/ EvictPod(r, d)
      PROVE  image' = image
  BY Zenon, <1>8 DEF EvictDone, KillContainer, SeesClaim, ClaimTimeout,
     SetUnclaimed, SeesReady, ReadyTimeout, EvacServers, EvacStatus, Exit, EvictPod
<1>9. ASSUME \/ \E r \in Sources : DeletePod(r) \/ PodGone(r) \/ InitStatus(r)
             \/ \E t \in Targets : SchedulePod(t) \/ PodRunning(t)
             \/ \E t \in Targets, d \in Containers :
                   ServersTimeout(t, d) \/ StartFails(t, d)
      PROVE  image' = image
  BY Zenon, <1>9 DEF DeletePod, PodGone, InitStatus, SchedulePod, PodRunning,
     ServersTimeout, StartFails
<1> QED
  BY Zenon, <1>1, <1>2, <1>3, <1>4, <1>5, <1>6, <1>7, <1>8, <1>9, SourceFrame
     DEF Next, ApiStep, ControllerStep, Environment, TargetStep, SourceStep

\* What is done stays done.
LEMMA Grows ==
    ASSUME IInv, SourceOK, [Next]_vars, NEW s \in Sources, NEW c \in Containers
    PROVE  /\ mig[s].target # NoPod =>
                 /\ mig'[s].target = mig[s].target
                 /\ mig'[s].owners = mig[s].owners
           /\ mig[s].ready => mig'[s].ready
           /\ mig[s].server[c] => mig'[s].server[c]
           /\ mig[s].deleted => mig'[s].deleted
           /\ <<s, c>> \in gaveUp => <<s, c>> \in gaveUp'
           /\ Started(s, c) => Started(s, c)'
           /\ spc[<<s, c>>] = "exited" => spc'[<<s, c>>] = "exited"
<1>1. LifeStep(s) /\ OwnerStep(s) /\ WorkStep(s)
  BY Zenon, NextEffects DEF Effects
<1>2. /\ mig[s].target # NoPod => /\ mig'[s].target = mig[s].target
                                  /\ mig'[s].owners = mig[s].owners
      /\ mig[s].ready => mig'[s].ready
      /\ mig[s].server[c] => mig'[s].server[c]
      /\ mig[s].deleted => mig'[s].deleted
  BY Zenon, <1>1 DEF LifeStep, OwnerStep, WorkStep
<1>3. <<s, c>> \in gaveUp => <<s, c>> \in gaveUp'
  BY Zenon, GaveUpStays
<1>4. Started(s, c) => Started(s, c)'
  <2> SUFFICES ASSUME mig[s].target # NoPod, tpc[<<mig[s].target, c>>] = "started"
               PROVE  tpc'[<<mig[s].target, c>>] = "started"
    BY Zenon, <1>2 DEF Started, Restore
  <2>1. mig[s].target \in Targets
    BY Zenon DEF IInv, DataOK, Migrations
  <2>2. RestoreStep(mig[s].target, c)
    BY Zenon, <2>1, RestoreSteps
  <2> QED BY Zenon, <2>2 DEF RestoreStep
<1>5. spc[<<s, c>>] = "exited" => spc'[<<s, c>>] = "exited"
  <2>1. EvacStep(s, c)
    BY Zenon, EvacSteps
  <2> QED BY Zenon, <2>1 DEF EvacStep
<1> QED BY Zenon, <1>2, <1>3, <1>4, <1>5

\* The order of claim, RestoreReady and servers, also when caches are behind.
LEMMA OrderedStep == LostInv /\ [Next]_vars => Ordered'
<1> SUFFICES ASSUME LostInv, [Next]_vars, NEW s \in Sources, NEW c \in Containers
             PROVE  /\ mig'[s].ready => mig'[s].target # NoPod
                    /\ mig'[s].server[c] => mig'[s].ready
                    /\ spc'[<<s, c>>] \in {"dump", "evac", "status", "transfer",
                                           "drain"} => mig'[s].ready
  BY Zenon DEF Ordered
<1>1. IInv /\ SourceOK /\ Seen /\ Ordered
  BY Zenon DEF LostInv
<1>2. /\ mig[s].target # NoPod => mig'[s].target = mig[s].target
      /\ mig[s].ready => mig'[s].ready
      /\ mig[s].server[c] => mig'[s].server[c]
  BY Zenon, <1>1, Grows
<1>3. WorkStep(s)
  BY Zenon, <1>1, NextEffects DEF Effects
<1>4. /\ mig[s].ready => mig[s].target # NoPod
      /\ mig[s].server[c] => mig[s].ready
      /\ spc[<<s, c>>] \in {"dump", "evac", "status", "transfer", "drain"}
            => mig[s].ready
  BY Zenon, <1>1 DEF Ordered
<1>5. mig'[s].ready => mig'[s].target # NoPod
  <2>1. ASSUME NEW t \in Targets, NEW d \in Containers,
               held[<<t, d>>].mig = s
        PROVE  mig'[s].target # NoPod
    <3>1. s # NoPod /\ t # NoPod
      BY Zenon, PodsAssumption DEF Pods
    <3>2. mig[s].target = t
      BY Zenon, <1>1, <2>1, <3>1 DEF IInv, HeldOK
    <3> QED BY Zenon, <1>2, <3>1, <3>2
  <2> QED BY Zenon, <1>2, <1>3, <1>4, <2>1 DEF WorkStep
<1>6. mig'[s].server[c] => mig'[s].ready
  <2>1. EvacServers(s, c) => spc[<<s, c>>] = "evac"
    BY Zenon DEF EvacServers, Move
  <2> QED BY Zenon, <1>2, <1>3, <1>4, <2>1 DEF WorkStep
<1>7. spc'[<<s, c>>] \in {"dump", "evac", "status", "transfer", "drain"}
         => mig'[s].ready
  <2>1. EvacStep(s, c)
    BY Zenon, <1>1, EvacSteps
  <2>2. Cached(s, s).ready => mig[s].ready
    <3>1. NodeOf[s] \in Nodes
      BY Zenon, PodsAssumption DEF Pods
    <3> QED BY Zenon, <1>1, <3>1 DEF Seen, SeenOK, Cached
  <2> QED BY Zenon, <1>2, <1>4, <2>1, <2>2 DEF EvacStep
<1> QED BY Zenon, <1>5, <1>6, <1>7

\* An evacuation ends with its server set, or is given up.
LEMMA EvacuatedStep == LostInv /\ [Next]_vars => Evacuated'
<1> SUFFICES ASSUME LostInv, [Next]_vars, NEW s \in Sources, NEW c \in Containers
             PROVE  /\ spc'[<<s, c>>] = "run" => evac'[<<s, c>>] = "none"
                    /\ spc'[<<s, c>>] \in {"claim", "unclaim", "ready", "dump",
                                           "evac", "status", "transfer", "drain"}
                          => evac'[<<s, c>>] # "none"
                    /\ spc'[<<s, c>>] = "dump" => evac'[<<s, c>>] = "live"
                    /\ <<s, c>> \in gaveUp' \/
                          /\ spc'[<<s, c>>] # "unclaim"
                          /\ spc'[<<s, c>>] \in {"status", "transfer", "drain"}
                                => mig'[s].server[c]
                          /\ spc'[<<s, c>>] \in {"kill", "exited"}
                             /\ evac'[<<s, c>>] # "none" => mig'[s].server[c]
                          /\ evac'[<<s, c>>] = "offline"
                             /\ spc'[<<s, c>>] # "exited"
                                => sproc'[<<s, c>>] = "scaledDown"
  BY Zenon DEF Evacuated
<1>1. IInv /\ SourceOK /\ Evacuated
  BY Zenon DEF LostInv
<1>2. /\ mig[s].server[c] => mig'[s].server[c]
      /\ <<s, c>> \in gaveUp => <<s, c>> \in gaveUp'
  BY Zenon, <1>1, Grows
<1>3. EvacStep(s, c)
  BY Zenon, <1>1, EvacSteps
<1> DEFINE x == <<s, c>>
<1>4. /\ spc[x] = "run" => evac[x] = "none"
      /\ spc[x] \in {"claim", "unclaim", "ready", "dump", "evac", "status",
                     "transfer", "drain"} => evac[x] # "none"
      /\ spc[x] = "dump" => evac[x] = "live"
      /\ x \in gaveUp \/
            /\ spc[x] # "unclaim"
            /\ spc[x] \in {"status", "transfer", "drain"} => mig[s].server[c]
            /\ spc[x] \in {"kill", "exited"} /\ evac[x] # "none" => mig[s].server[c]
            /\ evac[x] = "offline" /\ spc[x] # "exited" => sproc[x] = "scaledDown"
  BY Zenon, <1>1 DEF Evacuated
<1>5. /\ spc[x] \in {"run", "claim", "unclaim", "ready", "dump", "evac", "status",
                     "transfer", "drain", "kill", "exited"}
      /\ evac[x] \in {"none", "offline", "live"}
  BY Zenon, <1>1 DEF SourceOK, SourceThreads
<1>6. /\ spc'[x] = "run" => evac'[x] = "none"
      /\ spc'[x] \in {"claim", "unclaim", "ready", "dump", "evac", "status",
                      "transfer", "drain"} => evac'[x] # "none"
      /\ spc'[x] = "dump" => evac'[x] = "live"
  BY Zenon, <1>3, <1>4, <1>5 DEF EvacStep
<1>7. ASSUME x \notin gaveUp'
      PROVE  /\ spc'[x] # "unclaim"
             /\ spc'[x] \in {"status", "transfer", "drain"} => mig'[s].server[c]
             /\ spc'[x] \in {"kill", "exited"} /\ evac'[x] # "none"
                   => mig'[s].server[c]
  BY Zenon, <1>2, <1>3, <1>4, <1>5, <1>7 DEF EvacStep
<1>8. ASSUME x \notin gaveUp', evac'[x] = "offline", spc'[x] # "exited"
      PROVE  sproc'[x] = "scaledDown"
  BY Zenon, <1>2, <1>3, <1>4, <1>5, <1>8 DEF EvacStep
<1> QED BY Zenon, <1>6, <1>7, <1>8

\* Only an old pod goes away.
LEMMA PodSteps ==
    ASSUME IInv, SourceOK, [Next]_vars, NEW p \in Pods, pod'[p] = "gone"
    PROVE  pod[p] = "gone" \/ (p \in Sources /\ PodGone(p))
<1>1. ASSUME pod' = pod PROVE pod[p] = "gone"
  BY Zenon, <1>1
<1>2. ASSUME NEW s \in Sources, PodGone(s)
      PROVE  pod[p] = "gone" \/ (p \in Sources /\ PodGone(p))
  <2>1. pod[p] = "gone" \/ p = s
    BY Zenon, <1>2 DEF PodGone, SourceOK
  <2> QED BY Zenon, <1>2, <2>1
<1>3. ASSUME \/ \E s \in Sources : DeletePod(s)
             \/ \E t \in Targets : SchedulePod(t) \/ PodRunning(t)
             \/ \E s \in Sources, c \in Containers : EvictPod(s, c)
      PROVE  pod[p] = "gone"
  BY ZenonT(30), <1>3 DEF DeletePod, SchedulePod, PodRunning, EvictPod, SourceOK
<1>4. ASSUME NEW s \in Sources, NEW c \in Containers,
             SourceStep(s, c) \/ WakeSource(s, c)
      PROVE  pod' = pod
  BY Zenon, <1>4, SourceSteps
<1> QED
  BY Zenon, <1>1, <1>2, <1>3, <1>4, SourceFrame, OutsideSteps
     DEF Next, ApiStep, ControllerStep, Environment, TargetStep

\* The garbage collector leaves the owners and the servers as they are.
LEMMA CollectKeeps ==
    ASSUME IInv, NEW s \in Sources, CollectGarbage(s)
    PROVE  /\ mig'[s].target = mig[s].target /\ mig'[s].owners = mig[s].owners
           /\ mig'[s].server = mig[s].server
<1> DEFINE m == [mig[s] EXCEPT !.deleted = TRUE]
<1>1. DataOK /\ mig[s] \in Migrations
  BY Zenon DEF IInv, DataOK
<1>2. Write(s, m)
  BY Zenon DEF CollectGarbage
<1>3. m \in Migrations /\ SameOwner(mig[s], m) /\ SameWork(mig[s], m)
  BY Zenon, <1>1, FlagSame
<1> HIDE DEF m
<1>4. Same(m, mig'[s])
  BY Zenon, <1>1, <1>2, <1>3, WriteSame
<1> QED BY Zenon, <1>3, <1>4 DEF Same, SameOwner, SameWork

\* A Migration is collected before it is claimed by a pod that becomes an owner,
\* or never.
LEMMA OwnedStep == LostInv /\ [Next]_vars => Owned'
<1> SUFFICES ASSUME LostInv, [Next]_vars PROVE Owned'
  BY Zenon
<1>1. IInv /\ SourceOK /\ Ordered /\ Owned
  BY Zenon DEF LostInv
<1>2. ASSUME NEW t \in Targets PROVE pod'[t] # "gone"
  <2>1. t \in Pods /\ t \notin Sources
    BY Zenon, PodsAssumption DEF Pods
  <2>2. pod[t] # "gone"
    BY Zenon, <1>1 DEF Owned
  <2> QED BY Zenon, <1>1, <2>1, <2>2, PodSteps
<1>3. ASSUME NEW s \in Sources
      PROVE  /\ mig'[s].deleted => AutoGC
             /\ AutoGC /\ mig'[s].exists => s \in mig'[s].owners
  <2>1. LifeStep(s) /\ OwnerStep(s)
    BY Zenon, <1>1, NextEffects DEF Effects
  <2>2. /\ mig[s].deleted => AutoGC
        /\ AutoGC /\ mig[s].exists => s \in mig[s].owners
    BY Zenon, <1>1 DEF Owned
  <2> QED BY Zenon, <2>1, <2>2 DEF LifeStep, OwnerStep, CollectGarbage
<1>4. ASSUME NEW s \in Sources, NEW c \in Containers, pod'[s] = "gone"
      PROVE  spc'[<<s, c>>] = "exited"
  <2>1. pod[s] = "gone" \/ PodGone(s)
    BY Zenon, <1>1, <1>4, PodSteps DEF Pods
  <2>2. spc[<<s, c>>] = "exited"
    BY Zenon, <1>1, <2>1 DEF Owned, PodGone
  <2> QED BY Zenon, <1>1, <2>2, Grows
<1>5. ASSUME NEW s \in Sources, NEW c \in Containers, mig'[s].deleted,
             mig'[s].target = NoPod \/ Keeps(s)'
      PROVE  spc'[<<s, c>>] = "exited" /\ ~mig'[s].server[c]
  <2>1. LifeStep(s) /\ WorkStep(s)
    BY Zenon, <1>1, NextEffects DEF Effects
  <2>2. mig[s].target # NoPod => /\ mig'[s].target = mig[s].target
                                 /\ mig'[s].owners = mig[s].owners
    BY Zenon, <1>1, Grows
  <2>3. mig[s].target = NoPod \/ Keeps(s)
    BY Zenon, <1>5, <2>2 DEF Keeps
  <2>4. CASE mig[s].deleted
    <3>1. spc[<<s, c>>] = "exited" /\ ~mig[s].server[c]
      BY Zenon, <1>1, <2>3, <2>4 DEF Owned
    <3>2. ~EvacServers(s, c)
      BY Zenon, <3>1 DEF EvacServers, Move
    <3>3. ~mig'[s].server[c]
      BY Zenon, <2>1, <3>1, <3>2 DEF WorkStep
    <3> QED BY Zenon, <1>1, <3>1, <3>3, Grows
  <2>5. CASE CollectGarbage(s)
    <3>1. /\ AutoGC /\ mig[s].exists
          /\ \A p \in mig[s].owners : pod[p] = "gone"
      BY Zenon, <2>5 DEF CollectGarbage
    <3>2. pod[s] = "gone"
      BY Zenon, <1>1, <3>1 DEF Owned
    <3>3. spc'[<<s, c>>] = "exited"
      BY Zenon, <1>1, <3>2, Grows DEF Owned
    <3>4. mig[s].target = NoPod
      <4>1. mig[s].target \in Targets \cup {NoPod}
        BY Zenon, <1>1 DEF IInv, DataOK, Migrations
      <4> QED BY Zenon, <1>1, <2>3, <3>1, <4>1 DEF Keeps, Owned
    <3>5. ~mig[s].server[c]
      BY Zenon, <1>1, <3>4 DEF Ordered
    <3>6. ~mig'[s].server[c]
      BY Zenon, <1>1, <2>5, <3>5, CollectKeeps
    <3> QED BY Zenon, <3>3, <3>6
  <2> QED BY Zenon, <1>5, <2>1, <2>4, <2>5 DEF LifeStep
<1> QED BY Zenon, <1>2, <1>3, <1>4, <1>5 DEF Owned

\* What was true of a version stays true of it.
LEMMA SeenStays ==
    ASSUME IInv, SourceOK, [Next]_vars, NEW s \in Sources, NEW m, SeenOK(m, s)
    PROVE  /\ m.ready => mig'[s].ready
           /\ m.deleted => mig'[s].deleted
           /\ \A c \in Containers :
                 /\ m.server[c] => mig'[s].server[c]
                 /\ m.phase[c] = "Unclaimed" => <<s, c>> \in gaveUp'
                 /\ m.phase[c] \in {"Completed", "Failed"}
                       => <<s, c>> \in gaveUp' \/ Started(s, c)'
<1>1. (m.ready => mig'[s].ready) /\ (m.deleted => mig'[s].deleted)
  <2>1. WorkStep(s) /\ LifeStep(s)
    BY Zenon, NextEffects DEF Effects
  <2> QED BY Zenon, <2>1 DEF SeenOK, WorkStep, LifeStep
<1>2. ASSUME NEW c \in Containers
      PROVE  /\ m.server[c] => mig'[s].server[c]
             /\ m.phase[c] = "Unclaimed" => <<s, c>> \in gaveUp'
             /\ m.phase[c] \in {"Completed", "Failed"}
                   => <<s, c>> \in gaveUp' \/ Started(s, c)'
  <2>1. /\ m.server[c] => mig[s].server[c]
        /\ m.phase[c] = "Unclaimed" => <<s, c>> \in gaveUp
        /\ m.phase[c] \in {"Completed", "Failed"}
              => <<s, c>> \in gaveUp \/ Started(s, c)
    BY Zenon DEF SeenOK
  <2>2. /\ mig[s].server[c] => mig'[s].server[c]
        /\ <<s, c>> \in gaveUp => <<s, c>> \in gaveUp'
        /\ Started(s, c) => Started(s, c)'
    BY Zenon, Grows
  <2> QED BY Zenon, <2>1, <2>2
<1> QED BY Zenon, <1>1, <1>2

\* The informer caches change by a Sync alone.
LEMMA CacheSteps ==
    ASSUME IInv, [Next]_vars, NEW n \in Nodes, NEW s \in Sources
    PROVE  cache'[n][s] \in {cache[n][s], mig[s]}
<1>1. ASSUME cache' = cache PROVE cache'[n][s] \in {cache[n][s], mig[s]}
  BY Zenon, <1>1
<1>2. ASSUME NEW k \in Nodes, NEW r \in Sources,
             cache' = [cache EXCEPT ![k][r] = mig[r]]
      PROVE  cache'[n][s] \in {cache[n][s], mig[s]}
  BY Zenon, <1>2 DEF IInv, DataOK
<1>3. ASSUME UNCHANGED vars PROVE cache' = cache
  BY Zenon, <1>3 DEF vars, apiVars
<1>4. ASSUME NEW t \in Targets, NEW c \in Containers, TargetStep(t, c)
      PROVE  cache' = cache
  BY Zenon, <1>4, TargetAdvances
<1> QED
  BY Zenon, <1>1, <1>2, <1>3, <1>4, ControllerAdvances, SourceAdvances DEF Next

\* A container gets a final phase when it is started or was given up.
LEMMA SeenStep == LostInv /\ [Next]_vars => Seen'
<1> SUFFICES ASSUME LostInv, [Next]_vars, NEW s \in Sources
             PROVE  SeenOK(mig[s], s)' /\ \A n \in Nodes : SeenOK(cache[n][s], s)'
  BY Zenon DEF Seen
<1>1. IInv /\ SourceOK /\ Seen /\ Evacuated /\ Restored
  BY Zenon DEF LostInv
<1>2. PhaseStep(s)
  BY Zenon, <1>1, NextEffects DEF Effects
<1>3. ASSUME NEW c \in Containers
      PROVE  /\ mig'[s].phase[c] = "Unclaimed" => <<s, c>> \in gaveUp'
             /\ mig'[s].phase[c] \in {"Completed", "Failed"}
                   => <<s, c>> \in gaveUp' \/ Started(s, c)'
  <2>1. /\ mig[s].phase[c] = "Unclaimed" => <<s, c>> \in gaveUp'
        /\ mig[s].phase[c] \in {"Completed", "Failed"}
              => <<s, c>> \in gaveUp' \/ Started(s, c)'
    BY Zenon, <1>1, SeenStays DEF Seen
  <2>2. SetUnclaimed(s, c) => <<s, c>> \in gaveUp'
    <3>1. SetUnclaimed(s, c) => <<s, c>> \in gaveUp
      BY Zenon, <1>1 DEF Evacuated, SetUnclaimed, Move
    <3> QED BY Zenon, <1>1, <3>1, Grows
  <2>3. ASSUME NEW t \in Targets, SetMigrationFailed(t, c), held[<<t, c>>].mig = s
        PROVE  <<s, c>> \in gaveUp'
    <3>1. <<s, c>> \in gaveUp
      BY Zenon, <1>1, <2>3 DEF Restored, SetMigrationFailed, Step
    <3> QED BY Zenon, <1>1, <3>1, Grows
  <2>4. ASSUME NEW t \in Targets, FinishRestore(t, c, s), mig[s].target = t
        PROVE  Started(s, c)'
    <3>1. t # NoPod /\ <<t, c>> \in TargetThreads
      BY Zenon, PodsAssumption DEF Pods, TargetThreads
    <3>2. tpc'[<<t, c>>] = "started"
      BY Zenon, <1>1, <2>4, <3>1 DEF FinishRestore, Step, IInv, DataOK
    <3>3. mig'[s].target = t
      BY Zenon, <1>1, <2>4, <3>1, Grows
    <3> QED BY Zenon, <3>1, <3>2, <3>3 DEF Started, Restore
  <2>5. mig'[s].phase[c] = mig[s].phase[c] =>
           /\ mig'[s].phase[c] = "Unclaimed" => <<s, c>> \in gaveUp'
           /\ mig'[s].phase[c] \in {"Completed", "Failed"}
                 => <<s, c>> \in gaveUp' \/ Started(s, c)'
    BY Zenon, <2>1
  <2> QED BY Zenon, <1>2, <2>2, <2>3, <2>4, <2>5 DEF PhaseStep
<1>4. SeenOK(mig[s], s)'
  BY Zenon, <1>3 DEF SeenOK
<1>5. ASSUME NEW n \in Nodes PROVE SeenOK(cache[n][s], s)'
  <2>1. PICK m \in {cache[n][s], mig[s]} : cache'[n][s] = m
    BY Zenon, <1>1, CacheSteps
  <2>2. SeenOK(m, s)
    BY Zenon, <1>1, <2>1 DEF Seen
  <2>3. /\ m.ready => mig'[s].ready
        /\ m.deleted => mig'[s].deleted
        /\ \A c \in Containers :
              /\ m.server[c] => mig'[s].server[c]
              /\ m.phase[c] = "Unclaimed" => <<s, c>> \in gaveUp'
              /\ m.phase[c] \in {"Completed", "Failed"}
                    => <<s, c>> \in gaveUp' \/ Started(s, c)'
    BY Zenon, <1>1, <2>2, SeenStays
  <2> QED BY Zenon, <2>1, <2>3 DEF SeenOK
<1> QED BY Zenon, <1>4, <1>5

\* The restore that has said it is ready ends with the checkpoint, unless it is
\* given up: the image is there when it is pulled.
LEMMA RestoredStep ==
    LostInv /\ [Next]_vars /\ (\E c \in Containers : Containers = {c}) => Restored'
<1> SUFFICES ASSUME LostInv, [Next]_vars, \E c \in Containers : Containers = {c}
             PROVE  Restored'
  BY Zenon
<1>1. IInv /\ SourceOK /\ Seen /\ Ordered /\ Images /\ Restored
  BY Zenon DEF LostInv
<1>2. ASSUME NEW t \in Targets, NEW c \in Containers
      PROVE  /\ tpc'[<<t, c>>] = "fail" => <<held'[<<t, c>>].mig, c>> \in gaveUp'
             /\ tpc'[<<t, c>>] = "pull" => mig'[held'[<<t, c>>].mig].server[c]
  <2> DEFINE s == held[<<t, c>>].mig
  <2>1. RestoreStep(t, c)
    BY Zenon, <1>1, RestoreSteps
  <2>2. /\ tpc[<<t, c>>] = "fail" => <<s, c>> \in gaveUp
        /\ tpc[<<t, c>>] = "pull" => mig[s].server[c]
    BY Zenon, <1>1 DEF Restored
  <2>3. tpc[<<t, c>>] \in {"fail", "pull", "servers"} => s \in Sources
    BY <1>1 DEF IInv, HeldOK, DataOK, Restoring, TargetThreads
  <2>4. ASSUME s \in Sources
        PROVE  /\ <<s, c>> \in gaveUp => <<s, c>> \in gaveUp'
               /\ mig[s].server[c] => mig'[s].server[c]
               /\ Cached(t, s).server[c] => mig[s].server[c]
    <3>1. NodeOf[t] \in Nodes
      BY Zenon, PodsAssumption DEF Pods
    <3>2. Cached(t, s).server[c] => mig[s].server[c]
      BY Zenon, <1>1, <2>4, <3>1 DEF Seen, SeenOK, Cached
    <3> QED BY Zenon, <1>1, <2>4, <3>2, Grows
  <2> QED BY Zenon, <2>1, <2>2, <2>3, <2>4 DEF RestoreStep
<1>3. ASSUME NEW s \in Sources, NEW c \in Containers, mig'[s].ready, Keeps(s)',
             <<s, c>> \notin gaveUp'
      PROVE  /\ held'[<<mig'[s].target, c>>].mig = s
             /\ \/ tpc'[<<mig'[s].target, c>>] \in {"servers", "pull"}
                \/ /\ tpc'[<<mig'[s].target, c>>] \in {"start", "finish", "started"}
                   /\ ckpt'[<<mig'[s].target, c>>] = s
  <2>1. <<s, c>> \notin gaveUp
    BY Zenon, <1>1, <1>3, Grows
  <2>2. mig[s].target # NoPod => /\ mig'[s].target = mig[s].target
                                 /\ mig'[s].owners = mig[s].owners
    BY Zenon, <1>1, Grows
  <2>3. CASE mig[s].ready
    <3> DEFINE t == mig[s].target
               x == <<t, c>>
    <3>1. t # NoPod
      BY Zenon, <1>1, <2>3 DEF Ordered
    <3>2. Keeps(s) /\ mig'[s].target = t
      BY Zenon, <1>3, <2>2, <3>1 DEF Keeps
    <3>3. t \in Targets
      BY Zenon, <1>1, <3>1 DEF IInv, DataOK, Migrations
    <3>4. /\ held[x].mig = s
          /\ \/ tpc[x] \in {"servers", "pull"}
             \/ tpc[x] \in {"start", "finish", "started"} /\ ckpt[x] = s
      BY Zenon, <1>1, <2>1, <2>3, <3>2 DEF Restored, Restore
    <3>5. tpc[x] = "pull" => <<s, c>> \in image
      <4>1. tpc[x] = "pull" => mig[s].server[c]
        BY Zenon, <1>1, <3>3, <3>4 DEF Restored
      <4> QED BY Zenon, <1>1, <2>1, <3>2, <4>1 DEF Images, Restore
    <3>6. RestoreStep(t, c)
      BY Zenon, <1>1, <3>3, RestoreSteps
    <3> HIDE DEF t
    <3>7. /\ held'[x].mig = s
          /\ \/ tpc'[x] \in {"servers", "pull"}
             \/ tpc'[x] \in {"start", "finish", "started"} /\ ckpt'[x] = s
      BY Zenon, <1>3, <3>4, <3>5, <3>6 DEF RestoreStep
    <3> QED BY Zenon, <3>2, <3>7
  <2>4. CASE ~mig[s].ready
    <3>1. WorkStep(s)
      BY Zenon, <1>1, NextEffects DEF Effects
    <3>2. PICK t \in Targets, d \in Containers :
             /\ SetRestoreReady(t, d) /\ held[<<t, d>>].mig = s
             /\ tpc'[<<t, d>>] = "servers"
      BY Zenon, <1>3, <2>4, <3>1 DEF WorkStep
    <3>3. d = c
      OBVIOUS
    <3>4. s # NoPod /\ t # NoPod
      BY Zenon, PodsAssumption DEF Pods
    <3>5. mig'[s].target = t
      BY Zenon, <1>1, <2>2, <3>2, <3>4 DEF IInv, HeldOK
    <3>6. held' = held
      BY Zenon, <3>2 DEF SetRestoreReady
    <3> QED BY Zenon, <3>2, <3>3, <3>5, <3>6
  <2> QED BY Zenon, <2>3, <2>4
<1> QED BY Zenon, <1>2, <1>3 DEF Restored, Restore

\* Nobody removes the image that is still needed.
LEMMA ImagesStep == LostInv /\ [Next]_vars => Images'
<1> SUFFICES ASSUME LostInv, [Next]_vars, NEW s \in Sources, NEW c \in Containers,
                    <<s, c>> \notin gaveUp'
             PROVE  /\ (/\ ~mig'[s].server[c] /\ ~mig'[s].deleted /\ ~Started(s, c)'
                        /\ \/ sproc'[<<s, c>>] = "scaledDown"
                           \/ spc'[<<s, c>>] = "evac")
                          => <<s, c>> \in image'
                    /\ (/\ mig'[s].server[c] /\ Keeps(s)'
                        /\ Restore(s, c)' \in {"servers", "pull"})
                          => <<s, c>> \in image'
  BY Zenon DEF Images
<1> DEFINE x == <<s, c>>
<1>1. IInv /\ SourceOK /\ Seen /\ Ordered /\ Evacuated /\ Owned /\ Images /\ Restored
  BY Zenon DEF LostInv
<1>2. /\ mig[s].target # NoPod => /\ mig'[s].target = mig[s].target
                                  /\ mig'[s].owners = mig[s].owners
      /\ mig[s].server[c] => mig'[s].server[c]
      /\ mig[s].deleted => mig'[s].deleted
      /\ x \notin gaveUp
      /\ Started(s, c) => Started(s, c)'
  BY Zenon, <1>1, Grows
<1>3. EvacStep(s, c)
  BY Zenon, <1>1, EvacSteps
<1>4. /\ x \in SourceThreads /\ NodeOf[s] \in Nodes
      /\ s # NoPod /\ mig[s].target \in Targets \cup {NoPod}
  BY Zenon, <1>1, PodsAssumption DEF SourceThreads, Pods, IInv, DataOK, Migrations
<1>5. x \in image => \/ x \in image' \/ TransferDone(s, c)
                     \/ CleanupFinal(s) /\ Final(Cached(s, s).phase[c])
                     \/ CleanupDeleted(s)
                     \/ \E t \in Targets :
                           PullImage(t, c) /\ held[<<t, c>>].mig = s
  BY Zenon, <1>1, ImageGone
<1>6. Final(Cached(s, s).phase[c]) => Started(s, c)
  <2>1. SeenOK(Cached(s, s), s)
    BY Zenon, <1>1, <1>4 DEF Seen, Cached
  <2> QED BY Zenon, <1>2, <2>1 DEF SeenOK, Final
<1>7. CleanupDeleted(s) => mig[s].deleted
  <2>1. SeenOK(Cached(s, s), s)
    BY Zenon, <1>1, <1>4 DEF Seen, Cached
  <2> QED BY Zenon, <2>1 DEF CleanupDeleted, SeenOK
<1>8. ASSUME ~mig'[s].server[c], ~mig'[s].deleted, ~Started(s, c)',
             sproc'[x] = "scaledDown" \/ spc'[x] = "evac"
      PROVE  x \in image'
  <2>1. ~mig[s].server[c] /\ ~mig[s].deleted /\ ~Started(s, c)
    BY Zenon, <1>2, <1>8
  <2>2. /\ spc[x] = "transfer" => mig[s].server[c]
        /\ spc[x] = "ready" => evac[x] # "none"
        /\ evac[x] = "offline" /\ spc[x] # "exited" => sproc[x] = "scaledDown"
    BY Zenon, <1>1, <1>2 DEF Evacuated
  <2>3. evac[x] \in {"none", "offline", "live"}
    BY Zenon, <1>1, <1>4 DEF SourceOK
  <2>4. x \in image' \/ sproc[x] = "scaledDown" \/ spc[x] = "evac"
    BY Zenon, <1>3, <1>8, <2>1, <2>2, <2>3 DEF EvacStep
  <2>5. x \in image' \/ x \in image
    BY Zenon, <1>1, <1>2, <2>1, <2>4 DEF Images
  <2>6. ~TransferDone(s, c)
    BY Zenon, <2>1, <2>2 DEF TransferDone, Move
  <2>7. ASSUME NEW t \in Targets, PullImage(t, c), held[<<t, c>>].mig = s
        PROVE  FALSE
    BY Zenon, <1>1, <2>1, <2>7 DEF PullImage, Step, Restored
  <2> QED BY Zenon, <1>5, <1>6, <1>7, <2>1, <2>5, <2>6, <2>7
<1>9. ASSUME mig'[s].server[c], Keeps(s)', Restore(s, c)' \in {"servers", "pull"}
      PROVE  x \in image'
  <2>1. WorkStep(s)
    BY Zenon, <1>1, NextEffects DEF Effects
  <2>2. mig[s].server[c] \/ (EvacServers(s, c) /\ spc[x] = "evac")
    BY Zenon, <1>9, <2>1 DEF WorkStep, EvacServers, Move
  <2>3. mig[s].ready /\ mig[s].target # NoPod
    BY Zenon, <1>1, <2>2 DEF Ordered
  <2> DEFINE t == mig[s].target
  <2>4. Keeps(s) /\ mig'[s].target = t /\ t \in Targets
    BY Zenon, <1>2, <1>4, <1>9, <2>3 DEF Keeps
  <2>5. tpc'[<<t, c>>] \in {"servers", "pull"}
    BY Zenon, <1>9, <2>4 DEF Restore
  <2>6. tpc[<<t, c>>] \in {"servers", "pull"}
    <3>1. tpc[<<t, c>>] \in {"servers", "pull", "start", "finish", "started"}
      BY <1>1, <1>2, <2>3, <2>4 DEF Restored, Restore
    <3>2. RestoreStep(t, c)
      BY Zenon, <1>1, <2>4, RestoreSteps
    <3> HIDE DEF t
    <3> QED BY Zenon, <2>5, <3>1, <3>2 DEF RestoreStep
  <2>7. ~Started(s, c)
    BY Zenon, <2>6 DEF Started, Restore
  <2>8. CASE mig[s].server[c]
    <3>1. x \in image
      BY Zenon, <1>1, <1>2, <2>4, <2>6, <2>8 DEF Images, Restore
    <3>2. ~mig[s].deleted
      BY Zenon, <1>1, <2>4, <2>8 DEF Owned
    <3>3. ~TransferDone(s, c)
      <4>1. ASSUME NEW u \in Targets, ckpt[<<u, c>>] = s,
                   tpc[<<u, c>>] \in {"finish", "started"}
            PROVE  FALSE
        <5>1. u = t
          BY Zenon, <1>1, <1>4, <4>1 DEF IInv, CkptOK
        <5> HIDE DEF t
        <5> QED BY Zenon, <2>6, <4>1, <5>1
      <4> QED BY Zenon, <4>1 DEF TransferDone
    <3>4. ASSUME NEW u \in Targets, PullImage(u, c), held[<<u, c>>].mig = s
          PROVE  FALSE
      <4>1. u = t
        BY Zenon, <1>1, <1>4, <3>4 DEF IInv, HeldOK
      <4>2. tpc'[<<u, c>>] = "start"
        BY Zenon, <1>1, <3>4 DEF PullImage, Step, IInv, DataOK, TargetThreads
      <4> HIDE DEF t
      <4> QED BY Zenon, <2>5, <4>1, <4>2
    <3> QED BY Zenon, <1>5, <1>6, <1>7, <2>7, <3>1, <3>2, <3>3, <3>4
  <2>9. CASE ~mig[s].server[c]
    <3>1. EvacServers(s, c) /\ spc[x] = "evac"
      BY Zenon, <2>2, <2>9
    <3>2. ~mig[s].deleted
      BY Zenon, <1>1, <2>4, <3>1 DEF Owned
    <3>3. x \in image
      BY Zenon, <1>1, <1>2, <2>7, <2>9, <3>1, <3>2 DEF Images
    <3> QED BY Zenon, <3>1, <3>3 DEF EvacServers
  <2> QED BY Zenon, <2>8, <2>9
<1> QED BY Zenon, <1>8, <1>9

\* Before anything is deleted the images of the scaled down containers are there.
LEMMA LostInit == Init => LostInv
<1> SUFFICES ASSUME Init PROVE LostInv
  BY Zenon
<1>1. IInv /\ SourceOK
  BY Zenon, SplitInit DEF SplitInv
<1>2. \A s \in Sources :
         /\ mig[s] = NoMigration /\ pod[s] = "running"
         /\ \A n \in Nodes : cache[n][s] = NoMigration
  BY Zenon DEF Init, Pods
<1>3. /\ NoMigration.target = NoPod /\ ~NoMigration.ready /\ ~NoMigration.deleted
      /\ ~NoMigration.exists
      /\ \A c \in Containers :
            ~NoMigration.server[c] /\ NoMigration.phase[c] = "None"
  BY Zenon DEF NoMigration
<1>4. \A s \in Sources, c \in Containers :
         /\ spc[<<s, c>>] = "run" /\ evac[<<s, c>>] = "none"
         /\ sproc[<<s, c>>] = "scaledDown" => <<s, c>> \in image
  BY Zenon DEF Init, SourceThreads
<1>5. \A t \in Targets : pod[t] = "absent" /\ \A c \in Containers : tpc[<<t, c>>] = "idle"
  BY Zenon, PodsAssumption DEF Init, Pods, TargetThreads
<1>6. Seen
  BY <1>2, <1>3 DEF Seen, SeenOK
<1>7. Ordered
  BY ZenonT(30), <1>2, <1>3, <1>4 DEF Ordered
<1>8. Evacuated
  BY ZenonT(30), <1>4 DEF Evacuated
<1>9. Owned
  BY <1>2, <1>3, <1>5 DEF Owned
<1>10. Images
  BY Zenon, <1>2, <1>3, <1>4 DEF Images
<1>11. Restored
  BY Zenon, <1>2, <1>3, <1>5 DEF Restored
<1> QED BY Zenon, <1>1, <1>6, <1>7, <1>8, <1>9, <1>10, <1>11 DEF LostInv

\* A container that was evacuated from a deleted pod goes on from its checkpoint
\* in the pod that claimed its Migration, unless a wait timed out, a step failed
\* or a connection woke it up: for pods with one container, whatever the number
\* of pods and nodes, with live migration or not and with any of the faults.
THEOREM NothingLostCorrect ==
    ASSUME \E c \in Containers : Containers = {c}
    PROVE  Spec => []NothingLost
<1>1. LostInv => NothingLost
  <2> SUFFICES ASSUME LostInv, NEW s \in Sources, NEW t \in Targets,
                      NEW c \in Containers, spc[<<s, c>>] = "exited",
                      evac[<<s, c>>] # "none", held[<<t, c>>].mig = s,
                      tpc[<<t, c>>] = "started",
                      AutoGC => t \in mig[s].owners, <<s, c>> \notin gaveUp
               PROVE  ckpt[<<t, c>>] = s
    BY Zenon DEF NothingLost
  <2>1. IInv /\ Ordered /\ Evacuated /\ Restored
    BY Zenon DEF LostInv
  <2>2. s # NoPod /\ t # NoPod
    BY Zenon, PodsAssumption DEF Pods
  <2>3. mig[s].target = t
    BY Zenon, <2>1, <2>2 DEF IInv, HeldOK
  <2>4. mig[s].ready
    BY Zenon, <2>1 DEF Evacuated, Ordered
  <2>5. Keeps(s)
    BY Zenon, <2>2, <2>3 DEF Keeps
  <2> QED BY <2>1, <2>3, <2>4, <2>5 DEF Restored, Restore
<1>2. LostInv /\ [Next]_vars => LostInv'
  <2> SUFFICES ASSUME LostInv, [Next]_vars PROVE LostInv'
    BY Zenon
  <2>1. IInv' /\ SourceOK'
    BY Zenon, NextInvariant, SourceOKStep DEF LostInv
  <2> QED
    BY Zenon, <2>1, SeenStep, OrderedStep, EvacuatedStep, OwnedStep, ImagesStep,
       RestoredStep DEF LostInv
<1> QED BY <1>1, <1>2, LostInit, PTL DEF Spec


=============================================================================
