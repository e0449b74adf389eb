----------------------------- MODULE TaskProofs -----------------------------
(***************************************************************************)
(* Proofs about the task service, for every number of exec sessions and of *)
(* restores: exits are published once and the one of the init process      *)
(* last, the counter of sessions is exact, no send on the channel of       *)
(* handleInitExit blocks, and no Delete lets a container that is in use be *)
(* scaled down.                                                            *)
(***************************************************************************)
EXTENDS TaskService, TLAPS

USE DEF callVars, mapVars, execVars, loopVars, downVars, histVars, Goto,
        AddRunning, Publish, Reaped

-----------------------------------------------------------------------------
(* The invariants. *)

Channels == [buf : Seq(Int), cap : Int]
Taken    == [p : Procs, known : BOOLEAN]
Handled  == [p : Procs, step : {"handle", "count"}]

\* The conjuncts of TypeOK, with the types that it leaves out.
Flags == scaledDown \in BOOLEAN /\ timer \in BOOLEAN
CallsOK ==
    /\ call \in [Procs -> CallLabels]
    /\ life \in [Procs -> {"none", "alive", "dead"}]
    /\ home \in [Execs -> Inits]
    /\ containers \in Inits
    /\ down \in {"idle", "dump", "phase"}
SetsOK ==
    /\ running \in SUBSET Procs
    /\ early \in SUBSET Procs
    /\ waiters \in SUBSET Inits
    /\ checkpointed \in SUBSET Inits
    /\ started \in SUBSET Procs
    /\ swallowed \in SUBSET Procs
ExecsOK ==
    /\ runningExecs \in [Inits -> Int]
    /\ subscribers \in [Inits -> {NoChan} \cup Channels]
    /\ initExit \in [Inits -> BOOLEAN]
    /\ published \in [Procs -> Nat]
LoopsOK ==
    /\ exitChan \in Seq(Procs)
    /\ ec \in Seq(Procs)
    /\ wrapperExit \in {NoExit} \cup Taken
    /\ serviceExit \in {NoExit} \cup Handled
\* The exits of the processes in K, in some order.
Ordering(order, K) ==
    /\ order \in [1..Cardinality(K) -> K]
    /\ \A p \in K : \E k \in DOMAIN order : order[k] = p

\* What is counted here are sets of processes, which are finite: the sizes of
\* such sets, and that an order of one names each of its members once. It holds
\* by the assumption on the constants (CardinalsHold), and is stated with the
\* types because every step needs it.
Cardinals ==
    \A K \in SUBSET Procs :
        /\ Cardinality(K) \in Nat
        /\ Cardinality(K) = 0 => K = {}
        /\ \A p \in K : Cardinality(K \ {p}) = Cardinality(K) - 1
        /\ \A p \in Procs \ K : Cardinality(K \cup {p}) = Cardinality(K) + 1
        /\ \A order : Ordering(order, K) =>
              \A j, k \in 1..Cardinality(K) : order[j] = order[k] => j = k
Typed == Flags /\ CallsOK /\ SetsOK /\ ExecsOK /\ LoopsOK /\ Cardinals

\* The runc.Containers are restored one after the other, in the order of their
\* numbers, after the container has been started, and while no callback of the
\* timer is at work.
Order ==
    /\ call[0] \in {"none", "creating", "created", "start", "sent", "up", "failed"}
    /\ \A c \in Inits \ {0} :
          /\ c <= containers => call[c] = "up"
          /\ c = containers + 1 => call[c] \in {"none", "restored"}
          /\ c > containers + 1 => call[c] = "none"
    /\ \A e \in Execs :
          /\ call[e] \notin {"creating", "created", "restored"}
          /\ call[e] # "none" => call[0] = "up"
          /\ home[e] <= containers
    /\ \A c \in Inits : call[c] = "restored" =>
          call[0] = "up" /\ ~scaledDown /\ down = "idle"
    /\ containers > 0 \/ timer \/ scaledDown \/ down # "idle" => call[0] = "up"
    /\ down # "idle" => ~scaledDown

\* How far a call is, whether the process exists, and whether processExits
\* knows it.
Lives ==
    /\ \A c \in Inits : call[c] = "none" <=> life[c] = "none"
    /\ \A e \in Execs :
          /\ life[e] = "none" <=> e \notin started
          /\ call[e] \in {"sent", "count", "up"} => e \in started
          /\ e \in started => call[e] \in {"sent", "count", "up", "deleted"}
    /\ \A e \in running \cap Execs : call[e] \in {"up", "deleted"}
    /\ \A c \in running \cap Inits : call[c] \in {"created", "up", "failed"}
    /\ \A c \in Inits : life[c] = "alive" /\ call[c] = "up" => c \in running
    /\ \A p \in early : Subscribed(p)

\* Where the exit of a process can be.
In(s, p)    == \E k \in 1..Len(s) : s[k] = p
Distinct(s) == \A j, k \in 1..Len(s) : s[j] = s[k] => j = k
Queued(p)   == In(exitChan, p)
Held(p)     == wrapperExit # NoExit /\ wrapperExit.p = p
Passed(p)   == In(ec, p)
Serving(p)  == serviceExit # NoExit /\ serviceExit.p = p

Flying(p)   == Queued(p) \/ Held(p) \/ Passed(p)

\* An exit is in one place only.
OnePlace ==
    /\ Distinct(exitChan)
    /\ Distinct(ec)
    /\ \A p \in Procs : ~(Queued(p) /\ Held(p)) /\ ~(Queued(p) /\ Passed(p))
                           /\ ~(Held(p) /\ Passed(p))

\* An exit on its way to processExits is one of a dead process, and nobody has
\* dealt with it.
Untouched(p) ==
    /\ published[p] = 0 /\ ~Serving(p)
    /\ p \notin early /\ p \notin waiters /\ p \notin swallowed
    /\ p \in Inits => ~initExit[p]
OnItsWay == \A p \in Procs : Flying(p) => life[p] = "dead" /\ Untouched(p)

\* Those who deal with an exit exclude each other: a Start that has collected
\* it, processExits, a goroutine of handleInitExit, and the wrapper.
EarlyOK ==
    \A p \in early : /\ life[p] = "dead" /\ published[p] = 0 /\ ~Serving(p)
                     /\ p \notin waiters /\ p \notin swallowed
ServingOK ==
    \A p \in Procs : Serving(p) =>
        /\ life[p] = "dead" /\ p \notin waiters /\ p \notin swallowed
        /\ published[p] = IF serviceExit.step = "handle" THEN 0 ELSE 1
        /\ p \in Inits => serviceExit.step = "handle" /\ initExit[p]
        /\ p \in Execs => call[p] \in {"up", "deleted"}
WaitersOK == \A c \in waiters : published[c] = 0 /\ initExit[c]
PublishedOK ==
    \A p \in Procs : published[p] # 0 =>
        published[p] = 1 /\ life[p] = "dead" /\ p \notin swallowed
SwallowedOK == \A p \in swallowed : life[p] = "dead"
InitExitOK ==
    \A c \in Inits : initExit[c] => life[c] = "dead" /\ c \notin swallowed
SubscribersOK == \A c \in Inits : subscribers[c] # NoChan => c \in waiters
CountOK ==
    \A e \in Execs : call[e] = "count" => published[e] = 1 /\ ~Serving(e)
PublishedCalls ==
    \A e \in Execs : published[e] # 0 => call[e] \in {"count", "up", "deleted"}
Dealt == /\ EarlyOK /\ ServingOK /\ WaitersOK /\ PublishedOK /\ SwallowedOK
         /\ InitExitOK /\ SubscribersOK /\ CountOK

\* A runc.Container that was scaled down: its init process has exited, and the
\* wrapper keeps the exits of its sessions back.
Gone(c) == c < Current \/ (c = Current /\ (scaledDown \/ down = "phase"))
Scaled ==
    /\ \A c \in Inits : Gone(c) => life[c] = "dead"
    /\ \A e \in Execs \cap swallowed : Gone(home[e])

\* The sessions that runningExecs counts.
Counts(e) ==
    \/ call[e] \in {"start", "unknown", "sent", "count"}
    \/ /\ call[e] \in {"up", "deleted"} /\ e \in started
       /\ published[e] = 0 \/ Handling(e, "count")
Counted(c) == {e \in Execs : home[e] = c /\ Counts(e)}
Dropped(c) == c \in swallowed \/ \E e \in Execs \cap swallowed : home[e] = c
Exact == \A c \in Inits : ~Dropped(c) => runningExecs[c] = Cardinality(Counted(c))

\* The channel of handleInitExit holds the counts down to the current one.
Sends ==
    \A c \in Inits : subscribers[c] # NoChan /\ ~Dropped(c) =>
        LET buf == subscribers[c].buf  n == runningExecs[c] IN
        /\ subscribers[c].cap > 0
        /\ Len(buf) + n <= subscribers[c].cap
        /\ \A k \in 1..Len(buf) : buf[k] = n + Len(buf) - k

\* What holds whatever fails.
IInv == /\ Typed /\ Order /\ Lives /\ OnePlace /\ OnItsWay /\ Dealt
        /\ PublishedCalls /\ Scaled /\ Exact /\ Sends

\* When no scale down by killing meets a process that has exited, the wrapper
\* also keeps the exit of the init process of a runc.Container that was scaled
\* down back, and service never handles it.
KeptBack(c) ==
    \/ c \in swallowed
    \/ c \in running /\ c \in checkpointed /\ (Held(c) => wrapperExit.known)
GoneOK ==
    \A c \in Inits : Gone(c) =>
        published[c] = 0 /\ ~initExit[c] /\ ~Passed(c) /\ KeptBack(c)
Registered == down = "dump" /\ life[Current] = "alive" => Current \in checkpointed
Dumped == GoneOK /\ Registered

\* The exit of the init process is the last one of its runc.Container.
InitLast ==
    \A c \in Inits, e \in Execs :
        published[c] = 1 /\ home[e] = c /\ e \in started => published[e] = 1

DumpInv == IInv /\ Dumped /\ InitLast

\* An exit is published at most once, the one of a session after its start.
PublishedOnce ==
    /\ \A p \in Procs : published[p] <= 1
    /\ \A e \in Execs : published[e] = 1 => e \in started

-----------------------------------------------------------------------------
(* The channels of exits. *)

\* What Append does to the members of a channel.
LEMMA AppendIn ==
    ASSUME NEW S, NEW s \in Seq(S), NEW x \in S
    PROVE  /\ Append(s, x) \in Seq(S)
           /\ \A p : In(Append(s, x), p) <=> In(s, p) \/ p = x
           /\ Distinct(s) /\ ~In(s, x) => Distinct(Append(s, x))
<1> DEFINE t == Append(s, x)
<1>1. /\ t \in Seq(S) /\ Len(t) = Len(s) + 1 /\ Len(s) \in Nat
      /\ \A k \in 1..Len(s) : t[k] = s[k]
      /\ t[Len(s) + 1] = x
  OBVIOUS
<1>2. \A p : In(t, p) <=> In(s, p) \/ p = x
  <2> HIDE DEF t
  <2> QED BY <1>1 DEF In
<1>3. Distinct(s) /\ ~In(s, x) => Distinct(t)
  <2> HIDE DEF t
  <2> QED BY <1>1 DEF In, Distinct
<1> QED BY Zenon, <1>1, <1>2, <1>3

\* What a receive does to the members of a channel.
LEMMA TailIn ==
    ASSUME NEW S, NEW s \in Seq(S), s # <<>>
    PROVE  /\ Head(s) \in S /\ Tail(s) \in Seq(S) /\ In(s, Head(s))
           /\ Distinct(s) =>
                 /\ Distinct(Tail(s))
                 /\ \A p : In(Tail(s), p) <=> In(s, p) /\ p # Head(s)
<1> DEFINE t == Tail(s)
<1>1. /\ t \in Seq(S) /\ Len(t) = Len(s) - 1 /\ Len(s) \in Nat /\ Len(s) > 0
      /\ \A k \in 1..Len(t) : t[k] = s[k + 1]
      /\ Head(s) = s[1] /\ Head(s) \in S
  OBVIOUS
<1>2. In(s, Head(s))
  BY <1>1 DEF In
<1>3. ASSUME Distinct(s)
      PROVE  Distinct(t) /\ \A p : In(t, p) <=> In(s, p) /\ p # Head(s)
  <2> HIDE DEF t
  <2>1. Distinct(t)
    BY <1>1, <1>3 DEF Distinct
  <2>2. ASSUME NEW p, In(t, p) PROVE In(s, p) /\ p # Head(s)
    <3>1. PICK k \in 1..Len(t) : t[k] = p
      BY Zenon, <2>2 DEF In
    <3>2. k + 1 \in 1..Len(s) /\ s[k + 1] = p /\ 1 \in 1..Len(s) /\ k + 1 # 1
      BY <1>1, <3>1
    <3> QED BY Zenon, <1>1, <1>3, <3>2 DEF In, Distinct
  <2>3. ASSUME NEW p, In(s, p), p # Head(s) PROVE In(t, p)
    <3>1. PICK k \in 1..Len(s) : s[k] = p
      BY Zenon, <2>3 DEF In
    <3>2. k - 1 \in 1..Len(t) /\ t[k - 1] = p
      BY <1>1, <2>3, <3>1
    <3> QED BY Zenon, <3>2 DEF In
  <2> QED BY Zenon, <2>1, <2>2, <2>3
<1> QED BY Zenon, <1>1, <1>2, <1>3

\* What the exits of the processes in K do to the members of a channel: each
\* of them is delivered, and once.
LEMMA ConcatIn ==
    ASSUME NEW S, NEW s \in Seq(S), NEW K \in SUBSET S,
           Cardinality(K) \in Nat, NEW order, Ordering(order, K),
           \A j, k \in 1..Cardinality(K) : order[j] = order[k] => j = k
    PROVE  /\ s \o order \in Seq(S)
           /\ \A p : In(s \o order, p) <=> In(s, p) \/ p \in K
           /\ Distinct(s) /\ (\A p \in K : ~In(s, p)) => Distinct(s \o order)
<1> DEFINE n == Cardinality(K)
           t == s \o order
<1>1. n \in Nat
  BY Zenon
<1>2. order \in [1..n -> K] /\ (\A p \in K : \E k \in 1..n : order[k] = p)
  BY Zenon DEF Ordering
<1>3. \A j, k \in 1..n : order[j] = order[k] => j = k
  BY Zenon
<1>4. order \in Seq(S) /\ Len(order) = n
  <2> HIDE DEF n
  <2>1. order \in [1..n -> S]
    BY Zenon, <1>2
  <2> QED BY <1>1, <2>1
<1>5. /\ t \in Seq(S) /\ Len(t) = Len(s) + n /\ Len(s) \in Nat
      /\ \A k \in 1..Len(s) : t[k] = s[k]
      /\ \A k \in 1..n : t[Len(s) + k] = order[k]
  <2> HIDE DEF n
  <2> QED BY <1>1, <1>4
<1> HIDE DEF n, t
<1>6. ASSUME NEW k \in 1..Len(t), k \notin 1..Len(s)
      PROVE  k - Len(s) \in 1..n /\ t[k] = order[k - Len(s)]
  BY <1>1, <1>5, <1>6
<1>7. \A p : In(t, p) <=> In(s, p) \/ p \in K
  <2>1. ASSUME NEW p, In(t, p) PROVE In(s, p) \/ p \in K
    <3>1. PICK k \in 1..Len(t) : t[k] = p
      BY Zenon, <2>1 DEF In
    <3>2. CASE k \in 1..Len(s)
      BY Zenon, <1>5, <3>1, <3>2 DEF In
    <3>3. CASE k \notin 1..Len(s)
      BY Zenon, <1>2, <1>6, <3>1, <3>3
    <3> QED BY Zenon, <3>2, <3>3
  <2>2. ASSUME NEW p, In(s, p) PROVE In(t, p)
    BY <1>1, <1>5, <2>2 DEF In
  <2>3. ASSUME NEW p \in K PROVE In(t, p)
    <3>1. PICK k \in 1..n : order[k] = p
      BY Zenon, <1>2
    <3>2. Len(s) + k \in 1..Len(t)
      BY <1>1, <1>5
    <3>3. t[Len(s) + k] = p
      BY Zenon, <1>5, <3>1
    <3> QED BY Zenon, <3>2, <3>3 DEF In
  <2> QED BY Zenon, <2>1, <2>2, <2>3
<1>8. ASSUME Distinct(s), \A p \in K : ~In(s, p) PROVE Distinct(t)
  <2> SUFFICES ASSUME NEW j \in 1..Len(t), NEW k \in 1..Len(t), t[j] = t[k]
               PROVE  j = k
    BY Zenon DEF Distinct
  <2>1. CASE j \in 1..Len(s) /\ k \in 1..Len(s)
    BY Zenon, <1>5, <1>8, <2>1 DEF Distinct
  <2>2. CASE j \in 1..Len(s) /\ k \notin 1..Len(s)
    <3>1. t[k] \in K
      BY Zenon, <1>2, <1>6, <2>2
    <3>2. In(s, t[j])
      BY Zenon, <1>5, <2>2 DEF In
    <3> QED BY Zenon, <1>8, <3>1, <3>2
  <2>3. CASE j \notin 1..Len(s) /\ k \in 1..Len(s)
    <3>1. t[j] \in K
      BY Zenon, <1>2, <1>6, <2>3
    <3>2. In(s, t[k])
      BY Zenon, <1>5, <2>3 DEF In
    <3> QED BY Zenon, <1>8, <3>1, <3>2
  <2>4. CASE j \notin 1..Len(s) /\ k \notin 1..Len(s)
    <3>1. j - Len(s) = k - Len(s)
      BY Zenon, <1>3, <1>6, <2>4
    <3> QED BY <1>5, <3>1
  <2> QED BY Zenon, <2>1, <2>2, <2>3, <2>4
<1> QED BY Zenon, <1>5, <1>7, <1>8 DEF t

-----------------------------------------------------------------------------
(* Processes. *)

\* The first runc.Container is always there.
LEMMA ZeroInit == 0 \in Inits /\ 0 \in Procs
  BY TaskAssumption DEF Inits, Procs

\* Numbers are init processes, sessions are not.
LEMMA ProcKinds ==
    /\ Inits \subseteq Procs /\ Execs \subseteq Procs
    /\ \A p \in Procs : p \in Inits <=> p \notin Execs
    /\ \A c \in Inits : c \in Nat
  BY TaskAssumption DEF Inits, Procs

\* The container in use is one of the runc.Containers.
LEMMA CurrentInit == ASSUME CallsOK PROVE Current \in Inits
  BY Zenon DEF Current, CallsOK

-----------------------------------------------------------------------------
(* Types. *)

\* The flags of the container.
LEMMA FlagsStep == Flags /\ [Next]_vars => Flags'
<1> SUFFICES ASSUME Flags, [Next]_vars PROVE Flags'
  BY Zenon
<1> USE DEF Flags
<1>1. CASE Create \/ Created \/ StartInit \/ InitFails
  BY Zenon, <1>1 DEF Create, Created, StartInit, InitFails
<1>2. ASSUME NEW e \in Execs,
             Exec(e) \/ ExecAdded(e) \/ StartExec(e) \/ StartRefused(e)
               \/ ExecFails(e) \/ StartedCounts(e)
      PROVE  Flags'
  BY Zenon, <1>2 DEF Exec, ExecAdded, StartExec, StartRefused, ExecFails,
                     StartedCounts
<1>3. ASSUME NEW e \in Execs, Delete(e) PROVE Flags'
  BY Zenon, <1>3 DEF Delete
<1>4. ASSUME NEW p \in Procs, ProcessStarts(p) \/ Started(p) \/ Dies(p)
      PROVE  Flags'
  BY Zenon, <1>4 DEF ProcessStarts, Started, Dies
<1>5. ASSUME NEW c \in Inits, PostRestore(c) \/ HandleInitExit(c) \/ Waiter(c)
      PROVE  Flags'
  BY Zenon, <1>5 DEF PostRestore, HandleInitExit, Waiter
<1>6. CASE TimerFires \/ Dump \/ DumpFails \/ ScaledDown \/ Restored
  BY Zenon, <1>6 DEF TimerFires, Dump, DumpFails, ScaledDown, Restored
<1>7. CASE WrapperTakes \/ PreventExit \/ PassOn \/ ServiceTakes
  BY Zenon, <1>7 DEF WrapperTakes, PreventExit, PassOn, ServiceTakes
<1>8. ASSUME NEW e \in Execs, HandleProcessExit(e) PROVE Flags'
  BY Zenon, <1>8 DEF HandleProcessExit
<1>9. CASE UNCHANGED vars
  BY Zenon, <1>9 DEF vars
<1> QED
  BY Zenon, <1>1, <1>2, <1>3, <1>4, <1>5, <1>6, <1>7, <1>8, <1>9
     DEF Next, CallStep, WrapperStep, ServiceStep

\* The calls, the processes and the runc.Containers.
LEMMA CallsStep == CallsOK /\ [Next]_vars => CallsOK'
<1> SUFFICES ASSUME CallsOK, [Next]_vars PROVE CallsOK'
  BY Zenon
<1> USE ZeroInit DEF CallsOK, CallLabels
<1>1. CASE Create
  BY Zenon, <1>1 DEF Create
<1>2. CASE Created \/ StartInit \/ InitFails
  BY Zenon, <1>2 DEF Created, StartInit, InitFails, HandleStarted
<1>3. ASSUME NEW e \in Execs, Exec(e) \/ StartRefused(e) \/ Delete(e)
      PROVE  CallsOK'
  BY Zenon, <1>3, ProcKinds DEF Exec, StartRefused, Delete
<1>4. ASSUME NEW e \in Execs, ExecAdded(e) \/ StartExec(e) PROVE CallsOK'
  BY <1>4, ProcKinds DEF ExecAdded, StartExec
<1>5. ASSUME NEW e \in Execs, ExecFails(e) \/ StartedCounts(e) PROVE CallsOK'
  BY Zenon, <1>5, ProcKinds DEF ExecFails, StartedCounts
<1>6. ASSUME NEW p \in Procs, ProcessStarts(p) \/ Started(p) \/ Dies(p)
      PROVE  CallsOK'
  BY Zenon, <1>6 DEF ProcessStarts, Started, HandleStarted, Dies
<1>7. ASSUME NEW c \in Inits, PostRestore(c) PROVE CallsOK'
  BY Zenon, <1>7, ProcKinds DEF PostRestore
<1>8. ASSUME NEW c \in Inits, HandleInitExit(c) PROVE CallsOK'
  BY Zenon, <1>8 DEF HandleInitExit
<1>9. ASSUME NEW c \in Inits, Waiter(c) PROVE CallsOK'
  BY Zenon, <1>9 DEF Waiter
<1>10. CASE TimerFires \/ DumpFails \/ ScaledDown
  BY Zenon, <1>10 DEF TimerFires, DumpFails, ScaledDown
<1>11. CASE Dump
  BY Zenon, <1>11 DEF Dump
<1>12. CASE Restored
  BY Zenon, <1>12, ProcKinds DEF Restored
<1>13. CASE WrapperTakes \/ PreventExit \/ PassOn \/ ServiceTakes
  BY Zenon, <1>13 DEF WrapperTakes, PreventExit, PassOn, ServiceTakes
<1>14. ASSUME NEW e \in Execs, HandleProcessExit(e) PROVE CallsOK'
  BY Zenon, <1>14 DEF HandleProcessExit
<1>15. CASE UNCHANGED vars
  BY Zenon, <1>15 DEF vars
<1> QED
  BY Zenon, <1>1, <1>2, <1>3, <1>4, <1>5, <1>6, <1>7, <1>8, <1>9, <1>10,
     <1>11, <1>12, <1>13, <1>14, <1>15
     DEF Next, CallStep, WrapperStep, ServiceStep

\* The sets of processes.
LEMMA SetsStep == LoopsOK /\ SetsOK /\ CallsOK /\ [Next]_vars => SetsOK'
<1> SUFFICES ASSUME LoopsOK, SetsOK, CallsOK, [Next]_vars PROVE SetsOK'
  BY Zenon
<1> USE ZeroInit DEF SetsOK
<1>1. CASE Create
  BY Zenon, <1>1 DEF Create
<1>2. CASE Created \/ StartInit \/ InitFails
  BY Zenon, <1>2 DEF Created, StartInit, InitFails, HandleStarted
<1>3. ASSUME NEW e \in Execs,
             Exec(e) \/ ExecAdded(e) \/ StartExec(e) \/ StartRefused(e)
               \/ ExecFails(e) \/ StartedCounts(e) \/ Delete(e)
      PROVE  SetsOK'
  BY Zenon, <1>3 DEF Exec, ExecAdded, StartExec, StartRefused, ExecFails,
                     StartedCounts, Delete
<1>4. ASSUME NEW p \in Procs, ProcessStarts(p) \/ Started(p) \/ Dies(p)
      PROVE  SetsOK'
  BY Zenon, <1>4 DEF ProcessStarts, Started, HandleStarted, Dies
<1>5. ASSUME NEW c \in Inits, PostRestore(c) \/ HandleInitExit(c) \/ Waiter(c)
      PROVE  SetsOK'
  <2>1. UNCHANGED <<early, checkpointed, started, swallowed>>
    BY Zenon, <1>5 DEF PostRestore, HandleInitExit, Waiter
  <2>2. running' \in {running, running \cup {c}}
    BY Zenon, <1>5 DEF PostRestore, HandleInitExit, Waiter
  <2>3. waiters' \in {waiters, waiters \cup {c}, waiters \ {c}}
    BY Zenon, <1>5 DEF PostRestore, HandleInitExit, Waiter
  <2> QED BY Zenon, <2>1, <2>2, <2>3, ProcKinds
<1>6. CASE TimerFires \/ DumpFails
  BY Zenon, <1>6, CurrentInit DEF TimerFires, DumpFails
<1>7. CASE Dump \/ ScaledDown \/ Restored
  BY Zenon, <1>7 DEF Dump, ScaledDown, Restored
<1>8. CASE WrapperTakes \/ PassOn
  BY Zenon, <1>8 DEF WrapperTakes, PassOn
<1>9. CASE PreventExit
  BY Zenon, <1>9 DEF PreventExit, LoopsOK, Taken
<1>10. CASE ServiceTakes
  BY <1>10, TailIn DEF ServiceTakes, LoopsOK
<1>11. ASSUME NEW e \in Execs, HandleProcessExit(e) PROVE SetsOK'
  BY Zenon, <1>11 DEF HandleProcessExit
<1>12. CASE UNCHANGED vars
  BY Zenon, <1>12 DEF vars
<1> QED
  BY Zenon, <1>1, <1>2, <1>3, <1>4, <1>5, <1>6, <1>7, <1>8, <1>9, <1>10,
     <1>11, <1>12
     DEF Next, CallStep, WrapperStep, ServiceStep

\* A count down keeps the types of the counter and of the channel.
LEMMA CountDownOK ==
    ASSUME ExecsOK, NEW c \in Inits, CountDown(c)
    PROVE  /\ runningExecs' \in [Inits -> Int]
           /\ subscribers' \in [Inits -> {NoChan} \cup Channels]
<1>1. runningExecs' \in [Inits -> Int] /\ runningExecs[c] - 1 \in Int
  BY DEF ExecsOK, CountDown
<1>2. CASE subscribers[c] = NoChan
  BY Zenon, <1>1, <1>2 DEF ExecsOK, CountDown
<1>3. CASE subscribers[c] # NoChan
  <2>1. subscribers[c] \in Channels
    BY Zenon, <1>3 DEF ExecsOK
  <2>2. Append(subscribers[c].buf, runningExecs[c] - 1) \in Seq(Int)
    BY <1>1, <2>1 DEF Channels
  <2>3. subscribers' = [subscribers EXCEPT
            ![c].buf = Append(subscribers[c].buf, runningExecs[c] - 1)]
    BY Zenon, <1>3 DEF CountDown
  <2> QED BY Zenon, <1>1, <2>1, <2>2, <2>3 DEF ExecsOK, Channels
<1> QED BY Zenon, <1>2, <1>3

\* The counters, their channels and the histories.
LEMMA ExecsStep == Typed /\ [Next]_vars => ExecsOK'
<1> SUFFICES ASSUME Typed, [Next]_vars PROVE ExecsOK'
  BY Zenon
<1> USE DEF Typed
<1>1. CASE Create
  BY Zenon, <1>1 DEF Create, ExecsOK
<1>2. CASE Created \/ StartInit \/ InitFails
  BY <1>2, ZeroInit DEF Created, StartInit, InitFails, HandleStarted, ExecsOK
<1>3. ASSUME NEW e \in Execs,
             Exec(e) \/ ExecAdded(e) \/ StartRefused(e) \/ Delete(e)
      PROVE  ExecsOK'
  BY Zenon, <1>3 DEF Exec, ExecAdded, StartRefused, Delete, ExecsOK
<1>4. ASSUME NEW e \in Execs, StartExec(e) PROVE ExecsOK'
  BY <1>4 DEF StartExec, ExecsOK, CallsOK
<1>5. ASSUME NEW e \in Execs, ExecFails(e) \/ StartedCounts(e) PROVE ExecsOK'
  <2>1. home[e] \in Inits /\ CountDown(home[e]) /\ UNCHANGED <<initExit, published>>
    BY Zenon, <1>5 DEF ExecFails, StartedCounts, CallsOK
  <2> QED BY Zenon, <2>1, CountDownOK DEF ExecsOK
<1>6. ASSUME NEW p \in Procs, ProcessStarts(p) \/ Dies(p) PROVE ExecsOK'
  BY Zenon, <1>6 DEF ProcessStarts, Dies, ExecsOK
<1>7. ASSUME NEW p \in Procs, Started(p) PROVE ExecsOK'
  BY <1>7 DEF Started, HandleStarted, ExecsOK
<1>8. ASSUME NEW c \in Inits, PostRestore(c) PROVE ExecsOK'
  BY Zenon, <1>8 DEF PostRestore, ExecsOK
<1>9. ASSUME NEW c \in Inits, HandleInitExit(c) PROVE ExecsOK'
  <2>1. <<>> \in Seq(Int)
    OBVIOUS
  <2>2. UNCHANGED <<runningExecs, initExit>>
    BY Zenon, <1>9 DEF HandleInitExit
  <2>3. \/ Publish(c) /\ UNCHANGED subscribers
        \/ /\ subscribers' = [subscribers EXCEPT
                  ![c] = [buf |-> <<>>, cap |-> runningExecs[c]]]
           /\ UNCHANGED published
    BY Zenon, <1>9 DEF HandleInitExit
  <2>4. CASE Publish(c) /\ UNCHANGED subscribers
    BY <2>2, <2>4, ProcKinds DEF ExecsOK
  <2>5. CASE /\ subscribers' = [subscribers EXCEPT
                  ![c] = [buf |-> <<>>, cap |-> runningExecs[c]]]
             /\ UNCHANGED published
    <3>1. [buf |-> <<>>, cap |-> runningExecs[c]] \in Channels
      BY Zenon, <2>1 DEF ExecsOK, Channels
    <3> QED BY Zenon, <2>2, <2>5, <3>1 DEF ExecsOK
  <2> QED BY Zenon, <2>3, <2>4, <2>5
<1>10. ASSUME NEW c \in Inits, Waiter(c) PROVE ExecsOK'
  <2>1. UNCHANGED initExit
    BY Zenon, <1>10 DEF Waiter
  <2>2. CASE Head(subscribers[c].buf) = 0
    <3>1. /\ Publish(c)
          /\ subscribers' = [subscribers EXCEPT ![c] = NoChan]
          /\ runningExecs' = [runningExecs EXCEPT ![c] = 0]
      BY Zenon, <1>10, <2>2 DEF Waiter
    <3> QED BY <2>1, <3>1, ProcKinds DEF ExecsOK
  <2>3. CASE Head(subscribers[c].buf) # 0
    <3>1. subscribers[c] \in Channels /\ subscribers[c].buf # <<>>
      BY Zenon, <1>10 DEF Waiter, ExecsOK
    <3>2. Tail(subscribers[c].buf) \in Seq(Int)
      BY <3>1 DEF Channels
    <3>3. /\ subscribers' = [subscribers EXCEPT ![c].buf = Tail(subscribers[c].buf)]
          /\ UNCHANGED <<published, runningExecs>>
      BY Zenon, <1>10, <2>3 DEF Waiter
    <3> QED BY Zenon, <2>1, <3>1, <3>2, <3>3 DEF ExecsOK, Channels
  <2> QED BY Zenon, <2>2, <2>3
<1>11. CASE TimerFires \/ Dump \/ DumpFails \/ ScaledDown \/ Restored
  BY Zenon, <1>11 DEF TimerFires, Dump, DumpFails, ScaledDown, Restored, ExecsOK
<1>12. CASE WrapperTakes \/ PassOn
  BY Zenon, <1>12 DEF WrapperTakes, PassOn, ExecsOK
<1>13. CASE PreventExit
  <2>1. Container(wrapperExit.p) \in Inits
    BY Zenon, <1>13, ProcKinds DEF PreventExit, LoopsOK, Taken, Container, CallsOK
  <2> QED BY <1>13, <2>1 DEF PreventExit, ExecsOK
<1>14. CASE ServiceTakes
  <2>1. UNCHANGED <<runningExecs, subscribers, published>>
    BY Zenon, <1>14 DEF ServiceTakes
  <2>2. initExit' \in [Inits -> BOOLEAN]
    BY Zenon, <1>14 DEF ServiceTakes, ExecsOK
  <2> QED BY Zenon, <2>1, <2>2 DEF ExecsOK
<1>15. ASSUME NEW e \in Execs, HandleProcessExit(e) PROVE ExecsOK'
  <2>1. CASE Handling(e, "handle")
    BY <1>15, <2>1, ProcKinds DEF HandleProcessExit, Handling, ExecsOK
  <2>2. CASE Handling(e, "count")
    <3>1. home[e] \in Inits /\ CountDown(home[e]) /\ UNCHANGED <<initExit, published>>
      BY Zenon, <1>15, <2>2 DEF HandleProcessExit, Handling, CallsOK
    <3> QED BY Zenon, <3>1, CountDownOK DEF ExecsOK
  <2> QED BY Zenon, <1>15, <2>1, <2>2 DEF HandleProcessExit
<1>16. CASE UNCHANGED vars
  BY Zenon, <1>16 DEF vars, ExecsOK
<1> QED
  BY Zenon, <1>1, <1>2, <1>3, <1>4, <1>5, <1>6, <1>7, <1>8, <1>9, <1>10,
     <1>11, <1>12, <1>13, <1>14, <1>15, <1>16
     DEF Next, CallStep, WrapperStep, ServiceStep

\* The exits in the channels and in the loops.
LEMMA LoopsStep == Typed /\ [Next]_vars => LoopsOK'
<1> SUFFICES ASSUME Typed, [Next]_vars PROVE LoopsOK'
  BY Zenon
<1> USE DEF Typed
<1>1. CASE Create \/ Created \/ StartInit \/ InitFails
  BY Zenon, <1>1 DEF Create, Created, StartInit, InitFails, LoopsOK
<1>2. ASSUME NEW e \in Execs,
             Exec(e) \/ ExecAdded(e) \/ StartExec(e) \/ StartRefused(e)
               \/ ExecFails(e) \/ StartedCounts(e) \/ Delete(e)
      PROVE  LoopsOK'
  BY Zenon, <1>2 DEF Exec, ExecAdded, StartExec, StartRefused, ExecFails,
                     StartedCounts, Delete, LoopsOK
<1>3. ASSUME NEW p \in Procs, ProcessStarts(p) \/ Started(p) PROVE LoopsOK'
  BY Zenon, <1>3 DEF ProcessStarts, Started, LoopsOK
<1>4. ASSUME NEW p \in Procs, Dies(p) PROVE LoopsOK'
  BY Zenon, <1>4, AppendIn DEF Dies, LoopsOK
<1>5. ASSUME NEW c \in Inits, PostRestore(c) \/ Waiter(c) PROVE LoopsOK'
  BY Zenon, <1>5 DEF PostRestore, Waiter, LoopsOK
<1>6. ASSUME NEW c \in Inits, HandleInitExit(c) PROVE LoopsOK'
  <2> DEFINE K == {e \in Execs : home[e] = c /\ life[e] = "alive"}
  <2>1. PICK order : Ordering(order, K) /\ exitChan' = exitChan \o order
    BY Zenon, <1>6 DEF HandleInitExit, Ordering
  <2>2. K \in SUBSET Procs
    BY Zenon DEF Procs
  <2>3. exitChan' \in Seq(Procs)
    <3> HIDE DEF K
    <3>1. /\ Cardinality(K) \in Nat
          /\ \A j, k \in 1..Cardinality(K) : order[j] = order[k] => j = k
      BY Zenon, <2>1, <2>2 DEF Cardinals
    <3> QED BY Zenon, <2>1, <2>2, <3>1, ConcatIn DEF LoopsOK
  <2>4. serviceExit' = NoExit /\ UNCHANGED <<ec, wrapperExit>>
    BY Zenon, <1>6 DEF HandleInitExit
  <2> QED BY Zenon, <2>3, <2>4 DEF LoopsOK
<1>7. CASE TimerFires \/ DumpFails \/ ScaledDown \/ Restored
  BY Zenon, <1>7 DEF TimerFires, DumpFails, ScaledDown, Restored, LoopsOK
<1>8. CASE Dump
  <2> DEFINE K == {p \in Procs : life[p] = "alive"}
  <2>1. PICK order : Ordering(order, K) /\ exitChan' = exitChan \o order
    BY Zenon, <1>8 DEF Dump, Ordering
  <2>2. K \in SUBSET Procs
    BY Zenon
  <2>3. exitChan' \in Seq(Procs)
    <3> HIDE DEF K
    <3>1. /\ Cardinality(K) \in Nat
          /\ \A j, k \in 1..Cardinality(K) : order[j] = order[k] => j = k
      BY Zenon, <2>1, <2>2 DEF Cardinals
    <3> QED BY Zenon, <2>1, <2>2, <3>1, ConcatIn DEF LoopsOK
  <2>4. UNCHANGED <<serviceExit, ec, wrapperExit>>
    BY Zenon, <1>8 DEF Dump
  <2> QED BY Zenon, <2>3, <2>4 DEF LoopsOK
<1>9. CASE WrapperTakes
  BY <1>9, TailIn DEF WrapperTakes, LoopsOK, Taken
<1>10. CASE PreventExit
  BY Zenon, <1>10 DEF PreventExit, LoopsOK
<1>11. CASE PassOn
  BY Zenon, <1>11, AppendIn DEF PassOn, LoopsOK, Taken
<1>12. CASE ServiceTakes
  BY Zenon, <1>12, TailIn DEF ServiceTakes, LoopsOK, Handled
<1>13. ASSUME NEW e \in Execs, HandleProcessExit(e) PROVE LoopsOK'
  BY Zenon, <1>13 DEF HandleProcessExit, Handling, LoopsOK, Handled
<1>14. CASE UNCHANGED vars
  BY Zenon, <1>14 DEF vars, LoopsOK
<1> QED
  BY Zenon, <1>1, <1>2, <1>3, <1>4, <1>5, <1>6, <1>7, <1>8, <1>9, <1>10,
     <1>11, <1>12, <1>13, <1>14
     DEF Next, CallStep, WrapperStep, ServiceStep

\* All of them.
LEMMA TypedStep == Typed /\ [Next]_vars => Typed'
<1>1. Cardinals => Cardinals'
  BY Zenon DEF Cardinals, Ordering
<1> QED
  BY Zenon, <1>1, FlagsStep, CallsStep, SetsStep, ExecsStep, LoopsStep DEF Typed

-----------------------------------------------------------------------------
(* The calls, the processes and the containers. *)

\* The container in use is the last one that was restored.
LEMMA CurrentIs ==
    ASSUME CallsOK, Order
    PROVE  /\ Current \in Inits
           /\ \A c \in Inits : call[c] = "restored" =>
                 Current = c /\ c = containers + 1
           /\ (\A c \in Inits : call[c] # "restored") => Current = containers
           /\ containers <= Current
           /\ \A c \in Inits : call[c] # "none" => c <= Current
<1>1. Current \in Inits
  BY Zenon, CurrentInit
<1>2. ASSUME NEW c \in Inits, call[c] = "restored" PROVE c = containers + 1
  BY <1>2, ProcKinds DEF CallsOK, Order
<1>3. CASE \E c \in Inits : call[c] = "restored"
  <2>1. Current = containers + 1
    BY Zenon, <1>2, <1>3 DEF Current
  <2>2. \A c \in Inits : call[c] # "none" => c <= containers + 1
    BY ProcKinds, ZeroInit DEF Order, CallsOK
  <2>3. containers \in Nat
    BY Zenon, ProcKinds DEF CallsOK
  <2> QED BY <1>1, <1>2, <1>3, <2>1, <2>2, <2>3
<1>4. CASE ~\E c \in Inits : call[c] = "restored"
  <2>1. Current = containers
    BY Zenon, <1>4 DEF Current
  <2> QED BY <1>1, <1>4, <2>1, ProcKinds, ZeroInit DEF Order, CallsOK
<1> QED BY Zenon, <1>3, <1>4

\* Restores come one after the other, each after a scale down that is over.
LEMMA OrderStep == Typed /\ Order /\ [Next]_vars => Order'
<1> SUFFICES ASSUME Typed, Order, [Next]_vars PROVE Order'
  BY Zenon
<1> USE ZeroInit, ProcKinds DEF Typed, CallsOK, Order
<1>1. CASE Create
  BY <1>1 DEF Create
<1>2. CASE Created \/ StartInit \/ InitFails
  BY <1>2 DEF Created, StartInit, InitFails, HandleStarted
<1>3. ASSUME NEW e \in Execs, Exec(e) PROVE Order'
  BY Zenon, <1>3 DEF Exec
<1>4. ASSUME NEW e \in Execs, ExecAdded(e) PROVE Order'
  BY <1>4 DEF ExecAdded
<1>5. ASSUME NEW e \in Execs, StartExec(e) PROVE Order'
  BY <1>5 DEF StartExec
<1>6. ASSUME NEW e \in Execs, StartRefused(e) \/ ExecFails(e) \/ StartedCounts(e)
      PROVE  Order'
  BY <1>6 DEF StartRefused, ExecFails, StartedCounts
<1>7. ASSUME NEW e \in Execs, Delete(e) PROVE Order'
  BY <1>7 DEF Delete
<1>8. ASSUME NEW p \in Procs, ProcessStarts(p) PROVE Order'
  BY <1>8 DEF ProcessStarts
<1>9. ASSUME NEW p \in Procs, Started(p) PROVE Order'
  <2>1. CASE p = 0
    BY <1>9, <2>1 DEF Started, HandleStarted
  <2>2. CASE p \in Execs
    BY <1>9, <2>2 DEF Started, HandleStarted
  <2> QED BY <1>9, <2>1, <2>2 DEF Started, HandleStarted
<1>10. ASSUME NEW c \in Inits, PostRestore(c) PROVE Order'
  <2>1. c = containers + 1 /\ call[0] = "up" /\ down = "idle" /\ ~scaledDown
    BY <1>10 DEF PostRestore
  <2>2. /\ call' = [call EXCEPT ![c] = "up"] /\ containers' = c
        /\ UNCHANGED <<home, scaledDown, down>>
    BY Zenon, <1>10 DEF PostRestore
  <2>3. call'[c] = "up" /\ \A q \in Procs : q # c => call'[q] = call[q]
    BY <2>2
  <2>4. call'[0] = "up" /\ \A d \in Inits : call'[d] # "restored"
    BY <2>1, <2>3
  <2>5. \A d \in Inits \ {0} :
           /\ d <= c => call'[d] = "up"
           /\ d > c => call'[d] = "none"
    BY <2>1, <2>3
  <2>6. ASSUME NEW e \in Execs PROVE call'[e] = call[e] /\ home'[e] <= c
    <3>1. e \in Procs /\ e # c
      OBVIOUS
    <3>2. home[e] \in Nat /\ containers \in Nat /\ home[e] <= containers
      BY Zenon
    <3> QED BY <2>1, <2>2, <2>3, <3>1, <3>2
  <2> QED BY <2>1, <2>2, <2>4, <2>5, <2>6
<1>11. CASE TimerFires \/ Dump \/ DumpFails \/ ScaledDown
  <2>1. UNCHANGED <<call, containers, home>>
    BY Zenon, <1>11 DEF TimerFires, Dump, DumpFails, ScaledDown
  <2>2. call[0] = "up" /\ \A c \in Inits : call[c] # "restored"
    BY Zenon, <1>11 DEF TimerFires, Dump, DumpFails, ScaledDown
  <2>3. down' # "idle" => ~scaledDown'
    BY Zenon, <1>11 DEF TimerFires, Dump, DumpFails, ScaledDown
  <2> QED BY Zenon, <2>1, <2>2, <2>3
<1>12. CASE Restored
  BY <1>12 DEF Restored
<1>13. CASE \/ WrapperTakes \/ PreventExit \/ PassOn \/ ServiceTakes
            \/ \E p \in Procs : Dies(p)
            \/ \E c \in Inits : HandleInitExit(c) \/ Waiter(c)
            \/ \E e \in Execs : HandleProcessExit(e)
            \/ UNCHANGED vars
  <2>1. UNCHANGED <<call, containers, home, scaledDown, down, timer>>
    BY Zenon, <1>13 DEF WrapperTakes, PreventExit, PassOn, ServiceTakes, Dies,
         HandleInitExit, Waiter, HandleProcessExit, vars
  <2> QED BY Zenon, <2>1
<1> QED
  BY Zenon, <1>1, <1>2, <1>3, <1>4, <1>5, <1>6, <1>7, <1>8, <1>9, <1>10,
     <1>11, <1>12, <1>13
     DEF Next, CallStep, WrapperStep, ServiceStep

\* running holds the processes that are up, until their exit is handled or
\* kept back.
LEMMA LivesStep ==
    Typed /\ Order /\ Lives /\ OnItsWay /\ Dealt /\ [Next]_vars => Lives'
<1> SUFFICES ASSUME Typed, Order, Lives, OnItsWay, Dealt, [Next]_vars
             PROVE  Lives'
  BY Zenon
<1> USE ZeroInit, ProcKinds DEF Typed, CallsOK, SetsOK, Lives, Subscribed
<1>1. CASE Create
  BY <1>1 DEF Create
<1>2. CASE Created
  BY <1>2 DEF Created, HandleStarted
<1>3. CASE StartInit
  BY <1>3 DEF StartInit
<1>4. CASE InitFails
  BY <1>4 DEF InitFails, HandleStarted
<1>5. ASSUME NEW e \in Execs, Exec(e) \/ ExecAdded(e) PROVE Lives'
  BY <1>5 DEF Exec, ExecAdded
<1>6. ASSUME NEW e \in Execs, StartExec(e) \/ StartRefused(e) PROVE Lives'
  BY <1>6 DEF StartExec, StartRefused
<1>7. ASSUME NEW e \in Execs, ExecFails(e) PROVE Lives'
  <2>1. /\ call[e] \in {"unknown", "start"} /\ call' = [call EXCEPT ![e] = "failed"]
        /\ UNCHANGED <<life, started, running, early>>
    BY Zenon, <1>7 DEF ExecFails
  <2>2. e \notin early
    BY Zenon, <2>1 DEF Dealt, EarlyOK
  <2> QED BY <2>1, <2>2
<1>8. ASSUME NEW e \in Execs, StartedCounts(e) PROVE Lives'
  BY <1>8 DEF StartedCounts
<1>9. ASSUME NEW e \in Execs, Delete(e) PROVE Lives'
  BY <1>9 DEF Delete
<1>10. ASSUME NEW p \in Procs, ProcessStarts(p) PROVE Lives'
  BY <1>10 DEF ProcessStarts
<1>11. ASSUME NEW p \in Procs, Started(p) PROVE Lives'
  <2>1. /\ call[p] = "sent" /\ p \in {0} \cup Execs
        /\ UNCHANGED <<life, started>>
    BY <1>11 DEF Started, HandleStarted, Order
  <2>2. CASE p \notin early
    <3>1. /\ call' = [call EXCEPT ![p] = "up"] /\ running' = running \cup {p}
          /\ UNCHANGED early
      BY Zenon, <1>11, <2>2 DEF Started, HandleStarted
    <3> QED BY <2>1, <2>2, <3>1
  <2>3. CASE p \in early
    <3>1. /\ call' = [call EXCEPT ![p] = IF p \in Execs THEN "count" ELSE "up"]
          /\ early' = early \ {p} /\ UNCHANGED running
      BY Zenon, <1>11, <2>3 DEF Started, HandleStarted
    <3>2. life[p] = "dead"
      BY Zenon, <2>3 DEF Dealt, EarlyOK
    <3> QED BY <2>1, <3>1, <3>2
  <2> QED BY Zenon, <2>2, <2>3
<1>12. ASSUME NEW p \in Procs, Dies(p) PROVE Lives'
  BY <1>12 DEF Dies
<1>13. ASSUME NEW c \in Inits, PostRestore(c) PROVE Lives'
  BY <1>13 DEF PostRestore
<1>14. ASSUME NEW c \in Inits, HandleInitExit(c) PROVE Lives'
  BY Zenon, <1>14 DEF HandleInitExit
<1>15. CASE Dump
  BY Zenon, <1>15 DEF Dump
<1>16. CASE Restored
  BY <1>16 DEF Restored
<1>17. CASE PreventExit
  <2>1. life[wrapperExit.p] = "dead"
    BY Zenon, <1>17 DEF PreventExit, OnItsWay, Flying, Held, LoopsOK, Taken
  <2> QED BY Zenon, <1>17, <2>1 DEF PreventExit
<1>18. CASE ServiceTakes
  <2>1. Head(ec) \in Procs /\ life[Head(ec)] = "dead"
    BY Zenon, <1>18, TailIn DEF ServiceTakes, OnItsWay, Flying, Passed, LoopsOK
  <2> QED BY Zenon, <1>18, <2>1 DEF ServiceTakes
<1>19. CASE \/ TimerFires \/ DumpFails \/ ScaledDown \/ WrapperTakes \/ PassOn
            \/ \E c \in Inits : Waiter(c)
            \/ \E e \in Execs : HandleProcessExit(e)
            \/ UNCHANGED vars
  <2>1. UNCHANGED <<call, life, started, running, early>>
    BY Zenon, <1>19 DEF TimerFires, DumpFails, ScaledDown, WrapperTakes, PassOn,
         Waiter, HandleProcessExit, vars
  <2> QED BY Zenon, <2>1
<1> QED
  BY Zenon, <1>1, <1>2, <1>3, <1>4, <1>5, <1>6, <1>7, <1>8, <1>9, <1>10,
     <1>11, <1>12, <1>13, <1>14, <1>15, <1>16, <1>17, <1>18, <1>19
     DEF Next, CallStep, WrapperStep, ServiceStep

-----------------------------------------------------------------------------
(* The way of an exit. *)

\* Nobody has to do with the exit of a process that is alive or does not exist.
LEMMA NoExitYet ==
    ASSUME Typed, OnItsWay, Dealt, NEW p \in Procs, life[p] # "dead"
    PROVE  ~Flying(p) /\ Untouched(p)
<1>1. ~Flying(p)
  BY Zenon DEF OnItsWay
<1>2. p \notin early /\ p \notin swallowed /\ ~Serving(p) /\ published[p] = 0
  BY Zenon DEF Dealt, EarlyOK, SwallowedOK, ServingOK, PublishedOK
<1>3. p \in Inits => ~initExit[p]
  BY Zenon DEF Dealt, InitExitOK
<1>4. p \notin waiters
  BY Zenon, <1>3 DEF Dealt, WaitersOK, Typed, SetsOK
<1> QED BY Zenon, <1>1, <1>2, <1>3, <1>4 DEF Untouched

\* The exits of processes that were alive are delivered once each.
LEMMA Delivered ==
    ASSUME Typed, OnePlace, OnItsWay, NEW K \in SUBSET Procs,
           \A p \in K : life[p] = "alive",
           NEW order, Ordering(order, K), exitChan' = exitChan \o order
    PROVE  Distinct(exitChan)' /\ \A p \in Procs : Queued(p)' <=> Queued(p) \/ p \in K
<1>1. /\ exitChan \in Seq(Procs) /\ Cardinality(K) \in Nat
      /\ \A j, k \in 1..Cardinality(K) : order[j] = order[k] => j = k
  BY Zenon DEF Typed, LoopsOK, Cardinals
<1>2. \A p \in K : ~In(exitChan, p)
  BY Zenon DEF OnItsWay, Flying, Queued
<1>3. Distinct(exitChan)
  BY Zenon DEF OnePlace
<1>4. /\ Distinct(exitChan \o order)
      /\ \A p : In(exitChan \o order, p) <=> In(exitChan, p) \/ p \in K
  BY Zenon, <1>1, <1>2, <1>3, ConcatIn
<1> QED BY Zenon, <1>4 DEF Queued

\* A process that dies by itself.
LEMMA DiesQueues ==
    ASSUME Typed, OnePlace, OnItsWay, NEW p \in Procs, Dies(p)
    PROVE  Distinct(exitChan)' /\ \A q \in Procs : Queued(q)' <=> Queued(q) \/ q = p
<1>1. exitChan \in Seq(Procs) /\ Distinct(exitChan)
  BY Zenon DEF Typed, LoopsOK, OnePlace
<1>2. ~In(exitChan, p)
  BY Zenon DEF Dies, OnItsWay, Flying, Queued
<1>3. exitChan' = Append(exitChan, p)
  BY Zenon DEF Dies
<1>4. /\ Distinct(Append(exitChan, p))
      /\ \A q : In(Append(exitChan, p), q) <=> In(exitChan, q) \/ q = p
  BY Zenon, <1>1, <1>2, AppendIn
<1> QED BY Zenon, <1>3, <1>4 DEF Queued

\* The processes that the dump kills.
LEMMA DumpQueues ==
    ASSUME Typed, OnePlace, OnItsWay, Dump
    PROVE  /\ Distinct(exitChan)'
           /\ \A p \in Procs : Queued(p)' <=> Queued(p) \/ life[p] = "alive"
<1> DEFINE K == {p \in Procs : life[p] = "alive"}
<1>1. PICK order : Ordering(order, K) /\ exitChan' = exitChan \o order
  BY Zenon DEF Dump, Ordering
<1>2. K \in SUBSET Procs /\ \A p \in K : life[p] = "alive"
  BY Zenon
<1>3. \A p \in Procs : p \in K <=> life[p] = "alive"
  BY Zenon
<1> HIDE DEF K
<1>4. Distinct(exitChan)' /\ \A p \in Procs : Queued(p)' <=> Queued(p) \/ p \in K
  BY Zenon, <1>1, <1>2, Delivered
<1> QED BY Zenon, <1>3, <1>4

\* The sessions that handleInitExit kills.
LEMMA InitExitQueues ==
    ASSUME Typed, OnePlace, OnItsWay, NEW c \in Inits, HandleInitExit(c)
    PROVE  /\ Distinct(exitChan)'
           /\ \A p \in Procs : Queued(p)' <=>
                 Queued(p) \/ (p \in Execs /\ home[p] = c /\ life[p] = "alive")
<1> DEFINE K == {e \in Execs : home[e] = c /\ life[e] = "alive"}
<1>1. PICK order : Ordering(order, K) /\ exitChan' = exitChan \o order
  BY Zenon DEF HandleInitExit, Ordering
<1>2. K \in SUBSET Procs /\ \A p \in K : life[p] = "alive"
  BY Zenon DEF Procs
<1>3. \A p : p \in K <=> p \in Execs /\ home[p] = c /\ life[p] = "alive"
  BY Zenon
<1> HIDE DEF K
<1>4. Distinct(exitChan)' /\ \A p \in Procs : Queued(p)' <=> Queued(p) \/ p \in K
  BY Zenon, <1>1, <1>2, Delivered
<1> QED BY Zenon, <1>3, <1>4

\* The wrapper takes an exit from its channel.
LEMMA WrapperTakesMoves ==
    ASSUME Typed, OnePlace, WrapperTakes
    PROVE  LET p == Head(exitChan) IN
           /\ p \in Procs /\ Queued(p) /\ Distinct(exitChan)'
           /\ \A q \in Procs : /\ Queued(q)' <=> Queued(q) /\ q # p
                               /\ ~Held(q) /\ (Held(q)' <=> q = p)
<1>1. exitChan \in Seq(Procs) /\ exitChan # <<>> /\ Distinct(exitChan)
  BY Zenon DEF WrapperTakes, Typed, LoopsOK, OnePlace
<1>2. /\ wrapperExit = NoExit /\ exitChan' = Tail(exitChan)
      /\ wrapperExit' = [p |-> Head(exitChan), known |-> Head(exitChan) \in running]
  BY Zenon DEF WrapperTakes
<1>3. /\ Head(exitChan) \in Procs /\ In(exitChan, Head(exitChan))
      /\ Distinct(Tail(exitChan))
      /\ \A q : In(Tail(exitChan), q) <=> In(exitChan, q) /\ q # Head(exitChan)
  BY Zenon, <1>1, TailIn
<1>4. wrapperExit' # NoExit /\ wrapperExit'.p = Head(exitChan)
  <2>1. wrapperExit' \in Taken /\ wrapperExit'.p = Head(exitChan)
    BY <1>2, <1>3 DEF Taken
  <2>2. NoExit \notin Taken
    BY Zenon, TaskAssumption DEF Taken
  <2> QED BY Zenon, <2>1, <2>2
<1> QED BY Zenon, <1>2, <1>3, <1>4 DEF Queued, Held

\* The wrapper passes an exit on to the service.
LEMMA PassOnMoves ==
    ASSUME Typed, OnePlace, PassOn
    PROVE  /\ wrapperExit.p \in Procs /\ Held(wrapperExit.p) /\ Distinct(ec)'
           /\ \A q \in Procs : ~Held(q)' /\ (Passed(q)' <=> Passed(q) \/ Held(q))
<1> DEFINE p == wrapperExit.p
<1>1. wrapperExit # NoExit /\ wrapperExit' = NoExit /\ ec' = Append(ec, p)
  BY Zenon DEF PassOn
<1>2. p \in Procs /\ Held(p) /\ ec \in Seq(Procs) /\ Distinct(ec)
  BY Zenon, <1>1 DEF Typed, LoopsOK, Taken, Held, OnePlace
<1>3. ~In(ec, p)
  BY Zenon, <1>2 DEF OnePlace, Passed
<1>4. /\ Distinct(Append(ec, p))
      /\ \A q : In(Append(ec, p), q) <=> In(ec, q) \/ q = p
  BY Zenon, <1>2, <1>3, AppendIn
<1> QED BY Zenon, <1>1, <1>2, <1>4 DEF Passed, Held

\* The wrapper keeps an exit back.
LEMMA PreventExitMoves ==
    ASSUME Typed, PreventExit
    PROVE  /\ wrapperExit.p \in Procs /\ Held(wrapperExit.p)
           /\ \A q \in Procs : ~Held(q)' /\ (Held(q) => q = wrapperExit.p)
  BY Zenon DEF PreventExit, Typed, LoopsOK, Taken, Held

\* The service takes an exit.
LEMMA ServiceTakesMoves ==
    ASSUME Typed, OnePlace, ServiceTakes
    PROVE  LET p == Head(ec) IN
           /\ p \in Procs /\ Passed(p) /\ Distinct(ec)'
           /\ \A q \in Procs :
                 /\ Passed(q)' <=> Passed(q) /\ q # p
                 /\ ~Serving(q) /\ (Serving(q)' <=> q = p /\ p \in running)
           /\ p \in running => serviceExit'.step = "handle"
<1>1. ec \in Seq(Procs) /\ ec # <<>> /\ Distinct(ec)
  BY Zenon DEF ServiceTakes, Typed, LoopsOK, OnePlace
<1>2. /\ serviceExit = NoExit /\ ec' = Tail(ec)
      /\ serviceExit' = IF Head(ec) \in running
                        THEN [p |-> Head(ec), step |-> "handle"] ELSE NoExit
  BY Zenon DEF ServiceTakes
<1>3. /\ Head(ec) \in Procs /\ In(ec, Head(ec)) /\ Distinct(Tail(ec))
      /\ \A q : In(Tail(ec), q) <=> In(ec, q) /\ q # Head(ec)
  BY Zenon, <1>1, TailIn
<1>4. Head(ec) \in running =>
         /\ serviceExit' # NoExit /\ serviceExit'.p = Head(ec)
         /\ serviceExit'.step = "handle"
  BY <1>2, <1>3, TaskAssumption
<1>5. Head(ec) \notin running => serviceExit' = NoExit
  BY Zenon, <1>2
<1> QED BY Zenon, <1>2, <1>3, <1>4, <1>5 DEF Passed, Serving

\* The steps that leave the exits on their way and processExits alone.
LEMMA LoopSteps ==
    ASSUME [Next]_vars
    PROVE  \/ UNCHANGED <<exitChan, ec, wrapperExit, serviceExit>>
           \/ /\ UNCHANGED <<exitChan, ec, wrapperExit>>
              /\ \E e \in Execs : HandleProcessExit(e)
           \/ WrapperTakes \/ PassOn \/ PreventExit \/ ServiceTakes \/ Dump
           \/ \E c \in Inits : HandleInitExit(c)
           \/ \E p \in Procs : Dies(p)
<1> DEFINE Kept == UNCHANGED <<exitChan, ec, wrapperExit, serviceExit>>
<1>1. ASSUME Create \/ Created \/ StartInit \/ InitFails PROVE Kept
  BY Zenon, <1>1 DEF Create, Created, StartInit, InitFails
<1>2. ASSUME NEW e \in Execs,
             Exec(e) \/ ExecAdded(e) \/ StartExec(e) \/ StartRefused(e)
               \/ ExecFails(e) \/ StartedCounts(e) \/ Delete(e)
      PROVE  Kept
  BY Zenon, <1>2 DEF Exec, ExecAdded, StartExec, StartRefused, ExecFails,
                     StartedCounts, Delete
<1>3. ASSUME NEW p \in Procs, ProcessStarts(p) \/ Started(p) PROVE Kept
  BY Zenon, <1>3 DEF ProcessStarts, Started
<1>4. ASSUME NEW c \in Inits, PostRestore(c) \/ Waiter(c) PROVE Kept
  BY Zenon, <1>4 DEF PostRestore, Waiter
<1>5. ASSUME TimerFires \/ DumpFails \/ ScaledDown \/ Restored PROVE Kept
  BY Zenon, <1>5 DEF TimerFires, DumpFails, ScaledDown, Restored
<1>6. ASSUME NEW e \in Execs, HandleProcessExit(e)
      PROVE  UNCHANGED <<exitChan, ec, wrapperExit>>
  BY Zenon, <1>6 DEF HandleProcessExit
<1>7. ASSUME UNCHANGED vars PROVE Kept
  BY Zenon, <1>7 DEF vars
<1> QED
  BY Zenon, <1>1, <1>2, <1>3, <1>4, <1>5, <1>6, <1>7
     DEF Next, CallStep, WrapperStep, ServiceStep

\* The exit of a process is delivered once, and no loop duplicates it.
LEMMA OnePlaceStep == Typed /\ OnePlace /\ OnItsWay /\ [Next]_vars => OnePlace'
<1> SUFFICES ASSUME Typed, OnePlace, OnItsWay, [Next]_vars PROVE OnePlace'
  BY Zenon
<1>1. ASSUME NEW p \in Procs, Dies(p) PROVE OnePlace'
  <2>1. UNCHANGED <<ec, wrapperExit>> /\ life[p] = "alive"
    BY Zenon, <1>1 DEF Dies
  <2>2. ~Held(p) /\ ~Passed(p)
    BY Zenon, <2>1 DEF OnItsWay, Flying
  <2>3. Distinct(exitChan)' /\ \A q \in Procs : Queued(q)' <=> Queued(q) \/ q = p
    BY Zenon, <1>1, DiesQueues
  <2> QED BY Zenon, <2>1, <2>2, <2>3 DEF OnePlace, Held, Passed
<1>2. CASE Dump
  <2>1. UNCHANGED <<ec, wrapperExit>>
    BY Zenon, <1>2 DEF Dump
  <2>2. \A p \in Procs : life[p] = "alive" => ~Held(p) /\ ~Passed(p)
    BY Zenon DEF OnItsWay, Flying
  <2> QED BY Zenon, <1>2, <2>1, <2>2, DumpQueues DEF OnePlace, Held, Passed
<1>3. ASSUME NEW c \in Inits, HandleInitExit(c) PROVE OnePlace'
  <2>1. UNCHANGED <<ec, wrapperExit>>
    BY Zenon, <1>3 DEF HandleInitExit
  <2>2. \A p \in Procs : life[p] = "alive" => ~Held(p) /\ ~Passed(p)
    BY Zenon DEF OnItsWay, Flying
  <2>3. /\ Distinct(exitChan)'
        /\ \A p \in Procs : Queued(p)' => Queued(p) \/ life[p] = "alive"
    BY Zenon, <1>3, InitExitQueues
  <2> QED BY Zenon, <2>1, <2>2, <2>3 DEF OnePlace, Held, Passed
<1>4. CASE WrapperTakes
  <2>1. UNCHANGED ec
    BY Zenon, <1>4 DEF WrapperTakes
  <2> QED BY Zenon, <1>4, <2>1, WrapperTakesMoves DEF OnePlace, Passed
<1>5. CASE PassOn
  <2>1. UNCHANGED exitChan
    BY Zenon, <1>5 DEF PassOn
  <2> QED BY Zenon, <1>5, <2>1, PassOnMoves DEF OnePlace, Queued
<1>6. CASE PreventExit
  <2>1. UNCHANGED <<exitChan, ec>>
    BY Zenon, <1>6 DEF PreventExit
  <2> QED BY Zenon, <1>6, <2>1, PreventExitMoves DEF OnePlace, Queued, Passed
<1>7. CASE ServiceTakes
  <2>1. UNCHANGED <<exitChan, wrapperExit>>
    BY Zenon, <1>7 DEF ServiceTakes
  <2> QED BY Zenon, <1>7, <2>1, ServiceTakesMoves DEF OnePlace, Queued, Held
<1>8. ASSUME UNCHANGED <<exitChan, ec, wrapperExit>> PROVE OnePlace'
  BY Zenon, <1>8 DEF OnePlace, Queued, Held, Passed
<1>9. \/ UNCHANGED <<exitChan, ec, wrapperExit>>
      \/ WrapperTakes \/ PassOn \/ PreventExit \/ ServiceTakes \/ Dump
      \/ \E c \in Inits : HandleInitExit(c)
      \/ \E p \in Procs : Dies(p)
  BY Zenon, LoopSteps
<1> QED BY Zenon, <1>1, <1>2, <1>3, <1>4, <1>5, <1>6, <1>7, <1>8, <1>9

\* Nobody deals with an exit before processExits has taken it from its channel.
LEMMA OnItsWayStep ==
    Typed /\ Order /\ Lives /\ OnePlace /\ OnItsWay /\ Dealt /\ [Next]_vars
        => OnItsWay'
<1> SUFFICES ASSUME Typed, Order, Lives, OnePlace, OnItsWay, Dealt, [Next]_vars
             PROVE  OnItsWay'
  BY Zenon
<1> DEFINE Kept == UNCHANGED <<exitChan, ec, wrapperExit, serviceExit>>
           Hist == UNCHANGED <<published, early, waiters, swallowed, initExit>>
<1>1. ASSUME Kept, Hist, \A p \in Procs : life[p] = "dead" => life'[p] = "dead"
      PROVE  OnItsWay'
  BY Zenon, <1>1 DEF OnItsWay, Untouched, Flying, Queued, Held, Passed, Serving
<1>2. ASSUME Kept, UNCHANGED <<life, waiters, swallowed, initExit>>,
             NEW p \in early, early' = early \ {p}, Publish(p)
      PROVE  OnItsWay'
  <2> SUFFICES ASSUME NEW q \in Procs, Flying(q)'
               PROVE  life'[q] = "dead" /\ Untouched(q)'
    BY Zenon DEF OnItsWay
  <2>1. Flying(q)
    BY Zenon, <1>2 DEF Flying, Queued, Held, Passed
  <2>2. life[q] = "dead" /\ Untouched(q)
    BY Zenon, <2>1 DEF OnItsWay
  <2>3. q # p /\ published'[q] = published[q]
    BY Zenon, <1>2, <2>2 DEF Untouched, Typed, ExecsOK
  <2> QED BY Zenon, <1>2, <2>2, <2>3 DEF Untouched, Serving
<1>3. ASSUME NEW p \in Procs, NEW from, NEW up, NEW counting,
             HandleStarted(p, from, up, counting), Kept,
             UNCHANGED <<life, waiters, swallowed, initExit>>
      PROVE  OnItsWay'
  <2>1. CASE p \in early
    BY Zenon, <1>2, <1>3, <2>1 DEF HandleStarted
  <2>2. CASE p \notin early
    BY Zenon, <1>1, <1>3, <2>2 DEF HandleStarted
  <2> QED BY Zenon, <2>1, <2>2
<1>4. CASE Create \/ Restored
  <2>1. Kept /\ Hist
    BY Zenon, <1>4 DEF Create, Restored
  <2>2. \A p \in Procs : life[p] = "dead" => life'[p] = "dead"
    BY <1>4, ZeroInit, ProcKinds DEF Create, Restored, Lives, Typed, CallsOK
  <2> QED BY Zenon, <1>1, <2>1, <2>2
<1>5. CASE Created \/ InitFails
  <2>1. Kept /\ UNCHANGED <<life, waiters, swallowed, initExit>>
    BY Zenon, <1>5 DEF Created, InitFails
  <2> QED BY Zenon, <1>3, <1>5, <2>1, ZeroInit DEF Created, InitFails
<1>6. ASSUME NEW p \in Procs, Started(p) PROVE OnItsWay'
  <2>1. Kept /\ UNCHANGED <<life, waiters, swallowed, initExit>>
    BY Zenon, <1>6 DEF Started
  <2> QED BY Zenon, <1>3, <1>6, <2>1 DEF Started
<1>7. ASSUME NEW p \in Procs, ProcessStarts(p) PROVE OnItsWay'
  <2>1. Kept /\ Hist
    BY Zenon, <1>7 DEF ProcessStarts
  <2>2. life[p] # "dead" /\ life' = [life EXCEPT ![p] = "alive"]
    BY Zenon, <1>7, ProcKinds DEF ProcessStarts, Lives
  <2>3. \A q \in Procs : life[q] = "dead" => life'[q] = "dead"
    BY Zenon, <2>2 DEF Typed, CallsOK
  <2> QED BY Zenon, <1>1, <2>1, <2>3
<1>8. ASSUME NEW e \in Execs,
             Exec(e) \/ ExecAdded(e) \/ StartExec(e) \/ StartRefused(e)
               \/ ExecFails(e) \/ StartedCounts(e) \/ Delete(e)
      PROVE  OnItsWay'
  <2>1. Kept /\ Hist /\ UNCHANGED life
    BY Zenon, <1>8 DEF Exec, ExecAdded, StartExec, StartRefused, ExecFails,
                       StartedCounts, Delete
  <2> QED BY Zenon, <1>1, <2>1
<1>9. CASE \/ StartInit \/ TimerFires \/ DumpFails \/ ScaledDown
           \/ \E c \in Inits : PostRestore(c)
           \/ UNCHANGED vars
  <2>1. Kept /\ Hist /\ UNCHANGED life
    BY Zenon, <1>9 DEF StartInit, TimerFires, DumpFails, ScaledDown, PostRestore,
                       vars
  <2> QED BY Zenon, <1>1, <2>1
<1>10. ASSUME NEW c \in Inits, Waiter(c) PROVE OnItsWay'
  <2> SUFFICES ASSUME NEW q \in Procs, Flying(q)'
               PROVE  life'[q] = "dead" /\ Untouched(q)'
    BY Zenon DEF OnItsWay
  <2>1. Kept /\ UNCHANGED <<life, early, swallowed, initExit>> /\ c \in waiters
    BY Zenon, <1>10 DEF Waiter
  <2>2. waiters' \subseteq waiters /\ published' \in {published, [published EXCEPT ![c] = @ + 1]}
    BY Zenon, <1>10 DEF Waiter
  <2>3. Flying(q)
    BY Zenon, <2>1 DEF Flying, Queued, Held, Passed
  <2>4. life[q] = "dead" /\ Untouched(q)
    BY Zenon, <2>3 DEF OnItsWay
  <2>5. q # c /\ published'[q] = published[q]
    BY Zenon, <2>1, <2>2, <2>4 DEF Untouched, Typed, ExecsOK
  <2> QED BY Zenon, <2>1, <2>2, <2>4, <2>5 DEF Untouched, Serving
<1>11. ASSUME NEW p \in Procs, Dies(p) PROVE OnItsWay'
  <2> SUFFICES ASSUME NEW q \in Procs, Flying(q)'
               PROVE  life'[q] = "dead" /\ Untouched(q)'
    BY Zenon DEF OnItsWay
  <2>1. Hist /\ UNCHANGED <<ec, wrapperExit, serviceExit>> /\ life[p] = "alive"
    BY Zenon, <1>11 DEF Dies
  <2>2. life' = [life EXCEPT ![p] = "dead"]
    BY Zenon, <1>11 DEF Dies
  <2>3. Flying(q) \/ q = p
    BY Zenon, <1>11, <2>1, DiesQueues DEF Flying, Held, Passed
  <2>4. (Flying(q) => life[q] = "dead" /\ Untouched(q)) /\ (q = p => Untouched(q))
    BY Zenon, <2>1, NoExitYet DEF OnItsWay
  <2>5. Untouched(q)'
    BY Zenon, <2>1, <2>3, <2>4 DEF Untouched, Serving
  <2>6. life'[q] = "dead"
    BY Zenon, <2>2, <2>3, <2>4 DEF Typed, CallsOK
  <2> QED BY Zenon, <2>5, <2>6
<1>12. CASE Dump
  <2> SUFFICES ASSUME NEW q \in Procs, Flying(q)'
               PROVE  life'[q] = "dead" /\ Untouched(q)'
    BY Zenon DEF OnItsWay
  <2>1. Hist /\ UNCHANGED <<ec, wrapperExit, serviceExit>>
    BY Zenon, <1>12 DEF Dump
  <2>2. life'[q] = IF life[q] = "alive" THEN "dead" ELSE life[q]
    BY Zenon, <1>12 DEF Dump
  <2>3. Flying(q) \/ life[q] = "alive"
    BY Zenon, <1>12, <2>1, DumpQueues DEF Flying, Held, Passed
  <2>4. (Flying(q) => life[q] = "dead") /\ Untouched(q)
    BY Zenon, <2>3, NoExitYet DEF OnItsWay
  <2>5. Untouched(q)'
    BY Zenon, <2>1, <2>4 DEF Untouched, Serving
  <2> QED BY Zenon, <2>2, <2>3, <2>4, <2>5
<1>13. ASSUME NEW c \in Inits, HandleInitExit(c) PROVE OnItsWay'
  <2> SUFFICES ASSUME NEW q \in Procs, Flying(q)'
               PROVE  life'[q] = "dead" /\ Untouched(q)'
    BY Zenon DEF OnItsWay
  <2>1. UNCHANGED <<ec, wrapperExit, early, swallowed, initExit>> /\ Serving(c)
    BY Zenon, <1>13 DEF HandleInitExit, Handling, Serving
  <2>2. life'[q] = IF q \in Execs /\ home[q] = c /\ life[q] = "alive"
                   THEN "dead" ELSE life[q]
    BY Zenon, <1>13 DEF HandleInitExit
  <2>3. Flying(q) \/ (q \in Execs /\ home[q] = c /\ life[q] = "alive")
    BY Zenon, <1>13, <2>1, InitExitQueues DEF Flying, Held, Passed
  <2>4. (Flying(q) => life[q] = "dead") /\ Untouched(q)
    BY Zenon, <2>3, NoExitYet DEF OnItsWay
  <2>5. q # c
    BY Zenon, <2>1, <2>4 DEF Untouched
  <2>6. /\ published' \in {published, [published EXCEPT ![c] = @ + 1]}
        /\ waiters' \subseteq waiters \cup {c}
    BY Zenon, <1>13 DEF HandleInitExit
  <2>7. serviceExit' = NoExit
    BY Zenon, <1>13 DEF HandleInitExit
  <2>8. Untouched(q)'
    BY Zenon, <2>1, <2>4, <2>5, <2>6, <2>7 DEF Untouched, Serving, Typed, ExecsOK
  <2> QED BY Zenon, <2>2, <2>3, <2>4, <2>8
<1>14. CASE WrapperTakes \/ PassOn
  <2>1. Hist /\ UNCHANGED <<life, serviceExit>>
    BY Zenon, <1>14 DEF WrapperTakes, PassOn
  <2>2. \A q \in Procs : Flying(q)' => Flying(q)
    <3>1. CASE WrapperTakes
      <4>1. UNCHANGED ec
        BY Zenon, <3>1 DEF WrapperTakes
      <4> QED BY Zenon, <3>1, <4>1, WrapperTakesMoves DEF Flying, Passed
    <3>2. CASE PassOn
      <4>1. UNCHANGED exitChan
        BY Zenon, <3>2 DEF PassOn
      <4> QED BY Zenon, <3>2, <4>1, PassOnMoves DEF Flying, Queued
    <3> QED BY Zenon, <1>14, <3>1, <3>2
  <2> QED BY Zenon, <2>1, <2>2 DEF OnItsWay, Untouched, Serving
<1>15. CASE PreventExit
  <2> SUFFICES ASSUME NEW q \in Procs, Flying(q)'
               PROVE  life'[q] = "dead" /\ Untouched(q)'
    BY Zenon DEF OnItsWay
  <2>1. /\ UNCHANGED <<exitChan, ec, serviceExit, life, published, early, waiters, initExit>>
        /\ swallowed' = swallowed \cup {wrapperExit.p}
    BY Zenon, <1>15 DEF PreventExit
  <2>2. (Queued(q) \/ Passed(q)) /\ q # wrapperExit.p
    BY Zenon, <1>15, <2>1, PreventExitMoves DEF Flying, Queued, Passed, OnePlace
  <2>3. life[q] = "dead" /\ Untouched(q)
    BY Zenon, <2>2 DEF OnItsWay, Flying
  <2> QED BY Zenon, <2>1, <2>2, <2>3 DEF Untouched, Serving
<1>16. CASE ServiceTakes
  <2> SUFFICES ASSUME NEW q \in Procs, Flying(q)'
               PROVE  life'[q] = "dead" /\ Untouched(q)'
    BY Zenon DEF OnItsWay
  <2> DEFINE p == Head(ec)
  <2>1. UNCHANGED <<exitChan, wrapperExit, life, published, waiters, swallowed>>
    BY Zenon, <1>16 DEF ServiceTakes
  <2>2. Flying(q) /\ q # p /\ ~Serving(q)'
    BY Zenon, <1>16, <2>1, ServiceTakesMoves DEF Flying, Queued, Held, OnePlace
  <2>3. life[q] = "dead" /\ Untouched(q)
    BY Zenon, <2>2 DEF OnItsWay
  <2>4. q \notin early'
    BY Zenon, <1>16, <2>2, <2>3 DEF ServiceTakes, Untouched
  <2>5. q \in Inits => ~initExit'[q]
    BY Zenon, <1>16, <2>2, <2>3 DEF ServiceTakes, Untouched, Typed, ExecsOK
  <2> QED BY Zenon, <2>1, <2>2, <2>3, <2>4, <2>5 DEF Untouched
<1>17. ASSUME NEW e \in Execs, HandleProcessExit(e) PROVE OnItsWay'
  <2> SUFFICES ASSUME NEW q \in Procs, Flying(q)'
               PROVE  life'[q] = "dead" /\ Untouched(q)'
    BY Zenon DEF OnItsWay
  <2>1. /\ UNCHANGED <<exitChan, ec, wrapperExit, life, early, waiters, swallowed, initExit>>
        /\ Serving(e)
    BY Zenon, <1>17 DEF HandleProcessExit, Handling, Serving
  <2>2. Flying(q)
    BY Zenon, <2>1 DEF Flying, Queued, Held, Passed
  <2>3. life[q] = "dead" /\ Untouched(q) /\ q # e
    BY Zenon, <2>1, <2>2 DEF OnItsWay, Untouched
  <2>4. published'[q] = published[q]
    BY Zenon, <1>17, <2>3 DEF HandleProcessExit, Typed, ExecsOK
  <2>5. ~Serving(q)'
    BY Zenon, <1>17, <2>3 DEF HandleProcessExit, Handling, Serving, Typed, LoopsOK, Handled
  <2> QED BY Zenon, <2>1, <2>3, <2>4, <2>5 DEF Untouched
<1> QED
  BY Zenon, <1>4, <1>5, <1>6, <1>7, <1>8, <1>9, <1>10, <1>11, <1>12, <1>13,
     <1>14, <1>15, <1>16, <1>17
     DEF Next, CallStep, WrapperStep, ServiceStep

\* A count down makes no channel.
LEMMA CountDownKeeps ==
    ASSUME Typed, NEW c \in Inits, CountDown(c)
    PROVE  \A d \in Inits : subscribers[d] = NoChan => subscribers'[d] = NoChan
<1>1. CASE subscribers[c] = NoChan
  BY Zenon, <1>1 DEF CountDown
<1>2. CASE subscribers[c] # NoChan
  BY Zenon, <1>2 DEF CountDown, Typed, ExecsOK
<1> QED BY Zenon, <1>1, <1>2

\* An exit that a call has collected is not handled by processExits too, one that
\* the wrapper has kept back by neither, and a goroutine waits for an exit that
\* nobody has published.
LEMMA DealtStep ==
    Typed /\ Order /\ Lives /\ OnePlace /\ OnItsWay /\ Dealt /\ [Next]_vars
        => Dealt'
<1> SUFFICES ASSUME Typed, Order, Lives, OnePlace, OnItsWay, Dealt, [Next]_vars
             PROVE  Dealt'
  BY Zenon
<1> USE DEF Dealt
<1> DEFINE Hist == UNCHANGED <<serviceExit, published, early, waiters, swallowed,
                               initExit>>
           Lively == \A p \in Procs : life[p] = "dead" => life'[p] = "dead"
           Calls == \A e \in Execs :
                       /\ call[e] \in {"up", "deleted"} => call'[e] \in {"up", "deleted"}
                       /\ call'[e] = "count" => call[e] = "count"
           Chans == \A c \in Inits : subscribers[c] = NoChan => subscribers'[c] = NoChan
<1>1. ASSUME Hist, Lively, Calls, Chans PROVE Dealt'
  <2>1. EarlyOK'
    BY Zenon, <1>1 DEF EarlyOK, Serving, Typed, SetsOK
  <2>2. ServingOK'
    BY Zenon, <1>1 DEF ServingOK, Serving
  <2>3. WaitersOK' /\ PublishedOK' /\ InitExitOK'
    BY Zenon, <1>1, ProcKinds DEF WaitersOK, PublishedOK, InitExitOK
  <2>4. SwallowedOK'
    BY Zenon, <1>1 DEF SwallowedOK, Typed, SetsOK
  <2>5. SubscribersOK'
    BY Zenon, <1>1 DEF SubscribersOK
  <2>6. CountOK'
    BY Zenon, <1>1 DEF CountOK, Serving
  <2> QED BY Zenon, <2>1, <2>2, <2>3, <2>4, <2>5, <2>6
<1>2. ASSUME NEW p \in Procs, p \in early, Publish(p), early' = early \ {p},
             UNCHANGED <<serviceExit, waiters, swallowed, initExit, life, subscribers>>,
             \A e \in Execs :
                /\ call[e] \in {"up", "deleted"} => call'[e] \in {"up", "deleted"}
                /\ call'[e] = "count" => call[e] = "count" \/ e = p
      PROVE  Dealt'
  <2>1. /\ life[p] = "dead" /\ published[p] = 0 /\ ~Serving(p)
        /\ p \notin waiters /\ p \notin swallowed
    BY Zenon, <1>2 DEF EarlyOK
  <2>2. published'[p] = 1 /\ \A q \in Procs : q # p => published'[q] = published[q]
    BY <1>2, <2>1 DEF Typed, ExecsOK
  <2>3. EarlyOK'
    BY Zenon, <1>2, <2>2 DEF EarlyOK, Serving, Typed, SetsOK
  <2>4. ServingOK'
    BY <1>2, <2>1, <2>2 DEF ServingOK, Serving
  <2>5. WaitersOK' /\ InitExitOK' /\ SwallowedOK' /\ SubscribersOK'
    BY Zenon, <1>2, <2>1, <2>2, ProcKinds DEF WaitersOK, InitExitOK, SwallowedOK,
         SubscribersOK, Typed, SetsOK
  <2>6. PublishedOK'
    BY Zenon, <1>2, <2>1, <2>2 DEF PublishedOK
  <2>7. CountOK'
    BY Zenon, <1>2, <2>1, <2>2, ProcKinds DEF CountOK, Serving
  <2> QED BY Zenon, <2>3, <2>4, <2>5, <2>6, <2>7
<1>3. CASE Create \/ Restored
  <2>1. Hist /\ UNCHANGED subscribers
    BY Zenon, <1>3 DEF Create, Restored
  <2>2. Lively
    BY <1>3, ZeroInit, ProcKinds DEF Create, Restored, Lives, Typed, CallsOK
  <2>3. Calls
    BY Zenon, <1>3, ZeroInit, ProcKinds DEF Create, Restored, Typed, CallsOK
  <2> QED BY Zenon, <1>1, <2>1, <2>2, <2>3
<1>4. CASE Created \/ InitFails
  <2>1. UNCHANGED <<serviceExit, waiters, swallowed, initExit, life, subscribers>>
    BY Zenon, <1>4 DEF Created, InitFails
  <2>2. Calls
    BY Zenon, <1>4, ZeroInit, ProcKinds DEF Created, InitFails, HandleStarted, Typed, CallsOK
  <2>3. CASE 0 \in early
    BY Zenon, <1>2, <1>4, <2>1, <2>2, <2>3, ZeroInit
       DEF Created, InitFails, HandleStarted
  <2>4. CASE 0 \notin early
    BY Zenon, <1>1, <1>4, <2>1, <2>2, <2>4 DEF Created, InitFails, HandleStarted
  <2> QED BY Zenon, <2>3, <2>4
<1>5. ASSUME NEW p \in Procs, Started(p) PROVE Dealt'
  <2>1. UNCHANGED <<serviceExit, waiters, swallowed, initExit, life, subscribers>>
    BY Zenon, <1>5 DEF Started
  <2>2. \A e \in Execs :
           /\ call[e] \in {"up", "deleted"} => call'[e] \in {"up", "deleted"}
           /\ call'[e] = "count" => call[e] = "count" \/ (e = p /\ p \in early)
    BY Zenon, <1>5, ProcKinds DEF Started, HandleStarted, Typed, CallsOK
  <2>3. CASE p \in early
    BY Zenon, <1>2, <1>5, <2>1, <2>2, <2>3 DEF Started, HandleStarted
  <2>4. CASE p \notin early
    BY Zenon, <1>1, <1>5, <2>1, <2>2, <2>4 DEF Started, HandleStarted
  <2> QED BY Zenon, <2>3, <2>4
<1>6. ASSUME NEW p \in Procs, ProcessStarts(p) PROVE Dealt'
  <2>1. Hist /\ UNCHANGED subscribers
    BY Zenon, <1>6 DEF ProcessStarts
  <2>2. life[p] # "dead" /\ life' = [life EXCEPT ![p] = "alive"]
    BY Zenon, <1>6, ProcKinds DEF ProcessStarts, Lives
  <2>3. Lively
    BY Zenon, <2>2 DEF Typed, CallsOK
  <2>4. Calls
    BY Zenon, <1>6, ProcKinds DEF ProcessStarts, Typed, CallsOK
  <2> QED BY Zenon, <1>1, <2>1, <2>3, <2>4
<1>7. ASSUME NEW e \in Execs,
             Exec(e) \/ ExecAdded(e) \/ StartExec(e) \/ StartRefused(e) \/ Delete(e)
      PROVE  Dealt'
  <2>1. Hist /\ UNCHANGED <<life, subscribers>>
    BY Zenon, <1>7 DEF Exec, ExecAdded, StartExec, StartRefused, Delete
  <2>2. Calls
    BY Zenon, <1>7, ProcKinds DEF Exec, ExecAdded, StartExec, StartRefused, Delete,
         Typed, CallsOK
  <2> QED BY Zenon, <1>1, <2>1, <2>2
<1>8. ASSUME NEW e \in Execs, ExecFails(e) \/ StartedCounts(e) PROVE Dealt'
  <2>1. Hist /\ UNCHANGED life /\ CountDown(home[e])
    BY Zenon, <1>8 DEF ExecFails, StartedCounts
  <2>2. Calls
    BY Zenon, <1>8, ProcKinds DEF ExecFails, StartedCounts, Typed, CallsOK
  <2>3. home[e] \in Inits
    BY Zenon DEF Typed, CallsOK
  <2> QED BY Zenon, <1>1, <2>1, <2>2, <2>3, CountDownKeeps
<1>9. CASE \/ StartInit \/ TimerFires \/ DumpFails \/ ScaledDown \/ WrapperTakes
           \/ PassOn
           \/ \E c \in Inits : PostRestore(c)
           \/ UNCHANGED vars
  <2>1. Hist /\ UNCHANGED <<life, subscribers>>
    BY Zenon, <1>9 DEF StartInit, TimerFires, DumpFails, ScaledDown,
         WrapperTakes, PassOn, PostRestore, vars
  <2>2. \A e \in Execs : call'[e] = call[e]
    BY Zenon, <1>9, ZeroInit, ProcKinds DEF StartInit, TimerFires, DumpFails, ScaledDown,
         WrapperTakes, PassOn, PostRestore, vars, Typed, CallsOK
  <2> QED BY Zenon, <1>1, <2>1, <2>2
<1>10. CASE Dump \/ \E p \in Procs : Dies(p)
  <2>1. Hist /\ UNCHANGED <<call, subscribers>>
    BY Zenon, <1>10 DEF Dump, Dies
  <2>2. Lively
    BY <1>10 DEF Dump, Dies, Typed, CallsOK
  <2> QED BY Zenon, <1>1, <2>1, <2>2
<1>11. ASSUME NEW c \in Inits, HandleInitExit(c) PROVE Dealt'
  <2>1. /\ Serving(c) /\ serviceExit' = NoExit /\ serviceExit.step = "handle"
        /\ UNCHANGED <<call, early, swallowed, initExit>>
    BY Zenon, <1>11 DEF HandleInitExit, Handling, Serving
  <2>2. /\ life[c] = "dead" /\ c \notin waiters /\ c \notin swallowed
        /\ published[c] = 0 /\ initExit[c] /\ c \in Procs
    BY Zenon, <2>1, ProcKinds DEF ServingOK
  <2>3. c \notin early
    BY Zenon, <2>1 DEF EarlyOK
  <2>4. Lively
    BY Zenon, <1>11 DEF HandleInitExit
  <2>5. \A p : ~Serving(p)'
    BY Zenon, <2>1 DEF Serving
  <2>6. CASE runningExecs[c] = 0
    <3>1. Publish(c) /\ UNCHANGED <<subscribers, waiters>>
      BY Zenon, <1>11, <2>6 DEF HandleInitExit
    <3>2. published'[c] = 1 /\ \A q \in Procs : q # c => published'[q] = published[q]
      BY <2>2, <3>1 DEF Typed, ExecsOK
    <3>3. EarlyOK' /\ ServingOK' /\ CountOK'
      BY <2>1, <2>3, <2>4, <2>5, <3>1, <3>2, ProcKinds
         DEF EarlyOK, ServingOK, CountOK, Typed, SetsOK
    <3>4. WaitersOK' /\ SubscribersOK'
      BY Zenon, <2>1, <2>2, <3>1, <3>2, ProcKinds
         DEF WaitersOK, SubscribersOK, Typed, SetsOK
    <3>5. PublishedOK' /\ SwallowedOK' /\ InitExitOK'
      BY Zenon, <2>1, <2>2, <2>4, <3>2, ProcKinds
         DEF PublishedOK, SwallowedOK, InitExitOK, Typed, SetsOK
    <3> QED BY Zenon, <3>3, <3>4, <3>5
  <2>7. CASE runningExecs[c] # 0
    <3>1. /\ UNCHANGED published /\ waiters' = waiters \cup {c}
          /\ \A d \in Inits : d # c => subscribers'[d] = subscribers[d]
      BY Zenon, <1>11, <2>7 DEF HandleInitExit, Typed, ExecsOK
    <3>2. EarlyOK' /\ ServingOK' /\ CountOK'
      BY Zenon, <2>1, <2>3, <2>4, <2>5, <3>1 DEF EarlyOK, ServingOK, CountOK, Typed, SetsOK
    <3>3. WaitersOK' /\ SubscribersOK'
      BY Zenon, <2>1, <2>2, <3>1 DEF WaitersOK, SubscribersOK
    <3>4. PublishedOK' /\ SwallowedOK' /\ InitExitOK'
      BY Zenon, <2>1, <2>4, <3>1, ProcKinds
         DEF PublishedOK, SwallowedOK, InitExitOK, Typed, SetsOK
    <3> QED BY Zenon, <3>2, <3>3, <3>4
  <2> QED BY Zenon, <2>6, <2>7
<1>12. ASSUME NEW c \in Inits, Waiter(c) PROVE Dealt'
  <2>1. /\ c \in waiters
        /\ UNCHANGED <<call, life, serviceExit, early, swallowed, initExit>>
    BY Zenon, <1>12 DEF Waiter
  <2>2. CASE Head(subscribers[c].buf) = 0
    <3>1. /\ Publish(c) /\ waiters' = waiters \ {c}
          /\ subscribers' = [subscribers EXCEPT ![c] = NoChan]
      BY Zenon, <1>12, <2>2 DEF Waiter
    <3>2. published[c] = 0 /\ initExit[c] /\ life[c] = "dead" /\ c \notin swallowed
      BY Zenon, <2>1 DEF WaitersOK, InitExitOK
    <3>3. ~Serving(c) /\ c \notin early
      BY Zenon, <2>1, ProcKinds DEF ServingOK, EarlyOK
    <3>4. published'[c] = 1 /\ \A q \in Procs : q # c => published'[q] = published[q]
      BY <3>1, <3>2, ProcKinds DEF Typed, ExecsOK
    <3>5. EarlyOK' /\ CountOK'
      BY Zenon, <2>1, <3>1, <3>3, <3>4, ProcKinds DEF EarlyOK, CountOK, Serving, Typed, SetsOK
    <3>6. ServingOK'
      BY <2>1, <3>1, <3>3, <3>4 DEF ServingOK, Serving
    <3>7. WaitersOK' /\ PublishedOK'
      BY Zenon, <2>1, <3>1, <3>2, <3>4, ProcKinds DEF WaitersOK, PublishedOK, Typed, SetsOK
    <3>8. SubscribersOK'
      BY Zenon, <3>1 DEF SubscribersOK, Typed, ExecsOK
    <3>9. SwallowedOK' /\ InitExitOK'
      BY Zenon, <2>1 DEF SwallowedOK, InitExitOK
    <3> QED BY Zenon, <3>5, <3>6, <3>7, <3>8, <3>9
  <2>3. CASE Head(subscribers[c].buf) # 0
    <3>1. UNCHANGED <<published, waiters>>
      BY Zenon, <1>12, <2>3 DEF Waiter
    <3>2. \A d \in Inits : d # c => subscribers'[d] = subscribers[d]
      BY Zenon, <1>12, <2>3 DEF Waiter, Typed, ExecsOK
    <3>3. subscribers[c] # NoChan
      BY Zenon, <1>12 DEF Waiter
    <3>4. Chans
      BY Zenon, <3>2, <3>3
    <3> QED BY Zenon, <1>1, <2>1, <3>1, <3>4
  <2> QED BY Zenon, <2>2, <2>3
<1>13. CASE PreventExit
  <2> DEFINE p == wrapperExit.p
  <2>1. /\ swallowed' = swallowed \cup {p}
        /\ UNCHANGED <<call, life, serviceExit, early, waiters, published, initExit>>
    BY Zenon, <1>13 DEF PreventExit
  <2>2. p \in Procs /\ life[p] = "dead" /\ Untouched(p)
    BY Zenon, <1>13, PreventExitMoves DEF OnItsWay, Flying
  <2>3. Container(p) \in Inits
    BY Zenon, <2>2, ProcKinds DEF Container, Typed, CallsOK
  <2>4. Chans
    BY Zenon, <1>13, <2>3 DEF PreventExit, Typed, ExecsOK
  <2> HIDE DEF p
  <2>5. EarlyOK' /\ ServingOK' /\ WaitersOK'
    BY Zenon, <2>1, <2>2 DEF EarlyOK, ServingOK, WaitersOK, Serving, Untouched
  <2>6. PublishedOK' /\ SwallowedOK' /\ InitExitOK'
    BY Zenon, <2>1, <2>2 DEF PublishedOK, SwallowedOK, InitExitOK, Untouched
  <2>7. SubscribersOK' /\ CountOK'
    BY Zenon, <2>1, <2>4 DEF SubscribersOK, CountOK, Serving
  <2> QED BY Zenon, <2>5, <2>6, <2>7
<1>14. CASE ServiceTakes
  <2> DEFINE p == Head(ec)
  <2>1. UNCHANGED <<call, life, waiters, published, swallowed, subscribers>>
    BY Zenon, <1>14 DEF ServiceTakes
  <2>2. /\ p \in Procs /\ life[p] = "dead" /\ Untouched(p)
        /\ \A q \in Procs : ~Serving(q) /\ (Serving(q)' <=> q = p /\ p \in running)
        /\ p \in running => serviceExit'.step = "handle"
    BY Zenon, <1>14, ServiceTakesMoves DEF OnItsWay, Flying
  <2>3. /\ early' = IF Subscribed(p) THEN early \cup {p} ELSE early
        /\ initExit' = IF p \in running \cap Inits
                       THEN [initExit EXCEPT ![p] = TRUE] ELSE initExit
    BY Zenon, <1>14 DEF ServiceTakes
  <2> HIDE DEF p
  <2>4. \A c \in Inits : initExit'[c] <=> initExit[c] \/ (c = p /\ p \in running)
    BY Zenon, <2>3 DEF Typed, ExecsOK
  <2>5. p \in running => ~Subscribed(p)
    BY Zenon, <2>2, ProcKinds DEF Lives, Subscribed
  <2>6. p \in running \cap Execs => call[p] \in {"up", "deleted"}
    BY Zenon DEF Lives
  <2>7. EarlyOK'
    BY Zenon, <2>1, <2>2, <2>3, <2>5 DEF EarlyOK, Untouched, Typed, SetsOK
  <2>8. ServingOK'
    BY Zenon, <2>1, <2>2, <2>4, <2>6 DEF ServingOK, Untouched
  <2>9. WaitersOK' /\ PublishedOK' /\ SwallowedOK' /\ SubscribersOK'
    BY Zenon, <2>1, <2>4 DEF WaitersOK, PublishedOK, SwallowedOK, SubscribersOK,
         Typed, SetsOK
  <2>10. InitExitOK'
    BY Zenon, <2>1, <2>2, <2>4 DEF InitExitOK, Untouched
  <2>11. CountOK'
    BY Zenon, <2>1, <2>2, <2>6, ProcKinds DEF CountOK
  <2> QED BY Zenon, <2>7, <2>8, <2>9, <2>10, <2>11
<1>15. ASSUME NEW e \in Execs, HandleProcessExit(e) PROVE Dealt'
  <2>1. /\ Serving(e) /\ e \in Procs
        /\ UNCHANGED <<call, life, early, waiters, swallowed, initExit>>
    BY Zenon, <1>15, ProcKinds DEF HandleProcessExit, Handling, Serving
  <2>2. \A q \in Procs : Serving(q) => q = e
    BY Zenon, <2>1 DEF Serving
  <2>3. CASE serviceExit.step = "handle"
    <3>1. /\ published' = [published EXCEPT ![e] = @ + 1]
          /\ serviceExit' = [serviceExit EXCEPT !.step = "count"]
          /\ UNCHANGED subscribers
      BY Zenon, <1>15, <2>3 DEF HandleProcessExit, Handling
    <3>2. serviceExit \in Handled
      BY Zenon, <2>1 DEF Serving, Typed, LoopsOK
    <3>3. serviceExit'.p = e /\ serviceExit'.step = "count"
      BY Zenon, <2>1, <3>1, <3>2 DEF Handled, Serving
    <3>4. published[e] = 0 /\ life[e] = "dead" /\ e \notin waiters
             /\ e \notin swallowed /\ call[e] \in {"up", "deleted"}
      BY Zenon, <2>1, <2>3 DEF ServingOK
    <3>5. published'[e] = 1 /\ \A q \in Procs : q # e => published'[q] = published[q]
      BY <2>1, <3>1, <3>4 DEF Typed, ExecsOK
    <3>6. e \notin early /\ e \notin Inits
      BY Zenon, <2>1, ProcKinds DEF EarlyOK
    <3>7. \A q \in Procs : Serving(q)' => q = e
      BY Zenon, <3>3 DEF Serving
    <3>8. EarlyOK' /\ WaitersOK' /\ PublishedOK'
      BY <2>1, <3>4, <3>5, <3>6, <3>7, ProcKinds
         DEF EarlyOK, WaitersOK, PublishedOK, Typed, SetsOK
    <3>9. ServingOK'
      BY Zenon, <2>1, <3>3, <3>4, <3>5, <3>6, <3>7 DEF ServingOK
    <3>10. SwallowedOK' /\ InitExitOK' /\ SubscribersOK'
      BY Zenon, <2>1, <3>1 DEF SwallowedOK, InitExitOK, SubscribersOK
    <3>11. CountOK'
      BY Zenon, <2>1, <3>4, <3>5, <3>7, ProcKinds DEF CountOK
    <3> QED BY Zenon, <3>8, <3>9, <3>10, <3>11
  <2>4. CASE serviceExit.step # "handle"
    <3>1. serviceExit' = NoExit /\ UNCHANGED published /\ CountDown(home[e])
      BY Zenon, <1>15, <2>4 DEF HandleProcessExit, Handling
    <3>2. home[e] \in Inits
      BY Zenon DEF Typed, CallsOK
    <3>3. Chans
      BY Zenon, <3>1, <3>2, CountDownKeeps
    <3>4. \A q : ~Serving(q)'
      BY Zenon, <3>1 DEF Serving
    <3>5. EarlyOK' /\ ServingOK' /\ WaitersOK' /\ PublishedOK'
      BY Zenon, <2>1, <3>1, <3>4 DEF EarlyOK, ServingOK, WaitersOK, PublishedOK
    <3>6. SwallowedOK' /\ InitExitOK' /\ SubscribersOK' /\ CountOK'
      BY Zenon, <2>1, <3>1, <3>3, <3>4
         DEF SwallowedOK, InitExitOK, SubscribersOK, CountOK
    <3> QED BY Zenon, <3>5, <3>6
  <2> QED BY Zenon, <2>3, <2>4
<1> QED
  BY Zenon, <1>3, <1>4, <1>5, <1>6, <1>7, <1>8, <1>9, <1>10, <1>11, <1>12,
     <1>13, <1>14, <1>15
     DEF Next, CallStep, WrapperStep, ServiceStep

-----------------------------------------------------------------------------
(* Scaled down runc.Containers. *)

\* Only a restore changes the container in use.
LEMMA CurrentStep ==
    ASSUME Typed, Order, [Next]_vars
    PROVE  /\ Restored => Current = containers /\ Current' = containers + 1
           /\ ~Restored => Current' = Current
<1>1. Order' /\ CallsOK' /\ CallsOK
  BY Zenon, OrderStep, TypedStep DEF Typed
<1>2. \A c \in Inits : call'[c] = "restored" => c = containers' + 1
  BY <1>1, ProcKinds DEF CallsOK, Order
<1>3. /\ \A c \in Inits : call'[c] = "restored" => Current' = c
      /\ (\A c \in Inits : call'[c] # "restored") => Current' = containers'
  BY Zenon, <1>2 DEF Current
<1>4. /\ \A c \in Inits : call[c] = "restored" => Current = c
      /\ (\A c \in Inits : call[c] # "restored") => Current = containers
  BY Zenon, <1>1, CurrentIs
<1>5. ASSUME containers' = containers,
             \A c \in Inits : call'[c] = "restored" <=> call[c] = "restored"
      PROVE  Current' = Current
  BY Zenon, <1>3, <1>4, <1>5
<1>6. CASE Restored
  <2>1. \A c \in Inits : call[c] # "restored"
    BY Zenon, <1>6 DEF Restored, Order
  <2>2. containers + 1 \in Inits /\ call'[containers + 1] = "restored"
    BY Zenon, <1>1, <1>6, ProcKinds DEF Restored, CallsOK
  <2> QED BY Zenon, <1>3, <1>4, <1>6, <2>1, <2>2
<1>7. CASE ~Restored
  <2>1. ASSUME NEW c \in Inits, PostRestore(c) PROVE Current' = Current
    <3>1. Current = c /\ containers' = c
      BY Zenon, <1>4, <2>1 DEF PostRestore
    <3>2. \A d \in Inits : call'[d] # "restored"
      BY <1>1, <2>1, ProcKinds DEF PostRestore, CallsOK, Order
    <3> QED BY Zenon, <1>3, <3>1, <3>2
  <2>2. CASE Create \/ Created \/ StartInit \/ InitFails
    <3>1. containers' = containers
      BY Zenon, <2>2 DEF Create, Created, StartInit, InitFails
    <3>2. \A c \in Inits : call'[c] = "restored" <=> call[c] = "restored"
      BY Zenon, <1>1, <2>2, ZeroInit, ProcKinds
         DEF Create, Created, StartInit, InitFails, HandleStarted, CallsOK
    <3> QED BY Zenon, <1>5, <1>7, <3>1, <3>2
  <2>3. ASSUME NEW e \in Execs,
               Exec(e) \/ ExecAdded(e) \/ StartExec(e) \/ StartRefused(e)
                 \/ ExecFails(e) \/ StartedCounts(e) \/ Delete(e)
        PROVE  Current' = Current
    <3>1. containers' = containers
      BY Zenon, <2>3 DEF Exec, ExecAdded, StartExec, StartRefused, ExecFails,
                         StartedCounts, Delete
    <3>2. \A c \in Inits : call'[c] = call[c]
      BY Zenon, <1>1, <2>3, ProcKinds DEF Exec, ExecAdded, StartExec, StartRefused,
         ExecFails, StartedCounts, Delete, CallsOK
    <3> QED BY Zenon, <1>5, <3>1, <3>2
  <2>4. ASSUME NEW p \in Procs, ProcessStarts(p) \/ Started(p)
        PROVE  Current' = Current
    <3>1. containers' = containers
      BY Zenon, <2>4 DEF ProcessStarts, Started
    <3>2. \A c \in Inits : call'[c] = "restored" <=> call[c] = "restored"
      BY Zenon, <1>1, <2>4, ProcKinds DEF ProcessStarts, Started, HandleStarted, CallsOK
    <3> QED BY Zenon, <1>5, <3>1, <3>2
  <2>5. CASE \/ TimerFires \/ Dump \/ DumpFails \/ ScaledDown
             \/ WrapperTakes \/ PreventExit \/ PassOn \/ ServiceTakes
             \/ \E p \in Procs : Dies(p)
             \/ \E c \in Inits : HandleInitExit(c) \/ Waiter(c)
             \/ \E e \in Execs : HandleProcessExit(e)
             \/ UNCHANGED vars
    <3>1. UNCHANGED <<call, containers>>
      BY Zenon, <2>5 DEF TimerFires, Dump, DumpFails, ScaledDown, WrapperTakes,
         PreventExit, PassOn, ServiceTakes, Dies, HandleInitExit, Waiter,
         HandleProcessExit, vars
    <3> QED BY Zenon, <1>5, <1>7, <3>1
  <2> QED
    BY Zenon, <1>7, <2>1, <2>2, <2>3, <2>4, <2>5
       DEF Next, CallStep, WrapperStep, ServiceStep
<1> QED BY Zenon, <1>6, <1>7

\* Only the callback of the timer and a restore change what is scaled down.
LEMMA ScaleSteps ==
    ASSUME [Next]_vars
    PROVE  \/ TimerFires \/ Dump \/ DumpFails \/ ScaledDown \/ Restored
           \/ UNCHANGED <<scaledDown, down>>
<1> DEFINE Kept == UNCHANGED <<scaledDown, down>>
<1>1. ASSUME Create \/ Created \/ StartInit \/ InitFails PROVE Kept
  BY Zenon, <1>1 DEF Create, Created, StartInit, InitFails
<1>2. ASSUME NEW e \in Execs,
             Exec(e) \/ ExecAdded(e) \/ StartExec(e) \/ StartRefused(e)
               \/ ExecFails(e) \/ StartedCounts(e) \/ Delete(e)
      PROVE  Kept
  BY Zenon, <1>2 DEF Exec, ExecAdded, StartExec, StartRefused, ExecFails,
                     StartedCounts, Delete
<1>3. ASSUME NEW p \in Procs, ProcessStarts(p) \/ Started(p) \/ Dies(p) PROVE Kept
  BY Zenon, <1>3 DEF ProcessStarts, Started, Dies
<1>4. ASSUME NEW c \in Inits, PostRestore(c) \/ HandleInitExit(c) \/ Waiter(c)
      PROVE  Kept
  BY Zenon, <1>4 DEF PostRestore, HandleInitExit, Waiter
<1>5. ASSUME WrapperTakes \/ PreventExit \/ PassOn \/ ServiceTakes PROVE Kept
  BY Zenon, <1>5 DEF WrapperTakes, PreventExit, PassOn, ServiceTakes
<1>6. ASSUME NEW e \in Execs, HandleProcessExit(e) PROVE Kept
  BY Zenon, <1>6 DEF HandleProcessExit
<1>7. ASSUME UNCHANGED vars PROVE Kept
  BY Zenon, <1>7 DEF vars
<1> QED
  BY Zenon, <1>1, <1>2, <1>3, <1>4, <1>5, <1>6, <1>7
     DEF Next, CallStep, WrapperStep, ServiceStep

\* The dump makes a runc.Container one that was scaled down, nothing else does;
\* and it stays one.
LEMMA GoneSteps ==
    ASSUME Typed, Order, [Next]_vars
    PROVE  /\ \A c \in Inits : Gone(c) => Gone(c)'
           /\ \A c \in Inits : Gone(c)' => Gone(c) \/ (Dump /\ c = Current)
<1>1. Current \in Nat
  BY Zenon, CurrentInit, ProcKinds DEF Typed
<1>2. CASE Restored
  <2>1. /\ scaledDown /\ ~scaledDown' /\ down' = down /\ down = "idle"
        /\ Current = containers /\ Current' = containers + 1
    BY Zenon, <1>2, CurrentStep DEF Restored, Order
  <2> QED BY <1>1, <2>1, ProcKinds DEF Gone
<1>3. CASE ~Restored
  <2>1. Current' = Current
    BY Zenon, <1>3, CurrentStep
  <2>2. ASSUME NEW c \in Inits, Gone(c) PROVE Gone(c)'
    <3>1. CASE TimerFires
      BY Zenon, <2>1, <2>2, <3>1 DEF Gone, TimerFires
    <3>2. CASE Dump
      BY Zenon, <2>1, <2>2, <3>2 DEF Gone, Dump
    <3>3. CASE DumpFails
      BY Zenon, <2>1, <2>2, <3>3 DEF Gone, DumpFails
    <3>4. CASE ScaledDown
      BY Zenon, <2>1, <2>2, <3>4 DEF Gone, ScaledDown
    <3>5. CASE UNCHANGED <<scaledDown, down>>
      BY Zenon, <2>1, <2>2, <3>5 DEF Gone
    <3> QED BY Zenon, <1>3, <3>1, <3>2, <3>3, <3>4, <3>5, ScaleSteps
  <2>3. ASSUME NEW c \in Inits, Gone(c)' PROVE Gone(c) \/ (Dump /\ c = Current)
    <3>1. CASE TimerFires
      BY Zenon, <2>1, <2>3, <3>1 DEF Gone, TimerFires
    <3>2. CASE Dump
      BY Zenon, <2>1, <2>3, <3>2 DEF Gone, Dump
    <3>3. CASE DumpFails
      BY Zenon, <2>1, <2>3, <3>3 DEF Gone, DumpFails
    <3>4. CASE ScaledDown
      BY Zenon, <2>1, <2>3, <3>4 DEF Gone, ScaledDown
    <3>5. CASE UNCHANGED <<scaledDown, down>>
      BY Zenon, <2>1, <2>3, <3>5 DEF Gone
    <3> QED BY Zenon, <1>3, <3>1, <3>2, <3>3, <3>4, <3>5, ScaleSteps
  <2> QED BY Zenon, <2>2, <2>3
<1> QED BY Zenon, <1>2, <1>3

\* A runc.Container that was scaled down had been started.
LEMMA GoneUp ==
    ASSUME Typed, Order, NEW c \in Inits, Gone(c)
    PROVE  call[c] = "up"
<1>1. /\ Current \in Inits /\ containers <= Current
      /\ \A d \in Inits : call[d] = "restored" => Current = d /\ d = containers + 1
      /\ (\A d \in Inits : call[d] # "restored") => Current = containers
  BY Zenon, CurrentIs DEF Typed
<1>2. c <= containers
  BY <1>1, ProcKinds DEF Gone, Order, Typed, CallsOK
<1>3. call[0] = "up"
  BY <1>1, <1>2, ProcKinds, ZeroInit DEF Gone, Order, Typed, CallsOK
<1> QED BY Zenon, <1>2, <1>3 DEF Order

\* A process that has exited stays so: no call starts it again.
LEMMA DeadForever ==
    ASSUME Typed, Lives, [Next]_vars, NEW q \in Procs, life[q] = "dead"
    PROVE  life'[q] = "dead"
<1>1. CASE Create \/ Restored
  BY <1>1, ZeroInit, ProcKinds DEF Create, Restored, Lives, Typed, CallsOK
<1>2. ASSUME NEW p \in Procs, ProcessStarts(p) PROVE life'[q] = "dead"
  <2>1. life[p] # "dead" /\ life' = [life EXCEPT ![p] = "alive"]
    BY Zenon, <1>2, ProcKinds DEF ProcessStarts, Lives
  <2> QED BY Zenon, <2>1 DEF Typed, CallsOK
<1>3. CASE Dump \/ (\E p \in Procs : Dies(p)) \/ \E c \in Inits : HandleInitExit(c)
  <2>1. CASE Dump
    BY Zenon, <2>1 DEF Dump, Typed, CallsOK
  <2>2. ASSUME NEW p \in Procs, Dies(p) PROVE life'[q] = "dead"
    BY Zenon, <2>2 DEF Dies, Typed, CallsOK
  <2>3. ASSUME NEW c \in Inits, HandleInitExit(c) PROVE life'[q] = "dead"
    BY Zenon, <2>3 DEF HandleInitExit, Typed, CallsOK
  <2> QED BY Zenon, <1>3, <2>1, <2>2, <2>3
<1>4. ASSUME \/ Created \/ StartInit \/ InitFails
             \/ TimerFires \/ DumpFails \/ ScaledDown
             \/ WrapperTakes \/ PreventExit \/ PassOn \/ ServiceTakes
             \/ \E p \in Procs : Started(p)
             \/ \E c \in Inits : PostRestore(c) \/ Waiter(c)
      PROVE  UNCHANGED life
  BY Zenon, <1>4 DEF Created, StartInit, InitFails, TimerFires, DumpFails,
     ScaledDown, WrapperTakes, PreventExit, PassOn, ServiceTakes, Started,
     PostRestore, Waiter
<1>5. ASSUME NEW e \in Execs,
             Exec(e) \/ ExecAdded(e) \/ StartExec(e) \/ StartRefused(e)
               \/ ExecFails(e) \/ StartedCounts(e) \/ Delete(e)
               \/ HandleProcessExit(e)
      PROVE  UNCHANGED life
  BY Zenon, <1>5 DEF Exec, ExecAdded, StartExec, StartRefused, ExecFails,
                     StartedCounts, Delete, HandleProcessExit
<1>6. CASE UNCHANGED vars
  BY Zenon, <1>6 DEF vars
<1> QED
  BY Zenon, <1>1, <1>2, <1>3, <1>4, <1>5, <1>6
     DEF Next, CallStep, WrapperStep, ServiceStep

\* Who publishes an exit: a call that has collected it, the handling of the exit
\* of a session, and handleInitExit, at once or at the end of its goroutine.
LEMMA Publishes ==
    ASSUME Typed, [Next]_vars, NEW q \in Procs
    PROVE  \/ published'[q] = published[q]
           \/ /\ published'[q] = published[q] + 1
              /\ \/ q = 0 /\ q \in early /\ (Created \/ InitFails)
                 \/ q \in early /\ Started(q)
                 \/ q \in Execs /\ Serving(q)
                 \/ HandleInitExit(q) /\ runningExecs[q] = 0
                 \/ Waiter(q) /\ Head(subscribers[q].buf) = 0
<1> DEFINE Kept == UNCHANGED published
           Once(p) == published' = [published EXCEPT ![p] = @ + 1]
<1>1. ASSUME NEW p \in Procs, Once(p)
      PROVE  IF q = p THEN published'[q] = published[q] + 1
                      ELSE published'[q] = published[q]
  BY Zenon, <1>1 DEF Typed, ExecsOK
<1>2. ASSUME Created \/ InitFails PROVE Kept \/ (0 \in early /\ Once(0))
  BY Zenon, <1>2 DEF Created, InitFails, HandleStarted
<1>3. ASSUME NEW p \in Procs, Started(p) PROVE Kept \/ (p \in early /\ Once(p))
  BY Zenon, <1>3 DEF Started, HandleStarted
<1>4. ASSUME NEW c \in Inits, HandleInitExit(c)
      PROVE  Kept \/ (runningExecs[c] = 0 /\ Once(c))
  BY Zenon, <1>4 DEF HandleInitExit
<1>5. ASSUME NEW c \in Inits, Waiter(c)
      PROVE  Kept \/ (Head(subscribers[c].buf) = 0 /\ Once(c))
  BY Zenon, <1>5 DEF Waiter
<1>6. ASSUME NEW e \in Execs, HandleProcessExit(e)
      PROVE  Kept \/ (Serving(e) /\ Once(e))
  BY Zenon, <1>6 DEF HandleProcessExit, Handling, Serving
<1>7. ASSUME \/ Create \/ StartInit
             \/ TimerFires \/ Dump \/ DumpFails \/ ScaledDown \/ Restored
             \/ WrapperTakes \/ PreventExit \/ PassOn \/ ServiceTakes
             \/ \E p \in Procs : ProcessStarts(p) \/ Dies(p)
             \/ \E c \in Inits : PostRestore(c)
      PROVE  Kept
  BY Zenon, <1>7 DEF Create, StartInit, TimerFires, Dump, DumpFails, ScaledDown,
     Restored, WrapperTakes, PreventExit, PassOn, ServiceTakes, ProcessStarts,
     Dies, PostRestore
<1>8. ASSUME NEW e \in Execs,
             Exec(e) \/ ExecAdded(e) \/ StartExec(e) \/ StartRefused(e)
               \/ ExecFails(e) \/ StartedCounts(e) \/ Delete(e)
      PROVE  Kept
  BY Zenon, <1>8 DEF Exec, ExecAdded, StartExec, StartRefused, ExecFails,
                     StartedCounts, Delete
<1>9. ASSUME UNCHANGED vars PROVE Kept
  BY Zenon, <1>9 DEF vars
<1> HIDE DEF Once
<1> QED
  BY Zenon, <1>1, <1>2, <1>3, <1>4, <1>5, <1>6, <1>7, <1>8, <1>9, ZeroInit,
     ProcKinds DEF Next, CallStep, WrapperStep, ServiceStep

\* The exit of a runc.Container that was scaled down stays kept back.
LEMMA GoneStays ==
    ASSUME Typed, Order, Lives, OnePlace, OnItsWay, Dealt, GoneOK, [Next]_vars,
           "kill" \notin Faults, NEW c \in Inits, Gone(c)
    PROVE  published'[c] = 0 /\ ~initExit'[c] /\ ~Passed(c)' /\ KeptBack(c)'
<1>1. /\ published[c] = 0 /\ ~initExit[c] /\ ~Passed(c) /\ KeptBack(c)
      /\ call[c] = "up" /\ c \in Procs
  BY Zenon, GoneUp, ProcKinds DEF GoneOK
<1>2. published'[c] = 0
  <2>1. c \notin early /\ c \notin Execs
    BY Zenon, <1>1, ProcKinds DEF Lives, Subscribed
  <2>2. ~HandleInitExit(c)
    BY Zenon, <1>1 DEF HandleInitExit, Handling, Dealt, ServingOK, Serving
  <2>3. ~Waiter(c)
    BY Zenon, <1>1 DEF Waiter, Dealt, WaitersOK
  <2> QED BY Zenon, <1>1, <2>1, <2>2, <2>3, Publishes
<1> DEFINE Goal == ~initExit'[c] /\ ~Passed(c)' /\ KeptBack(c)'
<1>3. ASSUME UNCHANGED <<initExit, ec, wrapperExit, swallowed>>,
             c \in running => c \in running',
             c \in checkpointed => c \in checkpointed'
      PROVE  Goal
  BY Zenon, <1>1, <1>3 DEF Passed, KeptBack, Held
<1>4. ASSUME WrapperTakes PROVE Goal
  <2>1. /\ UNCHANGED <<initExit, ec, swallowed, running, checkpointed>>
        /\ wrapperExit' = [p |-> Head(exitChan), known |-> Head(exitChan) \in running]
    BY Zenon, <1>4 DEF WrapperTakes
  <2>2. c \in running /\ Held(c)' => wrapperExit'.known
    BY Zenon, <2>1 DEF Held
  <2> QED BY Zenon, <1>1, <2>1, <2>2 DEF Passed, KeptBack
<1>5. ASSUME PassOn PROVE Goal
  <2>1. /\ UNCHANGED <<initExit, swallowed, running, checkpointed>>
        /\ ~(wrapperExit.known /\ Prevented(wrapperExit.p))
    BY Zenon, <1>5 DEF PassOn
  <2>2. ~Held(c)
    <3> SUFFICES ASSUME Held(c) PROVE FALSE
      BY Zenon
    <3>1. c \notin swallowed
      BY Zenon, <1>1 DEF OnItsWay, Flying, Untouched
    <3> QED BY Zenon, <1>1, <2>1, <3>1 DEF KeptBack, Prevented, Held
  <2> QED BY Zenon, <1>1, <1>5, <2>1, <2>2, PassOnMoves DEF KeptBack
<1>6. ASSUME PreventExit PROVE Goal
  <2> DEFINE p == wrapperExit.p
  <2>1. /\ UNCHANGED <<initExit, ec>> /\ wrapperExit' = NoExit
        /\ swallowed' = swallowed \cup {p} /\ running' = running \ {p}
        /\ checkpointed' = IF scaledDown THEN checkpointed ELSE checkpointed \ {p}
    BY Zenon, <1>6 DEF PreventExit
  <2> HIDE DEF p
  <2> QED BY Zenon, <1>1, <2>1 DEF Passed, KeptBack, Held
<1>7. ASSUME ServiceTakes PROVE Goal
  <2> DEFINE p == Head(ec)
  <2>1. /\ UNCHANGED <<wrapperExit, swallowed, checkpointed>>
        /\ running' = running \ {p}
        /\ initExit' = IF p \in running \cap Inits
                       THEN [initExit EXCEPT ![p] = TRUE] ELSE initExit
    BY Zenon, <1>7 DEF ServiceTakes
  <2>2. Passed(p) /\ (Passed(c)' => Passed(c))
    BY Zenon, <1>1, <1>7, ServiceTakesMoves
  <2> HIDE DEF p
  <2>3. p # c
    BY Zenon, <1>1, <2>2
  <2>4. initExit'[c] = initExit[c]
    BY Zenon, <2>1, <2>3 DEF Typed, ExecsOK
  <2> QED BY Zenon, <1>1, <2>1, <2>2, <2>3, <2>4 DEF KeptBack, Held
<1>8. ASSUME DumpFails PROVE Goal
  <2>1. /\ UNCHANGED <<initExit, ec, wrapperExit, swallowed, running>>
        /\ checkpointed' = checkpointed \ {Current} /\ down = "dump"
    BY Zenon, <1>8 DEF DumpFails
  <2>2. c # Current
    BY <2>1, CurrentInit, ProcKinds DEF Gone, Order, Typed
  <2> QED BY Zenon, <1>3, <2>1, <2>2
<1>9. ASSUME TimerFires PROVE Goal
  BY Zenon, <1>3, <1>9 DEF TimerFires
<1>10. ASSUME StartInit PROVE Goal
  <2>1. c # 0
    BY Zenon, <1>1, <1>10 DEF StartInit
  <2>2. UNCHANGED <<initExit, ec, wrapperExit, swallowed, checkpointed>>
    BY Zenon, <1>10 DEF StartInit
  <2> QED BY Zenon, <1>3, <1>10, <2>1, <2>2 DEF StartInit
<1>11. ASSUME \/ Create \/ Created \/ InitFails \/ Dump \/ ScaledDown \/ Restored
              \/ \E p \in Procs : ProcessStarts(p) \/ Started(p) \/ Dies(p)
              \/ \E d \in Inits : PostRestore(d) \/ HandleInitExit(d) \/ Waiter(d)
              \/ UNCHANGED vars
       PROVE  Goal
  <2>1. UNCHANGED <<initExit, ec, wrapperExit, swallowed, checkpointed>>
    BY Zenon, <1>11 DEF Create, Created, InitFails, Dump, ScaledDown, Restored,
       ProcessStarts, Started, Dies, PostRestore, HandleInitExit, Waiter, vars
  <2>2. c \in running => c \in running'
    BY Zenon, <1>11 DEF Create, Created, InitFails, Dump, ScaledDown, Restored,
       ProcessStarts, Started, Dies, PostRestore, HandleInitExit, Waiter, vars,
       HandleStarted
  <2> QED BY Zenon, <1>3, <2>1, <2>2
<1>12. ASSUME NEW e \in Execs,
              Exec(e) \/ ExecAdded(e) \/ StartExec(e) \/ StartRefused(e)
                \/ ExecFails(e) \/ StartedCounts(e) \/ Delete(e)
                \/ HandleProcessExit(e)
       PROVE  Goal
  <2>1. UNCHANGED <<initExit, ec, wrapperExit, swallowed, checkpointed, running>>
    BY Zenon, <1>12 DEF Exec, ExecAdded, StartExec, StartRefused, ExecFails,
                        StartedCounts, Delete, HandleProcessExit
  <2> QED BY Zenon, <1>3, <2>1
<1> QED
  BY Zenon, <1>2, <1>4, <1>5, <1>6, <1>7, <1>8, <1>9, <1>10, <1>11,
     <1>12 DEF Next, CallStep, WrapperStep, ServiceStep

\* Only the wrapper keeps exits back, only the callback of the timer registers
\* pids, and only Exec and Start of a session set its runc.Container.
LEMMA KeptSteps ==
    ASSUME Typed, [Next]_vars
    PROVE  /\ PreventExit \/ swallowed' = swallowed
           /\ PreventExit \/ TimerFires \/ DumpFails \/ checkpointed' = checkpointed
           /\ \A e \in Execs : ExecAdded(e) \/ StartExec(e) \/ home'[e] = home[e]
<1> DEFINE Kept == UNCHANGED <<swallowed, checkpointed, home>>
<1>1. ASSUME Create \/ Created \/ StartInit \/ InitFails PROVE Kept
  BY Zenon, <1>1 DEF Create, Created, StartInit, InitFails
<1>2. ASSUME NEW e \in Execs,
             Exec(e) \/ StartRefused(e) \/ ExecFails(e) \/ StartedCounts(e)
               \/ Delete(e) \/ HandleProcessExit(e)
      PROVE  Kept
  BY Zenon, <1>2 DEF Exec, StartRefused, ExecFails, StartedCounts, Delete,
                     HandleProcessExit
<1>3. ASSUME NEW e \in Execs, ExecAdded(e) \/ StartExec(e)
      PROVE  /\ UNCHANGED <<swallowed, checkpointed>>
             /\ \A f \in Execs : f # e => home'[f] = home[f]
  BY Zenon, <1>3 DEF ExecAdded, StartExec, Typed, CallsOK
<1>4. ASSUME NEW p \in Procs, ProcessStarts(p) \/ Started(p) \/ Dies(p) PROVE Kept
  BY Zenon, <1>4 DEF ProcessStarts, Started, Dies
<1>5. ASSUME NEW c \in Inits, PostRestore(c) \/ HandleInitExit(c) \/ Waiter(c)
      PROVE  Kept
  BY Zenon, <1>5 DEF PostRestore, HandleInitExit, Waiter
<1>6. ASSUME \/ Dump \/ ScaledDown \/ Restored \/ WrapperTakes \/ PassOn
             \/ ServiceTakes
      PROVE  Kept
  BY Zenon, <1>6 DEF Dump, ScaledDown, Restored, WrapperTakes, PassOn,
                     ServiceTakes
<1>7. ASSUME TimerFires \/ DumpFails PROVE UNCHANGED <<swallowed, home>>
  BY Zenon, <1>7 DEF TimerFires, DumpFails
<1>8. ASSUME PreventExit PROVE UNCHANGED home
  BY Zenon, <1>8 DEF PreventExit
<1>9. ASSUME UNCHANGED vars PROVE Kept
  BY Zenon, <1>9 DEF vars
<1> QED
  BY Zenon, <1>1, <1>2, <1>3, <1>4, <1>5, <1>6, <1>7, <1>8, <1>9
     DEF Next, CallStep, WrapperStep, ServiceStep

\* A session that was started stays in its runc.Container.
LEMMA HomeStays ==
    ASSUME Typed, Lives, [Next]_vars, NEW e \in Execs, e \in started
    PROVE  home'[e] = home[e]
<1>1. ~ExecAdded(e) /\ ~StartExec(e)
  BY Zenon DEF Lives, ExecAdded, StartExec
<1> QED BY Zenon, <1>1, KeptSteps

\* While the callback of the timer is at work, the container in use is up.
LEMMA DownUp ==
    ASSUME Typed, Order, Lives, down # "idle"
    PROVE  /\ ~scaledDown /\ Current = containers
           /\ call[Current] = "up" /\ life[Current] # "none"
<1>1. ~scaledDown /\ call[0] = "up" /\ \A c \in Inits : call[c] # "restored"
  BY Zenon DEF Order
<1>2. CallsOK /\ Current = containers /\ Current \in Inits
  BY Zenon, <1>1, CurrentIs DEF Typed
<1>3. call[Current] = "up"
  BY <1>1, <1>2, ProcKinds DEF Order
<1> QED BY Zenon, <1>1, <1>2, <1>3 DEF Lives

\* The wrapper keeps back the exits of sessions only when their runc.Container
\* was scaled down.
LEMMA ScaledStep ==
    Typed /\ Order /\ Lives /\ OnItsWay /\ Dealt /\ Scaled /\ [Next]_vars => Scaled'
<1> SUFFICES ASSUME Typed, Order, Lives, OnItsWay, Dealt, Scaled, [Next]_vars
             PROVE  Scaled'
  BY Zenon
<1>1. ASSUME NEW c \in Inits, Gone(c)' PROVE life'[c] = "dead"
  <2>1. c \in Procs
    BY Zenon, ProcKinds
  <2>2. CASE Gone(c)
    BY Zenon, <2>1, <2>2, DeadForever DEF Scaled
  <2>3. CASE Dump /\ c = Current
    <3>1. life[c] # "none"
      BY Zenon, <2>3, DownUp DEF Dump
    <3> QED BY Zenon, <2>1, <2>3, <3>1 DEF Dump, Typed, CallsOK
  <2> QED BY Zenon, <1>1, <2>2, <2>3, GoneSteps
<1>2. ASSUME NEW e \in Execs, e \in swallowed' PROVE Gone(home[e])'
  <2>1. ASSUME life[e] = "dead", Gone(home[e]) PROVE Gone(home[e])'
    <3>1. e \in started
      BY Zenon, <2>1 DEF Lives
    <3>2. home'[e] = home[e] /\ home[e] \in Inits
      BY Zenon, <3>1, HomeStays DEF Typed, CallsOK
    <3>3. \A c \in Inits : Gone(c) => Gone(c)'
      BY Zenon, GoneSteps
    <3> QED BY Zenon, <2>1, <3>2, <3>3 DEF Gone
  <2>2. CASE e \in swallowed
    BY Zenon, <2>1, <2>2 DEF Scaled, Dealt, SwallowedOK
  <2>3. CASE e \notin swallowed
    <3>1. PreventExit /\ e = wrapperExit.p
      BY Zenon, <1>2, <2>3, KeptSteps DEF PreventExit
    <3>2. life[e] = "dead"
      BY Zenon, <3>1, PreventExitMoves DEF OnItsWay, Flying
    <3>3. scaledDown
      BY Zenon, <3>1, ProcKinds DEF PreventExit, Prevented, Typed, SetsOK
    <3>4. home[e] \in Inits /\ home[e] <= containers /\ containers <= Current
      BY Zenon, CurrentIs DEF Typed, CallsOK, Order
    <3>5. home[e] \in Nat /\ containers \in Nat /\ Current \in Nat
      BY Zenon, <3>4, CurrentInit, ProcKinds DEF Typed, CallsOK
    <3>6. Gone(home[e])
      BY <3>3, <3>4, <3>5 DEF Gone
    <3> QED BY Zenon, <2>1, <3>2, <3>6
  <2> QED BY Zenon, <2>2, <2>3
<1> QED BY Zenon, <1>1, <1>2 DEF Scaled

\* The exit of an init process that a scale down causes is kept back, and not
\* handled.
LEMMA DumpedStep ==
    ASSUME "kill" \notin Faults
    PROVE  Typed /\ Order /\ Lives /\ OnePlace /\ OnItsWay /\ Dealt /\ Dumped
              /\ [Next]_vars => Dumped'
<1> SUFFICES ASSUME Typed, Order, Lives, OnePlace, OnItsWay, Dealt, Dumped,
                    [Next]_vars
             PROVE  Dumped'
  BY Zenon
<1>1. GoneOK /\ Registered
  BY Zenon DEF Dumped
<1>2. CallsOK /\ Current \in Inits /\ Current \in Procs
  BY Zenon, CurrentInit, ProcKinds DEF Typed
<1>3. ASSUME Dump, NEW c \in Inits, c = Current
      PROVE  published'[c] = 0 /\ ~initExit'[c] /\ ~Passed(c)' /\ KeptBack(c)'
  <2>1. /\ UNCHANGED <<published, initExit, ec, wrapperExit, running, checkpointed>>
        /\ life[c] = "alive" /\ down = "dump"
    BY Zenon, <1>3 DEF Dump
  <2>2. ~Flying(c) /\ Untouched(c)
    BY Zenon, <2>1, NoExitYet, ProcKinds
  <2>3. c \in running /\ c \in checkpointed
    BY Zenon, <1>1, <1>3, <2>1, DownUp DEF Registered, Lives
  <2> QED
    BY Zenon, <2>1, <2>2, <2>3 DEF Flying, Untouched, Passed, Held, KeptBack
<1>4. GoneOK'
  <2> SUFFICES ASSUME NEW c \in Inits, Gone(c)'
               PROVE  /\ published'[c] = 0 /\ ~initExit'[c]
                      /\ ~Passed(c)' /\ KeptBack(c)'
    BY Zenon DEF GoneOK
  <2>1. Gone(c) \/ (Dump /\ c = Current)
    BY Zenon, GoneSteps
  <2>2. CASE Gone(c)
    BY Zenon, <1>1, <2>2, GoneStays
  <2>3. CASE Dump /\ c = Current
    BY Zenon, <1>3, <2>3
  <2> QED BY Zenon, <2>1, <2>2, <2>3
<1>5. Registered'
  <2> SUFFICES ASSUME down' = "dump", life'[Current'] = "alive"
               PROVE  Current' \in checkpointed'
    BY Zenon DEF Registered
  <2>1. CASE TimerFires
    <3>1. Current' = Current
      BY Zenon, <2>1, CurrentStep DEF TimerFires, Restored
    <3> QED BY Zenon, <2>1, <3>1 DEF TimerFires
  <2>2. CASE Dump \/ DumpFails \/ ScaledDown \/ Restored
    BY Zenon, <2>2 DEF Dump, DumpFails, ScaledDown, Restored, Order
  <2>3. CASE UNCHANGED <<scaledDown, down>> /\ ~TimerFires
    <3>1. down = "dump" /\ ~Restored
      BY Zenon, <2>3 DEF Restored, Order
    <3>2. Current' = Current
      BY Zenon, <3>1, CurrentStep
    <3>3. life[Current] = "alive"
      <4>1. life[Current] # "dead" /\ life[Current] # "none"
        BY Zenon, <1>2, <3>1, <3>2, DeadForever, DownUp
      <4> QED BY Zenon, <1>2, <4>1 DEF CallsOK
    <3>4. Current \in checkpointed
      BY Zenon, <1>1, <3>1, <3>3 DEF Registered
    <3>5. CASE PreventExit
      <4>1. life[wrapperExit.p] = "dead"
        BY Zenon, <3>5, PreventExitMoves DEF OnItsWay, Flying
      <4>2. Current # wrapperExit.p
        BY Zenon, <3>3, <4>1
      <4> QED BY Zenon, <3>2, <3>4, <3>5, <4>2 DEF PreventExit
    <3>6. CASE DumpFails
      BY Zenon, <3>6 DEF DumpFails
    <3> QED BY Zenon, <2>3, <3>2, <3>4, <3>5, <3>6, KeptSteps
  <2> QED BY Zenon, <2>1, <2>2, <2>3, ScaleSteps
<1> QED BY Zenon, <1>4, <1>5 DEF Dumped

-----------------------------------------------------------------------------
(* The counter of sessions. *)

\* A session does not go back once its start was handled.
LEMMA CallsForward ==
    ASSUME Typed, [Next]_vars, NEW f \in Execs
    PROVE  /\ call[f] \in {"up", "deleted"} => call'[f] \in {"up", "deleted"}
           /\ call[f] = "count" => call'[f] \in {"count", "up"}
<1> DEFINE Goal == /\ call[f] \in {"up", "deleted"} => call'[f] \in {"up", "deleted"}
                   /\ call[f] = "count" => call'[f] \in {"count", "up"}
<1> USE ZeroInit, ProcKinds DEF Typed, CallsOK
<1>1. ASSUME \/ Create \/ Created \/ StartInit \/ InitFails \/ Restored
             \/ \E c \in Inits : PostRestore(c)
      PROVE  call'[f] = call[f]
  BY Zenon, <1>1 DEF Create, Created, StartInit, InitFails, HandleStarted, Restored,
              PostRestore
<1>2. ASSUME NEW e \in Execs,
             Exec(e) \/ ExecAdded(e) \/ StartExec(e) \/ StartRefused(e)
      PROVE  Goal
  BY Zenon, <1>2 DEF Exec, ExecAdded, StartExec, StartRefused
<1>3. ASSUME NEW e \in Execs, ExecFails(e) \/ StartedCounts(e) \/ Delete(e)
      PROVE  Goal
  BY Zenon, <1>3 DEF ExecFails, StartedCounts, Delete
<1>4. ASSUME NEW p \in Procs, ProcessStarts(p) \/ Started(p) PROVE Goal
  BY Zenon, <1>4 DEF ProcessStarts, Started, HandleStarted
<1>5. CASE \/ TimerFires \/ Dump \/ DumpFails \/ ScaledDown
           \/ WrapperTakes \/ PreventExit \/ PassOn \/ ServiceTakes
           \/ \E p \in Procs : Dies(p)
           \/ \E c \in Inits : HandleInitExit(c) \/ Waiter(c)
           \/ \E e \in Execs : HandleProcessExit(e)
           \/ UNCHANGED vars
  <2>1. UNCHANGED call
    BY Zenon, <1>5 DEF TimerFires, Dump, DumpFails, ScaledDown, WrapperTakes,
       PreventExit, PassOn, ServiceTakes, Dies, HandleInitExit, Waiter,
       HandleProcessExit, vars
  <2> QED BY Zenon, <2>1
<1> QED
  BY Zenon, <1>1, <1>2, <1>3, <1>4, <1>5
     DEF Next, CallStep, WrapperStep, ServiceStep

\* The exit of a session is published by the call that starts it, or after it.
LEMMA PublishedCallsStep ==
    Typed /\ Dealt /\ PublishedCalls /\ [Next]_vars => PublishedCalls'
<1> SUFFICES ASSUME Typed, Dealt, PublishedCalls, [Next]_vars,
                    NEW e \in Execs, published'[e] # 0
             PROVE  call'[e] \in {"count", "up", "deleted"}
  BY Zenon DEF PublishedCalls
<1>1. e \in Procs /\ e # 0 /\ e \notin Inits
  BY Zenon, ProcKinds, ZeroInit
<1>2. CASE published[e] # 0
  BY Zenon, <1>2, CallsForward DEF PublishedCalls
<1>3. CASE published[e] = 0
  <2>1. (e \in early /\ Started(e)) \/ Serving(e) \/ HandleInitExit(e) \/ Waiter(e)
    BY Zenon, <1>1, <1>3, Publishes
  <2>2. CASE e \in early /\ Started(e)
    BY Zenon, <1>1, <2>2 DEF Started, HandleStarted, Typed, CallsOK
  <2>3. CASE Serving(e)
    BY Zenon, <1>1, <2>3, CallsForward DEF Dealt, ServingOK
  <2>4. CASE HandleInitExit(e)
    BY Zenon, <1>1, <2>3, <2>4 DEF HandleInitExit, Handling, Serving
  <2>5. CASE Waiter(e)
    BY Zenon, <1>1, <2>5 DEF Waiter, Typed, SetsOK
  <2> QED BY Zenon, <2>1, <2>2, <2>3, <2>4, <2>5
<1> QED BY Zenon, <1>2, <1>3

\* A counter that the wrapper has dropped stays dropped.
LEMMA DroppedStays ==
    ASSUME Typed, Lives, Dealt, [Next]_vars, NEW c \in Inits, Dropped(c)
    PROVE  Dropped(c)'
<1>1. swallowed \subseteq swallowed'
  BY Zenon, KeptSteps DEF PreventExit
<1>2. CASE c \in swallowed
  BY Zenon, <1>1, <1>2 DEF Dropped
<1>3. CASE \E e \in Execs \cap swallowed : home[e] = c
  <2>1. PICK e \in Execs \cap swallowed : home[e] = c
    BY Zenon, <1>3
  <2>2. e \in started
    BY Zenon, <2>1 DEF Lives, Dealt, SwallowedOK
  <2>3. home'[e] = c
    BY Zenon, <2>1, <2>2, HomeStays
  <2> QED BY Zenon, <1>1, <2>1, <2>3 DEF Dropped
<1> QED BY Zenon, <1>2, <1>3 DEF Dropped

\* Whether a session is counted depends on its call, on its history and on
\* what processExits does with it.
LEMMA CountsSame ==
    ASSUME NEW f \in Execs, call'[f] = call[f], f \in started' <=> f \in started,
           published'[f] = published[f],
           Handling(f, "count")' <=> Handling(f, "count")
    PROVE  Counts(f)' <=> Counts(f)
  BY Zenon DEF Counts

\* The number of the counted sessions of a container.
LEMMA CountedFinite ==
    ASSUME Typed, NEW c
    PROVE  /\ Cardinality(Counted(c)) \in Nat
           /\ Cardinality(Counted(c)) = 0 => Counted(c) = {}
           /\ \A e \in Counted(c) :
                 Cardinality(Counted(c) \ {e}) = Cardinality(Counted(c)) - 1
           /\ \A e \in Execs \ Counted(c) :
                 Cardinality(Counted(c) \cup {e}) = Cardinality(Counted(c)) + 1
<1>1. Counted(c) \in SUBSET Procs
  BY Zenon, ProcKinds DEF Counted
<1>2. \A e \in Execs : e \in Procs
  BY Zenon, ProcKinds
<1> QED BY Zenon, <1>1, <1>2 DEF Typed, Cardinals

\* The counter is exact after a step that changes neither it nor the sessions
\* that count.
LEMMA ExactQuiet ==
    ASSUME Typed, Lives, Dealt, Exact, [Next]_vars, UNCHANGED runningExecs,
           \A f \in Execs : /\ Counts(f)' <=> Counts(f)
                            /\ home'[f] = home[f] \/ ~Counts(f)
    PROVE  Exact'
<1> SUFFICES ASSUME NEW c \in Inits, ~Dropped(c)'
             PROVE  runningExecs'[c] = Cardinality(Counted(c)')
  BY Zenon DEF Exact
<1>1. Counted(c)' = Counted(c)
  BY Zenon DEF Counted
<1>2. ~Dropped(c)
  BY Zenon, DroppedStays
<1> QED BY Zenon, <1>1, <1>2 DEF Exact

\* The counter is exact after CountDown for a session that no longer counts.
LEMMA ExactDown ==
    ASSUME Typed, Lives, Dealt, Exact, [Next]_vars, NEW e \in Execs,
           CountDown(home[e]), UNCHANGED home, Counts(e), ~Counts(e)',
           \A f \in Execs : f # e => (Counts(f)' <=> Counts(f))
    PROVE  Exact'
<1> SUFFICES ASSUME NEW c \in Inits, ~Dropped(c)'
             PROVE  runningExecs'[c] = Cardinality(Counted(c)')
  BY Zenon DEF Exact
<1>1. ~Dropped(c)
  BY Zenon, DroppedStays
<1>2. runningExecs[c] = Cardinality(Counted(c))
  BY Zenon, <1>1 DEF Exact
<1>3. CASE c = home[e]
  <2>1. Counted(c)' = Counted(c) \ {e} /\ e \in Counted(c)
    BY Zenon, <1>3 DEF Counted
  <2>2. Cardinality(Counted(c) \ {e}) = Cardinality(Counted(c)) - 1
    BY Zenon, <2>1, CountedFinite
  <2>3. runningExecs'[c] = runningExecs[c] - 1
    BY Zenon, <1>3 DEF CountDown, Typed, ExecsOK
  <2> QED BY Zenon, <1>2, <2>1, <2>2, <2>3
<1>4. CASE c # home[e]
  <2>1. Counted(c)' = Counted(c)
    BY Zenon, <1>4 DEF Counted
  <2>2. runningExecs'[c] = runningExecs[c]
    BY Zenon, <1>4 DEF CountDown, Typed, ExecsOK
  <2> QED BY Zenon, <1>2, <2>1, <2>2
<1> QED BY Zenon, <1>3, <1>4

\* The counter is exact after Start has counted a session.
LEMMA ExactUp ==
    ASSUME Typed, Order, Lives, Dealt, Exact, [Next]_vars, NEW e \in Execs,
           StartExec(e)
    PROVE  Exact'
<1> SUFFICES ASSUME NEW c \in Inits, ~Dropped(c)'
             PROVE  runningExecs'[c] = Cardinality(Counted(c)')
  BY Zenon DEF Exact
<1>1. ~Dropped(c)
  BY Zenon, DroppedStays
<1>2. runningExecs[c] = Cardinality(Counted(c))
  BY Zenon, <1>1 DEF Exact
<1>3. /\ call[e] = "added" /\ call'[e] \in {"start", "unknown"}
      /\ home'[e] = containers
      /\ \A f \in Execs : f # e => call'[f] = call[f] /\ home'[f] = home[f]
  BY Zenon, ProcKinds DEF StartExec, Typed, CallsOK
<1>4. UNCHANGED <<started, published, serviceExit>>
  BY Zenon DEF StartExec
<1>5. \A f \in Execs : f # e => (Counts(f)' <=> Counts(f))
  BY Zenon, <1>3, <1>4 DEF Counts, Handling
<1>6. ~Counts(e) /\ Counts(e)'
  BY Zenon, <1>3 DEF Counts
<1>7. CASE c = containers
  <2>1. Counted(c)' = Counted(c) \cup {e} /\ e \notin Counted(c)
    BY Zenon, <1>3, <1>5, <1>6, <1>7 DEF Counted
  <2>2. Cardinality(Counted(c) \cup {e}) = Cardinality(Counted(c)) + 1
    BY Zenon, <2>1, CountedFinite
  <2>3. runningExecs'[c] = runningExecs[c] + 1
    BY Zenon, <1>7 DEF StartExec, Typed, ExecsOK
  <2> QED BY Zenon, <1>2, <2>1, <2>2, <2>3
<1>8. CASE c # containers
  <2>1. Counted(c)' = Counted(c)
    BY Zenon, <1>3, <1>5, <1>6, <1>8 DEF Counted
  <2>2. runningExecs'[c] = runningExecs[c]
    BY Zenon, <1>8 DEF StartExec, Typed, ExecsOK
  <2> QED BY Zenon, <1>2, <2>1, <2>2
<1> QED BY Zenon, <1>7, <1>8

\* A goroutine that has received the count zero finds no session counted.
LEMMA ZeroReceived ==
    ASSUME Typed, Exact, Sends, NEW c \in Inits, ~Dropped(c),
           subscribers[c] # NoChan, subscribers[c].buf # <<>>,
           Head(subscribers[c].buf) = 0
    PROVE  runningExecs[c] = 0 /\ Counted(c) = {}
<1> DEFINE buf == subscribers[c].buf
<1>1. buf \in Seq(Int) /\ runningExecs[c] \in Int
  BY Zenon DEF Typed, ExecsOK, Channels
<1>2. Len(buf) \in Nat /\ Len(buf) > 0 /\ Head(buf) = buf[1]
  BY <1>1
<1>3. buf[1] = runningExecs[c] + Len(buf) - 1
  <2>1. 1 \in 1..Len(buf)
    BY <1>2
  <2> QED BY Zenon, <2>1 DEF Sends
<1>4. runningExecs[c] = Cardinality(Counted(c)) /\ Cardinality(Counted(c)) \in Nat
  BY Zenon, CountedFinite DEF Exact
<1>5. runningExecs[c] = 0
  BY <1>1, <1>2, <1>3, <1>4
<1> QED BY Zenon, <1>4, <1>5, CountedFinite

\* The counter of a runc.Container is exact, unless the wrapper has dropped it.
LEMMA ExactStep ==
    Typed /\ Order /\ Lives /\ OnePlace /\ OnItsWay /\ Dealt /\ PublishedCalls
        /\ Exact /\ Sends /\ [Next]_vars => Exact'
<1> SUFFICES ASSUME Typed, Order, Lives, OnePlace, OnItsWay, Dealt,
                    PublishedCalls, Exact, Sends, [Next]_vars
             PROVE  Exact'
  BY Zenon
<1> DEFINE Same(f) == call'[f] = call[f] /\ (f \in started' <=> f \in started)
                         /\ published'[f] = published[f]
<1>1. ASSUME UNCHANGED <<serviceExit, runningExecs, home>>,
             \A f \in Execs : Same(f) \/ (Counts(f)' <=> Counts(f))
      PROVE  Exact'
  <2>1. \A f \in Execs : Counts(f)' <=> Counts(f)
    BY Zenon, <1>1, CountsSame DEF Handling
  <2> QED BY Zenon, <1>1, <2>1, ExactQuiet
<1>2. CASE \/ Create \/ StartInit \/ Restored
           \/ TimerFires \/ Dump \/ DumpFails \/ ScaledDown \/ WrapperTakes \/ PassOn
           \/ \E p \in Procs : Dies(p)
           \/ \E c \in Inits : PostRestore(c)
           \/ UNCHANGED vars
  <2>1. UNCHANGED <<serviceExit, runningExecs, home, started, published>>
    BY Zenon, <1>2 DEF Create, StartInit, Restored, TimerFires, Dump, DumpFails,
       ScaledDown, WrapperTakes, PassOn, Dies, PostRestore, vars
  <2>2. \A f \in Execs : call'[f] = call[f]
    BY Zenon, <1>2, ZeroInit, ProcKinds DEF Create, StartInit, Restored, TimerFires,
       Dump, DumpFails, ScaledDown, WrapperTakes, PassOn, Dies, PostRestore, vars,
       Typed, CallsOK
  <2> QED BY Zenon, <1>1, <2>1, <2>2
<1>3. CASE Created \/ InitFails
  <2>1. UNCHANGED <<serviceExit, runningExecs, home, started>>
    BY Zenon, <1>3 DEF Created, InitFails
  <2>2. \A f \in Execs : call'[f] = call[f] /\ published'[f] = published[f]
    BY <1>3, ZeroInit, ProcKinds DEF Created, InitFails, HandleStarted,
       Typed, CallsOK, ExecsOK
  <2> QED BY Zenon, <1>1, <2>1, <2>2
<1>4. ASSUME NEW e \in Execs, Exec(e) \/ StartRefused(e) \/ Delete(e)
      PROVE  Exact'
  <2>1. UNCHANGED <<serviceExit, runningExecs, home, started, published>>
    BY Zenon, <1>4 DEF Exec, StartRefused, Delete
  <2>2. \A f \in Execs : f # e => call'[f] = call[f]
    BY Zenon, <1>4, ProcKinds DEF Exec, StartRefused, Delete, Typed, CallsOK
  <2>3. \/ call[e] \in {"none", "added"} /\ call'[e] \in {"exec", "failed"}
        \/ call[e] = "up" /\ call'[e] = "deleted"
        \/ call[e] = "failed" /\ call'[e] = "deleted" /\ e \notin started
    BY Zenon, <1>4, ProcKinds DEF Exec, StartRefused, Delete, Typed, CallsOK, Lives
  <2>4. Counts(e)' <=> Counts(e)
    BY Zenon, <2>1, <2>3 DEF Counts, Handling
  <2> QED BY Zenon, <1>1, <2>1, <2>2, <2>4
<1>5. ASSUME NEW e \in Execs, ExecAdded(e) PROVE Exact'
  <2>1. UNCHANGED <<serviceExit, runningExecs, started, published>>
    BY Zenon, <1>5 DEF ExecAdded
  <2>2. /\ call[e] = "exec" /\ call'[e] = "added"
        /\ \A f \in Execs : f # e => call'[f] = call[f] /\ home'[f] = home[f]
    BY Zenon, <1>5, ProcKinds DEF ExecAdded, Typed, CallsOK
  <2>3. ~Counts(e) /\ ~Counts(e)'
    BY Zenon, <2>2 DEF Counts
  <2>4. \A f \in Execs : f # e => (Counts(f)' <=> Counts(f))
    BY Zenon, <2>1, <2>2, CountsSame DEF Handling
  <2> QED BY Zenon, <2>1, <2>2, <2>3, <2>4, ExactQuiet
<1>6. ASSUME NEW e \in Execs, ExecFails(e) \/ StartedCounts(e) PROVE Exact'
  <2>1. /\ UNCHANGED <<serviceExit, home, started, published>>
        /\ CountDown(home[e])
    BY Zenon, <1>6 DEF ExecFails, StartedCounts
  <2>2. /\ \A f \in Execs : f # e => call'[f] = call[f]
        /\ \/ call[e] \in {"start", "unknown"} /\ call'[e] = "failed"
           \/ call[e] = "count" /\ call'[e] = "up"
    BY Zenon, <1>6, ProcKinds DEF ExecFails, StartedCounts, Typed, CallsOK
  <2>3. \A f \in Execs : f # e => (Counts(f)' <=> Counts(f))
    BY Zenon, <2>1, <2>2, CountsSame DEF Handling
  <2>4. Counts(e)
    BY Zenon, <2>2 DEF Counts
  <2>5. ~Counts(e)'
    <3>1. call[e] = "count" => published[e] = 1 /\ ~Handling(e, "count")
      BY Zenon DEF Dealt, CountOK, Handling, Serving
    <3>2. CASE call[e] \in {"start", "unknown"} /\ call'[e] = "failed"
      BY Zenon, <3>2 DEF Counts
    <3>3. CASE call[e] = "count" /\ call'[e] = "up"
      <4>1. published'[e] = 1
        BY Zenon, <2>1, <3>1, <3>3
      <4>2. ~Handling(e, "count")'
        BY Zenon, <2>1, <3>1, <3>3 DEF Handling
      <4>3. published'[e] # 0
        BY <4>1
      <4> QED BY Zenon, <3>3, <4>2, <4>3 DEF Counts
    <3> QED BY Zenon, <2>2, <3>2, <3>3
  <2> QED BY Zenon, <2>1, <2>3, <2>4, <2>5, ExactDown
<1>7. ASSUME NEW p \in Procs, ProcessStarts(p) PROVE Exact'
  <2>1. UNCHANGED <<serviceExit, runningExecs, home, published>>
    BY Zenon, <1>7 DEF ProcessStarts
  <2>2. /\ call[p] = "start" /\ call'[p] = "sent"
        /\ \A f \in Execs : f # p => call'[f] = call[f]
                                     /\ (f \in started' <=> f \in started)
    BY Zenon, <1>7, ProcKinds DEF ProcessStarts, Typed, CallsOK
  <2>3. p \in Execs => Counts(p) /\ Counts(p)'
    BY Zenon, <2>2 DEF Counts
  <2> QED BY Zenon, <1>1, <2>1, <2>2, <2>3
<1>8. ASSUME NEW p \in Procs, Started(p) PROVE Exact'
  <2>1. UNCHANGED <<serviceExit, runningExecs, home, started>>
    BY Zenon, <1>8 DEF Started
  <2>2. \A f \in Execs : f # p => call'[f] = call[f] /\ published'[f] = published[f]
    BY Zenon, <1>8, ProcKinds DEF Started, HandleStarted, Typed, CallsOK, ExecsOK
  <2>3. ASSUME p \in Execs PROVE Counts(p) /\ Counts(p)'
    <3>1. call[p] = "sent" /\ p \in started /\ published[p] = 0
      BY Zenon, <1>8, <2>3 DEF Started, HandleStarted, Lives, PublishedCalls
    <3>2. call'[p] = "count" \/ (call'[p] = "up" /\ published'[p] = published[p])
      BY Zenon, <1>8, <2>3 DEF Started, HandleStarted, Typed, CallsOK
    <3> QED BY Zenon, <2>1, <3>1, <3>2 DEF Counts
  <2> QED BY Zenon, <1>1, <2>1, <2>2, <2>3
<1>9. CASE ServiceTakes
  <2>1. UNCHANGED <<call, runningExecs, home, started, published>>
    BY Zenon, <1>9 DEF ServiceTakes
  <2>2. \A f \in Execs : ~Handling(f, "count")
    BY Zenon, <1>9 DEF ServiceTakes, Handling
  <2>3. \A f \in Execs : ~Handling(f, "count")'
    <3>1. /\ \A f \in Procs : Serving(f)' => Head(ec) \in running
          /\ Head(ec) \in running => serviceExit'.step = "handle"
      BY Zenon, <1>9, ServiceTakesMoves
    <3> QED BY Zenon, <3>1, ProcKinds DEF Handling, Serving
  <2>4. \A f \in Execs : Counts(f)' <=> Counts(f)
    BY Zenon, <2>1, <2>2, <2>3, CountsSame
  <2> QED BY Zenon, <2>1, <2>4, ExactQuiet
<1>10. ASSUME NEW c \in Inits, HandleInitExit(c) PROVE Exact'
  <2>1. UNCHANGED <<call, runningExecs, home, started>>
    BY Zenon, <1>10 DEF HandleInitExit
  <2>2. \A f \in Execs : ~Handling(f, "count") /\ ~Handling(f, "count")'
    BY Zenon, <1>10 DEF HandleInitExit, Handling
  <2>3. \A f \in Execs : published'[f] = published[f]
    <3>1. UNCHANGED published \/ Publish(c)
      BY Zenon, <1>10 DEF HandleInitExit
    <3> QED BY Zenon, <3>1, ProcKinds DEF Typed, ExecsOK
  <2>4. \A f \in Execs : Counts(f)' <=> Counts(f)
    BY Zenon, <2>1, <2>2, <2>3, CountsSame
  <2> QED BY Zenon, <2>1, <2>4, ExactQuiet
<1>11. ASSUME NEW e \in Execs, HandleProcessExit(e) PROVE Exact'
  <2>1. UNCHANGED <<call, home, started>> /\ Serving(e) /\ e \in Procs
    BY Zenon, <1>11, ProcKinds DEF HandleProcessExit, Handling, Serving
  <2>2. call[e] \in {"up", "deleted"} /\ e \in started
    BY Zenon, <2>1 DEF Dealt, ServingOK, Lives
  <2>3. CASE serviceExit.step = "handle"
    <3>1. /\ published' = [published EXCEPT ![e] = @ + 1]
          /\ serviceExit' = [serviceExit EXCEPT !.step = "count"]
          /\ UNCHANGED runningExecs
      BY Zenon, <1>11, <2>3 DEF HandleProcessExit, Handling
    <3>2. serviceExit \in Handled /\ NoExit \notin Handled
      BY Zenon, <2>1, TaskAssumption DEF Serving, Typed, LoopsOK, Handled
    <3>3. serviceExit'.p = e /\ serviceExit'.step = "count" /\ serviceExit' # NoExit
      BY Zenon, <2>1, <3>1, <3>2 DEF Handled, Serving
    <3>4. Counts(e)'
      <4>1. Handling(e, "count")'
        BY Zenon, <3>3 DEF Handling
      <4> QED BY Zenon, <2>1, <2>2, <4>1 DEF Counts
    <3>5. Counts(e)
      <4>1. published[e] = 0
        BY Zenon, <2>1, <2>3 DEF Dealt, ServingOK
      <4> QED BY Zenon, <2>2, <4>1 DEF Counts
    <3>6. \A f \in Execs : f # e =>
             /\ published'[f] = published[f]
             /\ ~Handling(f, "count") /\ ~Handling(f, "count")'
      BY Zenon, <2>1, <2>3, <3>1, <3>3, ProcKinds DEF Typed, ExecsOK, Handling
    <3>7. \A f \in Execs : Counts(f)' <=> Counts(f)
      BY Zenon, <2>1, <3>4, <3>5, <3>6, CountsSame
    <3> QED BY Zenon, <2>1, <3>1, <3>7, ExactQuiet
  <2>4. CASE serviceExit.step # "handle"
    <3>1. /\ serviceExit' = NoExit /\ UNCHANGED published /\ CountDown(home[e])
          /\ Handling(e, "count")
      BY Zenon, <1>11, <2>4 DEF HandleProcessExit, Handling
    <3>2. published[e] = 1
      BY Zenon, <2>1, <2>4 DEF Dealt, ServingOK
    <3>3. Counts(e) /\ ~Counts(e)'
      <4>1. ~Handling(e, "count")' /\ published'[e] = 1
        BY Zenon, <3>1, <3>2 DEF Handling
      <4>2. Counts(e)
        BY Zenon, <2>2, <3>1 DEF Counts
      <4>3. call'[e] \notin {"start", "unknown", "sent", "count"}
        BY Zenon, <2>1, <2>2
      <4>4. published'[e] # 0
        BY <4>1
      <4> QED BY Zenon, <4>1, <4>2, <4>3, <4>4 DEF Counts
    <3>4. \A f \in Execs : f # e => ~Handling(f, "count") /\ ~Handling(f, "count")'
      BY Zenon, <3>1 DEF Handling
    <3>5. \A f \in Execs : f # e => (Counts(f)' <=> Counts(f))
      BY Zenon, <2>1, <3>1, <3>4, CountsSame
    <3> QED BY Zenon, <2>1, <3>1, <3>3, <3>5, ExactDown
  <2> QED BY Zenon, <2>3, <2>4
<1>12. ASSUME NEW c \in Inits, Waiter(c) PROVE Exact'
  <2>1. UNCHANGED <<call, home, serviceExit, started>>
    BY Zenon, <1>12 DEF Waiter
  <2>2. \A f \in Execs : published'[f] = published[f]
    <3>1. UNCHANGED published \/ Publish(c)
      BY Zenon, <1>12 DEF Waiter
    <3> QED BY Zenon, <3>1, ProcKinds DEF Typed, ExecsOK
  <2>3. \A f \in Execs : Counts(f)' <=> Counts(f)
    BY Zenon, <2>1, <2>2, CountsSame DEF Handling
  <2>4. CASE Head(subscribers[c].buf) # 0
    <3>1. UNCHANGED runningExecs
      BY Zenon, <1>12, <2>4 DEF Waiter
    <3> QED BY Zenon, <2>1, <2>3, <3>1, ExactQuiet
  <2>5. CASE Head(subscribers[c].buf) = 0
    <3>1. /\ subscribers[c] # NoChan /\ subscribers[c].buf # <<>>
          /\ runningExecs' = [runningExecs EXCEPT ![c] = 0]
      BY Zenon, <1>12, <2>5 DEF Waiter
    <3>2. \A d \in Inits : Counted(d)' = Counted(d)
      BY Zenon, <2>1, <2>3 DEF Counted
    <3>3. \A d \in Inits : ~Dropped(d)' => ~Dropped(d)
      BY Zenon, DroppedStays
    <3>4. ASSUME NEW d \in Inits, ~Dropped(d)
          PROVE  runningExecs'[d] = runningExecs[d]
      <4>1. CASE d = c
        BY Zenon, <2>5, <3>1, <3>4, <4>1, ZeroReceived DEF Typed, ExecsOK
      <4>2. CASE d # c
        BY Zenon, <3>1, <4>2 DEF Typed, ExecsOK
      <4> QED BY Zenon, <4>1, <4>2
    <3> QED BY Zenon, <3>2, <3>3, <3>4 DEF Exact
  <2> QED BY Zenon, <2>4, <2>5
<1>13. CASE PreventExit
  <2> DEFINE p == wrapperExit.p
  <2>1. /\ UNCHANGED <<call, home, serviceExit, started, published>>
        /\ runningExecs' = [runningExecs EXCEPT ![Container(p)] = 0]
        /\ swallowed' = swallowed \cup {p}
    BY Zenon, <1>13 DEF PreventExit
  <2>2. p \in Procs
    BY Zenon, <1>13, PreventExitMoves
  <2> HIDE DEF p
  <2>3. \A f \in Execs : Counts(f)' <=> Counts(f)
    BY Zenon, <2>1, CountsSame DEF Handling
  <2>4. \A d \in Inits : Counted(d)' = Counted(d)
    BY Zenon, <2>1, <2>3 DEF Counted
  <2>5. \A d \in Inits : ~Dropped(d)' => ~Dropped(d)
    BY Zenon, DroppedStays
  <2>6. \A d \in Inits : ~Dropped(d)' => d # Container(p)
    BY Zenon, <2>1, <2>2, ProcKinds DEF Dropped, Container
  <2>7. \A d \in Inits : d # Container(p) => runningExecs'[d] = runningExecs[d]
    BY Zenon, <2>1 DEF Typed, ExecsOK
  <2> QED BY Zenon, <2>4, <2>5, <2>6, <2>7 DEF Exact
<1>14. ASSUME NEW e \in Execs, StartExec(e) PROVE Exact'
  BY Zenon, <1>14, ExactUp
<1> QED
  BY Zenon, <1>2, <1>3, <1>4, <1>5, <1>6, <1>7, <1>8, <1>9, <1>10, <1>11,
     <1>12, <1>13, <1>14
     DEF Next, CallStep, WrapperStep, ServiceStep

-----------------------------------------------------------------------------
(* The channel of handleInitExit. *)

\* The counter of a runc.Container whose init process has exited is never
\* dropped, and so not negative: the wrapper keeps back the exits of a container
\* that is scaled down, and its init process is not handled.
LEMMA HandledExact ==
    ASSUME Typed, Dealt, Scaled, Dumped, Exact, NEW c \in Inits, initExit[c]
    PROVE  /\ ~Dropped(c) /\ runningExecs[c] = Cardinality(Counted(c))
           /\ runningExecs[c] \in Nat
<1>1. ~Gone(c) /\ c \notin swallowed
  BY Zenon DEF Dumped, GoneOK, Dealt, InitExitOK
<1>2. ~Dropped(c)
  BY Zenon, <1>1 DEF Dropped, Scaled
<1> QED BY Zenon, <1>2, CountedFinite DEF Exact

\* What Sends says of one channel, with the count n.
SendsOK(ch, n) ==
    /\ ch.cap > 0
    /\ Len(ch.buf) + n <= ch.cap
    /\ \A k \in 1..Len(ch.buf) : ch.buf[k] = n + Len(ch.buf) - k

\* A channel stays so when the count goes down and is sent, and when it is
\* received from.
LEMMA SendsOKSteps ==
    ASSUME NEW ch \in Channels, NEW n \in Int, SendsOK(ch, n)
    PROVE  /\ SendsOK([ch EXCEPT !.buf = Append(ch.buf, n - 1)], n - 1)
           /\ ch.buf # <<>> => SendsOK([ch EXCEPT !.buf = Tail(ch.buf)], n)
<1> DEFINE buf == ch.buf
<1>1. buf \in Seq(Int) /\ ch.cap \in Int /\ Len(buf) \in Nat
  BY DEF Channels
<1>2. /\ ch.cap > 0 /\ Len(buf) + n <= ch.cap
      /\ \A k \in 1..Len(buf) : buf[k] = n + Len(buf) - k
  BY Zenon DEF SendsOK
<1>3. SendsOK([ch EXCEPT !.buf = Append(ch.buf, n - 1)], n - 1)
  <2> DEFINE s == Append(buf, n - 1)
             d == [ch EXCEPT !.buf = Append(ch.buf, n - 1)]
  <2>1. d.buf = s /\ d.cap = ch.cap
    BY Zenon DEF Channels
  <2>2. /\ s \in Seq(Int) /\ Len(s) = Len(buf) + 1
        /\ \A k \in 1..Len(buf) : s[k] = buf[k]
        /\ s[Len(buf) + 1] = n - 1
    BY <1>1
  <2> HIDE DEF s, d, buf
  <2>3. \A k \in 1..Len(s) : s[k] = (n - 1) + Len(s) - k
    <3> SUFFICES ASSUME NEW k \in 1..Len(s) PROVE s[k] = (n - 1) + Len(s) - k
      BY Zenon
    <3>1. CASE k = Len(buf) + 1
      BY <1>1, <2>2, <3>1
    <3>2. CASE k # Len(buf) + 1
      <4>1. k \in 1..Len(buf)
        BY <1>1, <2>2, <3>2
      <4>2. s[k] = n + Len(buf) - k
        BY Zenon, <1>2, <2>2, <4>1
      <4> QED BY <1>1, <2>2, <4>1, <4>2
    <3> QED BY Zenon, <3>1, <3>2
  <2>4. Len(s) + (n - 1) <= ch.cap
    BY <1>1, <1>2, <2>2
  <2> QED BY Zenon, <1>2, <2>1, <2>3, <2>4 DEF SendsOK, d
<1>4. ASSUME buf # <<>>
      PROVE  SendsOK([ch EXCEPT !.buf = Tail(ch.buf)], n)
  <2> DEFINE s == Tail(buf)
             d == [ch EXCEPT !.buf = Tail(ch.buf)]
  <2>1. d.buf = s /\ d.cap = ch.cap
    BY Zenon DEF Channels
  <2>2. /\ s \in Seq(Int) /\ Len(s) = Len(buf) - 1
        /\ \A k \in 1..Len(s) : s[k] = buf[k + 1]
    BY <1>1, <1>4
  <2> HIDE DEF s, d, buf
  <2>3. \A k \in 1..Len(s) : s[k] = n + Len(s) - k
    BY <1>1, <1>2, <2>2
  <2>4. Len(s) + n <= ch.cap
    BY <1>1, <1>2, <2>2
  <2> QED BY Zenon, <1>2, <2>1, <2>3, <2>4 DEF SendsOK, d
<1> QED BY Zenon, <1>3, <1>4

\* The steps that leave the channels and the counters alone.
LEMMA SendSteps ==
    ASSUME [Next]_vars
    PROVE  \/ UNCHANGED <<subscribers, runningExecs>>
           \/ \E e \in Execs : \/ StartExec(e) \/ ExecFails(e) \/ StartedCounts(e)
                               \/ HandleProcessExit(e)
           \/ \E c \in Inits : HandleInitExit(c) \/ Waiter(c)
           \/ PreventExit
<1> DEFINE Kept == UNCHANGED <<subscribers, runningExecs>>
<1>1. ASSUME Create \/ Created \/ StartInit \/ InitFails PROVE Kept
  BY Zenon, <1>1 DEF Create, Created, StartInit, InitFails
<1>2. ASSUME NEW e \in Execs,
             Exec(e) \/ ExecAdded(e) \/ StartRefused(e) \/ Delete(e)
      PROVE  Kept
  BY Zenon, <1>2 DEF Exec, ExecAdded, StartRefused, Delete
<1>3. ASSUME NEW p \in Procs, ProcessStarts(p) \/ Started(p) \/ Dies(p) PROVE Kept
  BY Zenon, <1>3 DEF ProcessStarts, Started, Dies
<1>4. ASSUME NEW c \in Inits, PostRestore(c) PROVE Kept
  BY Zenon, <1>4 DEF PostRestore
<1>5. ASSUME \/ TimerFires \/ Dump \/ DumpFails \/ ScaledDown \/ Restored
             \/ WrapperTakes \/ PassOn \/ ServiceTakes
      PROVE  Kept
  BY Zenon, <1>5 DEF TimerFires, Dump, DumpFails, ScaledDown, Restored,
                     WrapperTakes, PassOn, ServiceTakes
<1>6. ASSUME UNCHANGED vars PROVE Kept
  BY Zenon, <1>6 DEF vars
<1> QED
  BY Zenon, <1>1, <1>2, <1>3, <1>4, <1>5, <1>6
     DEF Next, CallStep, WrapperStep, ServiceStep

\* The channel of handleInitExit holds the counts that are still to be received,
\* down to the current one, and has room for the rest.
LEMMA SendsStep ==
    Typed /\ Lives /\ Dealt /\ Exact /\ Sends /\ [Next]_vars => Sends'
<1> SUFFICES ASSUME Typed, Lives, Dealt, Exact, Sends, [Next]_vars PROVE Sends'
  BY Zenon
<1>1. \A c \in Inits : subscribers[c] # NoChan /\ ~Dropped(c) =>
         subscribers[c] \in Channels /\ SendsOK(subscribers[c], runningExecs[c])
  BY Zenon DEF Sends, SendsOK, Typed, ExecsOK
<1>2. ASSUME \A c \in Inits : subscribers'[c] # NoChan /\ ~Dropped(c) =>
                SendsOK(subscribers'[c], runningExecs'[c])
      PROVE  Sends'
  <2>1. \A c \in Inits : ~Dropped(c)' => ~Dropped(c)
    BY Zenon, DroppedStays
  <2>2. \A c \in Inits : subscribers'[c] # NoChan /\ ~Dropped(c)' =>
           SendsOK(subscribers'[c], runningExecs'[c])
    BY Zenon, <1>2, <2>1
  <2> QED BY Zenon, <2>2 DEF Sends, SendsOK
<1>3. \A c \in Inits : runningExecs[c] \in Int
  BY Zenon DEF Typed, ExecsOK
<1>4. ASSUME UNCHANGED <<subscribers, runningExecs>> PROVE Sends'
  BY Zenon, <1>1, <1>2, <1>4
<1>5. ASSUME NEW c \in Inits, CountDown(c) PROVE Sends'
  <2>1. \A d \in Inits : d # c => /\ subscribers'[d] = subscribers[d]
                                  /\ runningExecs'[d] = runningExecs[d]
    BY Zenon, <1>5 DEF CountDown, Typed, ExecsOK
  <2>2. runningExecs'[c] = runningExecs[c] - 1
    BY Zenon, <1>5 DEF CountDown, Typed, ExecsOK
  <2>3. subscribers[c] = NoChan => subscribers'[c] = NoChan
    BY Zenon, <1>5 DEF CountDown
  <2>4. ASSUME subscribers[c] # NoChan
        PROVE  subscribers'[c] = [subscribers[c] EXCEPT
                  !.buf = Append(subscribers[c].buf, runningExecs[c] - 1)]
    BY Zenon, <1>5, <2>4 DEF CountDown, Typed, ExecsOK
  <2>5. subscribers[c] # NoChan /\ ~Dropped(c) =>
           SendsOK(subscribers'[c], runningExecs'[c])
    BY Zenon, <1>1, <1>3, <2>2, <2>4, SendsOKSteps
  <2> QED BY Zenon, <1>1, <1>2, <2>1, <2>3, <2>5
<1>6. ASSUME NEW e \in Execs, StartExec(e) PROVE Sends'
  <2>1. ~initExit[containers] /\ containers \in Inits /\ UNCHANGED subscribers
    BY Zenon, <1>6 DEF StartExec, Typed, CallsOK
  <2>2. subscribers[containers] = NoChan
    BY Zenon, <2>1 DEF Dealt, SubscribersOK, WaitersOK
  <2>3. \A d \in Inits : d # containers => runningExecs'[d] = runningExecs[d]
    BY Zenon, <1>6 DEF StartExec, Typed, ExecsOK
  <2> QED BY Zenon, <1>1, <1>2, <2>1, <2>2, <2>3
<1>7. ASSUME NEW e \in Execs, ExecFails(e) \/ StartedCounts(e) PROVE Sends'
  <2>1. CountDown(home[e]) /\ home[e] \in Inits
    BY Zenon, <1>7 DEF ExecFails, StartedCounts, Typed, CallsOK
  <2> QED BY Zenon, <1>5, <2>1
<1>8. ASSUME NEW e \in Execs, HandleProcessExit(e) PROVE Sends'
  <2>1. UNCHANGED <<subscribers, runningExecs>> \/ CountDown(home[e])
    BY Zenon, <1>8 DEF HandleProcessExit
  <2>2. home[e] \in Inits
    BY Zenon DEF Typed, CallsOK
  <2> QED BY Zenon, <1>4, <1>5, <2>1, <2>2
<1>9. ASSUME NEW c \in Inits, HandleInitExit(c) PROVE Sends'
  <2>1. UNCHANGED runningExecs
    BY Zenon, <1>9 DEF HandleInitExit
  <2>2. CASE runningExecs[c] = 0
    BY Zenon, <1>4, <1>9, <2>1, <2>2 DEF HandleInitExit
  <2>3. CASE runningExecs[c] # 0
    <3>1. subscribers' = [subscribers EXCEPT
                             ![c] = [buf |-> <<>>, cap |-> runningExecs[c]]]
      BY Zenon, <1>9, <2>3 DEF HandleInitExit
    <3>2. /\ subscribers'[c] = [buf |-> <<>>, cap |-> runningExecs[c]]
          /\ \A d \in Inits : d # c => subscribers'[d] = subscribers[d]
      BY Zenon, <3>1 DEF Typed, ExecsOK
    <3>3. ~Dropped(c) => runningExecs[c] \in Nat
      BY Zenon, CountedFinite DEF Exact
    <3>4. ~Dropped(c) => SendsOK(subscribers'[c], runningExecs'[c])
      BY <2>1, <2>3, <3>2, <3>3 DEF SendsOK
    <3> QED BY Zenon, <1>1, <1>2, <2>1, <3>2, <3>4
  <2> QED BY Zenon, <2>2, <2>3
<1>10. ASSUME NEW c \in Inits, Waiter(c) PROVE Sends'
  <2>1. subscribers[c] # NoChan /\ subscribers[c].buf # <<>>
    BY Zenon, <1>10 DEF Waiter
  <2>2. CASE Head(subscribers[c].buf) = 0
    <3>1. /\ subscribers' = [subscribers EXCEPT ![c] = NoChan]
          /\ runningExecs' = [runningExecs EXCEPT ![c] = 0]
      BY Zenon, <1>10, <2>2 DEF Waiter
    <3>2. /\ subscribers'[c] = NoChan
          /\ \A d \in Inits : d # c => /\ subscribers'[d] = subscribers[d]
                                       /\ runningExecs'[d] = runningExecs[d]
      BY Zenon, <3>1 DEF Typed, ExecsOK
    <3> QED BY Zenon, <1>1, <1>2, <3>2
  <2>3. CASE Head(subscribers[c].buf) # 0
    <3>1. /\ subscribers' = [subscribers EXCEPT ![c].buf = Tail(@)]
          /\ UNCHANGED runningExecs
      BY Zenon, <1>10, <2>3 DEF Waiter
    <3>2. /\ subscribers'[c] = [subscribers[c] EXCEPT !.buf = Tail(subscribers[c].buf)]
          /\ \A d \in Inits : d # c => subscribers'[d] = subscribers[d]
      BY Zenon, <3>1 DEF Typed, ExecsOK
    <3>3. ~Dropped(c) => SendsOK(subscribers'[c], runningExecs'[c])
      BY Zenon, <1>1, <1>3, <2>1, <3>1, <3>2, SendsOKSteps
    <3> QED BY Zenon, <1>1, <1>2, <3>1, <3>2, <3>3
  <2> QED BY Zenon, <2>2, <2>3
<1>11. ASSUME PreventExit PROVE Sends'
  <2> DEFINE c == Container(wrapperExit.p)
  <2>1. /\ subscribers' = [subscribers EXCEPT ![c] = NoChan]
        /\ runningExecs' = [runningExecs EXCEPT ![c] = 0]
    BY Zenon, <1>11 DEF PreventExit
  <2>2. \A d \in Inits : \/ subscribers'[d] = NoChan
                         \/ /\ subscribers'[d] = subscribers[d]
                            /\ runningExecs'[d] = runningExecs[d]
    BY Zenon, <2>1 DEF Typed, ExecsOK
  <2> QED BY Zenon, <1>1, <1>2, <2>2
<1> QED
  BY Zenon, <1>4, <1>6, <1>7, <1>8, <1>9, <1>10, <1>11, SendSteps

-----------------------------------------------------------------------------
(* The exit of the init process is the last one. *)

\* A start is published by the call that starts the process.
LEMMA StartedSteps ==
    ASSUME [Next]_vars, NEW q, q \in started', q \notin started
    PROVE  ProcessStarts(q)
<1> DEFINE Kept == UNCHANGED started
<1>1. ASSUME \/ Create \/ Created \/ StartInit \/ InitFails
             \/ TimerFires \/ Dump \/ DumpFails \/ ScaledDown \/ Restored
             \/ WrapperTakes \/ PreventExit \/ PassOn \/ ServiceTakes
      PROVE  Kept
  BY Zenon, <1>1 DEF Create, Created, StartInit, InitFails, TimerFires, Dump,
     DumpFails, ScaledDown, Restored, WrapperTakes, PreventExit, PassOn,
     ServiceTakes
<1>2. ASSUME NEW e \in Execs,
             Exec(e) \/ ExecAdded(e) \/ StartExec(e) \/ StartRefused(e)
               \/ ExecFails(e) \/ StartedCounts(e) \/ Delete(e)
               \/ HandleProcessExit(e)
      PROVE  Kept
  BY Zenon, <1>2 DEF Exec, ExecAdded, StartExec, StartRefused, ExecFails,
                     StartedCounts, Delete, HandleProcessExit
<1>3. ASSUME NEW p \in Procs, Started(p) \/ Dies(p) PROVE Kept
  BY Zenon, <1>3 DEF Started, Dies
<1>4. ASSUME NEW c \in Inits, PostRestore(c) \/ HandleInitExit(c) \/ Waiter(c)
      PROVE  Kept
  BY Zenon, <1>4 DEF PostRestore, HandleInitExit, Waiter
<1>5. ASSUME NEW p \in Procs, ProcessStarts(p) PROVE p = q
  BY Zenon, <1>5 DEF ProcessStarts
<1>6. ASSUME UNCHANGED vars PROVE Kept
  BY Zenon, <1>6 DEF vars
<1> QED
  BY Zenon, <1>1, <1>2, <1>3, <1>4, <1>5, <1>6
     DEF Next, CallStep, WrapperStep, ServiceStep

\* When no session of a runc.Container is counted, the exits of all that were
\* started have been published.
LEMMA NoneCounted ==
    ASSUME Lives, NEW c \in Inits, Counted(c) = {}, NEW e \in Execs,
           home[e] = c, e \in started
    PROVE  published[e] # 0
<1>1. ~Counts(e)
  BY Zenon DEF Counted
<1> QED BY Zenon, <1>1 DEF Counts, Lives

\* The exit of an init process is published after those of all sessions of its
\* runc.Container, and none is started there afterwards.
LEMMA InitLastStep ==
    Typed /\ Order /\ Lives /\ OnePlace /\ OnItsWay /\ Dealt /\ Scaled /\ Exact
        /\ Sends /\ Dumped /\ InitLast /\ [Next]_vars => InitLast'
<1> SUFFICES ASSUME Typed, Order, Lives, OnePlace, OnItsWay, Dealt, Scaled,
                    Exact, Sends, Dumped, InitLast, [Next]_vars,
                    NEW c \in Inits, NEW e \in Execs,
                    published'[c] = 1, home'[e] = c, e \in started'
             PROVE  published'[e] = 1
  BY Zenon DEF InitLast
<1>1. c \in Procs /\ e \in Procs /\ c \notin Execs
  BY Zenon, ProcKinds
<1>2. Dealt'
  BY Zenon, DealtStep
<1>3. ASSUME published[e] # 0 PROVE published'[e] = 1
  <2>1. published[e] \in Nat /\ published[e] > 0
    BY <1>1, <1>3 DEF Typed, ExecsOK
  <2>2. published'[e] # 0
    BY <1>1, <2>1, Publishes
  <2> QED BY Zenon, <1>1, <1>2, <2>2 DEF Dealt, PublishedOK
<1>4. CASE e \in started
  <2>1. home[e] = c
    BY Zenon, <1>4, HomeStays
  <2>2. call[0] = "up"
    BY Zenon, <1>4 DEF Lives, Order
  <2>3. CASE published[c] = 1
    BY <1>3, <1>4, <2>1, <2>3 DEF InitLast
  <2>4. ASSUME initExit[c], Counted(c) = {} PROVE published'[e] = 1
    BY Zenon, <1>3, <1>4, <2>1, <2>4, NoneCounted
  <2>5. CASE published[c] # 1
    <3>1. \/ Created \/ InitFails
          \/ c \in early /\ Started(c)
          \/ HandleInitExit(c) /\ runningExecs[c] = 0
          \/ Waiter(c) /\ Head(subscribers[c].buf) = 0
      BY Zenon, <1>1, <2>5, Publishes
    <3>2. ~Created /\ ~InitFails
      BY Zenon, <2>2 DEF Created, InitFails, HandleStarted
    <3>3. ~Started(c)
      BY Zenon, <2>2, ProcKinds DEF Started, HandleStarted, Order, Typed, CallsOK
    <3>4. CASE HandleInitExit(c) /\ runningExecs[c] = 0
      <4>1. initExit[c]
        BY Zenon, <1>1, <3>4 DEF HandleInitExit, Handling, Serving, Dealt, ServingOK
      <4>2. Cardinality(Counted(c)) = 0
        BY Zenon, <3>4, <4>1, HandledExact
      <4>3. Counted(c) = {}
        BY Zenon, <4>2, CountedFinite
      <4> QED BY Zenon, <2>4, <4>1, <4>3
    <3>5. CASE Waiter(c) /\ Head(subscribers[c].buf) = 0
      <4>1. c \in waiters /\ subscribers[c] # NoChan /\ subscribers[c].buf # <<>>
        BY Zenon, <3>5 DEF Waiter
      <4>2. initExit[c]
        BY Zenon, <4>1 DEF Dealt, WaitersOK
      <4>3. ~Dropped(c)
        BY Zenon, <4>2, HandledExact
      <4>4. Counted(c) = {}
        BY Zenon, <3>5, <4>1, <4>3, ZeroReceived
      <4> QED BY Zenon, <2>4, <4>2, <4>4
    <3> QED BY Zenon, <3>1, <3>2, <3>3, <3>4, <3>5
  <2> QED BY Zenon, <2>3, <2>5
<1>5. CASE e \notin started
  <2>1. ProcessStarts(e)
    BY Zenon, <1>5, StartedSteps
  <2>2. published[c] = 1 /\ home[e] = c /\ life[Current] = "alive"
    BY Zenon, <2>1 DEF ProcessStarts
  <2>3. ~Gone(c) /\ life[c] = "dead"
    <3>1. published[c] # 0
      BY <2>2
    <3>2. life[c] = "dead"
      BY Zenon, <1>1, <3>1, ProcKinds DEF Dealt, PublishedOK
    <3>3. ~Gone(c)
      BY Zenon, <1>1, <3>1 DEF Dumped, GoneOK
    <3> QED BY Zenon, <3>2, <3>3
  <2>4. c <= containers /\ containers <= Current /\ Current \in Inits
    BY SMTT(30), <2>2, CurrentIs DEF Order, Typed
  <2>5. c \in Nat /\ containers \in Nat /\ Current \in Nat
    BY Zenon, <2>4, ProcKinds DEF Typed, CallsOK
  <2>6. c = Current
    BY <2>3, <2>4, <2>5 DEF Gone
  <2> QED BY Zenon, <2>2, <2>3, <2>6
<1> QED BY Zenon, <1>4, <1>5

-----------------------------------------------------------------------------
(* The theorems. *)

\* Every step keeps IInv.
LEMMA IInvStep == IInv /\ [Next]_vars => IInv'
<1> SUFFICES ASSUME IInv, [Next]_vars PROVE IInv'
  BY Zenon
<1>1. /\ Typed /\ Order /\ Lives /\ OnePlace /\ OnItsWay /\ Dealt
      /\ PublishedCalls /\ Scaled /\ Exact /\ Sends
  BY Zenon DEF IInv
<1>2. Typed' /\ Order' /\ Lives' /\ OnePlace' /\ OnItsWay' /\ Dealt'
  BY Zenon, <1>1, TypedStep, OrderStep, LivesStep, OnePlaceStep, OnItsWayStep,
     DealtStep
<1>3. PublishedCalls' /\ Scaled' /\ Exact' /\ Sends'
  BY Zenon, <1>1, PublishedCallsStep, ScaledStep, ExactStep, SendsStep
<1> QED BY Zenon, <1>2, <1>3 DEF IInv

\* Every step keeps DumpInv.
LEMMA DumpInvStep ==
    ASSUME "kill" \notin Faults
    PROVE  DumpInv /\ [Next]_vars => DumpInv'
<1> SUFFICES ASSUME DumpInv, [Next]_vars PROVE DumpInv'
  BY Zenon
<1>1. /\ Typed /\ Order /\ Lives /\ OnePlace /\ OnItsWay /\ Dealt
      /\ Scaled /\ Exact /\ Sends /\ Dumped /\ InitLast /\ IInv
  BY Zenon DEF DumpInv, IInv
<1>2. IInv'
  BY Zenon, <1>1, IInvStep
<1>3. Dumped' /\ InitLast'
  BY Zenon, <1>1, DumpedStep, InitLastStep
<1> QED BY Zenon, <1>2, <1>3 DEF DumpInv

\* An exit is published once, after the start of its process.
LEMMA OnceFollows == IInv => PublishedOnce
<1> SUFFICES ASSUME IInv PROVE PublishedOnce
  BY Zenon
<1>1. Typed /\ Lives /\ Dealt
  BY Zenon DEF IInv
<1>2. \A p \in Procs : published[p] \in {0, 1}
  BY Zenon, <1>1 DEF Dealt, PublishedOK
<1>3. \A p \in Procs : published[p] <= 1
  BY <1>2
<1>4. \A e \in Execs : published[e] = 1 => e \in started
  BY <1>1, ProcKinds DEF Dealt, PublishedOK, Lives
<1> QED BY Zenon, <1>3, <1>4 DEF PublishedOnce

\* The exit of an init process is published last.
LEMMA OrderFollows == DumpInv => ExitOrder
<1> SUFFICES ASSUME DumpInv PROVE ExitOrder
  BY Zenon
<1>1. /\ Typed /\ Lives /\ Dealt /\ Scaled /\ Exact /\ Sends /\ Dumped
      /\ InitLast
  BY Zenon DEF DumpInv, IInv
<1>2. \A p \in Procs : published[p] \in {0, 1}
  BY Zenon, <1>1 DEF Dealt, PublishedOK
<1>3. published \in [Procs -> 0..2]
  BY <1>1, <1>2 DEF Typed, ExecsOK
<1>4. ASSUME NEW c \in Inits, subscribers[c] # NoChan
      PROVE  subscribers[c].buf \in Seq(Int) /\ subscribers[c].cap \in Nat
  <2>1. ~Dropped(c)
    BY Zenon, <1>1, <1>4, HandledExact DEF Dealt, SubscribersOK, WaitersOK
  <2> QED BY <1>1, <1>4, <2>1 DEF Typed, ExecsOK, Channels, Sends
<1>5. TypeOK
  BY Zenon, <1>1, <1>3, <1>4
     DEF TypeOK, Typed, Flags, CallsOK, SetsOK, ExecsOK, LoopsOK, Lives
<1>6. \A p \in Procs : published[p] <= 1
  BY <1>2
<1>7. \A e \in Execs : published[e] = 1 => e \in started
  BY <1>1, ProcKinds DEF Dealt, PublishedOK, Lives
<1> QED BY Zenon, <1>1, <1>5, <1>6, <1>7 DEF ExitOrder, InitLast

\* Every send finds room.
LEMMA RoomFollows == DumpInv => Room
<1> SUFFICES ASSUME DumpInv, NEW c \in Inits, subscribers[c] # NoChan
             PROVE  /\ subscribers[c].cap > 0
                    /\ Len(subscribers[c].buf) <= subscribers[c].cap
  BY Zenon DEF Room
<1>1. Typed /\ Dealt /\ Scaled /\ Exact /\ Sends /\ Dumped
  BY Zenon DEF DumpInv, IInv
<1>2. initExit[c]
  BY Zenon, <1>1 DEF Dealt, SubscribersOK, WaitersOK
<1>3. ~Dropped(c) /\ runningExecs[c] \in Nat
  BY Zenon, <1>1, <1>2, HandledExact
<1>4. subscribers[c].buf \in Seq(Int) /\ subscribers[c].cap \in Int
  BY Zenon, <1>1 DEF Typed, ExecsOK, Channels
<1>5. /\ subscribers[c].cap > 0
      /\ Len(subscribers[c].buf) + runningExecs[c] <= subscribers[c].cap
  BY Zenon, <1>1, <1>3 DEF Sends
<1> QED BY <1>3, <1>4, <1>5

\* Only Delete makes a session a deleted one.
LEMMA DeletedSteps ==
    ASSUME Typed, [Next]_vars, NEW f \in Execs, call[f] # "deleted",
           call'[f] = "deleted"
    PROVE  Delete(f)
<1> USE ZeroInit, ProcKinds DEF Typed, CallsOK
<1>1. ASSUME \/ Create \/ Created \/ StartInit \/ InitFails \/ Restored
             \/ \E c \in Inits : PostRestore(c)
      PROVE  FALSE
  BY Zenon, <1>1 DEF Create, Created, StartInit, InitFails, HandleStarted, Restored,
              PostRestore
<1>2. ASSUME NEW e \in Execs,
             Exec(e) \/ ExecAdded(e) \/ StartExec(e) \/ StartRefused(e)
               \/ ExecFails(e) \/ StartedCounts(e)
      PROVE  FALSE
  BY Zenon, <1>2 DEF Exec, ExecAdded, StartExec, StartRefused, ExecFails, StartedCounts
<1>3. ASSUME NEW p \in Procs, ProcessStarts(p) \/ Started(p) PROVE FALSE
  BY Zenon, <1>3 DEF ProcessStarts, Started, HandleStarted
<1>4. ASSUME NEW e \in Execs, Delete(e) PROVE e = f
  BY Zenon, <1>4 DEF Delete
<1>5. ASSUME \/ TimerFires \/ Dump \/ DumpFails \/ ScaledDown
             \/ WrapperTakes \/ PreventExit \/ PassOn \/ ServiceTakes
             \/ \E p \in Procs : Dies(p)
             \/ \E c \in Inits : HandleInitExit(c) \/ Waiter(c)
             \/ \E e \in Execs : HandleProcessExit(e)
             \/ UNCHANGED vars
      PROVE  UNCHANGED call
  BY Zenon, <1>5 DEF TimerFires, Dump, DumpFails, ScaledDown, WrapperTakes,
     PreventExit, PassOn, ServiceTakes, Dies, HandleInitExit, Waiter,
     HandleProcessExit, vars
<1> QED
  BY Zenon, <1>1, <1>2, <1>3, <1>4, <1>5
     DEF Next, CallStep, WrapperStep, ServiceStep

\* A session that runs in the container in use.
Running(f) ==
    call[f] = "up" /\ life[f] = "alive" /\ home[f] = Current
        /\ life[Current] = "alive"

\* What SessionsKeepAwake says of one step.
Awake ==
    \A e \in Execs :
        (call[e] \in {"up", "failed"} /\ call'[e] = "deleted" /\ ~timer /\ timer')
            => \A f \in Execs \ {e} : ~Running(f)

\* No Delete arms the timer while another session runs.
LEMMA AwakeFollows == IInv /\ [Next]_vars => [Awake]_vars
<1> SUFFICES ASSUME IInv, [Next]_vars, NEW e \in Execs,
                    call[e] \in {"up", "failed"}, call'[e] = "deleted", ~timer,
                    timer', NEW f \in Execs, Running(f)
             PROVE  FALSE
  BY Zenon DEF Awake
<1>1. Typed /\ Lives /\ Dealt /\ Scaled /\ Exact /\ Flags
  BY Zenon DEF IInv, Typed
<1>2. Delete(e)
  BY Zenon, <1>1, DeletedSteps
<1>3. runningExecs[Current] = 0
  BY Zenon, <1>2 DEF Delete
<1>4. Current \in Inits
  BY Zenon, <1>1, CurrentInit DEF Typed
<1>5. ~Gone(Current) /\ Current \notin swallowed
  BY Zenon, <1>1, <1>4 DEF Scaled, Dealt, SwallowedOK, Running
<1>6. ~Dropped(Current)
  BY Zenon, <1>1, <1>5 DEF Dropped, Scaled
<1>7. Cardinality(Counted(Current)) = 0
  BY Zenon, <1>1, <1>3, <1>4, <1>6 DEF Exact
<1>8. Counted(Current) = {}
  BY Zenon, <1>1, <1>7, CountedFinite
<1>9. f \in started /\ f \in Procs
  BY Zenon, <1>1, ProcKinds DEF Lives, Running
<1>10. published[f] # 0
  BY Zenon, <1>1, <1>4, <1>8, <1>9, NoneCounted DEF Running
<1> QED BY Zenon, <1>1, <1>9, <1>10 DEF Dealt, PublishedOK, Running

INSTANCE FiniteSetTheorems

\* The processes are finitely many, and so are those with some property.
LEMMA FinitelyMany == \A K \in SUBSET Procs : IsFiniteSet(K)
<1>1. IsFiniteSet(Inits)
  BY TaskAssumption, FS_Interval DEF Inits
<1>2. IsFiniteSet(Execs)
  BY Zenon, TaskAssumption
<1>3. IsFiniteSet(Procs)
  BY Zenon, <1>1, <1>2, FS_Union DEF Procs
<1> QED BY Zenon, <1>3, FS_Subset

\* The sizes of sets of processes are what Cardinals says.
LEMMA CardinalsHold == Cardinals
<1> SUFFICES ASSUME NEW K \in SUBSET Procs
             PROVE  /\ Cardinality(K) \in Nat
                    /\ Cardinality(K) = 0 => K = {}
                    /\ \A p \in K : Cardinality(K \ {p}) = Cardinality(K) - 1
                    /\ \A p \in Procs \ K :
                          Cardinality(K \cup {p}) = Cardinality(K) + 1
                    /\ \A order : Ordering(order, K) =>
                          \A j, k \in 1..Cardinality(K) :
                              order[j] = order[k] => j = k
  BY Zenon DEF Cardinals
<1> DEFINE n == Cardinality(K)
<1>1. IsFiniteSet(K)
  BY Zenon, FinitelyMany
<1>2. n \in Nat /\ IsFiniteSet(1..n) /\ Cardinality(1..n) = n
  BY <1>1, FS_CardinalityType, FS_Interval
<1>3. n = 0 => K = {}
  BY Zenon, <1>1, FS_EmptySet
<1>4. \A p \in K : Cardinality(K \ {p}) = n - 1
  BY Zenon, <1>1, FS_RemoveElement
<1>5. \A p \in Procs \ K : Cardinality(K \cup {p}) = n + 1
  BY Zenon, <1>1, FS_AddElement
<1>6. ASSUME NEW order, Ordering(order, K)
      PROVE  \A j, k \in 1..n : order[j] = order[k] => j = k
  <2>1. order \in [1..n -> K] /\ (\A p \in K : \E k \in 1..n : order[k] = p)
    BY Zenon, <1>6 DEF Ordering
  <2>2. Cardinality(1..n) = Cardinality(K)
    BY Zenon, <1>2
  <2> HIDE DEF n
  <2>3. order \in Surjection(1..n, K)
    BY Zenon, <2>1 DEF Surjection
  <2>4. order \in Injection(1..n, K)
    BY Zenon, <1>1, <1>2, <2>2, <2>3, FS_SurjSameCardinalityImpliesInj
  <2> QED BY Zenon, <2>4 DEF Injection, IsInjective
<1> QED BY Zenon, <1>2, <1>3, <1>4, <1>5, <1>6

\* Nothing has been created, nothing has exited.
LEMMA InitHolds == Init => DumpInv
<1> SUFFICES ASSUME Init PROVE DumpInv
  BY Zenon
<1> USE DEF Init
<1>1. Typed
  BY ZeroInit, CardinalsHold
     DEF Typed, Flags, CallsOK, CallLabels, SetsOK, ExecsOK, LoopsOK
<1>2. Order
  BY ZeroInit, ProcKinds DEF Order
<1>3. Lives
  BY Zenon, ProcKinds DEF Lives
<1>4. \A p : ~Queued(p) /\ ~Held(p) /\ ~Passed(p) /\ ~Serving(p)
  BY DEF Queued, Held, Passed, Serving, In
<1>5. OnePlace
  BY <1>4 DEF OnePlace, Distinct
<1>6. OnItsWay
  BY Zenon, <1>4 DEF OnItsWay, Flying
<1>7. Dealt
  BY Zenon, <1>4, ProcKinds DEF Dealt, EarlyOK, ServingOK, WaitersOK, PublishedOK,
     SwallowedOK, InitExitOK, SubscribersOK, CountOK
<1>8. PublishedCalls
  BY Zenon, ProcKinds DEF PublishedCalls
<1>9. Scaled /\ Dumped
  <2>1. Current = 0
    BY Zenon, ProcKinds DEF Current
  <2>2. \A c \in Inits : ~Gone(c)
    BY <2>1, ProcKinds DEF Gone
  <2> QED BY Zenon, <2>2 DEF Scaled, Dumped, GoneOK, Registered
<1>10. Exact
  <2>1. \A c : Counted(c) = {}
    BY Zenon, ProcKinds DEF Counted, Counts
  <2> QED BY Zenon, <2>1, FS_EmptySet DEF Exact
<1>11. Sends /\ InitLast
  BY Zenon, ProcKinds DEF Sends, InitLast
<1> QED
  BY Zenon, <1>1, <1>2, <1>3, <1>5, <1>6, <1>7, <1>8, <1>9, <1>10, <1>11
     DEF IInv, DumpInv

\* IInv is an invariant, whatever fails.
THEOREM Inductive == Spec => []IInv
<1>1. Init => IInv
  BY Zenon, InitHolds DEF DumpInv
<1> QED BY <1>1, IInvStep, PTL DEF Spec

\* DumpInv is one when no scale down by killing meets a process that has exited.
THEOREM DumpInductive ==
    ASSUME "kill" \notin Faults PROVE Spec => []DumpInv
  BY DumpInvStep, InitHolds, PTL DEF Spec

\* Whatever fails, an exit is published at most once, and the one of a session
\* after its start.
THEOREM PublishedOnceCorrect == Spec => []PublishedOnce
  BY OnceFollows, Inductive, PTL

\* Exits are published in order: each once, after the start of its process, and
\* the one of an init process after those of the sessions of its container
\* (handleStarted, handleProcessExit and handleInitExit of shim/task/service.go).
THEOREM ExitOrderCorrect ==
    ASSUME "kill" \notin Faults PROVE Spec => []ExitOrder
  BY OrderFollows, DumpInductive, PTL

\* No send on the channel of handleInitExit blocks: its capacity, the number of
\* sessions counted when the init process exits, is enough for all of them.
THEOREM RoomCorrect ==
    ASSUME "kill" \notin Faults PROVE Spec => []Room
  BY RoomFollows, DumpInductive, PTL

\* runningExecs is the number of the sessions between Start and the counting of
\* their exit, unless the wrapper has dropped it (Start, ExecFails and
\* handleProcessExit count, preventExit drops).
THEOREM CountExactCorrect == Spec => []CountExact
<1>1. IInv => CountExact
  <2> SUFFICES ASSUME IInv, NEW c \in Inits,
                      ({c} \cup {e \in Execs : home[e] = c}) \cap swallowed = {}
               PROVE  runningExecs[c] = Cardinality(Counted(c))
    BY Zenon DEF CountExact, Counted, Counts
  <2>1. ~Dropped(c)
    BY Zenon DEF Dropped
  <2> QED BY Zenon, <2>1 DEF IInv, Exact
<1> QED BY <1>1, Inductive, PTL

\* Delete does not schedule a scale down while another session of the container
\* in use is running (wrapper.Delete asks for runningExecs).
THEOREM SessionsKeepAwakeCorrect == Spec => SessionsKeepAwake
<1>1. SessionsKeepAwake <=> [][Awake]_vars
  BY DEF SessionsKeepAwake, Awake, Running
<1> QED BY AwakeFollows, <1>1, Inductive, PTL DEF Spec

=============================================================================
