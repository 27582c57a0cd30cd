-------------------------- MODULE DaemonStartProofs --------------------------
(***************************************************************************)
(* Proofs about DaemonStart, for any clients, processes and builds.        *)
(*                                                                         *)
(* Everything rests on Locked: whoever is past the lock, and nobody else,  *)
(* holds it.                                                               *)
(***************************************************************************)
EXTENDS DaemonStart, FiniteSetTheorems, TLAPS

\* The lock is held by the one process that has taken it.
Locked ==
    /\ \A p \in Proc : proc[p] \in {"locked", "serving"} <=> lock = p
    /\ \A p \in dying : proc[p] # "none"

\* A client that retries has a process to hope for, or has lost one.
Hopeful ==
    /\ FailsOnlyIfStopped
    /\ \A c \in Client : phase[c] = "retrying" /\ c \notin bereft => Alive # {}

\* Whom a client is about to stop is older than itself, or was never named.
Aimed ==
    \A c \in Client : phase[c] = "stopping" =>
        \/ target[c] = Every
        \/ target[c] \in Proc /\ made[target[c]] < build[c]

-----------------------------------------------------------------------------
\* Gone keeps the types of what it changes.
LEMMA GoneType ==
    ASSUME TypeOK, NEW p \in Proc, Gone(p)
    PROVE  /\ proc' \in [Proc -> {"none", "starting", "locked", "serving"}]
           /\ made' \in [Proc -> Build]
           /\ dying' \in SUBSET Proc
           /\ lock' \in Proc \cup {NoProc}
BY StartAssumption DEF Gone, TypeOK

\* Goes keeps the types of what it changes.
LEMMA GoesType ==
    ASSUME TypeOK, NEW c \in Client, NEW next \in Phase,
           NEW p \in Proc \cup {NoProc, Every}, Goes(c, next, p)
    PROVE  /\ phase' \in [Client -> Phase]
           /\ target' \in [Client -> Proc \cup {NoProc, Every}]
BY DEF Goes, TypeOK

\* The variables keep their types.
LEMMA TypeStep == TypeOK /\ [Next]_vars => TypeOK'
<1> SUFFICES ASSUME TypeOK, [Next]_vars PROVE TypeOK'
  OBVIOUS
<1> USE DEF Phase
<1>1. ASSUME NEW c \in Client, Arrive(c) PROVE TypeOK'
  BY <1>1, GoesType DEF Arrive, TypeOK
<1>2. ASSUME NEW c \in Client, Probe(c) PROVE TypeOK'
  BY <1>2, GoesType DEF Probe, Serving, TypeOK
<1>3. ASSUME NEW c \in Client, StopDaemon(c) PROVE TypeOK'
  BY <1>3, GoesType DEF StopDaemon, Alive, TypeOK
<1>4. ASSUME NEW c \in Client, AwaitGone(c) PROVE TypeOK'
  BY <1>4, GoesType DEF AwaitGone, TypeOK
<1>5. ASSUME NEW c \in Client, TryConnect(c) PROVE TypeOK'
  BY <1>5, GoesType DEF TryConnect, Serving, TypeOK
<1>6. ASSUME NEW c \in Client, Spawn(c) PROVE TypeOK'
  BY <1>6, GoesType DEF Spawn, Unused, TypeOK
<1>7. ASSUME NEW c \in Client, Retry(c) PROVE TypeOK'
  BY <1>7, GoesType DEF Retry, Serving, TypeOK
<1>8. ASSUME NEW c \in Client, GiveUp(c) PROVE TypeOK'
  BY <1>8, GoesType DEF GiveUp, TypeOK
<1>9. ASSUME NEW c \in Client, Leave(c) PROVE TypeOK'
  BY <1>9, StartAssumption DEF Leave, TypeOK
<1>10. ASSUME NEW p \in Proc, TakeLock(p) PROVE TypeOK'
  BY <1>10, GoneType DEF TakeLock, clients, TypeOK
<1>11. ASSUME NEW p \in Proc, Bind(p) PROVE TypeOK'
  BY <1>11 DEF Bind, clients, TypeOK
<1>12. ASSUME NEW p \in Proc, Dies(p) PROVE TypeOK'
  BY <1>12, GoneType DEF Dies, clients, TypeOK
<1>13. ASSUME NEW p \in Proc, IdleExit(p) PROVE TypeOK'
  BY <1>13, GoneType DEF IdleExit, clients, TypeOK
<1>14. CASE UNCHANGED vars
  BY <1>14 DEF vars, TypeOK
<1> QED
  BY <1>1, <1>2, <1>3, <1>4, <1>5, <1>6, <1>7, <1>8, <1>9, <1>10, <1>11,
     <1>12, <1>13, <1>14 DEF Next, ClientStep, DaemonStep

\* TypeOK holds in every state the clients and daemons reach.
THEOREM TypeCorrect == Spec => []TypeOK
<1>1. Init => TypeOK
  BY StartAssumption DEF Init, TypeOK, Phase
<1> QED
  BY <1>1, TypeStep, PTL DEF Spec

-----------------------------------------------------------------------------
\* Steps of clients touch no process but to start one.
LEMMA LockedStep == TypeOK /\ Locked /\ [Next]_vars => Locked'
<1> SUFFICES ASSUME TypeOK, Locked, [Next]_vars PROVE Locked'
  OBVIOUS
<1>1. ASSUME NEW c \in Client, StopDaemon(c) PROVE Locked'
  BY <1>1 DEF StopDaemon, Alive, Locked, TypeOK
<1>2. ASSUME NEW c \in Client, Spawn(c) PROVE Locked'
  BY <1>2 DEF Spawn, Unused, Alive, Locked, TypeOK
<1>3. ASSUME NEW p \in Proc, TakeLock(p) PROVE Locked'
  BY <1>3, StartAssumption DEF TakeLock, Gone, Locked, TypeOK
<1>4. ASSUME NEW p \in Proc, Bind(p) PROVE Locked'
  BY <1>4 DEF Bind, Locked, TypeOK
<1>5. ASSUME NEW p \in Proc, Gone(p) PROVE Locked'
  BY <1>5, StartAssumption DEF Gone, Locked, TypeOK
<1>6. CASE UNCHANGED <<proc, dying, lock>>
  BY <1>6 DEF Locked
<1> QED
  BY <1>1, <1>2, <1>3, <1>4, <1>5, <1>6
  DEF Next, ClientStep, DaemonStep, vars, Arrive, Probe, AwaitGone, TryConnect,
      Retry, GiveUp, Leave, Dies, IdleExit

\* Locked holds always.
LEMMA LockedAlways == Spec => []Locked
<1>1. Init => Locked
  BY StartAssumption DEF Init, Locked
<1> QED
  BY <1>1, LockedStep, TypeCorrect, PTL DEF Spec

\* At most one daemon answers, for whoever answers holds the lock.
THEOREM OneDaemonHolds == Spec => []OneDaemon
<1>1. ASSUME TypeOK, Locked PROVE OneDaemon
  <2>1. Serving \subseteq {lock}
    BY <1>1 DEF Locked, Serving
  <2>2. Serving = {} \/ Serving = {lock}
    BY <2>1
  <2>3. Cardinality({}) = 0 /\ Cardinality({lock}) = 1
    BY FS_EmptySet, FS_Singleton
  <2> QED
    BY <2>2, <2>3 DEF OneDaemon
<1> QED
  BY <1>1, TypeCorrect, LockedAlways, PTL

-----------------------------------------------------------------------------
\* Who waits for a daemon and gives up has seen one stopped.
LEMMA HopefulStep == TypeOK /\ Locked /\ Hopeful /\ [Next]_vars => Hopeful'
<1> SUFFICES ASSUME TypeOK, Locked, Hopeful, [Next]_vars PROVE Hopeful'
  OBVIOUS
<1> USE DEF Hopeful, FailsOnlyIfStopped
<1>1. ASSUME NEW c \in Client, NEW next \in Phase \ {"failed", "retrying"},
             NEW p \in Proc \cup {NoProc, Every}, Goes(c, next, p),
             UNCHANGED <<proc, bereft>>
      PROVE  Hopeful'
  BY <1>1 DEF Goes, Alive, TypeOK
<1>2. ASSUME NEW c \in Client, Spawn(c) PROVE Hopeful'
  BY <1>2 DEF Spawn, Goes, Unused, Alive, TypeOK
<1>3. ASSUME NEW c \in Client, GiveUp(c) PROVE Hopeful'
  BY <1>3 DEF GiveUp, Goes, Alive, TypeOK
<1>4. ASSUME NEW c \in Client, Leave(c) PROVE Hopeful'
  BY <1>4 DEF Leave, Alive, TypeOK
<1>5. ASSUME NEW p \in Proc, TakeLock(p) PROVE Hopeful'
  <2>1. CASE lock = NoProc
    BY <1>5, <2>1 DEF TakeLock, clients, Alive, TypeOK
  <2>2. CASE lock # NoProc
    <3>1. lock \in Proc /\ lock # p /\ proc[lock] # "none"
      BY <1>5, <2>2 DEF TakeLock, Locked, TypeOK
    <3>2. proc'[lock] # "none"
      BY <1>5, <2>2, <3>1 DEF TakeLock, Gone, TypeOK
    <3> QED
      BY <1>5, <3>1, <3>2 DEF TakeLock, clients, Alive
  <2> QED
    BY <2>1, <2>2
<1>6. ASSUME NEW p \in Proc, Bind(p) PROVE Hopeful'
  BY <1>6 DEF Bind, clients, Alive, TypeOK
<1>7. ASSUME NEW p \in Proc, Dies(p) PROVE Hopeful'
  BY <1>7 DEF Dies, clients
<1>8. ASSUME NEW p \in Proc, IdleExit(p) PROVE Hopeful'
  BY <1>8 DEF IdleExit, clients
<1>9. CASE UNCHANGED vars
  BY <1>9 DEF vars, Alive
<1>10. ASSUME NEW c \in Client,
              Arrive(c) \/ Probe(c) \/ StopDaemon(c) \/ AwaitGone(c) \/ TryConnect(c) \/ Retry(c)
       PROVE  Hopeful'
  BY <1>10, <1>1
  DEF Arrive, Probe, StopDaemon, AwaitGone, TryConnect, Retry, Serving, Phase
<1> QED
  BY <1>2, <1>3, <1>4, <1>5, <1>6, <1>7, <1>8, <1>9, <1>10
  DEF Next, ClientStep, DaemonStep

\* No client fails for want of a daemon unless one was stopped under it.
THEOREM FailsOnlyIfStoppedHolds == Spec => []FailsOnlyIfStopped
<1>1. Init => Hopeful
  BY DEF Init, Hopeful, FailsOnlyIfStopped
<1>2. Spec => []Hopeful
  BY <1>1, HopefulStep, TypeCorrect, LockedAlways, PTL DEF Spec
<1> QED
  BY <1>2, PTL DEF Hopeful

-----------------------------------------------------------------------------
\* A client that is about to stop a daemon keeps its aim, though the daemon
\* may be gone by then: no other process has its id, and the build of a
\* process that is gone is none.
LEMMA AimedStep == TypeOK /\ Aimed /\ [Next]_vars => Aimed'
<1> SUFFICES ASSUME TypeOK, Aimed, [Next]_vars PROVE Aimed'
  OBVIOUS
<1> USE DEF Aimed
<1>1. ASSUME NEW c \in Client, NEW next \in Phase \ {"stopping"},
             NEW p \in Proc \cup {NoProc, Every}, Goes(c, next, p),
             \A d \in Client \ {c} : build'[d] = build[d],
             UNCHANGED made
      PROVE  Aimed'
  BY <1>1 DEF Goes, TypeOK
<1>2. ASSUME NEW c \in Client, Probe(c) PROVE Aimed'
  BY <1>2 DEF Probe, Older, Goes, Serving, TypeOK
<1>3. ASSUME NEW c \in Client, Spawn(c) PROVE Aimed'
  BY <1>3 DEF Spawn, Unused, Goes, TypeOK
<1>4. ASSUME NEW c \in Client, Leave(c) PROVE Aimed'
  BY <1>4 DEF Leave, TypeOK
<1>5. ASSUME NEW p \in Proc, Gone(p), UNCHANGED clients PROVE Aimed'
  <2> SUFFICES ASSUME NEW c \in Client, phase[c] = "stopping", target[c] # Every
               PROVE  target[c] \in Proc /\ made'[target[c]] < build[c]
    BY <1>5 DEF clients
  <2>1. target[c] \in Proc /\ made[target[c]] < build[c]
    OBVIOUS
  <2>2. made[target[c]] \in Nat /\ build[c] \in Nat
    BY <2>1, StartAssumption DEF TypeOK
  <2>3. made'[target[c]] = made[target[c]] \/ made'[target[c]] = 0
    BY <1>5, <2>1 DEF Gone, TypeOK
  <2> QED
    BY <2>1, <2>2, <2>3
<1>6. CASE UNCHANGED <<clients, made>>
  BY <1>6 DEF clients
<1>7. ASSUME NEW c \in Client, Arrive(c) PROVE Aimed'
  BY <1>7, <1>1 DEF Arrive, Phase, TypeOK
<1>8. ASSUME NEW c \in Client, StopDaemon(c) \/ AwaitGone(c) \/ TryConnect(c) \/ Retry(c) \/ GiveUp(c)
      PROVE  Aimed'
  BY <1>8, <1>1 DEF StopDaemon, AwaitGone, TryConnect, Retry, GiveUp, Serving, Phase
<1>9. ASSUME NEW p \in Proc, DaemonStep(p) \/ IdleExit(p) PROVE Aimed'
  BY <1>9, <1>5, <1>6 DEF DaemonStep, TakeLock, Bind, Dies, IdleExit
<1> QED
  BY <1>2, <1>3, <1>4, <1>6, <1>7, <1>8, <1>9 DEF Next, ClientStep, vars, clients

\* A client stops older daemons only, or whatever runs when the old daemon has
\* not named its process.
THEOREM StopsOnlyOlderHolds == Spec => StopsOnlyOlder
<1> DEFINE Stop ==
      \A p \in dying' \ dying : \E c \in Client :
            /\ phase[c] = "stopping"
            /\ target[c] = Every \/ made[p] < build[c]
<1>1. Init => Aimed
  BY DEF Init, Aimed
<1>2. ASSUME TypeOK, Aimed, [Next]_vars PROVE [Stop]_vars
  <2>1. ASSUME NEW c \in Client, StopDaemon(c) PROVE Stop
    BY <1>2, <2>1, StartAssumption DEF StopDaemon, Alive, Aimed, TypeOK
  <2>2. CASE dying' \subseteq dying
    BY <2>2
  <2> QED
    BY <1>2, <2>1, <2>2
    DEF Next, ClientStep, DaemonStep, Arrive, Probe, AwaitGone, TryConnect, Spawn,
        Retry, GiveUp, Leave, TakeLock, Bind, Dies, IdleExit, Gone, vars
<1> QED
  BY <1>1, <1>2, AimedStep, TypeCorrect, PTL DEF Spec, StopsOnlyOlder
=============================================================================
