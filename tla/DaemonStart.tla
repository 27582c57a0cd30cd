---------------------------- MODULE DaemonStart ----------------------------
(* Finding, starting and replacing the daemon (daemon.rs,                  *)
(* single_instance.rs, main.rs).  A client - a relay, Som, somsrp, a       *)
(* channel of the link - looks whether the daemon that answers is older    *)
(* than the somsrv it comes with and stops that one if so; then it         *)
(* connects, or starts a daemon where none answers and tries again.  Any   *)
(* number of clients do this at once, and only the lock that a daemon      *)
(* takes before it binds its address keeps two daemons apart.              *)
EXTENDS Naturals, FiniteSets

CONSTANTS
    Client,     \* processes that want to talk to the daemon
    Proc,       \* processes started with --daemon; as many as can be at once
    Build,      \* builds of somsrv; 0 is one from before builds had ids
    NoProc,     \* no process
    Every       \* whatever process is a daemon

ASSUME StartAssumption ==
    /\ Build \subseteq Nat /\ IsFiniteSet(Build) /\ 0 \in Build
    /\ NoProc \notin Proc /\ Every \notin Proc /\ NoProc # Every

VARIABLES
    phase,      \* how far each client has come
    build,      \* the build it comes with
    target,     \* the daemon it is to stop, or is connected to
    proc,       \* how far each daemon process has come
    made,       \* the build a daemon process runs
    dying,      \* daemon processes that were killed and are not gone yet
    lock,       \* the process that holds the daemon's lock
    bereft      \* clients that saw a daemon stopped while they waited for one

clients == <<phase, build, target>>
vars == <<phase, build, target, proc, made, dying, lock, bereft>>

Phase == {"away", "probing", "stopping", "waiting", "connecting", "spawning",
          "retrying", "connected", "failed"}
NewestBuild == CHOOSE b \in Build : \A d \in Build : d <= b

TypeOK ==
    /\ phase \in [Client -> Phase]
    /\ build \in [Client -> Build]
    /\ target \in [Client -> Proc \cup {NoProc, Every}]
    /\ proc \in [Proc -> {"none", "starting", "locked", "serving"}]
    /\ made \in [Proc -> Build]
    /\ dying \in SUBSET Proc
    /\ lock \in Proc \cup {NoProc}
    /\ bereft \in SUBSET Client

Init ==
    /\ phase = [c \in Client |-> "away"]
    /\ build = [c \in Client |-> 0]
    /\ target = [c \in Client |-> NoProc]
    /\ proc = [p \in Proc |-> "none"]
    /\ made = [p \in Proc |-> 0]
    /\ dying = {}
    /\ lock = NoProc
    /\ bereft = {}

\* The daemon processes there are, and those that answer on the address.
Alive == {p \in Proc : proc[p] # "none"}
Serving == {p \in Proc : proc[p] = "serving"}

-----------------------------------------------------------------------------
(* Clients.                                                                *)

Goes(c, next, p) ==
    /\ phase' = [phase EXCEPT ![c] = next]
    /\ target' = [target EXCEPT ![c] = p]

\* A client comes, of whatever build is beside it.  The link's channels and
\* Som's later subscriptions connect without a look at the build.
Arrive(c) ==
    /\ phase[c] = "away"
    /\ \E b \in Build, next \in {"probing", "connecting"} :
        /\ build' = [build EXCEPT ![c] = b]
        /\ Goes(c, next, NoProc)
    /\ UNCHANGED <<proc, made, dying, lock, bereft>>

\* (mutant) A daemon as new as the binary is replaced too.
OlderOrSame(c, p) == build[c] # 0 /\ made[p] <= build[c]

\* (mutant) A daemon from before builds had ids is left alone.
OlderIfNamed(c, p) == build[c] # 0 /\ made[p] # 0 /\ made[p] < build[c]

\* replace_if_stale: the handshake of the daemon that answers, if one does.  A
\* binary without an id can say nothing of another; a daemon without one does
\* not name its process either.
Older(c, p) == build[c] # 0 /\ made[p] < build[c]

Probe(c) ==
    /\ phase[c] = "probing"
    /\ \/ Serving = {} /\ Goes(c, "connecting", NoProc)
       \/ \E p \in Serving :
            \/ ~ Older(c, p) /\ Goes(c, "connecting", NoProc)
            \/ /\ Older(c, p)
               /\ Goes(c, "stopping", IF made[p] = 0 THEN Every ELSE p)
    /\ UNCHANGED <<build, proc, made, dying, lock, bereft>>

\* (mutant) "No process" is taken for the process to stop.
StopDaemonUnnamed(c) ==
    /\ phase[c] = "stopping"
    /\ dying' = dying \cup {target[c]}
    /\ Goes(c, "waiting", NoProc)
    /\ UNCHANGED <<build, proc, made, lock, bereft>>

\* stop_daemon: the process the daemon named, if it still is there, or every
\* daemon process of this user.
StopDaemon(c) ==
    /\ phase[c] = "stopping"
    /\ dying' = dying \cup {p \in Alive : target[c] \in {p, Every}}
    /\ Goes(c, "waiting", NoProc)
    /\ UNCHANGED <<build, proc, made, lock, bereft>>

\* It is gone when nothing answers.  After CONNECT_RETRY_ATTEMPTS looks the
\* client goes on all the same (its caller logs the error): a killed process
\* is gone by then, so this is another daemon that answers already.
AwaitGone(c) ==
    /\ phase[c] = "waiting"
    /\ Serving \cap dying = {}
    /\ Goes(c, "connecting", NoProc)
    /\ UNCHANGED <<build, proc, made, dying, lock, bereft>>

\* connect_or_spawn.
TryConnect(c) ==
    /\ phase[c] = "connecting"
    /\ \/ \E p \in Serving : Goes(c, "connected", p)
       \/ Serving = {} /\ Goes(c, "spawning", NoProc)
    /\ UNCHANGED <<build, proc, made, dying, lock, bereft>>

\* A process id is not given to another process while somebody remembers it.
Unused == Proc \ (Alive \cup {target[d] : d \in Client})

Spawn(c) ==
    /\ phase[c] = "spawning"
    /\ \E p \in Unused :
        /\ proc' = [proc EXCEPT ![p] = "starting"]
        /\ made' = [made EXCEPT ![p] = build[c]]
    /\ Goes(c, "retrying", NoProc)
    /\ bereft' = bereft \ {c}
    /\ UNCHANGED <<build, dying, lock>>

Retry(c) ==
    /\ phase[c] = "retrying"
    /\ \E p \in Serving : Goes(c, "connected", p)
    /\ UNCHANGED <<build, proc, made, dying, lock, bereft>>

\* The last of the attempts fails.  They take 2 s, within which a daemon that
\* is starting answers.
GiveUp(c) ==
    /\ phase[c] = "retrying"
    /\ Alive = {}
    /\ Goes(c, "failed", NoProc)
    /\ UNCHANGED <<build, proc, made, dying, lock, bereft>>

\* The client's process ends: it is done, or it is closed before it has got
\* anywhere.  One that ends before its look at the build has not come.
Leave(c) ==
    /\ phase[c] \notin {"away", "probing", "stopping"}
    /\ phase' = [phase EXCEPT ![c] = "away"]
    /\ target' = [target EXCEPT ![c] = NoProc]
    /\ build' = [build EXCEPT ![c] = 0]
    /\ bereft' = bereft \ {c}
    /\ UNCHANGED <<proc, made, dying, lock>>

-----------------------------------------------------------------------------
(* Daemon processes.                                                       *)

\* (mutant) The lock is a file that somebody has to remove.
GoneLeavesLock(p) ==
    /\ proc' = [proc EXCEPT ![p] = "none"]
    /\ made' = [made EXCEPT ![p] = 0]
    /\ dying' = dying \ {p}
    /\ UNCHANGED lock

\* A process is gone, and with it its address and its lock.
Gone(p) ==
    /\ proc' = [proc EXCEPT ![p] = "none"]
    /\ made' = [made EXCEPT ![p] = 0]
    /\ dying' = dying \ {p}
    /\ lock' = IF lock = p THEN NoProc ELSE lock

\* (mutant) A daemon leaves when another one answers, and looks at no lock.
TakeLockIfSilent(p) ==
    /\ proc[p] = "starting"
    /\ IF Serving = {}
       THEN /\ lock' = p
            /\ proc' = [proc EXCEPT ![p] = "locked"]
            /\ UNCHANGED <<made, dying>>
       ELSE Gone(p)
    /\ UNCHANGED <<clients, bereft>>

\* try_acquire_daemon_lock: the loser of the race leaves.
TakeLock(p) ==
    /\ proc[p] = "starting"
    /\ IF lock = NoProc
       THEN /\ lock' = p
            /\ proc' = [proc EXCEPT ![p] = "locked"]
            /\ UNCHANGED <<made, dying>>
       ELSE Gone(p)
    /\ UNCHANGED <<clients, bereft>>

Bind(p) ==
    /\ proc[p] = "locked"
    /\ proc' = [proc EXCEPT ![p] = "serving"]
    /\ UNCHANGED <<clients, made, dying, lock, bereft>>

Dies(p) ==
    /\ p \in dying
    /\ Gone(p)
    /\ bereft' = bereft \cup {c \in Client : phase[c] = "retrying"}
    /\ UNCHANGED clients

\* A daemon that has had no connection and no session for 60 s exits; a
\* client that is retrying has connected long before.
IdleExit(p) ==
    /\ proc[p] = "serving"
    /\ \A c \in Client : /\ phase[c] = "connected" => target[c] # p
                        /\ phase[c] # "retrying"
    /\ Gone(p)
    /\ UNCHANGED <<clients, bereft>>

-----------------------------------------------------------------------------
ClientStep(c) ==
    \/ Probe(c) \/ StopDaemon(c) \/ AwaitGone(c) \/ TryConnect(c)
    \/ Spawn(c) \/ Retry(c) \/ GiveUp(c)
DaemonStep(p) == TakeLock(p) \/ Bind(p) \/ Dies(p)

Next ==
    \/ \E c \in Client : Arrive(c) \/ ClientStep(c) \/ Leave(c)
    \/ \E p \in Proc : DaemonStep(p) \/ IdleExit(p)

Spec == Init /\ [][Next]_vars

\* Clients and daemon processes run; nobody has to come, leave or be idle.
FairSpec ==
    /\ Spec
    /\ \A c \in Client : WF_vars(ClientStep(c))
    /\ \A p \in Proc : WF_vars(DaemonStep(p))

-----------------------------------------------------------------------------
(* Properties.                                                             *)

\* Never do two daemons answer, each with sessions and a cache of its own,
\* however many clients start one and whoever stops one meanwhile
\* (single_instance.rs).
OneDaemon == Cardinality(Serving) <= 1

\* A client fails to reach a daemon only when one was stopped while it waited:
\* whoever loses the lock loses it to a daemon that is about to answer, and no
\* lock outlives its holder (connect_or_spawn, try_acquire).
FailsOnlyIfStopped == \A c \in Client : phase[c] = "failed" => c \in bereft

\* A client stops daemons older than itself only, or, when the old one does
\* not name its process, whatever has been started as a daemon by then
\* (replace_if_stale; a_daemon_as_new_or_newer_than_the_binary_is_left_alone).
StopsOnlyOlder ==
    [][\A p \in dying' \ dying : \E c \in Client :
            /\ phase[c] = "stopping"
            /\ target[c] = Every \/ made[p] < build[c]]_vars

\* The newest build takes over for good: once only its clients come, and come
\* with a look at the build again and again, no older daemon answers any more,
\* whichever old ones were still on their way (replace_if_stale).
NewestTakesOver ==
    /\ <>[](\A c \in Client : phase[c] # "away" => build[c] = NewestBuild)
    /\ []<>(\E c \in Client : phase[c] = "probing")
    => <>[](\A p \in Serving : made[p] = NewestBuild)
=============================================================================
