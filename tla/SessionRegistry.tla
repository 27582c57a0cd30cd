--------------------------- MODULE SessionRegistry ---------------------------
(***************************************************************************)
(* The sessions of one somsrv daemon and everyone who can end them.        *)
(*                                                                         *)
(* The daemon (server.rs) keeps a registry from panes to sessions; a       *)
(* session is a pty with a shell in it.  Every pane of Som is served by a  *)
(* relay process (relay.rs) whose connection has a thread of its own in    *)
(* the daemon (handle_relay).  A session is ended by its own shell, by a   *)
(* Close of a relay, by an admin KillSession, or by the idle watcher       *)
(* taking the whole daemon down.  All of these run concurrently; the       *)
(* registry's mutex is the only thing that orders them.                    *)
(*                                                                         *)
(* A session is named by its pane and one of the names in Session, so that *)
(* the key it is registered under is part of its name.                     *)
(***************************************************************************)
EXTENDS Naturals, FiniteSets

CONSTANTS
    Pane,        \* panes, by the key they register under: (client_id, pane_id)
    LocalPane,   \* those whose daemon runs on Som's own machine
    TmuxPane,    \* those that register with tmux: true (today's relay: all)
    Slot,        \* how many connections of one pane may overlap
    Session,     \* names for the successive sessions of one pane
    NoSession,   \* the registry holds nothing for a pane
    IdleTicks    \* IDLE_SHUTDOWN_DELAY, in polls of the watcher

ASSUME RegistryAssumption ==
    /\ NoSession \notin Session
    /\ LocalPane \subseteq Pane
    /\ TmuxPane \subseteq Pane
    /\ IdleTicks \in Nat

\* A connection of a relay; its first component is the pane it serves.
Conn == Pane \X Slot

VARIABLES
    pane,       \* Som's view of each pane
    relay,      \* how far each relay process has come
    current,    \* the relays whose ptys Som holds, one for each pane at most
    unread,     \* what a relay has written and its thread has not read yet
    thread,     \* how far the daemon's thread of a connection has come
    held,       \* the session the thread of a connection works on
    registry,   \* the daemon's SessionRegistry
    shell,      \* each session's shell: not started, running, or why it ended
    announced,  \* sessions whose pump thread has passed Exit on and stopped
    daemon,     \* is the daemon process there?
    watcher,    \* the idle watcher, between its two looks
    idle,       \* its looks in a row that found no connection
    newcomer    \* panes given a session after the watcher's last look

relays == <<relay, current>>
threads == <<unread, thread, held>>
conns == <<relays, threads>>
sessions == <<registry, shell, announced>>
watch == <<daemon, watcher, idle>>
vars == <<pane, conns, sessions, watch, newcomer>>

RelayInput == {"register", "resize", "close"}
RelayState == {"off", "greeting", "settling", "running", "mute", "told"}
ThreadState == {"none", "pending", "greeted", "registered", "attached",
                "closing", "dropped"}
Ended == {"exit", "close", "kill", "drop", "idle"}
ShellState == {"unborn", "running"} \cup Ended

TypeOK ==
    /\ pane \in [Pane -> {"shut", "open", "closed"}]
    /\ relay \in [Conn -> RelayState]
    /\ current \in SUBSET Conn
    /\ unread \in [Conn -> SUBSET RelayInput]
    /\ thread \in [Conn -> ThreadState]
    /\ held \in [Conn -> Session \cup {NoSession}]
    /\ registry \in [Pane -> Session \cup {NoSession}]
    /\ shell \in [Pane -> [Session -> ShellState]]
    /\ announced \in [Pane -> SUBSET Session]
    /\ daemon \in {"up", "down"}
    /\ watcher \in {"asleep", "looking", "exiting"}
    /\ idle \in 0 .. IdleTicks + 1
    /\ newcomer \in SUBSET Pane

\* A daemon that nobody has needed yet; a pane closed before is never opened
\* again.
Init ==
    /\ pane \in [Pane -> {"shut", "closed"}]
    /\ relay = [c \in Conn |-> "off"]
    /\ current = {}
    /\ unread = [c \in Conn |-> {}]
    /\ thread = [c \in Conn |-> "none"]
    /\ held = [c \in Conn |-> NoSession]
    /\ registry = [p \in Pane |-> NoSession]
    /\ shell = [p \in Pane |-> [s \in Session |-> "unborn"]]
    /\ announced = [p \in Pane |-> {}]
    /\ daemon = "down"
    /\ watcher = "asleep"
    /\ idle = 0
    /\ newcomer = {}

-----------------------------------------------------------------------------
(* What several handlers share.                                            *)

\* Session::kill: nothing happens to a shell that has ended already.
Killed(p, s, why) ==
    IF s # NoSession /\ shell[p][s] = "running"
    THEN [shell EXCEPT ![p][s] = why]
    ELSE shell

\* remove_session: whatever session is registered under the key goes, and its
\* shell is killed.
RemoveSession(p, why) ==
    /\ registry' = [registry EXCEPT ![p] = NoSession]
    /\ shell' = Killed(p, registry[p], why)
    /\ UNCHANGED announced

\* A thread that returns: its connection is closed with it.
ThreadReturns(c) ==
    /\ thread' = [thread EXCEPT ![c] = "none"]
    /\ held' = [held EXCEPT ![c] = NoSession]
    /\ unread' = [unread EXCEPT ![c] = {}]

\* Threads that hold a ConnectionGuard, that is, what LIVE_CONNECTIONS counts.
Live == {c \in Conn : thread[c] \notin {"none", "pending"}}

-----------------------------------------------------------------------------
(* Som and its relays.                                                     *)

\* Som runs a relay for a pane: a new one, or one it restores or reconnects.
\* The relay connects, starting the daemon when none answers.  Som's own
\* relays are its children and end with it; a remote one can outlive the ssh
\* it was started over, and then overlap with its successor.
Connect(c) ==
    /\ pane[c[1]] # "closed"
    /\ relay[c] = "off" /\ thread[c] = "none"
    /\ c[1] \in LocalPane => \A d \in Conn : d[1] = c[1] => relay[d] = "off"
    /\ pane' = [pane EXCEPT ![c[1]] = "open"]
    /\ relay' = [relay EXCEPT ![c] = "greeting"]
    /\ current' = {d \in current : d[1] # c[1]} \cup {c}
    /\ thread' = [thread EXCEPT ![c] = "pending"]
    /\ daemon' = "up"
    /\ UNCHANGED <<unread, held, sessions, watcher, idle, newcomer>>

\* The daemon has answered the handshake: the relay registers its pane.
SendRegister(c) ==
    /\ relay[c] = "greeting" /\ thread[c] = "greeted"
    /\ relay' = [relay EXCEPT ![c] = "settling"]
    /\ unread' = [unread EXCEPT ![c] = @ \cup {"register"}]
    /\ UNCHANGED <<pane, current, thread, held, sessions, watch, newcomer>>

\* settled_initial_size has a size (it takes up to 3 s); from here on the
\* relay reads its input.
SendResize(c) ==
    /\ relay[c] = "settling"
    /\ relay' = [relay EXCEPT ![c] = "running"]
    /\ unread' = IF thread[c] = "none" THEN unread
                 ELSE [unread EXCEPT ![c] = @ \cup {"resize"}]
    /\ UNCHANGED <<pane, current, thread, held, sessions, watch, newcomer>>

\* The relay reads the EndSession frame in its pty, passes it on as Close and
\* returns.
SendClose(c) ==
    /\ relay[c] = "told"
    /\ relay' = [relay EXCEPT ![c] = "off"]
    /\ current' = current \ {c}
    /\ unread' = IF thread[c] = "none" THEN unread
                 ELSE [unread EXCEPT ![c] = @ \cup {"close"}]
    /\ UNCHANGED <<pane, thread, held, sessions, watch, newcomer>>

\* The relay's process ends: Som quits or crashes, the ssh below it is lost,
\* or the tab that held its pty is gone.
RelayEnds(c) ==
    /\ relay[c] # "off"
    /\ relay' = [relay EXCEPT ![c] = "off"]
    /\ current' = current \ {c}
    /\ UNCHANGED <<pane, unread, thread, held, sessions, watch, newcomer>>

\* The user closes a pane.  A local one is ended by asking the daemon
\* (KillSession, answered before on_removed returns).  For a remote one an
\* EndSession frame is left in the pty of its relay, if that has announced
\* the link to Som and the frame is written within the 50 ms it is given;
\* otherwise nothing that today's relay understands is sent.
ClosePane(p) ==
    /\ pane[p] = "open"
    /\ pane' = [pane EXCEPT ![p] = "closed"]
    /\ \/ p \notin LocalPane /\ UNCHANGED <<relay, sessions>>
       \/ /\ p \notin LocalPane
          /\ \E c \in current :
              /\ c[1] = p /\ relay[c] \in {"running", "mute"}
              /\ relay' = [relay EXCEPT ![c] = "told"]
          /\ UNCHANGED sessions
       \/ /\ p \in LocalPane
          /\ IF daemon = "up" THEN RemoveSession(p, "kill") ELSE UNCHANGED sessions
          /\ UNCHANGED relay
    /\ UNCHANGED <<current, threads, watch, newcomer>>

-----------------------------------------------------------------------------
(* The daemon's thread of a connection.                                    *)

\* The connection is accepted, counted, and its handshake answered.
Accept(c) ==
    /\ thread[c] = "pending"
    /\ IF relay[c] = "off"
       THEN ThreadReturns(c)
       ELSE /\ thread' = [thread EXCEPT ![c] = "greeted"]
            /\ UNCHANGED <<unread, held>>
    /\ UNCHANGED <<pane, relays, sessions, watch, newcomer>>

\* A hit hands the registered session out as it is, whatever became of its
\* shell.
FindSession(c) ==
    /\ thread[c] = "greeted" /\ "register" \in unread[c]
    /\ registry[c[1]] # NoSession
    /\ held' = [held EXCEPT ![c] = registry[c[1]]]
    /\ thread' = [thread EXCEPT ![c] = "registered"]
    /\ unread' = [unread EXCEPT ![c] = @ \ {"register"}]
    /\ UNCHANGED <<pane, relays, sessions, watch, newcomer>>

\* (mutant) The lookup and the insertion lock the registry separately.
CreateSessionUnlocked(c) ==
    /\ thread[c] = "greeted" /\ "register" \in unread[c]
    /\ \E s \in Session :
        /\ shell[c[1]][s] = "unborn"
        /\ registry' = [registry EXCEPT ![c[1]] = s]
        /\ shell' = [shell EXCEPT ![c[1]][s] = "running"]
        /\ held' = [held EXCEPT ![c] = s]
    /\ thread' = [thread EXCEPT ![c] = "registered"]
    /\ unread' = [unread EXCEPT ![c] = @ \ {"register"}]
    /\ newcomer' = newcomer \cup {c[1]}
    /\ UNCHANGED <<pane, relays, announced, watch>>

\* A miss starts a shell; the registry stays locked from the lookup to the
\* insertion.
CreateSession(c) ==
    /\ thread[c] = "greeted" /\ "register" \in unread[c]
    /\ registry[c[1]] = NoSession
    /\ \E s \in Session :
        /\ shell[c[1]][s] = "unborn"
        /\ registry' = [registry EXCEPT ![c[1]] = s]
        /\ shell' = [shell EXCEPT ![c[1]][s] = "running"]
        /\ held' = [held EXCEPT ![c] = s]
    /\ thread' = [thread EXCEPT ![c] = "registered"]
    /\ unread' = [unread EXCEPT ![c] = @ \ {"register"}]
    /\ newcomer' = newcomer \cup {c[1]}
    /\ UNCHANGED <<pane, relays, announced, watch>>

\* Session::spawn fails: the connection is given up.
SpawnFails(c) ==
    /\ thread[c] = "greeted" /\ "register" \in unread[c]
    /\ registry[c[1]] = NoSession
    /\ ThreadReturns(c)
    /\ UNCHANGED <<pane, relays, sessions, watch, newcomer>>

\* The initial Resize: the thread subscribes to the session and sends the
\* snapshot.  Sending to a relay that has gone fails, and whatever it had
\* written after its Resize is never read.
Attach(c) ==
    /\ thread[c] = "registered" /\ "resize" \in unread[c]
    /\ IF relay[c] = "off"
       THEN ThreadReturns(c)
       ELSE /\ thread' = [thread EXCEPT ![c] = "attached"]
            /\ unread' = [unread EXCEPT ![c] = @ \ {"resize"}]
            /\ UNCHANGED held
    /\ UNCHANGED <<pane, relays, sessions, watch, newcomer>>

\* read_loop reads Close: the shell is killed before the registry is touched.
ReadClose(c) ==
    /\ thread[c] = "attached" /\ "close" \in unread[c]
    /\ shell' = Killed(c[1], held[c], "close")
    /\ unread' = [unread EXCEPT ![c] = @ \ {"close"}]
    /\ thread' = [thread EXCEPT ![c] = "closing"]
    /\ UNCHANGED <<pane, relays, held, registry, announced, watch, newcomer>>

\* (mutant) The end of the connection is noticed before what it still holds.
ReadEndEarly(c) ==
    /\ relay[c] = "off" /\ thread[c] = "attached"
    /\ thread' = [thread EXCEPT ![c] = "dropped"]
    /\ UNCHANGED <<pane, relays, unread, held, sessions, watch, newcomer>>

\* Nothing is left to read from a relay that has gone.  Before read_loop this
\* is an early return, past the cleanup.
ReadEnd(c) ==
    /\ relay[c] = "off"
    /\ \/ /\ thread[c] = "attached" /\ unread[c] = {}
          /\ thread' = [thread EXCEPT ![c] = "dropped"]
          /\ UNCHANGED <<unread, held>>
       \/ /\ \/ thread[c] = "greeted" /\ "register" \notin unread[c]
             \/ thread[c] = "registered" /\ "resize" \notin unread[c]
          /\ ThreadReturns(c)
    /\ UNCHANGED <<pane, relays, sessions, watch, newcomer>>

\* (mutant) Every connection that ends takes its session with it.
CleanupIgnoresTmux(c) ==
    /\ thread[c] \in {"closing", "dropped"}
    /\ RemoveSession(c[1], IF thread[c] = "closing" THEN "close" ELSE "drop")
    /\ ThreadReturns(c)
    /\ UNCHANGED <<pane, relays, watch, newcomer>>

\* (mutant) A Close kills the shell and leaves its registry entry.
CleanupKeepsClosed(c) ==
    /\ thread[c] \in {"closing", "dropped"}
    /\ IF c[1] \notin TmuxPane THEN RemoveSession(c[1], "drop") ELSE UNCHANGED sessions
    /\ ThreadReturns(c)
    /\ UNCHANGED <<pane, relays, watch, newcomer>>

\* The end of handle_relay.  The session is removed by its key.
Cleanup(c) ==
    /\ thread[c] \in {"closing", "dropped"}
    /\ IF thread[c] = "closing" THEN RemoveSession(c[1], "close")
       ELSE IF c[1] \notin TmuxPane THEN RemoveSession(c[1], "drop")
       ELSE UNCHANGED sessions
    /\ ThreadReturns(c)
    /\ UNCHANGED <<pane, relays, watch, newcomer>>

-----------------------------------------------------------------------------
(* Sessions.                                                               *)

\* The shell ends by itself (the user types exit).  Its registry entry stays.
ShellExits(p, s) ==
    /\ shell[p][s] = "running"
    /\ shell' = [shell EXCEPT ![p][s] = "exit"]
    /\ UNCHANGED <<pane, conns, registry, announced, watch, newcomer>>

\* The pump passes Exit on to the watchers there are and stops: each attached
\* relay is told ShellExited, and its output thread returns.
Announce(p, s) ==
    /\ daemon = "up"
    /\ shell[p][s] \in Ended /\ s \notin announced[p]
    /\ announced' = [announced EXCEPT ![p] = @ \cup {s}]
    /\ relay' = [c \in Conn |->
                    IF /\ c[1] = p /\ held[c] = s
                       /\ thread[c] = "attached" /\ relay[c] = "running"
                    THEN "mute" ELSE relay[c]]
    /\ UNCHANGED <<pane, current, threads, registry, shell, watch, newcomer>>

-----------------------------------------------------------------------------
(* The idle watcher.                                                       *)

\* (mutant) The time of the stretch is not capped.
WatcherLookUncapped ==
    /\ daemon = "up" /\ watcher = "asleep"
    /\ IF Live # {} THEN idle' = 0 /\ UNCHANGED watcher
       ELSE idle' = idle + 1 /\ watcher' = "looking"
    /\ UNCHANGED <<pane, conns, sessions, daemon, newcomer>>

\* (mutant) Every look starts the stretch anew.
WatcherLookRestarts ==
    /\ daemon = "up" /\ watcher = "asleep"
    /\ idle' = 0
    /\ watcher' = IF Live # {} THEN "asleep" ELSE "looking"
    /\ UNCHANGED <<pane, conns, sessions, daemon, newcomer>>

\* It wakes up and loads LIVE_CONNECTIONS.
WatcherLook ==
    /\ daemon = "up" /\ watcher = "asleep"
    /\ IF Live # {}
       THEN idle' = 0 /\ UNCHANGED watcher
       ELSE /\ idle' = IF idle <= IdleTicks THEN idle + 1 ELSE idle
            /\ watcher' = "looking"
    /\ UNCHANGED <<pane, conns, sessions, daemon, newcomer>>

\* (mutant) A long enough stretch ends the daemon whatever it holds.
WatcherDecideIgnoresSessions ==
    /\ daemon = "up" /\ watcher = "looking"
    /\ watcher' = IF idle > IdleTicks THEN "exiting" ELSE "asleep"
    /\ newcomer' = {}
    /\ UNCHANGED <<pane, conns, sessions, daemon, idle>>

\* It locks the registry for a moment; idle_action decides on what it saw.
\* The first look of a stretch finds an idle time of 0.
WatcherDecide ==
    /\ daemon = "up" /\ watcher = "looking"
    /\ watcher' = IF /\ \A p \in Pane : registry[p] = NoSession
                     /\ idle > IdleTicks
                  THEN "exiting" ELSE "asleep"
    /\ newcomer' = {}
    /\ UNCHANGED <<pane, conns, sessions, daemon, idle>>

\* process::exit: the threads, the connections and the ptys go at once.
WatcherExit ==
    /\ daemon = "up" /\ watcher = "exiting"
    /\ daemon' = "down" /\ watcher' = "asleep" /\ idle' = 0
    /\ thread' = [c \in Conn |-> "none"]
    /\ held' = [c \in Conn |-> NoSession]
    /\ unread' = [c \in Conn |-> {}]
    /\ registry' = [p \in Pane |-> NoSession]
    /\ shell' = [p \in Pane |-> [s \in Session |->
                    IF shell[p][s] = "running" THEN "idle" ELSE shell[p][s]]]
    /\ announced' = [p \in Pane |-> {s \in Session : shell[p][s] # "unborn"}]
    /\ newcomer' = {}
    /\ UNCHANGED <<pane, relays>>

-----------------------------------------------------------------------------
RelayStep(c) == SendRegister(c) \/ SendResize(c) \/ SendClose(c)

ThreadStep(c) ==
    \/ Accept(c) \/ FindSession(c) \/ CreateSession(c) \/ SpawnFails(c)
    \/ Attach(c) \/ ReadClose(c) \/ ReadEnd(c) \/ Cleanup(c)

WatcherStep == WatcherLook \/ WatcherDecide \/ WatcherExit

Next ==
    \/ \E c \in Conn : Connect(c) \/ RelayEnds(c) \/ RelayStep(c) \/ ThreadStep(c)
    \/ \E p \in Pane : ClosePane(p)
    \/ \E p \in Pane, s \in Session : ShellExits(p, s) \/ Announce(p, s)
    \/ WatcherStep

Spec == Init /\ [][Next]_vars

\* The programs run: threads are scheduled, the watcher wakes every second,
\* and Som ends the relay of a pane it has closed.  Nothing is assumed of the
\* user, of the shells or of the network.
Fairness ==
    /\ \A c \in Conn :
        /\ WF_vars(SendRegister(c)) /\ WF_vars(SendResize(c))
        /\ WF_vars(ThreadStep(c))
        /\ WF_vars(pane[c[1]] = "closed" /\ RelayEnds(c))
    /\ \A p \in Pane, s \in Session : WF_vars(Announce(p, s))
    /\ WF_vars(WatcherStep)

FairSpec == Spec /\ Fairness

-----------------------------------------------------------------------------
(* Properties.                                                             *)

\* A running shell is always the one registered for its pane, between any two
\* steps of any two threads: no pane has two shells, and no shell runs that a
\* relay could not find or an admin could not list and kill (remove_session,
\* find_or_create_session).
NoStrayShell ==
    \A p \in Pane, s \in Session : shell[p][s] = "running" => registry[p] = s

\* The session of a tmux pane outlives Som: the connection going away never
\* ends its shell, and nobody else does unless the user closed that pane
\* (README: close Som or lose the connection, the process keeps running).
SurvivesDetach ==
    \A p \in TmuxPane, s \in Session :
        /\ shell[p][s] # "drop"
        /\ shell[p][s] \in {"close", "kill"} => pane[p] = "closed"

\* A Close takes the dead session out of the registry too: a registered
\* session whose shell is dead ended by itself, or the thread that read its
\* Close has yet to remove it (the last comment of handle_relay).
CorpseOnlyAfterOwnExit ==
    \A p \in Pane, s \in Session :
        registry[p] = s /\ shell[p][s] \in Ended =>
            \/ shell[p][s] = "exit"
            \/ \E c \in Conn : c[1] = p /\ held[c] = s /\ thread[c] = "closing"

\* The idle exit takes no session with it that the watcher could have seen:
\* at worst one registered after its last look at the registry
\* (spawn_idle_watcher).
IdleExitTakesOnlyNewcomers ==
    [][daemon = "up" /\ daemon' = "down" =>
        \A p \in Pane : registry[p] # NoSession => p \in newcomer]_vars

\* A Close that reaches an attached thread ends the session it is about,
\* whatever the other threads do and though the relay is gone by then.
CloseReachesSession ==
    \A p \in Pane, s \in Session :
        (\E c \in Conn : /\ c[1] = p /\ thread[c] = "attached"
                         /\ held[c] = s /\ "close" \in unread[c])
            ~> (registry[p] # s)

\* A daemon that nobody is connected to and that holds nothing goes away
\* (server.rs: it used to run forever).
Quiet == (\A c \in Conn : thread[c] = "none") /\ (\A p \in Pane : registry[p] = NoSession)
IdleDaemonLeaves == <>[]Quiet => <>[](daemon = "down")

\* relay::run returns once the shell it serves has exited.
RelayEndsWithShell ==
    \A c \in Conn, s \in Session :
        (thread[c] = "attached" /\ held[c] = s /\ shell[c[1]][s] = "exit")
            ~> (relay[c] = "off")

\* Closing a local pane ends its session for certain (on_removed): once its
\* relay and its connections are gone nothing is left of it.
ClosedLocalPaneIsEmpty ==
    \A p \in LocalPane :
        /\ pane[p] = "closed"
        /\ \A c \in Conn : c[1] = p => relay[c] = "off" /\ thread[c] = "none"
        => registry[p] = NoSession
=============================================================================
