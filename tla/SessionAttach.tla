---------------------------- MODULE SessionAttach ----------------------------
(***************************************************************************)
(* One session and the relays that attach to it (session.rs, server.rs).   *)
(*                                                                         *)
(* The session's event loop hands every chunk of the shell's output to the *)
(* raw-byte subscribers and then parses it into the session's own terminal.*)
(* A relay that attaches subscribes, is sent a snapshot of that terminal,  *)
(* and from then on the chunks; a thread of its own tells it when the      *)
(* shell has exited.  Relays come and go while the shell writes and exits. *)
(* What they say of their sizes is in SessionSize.                         *)
(*                                                                         *)
(* A chunk is its number.  A screen is the chunks that made it: those of   *)
(* the snapshot, 1 .. n, and the ones streamed after it.                   *)
(***************************************************************************)
EXTENDS Integers, Sequences

CONSTANTS
    Relay,      \* the relays that serve the session's pane, one after another
    MaxChunk    \* bound: chunks the shell writes

ASSUME AttachAssumption == MaxChunk \in Nat

VARIABLES
    shell,      \* the session's shell
    read,       \* chunks handed to the subscribers so far
    parsed,     \* chunks in the session's terminal; its lock is held in between
    pump,       \* has the pump passed Exit on?
    relay,      \* each relay's process
    thread,     \* how far the daemon's thread of its connection has come
    raw,        \* chunks in its raw-byte subscription
    watcher,    \* its exit watcher
    sock,       \* what the daemon has sent it after the snapshot: chunks, or Exited
    snapshot,   \* the chunks of the snapshot it was sent
    streamed,   \* the chunks it has written to its pty after the snapshot
    muted       \* has its output thread returned?

output == <<shell, read, parsed, pump>>
feed == <<raw, watcher, sock, snapshot, streamed, muted>>
vars == <<output, relay, thread, feed>>

Exited == 0          \* HolderOutput::ShellExited among the chunks of sock
NoSnapshot == -1

TypeOK ==
    /\ shell \in {"running", "exited"} /\ pump \in {"on", "done"}
    /\ read \in 0 .. MaxChunk /\ parsed \in {read, read - 1} \cap Nat
    /\ relay \in [Relay -> {"off", "settling", "on"}]
    /\ thread \in [Relay -> {"off", "registered", "sized", "subscribed", "snapped", "attached"}]
    /\ raw \in [Relay -> Seq(1 .. MaxChunk)]
    /\ watcher \in [Relay -> {"none", "armed", "woken"}]
    /\ sock \in [Relay -> Seq(0 .. MaxChunk)]
    /\ snapshot \in [Relay -> NoSnapshot .. MaxChunk]
    /\ streamed \in [Relay -> Seq(1 .. MaxChunk)]
    /\ muted \in [Relay -> BOOLEAN]

Init ==
    /\ shell = "running" /\ pump = "on"
    /\ read = 0 /\ parsed = 0
    /\ relay = [r \in Relay |-> "off"]
    /\ thread = [r \in Relay |-> "off"]
    /\ raw = [r \in Relay |-> <<>>]
    /\ watcher = [r \in Relay |-> "none"]
    /\ sock = [r \in Relay |-> <<>>]
    /\ snapshot = [r \in Relay |-> NoSnapshot]
    /\ streamed = [r \in Relay |-> <<>>]
    /\ muted = [r \in Relay |-> FALSE]

\* (mutant) The subscription is made after the snapshot, with the forwarder.
SubscribedLate(r) == thread[r] = "attached"

\* Is the relay's subscription in the broadcaster's list?
Subscribed(r) == thread[r] \in {"subscribed", "snapped", "attached"}

\* The event loop holds the terminal's lock from handing a chunk out to having
\* parsed it.
Locked == read # parsed

-----------------------------------------------------------------------------
(* The session's own threads.                                              *)

\* (mutant) A chunk is handed out without the terminal's lock.
BroadcastUnlocked ==
    /\ shell = "running" /\ read < MaxChunk
    /\ read' = read + 1
    /\ raw' = [r \in Relay |-> IF Subscribed(r) THEN Append(raw[r], read + 1) ELSE raw[r]]
    /\ UNCHANGED <<shell, parsed, pump, relay, thread, watcher, sock, snapshot, streamed, muted>>

\* The event loop reads a chunk and hands it to every subscriber.
Broadcast ==
    /\ shell = "running" /\ ~Locked /\ read < MaxChunk
    /\ read' = read + 1
    /\ raw' = [r \in Relay |-> IF Subscribed(r) THEN Append(raw[r], read + 1) ELSE raw[r]]
    /\ UNCHANGED <<shell, parsed, pump, relay, thread, watcher, sock, snapshot, streamed, muted>>

Parse ==
    /\ Locked
    /\ parsed' = read
    /\ UNCHANGED <<shell, read, pump, relay, thread, feed>>

\* The shell ends; its last output has been read by then (drain_on_exit).
ShellExits ==
    /\ shell = "running" /\ ~Locked
    /\ shell' = "exited"
    /\ UNCHANGED <<read, parsed, pump, relay, thread, feed>>

\* (mutant) The watchers share one feed: only one of them gets the Exit.
PumpExitToOne ==
    /\ shell = "exited" /\ pump = "on"
    /\ pump' = "done"
    /\ IF \E r \in Relay : watcher[r] = "armed"
       THEN \E r \in Relay : watcher[r] = "armed" /\ watcher' = [watcher EXCEPT ![r] = "woken"]
       ELSE UNCHANGED watcher
    /\ UNCHANGED <<shell, read, parsed, relay, thread, raw, sock, snapshot, streamed, muted>>

\* The pump passes Exit on to the subscribers of the moment and stops.
PumpExit ==
    /\ shell = "exited" /\ pump = "on"
    /\ pump' = "done"
    /\ watcher' = [r \in Relay |-> IF watcher[r] = "armed" THEN "woken" ELSE watcher[r]]
    /\ UNCHANGED <<shell, read, parsed, relay, thread, raw, sock, snapshot, streamed, muted>>

-----------------------------------------------------------------------------
(* A relay.                                                                *)

\* It has connected and registered its pane with this session.
Connect(r) ==
    /\ relay[r] = "off" /\ thread[r] = "off"
    /\ relay' = [relay EXCEPT ![r] = "settling"]
    /\ thread' = [thread EXCEPT ![r] = "registered"]
    /\ snapshot' = [snapshot EXCEPT ![r] = NoSnapshot]
    /\ streamed' = [streamed EXCEPT ![r] = <<>>]
    /\ muted' = [muted EXCEPT ![r] = FALSE]
    /\ UNCHANGED <<output, raw, watcher, sock>>

\* Its size has settled and goes out; now its threads run.
SendInitialSize(r) ==
    /\ relay[r] = "settling"
    /\ relay' = [relay EXCEPT ![r] = "on"]
    /\ UNCHANGED <<output, thread, feed>>

\* Its output thread writes what it is sent to the pty, up to ShellExited.
Show(r) ==
    /\ relay[r] = "on" /\ ~muted[r] /\ sock[r] # <<>>
    /\ sock' = [sock EXCEPT ![r] = Tail(@)]
    /\ IF Head(sock[r]) = Exited
       THEN muted' = [muted EXCEPT ![r] = TRUE] /\ UNCHANGED streamed
       ELSE streamed' = [streamed EXCEPT ![r] = Append(@, Head(sock[r]))] /\ UNCHANGED muted
    /\ UNCHANGED <<output, relay, thread, raw, watcher, snapshot>>

\* The relay ends: Som quits, or the connection to the host is lost.
RelayEnds(r) ==
    /\ relay[r] # "off"
    /\ relay' = [relay EXCEPT ![r] = "off"]
    /\ UNCHANGED <<output, thread, feed>>

-----------------------------------------------------------------------------
(* The daemon's threads of its connection.                                 *)

\* The initial Resize is read and applied.
ReadInitialSize(r) ==
    /\ thread[r] = "registered" /\ relay[r] = "on"
    /\ thread' = [thread EXCEPT ![r] = "sized"]
    /\ UNCHANGED <<output, relay, feed>>

\* subscribe_raw_bytes: a fresh, empty subscription.
Subscribe(r) ==
    /\ thread[r] = "sized"
    /\ thread' = [thread EXCEPT ![r] = "subscribed"]
    /\ raw' = [raw EXCEPT ![r] = <<>>]
    /\ sock' = [sock EXCEPT ![r] = <<>>]
    /\ UNCHANGED <<output, relay, watcher, snapshot, streamed, muted>>

\* The snapshot is taken under the terminal's lock.
TakeSnapshot(r) ==
    /\ thread[r] = "subscribed" /\ ~Locked /\ relay[r] # "off"
    /\ thread' = [thread EXCEPT ![r] = "snapped"]
    /\ snapshot' = [snapshot EXCEPT ![r] = parsed]
    /\ UNCHANGED <<output, relay, raw, watcher, sock, streamed, muted>>

\* spawn_forwarder: the chunk thread runs, and the exit watcher subscribes.
Arm(r) ==
    /\ thread[r] = "snapped"
    /\ thread' = [thread EXCEPT ![r] = "attached"]
    /\ watcher' = [watcher EXCEPT ![r] = "armed"]
    /\ UNCHANGED <<output, relay, raw, sock, snapshot, streamed, muted>>

\* (mutant) The chunk thread ends with the shell.
ForwardWhileRunning(r) ==
    /\ shell = "running"
    /\ thread[r] = "attached" /\ raw[r] # <<>> /\ relay[r] # "off"
    /\ raw' = [raw EXCEPT ![r] = Tail(@)]
    /\ sock' = [sock EXCEPT ![r] = Append(@, Head(raw[r]))]
    /\ UNCHANGED <<output, relay, thread, watcher, snapshot, streamed, muted>>

\* The chunk thread sends on what its subscription holds.
Forward(r) ==
    /\ thread[r] = "attached" /\ raw[r] # <<>> /\ relay[r] # "off"
    /\ raw' = [raw EXCEPT ![r] = Tail(@)]
    /\ sock' = [sock EXCEPT ![r] = Append(@, Head(raw[r]))]
    /\ UNCHANGED <<output, relay, thread, watcher, snapshot, streamed, muted>>

\* The exit watcher sends ShellExited and is done.
TellExit(r) ==
    /\ thread[r] = "attached" /\ watcher[r] = "woken" /\ relay[r] # "off"
    /\ watcher' = [watcher EXCEPT ![r] = "none"]
    /\ sock' = [sock EXCEPT ![r] = Append(@, Exited)]
    /\ UNCHANGED <<output, relay, thread, raw, snapshot, streamed, muted>>

\* The connection's thread returns: its relay is gone, and there is nothing to
\* read of it or the snapshot cannot be sent to it.
ThreadReturns(r) ==
    /\ relay[r] = "off"
    /\ \/ thread[r] \in {"registered", "attached"}
       \/ thread[r] = "subscribed" /\ ~Locked
    /\ thread' = [thread EXCEPT ![r] = "off"]
    /\ raw' = [raw EXCEPT ![r] = <<>>]
    /\ sock' = [sock EXCEPT ![r] = <<>>]
    /\ watcher' = [watcher EXCEPT ![r] = "none"]
    /\ UNCHANGED <<output, relay, snapshot, streamed, muted>>

-----------------------------------------------------------------------------
SessionStep == Broadcast \/ Parse \/ ShellExits \/ PumpExit

RelayStep(r) ==
    \/ Connect(r) \/ SendInitialSize(r) \/ Show(r) \/ RelayEnds(r)

ThreadStep(r) ==
    \/ ReadInitialSize(r) \/ Subscribe(r) \/ TakeSnapshot(r) \/ Arm(r) \/ Forward(r)
    \/ TellExit(r) \/ ThreadReturns(r)

Next == SessionStep \/ \E r \in Relay : RelayStep(r) \/ ThreadStep(r)

Spec == Init /\ [][Next]_vars

\* The threads run.  Nothing is assumed of the user or of the shell.
Fairness ==
    /\ WF_vars(Parse) /\ WF_vars(PumpExit)
    /\ \A r \in Relay :
        /\ WF_vars(Show(r)) /\ WF_vars(TakeSnapshot(r)) /\ WF_vars(Arm(r))
        /\ WF_vars(Forward(r)) /\ WF_vars(TellExit(r))

FairSpec == Spec /\ Fairness

-----------------------------------------------------------------------------
(* Properties.                                                             *)

\* What relay r shows or is still to be shown after its snapshot.
Stream(r) == streamed[r] \o sock[r] \o raw[r]
Chunks(s) == {i \in 1 .. Len(s) : s[i] # Exited}

\* No output is lost between the snapshot and the stream, nor repeated or
\* reordered in it: whatever the shell has written is in the snapshot or on its
\* way behind it, every chunk after the one before (handle_relay: subscribing
\* before the snapshot is deliberate).
NothingLost ==
    \A r \in Relay : thread[r] \in {"snapped", "attached"} =>
        LET s == Stream(r) IN
            /\ \A n \in snapshot[r] + 1 .. read : \E i \in Chunks(s) : s[i] = n
            /\ \A i, j \in Chunks(s) : i < j => s[i] < s[j]
            /\ \A i \in Chunks(s) : s[i] = read \/ \E j \in Chunks(s) : s[j] = s[i] + 1

\* Every chunk gets to the screen of an attached relay that stays and has not
\* been told that the shell exited, whatever other relays do.
ScreenCatchesUp ==
    \A r \in Relay, n \in 1 .. MaxChunk :
        (thread[r] = "attached" /\ read >= n) ~>
            (\/ snapshot[r] >= n
             \/ \E i \in 1 .. Len(streamed[r]) : streamed[r][i] = n
             \/ muted[r] \/ relay[r] = "off")

\* Every relay that was attached when the shell exited is told, not just the
\* first whose watcher asks (subscribe: each has a feed of its own).
ExitIsTold ==
    \A r \in Relay :
        (watcher[r] = "armed" /\ shell = "exited" /\ pump = "on")
            ~> (muted[r] \/ relay[r] = "off")

\* The screen of a relay that has reattached is correct: the stream takes up
\* where the snapshot ends (README: so the screen comes back correct).
ScreenIsExact ==
    \A r \in Relay : streamed[r] # <<>> => streamed[r][1] = snapshot[r] + 1

=============================================================================
