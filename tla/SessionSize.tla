------------------------------ MODULE SessionSize ------------------------------
(***************************************************************************)
(* The size of a session, and whose word it follows (relay.rs, bounds.rs,  *)
(* session.rs).                                                            *)
(*                                                                         *)
(* A relay runs in a pty of Som's, whose size is that of its pane once Som *)
(* has laid it out.  It waits for that size to settle, sends it, and polls *)
(* it from then on.  The daemon's thread of each connection applies what   *)
(* it reads to the one session: to the bounds it remembers, to its         *)
(* terminal, and, through the event loop, to the pty of its shell.         *)
(*                                                                         *)
(* A size stands for columns and rows, a cell for the width and height of  *)
(* the font's cell in pixels.  The pty's size can always be read.          *)
(***************************************************************************)
EXTENDS Integers, Sequences

CONSTANTS
    Relay,       \* the relays that serve the pane, and may overlap
    Size,        \* the sizes there are
    Placeholder, \* PLACEHOLDER_SIZE: what a pane has before its first layout
    StartSize,   \* what a session starts with
    NoSize,      \* nothing read yet
    Cell,        \* the cells of real fonts
    NoRelay,     \* nobody has resized the session yet
    MaxAttempts, \* SETTLE_MAX_ATTEMPTS
    MaxResizes,  \* bound: how often the panes are laid out
    MaxUnread    \* bound: sizes on their way to the daemon, and to the event loop

ASSUME SizeAssumption ==
    /\ Placeholder \in Size /\ StartSize \in Size /\ NoSize \notin Size
    /\ NoRelay \notin Relay
    /\ Cell \subseteq Nat \ {0, 1}
    /\ MaxAttempts \in Nat /\ MaxResizes \in Nat /\ MaxUnread \in Nat \ {0}

VARIABLES
    paneSize,   \* the size of each relay's own pty
    resizes,    \* layouts so far
    relay,      \* how far each relay has come
    last,       \* settle_from's last reading; then the poll thread's last_size
    stable,     \* its stable_reads
    reads,      \* its readings so far
    unread,     \* the Resizes written and not read yet
    thread,     \* how far the daemon's thread of its connection has come
    resize,     \* what a thread that holds the lock of last_bounds has left to do
    bounds,     \* the session's last_bounds
    term,       \* the size of its terminal
    toPty,      \* Msg::Resize on its way to the event loop
    tty,        \* the size of the shell's pty
    author      \* whose Resize the bounds come from (for the properties)

som == <<paneSize, resizes>>
settling == <<last, stable, reads>>
session == <<resize, bounds, term, toPty, tty, author>>
vars == <<som, relay, settling, unread, thread, session>>

Unknown == 0    \* a Resize that does not say its cell
NoCell == 1     \* SessionBounds' own "not yet known"
StableReads == 2

Resize == [size : Size, cell : Cell \cup {Unknown}]

NoResize == [next |-> "none"]
Idle == {NoResize}

TypeOK ==
    /\ paneSize \in [Relay -> Size]
    /\ resizes \in 0 .. MaxResizes
    /\ relay \in [Relay -> {"off", "settling", "on"}]
    /\ last \in [Relay -> Size \cup {NoSize}]
    /\ stable \in [Relay -> 0 .. StableReads]
    /\ reads \in [Relay -> 0 .. MaxAttempts + 1]
    /\ unread \in [Relay -> Seq(Resize)]
    /\ thread \in [Relay -> {"off", "registered", "attaching", "reading"}]
    /\ resize \in [Relay -> Idle \cup [next : {"term", "pty"}, size : Size]]
    /\ bounds \in [size : Size, cell : Cell \cup {NoCell}]
    /\ term \in Size /\ tty \in Size
    /\ toPty \in Seq(Size)
    /\ author \in Relay \cup {NoRelay}

Init ==
    /\ paneSize = [r \in Relay |-> Placeholder]
    /\ resizes = 0
    /\ relay = [r \in Relay |-> "off"]
    /\ last = [r \in Relay |-> NoSize]
    /\ stable = [r \in Relay |-> 0]
    /\ reads = [r \in Relay |-> 0]
    /\ unread = [r \in Relay |-> <<>>]
    /\ thread = [r \in Relay |-> "off"]
    /\ resize = [r \in Relay |-> NoResize]
    /\ bounds = [size |-> StartSize, cell |-> NoCell]
    /\ term = StartSize /\ tty = StartSize
    /\ toPty = <<>>
    /\ author = NoRelay

-----------------------------------------------------------------------------
(* A relay and its pane.                                                   *)

\* The relay starts in a pty that has the placeholder's size, connects and
\* registers.
Connect(r) ==
    /\ relay[r] = "off" /\ thread[r] = "off"
    /\ paneSize' = [paneSize EXCEPT ![r] = Placeholder]
    /\ relay' = [relay EXCEPT ![r] = "settling"]
    /\ thread' = [thread EXCEPT ![r] = "registered"]
    /\ last' = [last EXCEPT ![r] = NoSize]
    /\ stable' = [stable EXCEPT ![r] = 0]
    /\ reads' = [reads EXCEPT ![r] = 0]
    /\ UNCHANGED <<resizes, unread, session>>

\* Som lays the pane out, for the first time or anew.
PaneResizes(r) ==
    /\ relay[r] # "off" /\ resizes < MaxResizes
    /\ \E s \in Size \ {paneSize[r]} : paneSize' = [paneSize EXCEPT ![r] = s]
    /\ resizes' = resizes + 1
    /\ UNCHANGED <<relay, settling, unread, thread, session>>

Settled(r) == stable[r] = StableReads \/ reads[r] = MaxAttempts + 1

\* (mutant) The placeholder counts like any other size.
SettleReadCountsPlaceholder(r) ==
    /\ relay[r] = "settling" /\ ~Settled(r)
    /\ last' = [last EXCEPT ![r] = paneSize[r]]
    /\ stable' = [stable EXCEPT ![r] = IF paneSize[r] = last[r] THEN @ + 1 ELSE 1]
    /\ reads' = [reads EXCEPT ![r] = @ + 1]
    /\ UNCHANGED <<som, relay, unread, thread, session>>

\* One reading of settle_from.  The placeholder never counts as stable.
SettleRead(r) ==
    /\ relay[r] = "settling" /\ ~Settled(r)
    /\ last' = [last EXCEPT ![r] = paneSize[r]]
    /\ stable' = [stable EXCEPT ![r] =
                    IF paneSize[r] = Placeholder THEN 0
                    ELSE IF paneSize[r] = last[r] THEN @ + 1 ELSE 1]
    /\ reads' = [reads EXCEPT ![r] = @ + 1]
    /\ UNCHANGED <<som, relay, unread, thread, session>>

\* (mutant) The poll thread starts from a reading of its own.
SendInitialSizeSeededAnew(r) ==
    /\ relay[r] = "settling" /\ Settled(r)
    /\ relay' = [relay EXCEPT ![r] = "on"]
    /\ \E c \in Cell \cup {Unknown} :
        unread' = [unread EXCEPT ![r] = Append(@, [size |-> last[r], cell |-> c])]
    /\ last' = [last EXCEPT ![r] = paneSize[r]]
    /\ UNCHANGED <<som, stable, reads, thread, session>>

\* The settled size goes out, with the cell if Som has told it one; the poll
\* thread starts from it.
SendInitialSize(r) ==
    /\ relay[r] = "settling" /\ Settled(r)
    /\ relay' = [relay EXCEPT ![r] = "on"]
    /\ \E c \in Cell \cup {Unknown} :
        unread' = [unread EXCEPT ![r] = Append(@, [size |-> last[r], cell |-> c])]
    /\ UNCHANGED <<som, settling, thread, session>>

\* The poll thread finds another size.
PollSize(r) ==
    /\ relay[r] = "on" /\ paneSize[r] # last[r]
    /\ Len(unread[r]) < MaxUnread
    /\ last' = [last EXCEPT ![r] = paneSize[r]]
    /\ unread' = [unread EXCEPT ![r] =
                    Append(@, [size |-> paneSize[r], cell |-> Unknown])]
    /\ UNCHANGED <<som, relay, stable, reads, thread, session>>

\* The relay ends; what it has written can still be read.
RelayEnds(r) ==
    /\ relay[r] # "off"
    /\ relay' = [relay EXCEPT ![r] = "off"]
    /\ UNCHANGED <<som, settling, unread, thread, session>>

-----------------------------------------------------------------------------
(* The daemon.                                                             *)

\* Nobody holds the lock of last_bounds.
Unlocked == \A r \in Relay : resize[r] = NoResize

WithPixelSize(cell, previous) == IF cell > 0 THEN cell ELSE previous

\* (mutant) The bounds are taken as they were sent.
ResizedAsSent(m) == m

\* What a Resize makes of the bounds: read_loop resolves its cell against
\* nothing, and resize resolves what is left of it against the bounds.
Resized(m) ==
    [size |-> m.size,
     cell |-> WithPixelSize(WithPixelSize(m.cell, NoCell), bounds.cell)]

Apply(r, m) ==
    /\ bounds' = Resized(m)
    /\ resize' = [resize EXCEPT ![r] = [next |-> "term", size |-> m.size]]
    /\ author' = r
    /\ UNCHANGED <<term, toPty, tty>>

\* force_resize: the initial Resize is applied whatever the size was.
ReadInitialResize(r) ==
    /\ thread[r] = "registered" /\ unread[r] # <<>>
    /\ Unlocked
    /\ Apply(r, Head(unread[r]))
    /\ unread' = [unread EXCEPT ![r] = Tail(@)]
    /\ thread' = [thread EXCEPT ![r] = "attaching"]
    /\ UNCHANGED <<som, relay, settling>>

\* The snapshot is sent, or cannot be sent any more.
SendSnapshot(r) ==
    /\ thread[r] = "attaching" /\ resize[r] = NoResize
    /\ IF relay[r] = "off"
       THEN /\ thread' = [thread EXCEPT ![r] = "off"]
            /\ unread' = [unread EXCEPT ![r] = <<>>]
       ELSE /\ thread' = [thread EXCEPT ![r] = "reading"]
            /\ UNCHANGED unread
    /\ UNCHANGED <<som, relay, settling, session>>

\* (mutant) Nothing is locked while the terminal and the pty are resized.
ReadResizeUnlocked(r) ==
    /\ thread[r] = "reading" /\ unread[r] # <<>> /\ resize[r] = NoResize
    /\ IF Resized(Head(unread[r])) = bounds THEN UNCHANGED session
       ELSE Apply(r, Head(unread[r]))
    /\ unread' = [unread EXCEPT ![r] = Tail(@)]
    /\ UNCHANGED <<som, relay, settling, thread>>

\* resize: nothing happens when the bounds stay the same.
ReadResize(r) ==
    /\ thread[r] = "reading" /\ unread[r] # <<>>
    /\ Unlocked
    /\ IF Resized(Head(unread[r])) = bounds THEN UNCHANGED session
       ELSE Apply(r, Head(unread[r]))
    /\ unread' = [unread EXCEPT ![r] = Tail(@)]
    /\ UNCHANGED <<som, relay, settling, thread>>

\* Under the lock still: the terminal gets the size ...
ResizeTerm(r) ==
    /\ resize[r].next = "term"
    /\ term' = resize[r].size
    /\ resize' = [resize EXCEPT ![r] = [next |-> "pty", size |-> resize[r].size]]
    /\ UNCHANGED <<som, relay, settling, unread, thread, bounds, toPty, tty, author>>

\* ... and the event loop is told.
TellPty(r) ==
    /\ resize[r].next = "pty" /\ Len(toPty) < MaxUnread
    /\ toPty' = Append(toPty, resize[r].size)
    /\ resize' = [resize EXCEPT ![r] = NoResize]
    /\ UNCHANGED <<som, relay, settling, unread, thread, bounds, term, tty, author>>

\* The event loop resizes the pty (which signals the shell).
ResizeTty ==
    /\ toPty # <<>>
    /\ tty' = Head(toPty)
    /\ toPty' = Tail(toPty)
    /\ UNCHANGED <<som, relay, settling, unread, thread, resize, bounds, term, author>>

\* Everything the relay wrote has been read.
ReadEnd(r) ==
    /\ thread[r] \in {"registered", "reading"} /\ resize[r] = NoResize
    /\ relay[r] = "off" /\ unread[r] = <<>>
    /\ thread' = [thread EXCEPT ![r] = "off"]
    /\ UNCHANGED <<som, relay, settling, unread, session>>

-----------------------------------------------------------------------------
RelayStep(r) == SettleRead(r) \/ SendInitialSize(r) \/ PollSize(r)

ThreadStep(r) ==
    \/ ReadInitialResize(r) \/ SendSnapshot(r) \/ ReadResize(r)
    \/ ResizeTerm(r) \/ TellPty(r) \/ ReadEnd(r)

Next ==
    \/ \E r \in Relay :
        Connect(r) \/ PaneResizes(r) \/ RelayEnds(r) \/ RelayStep(r) \/ ThreadStep(r)
    \/ ResizeTty

Spec == Init /\ [][Next]_vars

\* The threads run; a mutex that is freed again and again is got in the end.
Fairness ==
    /\ WF_vars(ResizeTty)
    /\ \A r \in Relay :
        /\ WF_vars(RelayStep(r))
        /\ SF_vars(ReadInitialResize(r)) /\ SF_vars(ReadResize(r))
        /\ WF_vars(SendSnapshot(r) \/ ResizeTerm(r) \/ TellPty(r) \/ ReadEnd(r))

FairSpec == Spec /\ Fairness

-----------------------------------------------------------------------------
(* Properties.                                                             *)

\* The remembered bounds, the terminal and the shell's pty have one size as
\* soon as nobody is resizing and what is on its way has arrived, however the
\* threads of several connections interleave (resize: the lock spans them).
SizesAgree ==
    Unlocked =>
        /\ term = bounds.size
        /\ (IF toPty = <<>> THEN tty ELSE toPty[Len(toPty)]) = bounds.size

\* A relay says the placeholder's size first only when it never got to see a
\* settled one (settled_initial_size).
PlaceholderIsLastResort ==
    [][\A r \in Relay :
        /\ relay[r] = "settling" /\ relay'[r] = "on"
        /\ \E i \in 1 .. Len(unread'[r]) : unread'[r][i].size = Placeholder
        => reads[r] = MaxAttempts + 1]_vars

\* If a relay has the last word on the size, the session comes to have the size
\* of its pane, at every change and whatever it settled on first (the poll
\* thread corrects it).
SizeFollowsItsAuthor ==
    \A r \in Relay :
        <>[](relay[r] = "on" /\ author = r)
            => <>[](bounds.size = paneSize[r] /\ tty = paneSize[r])
=============================================================================
