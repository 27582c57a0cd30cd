# Som's living sessions in TLA+

Som is a GPU terminal whose shells outlive it: a daemon, `somsrv`, holds every
shell in a terminal of its own, and each pane of Som is served by a relay
process that attaches to that daemon, here or at the far end of an ssh. Rich
content (images, video, audio) travels around the pty, through the same daemon.

This directory models the part of Som where its promises are made ("sessions
that don't die", "no leftover sessions", "the screen comes back correct"): the
daemon, how it is found and replaced, the relays, the link, and the content that
passes through its cache. The modules follow the code under `src/crates`;
`PROJECT.json` names, for every definition, the lines it stands for.

In what follows a path without a directory is below `src/crates/somsrv/src/`.

## The system

| component | state it keeps | operations | hard in it |
|---|---|---|---|
| daemon's registry (`server.rs`) | sessions by pane, live connections, idle time | register (find or create), attach, close, kill, drop, idle out | every connection is a thread; removal is by key; the watcher looks at two things in turn |
| session (`session.rs`) | pty, headless terminal, bounds, subscribers | broadcast output, snapshot, subscribe, resize, kill | the event loop, the pump and each relay's three threads share it |
| relay (`relay.rs`) | settled size, its threads | connect, register, settle a size, poll it, write output, pass Close on | dies at any moment; two may overlap for one pane |
| link (`link/`) | channels, frame numbers, partial messages | open, write, read, close, break and reset | frames lost, repeated, damaged; two ends reset each other; reader threads |
| Som's tabs (`terminal_view`) | panes, their relays | open, close, restore, reconcile | closing races the relay's registration; restoring races new tabs |
| daemon start (`daemon.rs`, `single_instance.rs`) | address, lock | connect or spawn, replace a stale build | two clients start one each; one stops what another has just started |
| rich-content cache (`srv_cache.rs`, `http_fetch.rs`) | entries, watermarks, subscribers, routes, stops | put a chunk, subscribe, route a range request, stop, fetch | chunks out of order; stale routes; unsubscribing races subscribing |
| Som's progress buffer (`rich_content_srv_channel.rs`) | buffered bytes, their start, watermark, seek target, is the whole file asked for | append, consume, seek, request, reset | three cells without one lock; a late answer to an earlier seek |
| SRP client, `somsrp` | its connections, the file | register a responder, send chunks, answer range requests, stop | the sender of a stream is not who answers for it; it may be killed |
| players, placements (`rich_content_player.rs`, `rich_content_audio_player.rs`, `terminal.rs`) | what is decoded, where it reads, what is on the screen | see cells, paint, read, seek, end, tear down | every request goes by a thread and a connection of its own |
| pipes (`srp_client/src/pipe`) | sockets, named pipes | frame messages | taken as reliable and ordered |
| widgets, redraw, consoles, configuration, radio, Lua, `somkey`, vendored Zed crates | - | - | not modelled: painting, decoding, parsing, external services |

They interact like this. A relay talks to the daemon over a local connection of
its own: handshake, Register, one Resize, then input and further Resizes one
way and a snapshot and the output the other. Som talks to its relay through the
pty the relay runs in; for a remote pane that pty also carries the link, whose
channels end in further connections to the daemon. Som asks the local daemon
directly (`admin.rs`) to kill a session. Inside the daemon the threads share the
registry (one mutex), and of each session its terminal (one lock, held by the
event loop over each chunk), its `last_bounds` and its subscriber lists.

What makes it correct, part by part:

- the registry: one shell for a pane, none out of reach; a detached session goes
  on; a Close ends one and takes it out; an empty daemon leaves;
- output: a reattached screen misses nothing; everyone attached is told the exit;
- sizes: bounds, terminal and pty agree, and follow the pane in use;
- the link: a channel is a connection to the daemon, whatever a tty does to it;
- the daemon's start: one daemon answers, of the newest build that has come;
- the cache and the buffer: bytes at their own offsets, a watermark that never
  claims a gap, a reader that is served, a picture that is shown whole, and a stop
  that stays one.

`PROJECT.json` lists the hazards behind these, each at its line with the
properties that cover it, or why none does yet.

## Modules

### SessionRegistry

Panes, relays, the daemon's thread of each connection, sessions and the idle
watcher. A connection is a pane and one of `Slot`; the slots let an old relay
overlap with its successor, which only a remote one can (a local relay is a
child of Som). A session is a pane and a name.

`relay`, `thread` and `watcher` say how far a process or thread has come, so that
every point where it can be overtaken is a state: between Register and its
reading, Resize and its reading, the killing of a shell and the removal of its
entry, the watcher's look at `LIVE_CONNECTIONS`, its look at the registry and
its exit. What the registry's mutex makes one step is one action
(`FindSession`, `CreateSession`, `RemoveSession`). `unread` is what a relay wrote
and its thread has not read; it survives the relay. `ClosePane` has Som's three
ways: `KillSession` for a local pane, an EndSession frame for a remote one, or
nothing, since that frame has 50 ms to be written. `newcomer` is a history
variable: the panes registered since the watcher's last look at the registry.

### SessionAttach

One session, the relays that attach to it and the output. A chunk is its number
and a screen is the chunks that made it. `Broadcast` and `Parse` are the two
halves of the event loop's work on a chunk; between them it holds the terminal's
lock, which `TakeSnapshot` needs. That the broadcast is under the lock is a
property of the fork of `alacritty_terminal` that Som builds on (its writer hook);
the fork is not under `src/` and that part of the model is marked external.
`Subscribe`, `TakeSnapshot`, `Arm` are the steps of `handle_relay` in order;
`Forward` and `TellExit` are the two threads of `spawn_forwarder`. A connection
that cannot be written to any more loses what its thread had left.

### SessionSize

The size of a session: what a relay's pty says (`paneSize`), what `settle_from`
makes of it (`SettleRead`), what goes out (`SendInitialSize`, `PollSize`), and
what the daemon makes of that under the lock of `last_bounds`
(`Apply`, `ResizeTerm`, `TellPty`) until the event loop resizes the pty. `resize[r]`
is what the thread that holds the lock has left to do. A cell's size in pixels
is a number, 0 when a Resize does not say, as in the code. `author` is a history
variable: whose Resize the bounds come from.

### Conversation and Link

`Conversation` is what a channel of the link promises: to be a connection.
`Link` is how it is kept: `SrvLink` and `LinkHub` (`link/endpoint.rs`) and the
numbers, pieces and breaks of `link/frame.rs`. A frame is sealed and written
under one lock, so it is one step; the frames of an answer are not, so others
come in between. `write_message` and `Drop` check and then send (`StartWrite` /
`FinishWrite`, `DropChannel` / `SayClosed`), a break forgets and then sends Reset
(`SomBreaks` / `SomSaysReset`, and the same for the hub), and a reader removes
its channel's entry and then reports it (`ReaderEnds` / `ReaderReports`).
The pty hands the head of a queue on, or hands it on twice (`HandsOn`), or damaged
(`HandsOnDamaged`), or loses it (`PtyLoses`): what a frame has suffered is seen when
its end reads it. `CanFail` bounds this: `MaxFaults` in all, and with `FailsLater`
FALSE none once an end has started over. A decoder remembers the last number and the pieces of each channel; that several
pieces put together wrongly do not decompress is `Torn`. The daemon at the end
serves a connection that begins with the channel's first message (its
`ConnectionKind`) and ends any other. `KeepsPromise` is the refinement: Link
implements Conversation with `open` read off Som's map of channels.

### DaemonStart

Clients (relays, Som, `somsrp`, channels of the link) and processes started with
`--daemon`. `phase` says how far a client has come: `replace_if_stale_at` is
`Probe`, `StopDaemon`, `AwaitGone`; `connect_or_spawn` is `TryConnect`, `Spawn`,
`Retry`, `GiveUp`. Between any two of them other clients and daemons go on, so
what `Probe` has seen may be gone when `StopDaemon` uses it. A daemon process takes
the lock (`TakeLock`: the loser leaves), then binds (`Bind`), then answers; a killed
one answers until it is gone (`Dies`), and its lock and address go with it. Build 0
stands for builds from before there were ids: such a client replaces nobody, and
such a daemon does not name its process, so all daemons are stopped in its place.
One assumption is about time: a daemon that is starting answers within the 2 s that
a client retries, and a killed process is gone within the 2 s that its killer waits.
`bereft` is a history variable: the clients that lost a daemon while they retried.

### SrvCache, ProgressState and Placement

`SrvCache` (the daemon's cache, for one placement) and `ProgressState` (Som's
buffer of it) have operators where the other modules have actions: each is what one
method does under its lock. Bytes are their own offsets, so that a byte in the wrong
place can be seen. `PutChunk` trims the window (`Recent`, `Trimmed`), moves the
front watermark over what is pending (`MergeFront`) and the tail's towards the front
(`MergeTail`), and pushes progress to the subscriber's `inbox`; `Subscribe` replays
what the daemon remembers. `AppendChunk`, `AdvanceConsumed` and `ResetForSeek` are
the buffer's methods, `WholeIsDue` the condition of `request_whole_range_once`.

`Placement` composes them with everybody who touches them. Its source is a file
that `somsrp` holds (audio: `ANNOUNCE_LEN` first and the rest when asked; a picture:
pushed whole) or a fetch by the daemon (a track's URL, or a picture in a markdown
document). Its actions are those of `somsrp`'s two threads (`PlayerStarts` ...
`PlayerEnds`, `ResponderReads`, `ResponderChunk`), the fetch (`FetchBegins` ...
`FetchFails`), Som's listener (`HearProgress`, which stores the bytes, then
`PublishFront`, which stores the watermark, and `HearWord`), its paint thread (`See`,
`Paint`, `CellsVanish`, `TearDown`), its decoding thread (`OpenPlayer`, `ReadSome`,
`ReadNothing`, `AskForMore`, `Seek`, `EndPlayback`), and the daemon's threads that
handle a request (`Handle*`, `Range*`). A request of Som's is written by a thread of
its own over a connection of its own: `wanted`, `ending`, `unsubscribing`,
`registering` and `stopping` are requests on their way, and any may overtake any.

`late`, `lost`, `revived` and `troubled` are history variables: Som subscribed after
the first chunk; the requests that nobody answers; a fetch that began after its
stop; and the one trouble of a source (bound `Trouble`) has happened.

`MC*` modules hold the constants TLC needs; the bounds are in the `.cfg` files.

## What TLC checks

| run | instance | states | properties |
|---|---|---|---|
| Registry | a local pane, or a remote one; 2 slots, 2 sessions, no idle tick | 297k | TypeOK, SurvivesDetach, NoStrayShell, CorpseOnlyAfterOwnExit, IdleExitTakesOnlyNewcomers, CloseReachesSession, IdleDaemonLeaves |
| SessionAttach | 2 relays, 2 chunks | 103k | TypeOK, NothingLost, ScreenCatchesUp, ExitIsTold |
| SessionSize | 2 relays, a size and the placeholder, 2 attempts, 2 layouts, 2 unread | 226k | TypeOK, SizesAgree, PlaceholderIsLastResort, SizeFollowsItsAuthor |
| Link | 2 channels, answers of 2 frames and of 1; or 1 channel written to three times; 1 fault | 394k | TypeOK, KeepsPromise, HangUpIsHeard, NothingLeftBehind |
| DaemonStart | 2 clients of any of 3 builds, 3 daemon processes | 1.3M | TypeOK, OneDaemon, FailsOnlyIfStopped, StopsOnlyOlder, NewestTakesOver |
| Placement | 9 sources, 3 bytes in pieces of 2, a window of 1 byte, room for 2 | 299k | TypeOK, FrontIsWhole, OnlyArrivedIsOffered, BufferInPlace, ReadIsServed, PictureSettles, StopIsFinal, EndReachesPlayer, ListenerEnds |

Six more runs show where the code does not do what it or its documents say:

| run | property | what happens |
|---|---|---|
| RegistryShellExit | RelayEndsWithShell | the shell exits and only the relay's output thread returns; `run`'s doc comment says it does |
| RegistryLocalClose | ClosedLocalPaneIsEmpty | a local pane is closed while its relay's Register is unread: KillSession finds nothing, then the session starts |
| AttachExact | ScreenIsExact | a chunk read between subscribing and the snapshot is in both, and written twice |
| LinkBreak | BreakOnlyWhenDamaged | the hub's Close lands between two frames of an answer; Som takes the last for damage and drops every channel |
| LinkClean | NextChannelsStartClean | a channel opened between `recover`'s two steps loses its connection to the Reset and is never told |
| PictureShown | EveryPictureIsShown | Som subscribes in the middle of a picture's stream; its one request for the whole file is answered into a buffer that began elsewhere |

Why these bounds are enough to matter. Two slots and two sessions are the least
with which an old relay meets a new one's session and an entry can be removed
and made anew between two steps of a thread. Registry's panes are tried one at a
time: two at once, and any number of idle ticks, are what the proofs of its safety
properties cover (the two liveness properties are about one pane, or about the
daemon when every pane is quiet). Two chunks let one be before, in and after an
attachment. Two layouts let the size change once while settling and once after, and
two unread Resizes let a gone relay's be read after its successor's. Link needs an
answer of two frames (so that something can come in between) and one of one, three
writes (so that a connection can be made for a channel whose first is gone, and be
there when the first one's reader ends and removes the entry), two
channels (so that they mix) and a frame count that wraps (`SeqMod` 4 for 2^32).
DaemonStart needs an old build, a new one and a nameless one, and a process that
serves beside two that are starting. Placement needs a file longer than a piece and
than the buffer's room, so that chunks straddle what is there and a reader waits,
and a window smaller than both, so that a request comes for what has left it; the
nine sources are those that differ in who has the bytes and whether the length is
known, each with the trouble (`trouble`: a seek, a kill, a failed fetch, leaving, an
early end) that is hardest for it. Counters that would grow without end (`MaxChunk`,
`MaxResizes`, `MaxUnread`, `MaxFaults`, `MaxWanted`, `Writes`, `Parts`, `Proc`, names
of sessions) are bounded in guards and are named in the modules' CONSTANTS. Requests
that are equal and on their way at once are one in Placement (`wanted` is a set).

Two instances were tried beyond these, without an error, and left out for their
length: Registry with one idle tick (483k states; in the run, the watcher decides at
its first look), and SessionSize with a known cell (554k; in the run, no console says
the size of its cells). Their safety is proved for any number of ticks and any cells.

Three places of Placement take one step where the code takes several. `Paint` makes
`request_whole_range_once_if_needed` (`rich_content_srv_channel.rs:609-629`: the checks,
the swap and the store of the target) at once; what a chunk in between would lead to
is reached with the chunk before `Paint` or after it. `HearProgress` stores the total
with the bytes. `ResponderChunk` registers the route of its sender with each chunk and
the code with a connection's first: the routes there may be are the same.

Deadlock is not checked: each of these systems may come to rest, when the panes
are closed and the daemon has gone, or no user, shell or daemon has more to say.

### Fairness

Only what the code runs by itself is fair: threads that have something to read or
send, the relay's start-up, the watcher that wakes every second, Som ending the
relay of a pane it has closed. Users, shells, networks, answers of the daemon and
faults are not. The two places that take a contended lock again and again
(`ReadInitialResize`, `ReadResize`) are strongly fair, since a mutex whose holders
always let go is got in the end. In DaemonStart the clients and the processes are
fair, and nobody has to come, leave or be idle. In Placement each thread is fair in
what it has begun (seven conditions, one for each), the source of a fetch delivers,
and `somsrp` leaves once it has been told that playback ended. In Link the daemon is fair only in ending a
connection that does not begin as one should, which `run`'s thread does.

### What the properties do not say

- CloseReachesSession begins at an attached relay. A Close is not read at all when
  sending the snapshot fails, as it does to a relay that is gone by then: the `?` at
  `server.rs:352` returns before `read_loop` begins, and the session of a pane that
  is closed goes on. `Attach` of SessionRegistry has this; no property.
- CorpseOnlyAfterOwnExit excepts a shell that exited by itself: its entry stays until
  something else removes it, and a Register of its pane attaches to what is dead.
- SurvivesDetach is about a pane that is closed once and stays closed.
- SizeFollowsItsAuthor is about a relay that keeps the last word. A Resize of a
  relay that is gone may be read after its successor's, and then the successor's
  poll thread sees no change to correct: the model has that, and nothing in the
  code rules it out.
- ScreenCatchesUp stops at a relay that has been told of the exit: ShellExited
  and the last output are sent by two threads, and the first can overtake.
- HangUpIsHeard and NothingLeftBehind are for a link that lost nothing and did
  not start over. The last frame before a silence can be lost without anyone
  noticing: the numbers only tell when another comes.
- KeepsPromise is for a pty that does nothing more to frames once an end has started
  over (`FailsLater` FALSE). With two faults it is not kept: `Decoder::reset`
  (`link/frame.rs:325`) forgets the last number, so of the frames that come after it
  the first may be missing and nobody notices, where `link/frame.rs:10-12` has one
  that is missing be "a break in the stream". Som breaks, a channel is opened and
  answered before its Reset is out, the frame of the first answer is lost, and the
  channel is given the second for the first. TLC shows it with `FailsLater` TRUE,
  `MaxFaults` 2, `SeqMod` 4 and the plan [writes |-> <<1, 1>>, parts |-> <<<<1>>, <<1, 1>>>>].
- FailsOnlyIfStopped and StopsOnlyOlder have exceptions that the code has. A client
  whose daemon is stopped while it retries is refused after 2 s: `connect_or_spawn`
  starts one daemon and never a second. A daemon that does not name its process is
  stopped by stopping every daemon of the user, a new one that another client has
  just started included; "only that process" (`daemon.rs:300`) is so for named ones.
- A client may be connected to a daemon older than itself, when one of an old build
  is started between its look and its connecting; NewestTakesOver says that this
  ends with the next look. The second of two clients that replace a daemon at once
  waits its 2 s and logs that "the old daemon still answers": it is the new one.
- ReadIsServed excepts requests that are `lost`: `RegisterRangeResponder` is not
  acknowledged, so a request can go to the connection of the stream, which nobody
  reads; and one for a fetched key whose bytes have left the window is answered
  with nothing, although the comment at `srv_cache.rs:331-344` has it fetched anew.
- StopIsFinal excepts a subscription that has `failed` (FetchFailed ends it, and a
  later StopPlayback has nobody to go to; `server.rs:641-644` and `terminal.rs:3033`
  take it for delivered) and a fetch that is `revived` (asked for before the stop
  and handled after it: `begin_fetch` clears the cancellation).
- An unsubscription that overtakes the subscription it belongs to leaves a listener
  behind. ListenerEnds is for a placement that has heard something (`seenAny`). That
  the requests of `terminal.rs:3233-3237` ("ORDER IS LOAD-BEARING") keep their order
  is up to two threads, and nothing in the code makes them.
- A Resize that does not say its cell's size leaves bounds of 1x1 pixels a cell:
  `WithPixelSize` is resolved against nothing at `server.rs:337` and `:407`, where
  `bounds.rs:45-48` says the last known is kept. SessionSize has it; no property.
- TypeOK of the modules whose queues are TLA+ sequences does not bound them; the
  guards do.

## What TLAPS proves

All for any values of the constants, from the named assumptions of the modules
(`RegistryAssumption`, `AttachAssumption`, `SizeAssumption`, `LinkAssumption`,
`StartAssumption`, `CacheAssumption`, `ProgressAssumption`, `PlacementAssumption`),
which say no more than that a "none" is not one of the things it stands beside, that
bounds, builds and lengths are numbers, that there is a build 0, that cells are above
1, and what the sources of Placement may be. Each safety invariant a passing run
checks, and each action property, has its theorem; so has Link's refinement.

`SessionRegistryProofs`:

- `TypeCorrect`: TypeOK is inductive.
- `NoStrayShellHolds`: inductive beside TypeOK. Creation is the step that matters:
  it is guarded by the very entry it sets.
- `SurvivesDetachHolds`: needs `Obeyed`: whatever is on its way to end a session
  for good (the frame in a relay's pty, the Close it becomes, the thread that has
  read it) belongs to a closed pane, and a closed pane stays closed.
- `CorpseOnlyAfterOwnExitHolds`: inductive beside TypeOK; a dead entry keeps its
  witness, the closing thread that will remove it, until the entry is gone.
- `IdleExitHolds`: needs `Vouched`: once the watcher has decided to exit, whatever
  is registered came after its look. The action property follows from it.

`SessionSizeProofs`:

- `TypeCorrect`: not inductive alone: `last` starts as `NoSize` and is sent as a
  size. `Measured` says a relay that has read anything has read a size.
- `SizesAgreeHolds`: SizesAgree says nothing of a session that is being resized, so
  `Underway` does: one thread at a time has something left to do, and what it has
  left is to carry the bounds' size to where it is not yet.
- `PlaceholderHolds`: needs `Settling`: a relay that settles has sent nothing, and a
  stable reading of its is not the placeholder's. The action property follows.

`DaemonStartProofs`:

- `TypeCorrect`: TypeOK is inductive.
- `OneDaemonHolds`: needs `Locked`: who is past the lock, and nobody else, holds it,
  through kills and exits at any point; whoever answers is past it.
- `FailsOnlyIfStoppedHolds`: needs `Hopeful`: a client that retries, and has seen no
  daemon stopped, has a process left that may answer. The step that matters is the
  loser of the lock leaving: the winner stays (`Locked`).
- `StopsOnlyOlderHolds`: needs `Aimed`: what a client is about to stop was never
  named, or is older than the client still, gone or not.

`SessionAttachProofs`:

- `TypeCorrect`: TypeOK is inductive.
- `NothingIsLost`: needs to know where the chunks are. `InOrder` splits the stream of
  a relay into three runs that meet: on the screen, on the connection and in the
  subscription, up to the last chunk read, and beginning no later than behind the
  snapshot. The word of the exit may stand once among those on the connection
  (`OnceTold`). Each step moves the end of one run to the beginning of the next. The
  step that matters is `Subscribe`: it starts the runs empty, at the next chunk, and
  `Empty` says that nothing from before is left in the queues.

`LinkProofs` and `LinkOrderProofs`:

- `TypeCorrect`: TypeOK is not inductive alone: which frames there may be, and how
  far a reader is in an answer, is bounded by the plan, so `TypeInv` says it of every
  frame in the pty (the definition and the lemmas about queues are in `LinkProofs`).
- `PromiseKept`: Link implements Conversation. The inductive invariant `Inv` says,
  for both directions, what the numbers are worth (`Numbers`: the frames in the pty
  are consecutive, and between them and the decoder no more are missing than were
  lost), and for each channel and direction where its messages are. `AskOrder`: those on
  their way are the last ones sent, in order; `AskNext`: the connection that the
  daemon serves gets those it has not got, all of them if no number is missing.
  `HearOrder`, `Hearing`: Som's decoder holds the beginning of the answer the
  channel is getting, what has been sent and not got is on its way, in order. The
  proof goes by the steps of a direction (a frame is sent, taken, is a break, is lost,
  or none of these), since a step of the other direction or of another channel changes
  nothing here; then every step of Link is shown to be one of Conversation's, or none.
- Two hypotheses. `NoWrap`: MaxFaults + 2 <= SeqMod, that is, fewer frames go wrong
  than would take the number (2^32 in the code) around to where a gap looks like
  none. `~FailsLater`: needed, see above.

`PlacementProofs`, which rests on lemmas about the cache's operators in
`SrvCacheProofs`:

- `TypeCorrect`: TypeOK needs the other parts (that a request is for a place in the
  file, and what is pushed to Som was in the cache), and they need it, so they are
  proved as one invariant (`InvHolds`).
- `FrontCorrect`, `OfferedCorrect`: every call of `PutChunk` keeps FrontIsWhole and
  OnlyArrivedIsOffered, if what it is given are the file's bytes and the length it is
  told is the one it was told before. `Front` and `TailStart` are least and greatest
  members of finite sets that have one (`LeastExists`, `GreatestExists`).
  That callers say one length is what the invariant is about: of what `somsrp` holds it
  is said with the first chunk (`HeldOnly`), of a fetch it stays what it was said to be,
  known or not, until the last byte has come (`FetchedOnly`).
- `BufferCorrect`: BufferInPlace, since whatever is in the daemon's queue for Som is
  the file's bytes at the place it says, however requests and seeks are mixed, and
  `AppendChunk` takes it only where the buffer ends or when it is empty.

Only model-checked: everything under fairness (CloseReachesSession,
IdleDaemonLeaves, ScreenCatchesUp, ExitIsTold, SizeFollowsItsAuthor, HangUpIsHeard,
NothingLeftBehind, NewestTakesOver, ReadIsServed, PictureSettles, StopIsFinal,
EndReachesPlayer, ListenerEnds), for the prover does not treat ENABLED. The
violations are TLC's too, by their nature.

## What is not modelled, and why

- Grid contents, escape sequences and replies to the shell's queries: a screen is
  the chunks it was made from. Typed input, which passes through unchanged.
- A size that cannot be read from a console; the platforms' ways to read one.
- Finding frames in a terminal stream and waiting for it to be at ground
  (`Extractor`, `escape_typed`, `link/mux.rs`, `link/vt.rs`), a relay replaced by a
  new one in the same pty, the limit on a message's length, and uncompressible
  answers of several frames. EndSession is in SessionRegistry by its effect.
- Process ids: a kill of a shell that has exited does nothing in the model.
- Two daemons at once in SessionRegistry: that there are none is DaemonStart's. What
  a replaced daemon held is lost with it, as the code says; the registry's model ends
  a daemon only by its idle exit. `SOMSRV_KEEP_DAEMON`; process ids given anew; a kill that is
  refused, or left out because the user's id cannot be read.
- Of the cache: what is now playing, playlists, cue sheets and radio states that
  travel with it, a second subscriber of a placement, the limit on stops remembered
  (4096), markdown that grows. Of Som's side: playing again after the end, the video
  player and the tail that is pushed for it, the retry of a subscription that failed.
- Som's tabs, beyond closing a pane: restoring, reconciling (see the plan).
- The editor that Som grew out of (`gpui`, `workspace`, `worktree`, `markdown`, `ui`,
  `settings`, most of `terminal` and `terminal_view`): nine tenths of the lines here,
  single-threaded drawing and editing without a promise of this kind, so that the
  modules cover a small part of the lines, if most of the protocols, of the whole.
- Everything the table above leaves to pictures, sound, parsing or other services.

## Plan

1. Proofs: safety parts of what is now only checked under fairness, as action
   properties or invariants of their own: that a stop taken by a listener is not undone
   without a `revived` fetch (StopIsFinal), that a relay which is told of the exit was
   attached when it came (ExitIsTold), that an entry of the hub's map is the only open
   connection of its channel (NothingLeftBehind).
2. `TabRestore` (`terminal_panel.rs`): the restore lists the panes it placed, then
   asks the daemon for its sessions and closes the difference; a tab opened between
   the two is closed with them. Nothing but a spinner (`SomRestoreActivity`) stands
   between the user and a new tab meanwhile.
3. Pure operators checked against a definition over bounded inputs: `Extractor` and
   `escape_typed`.
