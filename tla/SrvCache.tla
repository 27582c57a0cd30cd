------------------------------ MODULE SrvCache ------------------------------
(***************************************************************************)
(* What the daemon keeps of one placement of rich content (srv_cache.rs):  *)
(* which bytes of a file have gone through it, a window of the last of     *)
(* them, who hears of its progress, and where requests for more bytes go.  *)
(*                                                                         *)
(* Each operator is what one method of SrvCache does under its lock; the   *)
(* actions of Placement call them.  A byte is its position in the file, so *)
(* that the file is <<0, 1, ...>>.  What travels along with the bytes      *)
(* (metadata, now playing, playlists, cue sheets, radio state) is left     *)
(* out, and so is a second subscriber.                                     *)
(***************************************************************************)
EXTENDS Naturals, Sequences

CONSTANTS
    Size,       \* bytes of the file
    Window,     \* RECENT_BYTES_WINDOW
    Room        \* bound: messages a subscriber leaves unread in its pipe

ASSUME CacheAssumption ==
    /\ Size \in Nat \ {0} /\ Window \in Nat \ {0}
    /\ Room \in Nat /\ Room >= 2

Byte == 0 .. Size - 1
Position == 0 .. Size

VARIABLES
    known,              \* is there an entry?
    contiguousLen,
    tailAvailableFrom,
    totalSize,          \* 0: not known yet
    pendingRanges,
    recentStart,        \* recent_bytes: the position of its first byte ...
    recentBytes,        \* ... and the bytes
    subscriber,         \* the one progress subscriber: registered, removed, or gone
    inbox,              \* what it has been sent and has not read
    stopped,            \* is the key among those stopped?
    cancelled,          \* ... and among the cancelled fetches?
    fetched,            \* ... and among those the daemon fetches itself?
    responderRoute,     \* has a range responder registered?
    senderRoute,        \* the connection that first sent a chunk last
    arrived             \* the bytes that put_chunk was ever given (for the properties)

entry == <<known, contiguousLen, tailAvailableFrom, totalSize, pendingRanges,
           recentStart, recentBytes, arrived>>
fetchMarks == <<stopped, cancelled, fetched>>
routes == <<responderRoute, senderRoute>>
cache == <<entry, subscriber, inbox, fetchMarks, routes>>

\* The file's bytes from one position to before another.
Bytes(from, to) == [i \in 1 .. to - from |-> from + i - 1]

\* A SrvResponse: Progress, or a word that carries nothing.
Progress(front, total, at, data) ==
    [kind |-> "progress", front |-> front, total |-> total, at |-> at, data |-> data]
Word(kind) == [kind |-> kind, front |-> 0, total |-> 0, at |-> 0, data |-> <<>>]
Message == [kind : {"progress", "stop", "unsubscribed", "failed"}, front : Position,
            total : {0, Size}, at : Position, data : Seq(Byte)]

CacheTypeOK ==
    /\ known \in BOOLEAN
    /\ contiguousLen \in Position /\ tailAvailableFrom \in Position
    /\ totalSize \in {0, Size}
    /\ pendingRanges \in SUBSET (Position \X Position)
    /\ recentStart \in Position /\ recentBytes \in Seq(Byte) /\ Len(recentBytes) <= Window
    /\ subscriber \in {"none", "listening", "removed", "closed"}
    /\ inbox \in Seq(Message) /\ Len(inbox) <= Room
    /\ stopped \in BOOLEAN /\ cancelled \in BOOLEAN /\ fetched \in BOOLEAN
    /\ responderRoute \in BOOLEAN
    /\ senderRoute \in {"none", "stream", "responder"}
    /\ arrived \in SUBSET Byte

CacheInit ==
    /\ known = FALSE
    /\ contiguousLen = 0 /\ tailAvailableFrom = 0 /\ totalSize = 0
    /\ pendingRanges = {}
    /\ recentStart = 0 /\ recentBytes = <<>>
    /\ subscriber = "none" /\ inbox = <<>>
    /\ stopped = FALSE /\ cancelled = FALSE /\ fetched = FALSE
    /\ responderRoute = FALSE /\ senderRoute = "none"
    /\ arrived = {}

\* To every subscriber there is; a push whose connection is closed is lost.  The
\* lock is held while there is no room in the pipe.
Push(message) ==
    /\ subscriber = "listening" => Len(inbox) < Room
    /\ inbox' = IF subscriber = "listening" THEN Append(inbox, message) ELSE inbox

-----------------------------------------------------------------------------
(* put_chunk.                                                              *)

\* (mutant) One byte more is kept.
TrimmedLate(start, bytes) ==
    LET extra == IF Len(bytes) > Window + 1 THEN Len(bytes) - Window - 1 ELSE 0
    IN  [start |-> start + extra, bytes |-> SubSeq(bytes, extra + 1, Len(bytes))]

\* The window has its last bytes only.
Trimmed(start, bytes) ==
    LET extra == IF Len(bytes) > Window THEN Len(bytes) - Window ELSE 0
    IN  [start |-> start + extra, bytes |-> SubSeq(bytes, extra + 1, Len(bytes))]

RecentEnd == recentStart + Len(recentBytes)

\* (mutant) A chunk from further on is taken for the next one.
RecentJoinsAnything(at, data) ==
    IF at >= RecentEnd THEN Trimmed(recentStart, recentBytes \o data)
    ELSE [start |-> recentStart, bytes |-> recentBytes]

\* A chunk that lies behind the window's end, or ahead of it, is not kept.
Recent(at, data) ==
    IF at = RecentEnd THEN Trimmed(recentStart, recentBytes \o data)
    ELSE IF at > RecentEnd /\ recentBytes = <<>> THEN Trimmed(at, data)
    ELSE [start |-> recentStart, bytes |-> recentBytes]

\* The front reaches over every pending range that starts at or before it.
Front(from, ranges) ==
    CHOOSE f \in {from} \cup {r[2] : r \in ranges} :
        /\ f >= from
        /\ \A r \in ranges : r[1] <= f => r[2] <= f
        /\ \A g \in {from} \cup {r[2] : r \in ranges} :
            g >= from /\ (\A r \in ranges : r[1] <= g => r[2] <= g) => f <= g

\* The tail reaches back over every pending range that ends at or behind it.
TailStart(from, ranges) ==
    CHOOSE t \in {from} \cup {r[1] : r \in ranges} :
        /\ t <= from
        /\ \A r \in ranges : r[2] >= t => r[1] >= t
        /\ \A u \in {from} \cup {r[1] : r \in ranges} :
            u <= from /\ (\A r \in ranges : r[2] >= u => r[1] >= u) => t >= u

\* (mutant) The front jumps to the end of any chunk.
MergeFrontAnywhere(at, end) ==
    /\ contiguousLen' = Front(IF end > contiguousLen THEN end ELSE contiguousLen, pendingRanges)
    /\ pendingRanges' = {r \in pendingRanges : r[1] > contiguousLen'}

\* A chunk that starts within the front extends it, any other waits.
MergeFront(at, end) ==
    IF at <= contiguousLen
    THEN /\ contiguousLen' =
                Front(IF end > contiguousLen THEN end ELSE contiguousLen, pendingRanges)
         /\ pendingRanges' = {r \in pendingRanges : r[1] > contiguousLen'}
    ELSE /\ pendingRanges' = pendingRanges \cup {<<at, end>>}
         /\ UNCHANGED contiguousLen

\* A chunk that reaches the tail extends it.  The ranges stay pending.
MergeTail(at, end, tail) ==
    tailAvailableFrom' =
        IF end >= tail THEN TailStart(IF at < tail THEN at ELSE tail, pendingRanges') ELSE tail

PutChunk(at, data, total) ==
    LET end == at + Len(data) IN
    /\ known' = TRUE
    /\ totalSize' = total
    /\ recentStart' = Recent(at, data).start
    /\ recentBytes' = Recent(at, data).bytes
    /\ MergeFront(at, end)
    /\ MergeTail(at, end, IF known THEN tailAvailableFrom ELSE total)
    /\ arrived' = arrived \cup (at .. end - 1)
    /\ Push(Progress(contiguousLen', total, at, data))

-----------------------------------------------------------------------------
(* Subscribers, stops and fetches.                                         *)

\* (mutant) The stop that came before is not passed on.
ReplayWithoutStop ==
    IF known THEN <<Progress(contiguousLen, totalSize, 0, <<>>)>> ELSE <<>>

\* What a subscriber is told at once: how far things are, without the bytes, and
\* the stop that came before it.
Replay ==
    (IF known THEN <<Progress(contiguousLen, totalSize, 0, <<>>)>> ELSE <<>>)
        \o (IF stopped THEN <<Word("stop")>> ELSE <<>>)

Subscribe ==
    /\ subscriber' = "listening"
    /\ inbox' = Replay

\* (mutant) It is forgotten and not told.
UnsubscribeUntold ==
    /\ cancelled' = TRUE
    /\ subscriber' = IF subscriber = "listening" THEN "removed" ELSE subscriber
    /\ UNCHANGED inbox

\* The subscriber is told, and forgotten.
Unsubscribe ==
    /\ cancelled' = TRUE
    /\ Push(Word("unsubscribed"))
    /\ subscriber' = IF subscriber = "listening" THEN "removed" ELSE subscriber

NotifyStopPlayback ==
    /\ cancelled' = TRUE
    /\ stopped' = TRUE
    /\ Push(Word("stop"))

BeginFetch ==
    /\ fetched' = TRUE
    /\ cancelled' = FALSE
    /\ stopped' = FALSE

-----------------------------------------------------------------------------
(* Where a RequestByteRange goes.  open: the source's connections that     *)
(* its end holds open.  A message that could be written counts as handled. *)

ToResponder(open) == ~fetched /\ responderRoute /\ "responder" \in open

ToSender(open) == ~ToResponder(open) /\ senderRoute \in open

\* serve_from_recent_bytes: what the window has from there on.
Served(at, len) ==
    IF at < recentStart \/ at >= RecentEnd THEN <<>>
    ELSE LET skip == at - recentStart
             end == IF Len(recentBytes) - skip < len THEN Len(recentBytes) ELSE skip + len
         IN  SubSeq(recentBytes, skip + 1, end)

PushRangeReply(at, data) ==
    IF known /\ data # <<>> THEN Push(Progress(contiguousLen, totalSize, at, data))
    ELSE UNCHANGED inbox

-----------------------------------------------------------------------------
(* Properties of the cache.                                                *)

\* The front is where the bytes that arrived end, and the pending ranges are the
\* others: however chunks are reordered, repeated or overlap, none is counted
\* that did not arrive and none is forgotten.
Covered(ranges) == UNION {r[1] .. r[2] - 1 : r \in ranges}
FrontIsWhole ==
    /\ arrived = (0 .. contiguousLen - 1) \cup Covered(pendingRanges)
    /\ contiguousLen \notin arrived

\* Nothing is offered that did not arrive: not by the tail of a file whose size
\* is known, and not by the window, which has the file's bytes in their places.
OnlyArrivedIsOffered ==
    /\ tailAvailableFrom .. totalSize - 1 \subseteq arrived
    /\ recentBytes = Bytes(recentStart, RecentEnd)
    /\ recentStart .. RecentEnd - 1 \subseteq arrived
=============================================================================
