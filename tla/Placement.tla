----------------------------- MODULE Placement -----------------------------
(***************************************************************************)
(* One placement of rich content, from its source to what Som shows of it. *)
(*                                                                         *)
(* The source is somsrp, which holds the file (audio is pulled from it, a  *)
(* picture is pushed), or a fetch of the daemon's own, asked for by somsrp *)
(* (a track's URL) or by Som (a picture in a markdown document).  The      *)
(* daemon's cache (SrvCache) is between it and Som's buffer                *)
(* (ProgressState), which a player reads from.                             *)
(*                                                                         *)
(* Every request of Som's is written by a thread of its own over a         *)
(* connection of its own, so that they may overtake each other.            *)
(***************************************************************************)
EXTENDS SrvCache, ProgressState, FiniteSets

CONSTANTS
    Sources,    \* bound: the sources that are tried, records [kind, sized, ends, trouble]
    Piece,      \* CHUNK_SIZE
    Announce,   \* ANNOUNCE_LEN
    OnDemand,   \* ON_DEMAND_RANGE_LEN
    MaxWanted   \* bound: requests on their way before the reader makes another

ASSUME PlacementAssumption ==
    /\ Piece \in Nat \ {0} /\ OnDemand \in Nat \ {0} /\ MaxWanted \in Nat \ {0}
    /\ Announce \in 1 .. Size
    /\ \A s \in Sources :
        /\ s.kind \in {"disk", "still", "gif", "url", "embed"}
        /\ s.sized \in BOOLEAN  \* is the length of what is fetched known at its start?
        /\ s.ends \in BOOLEAN   \* is it not an endless stream?
        /\ s.trouble \in {"none", "leave", "die", "fail", "seek", "end"}

VARIABLES
    source,         \* where the content comes from: it never changes
    player,         \* somsrp: how far it has come
    open,           \* the connections it holds open, but those for one message
    registering,    \* its RegisterRangeResponder is on its way
    stopping,       \* its StopPlayback is on its way
    ended,          \* it has been told that playback ended, or the fetch failed
    streamed,       \* bytes of its stream that the daemon has taken
    asks,           \* requests written to its responder connection
    serving,        \* the range the responder is answering: from, to
    cleaned,        \* the daemon has seen the responder's connection close
    fetch,          \* the daemon's fetch
    fetchAt,        \* bytes it has put
    ui,             \* the placement in Som's terminal
    listener,       \* the listener's thread
    publishing,     \* the front it has yet to store, after the bytes
    wanted,         \* RequestByteRange on their way
    ending,         \* EndPlayback is on its way
    unsubscribing,  \* UnsubscribeProgress is on its way
    told,           \* stop_playback_requested
    failed,         \* fetch_failed
    reader,         \* the audio player's decoding thread
    position,       \* where it reads next
    asked,          \* last_requested_position
    paused,         \* rich_content_audio_stopped
    shown,          \* the picture: decoded_through, and is it whole?
    late,           \* Som subscribed after the first chunk, or the fetch's end
    lost,           \* the requests nobody answers, by where they start; Nobody: EndPlayback
    revived,        \* the fetch began after it had been cancelled
    troubled        \* the source's trouble has happened

somsrp == <<player, open, registering, stopping, ended, streamed, asks, serving, cleaned>>
fetching == <<fetch, fetchAt>>
sent == <<wanted, ending, unsubscribing>>
listening == <<listener, publishing, told, failed>>
reading == <<reader, position, asked, paused>>
notes == <<late, lost, revived, troubled>>
som == <<ui, listening, sent, reading, shown, progressState>>
vars == <<source, cache, somsrp, fetching, som, notes>>

Nobody == Size + 1      \* no position
Idle == [from |-> 0, to |-> 0]

Pushed == source.kind \in {"still", "gif"}
IsAudio == source.kind \in {"disk", "url"}
StreamLen == IF Pushed THEN Size ELSE IF source.kind = "disk" THEN Announce ELSE 0
Least(a, b) == IF a < b THEN a ELSE b

SourceTypeOK ==
    /\ source \in Sources
    /\ player \in {"none", "starting", "streaming", "holding", "leaving", "gone"}
    /\ open \in SUBSET {"stream", "responder"}
    /\ registering \in BOOLEAN /\ stopping \in BOOLEAN
    /\ ended \in BOOLEAN /\ cleaned \in BOOLEAN
    /\ streamed \in 0 .. StreamLen
    /\ asks \in Seq([from : Position, len : Nat])
    /\ serving \in [from : Position, to : Position]
    /\ fetch \in {"none", "requested", "running", "reading", "over", "failed"}
    /\ fetchAt \in Position

TerminalTypeOK ==
    /\ ui \in {"off", "on", "gone"}
    /\ listener \in {"none", "connecting", "on", "over"}
    /\ publishing \in Position \cup {Nobody}
    /\ told \in BOOLEAN /\ failed \in BOOLEAN
    /\ wanted \in SUBSET [from : Position, len : Nat]
    /\ ending \in BOOLEAN /\ unsubscribing \in BOOLEAN
    /\ reader \in {"off", "reading", "missed", "eof"}
    /\ position \in Position /\ asked \in Position \cup {Nobody} /\ paused \in BOOLEAN
    /\ shown \in [through : Position, whole : BOOLEAN]

ProgressTypeOK ==
    /\ buffer \in Seq(Byte) /\ bufferStart \in Position
    /\ seekTarget \in Position \cup {NoTarget}
    /\ seenLen \in Position /\ seenTotal \in {0, Size}
    /\ seenAny \in BOOLEAN /\ wholeAsked \in BOOLEAN

TypeOK ==
    /\ CacheTypeOK /\ SourceTypeOK /\ TerminalTypeOK /\ ProgressTypeOK
    /\ late \in BOOLEAN /\ revived \in BOOLEAN /\ troubled \in BOOLEAN
    /\ lost \in SUBSET (Position \cup {Nobody})

Init ==
    /\ source \in Sources
    /\ CacheInit /\ ProgressInit
    /\ player = IF source.kind = "embed" THEN "none" ELSE "starting"
    /\ open = {} /\ registering = FALSE /\ stopping = FALSE /\ ended = FALSE
    /\ streamed = 0 /\ asks = <<>> /\ serving = Idle /\ cleaned = FALSE
    /\ fetch = "none" /\ fetchAt = 0
    /\ ui = "off" /\ listener = "none" /\ publishing = Nobody
    /\ wanted = {} /\ ending = FALSE /\ unsubscribing = FALSE
    /\ told = FALSE /\ failed = FALSE
    /\ reader = "off" /\ position = 0 /\ asked = Nobody /\ paused = FALSE
    /\ shown = [through |-> 0, whole |-> FALSE]
    /\ late = FALSE /\ lost = {} /\ revived = FALSE /\ troubled = FALSE

-----------------------------------------------------------------------------
(* somsrp, and the daemon's threads of its connections.  What it writes is *)
(* taken as soon as written, except where others may come in between.      *)

\* (bound) What need not happen, happens once, and one such thing to a source.
Trouble(what) ==
    /\ source.trouble = what /\ ~troubled
    /\ troubled' = TRUE
    /\ UNCHANGED <<late, lost, revived>>

\* It registers a responder and prints its placeholder cells; for a URL it asks
\* the daemon to fetch.
PlayerStarts ==
    /\ player = "starting"
    /\ registering' = TRUE
    /\ IF source.kind = "url"
       THEN player' = "holding" /\ fetch' = "requested" /\ open' = {"responder"}
       ELSE player' = "streaming" /\ open' = {"stream", "responder"} /\ UNCHANGED fetch
    /\ UNCHANGED <<source, cache, stopping, ended, streamed, asks, serving, cleaned, fetchAt,
                   som, notes>>

HandleRegister ==
    /\ registering
    /\ registering' = FALSE
    /\ responderRoute' = TRUE
    /\ UNCHANGED <<source, entry, subscriber, inbox, fetchMarks, senderRoute,
                   player, open, stopping, ended, streamed, asks, serving, cleaned,
                   fetching, som, notes>>

\* A chunk of the stream: the picture, or the first bytes of an audio file.  One
\* chunk may be in the pipe when somsrp is done with it.
StreamChunk ==
    /\ player # "starting" /\ streamed < StreamLen
    /\ player = "streaming" \/ streamed + Piece >= StreamLen
    /\ LET end == Least(streamed + Piece, StreamLen) IN
        /\ PutChunk(streamed, Bytes(streamed, end), Size)
        /\ streamed' = end
    /\ senderRoute' = IF streamed = 0 THEN "stream" ELSE senderRoute
    /\ UNCHANGED <<source, subscriber, fetchMarks, responderRoute,
                   player, open, registering, stopping, ended, asks, serving, cleaned,
                   fetching, som, notes>>

\* Everything is written: the connection of a picture's stream is dropped.
PlayerHolds ==
    /\ player = "streaming" /\ streamed + Piece >= StreamLen
    /\ player' = "holding"
    /\ open' = IF Pushed THEN open \ {"stream"} ELSE open
    /\ UNCHANGED <<source, cache, registering, stopping, ended, streamed, asks, serving, cleaned,
                   fetching, som, notes>>

\* The responder's thread reads a request; EndPlayback ends it and its connection.
ResponderReads ==
    /\ "responder" \in open /\ serving = Idle /\ asks # <<>>
    /\ LET a == Head(asks) IN
        IF a.len = 0
        THEN /\ ended' = TRUE /\ open' = open \ {"responder"}
             /\ UNCHANGED serving
        ELSE /\ serving' = IF a.from < Size
                           THEN [from |-> a.from, to |-> Least(a.from + a.len, Size)] ELSE Idle
             /\ UNCHANGED <<ended, open>>
    /\ asks' = Tail(asks)
    /\ UNCHANGED <<source, cache, player, registering, stopping, streamed, cleaned,
                   fetching, som, notes>>

\* It answers in pieces, over its own connection.
ResponderChunk ==
    /\ "responder" \in open /\ serving # Idle
    /\ LET end == Least(serving.from + Piece, serving.to) IN
        /\ PutChunk(serving.from, Bytes(serving.from, end), Size)
        /\ serving' = IF end = serving.to THEN Idle ELSE [serving EXCEPT !.from = end]
    /\ senderRoute' = "responder"
    /\ UNCHANGED <<source, subscriber, fetchMarks, responderRoute,
                   player, open, registering, stopping, ended, streamed, asks, cleaned,
                   fetching, som, notes>>

\* It is done, or told to go on (Ctrl+C, the next track): it stops what it
\* played.  Its responder's connection may stay until the process ends.
PlayerLeaves ==
    /\ player = "holding" /\ IsAudio
    /\ player' = "leaving"
    /\ stopping' = TRUE
    /\ IF ended THEN UNCHANGED notes ELSE Trouble("leave")
    /\ UNCHANGED <<source, cache, open, registering, ended, streamed, asks, serving, cleaned,
                   fetching, som>>

HandleStop ==
    /\ stopping
    /\ stopping' = FALSE
    /\ NotifyStopPlayback
    /\ UNCHANGED <<source, entry, subscriber, fetched, routes,
                   player, open, registering, ended, streamed, asks, serving, cleaned,
                   fetching, som, notes>>

\* The process ends, or is killed.
PlayerEnds ==
    /\ player \notin {"none", "starting", "gone"}
    /\ player' = "gone"
    /\ open' = {} /\ asks' = <<>> /\ serving' = Idle
    /\ Trouble("die")
    /\ UNCHANGED <<source, cache, registering, stopping, ended, streamed, cleaned,
                   fetching, som>>

\* The thread of the responder's connection finds it closed: as if the
\* placement had been stopped.
ResponderCleanup ==
    /\ responderRoute /\ "responder" \notin open /\ ~cleaned
    /\ cleaned' = TRUE
    /\ NotifyStopPlayback
    /\ UNCHANGED <<source, entry, subscriber, fetched, routes,
                   player, open, registering, stopping, ended, streamed, asks, serving,
                   fetching, som, notes>>

-----------------------------------------------------------------------------
(* The daemon's fetch, in the thread of the connection that asked for it.  *)

FetchBegins ==
    /\ fetch = "requested"
    /\ fetch' = "running"
    /\ BeginFetch
    /\ revived' = (revived \/ cancelled)
    /\ UNCHANGED <<source, entry, subscriber, inbox, routes, somsrp, fetchAt, som,
                   late, lost, troubled>>

\* is_fetch_cancelled, before each read.
FetchChecks ==
    /\ fetch = "running"
    /\ fetch' = IF cancelled THEN "over" ELSE "reading"
    /\ UNCHANGED <<source, cache, somsrp, fetchAt, som, notes>>

\* (mutant) The end of a body of unknown length is not said.
FetchReadsNoEnd ==
    /\ fetch = "reading"
    /\ IF fetchAt < Size
       THEN LET end == Least(fetchAt + Piece, Size) IN
            /\ PutChunk(fetchAt, Bytes(fetchAt, end), IF source.sized THEN Size ELSE 0)
            /\ fetchAt' = end /\ fetch' = "running"
       ELSE /\ fetch' = IF source.ends THEN "over" ELSE "running"
            /\ UNCHANGED <<entry, inbox, fetchAt>>
    /\ UNCHANGED <<source, subscriber, fetchMarks, routes, somsrp, som, notes>>

\* A chunk is read and put.  At the end of a body of unknown length the length is
\* said, with an empty chunk; an endless stream goes on past what is modelled.
FetchReads ==
    /\ fetch = "reading"
    /\ IF fetchAt < Size
       THEN LET end == Least(fetchAt + Piece, Size) IN
            /\ PutChunk(fetchAt, Bytes(fetchAt, end), IF source.sized THEN Size ELSE 0)
            /\ fetchAt' = end /\ fetch' = "running"
       ELSE /\ fetch' = IF source.ends THEN "over" ELSE "running"
            /\ IF source.ends /\ ~source.sized THEN PutChunk(Size, <<>>, Size)
               ELSE UNCHANGED <<entry, inbox>>
            /\ UNCHANGED fetchAt
    /\ UNCHANGED <<source, subscriber, fetchMarks, routes, somsrp, som, notes>>

\* It cannot be opened, or read on: who subscribed is told, and so is who asked.
FetchFails ==
    /\ fetch \in {"running", "reading"}
    /\ fetch' = "failed"
    /\ Push(Word("failed"))
    /\ ended' = (ended \/ player # "none")
    /\ Trouble("fail")
    /\ UNCHANGED <<source, entry, subscriber, fetchMarks, routes, player, open, registering,
                   stopping, streamed, asks, serving, cleaned, fetchAt, som>>

-----------------------------------------------------------------------------
(* Som: the terminal.                                                      *)

\* The cells are seen and a listener is started; for a picture of a document the
\* fetch is asked for in the same breath, by a thread of its own.
See ==
    /\ ui = "off" /\ player # "starting"
    /\ ui' = "on"
    /\ listener' = "connecting"
    /\ fetch' = IF source.kind = "embed" THEN "requested" ELSE fetch
    /\ UNCHANGED <<source, cache, somsrp, fetchAt, publishing, told, failed, sent, reading,
                   shown, progressState, notes>>

HandleSubscribe ==
    /\ listener = "connecting"
    /\ Subscribe
    /\ listener' = "on"
    /\ late' = (known \/ fetch \in {"over", "failed"})
    /\ UNCHANGED <<source, entry, fetchMarks, routes, somsrp, fetching, ui, publishing,
                   told, failed, sent, reading, shown, progressState, lost, revived, troubled>>

\* The listener ends, and its connection is closed; or it goes on to its next
\* read, if its placement is still there.
HangsUp == listener' = "over" /\ subscriber' = "closed" /\ inbox' = <<>>
ReadsOn(rest) ==
    IF ui = "gone" THEN HangsUp
    ELSE inbox' = rest /\ UNCHANGED <<listener, subscriber>>

\* run, one message.
HearProgress ==
    /\ listener = "on" /\ publishing = Nobody /\ inbox # <<>>
    /\ Head(inbox).kind = "progress"
    /\ LET m == Head(inbox) IN
        /\ AppendChunk(m.at, m.data)
        /\ seenTotal' = m.total
        /\ publishing' = m.front
    /\ inbox' = Tail(inbox)
    /\ UNCHANGED <<source, entry, subscriber, fetchMarks, routes, somsrp, fetching, ui, listener,
                   told, failed, sent, reading, shown, seekTarget, seenLen, seenAny,
                   wholeAsked, notes>>

\* The front is stored after the bytes it is about, the metadata last.
PublishFront ==
    /\ publishing # Nobody
    /\ seenLen' = publishing
    /\ seenAny' = TRUE
    /\ publishing' = Nobody
    /\ ReadsOn(inbox)
    /\ UNCHANGED <<source, entry, fetchMarks, routes, somsrp, fetching, ui, told, failed, sent,
                   reading, shown, buffer, bufferStart, seekTarget, seenTotal, wholeAsked, notes>>

HearWord ==
    /\ listener = "on" /\ publishing = Nobody /\ inbox # <<>>
    /\ Head(inbox).kind # "progress"
    /\ LET kind == Head(inbox).kind IN
        /\ told' = (told \/ kind = "stop")
        /\ failed' = (failed \/ kind = "failed")
        /\ IF kind = "stop" THEN ReadsOn(Tail(inbox)) ELSE HangsUp
    /\ UNCHANGED <<source, entry, fetchMarks, routes, somsrp, fetching, ui, publishing, sent,
                   reading, shown, progressState, notes>>

\* The placement is gone before the thread's first read.
ListenerStops ==
    /\ listener = "on" /\ publishing = Nobody /\ ~seenAny /\ ui = "gone"
    /\ HangsUp
    /\ UNCHANGED <<source, entry, fetchMarks, routes, somsrp, fetching, ui, publishing, told,
                   failed, sent, reading, shown, progressState, notes>>

\* refresh_or_create: a GIF is decoded from what there is of it, a still picture
\* when it is whole, both from the file's first byte on only.
Decoded ==
    IF \/ shown.whole \/ seenLen <= shown.through
       \/ bufferStart # 0 \/ Received = <<>>
       \/ source.kind # "gif" /\ (seenTotal = 0 \/ seenLen < seenTotal \/ Len(Received) < seenLen)
    THEN shown
    ELSE [through |-> seenLen, whole |-> Len(Received) = Size]

\* Painting: the whole file is asked for once if the buffer lacks its start, and
\* a picture is refreshed.  rich_content_placements does the former for every
\* kind of content.
Paint ==
    /\ ui = "on" /\ seenAny
    /\ wholeAsked' = (wholeAsked \/ WholeIsDue)
    /\ seekTarget' = IF WholeIsDue THEN WholeTarget ELSE seekTarget
    /\ wanted' = IF WholeIsDue THEN wanted \cup {[from |-> 0, len |-> WholeLen]} ELSE wanted
    /\ shown' = IF IsAudio \/ failed THEN shown ELSE Decoded
    /\ UNCHANGED <<source, cache, somsrp, fetching, ui, listening, ending, unsubscribing, reading,
                   buffer, bufferStart, seenLen, seenTotal, seenAny, notes>>

\* The cells of a picture vanish, with the document they are in or by themselves.
CellsVanish ==
    /\ ui = "on" /\ ~IsAudio /\ (source.kind = "embed" \/ seenAny)
    /\ ui' = "gone"
    /\ unsubscribing' = TRUE
    /\ UNCHANGED <<source, cache, somsrp, fetching, listening, wanted, ending, reading, shown,
                   progressState, notes>>

\* A stop that came over the subscription: the placement is dead for good.
TearDown ==
    /\ ui = "on" /\ IsAudio /\ seenAny /\ told
    /\ ui' = "gone"
    /\ unsubscribing' = TRUE
    /\ reader' = "off"
    /\ UNCHANGED <<source, cache, somsrp, fetching, listening, wanted, ending,
                   position, asked, paused, shown, progressState, notes>>

HandleUnsubscribe ==
    /\ unsubscribing
    /\ unsubscribing' = FALSE
    /\ Unsubscribe
    /\ UNCHANGED <<source, entry, stopped, fetched, routes, somsrp, fetching, ui, listening,
                   wanted, ending, reading, shown, progressState, notes>>

-----------------------------------------------------------------------------
(* Som: the audio player.                                                  *)

\* It is opened by the first bytes there are, and again, without playing, after
\* a stop.
OpenPlayer ==
    /\ ui = "on" /\ IsAudio /\ seenAny /\ ~told /\ seenLen > 0 /\ reader = "off"
    /\ reader' = "reading"
    /\ position' = 0 /\ asked' = Nobody
    /\ UNCHANGED <<source, cache, somsrp, fetching, ui, listening, sent, paused, shown,
                   progressState, notes>>

\* GrowingSrvStream::read: what there is is read, and what lies far back goes.
ReadSome ==
    /\ reader = "reading" /\ Buffered(position) > 0
    /\ LET n == Least(Buffered(position), Piece) IN
        /\ position' = position + n
        /\ AdvanceConsumed(position + n)
    /\ asked' = Nobody
    /\ UNCHANGED <<source, cache, somsrp, fetching, ui, listening, sent, reader, paused,
                   shown, seekTarget, seenLen, seenTotal, seenAny, wholeAsked, notes>>

\* There is nothing: the end, something to wait for, or something to ask for ...
ReadNothing ==
    /\ reader = "reading" /\ Buffered(position) = 0
    /\ reader' = IF seenTotal > 0 /\ position >= seenTotal THEN "eof"
                 ELSE IF seenTotal > 0 /\ asked # position THEN "missed" ELSE "reading"
    /\ UNCHANGED <<source, cache, somsrp, fetching, ui, listening, sent, position, asked, paused,
                   shown, progressState, notes>>

\* ... which takes what has come meanwhile out of the buffer.
AskForMore ==
    /\ reader = "missed" /\ Cardinality(wanted) + Len(asks) < MaxWanted
    /\ reader' = "reading"
    /\ ResetForSeek(position)
    /\ asked' = position
    /\ wanted' = wanted \cup {[from |-> position, len |-> OnDemand]}
    /\ UNCHANGED <<source, cache, somsrp, fetching, ui, listening, ending, unsubscribing,
                   position, paused, shown, bufferStart, seenLen, seenTotal, seenAny,
                   wholeAsked, notes>>

\* A seek, between two reads, of a file whose length is known.
Seek ==
    /\ reader \in {"reading", "eof"} /\ asked = Nobody
    /\ seenTotal > 0 /\ Trouble("seek")
    /\ reader' = "reading"
    /\ position' \in Byte
    /\ UNCHANGED <<source, cache, somsrp, fetching, ui, listening, sent, asked, paused, shown,
                   progressState>>

\* Playback ends, by the stop icon or at the end of the file.
EndPlayback ==
    /\ ui = "on" /\ reader # "off" /\ ~paused
    /\ reader' = "off"
    /\ paused' = TRUE
    /\ ending' = TRUE
    /\ IF reader = "eof" THEN UNCHANGED notes ELSE Trouble("end")
    /\ UNCHANGED <<source, cache, somsrp, fetching, ui, listening, wanted, unsubscribing,
                   position, asked, shown, progressState>>

-----------------------------------------------------------------------------
(* The daemon hears of what Som wants.                                     *)

\* (mutant) It goes where a request for bytes would go.
HandleEndAsRange ==
    /\ ending
    /\ ending' = FALSE
    /\ cancelled' = TRUE
    /\ asks' = IF ToResponder(open)
               THEN Append(asks, [from |-> 0, len |-> 0]) ELSE asks
    /\ lost' = IF responderRoute THEN lost ELSE lost \cup {Nobody}
    /\ UNCHANGED <<source, entry, subscriber, inbox, stopped, fetched, routes,
                   player, open, registering, stopping, ended, streamed, serving, cleaned,
                   fetching, ui, listening, wanted, unsubscribing, reading, shown,
                   progressState, late, revived, troubled>>

\* route_end_playback: to the responder, if one has registered.
HandleEnd ==
    /\ ending
    /\ ending' = FALSE
    /\ cancelled' = TRUE
    /\ asks' = IF responderRoute /\ "responder" \in open
               THEN Append(asks, [from |-> 0, len |-> 0]) ELSE asks
    /\ lost' = IF responderRoute THEN lost ELSE lost \cup {Nobody}
    /\ UNCHANGED <<source, entry, subscriber, inbox, stopped, fetched, routes,
                   player, open, registering, stopping, ended, streamed, serving, cleaned,
                   fetching, ui, listening, wanted, unsubscribing, reading, shown,
                   progressState, late, revived, troubled>>

\* route_byte_range_request: to the responder ...
RangeToResponder(q) ==
    /\ q \in wanted /\ ToResponder(open)
    /\ wanted' = wanted \ {q}
    /\ asks' = Append(asks, q)
    /\ UNCHANGED <<source, cache, player, open, registering, stopping, ended, streamed,
                   serving, cleaned, fetching, ui, listening, ending, unsubscribing, reading,
                   shown, progressState, notes>>

\* ... to the connection that sent the last first chunk, which nobody reads ...
RangeToSender(q) ==
    /\ q \in wanted /\ ToSender(open)
    /\ wanted' = wanted \ {q}
    /\ lost' = lost \cup {q.from}
    /\ UNCHANGED <<source, cache, somsrp, fetching, ui, listening, ending, unsubscribing,
                   reading, shown, progressState, late, revived, troubled>>

\* ... or it is answered from the window, if what it asks for is in there.
RangeFromWindow(q) ==
    /\ q \in wanted /\ ~ToResponder(open) /\ ~ToSender(open)
    /\ wanted' = wanted \ {q}
    /\ PushRangeReply(q.from, Served(q.from, q.len))
    /\ lost' = IF q.from < recentStart THEN lost \cup {q.from} ELSE lost
    /\ UNCHANGED <<source, entry, subscriber, fetchMarks, routes, somsrp, fetching, ui,
                   listening, ending, unsubscribing, reading, shown, progressState,
                   late, revived, troubled>>

-----------------------------------------------------------------------------
RangeHandled ==
    \E q \in wanted : RangeToResponder(q) \/ RangeToSender(q) \/ RangeFromWindow(q)

Next ==
    \/ PlayerStarts \/ HandleRegister \/ StreamChunk \/ PlayerHolds
    \/ ResponderReads \/ ResponderChunk \/ ResponderCleanup
    \/ PlayerLeaves \/ HandleStop \/ PlayerEnds
    \/ FetchBegins \/ FetchChecks \/ FetchReads \/ FetchFails
    \/ See \/ HandleSubscribe \/ HearProgress \/ PublishFront \/ HearWord \/ ListenerStops
    \/ Paint \/ CellsVanish \/ TearDown \/ HandleUnsubscribe
    \/ OpenPlayer \/ ReadSome \/ ReadNothing \/ AskForMore \/ Seek \/ EndPlayback
    \/ HandleEnd \/ RangeHandled

Spec == Init /\ [][Next]_vars

\* somsrp's main thread and its responder, the fetch (its source delivers), Som's
\* listener, paint and decoding threads, and the daemon's threads for requests
\* each go on with what they have begun.  The user need not do anything, and
\* somsrp need not leave before it is told to.
Fairness ==
    /\ WF_vars(PlayerStarts \/ StreamChunk \/ PlayerHolds \/ (ended /\ PlayerLeaves))
    /\ WF_vars(ResponderReads \/ ResponderChunk \/ ResponderCleanup)
    /\ WF_vars(FetchBegins \/ FetchChecks \/ FetchReads)
    /\ WF_vars(HandleSubscribe \/ HearProgress \/ PublishFront \/ HearWord)
    /\ WF_vars(Paint \/ TearDown \/ OpenPlayer)
    /\ WF_vars(ReadSome \/ ReadNothing \/ AskForMore)
    /\ WF_vars(HandleRegister \/ HandleStop \/ HandleUnsubscribe \/ HandleEnd \/ RangeHandled)

FairSpec == Spec /\ Fairness

-----------------------------------------------------------------------------
(* Properties.                                                             *)

\* Who has the bytes is still there to give them.
SourceLives == player \notin {"leaving", "gone"} /\ ~ended /\ fetch # "failed" /\ ~cancelled

\* A reader that waits for bytes of the file is served, whatever else is asked
\* for, seeked to or streamed meanwhile, unless it is closed, the source is gone
\* or a request was lost on a connection that nobody reads, or came for what the
\* window no longer has.
Starving == reader \in {"reading", "missed"} /\ position < Size /\ Buffered(position) = 0
ReadIsServed == Starving ~> (~Starving \/ ~SourceLives \/ position \in lost)

\* A picture on the screen is shown whole, or its failure is known, if Som heard
\* of it from the start and somsrp is not killed before it has written it.
OnScreen == ui = "on" /\ ~IsAudio
Settled == shown.whole \/ failed \/ ui = "gone" \/ ~SourceLives
PictureSettles == OnScreen ~> Settled \/ late

\* ... and also if Som subscribed in the middle of the stream: it asks for the
\* whole file, which the responder has.
EveryPictureIsShown == OnScreen ~> Settled

\* Once somsrp has left a track, or has died, it is over in Som for good and is
\* not fetched any more: the stop finds Som whenever it subscribes.  Not so for a
\* fetch that was asked for before the stop and began after it, nor when the
\* subscription had ended with a failed fetch.
Silent == reader = "off" /\ fetch \notin {"requested", "running", "reading"}
StopIsFinal ==
    []<>(IsAudio /\ player \in {"leaving", "gone"})
        => <>[](Silent \/ revived \/ failed)

\* somsrp learns that playback has ended, behind whatever its responder has to
\* answer before, and goes on.
EndReachesPlayer == ending ~> player \in {"leaving", "gone"} \/ Nobody \in lost

\* A listener of a placement that is gone ends, and its connection with it.
ListenerEnds == ui = "gone" /\ seenAny ~> listener = "over"
=============================================================================
