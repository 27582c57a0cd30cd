-------------------------- MODULE PlacementProofs --------------------------
(***************************************************************************)
(* Proofs about Placement, for any file, window, pieces and sources.       *)
(*                                                                         *)
(* Whatever the order in which chunks, requests, replies and seeks meet,   *)
(* the daemon's cache is right about what has gone through it and Som's    *)
(* buffer has the file's bytes in their places.  The steps of the cache    *)
(* are in SrvCacheProofs.  What they need from their callers is that a     *)
(* file's length does not change: it is said from the start, or once, when *)
(* a fetch has come to its end (FetchedOnly, HeldOnly).                    *)
(***************************************************************************)
EXTENDS SrvCacheProofs, Placement

-----------------------------------------------------------------------------
(* Som's buffer.                                                           *)

\* The buffer's part of TypeOK, and that each byte is in its place.
BufferInv == buffer \in Seq(Byte) /\ bufferStart \in Position /\ BufferInPlace

\* The buffer ends with the file at the latest.
LEMMA BufferEnds ==
    ASSUME BufferInv
    PROVE  /\ Size \in Nat /\ bufferStart \in Nat /\ Len(buffer) \in Nat
           /\ bufferStart + Len(buffer) <= Size
<1>1. InPlace(bufferStart, buffer)
  BY BytesAre DEF BufferInv, BufferInPlace
<1> QED
  BY <1>1, CacheAssumption DEF InPlace, BufferInv, Position

\* A chunk is appended where it belongs, starts the buffer anew, or is dropped.
LEMMA AppendKeeps ==
    ASSUME BufferInv, NEW at \in Position, NEW data \in Seq(Byte), InPlace(at, data),
           AppendChunk(at, data)
    PROVE  BufferInv'
<1>1. /\ Size \in Nat /\ bufferStart \in Nat /\ Len(buffer) \in Nat
      /\ bufferStart + Len(buffer) <= Size
  BY BufferEnds
<1>2. /\ at \in Nat /\ Len(data) \in Nat
      /\ \A i \in 1 .. Len(data) : data[i] = at + i - 1
  BY <1>1 DEF InPlace, Bytes, Position
<1>3. CASE UNCHANGED <<buffer, bufferStart>>
  BY <1>3 DEF BufferInv, BufferInPlace
<1>4. CASE buffer' = data /\ bufferStart' = at
  BY <1>2, <1>4 DEF BufferInv, BufferInPlace
<1>5. CASE at = BufferTail /\ buffer' = buffer \o data /\ bufferStart' = bufferStart
  <2>1. buffer' \in Seq(Byte) /\ Len(buffer') = Len(buffer) + Len(data)
        /\ \A i \in 1 .. Len(buffer') :
            buffer'[i] = IF i <= Len(buffer) THEN buffer[i] ELSE data[i - Len(buffer)]
    BY <1>5, ConcatProperties DEF BufferInv
  <2>2. ASSUME NEW i \in 1 .. Len(buffer') PROVE buffer'[i] = bufferStart' + i - 1
    <3>1. CASE i <= Len(buffer)
      BY <1>1, <1>5, <2>1, <3>1 DEF BufferInv, BufferInPlace
    <3>2. CASE i > Len(buffer)
      <4>1. i - Len(buffer) \in 1 .. Len(data) /\ buffer'[i] = data[i - Len(buffer)]
        BY <1>1, <1>2, <2>1, <3>2
      <4> QED
        BY <1>1, <1>2, <1>5, <4>1 DEF BufferTail
    <3> QED
      BY <1>1, <2>1, <3>1, <3>2
  <2> QED
    BY <1>5, <2>1, <2>2 DEF BufferInv, BufferInPlace
<1> QED
  BY <1>3, <1>4, <1>5 DEF AppendChunk

\* What has been consumed is dropped from the buffer's start.
LEMMA ConsumedKeeps ==
    ASSUME BufferInv, NEW at \in Position, AdvanceConsumed(at)
    PROVE  BufferInv'
<1> DEFINE drop == IF at <= bufferStart + Keep THEN 0
                   ELSE IF at - Keep - bufferStart < Len(buffer)
                   THEN at - Keep - bufferStart ELSE Len(buffer)
<1>1. /\ Size \in Nat /\ bufferStart \in Nat /\ Len(buffer) \in Nat /\ at \in Nat /\ Keep \in Nat
      /\ bufferStart + Len(buffer) <= Size
  BY BufferEnds, ProgressAssumption DEF Position
<1>2. drop \in 0 .. Len(buffer)
  BY <1>1
<1>3. buffer' = SubSeq(buffer, drop + 1, Len(buffer)) /\ bufferStart' = bufferStart + drop
  BY DEF AdvanceConsumed
<1> HIDE DEF drop
<1>4. \A i \in drop + 1 .. Len(buffer) : buffer[i] \in Byte
  BY <1>1, <1>2 DEF BufferInv
<1>5. /\ buffer' \in Seq(Byte)
      /\ Len(buffer') = IF drop + 1 <= Len(buffer) THEN Len(buffer) - (drop + 1) + 1 ELSE 0
      /\ \A i \in 1 .. Len(buffer) - (drop + 1) + 1 : buffer'[i] = buffer[(drop + 1) + i - 1]
  BY <1>1, <1>2, <1>3, <1>4, SubSeqProperties
<1>6. ASSUME NEW i \in 1 .. Len(buffer') PROVE buffer'[i] = bufferStart' + i - 1
  <2> DEFINE j == (drop + 1) + i - 1
  <2>1. /\ i \in 1 .. Len(buffer) - (drop + 1) + 1
        /\ j \in 1 .. Len(buffer) /\ bufferStart + j - 1 = bufferStart' + i - 1
    BY <1>1, <1>2, <1>3, <1>5
  <2>2. buffer'[i] = buffer[j]
    BY <1>5, <2>1
  <2> QED
    BY <2>1, <2>2 DEF BufferInv, BufferInPlace
<1>7. bufferStart' \in Position
  BY <1>1, <1>2, <1>3 DEF Position
<1> QED
  BY <1>5, <1>6, <1>7 DEF BufferInv, BufferInPlace

\* A reader is never given more than the file has.
LEMMA BufferedBound ==
    ASSUME BufferInv, NEW at \in Position
    PROVE  Buffered(at) \in Nat /\ at + Buffered(at) \in Position
BY BufferEnds DEF Buffered, BufferTail, Position

-----------------------------------------------------------------------------
(* The sources, and what may be asked of them.                             *)

\* Before the first chunk Som has nothing to ask for.
UntilKnown ==
    known \/ /\ wanted = {} /\ ~seenAny /\ reader = "off" /\ publishing = Nobody
             /\ \A i \in 1 .. Len(inbox) : inbox[i].kind # "progress"

\* What the daemon fetches comes from the fetch only, in the file's order, and its
\* length stays what it was said to be until everything has come.
FetchedOnly ==
    source.kind \in {"url", "embed"} =>
        /\ serving = Idle /\ \A i \in 1 .. Len(asks) : asks[i].len = 0
        /\ IF fetch \in {"none", "requested"} THEN ~known ELSE fetched
        /\ fetch \in {"running", "reading"} /\ known =>
                totalSize = IF source.sized THEN Size ELSE 0
        /\ arrived = 0 .. fetchAt - 1
        /\ player = "starting" => fetch = "none"
        /\ source.kind = "embed" => player = "none" /\ (ui = "off" => fetch = "none")

\* What somsrp has is not fetched, and its length is said with the first chunk.
HeldOnly ==
    source.kind \notin {"url", "embed"} => fetch = "none" /\ (known => totalSize = Size)

\* What is served does not lie backwards.
ServesForward == serving.from <= serving.to

\* The inductive invariant.
Inv ==
    /\ TypeOK /\ EntryInv /\ InboxInv /\ BufferInPlace
    /\ UntilKnown /\ FetchedOnly /\ HeldOnly /\ ServesForward

\* The next piece ends behind where it starts and not beyond the end of the whole.
LEMMA PieceEnds ==
    ASSUME NEW from \in Position, NEW to \in Position, from <= to
    PROVE  /\ Least(from + Piece, to) \in Position
           /\ from <= Least(from + Piece, to) /\ Least(from + Piece, to) <= to
BY CacheAssumption, PlacementAssumption DEF Least, Position

\* A stream is at most the whole file.
LEMMA StreamIsPart == StreamLen \in Position
BY CacheAssumption, PlacementAssumption DEF StreamLen, Position

\* What leaves the entry alone leaves it right, and so with the inbox.
LEMMA Frames ==
    /\ EntryInv /\ UNCHANGED entry => EntryInv'
    /\ InboxInv /\ UNCHANGED inbox => InboxInv'
<1>1. EntryInv /\ UNCHANGED entry => EntryInv'
  BY DEF EntryInv, entry, RangesWait, FrontIsWhole, Covered, OnlyArrivedIsOffered,
         RecentEnd, Bytes
<1>2. InboxInv /\ UNCHANGED inbox => InboxInv'
  BY DEF InboxInv, InPlace, Bytes
<1> QED
  BY <1>1, <1>2

\* A chunk of a stream, an answer or a fetch is a chunk of the file, and the
\* length said with it is the one that was said before, or all has come.
LEMMA ChunkKeeps ==
    ASSUME Inv, StreamChunk \/ ResponderChunk \/ FetchReads
    PROVE  EntryInv' /\ InboxInv'
<1>1. EntryInv /\ InboxInv
  BY DEF Inv
<1>2. ASSUME StreamChunk PROVE EntryInv' /\ InboxInv'
  <2> DEFINE end == Least(streamed + Piece, StreamLen)
  <2>1. streamed \in Position /\ streamed <= StreamLen /\ StreamLen \in Position
    BY StreamIsPart, CacheAssumption DEF Inv, TypeOK, SourceTypeOK, Position
  <2>2. end \in Position /\ streamed <= end
    BY <2>1, PieceEnds
  <2>3. known => Size = totalSize
    BY <1>2, CacheAssumption
       DEF Inv, TypeOK, SourceTypeOK, StreamChunk, HeldOnly, StreamLen, Pushed
  <2>4. PutChunk(streamed, Bytes(streamed, end), Size)
    BY <1>2 DEF StreamChunk
  <2> HIDE DEF end
  <2> QED
    BY <1>1, <2>1, <2>2, <2>3, <2>4, PutChunkKeeps
<1>3. ASSUME ResponderChunk PROVE EntryInv' /\ InboxInv'
  <2> DEFINE end == Least(serving.from + Piece, serving.to)
  <2>1. serving.from \in Position /\ serving.to \in Position /\ serving.from <= serving.to
    BY DEF Inv, TypeOK, SourceTypeOK, ServesForward
  <2>2. end \in Position /\ serving.from <= end
    BY <2>1, PieceEnds
  <2>3. known => Size = totalSize
    BY <1>3 DEF Inv, ResponderChunk, HeldOnly, FetchedOnly
  <2>4. PutChunk(serving.from, Bytes(serving.from, end), Size)
    BY <1>3 DEF ResponderChunk
  <2> HIDE DEF end
  <2> QED
    BY <1>1, <2>1, <2>2, <2>3, <2>4, PutChunkKeeps
<1>4. ASSUME FetchReads PROVE EntryInv' /\ InboxInv'
  <2>1. fetchAt \in Position /\ Size \in Position /\ Size \in Nat
    BY CacheAssumption DEF Inv, TypeOK, SourceTypeOK, Position
  <2>2. source.kind \in {"url", "embed"} /\ fetch = "reading"
    BY <1>4 DEF Inv, HeldOnly, FetchReads
  <2>3. arrived = 0 .. fetchAt - 1
        /\ (known => totalSize = IF source.sized THEN Size ELSE 0)
    BY <2>2 DEF Inv, FetchedOnly
  <2>4. CASE fetchAt < Size
    <3> DEFINE end == Least(fetchAt + Piece, Size)
               total == IF source.sized THEN Size ELSE 0
    <3>1. end \in Position /\ fetchAt <= end
      BY <2>1, <2>4, PieceEnds
    <3>2. PutChunk(fetchAt, Bytes(fetchAt, end), total)
      BY <1>4, <2>4 DEF FetchReads
    <3>3. total \in {0, Size} /\ (known => total = totalSize)
      BY <2>3
    <3> HIDE DEF end, total
    <3> QED
      BY <1>1, <2>1, <3>1, <3>2, <3>3, PutChunkKeeps
  <2>5. CASE ~(fetchAt < Size)
    <3>1. fetchAt = Size
      BY <2>1, <2>5 DEF Position
    <3>2. CASE PutChunk(Size, <<>>, Size)
      <4>1. Bytes(Size, Size) = <<>>
        BY <2>1, BytesType, EmptySeq
      <4>2. Byte \subseteq arrived
        BY <2>3, <3>1 DEF Byte
      <4> QED
        BY <1>1, <2>1, <3>2, <4>1, <4>2, PutChunkKeeps
    <3>3. CASE UNCHANGED <<entry, inbox>>
      BY <1>1, <3>3, Frames
    <3> QED
      BY <1>4, <2>5, <3>2, <3>3 DEF FetchReads
  <2> QED
    BY <2>4, <2>5
<1> QED
  BY <1>2, <1>3, <1>4

\* No step makes the cache wrong about what has gone through it.
LEMMA CacheStep == Inv /\ [Next]_vars => EntryInv' /\ InboxInv'
<1> SUFFICES ASSUME Inv, [Next]_vars PROVE EntryInv' /\ InboxInv'
  OBVIOUS
<1> USE DEF cache, routes
<1>1. EntryInv /\ InboxInv
  BY DEF Inv
<1>2. CASE StreamChunk \/ ResponderChunk \/ FetchReads
  BY <1>2, ChunkKeeps
<1>3. CASE HandleStop \/ ResponderCleanup
  <2>1. UNCHANGED entry /\ Push(Word("stop"))
    BY <1>3 DEF HandleStop, ResponderCleanup, NotifyStopPlayback
  <2> QED
    BY <1>1, <2>1, Frames, PushKeeps, WordIsMessage
<1>4. CASE FetchFails
  <2>1. UNCHANGED entry /\ Push(Word("failed"))
    BY <1>4 DEF FetchFails
  <2> QED
    BY <1>1, <2>1, Frames, PushKeeps, WordIsMessage
<1>5. CASE HandleUnsubscribe
  <2>1. UNCHANGED entry /\ Push(Word("unsubscribed"))
    BY <1>5 DEF HandleUnsubscribe, Unsubscribe
  <2> QED
    BY <1>1, <2>1, Frames, PushKeeps, WordIsMessage
<1>6. CASE HandleSubscribe
  <2>1. UNCHANGED entry /\ Subscribe
    BY <1>6 DEF HandleSubscribe
  <2>2. stopped \in BOOLEAN
    BY DEF Inv, TypeOK, CacheTypeOK
  <2> QED
    BY <1>1, <2>1, <2>2, Frames, SubscribeKeeps
<1>7. CASE HearProgress
  <2>1. UNCHANGED entry /\ inbox # <<>> /\ inbox' = Tail(inbox)
    BY <1>7 DEF HearProgress
  <2> QED
    BY <1>1, <2>1, Frames, TailKeeps
<1>8. ASSUME inbox' = <<>> PROVE InboxInv'
  BY <1>8, CacheAssumption DEF InboxInv
<1>9. CASE PublishFront \/ HearWord \/ ListenerStops
  <2>1. UNCHANGED entry
    BY <1>9 DEF PublishFront, HearWord, ListenerStops
  <2>2. \/ UNCHANGED inbox \/ inbox' = <<>>
        \/ inbox # <<>> /\ inbox' = Tail(inbox)
    BY <1>9 DEF PublishFront, HearWord, ListenerStops, ReadsOn, HangsUp
  <2> QED
    BY <1>1, <1>8, <2>1, <2>2, Frames, TailKeeps
<1>10. ASSUME NEW q \in wanted, RangeFromWindow(q) PROVE EntryInv' /\ InboxInv'
  <2>1. UNCHANGED entry /\ PushRangeReply(q.from, Served(q.from, q.len))
    BY <1>10 DEF RangeFromWindow
  <2>2. q.from \in Position /\ q.len \in Nat
    BY DEF Inv, TypeOK, TerminalTypeOK
  <2> QED
    BY <1>1, <2>1, <2>2, Frames, RangeReplyKeeps
<1>11. CASE UNCHANGED <<entry, inbox>>
  BY <1>1, <1>11, Frames
<1>12. CASE \/ PlayerStarts \/ HandleRegister \/ PlayerHolds \/ ResponderReads
            \/ PlayerLeaves \/ PlayerEnds \/ FetchBegins \/ FetchChecks
  BY <1>11, <1>12 DEF PlayerStarts, HandleRegister, PlayerHolds, ResponderReads,
                      PlayerLeaves, PlayerEnds, FetchBegins, FetchChecks
<1>13. CASE \/ See \/ Paint \/ CellsVanish \/ TearDown \/ OpenPlayer \/ ReadSome
            \/ ReadNothing \/ AskForMore \/ Seek \/ EndPlayback \/ HandleEnd
  BY <1>11, <1>13 DEF See, Paint, CellsVanish, TearDown, OpenPlayer, ReadSome,
                      ReadNothing, AskForMore, Seek, EndPlayback, HandleEnd
<1>14. ASSUME NEW q \in wanted, RangeToResponder(q) \/ RangeToSender(q)
       PROVE EntryInv' /\ InboxInv'
  BY <1>11, <1>14 DEF RangeToResponder, RangeToSender
<1>15. CASE UNCHANGED vars
  BY <1>11, <1>15 DEF vars
<1> QED
  BY <1>2, <1>3, <1>4, <1>5, <1>6, <1>7, <1>9, <1>10, <1>12, <1>13, <1>14, <1>15
     DEF Next, RangeHandled

\* The message that is read next is in place.
LEMMA HeadInPlace ==
    ASSUME InboxInv, inbox # <<>>
    PROVE  /\ Head(inbox) \in Message /\ InPlace(Head(inbox).at, Head(inbox).data)
           /\ 1 \in 1 .. Len(inbox) /\ Head(inbox) = inbox[1]
BY DEF InboxInv

\* No step puts a byte into the buffer where it does not belong.
LEMMA BufferStep == Inv /\ [Next]_vars => BufferInv'
<1> SUFFICES ASSUME Inv, [Next]_vars PROVE BufferInv'
  OBVIOUS
<1> USE DEF som, progressState
<1>1. BufferInv /\ InboxInv
  BY DEF Inv, TypeOK, ProgressTypeOK, BufferInv
<1>2. CASE HearProgress
  <2>1. inbox # <<>> /\ AppendChunk(Head(inbox).at, Head(inbox).data)
    BY <1>2 DEF HearProgress
  <2>2. Head(inbox).at \in Position /\ Head(inbox).data \in Seq(Byte)
        /\ InPlace(Head(inbox).at, Head(inbox).data)
    BY <1>1, <2>1, HeadInPlace DEF Message
  <2> QED
    BY <1>1, <2>1, <2>2, AppendKeeps
<1>3. CASE ReadSome
  <2> DEFINE n == Least(Buffered(position), Piece)
  <2>1. position \in Position /\ AdvanceConsumed(position + n)
    BY <1>3 DEF ReadSome, Inv, TypeOK, TerminalTypeOK
  <2>2. position + n \in Position
    BY <1>1, <2>1, BufferedBound, CacheAssumption, PlacementAssumption DEF Least, Position
  <2> HIDE DEF n
  <2> QED
    BY <1>1, <2>1, <2>2, ConsumedKeeps
<1>4. CASE AskForMore
  BY <1>1, <1>4, EmptySeq DEF AskForMore, ResetForSeek, BufferInv, BufferInPlace
<1>5. CASE UNCHANGED <<buffer, bufferStart>>
  BY <1>1, <1>5 DEF BufferInv, BufferInPlace
<1>6. CASE \/ PlayerStarts \/ HandleRegister \/ StreamChunk \/ PlayerHolds
           \/ ResponderReads \/ ResponderChunk \/ ResponderCleanup
           \/ PlayerLeaves \/ HandleStop \/ PlayerEnds
           \/ FetchBegins \/ FetchChecks \/ FetchReads \/ FetchFails
  BY <1>5, <1>6 DEF PlayerStarts, HandleRegister, StreamChunk, PlayerHolds,
                    ResponderReads, ResponderChunk, ResponderCleanup,
                    PlayerLeaves, HandleStop, PlayerEnds,
                    FetchBegins, FetchChecks, FetchReads, FetchFails
<1>7. CASE \/ See \/ HandleSubscribe \/ PublishFront \/ HearWord \/ ListenerStops
           \/ Paint \/ CellsVanish \/ TearDown \/ HandleUnsubscribe
           \/ OpenPlayer \/ ReadNothing \/ Seek \/ EndPlayback \/ HandleEnd
  BY <1>5, <1>7 DEF See, HandleSubscribe, PublishFront, HearWord, ListenerStops,
                    Paint, CellsVanish, TearDown, HandleUnsubscribe,
                    OpenPlayer, ReadNothing, Seek, EndPlayback, HandleEnd
<1>8. ASSUME NEW q \in wanted, RangeToResponder(q) \/ RangeToSender(q) \/ RangeFromWindow(q)
      PROVE  BufferInv'
  BY <1>5, <1>8 DEF RangeToResponder, RangeToSender, RangeFromWindow
<1>9. CASE UNCHANGED vars
  BY <1>5, <1>9 DEF vars
<1> QED
  BY <1>2, <1>3, <1>4, <1>6, <1>7, <1>8, <1>9 DEF Next, RangeHandled

\* A word is not progress, whoever is told.
LEMMA WordIsNoProgress ==
    ASSUME InboxInv, NEW kind \in {"stop", "unsubscribed", "failed"}, Push(Word(kind)),
           \A i \in 1 .. Len(inbox) : inbox[i].kind # "progress"
    PROVE  \A i \in 1 .. Len(inbox') : inbox'[i].kind # "progress"
<1> DEFINE word == Word(kind)
<1>1. word \in Message /\ word.kind # "progress"
  BY WordIsMessage DEF Word
<1>2. inbox' = inbox \/ inbox' = Append(inbox, word)
  BY DEF Push
<1> HIDE DEF word
<1>3. CASE inbox' = Append(inbox, word)
  <2>1. /\ Len(inbox') = Len(inbox) + 1 /\ inbox'[Len(inbox) + 1] = word
        /\ \A i \in 1 .. Len(inbox) : inbox'[i] = inbox[i]
    BY <1>1, <1>3, AppendProperties DEF InboxInv
  <2> QED
    BY <1>1, <2>1 DEF InboxInv
<1> QED
  BY <1>2, <1>3

\* What has arrived stays known.
LEMMA KnownStays == [Next]_vars => (known => known')
<1> SUFFICES ASSUME [Next]_vars PROVE known => known'
  OBVIOUS
<1> USE DEF cache, entry
<1>1. CASE \/ StreamChunk \/ ResponderChunk \/ FetchReads
  BY <1>1 DEF StreamChunk, ResponderChunk, FetchReads, PutChunk
<1>2. CASE \/ PlayerStarts \/ HandleRegister \/ PlayerHolds
           \/ ResponderReads \/ ResponderCleanup \/ PlayerLeaves \/ HandleStop \/ PlayerEnds
           \/ FetchBegins \/ FetchChecks \/ FetchFails
  BY <1>2 DEF PlayerStarts, HandleRegister, PlayerHolds,
              ResponderReads, ResponderCleanup, PlayerLeaves, HandleStop, PlayerEnds,
              FetchBegins, FetchChecks, FetchFails
<1>3. CASE \/ See \/ HandleSubscribe \/ HearProgress \/ PublishFront \/ HearWord
           \/ ListenerStops \/ Paint \/ CellsVanish \/ TearDown \/ HandleUnsubscribe
           \/ OpenPlayer \/ ReadSome \/ ReadNothing \/ AskForMore \/ Seek \/ EndPlayback
           \/ HandleEnd
  BY <1>3 DEF See, HandleSubscribe, HearProgress, PublishFront, HearWord,
              ListenerStops, Paint, CellsVanish, TearDown, HandleUnsubscribe,
              OpenPlayer, ReadSome, ReadNothing, AskForMore, Seek, EndPlayback, HandleEnd
<1>4. ASSUME NEW q \in wanted, RangeToResponder(q) \/ RangeToSender(q) \/ RangeFromWindow(q)
      PROVE  known => known'
  BY <1>4 DEF RangeToResponder, RangeToSender, RangeFromWindow
<1>5. CASE UNCHANGED vars
  BY <1>5 DEF vars
<1> QED
  BY <1>1, <1>2, <1>3, <1>4, <1>5 DEF Next, RangeHandled

\* Nothing is asked for before a chunk has been heard of.
LEMMA UntilKnownStep == Inv /\ [Next]_vars => UntilKnown'
<1> DEFINE Unasked == wanted = {} /\ ~seenAny /\ reader = "off" /\ publishing = Nobody
           Unheard == \A i \in 1 .. Len(inbox) : inbox[i].kind # "progress"
<1> SUFFICES ASSUME Inv, [Next]_vars, ~known' PROVE Unasked' /\ Unheard'
  BY DEF UntilKnown, Nobody
<1> USE DEF cache, entry, routes, som, listening, sent, reading, progressState
<1>1. InboxInv /\ ~known /\ Unasked /\ Unheard
  BY KnownStays DEF Inv, UntilKnown
<1>2. ASSUME inbox' = <<>> PROVE Unheard'
  BY <1>2
<1>3. CASE StreamChunk \/ ResponderChunk
  BY <1>3 DEF StreamChunk, ResponderChunk, PutChunk
<1>4. CASE FetchReads
  <2>1. UNCHANGED <<entry, inbox>>
    BY <1>4 DEF FetchReads, PutChunk
  <2> QED
    BY <1>1, <1>4, <2>1 DEF FetchReads, Nobody
<1>5. CASE HandleStop \/ ResponderCleanup
  <2>1. Push(Word("stop")) /\ UNCHANGED <<sent, seenAny, reader, publishing>>
    BY <1>5 DEF HandleStop, ResponderCleanup, NotifyStopPlayback
  <2> QED
    BY <1>1, <2>1, WordIsNoProgress DEF Nobody
<1>6. CASE FetchFails
  <2>1. Push(Word("failed")) /\ UNCHANGED <<sent, seenAny, reader, publishing>>
    BY <1>6 DEF FetchFails
  <2> QED
    BY <1>1, <2>1, WordIsNoProgress DEF Nobody
<1>7. CASE HandleUnsubscribe
  <2>1. Push(Word("unsubscribed")) /\ UNCHANGED <<wanted, seenAny, reader, publishing>>
    BY <1>7 DEF HandleUnsubscribe, Unsubscribe
  <2> QED
    BY <1>1, <2>1, WordIsNoProgress DEF Nobody
<1>8. CASE HandleSubscribe
  <2>1. inbox' = <<>> \o (IF stopped THEN <<Word("stop")>> ELSE <<>>)
        /\ UNCHANGED <<sent, seenAny, reader, publishing>>
    BY <1>1, <1>8 DEF HandleSubscribe, Subscribe, Replay
  <2>2. inbox' = <<>> \/ inbox' = <<Word("stop")>>
    BY <2>1, WordIsMessage, ConcatEmptySeq
  <2>3. Unheard'
    BY <2>2 DEF Word
  <2> QED
    BY <1>1, <2>1, <2>3 DEF Nobody
<1>9. CASE HearProgress
  BY <1>1, <1>9, HeadInPlace DEF HearProgress
<1>10. CASE PublishFront
  BY <1>1, <1>10 DEF PublishFront
<1>11. CASE HearWord \/ ListenerStops
  <2>1. \/ inbox' = <<>>
        \/ inbox # <<>> /\ inbox' = Tail(inbox)
    BY <1>11 DEF HearWord, ListenerStops, ReadsOn, HangsUp
  <2>2. UNCHANGED <<sent, seenAny, reader, publishing>>
    BY <1>11 DEF HearWord, ListenerStops
  <2>3. ASSUME inbox # <<>> /\ inbox' = Tail(inbox) PROVE Unheard'
    BY <1>1, <2>3, HeadTailProperties DEF InboxInv
  <2> QED
    BY <1>1, <1>2, <2>1, <2>2, <2>3 DEF Nobody
<1>12. CASE Paint \/ TearDown \/ OpenPlayer \/ AskForMore
  BY <1>1, <1>12 DEF Paint, TearDown, OpenPlayer, AskForMore
<1>13. ASSUME NEW q \in wanted PROVE Unasked' /\ Unheard'
  BY <1>1, <1>13
<1>14. CASE UNCHANGED <<inbox, wanted, seenAny, reader, publishing>>
  BY <1>1, <1>14 DEF Nobody
<1>15. CASE \/ PlayerStarts \/ HandleRegister \/ PlayerHolds \/ ResponderReads
            \/ PlayerLeaves \/ PlayerEnds \/ FetchBegins \/ FetchChecks
  BY <1>14, <1>15 DEF PlayerStarts, HandleRegister, PlayerHolds, ResponderReads,
                      PlayerLeaves, PlayerEnds, FetchBegins, FetchChecks
<1>16. CASE See \/ CellsVanish \/ HandleEnd
  BY <1>14, <1>16 DEF See, CellsVanish, HandleEnd
<1>17. CASE ReadSome \/ ReadNothing \/ Seek \/ EndPlayback
  BY <1>1, <1>17 DEF ReadSome, ReadNothing, Seek, EndPlayback
<1>18. CASE UNCHANGED vars
  BY <1>14, <1>18 DEF vars
<1> QED
  BY <1>3, <1>4, <1>5, <1>6, <1>7, <1>8, <1>9, <1>10, <1>11, <1>12, <1>13, <1>15, <1>16,
     <1>17, <1>18
     DEF Next, RangeHandled

\* What is served does not lie backwards, whatever is asked for.
LEMMA ServesForwardStep == Inv /\ [Next]_vars => ServesForward'
<1> SUFFICES ASSUME Inv, [Next]_vars PROVE ServesForward'
  OBVIOUS
<1> USE DEF somsrp
<1>1. ServesForward /\ serving.from \in Position /\ serving.to \in Position
  BY DEF Inv, TypeOK, SourceTypeOK
<1>2. CASE ResponderReads
  <2>1. asks # <<>> /\ asks \in Seq([from : Position, len : Nat])
    BY <1>2 DEF ResponderReads, Inv, TypeOK, SourceTypeOK
  <2>2. Head(asks) \in [from : Position, len : Nat]
    BY <2>1, HeadTailProperties
  <2>3. Head(asks).from \in Position /\ Head(asks).len \in Nat
    BY <2>2
  <2> QED
    BY <1>1, <1>2, <2>3, CacheAssumption
       DEF ResponderReads, ServesForward, Idle, Least, Position
<1>3. CASE ResponderChunk
  <2>1. Least(serving.from + Piece, serving.to) <= serving.to
    BY <1>1, PieceEnds DEF ServesForward
  <2>2. serving' = Idle \/ serving' = [serving EXCEPT !.from = Least(serving.from + Piece, serving.to)]
    BY <1>3 DEF ResponderChunk
  <2>3. serving \in [from : Position, to : Position]
    BY DEF Inv, TypeOK, SourceTypeOK
  <2> QED
    BY <1>1, <2>1, <2>2, <2>3 DEF ServesForward, Idle
<1>4. CASE UNCHANGED serving
  BY <1>1, <1>4 DEF ServesForward
<1>5. CASE PlayerEnds
  BY <1>5 DEF PlayerEnds, ServesForward, Idle
<1>6. CASE \/ PlayerStarts \/ HandleRegister \/ StreamChunk \/ PlayerHolds \/ ResponderCleanup
           \/ PlayerLeaves \/ HandleStop
           \/ FetchBegins \/ FetchChecks \/ FetchReads \/ FetchFails
  BY <1>4, <1>6 DEF PlayerStarts, HandleRegister, StreamChunk, PlayerHolds, ResponderCleanup,
                    PlayerLeaves, HandleStop, FetchBegins, FetchChecks, FetchReads, FetchFails
<1>7. CASE \/ See \/ HandleSubscribe \/ HearProgress \/ PublishFront \/ HearWord
           \/ ListenerStops \/ Paint \/ CellsVanish \/ TearDown \/ HandleUnsubscribe
           \/ OpenPlayer \/ ReadSome \/ ReadNothing \/ AskForMore \/ Seek \/ EndPlayback
           \/ HandleEnd
  BY <1>4, <1>7
     DEF See, HandleSubscribe, HearProgress, PublishFront, HearWord, ListenerStops,
         Paint, CellsVanish, TearDown, HandleUnsubscribe,
         OpenPlayer, ReadSome, ReadNothing, AskForMore, Seek, EndPlayback, HandleEnd
<1>8. ASSUME NEW q \in wanted, RangeToResponder(q) \/ RangeToSender(q) \/ RangeFromWindow(q)
      PROVE  ServesForward'
  BY <1>4, <1>8 DEF RangeToResponder, RangeToSender, RangeFromWindow
<1>9. CASE UNCHANGED vars
  BY <1>4, <1>9 DEF vars
<1> QED
  BY <1>2, <1>3, <1>5, <1>6, <1>7, <1>8, <1>9 DEF Next, RangeHandled

\* What somsrp has is never fetched, and its length does not change.
LEMMA HeldOnlyStep == Inv /\ [Next]_vars => HeldOnly'
<1> SUFFICES ASSUME Inv, [Next]_vars PROVE HeldOnly'
  OBVIOUS
<1> USE DEF cache, entry, fetching
<1>1. source \in Sources /\ HeldOnly
  BY DEF Inv, TypeOK, SourceTypeOK
<1>2. CASE StreamChunk \/ ResponderChunk
  BY <1>1, <1>2 DEF StreamChunk, ResponderChunk, PutChunk, HeldOnly
<1>3. CASE PlayerStarts \/ See
  BY <1>1, <1>3 DEF PlayerStarts, See, HeldOnly
<1>4. CASE FetchBegins \/ FetchChecks \/ FetchReads \/ FetchFails
  BY <1>1, <1>4 DEF FetchBegins, FetchChecks, FetchReads, FetchFails, HeldOnly
<1>5. CASE UNCHANGED <<source, fetch, known, totalSize>>
  BY <1>1, <1>5 DEF HeldOnly
<1>6. CASE \/ HandleRegister \/ PlayerHolds \/ ResponderReads \/ ResponderCleanup
           \/ PlayerLeaves \/ HandleStop \/ PlayerEnds
  BY <1>5, <1>6 DEF HandleRegister, PlayerHolds, ResponderReads, ResponderCleanup,
                    PlayerLeaves, HandleStop, PlayerEnds
<1>7. CASE \/ HandleSubscribe \/ HearProgress \/ PublishFront \/ HearWord
           \/ ListenerStops \/ Paint \/ CellsVanish \/ TearDown \/ HandleUnsubscribe
           \/ OpenPlayer \/ ReadSome \/ ReadNothing \/ AskForMore \/ Seek \/ EndPlayback
           \/ HandleEnd
  BY <1>5, <1>7
     DEF HandleSubscribe, HearProgress, PublishFront, HearWord, ListenerStops,
         Paint, CellsVanish, TearDown, HandleUnsubscribe,
         OpenPlayer, ReadSome, ReadNothing, AskForMore, Seek, EndPlayback, HandleEnd
<1>8. ASSUME NEW q \in wanted, RangeToResponder(q) \/ RangeToSender(q) \/ RangeFromWindow(q)
      PROVE  HeldOnly'
  BY <1>5, <1>8 DEF RangeToResponder, RangeToSender, RangeFromWindow
<1>9. CASE UNCHANGED vars
  BY <1>5, <1>9 DEF vars
<1> QED
  BY <1>2, <1>3, <1>4, <1>6, <1>7, <1>8, <1>9 DEF Next, RangeHandled

\* What the daemon fetches comes from nobody else: when Som can ask for bytes, the
\* responder is no longer the one who is asked.
LEMMA FetchedOnlyStep == Inv /\ [Next]_vars => FetchedOnly'
<1> SUFFICES ASSUME Inv, [Next]_vars, source'.kind \in {"url", "embed"} PROVE FetchedOnly'
  BY DEF FetchedOnly
<1> USE DEF cache, entry, fetchMarks, routes, somsrp, fetching, som
<1>1. source' = source
  BY DEF Next, vars, PlayerStarts, HandleRegister, StreamChunk, PlayerHolds, ResponderReads,
     ResponderChunk, ResponderCleanup, PlayerLeaves, HandleStop, PlayerEnds, FetchBegins,
     FetchChecks, FetchReads, FetchFails, See, HandleSubscribe, HearProgress, PublishFront,
     HearWord, ListenerStops, Paint, CellsVanish, TearDown, HandleUnsubscribe, OpenPlayer,
     ReadSome, ReadNothing, AskForMore, Seek, EndPlayback, HandleEnd, RangeHandled,
     RangeToResponder, RangeToSender, RangeFromWindow
<1>2. /\ source.kind \in {"url", "embed"}
      /\ serving = Idle /\ \A i \in 1 .. Len(asks) : asks[i].len = 0
      /\ IF fetch \in {"none", "requested"} THEN ~known ELSE fetched
      /\ fetch \in {"running", "reading"} /\ known =>
              totalSize = IF source.sized THEN Size ELSE 0
      /\ arrived = 0 .. fetchAt - 1
      /\ player = "starting" => fetch = "none"
      /\ source.kind = "embed" => player = "none" /\ (ui = "off" => fetch = "none")
  BY <1>1 DEF Inv, FetchedOnly
<1>3. asks \in Seq([from : Position, len : Nat]) /\ Size \in Nat /\ fetchAt \in 0 .. Size
  BY CacheAssumption DEF Inv, TypeOK, SourceTypeOK, Position
<1> DEFINE Asked == \A i \in 1 .. Len(asks) : asks[i].len = 0
<1>4. ~StreamChunk /\ ~ResponderChunk
  <2>1. streamed \in 0 .. 0
    BY <1>2 DEF Inv, TypeOK, SourceTypeOK, StreamLen, Pushed
  <2> QED
    BY <1>2, <2>1 DEF StreamChunk, ResponderChunk, StreamLen, Pushed
<1>5. CASE PlayerStarts
  BY <1>1, <1>2, <1>5 DEF PlayerStarts, FetchedOnly
<1>6. CASE ResponderReads
  <2>1. /\ Head(asks) = asks[1] /\ 1 \in 1 .. Len(asks)
        /\ Len(asks') = Len(asks) - 1 /\ Len(asks) \in Nat
        /\ \A i \in 1 .. Len(asks') : asks'[i] = asks[i + 1]
    BY <1>3, <1>6, HeadTailProperties DEF ResponderReads
  <2>2. UNCHANGED serving
    BY <1>2, <1>6, <2>1 DEF ResponderReads
  <2>3. Asked'
    BY <1>2, <2>1
  <2> QED
    BY <1>1, <1>2, <1>6, <2>2, <2>3 DEF ResponderReads, FetchedOnly
<1>7. CASE PlayerEnds
  <2>1. Asked' /\ serving' = Idle
    BY <1>7 DEF PlayerEnds
  <2> QED
    BY <1>1, <1>2, <1>7, <2>1 DEF PlayerEnds, FetchedOnly
<1>8. CASE PlayerHolds \/ PlayerLeaves
  BY <1>1, <1>2, <1>8 DEF PlayerHolds, PlayerLeaves, FetchedOnly
<1>9. CASE HandleRegister \/ HandleStop \/ ResponderCleanup
  BY <1>1, <1>2, <1>9
     DEF HandleRegister, HandleStop, ResponderCleanup, NotifyStopPlayback, FetchedOnly
<1>10. CASE FetchBegins \/ FetchChecks \/ FetchFails
  BY <1>1, <1>2, <1>10 DEF FetchBegins, BeginFetch, FetchChecks, FetchFails, FetchedOnly
<1>11. CASE FetchReads
  <2>1. CASE fetchAt < Size
    <3> DEFINE end == Least(fetchAt + Piece, Size)
    <3>1. end \in Position /\ fetchAt <= end
      BY <1>3, <2>1, PieceEnds DEF Position
    <3>2. /\ arrived' = arrived \cup (fetchAt .. fetchAt + Len(Bytes(fetchAt, end)) - 1)
          /\ fetchAt' = end /\ fetch' = "running"
          /\ totalSize' = IF source.sized THEN Size ELSE 0
      <4>1. /\ PutChunk(fetchAt, Bytes(fetchAt, end), IF source.sized THEN Size ELSE 0)
            /\ fetchAt' = end /\ fetch' = "running"
        BY <1>11, <2>1 DEF FetchReads
      <4>2. fetchAt \in Nat /\ Len(Bytes(fetchAt, end)) \in Nat
        BY <1>3, <3>1, BytesType DEF Position
      <4> QED
        BY <4>1, <4>2 DEF PutChunk
    <3>3. Len(Bytes(fetchAt, end)) = end - fetchAt
      BY <1>3, <3>1, BytesType DEF Position
    <3>4. arrived' = 0 .. fetchAt' - 1
      BY <1>2, <1>3, <3>1, <3>2, <3>3 DEF Position
    <3> QED
      BY <1>1, <1>2, <1>11, <3>2, <3>4 DEF FetchReads, FetchedOnly
  <2>2. CASE ~(fetchAt < Size)
    <3>1. CASE UNCHANGED <<entry, inbox>>
      BY <1>1, <1>2, <1>11, <2>2, <3>1 DEF FetchReads, FetchedOnly
    <3>2. CASE PutChunk(Size, <<>>, Size) /\ source.ends
      <4>1. arrived' = arrived
        BY <1>3, <3>2 DEF PutChunk
      <4> QED
        BY <1>1, <1>2, <1>11, <2>2, <3>2, <4>1 DEF FetchReads, FetchedOnly
    <3> QED
      BY <1>11, <2>2, <3>1, <3>2 DEF FetchReads
  <2> QED
    BY <2>1, <2>2
<1>12. CASE See
  BY <1>1, <1>2, <1>12 DEF See, FetchedOnly
<1>13. CASE HandleSubscribe \/ HearProgress \/ PublishFront \/ HearWord \/ ListenerStops
  BY <1>1, <1>2, <1>13
     DEF HandleSubscribe, HearProgress, PublishFront, HearWord, ListenerStops, FetchedOnly
<1>14. CASE Paint \/ CellsVanish \/ TearDown \/ HandleUnsubscribe
  BY <1>1, <1>2, <1>14
     DEF Paint, CellsVanish, TearDown, HandleUnsubscribe, Unsubscribe, FetchedOnly
<1>15. CASE OpenPlayer \/ ReadSome \/ ReadNothing \/ AskForMore \/ Seek \/ EndPlayback
  BY <1>1, <1>2, <1>15
     DEF OpenPlayer, ReadSome, ReadNothing, AskForMore, Seek, EndPlayback, FetchedOnly
<1>16. CASE HandleEnd
  <2> DEFINE last == [from |-> 0, len |-> 0]
  <2>1. asks' = asks \/ asks' = Append(asks, last)
    BY <1>16 DEF HandleEnd
  <2>2. last \in [from : Position, len : Nat] /\ last.len = 0
    BY CacheAssumption DEF Position
  <2> HIDE DEF last
  <2>3. Asked'
    <3>1. CASE asks' = Append(asks, last)
      <4>1. /\ Len(asks') = Len(asks) + 1 /\ asks'[Len(asks) + 1] = last
            /\ Len(asks) \in Nat
            /\ \A i \in 1 .. Len(asks) : asks'[i] = asks[i]
        BY <1>3, <2>2, <3>1, AppendProperties
      <4> QED
        BY <1>2, <2>2, <4>1
    <3> QED
      BY <1>2, <2>1, <3>1
  <2> QED
    BY <1>1, <1>2, <1>16, <2>3 DEF HandleEnd, FetchedOnly
<1>17. ASSUME NEW q \in wanted PROVE ~RangeToResponder(q)
  <2>1. known
    BY <1>17 DEF Inv, UntilKnown
  <2> QED
    BY <1>2, <2>1 DEF RangeToResponder, ToResponder
<1>18. ASSUME NEW q \in wanted, RangeToSender(q) \/ RangeFromWindow(q)
       PROVE  FetchedOnly'
  BY <1>1, <1>2, <1>18 DEF RangeToSender, RangeFromWindow, FetchedOnly
<1>19. CASE UNCHANGED vars
  BY <1>1, <1>2, <1>19 DEF vars, FetchedOnly
<1> QED
  BY <1>4, <1>5, <1>6, <1>7, <1>8, <1>9, <1>10, <1>11, <1>12, <1>13, <1>14, <1>15, <1>16,
     <1>17, <1>18, <1>19
     DEF Next, RangeHandled

-----------------------------------------------------------------------------
(* The types.                                                              *)

\* The variables of the sources keep their types.
LEMMA SourceTypeStep == Inv /\ [Next]_vars => SourceTypeOK'
<1> SUFFICES ASSUME Inv, [Next]_vars PROVE SourceTypeOK'
  OBVIOUS
<1> USE DEF somsrp, fetching, SourceTypeOK
<1>1. SourceTypeOK
  BY DEF Inv, TypeOK
<1>2. Size \in Nat /\ Size > 0 /\ Size \in Position /\ 0 \in Position
  BY CacheAssumption DEF Position
<1>3. ASSUME UNCHANGED source PROVE StreamLen' = StreamLen
  BY <1>3 DEF StreamLen, Pushed
<1>4. CASE PlayerStarts \/ HandleRegister
  BY <1>1, <1>3, <1>4 DEF PlayerStarts, HandleRegister
<1>5. CASE StreamChunk
  <2>1. streamed' = Least(streamed + Piece, StreamLen) /\ streamed < StreamLen
    BY <1>5 DEF StreamChunk
  <2>2. streamed' \in 0 .. StreamLen
    BY <1>1, <2>1, StreamIsPart, PlacementAssumption, CacheAssumption DEF Least, Position
  <2> QED
    BY <1>1, <1>3, <1>5, <2>2 DEF StreamChunk
<1>6. CASE PlayerHolds \/ PlayerLeaves
  BY <1>1, <1>3, <1>6 DEF PlayerHolds, PlayerLeaves
<1>7. CASE ResponderReads
  <2>1. Head(asks) \in [from : Position, len : Nat] /\ Tail(asks) \in Seq([from : Position, len : Nat])
    BY <1>1, <1>7, HeadTailProperties DEF ResponderReads
  <2> DEFINE a == Head(asks)
  <2>2. a.from \in Position /\ a.len \in Nat
    BY <2>1
  <2>3. Idle \in [from : Position, to : Position]
    BY <1>2 DEF Idle
  <2>4. [from |-> a.from, to |-> Least(a.from + a.len, Size)] \in [from : Position, to : Position]
    BY <1>2, <2>2 DEF Least, Position
  <2>5. serving' \in {serving, Idle, [from |-> a.from, to |-> Least(a.from + a.len, Size)]}
    BY <1>7 DEF ResponderReads
  <2>6. ended' \in BOOLEAN /\ open' \in SUBSET {"stream", "responder"}
    BY <1>1, <1>7 DEF ResponderReads
  <2> HIDE DEF a
  <2> QED
    BY <1>1, <1>3, <1>7, <2>1, <2>3, <2>4, <2>5, <2>6 DEF ResponderReads
<1>8. CASE ResponderChunk
  <2> DEFINE end == Least(serving.from + Piece, serving.to)
  <2>1. end \in Position
    BY <1>1, PieceEnds DEF Inv, ServesForward
  <2> HIDE DEF end
  <2>2. serving' \in {Idle, [serving EXCEPT !.from = end]}
    BY <1>8 DEF ResponderChunk, end
  <2>3. serving' \in [from : Position, to : Position]
    BY <1>1, <1>2, <2>1, <2>2 DEF Idle
  <2> QED
    BY <1>1, <1>3, <1>8, <2>3 DEF ResponderChunk
<1>9. CASE HandleStop \/ ResponderCleanup
  BY <1>1, <1>3, <1>9 DEF HandleStop, ResponderCleanup
<1>10. CASE PlayerEnds
  <2>1. Idle \in [from : Position, to : Position] /\ <<>> \in Seq([from : Position, len : Nat])
    BY <1>2 DEF Idle
  <2> QED
    BY <1>1, <1>3, <1>10, <2>1 DEF PlayerEnds
<1>11. CASE FetchBegins \/ FetchChecks \/ FetchFails
  BY <1>1, <1>3, <1>11 DEF FetchBegins, FetchChecks, FetchFails
<1>12. CASE FetchReads
  <2> DEFINE end == Least(fetchAt + Piece, Size)
  <2>1. fetchAt <= Size => end \in Position
    BY <1>1, <1>2, PieceEnds
  <2>2. fetchAt' = fetchAt \/ (fetchAt < Size /\ fetchAt' = end)
    BY <1>12 DEF FetchReads
  <2> HIDE DEF end
  <2>3. fetchAt' \in Position
    BY <1>1, <1>2, <2>1, <2>2 DEF Position
  <2> QED
    BY <1>1, <1>3, <1>12, <2>3 DEF FetchReads
<1>13. CASE See
  BY <1>1, <1>3, <1>13 DEF See
<1>14. CASE UNCHANGED <<source, somsrp, fetching>>
  BY <1>1, <1>3, <1>14
<1>15. CASE \/ HandleSubscribe \/ HearProgress \/ PublishFront \/ HearWord \/ ListenerStops
            \/ Paint \/ CellsVanish \/ TearDown \/ HandleUnsubscribe
            \/ OpenPlayer \/ ReadSome \/ ReadNothing \/ AskForMore \/ Seek \/ EndPlayback
  BY <1>14, <1>15
     DEF HandleSubscribe, HearProgress, PublishFront, HearWord, ListenerStops,
         Paint, CellsVanish, TearDown, HandleUnsubscribe,
         OpenPlayer, ReadSome, ReadNothing, AskForMore, Seek, EndPlayback
<1>16. ASSUME NEW q \in [from : Position, len : Nat], asks' = asks \/ asks' = Append(asks, q),
              UNCHANGED <<source, player, open, registering, stopping, ended, streamed,
                          serving, cleaned, fetching>>
       PROVE  SourceTypeOK'
  <2> DEFINE Ask == [from : Position, len : Nat]
  <2>1. asks \in Seq(Ask) /\ q \in Ask
    BY <1>1
  <2> HIDE DEF Ask
  <2>2. asks' \in Seq(Ask)
    BY <1>16, <2>1, AppendProperties
  <2>3. asks' \in Seq([from : Position, len : Nat])
    BY <2>2 DEF Ask
  <2> QED
    BY <1>1, <1>3, <1>16, <2>3
<1>17. CASE HandleEnd
  <2>1. [from |-> 0, len |-> 0] \in [from : Position, len : Nat]
    BY <1>2
  <2> QED
    BY <1>16, <1>17, <2>1 DEF HandleEnd
<1>18. ASSUME NEW q \in wanted, RangeToResponder(q) PROVE SourceTypeOK'
  <2>1. q \in [from : Position, len : Nat]
    BY DEF Inv, TypeOK, TerminalTypeOK
  <2> QED
    BY <1>16, <1>18, <2>1 DEF RangeToResponder
<1>19. ASSUME NEW q \in wanted, RangeToSender(q) \/ RangeFromWindow(q) PROVE SourceTypeOK'
  BY <1>14, <1>19 DEF RangeToSender, RangeFromWindow
<1>20. CASE UNCHANGED vars
  BY <1>14, <1>20 DEF vars
<1> QED
  BY <1>4, <1>5, <1>6, <1>7, <1>8, <1>9, <1>10, <1>11, <1>12, <1>13, <1>15, <1>17, <1>18,
     <1>19, <1>20
     DEF Next, RangeHandled

\* The variables of Som's terminal and its threads keep their types.
LEMMA TerminalTypeStep == Inv /\ [Next]_vars => TerminalTypeOK'
<1> SUFFICES ASSUME Inv, [Next]_vars PROVE TerminalTypeOK'
  OBVIOUS
<1> USE DEF som, listening, sent, reading, TerminalTypeOK, Nobody
<1>1. TerminalTypeOK /\ ProgressTypeOK /\ InboxInv /\ BufferInv
  BY DEF Inv, TypeOK, BufferInv, ProgressTypeOK
<1>2. Size \in Nat /\ Size > 0 /\ Size \in Position /\ 0 \in Position
  BY CacheAssumption DEF Position
<1>3. ASSUME NEW q \in [from : Position, len : Nat]
      PROVE  wanted \cup {q} \in SUBSET [from : Position, len : Nat]
  BY <1>1
<1>4. CASE See \/ HandleSubscribe
  BY <1>1, <1>4 DEF See, HandleSubscribe
<1>5. CASE HearProgress
  <2>1. Head(inbox).front \in Position
    BY <1>1, <1>5, HeadInPlace DEF HearProgress, Message
  <2> QED
    BY <1>1, <1>5, <2>1 DEF HearProgress
<1>6. CASE PublishFront
  BY <1>1, <1>6 DEF PublishFront, ReadsOn, HangsUp
<1>7. CASE HearWord \/ ListenerStops
  BY <1>1, <1>7 DEF HearWord, ListenerStops, ReadsOn, HangsUp
<1>8. CASE Paint
  <2>1. [from |-> 0, len |-> WholeLen] \in [from : Position, len : Nat]
    BY <1>1, <1>2 DEF WholeLen, ProgressTypeOK, Position
  <2>2. wanted' \in SUBSET [from : Position, len : Nat]
    BY <1>1, <1>3, <1>8, <2>1 DEF Paint
  <2>3. Decoded \in [through : Position, whole : BOOLEAN]
    BY <1>1 DEF Decoded, ProgressTypeOK
  <2>4. shown' \in [through : Position, whole : BOOLEAN]
    BY <1>1, <1>8, <2>3 DEF Paint
  <2> QED
    BY <1>1, <1>8, <2>2, <2>4 DEF Paint
<1>9. CASE CellsVanish \/ TearDown \/ HandleUnsubscribe
  BY <1>1, <1>9 DEF CellsVanish, TearDown, HandleUnsubscribe
<1>10. CASE OpenPlayer \/ ReadNothing \/ EndPlayback
  BY <1>1, <1>2, <1>10 DEF OpenPlayer, ReadNothing, EndPlayback
<1>11. CASE ReadSome
  <2> DEFINE n == Least(Buffered(position), Piece)
  <2>1. Buffered(position) \in Nat /\ position + Buffered(position) \in Position
    BY <1>1, BufferedBound
  <2>2. position + n \in Position
    BY <1>1, <2>1, CacheAssumption, PlacementAssumption DEF Least, Position
  <2> HIDE DEF n
  <2>3. position' = position + n
    BY <1>11 DEF ReadSome, n
  <2> QED
    BY <1>1, <1>11, <2>2, <2>3 DEF ReadSome
<1>12. CASE AskForMore
  <2>1. [from |-> position, len |-> OnDemand] \in [from : Position, len : Nat]
    BY <1>1, PlacementAssumption
  <2>2. wanted' \in SUBSET [from : Position, len : Nat]
    BY <1>1, <1>3, <1>12, <2>1 DEF AskForMore
  <2> QED
    BY <1>1, <1>12, <2>2 DEF AskForMore
<1>13. CASE Seek
  <2>1. Byte \subseteq Position
    BY <1>2 DEF Byte, Position
  <2> QED
    BY <1>1, <1>13, <2>1 DEF Seek
<1>14. CASE HandleEnd
  BY <1>1, <1>14 DEF HandleEnd
<1>15. ASSUME NEW q \in wanted, RangeToResponder(q) \/ RangeToSender(q) \/ RangeFromWindow(q)
       PROVE  TerminalTypeOK'
  BY <1>1, <1>15 DEF RangeToResponder, RangeToSender, RangeFromWindow
<1>16. CASE UNCHANGED som
  BY <1>1, <1>16
<1>17. CASE \/ PlayerStarts \/ HandleRegister \/ StreamChunk \/ PlayerHolds
            \/ ResponderReads \/ ResponderChunk \/ ResponderCleanup
            \/ PlayerLeaves \/ HandleStop \/ PlayerEnds
            \/ FetchBegins \/ FetchChecks \/ FetchReads \/ FetchFails
  BY <1>16, <1>17
     DEF PlayerStarts, HandleRegister, StreamChunk, PlayerHolds,
         ResponderReads, ResponderChunk, ResponderCleanup, PlayerLeaves, HandleStop,
         PlayerEnds, FetchBegins, FetchChecks, FetchReads, FetchFails
<1>18. CASE UNCHANGED vars
  BY <1>16, <1>18 DEF vars
<1> QED
  BY <1>4, <1>5, <1>6, <1>7, <1>8, <1>9, <1>10, <1>11, <1>12, <1>13, <1>14, <1>15, <1>17,
     <1>18
     DEF Next, RangeHandled

\* The variables of the progress buffer keep their types.
LEMMA ProgressTypeStep == Inv /\ [Next]_vars => ProgressTypeOK'
<1> SUFFICES ASSUME Inv, [Next]_vars PROVE ProgressTypeOK'
  OBVIOUS
<1> USE DEF som, progressState
<1>1. TerminalTypeOK /\ ProgressTypeOK /\ InboxInv
  BY DEF Inv, TypeOK
<1>2. BufferInv'
  BY BufferStep
<1> DEFINE Told == /\ seekTarget \in Position \cup {NoTarget}
                   /\ seenLen \in Position /\ seenTotal \in {0, Size}
                   /\ seenAny \in BOOLEAN /\ wholeAsked \in BOOLEAN
<1>3. Told /\ 0 \in Position
  BY <1>1, CacheAssumption DEF ProgressTypeOK, Position
<1> SUFFICES Told'
  BY <1>2 DEF BufferInv, ProgressTypeOK
<1>4. CASE HearProgress
  <2>1. Head(inbox).total \in {0, Size}
    BY <1>1, <1>4, HeadInPlace DEF HearProgress, Message
  <2> QED
    BY <1>3, <1>4, <2>1 DEF HearProgress
<1>5. CASE PublishFront
  BY <1>1, <1>3, <1>5 DEF PublishFront, TerminalTypeOK
<1>6. CASE Paint
  BY <1>3, <1>6 DEF Paint, WholeTarget, WholeIsDue
<1>7. CASE ReadSome
  BY <1>3, <1>7 DEF ReadSome
<1>8. CASE AskForMore
  BY <1>1, <1>3, <1>8 DEF AskForMore, ResetForSeek, TerminalTypeOK
<1>9. CASE UNCHANGED progressState
  BY <1>3, <1>9
<1>10. CASE \/ PlayerStarts \/ HandleRegister \/ StreamChunk \/ PlayerHolds
            \/ ResponderReads \/ ResponderChunk \/ ResponderCleanup
            \/ PlayerLeaves \/ HandleStop \/ PlayerEnds
            \/ FetchBegins \/ FetchChecks \/ FetchReads \/ FetchFails
  BY <1>9, <1>10
     DEF PlayerStarts, HandleRegister, StreamChunk, PlayerHolds,
         ResponderReads, ResponderChunk, ResponderCleanup, PlayerLeaves, HandleStop,
         PlayerEnds, FetchBegins, FetchChecks, FetchReads, FetchFails
<1>11. CASE \/ See \/ HandleSubscribe \/ HearWord \/ ListenerStops
            \/ CellsVanish \/ TearDown \/ HandleUnsubscribe
            \/ OpenPlayer \/ ReadNothing \/ Seek \/ EndPlayback \/ HandleEnd
  BY <1>9, <1>11
     DEF See, HandleSubscribe, HearWord, ListenerStops, CellsVanish, TearDown,
         HandleUnsubscribe, OpenPlayer, ReadNothing, Seek, EndPlayback, HandleEnd
<1>12. ASSUME NEW q \in wanted, RangeToResponder(q) \/ RangeToSender(q) \/ RangeFromWindow(q)
       PROVE  Told'
  BY <1>9, <1>12 DEF RangeToResponder, RangeToSender, RangeFromWindow
<1>13. CASE UNCHANGED vars
  BY <1>9, <1>13 DEF vars
<1> QED
  BY <1>4, <1>5, <1>6, <1>7, <1>8, <1>10, <1>11, <1>12, <1>13 DEF Next, RangeHandled

\* The rest of the cache keeps its types, and so do the notes.
LEMMA RestTypeStep ==
    Inv /\ [Next]_vars =>
        /\ CacheTypeOK'
        /\ late' \in BOOLEAN /\ revived' \in BOOLEAN /\ troubled' \in BOOLEAN
        /\ lost' \in SUBSET (Position \cup {Nobody})
<1> DEFINE Marks == /\ subscriber \in {"none", "listening", "removed", "closed"}
                    /\ stopped \in BOOLEAN /\ cancelled \in BOOLEAN /\ fetched \in BOOLEAN
                    /\ responderRoute \in BOOLEAN
                    /\ senderRoute \in {"none", "stream", "responder"}
           Notes == /\ late \in BOOLEAN /\ revived \in BOOLEAN /\ troubled \in BOOLEAN
                    /\ lost \in SUBSET (Position \cup {Nobody})
<1> SUFFICES ASSUME Inv, [Next]_vars PROVE CacheTypeOK' /\ Notes'
  BY DEF Nobody
<1> USE DEF cache, fetchMarks, routes, notes, Nobody
<1>1. Marks /\ Notes /\ known \in BOOLEAN
  BY DEF Inv, TypeOK, CacheTypeOK
<1>2. EntryInv' /\ InboxInv'
  BY CacheStep
<1> SUFFICES Marks' /\ Notes'
  BY <1>2 DEF CacheTypeOK, EntryInv, InboxInv
<1>3. CASE \/ StreamChunk \/ ResponderChunk \/ HandleRegister
  BY <1>1, <1>3 DEF StreamChunk, ResponderChunk, HandleRegister
<1>4. CASE PlayerLeaves \/ PlayerEnds
  BY <1>1, <1>4 DEF PlayerLeaves, PlayerEnds, Trouble
<1>5. CASE HandleStop \/ ResponderCleanup
  BY <1>1, <1>5 DEF HandleStop, ResponderCleanup, NotifyStopPlayback
<1>6. CASE FetchBegins \/ FetchFails
  BY <1>1, <1>6 DEF FetchBegins, BeginFetch, FetchFails, Trouble
<1>7. CASE FetchReads
  BY <1>1, <1>7 DEF FetchReads
<1>8. CASE HandleSubscribe
  BY <1>1, <1>8 DEF HandleSubscribe, Subscribe
<1>9. CASE HandleUnsubscribe
  BY <1>1, <1>9 DEF HandleUnsubscribe, Unsubscribe
<1>10. CASE HearProgress \/ PublishFront \/ HearWord \/ ListenerStops
  BY <1>1, <1>10 DEF HearProgress, PublishFront, HearWord, ListenerStops, ReadsOn, HangsUp
<1>11. CASE Seek \/ EndPlayback
  BY <1>1, <1>11 DEF Seek, EndPlayback, Trouble
<1>12. CASE HandleEnd
  BY <1>1, <1>12 DEF HandleEnd
<1>13. ASSUME NEW q \in wanted, RangeToResponder(q) \/ RangeToSender(q) \/ RangeFromWindow(q)
       PROVE  Marks' /\ Notes'
  <2>1. q.from \in Position
    BY DEF Inv, TypeOK, TerminalTypeOK
  <2> QED
    BY <1>1, <1>13, <2>1 DEF RangeToResponder, RangeToSender, RangeFromWindow
<1>14. CASE UNCHANGED <<subscriber, fetchMarks, routes, notes>>
  BY <1>1, <1>14
<1>15. CASE PlayerStarts \/ PlayerHolds \/ ResponderReads \/ FetchChecks
  BY <1>14, <1>15 DEF PlayerStarts, PlayerHolds, ResponderReads, FetchChecks
<1>16. CASE \/ See \/ Paint \/ CellsVanish \/ TearDown
            \/ OpenPlayer \/ ReadSome \/ ReadNothing \/ AskForMore
  BY <1>14, <1>16 DEF See, Paint, CellsVanish, TearDown,
                      OpenPlayer, ReadSome, ReadNothing, AskForMore
<1>17. CASE UNCHANGED vars
  BY <1>14, <1>17 DEF vars
<1> QED
  BY <1>3, <1>4, <1>5, <1>6, <1>7, <1>8, <1>9, <1>10, <1>11, <1>12, <1>13, <1>15, <1>16, <1>17
     DEF Next, RangeHandled

-----------------------------------------------------------------------------
(* The theorems.                                                           *)

\* At first nothing has come, nothing is asked for and nothing is fetched.
LEMMA InvInit == Init => Inv
<1> SUFFICES ASSUME Init PROVE Inv
  OBVIOUS
<1>1. Size \in Nat /\ Size > 0 /\ Window \in Nat /\ Room \in Nat /\ 0 \in Position
  BY CacheAssumption DEF Position
<1>2. <<>> \in Seq(Byte) /\ Len(<<>>) = 0 /\ <<>> \in Seq(Message)
      /\ <<>> \in Seq([from : Position, len : Nat])
  OBVIOUS
<1>3. EntryInv
  <2> USE DEF Init, CacheInit
  <2>1. RangesWait /\ FrontIsWhole
    BY DEF RangesWait, FrontIsWhole, Covered
  <2>2. OnlyArrivedIsOffered
    <3>1. InPlace(0, <<>>)
      BY <1>1, NothingInPlace
    <3> QED
      BY <1>1, <1>2, <3>1 DEF OnlyArrivedIsOffered, RecentEnd, InPlace
  <2>3. recentStart \in Position /\ recentBytes \in Seq(Byte) /\ Len(recentBytes) <= Window
    BY <1>1, <1>2
  <2>4. pendingRanges \in SUBSET (Position \X Position) /\ arrived \in SUBSET Byte
    OBVIOUS
  <2> QED
    BY <1>1, <2>1, <2>2, <2>3, <2>4 DEF EntryInv
<1>4. InboxInv
  BY <1>1, <1>2 DEF Init, CacheInit, InboxInv
<1>5. SourceTypeOK
  <2>1. 0 \in 0 .. StreamLen
    BY StreamIsPart, <1>1 DEF Position
  <2> QED
    BY <1>1, <1>2, <2>1 DEF Init, SourceTypeOK, Idle
<1>6. TerminalTypeOK
  BY <1>1, <1>2 DEF Init, TerminalTypeOK
<1>7. ProgressTypeOK /\ BufferInPlace
  <2>1. ProgressInit
    BY DEF Init
  <2>2. BufferInPlace
    BY <1>2, <2>1 DEF ProgressInit, BufferInPlace
  <2> QED
    BY <1>1, <1>2, <2>1, <2>2 DEF ProgressInit, ProgressTypeOK
<1>8. TypeOK
  BY <1>3, <1>4, <1>5, <1>6, <1>7
     DEF Init, CacheInit, TypeOK, CacheTypeOK, EntryInv, InboxInv
<1>9. UntilKnown /\ FetchedOnly /\ HeldOnly /\ ServesForward
  BY <1>1, <1>2
     DEF Init, CacheInit, ProgressInit, UntilKnown, FetchedOnly, HeldOnly, ServesForward, Idle
<1> QED
  BY <1>3, <1>4, <1>7, <1>8, <1>9 DEF Inv

\* The invariant is inductive.
LEMMA InvStep == Inv /\ [Next]_vars => Inv'
<1> SUFFICES ASSUME Inv, [Next]_vars PROVE Inv'
  OBVIOUS
<1>1. EntryInv' /\ InboxInv'
  BY CacheStep
<1>2. BufferInPlace'
  BY BufferStep DEF BufferInv
<1>3. TypeOK'
  BY SourceTypeStep, TerminalTypeStep, ProgressTypeStep, RestTypeStep DEF TypeOK, Nobody
<1>4. UntilKnown' /\ FetchedOnly' /\ HeldOnly' /\ ServesForward'
  BY UntilKnownStep, FetchedOnlyStep, HeldOnlyStep, ServesForwardStep
<1> QED
  BY <1>1, <1>2, <1>3, <1>4 DEF Inv

\* It holds in every state.
THEOREM InvHolds == Spec => []Inv
BY InvInit, InvStep, PTL DEF Spec

\* The variables of a placement, the daemon's, somsrp's and Som's, have their types
\* whatever happens to it: nothing runs over the end of the file, the window or the
\* pipe.
THEOREM TypeCorrect == Spec => []TypeOK
<1>1. Inv => TypeOK
  BY DEF Inv
<1> QED
  BY <1>1, InvHolds, PTL

\* The front and the pending ranges of put_chunk are exactly what has arrived,
\* however chunks are reordered, repeated or overlap.
THEOREM FrontCorrect == Spec => []FrontIsWhole
<1>1. Inv => FrontIsWhole
  BY DEF Inv, EntryInv
<1> QED
  BY <1>1, InvHolds, PTL

\* Nothing is offered that has not arrived, neither by the tail nor by the window
\* that serve_from_recent_bytes answers from.
THEOREM OfferedCorrect == Spec => []OnlyArrivedIsOffered
<1>1. Inv => OnlyArrivedIsOffered
  BY DEF Inv, EntryInv
<1> QED
  BY <1>1, InvHolds, PTL

\* A reader of Som's buffer gets the file's bytes, each in its place, however
\* replies, seeks and the stream are mixed.
THEOREM BufferCorrect == Spec => []BufferInPlace
<1>1. Inv => BufferInPlace
  BY DEF Inv
<1> QED
  BY <1>1, InvHolds, PTL
=============================================================================
