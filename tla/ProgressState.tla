---------------------------- MODULE ProgressState ----------------------------
(***************************************************************************)
(* What Som keeps of one placement (SrvProgressState): the bytes it has    *)
(* got and not yet dropped, as one run of the file, and how far the daemon *)
(* says the file has come.                                                 *)
(*                                                                         *)
(* The listener's thread appends, a reader's thread reads, drops and seeks,*)
(* and the paint thread asks for what is missing, all at the same time.    *)
(* Each operator is what one method does under the buffer's lock.          *)
(***************************************************************************)
EXTENDS Naturals, Sequences

CONSTANTS
    Keep,       \* CONSUMED_RETENTION_WINDOW, LIVE_CONSUMED_RETENTION
    NoTarget    \* no on-demand request was ever made

ASSUME ProgressAssumption == Keep \in Nat /\ NoTarget \notin Nat

VARIABLES
    buffer,         \* the bytes, each as its position in the file
    bufferStart,    \* buffer_start_offset
    seekTarget,     \* pending_seek_target
    seenLen,        \* contiguous_len
    seenTotal,      \* total_size
    seenAny,        \* has a Progress come, and its metadata with it?
    wholeAsked      \* whole_range_requested

progressState == <<buffer, bufferStart, seekTarget, seenLen, seenTotal, seenAny, wholeAsked>>

ProgressInit ==
    /\ buffer = <<>> /\ bufferStart = 0
    /\ seekTarget = NoTarget
    /\ seenLen = 0 /\ seenTotal = 0 /\ seenAny = FALSE
    /\ wholeAsked = FALSE

BufferTail == bufferStart + Len(buffer)

\* read_buffered: how many bytes there are from a position on.
Buffered(position) ==
    IF position < bufferStart \/ position >= BufferTail THEN 0 ELSE BufferTail - position

\* (mutant) Only what follows the buffer's tail is taken.
AppendOnlyAtTail(at, data) ==
    IF data # <<>> /\ (buffer = <<>> \/ at = BufferTail)
    THEN /\ buffer' = buffer \o data
         /\ bufferStart' = IF buffer = <<>> THEN at ELSE bufferStart
    ELSE UNCHANGED <<buffer, bufferStart>>

\* (mutant) A chunk from further on is appended too.
AppendAhead(at, data) ==
    IF data = <<>> \/ (buffer # <<>> /\ at < BufferTail /\ at # seekTarget)
    THEN UNCHANGED <<buffer, bufferStart>>
    ELSE IF buffer = <<>> \/ at = seekTarget
    THEN buffer' = data /\ bufferStart' = at
    ELSE buffer' = buffer \o data /\ UNCHANGED bufferStart

\* append_chunk: to an empty buffer, at its tail, or as the answer to the last
\* on-demand request, which the buffer then starts from anew.  Any other chunk
\* is dropped whole.
AppendChunk(at, data) ==
    IF data = <<>> THEN UNCHANGED <<buffer, bufferStart>>
    ELSE IF buffer # <<>> /\ at = BufferTail
    THEN buffer' = buffer \o data /\ UNCHANGED bufferStart
    ELSE IF buffer = <<>> \/ at = seekTarget
    THEN buffer' = data /\ bufferStart' = at
    ELSE UNCHANGED <<buffer, bufferStart>>

\* advance_consumed_up_to: what lies further back than Keep goes.
AdvanceConsumed(position) ==
    LET drop == IF position <= bufferStart + Keep THEN 0
                ELSE IF position - Keep - bufferStart < Len(buffer)
                THEN position - Keep - bufferStart ELSE Len(buffer)
    IN  /\ buffer' = SubSeq(buffer, drop + 1, Len(buffer))
        /\ bufferStart' = bufferStart + drop

ResetForSeek(position) ==
    /\ buffer' = <<>>
    /\ seekTarget' = position

\* bytes_received_so_far: what a picture is decoded from.
Received ==
    LET len == IF seenLen <= bufferStart THEN 0
               ELSE IF seenLen - bufferStart < Len(buffer) THEN seenLen - bufferStart
               ELSE Len(buffer)
    IN  SubSeq(buffer, 1, len)

\* request_whole_range_once_if_needed: is it due?  A buffer that does not start
\* with the file lets the answer in, an empty one takes what comes first.
WholeIsDue == seenLen > 0 /\ ~wholeAsked /\ (buffer = <<>> \/ bufferStart # 0)
WholeTarget == IF buffer # <<>> THEN 0 ELSE seekTarget
WholeLen == IF seenTotal > seenLen THEN seenTotal ELSE seenLen

\* The buffer is one run of the file, each byte in its place, however replies,
\* seeks and the sequential stream are mixed: a reader gets the file's bytes.
BufferInPlace == \A i \in 1 .. Len(buffer) : buffer[i] = bufferStart + i - 1
=============================================================================
