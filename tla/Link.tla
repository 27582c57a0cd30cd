-------------------------------- MODULE Link --------------------------------
(***************************************************************************)
(* The link: Som's channels to the daemon of a remote machine, carried in  *)
(* the pty of a tab that runs there (link/endpoint.rs, link/frame.rs).     *)
(*                                                                         *)
(* Som's end (SrvLink) opens channels; the relay's end (LinkHub) makes a   *)
(* connection to the daemon for each, with a reader thread of its own.     *)
(* Each end numbers the frames it sends, and decodes those it gets.  A     *)
(* frame that does not read is a break: the end that sees it forgets all   *)
(* its channels and tells the other to do so too.                          *)
(*                                                                         *)
(* What Som writes fits one frame; an answer takes as many as the plan     *)
(* says.                                                                   *)
(* Answers of several frames are compressed, so a piece of one alone does  *)
(* not decompress.  The relay lives as long as the pty it is in.           *)
(***************************************************************************)
EXTENDS Naturals, Sequences

CONSTANTS
    Channel,    \* Som's channels, as SrvLink numbers them
    Plans,      \* bound: what is written and answered on each channel, in several ways
    SeqMod,     \* frame numbers wrap around (2^32)
    NoSeq,      \* a decoder that has seen no frame since it was reset
    MaxFaults,  \* bound: frames lost, repeated or damaged in the pty
    FailsLater  \* bound: may that happen when an end has already started over?

ASSUME LinkAssumption ==
    /\ Channel \subseteq Nat \ {0} /\ MaxFaults \in Nat /\ FailsLater \in BOOLEAN
    /\ \A p \in Plans :
        /\ p.writes \in [Channel -> Nat]
        /\ p.parts \in [Channel -> Seq(Nat \ {0})]
    /\ SeqMod \in Nat \ {0}
    /\ NoSeq \notin 0 .. SeqMod - 1

\* A connection of the hub's, by its channel and the message it was made for.
Message == UNION {1 .. p.writes[c] : c \in Channel, p \in Plans}
Conn == Channel \X Message

VARIABLES
    plan,       \* the plan of this run: it never changes
    ready,      \* has Som had the relay's Hello?
    channel,    \* Som's channels: it holds the open ones in its map
    wrote,      \* messages the user of a channel has written
    writing,    \* the last of them passed write_message's check and is not sent yet
    heard,      \* the answers the user of a channel has got
    somDecoder, \* Som's decoder
    somResets,  \* Som has dropped its channels and has yet to send Reset
    toRelay,    \* frames in the pty's input
    toSom,      \* frames in the pty's output
    nextSeq,    \* the number of the next frame of each end
    hubDecoder, \* the hub's decoder
    hubResets,  \* the hub has closed its connections and has yet to send Reset
    entry,      \* the hub's map: the connection of a channel, by its message; 0: none
    conn,       \* each connection to the daemon
    asked,      \* messages that the daemon has got on a connection that it serves
    said,       \* answers it has given there
    reader,     \* the reader thread of each connection
    sent,       \* frames it has sent
    faults,     \* what has gone wrong in the pty so far
    broken      \* has an end ever started over? (for the properties)

users == <<channel, wrote, writing, heard>>
som == <<ready, users, somDecoder, somResets>>
pty == <<toRelay, toSom, nextSeq, faults>>
daemon == <<conn, asked, said>>
readers == <<reader, sent>>
hub == <<hubDecoder, hubResets, entry>>
state == <<som, pty, daemon, readers, hub, broken>>
vars == <<plan, state>>

Garbled == 0

\* The messages Som writes on each channel, and the daemon's answers there, as
\* counts of frames.
Writes == plan.writes
Parts == plan.parts

Frame ==
    [seq : 0 .. SeqMod - 1, kind : {"hello", "reset", "data", "close"},
     channel : {0} \cup Channel, message : Nat, part : Nat, of : Nat]
Decoder ==
    [last : {NoSeq} \cup (0 .. SeqMod - 1), partial : [Channel -> Seq(Nat \X Nat)]]

TypeOK ==
    /\ plan \in Plans
    /\ ready \in BOOLEAN
    /\ channel \in [Channel -> {"new", "open", "ended", "dropped", "closed"}]
    /\ wrote \in [Channel -> Nat] /\ heard \in [Channel -> Seq(Nat)]
    /\ asked \in [Channel -> Nat] /\ said \in [Channel -> Nat]
    /\ entry \in [Channel -> Nat] /\ sent \in [Channel -> [answer : Nat, part : Nat]]
    /\ \A c \in Channel :
        /\ wrote[c] \in 0 .. Writes[c] /\ asked[c] \in 0 .. Writes[c]
        /\ entry[c] \in 0 .. Writes[c]
        /\ said[c] \in 0 .. Len(Parts[c])
        /\ heard[c] \in Seq({Garbled} \cup 1 .. Len(Parts[c]))
        /\ sent[c].answer \in 0 .. Len(Parts[c])
    /\ writing \in [Channel -> BOOLEAN]
    /\ somDecoder \in Decoder /\ hubDecoder \in Decoder
    /\ somResets \in BOOLEAN /\ hubResets \in BOOLEAN /\ broken \in BOOLEAN
    /\ toRelay \in Seq(Frame) /\ toSom \in Seq(Frame)
    /\ nextSeq \in [som : 0 .. SeqMod - 1, hub : 0 .. SeqMod - 1]
    /\ faults \in 0 .. MaxFaults
    /\ conn \in [Conn -> {"none", "open", "hungup", "shut"}]
    /\ reader \in [Conn -> {"none", "reading", "reporting", "done"}]

Fresh == [last |-> NoSeq, partial |-> [c \in Channel |-> <<>>]]

-----------------------------------------------------------------------------
(* Frames.                                                                 *)

\* (mutant) The frame numbers are not kept to their width.
NextNumberWide(seq) == seq + 1

NextNumber(seq) == (seq + 1) % SeqMod

Data(c, m, i, n) == [kind |-> "data", channel |-> c, message |-> m, part |-> i, of |-> n]
Note(kind, c) == [kind |-> kind, channel |-> c, message |-> 0, part |-> 1, of |-> 1]

Sealed(seq, part) ==
    [seq |-> seq, kind |-> part.kind, channel |-> part.channel, message |-> part.message,
     part |-> part.part, of |-> part.of]

\* One frame is numbered and written under the encoder's lock.
SomSends(part) ==
    /\ toRelay' = Append(toRelay, Sealed(nextSeq.som, part))
    /\ nextSeq' = [nextSeq EXCEPT !.som = NextNumber(@)]
    /\ UNCHANGED <<toSom, faults>>

HubSends(queue, part) ==
    /\ toSom' = Append(queue, Sealed(nextSeq.hub, part))
    /\ nextSeq' = [nextSeq EXCEPT !.hub = NextNumber(@)]

\* The pty hands the frame at the head of a queue on, or hands it on twice ...
CanFail == faults < MaxFaults /\ (broken => FailsLater)
HandsOn(queue, rest) ==
    \/ rest = Tail(queue) /\ UNCHANGED faults
    \/ CanFail /\ rest = queue /\ faults' = faults + 1

\* ... or damaged.
HandsOnDamaged(queue, rest) == CanFail /\ rest = Tail(queue) /\ faults' = faults + 1

\* (mutant) A frame that comes twice is taken twice.
RepeatTaken(decoder, f) == FALSE

Repeated(decoder, f) == f.kind # "reset" /\ f.seq = decoder.last

Gap(decoder, f) ==
    /\ f.kind # "reset" /\ decoder.last # NoSeq
    /\ f.seq \notin {decoder.last, NextNumber(decoder.last)}

Pieces(decoder, f) == Append(decoder.partial[f.channel], <<f.message, f.part>>)
IsWhole(decoder, f) == Pieces(decoder, f) = [i \in 1 .. f.of |-> <<f.message, i>>]

\* The last frame of a compressed message, and what came before is not the rest
\* of it.
Torn(decoder, f) ==
    f.kind = "data" /\ f.part = f.of /\ f.of > 1 /\ ~IsWhole(decoder, f)

Breaks(decoder, f) ==
    \/ Gap(decoder, f)
    \/ ~Repeated(decoder, f) /\ Torn(decoder, f)

Completes(decoder, f) == ~Repeated(decoder, f) /\ f.part = f.of

\* The decoder after a frame that is not broken.
Decoded(decoder, f) ==
    IF Repeated(decoder, f) THEN decoder
    ELSE [last |-> f.seq,
          partial |-> IF f.kind \in {"hello", "reset"} THEN Fresh.partial
                      ELSE [decoder.partial EXCEPT ![f.channel] =
                                IF f.part < f.of THEN Pieces(decoder, f) ELSE <<>>]]

-----------------------------------------------------------------------------
Init ==
    /\ plan \in Plans
    /\ ready = FALSE
    /\ channel = [c \in Channel |-> "new"]
    /\ wrote = [c \in Channel |-> 0]
    /\ writing = [c \in Channel |-> FALSE]
    /\ heard = [c \in Channel |-> <<>>]
    /\ somDecoder = Fresh /\ hubDecoder = Fresh
    /\ somResets = FALSE /\ hubResets = FALSE /\ broken = FALSE
    /\ toRelay = <<>>
    /\ toSom = <<Sealed(0, Note("hello", 0))>>      \* LinkHub::announce
    /\ nextSeq = [som |-> 0, hub |-> NextNumber(0)]
    /\ faults = 0
    /\ entry = [c \in Channel |-> 0]
    /\ conn = [k \in Conn |-> "none"]
    /\ asked = [c \in Channel |-> 0]
    /\ said = [c \in Channel |-> 0]
    /\ reader = [k \in Conn |-> "none"]
    /\ sent = [c \in Channel |-> [answer |-> 0, part |-> 0]]

-----------------------------------------------------------------------------
(* The users of Som's channels.                                            *)

OpenChannel(c) ==
    /\ ready /\ channel[c] = "new" /\ Writes[c] > 0
    /\ \A d \in Channel : d < c => channel[d] # "new"
    /\ channel' = [channel EXCEPT ![c] = "open"]
    /\ UNCHANGED <<ready, wrote, writing, heard, somDecoder, somResets,
                   pty, daemon, readers, hub, broken>>

\* write_message finds the channel in the map ...
StartWrite(c) ==
    /\ channel[c] = "open" /\ ~writing[c] /\ wrote[c] < Writes[c]
    /\ wrote' = [wrote EXCEPT ![c] = @ + 1]
    /\ writing' = [writing EXCEPT ![c] = TRUE]
    /\ UNCHANGED <<ready, channel, heard, somDecoder, somResets,
                   pty, daemon, readers, hub, broken>>

\* ... and sends, whatever has become of the channel.
FinishWrite(c) ==
    /\ writing[c]
    /\ writing' = [writing EXCEPT ![c] = FALSE]
    /\ SomSends(Data(c, wrote[c], 1, 1))
    /\ UNCHANGED <<ready, channel, wrote, heard, somDecoder, somResets,
                   daemon, readers, hub, broken>>

\* The channel is dropped: out of the map first ...
DropChannel(c) ==
    /\ channel[c] \in {"open", "ended"} /\ ~writing[c]
    /\ channel' = [channel EXCEPT ![c] = IF @ = "open" THEN "dropped" ELSE "closed"]
    /\ UNCHANGED <<ready, wrote, writing, heard, somDecoder, somResets,
                   pty, daemon, readers, hub, broken>>

\* (mutant) The other end is not told.
SayClosedNever(c) ==
    /\ channel[c] = "dropped"
    /\ channel' = [channel EXCEPT ![c] = "closed"]
    /\ UNCHANGED <<ready, wrote, writing, heard, somDecoder, somResets,
                   pty, daemon, readers, hub, broken>>

\* ... then Close, if it was still in there.
SayClosed(c) ==
    /\ channel[c] = "dropped"
    /\ channel' = [channel EXCEPT ![c] = "closed"]
    /\ SomSends(Note("close", c))
    /\ UNCHANGED <<ready, wrote, writing, heard, somDecoder, somResets,
                   daemon, readers, hub, broken>>

-----------------------------------------------------------------------------
(* Som's end.                                                              *)

NoChannels == [c \in Channel |-> IF channel[c] = "open" THEN "ended" ELSE channel[c]]

\* on_frame, for a frame that reads.
SomTakes ==
    /\ toSom # <<>> /\ ~somResets /\ ~Breaks(somDecoder, Head(toSom))
    /\ HandsOn(toSom, toSom')
    /\ LET f == Head(toSom) IN
        /\ somDecoder' = Decoded(somDecoder, f)
        /\ ready' = (ready \/ (f.kind = "hello" /\ Completes(somDecoder, f)))
        /\ channel' =
            IF ~Completes(somDecoder, f) THEN channel
            ELSE IF f.kind \in {"hello", "reset"} THEN NoChannels
            ELSE IF f.kind = "close" /\ channel[f.channel] = "open"
            THEN [channel EXCEPT ![f.channel] = "ended"]
            ELSE channel
        /\ heard' =
            IF /\ f.kind = "data" /\ Completes(somDecoder, f)
               /\ channel[f.channel] = "open"
            THEN [heard EXCEPT ![f.channel] =
                    Append(@, IF IsWhole(somDecoder, f) THEN f.message ELSE Garbled)]
            ELSE heard
    /\ UNCHANGED <<wrote, writing, somResets, toRelay, nextSeq, daemon, readers, hub, broken>>

\* recover: everything here is forgotten ...
SomBreaks ==
    /\ toSom # <<>> /\ ~somResets
    /\ \/ Breaks(somDecoder, Head(toSom)) /\ HandsOn(toSom, toSom')
       \/ HandsOnDamaged(toSom, toSom')
    /\ somDecoder' = Fresh
    /\ channel' = NoChannels
    /\ somResets' = TRUE
    /\ broken' = TRUE
    /\ UNCHANGED <<ready, wrote, writing, heard, toRelay, nextSeq, daemon, readers, hub>>

\* ... and then the relay is told.
SomSaysReset ==
    /\ somResets
    /\ somResets' = FALSE
    /\ SomSends(Note("reset", 0))
    /\ UNCHANGED <<ready, users, somDecoder, daemon, readers, hub, broken>>

-----------------------------------------------------------------------------
(* The hub.                                                                *)

\* connection.shutdown() for the connections of a set of channels, and their
\* entries go.
Shutdown(closing) ==
    /\ entry' = [c \in Channel |-> IF c \in closing THEN 0 ELSE entry[c]]
    /\ conn' = [k \in Conn |-> IF k[1] \in closing /\ entry[k[1]] = k[2]
                               THEN "shut" ELSE conn[k]]

HubReads(f) ==
    /\ toRelay # <<>> /\ ~hubResets
    /\ f = Head(toRelay)
    /\ HandsOn(toRelay, toRelay')

\* A frame that completes nothing.
HubSkips ==
    /\ toRelay # <<>> /\ HubReads(Head(toRelay))
    /\ Repeated(hubDecoder, Head(toRelay))
    /\ UNCHANGED <<som, toSom, nextSeq, daemon, readers, hub, broken>>

\* Reset and Close.
HubCloses ==
    /\ toRelay # <<>>
    /\ LET f == Head(toRelay) IN
        /\ HubReads(f)
        /\ ~Breaks(hubDecoder, f) /\ Completes(hubDecoder, f)
        /\ f.kind \in {"reset", "close"}
        /\ hubDecoder' = Decoded(hubDecoder, f)
        /\ Shutdown(IF f.kind = "reset" THEN Channel ELSE {f.channel})
    /\ UNCHANGED <<som, toSom, nextSeq, asked, said, readers, hubResets, broken>>

\* deliver: to the channel's connection, ...
HubDelivers ==
    /\ toRelay # <<>>
    /\ LET f == Head(toRelay)
           k == <<f.channel, entry[f.channel]>> IN
        /\ HubReads(f)
        /\ ~Breaks(hubDecoder, f) /\ Completes(hubDecoder, f)
        /\ f.kind = "data" /\ entry[f.channel] # 0 /\ conn[k] = "open"
        /\ hubDecoder' = Decoded(hubDecoder, f)
        /\ asked' = IF k[2] = 1 THEN [asked EXCEPT ![f.channel] = f.message] ELSE asked
    /\ UNCHANGED <<som, toSom, nextSeq, conn, said, readers, hubResets, entry, broken>>

\* ... to a new one when it has none, ...
HubConnects ==
    /\ toRelay # <<>>
    /\ LET f == Head(toRelay)
           k == <<f.channel, f.message>> IN
        /\ HubReads(f)
        /\ ~Breaks(hubDecoder, f) /\ Completes(hubDecoder, f)
        /\ f.kind = "data" /\ entry[f.channel] = 0
        /\ hubDecoder' = Decoded(hubDecoder, f)
        /\ entry' = [entry EXCEPT ![f.channel] = f.message]
        /\ conn' = [conn EXCEPT ![k] = "open"]
        /\ reader' = [reader EXCEPT ![k] = "reading"]
        /\ asked' = IF f.message = 1 THEN [asked EXCEPT ![f.channel] = 1] ELSE asked
    /\ UNCHANGED <<som, toSom, nextSeq, said, sent, hubResets, broken>>

\* ... or to none: the daemon cannot be reached, or has hung up.
HubCannotDeliver ==
    /\ toRelay # <<>>
    /\ LET f == Head(toRelay)
           k == <<f.channel, entry[f.channel]>> IN
        /\ HubReads(f)
        /\ ~Breaks(hubDecoder, f) /\ Completes(hubDecoder, f)
        /\ f.kind = "data" /\ (entry[f.channel] # 0 => conn[k] = "hungup")
        /\ hubDecoder' = Decoded(hubDecoder, f)
        /\ Shutdown({f.channel})
        /\ HubSends(toSom, Note("close", f.channel))
    /\ UNCHANGED <<som, asked, said, readers, hubResets, broken>>

HubBreaks ==
    /\ toRelay # <<>> /\ ~hubResets
    /\ \/ Breaks(hubDecoder, Head(toRelay)) /\ HandsOn(toRelay, toRelay')
       \/ HandsOnDamaged(toRelay, toRelay')
    /\ hubDecoder' = Fresh
    /\ Shutdown(Channel)
    /\ hubResets' = TRUE
    /\ broken' = TRUE
    /\ UNCHANGED <<som, toSom, nextSeq, asked, said, readers>>

HubSaysReset ==
    /\ hubResets
    /\ hubResets' = FALSE
    /\ HubSends(toSom, Note("reset", 0))
    /\ UNCHANGED <<som, toRelay, faults, daemon, readers, hubDecoder, entry, broken>>

-----------------------------------------------------------------------------
(* The daemon at the other end of the connections, and their readers.      *)

\* It serves a connection that begins with the channel's first message.
DaemonAnswers(c) ==
    /\ conn[<<c, 1>>] = "open" /\ said[c] < Len(Parts[c])
    /\ said' = [said EXCEPT ![c] = @ + 1]
    /\ UNCHANGED <<som, pty, conn, asked, readers, hub, broken>>

\* It ends a connection when it is through with it, or is gone itself.
DaemonHangsUp(k) ==
    /\ conn[k] = "open"
    /\ conn' = [conn EXCEPT ![k] = "hungup"]
    /\ UNCHANGED <<som, pty, asked, said, readers, hub, broken>>

\* The reader has read an answer and sends it, frame by frame.
MidAnswer(k) == k[2] = 1 /\ sent[k[1]].part > 0

ReaderSends(c) ==
    /\ reader[<<c, 1>>] = "reading"
    /\ \/ MidAnswer(<<c, 1>>)
       \/ sent[c].answer < said[c]
    /\ LET a == IF MidAnswer(<<c, 1>>) THEN sent[c].answer ELSE sent[c].answer + 1
           i == sent[c].part + 1 IN
        /\ HubSends(toSom, Data(c, a, i, Parts[c][a]))
        /\ sent' = [sent EXCEPT ![c] = [answer |-> a, part |-> i % Parts[c][a]]]
    /\ UNCHANGED <<som, toRelay, faults, daemon, reader, hub, broken>>

\* There is nothing more to read: the channel's entry goes, whichever
\* connection it is ...
ReaderEnds(k) ==
    /\ reader[k] = "reading" /\ ~MidAnswer(k)
    /\ \/ conn[k] = "shut"
       \/ conn[k] = "hungup" /\ (k[2] = 1 => sent[k[1]].answer = said[k[1]])
    /\ entry' = [entry EXCEPT ![k[1]] = 0]
    /\ reader' = [reader EXCEPT ![k] = IF entry[k[1]] # 0 THEN "reporting" ELSE "done"]
    /\ UNCHANGED <<som, pty, daemon, sent, hubDecoder, hubResets, broken>>

\* (mutant) The entry goes, and Som is not told.
ReaderReportsNothing(k) ==
    /\ reader[k] = "reporting"
    /\ reader' = [reader EXCEPT ![k] = "done"]
    /\ UNCHANGED <<som, pty, daemon, sent, hub, broken>>

\* ... and Som is told that the daemon hung up, if there was one.
ReaderReports(k) ==
    /\ reader[k] = "reporting"
    /\ reader' = [reader EXCEPT ![k] = "done"]
    /\ HubSends(toSom, Note("close", k[1]))
    /\ UNCHANGED <<som, toRelay, faults, daemon, sent, hub, broken>>

-----------------------------------------------------------------------------
(* A frame that the pty neither loses nor hands on waits in its queue.      *)

PtyLoses ==
    /\ CanFail
    /\ faults' = faults + 1
    /\ \/ toSom # <<>> /\ toSom' = Tail(toSom) /\ UNCHANGED toRelay
       \/ toRelay # <<>> /\ toRelay' = Tail(toRelay) /\ UNCHANGED toSom
    /\ UNCHANGED <<som, nextSeq, daemon, readers, hub, broken>>

-----------------------------------------------------------------------------
UserStep(c) == OpenChannel(c) \/ StartWrite(c) \/ DropChannel(c)

SomStep == SomTakes \/ SomBreaks \/ SomSaysReset

HubStep ==
    \/ HubSkips \/ HubCloses \/ HubDelivers \/ HubConnects \/ HubCannotDeliver
    \/ HubBreaks \/ HubSaysReset

DaemonStep(k) ==
    \/ k[2] = 1 /\ DaemonAnswers(k[1])
    \/ DaemonHangsUp(k)

ReaderStep(k) ==
    \/ k[2] = 1 /\ ReaderSends(k[1])
    \/ ReaderEnds(k) \/ ReaderReports(k)

Next ==
    /\ UNCHANGED plan
    /\ \/ \E c \in Channel : UserStep(c) \/ FinishWrite(c) \/ SayClosed(c)
       \/ \E k \in Conn : DaemonStep(k) \/ ReaderStep(k)
       \/ SomStep \/ HubStep \/ PtyLoses

Spec == Init /\ [][Next]_vars

\* The threads run, and the daemon ends a connection that does not begin as one
\* should.  Nothing is assumed of the users, of the daemon's answers, or of the
\* pty but that it hands on what it does not lose.
Fairness ==
    /\ WF_state(SomStep) /\ WF_state(HubStep)
    /\ \A c \in Channel : WF_state(FinishWrite(c)) /\ WF_state(SayClosed(c))
    /\ \A k \in Conn :
        /\ WF_state(ReaderStep(k))
        /\ WF_state(k[2] # 1 /\ DaemonHangsUp(k))

FairSpec == Spec /\ Fairness

-----------------------------------------------------------------------------
(* Properties.                                                             *)

Promise == INSTANCE Conversation WITH open <- [c \in Channel |-> channel[c] = "open"]

\* The link keeps what a connection to the daemon promises, though frames of
\* several channels are mixed and one may be lost, repeated or damaged: no
\* message is skipped, repeated or garbled, either way.
KeepsPromise == Promise!Spec

\* A link that carried what it was given never takes its stream for broken
\* (StreamBroken: a frame was damaged, or is missing).
BreakOnlyWhenDamaged == broken => faults > 0

Undisturbed == [](faults = 0 /\ ~broken)

\* A channel that Som is through with leaves no connection to the daemon
\* behind, if nothing was lost and the link not started over meanwhile.
Abandoned(c) == channel[c] = "closed"
Forgotten(c) ==
    /\ entry[c] = 0
    /\ \A m \in Message : conn[<<c, m>>] # "open" /\ reader[<<c, m>>] \in {"none", "done"}
NothingLeftBehind ==
    Undisturbed => \A c \in Channel : <>[]Abandoned(c) => <>[]Forgotten(c)

\* When the connection of a channel ends, whoever reads the channel is told, if
\* nothing was lost and the link not started over meanwhile.
Ended(c) == conn[<<c, 1>>] \in {"hungup", "shut"}
Told(c) == Ended(c) ~> channel[c] # "open"
HangUpIsHeard == Undisturbed => \A c \in Channel : Told(c)

\* A channel opened after a break, with nothing lost since, starts clean: when
\* its connection ends, whoever reads it is told (recover: "so the channels that
\* are opened next start clean").
NextChannelsStartClean ==
    \A c \in Channel : <>(broken /\ faults = MaxFaults /\ channel[c] = "new") => Told(c)
=============================================================================
