-------------------------- MODULE LinkOrderProofs --------------------------
(***************************************************************************)
(* The link keeps its promise: a proof that Link implements Conversation.  *)
(*                                                                         *)
(* Of each direction, the frames that are still to be taken are in order,  *)
(* and while no number is missing they are all that is left to be taken.   *)
(***************************************************************************)
EXTENDS LinkProofs

\* Fewer frames go wrong than there are numbers for them.
NoWrap == MaxFaults + 2 <= SeqMod

Numbers ==
    /\ Numbered(toRelay, nextSeq.som, hubDecoder.last, faults)
    /\ Numbered(toSom, nextSeq.hub, somDecoder.last, faults)

\* Before its first frame an end has nothing to lose.
Ready ==
    /\ ~ready => \A c \in Channel : channel[c] = "new"
    /\ ready /\ ~broken => somDecoder.last # NoSeq
    /\ hubDecoder.last = NoSeq => \A c \in Channel : entry[c] = 0

-----------------------------------------------------------------------------
(* What Som writes.                                                        *)

AskLive(c) == Live(toRelay, hubDecoder.last, c)

\* The messages on their way are the last ones sent, in order.
AskOrder(c) ==
    /\ \A i, j \in AskLive(c) : i < j => toRelay[i].message < toRelay[j].message
    /\ \A i \in AskLive(c) : \A m \in toRelay[i].message .. Sent(c) :
            \E j \in AskLive(c) : toRelay[j].message = m
    /\ \A i \in AskLive(c) : toRelay[i].message = 1 => asked[c] = 0

\* The connection that the daemon serves gets those that it has not got yet.
AskNext(c) ==
    entry[c] = 1 =>
        /\ \A i \in AskLive(c) : asked[c] < toRelay[i].message
        /\ Whole(toRelay, nextSeq.som, hubDecoder.last) =>
            \A m \in asked[c] + 1 .. Sent(c) : \E i \in AskLive(c) : toRelay[i].message = m

-----------------------------------------------------------------------------
(* What the daemon answers.                                                *)

HearLive(c) == Live(toSom, somDecoder.last, c)

\* Piece i of answer a comes before piece j of answer b.
Before(a, i, b, j) == a < b \/ (a = b /\ i < j)

\* The pieces of answers on their way are in order.
Sorted(q, l, c) ==
    \A i, j \in Live(q, l, c) : i < j => Before(q[i].message, q[i].part, q[j].message, q[j].part)

\* The first k pieces of answer a.
FirstPieces(a, k) == [i \in 1 .. k |-> <<a, i>>]

\* A channel that is getting answer a, of answers that take w frames, has got p
\* pieces of it.  What the decoder holds is the beginning of that answer, ...
Begun(held, a, p, w) ==
    /\ held = FirstPieces(a, p)
    /\ p > 0 => a \in 1 .. Len(w) /\ p < w[a]

\* ... what the channel has got was sent, ...
Gotten(s, a, p) ==
    \/ a < s.answer
    \/ a = s.answer /\ (s.part = 0 \/ p <= s.part)
    \/ a = s.answer + 1 /\ s.part = 0 /\ p = 0

\* ... and what was sent and the channel has not got is on its way, if nothing
\* is missing.
IsSent(s, a, p) == a < s.answer \/ (a = s.answer /\ (s.part = 0 \/ p <= s.part))
Arriving(q, n, l, c, a, p, s, w) ==
    /\ \A i \in Live(q, l, c) : Before(a, p, q[i].message, q[i].part)
    /\ Whole(q, n, l) =>
        \A b \in 1 .. Len(w) : \A k \in 1 .. w[b] :
            IsSent(s, b, k) /\ Before(a, p, b, k)
                => \E i \in Live(q, l, c) : q[i].message = b /\ q[i].part = k

\* The answer that a channel is getting, and how many pieces of it it has got.
Current(c) == Len(heard[c]) + 1
Position(c) == Len(somDecoder.partial[c])

HearOrder(c) == Sorted(toSom, somDecoder.last, c)
Hearing(c) ==
    channel[c] = "open" =>
        /\ Begun(somDecoder.partial[c], Current(c), Position(c), Parts[c])
        /\ Gotten(sent[c], Current(c), Position(c))
        /\ Arriving(toSom, nextSeq.hub, somDecoder.last, c, Current(c), Position(c),
                    sent[c], Parts[c])

Inv ==
    /\ TypeInv /\ Numbers /\ Ready
    /\ \A c \in Channel : AskOrder(c) /\ AskNext(c) /\ HearOrder(c) /\ Hearing(c)


-----------------------------------------------------------------------------
(* The steps, seen from the direction to the relay.                        *)

\* The directions, and how much more may go wrong.
LEMMA Ways ==
    ASSUME TypeOK, Numbers, NoWrap
    PROVE  /\ Direction(toRelay, nextSeq.som, hubDecoder.last, faults)
           /\ Direction(toSom, nextSeq.hub, somDecoder.last, faults)
           /\ faults \in Nat /\ SeqMod \in Nat /\ (faults < MaxFaults => faults + 3 <= SeqMod)
<1>1. MaxFaults \in Nat /\ faults \in 0 .. MaxFaults /\ SeqMod \in Nat
  BY LinkAssumption DEF TypeOK
<1>2. faults \in Nat /\ faults + 2 <= SeqMod /\ (faults < MaxFaults => faults + 3 <= SeqMod)
  BY <1>1 DEF NoWrap
<1>3. /\ toRelay \in Seq(Frame) /\ toSom \in Seq(Frame)
      /\ nextSeq.som \in 0 .. SeqMod - 1 /\ nextSeq.hub \in 0 .. SeqMod - 1
      /\ hubDecoder.last \in {NoSeq} \cup 0 .. SeqMod - 1
      /\ somDecoder.last \in {NoSeq} \cup 0 .. SeqMod - 1
  BY DEF TypeOK, Decoder
<1> QED
  BY <1>1, <1>2, <1>3 DEF Direction, Numbers

\* No more is missing than may be.
LEMMA MoreLost ==
    ASSUME NEW q, NEW n, NEW l, NEW k \in Nat, NEW k1 \in {k, k + 1}, Numbered(q, n, l, k)
    PROVE  Numbered(q, n, l, k1)
<1>1. \A m \in 0 .. k : m \in 0 .. k1
  OBVIOUS
<1> QED
  BY <1>1 DEF Numbered

\* Nothing is sent or taken.
AskRests ==
    /\ UNCHANGED <<toRelay, nextSeq.som, hubDecoder.last>> /\ faults' \in {faults, faults + 1}
    /\ \A c \in Channel : UNCHANGED <<Sent(c), asked[c]>> /\ entry'[c] \in {0, entry[c]}

\* Som sends a frame.
AskSends ==
    /\ \E f \in Frame :
        /\ f.seq = nextSeq.som /\ toRelay' = Append(toRelay, f)
        /\ \A c \in Channel :
            IF f.kind = "data" /\ f.channel = c
            THEN Sent(c)' = Sent(c) + 1 /\ f.message = Sent(c) + 1
            ELSE UNCHANGED Sent(c)
    /\ nextSeq'.som = NextNumber(nextSeq.som)
    /\ UNCHANGED <<hubDecoder, faults, entry, asked>>

\* The hub takes a frame.
AskTakes ==
    /\ Takes(toRelay, hubDecoder.last, toRelay', hubDecoder'.last)
    /\ UNCHANGED nextSeq.som /\ faults' \in {faults, faults + 1}
    /\ \A c \in Channel :
        /\ UNCHANGED Sent(c)
        /\ \/ /\ UNCHANGED asked[c]
              /\ entry'[c] = 1 => /\ entry[c] = 1 /\ toRelay[1].kind # "reset"
                                  /\ 1 \notin AskLive(c)
           \/ /\ 1 \in AskLive(c) /\ asked'[c] = toRelay[1].message
              /\ entry'[c] = 1 /\ (entry[c] = 1 \/ toRelay[1].message = 1)

\* The hub starts over.
AskFails ==
    /\ Fails(toRelay, hubDecoder.last, toRelay', hubDecoder'.last)
    /\ UNCHANGED nextSeq.som
    /\ \A c \in Channel : UNCHANGED <<Sent(c), asked[c]>> /\ entry'[c] = 0

\* A frame is lost.
AskLoses ==
    /\ toRelay # <<>> /\ toRelay' = Tail(toRelay) /\ faults < MaxFaults /\ faults' = faults + 1
    /\ UNCHANGED <<nextSeq, hubDecoder, entry, asked>>
    /\ \A c \in Channel : UNCHANGED Sent(c)

\* A frame that the pty hands on, or damages.
LEMMA FaultSteps ==
    ASSUME NEW q, NEW rest, HandsOn(q, rest) \/ HandsOnDamaged(q, rest)
    PROVE  /\ rest \in {q, Tail(q)} /\ faults' \in {faults, faults + 1}
           /\ HandsOnDamaged(q, rest) => rest = Tail(q)
  BY DEF HandsOn, HandsOnDamaged

\* A frame that does not break a decoder, or does.
LEMMA TakesOrFails ==
    ASSUME NEW q \in Seq(Frame), q # <<>>, NEW d \in Decoder, NEW rest
    PROVE  /\ ~Breaks(d, q[1]) /\ HandsOn(q, rest) => Takes(q, d.last, rest, Decoded(d, q[1]).last)
           /\ (Breaks(d, q[1]) /\ HandsOn(q, rest)) \/ HandsOnDamaged(q, rest)
                => Fails(q, d.last, rest, Fresh.last)
<1>1. q[1] \in Frame
  BY QueueTail
<1> DEFINE f == q[1]
<1>2. Decoded(d, f).last = f.seq
  BY <1>1 DEF Decoded, Repeated
<1>3. Gap(d, f) <=> Gap([last |-> d.last], f)
  BY DEF Gap
<1>4. Breaks(d, f) => f.seq # d.last
  BY DEF Breaks, Gap, Repeated, Torn
<1>5. Fresh.last = NoSeq
  BY DEF Fresh
<1> HIDE DEF f
<1> QED
  BY <1>2, <1>3, <1>4, <1>5, FaultSteps DEF Takes, Fails, Breaks, f

\* Each step, seen from there.
LEMMA AskStep ==
    ASSUME TypeInv, [Next]_vars
    PROVE  AskRests \/ AskSends \/ AskTakes \/ AskFails \/ AskLoses
<1>0. /\ TypeOK /\ toRelay \in Seq(Frame) /\ hubDecoder \in Decoder
      /\ wrote \in [Channel -> Nat] /\ entry \in [Channel -> Nat] /\ asked \in [Channel -> Nat]
      /\ writing \in [Channel -> BOOLEAN] /\ nextSeq.som \in 0 .. SeqMod - 1
  BY DEF TypeInv, TypeOK
<1>1. ASSUME NEW c \in Channel, UNCHANGED <<wrote, writing>> PROVE UNCHANGED Sent(c)
  BY <1>1 DEF Sent
<1>2. ASSUME NEW c \in Channel, OpenChannel(c) \/ StartWrite(c) \/ DropChannel(c)
      PROVE  AskRests
  <2>1. UNCHANGED <<toRelay, nextSeq, hubDecoder, faults, asked, entry>>
    BY <1>2 DEF OpenChannel, StartWrite, DropChannel, pty, daemon, hub
  <2>2. \A d \in Channel : UNCHANGED Sent(d)
    <3> SUFFICES ASSUME NEW d \in Channel PROVE UNCHANGED Sent(d)
      OBVIOUS
    <3>1. CASE UNCHANGED <<wrote, writing>>
      BY <3>1, <1>1
    <3>2. CASE StartWrite(c)
      <4>1. /\ ~writing[c] /\ wrote'[d] = IF d = c THEN wrote[d] + 1 ELSE wrote[d]
            /\ writing'[d] <=> (d = c \/ writing[d])
        BY <1>0, <3>2 DEF StartWrite
      <4>2. wrote[d] \in Nat
        BY <1>0
      <4> QED
        BY <4>1, <4>2 DEF Sent
    <3> QED
      BY <1>2, <3>1, <3>2 DEF OpenChannel, DropChannel
  <2> QED
    BY <2>1, <2>2 DEF AskRests
<1>3. ASSUME NEW c \in Channel, FinishWrite(c) PROVE AskSends
  <2>1. PICK f : f = Sealed(nextSeq.som, Data(c, wrote[c], 1, 1))
    OBVIOUS
  <2>2. /\ f \in Frame /\ f.seq = nextSeq.som /\ f.kind = "data" /\ f.channel = c
        /\ f.message = wrote[c]
    <3>1. nextSeq.som \in 0 .. SeqMod - 1 /\ wrote[c] \in Nat /\ 1 \in Nat
      BY <1>0
    <3> QED
      BY ONLY <2>1, <3>1 DEF Sealed, Data, Frame
  <2>3. /\ toRelay' = Append(toRelay, f) /\ nextSeq' = [nextSeq EXCEPT !.som = NextNumber(@)]
        /\ writing[c] /\ writing' = [writing EXCEPT ![c] = FALSE]
        /\ UNCHANGED <<wrote, hubDecoder, faults, entry, asked>>
    BY <1>3, <2>1 DEF FinishWrite, SomSends, daemon, hub
  <2>4. \A d \in Channel : IF d = c THEN Sent(d)' = Sent(d) + 1 /\ wrote[d] = Sent(d) + 1
                           ELSE UNCHANGED Sent(d)
    <3> SUFFICES ASSUME NEW d \in Channel
                 PROVE  IF d = c THEN Sent(d)' = Sent(d) + 1 /\ wrote[d] = Sent(d) + 1
                        ELSE UNCHANGED Sent(d)
      OBVIOUS
    <3>1. writing[c] /\ (writing'[d] <=> (d # c /\ writing[d])) /\ wrote' = wrote /\ wrote[d] \in Nat
      BY <1>0, <2>3
    <3> QED
      BY <3>1 DEF Sent
  <2>5. nextSeq'.som = NextNumber(nextSeq.som)
    BY <1>0, <2>3 DEF TypeOK
  <2> QED
    BY <2>2, <2>3, <2>4, <2>5 DEF AskSends
<1>4. ASSUME SomSaysReset \/ \E c \in Channel : SayClosed(c) PROVE AskSends
  <2>1. /\ UNCHANGED <<wrote, writing, hubDecoder, entry, asked>>
        /\ \E kind \in {"reset", "close"}, d \in {0} \cup Channel : SomSends(Note(kind, d))
    BY <1>4 DEF SayClosed, SomSaysReset, daemon, hub, users
  <2>2. PICK kind \in {"reset", "close"}, d \in {0} \cup Channel : SomSends(Note(kind, d))
    BY <2>1
  <2>3. PICK f : f = Sealed(nextSeq.som, Note(kind, d))
    OBVIOUS
  <2>4. f \in Frame /\ f.seq = nextSeq.som /\ f.kind # "data"
    BY <1>0, <2>3, NoteTypes
  <2>5. toRelay' = Append(toRelay, f) /\ nextSeq'.som = NextNumber(nextSeq.som) /\ UNCHANGED faults
    BY <1>0, <2>2, <2>3 DEF SomSends, TypeOK
  <2> QED
    BY <1>1, <2>1, <2>4, <2>5 DEF AskSends
<1>5. ASSUME SomTakes \/ SomBreaks PROVE AskRests
  <2>1. /\ UNCHANGED <<toRelay, nextSeq, hubDecoder, asked, entry, wrote, writing>>
        /\ HandsOn(toSom, toSom') \/ HandsOnDamaged(toSom, toSom')
    BY <1>5 DEF SomTakes, SomBreaks, daemon, hub
  <2> QED
    BY <1>1, <2>1, FaultSteps DEF AskRests
<1>6. ASSUME NEW k \in Conn, DaemonStep(k) \/ ReaderStep(k) PROVE AskRests
  <2>1. /\ UNCHANGED <<toRelay, nextSeq.som, hubDecoder, asked, faults, wrote, writing>>
        /\ \A c \in Channel : entry'[c] \in {0, entry[c]}
    <3>1. CASE DaemonAnswers(k[1]) \/ DaemonHangsUp(k)
      BY <3>1 DEF DaemonAnswers, DaemonHangsUp, som, users, pty, hub
    <3>2. CASE ReaderSends(k[1]) \/ ReaderReports(k)
      BY <1>0, <3>2 DEF ReaderSends, ReaderReports, HubSends, som, users, hub, daemon, TypeOK
    <3>3. CASE ReaderEnds(k)
      BY <1>0, <3>3 DEF ReaderEnds, som, users, pty, daemon
    <3> QED
      BY <1>6, <3>1, <3>2, <3>3 DEF DaemonStep, ReaderStep
  <2> QED
    BY <1>1, <2>1 DEF AskRests
<1>7. ASSUME toRelay # <<>> PROVE Head(toRelay) = toRelay[1] /\ toRelay[1] \in Frame /\ AskFrame(toRelay[1])
  <2>1. Head(toRelay) = toRelay[1] /\ 1 \in 1 .. Len(toRelay) /\ toRelay[1] \in Frame
    BY <1>0, <1>7, QueueTail
  <2> QED
    BY <2>1 DEF TypeInv, Frames
<1> DEFINE f == toRelay[1]
<1>8. ASSUME HubSkips \/ HubCloses \/ HubDelivers \/ HubConnects \/ HubCannotDeliver
      PROVE  /\ toRelay # <<>>
             /\ Takes(toRelay, hubDecoder.last, toRelay', hubDecoder'.last)
             /\ nextSeq'.som = nextSeq.som /\ faults' \in {faults, faults + 1}
             /\ \A c \in Channel : UNCHANGED Sent(c)
  <2>1. /\ toRelay # <<>> /\ HandsOn(toRelay, toRelay') /\ UNCHANGED <<wrote, writing>>
        /\ ~Breaks(hubDecoder, f) /\ hubDecoder' = Decoded(hubDecoder, f)
    <3>1. CASE HubSkips
      BY <1>7, <3>1 DEF HubSkips, HubReads, hub, som, users, Breaks, Gap, Repeated, Decoded
    <3>2. CASE HubCloses \/ HubDelivers \/ HubConnects \/ HubCannotDeliver
      BY <1>7, <3>2 DEF HubCloses, HubDelivers, HubConnects, HubCannotDeliver, HubReads, som, users,
                        Completes, Repeated
    <3> QED
      BY <1>8, <3>1, <3>2
  <2>2. nextSeq'.som = nextSeq.som
    BY <1>0, <1>8 DEF HubSkips, HubCloses, HubDelivers, HubConnects, HubCannotDeliver, HubSends, TypeOK
  <2> QED
    BY <1>0, <1>1, <2>1, <2>2, FaultSteps, TakesOrFails
<1>9. ASSUME toRelay # <<>>, NEW c \in Channel
      PROVE  1 \in AskLive(c) <=> f.seq # hubDecoder.last /\ f.kind = "data" /\ f.channel = c
  <2>1. 1 \in 1 .. Len(toRelay)
    BY <1>0, <1>9, QueueTail
  <2> QED
    BY <2>1 DEF AskLive, Live
<1> HIDE DEF f
<1>10. ASSUME HubSkips PROVE AskTakes
  <2>1. f.seq = hubDecoder.last /\ f.kind # "reset" /\ UNCHANGED <<asked, entry>>
    BY <1>7, <1>10 DEF HubSkips, Repeated, daemon, hub, f
  <2> QED
    BY <1>8, <1>9, <1>10, <2>1 DEF AskTakes, f
<1>11. ASSUME HubCloses PROVE AskTakes
  <2>1. /\ toRelay # <<>> /\ UNCHANGED asked /\ f.kind \in {"reset", "close"}
        /\ Shutdown(IF f.kind = "reset" THEN Channel ELSE {f.channel})
    BY <1>7, <1>11 DEF HubCloses, f
  <2>2. \A c \in Channel : entry'[c] = 1 => entry[c] = 1 /\ f.kind # "reset"
    BY <2>1 DEF Shutdown
  <2> QED
    BY <1>8, <1>9, <1>11, <2>1, <2>2 DEF AskTakes, f
<1>12. ASSUME HubDelivers PROVE AskTakes
  <2>1. /\ toRelay # <<>> /\ f.kind = "data" /\ UNCHANGED entry /\ entry[f.channel] # 0
        /\ asked' = IF entry[f.channel] = 1 THEN [asked EXCEPT ![f.channel] = f.message] ELSE asked
    BY <1>7, <1>12 DEF HubDelivers, f
  <2>2. f.seq # hubDecoder.last /\ f.channel \in Channel
    BY <1>7, <1>12, <2>1 DEF AskFrame, HubDelivers, Completes, Repeated, f
  <2>3. ASSUME NEW c \in Channel
        PROVE  \/ asked'[c] = asked[c] /\ (entry'[c] = 1 => entry[c] = 1 /\ 1 \notin AskLive(c))
               \/ 1 \in AskLive(c) /\ asked'[c] = f.message /\ entry'[c] = 1 /\ entry[c] = 1
    <3>1. CASE c = f.channel /\ entry[c] = 1
      BY <1>0, <1>9, <2>1, <2>2, <3>1
    <3>2. CASE c = f.channel /\ entry[c] # 1
      BY <2>1, <3>2
    <3>3. CASE c # f.channel
      BY <1>0, <1>9, <2>1, <3>3
    <3> QED
      BY <3>1, <3>2, <3>3
  <2> QED
    BY <1>8, <1>12, <2>1, <2>3 DEF AskTakes, f
<1>13. ASSUME HubConnects PROVE AskTakes
  <2>1. /\ toRelay # <<>> /\ f.kind = "data" /\ entry' = [entry EXCEPT ![f.channel] = f.message]
        /\ asked' = IF f.message = 1 THEN [asked EXCEPT ![f.channel] = 1] ELSE asked
    BY <1>7, <1>13 DEF HubConnects, f
  <2>2. f.seq # hubDecoder.last /\ f.channel \in Channel
    BY <1>7, <1>13, <2>1 DEF AskFrame, HubConnects, Completes, Repeated, f
  <2>3. ASSUME NEW c \in Channel
        PROVE  \/ asked'[c] = asked[c] /\ (entry'[c] = 1 => entry[c] = 1 /\ 1 \notin AskLive(c))
               \/ 1 \in AskLive(c) /\ asked'[c] = f.message /\ entry'[c] = 1 /\ f.message = 1
    <3>1. CASE c = f.channel /\ f.message = 1
      BY <1>0, <1>9, <2>1, <2>2, <3>1
    <3>2. CASE c = f.channel /\ f.message # 1
      BY <1>0, <2>1, <3>2
    <3>3. CASE c # f.channel
      BY <1>0, <1>9, <2>1, <3>3
    <3> QED
      BY <3>1, <3>2, <3>3
  <2> QED
    BY <1>8, <1>13, <2>1, <2>3 DEF AskTakes, f
<1>14. ASSUME HubCannotDeliver PROVE AskTakes
  <2>1. toRelay # <<>> /\ f.kind = "data" /\ UNCHANGED asked /\ Shutdown({f.channel})
    BY <1>7, <1>14 DEF HubCannotDeliver, f
  <2>2. \A c \in Channel : entry'[c] = 1 => entry[c] = 1 /\ c # f.channel
    BY <2>1 DEF Shutdown
  <2>3. \A c \in Channel : entry'[c] = 1 => entry[c] = 1 /\ f.kind # "reset" /\ 1 \notin AskLive(c)
    BY <1>9, <2>1, <2>2
  <2> QED
    BY <1>8, <1>14, <2>1, <2>3 DEF AskTakes, f
<1>15. ASSUME HubBreaks PROVE AskFails
  <2>1. /\ toRelay # <<>> /\ hubDecoder' = Fresh /\ Shutdown(Channel)
        /\ UNCHANGED <<nextSeq, asked, wrote, writing>>
        /\ (Breaks(hubDecoder, toRelay[1]) /\ HandsOn(toRelay, toRelay')) \/ HandsOnDamaged(toRelay, toRelay')
    BY <1>7, <1>15 DEF HubBreaks, som, users
  <2>2. \A c \in Channel : entry'[c] = 0
    BY <2>1 DEF Shutdown
  <2> QED
    BY <1>0, <1>1, <2>1, <2>2, TakesOrFails DEF AskFails
<1>16. ASSUME HubSaysReset PROVE AskRests
  <2>1. UNCHANGED <<toRelay, nextSeq.som, hubDecoder, faults, asked, entry, wrote, writing>>
    BY <1>0, <1>16 DEF HubSaysReset, HubSends, daemon, som, users, TypeOK
  <2> QED
    BY <1>1, <2>1 DEF AskRests
<1>17. ASSUME PtyLoses PROVE AskLoses \/ AskRests
  <2>1. /\ faults < MaxFaults /\ faults' = faults + 1
        /\ UNCHANGED <<nextSeq, hubDecoder, entry, asked, wrote, writing>>
        /\ (toRelay # <<>> /\ toRelay' = Tail(toRelay)) \/ UNCHANGED toRelay
    BY <1>17 DEF PtyLoses, CanFail, som, users, daemon, hub
  <2> QED
    BY <1>1, <2>1 DEF AskLoses, AskRests
<1>18. ASSUME UNCHANGED vars PROVE AskRests
  <2>1. UNCHANGED <<toRelay, nextSeq, hubDecoder, faults, asked, entry, wrote, writing>>
    BY <1>18 DEF vars, state, som, users, pty, daemon, hub
  <2> QED
    BY <1>1, <2>1 DEF AskRests
<1> QED
  BY <1>2, <1>3, <1>4, <1>5, <1>6, <1>10, <1>11, <1>12, <1>13, <1>14, <1>15, <1>16, <1>17, <1>18
  DEF Next, UserStep, SomStep, HubStep

-----------------------------------------------------------------------------
(* They keep what Som writes in order.                                     *)

\* A queue whose messages are in order, with none missing up to the last.
Rising(q, l, c, s) ==
    /\ \A i, j \in Live(q, l, c) : i < j => q[i].message < q[j].message
    /\ \A i \in Live(q, l, c) : \A m \in q[i].message .. s :
            \E j \in Live(q, l, c) : q[j].message = m

\* It stays so when its head goes.
LEMMA RisingShifted ==
    ASSUME NEW q, NEW l, NEW q1, NEW l1, NEW c, NEW s, NEW d \in {0, 1},
           Shifted(q, l, q1, l1, c, d), Rising(q, l, c, s),
           \A i \in Live(q, l, c) : i \in Nat \ {0} /\ q[i].message \in Nat
    PROVE  Rising(q1, l1, c, s)
<1>1. ASSUME NEW i \in Live(q1, l1, c), NEW j \in Live(q1, l1, c), i < j
      PROVE  q1[i].message < q1[j].message
  <2>1. /\ i \in Nat /\ j \in Nat /\ q1[i] = q[i + d] /\ q1[j] = q[j + d]
        /\ i + d \in Live(q, l, c) /\ j + d \in Live(q, l, c)
    BY DEF Shifted
  <2>2. i + d < j + d
    BY <1>1, <2>1
  <2> QED
    BY <2>1, <2>2 DEF Rising
<1>2. ASSUME NEW i \in Live(q1, l1, c), NEW m \in q1[i].message .. s
      PROVE  \E j \in Live(q1, l1, c) : q1[j].message = m
  <2>1. i \in Nat /\ i + d \in Live(q, l, c) /\ q1[i] = q[i + d]
    BY DEF Shifted
  <2>2. PICK j \in Live(q, l, c) : q[j].message = m
    BY <2>1 DEF Rising
  <2>3. j \in Nat \ {0} /\ q[i + d].message \in Nat /\ q[j].message \in Nat /\ q[i + d].message <= m
    BY <2>1, <2>2
  <2>4. CASE j # 1
    <3>1. j - d \in Live(q1, l1, c)
      BY <2>4 DEF Shifted
    <3>2. q1[j - d] = q[(j - d) + d]
      BY <3>1 DEF Shifted
    <3>3. (j - d) + d = j
      BY <2>3
    <3> QED
      BY <2>2, <3>1, <3>2, <3>3
  <2>5. CASE j = 1
    <3>1. ~(1 < i + d)
      BY <2>1, <2>2, <2>3, <2>5 DEF Rising
    <3>2. i + d = 1
      BY <2>1, <3>1
    <3> QED
      BY <2>1, <2>2, <2>5, <3>2
  <2> QED
    BY <2>4, <2>5
<1> QED
  BY <1>1, <1>2 DEF Rising

\* The messages on their way.
LEMMA AskFacts ==
    ASSUME TypeInv, NEW c \in Channel
    PROVE  /\ \A i \in AskLive(c) : /\ i \in Nat \ {0} /\ toRelay[i].message \in Nat
                                    /\ toRelay[i].message \in 1 .. Sent(c)
           /\ Sent(c) \in Int /\ asked[c] \in Nat /\ asked[c] <= Sent(c) /\ entry[c] \in Nat
           /\ AskOrder(c) <=> /\ Rising(toRelay, hubDecoder.last, c, Sent(c))
                              /\ \A i \in AskLive(c) : toRelay[i].message = 1 => asked[c] = 0
<1>1. TypeOK /\ toRelay \in Seq(Frame) /\ entry[c] \in Nat
  BY DEF TypeInv, TypeOK
<1>2. Len(toRelay) \in Nat /\ \A i \in 1 .. Len(toRelay) : toRelay[i].message \in Nat
  <2>1. \A i \in 1 .. Len(toRelay) : toRelay[i] \in Frame
    BY <1>1, ElementOfSeq
  <2> QED
    BY <1>1, <2>1, LenProperties DEF Frame
<1>3. \A i \in AskLive(c) : i \in 1 .. Len(toRelay) /\ toRelay[i].message \in 1 .. Sent(c)
  BY DEF AskLive, Live, TypeInv, Frames, AskFrame
<1>4. \A i \in AskLive(c) : i \in Nat \ {0}
  BY <1>2, <1>3
<1>5. AskOrder(c) <=> /\ Rising(toRelay, hubDecoder.last, c, Sent(c))
                      /\ \A i \in AskLive(c) : toRelay[i].message = 1 => asked[c] = 0
  BY DEF AskOrder, AskLive, Rising
<1>6. Sent(c) \in Int /\ asked[c] \in Nat /\ asked[c] <= Sent(c)
  BY ChainFacts
<1> QED
  BY ONLY <1>1, <1>2, <1>3, <1>4, <1>5, <1>6

LEMMA AskKept ==
    ASSUME TypeInv, TypeInv', Numbers, Ready, NoWrap, [Next]_vars,
           NEW c \in Channel, AskOrder(c), AskNext(c)
    PROVE  AskOrder(c)' /\ AskNext(c)'
<1> DEFINE q == toRelay
           n == nextSeq.som
           l == hubDecoder.last
           k == faults
<1>0. /\ Direction(q, n, l, k) /\ k \in Nat /\ Numbered(q, n, l, k)
      /\ (k < MaxFaults => k + 3 <= SeqMod)
  <2>1. TypeOK
    BY DEF TypeInv
  <2> QED
    BY <2>1, Ways DEF Numbers
<1>1. /\ \A i \in Live(q, l, c) : /\ i \in Nat \ {0} /\ q[i].message \in Nat
                                  /\ q[i].message \in 1 .. Sent(c)
      /\ Sent(c) \in Int /\ asked[c] \in Nat /\ asked[c] <= Sent(c) /\ entry[c] \in Nat
      /\ Rising(q, l, c, Sent(c))
      /\ \A i \in Live(q, l, c) : q[i].message = 1 => asked[c] = 0
  BY AskFacts DEF AskLive
<1> DEFINE q1 == toRelay'
           n1 == nextSeq'.som
           l1 == hubDecoder'.last
<1>2. Rising(q1, l1, c, Sent(c)') /\ (\A i \in Live(q1, l1, c) : q1[i].message = 1 => asked'[c] = 0)
        => AskOrder(c)'
  BY DEF AskOrder, AskLive, Rising
<1>3. AskNext(c)' <=>
        (entry'[c] = 1 =>
            /\ \A i \in Live(q1, l1, c) : asked'[c] < q1[i].message
            /\ Whole(q1, n1, l1) =>
                \A m \in asked'[c] + 1 .. Sent(c)' : \E i \in Live(q1, l1, c) : q1[i].message = m)
  BY DEF AskNext, AskLive, Whole, Copied, Missing, First
<1>4. entry[c] = 1 =>
        /\ \A i \in Live(q, l, c) : asked[c] < q[i].message
        /\ Whole(q, n, l) =>
            \A m \in asked[c] + 1 .. Sent(c) : \E i \in Live(q, l, c) : q[i].message = m
  BY DEF AskNext, AskLive
<1> HIDE DEF q, n, l, k, q1, n1, l1
<1>5. CASE AskRests
  <2>1. /\ q1 = q /\ n1 = n /\ l1 = l
        /\ Sent(c)' = Sent(c) /\ asked'[c] = asked[c] /\ (entry'[c] = 1 => entry[c] = 1)
    BY <1>1, <1>5 DEF AskRests, q, n, l, k, q1, n1, l1
  <2> QED
    BY <1>1, <1>2, <1>3, <1>4, <2>1
<1>6. CASE AskSends
  <2>1. PICK f \in Frame :
            /\ f.seq = n /\ q1 = Append(q, f) /\ n1 = NextNumber(n) /\ l1 = l /\ faults' = k
            /\ entry' = entry /\ asked' = asked
            /\ IF f.kind = "data" /\ f.channel = c
               THEN Sent(c)' = Sent(c) + 1 /\ f.message = Sent(c) + 1
               ELSE Sent(c)' = Sent(c)
    BY <1>6 DEF AskSends, q, n, l, k, q1, n1, l1
  <2>2. Whole(q1, n1, l1) => Whole(q, n, l)
    BY <1>0, <2>1, SendNumbered
  <2>3. /\ Len(q) \in Nat
        /\ \A i : i \in Live(q1, l1, c) <=>
                \/ i \in Live(q, l, c)
                \/ i = Len(q) + 1 /\ f.kind = "data" /\ f.channel = c
        /\ \A i \in Live(q, l, c) : i \in 1 .. Len(q) /\ q1[i] = q[i]
        /\ q1[Len(q) + 1] = f
    BY <1>0, <2>1, SendLive
  <2>4. ASSUME f.kind = "data", f.channel = c PROVE AskOrder(c)' /\ AskNext(c)'
    <3>1. Sent(c)' = Sent(c) + 1 /\ f.message = Sent(c) + 1 /\ Sent(c) \in Int
      BY <1>1, <2>1, <2>4
    <3>2. /\ \A i \in Live(q1, l1, c) : i \in Live(q, l, c) \/ i = Len(q) + 1
          /\ \A i \in Live(q, l, c) : i \in Live(q1, l1, c) /\ q1[i].message = q[i].message
          /\ Len(q) + 1 \in Live(q1, l1, c) /\ q1[Len(q) + 1].message = Sent(c) + 1
      BY <2>3, <2>4, <3>1
    <3>3. \A i \in Live(q, l, c) : i \in Nat /\ i < Len(q) + 1 /\ q[i].message \in Nat /\ q[i].message <= Sent(c)
                                  /\ q[i].message >= 1
      BY <1>1, <2>3
    <3>4. Rising(q1, l1, c, Sent(c) + 1)
      <4>1. ASSUME NEW i \in Live(q1, l1, c), NEW j \in Live(q1, l1, c), i < j
            PROVE  q1[i].message < q1[j].message
        <5>1. CASE j \in Live(q, l, c)
          <6>1. i \in Live(q, l, c)
            <7>1. j < Len(q) + 1 /\ j \in Nat
              BY <3>3, <5>1
            <7>2. i # Len(q) + 1
              BY <2>3, <4>1, <7>1
            <7> QED
              BY <3>2, <7>2
          <6>2. q[i].message < q[j].message
            BY <1>1, <4>1, <5>1, <6>1 DEF Rising
          <6>3. q1[i].message = q[i].message
            BY <3>2, <6>1
          <6>4. q1[j].message = q[j].message
            BY <3>2, <5>1
          <6> QED
            BY ONLY <6>2, <6>3, <6>4
        <5>2. CASE j = Len(q) + 1
          <6>1. i \in Live(q, l, c)
            BY <2>3, <3>2, <4>1, <5>2
          <6>2. q1[i].message = q[i].message /\ q1[j].message = Sent(c) + 1
            BY <3>2, <5>2, <6>1
          <6>3. q[i].message \in Nat /\ q[i].message <= Sent(c)
            BY <3>3, <6>1
          <6> QED
            BY ONLY <3>1, <6>2, <6>3
        <5> QED
          BY <3>2, <5>1, <5>2
      <4>2. ASSUME NEW i \in Live(q1, l1, c), NEW m \in q1[i].message .. Sent(c) + 1
            PROVE  \E j \in Live(q1, l1, c) : q1[j].message = m
        <5>1. CASE m = Sent(c) + 1
          BY <3>2, <5>1
        <5>2. CASE m # Sent(c) + 1
          <6>1. i \in Live(q, l, c) /\ m \in q[i].message .. Sent(c)
            BY <3>1, <3>2, <3>3, <4>2, <5>2
          <6>2. PICK j \in Live(q, l, c) : q[j].message = m
            BY <1>1, <6>1 DEF Rising
          <6> QED
            BY <3>2, <6>2
        <5> QED
          BY <5>1, <5>2
      <4> QED
        BY <4>1, <4>2 DEF Rising
    <3>5. ASSUME NEW i \in Live(q1, l1, c), q1[i].message = 1 PROVE asked'[c] = 0
      <4>1. CASE i \in Live(q, l, c)
        BY <1>1, <2>1, <3>2, <3>5, <4>1
      <4>2. CASE i = Len(q) + 1
        <5>1. Sent(c) = 0
          BY <3>1, <3>2, <3>5, <4>2
        <5> QED
          BY <1>1, <2>1, <5>1
      <4> QED
        BY <3>2, <4>1, <4>2
    <3>6. ASSUME entry'[c] = 1
          PROVE  /\ \A i \in Live(q1, l1, c) : asked'[c] < q1[i].message
                 /\ Whole(q1, n1, l1) =>
                     \A m \in asked'[c] + 1 .. Sent(c) + 1 : \E i \in Live(q1, l1, c) : q1[i].message = m
      <4>0. asked[c] \in Nat /\ asked[c] <= Sent(c) /\ asked'[c] = asked[c] /\ entry[c] = 1
        BY <1>1, <2>1, <3>6
      <4>1. \A i \in Live(q1, l1, c) : asked'[c] < q1[i].message
        BY <1>4, <3>1, <3>2, <4>0
      <4>2. ASSUME Whole(q1, n1, l1), NEW m \in asked'[c] + 1 .. Sent(c) + 1
            PROVE  \E i \in Live(q1, l1, c) : q1[i].message = m
        <5>1. CASE m = Sent(c) + 1
          BY <3>2, <5>1
        <5>2. CASE m # Sent(c) + 1
          <6>1. m \in asked[c] + 1 .. Sent(c)
            BY <3>1, <4>0, <4>2, <5>2
          <6>2. PICK i \in Live(q, l, c) : q[i].message = m
            BY <1>4, <2>2, <4>0, <4>2, <6>1
          <6> QED
            BY <3>2, <6>2
        <5> QED
          BY <5>1, <5>2
      <4> QED
        BY <4>1, <4>2
    <3>7. AskOrder(c)'
      BY <1>2, <3>1, <3>4, <3>5
    <3>8. AskNext(c)'
      BY <1>3, <3>1, <3>6
    <3> QED
      BY <3>7, <3>8
  <2>5. ASSUME ~(f.kind = "data" /\ f.channel = c) PROVE AskOrder(c)' /\ AskNext(c)'
    <3>1. /\ Sent(c)' = Sent(c) /\ \A i : i \in Live(q1, l1, c) <=> i \in Live(q, l, c)
          /\ \A i \in Live(q, l, c) : q1[i].message = q[i].message
      BY <2>1, <2>3, <2>5
    <3>2. Rising(q1, l1, c, Sent(c))
      BY <1>1, <3>1 DEF Rising
    <3>3. \A i \in Live(q1, l1, c) : q1[i].message = 1 => asked'[c] = 0
      BY <1>1, <2>1, <3>1
    <3>4. ASSUME entry'[c] = 1
          PROVE  /\ \A i \in Live(q1, l1, c) : asked'[c] < q1[i].message
                 /\ Whole(q1, n1, l1) =>
                     \A m \in asked'[c] + 1 .. Sent(c) : \E i \in Live(q1, l1, c) : q1[i].message = m
      BY <1>4, <2>1, <2>2, <3>1, <3>4
    <3>5. AskOrder(c)'
      BY <1>2, <3>1, <3>2, <3>3
    <3>6. AskNext(c)'
      BY <1>3, <3>1, <3>4
    <3> QED
      BY <3>5, <3>6
  <2> QED
    BY <2>4, <2>5
<1>7. CASE AskTakes
  <2>1. /\ Takes(q, l, q1, l1) /\ n1 = n /\ faults' \in Nat /\ Sent(c)' = Sent(c)
        /\ \/ /\ asked'[c] = asked[c]
              /\ entry'[c] = 1 => entry[c] = 1 /\ q[1].kind # "reset" /\ 1 \notin Live(q, l, c)
           \/ /\ 1 \in Live(q, l, c) /\ asked'[c] = q[1].message
              /\ entry'[c] = 1 /\ (entry[c] = 1 \/ q[1].message = 1)
    BY <1>0, <1>7 DEF AskTakes, AskLive, q, n, l, k, q1, n1, l1
  <2>2. Whole(q1, n1, l1) /\ (q[1].kind # "reset" => Whole(q, n, l))
    BY <1>0, <2>1, TakeNumbered
  <2>3. PICK d \in {0, 1} : Shifted(q, l, q1, l1, c, d) /\ \A i \in Live(q1, l1, c) : i + d # 1
    BY <1>0, <2>1, TakeLive
  <2>4. Rising(q1, l1, c, Sent(c))
    BY <1>1, <2>3, RisingShifted
  <2>5. ASSUME NEW i \in Live(q1, l1, c)
        PROVE  /\ i + d \in Live(q, l, c) /\ q1[i].message = q[i + d].message
               /\ 1 \in Live(q, l, c) => q[1].message < q1[i].message
    <3>1. /\ i \in Nat /\ i + d \in Live(q, l, c) /\ q1[i].message = q[i + d].message /\ i + d # 1
          /\ i + d \in Nat \ {0}
      BY <1>1, <2>3 DEF Shifted
    <3>2. 1 < i + d
      BY <3>1
    <3> QED
      BY <1>1, <3>1, <3>2 DEF Rising
  <2>6. ASSUME NEW i \in Live(q1, l1, c), q1[i].message = 1 PROVE asked'[c] = 0
    <3>1. 1 \notin Live(q, l, c)
      BY <1>1, <2>5, <2>6
    <3> QED
      BY <1>1, <2>1, <2>5, <2>6, <3>1
  <2>7. ASSUME entry'[c] = 1
        PROVE  /\ \A i \in Live(q1, l1, c) : asked'[c] < q1[i].message
               /\ \A m \in asked'[c] + 1 .. Sent(c) : \E i \in Live(q1, l1, c) : q1[i].message = m
    <3>1. CASE asked'[c] = asked[c] /\ entry[c] = 1 /\ q[1].kind # "reset" /\ 1 \notin Live(q, l, c)
      <4>1. \A i \in Live(q1, l1, c) : asked'[c] < q1[i].message
        BY <1>4, <2>5, <3>1
      <4>2. ASSUME NEW m \in asked'[c] + 1 .. Sent(c)
            PROVE  \E i \in Live(q1, l1, c) : q1[i].message = m
        <5>1. PICK j \in Live(q, l, c) : q[j].message = m
          BY <1>4, <2>2, <3>1
        <5>2. j \in Nat /\ j # 1
          BY <1>1, <3>1, <5>1
        <5>3. j - d \in Live(q1, l1, c) /\ (j - d) + d = j
          BY <2>3, <5>2 DEF Shifted
        <5> QED
          BY <2>5, <5>1, <5>3
      <4> QED
        BY <4>1, <4>2
    <3>2. CASE 1 \in Live(q, l, c) /\ asked'[c] = q[1].message
      <4>1. \A i \in Live(q1, l1, c) : asked'[c] < q1[i].message
        BY <2>5, <3>2
      <4>2. ASSUME NEW m \in asked'[c] + 1 .. Sent(c)
            PROVE  \E i \in Live(q1, l1, c) : q1[i].message = m
        <5>1. q[1].message \in Nat /\ m \in q[1].message .. Sent(c) /\ m # q[1].message
          BY <1>1, <3>2
        <5>2. PICK j \in Live(q, l, c) : q[j].message = m
          BY <1>1, <3>2, <5>1 DEF Rising
        <5>3. j \in Nat /\ j # 1
          BY <1>1, <5>1, <5>2
        <5>4. j - d \in Live(q1, l1, c) /\ (j - d) + d = j
          BY <2>3, <5>3 DEF Shifted
        <5> QED
          BY <2>5, <5>2, <5>4
      <4> QED
        BY <4>1, <4>2
    <3> QED
      BY <2>1, <2>7, <3>1, <3>2
  <2> QED
    BY <1>2, <1>3, <2>1, <2>4, <2>6, <2>7
<1>8. CASE AskFails
  <2>1. /\ Fails(q, l, q1, l1) /\ n1 = n /\ Sent(c)' = Sent(c) /\ asked'[c] = asked[c]
        /\ entry'[c] = 0
    BY <1>8 DEF AskFails, q, n, l, k, q1, n1, l1
  <2>3. PICK d \in {0, 1} : Shifted(q, l, q1, l1, c, d)
    BY <1>0, <2>1, FailLive
  <2>4. Rising(q1, l1, c, Sent(c))
    BY <1>1, <2>3, RisingShifted
  <2>5. \A i \in Live(q1, l1, c) : q1[i].message = 1 => asked'[c] = 0
    BY <1>1, <2>1, <2>3 DEF Shifted
  <2> QED
    BY <1>2, <1>3, <2>1, <2>4, <2>5
<1>9. CASE AskLoses
  <2>1. /\ q # <<>> /\ q1 = Tail(q) /\ n1 = n /\ l1 = l /\ k < MaxFaults /\ faults' = k + 1
        /\ Sent(c)' = Sent(c) /\ asked'[c] = asked[c] /\ entry'[c] = entry[c]
    BY <1>9 DEF AskLoses, q, n, l, k, q1, n1, l1
  <2>2. l # NoSeq /\ Whole(q1, n1, l1) => Copied(q, l)
    BY <1>0, <2>1, LoseNumbered
  <2>3. Shifted(q, l, q1, l1, c, 1) /\ (Copied(q, l) => 1 \notin Live(q, l, c))
    BY <1>0, <2>1, LoseLive
  <2>4. Rising(q1, l1, c, Sent(c))
    BY <1>1, <2>3, RisingShifted
  <2>5. \A i \in Live(q1, l1, c) : q1[i].message = 1 => asked'[c] = 0
    BY <1>1, <2>1, <2>3 DEF Shifted
  <2>6. ASSUME entry'[c] = 1
        PROVE  /\ \A i \in Live(q1, l1, c) : asked'[c] < q1[i].message
               /\ Whole(q1, n1, l1) =>
                   \A m \in asked'[c] + 1 .. Sent(c) : \E i \in Live(q1, l1, c) : q1[i].message = m
    <3>1. \A i \in Live(q1, l1, c) : asked'[c] < q1[i].message
      BY <1>4, <2>1, <2>3, <2>6 DEF Shifted
    <3>2. ASSUME Whole(q1, n1, l1), NEW m \in asked'[c] + 1 .. Sent(c)
          PROVE  \E i \in Live(q1, l1, c) : q1[i].message = m
      <4>1. entry[c] = 1 /\ l # NoSeq
        <5>1. entry[c] = 1
          BY <2>1, <2>6
        <5>2. hubDecoder.last = NoSeq => entry[c] = 0
          BY DEF Ready
        <5> QED
          BY ONLY <5>1, <5>2 DEF l
      <4>2. Copied(q, l) /\ 1 \notin Live(q, l, c)
        BY <2>2, <2>3, <3>2, <4>1
      <4>3. Whole(q, n, l)
        BY <4>2 DEF Whole
      <4>4. PICK j \in Live(q, l, c) : q[j].message = m
        BY <1>4, <2>1, <3>2, <4>1, <4>3
      <4>5. j \in Nat /\ j # 1
        BY <1>1, <4>2, <4>4
      <4>6. j - 1 \in Live(q1, l1, c) /\ (j - 1) + 1 = j
        BY <2>3, <4>5 DEF Shifted
      <4>7. q1[j - 1] = q[(j - 1) + 1]
        BY <2>3, <4>6 DEF Shifted
      <4> QED
        BY <4>4, <4>6, <4>7
    <3> QED
      BY <3>1, <3>2
  <2> QED
    BY <1>2, <1>3, <2>1, <2>4, <2>5, <2>6
<1> QED
  BY <1>5, <1>6, <1>7, <1>8, <1>9, AskStep

-----------------------------------------------------------------------------
(* The steps, seen from the direction to Som.                              *)

\* Nothing is sent or taken; a channel may be opened or closed.
HearRests ==
    /\ UNCHANGED <<toSom, nextSeq.hub, somDecoder, sent, heard>> /\ faults' \in {faults, faults + 1}
    /\ \A c \in Channel : channel'[c] = "open" => channel[c] \in {"new", "open"}

\* The reader of a channel has sent the next piece.
NextPiece(s, f, s1, w) ==
    /\ f.message = IF s.part > 0 THEN s.answer ELSE s.answer + 1
    /\ f.part = s.part + 1 /\ f.message \in 1 .. Len(w)
    /\ s1.answer = f.message /\ s1.part = f.part % w[f.message]

\* The hub sends a frame.
HearSends ==
    /\ \E f \in Frame :
        /\ f.seq = nextSeq.hub /\ toSom' = Append(toSom, f)
        /\ \A c \in Channel :
            IF f.kind = "data" /\ f.channel = c
            THEN NextPiece(sent[c], f, sent'[c], Parts[c])
            ELSE UNCHANGED sent[c]
    /\ nextSeq'.hub = NextNumber(nextSeq.hub)
    /\ UNCHANGED <<channel, heard, somDecoder>> /\ faults' \in {faults, faults + 1}

\* Som starts over.
HearFails ==
    /\ Fails(toSom, somDecoder.last, toSom', somDecoder'.last)
    /\ UNCHANGED nextSeq.hub
    /\ \A c \in Channel : channel'[c] # "open"

\* A frame is lost.
HearLoses ==
    /\ toSom # <<>> /\ toSom' = Tail(toSom) /\ faults < MaxFaults /\ faults' = faults + 1
    /\ (broken => FailsLater)
    /\ UNCHANGED <<nextSeq, somDecoder, sent, channel, heard>>

\* Each step, seen from there.
LEMMA HearStep ==
    ASSUME TypeInv, [Next]_vars
    PROVE  HearRests \/ HearSends \/ SomTakes \/ HearFails \/ HearLoses
<1>0. /\ TypeOK /\ toSom \in Seq(Frame) /\ somDecoder \in Decoder /\ sent \in [Channel -> [answer : Nat, part : Nat]]
      /\ nextSeq.hub \in 0 .. SeqMod - 1
      /\ channel \in [Channel -> {"new", "open", "ended", "dropped", "closed"}]
  BY DEF TypeInv, TypeOK
<1>1. ASSUME NEW c \in Channel, UserStep(c) \/ FinishWrite(c) \/ SayClosed(c) PROVE HearRests
  <2>1. UNCHANGED <<toSom, nextSeq.hub, somDecoder, faults, sent, heard>>
    BY <1>0, <1>1 DEF UserStep, OpenChannel, StartWrite, DropChannel, FinishWrite, SayClosed, SomSends,
                      pty, readers, TypeOK
  <2>2. \A d \in Channel : channel'[d] = "open" => channel[d] \in {"new", "open"}
    BY <1>0, <1>1 DEF UserStep, OpenChannel, StartWrite, DropChannel, FinishWrite, SayClosed
  <2> QED
    BY <2>1, <2>2 DEF HearRests
<1>2. ASSUME SomSaysReset PROVE HearRests
  BY <1>0, <1>2 DEF SomSaysReset, SomSends, users, readers, HearRests, TypeOK
<1>3. ASSUME SomBreaks PROVE HearFails
  <2>1. /\ toSom # <<>> /\ somDecoder' = Fresh /\ channel' = NoChannels /\ UNCHANGED nextSeq
        /\ (Breaks(somDecoder, toSom[1]) /\ HandsOn(toSom, toSom')) \/ HandsOnDamaged(toSom, toSom')
    BY <1>0, <1>3, QueueTail DEF SomBreaks
  <2>2. \A c \in Channel : channel'[c] # "open"
    BY <2>1 DEF NoChannels
  <2> QED
    BY <1>0, <2>1, <2>2, TakesOrFails DEF HearFails
<1>4. ASSUME NEW k \in Conn, DaemonStep(k) PROVE HearRests
  BY <1>4 DEF DaemonStep, DaemonAnswers, DaemonHangsUp, som, users, pty, readers, HearRests
<1>5. ASSUME NEW k \in Conn, ReaderEnds(k) PROVE HearRests
  BY <1>5 DEF ReaderEnds, som, users, pty, HearRests
<1>6. ASSUME NEW kind \in {"reset", "close"}, NEW d \in {0} \cup Channel,
             HubSends(toSom, Note(kind, d)), UNCHANGED <<som, sent>>, faults' \in {faults, faults + 1}
      PROVE  HearSends
  <2>1. PICK f : f = Sealed(nextSeq.hub, Note(kind, d))
    OBVIOUS
  <2>2. f \in Frame /\ f.seq = nextSeq.hub /\ f.kind # "data"
    BY <1>0, <2>1, NoteTypes
  <2>3. toSom' = Append(toSom, f) /\ nextSeq'.hub = NextNumber(nextSeq.hub)
    BY <1>0, <1>6, <2>1 DEF HubSends, TypeOK
  <2>4. UNCHANGED <<channel, heard, somDecoder, sent>>
    BY <1>6 DEF som, users
  <2> QED
    BY <1>6, <2>2, <2>3, <2>4 DEF HearSends
<1>7. ASSUME NEW k \in Conn, ReaderReports(k) PROVE HearSends
  <2>1. k[1] \in Channel
    BY DEF Conn
  <2> QED
    BY <1>6, <1>7, <2>1 DEF ReaderReports
<1>8. ASSUME NEW k \in Conn, ReaderSends(k[1]) PROVE HearSends
  <2>1. PICK c : c = k[1] /\ c \in Channel
    BY DEF Conn
  <2>2. PICK a, i : /\ a = IF MidAnswer(<<c, 1>>) THEN sent[c].answer ELSE sent[c].answer + 1
                    /\ i = sent[c].part + 1
    OBVIOUS
  <2>3. sent[c].answer \in Nat /\ sent[c].part \in Nat /\ sent[c].answer <= said[c] /\ said[c] \in Nat
        /\ said[c] <= Len(Parts[c]) /\ Len(Parts[c]) \in Nat
    <3>1. sent[c] \in [answer : Nat, part : Nat] /\ said[c] \in 0 .. Len(Parts[c])
      BY <1>0, <2>1, ChannelTypes
    <3>2. Len(Parts[c]) \in Nat /\ sent[c].answer <= said[c]
      BY <1>0, <2>1, PlanTypes, ChainFacts
    <3> QED
      BY <3>1, <3>2
  <2>4. a = (IF sent[c].part > 0 THEN sent[c].answer ELSE sent[c].answer + 1) /\ a \in Nat /\ i \in Nat
    BY <2>2, <2>3 DEF MidAnswer
  <2>5. a \in 1 .. Len(Parts[c])
    <3>1. sent[c].part > 0 \/ sent[c].answer < said[c]
      BY <1>8, <2>1 DEF ReaderSends, MidAnswer
    <3>2. sent[c].part > 0 => sent[c].answer > 0
      BY <2>1, ChainFacts
    <3> QED
      BY <2>3, <2>4, <3>1, <3>2
  <2>6. Parts[c][a] \in Nat
    BY <1>0, <2>1, <2>5, PlanTypes
  <2>7. PICK f : f = Sealed(nextSeq.hub, Data(c, a, i, Parts[c][a]))
    OBVIOUS
  <2>8. f \in Frame /\ f.seq = nextSeq.hub /\ f.kind = "data" /\ f.channel = c /\ f.message = a /\ f.part = i
    BY ONLY <1>0, <2>1, <2>4, <2>6, <2>7 DEF Sealed, Data, Frame
  <2>9. /\ toSom' = Append(toSom, f) /\ nextSeq' = [nextSeq EXCEPT !.hub = NextNumber(@)]
        /\ sent' = [sent EXCEPT ![c] = [answer |-> a, part |-> i % Parts[c][a]]]
        /\ UNCHANGED <<channel, heard, somDecoder, faults>>
    BY <1>8, <2>1, <2>2, <2>7 DEF ReaderSends, HubSends, som, users
  <2>10. \A d \in Channel : sent'[d] = IF d = c THEN [answer |-> a, part |-> i % Parts[c][a]] ELSE sent[d]
    BY <1>0, <2>9
  <2>11. nextSeq'.hub = NextNumber(nextSeq.hub)
    BY <1>0, <2>9 DEF TypeOK
  <2>12. NextPiece(sent[c], f, sent'[c], Parts[c])
    BY <2>1, <2>2, <2>4, <2>5, <2>8, <2>10 DEF NextPiece
  <2> QED
    BY <2>8, <2>9, <2>10, <2>11, <2>12 DEF HearSends
<1>9. ASSUME HubSkips \/ HubCloses \/ HubDelivers \/ HubConnects \/ HubBreaks PROVE HearRests
  <2>1. /\ UNCHANGED <<som, toSom, nextSeq, sent>>
        /\ HandsOn(toRelay, toRelay') \/ HandsOnDamaged(toRelay, toRelay')
    BY <1>9 DEF HubSkips, HubCloses, HubDelivers, HubConnects, HubBreaks, HubReads, readers
  <2> QED
    BY <2>1, FaultSteps DEF som, users, HearRests
<1>10. ASSUME HubCannotDeliver PROVE HearSends
  <2>1. /\ toRelay \in Seq(Frame) /\ toRelay # <<>> /\ HandsOn(toRelay, toRelay')
        /\ Head(toRelay).kind = "data" /\ HubSends(toSom, Note("close", Head(toRelay).channel))
        /\ UNCHANGED <<som, sent>>
    BY <1>0, <1>10 DEF HubCannotDeliver, HubReads, readers, TypeOK
  <2>2. Head(toRelay).channel \in Channel
    <3>1. 1 \in 1 .. Len(toRelay) /\ Head(toRelay) = toRelay[1]
      BY <2>1, QueueTail
    <3> QED
      BY <2>1, <3>1 DEF TypeInv, Frames, AskFrame
  <2> QED
    BY <1>6, <2>1, <2>2, FaultSteps
<1>11. ASSUME HubSaysReset PROVE HearSends
  BY <1>6, <1>11 DEF HubSaysReset, readers
<1>12. ASSUME PtyLoses PROVE HearLoses \/ HearRests
  <2>1. /\ faults < MaxFaults /\ faults' = faults + 1 /\ (broken => FailsLater)
        /\ UNCHANGED <<nextSeq, somDecoder, sent, channel, heard>>
        /\ (toSom # <<>> /\ toSom' = Tail(toSom)) \/ UNCHANGED toSom
    BY <1>12 DEF PtyLoses, CanFail, som, users, readers
  <2> QED
    BY <2>1 DEF HearLoses, HearRests
<1>13. ASSUME UNCHANGED vars PROVE HearRests
  BY <1>13 DEF vars, state, som, users, pty, readers, HearRests
<1> QED
  BY <1>1, <1>2, <1>3, <1>4, <1>5, <1>7, <1>8, <1>9, <1>10, <1>11, <1>12, <1>13
  DEF Next, SomStep, HubStep, DaemonStep, ReaderStep

-----------------------------------------------------------------------------
(* They keep what the daemon answers in order.                             *)

\* The pieces on their way are pieces of answers that have been sent.
Sound(q, l, c, s, w) ==
    \A i \in Live(q, l, c) :
        /\ i \in Nat \ {0} /\ q[i].message \in 1 .. Len(w) /\ q[i].message \in Nat
        /\ q[i].part \in 1 .. w[q[i].message] /\ q[i].part \in Nat
        /\ IsSent(s, q[i].message, q[i].part)

\* Answers, and how much of them has been sent.
Answers(s, w) ==
    /\ w \in Seq(Nat \ {0}) /\ Len(w) \in Nat /\ \A a \in 1 .. Len(w) : w[a] \in Nat \ {0}
    /\ s.answer \in Nat /\ s.part \in Nat /\ s.answer <= Len(w)
    /\ s.part > 0 => s.answer > 0 /\ s.part < w[s.answer]

\* The order stays when the head goes.
LEMMA SortedShifted ==
    ASSUME NEW q, NEW l, NEW q1, NEW l1, NEW c, NEW d \in {0, 1},
           Shifted(q, l, q1, l1, c, d), Sorted(q, l, c)
    PROVE  Sorted(q1, l1, c)
<1> SUFFICES ASSUME NEW i \in Live(q1, l1, c), NEW j \in Live(q1, l1, c), i < j
             PROVE  Before(q1[i].message, q1[i].part, q1[j].message, q1[j].part)
  BY DEF Sorted
<1>1. /\ i \in Nat /\ j \in Nat /\ q1[i] = q[i + d] /\ q1[j] = q[j + d]
      /\ i + d \in Live(q, l, c) /\ j + d \in Live(q, l, c)
  BY DEF Shifted
<1>2. i + d < j + d
  BY <1>1
<1> QED
  BY <1>1, <1>2 DEF Sorted

\* A channel stands as it did when the head goes and is none of its own.
LEMMA Passed ==
    ASSUME NEW q, NEW n, NEW l, NEW q1, NEW n1, NEW l1, NEW c, NEW d \in {0, 1},
           Shifted(q, l, q1, l1, c, d), 1 \notin Live(q, l, c),
           Whole(q1, n1, l1) => Whole(q, n, l),
           NEW a, NEW p, NEW s, NEW w, Arriving(q, n, l, c, a, p, s, w), Sound(q, l, c, s, w)
    PROVE  Arriving(q1, n1, l1, c, a, p, s, w)
<1>1. \A i \in Live(q1, l1, c) : Before(a, p, q1[i].message, q1[i].part)
  BY DEF Arriving, Shifted
<1>2. ASSUME Whole(q1, n1, l1), NEW b \in 1 .. Len(w), NEW k \in 1 .. w[b],
             IsSent(s, b, k), Before(a, p, b, k)
      PROVE  \E i \in Live(q1, l1, c) : q1[i].message = b /\ q1[i].part = k
  <2>1. PICK j \in Live(q, l, c) : q[j].message = b /\ q[j].part = k
    BY <1>2 DEF Arriving
  <2>2. j # 1 /\ j \in Nat
    BY DEF Sound
  <2>3. j - d \in Live(q1, l1, c) /\ (j - d) + d = j
    BY <2>2 DEF Shifted
  <2>4. q1[j - d] = q[(j - d) + d]
    BY <2>3 DEF Shifted
  <2> QED
    BY <2>1, <2>3, <2>4
<1> QED
  BY <1>1, <1>2 DEF Arriving

\* The channel's own piece is at the head, with nothing missing before it.
AtHead(q, n, l, c, held, a, p, s, w) ==
    /\ a \in Nat \ {0} /\ p \in Nat
    /\ Sorted(q, l, c) /\ Sound(q, l, c, s, w) /\ Answers(s, w) /\ Begun(held, a, p, w)
    /\ Arriving(q, n, l, c, a, p, s, w) /\ Whole(q, n, l) /\ 1 \in Live(q, l, c)

\* It is the next one that the channel gets.
LEMMA HeadIsNext ==
    ASSUME NEW q, NEW n, NEW l, NEW c, NEW held, NEW a, NEW p, NEW s, NEW w,
           AtHead(q, n, l, c, held, a, p, s, w)
    PROVE  /\ q[1].message = a /\ q[1].part = p + 1 /\ a \in 1 .. Len(w) /\ p + 1 \in 1 .. w[a]
           /\ IsSent(s, a, p + 1) /\ w[a] \in Nat
<1>0. /\ a \in Nat \ {0} /\ p \in Nat
      /\ Sorted(q, l, c) /\ Sound(q, l, c, s, w) /\ Answers(s, w) /\ Begun(held, a, p, w)
      /\ Arriving(q, n, l, c, a, p, s, w) /\ Whole(q, n, l) /\ 1 \in Live(q, l, c)
  BY DEF AtHead
<1>1. PICK b, k : b = q[1].message /\ k = q[1].part
  OBVIOUS
<1>2. /\ b \in 1 .. Len(w) /\ b \in Nat /\ k \in 1 .. w[b] /\ k \in Nat /\ IsSent(s, b, k)
      /\ Before(a, p, b, k) /\ Len(w) \in Nat
  BY <1>0, <1>1 DEF Sound, Arriving, Answers
<1>3. a \in 1 .. Len(w)
  BY <1>0, <1>2 DEF Before
<1>4. w[a] \in Nat \ {0}
  BY <1>0, <1>3 DEF Answers
<1>5. p + 1 \in 1 .. w[a]
  BY <1>0, <1>4 DEF Begun
<1>6. s.answer \in Nat /\ s.part \in Nat
  BY <1>0 DEF Answers
<1>7. IsSent(s, a, p + 1)
  BY <1>0, <1>2, <1>6 DEF IsSent, Before
<1>8. Before(a, p, a, p + 1)
  BY <1>0 DEF Before
<1>9. PICK j \in Live(q, l, c) : q[j].message = a /\ q[j].part = p + 1
  BY <1>0, <1>3, <1>5, <1>7, <1>8 DEF Arriving
<1>10. j = 1
  <2> SUFFICES ASSUME j # 1 PROVE FALSE
    OBVIOUS
  <2>1. j \in Nat \ {0}
    BY <1>0 DEF Sound
  <2>2. 1 < j
    BY <1>0, <2>1
  <2>3. Before(b, k, a, p + 1)
    BY <1>0, <1>1, <1>9, <2>2 DEF Sorted
  <2> QED
    BY <1>0, <1>2, <2>3 DEF Before
<1> QED
  BY <1>0, <1>3, <1>4, <1>5, <1>7, <1>9, <1>10

\* A channel that has got it goes on with the piece after it ...
LEMMA PieceTaken ==
    ASSUME NEW q, NEW n, NEW l, NEW q1, NEW l1, NEW c, NEW d \in {0, 1},
           Shifted(q, l, q1, l1, c, d), \A i \in Live(q1, l1, c) : i + d # 1,
           NEW held, NEW a, NEW p, NEW s, NEW w, AtHead(q, n, l, c, held, a, p, s, w)
    PROVE  /\ p + 1 < w[a] =>
                /\ Begun(Append(held, <<a, p + 1>>), a, p + 1, w)
                /\ Gotten(s, a, p + 1) /\ Arriving(q1, n, l1, c, a, p + 1, s, w)
           /\ p + 1 = w[a] =>
                /\ Append(held, <<a, p + 1>>) = FirstPieces(a, w[a])
                /\ Begun(<<>>, a + 1, 0, w)
                /\ Gotten(s, a + 1, 0) /\ Arriving(q1, n, l1, c, a + 1, 0, s, w)
<1>0. /\ a \in Nat \ {0} /\ p \in Nat
      /\ Sorted(q, l, c) /\ Sound(q, l, c, s, w) /\ Answers(s, w) /\ Begun(held, a, p, w)
      /\ Arriving(q, n, l, c, a, p, s, w) /\ Whole(q, n, l) /\ 1 \in Live(q, l, c)
  BY DEF AtHead
<1>1. /\ q[1].message = a /\ q[1].part = p + 1 /\ a \in 1 .. Len(w) /\ p + 1 \in 1 .. w[a]
      /\ IsSent(s, a, p + 1) /\ w[a] \in Nat
  BY HeadIsNext
<1>2. Append(held, <<a, p + 1>>) = FirstPieces(a, p + 1)
  <2> DEFINE h == [i \in 1 .. p |-> <<a, i>>]
             g == [i \in 1 .. p + 1 |-> <<a, i>>]
  <2>1. held = h
    BY <1>0 DEF Begun, FirstPieces
  <2>2. h \in Seq(Nat \X Nat) /\ Len(h) = p
    <3>1. \A i \in 1 .. p : <<a, i>> \in Nat \X Nat
      BY <1>0
    <3> QED
      BY <1>0, <3>1, IsASeq, LenProperties
  <2>3. g \in Seq(Nat \X Nat) /\ Len(g) = p + 1
    <3>1. \A i \in 1 .. p + 1 : <<a, i>> \in Nat \X Nat
      BY <1>0
    <3> QED
      BY <1>0, <3>1, IsASeq, LenProperties
  <2>4. \A i \in 1 .. p + 1 : g[i] = <<a, i>>
    BY <1>0
  <2>5. \A i \in 1 .. p : h[i] = <<a, i>>
    BY <1>0
  <2>6. <<a, p + 1>> \in Nat \X Nat
    BY <1>0
  <2> HIDE DEF h, g
  <2>7. PICK e : e = Append(h, <<a, p + 1>>)
    BY <1>0
  <2>8. /\ e \in Seq(Nat \X Nat) /\ Len(e) = p + 1 /\ e[p + 1] = <<a, p + 1>>
        /\ \A i \in 1 .. p : e[i] = h[i]
    BY <1>0, <2>2, <2>6, <2>7, AppendProperties
  <2>9. ASSUME NEW i \in 1 .. p + 1 PROVE e[i] = g[i]
    <3>1. i \in 1 .. p \/ i = p + 1
      BY <1>0
    <3>2. g[i] = <<a, i>>
      BY <1>0, <2>4
    <3>3. i \in 1 .. p => e[i] = <<a, i>>
      BY <1>0, <2>5, <2>8
    <3>4. i = p + 1 => e[i] = <<a, i>>
      BY <1>0, <2>8
    <3> QED
      BY ONLY <3>1, <3>2, <3>3, <3>4
  <2>10. e = g
    BY <1>0, <2>3, <2>8, <2>9, SeqEqual
  <2> QED
    BY <1>0, <2>1, <2>7, <2>10 DEF g, FirstPieces
<1>3. /\ s.answer \in Nat /\ s.part \in Nat /\ s.answer <= Len(w) /\ Len(w) \in Nat
      /\ s.part > 0 => s.answer > 0 /\ s.part < w[s.answer]
  BY <1>0 DEF Answers
<1>4. ASSUME NEW i \in Live(q1, l1, c)
      PROVE  /\ Before(a, p + 1, q1[i].message, q1[i].part)
             /\ q1[i].message \in Nat /\ q1[i].part \in Nat \ {0} /\ q1[i].part \in 1 .. w[q1[i].message]
  <2>1. i + d \in Live(q, l, c) /\ q1[i] = q[i + d] /\ i + d # 1
    BY <1>0 DEF Shifted
  <2>2. PICK j \in Live(q, l, c) : j = i + d /\ q1[i] = q[j]
    BY <1>0, <2>1
  <2>3. 1 < j
    BY <1>0, <2>1, <2>2 DEF Sound
  <2>4. Before(a, p + 1, q[j].message, q[j].part)
    BY <1>0, <1>1, <2>3 DEF Sorted
  <2>5. q[j].message \in Nat /\ q[j].part \in Nat /\ q[j].part \in 1 .. w[q[j].message]
    BY <1>0 DEF Sound
  <2>6. q[j].message \in 1 .. Len(w)
    BY <1>0 DEF Sound
  <2>7. w[q[j].message] \in Nat
    BY <1>0, <2>6 DEF Answers
  <2>8. q[j].part \in Nat \ {0}
    BY <1>0, <2>5, <2>7
  <2> QED
    BY <1>0, <2>2, <2>4, <2>5, <2>8
<1>5. ASSUME NEW b \in 1 .. Len(w), NEW k \in 1 .. w[b], IsSent(s, b, k), Before(a, p, b, k),
             b # a \/ k # p + 1
      PROVE  \E i \in Live(q1, l1, c) : q1[i].message = b /\ q1[i].part = k
  <2>1. PICK j \in Live(q, l, c) : q[j].message = b /\ q[j].part = k
    BY <1>0, <1>5 DEF Arriving
  <2>2. j # 1 /\ j \in Nat
    BY <1>0, <1>1, <1>5, <2>1 DEF Sound
  <2>3. j - d \in Live(q1, l1, c) /\ (j - d) + d = j
    BY <1>0, <2>2 DEF Shifted
  <2>4. q1[j - d] = q[(j - d) + d]
    BY <1>0, <2>3 DEF Shifted
  <2> QED
    BY <1>0, <2>1, <2>3, <2>4
<1>6. ASSUME p + 1 < w[a]
      PROVE  /\ Begun(Append(held, <<a, p + 1>>), a, p + 1, w)
             /\ Gotten(s, a, p + 1) /\ Arriving(q1, n, l1, c, a, p + 1, s, w)
  <2>1. Begun(Append(held, <<a, p + 1>>), a, p + 1, w)
    BY <1>0, <1>1, <1>2, <1>6 DEF Begun
  <2>2. Gotten(s, a, p + 1)
    BY <1>0, <1>1 DEF IsSent, Gotten
  <2>3. \A b \in 1 .. Len(w) : \A k \in 1 .. w[b] :
            Before(a, p + 1, b, k) => Before(a, p, b, k) /\ (b # a \/ k # p + 1)
    <3> SUFFICES ASSUME NEW b \in 1 .. Len(w), NEW k \in 1 .. w[b], Before(a, p + 1, b, k)
                 PROVE  Before(a, p, b, k) /\ (b # a \/ k # p + 1)
      BY <1>0
    <3>1. b \in Nat /\ w[b] \in Nat
      BY <1>0 DEF Answers
    <3>2. k \in Nat
      BY <1>0, <3>1
    <3> QED
      BY <1>0, <3>1, <3>2 DEF Before
  <2>4. Arriving(q1, n, l1, c, a, p + 1, s, w)
    BY <1>0, <1>4, <1>5, <2>3 DEF Arriving
  <2> QED
    BY <1>0, <2>1, <2>2, <2>4
<1>7. ASSUME p + 1 = w[a]
      PROVE  /\ Append(held, <<a, p + 1>>) = FirstPieces(a, w[a])
             /\ Begun(<<>>, a + 1, 0, w)
             /\ Gotten(s, a + 1, 0) /\ Arriving(q1, n, l1, c, a + 1, 0, s, w)
  <2>1. Append(held, <<a, p + 1>>) = FirstPieces(a, w[a])
    BY <1>0, <1>2, <1>7
  <2>2. Begun(<<>>, a + 1, 0, w)
    <3>1. <<>> = FirstPieces(a + 1, 0)
      BY <1>0 DEF FirstPieces
    <3> QED
      BY <1>0, <3>1 DEF Begun
  <2>3. Gotten(s, a + 1, 0)
    <3>1. CASE a < s.answer
      BY <1>0, <1>1, <1>3, <3>1 DEF Gotten
    <3>2. CASE a = s.answer
      <4>1. s.part = 0 \/ p + 1 <= s.part
        BY <1>0, <1>1, <3>2 DEF IsSent
      <4>2. s.part = 0
        BY <1>0, <1>1, <1>3, <1>7, <3>2, <4>1
      <4> QED
        BY <1>0, <1>1, <1>3, <3>2, <4>2 DEF Gotten
    <3> QED
      BY <1>0, <1>1, <3>1, <3>2 DEF IsSent
  <2>4. \A b \in 1 .. Len(w) : \A k \in 1 .. w[b] :
            Before(a + 1, 0, b, k) => Before(a, p, b, k) /\ (b # a \/ k # p + 1)
    <3> SUFFICES ASSUME NEW b \in 1 .. Len(w), NEW k \in 1 .. w[b], Before(a + 1, 0, b, k)
                 PROVE  Before(a, p, b, k) /\ (b # a \/ k # p + 1)
      BY <1>0
    <3>1. b \in Nat
      BY <1>0
    <3> QED
      BY <1>0, <3>1 DEF Before
  <2>5. ASSUME NEW i \in Live(q1, l1, c) PROVE Before(a + 1, 0, q1[i].message, q1[i].part)
    <3>1. PICK b, k : b = q1[i].message /\ k = q1[i].part
      BY <1>0
    <3>2. b \in Nat /\ k \in Nat \ {0} /\ k \in 1 .. w[b] /\ Before(a, p + 1, b, k)
      BY <1>0, <1>4, <3>1
    <3>3. b # a
      BY <1>0, <1>1, <1>7, <3>2 DEF Before
    <3>4. Before(a + 1, 0, b, k)
      BY <1>0, <3>2, <3>3 DEF Before
    <3> QED
      BY <1>0, <3>1, <3>4
  <2>6. Arriving(q1, n, l1, c, a + 1, 0, s, w)
    BY <1>0, <1>5, <2>4, <2>5 DEF Arriving
  <2> QED
    BY <1>0, <2>1, <2>2, <2>3, <2>6
<1> QED
  BY <1>0, <1>6, <1>7

\* The piece sent next comes after all that were sent.
LEMMA NextIsAfter ==
    ASSUME NEW s, NEW f, NEW s1, NEW w, Answers(s, w), NextPiece(s, f, s1, w),
           f.part \in Nat, s1.part \in Nat
    PROVE  /\ f.message \in Nat /\ f.part \in 1 .. w[f.message]
           /\ \A b \in 1 .. Len(w) : \A k \in 1 .. w[b] :
                /\ IsSent(s1, b, k) => IsSent(s, b, k) \/ (b = f.message /\ k = f.part)
                /\ IsSent(s, b, k) => Before(b, k, f.message, f.part)
           /\ \A a, p \in Nat : Gotten(s, a, p) =>
                Gotten(s1, a, p) /\ Before(a, p, f.message, f.part)
<1>1. PICK m, i : m = f.message /\ i = f.part
  OBVIOUS
<1>2. /\ s.answer \in Nat /\ s.part \in Nat /\ Len(w) \in Nat /\ \A a \in 1 .. Len(w) : w[a] \in Nat \ {0}
      /\ s.part > 0 => s.answer > 0 /\ s.part < w[s.answer]
  BY DEF Answers
<1>3. /\ m = (IF s.part > 0 THEN s.answer ELSE s.answer + 1) /\ i = s.part + 1 /\ m \in 1 .. Len(w)
      /\ m \in Nat /\ s1.answer = m /\ s1.part = i % w[m]
  BY <1>1, <1>2 DEF NextPiece
<1>4. w[m] \in Nat \ {0} /\ i \in Nat /\ i \in 1 .. w[m]
  <2>1. PICK z \in Nat \ {0} : z = w[m]
    BY <1>2, <1>3
  <2>2. s.part > 0 => s.part < z
    BY <1>2, <1>3, <2>1
  <2>3. i \in Nat /\ i \in 1 .. z
    BY <1>2, <1>3, <2>2
  <2> QED
    BY <2>1, <2>3
<1>5. s1.part = IF i < w[m] THEN i ELSE 0
  <2>1. PICK z \in Nat \ {0} : z = w[m]
    BY <1>4
  <2>2. i < z + z /\ i \in 1 .. z
    BY <1>4, <2>1
  <2>3. i % z = IF i < z THEN i ELSE i - z
    BY <1>4, <2>2, ModCases
  <2>4. i % z = IF i < z THEN i ELSE 0
    BY <1>4, <2>2, <2>3
  <2> QED
    BY <1>3, <2>1, <2>4
<1>6. ASSUME NEW b \in 1 .. Len(w), NEW k \in 1 .. w[b]
      PROVE  /\ IsSent(s1, b, k) => IsSent(s, b, k) \/ (b = m /\ k = i)
             /\ IsSent(s, b, k) => Before(b, k, m, i)
  <2>1. b \in Nat /\ w[b] \in Nat
    BY <1>2
  <2>2. k \in Nat \ {0} /\ k <= w[b]
    BY <2>1
  <2>3. ASSUME IsSent(s, b, k) PROVE Before(b, k, m, i)
    BY <1>2, <1>3, <2>1, <2>2, <2>3 DEF IsSent, Before
  <2>4. ASSUME IsSent(s1, b, k) PROVE IsSent(s, b, k) \/ (b = m /\ k = i)
    <3>1. CASE b < m
      BY <1>2, <1>3, <2>1, <3>1 DEF IsSent
    <3>2. CASE b = m
      <4>1. k <= i
        BY <1>3, <1>4, <1>5, <2>1, <2>2, <2>4, <3>2 DEF IsSent
      <4> QED
        BY <1>2, <1>3, <2>1, <2>2, <3>2, <4>1 DEF IsSent
    <3> QED
      BY <1>3, <2>4, <3>1, <3>2 DEF IsSent
  <2> QED
    BY <2>3, <2>4
<1>7. ASSUME NEW a \in Nat, NEW p \in Nat, Gotten(s, a, p)
      PROVE  Gotten(s1, a, p) /\ Before(a, p, m, i)
  <2>1. Before(a, p, m, i)
    BY <1>2, <1>3, <1>7 DEF Gotten, Before
  <2>2. Gotten(s1, a, p)
    BY <1>3, <1>4, <1>5, <2>1 DEF Gotten, Before
  <2> QED
    BY <2>1, <2>2
<1> QED
  BY <1>1, <1>3, <1>4, <1>6, <1>7

\* It goes behind them in the queue.
LEMMA PieceSent ==
    ASSUME NEW q, NEW n, NEW l, NEW k, Direction(q, n, l, k), NEW f \in Frame, f.seq = n,
           NEW c, f.kind = "data", f.channel = c,
           NEW s, NEW s1, NEW w, Answers(s, w), NextPiece(s, f, s1, w), s1.part \in Nat,
           Sound(q, l, c, s, w), Sorted(q, l, c)
    PROVE  /\ Sorted(Append(q, f), l, c)
           /\ \A a, p \in Nat : Gotten(s, a, p) /\ Arriving(q, n, l, c, a, p, s, w) =>
                /\ Gotten(s1, a, p)
                /\ Arriving(Append(q, f), NextNumber(n), l, c, a, p, s1, w)
<1>1. PICK t : t = Append(q, f)
  OBVIOUS
<1>2. Whole(t, NextNumber(n), l) => Whole(q, n, l)
  BY <1>1, SendNumbered
<1>3. /\ Len(q) \in Nat
      /\ \A i \in Live(t, l, c) : i \in Live(q, l, c) \/ i = Len(q) + 1
      /\ \A i \in Live(q, l, c) : i \in 1 .. Len(q) /\ t[i] = q[i] /\ i \in Live(t, l, c)
      /\ Len(q) + 1 \in Live(t, l, c) /\ t[Len(q) + 1] = f
  BY <1>1, SendLive
<1>4. f.part \in Nat
  BY DEF Frame
<1>5. /\ f.message \in Nat /\ f.part \in 1 .. w[f.message]
      /\ \A b \in 1 .. Len(w) : \A x \in 1 .. w[b] :
            /\ IsSent(s1, b, x) => IsSent(s, b, x) \/ (b = f.message /\ x = f.part)
            /\ IsSent(s, b, x) => Before(b, x, f.message, f.part)
      /\ \A a, p \in Nat : Gotten(s, a, p) =>
            Gotten(s1, a, p) /\ Before(a, p, f.message, f.part)
  BY <1>4, NextIsAfter
<1>6. ASSUME NEW i \in Live(t, l, c), NEW j \in Live(t, l, c), i < j
      PROVE  Before(t[i].message, t[i].part, t[j].message, t[j].part)
  <2>1. i \in Live(q, l, c)
    <3>1. \A x \in Live(t, l, c) : x \in Nat /\ x <= Len(q) + 1
      BY <1>3
    <3>2. i # Len(q) + 1
      BY <1>3, <1>6, <3>1
    <3> QED
      BY <1>3, <3>2
  <2>2. CASE j \in Live(q, l, c)
    <3>1. t[i] = q[i] /\ t[j] = q[j]
      BY <1>3, <2>1, <2>2
    <3> QED
      BY <1>6, <2>1, <2>2, <3>1 DEF Sorted
  <2>3. CASE j = Len(q) + 1
    <3>1. t[i] = q[i] /\ t[j] = f
      BY <1>3, <2>1, <2>3
    <3>2. Before(q[i].message, q[i].part, f.message, f.part)
      BY <1>5, <2>1 DEF Sound
    <3> QED
      BY <3>1, <3>2
  <2> QED
    BY <1>3, <2>2, <2>3
<1>7. ASSUME NEW a \in Nat, NEW p \in Nat, Gotten(s, a, p), Arriving(q, n, l, c, a, p, s, w)
      PROVE  Gotten(s1, a, p) /\ Arriving(t, NextNumber(n), l, c, a, p, s1, w)
  <2>1. \A i \in Live(t, l, c) : Before(a, p, t[i].message, t[i].part)
    <3>1. Before(a, p, f.message, f.part)
      BY <1>5, <1>7
    <3>2. \A i \in Live(q, l, c) : Before(a, p, q[i].message, q[i].part)
      BY <1>7 DEF Arriving
    <3> QED
      BY <1>3, <3>1, <3>2
  <2>2. ASSUME Whole(t, NextNumber(n), l), NEW b \in 1 .. Len(w), NEW x \in 1 .. w[b],
               IsSent(s1, b, x), Before(a, p, b, x)
        PROVE  \E i \in Live(t, l, c) : t[i].message = b /\ t[i].part = x
    <3>1. CASE b = f.message /\ x = f.part
      BY <1>3, <3>1
    <3>2. CASE ~(b = f.message /\ x = f.part)
      <4>1. IsSent(s, b, x)
        BY <1>5, <2>2, <3>2
      <4>2. PICK i \in Live(q, l, c) : q[i].message = b /\ q[i].part = x
        BY <1>2, <1>7, <2>2, <4>1 DEF Arriving
      <4> QED
        BY <1>3, <4>2
    <3> QED
      BY <3>1, <3>2
  <2>3. Arriving(t, NextNumber(n), l, c, a, p, s1, w)
    BY <2>1, <2>2 DEF Arriving
  <2> QED
    BY <1>5, <1>7, <2>3
<1> QED
  BY <1>1, <1>6, <1>7 DEF Sorted

\* A frame of another channel, or none of an answer, changes nothing.
LEMMA OtherSent ==
    ASSUME NEW q, NEW n, NEW l, NEW k, Direction(q, n, l, k), NEW f \in Frame, f.seq = n,
           NEW c, ~(f.kind = "data" /\ f.channel = c)
    PROVE  /\ Sorted(q, l, c) => Sorted(Append(q, f), l, c)
           /\ \A a, p, s, w : Arriving(q, n, l, c, a, p, s, w) =>
                Arriving(Append(q, f), NextNumber(n), l, c, a, p, s, w)
<1>1. PICK t : t = Append(q, f)
  OBVIOUS
<1>2. Whole(t, NextNumber(n), l) => Whole(q, n, l)
  BY <1>1, SendNumbered
<1>3. /\ \A i : i \in Live(t, l, c) <=> i \in Live(q, l, c)
      /\ \A i \in Live(q, l, c) : t[i] = q[i]
  BY <1>1, SendLive
<1>4. ASSUME NEW a, NEW p, NEW s, NEW w, Arriving(q, n, l, c, a, p, s, w)
      PROVE  Arriving(t, NextNumber(n), l, c, a, p, s, w)
  BY <1>2, <1>3, <1>4 DEF Arriving
<1>5. Sorted(q, l, c) => Sorted(t, l, c)
  BY <1>3 DEF Sorted
<1> QED
  BY <1>1, <1>4, <1>5

\* What holds of the pieces on their way to a channel, and of its decoder.
LEMMA HearFacts ==
    ASSUME TypeInv, NEW c \in Channel
    PROVE  /\ Answers(sent[c], Parts[c]) /\ Sound(toSom, somDecoder.last, c, sent[c], Parts[c])
           /\ Current(c) \in Nat \ {0} /\ Position(c) \in Nat
           /\ 1 \in HearLive(c) => toSom[1].of = Parts[c][toSom[1].message]
<1>0. TypeOK /\ toSom \in Seq(Frame)
  BY DEF TypeInv, TypeOK
<1>1. /\ Parts[c] \in Seq(Nat \ {0}) /\ Len(Parts[c]) \in Nat
      /\ \A a \in 1 .. Len(Parts[c]) : Parts[c][a] \in Nat \ {0}
  BY <1>0, PlanTypes
<1>2. /\ sent[c] \in [answer : Nat, part : Nat] /\ sent[c].answer \in 0 .. Len(Parts[c])
      /\ heard[c] \in Seq(Nat) /\ somDecoder.partial[c] \in Seq(Nat \X Nat)
  BY <1>0, ChannelTypes
<1>3. Answers(sent[c], Parts[c])
  <2>1. /\ sent[c].answer \in Nat /\ sent[c].part \in Nat /\ sent[c].answer <= Len(Parts[c])
        /\ sent[c].part > 0 => sent[c].answer > 0 /\ sent[c].part < Parts[c][sent[c].answer]
    <3>1. sent[c].part > 0 => sent[c].answer > 0 /\ sent[c].part < Parts[c][sent[c].answer]
      BY ChainFacts
    <3>2. sent[c].answer \in Nat /\ sent[c].part \in Nat /\ sent[c].answer <= Len(Parts[c])
      BY <1>1, <1>2
    <3> QED
      BY <3>1, <3>2
  <2> QED
    BY <1>1, <2>1 DEF Answers
<1>4. Current(c) \in Nat \ {0} /\ Position(c) \in Nat
  BY <1>2, LenProperties DEF Current, Position
<1>5. ASSUME NEW i \in Live(toSom, somDecoder.last, c)
      PROVE  /\ i \in Nat \ {0} /\ toSom[i].message \in 1 .. Len(Parts[c])
             /\ toSom[i].message \in Nat /\ toSom[i].part \in Nat
             /\ toSom[i].part \in 1 .. Parts[c][toSom[i].message]
             /\ IsSent(sent[c], toSom[i].message, toSom[i].part)
             /\ toSom[i].of = Parts[c][toSom[i].message]
  <2>1. Len(toSom) \in Nat /\ i \in 1 .. Len(toSom) /\ toSom[i].kind = "data" /\ toSom[i].channel = c
    BY <1>0, LenProperties DEF Live
  <2>2. AnswerFrame(toSom[i]) /\ toSom[i] \in Frame
    BY <1>0, <2>1, ElementOfSeq DEF TypeInv, Frames
  <2> QED
    BY <2>1, <2>2 DEF AnswerFrame, Reached, IsSent, Frame
<1> QED
  BY <1>3, <1>4, <1>5 DEF Sound, HearLive

LEMMA ReadyKept ==
    ASSUME TypeInv, Ready, [Next]_vars
    PROVE  Ready'
<1>0. /\ TypeOK /\ toSom \in Seq(Frame) /\ toRelay \in Seq(Frame) /\ somDecoder \in Decoder
      /\ channel \in [Channel -> {"new", "open", "ended", "dropped", "closed"}]
  BY DEF TypeInv, TypeOK
<1>1. (ready => ready') /\ (~ready' => \A c \in Channel : channel'[c] = "new")
  <2>1. CASE SomTakes
    BY <1>0, <2>1 DEF SomTakes, NoChannels, Ready
  <2>2. CASE SomBreaks
    BY <1>0, <2>2 DEF SomBreaks, NoChannels, Ready
  <2>3. ASSUME NEW c \in Channel, UserStep(c) PROVE (ready => ready') /\ (~ready' => channel' = channel)
    <3>1. CASE OpenChannel(c)
      BY <3>1 DEF OpenChannel
    <3>2. CASE StartWrite(c)
      BY <3>2 DEF StartWrite
    <3>3. CASE DropChannel(c)
      BY <1>0, <3>3 DEF DropChannel, Ready
    <3> QED
      BY <2>3, <3>1, <3>2, <3>3 DEF UserStep
  <2>4. ASSUME NEW c \in Channel, FinishWrite(c) \/ SayClosed(c)
        PROVE  (ready => ready') /\ (~ready' => channel' = channel)
    BY <1>0, <2>4 DEF FinishWrite, SayClosed, Ready
  <2>5. CASE SomSaysReset \/ HubStep \/ PtyLoses \/ UNCHANGED vars \/ \E k \in Conn : DaemonStep(k) \/ ReaderStep(k)
    <3>1. UNCHANGED <<ready, channel>>
      BY <2>5 DEF SomSaysReset, HubStep, HubSkips, HubCloses, HubDelivers, HubConnects, HubCannotDeliver,
                  HubBreaks, HubSaysReset, PtyLoses, DaemonStep, DaemonAnswers, DaemonHangsUp,
                  ReaderStep, ReaderSends, ReaderEnds, ReaderReports, som, users, vars, state
    <3> QED
      BY <3>1 DEF Ready
  <2> QED
    BY <2>1, <2>2, <2>3, <2>4, <2>5 DEF Next, SomStep, Ready
<1>2. ready' /\ ~broken' => somDecoder'.last # NoSeq
  <2>1. CASE SomTakes
    <3>1. toSom # <<>> /\ toSom[1] \in Frame /\ somDecoder' = Decoded(somDecoder, toSom[1])
      BY <1>0, <2>1, QueueTail DEF SomTakes
    <3>2. toSom[1].seq \in 0 .. SeqMod - 1
      BY <3>1 DEF Frame
    <3>3. Decoded(somDecoder, toSom[1]).last = toSom[1].seq
      BY DEF Decoded, Repeated
    <3> QED
      BY <3>1, <3>2, <3>3, LinkAssumption
  <2>2. CASE SomBreaks
    BY <2>2 DEF SomBreaks
  <2>3. CASE ~SomTakes /\ ~SomBreaks
    <3> USE DEF som, users
    <3>1. CASE \E c \in Channel : UserStep(c) \/ FinishWrite(c) \/ SayClosed(c)
      <4>1. UNCHANGED <<ready, somDecoder>>
        BY <3>1 DEF UserStep, OpenChannel, StartWrite, DropChannel, FinishWrite, SayClosed
      <4>2. UNCHANGED broken
        BY <3>1 DEF UserStep, OpenChannel, StartWrite, DropChannel, FinishWrite, SayClosed
      <4> QED
        BY <4>1, <4>2 DEF Ready
    <3>2. CASE \E k \in Conn : DaemonStep(k) \/ ReaderStep(k)
      <4>1. UNCHANGED <<ready, somDecoder>>
        BY <3>2 DEF DaemonStep, DaemonAnswers, DaemonHangsUp, ReaderStep, ReaderSends, ReaderEnds,
                    ReaderReports
      <4>2. UNCHANGED broken
        BY <3>2 DEF DaemonStep, DaemonAnswers, DaemonHangsUp, ReaderStep, ReaderSends, ReaderEnds,
                    ReaderReports
      <4> QED
        BY <4>1, <4>2 DEF Ready
    <3>3. CASE HubStep
      <4>1. UNCHANGED <<ready, somDecoder>>
        BY <3>3 DEF HubStep, HubSkips, HubCloses, HubDelivers, HubConnects, HubCannotDeliver, HubBreaks,
                    HubSaysReset
      <4>2. broken => broken'
        BY <3>3 DEF HubStep, HubSkips, HubCloses, HubDelivers, HubConnects, HubCannotDeliver, HubBreaks,
                    HubSaysReset
      <4> QED
        BY <4>1, <4>2 DEF Ready
    <3>4. CASE SomSaysReset \/ PtyLoses \/ UNCHANGED vars
      <4>1. UNCHANGED <<ready, broken>>
        BY <3>4 DEF SomSaysReset, PtyLoses, vars, state
      <4>2. UNCHANGED somDecoder
        BY <3>4 DEF SomSaysReset, PtyLoses, vars, state
      <4> QED
        BY <4>1, <4>2 DEF Ready
    <3> QED
      BY <2>3, <3>1, <3>2, <3>3, <3>4 DEF Next, SomStep
  <2> QED
    BY <2>1, <2>2, <2>3
<1>3. hubDecoder'.last = NoSeq => \A c \in Channel : entry'[c] = 0
  <2>1. CASE AskRests
    BY <2>1 DEF AskRests, Ready
  <2>2. CASE AskSends
    BY <2>2 DEF AskSends, Ready
  <2>3. CASE AskTakes
    <3>1. toRelay # <<>> /\ hubDecoder'.last = toRelay[1].seq
      BY <2>3 DEF AskTakes, Takes
    <3>2. toRelay[1].seq \in 0 .. SeqMod - 1
      BY <1>0, <3>1, QueueTail
    <3> QED
      BY <3>1, <3>2, LinkAssumption
  <2>4. CASE AskFails
    BY <2>4 DEF AskFails
  <2>5. CASE AskLoses
    BY <2>5 DEF AskLoses, Ready
  <2> QED
    BY <2>1, <2>2, <2>3, <2>4, <2>5, AskStep
<1> QED
  BY <1>1, <1>2, <1>3 DEF Ready

\* Every step keeps the frames numbered.
LEMMA NumbersKept ==
    ASSUME TypeInv, Numbers, NoWrap, [Next]_vars
    PROVE  Numbers'
<1> DEFINE q == toRelay
           n == nextSeq.som
           l == hubDecoder.last
           r == toSom
           m == nextSeq.hub
           o == somDecoder.last
           k == faults
<1>0. /\ Direction(q, n, l, k) /\ Direction(r, m, o, k) /\ k \in Nat
      /\ Numbered(q, n, l, k) /\ Numbered(r, m, o, k) /\ (k < MaxFaults => k + 3 <= SeqMod)
      /\ r \in Seq(Frame) /\ somDecoder \in Decoder
  <2>1. TypeOK
    BY DEF TypeInv
  <2> QED
    BY <2>1, Ways DEF Numbers, TypeOK
<1> HIDE DEF q, n, l, r, m, o, k
<1>1. Numbered(toRelay', nextSeq'.som, hubDecoder'.last, faults')
  <2>1. CASE AskRests
    BY <1>0, <2>1, MoreLost DEF AskRests, q, n, l, k
  <2>2. CASE AskSends
    <3>1. \E f \in Frame : f.seq = n /\ toRelay' = Append(q, f)
      BY <2>2 DEF AskSends, q, n
    <3>2. nextSeq'.som = NextNumber(n) /\ hubDecoder'.last = l /\ faults' = k
      BY <2>2 DEF AskSends, n, l, k
    <3> QED
      BY <1>0, <3>1, <3>2, SendNumbered
  <2>3. CASE AskTakes
    <3>1. Takes(q, l, toRelay', hubDecoder'.last) /\ nextSeq'.som = n /\ faults' \in Nat
      BY <1>0, <2>3 DEF AskTakes, q, n, l, k
    <3> QED
      BY <1>0, <3>1, TakeNumbered
  <2>4. CASE AskFails
    <3>1. Fails(q, l, toRelay', hubDecoder'.last) /\ nextSeq'.som = n
      BY <2>4 DEF AskFails, q, n, l
    <3> QED
      BY <1>0, <3>1, FailNumbered
  <2>5. CASE AskLoses
    <3>1. /\ q # <<>> /\ toRelay' = Tail(q) /\ k < MaxFaults /\ faults' = k + 1
          /\ nextSeq'.som = n /\ hubDecoder'.last = l
      BY <2>5 DEF AskLoses, q, n, l, k
    <3> QED
      BY <1>0, <3>1, LoseNumbered
  <2> QED
    BY <2>1, <2>2, <2>3, <2>4, <2>5, AskStep
<1>2. Numbered(toSom', nextSeq'.hub, somDecoder'.last, faults')
  <2>1. CASE HearRests
    BY <1>0, <2>1, MoreLost DEF HearRests, r, m, o, k
  <2>2. CASE HearSends
    <3>1. \E f \in Frame : f.seq = m /\ toSom' = Append(r, f)
      BY <2>2 DEF HearSends, r, m
    <3>2. nextSeq'.hub = NextNumber(m) /\ somDecoder'.last = o /\ faults' \in {k, k + 1}
      BY <2>2 DEF HearSends, m, o, k
    <3>3. Numbered(toSom', nextSeq'.hub, o, k)
      BY <1>0, <3>1, <3>2, SendNumbered
    <3> QED
      BY <1>0, <3>2, <3>3, MoreLost
  <2>3. CASE SomTakes
    <3>1. /\ r # <<>> /\ HandsOn(r, toSom') /\ ~Breaks(somDecoder, r[1])
          /\ somDecoder' = Decoded(somDecoder, r[1]) /\ nextSeq'.hub = m
      BY <1>0, <2>3, QueueTail DEF SomTakes, r, m
    <3>2. Takes(r, o, toSom', somDecoder'.last) /\ faults' \in Nat
      BY <1>0, <3>1, TakesOrFails, FaultSteps DEF o, k
    <3> QED
      BY <1>0, <3>1, <3>2, TakeNumbered
  <2>4. CASE HearFails
    <3>1. Fails(r, o, toSom', somDecoder'.last) /\ nextSeq'.hub = m
      BY <2>4 DEF HearFails, r, m, o
    <3> QED
      BY <1>0, <3>1, FailNumbered
  <2>5. CASE HearLoses
    <3>1. /\ r # <<>> /\ toSom' = Tail(r) /\ k < MaxFaults /\ faults' = k + 1
          /\ nextSeq'.hub = m /\ somDecoder'.last = o
      BY <2>5 DEF HearLoses, r, m, o, k
    <3> QED
      BY <1>0, <3>1, LoseNumbered
  <2> QED
    BY <2>1, <2>2, <2>3, <2>4, <2>5, HearStep
<1> QED
  BY <1>1, <1>2 DEF Numbers

\* A channel that is opened has nothing behind it.
LEMMA Opened ==
    ASSUME TypeInv, NEW c \in Channel, channel[c] = "new"
    PROVE  /\ Begun(somDecoder.partial[c], Current(c), Position(c), Parts[c])
           /\ Gotten(sent[c], Current(c), Position(c))
           /\ \A q, n, l : Sound(q, l, c, sent[c], Parts[c]) =>
                Arriving(q, n, l, c, Current(c), Position(c), sent[c], Parts[c])
<1>0. TypeOK /\ Chain(c)
  BY DEF TypeInv
<1>1. /\ wrote[c] = 0 /\ ~writing[c] /\ heard[c] = <<>>
  BY <1>0 DEF Chain
<1>2. Sent(c) = 0
  <2>1. Sent(c) = wrote[c] - 0
    BY ONLY <1>1, Zenon DEF Sent
  <2> QED
    BY ONLY <1>1, <2>1
<1>3. asked[c] = 0
  <2>1. asked[c] <= Sent(c) /\ asked[c] \in Nat
    BY ChainFacts
  <2> QED
    BY ONLY <1>2, <2>1
<1>4. said[c] = 0 /\ somDecoder.partial[c] = <<>>
  <2>1. said[c] \in 0 .. Len(Parts[c]) /\ Len(Parts[c]) \in Nat
    BY <1>0, ChannelTypes, PlanTypes
  <2>2. ~(asked[c] > 0)
    BY <1>3
  <2> QED
    BY <1>0, <2>1, <2>2 DEF Chain
<1>5. sent[c].answer = 0 /\ sent[c].part = 0
  <2>1. Answers(sent[c], Parts[c]) /\ sent[c].answer <= said[c]
    BY HearFacts, ChainFacts
  <2> QED
    BY <1>4, <2>1 DEF Answers
<1>6. Len(heard[c]) = 0 /\ Len(somDecoder.partial[c]) = 0
  BY <1>1, <1>4
<1>7. Current(c) = 1 /\ Position(c) = 0
  BY <1>6 DEF Current, Position
<1>8. Begun(<<>>, 1, 0, Parts[c])
  <2>1. <<>> = FirstPieces(1, 0)
    BY DEF FirstPieces
  <2> QED
    BY <2>1 DEF Begun
<1>9. Gotten(sent[c], 1, 0)
  BY <1>5 DEF Gotten
<1>10. \A b \in 1 .. Len(Parts[c]) : \A k : ~IsSent(sent[c], b, k)
  BY <1>5 DEF IsSent
<1>11. ASSUME NEW q, NEW n, NEW l, Sound(q, l, c, sent[c], Parts[c])
       PROVE  Arriving(q, n, l, c, 1, 0, sent[c], Parts[c])
  BY <1>10, <1>11 DEF Arriving, Sound
<1> QED
  BY <1>4, <1>7, <1>8, <1>9, <1>11

\* Som takes a frame.
LEMMA Taken ==
    ASSUME TypeInv, Numbers, NoWrap, SomTakes, NEW c \in Channel, HearOrder(c), Hearing(c),
           UNCHANGED plan
    PROVE  HearOrder(c)' /\ Hearing(c)'
<1>0. /\ TypeOK /\ toSom \in Seq(Frame) /\ somDecoder \in Decoder /\ heard \in [Channel -> Seq(Nat)]
      /\ heard[c] \in Seq(Nat)
      /\ channel \in [Channel -> {"new", "open", "ended", "dropped", "closed"}]
      /\ Direction(toSom, nextSeq.hub, somDecoder.last, faults) /\ faults \in Nat
  BY Ways DEF TypeInv, TypeOK
<1> DEFINE q == toSom
           n == nextSeq.hub
           l == somDecoder.last
           f == toSom[1]
           s == sent[c]
           w == Parts[c]
           a == Current(c)
           p == Position(c)
<1>1. /\ toSom # <<>> /\ Head(toSom) = f /\ f \in Frame /\ AnswerFrame(f) /\ ~Breaks(somDecoder, f)
      /\ HandsOn(toSom, toSom') /\ somDecoder' = Decoded(somDecoder, f)
      /\ UNCHANGED <<nextSeq, sent>>
  BY <1>0, QueueTail DEF SomTakes, readers, TypeInv, Frames
<1>2. /\ Takes(q, l, toSom', somDecoder'.last) /\ faults' \in Nat
  BY <1>0, <1>1, TakesOrFails, FaultSteps
<1>3. /\ Answers(s, w) /\ Sound(q, l, c, s, w) /\ a \in Nat \ {0} /\ p \in Nat
      /\ 1 \in Live(q, l, c) => f.of = w[f.message]
  BY HearFacts DEF HearLive
<1>4. /\ Whole(toSom', n, somDecoder'.last)
      /\ f.kind # "reset" => Whole(q, n, l)
  BY <1>0, <1>2, TakeNumbered
<1>5. PICK d \in {0, 1} : /\ Shifted(q, l, toSom', somDecoder'.last, c, d)
                          /\ \A i \in Live(toSom', somDecoder'.last, c) : i + d # 1
  BY <1>0, <1>2, TakeLive
<1>6. HearOrder(c)'
  <2>1. Sorted(toSom', somDecoder'.last, c)
    BY <1>5, SortedShifted DEF HearOrder
  <2> QED
    BY <2>1 DEF HearOrder
<1>7. Hearing(c)' <=>
        (channel'[c] = "open" =>
            /\ Begun(somDecoder'.partial[c], Len(heard'[c]) + 1, Len(somDecoder'.partial[c]), w)
            /\ Gotten(s, Len(heard'[c]) + 1, Len(somDecoder'.partial[c]))
            /\ Arriving(toSom', n, somDecoder'.last, c, Len(heard'[c]) + 1,
                        Len(somDecoder'.partial[c]), s, w))
  BY <1>1 DEF Hearing, Current, Position, Parts
<1>8. 1 \in Live(q, l, c) <=> f.seq # l /\ f.kind = "data" /\ f.channel = c
  <2>1. 1 \in 1 .. Len(toSom)
    BY <1>0, <1>1, QueueTail
  <2> QED
    BY <2>1 DEF Live
<1>9. Completes(somDecoder, f) <=> ~Repeated(somDecoder, f) /\ f.part = f.of
  BY DEF Completes
<1>10. channel'[c] = "open" =>
        /\ channel[c] = "open"
        /\ Completes(somDecoder, f) => f.kind \notin {"hello", "reset"} /\ ~(f.kind = "close" /\ f.channel = c)
  BY <1>0, <1>1 DEF SomTakes, NoChannels
<1>11. heard'[c] = IF f.kind = "data" /\ f.channel = c /\ Completes(somDecoder, f) /\ channel[c] = "open"
                   THEN Append(heard[c], IF IsWhole(somDecoder, f) THEN f.message ELSE Garbled)
                   ELSE heard[c]
  BY <1>0, <1>1 DEF SomTakes
<1>12. somDecoder'.partial[c] =
            IF Repeated(somDecoder, f) THEN somDecoder.partial[c]
            ELSE IF f.kind \in {"hello", "reset"} THEN <<>>
            ELSE IF f.channel # c THEN somDecoder.partial[c]
            ELSE IF f.part < f.of THEN Append(somDecoder.partial[c], <<f.message, f.part>>)
            ELSE <<>>
  BY <1>0, <1>1, DecodedTypes
<1>13. channel[c] = "open" =>
         /\ Begun(somDecoder.partial[c], a, p, w) /\ Gotten(s, a, p) /\ Arriving(q, n, l, c, a, p, s, w)
  BY DEF Hearing
<1>14. Sorted(q, l, c)
  BY DEF HearOrder
<1>15. a = Len(heard[c]) + 1 /\ p = Len(somDecoder.partial[c])
  BY DEF Current, Position
<1>16. f.kind # "data" => f.part = f.of
  BY <1>1 DEF AnswerFrame
<1>17. Repeated(somDecoder, f) <=> f.kind # "reset" /\ f.seq = l
  BY DEF Repeated
<1> HIDE DEF q, n, l, f, s, w, a, p
<1>18. CASE 1 \notin Live(q, l, c)
  <2> SUFFICES ASSUME channel'[c] = "open" PROVE Hearing(c)'
    BY <1>6, <1>7
  <2>1. channel[c] = "open"
    BY <1>10, <1>18
  <2>2. f.kind # "reset" /\ heard'[c] = heard[c] /\ somDecoder'.partial[c] = somDecoder.partial[c]
    BY <1>8, <1>9, <1>10, <1>11, <1>12, <1>16, <1>17, <1>18, <1>1 DEF Frame
  <2>3. Arriving(toSom', n, somDecoder'.last, c, a, p, s, w)
    BY <1>3, <1>4, <1>5, <1>13, <1>18, <2>1, <2>2, Passed
  <2> QED
    BY <1>7, <1>13, <1>15, <2>1, <2>2, <2>3
<1>19. CASE 1 \in Live(q, l, c)
  <2> SUFFICES ASSUME channel'[c] = "open" PROVE Hearing(c)'
    BY <1>6, <1>7
  <2>1. /\ channel[c] = "open" /\ f.seq # l /\ f.kind = "data" /\ f.channel = c
        /\ ~Repeated(somDecoder, f) /\ Whole(q, n, l) /\ f.of = w[f.message]
    BY <1>3, <1>4, <1>8, <1>10, <1>17, <1>19
  <2>2. Begun(somDecoder.partial[c], a, p, w) /\ Gotten(s, a, p) /\ Arriving(q, n, l, c, a, p, s, w)
    BY <1>13, <2>1
  <2>3. /\ f.message = a /\ f.part = p + 1 /\ a \in 1 .. Len(w) /\ p + 1 \in 1 .. w[a] /\ w[a] \in Nat
    <3>1. AtHead(q, n, l, c, somDecoder.partial[c], a, p, s, w)
      BY <1>3, <1>14, <1>19, <2>1, <2>2 DEF AtHead
    <3> QED
      BY <3>1, HeadIsNext DEF f, q
  <2>4. /\ p + 1 < w[a] =>
              /\ Begun(Append(somDecoder.partial[c], <<a, p + 1>>), a, p + 1, w)
              /\ Gotten(s, a, p + 1) /\ Arriving(toSom', n, somDecoder'.last, c, a, p + 1, s, w)
        /\ p + 1 = w[a] =>
              /\ Append(somDecoder.partial[c], <<a, p + 1>>) = FirstPieces(a, w[a])
              /\ Begun(<<>>, a + 1, 0, w)
              /\ Gotten(s, a + 1, 0) /\ Arriving(toSom', n, somDecoder'.last, c, a + 1, 0, s, w)
    <3>1. AtHead(q, n, l, c, somDecoder.partial[c], a, p, s, w)
      BY <1>3, <1>14, <1>19, <2>1, <2>2 DEF AtHead
    <3> QED
      BY ONLY <1>5, <3>1, PieceTaken
  <2>5. CASE p + 1 < w[a]
    <3>1. heard'[c] = heard[c] /\ somDecoder'.partial[c] = Append(somDecoder.partial[c], <<a, p + 1>>)
      BY <1>9, <1>11, <1>12, <2>1, <2>3, <2>5
    <3>2. Len(somDecoder'.partial[c]) = p + 1
      <4>1. somDecoder.partial[c] \in Seq(Nat \X Nat) /\ <<a, p + 1>> \in Nat \X Nat
        BY <1>0, <1>3 DEF Decoder
      <4> QED
        BY <1>15, <3>1, <4>1, AppendProperties
    <3> QED
      BY <1>7, <1>15, <2>4, <2>5, <3>1, <3>2
  <2>6. CASE p + 1 = w[a]
    <3>1. Completes(somDecoder, f) /\ somDecoder'.partial[c] = <<>>
      BY <1>9, <1>12, <2>1, <2>3, <2>6
    <3>2. heard'[c] \in Seq(Nat) /\ Len(heard'[c]) = Len(heard[c]) + 1
      <4>1. PICK e \in Nat : heard'[c] = Append(heard[c], e)
        BY <1>1, <1>11, <2>1, <3>1 DEF Garbled, Frame
      <4> QED
        BY <1>0, <4>1, AppendProperties
    <3>3. Len(<<>>) = 0
      OBVIOUS
    <3> QED
      BY <1>7, <1>15, <2>4, <2>6, <3>1, <3>2, <3>3
  <2> QED
    BY <2>3, <2>5, <2>6
<1> QED
  BY <1>18, <1>19

\* Every step keeps the direction to Som in order.
LEMMA HearKept ==
    ASSUME TypeInv, TypeInv', Numbers, Ready, NoWrap, ~FailsLater, [Next]_vars,
           NEW c \in Channel, HearOrder(c), Hearing(c)
    PROVE  HearOrder(c)' /\ Hearing(c)'
<1> DEFINE q == toSom
           n == nextSeq.hub
           l == somDecoder.last
           k == faults
           s == sent[c]
           w == Parts[c]
           a == Current(c)
           p == Position(c)
<1>0. /\ Direction(q, n, l, k) /\ k \in Nat /\ Numbered(q, n, l, k) /\ q \in Seq(Frame)
      /\ (k < MaxFaults => k + 3 <= SeqMod) /\ plan' = plan
      /\ channel \in [Channel -> {"new", "open", "ended", "dropped", "closed"}]
  <2>1. TypeOK
    BY DEF TypeInv
  <2>2. plan' = plan
    BY DEF Next, vars
  <2> QED
    BY <2>1, <2>2, Ways DEF Numbers, TypeOK
<1>1. /\ Answers(s, w) /\ Sound(q, l, c, s, w) /\ a \in Nat \ {0} /\ p \in Nat
  BY HearFacts
<1>2. Sorted(q, l, c)
  BY DEF HearOrder
<1>3. channel[c] = "open" =>
         /\ Begun(somDecoder.partial[c], a, p, w) /\ Gotten(s, a, p) /\ Arriving(q, n, l, c, a, p, s, w)
  BY DEF Hearing
<1>4. ASSUME UNCHANGED <<heard, somDecoder>>
      PROVE  /\ Hearing(c)' <=>
                (channel'[c] = "open" =>
                    /\ Begun(somDecoder.partial[c], a, p, w) /\ Gotten(sent'[c], a, p)
                    /\ Arriving(toSom', nextSeq'.hub, l, c, a, p, sent'[c], w))
             /\ HearOrder(c)' <=> Sorted(toSom', l, c)
             /\ somDecoder'.last = l
  BY <1>0, <1>4 DEF Hearing, HearOrder, Current, Position, Parts
<1> HIDE DEF q, n, l, k, s, w, a, p
<1>5. CASE HearRests
  <2>1. /\ toSom' = q /\ nextSeq'.hub = n /\ sent'[c] = s
        /\ UNCHANGED <<heard, somDecoder>> /\ (channel'[c] = "open" => channel[c] \in {"new", "open"})
    BY <1>5 DEF HearRests, q, n, s
  <2>3. channel[c] = "new" =>
            /\ Begun(somDecoder.partial[c], a, p, w) /\ Gotten(s, a, p)
            /\ Arriving(q, n, l, c, a, p, s, w)
    BY <1>1, Opened DEF a, p, s, w
  <2>4. HearOrder(c)' /\ somDecoder'.last = l
    BY <1>2, <1>4, <2>1
  <2>5. Hearing(c)'
    BY <1>3, <1>4, <2>1, <2>3
  <2> QED
    BY <2>4, <2>5
<1>6. CASE HearSends
  <2>1. PICK f \in Frame :
            /\ f.seq = n /\ toSom' = Append(q, f)
            /\ IF f.kind = "data" /\ f.channel = c THEN NextPiece(s, f, sent'[c], w) ELSE sent'[c] = s
    BY <1>6 DEF HearSends, q, n, s, w
  <2>2. /\ nextSeq'.hub = NextNumber(n) /\ UNCHANGED <<channel, heard, somDecoder>>
    BY <1>6 DEF HearSends, n
  <2>4. CASE f.kind = "data" /\ f.channel = c
    <3>1. sent'[c].part \in Nat
      <4>1. TypeOK'
        BY DEF TypeInv
      <4> QED
        BY <4>1 DEF TypeOK
    <3>2. /\ Sorted(toSom', l, c)
          /\ Gotten(s, a, p) /\ Arriving(q, n, l, c, a, p, s, w) =>
                Gotten(sent'[c], a, p) /\ Arriving(toSom', nextSeq'.hub, l, c, a, p, sent'[c], w)
      BY <1>0, <1>1, <1>2, <2>1, <2>2, <2>4, <3>1, PieceSent
    <3>3. HearOrder(c)'
      BY <1>4, <2>2, <3>2
    <3>4. Hearing(c)'
      BY <1>3, <1>4, <2>2, <3>2
    <3> QED
      BY <3>3, <3>4
  <2>5. CASE ~(f.kind = "data" /\ f.channel = c)
    <3>1. /\ Sorted(toSom', l, c) /\ sent'[c] = s
          /\ Arriving(q, n, l, c, a, p, s, w) => Arriving(toSom', nextSeq'.hub, l, c, a, p, s, w)
      BY <1>0, <1>2, <2>1, <2>2, <2>5, OtherSent
    <3>2. HearOrder(c)'
      BY <1>4, <2>2, <3>1
    <3>3. Hearing(c)'
      BY <1>3, <1>4, <2>2, <3>1
    <3> QED
      BY <3>2, <3>3
  <2> QED
    BY <2>4, <2>5
<1>7. CASE SomTakes
  BY <1>0, <1>7, Taken
<1>8. CASE HearFails
  <2>1. /\ Fails(q, l, toSom', somDecoder'.last) /\ nextSeq'.hub = n /\ channel'[c] # "open"
    BY <1>8 DEF HearFails, q, n, l
  <2>3. PICK d \in {0, 1} : Shifted(q, l, toSom', somDecoder'.last, c, d)
    BY <1>0, <2>1, FailLive
  <2>4. Sorted(toSom', somDecoder'.last, c)
    BY <1>2, <2>3, SortedShifted
  <2>5. HearOrder(c)'
    BY <2>4 DEF HearOrder
  <2>6. Hearing(c)'
    BY <2>1 DEF Hearing
  <2> QED
    BY <2>5, <2>6
<1>9. CASE HearLoses
  <2>1. /\ q # <<>> /\ toSom' = Tail(q) /\ k < MaxFaults /\ faults' = k + 1 /\ ~broken
        /\ UNCHANGED <<nextSeq, channel, heard, somDecoder>> /\ nextSeq'.hub = n /\ sent'[c] = s
    BY <1>9 DEF HearLoses, q, n, k, s
  <2>2. l # NoSeq /\ Whole(toSom', n, l) => Copied(q, l)
    BY <1>0, <2>1, LoseNumbered
  <2>3. Shifted(q, l, toSom', l, c, 1) /\ (Copied(q, l) => 1 \notin Live(q, l, c))
    BY <1>0, <2>1, LoseLive
  <2>4. HearOrder(c)'
    <3>1. Sorted(toSom', l, c)
      BY <1>2, <2>3, SortedShifted
    <3> QED
      BY <1>4, <2>1, <3>1
  <2>5. ASSUME channel'[c] = "open" PROVE Arriving(toSom', n, l, c, a, p, s, w)
    <3>1. l # NoSeq
      <4>1. ready
        BY <2>1, <2>5 DEF Ready
      <4> QED
        BY <2>1, <4>1 DEF Ready, l
    <3>2. Arriving(q, n, l, c, a, p, s, w)
      BY <1>3, <2>1, <2>5
    <3>3. CASE Whole(toSom', n, l)
      <4>1. Copied(q, l) /\ 1 \notin Live(q, l, c)
        BY <2>2, <2>3, <3>1, <3>3
      <4>2. Whole(q, n, l)
        BY <4>1 DEF Whole
      <4> QED
        BY <1>1, <2>3, <3>2, <4>1, <4>2, Passed
    <3>4. CASE ~Whole(toSom', n, l)
      BY <2>3, <3>2, <3>4 DEF Arriving, Shifted
    <3> QED
      BY <3>3, <3>4
  <2>6. Hearing(c)'
    BY <1>3, <1>4, <2>1, <2>5
  <2> QED
    BY <2>4, <2>6
<1> QED
  BY <1>5, <1>6, <1>7, <1>8, <1>9, HearStep

-----------------------------------------------------------------------------
(* The order holds.                                                        *)

LEMMA OrderInit == Init => Inv
<1> SUFFICES ASSUME Init PROVE Inv
  OBVIOUS
<1>1. TypeInv
  BY InitInv
<1>2. 0 \in 0 .. SeqMod - 1 /\ NextNumber(0) \in 0 .. SeqMod - 1
  BY LinkAssumption DEF NextNumber
<1>3. PICK f : f = Sealed(0, Note("hello", 0))
  OBVIOUS
<1>4. f \in Frame /\ f.seq = 0 /\ f.kind = "hello"
  BY <1>2, <1>3, NoteTypes
<1>5. /\ toSom = <<f>> /\ toRelay = <<>> /\ nextSeq.som = 0 /\ nextSeq.hub = NextNumber(0)
      /\ somDecoder.last = NoSeq /\ hubDecoder.last = NoSeq
      /\ \A c \in Channel : channel[c] = "new" /\ entry[c] = 0
      /\ ready = FALSE
  BY <1>3 DEF Init, Fresh
<1>6. Len(toSom) = 1 /\ toSom[1] = f /\ Len(toRelay) = 0
  BY <1>5
<1>7. Numbers
  <2>1. Consecutive(toSom, nextSeq.hub) /\ Consecutive(toRelay, nextSeq.som)
    BY <1>4, <1>5, <1>6 DEF Consecutive
  <2> QED
    BY <1>5, <2>1 DEF Numbers, Numbered
<1>8. Ready
  BY <1>5 DEF Ready
<1>9. ASSUME NEW c \in Channel PROVE AskOrder(c) /\ AskNext(c) /\ HearOrder(c) /\ Hearing(c)
  <2>1. AskLive(c) = {} /\ Live(toSom, somDecoder.last, c) = {}
    BY <1>4, <1>6 DEF AskLive, Live
  <2> QED
    BY <1>5, <2>1 DEF AskOrder, AskNext, HearOrder, Sorted, Hearing
<1> QED
  BY <1>1, <1>7, <1>8, <1>9 DEF Inv

LEMMA OrderNext == ASSUME NoWrap, ~FailsLater PROVE Inv /\ [Next]_vars => Inv'
<1> SUFFICES ASSUME Inv, [Next]_vars PROVE Inv'
  OBVIOUS
<1>1. TypeInv /\ Numbers /\ Ready
  BY DEF Inv
<1>2. TypeInv'
  BY <1>1, NextInv
<1>3. Ready'
  BY <1>1, ReadyKept
<1>4. Numbers'
  BY <1>1, NumbersKept
<1>5. ASSUME NEW c \in Channel PROVE AskOrder(c)' /\ AskNext(c)'
  BY <1>1, <1>2, AskKept DEF Inv
<1>6. ASSUME NEW c \in Channel PROVE HearOrder(c)' /\ Hearing(c)'
  BY <1>1, <1>2, HearKept DEF Inv
<1> QED
  BY <1>2, <1>3, <1>4, <1>5, <1>6 DEF Inv

\* The frames of each direction are numbered, and of each channel in order, with
\* nothing missing that the channel has yet to get.
THEOREM OrderHolds == ASSUME NoWrap, ~FailsLater PROVE Spec => []Inv
<1> QED
  BY OrderInit, OrderNext, PTL DEF Spec

-----------------------------------------------------------------------------
(* What each step is of a conversation.                                    *)

\* A step that only ends channels, if that.
LEMMA Shuts ==
    ASSUME UNCHANGED <<wrote, asked, said, heard>>,
           \A c \in Channel : channel'[c] = "open" => channel[c] = "open"
    PROVE  Promise!Shut
<1> DEFINE over == {c \in Channel : channel'[c] # "open"}
<1>1. over \in SUBSET Channel
  OBVIOUS
<1>2. \A c \in Channel :
        (channel'[c] = "open") <=> ([d \in Channel |-> channel[d] = "open"][c] /\ c \notin over)
  OBVIOUS
<1>3. [c \in Channel |-> channel'[c] = "open"]
        = [c \in Channel |-> [d \in Channel |-> channel[d] = "open"][c] /\ c \notin over]
  BY <1>2
<1> QED
  BY <1>1, <1>3 DEF Promise!Shut

\* What the users of Som's channels do.
LEMMA UserSpeaks ==
    ASSUME Inv, NEW c \in Channel, UserStep(c) \/ FinishWrite(c) \/ SayClosed(c)
    PROVE  Promise!Next
<1>0. /\ TypeInv /\ wrote \in [Channel -> Nat]
      /\ channel \in [Channel -> {"new", "open", "ended", "dropped", "closed"}]
  BY DEF Inv, TypeInv, TypeOK
<1>1. CASE OpenChannel(c)
  <2>1. /\ channel[c] = "new" /\ channel' = [channel EXCEPT ![c] = "open"]
        /\ UNCHANGED <<wrote, asked, said, heard>>
    BY <1>1 DEF OpenChannel, daemon
  <2>2. wrote[c] = 0
    BY <1>0, <2>1 DEF TypeInv, Chain
  <2>3. \A d \in Channel : channel'[d] = IF d = c THEN "open" ELSE channel[d]
    BY <1>0, <2>1
  <2>4. [d \in Channel |-> channel'[d] = "open"]
          = [[d \in Channel |-> channel[d] = "open"] EXCEPT ![c] = TRUE]
    BY <2>3
  <2>5. ~[d \in Channel |-> channel[d] = "open"][c]
    BY <2>1
  <2>6. Promise!Open(c)
    BY <2>1, <2>2, <2>4, <2>5 DEF Promise!Open
  <2> QED
    BY <2>6 DEF Promise!Next
<1>2. CASE StartWrite(c)
  <2>1. /\ channel[c] = "open" /\ wrote' = [wrote EXCEPT ![c] = @ + 1]
        /\ UNCHANGED <<channel, asked, said, heard>>
    BY <1>2 DEF StartWrite, daemon
  <2>2. Promise!Write(c)
    BY <2>1 DEF Promise!Write
  <2> QED
    BY <2>2 DEF Promise!Next
<1>3. CASE DropChannel(c) \/ FinishWrite(c) \/ SayClosed(c)
  <2>1. UNCHANGED <<wrote, asked, said, heard>>
    BY <1>3 DEF DropChannel, FinishWrite, SayClosed, daemon
  <2>2. \A d \in Channel : channel'[d] = "open" => channel[d] = "open"
    BY <1>0, <1>3 DEF DropChannel, FinishWrite, SayClosed
  <2> QED
    BY <2>1, <2>2, Shuts DEF Promise!Next
<1> QED
  BY <1>1, <1>2, <1>3 DEF UserStep

\* What the hub makes of a frame: the daemon gets the next message, if the channel's
\* connection is the one that it serves.
LEMMA HubAsks ==
    ASSUME Inv, NoWrap, HubStep
    PROVE  Promise!Next
<1>0. /\ TypeOK /\ TypeInv /\ Numbers /\ toRelay \in Seq(Frame) /\ asked \in [Channel -> Nat]
      /\ entry \in [Channel -> Nat] /\ hubDecoder \in Decoder
      /\ Direction(toRelay, nextSeq.som, hubDecoder.last, faults)
  BY Ways DEF Inv, TypeInv, TypeOK
<1>1. UNCHANGED <<channel, wrote, said, heard>>
  BY DEF HubStep, HubSkips, HubCloses, HubDelivers, HubConnects, HubCannotDeliver, HubBreaks,
         HubSaysReset, som, users, daemon
<1>2. CASE UNCHANGED asked
  BY <1>1, <1>2, Shuts DEF Promise!Next
<1>3. CASE HubSkips \/ HubCloses \/ HubCannotDeliver \/ HubBreaks \/ HubSaysReset
  <2>1. UNCHANGED asked
    BY <1>3 DEF HubSkips, HubCloses, HubCannotDeliver, HubBreaks, HubSaysReset, daemon
  <2> QED
    BY <1>2, <2>1
<1> DEFINE f == toRelay[1]
<1>4. ASSUME HubDelivers \/ HubConnects
      PROVE  /\ f \in Frame /\ f.kind = "data" /\ f.channel \in Channel
             /\ f.message \in Nat /\ f.message <= Sent(f.channel) /\ Sent(f.channel) \in Int
             /\ 1 \in AskLive(f.channel) /\ Whole(toRelay, nextSeq.som, hubDecoder.last)
             /\ HubDelivers => /\ entry[f.channel] # 0
                               /\ asked' = IF entry[f.channel] = 1
                                           THEN [asked EXCEPT ![f.channel] = f.message] ELSE asked
             /\ HubConnects => asked' = IF f.message = 1 THEN [asked EXCEPT ![f.channel] = 1] ELSE asked
  <2>1. toRelay # <<>>
    BY <1>4 DEF HubDelivers, HubConnects
  <2>2. Head(toRelay) = f /\ 1 \in 1 .. Len(toRelay) /\ f \in Frame
    BY <1>0, <2>1, QueueTail
  <2>3. AskFrame(f)
    BY <1>0, <2>2 DEF TypeInv, Frames
  <2>4. /\ ~Breaks(hubDecoder, f) /\ Completes(hubDecoder, f) /\ f.kind = "data"
        /\ HandsOn(toRelay, toRelay')
    BY <1>4, <2>2 DEF HubDelivers, HubConnects, HubReads
  <2>5. f.channel \in Channel /\ f.message \in Nat /\ f.message \in 1 .. Sent(f.channel)
    BY <2>2, <2>3, <2>4 DEF AskFrame, Frame
  <2>6. Sent(f.channel) \in Int
    BY <1>0, <2>5, ChainFacts
  <2>7. f.message <= Sent(f.channel)
    BY <2>5, <2>6
  <2>8. 1 \in AskLive(f.channel)
    BY <2>2, <2>4 DEF Completes, Repeated, AskLive, Live
  <2>9. Whole(toRelay, nextSeq.som, hubDecoder.last)
    <3>1. Takes(toRelay, hubDecoder.last, toRelay', Decoded(hubDecoder, f).last)
      BY <1>0, <2>1, <2>4, TakesOrFails
    <3>2. f.kind # "reset"
      BY <2>4
    <3>3. 0 \in Nat
      OBVIOUS
    <3> QED
      BY <1>0, <3>1, <3>2, <3>3, TakeNumbered
  <2> QED
    BY <1>4, <2>2, <2>4, <2>5, <2>6, <2>7, <2>8, <2>9 DEF HubDelivers, HubConnects
<1>5. ASSUME NEW c \in Channel, asked' = [asked EXCEPT ![c] = asked[c] + 1], asked[c] + 1 <= Sent(c)
      PROVE  Promise!Next
  <2>1. /\ Sent(c) \in Int /\ asked[c] \in Nat /\ Sent(c) <= wrote[c] /\ wrote[c] \in Nat
    <3>1. Sent(c) \in Int /\ asked[c] \in Nat
      BY <1>0, ChainFacts
    <3>2. wrote[c] \in Nat
      BY <1>0 DEF TypeOK
    <3>3. Sent(c) \in {wrote[c] - 1, wrote[c] - 0}
      BY Zenon DEF Sent
    <3> QED
      BY <3>1, <3>2, <3>3
  <2>2. asked[c] < wrote[c]
    BY <1>5, <2>1
  <2>3. Promise!Ask(c)
    BY <1>1, <1>5, <2>2 DEF Promise!Ask
  <2> QED
    BY <2>3 DEF Promise!Next
<1> HIDE DEF f
<1>6. CASE HubDelivers
  <2>1. CASE entry[f.channel] = 1
    <3>1. PICK c \in Channel : c = f.channel
      BY <1>4, <1>6
    <3>2. AskOrder(c) /\ AskNext(c)
      BY DEF Inv
    <3>3. /\ 1 \in AskLive(c) /\ asked[c] < f.message /\ f.message <= Sent(c)
          /\ f.message \in Nat /\ Sent(c) \in Int /\ asked[c] \in Nat
      BY <1>0, <1>4, <1>6, <2>1, <3>1, <3>2 DEF AskNext, f
    <3>4. asked[c] + 1 \in asked[c] + 1 .. Sent(c)
      BY <3>3
    <3>5. PICK i \in AskLive(c) : toRelay[i].message = asked[c] + 1
      BY <1>4, <1>6, <2>1, <3>1, <3>2, <3>4 DEF AskNext
    <3>6. i = 1
      <4> SUFFICES ASSUME i # 1 PROVE FALSE
        OBVIOUS
      <4>1. i \in Nat \ {0}
        BY <1>0, AskFacts
      <4>2. 1 < i
        BY <4>1
      <4>3. f.message < toRelay[i].message
        BY <3>2, <3>3, <4>2 DEF AskOrder, f
      <4> QED
        BY <3>3, <3>5, <4>3
    <3>7. f.message = asked[c] + 1
      BY <3>5, <3>6 DEF f
    <3> QED
      BY <1>4, <1>5, <1>6, <2>1, <3>1, <3>3, <3>7
  <2>2. CASE entry[f.channel] # 1
    BY <1>2, <1>4, <1>6, <2>2
  <2> QED
    BY <2>1, <2>2
<1>7. CASE HubConnects
  <2>1. CASE f.message = 1
    <3>1. PICK c \in Channel : c = f.channel
      BY <1>4, <1>7
    <3>2. AskOrder(c)
      BY DEF Inv
    <3>3. asked[c] = 0
      BY <1>4, <1>7, <2>1, <3>1, <3>2 DEF AskOrder, f
    <3>4. asked' = [asked EXCEPT ![c] = asked[c] + 1] /\ asked[c] + 1 <= Sent(c)
      BY <1>4, <1>7, <2>1, <3>1, <3>3
    <3> QED
      BY <1>5, <3>4
  <2>2. CASE f.message # 1
    BY <1>2, <1>4, <1>7, <2>2
  <2> QED
    BY <2>1, <2>2
<1> QED
  BY <1>3, <1>6, <1>7 DEF HubStep

\* What Som makes of a frame: the channel gets the next answer, if it is the last
\* piece of it.
LEMMA SomHears ==
    ASSUME Inv, NoWrap, SomTakes
    PROVE  Promise!Next
<1>0. /\ TypeOK /\ TypeInv /\ Numbers /\ toSom \in Seq(Frame) /\ heard \in [Channel -> Seq(Nat)]
      /\ channel \in [Channel -> {"new", "open", "ended", "dropped", "closed"}]
      /\ somDecoder \in Decoder /\ Direction(toSom, nextSeq.hub, somDecoder.last, faults)
  BY Ways DEF Inv, TypeInv, TypeOK
<1> DEFINE f == toSom[1]
<1>1. /\ toSom # <<>> /\ Head(toSom) = f /\ 1 \in 1 .. Len(toSom) /\ f \in Frame
      /\ ~Breaks(somDecoder, f) /\ HandsOn(toSom, toSom')
      /\ UNCHANGED <<wrote, asked, said>>
  BY <1>0, QueueTail DEF SomTakes, daemon
<1>2. AnswerFrame(f)
  BY <1>0, <1>1 DEF TypeInv, Frames
<1>3. \A d \in Channel : channel'[d] = "open" => channel[d] = "open"
  BY <1>0, <1>1 DEF SomTakes, NoChannels
<1>4. CASE f.kind = "data" /\ Completes(somDecoder, f) /\ channel[f.channel] = "open"
  <2>1. PICK c \in Channel : c = f.channel
    BY <1>2, <1>4 DEF AnswerFrame
  <2>2. /\ channel' = channel
        /\ heard' = [heard EXCEPT ![c] =
                        Append(@, IF IsWhole(somDecoder, f) THEN f.message ELSE Garbled)]
    BY <1>1, <1>4, <2>1 DEF SomTakes
  <2> DEFINE s == sent[c]
             w == Parts[c]
             a == Current(c)
             p == Position(c)
  <2>3. /\ Answers(s, w) /\ Sound(toSom, somDecoder.last, c, s, w) /\ a \in Nat \ {0} /\ p \in Nat
        /\ 1 \in Live(toSom, somDecoder.last, c) => f.of = w[f.message]
    BY <1>0, HearFacts DEF HearLive
  <2>4. /\ Sorted(toSom, somDecoder.last, c) /\ Begun(somDecoder.partial[c], a, p, w)
        /\ Arriving(toSom, nextSeq.hub, somDecoder.last, c, a, p, s, w)
    BY <1>4, <2>1 DEF Inv, HearOrder, Hearing
  <2>5. 1 \in Live(toSom, somDecoder.last, c) /\ f.part = f.of
    BY <1>1, <1>4, <2>1 DEF Completes, Repeated, Live
  <2>6. PICK last : last = Decoded(somDecoder, f).last /\ Takes(toSom, somDecoder.last, toSom', last)
    BY <1>0, <1>1, TakesOrFails
  <2>7. Whole(toSom, nextSeq.hub, somDecoder.last)
    <3>1. f.kind # "reset" /\ 0 \in Nat
      BY <1>4
    <3> QED
      BY <1>0, <2>6, <3>1, TakeNumbered
  <2> HIDE DEF s, w, a, p
  <2>8. AtHead(toSom, nextSeq.hub, somDecoder.last, c, somDecoder.partial[c], a, p, s, w)
    BY <2>3, <2>4, <2>5, <2>7 DEF AtHead
  <2>9. f.message = a /\ f.part = p + 1 /\ IsSent(s, a, p + 1)
    BY <2>8, HeadIsNext
  <2>10. PICK d \in {0, 1} :
            /\ Shifted(toSom, somDecoder.last, toSom', last, c, d)
            /\ \A i \in Live(toSom', last, c) : i + d # 1
    BY <1>0, <2>6, TakeLive
  <2>11. p + 1 = w[a]
    BY <2>3, <2>5, <2>9
  <2>12. Append(somDecoder.partial[c], <<a, p + 1>>) = FirstPieces(a, w[a])
    <3>1. /\ p + 1 < w[a] =>
                /\ Begun(Append(somDecoder.partial[c], <<a, p + 1>>), a, p + 1, w)
                /\ Gotten(s, a, p + 1) /\ Arriving(toSom', nextSeq.hub, last, c, a, p + 1, s, w)
          /\ p + 1 = w[a] =>
                /\ Append(somDecoder.partial[c], <<a, p + 1>>) = FirstPieces(a, w[a])
                /\ Begun(<<>>, a + 1, 0, w)
                /\ Gotten(s, a + 1, 0) /\ Arriving(toSom', nextSeq.hub, last, c, a + 1, 0, s, w)
      BY ONLY <2>8, <2>10, PieceTaken
    <3> QED
      BY <2>11, <3>1
  <2>13. IsWhole(somDecoder, f)
    <3>1. Pieces(somDecoder, f) = FirstPieces(f.message, f.of)
      BY <2>1, <2>3, <2>5, <2>9, <2>12 DEF Pieces
    <3> QED
      BY <3>1 DEF IsWhole, FirstPieces
  <2>14. heard' = [heard EXCEPT ![c] = Append(heard[c], Len(heard[c]) + 1)]
    BY <2>2, <2>9, <2>13 DEF a, Current
  <2>15. Len(heard[c]) < said[c]
    <3>1. a <= s.answer
      BY <2>3, <2>9 DEF IsSent, Answers
    <3>2. s.answer <= said[c] /\ said[c] \in Nat /\ s.answer \in Nat /\ Len(heard[c]) \in Nat
      <4>1. heard[c] \in Seq(Nat) /\ said[c] \in Nat
        BY <1>0 DEF TypeOK
      <4> QED
        BY <1>0, <2>3, <4>1, ChainFacts, LenProperties DEF Answers, s
    <3> QED
      BY <3>1, <3>2 DEF a, Current
  <2>16. Promise!Hear(c)
    <3>1. [d1 \in Channel |-> channel[d1] = "open"][c]
      BY <1>4, <2>1
    <3> QED
      BY <1>1, <2>2, <2>14, <2>15, <3>1 DEF Promise!Hear
  <2> QED
    BY <2>16 DEF Promise!Next
<1>5. CASE ~(f.kind = "data" /\ Completes(somDecoder, f) /\ channel[f.channel] = "open")
  <2>1. UNCHANGED heard
    BY <1>1, <1>5 DEF SomTakes
  <2> QED
    BY <1>1, <1>3, <2>1, Shuts DEF Promise!Next
<1> QED
  BY <1>4, <1>5

\* Every step of the link is one of a conversation, or none that it can see.
LEMMA Steps ==
    ASSUME Inv, NoWrap, [Next]_vars
    PROVE  Promise!Next
<1>0. /\ TypeInv /\ said \in [Channel -> Nat]
      /\ channel \in [Channel -> {"new", "open", "ended", "dropped", "closed"}]
  BY DEF Inv, TypeInv, TypeOK
<1>1. ASSUME NEW c \in Channel, UserStep(c) \/ FinishWrite(c) \/ SayClosed(c) PROVE Promise!Next
  BY <1>1, UserSpeaks
<1>2. ASSUME SomBreaks \/ SomSaysReset \/ PtyLoses \/ UNCHANGED vars PROVE Promise!Next
  <2>1. UNCHANGED <<wrote, asked, said, heard>>
    BY <1>2 DEF SomBreaks, SomSaysReset, PtyLoses, som, users, daemon, vars, state
  <2>2. \A c \in Channel : channel'[c] = "open" => channel[c] = "open"
    BY <1>2 DEF SomBreaks, SomSaysReset, PtyLoses, som, users, vars, state, NoChannels
  <2> QED
    BY <2>1, <2>2, Shuts DEF Promise!Next
<1>3. ASSUME NEW k \in Conn, DaemonStep(k) \/ ReaderStep(k) PROVE Promise!Next
  <2>1. CASE k[2] = 1 /\ DaemonAnswers(k[1])
    <3>1. PICK c \in Channel : c = k[1]
      BY DEF Conn
    <3>2. /\ conn[<<c, 1>>] = "open" /\ said' = [said EXCEPT ![c] = @ + 1]
          /\ UNCHANGED <<channel, wrote, asked, heard>>
      BY <2>1, <3>1 DEF DaemonAnswers, som, users
    <3>3. <<c, 1>> \in Conn
      BY <2>1, <3>1 DEF Conn
    <3>4. asked[c] > 0
      BY <1>0, <3>2, <3>3, ChainFacts
    <3>5. Promise!Say(c)
      BY <3>2, <3>4 DEF Promise!Say
    <3> QED
      BY <3>5 DEF Promise!Next
  <2>2. CASE DaemonHangsUp(k) \/ ReaderStep(k)
    <3>1. UNCHANGED <<channel, wrote, asked, said, heard>>
      BY <2>2 DEF DaemonHangsUp, ReaderStep, ReaderSends, ReaderEnds, ReaderReports, som, users, daemon
    <3> QED
      BY <3>1, Shuts DEF Promise!Next
  <2> QED
    BY <1>3, <2>1, <2>2 DEF DaemonStep
<1> QED
  BY <1>1, <1>2, <1>3, HubAsks, SomHears DEF Next, SomStep

\* The link is what a connection to the daemon is, if frames go wrong in the pty
\* fewer times than there are numbers for them, and none does once an end has
\* started over: no message or answer is skipped, repeated or garbled.
THEOREM PromiseKept == ASSUME NoWrap, ~FailsLater PROVE Spec => KeepsPromise
<1>1. Init => Promise!Init
  BY DEF Init, Promise!Init
<1>2. Inv /\ [Next]_vars => [Promise!Next]_(Promise!vars)
  BY Steps
<1> QED
  BY <1>1, <1>2, OrderHolds, PTL DEF Spec, KeepsPromise, Promise!Spec
=============================================================================
