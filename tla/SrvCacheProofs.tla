--------------------------- MODULE SrvCacheProofs ---------------------------
(***************************************************************************)
(* Proofs about the operators of SrvCache, for any size of the file, of    *)
(* its window and of a subscriber's pipe.  PlacementProofs rests on them.  *)
(*                                                                         *)
(* Front and TailStart are choices: they exist because a finite set of     *)
(* positions has a least and a greatest member.                            *)
(***************************************************************************)
EXTENDS SrvCache, FiniteSetTheorems, SequenceTheorems, TLAPS

\* A set of natural numbers has a least member: the smallest of the intervals
\* that end in one of them ends in it.
LEMMA LeastExists ==
    ASSUME NEW S \in SUBSET Nat, S # {}
    PROVE  \E x \in S : \A y \in S : x <= y
<1> DEFINE Below == {0 .. n : n \in S}
           Order == StrictSubsetOrdering(Nat)
<1>1. IsWellFoundedOn(Order, FiniteSubsetsOf(Nat))
  BY FS_StrictSubsetOrderingWellFounded
<1>2. Below \subseteq FiniteSubsetsOf(Nat)
  <2>1. \A n \in S : 0 .. n \in SUBSET Nat /\ IsFiniteSet(0 .. n)
    BY FS_Interval
  <2> QED
    BY <2>1 DEF FiniteSubsetsOf
<1>3. Below # {}
  OBVIOUS
<1> HIDE DEF Below, Order
<1>4. PICK b \in Below : \A c \in Below : ~(<<c, b>> \in Order)
  BY <1>1, <1>2, <1>3, WFMin
<1>5. PICK x \in S : b = 0 .. x
  BY DEF Below
<1>6. ASSUME NEW y \in S, y < x PROVE FALSE
  <2>1. 0 .. y \in Below
    BY DEF Below
  <2>2. 0 .. y \subseteq b /\ 0 .. y # b
    <3>1. x \in 0 .. x /\ x \notin 0 .. y
      BY <1>6
    <3> QED
      BY <1>5, <1>6, <3>1
  <2>3. <<0 .. y, b>> \in Order
    BY <1>5, <2>2 DEF Order, StrictSubsetOrdering
  <2> QED
    BY <1>4, <2>1, <2>3
<1> QED
  BY <1>6

\* A bounded one has a greatest member.
LEMMA GreatestExists ==
    ASSUME NEW n \in Nat, NEW S \in SUBSET (0 .. n), S # {}
    PROVE  \E x \in S : \A y \in S : y <= x
<1> DEFINE Bounds == {b \in Nat : \A y \in S : y <= b}
<1>1. n \in Bounds
  OBVIOUS
<1>2. PICK b \in Bounds : \A c \in Bounds : b <= c
  BY <1>1, LeastExists
<1>3. b \in S
  <2> SUFFICES ASSUME b \notin S PROVE FALSE
    OBVIOUS
  <2>1. PICK y \in S : TRUE
    OBVIOUS
  <2>2. y < b
    BY <2>1
  <2>3. b - 1 \in Bounds
    BY <2>2
  <2> QED
    BY <1>2, <2>3
<1> QED
  BY <1>3

-----------------------------------------------------------------------------
(* The front and the tail.                                                 *)

\* The front exists: it is one of the ends, no pending range starts within it
\* and ends beyond, and everything it was moved over is pending.
LEMMA FrontReaches ==
    ASSUME NEW from \in Position, NEW ranges \in SUBSET (Position \X Position)
    PROVE  /\ Front(from, ranges) \in Position
           /\ Front(from, ranges) >= from
           /\ \A r \in ranges : r[1] <= Front(from, ranges) => r[2] <= Front(from, ranges)
           /\ from .. Front(from, ranges) - 1 \subseteq Covered(ranges)
<1> DEFINE Ends == {from} \cup {r[2] : r \in ranges}
           Closed(f) == f >= from /\ \A r \in ranges : r[1] <= f => r[2] <= f
           Fronts == {f \in Ends : Closed(f)}
<1>1. Size \in Nat /\ Ends \in SUBSET (0 .. Size) /\ from \in Ends
  BY CacheAssumption DEF Position
<1>2. \A r \in ranges : r[1] \in 0 .. Size /\ r[2] \in 0 .. Size /\ r[2] \in Ends
  BY DEF Position
<1> HIDE DEF Ends
<1>3. \E f \in Fronts : \A g \in Fronts : f <= g
  <2>1. PICK f \in Ends : \A g \in Ends : g <= f
    BY <1>1, GreatestExists
  <2>2. f \in Fronts
    BY <1>1, <1>2, <2>1
  <2>3. Fronts \in SUBSET Nat /\ Fronts # {}
    <3>1. Fronts \subseteq Ends /\ 0 .. Size \subseteq Nat
      BY <1>1
    <3> QED
      BY <1>1, <2>2, <3>1
  <2> QED
    BY <2>3, LeastExists
<1>4. PICK front \in Fronts : \A g \in Fronts : front <= g
  BY <1>3
<1>5. Front(from, ranges) \in Fronts /\ \A g \in Fronts : Front(from, ranges) <= g
  <2>1. Front(from, ranges) = CHOOSE f \in Ends :
            Closed(f) /\ \A g \in Ends : Closed(g) => f <= g
    BY DEF Front, Ends
  <2>2. \E f \in Ends : Closed(f) /\ \A g \in Ends : Closed(g) => f <= g
    BY <1>4
  <2> QED
    BY <2>1, <2>2
<1> DEFINE f == Front(from, ranges)
<1> HIDE DEF f
<1>6. f \in 0 .. Size /\ f >= from
  BY <1>1, <1>5 DEF f
<1>7. ASSUME NEW x \in from .. f - 1, x \notin Covered(ranges) PROVE FALSE
  <2> DEFINE Before == {g \in Ends : g <= x}
  <2>1. x \in Nat /\ from <= x /\ x < f
    BY <1>1, <1>6
  <2>2. Before \in SUBSET (0 .. Size) /\ from \in Before
    BY <1>1, <2>1
  <2>3. PICK g \in Before : \A h \in Before : h <= g
    BY <1>1, <2>2, GreatestExists
  <2>4. ASSUME NEW r \in ranges, r[1] <= g PROVE r[2] <= g
    <3>1. x \notin r[1] .. r[2] - 1
      BY <1>7 DEF Covered
    <3>2. r[2] <= x
      BY <1>1, <1>2, <2>1, <2>3, <2>4, <3>1
    <3> QED
      BY <1>2, <2>3, <3>2
  <2>5. g \in Fronts
    BY <1>1, <2>1, <2>2, <2>3, <2>4
  <2> QED
    BY <1>1, <1>5, <1>6, <2>1, <2>3, <2>5 DEF f
<1> QED
  BY <1>5, <1>6, <1>7 DEF f, Position

\* The tail exists: it is one of the starts, no pending range ends behind it and
\* starts before, and everything it was moved over is pending.
LEMMA TailReaches ==
    ASSUME NEW from \in Position, NEW ranges \in SUBSET (Position \X Position)
    PROVE  /\ TailStart(from, ranges) \in Position
           /\ TailStart(from, ranges) <= from
           /\ TailStart(from, ranges) .. from - 1 \subseteq Covered(ranges)
<1> DEFINE Starts == {from} \cup {r[1] : r \in ranges}
           Closed(t) == t <= from /\ \A r \in ranges : r[2] >= t => r[1] >= t
           Tails == {t \in Starts : Closed(t)}
<1>1. Size \in Nat /\ Starts \in SUBSET (0 .. Size) /\ from \in Starts
  BY CacheAssumption DEF Position
<1>2. \A r \in ranges : r[1] \in 0 .. Size /\ r[2] \in 0 .. Size /\ r[1] \in Starts
  BY DEF Position
<1> HIDE DEF Starts
<1>3. \E t \in Tails : \A u \in Tails : u <= t
  <2>1. PICK t \in Starts : \A u \in Starts : t <= u
    BY <1>1, LeastExists
  <2>2. t \in Tails
    BY <1>1, <1>2, <2>1
  <2>3. Tails \in SUBSET (0 .. Size) /\ Tails # {}
    BY <1>1, <2>2
  <2> QED
    BY <1>1, <2>3, GreatestExists
<1>4. PICK tail \in Tails : \A u \in Tails : u <= tail
  BY <1>3
<1>5. TailStart(from, ranges) \in Tails /\ \A u \in Tails : TailStart(from, ranges) >= u
  <2>1. TailStart(from, ranges) = CHOOSE t \in Starts :
            Closed(t) /\ \A u \in Starts : Closed(u) => t >= u
    BY DEF TailStart, Starts
  <2>2. \E t \in Starts : Closed(t) /\ \A u \in Starts : Closed(u) => t >= u
    BY <1>1, <1>4
  <2> QED
    BY <2>1, <2>2
<1> DEFINE t == TailStart(from, ranges)
<1> HIDE DEF t
<1>6. t \in 0 .. Size /\ t <= from
  BY <1>1, <1>5 DEF t
<1>7. ASSUME NEW x \in t .. from - 1, x \notin Covered(ranges) PROVE FALSE
  <2> DEFINE Behind == {u \in Starts : u > x}
  <2>1. x \in Nat /\ t <= x /\ x < from
    BY <1>1, <1>6
  <2>2. Behind \in SUBSET Nat /\ from \in Behind
    <3>1. Behind \subseteq Starts /\ 0 .. Size \subseteq Nat
      BY <1>1
    <3> QED
      BY <1>1, <2>1, <3>1
  <2>3. PICK u \in Behind : \A v \in Behind : u <= v
    BY <2>2, LeastExists
  <2>4. ASSUME NEW r \in ranges, r[2] >= u PROVE r[1] >= u
    <3>1. x \notin r[1] .. r[2] - 1
      BY <1>7 DEF Covered
    <3>2. r[1] > x
      BY <1>1, <1>2, <2>1, <2>3, <2>4, <3>1
    <3> QED
      BY <1>2, <2>3, <3>2
  <2>5. u \in Tails
    BY <1>1, <2>1, <2>2, <2>3, <2>4
  <2> QED
    BY <1>1, <1>5, <1>6, <2>1, <2>3, <2>5 DEF t
<1> QED
  BY <1>5, <1>6, <1>7 DEF t, Position

-----------------------------------------------------------------------------
(* What holds of the entry, and of what a subscriber has been sent.        *)

\* The pending ranges start beyond the front: it would have been moved over them.
RangesWait == \A r \in pendingRanges : r[1] > contiguousLen

\* The entry's part of CacheTypeOK, and what is claimed of it.
EntryInv ==
    /\ known \in BOOLEAN
    /\ contiguousLen \in Position /\ tailAvailableFrom \in Position
    /\ totalSize \in {0, Size}
    /\ pendingRanges \in SUBSET (Position \X Position)
    /\ recentStart \in Position /\ recentBytes \in Seq(Byte) /\ Len(recentBytes) <= Window
    /\ arrived \in SUBSET Byte
    /\ RangesWait /\ FrontIsWhole /\ OnlyArrivedIsOffered

\* A message carries the bytes of the place it names.
InPlace(at, data) == at + Len(data) <= Size /\ data = Bytes(at, at + Len(data))

InboxInv ==
    /\ inbox \in Seq(Message) /\ Len(inbox) <= Room
    /\ \A i \in 1 .. Len(inbox) : InPlace(inbox[i].at, inbox[i].data)

\* Bytes are bytes, as many as there are between the two positions.
LEMMA BytesType ==
    ASSUME NEW from \in Position, NEW to \in Position, from <= to
    PROVE  /\ Bytes(from, to) \in Seq(Byte)
           /\ Len(Bytes(from, to)) = to - from
           /\ \A i \in 1 .. to - from : Bytes(from, to)[i] = from + i - 1
           /\ InPlace(from, Bytes(from, to))
<1>1. Size \in Nat /\ from \in Nat /\ to \in Nat /\ to <= Size /\ to - from \in Nat
  BY CacheAssumption DEF Position
<1>2. Bytes(from, to) = [i \in 1 .. to - from |-> from + i - 1]
  BY DEF Bytes
<1>3. \A i \in 1 .. to - from : from + i - 1 \in Byte
  BY <1>1 DEF Byte
<1>4. Bytes(from, to) \in Seq(Byte) /\ Len(Bytes(from, to)) = to - from
  BY <1>1, <1>2, <1>3
<1>5. from + (to - from) = to
  BY <1>1
<1> QED
  BY <1>1, <1>2, <1>4, <1>5 DEF InPlace

\* A sequence whose members are in their places is the file's bytes there.
LEMMA BytesAre ==
    ASSUME NEW from \in Position, NEW s \in Seq(Byte),
           \A i \in 1 .. Len(s) : s[i] = from + i - 1
    PROVE  InPlace(from, s)
<1>1. Size \in Nat /\ Size > 0 /\ from \in Nat /\ from <= Size /\ Len(s) \in Nat
  BY CacheAssumption DEF Position
<1>2. from + Len(s) <= Size
  <2>1. CASE Len(s) = 0
    BY <1>1, <2>1
  <2>2. CASE Len(s) > 0
    <3>1. s[Len(s)] \in Byte /\ s[Len(s)] = from + Len(s) - 1
      BY <1>1, <2>2
    <3> QED
      BY <1>1, <3>1 DEF Byte
  <2> QED
    BY <1>1, <2>1, <2>2
<1>3. from + Len(s) \in Position /\ (from + Len(s)) - from = Len(s)
  BY <1>1, <1>2 DEF Position
<1>4. s = Bytes(from, from + Len(s))
  <2>1. s = [i \in 1 .. Len(s) |-> s[i]]
    OBVIOUS
  <2> QED
    BY <1>1, <1>3, <2>1 DEF Bytes
<1> QED
  BY <1>2, <1>4 DEF InPlace

\* No bytes are in place anywhere.
LEMMA NothingInPlace ==
    ASSUME NEW at \in Position
    PROVE  <<>> \in Seq(Byte) /\ InPlace(at, <<>>)
<1> DEFINE none == <<>>
<1>1. none \in Seq(Byte) /\ 1 .. Len(none) = {}
  OBVIOUS
<1> HIDE DEF none
<1>2. InPlace(at, none)
  BY <1>1, BytesAre
<1> QED
  BY <1>1, <1>2 DEF none

\* A push leaves what was sent before in place.
LEMMA PushKeeps ==
    ASSUME InboxInv, NEW m \in Message, InPlace(m.at, m.data), Push(m)
    PROVE  InboxInv'
<1>1. CASE inbox' = inbox
  BY <1>1 DEF InboxInv, InPlace
<1>2. CASE inbox' = Append(inbox, m) /\ Len(inbox) < Room
  <2>1. inbox' \in Seq(Message) /\ Len(inbox') = Len(inbox) + 1
    BY <1>2 DEF InboxInv
  <2>2. \A i \in 1 .. Len(inbox') : inbox'[i] = IF i <= Len(inbox) THEN inbox[i] ELSE m
    BY <1>2, <2>1 DEF InboxInv
  <2>3. \A i \in 1 .. Len(inbox') : InPlace(inbox'[i].at, inbox'[i].data)
    BY <2>1, <2>2 DEF InboxInv
  <2>4. Len(inbox') <= Room
    BY <1>2, <2>1, CacheAssumption DEF InboxInv
  <2> QED
    BY <2>1, <2>3, <2>4 DEF InboxInv
<1> QED
  BY <1>1, <1>2 DEF Push

\* What is left when the first message has been read is in place.
LEMMA TailKeeps ==
    ASSUME InboxInv, inbox # <<>>, inbox' = Tail(inbox)
    PROVE  InboxInv'
<1>1. /\ Tail(inbox) \in Seq(Message) /\ Len(Tail(inbox)) = Len(inbox) - 1
      /\ \A i \in 1 .. Len(Tail(inbox)) : Tail(inbox)[i] = inbox[i + 1]
  BY HeadTailProperties DEF InboxInv
<1>2. Len(inbox) \in Nat /\ Room \in Nat
  BY CacheAssumption DEF InboxInv
<1> QED
  BY <1>1, <1>2 DEF InboxInv

\* A word carries nothing, and so it is in place.
LEMMA WordIsMessage ==
    ASSUME NEW kind \in {"stop", "unsubscribed", "failed"}
    PROVE  /\ Word(kind) \in Message
           /\ InPlace(Word(kind).at, Word(kind).data)
<1>1. 0 \in Position
  BY CacheAssumption DEF Position
<1> QED
  BY <1>1, NothingInPlace DEF Word, Message

-----------------------------------------------------------------------------
(* The window.                                                             *)

\* What is claimed of a window: its bytes are the file's, they have arrived, and
\* there are no more of them than it holds.
WindowInv(start, bytes, there) ==
    /\ start \in Position /\ bytes \in Seq(Byte) /\ Len(bytes) <= Window
    /\ InPlace(start, bytes)
    /\ start .. start + Len(bytes) - 1 \subseteq there

\* Trimming leaves the last of the bytes, in their places.
LEMMA TrimmedWindow ==
    ASSUME NEW start \in Position, NEW bytes \in Seq(Byte), InPlace(start, bytes),
           NEW there, start .. start + Len(bytes) - 1 \subseteq there
    PROVE  WindowInv(Trimmed(start, bytes).start, Trimmed(start, bytes).bytes, there)
<1> DEFINE extra == IF Len(bytes) > Window THEN Len(bytes) - Window ELSE 0
           kept == SubSeq(bytes, extra + 1, Len(bytes))
<1>1. Size \in Nat /\ Window \in Nat /\ start \in Nat /\ Len(bytes) \in Nat
      /\ start + Len(bytes) <= Size
  BY CacheAssumption DEF Position, InPlace
<1>2. extra \in 0 .. Len(bytes) /\ Len(bytes) - extra <= Window
  BY <1>1
<1> HIDE DEF extra
<1>3. kept \in Seq(Byte) /\ Len(kept) = Len(bytes) - extra
      /\ \A i \in 1 .. Len(kept) : kept[i] = bytes[extra + i]
  <2>1. \A i \in extra + 1 .. Len(bytes) : bytes[i] \in Byte
    BY <1>1, <1>2
  <2>2. /\ kept \in Seq(Byte)
        /\ Len(kept) = IF extra + 1 <= Len(bytes) THEN Len(bytes) - (extra + 1) + 1 ELSE 0
        /\ \A i \in 1 .. Len(bytes) - (extra + 1) + 1 : kept[i] = bytes[(extra + 1) + i - 1]
    BY <1>1, <1>2, <2>1, SubSeqProperties
  <2>3. Len(kept) = Len(bytes) - extra
    BY <1>1, <1>2, <2>2
  <2>4. ASSUME NEW i \in 1 .. Len(kept) PROVE kept[i] = bytes[extra + i]
    <3>1. i \in 1 .. Len(bytes) - (extra + 1) + 1 /\ (extra + 1) + i - 1 = extra + i
      BY <1>1, <1>2, <2>3
    <3> QED
      BY <2>2, <3>1
  <2> QED
    BY <2>2, <2>3, <2>4
<1>4. start + extra \in Position
  BY <1>1, <1>2 DEF Position
<1>5. \A i \in 1 .. Len(bytes) : bytes[i] = start + i - 1
  BY <1>1 DEF InPlace, Bytes
<1>6. \A i \in 1 .. Len(kept) : kept[i] = (start + extra) + i - 1
  BY <1>1, <1>2, <1>3, <1>5
<1> HIDE DEF kept
<1>7. InPlace(start + extra, kept)
  BY <1>3, <1>4, <1>6, BytesAre
<1>8. start + extra .. (start + extra) + Len(kept) - 1 \subseteq there
  BY <1>1, <1>2, <1>3
<1> QED
  BY <1>1, <1>2, <1>3, <1>4, <1>7, <1>8 DEF WindowInv, Trimmed, extra, kept

\* The entry's window is one.
LEMMA EntryWindow ==
    ASSUME EntryInv
    PROVE  WindowInv(recentStart, recentBytes, arrived)
<1>1. Size \in Nat /\ recentStart \in Nat /\ recentStart <= Size /\ Len(recentBytes) \in Nat
  BY CacheAssumption DEF EntryInv, Position
<1>2. \A i \in 1 .. Len(recentBytes) : recentBytes[i] = recentStart + i - 1
  BY <1>1 DEF EntryInv, OnlyArrivedIsOffered, RecentEnd, Bytes
<1>3. InPlace(recentStart, recentBytes)
  BY <1>2, BytesAre DEF EntryInv
<1>4. recentStart .. recentStart + Len(recentBytes) - 1 \subseteq arrived
  BY <1>1 DEF EntryInv, OnlyArrivedIsOffered, RecentEnd
<1> QED
  BY <1>3, <1>4 DEF EntryInv, WindowInv

\* A chunk joins the window at its end, replaces an empty one, or is not kept.
LEMMA RecentWindow ==
    ASSUME EntryInv, NEW at \in Position, NEW data \in Seq(Byte), InPlace(at, data)
    PROVE  WindowInv(Recent(at, data).start, Recent(at, data).bytes,
                     arrived \cup (at .. at + Len(data) - 1))
<1> DEFINE there == arrived \cup (at .. at + Len(data) - 1)
           both == recentBytes \o data
<1>1. WindowInv(recentStart, recentBytes, arrived)
  BY EntryWindow
<1>2. /\ Size \in Nat /\ recentStart \in Nat /\ at \in Nat
      /\ Len(recentBytes) \in Nat /\ Len(data) \in Nat
      /\ recentStart + Len(recentBytes) <= Size /\ at + Len(data) <= Size
  BY <1>1, CacheAssumption DEF WindowInv, InPlace, Position
<1>3. CASE at = RecentEnd
  <2>1. both \in Seq(Byte) /\ Len(both) = Len(recentBytes) + Len(data)
        /\ \A i \in 1 .. Len(both) :
            both[i] = IF i <= Len(recentBytes) THEN recentBytes[i] ELSE data[i - Len(recentBytes)]
    BY <1>1, ConcatProperties DEF WindowInv
  <2>2. \A i \in 1 .. Len(recentBytes) : recentBytes[i] = recentStart + i - 1
    BY <1>1, <1>2 DEF WindowInv, InPlace, Bytes
  <2>3. \A i \in 1 .. Len(data) : data[i] = at + i - 1
    BY <1>2 DEF InPlace, Bytes
  <2>4. ASSUME NEW i \in 1 .. Len(both) PROVE both[i] = recentStart + i - 1
    <3>1. CASE i <= Len(recentBytes)
      BY <1>2, <2>1, <2>2, <3>1
    <3>2. CASE i > Len(recentBytes)
      <4>1. i - Len(recentBytes) \in 1 .. Len(data)
        BY <1>2, <2>1, <3>2
      <4>2. both[i] = data[i - Len(recentBytes)]
        BY <1>2, <2>1, <3>2
      <4> QED
        BY <1>2, <1>3, <2>3, <4>1, <4>2 DEF RecentEnd
    <3> QED
      BY <1>2, <2>1, <3>1, <3>2
  <2> HIDE DEF both
  <2>5. InPlace(recentStart, both)
    BY <1>1, <2>1, <2>4, BytesAre DEF WindowInv
  <2>6. recentStart .. recentStart + Len(both) - 1 \subseteq there
    BY <1>1, <1>2, <1>3, <2>1 DEF WindowInv, RecentEnd
  <2> HIDE DEF there
  <2>7. WindowInv(Trimmed(recentStart, both).start, Trimmed(recentStart, both).bytes, there)
    BY <1>1, <2>1, <2>5, <2>6, TrimmedWindow DEF WindowInv
  <2> QED
    BY <1>3, <2>7 DEF Recent, both, there
<1>4. CASE at # RecentEnd /\ at > RecentEnd /\ recentBytes = <<>>
  <2>1. WindowInv(Trimmed(at, data).start, Trimmed(at, data).bytes, there)
    BY TrimmedWindow
  <2> QED
    BY <1>4, <2>1 DEF Recent
<1>5. CASE at # RecentEnd /\ ~(at > RecentEnd /\ recentBytes = <<>>)
  BY <1>1, <1>5 DEF Recent, WindowInv
<1> QED
  BY <1>3, <1>4, <1>5

\* What is served from the window is in its place.
LEMMA ServedInPlace ==
    ASSUME EntryInv, NEW at \in Position, NEW len \in Nat
    PROVE  Served(at, len) \in Seq(Byte) /\ InPlace(at, Served(at, len))
<1>1. WindowInv(recentStart, recentBytes, arrived)
  BY EntryWindow
<1>2. /\ Size \in Nat /\ recentStart \in Nat /\ at \in Nat /\ at <= Size
      /\ Len(recentBytes) \in Nat /\ recentStart + Len(recentBytes) <= Size
  BY <1>1, CacheAssumption DEF WindowInv, InPlace, Position
<1>3. CASE at < recentStart \/ at >= RecentEnd
  BY <1>3, NothingInPlace DEF Served
<1>4. CASE ~(at < recentStart \/ at >= RecentEnd)
  <2> DEFINE skip == at - recentStart
             end == IF Len(recentBytes) - skip < len THEN Len(recentBytes) ELSE skip + len
             part == SubSeq(recentBytes, skip + 1, end)
  <2>1. skip \in Nat /\ skip < Len(recentBytes) /\ recentStart + skip = at
    BY <1>2, <1>4 DEF RecentEnd
  <2> HIDE DEF skip
  <2>2. end \in skip .. Len(recentBytes)
    BY <1>2, <2>1
  <2> HIDE DEF end
  <2>3. \A i \in skip + 1 .. end : recentBytes[i] \in Byte
    BY <1>1, <1>2, <2>1, <2>2 DEF WindowInv
  <2>4. /\ part \in Seq(Byte)
        /\ Len(part) = IF skip + 1 <= end THEN end - (skip + 1) + 1 ELSE 0
        /\ \A i \in 1 .. end - (skip + 1) + 1 : part[i] = recentBytes[(skip + 1) + i - 1]
    BY <1>2, <2>1, <2>2, <2>3, SubSeqProperties
  <2>5. \A i \in 1 .. Len(recentBytes) : recentBytes[i] = recentStart + i - 1
    BY <1>1, <1>2 DEF WindowInv, InPlace, Bytes
  <2>6. ASSUME NEW i \in 1 .. Len(part) PROVE part[i] = at + i - 1
    <3> DEFINE j == (skip + 1) + i - 1
    <3>1. /\ i \in 1 .. end - (skip + 1) + 1
          /\ j \in 1 .. Len(recentBytes) /\ recentStart + j - 1 = at + i - 1
      BY <1>2, <2>1, <2>2, <2>4
    <3>2. part[i] = recentBytes[j]
      BY <2>4, <3>1
    <3> QED
      BY <2>5, <3>1, <3>2
  <2> HIDE DEF part
  <2>7. InPlace(at, part)
    BY <2>4, <2>6, BytesAre
  <2> QED
    BY <1>4, <2>4, <2>7 DEF Served, skip, end, part
<1> QED
  BY <1>3, <1>4

-----------------------------------------------------------------------------
(* put_chunk.                                                              *)

\* The front after a chunk: it is where the bytes that arrived end, and what is
\* still pending is beyond it.
LEMMA MergedFront ==
    ASSUME EntryInv, NEW at \in Position, NEW end \in Position, at <= end,
           MergeFront(at, end), arrived' = arrived \cup (at .. end - 1)
    PROVE  /\ contiguousLen' \in Position
           /\ pendingRanges' \in SUBSET (Position \X Position)
           /\ arrived' \in SUBSET Byte
           /\ RangesWait' /\ FrontIsWhole'
<1>1. /\ Size \in Nat /\ at \in Nat /\ end \in Nat /\ end <= Size
      /\ contiguousLen \in Nat /\ contiguousLen <= Size
  BY CacheAssumption DEF EntryInv, Position
<1>2. \A r \in pendingRanges : r[1] \in Nat /\ r[2] \in Nat /\ r[2] <= Size
  BY <1>1 DEF EntryInv, Position
<1>3. arrived' \in SUBSET Byte
  BY <1>1 DEF EntryInv, Byte
<1>4. CASE at <= contiguousLen
  <2> DEFINE from == IF end > contiguousLen THEN end ELSE contiguousLen
             front == Front(from, pendingRanges)
  <2>1. from \in Position /\ from >= end /\ from >= contiguousLen
    BY <1>1 DEF Position
  <2>2. 0 .. from - 1 \subseteq (0 .. contiguousLen - 1) \cup (at .. end - 1)
    BY <1>1, <1>4
  <2> HIDE DEF from
  <2>3. /\ front \in Position /\ front >= from
        /\ \A r \in pendingRanges : r[1] <= front => r[2] <= front
        /\ from .. front - 1 \subseteq Covered(pendingRanges)
    BY <2>1, FrontReaches DEF EntryInv
  <2>4. /\ contiguousLen' = front
        /\ pendingRanges' = {r \in pendingRanges : r[1] > front}
    BY <1>4 DEF MergeFront, from
  <2> HIDE DEF front
  <2>5. front \in Nat /\ from \in Nat
    BY <1>1, <2>1, <2>3 DEF Position
  <2>6. RangesWait'
    BY <2>4 DEF RangesWait
  <2>7. Covered(pendingRanges) \subseteq (0 .. front - 1) \cup Covered(pendingRanges')
    <3> SUFFICES ASSUME NEW r \in pendingRanges, NEW x \in r[1] .. r[2] - 1
                 PROVE  x \in 0 .. front - 1 \/ x \in Covered(pendingRanges')
      BY DEF Covered
    <3>1. CASE r[1] <= front
      BY <1>2, <2>3, <2>5, <3>1
    <3>2. CASE r[1] > front
      BY <2>4, <3>2 DEF Covered
    <3> QED
      BY <1>2, <2>5, <3>1, <3>2
  <2>8. arrived' \subseteq (0 .. front - 1) \cup Covered(pendingRanges')
    <3>1. 0 .. contiguousLen - 1 \subseteq 0 .. front - 1 /\ at .. end - 1 \subseteq 0 .. front - 1
      BY <1>1, <2>1, <2>3, <2>5
    <3> QED
      BY <2>7, <3>1 DEF EntryInv, FrontIsWhole
  <2>9. (0 .. front - 1) \cup Covered(pendingRanges') \subseteq arrived'
    <3>1. Covered(pendingRanges') \subseteq Covered(pendingRanges)
      BY <2>4 DEF Covered
    <3>2. 0 .. front - 1 \subseteq (0 .. from - 1) \cup (from .. front - 1)
      BY <2>5
    <3> QED
      BY <2>2, <2>3, <3>1, <3>2 DEF EntryInv, FrontIsWhole
  <2>10. contiguousLen' \notin arrived'
    <3>1. \A r \in pendingRanges' : r[1] > front /\ r[1] \in Nat
      BY <1>2, <2>4
    <3>2. front \notin Covered(pendingRanges')
      BY <1>2, <2>4, <2>5, <3>1 DEF Covered
    <3>3. front \notin 0 .. front - 1
      BY <2>5
    <3> QED
      BY <2>4, <2>8, <3>2, <3>3
  <2>11. FrontIsWhole'
    BY <2>4, <2>8, <2>9, <2>10 DEF FrontIsWhole, Covered
  <2> QED
    BY <1>3, <2>3, <2>4, <2>6, <2>11 DEF EntryInv
<1>5. CASE ~(at <= contiguousLen)
  <2>1. pendingRanges' = pendingRanges \cup {<<at, end>>} /\ contiguousLen' = contiguousLen
    BY <1>5 DEF MergeFront
  <2>2. RangesWait'
    BY <1>1, <1>5, <2>1 DEF EntryInv, RangesWait
  <2>3. Covered(pendingRanges') = Covered(pendingRanges) \cup (at .. end - 1)
    <3>1. <<at, end>>[1] = at /\ <<at, end>>[2] = end
      OBVIOUS
    <3> QED
      BY <2>1, <3>1 DEF Covered
  <2>4. contiguousLen \notin at .. end - 1
    BY <1>1, <1>5
  <2>5. FrontIsWhole'
    <3>1. arrived' = (0 .. contiguousLen' - 1) \cup Covered(pendingRanges')
      BY <2>1, <2>3 DEF EntryInv, FrontIsWhole
    <3>2. contiguousLen' \notin arrived'
      BY <2>1, <2>4 DEF EntryInv, FrontIsWhole
    <3> QED
      BY <3>1, <3>2 DEF FrontIsWhole, Covered
  <2> QED
    BY <1>3, <2>1, <2>2, <2>5 DEF EntryInv
<1> QED
  BY <1>4, <1>5

\* A chunk of a file whose length has been said, unless everything is there,
\* leaves the entry right: the front, the tail and the window.
LEMMA PutChunkKeeps ==
    ASSUME EntryInv, InboxInv, NEW at \in Position, NEW to \in Position, at <= to,
           NEW total \in {0, Size},
           known => total = totalSize \/ Byte \subseteq arrived \cup (at .. to - 1),
           PutChunk(at, Bytes(at, to), total)
    PROVE  EntryInv' /\ InboxInv'
<1> DEFINE data == Bytes(at, to)
           before == IF known THEN tailAvailableFrom ELSE total
<1>1. data \in Seq(Byte) /\ InPlace(at, data) /\ at + Len(data) = to
  <2>1. data \in Seq(Byte) /\ Len(data) = to - at /\ InPlace(at, data)
    BY BytesType
  <2>2. at \in Nat /\ to \in Nat
    BY CacheAssumption DEF Position
  <2> QED
    BY <2>1, <2>2
<1> HIDE DEF data
<1>2. /\ known' = TRUE /\ totalSize' = total
      /\ recentStart' = Recent(at, data).start
      /\ recentBytes' = Recent(at, data).bytes
      /\ MergeFront(at, to)
      /\ MergeTail(at, to, before)
      /\ arrived' = arrived \cup (at .. to - 1)
      /\ Push(Progress(contiguousLen', total, at, data))
  BY <1>1 DEF PutChunk, data
<1>3. /\ contiguousLen' \in Position
      /\ pendingRanges' \in SUBSET (Position \X Position)
      /\ arrived' \in SUBSET Byte
      /\ RangesWait' /\ FrontIsWhole'
  BY <1>2, MergedFront
<1>4. WindowInv(recentStart', recentBytes', arrived')
  <2>1. WindowInv(Recent(at, data).start, Recent(at, data).bytes,
                  arrived \cup (at .. at + Len(data) - 1))
    BY <1>1, RecentWindow
  <2>2. at \in Nat /\ to \in Nat /\ Len(data) \in Nat
    BY <1>1, CacheAssumption DEF Position
  <2>3. arrived' = arrived \cup (at .. at + Len(data) - 1)
    BY <1>1, <1>2, <2>2
  <2> QED
    BY <1>2, <2>1, <2>3
<1>5. /\ Size \in Nat /\ Size > 0 /\ at \in Nat /\ to \in Nat /\ to <= Size
      /\ before \in Nat /\ before <= Size /\ total \in Nat /\ total <= Size
  BY CacheAssumption DEF EntryInv, Position
<1>6. before .. total - 1 \subseteq arrived'
  <2>1. CASE known
    <3>1. total = totalSize \/ Byte \subseteq arrived'
      BY <1>2, <2>1
    <3>2. CASE total = totalSize
      BY <1>2, <2>1, <3>2 DEF EntryInv, OnlyArrivedIsOffered
    <3>3. CASE Byte \subseteq arrived'
      BY <1>5, <3>3 DEF Byte
    <3> QED
      BY <3>1, <3>2, <3>3
  <2>2. CASE ~known
    BY <1>5, <2>2
  <2> QED
    BY <2>1, <2>2
<1>7. tailAvailableFrom' \in Position /\ tailAvailableFrom' .. total - 1 \subseteq arrived'
  <2>1. CASE to >= before
    <3> DEFINE from == IF at < before THEN at ELSE before
               tail == TailStart(from, pendingRanges')
    <3>1. from \in Position
      BY <1>5 DEF Position
    <3>2. tail \in Position /\ tail <= from /\ tail .. from - 1 \subseteq Covered(pendingRanges')
      BY <1>3, <3>1, TailReaches
    <3>3. tailAvailableFrom' = tail
      BY <1>2, <2>1 DEF MergeTail
    <3> HIDE DEF tail
    <3>4. tail \in Nat
      BY <1>5, <3>2 DEF Position
    <3>5. Covered(pendingRanges') \subseteq arrived'
      BY <1>3 DEF FrontIsWhole, Covered
    <3>6. tail .. total - 1 \subseteq (tail .. from - 1) \cup (at .. to - 1) \cup (before .. total - 1)
      BY <1>5, <2>1, <3>2, <3>4
    <3> QED
      BY <1>2, <1>6, <3>2, <3>3, <3>5, <3>6
  <2>2. CASE ~(to >= before)
    BY <1>2, <1>5, <1>6, <2>2 DEF MergeTail, Position
  <2> QED
    BY <2>1, <2>2
<1>8. OnlyArrivedIsOffered'
  <2>1. recentStart' \in Nat /\ Len(recentBytes') \in Nat
    BY <1>4, <1>5 DEF WindowInv, Position
  <2>2. recentBytes' = Bytes(recentStart', recentStart' + Len(recentBytes'))
    BY <1>4 DEF WindowInv, InPlace
  <2>3. recentStart' .. recentStart' + Len(recentBytes') - 1 \subseteq arrived'
    BY <1>4 DEF WindowInv
  <2> QED
    BY <1>2, <1>7, <2>1, <2>2, <2>3 DEF OnlyArrivedIsOffered, RecentEnd, Bytes
<1>9. EntryInv'
  BY <1>2, <1>3, <1>4, <1>7, <1>8 DEF EntryInv, WindowInv
<1>10. InboxInv'
  <2> DEFINE m == Progress(contiguousLen', total, at, data)
  <2>1. m \in Message /\ m.at = at /\ m.data = data
    BY <1>1, <1>3 DEF Progress, Message
  <2> HIDE DEF m
  <2> QED
    BY <1>1, <1>2, <2>1, PushKeeps DEF m
<1> QED
  BY <1>9, <1>10

\* A reply from the window is in place too.
LEMMA RangeReplyKeeps ==
    ASSUME EntryInv, InboxInv, NEW at \in Position, NEW len \in Nat,
           PushRangeReply(at, Served(at, len))
    PROVE  InboxInv'
<1> DEFINE data == Served(at, len)
           m == Progress(contiguousLen, totalSize, at, data)
<1>1. data \in Seq(Byte) /\ InPlace(at, data)
  BY ServedInPlace
<1>2. m \in Message /\ m.at = at /\ m.data = data
  BY <1>1 DEF Progress, Message, EntryInv
<1>3. inbox' = inbox \/ Push(m)
  BY DEF PushRangeReply
<1> HIDE DEF m, data
<1>4. CASE Push(m)
  BY <1>1, <1>2, <1>4, PushKeeps
<1>5. CASE inbox' = inbox
  BY <1>5 DEF InboxInv, InPlace
<1> QED
  BY <1>3, <1>4, <1>5

\* What a new subscriber is told fits into its pipe, and carries nothing.
LEMMA SubscribeKeeps ==
    ASSUME EntryInv, stopped \in BOOLEAN, Subscribe
    PROVE  InboxInv'
<1> DEFINE front == Progress(contiguousLen, totalSize, 0, <<>>)
           stop == Word("stop")
<1>1. 0 \in Position /\ Room \in Nat /\ Room >= 2
  BY CacheAssumption DEF Position
<1>2. front \in Message /\ InPlace(front.at, front.data)
  BY <1>1, NothingInPlace DEF Progress, Message, EntryInv
<1>3. stop \in Message /\ InPlace(stop.at, stop.data)
  BY WordIsMessage
<1> HIDE DEF front, stop
<1> DEFINE first == IF known THEN <<front>> ELSE <<>>
           rest == IF stopped THEN <<stop>> ELSE <<>>
<1>4. first \in Seq(Message) /\ Len(first) <= 1
      /\ \A i \in 1 .. Len(first) : InPlace(first[i].at, first[i].data)
  BY <1>2
<1>5. rest \in Seq(Message) /\ Len(rest) <= 1
      /\ \A i \in 1 .. Len(rest) : InPlace(rest[i].at, rest[i].data)
  BY <1>3
<1>6. inbox' = first \o rest
  BY DEF Subscribe, Replay, front, stop
<1> HIDE DEF first, rest
<1>7. inbox' \in Seq(Message) /\ Len(inbox') = Len(first) + Len(rest)
      /\ \A i \in 1 .. Len(inbox') :
            inbox'[i] = IF i <= Len(first) THEN first[i] ELSE rest[i - Len(first)]
  BY <1>4, <1>5, <1>6, ConcatProperties
<1>8. ASSUME NEW i \in 1 .. Len(inbox') PROVE InPlace(inbox'[i].at, inbox'[i].data)
  <2>1. CASE i <= Len(first)
    BY <1>4, <1>7, <2>1
  <2>2. CASE i > Len(first)
    <3>1. i - Len(first) \in 1 .. Len(rest) /\ inbox'[i] = rest[i - Len(first)]
      BY <1>4, <1>5, <1>7, <2>2
    <3> QED
      BY <1>5, <3>1
  <2> QED
    BY <1>4, <1>7, <2>1, <2>2
<1> QED
  BY <1>1, <1>4, <1>5, <1>7, <1>8 DEF InboxInv
=============================================================================
