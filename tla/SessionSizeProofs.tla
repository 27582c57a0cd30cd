-------------------------- MODULE SessionSizeProofs --------------------------
(***************************************************************************)
(* Proofs about SessionSize, for any relays, sizes, cells and bounds.      *)
(*                                                                         *)
(* SizesAgree says nothing of a session that is being resized; Underway    *)
(* says what holds then.  PlaceholderIsLastResort rests on what a settling *)
(* relay has read (Settling).                                              *)
(***************************************************************************)
EXTENDS SessionSize, SequenceTheorems, TLAPS

\* The size a Resize has is a size, and its cell one or unknown.
LEMMA ReadType ==
    ASSUME TypeOK, NEW r \in Relay, unread[r] # <<>>
    PROVE  /\ Head(unread[r]) \in Resize
           /\ Tail(unread[r]) \in Seq(Resize)
BY DEF TypeOK

\* A Resize can be written behind those that are unread.
LEMMA SentType ==
    ASSUME TypeOK, NEW r \in Relay, NEW s \in Size, NEW c \in Cell \cup {Unknown}
    PROVE  Append(unread[r], [size |-> s, cell |-> c]) \in Seq(Resize)
<1>1. unread[r] \in Seq(Resize)
  BY DEF TypeOK
<1>2. [size |-> s, cell |-> c] \in Resize
  BY DEF Resize
<1> QED
  BY <1>1, <1>2

\* What a Resize makes of the bounds has their type.
LEMMA ResizedType ==
    ASSUME TypeOK, NEW m \in Resize
    PROVE  /\ Resized(m) \in [size : Size, cell : Cell \cup {NoCell}]
           /\ Resized(m).size = m.size
BY SizeAssumption DEF TypeOK, Resize, Resized, WithPixelSize, Unknown, NoCell

\* What has been read is a size: a relay that has settled has one to send.
Measured == \A r \in Relay : stable[r] > 0 \/ reads[r] > 0 => last[r] \in Size

\* A reading is of a size, and a new relay has none.
LEMMA MeasuredStep == TypeOK /\ Measured /\ [Next]_vars => Measured'
<1> SUFFICES ASSUME TypeOK, Measured, [Next]_vars PROVE Measured'
  OBVIOUS
<1> USE DEF som, settling, session
<1>1. ASSUME NEW r \in Relay, Connect(r) PROVE Measured'
  BY <1>1 DEF Connect, Measured, TypeOK
<1>2. ASSUME NEW r \in Relay, SettleRead(r) PROVE Measured'
  BY <1>2 DEF SettleRead, Measured, TypeOK
<1>3. ASSUME NEW r \in Relay, PollSize(r) PROVE Measured'
  BY <1>3 DEF PollSize, Measured, TypeOK
<1>4. CASE UNCHANGED settling
  BY <1>4 DEF Measured
<1> QED
  BY <1>1, <1>2, <1>3, <1>4
     DEF Next, RelayStep, ThreadStep, PaneResizes, RelayEnds, SendInitialSize,
         ReadInitialResize, SendSnapshot, ReadResize, ResizeTerm, TellPty, ResizeTty, ReadEnd, vars

\* The variables keep their types.
LEMMA TypeStep == TypeOK /\ Measured /\ [Next]_vars => TypeOK'
<1> SUFFICES ASSUME TypeOK, Measured, [Next]_vars PROVE TypeOK'
  OBVIOUS
<1> USE SizeAssumption DEF som, settling, session
<1>1. ASSUME NEW r \in Relay, Connect(r) PROVE TypeOK'
  BY <1>1 DEF Connect, TypeOK, StableReads
<1>2. ASSUME NEW r \in Relay, PaneResizes(r) PROVE TypeOK'
  BY <1>2 DEF PaneResizes, TypeOK
<1>3. ASSUME NEW r \in Relay, RelayEnds(r) PROVE TypeOK'
  BY <1>3 DEF RelayEnds, TypeOK
<1>4. ASSUME NEW r \in Relay, SettleRead(r) PROVE TypeOK'
  <2>1. reads[r] \in 0 .. MaxAttempts + 1 /\ stable[r] \in 0 .. 2
    BY DEF TypeOK, StableReads
  <2>2. reads[r] + 1 \in 0 .. MaxAttempts + 1 /\ stable[r] + 1 \in 0 .. 2
    BY <1>4, <2>1 DEF SettleRead, Settled, StableReads
  <2>3. reads' \in [Relay -> 0 .. MaxAttempts + 1]
    BY <1>4, <2>2 DEF SettleRead, TypeOK
  <2>4. stable' \in [Relay -> 0 .. StableReads]
    BY <1>4, <2>2 DEF SettleRead, TypeOK, StableReads
  <2>5. last' \in [Relay -> Size \cup {NoSize}]
    BY <1>4 DEF SettleRead, TypeOK
  <2> QED
    BY <1>4, <2>3, <2>4, <2>5 DEF SettleRead, TypeOK
<1>5. ASSUME NEW r \in Relay, SendInitialSize(r) PROVE TypeOK'
  <2>1. PICK c \in Cell \cup {Unknown} :
            unread' = [unread EXCEPT ![r] = Append(@, [size |-> last[r], cell |-> c])]
    BY <1>5 DEF SendInitialSize
  <2>2. last[r] \in Size
    BY <1>5 DEF SendInitialSize, Settled, StableReads, Measured
  <2>3. unread' \in [Relay -> Seq(Resize)]
    BY <2>1, <2>2, SentType DEF TypeOK
  <2> QED
    BY <1>5, <2>3 DEF SendInitialSize, TypeOK
<1>6. ASSUME NEW r \in Relay, PollSize(r) PROVE TypeOK'
  <2>1. paneSize[r] \in Size
    BY DEF TypeOK
  <2>2. unread' \in [Relay -> Seq(Resize)]
    BY <1>6, <2>1, SentType DEF PollSize, TypeOK
  <2> QED
    BY <1>6, <2>1, <2>2 DEF PollSize, TypeOK
<1>7. ASSUME NEW r \in Relay, NEW m \in Resize, Apply(r, m)
      PROVE  /\ bounds' \in [size : Size, cell : Cell \cup {NoCell}]
             /\ resize' \in [Relay -> Idle \cup [next : {"term", "pty"}, size : Size]]
             /\ author' \in Relay \cup {NoRelay}
             /\ UNCHANGED <<term, toPty, tty>>
  BY <1>7, ResizedType DEF Apply, TypeOK, Resize
<1>8. ASSUME NEW r \in Relay, ReadInitialResize(r) PROVE TypeOK'
  BY <1>7, <1>8, ReadType DEF ReadInitialResize, TypeOK
<1>9. ASSUME NEW r \in Relay, SendSnapshot(r) PROVE TypeOK'
  <2>1. <<>> \in Seq(Resize)
    OBVIOUS
  <2>2. unread' \in [Relay -> Seq(Resize)]
    <3>1. unread \in [Relay -> Seq(Resize)]
      BY DEF TypeOK
    <3>2. unread' = unread \/ unread' = [unread EXCEPT ![r] = <<>>]
      BY <1>9 DEF SendSnapshot
    <3> QED
      BY <2>1, <3>1, <3>2
  <2> QED
    BY <1>9, <2>2 DEF SendSnapshot, TypeOK
<1>10. ASSUME NEW r \in Relay, ReadResize(r) PROVE TypeOK'
  BY <1>7, <1>10, ReadType DEF ReadResize, TypeOK
<1>11. ASSUME NEW r \in Relay, ResizeTerm(r) PROVE TypeOK'
  BY <1>11 DEF ResizeTerm, TypeOK, Idle, NoResize
<1>12. ASSUME NEW r \in Relay, TellPty(r) PROVE TypeOK'
  BY <1>12 DEF TellPty, TypeOK, Idle, NoResize
<1>13. CASE ResizeTty
  BY <1>13 DEF ResizeTty, TypeOK
<1>14. ASSUME NEW r \in Relay, ReadEnd(r) PROVE TypeOK'
  BY <1>14 DEF ReadEnd, TypeOK
<1>15. CASE UNCHANGED vars
  BY <1>15 DEF vars, TypeOK
<1> QED
  BY <1>1, <1>2, <1>3, <1>4, <1>5, <1>6, <1>8, <1>9, <1>10, <1>11, <1>12, <1>13, <1>14, <1>15
     DEF Next, RelayStep, ThreadStep

\* Every variable keeps its type.
THEOREM TypeCorrect == Spec => []TypeOK
<1>1. Init => TypeOK /\ Measured
  BY SizeAssumption DEF Init, TypeOK, Idle, NoCell, StableReads, Measured
<1>2. Spec => [](TypeOK /\ Measured)
  BY <1>1, TypeStep, MeasuredStep, PTL DEF Spec
<1> QED
  BY <1>2, PTL

-----------------------------------------------------------------------------
\* The last size the event loop was told, or the pty's when it has none to come.
Latest == IF toPty = <<>> THEN tty ELSE toPty[Len(toPty)]

\* One thread at a time resizes the session, and what it has left to do is to
\* carry the size of the bounds to where it is not yet.
Underway ==
    /\ \A r, s \in Relay : resize[r] # NoResize /\ resize[s] # NoResize => r = s
    /\ \A r \in Relay : resize[r] # NoResize =>
        /\ resize[r].size = bounds.size
        /\ resize[r].next = "pty" => term = bounds.size

\* A step of the thread that resizes brings the session closer to one size, and
\* no other thread gets in between.
LEMMA SizesStep == TypeOK /\ Underway /\ SizesAgree /\ [Next]_vars => Underway' /\ SizesAgree'
<1> SUFFICES ASSUME TypeOK, Underway, SizesAgree, [Next]_vars
             PROVE  Underway' /\ SizesAgree'
  OBVIOUS
<1> USE DEF som, settling, session
<1>1. CASE UNCHANGED session
  BY <1>1 DEF Underway, SizesAgree, Unlocked
<1>2. ASSUME NEW r \in Relay, NEW m \in Resize, Unlocked, Apply(r, m)
      PROVE  Underway' /\ SizesAgree'
  <2>1. resize' = [resize EXCEPT ![r] = [next |-> "term", size |-> m.size]]
    BY <1>2 DEF Apply
  <2>2. /\ resize'[r] = [next |-> "term", size |-> m.size]
        /\ \A s \in Relay \ {r} : resize'[s] = NoResize
    BY <1>2, <2>1 DEF Unlocked, TypeOK
  <2>3. resize'[r] # NoResize /\ resize'[r].next = "term" /\ resize'[r].size = bounds'.size
    BY <1>2, <2>2, ResizedType DEF Apply, NoResize
  <2> QED
    BY <2>2, <2>3 DEF Underway, SizesAgree, Unlocked
<1>3. ASSUME NEW r \in Relay, ReadInitialResize(r) \/ ReadResize(r)
      PROVE  Underway' /\ SizesAgree'
  BY <1>1, <1>2, <1>3, ReadType DEF ReadInitialResize, ReadResize
<1>4. ASSUME NEW r \in Relay, ResizeTerm(r) PROVE Underway' /\ SizesAgree'
  <2>1. resize[r] # NoResize
    BY <1>4 DEF ResizeTerm, NoResize
  <2>2. resize[r] \in [next : {"term", "pty"}, size : Size]
    BY <2>1 DEF TypeOK, Idle
  <2>3. /\ resize'[r] = [next |-> "pty", size |-> resize[r].size]
        /\ \A s \in Relay \ {r} : resize'[s] = resize[s]
    BY <1>4, <2>2 DEF ResizeTerm, TypeOK
  <2>4. resize'[r] # NoResize
    BY <2>3 DEF NoResize
  <2> QED
    BY <1>4, <2>1, <2>3, <2>4 DEF ResizeTerm, Underway, SizesAgree, Unlocked
<1>5. ASSUME NEW r \in Relay, TellPty(r) PROVE Underway' /\ SizesAgree'
  <2>1. resize[r] # NoResize
    BY <1>5 DEF TellPty, NoResize
  <2>2. term = bounds.size /\ resize[r].size = bounds.size
    BY <1>5, <2>1 DEF Underway, TellPty
  <2>3. toPty' # <<>> /\ toPty'[Len(toPty')] = bounds.size
    BY <1>5, <2>2 DEF TellPty, TypeOK
  <2>4. \A s \in Relay : resize'[s] = NoResize
    BY <1>5, <2>1 DEF TellPty, TypeOK, Underway
  <2> QED
    BY <1>5, <2>2, <2>3, <2>4 DEF TellPty, Underway, SizesAgree
<1>6. CASE ResizeTty
  <2>1. Latest' = Latest
    <3>1. CASE Len(toPty) = 1
      BY <1>6, <3>1 DEF ResizeTty, Latest, TypeOK
    <3>2. CASE Len(toPty) # 1
      <4>1. toPty \in Seq(Size) /\ toPty # <<>>
        BY <1>6 DEF ResizeTty, TypeOK
      <4>2. Len(toPty) \in Nat /\ Len(toPty) > 1
        <5>1. Len(toPty) \in Nat \ {0}
          BY <4>1, EmptySeq, Zenon
        <5> QED
          BY <3>2, <5>1
      <4>3. Len(Tail(toPty)) = Len(toPty) - 1
        BY <4>1, HeadTailProperties
      <4>4. Tail(toPty)[Len(toPty) - 1] = toPty[Len(toPty)]
        <5>1. Len(toPty) - 1 \in 1 .. Len(Tail(toPty))
          BY <4>2, <4>3
        <5>2. Tail(toPty)[Len(toPty) - 1] = toPty[(Len(toPty) - 1) + 1]
          BY <4>1, <5>1, HeadTailProperties
        <5> QED
          BY <4>2, <5>2
      <4>5. Len(Tail(toPty)) > 0
        BY <4>2, <4>3
      <4>6. Tail(toPty) # <<>>
        BY <4>5, EmptySeq
      <4> QED
        BY <1>6, <4>1, <4>3, <4>4, <4>6 DEF ResizeTty, Latest
    <3> QED
      BY <3>1, <3>2
  <2> QED
    BY <1>6, <2>1 DEF ResizeTty, Latest, Underway, SizesAgree, Unlocked
<1> QED
  BY <1>1, <1>3, <1>4, <1>5, <1>6
     DEF Next, RelayStep, ThreadStep, Connect, PaneResizes, RelayEnds, SettleRead,
         SendInitialSize, PollSize, SendSnapshot, ReadEnd, vars

\* Bounds, terminal and pty agree whenever nobody is resizing and what was told
\* the event loop has arrived.
THEOREM SizesAgreeHolds == Spec => []SizesAgree
<1>1. Init => Underway /\ SizesAgree
  BY DEF Init, Underway, SizesAgree
<1>2. Spec => [](Underway /\ SizesAgree)
  BY <1>1, SizesStep, TypeCorrect, PTL DEF Spec
<1> QED
  BY <1>2, PTL

-----------------------------------------------------------------------------
\* A relay that settles has sent nothing, and its last reading is only stable
\* when it is not the placeholder.
Settling ==
    \A r \in Relay :
        /\ thread[r] = "off" => relay[r] = "off" /\ unread[r] = <<>>
        /\ relay[r] = "settling" =>
            /\ unread[r] = <<>>
            /\ stable[r] > 0 => last[r] # Placeholder

\* Every step leaves settling relays so.
LEMMA SettlingStep == TypeOK /\ Settling /\ [Next]_vars => Settling'
<1> SUFFICES ASSUME TypeOK, Settling, [Next]_vars, NEW r \in Relay
             PROVE  /\ thread'[r] = "off" => relay'[r] = "off" /\ unread'[r] = <<>>
                    /\ relay'[r] = "settling" =>
                        /\ unread'[r] = <<>>
                        /\ stable'[r] > 0 => last'[r] # Placeholder
  BY DEF Settling
<1> USE DEF som, settling, session
<1>1. ASSUME NEW s \in Relay, Connect(s) \/ RelayEnds(s) \/ PaneResizes(s) PROVE Settling'
  BY <1>1 DEF Connect, RelayEnds, PaneResizes, Settling, TypeOK
<1>2. ASSUME NEW s \in Relay, RelayStep(s) PROVE Settling'
  <2>1. CASE SettleRead(s)
    BY <2>1 DEF SettleRead, Settling, TypeOK
  <2>2. CASE SendInitialSize(s)
    BY <2>2 DEF SendInitialSize, Settling, TypeOK
  <2>3. CASE PollSize(s)
    BY <2>3 DEF PollSize, Settling, TypeOK
  <2> QED
    BY <1>2, <2>1, <2>2, <2>3 DEF RelayStep
<1>3. ASSUME NEW s \in Relay, ReadInitialResize(s) \/ ReadResize(s) PROVE Settling'
  BY <1>3 DEF ReadInitialResize, ReadResize, Settling, TypeOK
<1>4. ASSUME NEW s \in Relay, SendSnapshot(s) \/ ReadEnd(s) PROVE Settling'
  BY <1>4 DEF SendSnapshot, ReadEnd, Settling, TypeOK
<1>5. ASSUME NEW s \in Relay, ResizeTerm(s) \/ TellPty(s) PROVE Settling'
  BY <1>5 DEF ResizeTerm, TellPty, Settling
<1>6. CASE ResizeTty \/ UNCHANGED vars
  BY <1>6 DEF ResizeTty, vars, Settling
<1> QED
  BY <1>1, <1>2, <1>3, <1>4, <1>5, <1>6 DEF Next, ThreadStep, Settling

\* A relay sends the placeholder's size only after its last attempt.
THEOREM PlaceholderHolds == Spec => PlaceholderIsLastResort
<1> DEFINE LastResort ==
        \A r \in Relay :
            /\ relay[r] = "settling" /\ relay'[r] = "on"
            /\ \E i \in 1 .. Len(unread'[r]) : unread'[r][i].size = Placeholder
            => reads[r] = MaxAttempts + 1
<1>1. Init => Settling
  BY DEF Init, Settling
<1>2. TypeOK /\ Settling /\ [Next]_vars => [LastResort]_vars
  <2> SUFFICES ASSUME TypeOK, Settling, Next, NEW r \in Relay,
                      relay[r] = "settling", relay'[r] = "on",
                      NEW i \in 1 .. Len(unread'[r]), unread'[r][i].size = Placeholder
               PROVE  reads[r] = MaxAttempts + 1
    OBVIOUS
  <2>1. SendInitialSize(r)
    BY DEF Next, RelayStep, ThreadStep, Connect, PaneResizes, RelayEnds, SettleRead,
           SendInitialSize, PollSize, ReadInitialResize, SendSnapshot, ReadResize, ResizeTerm,
           TellPty, ReadEnd, ResizeTty, som, settling, session, TypeOK
  <2>2. PICK c \in Cell \cup {Unknown} : unread'[r] = <<[size |-> last[r], cell |-> c]>>
    <3>1. PICK c \in Cell \cup {Unknown} :
              unread' = [unread EXCEPT ![r] = Append(@, [size |-> last[r], cell |-> c])]
      BY <2>1 DEF SendInitialSize
    <3>2. unread[r] = <<>>
      BY DEF Settling
    <3>3. Append(<<>>, [size |-> last[r], cell |-> c]) = <<[size |-> last[r], cell |-> c]>>
      OBVIOUS
    <3> QED
      BY <3>1, <3>2, <3>3 DEF TypeOK
  <2>3. last[r] = Placeholder
    BY <2>2
  <2> QED
    BY <2>1, <2>3 DEF SendInitialSize, Settled, Settling, TypeOK, StableReads
<1>3. Spec => [][LastResort]_vars
  BY <1>1, <1>2, SettlingStep, TypeCorrect, PTL DEF Spec
<1> QED
  BY <1>3 DEF PlaceholderIsLastResort

=============================================================================
