------------------------- MODULE SessionAttachProofs -------------------------
(***************************************************************************)
(* Proofs about SessionAttach, for any relays and any length of output.    *)
(*                                                                         *)
(* NothingLost follows from where the chunks are (InOrder): a run of them  *)
(* lies across the pty, the connection and the subscription, from one that *)
(* the snapshot reaches up to the last one read.  On the connection the    *)
(* word of the shell's exit may be among them, once (OnceTold).            *)
(***************************************************************************)
EXTENDS SessionAttach, SequenceTheorems, TLAPS

\* The chunks from one to before another.
Run(s, from, to) == Len(s) = to - from /\ \A i \in 1 .. Len(s) : s[i] = from + i - 1

\* ... with the word of the exit among them, at e.
RunAround(s, from, to, e) ==
    /\ Len(s) = to - from + 1 /\ s[e] = Exited
    /\ \A i \in 1 .. Len(s) : /\ i < e => s[i] = from + i - 1
                              /\ i > e => s[i] = from + i - 2

\* What has been sent: chunks only as long as the watcher has not told the exit.
OnceTold(r, from, to) ==
    \/ Run(sock[r], from, to)
    \/ /\ thread[r] = "attached" /\ watcher[r] = "none"
       /\ \E e \in 1 .. Len(sock[r]) : RunAround(sock[r], from, to, e)

\* The stream of relay r, from the chunk that is first in it.
InOrder(r, from, shown, sent) ==
    /\ Run(streamed[r], from, shown)
    /\ OnceTold(r, shown, sent)
    /\ Run(raw[r], sent, read + 1)
    /\ thread[r] \in {"snapped", "attached"} => from <= snapshot[r] + 1

\* The stream of a relay begins somewhere and is in order.
Ordered(r) == \E from, shown, sent \in 1 .. read + 1 : InOrder(r, from, shown, sent)

\* Nothing is sent to a relay before its snapshot, and no chunk is kept for one
\* that has not subscribed.
Empty(r) ==
    /\ thread[r] \in {"off", "registered", "sized"} => raw[r] = <<>>
    /\ thread[r] # "attached" => sock[r] = <<>> /\ watcher[r] = "none"
    /\ thread[r] \in {"registered", "sized", "subscribed", "snapped"} => streamed[r] = <<>>

\* The inductive invariant.
Inv ==
    /\ TypeOK
    /\ \A r \in Relay : Empty(r)
    /\ \A r \in Relay : Subscribed(r) => Ordered(r)

-----------------------------------------------------------------------------
(* Runs.                                                                   *)

\* The next chunk makes a run longer, with or without the word in it.
LEMMA RunAppend ==
    ASSUME NEW s \in Seq(Nat), NEW from \in Nat, NEW to \in Nat
    PROVE  /\ Run(s, from, to) => Run(Append(s, to), from, to + 1)
           /\ \A e \in 1 .. Len(s) :
                RunAround(s, from, to, e) => RunAround(Append(s, to), from, to + 1, e)
<1> DEFINE t == Append(s, to)
<1>1. /\ Len(s) \in Nat /\ Len(t) = Len(s) + 1 /\ t[Len(s) + 1] = to
      /\ \A i \in 1 .. Len(s) : t[i] = s[i]
  BY AppendProperties
<1> HIDE DEF t
<1>2. \A i \in 1 .. Len(t) : i \in 1 .. Len(s) \/ i = Len(s) + 1
  BY <1>1
<1>3. Run(s, from, to) => Run(t, from, to + 1)
  BY <1>1, <1>2 DEF Run
<1>4. ASSUME NEW e \in 1 .. Len(s), RunAround(s, from, to, e)
      PROVE  RunAround(t, from, to + 1, e)
  BY <1>1, <1>2, <1>4 DEF RunAround
<1> QED
  BY <1>3, <1>4 DEF t

\* The word of the exit behind a run.
LEMMA RunTold ==
    ASSUME NEW s \in Seq(Nat), NEW from \in Nat, NEW to \in Nat, Run(s, from, to)
    PROVE  \E e \in 1 .. Len(Append(s, Exited)) : RunAround(Append(s, Exited), from, to, e)
<1> DEFINE t == Append(s, Exited)
<1>1. /\ Len(s) \in Nat /\ Len(t) = Len(s) + 1 /\ t[Len(s) + 1] = Exited
      /\ \A i \in 1 .. Len(s) : t[i] = s[i]
  BY AppendProperties DEF Exited
<1> HIDE DEF t
<1>2. RunAround(t, from, to, Len(s) + 1)
  BY <1>1 DEF Run, RunAround
<1> QED
  BY <1>1, <1>2 DEF t

\* A run begins with its first chunk, and what follows is the rest of it.
LEMMA RunTail ==
    ASSUME NEW s \in Seq(Nat), s # <<>>, NEW from \in Nat, NEW to \in Nat, Run(s, from, to)
    PROVE  Head(s) = from /\ from < to /\ Run(Tail(s), from + 1, to)
<1>1. /\ Head(s) = s[1] /\ 1 \in 1 .. Len(s)
      /\ Len(s) \in Nat /\ Len(Tail(s)) = Len(s) - 1
      /\ \A i \in 1 .. Len(Tail(s)) : Tail(s)[i] = s[i + 1]
  BY HeadTailProperties
<1> QED
  BY <1>1 DEF Run

\* With the word in it, it begins with that or with its first chunk.
LEMMA RunAroundTail ==
    ASSUME NEW s \in Seq(Nat), s # <<>>, NEW from \in Nat \ {0}, NEW to \in Nat,
           NEW e \in 1 .. Len(s), RunAround(s, from, to, e)
    PROVE  \/ Head(s) = Exited /\ Run(Tail(s), from, to)
           \/ /\ Head(s) = from /\ from < to
              /\ \E f \in 1 .. Len(Tail(s)) : RunAround(Tail(s), from + 1, to, f)
<1> DEFINE t == Tail(s)
<1>1. /\ Head(s) = s[1] /\ 1 \in 1 .. Len(s)
      /\ Len(s) \in Nat /\ Len(t) = Len(s) - 1
      /\ \A i \in 1 .. Len(t) : t[i] = s[i + 1]
  BY HeadTailProperties
<1> HIDE DEF t
<1>2. \A i \in 1 .. Len(t) : i + 1 \in 1 .. Len(s)
  BY <1>1
<1>3. CASE e = 1
  <2>1. \A i \in 1 .. Len(t) : t[i] = from + i - 1
    BY <1>1, <1>2, <1>3 DEF RunAround
  <2> QED
    BY <1>1, <1>3, <2>1 DEF Run, RunAround, t
<1>4. CASE e > 1
  <2>1. e - 1 \in 1 .. Len(t) /\ Head(s) = from /\ from < to
    BY <1>1, <1>4 DEF RunAround
  <2>2. RunAround(t, from + 1, to, e - 1)
    BY <1>1, <1>2, <1>4 DEF RunAround
  <2> QED
    BY <2>1, <2>2 DEF t
<1> QED
  BY <1>1, <1>3, <1>4

\* One run behind another is one run; so with the word in the first or the second.
LEMMA RunConcat ==
    ASSUME NEW s \in Seq(Nat), NEW t \in Seq(Nat),
           NEW from \in Nat, NEW mid \in Nat, NEW to \in Nat
    PROVE  /\ Run(s, from, mid) /\ Run(t, mid, to) => Run(s \o t, from, to)
           /\ \A e \in 1 .. Len(t) : Run(s, from, mid) /\ RunAround(t, mid, to, e)
                => Len(s) + e \in 1 .. Len(s \o t) /\ RunAround(s \o t, from, to, Len(s) + e)
           /\ \A e \in 1 .. Len(s) : RunAround(s, from, mid, e) /\ Run(t, mid, to)
                => e \in 1 .. Len(s \o t) /\ RunAround(s \o t, from, to, e)
<1> DEFINE u == s \o t
<1>1. /\ Len(s) \in Nat /\ Len(t) \in Nat /\ Len(u) = Len(s) + Len(t)
      /\ \A i \in 1 .. Len(u) : u[i] = IF i <= Len(s) THEN s[i] ELSE t[i - Len(s)]
  BY ConcatProperties
<1> HIDE DEF u
<1>2. \A i \in 1 .. Len(u) : \/ i \in 1 .. Len(s) /\ u[i] = s[i]
                             \/ i > Len(s) /\ i - Len(s) \in 1 .. Len(t) /\ u[i] = t[i - Len(s)]
  BY <1>1
<1>3. Run(s, from, mid) /\ Run(t, mid, to) => Run(u, from, to)
  BY <1>1, <1>2 DEF Run
<1>4. ASSUME NEW e \in 1 .. Len(t), Run(s, from, mid), RunAround(t, mid, to, e)
      PROVE  Len(s) + e \in 1 .. Len(u) /\ RunAround(u, from, to, Len(s) + e)
  BY <1>1, <1>2, <1>4 DEF Run, RunAround
<1>5. ASSUME NEW e \in 1 .. Len(s), RunAround(s, from, mid, e), Run(t, mid, to)
      PROVE  e \in 1 .. Len(u) /\ RunAround(u, from, to, e)
  BY <1>1, <1>2, <1>5 DEF Run, RunAround
<1> QED
  BY <1>3, <1>4, <1>5 DEF u

-----------------------------------------------------------------------------
(* Steps.                                                                  *)

\* Chunks are numbers, and a place in the output can be counted.
LEMMA Counting ==
    ASSUME TypeOK
    PROVE  /\ MaxChunk \in Nat /\ read \in Nat /\ read <= MaxChunk
           /\ \A r \in Relay : raw[r] \in Seq(Nat) /\ sock[r] \in Seq(Nat) /\ streamed[r] \in Seq(Nat)
<1>1. MaxChunk \in Nat /\ read \in Nat /\ read <= MaxChunk
  BY AttachAssumption DEF TypeOK
<1>2. 1 .. MaxChunk \subseteq Nat /\ 0 .. MaxChunk \subseteq Nat
  BY <1>1
<1>3. ASSUME NEW r \in Relay
      PROVE  raw[r] \in Seq(Nat) /\ sock[r] \in Seq(Nat) /\ streamed[r] \in Seq(Nat)
  <2>1. raw[r] \in Seq(1 .. MaxChunk) /\ sock[r] \in Seq(0 .. MaxChunk)
        /\ streamed[r] \in Seq(1 .. MaxChunk)
    BY DEF TypeOK
  <2> QED
    BY <1>2, <2>1, SeqMonotonic
<1> QED
  BY <1>1, <1>3

\* The variables keep their types.
LEMMA TypeStep == TypeOK /\ [Next]_vars => TypeOK'
<1> SUFFICES ASSUME TypeOK, [Next]_vars PROVE TypeOK'
  OBVIOUS
<1> USE DEF output, feed
<1>1. MaxChunk \in Nat /\ read \in Nat /\ read <= MaxChunk
  BY Counting
<1>2. CASE Broadcast
  <2>1. read' \in 0 .. MaxChunk /\ parsed' \in {read', read' - 1} \cap Nat
    BY <1>1, <1>2 DEF Broadcast, TypeOK, Locked
  <2>2. read + 1 \in 1 .. MaxChunk
    BY <1>1, <1>2 DEF Broadcast
  <2>3. raw' \in [Relay -> Seq(1 .. MaxChunk)]
    <3>1. ASSUME NEW r \in Relay
          PROVE  raw[r] \in Seq(1 .. MaxChunk) /\ Append(raw[r], read + 1) \in Seq(1 .. MaxChunk)
      BY <2>2, AppendProperties DEF TypeOK
    <3> QED
      BY <1>2, <3>1 DEF Broadcast
  <2> QED
    BY <1>2, <2>1, <2>3 DEF Broadcast, TypeOK
<1>3. CASE Parse \/ ShellExits \/ PumpExit
  BY <1>1, <1>3 DEF Parse, ShellExits, PumpExit, TypeOK
<1>4. ASSUME NEW r \in Relay, Connect(r) PROVE TypeOK'
  <2>1. NoSnapshot \in NoSnapshot .. MaxChunk
    BY <1>1 DEF NoSnapshot
  <2>2. snapshot' \in [Relay -> NoSnapshot .. MaxChunk]
    BY <1>4, <2>1 DEF Connect, TypeOK
  <2>3. streamed' \in [Relay -> Seq(1 .. MaxChunk)]
    BY <1>4 DEF Connect, TypeOK
  <2> QED
    BY <1>4, <2>2, <2>3 DEF Connect, TypeOK
<1>5. ASSUME NEW r \in Relay, SendInitialSize(r) \/ RelayEnds(r) \/ ReadInitialSize(r)
      PROVE  TypeOK'
  BY <1>5 DEF SendInitialSize, RelayEnds, ReadInitialSize, TypeOK
<1>6. ASSUME NEW r \in Relay, Show(r) PROVE TypeOK'
  <2>1. sock[r] \in Seq(0 .. MaxChunk) /\ sock[r] # <<>> /\ streamed[r] \in Seq(1 .. MaxChunk)
    BY <1>6 DEF Show, TypeOK
  <2>2. Head(sock[r]) \in 0 .. MaxChunk /\ Tail(sock[r]) \in Seq(0 .. MaxChunk)
    BY <2>1, HeadTailProperties
  <2>3. Head(sock[r]) # Exited => Append(streamed[r], Head(sock[r])) \in Seq(1 .. MaxChunk)
    <3>1. Head(sock[r]) # Exited => Head(sock[r]) \in 1 .. MaxChunk
      BY <1>1, <2>2 DEF Exited
    <3> QED
      BY <2>1, <3>1, AppendProperties
  <2>4. sock' \in [Relay -> Seq(0 .. MaxChunk)]
    BY <1>6, <2>2 DEF Show, TypeOK
  <2>5. streamed' \in [Relay -> Seq(1 .. MaxChunk)] /\ muted' \in [Relay -> BOOLEAN]
    BY <1>6, <2>3 DEF Show, TypeOK
  <2> QED
    BY <1>6, <2>4, <2>5 DEF Show, TypeOK
<1>7. ASSUME NEW r \in Relay, Subscribe(r) PROVE TypeOK'
  BY <1>7 DEF Subscribe, TypeOK
<1>8. ASSUME NEW r \in Relay, TakeSnapshot(r) PROVE TypeOK'
  <2>1. parsed \in NoSnapshot .. MaxChunk
    BY <1>1, <1>8 DEF TakeSnapshot, TypeOK, Locked, NoSnapshot
  <2> QED
    BY <1>8, <2>1 DEF TakeSnapshot, TypeOK
<1>9. ASSUME NEW r \in Relay, Arm(r) PROVE TypeOK'
  BY <1>9 DEF Arm, TypeOK
<1>10. ASSUME NEW r \in Relay, Forward(r) PROVE TypeOK'
  <2>1. raw[r] \in Seq(1 .. MaxChunk) /\ raw[r] # <<>> /\ sock[r] \in Seq(0 .. MaxChunk)
    BY <1>10 DEF Forward, TypeOK
  <2>2. Head(raw[r]) \in 1 .. MaxChunk /\ Tail(raw[r]) \in Seq(1 .. MaxChunk)
    BY <2>1, HeadTailProperties
  <2>3. Append(sock[r], Head(raw[r])) \in Seq(0 .. MaxChunk)
    <3>1. Head(raw[r]) \in 0 .. MaxChunk
      BY <1>1, <2>2
    <3> QED
      BY <2>1, <3>1, AppendProperties
  <2>4. raw' \in [Relay -> Seq(1 .. MaxChunk)]
    BY <1>10, <2>2 DEF Forward, TypeOK
  <2>5. sock' \in [Relay -> Seq(0 .. MaxChunk)]
    BY <1>10, <2>3 DEF Forward, TypeOK
  <2> QED
    BY <1>10, <2>4, <2>5 DEF Forward, TypeOK
<1>11. ASSUME NEW r \in Relay, TellExit(r) PROVE TypeOK'
  <2>1. Append(sock[r], Exited) \in Seq(0 .. MaxChunk)
    <3>1. sock[r] \in Seq(0 .. MaxChunk) /\ Exited \in 0 .. MaxChunk
      BY <1>1 DEF TypeOK, Exited
    <3> QED
      BY <3>1, AppendProperties
  <2>2. sock' \in [Relay -> Seq(0 .. MaxChunk)]
    BY <1>11, <2>1 DEF TellExit, TypeOK
  <2> QED
    BY <1>11, <2>2 DEF TellExit, TypeOK
<1>12. ASSUME NEW r \in Relay, ThreadReturns(r) PROVE TypeOK'
  BY <1>12 DEF ThreadReturns, TypeOK
<1>13. CASE UNCHANGED vars
  BY <1>13 DEF vars, TypeOK
<1> QED
  BY <1>2, <1>3, <1>4, <1>5, <1>6, <1>7, <1>8, <1>9, <1>10, <1>11, <1>12, <1>13
     DEF Next, SessionStep, RelayStep, ThreadStep

\* Nothing runs ahead of a relay's attaching, nor is left of an earlier one.
LEMMA EmptyStep ==
    ASSUME TypeOK, NEW q \in Relay, Empty(q), [Next]_vars
    PROVE  Empty(q)'
<1> USE DEF output, feed
<1>1. CASE Broadcast
  BY <1>1 DEF Broadcast, Empty, Subscribed, TypeOK
<1>2. CASE Parse \/ ShellExits \/ UNCHANGED vars
  BY <1>2 DEF Parse, ShellExits, vars, Empty
<1>3. CASE PumpExit
  BY <1>3 DEF PumpExit, Empty, TypeOK
<1>4. ASSUME NEW r \in Relay, RelayStep(r) PROVE Empty(q)'
  <2>1. CASE Connect(r)
    BY <2>1 DEF Connect, Empty, TypeOK
  <2>2. CASE SendInitialSize(r) \/ RelayEnds(r)
    BY <2>2 DEF SendInitialSize, RelayEnds, Empty
  <2>3. CASE Show(r)
    BY <2>3 DEF Show, Empty, TypeOK
  <2> QED
    BY <1>4, <2>1, <2>2, <2>3 DEF RelayStep
<1>5. ASSUME NEW r \in Relay, ThreadStep(r) PROVE Empty(q)'
  <2>1. CASE ReadInitialSize(r) \/ Subscribe(r) \/ TakeSnapshot(r) \/ Arm(r)
    BY <2>1 DEF ReadInitialSize, Subscribe, TakeSnapshot, Arm, Empty, TypeOK
  <2>2. CASE Forward(r) \/ TellExit(r) \/ ThreadReturns(r)
    BY <2>2 DEF Forward, TellExit, ThreadReturns, Empty, TypeOK
  <2> QED
    BY <1>5, <2>1, <2>2 DEF ThreadStep
<1> QED
  BY <1>1, <1>2, <1>3, <1>4, <1>5 DEF Next, SessionStep

\* Nothing is in a stream that has just been subscribed to.
LEMMA NewStream ==
    ASSUME TypeOK, NEW r \in Relay, Empty(r), Subscribe(r)
    PROVE  Ordered(r)'
<1> DEFINE n == read + 1
<1>1. read \in Nat /\ n \in 1 .. n
  BY Counting
<1>2. read' = read /\ raw'[r] = <<>> /\ sock'[r] = <<>> /\ streamed'[r] = <<>>
      /\ thread'[r] = "subscribed"
  BY DEF Subscribe, Empty, TypeOK, output
<1>3. Run(<<>>, n, n)
  BY <1>1 DEF Run
<1>4. InOrder(r, n, n, n)'
  BY <1>2, <1>3 DEF InOrder, OnceTold
<1> QED
  BY <1>1, <1>2, <1>4 DEF Ordered

\* The word of the exit, behind chunks that are all sent or are still to be.
LEMMA ToldStream ==
    ASSUME TypeOK, NEW r \in Relay, Ordered(r), TellExit(r)
    PROVE  Ordered(r)'
<1> USE DEF output
<1>1. PICK from \in 1 .. read + 1, shown \in 1 .. read + 1, sent \in 1 .. read + 1 :
        InOrder(r, from, shown, sent)
  BY DEF Ordered
<1>2. read \in Nat /\ sock[r] \in Seq(Nat) /\ shown \in Nat /\ sent \in Nat
  BY Counting
<1>3. Run(sock[r], shown, sent)
  BY <1>1 DEF InOrder, OnceTold, TellExit
<1>4. \E e \in 1 .. Len(Append(sock[r], Exited)) : RunAround(Append(sock[r], Exited), shown, sent, e)
  BY <1>2, <1>3, RunTold
<1>5. sock'[r] = Append(sock[r], Exited) /\ thread'[r] = "attached" /\ watcher'[r] = "none"
  BY DEF TellExit, TypeOK
<1>6. OnceTold(r, shown, sent)'
  BY <1>4, <1>5 DEF OnceTold
<1>7. InOrder(r, from, shown, sent)'
  BY <1>1, <1>6 DEF InOrder, TellExit
<1> QED
  BY <1>7 DEF Ordered, TellExit

\* A chunk goes from the subscription to the connection.
LEMMA ForwardedStream ==
    ASSUME TypeOK, NEW r \in Relay, Ordered(r), Forward(r)
    PROVE  Ordered(r)'
<1> USE DEF output
<1>1. PICK from \in 1 .. read + 1, shown \in 1 .. read + 1, sent \in 1 .. read + 1 :
        InOrder(r, from, shown, sent)
  BY DEF Ordered
<1>2. read \in Nat /\ sock[r] \in Seq(Nat) /\ raw[r] \in Seq(Nat) /\ shown \in Nat /\ sent \in Nat
  BY Counting
<1>3. Head(raw[r]) = sent /\ sent < read + 1 /\ Run(Tail(raw[r]), sent + 1, read + 1)
  BY <1>1, <1>2, RunTail DEF InOrder, Forward
<1>4. /\ raw'[r] = Tail(raw[r]) /\ sock'[r] = Append(sock[r], sent)
      /\ UNCHANGED <<read, thread, watcher, snapshot, streamed>>
  BY <1>3 DEF Forward, TypeOK
<1>5. OnceTold(r, shown, sent + 1)'
  <2>1. CASE Run(sock[r], shown, sent)
    BY <1>2, <1>4, <2>1, RunAppend DEF OnceTold
  <2>2. CASE /\ thread[r] = "attached" /\ watcher[r] = "none"
             /\ \E e \in 1 .. Len(sock[r]) : RunAround(sock[r], shown, sent, e)
    <3>1. PICK e \in 1 .. Len(sock[r]) : RunAround(sock[r], shown, sent, e)
      BY <2>2
    <3>2. RunAround(sock'[r], shown, sent + 1, e)
      BY <1>2, <1>4, <3>1, RunAppend
    <3>3. e \in 1 .. Len(sock'[r])
      BY <1>2, <1>4, AppendProperties
    <3> QED
      BY <1>4, <2>2, <3>2, <3>3 DEF OnceTold
  <2> QED
    BY <1>1, <2>1, <2>2 DEF InOrder, OnceTold
<1>6. InOrder(r, from, shown, sent + 1)'
  BY <1>1, <1>3, <1>4, <1>5 DEF InOrder
<1>7. sent + 1 \in 1 .. read + 1
  BY <1>2, <1>3
<1> QED
  BY <1>4, <1>6, <1>7 DEF Ordered

\* A chunk goes from the connection to the pty; the word of the exit does not.
LEMMA ShownStream ==
    ASSUME TypeOK, NEW r \in Relay, Ordered(r), Show(r)
    PROVE  Ordered(r)'
<1> USE DEF output
<1>1. PICK from \in 1 .. read + 1, shown \in 1 .. read + 1, sent \in 1 .. read + 1 :
        InOrder(r, from, shown, sent)
  BY DEF Ordered
<1>2. /\ read \in Nat /\ sock[r] \in Seq(Nat) /\ streamed[r] \in Seq(Nat)
      /\ from \in Nat /\ shown \in Nat \ {0} /\ sent \in Nat
  BY Counting
<1>3. /\ sock[r] # <<>> /\ sock'[r] = Tail(sock[r])
      /\ UNCHANGED <<read, thread, raw, watcher, snapshot>>
      /\ streamed'[r] = IF Head(sock[r]) = Exited THEN streamed[r]
                        ELSE Append(streamed[r], Head(sock[r]))
  BY DEF Show, TypeOK
<1>4. ASSUME Head(sock[r]) = shown, shown < sent, OnceTold(r, shown + 1, sent)'
      PROVE  Ordered(r)'
  <2>1. streamed'[r] = Append(streamed[r], shown)
    BY <1>2, <1>3, <1>4 DEF Exited
  <2>2. Run(streamed'[r], from, shown + 1)
    BY <1>1, <1>2, <2>1, RunAppend DEF InOrder
  <2>3. InOrder(r, from, shown + 1, sent)'
    BY <1>1, <1>3, <1>4, <2>2 DEF InOrder
  <2>4. shown + 1 \in 1 .. read + 1
    BY <1>2, <1>4
  <2> QED
    BY <1>3, <2>3, <2>4 DEF Ordered
<1>5. CASE Run(sock[r], shown, sent)
  <2>1. Head(sock[r]) = shown /\ shown < sent /\ Run(Tail(sock[r]), shown + 1, sent)
    BY <1>2, <1>3, <1>5, RunTail
  <2> QED
    BY <1>3, <1>4, <2>1 DEF OnceTold
<1>6. CASE /\ thread[r] = "attached" /\ watcher[r] = "none"
           /\ \E e \in 1 .. Len(sock[r]) : RunAround(sock[r], shown, sent, e)
  <2>1. PICK e \in 1 .. Len(sock[r]) : RunAround(sock[r], shown, sent, e)
    BY <1>6
  <2>2. \/ Head(sock[r]) = Exited /\ Run(Tail(sock[r]), shown, sent)
        \/ /\ Head(sock[r]) = shown /\ shown < sent
           /\ \E f \in 1 .. Len(Tail(sock[r])) : RunAround(Tail(sock[r]), shown + 1, sent, f)
    BY <1>2, <1>3, <2>1, RunAroundTail
  <2>3. CASE Head(sock[r]) = Exited /\ Run(Tail(sock[r]), shown, sent)
    <3>1. InOrder(r, from, shown, sent)'
      BY <1>1, <1>3, <2>3 DEF InOrder, OnceTold
    <3> QED
      BY <1>3, <3>1 DEF Ordered
  <2>4. CASE /\ Head(sock[r]) = shown /\ shown < sent
             /\ \E f \in 1 .. Len(Tail(sock[r])) : RunAround(Tail(sock[r]), shown + 1, sent, f)
    BY <1>3, <1>4, <1>6, <2>4 DEF OnceTold
  <2> QED
    BY <2>2, <2>3, <2>4
<1> QED
  BY <1>1, <1>5, <1>6 DEF InOrder, OnceTold

\* Every step keeps the streams in order.
LEMMA OrderStep ==
    ASSUME TypeOK, NEW q \in Relay, Empty(q), Subscribed(q) => Ordered(q),
           [Next]_vars, Subscribed(q)'
    PROVE  Ordered(q)'
<1> USE DEF output, feed
<1>1. CASE Broadcast
  <2>1. read \in Nat /\ raw[q] \in Seq(Nat) /\ read' = read + 1
        /\ UNCHANGED <<thread, watcher, sock, snapshot, streamed>>
    BY <1>1, Counting DEF Broadcast
  <2>2. Subscribed(q) /\ raw'[q] = Append(raw[q], read + 1)
    BY <1>1, <2>1 DEF Broadcast, Subscribed
  <2>3. PICK from \in 1 .. read + 1, shown \in 1 .. read + 1, sent \in 1 .. read + 1 :
          InOrder(q, from, shown, sent)
    BY <2>2 DEF Ordered
  <2>4. Run(raw'[q], sent, read' + 1)
    BY <2>1, <2>2, <2>3, RunAppend DEF InOrder
  <2>5. InOrder(q, from, shown, sent)'
    BY <2>1, <2>3, <2>4 DEF InOrder, OnceTold
  <2>6. from \in 1 .. read' + 1 /\ shown \in 1 .. read' + 1 /\ sent \in 1 .. read' + 1
    BY <2>1
  <2> QED
    BY <2>5, <2>6 DEF Ordered
<1>2. CASE Parse \/ ShellExits \/ UNCHANGED vars
  BY <1>2 DEF Parse, ShellExits, vars, Ordered, InOrder, OnceTold, Subscribed
<1>3. CASE PumpExit
  <2>1. /\ UNCHANGED <<read, thread, raw, sock, snapshot, streamed>>
        /\ watcher[q] = "none" => watcher'[q] = "none"
    BY <1>3 DEF PumpExit
  <2> QED
    BY <2>1 DEF Ordered, InOrder, OnceTold, Subscribed
<1>4. ASSUME NEW r \in Relay, RelayStep(r), q # r PROVE Ordered(q)'
  <2>1. /\ read' = read /\ thread'[q] = thread[q] /\ watcher'[q] = watcher[q]
        /\ raw'[q] = raw[q] /\ sock'[q] = sock[q] /\ snapshot'[q] = snapshot[q]
        /\ streamed'[q] = streamed[q]
    <3>1. CASE Show(r)
      BY <1>4, <3>1 DEF Show, TypeOK
    <3> QED
      BY <1>4, <3>1 DEF RelayStep, Connect, SendInitialSize, RelayEnds, TypeOK
  <2> QED
    BY <2>1 DEF Ordered, InOrder, OnceTold, Subscribed
<1>5. ASSUME NEW r \in Relay, ThreadStep(r), q # r PROVE Ordered(q)'
  <2>1. /\ read' = read /\ thread'[q] = thread[q] /\ watcher'[q] = watcher[q]
        /\ raw'[q] = raw[q] /\ sock'[q] = sock[q] /\ snapshot'[q] = snapshot[q]
        /\ streamed'[q] = streamed[q]
    BY <1>5 DEF ThreadStep, ReadInitialSize, Subscribe, TakeSnapshot, Arm, Forward,
                TellExit, ThreadReturns, TypeOK
  <2> QED
    BY <2>1 DEF Ordered, InOrder, OnceTold, Subscribed
<1>6. CASE RelayStep(q)
  <2>1. CASE Connect(q)
    BY <2>1 DEF Connect, Subscribed, TypeOK
  <2>2. CASE SendInitialSize(q) \/ RelayEnds(q)
    BY <2>2 DEF SendInitialSize, RelayEnds, Ordered, InOrder, OnceTold, Subscribed
  <2>3. CASE Show(q)
    BY <2>3, ShownStream DEF Show, Subscribed
  <2> QED
    BY <1>6, <2>1, <2>2, <2>3 DEF RelayStep
<1>7. CASE ThreadStep(q)
  <2>1. CASE ReadInitialSize(q) \/ ThreadReturns(q)
    BY <2>1 DEF ReadInitialSize, ThreadReturns, Subscribed, TypeOK
  <2>2. CASE Subscribe(q)
    BY <2>2, NewStream
  <2>3. CASE TakeSnapshot(q)
    <3>1. /\ snapshot'[q] = read /\ read \in Nat
          /\ UNCHANGED <<read, raw, watcher, sock, streamed>>
      BY <2>3, Counting DEF TakeSnapshot, TypeOK, Locked
    <3>2. sock[q] = <<>> /\ Subscribed(q) /\ thread[q] # "attached"
      BY <2>3 DEF TakeSnapshot, Empty, Subscribed
    <3>3. PICK from \in 1 .. read + 1, shown \in 1 .. read + 1, sent \in 1 .. read + 1 :
            InOrder(q, from, shown, sent)
      BY <3>2 DEF Ordered
    <3>4. InOrder(q, from, shown, sent)'
      BY <3>1, <3>2, <3>3 DEF InOrder, OnceTold
    <3> QED
      BY <3>1, <3>4 DEF Ordered
  <2>4. CASE Arm(q)
    <3>1. /\ UNCHANGED <<read, raw, sock, snapshot, streamed>>
          /\ thread[q] = "snapped"
      BY <2>4 DEF Arm
    <3> QED
      BY <3>1 DEF Ordered, InOrder, OnceTold, Subscribed
  <2>5. CASE Forward(q)
    BY <2>5, ForwardedStream DEF Forward, Subscribed
  <2>6. CASE TellExit(q)
    BY <2>6, ToldStream DEF TellExit, Subscribed
  <2> QED
    BY <1>7, <2>1, <2>2, <2>3, <2>4, <2>5, <2>6 DEF ThreadStep
<1> QED
  BY <1>1, <1>2, <1>3, <1>4, <1>5, <1>6, <1>7 DEF Next, SessionStep

-----------------------------------------------------------------------------
(* What the streams hold.                                                  *)

\* The chunks of a run and of one with the word in it: none is missing up to the
\* last one read, and each comes once, after the one before.
LEMMA RunHolds ==
    ASSUME NEW s \in Seq(Nat), NEW from \in Nat \ {0}, NEW last \in Nat,
           \/ Run(s, from, last + 1)
           \/ \E e \in 1 .. Len(s) : RunAround(s, from, last + 1, e)
    PROVE  /\ \A n \in from .. last : \E i \in Chunks(s) : s[i] = n
           /\ \A i, j \in Chunks(s) : i < j => s[i] < s[j]
           /\ \A i \in Chunks(s) : s[i] = last \/ \E j \in Chunks(s) : s[j] = s[i] + 1
<1>0. Len(s) \in Nat /\ from \in Nat /\ from > 0 /\ last \in Nat
  BY LenProperties
<1>1. CASE Run(s, from, last + 1)
  <2>1. Len(s) = last + 1 - from /\ \A i \in 1 .. Len(s) : s[i] = from + i - 1
    BY <1>1 DEF Run
  <2>2. Chunks(s) = 1 .. Len(s)
    BY <1>0, <2>1 DEF Chunks, Exited
  <2>3. ASSUME NEW n \in from .. last PROVE \E i \in Chunks(s) : s[i] = n
    <3>1. n - from + 1 \in 1 .. Len(s)
      BY <1>0, <2>1
    <3>2. s[n - from + 1] = n
      BY <1>0, <2>1, <3>1
    <3> QED
      BY <2>2, <3>1, <3>2
  <2>4. ASSUME NEW i \in Chunks(s), NEW j \in Chunks(s), i < j PROVE s[i] < s[j]
    BY <1>0, <2>1, <2>2, <2>4
  <2>5. ASSUME NEW i \in Chunks(s), s[i] # last PROVE \E j \in Chunks(s) : s[j] = s[i] + 1
    <3>1. i \in 1 .. Len(s) /\ i \in Int /\ s[i] = from + i - 1
      BY <1>0, <2>1, <2>2
    <3>2. i + 1 \in 1 .. Len(s)
      BY <1>0, <2>1, <2>5, <3>1
    <3>3. s[i + 1] = s[i] + 1
      BY <1>0, <2>1, <3>1, <3>2
    <3> QED
      BY <2>2, <3>2, <3>3
  <2> QED
    BY <2>3, <2>4, <2>5
<1>2. ASSUME NEW e \in 1 .. Len(s), RunAround(s, from, last + 1, e)
      PROVE  /\ \A n \in from .. last : \E i \in Chunks(s) : s[i] = n
             /\ \A i, j \in Chunks(s) : i < j => s[i] < s[j]
             /\ \A i \in Chunks(s) : s[i] = last \/ \E j \in Chunks(s) : s[j] = s[i] + 1
  <2>1. /\ Len(s) = last - from + 2 /\ s[e] = 0 /\ e \in Int
        /\ \A i \in 1 .. Len(s) : i < e => s[i] = from + i - 1
        /\ \A i \in 1 .. Len(s) : i > e => s[i] = from + i - 2
    BY <1>0, <1>2 DEF RunAround, Exited
  <2>2. Chunks(s) = (1 .. Len(s)) \ {e}
    BY <1>0, <2>1 DEF Chunks, Exited
  <2>3. ASSUME NEW n \in from .. last PROVE \E i \in Chunks(s) : s[i] = n
    <3>1. CASE n - from + 1 < e
      <4>1. n - from + 1 \in (1 .. Len(s)) \ {e}
        BY <1>0, <2>1, <3>1
      <4>2. s[n - from + 1] = n
        BY <1>0, <2>1, <3>1, <4>1
      <4> QED
        BY <2>2, <4>1, <4>2
    <3>2. CASE n - from + 2 > e
      <4>1. n - from + 2 \in (1 .. Len(s)) \ {e}
        BY <1>0, <2>1, <3>2
      <4>2. s[n - from + 2] = n
        BY <1>0, <2>1, <3>2, <4>1
      <4> QED
        BY <2>2, <4>1, <4>2
    <3> QED
      BY <1>0, <2>1, <3>1, <3>2
  <2>4. ASSUME NEW i \in Chunks(s), NEW j \in Chunks(s), i < j PROVE s[i] < s[j]
    <3>1. /\ i \in 1 .. Len(s) /\ i \in Int /\ i # e
          /\ j \in 1 .. Len(s) /\ j \in Int /\ j # e
      BY <1>0, <2>2
    <3>2. /\ i < e => s[i] = from + i - 1
          /\ i > e => s[i] = from + i - 2
          /\ j < e => s[j] = from + j - 1
          /\ j > e => s[j] = from + j - 2
      BY <2>1, <3>1
    <3> QED
      BY <1>0, <2>1, <2>4, <3>1, <3>2
  <2>5. ASSUME NEW i \in Chunks(s), s[i] # last PROVE \E j \in Chunks(s) : s[j] = s[i] + 1
    <3>1. CASE i + 1 = e
      <4>1. i \in 1 .. Len(s) /\ i \in Int /\ i < e
        BY <1>0, <2>1, <2>2, <3>1
      <4>2. s[i] = from + i - 1
        BY <2>1, <4>1
      <4>3. i + 2 \in (1 .. Len(s)) \ {e}
        BY <1>0, <2>1, <2>5, <3>1, <4>1, <4>2
      <4>4. s[i + 2] = s[i] + 1
        BY <1>0, <2>1, <3>1, <4>1, <4>2, <4>3
      <4> QED
        BY <2>2, <4>3, <4>4
    <3>2. CASE i + 1 # e
      <4>1. i \in Int /\ i + 1 \in (1 .. Len(s)) \ {e}
        BY <1>0, <2>1, <2>2, <2>5, <3>2
      <4>2. s[i + 1] = s[i] + 1
        BY <1>0, <2>1, <2>2, <3>2, <4>1
      <4> QED
        BY <2>2, <4>1, <4>2
    <3> QED
      BY <3>1, <3>2
  <2> QED
    BY <2>3, <2>4, <2>5
<1> QED
  BY <1>1, <1>2

\* A stream is one run, from its first chunk to the last one read.
LEMMA StreamIsRun ==
    ASSUME TypeOK, NEW r \in Relay, NEW from \in 1 .. read + 1,
           NEW shown \in 1 .. read + 1, NEW sent \in 1 .. read + 1,
           InOrder(r, from, shown, sent)
    PROVE  /\ Stream(r) \in Seq(Nat)
           /\ \/ Run(Stream(r), from, read + 1)
              \/ \E e \in 1 .. Len(Stream(r)) : RunAround(Stream(r), from, read + 1, e)
<1> DEFINE s == streamed[r]
           t == sock[r]
           u == raw[r]
           st == s \o t
<1>1. /\ read \in Nat /\ s \in Seq(Nat) /\ t \in Seq(Nat) /\ u \in Seq(Nat)
      /\ from \in Nat /\ shown \in Nat /\ sent \in Nat /\ read + 1 \in Nat
  BY Counting
<1>2. st \in Seq(Nat) /\ st \o u \in Seq(Nat) /\ Stream(r) = st \o u
  BY <1>1, ConcatProperties DEF Stream
<1>3. Run(s, from, shown) /\ OnceTold(r, shown, sent) /\ Run(u, sent, read + 1)
  BY DEF InOrder
<1> HIDE DEF s, t, u, st
<1>4. CASE Run(t, shown, sent)
  <2>1. Run(st, from, sent)
    BY <1>1, <1>3, <1>4, RunConcat DEF st
  <2>2. Run(st \o u, from, read + 1)
    BY <1>1, <1>2, <1>3, <2>1, RunConcat
  <2> QED
    BY <1>2, <2>2
<1>5. ASSUME NEW e \in 1 .. Len(t), RunAround(t, shown, sent, e)
      PROVE  \E f \in 1 .. Len(st \o u) : RunAround(st \o u, from, read + 1, f)
  <2>1. Len(s) + e \in 1 .. Len(st) /\ RunAround(st, from, sent, Len(s) + e)
    BY <1>1, <1>3, <1>5, RunConcat DEF st
  <2> QED
    BY <1>1, <1>2, <1>3, <2>1, RunConcat
<1> QED
  BY <1>2, <1>3, <1>4, <1>5 DEF OnceTold, t

-----------------------------------------------------------------------------
(* The theorems.                                                           *)

LEMMA InvInit == Init => Inv
<1> SUFFICES ASSUME Init PROVE Inv
  OBVIOUS
<1>1. MaxChunk \in Nat
  BY AttachAssumption
<1>2. TypeOK
  BY <1>1 DEF Init, TypeOK, NoSnapshot
<1> QED
  BY <1>2 DEF Init, Inv, Empty, Subscribed

LEMMA InvStep == Inv /\ [Next]_vars => Inv'
  BY TypeStep, EmptyStep, OrderStep DEF Inv

\* The types, for any relays and any length of output.
THEOREM TypeCorrect == Spec => []TypeOK
<1>1. Init => TypeOK
  BY InvInit DEF Inv
<1> QED
  BY <1>1, TypeStep, PTL DEF Spec

\* The inductive invariant: where the chunks of each relay's stream are.
THEOREM InvHolds == Spec => []Inv
  BY InvInit, InvStep, PTL DEF Spec

\* However relays come and go while the shell writes and exits, none of its
\* output is lost between a relay's snapshot and its stream, or comes twice or
\* out of order in the stream (handle_relay, spawn_forwarder).
THEOREM NothingIsLost == Spec => []NothingLost
<1>1. Inv => NothingLost
  <2> SUFFICES ASSUME Inv, NEW r \in Relay, thread[r] \in {"snapped", "attached"}
               PROVE  /\ \A n \in snapshot[r] + 1 .. read : \E i \in Chunks(Stream(r)) : Stream(r)[i] = n
                      /\ \A i, j \in Chunks(Stream(r)) : i < j => Stream(r)[i] < Stream(r)[j]
                      /\ \A i \in Chunks(Stream(r)) :
                            Stream(r)[i] = read \/ \E j \in Chunks(Stream(r)) : Stream(r)[j] = Stream(r)[i] + 1
    BY DEF NothingLost
  <2>1. PICK from \in 1 .. read + 1, shown \in 1 .. read + 1, sent \in 1 .. read + 1 :
          InOrder(r, from, shown, sent)
    BY DEF Inv, Ordered, Subscribed
  <2>2. read \in Nat /\ snapshot[r] \in Int /\ from <= snapshot[r] + 1 /\ from \in Nat \ {0}
    <3>1. read \in Nat /\ MaxChunk \in Nat
      BY Counting DEF Inv
    <3>2. snapshot[r] \in NoSnapshot .. MaxChunk
      BY DEF Inv, TypeOK
    <3> QED
      BY <2>1, <3>1, <3>2 DEF InOrder, NoSnapshot
  <2>3. /\ Stream(r) \in Seq(Nat)
        /\ \/ Run(Stream(r), from, read + 1)
           \/ \E e \in 1 .. Len(Stream(r)) : RunAround(Stream(r), from, read + 1, e)
    BY <2>1, StreamIsRun DEF Inv
  <2>4. /\ \A n \in from .. read : \E i \in Chunks(Stream(r)) : Stream(r)[i] = n
        /\ \A i, j \in Chunks(Stream(r)) : i < j => Stream(r)[i] < Stream(r)[j]
        /\ \A i \in Chunks(Stream(r)) :
              Stream(r)[i] = read \/ \E j \in Chunks(Stream(r)) : Stream(r)[j] = Stream(r)[i] + 1
    BY <2>2, <2>3, RunHolds
  <2>5. \A n \in snapshot[r] + 1 .. read : n \in from .. read
    BY <2>2
  <2> QED
    BY <2>4, <2>5
<1> QED
  BY <1>1, InvHolds, PTL
=============================================================================
