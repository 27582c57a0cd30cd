----------------------------- MODULE LinkProofs -----------------------------
(***************************************************************************)
(* Proofs about Link, for any channels, whatever is written and answered   *)
(* on them, and any number of frames in the pty.                           *)
(***************************************************************************)
EXTENDS Link, SequenceTheorems, TLAPS

-----------------------------------------------------------------------------
(* A direction of the link: the queue of its frames in the pty, the number  *)
(* of the next one sent, and the last one taken by the end it goes to.      *)

\* The number that the next frame of a queue has, or will have.
First(queue, next) == IF queue = <<>> THEN next ELSE queue[1].seq

\* The frames of a queue are numbered one after another, up to the next one sent.
Consecutive(queue, next) ==
    \A i \in 1 .. Len(queue) :
        NextNumber(queue[i].seq) = IF i = Len(queue) THEN next ELSE queue[i + 1].seq

\* The head of the queue has been taken already: it is being handed on again.
Copied(queue, last) == queue # <<>> /\ queue[1].seq = last

\* So many frames are missing behind the last one taken.
Missing(queue, next, last, n) == First(queue, next) = (last + 1 + n) % SeqMod

\* No frame is missing, as far as the numbers tell.
Whole(queue, next, last) ==
    last = NoSeq \/ Copied(queue, last) \/ Missing(queue, next, last, 0)

Numbered(queue, next, last, lost) ==
    /\ Consecutive(queue, next)
    /\ \/ last = NoSeq \/ Copied(queue, last)
       \/ \E n \in 0 .. lost : Missing(queue, next, last, n)

\* The data frames of a channel that are still to be taken.
Live(queue, last, c) ==
    {i \in 1 .. Len(queue) : /\ i = 1 => queue[i].seq # last
                             /\ queue[i].kind = "data" /\ queue[i].channel = c}

\* The steps of a direction: its head is taken, or is a break, or gets lost.
Takes(queue, last, queue1, last1) ==
    /\ queue # <<>> /\ queue1 \in {queue, Tail(queue)}
    /\ ~Gap([last |-> last], queue[1])
    /\ last1 = queue[1].seq

Fails(queue, last, queue1, last1) ==
    /\ queue # <<>> /\ last1 = NoSeq
    /\ \/ queue1 = Tail(queue)
       \/ queue1 = queue /\ queue[1].seq # last

-----------------------------------------------------------------------------
(* Numbers.                                                                *)

LEMMA ModCases ==
    ASSUME NEW m \in Nat \ {0}, NEW a \in Nat, a < m + m
    PROVE  a % m = IF a < m THEN a ELSE a - m
  BY SMTT(60)

\* The numbers after one: they differ from it and from each other until they
\* wrap around.
LEMMA NumbersDiffer ==
    ASSUME NEW x \in 0 .. SeqMod - 1, NEW n \in Nat, n + 2 <= SeqMod
    PROVE  /\ NextNumber(x) \in 0 .. SeqMod - 1 /\ NextNumber(x) # x
           /\ NextNumber(x) = (x + 1 + 0) % SeqMod
           /\ (x + 1 + n) % SeqMod \in 0 .. SeqMod - 1 /\ (x + 1 + n) % SeqMod # x
           /\ (x + 1 + n) % SeqMod = NextNumber(x) => n = 0
           /\ NextNumber((x + 1 + n) % SeqMod) = (x + 1 + (n + 1)) % SeqMod
<1>1. SeqMod \in Nat \ {0} /\ x \in Nat /\ SeqMod >= 2
  BY LinkAssumption
<1> DEFINE a == x + 1 + n
           b == x + 1 + (n + 1)
<1>2. ASSUME NEW y \in 0 .. SeqMod - 1 PROVE NextNumber(y) = IF y + 1 = SeqMod THEN 0 ELSE y + 1
  <2> DEFINE z == y + 1
  <2>1. z \in Nat /\ z < SeqMod + SeqMod
    BY <1>1
  <2>2. z % SeqMod = IF z < SeqMod THEN z ELSE z - SeqMod
    <3> HIDE DEF z
    <3> QED
      BY <1>1, <2>1, ModCases
  <2> QED
    BY <1>1, <2>1, <2>2 DEF NextNumber
<1>3. a \in Nat /\ a < SeqMod + SeqMod /\ b \in Nat /\ b < SeqMod + SeqMod
  BY <1>1
<1>4. a % SeqMod = IF a < SeqMod THEN a ELSE a - SeqMod
  <2> HIDE DEF a
  <2> QED
    BY <1>1, <1>3, ModCases
<1>5. b % SeqMod = IF b < SeqMod THEN b ELSE b - SeqMod
  <2> HIDE DEF b
  <2> QED
    BY <1>1, <1>3, ModCases
<1>6. NextNumber(x) = (x + 1 + 0) % SeqMod
  BY <1>1 DEF NextNumber
<1> DEFINE r == a % SeqMod
           t == b % SeqMod
<1>7. /\ r = IF a < SeqMod THEN a ELSE a - SeqMod
      /\ t = IF b < SeqMod THEN b ELSE b - SeqMod
  BY <1>4, <1>5
<1> HIDE DEF r, t
<1>8. r \in 0 .. SeqMod - 1 /\ r # x
  BY <1>1, <1>7
<1>9. NextNumber(r) = t
  BY <1>1, <1>2, <1>7, <1>8
<1>10. NextNumber(x) \in 0 .. SeqMod - 1 /\ NextNumber(x) # x /\ (r = NextNumber(x) => n = 0)
  BY <1>1, <1>2, <1>7
<1> QED
  BY <1>6, <1>8, <1>9, <1>10 DEF r, t

\* A queue and what is left of it.
LEMMA QueueTail ==
    ASSUME NEW q \in Seq(Frame), q # <<>>
    PROVE  /\ Head(q) = q[1] /\ 1 \in 1 .. Len(q) /\ Len(q) \in Nat
           /\ Tail(q) \in Seq(Frame) /\ Len(Tail(q)) = Len(q) - 1
           /\ \A i \in 1 .. Len(Tail(q)) : i + 1 \in 1 .. Len(q) /\ Tail(q)[i] = q[i + 1]
           /\ \A i \in 1 .. Len(q) : q[i] \in Frame /\ q[i].seq \in 0 .. SeqMod - 1
           /\ Tail(q) = <<>> <=> Len(q) = 1
<1>1. /\ Head(q) = q[1] /\ Len(q) \in Nat /\ Len(q) > 0
      /\ Tail(q) \in Seq(Frame) /\ Len(Tail(q)) = Len(q) - 1
      /\ \A i \in 1 .. Len(Tail(q)) : Tail(q)[i] = q[i + 1]
  BY HeadTailProperties, EmptySeq, LenProperties
<1>2. ASSUME NEW i \in 1 .. Len(q) PROVE q[i] \in Frame /\ q[i].seq \in 0 .. SeqMod - 1
  <2>1. q[i] \in Frame
    BY ElementOfSeq
  <2> QED
    BY <2>1 DEF Frame
<1>3. Tail(q) = <<>> <=> Len(Tail(q)) = 0
  BY <1>1, EmptySeq
<1> QED
  BY <1>1, <1>2, <1>3

\* The number after the head's.
LEMMA FirstOfTail ==
    ASSUME NEW q \in Seq(Frame), q # <<>>, NEW n, Consecutive(q, n)
    PROVE  Consecutive(Tail(q), n) /\ First(Tail(q), n) = NextNumber(q[1].seq)
<1>1. /\ 1 \in 1 .. Len(q) /\ Len(q) \in Nat /\ Len(Tail(q)) = Len(q) - 1
      /\ \A i \in 1 .. Len(Tail(q)) : i + 1 \in 1 .. Len(q) /\ Tail(q)[i] = q[i + 1]
      /\ Tail(q) = <<>> <=> Len(q) = 1
  BY QueueTail
<1> DEFINE t == Tail(q)
<1> HIDE DEF t
<1>2. Consecutive(t, n)
  <2> SUFFICES ASSUME NEW i \in 1 .. Len(t)
               PROVE  NextNumber(t[i].seq) = IF i = Len(t) THEN n ELSE t[i + 1].seq
    BY DEF Consecutive
  <2>1. t[i] = q[i + 1] /\ NextNumber(q[i + 1].seq) = IF i + 1 = Len(q) THEN n ELSE q[(i + 1) + 1].seq
    BY <1>1 DEF Consecutive, t
  <2>2. Len(t) \in Nat /\ Len(t) + 1 = Len(q)
    BY <1>1 DEF t
  <2>3. CASE i = Len(t)
    BY <2>1, <2>2, <2>3
  <2>4. CASE i # Len(t)
    <3>1. i + 1 \in 1 .. Len(t) /\ i + 1 # Len(q)
      BY <2>2, <2>4
    <3>2. t[i + 1] = q[(i + 1) + 1]
      BY <1>1, <3>1 DEF t
    <3> QED
      BY <2>1, <2>4, <3>1, <3>2
  <2> QED
    BY <2>3, <2>4
<1>3. NextNumber(q[1].seq) = IF Len(q) = 1 THEN n ELSE q[1 + 1].seq
  BY <1>1 DEF Consecutive
<1>4. Len(q) # 1 => t[1] = q[1 + 1]
  BY <1>1 DEF t
<1> QED
  BY <1>1, <1>2, <1>3, <1>4 DEF First, t

-----------------------------------------------------------------------------
(* The steps of a direction keep its frames numbered.                      *)

\* A queue of numbered frames.
Direction(q, n, l, k) ==
    /\ q \in Seq(Frame) /\ n \in 0 .. SeqMod - 1 /\ l \in {NoSeq} \cup 0 .. SeqMod - 1
    /\ k \in Nat /\ k + 2 <= SeqMod
    /\ Numbered(q, n, l, k)

\* A frame is sent.
LEMMA SendNumbered ==
    ASSUME NEW q, NEW n, NEW l, NEW k, Direction(q, n, l, k), NEW f \in Frame, f.seq = n
    PROVE  /\ Numbered(Append(q, f), NextNumber(n), l, k)
           /\ Whole(Append(q, f), NextNumber(n), l) => Whole(q, n, l)
           /\ q = <<>> => n # l
<1> DEFINE t == Append(q, f)
<1>0. /\ q \in Seq(Frame) /\ n \in 0 .. SeqMod - 1 /\ l \in {NoSeq} \cup 0 .. SeqMod - 1
      /\ k \in Nat /\ k + 2 <= SeqMod /\ Consecutive(q, n)
      /\ \/ l = NoSeq \/ Copied(q, l)
         \/ \E m \in 0 .. k : Missing(q, n, l, m)
  BY DEF Direction, Numbered
<1>1. /\ Len(q) \in Nat /\ Len(t) = Len(q) + 1 /\ t[Len(q) + 1] = f
      /\ \A i \in 1 .. Len(q) : t[i] = q[i]
      /\ q = <<>> <=> Len(q) = 0
  BY <1>0, AppendProperties, EmptySeq, LenProperties
<1> HIDE DEF t
<1>2. t # <<>>
  BY <1>1 DEF t
<1>3. Consecutive(t, NextNumber(n))
  <2> SUFFICES ASSUME NEW i \in 1 .. Len(t)
               PROVE  NextNumber(t[i].seq) = IF i = Len(t) THEN NextNumber(n) ELSE t[i + 1].seq
    BY DEF Consecutive
  <2>1. CASE i = Len(t)
    BY <1>1, <2>1
  <2>2. CASE i = Len(q)
    BY <1>0, <1>1, <2>2 DEF Consecutive
  <2>3. CASE i < Len(q)
    <3>1. i \in 1 .. Len(q) /\ i + 1 \in 1 .. Len(q) /\ i # Len(q) /\ i # Len(t)
      BY <1>1, <2>3
    <3> QED
      BY <1>0, <1>1, <3>1 DEF Consecutive
  <2> QED
    BY <1>1, <2>1, <2>2, <2>3
<1>4. First(t, NextNumber(n)) = First(q, n)
  <2>1. CASE q = <<>>
    BY <1>1, <1>2, <2>1 DEF First
  <2>2. CASE q # <<>>
    <3>1. 1 \in 1 .. Len(q)
      BY <1>1, <2>2
    <3> QED
      BY <1>1, <1>2, <2>2, <3>1 DEF First
  <2> QED
    BY <2>1, <2>2
<1>5. q = <<>> => n # l
  <2> SUFFICES ASSUME q = <<>>, l # NoSeq PROVE n # l
    BY <1>0, LinkAssumption
  <2>1. PICK m \in 0 .. k : Missing(q, n, l, m)
    BY <1>0 DEF Copied
  <2>2. m \in Nat /\ m + 2 <= SeqMod
    BY <1>0, LinkAssumption
  <2> QED
    BY <1>0, <2>1, <2>2, NumbersDiffer DEF Missing, First
<1>6. Copied(t, l) <=> Copied(q, l)
  <2>1. CASE q = <<>>
    BY <1>1, <1>5, <2>1 DEF Copied
  <2>2. CASE q # <<>>
    <3>1. 1 \in 1 .. Len(q)
      BY <1>1, <2>2
    <3> QED
      BY <1>1, <1>2, <2>2, <3>1 DEF Copied
  <2> QED
    BY <2>1, <2>2
<1> QED
  BY <1>0, <1>3, <1>4, <1>5, <1>6 DEF Numbered, Whole, Missing, t

\* The head is taken: nothing is missing behind it, and unless it is a reset
\* nothing was before it.
LEMMA TakeNumbered ==
    ASSUME NEW q, NEW n, NEW l, NEW k, Direction(q, n, l, k),
           NEW q1, NEW l1, NEW k1 \in Nat, Takes(q, l, q1, l1)
    PROVE  /\ Numbered(q1, n, l1, k1)
           /\ Whole(q1, n, l1)
           /\ q[1].kind # "reset" => Whole(q, n, l)
<1>0. /\ q \in Seq(Frame) /\ n \in 0 .. SeqMod - 1 /\ l \in {NoSeq} \cup 0 .. SeqMod - 1
      /\ k \in Nat /\ k + 2 <= SeqMod /\ Consecutive(q, n)
      /\ \/ l = NoSeq \/ Copied(q, l)
         \/ \E m \in 0 .. k : Missing(q, n, l, m)
      /\ q # <<>> /\ q1 \in {q, Tail(q)} /\ l1 = q[1].seq
  BY DEF Direction, Numbered, Takes
<1>1. l1 \in 0 .. SeqMod - 1
  BY <1>0, QueueTail
<1>2. Consecutive(q1, n) /\ (Copied(q1, l1) \/ Missing(q1, n, l1, 0))
  <2>1. CASE q1 = q
    BY <1>0, <2>1 DEF Copied
  <2>2. CASE q1 = Tail(q)
    <3>1. Consecutive(Tail(q), n) /\ First(Tail(q), n) = NextNumber(l1)
      BY <1>0, FirstOfTail
    <3>2. 0 + 2 <= SeqMod
      BY <1>0, LinkAssumption
    <3>3. NextNumber(l1) = (l1 + 1 + 0) % SeqMod
      BY <1>1, <3>2, NumbersDiffer
    <3> QED
      BY <2>2, <3>1, <3>3 DEF Missing
  <2> QED
    BY <1>0, <2>1, <2>2
<1>3. ASSUME q[1].kind # "reset", l # NoSeq, ~Copied(q, l) PROVE Missing(q, n, l, 0)
  <2>1. PICK m \in 0 .. k : Missing(q, n, l, m)
    BY <1>0, <1>3
  <2>2. m \in Nat /\ m + 2 <= SeqMod
    BY <1>0, LinkAssumption
  <2>3. q[1].seq = (l + 1 + m) % SeqMod
    BY <1>0, <2>1 DEF Missing, First
  <2>4. q[1].seq \in {l, NextNumber(l)}
    BY <1>0, <1>3 DEF Takes, Gap
  <2>5. m = 0
    BY <1>0, <1>3, <2>2, <2>3, <2>4, NumbersDiffer
  <2> QED
    BY <2>1, <2>5
<1> QED
  BY <1>2, <1>3 DEF Numbered, Whole

\* The end that sees a break starts over.
LEMMA FailNumbered ==
    ASSUME NEW q, NEW n, NEW l, NEW k, Direction(q, n, l, k),
           NEW q1, NEW l1, NEW k1, Fails(q, l, q1, l1)
    PROVE  Numbered(q1, n, l1, k1)
  BY FirstOfTail DEF Direction, Numbered, Fails

\* A frame is lost: one more is missing, unless the head had been taken before.
LEMMA LoseNumbered ==
    ASSUME NEW q, NEW n, NEW l, NEW k, Direction(q, n, l, k), q # <<>>, k + 3 <= SeqMod
    PROVE  /\ Numbered(Tail(q), n, l, k + 1)
           /\ l # NoSeq /\ Whole(Tail(q), n, l) => Copied(q, l)
<1> DEFINE t == Tail(q)
<1>0. /\ q \in Seq(Frame) /\ l \in {NoSeq} \cup 0 .. SeqMod - 1
      /\ k \in Nat /\ k + 2 <= SeqMod /\ Consecutive(q, n)
      /\ \/ l = NoSeq \/ Copied(q, l)
         \/ \E m \in 0 .. k : Missing(q, n, l, m)
  BY DEF Direction, Numbered
<1>1. Consecutive(t, n) /\ First(t, n) = NextNumber(q[1].seq)
  BY <1>0, FirstOfTail
<1> HIDE DEF t
<1>2. CASE l = NoSeq
  BY <1>1, <1>2 DEF Numbered, t
<1>3. CASE Copied(q, l) /\ l # NoSeq
  <2>1. 0 + 2 <= SeqMod /\ 0 \in 0 .. k + 1
    BY <1>0, LinkAssumption
  <2>2. Missing(t, n, l, 0)
    BY <1>0, <1>1, <1>3, <2>1, NumbersDiffer DEF Missing, Copied
  <2> QED
    BY <1>1, <1>3, <2>1, <2>2 DEF Numbered, t
<1>4. CASE ~Copied(q, l) /\ l # NoSeq
  <2>1. PICK m \in 0 .. k : Missing(q, n, l, m)
    BY <1>0, <1>4
  <2>2. m \in Nat /\ m + 2 <= SeqMod /\ m + 1 \in Nat /\ (m + 1) + 2 <= SeqMod /\ m + 1 \in 0 .. k + 1
    BY <1>0, LinkAssumption
  <2>3. q[1].seq = (l + 1 + m) % SeqMod
    BY <2>1 DEF Missing, First
  <2>4. First(t, n) = (l + 1 + (m + 1)) % SeqMod
    BY <1>0, <1>1, <1>4, <2>2, <2>3, NumbersDiffer
  <2>5. Numbered(t, n, l, k + 1)
    BY <1>1, <2>2, <2>4 DEF Numbered, Missing
  <2>6. First(t, n) # l /\ First(t, n) # (l + 1 + 0) % SeqMod
    <3>1. l \in 0 .. SeqMod - 1 /\ m + 1 # 0
      BY <1>0, <1>4, <2>2
    <3>2. NextNumber(l) = (l + 1 + 0) % SeqMod
      BY <2>2, <3>1, NumbersDiffer
    <3> DEFINE r == (l + 1 + (m + 1)) % SeqMod
    <3>3. r # l /\ (r = NextNumber(l) => m + 1 = 0)
      BY <2>2, <3>1, NumbersDiffer
    <3> HIDE DEF r
    <3> QED
      BY <2>4, <3>1, <3>2, <3>3 DEF r
  <2>7. ~Whole(t, n, l)
    BY <1>4, <2>6 DEF Whole, Copied, Missing, First
  <2> QED
    BY <2>5, <2>7 DEF t
<1> QED
  BY <1>2, <1>3, <1>4

-----------------------------------------------------------------------------
(* What the steps of a direction do to the frames to come.                 *)

LEMMA SendLive ==
    ASSUME NEW q, NEW n, NEW l, NEW k, Direction(q, n, l, k), NEW f \in Frame, f.seq = n, NEW c
    PROVE  /\ Len(q) \in Nat
           /\ \A i : i \in Live(Append(q, f), l, c) <=>
                \/ i \in Live(q, l, c)
                \/ i = Len(q) + 1 /\ f.kind = "data" /\ f.channel = c
           /\ \A i \in Live(q, l, c) : i \in 1 .. Len(q) /\ Append(q, f)[i] = q[i]
           /\ Append(q, f)[Len(q) + 1] = f
<1> DEFINE t == Append(q, f)
<1>1. /\ Len(q) \in Nat /\ Len(t) = Len(q) + 1 /\ t[Len(q) + 1] = f
      /\ \A i \in 1 .. Len(q) : t[i] = q[i]
      /\ q = <<>> <=> Len(q) = 0
  BY AppendProperties, EmptySeq, LenProperties DEF Direction
<1>2. q = <<>> => n # l
  BY SendNumbered
<1> HIDE DEF t
<1>3. \A i : i \in 1 .. Len(t) <=> i \in 1 .. Len(q) \/ i = Len(q) + 1
  BY <1>1
<1> QED
  BY <1>1, <1>2, <1>3 DEF Live, t

\* The frames to come are those that were, but for the first and for their places.
Shifted(q, l, q1, l1, c, d) ==
    /\ \A i \in Live(q1, l1, c) : i \in Nat /\ i + d \in Live(q, l, c) /\ q1[i] = q[i + d]
    /\ \A j \in Live(q, l, c) : j # 1 => j - d \in Live(q1, l1, c)

LEMMA TailShifted ==
    ASSUME NEW q, NEW l, NEW l1, NEW c, Len(q) \in Nat, Len(Tail(q)) = Len(q) - 1,
           \A i \in 1 .. Len(Tail(q)) : i + 1 \in 1 .. Len(q) /\ Tail(q)[i] = q[i + 1],
           1 \in 1 .. Len(Tail(q)) => Tail(q)[1].seq # l1
    PROVE  Shifted(q, l, Tail(q), l1, c, 1)
<1> DEFINE t == Tail(q)
<1>0. /\ Len(q) \in Nat /\ Len(t) = Len(q) - 1 /\ (1 \in 1 .. Len(t) => t[1].seq # l1)
      /\ \A i \in 1 .. Len(t) : i + 1 \in 1 .. Len(q) /\ t[i] = q[i + 1]
  OBVIOUS
<1> HIDE DEF t
<1>1. ASSUME NEW i \in Live(t, l1, c)
      PROVE  i \in Nat /\ i + 1 \in Live(q, l, c) /\ t[i] = q[i + 1]
  <2>1. i \in 1 .. Len(t) /\ t[i].kind = "data" /\ t[i].channel = c
    BY DEF Live
  <2>2. i \in Nat /\ i + 1 \in 1 .. Len(q) /\ i + 1 # 1 /\ t[i] = q[i + 1]
    BY <1>0, <2>1
  <2> QED
    BY <2>1, <2>2 DEF Live
<1>2. ASSUME NEW j \in Live(q, l, c), j # 1 PROVE j - 1 \in Live(t, l1, c)
  <2>1. j \in 1 .. Len(q) /\ q[j].kind = "data" /\ q[j].channel = c
    BY DEF Live
  <2>2. j - 1 \in 1 .. Len(t) /\ (j - 1) + 1 = j
    BY <1>0, <1>2, <2>1
  <2>3. t[j - 1] = q[j]
    BY <1>0, <2>2
  <2> QED
    BY <1>0, <2>1, <2>2, <2>3 DEF Live
<1> QED
  BY <1>1, <1>2 DEF Shifted, t

LEMMA TailLive ==
    ASSUME NEW q, NEW n, NEW l, NEW k, Direction(q, n, l, k), q # <<>>, NEW c
    PROVE  /\ Shifted(q, l, Tail(q), q[1].seq, c, 1)
           /\ \A i \in Live(Tail(q), q[1].seq, c) : i + 1 # 1
<1>0. q \in Seq(Frame) /\ Consecutive(q, n) /\ 0 + 2 <= SeqMod
  BY LinkAssumption DEF Direction, Numbered
<1> DEFINE t == Tail(q)
           l1 == q[1].seq
<1>1. /\ Len(q) \in Nat /\ Len(t) \in Nat /\ Len(t) = Len(q) - 1 /\ l1 \in 0 .. SeqMod - 1
      /\ \A i \in 1 .. Len(t) : i + 1 \in 1 .. Len(q) /\ t[i] = q[i + 1]
      /\ First(t, n) = NextNumber(l1)
  BY <1>0, QueueTail, FirstOfTail
<1> HIDE DEF t, l1
<1>2. 1 \in 1 .. Len(t) => t[1].seq # l1
  <2>1. Len(t) > 0 => t # <<>>
    BY <1>1, EmptySeq
  <2>2. NextNumber(l1) # l1
    BY <1>0, <1>1, NumbersDiffer
  <2> QED
    BY <1>1, <2>1, <2>2 DEF First
<1> QED
  BY <1>1, <1>2, TailShifted DEF Live, t, l1

LEMMA TakeLive ==
    ASSUME NEW q, NEW n, NEW l, NEW k, Direction(q, n, l, k),
           NEW q1, NEW l1, Takes(q, l, q1, l1), NEW c
    PROVE  \E d \in {0, 1} :
             Shifted(q, l, q1, l1, c, d) /\ \A i \in Live(q1, l1, c) : i + d # 1
<1>0. q \in Seq(Frame) /\ q # <<>> /\ q1 \in {q, Tail(q)} /\ l1 = q[1].seq
  BY DEF Direction, Takes
<1>1. Len(q) \in Nat
  BY <1>0, QueueTail
<1>2. CASE q1 = q
  BY <1>0, <1>1, <1>2 DEF Live, Shifted
<1>3. CASE q1 = Tail(q)
  <2>1. Shifted(q, l, q1, l1, c, 1) /\ \A i \in Live(q1, l1, c) : i + 1 # 1
    BY <1>0, <1>3, TailLive DEF Shifted
  <2> QED
    BY <2>1
<1> QED
  BY <1>0, <1>2, <1>3

LEMMA FailLive ==
    ASSUME NEW q, NEW n, NEW l, NEW k, Direction(q, n, l, k),
           NEW q1, NEW l1, Fails(q, l, q1, l1), NEW c
    PROVE  \E d \in {0, 1} : Shifted(q, l, q1, l1, c, d)
<1>0. /\ q \in Seq(Frame) /\ q # <<>> /\ (q1 = Tail(q) \/ (q1 = q /\ q[1].seq # l))
      /\ l1 = NoSeq
  BY DEF Direction, Fails
<1>1. /\ Len(q) \in Nat /\ \A i \in 1 .. Len(q) : q[i].seq # l1
      /\ Len(Tail(q)) = Len(q) - 1
      /\ \A i \in 1 .. Len(Tail(q)) : i + 1 \in 1 .. Len(q) /\ Tail(q)[i] = q[i + 1]
  BY <1>0, QueueTail, LinkAssumption
<1>2. CASE q1 = q /\ q[1].seq # l
  <2>1. Live(q1, l1, c) = Live(q, l, c)
    BY <1>1, <1>2 DEF Live
  <2>2. \A i \in Live(q, l, c) : i \in Nat /\ i + 0 = i /\ i - 0 = i
    BY <1>1 DEF Live
  <2>3. Shifted(q, l, q1, l1, c, 0)
    BY <1>2, <2>1, <2>2 DEF Shifted
  <2> QED
    BY <2>3
<1>3. CASE q1 = Tail(q)
  <2>1. Shifted(q, l, q1, l1, c, 1)
    BY <1>1, <1>3, TailShifted
  <2> QED
    BY <2>1
<1> QED
  BY <1>0, <1>2, <1>3

LEMMA LoseLive ==
    ASSUME NEW q, NEW n, NEW l, NEW k, Direction(q, n, l, k), q # <<>>, k + 3 <= SeqMod, NEW c
    PROVE  /\ Shifted(q, l, Tail(q), l, c, 1)
           /\ Copied(q, l) => 1 \notin Live(q, l, c)
<1>0. q \in Seq(Frame) /\ Consecutive(q, n) /\ l \in {NoSeq} \cup 0 .. SeqMod - 1 /\ k \in Nat
  BY DEF Direction, Numbered
<1> DEFINE t == Tail(q)
<1>1. /\ Len(q) \in Nat /\ Len(t) = Len(q) - 1 /\ 1 \in 1 .. Len(q)
      /\ \A i \in 1 .. Len(t) : i + 1 \in 1 .. Len(q) /\ t[i] = q[i + 1]
      /\ \A i \in 1 .. Len(q) : q[i].seq \in 0 .. SeqMod - 1
      /\ First(t, n) = NextNumber(q[1].seq)
  BY <1>0, QueueTail, FirstOfTail
<1> HIDE DEF t
<1>2. ASSUME t # <<>>, l # NoSeq PROVE t[1].seq # l
  <2>1. t[1].seq = NextNumber(q[1].seq)
    BY <1>1, <1>2 DEF First
  <2>2. CASE Copied(q, l)
    <3>1. 0 + 2 <= SeqMod /\ q[1].seq = l
      BY <1>0, <2>2, LinkAssumption DEF Copied
    <3> QED
      BY <1>1, <2>1, <3>1, NumbersDiffer
  <2>3. CASE ~Copied(q, l)
    <3>1. PICK m \in 0 .. k : Missing(q, n, l, m)
      BY <1>2, <2>3 DEF Direction, Numbered
    <3>2. m \in Nat /\ m + 2 <= SeqMod /\ m + 1 \in Nat /\ (m + 1) + 2 <= SeqMod
      BY <1>0, LinkAssumption
    <3>3. q[1].seq = (l + 1 + m) % SeqMod /\ l \in 0 .. SeqMod - 1
      BY <1>0, <1>2, <3>1 DEF Missing, First
    <3>4. t[1].seq = (l + 1 + (m + 1)) % SeqMod
      BY <2>1, <3>2, <3>3, NumbersDiffer
    <3> DEFINE r == (l + 1 + (m + 1)) % SeqMod
    <3>5. r # l
      BY ONLY <3>2, <3>3, NumbersDiffer
    <3> HIDE DEF r
    <3> QED
      BY <3>4, <3>5 DEF r
  <2> QED
    BY <2>2, <2>3
<1>3. Len(t) > 0 => t # <<>>
  BY EmptySeq
<1>4. 1 \in 1 .. Len(t) => t[1].seq # l
  BY <1>0, <1>1, <1>2, <1>3, LinkAssumption DEF t
<1> QED
  BY <1>1, <1>4, TailShifted DEF Live, Copied, t

-----------------------------------------------------------------------------
(* What the frames in the pty say, and how far the channels have come.     *)

\* The messages that have been sent on a channel.
Sent(c) == wrote[c] - (IF writing[c] THEN 1 ELSE 0)

\* A frame on its way to the relay.
AskFrame(f) ==
    /\ f.kind \in {"reset", "close", "data"} /\ f.part = 1 /\ f.of = 1
    /\ f.kind # "reset" => f.channel \in Channel
    /\ f.kind = "data" => f.message \in 1 .. Sent(f.channel)

\* A piece of an answer that has been sent on a channel.
Reached(c, a, i) ==
    \/ a < sent[c].answer
    \/ a = sent[c].answer /\ (sent[c].part = 0 \/ i <= sent[c].part)

\* A frame on its way to Som.
AnswerFrame(f) ==
    /\ f.kind # "data" => f.part = 1 /\ f.of = 1
    /\ f.kind \in {"data", "close"} => f.channel \in Channel
    /\ f.kind = "data" =>
        /\ f.message \in 1 .. Len(Parts[f.channel])
        /\ f.of = Parts[f.channel][f.message] /\ f.part \in 1 .. f.of
        /\ Reached(f.channel, f.message, f.part)

Frames ==
    /\ \A i \in 1 .. Len(toRelay) : AskFrame(toRelay[i])
    /\ \A i \in 1 .. Len(toSom) : AnswerFrame(toSom[i])

\* What is written is asked, what is asked is answered, and what is answered is
\* sent back: each after the other.
Chain(c) ==
    /\ channel[c] = "new" => wrote[c] = 0 /\ ~writing[c] /\ heard[c] = <<>>
    /\ writing[c] => wrote[c] > 0
    /\ asked[c] <= Sent(c)
    /\ entry[c] = 1 => asked[c] > 0
    /\ <<c, 1>> \in Conn /\ conn[<<c, 1>>] # "none" => asked[c] > 0
    /\ said[c] > 0 => asked[c] > 0
    /\ sent[c].answer <= said[c]
    /\ sent[c].part > 0 => sent[c].answer > 0 /\ sent[c].part < Parts[c][sent[c].answer]
    /\ somDecoder.partial[c] # <<>> => asked[c] > 0

TypeInv == TypeOK /\ Frames /\ \A c \in Channel : Chain(c)

-----------------------------------------------------------------------------
(* Types.                                                                  *)

\* The plan of a run.
LEMMA PlanTypes ==
    ASSUME TypeOK, NEW c \in Channel
    PROVE  /\ Writes[c] \in Nat /\ Parts[c] \in Seq(Nat \ {0}) /\ Len(Parts[c]) \in Nat
           /\ \A a \in 1 .. Len(Parts[c]) : Parts[c][a] \in Nat \ {0}
           /\ \A m \in 1 .. Writes[c] : <<c, m>> \in Conn
           /\ c \in Nat \ {0} /\ MaxFaults \in Nat
<1>1. plan \in Plans
  BY DEF TypeOK
<1>2. Writes[c] \in Nat /\ Parts[c] \in Seq(Nat \ {0}) /\ c \in Nat \ {0} /\ MaxFaults \in Nat
  BY <1>1, LinkAssumption DEF Writes, Parts
<1>3. \A m \in 1 .. Writes[c] : m \in Message
  <2> DEFINE S == {1 .. p.writes[d] : d \in Channel, p \in Plans}
  <2>1. 1 .. plan.writes[c] \in S
    BY <1>1
  <2> HIDE DEF S
  <2>2. \A m \in 1 .. plan.writes[c] : m \in UNION S
    BY <2>1
  <2> QED
    BY <2>2 DEF Message, Writes, S
<1>4. Len(Parts[c]) \in Nat /\ \A a \in 1 .. Len(Parts[c]) : Parts[c][a] \in Nat \ {0}
  BY <1>2, LenProperties, ElementOfSeq
<1> QED
  BY <1>2, <1>3, <1>4 DEF Conn

\* How far a channel can come.
LEMMA ChannelTypes ==
    ASSUME TypeOK, NEW c \in Channel
    PROVE  /\ wrote[c] \in 0 .. Writes[c] /\ writing[c] \in BOOLEAN /\ Sent(c) \in Int
           /\ asked[c] \in Nat /\ entry[c] \in 0 .. Writes[c] /\ said[c] \in 0 .. Len(Parts[c])
           /\ heard[c] \in Seq(Nat) /\ sent[c] \in [answer : Nat, part : Nat]
           /\ sent[c].answer \in 0 .. Len(Parts[c]) /\ sent[c].part \in Nat
           /\ hubDecoder.partial[c] \in Seq(Nat \X Nat) /\ somDecoder.partial[c] \in Seq(Nat \X Nat)
<1>1. /\ wrote[c] \in 0 .. Writes[c] /\ writing[c] \in BOOLEAN
      /\ asked[c] \in Nat /\ entry[c] \in 0 .. Writes[c] /\ said[c] \in 0 .. Len(Parts[c])
      /\ heard[c] \in Seq(Nat) /\ sent[c] \in [answer : Nat, part : Nat]
      /\ sent[c].answer \in 0 .. Len(Parts[c])
  BY DEF TypeOK
<1>2. sent[c].part \in Nat
  BY <1>1
<1>3. wrote[c] \in Int
  BY <1>1, PlanTypes
<1>4. hubDecoder.partial[c] \in Seq(Nat \X Nat) /\ somDecoder.partial[c] \in Seq(Nat \X Nat)
  BY DEF TypeOK, Decoder
<1> QED
  BY <1>1, <1>2, <1>3, <1>4 DEF Sent

\* The frames that the ends send.
LEMMA SealedTypes ==
    ASSUME NEW n \in 0 .. SeqMod - 1
    PROVE  /\ NextNumber(n) \in 0 .. SeqMod - 1
           /\ \A kind \in {"hello", "reset", "close"}, c \in {0} \cup Channel :
                LET f == Sealed(n, Note(kind, c)) IN
                /\ f \in Frame /\ f.seq = n /\ f.kind = kind /\ f.channel = c
                /\ f.part = 1 /\ f.of = 1
           /\ \A c \in Channel, m \in Nat, i \in Nat, k \in Nat :
                LET f == Sealed(n, Data(c, m, i, k)) IN
                /\ f \in Frame /\ f.seq = n /\ f.kind = "data" /\ f.channel = c
                /\ f.message = m /\ f.part = i /\ f.of = k
<1>1. NextNumber(n) \in 0 .. SeqMod - 1
  BY LinkAssumption DEF NextNumber
<1> QED
  BY <1>1 DEF Sealed, Note, Data, Frame

LEMMA NoteTypes ==
    ASSUME NEW n \in 0 .. SeqMod - 1, NEW kind \in {"hello", "reset", "close"},
           NEW c \in {0} \cup Channel, NEW f, f = Sealed(n, Note(kind, c))
    PROVE  /\ f \in Frame /\ f.seq = n /\ f.kind = kind /\ f.channel = c
           /\ f.part = 1 /\ f.of = 1
  BY DEF Sealed, Note, Frame

LEMMA DataTypes ==
    ASSUME NEW n \in 0 .. SeqMod - 1, NEW c \in Channel, NEW m \in Nat, NEW i \in Nat, NEW k \in Nat,
           NEW f, f = Sealed(n, Data(c, m, i, k))
    PROVE  /\ f \in Frame /\ f.seq = n /\ f.kind = "data" /\ f.channel = c
           /\ f.message = m /\ f.part = i /\ f.of = k
  BY DEF Sealed, Data, Frame

\* A decoder that has read a frame.
LEMMA DecodedTypes ==
    ASSUME NEW d \in Decoder, NEW f \in Frame
    PROVE  /\ Decoded(d, f) \in Decoder
           /\ Decoded(d, f).last = IF Repeated(d, f) THEN d.last ELSE f.seq
           /\ \A c \in Channel :
                Decoded(d, f).partial[c] =
                    IF Repeated(d, f) THEN d.partial[c]
                    ELSE IF f.kind \in {"hello", "reset"} THEN <<>>
                    ELSE IF f.channel # c THEN d.partial[c]
                    ELSE IF f.part < f.of THEN Append(d.partial[c], <<f.message, f.part>>)
                    ELSE <<>>
<1>1. d.partial \in [Channel -> Seq(Nat \X Nat)] /\ d.last \in {NoSeq} \cup 0 .. SeqMod - 1
  BY DEF Decoder
<1>2. f.seq \in 0 .. SeqMod - 1 /\ f.message \in Nat /\ f.part \in Nat
  BY DEF Frame
<1>3. Fresh.partial = [c \in Channel |-> <<>>]
  BY DEF Fresh
<1>4. ASSUME NEW c \in Channel PROVE Append(d.partial[c], <<f.message, f.part>>) \in Seq(Nat \X Nat)
  BY <1>1, <1>2, AppendProperties
<1> DEFINE piece(c) == IF f.part < f.of THEN Append(d.partial[c], <<f.message, f.part>>) ELSE <<>>
           after == IF f.kind \in {"hello", "reset"} THEN Fresh.partial
                    ELSE [d.partial EXCEPT ![f.channel] = piece(f.channel)]
<1>5. ASSUME NEW c \in Channel PROVE piece(c) \in Seq(Nat \X Nat)
  BY <1>4
<1>6. Decoded(d, f) = IF Repeated(d, f) THEN d ELSE [last |-> f.seq, partial |-> after]
  BY DEF Decoded, Pieces
<1> HIDE DEF piece
<1>7. /\ after \in [Channel -> Seq(Nat \X Nat)]
      /\ \A c \in Channel : after[c] = IF f.kind \in {"hello", "reset"} THEN <<>>
                                       ELSE IF f.channel # c THEN d.partial[c] ELSE piece(c)
  <2>1. CASE f.kind \in {"hello", "reset"}
    BY <1>3, <2>1
  <2>2. CASE f.kind \notin {"hello", "reset"}
    BY <1>1, <1>5, <2>2
  <2> QED
    BY <2>1, <2>2
<1> HIDE DEF after
<1>8. CASE Repeated(d, f)
  BY <1>6, <1>8
<1>9. CASE ~Repeated(d, f)
  <2>1. Decoded(d, f) = [last |-> f.seq, partial |-> after]
    BY <1>6, <1>9
  <2>2. Decoded(d, f) \in Decoder /\ Decoded(d, f).last = f.seq /\ Decoded(d, f).partial = after
    BY <1>2, <1>7, <2>1 DEF Decoder
  <2> QED
    BY <1>7, <1>9, <2>2 DEF piece
<1> QED
  BY <1>8, <1>9

\* What the pty leaves of a queue.
LEMMA HandedOn ==
    ASSUME NEW q \in Seq(Frame), q # <<>>, NEW rest, faults \in 0 .. MaxFaults,
           HandsOn(q, rest) \/ HandsOnDamaged(q, rest)
    PROVE  /\ rest \in Seq(Frame) /\ faults' \in 0 .. MaxFaults
           /\ rest \in {q, Tail(q)} /\ faults' \in {faults, faults + 1}
           /\ \A i \in 1 .. Len(rest) : \E j \in 1 .. Len(q) : rest[i] = q[j]
<1>1. /\ rest \in {q, Tail(q)}
      /\ faults' = faults \/ (faults < MaxFaults /\ faults' = faults + 1)
  BY DEF HandsOn, HandsOnDamaged, CanFail
<1>2. MaxFaults \in Nat
  BY LinkAssumption
<1>3. Tail(q) \in Seq(Frame) /\ \A i \in 1 .. Len(Tail(q)) : i + 1 \in 1 .. Len(q) /\ Tail(q)[i] = q[i + 1]
  BY QueueTail
<1>4. \A i \in 1 .. Len(rest) : \E j \in 1 .. Len(q) : rest[i] = q[j]
  <2>1. CASE rest = q
    BY <2>1
  <2>2. CASE rest = Tail(q)
    BY <1>3, <2>2
  <2> QED
    BY <1>1, <2>1, <2>2
<1>5. rest \in Seq(Frame)
  BY <1>1, <1>3
<1> QED
  BY <1>1, <1>2, <1>4, <1>5

-----------------------------------------------------------------------------
(* The steps keep the types.                                               *)

\* The users of Som's channels.
LEMMA UserTypes ==
    ASSUME TypeInv, UNCHANGED plan, NEW c \in Channel,
           OpenChannel(c) \/ StartWrite(c) \/ DropChannel(c) \/ FinishWrite(c) \/ SayClosed(c)
    PROVE  TypeOK'
<1> USE DEF pty, daemon, readers, hub
<1>0. TypeOK /\ plan' = plan /\ Writes' = Writes /\ Parts' = Parts
  BY DEF TypeInv, Writes, Parts
<1>1. CASE OpenChannel(c) \/ DropChannel(c)
  BY <1>0, <1>1 DEF OpenChannel, DropChannel, TypeOK
<1>2. CASE StartWrite(c)
  <2>1. wrote[c] \in 0 .. Writes[c] /\ Writes[c] \in Nat /\ wrote[c] < Writes[c]
    BY <1>0, <1>2, PlanTypes, ChannelTypes DEF StartWrite
  <2>2. wrote[c] + 1 \in Nat /\ wrote[c] + 1 \in 0 .. Writes[c]
    BY <2>1
  <2>3. wrote' = [wrote EXCEPT ![c] = wrote[c] + 1]
    BY <1>2 DEF StartWrite
  <2>4. wrote' \in [Channel -> Nat] /\ \A d \in Channel : wrote'[d] \in 0 .. Writes[d]
    BY <1>0, <2>2, <2>3 DEF TypeOK
  <2> QED
    BY <1>0, <1>2, <2>4 DEF StartWrite, TypeOK
<1>3. CASE FinishWrite(c) \/ SayClosed(c)
  <2> DEFINE n == nextSeq.som
  <2>1. n \in 0 .. SeqMod - 1 /\ toRelay \in Seq(Frame) /\ wrote[c] \in Nat
    BY <1>0 DEF TypeOK
  <2>2. NextNumber(n) \in 0 .. SeqMod - 1
        /\ Sealed(n, Data(c, wrote[c], 1, 1)) \in Frame /\ Sealed(n, Note("close", c)) \in Frame
    BY <2>1, SealedTypes
  <2>3. nextSeq' \in [som : 0 .. SeqMod - 1, hub : 0 .. SeqMod - 1]
    BY <1>0, <1>3, <2>2 DEF FinishWrite, SayClosed, SomSends, TypeOK
  <2>4. PICK f \in Frame : toRelay' = Append(toRelay, f) /\ toSom' = toSom /\ faults' = faults
    BY <1>3, <2>2 DEF FinishWrite, SayClosed, SomSends
  <2>5. toRelay' \in Seq(Frame)
    BY <2>1, <2>4, AppendProperties
  <2> QED
    BY <1>0, <1>3, <2>3, <2>4, <2>5 DEF FinishWrite, SayClosed, TypeOK
<1> QED
  BY <1>1, <1>2, <1>3

\* Som's end.
LEMMA SomTypes ==
    ASSUME TypeInv, UNCHANGED plan, SomStep
    PROVE  TypeOK'
<1> USE DEF daemon, readers, hub, users
<1>0. TypeOK /\ plan' = plan /\ Writes' = Writes /\ Parts' = Parts
  BY DEF TypeInv, Writes, Parts
<1>1. NoChannels \in [Channel -> {"new", "open", "ended", "dropped", "closed"}]
  BY <1>0 DEF NoChannels, TypeOK
<1>2. CASE SomTakes
  <2> DEFINE f == Head(toSom)
  <2>1. toSom \in Seq(Frame) /\ toSom # <<>> /\ somDecoder \in Decoder /\ faults \in 0 .. MaxFaults
    BY <1>0, <1>2 DEF SomTakes, TypeOK
  <2>2. f \in Frame /\ f = toSom[1] /\ 1 \in 1 .. Len(toSom) /\ AnswerFrame(f)
    BY <2>1, QueueTail DEF TypeInv, Frames
  <2>3. toSom' \in Seq(Frame) /\ faults' \in 0 .. MaxFaults
    BY <1>2, <2>1, HandedOn DEF SomTakes
  <2>4. Decoded(somDecoder, f) \in Decoder
    BY <2>1, <2>2, DecodedTypes
  <2> DEFINE answer == IF IsWhole(somDecoder, f) THEN f.message ELSE Garbled
  <2>5. ASSUME f.kind = "data"
        PROVE  /\ f.channel \in Channel
               /\ answer \in {Garbled} \cup 1 .. Len(Parts[f.channel]) /\ answer \in Nat
    BY <2>2, <2>5 DEF AnswerFrame, Garbled, Frame
  <2> HIDE DEF f, answer
  <2>6. /\ somDecoder' = Decoded(somDecoder, f)
        /\ ready' = (ready \/ (f.kind = "hello" /\ Completes(somDecoder, f)))
        /\ channel' = IF ~Completes(somDecoder, f) THEN channel
                      ELSE IF f.kind \in {"hello", "reset"} THEN NoChannels
                      ELSE IF f.kind = "close" /\ channel[f.channel] = "open"
                      THEN [channel EXCEPT ![f.channel] = "ended"]
                      ELSE channel
        /\ \/ heard' = heard
           \/ f.kind = "data" /\ heard' = [heard EXCEPT ![f.channel] = Append(@, answer)]
        /\ UNCHANGED <<wrote, writing, somResets, toRelay, nextSeq, daemon, readers, hub, broken>>
    BY <1>2 DEF SomTakes, f, answer
  <2>7. ready' \in BOOLEAN /\ channel' \in [Channel -> {"new", "open", "ended", "dropped", "closed"}]
    BY <1>0, <1>1, <2>6 DEF TypeOK
  <2>8. /\ heard' \in [Channel -> Seq(Nat)]
        /\ \A c \in Channel : heard'[c] \in Seq({Garbled} \cup 1 .. Len(Parts[c]))
    <3>1. CASE heard' = heard
      BY <1>0, <3>1 DEF TypeOK
    <3>2. CASE f.kind = "data" /\ heard' = [heard EXCEPT ![f.channel] = Append(@, answer)]
      <4>1. /\ f.channel \in Channel /\ heard[f.channel] \in Seq(Nat)
            /\ heard[f.channel] \in Seq({Garbled} \cup 1 .. Len(Parts[f.channel]))
        BY <1>0, <2>5, <3>2 DEF TypeOK
      <4>2. /\ Append(heard[f.channel], answer) \in Seq(Nat)
            /\ Append(heard[f.channel], answer) \in Seq({Garbled} \cup 1 .. Len(Parts[f.channel]))
        BY <2>5, <3>2, <4>1, AppendProperties
      <4> QED
        BY <1>0, <3>2, <4>1, <4>2 DEF TypeOK
    <3> QED
      BY <2>6, <3>1, <3>2
  <2> QED
    BY <1>0, <2>3, <2>4, <2>6, <2>7, <2>8 DEF TypeOK
<1>3. CASE SomBreaks
  <2>1. toSom \in Seq(Frame) /\ toSom # <<>> /\ faults \in 0 .. MaxFaults
    BY <1>0, <1>3 DEF SomBreaks, TypeOK
  <2>2. toSom' \in Seq(Frame) /\ faults' \in 0 .. MaxFaults
    BY <1>3, <2>1, HandedOn DEF SomBreaks
  <2>3. Fresh \in Decoder
    BY DEF Fresh, Decoder
  <2> QED
    BY <1>0, <1>1, <1>3, <2>2, <2>3 DEF SomBreaks, TypeOK
<1>4. CASE SomSaysReset
  <2> DEFINE n == nextSeq.som
  <2>1. n \in 0 .. SeqMod - 1 /\ toRelay \in Seq(Frame)
    BY <1>0 DEF TypeOK
  <2>2. NextNumber(n) \in 0 .. SeqMod - 1 /\ Sealed(n, Note("reset", 0)) \in Frame
    BY <2>1, SealedTypes
  <2>3. nextSeq' \in [som : 0 .. SeqMod - 1, hub : 0 .. SeqMod - 1]
    BY <1>0, <1>4, <2>2 DEF SomSaysReset, SomSends, TypeOK
  <2>4. toRelay' \in Seq(Frame) /\ toSom' = toSom /\ faults' = faults
    BY <1>4, <2>1, <2>2, AppendProperties DEF SomSaysReset, SomSends
  <2> QED
    BY <1>0, <1>4, <2>3, <2>4 DEF SomSaysReset, TypeOK
<1> QED
  BY <1>2, <1>3, <1>4 DEF SomStep

\* The daemon and the readers of its connections.
LEMMA DaemonTypes ==
    ASSUME TypeInv, UNCHANGED plan, NEW k \in Conn, DaemonStep(k) \/ ReaderStep(k)
    PROVE  TypeOK'
<1> USE DEF som, pty, hub, users, daemon, readers
<1>0. TypeOK /\ plan' = plan /\ Writes' = Writes /\ Parts' = Parts /\ k[1] \in Channel
  BY DEF TypeInv, Writes, Parts, Conn
<1>1. CASE k[2] = 1 /\ DaemonAnswers(k[1])
  <2> DEFINE c == k[1]
  <2>1. /\ c \in Channel /\ said[c] \in 0 .. Len(Parts[c]) /\ Len(Parts[c]) \in Nat
        /\ said[c] < Len(Parts[c]) /\ said' = [said EXCEPT ![c] = said[c] + 1]
        /\ UNCHANGED <<som, pty, conn, asked, readers, hub, broken>>
    BY <1>0, <1>1, PlanTypes, ChannelTypes DEF DaemonAnswers
  <2> HIDE DEF c
  <2>2. said[c] + 1 \in Nat /\ said[c] + 1 \in 0 .. Len(Parts[c])
    BY <2>1
  <2>3. said' \in [Channel -> Nat] /\ \A d \in Channel : said'[d] \in 0 .. Len(Parts[d])
    BY <1>0, <2>1, <2>2 DEF TypeOK
  <2> QED
    BY <1>0, <2>1, <2>3 DEF TypeOK
<1>2. CASE DaemonHangsUp(k)
  BY <1>0, <1>2 DEF DaemonHangsUp, TypeOK
<1> DEFINE n == nextSeq.hub
<1>3. n \in 0 .. SeqMod - 1 /\ toSom \in Seq(Frame)
  BY <1>0 DEF TypeOK
<1>4. CASE k[2] = 1 /\ ReaderSends(k[1])
  <2> DEFINE c == k[1]
             a == IF MidAnswer(<<c, 1>>) THEN sent[c].answer ELSE sent[c].answer + 1
             i == sent[c].part + 1
             f == Sealed(n, Data(c, a, i, Parts[c][a]))
  <2>1. /\ c \in Channel /\ sent[c].answer \in 0 .. Len(Parts[c]) /\ sent[c].part \in Nat
        /\ said[c] \in 0 .. Len(Parts[c]) /\ Len(Parts[c]) \in Nat
    BY <1>0, ChannelTypes, PlanTypes
  <2>2. a \in 1 .. Len(Parts[c]) /\ i \in Nat
    <3>1. MidAnswer(<<c, 1>>) => sent[c].answer > 0
      BY <2>1 DEF MidAnswer, TypeInv, Chain
    <3>2. ~MidAnswer(<<c, 1>>) => sent[c].answer < said[c]
      BY <1>4 DEF ReaderSends
    <3> QED
      BY <2>1, <3>1, <3>2
  <2>3. Parts[c][a] \in Nat \ {0}
    BY <1>0, <2>1, <2>2, PlanTypes
  <2>4. /\ toSom' = Append(toSom, f) /\ nextSeq' = [nextSeq EXCEPT !.hub = NextNumber(@)]
        /\ sent' = [sent EXCEPT ![c] = [answer |-> a, part |-> i % Parts[c][a]]]
        /\ UNCHANGED <<som, toRelay, faults, daemon, reader, hub, broken>>
    BY <1>4 DEF ReaderSends, HubSends
  <2> HIDE DEF c, a, i
  <2>5. f \in Frame /\ NextNumber(n) \in 0 .. SeqMod - 1
    <3>1. a \in Nat /\ Parts[c][a] \in Nat
      BY <2>1, <2>2, <2>3
    <3> QED
      BY <1>3, <2>1, <2>2, <3>1, SealedTypes
  <2>6. i % Parts[c][a] \in Nat
    BY <2>2, <2>3
  <2>7. toSom' \in Seq(Frame)
    BY <1>3, <2>4, <2>5, AppendProperties
  <2>8. nextSeq' \in [som : 0 .. SeqMod - 1, hub : 0 .. SeqMod - 1]
    BY <1>0, <2>4, <2>5 DEF TypeOK
  <2>9. /\ sent' \in [Channel -> [answer : Nat, part : Nat]]
        /\ \A d \in Channel : sent'[d].answer \in 0 .. Len(Parts[d])
    <3> DEFINE r == [answer |-> a, part |-> i % Parts[c][a]]
    <3>1. r \in [answer : Nat, part : Nat] /\ r.answer \in 0 .. Len(Parts[c])
      BY <2>1, <2>2, <2>6
    <3>2. sent' = [sent EXCEPT ![c] = r]
      BY <2>4
    <3> HIDE DEF r
    <3> QED
      BY <1>0, <2>1, <3>1, <3>2 DEF TypeOK
  <2>10. /\ UNCHANGED <<ready, channel, wrote, writing, heard, somDecoder, somResets, toRelay,
                         faults, conn, asked, said, reader, hubDecoder, hubResets, entry, broken>>
         /\ toSom' \in Seq(Frame) /\ nextSeq' \in [som : 0 .. SeqMod - 1, hub : 0 .. SeqMod - 1]
         /\ sent' \in [Channel -> [answer : Nat, part : Nat]]
         /\ \A d \in Channel : sent'[d].answer \in 0 .. Len(Parts[d])
    BY <2>4, <2>7, <2>8, <2>9
  <2> QED
    BY ONLY <1>0, <2>10 DEF TypeOK
<1>5. CASE ReaderEnds(k)
  <2>1. 0 \in Nat /\ \A c \in Channel : 0 \in 0 .. Writes[c]
    BY <1>0, PlanTypes
  <2>2. entry' \in [Channel -> Nat] /\ \A c \in Channel : entry'[c] \in 0 .. Writes[c]
    BY <1>0, <1>5, <2>1 DEF ReaderEnds, TypeOK
  <2>3. reader' \in [Conn -> {"none", "reading", "reporting", "done"}]
    BY <1>0, <1>5 DEF ReaderEnds, TypeOK
  <2>4. UNCHANGED <<ready, channel, wrote, writing, heard, somDecoder, somResets, toRelay, toSom,
                    nextSeq, faults, conn, asked, said, sent, hubDecoder, hubResets, broken>>
    BY <1>5 DEF ReaderEnds
  <2> QED
    BY ONLY <1>0, <2>2, <2>3, <2>4 DEF TypeOK
<1>6. CASE ReaderReports(k)
  <2>1. Sealed(n, Note("close", k[1])) \in Frame /\ NextNumber(n) \in 0 .. SeqMod - 1
    BY <1>0, <1>3, SealedTypes
  <2>2. toSom' \in Seq(Frame)
    BY <1>3, <1>6, <2>1, AppendProperties DEF ReaderReports, HubSends
  <2>3. nextSeq' \in [som : 0 .. SeqMod - 1, hub : 0 .. SeqMod - 1]
    BY <1>0, <1>6, <2>1 DEF ReaderReports, HubSends, TypeOK
  <2> QED
    BY <1>0, <1>6, <2>2, <2>3 DEF ReaderReports, TypeOK
<1> QED
  BY <1>1, <1>2, <1>4, <1>5, <1>6 DEF DaemonStep, ReaderStep

\* Some connections of the hub are shut.
LEMMA ShutTypes ==
    ASSUME TypeOK, UNCHANGED plan, NEW S, Shutdown(S)
    PROVE  /\ entry' \in [Channel -> Nat] /\ \A c \in Channel : entry'[c] \in 0 .. Writes[c]
           /\ conn' \in [Conn -> {"none", "open", "hungup", "shut"}]
           /\ \A c \in Channel : entry'[c] = IF c \in S THEN 0 ELSE entry[c]
           /\ \A k \in Conn : conn'[k] # conn[k] => conn'[k] = "shut" /\ entry[k[1]] = k[2]
<1>1. \A c \in Channel : entry[c] \in 0 .. Writes[c] /\ Writes[c] \in Nat
  BY PlanTypes DEF TypeOK
<1>2. \A c \in Channel : entry'[c] = IF c \in S THEN 0 ELSE entry[c]
  BY DEF Shutdown
<1> QED
  BY <1>1, <1>2 DEF Shutdown, TypeOK

\* A count of a channel's messages changes.
LEMMA CountTypes ==
    ASSUME TypeOK, NEW h \in [Channel -> Nat], \A d \in Channel : h[d] \in 0 .. Writes[d],
           NEW c \in Channel, NEW m \in 1 .. Writes[c],
           NEW h1, h1 = h \/ h1 = [h EXCEPT ![c] = m]
    PROVE  h1 \in [Channel -> Nat] /\ \A d \in Channel : h1[d] \in 0 .. Writes[d]
<1>1. Writes[c] \in Nat
  BY PlanTypes
<1>2. m \in Nat /\ m \in 0 .. Writes[c]
  BY <1>1
<1>3. CASE h1 = h
  BY <1>3
<1>4. CASE h1 = [h EXCEPT ![c] = m]
  <2>1. \A d \in Channel : h1[d] = IF d = c THEN m ELSE h[d]
    BY <1>4
  <2> QED
    BY <1>2, <1>4, <2>1
<1> QED
  BY <1>3, <1>4

\* The hub.
LEMMA HubTypes ==
    ASSUME TypeInv, UNCHANGED plan, HubStep
    PROVE  TypeOK'
<1> USE DEF som, users, daemon, readers, hub
<1>0. TypeOK /\ plan' = plan /\ Writes' = Writes /\ Parts' = Parts
  BY DEF TypeInv, Writes, Parts
<1> DEFINE f == Head(toRelay)
           n == nextSeq.hub
<1>1. /\ toRelay \in Seq(Frame) /\ toSom \in Seq(Frame) /\ hubDecoder \in Decoder
      /\ faults \in 0 .. MaxFaults /\ n \in 0 .. SeqMod - 1
  BY <1>0 DEF TypeOK
<1>2. ASSUME toRelay # <<>>
      PROVE  /\ f \in Frame /\ AskFrame(f) /\ f.message \in Nat
             /\ Decoded(hubDecoder, f) \in Decoder
             /\ HubReads(f) => toRelay' \in Seq(Frame) /\ faults' \in 0 .. MaxFaults
  <2>1. f \in Frame /\ f = toRelay[1] /\ 1 \in 1 .. Len(toRelay)
    BY <1>1, <1>2, QueueTail
  <2>2. HubReads(f) => toRelay' \in Seq(Frame) /\ faults' \in 0 .. MaxFaults
    BY <1>1, <1>2, HandedOn DEF HubReads
  <2>3. f.message \in Nat
    BY <2>1 DEF Frame
  <2> QED
    BY <1>1, <2>1, <2>2, <2>3, DecodedTypes DEF TypeInv, Frames
<1>3. ASSUME HubSends(toSom, Note("reset", 0)) \/ \E c \in Channel : HubSends(toSom, Note("close", c))
      PROVE  /\ toSom' \in Seq(Frame)
             /\ nextSeq' \in [som : 0 .. SeqMod - 1, hub : 0 .. SeqMod - 1]
  <2>1. NextNumber(n) \in 0 .. SeqMod - 1 /\ Sealed(n, Note("reset", 0)) \in Frame
    BY <1>1, SealedTypes
  <2>2. \A c \in Channel : Sealed(n, Note("close", c)) \in Frame
    BY <1>1, SealedTypes
  <2>3. PICK g \in Frame : toSom' = Append(toSom, g)
    BY <1>3, <2>1, <2>2 DEF HubSends
  <2>4. nextSeq' = [nextSeq EXCEPT !.hub = NextNumber(n)]
    BY <1>3 DEF HubSends
  <2> QED
    BY <1>0, <1>1, <2>1, <2>3, <2>4, AppendProperties DEF TypeOK
<1> HIDE DEF f, n
<1>4. ASSUME NEW c \in Channel, c = f.channel, f.kind = "data", toRelay # <<>>
      PROVE  /\ f.message \in 1 .. Writes[c] /\ f.message \in Nat
             /\ <<c, f.message>> \in Conn
  <2>1. f.message \in 1 .. Sent(c) /\ wrote[c] \in 0 .. Writes[c] /\ Writes[c] \in Nat
    BY <1>0, <1>2, <1>4, PlanTypes, ChannelTypes DEF AskFrame
  <2>2. f.message \in 1 .. Writes[c]
    BY <2>1 DEF Sent
  <2> QED
    BY <1>0, <2>1, <2>2, PlanTypes
<1>5. CASE HubSkips
  BY <1>0, <1>2, <1>5 DEF HubSkips, TypeOK, f
<1>6. CASE HubCloses
  <2>1. PICK S : Shutdown(S)
    BY <1>6 DEF HubCloses
  <2>2. /\ toRelay # <<>> /\ HubReads(f) /\ hubDecoder' = Decoded(hubDecoder, f)
        /\ UNCHANGED <<som, toSom, nextSeq, asked, said, readers, hubResets, broken>>
    BY <1>6 DEF HubCloses, f
  <2>3. /\ entry' \in [Channel -> Nat] /\ \A c \in Channel : entry'[c] \in 0 .. Writes[c]
        /\ conn' \in [Conn -> {"none", "open", "hungup", "shut"}]
    BY <1>0, <2>1, ShutTypes
  <2> QED
    BY <1>0, <1>2, <2>2, <2>3 DEF TypeOK
<1>7. CASE HubDelivers
  <2> DEFINE c == f.channel
  <2>1. /\ toRelay # <<>> /\ HubReads(f) /\ f.kind = "data" /\ hubDecoder' = Decoded(hubDecoder, f)
        /\ asked' = asked \/ asked' = [asked EXCEPT ![c] = f.message]
        /\ UNCHANGED <<som, toSom, nextSeq, conn, said, readers, hubResets, entry, broken>>
    BY <1>7 DEF HubDelivers, f
  <2>2. c \in Channel
    BY <1>2, <2>1 DEF AskFrame
  <2>3. f.message \in 1 .. Writes[c] /\ f.message \in Nat /\ Writes[c] \in Nat
    BY <1>0, <1>4, <2>1, <2>2, PlanTypes
  <2>4. asked' \in [Channel -> Nat] /\ \A d \in Channel : asked'[d] \in 0 .. Writes[d]
    <3>1. asked \in [Channel -> Nat] /\ \A d \in Channel : asked[d] \in 0 .. Writes[d]
      BY <1>0 DEF TypeOK
    <3> QED
      BY ONLY <1>0, <2>1, <2>2, <2>3, <3>1, CountTypes
  <2> QED
    BY <1>0, <1>2, <2>1, <2>4 DEF TypeOK
<1>8. CASE HubConnects
  <2> DEFINE c == f.channel
             k == <<c, f.message>>
  <2>1. /\ toRelay # <<>> /\ HubReads(f) /\ f.kind = "data" /\ hubDecoder' = Decoded(hubDecoder, f)
        /\ entry' = [entry EXCEPT ![c] = f.message] /\ conn' = [conn EXCEPT ![k] = "open"]
        /\ reader' = [reader EXCEPT ![k] = "reading"]
        /\ asked' = asked \/ (f.message = 1 /\ asked' = [asked EXCEPT ![c] = f.message])
        /\ UNCHANGED <<som, toSom, nextSeq, said, sent, hubResets, broken>>
    BY <1>8 DEF HubConnects, f
  <2>2. c \in Channel
    BY <1>2, <2>1 DEF AskFrame
  <2>3. f.message \in 1 .. Writes[c] /\ f.message \in Nat /\ Writes[c] \in Nat /\ k \in Conn
    BY <1>0, <1>4, <2>1, <2>2, PlanTypes
  <2> HIDE DEF c, k
  <2>4. /\ asked' \in [Channel -> Nat] /\ \A d \in Channel : asked'[d] \in 0 .. Writes[d]
        /\ entry' \in [Channel -> Nat] /\ \A d \in Channel : entry'[d] \in 0 .. Writes[d]
    <3>1. /\ asked \in [Channel -> Nat] /\ \A d \in Channel : asked[d] \in 0 .. Writes[d]
          /\ entry \in [Channel -> Nat] /\ \A d \in Channel : entry[d] \in 0 .. Writes[d]
      BY <1>0 DEF TypeOK
    <3>2. asked' \in [Channel -> Nat] /\ \A d \in Channel : asked'[d] \in 0 .. Writes[d]
      BY ONLY <1>0, <2>1, <2>2, <2>3, <3>1, CountTypes
    <3>3. entry' \in [Channel -> Nat] /\ \A d \in Channel : entry'[d] \in 0 .. Writes[d]
      BY ONLY <1>0, <2>1, <2>2, <2>3, <3>1, CountTypes
    <3> QED
      BY <3>2, <3>3
  <2>5. /\ conn' \in [Conn -> {"none", "open", "hungup", "shut"}]
        /\ reader' \in [Conn -> {"none", "reading", "reporting", "done"}]
    BY <1>0, <2>1, <2>3 DEF TypeOK
  <2> QED
    BY <1>0, <1>2, <2>1, <2>4, <2>5 DEF TypeOK
<1>9. CASE HubCannotDeliver
  <2>1. /\ toRelay # <<>> /\ HubReads(f) /\ f.kind = "data" /\ hubDecoder' = Decoded(hubDecoder, f)
        /\ Shutdown({f.channel}) /\ HubSends(toSom, Note("close", f.channel))
        /\ UNCHANGED <<som, asked, said, readers, hubResets, broken>>
    BY <1>9 DEF HubCannotDeliver, f
  <2>2. f.channel \in Channel
    BY <1>2, <2>1 DEF AskFrame
  <2>3. /\ entry' \in [Channel -> Nat] /\ \A c \in Channel : entry'[c] \in 0 .. Writes[c]
        /\ conn' \in [Conn -> {"none", "open", "hungup", "shut"}]
    BY <1>0, <2>1, ShutTypes
  <2> QED
    BY <1>0, <1>2, <1>3, <2>1, <2>2, <2>3 DEF TypeOK
<1>10. CASE HubBreaks
  <2>1. toRelay' \in Seq(Frame) /\ faults' \in 0 .. MaxFaults /\ Fresh \in Decoder
    <3>1. toRelay # <<>> /\ (HandsOn(toRelay, toRelay') \/ HandsOnDamaged(toRelay, toRelay'))
      BY <1>10 DEF HubBreaks
    <3> QED
      BY <1>1, <3>1, HandedOn DEF Fresh, Decoder
  <2>2. /\ entry' \in [Channel -> Nat] /\ \A c \in Channel : entry'[c] \in 0 .. Writes[c]
        /\ conn' \in [Conn -> {"none", "open", "hungup", "shut"}]
    BY <1>0, <1>10, ShutTypes DEF HubBreaks
  <2> QED
    BY <1>0, <1>10, <2>1, <2>2 DEF HubBreaks, TypeOK
<1>11. CASE HubSaysReset
  BY <1>0, <1>3, <1>11 DEF HubSaysReset, TypeOK
<1> QED
  BY <1>5, <1>6, <1>7, <1>8, <1>9, <1>10, <1>11 DEF HubStep

\* The pty.
LEMMA PtyTypes ==
    ASSUME TypeInv, UNCHANGED plan, PtyLoses
    PROVE  TypeOK'
<1>0. TypeOK /\ plan' = plan /\ Writes' = Writes /\ Parts' = Parts
  BY DEF TypeInv, Writes, Parts
<1>1. toRelay \in Seq(Frame) /\ toSom \in Seq(Frame) /\ faults \in 0 .. MaxFaults /\ MaxFaults \in Nat
  BY <1>0, LinkAssumption DEF TypeOK
<1>2. toRelay' \in Seq(Frame) /\ toSom' \in Seq(Frame) /\ faults' \in 0 .. MaxFaults
  <2>1. faults' \in 0 .. MaxFaults
    BY <1>1 DEF PtyLoses, CanFail
  <2>2. CASE toSom # <<>> /\ toSom' = Tail(toSom) /\ UNCHANGED toRelay
    BY <1>1, <2>1, <2>2, QueueTail
  <2>3. CASE toRelay # <<>> /\ toRelay' = Tail(toRelay) /\ UNCHANGED toSom
    BY <1>1, <2>1, <2>3, QueueTail
  <2> QED
    BY <2>2, <2>3 DEF PtyLoses
<1>3. UNCHANGED <<ready, channel, wrote, writing, heard, somDecoder, somResets, nextSeq,
                  conn, asked, said, reader, sent, hubDecoder, hubResets, entry, broken>>
  BY DEF PtyLoses, som, users, daemon, readers, hub
<1> QED
  BY ONLY <1>0, <1>2, <1>3 DEF TypeOK

-----------------------------------------------------------------------------
(* The steps keep what the frames say, and the order things come in.       *)

\* A frame at the end of a queue.
LEMMA Appended ==
    ASSUME NEW q \in Seq(Frame), NEW f \in Frame, NEW i \in 1 .. Len(Append(q, f))
    PROVE  (i \in 1 .. Len(q) /\ Append(q, f)[i] = q[i]) \/ Append(q, f)[i] = f
<1>1. /\ Len(q) \in Nat /\ Len(Append(q, f)) = Len(q) + 1
      /\ Append(q, f)[Len(q) + 1] = f
      /\ \A j \in 1 .. Len(q) : Append(q, f)[j] = q[j]
  BY AppendProperties, LenProperties
<1> QED
  BY <1>1

\* The frames that were in the pty stay true.
LEMMA FramesKept ==
    ASSUME TypeInv, TypeOK', UNCHANGED plan,
           \A c \in Channel : Sent(c) <= Sent(c)',
           \A c \in Channel : UNCHANGED sent[c] \/ \A a, i \in Nat : Reached(c, a, i) => Reached(c, a, i)',
           \A i \in 1 .. Len(toRelay') :
                (\E j \in 1 .. Len(toRelay) : toRelay'[i] = toRelay[j]) \/ AskFrame(toRelay[i])',
           \A i \in 1 .. Len(toSom') :
                (\E j \in 1 .. Len(toSom) : toSom'[i] = toSom[j]) \/ AnswerFrame(toSom[i])'
    PROVE  Frames'
<1>0. TypeOK /\ Frames /\ toRelay \in Seq(Frame) /\ toSom \in Seq(Frame)
  BY DEF TypeInv, TypeOK
<1>1. ASSUME NEW i \in 1 .. Len(toRelay') PROVE AskFrame(toRelay[i])'
  <2>1. CASE AskFrame(toRelay[i])'
    BY <2>1
  <2>2. CASE \E j \in 1 .. Len(toRelay) : toRelay'[i] = toRelay[j]
    <3>1. PICK j \in 1 .. Len(toRelay) : toRelay'[i] = toRelay[j]
      BY <2>2
    <3>2. PICK f \in Frame : f = toRelay[j]
      BY <1>0, ElementOfSeq
    <3>3. AskFrame(f)
      BY <1>0, <3>2 DEF Frames
    <3>4. AskFrame(f)'
      <4>1. CASE f.kind = "data"
        <5>1. f.channel \in Channel /\ f.message \in 1 .. Sent(f.channel)
          BY <3>3, <4>1 DEF AskFrame
        <5>2. Sent(f.channel) \in Int /\ Sent(f.channel)' \in Int
          <6>1. wrote \in [Channel -> Nat] /\ wrote' \in [Channel -> Nat]
            BY <1>0 DEF TypeOK
          <6> QED
            BY <5>1, <6>1 DEF Sent
        <5> QED
          BY <3>3, <5>1, <5>2 DEF AskFrame
      <4> QED
        BY <3>3, <4>1 DEF AskFrame
    <3> QED
      BY <3>1, <3>2, <3>4 DEF AskFrame
  <2> QED
    BY <2>1, <2>2
<1>2. ASSUME NEW i \in 1 .. Len(toSom') PROVE AnswerFrame(toSom[i])'
  <2>1. CASE AnswerFrame(toSom[i])'
    BY <2>1
  <2>2. CASE \E j \in 1 .. Len(toSom) : toSom'[i] = toSom[j]
    <3>1. PICK j \in 1 .. Len(toSom) : toSom'[i] = toSom[j]
      BY <2>2
    <3>2. PICK f \in Frame : f = toSom[j]
      BY <1>0, ElementOfSeq
    <3>3. AnswerFrame(f)
      BY <1>0, <3>2 DEF Frames
    <3>4. f.message \in Nat /\ f.part \in Nat
      BY DEF Frame
    <3>5. AnswerFrame(f)'
      <4>1. f.kind = "data" => f.channel \in Channel /\ Reached(f.channel, f.message, f.part)
        BY <3>3 DEF AnswerFrame
      <4>2. f.kind = "data" => Reached(f.channel, f.message, f.part)'
        BY <3>4, <4>1 DEF Reached
      <4> QED
        BY <3>3, <4>2 DEF AnswerFrame, Parts
    <3> QED
      BY <3>1, <3>2, <3>5 DEF AnswerFrame, Reached
  <2> QED
    BY <2>1, <2>2
<1> QED
  BY <1>1, <1>2 DEF Frames

\* The users of Som's channels.
LEMMA UserInv ==
    ASSUME TypeInv, UNCHANGED plan, NEW c \in Channel,
           OpenChannel(c) \/ StartWrite(c) \/ DropChannel(c) \/ FinishWrite(c) \/ SayClosed(c)
    PROVE  TypeInv'
<1> USE DEF pty, daemon, readers, hub
<1>0. TypeOK /\ TypeOK' /\ UNCHANGED <<heard, somDecoder, asked, said, sent, entry, conn, toSom, Parts>>
  <2>1. UNCHANGED Parts
    BY DEF Parts
  <2>2. TypeOK'
    BY UserTypes
  <2> QED
    BY <2>1, <2>2 DEF TypeInv, OpenChannel, StartWrite, DropChannel, FinishWrite, SayClosed, SomSends
<1>1. \A d \in Channel :
        /\ wrote[d] \in Nat /\ Sent(d) \in Int
        /\ wrote[d] <= wrote'[d] /\ Sent(d) <= Sent(d)' /\ Sent(d)' \in Int
        /\ channel'[d] = "new" => channel[d] = "new" /\ wrote'[d] = wrote[d] /\ ~writing'[d]
        /\ writing'[d] => wrote'[d] > 0
  <2> SUFFICES ASSUME NEW d \in Channel
      PROVE  /\ wrote[d] \in Nat /\ Sent(d) \in Int
             /\ wrote[d] <= wrote'[d] /\ Sent(d) <= Sent(d)' /\ Sent(d)' \in Int
             /\ channel'[d] = "new" => channel[d] = "new" /\ wrote'[d] = wrote[d] /\ ~writing'[d]
             /\ writing'[d] => wrote'[d] > 0
    OBVIOUS
  <2>1. /\ wrote \in [Channel -> Nat] /\ writing \in [Channel -> BOOLEAN]
        /\ channel \in [Channel -> {"new", "open", "ended", "dropped", "closed"}]
        /\ writing[d] => wrote[d] > 0
        /\ channel[d] = "new" => ~writing[d]
    BY <1>0 DEF TypeInv, TypeOK, Chain
  <2>6. wrote[d] \in Nat /\ writing[d] \in BOOLEAN /\ Sent(d) \in Int
    BY <2>1 DEF Sent
  <2>2. CASE OpenChannel(c) \/ DropChannel(c)
    BY <2>1, <2>2, <2>6 DEF OpenChannel, DropChannel, Sent
  <2>3. CASE StartWrite(c)
    <3>1. /\ channel' = channel /\ channel[c] = "open" /\ ~writing[c]
          /\ wrote'[d] = IF d = c THEN wrote[d] + 1 ELSE wrote[d]
          /\ writing'[d] <=> (d = c \/ writing[d])
      BY <2>1, <2>3 DEF StartWrite
    <3> QED
      BY <2>1, <2>6, <3>1 DEF Sent
  <2>4. CASE FinishWrite(c)
    <3>1. /\ channel' = channel /\ wrote' = wrote /\ writing[c]
          /\ writing'[d] <=> (d # c /\ writing[d])
      BY <2>1, <2>4 DEF FinishWrite
    <3> QED
      BY <2>1, <2>6, <3>1 DEF Sent
  <2>5. CASE SayClosed(c)
    BY <2>1, <2>5 DEF SayClosed, Sent
  <2> QED
    BY <2>2, <2>3, <2>4, <2>5
<1>2. ASSUME NEW i \in 1 .. Len(toRelay')
      PROVE  (\E j \in 1 .. Len(toRelay) : toRelay'[i] = toRelay[j]) \/ AskFrame(toRelay[i])'
  <2>1. nextSeq.som \in 0 .. SeqMod - 1 /\ toRelay \in Seq(Frame) /\ wrote[c] \in Nat
    BY <1>0 DEF TypeOK
  <2>2. CASE OpenChannel(c) \/ DropChannel(c) \/ StartWrite(c)
    BY <2>2 DEF OpenChannel, DropChannel, StartWrite
  <2>3. CASE FinishWrite(c)
    <3>1. PICK f : f = Sealed(nextSeq.som, Data(c, wrote[c], 1, 1))
      OBVIOUS
    <3>2. f \in Frame /\ f.kind = "data" /\ f.channel = c /\ f.message = wrote[c] /\ f.part = 1 /\ f.of = 1
      BY <2>1, <3>1, DataTypes
    <3>3. toRelay' = Append(toRelay, f)
      BY <2>3, <3>1 DEF FinishWrite, SomSends
    <3>4. wrote[c] \in 1 .. Sent(c)'
      <4>1. wrote[c] > 0 /\ Sent(c)' = wrote[c]
        <5>1. wrote[c] > 0 /\ writing'[c] = FALSE /\ wrote' = wrote
          BY <1>0, <2>3 DEF FinishWrite, TypeInv, Chain, TypeOK
        <5> QED
          BY <2>1, <5>1 DEF Sent
      <4> QED
        BY <2>1, <4>1
    <3>5. AskFrame(f)'
      BY <3>2, <3>4 DEF AskFrame
    <3>6. toRelay'[i] = f \/ (i \in 1 .. Len(toRelay) /\ toRelay'[i] = toRelay[i])
      BY <2>1, <3>2, <3>3, Appended
    <3> QED
      BY <3>5, <3>6 DEF AskFrame
  <2>4. CASE SayClosed(c)
    <3>1. PICK f : f = Sealed(nextSeq.som, Note("close", c))
      OBVIOUS
    <3>2. f \in Frame /\ f.kind = "close" /\ f.channel = c /\ f.part = 1 /\ f.of = 1
      <4>1. c \in {0} \cup Channel /\ "close" \in {"hello", "reset", "close"}
        OBVIOUS
      <4> QED
        BY <2>1, <3>1, <4>1, NoteTypes
    <3>3. toRelay' = Append(toRelay, f)
      BY <2>4, <3>1 DEF SayClosed, SomSends
    <3>4. AskFrame(f)'
      BY <3>2 DEF AskFrame
    <3>5. toRelay'[i] = f \/ (i \in 1 .. Len(toRelay) /\ toRelay'[i] = toRelay[i])
      BY <2>1, <3>2, <3>3, Appended
    <3> QED
      BY <3>4, <3>5 DEF AskFrame
  <2> QED
    BY <2>2, <2>3, <2>4
<1>3. Frames'
  BY <1>0, <1>1, <1>2, FramesKept
<1>4. ASSUME NEW d \in Channel PROVE Chain(d)'
  <2>1. Chain(d) /\ asked[d] \in Nat
    BY <1>0 DEF TypeInv, TypeOK
  <2> QED
    BY <1>0, <1>1, <2>1 DEF Chain
<1> QED
  BY <1>0, <1>3, <1>4 DEF TypeInv

\* Som's end.
LEMMA SomInv ==
    ASSUME TypeInv, UNCHANGED plan, SomStep
    PROVE  TypeInv'
<1> USE DEF daemon, readers, hub, users
<1>0. /\ TypeOK /\ TypeOK' /\ toSom \in Seq(Frame)
      /\ UNCHANGED <<wrote, writing, asked, said, sent, entry, conn, Parts>>
  <2>1. UNCHANGED Parts
    BY DEF Parts
  <2>2. TypeOK'
    BY SomTypes
  <2> QED
    BY <2>1, <2>2 DEF TypeInv, TypeOK, SomStep, SomTakes, SomBreaks, SomSaysReset
<1>1. \A d \in Channel : Sent(d) = Sent(d)' /\ Sent(d) \in Int
  <2>1. wrote \in [Channel -> Nat]
    BY <1>0 DEF TypeOK
  <2> QED
    BY <1>0, <2>1 DEF Sent
<1>2. ASSUME SomTakes \/ SomBreaks
      PROVE  /\ toRelay' = toRelay /\ toSom # <<>>
             /\ \A i \in 1 .. Len(toSom') : \E j \in 1 .. Len(toSom) : toSom'[i] = toSom[j]
  <2>1. /\ toRelay' = toRelay /\ toSom # <<>>
        /\ HandsOn(toSom, toSom') \/ HandsOnDamaged(toSom, toSom')
    BY <1>2 DEF SomTakes, SomBreaks
  <2>2. toSom \in Seq(Frame) /\ faults \in 0 .. MaxFaults
    BY <1>0 DEF TypeOK
  <2> QED
    BY <2>1, <2>2, HandedOn
<1>3. ASSUME SomSaysReset
      PROVE  /\ toSom' = toSom
             /\ \A i \in 1 .. Len(toRelay') :
                    (\E j \in 1 .. Len(toRelay) : toRelay'[i] = toRelay[j]) \/ AskFrame(toRelay[i])'
  <2>1. nextSeq.som \in 0 .. SeqMod - 1 /\ toRelay \in Seq(Frame)
    BY <1>0 DEF TypeOK
  <2>2. PICK f : f = Sealed(nextSeq.som, Note("reset", 0))
    OBVIOUS
  <2>3. f \in Frame /\ f.kind = "reset" /\ f.part = 1 /\ f.of = 1
    <3>1. 0 \in {0} \cup Channel /\ "reset" \in {"hello", "reset", "close"}
      OBVIOUS
    <3> QED
      BY <2>1, <2>2, <3>1, NoteTypes
  <2>4. toRelay' = Append(toRelay, f) /\ toSom' = toSom
    BY <1>3, <2>2 DEF SomSaysReset, SomSends
  <2>5. AskFrame(f)'
    BY <2>3 DEF AskFrame
  <2>6. \A i \in 1 .. Len(toRelay') : toRelay'[i] = f \/ (i \in 1 .. Len(toRelay) /\ toRelay'[i] = toRelay[i])
    BY <2>1, <2>3, <2>4, Appended
  <2> QED
    BY <2>4, <2>5, <2>6 DEF AskFrame
<1>4. Frames'
  <2>1. \A d \in Channel : UNCHANGED sent[d] /\ Sent(d) <= Sent(d)'
    BY <1>0, <1>1
  <2> QED
    BY <1>0, <1>2, <1>3, <2>1, FramesKept DEF SomStep
<1>5. ASSUME NEW d \in Channel
      PROVE  /\ channel'[d] = "new" => channel[d] = "new" /\ heard'[d] = heard[d]
             /\ somDecoder'.partial[d] # <<>> => asked[d] > 0
  <2>1. /\ channel \in [Channel -> {"new", "open", "ended", "dropped", "closed"}]
        /\ heard \in [Channel -> Seq(Nat)] /\ somDecoder \in Decoder
        /\ somDecoder.partial[d] # <<>> => asked[d] > 0
    BY <1>0 DEF TypeOK, TypeInv, Chain
  <2>2. CASE SomTakes
    <3> DEFINE f == Head(toSom)
    <3>1. f \in Frame /\ AnswerFrame(f)
      <4>1. f = toSom[1] /\ 1 \in 1 .. Len(toSom) /\ f \in Frame
        BY <1>0, <1>2, <2>2, QueueTail
      <4> QED
        BY <4>1 DEF TypeInv, Frames
    <3> HIDE DEF f
    <3>2. /\ somDecoder' = Decoded(somDecoder, f)
          /\ channel' = channel \/ channel' = NoChannels
             \/ (f.kind = "close" /\ channel' = [channel EXCEPT ![f.channel] = "ended"])
          /\ \/ heard' = heard
             \/ channel[f.channel] = "open" /\ f.kind = "data" /\ channel' = channel
                /\ \E x : heard' = [heard EXCEPT ![f.channel] = x]
      BY <2>2 DEF SomTakes, f
    <3>3. channel'[d] = "new" => channel[d] = "new" /\ heard'[d] = heard[d]
      BY <2>1, <3>2 DEF NoChannels
    <3>4. f.kind = "data" /\ f.channel = d => asked[d] > 0
      <4> SUFFICES ASSUME f.kind = "data", f.channel = d PROVE asked[d] > 0
        OBVIOUS
      <4>1. f.message \in 1 .. Len(Parts[d]) /\ Reached(d, f.message, f.part) /\ Len(Parts[d]) \in Nat
        BY <1>0, <3>1, PlanTypes DEF AnswerFrame
      <4>2. sent[d].answer > 0 /\ said[d] \in Nat /\ sent[d].answer \in Nat
        BY <1>0, <4>1 DEF Reached, TypeOK
      <4>3. sent[d].answer <= said[d] /\ (said[d] > 0 => asked[d] > 0)
        BY DEF TypeInv, Chain
      <4> QED
        BY <4>2, <4>3
    <3>5. AnswerFrame(f) /\ f.kind # "data" => f.part = 1 /\ f.of = 1
      BY DEF AnswerFrame
    <3>6. somDecoder'.partial[d] # <<>> =>
            somDecoder.partial[d] # <<>> \/ (f.kind = "data" /\ f.channel = d)
      <4>1. f.kind # "data" => ~(f.part < f.of)
        BY <3>1, <3>5
      <4>2. Decoded(somDecoder, f).partial[d] =
                IF Repeated(somDecoder, f) THEN somDecoder.partial[d]
                ELSE IF f.kind \in {"hello", "reset"} THEN <<>>
                ELSE IF f.channel # d THEN somDecoder.partial[d]
                ELSE IF f.part < f.of THEN Append(somDecoder.partial[d], <<f.message, f.part>>)
                ELSE <<>>
        BY <2>1, <3>1, DecodedTypes
      <4> QED
        BY ONLY <3>2, <4>1, <4>2
    <3> QED
      BY <2>1, <3>3, <3>4, <3>6
  <2>3. CASE SomBreaks
    BY <2>1, <2>3 DEF SomBreaks, NoChannels, Fresh
  <2>4. CASE SomSaysReset
    BY <2>1, <2>4 DEF SomSaysReset
  <2> QED
    BY <2>2, <2>3, <2>4 DEF SomStep
<1>6. ASSUME NEW d \in Channel PROVE Chain(d)'
  <2>1. Chain(d)
    BY DEF TypeInv
  <2> QED
    BY <1>0, <1>1, <1>5, <2>1 DEF Chain
<1> QED
  BY <1>0, <1>4, <1>6 DEF TypeInv

\* The pty.
LEMMA PtyInv ==
    ASSUME TypeInv, UNCHANGED plan, PtyLoses
    PROVE  TypeInv'
<1>0. /\ TypeOK /\ TypeOK' /\ toSom \in Seq(Frame) /\ toRelay \in Seq(Frame)
      /\ UNCHANGED <<channel, wrote, writing, heard, somDecoder, asked, said, sent, entry, conn, Parts>>
  <2>1. UNCHANGED Parts
    BY DEF Parts
  <2>2. TypeOK'
    BY PtyTypes
  <2> QED
    BY <2>1, <2>2 DEF TypeInv, TypeOK, PtyLoses, som, users, daemon, readers, hub
<1>1. /\ \A i \in 1 .. Len(toRelay') : \E j \in 1 .. Len(toRelay) : toRelay'[i] = toRelay[j]
      /\ \A i \in 1 .. Len(toSom') : \E j \in 1 .. Len(toSom) : toSom'[i] = toSom[j]
  <2>1. CASE toSom # <<>> /\ toSom' = Tail(toSom) /\ UNCHANGED toRelay
    BY <1>0, <2>1, QueueTail
  <2>2. CASE toRelay # <<>> /\ toRelay' = Tail(toRelay) /\ UNCHANGED toSom
    BY <1>0, <2>2, QueueTail
  <2> QED
    BY <2>1, <2>2 DEF PtyLoses
<1>2. \A d \in Channel : Sent(d) <= Sent(d)' /\ UNCHANGED <<sent[d], Sent(d)>>
  <2>1. wrote \in [Channel -> Nat]
    BY <1>0 DEF TypeOK
  <2> QED
    BY <1>0, <2>1 DEF Sent
<1>3. Frames'
  BY <1>0, <1>1, <1>2, FramesKept
<1>4. ASSUME NEW d \in Channel PROVE Chain(d)'
  BY <1>0, <1>2 DEF Chain, TypeInv
<1> QED
  BY <1>0, <1>3, <1>4 DEF TypeInv

\* A step that lets what Som writes and reads alone, and what the pty carries
\* to the relay, or takes from there.
LEMMA FarInv ==
    ASSUME TypeInv, TypeOK', UNCHANGED plan,
           UNCHANGED <<channel, wrote, writing, heard, somDecoder>>,
           \A i \in 1 .. Len(toRelay') : \E j \in 1 .. Len(toRelay) : toRelay'[i] = toRelay[j],
           \A i \in 1 .. Len(toSom') :
                (\E j \in 1 .. Len(toSom) : toSom'[i] = toSom[j]) \/ AnswerFrame(toSom[i])',
           \A c \in Channel : UNCHANGED sent[c] \/ \A a, i \in Nat : Reached(c, a, i) => Reached(c, a, i)',
           \A c \in Channel :
                /\ asked'[c] <= Sent(c) /\ (asked[c] > 0 => asked'[c] > 0)
                /\ entry'[c] = 1 => asked'[c] > 0
                /\ <<c, 1>> \in Conn /\ conn'[<<c, 1>>] # "none" => asked'[c] > 0
                /\ said'[c] > 0 => asked'[c] > 0
                /\ sent'[c].answer <= said'[c]
                /\ sent'[c].part > 0 => /\ sent'[c].answer > 0
                                        /\ sent'[c].part < Parts[c][sent'[c].answer]
    PROVE  TypeInv'
<1>0. TypeOK /\ UNCHANGED Parts
  BY DEF TypeInv, Parts
<1>1. \A c \in Channel : UNCHANGED Sent(c) /\ Sent(c) <= Sent(c)'
  <2>1. wrote \in [Channel -> Nat]
    BY <1>0 DEF TypeOK
  <2> QED
    BY <2>1 DEF Sent
<1>2. Frames'
  BY <1>1, FramesKept
<1>3. ASSUME NEW c \in Channel PROVE Chain(c)'
  <2>1. Chain(c) /\ asked[c] \in Nat /\ asked'[c] \in Nat
    BY <1>0 DEF TypeInv, TypeOK
  <2>2. asked[c] > 0 => asked'[c] > 0
    OBVIOUS
  <2> QED
    BY <1>0, <1>1, <2>1, <2>2 DEF Chain
<1> QED
  BY <1>2, <1>3 DEF TypeInv

\* How the channels stand, for the steps that leave most of them alone.
LEMMA ChainFacts ==
    ASSUME TypeInv, NEW c \in Channel
    PROVE  /\ asked[c] <= Sent(c) /\ asked[c] \in Nat /\ Sent(c) \in Int
           /\ entry[c] = 1 => asked[c] > 0
           /\ <<c, 1>> \in Conn /\ conn[<<c, 1>>] # "none" => asked[c] > 0
           /\ said[c] > 0 => asked[c] > 0
           /\ sent[c].answer <= said[c]
           /\ sent[c].part > 0 => sent[c].answer > 0 /\ sent[c].part < Parts[c][sent[c].answer]
<1>1. TypeOK /\ Chain(c)
  BY DEF TypeInv
<1>2. asked[c] \in Nat /\ Sent(c) \in Int
  BY <1>1, ChannelTypes
<1> QED
  BY <1>1, <1>2 DEF Chain

\* A note of the hub's is added.
LEMMA NoteSent ==
    ASSUME TypeOK, NEW kind \in {"reset", "close"}, NEW c, (kind = "reset" /\ c = 0) \/ c \in Channel,
           HubSends(toSom, Note(kind, c))
    PROVE  \A i \in 1 .. Len(toSom') :
                (\E j \in 1 .. Len(toSom) : toSom'[i] = toSom[j]) \/ AnswerFrame(toSom[i])'
<1>1. nextSeq.hub \in 0 .. SeqMod - 1 /\ toSom \in Seq(Frame) /\ c \in {0} \cup Channel
  BY DEF TypeOK
<1>2. PICK f : f = Sealed(nextSeq.hub, Note(kind, c))
  OBVIOUS
<1>3. f \in Frame /\ f.kind = kind /\ f.channel = c /\ f.part = 1 /\ f.of = 1
  BY <1>1, <1>2, NoteTypes
<1>4. toSom' = Append(toSom, f)
  BY <1>2 DEF HubSends
<1>5. AnswerFrame(f)'
  BY <1>3, LinkAssumption DEF AnswerFrame
<1>6. \A i \in 1 .. Len(toSom') : toSom'[i] = f \/ (i \in 1 .. Len(toSom) /\ toSom'[i] = toSom[i])
  BY <1>1, <1>3, <1>4, Appended
<1> QED
  BY <1>5, <1>6 DEF AnswerFrame, Reached

\* The daemon and the readers.
LEMMA DaemonInv ==
    ASSUME TypeInv, UNCHANGED plan, NEW k \in Conn, DaemonStep(k) \/ ReaderStep(k)
    PROVE  TypeInv'
<1> USE DEF som, pty, hub, users, daemon, readers
<1>0. /\ TypeOK /\ TypeOK' /\ k[1] \in Channel /\ toSom \in Seq(Frame)
      /\ UNCHANGED <<channel, wrote, writing, heard, somDecoder, toRelay, asked>>
      /\ k[2] = 1 => k = <<k[1], 1>>
  <2>1. UNCHANGED <<channel, wrote, writing, heard, somDecoder, toRelay, asked>>
    BY DEF DaemonStep, DaemonAnswers, DaemonHangsUp, ReaderStep, ReaderSends, ReaderEnds,
           ReaderReports
  <2>2. k[1] \in Channel /\ k = <<k[1], k[2]>>
    BY DEF Conn
  <2>3. TypeOK'
    BY DaemonTypes
  <2> QED
    BY <2>1, <2>2, <2>3 DEF TypeInv, TypeOK
<1>1. CASE k[2] = 1 /\ DaemonAnswers(k[1])
  <2>1. /\ conn[<<k[1], 1>>] = "open" /\ said' = [said EXCEPT ![k[1]] = said[k[1]] + 1]
        /\ UNCHANGED <<toSom, entry, conn, sent>>
    BY <1>1 DEF DaemonAnswers
  <2>2. \A c \in Channel : said'[c] > 0 => asked[c] > 0
    BY <1>0, <1>1, <2>1, ChainFacts DEF TypeOK
  <2>3. \A c \in Channel : sent[c].answer <= said'[c]
    <3> SUFFICES ASSUME NEW c \in Channel PROVE sent[c].answer <= said'[c]
      OBVIOUS
    <3>1. sent[c].answer <= said[c] /\ said[c] \in Nat /\ sent[c].answer \in Nat
      BY <1>0, ChainFacts DEF TypeOK
    <3>2. said'[c] = said[c] \/ said'[c] = said[c] + 1
      BY <1>0, <2>1 DEF TypeOK
    <3> QED
      BY <3>1, <3>2
  <2> QED
    BY <1>0, <2>1, <2>2, <2>3, ChainFacts, FarInv
<1>2. CASE DaemonHangsUp(k)
  <2>1. conn[k] = "open" /\ conn' = [conn EXCEPT ![k] = "hungup"] /\ UNCHANGED <<toSom, entry, said, sent>>
    BY <1>2 DEF DaemonHangsUp
  <2>2. \A c \in Channel : <<c, 1>> \in Conn /\ conn'[<<c, 1>>] # "none" => asked[c] > 0
    BY <1>0, <2>1, ChainFacts DEF TypeOK
  <2> QED
    BY <1>0, <2>1, <2>2, ChainFacts, FarInv
<1>3. CASE k[2] = 1 /\ ReaderSends(k[1])
  <2> DEFINE c == k[1]
  <2>0. PICK a, i, r :
            /\ a = IF MidAnswer(<<c, 1>>) THEN sent[c].answer ELSE sent[c].answer + 1
            /\ i = sent[c].part + 1
            /\ r = [answer |-> a, part |-> i % Parts[c][a]]
    OBVIOUS
  <2>1. /\ c \in Channel /\ sent[c].answer \in Nat /\ sent[c].part \in Nat
        /\ said[c] \in 0 .. Len(Parts[c]) /\ Len(Parts[c]) \in Nat
    BY <1>0, ChannelTypes, PlanTypes DEF TypeOK
  <2>2. /\ sent[c].answer <= said[c]
        /\ sent[c].part > 0 => sent[c].answer > 0 /\ sent[c].part < Parts[c][sent[c].answer]
    BY <2>1, ChainFacts
  <2>3. sent[c].part > 0 \/ sent[c].answer < said[c]
    BY <1>3 DEF ReaderSends, MidAnswer
  <2>4. a = IF sent[c].part > 0 THEN sent[c].answer ELSE sent[c].answer + 1
    BY <2>0 DEF MidAnswer
  <2>5. PICK f : f = Sealed(nextSeq.hub, Data(c, a, i, Parts[c][a]))
    OBVIOUS
  <2>6. /\ toSom' = Append(toSom, f) /\ sent' = [sent EXCEPT ![c] = r]
        /\ UNCHANGED <<toRelay, asked, said, conn, entry>>
    BY <1>3, <2>0, <2>5 DEF ReaderSends, HubSends
  <2>7. a \in 1 .. Len(Parts[c]) /\ a <= said[c] /\ a \in Nat
    BY <2>1, <2>2, <2>3, <2>4
  <2>8. Parts[c][a] \in Nat \ {0} /\ i \in Nat /\ i \in 1 .. Parts[c][a]
    <3>1. Parts[c][a] \in Nat \ {0}
      BY <1>0, <2>1, <2>7, PlanTypes
    <3> QED
      <4> DEFINE n == Parts[c][a]
                 p == sent[c].part
      <4>1. n \in Nat \ {0} /\ p \in Nat /\ i = p + 1 /\ (p = 0 \/ p < n)
        BY <2>0, <2>1, <2>2, <2>4, <3>1
      <4> HIDE DEF n, p
      <4>2. i \in Nat /\ i \in 1 .. n
        BY <4>1
      <4> QED
        BY <3>1, <4>2 DEF n
  <2> HIDE DEF c
  <2>9. r.answer = a /\ r.part = i % Parts[c][a] /\ r.part < Parts[c][a] /\ r.part \in Nat
        /\ (r.part = 0 \/ r.part = i)
    <3> DEFINE n == Parts[c][a]
    <3>1. n \in Nat \ {0} /\ i \in 1 .. n
      BY <2>8
    <3> HIDE DEF n
    <3>2. i \in Nat /\ i < n + n
      BY <3>1
    <3>3. i % n = IF i < n THEN i ELSE i - n
      BY <3>1, <3>2, ModCases
    <3>4. i % n \in Nat /\ i % n < n /\ (i % n = 0 \/ i % n = i)
      BY <3>1, <3>2, <3>3
    <3> QED
      BY <2>0, <3>4 DEF n
  <2>10. \A d \in Channel : sent'[d] = IF d = c THEN r ELSE sent[d]
    BY <1>0, <2>1, <2>6 DEF TypeOK
  <2>11. \A d \in Channel : UNCHANGED sent[d] \/ \A x, y \in Nat : Reached(d, x, y) => Reached(d, x, y)'
    <3> SUFFICES ASSUME NEW d \in Channel, d = c, NEW x \in Nat, NEW y \in Nat, Reached(d, x, y)
                 PROVE  Reached(d, x, y)'
      BY <2>10
    <3>1. sent'[c].answer = a /\ sent'[c].part = r.part
      BY <2>1, <2>9, <2>10
    <3>2. CASE sent[c].part = 0
      <4>1. x <= sent[c].answer /\ a = sent[c].answer + 1
        BY <2>1, <2>4, <3>2 DEF Reached
      <4> QED
        BY <2>1, <3>1, <4>1 DEF Reached
    <3>3. CASE sent[c].part > 0
      <4>1. a = sent[c].answer /\ i = sent[c].part + 1
        BY <2>0, <2>4, <3>3
      <4>2. x < a \/ (x = a /\ y <= i)
        BY <2>1, <3>3, <4>1 DEF Reached
      <4> QED
        BY <2>9, <3>1, <4>2 DEF Reached
    <3> QED
      BY <2>1, <3>2, <3>3
  <2>12. \A j \in 1 .. Len(toSom') :
            (\E m \in 1 .. Len(toSom) : toSom'[j] = toSom[m]) \/ AnswerFrame(toSom[j])'
    <3>1. /\ f \in Frame /\ f.kind = "data" /\ f.channel = c /\ f.message = a /\ f.part = i
          /\ f.of = Parts[c][a]
      <4>1. nextSeq.hub \in 0 .. SeqMod - 1 /\ Parts[c][a] \in Nat
        BY <1>0, <2>8 DEF TypeOK
      <4> QED
        BY ONLY <2>1, <2>5, <2>7, <2>8, <4>1 DEF Sealed, Data, Frame
    <3>2. Reached(c, a, i)'
      <4>1. sent'[c].answer = a /\ sent'[c].part = r.part
        BY <2>1, <2>9, <2>10
      <4> QED
        BY <2>8, <2>9, <4>1 DEF Reached
    <3>3. AnswerFrame(f)'
      <4>1. UNCHANGED Parts
        BY DEF Parts
      <4> QED
        BY <2>1, <2>7, <2>8, <3>1, <3>2, <4>1 DEF AnswerFrame
    <3>4. \A j \in 1 .. Len(toSom') : toSom'[j] = f \/ (j \in 1 .. Len(toSom) /\ toSom'[j] = toSom[j])
      BY <1>0, <2>6, <3>1, Appended
    <3> QED
      BY <3>3, <3>4 DEF AnswerFrame, Reached
  <2>13. \A d \in Channel :
            /\ sent'[d].answer <= said[d]
            /\ sent'[d].part > 0 => sent'[d].answer > 0 /\ sent'[d].part < Parts[d][sent'[d].answer]
    <3> SUFFICES ASSUME NEW d \in Channel
                 PROVE  /\ sent'[d].answer <= said[d]
                        /\ sent'[d].part > 0 => /\ sent'[d].answer > 0
                                                /\ sent'[d].part < Parts[d][sent'[d].answer]
      OBVIOUS
    <3>1. CASE d # c
      BY <2>10, <3>1, ChainFacts
    <3>2. CASE d = c
      <4>1. sent'[d].answer = a /\ sent'[d].part = r.part
        BY <2>9, <2>10, <3>2
      <4> QED
        BY <2>7, <2>9, <3>2, <4>1
    <3> QED
      BY <3>1, <3>2
  <2> QED
    BY <1>0, <2>6, <2>11, <2>12, <2>13, ChainFacts, FarInv
<1>4. CASE ReaderEnds(k)
  <2>1. entry' = [entry EXCEPT ![k[1]] = 0] /\ UNCHANGED <<toSom, conn, said, sent>>
    BY <1>4 DEF ReaderEnds
  <2>2. \A c \in Channel : entry'[c] = 1 => asked[c] > 0
    <3>1. \A c \in Channel : entry'[c] = IF c = k[1] THEN 0 ELSE entry[c]
      BY <1>0, <2>1 DEF TypeOK
    <3>2. \A c \in Channel : entry[c] = 1 => asked[c] > 0
      BY ChainFacts
    <3> QED
      BY ONLY <3>1, <3>2
  <2> QED
    BY <1>0, <2>1, <2>2, ChainFacts, FarInv
<1>5. CASE ReaderReports(k)
  <2>1. HubSends(toSom, Note("close", k[1])) /\ UNCHANGED <<entry, conn, said, sent>>
    BY <1>5 DEF ReaderReports
  <2>2. \A i \in 1 .. Len(toSom') :
            (\E j \in 1 .. Len(toSom) : toSom'[i] = toSom[j]) \/ AnswerFrame(toSom[i])'
    BY <1>0, <2>1, NoteSent
  <2> QED
    BY <1>0, <2>1, <2>2, ChainFacts, FarInv
<1> QED
  BY <1>1, <1>2, <1>3, <1>4, <1>5 DEF DaemonStep, ReaderStep

\* The hub.
LEMMA HubInv ==
    ASSUME TypeInv, UNCHANGED plan, HubStep
    PROVE  TypeInv'
<1> USE DEF som, users, readers, hub
<1>0. /\ TypeOK /\ TypeOK' /\ toSom \in Seq(Frame) /\ toRelay \in Seq(Frame)
      /\ UNCHANGED <<channel, wrote, writing, heard, somDecoder, said, sent>>
  <2>1. UNCHANGED <<channel, wrote, writing, heard, somDecoder, said, sent>>
    BY DEF HubStep, HubSkips, HubCloses, HubDelivers, HubConnects, HubCannotDeliver, HubBreaks,
           HubSaysReset, daemon
  <2> QED
    BY <2>1, HubTypes DEF TypeInv, TypeOK
<1> DEFINE f == Head(toRelay)
           Old == \A i \in 1 .. Len(toRelay') : \E j \in 1 .. Len(toRelay) : toRelay'[i] = toRelay[j]
           Same == \A i \in 1 .. Len(toSom') : \E j \in 1 .. Len(toSom) : toSom'[i] = toSom[j]
           New == \A i \in 1 .. Len(toSom') :
                    (\E j \in 1 .. Len(toSom) : toSom'[i] = toSom[j]) \/ AnswerFrame(toSom[i])'
           Steady == \A c \in Channel :
                /\ asked'[c] <= Sent(c) /\ (asked[c] > 0 => asked'[c] > 0)
                /\ entry'[c] = 1 => asked'[c] > 0
                /\ <<c, 1>> \in Conn /\ conn'[<<c, 1>>] # "none" => asked'[c] > 0
<1>1. ASSUME toRelay # <<>>, HandsOn(toRelay, toRelay') \/ HandsOnDamaged(toRelay, toRelay')
      PROVE  Old
  <2>1. faults \in 0 .. MaxFaults
    BY <1>0 DEF TypeOK
  <2> QED
    BY <1>0, <1>1, <2>1, HandedOn
<1>2. ASSUME toRelay # <<>> PROVE f \in Frame /\ AskFrame(f) /\ f.message \in Nat
  <2>1. f \in Frame /\ f = toRelay[1] /\ 1 \in 1 .. Len(toRelay)
    BY <1>0, <1>2, QueueTail
  <2>2. f.message \in Nat
    BY <2>1 DEF Frame
  <2> QED
    BY <2>1, <2>2 DEF TypeInv, Frames
<1>3. ASSUME NEW S, Shutdown(S), UNCHANGED asked PROVE Steady
  <2> SUFFICES ASSUME NEW c \in Channel
               PROVE  /\ entry'[c] = 1 => asked'[c] > 0
                      /\ <<c, 1>> \in Conn /\ conn'[<<c, 1>>] # "none" => asked'[c] > 0
    BY <1>3, ChainFacts
  <2>1. entry'[c] = IF c \in S THEN 0 ELSE entry[c]
    BY <1>0, <1>3, ShutTypes
  <2>2. <<c, 1>> \in Conn /\ conn'[<<c, 1>>] # conn[<<c, 1>>] => entry[c] = 1
    BY <1>0, <1>3, ShutTypes
  <2> QED
    BY <1>3, <2>1, <2>2, ChainFacts
<1>4. UNCHANGED toSom => New
  OBVIOUS
<1>5. Old /\ New /\ Steady => TypeInv'
  BY <1>0, FarInv, ChainFacts
<1> HIDE DEF f, Old, New, Steady
<1>6. CASE HubSkips
  <2>1. /\ toRelay # <<>> /\ HandsOn(toRelay, toRelay')
        /\ UNCHANGED <<toSom, asked, entry, conn>>
    BY <1>6 DEF HubSkips, HubReads, daemon
  <2>2. Steady
    BY <2>1, ChainFacts DEF Steady
  <2> QED
    BY <1>1, <1>4, <1>5, <2>1, <2>2
<1>7. CASE HubCloses
  <2>1. /\ toRelay # <<>> /\ HandsOn(toRelay, toRelay')
        /\ UNCHANGED <<toSom, asked>> /\ \E S : Shutdown(S)
    BY <1>7 DEF HubCloses, HubReads
  <2> QED
    BY <1>1, <1>3, <1>4, <1>5, <2>1
<1>8. CASE HubDelivers
  <2>1. /\ toRelay # <<>> /\ HandsOn(toRelay, toRelay') /\ f.kind = "data"
        /\ UNCHANGED <<toSom, entry, conn>>
        /\ asked' = asked \/ (entry[f.channel] = 1 /\ asked' = [asked EXCEPT ![f.channel] = f.message])
    BY <1>8 DEF HubDelivers, HubReads, f
  <2>2. f.channel \in Channel /\ f.message \in 1 .. Sent(f.channel) /\ f.message \in Nat
    BY <1>2, <2>1 DEF AskFrame
  <2>3. Steady
    <3> SUFFICES ASSUME NEW c \in Channel
                 PROVE  asked'[c] <= Sent(c) /\ (asked[c] > 0 => asked'[c] > 0)
                        /\ (entry[c] = 1 => asked'[c] > 0)
      BY <2>1, ChainFacts DEF Steady
    <3>1. asked'[c] = asked[c] \/ (c = f.channel /\ asked'[c] = f.message)
      BY <1>0, <2>1 DEF TypeOK
    <3>2. f.message > 0 /\ (c = f.channel => f.message <= Sent(c))
      BY <2>2, ChainFacts
    <3> QED
      BY <3>1, <3>2, ChainFacts
  <2> QED
    BY <1>1, <1>4, <1>5, <2>1, <2>3
<1>9. CASE HubConnects
  <2>1. /\ toRelay # <<>> /\ HandsOn(toRelay, toRelay') /\ f.kind = "data" /\ UNCHANGED toSom
        /\ entry' = [entry EXCEPT ![f.channel] = f.message]
        /\ conn' = [conn EXCEPT ![<<f.channel, f.message>>] = "open"]
        /\ asked' = IF f.message = 1 THEN [asked EXCEPT ![f.channel] = 1] ELSE asked
    BY <1>9 DEF HubConnects, HubReads, f
  <2>2. f.channel \in Channel /\ f.message \in 1 .. Sent(f.channel) /\ f.message \in Nat
    BY <1>2, <2>1 DEF AskFrame
  <2>3. Steady
    <3> SUFFICES ASSUME NEW c \in Channel
                 PROVE  /\ asked'[c] <= Sent(c) /\ (asked[c] > 0 => asked'[c] > 0)
                        /\ entry'[c] = 1 => asked'[c] > 0
                        /\ <<c, 1>> \in Conn /\ conn'[<<c, 1>>] # "none" => asked'[c] > 0
      BY DEF Steady
    <3>1. CASE c = f.channel /\ f.message = 1
      <4>1. asked'[c] = 1 /\ 1 <= Sent(c)
        BY <1>0, <2>1, <2>2, <3>1, ChainFacts DEF TypeOK
      <4> QED
        BY <4>1
    <3>2. CASE ~(c = f.channel /\ f.message = 1)
      <4>1. asked'[c] = asked[c] /\ (entry'[c] = 1 => entry[c] = 1)
        BY <1>0, <2>1, <2>2, <3>2 DEF TypeOK
      <4>2. <<c, 1>> \in Conn => conn'[<<c, 1>>] = conn[<<c, 1>>]
        BY <1>0, <2>1, <3>2 DEF TypeOK
      <4> QED
        BY <4>1, <4>2, ChainFacts
    <3> QED
      BY <3>1, <3>2
  <2> QED
    BY <1>1, <1>4, <1>5, <2>1, <2>3
<1>10. CASE HubCannotDeliver
  <2>1. /\ toRelay # <<>> /\ HandsOn(toRelay, toRelay') /\ f.kind = "data" /\ UNCHANGED asked
        /\ HubSends(toSom, Note("close", f.channel)) /\ \E S : Shutdown(S)
    BY <1>10 DEF HubCannotDeliver, HubReads, f
  <2>2. f.channel \in Channel
    BY <1>2, <2>1 DEF AskFrame
  <2>3. New
    BY <1>0, <2>1, <2>2, NoteSent DEF New
  <2> QED
    BY <1>1, <1>3, <1>5, <2>1, <2>3
<1>11. CASE HubBreaks
  <2>1. /\ toRelay # <<>> /\ (HandsOn(toRelay, toRelay') \/ HandsOnDamaged(toRelay, toRelay'))
        /\ UNCHANGED <<toSom, asked>> /\ \E S : Shutdown(S)
    BY <1>11 DEF HubBreaks
  <2> QED
    BY <1>1, <1>3, <1>4, <1>5, <2>1
<1>12. CASE HubSaysReset
  <2>1. HubSends(toSom, Note("reset", 0)) /\ UNCHANGED <<toRelay, asked, entry, conn>>
    BY <1>12 DEF HubSaysReset, daemon
  <2>2. New
    BY <1>0, <2>1, NoteSent DEF New
  <2>3. Old
    BY <2>1 DEF Old
  <2>4. Steady
    BY <2>1, ChainFacts DEF Steady
  <2> QED
    BY <1>5, <2>2, <2>3, <2>4
<1> QED
  BY <1>6, <1>7, <1>8, <1>9, <1>10, <1>11, <1>12 DEF HubStep

-----------------------------------------------------------------------------
LEMMA InitInv == Init => TypeInv
<1> SUFFICES ASSUME Init PROVE TypeInv
  OBVIOUS
<1>1. SeqMod \in Nat \ {0} /\ MaxFaults \in Nat
  BY LinkAssumption
<1>2. plan \in Plans /\ \A c \in Channel : Writes[c] \in Nat /\ Parts[c] \in Seq(Nat \ {0})
  BY LinkAssumption DEF Init, Writes, Parts
<1>3. 0 \in 0 .. SeqMod - 1 /\ NextNumber(0) \in 0 .. SeqMod - 1
  BY <1>1, SealedTypes
<1>4. PICK f : f = Sealed(0, Note("hello", 0))
  OBVIOUS
<1>5. f \in Frame /\ f.kind = "hello" /\ f.part = 1 /\ f.of = 1
  BY <1>3, <1>4 DEF Sealed, Note, Frame
<1>6. toSom = <<f>> /\ toRelay = <<>>
  BY <1>4 DEF Init
<1>7. TypeOK
  <2>1. \A c \in Channel : 0 \in 0 .. Writes[c] /\ 0 \in 0 .. Len(Parts[c])
    <3> SUFFICES ASSUME NEW c \in Channel PROVE 0 \in 0 .. Writes[c] /\ 0 \in 0 .. Len(Parts[c])
      OBVIOUS
    <3>1. Writes[c] \in Nat /\ Len(Parts[c]) \in Nat
      BY <1>2, LenProperties
    <3> QED
      BY <3>1
  <2>2. Fresh \in Decoder
    BY DEF Fresh, Decoder
  <2>3. toSom \in Seq(Frame) /\ toRelay \in Seq(Frame)
    BY <1>5, <1>6
  <2>4. /\ \A c \in Channel : heard[c] = <<>> /\ sent[c] = [answer |-> 0, part |-> 0]
        /\ heard \in [Channel -> Seq(Nat)] /\ sent \in [Channel -> [answer : Nat, part : Nat]]
    BY DEF Init
  <2>5. \A c \in Channel : heard[c] \in Seq({Garbled} \cup 1 .. Len(Parts[c])) /\ sent[c].answer = 0
    <3> SUFFICES ASSUME NEW c \in Channel
                 PROVE  heard[c] \in Seq({Garbled} \cup 1 .. Len(Parts[c])) /\ sent[c].answer = 0
      OBVIOUS
    <3> DEFINE S == {Garbled} \cup 1 .. Len(Parts[c])
    <3>1. heard[c] = <<>> /\ sent[c].answer = 0
      BY <2>4
    <3> HIDE DEF S
    <3>2. heard[c] \in Seq(S)
      BY <3>1
    <3> QED
      BY <3>1, <3>2 DEF S
  <2>6. nextSeq \in [som : 0 .. SeqMod - 1, hub : 0 .. SeqMod - 1] /\ faults \in 0 .. MaxFaults
    BY <1>1, <1>3 DEF Init
  <2> QED
    BY <1>2, <2>1, <2>2, <2>3, <2>4, <2>5, <2>6 DEF Init, TypeOK
<1>8. Frames
  BY <1>5, <1>6 DEF Frames, AnswerFrame
<1>9. ASSUME NEW c \in Channel PROVE Chain(c)
  <2>1. <<c, 1>> \in Conn => conn[<<c, 1>>] = "none"
    BY DEF Init
  <2> QED
    BY <2>1 DEF Init, Chain, Sent, Fresh
<1> QED
  BY <1>7, <1>8, <1>9 DEF TypeInv

LEMMA NextInv == TypeInv /\ [Next]_vars => TypeInv'
<1> SUFFICES ASSUME TypeInv, [Next]_vars PROVE TypeInv'
  OBVIOUS
<1>1. CASE \E c \in Channel : UNCHANGED plan /\ (UserStep(c) \/ FinishWrite(c) \/ SayClosed(c))
  BY <1>1, UserInv DEF UserStep
<1>2. CASE \E k \in Conn : UNCHANGED plan /\ (DaemonStep(k) \/ ReaderStep(k))
  BY <1>2, DaemonInv
<1>3. CASE UNCHANGED plan /\ SomStep
  BY <1>3, SomInv
<1>4. CASE UNCHANGED plan /\ HubStep
  BY <1>4, HubInv
<1>5. CASE UNCHANGED plan /\ PtyLoses
  BY <1>5, PtyInv
<1>6. CASE UNCHANGED vars
  BY <1>6 DEF vars, state, som, users, pty, daemon, readers, hub, TypeInv, TypeOK, Frames, Chain,
     AskFrame, AnswerFrame, Reached, Sent, Writes, Parts, Decoder
<1> QED
  BY <1>1, <1>2, <1>3, <1>4, <1>5, <1>6 DEF Next

THEOREM InvHolds == Spec => []TypeInv
  BY InitInv, NextInv, PTL DEF Spec

\* The state of the link has the shape the code gives it: no channel is further
\* than the plan goes, no answer that Som has got is one the daemon has not given
\* (LinkChannel, LinkHub::deliver, LinkHub::forward).
THEOREM TypeCorrect == Spec => []TypeOK
<1>1. TypeInv => TypeOK
  BY DEF TypeInv
<1> QED
  BY InvHolds, <1>1, PTL
=============================================================================
