------------------------- MODULE StreamReaderProofs -------------------------
(***************************************************************************)
(* Proofs about StreamReader, for any buffer, any number of samples, any   *)
(* frames without a value and any bounds on the stream and the clock.      *)
(***************************************************************************)
EXTENDS StreamReader, SequenceTheorems, WellFoundedInduction, TLAPS

-----------------------------------------------------------------------------
(***************************************************************************)
(* What filtering a sequence gives.                                        *)
(***************************************************************************)

\* Induction up to n, with the statement as the set of the numbers it holds of.
LEMMA InductionUpTo ==
  ASSUME NEW n \in Nat, NEW S, 0 \in S,
         \A k \in 0 .. n : k # 0 /\ k - 1 \in S => k \in S
  PROVE  0 .. n \subseteq S
<1> DEFINE Bad == 0 .. n \ S
<1> SUFFICES ASSUME Bad # {} PROVE FALSE
  OBVIOUS
<1>1. Bad \subseteq Nat
  OBVIOUS
<1>2. PICK k \in Bad : \A m \in Bad : ~(<<m, k>> \in OpToRel(<, Nat))
  BY <1>1, NatLessThanWellFounded, WFMin, Zenon
<1>3. \A m \in Bad : ~(m < k)
  BY <1>1, <1>2, Zenon DEF OpToRel
<1>4. k \in 0 .. n /\ k # 0 /\ k - 1 \in 0 .. n
  OBVIOUS
<1>5. k - 1 \in S
  BY <1>3, <1>4
<1> QED  BY <1>4, <1>5

\* The first n entries of a filtered sequence, by recursion.
Filtered(s, A, n, f) ==
  f = [i \in 0 .. n |-> IF i = 0 THEN << >>
                        ELSE IF s[i] \in A THEN Append(f[i - 1], s[i]) ELSE f[i - 1]]

\* The recursion has a solution, and Filter is its last value.
LEMMA FilterRecursion ==
  ASSUME NEW T, NEW s \in Seq(T), NEW A
  PROVE  \E f : Filtered(s, A, Len(s), f) /\ Filter(s, A) = f[Len(s)]
<1> DEFINE S == {n \in 0 .. Len(s) : \E f : Filtered(s, A, n, f)}
<1>1. 0 \in S
  <2>1. Filtered(s, A, 0, [i \in 0 .. 0 |-> << >>])
    BY DEF Filtered
  <2> QED  BY <2>1
<1>2. ASSUME NEW n \in 0 .. Len(s), n # 0, n - 1 \in S
      PROVE  n \in S
  <2>1. PICK g : Filtered(s, A, n - 1, g)
    BY <1>2
  <2> DEFINE next(i, f) == IF i = 0 THEN << >>
                           ELSE IF s[i] \in A THEN Append(f[i - 1], s[i]) ELSE f[i - 1]
             h == [i \in 0 .. n |-> IF i < n THEN g[i] ELSE next(n, g)]
  <2>2. \A i \in 0 .. n : i < n => h[i] = next(i, h)
    <3> SUFFICES ASSUME NEW i \in 0 .. n, i < n PROVE g[i] = next(i, h)
      OBVIOUS
    <3>1. g[i] = next(i, g)
      <4>1. i \in 0 .. n - 1
        OBVIOUS
      <4>2. \A k \in 0 .. n - 1 : g[k] = next(k, g)
        BY <2>1 DEF Filtered
      <4> QED  BY <4>1, <4>2
    <3>2. i # 0 => h[i - 1] = g[i - 1]
      OBVIOUS
    <3> HIDE DEF h
    <3> QED  BY <3>1, <3>2
  <2>3. h[n] = next(n, h)
    <3>1. h[n] = next(n, g) /\ h[n - 1] = g[n - 1]
      BY <1>2
    <3> HIDE DEF h
    <3> QED  BY <3>1, <1>2
  <2>4. h = [i \in 0 .. n |-> next(i, h)]
    <3>1. h = [i \in 0 .. n |-> h[i]]
      OBVIOUS
    <3> HIDE DEF h
    <3>2. \A i \in 0 .. n : h[i] = next(i, h)
      BY <2>2, <2>3
    <3> HIDE DEF next
    <3> QED  BY <3>1, <3>2
  <2>5. Filtered(s, A, n, h)
    <3> HIDE DEF h
    <3> QED  BY <2>4 DEF Filtered
  <2> QED  BY <2>5
<1>3. PICK f : Filtered(s, A, Len(s), f)
  <2> HIDE DEF S
  <2>1. \A k \in 0 .. Len(s) : k # 0 /\ k - 1 \in S => k \in S
    BY <1>2
  <2>2. Len(s) \in Nat /\ Len(s) \in 0 .. Len(s)
    OBVIOUS
  <2>3. 0 .. Len(s) \subseteq S
    BY <1>1, <2>1, <2>2, InductionUpTo, Zenon
  <2> QED  BY <2>2, <2>3 DEF S
<1> DEFINE c == CHOOSE g : Filtered(s, A, Len(s), g)
<1>4. Filtered(s, A, Len(s), c)
  BY <1>3
<1>5. Filter(s, A) = c[Len(s)]
  BY DEF Filter, Filtered
<1> HIDE DEF c
<1> QED  BY <1>4, <1>5

\* r lists, in order, the entries of s up to n that are in A: at(i) is the place in
\* s of entry i.
Embedded(s, A, n, r, at_) ==
  /\ at_ \in [1 .. Len(r) -> 1 .. n]
  /\ \A i, j \in 1 .. Len(r) : i < j => at_[i] < at_[j]
  /\ \A i \in 1 .. Len(r) : r[i] = s[at_[i]] /\ r[i] \in A
  /\ \A k \in 1 .. n : s[k] \in A => \E i \in 1 .. Len(r) : at_[i] = k

\* Filter keeps the entries in A, in their order and each as often as it occurs.
LEMMA FilterEmbeds ==
  ASSUME NEW T, NEW s \in Seq(T), NEW A
  PROVE  /\ Filter(s, A) \in Seq(T)
         /\ \E place : Embedded(s, A, Len(s), Filter(s, A), place)
<1>1. PICK f : Filtered(s, A, Len(s), f) /\ Filter(s, A) = f[Len(s)]
  BY FilterRecursion
<1>2. \A n \in 0 .. Len(s) :
        f[n] = IF n = 0 THEN << >> ELSE IF s[n] \in A THEN Append(f[n - 1], s[n]) ELSE f[n - 1]
  BY <1>1 DEF Filtered
<1> DEFINE S == {n \in 0 .. Len(s) : f[n] \in Seq(T) /\ \E place : Embedded(s, A, n, f[n], place)}
<1>3. 0 \in S
  <2>1. 0 \in 0 .. Len(s)
    OBVIOUS
  <2>2. f[0] = << >>
    BY <1>2, <2>1
  <2>3. Embedded(s, A, 0, << >>, [i \in 1 .. 0 |-> i])
    BY DEF Embedded
  <2>4. << >> \in Seq(T)
    OBVIOUS
  <2> QED  BY <2>1, <2>2, <2>3, <2>4
<1>4. ASSUME NEW n \in 0 .. Len(s), n # 0, n - 1 \in S
      PROVE  n \in S
  <2> DEFINE r == f[n - 1]
  <2>1. PICK place : Embedded(s, A, n - 1, r, place)
    BY <1>4
  <2>2. r \in Seq(T) /\ s[n] \in T /\ n \in 1 .. Len(s)
    BY <1>4
  <2>3. f[n] = IF s[n] \in A THEN Append(r, s[n]) ELSE r
    BY <1>2, <1>4
  <2> HIDE DEF r
  <2>4. CASE s[n] \in A
    <3> DEFINE p == [i \in 1 .. (Len(r) + 1) |-> IF i = Len(r) + 1 THEN n ELSE place[i]]
    <3>1. /\ f[n] = Append(r, s[n]) /\ f[n] \in Seq(T) /\ Len(f[n]) = Len(r) + 1
          /\ f[n][Len(r) + 1] = s[n] /\ \A i \in 1 .. Len(r) : f[n][i] = r[i]
      BY <2>2, <2>3, <2>4
    <3>2. p \in [1 .. Len(f[n]) -> 1 .. n] /\ n \in Nat /\ Len(r) \in Nat
      BY <2>1, <2>2, <3>1 DEF Embedded
    <3>3. p[Len(r) + 1] = n /\ \A i \in 1 .. Len(r) : p[i] = place[i] /\ place[i] \in 1 .. n - 1
      BY <2>1, <2>2 DEF Embedded
    <3> HIDE DEF p
    <3>4. \A i \in 1 .. Len(f[n]) : i = Len(r) + 1 \/ i \in 1 .. Len(r)
      BY <3>1, <3>2
    <3>5. ASSUME NEW i \in 1 .. Len(f[n]), NEW j \in 1 .. Len(f[n]), i < j
          PROVE  p[i] < p[j]
      <4>1. i \in 1 .. Len(r)
        BY <3>1, <3>2, <3>5
      <4>2. CASE j = Len(r) + 1
        BY <4>1, <4>2, <3>2, <3>3
      <4>3. CASE j \in 1 .. Len(r)
        BY <4>1, <4>3, <2>1, <3>3, <3>5 DEF Embedded
      <4> QED  BY <3>4, <4>2, <4>3
    <3>6. \A i \in 1 .. Len(f[n]) : f[n][i] = s[p[i]] /\ f[n][i] \in A
      BY <2>1, <2>4, <3>1, <3>2, <3>3, <3>4 DEF Embedded
    <3>7. ASSUME NEW k \in 1 .. n, s[k] \in A
          PROVE  \E i \in 1 .. Len(f[n]) : p[i] = k
      <4>1. CASE k = n
        BY <4>1, <3>1, <3>2, <3>3
      <4>2. CASE k # n
        <5>1. k \in 1 .. n - 1
          BY <4>2, <3>2
        <5>2. PICK i \in 1 .. Len(r) : place[i] = k
          BY <5>1, <3>7, <2>1 DEF Embedded
        <5>3. i \in 1 .. Len(f[n]) /\ p[i] = k
          BY <5>2, <3>1, <3>2, <3>3
        <5> QED  BY <5>3
      <4> QED  BY <4>1, <4>2
    <3>8. Embedded(s, A, n, f[n], p)
      BY <3>2, <3>5, <3>6, <3>7 DEF Embedded
    <3> QED  BY <3>1, <3>8
  <2>5. CASE s[n] \notin A
    <3>1. Embedded(s, A, n, r, place)
      BY <2>1, <2>2, <2>5 DEF Embedded
    <3> QED  BY <2>2, <2>3, <2>5, <3>1
  <2> QED  BY <2>4, <2>5
<1>5. Len(s) \in S
  <2>1. Len(s) \in Nat /\ Len(s) \in 0 .. Len(s)
    OBVIOUS
  <2> HIDE DEF S
  <2>2. \A k \in 0 .. Len(s) : k # 0 /\ k - 1 \in S => k \in S
    BY <1>4
  <2>3. 0 .. Len(s) \subseteq S
    BY <1>3, <2>1, <2>2, InductionUpTo, Zenon
  <2> QED  BY <2>1, <2>3
<1> QED  BY <1>1, <1>5

-----------------------------------------------------------------------------
(***************************************************************************)
(* The stream and the buffering thread: what is pushed is in order.        *)
(***************************************************************************)

\* The counter of the next frame to be received.
Upcoming == sent - Len(channel)

\* The channel holds the frames sent last, without a gap.
ChannelContiguous ==
  /\ Len(channel) <= sent
  /\ \A i \in 1 .. Len(channel) : channel[i] = Upcoming + i - 1

\* The frame about to be pushed is one, and has been received.
HeldIsFrame  == thread = "push" => held \in Frames
HeldReceived == thread = "push" => held.counter < Upcoming /\ held.time <= now

\* Frames are pushed in the order of the stream, and so of their instants.
PushedInOrder ==
  \A i, j \in 1 .. Len(pushed) :
    i < j => pushed[i].counter < pushed[j].counter /\ pushed[i].time <= pushed[j].time

\* What is pushed was received before whatever is still to come.
PushedReceived ==
  \A i \in 1 .. Len(pushed) :
    /\ pushed[i].counter < Upcoming /\ pushed[i].time <= now
    /\ thread = "push" => pushed[i].counter < held.counter /\ pushed[i].time <= held.time

\* Eviction and clearing leave the frames pushed last.
BufferIsSuffix ==
  /\ Len(buffer) <= Len(pushed)
  /\ \A i \in 1 .. Len(buffer) : buffer[i] = pushed[Len(pushed) - Len(buffer) + i]

Pipeline ==
  /\ ChannelContiguous /\ HeldReceived /\ PushedInOrder /\ PushedReceived /\ BufferIsSuffix

\* The first n entries of a sequence.
LEMMA TakeType ==
  ASSUME NEW T, NEW s \in Seq(T), NEW n \in Nat
  PROVE  /\ Take(s, n) \in Seq(T)
         /\ Len(Take(s, n)) = IF n < Len(s) THEN n ELSE Len(s)
         /\ \A i \in 1 .. Len(Take(s, n)) : Take(s, n)[i] = s[i]
  BY DEF Take

\* Every variable keeps its type: the ring buffer never outgrows BufferSize, and a
\* measurement never has more than NumSamples samples.
THEOREM TypeCorrect == Spec => [](TypeOK /\ HeldIsFrame)
<1> DEFINE Inv == TypeOK /\ HeldIsFrame
<1>1. Init => Inv
  <2>1. 0 \in 0 .. MaxTime /\ 0 \in 0 .. MaxTime + 1 /\ 0 \in 0 .. MaxFrames + 1
    BY StreamAssumption
  <2>2. << >> \in Seq(0 .. MaxFrames) /\ << >> \in Seq(Frames)
        /\ Len(<< >>) <= BufferSize /\ Len(<< >>) <= NumSamples
    BY StreamAssumption
  <2> QED  BY <2>1, <2>2, Zenon DEF Init, TypeOK, HeldIsFrame
<1>2. Inv /\ [Next]_vars => Inv'
  <2> SUFFICES ASSUME Inv, [Next]_vars PROVE Inv'
    OBVIOUS
  <2> USE DEF TypeOK, HeldIsFrame, source, reader, collector
  <2>1. CASE Tick
    <3>1. now' \in 0 .. MaxTime
      BY <2>1, StreamAssumption DEF Tick
    <3> QED  BY <2>1, <3>1 DEF Tick
  <2>2. CASE Send
    BY <2>2, StreamAssumption DEF Send
  <2>3. CASE End
    BY <2>3 DEF End, Endings
  <2>4. CASE CheckShutdown
    BY <2>4 DEF CheckShutdown
  <2>5. CASE Receive
    <3>1. Head(channel) \in 0 .. MaxFrames /\ Tail(channel) \in Seq(0 .. MaxFrames)
      <4>1. channel \in Seq(0 .. MaxFrames) /\ channel # << >>
        BY <2>5 DEF Receive
      <4> QED  BY <4>1, HeadTailProperties
    <3>2. Head(channel) # 0 => [counter |-> Head(channel), time |-> now] \in Frames
      BY <3>1 DEF Frames
    <3> QED  BY <2>5, <3>1, <3>2 DEF Receive
  <2>6. CASE ReceiveFails
    BY <2>6 DEF ReceiveFails
  <2>7. CASE Push
    <3>1. Append(buffer, held) \in Seq(Frames) /\ Len(Append(buffer, held)) <= BufferSize + 1
      BY <2>7, StreamAssumption DEF Push
    <3>2. buffer' \in Seq(Frames) /\ Len(buffer') <= BufferSize
      <4> DEFINE b == Append(buffer, held)
      <4>1. buffer' = IF Len(b) > BufferSize THEN Tail(b) ELSE b
        BY <2>7 DEF Push, Bounded
      <4> HIDE DEF b, TypeOK, HeldIsFrame
      <4>2. CASE Len(b) > BufferSize
        <5>1. b # << >> /\ b \in Seq(Frames) /\ Len(b) = BufferSize + 1
          BY <3>1, <4>2, StreamAssumption DEF b
        <5>2. Tail(b) \in Seq(Frames) /\ Len(Tail(b)) = Len(b) - 1
          BY <5>1
        <5> QED  BY <4>1, <4>2, <5>1, <5>2, StreamAssumption
      <4>3. CASE ~(Len(b) > BufferSize)
        <5>1. b \in Seq(Frames) /\ Len(b) \in Nat
          BY <3>1 DEF b
        <5> QED  BY <4>1, <4>3, <5>1, StreamAssumption
      <4> QED  BY <4>2, <4>3
    <3>3. pushed' \in Seq(Frames)
      BY <2>7 DEF Push
    <3> QED  BY <2>7, <3>2, <3>3 DEF Push
  <2>8. CASE Join
    BY <2>8 DEF Join
  <2>9. CASE Exit
    BY <2>9 DEF Exit
  <2>10. CASE Collect
    <3>1. now \in 0 .. MaxTime + 1 /\ << >> \in Seq(Frames) /\ Len(<< >>) <= NumSamples
      BY StreamAssumption
    <3> QED  BY <2>10, <3>1 DEF Collect
  <2>11. CASE Elapse
    BY <2>11 DEF Elapse
  <2>12. CASE LoopHead
    BY <2>12 DEF LoopHead, Outcome
  <2>13. CASE CheckError
    BY <2>13 DEF CheckError
  <2>14. CASE GetData
    <3> DEFINE frames  == DataSince(cursor)
               wanted  == NumSamples - Len(collected)
               samples == Take(Filter(frames, Valued), wanted)
    <3>1. frames \in Seq(Frames)
      BY FilterEmbeds DEF DataSince
    <3>2. Filter(frames, Valued) \in Seq(Frames) /\ wanted \in Nat
      <4> HIDE DEF frames
      <4> QED  BY <3>1, FilterEmbeds, StreamAssumption
    <3>3. samples \in Seq(Frames) /\ Len(samples) <= wanted
      <4> HIDE DEF frames, wanted
      <4> QED  BY <3>2, TakeType
    <3>4. /\ collected' = collected \o samples
          /\ cursor' = IF frames = << >> THEN cursor ELSE CursorAfter(frames)
          /\ at' \in {"sleep", "loop"}
          /\ UNCHANGED <<now, source, reader, shutdown, elapsed, result, began, pushed>>
      BY <2>14 DEF GetData
    <3> HIDE DEF frames, samples
    <3>5. collected' \in Seq(Frames) /\ Len(collected') <= NumSamples
      <4>1. /\ collected \o samples \in Seq(Frames)
            /\ Len(collected \o samples) = Len(collected) + Len(samples)
        BY <3>3
      <4>2. Len(collected) \in Nat /\ Len(samples) \in Nat
        BY <3>3
      <4> QED  BY <4>1, <4>2, <3>3, <3>4, StreamAssumption
    <3>6. cursor' \in 0 .. MaxTime + 1
      <4>1. CASE frames # << >>
        <5>1. frames[Len(frames)] \in Frames
          BY <4>1, <3>1
        <5>2. cursor' = frames[Len(frames)].time + 1
          BY <4>1, <3>4 DEF CursorAfter, Last
        <5>3. frames[Len(frames)].time \in 0 .. MaxTime
          BY <5>1 DEF Frames
        <5> HIDE DEF TypeOK, HeldIsFrame
        <5> QED  BY <5>2, <5>3, StreamAssumption
      <4> QED  BY <4>1, <3>4
    <3> QED  BY <3>4, <3>5, <3>6
  <2>15. CASE Sleep
    BY <2>15 DEF Sleep
  <2>16. CASE ClearBuffer
    BY <2>16, StreamAssumption DEF ClearBuffer
  <2>17. CASE Stop
    BY <2>17 DEF Stop
  <2>18. CASE Joined
    BY <2>18 DEF Joined
  <2>19. CASE UNCHANGED vars
    BY <2>19 DEF vars
  <2> HIDE DEF TypeOK, HeldIsFrame
  <2> QED  BY <2>1, <2>2, <2>3, <2>4, <2>5, <2>6, <2>7, <2>8, <2>9, <2>10, <2>11, <2>12,
              <2>13, <2>14, <2>15, <2>16, <2>17, <2>18, <2>19
           DEF Next, Buffering, Collecting
<1> QED  BY <1>1, <1>2, PTL DEF Spec

\* A step of the buffering thread or of the stream keeps the order of the frames.
THEOREM PipelineInvariant == Spec => []Pipeline
<1>1. Init => Pipeline
  BY DEF Init, Pipeline, ChannelContiguous, HeldReceived, PushedInOrder, PushedReceived,
         BufferIsSuffix
<1>2. TypeOK /\ HeldIsFrame /\ Pipeline /\ [Next]_vars => Pipeline'
  <2> SUFFICES ASSUME TypeOK, HeldIsFrame, Pipeline, [Next]_vars PROVE Pipeline'
    OBVIOUS
  <2>1. /\ channel \in Seq(0 .. MaxFrames) /\ Len(channel) \in Nat /\ sent \in Nat
        /\ Upcoming \in Int /\ now \in Nat
        /\ buffer \in Seq(Frames) /\ pushed \in Seq(Frames)
        /\ Len(buffer) \in Nat /\ Len(pushed) \in Nat
        /\ \A f \in Frames : f.counter \in Nat /\ f.time \in Nat
        /\ \A i \in 1 .. Len(pushed) : pushed[i].counter \in Nat /\ pushed[i].time \in Nat
    <3>1. channel \in Seq(0 .. MaxFrames) /\ sent \in Nat /\ now \in Nat
          /\ buffer \in Seq(Frames) /\ pushed \in Seq(Frames)
      BY DEF TypeOK
    <3>2. Len(channel) \in Nat /\ Len(buffer) \in Nat /\ Len(pushed) \in Nat
      BY <3>1
    <3>3. \A f \in Frames : f.counter \in Nat /\ f.time \in Nat
      BY DEF Frames
    <3>4. \A i \in 1 .. Len(pushed) : pushed[i] \in Frames
      BY <3>1
    <3> QED  BY <3>1, <3>2, <3>3, <3>4 DEF Upcoming
  <2>2. ASSUME UNCHANGED <<sent, channel, held, pushed, buffer, now>>, thread' # "push"
        PROVE  Pipeline'
    BY <2>2 DEF Pipeline, ChannelContiguous, HeldReceived, PushedInOrder, PushedReceived,
                BufferIsSuffix, Upcoming
  <2>3. ASSUME UNCHANGED <<sent, channel, thread, held, pushed, buffer, now>>
        PROVE  Pipeline'
    BY <2>3 DEF Pipeline, ChannelContiguous, HeldReceived, PushedInOrder, PushedReceived,
                BufferIsSuffix, Upcoming
  <2>4. CASE Tick
    <3>1. /\ now' = now + 1
          /\ UNCHANGED <<sent, channel, thread, held, pushed, buffer, Upcoming>>
      BY <2>4 DEF Tick, source, reader, Upcoming
    <3>2. HeldReceived'
      BY <2>1, <3>1 DEF Pipeline, HeldReceived, HeldIsFrame
    <3>3. PushedReceived'
      BY <2>1, <3>1 DEF Pipeline, PushedReceived
    <3> QED  BY <3>1, <3>2, <3>3 DEF Pipeline, ChannelContiguous, PushedInOrder, BufferIsSuffix
  <2>5. CASE Send
    <3>1. /\ Len(channel') = Len(channel) + 1 /\ sent' = sent + 1
          /\ channel'[Len(channel) + 1] = sent
          /\ \A i \in 1 .. Len(channel) : channel'[i] = channel[i]
      BY <2>1, <2>5 DEF Send
    <3>2. Upcoming' = Upcoming
      BY <2>1, <3>1 DEF Upcoming
    <3>3. ChannelContiguous'
      <4>1. Len(channel') <= sent'
        BY <2>1, <3>1 DEF Pipeline, ChannelContiguous
      <4>2. ASSUME NEW i \in 1 .. Len(channel')
            PROVE  channel'[i] = Upcoming' + i - 1
        <5>1. CASE i = Len(channel) + 1
          BY <2>1, <3>1, <3>2, <5>1 DEF Upcoming
        <5>2. CASE i \in 1 .. Len(channel)
          BY <3>1, <3>2, <5>2 DEF Pipeline, ChannelContiguous
        <5> QED  BY <2>1, <3>1, <5>1, <5>2
      <4> QED  BY <4>1, <4>2 DEF ChannelContiguous
    <3> QED  BY <2>5, <3>2, <3>3 DEF Send, reader, Pipeline, HeldReceived, PushedInOrder,
                PushedReceived, BufferIsSuffix
  <2>6. CASE Receive
    <3>1. /\ channel # << >> /\ Len(channel) \in Nat /\ Len(channel) > 0
          /\ Len(channel') = Len(channel) - 1 /\ sent' = sent
          /\ \A i \in 1 .. Len(channel') : channel'[i] = channel[i + 1]
          /\ Head(channel) = channel[1]
      BY <2>1, <2>6, HeadTailProperties DEF Receive
    <3>2. Upcoming' = Upcoming + 1 /\ Head(channel) = Upcoming
      BY <2>1, <3>1 DEF Upcoming, Pipeline, ChannelContiguous
    <3>3. ChannelContiguous'
      BY <2>1, <3>1, <3>2 DEF Pipeline, ChannelContiguous
    <3>4. UNCHANGED <<now, buffer, pushed>>
      BY <2>6 DEF Receive
    <3>5. thread' = "push" => held' = [counter |-> Upcoming, time |-> now]
      BY <2>6, <3>2 DEF Receive
    <3>6. HeldReceived' /\ PushedReceived'
      BY <2>1, <3>2, <3>4, <3>5 DEF Pipeline, HeldReceived, PushedReceived
    <3> QED  BY <3>3, <3>4, <3>6 DEF Pipeline, PushedInOrder, BufferIsSuffix
  <2>7. CASE Push
    <3>1. /\ Len(pushed') = Len(pushed) + 1 /\ pushed'[Len(pushed) + 1] = held
          /\ \A i \in 1 .. Len(pushed) : pushed'[i] = pushed[i]
          /\ held \in Frames /\ Len(pushed) \in Nat
      BY <2>1, <2>7 DEF Push, HeldIsFrame
    <3>2. UNCHANGED <<now, sent, channel, Upcoming>> /\ thread = "push" /\ thread' = "loop"
      BY <2>7 DEF Push, source, Upcoming
    <3>3. PushedInOrder' /\ PushedReceived'
      <4>1. \A i \in 1 .. Len(pushed') : i = Len(pushed) + 1 \/ i \in 1 .. Len(pushed)
        BY <3>1
      <4>2. \A i \in 1 .. Len(pushed) :
              pushed'[i].counter < held.counter /\ pushed'[i].time <= held.time
        BY <3>1, <3>2 DEF Pipeline, PushedReceived
      <4>3. \A i, j \in 1 .. Len(pushed') : i < j => i \in 1 .. Len(pushed)
        BY <3>1
      <4>4. PushedInOrder'
        BY <3>1, <4>1, <4>2, <4>3 DEF Pipeline, PushedInOrder
      <4>5. held.counter < Upcoming /\ held.time <= now
        BY <3>2 DEF Pipeline, HeldReceived
      <4>6. PushedReceived'
        BY <3>1, <3>2, <4>1, <4>5 DEF Pipeline, PushedReceived
      <4> QED  BY <4>4, <4>6
    <3>4. BufferIsSuffix'
      <4> DEFINE b == Append(buffer, held)
      <4>1. /\ b \in Seq(Frames) /\ Len(b) = Len(buffer) + 1 /\ b[Len(buffer) + 1] = held
            /\ \A i \in 1 .. Len(buffer) : b[i] = buffer[i]
        BY <2>1, <3>1
      <4>2. buffer' = IF Len(b) > BufferSize THEN Tail(b) ELSE b
        BY <2>7 DEF Push, Bounded
      <4> HIDE DEF b
      <4>3. Len(b) <= Len(pushed') /\ \A i \in 1 .. Len(b) : b[i] = pushed'[Len(pushed') - Len(b) + i]
        <5>1. Len(b) <= Len(pushed')
          BY <2>1, <3>1, <4>1 DEF Pipeline, BufferIsSuffix
        <5>2. ASSUME NEW i \in 1 .. Len(b)
              PROVE  b[i] = pushed'[Len(pushed') - Len(b) + i]
          <6>1. Len(pushed') - Len(b) + i = Len(pushed) - Len(buffer) + i
            BY <2>1, <3>1, <4>1
          <6>2. CASE i = Len(buffer) + 1
            BY <2>1, <3>1, <4>1, <6>1, <6>2
          <6>3. CASE i \in 1 .. Len(buffer)
            <7>1. Len(pushed) - Len(buffer) + i \in 1 .. Len(pushed)
              BY <2>1, <6>3 DEF Pipeline, BufferIsSuffix
            <7> QED  BY <3>1, <4>1, <6>1, <6>3, <7>1 DEF Pipeline, BufferIsSuffix
          <6> QED  BY <2>1, <4>1, <6>2, <6>3
        <5> QED  BY <5>1, <5>2
      <4>4. CASE buffer' = b
        BY <4>3, <4>4 DEF BufferIsSuffix
      <4>5. CASE buffer' = Tail(b)
        <5>1. /\ b # << >> /\ Len(b) \in Nat /\ Len(Tail(b)) = Len(b) - 1
              /\ \A i \in 1 .. Len(Tail(b)) : Tail(b)[i] = b[i + 1]
          BY <2>1, <4>1, HeadTailProperties
        <5> QED  BY <3>1, <4>3, <4>5, <5>1 DEF BufferIsSuffix
      <4> QED  BY <4>2, <4>4, <4>5
    <3> QED  BY <3>2, <3>3, <3>4 DEF Pipeline, ChannelContiguous, HeldReceived
  <2>8. CASE ClearBuffer
    <3>1. buffer' = << >> /\ UNCHANGED <<now, sent, channel, thread, held, pushed, Upcoming>>
      BY <2>8 DEF ClearBuffer, source, Upcoming
    <3> QED  BY <2>1, <3>1 DEF Pipeline, ChannelContiguous, HeldReceived, PushedInOrder,
                PushedReceived, BufferIsSuffix
  <2>9. CASE CheckShutdown \/ ReceiveFails \/ Join \/ Exit
    BY <2>2, <2>9 DEF CheckShutdown, ReceiveFails, Join, Exit, source
  <2>10. CASE End \/ Collect \/ Elapse \/ Collecting \/ Stop \/ UNCHANGED vars
    BY <2>3, <2>10 DEF End, Collect, Elapse, Collecting, LoopHead, CheckError, GetData, Sleep,
                       Joined, Stop, vars, source, reader
  <2> QED  BY <2>4, <2>5, <2>6, <2>7, <2>8, <2>9, <2>10 DEF Next, Buffering
<1> QED  BY <1>1, <1>2, TypeCorrect, PTL DEF Spec

-----------------------------------------------------------------------------
(***************************************************************************)
(* A measurement: what has been collected, and how far the cursor is.      *)
(***************************************************************************)

\* The cursor is where the measurement began or just behind a pushed frame.
CursorPlace ==
  /\ began <= now /\ began <= cursor
  /\ cursor = began \/ \E k \in 1 .. Len(pushed) : cursor = pushed[k].time + 1

\* The samples are pushed frames of this measurement before the cursor, in order.
CollectedBehind ==
  \A i \in 1 .. Len(collected) :
    /\ \E k \in 1 .. Len(pushed) : collected[i] = pushed[k]
    /\ began <= collected[i].time /\ collected[i].time < cursor
CollectedInOrder ==
  \A i, j \in 1 .. Len(collected) : i < j => collected[i].counter < collected[j].counter

\* The buffer is looked at only while samples are missing.
StillMissing == at \in {"error", "get", "sleep"} => Len(collected) < NumSamples

\* A frame behind the cursor that the measurement could have used.
Passed(f) ==
  /\ f \in Valued /\ began <= f.time /\ f.time < cursor
  /\ Len(collected) < NumSamples \/ f.counter <= Last(collected).counter

\* A frame that shares its instant with an earlier one.
Shared(f) ==
  \E k \in 1 .. Len(pushed) : pushed[k].counter < f.counter /\ pushed[k].time = f.time

\* Whatever the cursor has passed in the buffer is collected, or shares its instant.
PassedIsCollected ==
  \A i \in 1 .. Len(buffer) :
    Passed(buffer[i]) =>
      (\E k \in 1 .. Len(collected) : collected[k] = buffer[i]) \/ Shared(buffer[i])

Measurement ==
  CursorPlace /\ CollectedBehind /\ CollectedInOrder /\ StillMissing /\ PassedIsCollected

\* One look at the buffer: `frames` are the frames from the cursor on, `valued` those of
\* them that have a value.
LEMMA LookAtBuffer ==
  ASSUME TypeOK, Pipeline,
         NEW frames, frames = DataSince(cursor),
         NEW valued, valued = Filter(frames, Valued)
  PROVE  /\ frames \in Seq(Frames) /\ valued \in Seq(Frames)
         /\ \A i \in 1 .. Len(valued) : valued[i] \in Valued /\ cursor <= valued[i].time
         /\ \A i \in 1 .. Len(valued) : \E k \in 1 .. Len(pushed) : valued[i] = pushed[k]
         /\ \A i, j \in 1 .. Len(valued) : i < j => valued[i].counter < valued[j].counter
         /\ \A b \in 1 .. Len(buffer) :
              buffer[b] \in Valued /\ cursor <= buffer[b].time
                => \E i \in 1 .. Len(valued) : valued[i] = buffer[b]
         /\ frames # << >> => /\ cursor <= Last(frames).time
                              /\ \E k \in 1 .. Len(pushed) : Last(frames) = pushed[k]
         /\ \A i \in 1 .. Len(valued) : frames # << >> /\ valued[i].time <= Last(frames).time
<1> DEFINE Late == {f \in Frames : f.time >= cursor}
           first == Len(pushed) - Len(buffer)
<1>1. /\ buffer \in Seq(Frames) /\ pushed \in Seq(Frames) /\ cursor \in Int
      /\ Len(buffer) \in Nat /\ Len(pushed) \in Nat /\ first \in Nat
      /\ \A b \in 1 .. Len(buffer) : first + b \in 1 .. Len(pushed) /\ buffer[b] = pushed[first + b]
      /\ \A b \in 1 .. Len(buffer) : buffer[b] \in Frames
      /\ \A f \in Frames : f.counter \in Nat /\ f.time \in Nat
  <2>1. buffer \in Seq(Frames) /\ pushed \in Seq(Frames) /\ cursor \in Int
    BY StreamAssumption DEF TypeOK
  <2>2. Len(buffer) \in Nat /\ Len(pushed) \in Nat /\ first \in Nat
    BY <2>1 DEF Pipeline, BufferIsSuffix
  <2>3. \A b \in 1 .. Len(buffer) : first + b \in 1 .. Len(pushed) /\ buffer[b] = pushed[first + b]
    BY <2>2 DEF Pipeline, BufferIsSuffix
  <2>4. \A b \in 1 .. Len(buffer) : buffer[b] \in Frames
    BY <2>1
  <2>5. \A f \in Frames : f.counter \in Nat /\ f.time \in Nat
    BY DEF Frames
  <2> QED  BY <2>1, <2>2, <2>3, <2>4, <2>5
<1>2. ASSUME NEW b \in 1 .. Len(buffer), NEW c \in 1 .. Len(buffer), b < c
      PROVE  buffer[b].counter < buffer[c].counter /\ buffer[b].time <= buffer[c].time
  <2> HIDE DEF first
  <2>1. /\ first + b \in 1 .. Len(pushed) /\ first + c \in 1 .. Len(pushed)
        /\ buffer[b] = pushed[first + b] /\ buffer[c] = pushed[first + c]
    BY <1>1
  <2>2. first + b < first + c
    BY <1>1, <1>2
  <2> QED  BY <2>1, <2>2 DEF Pipeline, PushedInOrder
<1>3. frames \in Seq(Frames) /\ \E place : Embedded(buffer, Late, Len(buffer), frames, place)
  BY <1>1, FilterEmbeds DEF DataSince
<1>4. valued \in Seq(Frames) /\ \E place : Embedded(frames, Valued, Len(frames), valued, place)
  BY <1>3, FilterEmbeds
<1> PICK p : Embedded(buffer, Late, Len(buffer), frames, p)
  BY <1>3
<1> PICK q : Embedded(frames, Valued, Len(frames), valued, q)
  BY <1>4
<1>5. /\ \A i \in 1 .. Len(frames) : p[i] \in 1 .. Len(buffer) /\ frames[i] = buffer[p[i]]
      /\ \A i \in 1 .. Len(frames) : frames[i] \in Late
      /\ \A i, j \in 1 .. Len(frames) : i < j => p[i] < p[j]
  BY DEF Embedded
<1>6. /\ \A i \in 1 .. Len(valued) : q[i] \in 1 .. Len(frames) /\ valued[i] = frames[q[i]]
      /\ \A i \in 1 .. Len(valued) : valued[i] \in Valued
      /\ \A i, j \in 1 .. Len(valued) : i < j => q[i] < q[j]
  BY DEF Embedded
<1>7. \A i \in 1 .. Len(frames) :
        cursor <= frames[i].time /\ \E k \in 1 .. Len(pushed) : frames[i] = pushed[k]
  <2> HIDE DEF first
  <2> QED  BY <1>1, <1>5
<1>8. \A i \in 1 .. Len(valued) :
        /\ valued[i] \in Valued /\ cursor <= valued[i].time
        /\ \E k \in 1 .. Len(pushed) : valued[i] = pushed[k]
  <2> TAKE i \in 1 .. Len(valued)
  <2>1. q[i] \in 1 .. Len(frames) /\ valued[i] = frames[q[i]] /\ valued[i] \in Valued
    BY <1>6
  <2> QED  BY <1>7, <2>1
<1>9. ASSUME NEW i \in 1 .. Len(valued), NEW j \in 1 .. Len(valued), i < j
      PROVE  valued[i].counter < valued[j].counter
  <2>1. q[i] < q[j] /\ q[i] \in 1 .. Len(frames) /\ q[j] \in 1 .. Len(frames)
    BY <1>6, <1>9
  <2>2. p[q[i]] < p[q[j]] /\ p[q[i]] \in 1 .. Len(buffer) /\ p[q[j]] \in 1 .. Len(buffer)
    BY <1>5, <2>1
  <2>3. valued[i] = buffer[p[q[i]]] /\ valued[j] = buffer[p[q[j]]]
    BY <1>5, <1>6, <2>1
  <2> QED  BY <1>2, <2>2, <2>3
<1>10. ASSUME NEW b \in 1 .. Len(buffer), buffer[b] \in Valued, cursor <= buffer[b].time
       PROVE  \E i \in 1 .. Len(valued) : valued[i] = buffer[b]
  <2>1. buffer[b] \in Late
    BY <1>1, <1>10
  <2>2. PICK m \in 1 .. Len(frames) : p[m] = b
    BY <2>1 DEF Embedded
  <2>3. frames[m] = buffer[b]
    BY <1>5, <2>2
  <2>4. PICK i \in 1 .. Len(valued) : q[i] = m
    BY <1>10, <2>3 DEF Embedded
  <2> QED  BY <1>6, <2>3, <2>4
<1>11. frames # << >> => Last(frames) = frames[Len(frames)] /\ Len(frames) \in 1 .. Len(frames)
  BY <1>3 DEF Last
<1>12. frames # << >> => /\ cursor <= Last(frames).time
                        /\ \E k \in 1 .. Len(pushed) : Last(frames) = pushed[k]
  BY <1>7, <1>11
<1>13. ASSUME NEW i \in 1 .. Len(valued)
       PROVE  frames # << >> /\ valued[i].time <= Last(frames).time
  <2>1. q[i] \in 1 .. Len(frames) /\ valued[i] = frames[q[i]] /\ Len(frames) \in Nat
    BY <1>3, <1>6
  <2>2. frames # << >>
    BY <2>1
  <2>3. CASE q[i] = Len(frames)
    <3>1. frames[Len(frames)].time \in Nat
      BY <1>1, <1>5, <1>11, <2>2
    <3> QED  BY <1>11, <2>1, <2>2, <2>3, <3>1
  <2>4. CASE q[i] < Len(frames)
    <3>1. p[q[i]] < p[Len(frames)] /\ p[q[i]] \in 1 .. Len(buffer) /\ p[Len(frames)] \in 1 .. Len(buffer)
      BY <1>5, <1>11, <2>1, <2>2, <2>4
    <3>2. frames[q[i]].time <= frames[Len(frames)].time
      BY <1>2, <1>5, <1>11, <2>1, <2>2, <3>1
    <3> QED  BY <1>11, <2>1, <2>2, <3>2
  <2> QED  BY <2>1, <2>2, <2>3, <2>4
<1> QED  BY <1>3, <1>4, <1>8, <1>9, <1>10, <1>12, <1>13

\* The steps of the other threads and of the controller keep Measurement; the two
\* that matter are Push, where a frame may arrive behind the cursor, and GetData.
THEOREM MeasurementInvariant == Spec => []Measurement
<1> USE DEF Measurement
<1>1. Init => Measurement
  <2>1. Init => Len(collected) = 0 /\ Len(buffer) = 0
    BY DEF Init
  <2> QED  BY <2>1, StreamAssumption DEF Init, CursorPlace, CollectedBehind, CollectedInOrder,
              StillMissing, PassedIsCollected
<1>2. TypeOK /\ HeldIsFrame /\ Pipeline /\ Measurement /\ [Next]_vars => Measurement'
  <2> SUFFICES ASSUME TypeOK, HeldIsFrame, Pipeline, Measurement, [Next]_vars
               PROVE  Measurement'
    OBVIOUS
  <2>1. /\ now \in Nat /\ cursor \in Nat /\ began \in Nat
        /\ collected \in Seq(Frames) /\ Len(collected) \in Nat /\ NumSamples \in Nat \ {0}
        /\ buffer \in Seq(Frames) /\ pushed \in Seq(Frames) /\ Len(pushed) \in Nat
        /\ \A f \in Frames : f.counter \in Nat /\ f.time \in Nat
        /\ \A i \in 1 .. Len(collected) : collected[i] \in Frames
        /\ \A k \in 1 .. Len(pushed) : pushed[k] \in Frames
        /\ \A b \in 1 .. Len(buffer) : buffer[b] \in Frames
        /\ \A i \in 1 .. Len(collected) : collected[i].time \in Nat
        /\ \A k \in 1 .. Len(pushed) : pushed[k].counter \in Nat /\ pushed[k].time \in Nat
    <3>1. /\ now \in Nat /\ cursor \in Nat /\ began \in Nat /\ NumSamples \in Nat \ {0}
          /\ collected \in Seq(Frames) /\ buffer \in Seq(Frames) /\ pushed \in Seq(Frames)
      BY StreamAssumption DEF TypeOK
    <3>2. \A f \in Frames : f.counter \in Nat /\ f.time \in Nat
      BY DEF Frames
    <3>3. Len(collected) \in Nat /\ \A i \in 1 .. Len(collected) : collected[i] \in Frames
      BY <3>1
    <3>4. Len(pushed) \in Nat /\ \A k \in 1 .. Len(pushed) : pushed[k] \in Frames
      BY <3>1
    <3>5. \A b \in 1 .. Len(buffer) : buffer[b] \in Frames
      BY <3>1
    <3> QED  BY <3>1, <3>2, <3>3, <3>4, <3>5
  <2>2. ASSUME UNCHANGED <<cursor, began, collected, buffer, pushed>>, now' \in {now, now + 1},
               StillMissing'
        PROVE  Measurement'
    <3>1. CursorPlace'
      <4>1. began <= now'
        BY <2>1, <2>2 DEF CursorPlace
      <4> QED  BY <2>2, <4>1 DEF CursorPlace
    <3>2. CollectedBehind' /\ CollectedInOrder'
      BY <2>2 DEF CollectedBehind, CollectedInOrder
    <3>3. PassedIsCollected'
      BY <2>2 DEF PassedIsCollected, Passed, Shared
    <3> QED  BY <2>2, <3>1, <3>2, <3>3
  <2>3. CASE Tick
    <3>1. UNCHANGED <<at, cursor, began, collected, buffer, pushed>> /\ now' = now + 1
      BY <2>3 DEF Tick, reader, collector
    <3> QED  BY <2>2, <3>1 DEF StillMissing
  <2>4. CASE Send \/ End \/ CheckShutdown \/ Receive \/ ReceiveFails \/ Join \/ Exit \/ Elapse
             \/ UNCHANGED vars
    <3>1. UNCHANGED <<now, at, cursor, began, collected, buffer, pushed>>
      BY <2>4 DEF Send, End, CheckShutdown, Receive, ReceiveFails, Join, Exit, Elapse, vars, reader,
                  collector
    <3> QED  BY <2>1, <2>2, <3>1 DEF StillMissing
  <2>5. CASE LoopHead \/ CheckError \/ Sleep \/ Stop \/ Joined
    <3>1. UNCHANGED <<now, cursor, began, collected, buffer, pushed>>
      BY <2>5 DEF LoopHead, CheckError, Sleep, Stop, Joined, reader, collector
    <3>2. StillMissing'
      BY <2>1, <2>5, <3>1 DEF LoopHead, CheckError, Sleep, Stop, Joined, StillMissing, Enough
    <3> QED  BY <2>1, <2>2, <3>1, <3>2
  <2>6. CASE Push
    <3>1. /\ UNCHANGED <<now, at, cursor, began, collected>>
          /\ pushed' = Append(pushed, held) /\ held \in Frames /\ thread = "push"
          /\ buffer' = Bounded(Append(buffer, held))
      BY <2>6 DEF Push, collector, HeldIsFrame
    <3>2. /\ Len(pushed') = Len(pushed) + 1
          /\ \A k \in 1 .. Len(pushed) : k \in 1 .. Len(pushed') /\ pushed'[k] = pushed[k]
      BY <2>1, <3>1
    <3>3. CursorPlace'
      BY <2>1, <3>1, <3>2 DEF CursorPlace
    <3>4. CollectedBehind'
      BY <2>1, <3>1, <3>2 DEF CollectedBehind
    <3>5. ASSUME NEW f \in Frames, Shared(f)
          PROVE  Shared(f)'
      BY <3>2, <3>5 DEF Shared
    <3>6. ASSUME NEW b \in 1 .. Len(buffer')
          PROVE  buffer'[b] = held \/ \E c \in 1 .. Len(buffer) : buffer'[b] = buffer[c]
      <4> DEFINE long == Append(buffer, held)
      <4>1. /\ long \in Seq(Frames) /\ long # << >> /\ Len(long) = Len(buffer) + 1
            /\ \A c \in 1 .. Len(long) : long[c] = held \/ \E d \in 1 .. Len(buffer) : long[c] = buffer[d]
        <5>1. /\ long \in Seq(Frames) /\ Len(long) = Len(buffer) + 1 /\ Len(buffer) \in Nat
              /\ long[Len(buffer) + 1] = held
              /\ \A c \in 1 .. Len(buffer) : long[c] = buffer[c]
          BY <2>1, <3>1
        <5> HIDE DEF long
        <5>2. long # << >>
          BY <5>1
        <5>3. \A c \in 1 .. Len(long) : c = Len(buffer) + 1 \/ c \in 1 .. Len(buffer)
          BY <5>1
        <5> QED  BY <5>1, <5>2, <5>3
      <4>2. buffer' = long \/ buffer' = Tail(long)
        BY <3>1 DEF Bounded
      <4> HIDE DEF long
      <4>3. Len(Tail(long)) = Len(long) - 1
            /\ \A c \in 1 .. Len(Tail(long)) : Tail(long)[c] = long[c + 1]
        BY <4>1, HeadTailProperties
      <4>4. \E c \in 1 .. Len(long) : buffer'[b] = long[c]
        <5>1. CASE buffer' = long
          BY <5>1
        <5>2. CASE buffer' = Tail(long)
          <6>1. b + 1 \in 1 .. Len(long)
            BY <4>1, <4>3, <5>2
          <6> QED  BY <4>3, <5>2, <6>1
        <5> QED  BY <4>2, <5>1, <5>2
      <4> QED  BY <4>1, <4>4
    <3>7. ASSUME NEW b \in 1 .. Len(buffer'), Passed(buffer[b])'
          PROVE  (\E k \in 1 .. Len(collected') : collected'[k] = buffer'[b]) \/ Shared(buffer[b])'
      <4>1. CASE buffer'[b] = held
        <5>1. began <= held.time /\ held.time < cursor
          BY <3>1, <3>7, <4>1 DEF Passed
        <5>2. PICK k \in 1 .. Len(pushed) : cursor = pushed[k].time + 1
          BY <2>1, <3>1, <5>1 DEF CursorPlace
        <5>3. pushed[k].counter < held.counter /\ pushed[k].time <= held.time
          BY <3>1 DEF Pipeline, PushedReceived
        <5>4. pushed[k].time = held.time
          <6>1. pushed[k].time \in Nat /\ held.time \in Nat
            BY <2>1, <3>1
          <6> QED  BY <5>1, <5>2, <5>3, <6>1
        <5> QED  BY <3>2, <4>1, <5>3, <5>4 DEF Shared
      <4>2. ASSUME NEW c \in 1 .. Len(buffer), buffer'[b] = buffer[c]
            PROVE  (\E k \in 1 .. Len(collected') : collected'[k] = buffer'[b]) \/ Shared(buffer[b])'
        <5>1. Passed(buffer[c])
          BY <3>1, <3>7, <4>2 DEF Passed
        <5>2. (\E k \in 1 .. Len(collected) : collected[k] = buffer[c]) \/ Shared(buffer[c])
          BY <5>1 DEF PassedIsCollected
        <5> QED  BY <2>1, <3>1, <3>2, <4>2, <5>2 DEF Shared
      <4> QED  BY <3>6, <4>1, <4>2
    <3>8. PassedIsCollected'
      BY <3>7 DEF PassedIsCollected
    <3> QED  BY <3>1, <3>3, <3>4, <3>8 DEF CollectedInOrder, StillMissing
  <2>7. CASE Collect
    <3>1. /\ cursor' = now /\ began' = now /\ collected' = << >> /\ at' = "loop"
          /\ UNCHANGED <<now, buffer, pushed>>
      BY <2>7 DEF Collect, reader
    <3>2. \A b \in 1 .. Len(buffer') : ~Passed(buffer[b])'
      BY <2>1, <3>1 DEF Passed
    <3> QED  BY <2>1, <3>1, <3>2 DEF CursorPlace, CollectedBehind, CollectedInOrder, StillMissing,
                PassedIsCollected
  <2>8. CASE ClearBuffer
    <3>1. UNCHANGED <<now, at, cursor, began, collected, pushed>> /\ Len(buffer') = 0
      BY <2>8 DEF ClearBuffer, collector
    <3> QED  BY <2>1, <3>1 DEF CursorPlace, CollectedBehind, CollectedInOrder, StillMissing,
                PassedIsCollected
  <2>9. CASE GetData
    <3> DEFINE frames  == DataSince(cursor)
               valued  == Filter(frames, Valued)
               wanted  == NumSamples - Len(collected)
               samples == Take(valued, wanted)
    <3>1. /\ UNCHANGED <<now, buffer, began, pushed>>
          /\ collected' = collected \o samples
          /\ cursor' = IF frames = << >> THEN cursor ELSE Last(frames).time + 1
          /\ at' = IF Len(collected') < NumSamples THEN "sleep" ELSE "loop"
          /\ wanted \in Nat \ {0}
      BY <2>1, <2>9 DEF GetData, reader, CursorAfter, StillMissing
    <3>2. /\ frames \in Seq(Frames) /\ valued \in Seq(Frames)
          /\ \A i \in 1 .. Len(valued) : valued[i] \in Valued /\ cursor <= valued[i].time
          /\ \A i \in 1 .. Len(valued) : \E k \in 1 .. Len(pushed) : valued[i] = pushed[k]
          /\ \A i, j \in 1 .. Len(valued) : i < j => valued[i].counter < valued[j].counter
          /\ \A b \in 1 .. Len(buffer) :
               buffer[b] \in Valued /\ cursor <= buffer[b].time
                 => \E i \in 1 .. Len(valued) : valued[i] = buffer[b]
          /\ frames # << >> => /\ cursor <= Last(frames).time
                               /\ \E k \in 1 .. Len(pushed) : Last(frames) = pushed[k]
          /\ \A i \in 1 .. Len(valued) : frames # << >> /\ valued[i].time <= Last(frames).time
      BY LookAtBuffer
    <3> HIDE DEF frames, valued
    <3>3. /\ samples \in Seq(Frames) /\ Len(samples) \in Nat
          /\ Len(samples) = IF wanted < Len(valued) THEN wanted ELSE Len(valued)
          /\ \A i \in 1 .. Len(samples) : i \in 1 .. Len(valued) /\ samples[i] = valued[i]
      <4>1. valued \in Seq(Frames) /\ Len(valued) \in Nat /\ wanted \in Nat
        BY <3>1, <3>2
      <4> HIDE DEF wanted
      <4>2. /\ samples \in Seq(Frames)
            /\ Len(samples) = IF wanted < Len(valued) THEN wanted ELSE Len(valued)
            /\ \A i \in 1 .. Len(samples) : samples[i] = valued[i]
        BY <4>1, TakeType
      <4> HIDE DEF samples
      <4>3. \A i \in 1 .. Len(samples) : i \in 1 .. Len(valued)
        BY <4>1, <4>2
      <4> QED  BY <4>1, <4>2, <4>3
    <3> HIDE DEF samples
    <3>4. /\ Len(collected') = Len(collected) + Len(samples)
          /\ \A i \in 1 .. Len(collected) : collected'[i] = collected[i]
          /\ \A i \in 1 .. Len(samples) : collected'[Len(collected) + i] = samples[i]
      <4>1. /\ collected \in Seq(Frames) /\ samples \in Seq(Frames)
            /\ Len(collected) \in Nat /\ Len(samples) \in Nat /\ collected' = collected \o samples
        BY <2>1, <3>1, <3>3
      <4>2. Len(collected') = Len(collected) + Len(samples)
        BY <4>1
      <4>3. \A i \in 1 .. Len(collected) + Len(samples) :
              collected'[i] = IF i <= Len(collected) THEN collected[i] ELSE samples[i - Len(collected)]
        BY <4>1
      <4>4. \A i \in 1 .. Len(samples) :
              /\ Len(collected) + i \in 1 .. Len(collected) + Len(samples)
              /\ ~(Len(collected) + i <= Len(collected)) /\ Len(collected) + i - Len(collected) = i
        BY <4>1
      <4>5. \A i \in 1 .. Len(collected) : i \in 1 .. Len(collected) + Len(samples) /\ i <= Len(collected)
        BY <4>1
      <4> QED  BY <4>2, <4>3, <4>4, <4>5
    <3>5. \A i \in 1 .. Len(collected') :
            i \in 1 .. Len(collected)
            \/ \E m \in 1 .. Len(samples) : i = Len(collected) + m
      <4> TAKE i \in 1 .. Len(collected')
      <4>1. i \in 1 .. Len(collected) \/ i - Len(collected) \in 1 .. Len(samples)
        BY <2>1, <3>3, <3>4
      <4>2. i = Len(collected) + (i - Len(collected))
        BY <2>1
      <4> QED  BY <4>1, <4>2
    <3>6. cursor <= cursor' /\ cursor' \in Nat
          /\ (cursor' = cursor \/ \E k \in 1 .. Len(pushed) : cursor' = pushed[k].time + 1)
          /\ \A i \in 1 .. Len(valued) : valued[i].time < cursor'
      <4>1. CASE frames = << >>
        BY <2>1, <3>1, <3>2, <4>1
      <4>2. CASE frames # << >>
        <5>1. PICK k \in 1 .. Len(pushed) : Last(frames) = pushed[k]
          BY <3>2, <4>2
        <5>2. pushed[k].time \in Nat /\ cursor' = pushed[k].time + 1 /\ cursor <= pushed[k].time
          BY <2>1, <3>1, <3>2, <4>2, <5>1
        <5>3. \A i \in 1 .. Len(valued) : valued[i].time <= pushed[k].time /\ valued[i].time \in Nat
          BY <2>1, <3>2, <5>1
        <5> QED  BY <2>1, <5>2, <5>3
      <4> QED  BY <4>1, <4>2
    <3>7. CursorPlace'
      BY <2>1, <3>1, <3>6 DEF CursorPlace
    <3>8. CollectedBehind'
      <4> SUFFICES ASSUME NEW i \in 1 .. Len(collected')
                   PROVE  /\ \E k \in 1 .. Len(pushed) : collected'[i] = pushed[k]
                          /\ began <= collected'[i].time /\ collected'[i].time < cursor'
        BY <3>1 DEF CollectedBehind
      <4>1. CASE i \in 1 .. Len(collected)
        <5>1. /\ \E k \in 1 .. Len(pushed) : collected[i] = pushed[k]
              /\ began <= collected[i].time /\ collected[i].time < cursor
          BY <4>1 DEF CollectedBehind
        <5>2. collected[i].time \in Nat
          BY <2>1, <4>1
        <5>3. collected[i].time < cursor'
          BY <2>1, <3>6, <5>1, <5>2
        <5> QED  BY <3>4, <4>1, <5>1, <5>3
      <4>2. ASSUME NEW m \in 1 .. Len(samples), i = Len(collected) + m
            PROVE  /\ \E k \in 1 .. Len(pushed) : collected'[i] = pushed[k]
                   /\ began <= collected'[i].time /\ collected'[i].time < cursor'
        <5>1. collected'[i] = valued[m] /\ m \in 1 .. Len(valued)
          BY <3>3, <3>4, <4>2
        <5>2. began <= cursor /\ cursor <= valued[m].time /\ valued[m].time \in Nat
          <6>1. valued[m] \in Frames
            BY <3>2, <5>1
          <6> QED  BY <2>1, <3>2, <5>1, <6>1 DEF CursorPlace
        <5>3. began <= valued[m].time
          BY <2>1, <5>2
        <5> QED  BY <3>2, <3>6, <5>1, <5>3
      <4> QED  BY <3>5, <4>1, <4>2
    <3>9. CollectedInOrder'
      <4> SUFFICES ASSUME NEW i \in 1 .. Len(collected'), NEW j \in 1 .. Len(collected'), i < j
                   PROVE  collected'[i].counter < collected'[j].counter
        BY DEF CollectedInOrder
      <4>1. CASE j \in 1 .. Len(collected)
        <5>1. i \in 1 .. Len(collected)
          BY <2>1, <4>1
        <5> QED  BY <3>4, <4>1, <5>1 DEF CollectedInOrder
      <4>2. ASSUME NEW m \in 1 .. Len(samples), j = Len(collected) + m
            PROVE  collected'[i].counter < collected'[j].counter
        <5>1. collected'[j] = valued[m] /\ m \in 1 .. Len(valued)
          BY <3>3, <3>4, <4>2
        <5>2. CASE i \in 1 .. Len(collected)
          <6>1. PICK k \in 1 .. Len(pushed) : collected[i] = pushed[k] /\ pushed[k].time < cursor
            BY <5>2 DEF CollectedBehind
          <6>2. PICK l \in 1 .. Len(pushed) : valued[m] = pushed[l] /\ cursor <= pushed[l].time
            BY <3>2, <5>1
          <6>3. pushed[k].time < pushed[l].time
            BY <2>1, <6>1, <6>2
          <6>4. ~(pushed[l].time <= pushed[k].time)
            BY <2>1, <6>3
          <6>5. ~(l < k) /\ k # l
            <7>1. l < k => pushed[l].time <= pushed[k].time
              BY DEF Pipeline, PushedInOrder
            <7>2. pushed[k].time \in Nat
              BY <2>1
            <7> QED  BY <6>3, <6>4, <7>1, <7>2
          <6>6. k < l
            BY <6>5
          <6>7. pushed[k].counter < pushed[l].counter
            BY <6>6 DEF Pipeline, PushedInOrder
          <6> QED  BY <3>4, <5>1, <5>2, <6>1, <6>2, <6>7
        <5>3. ASSUME NEW n \in 1 .. Len(samples), i = Len(collected) + n
              PROVE  collected'[i].counter < collected'[j].counter
          <6>1. collected'[i] = valued[n] /\ n \in 1 .. Len(valued) /\ n < m
            BY <2>1, <3>3, <3>4, <4>2, <5>3
          <6> QED  BY <3>2, <5>1, <6>1
        <5> QED  BY <3>5, <5>2, <5>3
      <4> QED  BY <3>5, <4>1, <4>2
    <3>10. StillMissing'
      BY <3>1 DEF StillMissing
    <3>11. ASSUME NEW b \in 1 .. Len(buffer), Passed(buffer[b])'
           PROVE  (\E k \in 1 .. Len(collected') : collected'[k] = buffer[b]) \/ Shared(buffer[b])'
      <4>1. buffer' = buffer /\ buffer[b] \in Valued /\ began <= buffer[b].time
        BY <3>1, <3>11 DEF Passed
      <4>2. CASE buffer[b].time < cursor
        <5>1. Len(collected) < NumSamples
          BY <2>1, <3>1
        <5>2. Passed(buffer[b])
          BY <4>1, <4>2, <5>1 DEF Passed
        <5>3. (\E k \in 1 .. Len(collected) : collected[k] = buffer[b]) \/ Shared(buffer[b])
          BY <5>2 DEF PassedIsCollected
        <5>4. ASSUME NEW k \in 1 .. Len(collected), collected[k] = buffer[b]
              PROVE  \E m \in 1 .. Len(collected') : collected'[m] = buffer[b]
          <6>1. k \in 1 .. Len(collected')
            BY <2>1, <3>3, <3>4
          <6> QED  BY <3>4, <5>4, <6>1
        <5> QED  BY <3>1, <5>3, <5>4 DEF Shared
      <4>3. CASE cursor <= buffer[b].time
        <5>1. PICK i \in 1 .. Len(valued) : valued[i] = buffer[b]
          BY <3>2, <4>1, <4>3
        <5>2. CASE i \in 1 .. Len(samples)
          <6>1. Len(collected) + i \in 1 .. Len(collected')
            BY <2>1, <3>3, <3>4, <5>2
          <6> QED  BY <3>3, <3>4, <5>1, <5>2, <6>1
        <5>3. CASE i \notin 1 .. Len(samples)
          <6>1. Len(samples) = wanted /\ wanted < i /\ wanted \in 1 .. Len(valued)
            BY <3>1, <3>2, <3>3, <5>3
          <6>2. Len(collected') = NumSamples /\ collected'[NumSamples] = valued[wanted]
            <7>1. wanted \in 1 .. Len(samples) /\ Len(collected) + wanted = NumSamples
              BY <2>1, <3>1, <6>1
            <7> QED  BY <3>3, <3>4, <6>1, <7>1
          <6>3. buffer[b].counter <= valued[wanted].counter
            BY <2>1, <3>11, <4>1, <6>2 DEF Passed, Last
          <6>4. valued[wanted].counter < valued[i].counter
            BY <3>2, <6>1
          <6>5. valued[wanted].counter \in Nat /\ valued[i].counter \in Nat
            BY <2>1, <3>2, <6>1
          <6> QED  BY <5>1, <6>3, <6>4, <6>5
        <5> QED  BY <5>2, <5>3
      <4> QED  BY <2>1, <4>2, <4>3
    <3>12. PassedIsCollected'
      BY <3>1, <3>11 DEF PassedIsCollected
    <3> QED  BY <3>7, <3>8, <3>9, <3>10, <3>12
  <2> HIDE DEF Measurement
  <2> QED  BY <2>3, <2>4, <2>5, <2>6, <2>7, <2>8, <2>9 DEF Next, Buffering, Collecting
<1> HIDE DEF Measurement
<1> QED  BY <1>1, <1>2, TypeCorrect, PipelineInvariant, PTL DEF Spec

\* FreshAndDistinct: a measurement consists of distinct samples in the order of the
\* stream, received after it began, however the threads interleave.
THEOREM FreshAndDistinctHolds == Spec => []FreshAndDistinct
<1>1. Measurement => FreshAndDistinct
  <2> SUFFICES ASSUME Measurement, NEW i \in 1 .. Len(collected)
               PROVE  collected[i].time >= began
    BY DEF Measurement, CollectedInOrder, FreshAndDistinct
  <2> QED  BY DEF Measurement, CollectedBehind
<1> QED  BY <1>1, MeasurementInvariant, PTL

\* NothingSkipped: no sample between two samples of a measurement is left out, unless
\* it was evicted or shares its instant with an earlier frame.
THEOREM NothingSkippedHolds == Spec => []NothingSkipped
<1>1. TypeOK /\ Pipeline /\ Measurement => NothingSkipped
  <2> SUFFICES ASSUME TypeOK, Pipeline, Measurement, NEW f \in ToSet(pushed), f \in Valued,
                      f \notin ToSet(collected), f.time >= began, collected # << >>,
                      f.counter < Last(collected).counter, f \in ToSet(buffer)
               PROVE  \E g \in ToSet(pushed) : g.counter < f.counter /\ g.time = f.time
    BY DEF NothingSkipped
  <2>1. /\ pushed \in Seq(Frames) /\ collected \in Seq(Frames) /\ buffer \in Seq(Frames)
        /\ cursor \in Int /\ began \in Int
    BY StreamAssumption DEF TypeOK
  <2>2. Len(collected) \in 1 .. Len(collected) /\ Last(collected) = collected[Len(collected)]
    BY <2>1 DEF Last
  <2>3. PICK m \in 1 .. Len(pushed) : f = pushed[m]
    BY DEF ToSet
  <2>4. PICK l \in 1 .. Len(pushed) : Last(collected) = pushed[l] /\ pushed[l].time < cursor
    BY <2>2 DEF Measurement, CollectedBehind
  <2>5. /\ pushed[m].counter \in Nat /\ pushed[l].counter \in Nat
        /\ pushed[m].time \in Nat /\ pushed[l].time \in Nat
    <3>1. pushed[m] \in Frames /\ pushed[l] \in Frames
      BY <2>1
    <3> QED  BY <3>1 DEF Frames
  <2>6. pushed[m].counter < pushed[l].counter
    BY <2>3, <2>4
  <2>7. m < l
    <3>1. l < m => pushed[l].counter < pushed[m].counter
      BY DEF Pipeline, PushedInOrder
    <3>2. ~(l < m) /\ l # m
      BY <2>5, <2>6, <3>1
    <3> QED  BY <3>2
  <2>8. pushed[m].time <= pushed[l].time
    BY <2>7 DEF Pipeline, PushedInOrder
  <2>9. Passed(f)
    <3>1. began <= f.time /\ f.time < cursor
      BY <2>1, <2>3, <2>4, <2>5, <2>8
    <3>2. f.counter <= Last(collected).counter
      BY <2>3, <2>4, <2>5, <2>6
    <3> QED  BY <3>1, <3>2 DEF Passed
  <2>10. PICK b \in 1 .. Len(buffer) : f = buffer[b]
    BY <2>1 DEF ToSet
  <2>11. (\E k \in 1 .. Len(collected) : collected[k] = f) \/ Shared(f)
    BY <2>9, <2>10 DEF Measurement, PassedIsCollected
  <2>12. ~(\E k \in 1 .. Len(collected) : collected[k] = f)
    BY DEF ToSet
  <2>13. PICK k \in 1 .. Len(pushed) : pushed[k].counter < f.counter /\ pushed[k].time = f.time
    BY <2>11, <2>12 DEF Shared
  <2> QED  BY <2>13 DEF ToSet
<1> QED  BY <1>1, TypeCorrect, PipelineInvariant, MeasurementInvariant, PTL
=============================================================================
