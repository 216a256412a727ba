---------------------------- MODULE ChunksProofs ----------------------------
(***************************************************************************)
(* Proofs about Chunks, for every text and every limit.                    *)
(***************************************************************************)
EXTENDS Chunks, TLAPS

\* The loop's variables: the buffer has lines first to next - 1 of the text, and
\* buf_len counts them with a newline each.
BufferInv ==
  /\ text \in Text \cup {<<>>}
  /\ next \in 1 .. Len(text) + 1 /\ first \in 1 .. next
  /\ buf_len = End(text, next - 1) - End(text, first - 1)
  /\ buf_len >= next - first

\* The buffer is one line, or short enough to be sent.
BufferFits == buf_len <= Limit \/ next = first + 1

\* A chunk is a range of lines before the buffer.
ChunkTypes ==
  /\ chunks \in Seq(Nat \X Nat)
  /\ \A k \in DOMAIN chunks :
       chunks[k][1] \in 1 .. Len(text) /\ chunks[k][2] \in 1 .. Len(text)
         /\ chunks[k][1] <= chunks[k][2]

\* The chunks meet, and the buffer goes on where the last one ends.
Contiguous ==
  /\ \A k \in DOMAIN chunks :
       chunks[k][1] = IF k = 1 THEN 1 ELSE chunks[k - 1][2] + 1
  /\ chunks = <<>> => first = 1
  /\ chunks # <<>> => chunks[Len(chunks)][2] = first - 1

\* The line after the last chunk did not fit.
LastFull ==
  chunks # <<>> /\ first <= Len(text) =>
    Joined(text, chunks[Len(chunks)][1], first) >= Limit

ChunksInv ==
  /\ BufferInv /\ BufferFits
  /\ ChunkTypes /\ Contiguous /\ LastFull
  /\ WithinLimit /\ NoNeedlessSplit /\ NoEmptyMessage

\* The constant of formatters.py:16.
LEMMA LimitNat == Limit \in Nat /\ Limit >= 1
BY LimitAssumption

\* The k-th line ends somewhere, after the one before.
LEMMA EndsGrow ==
  ASSUME NEW t \in Text
  PROVE  /\ t \in Seq(Nat) /\ Len(t) \in Nat /\ Len(t) >= 1
         /\ \A k \in 0 .. Len(t) : End(t, k) \in Nat
         /\ \A k \in 1 .. Len(t) : End(t, k) = t[k] /\ End(t, k - 1) < t[k]
BY DEF Text, End

\* Where the loop is, in numbers.
LEMMA Position ==
  ASSUME BufferInv, text \in Text
  PROVE  /\ next \in Nat /\ first \in Nat /\ Len(text) \in Nat
         /\ 1 <= first /\ first <= next /\ next <= Len(text) + 1
         /\ End(text, next - 1) \in Nat /\ End(text, first - 1) \in Nat /\ buf_len \in Nat
         /\ buf_len = End(text, next - 1) - End(text, first - 1) /\ buf_len >= next - first
<1>1. /\ next \in Nat /\ first \in Nat /\ Len(text) \in Nat
      /\ 1 <= first /\ first <= next /\ next <= Len(text) + 1
  BY EndsGrow DEF BufferInv
<1>2. next - 1 \in 0 .. Len(text) /\ first - 1 \in 0 .. Len(text)
  BY <1>1
<1>3. End(text, next - 1) \in Nat /\ End(text, first - 1) \in Nat
  BY <1>2, EndsGrow
<1>4. buf_len = End(text, next - 1) - End(text, first - 1) /\ buf_len >= next - first
  BY DEF BufferInv
<1>5. next - first \in Nat /\ buf_len \in Nat
  BY <1>1, <1>3, <1>4
<1> QED BY <1>1, <1>3, <1>4, <1>5

\* And the line it has come to.
LEMMA NextLine ==
  ASSUME BufferInv, text \in Text, next <= Len(text)
  PROVE  /\ End(text, next) \in Nat /\ text[next] = End(text, next)
         /\ LineLength \in Nat /\ LineLength >= 1
         /\ LineLength = End(text, next) - End(text, next - 1)
         /\ buf_len + LineLength = End(text, next) - End(text, first - 1)
<1>1. next \in 1 .. Len(text) /\ next \in 0 .. Len(text)
  BY Position
<1>2. End(text, next) \in Nat /\ End(text, next) = text[next] /\ End(text, next - 1) < text[next]
  BY <1>1, EndsGrow
<1>3. End(text, next - 1) \in Nat /\ End(text, first - 1) \in Nat
      /\ buf_len = End(text, next - 1) - End(text, first - 1)
  BY Position
<1> QED BY <1>2, <1>3 DEF LineLength

-----------------------------------------------------------------------------

\* What a chunk adds, whether the loop or the last line of chunk_message does
\* (formatters.py:119-122, 126-127).
LEMMA Pushed ==
  ASSUME ChunksInv, text \in Text, text' = text, first < next, first' = next,
         chunks' = Append(chunks, <<first, next - 1>>),
         next <= Len(text) => buf_len + LineLength > Limit
  PROVE  ChunkTypes' /\ Contiguous' /\ LastFull'
           /\ WithinLimit' /\ NoNeedlessSplit' /\ NoEmptyMessage'
<1> DEFINE n == Len(chunks)
<1>0. BufferInv
  BY DEF ChunksInv
<1>1. /\ next \in 1 .. Len(text) + 1 /\ first \in 1 .. Len(text)
      /\ first \in Nat /\ next \in Nat /\ next - 1 \in 1 .. Len(text)
      /\ Len(text) \in Nat
  BY <1>0, Position
<1>2. /\ chunks \in Seq(Nat \X Nat) /\ n \in Nat /\ DOMAIN chunks = 1 .. n
      /\ DOMAIN chunks' = 1 .. (n + 1) /\ Len(chunks') = n + 1
      /\ chunks' \in Seq(Nat \X Nat)
      /\ \A k \in 1 .. n : chunks'[k] = chunks[k]
      /\ chunks'[n + 1] = <<first, next - 1>>
  BY <1>1 DEF ChunksInv, ChunkTypes
<1>3. chunks'[n + 1][1] = first /\ chunks'[n + 1][2] = next - 1
  BY <1>2
<1>4. Joined(text, first, next - 1) = buf_len - 1
  <2>1. End(text, next - 1) = text[next - 1]
    BY <1>1, EndsGrow
  <2> QED BY <2>1, <1>0, Position DEF Joined
<1>5. n > 0 <=> chunks # <<>>
  BY <1>2
<1>6. ChunkTypes'
  <2>1. \A k \in 1 .. n :
          chunks[k][1] \in 1 .. Len(text) /\ chunks[k][2] \in 1 .. Len(text) /\ chunks[k][1] <= chunks[k][2]
    BY <1>2 DEF ChunksInv, ChunkTypes
  <2>2. first <= next - 1
    BY <1>1
  <2>3. \A k \in 1 .. (n + 1) : k \in 1 .. n \/ k = n + 1
    BY <1>2
  <2> QED
    BY <2>1, <2>2, <2>3, <1>1, <1>2, <1>3 DEF ChunkTypes
<1>7. Contiguous'
  <2>1. \A k \in 1 .. n : chunks[k][1] = IF k = 1 THEN 1 ELSE chunks[k - 1][2] + 1
    BY <1>2 DEF ChunksInv, Contiguous
  <2>2. IF n = 0 THEN first = 1 ELSE chunks[n][2] + 1 = first
    <3>1. chunks = <<>> => first = 1
      BY DEF ChunksInv, Contiguous
    <3>2. ASSUME chunks # <<>> PROVE chunks[n][2] = first - 1
      BY <3>2 DEF ChunksInv, Contiguous
    <3> QED BY <3>1, <3>2, <1>1, <1>2, <1>5
  <2>3. \A k \in 1 .. (n + 1) : chunks'[k][1] = IF k = 1 THEN 1 ELSE chunks'[k - 1][2] + 1
    <3> TAKE k \in 1 .. (n + 1)
    <3>1. CASE k \in 1 .. n
      <4>1. k # 1 => k - 1 \in 1 .. n
        BY <3>1, <1>2
      <4> QED BY <4>1, <3>1, <2>1, <1>2
    <3>2. CASE k = n + 1
      <4>1. CASE n = 0
        BY <4>1, <3>2, <2>2, <1>3
      <4>2. CASE n # 0
        <5>1. n \in Nat /\ \A i \in 1 .. n : chunks'[i] = chunks[i]
          BY <1>2
        <5> HIDE DEF n
        <5>2. n \in 1 .. n /\ k - 1 = n /\ k # 1
          BY <5>1, <4>2, <3>2
        <5> QED BY <5>1, <5>2, <4>2, <3>2, <2>2, <1>3
      <4> QED BY <4>1, <4>2
    <3> QED BY <3>1, <3>2, <1>2
  <2>4. chunks' # <<>> /\ chunks'[Len(chunks')][2] = next - 1
    BY <1>2, <1>3
  <2> QED BY <2>3, <2>4, <1>2 DEF Contiguous
<1>8. LastFull'
  <2>1. next <= Len(text) => Joined(text, first, next) >= Limit
    <3> SUFFICES ASSUME next <= Len(text) PROVE Joined(text, first, next) >= Limit
      OBVIOUS
    <3>1. End(text, next) \in Nat /\ End(text, first - 1) \in Nat /\ text[next] = End(text, next)
          /\ buf_len + LineLength = End(text, next) - End(text, first - 1)
      BY <1>0, Position, NextLine
    <3>2. End(text, next) - End(text, first - 1) > Limit
      BY <3>1
    <3> QED BY <3>1, <3>2, LimitNat DEF Joined
  <2> QED BY <2>1, <1>2, <1>3 DEF LastFull
<1>9. WithinLimit'
  <2>1. \A k \in 1 .. n :
          Joined(text, chunks[k][1], chunks[k][2]) <= Limit \/ chunks[k][1] = chunks[k][2]
    BY <1>2 DEF ChunksInv, WithinLimit
  <2>2. Joined(text, first, next - 1) <= Limit \/ first = next - 1
    BY <1>1, <1>4, LimitNat, EndsGrow DEF ChunksInv, BufferInv, BufferFits
  <2>3. \A k \in 1 .. (n + 1) : k \in 1 .. n \/ k = n + 1
    BY <1>2
  <2> QED BY <2>1, <2>2, <2>3, <1>2, <1>3 DEF WithinLimit
<1>10. NoNeedlessSplit'
  <2>1. \A k \in 1 .. n : k > 1 => Joined(text, chunks[k - 1][1], chunks[k][1]) >= Limit
    BY <1>2 DEF ChunksInv, NoNeedlessSplit
  <2>2. n > 0 => Joined(text, chunks[n][1], first) >= Limit
    BY <1>1, <1>2, <1>5 DEF ChunksInv, LastFull
  <2>3. \A k \in 1 .. (n + 1) : k > 1 => Joined(text, chunks'[k - 1][1], chunks'[k][1]) >= Limit
    <3> TAKE k \in 1 .. (n + 1)
    <3> HAVE k > 1
    <3>1. k - 1 \in 1 .. n /\ chunks'[k - 1] = chunks[k - 1]
      BY <1>2
    <3>2. CASE k \in 1 .. n
      BY <3>1, <3>2, <2>1, <1>2
    <3>3. CASE k = n + 1
      <4>1. k - 1 = n /\ n > 0
        BY <3>3, <1>2
      <4> HIDE DEF n
      <4> QED BY <4>1, <3>1, <3>3, <2>2, <1>3
    <3>4. k \in 1 .. n \/ k = n + 1
      BY <1>2
    <3> QED BY <3>2, <3>3, <3>4
  <2> QED BY <2>3, <1>2 DEF NoNeedlessSplit
<1>11. NoEmptyMessage'
  <2> DEFINE Fine(c) ==
        Joined(text, c[1], c[2]) = 0 =>
          \/ c[2] = Len(text)
          \/ c[2] < Len(text) /\ Joined(text, c[2] + 1, c[2] + 1) >= Limit - 1
  <2>1. \A k \in 1 .. n : Fine(chunks[k])
    BY <1>2 DEF ChunksInv, NoEmptyMessage
  <2>2. Fine(<<first, next - 1>>)
    <3> SUFFICES ASSUME buf_len = 1, next <= Len(text)
                 PROVE  Joined(text, next, next) >= Limit - 1
      <4>1. (next - 1) + 1 = next /\ (next - 1 < Len(text) <=> next <= Len(text))
             /\ (next - 1 = Len(text) <=> ~(next <= Len(text)))
        BY <1>1
      <4>2. Joined(text, first, next - 1) = 0 => buf_len = 1
        BY <1>4, <1>0, Position
      <4> QED BY <4>1, <4>2
    <3>1. /\ End(text, next) \in Nat /\ End(text, next - 1) \in Nat /\ text[next] = End(text, next)
          /\ LineLength \in Nat /\ LineLength = End(text, next) - End(text, next - 1)
      BY <1>0, Position, NextLine
    <3>2. LineLength >= Limit
      BY <3>1, LimitNat
    <3> QED BY <3>1, <3>2, LimitNat DEF Joined
  <2>3. \A k \in 1 .. (n + 1) : Fine(chunks'[k])
    BY <2>1, <2>2, <1>2
  <2> QED BY <2>3, <1>2 DEF NoEmptyMessage
<1> QED BY <1>6, <1>7, <1>8, <1>9, <1>10, <1>11

-----------------------------------------------------------------------------

LEMMA ChunksInvInit == ASSUME ChunksInit PROVE ChunksInv
BY LimitNat DEF ChunksInit, ChunksInv, BufferInv, BufferFits, ChunkTypes, Contiguous, LastFull,
   WithinLimit, NoNeedlessSplit, NoEmptyMessage, End

\* An answer to the next command (formatters.py:112-116).
LEMMA BeginTextKeeps == ASSUME NEW t \in Text, BeginText(t) PROVE ChunksInv'
<1>1. BufferInv' /\ BufferFits'
  BY EndsGrow, LimitNat DEF BeginText, BufferInv, BufferFits, End
<1>2. CASE Joined(t, 1, Len(t)) <= Limit
  <2>1. chunks' = <<(<<1, Len(t)>>)>> /\ first' = Len(t) + 1 /\ text' = t
    BY <1>2 DEF BeginText
  <2>2. DOMAIN chunks' = {1} /\ Len(chunks') = 1 /\ chunks'[1][1] = 1 /\ chunks'[1][2] = Len(t)
    BY <2>1
  <2>3. chunks' \in Seq(Nat \X Nat)
    BY <2>1, EndsGrow
  <2>4. ChunkTypes'
    BY <2>1, <2>2, <2>3, EndsGrow DEF ChunkTypes
  <2>5. Contiguous' /\ LastFull'
    BY <2>1, <2>2, EndsGrow DEF Contiguous, LastFull
  <2>6. WithinLimit' /\ NoNeedlessSplit' /\ NoEmptyMessage'
    BY <1>2, <2>1, <2>2 DEF WithinLimit, NoNeedlessSplit, NoEmptyMessage
  <2> QED BY <1>1, <2>4, <2>5, <2>6 DEF ChunksInv
<1>3. CASE ~(Joined(t, 1, Len(t)) <= Limit)
  <2>1. chunks' = <<>> /\ first' = 1 /\ text' = t
    BY <1>3 DEF BeginText
  <2> QED
    BY <1>1, <2>1 DEF ChunksInv, ChunkTypes, Contiguous, LastFull,
       WithinLimit, NoNeedlessSplit, NoEmptyMessage
<1> QED BY <1>2, <1>3

LEMMA TakeLineKeeps == ASSUME ChunksInv, TakeLine PROVE ChunksInv'
<1>1. text \in Text /\ text' = text /\ next <= Len(text) /\ next' = next + 1
  BY DEF ChunksInv, BufferInv, TakeLine
<1>0. BufferInv
  BY DEF ChunksInv
<1>2. /\ LineLength \in Nat /\ LineLength >= 1 /\ LineLength = End(text, next) - End(text, next - 1)
      /\ End(text, next) \in Nat /\ buf_len + LineLength = End(text, next) - End(text, first - 1)
  BY <1>0, <1>1, NextLine
<1>5. /\ next \in Nat /\ first \in Nat /\ Len(text) \in Nat
      /\ 1 <= first /\ first <= next /\ next <= Len(text) + 1
      /\ End(text, next - 1) \in Nat /\ End(text, first - 1) \in Nat /\ buf_len \in Nat
      /\ buf_len >= next - first
  BY <1>0, <1>1, Position
<1>3. CASE Full
  <2>1. chunks' = Append(chunks, <<first, next - 1>>) /\ first' = next /\ buf_len' = LineLength
    BY <1>3 DEF TakeLine
  <2>2. first < next /\ buf_len + LineLength > Limit
    BY <1>3 DEF Full
  <2>3. BufferInv' /\ BufferFits'
    <3>1. next' - 1 = next /\ first' - 1 = next - 1 /\ next' - first' = 1
           /\ first' \in 1 .. next' /\ next' \in 1 .. Len(text) + 1
      BY <1>1, <1>5, <2>1
    <3> QED BY <3>1, <1>1, <1>2, <2>1 DEF BufferInv, BufferFits
  <2>4. ChunkTypes' /\ Contiguous' /\ LastFull' /\ WithinLimit' /\ NoNeedlessSplit' /\ NoEmptyMessage'
    BY <1>1, <2>1, <2>2, Pushed
  <2> QED BY <2>3, <2>4 DEF ChunksInv
<1>4. CASE ~Full
  <2>1. chunks' = chunks /\ first' = first /\ buf_len' = buf_len + LineLength
    BY <1>4 DEF TakeLine
  <2>2. buf_len + LineLength <= Limit \/ next = first
    BY <1>1, <1>2, <1>4, <1>5, LimitNat DEF Full
  <2>3. next' - 1 = next /\ first' \in 1 .. next' /\ next' \in 1 .. Len(text) + 1
    BY <1>1, <1>5, <2>1
  <2>4. BufferInv'
    <3>1. buf_len' = End(text, next) - End(text, first - 1) /\ buf_len' >= next' - first
      BY <1>1, <1>2, <1>5, <2>1
    <3> QED BY <3>1, <2>1, <2>3, <1>1 DEF BufferInv
  <2>5. BufferFits'
    BY <1>1, <1>5, <2>1, <2>2 DEF BufferFits
  <2> QED
    BY <1>1, <2>1, <2>4, <2>5 DEF ChunksInv, ChunkTypes, Contiguous, LastFull,
       WithinLimit, NoNeedlessSplit, NoEmptyMessage
<1> QED BY <1>3, <1>4

LEMMA LastChunkKeeps == ASSUME ChunksInv, LastChunk PROVE ChunksInv'
<1>1. /\ next > Len(text) /\ first < next /\ text' = text /\ next' = next
      /\ chunks' = Append(chunks, <<first, next - 1>>) /\ first' = next /\ buf_len' = 0
  BY DEF LastChunk
<1>2. text \in Text
  BY <1>1 DEF ChunksInv, BufferInv
<1>3. ~(next <= Len(text))
  BY <1>1, <1>2, EndsGrow DEF ChunksInv, BufferInv
<1>4. BufferInv' /\ BufferFits'
  <2>1. next - 1 \in 0 .. Len(text) /\ End(text, next - 1) \in Nat /\ next \in Nat
    BY <1>2, Position DEF ChunksInv
  <2>2. next \in 1 .. Len(text) + 1
    BY DEF ChunksInv, BufferInv
  <2>3. End(text, next - 1) - End(text, next - 1) = 0 /\ next - next = 0 /\ next \in 1 .. next
    BY <2>1, <2>2
  <2> QED BY <1>1, <1>2, <2>1, <2>2, <2>3, LimitNat DEF BufferInv, BufferFits
<1>5. ChunkTypes' /\ Contiguous' /\ LastFull' /\ WithinLimit' /\ NoNeedlessSplit' /\ NoEmptyMessage'
  BY <1>1, <1>2, <1>3, Pushed
<1> QED BY <1>4, <1>5 DEF ChunksInv

LEMMA ChunksInvNext == ASSUME ChunksInv, [ChunksNext]_chunkVars PROVE ChunksInv'
<1>1. CASE \E t \in Text : BeginText(t)
  BY <1>1, BeginTextKeeps
<1>2. CASE TakeLine
  BY <1>2, TakeLineKeeps
<1>3. CASE LastChunk
  BY <1>3, LastChunkKeeps
<1>4. CASE ClearText
  BY <1>4, LimitNat DEF ClearText, ChunksInv, BufferInv, BufferFits, ChunkTypes, Contiguous, LastFull,
     WithinLimit, NoNeedlessSplit, NoEmptyMessage, End
<1>5. CASE UNCHANGED chunkVars
  BY <1>5 DEF chunkVars, ChunksInv, BufferInv, BufferFits, ChunkTypes, Contiguous, LastFull,
     WithinLimit, NoNeedlessSplit, NoEmptyMessage, Joined
<1> QED BY <1>1, <1>2, <1>3, <1>4, <1>5 DEF ChunksNext, Split

LEMMA ChunksAlways == ChunksSpec => []ChunksInv
BY ChunksInvInit, ChunksInvNext, PTL DEF ChunksSpec

\* When the loop is over, the last chunk ends where the text does.
LEMMA InvImpliesNothingLost == ASSUME ChunksInv PROVE NothingLost
<1>1. \A k \in DOMAIN chunks :
        chunks[k][1] <= chunks[k][2] /\ chunks[k][1] = IF k = 1 THEN 1 ELSE chunks[k - 1][2] + 1
  BY DEF ChunksInv, ChunkTypes, Contiguous
<1>2. ASSUME IsSplit PROVE chunks # <<>> /\ chunks[Len(chunks)][2] = Len(text)
  <2>1. text \in Text /\ first > Len(text)
    BY <1>2 DEF IsSplit, ChunksInv, BufferInv
  <2>2. first = Len(text) + 1 /\ first > 1
    BY <2>1, EndsGrow DEF ChunksInv, BufferInv
  <2> QED BY <2>2, <2>1, EndsGrow DEF ChunksInv, Contiguous
<1> QED BY <1>1, <1>2 DEF NothingLost

-----------------------------------------------------------------------------

\* For any sequence of texts and any limit, the chunks of a text are its lines in
\* order, none lost and none twice.
THEOREM ChunksNothingLost == ChunksSpec => []NothingLost
BY ChunksAlways, InvImpliesNothingLost, PTL

\* No chunk of two lines or more is longer than the limit.
THEOREM ChunksWithinLimit == ChunksSpec => []WithinLimit
<1>1. ChunksInv => WithinLimit
  BY DEF ChunksInv
<1> QED BY <1>1, ChunksAlways, PTL

\* A text is split only where a message would have been full.
THEOREM ChunksNoNeedlessSplit == ChunksSpec => []NoNeedlessSplit
<1>1. ChunksInv => NoNeedlessSplit
  BY DEF ChunksInv
<1> QED BY <1>1, ChunksAlways, PTL

\* An empty chunk is a last line, or stands before one that nearly fills a message.
THEOREM ChunksNoEmptyMessage == ChunksSpec => []NoEmptyMessage
<1>1. ChunksInv => NoEmptyMessage
  BY DEF ChunksInv
<1> QED BY <1>1, ChunksAlways, PTL
=============================================================================
