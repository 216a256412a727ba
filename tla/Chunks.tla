------------------------------- MODULE Chunks -------------------------------
(***************************************************************************)
(* chunk_message of src/app/formatters.py, line by line.  A text is known  *)
(* by where its lines end: a sequence whose k-th element is the number of  *)
(* characters of lines 1 to k, each with the newline that ends it (the     *)
(* last line is counted as if it had one).  A chunk is the range of lines  *)
(* it joins.                                                               *)
(***************************************************************************)
EXTENDS Naturals, Sequences

CONSTANT Limit  \* TELEGRAM_MESSAGE_LIMIT

ASSUME LimitAssumption == Limit \in Nat \ {0}

VARIABLES
  text,     \* the text that is split, or <<>>
  next,     \* the next line of the loop
  first,    \* the buffer has the lines from here to next
  buf_len,  \* its length as the loop counts it
  chunks    \* of the text so far

chunkVars == <<text, next, first, buf_len, chunks>>

End(t, k) == IF k = 0 THEN 0 ELSE t[k]

\* What str.split returns has at least one line.
Text == {t \in Seq(Nat) : t # <<>> /\ \A k \in DOMAIN t : End(t, k - 1) < t[k]}

\* The number of characters of lines i to j joined by newlines.
Joined(t, i, j) == t[j] - End(t, i - 1) - 1

ChunksInit == text = <<>> /\ next = 1 /\ first = 1 /\ buf_len = 0 /\ chunks = <<>>
ClearText == text' = <<>> /\ next' = 1 /\ first' = 1 /\ buf_len' = 0 /\ chunks' = <<>>

\* A short text is its only chunk.
BeginText(t) ==
  /\ text' = t /\ buf_len' = 0
  /\ IF Joined(t, 1, Len(t)) <= Limit
     THEN next' = Len(t) + 1 /\ first' = Len(t) + 1 /\ chunks' = <<(<<1, Len(t)>>)>>
     ELSE next' = 1 /\ first' = 1 /\ chunks' = <<>>

LineLength == text[next] - End(text, next - 1)

\* The newlines are not counted (for the checks of the properties).
FullWithoutNewlines == buf_len + LineLength - (next - first + 1) > Limit /\ first < next

\* A chunk never fills the limit (for the checks of the properties).
FullTooSoon == buf_len + LineLength >= Limit /\ first < next

\* The joined chunk would have one character less: its last line has no newline.
Full == buf_len + LineLength > Limit /\ first < next

\* The line that did not fit is dropped (for the checks of the properties).
TakeLineDrops ==
  /\ next <= Len(text)
  /\ next' = next + 1
  /\ IF Full
     THEN chunks' = Append(chunks, <<first, next - 1>>) /\ first' = next + 1 /\ buf_len' = 0
     ELSE buf_len' = buf_len + LineLength /\ UNCHANGED <<first, chunks>>
  /\ UNCHANGED text

\* The length is not reset with the buffer (for the checks of the properties).
TakeLineKeepsLength ==
  /\ next <= Len(text)
  /\ next' = next + 1
  /\ buf_len' = buf_len + LineLength
  /\ IF Full
     THEN chunks' = Append(chunks, <<first, next - 1>>) /\ first' = next
     ELSE UNCHANGED <<first, chunks>>
  /\ UNCHANGED text

\* The loop's body.
TakeLine ==
  /\ next <= Len(text)
  /\ next' = next + 1
  /\ IF Full
     THEN chunks' = Append(chunks, <<first, next - 1>>) /\ first' = next /\ buf_len' = LineLength
     ELSE buf_len' = buf_len + LineLength /\ UNCHANGED <<first, chunks>>
  /\ UNCHANGED text

\* What is left in the buffer.
LastChunk ==
  /\ next > Len(text) /\ first < next
  /\ chunks' = Append(chunks, <<first, next - 1>>)
  /\ first' = next /\ buf_len' = 0
  /\ UNCHANGED <<text, next>>

Split == TakeLine \/ LastChunk
IsSplit == text # <<>> /\ first > Len(text)

\* Any text after any other.
ChunksNext == (\E t \in Text : BeginText(t)) \/ Split \/ ClearText
ChunksSpec == ChunksInit /\ [][ChunksNext]_chunkVars

-----------------------------------------------------------------------------
(* Properties *)

\* The chunks are the lines of the text in order, none lost and none twice
\* (formatters.py:117-128).
NothingLost ==
  /\ \A k \in DOMAIN chunks :
       /\ chunks[k][1] <= chunks[k][2]
       /\ chunks[k][1] = IF k = 1 THEN 1 ELSE chunks[k - 1][2] + 1
  /\ IsSplit => chunks # <<>> /\ chunks[Len(chunks)][2] = Len(text)

\* "chunks of at most limit chars", unless "one line on its own exceeds limit"
\* (formatters.py:105-111).
WithinLimit ==
  \A k \in DOMAIN chunks :
    Joined(text, chunks[k][1], chunks[k][2]) <= Limit \/ chunks[k][1] = chunks[k][2]

\* A chunk ends only where the next line would fill the message; since the loop
\* counts a newline too many (formatters.py:118-119) a message that would have
\* been exactly full is split as well.
NoNeedlessSplit ==
  \A k \in DOMAIN chunks :
    k > 1 => Joined(text, chunks[k - 1][1], chunks[k][1]) >= Limit

\* Telegram refuses an empty message, and with it the rest of the answer is lost.
\* Only an empty line that the text ends with, or that stands before a line of at
\* least Limit - 1 characters, can become one (formatters.py:119-121).
NoEmptyMessage ==
  \A k \in DOMAIN chunks :
    Joined(text, chunks[k][1], chunks[k][2]) = 0 =>
      \/ chunks[k][2] = Len(text)
      \/ chunks[k][2] < Len(text) /\ Joined(text, chunks[k][2] + 1, chunks[k][2] + 1) >= Limit - 1
=============================================================================
