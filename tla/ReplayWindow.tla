---------------------------- MODULE ReplayWindow ----------------------------
(***************************************************************************)
(* The L0 replay filter (src/src/pkg/l0/anti_replay.go) down to the words  *)
(* of its bitmap, and the shift of the L1 trackers beside it               *)
(* (shiftWindow in src/src/pkg/l1/anti_replay_session.go).  A word is the  *)
(* set of its bits that are 1, so << and >> move the members and drop the  *)
(* ones that leave the word, and | is union.  The filter is one mutex-     *)
(* protected call, hence one action; the two metric counters, which no     *)
(* decision reads, are left out.                                           *)
(***************************************************************************)
EXTENDS Integers

CONSTANTS SeqNo,    \* sequence numbers presented to the filter
          Words,    \* words of the bitmap (16 in the code)
          WordBits  \* bits of a word (64 in the code)

ASSUME ReplayWindowAssumption ==
    SeqNo \subseteq Nat /\ Words \in Nat \ {0} /\ WordBits \in Nat \ {0}

VARIABLES lastSeq, bitmap,
          count   \* history: how often each number was accepted

windowVars == <<lastSeq, bitmap, count>>

WindowSize == Words * WordBits
WordIndex == 0 .. Words - 1
Bit == 0 .. WordBits - 1
Zero == [i \in WordIndex |-> {}]

WindowTypeOK ==
    /\ lastSeq \in SeqNo \cup {0}
    /\ bitmap \in [WordIndex -> SUBSET Bit]
    /\ count \in [SeqNo -> Nat]

WindowInit ==
    /\ lastSeq = 0
    /\ bitmap = Zero
    /\ count = [q \in SeqNo |-> 0]
-----------------------------------------------------------------------------
Left(word, n) == {b + n : b \in word} \cap Bit
Right(word, n) == {b - n : b \in word} \cap Bit

\* The in-place loops run from the top word down, each round reading a lower
\* word that is not written yet.  A recursive function of the rounds done.
WordRounds(bm, n) ==
    LET after[k \in 0 .. Words - n] ==
            IF k = 0 THEN bm
            ELSE [after[k - 1] EXCEPT ![Words - k] = after[k - 1][Words - k - n]]
    IN  after

MoveWords(bm, n) ==
    LET moved == WordRounds(bm, n)[Words - n]
    IN  [i \in WordIndex |-> IF i < n THEN {} ELSE moved[i]]

BitRounds(bm, n) ==
    LET after[k \in 0 .. Words - 1] ==
            IF k = 0 THEN bm
            ELSE [after[k - 1] EXCEPT ![Words - k] =
                     Left(@, n) \cup Right(after[k - 1][Words - k - 1], WordBits - n)]
    IN  after

\* Mutant: nothing is carried from one word to the next.
MoveBitsNoCarry(bm, n) == [i \in WordIndex |-> Left(bm[i], n)]

MoveBits(bm, n) == [BitRounds(bm, n)[Words - 1] EXCEPT ![0] = Left(@, n)]

ShiftLeft(bm, diff) ==
    LET words == diff \div WordBits
        bits == diff % WordBits
    IN  IF words >= Words THEN Zero
        ELSE IF bits = 0 THEN MoveWords(bm, words)
        ELSE MoveBits(MoveWords(bm, words), bits)

\* L1 builds the shifted bitmap in a new slice instead.
ShiftWindow(bm, shift) ==
    LET words == shift \div WordBits
        bits == shift % WordBits
        Word(i) == IF i >= 0 THEN bm[i] ELSE {}
    IN  IF shift >= WindowSize THEN Zero
        ELSE [i \in WordIndex |->
                Left(Word(i - words), bits)
                \cup IF bits > 0 THEN Right(Word(i - words - 1), WordBits - bits)
                     ELSE {}]

SetBit(bm, offset) ==
    [bm EXCEPT ![offset \div WordBits] = @ \cup {offset % WordBits}]

IsSet(bm, offset) == offset % WordBits \in bm[offset \div WordBits]
-----------------------------------------------------------------------------
Accepted(seq) == count' = [count EXCEPT ![seq] = @ + 1]

\* Mutant: every advance forgets the numbers behind it.
AcceptNewestAlone(seq) ==
    /\ seq > lastSeq
    /\ bitmap' = SetBit(Zero, 0)
    /\ lastSeq' = seq
    /\ Accepted(seq)

AcceptNewest(seq) ==
    /\ seq > lastSeq
    /\ bitmap' = IF seq - lastSeq >= WindowSize THEN SetBit(Zero, 0)
                 ELSE SetBit(ShiftLeft(bitmap, seq - lastSeq), 0)
    /\ lastSeq' = seq
    /\ Accepted(seq)

AcceptLate(seq) ==
    /\ seq <= lastSeq
    /\ lastSeq - seq < WindowSize
    /\ ~IsSet(bitmap, lastSeq - seq)
    /\ bitmap' = SetBit(bitmap, lastSeq - seq)
    /\ Accepted(seq)
    /\ UNCHANGED lastSeq

Reject(seq) ==
    /\ seq <= lastSeq
    /\ lastSeq - seq < WindowSize => IsSet(bitmap, lastSeq - seq)
    /\ UNCHANGED windowVars

ValidateAndUpdate(seq) == AcceptNewest(seq) \/ AcceptLate(seq) \/ Reject(seq)

WindowNext == \E seq \in SeqNo : ValidateAndUpdate(seq)

WindowSpec == WindowInit /\ [][WindowNext]_windowVars
-----------------------------------------------------------------------------
\* Across word boundaries as inside a word, the bitmap holds exactly the
\* accepted numbers the window covers (shiftLeft, ValidateAndUpdate).
BitmapExact ==
    \A q \in SeqNo :
      (q <= lastSeq /\ lastSeq - q < WindowSize)
      => (count[q] > 0 <=> IsSet(bitmap, lastSeq - q))

\* The two layers shift every bitmap alike, by every distance, although one
\* does it in place and the other in a copy (shiftLeft, shiftWindow).
ShiftsAgree ==
    \A n \in 0 .. WindowSize + 1 : ShiftLeft(bitmap, n) = ShiftWindow(bitmap, n)

\* The filter implements the abstract window: no number is accepted twice, nor
\* after it fell out of the window.
Window == INSTANCE SlidingWindow
ImplementsWindow == Window!Spec
=============================================================================
