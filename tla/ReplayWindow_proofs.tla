------------------------ MODULE ReplayWindow_proofs ------------------------
(***************************************************************************)
(* Proofs about the L0 replay window, for every number and width of words: *)
(* the in-place loops of shiftLeft compute what shiftWindow of L1 does,    *)
(* both move each bit to where its number is after the advance, the bitmap *)
(* is exact, and the filter implements the abstract window.                *)
(***************************************************************************)
EXTENDS ReplayWindow, WellFoundedInduction, NaturalsInduction, TLAPS

Bitmaps == [WordIndex -> SUBSET Bit]

-----------------------------------------------------------------------------
\* Induction over the natural numbers, for a set.
LEMMA AllAreReached ==
    ASSUME NEW S, S \subseteq Nat, 0 \in S, \A n \in S : n + 1 \in S
    PROVE  Nat \subseteq S
<1> DEFINE T == Nat \ S
           R == {ss \in Nat \X Nat : ss[1] < ss[2]}
<1>1. IsWellFoundedOn(R, Nat)
    BY NatLessThanWellFounded, Zenon DEF OpToRel
<1>2. CASE T # {}
  <2>1. T \subseteq Nat
      OBVIOUS
  <2>2. \E x \in T : \A y \in T : ~ (<<y, x>> \in R)
    <3> HIDE DEF T, R
    <3> QED BY <1>1, <1>2, <2>1, WFMin, Zenon
  <2>3. PICK x \in T : \A y \in T : ~ (<<y, x>> \in R)
      BY <2>2
  <2>4. x # 0 /\ x - 1 \in Nat /\ <<x - 1, x>> \in R
      OBVIOUS
  <2>5. x - 1 \in S
      BY <2>3, <2>4
  <2>6. (x - 1) + 1 \in S
      BY <2>5
  <2> QED BY <2>4, <2>6
<1>3. CASE T = {}
    BY <1>3
<1> QED BY <1>2, <1>3

-----------------------------------------------------------------------------
(* Numbers as words and bits. *)

\* An offset is so many words and so many bits.
LEMMA WordsAndBits ==
    ASSUME NEW n \in Nat, NEW d \in Nat \ {0}
    PROVE  /\ n \div d \in Nat
           /\ n % d \in 0 .. d - 1
           /\ n = d * (n \div d) + (n % d)
OBVIOUS

LEMMA MoreWords ==
    ASSUME NEW d \in Nat \ {0}, NEW x \in Int, NEW y \in Int, x <= y
    PROVE  d * x <= d * y
OBVIOUS

\* There is one way to write an offset so.
LEMMA OneWay ==
    ASSUME NEW d \in Nat \ {0}, NEW x \in Int, NEW y \in Int,
           NEW r \in 0 .. d - 1, NEW s \in 0 .. d - 1, d * x + r = d * y + s
    PROVE  x = y /\ r = s
<1>1. CASE x < y
  <2>1. d * (x + 1) <= d * y
      BY <1>1, MoreWords
  <2>2. d * (x + 1) = d * x + d
      OBVIOUS
  <2> QED BY <2>1, <2>2
<1>2. CASE y < x
  <2>1. d * (y + 1) <= d * x
      BY <1>2, MoreWords
  <2>2. d * (y + 1) = d * y + d
      OBVIOUS
  <2> QED BY <2>1, <2>2
<1> QED BY <1>1, <1>2

\* The offsets of the window are those whose word the bitmap has.
LEMMA OffsetsOfTheWindow ==
    ASSUME NEW n \in Nat
    PROVE  /\ WindowSize \in Nat \ {0}
           /\ n \div WordBits \in Nat /\ n % WordBits \in Bit
           /\ n = WordBits * (n \div WordBits) + (n % WordBits)
           /\ n < WindowSize <=> n \div WordBits \in WordIndex
<1> DEFINE w == n \div WordBits
           r == n % WordBits
<1>1. WordBits \in Nat \ {0} /\ Words \in Nat \ {0}
    BY ReplayWindowAssumption
<1>2. w \in Nat /\ r \in 0 .. WordBits - 1 /\ n = WordBits * w + r
    BY <1>1, WordsAndBits
<1>3. WindowSize = WordBits * Words /\ WindowSize \in Nat \ {0}
    BY <1>1 DEF WindowSize
<1> HIDE DEF w, r
<1>4. CASE w < Words
  <2>1. WordBits * (w + 1) <= WordBits * Words
      BY <1>1, <1>2, <1>4, MoreWords
  <2>2. WordBits * (w + 1) = WordBits * w + WordBits
      BY <1>1, <1>2
  <2> QED BY <1>1, <1>2, <1>3, <1>4, <2>1, <2>2 DEF w, r, Bit, WordIndex
<1>5. CASE w >= Words
  <2>1. WordBits * Words <= WordBits * w
      BY <1>1, <1>2, <1>5, MoreWords
  <2> QED BY <1>1, <1>2, <1>3, <1>5, <2>1 DEF w, r, Bit, WordIndex
<1> QED BY <1>1, <1>2, <1>4, <1>5

(* The loops of shiftLeft. *)

\* What the loop over whole words has done after k of its rounds.
MovedWords(bm, n, k) == [i \in WordIndex |-> IF i >= Words - k THEN bm[i - n] ELSE bm[i]]

IsWordLoop(f, bm, n) ==
    f = [k \in 0 .. Words - n |->
            IF k = 0 THEN bm
            ELSE [f[k - 1] EXCEPT ![Words - k] = f[k - 1][Words - k - n]]]

LEMMA WordLoop ==
    ASSUME NEW bm \in Bitmaps, NEW n \in 0 .. Words - 1
    PROVE  /\ IsWordLoop(WordRounds(bm, n), bm, n)
           /\ \A k \in 0 .. Words - n : WordRounds(bm, n)[k] = MovedWords(bm, n, k)
<1>1. Words \in Nat \ {0}
    BY ReplayWindowAssumption
<1> DEFINE g == [k \in 0 .. Words - n |-> MovedWords(bm, n, k)]
<1>2. \A k \in 0 .. Words - n : k # 0 =>
         MovedWords(bm, n, k)
         = [MovedWords(bm, n, k - 1) EXCEPT ![Words - k] = MovedWords(bm, n, k - 1)[Words - k - n]]
  <2> SUFFICES ASSUME NEW k \in 1 .. Words - n
               PROVE  MovedWords(bm, n, k)
                      = [MovedWords(bm, n, k - 1) EXCEPT
                            ![Words - k] = MovedWords(bm, n, k - 1)[Words - k - n]]
      BY <1>1
  <2> DEFINE old == MovedWords(bm, n, k - 1)
  <2>1. Words - k \in WordIndex /\ Words - k - n \in WordIndex
      BY <1>1 DEF WordIndex
  <2>2. old[Words - k - n] = bm[Words - k - n]
      BY <1>1, <2>1 DEF MovedWords, WordIndex
  <2>3. \A i \in WordIndex : i # Words - k => MovedWords(bm, n, k)[i] = old[i]
      BY <1>1 DEF MovedWords, WordIndex
  <2>4. MovedWords(bm, n, k)[Words - k] = bm[Words - k - n]
      BY <1>1, <2>1 DEF MovedWords, WordIndex
  <2>5. /\ old = [i \in WordIndex |-> old[i]]
        /\ MovedWords(bm, n, k) = [i \in WordIndex |-> MovedWords(bm, n, k)[i]]
      BY DEF MovedWords
  <2> HIDE DEF old
  <2> QED BY <2>1, <2>2, <2>3, <2>4, <2>5 DEF old
<1>3. MovedWords(bm, n, 0) = bm
    BY <1>1 DEF MovedWords, WordIndex, Bitmaps
<1>4. IsWordLoop(g, bm, n)
  <2>1. \A k \in 0 .. Words - n : k # 0 => k - 1 \in 0 .. Words - n
      BY <1>1
  <2>2. \A k \in 0 .. Words - n : k # 0 => g[k - 1] = MovedWords(bm, n, k - 1)
      BY <2>1
  <2>3. \A k \in 0 .. Words - n :
           MovedWords(bm, n, k) = IF k = 0 THEN bm
               ELSE [g[k - 1] EXCEPT ![Words - k] = g[k - 1][Words - k - n]]
      BY <1>2, <1>3, <2>2
  <2> QED BY <2>3 DEF IsWordLoop
<1>5. IsWordLoop(WordRounds(bm, n), bm, n)
  <2> HIDE DEF g
  <2>1. WordRounds(bm, n) = CHOOSE f : IsWordLoop(f, bm, n)
      BY DEF WordRounds, IsWordLoop
  <2> QED BY <1>4, <2>1, Zenon
<1>6. \A k \in 0 .. Words - n : WordRounds(bm, n)[k] = MovedWords(bm, n, k)
  <2> DEFINE f == WordRounds(bm, n)
             S == {k \in Nat : k <= Words - n => f[k] = MovedWords(bm, n, k)}
  <2>1. \A k \in 0 .. Words - n :
           f[k] = IF k = 0 THEN bm ELSE [f[k - 1] EXCEPT ![Words - k] = f[k - 1][Words - k - n]]
    <3> HIDE DEF f
    <3>1. IsWordLoop(f, bm, n)
        BY <1>5 DEF f
    <3> QED BY <3>1 DEF IsWordLoop
  <2> HIDE DEF f
  <2>2. 0 \in S
    <3>1. 0 \in 0 .. Words - n
        BY <1>1
    <3> QED BY <1>3, <2>1, <3>1
  <2>3. ASSUME NEW k \in S
        PROVE  k + 1 \in S
    <3>1. k \in Nat /\ k + 1 \in Nat /\ (k + 1) - 1 = k
        OBVIOUS
    <3>2. CASE k + 1 <= Words - n
      <4>1. k + 1 \in 0 .. Words - n /\ k + 1 # 0 /\ f[k] = MovedWords(bm, n, k)
          BY <1>1, <3>1, <3>2
      <4>2. f[k + 1] = [f[k] EXCEPT ![Words - (k + 1)] = f[k][Words - (k + 1) - n]]
          BY <2>1, <3>1, <4>1
      <4> QED BY <1>2, <3>1, <4>1, <4>2
    <3> QED BY <1>1, <3>1, <3>2
  <2>4. Nat \subseteq S
    <3> HIDE DEF S
    <3>1. S \subseteq Nat
        BY DEF S
    <3> QED BY <2>2, <2>3, <3>1, AllAreReached
  <2> QED BY <1>1, <2>4 DEF f
<1> QED BY <1>5, <1>6

LEMMA WordsAreMoved ==
    ASSUME NEW bm \in Bitmaps, NEW n \in 0 .. Words - 1
    PROVE  MoveWords(bm, n) = [i \in WordIndex |-> IF i < n THEN {} ELSE bm[i - n]]
<1>1. Words \in Nat \ {0} /\ Words - n \in 0 .. Words - n
    BY ReplayWindowAssumption
<1>2. WordRounds(bm, n)[Words - n] = MovedWords(bm, n, Words - n)
    BY <1>1, WordLoop
<1>3. \A i \in WordIndex : i >= n => MovedWords(bm, n, Words - n)[i] = bm[i - n]
    BY <1>1 DEF MovedWords, WordIndex
<1> QED BY <1>1, <1>2, <1>3 DEF MoveWords, WordIndex

\* What the loop that carries bits has done after k of its rounds.
MovedBits(bm, n, k) ==
    [i \in WordIndex |->
        IF i >= Words - k THEN Left(bm[i], n) \cup Right(bm[i - 1], WordBits - n) ELSE bm[i]]

IsBitLoop(f, bm, n) ==
    f = [k \in 0 .. Words - 1 |->
            IF k = 0 THEN bm
            ELSE [f[k - 1] EXCEPT ![Words - k] =
                     Left(@, n) \cup Right(f[k - 1][Words - k - 1], WordBits - n)]]

LEMMA BitLoop ==
    ASSUME NEW bm \in Bitmaps, NEW n \in Nat
    PROVE  \A k \in 0 .. Words - 1 : BitRounds(bm, n)[k] = MovedBits(bm, n, k)
<1>1. Words \in Nat \ {0}
    BY ReplayWindowAssumption
<1> DEFINE g == [k \in 0 .. Words - 1 |-> MovedBits(bm, n, k)]
           Round(h, k) == [h EXCEPT ![Words - k] =
                              Left(@, n) \cup Right(h[Words - k - 1], WordBits - n)]
<1>2. \A k \in 0 .. Words - 1 : k # 0 => MovedBits(bm, n, k) = Round(MovedBits(bm, n, k - 1), k)
  <2> SUFFICES ASSUME NEW k \in 1 .. Words - 1
               PROVE  MovedBits(bm, n, k) = Round(MovedBits(bm, n, k - 1), k)
      BY <1>1
  <2> DEFINE old == MovedBits(bm, n, k - 1)
  <2>1. Words - k \in WordIndex /\ Words - k - 1 \in WordIndex
      BY <1>1 DEF WordIndex
  <2>2. old[Words - k] = bm[Words - k] /\ old[Words - k - 1] = bm[Words - k - 1]
      BY <1>1, <2>1 DEF MovedBits, WordIndex
  <2>3. \A i \in WordIndex : i # Words - k => MovedBits(bm, n, k)[i] = old[i]
      BY <1>1 DEF MovedBits, WordIndex
  <2>4. MovedBits(bm, n, k)[Words - k]
        = Left(bm[Words - k], n) \cup Right(bm[Words - k - 1], WordBits - n)
      BY <1>1, <2>1 DEF MovedBits, WordIndex
  <2>5. /\ old = [i \in WordIndex |-> old[i]]
        /\ MovedBits(bm, n, k) = [i \in WordIndex |-> MovedBits(bm, n, k)[i]]
      BY DEF MovedBits
  <2> HIDE DEF old
  <2> QED BY <2>1, <2>2, <2>3, <2>4, <2>5 DEF old
<1>3. MovedBits(bm, n, 0) = bm
    BY <1>1 DEF MovedBits, WordIndex, Bitmaps
<1>4. IsBitLoop(g, bm, n)
  <2>1. \A k \in 0 .. Words - 1 : k # 0 => k - 1 \in 0 .. Words - 1
      BY <1>1
  <2>2. \A k \in 0 .. Words - 1 : k # 0 => g[k - 1] = MovedBits(bm, n, k - 1)
      BY <2>1
  <2>3. \A k \in 0 .. Words - 1 :
           MovedBits(bm, n, k) = IF k = 0 THEN bm ELSE Round(g[k - 1], k)
      BY <1>2, <1>3, <2>2
  <2> QED BY <2>3 DEF IsBitLoop
<1>5. IsBitLoop(BitRounds(bm, n), bm, n)
  <2> HIDE DEF g
  <2>1. BitRounds(bm, n) = CHOOSE f : IsBitLoop(f, bm, n)
      BY DEF BitRounds, IsBitLoop
  <2> QED BY <1>4, <2>1, Zenon
<1> DEFINE f == BitRounds(bm, n)
           S == {k \in Nat : k <= Words - 1 => f[k] = MovedBits(bm, n, k)}
<1>6. \A k \in 0 .. Words - 1 : f[k] = IF k = 0 THEN bm ELSE Round(f[k - 1], k)
  <2> HIDE DEF f
  <2>1. IsBitLoop(f, bm, n)
      BY <1>5 DEF f
  <2> QED BY <2>1 DEF IsBitLoop
<1> HIDE DEF f, Round
<1>7. 0 \in S
    BY <1>1, <1>3, <1>6
<1>8. ASSUME NEW k \in S
      PROVE  k + 1 \in S
  <2>1. k \in Nat /\ k + 1 \in Nat /\ (k + 1) - 1 = k
      OBVIOUS
  <2>2. CASE k + 1 <= Words - 1
    <3>1. k + 1 \in 0 .. Words - 1 /\ k + 1 # 0 /\ f[k] = MovedBits(bm, n, k)
        BY <1>1, <2>1, <2>2
    <3>2. f[k + 1] = Round(f[k], k + 1)
        BY <1>6, <2>1, <3>1
    <3> QED BY <1>2, <2>1, <3>1, <3>2
  <2> QED BY <1>1, <2>1, <2>2
<1>9. Nat \subseteq S
  <2> HIDE DEF S
  <2>1. S \subseteq Nat
      BY DEF S
  <2> QED BY <1>7, <1>8, <2>1, AllAreReached
<1> QED BY <1>1, <1>9 DEF f

LEMMA BitsAreMoved ==
    ASSUME NEW bm \in Bitmaps, NEW n \in Nat
    PROVE  MoveBits(bm, n)
           = [i \in WordIndex |->
                 Left(bm[i], n) \cup IF i = 0 THEN {} ELSE Right(bm[i - 1], WordBits - n)]
<1>1. Words \in Nat \ {0} /\ Words - 1 \in 0 .. Words - 1
    BY ReplayWindowAssumption
<1>2. BitRounds(bm, n)[Words - 1] = MovedBits(bm, n, Words - 1)
    BY <1>1, BitLoop
<1>3. MoveBits(bm, n) = [MovedBits(bm, n, Words - 1) EXCEPT ![0] = Left(@, n)]
    BY <1>2 DEF MoveBits
<1>4. /\ 0 \in WordIndex /\ MovedBits(bm, n, Words - 1)[0] = bm[0]
      /\ \A i \in WordIndex : i # 0 =>
            MovedBits(bm, n, Words - 1)[i] = Left(bm[i], n) \cup Right(bm[i - 1], WordBits - n)
    BY <1>1 DEF MovedBits, WordIndex
<1>5. MovedBits(bm, n, Words - 1) = [i \in WordIndex |-> MovedBits(bm, n, Words - 1)[i]]
    BY DEF MovedBits
<1> DEFINE m == MovedBits(bm, n, Words - 1)
           moved == [i \in WordIndex |->
                       Left(bm[i], n) \cup IF i = 0 THEN {} ELSE Right(bm[i - 1], WordBits - n)]
<1> HIDE DEF MovedBits
<1>6. /\ MoveBits(bm, n) = [m EXCEPT ![0] = Left(m[0], n)]
      /\ m = [i \in WordIndex |-> m[i]] /\ m[0] = bm[0]
    BY <1>3, <1>4, <1>5
<1> HIDE DEF m
<1>7. MoveBits(bm, n) = [i \in WordIndex |-> IF i = 0 THEN Left(bm[0], n) ELSE m[i]]
    BY <1>6
<1>8. ASSUME NEW i \in WordIndex
      PROVE  (IF i = 0 THEN Left(bm[0], n) ELSE m[i]) = moved[i]
  <2>1. CASE i = 0
      BY <2>1
  <2>2. CASE i # 0
      BY <1>4, <2>2 DEF m
  <2> QED BY <2>1, <2>2
<1>9. moved = [i \in WordIndex |-> moved[i]]
    OBVIOUS
<1> HIDE DEF moved
<1> QED BY <1>7, <1>8, <1>9 DEF moved

-----------------------------------------------------------------------------

(* The two shifts. *)

\* What a word of the shifted bitmap is made of.
LEMMA ShiftedBits ==
    ASSUME NEW word, word \subseteq Bit, NEW n \in 0 .. WordBits - 1, NEW x \in Bit
    PROVE  /\ x \in Left(word, n) <=> x - n \in word
           /\ x \in Right(word, WordBits - n) <=> x + WordBits - n \in word
           /\ Left(word, n) \subseteq Bit /\ Right(word, n) \subseteq Bit
<1>1. WordBits \in Nat \ {0}
    BY ReplayWindowAssumption
<1>2. x \in Left(word, n) <=> x - n \in word
    BY <1>1 DEF Left, Bit
<1>3. x \in Right(word, WordBits - n) <=> x + WordBits - n \in word
    BY <1>1 DEF Right, Bit
<1>4. Left(word, n) \subseteq Bit /\ Right(word, n) \subseteq Bit
    BY DEF Left, Right
<1> QED BY <1>2, <1>3, <1>4

LEMMA NothingToShift ==
    /\ \A word \in SUBSET Bit : Left(word, 0) = word
    /\ \A n \in Nat : Left({}, n) = {} /\ Right({}, n) = {}
<1>1. ASSUME NEW word \in SUBSET Bit
      PROVE  Left(word, 0) = word
  <2>1. \A x \in word : x \in Int /\ x + 0 = x /\ x \in Bit
      BY ReplayWindowAssumption DEF Bit
  <2>2. {x + 0 : x \in word} = word
      BY <2>1
  <2> QED BY <2>2 DEF Left
<1>2. \A n : Left({}, n) = {} /\ Right({}, n) = {}
    BY DEF Left, Right
<1> QED BY <1>1, <1>2

\* The two layers shift every bitmap alike, by every distance.
LEMMA ShiftsAreOne ==
    ASSUME NEW bm \in Bitmaps, NEW n \in Nat
    PROVE  ShiftLeft(bm, n) = ShiftWindow(bm, n)
<1> DEFINE words == n \div WordBits
           bits == n % WordBits
           Word(i) == IF i >= 0 THEN bm[i] ELSE {}
<1>1. /\ Words \in Nat \ {0} /\ WordBits \in Nat \ {0}
      /\ WindowSize \in Nat \ {0} /\ words \in Nat /\ bits \in 0 .. WordBits - 1
      /\ n < WindowSize <=> words < Words
    BY OffsetsOfTheWindow, ReplayWindowAssumption DEF Bit, WordIndex
<1>2. /\ ShiftLeft(bm, n) = IF words >= Words THEN Zero
                            ELSE IF bits = 0 THEN MoveWords(bm, words)
                            ELSE MoveBits(MoveWords(bm, words), bits)
      /\ ShiftWindow(bm, n) =
            IF n >= WindowSize THEN Zero
            ELSE [i \in WordIndex |->
                    Left(Word(i - words), bits)
                    \cup IF bits > 0 THEN Right(Word(i - words - 1), WordBits - bits) ELSE {}]
    BY DEF ShiftLeft, ShiftWindow
<1> HIDE DEF words, bits
<1>3. CASE words >= Words
    BY <1>1, <1>2, <1>3
<1>4. CASE words < Words
  <2> DEFINE moved == [i \in WordIndex |-> IF i < words THEN {} ELSE bm[i - words]]
  <2>1. words \in 0 .. Words - 1
      BY <1>1, <1>4
  <2>2. MoveWords(bm, words) = moved
      BY <2>1, WordsAreMoved
  <2>3. moved \in Bitmaps
      BY <1>1 DEF Bitmaps, WordIndex
  <2>4. \A i \in WordIndex : Word(i - words) = moved[i] /\ moved[i] \in SUBSET Bit
      BY <1>1, <2>3 DEF WordIndex, Bitmaps
  <2>5. CASE bits = 0
    <3>1. \A i \in WordIndex :
             Left(Word(i - words), 0)
             \cup (IF bits > 0 THEN Right(Word(i - words - 1), WordBits - bits) ELSE {}) = moved[i]
        BY <2>4, <2>5, NothingToShift
    <3> HIDE DEF Word
    <3> QED BY <1>1, <1>2, <1>4, <2>2, <2>5, <3>1
  <2>6. CASE bits # 0
    <3>1. \A i \in WordIndex :
             Word(i - words - 1) = IF i = 0 THEN {} ELSE moved[i - 1]
        BY <1>1 DEF WordIndex
    <3>2. WordBits - bits \in Nat /\ bits \in Nat /\ bits > 0
        BY <1>1, <2>6
    <3>3. \A i \in WordIndex :
             (IF i = 0 THEN {} ELSE Right(moved[i - 1], WordBits - bits))
             = Right(Word(i - words - 1), WordBits - bits)
        BY <3>1, <3>2, NothingToShift
    <3>4. MoveBits(moved, bits)
          = [i \in WordIndex |->
                Left(moved[i], bits)
                \cup IF i = 0 THEN {} ELSE Right(moved[i - 1], WordBits - bits)]
        BY <2>3, <3>2, BitsAreMoved
    <3>5. ShiftLeft(bm, n) = MoveBits(moved, bits)
        BY <1>1, <1>2, <1>4, <2>2, <2>6
    <3>6. \A i \in WordIndex :
             Left(Word(i - words), bits)
             \cup (IF bits > 0 THEN Right(Word(i - words - 1), WordBits - bits) ELSE {})
             = Left(moved[i], bits)
               \cup (IF i = 0 THEN {} ELSE Right(moved[i - 1], WordBits - bits))
      <4> HIDE DEF Word, moved
      <4> QED BY <2>4, <3>2, <3>3
    <3>7. ShiftWindow(bm, n)
          = [i \in WordIndex |->
                Left(Word(i - words), bits)
                \cup IF bits > 0 THEN Right(Word(i - words - 1), WordBits - bits) ELSE {}]
        BY <1>1, <1>2, <1>4
    <3> HIDE DEF Word, moved
    <3> QED BY <3>4, <3>5, <3>6, <3>7
  <2> QED BY <1>1, <2>5, <2>6
<1> QED BY <1>1, <1>3, <1>4

LEMMA ShiftIsABitmap ==
    ASSUME NEW bm \in Bitmaps, NEW n \in Nat
    PROVE  ShiftLeft(bm, n) \in Bitmaps
<1>1. ShiftWindow(bm, n) \in Bitmaps
    BY DEF ShiftWindow, Bitmaps, Zero, Left, Right
<1> QED BY <1>1, ShiftsAreOne

\* A bit of the shifted bitmap is the bit of the old one that stood so much lower, across word
\* boundaries as inside a word.
LEMMA WhereBitsGo ==
    ASSUME NEW bm \in Bitmaps, NEW d \in 0 .. WindowSize - 1, NEW off \in 0 .. WindowSize - 1
    PROVE  IsSet(ShiftLeft(bm, d), off) <=> off >= d /\ IsSet(bm, off - d)
<1> DEFINE ws == d \div WordBits
           bs == d % WordBits
           wo == off \div WordBits
           bo == off % WordBits
           Word(i) == IF i >= 0 THEN bm[i] ELSE {}
<1>1. Words \in Nat \ {0} /\ WordBits \in Nat \ {0} /\ WindowSize \in Nat \ {0}
    BY OffsetsOfTheWindow, ReplayWindowAssumption
<1>2. /\ ws \in WordIndex /\ bs \in 0 .. WordBits - 1 /\ d = WordBits * ws + bs
      /\ wo \in WordIndex /\ bo \in 0 .. WordBits - 1 /\ off = WordBits * wo + bo
  <2>1. d \in Nat /\ d < WindowSize /\ off \in Nat /\ off < WindowSize
      BY <1>1
  <2> QED BY <2>1, OffsetsOfTheWindow DEF Bit
<1>3. ShiftLeft(bm, d)[wo]
      = Left(Word(wo - ws), bs)
        \cup (IF bs > 0 THEN Right(Word(wo - ws - 1), WordBits - bs) ELSE {})
  <2>1. ShiftLeft(bm, d) = ShiftWindow(bm, d)
      BY <1>1, ShiftsAreOne
  <2>2. ShiftWindow(bm, d)
        = [i \in WordIndex |->
              Left(Word(i - ws), bs)
              \cup IF bs > 0 THEN Right(Word(i - ws - 1), WordBits - bs) ELSE {}]
      BY <1>1 DEF ShiftWindow
  <2> HIDE DEF ws, bs, wo, Word
  <2> QED BY <1>2, <2>1, <2>2
<1>4. IsSet(ShiftLeft(bm, d), off) <=> bo \in ShiftLeft(bm, d)[wo]
    BY DEF IsSet
<1>5. off - d \in Nat => (IsSet(bm, off - d) <=> (off - d) % WordBits \in bm[(off - d) \div WordBits])
    BY DEF IsSet
<1> HIDE DEF ws, bs, wo, bo
<1>6. Word(wo - ws) \subseteq Bit /\ Word(wo - ws - 1) \subseteq Bit /\ bo \in Bit
    BY <1>1, <1>2 DEF WordIndex, Bitmaps, Bit
<1>7. /\ bo \in Left(Word(wo - ws), bs) <=> bo - bs \in Word(wo - ws)
      /\ bo \in Right(Word(wo - ws - 1), WordBits - bs)
           <=> bo + WordBits - bs \in Word(wo - ws - 1)
  <2> HIDE DEF Word
  <2> QED BY <1>2, <1>6, ShiftedBits
<1>8. off - d = WordBits * (wo - ws) + (bo - bs)
    BY <1>1, <1>2 DEF WordIndex
<1>9. CASE bo >= bs
  <2>2. bo \in ShiftLeft(bm, d)[wo] <=> bo - bs \in Word(wo - ws)
    <3>1. bs > 0 => bo + WordBits - bs \notin Word(wo - ws - 1)
        BY <1>1, <1>2, <1>6, <1>9 DEF Bit
    <3> HIDE DEF Word
    <3> QED BY <1>2, <1>3, <1>7, <3>1
  <2>3. CASE wo >= ws
    <3>1. WordBits * (wo - ws) \in Nat /\ off - d \in Nat
        BY <1>1, <1>2, <1>8, <1>9, <2>3 DEF WordIndex
    <3>2. /\ off - d = WordBits * ((off - d) \div WordBits) + ((off - d) % WordBits)
          /\ (off - d) \div WordBits \in Nat /\ (off - d) % WordBits \in 0 .. WordBits - 1
        BY <1>1, <3>1, WordsAndBits
    <3>3. (off - d) \div WordBits = wo - ws /\ (off - d) % WordBits = bo - bs
      <4> DEFINE q == (off - d) \div WordBits
                 r == (off - d) % WordBits
      <4>1. WordBits * q + r = WordBits * (wo - ws) + (bo - bs)
          BY <1>8, <3>2
      <4>2. q \in Int /\ r \in 0 .. WordBits - 1 /\ wo - ws \in Int /\ bo - bs \in 0 .. WordBits - 1
          BY <1>1, <1>2, <1>9, <3>2 DEF WordIndex
      <4> HIDE DEF q, r
      <4>3. PICK y \in Int, s \in 0 .. WordBits - 1 : y = wo - ws /\ s = bo - bs
          BY <4>2
      <4>4. WordBits * q + r = WordBits * y + s
          BY <4>1, <4>3
      <4>5. q = y /\ r = s
          BY <1>1, <4>2, <4>4, OneWay
      <4> QED BY <4>3, <4>5 DEF q, r
    <3> QED BY <1>1, <1>2, <1>4, <1>5, <2>2, <2>3, <3>1, <3>3 DEF WordIndex
  <2>4. CASE wo < ws
    <3>1. WordBits * (wo - ws) <= WordBits * (-1)
        BY <1>1, <1>2, <2>4, MoreWords DEF WordIndex
    <3>2. off - d < 0
        BY <1>1, <1>2, <1>8, <1>9, <3>1 DEF WordIndex
    <3> QED BY <1>1, <1>2, <1>4, <2>2, <2>4, <3>2 DEF WordIndex
  <2> QED BY <1>2, <2>3, <2>4 DEF WordIndex
<1>10. CASE bo < bs
  <2>1. bo - bs \notin Word(wo - ws)
      BY <1>1, <1>2, <1>6, <1>10 DEF Bit
  <2>2. bo \in ShiftLeft(bm, d)[wo] <=> bo + WordBits - bs \in Word(wo - ws - 1)
    <3> HIDE DEF Word
    <3> QED BY <1>1, <1>2, <1>3, <1>7, <1>10, <2>1
  <2>3. off - d = WordBits * (wo - ws - 1) + (bo + WordBits - bs)
      BY <1>1, <1>2, <1>8 DEF WordIndex
  <2>4. CASE wo - 1 >= ws
    <3>1. WordBits * (wo - ws - 1) \in Nat /\ off - d \in Nat
        BY <1>1, <1>2, <2>3, <1>10, <2>4 DEF WordIndex
    <3>2. /\ off - d = WordBits * ((off - d) \div WordBits) + ((off - d) % WordBits)
          /\ (off - d) \div WordBits \in Nat /\ (off - d) % WordBits \in 0 .. WordBits - 1
        BY <1>1, <3>1, WordsAndBits
    <3>3. (off - d) \div WordBits = wo - ws - 1 /\ (off - d) % WordBits = bo + WordBits - bs
      <4> DEFINE q == (off - d) \div WordBits
                 r == (off - d) % WordBits
      <4>1. WordBits * q + r = WordBits * (wo - ws - 1) + (bo + WordBits - bs)
          BY <2>3, <3>2
      <4>2. /\ q \in Int /\ r \in 0 .. WordBits - 1
            /\ wo - ws - 1 \in Int /\ bo + WordBits - bs \in 0 .. WordBits - 1
          BY <1>1, <1>2, <1>10, <3>2 DEF WordIndex
      <4> HIDE DEF q, r
      <4>3. q = wo - ws - 1 /\ r = bo + WordBits - bs
          BY <1>1, <4>1, <4>2, OneWay
      <4> QED BY <4>3 DEF q, r
    <3> QED BY <1>1, <1>2, <1>4, <1>5, <2>2, <2>4, <3>1, <3>3 DEF WordIndex
  <2>5. CASE wo - 1 < ws
    <3>1. WordBits * (wo - ws - 1) <= WordBits * (-1)
        BY <1>1, <1>2, <2>5, MoreWords DEF WordIndex
    <3>2. off - d < 0
        BY <1>1, <1>2, <2>3, <1>10, <3>1 DEF WordIndex
    <3> QED BY <1>1, <1>2, <1>4, <2>2, <2>5, <3>2 DEF WordIndex
  <2> QED BY <1>2, <2>4, <2>5 DEF WordIndex
<1> QED BY <1>2, <1>9, <1>10

\* A bit that is set is set, and no other.
LEMMA OneBitMore ==
    ASSUME NEW bm \in Bitmaps, NEW o \in 0 .. WindowSize - 1, NEW off \in 0 .. WindowSize - 1
    PROVE  /\ SetBit(bm, o) \in Bitmaps
           /\ IsSet(SetBit(bm, o), off) <=> off = o \/ IsSet(bm, off)
<1> DEFINE q == o \div WordBits
           r == o % WordBits
           w == off \div WordBits
           x == off % WordBits
<1>1. WordBits \in Nat \ {0} /\ WindowSize \in Nat \ {0}
    BY OffsetsOfTheWindow, ReplayWindowAssumption
<1>2. /\ q \in WordIndex /\ r \in Bit /\ o = WordBits * q + r
      /\ w \in WordIndex /\ x \in Bit /\ off = WordBits * w + x
  <2>1. o \in Nat /\ o < WindowSize /\ off \in Nat /\ off < WindowSize
      BY <1>1
  <2> QED BY <2>1, OffsetsOfTheWindow
<1>3. /\ SetBit(bm, o) = [bm EXCEPT ![q] = @ \cup {r}]
      /\ IsSet(SetBit(bm, o), off) <=> x \in SetBit(bm, o)[w]
      /\ IsSet(bm, off) <=> x \in bm[w]
    BY DEF SetBit, IsSet
<1> HIDE DEF q, r, w, x
<1>4. SetBit(bm, o) \in Bitmaps
    BY <1>2, <1>3 DEF Bitmaps
<1>5. IsSet(SetBit(bm, o), off) <=> (w = q /\ x = r) \/ x \in bm[w]
    BY <1>2, <1>3 DEF Bitmaps
<1>6. w = q /\ x = r <=> off = o
  <2>1. w \in Int /\ q \in Int /\ x \in 0 .. WordBits - 1 /\ r \in 0 .. WordBits - 1
      BY <1>2 DEF WordIndex, Bit
  <2>2. ASSUME off = o
        PROVE  w = q /\ x = r
    <3>1. WordBits * w + x = WordBits * q + r
        BY <1>2, <2>2
    <3> QED BY <1>1, <2>1, <3>1, OneWay
  <2> QED BY <1>2, <2>2
<1> QED BY <1>3, <1>4, <1>5, <1>6

-----------------------------------------------------------------------------

(***************************************************************************)
(* The filter.  A bit can be trusted only because the bitmap is exact, and *)
(* the bitmap stays exact only because nothing above the highest number    *)
(* was accepted: the bits an advance brings in are clear.                  *)
(***************************************************************************)
WindowInv ==
    /\ WindowTypeOK
    /\ \A q \in SeqNo : count[q] \in {0, 1} /\ (q > lastSeq => count[q] = 0)
    /\ BitmapExact

LEMMA WindowStarts == WindowInit => WindowInv
<1> SUFFICES ASSUME WindowInit
             PROVE  WindowInv
    OBVIOUS
<1>1. Words \in Nat \ {0} /\ WordBits \in Nat \ {0} /\ SeqNo \subseteq Nat /\ 0 \in 0 .. WindowSize - 1
    BY OffsetsOfTheWindow, ReplayWindowAssumption
<1>2. WindowTypeOK
    BY <1>1 DEF WindowInit, WindowTypeOK, Zero
<1>3. \A off \in 0 .. WindowSize - 1 : ~IsSet(Zero, off)
  <2> SUFFICES ASSUME NEW off \in 0 .. WindowSize - 1
               PROVE  ~IsSet(Zero, off)
      OBVIOUS
  <2>1. off \in Nat /\ off < WindowSize
      BY <1>1, OffsetsOfTheWindow
  <2>2. off \div WordBits \in WordIndex
      BY <2>1, OffsetsOfTheWindow
  <2> QED BY <2>2 DEF IsSet, Zero
<1>4. BitmapExact
  <2> SUFFICES ASSUME NEW q \in SeqNo, q <= lastSeq, lastSeq - q < WindowSize
               PROVE  count[q] > 0 <=> IsSet(bitmap, lastSeq - q)
      BY DEF BitmapExact
  <2>1. q = 0 /\ lastSeq - q = 0 /\ bitmap = Zero /\ count[q] = 0
      BY <1>1 DEF WindowInit
  <2> QED BY <1>1, <1>3, <2>1
<1> QED BY <1>1, <1>2, <1>4 DEF WindowInv, WindowInit

\* A number outside the old window comes with a clear bit.
LEMMA TheZeroBitmap ==
    /\ Zero \in Bitmaps
    /\ \A off \in 0 .. WindowSize - 1 : ~IsSet(Zero, off)
<1>1. WindowSize \in Nat \ {0}
    BY OffsetsOfTheWindow
<1>2. ASSUME NEW off \in 0 .. WindowSize - 1
      PROVE  ~IsSet(Zero, off)
  <2>1. off \div WordBits \in WordIndex
      BY <1>1, OffsetsOfTheWindow
  <2> QED BY <2>1 DEF IsSet, Zero
<1> QED BY <1>2 DEF Zero, Bitmaps

LEMMA NewestIsExact ==
    ASSUME WindowInv, NEW seq \in SeqNo, AcceptNewest(seq)
    PROVE  WindowInv' /\ count[seq] = 0
<1>1. /\ SeqNo \subseteq Nat /\ WindowSize \in Nat \ {0} /\ lastSeq \in Nat /\ seq \in Nat
      /\ bitmap \in Bitmaps /\ count \in [SeqNo -> Nat]
    BY OffsetsOfTheWindow, ReplayWindowAssumption DEF WindowInv, WindowTypeOK, Bitmaps
<1>2. /\ seq > lastSeq /\ lastSeq' = seq /\ count' = [count EXCEPT ![seq] = @ + 1]
      /\ bitmap' = IF seq - lastSeq >= WindowSize THEN SetBit(Zero, 0)
                   ELSE SetBit(ShiftLeft(bitmap, seq - lastSeq), 0)
    BY DEF AcceptNewest, Accepted
<1>3. count[seq] = 0
    BY <1>2 DEF WindowInv
<1>4. 0 \in 0 .. WindowSize - 1 /\ seq - lastSeq \in Nat
    BY <1>1, <1>2
<1>5. ShiftLeft(bitmap, seq - lastSeq) \in Bitmaps
    BY <1>1, <1>4, ShiftIsABitmap
<1>6. bitmap' \in Bitmaps
  <2>1. SetBit(Zero, 0) \in Bitmaps
      BY <1>4, TheZeroBitmap, OneBitMore
  <2>2. SetBit(ShiftLeft(bitmap, seq - lastSeq), 0) \in Bitmaps
      BY <1>4, <1>5, OneBitMore
  <2> QED BY <1>2, <2>1, <2>2
<1>7. \A q \in SeqNo : count'[q] \in {0, 1} /\ (q > lastSeq' => count'[q] = 0)
    BY <1>1, <1>2, <1>3 DEF WindowInv
<1>8. BitmapExact'
  <2> SUFFICES ASSUME NEW q \in SeqNo, q <= seq, seq - q < WindowSize
               PROVE  count'[q] > 0 <=> IsSet(bitmap', seq - q)
      BY <1>2 DEF BitmapExact, IsSet
  <2>1. seq - q \in 0 .. WindowSize - 1 /\ q \in Nat
      BY <1>1
  <2>2. CASE seq - lastSeq >= WindowSize
    <3>1. IsSet(bitmap', seq - q) <=> seq - q = 0
        BY <1>2, <1>4, <2>1, <2>2, TheZeroBitmap, OneBitMore
    <3>2. q # seq => q > lastSeq
        BY <1>1, <2>1, <2>2
    <3> QED BY <1>1, <1>2, <1>3, <3>1, <3>2 DEF WindowInv
  <2>3. CASE seq - lastSeq < WindowSize
    <3> DEFINE d == seq - lastSeq
    <3>1. d \in 0 .. WindowSize - 1
        BY <1>1, <1>4, <2>3
    <3>2. IsSet(bitmap', seq - q) <=> seq - q = 0 \/ IsSet(ShiftLeft(bitmap, d), seq - q)
        BY <1>1, <1>2, <1>4, <1>5, <2>1, <2>3, OneBitMore
    <3>3. IsSet(ShiftLeft(bitmap, d), seq - q) <=> seq - q >= d /\ IsSet(bitmap, (seq - q) - d)
      <4> HIDE DEF d
      <4> QED BY <1>1, <2>1, <3>1, WhereBitsGo
    <3>4. (seq - q) - d = lastSeq - q /\ (seq - q >= d <=> q <= lastSeq)
        BY <1>1, <2>1
    <3>5. CASE q = seq
        BY <1>1, <1>2, <3>2, <3>5
    <3>6. CASE q # seq /\ q <= lastSeq
      <4>1. lastSeq - q < WindowSize
          BY <1>1, <1>2, <2>1
      <4>2. count[q] > 0 <=> IsSet(bitmap, lastSeq - q)
          BY <3>6, <4>1 DEF WindowInv, BitmapExact
      <4>3. count'[q] = count[q] /\ seq - q # 0
          BY <1>1, <1>2, <3>6
      <4> QED BY <3>2, <3>3, <3>4, <3>6, <4>2, <4>3
    <3>7. CASE q # seq /\ q > lastSeq
      <4>1. count'[q] = 0 /\ seq - q # 0 /\ ~(q <= lastSeq)
          BY <1>1, <1>2, <3>7 DEF WindowInv
      <4> QED BY <3>2, <3>3, <3>4, <4>1
    <3> QED BY <1>1, <2>1, <3>5, <3>6, <3>7
  <2> QED BY <1>1, <2>2, <2>3
<1>9. WindowTypeOK'
    BY <1>1, <1>2, <1>6 DEF WindowTypeOK, Bitmaps
<1> QED BY <1>3, <1>7, <1>8, <1>9 DEF WindowInv

LEMMA LateIsExact ==
    ASSUME WindowInv, NEW seq \in SeqNo, AcceptLate(seq)
    PROVE  WindowInv' /\ count[seq] = 0
<1>1. /\ SeqNo \subseteq Nat /\ WindowSize \in Nat \ {0} /\ lastSeq \in Nat /\ seq \in Nat
      /\ bitmap \in Bitmaps /\ count \in [SeqNo -> Nat] /\ lastSeq \in SeqNo \cup {0}
    BY OffsetsOfTheWindow, ReplayWindowAssumption DEF WindowInv, WindowTypeOK, Bitmaps
<1>2. /\ seq <= lastSeq /\ lastSeq - seq < WindowSize /\ ~IsSet(bitmap, lastSeq - seq)
      /\ bitmap' = SetBit(bitmap, lastSeq - seq)
      /\ count' = [count EXCEPT ![seq] = @ + 1] /\ lastSeq' = lastSeq
    BY DEF AcceptLate, Accepted
<1>3. count[seq] = 0
  <2>1. ~(count[seq] > 0)
      BY <1>2 DEF WindowInv, BitmapExact
  <2> QED BY <1>1, <2>1
<1>4. lastSeq - seq \in 0 .. WindowSize - 1
    BY <1>1, <1>2
<1>5. /\ bitmap' \in Bitmaps
      /\ \A off \in 0 .. WindowSize - 1 :
            IsSet(bitmap', off) <=> off = lastSeq - seq \/ IsSet(bitmap, off)
    BY <1>1, <1>2, <1>4, OneBitMore
<1>6. \A q \in SeqNo : count'[q] \in {0, 1} /\ (q > lastSeq' => count'[q] = 0)
    BY <1>1, <1>2, <1>3 DEF WindowInv
<1>7. BitmapExact'
  <2> SUFFICES ASSUME NEW q \in SeqNo, q <= lastSeq, lastSeq - q < WindowSize
               PROVE  count'[q] > 0 <=> IsSet(bitmap', lastSeq - q)
      BY <1>2 DEF BitmapExact, IsSet
  <2>1. lastSeq - q \in 0 .. WindowSize - 1 /\ q \in Nat
      BY <1>1
  <2>2. count[q] > 0 <=> IsSet(bitmap, lastSeq - q)
      BY DEF WindowInv, BitmapExact
  <2>3. lastSeq - q = lastSeq - seq <=> q = seq
      BY <1>1, <2>1
  <2>4. count'[q] > 0 <=> q = seq \/ count[q] > 0
      BY <1>1, <1>2, <1>3
  <2> QED BY <1>5, <2>1, <2>2, <2>3, <2>4
<1>8. WindowTypeOK'
    BY <1>1, <1>2, <1>5 DEF WindowTypeOK, Bitmaps
<1> QED BY <1>3, <1>6, <1>7, <1>8 DEF WindowInv

LEMMA WindowStep ==
    ASSUME WindowInv, [WindowNext]_windowVars
    PROVE  WindowInv' /\ [Window!Next]_count
<1>1. CASE UNCHANGED windowVars
    BY <1>1 DEF WindowInv, windowVars, WindowTypeOK, BitmapExact, IsSet
<1>2. ASSUME NEW seq \in SeqNo, ValidateAndUpdate(seq)
      PROVE  WindowInv' /\ [Window!Next]_count
  <2>1. /\ SeqNo \subseteq Nat /\ lastSeq \in Nat /\ WindowSize \in Nat
        /\ \A q \in SeqNo : count[q] \in {0, 1}
        /\ \A q \in SeqNo : count[q] > 0 => q <= lastSeq
      BY OffsetsOfTheWindow, ReplayWindowAssumption DEF WindowInv, WindowTypeOK
  <2>2. ASSUME WindowInv', count[seq] = 0, lastSeq - seq < WindowSize,
               count' = [count EXCEPT ![seq] = @ + 1]
        PROVE  WindowInv' /\ [Window!Next]_count
    <3>1. Window!Fresh(seq)
        BY <2>1, <2>2 DEF Window!Fresh
    <3>2. count' = [count EXCEPT ![seq] = 1]
        BY <2>1, <2>2
    <3> QED BY <2>2, <3>1, <3>2 DEF Window!Deliver, Window!Next
  <2>3. CASE AcceptNewest(seq)
    <3>1. count' = [count EXCEPT ![seq] = @ + 1] /\ seq > lastSeq
        BY <2>3 DEF AcceptNewest, Accepted
    <3>2. lastSeq - seq < WindowSize
        BY <2>1, <3>1
    <3> QED BY <2>2, <2>3, <3>1, <3>2, NewestIsExact
  <2>4. CASE AcceptLate(seq)
    <3>1. count' = [count EXCEPT ![seq] = @ + 1] /\ lastSeq - seq < WindowSize
        BY <2>4 DEF AcceptLate, Accepted
    <3> QED BY <2>2, <2>4, <3>1, LateIsExact
  <2>5. CASE Reject(seq)
      BY <1>1, <2>5 DEF Reject
  <2> QED BY <1>2, <2>3, <2>4, <2>5 DEF ValidateAndUpdate
<1> QED BY <1>1, <1>2 DEF WindowNext

\* What the run asks of the bitmap.
LEMMA WindowFacts == WindowInv => BitmapExact /\ ShiftsAgree /\ WindowTypeOK
<1> SUFFICES ASSUME WindowInv
             PROVE  BitmapExact /\ ShiftsAgree /\ WindowTypeOK
    OBVIOUS
<1>1. bitmap \in Bitmaps /\ WindowSize \in Nat
    BY OffsetsOfTheWindow DEF WindowInv, WindowTypeOK, Bitmaps
<1>2. ShiftsAgree
    BY <1>1, ShiftsAreOne DEF ShiftsAgree
<1> QED BY <1>2 DEF WindowInv

\* No number is accepted twice, nor one that fell out of the window, whatever the size of the
\* words and of the window (ValidateAndUpdate, shiftLeft).
THEOREM WindowIsImplemented == WindowSpec => ImplementsWindow
<1>1. WindowInit => WindowInv /\ Window!Init
    BY WindowStarts DEF WindowInit, Window!Init
<1>2. WindowInv /\ [WindowNext]_windowVars => WindowInv' /\ [Window!Next]_count
    BY WindowStep
<1> QED BY <1>1, <1>2, PTL DEF WindowSpec, ImplementsWindow, Window!Spec

\* The bitmap holds exactly the accepted numbers the window covers, and the shifts of both
\* layers are the same function of it (shiftLeft, shiftWindow).
THEOREM BitmapIsExact == WindowSpec => [](BitmapExact /\ ShiftsAgree)
<1>1. WindowInv /\ [WindowNext]_windowVars => WindowInv'
    BY WindowStep
<1> QED BY <1>1, WindowStarts, WindowFacts, PTL DEF WindowSpec
==============================================================================
