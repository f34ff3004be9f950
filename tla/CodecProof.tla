------------------------------ MODULE CodecProof ------------------------------
(***************************************************************************)
(* Theorems about the cipher, for words of any width, any shifts, any key, *)
(* any number of rounds and any buffer.                                    *)
(***************************************************************************)
EXTENDS Codec, Integers, TLAPS

-----------------------------------------------------------------------------
(* Words.                                                                  *)

\* What the lemmas about words need of the assumption.
LEMMA SizeIs == Size \in Nat \ {0}
  BY CodecAssumption

\* The sum and the difference of two words are words, and each takes the
\* other back.
LEMMA PlusMinus ==
    ASSUME NEW x \in Words, NEW y \in Words
    PROVE  /\ Plus(x, y) \in Words /\ Minus(x, y) \in Words
           /\ Minus(Plus(x, y), y) = x
           /\ Plus(Minus(x, y), y) = x
  <1>1. Plus(x, y) \in Words /\ Minus(x, y) \in Words
    BY SizeIs DEF Words, Plus, Minus
  <1>2. Minus(Plus(x, y), y) = x
    BY SizeIs DEF Words, Plus, Minus
  <1>3. Plus(Minus(x, y), y) = x
    BY SizeIs DEF Words, Plus, Minus
  <1> QED
    BY <1>1, <1>2, <1>3

\* What is left of a number, and a part of it.
LEMMA PartIs ==
    ASSUME NEW x \in Nat, NEW d \in Nat \ {0}
    PROVE  x \div d \in 0 .. x
  <1>1. x \div d \in Int
    OBVIOUS
  <1>2. x \div d >= 0
    OBVIOUS
  <1>3. x \div d <= x
    OBVIOUS
  <1> QED
    BY <1>1, <1>2, <1>3

\* What is added to a word in a half round is a word.
LEMMA MixedIsWord ==
    ASSUME NEW w \in Words
    PROVE  Mixed(w) \in Words
  <1>1. w \in Nat /\ Up \in Nat /\ Down \in Nat \ {0}
    BY CodecAssumption DEF Words
  <1>2. (w * Up) % Size \in Words
    BY <1>1, SizeIs DEF Words
  <1>3. w \div Down \in Words
    BY <1>1, PartIs, SizeIs DEF Words
  <1>4. XorWords((w * Up) % Size, w \div Down) \in Words
    BY <1>2, <1>3, CodecAssumption
  <1> QED
    BY <1>4, PlusMinus DEF Mixed

\* So is what the key gives.
LEMMA KeyIsWord ==
    ASSUME NEW s \in Words, NEW k \in Keys
    PROVE  FirstKey(s, k) \in Words /\ SecondKey(s, k) \in Words
  <1> s \in Nat /\ Far \in Nat \ {0}
    BY CodecAssumption DEF Words
  <1>1. s \in Nat /\ s \div Far \in Nat
    BY PartIs
  <1>2. 1 + (s % 4) \in 1 .. 4 /\ 1 + ((s \div Far) % 4) \in 1 .. 4
    BY <1>1
  <1>3. k \in [1 .. 4 -> Words]
    BY CodecAssumption
  <1>4. k[1 + (s % 4)] \in Words /\ k[1 + ((s \div Far) % 4)] \in Words
    BY <1>2, <1>3
  <1> QED
    BY <1>4, PlusMinus DEF FirstKey, SecondKey

\* The remainder is the only one.
LEMMA Remainder ==
    ASSUME NEW q \in Int, NEW r \in Words
    PROVE  (q * Size + r) % Size = r
  BY SizeIs, Z3 DEF Words

\* A sum of remainders goes round as the sum does.
LEMMA RoundAndRound ==
    ASSUME NEW x \in Nat, NEW d \in Words
    PROVE  (x + d) % Size = Plus(x % Size, d)
  <1> DEFINE r == x % Size
             q == x \div Size
  <1>1. r \in Words /\ q \in Int /\ x = q * Size + r
    BY SizeIs DEF Words
  <1> HIDE DEF r, q
  <1>2. CASE r + d < Size
    <2>1. r + d \in Words /\ (r + d) % Size = r + d
      BY <1>1, <1>2, SizeIs DEF Words
    <2>2. (q * Size + (r + d)) % Size = r + d
      BY <1>1, <2>1, SizeIs, Remainder
    <2> QED
      BY <1>1, <2>1, <2>2, SizeIs DEF Plus, Words, r
  <1>3. CASE r + d >= Size
    <2> DEFINE s == r + d - Size
    <2>1. s \in Words /\ (r + d) % Size = s /\ q + 1 \in Int
      BY <1>1, <1>3, SizeIs DEF Words
    <2>2. ((q + 1) * Size + s) % Size = s
      BY <2>1, Remainder
    <2>3. x + d = (q + 1) * Size + s
      BY <1>1, SizeIs DEF Words
    <2> QED
      BY <1>1, <2>1, <2>2, <2>3, SizeIs DEF Plus, r
  <1> QED
    BY <1>1, <1>2, <1>3, SizeIs DEF Words

\* i times delta, as a sum that goes round.
Times(i) == (Delta * i) % Size

\* One more turn adds delta once more.
LEMMA TimesIs ==
    ASSUME NEW i \in Nat
    PROVE  /\ Times(i) \in Words
           /\ Times(i + 1) = Plus(Times(i), Delta)
           /\ Times(0) = 0
  <1>1. Delta \in Words /\ Delta \in Nat /\ Delta * i \in Nat
    BY CodecAssumption DEF Words
  <1>2. Times(i) \in Words /\ Times(0) = 0
    BY <1>1, SizeIs DEF Times, Words
  <1>3. Delta * (i + 1) = Delta * i + Delta
    BY <1>1
  <1> QED
    BY <1>1, <1>2, <1>3, RoundAndRound DEF Times

-----------------------------------------------------------------------------
(* The rounds.                                                             *)

\* A round leaves words, and the other program's round takes it back, sum
\* included.
LEMMA RoundTakenBack ==
    ASSUME NEW w \in State, NEW k \in Keys, NEW e \in BOOLEAN
    PROVE  /\ Turn(e, w, k) \in State
           /\ Turn(~e, Turn(e, w, k), k) = w
  <1>1. /\ w.v0 \in Words /\ w.v1 \in Words /\ w.sum \in Words
        /\ w = [v0 |-> w.v0, v1 |-> w.v1, sum |-> w.sum]
    BY DEF State
  <1>2. Delta \in Words
    BY CodecAssumption
  <1>3. \A x, s \in Words :
            /\ XorWords(Mixed(x), FirstKey(s, k)) \in Words
            /\ XorWords(Mixed(x), SecondKey(s, k)) \in Words
    BY MixedIsWord, KeyIsWord, CodecAssumption
  <1>4. CASE e = TRUE
    <2> DEFINE v0  == Plus(w.v0, XorWords(Mixed(w.v1), FirstKey(w.sum, k)))
               sum == Plus(w.sum, Delta)
               v1  == Plus(w.v1, XorWords(Mixed(v0), SecondKey(sum, k)))
    <2>1. Turn(e, w, k) = [v0 |-> v0, v1 |-> v1, sum |-> sum]
      BY <1>4 DEF Turn, Encipher
    <2>2. v0 \in Words /\ sum \in Words
      BY <1>1, <1>2, <1>3, PlusMinus
    <2>3. v1 \in Words
      BY <1>1, <1>3, <2>2, PlusMinus
    <2>4. Minus(v1, XorWords(Mixed(v0), SecondKey(sum, k))) = w.v1
      BY <1>1, <1>3, <2>2, PlusMinus
    <2>5. Minus(sum, Delta) = w.sum
      BY <1>1, <1>2, PlusMinus
    <2>6. Minus(v0, XorWords(Mixed(w.v1), FirstKey(w.sum, k))) = w.v0
      BY <1>1, <1>3, PlusMinus
    <2> HIDE DEF v0, v1, sum
    <2>7. Turn(~e, Turn(e, w, k), k) = Decipher([v0 |-> v0, v1 |-> v1, sum |-> sum], k)
      BY <1>4, <2>1 DEF Turn
    <2> QED
      BY <1>1, <2>1, <2>2, <2>3, <2>4, <2>5, <2>6, <2>7 DEF Decipher, State
  <1>5. CASE e = FALSE
    <2> DEFINE v1  == Minus(w.v1, XorWords(Mixed(w.v0), SecondKey(w.sum, k)))
               sum == Minus(w.sum, Delta)
               v0  == Minus(w.v0, XorWords(Mixed(v1), FirstKey(sum, k)))
    <2>1. Turn(e, w, k) = [v0 |-> v0, v1 |-> v1, sum |-> sum]
      BY <1>5 DEF Turn, Decipher
    <2>2. v1 \in Words /\ sum \in Words
      BY <1>1, <1>2, <1>3, PlusMinus
    <2>3. v0 \in Words
      BY <1>1, <1>3, <2>2, PlusMinus
    <2>4. Plus(v0, XorWords(Mixed(v1), FirstKey(sum, k))) = w.v0
      BY <1>1, <1>3, <2>2, PlusMinus
    <2>5. Plus(sum, Delta) = w.sum
      BY <1>1, <1>2, PlusMinus
    <2>6. Plus(v1, XorWords(Mixed(w.v0), SecondKey(w.sum, k))) = w.v1
      BY <1>1, <1>3, PlusMinus
    <2> HIDE DEF v0, v1, sum
    <2>7. Turn(~e, Turn(e, w, k), k) = Encipher([v0 |-> v0, v1 |-> v1, sum |-> sum], k)
      BY <1>5, <2>1 DEF Turn
    <2> QED
      BY <1>1, <2>1, <2>2, <2>3, <2>4, <2>5, <2>6, <2>7 DEF Encipher, State
  <1> QED
    BY <1>4, <1>5

\* The sum after i rounds, enciphering or not.
SumAfter(e, i) == Times(IF e THEN i ELSE Rounds - i)

\* A round takes the sum one step up or one step down.
LEMMA SumTurns ==
    ASSUME NEW e \in BOOLEAN, NEW i \in 0 .. Rounds - 1,
           NEW w \in State, NEW k, w.sum = SumAfter(e, i)
    PROVE  Turn(e, w, k).sum = SumAfter(e, i + 1)
  <1>1. Rounds \in Nat /\ Delta \in Words
    BY CodecAssumption
  <1>2. CASE e = TRUE
    BY <1>1, <1>2, TimesIs DEF Turn, Encipher, SumAfter
  <1>3. CASE e = FALSE
    <2> DEFINE j == Rounds - (i + 1)
    <2>1. j \in Nat /\ Rounds - i = j + 1
      BY <1>1
    <2>2. w.sum = Plus(Times(j), Delta)
      BY <1>3, <2>1, TimesIs DEF SumAfter
    <2>3. Minus(w.sum, Delta) = Times(j)
      BY <1>1, <2>1, <2>2, TimesIs, PlusMinus
    <2> QED
      BY <1>3, <2>3 DEF Turn, Decipher, SumAfter
  <1> QED
    BY <1>2, <1>3

\* Each program starts with the sum that the other ends with.
LEMMA SumMeets ==
    ASSUME NEW e \in BOOLEAN
    PROVE  SumAfter(e, 0) = FirstSum(e) /\ SumAfter(e, Rounds) = FirstSum(~e)
  <1>1. Rounds \in Nat /\ Times(0) = 0
    BY CodecAssumption, TimesIs
  <1> QED
    BY <1>1 DEF SumAfter, FirstSum, Times

-----------------------------------------------------------------------------
(* What becomes of a block.                                                *)

\* A call on block i of a buffer.
Opening(e, b, i) ==
    [v0 |-> b[2 * i - 1], v1 |-> b[2 * i], sum |-> FirstSum(e)]

\* h is what n rounds with the key k go through from w on.
Path(h, n, e, w, k) ==
    /\ h \in [0 .. n -> State]
    /\ h[0] = w
    /\ \A i \in 0 .. n - 1 : h[i + 1] = Turn(e, h[i], k)

\* One round more.
LEMMA PathGoesOn ==
    ASSUME NEW n \in Nat, NEW e \in BOOLEAN, NEW w, NEW k \in Keys,
           NEW h, Path(h, n, e, w, k)
    PROVE  \E g : Path(g, n + 1, e, w, k) /\ g[n + 1] = Turn(e, h[n], k)
  <1> DEFINE g == [i \in 0 .. n + 1 |-> IF i <= n THEN h[i] ELSE Turn(e, h[n], k)]
  <1>1. h \in [0 .. n -> State] /\ h[n] \in State
    BY DEF Path
  <1>2. Turn(e, h[n], k) \in State
    BY <1>1, RoundTakenBack
  <1>3. g \in [0 .. n + 1 -> State] /\ g[0] = w /\ g[n + 1] = Turn(e, h[n], k)
    BY <1>1, <1>2 DEF Path
  <1>4. ASSUME NEW i \in 0 .. n
        PROVE  g[i + 1] = Turn(e, g[i], k)
    <2>1. CASE i = n
      BY <2>1
    <2>2. CASE i # n
      <3>1. i \in 0 .. n - 1
        BY <2>2
      <3>2. h[i + 1] = Turn(e, h[i], k)
        BY <3>1 DEF Path
      <3> QED
        BY <3>1, <3>2
    <2> QED
      BY <2>1, <2>2
  <1> HIDE DEF g
  <1>5. (n + 1) - 1 = n
    OBVIOUS
  <1>6. Path(g, n + 1, e, w, k)
    BY <1>3, <1>4, <1>5 DEF Path
  <1> QED
    BY <1>3, <1>6

\* The block is what the first program made of the text's.
Coded(i) ==
    \E h : /\ Path(h, Rounds, first, Opening(first, text, i), key)
           /\ h[Rounds] = Opening(~first, buf, i)

\* The block is the text's.
Plain(i) == buf[2 * i - 1] = text[2 * i - 1] /\ buf[2 * i] = text[2 * i]

\* The first program is on its way from the block of the text.
Coding ==
    /\ \E h : /\ Path(h, turn, first, Opening(first, text, at), key)
              /\ h[turn] = v
    /\ v.sum = SumAfter(first, turn)

\* The second one is on its way back.
Decoding ==
    \E h : /\ Path(h, Rounds, first, Opening(first, text, at), key)
           /\ h[Rounds - turn] = v

\* The types, and that the cipher is called by one of the two programs.
CodecTypeOK ==
    /\ text \in Texts /\ key \in Keys /\ first \in BOOLEAN
    /\ done \in 0 .. 2
    /\ buf \in [1 .. Len(text) -> Words]
    /\ at \in Nat \ {0}
    /\ turn \in 0 .. Rounds
    /\ v \in State \cup {NoBlock}
    /\ v # NoBlock => done < 2

\* Is ed through with the block?
Handled(i) == i < at

\* Each block is still as it was found, or is what it should be.
BlocksRight ==
    \A i \in 1 .. Blocks :
        /\ done = 0 => IF Handled(i) THEN Coded(i) ELSE Plain(i)
        /\ done = 1 => IF Handled(i) THEN Plain(i) ELSE Coded(i)
        /\ done = 2 => Plain(i)

\* The block under the cipher is on its way.
UnderWay ==
    v # NoBlock /\ at \in 1 .. Blocks =>
        /\ done = 0 => Coding
        /\ done = 1 => Decoding

\* The inductive invariant.
CodecInv == CodecTypeOK /\ BlocksRight /\ UnderWay

\* What CodecInit and the actions need to know of sizes.
LEMMA BlocksFit ==
    ASSUME NEW t \in Texts
    PROVE  /\ Len(t) \in Nat /\ t \in [1 .. Len(t) -> Words]
           /\ Len(t) \div 2 \in Nat
           /\ \A i \in 1 .. Len(t) \div 2 :
                 2 * i - 1 \in 1 .. Len(t) /\ 2 * i \in 1 .. Len(t)
           /\ Len(t) < 2 * (Len(t) \div 2) + 2
  <1>1. t \in Seq(Words)
    BY CodecAssumption
  <1>2. Len(t) \in Nat /\ t \in [1 .. Len(t) -> Words]
    BY <1>1
  <1> QED
    BY <1>2

\* A block stays what it is while its words stay.
LEMMA BlockStays ==
    ASSUME UNCHANGED <<text, key, first>>, NEW i,
           buf'[2 * i - 1] = buf[2 * i - 1], buf'[2 * i] = buf[2 * i]
    PROVE  Coded(i)' = Coded(i) /\ Plain(i)' = Plain(i)
  BY DEF Coded, Plain, Opening

\* The cipher starts with a block of words.
LEMMA OpeningIsState ==
    ASSUME NEW e \in BOOLEAN, NEW w0 \in Words, NEW w1 \in Words
    PROVE  [v0 |-> w0, v1 |-> w1, sum |-> FirstSum(e)] \in State
  <1>1. 0 \in Nat /\ Rounds \in Nat
    BY CodecAssumption
  <1>2. FirstSum(e) \in Words
    BY <1>1, SumMeets, TimesIs DEF SumAfter
  <1> QED
    BY <1>2 DEF State

\* The call of the cipher on a block.
LEMMA CallBlockKeeps ==
    ASSUME CodecInv, CallBlock
    PROVE  CodecInv'
  <1> USE DEF CodecInv
  <1>1. /\ at \in 1 .. Blocks /\ done \in {0, 1} /\ v = NoBlock
        /\ v' = Opening(Encrypt, buf, at) /\ turn' = 0
        /\ UNCHANGED <<text, key, first, done, buf, at>>
    BY BlocksFit DEF CallBlock, Call, CodecTypeOK, Opening, Blocks
  <1>2. Encrypt \in BOOLEAN /\ (done = 0 => Encrypt = first) /\ (done = 1 => Encrypt = ~first)
    BY <1>1 DEF Encrypt, CodecTypeOK
  <1>3. v' \in State
    <2>1. buf[2 * at - 1] \in Words /\ buf[2 * at] \in Words
      BY <1>1, BlocksFit DEF CodecTypeOK, Blocks
    <2> QED
      BY <1>1, <1>2, <2>1, OpeningIsState DEF Opening
  <1>4. CodecTypeOK'
    <2>1. 0 \in 0 .. Rounds
      BY CodecAssumption
    <2> QED
      BY <1>1, <1>3, <2>1 DEF CodecTypeOK
  <1>5. BlocksRight'
    BY <1>1, BlockStays DEF BlocksRight, Handled, Blocks
  <1>6. CASE done = 0
    <2>1. Plain(at)
      BY <1>1, <1>6 DEF BlocksRight, Handled, CodecTypeOK
    <2>2. v' = Opening(first, text, at)
      BY <1>1, <1>2, <1>6, <2>1 DEF Plain, Opening
    <2> DEFINE h == [j \in 0 .. 0 |-> v']
    <2>3. Path(h, 0, first, v', key) /\ h[0] = v'
      BY <1>3 DEF Path
    <2>4. v'.sum = SumAfter(first, 0)
      BY <2>2, SumMeets DEF Opening, CodecTypeOK
    <2> HIDE DEF h
    <2>5. Coding'
      BY <1>1, <2>2, <2>3, <2>4 DEF Coding, Opening
    <2> QED
      BY <1>1, <1>4, <1>5, <1>6, <2>5 DEF UnderWay
  <1>7. CASE done = 1
    <2>1. Coded(at)
      BY <1>1, <1>7 DEF BlocksRight, Handled, CodecTypeOK
    <2>2. PICK h : /\ Path(h, Rounds, first, Opening(first, text, at), key)
                   /\ h[Rounds] = Opening(~first, buf, at)
      BY <2>1 DEF Coded
    <2>3. h[Rounds - 0] = v'
      BY <1>1, <1>2, <1>7, <2>2, CodecAssumption
    <2>4. Decoding'
      BY <1>1, <2>2, <2>3 DEF Decoding, Opening
    <2> QED
      BY <1>1, <1>4, <1>5, <1>7, <2>4 DEF UnderWay
  <1> QED
    BY <1>1, <1>6, <1>7

\* The call on the tail says nothing of whole blocks.
LEMMA CallTailKeeps ==
    ASSUME CodecInv, CallTail
    PROVE  CodecInv'
  <1> USE DEF CodecInv
  <1>1. PICK junk \in Words : Call(buf[Len(text)], junk)
    BY DEF CallTail
  <1>2. /\ at = Blocks + 1 /\ done \in {0, 1} /\ turn' = 0
        /\ v' = [v0 |-> buf[Len(text)], v1 |-> junk, sum |-> FirstSum(Encrypt)]
        /\ UNCHANGED <<text, key, first, done, buf, at>>
    BY <1>1 DEF CallTail, Call, CodecTypeOK
  <1>3. Encrypt \in BOOLEAN /\ buf[Len(text)] \in Words
    <2>1. Len(text) \in Nat /\ Len(text) % 2 = 1
      BY BlocksFit DEF CallTail, CodecTypeOK
    <2>2. Len(text) \in 1 .. Len(text)
      BY <2>1
    <2> QED
      BY <2>2 DEF Encrypt, CodecTypeOK
  <1>4. v' \in State /\ 0 \in 0 .. Rounds
    BY <1>2, <1>3, OpeningIsState, CodecAssumption
  <1>5. CodecTypeOK'
    BY <1>2, <1>4 DEF CodecTypeOK
  <1>6. BlocksRight'
    BY <1>2, BlockStays DEF BlocksRight, Handled, Blocks
  <1>7. at \notin 1 .. Blocks /\ Blocks' = Blocks /\ at' = at
    BY <1>2, BlocksFit DEF CodecTypeOK, Blocks
  <1> QED
    BY <1>5, <1>6, <1>7 DEF UnderWay

\* A round of the first program goes on its way; one of the second comes back
\* to where the first was before.
LEMMA RoundKeeps ==
    ASSUME CodecInv, Round
    PROVE  CodecInv'
  <1> USE DEF CodecInv
  <1>1. /\ v \in State /\ done \in {0, 1} /\ turn \in 0 .. Rounds - 1
        /\ v' = Turn(Encrypt, v, key) /\ turn' = turn + 1
        /\ UNCHANGED <<text, key, first, done, buf, at>>
    BY CodecAssumption DEF Round, CodecTypeOK
  <1>2. Encrypt \in BOOLEAN /\ (done = 0 => Encrypt = first) /\ (done = 1 => Encrypt = ~first)
    BY <1>1 DEF Encrypt, CodecTypeOK
  <1>3. v' \in State /\ v' # NoBlock
    BY <1>1, <1>2, RoundTakenBack, NoBlockAssumption DEF CodecTypeOK
  <1>4. CodecTypeOK'
    BY <1>1, <1>3, CodecAssumption DEF CodecTypeOK
  <1>5. BlocksRight'
    BY <1>1, BlockStays DEF BlocksRight, Handled, Blocks
  <1>6. v # NoBlock /\ Rounds \in Nat /\ first \in BOOLEAN /\ key \in Keys
    BY CodecAssumption DEF Round, CodecTypeOK
  <1>7. ASSUME at \in 1 .. Blocks, done = 0
        PROVE  Coding'
    <2>1. PICK h : /\ Path(h, turn, first, Opening(first, text, at), key)
                   /\ h[turn] = v
      BY <1>6, <1>7 DEF UnderWay, Coding
    <2>2. PICK g : /\ Path(g, turn + 1, first, Opening(first, text, at), key)
                   /\ g[turn + 1] = Turn(first, v, key)
      BY <1>1, <1>6, <2>1, PathGoesOn
    <2>3. v'.sum = SumAfter(first, turn + 1)
      BY <1>1, <1>2, <1>6, <1>7, SumTurns DEF UnderWay, Coding
    <2> QED
      BY <1>1, <1>2, <1>7, <2>2, <2>3 DEF Coding, Opening
  <1>8. ASSUME at \in 1 .. Blocks, done = 1
        PROVE  Decoding'
    <2>1. PICK h : /\ Path(h, Rounds, first, Opening(first, text, at), key)
                   /\ h[Rounds - turn] = v
      BY <1>6, <1>8 DEF UnderWay, Decoding
    <2> DEFINE j == Rounds - (turn + 1)
    <2>2. j \in 0 .. Rounds - 1 /\ j + 1 = Rounds - turn /\ j \in 0 .. Rounds
      BY <1>1, <1>6
    <2>3. h[j] \in State /\ h[j + 1] = Turn(first, h[j], key)
      BY <2>1, <2>2 DEF Path
    <2>4. Turn(~first, v, key) = h[j]
      BY <1>6, <2>1, <2>2, <2>3, RoundTakenBack
    <2>5. v' = h[j]
      BY <1>1, <1>2, <1>8, <2>4
    <2> QED
      BY <1>1, <2>1, <2>5 DEF Decoding, Opening
  <1>9. UnderWay'
    BY <1>1, <1>7, <1>8 DEF UnderWay, Blocks
  <1> QED
    BY <1>4, <1>5, <1>9

\* What a block holds when the cipher returns.
LEMMA ReturnKeeps ==
    ASSUME CodecInv, Return
    PROVE  CodecInv'
  <1> USE DEF CodecInv
  <1>1. /\ v \in State /\ done \in {0, 1} /\ turn = Rounds
        /\ at' = at + 1 /\ v' = NoBlock /\ turn' = 0
        /\ buf' = [k \in 1 .. Len(text) |->
                      CASE k = 2 * at - 1 -> v.v0
                        [] k = 2 * at -> v.v1
                        [] OTHER -> buf[k]]
        /\ UNCHANGED <<text, key, first, done>>
    BY DEF Return, CodecTypeOK
  <1>2. v.v0 \in Words /\ v.v1 \in Words
    BY <1>1 DEF State
  <1>3. Rounds \in Nat /\ at \in Nat \ {0} /\ first \in BOOLEAN
    BY CodecAssumption DEF CodecTypeOK
  <1>4. buf' \in [1 .. Len(text) -> Words]
    BY <1>1, <1>2 DEF CodecTypeOK
  <1>5. CodecTypeOK'
    BY <1>1, <1>3, <1>4 DEF CodecTypeOK
  <1>6. ASSUME NEW i \in 1 .. Blocks, i # at
        PROVE  Coded(i)' = Coded(i) /\ Plain(i)' = Plain(i)
    <2>1. 2 * i - 1 \in 1 .. Len(text) /\ 2 * i \in 1 .. Len(text)
      BY BlocksFit DEF CodecTypeOK, Blocks
    <2>2. i \in Nat /\ 2 * i - 1 \notin {2 * at - 1, 2 * at} /\ 2 * i \notin {2 * at - 1, 2 * at}
      BY <1>3, <1>6
    <2>3. buf'[2 * i - 1] = buf[2 * i - 1] /\ buf'[2 * i] = buf[2 * i]
      BY <1>1, <2>1, <2>2
    <2> QED
      BY <1>1, <2>3, BlockStays
  <1>7. ASSUME at \in 1 .. Blocks
        PROVE  buf'[2 * at - 1] = v.v0 /\ buf'[2 * at] = v.v1
    <2>1. 2 * at - 1 \in 1 .. Len(text) /\ 2 * at \in 1 .. Len(text)
      BY <1>7, BlocksFit DEF CodecTypeOK, Blocks
    <2>2. 2 * at # 2 * at - 1
      BY <1>3
    <2> QED
      BY <1>1, <2>1, <2>2
  <1>8. ASSUME NEW i \in 1 .. Blocks, i = at, done = 0
        PROVE  Coded(i)'
    <2>1. PICK h : /\ Path(h, Rounds, first, Opening(first, text, i), key)
                   /\ h[Rounds] = v
      BY <1>1, <1>8, NoBlockAssumption DEF UnderWay, Coding
    <2>2. v.sum = FirstSum(~first)
      BY <1>1, <1>3, <1>8, NoBlockAssumption, SumMeets DEF UnderWay, Coding
    <2>3. v = [v0 |-> v.v0, v1 |-> v.v1, sum |-> v.sum]
      BY <1>1 DEF State
    <2>4. v = Opening(~first, buf', i)
      BY <1>7, <1>8, <2>2, <2>3 DEF Opening
    <2>5. \E g : /\ Path(g, Rounds, first, Opening(first, text, i), key)
                 /\ g[Rounds] = Opening(~first, buf', i)
      BY <2>1, <2>4
    <2> QED
      BY <1>1, <2>5 DEF Coded, Opening
  <1>9. ASSUME NEW i \in 1 .. Blocks, i = at, done = 1
        PROVE  Plain(i)'
    <2>1. PICK h : /\ Path(h, Rounds, first, Opening(first, text, i), key)
                   /\ h[Rounds - turn] = v
      BY <1>1, <1>9, NoBlockAssumption DEF UnderWay, Decoding
    <2>2. v = Opening(first, text, i)
      BY <1>1, <1>3, <2>1 DEF Path
    <2>3. v.v0 = text[2 * i - 1] /\ v.v1 = text[2 * i]
      BY <2>2 DEF Opening
    <2> QED
      BY <1>1, <1>7, <1>9, <2>3 DEF Plain
  <1>10. ASSUME NEW i \in 1 .. Blocks
         PROVE  (i < at + 1) = (i < at \/ i = at)
    BY <1>3, BlocksFit DEF CodecTypeOK, Blocks
  <1>11. Blocks' = Blocks
    BY <1>1 DEF Blocks
  <1>12. ASSUME NEW i \in 1 .. Blocks
         PROVE  /\ done' = 0 => IF (i < at') THEN Coded(i)' ELSE Plain(i)'
                /\ done' = 1 => IF (i < at') THEN Plain(i)' ELSE Coded(i)'
                /\ done' = 2 => Plain(i)'
    <2>1. CASE i = at
      BY <1>1, <1>8, <1>9, <1>10, <2>1
    <2>2. CASE i # at
      BY <1>1, <1>6, <1>10, <2>2 DEF BlocksRight, Handled
    <2> QED
      BY <2>1, <2>2
  <1>13. BlocksRight'
    BY <1>11, <1>12 DEF BlocksRight, Handled
  <1> QED
    BY <1>1, <1>5, <1>13 DEF UnderWay

\* When ed returns every whole block was handled.
LEMMA PassKeeps ==
    ASSUME CodecInv, Pass
    PROVE  CodecInv'
  <1> USE DEF CodecInv
  <1>1. /\ done \in {0, 1} /\ done' = done + 1 /\ at' = 1 /\ v' = NoBlock /\ v = NoBlock
        /\ UNCHANGED <<text, key, first, buf, turn>>
    BY DEF Pass, CodecTypeOK
  <1>2. CodecTypeOK'
    BY <1>1 DEF CodecTypeOK
  <1>3. ASSUME NEW i \in 1 .. Blocks
        PROVE  i < at /\ ~(i < 1)
    <2>1. 2 * i \in 1 .. Len(text) /\ i \in Nat
      BY BlocksFit DEF CodecTypeOK, Blocks
    <2>2. 2 * i <= 2 * (at - 1)
      BY <2>1, BlocksFit DEF Pass, CodecTypeOK
    <2> QED
      BY <2>1, <2>2 DEF CodecTypeOK
  <1>4. BlocksRight'
    BY <1>1, <1>3, BlockStays DEF BlocksRight, Handled, Blocks
  <1> QED
    BY <1>1, <1>2, <1>4 DEF UnderWay

\* Nothing was done to another buffer.
LEMMA AnotherKeeps ==
    ASSUME CodecInv, Another
    PROVE  CodecInv'
  <1>1. /\ done = 2 /\ v = NoBlock /\ v' = NoBlock /\ at' = 1 /\ turn' = turn
        /\ text' \in Texts /\ key' \in Keys /\ first' \in BOOLEAN
        /\ done' = 0 /\ buf' = text'
    BY DEF Another, CodecInv, CodecTypeOK
  <1>2. /\ Len(text') \div 2 \in Nat
        /\ text' \in [1 .. Len(text') -> Words]
    BY <1>1, BlocksFit
  <1>3. CodecTypeOK'
    BY <1>1, <1>2 DEF CodecInv, CodecTypeOK
  <1>4. BlocksRight'
    <2> SUFFICES ASSUME NEW i \in 1 .. Blocks'
                 PROVE  ~Handled(i)' /\ Plain(i)'
      BY <1>1 DEF BlocksRight
    <2>1. i \in Nat /\ i >= 1
      BY <1>1, <1>2 DEF Blocks
    <2> QED
      BY <1>1, <2>1 DEF Handled, Plain
  <1> QED
    BY <1>1, <1>3, <1>4 DEF CodecInv, UnderWay

-----------------------------------------------------------------------------

\* The invariant holds in every reachable state.
LEMMA CodecInvariant == CodecSpec => []CodecInv
  <1>1. ASSUME CodecInit
        PROVE  CodecInv
    <2>1. 0 \in 0 .. Rounds
      BY CodecAssumption
    <2>2. CodecTypeOK
      BY <1>1, <2>1, BlocksFit DEF CodecInit, CodecTypeOK
    <2>3. \A i \in 1 .. Blocks : ~(i < 1)
      BY <1>1, BlocksFit DEF CodecInit, Blocks
    <2>4. BlocksRight
      BY <1>1, <2>3 DEF CodecInit, BlocksRight, Handled, Plain
    <2> QED
      BY <1>1, <2>2, <2>4 DEF CodecInit, CodecInv, UnderWay
  <1>2. ASSUME CodecInv, UNCHANGED codecVars
        PROVE  CodecInv'
    BY <1>2 DEF codecVars, CodecInv, CodecTypeOK, BlocksRight, UnderWay, Handled,
                Blocks, Coded, Plain, Coding, Decoding, Opening
  <1>3. CodecInv /\ [CodecNext]_codecVars => CodecInv'
    BY <1>2, CallBlockKeeps, CallTailKeeps, RoundKeeps, ReturnKeeps, PassKeeps,
       AnotherKeeps DEF CodecNext
  <1> QED
    BY <1>1, <1>3, PTL DEF CodecSpec

\* Whatever key, width, shifts and number of rounds, and whichever of the two
\* comes first, the second call of ed gives back every whole block of the
\* buffer (per_id.h:59-86, per_id.cpp:7-30).
THEOREM CipherReturns == CodecSpec => []WholeBlocksReturn
  <1>1. ASSUME CodecInv
        PROVE  WholeBlocksReturn
    <2> SUFFICES ASSUME done = 2, NEW k \in 1 .. 2 * Blocks
                 PROVE  buf[k] = text[k]
      BY DEF WholeBlocksReturn
    <2>1. Blocks \in Nat
      BY <1>1, BlocksFit DEF CodecInv, CodecTypeOK, Blocks
    <2>2. PICK i \in 1 .. Blocks : k = 2 * i - 1 \/ k = 2 * i
      <3>1. (k + 1) \div 2 \in 1 .. Blocks
        BY <2>1
      <3>2. k = 2 * ((k + 1) \div 2) - 1 \/ k = 2 * ((k + 1) \div 2)
        BY <2>1
      <3> QED
        BY <3>1, <3>2
    <2>3. Plain(i)
      BY <1>1 DEF CodecInv, BlocksRight
    <2> QED
      BY <2>2, <2>3 DEF Plain
  <1> QED
    BY <1>1, CodecInvariant, PTL

=============================================================================
