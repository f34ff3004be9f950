--------------------------------- MODULE Codec ---------------------------------
(***************************************************************************)
(* The cipher of the datagrams: XTEA on blocks of two words (src/per_id.h) *)
(* and `ed', which runs it over a buffer (src/per_id.cpp), one turn of its *)
(* loops at a time.  A buffer is enciphered by one program and deciphered  *)
(* by another, or the other way round when it was sent in the clear; then   *)
(* comes another buffer.                                                   *)
(*                                                                         *)
(* The words of the source have 32 bits, and it shifts them by 4, 5 and    *)
(* 11; how many words there are, the shifts, delta and even what ^ does    *)
(* are parameters here, because nothing that is said below depends on      *)
(* them.  A buffer is a sequence of words; an odd one at the end stands    *)
(* for the tail of 1 to 7 bytes that ed treats apart.                      *)
(***************************************************************************)
EXTENDS Naturals, Sequences

CONSTANTS
    Size,       \* the number of words (2^32)
    Up, Down,   \* what a word is shifted by (2^4 and 2^5)
    Far,        \* what the sum is shifted by for a key word (2^11)
    XorWords(_, _), \* the ^ of two words
    Delta,      \* what a round adds to the sum
    Rounds,     \* num_rounds
    Keys,       \* the keys: sequences of four words
    Texts       \* the buffers: sequences of words

Words == 0 .. Size - 1

ASSUME CodecAssumption ==
    /\ Size \in Nat \ {0} /\ Up \in Nat
    /\ Down \in Nat \ {0} /\ Far \in Nat \ {0}
    /\ \A x, y \in Words : XorWords(x, y) \in Words
    /\ Delta \in Words /\ Rounds \in Nat
    /\ Keys \subseteq [1 .. 4 -> Words]
    /\ Texts \subseteq Seq(Words)

Plus(x, y) == (x + y) % Size

Minus(x, y) == (x + Size - y) % Size

Mixed(w) == Plus(XorWords((w * Up) % Size, w \div Down), w)

\* The key words that the first and the second half of a round add.
FirstKey(sum, key) == Plus(sum, key[1 + (sum % 4)])

SecondKey(sum, key) == Plus(sum, key[1 + ((sum \div Far) % 4)])

\* A block under the cipher: v0, v1 and sum.
State == [v0 : Words, v1 : Words, sum : Words]

\* The sum that a call starts with, enciphering or not.
FirstSum(encrypt) == IF encrypt THEN 0 ELSE (Delta * Rounds) % Size

Encipher(v, key) ==
    LET v0  == Plus(v.v0, XorWords(Mixed(v.v1), FirstKey(v.sum, key)))
        sum == Plus(v.sum, Delta)
        v1  == Plus(v.v1, XorWords(Mixed(v0), SecondKey(sum, key)))
    IN  [v0 |-> v0, v1 |-> v1, sum |-> sum]

\* A bug to find: the second half of a round is taken back last.
DecipherInOrder(v, key) ==
    LET sum == Minus(v.sum, Delta)
        v0  == Minus(v.v0, XorWords(Mixed(v.v1), FirstKey(sum, key)))
        v1  == Minus(v.v1, XorWords(Mixed(v0), SecondKey(v.sum, key)))
    IN  [v0 |-> v0, v1 |-> v1, sum |-> sum]

Decipher(v, key) ==
    LET v1  == Minus(v.v1, XorWords(Mixed(v.v0), SecondKey(v.sum, key)))
        sum == Minus(v.sum, Delta)
        v0  == Minus(v.v0, XorWords(Mixed(v1), FirstKey(sum, key)))
    IN  [v0 |-> v0, v1 |-> v1, sum |-> sum]

Turn(encrypt, v, key) == IF encrypt THEN Encipher(v, key) ELSE Decipher(v, key)

-----------------------------------------------------------------------------

CONSTANT
    NoBlock     \* no call of the cipher is under way

ASSUME NoBlockAssumption == NoBlock \notin State

VARIABLES
    text,       \* the buffer as it was
    key,        \* the key of both programs
    first,      \* TRUE: enciphered first
    done,       \* how many times ed ran over the buffer
    buf,        \* the buffer now
    at,         \* the block of ed's loop, from 1
    turn,       \* i of the cipher's loop
    v           \* the block under the cipher

codecVars == <<text, key, first, done, buf, at, turn, v>>

Blocks == Len(text) \div 2

Encrypt == (done = 0) = first

CodecInit ==
    /\ text \in Texts
    /\ key \in Keys
    /\ first \in BOOLEAN
    /\ done = 0
    /\ buf = text
    /\ at = 1
    /\ turn = 0
    /\ v = NoBlock

\* The cipher is called on two words.
Call(w0, w1) ==
    /\ done < 2
    /\ v = NoBlock
    /\ v' = [v0 |-> w0, v1 |-> w1, sum |-> FirstSum(Encrypt)]
    /\ turn' = 0
    /\ UNCHANGED <<text, key, first, done, buf, at>>

CallBlock == at <= Blocks /\ Call(buf[2 * at - 1], buf[2 * at])

\* The tail is put before whatever the local block of ed happens to hold.
CallTail ==
    /\ at = Blocks + 1 /\ Len(text) % 2 = 1
    /\ \E junk \in Words : Call(buf[Len(text)], junk)

Round ==
    /\ v # NoBlock
    /\ turn < Rounds
    /\ v' = Turn(Encrypt, v, key)
    /\ turn' = turn + 1
    /\ UNCHANGED <<text, key, first, done, buf, at>>

\* The cipher returns; of a tail one word goes back to the buffer.
Return ==
    /\ v # NoBlock
    /\ turn = Rounds
    /\ buf' = [k \in 1 .. Len(text) |->
                  CASE k = 2 * at - 1 -> v.v0
                    [] k = 2 * at -> v.v1
                    [] OTHER -> buf[k]]
    /\ at' = at + 1
    /\ v' = NoBlock
    /\ turn' = 0
    /\ UNCHANGED <<text, key, first, done>>

\* ed returns, and the other program calls it.
Pass ==
    /\ done < 2
    /\ v = NoBlock
    /\ 2 * (at - 1) >= Len(text)
    /\ done' = done + 1
    /\ at' = 1
    /\ UNCHANGED <<text, key, first, buf, turn, v>>

\* The two programs are through with the buffer; there is another one.
Another ==
    /\ done = 2
    /\ text' \in Texts
    /\ key' \in Keys
    /\ first' \in BOOLEAN
    /\ done' = 0
    /\ buf' = text'
    /\ at' = 1
    /\ UNCHANGED <<turn, v>>

CodecNext == CallBlock \/ CallTail \/ Round \/ Return \/ Pass \/ Another

CodecSpec == CodecInit /\ [][CodecNext]_codecVars

\* Whole blocks come back, in both directions: a sealed SrvCap, which is 14
\* blocks, opens to what it was; and since every SrvCap is what some cleartext
\* deciphers to, unsealed bytes may open to any verb (per_id.h:59-86,
\* per_id.cpp:7-30, a_peer.cpp:245).
WholeBlocksReturn ==
    done = 2 => \A k \in 1 .. 2 * Blocks : buf[k] = text[k]
=============================================================================
