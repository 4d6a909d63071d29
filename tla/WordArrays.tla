----------------------------- MODULE WordArrays -----------------------------
(***************************************************************************)
(* The functions on arrays of words that tBigInteger is built from         *)
(* (source/rho/algo/tBigInteger.cpp, from isLess to divide). An array is   *)
(* a sequence of words, the least significant first. The code's unrolled   *)
(* loops are one sum or product per word, with a carry. A value that is    *)
(* computed once and used often is a parameter of the operator that uses   *)
(* it.                                                                     *)
(***************************************************************************)
EXTENDS Integers, SequencesExt

CONSTANTS
  WordBits,          (* bits of a word: 32                                 *)
  WordBytes,         (* bytes of a word: 4                                 *)
  KaratsubaCutoff    (* KARATSUBA_CUTOFF: 200                              *)

ASSUME WordAssumption ==
    /\ WordBits \in Nat \ {0} /\ WordBytes \in Nat \ {0}
    /\ WordBits % WordBytes = 0
    /\ KaratsubaCutoff \in Nat \ {0}     \* "must be >0"
    /\ WordBits * KaratsubaCutoff >= 3   \* the sum of two halves is shorter

Base == 2 ^ WordBits
ByteBase == 2 ^ (WordBits \div WordBytes)

(* f(v) with v computed first: folds hand on what they have uncomputed,    *)
(* and long ones of long ones would nest too deeply for TLC.               *)
With(v, f(_)) == CHOOSE r \in {f(u) : u \in {v}} : TRUE

Arrays == Seq(0..Base - 1)

(* Without leading zeros: what every operation is given and gives back.    *)
(* Random numbers alone may have them (see genRandNumWithBits).            *)
Numbers == {v \in Arrays : v = <<>> \/ v[Len(v)] # 0}

Word(v, i) == IF i \in DOMAIN v THEN v[i] ELSE 0
-----------------------------------------------------------------------------
isLess(a, b) ==
    IF Len(a) # Len(b)
      THEN Len(a) < Len(b)
      ELSE \E i \in DOMAIN a : a[i] < b[i] /\ \A j \in i+1..Len(a) : a[j] = b[j]

cleanup(v) == SubSeq(v, 1, Max({0} \cup {i \in DOMAIN v : v[i] # 0}))

(* Digit k of v, of w bits, of which a word has n.                         *)
Digits(v, w, n) ==
    [k \in 1..Len(v) * n |-> (v[(k - 1) \div n + 1] \div 2 ^ (w * ((k - 1) % n))) % 2 ^ w]

(* A word from its highest byte; bytes past the last are 0.                *)
WordOfBytes(bytes, top) ==
    LET word[k \in 0..WordBytes] ==
            IF k = 0 THEN 0 ELSE word[k - 1] * ByteBase + Word(bytes, top + 1 - k)
    IN  word[WordBytes]
u8to32(bytes) ==
    [i \in 1..(Len(bytes) + WordBytes - 1) \div WordBytes |-> WordOfBytes(bytes, i * WordBytes)]

u32to8(v) == cleanup(Digits(v, WordBits \div WordBytes, WordBytes))

numbits(v) ==
    IF v = <<>> THEN 0
    ELSE (Len(v) - 1) * WordBits + Min({n \in 0..WordBits : Last(v) < 2 ^ n})

(* A word is put together from two neighbours, of which one is masked.     *)
shiftRight(v, n) ==
    LET wordOff == n \div WordBits
        bitOff == n % WordBits
    IN  cleanup([i \in DOMAIN v |->
                   (Word(v, i + wordOff) \div 2 ^ bitOff)
                   + (Word(v, i + wordOff + 1) % 2 ^ bitOff) * 2 ^ (WordBits - bitOff)])

shiftLeft(v, n) ==
    LET wordOff == n \div WordBits
        bitOff == n % WordBits
    IN  cleanup([i \in 1..Len(v) + wordOff + 1 |->
                   ((Word(v, i - wordOff) * 2 ^ bitOff) % Base)
                   + (Word(v, i - wordOff - 1) \div 2 ^ (WordBits - bitOff))])

keepOnly(v, n) ==
    LET wordOff == n \div WordBits
        bitOff == n % WordBits
    IN  IF wordOff >= Len(v) THEN v
        ELSE cleanup(Append(SubSeq(v, 1, wordOff), v[wordOff + 1] % 2 ^ bitOff))
-----------------------------------------------------------------------------
(* What is left of sums of words when each hands its carry to the next.    *)
Carried(sums) ==
    LET carry[i \in 0..Len(sums)] ==
            IF i = 0 THEN 0 ELSE (carry[i - 1] + sums[i]) \div Base
    IN  [i \in 1..Len(sums) + 1 |->
           IF i > Len(sums) THEN carry[i - 1] ELSE (carry[i - 1] + sums[i]) % Base]

add(a, b, bShift) ==
    cleanup(Carried([i \in 1..Max({Len(a), Len(b) + bShift}) |->
                       Word(a, i) + Word(b, i - bShift)]))

(* a less the word w at i, which borrows from the next word that is not 0, *)
(* through those that are. A borrow always finds one: a is not less than b.*)
MinusWord(a, i, w) ==
    IF a[i] >= w THEN [k \in DOMAIN a |-> IF k = i THEN a[k] - w ELSE a[k]]
    ELSE LET j == Min({k \in i + 1..Len(a) : a[k] # 0})
         IN  [k \in DOMAIN a |-> IF k = i THEN a[k] + Base - w
                                 ELSE IF k = j THEN a[k] - 1
                                 ELSE IF k \in i + 1..j THEN Base - 1 ELSE a[k]]

subtract(a, b) ==
    LET less[i \in 0..Len(b)] == IF i = 0 THEN a ELSE MinusWord(less[i - 1], i, b[i])
    IN  cleanup(less[Len(b)])

multiplyNaive(a, b) ==
    IF a = <<>> \/ b = <<>> THEN <<>>
    ELSE LET sum[i \in 0..Len(a)] ==
                 IF i = 0 THEN <<>>
                 ELSE add(sum[i - 1], Carried([j \in DOMAIN b |-> a[i] * b[j]]), i - 1)
         IN  sum[Len(a)]

multiplyWord(a, w) ==
    IF a = <<>> \/ w = 0 THEN <<>>
    ELSE LET r == Carried([i \in DOMAIN a |-> a[i] * w])
         IN  IF Last(r) > 0 THEN r ELSE Front(r)

(* multiplyKaratsuba, and multiply, which calls it: a and b are the low    *)
(* and the high half of x, c and d those of y. The first form takes only   *)
(* the low product from the cross product.                                 *)
RecombinedWithoutHigh(ac, bd, cross, n) ==
    add(shiftLeft(add(shiftLeft(bd, n), subtract(cross, ac), 0), n), ac, 0)

Recombined(ac, bd, cross, n) ==
    add(shiftLeft(add(shiftLeft(bd, n), subtract(subtract(cross, ac), bd), 0), n), ac, 0)

Halves(times, a, b, c, d, n) ==
    With(<<times[<<a, c>>], times[<<b, d>>], times[<<add(a, b, 0), add(c, d, 0)>>]>>,
         LAMBDA p : Recombined(p[1], p[2], p[3], n))
Karatsuba(times, x, y, n) ==
    With(<<keepOnly(x, n), shiftRight(x, n), keepOnly(y, n), shiftRight(y, n)>>,
         LAMBDA h : Halves(times, h[1], h[2], h[3], h[4], n))
Product(times, x, y) ==
    IF Len(x) <= KaratsubaCutoff \/ Len(y) <= KaratsubaCutoff
      THEN multiplyNaive(x, y)
      ELSE Karatsuba(times, x, y, (Max({numbits(x), numbits(y)}) + 1) \div 2)
multiply(x, y) ==
    LET times[p \in Numbers \X Numbers] == Product(times, p[1], p[2])
    IN  Product(times, x, y)
-----------------------------------------------------------------------------
(* The next digit of the quotient, guessed from the leading words.         *)
Guess(rem, b) ==
    IF Len(rem) = Len(b)
      THEN Last(rem) \div Last(b)
      ELSE Min({Base - 1, (Last(rem) * Base + rem[Len(rem) - 1]) \div Last(b)})

(* The guess is never too small; it comes down while it is too large.      *)
Correction(rem, digit, mult) ==
    CHOOSE n \in 0..digit : ~isLess(rem, mult[n]) /\ \A k \in 0..n - 1 : isLess(rem, mult[k])
LoweredBy(down, digit, mult) == [digit |-> digit - down, mult |-> mult[down]]
Fitted(rem, digit, mult) == LoweredBy(Correction(rem, digit, mult), digit, mult)
Corrected(rem, b, digit) ==
    LET mult[n \in 0..digit] ==
            IF n = 0 THEN multiplyWord(b, digit) ELSE subtract(mult[n - 1], b)
    IN  Fitted(rem, digit, mult)

(* Long division, a word of a at a time; divideNaive throws when b is 0.   *)
Bring(rem, word) == IF rem # <<>> \/ word # 0 THEN <<word>> \o rem ELSE rem

Taken(quo, rem, c) == [quo |-> <<c.digit>> \o quo, rem |-> subtract(rem, c.mult)]
NextDigit(quo, rem, b) ==
    IF isLess(rem, b) THEN [quo |-> <<0>> \o quo, rem |-> rem]
    ELSE Taken(quo, rem, Corrected(rem, b, Guess(rem, b)))
NextWord(t, word, b) == NextDigit(t.quo, Bring(t.rem, word), b)

divide(a, b) ==
    LET t[i \in 0..Len(a)] ==
            IF i = 0 THEN [quo |-> <<>>, rem |-> <<>>]
            ELSE NextWord(t[i - 1], a[Len(a) + 1 - i], b)
    IN  [t[Len(a)] EXCEPT !.quo = cleanup(@)]

gcd(a, b) ==
    LET g[p \in Numbers \X Numbers] ==
            IF p[2] = <<>> THEN p[1] ELSE g[<<p[2], divide(p[1], p[2]).rem>>]
    IN  g[<<a, b>>]

modMultiply(a, b, m) == divide(multiply(a, b), m).rem
=============================================================================
