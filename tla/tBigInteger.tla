---------------------------- MODULE tBigInteger ----------------------------
(***************************************************************************)
(* tBigInteger (include/rho/algo/tBigInteger.h, source/rho/algo/           *)
(* tBigInteger.cpp): signed integers of any size over WordArrays, used as  *)
(* a calculator: x is the object that the member functions change, val the *)
(* integer it should be, computed apart by TLA+'s own arithmetic.          *)
(*                                                                         *)
(* Words are small, so that numbers of several words, and with them        *)
(* Karatsuba's method and the four ways to compute a power, are in reach.  *)
(* Radix 16 is left out: the code reads and prints its letters wrongly.    *)
(***************************************************************************)
EXTENDS WordArrays

CONSTANTS
  Window,                                  (* kWindowSize: 4               *)
  MarySize, WindowSize, MontgomerySize,    (* modPow's sizes: 5, 10, 15    *)
  Starts, Operands,                        (* integers: first and second   *)
  Exponents, Moduli, Radices,
  MaxVal,                                  (* x grows only from up to here *)
  Candidates                               (* isPrime is asked about these *)

ASSUME BigAssumption ==
    /\ Window \in Nat \ {0} /\ WordBits % Window = 0
    /\ MarySize \in Nat \ {0} /\ WindowSize \in Nat /\ MontgomerySize \in Nat
    /\ Starts \subseteq Int /\ Operands \subseteq Int
    /\ Exponents \subseteq Nat /\ Moduli \subseteq Nat \ {0}
    /\ Radices \subseteq {2, 8, 10} \cap 0..Base - 1 /\ MaxVal \in Nat
    /\ Candidates \subseteq Int

VARIABLES
  x,      (* the object: [neg |-> m_neg, array |-> m_array]                *)
  val     (* history: the integer that x should be                         *)

vars == <<x, val>>
-----------------------------------------------------------------------------
isZero(a) == a.array = <<>>
isNegative(a) == ~isZero(a) /\ a.neg
isOdd(a) == ~isZero(a) /\ a.array[1] % 2 = 1
Negated(a) == [a EXCEPT !.neg = ~@]

(* The constructor from an i32, for values of one word.                    *)
FromInt(i) == [neg |-> i < 0, array |-> cleanup(<<IF i < 0 THEN -i ELSE i>>)]

equal(a, b) == a.array = b.array /\ isNegative(a) = isNegative(b)

less(a, b) ==
    IF isNegative(a) # isNegative(b) THEN isNegative(a)
    ELSE IF isNegative(a) THEN isLess(b.array, a.array)
    ELSE isLess(a.array, b.array)

(* operator+= and operator-=, which call one another until the signs are   *)
(* equal, for a sum, or both numbers positive, for a difference.           *)
Sum(a, b) == [a EXCEPT !.array = add(@, b.array, 0)]
Minus(a, b) == [a EXCEPT !.array = subtract(@, b.array)]
Difference(a, b) == IF less(a, b) THEN Negated(Minus(b, a)) ELSE Minus(a, b)

plus(a, b) ==
    IF a.neg /\ ~b.neg THEN Difference(b, Negated(a))
    ELSE IF ~a.neg /\ b.neg THEN Difference(a, Negated(b))
    ELSE Sum(a, b)

minus(a, b) ==
    IF a.neg # b.neg THEN Sum(a, Negated(b))
    ELSE IF a.neg THEN Difference(Negated(b), Negated(a))
    ELSE Difference(a, b)

(* The sign is computed after the array was replaced.                      *)
WithSignOf(a, array, b) ==
    LET r == [a EXCEPT !.array = array]
    IN  [r EXCEPT !.neg = isNegative(r) # isNegative(b)]

times(a, b) == WithSignOf(a, multiply(a.array, b.array), b)
over(a, b) == WithSignOf(a, divide(a.array, b.array).quo, b)
modulo(a, b) == [a EXCEPT !.array = divide(@, b.array).rem]

Signed(d, a, b) == [quo |-> [neg |-> isNegative(a) # isNegative(b), array |-> d.quo],
                    rem |-> [neg |-> a.neg, array |-> d.rem]]
div(a, b) == Signed(divide(a.array, b.array), a, b)

GCD(a, b) == [neg |-> FALSE, array |-> gcd(a.array, b.array)]

Objects == [neg : BOOLEAN, array : Numbers]
Rows == [r : Objects, x : Objects, y : Objects]

(* Each row is a remainder and its coefficients of a and of b.             *)
NextRow(last, row, d) ==
    [r |-> d.rem, x |-> minus(last.x, times(d.quo, row.x)),
                  y |-> minus(last.y, times(d.quo, row.y))]
extendedGCD(a, b) ==
    LET euclid[p \in Rows \X Rows] ==
            IF isZero(p[2].r) THEN p[1]
            ELSE euclid[<<p[2], NextRow(p[1], p[2], div(p[1].r, p[2].r))>>]
    IN  euclid[<<[r |-> a, x |-> FromInt(1), y |-> FromInt(0)],
                 [r |-> b, x |-> FromInt(0), y |-> FromInt(1)]>>]
-----------------------------------------------------------------------------
Bits(e) == Digits(e, 1, WordBits)

(* From the lowest bit, in aa the square of a square.                      *)
NextSquare(t, bit, m) ==
    [result |-> IF bit = 1 THEN modMultiply(t.result, t.aa, m) ELSE t.result,
     aa |-> modMultiply(t.aa, t.aa, m)]
modPowNaive(a, e, m) ==
    LET bits == Bits(e)
        t[i \in 0..Len(bits)] ==
            IF i = 0 THEN [result |-> <<1>>, aa |-> a] ELSE NextSquare(t[i - 1], bits[i], m)
    IN  t[Len(bits)].result

(* The table of powers; its entry 0 is not reduced.                        *)
Tab(a, m) ==
    LET tab[i \in 0..2 ^ Window - 1] == IF i = 0 THEN <<1>> ELSE modMultiply(tab[i - 1], a, m)
    IN  tab

(* The m-ary method: from the highest digit of Window bits.                *)
Square(v, m) == modMultiply(v, v, m)
SquaredWindowTimes(r, m) ==
    LET s[i \in 0..Window] == IF i = 0 THEN r ELSE Square(s[i - 1], m)
    IN  s[Window]
NextHigh(r, high, tab, m) == modMultiply(SquaredWindowTimes(r, m), tab[high], m)
WithTable(tab, digits, m) ==
    LET r[i \in 0..Len(digits)] ==
            IF i = 0 THEN <<1>> ELSE NextHigh(r[i - 1], digits[Len(digits) + 1 - i], tab, m)
    IN  r[Len(digits)]
modPowMary(a, e, m) == WithTable(Tab(a, m), Digits(e, Window, WordBits \div Window), m)

(* Constant length nonzero windows: r is squared at each bit, d bits are   *)
(* collected in col; the last bit may leave a window open.                 *)
NextBit(r, d, col, bit, tab, m) ==
    IF bit = 0 /\ d = 0 THEN [r |-> r, d |-> 0, col |-> 0]
    ELSE IF d + 1 = Window THEN [r |-> modMultiply(r, tab[col], m), d |-> 0, col |-> 0]
    ELSE [r |-> r, d |-> d + 1, col |-> col]
Closed(s, tab, m) == IF s.d = 0 THEN s.r ELSE modMultiply(s.r, tab[s.col], m)
AfterBit(s, bit, tab, m) ==
    NextBit(Square(s.r, m), s.d, 2 * s.col + bit, bit, tab, m)
Windows(tab, bits, m) ==
    LET s[i \in 0..Len(bits)] ==
            IF i = 0 THEN [r |-> <<1>>, d |-> 0, col |-> 0]
            ELSE AfterBit(s[i - 1], bits[Len(bits) + 1 - i], tab, m)
    IN  Closed(s[Len(bits)], tab, m)
modPowCLNW(a, e, m) == Windows(Tab(a, m), Bits(e), m)

(* -1/n modulo r, which is a power of 2. Its sign is lost with the bytes.  *)
NegatedInverse(c, n, r) ==
    LET inverse[d \in Rows] ==
            IF isNegative(d.y)
              THEN inverse[[d EXCEPT !.x = minus(@, r), !.y = plus(@, n)]]
              ELSE d.x.array
    IN  inverse[c]
montgomeryCalculateNprim(n, r) ==
    LET nBI == [neg |-> FALSE, array |-> n]
        rBI == [neg |-> FALSE, array |-> r]
    IN  NegatedInverse(extendedGCD(nBI, rBI), nBI, rBI)

(* r is 2^k.                                                               *)
Below(n, u) == IF isLess(u, n) THEN u ELSE subtract(u, n)
Reduced(t, n, nPrim, k) ==
    Below(n, shiftRight(add(multiply(keepOnly(multiply(t, nPrim), k), n), t, 0), k))
montgomeryProduct(a, b, n, nPrim, k) ==
    With(multiply(a, b), LAMBDA t : Reduced(t, n, nPrim, k))

(* Throws when n is even: modPow does not call it then. aHat and s are in  *)
(* Montgomery's form, which the last product leaves; r = 2^k is above n.   *)
TimesBit(aHat, s, bit, n, nPrim, k) ==
    IF bit = 1 THEN montgomeryProduct(aHat, s, n, nPrim, k) ELSE s
NextInForm(aHat, s, bit, n, nPrim, k) ==
    TimesBit(aHat, montgomeryProduct(s, s, n, nPrim, k), bit, n, nPrim, k)
InForm(aHat, one, bits, n, nPrim, k) ==
    LET s[i \in 0..Len(bits)] ==
            IF i = 0 THEN one
            ELSE NextInForm(aHat, s[i - 1], bits[Len(bits) + 1 - i], n, nPrim, k)
    IN  s[Len(bits)]
Montgomery(a, e, n, r, k, nPrim) ==
    montgomeryProduct(InForm(modMultiply(a, r, n), divide(r, n).rem, Bits(e), n, nPrim, k),
                      <<1>>, n, nPrim, k)
MontgomeryOf(a, e, n, r, k) ==
    With(montgomeryCalculateNprim(n, r), LAMBDA nPrim : Montgomery(a, e, n, r, k, nPrim))
modPowMontgomery(a, e, n) ==
    LET k == numbits(n)
    IN  MontgomeryOf(a, e, n, shiftLeft(<<1>>, k), k)

modPow(a, e, m) ==
    IF Len(e) < MarySize THEN modPowNaive(a, e, m)
    ELSE IF Len(e) < WindowSize THEN modPowMary(a, e, m)
    ELSE IF Len(e) < MontgomerySize \/ m[1] % 2 = 0 THEN modPowCLNW(a, e, m)
    ELSE modPowMontgomery(a, e, m)
-----------------------------------------------------------------------------
(* A numeral is a sign and digits, the highest first.                      *)
WithDigit(t, d, radix) ==
    [array |-> IF d = 0 THEN t.array ELSE add(t.array, multiplyWord(t.mult, d), 0),
     mult |-> multiplyWord(t.mult, radix)]
Parsed(digits, radix) ==
    LET t[i \in 0..Len(digits)] ==
            IF i = 0 THEN [array |-> <<>>, mult |-> <<1>>]
            ELSE WithDigit(t[i - 1], digits[Len(digits) + 1 - i], radix)
    IN  t[Len(digits)].array
Parse(text, radix) == [neg |-> text.neg, array |-> Parsed(text.digits, radix)]

WithLast(digits, rem) == Append(digits, IF rem = <<>> THEN 0 ELSE rem[1])
DigitsOf(array, radix) ==
    LET digits[v \in Numbers] ==
            IF v = <<>> THEN <<>>
            ELSE WithLast(digits[divide(v, <<radix>>).quo], divide(v, <<radix>>).rem)
    IN  digits[array]
toString(a, radix) ==
    [neg |-> isNegative(a),
     digits |-> IF isZero(a) THEN <<0>> ELSE DigitsOf(a.array, radix)]

FromBytes(bytes) == [neg |-> FALSE, array |-> u8to32(cleanup(bytes))]
getBytes(a) == u32to8(a.array)
-----------------------------------------------------------------------------
(* Whether a shows that n is composite: u is n - 1 without its t low zero  *)
(* bits, and a root of 1 other than 1 and n - 1 gives n away.              *)
IsRoot(xPrev, xCurr, n) == xCurr = <<1>> /\ xPrev # <<1>> /\ xPrev # subtract(n, <<1>>)
RootOrOn(witness, xPrev, xCurr, t, n) == IsRoot(xPrev, xCurr, n) \/ witness[<<xCurr, t>>]
WitnessFrom(v, zeros, n) ==
    LET witness[p \in Numbers \X Nat] ==
            IF p[2] = 0 THEN p[1] # <<1>>
            ELSE RootOrOn(witness, p[1], divide(multiply(p[1], p[1]), n).rem, p[2] - 1, n)
    IN  witness[<<v, zeros>>]

Convicts(a, nmo, t, n) == WitnessFrom(modPow(a, shiftRight(nmo, t), n), t, n)
LowestOne(bits) == Min({k \in DOMAIN bits : bits[k] = 1})
miller_rabin_witness(a, n) ==
    Convicts(a, subtract(n, <<1>>), LowestOne(Bits(subtract(n, <<1>>))) - 1, n)

(* What may be drawn: numWords words of random bits, of which keepOnly     *)
(* keeps numBits. When these fill the words, it returns before it cleans   *)
(* up: zero words stay at the top, and a 0 is not the empty array.         *)
genRandNumWithBits(numBits) ==
    {keepOnly(v, numBits) :
        v \in [1..(numBits + WordBits - 1) \div WordBits -> 0..Base - 1]}
genRandNumLessThan(maxValue) ==
    {v \in genRandNumWithBits(numbits(maxValue)) : isLess(v, maxValue)}

(* isPrime draws again while the array is empty. It returns true when none *)
(* of the bases that it draws, one in each round, is a witness.            *)
Bases(n) == genRandNumLessThan(n.array) \ {<<>>}
isPrime(n, bases) ==
    /\ ~isNegative(n) /\ isOdd(n) /\ ~equal(n, FromInt(1))
    /\ \A a \in bases : ~miller_rabin_witness(a, n.array)
-----------------------------------------------------------------------------
(* TLA+'s own arithmetic: what each operation should come to. Division     *)
(* rounds towards 0; a power 0 is 1, modulo 1 too.                         *)
Magnitude(i) == IF i < 0 THEN -i ELSE i
Value(v) ==
    LET top[i \in 0..Len(v)] == IF i = 0 THEN 0 ELSE top[i - 1] * Base + v[Len(v) + 1 - i]
    IN  top[Len(v)]

Truncated(i, j) ==
    LET q == Magnitude(i) \div Magnitude(j)
    IN  IF (i < 0) # (j < 0) THEN -q ELSE q

SquareTimes(h, j, m) == (((h * h) % m) * j) % m
PowerModulo(i, exponent, m) ==
    LET power[e \in Nat] ==
            IF e = 0 THEN 1
            ELSE SquareTimes(power[e \div 2], IF e % 2 = 1 THEN i % m ELSE 1, m)
    IN  power[exponent]

GreatestDivisor(i, j) == IF j = 0 THEN i ELSE Max({d \in 1..j : i % d = 0 /\ j % d = 0})

IsPrime(n) == n > 1 /\ \A k \in 2..n - 1 : k * k > n \/ n % k # 0

IntOf(a) == IF a.neg THEN -Value(a.array) ELSE Value(a.array)

(* What genPseudoPrime may return: a random number, made odd, that isPrime *)
(* lets pass. Its rounds are taken to find a witness if there is one. Odd  *)
(* numbers drawn with zero words at the top are left out: with them as the *)
(* modulus, divide would divide by the zero word.                          *)
genPseudoPrime(numBits) ==
    LET drawn == {[neg |-> FALSE, array |-> v] : v \in genRandNumWithBits(numBits)}
        odd == {IF isOdd(n) THEN n ELSE plus(n, FromInt(1)) : n \in drawn}
    IN  {n \in odd : n.array \in Numbers /\ IsPrime(Value(n.array))}

(* The object that holds i.                                                *)
Big(i) ==
    LET words[n \in Nat] == IF n = 0 THEN <<>> ELSE <<n % Base>> \o words[n \div Base]
    IN  [neg |-> i < 0, array |-> words[Magnitude(i)]]
-----------------------------------------------------------------------------
Becomes(a, i) == x' = a /\ val' = i
Small == Magnitude(val) <= MaxVal

(* The object may have been made by any operation before.                  *)
Init == \E i \in Starts : x = Big(i) /\ val = i

FromI32 == \E i \in -(Base - 1)..Base - 1 : Becomes(FromInt(i), i)
PlusAssign(o) == Small /\ Becomes(plus(x, o), val + IntOf(o))
MinusAssign(o) == Small /\ Becomes(minus(x, o), val - IntOf(o))
TimesAssign(o) == Small /\ Becomes(times(x, o), val * IntOf(o))

(* divide throws when o is 0, and x stays as it was.                       *)
OverAssign(o) == ~isZero(o) /\ Becomes(over(x, o), Truncated(val, IntOf(o)))
ModuloAssign(o) ==
    ~isZero(o) /\ Becomes(modulo(x, o), val - IntOf(o) * Truncated(val, IntOf(o)))
Div(o) ==
    /\ ~isZero(o)
    /\ \/ Becomes(div(x, o).quo, Truncated(val, IntOf(o)))
       \/ Becomes(div(x, o).rem, val - IntOf(o) * Truncated(val, IntOf(o)))
Negate == Becomes(Negated(x), -val)

(* modPow throws when x is negative; of e and m it takes the magnitudes,   *)
(* and Exponents and Moduli have no negative numbers.                      *)
ModPow(e, m) ==
    ~isNegative(x) /\ Becomes([neg |-> FALSE, array |-> modPow(x.array, e.array, m.array)],
                              PowerModulo(val, IntOf(e), IntOf(m)))

(* These throw when an argument is negative.                               *)
TakeGCD(o) ==
    /\ ~isNegative(x) /\ ~isNegative(o)
    /\ Becomes(GCD(x, o), GreatestDivisor(val, IntOf(o)))

(* a and b times their coefficients: what extendedGCD promises of them.    *)
Combined(c, a, b) == plus(times(c.x, a), times(c.y, b))
Bezout(o) ==
    /\ ~isNegative(x) /\ ~isNegative(o)
    /\ Becomes(Combined(extendedGCD(x, o), x, o), GreatestDivisor(val, IntOf(o)))

Reparse(radix) == Becomes(Parse(toString(x, radix), radix), val)
Rebyte == Becomes(FromBytes(getBytes(x)), Magnitude(val))

Next ==
    \/ \E o \in {Big(i) : i \in Operands} \cup {x} :
          \/ PlusAssign(o) \/ MinusAssign(o) \/ TimesAssign(o)
          \/ OverAssign(o) \/ ModuloAssign(o) \/ Div(o)
          \/ TakeGCD(o) \/ Bezout(o)
    \/ \E e \in Exponents, m \in Moduli : ModPow(Big(e), Big(m))
    \/ \E radix \in Radices : Reparse(radix)
    \/ FromI32 \/ Negate \/ Rebyte

Spec == Init /\ [][Next]_vars
-----------------------------------------------------------------------------
(* Through every sequence of operations, operands equal to the object and  *)
(* negative zeros included, the object holds exactly the integer it should *)
(* hold, in the one form that the comparisons rely on (no leading zero     *)
(* words), and they order it as that integer. Carries, borrows, the        *)
(* guessed digits of a quotient, Karatsuba's halves, the four ways to      *)
(* compute a power and the conversions all have a part in it.              *)
Exact ==
    /\ IntOf(x) = val
    /\ \A i \in DOMAIN x.array : x.array[i] \in 0..Base - 1
    /\ isZero(x) \/ Last(x.array) # 0
    /\ \A i \in Operands \cup {val} :
          /\ equal(x, Big(i)) <=> val = i
          /\ less(x, Big(i)) <=> val < i
          /\ less(Big(i), x) <=> i < val

(* passed: the bases of which a round of isPrime draws one and goes on.    *)
RightlyPassed(passed, bases, isOddPrime) ==
    IF isOddPrime THEN passed = {a \in bases : Value(a) # 0}
    ELSE 2 * Cardinality(passed) <= Cardinality(bases)

=============================================================================
