-------------------------------- MODULE tRSA --------------------------------
(***************************************************************************)
(* tRSA (source/rho/crypt/tRSA.cpp) over tBigInteger: keys as generate     *)
(* makes them, encryption, decryption and signatures of byte strings. The  *)
(* object x of the calculator serves as the source of messages.            *)
(***************************************************************************)
EXTENDS tBigInteger

CONSTANTS
  PrimeBits,        (* numBits / 2                                         *)
  FirstExponent     (* 65537                                               *)

ASSUME RSAAssumption == PrimeBits \in Nat \ 0..1 /\ FirstExponent \in Nat
-----------------------------------------------------------------------------
RECURSIVE PublicExponent(_, _)
PublicExponent(e, m) ==
    IF less(FromInt(1), GCD(e, m)) THEN PublicExponent(plus(e, FromInt(2)), m) ELSE e

RECURSIVE MadeNonNegative(_, _)
MadeNonNegative(d, m) == IF isNegative(d) THEN MadeNonNegative(plus(d, m), m) ELSE d

KeyOf(n, m, e) == [n |-> n, e |-> e, d |-> MadeNonNegative(extendedGCD(e, m).x, m)]
KeyModulo(n, m) == KeyOf(n, m, PublicExponent(FromInt(FirstExponent), m))
generate(p, q) ==
    KeyModulo(times(p, q), times(minus(p, FromInt(1)), minus(q, FromInt(1))))

maxMessageLength(key) == Len(getBytes(key.n)) - 2

(* The byte that pad adds is drawn until it is not 0.                      *)
PadsOfAnyValue == 0..ByteBase - 1
Pads == 1..ByteBase - 1
pad(bytes, rnd) == Append(bytes, rnd)
unpad(bytes) == Front(bytes)

Power(bytes, exponent, key) ==
    getBytes([neg |-> FALSE,
              array |-> modPow(FromBytes(bytes).array, exponent.array, key.n.array)])

(* All four throw on a number that is not less than the modulus. encrypt   *)
(* and sign seal a message, with e and with d; decrypt and verSig open it, *)
(* with d and with e, and verSig compares what comes out with the hash.    *)
Accepts(key, bytes) == less(FromBytes(bytes), key.n)
Sealed(bytes, rnd, exponent, key) == Power(pad(bytes, rnd), exponent, key)
Opened(bytes, exponent, key) == unpad(Power(bytes, exponent, key))
-----------------------------------------------------------------------------
Keys ==
    LET primes == genPseudoPrime(PrimeBits)
    IN  {generate(pq[1], pq[2]) : pq \in {r \in primes \X primes : r[1] # r[2]}}

(* The messages that start with these bytes and end in zeros.              *)
MessagesOf(bytes, key) ==
    {bytes \o [i \in 1..k |-> 0] : k \in 0..maxMessageLength(key) - Len(bytes)}

(* What is sealed with one exponent is opened with the other.             *)
Ways(key) == {<<key.e, key.d>>, <<key.d, key.e>>}
OpensAgain(key, exponent, sealed, msg) ==
    Accepts(key, sealed) /\ Opened(sealed, exponent, key) = msg

(* For every key that generate can return, every message within            *)
(* maxMessageLength, its zeros at the end included, and every pad: the     *)
(* message and what is made of it are accepted, decrypt gives the message  *)
(* back, and verSig accepts a signature for its hash and for no other.     *)
RoundTrip ==
    ~x.neg => \A key \in Keys : \A msg \in MessagesOf(getBytes(x), key), rnd \in Pads :
        /\ Accepts(key, pad(msg, rnd))
        /\ \A way \in Ways(key) :
              OpensAgain(key, way[2], Sealed(msg, rnd, way[1], key), msg)
=============================================================================
