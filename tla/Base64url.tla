----------------------------- MODULE Base64url ------------------------------
(***************************************************************************)
(* src/base64url.c: unpadded, canonical Base64URL.  Texts and octet        *)
(* strings are sequences of bytes.  The loops of the C code write each     *)
(* output position once, from one block of the input, so the result is     *)
(* given position by position.                                             *)
(***************************************************************************)
EXTENDS Integers, Sequences

CONSTANT SizeMax   \* SIZE_MAX

ASSUME SizeAssumption == SizeMax \in Nat

Byte == 0 .. 255

\* -1 for a byte outside the alphabet.
base64url_value(c) ==
    IF c \in 65 .. 90 THEN c - 65
    ELSE IF c \in 97 .. 122 THEN c - 97 + 26
    ELSE IF c \in 48 .. 57 THEN c - 48 + 52
    ELSE IF c = 45 THEN 62
    ELSE IF c = 95 THEN 63
    ELSE -1

base64url_alphabet(v) ==
    IF v < 26 THEN 65 + v
    ELSE IF v < 52 THEN 97 + v - 26
    ELSE IF v < 62 THEN 48 + v - 52
    ELSE IF v = 62 THEN 45
    ELSE 95

valid_AnyTail(s) ==
    /\ Len(s) # 0 /\ Len(s) % 4 # 1
    /\ \A i \in 1 .. Len(s) : base64url_value(s[i]) >= 0

valid(s) ==
    /\ Len(s) # 0 /\ Len(s) % 4 # 1
    /\ \A i \in 1 .. Len(s) : base64url_value(s[i]) >= 0
    /\ Len(s) % 4 = 2 => base64url_value(s[Len(s)]) % 16 = 0
    /\ Len(s) % 4 = 3 => base64url_value(s[Len(s)]) % 4 = 0

decoded_size(n) ==
    (n \div 4) * 3 + (IF n % 4 = 2 THEN 1 ELSE IF n % 4 = 3 THEN 2 ELSE 0)

encoded_size(n) ==
    (n \div 3) * 4 + (IF n % 3 # 0 THEN (n % 3) + 1 ELSE 0)

encoded_size_fits_Groups(n) == n \div 3 <= SizeMax \div 4

\* The checks of pg_oauth_base64url_encoded_size against overflow of size_t.
encoded_size_fits(n) ==
    /\ n \div 3 <= SizeMax \div 4
    /\ n % 3 # 0 => (n \div 3) * 4 <= SizeMax - ((n % 3) + 1)

\* How many of the n input positions block q takes, at most `width`.
block_length(n, q, width) ==
    IF q * width + width <= n THEN width ELSE n - q * width

\* `bits` of a block of c characters: four, or two or three at the end.
decoded_bits(s, q, c) ==
    LET v(j) == base64url_value(s[q * 4 + j])
    IN  IF c = 4 THEN v(1) * 262144 + v(2) * 4096 + v(3) * 64 + v(4)
        ELSE IF c = 2 THEN v(1) * 64 + v(2)
        ELSE v(1) * 4096 + v(2) * 64 + v(3)

\* Octet `at` of a block of c characters.
decoded_octet(bits, c, at) ==
    IF c = 4 THEN IF at = 0 THEN (bits \div 65536) % 256
                  ELSE IF at = 1 THEN (bits \div 256) % 256
                  ELSE bits % 256
    ELSE IF c = 2 THEN (bits \div 16) % 256
    ELSE IF at = 0 THEN (bits \div 1024) % 256
    ELSE (bits \div 4) % 256

\* What pg_oauth_base64url_decode writes for a valid text and a buffer of
\* the decoded size.
decode(s) ==
    [k \in 1 .. decoded_size(Len(s)) |->
        LET q == (k - 1) \div 3
            c == block_length(Len(s), q, 4)
        IN  decoded_octet(decoded_bits(s, q, c), c, (k - 1) % 3)]

\* `bits` of a block of c octets: three, or one or two at the end.
encoded_bits(b, q, c) ==
    IF c = 3 THEN b[q * 3 + 1] * 65536 + b[q * 3 + 2] * 256 + b[q * 3 + 3]
    ELSE IF c = 1 THEN b[q * 3 + 1] * 16
    ELSE b[q * 3 + 1] * 1024 + b[q * 3 + 2] * 4

\* The value of character `at` of a block of c octets.
encoded_value(bits, c, at) ==
    IF c = 3 THEN IF at = 0 THEN (bits \div 262144) % 64
                  ELSE IF at = 1 THEN (bits \div 4096) % 64
                  ELSE IF at = 2 THEN (bits \div 64) % 64
                  ELSE bits % 64
    ELSE IF c = 1 THEN IF at = 0 THEN (bits \div 64) % 64 ELSE bits % 64
    ELSE IF at = 0 THEN (bits \div 4096) % 64
    ELSE IF at = 1 THEN (bits \div 64) % 64
    ELSE bits % 64

encode(b) ==
    [k \in 1 .. encoded_size(Len(b)) |->
        LET q == (k - 1) \div 4
            c == block_length(Len(b), q, 3)
        IN  base64url_alphabet(
                encoded_value(encoded_bits(b, q, c), c, (k - 1) % 4))]
=============================================================================
