------------------------------ MODULE MpiSpec ------------------------------
(***************************************************************************)
(* What bignum.h promises: registers hold integers of any size, a call     *)
(* gives its destination the value that the header names, or fails and     *)
(* says why, whichever of its arguments are the same register.             *)
(***************************************************************************)
EXTENDS Integers, Sequences

CONSTANTS
  CharBits, \* bits of a byte
  Reg,      \* the registers
  Calls     \* the calls: op, the registers x, y, a, b, n and the numbers k, z it takes

VARIABLES
  value,    \* the integer in each register
  call,     \* the last call
  ret       \* its error and what it returned

specVars == <<value, call, ret>>

NoCall == [op |-> "none"]

Magnitude(i) == IF i < 0 THEN -i ELSE i
Sign(i) == IF i < 0 THEN -1 ELSE IF i = 0 THEN 0 ELSE 1

\* Rounded towards zero.
Quotient(i, j) == Sign(i) * Sign(j) * (Magnitude(i) \div Magnitude(j))
Remainder(i, j) == i - j * Quotient(i, j)

Power(i, e, n) ==
  LET power[k \in 0 .. e] ==
        IF k = 0 THEN 1 % n
        ELSE (((power[k \div 2] * power[k \div 2]) % n) * (IF k % 2 = 1 THEN i % n ELSE 1)) % n IN
  power[e]

Divides(d, i) == i % d = 0

Greatest(S) == CHOOSE m \in S : \A k \in S : k <= m
\* Of magnitudes; of zero and i it is i.
CommonDivisor(i, j) ==
  LET euclid[k \in Nat, l \in Nat] == IF l = 0 THEN k ELSE euclid[l, k % l] IN
  euclid[Magnitude(i), Magnitude(j)]

Invertible(i, n) == CommonDivisor(i, n) = 1
Inverse(i, n) == CHOOSE k \in 0 .. n - 1 : (k * (i % n)) % n = 1 % n

Bit(i, k) == (Magnitude(i) \div 2^k) % 2
BitLength(i) == IF i = 0 THEN 0 ELSE 1 + Greatest({k \in 0 .. 30 : Bit(i, k) = 1})

ByteLength(i) == (BitLength(i) + CharBits - 1) \div CharBits
Bytes(i, n) == [j \in 1 .. n |-> (Magnitude(i) \div 2^(CharBits * (n - j))) % 2^CharBits]
FromBytes(buf) ==
  LET number[j \in 0 .. Len(buf)] == IF j = 0 THEN 0 ELSE number[j - 1] * 2^CharBits + buf[j] IN
  number[Len(buf)]

\* Why a call fails.
Failure(v, c) ==
  CASE c.op = "sub_abs" /\ Magnitude(v[c.a]) < Magnitude(v[c.b]) -> "NEGATIVE_VALUE"
    [] c.op = "mod" /\ v[c.b] < 0 -> "NEGATIVE_VALUE"
    [] c.op \in {"div", "mod"} /\ v[c.b] = 0 -> "DIVISION_BY_ZERO"
    [] c.op \in {"div_int", "mod_int"} /\ c.z = 0 -> "DIVISION_BY_ZERO"
    [] c.op = "mod_int" /\ c.z < 0 -> "NEGATIVE_VALUE"
    [] c.op = "exp_mod" /\ (v[c.n] < 0 \/ v[c.n] % 2 = 0 \/ v[c.b] < 0) -> "BAD_INPUT_DATA"
    [] c.op = "inv_mod" /\ v[c.n] <= 0 -> "BAD_INPUT_DATA"
    [] c.op = "inv_mod" /\ ~Invertible(v[c.a], v[c.n]) -> "NOT_ACCEPTABLE"
    [] c.op = "write_binary" /\ c.k < ByteLength(v[c.a]) -> "BUFFER_TOO_SMALL"
    [] OTHER -> "none"

\* The values after a call that does not fail.
Effect(v, c) ==
  CASE c.op = "copy"        -> [v EXCEPT ![c.x] = v[c.a]]
    [] c.op = "cond_assign" -> [v EXCEPT ![c.x] = IF c.k = 1 THEN v[c.a] ELSE @]
    [] c.op = "swap"        -> [v EXCEPT ![c.x] = v[c.y], ![c.y] = v[c.x]]
    [] c.op = "cond_swap"   -> IF c.k = 1 THEN [v EXCEPT ![c.x] = v[c.y], ![c.y] = v[c.x]] ELSE v
    [] c.op = "lset"        -> [v EXCEPT ![c.x] = c.z]
    [] c.op = "set_bit"     -> [v EXCEPT ![c.x] = @ + (IF @ < 0 THEN -1 ELSE 1) * (c.z - Bit(@, c.k)) * 2^c.k]
    [] c.op = "shift_l"     -> [v EXCEPT ![c.x] = @ * 2^c.k]
    [] c.op = "shift_r"     -> [v EXCEPT ![c.x] = Quotient(@, 2^c.k)]
    [] c.op = "read_binary" -> [v EXCEPT ![c.x] = FromBytes(c.buf)]
    [] c.op = "add_abs"     -> [v EXCEPT ![c.x] = Magnitude(v[c.a]) + Magnitude(v[c.b])]
    [] c.op = "sub_abs"     -> [v EXCEPT ![c.x] = Magnitude(v[c.a]) - Magnitude(v[c.b])]
    [] c.op = "add"         -> [v EXCEPT ![c.x] = v[c.a] + v[c.b]]
    [] c.op = "sub"         -> [v EXCEPT ![c.x] = v[c.a] - v[c.b]]
    [] c.op = "mul"         -> [v EXCEPT ![c.x] = v[c.a] * v[c.b]]
    [] c.op = "add_int"     -> [v EXCEPT ![c.x] = v[c.a] + c.z]
    [] c.op = "sub_int"     -> [v EXCEPT ![c.x] = v[c.a] - c.z]
    [] c.op = "mul_int"     -> [v EXCEPT ![c.x] = v[c.a] * c.z]
    [] c.op = "div"         -> [r \in Reg |-> IF r = c.x THEN Quotient(v[c.a], v[c.b])
                                              ELSE IF r = c.y THEN Remainder(v[c.a], v[c.b]) ELSE v[r]]
    [] c.op = "div_int"     -> [r \in Reg |-> IF r = c.x THEN Quotient(v[c.a], c.z)
                                              ELSE IF r = c.y THEN Remainder(v[c.a], c.z) ELSE v[r]]
    [] c.op = "mod"         -> [v EXCEPT ![c.x] = v[c.a] % v[c.b]]
    [] c.op = "exp_mod"     -> [v EXCEPT ![c.x] = Power(v[c.a], v[c.b], v[c.n])]
    [] c.op = "gcd"         -> [v EXCEPT ![c.x] = CommonDivisor(v[c.a], v[c.b])]
    [] c.op = "inv_mod"     -> [v EXCEPT ![c.x] = Inverse(v[c.a], v[c.n])]
    [] OTHER                -> v

\* What a call that does not fail returns.
Answer(v, c) ==
  CASE c.op = "cmp_abs" -> Sign(Magnitude(v[c.a]) - Magnitude(v[c.b]))
    [] c.op = "cmp"     -> Sign(v[c.a] - v[c.b])
    [] c.op = "cmp_int" -> Sign(v[c.a] - c.z)
    [] c.op = "get_bit" -> Bit(v[c.a], c.k)
    [] c.op = "lsb"     -> IF v[c.a] = 0 THEN 0 ELSE CHOOSE k \in 0 .. 30 : Bit(v[c.a], k) = 1 /\ Divides(2^k, v[c.a])
    [] c.op = "bitlen"  -> BitLength(v[c.a])
    [] c.op = "size"    -> ByteLength(v[c.a])
    [] c.op = "mod_int" -> v[c.a] % c.z
    [] c.op = "write_binary" -> Bytes(v[c.a], c.k)
    [] OTHER            -> 0

SpecInit == value \in [Reg -> Int] /\ call = NoCall /\ ret = <<"none", 0>>

SpecNext ==
  /\ call' \in Calls
  /\ LET failure == Failure(value, call') IN
     IF failure = "none"
     THEN value' = Effect(value, call') /\ ret' = <<"none", Answer(value, call')>>
     ELSE ret' = <<failure, 0>> /\ UNCHANGED value

MSpec == SpecInit /\ [][SpecNext]_specVars
=============================================================================
