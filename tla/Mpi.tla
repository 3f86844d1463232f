-------------------------------- MODULE Mpi --------------------------------
(***************************************************************************)
(* bignum.c: integers as a sign and a sequence of limbs, the least         *)
(* significant first.  The functions get pointers, so a destination may    *)
(* also be an operand: R is the memory, a record for each name, and the    *)
(* functions take names.  A destination keeps the limbs it has and may     *)
(* have more than its value needs.                                         *)
(*                                                                         *)
(* Every access is to a limb that exists: TLC would report another one.    *)
(* Allocations succeed.                                                    *)
(***************************************************************************)
EXTENDS SequencesExt, Integers

CONSTANTS
  ciL,        \* bytes of a limb
  CharBits,   \* bits of a byte; in the code 8
  Windows,    \* lengths of exponents from which the window grows; in the code
              \* <<23, 79, 239, 671>>, for windows of 3 to 6
  MaxWindow,  \* MBEDTLS_MPI_WINDOW_SIZE
  Reg,        \* the registers of the caller
  Start(_),   \* the integers a register may hold at first
  Calls,      \* the calls, as in MpiSpec
  Careful     \* only calls of which MpiSpec tells the result (Proper)

biL == ciL * CharBits
biH == biL \div 2
Base == 2^biL

Empty == [s |-> 1, p |-> <<>>]    \* mbedtls_mpi_init, mbedtls_mpi_free

\* The local integers of the functions.
Locals == {"_B", "mul._B", "sub.TB", "mul.TA", "mul.TB", "div.X", "div.Y", "div.Z", "div.T1",
           "exp.RR", "exp.W1", "exp.Apos", "gcd.TA", "gcd.TB",
           "inv.G", "TA", "TU", "U1", "U2", "TB", "TV", "V1", "V2"}
Fresh(R, names) == [x \in names |-> Empty] @@ R

\* SubSeq makes TLC evaluate the limbs now.
Limbs(n, limb(_)) == SubSeq([i \in 1 .. n |-> limb(i)], 1, n)
Zeros(n) == Limbs(n, LAMBDA i : 0)
Used(p) == Max({0} \cup {i \in DOMAIN p : p[i] # 0})
Limb(p, i) == IF i \in DOMAIN p THEN p[i] ELSE 0

\* The integer a record stands for.
Value(m) == m.s * FoldRight(LAMBDA l, v : l + Base * v, m.p, 0)
-----------------------------------------------------------------------------
Grow(R, x, n) ==
  IF Len(R[x].p) >= n THEN R ELSE [R EXCEPT ![x].p = @ \o Zeros(n - Len(@))]

Copy(R, x, y) ==
  LET i == Max({1, Used(R[y].p)}) IN
  IF x = y THEN R
  ELSE IF R[y].p = <<>> THEN [R EXCEPT ![x] = Empty]
  ELSE [R EXCEPT ![x] = [s |-> R[y].s,
                         p |-> SubSeq(R[y].p, 1, i) \o Zeros(Max({0, Len(@.p) - i}))]]

Swap(R, x, y) == [R EXCEPT ![x] = R[y], ![y] = R[x]]

SafeCondAssign(R, x, y, assign) ==
  LET G == Grow(R, x, Len(R[y].p)) IN
  IF assign = 0 THEN G
  ELSE [G EXCEPT ![x] = [s |-> R[y].s, p |-> Limbs(Len(@.p), LAMBDA i : Limb(R[y].p, i))]]

SafeCondSwap(R, x, y, swap) ==
  LET G == Grow(Grow(R, x, Len(R[y].p)), y, Len(R[x].p)) IN
  IF x = y THEN R ELSE IF swap = 0 THEN G ELSE Swap(G, x, y)

Lset(R, x, z) ==
  [R EXCEPT ![x] = [s |-> IF z < 0 THEN -1 ELSE 1,
                    p |-> <<IF z < 0 THEN -z ELSE z>> \o Zeros(Max({0, Len(@.p) - 1}))]]

\* A function on an integer and a number z makes an integer of one limb of it.
WithInt(R, b, z) == [R EXCEPT ![b] = [s |-> IF z < 0 THEN -1 ELSE 1, p |-> <<IF z < 0 THEN -z ELSE z>>]]
-----------------------------------------------------------------------------
LimbBit(l, k) == (l \div 2^k) % 2

GetBit(m, pos) ==
  IF Len(m.p) * biL <= pos THEN 0 ELSE LimbBit(m.p[pos \div biL + 1], pos % biL)

SetBit(R, x, pos, val) ==
  LET off == pos \div biL + 1
      G   == Grow(R, x, off) IN
  IF Len(R[x].p) * biL <= pos /\ val = 0 THEN R
  ELSE [G EXCEPT ![x].p[off] = @ + (val - LimbBit(@, pos % biL)) * 2^(pos % biL)]

Lsb(m) ==
  LET ones == {k \in 0 .. Len(m.p) * biL - 1 : GetBit(m, k) = 1} IN
  IF ones = {} THEN 0 ELSE Min(ones)

BitLen(m) == Max({0} \cup {k + 1 : k \in {j \in 0 .. Len(m.p) * biL - 1 : GetBit(m, j) = 1}})

BitsToLimbs(i) == i \div biL + (IF i % biL # 0 THEN 1 ELSE 0)

\* Limb by limb, then bit by bit; what leaves a limb at the top enters the next.
ShiftL(R, x, count) ==
  LET v0 == count \div biL
      t1 == count % biL
      G  == Grow(R, x, BitsToLimbs(BitLen(R[x]) + count))
      p  == G[x].p IN
  [G EXCEPT ![x].p = Limbs(Len(p), LAMBDA i : ((Limb(p, i - v0) * 2^t1) % Base) + Limb(p, i - v0 - 1) \div 2^(biL - t1))]

ShiftR(R, x, count) ==
  LET v0 == count \div biL
      v1 == count % biL
      p  == R[x].p
      n  == Len(p) IN
  IF v0 > n \/ (v0 = n /\ v1 > 0) THEN Lset(R, x, 0)
  ELSE [R EXCEPT ![x].p = Limbs(n, LAMBDA i : Limb(p, i + v0) \div 2^v1 + ((Limb(p, i + v0 + 1) * 2^(biL - v1)) % Base))]
-----------------------------------------------------------------------------
\* The bytes of an integer, the most significant first.
ReadBinary(R, x, buf) ==
  LET n == Len(buf) - Used(Reverse(buf))
      G == Lset(Grow(R, x, BitsToLimbs((Len(buf) - n) * CharBits)), x, 0)
      byte(j) == IF j < Len(buf) - n THEN buf[Len(buf) - j] ELSE 0 IN
  [G EXCEPT ![x].p = Limbs(Len(G[x].p), LAMBDA i :
     FoldRight(LAMBDA k, v : byte((i - 1) * ciL + k) + v * 2^CharBits, [k \in 1 .. ciL |-> k - 1], 0))]

Size(m) == (BitLen(m) + CharBits - 1) \div CharBits

WriteBinary(m, buflen) ==
  [i \in 1 .. buflen |->
    LET j == buflen - i IN
    IF j >= Size(m) THEN 0 ELSE (m.p[j \div ciL + 1] \div 2^((j % ciL) * CharBits)) % 2^CharBits]
-----------------------------------------------------------------------------
\* The limbs of an integer without the leading zeros, compared from the top.
CmpAbs(A, B) ==
  LET i == Used(A.p)
      j == Used(B.p)
      differ == {k \in 1 .. i : A.p[k] # B.p[k]} IN
  IF i # j THEN IF i > j THEN 1 ELSE -1
  ELSE IF differ = {} THEN 0
  ELSE IF A.p[Max(differ)] > B.p[Max(differ)] THEN 1 ELSE -1

CmpMpi(A, B) ==
  LET i == Used(A.p)
      j == Used(B.p) IN
  IF i = 0 /\ j = 0 THEN 0
  ELSE IF i > j THEN A.s
  ELSE IF j > i THEN -B.s
  ELSE IF A.s # B.s THEN A.s
  ELSE A.s * CmpAbs(A, B)

CmpInt(A, z) == CmpMpi(A, WithInt([n \in {"_B"} |-> Empty], "_B", z)["_B"])
-----------------------------------------------------------------------------
\* The carry of an addition runs to the limb that takes it, or makes one.
RECURSIVE CarryOn(_, _)
CarryOn(p, i) ==
  LET q == IF i > Len(p) THEN Append(p, 0) ELSE p
      l == (q[i] + 1) % Base
      r == [q EXCEPT ![i] = l] IN
  IF l = 0 THEN CarryOn(r, i + 1) ELSE r

\* Limb i of b is added to limb i of x, which may be the same.
AddLimb(s, x, b, i) ==
  LET tmp == s.R[b].p[i]
      l1  == (s.R[x].p[i] + s.c) % Base
      c1  == IF l1 < s.c THEN 1 ELSE 0
      l2  == (l1 + tmp) % Base IN
  [R |-> [s.R EXCEPT ![x].p[i] = l2], c |-> IF l2 < tmp THEN c1 + 1 ELSE c1]

AddLimbs(R, x, b, j) ==
  FoldLeft(LAMBDA s, i : AddLimb(s, x, b, i), [R |-> Grow(R, x, j), c |-> 0], [i \in 1 .. j |-> i])
CarryOut(s, x, j) == IF s.c = 0 THEN s.R ELSE [s.R EXCEPT ![x].p = CarryOn(@, j + 1)]
AddInto(R, x, b, j) == CarryOut(AddLimbs(R, x, b, j), x, j)

AddAbs(R, x, A, B) ==
  LET a == IF x = B THEN x ELSE A
      b == IF x = B THEN A ELSE B
      S == [Copy(R, x, a) EXCEPT ![x].s = 1] IN
  AddInto(S, x, b, Used(S[b].p))

RECURSIVE BorrowOn(_, _)
BorrowOn(d, i) ==
  LET e == [d EXCEPT ![i] = (@ + Base - 1) % Base] IN
  IF d[i] = 0 THEN BorrowOn(e, i + 1) ELSE e

\* d - s, of which n limbs.  Code: mpi_sub_hlp.
SubHlp(n, s, d) ==
  LET limb(t, i) ==
        LET z  == IF t.d[i] < t.c THEN 1 ELSE 0
            l  == (t.d[i] - t.c) % Base IN
        [d |-> [t.d EXCEPT ![i] = (l - s[i]) % Base], c |-> (IF l < s[i] THEN 1 ELSE 0) + z]
      r == FoldLeft(limb, [d |-> d, c |-> 0], [i \in 1 .. n |-> i]) IN
  IF r.c = 0 THEN r.d ELSE BorrowOn(r.d, n + 1)

SubInto(R, x, b) == [R EXCEPT ![x] = [s |-> 1, p |-> SubHlp(Used(R[b].p), R[b].p, @.p)]]

\* |A| >= |B|
SubAbs(R, x, a, b) ==
  IF x = b THEN SubInto(Copy(Copy(Fresh(R, {"sub.TB"}), "sub.TB", b), x, a), x, "sub.TB")
  ELSE SubInto(Copy(R, x, a), x, b)

\* A + B or A - B, by the signs.
Signed(R, x, a, b, s) ==
  LET sa == R[a].s IN
  IF sa * s * R[b].s < 0
  THEN IF CmpAbs(R[a], R[b]) >= 0
       THEN [SubAbs(R, x, a, b) EXCEPT ![x].s = sa]
       ELSE [SubAbs(R, x, b, a) EXCEPT ![x].s = -sa]
  ELSE [AddAbs(R, x, a, b) EXCEPT ![x].s = sa]

AddMpi(R, x, a, b) == Signed(R, x, a, b, 1)
SubMpi(R, x, a, b) == Signed(R, x, a, b, -1)
-----------------------------------------------------------------------------
\* A limb with a carry into the next ones, which take it.
RECURSIVE AddTo(_, _, _)
AddTo(d, i, c) ==
  LET l == (d[i] + c) % Base
      e == [d EXCEPT ![i] = l] IN
  IF l < c THEN AddTo(e, i + 1, 1) ELSE e

\* d + s * b from limb off of d on, of s n limbs.  Code: mpi_mul_hlp, MULADDC_CORE.
MulAddC(t, i, s, off, b) ==
  LET r  == s[i] * b
      r0 == (r + t.c) % Base
      l  == (r0 + t.d[off + i]) % Base IN
  [d |-> [t.d EXCEPT ![off + i] = l],
   c |-> r \div Base + (IF r0 < t.c THEN 1 ELSE 0) + (IF l < t.d[off + i] THEN 1 ELSE 0)]
CarryTo(t, i) == AddTo(t.d, i, t.c)
MulHlp(n, s, d, off, b) ==
  CarryTo(FoldLeft(LAMBDA t, i : MulAddC(t, i, s, off, b), [d |-> d, c |-> 0], [i \in 1 .. n |-> i]), off + n + 1)

\* Changed on purpose: the product is written over an operand.
MulMpiInPlace(R, x, a, b) ==
  LET R1 == Lset(Grow(R, x, Used(R[a].p) + Used(R[b].p)), x, 0)
      j  == Used(R1[b].p) IN
  [R1 EXCEPT ![x] = [s |-> R[a].s * R[b].s,
                     p |-> FoldLeft(LAMBDA d, k : MulHlp(Used(R1[a].p), R1[a].p, d, j - k, R1[b].p[j - k + 1]),
                                    @.p, [k \in 1 .. j |-> k])]]

\* Neither operand is the destination.
MulInto(R, x, a, b) ==
  LET i == Used(R[a].p)
      j == Used(R[b].p) IN
  [Lset(Grow(R, x, i + j), x, 0) EXCEPT
     ![x] = [s |-> R[a].s * R[b].s,
             p |-> FoldLeft(LAMBDA d, k : MulHlp(i, R[a].p, d, j - k, R[b].p[j - k + 1]),
                            @.p, [k \in 1 .. j |-> k])]]

MulMpi(R, x, a, b) ==
  LET A == IF x = a THEN Copy(Fresh(R, {"mul.TA"}), "mul.TA", a) ELSE R
      B == IF x = b THEN Copy(Fresh(A, {"mul.TB"}), "mul.TB", b) ELSE A IN
  MulInto(B, x, IF x = a THEN "mul.TA" ELSE a, IF x = b THEN "mul.TB" ELSE b)

MulInt(R, x, a, z) == MulMpi(WithInt(R, "mul._B", z), x, a, "mul._B")
-----------------------------------------------------------------------------
(* Division.  The limbs of dividend X, divisor Y and quotient Z count from 0. *)

At(m, i) == m.p[i + 1]
Decrement(R, x, i) == [R EXCEPT ![x].p[i + 1] = (@ + Base - 1) % Base]

\* Two limbs by one.
IntDivInt(u1, u0, d) ==
  IF d = 0 \/ u1 >= d THEN Base - 1 ELSE Min({(u1 * Base + u0) \div d, Base - 1})

\* The first limb of the quotient, while Y is aligned with X.
RECURSIVE FirstLimb(_, _)
FirstLimb(R, i) ==
  IF CmpMpi(R["div.X"], R["div.Y"]) < 0 THEN R
  ELSE FirstLimb(SubMpi([R EXCEPT !["div.Z"].p[i + 1] = (@ + 1) % Base], "div.X", "div.X", "div.Y"), i)

\* One more limb: guessed from the first limbs, made smaller until the product
\* of two limbs does not exceed three limbs, and once more if it is too great.
Guess(X, Y, i, t) ==
  LET q  == IF At(X, i) >= At(Y, t) THEN Base - 1 ELSE IntDivInt(At(X, i), At(X, i - 1), At(Y, t))
      T1 == At(Y, t) * Base + (IF t < 1 THEN 0 ELSE At(Y, t - 1))
      T2 == (At(X, i) * Base + At(X, i - 1)) * Base + (IF i < 2 THEN 0 ELSE At(X, i - 2)) IN
  Max({j \in 0 .. q : T1 * j <= T2})

Subtracted(R, z, k) ==
  SubMpi(ShiftL(MulInt([R EXCEPT !["div.Z"].p[k + 1] = z], "div.T1", "div.Y", z), "div.T1", biL * k),
         "div.X", "div.X", "div.T1")
Corrected(R, k) ==
  IF CmpInt(R["div.X"], 0) >= 0 THEN R
  ELSE Decrement(AddMpi(ShiftL(Copy(R, "div.T1", "div.Y"), "div.T1", biL * k), "div.X", "div.X", "div.T1"),
                 "div.Z", k)
NextLimb(R, i, t) ==
  Corrected(Subtracted(R, Guess(R["div.X"], R["div.Y"], i, t), i - t - 1), i - t - 1)

\* Dividend and divisor of magnitude, shifted so that the first limb of Y is at
\* least half of Base.
Shifted(R, k) == ShiftL(ShiftL(R, "div.X", k), "div.Y", k)
Operands(R, a, b) ==
  LET R1 == Copy(Copy(Fresh(R, {"div.X", "div.Y", "div.Z", "div.T1"}), "div.X", a), "div.Y", b) IN
  Grow(Lset(Grow([R1 EXCEPT !["div.X"].s = 1, !["div.Y"].s = 1], "div.Z", Len(R[a].p) + 2), "div.Z", 0),
       "div.T1", 2)
NormShift(Y) == biL - 1 - (BitLen(Y) % biL)

\* n and t are the positions of the first limbs of X and Y.
Divided(R, n, t) ==
  FoldLeft(LAMBDA S, i : NextLimb(S, n + 1 - i, t),
           ShiftR(FirstLimb(ShiftL(R, "div.Y", biL * (n - t)), n - t), "div.Y", biL * (n - t)),
           [i \in 1 .. n - t |-> i])
LongDivision(R) == Divided(R, Len(R["div.X"].p) - 1, Len(R["div.Y"].p) - 1)

\* The signs are read from A and B, after the quotient is written.
SetSign(R, x, sign) == [R EXCEPT ![x].s = sign]
SignQuotient(R, q, a, b) == SetSign(R, q, R[a].s * R[b].s)
StoreQuotient(R, q, a, b) == IF q = "NULL" THEN R ELSE SignQuotient(Copy(R, q, "div.Z"), q, a, b)
PositiveZero(R, r) == IF CmpInt(R[r], 0) = 0 THEN SetSign(R, r, 1) ELSE R
StoreRemainder(R, r, a, k) ==
  IF r = "NULL" THEN R
  ELSE PositiveZero(Copy(SetSign(ShiftR(R, "div.X", k), "div.X", R[a].s), r, "div.X"), r)

DivShifted(R, q, r, a, b, k) ==
  StoreRemainder(StoreQuotient(LongDivision(Shifted(R, k)), q, a, b), r, a, k)
DivLong(R, q, r, a, b) == DivShifted(R, q, r, a, b, NormShift(R["div.Y"]))

\* B is not zero; q or r may be NULL.
DivMpi(R, q, r, a, b) ==
  LET E == IF q = "NULL" THEN R ELSE Lset(R, q, 0) IN
  IF CmpAbs(R[a], R[b]) >= 0 THEN DivLong(Operands(R, a, b), q, r, a, b)
  ELSE IF r = "NULL" THEN E ELSE Copy(E, r, a)

RECURSIVE IntoRange(_, _, _)
IntoRange(R, r, b) ==
  IF CmpInt(R[r], 0) < 0 THEN IntoRange(AddMpi(R, r, r, b), r, b)
  ELSE IF CmpMpi(R[r], R[b]) >= 0 THEN IntoRange(SubMpi(R, r, r, b), r, b)
  ELSE R

\* B > 0
ModMpi(R, r, a, b) == IntoRange(DivMpi(R, "NULL", r, a, b), r, b)

\* b > 0; half a limb at a time.
ModInt(A, b) ==
  LET half(y, h) == (((y * 2^biH) % Base) + h) % b
      limb(l, y) == half(half(y, l \div 2^biH), l % 2^biH)
      y == FoldRight(limb, A.p, 0) IN
  CASE b = 1 -> 0
    [] b = 2 -> A.p[1] % 2
    [] b > 2 -> IF A.s < 0 /\ y # 0 THEN b - y ELSE y
-----------------------------------------------------------------------------
(* Montgomery multiplication, on values: A is written at the end only.     *)

RECURSIVE Newton(_, _, _)
Newton(x, m0, i) == IF i < 8 THEN x ELSE Newton((x * ((2 - m0 * x) % Base)) % Base, m0, i \div 2)

\* -1 / N modulo Base.
MontgInit(N) ==
  LET m0 == N.p[1] IN (-Newton((m0 + 8 * LimbBit(m0 + 2, 2)) % Base, m0, biL)) % Base

\* A * B / Base^n modulo N, of n limbs; A has one more.
MontRound(T, i, u0, B, N, mm) ==
  LET n == Len(N.p) IN
  [MulHlp(n, N.p, MulHlp(Min({Len(B.p), n}), B.p, T, i, u0), i, ((T[i + 1] + u0 * B.p[1]) * mm) % Base)
     EXCEPT ![i + n + 3] = 0]
BelowN(X, N) == IF CmpAbs(X, N) >= 0 THEN [X EXCEPT !.p = SubHlp(Len(N.p), N.p, @)] ELSE X
FromLimb(A, d, n) == [A EXCEPT !.p = Limbs(Len(A.p), LAMBDA i : IF i <= n + 1 THEN d[n + i] ELSE A.p[i])]
MontMul(A, B, N, mm) ==
  BelowN(FromLimb(A, FoldLeft(LAMBDA T, i : MontRound(T, i, A.p[i + 1], B, N, mm), Zeros(2 * (Len(N.p) + 1)),
                              [i \in DOMAIN N.p |-> i - 1]), Len(N.p)), N)

MontRed(A, N, mm) == MontMul(A, [s |-> 1, p |-> <<1>>], N, mm)

RECURSIVE Squared(_, _, _, _)
Squared(A, times, N, mm) ==
  IF times = 0 THEN A ELSE Squared(MontMul(A, A, N, mm), times - 1, N, mm)

WindowSize(bits) ==
  LET k == Cardinality({i \in DOMAIN Windows : bits > Windows[i]}) IN
  Min({IF k = 0 THEN 1 ELSE k + 2, MaxWindow})

\* W[1] and, from half of the window on, its powers.
WindowPowers(W1, wsize, N, mm) ==
  LET j == 2^(wsize - 1)
      W[i \in j .. 2^wsize - 1] ==
        IF i = j THEN Squared(W1, wsize - 1, N, mm) ELSE MontMul(W[i - 1], W1, N, mm) IN
  W

\* One bit of the exponent: skipped at the start, a square, or a part of the window.
ExpBit(t, ei, W, wsize, N, mm) ==
  LET nbits == t.nbits + 1
      wbits == t.wbits + ei * 2^(wsize - nbits) IN
  IF ei = 0 /\ t.state = 0 THEN t
  ELSE IF ei = 0 /\ t.state = 1 THEN [t EXCEPT !.x = MontMul(@, @, N, mm)]
  ELSE IF nbits < wsize THEN [t EXCEPT !.state = 2, !.nbits = nbits, !.wbits = wbits]
  ELSE [x |-> MontMul(Squared(t.x, wsize, N, mm), W[wbits], N, mm), state |-> 1, nbits |-> 0, wbits |-> 0]

\* What is left of a window that the exponent does not fill.
ExpRest(t, W1, wsize, N, mm) ==
  FoldLeft(LAMBDA x, i : IF LimbBit(t.wbits, wsize - i) = 1
                         THEN MontMul(MontMul(x, x, N, mm), W1, N, mm) ELSE MontMul(x, x, N, mm),
           t.x, [i \in 1 .. t.nbits |-> i])

\* The bits of the exponent, the first one first.
ExpBits(X, W1, W, E, wsize, N, mm) ==
  ExpRest(FoldLeft(LAMBDA t, ei : ExpBit(t, ei, W, wsize, N, mm),
                   [x |-> X, state |-> 0, nbits |-> 0, wbits |-> 0],
                   [k \in 1 .. Len(E.p) * biL |-> GetBit(E, Len(E.p) * biL - k)]),
          W1, wsize, N, mm)

\* The power, when RR and W[1] are there and X is RR.
RaisedTo(X, W1, E, N, wsize, mm) ==
  MontRed(ExpBits(MontRed(X, N, mm), W1, WindowPowers(W1, wsize, N, mm), E, wsize, N, mm), N, mm)
Raised(R, x, e, n, wsize, mm) ==
  [R EXCEPT ![x] = RaisedTo(@, MontMul(R["exp.W1"], R["exp.RR"], R[n], mm), R[e], R[n], wsize, mm)]

\* R^2 modulo N; A modulo N.
SetRR(R, n, j) == ModMpi(ShiftL(Lset(R, "exp.RR", 1), "exp.RR", 2 * (j - 1) * biL), "exp.RR", "exp.RR", n)
SetW1(R, a, n) == IF CmpMpi(R[a], R[n]) >= 0 THEN ModMpi(R, "exp.W1", a, n) ELSE Copy(R, "exp.W1", a)

PowerModulo(R, x, a, e, n, wsize, mm, j) ==
  Raised(Copy(SetW1(Grow(SetRR(R, n, j), "exp.W1", j), a, n), x, "exp.RR"), x, e, n, wsize, mm)

\* The sign is put back, whatever the exponent is.
Resigned(R, x, n, neg) == IF neg THEN AddMpi(SetSign(R, x, -1), x, n, x) ELSE R

\* N is odd and positive, E not negative; _RR is NULL.
ExpMod(R, x, a, e, n) ==
  LET neg == R[a].s = -1
      j   == Len(R[n].p) + 1
      G   == Grow(Fresh(R, {"exp.RR", "exp.W1", "exp.Apos"}), x, j) IN
  Resigned(PowerModulo(IF neg THEN [Copy(G, "exp.Apos", a) EXCEPT !["exp.Apos"].s = 1] ELSE G,
                       x, IF neg THEN "exp.Apos" ELSE a, e, n, WindowSize(BitLen(R[e])), MontgInit(R[n]), j),
           x, n, neg)
-----------------------------------------------------------------------------
ToOdd(R, x) == ShiftR(R, x, Lsb(R[x]))

RECURSIVE GcdLoop(_)
GcdSub(S) ==
  IF CmpMpi(S["gcd.TA"], S["gcd.TB"]) >= 0
  THEN ShiftR(SubAbs(S, "gcd.TA", "gcd.TA", "gcd.TB"), "gcd.TA", 1)
  ELSE ShiftR(SubAbs(S, "gcd.TB", "gcd.TB", "gcd.TA"), "gcd.TB", 1)
GcdLoop(R) ==
  IF CmpInt(R["gcd.TA"], 0) = 0 THEN R
  ELSE GcdLoop(GcdSub(ToOdd(ToOdd(R, "gcd.TA"), "gcd.TB")))

GcdOdd(R, g, lz) ==
  Copy(ShiftL(GcdLoop(SetSign(SetSign(ShiftR(ShiftR(R, "gcd.TA", lz), "gcd.TB", lz), "gcd.TA", 1), "gcd.TB", 1)),
              "gcd.TB", lz), g, "gcd.TB")
GcdOf(R, g) == GcdOdd(R, g, Min({Lsb(R["gcd.TA"]), Lsb(R["gcd.TB"])}))
Gcd(R, g, a, b) == GcdOf(Copy(Copy(Fresh(R, {"gcd.TA", "gcd.TB"}), "gcd.TA", a), "gcd.TB", b), g)

Odd(m) == m.p[1] % 2 = 1

\* While t is even it is halved, and so are u1 and u2, made even first.
RECURSIVE Halve(_, _, _, _)
MadeEven(R, u1, u2) ==
  IF Odd(R[u1]) \/ Odd(R[u2]) THEN SubMpi(AddMpi(R, u1, u1, "TB"), u2, u2, "TA") ELSE R
Halve(R, t, u1, u2) ==
  IF Odd(R[t]) THEN R
  ELSE Halve(ShiftR(ShiftR(MadeEven(ShiftR(R, t, 1), u1, u2), u1, 1), u2, 1), t, u1, u2)

SubAll(R, t, u1, u2, t0, v1, v2) == SubMpi(SubMpi(SubMpi(R, t, t, t0), u1, u1, v1), u2, u2, v2)

InvHalve(R) == Halve(Halve(R, "TU", "U1", "U2"), "TV", "V1", "V2")
InvSub(S) ==
  IF CmpMpi(S["TU"], S["TV"]) >= 0
  THEN SubAll(S, "TU", "U1", "U2", "TV", "V1", "V2")
  ELSE SubAll(S, "TV", "V1", "V2", "TU", "U1", "U2")

RECURSIVE InvLoop(_)
InvLoop(R) == IF CmpInt(R["TU"], 0) # 0 THEN InvLoop(InvSub(InvHalve(R))) ELSE R

InvCopies(R, n) == Copy(Copy(Copy(R, "TU", "TA"), "TB", n), "TV", n)
InvStart(R) == Lset(Lset(Lset(Lset(R, "U1", 1), "U2", 0), "V1", 0), "V2", 1)

\* N > 1 and no common divisor with A, so A is not zero and the loop is entered.
InvMod(R, x, a, n) ==
  Copy(IntoRange(InvLoop(InvStart(InvCopies(
         ModMpi(Fresh(R, {"TA", "TU", "U1", "U2", "TB", "TV", "V1", "V2"}), "TA", a, n), n))), "V1", n), x, "V1")
-----------------------------------------------------------------------------
VARIABLES
  regs,     \* the registers of the caller
  call,     \* the last call
  ret       \* its error and what it returned

mpiVars == <<regs, call, ret>>

value == [r \in Reg |-> Value(regs[r])]

Promised == INSTANCE MpiSpec

Divisor(c) == Gcd(regs @@ [l \in Locals |-> Empty], "inv.G", c.a, c.n)["inv.G"]

Error(c) ==
  LET zero(r) == CmpInt(regs[r], 0) = 0
      less(r) == CmpInt(regs[r], 0) < 0 IN
  CASE c.op = "sub_abs" /\ CmpAbs(regs[c.a], regs[c.b]) < 0 -> "NEGATIVE_VALUE"
    [] c.op = "div" /\ zero(c.b)          -> "DIVISION_BY_ZERO"
    [] c.op = "mod" /\ less(c.b)          -> "NEGATIVE_VALUE"
    [] c.op = "mod" /\ zero(c.b)          -> "DIVISION_BY_ZERO"
    [] c.op \in {"div_int", "mod_int"} /\ c.z = 0 -> "DIVISION_BY_ZERO"
    [] c.op = "mod_int" /\ c.z < 0        -> "NEGATIVE_VALUE"
    [] c.op = "write_binary" /\ c.k < Size(regs[c.a]) -> "BUFFER_TOO_SMALL"
    [] c.op = "exp_mod" /\ (less(c.n) \/ ~Odd(regs[c.n]) \/ less(c.b)) -> "BAD_INPUT_DATA"
    [] c.op = "inv_mod" /\ (less(c.n) \/ zero(c.n))        -> "BAD_INPUT_DATA"
    [] c.op = "inv_mod" /\ CmpInt(Divisor(c), 1) # 0     -> "NOT_ACCEPTABLE"
    [] OTHER -> "none"

After(R, c) ==
  CASE c.op = "copy"        -> Copy(R, c.x, c.a)
    [] c.op = "cond_assign" -> SafeCondAssign(R, c.x, c.a, c.k)
    [] c.op = "swap"        -> Swap(R, c.x, c.y)
    [] c.op = "cond_swap"   -> SafeCondSwap(R, c.x, c.y, c.k)
    [] c.op = "lset"        -> Lset(R, c.x, c.z)
    [] c.op = "set_bit"     -> SetBit(R, c.x, c.k, c.z)
    [] c.op = "shift_l"     -> ShiftL(R, c.x, c.k)
    [] c.op = "shift_r"     -> ShiftR(R, c.x, c.k)
    [] c.op = "read_binary" -> ReadBinary(R, c.x, c.buf)
    [] c.op = "add_abs"     -> AddAbs(R, c.x, c.a, c.b)
    [] c.op = "sub_abs"     -> SubAbs(R, c.x, c.a, c.b)
    [] c.op = "add"         -> AddMpi(R, c.x, c.a, c.b)
    [] c.op = "sub"         -> SubMpi(R, c.x, c.a, c.b)
    [] c.op = "mul"         -> MulMpi(R, c.x, c.a, c.b)
    [] c.op = "add_int"     -> AddMpi(WithInt(R, "_B", c.z), c.x, c.a, "_B")
    [] c.op = "sub_int"     -> SubMpi(WithInt(R, "_B", c.z), c.x, c.a, "_B")
    [] c.op = "mul_int"     -> MulInt(R, c.x, c.a, c.z)
    [] c.op = "div"         -> DivMpi(R, c.x, c.y, c.a, c.b)
    [] c.op = "div_int"     -> DivMpi(WithInt(R, "_B", c.z), c.x, c.y, c.a, "_B")
    [] c.op = "mod"         -> ModMpi(R, c.x, c.a, c.b)
    [] c.op = "exp_mod"     -> ExpMod(R, c.x, c.a, c.b, c.n)
    [] c.op = "gcd"         -> Gcd(R, c.x, c.a, c.b)
    [] c.op = "inv_mod"     -> InvMod(R, c.x, c.a, c.n)
    [] OTHER                -> R

Returned(c) ==
  CASE c.op = "cmp_abs" -> CmpAbs(regs[c.a], regs[c.b])
    [] c.op = "cmp"     -> CmpMpi(regs[c.a], regs[c.b])
    [] c.op = "cmp_int" -> CmpInt(regs[c.a], c.z)
    [] c.op = "get_bit" -> GetBit(regs[c.a], c.k)
    [] c.op = "lsb"     -> Lsb(regs[c.a])
    [] c.op = "bitlen"  -> BitLen(regs[c.a])
    [] c.op = "size"    -> Size(regs[c.a])
    [] c.op = "mod_int" -> ModInt(regs[c.a], c.z)
    [] c.op = "write_binary" -> WriteBinary(regs[c.a], c.k)
    [] OTHER            -> 0

\* Of the other calls the code does not do what the header promises:
\* a quotient that is also an operand; a modulus that is also the remainder, or
\* that or the exponent also the power; a power of a negative integer; a divisor
\* that does not fit half a limb; an integer that has no limbs yet in mod_int and
\* exp_mod; a divisor common with zero; an inverse modulo 1; a bit of a zero whose
\* sign is negative.
Proper(c) ==
  LET zero(r) == CmpInt(regs[r], 0) = 0 IN
  /\ c.op \in {"div", "div_int"} => c.x \notin ({c.y, c.a} \cup (IF c.op = "div" THEN {c.b} ELSE {}))
  /\ c.op = "mod" => c.x # c.b
  /\ c.op = "mod_int" => c.z <= 2^biH /\ regs[c.a].p # <<>>
  /\ c.op = "exp_mod" => c.x \notin {c.b, c.n} /\ regs[c.a].s = 1 /\ <<>> \notin {regs[c.a].p, regs[c.n].p}
  /\ c.op = "gcd" => ~zero(c.b) \/ zero(c.a)
  /\ c.op = "inv_mod" => CmpInt(regs[c.n], 1) # 0
  /\ c.op = "set_bit" => regs[c.x].s = 1 \/ ~zero(c.x)

MpiInit ==
  /\ regs \in {r \in [Reg -> UNION {Start(x) : x \in Reg}] : \A x \in Reg : r[x] \in Start(x)}
  /\ call = Promised!NoCall
  /\ ret = <<"none", 0>>

Assign(R) == regs' = [r \in Reg |-> R[r]]
Outcome(c, error) ==
  IF error # "none"
  THEN ret' = <<error, 0>> /\ UNCHANGED regs
  ELSE ret' = <<"none", Returned(c)>> /\ Assign(After(regs @@ [l \in Locals |-> Empty], c))

Call(c) ==
  /\ Careful => Proper(c)
  /\ call' = c
  /\ Outcome(c, Error(c))

MpiNext == call = Promised!NoCall /\ \E c \in Calls : Call(c)

MpiFunctions == MpiInit /\ [][MpiNext]_mpiVars

\* Every call has the result that bignum.h names, whatever the registers held and
\* whichever of them are the same.  Code: bignum.c.
ImplementsIntegers == Promised!MSpec
=============================================================================
