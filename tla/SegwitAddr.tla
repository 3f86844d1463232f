------------------------------ MODULE SegwitAddr ------------------------------
(***************************************************************************)
(* segwit_addr.c: addresses of witness programs, and the code with a check *)
(* sum of six symbols they are written in.  A check sum of 30 bits is the  *)
(* set of the bits that are one.  Characters are their codes, strings      *)
(* sequences of codes.                                                     *)
(***************************************************************************)
EXTENDS BitGroups

CONSTANTS
  HumanParts,   \* the human readable parts
  Versions,     \* the versions of witness programs, legal or not
  Programs,     \* the witness programs, legal or not
  Foreign,      \* the symbols of texts other programs make, with any check sum
  Typed,        \* the characters that are mistyped
  MaxErrors     \* bound: characters mistyped

VARIABLES
  given,     \* what was encoded, of this prefix, or NoProgram for a foreign text
  address,   \* the address as it was made, or Refused
  text,      \* the address as it is read
  errors,    \* how many characters of it were mistyped
  read, result   \* whether it was decoded, and what segwit_addr_decode makes of it

segVars == <<given, address, text, errors, read, result>>

Refused == <<>>
NoProgram == [version |-> -1, program |-> <<>>]

Generator == <<Bits(\h3b6a57b2), Bits(\h26508e6d), Bits(\h1ea119fa), Bits(\h3d4233dd), Bits(\h2a1462b3)>>

\* bech32_polymod_step
bech32_polymod_step(pre) ==
  LET top == {g \in 1 .. 5 : g + 24 \in pre} IN
  Xor({b + 5 : b \in pre \cap 0 .. 24},
      {b \in 0 .. 29 : Cardinality({g \in top : b \in Generator[g]}) % 2 = 1})

\* (The union of one set lets TLC compute each step before the next.)
Polymod(chk, symbols) ==
  LET f[i \in 0 .. Len(symbols)] ==
        IF i = 0 THEN chk
        ELSE UNION {Xor(bech32_polymod_step(c), Bits(symbols[i])) : c \in {f[i - 1]}} IN
  f[Len(symbols)]

\* bech32_final_constant
BECH32 == Bits(1)
BECH32M == Bits(\h2bc830a3)

\* charset: qpzry9x8gf2tvdw0s3jn54khce6mua7l
charset == <<113, 112, 122, 114, 121, 57, 120, 56, 103, 102, 50, 116, 118, 100, 119, 48,
             115, 51, 106, 110, 53, 52, 107, 104, 99, 101, 54, 109, 117, 97, 55, 108>>
One == 49
Upper == 65 .. 90
Lower == 97 .. 122
ToLower(ch) == IF ch \in Upper THEN ch + 32 ELSE ch

\* charset_rev, of a letter of either case.
charset_rev(ch) == CHOOSE v \in 0 .. 31 : charset[v + 1] = ToLower(ch)
InCharset(ch) == \E v \in 0 .. 31 : charset[v + 1] = ToLower(ch)

Writable(ch) == ch \in 33 .. 126

\* The check sum of the prefix: its high bits, a zero, its low bits.
OfPrefix(hrp) ==
  Polymod({0}, [i \in DOMAIN hrp |-> hrp[i] \div 32] \o <<0>> \o [i \in DOMAIN hrp |-> hrp[i] % 32])

ToNumber(bits) == FoldLeft(LAMBDA n, b : 2 * n + (IF 5 - b \in bits THEN 1 ELSE 0), 0, <<1, 2, 3, 4, 5>>)

\* Symbol i of the six of a check sum, the highest first.
ChecksumSymbol(chk, i) == ToNumber({b \in 0 .. 4 : b + 5 * (6 - i) \in chk})

\* bech32_encode
bech32_encode(hrp, data, enc) ==
  IF \/ \E i \in DOMAIN hrp : ~Writable(hrp[i]) \/ hrp[i] \in Upper
     \/ Len(hrp) + 7 + Len(data) > 128
     \/ \E i \in DOMAIN data : data[i] > 31
  THEN Refused
  ELSE LET chk == Xor(Polymod(OfPrefix(hrp), data \o <<0, 0, 0, 0, 0, 0>>), enc) IN
       hrp \o <<One>> \o [i \in DOMAIN data |-> charset[data[i] + 1]]
           \o [i \in 1 .. 6 |-> charset[ChecksumSymbol(chk, i) + 1]]

\* Changed on purpose: both cases may be mixed.
MixedIsFine(input) == TRUE

OneCase(input) ==
  ~((\E i \in DOMAIN input : input[i] \in Upper) /\ (\E i \in DOMAIN input : input[i] \in Lower))

\* bech32_decode: the last separator ends the prefix.  The symbols without the
\* check sum, and what the check sum comes to; or Refused.
bech32_decode(input) ==
  LET ones    == {i \in DOMAIN input : input[i] = One}
      at      == Max(ones)
      hrp     == [i \in 1 .. at - 1 |-> ToLower(input[i])]
      symbols == [i \in 1 .. Len(input) - at |-> charset_rev(input[at + i])]
      chk     == Polymod(OfPrefix(hrp), symbols) IN
  IF \/ Len(input) \notin 8 .. 90 \/ ones = {}
     \/ at = 1 \/ Len(input) - at < 6
     \/ \E i \in 1 .. at - 1 : ~Writable(input[i])
     \/ \E i \in at + 1 .. Len(input) : ~InCharset(input[i])
     \/ ~OneCase(input) \/ chk \notin {BECH32, BECH32M}
  THEN Refused
  ELSE <<hrp, SubSeq(symbols, 1, Len(symbols) - 6), chk>>

\* Changed on purpose: the bits left over are not looked at.
RegroupedWhatever(data) == TRUE

\* convert_bits from 5 to 8 without padding: less than a symbol is left over, and
\* it is zero.
RegroupedExactly(data) ==
  /\ BitsLeft(data, 5, 8) < 5
  /\ Group(data, 5, Len(data) * 5 - BitsLeft(data, 5, 8), BitsLeft(data, 5, 8)) = 0

RightEncoding(version, enc) == enc = IF version = 0 THEN BECH32 ELSE BECH32M

LegalLength(version, n) == n \in 2 .. 40 /\ (version = 0 => n \in {20, 32})

\* segwit_addr_encode
segwit_addr_encode(hrp, version, program) ==
  IF version > 16 \/ ~LegalLength(version, Len(program)) THEN Refused
  ELSE bech32_encode(hrp, <<version>> \o RegroupPadded(program, 8, 5),
                     IF version > 0 THEN BECH32M ELSE BECH32)

\* segwit_addr_decode
segwit_addr_decode(hrp, addr) ==
  LET decoded == bech32_decode(addr)
      version == Head(decoded[2])
      data    == Tail(decoded[2])
      program == Regroup(data, 5, 8) IN
  IF \/ decoded = Refused
     \/ Len(decoded[2]) \notin 1 .. 65 \/ hrp # decoded[1]
     \/ version > 16 \/ ~RightEncoding(version, decoded[3])
     \/ ~RegroupedExactly(data) \/ ~LegalLength(version, Len(program))
  THEN NoProgram
  ELSE [version |-> version, program |-> program]
-----------------------------------------------------------------------------
CONSTANT Hrp    \* the prefix the wallet expects

SegInit ==
  /\ given = NoProgram /\ address = Refused /\ text = <<>> /\ errors = 0
  /\ read = FALSE /\ result = NoProgram

Encode ==
  /\ address = Refused /\ given = NoProgram
  /\ \E v \in Versions, p \in Programs :
       /\ given' = [version |-> v, program |-> p]
       /\ address' = segwit_addr_encode(Hrp, v, p)
  /\ text' = address'
  /\ UNCHANGED <<errors, read, result>>

\* Another program made the text: any symbols, any check sum, any prefix.
MadeElsewhere ==
  /\ address = Refused /\ given = NoProgram
  /\ \E hrp \in HumanParts, data \in Foreign, enc \in {BECH32, BECH32M} :
       address' = bech32_encode(hrp, data, enc)
  /\ text' = address'
  /\ UNCHANGED <<given, errors, read, result>>

\* It is copied by hand or read from a picture.
Mistype ==
  /\ address # Refused /\ given # NoProgram /\ errors < MaxErrors /\ ~read
  /\ errors' = errors + 1
  /\ \E i \in DOMAIN text, ch \in Typed :
       /\ text[i] = address[i] /\ ch # text[i]
       /\ text' = [text EXCEPT ![i] = ch]
  /\ UNCHANGED <<given, address, read, result>>

InCapitals ==
  /\ text # <<>> /\ errors = 0 /\ text = address
  /\ text' = [i \in DOMAIN text |-> IF text[i] \in Lower THEN text[i] - 32 ELSE text[i]]
  /\ UNCHANGED <<given, address, errors, read, result>>

Decode ==
  /\ text # <<>> /\ ~read
  /\ read' = TRUE
  /\ result' = segwit_addr_decode(Hrp, text)
  /\ UNCHANGED <<given, address, text, errors>>

SegNext == Encode \/ MadeElsewhere \/ Mistype \/ InCapitals \/ Decode
-----------------------------------------------------------------------------
\* What is encoded is read back, in small letters or capitals, and what is no
\* witness program is not encoded.  Code: the two functions against each other.
EncodedIsRead ==
  /\ (read /\ given # NoProgram /\ errors = 0) => result = given
  /\ given # NoProgram =>
       (address # Refused) =
         /\ given.version \in 0 .. 16 /\ Len(given.program) \in 2 .. 40
         /\ given.version = 0 => Len(given.program) \in {20, 32}

\* An address with few characters mistyped is refused.  Code: bech32_polymod_step.
ErrorsAreSeen == (read /\ errors > 0) => result = NoProgram

\* Whatever is accepted is the address this program makes of the same witness
\* program: there is one address for each.  Code: segwit_addr_decode.
OneAddressEach ==
  (read /\ result # NoProgram) =>
    segwit_addr_encode(Hrp, result.version, result.program) = [i \in DOMAIN text |-> ToLower(text[i])]

\* Addresses and witness programs correspond one to one, and few errors are seen.
AddressesAreRight == EncodedIsRead /\ OneAddressEach /\ ErrorsAreSeen
=============================================================================
