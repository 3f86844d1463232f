------------------------------ MODULE QrEncode ------------------------------
(***************************************************************************)
(* qr_encode.c: a text as a QR code.  The text is cut into blocks of       *)
(* digits, capitals and bytes, some of which are joined to save bits; the  *)
(* bits are filled up to the code words of a version, divided into blocks  *)
(* with their error correction, interleaved, and laid along a zigzag       *)
(* around the patterns every symbol has.                                   *)
(*                                                                         *)
(* A byte is the set of its bits that are one, a module is <<x, y>>, a     *)
(* symbol is the set of its dark modules.  Levels L, M, Q, H are 1 to 4;   *)
(* the groups of versions S, M, L are 1 to 3.  Which masking pattern looks *)
(* best (CountPenalty) is not computed: it may be any.                     *)
(***************************************************************************)
EXTENDS BitGroups

CONSTANTS
  Calls,        \* the arguments of qr_encode: texts, sequences of codes of
                \* characters, levels, and versions, or 0 for the smallest
  MaxVersion    \* bound: the versions that are tried

Digits == 48 .. 57
Capitals == 65 .. 90
Signs == <<32, 36, 37, 42, 43, 45, 46, 47, 58>>    \* space $ % * + - . / :

\* AlphabetToBinary
AlphabetToBinary(c) ==
  IF c \in Digits THEN c - 48
  ELSE IF c \in Capitals THEN c - 55
  ELSE 35 + CHOOSE i \in DOMAIN Signs : Signs[i] = c

\* IsNumeralData, IsAlphabetData
Mode(c) ==
  IF c \in Digits THEN "numeral"
  ELSE IF c \in Capitals \/ Contains(Signs, c) THEN "alphabet" ELSE "byte"

nIndicatorLen == [numeral |-> <<10, 12, 14>>, alphabet |-> <<9, 11, 13>>, byte |-> <<8, 16, 16>>]

\* The lengths of a block of n characters, its mode and its count included.
GetBitLength(mode, n, group) ==
  4 + nIndicatorLen[mode][group] +
  CASE mode = "numeral"  -> 10 * (n \div 3) + <<0, 4, 7>>[(n % 3) + 1]
    [] mode = "alphabet" -> 11 * (n \div 2) + 6 * (n % 2)
    [] mode = "byte"     -> 8 * n
-----------------------------------------------------------------------------
(* EncodeSourceData: the blocks.                                           *)

\* Blocks i and i + 1 become one.
Merge(blocks, i, mode) ==
  SubSeq(blocks, 1, i - 1)
    \o <<[mode |-> mode, length |-> blocks[i].length + blocks[i + 1].length]>>
    \o SubSeq(blocks, i + 2, Len(blocks))

\* As long as possible without a change of mode.
Runs(text) ==
  FoldLeft(LAMBDA blocks, c :
             LET one == Append(blocks, [mode |-> Mode(c), length |-> 1]) IN
             IF blocks # <<>> /\ Last(blocks).mode = Mode(c)
             THEN Merge(one, Len(blocks), Mode(c)) ELSE one,
           <<>>, text)

IsA(blocks, i, mode) == i \in DOMAIN blocks /\ blocks[i].mode = mode

BlockBits(blocks, i, group) == GetBitLength(blocks[i].mode, blocks[i].length, group)
BitsAs(mode, blocks, i, group) == GetBitLength(mode, blocks[i].length + blocks[i + 1].length, group)

\* The first pass: digits next to capitals, from block i on.  They are joined
\* when that saves bits, unless one of them does better in the bytes beside it.
RECURSIVE JoinAlphabet(_, _, _)
JoinAlphabet(blocks, i, group) ==
  LET modes  == {blocks[i].mode, blocks[i + 1].mode}
      joined == BitsAs("alphabet", blocks, i, group)
      front  == BitsAs("byte", blocks, i - 1, group) + BlockBits(blocks, i + 1, group)
      behind == BlockBits(blocks, i, group) + BitsAs("byte", blocks, i + 1, group)
      bindFront  == /\ IsA(blocks, i - 1, "byte")
                    /\ front <= joined + BlockBits(blocks, i - 1, group)
      bindBehind == /\ IsA(blocks, i + 2, "byte")
                    /\ behind <= joined + BlockBits(blocks, i + 2, group)
      tail == IF IsA(blocks, i + 2, "alphabet") THEN Merge(blocks, i + 1, blocks[i + 1].mode) ELSE blocks
      both == Merge(tail, i, "alphabet")
  IN
  IF i >= Len(blocks) THEN blocks
  ELSE IF \/ modes # {"numeral", "alphabet"}
          \/ BlockBits(blocks, i, group) + BlockBits(blocks, i + 1, group) <= joined
  THEN JoinAlphabet(blocks, i + 1, group)
  ELSE IF bindFront /\ (bindBehind => front < behind)
  THEN JoinAlphabet(Merge(blocks, i - 1, "byte"), i, group)
  ELSE IF bindBehind
  THEN JoinAlphabet(Merge(blocks, i + 1, "byte"), i, group)
  ELSE JoinAlphabet(IF IsA(blocks, i - 1, "alphabet") THEN Merge(both, i - 1, "alphabet") ELSE both,
                    i, group)

\* The second pass: short blocks become bytes, when that saves bits.  Bytes
\* before or behind need no mode and count of their own.
RECURSIVE JoinBytes(_, _, _)
JoinBytes(blocks, i, group) ==
  LET header == 4 + nIndicatorLen["byte"][group]
      before == IsA(blocks, i - 1, "byte")
      behind == IsA(blocks, i + 2, "byte")
      joined == BitsAs("byte", blocks, i, group)
                  - (IF before THEN header ELSE 0) - (IF behind THEN header ELSE 0)
      at     == IF before THEN i - 1 ELSE i
      first  == IF before THEN Merge(blocks, i - 1, "byte") ELSE blocks
      second == IF IsA(first, at + 2, "byte") THEN Merge(first, at + 1, "byte") ELSE first
  IN
  IF i >= Len(blocks) THEN blocks
  ELSE IF BlockBits(blocks, i, group) + BlockBits(blocks, i + 1, group) <= joined
  THEN JoinBytes(blocks, i + 1, group)
  ELSE JoinBytes(Merge(second, at, "byte"), IF at > 1 THEN at - 1 ELSE at, group)

Blocks(text, group) == JoinBytes(JoinAlphabet(Runs(text), 1, group), 1, group)
-----------------------------------------------------------------------------
(* EncodeSourceData: the bits.  (They never exceed the largest version.)   *)

\* SetBitStream
BitsOf(number, n) == [b \in 1 .. n |-> (number \div 2 ^ (n - b)) % 2]

\* The text in groups of up to n characters, each a number to the base, in as
\* many bits as a group of that length takes.
InGroups(text, n, base, widths) ==
  FlattenSeq([k \in 1 .. (Len(text) + n - 1) \div n |->
    LET part == SubSeq(text, n * (k - 1) + 1, Min({n * k, Len(text)})) IN
    BitsOf(FoldLeft(LAMBDA v, c : base * v + c, 0, part), widths[Len(part)])])

Values(text) == [i \in DOMAIN text |-> AlphabetToBinary(text[i])]

EncodeBlock(block, text, group) ==
  BitsOf(CASE block.mode = "numeral" -> 1 [] block.mode = "alphabet" -> 2 [] block.mode = "byte" -> 4, 4)
    \o BitsOf(block.length, nIndicatorLen[block.mode][group])
    \o CASE block.mode = "numeral"  -> InGroups(Values(text), 3, 10, <<4, 7, 10>>)
         [] block.mode = "alphabet" -> InGroups(Values(text), 2, 45, <<6, 11>>)
         [] block.mode = "byte"     -> InGroups(text, 1, 256, <<8>>)

EncodeSourceData(text, group) ==
  LET blocks == Blocks(text, group)
      start(i) == FoldLeft(LAMBDA n, b : n + b.length, 0, SubSeq(blocks, 1, i - 1)) IN
  FlattenSeq([i \in DOMAIN blocks |->
    EncodeBlock(blocks[i], SubSeq(text, start(i) + 1, start(i) + blocks[i].length), group)])
-----------------------------------------------------------------------------
(* The tables of qr_consts.h.                                              *)

\* QR_VersonInfo: of each version, its code words, those with data for each
\* level, its alignment patterns, and for each level two kinds of blocks: how
\* many, the code words of each and those with data.
QR_VersonInfo == <<
 [all |-> 26, data |-> <<19, 16, 13, 9>>, align |-> {},
   block1 |-> <<<<1, 26, 19>>, <<1, 26, 16>>, <<1, 26, 13>>, <<1, 26, 9>>>>,
   block2 |-> <<<<0, 0, 0>>, <<0, 0, 0>>, <<0, 0, 0>>, <<0, 0, 0>>>>],
 [all |-> 44, data |-> <<34, 28, 22, 16>>, align |-> {18},
   block1 |-> <<<<1, 44, 34>>, <<1, 44, 28>>, <<1, 44, 22>>, <<1, 44, 16>>>>,
   block2 |-> <<<<0, 0, 0>>, <<0, 0, 0>>, <<0, 0, 0>>, <<0, 0, 0>>>>],
 [all |-> 70, data |-> <<55, 44, 34, 26>>, align |-> {22},
   block1 |-> <<<<1, 70, 55>>, <<1, 70, 44>>, <<2, 35, 17>>, <<2, 35, 13>>>>,
   block2 |-> <<<<0, 0, 0>>, <<0, 0, 0>>, <<0, 0, 0>>, <<0, 0, 0>>>>],
 [all |-> 100, data |-> <<80, 64, 48, 36>>, align |-> {26},
   block1 |-> <<<<1, 100, 80>>, <<2, 50, 32>>, <<2, 50, 24>>, <<4, 25, 9>>>>,
   block2 |-> <<<<0, 0, 0>>, <<0, 0, 0>>, <<0, 0, 0>>, <<0, 0, 0>>>>],
 [all |-> 134, data |-> <<108, 86, 62, 46>>, align |-> {30},
   block1 |-> <<<<1, 134, 108>>, <<2, 67, 43>>, <<2, 33, 15>>, <<2, 33, 11>>>>,
   block2 |-> <<<<0, 0, 0>>, <<0, 0, 0>>, <<2, 34, 16>>, <<2, 34, 12>>>>],
 [all |-> 172, data |-> <<136, 108, 76, 60>>, align |-> {34},
   block1 |-> <<<<2, 86, 68>>, <<4, 43, 27>>, <<4, 43, 19>>, <<4, 43, 15>>>>,
   block2 |-> <<<<0, 0, 0>>, <<0, 0, 0>>, <<0, 0, 0>>, <<0, 0, 0>>>>],
 [all |-> 196, data |-> <<156, 124, 88, 66>>, align |-> {22, 38},
   block1 |-> <<<<2, 98, 78>>, <<4, 49, 31>>, <<2, 32, 14>>, <<4, 39, 13>>>>,
   block2 |-> <<<<0, 0, 0>>, <<0, 0, 0>>, <<4, 33, 15>>, <<1, 40, 14>>>>],
 [all |-> 242, data |-> <<194, 154, 110, 86>>, align |-> {24, 42},
   block1 |-> <<<<2, 121, 97>>, <<2, 60, 38>>, <<4, 40, 18>>, <<4, 40, 14>>>>,
   block2 |-> <<<<0, 0, 0>>, <<2, 61, 39>>, <<2, 41, 19>>, <<2, 41, 15>>>>],
 [all |-> 292, data |-> <<232, 182, 132, 100>>, align |-> {26, 46},
   block1 |-> <<<<2, 146, 116>>, <<3, 58, 36>>, <<4, 36, 16>>, <<4, 36, 12>>>>,
   block2 |-> <<<<0, 0, 0>>, <<2, 59, 37>>, <<4, 37, 17>>, <<4, 37, 13>>>>],
 [all |-> 346, data |-> <<274, 216, 154, 122>>, align |-> {28, 50},
   block1 |-> <<<<2, 86, 68>>, <<4, 69, 43>>, <<6, 43, 19>>, <<6, 43, 15>>>>,
   block2 |-> <<<<2, 87, 69>>, <<1, 70, 44>>, <<2, 44, 20>>, <<2, 44, 16>>>>]>>

\* byExpToInt, byIntToExp: the powers of 2 modulo x^8 + x^4 + x^3 + x^2 + 1.
byExpToInt ==
  LET power[e \in 0 .. 254] ==
        IF e = 0 THEN {0}
        ELSE LET double == {b + 1 : b \in power[e - 1]} IN
             IF 8 \in double THEN Xor(double, Bits(285)) ELSE double IN
  [e \in 0 .. 254 |-> power[e]]
byIntToExp == [n \in SUBSET (0 .. 7) \ {{}} |-> CHOOSE e \in 0 .. 254 : byExpToInt[e] = n]

\* byRSExp: the generator polynomial of so many code words of correction.
byRSExp ==
  7 :> <<87, 229, 146, 149, 238, 102, 21>>
  @@ 10 :> <<251, 67, 46, 61, 118, 70, 64, 94, 32, 45>>
  @@ 13 :> <<74, 152, 176, 100, 86, 100, 106, 104, 130, 218, 206, 140, 78>>
  @@ 15 :> <<8, 183, 61, 91, 202, 37, 51, 58, 58, 237, 140, 124, 5, 99, 105>>
  @@ 16 :> <<120, 104, 107, 109, 102, 161, 76, 3, 91, 191, 147, 169, 182, 194, 225, 120>>
  @@ 17 :> <<43, 139, 206, 78, 43, 239, 123, 206, 214, 147, 24, 99, 150, 39, 243, 163, 136>>
  @@ 18 :> <<215, 234, 158, 94, 184, 97, 118, 170, 79, 187,
         152, 148, 252, 179, 5, 98, 96, 153>>
  @@ 20 :> <<17, 60, 79, 50, 61, 163, 26, 187, 202, 180, 221,
         225, 83, 239, 156, 164, 212, 212, 188, 190>>
  @@ 22 :> <<210, 171, 247, 242, 93, 230, 14, 109, 221, 53, 200, 74,
         8, 172, 98, 80, 219, 134, 160, 105, 165, 231>>
  @@ 24 :> <<229, 121, 135, 48, 211, 117, 251, 126, 159, 180, 169, 152, 192,
         226, 228, 218, 111, 0, 117, 232, 87, 96, 227, 21>>
  @@ 26 :> <<173, 125, 158, 2, 103, 182, 118, 17, 145, 201, 111, 28, 165, 53,
         161, 21, 245, 142, 13, 102, 48, 227, 153, 145, 218, 70>>
  @@ 28 :> <<168, 223, 200, 104, 224, 234, 108, 180, 110, 190, 195, 147, 205, 27, 232,
         201, 21, 43, 245, 87, 42, 195, 212, 119, 242, 37, 9, 123>>
  @@ 30 :> <<41, 173, 145, 152, 216, 31, 179, 182, 50, 48, 110, 86, 239, 96, 222, 125,
         42, 173, 226, 193, 224, 130, 156, 37, 251, 216, 238, 40, 192, 180>>

\* The group a version belongs to.
GroupOf(version) == IF version >= 27 THEN 3 ELSE IF version >= 10 THEN 2 ELSE 1
-----------------------------------------------------------------------------
(* The code words.                                                         *)

\* GetEncodeVersion: the first version from the group of the one asked for that
\* has room, and 0 if there is none.
GetEncodeVersion(asked, text, level) ==
  LET room == {v \in 1 .. MaxVersion :
                 /\ GroupOf(v) >= GroupOf(asked)
                 /\ (Len(EncodeSourceData(text, GroupOf(v))) + 7) \div 8 <= QR_VersonInfo[v].data[level]} IN
  IF room = {} THEN 0 ELSE Min(room)

\* The bits with a terminator, as bytes, and bytes of padding up to the capacity.
DataCodeWords(bits, capacity) ==
  LET ended == bits \o [i \in 1 .. Min({4, 8 * capacity - Len(bits)}) |-> 0]
      full  == (Len(ended) + 7) \div 8
      dark(k) == {b \in 0 .. 7 : 8 * k - b <= Len(ended) /\ ended[8 * k - b] = 1} IN
  [k \in 1 .. capacity |->
    IF k <= full THEN dark(k) ELSE Bits(IF (k - full) % 2 = 1 THEN 236 ELSE 17)]

\* One step of the division: the first code word goes, the rest moves up.
Divide(work, n) ==
  LET first == byIntToExp[work[1]] IN
  SubSeq([j \in 1 .. Len(work) - 1 |->
            IF work[1] # {} /\ j <= n
            THEN Xor(work[j + 1], byExpToInt[(byRSExp[n][j] + first) % 255])
            ELSE work[j + 1]], 1, Len(work) - 1)

\* GetRSCodeWord: n code words of correction for a block.
GetRSCodeWord(block, n) ==
  FoldLeft(LAMBDA work, i : Divide(work, n), block \o [j \in 1 .. n |-> {}], [i \in DOMAIN block |-> i])

\* The data of the blocks: those of the second kind have one code word more.
DataBlocks(words, info, level) ==
  LET one == info.block1[level]
      two == info.block2[level] IN
  [k \in 1 .. one[1] + two[1] |->
    IF k <= one[1] THEN SubSeq(words, (k - 1) * one[3] + 1, k * one[3])
    ELSE LET from == one[1] * one[3] + (k - one[1] - 1) * two[3] IN
         SubSeq(words, from + 1, from + two[3])]

\* Changed on purpose: one block after the other.
NotInterleaved(blocks) == FlattenSeq(blocks)

\* The first code word of every block, the second of every block, ...
Interleaved(blocks) ==
  FlattenSeq([j \in 1 .. Max({Len(blocks[k]) : k \in DOMAIN blocks}) |->
    LET column == SelectSeq([k \in DOMAIN blocks |-> k], LAMBDA k : Len(blocks[k]) >= j) IN
    [k \in DOMAIN column |-> blocks[column[k]][j]]])

AllCodeWords(words, info, level) ==
  LET data == DataBlocks(words, info, level)
      n    == info.block1[level][2] - info.block1[level][3] IN
  Interleaved(data) \o Interleaved([k \in DOMAIN data |-> GetRSCodeWord(data[k], n)])
-----------------------------------------------------------------------------
(* The patterns of a symbol of n by n modules.                             *)

Size(version) == version * 4 + 17

Distance(m, c) == Max({m[1] - c[1], c[1] - m[1], m[2] - c[2], c[2] - m[2]})
Around(c, r) == (c[1] - r .. c[1] + r) \X (c[2] - r .. c[2] + r)

\* Finder patterns, their separators and the format information.
Finders(n) == {<<3, 3>>, <<n - 4, 3>>, <<3, n - 4>>}
Corners(n) ==
  ((0 .. 8) \X (0 .. 8)) \cup ((n - 8 .. n - 1) \X (0 .. 8)) \cup ((0 .. 8) \X (n - 8 .. n - 1))

\* SetVersionPattern: bit b of the version's number, in two places.
VersionAt(b, n) == {<<n - 11 + (b % 3), b \div 3>>, <<b \div 3, n - 11 + (b % 3)>>}
VersionArea(version) ==
  IF version <= 6 THEN {} ELSE UNION {VersionAt(b, Size(version)) : b \in 0 .. 17}

\* SetAlignmentPattern: none where another pattern is already.
Alignments(version) ==
  LET at == QR_VersonInfo[version].align IN
  {c \in (at \X at) \cup (at \X {6}) \cup ({6} \X at) :
     c \notin Corners(Size(version)) \cup VersionArea(version)}

Timing(n) == ((8 .. n - 9) \X {6}) \cup ({6} \X (8 .. n - 9))

\* SetFunctionModule: the modules that hold no data.
FunctionModules(version) ==
  Corners(Size(version)) \cup VersionArea(version) \cup Timing(Size(version))
    \cup UNION {Around(c, 2) : c \in Alignments(version)}

\* What is left of a number, a set of bits, by a generator: so many steps, the
\* first of them for bit "top".
Remainder(number, generator, top, steps) ==
  FoldLeft(LAMBDA d, i : IF top + 1 - i \in d THEN Xor(d, {b + steps - i : b \in generator}) ELSE d,
           number, [i \in 1 .. steps |-> i])

VersionData(version) ==
  LET data == Bits(version * 2 ^ 12) IN Remainder(data, Bits(\h1f25), 17, 6) \cup data

FormatData(level, mask) ==
  LET data == Bits((<<8, 0, 24, 16>>[level] + mask) * 2 ^ 10) IN
  Xor(Remainder(data, Bits(\h0537), 14, 5) \cup data, Bits(\h5412))

\* SetFormatInfoPattern: the two places of bit b.
FormatAt(b, n) ==
  {IF b <= 5 THEN <<8, b>> ELSE IF b <= 7 THEN <<8, b + 1>> ELSE IF b = 8 THEN <<7, 8>> ELSE <<14 - b, 8>>,
   IF b <= 7 THEN <<n - 1 - b, 8>> ELSE <<8, n - 15 + b>>}

DarkFunctionModules(version, level, mask) ==
  LET n == Size(version) IN
  {m \in UNION {Around(c, 3) : c \in Finders(n)} : \A c \in Finders(n) : Distance(m, c) # 2}
    \cup {m \in UNION {Around(c, 2) : c \in Alignments(version)} :
            \A c \in Alignments(version) : Distance(m, c) # 1}
    \cup {m \in Timing(n) : (m[1] + m[2]) % 2 = 0}
    \cup UNION {VersionAt(b, n) : b \in IF version <= 6 THEN {} ELSE VersionData(version)}
    \cup UNION {FormatAt(b, n) : b \in FormatData(level, mask)}
    \cup {<<8, n - 8>>}
-----------------------------------------------------------------------------
(* The data in the symbol.                                                 *)

\* SetCodeWordPattern: step k of the walk, up and down in strips of two modules
\* from the right, around the column with the timing pattern.
Step(k, n) ==
  LET strip == (k - 1) \div (2 * n)
      row   == ((k - 1) % (2 * n)) \div 2
      right == n - 1 - 2 * strip IN
  <<(IF right <= 6 THEN right - 1 ELSE right) - ((k - 1) % 2),
    IF strip % 2 = 0 THEN n - 1 - row ELSE row>>

Walk(version) ==
  LET n == Size(version)
      taken == FunctionModules(version) IN
  SelectSeq([k \in 1 .. n * (n - 1) |-> Step(k, n)], LAMBDA m : m \notin taken)

\* SetMaskingPattern
Masked(mask, m) ==
  LET x == m[1]
      y == m[2] IN
  0 = CASE mask = 0 -> (x + y) % 2
        [] mask = 1 -> y % 2
        [] mask = 2 -> x % 3
        [] mask = 3 -> (x + y) % 3
        [] mask = 4 -> ((y \div 2) + (x \div 3)) % 2
        [] mask = 5 -> ((x * y) % 2) + ((x * y) % 3)
        [] mask = 6 -> (((x * y) % 2) + ((x * y) % 3)) % 2
        [] mask = 7 -> (((x * y) % 3) + ((x + y) % 2)) % 2

\* FormatModule: what no code word reaches is masked, too.
FormatModule(words, version, level, mask) ==
  LET walk == Walk(version)
      data(k) == k <= 8 * Len(words) /\ 7 - ((k - 1) % 8) \in words[((k - 1) \div 8) + 1] IN
  DarkFunctionModules(version, level, mask)
    \cup {walk[k] : k \in {j \in DOMAIN walk : data(j) # Masked(mask, walk[j])}}

NotDrawn == [size |-> 0, dark |-> {}]

Symbol(level, version, text, mask) ==
  LET info  == QR_VersonInfo[version]
      bits  == EncodeSourceData(text, GroupOf(version))
      words == AllCodeWords(DataCodeWords(bits, info.data[level]), info, level) IN
  [size |-> Size(version), dark |-> FormatModule(words, version, level, mask)]
-----------------------------------------------------------------------------
VARIABLES
  qr_source,     \* the text, or empty
  qr_call,       \* how it was drawn
  qr_result      \* what qr_encode returned: a symbol, NotDrawn at first, Refused

qrVars == <<qr_source, qr_call, qr_result>>

QrRefused == [size |-> -1, dark |-> {}]
NoCall == [text |-> <<>>, level |-> 1, version |-> 0]

QrInit == qr_source = <<>> /\ qr_call = NoCall /\ qr_result = NotDrawn

\* The caller's text.
ShowText ==
  /\ qr_source = <<>>
  /\ \E c \in Calls : qr_source' = c.text
  /\ UNCHANGED <<qr_call, qr_result>>

\* With any of the masking patterns.
qr_encode ==
  /\ qr_source # <<>> /\ qr_result = NotDrawn
  /\ \E c \in Calls, mask \in 0 .. 7 :
       LET fits    == GetEncodeVersion(c.version, c.text, c.level)
           version == IF c.version = 0 THEN fits ELSE c.version IN
       /\ c.text = qr_source
       /\ qr_call' = c
       /\ qr_result' = IF fits = 0 \/ fits > version THEN QrRefused
                       ELSE Symbol(c.level, version, c.text, mask)
  /\ UNCHANGED qr_source

QrNext == ShowText \/ qr_encode
=============================================================================
