------------------------------ MODULE QrReader ------------------------------
(***************************************************************************)
(* What a reader makes of a symbol, by the rules of QR codes (ISO/IEC      *)
(* 18004, versions 1 to 10), without the encoder's definitions but for its *)
(* table of versions and its powers of 2: what qr_encode.c promises.       *)
(***************************************************************************)
EXTENDS QrEncode

\* The format information as the standard lists it, masks 0 to 7.
FormatTable == <<
  <<\h77C4, \h72F3, \h7DAA, \h789D, \h662F, \h6318, \h6C41, \h6976>>,
  <<\h5412, \h5125, \h5E7C, \h5B4B, \h45F9, \h40CE, \h4F97, \h4AA0>>,
  <<\h355F, \h3068, \h3F31, \h3A06, \h24B4, \h2183, \h2EDA, \h2BED>>,
  <<\h1689, \h13BE, \h1CE7, \h19D0, \h0762, \h0255, \h0D0C, \h083B>>>>

\* The versions from 7 on.
VersionTable == <<\h07C94, \h085BC, \h09A99, \h0A4D3>>

\* A row or column read as a number, the first module of the sequence first.
NumberAt(dark, modules) == FoldLeft(LAMBDA v, m : 2 * v + (IF m \in dark THEN 1 ELSE 0), 0, modules)

\* The modules from one position on, each a step further.
Line(from, step, n) == [k \in 1 .. n |-> <<from[1] + (k - 1) * step[1], from[2] + (k - 1) * step[2]>>]

\* The format beside the first finder pattern, and beside the two others, the
\* most significant bit first.
FormatFirst(dark) ==
  NumberAt(dark, Line(<<0, 8>>, <<1, 0>>, 6) \o <<<<7, 8>>, <<8, 8>>, <<8, 7>>>> \o Line(<<8, 5>>, <<0, -1>>, 6))
FormatSecond(dark, n) ==
  NumberAt(dark, Line(<<8, n - 1>>, <<0, -1>>, 7) \o Line(<<n - 8, 8>>, <<1, 0>>, 8))

\* A finder pattern with its separator, from the corner at c.
FinderSeen(dark, c) ==
  \A m \in (-1 .. 7) \X (-1 .. 7) :
    LET ring == Max({m[1] - 3, 3 - m[1], m[2] - 3, 3 - m[2]})
        at   == <<c[1] + m[1], c[2] + m[2]>> IN
    at[1] >= 0 /\ at[2] >= 0 => (at \in dark <=> ring \in {0, 1, 3})

\* Versions 2 to 6 have one coordinate beside 6, versions 7 to 10 two.
Coordinates(v, n) == CASE v = 1 -> {} [] v \in 2 .. 6 -> {6, n - 7} [] v >= 7 -> {6, (n - 1) \div 2, n - 7}

VersionSeen(dark, v, n) ==
  v >= 7 =>
    /\ NumberAt(dark, [k \in 1 .. 18 |-> <<n - 9 - ((k - 1) % 3), 5 - (k - 1) \div 3>>]) = VersionTable[v - 6]
    /\ \A m \in (n - 11 .. n - 9) \X (0 .. 5) : m \in dark <=> <<m[2], m[1]>> \in dark

\* A module of an alignment pattern, of the timing, of the corners or of the
\* version holds no data.
Holds(m, v, n) ==
  /\ m[1] # 6 /\ m[2] # 6
  /\ m[2] <= 8 => m[1] \in 9 .. n - 9
  /\ m[1] <= 8 => m[2] \in 9 .. n - 9
  /\ v >= 7 => ~(m[1] >= n - 11 /\ m[2] <= 5) /\ ~(m[2] >= n - 11 /\ m[1] <= 5)
  /\ \A c \in Coordinates(v, n) \X Coordinates(v, n) :
       \/ c \in {<<6, 6>>, <<6, n - 7>>, <<n - 7, 6>>}
       \/ m[1] \notin c[1] - 2 .. c[1] + 2 \/ m[2] \notin c[2] - 2 .. c[2] + 2

\* Pairs of columns from the right without the timing, alternately up and down.
Path(v, n) ==
  LET columns == SelectSeq([i \in 1 .. n - 1 |-> IF i < n - 6 THEN n - i ELSE n - i - 1],
                           LAMBDA c : IF c > 6 THEN c % 2 = 0 ELSE c % 2 = 1)
      strip(i) == FlattenSeq([k \in 1 .. n |->
        LET y == IF i % 2 = 1 THEN n - k ELSE k - 1 IN <<<<columns[i], y>>, <<columns[i] - 1, y>>>>]) IN
  SelectSeq(FlattenSeq([i \in DOMAIN columns |-> strip(i)]), LAMBDA m : Holds(m, v, n))

\* Row i and column j of a module that the mask changes.
Inverted(mask, i, j) ==
  CASE mask = 0 -> i % 2 = j % 2
    [] mask = 1 -> i % 2 = 0
    [] mask = 2 -> j % 3 = 0
    [] mask = 3 -> (i + j) % 3 = 0
    [] mask = 4 -> (i \div 2) % 2 = (j \div 3) % 2
    [] mask = 5 -> (i * j) % 6 = 0
    [] mask = 6 -> (((i * j) % 2) + ((i * j) % 3)) % 2 = 0
    [] mask = 7 -> (((i + j) % 2) + ((i * j) % 3)) % 2 = 0

ReadCodeWords(dark, path, mask) ==
  LET one(m) == (m \in dark) # Inverted(mask, m[2], m[1]) IN
  [k \in 1 .. Len(path) \div 8 |-> {b \in 0 .. 7 : one(path[8 * k - b])}]

\* The data and the correction of block k.
ReadBlock(words, k, info, level) ==
  LET one   == info.block1[level]
      sum   == one[1] + info.block2[level][1]
      short == [j \in 1 .. one[3] |-> words[(j - 1) * sum + k]]
      check == [j \in 1 .. one[2] - one[3] |-> words[info.data[level] + (j - 1) * sum + k]] IN
  <<IF k <= one[1] THEN short ELSE Append(short, words[one[3] * sum + k - one[1]]), check>>

\* A block is a multiple of the generator polynomial: it is zero at its roots.
IsCodeWord(block, n) ==
  \A root \in 0 .. n - 1 :
    {} = FoldLeft(LAMBDA v, w :
                    Xor(w, IF v = {} THEN {} ELSE byExpToInt[(byIntToExp[v] + root) % 255]),
                  {}, block)

NumberOf(bits) == FoldLeft(LAMBDA v, b : 2 * v + b, 0, bits)

\* How many bits hold the number of characters.
CountBits(mode, group) ==
  CASE mode = 1 -> <<10, 12, 14>>[group] [] mode = 2 -> <<9, 11, 13>>[group] [] mode = 4 -> <<8, 16, 16>>[group]

\* 0 to 9, A to Z, space $ % * + - . / :
AlphabetTable == [i \in 1 .. 10 |-> 47 + i] \o [i \in 1 .. 26 |-> 64 + i] \o <<32, 36, 37, 42, 43, 45, 46, 47, 58>>

\* n characters of a mode.
RECURSIVE ReadCharacters(_, _, _)
ReadCharacters(bits, mode, n) ==
  LET at  == CASE mode = 1 -> Min({n, 3}) [] mode = 2 -> Min({n, 2}) [] mode = 4 -> 1
      w   == CASE mode = 1 -> <<4, 7, 10>>[at] [] mode = 2 -> <<6, 11>>[at] [] mode = 4 -> 8
      v   == NumberOf(SubSeq(bits, 1, w))
      chs == CASE mode = 1 -> SubSeq(<<48 + v \div 100, 48 + ((v \div 10) % 10), 48 + (v % 10)>>, 4 - at, 3)
               [] mode = 2 -> SubSeq(<<AlphabetTable[v \div 45 + 1], AlphabetTable[(v % 45) + 1]>>, 3 - at, 2)
               [] mode = 4 -> <<v>> IN
  IF n = 0 THEN <<>> ELSE chs \o ReadCharacters(SubSeq(bits, w + 1, Len(bits)), mode, n - at)

BitsTaken(mode, n) ==
  CASE mode = 1 -> (10 * n + 2) \div 3 [] mode = 2 -> (11 * n + 1) \div 2 [] mode = 4 -> 8 * n

\* Segments up to the terminator or the end.
RECURSIVE ReadText(_, _)
ReadText(bits, group) ==
  LET mode  == NumberOf(SubSeq(bits, 1, 4))
      start == 5 + CountBits(mode, group)
      n     == NumberOf(SubSeq(bits, 5, start - 1))
      end   == start + BitsTaken(mode, n) IN
  IF Len(bits) < 4 \/ mode = 0 THEN <<>>
  ELSE ReadCharacters(SubSeq(bits, start, end - 1), mode, n) \o ReadText(SubSeq(bits, end, Len(bits)), group)

\* A symbol that is complete and free of errors reads so.
Reads(symbol, level, text) ==
  LET n    == symbol.size
      v    == (n - 17) \div 4
      dark == symbol.dark
      info == QR_VersonInfo[v]
      path == Path(v, n) IN
  /\ \A c \in {<<0, 0>>, <<n - 7, 0>>, <<0, n - 7>>} : FinderSeen(dark, c)
  /\ \A k \in 8 .. n - 9 : (<<k, 6>> \in dark <=> k % 2 = 0) /\ (<<6, k>> \in dark <=> k % 2 = 0)
  /\ VersionSeen(dark, v, n)
  /\ <<8, n - 8>> \in dark
  /\ Len(path) \div 8 = info.all
  /\ FormatFirst(dark) = FormatSecond(dark, n)
  /\ \E mask \in 0 .. 7 :
       /\ FormatFirst(dark) = FormatTable[level][mask + 1]
       /\ LET words  == ReadCodeWords(dark, path, mask)
              sum    == info.block1[level][1] + info.block2[level][1]
              blocks == [k \in 1 .. sum |-> ReadBlock(words, k, info, level)]
              data   == FlattenSeq([k \in 1 .. sum |-> blocks[k][1]]) IN
          /\ \A k \in 1 .. sum : IsCodeWord(blocks[k][1] \o blocks[k][2], Len(blocks[k][2]))
          /\ ReadText([b \in 1 .. 8 * Len(data) |->
                         IF 7 - ((b - 1) % 8) \in data[(b - 1) \div 8 + 1] THEN 1 ELSE 0],
                      IF v < 10 THEN 1 ELSE 2) = text
-----------------------------------------------------------------------------
BytesOnly(text, group) == GetBitLength("byte", Len(text), group)

\* Every part of the text, cut into blocks that are joined, reads as it is, and
\* takes no more bits than without the joining or as bytes only.  Code:
\* EncodeSourceData.
BlocksAreRight ==
  (qr_source # <<>> /\ qr_result = NotDrawn) =>
    \A i \in 1 .. Len(qr_source) : \A j \in i .. Len(qr_source) : \A group \in 1 .. 3 :
      LET part == SubSeq(qr_source, i, j)
          bits == EncodeSourceData(part, group)
          runs == Runs(part) IN
      /\ ReadText(bits, group) = part
      /\ Len(bits) <= BytesOnly(part, group)
      /\ Len(bits) <= FoldLeft(LAMBDA n, b : n + GetBitLength(b.mode, b.length, group), 0, runs)

\* What is drawn reads as the text, without an error to correct; and a text whose
\* bytes fit is drawn.  Code: qr_encode.
SymbolsAreRight ==
  LET v == IF qr_call.version = 0 THEN MaxVersion ELSE qr_call.version IN
  qr_result # NotDrawn =>
    IF qr_result = QrRefused
    THEN BytesOnly(qr_source, GroupOf(v)) > 8 * QR_VersonInfo[v].data[qr_call.level]
    ELSE Reads(qr_result, qr_call.level, qr_source)

\* A reader gets the text that was to be shown.
QrIsReadable == BlocksAreRight /\ SymbolsAreRight
=============================================================================
