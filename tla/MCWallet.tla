------------------------------ MODULE MCWallet ------------------------------
(***************************************************************************)
(* The phrase, the addresses and their QR codes share no state: a          *)
(* behaviour is about one of them.                                         *)
(***************************************************************************)
EXTENDS Bip39, SegwitAddr, QrReader

vars == <<bipVars, segVars, qrVars>>

Init == BipInit /\ SegInit /\ QrInit

NoPhrase == word_alpha_table = <<>>
NoAddress == given = NoProgram /\ address = Refused
NoPicture == qr_source = <<>>

Next ==
  \/ NoAddress /\ NoPicture /\ BipNext /\ UNCHANGED <<segVars, qrVars>>
  \/ NoPhrase /\ NoPicture /\ SegNext /\ UNCHANGED <<bipVars, qrVars>>
  \/ NoPhrase /\ NoAddress /\ QrNext /\ UNCHANGED <<bipVars, segVars>>

Spec == Init /\ [][Next]_vars
-----------------------------------------------------------------------------
\* 2048 words, 82 for each letter but x: a, aba, abb, ..., aca, ...
MCWord(n) ==
  LET l == IF n \div 82 < X THEN n \div 82 ELSE n \div 82 + 1
      j == n % 82 IN
  IF j = 0 THEN <<l>> ELSE <<l, 1 + j \div 10, j % 10>>

\* Two words of the list and three that are not in it.
MCMistakes ==
  {<<24>>, <<25, 1, 1>>, <<23, 0>>, <<0, 25>>, <<0, 1, 1, 1, 1, 1, 1, 1, 1, 1>>}

\* All bytes the same, but for one.
MCEntropies ==
  UNION {{[i \in 1 .. n |-> IF i = k THEN a ELSE b] :
            k \in {1, 2, 3, n - 1, n}, a \in {0, 129}, b \in {0, 255}} : n \in {16, 20, 24, 28, 32}}

MCDigest(bytes) == (91 + FoldLeft(LAMBDA s, b : (5 * s + b) % 256, 0, bytes)) % 256

\* "bc"; others are "tb" and "b1"
MCHrp == <<98, 99>>
MCHumanParts == {MCHrp, <<116, 98>>, <<98, 49>>}

Ramp(n) == [i \in 1 .. n |-> (37 * i) % 256]
MCPrograms == {Ramp(n) : n \in {1, 2, 20, 32, 41}} \cup {<<0, 0>>, <<255, 255>>}

MCForeign ==
  {<<v>> \o d : v \in {0, 1, 17},
                d \in {<<>>, <<0, 0, 0, 0>>, <<31, 31, 31, 31>>, <<3, 5, 7, 8, 16>>,
                       <<1, 2, 3, 4, 0, 0>>, [i \in 1 .. 32 |-> i - 1]}}

\* The separator, and a letter of the code in both cases.
MCTyped == {49, 81, 113}

\* An address, blocks of many lengths side by side, all the signs, digits: a text
\* takes up to 42 bytes.
MCTexts == {
  \* bc1qw508d6qejxtdg4y5r3zarvary0c5xw7kv8f3t4
  <<98, 99, 49, 113, 119, 53, 48, 56, 100, 54, 113, 101, 106, 120, 116, 100, 103, 52, 121, 53,
     114, 51, 122, 97, 114, 118, 97, 114, 121, 48, 99, 53, 120, 119, 55, 107, 118, 56, 102,
     51, 116, 52>>,
  \* a1234567BC12345678901d12E3456789012345678f
  <<97, 49, 50, 51, 52, 53, 54, 55, 66, 67, 49, 50, 51, 52, 53, 54, 55, 56, 57, 48, 49, 100,
     49, 50, 69, 51, 52, 53, 54, 55, 56, 57, 48, 49, 50, 51, 52, 53, 54, 55, 56, 102>>,
  \* BITCOIN:A1$2%3*4+5-6.7/8 99
  <<66, 73, 84, 67, 79, 73, 78, 58, 65, 49, 36, 50, 37, 51, 42, 52, 43, 53, 45, 54, 46, 55,
     47, 56, 32, 57, 57>>,
  \* 1234567890123456789012345678901234567
  <<49, 50, 51, 52, 53, 54, 55, 56, 57, 48, 49, 50, 51, 52, 53, 54, 55, 56, 57, 48, 49, 50,
     51, 52, 53, 54, 55, 56, 57, 48, 49, 50, 51, 52, 53, 54, 55>>,
  \* 7
  <<55>>}

\* At every level in the smallest version, in a version that is too small for
\* some, in one with blocks of two lengths, and in versions with their number.
MCCalls ==
  {[text |-> t, level |-> l, version |-> 0] : t \in MCTexts, l \in 1 .. 4}
    \cup {[text |-> t, level |-> 2, version |-> 2] : t \in MCTexts}
    \cup {[text |-> <<55>>, level |-> 4, version |-> v] : v \in {5, 7, 10}}
=============================================================================
