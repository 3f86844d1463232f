-------------------------------- MODULE Bip39 --------------------------------
(***************************************************************************)
(* bip39.c: the recovery phrase of the wallet.  Random bytes and the first *)
(* byte of their hash are cut into numbers of 11 bits, which stand for the *)
(* words of a list; a phrase the user enters is turned back into bytes,    *)
(* and the hash of those must agree with its last bits.  The words are     *)
(* found by a table of the first word of every letter.                     *)
(***************************************************************************)
EXTENDS BitGroups

CONSTANTS
  Words,        \* the number of words in the list
  Word(_),      \* worddict: word 0 .. Words - 1, a sequence of letters 0 .. 25
  Entropies,    \* the random bytes the generator may draw
  Mistakes,     \* the words a user may enter instead of one of the phrase
  Digest(_)     \* the first byte of the SHA-256 hash

X == 23

ASSUME Bip39Assumption ==
  /\ {Head(Word(n)) : n \in 0 .. Words - 1} = 0 .. 25 \ {X}
  /\ \A n \in 1 .. Words - 1 : Head(Word(n - 1)) <= Head(Word(n))
  /\ \A w \in Mistakes : \A i \in DOMAIN w : w[i] \in 0 .. 25

VARIABLES
  word_alpha_table,   \* the first word of each letter; x has no entry
  entropy,    \* what the generator drew
  phrase,     \* my_word: the words shown
  entered,    \* the words the user enters on recovery
  legal       \* what check_if_recovery_word_legal says of them

bipVars == <<word_alpha_table, entropy, phrase, entered, legal>>

NoWord == <<>>

\* bip39_init: where a new letter begins.
bip39_init ==
  /\ word_alpha_table = <<>>
  /\ word_alpha_table' =
       SelectSeq([i \in 1 .. Words |-> i - 1],
                 LAMBDA n : n = 0 \/ Head(Word(n)) # Head(Word(n - 1)))
  /\ UNCHANGED <<entropy, phrase, entered, legal>>

FirstOf(entry) == word_alpha_table[entry + 1]

\* find_word_by_index: a walk from the first word of the last letter not behind it.
find_word_by_index(index) ==
  IF index \notin 0 .. Words - 1 THEN NoWord
  ELSE LET first == FirstOf(Max({t \in 0 .. 24 : FirstOf(t) <= index})) IN
       Word(first + (index - first))

\* The entry of a letter.
Entry(letter) == IF letter >= X THEN letter - 1 ELSE letter

Matches(word, text, partial) == IF partial THEN IsPrefix(text, word) ELSE word = text

\* find_index_by_word looks only at the words of the same letter.
find_index_by_word(text, partial) ==
  IF Len(text) \notin 1 .. 9 THEN -1
  ELSE LET first == FirstOf(Entry(Head(text)))
           last  == IF Entry(Head(text)) = 24 THEN Words
                    ELSE FirstOf(Entry(Head(text)) + 1)
           hits  == {n \in first .. last - 1 :
                       Head(Word(n)) = Head(text) /\ Matches(Word(n), text, partial)} IN
       IF hits = {} THEN -1 ELSE Min(hits)
-----------------------------------------------------------------------------
\* The switch on the number of words: bytes of entropy, bits of the check sum.
Sizes == {12, 15, 18, 21, 24}
EntropyBytes(n) == (4 * n) \div 3
CheckBits(n) == n \div 3

\* byte_to_11bit: the rest of the bytes read so far is carried in tmp.
byte_to_11bit(bytes) ==
  FoldLeft(LAMBDA s, byte :
             LET tmp == s.tmp * 256 + byte
                 digit == s.digit + 8 IN
             IF digit >= 11
             THEN [out |-> Append(s.out, tmp \div 2 ^ (digit - 11)),
                   tmp |-> tmp % 2 ^ (digit - 11), digit |-> digit - 11]
             ELSE [s EXCEPT !.tmp = tmp, !.digit = digit],
           [out |-> <<>>, tmp |-> 0, digit |-> 0], bytes).out

\* One round of the loop "index transfer".
NextByte(index, s) ==
  IF s.remain >= 8
  THEN [out |-> Append(s.out, (index[s.pos] \div 2 ^ (s.remain - 8)) % 256),
        remain |-> s.remain - 8, pos |-> s.pos]
  ELSE [out |-> Append(s.out, ((index[s.pos] % 2 ^ s.remain) * 2 ^ (8 - s.remain)
                                 + (index[s.pos + 1] \div 2 ^ (s.remain + 3))) % 256),
        remain |-> s.remain + 3, pos |-> s.pos + 1]

EntropyOf(index) ==
  FoldLeft(LAMBDA s, i : NextByte(index, s), [out |-> <<>>, remain |-> 11, pos |-> 1],
           [i \in 1 .. EntropyBytes(Len(index)) |-> i]).out

\* A word that is not in the list counts as the first one.
IndexOf(word) == LET found == find_index_by_word(word, FALSE) IN IF found >= 0 THEN found ELSE 0

Indices(words) == [i \in DOMAIN words |-> IndexOf(words[i])]

\* Changed on purpose: one bit of the check sum is not compared.
ChecksumAlmost(n, last, digest) ==
  last % 2 ^ (CheckBits(n) - 1) = (digest \div 2 ^ (8 - CheckBits(n))) % 2 ^ (CheckBits(n) - 1)

\* The last bits of the last number against the first bits of the hash.
Checksum(n, last, digest) == last % 2 ^ CheckBits(n) = digest \div 2 ^ (8 - CheckBits(n))

\* check_if_recovery_word_legal
check_if_recovery_word_legal(words) ==
  LET index == Indices(words) IN
  /\ Len(words) \in Sizes
  /\ Checksum(Len(words), index[Len(words)], Digest(EntropyOf(index)))
-----------------------------------------------------------------------------
\* generate_random_bits, byte_to_11bit and index_to_recovery_word
Generate ==
  /\ word_alpha_table # <<>> /\ phrase = <<>>
  /\ \E e \in Entropies :
       LET index == byte_to_11bit(Append(e, Digest(e))) IN
       /\ entropy' = e
       /\ phrase' = [i \in DOMAIN index |-> find_word_by_index(index[i])]
  /\ UNCHANGED <<word_alpha_table, entered, legal>>

\* The user enters the phrase, with at most one word wrong.
Enter ==
  /\ phrase # <<>> /\ entered = <<>>
  /\ \E i \in {1, Len(phrase)}, w \in Mistakes \cup {phrase[1], phrase[Len(phrase)]} :
       entered' = [phrase EXCEPT ![i] = w]
  /\ UNCHANGED <<word_alpha_table, entropy, phrase, legal>>

Recover ==
  /\ entered # <<>> /\ legal = "unknown"
  /\ legal' = IF check_if_recovery_word_legal(entered) THEN "yes" ELSE "no"
  /\ UNCHANGED <<word_alpha_table, entropy, phrase, entered>>

BipInit ==
  /\ word_alpha_table = <<>>
  /\ entropy = <<>> /\ phrase = <<>> /\ entered = <<>> /\ legal = "unknown"

BipNext == bip39_init \/ Generate \/ Enter \/ Recover
-----------------------------------------------------------------------------
Unlisted == {w \in Mistakes : \A n \in 0 .. Words - 1 : Word(n) # w}

\* The phrase is the entropy and its check sum, cut into numbers of 11 bits, and
\* a number for every word.  Code: byte_to_11bit, find_word_by_index.
PhraseIsEntropy ==
  phrase # <<>> =>
    [i \in DOMAIN phrase |-> find_index_by_word(phrase[i], FALSE)]
      = Regroup(Append(entropy, Digest(entropy)), 8, 11)

\* The phrase shown is accepted on recovery.  Code: check_if_recovery_word_legal.
OwnPhraseLegal == legal # "unknown" /\ entered = phrase => legal = "yes"

\* A phrase of listed words is accepted just if it is one that is shown for some
\* entropy.  Code: check_if_recovery_word_legal against generate_random_bits.
LegalIsShown ==
  (legal # "unknown" /\ {entered[i] : i \in DOMAIN entered} \cap Unlisted = {}) =>
    LET index == Indices(entered)
        bytes == EntropyOf(index) IN
    (legal = "yes") = (byte_to_11bit(Append(bytes, Digest(bytes))) = index)

\* While a word is typed, the first word that begins with the letters is offered,
\* and the complete word is found.  Code: find_index_by_word and its table.
WordsAreFound ==
  legal = "unknown" =>
    \A w \in {entered[i] : i \in DOMAIN entered \cap {1, Len(entered)}} : \A n \in 1 .. Len(w) :
      LET text == SubSeq(w, 1, n)
          hits == {k \in 0 .. Words - 1 : IsPrefix(text, Word(k))} IN
      find_index_by_word(text, TRUE) = IF hits = {} \/ n > 9 THEN -1 ELSE Min(hits)

\* Recovery is the inverse of the phrase, over the word list and its table.
PhrasesAreRight == PhraseIsEntropy /\ OwnPhraseLegal /\ LegalIsShown /\ WordsAreFound
=============================================================================
