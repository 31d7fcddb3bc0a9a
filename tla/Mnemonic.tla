------------------------------ MODULE Mnemonic ------------------------------
(***************************************************************************)
(* WalletHD::generate_mnemonic (src/src/Core/Wallet.cpp): draw a random   *)
(* prefix of dictionary words, then search for three more words that make *)
(* the CRC of the whole phrase equal the version tag; draw again when none *)
(* is found.                                                               *)
(*                                                                         *)
(* The CRC is a reflected CRC without initial or final XOR, so it is       *)
(* linear: the register after s \o w is the register after s stepped over  *)
(* Len(w) zero characters, XOR the register of w alone (word_crc32_adj).  *)
(* The search relies on this and on the dictionary being bucketed by word *)
(* length (words_bylen): at each length it steps the running CRC once and  *)
(* tries every word of that length. The word table, the CRC steps and the  *)
(* buckets live outside src/ and are modelled from the spec (section 4.5); *)
(* the register is W bits wide and a character CharBits bits wide.         *)
(* A phrase is the sequence of its word indices (0-based, as word_ids).    *)
(***************************************************************************)
EXTENDS Naturals, Sequences, SequencesExt, Bitwise

CONSTANTS
    W,             \* bits of the CRC register (32)
    POLY,          \* the reflected polynomial (0xEDB88320 for CRC32)
    CharBits,      \* bits of a character (8)
    Words,         \* word_ptrs: the dictionary, words sorted by length
    BITS_PER_WORD, \* entropy bits per word (11)
    Bits,          \* values of the bits argument
    Versions       \* values of the version argument

ASSUME /\ W \in Nat \ {0} /\ POLY \in 2^(W - 1)..(2^W - 1)
       /\ CharBits \in 1..W /\ Len(Words) > 0
       /\ \A k \in 1..(Len(Words) - 1) : Len(Words[k]) <= Len(Words[k + 1])
       /\ BITS_PER_WORD \in Nat \ {0} /\ Bits \subseteq Nat \ {0}
       /\ Versions \subseteq 0..(2^W - 1)

WORDS_COUNT == Len(Words)
WordIds == 0..(WORDS_COUNT - 1)
WordLen(j) == Len(Words[j + 1])
WORDS_MIN_LEN == Min({WordLen(j) : j \in WordIds})
WORDS_MAX_LEN == Max({WordLen(j) : j \in WordIds})

----------------------------------------------------------------------------
(* The CRC, from the spec                                                 *)

Reg == 0..(2^W - 1)

\* XOR of two register values.
XorReg(x, y) == x ^^ y

RECURSIVE Iterate(_, _, _)
\* The function f applied n times to x.
Iterate(f, x, n) == IF n = 0 THEN x ELSE Iterate(f, f[x], n - 1)

\* One data bit 0 through the reflected register, and back: the top bit
\* of the result tells whether POLY was added.
BitStep == [x \in Reg |-> IF x % 2 = 1 THEN XorReg(x \div 2, POLY) ELSE x \div 2]
BitUnstep == [y \in Reg |-> IF y >= 2^(W - 1) THEN XorReg(y, POLY) * 2 + 1 ELSE y * 2]

\* The register after one zero character, and before it.
crc32_step_zero == [x \in Reg |-> Iterate(BitStep, x, CharBits)]
crc32_reverse_step_zero == [y \in Reg |-> Iterate(BitUnstep, y, CharBits)]

RECURSIVE CrcFrom(_, _)
\* Reference: the register after the characters s, from register x.
CrcFrom(x, s) == IF s = <<>> THEN x ELSE CrcFrom(crc32_step_zero[XorReg(x, Head(s))], Tail(s))
Crc(s) == CrcFrom(0, s)

RECURSIVE CrcWords(_, _)
\* Reference: the register after the characters of the words ids, word
\* after word, from register x.
CrcWords(x, ids) == IF ids = <<>> THEN x ELSE CrcWords(CrcFrom(x, Words[Head(ids) + 1]), Tail(ids))

\* word_crc32_adj[j]: the register of word j alone.
word_crc32_adj == [j \in WordIds |-> Crc(Words[j + 1])]

\* words_bylen[l]: one past the last word of length WORDS_MIN_LEN + l.
words_bylen(l) == Cardinality({j \in WordIds : WordLen(j) <= WORDS_MIN_LEN + l})

----------------------------------------------------------------------------
(* generate_mnemonic                                                      *)

\* last_word: the register that must precede word i for the phrase to end
\* at version v (crc32_reverse_step_zero once per character); a later word
\* with the same key overwrites an earlier one.
LastWordKey == [v \in Versions, i \in WordIds |->
                   Iterate(crc32_reverse_step_zero, XorReg(v, word_crc32_adj[i]), WordLen(i))]
LastWord(v, k) == Max({i \in WordIds : LastWordKey[v, i] = k})

WordsInPrefix(bits) == (bits - 1) \div BITS_PER_WORD + 1

RECURSIVE PrefixLoop(_, _)
\* The prefix loop: per word, a zero step per character, XOR its adj.
PrefixLoop(x, p) ==
    IF p = <<>> THEN x
    ELSE PrefixLoop(XorReg(Iterate(crc32_step_zero, x, WordLen(Head(p))),
                        word_crc32_adj[Head(p)]),
                    Tail(p))

\* crc32_prefix after the prefix loop and the WORDS_MIN_LEN zero steps.
PrefixCrc(prefix) == Iterate(crc32_step_zero, PrefixLoop(0, prefix), WORDS_MIN_LEN)

\* The words adj visits at length step l: it walks on from where the
\* previous length ended (the table's start for l = 0) to words_bylen[l].
Bucket(l) == (IF l = 0 THEN 0 ELSE words_bylen(l - 1))..(words_bylen(l) - 1)

\* Mutant: the length loops break one length early.
ProbesOneShort ==
    UNION {{<<l, j>> : j \in Bucket(l)} : l \in 0..(WORDS_MAX_LEN - WORDS_MIN_LEN - 1)}

\* The (length step, word) pairs one of the loops over l1 (or l2) visits,
\* breaking after l = WORDS_MAX_LEN - WORDS_MIN_LEN.
Probes ==
    UNION {{<<l, j>> : j \in Bucket(l)} : l \in 0..(WORDS_MAX_LEN - WORDS_MIN_LEN)}

\* Mutant: crc32_prefix2 is not stepped over the shortest length.
KeyNoPad(c, p1, p2) ==
    XorReg(Iterate(crc32_step_zero,
                XorReg(Iterate(crc32_step_zero, c, p1[1]), word_crc32_adj[p1[2]]),
                p2[1]),
        word_crc32_adj[p2[2]])

\* crc32_prefix2 ^ *adj2, the key looked up in last_word, for crc32_prefix
\* c after the prefix and the probes p1 (of adj1) and p2 (of adj2).
Key(c, p1, p2) ==
    XorReg(Iterate(crc32_step_zero,
                Iterate(crc32_step_zero,
                        XorReg(Iterate(crc32_step_zero, c, p1[1]), word_crc32_adj[p1[2]]),
                        WORDS_MIN_LEN),
                p2[1]),
        word_crc32_adj[p2[2]])

\* The three suffix words the search returns for a prefix, or <<>>: the
\* first hit in loop order (adj1, then adj2, both walk the table upwards).
Search(v, prefix) ==
    LET c    == PrefixCrc(prefix)
        keys == {LastWordKey[v, i] : i \in WordIds}
        hits == {h \in Probes \X Probes : Key(c, h[1], h[2]) \in keys}
        Before(g, h) == g[1][2] < h[1][2] \/ (g[1][2] = h[1][2] /\ g[2][2] <= h[2][2])
    IN IF hits = {} THEN <<>>
       ELSE LET h == CHOOSE h \in hits : \A g \in hits : Before(h, g)
            IN <<h[1][2], h[2][2], LastWord(v, Key(c, h[1], h[2]))>>

VARIABLES
    version, \* the version argument
    bits,    \* the bits argument
    prefix,  \* word_ids[0..words_in_prefix-1] of the last draw (<<>>: none yet)
    phrase   \* the returned phrase (<<>>: not returned yet)

vars == <<version, bits, prefix, phrase>>

Init ==
    /\ version \in Versions /\ bits \in Bits
    /\ prefix = <<>> /\ phrase = <<>>

\* One iteration of while (true): words_in_prefix draws of
\* crypto::rand() % WORDS_COUNT, then the search.
Draw(p) ==
    /\ phrase = <<>>
    /\ prefix' = p
    /\ UNCHANGED <<version, bits>>

\* Mutant: the result loop stops at words_total - 1, dropping the last word.
FoundShort(p) ==
    /\ Draw(p)
    /\ Search(version, p) # <<>>
    /\ phrase' = SubSeq(p \o Search(version, p), 1, Len(p) + 2)

\* The search hits: the phrase is returned.
Found(p) ==
    /\ Draw(p)
    /\ Search(version, p) # <<>>
    /\ phrase' = p \o Search(version, p)

\* No hit: the loop draws again.
Retry(p) ==
    /\ Draw(p)
    /\ Search(version, p) = <<>>
    /\ UNCHANGED phrase

Next == \E p \in [1..WordsInPrefix(bits) -> WordIds] : Found(p) \/ Retry(p)

Spec == Init /\ [][Next]_vars

----------------------------------------------------------------------------
(* Properties                                                             *)

TypeOK ==
    /\ version \in Versions /\ bits \in Bits
    /\ prefix \in {<<>>} \cup [1..WordsInPrefix(bits) -> WordIds]
    /\ phrase \in {<<>>} \cup [1..(WordsInPrefix(bits) + 3) -> WordIds]

\* A phrase generate_mnemonic returns carries the version tag: the CRC
\* over its characters is version (spec section 4.5 and its test).
MnemonicChecksum ==
    phrase # <<>> => CrcWords(0, phrase) = version

\* generate_mnemonic draws a new prefix only when no three dictionary
\* words complete the last one to the version tag: its length loops and
\* last_word miss no suffix.
NoSuffixMissed ==
    prefix # <<>> /\ phrase = <<>> =>
        LET c == CrcWords(0, prefix)
        IN \A s \in [1..3 -> WordIds] : CrcWords(c, s) # version

====
