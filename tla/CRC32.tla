------------------------------- MODULE CRC32 -------------------------------
(***************************************************************************)
(* The two checksums of crc32.c.  A word of 32 bits is the set of the      *)
(* places of its ones: ^ is the symmetric difference, a shift moves the    *)
(* places, and what leaves 0 .. 31 is gone.  A byte is a number.           *)
(***************************************************************************)
EXTENDS Integers, Sequences, FiniteSetsExt

Places == 0 .. 31
UINT32_MAX_WORD == Places
Left(w, n) == {i + n : i \in w} \cap Places
Right(w, n) == {i - n : i \in w} \cap Places

BitsOf[b \in 0 .. 255] == {i \in 0 .. 7 : (b \div 2 ^ i) % 2 = 1}
LowByte(w) == w \cap 0 .. 7

\* The bytes as they lie in memory: the first is the lowest of the word.
WordAt(bytes, i) ==
  UNION {Left(BitsOf[bytes[4 * i + k + 1]], 8 * k) : k \in 0 .. 3}

\* Written with the highest byte first, as a constant of C is.
Const(b3, b2, b1, b0) == WordAt(<<b0, b1, b2, b3>>, 0)

\* n rounds of step from c, which the function makes TLC evaluate first.
Rounds(step(_), c, n) ==
  [d \in SUBSET Places |->
     LET after[k \in 0 .. n] == IF k = 0 THEN d ELSE step(after[k - 1])
     IN  after[n]][c]

----------------------------------------------------------------------------
(* crc32_calc: the polynomial of the STM32's CRC unit, highest bit first    *)

STM_POLY == Const(\h04, \hC1, \h1D, \hB7)
StmRound(c) == IF 31 \in c THEN SymDiff(Left(c, 1), STM_POLY) ELSE Left(c, 1)

\* crc32_init_table; indexed by the bits of the byte.
crc32_stm_tab == [b \in SUBSET (0 .. 7) |-> Rounds(StmRound, Left(b, 24), 8)]

StmByte(crc, b) == SymDiff(Left(crc, 8), crc32_stm_tab[SymDiff(Right(crc, 24), b)])

\* The highest byte of the word comes first.
crc32_stm_update_word_tbl(crc, w) ==
  LET take(c, k) == StmByte(c, LowByte(Right(w, 8 * k)))
  IN  take(take(take(take(crc, 3), 2), 1), 0)

crc32_calc_raw(crc, bytes, word_count) ==
  LET after[i \in 0 .. word_count] ==
        IF i = 0 THEN crc ELSE crc32_stm_update_word_tbl(after[i - 1], WordAt(bytes, i - 1))
  IN  after[word_count]

\* Bytes behind the last whole word are not looked at.
crc32_calc(bytes) == crc32_calc_raw(UINT32_MAX_WORD, bytes, Len(bytes) \div 4)

----------------------------------------------------------------------------
(* crc32_IEEE8023: the polynomial reflected, lowest bit first              *)

IEEE_POLY == Const(\hED, \hB8, \h83, \h20)
IeeeRound(c) == IF 0 \in c THEN SymDiff(IEEE_POLY, Right(c, 1)) ELSE Right(c, 1)

\* crc32_IEEE8023_init.
crc32_IEEE8023_lut == [b \in SUBSET (0 .. 7) |-> Rounds(IeeeRound, b, 8)]

IeeeByte(crc, b) == SymDiff(crc32_IEEE8023_lut[LowByte(SymDiff(crc, b))], Right(crc, 8))

\* The lowest byte of the word comes first.
IeeeWord(crc, w) ==
  LET take(c, k) == IeeeByte(c, LowByte(Right(w, 8 * k)))
  IN  take(take(take(take(crc, 0), 1), 2), 3)

crc32_IEEE8023_raw(crc, bytes, len_words) ==
  LET after[i \in 0 .. len_words] ==
        IF i = 0 THEN Places \ crc ELSE IeeeWord(after[i - 1], WordAt(bytes, i - 1))
  IN  Places \ after[len_words]

crc32_IEEE8023_of(bytes) == crc32_IEEE8023_raw({}, bytes, Len(bytes) \div 4)

----------------------------------------------------------------------------
(* The self-checks behind the tables: a wrong one loops for ever           *)

\* "12345678" and "TESTABCD".
DIGITS == <<\h31, \h32, \h33, \h34, \h35, \h36, \h37, \h38>>
LETTERS == <<\h54, \h45, \h53, \h54, \h41, \h42, \h43, \h44>>

SelfChecksPass ==
  /\ crc32_calc(DIGITS) = Const(\hFE, \hFC, \h54, \hF9)
  /\ crc32_calc(LETTERS) = Const(\hB9, \hCF, \h52, \h38)
  /\ crc32_IEEE8023_of(DIGITS) = Const(\h9A, \hE0, \hDA, \hAF)
  /\ crc32_IEEE8023_of(LETTERS) = Const(\h1F, \hA7, \h94, \h60)

----------------------------------------------------------------------------
(* References: bit by bit, no tables                                       *)

\* crc32_stm32_update_word, which crc32.c keeps as a comment.
SerialStm(bytes) ==
  LET after[i \in 0 .. (Len(bytes) \div 4)] ==
        IF i = 0 THEN Places
        ELSE Rounds(StmRound, SymDiff(after[i - 1], WordAt(bytes, i - 1)), 32)
  IN  after[Len(bytes) \div 4]

\* Likewise, lowest bit first, and the register complemented before and after.
SerialIeee(bytes) ==
  LET after[i \in 0 .. (Len(bytes) \div 4)] ==
        IF i = 0 THEN Places
        ELSE Rounds(IeeeRound, SymDiff(after[i - 1], WordAt(bytes, i - 1)), 32)
  IN  Places \ after[Len(bytes) \div 4]
=============================================================================
