------------------------- MODULE UpdateFile_proofs -------------------------
(***************************************************************************)
(* The life of an update file, for images of every size and bytes, every   *)
(* size of a block, of the slot and of packets, and any damaged byte: what *)
(* the encoder writes, what the device takes in, and what it signs.        *)
(***************************************************************************)
EXTENDS UpdateFile, Bin2Page_proofs

\* The first n blocks are blocks of the encoder.
BlocksFit(bin, n) ==
  \A i \in 0 .. (n - 1) : \E b : Fits(b) /\ BlockFull(b) /\ BlockOf(bin, i) = Flushed(b)

\* The signature, and whole blocks.
Written(bin) ==
  /\ bin \in Seq(Byte) /\ HasSign(bin)
  /\ \E n \in Nat : Len(bin) = Len(SIGN) + n * BSIZE /\ BlocksFit(bin, n)

EncoderInv == Fits(blk) /\ ~BlockFull(blk) /\ Written(res_bin)

\* What the decoder finds in the file.
FormatKept(bin) ==
  \A n \in Nat : Len(SIGN) + n * BSIZE + BSIZE <= Len(bin) =>
    /\ \A shift \in BOOLEAN : WellFormed(BlockOf(bin, n), shift)
    /\ ~DecodedBlock(BlockOf(bin, n), FALSE).error

\* The signature is bytes.
LEMMA SignSize == SIGN \in Seq(Byte) /\ Len(SIGN) \in Nat
BY FormatAssumption, LenProperties

\* What is put behind does not touch the signature.
LEMMA SignStays ==
  ASSUME NEW s \in Seq(Byte), NEW t \in Seq(Byte), Len(SIGN) <= Len(s)
  PROVE  HasSign(s \o t) <=> HasSign(s)
<1> DEFINE l == Len(SIGN)
           j == s \o t
<1>1. j \in Seq(Byte) /\ Len(j) = Len(s) + Len(t) /\ \A i \in 1 .. Len(s) : j[i] = s[i]
  BY Joined
<1>2. Len(s) \in Nat /\ Len(t) \in Nat
  BY LenProperties
<1> HIDE DEF j
<1>3. l \in 0 .. Len(s) /\ l \in 0 .. Len(j)
  BY <1>1, <1>2, SignSize
<1>4. Lies(s, j, 0) /\ Lies(j, j, 0)
  <2>1. \A i \in 1 .. Len(s) : s[i] = j[0 + i]
    BY <1>1, <1>2
  <2>2. \A i \in 1 .. Len(j) : j[i] = j[0 + i]
    OBVIOUS
  <2> QED BY <2>1, <2>2 DEF Lies
<1>5. /\ SubSeq(s, 1, l) \in Seq(Byte) /\ Len(SubSeq(s, 1, l)) = l /\ Lies(SubSeq(s, 1, l), j, 0)
      /\ SubSeq(j, 1, l) \in Seq(Byte) /\ Len(SubSeq(j, 1, l)) = l /\ Lies(SubSeq(j, 1, l), j, 0)
  <2> HIDE DEF l
  <2>1. 0 \in Nat
    OBVIOUS
  <2> QED BY <1>1, <1>3, <1>4, <2>1, Cut, LiePart
<1>6. SubSeq(s, 1, l) = SubSeq(j, 1, l)
  BY <1>5, LieAlike
<1> QED BY <1>6 DEF HasSign, j

\* One more block behind the others.
OneMoreBlock(new, bin, f, n) ==
  /\ new \in Seq(Byte) /\ Len(new) = Len(SIGN) + (n + 1) * BSIZE
  /\ \A i \in 0 .. (n - 1) : BlockOf(new, i) = BlockOf(bin, i)
  /\ BlockOf(new, n) = f

\* That is what a block put behind the file makes.
LEMMA BlockAdded ==
  ASSUME NEW bin \in Seq(Byte), NEW n \in Nat, Len(bin) = Len(SIGN) + n * BSIZE,
         NEW f \in Seq(Byte), Len(f) = BSIZE
  PROVE  OneMoreBlock(bin \o f, bin, f, n)
<1> DEFINE new == bin \o f
<1>1. f \in Seq(Byte) /\ Len(f) = BSIZE
  OBVIOUS
<1>2. Len(bin) = Len(SIGN) + n * BSIZE
  OBVIOUS
<1>3. bin \in Seq(Byte)
  OBVIOUS
<1>4. /\ new \in Seq(Byte) /\ Len(new) = Len(bin) + BSIZE
      /\ \A i \in 1 .. Len(bin) : new[i] = bin[i]
      /\ \A i \in 1 .. BSIZE : new[Len(bin) + i] = f[i]
  BY Joined
<1> HIDE DEF new
<1> DEFINE base == n * BSIZE
<1>5. base \in Nat /\ (n + 1) * BSIZE = base + BSIZE
  BY BlockSize
<1>6. Len(new) = Len(SIGN) + (n + 1) * BSIZE
  <2> HIDE DEF base
  <2>1. Len(bin) = Len(SIGN) + base
    BY <1>2 DEF base
  <2> QED BY <1>4, <1>5, <2>1, SignSize, BlockSize
<1>7. ASSUME NEW i \in 0 .. (n - 1) PROVE BlockOf(new, i) = BlockOf(bin, i)
  <2> DEFINE o == Len(SIGN) + i * BSIZE
  <2>1. o \in Nat /\ o + BSIZE <= Len(bin)
    <3>1. (i + 1) * BSIZE <= n * BSIZE /\ i * BSIZE \in Nat /\ (i + 1) * BSIZE = i * BSIZE + BSIZE
      BY <1>7, BlockSize, SMTT(30)
    <3>2. Len(bin) = Len(SIGN) + n * BSIZE /\ n * BSIZE \in Nat
      BY <1>2, <1>5
    <3> QED BY <3>1, <3>2, SignSize, BlockSize
  <2> HIDE DEF o
  <2>2. SubSeq(new, o + 1, o + BSIZE) = SubSeq(bin, o + 1, o + BSIZE)
    <3> DEFINE old == SubSeq(bin, o + 1, o + BSIZE)
    <3>4. old \in Block /\ \A j \in 1 .. BSIZE : old[j] = bin[o + j]
      BY <1>3, <2>1, WindowIs
    <3> HIDE DEF old
    <3>5. \A j \in 1 .. BSIZE : o + j \in 1 .. Len(bin)
      BY <1>3, <2>1, BlockSize, LenProperties
    <3>6. (\A j \in 1 .. BSIZE : new[o + j] = old[j]) /\ old \in Seq(Byte) /\ Len(old) = BSIZE
      BY <1>4, <3>4, <3>5, BlockBytes
    <3>7. o + BSIZE <= Len(new)
      <4>1. Len(bin) \in Nat
        BY <1>3, LenProperties
      <4> QED BY <1>4, <2>1, <4>1, BlockSize
    <3>8. SubSeq(new, o + 1, o + BSIZE) = old
      BY <1>4, <2>1, <3>6, <3>7, Window
    <3> QED BY <3>8 DEF old
  <2> QED BY <2>2 DEF BlockOf, o
<1>8. BlockOf(new, n) = f
  <2> DEFINE o == Len(SIGN) + n * BSIZE
  <2>1. o = Len(bin) /\ o \in Nat
    BY <1>2, <1>3, LenProperties
  <2> HIDE DEF o
  <2>2. o + BSIZE <= Len(new)
    BY <1>4, <2>1, BlockSize
  <2>3. \A j \in 1 .. BSIZE : new[o + j] = f[j]
    BY <1>4, <2>1
  <2>5. SubSeq(new, o + 1, o + BSIZE) = f
    BY <1>1, <1>4, <2>1, <2>2, <2>3, Window
  <2> QED BY <2>5 DEF BlockOf, o
<1> QED BY <1>4, <1>6, <1>7, <1>8 DEF OneMoreBlock, new

\* A flushed block makes one more.
LEMMA FlushAdds ==
  ASSUME NEW bin, Written(bin), NEW b, Fits(b), BlockFull(b)
  PROVE  Written(bin \o Flushed(b))
<1> DEFINE f == Flushed(b)
           new == bin \o f
<1>1. f \in Seq(Byte) /\ Len(f) = BSIZE
  BY FlushedParts
<1>2. PICK n \in Nat : Len(bin) = Len(SIGN) + n * BSIZE /\ BlocksFit(bin, n)
  BY DEF Written
<1>3. bin \in Seq(Byte)
  BY DEF Written
<1> HIDE DEF f
<1>4. OneMoreBlock(new, bin, f, n)
  BY <1>1, <1>2, <1>3, BlockAdded
<1> HIDE DEF new
<1>9. BlocksFit(new, n + 1)
  <2> SUFFICES ASSUME NEW i \in 0 .. ((n + 1) - 1)
               PROVE  \E c : Fits(c) /\ BlockFull(c) /\ BlockOf(new, i) = Flushed(c)
    BY DEF BlocksFit
  <2>1. CASE i \in 0 .. (n - 1)
    BY <1>2, <1>4, <2>1 DEF BlocksFit, OneMoreBlock
  <2>2. CASE i = n
    BY <1>4, <2>2 DEF f, OneMoreBlock
  <2> QED BY <2>1, <2>2
<1>10. n + 1 \in Nat
  OBVIOUS
<1>11. HasSign(new)
  <2>1. Len(SIGN) <= Len(bin)
    <3> DEFINE base == n * BSIZE
    <3>1. base \in Nat /\ Len(bin) = Len(SIGN) + base
      BY <1>2, BlockSize
    <3> HIDE DEF base
    <3> QED BY <3>1, SignSize
  <2>2. HasSign(bin)
    BY DEF Written
  <2> QED BY <1>1, <1>3, <2>1, <2>2, SignStays DEF new
<1> QED BY <1>4, <1>9, <1>10, <1>11 DEF Written, OneMoreBlock, new, f

\* The bytes of the images are bytes.
LEMMA ByteTypes == FF \in Byte /\ Pairs \subseteq Byte \X Byte
BY FileAssumption, BlockSize DEF FF, Byte

\* The encoder begins with the signature and an empty block.
LEMMA EncoderInit == Init => EncoderInv
<1> SUFFICES ASSUME Init PROVE EncoderInv
  OBVIOUS
<1>1. Fits(blk) /\ ~BlockFull(blk)
  BY EmptyFits DEF Init
<1>2. Len(res_bin) = Len(SIGN) + 0 * BSIZE /\ res_bin \in Seq(Byte)
  BY SignSize, BlockSize DEF Init
<1>3. BlocksFit(res_bin, 0)
  BY DEF BlocksFit
<1>4. HasSign(res_bin)
  <2>1. SubSeq(SIGN, 1, Len(SIGN)) = SIGN
    BY SignSize, SubSeqFull
  <2> QED BY <2>1 DEF HasSign, Init
<1> QED BY <1>1, <1>2, <1>3, <1>4 DEF EncoderInv, Written

\* Every byte of the images keeps the block in shape, and every flush the file.
LEMMA EncoderNext == EncoderInv /\ [Next]_vars => EncoderInv'
<1> SUFFICES ASSUME EncoderInv, [Next]_vars PROVE EncoderInv'
  OBVIOUS
<1>1. CASE EncodeByte
  <2>1. PICK p \in (IF Len(image) < size THEN Pairs ELSE {<<FF, FF>>}) :
          LET next == Push(blk, p[1], p[2])
          IN  IF BlockFull(next)
              THEN res_bin' = res_bin \o Flushed(next) /\ blk' = EmptyBlock
              ELSE blk' = next /\ res_bin' = res_bin
    BY <1>1 DEF EncodeByte
  <2>2. p[1] \in Byte /\ p[2] \in Byte
    BY ByteTypes
  <2> DEFINE next == Push(blk, p[1], p[2])
  <2>3. Fits(next)
    BY <2>2, PushFits DEF EncoderInv
  <2> HIDE DEF next
  <2>4. CASE BlockFull(next)
    <3>1. res_bin' = res_bin \o Flushed(next) /\ blk' = EmptyBlock
      BY <2>1, <2>4 DEF next
    <3>2. Written(res_bin')
      BY <2>3, <2>4, <3>1, FlushAdds DEF EncoderInv
    <3>3. Fits(blk') /\ ~BlockFull(blk')
      BY <3>1, EmptyFits
    <3> QED BY <3>2, <3>3 DEF EncoderInv
  <2>5. CASE ~BlockFull(next)
    <3>1. blk' = next /\ res_bin' = res_bin
      BY <2>1, <2>5 DEF next
    <3> QED BY <2>3, <2>5, <3>1 DEF EncoderInv
  <2> QED BY <2>4, <2>5
<1>2. CASE UNCHANGED <<blk, res_bin>>
  BY <1>2 DEF EncoderInv
<1>3. InitTables \/ Open \/ sfu_command_write \/ sfu_command_start \/ UNCHANGED vars
        => UNCHANGED <<blk, res_bin>>
  BY DEF InitTables, Open, sfu_command_write, sfu_command_start, vars, hostVars
<1> QED BY <1>1, <1>2, <1>3 DEF Next

\* The blocks of the encoder are blocks the decoder can read.
LEMMA WrittenIsRead == ASSUME NEW bin, Written(bin) PROVE FormatKept(bin)
<1> SUFFICES ASSUME NEW n \in Nat, Len(SIGN) + n * BSIZE + BSIZE <= Len(bin)
             PROVE  /\ \A shift \in BOOLEAN : WellFormed(BlockOf(bin, n), shift)
                    /\ ~DecodedBlock(BlockOf(bin, n), FALSE).error
  BY DEF FormatKept
<1>1. PICK k \in Nat : Len(bin) = Len(SIGN) + k * BSIZE /\ BlocksFit(bin, k)
  BY DEF Written
<1>2. n \in 0 .. (k - 1)
  <2>1. ~(n >= k)
    <3> SUFFICES ASSUME n >= k PROVE FALSE
      OBVIOUS
    <3>1. n * BSIZE >= k * BSIZE /\ n * BSIZE \in Nat /\ k * BSIZE \in Nat
      BY BlockSize, SMTT(30)
    <3> QED BY <1>1, <3>1, SignSize, BlockSize
  <2> QED BY <2>1
<1>3. PICK b : Fits(b) /\ BlockFull(b) /\ BlockOf(bin, n) = Flushed(b)
  BY <1>1, <1>2 DEF BlocksFit
<1>4. \A shift \in BOOLEAN : WellFormed(BlockOf(bin, n), shift)
  BY <1>3, BlocksAreWellFormed
<1>5. DecodedBlock(BlockOf(bin, n), FALSE) = [bytes |-> b.data, error |-> FALSE]
  BY <1>3, VariantADecodes
<1>6. ~DecodedBlock(BlockOf(bin, n), FALSE).error
  <2> DEFINE decoded == DecodedBlock(BlockOf(bin, n), FALSE)
  <2>1. decoded = [bytes |-> b.data, error |-> FALSE]
    BY <1>5
  <2> HIDE DEF decoded
  <2>2. ~decoded.error
    BY <2>1
  <2> QED BY <2>2 DEF decoded
<1> QED BY <1>4, <1>6

(***************************************************************************)
(* Every block of the file, at any time, keeps to the format for both      *)
(* variants, and decodes without an error for variant A.  (The encoder     *)
(* asserts block_len <= 256 and runs the decoder on its output.)           *)
(***************************************************************************)
THEOREM EncoderKeepsFormat == Spec => []FormatKept(res_bin)
<1>1. EncoderInv => FormatKept(res_bin)
  BY WrittenIsRead DEF EncoderInv
<1> QED BY EncoderInit, EncoderNext, <1>1, PTL DEF Spec

----------------------------------------------------------------------------
(* The device: the CRC                                                     *)

\* The CRC of no words.
LEMMA CalcNone ==
  ASSUME NEW c \in Words, NEW bytes
  PROVE  crc32_calc_raw(c, bytes, 0) = c
<1>1. PICK f : StmFolds(f, c, bytes, 0)
  <2>1. 0 \in Nat
    OBVIOUS
  <2> QED BY <2>1, StmFoldExists
<1>2. crc32_calc_raw(c, bytes, 0) = f[0]
  <2>1. 0 \in Nat
    OBVIOUS
  <2> QED BY <1>1, <2>1, CalcRawIs
<1> QED BY <1>1, <1>2 DEF StmFolds

\* The CRC begins with all ones.
LEMMA AllOnes == UINT32_MAX_WORD \in Words
BY DEF UINT32_MAX_WORD, Words

\* Whole words, counted.
LEMMA Quarters ==
  ASSUME NEW n \in Nat, n % 4 = 0
  PROVE  n \div 4 \in Nat /\ n = 4 * (n \div 4)
OBVIOUS

\* The register goes on with the next words of the file.
LEMMA CrcGoesOn ==
  ASSUME NEW s \in Seq(Byte), NEW from \in Nat, NEW to \in Nat, from % 4 = 0,
         from <= to, to <= Len(s), NEW c \in Words
  PROVE  LET data == SubSeq(s, from + 1, to)
         IN  crc32_calc_raw(crc32_calc_raw(c, s, from \div 4), data, Len(data) \div 4)
               = crc32_calc_raw(c, s, to \div 4)
<1> DEFINE data == SubSeq(s, from + 1, to)
           o == from \div 4
           n == Len(data) \div 4
<1>1. o \in Nat /\ from = 4 * o
  BY Quarters
<1>2. Len(s) \in Nat /\ \A x \in (from + 1) .. to : s[x] \in Byte
  BY LenProperties, ElementOfSeq
<1>3. Len(data) = to - from /\ \A i \in 1 .. (to - from) : data[i] = s[from + i]
  <2>1. from + 1 \in Int /\ to \in Int
    OBVIOUS
  <2>2. /\ Len(data) = IF from + 1 <= to THEN to - (from + 1) + 1 ELSE 0
        /\ \A i \in 1 .. to - (from + 1) + 1 : data[i] = s[(from + 1) + i - 1]
    BY <1>2, <2>1, SubSeqProperties
  <2> HIDE DEF data
  <2>3. \A i \in 1 .. (to - from) : i \in 1 .. to - (from + 1) + 1 /\ (from + 1) + i - 1 = from + i
    OBVIOUS
  <2> QED BY <2>2, <2>3
<1> HIDE DEF data, o
<1>4. n \in Nat /\ o + n = to \div 4 /\ 4 * n <= to - from
  BY <1>1, <1>3
<1>5. SameWords(s, s, o)
  BY DEF SameWords
<1>6. \A i \in 0 .. (n - 1) : WordAt(data, i) = WordAt(s, o + i)
  <2> HIDE DEF n
  <2> SUFFICES ASSUME NEW i \in 0 .. (n - 1) PROVE WordAt(data, i) = WordAt(s, o + i)
    OBVIOUS
  <2>1. ASSUME NEW k \in 0 .. 3 PROVE data[4 * i + k + 1] = s[4 * (o + i) + k + 1]
    <3>1. 4 * i + k + 1 \in 1 .. (to - from) /\ from + (4 * i + k + 1) = 4 * (o + i) + k + 1
      BY <1>1, <1>4
    <3> QED BY <1>3, <3>1
  <2>2. SameBytes(data, i, s, o + i)
    BY <2>1 DEF SameBytes
  <2> QED BY <2>2, WordMoves
<1>7. crc32_calc_raw(crc32_calc_raw(c, s, o), data, n) = crc32_calc_raw(c, s, o + n)
  <2> HIDE DEF n
  <2> QED BY <1>1, <1>4, <1>5, <1>6, InParts
<1> QED BY <1>4, <1>7 DEF data, o

\* The CRC of a beginning.
LEMMA CrcOfPart ==
  ASSUME NEW s \in Seq(Byte), NEW to \in Nat, to <= Len(s)
  PROVE  crc32_calc(SubSeq(s, 1, to)) = crc32_calc_raw(UINT32_MAX_WORD, s, to \div 4)
<1> DEFINE data == SubSeq(s, 0 + 1, to)
           c == UINT32_MAX_WORD
<1>1. c \in Words
  BY AllOnes
<1> HIDE DEF c
<1>2. crc32_calc_raw(c, s, 0 \div 4) = c
  <2>1. 0 \div 4 = 0
    OBVIOUS
  <2> QED BY <1>1, <2>1, CalcNone
<1>3. crc32_calc_raw(crc32_calc_raw(c, s, 0 \div 4), data, Len(data) \div 4)
        = crc32_calc_raw(c, s, to \div 4)
  <2>1. 0 \in Nat /\ 0 % 4 = 0 /\ 0 <= to
    OBVIOUS
  <2> QED BY <1>1, <2>1, CrcGoesOn
<1>4. crc32_calc_raw(c, data, Len(data) \div 4) = crc32_calc_raw(c, s, to \div 4)
  BY <1>2, <1>3
<1>5. data = SubSeq(s, 1, to)
  OBVIOUS
<1> QED BY <1>4, <1>5, Zenon DEF crc32_calc, c

----------------------------------------------------------------------------
(* The device: the writer                                                  *)

\* What is programmed, and what the loop of sfu_command_write goes on with.
Bodies == {b \in Seq(Byte) : Len(b) % BSIZE = 0 /\ Len(b) <= SLOT_SIZE}
States == [dec : Decs, body : Bodies, write_error : BOOLEAN]

\* The last of these pages is none for the slot.
Refused(pages, shift) ==
  \E a \in Nat : /\ Len(pages) = a + BSIZE
                 /\ ~WriterAccepts(a, SubSeq(pages, a + 1, Len(pages)), shift)

\* What has become of s when the decoder has gone on to next: the page, if there is one,
\* is in the slot, or it is refused and write_error set.
Wrote(r, s, next) ==
  /\ r \in States /\ r.dec = next /\ (s.write_error => r.write_error)
  /\ s.body = s.dec.pages =>
       \/ r.body = next.pages /\ r.write_error = s.write_error
       \/ r.write_error /\ Refused(next.pages, slot)

\* One page more.
LEMMA PageBehind ==
  ASSUME NEW s \in Seq(Byte), NEW page \in Block
  PROVE  s \o page \in Seq(Byte) /\ Len(s \o page) = Len(s) + BSIZE
<1>1. page \in Seq(Byte) /\ Len(page) = BSIZE
  BY DEF Block
<1>2. s \o page \in Seq(Byte) /\ Len(s \o page) = Len(s) + Len(page)
  BY <1>1, ConcatProperties
<1> QED BY <1>1, <1>2

\* That is what the writer does.
LEMMA WriterDoes ==
  ASSUME NEW s \in States, NEW next \in Decs, Adds(next, s.dec), NEW r, r = sfu_real_writer(s, next)
  PROVE  Wrote(r, s, next)
<1>1. PICK page \in Block \union {<<>>} : next.pages = s.dec.pages \o page
  BY DEF Adds
<1>2. s.dec \in Decs /\ s.body \in Bodies /\ s.write_error \in BOOLEAN
  BY DEF States
<1>3. s.dec.pages \in Seq(Byte) /\ page \in Seq(Byte) /\ Len(s.dec.pages) \in Nat
      /\ s.body \in Seq(Byte) /\ Len(s.body) \in Nat /\ Len(s.body) % BSIZE = 0
  <2>1. s.dec.pages \in Seq(Byte) /\ s.body \in Seq(Byte) /\ Len(s.body) % BSIZE = 0
    BY <1>2, Decoder DEF Bodies
  <2>2. page \in Seq(Byte)
    BY EmptySeq DEF Block
  <2> QED BY <2>1, <2>2, LenProperties
<1>4. SubSeq(next.pages, Len(s.dec.pages) + 1, Len(next.pages)) = page
  <2> DEFINE t == s.dec.pages
  <2>1. t \in Seq(Byte) /\ next.pages = t \o page
    BY <1>1, <1>3
  <2> HIDE DEF t
  <2>2. SubSeq(t \o page, Len(t) + 1, Len(t \o page)) = page
    BY <1>3, <2>1, Behind
  <2> QED BY <2>1, <2>2 DEF t
<1>5. CASE page = <<>>
  <2>1. r = [s EXCEPT !.dec = next]
    BY <1>4, <1>5, Zenon DEF sfu_real_writer
  <2>2. next.pages = s.dec.pages
    BY <1>1, <1>3, <1>5, ConcatEmptySeq
  <2>3. r \in States /\ r.dec = next /\ r.body = s.body /\ r.write_error = s.write_error
    BY <1>2, <2>1 DEF States
  <2> QED BY <2>2, <2>3, Zenon DEF Wrote
<1>6. CASE page # <<>> /\ WriterAccepts(Len(s.body), page, slot)
  <2> DEFINE b == s.body \o page
  <2>1. r = [s EXCEPT !.dec = next, !.body = b]
    BY <1>4, <1>6, Zenon DEF sfu_real_writer
  <2>2. page \in Block
    BY <1>6
  <2>3. b \in Seq(Byte) /\ Len(b) = Len(s.body) + BSIZE
    BY <1>3, <2>2, PageBehind
  <2>4. Len(s.body) + BSIZE <= SLOT_SIZE
    BY <1>6 DEF WriterAccepts
  <2>5. (Len(s.body) + BSIZE) % BSIZE = 0
    <3>1. BSIZE \in Nat /\ BSIZE % BSIZE = 0
      BY BlockSize
    <3> QED BY <1>3, <3>1, MorePages
  <2>6. b \in Bodies
    BY <2>3, <2>4, <2>5 DEF Bodies
  <2>7. s.body = s.dec.pages => b = next.pages
    BY <1>1
  <2> HIDE DEF b
  <2>8. r \in States /\ r.dec = next /\ r.body = b /\ r.write_error = s.write_error
    BY <2>1, <2>6 DEF States
  <2> QED BY <2>7, <2>8, Zenon DEF Wrote
<1>7. CASE page # <<>> /\ ~WriterAccepts(Len(s.body), page, slot)
  <2>1. r = [s EXCEPT !.dec = next, !.write_error = TRUE]
    BY <1>4, <1>7, Zenon DEF sfu_real_writer
  <2>2. r \in States /\ r.dec = next /\ r.write_error
    BY <1>2, <2>1 DEF States
  <2>3. ASSUME s.body = s.dec.pages PROVE Refused(next.pages, slot)
    <3> DEFINE a == Len(s.dec.pages)
    <3>1. page \in Block
      BY <1>7
    <3>2. Len(next.pages) = a + BSIZE
      BY <1>1, <1>3, <3>1, PageBehind
    <3>3. ~WriterAccepts(a, SubSeq(next.pages, a + 1, Len(next.pages)), slot)
      BY <1>4, <1>7, <2>3
    <3> QED BY <1>3, <3>2, <3>3 DEF Refused
  <2> QED BY <2>2, <2>3, Zenon DEF Wrote
<1> QED BY <1>5, <1>6, <1>7

\* Some page of the file is none for the slot.
Unfit(f, shift, n) ==
  \E k \in 0 .. (n + 1) : \E d : After(d, StreamOf(f), k, shift, n) /\ Refused(d.pages, shift)

\* r is what the first m pages of f leave: all that came out of the decoder is in the slot,
\* or something was refused.
Sound(r, f, shift, m, n) ==
  /\ r \in States
  /\ IF r.write_error
     THEN /\ Unfit(f, shift, n)
          /\ r.dec.inited /\ (r.dec.active <=> HasSign(StreamOf(f)))
     ELSE After(r.dec, StreamOf(f), m, shift, n) /\ r.body = r.dec.pages

\* One round of the loop.
PageStep(s, page, i) ==
  IF i > 1 /\ s.write_error THEN s
  ELSE sfu_real_writer(s, bin2page_decode(s.dec, page, slot))

\* It has written what has come out of the decoder.
LEMMA PageStepDoes ==
  ASSUME slot \in BOOLEAN, NEW s \in States, NEW page \in Block, NEW i,
         NEW next, next = bin2page_decode(s.dec, page, slot), NEW r, r = PageStep(s, page, i)
  PROVE  /\ next \in Decs /\ next.inited /\ (next.active <=> ActiveWith(s.dec, page))
         /\ r \in States /\ ((s.write_error /\ r = s) \/ Wrote(r, s, next))
<1>1. s.dec \in Decs
  BY DEF States
<1>2. next \in Decs /\ Adds(next, s.dec) /\ next.inited /\ (next.active <=> ActiveWith(s.dec, page))
  BY <1>1, DecodeAdds
<1>3. CASE i > 1 /\ s.write_error
  BY <1>2, <1>3 DEF PageStep
<1>4. CASE ~(i > 1 /\ s.write_error)
  <2>1. r = sfu_real_writer(s, next)
    BY <1>4 DEF PageStep
  <2>2. Wrote(r, s, next)
    BY <1>2, <2>1, WriterDoes
  <2> QED BY <1>2, <2>2 DEF Wrote
<1> QED BY <1>3, <1>4

\* So a page more is taken soundly.
LEMMA PageTaken ==
  ASSUME slot \in BOOLEAN, NEW f, NEW n, IsFile(f, n), NEW m \in 0 .. n,
         NEW s, Sound(s, f, slot, m, n), NEW i, NEW r, r = PageStep(s, PageOf(StreamOf(f), m), i)
  PROVE  Sound(r, f, slot, m + 1, n) /\ (s.write_error => r.write_error)
<1> DEFINE q == StreamOf(f)
           page == PageOf(q, m)
           next == bin2page_decode(s.dec, page, slot)
<1>1. Holds(q, n) /\ n \in Nat
  BY StreamIs DEF Holds
<1>2. page \in Block /\ s \in States
  BY <1>1, PagesLie DEF Sound
<1>3. /\ next \in Decs /\ next.inited /\ (next.active <=> ActiveWith(s.dec, page))
      /\ r \in States /\ ((s.write_error /\ r = s) \/ Wrote(r, s, next))
  <2> HIDE DEF page
  <2> QED BY <1>2, PageStepDoes DEF page
<1>4. s.write_error \in BOOLEAN /\ r.write_error \in BOOLEAN /\ s.dec \in Decs
  BY <1>2, <1>3 DEF States
<1>5. CASE s.write_error
  <2>1. Unfit(f, slot, n) /\ s.dec.inited /\ (s.dec.active <=> HasSign(q))
    BY <1>5 DEF Sound
  <2>2. next.active <=> HasSign(q)
    BY <1>3, <2>1, Zenon DEF ActiveWith
  <2>3. r.write_error /\ (r = s \/ r.dec = next)
    BY <1>3, <1>5, Zenon DEF Wrote
  <2>4. r.dec.inited /\ (r.dec.active <=> HasSign(q))
    BY <1>3, <2>1, <2>2, <2>3, Zenon
  <2> QED BY <1>3, <2>1, <2>3, <2>4, Zenon DEF Sound
<1>6. CASE ~s.write_error
  <2>1. After(s.dec, q, m, slot, n) /\ s.body = s.dec.pages
    BY <1>6 DEF Sound
  <2>2. After(next, q, m + 1, slot, n)
    <3> DEFINE a == s.dec
    <3> HIDE DEF q, a
    <3>1. After(bin2page_decode(a, PageOf(q, m), slot), q, m + 1, slot, n)
      BY <1>1, <2>1, OnePage DEF a
    <3> QED BY <3>1 DEF a
  <2>3. Wrote(r, s, next)
    BY <1>3, <1>6, Zenon
  <2>4. next.active <=> HasSign(q)
    <3>1. m + 1 # 0 /\ (m + 1) - 1 = m
      BY <1>1
    <3>2. Streamed(next, q, m, slot, n)
      <4> HIDE DEF next, q
      <4> QED BY <2>2, <3>1 DEF After
    <3> QED BY <3>2, Zenon DEF Streamed
  <2> HIDE DEF next, q
  <2>5. CASE r.body = next.pages /\ r.write_error = s.write_error
    BY <1>3, <1>6, <2>2, <2>3, <2>5, Zenon DEF Sound, Wrote, q
  <2>6. CASE r.write_error /\ Refused(next.pages, slot)
    <3>1. m + 1 \in 0 .. (n + 1)
      BY <1>1
    <3>2. Unfit(f, slot, n)
      BY <2>2, <2>6, <3>1, Zenon DEF Unfit, q
    <3> QED BY <1>3, <2>3, <2>4, <2>6, <3>2, Zenon DEF Sound, Wrote, q
  <2>7. \/ r.body = next.pages /\ r.write_error = s.write_error
        \/ r.write_error /\ Refused(next.pages, slot)
    BY <2>1, <2>3, Zenon DEF Wrote
  <2> QED BY <1>6, <2>5, <2>6, <2>7, Zenon
<1> QED BY <1>4, <1>5, <1>6

\* All pages of a packet, one after the other.
LEMMA LoopIs ==
  ASSUME slot \in BOOLEAN, NEW f, NEW n, IsFile(f, n), NEW data, NEW m, NEW p,
         Carries(data, StreamOf(f), m, p, n), NEW s, Sound(s, f, slot, m, n),
         NEW r, r = WriteLoop(s, data)
  PROVE  Sound(r, f, slot, m + p, n) /\ (s.write_error => r.write_error)
<1> DEFINE q == StreamOf(f)
           G == [i \in 1 .. p |-> [x \in States |-> PageStep(x, PageIn(data, i), i)]]
<1>1. /\ p = PagesIn(data) /\ p \in Nat /\ m \in Nat /\ m + p <= n + 1 /\ n \in Nat
      /\ \A i \in 1 .. p : PageIn(data, i) = PageOf(q, m + i - 1)
      /\ Holds(q, n)
  BY StreamIs DEF Carries, Holds
<1>2. \A i \in 1 .. p : m + i - 1 \in 0 .. n /\ m + (i - 1) = m + i - 1 /\ (m + i - 1) + 1 = m + i
  BY <1>1
<1>3. \A i \in 1 .. p : PageIn(data, i) \in Block
  BY <1>1, <1>2, PagesLie
<1>4. G \in [1 .. p -> [States -> States]]
  <2>1. ASSUME NEW i \in 1 .. p, NEW x \in States PROVE PageStep(x, PageIn(data, i), i) \in States
    <3> DEFINE page == PageIn(data, i)
    <3>1. page \in Block
      BY <1>3
    <3> HIDE DEF page
    <3>2. PageStep(x, page, i) \in States
      BY <3>1, PageStepDoes
    <3> QED BY <3>2 DEF page
  <2> QED BY <2>1
<1>5. s \in States
  BY DEF Sound
<1>6. PICK g \in [0 .. p -> States] : TakesSteps(g, s, G, p)
  <2> HIDE DEF G
  <2> QED BY <1>1, <1>4, <1>5, Recursion
<1>7. g[0] = s
  <2> HIDE DEF G
  <2> QED BY <1>6 DEF TakesSteps
<1>8. \A i \in 1 .. p : g[i] = PageStep(g[i - 1], PageIn(data, i), i)
  <2> SUFFICES ASSUME NEW i \in 1 .. p
               PROVE  g[i] = PageStep(g[i - 1], PageIn(data, i), i)
    OBVIOUS
  <2>1. i - 1 \in 0 .. p
    BY <1>1
  <2>2. g[i - 1] \in States
    BY <2>1
  <2>3. G[i][g[i - 1]] = PageStep(g[i - 1], PageIn(data, i), i)
    BY <2>2
  <2>4. g[i] = G[i][g[i - 1]]
    <3> HIDE DEF G
    <3> QED BY <1>6 DEF TakesSteps
  <2> QED BY <2>3, <2>4
<1> HIDE DEF G
<1>9. r = g[p]
  <2> DEFINE P(h) == h = [i \in 0 .. p |->
                            IF i = 0 THEN s
                            ELSE IF i > 1 /\ h[i - 1].write_error THEN h[i - 1]
                            ELSE sfu_real_writer(h[i - 1],
                                   bin2page_decode(h[i - 1].dec, PageIn(data, i), slot))]
             after == CHOOSE h : P(h)
  <2>1. P(g)
    <3>1. g = [i \in 0 .. p |-> g[i]]
      OBVIOUS
    <3>2. ASSUME NEW i \in 0 .. p
          PROVE  g[i] = IF i = 0 THEN s
                        ELSE IF i > 1 /\ g[i - 1].write_error THEN g[i - 1]
                        ELSE sfu_real_writer(g[i - 1],
                               bin2page_decode(g[i - 1].dec, PageIn(data, i), slot))
      <4>1. CASE i = 0
        BY <1>7, <4>1
      <4>2. CASE i # 0
        <5>1. i \in 1 .. p
          BY <1>1, <4>2
        <5> QED BY <1>8, <4>2, <5>1, Zenon DEF PageStep
      <4> QED BY <4>1, <4>2
    <3> QED BY <3>1, <3>2, Zenon
  <2>2. P(after)
    <3> HIDE DEF P
    <3> QED BY <2>1, Zenon
  <2>3. r = after[p]
    BY <1>1, Zenon DEF WriteLoop, PagesIn, PageIn
  <2> HIDE DEF after
  <2>4. GoAlike(after, g, p)
    <3>1. after[0] = g[0]
      <4>1. 0 \in 0 .. p
        BY <1>1
      <4>2. after[0] = s
        BY <2>2, <4>1, Zenon
      <4> QED BY <1>7, <4>2
    <3>2. ASSUME NEW i \in 1 .. p, after[i - 1] = g[i - 1] PROVE after[i] = g[i]
      <4>1. i \in 0 .. p /\ i # 0
        BY <1>1
      <4>2. after[i] = PageStep(after[i - 1], PageIn(data, i), i)
        BY <2>2, <4>1, Zenon DEF PageStep
      <4> QED BY <1>8, <3>2, <4>2, Zenon
    <3> QED BY <3>1, <3>2 DEF GoAlike
  <2> HIDE DEF P
  <2>5. after[p] = g[p]
    BY <1>1, <2>4, SameEnd
  <2> QED BY <2>3, <2>5
<1> DEFINE S == {i \in 0 .. p : Sound(g[i], f, slot, m + i, n) /\ (s.write_error => g[i].write_error)}
<1>10. 0 \in S
  <2>1. m + 0 = m /\ 0 \in 0 .. p
    BY <1>1
  <2>2. Sound(g[0], f, slot, m + 0, n)
    BY <1>7, <2>1
  <2>3. s.write_error => g[0].write_error
    BY <1>7
  <2> QED BY <2>1, <2>2, <2>3
<1>11. ASSUME NEW i \in 1 .. p, i - 1 \in S PROVE i \in S
  <2> DEFINE a == g[i - 1]
             b == g[i]
             j == m + i - 1
  <2>1. j \in 0 .. n /\ m + (i - 1) = j /\ j + 1 = m + i /\ i \in 0 .. p
    BY <1>1, <1>2
  <2>2. Sound(a, f, slot, j, n) /\ (s.write_error => a.write_error)
    BY <1>11, <2>1
  <2>3. b = PageStep(a, PageOf(q, j), i)
    BY <1>1, <1>8
  <2> HIDE DEF a, b, j, S
  <2>4. Sound(b, f, slot, j + 1, n) /\ (a.write_error => b.write_error)
    BY <2>1, <2>2, <2>3, PageTaken DEF q
  <2>5. Sound(b, f, slot, m + i, n) /\ (s.write_error => b.write_error)
    <3>1. Sound(b, f, slot, m + i, n)
      BY <2>1, <2>4
    <3> QED BY <2>2, <2>4, <3>1, Zenon
  <2> QED BY <2>1, <2>5, Zenon DEF S, b
<1> HIDE DEF S
<1>12. \A i \in 0 .. p : i \in S
  BY <1>1, <1>10, <1>11, UpTo
<1>13. p \in S
  BY <1>1, <1>12
<1>14. Sound(g[p], f, slot, m + p, n) /\ (s.write_error => g[p].write_error)
  BY <1>13, Zenon DEF S
<1> QED BY <1>9, <1>14, Zenon

----------------------------------------------------------------------------
(* The device: what it has taken                                           *)

\* The file that is sent: one byte of it may be another.
OneByteOff(f, bin) ==
  /\ f \in Seq(Byte) /\ Len(f) = Len(bin)
  /\ \E i \in 1 .. Len(bin) : \A j \in 1 .. Len(bin) : j # i => f[j] = bin[j]

BeforeOpen == {"tables", "encode", "written"}

Untouched ==
  /\ file = <<>> /\ sent = 0 /\ dec = bin2page_reset /\ body = <<>> /\ write_error = FALSE
  /\ taken = <<>> /\ fw_fullbody_crc32 = UINT32_MAX_WORD /\ sign_crc = {}

\* Behind every WRITE whole pages are acknowledged, or the whole file, and taken soundly.
TakenIn(n) ==
  \E m \in Nat : /\ sent = m * BSIZE \/ (sent = Len(file) /\ m = n + 1)
                 /\ Sound(State, file, slot, m, n)
                 /\ IF write_error THEN sent < Len(file) ELSE taken = SubSeq(file, 1, sent)

\* Behind START as well, or a page of the file was none for the slot.
Finished(n) ==
  \/ /\ sent < Len(file) /\ Unfit(file, slot, n)
     /\ dec.active <=> HasSign(StreamOf(file))
  \/ /\ sent = Len(file) /\ taken = file
     /\ \E d : After(d, StreamOf(file), n + 1, slot, n) /\ dec = bin2page_finish(d)
     /\ body = dec.pages \/ Refused(dec.pages, slot)

CrcInv ==
  /\ file \in Seq(Byte) /\ sent \in Nat /\ sent <= Len(file) /\ sent % 4 = 0
  /\ taken \in Seq(Byte) /\ Len(taken) % 4 = 0
  /\ fw_fullbody_crc32 = crc32_calc(taken)

TakenInv ==
  \/ pc \in BeforeOpen /\ Untouched
  \/ /\ pc \notin BeforeOpen /\ OneByteOff(file, res_bin)
     /\ \E n : /\ IsFile(file, n)
               /\ IF pc = "receive" THEN sign_crc = {} /\ TakenIn(n) ELSE Finished(n)

VerdictInv ==
  /\ pc \in {"tables", "encode", "written", "receive", "signed", "refused"} /\ slot \in BOOLEAN
  /\ pc = "signed" => Accepted /\ sign_crc = crc32_IEEE8023_of(SlotBody(body))
  /\ pc = "refused" => ~Accepted /\ sign_crc = {}

DeviceInv == CrcInv /\ TakenInv /\ VerdictInv /\ State \in States

\* A page is whole words.
LEMMA Quarter == \E q \in Nat : BSIZE = 4 * q
<1>1. BSIZE % 4 = 0 /\ BSIZE \in Nat
  BY FileAssumption, BlockSize
<1> QED BY <1>1, Quarters

\* Pages end with a word.
LEMMA PagesAreWords == ASSUME NEW m \in Nat PROVE m * BSIZE \in Nat /\ (m * BSIZE) % 4 = 0
<1>1. PICK q \in Nat : BSIZE = 4 * q
  BY Quarter
<1>2. m * BSIZE = 4 * (m * q) /\ m * q \in Nat
  BY <1>1
<1> DEFINE r == m * q
<1> HIDE DEF r
<1>3. m * BSIZE = 4 * r /\ r \in Nat
  BY <1>2 DEF r
<1> QED BY <1>3

\* So is a file.
LEMMA FilesAreWords ==
  ASSUME NEW f, NEW n, IsFile(f, n)
  PROVE  Len(f) \in Nat /\ Len(f) % 4 = 0
<1> DEFINE base == n * BSIZE
<1>1. base \in Nat /\ base % 4 = 0
  BY PagesAreWords DEF IsFile
<1>2. Len(SIGN) \in Nat /\ Len(SIGN) % 4 = 0
  BY SignSize, FileAssumption
<1>3. Len(f) = Len(SIGN) + base
  BY DEF IsFile
<1> HIDE DEF base
<1> QED BY <1>1, <1>2, <1>3

\* The file does not end with a page.
LEMMA NoPageEndsIt ==
  ASSUME NEW f, NEW n, IsFile(f, n), NEW m \in Nat
  PROVE  Len(f) # m * BSIZE
<1> SUFFICES ASSUME Len(f) = m * BSIZE PROVE FALSE
  OBVIOUS
<1>1. n \in Nat /\ Len(f) = Len(SIGN) + n * BSIZE
  BY DEF IsFile
<1> DEFINE b == BSIZE
           l == Len(SIGN)
<1>2. b \in Nat /\ l \in Nat /\ 0 < l /\ l < b /\ m * b = l + n * b
  BY <1>1, SignRange, BlockSize
<1> HIDE DEF b, l
<1>3. CASE m <= n
  <2>1. m * b <= n * b /\ m * b \in Nat /\ n * b \in Nat
    BY <1>1, <1>2, <1>3, SMTT(30)
  <2> QED BY <1>2, <2>1
<1>4. CASE m >= n + 1
  <2>1. m * b >= (n + 1) * b /\ (n + 1) * b = n * b + b /\ m * b \in Nat /\ n * b \in Nat
    BY <1>1, <1>2, <1>4, SMTT(30)
  <2> QED BY <1>2, <2>1
<1>5. m <= n \/ m >= n + 1
  BY <1>1
<1> QED BY <1>3, <1>4, <1>5

\* The CRC of nothing.
LEMMA CrcOfNothing == crc32_calc(<<>>) = UINT32_MAX_WORD /\ Len(<<>>) % 4 = 0
<1>1. Len(<<>>) = 0 /\ 0 \div 4 = 0 /\ 0 % 4 = 0
  OBVIOUS
<1>2. crc32_calc_raw(UINT32_MAX_WORD, <<>>, 0) = UINT32_MAX_WORD
  BY AllOnes, CalcNone
<1> QED BY <1>1, <1>2 DEF crc32_calc

\* The device before its first WRITE.
LEMMA StateAtFirst ==
  ASSUME NEW s, s = [dec |-> bin2page_reset, body |-> <<>>, write_error |-> FALSE]
  PROVE  s \in States /\ s.dec = bin2page_reset /\ s.body = s.dec.pages /\ s.write_error = FALSE
<1>1. bin2page_reset \in Decs /\ bin2page_reset.pages = <<>>
  BY ResetIs
<1>2. <<>> \in Bodies
  <2>1. <<>> \in Seq(Byte) /\ Len(<<>>) = 0
    OBVIOUS
  <2>2. 0 % BSIZE = 0 /\ 0 <= SLOT_SIZE
    BY BlockSize, FileAssumption
  <2> QED BY <2>1, <2>2 DEF Bodies
<1> QED BY <1>1, <1>2 DEF States

\* Before ERASE nothing was taken.
LEMMA DeviceInit == Init => DeviceInv
<1> SUFFICES ASSUME Init PROVE DeviceInv
  OBVIOUS
<1>1. pc = "tables" /\ Untouched /\ slot = FALSE
  BY DEF Init, Untouched
<1>2. CrcInv
  <2>1. file \in Seq(Byte) /\ Len(file) = 0 /\ taken \in Seq(Byte)
    BY <1>1, EmptySeq DEF Untouched
  <2>2. sent = 0 /\ 0 % 4 = 0
    BY <1>1 DEF Untouched
  <2> QED BY <1>1, <2>1, <2>2, CrcOfNothing DEF CrcInv, Untouched
<1>3. TakenInv
  BY <1>1 DEF TakenInv, BeforeOpen
<1>4. VerdictInv
  BY <1>1 DEF VerdictInv
<1>5. State \in States
  BY <1>1, StateAtFirst DEF State, Untouched
<1> QED BY <1>2, <1>3, <1>4, <1>5 DEF DeviceInv

\* The host's steps do not concern the device.
LEMMA HostSteps ==
  ASSUME DeviceInv, pc \in {"tables", "encode"}, pc' \in {"encode", "written"},
         UNCHANGED <<file, slot, deviceVars>>
  PROVE  DeviceInv'
<1>1. CrcInv'
  BY DEF DeviceInv, CrcInv, deviceVars
<1>2. Untouched
  BY DEF DeviceInv, TakenInv, BeforeOpen
<1>3. TakenInv'
  BY <1>2 DEF TakenInv, Untouched, BeforeOpen, deviceVars
<1>4. VerdictInv'
  BY DEF DeviceInv, VerdictInv
<1>5. State' \in States
  BY DEF DeviceInv, State, deviceVars
<1> QED BY <1>1, <1>3, <1>4, <1>5 DEF DeviceInv

\* ERASE, and the file with at most one byte damaged.
LEMMA OpenStep ==
  ASSUME EncoderInv, DeviceInv, Open
  PROVE  DeviceInv'
<1>1. pc = "written" /\ pc' = "receive" /\ slot' \in BOOLEAN /\ res_bin' = res_bin
      /\ sent' = sent /\ dec' = dec /\ fw_fullbody_crc32' = fw_fullbody_crc32
      /\ sign_crc' = sign_crc /\ body' = body /\ write_error' = write_error /\ taken' = taken
  BY DEF Open, hostVars, deviceVars
<1>2. Untouched
  BY <1>1 DEF DeviceInv, TakenInv, BeforeOpen
<1>3. PICK n \in Nat : Len(res_bin) = Len(SIGN) + n * BSIZE
  BY DEF EncoderInv, Written
<1>4. res_bin \in Seq(Byte) /\ Len(res_bin) \in Nat /\ Len(res_bin) > 0
  <2>1. n * BSIZE \in Nat
    BY BlockSize
  <2>2. res_bin \in Seq(Byte)
    BY DEF EncoderInv, Written
  <2> QED BY <1>3, <2>1, <2>2, SignRange, LenProperties
<1>5. OneByteOff(file', res_bin)
  <2>1. CASE file' = res_bin
    <3>1. 1 \in 1 .. Len(res_bin)
      BY <1>4
    <3> QED BY <1>4, <2>1, <3>1 DEF OneByteOff
  <2>2. ASSUME NEW i \in DOMAIN res_bin, NEW b \in Damages, file' = [res_bin EXCEPT ![i] = b]
        PROVE  OneByteOff(file', res_bin)
    <3>1. i \in 1 .. Len(res_bin) /\ b \in Byte
      <4>1. DOMAIN res_bin = 1 .. Len(res_bin)
        BY <1>4, LenProperties
      <4> QED BY <4>1, FileAssumption
    <3>2. file' \in Seq(Byte) /\ Len(file') = Len(res_bin)
          /\ \A j \in 1 .. Len(res_bin) : file'[j] = IF j = i THEN b ELSE res_bin[j]
      BY <1>4, <2>2, <3>1, ExceptSeq
    <3> QED BY <3>1, <3>2 DEF OneByteOff
  <2> QED BY <2>1, <2>2 DEF Open
<1>6. IsFile(file', n)
  BY <1>3, <1>5 DEF IsFile, OneByteOff
<1>7. State' = [dec |-> bin2page_reset, body |-> <<>>, write_error |-> FALSE]
  BY <1>1, <1>2 DEF State, Untouched
<1>8. TakenInv'
  <2>1. TakenIn(n)'
    <3>1. 0 \in Nat /\ sent' = 0 * BSIZE
      BY <1>1, <1>2, BlockSize DEF Untouched
    <3>2. Sound(State', file', slot', 0, n)
      BY <1>7, StateAtFirst DEF Sound, After
    <3>3. write_error' = FALSE /\ taken' = SubSeq(file', 1, sent')
      <4>1. SubSeq(file', 1, 0) = <<>>
        BY <1>5 DEF OneByteOff
      <4> QED BY <1>1, <1>2, <4>1 DEF Untouched
    <3> QED BY <3>1, <3>2, <3>3 DEF TakenIn
  <2>2. pc' \notin BeforeOpen /\ sign_crc' = {}
    BY <1>1, <1>2 DEF BeforeOpen, Untouched
  <2> QED BY <1>1, <1>5, <1>6, <2>1, <2>2 DEF TakenInv
<1>9. CrcInv'
  <2>1. file' \in Seq(Byte) /\ Len(file') \in Nat /\ taken' \in Seq(Byte)
    BY <1>1, <1>2, <1>5, EmptySeq, LenProperties DEF OneByteOff, Untouched
  <2>2. sent' = 0 /\ 0 % 4 = 0 /\ fw_fullbody_crc32' = UINT32_MAX_WORD /\ taken' = <<>>
    BY <1>1, <1>2 DEF Untouched
  <2> QED BY <2>1, <2>2, CrcOfNothing DEF CrcInv
<1>10. VerdictInv'
  BY <1>1 DEF VerdictInv
<1>11. State' \in States
  BY <1>7, StateAtFirst
<1> QED BY <1>8, <1>9, <1>10, <1>11 DEF DeviceInv

\* The next part of a sequence.
LEMMA NextPart ==
  ASSUME NEW s \in Seq(Byte), NEW a \in Nat, NEW b \in Nat, a <= b, b <= Len(s)
  PROVE  /\ SubSeq(s, a + 1, b) \in Seq(Byte) /\ Len(SubSeq(s, a + 1, b)) = b - a
         /\ SubSeq(s, 1, a) \o SubSeq(s, a + 1, b) = SubSeq(s, 1, b)
<1> DEFINE x == SubSeq(s, 1, a)
           y == SubSeq(s, a + 1, b)
           z == SubSeq(s, 1, b)
<1>1. /\ x \in Seq(Byte) /\ Len(x) = a /\ z \in Seq(Byte) /\ Len(z) = b
      /\ Lies(x, s, 0) /\ Lies(z, s, 0)
  <2>1. a \in 0 .. Len(s) /\ b \in 0 .. Len(s) /\ Lies(s, s, 0)
    BY LenProperties DEF Lies
  <2>2. Lies(x, s, 0) /\ Lies(z, s, 0)
    BY <2>1, LiePart
  <2> QED BY <2>1, <2>2, Cut
<1>2. y \in Seq(Byte) /\ Len(y) = b - a /\ Lies(y, s, 0 + a)
  <2>1. \A i \in (a + 1) .. b : i \in 1 .. Len(s)
    BY LenProperties
  <2>2. \A i \in (a + 1) .. b : s[i] \in Byte
    BY <2>1, ElementOfSeq
  <2>3. y \in Seq(Byte) /\ Len(y) = b - a /\ \A i \in 1 .. (b - a) : y[i] = s[a + i]
    BY <2>1, <2>2, SubSeqProperties
  <2> HIDE DEF y
  <2> QED BY <2>3 DEF Lies
<1> HIDE DEF x, y, z
<1>3. x \o y \in Seq(Byte) /\ Len(x \o y) = Len(x) + Len(y) /\ Lies(x \o y, s, 0)
  BY <1>1, <1>2, LieAdjacent
<1>4. Len(x \o y) = Len(z)
  BY <1>1, <1>2, <1>3
<1>5. x \o y = z
  BY <1>1, <1>3, <1>4, LieAlike
<1> QED BY <1>2, <1>5 DEF x, y, z

\* The register goes on with the words that are put behind.
LEMMA CrcAppends ==
  ASSUME NEW s \in Seq(Byte), Len(s) % 4 = 0, NEW t \in Seq(Byte)
  PROVE  crc32_calc_raw(crc32_calc(s), t, Len(t) \div 4) = crc32_calc(s \o t)
<1> DEFINE w == s \o t
           c == UINT32_MAX_WORD
           data == SubSeq(w, Len(s) + 1, Len(w))
<1>1. w \in Seq(Byte) /\ Len(s) \in Nat /\ Len(w) \in Nat /\ Len(s) <= Len(w)
  <2>1. w \in Seq(Byte) /\ Len(w) = Len(s) + Len(t) /\ Len(s) \in Nat /\ Len(t) \in Nat
    BY Joined, LenProperties
  <2> HIDE DEF w
  <2> QED BY <2>1
<1>2. SubSeq(w, 1, Len(s)) = s /\ data = t
  BY Behind
<1>3. crc32_calc(s) = crc32_calc_raw(c, w, Len(s) \div 4)
  <2> HIDE DEF w, c
  <2>1. crc32_calc(SubSeq(w, 1, Len(s))) = crc32_calc_raw(c, w, Len(s) \div 4)
    BY <1>1, CrcOfPart DEF c
  <2> QED BY <1>2, <2>1
<1>4. crc32_calc_raw(crc32_calc_raw(c, w, Len(s) \div 4), data, Len(data) \div 4)
        = crc32_calc_raw(c, w, Len(w) \div 4)
  <2> DEFINE a == Len(s)
             b == Len(w)
  <2>1. /\ w \in Seq(Byte) /\ a \in Nat /\ b \in Nat /\ a % 4 = 0 /\ a <= b /\ b <= Len(w)
        /\ c \in Words
    BY <1>1, AllOnes
  <2> HIDE DEF w, a, b, c
  <2>2. crc32_calc_raw(crc32_calc_raw(c, w, a \div 4), SubSeq(w, a + 1, b),
                       Len(SubSeq(w, a + 1, b)) \div 4) = crc32_calc_raw(c, w, b \div 4)
    BY <2>1, CrcGoesOn
  <2> QED BY <2>2 DEF a, b
<1>5. crc32_calc(w) = crc32_calc_raw(c, w, Len(w) \div 4)
  BY DEF crc32_calc
<1> HIDE DEF w, c, data
<1> QED BY <1>2, <1>3, <1>4, <1>5 DEF w

\* A WRITE: the CRC and the decoder have gone on by its bytes, and by its pages.
LEMMA WriteStep ==
  ASSUME DeviceInv, sfu_command_write
  PROVE  DeviceInv'
<1>1. pc = "receive" /\ sent < Len(file) /\ UNCHANGED <<pc, res_bin, file, slot, sign_crc>>
  BY DEF sfu_command_write, hostVars
<1> DEFINE upTo(j) == IF sent + j * BSIZE < Len(file) THEN sent + j * BSIZE ELSE Len(file)
<1>2. PICK j \in PacketPages :
        /\ fw_fullbody_crc32' = Folded(SubSeq(file, sent + 1, upTo(j)))
        /\ taken' = taken \o SubSeq(file, sent + 1, upTo(j))
        /\ dec' = WriteLoop(State, SubSeq(file, sent + 1, upTo(j))).dec
        /\ body' = WriteLoop(State, SubSeq(file, sent + 1, upTo(j))).body
        /\ write_error' = WriteLoop(State, SubSeq(file, sent + 1, upTo(j))).write_error
        /\ sent' = IF write_error' THEN sent ELSE upTo(j)
  BY DEF sfu_command_write
<1> DEFINE to == upTo(j)
           data == SubSeq(file, sent + 1, to)
           after == WriteLoop(State, data)
<1>3. PICK n : IsFile(file, n) /\ sign_crc = {} /\ TakenIn(n)
  BY <1>1 DEF DeviceInv, TakenInv, BeforeOpen
<1>4. PICK m \in Nat : /\ Sound(State, file, slot, m, n) /\ sent = m * BSIZE
                       /\ ~write_error => taken = SubSeq(file, 1, sent)
  BY <1>1, <1>3 DEF TakenIn
<1>5. file \in Seq(Byte) /\ sent \in Nat /\ Len(file) \in Nat /\ slot \in BOOLEAN
  BY LenProperties DEF DeviceInv, CrcInv, VerdictInv
<1>6. j \in Nat \ {0} /\ j * BSIZE \in Nat /\ j * BSIZE > 0
  <2>1. j \in Nat /\ j >= 1
    BY FileAssumption
  <2>2. j * BSIZE \in Nat /\ j * BSIZE >= BSIZE
    BY <2>1, BlockSize, SMTT(30)
  <2> QED BY <2>1, <2>2, BlockSize
<1>7. to \in Nat /\ sent <= to /\ to <= Len(file)
      /\ (to = Len(file) \/ to = sent + j * BSIZE)
  <2> DEFINE step == j * BSIZE
  <2>1. step \in Nat
    BY <1>6
  <2>2. to = IF sent + step < Len(file) THEN sent + step ELSE Len(file)
    OBVIOUS
  <2> HIDE DEF step, to
  <2>3. to \in Nat /\ sent <= to /\ to <= Len(file) /\ (to = Len(file) \/ to = sent + step)
    BY <1>1, <1>5, <2>1, <2>2
  <2> QED BY <2>3 DEF step
<1>8. /\ fw_fullbody_crc32' = Folded(data) /\ taken' = taken \o data
      /\ dec' = after.dec /\ body' = after.body /\ write_error' = after.write_error
      /\ sent' = IF write_error' THEN sent ELSE to
  BY <1>2
<1> HIDE DEF to, after
<1>9. to % 4 = 0
  <2>1. Len(file) % 4 = 0
    BY <1>3, FilesAreWords
  <2>2. CASE to = sent + j * BSIZE
    <3> DEFINE step == j * BSIZE
    <3>1. step \in Nat /\ step % 4 = 0
      BY <1>6, PagesAreWords
    <3>2. sent % 4 = 0
      BY DEF DeviceInv, CrcInv
    <3>3. to = sent + step
      BY <2>2
    <3> HIDE DEF step
    <3> QED BY <1>5, <3>1, <3>2, <3>3
  <2> QED BY <1>7, <2>1, <2>2
<1>10. /\ data \in Seq(Byte) /\ Len(data) = to - sent /\ Len(data) % 4 = 0
       /\ SubSeq(file, 1, sent) \o data = SubSeq(file, 1, to)
  <2>1. /\ data \in Seq(Byte) /\ Len(data) = to - sent
        /\ SubSeq(file, 1, sent) \o data = SubSeq(file, 1, to)
    BY <1>5, <1>7, NextPart
  <2>2. sent % 4 = 0
    BY DEF DeviceInv, CrcInv
  <2>3. (to - sent) % 4 = 0
    BY <1>5, <1>7, <1>9, <2>2
  <2> QED BY <2>1, <2>3
<1>11. CrcInv'
  <2>1. taken \in Seq(Byte) /\ Len(taken) % 4 = 0 /\ fw_fullbody_crc32 = crc32_calc(taken)
    BY DEF DeviceInv, CrcInv
  <2> DEFINE d == data
  <2>2. d \in Seq(Byte) /\ Len(d) % 4 = 0
    BY <1>10
  <2>3. Folded(d) = crc32_calc_raw(fw_fullbody_crc32, d, Len(d) \div 4)
    BY DEF Folded
  <2>4. fw_fullbody_crc32' = Folded(d) /\ taken' = taken \o d
    BY <1>8
  <2> HIDE DEF d
  <2>5. crc32_calc_raw(crc32_calc(taken), d, Len(d) \div 4) = crc32_calc(taken \o d)
    BY <2>1, <2>2, CrcAppends
  <2>6. fw_fullbody_crc32' = crc32_calc(taken')
    BY <2>1, <2>3, <2>4, <2>5
  <2>7. taken' \in Seq(Byte) /\ Len(taken') % 4 = 0
    <3>1. taken \o d \in Seq(Byte) /\ Len(taken \o d) = Len(taken) + Len(d)
          /\ Len(taken) \in Nat /\ Len(d) \in Nat
      BY <2>1, <2>2, Joined, LenProperties
    <3>2. (Len(taken) + Len(d)) % 4 = 0
      BY <2>1, <2>2, <3>1
    <3> QED BY <2>4, <3>1, <3>2
  <2>8. sent' \in Nat /\ sent' <= Len(file) /\ sent' % 4 = 0
    <3>1. sent % 4 = 0 /\ sent <= Len(file)
      BY <1>5 DEF DeviceInv, CrcInv
    <3>2. sent' = sent \/ sent' = to
      BY <1>8
    <3> QED BY <1>5, <1>7, <1>9, <3>1, <3>2
  <2> QED BY <1>1, <1>5, <2>6, <2>7, <2>8 DEF CrcInv
<1>12. PICK p \in Nat : /\ Carries(data, StreamOf(file), m, p, n)
                        /\ to = (m + p) * BSIZE \/ (to = Len(file) /\ m + p = n + 1)
  <2>1. to = Len(file) \/ (to <= Len(file) /\ \E k \in Nat \ {0} : to = m * BSIZE + k * BSIZE)
    BY <1>4, <1>6, <1>7
  <2>2. m * BSIZE < Len(file) /\ data = SubSeq(file, m * BSIZE + 1, to)
    BY <1>1, <1>4
  <2> HIDE DEF data
  <2> QED BY <1>3, <1>7, <2>1, <2>2, PacketCarries
<1>13. Sound(after, file, slot, m + p, n) /\ (write_error => after.write_error)
  <2> DEFINE s == State
             d == data
  <2>1. after = WriteLoop(s, d) /\ s.write_error = write_error
    BY DEF after, State
  <2>2. Sound(s, file, slot, m, n) /\ Carries(d, StreamOf(file), m, p, n)
    BY <1>4, <1>12
  <2> HIDE DEF s, d
  <2>3. Sound(after, file, slot, m + p, n) /\ (s.write_error => after.write_error)
    BY <1>3, <1>5, <2>1, <2>2, LoopIs
  <2> QED BY <2>1, <2>3
<1>14. State' = after /\ after \in States
  <2>1. after \in States
    BY <1>13 DEF Sound
  <2>2. after = [dec |-> after.dec, body |-> after.body, write_error |-> after.write_error]
    BY <2>1 DEF States
  <2>3. State' = [dec |-> dec', body |-> body', write_error |-> write_error']
    BY DEF State
  <2> QED BY <1>8, <2>1, <2>2, <2>3
<1>15. TakenIn(n)'
  <2>1. after.write_error \in BOOLEAN
    BY <1>14 DEF States
  <2>2. CASE after.write_error
    <3>1. write_error' /\ sent' = sent
      BY <1>8, <2>2
    <3>2. Sound(State', file', slot', m, n)
      <4>1. Sound(after, file, slot, m, n)
        BY <1>13, <2>2, Zenon DEF Sound
      <4> QED BY <1>1, <1>14, <4>1
    <3>3. sent' = m * BSIZE /\ sent' < Len(file')
      BY <1>1, <1>4, <3>1
    <3> QED BY <3>1, <3>2, <3>3 DEF TakenIn
  <2>3. CASE ~after.write_error
    <3>1. ~write_error' /\ ~write_error /\ sent' = to
      BY <1>8, <1>13, <2>3
    <3>2. Sound(State', file', slot', m + p, n)
      BY <1>1, <1>13, <1>14
    <3>3. taken' = SubSeq(file', 1, sent')
      BY <1>1, <1>4, <1>8, <1>10, <3>1
    <3>4. sent' = (m + p) * BSIZE \/ (sent' = Len(file') /\ m + p = n + 1)
      BY <1>1, <1>12, <3>1
    <3>5. m + p \in Nat
      OBVIOUS
    <3> QED BY <3>1, <3>2, <3>3, <3>4, <3>5 DEF TakenIn
  <2> QED BY <2>1, <2>2, <2>3
<1>16. TakenInv'
  <2>1. pc' \notin BeforeOpen /\ OneByteOff(file', res_bin')
    BY <1>1 DEF DeviceInv, TakenInv, BeforeOpen
  <2>2. IsFile(file', n) /\ pc' = "receive" /\ sign_crc' = {}
    BY <1>1, <1>3
  <2> QED BY <1>15, <2>1, <2>2 DEF TakenInv
<1>17. VerdictInv'
  BY <1>1 DEF DeviceInv, VerdictInv
<1> QED BY <1>11, <1>14, <1>16, <1>17 DEF DeviceInv

\* START: the decoder gives out what it held back, and the verdict is the code's.
LEMMA StartStep ==
  ASSUME DeviceInv, sfu_command_start
  PROVE  DeviceInv'
<1> DEFINE fin == bin2page_finish(dec)
           after == sfu_real_writer(State, fin)
<1>1. /\ pc = "receive" /\ (sent = Len(file) \/ write_error)
      /\ dec' = after.dec /\ body' = after.body /\ write_error' = FALSE
      /\ UNCHANGED <<res_bin, file, slot, sent, fw_fullbody_crc32, taken>>
  BY DEF sfu_command_start, hostVars
<1>2. PICK n : IsFile(file, n) /\ sign_crc = {} /\ TakenIn(n)
  BY <1>1 DEF DeviceInv, TakenInv, BeforeOpen
<1>3. PICK m \in Nat : /\ sent = m * BSIZE \/ (sent = Len(file) /\ m = n + 1)
                       /\ Sound(State, file, slot, m, n)
                       /\ IF write_error THEN sent < Len(file) ELSE taken = SubSeq(file, 1, sent)
  BY <1>2 DEF TakenIn
<1>4. /\ State \in States /\ State.dec = dec /\ State.body = body /\ State.write_error = write_error
      /\ dec \in Decs /\ write_error \in BOOLEAN
  <2>1. State \in States
    BY DEF DeviceInv
  <2>2. State.dec = dec /\ State.body = body /\ State.write_error = write_error
    BY DEF State
  <2> QED BY <2>1, <2>2 DEF States
<1>5. fin \in Decs /\ Adds(fin, dec) /\ fin.active = dec.active /\ fin.errors = dec.errors
  BY <1>4, FinishIs, FinishAdds
<1>6. Wrote(after, State, fin)
  <2> DEFINE s == State
  <2>1. s \in States /\ Adds(fin, s.dec) /\ fin \in Decs
    BY <1>4, <1>5
  <2> HIDE DEF s, fin
  <2>2. \A r : r = sfu_real_writer(s, fin) => Wrote(r, s, fin)
    BY <2>1, WriterDoes
  <2> QED BY <2>2 DEF s
<1> HIDE DEF fin, after
<1>7. after \in States /\ dec' = fin
  BY <1>1, <1>6 DEF Wrote
<1>8. body = dec.pages => body' = fin.pages \/ Refused(fin.pages, slot)
  BY <1>1, <1>4, <1>6, Zenon DEF Wrote
<1>9. Finished(n)'
  <2>1. CASE write_error
    <3>1. /\ sent < Len(file) /\ Unfit(file, slot, n)
          /\ dec.active <=> HasSign(StreamOf(file))
      BY <1>3, <1>4, <2>1, Zenon DEF Sound
    <3>2. sent' < Len(file') /\ Unfit(file', slot', n)
      BY <1>1, <3>1
    <3>3. dec'.active <=> HasSign(StreamOf(file'))
      BY <1>1, <1>5, <1>7, <3>1, Zenon
    <3> QED BY <3>2, <3>3, Zenon DEF Finished
  <2>2. CASE ~write_error
    <3>1. sent = Len(file) /\ After(dec, StreamOf(file), m, slot, n) /\ body = dec.pages
          /\ taken = SubSeq(file, 1, sent)
      BY <1>1, <1>3, <1>4, <2>2, Zenon DEF Sound
    <3>2. m = n + 1
      BY <1>2, <1>3, <3>1, NoPageEndsIt
    <3>3. taken = file
      <4>1. file \in Seq(Byte)
        BY DEF DeviceInv, CrcInv
      <4>2. SubSeq(file, 1, Len(file)) = file
        BY <4>1, SubSeqFull
      <4> QED BY <3>1, <4>2
    <3>4. After(dec, StreamOf(file'), n + 1, slot', n) /\ dec' = bin2page_finish(dec)
      BY <1>1, <1>7, <3>1, <3>2 DEF fin
    <3>5. body' = dec'.pages \/ Refused(dec'.pages, slot')
      BY <1>1, <1>7, <1>8, <3>1
    <3>6. sent' = Len(file') /\ taken' = file'
      BY <1>1, <3>1, <3>3
    <3> QED BY <3>4, <3>5, <3>6, Zenon DEF Finished
  <2> QED BY <1>4, <2>1, <2>2
<1>10. Accepted' = Accepted
  BY <1>1, <1>5, <1>7, Zenon DEF Accepted
<1>11. \/ Accepted /\ pc' = "signed" /\ sign_crc' = crc32_IEEE8023_of(SlotBody(body'))
       \/ ~Accepted /\ pc' = "refused" /\ sign_crc' = sign_crc
  BY Zenon DEF sfu_command_start
<1>12. CrcInv'
  BY <1>1 DEF DeviceInv, CrcInv
<1>13. TakenInv'
  <2>1. pc' \notin BeforeOpen /\ pc' # "receive"
    BY <1>11 DEF BeforeOpen
  <2>2. OneByteOff(file', res_bin') /\ IsFile(file', n)
    BY <1>1, <1>2 DEF DeviceInv, TakenInv, BeforeOpen
  <2> QED BY <1>9, <2>1, <2>2 DEF TakenInv
<1>14. VerdictInv'
  <2>1. slot' \in BOOLEAN
    BY <1>1 DEF DeviceInv, VerdictInv
  <2>2. CASE Accepted /\ pc' = "signed" /\ sign_crc' = crc32_IEEE8023_of(SlotBody(body'))
    BY <1>10, <2>1, <2>2, Zenon DEF VerdictInv
  <2>3. CASE ~Accepted /\ pc' = "refused" /\ sign_crc' = sign_crc
    <3>1. sign_crc' = {}
      BY <1>2, <2>3
    <3> QED BY <1>10, <2>1, <2>3, <3>1, Zenon DEF VerdictInv
  <2> QED BY <1>11, <2>2, <2>3
<1>15. State' \in States
  <2>1. State' = [dec |-> dec', body |-> body', write_error |-> FALSE]
    BY <1>1 DEF State
  <2>2. after.dec \in Decs /\ after.body \in Bodies
    BY <1>7 DEF States
  <2>3. dec' \in Decs /\ body' \in Bodies
    BY <1>1, <2>2
  <2> QED BY <2>1, <2>3 DEF States
<1> QED BY <1>12, <1>13, <1>14, <1>15 DEF DeviceInv

\* Every step keeps what is known of the device.
LEMMA DeviceNext == EncoderInv /\ DeviceInv /\ [Next]_vars => DeviceInv'
<1> SUFFICES ASSUME EncoderInv, DeviceInv, [Next]_vars PROVE DeviceInv'
  OBVIOUS
<1>1. CASE InitTables
  <2>1. pc \in {"tables", "encode"} /\ pc' \in {"encode", "written"}
        /\ UNCHANGED <<file, slot, deviceVars>>
    BY <1>1 DEF InitTables
  <2> QED BY <2>1, HostSteps
<1>2. CASE EncodeByte
  <2>1. pc = "encode" /\ UNCHANGED <<file, slot, deviceVars>>
    BY <1>2 DEF EncodeByte
  <2>2. pc' \in {"encode", "written"}
    <3>1. PICK p \in (IF Len(image) < size THEN Pairs ELSE {<<FF, FF>>}) :
            IF BlockFull(Push(blk, p[1], p[2]))
            THEN pc' = IF Len(image') = size THEN "written" ELSE "encode"
            ELSE pc' = pc
      BY <1>2 DEF EncodeByte
    <3> QED BY <2>1, <3>1
  <2> QED BY <2>1, <2>2, HostSteps
<1>3. CASE Open
  BY <1>3, OpenStep
<1>4. CASE sfu_command_write
  BY <1>4, WriteStep
<1>5. CASE sfu_command_start
  BY <1>5, StartStep
<1>6. CASE UNCHANGED vars
  <2>1. /\ UNCHANGED <<pc, res_bin, file, slot, sent, fw_fullbody_crc32, sign_crc>>
        /\ UNCHANGED <<dec, body, write_error, taken>>
    BY <1>6 DEF vars, hostVars, deviceVars
  <2>2. CrcInv'
    BY <2>1 DEF DeviceInv, CrcInv
  <2>3. State' = State
    BY <2>1 DEF State
  <2>4. TakenInv'
    BY <2>1, <2>3 DEF DeviceInv, TakenInv, Untouched, TakenIn, Finished
  <2>5. VerdictInv'
    BY <2>1, Zenon DEF DeviceInv, VerdictInv, Accepted
  <2> QED BY <2>2, <2>3, <2>4, <2>5 DEF DeviceInv
<1> QED BY <1>1, <1>2, <1>3, <1>4, <1>5, <1>6 DEF Next

\* So it holds of every behaviour.
LEMMA Always == Spec => [](EncoderInv /\ DeviceInv)
BY EncoderInit, EncoderNext, DeviceInit, DeviceNext, PTL DEF Spec

(***************************************************************************)
(* fw_fullbody_crc32 is the remainder, bit after bit, of the bytes of all  *)
(* packets so far, whatever their sizes, and of a packet that was answered *)
(* with WRERROR and sent again as well (CrcOfWhatWasTaken).                *)
(***************************************************************************)
THEOREM CrcIsOfTheFile == Spec => []CrcOfWhatWasTaken
<1>1. DeviceInv => CrcOfWhatWasTaken
  <2> SUFFICES ASSUME CrcInv PROVE CrcOfWhatWasTaken
    BY DEF DeviceInv
  <2>1. Len(taken) \in Nat /\ fw_fullbody_crc32 = crc32_calc(taken)
    BY LenProperties DEF CrcInv
  <2>2. crc32_calc(taken) = SerialStm(taken)
    BY <2>1, TablesAreSerial
  <2> QED BY <2>1, <2>2 DEF CrcOfWhatWasTaken
<1> QED BY Always, <1>1, PTL

----------------------------------------------------------------------------
(* The device: what it has decoded                                         *)

\* The number of blocks is found from the length of the file.
LEMMA BlockCount ==
  ASSUME NEW f, NEW n, IsFile(f, n)
  PROVE  (Len(f) - Len(SIGN)) \div BSIZE = n /\ n \in Nat
<1> DEFINE base == n * BSIZE
           b == BSIZE
<1>1. n \in Nat /\ base \in Nat /\ b \in Nat /\ b > 0 /\ base = n * b
  BY BlockSize DEF IsFile
<1>2. Len(f) - Len(SIGN) = base
  <2> HIDE DEF base
  <2>1. Len(f) = Len(SIGN) + base
    BY DEF IsFile, base
  <2> QED BY <1>1, <2>1, SignSize
<1>3. base \div b = n
  <2> DEFINE y == base \div b
             z == base % b
             x == n - y
  <2>1. y \in Int /\ z \in 0 .. (b - 1) /\ base = b * y + z
    <3> HIDE DEF base, b
    <3> QED BY <1>1
  <2> HIDE DEF base, b, y, z
  <2>2. x \in Int /\ b * x = z
    <3>1. z = b * n - b * y /\ y \in Int /\ b \in Int /\ n \in Int
      BY <1>1, <2>1
    <3>2. b * (n - y) = b * n - b * y /\ n - y \in Int
      BY <3>1
    <3> QED BY <3>1, <3>2
  <2> HIDE DEF x
  <2>3. ~(x >= 1) /\ ~(x <= -1)
    BY <1>1, <2>1, <2>2, SMTT(30)
  <2>4. x = 0
    BY <2>2, <2>3
  <2> QED BY <1>1, <2>1, <2>4 DEF x, y
<1> QED BY <1>1, <1>2, <1>3

\* The blocks of the file, as they are written here and there.
LEMMA BlocksOfFile ==
  ASSUME NEW f, NEW n, IsFile(f, n), NEW i \in 0 .. (n - 1)
  PROVE  /\ BlockOf(f, i) \in Block
         /\ BlockOf(StreamOf(f), i) = BlockOf(f, i)
         /\ SubSeq(f, Len(SIGN) + 1 + BSIZE * i, Len(SIGN) + BSIZE * (i + 1)) = BlockOf(f, i)
<1> DEFINE o == Len(SIGN) + i * BSIZE
           q == StreamOf(f)
<1>1. i \in Nat /\ n \in Nat /\ i * BSIZE \in Nat /\ (i + 1) * BSIZE = i * BSIZE + BSIZE
      /\ (i + 1) * BSIZE <= n * BSIZE
  <2>1. i \in Nat /\ n \in Nat /\ i + 1 <= n
    BY DEF IsFile
  <2> QED BY <2>1, BlockSize, SMTT(30)
<1>2. o \in Nat /\ o + BSIZE <= Len(f)
  <2>1. Len(f) = Len(SIGN) + n * BSIZE /\ n * BSIZE \in Nat
    BY <1>1, BlockSize DEF IsFile
  <2> QED BY <1>1, <2>1, SignSize, BlockSize
<1>3. f \in Seq(Byte) /\ q \in Seq(Byte) /\ Len(f) < Len(q) /\ Len(f) \in Nat
      /\ \A j \in 1 .. Len(f) : q[j] = f[j]
  BY StreamIs DEF IsFile, Holds
<1>4. Len(SIGN) + 1 + BSIZE * i = o + 1 /\ Len(SIGN) + BSIZE * (i + 1) = o + BSIZE
  <2>1. BSIZE * i = i * BSIZE /\ BSIZE * (i + 1) = i * BSIZE + BSIZE
    BY <1>1, BlockSize
  <2> DEFINE base == i * BSIZE
  <2>2. base \in Nat /\ BSIZE * i = base /\ BSIZE * (i + 1) = base + BSIZE /\ o = Len(SIGN) + base
    BY <1>1, <2>1
  <2> HIDE DEF base, o
  <2> QED BY <2>2, SignSize, BlockSize
<1> HIDE DEF o, q
<1>5. /\ SubSeq(f, o + 1, o + BSIZE) \in Block
      /\ \A j \in 1 .. BSIZE : SubSeq(f, o + 1, o + BSIZE)[j] = f[o + j]
  BY <1>2, <1>3, WindowIs
<1> DEFINE w == SubSeq(f, o + 1, o + BSIZE)
<1>6. SubSeq(q, o + 1, o + BSIZE) = w
  <2>1. w \in Seq(Byte) /\ Len(w) = BSIZE
    BY <1>5, BlockBytes
  <2>2. \A j \in 1 .. BSIZE : q[o + j] = w[j]
    <3>1. \A j \in 1 .. BSIZE : w[j] = f[o + j]
      BY <1>5
    <3>2. \A j \in 1 .. BSIZE : o + j \in 1 .. Len(f)
      BY <1>2, <1>3, BlockSize
    <3> HIDE DEF w
    <3> QED BY <1>3, <3>1, <3>2
  <2>3. o + BSIZE <= Len(q)
    <3>1. Len(q) \in Nat
      BY <1>3, LenProperties
    <3> QED BY <1>2, <1>3, <3>1, BlockSize
  <2> HIDE DEF w
  <2> QED BY <1>2, <1>3, <2>1, <2>2, <2>3, Window
<1> QED BY <1>4, <1>5, <1>6 DEF BlockOf, o, q

\* The file is taken in whole, and the slot holds all that came out, or the page that
\* bin2page_finish gave out is none for it.
Ended(n, d) ==
  /\ Streamed(d, StreamOf(file), n, slot, n) /\ dec = bin2page_finish(d)
  /\ sent = Len(file) /\ taken = file
  /\ body = dec.pages \/ Refused(dec.pages, slot)

\* What START finds.
LEMMA AtTheEnd ==
  ASSUME DeviceInv, Started
  PROVE  \E n : /\ IsFile(file, n) /\ slot \in BOOLEAN
                /\ dec.active <=> HasSign(StreamOf(file))
                /\ \/ sent < Len(file) /\ Unfit(file, slot, n)
                   \/ \E d : Ended(n, d)
<1>1. pc \notin BeforeOpen /\ pc # "receive"
  BY DEF Started, BeforeOpen
<1>2. PICK n : IsFile(file, n) /\ Finished(n)
  BY <1>1 DEF DeviceInv, TakenInv
<1>3. slot \in BOOLEAN
  BY DEF DeviceInv, VerdictInv
<1>4. CASE /\ sent < Len(file) /\ Unfit(file, slot, n)
           /\ dec.active <=> HasSign(StreamOf(file))
  BY <1>2, <1>3, <1>4, Zenon
<1>5. CASE /\ sent = Len(file) /\ taken = file
           /\ \E d : After(d, StreamOf(file), n + 1, slot, n) /\ dec = bin2page_finish(d)
           /\ body = dec.pages \/ Refused(dec.pages, slot)
  <2>1. PICK d : After(d, StreamOf(file), n + 1, slot, n) /\ dec = bin2page_finish(d)
    BY <1>5
  <2>2. n \in Nat /\ n + 1 # 0 /\ (n + 1) - 1 = n
    BY <1>2 DEF IsFile
  <2>3. Streamed(d, StreamOf(file), n, slot, n)
    BY <2>1, <2>2 DEF After
  <2>4. Ended(n, d)
    BY <1>5, <2>1, <2>3, Zenon DEF Ended
  <2>5. d \in Decs /\ (d.active <=> HasSign(StreamOf(file)))
    BY <2>3, Zenon DEF Streamed
  <2>6. dec.active = d.active
    BY <2>1, <2>5, FinishIs
  <2>7. dec.active <=> HasSign(StreamOf(file))
    BY <2>5, <2>6, Zenon
  <2> QED BY <1>2, <1>3, <2>4, <2>7, Zenon
<1> QED BY <1>2, <1>4, <1>5, Zenon DEF Finished

(***************************************************************************)
(* bin2page_error_cnt is not 0 at START if and only if some block of the   *)
(* file breaks the format for the slot (MalformedIsCounted), however the   *)
(* blocks lie across pages and packets: of a file that was acknowledged to *)
(* its end.                                                                *)
(***************************************************************************)
THEOREM ErrorsAreMalformed == Spec => []MalformedIsCounted
<1>1. DeviceInv => MalformedIsCounted
  <2> SUFFICES ASSUME DeviceInv, Started, dec.active, sent = Len(file)
               PROVE  dec.errors <=> \E i \in BlockNumbers : ~WellFormed(FileBlock(i), slot)
    BY DEF MalformedIsCounted
  <2>1. PICK n, d : IsFile(file, n) /\ slot \in BOOLEAN /\ Ended(n, d)
    <3>1. ~(sent < Len(file))
      BY DEF DeviceInv, CrcInv
    <3> QED BY <3>1, AtTheEnd, Zenon
  <2> DEFINE q == StreamOf(file)
             is == 0 .. (n - 1)
  <2>2. d \in Decs
    BY <2>1 DEF Ended, Streamed
  <2>3. dec.active = d.active /\ dec.errors = d.errors
    BY <2>1, <2>2, FinishIs DEF Ended
  <2>4. d.active
    BY <2>3, Zenon
  <2>5. d.errors <=> \E i \in is : DecodedBlock(BlockOf(q, i), slot).error
    BY <2>1, <2>4 DEF Ended, Streamed
  <2>6. \A i \in is : DecodedBlock(BlockOf(q, i), slot).error <=> ~WellFormed(BlockOf(file, i), slot)
    <3> SUFFICES ASSUME NEW i \in is
                 PROVE  DecodedBlock(BlockOf(q, i), slot).error <=> ~WellFormed(BlockOf(file, i), slot)
      OBVIOUS
    <3>1. BlockOf(q, i) = BlockOf(file, i) /\ BlockOf(file, i) \in Block
      BY <2>1, BlocksOfFile
    <3> QED BY <2>1, <3>1, DecodesByTheFormat
  <2>7. BlockNumbers = is /\ \A i \in is : FileBlock(i) = BlockOf(file, i)
    <3>1. (Len(file) - Len(SIGN)) \div BSIZE = n
      BY <2>1, BlockCount
    <3>2. \A i \in is : FileBlock(i) = BlockOf(file, i)
      BY <2>1, BlocksOfFile DEF FileBlock
    <3> QED BY <3>1, <3>2 DEF BlockNumbers
  <2> HIDE DEF q, is
  <2>8. d.errors <=> \E i \in BlockNumbers : ~WellFormed(FileBlock(i), slot)
    BY <2>5, <2>6, <2>7, Zenon
  <2> QED BY <2>3, <2>8, Zenon
<1> QED BY Always, <1>1, PTL

\* c is what the first of the sequences make, one behind the other.
JoinsUp(c, seqs, n) ==
  /\ c[0] = <<>> /\ \A i \in 0 .. n : c[i] \in Seq(Byte)
  /\ \A i \in 1 .. n : seqs[i] \in Seq(Byte) /\ c[i] = c[i - 1] \o seqs[i]

\* FlattenSeq puts the sequences one behind the other.
LEMMA FlattenIs ==
  ASSUME NEW n \in Nat, NEW seqs, Len(seqs) = n, n = 0 => seqs = <<>>,
         NEW c, JoinsUp(c, seqs, n)
  PROVE  FlattenSeq(seqs) = c[n]
<1>1. c[0] = <<>> /\ \A i \in 1 .. n : seqs[i] \in Seq(Byte) /\ c[i] = c[i - 1] \o seqs[i]
  BY DEF JoinsUp
<1>2. CASE n = 0
  BY <1>1, <1>2, Zenon DEF FlattenSeq
<1>3. CASE n # 0
  <2> DEFINE P(g) == g = [i \in 1 .. n |-> IF i = 1 THEN seqs[i] ELSE g[i - 1] \o seqs[i]]
             flatten == CHOOSE g : P(g)
             f == [i \in 1 .. n |-> c[i]]
  <2>1. c[1] = seqs[1]
    <3>1. 1 \in 1 .. n /\ 1 - 1 = 0
      BY <1>3
    <3>2. c[1] = <<>> \o seqs[1] /\ seqs[1] \in Seq(Byte)
      BY <1>1, <3>1
    <3> QED BY <3>2, ConcatEmptySeq
  <2>2. P(f)
    <3>1. \A i \in 1 .. n : f[i] = c[i]
      OBVIOUS
    <3>2. \A i \in 1 .. n : i # 1 => i - 1 \in 1 .. n
      OBVIOUS
    <3> HIDE DEF f
    <3>3. \A i \in 1 .. n : c[i] = IF i = 1 THEN seqs[i] ELSE f[i - 1] \o seqs[i]
      BY <1>1, <2>1, <3>1, <3>2
    <3>4. f = [i \in 1 .. n |-> c[i]]
      BY DEF f
    <3> QED BY <3>3, <3>4, Zenon
  <2>3. P(flatten)
    <3> HIDE DEF f
    <3> QED BY <2>2
  <2>4. FlattenSeq(seqs) = flatten[n]
    BY <1>3 DEF FlattenSeq
  <2> HIDE DEF flatten
  <2> DEFINE g == [i \in 0 .. n |-> IF i = 0 THEN <<>> ELSE flatten[i]]
  <2>5. GoAlike(g, c, n)
    <3>1. g[0] = c[0]
      BY <1>1
    <3>2. ASSUME NEW i \in 1 .. n, g[i - 1] = c[i - 1] PROVE g[i] = c[i]
      <4>1. g[i] = flatten[i]
        OBVIOUS
      <4>2. flatten[i] = IF i = 1 THEN seqs[i] ELSE flatten[i - 1] \o seqs[i]
        BY <2>3
      <4>3. i # 1 => g[i - 1] = flatten[i - 1]
        OBVIOUS
      <4> HIDE DEF g
      <4>4. CASE i = 1
        BY <2>1, <4>1, <4>2, <4>4
      <4>5. CASE i # 1
        BY <1>1, <3>2, <4>1, <4>2, <4>3, <4>5
      <4> QED BY <4>4, <4>5
    <3> HIDE DEF g
    <3> QED BY <3>1, <3>2 DEF GoAlike
  <2>6. g[n] = flatten[n]
    BY <1>3
  <2> HIDE DEF g
  <2>7. g[n] = c[n]
    BY <2>5, SameEnd
  <2> QED BY <2>4, <2>6, <2>7
<1> QED BY <1>2, <1>3

\* 0xFF behind, as bin2page_finish puts it.
LEMMA TrailingFF ==
  ASSUME NEW s \in Seq(Byte), NEW k \in Nat
  PROVE  eq_with_trailing_ff(s, s \o Fill(k))
<1> DEFINE t == s \o Fill(k)
<1>1. /\ t \in Seq(Byte) /\ Len(t) = Len(s) + k /\ Len(s) \in Nat
      /\ \A i \in 1 .. Len(s) : t[i] = s[i]
      /\ \A i \in 1 .. k : t[Len(s) + i] = FF
  BY FilledUp, LenProperties
<1> HIDE DEF t
<1>2. Len(t) >= Len(s)
  BY <1>1
<1>3. \A i \in 1 .. Len(t) : t[i] = IF i <= Len(s) THEN s[i] ELSE FF
  <2> SUFFICES ASSUME NEW i \in 1 .. Len(t) PROVE t[i] = IF i <= Len(s) THEN s[i] ELSE FF
    OBVIOUS
  <2>1. CASE i <= Len(s)
    BY <1>1, <2>1
  <2>2. CASE ~(i <= Len(s))
    <3>1. i - Len(s) \in 1 .. k /\ Len(s) + (i - Len(s)) = i
      BY <1>1, <2>2
    <3> QED BY <1>1, <2>2, <3>1
  <2> QED BY <2>1, <2>2
<1>4. eq_with_trailing_ff(s, t)
  BY <1>2, <1>3 DEF eq_with_trailing_ff
<1> QED BY <1>4 DEF t

\* Append goes to the end of the last.
LEMMA AppendBehind ==
  ASSUME NEW s \in Seq(Byte), NEW t \in Seq(Byte), NEW x \in Byte
  PROVE  s \o Append(t, x) = Append(s \o t, x)
<1> DEFINE a == Append(t, x)
           u == s \o a
           j == s \o t
           w == Append(j, x)
           l == Len(s)
           m == Len(t)
<1>1. l \in Nat /\ m \in Nat
  BY LenProperties
<1>2. a \in Seq(Byte) /\ Len(a) = m + 1 /\ (\A i \in 1 .. m : a[i] = t[i]) /\ a[m + 1] = x
  BY Appended
<1>3. j \in Seq(Byte) /\ Len(j) = l + m /\ (\A i \in 1 .. l : j[i] = s[i])
      /\ \A i \in 1 .. m : j[l + i] = t[i]
  BY Joined
<1> HIDE DEF a, j
<1>4. u \in Seq(Byte) /\ Len(u) = l + (m + 1) /\ (\A i \in 1 .. l : u[i] = s[i])
      /\ \A i \in 1 .. (m + 1) : u[l + i] = a[i]
  <2>1. u \in Seq(Byte) /\ Len(u) = l + Len(a) /\ (\A i \in 1 .. l : u[i] = s[i])
        /\ \A i \in 1 .. Len(a) : u[l + i] = a[i]
    BY <1>2, Joined
  <2> HIDE DEF u, l, m
  <2> QED BY <1>2, <2>1
<1>5. w \in Seq(Byte) /\ Len(w) = (l + m) + 1 /\ (\A i \in 1 .. (l + m) : w[i] = j[i])
      /\ w[(l + m) + 1] = x
  BY <1>3, Appended
<1> HIDE DEF u, w, l, m
<1>6. \A i \in 1 .. (l + m + 1) : u[i] = w[i]
  <2> SUFFICES ASSUME NEW i \in 1 .. (l + m + 1) PROVE u[i] = w[i]
    OBVIOUS
  <2>1. CASE i <= l
    <3>1. i \in 1 .. l /\ i \in 1 .. (l + m)
      BY <1>1, <2>1
    <3> QED BY <1>3, <1>4, <1>5, <3>1
  <2>2. CASE i > l /\ i <= l + m
    <3> DEFINE h == i - l
    <3>1. h \in 1 .. m /\ h \in 1 .. (m + 1) /\ i \in 1 .. (l + m) /\ l + h = i
      BY <1>1, <2>2
    <3> HIDE DEF h
    <3>2. u[l + h] = t[h]
      BY <1>2, <1>4, <3>1
    <3>3. w[i] = j[l + h] /\ j[l + h] = t[h]
      BY <1>3, <1>5, <3>1
    <3> QED BY <3>1, <3>2, <3>3
  <2>3. CASE i = l + m + 1
    <3>1. m + 1 \in 1 .. (m + 1) /\ l + (m + 1) = i /\ (l + m) + 1 = i
      BY <1>1, <2>3
    <3> QED BY <1>2, <1>4, <1>5, <3>1
  <2> QED BY <1>1, <2>1, <2>2, <2>3
<1>7. Len(u) = l + m + 1 /\ Len(w) = l + m + 1
  BY <1>1, <1>4, <1>5
<1>8. u = w
  BY <1>4, <1>5, <1>6, <1>7, SeqEqual
<1> QED BY <1>8 DEF u, w, a, j

\* One more 0xFF.
LEMMA FillMore ==
  ASSUME NEW s \in Seq(Byte), NEW k \in Nat
  PROVE  /\ s \o Fill(0) = s
         /\ Append(s \o Fill(k), FF) = s \o Fill(k + 1)
<1>1. Fill(0) = <<>>
  <2>1. Fill(0) \in Seq(Byte) /\ Len(Fill(0)) = 0
    BY FillIs
  <2> QED BY <2>1, EmptySeq
<1>2. s \o <<>> = s
  BY ConcatEmptySeq
<1>3. FF \in Byte
  BY ByteTypes
<1> DEFINE t == Fill(k)
           u == Fill(k + 1)
           w == Append(t, FF)
<1>4. t \in Seq(Byte) /\ Len(t) = k /\ \A i \in 1 .. k : t[i] = FF
  BY FillIs
<1>5. u \in Seq(Byte) /\ Len(u) = k + 1 /\ \A i \in 1 .. (k + 1) : u[i] = FF
  <2>1. k + 1 \in Nat
    OBVIOUS
  <2> QED BY <2>1, FillIs
<1> HIDE DEF t, u
<1>6. w \in Seq(Byte) /\ Len(w) = k + 1 /\ (\A i \in 1 .. k : w[i] = t[i]) /\ w[k + 1] = FF
  BY <1>3, <1>4, Appended
<1> HIDE DEF w
<1>7. \A i \in 1 .. (k + 1) : w[i] = u[i]
  <2>1. \A i \in 1 .. (k + 1) : i \in 1 .. k \/ i = k + 1
    OBVIOUS
  <2> QED BY <1>4, <1>5, <1>6, <2>1
<1>8. w = u
  BY <1>5, <1>6, <1>7, SeqEqual
<1>9. Append(s \o t, FF) = s \o w
  BY <1>3, <1>4, AppendBehind DEF w
<1> QED BY <1>1, <1>2, <1>8, <1>9 DEF t, u

\* 0xFF behind 0xFF.
LEMMA FillTwice ==
  ASSUME NEW s \in Seq(Byte), NEW k \in Nat, NEW m \in Nat
  PROVE  (s \o Fill(k)) \o Fill(m) = s \o Fill(k + m)
<1> DEFINE t == Fill(k)
           u == Fill(m)
           w == Fill(k + m)
           j == t \o u
<1>1. t \in Seq(Byte) /\ Len(t) = k /\ \A i \in 1 .. k : t[i] = FF
  BY FillIs
<1>2. u \in Seq(Byte) /\ Len(u) = m /\ \A i \in 1 .. m : u[i] = FF
  BY FillIs
<1>3. w \in Seq(Byte) /\ Len(w) = k + m /\ \A i \in 1 .. (k + m) : w[i] = FF
  <2>1. k + m \in Nat
    OBVIOUS
  <2> QED BY <2>1, FillIs
<1> HIDE DEF t, u, w
<1>4. /\ j \in Seq(Byte) /\ Len(j) = k + m /\ \A i \in 1 .. k : j[i] = t[i]
      /\ \A i \in 1 .. m : j[k + i] = u[i]
  BY <1>1, <1>2, Joined
<1> HIDE DEF j
<1>5. \A i \in 1 .. (k + m) : j[i] = w[i]
  <2> SUFFICES ASSUME NEW i \in 1 .. (k + m) PROVE j[i] = w[i]
    OBVIOUS
  <2>1. CASE i <= k
    BY <1>1, <1>3, <1>4, <2>1
  <2>2. CASE i > k
    <3> DEFINE h == i - k
    <3>1. h \in 1 .. m /\ k + h = i
      BY <2>2
    <3> HIDE DEF h
    <3> QED BY <1>2, <1>3, <1>4, <3>1
  <2> QED BY <2>1, <2>2
<1>6. j = w
  BY <1>3, <1>4, <1>5, SeqEqual
<1>7. (s \o t) \o u = s \o j
  BY <1>1, <1>2, Regroup DEF j
<1> QED BY <1>6, <1>7 DEF t, u, w

----------------------------------------------------------------------------
(* The device: what the writer lets pass                                   *)

\* What comes out of the first blocks stays in front.
LEMMA OutputGrows ==
  ASSUME NEW q, NEW n, Holds(q, n), NEW s \in BOOLEAN, NEW c, Outputs(c, q, s, n), NEW k \in 0 .. n
  PROVE  c[k] \in Seq(Byte) /\ Len(c[k]) <= Len(c[n]) /\ Lies(c[k], c[n], 0)
<1> DEFINE S == {i \in 0 .. n : i >= k => Len(c[k]) <= Len(c[i]) /\ Lies(c[k], c[i], 0)}
<1>1. n \in Nat /\ \A i \in 0 .. n : c[i] \in Seq(Byte)
  BY DEF Holds, Outputs
<1>2. c[k] \in Seq(Byte) /\ Len(c[k]) \in Nat
  BY <1>1, LenProperties
<1>3. 0 \in S
  <2>1. ASSUME 0 >= k PROVE Len(c[k]) <= Len(c[0]) /\ Lies(c[k], c[0], 0)
    <3>1. k = 0
      BY <1>1, <2>1
    <3>2. Len(c[k]) <= Len(c[k]) /\ Lies(c[k], c[k], 0)
      BY <1>2 DEF Lies
    <3> QED BY <3>1, <3>2
  <2> QED BY <1>1, <2>1
<1>4. ASSUME NEW i \in 1 .. n, i - 1 \in S PROVE i \in S
  <2> SUFFICES ASSUME i >= k PROVE Len(c[k]) <= Len(c[i]) /\ Lies(c[k], c[i], 0)
    BY <1>1
  <2>1. CASE i = k
    BY <1>2, <2>1 DEF Lies
  <2>2. CASE i # k
    <3>1. i - 1 \in 0 .. (n - 1) /\ i - 1 >= k /\ i - 1 \in 0 .. n
      BY <1>1, <2>2
    <3>2. Len(c[k]) <= Len(c[i - 1]) /\ Lies(c[k], c[i - 1], 0)
      BY <1>4, <3>1
    <3> DEFINE bytes == DecodedBlock(BlockOf(q, i - 1), s).bytes
               a == c[i - 1]
    <3>3. bytes \in Seq(Byte)
      <4>1. BlockOf(q, i - 1) \in Block
        BY <3>1, BlocksLie
      <4> QED BY <4>1, DecodesByTheFormat
    <3>4. c[i] = a \o bytes /\ a \in Seq(Byte)
      BY <1>1, <3>1 DEF Outputs
    <3> HIDE DEF bytes, a
    <3>5. /\ Len(a \o bytes) = Len(a) + Len(bytes) /\ Len(a) \in Nat /\ Len(bytes) \in Nat
          /\ \A j \in 1 .. Len(a) : (a \o bytes)[j] = a[j]
      BY <3>3, <3>4, Joined, LenProperties
    <3>6. Len(c[k]) <= Len(a) /\ Lies(c[k], a, 0)
      BY <3>2 DEF a
    <3> QED BY <1>2, <3>4, <3>5, <3>6 DEF Lies
  <2> QED BY <2>1, <2>2
<1> HIDE DEF S
<1>5. \A i \in 0 .. n : i \in S
  BY <1>1, <1>3, <1>4, UpTo
<1>6. n \in S /\ n >= k
  BY <1>1, <1>5
<1> QED BY <1>2, <1>6 DEF S

\* The pages are those of x, and 0xFF behind.
Shows(pages, x) ==
  /\ pages \in Seq(Byte)
  /\ \A i \in 1 .. Len(pages) : pages[i] = IF i <= Len(x) THEN x[i] ELSE FF

\* x and 0xFF behind it.
LEMMA FilledShows ==
  ASSUME NEW x \in Seq(Byte), NEW k \in Nat
  PROVE  Shows(x \o Fill(k), x) /\ Len(x \o Fill(k)) = Len(x) + k /\ Len(x) \in Nat
<1>1. x \o Fill(k) \in Seq(Byte) /\ Len(x \o Fill(k)) = Len(x) + k
  BY FilledUp
<1>2. eq_with_trailing_ff(x, x \o Fill(k))
  BY TrailingFF
<1>3. Len(x) \in Nat
  BY LenProperties
<1> QED BY <1>1, <1>2, <1>3 DEF Shows, eq_with_trailing_ff

\* At any page of the file the decoder has given out a beginning of what comes out at last.
LEMMA PagesShow ==
  ASSUME NEW q, NEW n, Holds(q, n), HasSign(q), NEW s \in BOOLEAN, NEW k \in 0 .. (n + 1),
         NEW d, After(d, q, k, s, n), NEW x \in Seq(Byte), NEW j \in Nat,
         Output(q, s, n)[n] = x \o Fill(j)
  PROVE  Shows(d.pages, x) /\ Len(d.pages) <= Len(x) + j
<1> DEFINE c == Output(q, s, n)
<1>1. Outputs(c, q, s, n) /\ n \in Nat /\ Len(x) \in Nat
  BY OutputIs, LenProperties DEF Holds
<1>2. CASE k = 0
  <2>1. d.pages = <<>>
    BY <1>2, ResetIs DEF After
  <2>2. <<>> \in Seq(Byte) /\ Len(<<>>) = 0
    OBVIOUS
  <2> QED BY <1>1, <2>1, <2>2 DEF Shows
<1>3. CASE k # 0
  <2>1. k - 1 \in 0 .. n
    BY <1>1, <1>3
  <2>2. Streamed(d, q, k - 1, s, n)
    BY <1>3 DEF After
  <2>3. d \in Decs /\ d.active
    BY <2>2, Zenon DEF Streamed
  <2>4. d.pages \o d.result = c[k - 1]
    BY <2>2, <2>3 DEF Streamed
  <2>5. d.pages \in Seq(Byte) /\ d.result \in Seq(Byte)
    BY <2>3, Decoder
  <2> HIDE DEF c
  <2>6. Len(c[k - 1]) <= Len(c[n]) /\ Lies(c[k - 1], c[n], 0)
    BY <1>1, <2>1, OutputGrows
  <2> DEFINE a == d.pages
             b == d.result
  <2>7. /\ Len(a) \in Nat /\ Len(b) \in Nat /\ Len(a \o b) = Len(a) + Len(b)
        /\ \A i \in 1 .. Len(a) : (a \o b)[i] = a[i]
    BY <2>5, Joined, LenProperties
  <2>8. Len(a \o b) <= Len(c[n]) /\ Lies(a \o b, c[n], 0) /\ a \in Seq(Byte)
    BY <2>4, <2>5, <2>6
  <2> HIDE DEF a, b
  <2>9. Len(a) <= Len(c[n]) /\ \A i \in 1 .. Len(a) : a[i] = c[n][i]
    <3>1. \A i \in 1 .. Len(a) : i \in 1 .. Len(a \o b) /\ 0 + i = i
      BY <2>7
    <3>2. \A i \in 1 .. Len(a) : (a \o b)[i] = c[n][i]
      BY <2>8, <3>1 DEF Lies
    <3>3. Len(c[n]) \in Nat
      <4>1. n \in 0 .. n
        BY <1>1
      <4>2. c[n] \in Seq(Byte)
        BY <1>1, <4>1 DEF Outputs
      <4> QED BY <4>2, LenProperties
    <3> QED BY <2>7, <2>8, <3>2, <3>3
  <2>10. Shows(c[n], x) /\ Len(c[n]) = Len(x) + j
    <3>1. c[n] = x \o Fill(j)
      BY DEF c
    <3> QED BY <3>1, FilledShows
  <2>11. \A i \in 1 .. Len(a) : i \in 1 .. Len(c[n])
    BY <1>1, <2>7, <2>9, <2>10
  <2>12. \A i \in 1 .. Len(a) : a[i] = IF i <= Len(x) THEN x[i] ELSE FF
    BY <2>9, <2>10, <2>11 DEF Shows
  <2> QED BY <2>8, <2>9, <2>10, <2>12 DEF Shows, a
<1> QED BY <1>2, <1>3

\* A page of firmware that goes into the slot is refused for the vector table only.
LEMMA RefusedWhy ==
  ASSUME NEW s \in BOOLEAN, NEW pages, NEW x \in Seq(Byte), Shows(pages, x), Len(pages) <= SLOT_SIZE,
         Refused(pages, s)
  PROVE  ~Runs(x, s)
<1>1. PICK a \in Nat : /\ Len(pages) = a + BSIZE
                       /\ ~WriterAccepts(a, SubSeq(pages, a + 1, Len(pages)), s)
  BY DEF Refused
<1> DEFINE page == SubSeq(pages, a + 1, Len(pages))
           ctx == [i \in 1 .. CONTEXT_SIZE |-> page[RUN_OFFSET - a + i]]
           run == [i \in 1 .. CONTEXT_SIZE |->
                     IF RUN_OFFSET + i <= Len(x) THEN x[RUN_OFFSET + i] ELSE FF]
<1>2. RUN_OFFSET \in Nat /\ CONTEXT_SIZE \in Nat /\ BSIZE \in Nat /\ SLOT_SIZE \in Nat
  BY FileAssumption, BlockSize
<1>3. a <= RUN_OFFSET /\ a + BSIZE >= RUN_OFFSET + CONTEXT_SIZE /\ ~ContextOk(ctx, s)
  BY <1>1, <1>2 DEF WriterAccepts
<1>4. \A i \in 1 .. CONTEXT_SIZE : page[RUN_OFFSET - a + i] = pages[RUN_OFFSET + i]
  <2>1. pages \in Seq(Byte) /\ a + BSIZE <= Len(pages) /\ Len(pages) = a + BSIZE
    BY <1>1, <1>2 DEF Shows
  <2>2. \A i \in 1 .. BSIZE : page[i] = pages[a + i]
    <3>1. \A i \in 1 .. BSIZE : SubSeq(pages, a + 1, a + BSIZE)[i] = pages[a + i]
      BY <2>1, WindowIs
    <3> QED BY <2>1, <3>1
  <2>3. ASSUME NEW i \in 1 .. CONTEXT_SIZE
        PROVE  RUN_OFFSET - a + i \in 1 .. BSIZE /\ a + (RUN_OFFSET - a + i) = RUN_OFFSET + i
    BY <1>2, <1>3
  <2> HIDE DEF page
  <2> QED BY <2>2, <2>3
<1>5. \A i \in 1 .. CONTEXT_SIZE :
        pages[RUN_OFFSET + i] = IF RUN_OFFSET + i <= Len(x) THEN x[RUN_OFFSET + i] ELSE FF
  <2>1. \A i \in 1 .. CONTEXT_SIZE : RUN_OFFSET + i \in 1 .. Len(pages)
    BY <1>1, <1>2, <1>3
  <2> QED BY <2>1 DEF Shows
<1>6. ctx = run
  <2> HIDE DEF page
  <2> QED BY <1>4, <1>5
<1>7. ~ContextOk(run, s)
  <2> HIDE DEF ctx, run
  <2> QED BY <1>3, <1>6
<1> QED BY <1>7, Zenon DEF Runs

\* Whole pages that end behind the slot end a page behind it.
LEMMA WholeFits ==
  ASSUME NEW l \in Nat, l % BSIZE = 0, l < SLOT_SIZE + BSIZE
  PROVE  l <= SLOT_SIZE
<1>1. SLOT_SIZE \in Nat /\ SLOT_SIZE % BSIZE = 0 /\ BSIZE \in Nat /\ BSIZE > 0
  BY FileAssumption, BlockSize
<1>2. PICK k \in Nat : l = k * BSIZE
  BY Multiple
<1>3. PICK m \in Nat : SLOT_SIZE = m * BSIZE
  BY <1>1, Multiple
<1> DEFINE b == BSIZE
<1>4. b \in Nat /\ b > 0 /\ k * b < m * b + b
  BY <1>1, <1>2, <1>3
<1> HIDE DEF b
<1>5. k <= m
  <2> SUFFICES ASSUME k >= m + 1 PROVE FALSE
    OBVIOUS
  <2>1. k * b >= (m + 1) * b /\ (m + 1) * b = m * b + b /\ k * b \in Nat /\ m * b \in Nat
    BY <1>4, SMTT(30)
  <2> QED BY <1>4, <2>1
<1>6. k * b <= m * b
  BY <1>4, <1>5, SMTT(30)
<1> QED BY <1>2, <1>3, <1>6 DEF b

\* No page of firmware with its vector table in order is refused, if it fits the slot.
LEMMA NothingRefused ==
  ASSUME NEW f, NEW n, IsFile(f, n), HasSign(StreamOf(f)), NEW s \in BOOLEAN,
         NEW x \in Seq(Byte), NEW j \in Nat, Output(StreamOf(f), s, n)[n] = x \o Fill(j),
         Len(x) + j <= SLOT_SIZE, Runs(x, s)
  PROVE  /\ ~Unfit(f, s, n)
         /\ \A d : Streamed(d, StreamOf(f), n, s, n) => ~Refused(bin2page_finish(d).pages, s)
<1> DEFINE q == StreamOf(f)
<1>1. Holds(q, n) /\ n \in Nat /\ Len(x) \in Nat /\ SLOT_SIZE \in Nat
  BY StreamIs, FileAssumption, LenProperties DEF Holds
<1>2. ~Unfit(f, s, n)
  <2> SUFFICES ASSUME NEW k \in 0 .. (n + 1), NEW d, After(d, q, k, s, n), Refused(d.pages, s)
               PROVE  FALSE
    BY DEF Unfit
  <2> HIDE DEF q
  <2>1. Shows(d.pages, x) /\ Len(d.pages) <= Len(x) + j
    BY <1>1, PagesShow DEF q
  <2>2. Len(d.pages) <= SLOT_SIZE
    <3>1. Len(d.pages) \in Nat
      BY <2>1, LenProperties DEF Shows
    <3> QED BY <1>1, <2>1, <3>1
  <2> QED BY <2>1, <2>2, RefusedWhy
<1>3. ASSUME NEW d, Streamed(d, q, n, s, n) PROVE ~Refused(bin2page_finish(d).pages, s)
  <2> SUFFICES ASSUME Refused(bin2page_finish(d).pages, s) PROVE FALSE
    OBVIOUS
  <2> DEFINE e == bin2page_finish(d)
  <2>1. d \in Decs /\ d.active /\ d.pages \o d.result = x \o Fill(j)
    BY <1>3, Zenon DEF Streamed
  <2>2. e \in Decs /\ \E k \in 0 .. (BSIZE - 1) : e.pages = (d.pages \o d.result) \o Fill(k)
    BY <2>1, FinishIs
  <2>3. PICK k \in 0 .. (BSIZE - 1) : e.pages = (x \o Fill(j)) \o Fill(k)
    BY <2>1, <2>2
  <2>4. k \in Nat /\ k <= BSIZE - 1 /\ BSIZE \in Nat
    BY BlockSize
  <2> HIDE DEF e
  <2>5. e.pages = x \o Fill(j + k)
    BY <2>3, <2>4, FillTwice
  <2>6. Shows(e.pages, x) /\ Len(e.pages) = Len(x) + (j + k)
    <3> DEFINE l == j + k
    <3>1. l \in Nat
      BY <2>4
    <3> HIDE DEF l
    <3>2. Shows(x \o Fill(l), x) /\ Len(x \o Fill(l)) = Len(x) + l
      BY <3>1, FilledShows
    <3>3. e.pages = x \o Fill(l)
      BY <2>5 DEF l
    <3> QED BY <3>2, <3>3 DEF l
  <2>7. Len(e.pages) <= SLOT_SIZE
    <3>1. Len(e.pages) % BSIZE = 0
      BY <2>2, Decoder
    <3>2. Len(e.pages) \in Nat /\ Len(e.pages) < SLOT_SIZE + BSIZE
      BY <1>1, <2>4, <2>6
    <3> QED BY <3>1, <3>2, WholeFits
  <2>8. Refused(e.pages, s)
    BY DEF e
  <2> QED BY <2>6, <2>7, <2>8, RefusedWhy
<1> QED BY <1>2, <1>3

(***************************************************************************)
(* The slot holds of a file of well-formed blocks, damaged or not, what    *)
(* they stand for, one behind the other, and 0xFF (SlotHoldsMeaning):      *)
(* result_add and bin2page_finish lose nothing between the pages, and      *)
(* sfu_real_writer refuses nothing, if the vector table is in order and    *)
(* the slot is large enough.                                               *)
(***************************************************************************)
THEOREM MeaningIsStored == Spec => []SlotHoldsMeaning
<1>1. DeviceInv => SlotHoldsMeaning
  <2> SUFFICES ASSUME DeviceInv, Started, dec.active,
                      \A i \in BlockNumbers : WellFormed(FileBlock(i), slot),
                      Runs(FileMeaning, slot), Len(FileMeaning) <= SLOT_SIZE
               PROVE  eq_with_trailing_ff(FileMeaning, body)
    BY Zenon DEF SlotHoldsMeaning
  <2> DEFINE N == (Len(file) - Len(SIGN)) \div BSIZE
             seqs == [i \in 1 .. N |-> Meaning(FileBlock(i - 1), slot)]
  <2>1. PICK n : /\ IsFile(file, n) /\ slot \in BOOLEAN
                 /\ dec.active <=> HasSign(StreamOf(file))
                 /\ \/ sent < Len(file) /\ Unfit(file, slot, n)
                    \/ \E d : Ended(n, d)
    BY AtTheEnd, Zenon
  <2> DEFINE q == StreamOf(file)
             c == Output(q, slot, n)
             e == [i \in 1 .. n |-> Meaning(BlockOf(file, i - 1), slot)]
  <2>2. HasSign(q)
    BY <2>1, Zenon
  <2>3. n \in Nat /\ N = n
    BY <2>1, BlockCount
  <2>4. Outputs(c, q, slot, n)
    BY <2>1, StreamIs, OutputIs
  <2>5. ASSUME NEW i \in 1 .. n
        PROVE  /\ e[i] \in Seq(Byte) /\ c[i] = c[i - 1] \o e[i]
               /\ Meaning(FileBlock(i - 1), slot) = e[i]
    <3>1. i - 1 \in 0 .. (n - 1) /\ (i - 1) + 1 = i
      BY <2>3
    <3>2. /\ BlockOf(file, i - 1) \in Block /\ BlockOf(q, i - 1) = BlockOf(file, i - 1)
          /\ FileBlock(i - 1) = BlockOf(file, i - 1)
      BY <2>1, <3>1, BlocksOfFile DEF FileBlock
    <3>3. WellFormed(BlockOf(file, i - 1), slot)
      <4>1. i - 1 \in BlockNumbers
        BY <2>3, <3>1 DEF BlockNumbers
      <4> QED BY <3>2, <4>1
    <3> DEFINE block == BlockOf(file, i - 1)
    <3>4. e[i] = Meaning(block, slot)
      OBVIOUS
    <3> HIDE DEF e, c
    <3>5. DecodedBlock(block, slot).bytes = Meaning(block, slot)
          /\ DecodedBlock(block, slot).bytes \in Seq(Byte)
      <4>1. block \in Block /\ WellFormed(block, slot)
        BY <3>2, <3>3
      <4> HIDE DEF block
      <4> QED BY <2>1, <4>1, DecodesByTheFormat
    <3>6. c[i] = c[i - 1] \o DecodedBlock(block, slot).bytes
      BY <2>4, <3>2 DEF Outputs
    <3>7. FileBlock(i - 1) = block
      BY <3>2
    <3> QED BY <3>4, <3>5, <3>6, <3>7
  <2>6. seqs = e
    <3> HIDE DEF N
    <3> QED BY <2>3, <2>5
  <2>7. FileMeaning = FlattenSeq(e)
    <3>1. FileMeaning = FlattenSeq(seqs)
      BY Zenon DEF FileMeaning
    <3> HIDE DEF seqs, e
    <3> QED BY <2>6, <3>1
  <2>8. e \in Seq(Seq(Byte)) /\ Len(e) = n
    <3>1. \A i \in 1 .. n : e[i] \in Seq(Byte)
      BY <2>5
    <3>2. e = [i \in 1 .. n |-> e[i]]
      OBVIOUS
    <3> HIDE DEF e
    <3>3. e \in [1 .. n -> Seq(Byte)]
      BY <3>1, <3>2
    <3> QED BY <2>3, <3>3, LenProperties
  <2> HIDE DEF seqs, N, e, c, q
  <2>9. JoinsUp(c, e, n)
    BY <2>4, <2>5 DEF Outputs, JoinsUp
  <2>10. FileMeaning = c[n]
    <3>1. n = 0 => e = <<>>
      BY <2>8, EmptySeq
    <3>2. FlattenSeq(e) = c[n]
      BY <2>3, <2>8, <2>9, <3>1, FlattenIs
    <3> QED BY <2>7, <3>2
  <2> DEFINE x == c[n]
  <2>11. x \in Seq(Byte) /\ Len(x) \in Nat
    <3>1. n \in 0 .. n
      BY <2>3
    <3>2. x \in Seq(Byte)
      BY <2>4, <3>1 DEF Outputs
    <3> QED BY <3>2, LenProperties
  <2>12. /\ ~Unfit(file, slot, n)
         /\ \A d : Streamed(d, q, n, slot, n) => ~Refused(bin2page_finish(d).pages, slot)
    <3>1. Runs(x, slot) /\ Len(x) + 0 <= SLOT_SIZE
      BY <2>10, <2>11
    <3>2. Output(StreamOf(file), slot, n)[n] = x \o Fill(0)
      <4>1. Output(StreamOf(file), slot, n)[n] = x
        BY DEF c, q
      <4> HIDE DEF x
      <4>2. x \o Fill(0) = x
        BY <2>11, FillMore
      <4> QED BY <4>1, <4>2
    <3>3. HasSign(StreamOf(file))
      BY <2>2 DEF q
    <3> HIDE DEF x
    <3> QED BY <2>1, <2>11, <3>1, <3>2, <3>3, NothingRefused DEF q
  <2>13. PICK d : Ended(n, d)
    BY <2>1, <2>12, Zenon
  <2>14. /\ Streamed(d, q, n, slot, n) /\ dec = bin2page_finish(d)
         /\ body = dec.pages \/ Refused(dec.pages, slot)
    BY <2>13, Zenon DEF Ended, q
  <2>15. body = dec.pages
    <3>1. ~Refused(bin2page_finish(d).pages, slot)
      BY <2>12, <2>14, Zenon
    <3> QED BY <2>14, <3>1
  <2>16. d \in Decs /\ d.active
    BY <2>2, <2>14, Zenon DEF Streamed
  <2>17. d.pages \o d.result = x
    BY <2>14, <2>16, Zenon DEF Streamed, c
  <2>18. PICK k \in 0 .. (BSIZE - 1) : dec.pages = x \o Fill(k)
    <3>1. \E k \in 0 .. (BSIZE - 1) : dec.pages = (d.pages \o d.result) \o Fill(k)
      BY <2>14, <2>16, FinishIs
    <3> QED BY <2>17, <3>1
  <2>19. k \in Nat
    BY BlockSize
  <2>20. eq_with_trailing_ff(x, dec.pages)
    <3> HIDE DEF x
    <3> QED BY <2>11, <2>18, <2>19, TrailingFF
  <2> QED BY <2>10, <2>15, <2>20
<1> QED BY Always, <1>1, PTL

----------------------------------------------------------------------------
(* The encoder: the images in the file                                     *)

Encoding == {"tables", "encode"}

\* The bytes of the variant so far lie in n blocks and in the one that is filled, with
\* k times 0xFF behind.
Told(s, n, k, c, v) ==
  /\ n \in Nat /\ k \in Nat /\ Len(res_bin) = Len(SIGN) + n * BSIZE
  /\ Outputs(c, res_bin, s, n) /\ Spells(blk, s, v)
  /\ c[n] \o v = Variant(s) \o Fill(k)
  /\ k > 0 => Len(image) = size
  /\ IF pc \in Encoding THEN k <= Len(v) ELSE k < BSIZE

ImageInv ==
  /\ size \in Sizes /\ image \in Seq(Byte \X Byte) /\ Len(image) <= size
  /\ pc \notin Encoding => Len(image) = size /\ blk = EmptyBlock
  /\ \A s \in BOOLEAN : \E n, k, c, v : Told(s, n, k, c, v)

\* One of the variants of some pairs.
SideOf(pairs, s) == [i \in DOMAIN pairs |-> IF s THEN pairs[i][2] ELSE pairs[i][1]]

\* A variant, byte by byte.
LEMMA SideIs ==
  ASSUME NEW pairs \in Seq(Byte \X Byte), NEW s \in BOOLEAN
  PROVE  /\ SideOf(pairs, s) \in Seq(Byte) /\ Len(SideOf(pairs, s)) = Len(pairs)
         /\ \A i \in 1 .. Len(pairs) :
              SideOf(pairs, s)[i] = IF s THEN pairs[i][2] ELSE pairs[i][1]
<1> DEFINE t == SideOf(pairs, s)
<1>1. DOMAIN pairs = 1 .. Len(pairs) /\ Len(pairs) \in Nat
      /\ \A i \in 1 .. Len(pairs) : pairs[i] \in Byte \X Byte
  BY LenProperties, ElementOfSeq
<1>2. \A i \in 1 .. Len(pairs) : pairs[i][1] \in Byte /\ pairs[i][2] \in Byte
  BY <1>1
<1>3. t = [i \in 1 .. Len(pairs) |-> IF s THEN pairs[i][2] ELSE pairs[i][1]]
  BY <1>1 DEF SideOf
<1>4. t \in [1 .. Len(pairs) -> Byte]
  BY <1>2, <1>3
<1>5. t \in Seq(Byte) /\ Len(t) = Len(pairs)
  <2> HIDE DEF t
  <2> QED BY <1>1, <1>4, LenProperties
<1> HIDE DEF t
<1>6. \A i \in 1 .. Len(pairs) : t[i] = IF s THEN pairs[i][2] ELSE pairs[i][1]
  BY <1>3
<1> QED BY <1>5, <1>6 DEF t

\* A pair more is a byte more.
LEMMA SideAppend ==
  ASSUME NEW pairs \in Seq(Byte \X Byte), NEW p \in Byte \X Byte, NEW s \in BOOLEAN
  PROVE  SideOf(Append(pairs, p), s) = Append(SideOf(pairs, s), IF s THEN p[2] ELSE p[1])
<1> DEFINE x == IF s THEN p[2] ELSE p[1]
           longer == Append(pairs, p)
           l == Len(pairs)
           t == SideOf(pairs, s)
           u == SideOf(longer, s)
           w == Append(t, x)
<1>1. /\ longer \in Seq(Byte \X Byte) /\ Len(longer) = l + 1
      /\ \A i \in 1 .. l : longer[i] = pairs[i]
      /\ longer[l + 1] = p
  BY Appended
<1>2. l \in Nat /\ x \in Byte
  BY LenProperties
<1>3. /\ t \in Seq(Byte) /\ Len(t) = l
      /\ \A i \in 1 .. l : t[i] = IF s THEN pairs[i][2] ELSE pairs[i][1]
  BY SideIs
<1> HIDE DEF longer
<1>4. /\ u \in Seq(Byte) /\ Len(u) = l + 1
      /\ \A i \in 1 .. (l + 1) : u[i] = IF s THEN longer[i][2] ELSE longer[i][1]
  BY <1>1, SideIs
<1> HIDE DEF t, u
<1>5. /\ w \in Seq(Byte) /\ Len(w) = l + 1
      /\ \A i \in 1 .. l : w[i] = t[i]
      /\ w[l + 1] = x
  BY <1>2, <1>3, Appended
<1> HIDE DEF w
<1>6. \A i \in 1 .. (l + 1) : u[i] = w[i]
  <2> SUFFICES ASSUME NEW i \in 1 .. (l + 1) PROVE u[i] = w[i]
    OBVIOUS
  <2>1. CASE i \in 1 .. l
    BY <1>1, <1>3, <1>4, <1>5, <2>1
  <2>2. CASE i = l + 1
    BY <1>1, <1>4, <1>5, <2>2
  <2> QED BY <1>2, <2>1, <2>2
<1>7. u = w
  BY <1>4, <1>5, <1>6, SeqEqual
<1> QED BY <1>7 DEF u, w, t, longer

\* Of the images nothing is read yet.
LEMMA ImageInit == Init => ImageInv
<1> SUFFICES ASSUME Init PROVE ImageInv
  OBVIOUS
<1>1. /\ pc = "tables" /\ size \in Sizes /\ image = <<>> /\ blk = EmptyBlock
      /\ res_bin = SIGN
  BY DEF Init
<1>2. size \in Nat /\ image \in Seq(Byte \X Byte) /\ Len(image) = 0
  BY <1>1, EmptySeq, FileAssumption
<1>3. ASSUME NEW s \in BOOLEAN PROVE \E n, k, c, v : Told(s, n, k, c, v)
  <2> DEFINE c == [i \in {0} |-> <<>>]
             v == <<>>
  <2>1. Len(res_bin) = Len(SIGN) + 0 * BSIZE
    BY <1>1, SignSize, BlockSize
  <2>2. Outputs(c, res_bin, s, 0)
    <3>1. c[0] = <<>> /\ <<>> \in Seq(Byte)
      BY EmptySeq
    <3>2. \A i \in 0 .. 0 : c[i] \in Seq(Byte)
      BY <3>1
    <3> HIDE DEF c
    <3> QED BY <3>1, <3>2 DEF Outputs
  <2>3. Spells(blk, s, v)
    BY <1>1, EmptySpells
  <2>4. c[0] \o v = Variant(s) \o Fill(0)
    <3> DEFINE w == SideOf(image, s)
    <3>1. w \in Seq(Byte) /\ Len(w) = 0
      BY <1>2, SideIs
    <3>2. Variant(s) = w
      BY DEF Variant, SideOf
    <3> HIDE DEF w
    <3>3. w = <<>> /\ w \o Fill(0) = w
      BY <3>1, FillMore, EmptySeq
    <3>4. c[0] \o v = <<>>
      <4>1. c[0] = <<>> /\ <<>> \in Seq(Byte)
        BY EmptySeq
      <4> HIDE DEF c
      <4> QED BY <4>1, ConcatEmptySeq
    <3> QED BY <3>2, <3>3, <3>4
  <2>5. pc \in Encoding /\ 0 <= Len(v)
    BY <1>1, EmptySeq DEF Encoding
  <2> HIDE DEF c, v
  <2>6. Told(s, 0, 0, c, v)
    BY <2>1, <2>2, <2>3, <2>4, <2>5 DEF Told
  <2> QED BY <2>6
<1>4. Len(image) <= size
  BY <1>2
<1> QED BY <1>1, <1>2, <1>3, <1>4 DEF ImageInv, Encoding

\* The bytes of a variant, one more of them, or 0xFF behind them.
PairTaken(old, new, p, l) ==
  /\ old \in Seq(Byte \X Byte) /\ l \in Nat /\ Len(old) <= l
  /\ p \in (IF Len(old) < l THEN Pairs ELSE {<<FF, FF>>})
  /\ new = IF Len(old) < l THEN Append(old, p) ELSE old

Side(p, s) == IF s THEN p[2] ELSE p[1]

Extended(old, new, p, s, k, m, l) ==
  /\ m \in Nat /\ Append(SideOf(old, s) \o Fill(k), Side(p, s)) = SideOf(new, s) \o Fill(m)
  /\ m <= k + 1 /\ (m > 0 => Len(new) = l)

\* Every round takes a pair of the images, or 0xFF once they are at their end.
LEMMA Longer ==
  ASSUME NEW old, NEW new, NEW p, NEW l, PairTaken(old, new, p, l),
         NEW s \in BOOLEAN, NEW k \in Nat, k > 0 => Len(old) = l
  PROVE  /\ new \in Seq(Byte \X Byte) /\ Len(new) <= l /\ p \in Byte \X Byte
         /\ \E m : Extended(old, new, p, s, k, m, l)
<1>0. /\ old \in Seq(Byte \X Byte) /\ l \in Nat /\ Len(old) <= l
      /\ p \in (IF Len(old) < l THEN Pairs ELSE {<<FF, FF>>})
      /\ new = IF Len(old) < l THEN Append(old, p) ELSE old
  BY DEF PairTaken
<1> DEFINE x == Side(p, s)
<1>1. p \in Byte \X Byte /\ x \in Byte /\ Len(old) \in Nat
  BY <1>0, ByteTypes, LenProperties DEF Side
<1> DEFINE t == SideOf(old, s)
<1>2. t \in Seq(Byte)
  BY <1>0, SideIs
<1>3. CASE Len(old) < l
  <2>1. new \in Seq(Byte \X Byte) /\ Len(new) = Len(old) + 1
    BY <1>0, <1>1, <1>3, Appended
  <2>2. k = 0
    BY <1>3
  <2>3. SideOf(new, s) = Append(t, x)
    <3>1. SideOf(Append(old, p), s) = Append(SideOf(old, s), IF s THEN p[2] ELSE p[1])
      BY <1>0, <1>1, SideAppend
    <3>2. new = Append(old, p)
      BY <1>0, <1>3
    <3> QED BY <3>1, <3>2 DEF Side
  <2>4. t \o Fill(k) = t
    BY <1>2, <2>2, FillMore
  <2>5. Append(t, x) \in Seq(Byte)
    BY <1>1, <1>2, Appended
  <2>6. SideOf(new, s) \o Fill(0) = SideOf(new, s)
    BY <2>3, <2>5, FillMore
  <2>7. Append(t \o Fill(k), x) = SideOf(new, s) \o Fill(0)
    BY <2>3, <2>4, <2>6
  <2>8. 0 \in Nat /\ 0 <= k + 1 /\ ~(0 > 0) /\ Len(new) <= l
    BY <1>0, <1>1, <1>3, <2>1
  <2>9. Extended(old, new, p, s, k, 0, l)
    BY <2>7, <2>8 DEF Extended
  <2> QED BY <1>1, <2>1, <2>8, <2>9
<1>4. CASE ~(Len(old) < l)
  <2>1. Len(old) = l /\ new = old /\ p = <<FF, FF>> /\ x = FF
    BY <1>0, <1>1, <1>4 DEF Side
  <2>2. Append(t \o Fill(k), x) = t \o Fill(k + 1)
    BY <1>2, <2>1, FillMore
  <2>3. k + 1 \in Nat /\ k + 1 <= k + 1
    OBVIOUS
  <2>4. Extended(old, new, p, s, k, k + 1, l)
    BY <2>1, <2>2, <2>3 DEF Extended
  <2> QED BY <1>0, <1>1, <2>1, <2>4
<1> QED BY <1>3, <1>4

\* The output of one more block.
ComesOut(out, bin, s, n) == \E d : Outputs(d, bin, s, n) /\ d[n] = out

\* The bytes of a flushed block come out behind those of the blocks in front of it.
LEMMA OneMoreOutput ==
  ASSUME NEW bin, NEW n \in Nat, NEW s \in BOOLEAN, NEW c, Outputs(c, bin, s, n),
         NEW f, NEW new, OneMoreBlock(new, bin, f, n),
         NEW w \in Seq(Byte), DecodedBlock(f, s).bytes = w
  PROVE  ComesOut(c[n] \o w, new, s, n + 1)
<1> DEFINE d == [i \in 0 .. (n + 1) |-> IF i = n + 1 THEN c[n] \o w ELSE c[i]]
<1>1. d[n + 1] = c[n] \o w /\ (\A i \in 0 .. n : d[i] = c[i])
  OBVIOUS
<1> HIDE DEF d
<1>2. d[0] = <<>>
  BY <1>1 DEF Outputs
<1>3. \A i \in 0 .. (n + 1) : i \in 0 .. n \/ i = n + 1
  OBVIOUS
<1>4. \A i \in 0 .. (n + 1) : d[i] \in Seq(Byte)
  <2>1. \A i \in 0 .. n : c[i] \in Seq(Byte)
    BY DEF Outputs
  <2>2. c[n] \o w \in Seq(Byte)
    <3>1. n \in 0 .. n
      OBVIOUS
    <3> QED BY <2>1, <3>1, Joined
  <2> QED BY <1>1, <1>3, <2>1, <2>2
<1>5. ASSUME NEW i \in 1 .. (n + 1)
      PROVE  d[i] = d[i - 1] \o DecodedBlock(BlockOf(new, i - 1), s).bytes
  <2>1. CASE i \in 1 .. n
    <3>1. i \in 0 .. n /\ i - 1 \in 0 .. n /\ i - 1 \in 0 .. (n - 1)
      BY <2>1
    <3>2. BlockOf(new, i - 1) = BlockOf(bin, i - 1)
      BY <3>1 DEF OneMoreBlock
    <3>3. c[i] = c[i - 1] \o DecodedBlock(BlockOf(bin, i - 1), s).bytes
      BY <2>1 DEF Outputs
    <3> QED BY <1>1, <3>1, <3>2, <3>3
  <2>2. CASE i = n + 1
    <3>1. i - 1 = n /\ n \in 0 .. n
      BY <2>2
    <3>2. BlockOf(new, n) = f
      BY DEF OneMoreBlock
    <3> QED BY <1>1, <2>2, <3>1, <3>2
  <2>3. i \in 1 .. n \/ i = n + 1
    OBVIOUS
  <2> QED BY <2>1, <2>2, <2>3
<1>6. Outputs(d, new, s, n + 1)
  BY <1>2, <1>4, <1>5 DEF Outputs
<1> QED BY <1>1, <1>6 DEF ComesOut

\* What is told of a variant when a byte more is taken.
ToldMore(s, n, k, c, w, m) ==
  /\ m \in Nat /\ m <= k + 1 /\ (m > 0 => Len(image') = size)
  /\ c[n] \o w = Variant(s)' \o Fill(m)

\* So what is told of a variant is longer by its byte.
LEMMA ToldLonger ==
  ASSUME NEW s \in BOOLEAN, NEW n, NEW k, NEW c, NEW v, Told(s, n, k, c, v),
         NEW p, PairTaken(image, image', p, size)
  PROVE  \E m : ToldMore(s, n, k, c, Append(v, Side(p, s)), m)
<1> DEFINE x == Side(p, s)
           w == Append(v, x)
<1>1. k \in Nat /\ n \in Nat /\ (k > 0 => Len(image) = size)
  BY DEF Told
<1>2. p \in Byte \X Byte /\ \E m : Extended(image, image', p, s, k, m, size)
  <2> DEFINE new == image'
  <2>1. PairTaken(image, new, p, size)
    OBVIOUS
  <2> HIDE DEF new
  <2>2. p \in Byte \X Byte /\ \E m : Extended(image, new, p, s, k, m, size)
    BY <1>1, <2>1, Longer
  <2> QED BY <2>2 DEF new
<1>3. x \in Byte
  BY <1>2 DEF Side
<1>4. Variant(s) = SideOf(image, s) /\ Variant(s)' = SideOf(image', s)
  BY DEF Variant, SideOf
<1>5. c[n] \in Seq(Byte) /\ v \in Seq(Byte)
  <2>1. n \in 0 .. n
    BY <1>1
  <2> QED BY <2>1 DEF Told, Outputs, Spells
<1>6. c[n] \o w = Append(c[n] \o v, x)
  <2> HIDE DEF x
  <2> QED BY <1>3, <1>5, AppendBehind
<1>7. c[n] \o v = SideOf(image, s) \o Fill(k)
  BY <1>4 DEF Told
<1>8. PICK m : Extended(image, image', p, s, k, m, size)
  BY <1>2
<1>9. c[n] \o w = Variant(s)' \o Fill(m)
  <2>1. Append(SideOf(image, s) \o Fill(k), x) = SideOf(image', s) \o Fill(m)
    BY <1>8 DEF Extended
  <2> HIDE DEF w, x
  <2> QED BY <1>4, <1>6, <1>7, <2>1
<1>10. m \in Nat /\ m <= k + 1 /\ (m > 0 => Len(image') = size)
  BY <1>8 DEF Extended
<1> QED BY <1>9, <1>10 DEF ToldMore

\* A round of the encoder's loop, with and without a flush.
LEMMA EncodeStep ==
  ASSUME EncoderInv, ImageInv, EncodeByte
  PROVE  ImageInv'
<1>1. pc = "encode" /\ size' = size /\ pc \in Encoding
  BY DEF EncodeByte, Encoding
<1>2. PICK p \in (IF Len(image) < size THEN Pairs ELSE {<<FF, FF>>}) :
        LET next == Push(blk, p[1], p[2])
        IN  /\ image' = IF Len(image) < size THEN Append(image, p) ELSE image
            /\ IF BlockFull(next)
               THEN /\ res_bin' = res_bin \o Flushed(next) /\ blk' = EmptyBlock
                    /\ pc' = IF Len(image') = size THEN "written" ELSE "encode"
               ELSE blk' = next /\ res_bin' = res_bin /\ pc' = pc
  BY DEF EncodeByte
<1> DEFINE next == Push(blk, p[1], p[2])
<1>3. PairTaken(image, image', p, size)
  BY <1>2, FileAssumption DEF PairTaken, ImageInv
<1>4. \/ /\ BlockFull(next) /\ res_bin' = res_bin \o Flushed(next) /\ blk' = EmptyBlock
         /\ pc' = IF Len(image') = size THEN "written" ELSE "encode"
      \/ ~BlockFull(next) /\ blk' = next /\ res_bin' = res_bin /\ pc' = pc
  BY <1>2
<1>5. size \in Sizes /\ size \in Nat
  BY FileAssumption DEF ImageInv
<1>6. p[1] \in Byte /\ p[2] \in Byte
  BY ByteTypes
<1>7. Fits(next) /\ Fits(blk) /\ res_bin \in Seq(Byte)
  BY <1>6, PushFits DEF EncoderInv, Written
<1>8. image' \in Seq(Byte \X Byte) /\ Len(image') <= size
  <2> DEFINE new == image'
  <2>1. PairTaken(image, new, p, size)
    BY <1>3
  <2> HIDE DEF new
  <2>2. 0 \in Nat /\ (0 > 0 => Len(image) = size) /\ TRUE \in BOOLEAN
    OBVIOUS
  <2>3. new \in Seq(Byte \X Byte) /\ Len(new) <= size
    BY <2>1, <2>2, Longer
  <2> QED BY <2>3 DEF new
<1>9. ASSUME NEW s \in BOOLEAN PROVE \E n, k, c, v : Told(s, n, k, c, v)'
  <2>1. PICK n, k, c, v : Told(s, n, k, c, v)
    BY DEF ImageInv
  <2> DEFINE w == Append(v, Side(p, s))
  <2>2. PICK m : /\ m \in Nat /\ m <= k + 1 /\ (m > 0 => Len(image') = size)
                 /\ c[n] \o w = Variant(s)' \o Fill(m)
    <3>1. \E m : ToldMore(s, n, k, c, w, m)
      BY <1>3, <2>1, ToldLonger
    <3> QED BY <3>1 DEF ToldMore
  <2>3. Spells(next, s, w)
    <3> DEFINE x == Side(p, s)
    <3>1. x = IF s THEN p[2] ELSE p[1]
      BY DEF Side
    <3>2. Spells(blk, s, v)
      BY <2>1 DEF Told
    <3> HIDE DEF x
    <3>3. Spells(next, s, Append(v, x))
      BY <1>6, <1>7, <3>1, <3>2, PushSpells
    <3> QED BY <3>3 DEF x
  <2>4. /\ n \in Nat /\ k \in Nat /\ Len(res_bin) = Len(SIGN) + n * BSIZE
        /\ Outputs(c, res_bin, s, n) /\ k <= Len(v) /\ v \in Seq(Byte) /\ Len(v) \in Nat
    BY <1>1, <2>1, LenProperties DEF Told, Spells
  <2>5. w \in Seq(Byte) /\ Len(w) \in Nat /\ m <= Len(w) /\ Len(w) < BSIZE
    <3>1. Side(p, s) \in Byte
      BY <1>6 DEF Side
    <3>2. w \in Seq(Byte) /\ Len(w) = Len(v) + 1
      BY <2>4, <3>1, Appended
    <3>3. Len(w) = Len(next.data)
      BY <2>3 DEF Spells
    <3>4. Len(next.data) < BSIZE
      <4> DEFINE l == Len(next.data)
                 e == Len(next.addr)
                 f == Len(next.change)
      <4> HIDE DEF next
      <4>1. l \in Nat /\ e \in Nat /\ f \in Nat /\ 1 + e + f + l <= BSIZE
        BY <1>7, LenProperties DEF Fits, block_len
      <4> HIDE DEF l, e, f
      <4>2. l < BSIZE
        BY <4>1, BlockSize
      <4> QED BY <4>2 DEF l
    <3> HIDE DEF w, next
    <3> QED BY <2>2, <2>4, <3>2, <3>3, <3>4
  <2> HIDE DEF w, next
  <2>6. CASE ~BlockFull(next)
    <3>1. blk' = next /\ res_bin' = res_bin /\ pc' \in Encoding
      BY <1>1, <1>4, <2>6
    <3>2. Told(s, n, m, c, w)'
      BY <1>1, <2>2, <2>3, <2>4, <2>5, <3>1 DEF Told
    <3> QED BY <3>2
  <2>7. CASE BlockFull(next)
    <3> DEFINE f == Flushed(next)
    <3>1. /\ res_bin' = res_bin \o f /\ blk' = EmptyBlock
          /\ pc' = IF Len(image') = size THEN "written" ELSE "encode"
      BY <1>4, <2>7
    <3>2. f \in Seq(Byte) /\ Len(f) = BSIZE
      BY <1>7, <2>7, FlushedParts
    <3>3. DecodedBlock(f, s).bytes = w
      BY <1>7, <2>3, <2>7, BothDecode
    <3> HIDE DEF f
    <3>4. OneMoreBlock(res_bin', res_bin, f, n)
      BY <1>7, <2>4, <3>1, <3>2, BlockAdded
    <3>5. PICK d : Outputs(d, res_bin', s, n + 1) /\ d[n + 1] = c[n] \o w
      <4> DEFINE new == res_bin'
      <4>1. OneMoreBlock(new, res_bin, f, n)
        BY <3>4
      <4> HIDE DEF new
      <4>2. ComesOut(c[n] \o w, new, s, n + 1)
        <5>1. n \in Nat /\ Outputs(c, res_bin, s, n) /\ w \in Seq(Byte)
          BY <2>4, <2>5
        <5> QED BY <3>3, <4>1, <5>1, OneMoreOutput
      <4> QED BY <4>2 DEF new, ComesOut
    <3>6. Len(res_bin') = Len(SIGN) + (n + 1) * BSIZE
      BY <3>4 DEF OneMoreBlock
    <3>7. Spells(blk', s, <<>>)
      BY <3>1, EmptySpells
    <3>8. d[n + 1] \o <<>> = Variant(s)' \o Fill(m)
      <4>1. d[n + 1] \in Seq(Byte)
        <5>1. n + 1 \in 0 .. (n + 1)
          BY <2>4
        <5> QED BY <3>5, <5>1 DEF Outputs
      <4> QED BY <2>2, <3>5, <4>1, ConcatEmptySeq
    <3>9. IF pc' \in Encoding THEN m <= Len(<<>>) ELSE m < BSIZE
      <4>1. Len(<<>>) = 0
        BY EmptySeq
      <4>2. pc' \in Encoding => Len(image') # size
        BY <3>1 DEF Encoding
      <4>3. pc' \in Encoding => m = 0
        BY <2>2, <4>2
      <4> QED BY <2>2, <2>5, <4>1, <4>3, BlockSize
    <3>10. n + 1 \in Nat
      BY <2>4
    <3>11. Told(s, n + 1, m, d, <<>>)'
      BY <1>1, <2>2, <3>5, <3>6, <3>7, <3>8, <3>9, <3>10 DEF Told
    <3> QED BY <3>11
  <2> QED BY <2>6, <2>7
<1>10. pc' \notin Encoding => Len(image') = size' /\ blk' = EmptyBlock
  BY <1>1, <1>4 DEF Encoding
<1> QED BY <1>1, <1>5, <1>8, <1>9, <1>10 DEF ImageInv

\* Every step keeps what is known of the images.
LEMMA ImageNext == EncoderInv /\ ImageInv /\ [Next]_vars => ImageInv'
<1> SUFFICES ASSUME EncoderInv, ImageInv, [Next]_vars PROVE ImageInv'
  OBVIOUS
<1>1. CASE EncodeByte
  BY <1>1, EncodeStep
<1>2. CASE /\ UNCHANGED <<size, image, blk, res_bin>>
           /\ pc' \in Encoding <=> pc \in Encoding
  <2>1. \A s \in BOOLEAN : Variant(s)' = Variant(s)
    BY <1>2 DEF Variant
  <2>2. \A s \in BOOLEAN : \A n, k, c, v : Told(s, n, k, c, v) => Told(s, n, k, c, v)'
    <3> SUFFICES ASSUME NEW s \in BOOLEAN, NEW n, NEW k, NEW c, NEW v, Told(s, n, k, c, v)
                 PROVE  Told(s, n, k, c, v)'
      OBVIOUS
    <3>1. Variant(s)' = Variant(s)
      BY <2>1
    <3>2. (IF pc \in Encoding THEN k <= Len(v) ELSE k < BSIZE)
            => IF pc' \in Encoding THEN k <= Len(v) ELSE k < BSIZE
      BY <1>2, Zenon
    <3> QED BY <1>2, <3>1, <3>2, Zenon DEF Told
  <2>3. \A s \in BOOLEAN : \E n, k, c, v : Told(s, n, k, c, v)'
    BY <2>2 DEF ImageInv
  <2> QED BY <1>2, <2>3 DEF ImageInv
<1>3. InitTables \/ Open \/ sfu_command_write \/ sfu_command_start \/ UNCHANGED vars
        => /\ UNCHANGED <<size, image, blk, res_bin>>
           /\ pc' \in Encoding <=> pc \in Encoding
  BY DEF InitTables, Open, sfu_command_write, sfu_command_start, vars, hostVars, Encoding
<1> QED BY <1>1, <1>2, <1>3 DEF Next

----------------------------------------------------------------------------
(* The file that is not damaged                                            *)

\* What comes out of n blocks is settled by the blocks.
LEMMA OneOutput ==
  ASSUME NEW n \in Nat, NEW s, NEW q, NEW bin, NEW c, NEW d,
         Outputs(c, q, s, n), Outputs(d, bin, s, n),
         \A i \in 0 .. (n - 1) : BlockOf(q, i) = BlockOf(bin, i)
  PROVE  c[n] = d[n]
<1>1. GoAlike(c, d, n)
  <2>1. c[0] = d[0]
    BY DEF Outputs
  <2>2. ASSUME NEW i \in 1 .. n, c[i - 1] = d[i - 1] PROVE c[i] = d[i]
    <3>1. i - 1 \in 0 .. (n - 1)
      OBVIOUS
    <3>2. BlockOf(q, i - 1) = BlockOf(bin, i - 1)
      BY <3>1
    <3>3. c[i] = c[i - 1] \o DecodedBlock(BlockOf(q, i - 1), s).bytes
      BY DEF Outputs
    <3>4. d[i] = d[i - 1] \o DecodedBlock(BlockOf(bin, i - 1), s).bytes
      BY DEF Outputs
    <3> QED BY <2>2, <3>2, <3>3, <3>4
  <2> QED BY <2>1, <2>2 DEF GoAlike
<1> QED BY <1>1, SameEnd

\* The image and what is behind it, when the file is written.
LEMMA ImageIsOut ==
  ASSUME ImageInv, pc \notin Encoding, NEW s \in BOOLEAN, NEW n, IsFile(res_bin, n)
  PROVE  /\ Variant(s) \in Seq(Byte) /\ Len(Variant(s)) = size /\ Len(image) = size
         /\ \E c : /\ Outputs(c, res_bin, s, n)
                   /\ \E k \in 0 .. (BSIZE - 1) : c[n] = Variant(s) \o Fill(k)
<1>1. PICK l, k, c, v : Told(s, l, k, c, v)
  BY DEF ImageInv
<1>2. blk = EmptyBlock /\ Len(image) = size /\ image \in Seq(Byte \X Byte)
  BY DEF ImageInv
<1>3. Variant(s) \in Seq(Byte) /\ Len(Variant(s)) = size
  <2>1. Variant(s) = SideOf(image, s)
    BY DEF Variant, SideOf
  <2> QED BY <1>2, <2>1, SideIs
<1>4. l = n /\ n \in Nat
  <2>1. IsFile(res_bin, l)
    BY <1>1 DEF Told, IsFile
  <2> QED BY <2>1, BlockCount
<1>5. v = <<>>
  <2>1. v \in Seq(Byte) /\ Len(v) = 0
    <3>1. Len(EmptyBlock.data) = 0
      BY EmptySeq DEF EmptyBlock
    <3> QED BY <1>1, <1>2, <3>1 DEF Told, Spells
  <2> QED BY <2>1, EmptySeq
<1>6. c[n] \in Seq(Byte)
  <2>1. n \in 0 .. n
    BY <1>4
  <2> QED BY <1>1, <1>4, <2>1 DEF Told, Outputs
<1>7. c[n] = Variant(s) \o Fill(k)
  <2>1. c[n] \o v = Variant(s) \o Fill(k)
    BY <1>1, <1>4 DEF Told
  <2>2. c[n] \o v = c[n]
    BY <1>5, <1>6, ConcatEmptySeq
  <2> QED BY <2>1, <2>2
<1>8. k \in 0 .. (BSIZE - 1)
  BY <1>1, BlockSize DEF Told
<1>9. Outputs(c, res_bin, s, n)
  BY <1>1, <1>4 DEF Told
<1> QED BY <1>2, <1>3, <1>7, <1>8, <1>9

\* What comes out of the blocks of an undamaged file is the image, and 0xFF behind.
LEMMA ImageComesOut ==
  ASSUME EncoderInv, ImageInv, pc \notin Encoding, NEW s \in BOOLEAN, NEW n, IsFile(res_bin, n)
  PROVE  /\ n \in Nat /\ HasSign(StreamOf(res_bin))
         /\ \E k \in 0 .. (BSIZE - 1) : Output(StreamOf(res_bin), s, n)[n] = Variant(s) \o Fill(k)
<1> DEFINE q == StreamOf(res_bin)
<1>1. n \in Nat /\ res_bin \in Seq(Byte) /\ Len(SIGN) <= Len(res_bin) /\ HasSign(res_bin)
  <2> DEFINE base == n * BSIZE
  <2>1. n \in Nat /\ res_bin \in Seq(Byte) /\ base \in Nat /\ Len(res_bin) = Len(SIGN) + base
    BY BlockSize DEF IsFile
  <2> HIDE DEF base
  <2> QED BY <2>1, SignSize DEF EncoderInv, Written
<1>2. HasSign(q)
  <2>1. BSIZE - Len(SIGN) \in Nat
    BY SignRange, BlockSize
  <2>2. Fill(BSIZE - Len(SIGN)) \in Seq(Byte)
    BY <2>1, FillIs
  <2> QED BY <1>1, <2>2, SignStays DEF StreamOf
<1>3. PICK c : /\ Outputs(c, res_bin, s, n)
               /\ \E k \in 0 .. (BSIZE - 1) : c[n] = Variant(s) \o Fill(k)
  BY ImageIsOut
<1>4. Output(q, s, n)[n] = c[n]
  <2> DEFINE out == Output(q, s, n)
             was == res_bin
  <2>1. Outputs(out, q, s, n)
    BY <1>1, <1>2, StreamIs, OutputIs
  <2>2. \A i \in 0 .. (n - 1) : BlockOf(q, i) = BlockOf(was, i)
    BY BlocksOfFile
  <2>3. Outputs(c, was, s, n) /\ n \in Nat
    BY <1>1, <1>3
  <2> HIDE DEF out, q, was
  <2>4. out[n] = c[n]
    BY <2>1, <2>2, <2>3, OneOutput
  <2> QED BY <2>4 DEF out
<1> QED BY <1>1, <1>2, <1>3, <1>4

\* An undamaged file comes out of the decoder as the image, with 0xFF behind and no error.
LEMMA SoundFile ==
  ASSUME EncoderInv, ImageInv, pc \notin Encoding, NEW s \in BOOLEAN, NEW n, IsFile(res_bin, n),
         NEW d, Streamed(d, StreamOf(res_bin), n, s, n), NEW e, e = bin2page_finish(d)
  PROVE  e.active /\ ~e.errors /\ \E k \in 0 .. (2 * BSIZE - 2) : e.pages = Variant(s) \o Fill(k)
<1> DEFINE q == StreamOf(res_bin)
           is == 0 .. (n - 1)
<1>1. n \in Nat /\ HasSign(q)
  BY ImageComesOut
<1>2. PICK k \in 0 .. (BSIZE - 1) : Output(q, s, n)[n] = Variant(s) \o Fill(k)
  BY ImageComesOut
<1>3. d \in Decs /\ d.active
  BY <1>1 DEF Streamed
<1>4. PICK m \in 0 .. (BSIZE - 1) : e.pages = (d.pages \o d.result) \o Fill(m)
  BY <1>3, FinishIs
<1>5. e.active = d.active /\ e.errors = d.errors
  BY <1>3, FinishIs
<1>6. \A i \in is : BlockOf(q, i) = BlockOf(res_bin, i) /\ BlockOf(res_bin, i) \in Block
  BY BlocksOfFile
<1>7. ~d.errors
  <2>1. d.errors <=> \E i \in is : DecodedBlock(BlockOf(q, i), s).error
    BY <1>3 DEF Streamed
  <2>2. \A i \in is : ~DecodedBlock(BlockOf(q, i), s).error
    <3> SUFFICES ASSUME NEW i \in is PROVE ~DecodedBlock(BlockOf(q, i), s).error
      OBVIOUS
    <3>1. WellFormed(BlockOf(res_bin, i), s)
      <4>1. FormatKept(res_bin)
        BY WrittenIsRead DEF EncoderInv
      <4>2. i \in Nat /\ Len(SIGN) + i * BSIZE + BSIZE <= Len(res_bin)
        <5>1. i \in Nat /\ i + 1 <= n
          BY <1>1
        <5>2. (i + 1) * BSIZE <= n * BSIZE /\ (i + 1) * BSIZE = i * BSIZE + BSIZE
              /\ i * BSIZE \in Nat /\ n * BSIZE \in Nat
          BY <1>1, <5>1, BlockSize, SMTT(30)
        <5>3. Len(res_bin) = Len(SIGN) + n * BSIZE
          BY DEF IsFile
        <5> QED BY <5>1, <5>2, <5>3, SignSize, BlockSize
      <4> QED BY <4>1, <4>2 DEF FormatKept
    <3>2. BlockOf(res_bin, i) \in Block /\ BlockOf(q, i) = BlockOf(res_bin, i)
      BY <1>6
    <3>3. ~DecodedBlock(BlockOf(res_bin, i), s).error
      BY <3>1, <3>2, DecodesByTheFormat
    <3> QED BY <3>2, <3>3
  <2> QED BY <2>1, <2>2
<1>8. d.pages \o d.result = Variant(s) \o Fill(k)
  BY <1>2, <1>3 DEF Streamed
<1>9. e.pages = Variant(s) \o Fill(k + m)
  <2>1. Variant(s) \in Seq(Byte) /\ k \in Nat /\ m \in Nat
    BY ImageIsOut, BlockSize
  <2>2. (Variant(s) \o Fill(k)) \o Fill(m) = Variant(s) \o Fill(k + m)
    <3> DEFINE t == Variant(s)
    <3> HIDE DEF t
    <3>1. (t \o Fill(k)) \o Fill(m) = t \o Fill(k + m)
      BY <2>1, FillTwice DEF t
    <3> QED BY <3>1 DEF t
  <2> QED BY <1>4, <1>8, <2>2
<1>10. k + m \in 0 .. (2 * BSIZE - 2)
  BY BlockSize
<1>11. e.active /\ ~e.errors
  BY <1>3, <1>5, <1>7, Zenon
<1> QED BY <1>9, <1>10, <1>11

\* All that is known of encoder, device and images, of every behaviour.
LEMMA AlwaysAll == Spec => [](EncoderInv /\ DeviceInv /\ ImageInv)
BY Always, EncoderInit, EncoderNext, ImageInit, ImageNext, PTL DEF Spec

\* A file that is read in one go.
LEMMA ReadWhole ==
  ASSUME NEW f, NEW n, IsFile(f, n), NEW s \in BOOLEAN
  PROVE  Streamed(DecodedPages(bin2page_reset, f, s), StreamOf(f), n, s, n)
<1> DEFINE q == StreamOf(f)
           d == DecodedPages(bin2page_reset, f, s)
           first == 0 * BSIZE
           to == Len(f)
           zero == 0
<1>1. f \in Seq(Byte) /\ n \in Nat /\ to \in Nat /\ to > 0 /\ to = Len(SIGN) + n * BSIZE
  <2> DEFINE base == n * BSIZE
  <2>1. f \in Seq(Byte) /\ n \in Nat /\ to = Len(SIGN) + base
    BY DEF IsFile
  <2>2. base \in Nat
    BY <2>1, BlockSize
  <2> HIDE DEF base
  <2>3. to \in Nat /\ to > 0
    BY <2>1, <2>2, SignRange
  <2> QED BY <2>1, <2>3 DEF base
<1>2. first = 0 /\ first + 1 = 1 /\ first < to /\ first = zero * BSIZE /\ zero \in Nat
  BY <1>1, BlockSize
<1>3. SubSeq(f, first + 1, to) = f
  BY <1>1, <1>2, SubSeqFull
<1>4. PICK p \in Nat : /\ Carries(SubSeq(f, zero * BSIZE + 1, to), q, zero, p, n)
                       /\ to = (zero + p) * BSIZE \/ (to = Len(f) /\ zero + p = n + 1)
  <2>1. zero * BSIZE < Len(f)
    BY <1>2
  <2>2. to = Len(f)
    OBVIOUS
  <2> HIDE DEF to, zero, first
  <2> QED BY <1>1, <1>2, <2>1, <2>2, PacketCarries
<1>5. zero + p = n + 1
  <2>1. p \in Nat /\ zero + p = p
    OBVIOUS
  <2> QED BY <1>4, <2>1, NoPageEndsIt
<1>6. Carries(f, q, zero, p, n)
  BY <1>2, <1>3, <1>4
<1>7. After(d, q, zero + p, s, n)
  <2>1. Holds(q, n)
    BY StreamIs
  <2>2. After(bin2page_reset, q, zero, s, n)
    BY DEF After
  <2> HIDE DEF q, zero
  <2> QED BY <1>6, <2>1, <2>2, PacketIs
<1>8. zero + p # 0 /\ (zero + p) - 1 = n
  BY <1>1, <1>5
<1> HIDE DEF d, q, zero
<1>9. Streamed(d, q, n, s, n)
  BY <1>7, <1>8 DEF After
<1> QED BY <1>9 DEF d, q

\* The decoder tool reads what the encoder writes.
LEMMA ToolReads ==
  ASSUME EncoderInv, NEW s \in BOOLEAN
  PROVE  \E n, d : /\ IsFile(res_bin, n) /\ Streamed(d, StreamOf(res_bin), n, s, n)
                   /\ ToolDecodes(res_bin, s) = bin2page_finish(d)
<1>1. PICK n \in Nat : Len(res_bin) = Len(SIGN) + n * BSIZE
  BY DEF EncoderInv, Written
<1>2. IsFile(res_bin, n)
  BY <1>1 DEF EncoderInv, Written, IsFile
<1>3. Streamed(DecodedPages(bin2page_reset, res_bin, s), StreamOf(res_bin), n, s, n)
  BY <1>2, ReadWhole
<1> QED BY <1>2, <1>3 DEF ToolDecodes

(***************************************************************************)
(* Whatever the two images are, the decoder tool finds both of them in the *)
(* file that the encoder writes, with 0xFF behind, and no error            *)
(* (BothVariantsDecode): what main.rs tests of the images it is given.     *)
(***************************************************************************)
THEOREM ToolFindsBoth == Spec => []BothVariantsDecode
<1>1. EncoderInv /\ ImageInv => BothVariantsDecode
  <2> SUFFICES ASSUME EncoderInv, ImageInv, pc = "written", NEW s \in BOOLEAN
               PROVE  /\ ~ToolDecodes(res_bin, s).errors
                      /\ eq_with_trailing_ff(Variant(s), ToolDecodes(res_bin, s).pages)
    BY DEF BothVariantsDecode
  <2> DEFINE e == ToolDecodes(res_bin, s)
  <2>1. PICK n, d : /\ IsFile(res_bin, n) /\ Streamed(d, StreamOf(res_bin), n, s, n)
                    /\ e = bin2page_finish(d)
    BY ToolReads
  <2>2. pc \notin Encoding
    BY DEF Encoding
  <2>3. ~e.errors /\ \E k \in 0 .. (2 * BSIZE - 2) : e.pages = Variant(s) \o Fill(k)
    <3> HIDE DEF e
    <3> QED BY <2>1, <2>2, SoundFile
  <2>4. PICK k \in 0 .. (2 * BSIZE - 2) : e.pages = Variant(s) \o Fill(k)
    BY <2>3
  <2>5. Variant(s) \in Seq(Byte) /\ k \in Nat
    BY <2>1, <2>2, ImageIsOut, BlockSize
  <2>6. eq_with_trailing_ff(Variant(s), e.pages)
    BY <2>4, <2>5, TrailingFF
  <2> QED BY <2>3, <2>6
<1> QED BY AlwaysAll, <1>1, PTL

\* A damaged byte changes a word, and that the CRC.
LEMMA DamageShows ==
  ASSUME NEW f, NEW bin \in Seq(Byte), OneByteOff(f, bin), f # bin, Len(bin) % 4 = 0
  PROVE  crc32_calc_raw(UINT32_MAX_WORD, f, Len(f) \div 4) # crc32_calc(bin)
<1> DEFINE l == Len(bin)
           n == l \div 4
<1>1. f \in Seq(Byte) /\ Len(f) = l /\ l \in Nat
  BY LenProperties DEF OneByteOff
<1>2. n \in Nat /\ l = 4 * n
  BY <1>1, Quarters
<1>3. PICK i \in 1 .. l : \A j \in 1 .. l : j # i => f[j] = bin[j]
  BY DEF OneByteOff
<1>4. f[i] # bin[i]
  <2> SUFFICES ASSUME f[i] = bin[i] PROVE FALSE
    OBVIOUS
  <2>1. \A j \in 1 .. l : f[j] = bin[j]
    BY <1>3
  <2> QED BY <1>1, <2>1, SeqEqual
<1>5. \A j \in 1 .. l : f[j] \in 0 .. 255 /\ bin[j] \in 0 .. 255
  <2>1. \A x \in Byte : x \in 0 .. 255
    <3>1. BSIZE \in Nat /\ BSIZE - 1 <= 255
      BY BlockSize, FileAssumption
    <3> QED BY <3>1 DEF Byte
  <2>2. \A j \in 1 .. l : f[j] \in Byte /\ bin[j] \in Byte
    BY <1>1, ElementOfSeq
  <2> QED BY <2>1, <2>2
<1> HIDE DEF n, l
<1>6. PICK k \in 0 .. (n - 1), r \in 0 .. 3 : i = 4 * k + r + 1
  <2>1. i \in Int /\ 1 <= i /\ i <= 4 * n
    BY <1>1, <1>2, <1>3
  <2>2. (i - 1) \div 4 \in 0 .. (n - 1) /\ (i - 1) % 4 \in 0 .. 3
        /\ i = 4 * ((i - 1) \div 4) + ((i - 1) % 4) + 1
    BY <1>2, <2>1
  <2> QED BY <2>2
<1>7. \A j \in 0 .. (n - 1), x \in 0 .. 3 : 4 * j + x + 1 \in 1 .. l
  BY <1>1, <1>2
<1>8. WordAt(f, k) # WordAt(bin, k)
  <2> SUFFICES ASSUME WordAt(f, k) = WordAt(bin, k) PROVE FALSE
    OBVIOUS
  <2>1. BytesAt(f, k) /\ BytesAt(bin, k)
    BY <1>5, <1>7 DEF BytesAt
  <2>2. SameBytes(f, k, bin, k)
    BY <2>1, WordIsBytes
  <2> QED BY <1>4, <1>6, <2>2 DEF SameBytes
<1>9. \A j \in 0 .. (n - 1) : j # k => WordAt(f, j) = WordAt(bin, j)
  <2> SUFFICES ASSUME NEW j \in 0 .. (n - 1), j # k PROVE WordAt(f, j) = WordAt(bin, j)
    OBVIOUS
  <2>1. \A x \in 0 .. 3 : 4 * j + x + 1 # i
    BY <1>2, <1>6
  <2>2. SameBytes(f, j, bin, j)
    BY <1>3, <1>7, <2>1 DEF SameBytes
  <2> QED BY <2>2, WordMoves
<1>10. crc32_calc_raw(UINT32_MAX_WORD, f, n) # crc32_calc_raw(UINT32_MAX_WORD, bin, n)
  BY <1>2, <1>8, <1>9, AllOnes, OneWordOff
<1> QED BY <1>1, <1>10 DEF crc32_calc, n, l

\* What START goes by, when the file was taken once.
LEMMA Verdict ==
  ASSUME EncoderInv, DeviceInv, Started, taken = file
  PROVE  fw_fullbody_crc32 = crc32_calc(res_bin) <=> file = res_bin
<1>1. PICK n : IsFile(file, n)
  BY AtTheEnd
<1>2. OneByteOff(file, res_bin)
  BY DEF Started, DeviceInv, TakenInv, BeforeOpen
<1>3. res_bin \in Seq(Byte)
  BY DEF EncoderInv, Written
<1>4. Len(res_bin) % 4 = 0
  BY <1>1, <1>2, FilesAreWords DEF OneByteOff
<1>5. fw_fullbody_crc32 = crc32_calc(file)
  BY DEF DeviceInv, CrcInv
<1>6. ASSUME file # res_bin PROVE fw_fullbody_crc32 # crc32_calc(res_bin)
  <2>1. crc32_calc_raw(UINT32_MAX_WORD, file, Len(file) \div 4) # crc32_calc(res_bin)
    BY <1>2, <1>3, <1>4, <1>6, DamageShows
  <2> QED BY <1>5, <2>1 DEF crc32_calc
<1> QED BY <1>5, <1>6

\* Of an image with its vector table in order no page is refused, and the device takes it
\* to its end.
LEMMA ImageIsTaken ==
  ASSUME EncoderInv, DeviceInv, ImageInv, Started, file = res_bin, Runs(Variant(slot), slot)
  PROVE  /\ ~dec.errors /\ taken = file
         /\ body = dec.pages /\ \E k \in 0 .. (2 * BSIZE - 2) : body = Variant(slot) \o Fill(k)
<1>1. PICK n : /\ IsFile(file, n) /\ slot \in BOOLEAN
               /\ dec.active <=> HasSign(StreamOf(file))
               /\ \/ sent < Len(file) /\ Unfit(file, slot, n)
                  \/ \E d : Ended(n, d)
  BY AtTheEnd, Zenon
<1>2. pc \notin Encoding
  BY DEF Started, Encoding
<1> DEFINE v == Variant(slot)
           q == StreamOf(file)
<1>3. n \in Nat /\ HasSign(q) /\ v \in Seq(Byte) /\ Len(v) = size
  BY <1>1, <1>2, ImageComesOut, ImageIsOut
<1>4. PICK j \in 0 .. (BSIZE - 1) : Output(q, slot, n)[n] = v \o Fill(j)
  BY <1>1, <1>2, ImageComesOut
<1>5. j \in Nat /\ Len(v) + j <= SLOT_SIZE
  <2>1. size \in Nat /\ size + 2 * BSIZE <= SLOT_SIZE /\ SLOT_SIZE \in Nat
    BY FileAssumption DEF ImageInv
  <2> HIDE DEF v
  <2> QED BY <1>3, <2>1, BlockSize
<1>6. /\ ~Unfit(file, slot, n)
      /\ \A d : Streamed(d, q, n, slot, n) => ~Refused(bin2page_finish(d).pages, slot)
  <2>1. Runs(v, slot)
    OBVIOUS
  <2> HIDE DEF v
  <2> QED BY <1>1, <1>3, <1>4, <1>5, <2>1, NothingRefused
<1>7. PICK d : Ended(n, d)
  BY <1>1, <1>6, Zenon
<1>8. /\ Streamed(d, q, n, slot, n) /\ dec = bin2page_finish(d) /\ taken = file
      /\ body = dec.pages \/ Refused(dec.pages, slot)
  BY <1>7, Zenon DEF Ended
<1>9. body = dec.pages
  BY <1>6, <1>8
<1>10. ~dec.errors /\ \E k \in 0 .. (2 * BSIZE - 2) : dec.pages = v \o Fill(k)
  BY <1>1, <1>2, <1>8, SoundFile
<1> QED BY <1>8, <1>9, <1>10

(***************************************************************************)
(* What START signs of a file it was given once is the file the encoder    *)
(* has made, and it refuses that file only if the vector table of the      *)
(* image is out of order (SignedIffUnharmed): the CRC sees a damaged byte  *)
(* wherever it is, and neither the CRC nor the decoder nor the writer      *)
(* finds fault with the rest.                                              *)
(***************************************************************************)
THEOREM OnlyTheSoundIsSigned == Spec => []SignedIffUnharmed
<1>1. EncoderInv /\ DeviceInv /\ ImageInv => SignedIffUnharmed
  <2> SUFFICES ASSUME EncoderInv, DeviceInv, ImageInv PROVE SignedIffUnharmed
    OBVIOUS
  <2>1. ASSUME pc = "signed", taken = file PROVE file = res_bin
    <3>1. Started /\ Accepted
      BY <2>1 DEF Started, DeviceInv, VerdictInv
    <3>2. fw_fullbody_crc32 = crc32_calc(res_bin)
      BY <3>1 DEF Accepted
    <3> QED BY <2>1, <3>1, <3>2, Verdict
  <2>2. ASSUME pc = "refused", file = res_bin PROVE ~Runs(Variant(slot), slot)
    <3> SUFFICES ASSUME Runs(Variant(slot), slot) PROVE FALSE
      OBVIOUS
    <3>1. Started /\ ~Accepted
      BY <2>2 DEF Started, DeviceInv, VerdictInv
    <3>2. ~dec.errors /\ taken = file
      BY <2>2, <3>1, ImageIsTaken
    <3>3. fw_fullbody_crc32 = crc32_calc(res_bin)
      BY <2>2, <3>1, <3>2, Verdict
    <3> QED BY <3>1, <3>2, <3>3 DEF Accepted
  <2> QED BY <2>1, <2>2 DEF SignedIffUnharmed
<1> QED BY AlwaysAll, <1>1, PTL

\* The slot that is signed has the image in it that the encoder was given, and 0xFF behind.
LEMMA SignedIsImage ==
  ASSUME EncoderInv, DeviceInv, ImageInv, pc = "signed", taken = file, Runs(Variant(slot), slot)
  PROVE  /\ Variant(slot) \in Seq(Byte) /\ Len(Variant(slot)) = Len(image)
         /\ SLOT_SIZE - Len(image) \in Nat
         /\ SlotBody(body) = Variant(slot) \o Fill(SLOT_SIZE - Len(image))
<1>1. Started /\ Accepted /\ pc \notin Encoding
  BY DEF Started, DeviceInv, VerdictInv, Encoding
<1>2. file = res_bin
  <2>1. fw_fullbody_crc32 = crc32_calc(res_bin)
    BY <1>1 DEF Accepted
  <2> QED BY <1>1, <2>1, Verdict
<1>3. PICK n : IsFile(file, n) /\ slot \in BOOLEAN
  BY <1>1, AtTheEnd
<1>4. PICK k \in 0 .. (2 * BSIZE - 2) : body = Variant(slot) \o Fill(k)
  BY <1>1, <1>2, ImageIsTaken
<1> DEFINE v == Variant(slot)
           l == Len(image)
<1>5. v \in Seq(Byte) /\ Len(v) = l /\ l = size
  BY <1>1, <1>2, <1>3, ImageIsOut
<1>6. l \in Nat /\ k \in Nat /\ l + k <= SLOT_SIZE /\ SLOT_SIZE \in Nat
  <2>1. size \in Nat /\ size + 2 * BSIZE <= SLOT_SIZE
    BY FileAssumption DEF ImageInv
  <2>2. k \in Nat /\ k <= 2 * BSIZE - 2
    BY BlockSize
  <2> HIDE DEF v, l
  <2> QED BY <1>5, <2>1, <2>2, BlockSize, FileAssumption
<1> HIDE DEF v, l
<1>7. Len(v \o Fill(k)) = l + k
  BY <1>5, <1>6, FilledUp
<1> DEFINE m == SLOT_SIZE - (l + k)
<1>8. m \in Nat /\ k + m = SLOT_SIZE - l /\ SLOT_SIZE - l \in Nat
  BY <1>6
<1>9. SlotBody(v \o Fill(k)) = (v \o Fill(k)) \o Fill(m)
  BY <1>7 DEF SlotBody
<1> HIDE DEF m
<1>10. (v \o Fill(k)) \o Fill(m) = v \o Fill(k + m)
  BY <1>5, <1>6, <1>8, FillTwice
<1>11. SlotBody(body) = v \o Fill(SLOT_SIZE - l)
  BY <1>4, <1>8, <1>9, <1>10 DEF v
<1> QED BY <1>5, <1>8, <1>11 DEF v, l

(***************************************************************************)
(* Behind a file that was taken once, what START signs is the CRC-32 of    *)
(* IEEE 802.3 of the image the encoder was given for that slot, and of the *)
(* erased rest of the slot, if the vector table of the image is in order   *)
(* (SignatureIsOfImage): all of it is in the flash by then.                *)
(***************************************************************************)
THEOREM SignedForTheImage == Spec => []SignatureIsOfImage
<1>1. EncoderInv /\ DeviceInv /\ ImageInv => SignatureIsOfImage
  <2> SUFFICES ASSUME EncoderInv, DeviceInv, ImageInv,
                      pc = "signed", taken = file, Runs(Variant(slot), slot)
               PROVE  sign_crc = SerialIeee(Variant(slot) \o Fill(SLOT_SIZE - Len(image)))
    BY DEF SignatureIsOfImage
  <2> DEFINE whole == Variant(slot) \o Fill(SLOT_SIZE - Len(image))
  <2>1. sign_crc = crc32_IEEE8023_of(SlotBody(body))
    BY DEF DeviceInv, VerdictInv
  <2>2. SlotBody(body) = whole
    BY SignedIsImage
  <2>3. Len(whole) \in Nat
    <3>1. whole \in Seq(Byte)
      BY SignedIsImage, FilledUp
    <3> HIDE DEF whole
    <3> QED BY <3>1, LenProperties
  <2> HIDE DEF whole
  <2>4. crc32_IEEE8023_of(whole) = SerialIeee(whole)
    BY <2>3, TablesAreSerial
  <2> QED BY <2>1, <2>2, <2>4 DEF whole
<1> QED BY AlwaysAll, <1>1, PTL

(***************************************************************************)
(* The types, with what the buffers hold between two calls: less than a    *)
(* page, and only whole pages have been given out.                         *)
(***************************************************************************)
THEOREM TypeCorrect == Spec => []TypeOK
<1>1. EncoderInv /\ DeviceInv /\ ImageInv => TypeOK
  <2> SUFFICES ASSUME EncoderInv, DeviceInv, ImageInv PROVE TypeOK
    OBVIOUS
  <2>1. res_bin \in Seq(Byte) /\ (Len(res_bin) - Len(SIGN)) % BSIZE = 0
    <3>1. PICK n \in Nat : Len(res_bin) = Len(SIGN) + n * BSIZE
      BY DEF EncoderInv, Written
    <3> DEFINE base == n * BSIZE
    <3>2. base \in Nat /\ base % BSIZE = 0
      BY BlockSize, Multiple
    <3>3. Len(res_bin) = Len(SIGN) + base
      BY <3>1
    <3> HIDE DEF base
    <3>4. Len(res_bin) - Len(SIGN) = base
      BY <3>2, <3>3, SignSize
    <3> QED BY <3>2, <3>4 DEF EncoderInv, Written
  <2>2. /\ file \in Seq(Byte) /\ sent \in 0 .. Len(file) /\ sent % 4 = 0
        /\ taken \in Seq(Byte)
    BY DEF DeviceInv, CrcInv
  <2>3. fw_fullbody_crc32 \subseteq Places
    <3>1. Len(taken) \div 4 \in Nat
      BY Quarters, LenProperties DEF DeviceInv, CrcInv
    <3>2. crc32_calc(taken) \in Words
      BY <3>1, AllOnes, CalcTypes DEF crc32_calc
    <3> QED BY <3>2 DEF DeviceInv, CrcInv, Words
  <2>4. sign_crc \subseteq Places
    <3>1. CASE pc \in BeforeOpen \/ pc = "receive" \/ pc = "refused"
      <4>1. sign_crc = {}
        BY <3>1 DEF DeviceInv, TakenInv, VerdictInv, Untouched
      <4> QED BY <4>1
    <3>2. CASE pc = "signed"
      <4>1. sign_crc = crc32_IEEE8023_of(SlotBody(body))
        BY <3>2 DEF DeviceInv, VerdictInv
      <4>2. crc32_IEEE8023_of(SlotBody(body)) \subseteq Places
        BY DEF crc32_IEEE8023_of, crc32_IEEE8023_raw
      <4> QED BY <4>1, <4>2
    <3> QED BY <3>1, <3>2 DEF DeviceInv, VerdictInv, BeforeOpen
  <2>5. dec \in Decs /\ write_error \in BOOLEAN /\ body \in Bodies
    BY DEF DeviceInv, States, State
  <2>6. /\ dec.input \in Seq(Byte) /\ Len(dec.input) < BSIZE
        /\ dec.result \in Seq(Byte) /\ Len(dec.result) < BSIZE
        /\ dec.pages \in Seq(Byte) /\ Len(dec.pages) % BSIZE = 0
    BY <2>5, Decoder
  <2> QED BY <2>1, <2>2, <2>3, <2>4, <2>5, <2>6 DEF TypeOK, Bodies, DeviceInv, VerdictInv, ImageInv
<1> QED BY AlwaysAll, <1>1, PTL
=============================================================================
