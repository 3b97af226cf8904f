------------------------------ MODULE Bin2Page ------------------------------
(***************************************************************************)
(* The BIN2Page format byte by byte: the blocks bin2page_encoder writes    *)
(* (main.rs) and bin2page_decode takes apart (bin2page_decoder.c).         *)
(*                                                                         *)
(* A block is BSIZE bytes: a header (the FULL bit and the number of        *)
(* entries, padding included), padding of 0xFF, the offsets of the bytes   *)
(* in which variant B differs, those bytes of B, and the bytes of A.       *)
(* Offsets are bytes, so a byte has BSIZE values ("MUST BE 8 bit!").       *)
(***************************************************************************)
EXTENDS Integers, Sequences

CONSTANTS
  BSIZE,  \* BIN2PAGE_INPUT_BSIZE = BIN2PAGE_OUTPUT_BSIZE
  SIGN    \* BIN2PAGE_SIGN_STR

Byte == 0 .. (BSIZE - 1)
FF == BSIZE - 1
FULL == BSIZE \div 2     \* 0x80; FULL - 1 is 0x7F

ASSUME FormatAssumption ==
  /\ BSIZE \in Nat /\ BSIZE >= 8 /\ BSIZE % 2 = 0
  /\ SIGN \in Seq(Byte) /\ Len(SIGN) \in 1 .. (BSIZE - 1)

Fill(n) == [i \in 1 .. n |-> FF]
Padded(bytes) == bytes \o Fill(BSIZE - Len(bytes))

\* 0xFF behind a, up to the size of b.
eq_with_trailing_ff(a, b) ==
  /\ Len(b) >= Len(a)
  /\ \A i \in 1 .. Len(b) : b[i] = IF i <= Len(a) THEN a[i] ELSE FF

----------------------------------------------------------------------------
(* The encoder: the block it is filling                                    *)

EmptyBlock == [addr |-> <<>>, change |-> <<>>, data |-> <<>>]

block_len(blk) == 1 + Len(blk.addr) + Len(blk.change) + Len(blk.data)

\* The next byte of A and, where it differs, that of B and its offset.
Push(blk, a, b) ==
  LET data == Append(blk.data, a)
  IN  IF a = b THEN [blk EXCEPT !.data = data]
      ELSE [addr   |-> Append(blk.addr, Len(data) - 1),
            change |-> Append(blk.change, b),
            data   |-> data]

\* Mutant of BlockFull: the room that a difference takes is not kept free.
FullAtTheEnd(blk) == block_len(blk) >= BSIZE

\* There may be no room for one more difference.
BlockFull(blk) == block_len(blk) >= BSIZE - 2

Flushed(blk) ==
  LET padding == BSIZE - block_len(blk)
  IN  <<FULL + Len(blk.addr) + padding>> \o Fill(padding)
        \o blk.addr \o blk.change \o blk.data

----------------------------------------------------------------------------
(* The decoder: one block.  Positions are those of decode_buffer, from 0   *)

Header(block) == [full |-> block[1] >= FULL, cnt |-> block[1] % FULL]

\* Mutant of Skipped: the padding is taken for entries.
NoneSkipped(block) == 0 * block[1]

\* The padding that is skipped: as many 0xFF as there are, and entries.
Skipped(block) ==
  CHOOSE n \in 0 .. Header(block).cnt :
    /\ \A i \in 1 .. n : block[1 + i] = FF
    /\ n < Header(block).cnt => block[2 + n] # FF

\* pos, cnt, diff and offs as they are behind the padding.
Pos(block) == 1 + Skipped(block)
Cnt(block) == Header(block).cnt - Skipped(block)
Diff(block) == Pos(block) + Cnt(block)
Offs(block) == Pos(block) + 2 * Cnt(block)

\* The header leads out of the block.  (The first test never holds: there are
\* fewer entries than half a block.)
Overflow(block) ==
  Pos(block) >= BSIZE \/ (Header(block).full /\ Offs(block) > BSIZE)

\* Mutant of AddressFits: any address within the block is taken.
AddressInBlock(addr, last_addr) == addr < BSIZE /\ last_addr \in Nat

AddressFits(addr, last_addr) == addr < BSIZE /\ addr > last_addr

\* The patches one after the other; a bad address is an error, and skipped.
Patched(block) ==
  LET after[i \in 0 .. Cnt(block)] ==
        IF i = 0 THEN [buffer |-> block, last_addr |-> Offs(block) - 1, error |-> FALSE]
        ELSE LET s    == after[i - 1]
                 addr == Offs(block) + s.buffer[Pos(block) + i]
             IN  IF AddressFits(addr, s.last_addr)
                 THEN [s EXCEPT !.buffer[addr + 1] = s.buffer[Diff(block) + i],
                                !.last_addr = addr]
                 ELSE [s EXCEPT !.error = TRUE]
  IN  after[Cnt(block)]

\* What a block comes out as, and whether it counts as an error.  One of the short
\* format comes out from behind its padding.
DecodedBlock(block, shift) ==
  IF Overflow(block) THEN [bytes |-> block, error |-> TRUE]
  ELSE IF ~Header(block).full
       THEN [bytes |-> SubSeq(block, Pos(block) + 1, BSIZE), error |-> TRUE]
  ELSE IF shift
       THEN [bytes |-> SubSeq(Patched(block).buffer, Offs(block) + 1, BSIZE),
             error |-> Patched(block).error]
  ELSE [bytes |-> SubSeq(block, Offs(block) + 1, BSIZE), error |-> FALSE]

----------------------------------------------------------------------------
(* The decoder's stream: pages in, pages out                               *)

\* input is decode_buffer up to decode_pos, result likewise; pages are the bytes
\* the callback was given.
bin2page_reset ==
  [inited |-> FALSE, active |-> FALSE, errors |-> FALSE,
   input |-> <<>>, result |-> <<>>, pages |-> <<>>]

\* result_add, for each of these bytes.
Emitted(dec, bytes) ==
  LET all  == dec.result \o bytes
      full == (Len(all) \div BSIZE) * BSIZE
  IN  [dec EXCEPT !.result = SubSeq(all, full + 1, Len(all)),
                  !.pages  = dec.pages \o SubSeq(all, 1, full)]

HasSign(buf) == SubSeq(buf, 1, Len(SIGN)) = SIGN

\* The rest of the first page behind the signature, then whole pages: the buffer
\* fills up at most once in a call.
bin2page_decode(dec, buf, shift) ==
  LET active == IF dec.inited THEN dec.active ELSE HasSign(buf)
      input  == dec.input \o (IF dec.inited THEN buf
                              ELSE SubSeq(buf, Len(SIGN) + 1, BSIZE))
      block  == DecodedBlock(SubSeq(input, 1, BSIZE), shift)
      begun  == [dec EXCEPT !.inited = TRUE, !.active = active]
  IN  IF ~active THEN [begun EXCEPT !.pages = dec.pages \o buf]
      ELSE IF Len(input) < BSIZE THEN [begun EXCEPT !.input = input]
      ELSE Emitted([begun EXCEPT !.input  = SubSeq(input, BSIZE + 1, Len(input)),
                                 !.errors = dec.errors \/ block.error], block.bytes)

\* Mutant of bin2page_finish: what is held back is dropped.
FinishWithoutFlush(dec) == [dec EXCEPT !.result = <<>>]

bin2page_finish(dec) ==
  IF dec.result = <<>> THEN dec ELSE Emitted(dec, Fill(BSIZE - Len(dec.result)))

\* Bytes of the stream, page by page, the last page padded.
DecodedPages(dec, bytes, shift) ==
  LET pages == (Len(bytes) + BSIZE - 1) \div BSIZE
      to(i) == IF i * BSIZE <= Len(bytes) THEN i * BSIZE ELSE Len(bytes)
      page(i) == Padded(SubSeq(bytes, (i - 1) * BSIZE + 1, to(i)))
      after[i \in 0 .. pages] ==
        IF i = 0 THEN dec ELSE bin2page_decode(after[i - 1], page(i), shift)
  IN  after[pages]

\* The decoder tool: a whole file, for one of the variants.
ToolDecodes(file, shift) == bin2page_finish(DecodedPages(bin2page_reset, file, shift))

----------------------------------------------------------------------------
(* A reference for blocks, without buffers and indices                     *)

\* How the block may be read: padding, then k entries.
Reading(block, pad, k) ==
  /\ block[1] = FULL + pad + k /\ 1 + pad + 2 * k <= BSIZE
  /\ \A i \in 1 .. pad : block[1 + i] = FF
  /\ k > 0 => block[2 + pad] # FF

\* Offsets that rise, all of them within the data.
GoodOffsets(block, pad, k) ==
  \A i \in 1 .. k : /\ block[1 + pad + i] < BSIZE - (1 + pad + 2 * k)
                    /\ \A j \in 1 .. (i - 1) : block[1 + pad + j] < block[1 + pad + i]

WellFormed(block, shift) ==
  \E pad, k \in 0 .. (FULL - 1) :
    Reading(block, pad, k) /\ (shift => GoodOffsets(block, pad, k))

\* The bytes of the variant that a well-formed block stands for.
Meaning(block, shift) ==
  LET r == CHOOSE r \in (0 .. (FULL - 1)) \X (0 .. (FULL - 1)) : Reading(block, r[1], r[2])
      pad == r[1]
      k == r[2]
      data == 1 + pad + 2 * k
      entry(j) == {i \in 1 .. k : block[1 + pad + i] = j - 1}
  IN  [j \in 1 .. (BSIZE - data) |->
         IF shift /\ entry(j) # {}
         THEN block[1 + pad + k + (CHOOSE i \in entry(j) : TRUE)]
         ELSE block[data + j]]
=============================================================================
