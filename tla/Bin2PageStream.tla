-------------------------- MODULE Bin2PageStream --------------------------
(***************************************************************************)
(* bin2page_decoder.c as a stream transformer: what bin2page_decode does   *)
(* with one page-sized buffer of the update stream and which page, if any, *)
(* it hands to its callback.                                               *)
(*                                                                         *)
(* The stream is a sequence of cells.  The first cell of an encoded stream *)
(* is MAGIC ("BIN2Page"); then come blocks of FLASH_PAGE_SIZE cells        *)
(* (BIN2PAGE_INPUT_BSIZE = BIN2PAGE_OUTPUT_BSIZE = FLASH_PAGE_SIZE) whose  *)
(* first cell stands for the header byte, the padding, the address list    *)
(* and the patches, and whose other cells are data.  So a block yields     *)
(* less than a page, and the pages the callback sees lag behind the input, *)
(* which is what matters here; the byte format is abstracted.              *)
(***************************************************************************)
EXTENDS FlashLayout, Sequences

CONSTANTS
  Cells,          \* the values of a cell, of the stream and of the flash
  FF,             \* all bytes 0xFF: an erased cell, and padding
  MAGIC,          \* "BIN2Page"
  Malformed(_),   \* read as a block's header, the cell's indices leave the block
  BadPatch(_, _), \* a short-format header, or a patch address out of order
  Shifted(_, _)   \* a data cell of a block as patched for slot B (TRUE), or not

ASSUME StreamAssumption ==
  /\ FLASH_PAGE_SIZE > 1
  /\ FF \in Cells
  /\ \A c \in Cells : Malformed(c) \in BOOLEAN
  /\ \A c \in Cells, shift \in BOOLEAN :
        BadPatch(c, shift) \in BOOLEAN /\ Shifted(c, shift) \in Cells

\* decode_errors is only ever compared with 0, so it is a flag here.
DecoderState ==
  [inited : BOOLEAN, active : BOOLEAN, errors : BOOLEAN,
   input : Seq(Cells), result : Seq(Cells)]

bin2page_reset ==
  [inited |-> FALSE, active |-> FALSE, errors |-> FALSE,
   input |-> <<>>, result |-> <<>>]

\* A page-sized buffer that holds s and, behind it, 0xFF.
Padded(s) == [i \in 1 .. FLASH_PAGE_SIZE |-> IF i <= Len(s) THEN s[i] ELSE FF]

(***************************************************************************)
(* One block: a malformed one comes out unchanged, any other one without   *)
(* its first cell and with the patches of the variant.  Both a malformed   *)
(* block and a bad patch count as errors.                                  *)
(***************************************************************************)
BlockError(block, shift) == Malformed(block[1]) \/ BadPatch(block[1], shift)

DecodedBlock(block, shift) ==
  IF Malformed(block[1])
  THEN block
  ELSE [i \in 1 .. (FLASH_PAGE_SIZE - 1) |-> Shifted(block[i + 1], shift)]

\* What exceeds the first page of a buffer that has wrapped.
AfterPage(s) == SubSeq(s, FLASH_PAGE_SIZE + 1, Len(s))

(***************************************************************************)
(* bin2page_decode on the page-sized buffer buf.  The format is detected   *)
(* on the first buffer after a reset.  decode_buffer and result_buffer     *)
(* each wrap at most once in a call, so there is at most one callback:     *)
(* "page" is its argument, or <<>>.                                        *)
(***************************************************************************)
bin2page_decode(dec, buf, shift) ==
  LET active == IF dec.inited THEN dec.active ELSE buf[1] = MAGIC
      input  == dec.input \o (IF dec.inited THEN buf ELSE Tail(buf))
      full   == Len(input) >= FLASH_PAGE_SIZE
      block  == SubSeq(input, 1, FLASH_PAGE_SIZE)
      result == IF full THEN dec.result \o DecodedBlock(block, shift) ELSE dec.result
      emit   == Len(result) >= FLASH_PAGE_SIZE
  IN  IF active
      THEN [dec  |-> [inited |-> TRUE, active |-> TRUE,
                      errors |-> dec.errors \/ (full /\ BlockError(block, shift)),
                      input  |-> IF full THEN AfterPage(input) ELSE input,
                      result |-> IF emit THEN AfterPage(result) ELSE result],
            page |-> IF emit THEN SubSeq(result, 1, FLASH_PAGE_SIZE) ELSE <<>>]
      ELSE [dec  |-> [dec EXCEPT !.inited = TRUE, !.active = FALSE],
            page |-> buf]

(***************************************************************************)
(* bin2page_finish: the rest of result_buffer, padded with 0xFF, is the    *)
(* argument of one last callback (<<>> if there is nothing left).  What is *)
(* left in decode_buffer is dropped without a word.                        *)
(***************************************************************************)
bin2page_finish(dec) ==
  [dec  |-> [dec EXCEPT !.result = <<>>],
   page |-> IF dec.result = <<>> THEN <<>> ELSE Padded(dec.result)]
=============================================================================
