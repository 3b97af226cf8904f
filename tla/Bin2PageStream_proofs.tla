------------------------ MODULE Bin2PageStream_proofs ------------------------
(***************************************************************************)
(* What the operators of Bin2PageStream.tla return and bound, for every    *)
(* page size, every stream and every way of patching: the buffers of the   *)
(* decoder never hold a page between two calls, and every callback gets    *)
(* exactly one page.                                                       *)
(***************************************************************************)
EXTENDS Bin2PageStream, SequenceTheorems, TLAPS

PageBuffer == {s \in Seq(Cells) : Len(s) = FLASH_PAGE_SIZE}

\* The decoder between two calls: neither buffer holds a page.
Settled(d) == d \in DecoderState /\ Len(d.input) < FLASH_PAGE_SIZE
                                 /\ Len(d.result) < FLASH_PAGE_SIZE

\* A page holds at least two cells.
LEMMA PageSize == FLASH_PAGE_SIZE \in Nat /\ FLASH_PAGE_SIZE > 1
BY Layout, StreamAssumption DEF LayoutAssumption

\* bin2page_reset leaves the decoder settled.
LEMMA ResetIsSettled == Settled(bin2page_reset)
<1>1. <<>> \in Seq(Cells) /\ Len(<<>>) = 0
  BY EmptySeq
<1> QED BY <1>1, PageSize DEF Settled, DecoderState, bin2page_reset

\* sfu_command_write and bin2page_finish pad to exactly one page.
LEMMA PaddedIsPage ==
  ASSUME NEW s \in Seq(Cells)
  PROVE  Padded(s) \in PageBuffer
<1>1. Padded(s) \in [1 .. FLASH_PAGE_SIZE -> Cells]
  BY StreamAssumption, PageSize, ElementOfSeq, LenProperties DEF Padded
<1>2. Padded(s) \in Seq(Cells)
  BY <1>1, PageSize, IsASeq
<1>3. Len(Padded(s)) = FLASH_PAGE_SIZE
  BY <1>1, PageSize, LenProperties
<1> QED BY <1>2, <1>3 DEF PageBuffer

\* The first page of a buffer, and what memmove keeps behind it.
LEMMA PageAndRest ==
  ASSUME NEW s \in Seq(Cells)
  PROVE  /\ AfterPage(s) \in Seq(Cells)
         /\ Len(AfterPage(s)) = IF FLASH_PAGE_SIZE < Len(s)
                                THEN Len(s) - FLASH_PAGE_SIZE ELSE 0
         /\ Len(s) >= FLASH_PAGE_SIZE => SubSeq(s, 1, FLASH_PAGE_SIZE) \in PageBuffer
<1>1. Len(s) \in Nat /\ \A i \in 1 .. Len(s) : s[i] \in Cells
  BY LenProperties, ElementOfSeq
<1>2. \A i \in (FLASH_PAGE_SIZE + 1) .. Len(s) : s[i] \in Cells
  BY <1>1, PageSize
<1>3. /\ AfterPage(s) \in Seq(Cells)
      /\ Len(AfterPage(s)) = IF FLASH_PAGE_SIZE + 1 <= Len(s)
                             THEN Len(s) - (FLASH_PAGE_SIZE + 1) + 1 ELSE 0
  BY <1>1, <1>2, PageSize, SubSeqProperties DEF AfterPage
<1>4. ASSUME Len(s) >= FLASH_PAGE_SIZE
      PROVE  SubSeq(s, 1, FLASH_PAGE_SIZE) \in PageBuffer
  <2>1. \A i \in 1 .. FLASH_PAGE_SIZE : s[i] \in Cells
    BY <1>1, <1>4, PageSize
  <2>2. /\ SubSeq(s, 1, FLASH_PAGE_SIZE) \in Seq(Cells)
        /\ Len(SubSeq(s, 1, FLASH_PAGE_SIZE)) = FLASH_PAGE_SIZE
    BY <2>1, PageSize, SubSeqProperties
  <2> QED BY <2>2 DEF PageBuffer
<1> QED BY <1>1, <1>3, <1>4, PageSize

\* A block gives a page of cells, or one cell less.
LEMMA DecodedBlockFits ==
  ASSUME NEW block \in PageBuffer, NEW shift \in BOOLEAN
  PROVE  /\ DecodedBlock(block, shift) \in Seq(Cells)
         /\ Len(DecodedBlock(block, shift)) <= FLASH_PAGE_SIZE
<1>1. \A i \in 1 .. FLASH_PAGE_SIZE : block[i] \in Cells
  BY ElementOfSeq DEF PageBuffer
<1>2. CASE Malformed(block[1])
  BY <1>2, PageSize DEF DecodedBlock, PageBuffer
<1>3. CASE ~Malformed(block[1])
  <2> DEFINE data == [i \in 1 .. (FLASH_PAGE_SIZE - 1) |-> Shifted(block[i + 1], shift)]
  <2>1. data \in [1 .. (FLASH_PAGE_SIZE - 1) -> Cells]
    BY <1>1, StreamAssumption, PageSize
  <2>2. data \in Seq(Cells)
    BY <2>1, PageSize, IsASeq
  <2>3. Len(data) = FLASH_PAGE_SIZE - 1
    BY <2>1, PageSize, LenProperties
  <2>4. DecodedBlock(block, shift) = data
    BY <1>3 DEF DecodedBlock
  <2> HIDE DEF data
  <2> QED BY <2>2, <2>3, <2>4, PageSize
<1> QED BY <1>2, <1>3

\* bin2page_decode on a page-sized buffer leaves a settled decoder settled, and
\* calls back with a page or not at all: one call wraps each buffer once at most.
THEOREM DecodeStaysSettled ==
  ASSUME NEW d, Settled(d), NEW buf \in PageBuffer, NEW shift \in BOOLEAN
  PROVE  /\ Settled(bin2page_decode(d, buf, shift).dec)
         /\ bin2page_decode(d, buf, shift).page \in PageBuffer \union {<<>>}
<1> DEFINE active == IF d.inited THEN d.active ELSE buf[1] = MAGIC
           input  == d.input \o (IF d.inited THEN buf ELSE Tail(buf))
           full   == Len(input) >= FLASH_PAGE_SIZE
           block  == SubSeq(input, 1, FLASH_PAGE_SIZE)
           result == IF full THEN d.result \o DecodedBlock(block, shift) ELSE d.result
           emit   == Len(result) >= FLASH_PAGE_SIZE
           input2 == IF full THEN AfterPage(input) ELSE input
           result2 == IF emit THEN AfterPage(result) ELSE result
           errors == d.errors \/ (full /\ BlockError(block, shift))
<1>1. /\ d.inited \in BOOLEAN /\ d.active \in BOOLEAN /\ d.errors \in BOOLEAN
      /\ d.input \in Seq(Cells) /\ Len(d.input) \in Nat /\ Len(d.input) < FLASH_PAGE_SIZE
      /\ d.result \in Seq(Cells) /\ Len(d.result) \in Nat /\ Len(d.result) < FLASH_PAGE_SIZE
  BY LenProperties DEF Settled, DecoderState
<1>2. buf \in Seq(Cells) /\ Len(buf) = FLASH_PAGE_SIZE /\ buf # <<>>
  BY PageSize, EmptySeq DEF PageBuffer
<1>3. Tail(buf) \in Seq(Cells) /\ Len(Tail(buf)) = FLASH_PAGE_SIZE - 1
  BY <1>2, HeadTailProperties
<1>4. input \in Seq(Cells) /\ Len(input) \in Nat /\ Len(input) < 2 * FLASH_PAGE_SIZE
  <2>1. CASE d.inited
    BY <2>1, <1>1, <1>2, PageSize, ConcatProperties, LenProperties
  <2>2. CASE ~d.inited
    BY <2>2, <1>1, <1>3, PageSize, ConcatProperties, LenProperties
  <2> QED BY <2>1, <2>2
<1> HIDE DEF input
<1>5. input2 \in Seq(Cells) /\ Len(input2) < FLASH_PAGE_SIZE
  BY <1>4, PageAndRest, PageSize
<1>6. full => block \in PageBuffer
  BY <1>4, PageAndRest
<1>7. result \in Seq(Cells) /\ Len(result) \in Nat /\ Len(result) < 2 * FLASH_PAGE_SIZE
  <2>1. CASE full
    <3>1. /\ DecodedBlock(block, shift) \in Seq(Cells)
          /\ Len(DecodedBlock(block, shift)) <= FLASH_PAGE_SIZE
          /\ Len(DecodedBlock(block, shift)) \in Nat
      BY <2>1, <1>6, DecodedBlockFits, LenProperties
    <3> HIDE DEF block, full
    <3>2. /\ d.result \o DecodedBlock(block, shift) \in Seq(Cells)
          /\ Len(d.result \o DecodedBlock(block, shift))
               = Len(d.result) + Len(DecodedBlock(block, shift))
      BY <3>1, <1>1, ConcatProperties
    <3> QED BY <2>1, <3>1, <3>2, <1>1, PageSize
  <2>2. CASE ~full
    <3> HIDE DEF full
    <3> QED BY <2>2, <1>1, PageSize
  <2> QED BY <2>1, <2>2
<1>8. errors \in BOOLEAN
  <2>1. CASE full
    <3>1. block[1] \in Cells
      BY <2>1, <1>6, PageSize, ElementOfSeq DEF PageBuffer
    <3>2. BlockError(block, shift) \in BOOLEAN
      BY <3>1, StreamAssumption DEF BlockError
    <3> HIDE DEF block
    <3> QED BY <3>2, <1>1
  <2>2. CASE ~full
    <3> HIDE DEF full, block
    <3> QED BY <2>2, <1>1
  <2> QED BY <2>1, <2>2
<1> HIDE DEF full, block, result
<1>9. result2 \in Seq(Cells) /\ Len(result2) < FLASH_PAGE_SIZE
  BY <1>7, PageAndRest, PageSize
<1>10. emit => SubSeq(result, 1, FLASH_PAGE_SIZE) \in PageBuffer
  BY <1>7, PageAndRest
<1> DEFINE page == IF emit THEN SubSeq(result, 1, FLASH_PAGE_SIZE) ELSE <<>>
<1>11. page \in PageBuffer \union {<<>>}
  BY <1>10
<1>12. bin2page_decode(d, buf, shift) =
         IF active
         THEN [dec  |-> [inited |-> TRUE, active |-> TRUE, errors |-> errors,
                         input |-> input2, result |-> result2],
               page |-> page]
         ELSE [dec  |-> [d EXCEPT !.inited = TRUE, !.active = FALSE], page |-> buf]
  BY DEF bin2page_decode, input, full, block, result
<1> HIDE DEF active, errors, input2, result2, emit, page
<1>13. CASE active
  BY <1>13, <1>12, <1>5, <1>8, <1>9, <1>11 DEF Settled, DecoderState
<1>14. CASE ~active
  <2> DEFINE raw == [d EXCEPT !.inited = TRUE, !.active = FALSE]
  <2>1. raw \in DecoderState /\ raw.input = d.input /\ raw.result = d.result
    BY <1>1 DEF Settled, DecoderState
  <2>2. Settled(raw)
    BY <2>1, <1>1 DEF Settled
  <2> HIDE DEF raw
  <2>3. bin2page_decode(d, buf, shift) = [dec |-> raw, page |-> buf]
    BY <1>14, <1>12 DEF raw
  <2> QED BY <2>2, <2>3
<1> QED BY <1>13, <1>14

\* bin2page_finish leaves nothing to call back with, and pads to one page.
THEOREM FinishStaysSettled ==
  ASSUME NEW d, Settled(d)
  PROVE  /\ Settled(bin2page_finish(d).dec)
         /\ bin2page_finish(d).page \in PageBuffer \union {<<>>}
<1>1. d \in DecoderState /\ d.result \in Seq(Cells)
  BY DEF Settled, DecoderState
<1>2. <<>> \in Seq(Cells) /\ Len(<<>>) = 0
  BY EmptySeq
<1>3. Padded(d.result) \in PageBuffer
  BY <1>1, PaddedIsPage
<1> DEFINE flushed == [d EXCEPT !.result = <<>>]
<1>4. flushed \in DecoderState /\ flushed.input = d.input /\ flushed.result = <<>>
  BY <1>1, <1>2 DEF DecoderState
<1>5. Settled(flushed)
  BY <1>4, <1>2, PageSize DEF Settled
<1>6. /\ bin2page_finish(d).dec = flushed
      /\ bin2page_finish(d).page = IF d.result = <<>> THEN <<>> ELSE Padded(d.result)
  BY DEF bin2page_finish
<1> QED BY <1>3, <1>5, <1>6

----------------------------------------------------------------------------
(* Cell by cell *)

\* The cells of a page and of what is behind it.
LEMMA PageAndRestCells ==
  ASSUME NEW s \in Seq(Cells)
  PROVE  /\ Len(s) >= FLASH_PAGE_SIZE =>
              \A i \in 1 .. FLASH_PAGE_SIZE : SubSeq(s, 1, FLASH_PAGE_SIZE)[i] = s[i]
         /\ \A i \in 1 .. (Len(s) - FLASH_PAGE_SIZE) : AfterPage(s)[i] = s[FLASH_PAGE_SIZE + i]
<1>1. Len(s) \in Nat /\ \A i \in 1 .. Len(s) : s[i] \in Cells
  BY LenProperties, ElementOfSeq
<1>2. \A i \in (FLASH_PAGE_SIZE + 1) .. Len(s) : s[i] \in Cells
  BY <1>1, PageSize
<1>3. \A i \in 1 .. (Len(s) - (FLASH_PAGE_SIZE + 1) + 1) :
        AfterPage(s)[i] = s[(FLASH_PAGE_SIZE + 1) + i - 1]
  BY <1>1, <1>2, PageSize, SubSeqProperties DEF AfterPage
<1>4. ASSUME NEW i \in 1 .. (Len(s) - FLASH_PAGE_SIZE)
      PROVE  AfterPage(s)[i] = s[FLASH_PAGE_SIZE + i]
  <2>1. /\ i \in 1 .. (Len(s) - (FLASH_PAGE_SIZE + 1) + 1)
        /\ (FLASH_PAGE_SIZE + 1) + i - 1 = FLASH_PAGE_SIZE + i
    BY <1>1, PageSize
  <2> QED BY <2>1, <1>3
<1>5. ASSUME Len(s) >= FLASH_PAGE_SIZE, NEW i \in 1 .. FLASH_PAGE_SIZE
      PROVE  SubSeq(s, 1, FLASH_PAGE_SIZE)[i] = s[i]
  <2>1. \A j \in 1 .. FLASH_PAGE_SIZE : s[j] \in Cells
    BY <1>1, <1>5, PageSize
  <2>2. SubSeq(s, 1, FLASH_PAGE_SIZE)[i] = s[1 + i - 1]
    BY <2>1, PageSize, SubSeqProperties
  <2>3. 1 + i - 1 = i
    BY PageSize
  <2> QED BY <2>2, <2>3
<1> QED BY <1>4, <1>5

\* The first page of a stream: its first cell tells the format, and if it is
\* encoded the rest of the page waits for the end of a block.
LEMMA FirstPageDecoded ==
  ASSUME NEW buf \in PageBuffer, NEW shift \in BOOLEAN
  PROVE  LET step == bin2page_decode(bin2page_reset, buf, shift)
         IN  /\ step.dec.inited /\ (step.dec.active <=> buf[1] = MAGIC)
             /\ ~step.dec.errors /\ step.dec.result = <<>>
             /\ step.dec.active =>
                  /\ step.page = <<>> /\ Len(step.dec.input) = FLASH_PAGE_SIZE - 1
                  /\ \A i \in 1 .. (FLASH_PAGE_SIZE - 1) : step.dec.input[i] = buf[i + 1]
             /\ ~step.dec.active => step.page = buf
<1> DEFINE step == bin2page_decode(bin2page_reset, buf, shift)
           input == <<>> \o Tail(buf)
<1>1. buf \in Seq(Cells) /\ Len(buf) = FLASH_PAGE_SIZE /\ buf # <<>>
  BY PageSize, EmptySeq DEF PageBuffer
<1>2. /\ Tail(buf) \in Seq(Cells) /\ Len(Tail(buf)) = FLASH_PAGE_SIZE - 1
      /\ \A i \in 1 .. (FLASH_PAGE_SIZE - 1) : Tail(buf)[i] = buf[i + 1]
  BY <1>1, HeadTailProperties
<1>3. input = Tail(buf)
  BY <1>2, ConcatEmptySeq
<1>4. ~(Len(input) >= FLASH_PAGE_SIZE) /\ ~(Len(<<>>) >= FLASH_PAGE_SIZE)
  BY <1>2, <1>3, PageSize, EmptySeq
<1> HIDE DEF input
<1>5. step = IF buf[1] = MAGIC
             THEN [dec |-> [inited |-> TRUE, active |-> TRUE, errors |-> FALSE,
                            input |-> input, result |-> <<>>],
                   page |-> <<>>]
             ELSE [dec |-> [bin2page_reset EXCEPT !.inited = TRUE, !.active = FALSE],
                   page |-> buf]
  BY <1>4 DEF bin2page_decode, bin2page_reset, input
<1> HIDE DEF step
<1>6. CASE buf[1] = MAGIC
  <2>1. step = [dec |-> [inited |-> TRUE, active |-> TRUE, errors |-> FALSE,
                         input |-> input, result |-> <<>>],
                page |-> <<>>]
    BY <1>5, <1>6
  <2>2. /\ step.dec.inited = TRUE /\ step.dec.active = TRUE /\ step.dec.errors = FALSE
        /\ step.dec.result = <<>> /\ step.dec.input = Tail(buf) /\ step.page = <<>>
    BY <2>1, <1>3
  <2> QED BY <2>2, <1>2, <1>6 DEF step
<1>7. CASE buf[1] # MAGIC
  <2>1. step = [dec |-> [bin2page_reset EXCEPT !.inited = TRUE, !.active = FALSE],
                page |-> buf]
    BY <1>5, <1>7
  <2>2. /\ step.dec.inited = TRUE /\ step.dec.active = FALSE /\ step.dec.errors = FALSE
        /\ step.dec.result = <<>> /\ step.page = buf
    BY <2>1 DEF bin2page_reset
  <2> QED BY <2>2, <1>7 DEF step
<1> QED BY <1>6, <1>7

\* The data of the block that a page completes, when held are the cells that
\* waited for it: the block's first cell is its header.
DataCell(held, buf, shift, i) ==
  Shifted(IF i < FLASH_PAGE_SIZE - 1 THEN held[i + 1] ELSE buf[1], shift)

\* The cells in result_buffer once that block is decoded behind the old ones.
BufferCell(d, buf, shift, i) ==
  IF i <= Len(d.result) THEN d.result[i]
  ELSE DataCell(d.input, buf, shift, i - Len(d.result))

\* Every other page of a stream that is not encoded goes to the callback.
LEMMA NextPageRaw ==
  ASSUME NEW d, Settled(d), d.inited, ~d.active, NEW buf, NEW shift
  PROVE  bin2page_decode(d, buf, shift) = [dec |-> d, page |-> buf]
<1>1. d = [d EXCEPT !.inited = TRUE, !.active = FALSE]
  BY DEF Settled, DecoderState
<1> QED BY <1>1 DEF bin2page_decode

\* Every other page of an encoded stream completes a block: the rest of the page
\* waits for the next one, and the block's data is handed on in pages.
LEMMA NextPageDecoded ==
  ASSUME NEW d, Settled(d), d.inited, d.active, Len(d.input) = FLASH_PAGE_SIZE - 1,
         NEW buf \in PageBuffer, NEW shift \in BOOLEAN
  PROVE  LET step == bin2page_decode(d, buf, shift)
             held == Len(d.result)
         IN  /\ step.dec.inited /\ step.dec.active
             /\ Len(step.dec.input) = FLASH_PAGE_SIZE - 1
             /\ \A i \in 1 .. (FLASH_PAGE_SIZE - 1) : step.dec.input[i] = buf[i + 1]
             /\ d.errors => step.dec.errors
             /\ ~step.dec.errors =>
                  \/ /\ held = 0 /\ step.page = <<>>
                     /\ Len(step.dec.result) = FLASH_PAGE_SIZE - 1
                     /\ \A i \in 1 .. (FLASH_PAGE_SIZE - 1) :
                          step.dec.result[i] = BufferCell(d, buf, shift, i)
                  \/ /\ held > 0 /\ step.page # <<>>
                     /\ Len(step.dec.result) = held - 1
                     /\ \A i \in 1 .. FLASH_PAGE_SIZE :
                          step.page[i] = BufferCell(d, buf, shift, i)
                     /\ \A i \in 1 .. (held - 1) :
                          step.dec.result[i] = BufferCell(d, buf, shift, FLASH_PAGE_SIZE + i)
<1> DEFINE P == FLASH_PAGE_SIZE
           input == d.input \o buf
           block == SubSeq(input, 1, P)
           data == [i \in 1 .. (P - 1) |-> Shifted(block[i + 1], shift)]
           result == d.result \o DecodedBlock(block, shift)
           emit == Len(result) >= P
           held == Len(d.result)
           step == bin2page_decode(d, buf, shift)
<1>1. /\ d.inited = TRUE /\ d.active = TRUE /\ d.errors \in BOOLEAN
      /\ d.input \in Seq(Cells) /\ Len(d.input) = P - 1
      /\ d.result \in Seq(Cells) /\ held \in Nat /\ held < P
      /\ P \in Nat /\ P > 1
  BY LenProperties, PageSize DEF Settled, DecoderState
<1>2. buf \in Seq(Cells) /\ Len(buf) = P
  BY DEF PageBuffer
<1>3. /\ input \in Seq(Cells) /\ Len(input) = 2 * P - 1
      /\ \A i \in 1 .. (2 * P - 1) :
           input[i] = IF i <= P - 1 THEN d.input[i] ELSE buf[i - (P - 1)]
  <2>1. Len(d.input) + Len(buf) = 2 * P - 1
    BY <1>1, <1>2
  <2>2. /\ input \in Seq(Cells) /\ Len(input) = Len(d.input) + Len(buf)
        /\ \A i \in 1 .. (Len(d.input) + Len(buf)) :
             input[i] = IF i <= Len(d.input) THEN d.input[i] ELSE buf[i - Len(d.input)]
    BY <1>1, <1>2, ConcatProperties
  <2> HIDE DEF input
  <2> QED BY <2>1, <2>2, <1>1
<1>4. step = [dec  |-> [inited |-> TRUE, active |-> TRUE,
                        errors |-> d.errors \/ BlockError(block, shift),
                        input  |-> AfterPage(input),
                        result |-> IF emit THEN AfterPage(result) ELSE result],
              page |-> IF emit THEN SubSeq(result, 1, P) ELSE <<>>]
  <2>1. Len(input) >= P
    BY <1>1, <1>3
  <2> HIDE DEF emit
  <2> QED BY <2>1, <1>1 DEF bin2page_decode, emit
<1> HIDE DEF step, P, input
<1>5. /\ Len(AfterPage(input)) = P - 1
      /\ \A i \in 1 .. (P - 1) : AfterPage(input)[i] = buf[i + 1]
  <2>1. Len(AfterPage(input)) = P - 1 /\ Len(input) - P = P - 1
    BY <1>1, <1>3, PageAndRest DEF P
  <2>2. ASSUME NEW i \in 1 .. (P - 1) PROVE AfterPage(input)[i] = buf[i + 1]
    <3>1. AfterPage(input)[i] = input[P + i]
      BY <2>1, <1>3, PageAndRestCells DEF P
    <3>2. P + i \in 1 .. (2 * P - 1) /\ ~(P + i <= P - 1) /\ P + i - (P - 1) = i + 1
      BY <1>1
    <3>3. input[P + i] = buf[P + i - (P - 1)]
      BY <3>2, <1>3, <1>1
    <3> QED BY <3>1, <3>2, <3>3
  <2> QED BY <2>1, <2>2
<1>6. block \in PageBuffer /\ \A i \in 1 .. P : block[i] = input[i]
  <2>1. Len(input) >= P
    BY <1>1, <1>3
  <2> QED BY <2>1, <1>3, PageAndRest, PageAndRestCells DEF P
<1>7. ASSUME NEW i \in 1 .. (P - 1) PROVE data[i] = DataCell(d.input, buf, shift, i)
  <2>1. i + 1 \in 1 .. P /\ i + 1 \in 1 .. (2 * P - 1)
    BY <1>1
  <2>2. block[i + 1] = IF i + 1 <= P - 1 THEN d.input[i + 1] ELSE buf[(i + 1) - (P - 1)]
    BY <2>1, <1>3, <1>6
  <2>3. (i + 1 <= P - 1 <=> i < P - 1) /\ (~(i < P - 1) => (i + 1) - (P - 1) = 1)
    BY <1>1
  <2>4. block[i + 1] = IF i < P - 1 THEN d.input[i + 1] ELSE buf[1]
    BY <2>2, <2>3
  <2> HIDE DEF block
  <2> QED BY <2>4 DEF DataCell, P
<1>8. data \in Seq(Cells) /\ Len(data) = P - 1
  <2>1. \A i \in 1 .. P : block[i] \in Cells
    BY <1>6, ElementOfSeq DEF PageBuffer, P
  <2> HIDE DEF block
  <2>2. data \in [1 .. (P - 1) -> Cells]
    BY <2>1, StreamAssumption, <1>1
  <2> QED BY <2>2, <1>1, IsASeq, LenProperties
<1> HIDE DEF block
<1>9. ASSUME ~BlockError(block, shift)
      PROVE  /\ result \in Seq(Cells) /\ Len(result) = held + (P - 1)
             /\ \A i \in 1 .. (held + (P - 1)) : result[i] = BufferCell(d, buf, shift, i)
  <2>1. DecodedBlock(block, shift) = data
    BY <1>9 DEF BlockError, DecodedBlock, P
  <2> HIDE DEF data
  <2>2. /\ result \in Seq(Cells) /\ Len(result) = held + (P - 1)
        /\ \A i \in 1 .. (held + (P - 1)) :
             result[i] = IF i <= held THEN d.result[i] ELSE data[i - held]
    <3>1. result = d.result \o data
      BY <2>1
    <3>2. /\ d.result \o data \in Seq(Cells) /\ Len(d.result \o data) = held + Len(data)
          /\ \A i \in 1 .. (held + Len(data)) :
               (d.result \o data)[i] = IF i <= held THEN d.result[i] ELSE data[i - held]
      BY <1>1, <1>8, ConcatProperties
    <3> HIDE DEF result, held
    <3> QED BY <3>1, <3>2, <1>8
  <2>3. ASSUME NEW i \in 1 .. (held + (P - 1)), ~(i <= held)
        PROVE  data[i - held] = DataCell(d.input, buf, shift, i - held)
    <3>1. i - held \in 1 .. (P - 1)
      BY <2>3, <1>1
    <3> QED BY <3>1, <1>7
  <2> HIDE DEF result
  <2> QED BY <2>2, <2>3 DEF BufferCell
<1> HIDE DEF result, data
<1>10. ASSUME ~step.dec.errors, held = 0
       PROVE  /\ step.page = <<>> /\ Len(step.dec.result) = P - 1
              /\ \A i \in 1 .. (P - 1) : step.dec.result[i] = BufferCell(d, buf, shift, i)
  <2>1. ~BlockError(block, shift)
    BY <1>10, <1>4
  <2>2. ~emit /\ held + (P - 1) = P - 1
    BY <2>1, <1>9, <1>10, <1>1
  <2> HIDE DEF emit, held
  <2> QED BY <2>1, <2>2, <1>4, <1>9
<1>11. ASSUME ~step.dec.errors, held # 0
       PROVE  /\ held > 0 /\ step.page # <<>> /\ Len(step.dec.result) = held - 1
              /\ \A i \in 1 .. P : step.page[i] = BufferCell(d, buf, shift, i)
              /\ \A i \in 1 .. (held - 1) :
                   step.dec.result[i] = BufferCell(d, buf, shift, P + i)
  <2>1. ~BlockError(block, shift)
    BY <1>11, <1>4
  <2>2. /\ result \in Seq(Cells) /\ Len(result) = held + (P - 1)
        /\ \A i \in 1 .. (held + (P - 1)) : result[i] = BufferCell(d, buf, shift, i)
    BY <2>1, <1>9
  <2>3. emit /\ held > 0
    BY <2>2, <1>11, <1>1
  <2>4. step.page = SubSeq(result, 1, P) /\ step.dec.result = AfterPage(result)
    BY <2>3, <1>4
  <2> HIDE DEF held
  <2>5. /\ SubSeq(result, 1, P) \in PageBuffer
        /\ \A i \in 1 .. P : SubSeq(result, 1, P)[i] = result[i]
    BY <2>2, <2>3, PageAndRest, PageAndRestCells DEF P
  <2>6. SubSeq(result, 1, P) # <<>>
    <3>1. Len(SubSeq(result, 1, P)) # 0
      BY <2>5, <1>1 DEF PageBuffer, P
    <3>2. Len(<<>>) = 0
      BY EmptySeq
    <3> QED BY <3>1, <3>2, Zenon
  <2>7. ASSUME NEW i \in 1 .. P PROVE step.page[i] = BufferCell(d, buf, shift, i)
    <3>1. i \in 1 .. (held + (P - 1))
      BY <2>3, <1>1 DEF held
    <3> QED BY <3>1, <2>2, <2>4, <2>5
  <2>8. Len(AfterPage(result)) = held - 1 /\ Len(result) - P = held - 1
    <3>1. Len(result) = held + (P - 1) /\ Len(result) - P = held - 1 /\ held \in Nat
      BY <2>2, <1>1 DEF held
    <3>2. Len(AfterPage(result)) = IF P < Len(result) THEN Len(result) - P ELSE 0
      BY <2>2, PageAndRest DEF P
    <3> QED BY <3>1, <3>2, <2>3, <1>1
  <2>9. ASSUME NEW i \in 1 .. (held - 1)
        PROVE  step.dec.result[i] = BufferCell(d, buf, shift, P + i)
    <3>1. AfterPage(result)[i] = result[P + i]
      BY <2>2, <2>8, PageAndRestCells DEF P
    <3>2. P + i \in 1 .. (held + (P - 1))
      BY <2>3, <1>1 DEF held
    <3> QED BY <3>1, <3>2, <2>2, <2>4
  <2> QED BY <2>3, <2>4, <2>6, <2>7, <2>8, <2>9
<1>12. /\ step.dec.inited /\ step.dec.active /\ (d.errors => step.dec.errors)
       /\ step.dec.input = AfterPage(input)
  BY <1>4
<1> HIDE DEF held
<1> QED BY <1>5, <1>10, <1>11, <1>12 DEF step, P, held
=============================================================================
