----------------------------- MODULE UpdateFile -----------------------------
(***************************************************************************)
(* The life of an update file: bin2page_encoder makes it of the two        *)
(* variants, a byte of it may be damaged before it reaches the device,     *)
(* and the device takes it in WRITE packets, folds it into                 *)
(* fw_fullbody_crc32, decodes it for the slot it updates, programs what    *)
(* sfu_real_writer lets pass, and at START signs that slot or does not.    *)
(*                                                                         *)
(* SFU.tla has the slots, the sessions, packets out of order and the       *)
(* power; here are the bytes, in a session that is open all the time.      *)
(***************************************************************************)
EXTENDS Bin2Page, CRC32, SequencesExt

CONSTANTS
  Pairs,        \* bytes of the images of A and B
  Sizes,        \* sizes of the images
  Damages,      \* what a damaged byte may turn into
  PacketPages,  \* pages in a WRITE
  SLOT_SIZE,    \* MAIN_END - MAIN_START_FROM
  RUN_OFFSET,   \* MAIN_RUN_FROM - MAIN_START_FROM
  CONTEXT_SIZE, \* bytes of the two words check_run_context looks at
  ContextOk(_, _),  \* check_run_context, of these bytes, for that slot
  MAX_TAKEN     \* bound: bytes folded into fw_fullbody_crc32

\* A byte has no more than eight bits, and an image with its last block fits the slot.
\* Nothing is assumed of the bytes of its vector table.
ASSUME FileAssumption ==
  /\ Pairs \subseteq Byte \X Byte /\ Sizes \subseteq Nat \ {0}
  /\ Damages \subseteq Byte /\ PacketPages \subseteq Nat \ {0}
  /\ BSIZE % 4 = 0 /\ BSIZE <= 256 /\ Len(SIGN) % 4 = 0
  /\ SLOT_SIZE \in Nat /\ SLOT_SIZE % BSIZE = 0
  /\ \A n \in Sizes : n + 2 * BSIZE <= SLOT_SIZE
  /\ RUN_OFFSET \in Nat /\ CONTEXT_SIZE \in Nat
  /\ \A c \in [1 .. CONTEXT_SIZE -> Byte], s \in BOOLEAN : ContextOk(c, s) \in BOOLEAN
  /\ MAX_TAKEN \in Nat

VARIABLES
  pc,
  size, image,  \* of the variants, and as many pairs of their bytes as are read
  blk, res_bin, \* the encoder's block and its output
  file,         \* what the host sends
  slot,         \* main_selector: the slot that is updated
  sent,         \* bytes of the file the device has acknowledged: write_addr
  fw_fullbody_crc32, dec,
  body,         \* what is programmed, up to write_addr_real
  write_error,
  taken,        \* history: the bytes folded into fw_fullbody_crc32
  sign_crc      \* MAIN_CRC of the slot, {} before it is signed

hostVars == <<size, image, blk, res_bin>>
deviceVars == <<sent, fw_fullbody_crc32, dec, body, write_error, taken, sign_crc>>
vars == <<pc, hostVars, file, slot, deviceVars>>

Init ==
  /\ pc = "tables"
  /\ size \in Sizes /\ image = <<>> /\ blk = EmptyBlock /\ res_bin = SIGN
  /\ file = <<>> /\ slot = FALSE
  /\ sent = 0 /\ fw_fullbody_crc32 = UINT32_MAX_WORD /\ dec = bin2page_reset
  /\ body = <<>> /\ write_error = FALSE /\ taken = <<>>
  /\ sign_crc = {}

----------------------------------------------------------------------------
(* The device's tables, and the host's encoder                             *)

\* With a wrong table the device would print for ever.
InitTables ==
  /\ pc = "tables" /\ SelfChecksPass
  /\ pc' = "encode"
  /\ UNCHANGED <<hostVars, file, slot, deviceVars>>

\* One round of the loop.  Behind the images it goes on with 0xFF until the block
\* is full: the encoder stops at the end of a block only.
EncodeByte ==
  /\ pc = "encode"
  /\ \E p \in (IF Len(image) < size THEN Pairs ELSE {<<FF, FF>>}) :
       LET next == Push(blk, p[1], p[2])
       IN  /\ image' = IF Len(image) < size THEN Append(image, p) ELSE image
           /\ IF BlockFull(next)
              THEN /\ res_bin' = res_bin \o Flushed(next)
                   /\ blk' = EmptyBlock
                   /\ pc' = IF Len(image') = size THEN "written" ELSE "encode"
              ELSE /\ blk' = next
                   /\ UNCHANGED <<res_bin, pc>>
  /\ UNCHANGED <<size, file, slot, deviceVars>>

\* The device erases one of its slots, and the host sends its file, one byte of
\* which may be another by then.
Open ==
  /\ pc = "written"
  /\ slot' \in BOOLEAN
  /\ file' \in {res_bin} \union
               {[res_bin EXCEPT ![i] = b] : i \in DOMAIN res_bin, b \in Damages}
  /\ pc' = "receive"
  /\ UNCHANGED <<hostVars, deviceVars>>

----------------------------------------------------------------------------
(* The device                                                              *)

\* Mutant of Folded: every packet begins a CRC of its own.
FoldedAnew(data) == crc32_calc_raw(UINT32_MAX_WORD, data, Len(data) \div 4)

Folded(data) == crc32_calc_raw(fw_fullbody_crc32, data, Len(data) \div 4)

\* The page that begins at this address of the slot goes by the context check, if it
\* has the whole of the context in it, and ends in the slot.
WriterAccepts(addr, page, shift) ==
  /\ addr <= RUN_OFFSET /\ addr + BSIZE >= RUN_OFFSET + CONTEXT_SIZE =>
       ContextOk([i \in 1 .. CONTEXT_SIZE |-> page[RUN_OFFSET - addr + i]], shift)
  /\ addr + BSIZE <= SLOT_SIZE

\* The decoder has gone on to next, and has called sfu_real_writer with the page, if
\* any, that it has given out; s is dec, body and write_error.
sfu_real_writer(s, next) ==
  LET page == SubSeq(next.pages, Len(s.dec.pages) + 1, Len(next.pages))
  IN  IF page = <<>> THEN [s EXCEPT !.dec = next]
      ELSE IF WriterAccepts(Len(s.body), page, slot)
           THEN [s EXCEPT !.dec = next, !.body = s.body \o page]
           ELSE [s EXCEPT !.dec = next, !.write_error = TRUE]

\* The loop of sfu_command_write over the pages of a packet, the last page padded: it
\* is left behind the first page that finds write_error set.
WriteLoop(s, data) ==
  LET pages == (Len(data) + BSIZE - 1) \div BSIZE
      to(i) == IF i * BSIZE <= Len(data) THEN i * BSIZE ELSE Len(data)
      page(i) == Padded(SubSeq(data, (i - 1) * BSIZE + 1, to(i)))
      after[i \in 0 .. pages] ==
        IF i = 0 THEN s
        ELSE IF i > 1 /\ after[i - 1].write_error THEN after[i - 1]
        ELSE sfu_real_writer(after[i - 1], bin2page_decode(after[i - 1].dec, page(i), slot))
  IN  after[pages]

State == [dec |-> dec, body |-> body, write_error |-> write_error]

\* WRITE, of whole pages or of the rest of the file.  The CRC is that of the whole
\* packet, whatever becomes of its pages; behind WRERROR the host may try again.
sfu_command_write ==
  /\ pc = "receive" /\ sent < Len(file)
  /\ \E n \in PacketPages :
       LET to    == IF sent + n * BSIZE < Len(file) THEN sent + n * BSIZE ELSE Len(file)
           data  == SubSeq(file, sent + 1, to)
           after == WriteLoop(State, data)
       IN  /\ Len(taken) + Len(data) <= MAX_TAKEN
           /\ fw_fullbody_crc32' = Folded(data) /\ taken' = taken \o data
           /\ dec' = after.dec /\ body' = after.body /\ write_error' = after.write_error
           /\ sent' = IF write_error' THEN sent ELSE to
  /\ UNCHANGED <<pc, hostVars, file, slot, sign_crc>>

\* Mutant of SlotBody: the CRC ends where the image ends.
WrittenPart(pages) == pages

\* The pages, and the rest of the slot as it was erased.
SlotBody(pages) == pages \o Fill(SLOT_SIZE - Len(pages))

\* Mutant of Accepted: the CRC is not looked at.
AcceptedByDecoder == ~dec.errors

\* The host sends the CRC of the file it has made.
Accepted == ~dec.errors /\ fw_fullbody_crc32 = crc32_calc(res_bin)

\* START, behind the last WRITE or one that has failed.  write_error is not looked at;
\* the signature is of the flash.
sfu_command_start ==
  /\ pc = "receive" /\ (sent = Len(file) \/ write_error)
  /\ LET after == sfu_real_writer(State, bin2page_finish(dec))
     IN  dec' = after.dec /\ body' = after.body
  /\ write_error' = FALSE
  /\ IF Accepted
     THEN pc' = "signed" /\ sign_crc' = crc32_IEEE8023_of(SlotBody(body'))
     ELSE pc' = "refused" /\ UNCHANGED sign_crc
  /\ UNCHANGED <<hostVars, file, slot, sent, fw_fullbody_crc32, taken>>

Next == InitTables \/ EncodeByte \/ Open \/ sfu_command_write \/ sfu_command_start

Spec == Init /\ [][Next]_vars

----------------------------------------------------------------------------
(* Properties *)

(***************************************************************************)
(* The types.  The encoder's output is the signature and whole blocks      *)
(* (main.rs asserts block_len <= 256), its header has room for its count,  *)
(* and the decoder's buffers never hold a whole page between two calls.    *)
(***************************************************************************)
TypeOK ==
  /\ pc \in {"tables", "encode", "written", "receive", "signed", "refused"}
  /\ image \in Seq(Byte \X Byte) /\ Len(image) <= size
  /\ res_bin \in Seq(Byte) /\ (Len(res_bin) - Len(SIGN)) % BSIZE = 0
  /\ file \in Seq(Byte) /\ slot \in BOOLEAN
  /\ sent \in 0 .. Len(file) /\ sent % 4 = 0
  /\ fw_fullbody_crc32 \subseteq Places /\ sign_crc \subseteq Places
  /\ taken \in Seq(Byte) /\ write_error \in BOOLEAN
  /\ body \in Seq(Byte) /\ Len(body) % BSIZE = 0 /\ Len(body) <= SLOT_SIZE
  /\ dec.input \in Seq(Byte) /\ Len(dec.input) < BSIZE
  /\ dec.result \in Seq(Byte) /\ Len(dec.result) < BSIZE
  /\ dec.pages \in Seq(Byte) /\ Len(dec.pages) % BSIZE = 0

Encoded == pc \notin {"tables", "encode"}
Started == pc \in {"signed", "refused"}
Variant(s) == [i \in DOMAIN image |-> IF s THEN image[i][2] ELSE image[i][1]]

(***************************************************************************)
(* "Variant A OK", "Variant B OK": whatever the images are, the decoder    *)
(* tool finds both of them in the encoder's output, with 0xFF behind, and  *)
(* no error.                                                               *)
(***************************************************************************)
BothVariantsDecode ==
  pc = "written" => \A s \in BOOLEAN : LET tool == ToolDecodes(res_bin, s)
                                       IN  /\ ~tool.errors
                                           /\ eq_with_trailing_ff(Variant(s), tool.pages)

FileBlock(i) == SubSeq(file, Len(SIGN) + 1 + BSIZE * i, Len(SIGN) + BSIZE * (i + 1))
BlockNumbers == 0 .. ((Len(file) - Len(SIGN)) \div BSIZE - 1)

(***************************************************************************)
(* Errors are counted for the blocks that break the format, no more and no *)
(* fewer: a count, an offset out of the data, or offsets that do not rise. *)
(* Those of the offsets only slot B's update sees.  (Behind a WRITE that   *)
(* failed the rest of the file does not get to the decoder.)               *)
(***************************************************************************)
MalformedIsCounted ==
  Started /\ dec.active /\ sent = Len(file) =>
    (dec.errors <=> \E i \in BlockNumbers : ~WellFormed(FileBlock(i), slot))

\* What a file of well-formed blocks stands for.
FileMeaning ==
  FlattenSeq([i \in 1 .. ((Len(file) - Len(SIGN)) \div BSIZE) |-> Meaning(FileBlock(i - 1), slot)])

\* Firmware that begins with these bytes has its vector table in order.
Runs(bytes, s) ==
  ContextOk([i \in 1 .. CONTEXT_SIZE |->
               IF RUN_OFFSET + i <= Len(bytes) THEN bytes[RUN_OFFSET + i] ELSE FF], s)

(***************************************************************************)
(* The slot holds what the blocks of the file stand for, read without      *)
(* buffers and indices, and 0xFF behind, of a file that is damaged but     *)
(* well formed as well: no page is lost on the way from the packets to the *)
(* flash, or refused, unless the vector table is out of order or there is  *)
(* too much of it.                                                         *)
(***************************************************************************)
SlotHoldsMeaning ==
  /\ Started /\ dec.active /\ \A i \in BlockNumbers : WellFormed(FileBlock(i), slot)
  /\ Runs(FileMeaning, slot) /\ Len(FileMeaning) <= SLOT_SIZE
  => eq_with_trailing_ff(FileMeaning, body)

(***************************************************************************)
(* A device that was given its file once signs it only if it is the one    *)
(* the encoder has made: a damaged byte is always noticed, in padding and  *)
(* patches of the other variant as well.  And the one sound file it does   *)
(* not sign is that of an image with its vector table out of order.        *)
(***************************************************************************)
SignedIffUnharmed ==
  /\ pc = "signed" /\ taken = file => file = res_bin
  /\ pc = "refused" /\ file = res_bin => ~Runs(Variant(slot), slot)

(***************************************************************************)
(* fw_fullbody_crc32, taken from the table and packet after packet, is the *)
(* remainder of the bytes of all packets so far, bit after bit, those of a *)
(* packet that was answered with WRERROR included.                         *)
(***************************************************************************)
CrcOfWhatWasTaken == fw_fullbody_crc32 = SerialStm(taken)

(***************************************************************************)
(* The signature of the slot is the CRC-32 of IEEE 802.3 of the image the  *)
(* encoder was given and the erased rest, computed bit after bit.  The     *)
(* vector table is in the condition because START does not look at         *)
(* write_error: a file of one packet is signed with pages missing (SFU.tla *)
(* has that as SignedOnlyWhole).                                           *)
(***************************************************************************)
SignatureIsOfImage ==
  pc = "signed" /\ taken = file /\ Runs(Variant(slot), slot) =>
    sign_crc = SerialIeee(Variant(slot) \o Fill(SLOT_SIZE - Len(image)))

(***************************************************************************)
(* README, BIN2Page decoder safety: on structural errors "the decoder      *)
(* stops applying patches and instead emits the original 256-byte block    *)
(* unchanged".                                                             *)
(***************************************************************************)
BadBlockIsUnchanged ==
  Started /\ dec.active =>
    \A i \in BlockNumbers :
      ~WellFormed(FileBlock(i), slot) => DecodedBlock(FileBlock(i), slot).bytes = FileBlock(i)
=============================================================================
