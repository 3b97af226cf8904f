----------------------------- MODULE SFU_proofs -----------------------------
(***************************************************************************)
(* Theorems about SFU.tla, for every board, file and size that satisfies   *)
(* the assumptions: its safety, and behind it that the bootloader          *)
(* implements the store of SlotStore, with what follows for the slot that  *)
(* was chosen and for the one that will be.                                *)
(***************************************************************************)
EXTENDS SFUStore, Bin2PageStream_proofs

----------------------------------------------------------------------------
(* The flash map *)

\* The sizes are natural numbers, and a body holds at least one page.
LEMMA LayoutTypes ==
  /\ FLASH_BASE \in Nat /\ BOOTLOADER_SIZE \in Nat /\ SLOT_STRIDE \in Nat
  /\ FLASH_SIZE \in Nat /\ RUN_OFFSET \in Nat
  /\ FLASH_BLOCK_SIZE \in Nat /\ FLASH_BLOCK_SIZE > 0
  /\ FLASH_SECTOR_SIZE \in Nat /\ FLASH_SECTOR_SIZE > 0
  /\ FLASH_PAGE_SIZE \in Nat /\ FLASH_PAGE_SIZE > 1
  /\ CONTEXT_SIZE \in Nat /\ CONTEXT_SIZE > 0
  /\ BOOTLOADER_TO \in Nat /\ FLASH_SIZE_CORRECT \in Nat /\ FLASH_SIZE_CORRECT > 0
  /\ \A sel \in BOOLEAN : MAIN_START_FROM(sel) \in Nat /\ MAIN_END(sel) \in Nat
BY Layout, StreamAssumption
   DEF LayoutAssumption, BOOTLOADER_TO, FLASH_SIZE_CORRECT, MAIN_START_FROM, MAIN_END

\* The bodies of the slots are flash cells, and no cell of one is in a signature
\* or in the other.
LEMMA SlotsApart ==
  /\ \A sel \in BOOLEAN : Body(sel) \subseteq FlashAddr
  /\ \A sel \in BOOLEAN, s \in BOOLEAN : Body(sel) \cap SignSector(s) = {}
  /\ Body(SELECTOR_A) \cap Body(SELECTOR_B) = {}
  /\ SignSector(SELECTOR_A) \cap SignSector(SELECTOR_B) = {}
  /\ FlashAddr \cap SignSector(SELECTOR_B) = {}
  /\ FlashAddr \cap SignSector(SELECTOR_A) = {}
  /\ NV_PARAM_BLOCK \in FlashAddr
  /\ \A sel \in BOOLEAN : NV_PARAM_BLOCK \notin Body(sel)
  /\ \A sel \in BOOLEAN : MAIN_RUN_FROM(sel) \in Body(sel)
BY Layout, StreamAssumption
   DEF LayoutAssumption, BOOTLOADER_TO, FLASH_SIZE_CORRECT, MAIN_START_FROM, MAIN_END,
       MAIN_RUN_FROM, Body, SignSector, FlashAddr, NV_PARAM_BLOCK, SELECTOR_A, SELECTOR_B

\* A slot and its signature are a whole number of erase blocks.
LEMMA BlocksInSlot ==
  ASSUME NEW k \in Nat, k * FLASH_BLOCK_SIZE < FLASH_SIZE_CORRECT
  PROVE  k * FLASH_BLOCK_SIZE + FLASH_BLOCK_SIZE <= FLASH_SIZE_CORRECT + FLASH_SECTOR_SIZE
<1> DEFINE B == FLASH_BLOCK_SIZE
<1>1. PICK n \in 1 .. FLASH_SIZE : FLASH_SIZE - BOOTLOADER_SIZE = n * B
  BY Layout DEF LayoutAssumption
<1>2. B \in Nat /\ B > 0 /\ n \in Nat
  BY LayoutTypes, <1>1
<1>3. k * B < n * B
  BY <1>1, LayoutTypes DEF FLASH_SIZE_CORRECT
<1> HIDE DEF B
<1>4. k < n
  <2> SUFFICES ASSUME n <= k PROVE FALSE
    BY <1>2
  <2>1. PICK d \in Nat : k = n + d
    <3>1. k - n \in Nat /\ k = n + (k - n)
      BY <1>2
    <3> QED BY <3>1
  <2>2. k * B = n * B + d * B
    BY <2>1, <1>2
  <2>3. d * B \in Nat /\ n * B \in Nat
    BY <2>1, <1>2
  <2> QED BY <2>2, <2>3, <1>3
<1>5. PICK e \in Nat : n = (k + 1) + e
  <2>1. n - (k + 1) \in Nat /\ n = (k + 1) + (n - (k + 1))
    BY <1>2, <1>4
  <2> QED BY <2>1
<1>6. n * B = k * B + B + e * B
  BY <1>5, <1>2
<1>7. e * B \in Nat /\ k * B \in Nat
  BY <1>5, <1>2
<1>8. k * B + B <= n * B
  BY <1>6, <1>7, <1>2
<1> QED BY <1>8, <1>1, LayoutTypes DEF FLASH_SIZE_CORRECT, B

\* What one step of the erase loop erases is the selected slot, its signature's
\* sector included.
LEMMA EraseStaysInSlot ==
  ASSUME NEW sel \in BOOLEAN, NEW k \in Nat, k * FLASH_BLOCK_SIZE < FLASH_SIZE_CORRECT
  PROVE  /\ EraseRange(sel, k * FLASH_BLOCK_SIZE) \cap FlashAddr \subseteq Body(sel)
         /\ \A s \in BOOLEAN : s # sel =>
              EraseRange(sel, k * FLASH_BLOCK_SIZE) \cap SignSector(s) = {}
<1> DEFINE p == k * FLASH_BLOCK_SIZE
<1>1. p \in Nat /\ p + FLASH_BLOCK_SIZE <= FLASH_SIZE_CORRECT + FLASH_SECTOR_SIZE
  BY BlocksInSlot, LayoutTypes
<1> HIDE DEF p
<1>2. EraseRange(sel, p) \subseteq Body(sel) \union SignSector(sel)
  BY <1>1, LayoutTypes DEF EraseRange, Body, SignSector, MAIN_END
<1>3. \A s \in BOOLEAN : s # sel => (Body(sel) \union SignSector(sel)) \cap SignSector(s) = {}
  BY SlotsApart DEF SELECTOR_A, SELECTOR_B
<1>4. SignSector(sel) \cap FlashAddr = {}
  BY SlotsApart DEF SELECTOR_A, SELECTOR_B
<1> QED BY <1>2, <1>3, <1>4 DEF p

----------------------------------------------------------------------------
(* What flash and signatures hold *)

\* The time stamp of an erased signature is the largest there is.
LEMMA SignatureTypes ==
  /\ UINT32_MAX \in Nat /\ UINT32_MAX > 0
  /\ ERASED_SIGN \in Signature /\ ERASED_SIGN.ts = UINT32_MAX
BY CoreAssumption DEF ERASED_SIGN, Signature

\* The CRC of a slot is that of its body.
LEMMA CrcType ==
  ASSUME flash \in [FlashAddr -> Cells], NEW sel \in BOOLEAN
  PROVE  crc32_IEEE8023(sel) \in BodyImage
<1> SUFFICES ASSUME NEW i \in 0 .. (FLASH_SIZE_CORRECT - 1)
             PROVE  flash[MAIN_START_FROM(sel) + i] \in Cells
  BY DEF crc32_IEEE8023, BodyImage
<1>1. MAIN_START_FROM(sel) + i \in Body(sel)
  BY LayoutTypes DEF Body, MAIN_END
<1> QED BY <1>1, SlotsApart

\* The signature add_sign_crc programs is one.
LEMMA NewSignatureType ==
  ASSUME TypeOK
  PROVE  NewSignature \in Signature /\ NewSignature.ts \in 0 .. UINT32_MAX
<1>1. crc32_IEEE8023(main_selector) \in BodyImage
  BY CrcType DEF TypeOK
<1>2. max_time_stamp + 1 \in 0 .. UINT32_MAX
  BY SignatureTypes DEF TypeOK
<1> HIDE DEF BodyImage
<1> QED BY <1>1, <1>2 DEF NewSignature, Signature

\* Both ways of writing a signature leave signatures.
LEMMA SignTypes ==
  ASSUME TypeOK
  PROVE  erase_sign_block \in [BOOLEAN -> Signature] /\ Signed \in [BOOLEAN -> Signature]
<1> USE SignatureTypes, NewSignatureType
<1> HIDE DEF Signature
<1> QED BY DEF erase_sign_block, Signed, TypeOK

\* Programming a page leaves cells of the flash.
LEMMA ProgrammedType ==
  ASSUME flash \in [FlashAddr -> Cells], NEW addr \in Nat, NEW page \in PageBuffer
  PROVE  Programmed(addr, page) \in [FlashAddr -> Cells]
<1>1. \A old \in Cells, new \in Cells : ProgramCell(old, new) \in Cells
  BY CoreAssumption DEF ProgramCell
<1>2. \A i \in 1 .. FLASH_PAGE_SIZE : page[i] \in Cells
  BY ElementOfSeq DEF PageBuffer
<1>3. ASSUME NEW a \in PageRange(addr) PROVE page[a - addr + 1] \in Cells
  <2>1. a - addr + 1 \in 1 .. FLASH_PAGE_SIZE
    BY PageSize DEF PageRange
  <2> QED BY <2>1, <1>2
<1> HIDE DEF ProgramCell
<1> QED BY <1>1, <1>3 DEF Programmed

\* The decoder of a typed state is settled, and stays so through WRITE and START.
LEMMA DecoderSteps ==
  ASSUME TypeOK
  PROVE  /\ Settled(dec)
         /\ Settled(WriteStep.dec) /\ WriteStep.page \in PageBuffer \union {<<>>}
         /\ Settled(FlushStep.dec) /\ FlushStep.page \in PageBuffer \union {<<>>}
<1>1. Settled(dec) /\ body \in Seq(Cells) /\ main_selector \in BOOLEAN
  BY DEF TypeOK, Settled
<1>2. Padded(body) \in PageBuffer
  BY <1>1, PaddedIsPage
<1> QED BY <1>1, <1>2, DecodeStaysSettled, FinishStaysSettled DEF WriteStep, FlushStep

\* Two writes of sfu_real_writer: what it leaves in flash are cells.
LEMMA WriterTypes ==
  ASSUME TypeOK, NEW page \in PageBuffer \union {<<>>}, sfu_real_writer(page)
  PROVE  flash' \in [FlashAddr -> Cells]
<1>1. CASE Written(page)
  <2>1. page \in PageBuffer /\ flash' = Programmed(write_addr_real, page)
    BY <1>1 DEF Written, sfu_real_writer
  <2> QED BY <2>1, ProgrammedType DEF TypeOK
<1>2. CASE ~Written(page)
  BY <1>2 DEF sfu_real_writer, TypeOK
<1> QED BY <1>1, <1>2

\* What a power failure may leave in the flash ...
LEMMA FlashLeftTypes ==
  ASSUME TypeOK, NEW left \in FlashLeft
  PROVE  left \in [FlashAddr -> Cells]
<1>1. \A range : TornErase(range) \in [FlashAddr -> Cells]
  BY CoreAssumption DEF TornErase, TypeOK
<1>2. ASSUME NEW page \in PageBuffer, NEW torn \in TornProgram(write_addr_real, page)
      PROVE  torn \in [FlashAddr -> Cells]
  <2>1. \A old \in Cells, new \in Cells : ProgramCell(old, new) \in Cells
    BY CoreAssumption DEF ProgramCell
  <2>2. \A i \in 1 .. FLASH_PAGE_SIZE : page[i] \in Cells
    BY ElementOfSeq DEF PageBuffer
  <2>3. ASSUME NEW a \in PageRange(write_addr_real)
        PROVE  page[a - write_addr_real + 1] \in Cells
    <3>1. a - write_addr_real + 1 \in 1 .. FLASH_PAGE_SIZE
      BY PageSize DEF PageRange, TypeOK
    <3> QED BY <3>1, <2>2
  <2>4. JUNK \in Cells /\ flash \in [FlashAddr -> Cells]
    BY CoreAssumption DEF TypeOK
  <2> HIDE DEF ProgramCell, PageRange
  <2> QED BY <2>1, <2>3, <2>4 DEF TornProgram
<1>3. CASE left = flash
  BY <1>3 DEF TypeOK
<1>4. CASE \E range : left = TornErase(range)
  BY <1>4, <1>1
<1>5. CASE \E page \in PageBuffer : left \in TornProgram(write_addr_real, page)
  BY <1>5, <1>2
<1>6. /\ Written(WriteStep.page) => WriteStep.page \in PageBuffer
      /\ Written(FlushStep.page) => FlushStep.page \in PageBuffer
  BY DecoderSteps DEF Written
<1>7. \/ left = flash
      \/ left = TornErase(EraseRange(main_selector, pos))
      \/ Written(WriteStep.page) /\ left \in TornProgram(write_addr_real, WriteStep.page)
      \/ Written(FlushStep.page) /\ left \in TornProgram(write_addr_real, FlushStep.page)
  BY Zenon DEF FlashLeft
<1> QED BY <1>3, <1>4, <1>5, <1>6, <1>7

\* ... and in the signatures.
LEMMA SignLeftTypes ==
  ASSUME TypeOK, NEW left \in SignLeft
  PROVE  left \in [BOOLEAN -> Signature]
<1>1. ASSUME NEW torn \in TornSignErase PROVE torn \in [BOOLEAN -> Signature]
  <2>1. PICK c \in {sign[main_selector].crc, TORN_CRC}, t \in 0 .. UINT32_MAX :
          torn = [sign EXCEPT ![main_selector] = [crc |-> c, ts |-> t]]
    BY DEF TornSignErase
  <2>2. c \in BodyImage \union {NO_CRC, TORN_CRC}
    BY <2>1 DEF TypeOK, Signature
  <2> HIDE DEF BodyImage
  <2>3. [crc |-> c, ts |-> t] \in Signature
    BY <2>2 DEF Signature
  <2> HIDE DEF Signature
  <2> QED BY <2>1, <2>3 DEF TypeOK
<1>2. ASSUME NEW torn \in TornSign PROVE torn \in [BOOLEAN -> Signature]
  <2>1. PICK c \in {TORN_CRC, NewSignature.crc}, t \in NewSignature.ts .. UINT32_MAX :
          torn = [sign EXCEPT ![main_selector] = [crc |-> c, ts |-> t]]
    BY DEF TornSign
  <2>2. /\ c \in BodyImage \union {NO_CRC, TORN_CRC}
        /\ t \in 0 .. UINT32_MAX
    BY NewSignatureType, SignatureTypes DEF Signature
  <2> HIDE DEF BodyImage
  <2>3. [crc |-> c, ts |-> t] \in Signature
    BY <2>2 DEF Signature
  <2> HIDE DEF Signature
  <2> QED BY <2>1, <2>3 DEF TypeOK
<1>3. left = sign \/ left \in TornSignErase \/ left \in TornSign
  BY Zenon DEF SignLeft
<1> QED BY <1>1, <1>2, <1>3 DEF TypeOK

----------------------------------------------------------------------------
(* Type correctness *)

\* Every board is switched on in a typed state.
LEMMA InitTypeOK == Init => TypeOK
<1> SUFFICES ASSUME Init PROVE TypeOK
  OBVIOUS
<1>1. Settled(dec)
  BY ResetIsSettled DEF Init
<1>2. <<>> \in Seq(Cells)
  BY EmptySeq
<1>3. flash \in [FlashAddr -> Cells] /\ sign \in [BOOLEAN -> Signature]
  BY CoreAssumption DEF Init
<1>4. BAUD_RATE_DEFAULT \in Bauds /\ 0 \in 0 .. (UINT32_MAX - 1)
  BY CoreAssumption, SignatureTypes
<1>5. NoSession \in [file : Seq(Cells), legal : BOOLEAN, clean : BOOLEAN, scanned : BOOLEAN]
  BY <1>2 DEF NoSession
<1> QED BY <1>1, <1>2, <1>3, <1>4, <1>5
       DEF Init, TypeOK, Settled, SELECTOR_A, ProgramPoints

\* So does every step, a power failure in it included.
LEMMA NextTypeOK == TypeOK /\ [Next]_vars => TypeOK'
<1> SUFFICES ASSUME TypeOK, [Next]_vars PROVE TypeOK'
  OBVIOUS
<1>e. <<>> \in Seq(Cells)
  BY EmptySeq
<1>a. \A sel \in BOOLEAN : MAIN_START_FROM(sel) \in Nat
  BY LayoutTypes
<1>b. BAUD_RATE_DEFAULT \in Bauds /\ 0 \in 0 .. (UINT32_MAX - 1)
  BY CoreAssumption, SignatureTypes
<1> USE DEF SELECTOR_A, SELECTOR_B, ProgramPoints
<1>1. CASE Scan
  <2>1. variant' \in BOOLEAN /\ main_valid' \in BOOLEAN /\ main_selector' \in BOOLEAN
    BY <1>1 DEF Scan, find_latest_variant, FirstChoice, Found, Stamped, TypeOK
  <2>2. max_time_stamp' \in 0 .. (UINT32_MAX - 1)
    <3>1. FirstChoice \in BOOLEAN
      BY DEF FirstChoice, Stamped
    <3>2. sign[FirstChoice].ts \in 0 .. UINT32_MAX
      BY <3>1 DEF TypeOK, Signature
    <3> HIDE DEF FirstChoice
    <3> QED BY <1>1, <3>2, SignatureTypes DEF Scan, find_latest_variant, Stamped
  <2>3. session' \in [file : Seq(Cells), legal : BOOLEAN, clean : BOOLEAN, scanned : BOOLEAN]
    BY <1>1 DEF Scan, find_latest_variant, TypeOK
  <2> QED BY <1>1, <2>1, <2>2, <2>3
         DEF Scan, AfterFind, InWait, TypeOK, flashVars, addrVars, localVars
<1>2. CASE FirstStart
  BY <1>2, CoreAssumption
     DEF FirstStart, TypeOK, mainVars, addrVars, localVars
<1>3. CASE FirstStartEraseB
  BY <1>3, SignTypes DEF FirstStartEraseB, TypeOK, mainVars, addrVars, localVars
<1>4. CASE FirstStartEraseA
  BY <1>4, SignTypes DEF FirstStartEraseA, AfterFind, TypeOK, addrVars, localVars
<1>5. CASE FirstStartSign
  BY <1>5, SignTypes DEF FirstStartSign, AfterFind, TypeOK, addrVars, localVars
<1>6. CASE EraseSign
  BY <1>6, SignTypes DEF EraseSign, TypeOK, mainVars, addrVars
<1>7. CASE EraseBlock
  <2>1. flash' \in [FlashAddr -> Cells]
    BY <1>7, StreamAssumption DEF EraseBlock, BlockErased, TypeOK
  <2>2. sign' \in [BOOLEAN -> Signature]
    <3> HIDE DEF Signature
    <3> QED BY <1>7, SignatureTypes DEF EraseBlock, SignsErased, TypeOK
  <2>3. pos' \in Nat
    BY <1>7, LayoutTypes DEF EraseBlock, TypeOK
  <2> QED BY <1>7, <2>1, <2>2, <2>3 DEF EraseBlock, TypeOK, mainVars, addrVars
<1>8. CASE OpenSession
  BY <1>8, <1>a DEF OpenSession, TypeOK, mainVars, flashVars
<1>9. CASE WritePage
  <2>1. /\ Settled(WriteStep.dec)
        /\ WriteStep.page \in PageBuffer \union {<<>>}
    BY DecoderSteps
  <2>2. flash' \in [FlashAddr -> Cells]
    BY <1>9, <2>1, WriterTypes DEF WritePage
  <2>3. body' \in Seq(Cells)
    BY <1>9, <1>e, PageAndRest DEF WritePage, TypeOK
  <2>4. write_addr_real' \in Nat
    BY <1>9, LayoutTypes DEF WritePage, TypeOK
  <2>5. dec' \in DecoderState /\ Len(dec'.input) < FLASH_PAGE_SIZE
                              /\ Len(dec'.result) < FLASH_PAGE_SIZE
    BY <1>9, <2>1 DEF WritePage, Settled
  <2>6. write_error' \in BOOLEAN
    BY <1>9 DEF WritePage, TypeOK, Refused, WriterAccepts
  <2> QED BY <1>9, <2>2, <2>3, <2>4, <2>5, <2>6 DEF WritePage, TypeOK, mainVars
<1>10. CASE WriteDone
  BY <1>10 DEF WriteDone, TypeOK, mainVars, flashVars
<1>11. CASE StartFlush
  <2>1. /\ Settled(FlushStep.dec)
        /\ FlushStep.page \in PageBuffer \union {<<>>}
    BY DecoderSteps
  <2>2. flash' \in [FlashAddr -> Cells]
    BY <1>11, <2>1, WriterTypes DEF StartFlush
  <2>3. dec' \in DecoderState /\ Len(dec'.input) < FLASH_PAGE_SIZE
                              /\ Len(dec'.result) < FLASH_PAGE_SIZE
    BY <1>11, <2>1 DEF StartFlush, Settled
  <2>4. session' \in [file : Seq(Cells), legal : BOOLEAN, clean : BOOLEAN, scanned : BOOLEAN]
    BY <1>11 DEF StartFlush, TypeOK, Refused, WriterAccepts
  <2> QED BY <1>11, <1>e, <2>2, <2>3, <2>4 DEF StartFlush, CloseSession, TypeOK, mainVars
<1>12. CASE SignErase
  BY <1>12, SignTypes DEF SignErase, TypeOK, mainVars, addrVars, localVars
<1>13. CASE SignProgram
  BY <1>13, SignTypes DEF SignProgram, TypeOK, mainVars, addrVars, localVars
<1>14. CASE DrainDone
  BY <1>14 DEF DrainDone, TypeOK, flashVars, mainVars, addrVars, localVars
<1>15. CASE LeaveLoop
  BY <1>15 DEF LeaveLoop, TypeOK, flashVars, mainVars, addrVars, localVars
<1>16. CASE main_start
  BY <1>16 DEF main_start, TypeOK, flashVars, addrVars, localVars
<1>17. CASE Timeout
  <2>1. /\ write_addr' \in Nat /\ write_addr_real' \in Nat /\ write_error' \in BOOLEAN
        /\ main_update_started' \in BOOLEAN /\ baud' \in Bauds
    <3>1. CASE write_addr = 0
      BY <1>17, <3>1 DEF Timeout, TypeOK, addrVars
    <3>2. CASE write_addr # 0
      <4>1. CloseSession /\ baud' = BAUD_RATE_DEFAULT
        BY <1>17, <3>2 DEF Timeout
      <4> QED BY <4>1, <1>b DEF CloseSession
    <3> QED BY <3>1, <3>2
  <2>2. stat_error_timeout' \in Nat
    BY <1>17 DEF Timeout, TypeOK
  <2> QED BY <1>17, <2>1, <2>2 DEF Timeout, TypeOK, flashVars, localVars
<1>18. CASE sfu_command_speed
  BY <1>18 DEF sfu_command_speed, TypeOK, flashVars, mainVars, addrVars, localVars
<1>19. CASE sfu_command_erase
  <2>1. Settled(dec')
    BY <1>19, ResetIsSettled DEF sfu_command_erase
  <2>2. firmware_size' \in Nat
    BY <1>19, CoreAssumption DEF sfu_command_erase
  <2>3. session' \in [file : Seq(Cells), legal : BOOLEAN, clean : BOOLEAN, scanned : BOOLEAN]
    BY <1>19, <1>e DEF sfu_command_erase, TypeOK
  <2> QED BY <1>19, <1>e, <2>1, <2>2, <2>3
         DEF sfu_command_erase, UpdateTarget, Settled, TypeOK, flashVars, mainVars, addrVars
<1>20. CASE sfu_command_write
  <2>1. PICK file \in HostFiles : \E w \in HostWrites(file) :
          /\ body' = SubSeq(file, w[1] + 1, w[1] + w[2])
          /\ fw_fullbody_crc32' = fw_fullbody_crc32 \o SubSeq(file, w[1] + 1, w[1] + w[2])
          /\ pos' = w[2] /\ session' = [session EXCEPT !.file = file]
    BY <1>20 DEF sfu_command_write
  <2>w. PICK w \in HostWrites(file) :
          /\ body' = SubSeq(file, w[1] + 1, w[1] + w[2])
          /\ fw_fullbody_crc32' = fw_fullbody_crc32 \o SubSeq(file, w[1] + 1, w[1] + w[2])
          /\ pos' = w[2] /\ session' = [session EXCEPT !.file = file]
    BY <2>1
  <2>2. file \in Seq(Cells)
    BY CoreAssumption DEF HostFiles, TypeOK
  <2>3. w[1] \in Nat /\ w[2] \in Nat /\ w[1] + w[2] <= Len(file) /\ Len(file) \in Nat
    BY <2>2, LenProperties DEF HostWrites
  <2>4. SubSeq(file, w[1] + 1, w[1] + w[2]) \in Seq(Cells)
    <3>1. \A i \in (w[1] + 1) .. (w[1] + w[2]) : file[i] \in Cells
      BY <2>2, <2>3, ElementOfSeq
    <3> QED BY <3>1, <2>3, SubSeqProperties
  <2>5. fw_fullbody_crc32' \in Seq(Cells) /\ body' \in Seq(Cells)
    BY <2>w, <2>4, ConcatProperties DEF TypeOK
  <2>6. session' \in [file : Seq(Cells), legal : BOOLEAN, clean : BOOLEAN, scanned : BOOLEAN]
    BY <2>w, <2>2 DEF TypeOK
  <2> QED BY <1>20, <2>w, <2>3, <2>5, <2>6
         DEF sfu_command_write, TypeOK, flashVars, mainVars, addrVars
<1>21. CASE sfu_command_start
  <2>1. <<JUNK>> \in Seq(Cells) /\ <<>> \in Seq(Cells)
    BY CoreAssumption, EmptySeq
  <2>2. session' \in [file : Seq(Cells), legal : BOOLEAN, clean : BOOLEAN, scanned : BOOLEAN]
    BY <1>21 DEF sfu_command_start, TypeOK
  <2>3. body' \in Seq(Cells)
    BY <1>21, <2>1 DEF sfu_command_start, TypeOK
  <2> QED BY <1>21, <2>2, <2>3
         DEF sfu_command_start, TypeOK, flashVars, mainVars, addrVars
<1>22. CASE PowerLoss
  <2>1. flash' \in [FlashAddr -> Cells] /\ sign' \in [BOOLEAN -> Signature]
    BY <1>22, FlashLeftTypes, SignLeftTypes DEF PowerLoss
  <2>2. Settled(dec')
    BY <1>22, ResetIsSettled DEF PowerLoss
  <2>3. session' \in [file : Seq(Cells), legal : BOOLEAN, clean : BOOLEAN, scanned : BOOLEAN]
    BY <1>22, <1>e DEF PowerLoss, NoSession
  <2> QED BY <1>22, <1>b, <1>e, <2>1, <2>2, <2>3 DEF PowerLoss, Settled, TypeOK
<1>23. CASE UNCHANGED vars
  BY <1>23 DEF vars, TypeOK, flashVars, mainVars, addrVars, localVars
<1> QED
  BY <1>1, <1>2, <1>3, <1>4, <1>5, <1>6, <1>7, <1>8, <1>9, <1>10, <1>11, <1>12, <1>13,
     <1>14, <1>15, <1>16, <1>17, <1>18, <1>19, <1>20, <1>21, <1>22, <1>23
     DEF Next, Device, HostPacket

(***************************************************************************)
(* Every reachable state of the update core is typed.  Most of it is what  *)
(* C's types say; what the code must work for is that the decoder's        *)
(* buffers never run over between two calls, and that add_sign_crc's time  *)
(* stamp never wraps.                                                      *)
(***************************************************************************)
THEOREM TypeCorrect == Spec => []TypeOK
BY InitTypeOK, NextTypeOK, PTL DEF Spec

----------------------------------------------------------------------------
(* The slot of the open session *)

(***************************************************************************)
(* The inductive invariant behind the theorems of this section.  That a    *)
(* session stays in its slot is not inductive by itself: it needs that the *)
(* erase loop stands on a block of the slot, that a scan and a signing     *)
(* only happen with no session open, and that a signature is programmed    *)
(* over an erased one.                                                     *)
(***************************************************************************)
SessionInv ==
  /\ SessionInSlot
  /\ Erasing => firmware_size <= FLASH_SIZE_CORRECT
  /\ pc = "erase_blocks" =>
       /\ sign[main_selector] = ERASED_SIGN
       /\ \E k \in 0 .. pos : pos = k * FLASH_BLOCK_SIZE
  /\ pc \in {"find", "fs_erase_b", "fs_erase_a", "fs_sign", "sign_erase", "sign"} =>
       ~main_update_started
  /\ pc \in {"fs_sign", "sign"} => sign[main_selector] = ERASED_SIGN

\* A page the writer accepts lies in the body of an unsigned slot.
LEMMA WriterInSlot ==
  ASSUME TypeOK, SessionInSlot, ~Erasing, NEW page, Written(page)
  PROVE  /\ main_update_started /\ sign[main_selector] = ERASED_SIGN
         /\ PageRange(write_addr_real) \subseteq Body(main_selector)
         /\ write_addr_real + FLASH_PAGE_SIZE
              \in MAIN_START_FROM(main_selector) .. MAIN_END(main_selector)
<1>1. /\ main_update_started
      /\ write_addr_real + FLASH_PAGE_SIZE <= MAIN_END(main_selector)
  BY DEF Written, WriterAccepts
<1>2. /\ sign[main_selector] = ERASED_SIGN
      /\ write_addr_real \in MAIN_START_FROM(main_selector) .. MAIN_END(main_selector)
  BY <1>1 DEF SessionInSlot
<1>3. /\ MAIN_START_FROM(main_selector) \in Nat /\ MAIN_END(main_selector) \in Nat
  BY LayoutTypes DEF TypeOK
<1> QED BY <1>1, <1>2, <1>3, PageSize DEF PageRange, Body

\* What the erase loop erases next is in the selected slot.
LEMMA EraseInSlot ==
  ASSUME TypeOK, SessionInv, pc = "erase_blocks", pos < firmware_size
  PROVE  /\ EraseRange(main_selector, pos) \cap FlashAddr \subseteq Body(main_selector)
         /\ \A s \in BOOLEAN : s # main_selector =>
              EraseRange(main_selector, pos) \cap SignSector(s) = {}
         /\ sign[main_selector] = ERASED_SIGN
<1>1. pos \in Nat /\ firmware_size \in Nat /\ main_selector \in BOOLEAN
  BY DEF TypeOK
<1>2. firmware_size <= FLASH_SIZE_CORRECT /\ sign[main_selector] = ERASED_SIGN
  BY DEF SessionInv, Erasing
<1>3. PICK k \in 0 .. pos : pos = k * FLASH_BLOCK_SIZE
  BY DEF SessionInv
<1>4. k \in Nat /\ k * FLASH_BLOCK_SIZE < FLASH_SIZE_CORRECT
  BY <1>1, <1>2, <1>3, LayoutTypes
<1> QED BY <1>1, <1>2, <1>3, <1>4, EraseStaysInSlot

\* Where a power failure may have changed the flash ...
LEMMA FlashLossInSlot ==
  ASSUME TypeOK, SessionInv, NEW left \in FlashLeft,
         NEW a \in FlashAddr, left[a] # flash[a]
  PROVE  a \in Body(main_selector) /\ sign[main_selector] = ERASED_SIGN
<1>1. \/ left = flash
      \/ /\ pc = "erase_blocks" /\ pos < firmware_size
         /\ left = TornErase(EraseRange(main_selector, pos))
      \/ /\ pc = "write" /\ Written(WriteStep.page)
         /\ left \in TornProgram(write_addr_real, WriteStep.page)
      \/ /\ pc = "start" /\ Written(FlushStep.page)
         /\ left \in TornProgram(write_addr_real, FlushStep.page)
  BY Zenon DEF FlashLeft
<1>2. CASE /\ pc = "erase_blocks" /\ pos < firmware_size
           /\ left = TornErase(EraseRange(main_selector, pos))
  <2>1. a \in EraseRange(main_selector, pos)
    BY <1>2 DEF TornErase
  <2> QED BY <1>2, <2>1, EraseInSlot
<1>3. ASSUME NEW page, Written(page), pc \in {"write", "start"},
             left \in TornProgram(write_addr_real, page)
      PROVE  a \in Body(main_selector) /\ sign[main_selector] = ERASED_SIGN
  <2>1. a \in PageRange(write_addr_real)
    BY <1>3 DEF TornProgram
  <2>2. ~Erasing /\ SessionInSlot
    BY <1>3 DEF Erasing, SessionInv
  <2> QED BY <1>3, <2>1, <2>2, WriterInSlot
<1> QED BY <1>1, <1>2, <1>3

\* ... and the signatures.
LEMMA SignLossInSlot ==
  ASSUME TypeOK, SessionInv, NEW left \in SignLeft,
         NEW s \in BOOLEAN, left[s] # sign[s]
  PROVE  /\ s = main_selector
         /\ \/ sign[s] = ERASED_SIGN
            \/ pc \in {"fs_erase_b", "fs_erase_a", "erase_sign", "sign_erase"}
<1>1. \/ left = sign
      \/ /\ pc \in {"fs_erase_b", "fs_erase_a", "erase_sign", "sign_erase"}
         /\ left \in TornSignErase
      \/ pc \in {"fs_sign", "sign"} /\ left \in TornSign
      \/ pc = "erase_blocks" /\ left \in TornSignErase
  BY Zenon DEF SignLeft
<1>2. left \in TornSignErase \union TornSign => s = main_selector
  BY DEF TornSignErase, TornSign, TypeOK
<1>3. pc \in {"fs_sign", "sign", "erase_blocks"} => sign[main_selector] = ERASED_SIGN
  BY DEF SessionInv
<1> QED BY <1>1, <1>2, <1>3

\* sfu_real_writer changes cells of the selected, unsigned slot only.
LEMMA WriterConfined ==
  ASSUME TypeOK, SessionInSlot, ~Erasing, NEW page, sfu_real_writer(page),
         NEW a \in FlashAddr, flash'[a] # flash[a]
  PROVE  a \in Body(main_selector) /\ sign[main_selector] = ERASED_SIGN
<1>1. Written(page) /\ flash' = Programmed(write_addr_real, page)
  BY DEF sfu_real_writer
<1>2. a \in PageRange(write_addr_real)
  BY <1>1 DEF Programmed
<1> QED BY <1>1, <1>2, WriterInSlot

(***************************************************************************)
(* One step, a power failure in it included: a cell that changes is one of *)
(* the selected slot's body and that slot is unsigned, or it is the        *)
(* FIRST_START byte; a signature that changes is the selected slot's, and  *)
(* was erased or is being erased.                                          *)
(***************************************************************************)
LEMMA StepConfined ==
  ASSUME TypeOK, SessionInv, [Next]_vars
  PROVE  /\ \A a \in FlashAddr : flash'[a] # flash[a] =>
              \/ a \in Body(main_selector) /\ sign[main_selector] = ERASED_SIGN
              \/ a = NV_PARAM_BLOCK /\ pc = "find"
         /\ \A s \in BOOLEAN : sign'[s] # sign[s] =>
              /\ s = main_selector
              /\ \/ sign[s] = ERASED_SIGN
                 \/ pc \in {"fs_erase_b", "fs_erase_a", "erase_sign", "sign_erase"}
<1> DEFINE FlashGoal == \A a \in FlashAddr : flash'[a] # flash[a] =>
              \/ a \in Body(main_selector) /\ sign[main_selector] = ERASED_SIGN
              \/ a = NV_PARAM_BLOCK /\ pc = "find"
           SignGoal == \A s \in BOOLEAN : sign'[s] # sign[s] =>
              /\ s = main_selector
              /\ \/ sign[s] = ERASED_SIGN
                 \/ pc \in {"fs_erase_b", "fs_erase_a", "erase_sign", "sign_erase"}
<1> SUFFICES FlashGoal /\ SignGoal
  OBVIOUS
<1>0. ASSUME UNCHANGED flashVars PROVE FlashGoal /\ SignGoal
  BY <1>0 DEF flashVars
<1>1. CASE FirstStart
  BY <1>1 DEF FirstStart, TypeOK
<1>2. CASE FirstStartEraseB \/ FirstStartEraseA \/ EraseSign \/ SignErase
  BY <1>2 DEF FirstStartEraseB, FirstStartEraseA, EraseSign, SignErase,
              erase_sign_block, TypeOK
<1>3. CASE FirstStartSign \/ SignProgram
  <2>1. sign[main_selector] = ERASED_SIGN
    BY <1>3 DEF FirstStartSign, SignProgram, SessionInv
  <2>2. flash' = flash /\ sign' = Signed
    BY <1>3 DEF FirstStartSign, SignProgram
  <2> QED BY <2>1, <2>2 DEF Signed, TypeOK
<1>4. CASE EraseBlock
  <2>1. /\ pc = "erase_blocks" /\ pos < firmware_size
        /\ flash' = BlockErased(pos) /\ sign' = SignsErased(pos)
    BY <1>4 DEF EraseBlock
  <2>2. ASSUME NEW a \in FlashAddr, flash'[a] # flash[a]
        PROVE  a \in EraseRange(main_selector, pos)
    BY <2>1, <2>2 DEF BlockErased
  <2>3. ASSUME NEW s \in BOOLEAN, sign'[s] # sign[s]
        PROVE  EraseRange(main_selector, pos) \cap SignSector(s) # {}
    BY <2>1, <2>3 DEF SignsErased
  <2> QED BY <2>1, <2>2, <2>3, EraseInSlot
<1>5. CASE WritePage
  <2>1. ~Erasing /\ SessionInSlot
    BY <1>5 DEF WritePage, Erasing, SessionInv
  <2>2. sfu_real_writer(WriteStep.page) /\ sign' = sign
    BY <1>5 DEF WritePage
  <2> QED BY <2>1, <2>2, WriterConfined
<1>6. CASE StartFlush
  <2>1. ~Erasing /\ SessionInSlot
    BY <1>6 DEF StartFlush, Erasing, SessionInv
  <2>2. sfu_real_writer(FlushStep.page) /\ sign' = sign
    BY <1>6 DEF StartFlush
  <2> QED BY <2>1, <2>2, WriterConfined
<1>7. CASE PowerLoss
  <2>1. flash' \in FlashLeft /\ sign' \in SignLeft
    BY <1>7 DEF PowerLoss
  <2> QED BY <2>1, FlashLossInSlot, SignLossInSlot
<1>8. CASE Scan \/ OpenSession \/ WriteDone \/ DrainDone \/ LeaveLoop \/ main_start \/ Timeout
           \/ HostPacket
  BY <1>8, <1>0
     DEF Scan, OpenSession, WriteDone, DrainDone, LeaveLoop, main_start, Timeout, HostPacket,
         sfu_command_speed, sfu_command_erase, sfu_command_write, sfu_command_start
<1>9. CASE UNCHANGED vars
  BY <1>9, <1>0 DEF vars
<1> QED BY <1>1, <1>2, <1>3, <1>4, <1>5, <1>6, <1>7, <1>8, <1>9 DEF Next, Device

\* Every board is switched on with no session open.
LEMMA InitSessionInv == Init => SessionInv
BY DEF Init, SessionInv, SessionInSlot, Erasing

\* The invariant is inductive.
LEMMA NextSessionInv == TypeOK /\ SessionInv /\ [Next]_vars => SessionInv'
<1> SUFFICES ASSUME TypeOK, SessionInv, [Next]_vars PROVE SessionInv'
  OBVIOUS
<1>t. main_selector \in BOOLEAN /\ sign \in [BOOLEAN -> Signature]
  BY DEF TypeOK
<1>0. CASE Scan \/ FirstStart \/ FirstStartEraseB \/ FirstStartSign
  <2>1. /\ ~main_update_started'
        /\ pc' \notin {"fs_sign", "sign", "erase_sign", "erase_blocks"}
    BY <1>0 DEF Scan, FirstStart, FirstStartEraseB, FirstStartSign, AfterFind, SessionInv
  <2> QED BY <2>1 DEF SessionInv, SessionInSlot, Erasing
<1>a. CASE FirstStartEraseA
  <2>1. /\ ~main_update_started'
        /\ pc' \notin {"sign", "erase_sign", "erase_blocks"}
        /\ sign'[main_selector'] = ERASED_SIGN
    BY <1>a, <1>t DEF FirstStartEraseA, AfterFind, erase_sign_block, SessionInv
  <2> QED BY <2>1 DEF SessionInv, SessionInSlot, Erasing
<1>1. CASE sfu_command_erase
  <2>1. firmware_size' <= FLASH_SIZE_CORRECT /\ pc' = "erase_sign"
    BY <1>1 DEF sfu_command_erase
  <2> QED BY <2>1 DEF SessionInv, SessionInSlot, Erasing
<1>2. CASE EraseSign
  <2>1. /\ sign'[main_selector'] = ERASED_SIGN /\ pos' = 0 /\ pc' = "erase_blocks"
        /\ firmware_size' <= FLASH_SIZE_CORRECT
    BY <1>2, <1>t DEF EraseSign, erase_sign_block, SessionInv, Erasing
  <2>2. \E k \in 0 .. pos' : pos' = k * FLASH_BLOCK_SIZE
    BY <2>1, LayoutTypes
  <2> QED BY <2>1, <2>2 DEF SessionInv, SessionInSlot, Erasing
<1>3. CASE EraseBlock
  <2>1. /\ pos' = pos + FLASH_BLOCK_SIZE /\ pc = "erase_blocks" /\ pc' = "erase_blocks"
        /\ firmware_size' <= FLASH_SIZE_CORRECT
        /\ main_selector' = main_selector /\ sign[main_selector] = ERASED_SIGN
    BY <1>3 DEF EraseBlock, SessionInv, Erasing
  <2>2. sign'[main_selector'] = ERASED_SIGN
    BY <1>3, <1>t, <2>1 DEF EraseBlock, SignsErased
  <2>3. PICK k \in 0 .. pos : pos = k * FLASH_BLOCK_SIZE
    BY <2>1 DEF SessionInv
  <2>4. /\ pos' = (k + 1) * FLASH_BLOCK_SIZE
        /\ k + 1 \in 0 .. pos'
    <3> DEFINE B == FLASH_BLOCK_SIZE
    <3>1. B \in Nat /\ B > 0 /\ pos \in Nat /\ k \in Nat /\ k <= pos /\ pos = k * B
      BY <2>3, LayoutTypes DEF TypeOK
    <3>2. pos' = pos + B
      BY <2>1
    <3> HIDE DEF B
    <3>3. (k + 1) * B = k * B + B
      BY <3>1
    <3> QED BY <3>1, <3>2, <3>3 DEF B
  <2> QED BY <2>1, <2>2, <2>4 DEF SessionInv, SessionInSlot, Erasing
<1>4. CASE OpenSession
  <2>1. /\ sign'[main_selector'] = ERASED_SIGN /\ main_selector' = main_selector
        /\ write_addr_real' = MAIN_START_FROM(main_selector) /\ pc' = "loop"
    BY <1>4 DEF OpenSession, SessionInv, flashVars
  <2>2. MAIN_START_FROM(main_selector)
          \in MAIN_START_FROM(main_selector) .. MAIN_END(main_selector)
    BY <1>t, LayoutTypes DEF MAIN_END
  <2> QED BY <2>1, <2>2 DEF SessionInv, SessionInSlot, Erasing
<1>5. CASE WritePage
  <2>1. /\ pc = "write" /\ pc' \in {"write", "loop"} /\ sign' = sign
        /\ main_selector' = main_selector /\ main_update_started' = main_update_started
        /\ write_addr_real' = IF Written(WriteStep.page)
                              THEN write_addr_real + FLASH_PAGE_SIZE ELSE write_addr_real
    BY <1>5 DEF WritePage
  <2>2. SessionInSlot /\ ~Erasing
    BY <2>1 DEF SessionInv, Erasing
  <2>3. SessionInSlot'
    BY <2>1, <2>2, WriterInSlot DEF SessionInSlot, Erasing
  <2> QED BY <2>1, <2>3 DEF SessionInv, Erasing
<1>6. CASE StartFlush
  <2>1. /\ main_update_started' = FALSE /\ sign' = sign /\ main_selector' = main_selector
        /\ pc' \in {"loop", "sign_erase", "sign"}
        /\ pc' = "sign" => sign[main_selector] = ERASED_SIGN
    BY <1>6 DEF StartFlush, CloseSession
  <2> QED BY <2>1 DEF SessionInv, SessionInSlot, Erasing
<1>7. CASE SignErase
  <2>1. /\ ~main_update_started' /\ pc' = "sign" /\ sign'[main_selector'] = ERASED_SIGN
    BY <1>7, <1>t DEF SignErase, erase_sign_block, SessionInv
  <2> QED BY <2>1 DEF SessionInv, SessionInSlot, Erasing
<1>8. CASE SignProgram
  <2>1. ~main_update_started' /\ pc' \in {"app", "loop"}
    BY <1>8 DEF SignProgram, SessionInv
  <2> QED BY <2>1 DEF SessionInv, SessionInSlot, Erasing
<1>9. CASE sfu_command_speed \/ sfu_command_write \/ sfu_command_start \/ WriteDone \/ DrainDone
           \/ main_start
  <2>1. /\ ~Erasing /\ pc' \in {"loop", "write", "start", "app"}
        /\ UNCHANGED <<sign, main_selector, main_update_started, write_addr_real>>
    BY <1>9 DEF sfu_command_speed, sfu_command_write, sfu_command_start, WriteDone, DrainDone,
                main_start, Receiving, Erasing, flashVars, addrVars
  <2> QED BY <2>1 DEF SessionInv, SessionInSlot, Erasing
<1>10. CASE Timeout
  <2>1. /\ ~Erasing /\ pc' = "drain" /\ UNCHANGED <<sign, main_selector>>
    BY <1>10 DEF Timeout, Erasing, flashVars
  <2>2. \/ UNCHANGED <<main_update_started, write_addr_real>>
        \/ ~main_update_started'
    BY <1>10 DEF Timeout, CloseSession, addrVars
  <2> QED BY <2>1, <2>2 DEF SessionInv, SessionInSlot, Erasing
<1>11. CASE LeaveLoop
  <2>1. ~main_update_started' /\ pc' \in {"find", "launch"}
    BY <1>11 DEF LeaveLoop
  <2> QED BY <2>1 DEF SessionInv, SessionInSlot, Erasing
<1>12. CASE PowerLoss
  <2>1. ~main_update_started' /\ pc' = "find"
    BY <1>12 DEF PowerLoss
  <2> QED BY <2>1 DEF SessionInv, SessionInSlot, Erasing
<1>13. CASE UNCHANGED vars
  BY <1>13
     DEF vars, flashVars, addrVars, localVars, SessionInv, SessionInSlot, Erasing
<1> QED
  BY <1>0, <1>a, <1>1, <1>2, <1>3, <1>4, <1>5, <1>6, <1>7, <1>8, <1>9, <1>10, <1>11, <1>12, <1>13
     DEF Next, Device, HostPacket

\* The invariant holds in every reachable state.
LEMMA SessionInvariant == Spec => [](TypeOK /\ SessionInv)
<1>1. Init => TypeOK /\ SessionInv
  BY InitTypeOK, InitSessionInv
<1>2. TypeOK /\ SessionInv /\ [Next]_vars => (TypeOK /\ SessionInv)'
  BY NextTypeOK, NextSessionInv
<1> QED BY <1>1, <1>2, PTL DEF Spec

(***************************************************************************)
(* An open session writes to an unsigned slot, at an address of that slot. *)
(***************************************************************************)
THEOREM SessionStaysInSlot == Spec => []SessionInSlot
<1>1. SessionInv => SessionInSlot
  BY DEF SessionInv
<1> QED BY <1>1, SessionInvariant, PTL

(***************************************************************************)
(* No step, and no power failure in a step, changes flash outside the      *)
(* selected slot, whatever sizes, files and packets the host sends: the    *)
(* "never writes outside the selected firmware slot" of the README.        *)
(***************************************************************************)
THEOREM NeverOutsideTheSlot == Spec => ConfinedToSlot
<1>1. TypeOK /\ SessionInv /\ [Next]_vars => [StaysInSlot]_vars
  BY StepConfined DEF StaysInSlot
<1> QED BY <1>1, SessionInvariant, PTL DEF Spec, ConfinedToSlot

(***************************************************************************)
(* The body of a slot never changes under a signature that is not erased,  *)
(* and no signature is programmed over another.                            *)
(***************************************************************************)
THEOREM SignatureFreezesBody == Spec => SignedBodyFrozen
<1>1. ASSUME TypeOK, SessionInv, [Next]_vars PROVE FrozenBySignature
  <2> SUFFICES ASSUME NEW s \in BOOLEAN, sign[s] # ERASED_SIGN
               PROVE  /\ \A a \in Body(s) : flash'[a] = flash[a]
                      /\ sign'[s] # sign[s] =>
                           pc \in {"fs_erase_b", "fs_erase_a", "erase_sign", "sign_erase"}
    BY DEF FrozenBySignature
  <2>1. ASSUME NEW a \in Body(s), flash'[a] # flash[a] PROVE FALSE
    <3>1. a \in FlashAddr /\ a # NV_PARAM_BLOCK
      BY SlotsApart
    <3>2. a \in Body(main_selector) /\ sign[main_selector] = ERASED_SIGN
      BY <1>1, <2>1, <3>1, StepConfined
    <3>3. main_selector \in BOOLEAN /\ main_selector # s
      BY <1>1, <3>2 DEF TypeOK
    <3> QED BY <3>2, <3>3, SlotsApart DEF SELECTOR_A, SELECTOR_B
  <2> QED BY <1>1, <2>1, StepConfined
<1>2. TypeOK /\ SessionInv /\ [Next]_vars => [FrozenBySignature]_vars
  BY <1>1
<1> QED BY <1>2, SessionInvariant, PTL DEF Spec, SignedBodyFrozen

----------------------------------------------------------------------------
(* The store: the invariant *)

\* A board in its first start: nothing was chosen, and no stamp is known.
Untouched == ~main_valid /\ max_time_stamp = 0 /\ ~session.scanned

\* Someone is about to change the selected slot.
AtWork ==
  main_update_started \/ pc \in {"erase_sign", "erase_blocks", "start", "sign_erase", "sign"}

(***************************************************************************)
(* What the mapping rests on, beside SessionInv: while the host keeps to   *)
(* the protocol, the slot at work is not the one the scan has left in      *)
(* variant, and the stamp of that one is known; the first start comes      *)
(* before any scan, and erases both signatures before it signs one.        *)
(***************************************************************************)
StoreInv ==
  /\ session.legal /\ AtWork => main_selector # variant
  /\ session.legal /\ session.scanned =>
       IF main_valid THEN sign[variant].ts <= max_time_stamp ELSE ~ValidSlot(variant)
  /\ flash[NV_PARAM_BLOCK] = FF => pc = "find" /\ Untouched
  /\ pc \in {"fs_erase_b", "fs_erase_a", "fs_sign"} => Untouched
  /\ pc \in {"fs_erase_a", "fs_sign"} =>
       main_selector = SELECTOR_A /\ sign[SELECTOR_B] = ERASED_SIGN
  /\ pc = "fs_erase_b" => main_selector = SELECTOR_B
  /\ pc = "fs_sign" => variant = SELECTOR_A

----------------------------------------------------------------------------
(* Slots and versions *)

\* What find_latest_variant reads of a slot is well typed.
LEMMA StoredTypes ==
  ASSUME TypeOK, NEW s \in BOOLEAN
  PROVE  /\ sign[s].ts \in 0 .. UINT32_MAX
         /\ Stamped(s) <=> sign[s].ts \in 0 .. (UINT32_MAX - 1)
         /\ ValidSlot(s) => sign[s] \in Store!Version
         /\ StoredVersion(s) \in Store!Contents
         /\ ERASED_SIGN \notin Store!Version
         /\ StoredVersion(s) # ERASED_SIGN <=> ValidSlot(s)
<1>1. sign[s] \in Signature
  BY DEF TypeOK
<1>2. UINT32_MAX \in Nat /\ ERASED_SIGN.ts = UINT32_MAX
  BY SignatureTypes
<1>3. crc32_IEEE8023(s) \in BodyImage
  BY CrcType DEF TypeOK
<1> HIDE DEF BodyImage
<1>4. sign[s].ts \in 0 .. UINT32_MAX /\ (Stamped(s) <=> sign[s].ts \in 0 .. (UINT32_MAX - 1))
  BY <1>1, <1>2 DEF Signature, Stamped
<1>5. ASSUME ValidSlot(s) PROVE sign[s] \in Store!Version
  <2>1. sign[s].crc \in BodyImage /\ sign[s].ts \in 0 .. (UINT32_MAX - 1)
    BY <1>3, <1>4, <1>5 DEF ValidSlot, CrcMatches
  <2>2. sign[s] = [crc |-> sign[s].crc, ts |-> sign[s].ts]
    BY <1>1 DEF Signature
  <2> QED BY <2>1, <2>2 DEF Store!Version
<1>6. ERASED_SIGN \notin Store!Version
  BY <1>2 DEF Store!Version
<1> QED BY <1>4, <1>5, <1>6 DEF Store!Contents, StoredVersion

\* The body behind a signature that is not erased does not change in a step.
LEMMA BodyKept ==
  ASSUME TypeOK, SessionInv, [Next]_vars, NEW s \in BOOLEAN, sign[s] # ERASED_SIGN
  PROVE  crc32_IEEE8023(s)' = crc32_IEEE8023(s)
<1>1. ASSUME NEW a \in Body(s) PROVE flash'[a] = flash[a]
  <2>1. a \in FlashAddr /\ a # NV_PARAM_BLOCK
    BY SlotsApart
  <2>2. main_selector \in BOOLEAN /\ (main_selector # s => a \notin Body(main_selector))
    BY SlotsApart DEF TypeOK, SELECTOR_A, SELECTOR_B
  <2> QED BY <2>1, <2>2, StepConfined
<1>2. \A i \in 0 .. (FLASH_SIZE_CORRECT - 1) : MAIN_START_FROM(s) + i \in Body(s)
  BY LayoutTypes DEF Body, MAIN_END
<1> QED BY <1>1, <1>2 DEF crc32_IEEE8023

\* A slot whose signature stays keeps its version: where it is not erased, no
\* step changes the body.
LEMMA VersionKept ==
  ASSUME TypeOK, SessionInv, [Next]_vars, NEW s \in BOOLEAN, sign'[s] = sign[s]
  PROVE  /\ StoredVersion(s)' = StoredVersion(s)
         /\ ValidSlot(s)' <=> ValidSlot(s)
<1>1. CASE sign[s] = ERASED_SIGN
  <2>1. ~Stamped(s) /\ ~Stamped(s)'
    BY <1>1 DEF Stamped, ERASED_SIGN
  <2> QED BY <2>1 DEF StoredVersion, ValidSlot
<1>2. CASE sign[s] # ERASED_SIGN
  <2>1. crc32_IEEE8023(s)' = crc32_IEEE8023(s)
    BY <1>2, BodyKept
  <2> QED BY <2>1 DEF StoredVersion, ValidSlot, Stamped, CrcMatches
<1> QED BY <1>1, <1>2

\* A step changes the version of the selected slot only.
LEMMA OtherSlotKept ==
  ASSUME TypeOK, SessionInv, [Next]_vars, NEW s \in BOOLEAN, s # main_selector
  PROVE  /\ sign'[s] = sign[s]
         /\ StoredVersion(s)' = StoredVersion(s)
         /\ ValidSlot(s)' <=> ValidSlot(s)
<1>1. sign'[s] = sign[s]
  BY StepConfined
<1> QED BY <1>1, VersionKept
\* Where a step may change a signature.
LEMMA SignatureSteps ==
  ASSUME TypeOK, SessionInv, [Next]_vars, sign' # sign
  PROVE  pc \in {"fs_erase_b", "fs_erase_a", "fs_sign",
                 "erase_sign", "erase_blocks", "sign_erase", "sign"}
<1>1. CASE PowerLoss
  BY <1>1, Zenon DEF PowerLoss, SignLeft
<1>2. CASE FirstStartEraseB \/ FirstStartEraseA \/ FirstStartSign \/ EraseSign \/ EraseBlock
           \/ SignErase \/ SignProgram
  BY <1>2 DEF FirstStartEraseB, FirstStartEraseA, FirstStartSign, EraseSign, EraseBlock,
              SignErase, SignProgram
<1>3. CASE Scan \/ FirstStart \/ OpenSession \/ WritePage \/ WriteDone \/ StartFlush \/ DrainDone
           \/ LeaveLoop \/ main_start \/ Timeout \/ HostPacket \/ UNCHANGED vars
  <2>1. sign' = sign
    BY <1>3 DEF Scan, FirstStart, OpenSession, WritePage, WriteDone, StartFlush, DrainDone,
                LeaveLoop, main_start, Timeout, HostPacket, sfu_command_speed,
                sfu_command_erase, sfu_command_write, sfu_command_start, vars, flashVars
  <2> QED BY <2>1
<1> QED BY <1>1, <1>2, <1>3 DEF Next, Device

\* Between a scan and a power failure the history only loses legality, and
\* main()'s view of the slots is that of the scan.
LEMMA HistorySteps ==
  ASSUME TypeOK, [Next]_vars, ~Scan, ~PowerLoss
  PROVE  /\ session'.scanned = session.scanned
         /\ session'.legal => session.legal
         /\ pc \notin {"fs_erase_a", "fs_sign"} =>
              UNCHANGED <<main_valid, variant, max_time_stamp>>
<1>t. session \in [file : Seq(Cells), legal : BOOLEAN, clean : BOOLEAN, scanned : BOOLEAN]
  BY DEF TypeOK
<1>1. CASE sfu_command_erase
  BY <1>1, <1>t DEF sfu_command_erase, mainVars
<1>2. CASE sfu_command_write
  BY <1>2, <1>t DEF sfu_command_write, mainVars
<1>3. CASE sfu_command_start
  BY <1>3, <1>t DEF sfu_command_start, mainVars
<1>4. CASE StartFlush
  BY <1>4, <1>t DEF StartFlush, mainVars
<1>5. CASE FirstStart \/ FirstStartEraseB \/ FirstStartEraseA \/ FirstStartSign
  BY <1>5 DEF FirstStart, FirstStartEraseB, FirstStartEraseA, FirstStartSign, mainVars
<1>6. CASE EraseSign \/ EraseBlock \/ OpenSession \/ WritePage \/ WriteDone \/ SignErase
           \/ SignProgram \/ DrainDone \/ LeaveLoop
  BY <1>6 DEF EraseSign, EraseBlock, OpenSession, WritePage, WriteDone, SignErase,
              SignProgram, DrainDone, LeaveLoop, mainVars
<1>7. CASE main_start \/ Timeout \/ sfu_command_speed \/ UNCHANGED vars
  BY <1>7 DEF main_start, Timeout, sfu_command_speed, vars, mainVars
<1> QED BY <1>1, <1>2, <1>3, <1>4, <1>5, <1>6, <1>7 DEF Next, Device, HostPacket
\* What is at work was at work before, on the same slot, but for the packet ERASE,
\* which turns to the slot the scan has not left in variant.
LEMMA AtWorkSteps ==
  ASSUME TypeOK, SessionInv, [Next]_vars, ~Scan, ~PowerLoss, AtWork', session'.legal
  PROVE  \/ AtWork /\ main_selector' = main_selector
         \/ main_selector = variant /\ main_selector' = ~main_selector
<1>1. SessionInv'
  BY NextSessionInv
<1>t. session \in [file : Seq(Cells), legal : BOOLEAN, clean : BOOLEAN, scanned : BOOLEAN]
  BY DEF TypeOK
<1>2. CASE sfu_command_erase
  BY <1>2, <1>t DEF sfu_command_erase, UpdateTarget
<1>3. CASE sfu_command_start
  BY <1>3, <1>t DEF sfu_command_start, AtWork
<1>4. CASE FirstStart \/ FirstStartEraseB \/ FirstStartEraseA \/ FirstStartSign
  <2>1. ~main_update_started' /\ pc' \in {"fs_erase_b", "fs_erase_a", "fs_sign", "loop", "launch"}
    BY <1>4 DEF FirstStart, FirstStartEraseB, FirstStartEraseA, FirstStartSign, AfterFind,
                SessionInv
  <2> QED BY <2>1 DEF AtWork
<1>5. CASE EraseSign \/ EraseBlock \/ OpenSession \/ StartFlush \/ SignErase
  BY <1>5 DEF EraseSign, EraseBlock, OpenSession, StartFlush, SignErase, AtWork
<1>6. CASE WritePage \/ WriteDone \/ DrainDone \/ main_start \/ sfu_command_speed
           \/ sfu_command_write
  <2>1. /\ UNCHANGED <<main_selector, main_update_started>>
        /\ pc' \in {"write", "loop", "app"}
    BY <1>6 DEF WritePage, WriteDone, DrainDone, main_start, sfu_command_speed,
                sfu_command_write
  <2> QED BY <2>1 DEF AtWork
<1>7. CASE SignProgram \/ LeaveLoop
  <2>1. ~main_update_started' /\ pc' \in {"app", "loop", "find", "launch"}
    BY <1>7 DEF SignProgram, LeaveLoop, SessionInv
  <2> QED BY <2>1 DEF AtWork
<1>8. CASE Timeout
  <2>1. pc' = "drain" /\ UNCHANGED main_selector
    BY <1>8 DEF Timeout
  <2>2. ~main_update_started' \/ main_update_started' = main_update_started
    BY <1>8 DEF Timeout, CloseSession
  <2> QED BY <2>1, <2>2 DEF AtWork
<1>9. CASE UNCHANGED vars
  BY <1>9 DEF vars, AtWork
<1> QED BY <1>2, <1>3, <1>4, <1>5, <1>6, <1>7, <1>8, <1>9 DEF Next, Device, HostPacket

\* The slots have names.
LEMMA Selectors ==
  /\ SELECTOR_A \in BOOLEAN /\ SELECTOR_B \in BOOLEAN
  /\ \A s \in BOOLEAN : s = SELECTOR_A \/ s = SELECTOR_B
BY DEF SELECTOR_A, SELECTOR_B

\* No stamped slot is newer than the one whose signature is tried first.
LEMMA FirstIsNewest ==
  ASSUME TypeOK
  PROVE  /\ FirstChoice \in BOOLEAN
         /\ \A s \in BOOLEAN :
              Stamped(s) => Stamped(FirstChoice) /\ sign[s].ts <= sign[FirstChoice].ts
<1> DEFINE NewerB == /\ Stamped(SELECTOR_B)
                     /\ Stamped(SELECTOR_A) => ~(sign[SELECTOR_A].ts >= sign[SELECTOR_B].ts)
<1>t. \A s \in BOOLEAN : sign[s].ts \in Nat
  BY StoredTypes, SignatureTypes
<1>b. Stamped(SELECTOR_B) \in BOOLEAN
  BY DEF Stamped
<1>1. NewerB => FirstChoice = SELECTOR_B
  BY <1>b, Zenon DEF FirstChoice, SELECTOR_B
<1>2. ~NewerB => FirstChoice = SELECTOR_A
  BY <1>b, Zenon DEF FirstChoice, SELECTOR_A
<1>3. NewerB => \A s \in BOOLEAN :
                  Stamped(s) => Stamped(SELECTOR_B) /\ sign[s].ts <= sign[SELECTOR_B].ts
  BY <1>t, Selectors DEF Stamped
<1>4. ~NewerB => \A s \in BOOLEAN :
                  Stamped(s) => Stamped(SELECTOR_A) /\ sign[s].ts <= sign[SELECTOR_A].ts
  BY <1>t, Selectors DEF Stamped
<1> HIDE DEF NewerB, FirstChoice
<1> QED BY <1>1, <1>2, <1>3, <1>4, Selectors

(***************************************************************************)
(* The scan finds a slot if there is one, takes a valid one no other valid *)
(* one is newer than, and knows a stamp at least as large as that one's.   *)
(***************************************************************************)
LEMMA ScanPicksNewest ==
  ASSUME TypeOK, Scan
  PROVE  /\ main_valid' \in BOOLEAN
         /\ main_valid' <=> \E s \in BOOLEAN : ValidSlot(s)
         /\ main_valid' =>
              /\ main_selector' = variant' /\ variant' \in BOOLEAN /\ ValidSlot(variant')
              /\ \A s \in BOOLEAN : ValidSlot(s) => sign[s].ts <= sign[variant'].ts
              /\ sign[variant'].ts <= max_time_stamp'
<1>1. /\ main_valid' = (Found # {})
      /\ variant' = IF FirstChoice \in Found THEN FirstChoice
                    ELSE IF Found # {} THEN ~FirstChoice ELSE variant
      /\ max_time_stamp' = IF Stamped(FirstChoice) THEN sign[FirstChoice].ts ELSE 0
      /\ main_selector' = variant'
  BY DEF Scan, find_latest_variant
<1>2. /\ FirstChoice \in BOOLEAN
      /\ \A s \in BOOLEAN : Stamped(s) => Stamped(FirstChoice) /\ sign[s].ts <= sign[FirstChoice].ts
  BY FirstIsNewest
<1>3. \A s \in BOOLEAN : s \in Found <=> ValidSlot(s)
  BY DEF Found
<1>4. \A s \in BOOLEAN : ValidSlot(s) => Stamped(s) /\ sign[s].ts \in Nat
  BY StoredTypes, SignatureTypes DEF ValidSlot
<1>5. Found # {} <=> \E s \in BOOLEAN : ValidSlot(s)
  BY DEF Found
<1> HIDE DEF FirstChoice
<1>6. CASE FirstChoice \in Found
  <2>1. variant' = FirstChoice /\ ValidSlot(variant') /\ Found # {}
    BY <1>1, <1>2, <1>3, <1>6
  <2>2. max_time_stamp' = sign[variant'].ts
    BY <1>1, <1>2, <1>4, <2>1
  <2> QED BY <1>1, <1>2, <1>4, <1>5, <2>1, <2>2
<1>7. CASE FirstChoice \notin Found /\ Found # {}
  <2>1. variant' = ~FirstChoice /\ variant' \in BOOLEAN
    BY <1>1, <1>2, <1>7
  <2>2. \A s \in BOOLEAN : ValidSlot(s) => s = variant'
    BY <1>2, <1>3, <1>7, <2>1
  <2>3. ValidSlot(variant')
    BY <1>5, <1>7, <2>2
  <2>4. max_time_stamp' = sign[FirstChoice].ts
    BY <1>1, <1>2, <1>4, <2>1, <2>3
  <2> QED BY <1>1, <1>2, <1>4, <1>5, <1>7, <2>1, <2>2, <2>3, <2>4
<1>8. CASE Found = {}
  BY <1>1, <1>5, <1>8
<1> QED BY <1>6, <1>7, <1>8
----------------------------------------------------------------------------
(* The invariant is inductive *)

\* Every board is switched on before its first scan.
LEMMA InitStoreInv == Init => StoreInv
BY DEF Init, StoreInv, AtWork, Untouched, NoSession, SELECTOR_A

\* The slot at work stays apart from the one that was chosen.
LEMMA NextApart ==
  ASSUME TypeOK, SessionInv, StoreInv, [Next]_vars
  PROVE  (session.legal /\ AtWork => main_selector # variant)'
<1>1. CASE Scan
  <2>1. ~main_update_started' /\ pc' \in {"loop", "launch"}
    BY <1>1 DEF Scan, AfterFind, SessionInv
  <2> QED BY <2>1 DEF AtWork
<1>2. CASE PowerLoss
  BY <1>2 DEF PowerLoss, AtWork
<1>3. CASE ~Scan /\ ~PowerLoss
  <2> SUFFICES ASSUME session'.legal, AtWork' PROVE main_selector' # variant'
    OBVIOUS
  <2>1. pc \notin {"fs_erase_a", "fs_sign"}
    <3>1. CASE pc \in {"fs_erase_a", "fs_sign"}
      <4>1. FirstStartEraseA \/ FirstStartSign \/ UNCHANGED vars
        BY <1>3, <3>1
           DEF Next, Device, HostPacket, Scan, FirstStart, FirstStartEraseB, EraseSign, EraseBlock,
               OpenSession, WritePage, WriteDone, StartFlush, SignErase, SignProgram, DrainDone,
               LeaveLoop, main_start, Timeout, sfu_command_speed, sfu_command_erase,
               sfu_command_write, sfu_command_start, Receiving
      <4>2. ~main_update_started' /\ pc' \in {"fs_erase_a", "fs_sign", "loop", "launch"}
        BY <3>1, <4>1
           DEF FirstStartEraseA, FirstStartSign, AfterFind, vars, SessionInv
      <4> QED BY <4>2 DEF AtWork
    <3> QED BY <3>1
  <2>2. variant' = variant /\ session.legal
    BY <1>3, <2>1, HistorySteps
  <2>3. AtWork => main_selector # variant
    BY <2>2 DEF StoreInv
  <2>4. main_selector \in BOOLEAN
    BY DEF TypeOK
  <2> QED BY <1>3, <2>2, <2>3, <2>4, AtWorkSteps
<1> QED BY <1>1, <1>2, <1>3

\* What the scan has found of the slot in variant stays so, and its stamp known.
LEMMA NextKnown ==
  ASSUME TypeOK, SessionInv, StoreInv, [Next]_vars
  PROVE  (session.legal /\ session.scanned =>
            IF main_valid THEN sign[variant].ts <= max_time_stamp ELSE ~ValidSlot(variant))'
<1>1. CASE Scan
  <2>1. sign' = sign /\ flash' = flash
    BY <1>1 DEF Scan, flashVars
  <2>2. variant' \in BOOLEAN
    BY NextTypeOK DEF TypeOK
  <2>3. ValidSlot(variant') <=> ValidSlot(variant)'
    BY <2>1 DEF ValidSlot, Stamped, CrcMatches, crc32_IEEE8023
  <2> QED BY <1>1, <2>1, <2>2, <2>3, ScanPicksNewest
<1>2. CASE PowerLoss
  BY <1>2 DEF PowerLoss, NoSession
<1>3. CASE ~Scan /\ ~PowerLoss
  <2> SUFFICES ASSUME session'.legal, session'.scanned
               PROVE  IF main_valid' THEN sign'[variant'].ts <= max_time_stamp'
                      ELSE ~ValidSlot(variant)'
    OBVIOUS
  <2>1. session.legal /\ session.scanned
    BY <1>3, HistorySteps
  <2>2. pc \notin {"fs_erase_b", "fs_erase_a", "fs_sign"}
    BY <2>1 DEF StoreInv, Untouched
  <2>3. UNCHANGED <<main_valid, variant, max_time_stamp>>
    BY <1>3, <2>2, HistorySteps
  <2>4. variant \in BOOLEAN
    BY DEF TypeOK
  <2>5. sign'[variant] = sign[variant]
    <3>1. CASE sign' = sign
      BY <3>1
    <3>2. CASE sign' # sign
      <4>1. AtWork
        BY <2>2, <3>2, SignatureSteps DEF AtWork
      <4> QED BY <2>1, <2>4, <4>1, OtherSlotKept DEF StoreInv
    <3> QED BY <3>1, <3>2
  <2>6. ValidSlot(variant)' <=> ValidSlot(variant)
    <3>1. \A s \in BOOLEAN : sign'[s] = sign[s] => (ValidSlot(s)' <=> ValidSlot(s))
      BY VersionKept
    <3> QED BY <2>3, <2>4, <2>5, <3>1 DEF ValidSlot, Stamped, CrcMatches, crc32_IEEE8023
  <2> QED BY <2>1, <2>3, <2>5, <2>6 DEF StoreInv
<1> QED BY <1>1, <1>2, <1>3

\* The FIRST_START byte is erased before the first scan only, and the first start
\* works on the signatures one after the other.
LEMMA NextFirstStart ==
  ASSUME TypeOK, SessionInv, StoreInv, [Next]_vars
  PROVE  /\ flash'[NV_PARAM_BLOCK] = FF => pc' = "find" /\ Untouched'
         /\ pc' \in {"fs_erase_b", "fs_erase_a", "fs_sign"} => Untouched'
         /\ pc' \in {"fs_erase_a", "fs_sign"} =>
              main_selector' = SELECTOR_A /\ sign'[SELECTOR_B] = ERASED_SIGN
         /\ pc' = "fs_erase_b" => main_selector' = SELECTOR_B
         /\ pc' = "fs_sign" => variant' = SELECTOR_A
<1>t. /\ flash \in [FlashAddr -> Cells] /\ sign \in [BOOLEAN -> Signature]
      /\ NV_PARAM_BLOCK \in FlashAddr /\ \A sel \in BOOLEAN : NV_PARAM_BLOCK \notin Body(sel)
      /\ main_selector \in BOOLEAN /\ JUNK # FF
  BY SlotsApart, CoreAssumption DEF TypeOK
<1>k. pc # "find" => flash'[NV_PARAM_BLOCK] = flash[NV_PARAM_BLOCK] /\ flash[NV_PARAM_BLOCK] # FF
  BY <1>t, StepConfined DEF StoreInv
<1>1. CASE PowerLoss
  <2>1. pc' = "find" /\ Untouched'
    BY <1>1 DEF PowerLoss, Untouched, NoSession
  <2> QED BY <2>1
<1>2. CASE FirstStart
  <2>1. pc' = "fs_erase_b" /\ flash'[NV_PARAM_BLOCK] = JUNK /\ Untouched
    BY <1>2, <1>t DEF FirstStart, StoreInv
  <2>2. Untouched'
    BY <1>2, <2>1 DEF FirstStart, Untouched, mainVars
  <2>3. main_selector' = SELECTOR_B
    BY <1>2 DEF FirstStart
  <2> QED BY <1>t, <2>1, <2>2, <2>3
<1>3. CASE FirstStartEraseB
  <2>1. pc = "fs_erase_b" /\ pc' = "fs_erase_a" /\ Untouched
    BY <1>3 DEF FirstStartEraseB, StoreInv
  <2>2. Untouched'
    BY <1>3, <2>1 DEF FirstStartEraseB, Untouched, mainVars
  <2>3. main_selector = SELECTOR_B
    BY <2>1 DEF StoreInv
  <2>4. main_selector' = SELECTOR_A /\ sign'[SELECTOR_B] = ERASED_SIGN
    BY <1>3, <1>t, <2>3 DEF FirstStartEraseB, erase_sign_block
  <2> QED BY <1>k, <2>1, <2>2, <2>4
<1>4. CASE FirstStartEraseA
  <2>1. /\ pc = "fs_erase_a" /\ pc' \in {"fs_sign", "loop", "launch"} /\ Untouched
        /\ main_selector = SELECTOR_A /\ sign[SELECTOR_B] = ERASED_SIGN
    BY <1>4 DEF FirstStartEraseA, AfterFind, StoreInv
  <2>2. Untouched'
    BY <1>4, <2>1 DEF FirstStartEraseA, Untouched
  <2>3. main_selector' = SELECTOR_A /\ sign'[SELECTOR_B] = ERASED_SIGN
    BY <1>4, <1>t, <2>1, Selectors DEF FirstStartEraseA, erase_sign_block
  <2>4. variant' = SELECTOR_A
    BY <1>4 DEF FirstStartEraseA
  <2> QED BY <1>k, <2>1, <2>2, <2>3, <2>4
<1>5. CASE ~PowerLoss /\ ~FirstStart /\ ~FirstStartEraseB /\ ~FirstStartEraseA /\ ~UNCHANGED vars
  <2>1. pc' \notin {"fs_erase_b", "fs_erase_a", "fs_sign"}
    BY <1>5 DEF Next, Device, HostPacket, Scan, FirstStartSign, AfterFind, EraseSign, EraseBlock,
                OpenSession, WritePage, WriteDone, StartFlush, SignErase, SignProgram, DrainDone,
                LeaveLoop, main_start, Timeout, sfu_command_speed, sfu_command_erase,
                sfu_command_write, sfu_command_start
  <2>2. pc = "find" => Scan
    BY <1>5 DEF Next, Device, HostPacket, Scan, FirstStartSign, EraseSign, EraseBlock,
                OpenSession, WritePage, WriteDone, StartFlush, SignErase, SignProgram, DrainDone,
                LeaveLoop, main_start, Timeout, sfu_command_speed, sfu_command_erase,
                sfu_command_write, sfu_command_start, Receiving
  <2>3. Scan => flash' = flash /\ flash[NV_PARAM_BLOCK] # FF
    BY DEF Scan, flashVars
  <2> QED BY <1>k, <2>1, <2>2, <2>3
<1>6. CASE UNCHANGED vars
  BY <1>6 DEF vars, flashVars, mainVars, StoreInv, Untouched
<1> QED BY <1>1, <1>2, <1>3, <1>4, <1>5, <1>6

\* Together: every step keeps the invariant.
LEMMA NextStoreInv == TypeOK /\ SessionInv /\ StoreInv /\ [Next]_vars => StoreInv'
<1> SUFFICES ASSUME TypeOK, SessionInv, StoreInv, [Next]_vars PROVE StoreInv'
  OBVIOUS
<1>1. SELECTOR_A' = SELECTOR_A /\ SELECTOR_B' = SELECTOR_B
  BY DEF SELECTOR_A, SELECTOR_B
<1> QED BY <1>1, NextApart, NextKnown, NextFirstStart DEF StoreInv

\* The invariant holds in every reachable state.
LEMMA StoreInvariant == Spec => [](TypeOK /\ SessionInv /\ StoreInv)
<1>1. Init => StoreInv
  BY InitStoreInv
<1>2. TypeOK /\ SessionInv /\ StoreInv /\ [Next]_vars => StoreInv'
  BY NextStoreInv
<1> QED BY <1>1, <1>2, SessionInvariant, PTL DEF Spec

----------------------------------------------------------------------------
(* Every step is one of the store, or none *)


\* What the mapping makes of the slots, before and after a step.
SlotsTyped == [s \in BOOLEAN |-> StoredVersion(s)] \in [BOOLEAN -> Store!Contents]
StampsTyped == \A s \in BOOLEAN : /\ ValidSlot(s) => sign[s] \in Store!Version
                                  /\ StoredVersion(s) # ERASED_SIGN <=> ValidSlot(s)

\* Both are typed.
LEMMA SlotTypes == TypeOK => SlotsTyped /\ StampsTyped
BY StoredTypes DEF SlotsTyped, StampsTyped

\* Also behind a step.
LEMMA SlotTypesNext == TypeOK' => SlotsTyped' /\ StampsTyped'
BY SlotTypes, PTL


\* A step that leaves the signatures alone leaves the versions alone.
LEMMA SlotsKept ==
  ASSUME TypeOK, SessionInv, [Next]_vars, sign' = sign
  PROVE  UNCHANGED [s \in BOOLEAN |-> StoredVersion(s)]
<1>1. \A s \in BOOLEAN : StoredVersion(s)' = StoredVersion(s)
  BY VersionKept
<1> QED BY <1>1

\* The slot someone works on is not one the store has chosen.
LEMMA WorkMayChange ==
  ASSUME TypeOK, StoreInv, AtWork \/ pc \in {"fs_erase_b", "fs_erase_a", "fs_sign"}
  PROVE  Store!MayChange(main_selector)
<1>1. main_valid /\ session.legal => main_selector # variant
  BY DEF StoreInv, Untouched
<1> QED BY <1>1 DEF Store!MayChange

\* Erasing a signature gives up what the slot held.
LEMMA EraseGivesUp ==
  ASSUME TypeOK, SessionInv, StoreInv, [Next]_vars,
         FirstStartEraseB \/ FirstStartEraseA \/ EraseSign \/ SignErase
  PROVE  Store!GiveUp(main_selector)
<1>t. main_selector \in BOOLEAN /\ sign \in [BOOLEAN -> Signature]
  BY DEF TypeOK
<1>1. sign' = erase_sign_block /\ session' = session
  BY DEF FirstStartEraseB, FirstStartEraseA, EraseSign, SignErase
<1>2. main_valid' = main_valid /\ (main_valid => variant' = variant)
  <2>1. CASE FirstStartEraseA
    <3>1. ~main_valid /\ ~main_valid' /\ main_valid \in BOOLEAN /\ main_valid' \in BOOLEAN
      BY <2>1 DEF FirstStartEraseA, StoreInv, Untouched, TypeOK
    <3> QED BY <3>1
  <2>2. CASE FirstStartEraseB \/ EraseSign \/ SignErase
    BY <2>2 DEF FirstStartEraseB, EraseSign, SignErase, mainVars
  <2> QED BY <2>1, <2>2
<1>3. \A s \in BOOLEAN : s = main_selector => StoredVersion(s)' = ERASED_SIGN
  <2>1. sign'[main_selector] = ERASED_SIGN
    BY <1>t, <1>1 DEF erase_sign_block
  <2> QED BY <2>1 DEF StoredVersion, ValidSlot, Stamped, ERASED_SIGN
<1>4. \A s \in BOOLEAN : s # main_selector => StoredVersion(s)' = StoredVersion(s)
  BY OtherSlotKept
<1>5. Store!MayChange(main_selector)
  <2>1. AtWork \/ pc \in {"fs_erase_b", "fs_erase_a", "fs_sign"}
    BY DEF FirstStartEraseB, FirstStartEraseA, EraseSign, SignErase, AtWork
  <2> QED BY <2>1, WorkMayChange
<1>6. SlotsTyped'
  BY NextTypeOK, SlotTypesNext
<1>7. Store!SlotBecomes(main_selector, {ERASED_SIGN})
  BY <1>t, <1>3, <1>4, <1>6 DEF Store!SlotBecomes, SlotsTyped
<1> QED BY <1>1, <1>2, <1>5, <1>7 DEF Store!GiveUp

\* Programming a signature publishes the body behind it, unless the stamps are
\* used up: then the slot still holds nothing.
LEMMA SignPublishes ==
  ASSUME TypeOK, SessionInv, StoreInv, [Next]_vars, SignProgram
  PROVE  Store!Publish(main_selector) \/ UNCHANGED Store!vars
<1>t. main_selector \in BOOLEAN /\ sign \in [BOOLEAN -> Signature] /\ max_time_stamp \in Nat
  BY DEF TypeOK
<1>1. /\ pc = "sign" /\ sign' = Signed /\ flash' = flash
      /\ UNCHANGED <<main_valid, variant, session>>
  BY DEF SignProgram, mainVars
<1>2. sign[main_selector] = ERASED_SIGN
  BY <1>1 DEF SessionInv
<1>3. /\ sign'[main_selector] = NewSignature
      /\ \A s \in BOOLEAN : s # main_selector => sign'[s] = sign[s]
  BY <1>1, <1>t DEF Signed
<1>4. ~Stamped(main_selector) /\ StoredVersion(main_selector) = ERASED_SIGN
  BY <1>2 DEF Stamped, StoredVersion, ValidSlot, ERASED_SIGN
<1>5. \A s \in BOOLEAN : s # main_selector => StoredVersion(s)' = StoredVersion(s)
  BY OtherSlotKept
<1>6. CASE max_time_stamp + 1 = UINT32_MAX
  <2>1. \A s \in BOOLEAN : s = main_selector => StoredVersion(s)' = ERASED_SIGN
    BY <1>3, <1>6 DEF NewSignature, StoredVersion, ValidSlot, Stamped
  <2>2. \A s \in BOOLEAN : StoredVersion(s)' = StoredVersion(s)
    BY <1>4, <1>5, <2>1
  <2> QED BY <1>1, <2>2 DEF Store!vars
<1>7. CASE max_time_stamp + 1 # UINT32_MAX
  <2>1. \A s \in BOOLEAN : s = main_selector => ValidSlot(s)' /\ StoredVersion(s)' = NewSignature
    <3> SUFFICES ASSUME NEW s \in BOOLEAN, s = main_selector
                 PROVE  ValidSlot(s)' /\ StoredVersion(s)' = NewSignature
      OBVIOUS
    <3>1. crc32_IEEE8023(s)' = crc32_IEEE8023(s)
      BY <1>1 DEF crc32_IEEE8023
    <3>2. sign'[s].crc = crc32_IEEE8023(s) /\ sign'[s].ts = max_time_stamp + 1
      BY <1>3 DEF NewSignature
    <3>3. ValidSlot(s)'
      BY <1>7, <3>1, <3>2 DEF ValidSlot, Stamped, CrcMatches
    <3> QED BY <1>3, <3>3 DEF StoredVersion
  <2>2. SlotsTyped' /\ StampsTyped'
    BY NextTypeOK, SlotTypesNext
  <2>3. NewSignature \in Store!Version
    <3>1. \A s \in BOOLEAN : s = main_selector => sign'[s] \in Store!Version
      BY <2>1, <2>2 DEF StampsTyped
    <3> QED BY <1>t, <1>3, <3>1
  <2>4. Store!SlotBecomes(main_selector, Store!Version)
    BY <1>t, <1>5, <2>1, <2>2, <2>3 DEF Store!SlotBecomes, SlotsTyped
  <2>5. ~Store!Whole(main_selector)
    BY <1>t, <1>4 DEF Store!Whole
  <2>6. ASSUME session.legal, session.scanned, Store!Whole(~main_selector)
        PROVE  StoredVersion(~main_selector).ts < NewSignature.ts
    <3>1. main_selector # variant /\ variant \in BOOLEAN
      BY <1>1, <2>6 DEF StoreInv, AtWork, TypeOK
    <3>2. variant = ~main_selector
      BY <1>t, <3>1
    <3>3. StoredVersion(variant) # ERASED_SIGN
      BY <2>6, <3>1, <3>2 DEF Store!Whole
    <3>4. ValidSlot(variant)
      BY <3>3 DEF StoredVersion
    <3>5. StoredVersion(variant) = sign[variant] /\ sign[variant].ts <= max_time_stamp
      BY <2>6, <3>4 DEF StoreInv, StoredVersion
    <3>6. sign[variant].ts \in Nat
      BY <3>1, StoredTypes, SignatureTypes
    <3>7. NewSignature.ts = max_time_stamp + 1
      BY DEF NewSignature
    <3> QED BY <1>t, <3>2, <3>5, <3>6, <3>7
  <2>7. [s \in BOOLEAN |-> StoredVersion(s)]'[main_selector] = NewSignature
    BY <1>t, <2>1
  <2>8. [s \in BOOLEAN |-> StoredVersion(s)][~main_selector] = StoredVersion(~main_selector)
    BY <1>t
  <2> QED BY <1>1, <2>4, <2>5, <2>6, <2>7, <2>8 DEF Store!Publish
<1> QED BY <1>6, <1>7

\* The first start takes over what slot A holds.
LEMMA FirstSignAdopts ==
  ASSUME TypeOK, SessionInv, StoreInv, [Next]_vars, FirstStartSign
  PROVE  Store!Adopt(SELECTOR_A)
<1>t. sign \in [BOOLEAN -> Signature] /\ main_valid \in BOOLEAN
  BY DEF TypeOK
<1>1. /\ pc = "fs_sign" /\ sign' = Signed /\ flash' = flash
      /\ main_valid' = TRUE /\ UNCHANGED <<variant, session>>
  BY DEF FirstStartSign
<1>2. /\ main_selector = SELECTOR_A /\ variant = SELECTOR_A
      /\ ~main_valid /\ max_time_stamp = 0 /\ ~session.scanned
      /\ sign[SELECTOR_A] = ERASED_SIGN /\ sign[SELECTOR_B] = ERASED_SIGN
  BY <1>1 DEF StoreInv, Untouched, SessionInv
<1>3. sign'[SELECTOR_A] = NewSignature
  BY <1>1, <1>2, <1>t, Selectors DEF Signed
<1>4. \A s \in BOOLEAN : StoredVersion(s) = ERASED_SIGN
  <2>1. \A s \in BOOLEAN : sign[s] = ERASED_SIGN
    BY <1>2, Selectors
  <2> QED BY <2>1 DEF StoredVersion
<1>5. \A s \in BOOLEAN : s # SELECTOR_A => StoredVersion(s)' = StoredVersion(s)
  BY <1>2, OtherSlotKept
<1>6. ValidSlot(SELECTOR_A)'
  <2>1. crc32_IEEE8023(SELECTOR_A)' = crc32_IEEE8023(SELECTOR_A)
    BY <1>1 DEF crc32_IEEE8023, SELECTOR_A
  <2>2. sign'[SELECTOR_A].crc = crc32_IEEE8023(SELECTOR_A) /\ sign'[SELECTOR_A].ts = 1
    BY <1>2, <1>3 DEF NewSignature
  <2>3. UINT32_MAX # 1
    BY CoreAssumption
  <2> QED BY <2>1, <2>2, <2>3 DEF ValidSlot, Stamped, CrcMatches, SELECTOR_A
<1>7. SlotsTyped' /\ StampsTyped'
  BY NextTypeOK, SlotTypesNext
<1>8. StoredVersion(SELECTOR_A)' \in Store!Version
  BY <1>6, <1>7, Selectors DEF StampsTyped, StoredVersion, SELECTOR_A
<1>9. Store!SlotBecomes(SELECTOR_A, Store!Version)
  BY <1>5, <1>7, <1>8, Selectors DEF Store!SlotBecomes, SlotsTyped, SELECTOR_A
<1>10. ~Store!Whole(SELECTOR_A) /\ ~Store!Whole(~SELECTOR_A)
  BY <1>4 DEF Store!Whole, SELECTOR_A
<1> QED BY <1>1, <1>2, <1>9, <1>10 DEF Store!Adopt

\* The scan chooses the newest version there is.
LEMMA ScanChooses ==
  ASSUME TypeOK, SessionInv, [Next]_vars, Scan
  PROVE  Store!Choose
<1>1. sign' = sign /\ session'.legal = TRUE /\ session'.scanned = TRUE
  BY DEF Scan, find_latest_variant, flashVars, TypeOK
<1>2. UNCHANGED [s \in BOOLEAN |-> StoredVersion(s)]
  BY <1>1, SlotsKept
<1>3. \A s \in BOOLEAN : /\ Store!Whole(s) <=> ValidSlot(s)
                         /\ ValidSlot(s) => StoredVersion(s) = sign[s]
  BY SlotTypes DEF StampsTyped, Store!Whole, StoredVersion
<1>4. CASE \E s \in BOOLEAN : ValidSlot(s)
  <2>1. /\ main_valid' /\ variant' \in BOOLEAN /\ ValidSlot(variant')
        /\ \A s \in BOOLEAN : ValidSlot(s) => sign[s].ts <= sign[variant'].ts
    BY <1>4, ScanPicksNewest
  <2>2. PICK v \in BOOLEAN : v = variant'
    BY <2>1
  <2>3. ValidSlot(v) /\ \A s \in BOOLEAN : ValidSlot(s) => sign[s].ts <= sign[v].ts
    BY <2>1, <2>2
  <2>4. Store!Newest(v)
    BY <1>3, <2>3 DEF Store!Newest
  <2> QED BY <1>1, <1>2, <1>3, <1>4, <2>1, <2>2, <2>4 DEF Store!Choose
<1>5. CASE ~\E s \in BOOLEAN : ValidSlot(s)
  <2>1. ~main_valid' /\ main_valid' \in BOOLEAN
    BY <1>5, ScanPicksNewest
  <2> QED BY <1>1, <1>2, <1>3, <1>5, <2>1 DEF Store!Choose
<1> QED BY <1>4, <1>5

\* Whatever a power failure leaves, at most one slot that was not chosen has lost
\* its version, or got one, or has its image under another stamp.
LEMMA PowerLossFails ==
  ASSUME TypeOK, SessionInv, StoreInv, [Next]_vars, PowerLoss
  PROVE  Store!Fail
<1> DEFINE Left(s) == IF Store!Whole(s)
                      THEN {v \in Store!Contents : v # ERASED_SIGN => v.crc = StoredVersion(s).crc}
                      ELSE Store!Contents
<1>t. main_selector \in BOOLEAN /\ variant \in BOOLEAN /\ sign \in [BOOLEAN -> Signature]
  BY DEF TypeOK
<1>1. /\ main_valid' = FALSE
      /\ session'.legal = TRUE /\ session'.scanned = FALSE
  BY DEF PowerLoss, NoSession
<1>2. SlotsTyped /\ SlotsTyped' /\ StampsTyped /\ StampsTyped'
  BY SlotTypes, SlotTypesNext, NextTypeOK
<1>3. ASSUME NEW s \in BOOLEAN, Store!MayChange(s),
             StoredVersion(s)' \in Left(s), StoredVersion(~s)' = StoredVersion(~s)
      PROVE  Store!Fail
  <2>1. [r \in BOOLEAN |-> StoredVersion(r)][s] = StoredVersion(s)
    OBVIOUS
  <2>2. [r \in BOOLEAN |-> StoredVersion(r)]'[s] = StoredVersion(s)'
    OBVIOUS
  <2>3. Store!SlotBecomes(s, IF Store!Whole(s)
                             THEN {v \in Store!Contents : v # ERASED_SIGN =>
                                     v.crc = [r \in BOOLEAN |-> StoredVersion(r)][s].crc}
                             ELSE Store!Contents)
    BY <1>2, <1>3, <2>1, <2>2 DEF Store!SlotBecomes, SlotsTyped
  <2> QED BY <1>1, <1>3, <2>3 DEF Store!Fail
<1>4. CASE sign' = sign
  <2>1. \A s \in BOOLEAN : StoredVersion(s)' = StoredVersion(s)
    BY <1>4, VersionKept
  <2>2. StoredVersion(~variant) \in Left(~variant)
    BY <1>t, <1>2 DEF SlotsTyped
  <2>3. Store!MayChange(~variant)
    BY <1>t DEF Store!MayChange
  <2>4. (~variant) \in BOOLEAN
    BY <1>t
  <2> QED BY <1>3, <2>1, <2>2, <2>3, <2>4
<1>5. CASE sign' # sign
  <2>1. Store!MayChange(main_selector)
    BY <1>5, SignatureSteps, WorkMayChange DEF AtWork
  <2>2. \A s \in BOOLEAN : s # main_selector => StoredVersion(s)' = StoredVersion(s)
    BY OtherSlotKept
  <2>3. ASSUME NEW s \in BOOLEAN, ValidSlot(s), StoredVersion(s)' # ERASED_SIGN
        PROVE  StoredVersion(s)'.crc = StoredVersion(s).crc
    <3>1. sign[s] # ERASED_SIGN
      BY <2>3 DEF ValidSlot, Stamped, ERASED_SIGN
    <3>2. crc32_IEEE8023(s)' = crc32_IEEE8023(s)
      BY <3>1, BodyKept
    <3>3. ValidSlot(s)' /\ StoredVersion(s)' = sign'[s]
      BY <2>3 DEF StoredVersion
    <3> QED BY <2>3, <3>2, <3>3 DEF ValidSlot, CrcMatches, StoredVersion
  <2>4. \A s \in BOOLEAN : StoredVersion(s)' \in Left(s)
    <3>1. \A s \in BOOLEAN : Store!Whole(s) <=> ValidSlot(s)
      BY <1>2 DEF StampsTyped, Store!Whole
    <3>2. \A s \in BOOLEAN : StoredVersion(s)' \in Store!Contents
      BY <1>2 DEF SlotsTyped
    <3> QED BY <2>3, <3>1, <3>2
  <2>5. \A s \in BOOLEAN : s = main_selector =>
          StoredVersion(s)' \in Left(s) /\ StoredVersion(~s)' = StoredVersion(~s)
    BY <2>2, <2>4
  <2> HIDE DEF Left
  <2> QED BY <1>t, <1>3, <2>1, <2>5
<1> QED BY <1>4, <1>5

\* What is left for the other steps is to leave the slots alone and, at most, the
\* protocol.
LEMMA OthersKeepStore ==
  ASSUME TypeOK, SessionInv, StoreInv, [Next]_vars, ~Scan, ~PowerLoss,
         ~FirstStartEraseB, ~FirstStartEraseA, ~FirstStartSign, ~EraseSign, ~SignErase,
         ~SignProgram
  PROVE  Store!Break \/ UNCHANGED Store!vars
<1>t. sign \in [BOOLEAN -> Signature]
  BY DEF TypeOK
<1>1. sign' = sign
  <2>1. CASE EraseBlock
    <3>1. sign' = SignsErased(pos) /\ sign[main_selector] = ERASED_SIGN
      BY <2>1 DEF EraseBlock, SessionInv
    <3>2. \A s \in BOOLEAN : sign'[s] = sign[s]
      <4>1. \A s \in BOOLEAN : sign'[s] = ERASED_SIGN \/ sign'[s] = sign[s]
        BY <3>1 DEF SignsErased
      <4> QED BY <3>1, <4>1, StepConfined
    <3>3. sign' \in [BOOLEAN -> Signature]
      BY NextTypeOK DEF TypeOK
    <3> QED BY <1>t, <3>2, <3>3
  <2>2. CASE ~EraseBlock
    BY <2>2 DEF Next, Device, HostPacket, FirstStart, OpenSession, WritePage, WriteDone,
                StartFlush, DrainDone, LeaveLoop, main_start, Timeout, sfu_command_speed,
                sfu_command_erase, sfu_command_write, sfu_command_start, vars, flashVars
  <2> QED BY <2>1, <2>2
<1>2. UNCHANGED [s \in BOOLEAN |-> StoredVersion(s)]
  BY <1>1, SlotsKept
<1>3. pc \notin {"fs_erase_a", "fs_sign"} \/ UNCHANGED vars
  BY DEF Next, Device, HostPacket, FirstStart, EraseBlock, OpenSession, WritePage,
         WriteDone, StartFlush, DrainDone, LeaveLoop, main_start, Timeout, sfu_command_speed,
         sfu_command_erase, sfu_command_write, sfu_command_start, Receiving
<1>4. CASE UNCHANGED vars
  <2>1. UNCHANGED <<main_valid, variant, session>>
    BY <1>4 DEF vars, mainVars
  <2> QED BY <1>2, <2>1 DEF Store!vars
<1>5. CASE pc \notin {"fs_erase_a", "fs_sign"}
  <2>1. UNCHANGED <<main_valid, variant>> /\ session'.scanned = session.scanned
        /\ (session'.legal => session.legal)
    BY <1>5, HistorySteps
  <2>2. session.legal \in BOOLEAN /\ session'.legal \in BOOLEAN
    BY NextTypeOK DEF TypeOK
  <2>3. session'.legal = session.legal \/ session'.legal = FALSE
    BY <2>1, <2>2
  <2> QED BY <1>2, <2>1, <2>3 DEF Store!Break, Store!vars
<1> QED BY <1>3, <1>4, <1>5

(***************************************************************************)
(* A step of the update core is a step of the store, or leaves it as it is. *)
(***************************************************************************)
LEMMA StoreStep ==
  TypeOK /\ SessionInv /\ StoreInv /\ [Next]_vars => [Store!Next]_(Store!vars)
<1> SUFFICES ASSUME TypeOK, SessionInv, StoreInv, [Next]_vars
             PROVE  [Store!Next]_(Store!vars)
  OBVIOUS
<1>t. main_selector \in BOOLEAN
  BY DEF TypeOK
<1>1. CASE Scan
  BY <1>1, ScanChooses DEF Store!Next
<1>2. CASE FirstStartEraseB \/ FirstStartEraseA \/ EraseSign \/ SignErase
  BY <1>2, <1>t, EraseGivesUp DEF Store!Next
<1>3. CASE FirstStartSign
  BY <1>3, FirstSignAdopts, Selectors DEF Store!Next
<1>4. CASE SignProgram
  BY <1>4, <1>t, SignPublishes DEF Store!Next
<1>5. CASE PowerLoss
  BY <1>5, PowerLossFails DEF Store!Next
<1>6. CASE /\ ~Scan /\ ~PowerLoss /\ ~FirstStartEraseB /\ ~FirstStartEraseA /\ ~FirstStartSign
           /\ ~EraseSign /\ ~SignErase /\ ~SignProgram
  BY <1>6, OthersKeepStore DEF Store!Next
<1> QED BY <1>1, <1>2, <1>3, <1>4, <1>5, <1>6

\* Every board starts as a store of which nothing is chosen.
LEMMA InitStore == Init => Store!Init
<1>1. Init => SlotsTyped
  BY InitTypeOK, SlotTypes
<1> QED BY <1>1 DEF Init, NoSession, Store!Init, SlotsTyped

(***************************************************************************)
(* The bootloader implements the store: find_latest_variant, the SFU       *)
(* commands, the packet timeout and every power failure together do to the *)
(* two slots what SlotStore allows, and nothing else.                      *)
(***************************************************************************)
THEOREM ImplementsTheStore == Spec => ImplementsStore
<1>1. Init => Store!Init
  BY InitStore
<1>2. TypeOK /\ SessionInv /\ StoreInv /\ [Next]_vars => [Store!Next]_(Store!vars)
  BY StoreStep
<1> QED BY <1>1, <1>2, StoreInvariant, PTL DEF Spec, ImplementsStore, Store!Spec

----------------------------------------------------------------------------
(* What the store promises holds of the bootloader *)


\* No step of the store leaves the chosen slot empty while the host keeps to the
\* protocol.
LEMMA StoreKeepsChosen ==
  ASSUME TypeOK, Store!ChosenIsWhole, [Store!Next]_(Store!vars)
  PROVE  Store!ChosenIsWhole'
<1> DEFINE slots == [s \in BOOLEAN |-> StoredVersion(s)]
           chosen == IF main_valid THEN {variant} ELSE {}
           kept == session.legal
<1>t. chosen \subseteq BOOLEAN /\ ERASED_SIGN \notin Store!Version
  BY StoredTypes DEF TypeOK
<1>1. Store!ChosenIsWhole <=> (kept => \A s \in chosen : slots[s] # ERASED_SIGN)
  BY DEF Store!ChosenIsWhole, Store!Whole
<1>2. Store!ChosenIsWhole' <=> (kept' => \A s \in chosen' : slots'[s] # ERASED_SIGN)
  BY DEF Store!ChosenIsWhole, Store!Whole
<1>3. ASSUME UNCHANGED <<slots, chosen, kept>> PROVE Store!ChosenIsWhole'
  <2> HIDE DEF slots, chosen, kept
  <2> QED BY <1>1, <1>2, <1>3
<1>4. CASE UNCHANGED Store!vars
  BY <1>3, <1>4 DEF Store!vars
<1>5. CASE Store!Choose
  <2>1. /\ UNCHANGED slots
        /\ \A s \in chosen' : slots[s] # ERASED_SIGN
    BY <1>5 DEF Store!Choose, Store!Newest, Store!Whole
  <2> HIDE DEF slots, chosen, kept
  <2> QED BY <1>2, <2>1
<1>6. CASE Store!Break \/ Store!Fail
  <2>1. ~kept' \/ chosen' = {}
    BY <1>6 DEF Store!Break, Store!Fail
  <2> HIDE DEF slots, chosen, kept
  <2> QED BY <1>2, <2>1
<1>7. ASSUME NEW s \in BOOLEAN, Store!GiveUp(s) PROVE Store!ChosenIsWhole'
  <2>1. /\ kept => s \notin chosen
        /\ slots'[~s] = slots[~s] /\ UNCHANGED <<chosen, kept>>
    BY <1>7 DEF Store!GiveUp, Store!MayChange, Store!SlotBecomes
  <2> HIDE DEF slots, chosen, kept
  <2>2. kept => \A r \in chosen : r = ~s
    BY <1>t, <2>1
  <2> QED BY <1>1, <1>2, <2>1, <2>2
<1>8. ASSUME NEW s \in BOOLEAN, Store!Publish(s) PROVE Store!ChosenIsWhole'
  <2>1. /\ slots'[s] \in Store!Version
        /\ slots'[~s] = slots[~s] /\ UNCHANGED <<chosen, kept>>
    BY <1>8 DEF Store!Publish, Store!SlotBecomes
  <2> HIDE DEF slots, chosen, kept
  <2>2. \A r \in chosen : r = s \/ r = ~s
    BY <1>t
  <2> QED BY <1>t, <1>1, <1>2, <2>1, <2>2
<1>9. ASSUME NEW s \in BOOLEAN, Store!Adopt(s) PROVE Store!ChosenIsWhole'
  <2>1. slots'[s] \in Store!Version /\ chosen' = {s}
    BY <1>9 DEF Store!Adopt, Store!SlotBecomes
  <2> HIDE DEF slots, chosen, kept
  <2> QED BY <1>t, <1>2, <2>1
<1> QED BY <1>4, <1>5, <1>6, <1>7, <1>8, <1>9 DEF Store!Next

\* No board starts with a slot chosen.
LEMMA InitChosen == Init => Store!ChosenIsWhole
BY DEF Init, Store!ChosenIsWhole

\* The store's promise, of every state of the bootloader.
LEMMA ChosenStaysWhole == Spec => [](TypeOK /\ Store!ChosenIsWhole)
<1>1. TypeOK /\ SessionInv /\ StoreInv /\ Store!ChosenIsWhole /\ [Next]_vars
        => Store!ChosenIsWhole'
  BY StoreStep, StoreKeepsChosen
<1> QED BY <1>1, InitChosen, StoreInvariant, PTL DEF Spec

(***************************************************************************)
(* The fallback of the A/B scheme: through every update that keeps to the  *)
(* protocol, and every power failure in it, the slot the scan chose stays  *)
(* whole and valid.                                                        *)
(***************************************************************************)
THEOREM ChosenSlotSurvives == Spec => []ActiveSlotSurvives
<1>1. TypeOK /\ Store!ChosenIsWhole => ActiveSlotSurvives
  <2> SUFFICES ASSUME TypeOK, Store!ChosenIsWhole, main_valid, session.legal
               PROVE  ValidSlot(variant)
    BY DEF ActiveSlotSurvives
  <2>1. variant \in BOOLEAN
    BY DEF TypeOK
  <2>2. StoredVersion(variant) # ERASED_SIGN
    BY <2>1 DEF Store!ChosenIsWhole, Store!Whole
  <2> QED BY <2>2 DEF StoredVersion
<1> QED BY <1>1, ChosenStaysWhole, PTL

(***************************************************************************)
(* The scan finds a slot if and only if one is valid, and none that is     *)
(* valid is newer than the one it chooses.                                 *)
(***************************************************************************)
THEOREM ScanIsRight == Spec => BootPicksNewest
<1>1. TypeOK /\ Scan =>
        /\ main_valid' <=> \E s \in BOOLEAN : ValidSlot(s)
        /\ main_valid' => /\ main_selector' = variant' /\ ValidSlot(variant')
                          /\ \A s \in BOOLEAN : ValidSlot(s) => sign[s].ts <= sign[variant'].ts
  BY ScanPicksNewest
<1> QED BY <1>1, SessionInvariant, PTL DEF BootPicksNewest

(***************************************************************************)
(* Behind a scan, an update that keeps to the protocol is stamped newer    *)
(* than the slot it leaves behind, until the stamps are used up.           *)
(***************************************************************************)
THEOREM UpdatesAreNewest == Spec => UpdateIsNewest
<1>1. TypeOK /\ SessionInv /\ StoreInv /\ session.scanned => StampsNewest
  <2> SUFFICES ASSUME TypeOK, SessionInv, StoreInv, session.scanned, SignProgram,
                      session.legal, ValidSlot(~main_selector)
               PROVE  sign'[main_selector].ts > sign[~main_selector].ts
    BY DEF StampsNewest
  <2>t. main_selector \in BOOLEAN /\ variant \in BOOLEAN /\ max_time_stamp \in Nat
        /\ sign \in [BOOLEAN -> Signature]
    BY DEF TypeOK
  <2>1. main_selector # variant
    BY DEF SignProgram, StoreInv, AtWork
  <2>2. variant = ~main_selector
    BY <2>t, <2>1
  <2>3. sign[variant].ts <= max_time_stamp
    BY <2>2 DEF StoreInv
  <2>4. sign'[main_selector].ts = max_time_stamp + 1
    BY <2>t DEF SignProgram, Signed, NewSignature
  <2>5. sign[variant].ts \in Nat
    BY <2>t, StoredTypes, SignatureTypes
  <2> QED BY <2>t, <2>2, <2>3, <2>4, <2>5
<1> QED BY <1>1, StoreInvariant, PTL DEF Spec, UpdateIsNewest
=============================================================================
