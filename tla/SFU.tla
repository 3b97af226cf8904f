-------------------------------- MODULE SFU --------------------------------
(***************************************************************************)
(* The update core of the bootloader: main() of rp2040SFU.c and the SFU    *)
(* commands of sfu_commands.c (the USING_PICO_SDK build).                  *)
(*                                                                         *)
(* One action is one handler, cut where it erases or programs flash, so    *)
(* that PowerLoss can fall before, into and after each flash operation.    *)
(* The packet layer hands over whole packets; a packet that comes while a  *)
(* handler runs waits in the receive buffer.  CRC32 is taken to have no    *)
(* collisions: fw_fullbody_crc32 is the sequence of the cells folded into  *)
(* it (UINT32_MAX is the empty one), crc32_IEEE8023 the body itself.       *)
(***************************************************************************)
EXTENDS Bin2PageStream, FiniteSets

CONSTANTS
  JUNK,                \* what an interrupted or repeated flash operation leaves
  NO_CRC, TORN_CRC,    \* an erased CRC word; one that is no body's CRC
  UINT32_MAX,          \* the time stamp of an erased signature
  ContextOk(_, _),     \* check_run_context: does this cell fit that slot?
  PACKET_TIMEOUT_mS, BOOT_WAIT_mS,
  BAUD_RATE_DEFAULT,
  Boards,              \* the boards a device may be switched on with
  Streams,             \* the update files of the host
  PacketSizes,         \* how many cells a WRITE carries (the file's last may be less)
  EraseSizes,          \* the firmware sizes the host announces
  Bauds,               \* the line speeds the host asks for
  MAX_STREAM           \* bound: cells folded into fw_fullbody_crc32

BodyImage == [0 .. (FLASH_SIZE_CORRECT - 1) -> Cells]
Signature == [crc : BodyImage \union {NO_CRC, TORN_CRC}, ts : 0 .. UINT32_MAX]
ERASED_SIGN == [crc |-> NO_CRC, ts |-> UINT32_MAX]

ASSUME CoreAssumption ==
  /\ JUNK \in Cells /\ JUNK # FF
  /\ NO_CRC \notin BodyImage /\ TORN_CRC \notin BodyImage /\ NO_CRC # TORN_CRC
  /\ UINT32_MAX \in Nat \ {0, 1}
  /\ \A c \in Cells, sel \in BOOLEAN : ContextOk(c, sel) \in BOOLEAN
  /\ PACKET_TIMEOUT_mS \in Nat \ {0} /\ BOOT_WAIT_mS \in Nat \ {0}
  /\ \A board \in Boards : /\ board.flash \in [FlashAddr -> Cells]
                           /\ board.sign \in [BOOLEAN -> Signature]
  /\ \A s \in Streams : s \in Seq(Cells) /\ s # <<>>
  /\ PacketSizes \subseteq Nat \ {0} /\ EraseSizes \subseteq Nat
  /\ BAUD_RATE_DEFAULT \in Bauds
  /\ MAX_STREAM \in Nat

\* The host cuts its file at the end of a page.  Data that does not end there is
\* padded by sfu_command_write, and the padding gets into the middle of the image.
ASSUME HostAssumption == \A n \in PacketSizes : n % FLASH_PAGE_SIZE = 0

VARIABLES
  flash,                \* the cells of the flash, signatures apart
  sign,                 \* MAIN_CRC and MAIN_TIME_STAMP of each slot
  main_selector, main_update_started, max_time_stamp, fw_fullbody_crc32,
  write_addr, write_addr_real, write_error,
  dec,                  \* bin2page_decoder.c's buffers
  main_valid, variant,  \* main()'s locals
  stat_error_timeout,
  baud,                 \* g_uart_baud
  pc,                   \* where the one thread of the program stands
  firmware_size, pos,   \* locals of sfu_command_erase
  body,                 \* rest of a WRITE's data, or a START's expected CRC
  session               \* history: the host's file, and what it did (below)

flashVars == <<flash, sign>>
mainVars == <<main_valid, variant, stat_error_timeout>>
addrVars == <<write_addr, write_addr_real, write_error>>
localVars == <<firmware_size, pos, body>>
vars == <<flashVars, main_selector, main_update_started, max_time_stamp,
          fw_fullbody_crc32, addrVars, dec, mainVars, baud, pc, localVars, session>>

(***************************************************************************)
(* History, read by properties only.  file: what the host is sending;      *)
(* legal: since the last scan of the slots, every ERASE came while the     *)
(* selector was on the slot that scan chose, and every START while a       *)
(* session was open; clean: such a START found no write error, up to and   *)
(* including its own flush; scanned: the slots were scanned since power-on *)
(* (a first start does not).                                               *)
(***************************************************************************)
NoSession == [file |-> <<>>, legal |-> TRUE, clean |-> FALSE, scanned |-> FALSE]

----------------------------------------------------------------------------
(* Flash and slots *)

crc32_IEEE8023(sel) ==
  [i \in 0 .. (FLASH_SIZE_CORRECT - 1) |-> flash[MAIN_START_FROM(sel) + i]]

\* Mutant of Stamped: an erased signature is taken for a stamp.
EverySlotStamped(sel) == sel \in BOOLEAN

Stamped(sel) == sign[sel].ts # UINT32_MAX
CrcMatches(sel) == crc32_IEEE8023(sel) = sign[sel].crc
ValidSlot(sel) == Stamped(sel) /\ CrcMatches(sel)

check_run_context(sel) == ContextOk(flash[MAIN_RUN_FROM(sel)], sel)

\* Programming clears bits: only an erased cell takes any value.
ProgramCell(old, new) == IF old = FF THEN new ELSE IF old = new THEN old ELSE JUNK

Programmed(addr, page) ==
  [a \in FlashAddr |->
     IF a \in PageRange(addr) THEN ProgramCell(flash[a], page[a - addr + 1]) ELSE flash[a]]

BlockErased(p) ==
  [a \in FlashAddr |-> IF a \in EraseRange(main_selector, p) THEN FF ELSE flash[a]]

\* An erase block that reaches a signature's sector takes the signature along.
SignsErased(p) ==
  [s \in BOOLEAN |-> IF EraseRange(main_selector, p) \cap SignSector(s) # {}
                     THEN ERASED_SIGN ELSE sign[s]]

\* Mutant of NewSignature: the stamp is not advanced.
SameStampAgain == [crc |-> crc32_IEEE8023(main_selector), ts |-> max_time_stamp]

NewSignature == [crc |-> crc32_IEEE8023(main_selector), ts |-> max_time_stamp + 1]
Signed == [sign EXCEPT ![main_selector] = NewSignature]

\* Mutant of erase_sign_block: the signature stays where it is.
SignKept == sign

erase_sign_block == [sign EXCEPT ![main_selector] = ERASED_SIGN]

----------------------------------------------------------------------------
(* find_latest_variant, when it is not the first start *)

\* Mutant of FirstChoice: the comparison the wrong way round.
OldestFirst ==
  IF Stamped(SELECTOR_A) /\ Stamped(SELECTOR_B)
  THEN IF sign[SELECTOR_A].ts <= sign[SELECTOR_B].ts THEN SELECTOR_A ELSE SELECTOR_B
  ELSE Stamped(SELECTOR_B)

\* The slot whose signature is tried first; max_time_stamp is its time stamp.
FirstChoice ==
  IF Stamped(SELECTOR_A) /\ Stamped(SELECTOR_B)
  THEN IF sign[SELECTOR_A].ts >= sign[SELECTOR_B].ts THEN SELECTOR_A ELSE SELECTOR_B
  ELSE Stamped(SELECTOR_B)

\* The slots it accepts; the second choice only if both are stamped.
Found == {s \in BOOLEAN : ValidSlot(s)}

find_latest_variant ==
  /\ main_valid' = (Found # {})
  /\ variant' = IF FirstChoice \in Found THEN FirstChoice
                ELSE IF Found # {} THEN ~FirstChoice ELSE variant
  /\ max_time_stamp' = IF Stamped(FirstChoice) THEN sign[FirstChoice].ts ELSE 0
  /\ main_selector' = variant'
  /\ session' = [session EXCEPT !.legal = TRUE, !.clean = FALSE, !.scanned = TRUE]

InWait == stat_error_timeout * PACKET_TIMEOUT_mS < BOOT_WAIT_mS

\* main() goes on behind the call: to the command loop, or to main_start.
AfterFind == IF InWait THEN "loop" ELSE "launch"

Scan ==
  /\ pc = "find" /\ flash[NV_PARAM_BLOCK] # FF
  /\ find_latest_variant
  /\ pc' = AfterFind
  /\ UNCHANGED <<flashVars, main_update_started, fw_fullbody_crc32, addrVars, dec,
                 stat_error_timeout, baud, localVars>>

----------------------------------------------------------------------------
(* The first start: both signatures are erased, then A is signed as it is  *)

FirstStart ==
  /\ pc = "find" /\ flash[NV_PARAM_BLOCK] = FF
  /\ flash' = [flash EXCEPT ![NV_PARAM_BLOCK] = JUNK]
  /\ main_selector' = SELECTOR_B
  /\ pc' = "fs_erase_b"
  /\ UNCHANGED <<sign, main_update_started, max_time_stamp, fw_fullbody_crc32, addrVars,
                 dec, mainVars, baud, localVars, session>>

FirstStartEraseB ==
  /\ pc = "fs_erase_b"
  /\ sign' = erase_sign_block
  /\ main_selector' = SELECTOR_A
  /\ pc' = "fs_erase_a"
  /\ UNCHANGED <<flash, main_update_started, max_time_stamp, fw_fullbody_crc32, addrVars,
                 dec, mainVars, baud, localVars, session>>

FirstStartEraseA ==
  /\ pc = "fs_erase_a"
  /\ sign' = erase_sign_block
  /\ variant' = SELECTOR_A
  /\ main_valid' = FALSE
  /\ pc' = IF check_run_context(SELECTOR_A) THEN "fs_sign" ELSE AfterFind
  /\ UNCHANGED <<flash, main_selector, main_update_started, max_time_stamp,
                 fw_fullbody_crc32, addrVars, dec, stat_error_timeout, baud, localVars,
                 session>>

\* add_sign_crc on a signature that was just erased.
FirstStartSign ==
  /\ pc = "fs_sign"
  /\ sign' = Signed
  /\ main_valid' = TRUE
  /\ pc' = AfterFind
  /\ UNCHANGED <<flash, main_selector, main_update_started, max_time_stamp,
                 fw_fullbody_crc32, addrVars, dec, variant, stat_error_timeout, baud,
                 localVars, session>>

----------------------------------------------------------------------------
(* Packets.  At most one is handled in a call of receive_packets_worker,   *)
(* behind the test for the timeout.                                        *)

Receiving == (pc = "loop" /\ InWait) \/ pc = "drain"

\* Many packets are answered and change nothing: INFO, a WRITE out of place or
\* outside a session, an ERASE of a size it refuses, a SPEED out of range.  They
\* are stuttering steps, or DrainDone.

sfu_command_speed ==
  /\ Receiving
  /\ baud' \in Bauds
  /\ pc' = "loop"
  /\ UNCHANGED <<flashVars, main_selector, main_update_started, max_time_stamp,
                 fw_fullbody_crc32, addrVars, dec, mainVars, localVars, session>>

\* Mutant of UpdateTarget: the update goes to the slot the selector is on.
SameSlot == main_selector

UpdateTarget == ~main_selector

sfu_command_erase ==
  /\ Receiving
  /\ firmware_size' \in EraseSizes
  /\ 0 < firmware_size' /\ firmware_size' <= FLASH_SIZE_CORRECT
  /\ session' = [session EXCEPT !.file = <<>>, !.clean = FALSE,
                                !.legal = session.legal /\ main_selector = variant]
  /\ fw_fullbody_crc32' = <<>>
  /\ main_selector' = UpdateTarget
  /\ main_update_started' = TRUE
  /\ dec' = bin2page_reset
  /\ pc' = "erase_sign"
  /\ UNCHANGED <<flashVars, max_time_stamp, addrVars, mainVars, baud, pos, body>>

EraseSign ==
  /\ pc = "erase_sign"
  /\ sign' = erase_sign_block
  /\ pos' = 0
  /\ pc' = "erase_blocks"
  /\ UNCHANGED <<flash, main_selector, main_update_started, max_time_stamp,
                 fw_fullbody_crc32, addrVars, dec, mainVars, baud, firmware_size, body,
                 session>>

EraseBlock ==
  /\ pc = "erase_blocks" /\ pos < firmware_size
  /\ flash' = BlockErased(pos) /\ sign' = SignsErased(pos)
  /\ pos' = pos + FLASH_BLOCK_SIZE
  /\ UNCHANGED <<main_selector, main_update_started, max_time_stamp, fw_fullbody_crc32,
                 addrVars, dec, mainVars, baud, pc, firmware_size, body, session>>

\* The verification that comes first only prints what it finds: a failed erase
\* would go on here as well.
OpenSession ==
  /\ pc = "erase_blocks" /\ pos >= firmware_size
  /\ write_addr' = MAIN_START_FROM(main_selector)
  /\ write_addr_real' = MAIN_START_FROM(main_selector)
  /\ write_error' = FALSE
  /\ pos' = 0
  /\ pc' = "loop"
  /\ UNCHANGED <<flashVars, main_selector, main_update_started, max_time_stamp,
                 fw_fullbody_crc32, dec, mainVars, baud, firmware_size, body, session>>

----------------------------------------------------------------------------
(* sfu_real_writer, the decoder's callback *)

CoversContext(addr) ==
  /\ addr <= MAIN_RUN_FROM(main_selector)
  /\ addr + FLASH_PAGE_SIZE >= MAIN_RUN_FROM(main_selector) + CONTEXT_SIZE

WriterAccepts(page) ==
  /\ main_update_started
  /\ CoversContext(write_addr_real) =>
       ContextOk(page[MAIN_RUN_FROM(main_selector) - write_addr_real + 1], main_selector)
  /\ write_addr_real + FLASH_PAGE_SIZE <= MAIN_END(main_selector)

\* What the writer does to the flash and to write_addr_real; <<>> is no call.
Written(page) ==
  page # <<>> /\ WriterAccepts(page)
Refused(page) ==
  page # <<>> /\ ~WriterAccepts(page)

sfu_real_writer(page) ==
  flash' = IF Written(page) THEN Programmed(write_addr_real, page) ELSE flash

----------------------------------------------------------------------------
(* WRITE *)

\* The host sends a whole number of pages, or the rest of its file, and stays
\* with the file whose first cells were taken.
HostFiles == IF fw_fullbody_crc32 = <<>> THEN Streams ELSE {session.file}
HostWrites(file) ==
  {w \in (0 .. Len(file) - 1) \X (1 .. Len(file)) :
     w[1] + w[2] <= Len(file) /\ (w[2] \in PacketSizes \/ w[1] + w[2] = Len(file))}

\* Mutant of InOrder: data is taken whatever its address.
AnyOrder(body_addr) == body_addr \in Nat

InOrder(body_addr) == body_addr = write_addr

sfu_command_write ==
  /\ Receiving
  /\ InFlashWindow(write_addr)
  /\ \E file \in HostFiles, sel \in BOOLEAN : \E w \in HostWrites(file) :
       LET body_addr == MAIN_START_FROM(sel) + w[1]
           data      == SubSeq(file, w[1] + 1, w[1] + w[2])
       IN  /\ InOrder(body_addr)
           /\ Len(fw_fullbody_crc32) + w[2] <= MAX_STREAM
           /\ body' = data
           /\ fw_fullbody_crc32' = fw_fullbody_crc32 \o data
           /\ pos' = w[2]
           /\ session' = [session EXCEPT !.file = file]
  /\ pc' = "write"
  /\ UNCHANGED <<flashVars, main_selector, main_update_started, max_time_stamp, addrVars,
                 dec, mainVars, baud, firmware_size>>

\* One round of the loop over the packet's pages.
WriteStep == bin2page_decode(dec, Padded(body), main_selector)

WritePage ==
  /\ pc = "write" /\ body # <<>>
  /\ dec' = WriteStep.dec
  /\ sfu_real_writer(WriteStep.page)
  /\ write_addr_real' =
       IF Written(WriteStep.page) THEN write_addr_real + FLASH_PAGE_SIZE ELSE write_addr_real
  /\ write_error' = (write_error \/ Refused(WriteStep.page))
  /\ IF write_error'
     THEN body' = <<>> /\ pos' = 0 /\ pc' = "loop"     \* WRERROR: write_addr stays
     ELSE body' = AfterPage(body) /\ UNCHANGED <<pos, pc>>
  /\ UNCHANGED <<sign, main_selector, main_update_started, max_time_stamp,
                 fw_fullbody_crc32, write_addr, mainVars, baud, firmware_size, session>>

\* Mutant of WriteDone: the padding of the last page is acknowledged as well.
WriteDoneByPages ==
  /\ pc = "write" /\ body = <<>>
  /\ write_addr' = write_addr + pos + (pos % FLASH_PAGE_SIZE)
  /\ pos' = 0
  /\ pc' = "loop"
  /\ UNCHANGED <<flashVars, main_selector, main_update_started, max_time_stamp,
                 fw_fullbody_crc32, write_addr_real, write_error, dec, mainVars, baud,
                 firmware_size, body, session>>

WriteDone ==
  /\ pc = "write" /\ body = <<>>
  /\ write_addr' = write_addr + pos
  /\ pos' = 0
  /\ pc' = "loop"
  /\ UNCHANGED <<flashVars, main_selector, main_update_started, max_time_stamp,
                 fw_fullbody_crc32, write_addr_real, write_error, dec, mainVars, baud,
                 firmware_size, body, session>>

----------------------------------------------------------------------------
(* START *)

\* Mutant of CloseSession: write_addr survives the session.
CloseSessionKeepsAddress ==
  /\ write_addr' = write_addr /\ write_addr_real' = 0 /\ write_error' = FALSE
  /\ main_update_started' = FALSE

CloseSession ==
  /\ write_addr' = 0 /\ write_addr_real' = 0 /\ write_error' = FALSE
  /\ main_update_started' = FALSE

\* The host sends the CRC of its file, that of no bytes at all, or one that does
\* not match.
sfu_command_start ==
  /\ Receiving
  /\ body' \in {session.file, <<>>, <<JUNK>>}
  /\ pc' = "start"
  /\ session' = [session EXCEPT !.legal = session.legal /\ main_update_started]
  /\ UNCHANGED <<flashVars, main_selector, main_update_started, max_time_stamp,
                 fw_fullbody_crc32, addrVars, dec, mainVars, baud, firmware_size, pos>>

\* Mutant of FlushStep: what the decoder holds back is forgotten.
NoFlush == [dec |-> dec, page |-> <<>>]

\* The flush, the end of the session, and the decision whether to sign.
FlushStep == bin2page_finish(dec)

StartFlush ==
  /\ pc = "start"
  /\ dec' = FlushStep.dec
  /\ sfu_real_writer(FlushStep.page)
  /\ session' = [session EXCEPT !.clean = /\ session.legal /\ main_update_started
                                          /\ ~write_error /\ ~Refused(FlushStep.page)]
  /\ CloseSession
  /\ body' = <<>>
  /\ pc' = IF dec.errors \/ fw_fullbody_crc32 # body THEN "loop"
           ELSE IF sign[main_selector] # ERASED_SIGN THEN "sign_erase" ELSE "sign"
  /\ UNCHANGED <<sign, main_selector, max_time_stamp, fw_fullbody_crc32, mainVars, baud,
                 firmware_size, pos>>

\* add_sign_crc: the CRC is the one read before the erase, of a body that no
\* erase of a signature touches.
SignErase ==
  /\ pc = "sign_erase"
  /\ sign' = erase_sign_block
  /\ pc' = "sign"
  /\ UNCHANGED <<flash, main_selector, main_update_started, max_time_stamp,
                 fw_fullbody_crc32, addrVars, dec, mainVars, baud, localVars, session>>

\* ... and main_start, whose context check leads to the firmware or back.
SignProgram ==
  /\ pc = "sign"
  /\ sign' = Signed
  /\ pc' = IF check_run_context(main_selector) THEN "app" ELSE "loop"
  /\ UNCHANGED <<flash, main_selector, main_update_started, max_time_stamp,
                 fw_fullbody_crc32, addrVars, dec, mainVars, baud, localVars, session>>

----------------------------------------------------------------------------
(* The packet timeout and main()'s loop *)

\* Mutant of Timeout: counted only when there is a session to close.
TimeoutOfSession ==
  /\ pc = "loop" /\ InWait /\ write_addr # 0
  /\ stat_error_timeout' = stat_error_timeout + 1
  /\ CloseSession /\ baud' = BAUD_RATE_DEFAULT
  /\ pc' = "drain"
  /\ UNCHANGED <<flashVars, main_selector, max_time_stamp, fw_fullbody_crc32, dec,
                 main_valid, variant, localVars, session>>

\* sfu_command_timeout does nothing while write_addr is 0.
Timeout ==
  /\ pc = "loop" /\ InWait
  /\ stat_error_timeout' = stat_error_timeout + 1
  /\ IF write_addr = 0
     THEN UNCHANGED <<addrVars, main_update_started, baud>>
     ELSE CloseSession /\ baud' = BAUD_RATE_DEFAULT
  /\ pc' = "drain"
  /\ UNCHANGED <<flashVars, main_selector, max_time_stamp, fw_fullbody_crc32, dec,
                 main_valid, variant, localVars, session>>

\* No packet is waiting behind the timeout, or one that is only answered.
DrainDone ==
  /\ pc = "drain"
  /\ pc' = "loop"
  /\ UNCHANGED <<flashVars, main_selector, main_update_started, max_time_stamp,
                 fw_fullbody_crc32, addrVars, dec, mainVars, baud, localVars, session>>

\* Mutant of LeaveLoop: the session stays open across the scan.
LeaveLoopKeepsSession ==
  /\ pc = "loop" /\ ~InWait
  /\ pc' = IF main_update_started THEN "find" ELSE "launch"
  /\ UNCHANGED <<flashVars, main_selector, main_update_started, max_time_stamp,
                 fw_fullbody_crc32, addrVars, dec, mainVars, baud, localVars, session>>

LeaveLoop ==
  /\ pc = "loop" /\ ~InWait
  /\ main_update_started' = FALSE
  /\ pc' = IF main_update_started THEN "find" ELSE "launch"
  /\ UNCHANGED <<flashVars, main_selector, max_time_stamp, fw_fullbody_crc32, addrVars,
                 dec, mainVars, baud, localVars, session>>

main_start ==
  /\ pc = "launch"
  /\ stat_error_timeout' = 0
  /\ pc' = IF main_valid /\ check_run_context(main_selector) THEN "app" ELSE "loop"
  /\ UNCHANGED <<flashVars, main_selector, main_update_started, max_time_stamp,
                 fw_fullbody_crc32, addrVars, dec, main_valid, variant, baud, localVars,
                 session>>

----------------------------------------------------------------------------
(* Power *)

\* What an operation cut short may leave.  A page is programmed in order; an
\* erase that did not finish leaves anything, which is what JUNK stands for.
TornErase(range) == [a \in FlashAddr |-> IF a \in range THEN JUNK ELSE flash[a]]

TornProgram(addr, page) ==
  {[a \in FlashAddr |->
      IF a \in PageRange(addr) /\ a <= cut
      THEN IF a = cut THEN JUNK ELSE ProgramCell(flash[a], page[a - addr + 1])
      ELSE flash[a]] : cut \in PageRange(addr)}

TornSignErase ==
  {[sign EXCEPT ![main_selector] = [crc |-> c, ts |-> t]] :
     c \in {sign[main_selector].crc, TORN_CRC}, t \in 0 .. UINT32_MAX}

\* Clearing bits one by one never falls below the value to be written.
TornSign ==
  {[sign EXCEPT ![main_selector] = [crc |-> c, ts |-> t]] :
     c \in {TORN_CRC, NewSignature.crc}, t \in NewSignature.ts .. UINT32_MAX}

\* The flash and the signatures as a power failure leaves them at this pc.
FlashLeft ==
  {flash} \union
  (CASE pc = "erase_blocks" /\ pos < firmware_size ->
          {TornErase(EraseRange(main_selector, pos))}
     [] pc = "write" /\ body # <<>> /\ Written(WriteStep.page) ->
          TornProgram(write_addr_real, WriteStep.page)
     [] pc = "start" /\ Written(FlushStep.page) ->
          TornProgram(write_addr_real, FlushStep.page)
     [] OTHER -> {})

SignLeft ==
  {sign} \union
  (CASE pc \in {"fs_erase_b", "fs_erase_a", "erase_sign", "sign_erase"} -> TornSignErase
     [] pc \in {"fs_sign", "sign"} -> TornSign
     [] pc = "erase_blocks" /\ pos < firmware_size
          /\ EraseRange(main_selector, pos) \cap SignSector(main_selector) # {} -> TornSignErase
     [] OTHER -> {})

PowerLoss ==
  /\ flash' \in FlashLeft
  /\ sign' \in SignLeft
  /\ main_selector' = SELECTOR_A /\ main_update_started' = FALSE
  /\ max_time_stamp' = 0 /\ fw_fullbody_crc32' = <<>>
  /\ write_addr' = 0 /\ write_addr_real' = 0 /\ write_error' = FALSE
  /\ dec' = bin2page_reset
  /\ main_valid' = FALSE /\ variant' = SELECTOR_A /\ stat_error_timeout' = 0
  /\ baud' = BAUD_RATE_DEFAULT
  /\ pc' = "find"
  /\ firmware_size' = 0 /\ pos' = 0 /\ body' = <<>>
  /\ session' = NoSession

----------------------------------------------------------------------------

Init ==
  /\ \E board \in Boards : flash = board.flash /\ sign = board.sign
  /\ main_selector = SELECTOR_A /\ main_update_started = FALSE
  /\ max_time_stamp = 0 /\ fw_fullbody_crc32 = <<>>
  /\ write_addr = 0 /\ write_addr_real = 0 /\ write_error = FALSE
  /\ dec = bin2page_reset
  /\ main_valid = FALSE /\ variant = SELECTOR_A /\ stat_error_timeout = 0
  /\ baud = BAUD_RATE_DEFAULT
  /\ pc = "find"
  /\ firmware_size = 0 /\ pos = 0 /\ body = <<>>
  /\ session = NoSession

Device ==
  \/ Scan \/ FirstStart \/ FirstStartEraseB \/ FirstStartEraseA \/ FirstStartSign
  \/ EraseSign \/ EraseBlock \/ OpenSession
  \/ WritePage \/ WriteDone
  \/ StartFlush \/ SignErase \/ SignProgram
  \/ DrainDone \/ LeaveLoop \/ main_start

HostPacket ==
  \/ sfu_command_speed \/ sfu_command_erase \/ sfu_command_write \/ sfu_command_start

Next == Device \/ Timeout \/ HostPacket \/ PowerLoss

Spec == Init /\ [][Next]_vars
=============================================================================
