--------------------------- MODULE SFUProperties ---------------------------
(***************************************************************************)
(* What the update core promises: the properties of SFU.tla.               *)
(***************************************************************************)
EXTENDS SFU

ProgramPoints ==
  {"find", "fs_erase_b", "fs_erase_a", "fs_sign", "loop", "drain", "launch", "app",
   "erase_sign", "erase_blocks", "write", "start", "sign_erase", "sign"}

(***************************************************************************)
(* The types of the variables, the room of the time stamp (add_sign_crc    *)
(* adds 1 to max_time_stamp without a test) included.                      *)
(***************************************************************************)
TypeOK ==
  /\ flash \in [FlashAddr -> Cells]
  /\ sign \in [BOOLEAN -> Signature]
  /\ main_selector \in BOOLEAN /\ main_update_started \in BOOLEAN
  /\ max_time_stamp \in 0 .. (UINT32_MAX - 1)
  /\ fw_fullbody_crc32 \in Seq(Cells)
  /\ write_addr \in Nat /\ write_addr_real \in Nat /\ write_error \in BOOLEAN
  /\ dec \in DecoderState /\ Len(dec.input) < FLASH_PAGE_SIZE
                          /\ Len(dec.result) < FLASH_PAGE_SIZE
  /\ main_valid \in BOOLEAN /\ variant \in BOOLEAN
  /\ stat_error_timeout \in Nat /\ baud \in Bauds
  /\ pc \in ProgramPoints
  /\ firmware_size \in Nat /\ pos \in Nat /\ body \in Seq(Cells)
  /\ session \in [file : Seq(Cells), legal : BOOLEAN, clean : BOOLEAN, scanned : BOOLEAN]

----------------------------------------------------------------------------
(* Where flash may change *)

\* Between the packet ERASE and the answer the slot is being erased.
Erasing == pc \in {"erase_sign", "erase_blocks"}

(***************************************************************************)
(* While a session is open (main_update_started, behind ERASE) the slot it *)
(* writes carries no signature and the writer's address is in that slot:   *)
(* no interleaving of packets, timeouts and rescans leaves the flag set    *)
(* with the selector or the address of another slot.                       *)
(***************************************************************************)
SessionInSlot ==
  main_update_started /\ ~Erasing =>
    /\ sign[main_selector] = ERASED_SIGN
    /\ write_addr_real \in MAIN_START_FROM(main_selector) .. MAIN_END(main_selector)

\* Flash may change in the body and the signature of the selected slot only; the
\* one other cell that ever changes is the FIRST_START byte, at the first scan.
StaysInSlot ==
  /\ \A a \in FlashAddr : flash'[a] # flash[a] =>
       \/ a \in Body(main_selector)
       \/ a = NV_PARAM_BLOCK /\ pc = "find"
  /\ \A s \in BOOLEAN : sign'[s] # sign[s] => s = main_selector

(***************************************************************************)
(* "Never writes outside the selected firmware slot": whatever a step or   *)
(* a power failure in it does to the flash, it does to the slot that       *)
(* main_selector stands on, the last erase block and the last page         *)
(* included.                                                               *)
(***************************************************************************)
ConfinedToSlot == [][StaysInSlot]_vars

\* A signature that is not erased freezes the body, and is only ever erased.
FrozenBySignature ==
  \A s \in BOOLEAN : sign[s] # ERASED_SIGN =>
    /\ \A a \in Body(s) : flash'[a] = flash[a]
    /\ sign'[s] # sign[s] =>
         pc \in {"fs_erase_b", "fs_erase_a", "erase_sign", "sign_erase"}

(***************************************************************************)
(* The body of a slot changes only while its signature is erased, and a    *)
(* signature that is not erased is never overwritten in place: whenever    *)
(* the power fails, a stamped signature is one of the body behind it, or   *)
(* is itself torn.                                                         *)
(***************************************************************************)
SignedBodyFrozen == [][FrozenBySignature]_vars

(***************************************************************************)
(* The slot the last scan chose stays valid, through every update that     *)
(* keeps to the protocol (session.legal): the fallback of the A/B scheme.  *)
(***************************************************************************)
ActiveSlotSurvives == main_valid /\ session.legal => ValidSlot(variant)

----------------------------------------------------------------------------
(* Which slot is chosen *)

(***************************************************************************)
(* The scan finds a slot if and only if one is valid, and chooses a valid  *)
(* one with no newer valid one beside it, whatever torn or stale signature *)
(* the other slot carries.                                                 *)
(***************************************************************************)
BootPicksNewest ==
  [][Scan =>
       /\ main_valid' <=> \E s \in BOOLEAN : ValidSlot(s)
       /\ main_valid' => /\ main_selector' = variant' /\ ValidSlot(variant')
                         /\ \A s \in BOOLEAN : ValidSlot(s) => sign[s].ts <= sign[variant'].ts
    ]_vars

\* A START of an open session stamps its slot newer than the other valid one, so
\* that the next scan prefers the update, unless the stamps are used up.
StampsNewest ==
  SignProgram /\ session.legal /\ ValidSlot(~main_selector) =>
    \/ sign'[main_selector].ts = UINT32_MAX
    \/ sign'[main_selector].ts > sign[~main_selector].ts

(***************************************************************************)
(* Behind a scan of the slots the update is stamped the newest, whatever   *)
(* garbage signatures of interrupted updates the scan has met.             *)
(***************************************************************************)
UpdateIsNewest == [][session.scanned => StampsNewest]_vars

----------------------------------------------------------------------------
(* What is written: a reference for the decoder and the writer together *)

Encoded(file) == file[1] = MAGIC
UpToPage(n) == ((n + FLASH_PAGE_SIZE - 1) \div FLASH_PAGE_SIZE) * FLASH_PAGE_SIZE
DataPerBlock == FLASH_PAGE_SIZE - 1

\* The first n cells of the file give this many cells of the image ...
DecodedCount(file, n) ==
  IF ~Encoded(file) THEN UpToPage(n)
  ELSE IF n = 0 THEN 0
  ELSE ((UpToPage(n) - 1) \div FLASH_PAGE_SIZE) * DataPerBlock

\* ... of which this is the j-th, on slot sel.
ImageCell(file, n, sel, j) ==
  LET fed(i) == IF i <= n THEN file[i] ELSE FF
  IN  IF ~Encoded(file) THEN fed(j)
      ELSE Shifted(fed(3 + FLASH_PAGE_SIZE * ((j - 1) \div DataPerBlock)
                         + ((j - 1) % DataPerBlock)), sel)

ErasedSize ==
  ((firmware_size + FLASH_BLOCK_SIZE - 1) \div FLASH_BLOCK_SIZE) * FLASH_BLOCK_SIZE

\* A file as long as the way from one slot to the other has an address in both:
\* a WRITE of another part of it, sent for the other slot, would be in order.
OneSlotOnly(file) == Len(file) < SLOT_STRIDE

\* A session with no error yet, that keeps to the size it announced.
Healthy ==
  /\ main_update_started /\ ~write_error /\ ~dec.errors
  /\ pc \in {"loop", "drain", "write"}
  /\ session.file # <<>> /\ OneSlotOnly(session.file)
  /\ write_addr_real - MAIN_START_FROM(main_selector) <= ErasedSize

(***************************************************************************)
(* In a healthy session the flash behind the slot's start, followed by     *)
(* what the decoder holds back, is the image of what was taken from the    *)
(* file so far: no cell lost, repeated or shifted across packets, pages    *)
(* and blocks, whatever stale or repeated WRITE the host sends.            *)
(***************************************************************************)
StreamIntegrity ==
  Healthy =>
    LET n     == Len(fw_fullbody_crc32) - Len(body)
        start == MAIN_START_FROM(main_selector)
        done  == write_addr_real - start
        got(j) == IF j <= done THEN flash[start + j - 1] ELSE dec.result[j - done]
    IN  /\ done + Len(dec.result) = DecodedCount(session.file, n)
        /\ \A j \in 1 .. DecodedCount(session.file, n) :
             got(j) = ImageCell(session.file, n, main_selector, j)

\* The slot holds the whole image of the host's file.
HoldsImage ==
  LET n == Len(session.file)
      count == DecodedCount(session.file, n)
  IN  /\ count <= FLASH_SIZE_CORRECT
      /\ \A j \in 1 .. count : flash[MAIN_START_FROM(main_selector) + j - 1]
                                 = ImageCell(session.file, n, main_selector, j)

\* START is about to sign what it takes for the host's file.
Signing ==
  /\ pc \in {"sign_erase", "sign"} /\ fw_fullbody_crc32 = session.file
  /\ session.file # <<>> /\ OneSlotOnly(session.file)
  /\ DecodedCount(session.file, Len(session.file)) <= ErasedSize

(***************************************************************************)
(* What a START without write errors signs is the whole image, the tail    *)
(* that only the flush brings included.                                    *)
(***************************************************************************)
SignedImageIsWhole == Signing /\ session.clean => HoldsImage

(***************************************************************************)
(* Between two packets of a session the CRC covers what was acknowledged,  *)
(* and nothing else.  Behind a WRITE that ended in WRERROR it covers more: *)
(* a retry is folded in a second time, and the CRC of the file is missed.  *)
(***************************************************************************)
AcknowledgedIsFolded ==
  main_update_started /\ pc \in {"loop", "drain"} =>
    LET acked == write_addr - MAIN_START_FROM(main_selector)
    IN  IF write_error THEN Len(fw_fullbody_crc32) > acked
        ELSE Len(fw_fullbody_crc32) = acked

----------------------------------------------------------------------------
(* What the README says and the code does not do *)

(***************************************************************************)
(* "A new firmware image is considered bootable only if its flash region   *)
(* passes a full CRC32 check": the jump is only ever made into a body that  *)
(* matches the CRC of its signature.                                       *)
(***************************************************************************)
JumpOnlyToSigned == pc = "app" => CrcMatches(main_selector)

(***************************************************************************)
(* "The currently active slot is never erased or overwritten during an     *)
(* update": the slot the last scan chose stays valid while one is open.    *)
(***************************************************************************)
ActiveSlotNeverErased == main_update_started /\ main_valid => ValidSlot(variant)

(***************************************************************************)
(* "On next boot, the bootloader selects the most recent valid slot":      *)
(* every update that wrote something, the one behind the first start too,  *)
(* is stamped newest.                                                      *)
(***************************************************************************)
EveryUpdateIsNewest == [][fw_fullbody_crc32 # <<>> => StampsNewest]_vars

(***************************************************************************)
(* "Only if CRC matches and no decoder/write errors occurred: slot         *)
(* metadata is written": a slot that is signed holds the whole image.      *)
(***************************************************************************)
SignedOnlyWhole == Signing => HoldsImage
=============================================================================
