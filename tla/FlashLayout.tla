---------------------------- MODULE FlashLayout ----------------------------
(***************************************************************************)
(* The flash map of sfu_commands.c: the bootloader, the two firmware slots *)
(* and, behind each slot, the sector that holds its signature.             *)
(*                                                                         *)
(* Addresses and sizes count CELLS, the smallest piece of flash the        *)
(* specifications tell apart (a part of a page).  The device's own values  *)
(* satisfy LayoutAssumption for any cell that divides FLASH_PAGE_SIZE.     *)
(***************************************************************************)
EXTENDS Integers

CONSTANTS
  FLASH_BASE,         \* XIP_BASE
  XIP_WINDOW,         \* 0x01000000: addresses whose top byte is FLASH_BASE's
  BOOTLOADER_SIZE,    \* 0x10000
  SLOT_STRIDE,        \* 0x00200000: from slot A's first cell to slot B's
  FLASH_SIZE,         \* what one slot and the bootloader take together
  FLASH_BLOCK_SIZE,   \* what one flash_range_erase of the ERASE command erases
  FLASH_SECTOR_SIZE,  \* what erase_sign_block erases
  FLASH_PAGE_SIZE,    \* what flash_range_program programs
  RUN_OFFSET,         \* 0x100: the vector table's distance from the slot's base
  CONTEXT_SIZE        \* 2*4: initial stack pointer and reset handler

\* main_selector is a bool: false selects slot A, true slot B.
SELECTOR_A == FALSE
SELECTOR_B == TRUE

BOOTLOADER_TO == FLASH_BASE + BOOTLOADER_SIZE
MAIN_START_FROM(sel) == BOOTLOADER_TO + (IF sel THEN SLOT_STRIDE ELSE 0)
MAIN_RUN_FROM(sel) == MAIN_START_FROM(sel) + RUN_OFFSET
FLASH_SIZE_CORRECT == (FLASH_SIZE - BOOTLOADER_SIZE) - FLASH_SECTOR_SIZE
MAIN_END(sel) == MAIN_START_FROM(sel) + FLASH_SIZE_CORRECT

Body(sel) == MAIN_START_FROM(sel) .. (MAIN_END(sel) - 1)
SignSector(sel) == MAIN_END(sel) .. (MAIN_END(sel) + FLASH_SECTOR_SIZE - 1)

\* The last sector of the bootloader's region: its first byte is FIRST_START.
NV_PARAM_BLOCK == BOOTLOADER_TO - FLASH_SECTOR_SIZE

\* The cells of the flash but for the signatures, which have their own variable.
FlashAddr ==
  (FLASH_BASE .. (MAIN_END(SELECTOR_B) - 1)) \ SignSector(SELECTOR_A)

\* Mutant of EraseRange: the slot's offset is left out.
EraseFromBase(sel, pos) ==
  (BOOTLOADER_TO + pos) .. (BOOTLOADER_TO + pos + FLASH_BLOCK_SIZE - 1)

\* The cells the ERASE command's loop erases when its counter stands at pos,
\* and the cells one page program at `addr` writes.
EraseRange(sel, pos) ==
  (MAIN_START_FROM(sel) + pos) .. (MAIN_START_FROM(sel) + pos + FLASH_BLOCK_SIZE - 1)
PageRange(addr) == addr .. (addr + FLASH_PAGE_SIZE - 1)

\* The test of sfu_command_write: (addr & 0xFF000000) == FLASH_BASE.
InFlashWindow(addr) == FLASH_BASE <= addr /\ addr < FLASH_BASE + XIP_WINDOW

(***************************************************************************)
(* What the numbers of the code satisfy.  A slot and its signature sector  *)
(* are a whole number of erase blocks, so that erasing block by block      *)
(* never passes the signature's end; the second slot starts behind the     *)
(* first one's signature.                                                  *)
(***************************************************************************)
LayoutAssumption ==
  /\ FLASH_BASE \in Nat \ {0} /\ XIP_WINDOW \in Nat
  /\ BOOTLOADER_SIZE \in Nat /\ FLASH_SECTOR_SIZE <= BOOTLOADER_SIZE
  /\ SLOT_STRIDE \in Nat /\ FLASH_SIZE \in Nat
  /\ FLASH_BLOCK_SIZE \in Nat \ {0} /\ FLASH_SECTOR_SIZE \in Nat \ {0}
  /\ FLASH_PAGE_SIZE \in Nat \ {0} /\ RUN_OFFSET \in Nat /\ CONTEXT_SIZE \in Nat \ {0}
  /\ RUN_OFFSET + FLASH_PAGE_SIZE <= FLASH_SIZE_CORRECT
  /\ CONTEXT_SIZE <= FLASH_PAGE_SIZE
  /\ FLASH_SIZE - BOOTLOADER_SIZE <= SLOT_STRIDE
  /\ \E n \in 1 .. FLASH_SIZE : FLASH_SIZE - BOOTLOADER_SIZE = n * FLASH_BLOCK_SIZE

ASSUME Layout == LayoutAssumption
=============================================================================
