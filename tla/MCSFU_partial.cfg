\* README: the metadata is written only if no write error occurred.
SPECIFICATION Spec
CONSTANTS
  FLASH_BASE = 10
  XIP_WINDOW = 100
  BOOTLOADER_SIZE = 2
  SLOT_STRIDE = 10
  FLASH_SIZE = 10
  FLASH_BLOCK_SIZE = 4
  FLASH_SECTOR_SIZE = 2
  FLASH_PAGE_SIZE = 2
  RUN_OFFSET = 2
  CONTEXT_SIZE = 1
  Cells <- MCCells
  FF = "FF"
  JUNK = "junk"
  MAGIC = "magic"
  Malformed <- MCMalformed
  BadPatch <- MCBadPatch
  Shifted <- MCShifted
  ContextOk <- MCContextOk
  NO_CRC = NO_CRC
  TORN_CRC = TORN_CRC
  UINT32_MAX = 3
  PACKET_TIMEOUT_mS = 1000
  BOOT_WAIT_mS = 2000
  BAUD_RATE_DEFAULT = 921600
  Boards <- FieldBoards
  Streams <- MCStreams
  PacketSizes = {4}
  EraseSizes = {5}
  Bauds = {921600}
  MAX_STREAM = 8
INVARIANT
  SignedOnlyWhole
