------------------------------- MODULE MCSFU -------------------------------
(***************************************************************************)
(* A small board for SFUProperties.  A page is two cells, a sector a page, *)
(* an erase block two pages; a slot's body is three pages and its          *)
(* signature the fourth, so a slot is two erase blocks and the second one  *)
(* takes the signature along, as the last of the real 31 blocks does.      *)
(***************************************************************************)
EXTENDS SFUStore

\* Cells: "old*" firmware in the field, "n*" new firmware, "ctxA" and "ctxB" a
\* vector table linked for one slot, "h" a block's header, "x" a malformed one.
MCCells == {"FF", "junk", "magic", "h", "x", "old", "n1", "n2", "n3", "ctxA", "ctxB"}
MCMalformed(c) == c # "h"
MCBadPatch(c, shift) == FALSE
MCShifted(c, shift) == IF shift /\ c = "ctxA" THEN "ctxB" ELSE c
MCContextOk(c, sel) == c = IF sel THEN "ctxB" ELSE "ctxA"

\* The files: raw firmware for slot B; the same for both slots, encoded, its last
\* data cell in a page only the flush writes; one with a malformed block.
RawB == <<"n1", "n2", "ctxB", "n3">>
BothSlots == <<"magic", "h", "n1", "h", "n2", "h", "ctxA">>
Broken == <<"magic", "x", "n1">>

MCStreams == {RawB, BothSlots, Broken}
LiveStreams == {RawB}

\* Boards: new from the factory, in the field with one or two good slots.
Firmware(ctx) == <<"old", "old", ctx, "old", "FF", "FF">>
Blank == <<"FF", "FF", "FF", "FF", "FF", "FF">>

BoardFlash(nv, a, b) ==
  [x \in FlashAddr |->
     IF x = NV_PARAM_BLOCK THEN nv
     ELSE IF x \in Body(SELECTOR_A) THEN a[x - MAIN_START_FROM(SELECTOR_A) + 1]
     ELSE IF x \in Body(SELECTOR_B) THEN b[x - MAIN_START_FROM(SELECTOR_B) + 1]
     ELSE "FF"]
Image(cells) == [i \in 0 .. (FLASH_SIZE_CORRECT - 1) |-> cells[i + 1]]
SignOf(cells, t) == [crc |-> Image(cells), ts |-> t]
Signs(a, b) == [s \in BOOLEAN |-> IF s THEN b ELSE a]

Factory == [flash |-> BoardFlash("FF", Firmware("ctxA"), Blank),
            sign  |-> Signs(ERASED_SIGN, ERASED_SIGN)]
FactoryBlank == [flash |-> BoardFlash("FF", Blank, Blank),
                 sign  |-> Signs(ERASED_SIGN, ERASED_SIGN)]
BothGood == [flash |-> BoardFlash("junk", Firmware("ctxA"), Firmware("ctxB")),
             sign  |-> Signs(SignOf(Firmware("ctxA"), 0), SignOf(Firmware("ctxB"), 1))]

MCBoards == {Factory, FactoryBlank}
FieldBoards == {BothGood}
LiveBoards == {Factory}
=============================================================================
