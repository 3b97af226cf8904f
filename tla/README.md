# Formal models of rp2040-SFU

TLA+ specifications of the rp2040-SFU bootloader: a serial firmware updater with two
firmware slots (A/B), from the DMA ring of its UART to the signature of a slot, and of the
host's encoder of update files. TLC checks the models on small instances; TLAPS proves the
safety properties for every flash layout, board, file, packet and buffer size. All paths below are
paths of the repository; line numbers are those of the commit the models were written from.

## 1. The system

| Component | State it keeps | Operations | Module |
|---|---|---|---|
| SFU commands, slots, signatures (`sfu_commands.c`) | the flash, `main_selector`, `main_update_started`, `max_time_stamp`, `fw_fullbody_crc32`, `write_addr`, `write_addr_real`, `write_error` | INFO, ERASE, WRITE, START, SPEED, timeout; `find_latest_variant`, first start, `add_sign_crc`, `main_start` | `FlashLayout`, `SFU` |
| Main loop (`rp2040SFU.c`) | `main_valid`, `variant`, the count of timeouts | scan, boot wait, rescan, jump | `SFU` |
| BIN2Page decoder (`bin2page_decoder.c`) | `decode_buffer`, `result_buffer`, flags | `bin2page_reset`, `bin2page_decode`, `bin2page_finish`, one callback | `Bin2PageStream` |
| Packet receiver (`packet_receiver.c`) | `receive_check`, `packet_start`, `packet_buf`, `packet_size`, the timeout | `receive_packets_worker` and the four `receive_check_*` functions | `PacketReceiver` |
| UART and DMA receive buffers (`usart_mini.c`) | DMA ring, `rx_buffer`, positions, `rx_overfulls`, baud rate | `rx_dma_check`, `receive_count`, `receive_byte`, `receive_n_bytes`, `usart_set_baud` | `UsartRx`; the baud rate is in `SFU` |
| BIN2Page format (`bin2page_decoder.c`, `main.rs`) | a block | taken apart, or filled | `Bin2Page` |
| BIN2Page encoder (`main.rs`) | the block it fills, the output | encodes two images into one stream | `Bin2Page`, `UpdateFile` |
| Decoder test tool (`bin2page_decoder_main.c`) | none | decodes a file for one variant | `Bin2Page`, `UpdateFile` |
| CRC32 (`crc32.c`) | two tables | makes the tables, checks them, updates by words | `CRC32`, `UpdateFile` |
| What the A/B scheme promises | two slots, the chosen one | choose, give up, publish, adopt, fail | `SlotStore`, implemented by `SFU` (`SFUStore`) |
| Quiesce-and-jump, fault handler, build files, scripts | | | not modelled (section 8) |

**Interaction.** One thread runs everything: `main()` calls `receive_packets_worker` in a
loop, which takes bytes from the receive buffer, and calls `sfu_command_parser` for each
complete packet (or `sfu_command_timeout`), which calls the decoder, which calls back
`sfu_real_writer`, which programs a page. What runs beside the thread: the DMA, the host,
time, and the power supply. Two shared flags tie the parts together and are where it is
easy to go wrong: `main_update_started` (set by ERASE, cleared by START, by the timeout and
by `main()`, and read by the writer and by `main()`), and `main_selector` (set by `main()`,
inverted by ERASE, and read by every address computation).

**Hard behaviours.** A power failure in any flash operation; the packet timeout and the boot
wait against late packets; a packet handled in the same call as a timeout; retried and
repeated commands; data that crosses packets, pages and blocks of different sizes; erase
blocks that reach past the end of a slot's body; signatures torn to arbitrary values; cells
lost or garbled on the line; a DMA that goes on while the thread erases flash, and overruns
the ring, the buffer behind it, or the loop that copies; a block format whose indices,
counts and padding share 256 bytes. `PROJECT.json` lists each at its line with the properties that
are about it.

**What makes a component correct.**
- *Slots*: flash changes only in the slot being updated; a signed body never changes; the
  slot that booted stays valid until another is; the newest valid slot is chosen; what is
  signed is the whole image.
- *Main loop*: a host that falls silent does not keep a bootable board from booting, unless it does so in the middle
  of a packet: then `receive_packets_worker` does not return, and the boot wait does not end.
- *Receive buffers*: no index leaves its buffer; what is handed out was received, in order and
  once; what is lost is counted; a count that was given is kept; nothing is left lying.
- *Encoder and decoder*: both images come out of every file; buffers never overrun; a damaged
  file is never signed; a sound one is, and whole, unless its vector table is out of order.
- *CRC32*: tables and word-wise updates compute the two checksums they are named for.
- *Packet receiver*: only sent packets are delivered, in order, once; after noise it
  resynchronises; a clean line delivers everything.

## 2. The modules

`FlashLayout` has the flash map as operators of the layout's constants. `Bin2PageStream`
(extends it) has the decoder as functions from a decoder state and a buffer to a new state
and a page. `SFU` (extends both) is the state machine. `SFUProperties` states its
safety properties; `SFULine` (extends it) adds a line that may stop inside a packet, fairness and the properties of
progress; `MCSFU` and `MCSFULine` give the small board. `SlotStore` is the
abstract store, and `SFUStore` (extends `SFUProperties`, instantiates `SlotStore`) the
refinement mapping. `PacketReceiver` is a state machine of its own, with its line and host,
and so is `UsartRx`, the layer below it. `Bin2Page` has the byte format and `CRC32` the checksums as
operators; `UpdateFile` (extends both) composes encoder, line, WRITE, decoder, writer and START. `MCSFU`, `MCSFULine`,
`MCPacketReceiver`, `MCUsartRx` and `MCUpdateFile` give the small instances; the eight modules
`*_proofs` hold the theorems.

The layers meet at what they promise one another: `UsartRx` that bytes come in order or are missing
(which is `PacketReceiver`'s `Fault`), `PacketReceiver` that packets come in order, whole or not at all
(which is why `SFU`'s host may send any packet and need not send the next), and `UpdateFile` that a
block behaves as `Bin2PageStream`'s header cells say.

### SFU

A *cell* is the smallest piece of flash the model tells apart. On the checked board a page
is two cells. One action is one handler, cut where it erases or programs flash; `pc` says
where the thread stands.

| Code | Actions |
|---|---|
| `find_latest_variant`, `main()` around it | `Scan` |
| first start (`check_first_start_once` and behind it) | `FirstStart`, `FirstStartEraseB`, `FirstStartEraseA`, `FirstStartSign` |
| `sfu_command_erase` | `sfu_command_erase`, `EraseSign`, `EraseBlock` (per block), `OpenSession` |
| `sfu_command_write` with decoder and writer | `sfu_command_write`, `WritePage` (per page), `WriteDone` |
| `sfu_command_start`, `add_sign_crc`, `main_start` | `sfu_command_start`, `StartFlush`, `SignErase`, `SignProgram` |
| `sfu_command_speed` | `sfu_command_speed` |
| timeout of `receive_packets_worker`, `sfu_command_timeout` | `Timeout`; then `DrainDone`, or a packet taken in the same call (`pc = "drain"`) |
| `main()` behind the boot wait | `LeaveLoop`, `main_start` |
| the power supply | `PowerLoss`, enabled in every state |

INFO, and packets that are only answered, change nothing and are stuttering steps.

Abstractions, and why they are sound for the properties:
- *CRC32 has no collisions* here (`UpdateFile` has the real one). `fw_fullbody_crc32` is the sequence of cells folded in, the CRC
  of a body is the body. An erased CRC word and a torn one are values apart.
- *A block of the BIN2Page stream* is a header cell and data cells. `Malformed`, `BadPatch`
  and `Shifted` say what a header cell and a data cell do; the lag between input and output,
  which the core depends on, is kept.
- *Flash*: an erase gives `FF`; programming an erased cell gives the value, programming any
  other cell with another value gives `JUNK`. A power failure leaves an erase's range as
  it was, done, or `JUNK` throughout; a page programmed up to some cell, that cell `JUNK`; a
  signature with any time stamp that is possible, and a CRC that is no body's or the old
  (new) one.
- *Context check*: `ContextOk(cell, slot)` on the cell of the vector table.
- *Time*: the timeout may come whenever the thread is in the command loop. Packets that come
  while a handler runs wait in the receive buffer, so a handler is not interrupted.
- *The host* sends ERASE of any size of a set, WRITEs of whole pages (or the rest of the file)
  from anywhere in the file to either slot, STARTs with the CRC of the file, that of no bytes at all (which is
  what `fw_fullbody_crc32` is behind a reset and behind ERASE), or a wrong one, and SPEEDs, in any
  order and at any time. It does not mix two files in one stream. That its packets are whole pages is `HostAssumption`:
  `sfu_command_write` pads other data with `0xFF` in the middle of the stream, which is listed as a hazard.
- `session` is a history variable and no action's guard reads it but the host's choice of a
  file. `legal` is false once an ERASE came while the selector was not on the slot the last
  scan chose, or a START came with no session open.

### SFULine

`SFU`'s packets come whole. On the line they come byte by byte, and while bytes of a packet lie in the receive buffer and
the rest is not there, `receive_packets_worker` calls the check function again and again
(`packet_receiver.c` 297-302) and does not look at the time. `SFULine` adds this one fact as the variable `incomplete`:
`PartArrives` sets it, `PacketTaken` (a packet that does something), `PacketSpent` (one that is only answered, or that the
parser gives up) and `PowerFails` reset it, and while it is set neither the thread (`DeviceRuns`) nor the timeout (`TimeRuns`) moves on.
`PacketReceiver` has the same fact cell by cell (`Stalled`).

### SlotStore and SFUStore

`SlotStore` is what a user of the A/B scheme relies on: two slots, each with one whole version (a CRC and a time
stamp) or with nothing that could be started; `Choose` (a scan), `GiveUp` and `Publish` (an update
begins, an update is complete), `Adopt` (the first start), `Break` (the host leaves the protocol) and `Fail` (power).
It has no erase blocks, pages, packets or decoder.
`SFUStore` maps a slot to its signature where `ValidSlot` holds and to `NOTHING` elsewhere, `chosen` to
`variant` under `main_valid`, and `kept` and `known` to the history. Most of `SFU`'s steps are stutters;
`EraseSign` or an `EraseBlock` is `GiveUp`, `SignProgram` is `Publish`, `FirstStartSign` is `Adopt`.

### PacketReceiver

The line carries cells: two for the signature, one each for code and size, one for the CRC.
`Send`, `Arrive`, `Fault` (a cell lost or garbled), `HostRestart` and `Expire` (the time since the
last restart of `packet_timeout` exceeds the limit) are the environment;
`WorkerTimeout`, `WorkerNoTimeout`, `WorkerReturns`, the four `receive_check_*` actions and
`CheckWaits` are `receive_packets_worker`. `CheckWaits` is the loop that finds too few bytes and tries again:
a step that changes nothing, which is the point of run `packet_stall`.
Any cell can be read as a size (`SizeOf`), and a body may hold a signature. The receive buffer
does not overrun here (`UsartRx` has that). Here `sfu_command_parser` is "append to `delivered`".

`CrcAssumption` says what a CRC is relied on for: it tells the packets apart from each other and from anything
that can be read as one, and no CRC stands in the body of a packet. Without the second part a
body that holds a whole packet would be executed when the packet around it is broken; `PROJECT.json`
lists that as a hazard. `SignatureAssumption` says that no beginning of `PACKET_SIGN_RX` is its end (its four bytes are all
different): else the end of some noise and the beginning of a packet's signature could be taken for a whole one. TLC evaluates
both for the packets of the run.

### UsartRx

A byte is its number in the order in which the DMA moved it. Two actors: `Transfer` is the DMA, and the thread is
cut wherever the DMA can come between.

| Code | Actions |
|---|---|
| the DMA channel, its wrapping write address | `Transfer` |
| `rx_dma_check`: the count read once, then the loop | `rx_dma_check(returnTo)`, `CopyByte` |
| its calls from the erase loop, `sfu_real_writer`, `usart_set_baud`, and before an answer | `CheckOnly` |
| `receive_n_bytes`, `receive_count` | `receive_n_bytes(n)`, `CountSeen` |
| `receive_byte`: a check, the test for an empty buffer, the second check in its call of `receive_count`, the byte | `receive_byte`, `EmptyTest`, `TakeByte` |

`transfer_count` counts down from `RX_INITIAL` (`UINT32_MAX`); at 0 the channel stops for good, so no position can
wrap. `lapped` is a history variable: the DMA wrote over a byte the copy loop had still to take, which
nothing in the code can notice. Left out: `rx_errors`, the statistics, the UART's own FIFO, and the bytes that
`usart_set_baud` drops.

### Bin2Page, CRC32 and UpdateFile

`Bin2Page` has the encoder's `Push`, `BlockFull` and `Flushed`, the decoder's `DecodedBlock` with every branch
(overflow, short format, patches, a bad address) and the pages that go in and out. A byte has as many values as a block
has bytes, as in the code, where both are 256. `CRC32` has both tables and both word-wise updates on words of 32 bits (a word is
the set of the places of its ones), the self-checks of start-up, and bit-by-bit references.

| Code | Actions of `UpdateFile` |
|---|---|
| `crc32_init_table`, `crc32_IEEE8023_init` and the checks behind them | `InitTables` |
| the loop of `main.rs` | `EncodeByte` |
| ERASE, and the host sending its file, one byte of which may have changed | `Open` |
| `sfu_command_write` with the loop over its pages, the decoder, the writer and WRERROR | `sfu_command_write` |
| `sfu_command_start` with `bin2page_finish`, the writer and `add_sign_crc` | `sfu_command_start` |

The decoder tool is the operator `ToolDecodes`, which `BothVariantsDecode` runs as `main.rs` does. The encoder's
two images have one size, as it insists on. The host pads nothing: every file is the signature and whole blocks.
`WriterAccepts` is what `sfu_real_writer` lets pass: `check_run_context` of the page that has the whole context
(`ContextOk`, a parameter, on bytes of the page), and the end of the slot. A refused page sets `write_error` and is not
programmed; the loop of WRITE is left behind it (`WriteLoop`) and `write_addr` (`sent`) stays, while the CRC has the whole packet: the host may
try again, or send START, which does not look at `write_error`. `body` is what is programmed, and START signs it, not what the decoder gave out.
`FileAssumption` says that blocks and signature are whole words, that a byte has no more than 256 values, and that an image
with its last block fits the slot; it says nothing of the vector table. The session is open all the time, so the
writer's first test (`main_update_started`) is left to `SFU`.

## 3. What is checked

| Run | Result | Shows |
|---|---|---|
| `sfu_core` | holds | safety of the update core (below) |
| `sfu_live` | holds | the board boots and sessions end once the host is silent, but not behind a truncated packet |
| `packet` | holds | framing: integrity, resynchronisation, delivery, and the timeout in silence |
| `sfu_jump` | violated | an abandoned, unsigned update can be jumped into |
| `sfu_active` | violated | a second ERASE erases the slot the scan chose |
| `sfu_partial` | violated | START signs in spite of a write error |
| `sfu_stamp` | violated | an update in the boot of the first start loses the tie of time stamps |
| `usart` | holds | the receive buffers: order, counted loss, promises kept, nothing left |
| `codec` | holds | a file from the encoder to the signature, byte by byte |
| `packet_size` | violated | a packet of `PACKET_MAX_SIZE` is always dropped |
| `packet_stall` | violated | a truncated packet keeps the worker's loop |
| `codec_unchanged` | violated | a block with a structural error does not come out unchanged |

`sfu_core`:
- `SessionInSlot`: an open session writes to an unsigned slot, inside it.
- `ConfinedToSlot`: flash changes only in the selected slot, power failures included.
- `SignedBodyFrozen`: a body changes only under an erased signature.
- `ActiveSlotSurvives`: the slot that was chosen stays valid through every update that keeps to
  the protocol (`session.legal`).
- `BootPicksNewest`: the scan finds a slot if one is valid, and no valid slot is newer.
- `UpdateIsNewest`: behind a scan, an update is stamped newer than the other valid slot.
- `StreamIntegrity`: what is in flash and in the decoder is exactly the image of what was taken
  from the file, against a closed-form reference (`ImageCell`) that does not run the decoder.
- `SignedImageIsWhole`: a START that met no write error signs the whole image.
- `AcknowledgedIsFolded`: between two packets the CRC covers what was acknowledged, and more exactly when a WRITE
  has failed: the retry is then folded in a second time.
- `ImplementsStore`: every behaviour is one of `SlotStore`.
- `TypeOK`.

`sfu_live`: once the host is silent and the power stays on (`Quiet`),
- `SelectedSlotBoots`: the firmware runs, or the selected slot is not bootable, or the line stopped inside a packet;
- `AbandonedSessionEnds`: no session is open, or the firmware runs, or the line stopped inside a packet.

`packet`: `OnlyWhatWasSent` (delivered packets were sent, in order, each once), `CleanLineDelivers` (all of them, when
nothing was disturbed since the line was last idle), `PacketsGetThrough` (they do not wait for more to be sent),
`SilenceTimesOut` (when the host falls silent the timeout comes again and again, or the worker is held by the rest of a truncated
packet for good: the two cases of `SFULine`), `TypeOK`.

`usart`:
- `InStep`: `rx_dma_old_pos` stands on the next byte's cell, however many rings were lost.
- `InOrder`: an overrun leaves a gap and nothing else, unless the DMA lapped the copy.
- `NothingLostUncounted`: while `rx_overfulls` is 0 and the DMA has not lapped the copy, what was handed out is the
  first that came, without a gap, and what is behind it stands intact in `rx_buffer` and then in the ring, unless that buffer is overrun
  just now. `rx_dma_check` copies without a test, so an overrun of `rx_buffer` is counted by the next `receive_byte` only, and one of the ring by the next check.
- `PromiseKept`: `receive_n_bytes`, which ignores `receive_byte`'s result, always gets what `receive_count` promised.
- `EverythingIsRead`: a silent line is emptied, wherever an overrun has left the positions.
- `TypeOK`.

`codec`:
- `BothVariantsDecode`: the tool finds both images in every file of the encoder, without errors.
- `MalformedIsCounted`: the decoder counts an error for the blocks that break the format, and no other (of a file
  acknowledged to its end: behind a WRERROR the rest does not get to it).
- `SlotHoldsMeaning`: behind a well-formed file, damaged or not, the flash holds its blocks read without buffers and
  indices (`Meaning`), and `0xFF`, if the vector table is in order (`Runs`) and they fit the slot.
- `SignedIffUnharmed`: a file that was taken once is signed only if it is the encoder's, byte for byte, and that one
  is refused only if the vector table of its image is out of order.
- `CrcOfWhatWasTaken`: the CRC of the session against a bit-by-bit reference, of all packets, failed ones included.
- `SignatureIsOfImage`: the signature is the reference CRC of the image and the erased rest, of a file taken once with its vector table in
  order. Without that START may sign a slot with a page missing: that is run `sfu_partial`.
- `TypeOK`.

`SignedImageIsWhole` and `StreamIntegrity` are about files that keep to the size ERASE was
told and are shorter than the way from one slot to the other (`OneSlotOnly`: of a longer one, a WRITE for the
other slot could have an address that is in order in this one, and the proof showed that nothing else keeps it out), `UpdateIsNewest` about time stamps that are not used up; these conditions are in the
formulas, and what the code does beyond them is listed as a hazard.

**Disagreements with the README of the project.** Each of the seven violated properties is a sentence
of `README.md`, and TLC gives a run of the model that
ends where the sentence is false. The shortest: ERASE, a WRITE that covers the vector table, then silence. The
timeout closes the session and clears `main_update_started`; `main()` takes that as "no update was
started", does not scan again, and starts what the selector stands on (`sfu_jump`).
The `findings` of `PROJECT.json` quote the sentences. Four more sentences that differ from the code have no run: an ERASE of size 0 is
answered as empty (356), an erase whose verification fails is only printed (361, 368), the two CRCs have one polynomial, once
reflected (81), and of the overflows that are "detected and counted" the one by a DMA that laps the copy loop is not.

## 4. Bounds

*Board* (`MCSFU`): page 2 cells, sector one page, erase block two pages; a slot is a body of
three pages and its signature, so it is two erase blocks, and the second takes the
signature along, as the last of the 31 real blocks does; slot B starts behind a gap. The vector
table is in the body's second page. Time stamps are 0 to 3 (2 in `sfu_live`), 3 being "erased", so that they run out.
Boot wait: two packet timeouts (the code: four).

*Boards at power-on*: from the factory with firmware in A, or with both slots blank
(`sfu_core`, `sfu_stamp`); in the field with two good slots (the other violations). Boards in the
field are reached from the factory too.

*Files*: raw firmware for slot B; a BIN2Page file for both slots whose last data cell is only
written by the flush; a BIN2Page file with a malformed block. Raw and patched images fit one slot or both,
so the context check of the writer passes and fails.

*Sizes*: WRITEs of two pages, and the odd rest; ERASE of 0, of a size that is no whole block and within the
slot, and of one beyond it. `MAX_STREAM = 8` cells may be folded into the CRC, which is more than the longest file:
retries after WRERROR and repeated beginnings fit.

*Packets*: bodies of none, three and four cells, two packets, one fault
between restarts of the host; `PACKET_BUF = 7`, so that the body of four is
`PACKET_MAX_SIZE`. One body looks like the start of a packet.

*Receive buffers* (`MCUsartRx`): a ring of 2, a buffer of 4, 8 transfers: the ring is lapped up to four times, the buffer
twice, and the DMA stops for good. Requests of 1 byte (the worker) and 3 (the most a full buffer of 4 promises).

*Update files* (`MCUpdateFile`): blocks of 8 bytes with 8 values, a signature of 4 bytes that ends within a page as the real one does;
images of 1 and 4 bytes over equal bytes, `0xFF` in both, and a difference, which makes files of one and two
blocks, with no, one and two bytes of padding and with a full count of entries; every byte damaged to every value; packets of one and
of two pages, and the rest; a slot of 24 bytes, so that images end inside it. The context is the first byte of the slot and in order unless it
is `0xFF`, so images of one, both or no variant run, and damage changes which. `MAX_TAKEN = 36` bytes may be folded into the CRC:
the longest file is 20, so a packet can be tried again. CRC words have their full 32 bits.

## 5. Fairness

`sfu_live`: weak fairness of `DeviceRuns` (the thread runs: it has no blocking call) and of `TimeRuns` (time passes, and the
loop looks at it). Both are disabled while `incomplete`: bytes of a packet without its rest keep `receive_packets_worker` in the loop
of lines 297-302, and then the code does neither. That these are the two cases of a silent line, and no third, is `SilenceTimesOut` of run
`packet`; that the second is real is run `packet_stall`. A host that keeps sending disables both again and again, and weak
fairness then asks nothing of them. Nothing is assumed of the host and of the power: the properties say what
follows once both are quiet (`Quiet`). `SelectedSlotBoots` is about the slot the selector
stands on and `main_valid`; that this may be the wrong slot is run `sfu_jump`.

`packet`: weak fairness of the worker, of the line's delivery and of time. The host need not send.
`usart`: weak fairness of the thread. The DMA, which is to say the host, need not do anything. That the worker asks
for single bytes again and again is the premise of `EverythingIsRead`, not an assumption on the thread.

In `packet`, a step that changes nothing (`CheckWaits`) is no progress, so fairness of the worker does not end a
loop the code would not end.

## 6. What is proved

From the named assumptions on the constants alone (`Layout`, `StreamAssumption`, `CoreAssumption`,
`HostAssumption`, `UsartAssumption`, `ReceiverAssumption`, `SignatureAssumption`, `LineAssumption`, `CrcAssumption`,
`FormatAssumption`, `FileAssumption`), each of
which TLC evaluates in a run:

| Module | Theorem | Statement |
|---|---|---|
| `SFU_proofs` | `TypeCorrect` | `Spec => []TypeOK` |
| | `SessionStaysInSlot` | `Spec => []SessionInSlot` |
| | `NeverOutsideTheSlot` | `Spec => ConfinedToSlot` |
| | `SignatureFreezesBody` | `Spec => SignedBodyFrozen` |
| | `ImplementsTheStore` | `Spec => ImplementsStore` |
| | `ChosenSlotSurvives` | `Spec => []ActiveSlotSurvives` |
| | `ScanIsRight` | `Spec => BootPicksNewest` |
| | `UpdatesAreNewest` | `Spec => UpdateIsNewest` |
| `SFUImage_proofs` | `AcknowledgedFolded` | `Spec => []AcknowledgedIsFolded` |
| | `StreamKept` | `Spec => []StreamIntegrity` |
| | `SignedWhole` | `Spec => []SignedImageIsWhole` |
| `Bin2PageStream_proofs` | `DecodeStaysSettled`, `FinishStaysSettled` | the decoder's buffers stay below a page, callbacks get one page |
| `PacketReceiver_proofs` | `TypeCorrect` | `Spec => []TypeOK` |
| | `OnlySentIsDelivered` | `Spec => []OnlyWhatWasSent` |
| | `NoiseIsGotOver` | `Spec => []CleanLineDelivers` |
| `UsartRx_proofs` | `TypeCorrect` | `Spec => []TypeOK` |
| | `StaysInStep` | `Spec => []InStep` |
| | `CountIsAPromise` | `Spec => []PromiseKept` |
| | `OrderIsKept` | `Spec => []InOrder` |
| | `LossIsCounted` | `Spec => []NothingLostUncounted` |
| `CRC32_proofs` | `TablesAreSerial` | both tables and updates compute, for every input, what the bit-by-bit references do |
| `Bin2Page_proofs` | `PushFits` | a block that is not full still fits its page behind one more byte of the images |
| | `BlocksAreWellFormed` | what the encoder flushes is well formed for both variants |
| | `VariantADecodes`, `BothDecode` | and comes out as either variant's bytes, without an error |
| | `DecodesByTheFormat` | of any block: an error if and only if it breaks the format, else its `Meaning` |
| `UpdateFile_proofs` | `TypeCorrect` | `Spec => []TypeOK` |
| | `EncoderKeepsFormat` | of every file the encoder is making, all blocks are well formed and none counts as an error |
| | `ToolFindsBoth` | `Spec => []BothVariantsDecode` |
| | `CrcIsOfTheFile` | `Spec => []CrcOfWhatWasTaken` |
| | `ErrorsAreMalformed` | `Spec => []MalformedIsCounted` |
| | `MeaningIsStored` | `Spec => []SlotHoldsMeaning` |
| | `OnlyTheSoundIsSigned` | `Spec => []SignedIffUnharmed` |
| | `SignedForTheImage` | `Spec => []SignatureIsOfImage` |

So every safety property that a passing run checks is a theorem: the run shows it on one instance, the theorem for
all values of the constants.

*Flash (`SFU_proofs`).* `TypeOK` is inductive; its weight is in `DecodeStaysSettled`, which bounds
`decode_buffer` and `result_buffer` over one call, and in the range of the time stamp, which
holds because `find_latest_variant` ignores a signature stamped `UINT32_MAX`.
`SessionInSlot` is not inductive. `SessionInv` adds what it rests on: the erase
loop stands on a multiple of the block size below a checked `firmware_size`; no session is open at a scan or while
signing; a signature is only programmed over an erased one. The lemma `StepConfined` shows of every step, and of
every state a power failure may leave, where flash may have changed; the two action properties
follow with `SlotsApart` (bodies and signatures are disjoint). The arithmetic fact that the last erase block ends with the
signature's sector is `BlocksInSlot`; it needs that a slot with its signature is a whole
number of blocks (`LayoutAssumption`), which the real 31 * 64 KB are.

*Store (`SFU_proofs`).* The mapping rests on `StoreInv`, inductive relative to `SessionInv`: while the host keeps to the
protocol, the slot at work is not the one the scan has left in `variant`, and the stamp of that one is at most
`max_time_stamp`; the first start comes before any scan and erases both signatures before it signs one. The
refinement's step lemma goes action by action; a step that leaves both versions alone is a stutter or `Break`, and
`StepConfined` says of all others that they touch the selected slot alone. Then `ActiveSlotSurvives` is the store's
`ChosenIsWhole`, and the two properties of the scan are about `Choose` and the stamps `Publish` gives. The
abstract promise is thus proved of the abstract store, and carried over.

*Image (`SFUImage_proofs`).* `StreamInv` joins five parts, each inductive only with the others: `FoldedInv` (what the CRC covers and what the host
was told; within a WRITE the CRC is ahead by the packet), `PrefixInv` (the packets are the file from its first cell on, cut at the
ends of pages), `DecoderInv` (what the decoder holds back is the end of what it was given, less than a block, and of the image,
less than a page), `ImageInv` (every cell written or held back is the image's cell of that place, `ImageCell`) and `ErasedInv` (what is
still to be written is erased, so that programming it gives the value). The step that carries it is `WritePage`: one page into
`bin2page_decode`, no or one page out.

*Receive buffers (`UsartRx_proofs`).* `BufferInv` joins `TypeOK` and `InStep` with `Covered` (inside `receive_n_bytes` there are
at least `want` bytes, and an overrun leaves `RX_BUFFER_SIZE - 1`), which is why the assumption `NBytes` \subseteq
`1 .. RX_BUFFER_SIZE - 1` is needed; the requests of `packet_receiver.c` are far smaller. `InStep` over an overrun is modular
arithmetic (`ModRings`: taking off whole rings does not move the position). `ContentInv` says what the ring, the buffer and
`got` contain: bytes rise from position to position, and while nothing is lost a byte stands at the position of its number.

*Packets (`PacketReceiver_proofs`).* `ParserInv` bounds `packet_buf` state by state. `OrderInv` tags every cell of `rx` and `line` with
the packet it was sent in, later than the last one delivered; tags do not fall along the way, and rise behind a CRC. A delivered packet ends with a CRC cell, which by
`CrcAssumption` stands only at the end of its own packet, and whose value names the packet: so it is the packet of
the tag, and later deliveries have later tags.
`NoiseIsGotOver` needs `CleanInv`: while nothing was disturbed, there is an `n` and a `k` such that all packets up to `n` that can get
through have, the cells still to come are packet `n + 1` from behind its cell `k` and the packets behind it (`Position`), and the parser has
taken those `k` cells (`Parsed`). Whatever the noise has left in `packet_start` is no harm: the search looks at a window of as many cells as
the signature has, and by `SignatureAssumption` no end of the noise and beginning of the signature make a whole one.

*Checksums (`CRC32_proofs`).* A round is linear over `^`, a shift and perhaps the polynomial. So eight rounds of a word are eight rounds of
its highest byte, which is the table's entry, and eight of the rest, which is a shift (`EightShift`); four of them are a word. A register
that goes on word after word is a recursive function, and its equality with the reference is an induction. A round is also
injective (the polynomial has a one in the place the shift leaves empty), so files that differ in one word have
different CRCs (`OneWordOff`), and a damaged byte is one word (`WordIsBytes`).

The provers cannot instantiate an induction theorem, which takes a predicate. `SetInduction` states induction of a set, and `Recursion`, from
it, that a recursively defined function exists; every induction of these modules (words, rounds, patches, blocks, pages)
goes through these two.

*Format (`Bin2Page_proofs`).* `Fits` is what the encoder keeps true of the block it fills: offsets rise and lie
within the data, and one difference more has room. `FlushedParts` says where padding, offsets, changes and data lie in the page;
`PaddingFound` that the decoder skips all of the padding and no entry (an offset is never `0xFF`, since it is
smaller than the data is long, so the first entry ends the padding). `DecodesByTheFormat` is about any block, damaged ones as well: `SoFar`
is what the decoder's buffer is behind `i` patches, an error so far exactly if the offsets do not rise. `Spells` says which bytes a block of the
encoder stands for in a variant.
For the stream, `Streamed` is the decoder's state behind `k` blocks: it holds a page less the signature of the next block, has counted an
error for the bad blocks, and what it has given out and held back is the output of the blocks (`Output`). The pages of a packet
are pages of the stream wherever packets are cut (`PacketCarries`).

*Update file (`UpdateFile_proofs`).* `EncoderInv`: the file is the signature and blocks of the encoder. `ImageInv`: for each variant, the output of the
blocks and what the block being filled spells are together the image so far, with `0xFF` behind once it is at its end. `DeviceInv`: the file
sent differs in one byte at most; the CRC is that of the bytes taken; as long as nothing was refused the decoder stands where `Streamed`
says and all it gave out is programmed, and once `write_error` is set there is a page of the file that is none for the slot (`Sound`, `Unfit`); a verdict
is the code's. `WriterDoes` and `PageStepDoes` are the writer and one round of the loop of WRITE. `NothingRefused` closes the gap between
decoder and flash: at every page the decoder has given out a beginning of what comes out at last (`PagesShow`), so a refused page shows a vector table
that is out of order, or ends behind the slot. `SlotHoldsMeaning` takes that for what the blocks mean, `SignedIffUnharmed` and
`SignatureIsOfImage` for the image (`ImageIsTaken`). `OnlyTheSoundIsSigned` needs both directions: a damaged byte changes the
CRC, and a sound file has its own CRC, no bad block and, with its vector table in order, no refused page.

TLC has checked `SessionInv`, `StoreInv`, `ParserInv`, `BufferInv` and (on positions up to 20) `ContentInv` on the boards of the runs.

## 7. Only model-checked

- Liveness under fairness is out of the prover's reach: `SelectedSlotBoots`, `AbandonedSessionEnds`, `PacketsGetThrough`,
  `SilenceTimesOut`, `EverythingIsRead`.
- That the start-up checks of the tables pass (`SelfChecksPass`, on which `InitTables` waits): the run computes them.
- That packets and bytes fit together (`UsartRx` below `PacketReceiver` below `SFU` and `SFULine`) is argued in section 2 and
  neither checked nor proved as one model.

## 8. Not modelled

- `rp2040_quiesce_and_jump.h`: register writes in a fixed order; the jump is `pc = "app"`.
- `hardfault.c`: prints registers and stops.
- The order of register writes in `usart_init`, `usart_deinit` and `usart_set_baud`; `rx_errors`, statistics, logging.
- `packet_send` and all answers: the host may behave in any way, so answers do not restrict it.
- File I/O of the encoder and of the decoder tool, and the encoder's refusal of images of different sizes.
- The STM32 branches, build files, linker script, port scripts. The uploader is not in the repository: it is the environment.
- Failing flash operations other than by power: the verification behind ERASE only prints.

## 9. Plan

1. (done) `FlashLayout`, `Bin2PageStream`, `SFU`, `SFUProperties`, `PacketReceiver`, and the theorems on `SFU`.
2. (done) `UsartRx`, `Bin2Page`, `CRC32`, `UpdateFile`, `SlotStore` and `SFUStore`, and the theorems on each.
3. A host that keeps to the protocol, composed with `SFU`: SPEED outside a session, START without one.
4. `PacketReceiver` and `UsartRx` composed on one line, and `ERROR_RESET` against the timeout of a session.
5. Theorems: (done) every safety property of the passing runs. Left: that the cells of `Bin2PageStream` stand for the blocks of
   `Bin2Page`, and the safety of the compositions of 3 and 4.
