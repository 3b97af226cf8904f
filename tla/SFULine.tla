------------------------------ MODULE SFULine ------------------------------
(***************************************************************************)
(* Progress of the update core, on a line that may stop in the middle of a *)
(* packet.  receive_packets_worker tests the timeout and then goes on      *)
(* calling the check function while there is any byte in the receive       *)
(* buffer: with too few bytes for that function it does not come back to   *)
(* main(), and no time that passes gets it out (PacketReceiver.tla:        *)
(* Stalled, SilenceTimesOut).  SFU.tla, whose packets come whole, is       *)
(* extended by that one fact.                                              *)
(***************************************************************************)
EXTENDS SFUProperties

VARIABLE incomplete   \* the first bytes of a packet hold receive_packets_worker

lineVars == <<vars, incomplete>>

LineInit == Init /\ incomplete = FALSE

\* Bytes of a packet lie in the receive buffer, and not yet the rest of them.
PartArrives ==
  /\ Receiving /\ ~incomplete
  /\ incomplete' = TRUE
  /\ UNCHANGED vars

\* The rest comes, and the packet is only answered, or the parser gives it up.
PacketSpent ==
  /\ incomplete
  /\ incomplete' = FALSE
  /\ UNCHANGED vars

\* The rest comes, and the packet is one that changes something.
PacketTaken == incomplete /\ HostPacket /\ incomplete' = FALSE

DeviceRuns == ~incomplete /\ Device /\ UNCHANGED incomplete

TimeRuns == ~incomplete /\ Timeout /\ UNCHANGED incomplete

PowerFails == PowerLoss /\ incomplete' = FALSE

Host == PartArrives \/ PacketSpent \/ PacketTaken

LineNext == Host \/ DeviceRuns \/ TimeRuns \/ PowerFails

\* The one thread of the program runs, and time passes wherever it is looked at.
\* A host that keeps sending, if only what is answered, takes part after part:
\* then TimeRuns is not enabled all the time, and nothing is asked of it.
LineSpec ==
  LineInit /\ [][LineNext]_lineVars /\ WF_lineVars(DeviceRuns) /\ WF_lineVars(TimeRuns)

----------------------------------------------------------------------------

\* From some time on the host is silent and the power stays on.
Quiet == <>[][~Host /\ ~PowerFails]_lineVars

(***************************************************************************)
(* The bootloader does not keep a board whose selected slot it holds to be *)
(* bootable: when the host is silent, the boot wait ends and it jumps,     *)
(* unless the host fell silent in the middle of a packet.                  *)
(***************************************************************************)
SelectedSlotBoots ==
  Quiet => <>[](incomplete \/ pc = "app" \/ ~main_valid \/ ~check_run_context(main_selector))

(***************************************************************************)
(* A session the host abandons between two packets ends: the timeout       *)
(* closes it, so that no late WRITE is taken, unless the firmware runs by  *)
(* then.  One that is abandoned in the middle of a packet stays open.      *)
(***************************************************************************)
AbandonedSessionEnds ==
  Quiet => <>[](incomplete \/ pc = "app" \/ (write_addr = 0 /\ ~main_update_started))
=============================================================================
