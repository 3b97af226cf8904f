----------------------------- MODULE SlotStore -----------------------------
(***************************************************************************)
(* What the A/B scheme promises, without erase blocks, pages, packets and  *)
(* a decoder: a store of two slots, each with one whole version of the     *)
(* firmware or with nothing that could be started.  The slot that was      *)
(* chosen at the last scan is left alone while the host keeps to the       *)
(* protocol, whenever the power fails, and the scan chooses the newest.    *)
(*                                                                         *)
(* SFUStore shows that the bootloader implements it.                       *)
(***************************************************************************)
EXTENDS Integers

CONSTANTS
  Image,       \* the firmware images
  LAST_STAMP,  \* stamps are smaller than this
  NOTHING      \* what a slot without a whole version holds

VARIABLES
  slot,    \* for each of the slots FALSE and TRUE, its version or NOTHING
  chosen,  \* the slot that was chosen, as a set of at most one
  kept,    \* the host has kept to the protocol since
  known    \* the stamps were looked at since power-on

vars == <<slot, chosen, kept, known>>

Version == [crc : Image, ts : 0 .. (LAST_STAMP - 1)]
Contents == Version \union {NOTHING}

Whole(s) == slot[s] # NOTHING
Newest(s) == Whole(s) /\ \A t \in BOOLEAN : Whole(t) => slot[t].ts <= slot[s].ts

Init ==
  /\ slot \in [BOOLEAN -> Contents]
  /\ chosen = {} /\ kept = TRUE /\ known = FALSE

\* Only slot s changes, to one of these contents.
SlotBecomes(s, contents) ==
  /\ slot' \in [BOOLEAN -> Contents]
  /\ slot'[s] \in contents
  /\ slot'[~s] = slot[~s]

MayChange(s) == kept => s \notin chosen

\* The scan.
Choose ==
  /\ IF \E s \in BOOLEAN : Whole(s)
     THEN \E s \in BOOLEAN : Newest(s) /\ chosen' = {s}
     ELSE chosen' = {}
  /\ kept' = TRUE /\ known' = TRUE
  /\ UNCHANGED slot

\* An update begins: what the slot held is given up.
GiveUp(s) ==
  /\ MayChange(s)
  /\ SlotBecomes(s, {NOTHING})
  /\ UNCHANGED <<chosen, kept, known>>

\* An update is complete.  Its version is the newest when stamps are known.
Publish(s) ==
  /\ ~Whole(s)
  /\ SlotBecomes(s, Version)
  /\ kept /\ known /\ Whole(~s) => slot[~s].ts < slot'[s].ts
  /\ UNCHANGED <<chosen, kept, known>>

\* The first start takes over the firmware that came with the board.
Adopt(s) ==
  /\ chosen = {} /\ ~known /\ ~Whole(s) /\ ~Whole(~s)
  /\ SlotBecomes(s, Version)
  /\ chosen' = {s}
  /\ UNCHANGED <<kept, known>>

\* The host leaves the protocol: a second ERASE, a START without a session.
Break ==
  /\ kept' = FALSE
  /\ UNCHANGED <<slot, chosen, known>>

\* The power fails, while one slot may be half-way to something else: a version
\* is lost, or complete, or found again with any stamp, but never altered.
Fail ==
  /\ \E s \in BOOLEAN :
       /\ MayChange(s)
       /\ SlotBecomes(s, IF Whole(s) THEN {v \in Contents : v # NOTHING => v.crc = slot[s].crc}
                         ELSE Contents)
  /\ chosen' = {} /\ kept' = TRUE /\ known' = FALSE

Next ==
  \/ Choose \/ Break \/ Fail
  \/ \E s \in BOOLEAN : GiveUp(s) \/ Publish(s) \/ Adopt(s)

Spec == Init /\ [][Next]_vars

(***************************************************************************)
(* The promise of the A/B scheme: while the host keeps to the protocol,    *)
(* the chosen slot holds a whole version (find_latest_variant's choice is  *)
(* never erased under the running system).                                 *)
(***************************************************************************)
ChosenIsWhole == kept => \A s \in chosen : Whole(s)
=============================================================================
