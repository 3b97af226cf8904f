------------------------------ MODULE SFUStore ------------------------------
(***************************************************************************)
(* The bootloader of SFU implements the store of SlotStore.  A slot holds  *)
(* a version where its signature is stamped and its body matches the CRC   *)
(* (find_latest_variant's test); the signature then is the version.  An    *)
(* update in progress, its erase blocks and its pages are all one NOTHING. *)
(***************************************************************************)
EXTENDS SFUProperties

StoredVersion(s) == IF ValidSlot(s) THEN sign[s] ELSE ERASED_SIGN

Store == INSTANCE SlotStore WITH
  Image      <- BodyImage,
  LAST_STAMP <- UINT32_MAX,
  NOTHING    <- ERASED_SIGN,
  slot       <- [s \in BOOLEAN |-> StoredVersion(s)],
  chosen     <- IF main_valid THEN {variant} ELSE {},
  kept       <- session.legal,
  known      <- session.scanned

(***************************************************************************)
(* Every behaviour of the update core, power failures and torn signatures  *)
(* included, is one of the store: "The currently active slot is never      *)
(* erased or overwritten during an update" for hosts that keep to one      *)
(* update per scan, and the scan chooses the newest version.               *)
(***************************************************************************)
ImplementsStore == Store!Spec
=============================================================================
