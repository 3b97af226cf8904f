----------------------------- MODULE MCSFULine -----------------------------
(***************************************************************************)
(* The board of MCSFU, on the line of SFULine.                             *)
(***************************************************************************)
EXTENDS MCSFU, SFULine
=============================================================================
