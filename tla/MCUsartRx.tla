----------------------------- MODULE MCUsartRx -----------------------------
(***************************************************************************)
(* A ring of two bytes and a buffer of four (the code: 32 KB and 128 KB).  *)
(***************************************************************************)
EXTENDS UsartRx

\* One byte, as the worker and receive_check_start ask for; and the most that a
\* full buffer can promise.
MCNBytes == {1, 3}
=============================================================================
