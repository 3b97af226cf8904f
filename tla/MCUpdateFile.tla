---------------------------- MODULE MCUpdateFile ----------------------------
(***************************************************************************)
(* A format of eight bytes with eight values (the code: 256 and 256).      *)
(***************************************************************************)
EXTENDS UpdateFile

MCSIGN == <<1, 2, 3, 1>>

\* The same byte, 0xFF in both, and a difference.
MCPairs == {<<2, 2>>, <<7, 7>>, <<7, 0>>}
MCSizes == {1, 4}
MCDamages == 0 .. 7
MCPacketPages == {1, 2}

\* The context is the first byte, and may be anything but erased.
MCContextOk(c, s) == c # <<7>>
=============================================================================
