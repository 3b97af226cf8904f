-------------------------- MODULE MCPacketReceiver --------------------------
(***************************************************************************)
(* A packet receiver with a signature of two cells and room for bodies of  *)
(* up to four cells, on a line with at most one or two faults.             *)
(***************************************************************************)
EXTENDS PacketReceiver

\* Every cell is a tuple that starts with its kind.
MCSign == << <<"s1">>, <<"s2">> >>
MCCode == <<"code">>
MCSizeCell(n) == <<"size", n>>
MCNoise == <<"noise">>
MCCrc(s) == <<"crc", s>>

\* Read as a size, a cell that is none is odd or too large, except that the
\* first cell of the signature makes a plausible one.
MCSizeOf(c) ==
  CASE c[1] = "size" -> c[2] [] c[1] = "s1" -> 2 [] OTHER -> PACKET_MAX_SIZE + 1

\* Bodies: none, one that holds a signature and the start of a header, and one
\* of the largest size.
LooksLikePacket == <<MCSign[1], MCSign[2], MCCode>>
Full == << <<"d">>, <<"d">>, <<"d">>, <<"d">> >>

MCPayloads == {<<>>, LooksLikePacket, Full}
=============================================================================
