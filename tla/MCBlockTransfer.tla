--------------------------- MODULE MCBlockTransfer ---------------------------
(***************************************************************************)
(* BlockTransfer on small packets: a recv() may return any number of bytes *)
(* up to a whole packet.  The sizes of the program itself (app_05common.h, *)
(* both values of SIZE_ONE_PACKET) meet what the model assumes of sizes.   *)
(***************************************************************************)
EXTENDS BlockTransfer

MCReadSizes == 1 .. PacketLen

NoByteIsDataCode(s) == s \div 256 # kDataCode /\ s % 256 # kDataCode

ASSUME ShippedSizesOK ==
  /\ 1024000 = 124 * 8192 + 8192 /\ NoByteIsDataCode(8192)
  /\ 1024000 = 499 * 2048 + 2048 /\ NoByteIsDataCode(2048)
==============================================================================
