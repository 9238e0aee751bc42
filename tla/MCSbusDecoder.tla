--------------------------- MODULE MCSbusDecoder ---------------------------
(* Small instance of SbusDecoder: three bytes, of which one may end a frame. *)
EXTENDS SbusDecoder

CONSTANTS start, end, other
=============================================================================
