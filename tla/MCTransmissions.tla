--------------------------- MODULE MCTransmissions ---------------------------
(* The instance of Transmissions for TLC.                                  *)
EXTENDS Transmissions, MCDispatch
=============================================================================
