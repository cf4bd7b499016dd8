-------------------------- MODULE MCBufferedHandler --------------------------
(* The buffer with a limit of three values and of three time units.        *)
EXTENDS BufferedHandler
==============================================================================
