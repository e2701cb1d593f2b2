-------------------------------- MODULE MC_Log --------------------------------
(* Model-checking instance of Log.  Opcode bytes follow the tux3.h         *)
(* enumeration starting at 0x33; block numbers include one whose low byte *)
(* equals an opcode, as any 48-bit block number may.                      *)
EXTENDS Log

MC_LOG_ALLOC == 51
MC_LOG_FREE == 52
MC_LOG_UPDATE == 53
MC_LOG_IROOT == 55
MC_LOG_REDIRECT == 56
=============================================================================
