-------------------------- MODULE MCHTTPLogTarget --------------------------
(* The HTTP log target with two senders of two entries each and a buffer  *)
(* of one entry, so that the buffer fills and Send reports it full.       *)
EXTENDS HTTPLogTarget

MCMaxSends == 2
MCQueueSize == 1
=============================================================================
