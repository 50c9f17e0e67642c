----------------------------- MODULE JournalMC -----------------------------
(***************************************************************************)
(* Journal with a small ring for TLC.  One poller stands for all: a poll   *)
(* changes nothing that another poller reads.                              *)
(***************************************************************************)
EXTENDS Journal, TLC

=============================================================================
