------------------------------ MODULE MCOutbox ------------------------------
(***************************************************************************)
(* A small instance of Outbox.  Two rows and a LIMIT of 1: there is always *)
(* a row that the window leaves out.  Two flushes overlap.  RetryBase 1    *)
(* and MaxAge 4 let a row's backoff (1, then 2, then 4) be both running    *)
(* and over.  Liveness is checked, so there is no symmetry.                *)
(***************************************************************************)
EXTENDS Outbox

MCNumEntries == 2
MCMaxAttempts == 2
MCBatchSize == 1
MCRetryBase == 1
MCMaxAge == 4
MCMaxCrashes == 1
=============================================================================
