------------------------- MODULE MCSessionPipeline -------------------------
(***************************************************************************)
(* A small instance of SessionPipeline: two calls about one session, which *)
(* is every pair of calls that can be reordered, retried or replayed.      *)
(* Backoff only delays, so it is 0 here (module Outbox checks it), and     *)
(* time stands still, since no property of the composition is about it.    *)
(***************************************************************************)
EXTENDS SessionPipeline

MCNumEntries == 2
MCMaxAttempts == 2
MCBatchSize == 2
MCRetryBase == 0
MCMaxAge == 0
MCMaxCrashes == 1
MCStaleAfter == 0
MCMaxTime == 1
MCMaxEnds == 2
=============================================================================
