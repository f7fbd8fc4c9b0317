--------------------------- MODULE MCConversation ---------------------------
(***************************************************************************)
(* A small instance of Conversation.  Three messages: one that starts a    *)
(* turn and two that arrive behind it, so that the queue holds two.        *)
(***************************************************************************)
EXTENDS Conversation, TLC
=============================================================================
