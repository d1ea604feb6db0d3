---------------------------- MODULE MCConversation ----------------------------
(* Small instances of Conversation. *)
EXTENDS Conversation

\* A snipped history has room for a head that ends in a call, the last two
\* batches of results and a question.  Without that even the results the model
\* waits for may be snipped.
ASSUME RoomForTwoBatches == MaxMessages >= HeadKept + 3 * MaxCalls + 3
=============================================================================
