--------------------------- MODULE MCConversation ---------------------------
(* Instances of Conversation for TLC. *)
EXTENDS Conversation, TLC

CONSTANTS q1, q2, q3

ThreeQuestions == {q1, q2, q3}

=============================================================================
