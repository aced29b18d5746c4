------------------------ MODULE MCAssistantSession ------------------------
(* A small instance for TLC: the handlers of two sessions, up to two of     *)
(* them waiting at once, and answers of up to three pages.                  *)
EXTENDS AssistantSession, TLC

Symmetry == Permutations(Flows)
=============================================================================
