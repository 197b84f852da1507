--------------------------- MODULE MCChatLifecycle ---------------------------
(* Model values for ChatLifecycle. *)
EXTENDS ChatLifecycle

CONSTANTS s1, r1, r2, c1, c2
=============================================================================
