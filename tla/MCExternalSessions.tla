------------------------- MODULE MCExternalSessions -------------------------
(***************************************************************************)
(* Calls that use a session, and one or two that end it.                   *)
(***************************************************************************)
EXTENDS ExternalSessions

CONSTANTS c1, c2, c3

MCKindsOf ==
    [c \in Calls |-> CASE c = c1 -> {"run", "prepare"}
                       [] c = c2 -> {"run", "take"}
                       [] OTHER -> {"take", "configure", "shutdown"}]

=============================================================================
