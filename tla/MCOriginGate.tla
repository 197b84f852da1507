---------------------------- MODULE MCOriginGate ----------------------------
(* Model values and bounds for OriginGate. *)
EXTENDS OriginGate

CONSTANTS m1, m2, d1, d2

(* One chat origin, whose validator is installed at composition, and one   *)
(* origin of a kind without a durable validator.                           *)
MCOrigins == {"chat1", "ext1"}
MCKinds == {"chat", "external"}
MCKindOf == [o \in MCOrigins |-> IF o = "chat1" THEN "chat" ELSE "external"]

MCBootValidators == {"chat"}
=============================================================================
