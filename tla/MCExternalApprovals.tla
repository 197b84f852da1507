------------------------- MODULE MCExternalApprovals -------------------------
(***************************************************************************)
(* Two requests for the same tool from two sessions of one workspace; one  *)
(* of them offers an option of its own kind and no way to reject.          *)
(***************************************************************************)
EXTENDS ExternalApprovals, TLC

CONSTANTS q1, q2, o1, o2

MCOptionsOf ==
    [q \in Requests |-> IF q = q1 THEN <<"allow_once", "reject_once">>
                        ELSE <<"custom", "allow_always">>]
MCSessionOf == [q \in Requests |-> IF q = q1 THEN "s1" ELSE "s2"]
MCWorkspaceOf == [q \in Requests |-> "w"]
MCToolOf == [q \in Requests |-> "write"]
MCConfigurations ==
    {<<"prompt", "sql">>, <<"auto", "sql">>,
     <<"deny", "memory">>, <<"other", "memory">>}
CallSymmetry == Permutations({o1, o2})

=============================================================================
