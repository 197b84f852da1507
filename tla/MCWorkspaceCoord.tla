-------------------------- MODULE MCWorkspaceCoord --------------------------
(***************************************************************************)
(* WorkspaceCoord on a repository, a directory below it and a sibling,     *)
(* with a run below the repository and two sessions.                       *)
(***************************************************************************)
EXTENDS WorkspaceCoord, TLC

CONSTANTS run, ext, hec, w1, w2, d1, d2

MCKeys == {<<"a">>, <<"a", "b">>, <<"c">>}
MCWorkspaceOf == [o \in {run, ext, hec} |->
                    IF o = run THEN <<"a", "b">> ELSE <<"a">>]

(* Callers of one kind are interchangeable.  *)
Callers == Permutations({w1, w2}) \cup Permutations({d1, d2})
=============================================================================
