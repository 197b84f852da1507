---------------------------- MODULE MCAgentLoop ----------------------------
(***************************************************************************)
(* Instances of AgentLoop for TLC.                                         *)
(***************************************************************************)
EXTENDS AgentLoop

(* Two runs started from the first one, and one run started from it. *)
Branches == <<0, 1, 1>>
Chain == <<0, 1>>

(* Batches with and without a gated call. *)
MixedAnswers == {<<"free">>, <<"free", "gated">>}

(* One ungated call. *)
FreeAnswers == {<<"free">>}

(* Bound: at most two of a crash, a failed write and a cancellation, and   *)
(* a second answer only without any.                                       *)
Mishaps == used.crashes + used.faults + used.cancels
SmallScope == Mishaps <= 2 /\ (batches > 1 => Mishaps = 0)

(* The two branches are alike: the lower one starts first. *)
LowerFirst == run[3].status # "none" => run[2].status # "none"
=============================================================================
