---------------------------- MODULE MCRunRuntime ----------------------------
(***************************************************************************)
(* Instances of RunRuntime for TLC.  All runs belong to one task, so that  *)
(* they compete for it.                                                    *)
(***************************************************************************)
EXTENDS RunRuntime, TLC

CONSTANTS t1, p1, p2, w1, w2

MCTaskOf == [r \in Runs |-> t1]

\* Two workers in one process.
HomeSingle == [w \in Workers |-> p1]

\* One worker in each of two replicas.
HomeReplicas == (w1 :> p1) @@ (w2 :> p2)

RunSymmetry == Permutations(Runs)

\* The two replicas, each with its worker, can be exchanged.
ReplicaSymmetry ==
    {f \in Permutations({p1, p2, w1, w2}) :
       \A w \in {w1, w2} : f[w] \in {w1, w2} /\ f[HomeReplicas[w]] = HomeReplicas[f[w]]}

=============================================================================
