--------------------------- MODULE MCWebhookWorker ---------------------------
(* Small instances of WebhookWorker for TLC. *)
EXTENDS WebhookWorker, TLC

CONSTANTS p1, p2, e1, e2, d1, d2, d3

\* Two rows of one endpoint, and one of the other.
MCTarget == (d1 :> e1) @@ (d2 :> e1) @@ (d3 :> e2)
TwoTargets == (d1 :> e1) @@ (d2 :> e2)

\* The processes are alike, and so are the two rows of one endpoint.
Symmetry ==
    {f @@ g : f \in Permutations({p1, p2}), g \in Permutations({d1, d2})}

=============================================================================
