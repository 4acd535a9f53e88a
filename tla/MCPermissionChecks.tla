------------------------- MODULE MCPermissionChecks -------------------------
(* Small instances of PermissionChecks for TLC. *)
EXTENDS PermissionChecks, TLC

CONSTANTS g1, g2, g3, w1, w2, c1, c2

Direct(x) == <<x, FALSE>>
Inherited(x) == <<x, TRUE>>

\* A check, and batches whose walks meet.
MCBatches == {<<Direct(g2)>>, <<Inherited(g1)>>, <<Inherited(g2), Inherited(g1)>>}

Op(kind, group, value, up) == [kind |-> kind, group |-> group, value |-> value, parent |-> up]

Wrote(kind, x, value) == Op(kind, x, value, NoGroup)
Moved(kind, x, up) == Op(kind, x, "open", up)

\* What the two writers do.
Pairs ==
    {<<Wrote("grant", g2, "open"), Wrote("grant", g1, "no")>>,
     <<Wrote("grant", g2, "open"), Moved("reparent", g1, g3)>>,
     <<Wrote("grant", g3, "no"), Moved("reparent", g2, NoGroup)>>,
     <<Wrote("member", g2, "open"), Wrote("grant", g1, "no")>>,
     <<Wrote("link", g1, "open"), Wrote("grant", g2, "no")>>,
     <<Wrote("remote", g2, "no"), Wrote("delete", g2, "open")>>,
     <<Moved("reparent", g3, g1), Moved("reparent", g2, g3)>>,
     <<Moved("reparent", g1, NoGroup), Moved("admin_reparent", g2, NoGroup)>>,
     <<Wrote("delete", g2, "open"), Wrote("grant", g3, "no")>>,
     <<Wrote("restore", g2, "open"), Wrote("grant", g2, "open")>>}

MCOps == UNION {{pair[1], pair[2]} : pair \in Pairs}

Does(kind) == \E w \in Writers : write[w].op.kind = kind

\* The worlds: the chain from g1 over g2 to g3, or, for two writes that could close
\* a cycle, a part of it; one group or none that decides; g2 deleted if restored.
MCInit ==
    /\ Init
    /\ <<write[w1].op, write[w2].op>> \in Pairs
    /\ parent = (g1 :> g2) @@ (g3 :> NoGroup) @@ (g2 :> IF On(w1) = g3 THEN NoGroup ELSE g3)
    /\ level \in {[x \in Groups |-> IF x = d THEN "yes" ELSE "open"] : d \in {g2, g3}}
    /\ live = IF Does("restore") THEN Groups \ {g2} ELSE Groups

MCSpec == MCInit /\ [][Next]_vars
MCFairSpec == MCSpec /\ WF_vars(Tick)

=============================================================================
