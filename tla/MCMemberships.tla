----------------------------- MODULE MCMemberships -----------------------------
\* Instances of IdentityLinks: requests from one family at a time, from a few
\* worlds.  Groups g1, g2 and g3 are of a kind with limits, g4 is of one without.
EXTENDS IdentityLinks, TLC

CONSTANTS r1, r2, r3, g1, g2, g3, g4, p1, p2, p3, p4, p5, u1, u2, u3, i1, club, free, none

CONSTANT Chosen    \* the families and worlds of a run

MCGroups == {g1, g2, g3, g4}
MCKindOf == (g1 :> club) @@ (g2 :> club) @@ (g3 :> club) @@ (g4 :> free)
MCMaxPerUser == (club :> 1) @@ (free :> NoLimit)
MCMaxMembers == (club :> 2) @@ (free :> NoLimit)
MCDeleteWhenEmpty == (club :> TRUE) @@ (free :> FALSE)
MCPersonRank == (p1 :> 1) @@ (p2 :> 2) @@ (p3 :> 3) @@ (p4 :> 4) @@ (p5 :> 5)
MCKeyRank == [key \in Kinds \X People |-> MCPersonRank[key[2]] + IF key[1] = free THEN 5 ELSE 0]
MCInviteTo == i1 :> g1
MCCodes == {u1, u2} \X (1 .. 1 + Cardinality(Reqs))

\* users of one id
At1(kind, on, u) == Operation(kind, on, <<u>>, none)
On(kind, on) == Operation(kind, on, <<>>, none)
Invited(kind, u) == Operation(kind, g1, <<u>>, i1)
Imported(on, u, w) == Operation("import", on, <<u, w>>, none)
Redeem(u, w) == Operation("redeem", none, <<u>>, <<w, 1>>)
Reissued(u, w) == Operation("redeem", none, <<u>>, <<w, 2>>)
Linked(kind, u) == Operation(kind, none, <<u>>, none)
Pair(kind, u, w) == Operation(kind, none, <<u, w>>, none)
Asked(kind) == Operation(kind, none, <<>>, <<none, 1>>)
Crossed(kind) == Operation(kind, none, <<>>, <<none, 2>>)

Limits == {At1("join", g1, u2), At1("add", g2, u2), At1("create", g3, u2), Imported(g2, u3, u2),
           On("restore", g2), On("delete", g2), At1("join", g1, u3), At1("add", g4, u2)}
Departs == {At1("leave", g1, u1), At1("kick", g1, u2), At1("ban", g1, u1), At1("join", g1, u2),
            On("sweep", g1), On("restore", g1), On("delete", g1), Redeem(u1, u2)}
Bans == {At1("ban", g1, u2), At1("unban", g1, u2), At1("join", g1, u2), At1("add", g1, u2),
         At1("kick", g1, u2), Imported(g1, u3, u2), Invited("accept", u2)}
Invitations == {Invited("accept", u2), Invited("accept", u3), Invited("decline", u2),
                Invited("revoke", u2), On("erase", g1), On("delete", g1)}
Edited == {At1("edit", g1, u1), At1("edit_if", g1, u1), At1("ban", g1, u1), At1("leave", g1, u1),
           On("erase", g1), Redeem(u1, u2), At1("add", g1, u1)}
Links == {Redeem(u2, u1), Redeem(u1, u2), Reissued(u3, u1), Linked("unlink", u1), Linked("unlink", u3), Linked("issue", u1),
          At1("join", g2, u2), At1("leave", g1, u1), At1("ban", g1, u2), At1("edit_if", g1, u2)}
Merges == {Redeem(u2, u1), Redeem(u1, u2), At1("add", g2, u2), At1("add", g1, u2), At1("join", g2, u1),
           Imported(g1, u3, u2), At1("ban", g1, u2), On("restore", g2), At1("create", g3, u1)}

Friended == {Pair("send", u1, u2), Pair("send", u2, u1), Pair("send", u2, u3), Asked("accept_friend"),
             Asked("withdraw"), Pair("unfriend", u1, u2), Pair("block", u1, u2), Pair("block", u2, u1),
             Pair("unblock", u1, u2), Redeem(u3, u1), Crossed("accept_friend")}
Befriended == {Pair("befriend", u1, u2), Pair("befriend", u2, u1), Pair("befriend", u2, u3),
               Asked("accept_friend"), Pair("unfriend", u1, u2), Pair("unfriend", u2, u1),
               Pair("block", u1, u2), Redeem(u3, u1)}

NoRow(who) == [person |-> who, status |-> "none", version |-> 0, noted |-> FALSE]

\* The rows of a world: what each person is to each group.
Rows(status) ==
    [id \in RowIds |-> IF id \in DOMAIN status THEN Row(id[2], status[id]) ELSE NoRow(id[2])]

World(rows, deleted, idle, joined, related) ==
    /\ group = [x \in Groups |-> [status |-> IF x = g3 THEN "none" ELSE IF x \in deleted THEN "deleted"
                                              ELSE "live", idle |-> x \in idle]]
    /\ member = Rows(rows)
    /\ personOf = (u1 :> p1) @@ (u2 :> p2) @@ (u3 :> IF joined THEN p1 ELSE p3)
    /\ relation = related
    /\ person = [x \in People |-> IF \E u \in Users : personOf[u] = x THEN "here" ELSE "none"]

Worlds(w) ==
    CASE w = "deleted" -> World((<<g2, p2>> :> "active") @@ (<<g1, p1>> :> "active"), {g2}, {}, FALSE, {})
      [] w = "apart" -> World((<<g1, p1>> :> "active") @@ (<<g1, p2>> :> "left"), {}, {g1}, FALSE, {})
      [] w = "both" -> World((<<g1, p1>> :> "active") @@ (<<g1, p2>> :> "active"), {}, {g1}, FALSE, {})
      [] w = "banned" -> World((<<g1, p1>> :> "active") @@ (<<g1, p2>> :> "banned"), {}, {}, FALSE, {})
      [] w = "single" -> World((<<g1, p1>> :> "active") @@ (<<g2, p3>> :> "active"), {g2}, {}, FALSE, {})
      [] w = "left" -> World((<<g1, p1>> :> "active") @@ (<<g2, p2>> :> "left"), {}, {}, FALSE, {})
      [] w = "joined" -> World((<<g1, p1>> :> "active") @@ (<<g1, p2>> :> "active"), {}, {}, TRUE, {})
      [] w = "strangers" -> World(<<>>, {}, {}, FALSE, {})
      [] w = "asked" -> World(<<>>, {}, {}, FALSE, {Relation(<<none, 1>>, p1, p2, "request")})
      [] w = "crossed" -> World(<<>>, {}, {}, FALSE, {Relation(<<none, 1>>, p1, p2, "request"),
                                                       Relation(<<none, 2>>, p2, p1, "request")})
      [] w = "friends" -> World(<<>>, {}, {}, FALSE, {Relation(<<none, 1>>, p1, p2, "friend"),
                                                       Relation(<<none, 2>>, p2, p1, "friend")})
      [] w = "blocked" -> World(<<>>, {}, {}, FALSE, {Relation(<<none, 1>>, p1, p2, "blocked")})

Family(name) ==
    CASE name = "limits" -> Limits [] name = "departs" -> Departs [] name = "bans" -> Bans
      [] name = "invites" -> Invitations [] name = "edits" -> Edited [] name = "links" -> Links
      [] name = "merges" -> Merges [] name = "friends" -> Friended [] name = "befriends" -> Befriended

MCInit ==
    /\ held = [r \in Reqs |-> {}] /\ marked = {} /\ invite = [x \in Invites |-> "open"]
    /\ code = [x \in Codes |-> IF x[2] = 1 THEN "live" ELSE "none"]
    /\ \E pair \in Chosen : /\ Worlds(pair[1])
                            /\ req \in [Reqs -> {Fresh(op) : op \in Family(pair[2])}]
    /\ Init

MCSpec == MCInit /\ [][Next]_vars

MCChosen == {<<"deleted", "limits">>, <<"apart", "limits">>, <<"both", "departs">>,
             <<"apart", "departs">>, <<"apart", "bans">>, <<"banned", "bans">>,
             <<"apart", "invites">>, <<"both", "edits">>, <<"joined", "links">>, <<"both", "links">>,
             <<"banned", "links">>, <<"apart", "merges">>, <<"deleted", "merges">>, <<"single", "merges">>,
             <<"left", "merges">>, <<"strangers", "friends">>, <<"asked", "friends">>,
             <<"blocked", "friends">>, <<"friends", "friends">>, <<"crossed", "friends">>, <<"strangers", "befriends">>,
             <<"asked", "befriends">>, <<"friends", "befriends">>}

Symmetry == Permutations(Reqs)
=============================================================================
