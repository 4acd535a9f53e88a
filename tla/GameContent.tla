----------------------------- MODULE GameContent -----------------------------
(***************************************************************************)
(* What a mirror copies: the moderation, the people and one group of a     *)
(* game, as the rows of Postgres say it, and the game's event log.  One    *)
(* write is one committed transaction with its one event; how transactions *)
(* interleave is Memberships, Friends and IdentityLinks.                   *)
(*                                                                         *)
(*   past     what the rows said after each event; past[1] before any      *)
(*   log      the events, oldest first: an event's position is its index   *)
(*   swept    the events up to this position are deleted                   *)
(*                                                                         *)
(* A person is a name of no meaning; people are known by their ids.        *)
(***************************************************************************)
EXTENDS Naturals, Sequences, FiniteSets, SequencesExt

CONSTANTS
    Ids,        \* the external ids of people, and as many people at most
    Starts,     \* at first: the ids of people, the moderated, the members
    Lists,      \* the kinds of moderation: "bans" and a type of sanction
    Kinds,      \* bound: the kinds of writes
    Changes,    \* the parts of a member's row that one write may change
    MaxWrites   \* bound: writes

\* What is read of a member in statements of their own: the status and the
\* metadata, the roles, the overrides.
Parts == {"status", "roles", "overrides"}

ASSUME ChangesAssumption == Changes \subseteq SUBSET Parts

ASSUME BoundsAssumption == IsFiniteSet(Ids) /\ MaxWrites \in Nat

\* Every id is one person's, once.  A person of no ids is nobody yet.
ASSUME StartsAssumption ==
    \A s \in Starts :
        /\ s.ids \in [Ids -> Seq(Ids)]
        /\ s.marked \in [Lists -> SUBSET Ids]
        /\ s.joined \subseteq Ids
        /\ \A i \in Ids : \E p \in Ids : \E n \in DOMAIN s.ids[p] :
              /\ s.ids[p][n] = i
              /\ \A q \in Ids : \A m \in DOMAIN s.ids[q] :
                    s.ids[q][m] = i => q = p /\ m = n
        /\ \A p \in Ids : s.ids[p] = <<>> =>
              p \notin s.joined /\ \A l \in Lists : p \notin s.marked[l]

VARIABLES past, log, swept

contentVars == <<past, log, swept>>

People == Ids

\* What the rows said at a position.
At(n) == past[n + 1]
End == Len(log)
Now == At(End)

Holder(s, i) == CHOOSE p \in People : i \in ToSet(s.ids[p])

\* The id the server names a person by: the one linked first.
Shown(s, p) == Head(s.ids[p])

\* A row of the group: its id, by the write that made it; its version; and what
\* each part of it says, by the write that set it.
NoRow == [id |-> <<>>, v |-> 0, says |-> [part \in Parts |-> 0]]
NewRow(p, n) == [id |-> <<p, n>>, v |-> 1, says |-> [part \in Parts |-> n]]
Row(s, i) == IF s.group = 0 THEN NoRow ELSE s.members[Holder(s, i)]
MarkedAt(s, l, i) == Holder(s, i) \in s.marked[l]

-----------------------------------------------------------------------------
InitContent ==
    /\ \E s \in Starts :
          past = <<[ids |-> s.ids,
                    marked |-> s.marked,
                    version |-> [p \in People |->
                        IF \E l \in Lists : p \in s.marked[l] THEN 1 ELSE 0],
                    members |-> [p \in People |->
                        IF p \in s.joined THEN NewRow(p, 1) ELSE NoRow],
                    group |-> 1]>>
    /\ log = <<>>
    /\ swept = 0

Write(kind, s, event) ==
    /\ kind \in Kinds /\ End < MaxWrites
    /\ past' = Append(past, s)
    /\ log' = Append(log, event)
    /\ UNCHANGED swept

\* A ban or a sanction set or lifted, under any of a person's ids.
Moderate(l, i) ==
    LET p == Holder(Now, i)
        on == p \notin Now.marked[l]
        v == Now.version[p] + 1
    IN  Write("moderate",
              [Now EXCEPT !.marked[l] = IF on THEN @ \cup {p} ELSE @ \ {p},
                          !.version[p] = v],
              [k |-> "moderated", who |-> i, list |-> l, on |-> on, v |-> v])

\* The row with some of its parts changed.
Changed(row, parts, n) ==
    [id |-> row.id, v |-> row.v + 1,
     says |-> [part \in Parts |-> IF part \in parts THEN n ELSE row.says[part]]]

\* A member joins, or changes: a status, roles, overrides, or several at once.
ChangeMember(i) ==
    LET p == Holder(Now, i) IN
    /\ Now.group # 0
    /\ \E row \in IF Now.members[p] = NoRow THEN {NewRow(p, End + 2)}
                  ELSE {Changed(Now.members[p], parts, End + 2) :
                            parts \in Changes} :
          Write("member", [Now EXCEPT !.members[p] = row],
                [k |-> "member", who |-> i, v |-> row.v])

\* A role, a permission or the group itself changes.
ChangeGroup ==
    /\ Now.group # 0
    /\ Write("group", [Now EXCEPT !.group = End + 2], [k |-> "group"])

\* The rows of members stay, or go with it.
DeleteGroup ==
    /\ Now.group # 0
    /\ \E members \in {Now.members, [p \in People |-> NoRow]} :
          Write("delete", [Now EXCEPT !.group = 0, !.members = members],
                [k |-> "deleted"])

\* Two people become one: p stays.  Neither is banned, and the one that goes
\* holds nothing: one id, no moderation; its row is moved, or dropped where p
\* has one.
Link(p, q) ==
    LET ids == Now.ids[p] \o Now.ids[q]
        row == Now.members[q]
        kept == IF Now.members[p] = NoRow /\ row # NoRow
                THEN Changed(row, {}, End) ELSE Now.members[p]
    IN  /\ p # q /\ Now.ids[p] # <<>> /\ Len(Now.ids[q]) = 1
        /\ {p, q} \cap Now.marked["bans"] = {}
        /\ Now.version[q] = 0
        /\ Write("link",
                 [Now EXCEPT !.ids = [@ EXCEPT ![p] = ids, ![q] = <<>>],
                             !.members = [@ EXCEPT ![p] = kept, ![q] = NoRow]],
                 [k |-> "linked", who |-> Last(ids), ids |-> ToSet(ids), moved |-> Last(ids)])

\* One id leaves for a new, empty person; everything else stays where it is.
Unlink(i) ==
    LET p == Holder(Now, i)
        left == RemoveAt(Now.ids[p], CHOOSE n \in DOMAIN Now.ids[p] : Now.ids[p][n] = i)
        fresh == CHOOSE q \in People : Now.ids[q] = <<>>
    IN  /\ left # <<>>
        /\ p \notin Now.marked["bans"]
        /\ Write("unlink",
                 [Now EXCEPT !.ids = [@ EXCEPT ![p] = left, ![fresh] = <<i>>]],
                 [k |-> "unlinked", who |-> Head(left), ids |-> ToSet(left), moved |-> i])

Writes ==
    \/ \E i \in Ids, l \in Lists : Moderate(l, i)
    \/ \E i \in Ids : ChangeMember(i) \/ Unlink(i)
    \/ ChangeGroup
    \/ DeleteGroup
    \/ \E p, q \in People : Link(p, q)

=============================================================================
