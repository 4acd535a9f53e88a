----------------------------- MODULE Memberships -----------------------------
(***************************************************************************)
(* Groups and their members: the routes of routes/groups.ts,               *)
(* routes/invitations.ts and routes/memberImport.ts that change who is a   *)
(* member, the limits of groupKinds.ts and the idle sweeper.               *)
(*                                                                         *)
(*   group    of each group: not created yet, live, soft-deleted, or gone; *)
(*            and whether its membership has not changed for as long as    *)
(*            its kind allows (memberActivityAt)                           *)
(*   member   the rows of GroupMember, by an id that names the group and   *)
(*            the person they were created for: whose they are now, their  *)
(*            status ("none": no such row) and version                     *)
(*   invite   invitations: open, used, declined or deleted                 *)
(*   person   the rows of JunjoUser: not created yet, here, or gone        *)
(*   personOf the person each external id names                            *)
(*   marked   people with bans, relationships or other history             *)
(***************************************************************************)
EXTENDS Requests, Functions

CONSTANTS
    Groups, People, Users, Invites,
    NoLimit,
    KindOf,           \* of each group
    MaxPerUser,       \* of each kind: a number or NoLimit
    MaxMembers,       \* likewise
    DeleteWhenEmpty,  \* of each kind
    KeyRank,          \* of a kind and a person, as their lock keys sort
    PersonRank,       \* of a person, as their ids sort
    InviteTo          \* the group of each invitation

Kinds == {KindOf[g] : g \in Groups}
RowIds == Groups \X People

ASSUME MembershipsAssumption ==
    /\ MaxPerUser \in [Kinds -> Nat \cup {NoLimit}] /\ MaxMembers \in [Kinds -> Nat \cup {NoLimit}]
    /\ DeleteWhenEmpty \in [Kinds -> BOOLEAN] /\ InviteTo \in [Invites -> Groups]
    /\ KeyRank \in Injection(Kinds \X People, Nat) /\ PersonRank \in Injection(People, Nat)
    /\ IsFiniteSet(People) /\ IsFiniteSet(Groups) /\ IsFiniteSet(Invites)
    /\ IsFiniteSet(Reqs)

VARIABLES group, member, invite, person, personOf, marked

rowVars == <<group, member, invite>>
peopleVars == <<person, personOf, marked>>

\* users: the ids the request names.  item: its invitation or its link code.
Operation(kind, g, users, item) == [kind |-> kind, group |-> g, users |-> users, item |-> item]

\* who: the people the ids were resolved to.  rows, fresh: the member rows to
\* change and the people to create one for.  seen: the version of the row of the
\* first person, read before the transaction.  found: what a read in the
\* transaction found that a later step acts on.
Fresh(op) == [op |-> op, at |-> "begin", todo |-> <<>>, who |-> <<>>, rows |-> {},
              fresh |-> {}, seen |-> 0, found |-> FALSE, again |-> FALSE, answer |-> "none"]

Op(r) == req[r].op
Is(r, kinds) == Op(r).kind \in kinds
Group(r) == Op(r).group
Person(r) == req[r].who[1]

\* A new row of p.
Row(p, status) == [person |-> p, status |-> status, version |-> 1, noted |-> FALSE]

\* Row ids of p in g; the unique constraint keeps them to one.
RowsOf(g, p) == {id \in RowIds : id[1] = g /\ member[id].person = p /\ member[id].status # "none"}

Status(g, p) == IF RowsOf(g, p) = {} THEN "none"
                ELSE member[CHOOSE id \in RowsOf(g, p) : TRUE].status

Version(g, p) == IF RowsOf(g, p) = {} THEN 0
                 ELSE member[CHOOSE id \in RowsOf(g, p) : TRUE].version

Active(g) == {id \in RowIds : id[1] = g /\ member[id].status = "active"}

Live(g) == group[g].status = "live"

\* checkBanState, checkBans.  Mutant: never asked.
NeverBarred(g, p) == FALSE
Barred(g, p) == Status(g, p) = "banned"

\* Mutant: rows are read without a lock.
NoRowLocks(ids) == {}
RowLocks(ids) == {<<"row", id>> : id \in ids}

\* Every order of the locks in S, for a statement that has none.
Orders(S) == {s \in [1 .. Cardinality(S) -> S] : \A l \in S : \E i \in DOMAIN s : s[i] = l}

\* The order of the locks of one kind on the members of S by their ranks.
Sorted(kind, S, rank) ==
    {s \in Orders({kind} \X S) :
        \A i, j \in DOMAIN s : i < j => rank[s[i][2]] < rank[s[j][2]]}

\* lockGroupMembership.  Mutant: the group is read without a lock.
NoGroupLock(g) == <<>>
GroupLock(g) == <<<<"group", g>>>>

\* The transaction fails on a foreign key: p was merged into another person.
Orphan(p) == person[p] # "here"

-----------------------------------------------------------------------------
(* The limits of a kind (groupKinds.ts)                                    *)

\* Mutant: counts are not serialized.
NoCountLocks(kinds, people) == {<<>>}

\* The locks that serialize counts per person, in one order for every caller.
CountLocks(kinds, people) ==
    Sorted("count", {k \in kinds : MaxPerUser[k] # NoLimit} \X people, KeyRank)

\* Other live groups of the kind in which one of the people is active.
Elsewhere(g, people) ==
    {h \in Groups \ {g} : /\ Live(h) /\ KindOf[h] = KindOf[g]
                          /\ \E p \in people : Status(h, p) = "active"}

PerUserBroken(g, people) ==
    LET most == MaxPerUser[KindOf[g]] IN
    most # NoLimit /\ \E p \in people : Cardinality(Elsewhere(g, {p})) >= most

\* One failure refuses every request: an import takes all of its rows or none.
LimitBroken(g, people) ==
    LET most == MaxMembers[KindOf[g]] IN
    \/ PerUserBroken(g, people)
    \/ most # NoLimit /\ Cardinality(Active(g)) + Cardinality(people) > most

\* Mutant: the members are counted before the row is changed.
EmptiesLate(g, ids) == DeleteWhenEmpty[KindOf[g]] /\ Active(g) = {}

\* The group is left without an active member, and its kind deletes it.
Empties(g, ids) == DeleteWhenEmpty[KindOf[g]] /\ Active(g) \ ids = {}

-----------------------------------------------------------------------------
(* Entries: create a group, join, add, accept an invitation, import        *)

Entries == {"create", "join", "add", "accept", "import"}

\* The reads before the transaction: the group, the person, the ban.
BeginEntry(r) ==
    LET g == Group(r)
        p == personOf[Op(r).users[1]]
        next == [To(r, "group", GroupLock(g)) EXCEPT !.who = <<p>>, !.seen = Version(g, p)]
    IN  /\ At(r, "begin") /\ Is(r, {"join", "add", "accept"})
        /\ IF \/ ~Live(g)
              \/ Is(r, {"accept"}) /\ invite[Op(r).item] # "open"
              \/ Barred(g, p)
           THEN Answer(r, "refused")
           ELSE Goes(r, next)
        /\ UNCHANGED <<rowVars, peopleVars>>

BeginImport(r) ==
    /\ At(r, "begin") /\ Is(r, {"import"})
    /\ IF Live(Group(r)) THEN Goes(r, To(r, "group", GroupLock(Group(r))))
       ELSE Answer(r, "refused")
    /\ UNCHANGED <<rowVars, peopleVars>>

\* The row of the new group is its transaction's own until the commit.
BeginCreate(r) ==
    LET g == Group(r)
        p == personOf[Op(r).users[1]]
        next(locks) == [To(r, "counts", locks) EXCEPT !.who = <<p>>, !.fresh = {p}]
    IN  /\ At(r, "begin") /\ Is(r, {"create"}) /\ group[g].status = "none"
        /\ \E locks \in CountLocks({KindOf[g]}, {p}) : Goes(r, next(locks))
        /\ UNCHANGED <<rowVars, peopleVars>>

\* lockGroupMembership, and the row of the person read under it.
EnterGroup(r) ==
    LET g == Group(r)
        p == Person(r)
        next(locks) == [To(r, "counts", locks) EXCEPT
                    !.rows = RowsOf(g, p), !.fresh = IF RowsOf(g, p) = {} THEN {p} ELSE {}]
    IN  /\ At(r, "group") /\ Is(r, {"join", "add", "accept"})
        /\ IF ~Live(g) THEN Answer(r, "refused")
           ELSE IF Status(g, p) = "active"
           THEN Answer(r, IF Is(r, {"add"}) THEN "same" ELSE "refused")
           ELSE \E locks \in CountLocks({KindOf[g]}, {p}) : Goes(r, next(locks))
        /\ UNCHANGED <<rowVars, peopleVars>>

\* The import resolves its ids under the group lock, and locks the rows it finds.
ImportPeople(r) ==
    LET g == Group(r)
        who == [i \in DOMAIN Op(r).users |-> personOf[Op(r).users[i]]]
        rows == UNION {RowsOf(g, who[i]) : i \in DOMAIN who}
    IN  /\ At(r, "group") /\ Is(r, {"import"})
        /\ IF ~Live(g) \/ Cardinality(Range(who)) < Len(who) THEN Answer(r, "refused")
           ELSE \E order \in Orders(RowLocks(rows)) :
                   Goes(r, [To(r, "rows", order) EXCEPT !.who = who])
        /\ UNCHANGED <<rowVars, peopleVars>>

\* Its rows are read once they are locked: checkBans, checkKindLimits.
ImportRows(r) ==
    LET g == Group(r)
        entering == {p \in Range(req[r].who) : Status(g, p) # "active"}
        next(locks) == [To(r, "counts", locks) EXCEPT
                    !.who = CHOOSE who \in Orders(entering) : TRUE,
                    !.rows = UNION {RowsOf(g, p) : p \in entering},
                    !.fresh = {p \in entering : RowsOf(g, p) = {}}]
    IN  /\ At(r, "rows") /\ Is(r, {"import"})
        /\ IF \E p \in entering : Barred(g, p) THEN Answer(r, "refused")
           ELSE IF entering = {} THEN Answer(r, "same")
           ELSE \E locks \in CountLocks({KindOf[g]}, entering) : Goes(r, next(locks))
        /\ UNCHANGED <<rowVars, peopleVars>>

\* assertCanActivate, kindLimitFailures.
EnterCounts(r) ==
    /\ At(r, "counts") /\ Is(r, Entries)
    /\ IF LimitBroken(Group(r), Range(req[r].who)) THEN Answer(r, "refused")
       ELSE IF Is(r, {"accept"})
       THEN Goes(r, To(r, "invite", <<<<"invite", Op(r).item>>>>))
       ELSE \E order \in Orders(RowLocks(req[r].rows)) : Goes(r, To(r, "row", order))
    /\ UNCHANGED <<rowVars, peopleVars>>

\* Mutant: the update is not guarded by usedAt.
EnterInviteUsed(r) ==
    /\ At(r, "invite") /\ Is(r, {"accept"})
    /\ \E order \in Orders(RowLocks(req[r].rows)) : Goes(r, To(r, "row", order))
    /\ UNCHANGED <<rowVars, peopleVars>>

\* The guarded update of the invitation.
EnterInvite(r) ==
    /\ At(r, "invite") /\ Is(r, {"accept"})
    /\ IF invite[Op(r).item] # "open" THEN Answer(r, "refused")
       ELSE \E order \in Orders(RowLocks(req[r].rows)) : Goes(r, To(r, "row", order))
    /\ UNCHANGED <<rowVars, peopleVars>>

\* Whose rows the transaction refers to: those of new members, and the actor
\* of the audit entry.
Referred(r) ==
    IF Is(r, {"add", "import"}) THEN req[r].fresh
    ELSE IF Is(r, {"kick"}) THEN {} ELSE {Person(r)}

\* The locks of the foreign key checks.
ShareLocks(people) == {<<"share", p>> : p \in people}

\* The row is updated by its id, whoever it belongs to by now.
EnterRow(r) ==
    /\ At(r, "row") /\ Is(r, Entries)
    /\ IF \E id \in req[r].rows : member[id].status = "none" THEN Answer(r, "error")
       ELSE \E order \in Orders(ShareLocks(Referred(r))) : Goes(r, To(r, "share", order))
    /\ UNCHANGED <<rowVars, peopleVars>>

\* A person who was to get a row has got one, from a merge: isUniqueViolation.
Taken(r) == \E p \in req[r].fresh : RowsOf(Group(r), p) # {}

EnterShare(r) ==
    /\ At(r, "share") /\ Is(r, Entries)
    /\ IF \E p \in Referred(r) : Orphan(p) THEN Answer(r, "error")
       ELSE IF ~Taken(r) THEN Goes(r, To(r, "commit", <<>>))
       ELSE IF Is(r, {"add", "import"}) THEN Again(r, "group", GroupLock(Group(r)))
       ELSE Answer(r, "refused")
    /\ UNCHANGED <<rowVars, peopleVars>>

Touched(g) == [group EXCEPT ![g] = [status |-> "live", idle |-> FALSE]]

CommitEntry(r) ==
    LET g == Group(r) IN
    /\ At(r, "commit") /\ Is(r, Entries)
    /\ member' = [id \in RowIds |->
          IF id \in req[r].rows
          THEN [member[id] EXCEPT !.status = "active", !.version = @ + 1]
          ELSE IF id[1] = g /\ id[2] \in req[r].fresh
          THEN Row(id[2], "active")
          ELSE member[id]]
    /\ group' = Touched(g)
    /\ invite' = IF Is(r, {"accept"}) THEN [invite EXCEPT ![Op(r).item] = "used"] ELSE invite
    /\ Answer(r, "ok")
    /\ UNCHANGED peopleVars

Entry(r) ==
    \/ BeginEntry(r) \/ BeginImport(r) \/ BeginCreate(r) \/ EnterGroup(r) \/ ImportPeople(r)
    \/ ImportRows(r) \/ EnterCounts(r) \/ EnterInvite(r) \/ EnterRow(r) \/ EnterShare(r)
    \/ CommitEntry(r)

-----------------------------------------------------------------------------
(* Changes to a member: leave, kick, ban, unban, edit (metadata or notes), *)
(* and the same edit with If-Match                                         *)

Departures == {"leave", "kick", "ban"}
Edits == {"edit", "edit_if"}
Changes == Departures \cup Edits \cup {"unban"}

\* An edit locks its row, any other change the group before the row.  Mutant:
\* every change locks its row first.
RowFirst(r, rows) ==
    (IF rows = {} THEN <<>> ELSE <<<<"row", CHOOSE id \in rows : TRUE>>>>)
      \o (IF Is(r, Edits) THEN <<>> ELSE GroupLock(Group(r)))
ChangeLocks(r, rows) ==
    IF Is(r, Edits) THEN <<<<"row", CHOOSE id \in rows : TRUE>>>> ELSE GroupLock(Group(r))

BeginChange(r) ==
    LET g == Group(r)
        p == personOf[Op(r).users[1]]
        rows == RowsOf(g, p)
        stage == IF Is(r, Edits) THEN "row" ELSE "group"
        next == [To(r, stage, ChangeLocks(r, rows)) EXCEPT
                    !.who = <<p>>, !.rows = rows, !.seen = Version(g, p)]
    IN  /\ At(r, "begin") /\ Is(r, Changes)
        /\ IF ~Live(g) \/ (rows = {} /\ ~Is(r, {"ban"})) THEN Answer(r, "refused")
           ELSE IF Is(r, {"leave", "kick"}) /\ Status(g, p) # "active" THEN Answer(r, "same")
           ELSE IF Is(r, {"unban"}) /\ Status(g, p) # "banned" THEN Answer(r, "refused")
           ELSE Goes(r, next)
        /\ UNCHANGED <<rowVars, peopleVars>>

\* A ban reads the row of the person under the group lock, the others have its id.
ChangeGroup(r) ==
    LET g == Group(r)
        p == Person(r)
        rows == IF Is(r, {"ban"}) THEN RowsOf(g, p) ELSE req[r].rows
        next(order) == [To(r, "row", order) EXCEPT
                    !.rows = rows, !.fresh = IF rows = {} THEN {p} ELSE {},
                    !.found = Is(r, {"leave", "kick"}) \/ (Is(r, {"ban"}) /\ Status(g, p) = "active")]
    IN  /\ At(r, "group") /\ Is(r, Changes)
        /\ IF ~Live(g) THEN Answer(r, "refused")
           ELSE \E order \in Orders(RowLocks(rows)) : Goes(r, next(order))
        /\ UNCHANGED <<rowVars, peopleVars>>

\* What the locked row must be for the change to go on.
Misses(r, id) ==
    \/ member[id].status = "none"
    \/ Is(r, {"unban"}) /\ member[id].status # "banned"
    \/ Is(r, {"edit_if"}) /\ member[id].version # req[r].seen

\* lockMember, lockMemberVersion: the status and version of the locked row decide.
ChangeRow(r) ==
    LET rows == req[r].rows IN
    /\ At(r, "row") /\ Is(r, Changes)
    /\ IF \E id \in rows : Misses(r, id) THEN Answer(r, "refused")
       ELSE IF Is(r, {"leave", "kick"}) /\ \E id \in rows : member[id].status # "active"
       THEN Answer(r, "same")
       ELSE IF Is(r, Edits) THEN Goes(r, To(r, "commit", <<<<"share", Group(r)>>>>))
       ELSE \E order \in Orders(ShareLocks(Referred(r))) : Goes(r, To(r, "settle", order))
    /\ UNCHANGED <<rowVars, peopleVars>>

\* The audit and ban history entries, and afterMembershipChange.
Settle(r) ==
    /\ At(r, "settle") /\ Is(r, Changes)
    /\ IF \E p \in Referred(r) : Orphan(p) THEN Answer(r, "error")
       ELSE IF Taken(r) THEN Again(r, "group", GroupLock(Group(r)))
       ELSE Goes(r, [To(r, "commit", <<>>) EXCEPT
                        !.found = req[r].found /\ Empties(Group(r), req[r].rows)])
    /\ UNCHANGED <<rowVars, peopleVars>>

NewStatus == [leave |-> "left", kick |-> "kicked", ban |-> "banned", unban |-> "left"]

CommitChange(r) ==
    LET g == Group(r)
        Changed(row) == [row EXCEPT !.version = @ + 1, !.noted = @ \/ Is(r, Edits),
                            !.status = IF Is(r, Edits) THEN @ ELSE NewStatus[Op(r).kind]]
    IN  /\ At(r, "commit") /\ Is(r, Changes)
        /\ member' = [id \in RowIds |->
              IF id \in req[r].rows THEN Changed(member[id])
              ELSE IF id[1] = g /\ id[2] \in req[r].fresh
              THEN Row(id[2], "banned")
              ELSE member[id]]
        /\ group' = IF Is(r, Edits) THEN group
                    ELSE IF req[r].found
                    THEN [group EXCEPT ![g] = [status |-> "deleted", idle |-> FALSE]]
                    ELSE Touched(g)
        /\ marked' = IF Is(r, {"ban", "unban"}) THEN marked \cup {Person(r)} ELSE marked
        /\ Answer(r, "ok")
        /\ UNCHANGED <<invite, person, personOf>>

Change(r) == BeginChange(r) \/ ChangeGroup(r) \/ ChangeRow(r) \/ Settle(r) \/ CommitChange(r)


-----------------------------------------------------------------------------
(* The group itself: delete, hard delete, restore, and the idle sweeper    *)

GroupOps == {"delete", "erase", "restore", "sweep"}

\* The reads before the transaction, or, for the sweeper, its batch.
BeginGroup(r) ==
    LET g == Group(r)
        status == group[g].status
        first == CASE Is(r, {"erase"}) -> To(r, "group", <<<<"erase", g>>>>)
                   [] Is(r, {"restore"}) -> To(r, "list", <<>>)
                   [] OTHER -> To(r, "group", GroupLock(g))
        done == CASE Is(r, {"erase"}) -> {}
                  [] Is(r, {"restore"}) -> {"live"}
                  [] OTHER -> {"deleted"}
    IN  /\ At(r, "begin") /\ Is(r, GroupOps)
        /\ IF status \in {"none", "gone"} THEN Answer(r, "refused")
           ELSE IF status \in done \/ (Is(r, {"sweep"}) /\ ~group[g].idle) THEN Answer(r, "same")
           ELSE Goes(r, first)
        /\ UNCHANGED <<rowVars, peopleVars>>

\* A restore lists the members without the lock of the group.
RestoreList(r) ==
    LET g == Group(r)
        who == {p \in People : Status(g, p) = "active"}
    IN  /\ At(r, "list") /\ Is(r, {"restore"})
        /\ \E locks \in CountLocks({KindOf[g]}, who) :
              Goes(r, [To(r, "counts", locks) EXCEPT !.fresh = who])
        /\ UNCHANGED <<rowVars, peopleVars>>

RestoreCounts(r) ==
    /\ At(r, "counts") /\ Is(r, {"restore"})
    /\ IF PerUserBroken(Group(r), req[r].fresh) THEN Answer(r, "refused")
       ELSE Goes(r, To(r, "group", GroupLock(Group(r))))
    /\ UNCHANGED <<rowVars, peopleVars>>

\* What the cascade of a hard delete locks.
Cascade(g) ==
    RowLocks({id \in RowIds : id[1] = g /\ member[id].status # "none"})
      \cup {<<"invite", i>> : i \in {j \in Invites : InviteTo[j] = g}}

\* The sweeper reads the group again under its lock.  Mutant: only whether it is live.
OnlyLive(g) == Live(g)
StillIdle(g) == Live(g) /\ group[g].idle

\* The update of the group's row, once it is locked.
GroupLocked(r) ==
    LET g == Group(r) IN
    /\ At(r, "group") /\ Is(r, GroupOps)
    /\ IF Is(r, {"sweep"}) /\ ~StillIdle(g) THEN Answer(r, "same")
       ELSE IF group[g].status = "gone" THEN Answer(r, "error")
       ELSE IF Is(r, {"erase"})
       THEN \E order \in Orders(Cascade(g)) : Goes(r, To(r, "commit", order))
       ELSE Goes(r, To(r, "commit", <<>>))
    /\ UNCHANGED <<rowVars, peopleVars>>

\* A hard delete takes the rows and the invitations of the group with it.
CommitGroup(r) ==
    LET g == Group(r)
        status == CASE Is(r, {"restore"}) -> "live"
                    [] Is(r, {"erase"}) -> "gone"
                    [] OTHER -> "deleted"
    IN  /\ At(r, "commit") /\ Is(r, GroupOps)
        /\ group' = [group EXCEPT ![g] = [status |-> status, idle |-> FALSE]]
        /\ IF Is(r, {"erase"})
           THEN /\ member' = [id \in RowIds |->
                      IF id[1] = g THEN [member[id] EXCEPT !.status = "none"] ELSE member[id]]
                /\ invite' = [i \in Invites |-> IF InviteTo[i] = g THEN "deleted" ELSE invite[i]]
           ELSE UNCHANGED <<member, invite>>
        /\ Answer(r, "ok")
        /\ UNCHANGED peopleVars

GroupOp(r) ==
    BeginGroup(r) \/ RestoreList(r) \/ RestoreCounts(r) \/ GroupLocked(r) \/ CommitGroup(r)

-----------------------------------------------------------------------------
(* Invitations: decline and revoke                                         *)

InviteOps == {"decline", "revoke"}

\* A revoke does not ask whether the group is live, and leaves a used one alone.
BeginInvite(r) ==
    LET state == invite[Op(r).item] IN
    /\ At(r, "begin") /\ Is(r, InviteOps)
    /\ IF \/ state = "deleted"
          \/ Is(r, {"decline"}) /\ (state # "open" \/ ~Live(Group(r)))
       THEN Answer(r, "refused")
       ELSE IF state # "open" THEN Answer(r, "same")
       ELSE Goes(r, To(r, "invite", <<<<"invite", Op(r).item>>>>))
    /\ UNCHANGED <<rowVars, peopleVars>>

\* A decline is guarded by usedAt; the delete of a revoke is not.
WriteInvite(r) ==
    LET i == Op(r).item
        state == IF Is(r, {"revoke"}) THEN "deleted" ELSE "declined"
    IN  /\ At(r, "invite") /\ Is(r, InviteOps)
        /\ IF invite[i] = "deleted"
           THEN Answer(r, IF Is(r, {"revoke"}) THEN "error" ELSE "refused") /\ UNCHANGED invite
           ELSE IF Is(r, {"decline"}) /\ invite[i] # "open"
           THEN Answer(r, "refused") /\ UNCHANGED invite
           ELSE Answer(r, "ok") /\ invite' = [invite EXCEPT ![i] = state]
        /\ UNCHANGED <<group, member, peopleVars>>

InviteOp(r) == BeginInvite(r) \/ WriteInvite(r)

=============================================================================
