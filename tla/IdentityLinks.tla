---------------------------- MODULE IdentityLinks ----------------------------
(***************************************************************************)
(* Linking the external ids of one person (identityLink.ts and             *)
(* routes/identities.ts), beside Memberships and Friends.  A redeemed      *)
(* code merges the person of the id that asked for it with the person of   *)
(* the id that redeems it; an unlink moves an id to a new person.  Neither *)
(* takes the lock of a group.                                              *)
(*                                                                         *)
(*   code    of each link code, by its id and a number: not issued yet,    *)
(*           live, used or deleted                                         *)
(***************************************************************************)
EXTENDS Friends

CONSTANTS
    Codes,      \* bound: pairs of an id and a number
    Earlier     \* requests before the behaviour, whose relations are there

ASSUME IdentityLinksAssumption ==
    Codes \subseteq Users \X Nat /\ IsFiniteSet(Codes) /\ Earlier \cap Reqs = {}

VARIABLE code

vars == <<req, held, group, member, invite, person, personOf, marked, relation, code>>

LinkOps == {"issue", "redeem", "unlink"}

IdsOf(p) == {u \in Users : personOf[u] = p}

RowsAnywhere(p) == {id \in RowIds : member[id].person = p /\ member[id].status # "none"}

\* The ban rows of a person, in any group of the game.
Banned(p) == \E id \in RowsAnywhere(p) : member[id].status = "banned"

\* loadFootprint; a person whose row is gone holds nothing.
Holds(p) ==
    \/ p \in marked \/ Cardinality(IdsOf(p)) > 1 \/ Banned(p)
    \/ \E id \in RowsAnywhere(p) : member[id].status = "active" /\ member[id].noted
    \/ \E row \in relation : p \in {row.from, row.to}

Capped == {k \in Kinds : MaxPerUser[k] # NoLimit}

\* The kind's limit would not hold for the people as one: mergedPerUserOverflow.
Overflows(people) ==
    \E k \in Capped :
        Cardinality({g \in Groups : /\ Live(g) /\ KindOf[g] = k
                                    /\ \E p \in people : Status(g, p) = "active"}) > MaxPerUser[k]

\* A person nobody has used yet, for the row that an unlink creates.
NextPerson == CHOOSE p \in People : person[p] = "none"

-----------------------------------------------------------------------------
(* A link code                                                             *)

\* The codes of an id that have a row.
CodesOf(u) == {c \in Codes : c[1] = u /\ code[c] \in {"live", "used"}}

\* Mutant: an unlink or a new code does not wait for a redeem of the old one.
NoCodeLocks(codes) == {}
CodeLocks(codes) == {<<"code", c>> : c \in codes}

Without(codes) == [c \in Codes |-> IF c \in codes THEN "deleted" ELSE code[c]]

\* Bans refuse a code.  The statement that deletes the codes issued before does
\* not see one that is issued meanwhile.
BeginIssue(r) ==
    LET u == Op(r).users[1] IN
    /\ At(r, "begin") /\ Is(r, {"issue"})
    /\ IF Banned(personOf[u]) THEN Answer(r, "refused")
       ELSE \E order \in Orders(CodeLocks(CodesOf(u))) :
               Goes(r, [To(r, "code", order) EXCEPT !.rows = CodesOf(u)])
    /\ UNCHANGED <<rowVars, peopleVars, relation, code>>

CommitIssue(r) ==
    LET u == Op(r).users[1]
        next == CHOOSE c \in Codes : c[1] = u /\ code[c] = "none"
    IN  /\ At(r, "code") /\ Is(r, {"issue"})
        /\ \E c \in Codes : c[1] = u /\ code[c] = "none"    \* bound: Codes
        /\ code' = [Without(req[r].rows) EXCEPT ![next] = "live"]
        /\ Answer(r, "ok")
        /\ UNCHANGED <<rowVars, peopleVars, relation>>

\* The redeeming id is resolved before the transaction.
BeginRedeem(r) ==
    /\ At(r, "begin") /\ Is(r, {"redeem"})
    /\ IF code[Op(r).item] # "live" THEN Answer(r, "refused")
       ELSE Goes(r, [To(r, "issuer", <<>>) EXCEPT !.who = <<personOf[Op(r).users[1]]>>])
    /\ UNCHANGED <<rowVars, peopleVars, relation, code>>

\* The transaction reads the code and the person of the id that asked for it.
RedeemIssuer(r) ==
    LET u == Op(r).item[1] IN
    /\ At(r, "issuer") /\ Is(r, {"redeem"})
    /\ IF code[Op(r).item] # "live" THEN Answer(r, "refused")
       ELSE IF Op(r).users[1] = u THEN Answer(r, "refused")
       ELSE Goes(r, [To(r, "code", <<<<"code", Op(r).item>>>>) EXCEPT !.who = <<personOf[u]>> \o @])
    /\ UNCHANGED <<rowVars, peopleVars, relation, code>>

\* The guarded update of the code.
RedeemCode(r) ==
    LET people == Range(req[r].who) IN
    /\ At(r, "code") /\ Is(r, {"redeem"})
    /\ IF code[Op(r).item] # "live" THEN Answer(r, "refused")
       ELSE IF Cardinality(people) = 1 THEN Goes(r, To(r, "commit", <<>>))
       ELSE \E locks \in CountLocks(Capped, people) : Goes(r, To(r, "counts", locks))
    /\ UNCHANGED <<rowVars, peopleVars, relation, code>>

\* lockPeople.  Mutant: the people of a merge are not locked.
ErasesNone(people) == {<<>>}
Erase(people) == Sorted("erase", people, PersonRank)

\* planLink: the limits first, then both people.
RedeemCounts(r) ==
    LET people == Range(req[r].who) IN
    /\ At(r, "counts") /\ Is(r, {"redeem"})
    /\ \E locks \in Erase(people) :
          Goes(r, [To(r, "people", locks) EXCEPT !.found = Overflows(people)])
    /\ UNCHANGED <<rowVars, peopleVars, relation, code>>

\* The issuer survives unless only the redeemer holds something.
Survivor(r) == IF Holds(req[r].who[2]) THEN req[r].who[2] ELSE req[r].who[1]
Attached(r) == IF Holds(req[r].who[2]) THEN req[r].who[1] ELSE req[r].who[2]

\* The transaction stays as it is, with the two in the order survivor, attached.
RedeemPeople(r) ==
    LET people == Range(req[r].who)
        next(order) == [To(r, "commit", order) EXCEPT !.who = <<Survivor(r), Attached(r)>>,
                                                      !.rows = RowsAnywhere(Attached(r))]
    IN  /\ At(r, "people") /\ Is(r, {"redeem"})
        /\ IF (\E p \in people : Banned(p)) \/ (\A p \in people : Holds(p)) \/ req[r].found
           THEN Answer(r, "refused")
           ELSE IF \E p \in people : Orphan(p) THEN Answer(r, "error")
           ELSE \E order \in Orders(RowLocks(RowsAnywhere(Attached(r)))) : Goes(r, next(order))
        /\ UNCHANGED <<rowVars, peopleVars, relation, code>>

\* mergePeople: a row in a group that the survivor is in is dropped.
Merge(r) ==
    LET to == req[r].who[1]
        from == req[r].who[2]
        Moved(id) == IF RowsOf(id[1], to) # {} THEN [member[id] EXCEPT !.status = "none"]
                     ELSE [member[id] EXCEPT !.person = to, !.version = @ + 1]
    IN  /\ member' = [id \in RowIds |->
              IF id \in req[r].rows /\ member[id].status # "none" THEN Moved(id) ELSE member[id]]
        /\ personOf' = [u \in Users |-> IF personOf[u] = from THEN to ELSE personOf[u]]
        /\ person' = [person EXCEPT ![from] = "gone"]

CommitRedeem(r) ==
    /\ At(r, "commit") /\ Is(r, {"redeem"})
    /\ IF Cardinality(Range(req[r].who)) = 1 THEN UNCHANGED <<member, personOf, person>>
       ELSE Merge(r)
    /\ code' = [code EXCEPT ![Op(r).item] = "used"]
    /\ Answer(r, "ok")
    /\ UNCHANGED <<group, invite, marked, relation>>

-----------------------------------------------------------------------------
(* An unlink                                                               *)

BeginUnlink(r) ==
    LET p == personOf[Op(r).users[1]] IN
    /\ At(r, "begin") /\ Is(r, {"unlink"})
    /\ \E locks \in Erase({p}) : Goes(r, [To(r, "person", locks) EXCEPT !.who = <<p>>])
    /\ UNCHANGED <<rowVars, peopleVars, relation, code>>

\* The ids of the person are read under its lock; splitIdentity deletes the code.
UnlinkPerson(r) ==
    LET u == Op(r).users[1]
        p == Person(r)
    IN  /\ At(r, "person") /\ Is(r, {"unlink"})
        /\ IF personOf[u] # p \/ IdsOf(p) = {u} \/ Banned(p) THEN Answer(r, "refused")
           ELSE \E order \in Orders(CodeLocks(CodesOf(u))) :
                   Goes(r, [To(r, "commit", order) EXCEPT !.rows = CodesOf(u)])
        /\ UNCHANGED <<rowVars, peopleVars, relation, code>>

CommitUnlink(r) ==
    LET u == Op(r).users[1] IN
    /\ At(r, "commit") /\ Is(r, {"unlink"})
    /\ \E p \in People : person[p] = "none"    \* bound: People
    /\ personOf' = [personOf EXCEPT ![u] = NextPerson]
    /\ person' = [person EXCEPT ![NextPerson] = "here"]
    /\ code' = Without(req[r].rows)
    /\ Answer(r, "ok")
    /\ UNCHANGED <<rowVars, marked, relation>>

Link(r) ==
    \/ BeginIssue(r) \/ CommitIssue(r) \/ BeginRedeem(r) \/ RedeemIssuer(r)
    \/ RedeemCode(r) \/ RedeemCounts(r)
    \/ RedeemPeople(r) \/ CommitRedeem(r) \/ BeginUnlink(r) \/ UnlinkPerson(r) \/ CommitUnlink(r)

-----------------------------------------------------------------------------
(* The whole                                                               *)

Step(r) ==
    \/ (Take(r) \/ (Victim(r) /\ ~Is(r, {"unfriend"}))) /\ UNCHANGED <<rowVars, peopleVars, relation, code>>
    \/ (Entry(r) \/ Change(r) \/ GroupOp(r) \/ InviteOp(r)) /\ UNCHANGED <<relation, code>>
    \/ Friend(r) /\ UNCHANGED code
    \/ Link(r)

Next == (\E r \in Reqs : Step(r)) \/ (Finished /\ UNCHANGED vars)

-----------------------------------------------------------------------------
(* The initial states: any requests, and rows as transactions leave them   *)

Stages == {"begin", "group", "list", "rows", "counts", "invite", "row", "share", "settle",
           "issuer", "code", "people", "person", "insert", "mirror", "request", "delete", "deleted",
           "unblock", "commit", "done"}

RowTypes ==
    /\ group \in [Groups -> [status : {"none", "live", "deleted", "gone"}, idle : BOOLEAN]]
    /\ member \in [RowIds -> [person : People, status : {"none", "active", "left", "kicked", "banned"},
                             version : Nat, noted : BOOLEAN]]
    /\ invite \in [Invites -> {"open", "used", "declined", "deleted"}]
    /\ person \in [People -> {"none", "here", "gone"}]
    /\ personOf \in [Users -> People] /\ marked \subseteq People
    /\ relation \subseteq [id : (Reqs \cup Earlier) \X {1, 2}, from : People, to : People,
                           type : {"request", "friend", "blocked"}]
    /\ code \in [Codes -> {"none", "live", "used", "deleted"}]

\* A link loses nothing it did not look at: whatever interleaves with a merge,
\* each id and each row belongs to a person who is here, and no person comes to
\* two rows in one group.
LinksKeepRows ==
    /\ \A u \in Users : person[personOf[u]] = "here"
    /\ \A id \in RowIds : member[id].status # "none" => person[member[id].person] = "here"
    /\ \A row \in relation : person[row.from] = "here" /\ person[row.to] = "here"
    /\ \A g \in Groups, p \in People : Cardinality(RowsOf(g, p)) <= 1

\* Limits, unique keys and mirrors hold.  A row is of the person it was created
\* for unless that person was merged away.
Consistent ==
    /\ RowTypes /\ LinksKeepRows
    /\ \A g \in Groups :
          /\ MaxMembers[KindOf[g]] # NoLimit => Cardinality(Active(g)) <= MaxMembers[KindOf[g]]
          /\ group[g].status \in {"none", "gone"} => \A p \in People : RowsOf(g, p) = {}
    /\ ~\E p \in People : Overflows({p})
    /\ \A id \in RowIds : member[id].status # "none" =>
          member[id].version > 0 /\ (member[id].person # id[2] => person[id[2]] = "gone")
    /\ \A a, b \in relation :
          /\ a.id[1] \in Earlier
          /\ a.id = b.id \/ (a.from = b.from /\ a.to = b.to /\ a.type = b.type) => a = b
          /\ a.type = "friend" => Related(a.to, a.from, {"friend"}) # {}

\* What a request names.
Legal(op) ==
    LET Names(n, kinds) == op.kind \in kinds => Len(op.users) = n
    IN  /\ op = Operation(op.kind, op.group, op.users, op.item)
        /\ op.kind \in Entries \cup Changes \cup GroupOps \cup InviteOps
                      \cup Sends \cup Answerings \cup Endings \cup LinkOps
        /\ op.kind \in Entries \cup Changes \cup GroupOps \cup InviteOps => op.group \in Groups
        /\ op.users \in Seq(Users)
        /\ Names(1, (Entries \ {"import"}) \cup Changes \cup LinkOps) /\ Names(2, Sends \cup Endings)
        /\ op.kind \in {"accept"} \cup InviteOps => op.item \in Invites
        /\ op.kind = "redeem" => op.item \in Codes

\* A create makes a group of its own.
Init ==
    /\ req = [r \in Reqs |-> Fresh(Op(r))] /\ held = [r \in Reqs |-> {}]
    /\ \A r \in Reqs : Legal(Op(r))
    /\ \A q, r \in Reqs : Is(q, {"create"}) /\ Is(r, {"create"}) /\ Group(q) = Group(r) => q = r
    /\ Consistent

Spec == Init /\ [][Next]_vars

-----------------------------------------------------------------------------
(* Properties                                                              *)

Commits(r, kinds) == Is(r, kinds) /\ At(r, "commit") /\ req'[r].answer = "ok"

Done(kinds) == \E r \in Reqs : Is(r, kinds) /\ Answered(r, "ok")

\* The types of the state.
TypeOK ==
    /\ \A r \in Reqs : /\ req[r].at \in Stages /\ req[r].answer \in Answers \cup {"none"}
                        /\ Range(req[r].who) \subseteq People /\ req[r].fresh \subseteq People
                        /\ req[r].at = "done" <=> req[r].answer # "none"
    /\ RowTypes

\* No live group has more active members than its kind allows.
WithinMaxMembers ==
    \A g \in Groups : Live(g) /\ MaxMembers[KindOf[g]] # NoLimit
        => Cardinality(Active(g)) <= MaxMembers[KindOf[g]]

\* Nobody is active in more live groups of a kind than it allows, however joins,
\* creates, accepts, imports, restores and links interleave.  A link gets past the
\* limit with an add, an import or a restore that counts for the person who is
\* merged away, and a restore by a member who joined after it listed the members,
\* while another restore of the group had brought it back.
WithinMaxPerUser ==
    \/ Done({"redeem"}) /\ Done({"add", "import", "restore"})
    \/ \E q, r \in Reqs : /\ q # r /\ Group(q) = Group(r)
                           /\ \A x \in {q, r} : Is(x, {"restore"}) /\ Answered(x, "ok")
    \/ ~\E p \in People : Overflows({p})

\* A ban ends by an unban or with its group, and no link moves or drops it.  A
\* join, add or accept that had looked for bans before it was set overwrites it.
BansStand ==
    [][\A id \in RowIds : member[id].status = "banned" =>
          \/ member'[id].status = "banned" /\ member'[id].person = member[id].person
          \/ \E r \in Reqs : \/ Commits(r, {"unban", "erase"})
                             \/ Commits(r, {"join", "add", "accept"})
                                /\ req[r].seen # member[id].version]_vars

\* What is offered is answered once: an invitation, a friend request, a link code.
OfferedOnce ==
    \A q, r \in Reqs :
        /\ Answered(q, "ok") /\ Answered(r, "ok") /\ Op(q).item = Op(r).item
        /\ \E kinds \in {{"accept", "decline"}, Answerings, {"redeem"}} : Is(q, kinds) /\ Is(r, kinds)
        => q = r

\* Friendships are mutual, however sends, accepts, unfriends and blocks cross;
\* but a block that waited for an accept deletes the one row it had seen.
FriendsMutual ==
    \/ Done({"block"}) /\ Done({"accept_friend"})
    \/ \A row \in relation : row.type = "friend" => Related(row.to, row.from, {"friend"}) # {}

\* When the last active member of a group goes and its kind deletes empty
\* groups, the group goes in the same step.  Only links leave one behind.
EmptyGroupsGo ==
    [][\A g \in Groups :
          Live(g) /\ Live(g)' /\ DeleteWhenEmpty[KindOf[g]] /\ Active(g) # {} /\ ~Done({"redeem"})
             /\ ~(\E r \in Reqs : Commits(r, {"redeem"})) => Active(g)' # {}]_vars

\* A group whose members changed since the sweeper listed it is kept.
OnlyIdleSwept ==
    [][\A r \in Reqs : Commits(r, {"sweep"}) => Live(Group(r)) /\ group[Group(r)].idle]_vars

\* A conditional edit is written over the version its request named.
ConditionalEdits ==
    [][\A r \in Reqs : Commits(r, {"edit_if"}) =>
          \A id \in req[r].rows : /\ member[id].status # "none"
                                  /\ member[id].version = req[r].seen]_vars

\* A redeemed code leaves its two ids with one person, unless the redeeming id
\* was unlinked after it was resolved, or the other id by an unlink that had read
\* the codes to delete before this one was issued.
LinkJoins ==
    [][\A r \in Reqs : Commits(r, {"redeem"}) =>
          \/ personOf'[Op(r).users[1]] = personOf'[Op(r).item[1]]
          \/ \E q \in Reqs : /\ Is(q, {"unlink"}) /\ Answered(q, "ok")
                             /\ \/ Op(q).users = Op(r).users
                                \/ Op(q).users[1] = Op(r).item[1] /\ Op(r).item \notin req[q].rows]_vars

\* Requests take their locks in one order and wait for each other in a cycle only
\* where they do not: a link or a hard delete, whose cascades lock rows before
\* others' groups, a restore, which counts before it locks its group, the codes
\* that an issue deletes, and the two rows of a friendship.
OrderedLocks ==
    \A S \in SUBSET Reqs : S # {} /\ Cycle(S) =>
        \/ \E r \in S : Is(r, {"redeem", "erase", "restore", "issue"})
        \/ \A r \in S : Is(r, {"befriend", "accept_friend", "unfriend", "block"})

=============================================================================
