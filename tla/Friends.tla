-------------------------------- MODULE Friends --------------------------------
(***************************************************************************)
(* Friend requests, friendships and blocks between people                  *)
(* (routes/friends.ts), in one game.  A friendship is two rows that mirror *)
(* each other; a request is one row, which an accept promotes to a friend  *)
(* row.  Whether a row may be written is looked up before the transaction; *)
(* in it, only unique keys and guarded statements stand against others.    *)
(*                                                                         *)
(*   relation   the rows of UserRelationship: the request that created     *)
(*              each and which of its rows it is, who, whom, and the type  *)
(***************************************************************************)
EXTENDS Memberships

CONSTANTS MaxFriends, MaxPending

ASSUME FriendsAssumption == MaxFriends \in Nat /\ MaxPending \in Nat

VARIABLE relation

Relation(id, from, to, type) == [id |-> id, from |-> from, to |-> to, type |-> type]

Related(from, to, types) ==
    {row \in relation : row.from = from /\ row.to = to /\ row.type \in types}

\* Mutant: a friendship is ended from one side.
OneWay(x, y, types) == Related(x, y, types)
Between(x, y, types) == Related(x, y, types) \cup Related(y, x, types)

WithId(id) == {row \in relation : row.id = id}

Pending(id) == {row \in WithId(id) : row.type = "request"}

FullOfFriends(x) == Cardinality({row \in relation : row.from = x /\ row.type = "friend"}) >= MaxFriends

\* What an insert, an update and a delete of a row lock: the row and its unique
\* key.  A request and the friend row it becomes share one.
Bond(from, to) == <<"bond", <<from, to>>>>
Block(from, to) == <<"block", <<from, to>>>>

Bonds(rows) == {Bond(row.from, row.to) : row \in rows}

Shares(r) == <<<<"share", req[r].who[1]>>, <<"share", req[r].who[2]>>>>

Gone(r) == \E x \in Range(req[r].who) : Orphan(x)

-----------------------------------------------------------------------------
(* Sending: a request, or a friendship at once where none is required      *)

Sends == {"send", "befriend"}

SentType(r) == IF Is(r, {"send"}) THEN "request" ELSE "friend"

BeginSend(r) ==
    LET x == personOf[Op(r).users[1]]
        y == personOf[Op(r).users[2]]
    IN  /\ At(r, "begin") /\ Is(r, Sends)
        /\ IF \/ x = y \/ Between(x, y, {"blocked", "request"}) # {} \/ Related(x, y, {"friend"}) # {}
              \/ FullOfFriends(x) \/ (Is(r, {"befriend"}) /\ FullOfFriends(y))
              \/ Cardinality({row \in relation : row.from = x /\ row.type = "request"}) >= MaxPending
           THEN Answer(r, "refused")
           ELSE Goes(r, [To(r, "insert", <<Bond(x, y)>>) EXCEPT !.who = <<x, y>>])
        /\ UNCHANGED <<rowVars, peopleVars, relation>>

\* A row with the key has come since: isUniqueViolation.
SendRow(r) ==
    LET x == req[r].who[1]
        y == req[r].who[2]
    IN  /\ At(r, "insert") /\ Is(r, Sends)
        /\ IF Related(x, y, {SentType(r)}) # {} THEN Answer(r, "refused")
           ELSE Goes(r, IF Is(r, {"send"}) THEN To(r, "people", Shares(r))
                        ELSE To(r, "mirror", Append(Shares(r), Bond(y, x))))
        /\ UNCHANGED <<rowVars, peopleVars, relation>>

\* The mirror row of a befriend or an accept.
MirrorRow(r) ==
    LET x == req[r].who[1]
        y == req[r].who[2]
    IN  /\ At(r, "mirror") /\ Is(r, {"befriend", "accept_friend"})
        /\ IF Related(y, x, {"friend"}) # {} THEN Answer(r, "refused")
           ELSE Goes(r, To(r, "people", Shares(r)))
        /\ UNCHANGED <<rowVars, peopleVars, relation>>

\* The foreign keys of what was inserted.
RelatedPeople(r) ==
    /\ At(r, "people") /\ Is(r, Sends \cup {"accept_friend"})
    /\ IF Gone(r) THEN Answer(r, "error") ELSE Goes(r, To(r, "commit", <<>>))
    /\ UNCHANGED <<rowVars, peopleVars, relation>>

CommitSend(r) ==
    LET x == req[r].who[1]
        y == req[r].who[2]
        sent == Relation(<<r, 1>>, x, y, SentType(r))
        mirrored == Relation(<<r, 2>>, y, x, "friend")
    IN  /\ At(r, "commit") /\ Is(r, Sends)
        /\ relation' = relation \cup (IF Is(r, {"send"}) THEN {sent} ELSE {sent, mirrored})
        /\ Answer(r, "ok")
        /\ UNCHANGED <<rowVars, peopleVars>>

-----------------------------------------------------------------------------
(* Answering a request: accept, or withdraw (decline by one, cancel by the *)
(* other)                                                                  *)

Answerings == {"accept_friend", "withdraw"}

\* An accept reads the request before its transaction, a withdraw in it.
BeginAnswer(r) ==
    /\ At(r, "begin") /\ Is(r, Answerings)
    /\ IF Pending(Op(r).item) = {} THEN Answer(r, "refused")
       ELSE \E row \in Pending(Op(r).item) :
              IF Is(r, {"accept_friend"}) /\ (FullOfFriends(row.from) \/ FullOfFriends(row.to))
              THEN Answer(r, "refused")
              ELSE Goes(r, [To(r, "request", <<Bond(row.from, row.to)>>) EXCEPT
                                !.who = <<row.from, row.to>>])
    /\ UNCHANGED <<rowVars, peopleVars, relation>>

\* The guarded update, or delete.
AnswerRow(r) ==
    LET x == req[r].who[1]
        y == req[r].who[2]
    IN  /\ At(r, "request") /\ Is(r, Answerings)
        /\ IF Pending(Op(r).item) = {} \/ (Is(r, {"accept_friend"}) /\ Related(x, y, {"friend"}) # {})
           THEN Answer(r, "refused")
           ELSE Goes(r, IF Is(r, {"withdraw"}) THEN To(r, "commit", <<>>)
                        ELSE To(r, "mirror", <<Bond(y, x)>>))
        /\ UNCHANGED <<rowVars, peopleVars, relation>>

CommitAnswer(r) ==
    LET old == WithId(Op(r).item)
        friends == {[row EXCEPT !.type = "friend"] : row \in old}
        mirrored == Relation(<<r, 2>>, req[r].who[2], req[r].who[1], "friend")
    IN  /\ At(r, "commit") /\ Is(r, Answerings)
        /\ relation' = (relation \ old)
                         \cup (IF Is(r, {"withdraw"}) THEN {} ELSE friends \cup {mirrored})
        /\ Answer(r, "ok")
        /\ UNCHANGED <<rowVars, peopleVars>>

-----------------------------------------------------------------------------
(* Ending: unfriend, block, unblock                                        *)

Endings == {"unfriend", "block", "unblock"}

BeginEnding(r) ==
    LET x == personOf[Op(r).users[1]]
        y == personOf[Op(r).users[2]]
        first == CASE Is(r, {"unfriend"}) -> To(r, "delete", <<>>)
                   [] Is(r, {"block"}) -> To(r, "insert", <<Block(x, y)>>)
                   [] OTHER -> To(r, "unblock", <<Block(x, y)>>)
    IN  /\ At(r, "begin") /\ Is(r, Endings)
        /\ IF \/ x = y \/ (Is(r, {"unfriend"}) /\ Related(x, y, {"friend"}) = {})
              \/ (Is(r, {"unblock"}) /\ Related(x, y, {"blocked"}) = {})
           THEN Answer(r, "refused")
           ELSE IF Is(r, {"block"}) /\ Related(x, y, {"blocked"}) # {} THEN Answer(r, "same")
           ELSE Goes(r, [first EXCEPT !.who = <<x, y>>,
                                      !.rows = IF Is(r, {"unblock"}) THEN Related(x, y, {"blocked"}) ELSE {}])
        /\ UNCHANGED <<rowVars, peopleVars, relation>>

\* The insert of a block: a duplicate answers with the row that won, or fails,
\* since by the time of that lookup the row may be gone.
BlockRow(r) ==
    /\ At(r, "insert") /\ Is(r, {"block"})
    /\ IF Related(req[r].who[1], req[r].who[2], {"blocked"}) # {}
       THEN \E answer \in {"same", "error"} : Answer(r, answer)
       ELSE Goes(r, To(r, "delete", Shares(r)))
    /\ UNCHANGED <<rowVars, peopleVars, relation>>

\* The one delete statement sees the rows that are there when it begins.
DeleteBetween(r) ==
    LET rows == Between(req[r].who[1], req[r].who[2],
                        IF Is(r, {"block"}) THEN {"friend", "request"} ELSE {"friend"})
    IN  /\ At(r, "delete") /\ Is(r, {"unfriend", "block"})
        /\ IF Is(r, {"block"}) /\ Gone(r) THEN Answer(r, "error")
           ELSE \E order \in Orders(Bonds(rows)) :
                  Goes(r, [To(r, "deleted", order) EXCEPT !.rows = rows])
        /\ UNCHANGED <<rowVars, peopleVars, relation>>

\* What is still there of the rows, whatever its type is by now.
Remaining(r) == UNION {WithId(row.id) : row \in req[r].rows}

Deleted(r) ==
    /\ At(r, "deleted") /\ Is(r, {"unfriend", "block"})
    /\ IF Is(r, {"unfriend"}) /\ Remaining(r) = {} THEN Answer(r, "refused")
       ELSE Goes(r, To(r, "commit", <<>>))
    /\ UNCHANGED <<rowVars, peopleVars, relation>>

Unblock(r) ==
    /\ At(r, "unblock") /\ Is(r, {"unblock"})
    /\ IF Remaining(r) = {} THEN Answer(r, "refused") ELSE Goes(r, To(r, "commit", <<>>))
    /\ UNCHANGED <<rowVars, peopleVars, relation>>

CommitEnding(r) ==
    LET blocked == Relation(<<r, 1>>, req[r].who[1], req[r].who[2], "blocked") IN
    /\ At(r, "commit") /\ Is(r, Endings)
    /\ relation' = (relation \ Remaining(r)) \cup (IF Is(r, {"block"}) THEN {blocked} ELSE {})
    /\ Answer(r, "ok")
    /\ UNCHANGED <<rowVars, peopleVars>>

\* retryOnSerializationFailure: an unfriend that ends in a deadlock is run again.
UnfriendAgain(r) ==
    /\ Is(r, {"unfriend"}) /\ InCycle(r)
    /\ Again(r, "delete", <<>>)
    /\ UNCHANGED <<rowVars, peopleVars, relation>>

Friend(r) ==
    \/ BeginSend(r) \/ SendRow(r) \/ MirrorRow(r) \/ RelatedPeople(r) \/ CommitSend(r)
    \/ BeginAnswer(r) \/ AnswerRow(r) \/ CommitAnswer(r)
    \/ BeginEnding(r) \/ BlockRow(r) \/ DeleteBetween(r) \/ Deleted(r) \/ Unblock(r)
    \/ CommitEnding(r) \/ UnfriendAgain(r)

=============================================================================
