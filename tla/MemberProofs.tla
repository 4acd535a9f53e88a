---------------------------- MODULE MemberProofs ----------------------------
(***************************************************************************)
(* Members, friends and links, for any requests and any consistent rows:   *)
(* the locks each request holds at each stage of its handler, and those it *)
(* waits for.                                                              *)
(***************************************************************************)
EXTENDS IdentityLinks, FiniteSetTheorems, SequenceTheorems, TLAPS

Things == Groups \cup People \cup (Kinds \X People) \cup RowIds \cup Invites \cup Codes
            \cup (People \X People)
LockKinds == {"group", "row", "count", "invite", "share", "erase", "bond", "block", "code"}
Lock == LockKinds \X Things

Relations == [id : (Reqs \cup Earlier) \X {1, 2}, from : People, to : People,
              type : {"request", "friend", "blocked"}]

Record(r) ==
    [op : {Op(r)}, at : Stages, todo : Seq(Lock), who : Seq(People),
     rows : SUBSET (RowIds \cup Codes \cup Relations), fresh : SUBSET People, seen : Nat,
     found : BOOLEAN, again : BOOLEAN, answer : Answers \cup {"none"}]

Typed(r) ==
    /\ req[r] \in Record(r) /\ Legal(Op(r))
    /\ req[r].at = "done" <=> req[r].answer # "none"

Shaped == req = [r \in Reqs |-> req[r]] /\ held \in [Reqs -> SUBSET Lock]

Locks(r) == held[r] \cup Wanted(r)

Turn(r) ==
    /\ \A q \in Reqs \ {r} : req'[q] = req[q] /\ held'[q] = held[q]
    /\ held'[r] \subseteq Locks(r)
    /\ \A l \in held'[r] \ held[r] : Blockers(r, l) = {}

LEMMA GoesTurn ==
    ASSUME Shaped, NEW r \in Reqs, Typed(r), NEW stage, At(r, stage), stage # "done",
           NEW next \in Record(r), next.at # "done", next.answer = "none", Goes(r, next)
    PROVE  /\ Shaped' /\ Typed(r)' /\ Turn(r)
           /\ req'[r] = next /\ held'[r] = Locks(r)
<1>1. Wanted(r) \subseteq Lock
  <2>1. req[r].todo \in Seq(Lock)
    BY DEF Typed, Record
  <2>. QED
    BY <2>1, ElementOfSeq DEF Wanted
<1>2. req'[r] = next /\ held'[r] = Locks(r) /\ \A q \in Reqs \ {r} : req'[q] = req[q] /\ held'[q] = held[q]
  BY DEF Goes, Shaped, Locks
<1>3. Shaped'
  BY <1>1 DEF Goes, Shaped
<1>4. Turn(r)
  BY <1>2 DEF Turn, At, Locks
<1>5. Typed(r)'
  <2>1. next.op = Op(r)
    BY DEF Record
  <2>2. Op(r)' = Op(r)
    BY <2>1, <1>2 DEF Op
  <2>. QED
    BY <2>2, <1>2 DEF Typed, Record
<1>. QED
  BY <1>2, <1>3, <1>4, <1>5

LEMMA ToRecord ==
    ASSUME NEW r \in Reqs, Typed(r), NEW stage \in Stages, stage # "done", NEW locks \in Seq(Lock), req[r].at # "done"
    PROVE  /\ To(r, stage, locks) \in Record(r)
           /\ To(r, stage, locks).at = stage
           /\ To(r, stage, locks).todo = locks
           /\ To(r, stage, locks).answer = "none"
           /\ To(r, stage, locks).who = req[r].who
           /\ To(r, stage, locks).fresh = req[r].fresh
           /\ To(r, stage, locks).rows = req[r].rows
           /\ To(r, stage, locks).seen = req[r].seen
           /\ To(r, stage, locks).found = req[r].found
           /\ To(r, stage, locks).again = req[r].again
           /\ To(r, stage, locks).op = Op(r)
  BY DEF To, Typed, Record, Op

LEMMA AnswerTurn ==
    ASSUME Shaped, NEW r \in Reqs, Typed(r), NEW answer \in Answers, req[r].at # "done", Answer(r, answer)
    PROVE  /\ Shaped' /\ Typed(r)' /\ Turn(r)
           /\ req'[r].at = "done" /\ req'[r].answer = answer /\ req'[r].todo = <<>> /\ Op(r)' = Op(r)
           /\ req'[r].rows = req[r].rows /\ req'[r].who = req[r].who
           /\ req'[r].fresh = req[r].fresh /\ req'[r].seen = req[r].seen
           /\ held'[r] = {}
<1>. DEFINE next == [To(r, "done", <<>>) EXCEPT !.answer = answer]
<1>1. /\ next \in Record(r) /\ next.at = "done" /\ next.answer = answer /\ next.op = Op(r) /\ next.todo = <<>>
      /\ next.rows = req[r].rows /\ next.who = req[r].who /\ next.fresh = req[r].fresh
      /\ next.seen = req[r].seen
  <2>1. <<>> \in Seq(Lock)
    BY EmptySeq
  <2>. QED
    BY <2>1 DEF To, Typed, Record, Op, Stages
<1>2. req'[r] = next /\ held'[r] = {} /\ \A q \in Reqs \ {r} : req'[q] = req[q] /\ held'[q] = held[q]
  BY DEF Answer, Shaped
<1>3. Shaped'
  BY DEF Answer, Shaped
<1>4. answer # "none"
  BY DEF Answers
<1>5. Op(r)' = Op(r)
  BY <1>1, <1>2 DEF Op
<1>. QED
  BY <1>1, <1>2, <1>3, <1>4, <1>5 DEF Turn, Typed, Record

LEMMA AgainTurn ==
    ASSUME Shaped, NEW r \in Reqs, Typed(r), NEW stage \in Stages, stage # "done",
           NEW locks \in Seq(Lock), req[r].at # "done", Again(r, stage, locks)
    PROVE  /\ Shaped' /\ Typed(r)' /\ Turn(r)
           /\ held'[r] = {} /\ Op(r)' = Op(r)
           /\ \/ req'[r].at = "done" /\ req'[r].answer = "error" /\ req'[r].todo = <<>>
              \/ req'[r].at = stage /\ req'[r].todo = locks
           /\ req'[r].rows = req[r].rows /\ req'[r].who = req[r].who
           /\ req'[r].fresh = req[r].fresh /\ req'[r].seen = req[r].seen
<1>1. CASE req[r].again
  <2>1. Answer(r, "error") /\ "error" \in Answers
    BY <1>1 DEF Again, Answers
  <2>. QED
    BY <2>1, AnswerTurn
<1>2. CASE ~req[r].again
  <2>. DEFINE next == [To(r, stage, locks) EXCEPT !.again = TRUE]
  <2>1. /\ next \in Record(r) /\ next.at = stage /\ next.todo = locks /\ next.answer = "none"
        /\ next.rows = req[r].rows /\ next.who = req[r].who /\ next.fresh = req[r].fresh
        /\ next.op = Op(r) /\ next.seen = req[r].seen
    BY DEF To, Typed, Record, Op
  <2>2. req'[r] = next /\ held'[r] = {} /\ \A q \in Reqs \ {r} : req'[q] = req[q] /\ held'[q] = held[q]
    BY <1>2 DEF Again, Shaped
  <2>3. Shaped'
    BY <1>2 DEF Again, Shaped
  <2>4. Op(r)' = Op(r)
    BY <2>1, <2>2 DEF Op
  <2>. QED
    BY <2>1, <2>2, <2>3, <2>4 DEF Turn, Typed, Record
<1>. QED
  BY <1>1, <1>2

LEMMA TakeTurn ==
    ASSUME Shaped, NEW r \in Reqs, Typed(r), Take(r), req[r].at # "done"
    PROVE  /\ Shaped' /\ Typed(r)' /\ Turn(r)
           /\ req'[r] = [req[r] EXCEPT !.todo = Tail(req[r].todo)]
           /\ Locks(r)' = Locks(r) /\ held[r] \subseteq held'[r] /\ Op(r)' = Op(r)
<1>. DEFINE todo == req[r].todo
<1>1. /\ todo \in Seq(Lock) /\ Len(todo) \in Nat /\ todo # <<>>
  BY DEF Typed, Record, Take
<1>2. /\ Tail(todo) \in Seq(Lock) /\ Len(Tail(todo)) = Len(todo) - 1
      /\ \A i \in 1 .. Len(Tail(todo)) : Tail(todo)[i] = todo[i + 1]
      /\ Head(todo) = todo[1] /\ Head(todo) \in Lock
  BY <1>1, HeadTailProperties
<1>3. /\ req'[r] = [req[r] EXCEPT !.todo = Tail(todo)]
      /\ held'[r] = held[r] \cup {Head(todo)}
      /\ \A q \in Reqs \ {r} : req'[q] = req[q] /\ held'[q] = held[q]
  BY DEF Take, Shaped
<1>4. Shaped'
  BY <1>2 DEF Take, Shaped
<1>5. Op(r)' = Op(r) /\ Typed(r)'
  <2>1. Op(r)' = Op(r)
    BY <1>3 DEF Op, Typed, Record
  <2>2. req'[r] \in Record(r) /\ req'[r].at = req[r].at /\ req'[r].answer = req[r].answer
    BY <1>2, <1>3 DEF Typed, Record
  <2>. QED
    BY <2>1, <2>2 DEF Typed, Record
<1>6. req'[r].todo = Tail(todo)
  BY <1>3 DEF Typed, Record
<1>7. Wanted(r) = {Head(todo)} \cup Wanted(r)'
  <2>1. ASSUME NEW i \in 1 .. Len(todo)
        PROVE  todo[i] \in {Head(todo)} \cup Wanted(r)'
    <3>1. CASE i = 1
      BY <3>1, <1>2
    <3>2. CASE i # 1
      <4>1. i - 1 \in 1 .. Len(Tail(todo)) /\ todo[i] = Tail(todo)[i - 1]
        BY <3>2, <1>1, <1>2
      <4>. QED
        BY <4>1, <1>6 DEF Wanted
    <3>. QED
      BY <3>1, <3>2
  <2>2. ASSUME NEW i \in 1 .. Len(Tail(todo))
        PROVE  Tail(todo)[i] \in Wanted(r)
    <3>1. i + 1 \in 1 .. Len(todo)
      BY <1>1, <1>2
    <3>. QED
      BY <3>1, <1>2 DEF Wanted
  <2>3. Head(todo) \in Wanted(r)
    <3>1. 1 \in 1 .. Len(todo)
      BY <1>1, LenProperties, EmptySeq
    <3>. QED
      BY <3>1, <1>2 DEF Wanted
  <2>. QED
    BY <2>1, <2>2, <2>3, <1>6 DEF Wanted
<1>8. Locks(r)' = Locks(r) /\ held[r] \subseteq held'[r]
  BY <1>3, <1>7 DEF Locks
<1>9. Turn(r)
  BY <1>3, <1>7 DEF Turn, Locks, Take
<1>. QED
  BY <1>3, <1>4, <1>5, <1>8, <1>9

\* What an order of locks is.
LEMMA OrderWants ==
    ASSUME NEW S, S \subseteq Lock, IsFiniteSet(S), NEW s \in Orders(S)
    PROVE  s \in Seq(Lock) /\ {s[i] : i \in 1 .. Len(s)} = S
<1>1. Cardinality(S) \in Nat
  BY FS_CardinalityType
<1>2. s \in [1 .. Cardinality(S) -> S] /\ \A l \in S : \E i \in DOMAIN s : s[i] = l
  BY DEF Orders
<1>3. s \in Seq(S) /\ Len(s) = Cardinality(S)
  BY <1>1, <1>2, IsASeq, LenProperties
<1>4. s \in Seq(Lock)
  BY <1>3, SeqMonotonic
<1>. QED
  BY <1>1, <1>2, <1>3, <1>4

-----------------------------------------------------------------------------
(* The locks of each stage                                                 *)

Stage(r) == req[r].at
Members(r) == Range(req[r].who)
CountKeys(kinds, people) == {"count"} \X ({k \in kinds : MaxPerUser[k] # NoLimit} \X people)
Erases(people) == {"erase"} \X people
InGroup(g) == {id \in RowIds : id[1] = g}

\* Stages of an entry at which it has its group, and has found room.
Inside == {"rows", "counts", "invite", "row", "share", "commit"}
Roomy == {"invite", "row", "share", "commit"}

EntryStaged(r) ==
    LET g == Group(r) IN
    Is(r, Entries) =>
    /\ Stage(r) \in {"begin", "group", "done"} \cup Inside
    /\ Stage(r) = "rows" => Is(r, {"import"})
    /\ Stage(r) = "invite" => Is(r, {"accept"})
    /\ Stage(r) = "group" => ~Is(r, {"create"}) /\ <<"group", g>> \in Locks(r)
    /\ Stage(r) \in Inside /\ ~Is(r, {"create"}) => <<"group", g>> \in held[r]
    /\ Stage(r) \notin {"begin", "done"} /\ ~Is(r, {"import"}) => Len(req[r].who) = 1
    /\ Stage(r) \in Roomy \cup {"counts"} =>
          /\ req[r].rows \subseteq InGroup(g) /\ req[r].fresh \subseteq Members(r)
          /\ Is(r, {"create"}) => req[r].rows = {}
    /\ Stage(r) = "counts" => CountKeys({KindOf[g]}, Members(r)) \subseteq Locks(r)
    /\ Stage(r) \in Roomy => CountKeys({KindOf[g]}, Members(r)) \subseteq held[r]
    /\ Stage(r) = "invite" => <<"invite", Op(r).item>> \in Locks(r)
    /\ Stage(r) \in {"row", "share", "commit"} /\ Is(r, {"accept"}) => <<"invite", Op(r).item>> \in held[r]
    /\ Stage(r) = "row" => RowLocks(req[r].rows) \subseteq Locks(r)
    /\ Stage(r) \in {"share", "commit"} => RowLocks(req[r].rows) \subseteq held[r]
    /\ Stage(r) = "share" => ShareLocks(Referred(r)) \subseteq Locks(r)
    /\ Stage(r) = "commit" => ShareLocks(Referred(r)) \subseteq held[r]

ChangeStaged(r) ==
    LET g == Group(r) IN
    Is(r, Changes) =>
    /\ Stage(r) \in {"begin", "group", "row", "settle", "commit", "done"}
    /\ Stage(r) \in {"group", "settle"} => ~Is(r, Edits)
    /\ Stage(r) \notin {"begin", "done"} =>
          /\ Len(req[r].who) = 1 /\ req[r].rows \subseteq InGroup(g)
          /\ ~Is(r, {"ban"}) => req[r].rows # {}
    /\ Stage(r) \in {"row", "settle", "commit"} =>
          /\ req[r].fresh \subseteq {Person(r)}
          /\ req[r].fresh # {} => req[r].rows = {} /\ Is(r, {"ban"})
    /\ Is(r, Edits) /\ Stage(r) = "row" => <<"row", CHOOSE id \in req[r].rows : TRUE>> \in Locks(r)
    /\ Is(r, Edits) /\ Stage(r) = "commit" => <<"row", CHOOSE id \in req[r].rows : TRUE>> \in held[r]
    /\ ~Is(r, Edits) =>
          /\ Stage(r) = "group" => <<"group", g>> \in Locks(r)
          /\ Stage(r) \in {"row", "settle", "commit"} => <<"group", g>> \in held[r]
          /\ Stage(r) = "row" => RowLocks(req[r].rows) \subseteq Locks(r)
          /\ Stage(r) \in {"settle", "commit"} => RowLocks(req[r].rows) \subseteq held[r]
          /\ Stage(r) = "settle" => ShareLocks(Referred(r)) \subseteq Locks(r)
          /\ Stage(r) = "commit" => ShareLocks(Referred(r)) \subseteq held[r]

GroupStaged(r) ==
    LET g == Group(r) IN
    Is(r, GroupOps) =>
    /\ Stage(r) \in {"begin", "list", "counts", "group", "commit", "done"}
    /\ Stage(r) \in {"list", "counts"} => Is(r, {"restore"})
    /\ Is(r, {"erase"}) =>
          /\ Stage(r) = "group" => <<"erase", g>> \in Locks(r)
          /\ Stage(r) = "commit" => <<"erase", g>> \in held[r]
    /\ ~Is(r, {"erase"}) =>
          /\ Stage(r) = "group" => <<"group", g>> \in Locks(r)
          /\ Stage(r) = "commit" => <<"group", g>> \in held[r]
    /\ Is(r, {"restore"}) =>
          /\ Stage(r) = "counts" => CountKeys({KindOf[g]}, req[r].fresh) \subseteq Locks(r)
          /\ Stage(r) \in {"group", "commit"} => CountKeys({KindOf[g]}, req[r].fresh) \subseteq held[r]

InviteStaged(r) ==
    Is(r, InviteOps) =>
    /\ Stage(r) \in {"begin", "invite", "done"}
    /\ Stage(r) = "invite" => <<"invite", Op(r).item>> \in Locks(r)

FriendStaged(r) ==
    LET x == req[r].who[1]
        y == req[r].who[2]
        Pair == {<<"share", x>>, <<"share", y>>}
    IN
    Is(r, Sends \cup Answerings \cup Endings) =>
    /\ Stage(r) \in {"begin", "insert", "mirror", "people", "request", "delete", "deleted", "unblock",
                     "commit", "done"}
    /\ Stage(r) \notin {"begin", "done"} => Len(req[r].who) = 2
    /\ Is(r, Sends) =>
          /\ Stage(r) \in {"begin", "insert", "mirror", "people", "commit", "done"}
          /\ Stage(r) = "mirror" => Is(r, {"befriend"})
          /\ Stage(r) = "insert" => Bond(x, y) \in Locks(r)
          /\ Stage(r) \in {"mirror", "people", "commit"} => Bond(x, y) \in held[r]
    /\ Is(r, Answerings) =>
          /\ Stage(r) \in {"begin", "request", "mirror", "people", "commit", "done"}
          /\ Stage(r) \in {"mirror", "people"} => Is(r, {"accept_friend"})
          /\ Stage(r) = "request" => Bond(x, y) \in Locks(r)
          /\ Stage(r) \in {"mirror", "people", "commit"} => Bond(x, y) \in held[r]
    /\ Is(r, {"befriend", "accept_friend"}) =>
          /\ Stage(r) = "mirror" => Bond(y, x) \in Locks(r)
          /\ Stage(r) \in {"people", "commit"} => Bond(y, x) \in held[r]
    /\ Is(r, Sends \cup {"accept_friend"}) =>
          /\ Stage(r) = "people" => Pair \subseteq Locks(r)
          /\ Stage(r) = "commit" => Pair \subseteq held[r]
    /\ Is(r, Endings) =>
          /\ Stage(r) \in {"begin", "insert", "delete", "deleted", "unblock", "commit", "done"}
          /\ Stage(r) = "insert" => Is(r, {"block"})
          /\ Stage(r) = "unblock" => Is(r, {"unblock"})
          /\ Stage(r) \in {"delete", "deleted"} => ~Is(r, {"unblock"})
          /\ Stage(r) \in {"deleted", "unblock", "commit"} => req[r].rows \subseteq Relations
    /\ Is(r, {"block"}) =>
          /\ Stage(r) = "insert" => Block(x, y) \in Locks(r)
          /\ Stage(r) \in {"delete", "deleted", "commit"} => Block(x, y) \in held[r]
          /\ Stage(r) = "delete" => Pair \subseteq Locks(r)
          /\ Stage(r) \in {"deleted", "commit"} => Pair \subseteq held[r]
    /\ Is(r, {"unfriend", "block"}) =>
          /\ Stage(r) = "deleted" => Bonds(req[r].rows) \subseteq Locks(r)
          /\ Stage(r) = "commit" => Bonds(req[r].rows) \subseteq held[r]
    /\ Is(r, {"unblock"}) =>
          /\ Stage(r) = "unblock" => Block(x, y) \in Locks(r)
          /\ Stage(r) = "commit" => Block(x, y) \in held[r]

LinkStaged(r) ==
    Is(r, LinkOps) =>
    /\ Stage(r) \in {"begin", "code", "issuer", "counts", "people", "person", "commit", "done"}
    /\ Is(r, {"issue"}) =>
          /\ Stage(r) \in {"begin", "code", "done"}
          /\ Stage(r) = "code" => req[r].rows \subseteq Codes /\ CodeLocks(req[r].rows) \subseteq Locks(r)
    /\ Is(r, {"redeem"}) =>
          /\ Stage(r) \in {"begin", "issuer", "code", "counts", "people", "commit", "done"}
          /\ Stage(r) = "issuer" => Len(req[r].who) = 1
          /\ Stage(r) \in {"code", "counts", "people", "commit"} => Len(req[r].who) = 2
          /\ Stage(r) \in {"counts", "people"} => req[r].who[1] # req[r].who[2]
          /\ Stage(r) = "code" => <<"code", Op(r).item>> \in Locks(r)
          /\ Stage(r) \in {"counts", "people", "commit"} => <<"code", Op(r).item>> \in held[r]
          /\ Stage(r) = "counts" => CountKeys(Capped, Members(r)) \subseteq Locks(r)
          /\ Stage(r) = "people" => /\ CountKeys(Capped, Members(r)) \subseteq held[r]
                                    /\ Erases(Members(r)) \subseteq Locks(r)
          /\ Stage(r) = "commit" /\ req[r].who[1] # req[r].who[2] =>
                /\ CountKeys(Capped, Members(r)) \cup Erases(Members(r)) \subseteq held[r]
                /\ req[r].rows \subseteq RowIds /\ RowLocks(req[r].rows) \subseteq Locks(r)
    /\ Is(r, {"unlink"}) =>
          /\ Stage(r) \in {"begin", "person", "commit", "done"}
          /\ Stage(r) \in {"person", "commit"} => Len(req[r].who) = 1
          /\ Stage(r) = "person" => <<"erase", Person(r)>> \in Locks(r)
          /\ Stage(r) = "commit" => /\ <<"erase", Person(r)>> \in held[r] /\ req[r].rows \subseteq Codes
                                    /\ CodeLocks(req[r].rows) \subseteq Locks(r)

\* What holds before a request begins and after its answer.
Unbegun(r) ==
    /\ Stage(r) \in {"begin", "done"} => held[r] = {} /\ req[r].todo = <<>>
    /\ Stage(r) = "begin" => req[r].rows = {} /\ req[r].fresh = {}

Staged(r) ==
    /\ Unbegun(r) /\ EntryStaged(r) /\ ChangeStaged(r) /\ GroupStaged(r) /\ InviteStaged(r)
    /\ FriendStaged(r) /\ LinkStaged(r)

Exclusive ==
    \A q, r \in Reqs : q # r => \A l \in held[q], m \in held[r] : ~Conflict(l, m)

Base == Shaped /\ Exclusive /\ RowTypes /\ \A r \in Reqs : Typed(r) /\ Staged(r)

-----------------------------------------------------------------------------
(* Sequences of locks                                                      *)

Elements(s) == {s[i] : i \in 1 .. Len(s)}

LEMMA ElementsOf ==
    ASSUME NEW a, NEW b, NEW c
    PROVE  /\ Elements(<<>>) = {} /\ Elements(<<a>>) = {a} /\ Elements(<<a, b>>) = {a, b}
           /\ Elements(<<a, b, c>>) = {a, b, c}
           /\ a \in Lock => <<a>> \in Seq(Lock)
           /\ a \in Lock /\ b \in Lock => <<a, b>> \in Seq(Lock)
           /\ a \in Lock /\ b \in Lock /\ c \in Lock => <<a, b, c>> \in Seq(Lock)
<1>1. Elements(<<>>) = {} /\ Elements(<<a>>) = {a}
  BY DEF Elements
<1>2. Elements(<<a, b>>) = {a, b}
  BY DEF Elements
<1>3. Elements(<<a, b, c>>) = {a, b, c}
  <2>1. 1 .. Len(<<a, b, c>>) = {1, 2, 3}
    OBVIOUS
  <2>. QED
    BY <2>1 DEF Elements
<1>. QED
  BY <1>1, <1>2, <1>3

LEMMA NoLocks == <<>> \in Seq(Lock) /\ Elements(<<>>) = {}
  BY EmptySeq DEF Elements

LEMMA FiniteRows == IsFiniteSet(RowIds) /\ IsFiniteSet(Kinds)
<1>1. IsFiniteSet(RowIds)
  BY FS_Product, MembershipsAssumption DEF RowIds
<1>2. [g \in Groups |-> KindOf[g]] \in Surjection(Groups, Kinds)
  BY DEF Surjection, Kinds
<1>. QED
  BY <1>1, <1>2, FS_Surjection, MembershipsAssumption

LEMMA RowOrder ==
    ASSUME NEW rows, rows \subseteq RowIds, NEW s \in Orders(RowLocks(rows))
    PROVE  s \in Seq(Lock) /\ Elements(s) = RowLocks(rows)
<1>1. RowLocks(rows) = {"row"} \X rows
  BY DEF RowLocks
<1>2. IsFiniteSet(RowLocks(rows))
  BY <1>1, FiniteRows, FS_Subset, FS_Singleton, FS_Product
<1>3. RowLocks(rows) \subseteq Lock
  BY <1>1 DEF Lock, LockKinds, Things
<1>. QED
  BY <1>2, <1>3, OrderWants DEF Elements

LEMMA ShareOrder ==
    ASSUME NEW people, people \subseteq People, NEW s \in Orders(ShareLocks(people))
    PROVE  s \in Seq(Lock) /\ Elements(s) = ShareLocks(people)
<1>1. ShareLocks(people) = {"share"} \X people
  BY DEF ShareLocks
<1>2. IsFiniteSet(ShareLocks(people))
  BY <1>1, MembershipsAssumption, FS_Subset, FS_Singleton, FS_Product
<1>3. ShareLocks(people) \subseteq Lock
  BY <1>1 DEF Lock, LockKinds, Things
<1>. QED
  BY <1>2, <1>3, OrderWants DEF Elements

LEMMA CodeOrder ==
    ASSUME NEW codes, codes \subseteq Codes, NEW s \in Orders(CodeLocks(codes))
    PROVE  s \in Seq(Lock) /\ Elements(s) = CodeLocks(codes)
<1>1. CodeLocks(codes) = {"code"} \X codes
  BY DEF CodeLocks
<1>2. IsFiniteSet(CodeLocks(codes))
  BY <1>1, IdentityLinksAssumption, FS_Subset, FS_Singleton, FS_Product
<1>3. CodeLocks(codes) \subseteq Lock
  BY <1>1 DEF Lock, LockKinds, Things
<1>. QED
  BY <1>2, <1>3, OrderWants DEF Elements

LEMMA CountOrder ==
    ASSUME NEW kinds, kinds \subseteq Kinds, NEW people, people \subseteq People,
           NEW s \in CountLocks(kinds, people)
    PROVE  s \in Seq(Lock) /\ Elements(s) = CountKeys(kinds, people)
<1>. DEFINE capped == {k \in kinds : MaxPerUser[k] # NoLimit}
<1>1. IsFiniteSet(capped) /\ IsFiniteSet(people)
  BY FiniteRows, MembershipsAssumption, FS_Subset
<1>2. IsFiniteSet({"count"} \X (capped \X people))
  BY <1>1, FS_Singleton, FS_Product
<1>3. {"count"} \X (capped \X people) \subseteq Lock
  <2>1. capped \X people \subseteq Kinds \X People
    OBVIOUS
  <2>. QED
    BY <2>1 DEF Lock, LockKinds, Things
<1>4. s \in Orders({"count"} \X (capped \X people))
  BY DEF CountLocks, Sorted
<1>. QED
  BY <1>2, <1>3, <1>4, OrderWants DEF Elements, CountKeys

LEMMA EraseOrder ==
    ASSUME NEW people, people \subseteq People, NEW s \in Erase(people)
    PROVE  s \in Seq(Lock) /\ Elements(s) = Erases(people)
<1>1. IsFiniteSet({"erase"} \X people)
  BY MembershipsAssumption, FS_Subset, FS_Singleton, FS_Product
<1>2. {"erase"} \X people \subseteq Lock
  BY DEF Lock, LockKinds, Things
<1>3. s \in Orders({"erase"} \X people)
  BY DEF Erase, Sorted
<1>. QED
  BY <1>1, <1>2, <1>3, OrderWants DEF Elements, Erases

LEMMA BondOrder ==
    ASSUME NEW rows, rows \subseteq Relations, NEW s \in Orders(Bonds(rows))
    PROVE  s \in Seq(Lock) /\ Elements(s) = Bonds(rows)
<1>1. Bonds(rows) \subseteq {"bond"} \X (People \X People)
  BY DEF Bonds, Bond, Relations
<1>2. IsFiniteSet({"bond"} \X (People \X People))
  BY MembershipsAssumption, FS_Singleton, FS_Product
<1>3. IsFiniteSet(Bonds(rows))
  BY <1>1, <1>2, FS_Subset
<1>4. Bonds(rows) \subseteq Lock
  BY <1>1 DEF Lock, LockKinds, Things
<1>. QED
  BY <1>3, <1>4, OrderWants DEF Elements

LEMMA CascadeOrder ==
    ASSUME NEW g \in Groups, NEW s \in Orders(Cascade(g))
    PROVE  s \in Seq(Lock) /\ Elements(s) = Cascade(g)
<1>. DEFINE rows == {id \in RowIds : id[1] = g /\ member[id].status # "none"}
            invites == {i \in Invites : InviteTo[i] = g}
<1>1. Cascade(g) = ({"row"} \X rows) \cup ({"invite"} \X invites)
  BY DEF Cascade, RowLocks
<1>2. IsFiniteSet(rows) /\ IsFiniteSet(invites)
  BY FiniteRows, MembershipsAssumption, FS_Subset
<1>3. IsFiniteSet({"row"} \X rows) /\ IsFiniteSet({"invite"} \X invites)
  BY <1>2, FS_Singleton, FS_Product
<1>4. IsFiniteSet(Cascade(g))
  <2>1. IsFiniteSet(({"row"} \X rows) \cup ({"invite"} \X invites))
    BY <1>3, FS_Union
  <2>. QED
    BY <2>1, <1>1
<1>5. Cascade(g) \subseteq Lock
  <2>1. {"row"} \X rows \subseteq Lock /\ {"invite"} \X invites \subseteq Lock
    BY DEF Lock, LockKinds, Things
  <2>. QED
    BY <2>1, <1>1
<1>. QED
  BY <1>4, <1>5, OrderWants DEF Elements

-----------------------------------------------------------------------------
(* What every step of a request keeps                                      *)

Progress(r) == Shaped' /\ Turn(r) /\ Typed(r)' /\ Staged(r)' /\ Op(r)' = Op(r)

\* A step to a stage whose locks are the elements of its todo.
LEMMA Going ==
    ASSUME Shaped, NEW r \in Reqs, Typed(r), NEW stage, At(r, stage), stage # "done",
           NEW next \in Record(r), next.at \notin {"begin", "done"}, next.answer = "none", Goes(r, next)
    PROVE  /\ Shaped' /\ Typed(r)' /\ Turn(r) /\ Op(r)' = Op(r) /\ Unbegun(r)'
           /\ req'[r] = next /\ held'[r] = Locks(r)
           /\ Locks(r)' = Locks(r) \cup Elements(next.todo)
<1>1. /\ Shaped' /\ Typed(r)' /\ Turn(r)
      /\ req'[r] = next /\ held'[r] = Locks(r)
  BY GoesTurn
<1>2. Op(r)' = Op(r)
  BY <1>1 DEF Op, Record
<1>3. Wanted(r)' = Elements(next.todo)
  BY <1>1 DEF Wanted, Elements
<1>. QED
  BY <1>1, <1>2, <1>3 DEF Locks, Unbegun, Stage

LEMMA Families ==
    ASSUME NEW r
    PROVE  /\ Is(r, Entries) => ~Is(r, Changes) /\ ~Is(r, GroupOps) /\ ~Is(r, InviteOps)
                                  /\ ~Is(r, Sends \cup Answerings \cup Endings) /\ ~Is(r, LinkOps)
           /\ Is(r, Changes) => ~Is(r, Entries) /\ ~Is(r, GroupOps) /\ ~Is(r, InviteOps)
                                  /\ ~Is(r, Sends \cup Answerings \cup Endings) /\ ~Is(r, LinkOps)
           /\ Is(r, GroupOps) => ~Is(r, Entries) /\ ~Is(r, Changes) /\ ~Is(r, InviteOps)
                                  /\ ~Is(r, Sends \cup Answerings \cup Endings) /\ ~Is(r, LinkOps)
           /\ Is(r, InviteOps) => ~Is(r, Entries) /\ ~Is(r, Changes) /\ ~Is(r, GroupOps)
                                  /\ ~Is(r, Sends \cup Answerings \cup Endings) /\ ~Is(r, LinkOps)
           /\ Is(r, Sends \cup Answerings \cup Endings) => ~Is(r, Entries) /\ ~Is(r, Changes)
                                  /\ ~Is(r, GroupOps) /\ ~Is(r, InviteOps) /\ ~Is(r, LinkOps)
           /\ Is(r, LinkOps) => ~Is(r, Entries) /\ ~Is(r, Changes) /\ ~Is(r, GroupOps)
                                  /\ ~Is(r, InviteOps) /\ ~Is(r, Sends \cup Answerings \cup Endings)
  BY DEF Is, Entries, Changes, Departures, Edits, GroupOps, InviteOps, Sends, Answerings, Endings, LinkOps

LEMMA FamilyStaged ==
    ASSUME NEW r, Unbegun(r)', Op(r)' = Op(r)
    PROVE  /\ Is(r, Entries) /\ EntryStaged(r)' => Staged(r)'
           /\ Is(r, Changes) /\ ChangeStaged(r)' => Staged(r)'
           /\ Is(r, GroupOps) /\ GroupStaged(r)' => Staged(r)'
           /\ Is(r, InviteOps) /\ InviteStaged(r)' => Staged(r)'
           /\ Is(r, Sends \cup Answerings \cup Endings) /\ FriendStaged(r)' => Staged(r)'
           /\ Is(r, LinkOps) /\ LinkStaged(r)' => Staged(r)'
<1>1. \A kinds : Is(r, kinds)' <=> Is(r, kinds)
  BY DEF Is
<1>. QED
  BY <1>1, Families DEF Staged, EntryStaged, ChangeStaged, GroupStaged, InviteStaged, FriendStaged, LinkStaged

LEMMA DoneStaged ==
    ASSUME NEW r, Stage(r)' = "done", held'[r] = {}, req'[r].todo = <<>>
    PROVE  Staged(r)'
<1>1. Unbegun(r)' /\ EntryStaged(r)' /\ ChangeStaged(r)'
  BY DEF Unbegun, EntryStaged, ChangeStaged, Inside, Roomy, Stage
<1>2. GroupStaged(r)' /\ InviteStaged(r)' /\ FriendStaged(r)' /\ LinkStaged(r)'
  BY DEF GroupStaged, InviteStaged, FriendStaged, LinkStaged
<1>. QED
  BY <1>1, <1>2 DEF Staged

LEMMA Answering ==
    ASSUME Base, NEW r \in Reqs, NEW stage, At(r, stage), stage # "done",
           NEW answer \in Answers, Answer(r, answer)
    PROVE  /\ Progress(r) /\ req'[r].at = "done" /\ req'[r].answer = answer
           /\ req'[r].rows = req[r].rows /\ req'[r].who = req[r].who
           /\ req'[r].fresh = req[r].fresh /\ req'[r].seen = req[r].seen
           /\ held'[r] = {}
<1>1. req[r].at # "done" /\ Shaped /\ Typed(r)
  BY DEF At, Base
<1>. QED
  BY <1>1, AnswerTurn, DoneStaged DEF Progress, Stage

\* What a legal request names.
LEMMA Names ==
    ASSUME NEW r \in Reqs, Typed(r)
    PROVE  /\ Is(r, Entries \cup Changes \cup GroupOps \cup InviteOps) => Group(r) \in Groups
           /\ Is(r, (Entries \ {"import"}) \cup Changes \cup LinkOps) => Op(r).users[1] \in Users
           /\ Is(r, Sends \cup Endings) => Op(r).users[1] \in Users /\ Op(r).users[2] \in Users
           /\ Is(r, {"accept"} \cup InviteOps) => Op(r).item \in Invites
           /\ Is(r, {"redeem"}) => Op(r).item \in Codes /\ Op(r).item[1] \in Users
           /\ Op(r).users \in Seq(Users)
<1>1. Legal(Op(r))
  BY DEF Typed
<1>2. Is(r, Entries \cup Changes \cup GroupOps \cup InviteOps) => Group(r) \in Groups
  BY <1>1 DEF Legal, Is, Group
<1>3. Op(r).users \in Seq(Users)
  BY <1>1 DEF Legal
<1>4. Is(r, (Entries \ {"import"}) \cup Changes \cup LinkOps) => Op(r).users[1] \in Users
  <2>1. Is(r, (Entries \ {"import"}) \cup Changes \cup LinkOps) => Len(Op(r).users) = 1
    BY <1>1 DEF Legal, Is
  <2>. QED
    BY <2>1, <1>3, ElementOfSeq
<1>5. Is(r, Sends \cup Endings) => Op(r).users[1] \in Users /\ Op(r).users[2] \in Users
  <2>1. Is(r, Sends \cup Endings) => Len(Op(r).users) = 2
    BY <1>1 DEF Legal, Is
  <2>. QED
    BY <2>1, <1>3, ElementOfSeq
<1>6. Is(r, {"accept"} \cup InviteOps) => Op(r).item \in Invites
  BY <1>1 DEF Legal, Is
<1>7. Is(r, {"redeem"}) => Op(r).item \in Codes
  BY <1>1 DEF Legal, Is
<1>8. \A c \in Codes : c[1] \in Users
  BY IdentityLinksAssumption
<1>. QED
  BY <1>2, <1>3, <1>4, <1>5, <1>6, <1>7, <1>8

LEMMA Reads ==
    ASSUME RowTypes, NEW g, NEW p
    PROVE  /\ RowsOf(g, p) \subseteq InGroup(g) /\ RowsOf(g, p) \subseteq RowIds
           /\ Version(g, p) \in Nat
           /\ RowsOf(g, p) = {} \/ (CHOOSE id \in RowsOf(g, p) : TRUE) \in RowsOf(g, p)
<1>1. RowsOf(g, p) \subseteq InGroup(g) /\ RowsOf(g, p) \subseteq RowIds
  BY DEF RowsOf, InGroup
<1>2. RowsOf(g, p) = {} \/ (CHOOSE id \in RowsOf(g, p) : TRUE) \in RowsOf(g, p)
  OBVIOUS
<1>3. \A id \in RowIds : member[id].version \in Nat
  BY DEF RowTypes
<1>. QED
  BY <1>1, <1>2, <1>3 DEF Version

LEMMA EnterGroupProgress ==
    ASSUME Base, NEW r \in Reqs, EnterGroup(r)
    PROVE  Progress(r)
<1>. DEFINE g == Group(r)
            p == Person(r)
            next(locks) == [To(r, "counts", locks) EXCEPT
                    !.rows = RowsOf(g, p), !.fresh = IF RowsOf(g, p) = {} THEN {p} ELSE {}]
<1>0. /\ Shaped /\ Typed(r) /\ Staged(r) /\ RowTypes
      /\ At(r, "group") /\ Is(r, {"join", "add", "accept"}) /\ req[r].at = "group"
  BY DEF Base, EnterGroup, At
<1>1. CASE \E answer \in Answers : Answer(r, answer)
  BY <1>0, <1>1, Answering
<1>2. ASSUME NEW locks \in CountLocks({KindOf[g]}, {p}), Goes(r, next(locks))
      PROVE  Progress(r)
  <2>1. /\ Is(r, Entries) /\ g \in Groups /\ ~Is(r, {"create"}) /\ ~Is(r, {"import"})
        /\ <<"group", g>> \in Locks(r) /\ Len(req[r].who) = 1
    BY <1>0, Names DEF Is, Entries, Staged, EntryStaged, Stage
  <2>2. p \in People /\ Members(r) = {p}
    BY <1>0, <2>1 DEF Person, Typed, Record, Members, Range
  <2>3. locks \in Seq(Lock) /\ Elements(locks) = CountKeys({KindOf[g]}, {p})
    BY <2>1, <2>2, CountOrder DEF Kinds
  <2>4. /\ next(locks) \in Record(r) /\ next(locks).at = "counts" /\ next(locks).todo = locks
        /\ next(locks).answer = "none" /\ next(locks).who = req[r].who
        /\ next(locks).rows = RowsOf(g, p) /\ next(locks).fresh \subseteq {p}
    <3>1. RowsOf(g, p) \subseteq RowIds
      BY <1>0, Reads
    <3>. QED
      BY <3>1, <2>2, <2>3, <1>0 DEF To, Typed, Record, Op, Stages
  <2>5. /\ Shaped' /\ Typed(r)' /\ Turn(r) /\ Op(r)' = Op(r) /\ Unbegun(r)'
        /\ req'[r] = next(locks) /\ held'[r] = Locks(r)
        /\ Locks(r)' = Locks(r) \cup Elements(locks)
    BY <2>4, <1>0, <1>2, Going
  <2>6. EntryStaged(r)'
    <3>1. RowsOf(g, p) \subseteq InGroup(g)
      BY <1>0, Reads
    <3>2. Members(r)' = {p}
      BY <2>2, <2>4, <2>5 DEF Members
    <3>. HIDE DEF next
    <3>. QED
      BY <3>1, <3>2, <2>1, <2>2, <2>3, <2>4, <2>5 DEF EntryStaged, Stage, Is, Group, Roomy, Inside, Members
  <2>. QED
    BY <2>1, <2>5, <2>6, FamilyStaged DEF Progress
<1>. QED
  BY <1>1, <1>2 DEF EnterGroup, Answers

LEMMA BeginEntryProgress ==
    ASSUME Base, NEW r \in Reqs, BeginEntry(r)
    PROVE  Progress(r)
<1>. DEFINE g == Group(r)
            p == personOf[Op(r).users[1]]
            next == [To(r, "group", GroupLock(g)) EXCEPT !.who = <<p>>, !.seen = Version(g, p)]
<1>0. /\ Shaped /\ Typed(r) /\ Staged(r) /\ RowTypes
      /\ At(r, "begin") /\ Is(r, {"join", "add", "accept"}) /\ req[r].at = "begin"
  BY DEF Base, BeginEntry, At
<1>1. CASE Answer(r, "refused")
  BY <1>0, <1>1, Answering DEF Answers
<1>2. CASE Goes(r, next)
  <2>1. /\ Is(r, Entries) /\ Is(r, Entries \ {"import"}) /\ g \in Groups /\ ~Is(r, {"create"}) /\ ~Is(r, {"import"})
        /\ req[r].rows = {} /\ req[r].fresh = {}
    BY <1>0, Names DEF Is, Entries, Staged, Unbegun, Stage
  <2>2. p \in People /\ <<p>> \in Seq(People) /\ Len(<<p>>) = 1
    BY <1>0, <2>1, Names DEF Is, RowTypes
  <2>3. GroupLock(g) \in Seq(Lock) /\ Elements(GroupLock(g)) = {<<"group", g>>}
    <3>1. <<"group", g>> \in Lock
      BY <2>1 DEF Lock, LockKinds, Things
    <3>. QED
      BY <3>1, ElementsOf DEF GroupLock
  <2>4. /\ next \in Record(r) /\ next.at = "group" /\ next.todo = GroupLock(g)
        /\ next.answer = "none" /\ next.who = <<p>> /\ next.rows = {} /\ next.fresh = {}
    <3>1. Version(g, p) \in Nat
      BY <1>0, Reads
    <3>. QED
      BY <3>1, <2>1, <2>2, <2>3, <1>0 DEF To, Typed, Record, Op, Stages
  <2>5. /\ Shaped' /\ Typed(r)' /\ Turn(r) /\ Op(r)' = Op(r) /\ Unbegun(r)'
        /\ req'[r] = next /\ held'[r] = Locks(r)
        /\ Locks(r)' = Locks(r) \cup Elements(GroupLock(g))
    BY <2>4, <1>0, <1>2, Going
  <2>6. EntryStaged(r)'
    <3>. HIDE DEF next
    <3>. QED
      BY <2>1, <2>2, <2>3, <2>4, <2>5 DEF EntryStaged, Stage, Is, Group, Roomy, Inside
  <2>. QED
    BY <2>1, <2>5, <2>6, FamilyStaged DEF Progress
<1>. QED
  BY <1>1, <1>2 DEF BeginEntry

LEMMA BeginImportProgress ==
    ASSUME Base, NEW r \in Reqs, BeginImport(r)
    PROVE  Progress(r)
<1>. DEFINE g == Group(r)
            next == To(r, "group", GroupLock(g))
<1>0. /\ Shaped /\ Typed(r) /\ Staged(r) /\ RowTypes
      /\ At(r, "begin") /\ Is(r, {"import"}) /\ req[r].at = "begin"
  BY DEF Base, BeginImport, At
<1>1. CASE Answer(r, "refused")
  BY <1>0, <1>1, Answering DEF Answers
<1>2. CASE Goes(r, next)
  <2>1. /\ Is(r, Entries) /\ g \in Groups /\ ~Is(r, {"create"})
    BY <1>0, Names DEF Is, Entries
  <2>3. GroupLock(g) \in Seq(Lock) /\ Elements(GroupLock(g)) = {<<"group", g>>}
    <3>1. <<"group", g>> \in Lock
      BY <2>1 DEF Lock, LockKinds, Things
    <3>. QED
      BY <3>1, ElementsOf DEF GroupLock
  <2>4. /\ next \in Record(r) /\ next.at = "group" /\ next.todo = GroupLock(g)
        /\ next.answer = "none"
    BY <2>1, <2>3, <1>0 DEF To, Typed, Record, Op, Stages
  <2>5. /\ Shaped' /\ Typed(r)' /\ Turn(r) /\ Op(r)' = Op(r) /\ Unbegun(r)'
        /\ req'[r] = next /\ held'[r] = Locks(r)
        /\ Locks(r)' = Locks(r) \cup Elements(GroupLock(g))
    BY <2>4, <1>0, <1>2, Going
  <2>6. EntryStaged(r)'
    <3>. HIDE DEF next
    <3>. QED
      BY <2>1, <1>0, <2>3, <2>4, <2>5 DEF EntryStaged, Stage, Is, Group, Roomy, Inside
  <2>. QED
    BY <2>1, <2>5, <2>6, FamilyStaged DEF Progress
<1>. QED
  BY <1>1, <1>2 DEF BeginImport

LEMMA BeginCreateProgress ==
    ASSUME Base, NEW r \in Reqs, BeginCreate(r)
    PROVE  Progress(r)
<1>. DEFINE g == Group(r)
            p == personOf[Op(r).users[1]]
            next(locks) == [To(r, "counts", locks) EXCEPT !.who = <<p>>, !.fresh = {p}]
<1>0. /\ Shaped /\ Typed(r) /\ Staged(r) /\ RowTypes
      /\ At(r, "begin") /\ Is(r, {"create"}) /\ req[r].at = "begin"
  BY DEF Base, BeginCreate, At
<1>2. ASSUME NEW locks \in CountLocks({KindOf[g]}, {p}), Goes(r, next(locks))
      PROVE  Progress(r)
  <2>1. /\ Is(r, Entries) /\ Is(r, Entries \ {"import"}) /\ g \in Groups /\ ~Is(r, {"import"})
        /\ req[r].rows = {}
    BY <1>0, Names DEF Is, Entries, Staged, Unbegun, Stage
  <2>2. p \in People /\ <<p>> \in Seq(People) /\ Len(<<p>>) = 1
    BY <1>0, <2>1, Names DEF Is, RowTypes
  <2>3. locks \in Seq(Lock) /\ Elements(locks) = CountKeys({KindOf[g]}, {p})
    BY <2>1, <2>2, CountOrder DEF Kinds
  <2>4. /\ next(locks) \in Record(r) /\ next(locks).at = "counts" /\ next(locks).todo = locks
        /\ next(locks).answer = "none" /\ next(locks).who = <<p>>
        /\ next(locks).rows = {} /\ next(locks).fresh = {p}
    BY <2>1, <2>2, <2>3, <1>0 DEF To, Typed, Record, Op, Stages
  <2>5. /\ Shaped' /\ Typed(r)' /\ Turn(r) /\ Op(r)' = Op(r) /\ Unbegun(r)'
        /\ req'[r] = next(locks) /\ held'[r] = Locks(r)
        /\ Locks(r)' = Locks(r) \cup Elements(locks)
    BY <2>4, <1>0, <1>2, Going
  <2>6. EntryStaged(r)'
    <3>2. Members(r)' = {p}
      BY <2>4, <2>5 DEF Members, Range
    <3>. HIDE DEF next
    <3>. QED
      BY <3>2, <1>0, <2>1, <2>2, <2>3, <2>4, <2>5 DEF EntryStaged, Stage, Is, Group, Roomy, Inside, Members
  <2>. QED
    BY <2>1, <2>5, <2>6, FamilyStaged DEF Progress
<1>. QED
  BY <1>2 DEF BeginCreate

LEMMA ImportPeopleProgress ==
    ASSUME Base, NEW r \in Reqs, ImportPeople(r)
    PROVE  Progress(r)
<1>. DEFINE g == Group(r)
            who == [i \in DOMAIN Op(r).users |-> personOf[Op(r).users[i]]]
            rows == UNION {RowsOf(g, who[i]) : i \in DOMAIN who}
            next(order) == [To(r, "rows", order) EXCEPT !.who = who]
<1>0. /\ Shaped /\ Typed(r) /\ Staged(r) /\ RowTypes
      /\ At(r, "group") /\ Is(r, {"import"}) /\ req[r].at = "group"
  BY DEF Base, ImportPeople, At
<1>1. CASE Answer(r, "refused")
  BY <1>0, <1>1, Answering DEF Answers
<1>2. ASSUME NEW order \in Orders(RowLocks(rows)), Goes(r, next(order))
      PROVE  Progress(r)
  <2>1. /\ Is(r, Entries) /\ g \in Groups /\ ~Is(r, {"create"}) /\ <<"group", g>> \in Locks(r)
    BY <1>0, Names DEF Is, Entries, Staged, EntryStaged, Stage
  <2>2. who \in Seq(People)
    <3>1. Op(r).users \in Seq(Users)
      BY <1>0, Names
    <3>2. Len(Op(r).users) \in Nat /\ DOMAIN Op(r).users = 1 .. Len(Op(r).users)
          /\ \A i \in DOMAIN Op(r).users : Op(r).users[i] \in Users
      BY <3>1, LenProperties, ElementOfSeq
    <3>3. \A i \in 1 .. Len(Op(r).users) : personOf[Op(r).users[i]] \in People
      BY <3>2, <1>0 DEF RowTypes
    <3>. QED
      BY <3>2, <3>3, IsASeq
  <2>3. order \in Seq(Lock) /\ Elements(order) = RowLocks(rows)
    <3>1. rows \subseteq RowIds
      BY DEF RowsOf
    <3>. QED
      BY <3>1, RowOrder
  <2>4. /\ next(order) \in Record(r) /\ next(order).at = "rows" /\ next(order).todo = order
        /\ next(order).answer = "none"
    <3>. HIDE DEF who
    <3>. QED
      BY <2>1, <2>2, <2>3, <1>0 DEF To, Typed, Record, Op, Stages
  <2>5. /\ Shaped' /\ Typed(r)' /\ Turn(r) /\ Op(r)' = Op(r) /\ Unbegun(r)'
        /\ req'[r] = next(order) /\ held'[r] = Locks(r)
    BY <2>4, <1>0, <1>2, Going
  <2>6. EntryStaged(r)'
    <3>. HIDE DEF next
    <3>. QED
      BY <1>0, <2>1, <2>3, <2>4, <2>5 DEF EntryStaged, Stage, Is, Group, Roomy, Inside
  <2>. QED
    BY <2>1, <2>5, <2>6, FamilyStaged DEF Progress
<1>. QED
  BY <1>1, <1>2 DEF ImportPeople

\* A finite set has an order, and an order has the elements of the set.
LEMMA SomeOrder ==
    ASSUME NEW S, IsFiniteSet(S)
    PROVE  /\ Orders(S) # {}
           /\ \A s \in Orders(S) : s \in Seq(S) /\ Range(s) = S /\ Len(s) = Cardinality(S)
<1>1. Cardinality(S) \in Nat /\ ExistsBijection(1 .. Cardinality(S), S)
  BY FS_CardinalityType
<1>2. Orders(S) # {}
  <2>1. PICK f \in [1 .. Cardinality(S) -> S] : \A l \in S : \E i \in 1 .. Cardinality(S) : f[i] = l
    BY <1>1 DEF ExistsBijection, Bijection, Injection, Surjection
  <2>2. f \in Orders(S)
    BY <2>1 DEF Orders
  <2>. QED
    BY <2>2
<1>3. ASSUME NEW s \in Orders(S)
      PROVE  s \in Seq(S) /\ Range(s) = S /\ Len(s) = Cardinality(S)
  <2>1. s \in [1 .. Cardinality(S) -> S] /\ \A l \in S : \E i \in DOMAIN s : s[i] = l
    BY DEF Orders
  <2>2. s \in Seq(S) /\ Len(s) = Cardinality(S)
    BY <1>1, <2>1, IsASeq, LenProperties
  <2>. QED
    BY <2>1, <2>2 DEF Range
<1>. QED
  BY <1>2, <1>3

LEMMA Repeating ==
    ASSUME Base, NEW r \in Reqs, NEW stage, At(r, stage), stage # "done",
           NEW next \in Stages, next \notin {"begin", "done"}, NEW locks \in Seq(Lock), Again(r, next, locks)
    PROVE  /\ Shaped' /\ Typed(r)' /\ Turn(r) /\ Op(r)' = Op(r) /\ Unbegun(r)' /\ held'[r] = {}
           /\ \/ req'[r].at = "done" /\ req'[r].answer = "error" /\ Progress(r)
              \/ req'[r].at = next /\ Locks(r)' = Elements(locks)
           /\ req'[r].rows = req[r].rows /\ req'[r].who = req[r].who
           /\ req'[r].fresh = req[r].fresh /\ req'[r].seen = req[r].seen
<1>1. req[r].at # "done" /\ Shaped /\ Typed(r)
  BY DEF At, Base
<1>2. /\ Shaped' /\ Typed(r)' /\ Turn(r)
      /\ held'[r] = {} /\ Op(r)' = Op(r)
      /\ \/ req'[r].at = "done" /\ req'[r].answer = "error" /\ req'[r].todo = <<>>
         \/ req'[r].at = next /\ req'[r].todo = locks
      /\ req'[r].rows = req[r].rows /\ req'[r].who = req[r].who
      /\ req'[r].fresh = req[r].fresh /\ req'[r].seen = req[r].seen
  BY <1>1, AgainTurn
<1>3. CASE req'[r].at = "done" /\ req'[r].answer = "error" /\ req'[r].todo = <<>>
  BY <1>2, <1>3, DoneStaged DEF Progress, Stage, Unbegun
<1>4. CASE req'[r].at = next /\ req'[r].todo = locks
  BY <1>2, <1>4 DEF Locks, Wanted, Elements, Unbegun, Stage
<1>. QED
  BY <1>2, <1>3, <1>4

LEMMA ReferredPeople ==
    ASSUME NEW r \in Reqs, Typed(r), Is(r, {"add", "import", "kick"}) \/ Len(req[r].who) = 1
    PROVE  Referred(r) \subseteq People
<1>1. Len(req[r].who) = 1 => Person(r) \in People
  BY ElementOfSeq DEF Person, Typed, Record
<1>. QED
  BY <1>1 DEF Referred, Typed, Record, Is

LEMMA ReferredSame ==
    ASSUME NEW r, Op(r)' = Op(r), req'[r].who = req[r].who, req'[r].fresh = req[r].fresh
    PROVE  Referred(r)' = Referred(r) /\ Members(r)' = Members(r)
  BY DEF Referred, Is, Person, Members

LEMMA ImportRowsProgress ==
    ASSUME Base, NEW r \in Reqs, ImportRows(r)
    PROVE  Progress(r)
<1>. DEFINE g == Group(r)
            entering == {p \in Range(req[r].who) : Status(g, p) # "active"}
            order == CHOOSE who \in Orders(entering) : TRUE
            rows == UNION {RowsOf(g, p) : p \in entering}
            fresh == {p \in entering : RowsOf(g, p) = {}}
            next(locks) == [To(r, "counts", locks) EXCEPT !.who = order, !.rows = rows, !.fresh = fresh]
<1>0. /\ Shaped /\ Typed(r) /\ Staged(r) /\ RowTypes
      /\ At(r, "rows") /\ Is(r, {"import"}) /\ req[r].at = "rows"
  BY DEF Base, ImportRows, At
<1>1. CASE \E answer \in Answers : Answer(r, answer)
  BY <1>0, <1>1, Answering
<1>2. ASSUME NEW locks \in CountLocks({KindOf[g]}, entering), Goes(r, next(locks))
      PROVE  Progress(r)
  <2>1. /\ Is(r, Entries) /\ g \in Groups /\ ~Is(r, {"create"}) /\ <<"group", g>> \in held[r]
    BY <1>0, Names DEF Is, Entries, Staged, EntryStaged, Stage, Inside
  <2>2. entering \subseteq People /\ IsFiniteSet(entering)
    <3>1. req[r].who \in Seq(People)
      BY <1>0 DEF Typed, Record
    <3>2. Range(req[r].who) \subseteq People
      BY <3>1, ElementOfSeq DEF Range
    <3>. QED
      BY <3>2, MembershipsAssumption, FS_Subset
  <2>3. order \in Seq(People) /\ Range(order) = entering
    <3>1. order \in Orders(entering)
      BY <2>2, SomeOrder
    <3>2. order \in Seq(entering) /\ Range(order) = entering
      BY <3>1, <2>2, SomeOrder
    <3>. HIDE DEF order
    <3>. QED
      BY <3>2, <2>2, SeqMonotonic
  <2>4. rows \subseteq InGroup(g) /\ rows \subseteq RowIds /\ fresh \subseteq entering
    BY DEF RowsOf, InGroup
  <2>5. locks \in Seq(Lock) /\ Elements(locks) = CountKeys({KindOf[g]}, entering)
    BY <2>1, <2>2, CountOrder DEF Kinds
  <2>6. /\ next(locks) \in Record(r) /\ next(locks).at = "counts" /\ next(locks).todo = locks
        /\ next(locks).answer = "none" /\ next(locks).who = order
        /\ next(locks).rows = rows /\ next(locks).fresh = fresh
    <3>. HIDE DEF order, rows, fresh
    <3>. QED
      BY <2>2, <2>3, <2>4, <2>5, <1>0 DEF To, Typed, Record, Op, Stages
  <2>7. /\ Shaped' /\ Typed(r)' /\ Turn(r) /\ Op(r)' = Op(r) /\ Unbegun(r)'
        /\ req'[r] = next(locks) /\ held'[r] = Locks(r)
        /\ Locks(r)' = Locks(r) \cup Elements(locks)
    BY <2>6, <1>0, <1>2, Going
  <2>8. EntryStaged(r)'
    <3>1. Members(r)' = entering
      BY <2>3, <2>6, <2>7 DEF Members
    <3>2. <<"group", g>> \in held'[r]
      BY <2>1, <2>7 DEF Locks
    <3>. HIDE DEF next, order, rows, fresh, entering
    <3>. QED
      BY <3>1, <3>2, <1>0, <2>1, <2>4, <2>5, <2>6, <2>7
      DEF EntryStaged, Stage, Is, Group, Roomy, Inside
  <2>. QED
    BY <2>1, <2>7, <2>8, FamilyStaged DEF Progress
<1>. QED
  BY <1>1, <1>2 DEF ImportRows, Answers

\* What changes when r goes on to a stage with nothing but locks to take.
Moved(r, stage, locks) ==
    /\ Shaped' /\ Typed(r)' /\ Turn(r) /\ Op(r)' = Op(r) /\ Unbegun(r)'
    /\ req'[r].at = stage /\ held'[r] = Locks(r) /\ Locks(r)' = Locks(r) \cup locks
    /\ req'[r].rows = req[r].rows /\ req'[r].who = req[r].who
    /\ req'[r].fresh = req[r].fresh /\ req'[r].seen = req[r].seen
    /\ req'[r].found = req[r].found
    /\ Members(r)' = Members(r) /\ Referred(r)' = Referred(r) /\ Group(r)' = Group(r)
    /\ \A kinds : Is(r, kinds)' <=> Is(r, kinds)

LEMMA Moving ==
    ASSUME Base, NEW r \in Reqs, NEW from, At(r, from), from # "done",
           NEW stage \in Stages, stage \notin {"begin", "done"}, NEW locks \in Seq(Lock), Goes(r, To(r, stage, locks))
    PROVE  Moved(r, stage, Elements(locks))
<1>. DEFINE next == To(r, stage, locks)
<1>0. Shaped /\ Typed(r) /\ req[r].at # "done" /\ Goes(r, next)
  BY DEF Base, At
<1>1. /\ next \in Record(r) /\ next.at = stage /\ next.todo = locks /\ next.answer = "none"
      /\ next.who = req[r].who /\ next.fresh = req[r].fresh /\ next.rows = req[r].rows
      /\ next.seen = req[r].seen /\ next.found = req[r].found
  BY <1>0, ToRecord
<1>2. /\ Shaped' /\ Typed(r)' /\ Turn(r) /\ Op(r)' = Op(r) /\ Unbegun(r)'
      /\ req'[r] = next /\ held'[r] = Locks(r)
      /\ Locks(r)' = Locks(r) \cup Elements(locks)
  <2>. HIDE DEF next
  <2>. QED
    BY <1>0, <1>1, Going
<1>3. Members(r)' = Members(r) /\ Referred(r)' = Referred(r)
  BY <1>1, <1>2, ReferredSame
<1>4. Group(r)' = Group(r) /\ \A kinds : Is(r, kinds)' <=> Is(r, kinds)
  BY <1>2 DEF Group, Is
<1>. QED
  BY <1>1, <1>2, <1>3, <1>4 DEF Moved

LEMMA EnterCountsProgress ==
    ASSUME Base, NEW r \in Reqs, EnterCounts(r)
    PROVE  Progress(r)
<1>. DEFINE g == Group(r)
            i == Op(r).item
<1>0. /\ Shaped /\ Typed(r) /\ Staged(r) /\ RowTypes
      /\ At(r, "counts") /\ Is(r, Entries) /\ req[r].at = "counts" /\ EntryStaged(r)
  BY DEF Base, EnterCounts, At, Staged
<1>1. CASE Answer(r, "refused")
  BY <1>0, <1>1, Answering DEF Answers
<1>2. /\ g \in Groups /\ ~Is(r, {"create"}) => <<"group", g>> \in held[r]
      /\ CountKeys({KindOf[g]}, Members(r)) \subseteq Locks(r)
      /\ req[r].rows \subseteq InGroup(g) /\ req[r].fresh \subseteq Members(r)
      /\ (Is(r, {"create"}) => req[r].rows = {})
      /\ (~Is(r, {"import"}) => Len(req[r].who) = 1)
  BY <1>0, Names DEF EntryStaged, Stage, Inside, Roomy
<1>3. CASE Is(r, {"accept"}) /\ Goes(r, To(r, "invite", <<<<"invite", i>>>>))
  <2>1. <<<<"invite", i>>>> \in Seq(Lock) /\ Elements(<<<<"invite", i>>>>) = {<<"invite", i>>}
    <3>1. i \in Invites
      BY <1>0, <1>3, Names DEF Is
    <3>2. <<"invite", i>> \in Lock
      BY <3>1 DEF Lock, LockKinds, Things
    <3>. QED
      BY <3>2, ElementsOf
  <2>2. Moved(r, "invite", {<<"invite", i>>})
    BY <1>0, <1>3, <2>1, Moving DEF Stages
  <2>3. EntryStaged(r)'
    BY <1>0, <1>2, <1>3, <2>2 DEF EntryStaged, Stage, Inside, Roomy, Locks, Is, Moved
  <2>. QED
    BY <1>0, <2>2, <2>3, FamilyStaged DEF Progress, Moved
<1>4. ASSUME NEW order \in Orders(RowLocks(req[r].rows)), ~Is(r, {"accept"}), Goes(r, To(r, "row", order))
      PROVE  Progress(r)
  <2>1. order \in Seq(Lock) /\ Elements(order) = RowLocks(req[r].rows)
    <3>1. req[r].rows \subseteq RowIds
      BY <1>2 DEF InGroup
    <3>. QED
      BY <3>1, RowOrder
  <2>2. Moved(r, "row", RowLocks(req[r].rows))
    BY <1>0, <1>4, <2>1, Moving DEF Stages
  <2>3. EntryStaged(r)'
    BY <1>0, <1>2, <1>4, <2>2 DEF EntryStaged, Stage, Inside, Roomy, Locks, Is, Moved
  <2>. QED
    BY <1>0, <2>2, <2>3, FamilyStaged DEF Progress, Moved
<1>. QED
  BY <1>1, <1>3, <1>4 DEF EnterCounts

LEMMA EnterInviteProgress ==
    ASSUME Base, NEW r \in Reqs, EnterInvite(r)
    PROVE  Progress(r)
<1>. DEFINE g == Group(r)
<1>0. /\ Shaped /\ Typed(r) /\ Staged(r) /\ RowTypes
      /\ At(r, "invite") /\ Is(r, {"accept"}) /\ req[r].at = "invite" /\ EntryStaged(r)
  BY DEF Base, EnterInvite, At, Staged
<1>1. CASE Answer(r, "refused")
  BY <1>0, <1>1, Answering DEF Answers
<1>2. /\ g \in Groups /\ Is(r, Entries) /\ <<"group", g>> \in held[r]
      /\ CountKeys({KindOf[g]}, Members(r)) \subseteq held[r] /\ <<"invite", Op(r).item>> \in Locks(r)
      /\ req[r].rows \subseteq InGroup(g) /\ req[r].fresh \subseteq Members(r)
      /\ Len(req[r].who) = 1
  BY <1>0, Names DEF EntryStaged, Stage, Inside, Roomy, Is, Entries
<1>3. ASSUME NEW order \in Orders(RowLocks(req[r].rows)), Goes(r, To(r, "row", order))
      PROVE  Progress(r)
  <2>1. order \in Seq(Lock) /\ Elements(order) = RowLocks(req[r].rows)
    <3>1. req[r].rows \subseteq RowIds
      BY <1>2 DEF InGroup
    <3>. QED
      BY <3>1, RowOrder
  <2>2. Moved(r, "row", RowLocks(req[r].rows))
    BY <1>0, <1>3, <2>1, Moving DEF Stages
  <2>3. EntryStaged(r)'
    BY <1>0, <1>2, <2>2 DEF EntryStaged, Stage, Inside, Roomy, Locks, Is, Moved
  <2>. QED
    BY <1>2, <2>2, <2>3, FamilyStaged DEF Progress, Moved
<1>. QED
  BY <1>1, <1>3 DEF EnterInvite

\* The order of the shares that the foreign keys of r take.
LEMMA ReferredOrder ==
    ASSUME NEW r \in Reqs, Typed(r), Is(r, {"add", "import", "kick"}) \/ Len(req[r].who) = 1,
           NEW order \in Orders(ShareLocks(Referred(r)))
    PROVE  order \in Seq(Lock) /\ Elements(order) = ShareLocks(Referred(r))
<1>1. Referred(r) \subseteq People
  BY ReferredPeople
<1>. QED
  BY <1>1, ShareOrder

LEMMA EnterRowProgress ==
    ASSUME Base, NEW r \in Reqs, EnterRow(r)
    PROVE  Progress(r)
<1>. DEFINE g == Group(r)
<1>0. /\ Shaped /\ Typed(r) /\ Staged(r) /\ RowTypes
      /\ At(r, "row") /\ Is(r, Entries) /\ req[r].at = "row" /\ EntryStaged(r)
  BY DEF Base, EnterRow, At, Staged
<1>1. CASE Answer(r, "error")
  BY <1>0, <1>1, Answering DEF Answers
<1>2. /\ g \in Groups /\ (~Is(r, {"create"}) => <<"group", g>> \in held[r])
      /\ CountKeys({KindOf[g]}, Members(r)) \subseteq held[r]
      /\ RowLocks(req[r].rows) \subseteq Locks(r)
      /\ req[r].rows \subseteq InGroup(g) /\ req[r].fresh \subseteq Members(r)
      /\ (Is(r, {"create"}) => req[r].rows = {})
      /\ (Is(r, {"accept"}) => <<"invite", Op(r).item>> \in held[r])
      /\ (~Is(r, {"import"}) => Len(req[r].who) = 1)
  BY <1>0, Names DEF EntryStaged, Stage, Inside, Roomy, Is, Entries
<1>3. ASSUME NEW order \in Orders(ShareLocks(Referred(r))), Goes(r, To(r, "share", order))
      PROVE  Progress(r)
  <2>1. order \in Seq(Lock) /\ Elements(order) = ShareLocks(Referred(r))
    BY <1>0, <1>2, ReferredOrder DEF Is
  <2>2. Moved(r, "share", ShareLocks(Referred(r)))
    BY <1>0, <1>3, <2>1, Moving DEF Stages
  <2>3. EntryStaged(r)'
    BY <1>0, <1>2, <2>2 DEF EntryStaged, Stage, Inside, Roomy, Locks, Is, Moved
  <2>. QED
    BY <1>0, <1>2, <2>2, <2>3, FamilyStaged DEF Progress, Moved
<1>. QED
  BY <1>1, <1>3 DEF EnterRow

LEMMA EnterShareProgress ==
    ASSUME Base, NEW r \in Reqs, EnterShare(r)
    PROVE  Progress(r)
<1>. DEFINE g == Group(r)
<1>0. /\ Shaped /\ Typed(r) /\ Staged(r) /\ RowTypes
      /\ At(r, "share") /\ Is(r, Entries) /\ req[r].at = "share" /\ EntryStaged(r)
  BY DEF Base, EnterShare, At, Staged
<1>1. CASE \E answer \in Answers : Answer(r, answer)
  BY <1>0, <1>1, Answering
<1>2. /\ g \in Groups /\ (~Is(r, {"create"}) => <<"group", g>> \in held[r])
      /\ CountKeys({KindOf[g]}, Members(r)) \subseteq held[r]
      /\ RowLocks(req[r].rows) \subseteq held[r] /\ ShareLocks(Referred(r)) \subseteq Locks(r)
      /\ req[r].rows \subseteq InGroup(g) /\ req[r].fresh \subseteq Members(r)
      /\ (Is(r, {"create"}) => req[r].rows = {})
      /\ (Is(r, {"accept"}) => <<"invite", Op(r).item>> \in held[r])
      /\ (~Is(r, {"import"}) => Len(req[r].who) = 1)
  BY <1>0, Names DEF EntryStaged, Stage, Inside, Roomy, Is, Entries
<1>3. CASE Goes(r, To(r, "commit", <<>>))
  <2>1. <<>> \in Seq(Lock) /\ Elements(<<>>) = {}
    BY ElementsOf, EmptySeq
  <2>2. Moved(r, "commit", {})
    BY <1>0, <1>3, <2>1, Moving DEF Stages
  <2>3. EntryStaged(r)'
    BY <1>0, <1>2, <2>2 DEF EntryStaged, Stage, Inside, Roomy, Locks, Is, Moved
  <2>. QED
    BY <1>0, <1>2, <2>2, <2>3, FamilyStaged DEF Progress, Moved
<1>4. CASE Is(r, {"add", "import"}) /\ Again(r, "group", GroupLock(g))
  <2>1. GroupLock(g) \in Seq(Lock) /\ Elements(GroupLock(g)) = {<<"group", g>>}
    <3>1. <<"group", g>> \in Lock
      BY <1>2 DEF Lock, LockKinds, Things
    <3>. QED
      BY <3>1, ElementsOf DEF GroupLock
  <2>2. /\ Shaped' /\ Typed(r)' /\ Turn(r) /\ Op(r)' = Op(r) /\ Unbegun(r)'
        /\ \/ Progress(r)
           \/ req'[r].at = "group" /\ Locks(r)' = {<<"group", g>>}
        /\ req'[r].who = req[r].who
    BY <1>0, <1>4, <2>1, Repeating DEF Stages
  <2>3. CASE req'[r].at = "group" /\ Locks(r)' = {<<"group", g>>}
    <3>1. EntryStaged(r)'
      BY <1>0, <1>2, <1>4, <2>2, <2>3 DEF EntryStaged, Stage, Inside, Roomy, Is, Group
    <3>. QED
      BY <1>0, <2>2, <3>1, FamilyStaged DEF Progress
  <2>. QED
    BY <2>2, <2>3
<1>. QED
  BY <1>1, <1>3, <1>4 DEF EnterShare, Answers

LEMMA CommitEntryProgress ==
    ASSUME Base, NEW r \in Reqs, CommitEntry(r)
    PROVE  Progress(r)
  BY Answering DEF CommitEntry, Answers

LEMMA BeginChangeProgress ==
    ASSUME Base, NEW r \in Reqs, BeginChange(r)
    PROVE  Progress(r)
<1>. DEFINE g == Group(r)
            p == personOf[Op(r).users[1]]
            rows == RowsOf(g, p)
            one == CHOOSE id \in rows : TRUE
            stage == IF Is(r, Edits) THEN "row" ELSE "group"
            locks == ChangeLocks(r, rows)
            next == [To(r, stage, locks) EXCEPT !.who = <<p>>, !.rows = rows, !.seen = Version(g, p)]
<1>0. /\ Shaped /\ Typed(r) /\ Staged(r) /\ RowTypes
      /\ At(r, "begin") /\ Is(r, Changes) /\ req[r].at = "begin"
  BY DEF Base, BeginChange, At
<1>1. CASE \E answer \in Answers : Answer(r, answer)
  BY <1>0, <1>1, Answering
<1>2. CASE Goes(r, next) /\ (rows # {} \/ Is(r, {"ban"}))
  <2>1. /\ g \in Groups /\ Op(r).users[1] \in Users /\ req[r].fresh = {}
    BY <1>0, Names DEF Is, Staged, Unbegun, Stage
  <2>2. p \in People /\ <<p>> \in Seq(People) /\ Len(<<p>>) = 1
    BY <1>0, <2>1 DEF RowTypes
  <2>3. rows \subseteq InGroup(g) /\ rows \subseteq RowIds /\ Version(g, p) \in Nat
    BY <1>0, Reads
  <2>4. CASE Is(r, Edits)
    <3>1. rows # {}
      BY <1>2, <2>4 DEF Is, Edits
    <3>2. one \in RowIds
      BY <2>3, <3>1
    <3>3. locks = <<<<"row", one>>>> /\ <<"row", one>> \in Lock
      <4>1. locks = <<<<"row", one>>>>
        BY <2>4 DEF ChangeLocks
      <4>. HIDE DEF one
      <4>2. <<"row", one>> \in Lock
        BY <3>2 DEF Lock, LockKinds, Things
      <4>. QED
        BY <4>1, <4>2
    <3>4. locks \in Seq(Lock) /\ Elements(locks) = {<<"row", one>>}
      BY <3>3, ElementsOf
    <3>5. /\ next \in Record(r) /\ next.at = "row" /\ next.todo = locks
          /\ next.answer = "none" /\ next.who = <<p>> /\ next.rows = rows /\ next.fresh = {}
      <4>. HIDE DEF locks, rows
      <4>. QED
        BY <2>1, <2>2, <2>3, <2>4, <3>4, <1>0 DEF To, Typed, Record, Op, Stages
    <3>6. /\ Shaped' /\ Typed(r)' /\ Turn(r) /\ Op(r)' = Op(r) /\ Unbegun(r)'
          /\ req'[r] = next /\ held'[r] = Locks(r)
          /\ Locks(r)' = Locks(r) \cup {<<"row", one>>}
      BY <3>4, <3>5, <1>0, <1>2, Going
    <3>7. ChangeStaged(r)'
      <4>. HIDE DEF next, rows
      <4>. QED
        BY <2>1, <2>2, <2>3, <2>4, <3>1, <3>5, <3>6 DEF ChangeStaged, Stage, Is, Group, Edits
    <3>. QED
      BY <1>0, <3>6, <3>7, FamilyStaged DEF Progress
  <2>5. CASE ~Is(r, Edits)
    <3>3. locks = <<<<"group", g>>>> /\ <<"group", g>> \in Lock
      BY <2>1, <2>5 DEF ChangeLocks, GroupLock, Lock, LockKinds, Things
    <3>4. locks \in Seq(Lock) /\ Elements(locks) = {<<"group", g>>}
      BY <3>3, ElementsOf
    <3>5. /\ next \in Record(r) /\ next.at = "group" /\ next.todo = locks
          /\ next.answer = "none" /\ next.who = <<p>> /\ next.rows = rows /\ next.fresh = {}
      <4>. HIDE DEF locks, rows
      <4>. QED
        BY <2>1, <2>2, <2>3, <2>5, <3>4, <1>0 DEF To, Typed, Record, Op, Stages
    <3>6. /\ Shaped' /\ Typed(r)' /\ Turn(r) /\ Op(r)' = Op(r) /\ Unbegun(r)'
          /\ req'[r] = next /\ held'[r] = Locks(r)
          /\ Locks(r)' = Locks(r) \cup {<<"group", g>>}
      BY <3>4, <3>5, <1>0, <1>2, Going
    <3>7. ChangeStaged(r)'
      <4>. HIDE DEF next, rows
      <4>. QED
        BY <1>2, <2>1, <2>2, <2>3, <2>5, <3>5, <3>6 DEF ChangeStaged, Stage, Is, Group
    <3>. QED
      BY <1>0, <3>6, <3>7, FamilyStaged DEF Progress
  <2>. QED
    BY <2>4, <2>5
<1>. QED
  BY <1>1, <1>2 DEF BeginChange, Answers

LEMMA ChangeGroupProgress ==
    ASSUME Base, NEW r \in Reqs, ChangeGroup(r)
    PROVE  Progress(r)
<1>. DEFINE g == Group(r)
            p == Person(r)
            rows == IF Is(r, {"ban"}) THEN RowsOf(g, p) ELSE req[r].rows
            found == Is(r, {"leave", "kick"}) \/ (Is(r, {"ban"}) /\ Status(g, p) = "active")
            next(order) == [To(r, "row", order) EXCEPT
                    !.rows = rows, !.fresh = IF rows = {} THEN {p} ELSE {}, !.found = found]
<1>0. /\ Shaped /\ Typed(r) /\ Staged(r) /\ RowTypes
      /\ At(r, "group") /\ Is(r, Changes) /\ req[r].at = "group" /\ ChangeStaged(r)
  BY DEF Base, ChangeGroup, At, Staged
<1>1. CASE Answer(r, "refused")
  BY <1>0, <1>1, Answering DEF Answers
<1>2. ASSUME NEW order \in Orders(RowLocks(rows)), Goes(r, next(order))
      PROVE  Progress(r)
  <2>1. /\ g \in Groups /\ <<"group", g>> \in Locks(r) /\ Len(req[r].who) = 1 /\ ~Is(r, Edits)
        /\ req[r].rows \subseteq InGroup(g) /\ (~Is(r, {"ban"}) => req[r].rows # {})
    BY <1>0, Names DEF Is, ChangeStaged, Stage
  <2>2. p \in People
    BY <1>0, <2>1, ElementOfSeq DEF Person, Typed, Record
  <2>3. rows \subseteq InGroup(g) /\ rows \subseteq RowIds /\ (~Is(r, {"ban"}) => rows # {})
    BY <1>0, <2>1, Reads DEF InGroup
  <2>4. order \in Seq(Lock) /\ Elements(order) = RowLocks(rows)
    BY <2>3, RowOrder
  <2>5. /\ next(order) \in Record(r) /\ next(order).at = "row" /\ next(order).todo = order
        /\ next(order).answer = "none" /\ next(order).who = req[r].who /\ next(order).rows = rows
        /\ next(order).fresh = IF rows = {} THEN {p} ELSE {}
    <3>1. found \in BOOLEAN
      BY DEF Is
    <3>. HIDE DEF rows, found
    <3>. QED
      BY <3>1, <2>2, <2>3, <2>4, <1>0 DEF To, Typed, Record, Op, Stages
  <2>6. /\ Shaped' /\ Typed(r)' /\ Turn(r) /\ Op(r)' = Op(r) /\ Unbegun(r)'
        /\ req'[r] = next(order) /\ held'[r] = Locks(r)
        /\ Locks(r)' = Locks(r) \cup RowLocks(rows)
    <3>. HIDE DEF next, rows
    <3>. QED
      BY <2>4, <2>5, <1>0, <1>2, Going
  <2>7. ChangeStaged(r)'
    <3>1. Person(r)' = p
      BY <2>5, <2>6 DEF Person
    <3>. HIDE DEF next, rows
    <3>. QED
      BY <3>1, <2>1, <2>2, <2>3, <2>5, <2>6 DEF ChangeStaged, Stage, Is, Group
  <2>. QED
    BY <1>0, <2>6, <2>7, FamilyStaged DEF Progress
<1>. QED
  BY <1>1, <1>2 DEF ChangeGroup

LEMMA ChangeRowProgress ==
    ASSUME Base, NEW r \in Reqs, ChangeRow(r)
    PROVE  Progress(r)
<1>. DEFINE g == Group(r)
            rows == req[r].rows
            one == CHOOSE id \in rows : TRUE
<1>0. /\ Shaped /\ Typed(r) /\ Staged(r) /\ RowTypes
      /\ At(r, "row") /\ Is(r, Changes) /\ req[r].at = "row" /\ ChangeStaged(r)
  BY DEF Base, ChangeRow, At, Staged
<1>1. CASE \E answer \in Answers : Answer(r, answer)
  BY <1>0, <1>1, Answering
<1>2. /\ g \in Groups /\ Len(req[r].who) = 1
      /\ rows \subseteq InGroup(g) /\ (~Is(r, {"ban"}) => rows # {})
      /\ req[r].fresh \subseteq {Person(r)} /\ (req[r].fresh # {} => rows = {} /\ Is(r, {"ban"}))
      /\ (Is(r, Edits) => <<"row", one>> \in Locks(r))
      /\ (~Is(r, Edits) => <<"group", g>> \in held[r] /\ RowLocks(rows) \subseteq Locks(r))
  BY <1>0, Names DEF ChangeStaged, Stage, Is
<1>3. CASE Is(r, Edits) /\ Goes(r, To(r, "commit", <<<<"share", g>>>>))
  <2>1. <<<<"share", g>>>> \in Seq(Lock) /\ Elements(<<<<"share", g>>>>) = {<<"share", g>>}
    <3>1. <<"share", g>> \in Lock
      BY <1>2 DEF Lock, LockKinds, Things
    <3>. QED
      BY <3>1, ElementsOf
  <2>2. Moved(r, "commit", {<<"share", g>>})
    BY <1>0, <1>3, <2>1, Moving DEF Stages
  <2>3. Person(r)' = Person(r)
    BY <2>2 DEF Moved, Person
  <2>4. ChangeStaged(r)'
    BY <1>0, <1>2, <1>3, <2>2, <2>3 DEF ChangeStaged, Stage, Moved
  <2>. QED
    BY <1>0, <2>2, <2>4, FamilyStaged DEF Progress, Moved
<1>4. ASSUME NEW order \in Orders(ShareLocks(Referred(r))), ~Is(r, Edits), Goes(r, To(r, "settle", order))
      PROVE  Progress(r)
  <2>1. order \in Seq(Lock) /\ Elements(order) = ShareLocks(Referred(r))
    BY <1>0, <1>2, ReferredOrder
  <2>2. Moved(r, "settle", ShareLocks(Referred(r)))
    BY <1>0, <1>4, <2>1, Moving DEF Stages
  <2>3. Person(r)' = Person(r)
    BY <2>2 DEF Moved, Person
  <2>4. ChangeStaged(r)'
    BY <1>0, <1>2, <1>4, <2>2, <2>3 DEF ChangeStaged, Stage, Moved, Locks
  <2>. QED
    BY <1>0, <2>2, <2>4, FamilyStaged DEF Progress, Moved
<1>. QED
  BY <1>1, <1>3, <1>4 DEF ChangeRow, Answers

LEMMA SettleProgress ==
    ASSUME Base, NEW r \in Reqs, Settle(r)
    PROVE  Progress(r)
<1>. DEFINE g == Group(r)
            rows == req[r].rows
            found == req[r].found /\ Empties(g, rows)
            next == [To(r, "commit", <<>>) EXCEPT !.found = found]
<1>0. /\ Shaped /\ Typed(r) /\ Staged(r) /\ RowTypes
      /\ At(r, "settle") /\ Is(r, Changes) /\ req[r].at = "settle" /\ ChangeStaged(r)
  BY DEF Base, Settle, At, Staged
<1>1. CASE Answer(r, "error")
  BY <1>0, <1>1, Answering DEF Answers
<1>2. /\ g \in Groups /\ Len(req[r].who) = 1 /\ ~Is(r, Edits)
      /\ rows \subseteq InGroup(g) /\ (~Is(r, {"ban"}) => rows # {})
      /\ req[r].fresh \subseteq {Person(r)} /\ (req[r].fresh # {} => rows = {} /\ Is(r, {"ban"}))
      /\ <<"group", g>> \in held[r] /\ RowLocks(rows) \subseteq held[r]
      /\ ShareLocks(Referred(r)) \subseteq Locks(r)
  BY <1>0, Names DEF ChangeStaged, Stage, Is
<1>3. CASE Goes(r, next)
  <2>1. /\ next \in Record(r) /\ next.at = "commit" /\ next.todo = <<>>
        /\ next.answer = "none" /\ next.who = req[r].who /\ next.rows = rows
        /\ next.fresh = req[r].fresh
    <3>1. found \in BOOLEAN /\ <<>> \in Seq(Lock)
      BY <1>0 DEF Typed, Record, Empties
    <3>. HIDE DEF found
    <3>. QED
      BY <3>1, <1>0 DEF To, Typed, Record, Op, Stages
  <2>2. /\ Shaped' /\ Typed(r)' /\ Turn(r) /\ Op(r)' = Op(r) /\ Unbegun(r)'
        /\ req'[r] = next /\ held'[r] = Locks(r)
    BY <2>1, <1>0, <1>3, Going
  <2>3. ChangeStaged(r)'
    <3>1. Person(r)' = Person(r) /\ Referred(r)' = Referred(r)
      BY <2>1, <2>2, ReferredSame DEF Person
    <3>. HIDE DEF next
    <3>. QED
      BY <3>1, <1>2, <2>1, <2>2 DEF ChangeStaged, Stage, Is, Group, Locks
  <2>. QED
    BY <1>0, <2>2, <2>3, FamilyStaged DEF Progress
<1>4. CASE Again(r, "group", GroupLock(g))
  <2>1. GroupLock(g) \in Seq(Lock) /\ Elements(GroupLock(g)) = {<<"group", g>>}
    <3>1. <<"group", g>> \in Lock
      BY <1>2 DEF Lock, LockKinds, Things
    <3>. QED
      BY <3>1, ElementsOf DEF GroupLock
  <2>2. /\ Shaped' /\ Typed(r)' /\ Turn(r) /\ Op(r)' = Op(r) /\ Unbegun(r)'
        /\ \/ Progress(r)
           \/ req'[r].at = "group" /\ Locks(r)' = {<<"group", g>>}
        /\ req'[r].who = req[r].who /\ req'[r].rows = rows
    BY <1>0, <1>4, <2>1, Repeating DEF Stages
  <2>3. CASE req'[r].at = "group" /\ Locks(r)' = {<<"group", g>>}
    <3>1. ChangeStaged(r)'
      BY <1>0, <1>2, <1>4, <2>2, <2>3 DEF ChangeStaged, Stage, Is, Group
    <3>. QED
      BY <1>0, <2>2, <3>1, FamilyStaged DEF Progress
  <2>. QED
    BY <2>2, <2>3
<1>. QED
  BY <1>1, <1>3, <1>4 DEF Settle

LEMMA CommitChangeProgress ==
    ASSUME Base, NEW r \in Reqs, CommitChange(r)
    PROVE  Progress(r)
  BY Answering DEF CommitChange, Answers

LEMMA BeginGroupProgress ==
    ASSUME Base, NEW r \in Reqs, BeginGroup(r)
    PROVE  Progress(r)
<1>. DEFINE g == Group(r)
<1>0. /\ Shaped /\ Typed(r) /\ At(r, "begin") /\ Is(r, GroupOps) /\ req[r].at = "begin"
  BY DEF Base, BeginGroup, At
<1>1. CASE \E answer \in Answers : Answer(r, answer)
  BY <1>0, <1>1, Answering
<1>2. g \in Groups
  BY <1>0, Names DEF Is
<1>3. /\ <<<<"erase", g>>>> \in Seq(Lock) /\ Elements(<<<<"erase", g>>>>) = {<<"erase", g>>}
      /\ GroupLock(g) \in Seq(Lock) /\ Elements(GroupLock(g)) = {<<"group", g>>}
      /\ <<>> \in Seq(Lock) /\ Elements(<<>>) = {}
  <2>1. <<"erase", g>> \in Lock /\ <<"group", g>> \in Lock
    BY <1>2 DEF Lock, LockKinds, Things
  <2>. QED
    BY <2>1, ElementsOf, EmptySeq DEF GroupLock
<1>4. CASE Is(r, {"erase"}) /\ Goes(r, To(r, "group", <<<<"erase", g>>>>))
  <2>1. Moved(r, "group", {<<"erase", g>>})
    BY <1>0, <1>3, <1>4, Moving DEF Stages
  <2>2. GroupStaged(r)'
    BY <1>4, <2>1 DEF GroupStaged, Stage, Moved, Is
  <2>. QED
    BY <1>0, <2>1, <2>2, FamilyStaged DEF Progress, Moved
<1>5. CASE Is(r, {"restore"}) /\ Goes(r, To(r, "list", <<>>))
  <2>1. Moved(r, "list", {})
    BY <1>0, <1>3, <1>5, Moving DEF Stages
  <2>2. GroupStaged(r)'
    BY <1>5, <2>1 DEF GroupStaged, Stage, Moved, Is
  <2>. QED
    BY <1>0, <2>1, <2>2, FamilyStaged DEF Progress, Moved
<1>6. CASE ~Is(r, {"erase"}) /\ ~Is(r, {"restore"}) /\ Goes(r, To(r, "group", GroupLock(g)))
  <2>1. Moved(r, "group", {<<"group", g>>})
    BY <1>0, <1>3, <1>6, Moving DEF Stages
  <2>2. GroupStaged(r)'
    BY <1>6, <2>1 DEF GroupStaged, Stage, Moved, Is
  <2>. QED
    BY <1>0, <2>1, <2>2, FamilyStaged DEF Progress, Moved
<1>. QED
  BY <1>1, <1>4, <1>5, <1>6 DEF BeginGroup, Answers

LEMMA RestoreListProgress ==
    ASSUME Base, NEW r \in Reqs, RestoreList(r)
    PROVE  Progress(r)
<1>. DEFINE g == Group(r)
            who == {p \in People : Status(g, p) = "active"}
            next(locks) == [To(r, "counts", locks) EXCEPT !.fresh = who]
<1>0. /\ Shaped /\ Typed(r) /\ At(r, "list") /\ Is(r, {"restore"}) /\ Is(r, GroupOps) /\ req[r].at = "list"
  BY DEF Base, RestoreList, At, Is, GroupOps
<1>2. ASSUME NEW locks \in CountLocks({KindOf[g]}, who), Goes(r, next(locks))
      PROVE  Progress(r)
  <2>1. g \in Groups
    BY <1>0, Names DEF Is
  <2>2. who \subseteq People
    OBVIOUS
  <2>3. locks \in Seq(Lock) /\ Elements(locks) = CountKeys({KindOf[g]}, who)
    BY <2>1, CountOrder DEF Kinds
  <2>4. /\ next(locks) \in Record(r) /\ next(locks).at = "counts" /\ next(locks).todo = locks
        /\ next(locks).answer = "none" /\ next(locks).fresh = who
    <3>. HIDE DEF who
    <3>. QED
      BY <2>2, <2>3, <1>0 DEF To, Typed, Record, Op, Stages
  <2>5. /\ Shaped' /\ Typed(r)' /\ Turn(r) /\ Op(r)' = Op(r) /\ Unbegun(r)'
        /\ req'[r] = next(locks) /\ held'[r] = Locks(r)
        /\ Locks(r)' = Locks(r) \cup Elements(locks)
    BY <2>4, <1>0, <1>2, Going
  <2>6. GroupStaged(r)'
    <3>. HIDE DEF next, who
    <3>. QED
      BY <1>0, <2>3, <2>4, <2>5 DEF GroupStaged, Stage, Is, Group
  <2>. QED
    BY <1>0, <2>5, <2>6, FamilyStaged DEF Progress
<1>. QED
  BY <1>2 DEF RestoreList

LEMMA RestoreCountsProgress ==
    ASSUME Base, NEW r \in Reqs, RestoreCounts(r)
    PROVE  Progress(r)
<1>. DEFINE g == Group(r)
<1>0. /\ Shaped /\ Typed(r) /\ At(r, "counts") /\ Is(r, {"restore"}) /\ Is(r, GroupOps) /\ req[r].at = "counts"
      /\ GroupStaged(r)
  BY DEF Base, RestoreCounts, At, Is, GroupOps, Staged
<1>1. CASE Answer(r, "refused")
  BY <1>0, <1>1, Answering DEF Answers
<1>2. CASE Goes(r, To(r, "group", GroupLock(g)))
  <2>1. g \in Groups
    BY <1>0, Names DEF Is
  <2>2. GroupLock(g) \in Seq(Lock) /\ Elements(GroupLock(g)) = {<<"group", g>>}
    <3>1. <<"group", g>> \in Lock
      BY <2>1 DEF Lock, LockKinds, Things
    <3>. QED
      BY <3>1, ElementsOf DEF GroupLock
  <2>3. Moved(r, "group", {<<"group", g>>})
    BY <1>0, <1>2, <2>2, Moving DEF Stages
  <2>4. GroupStaged(r)'
    BY <1>0, <2>3 DEF GroupStaged, Stage, Moved, Is, Locks
  <2>. QED
    BY <1>0, <2>3, <2>4, FamilyStaged DEF Progress, Moved
<1>. QED
  BY <1>1, <1>2 DEF RestoreCounts

LEMMA GroupLockedProgress ==
    ASSUME Base, NEW r \in Reqs, GroupLocked(r)
    PROVE  Progress(r)
<1>. DEFINE g == Group(r)
<1>0. /\ Shaped /\ Typed(r) /\ At(r, "group") /\ Is(r, GroupOps) /\ req[r].at = "group"
      /\ GroupStaged(r)
  BY DEF Base, GroupLocked, At, Staged
<1>1. CASE \E answer \in Answers : Answer(r, answer)
  BY <1>0, <1>1, Answering
<1>2. ASSUME NEW order \in Seq(Lock), Goes(r, To(r, "commit", order))
      PROVE  Progress(r)
  <2>3. Moved(r, "commit", Elements(order))
    BY <1>0, <1>2, Moving DEF Stages
  <2>4. GroupStaged(r)'
    BY <1>0, <2>3 DEF GroupStaged, Stage, Moved, Is, Locks
  <2>. QED
    BY <1>0, <2>3, <2>4, FamilyStaged DEF Progress, Moved
<1>3. \A order \in Orders(Cascade(g)) : order \in Seq(Lock)
  <2>1. g \in Groups
    BY <1>0, Names DEF Is
  <2>. QED
    BY <2>1, CascadeOrder
<1>4. <<>> \in Seq(Lock)
  BY EmptySeq
<1>. QED
  BY <1>1, <1>2, <1>3, <1>4 DEF GroupLocked, Answers

LEMMA CommitGroupProgress ==
    ASSUME Base, NEW r \in Reqs, CommitGroup(r)
    PROVE  Progress(r)
  BY Answering DEF CommitGroup, Answers

LEMMA BeginInviteProgress ==
    ASSUME Base, NEW r \in Reqs, BeginInvite(r)
    PROVE  Progress(r)
<1>. DEFINE i == Op(r).item
<1>0. /\ Shaped /\ Typed(r) /\ At(r, "begin") /\ Is(r, InviteOps) /\ req[r].at = "begin"
  BY DEF Base, BeginInvite, At
<1>1. CASE \E answer \in Answers : Answer(r, answer)
  BY <1>0, <1>1, Answering
<1>2. CASE Goes(r, To(r, "invite", <<<<"invite", i>>>>))
  <2>1. i \in Invites
    BY <1>0, Names DEF Is
  <2>2. <<<<"invite", i>>>> \in Seq(Lock) /\ Elements(<<<<"invite", i>>>>) = {<<"invite", i>>}
    <3>1. <<"invite", i>> \in Lock
      BY <2>1 DEF Lock, LockKinds, Things
    <3>. QED
      BY <3>1, ElementsOf
  <2>3. Moved(r, "invite", {<<"invite", i>>})
    BY <1>0, <1>2, <2>2, Moving DEF Stages
  <2>4. InviteStaged(r)'
    BY <2>3 DEF InviteStaged, Stage, Moved
  <2>. QED
    BY <1>0, <2>3, <2>4, FamilyStaged DEF Progress, Moved
<1>. QED
  BY <1>1, <1>2 DEF BeginInvite, Answers

LEMMA WriteInviteProgress ==
    ASSUME Base, NEW r \in Reqs, WriteInvite(r)
    PROVE  Progress(r)
  BY Answering DEF WriteInvite, Answers

-----------------------------------------------------------------------------
(* Friends                                                                 *)

Friendly == Sends \cup Answerings \cup Endings

\* The locks that the statements of Friends take.
LEMMA PairLocks ==
    ASSUME NEW x \in People, NEW y \in People
    PROVE  /\ Bond(x, y) \in Lock /\ Bond(y, x) \in Lock /\ Block(x, y) \in Lock
           /\ <<"share", x>> \in Lock /\ <<"share", y>> \in Lock
  BY DEF Bond, Block, Lock, LockKinds, Things

LEMMA Three ==
    ASSUME NEW a \in Lock, NEW b \in Lock, NEW c \in Lock
    PROVE  /\ Append(<<a, b>>, c) \in Seq(Lock)
           /\ Elements(Append(<<a, b>>, c)) = Elements(<<a, b>>) \cup {c}
           /\ <<a, b>> \in Seq(Lock) /\ Elements(<<a, b>>) = {a, b}
<1>1. <<a, b>> \in Seq(Lock) /\ Elements(<<a, b>>) = {a, b} /\ Len(<<a, b>>) = 2
  BY DEF Elements
<1>2. /\ Append(<<a, b>>, c) \in Seq(Lock) /\ Len(Append(<<a, b>>, c)) = 3
      /\ \A i \in 1 .. 2 : Append(<<a, b>>, c)[i] = <<a, b>>[i]
      /\ Append(<<a, b>>, c)[3] = c
  BY <1>1, AppendProperties
<1>3. Elements(Append(<<a, b>>, c)) = Elements(<<a, b>>) \cup {c}
  <2>1. 1 .. 3 = (1 .. 2) \cup {3}
    OBVIOUS
  <2>. QED
    BY <1>1, <1>2, <2>1 DEF Elements
<1>. QED
  BY <1>1, <1>2, <1>3

LEMMA PairOf ==
    ASSUME NEW r \in Reqs, Typed(r), Len(req[r].who) = 2
    PROVE  /\ req[r].who[1] \in People /\ req[r].who[2] \in People
           /\ Shares(r) \in Seq(Lock)
           /\ Elements(Shares(r)) = {<<"share", req[r].who[1]>>, <<"share", req[r].who[2]>>}
           /\ Append(Shares(r), Bond(req[r].who[2], req[r].who[1])) \in Seq(Lock)
           /\ Elements(Append(Shares(r), Bond(req[r].who[2], req[r].who[1])))
                 = Elements(Shares(r)) \cup {Bond(req[r].who[2], req[r].who[1])}
<1>. DEFINE x == req[r].who[1]
            y == req[r].who[2]
<1>1. x \in People /\ y \in People
  BY ElementOfSeq DEF Typed, Record
<1>2. <<"share", x>> \in Lock /\ <<"share", y>> \in Lock /\ Bond(y, x) \in Lock
  BY <1>1, PairLocks
<1>3. Shares(r) = <<<<"share", x>>, <<"share", y>>>>
  BY DEF Shares
<1>4. /\ Append(<<<<"share", x>>, <<"share", y>>>>, Bond(y, x)) \in Seq(Lock)
      /\ Elements(Append(<<<<"share", x>>, <<"share", y>>>>, Bond(y, x)))
            = Elements(<<<<"share", x>>, <<"share", y>>>>) \cup {Bond(y, x)}
      /\ <<<<"share", x>>, <<"share", y>>>> \in Seq(Lock)
      /\ Elements(<<<<"share", x>>, <<"share", y>>>>) = {<<"share", x>>, <<"share", y>>}
  BY <1>2, Three
<1>. QED
  BY <1>1, <1>3, <1>4

LEMMA BeginSendProgress ==
    ASSUME Base, NEW r \in Reqs, BeginSend(r)
    PROVE  Progress(r)
<1>. DEFINE x == personOf[Op(r).users[1]]
            y == personOf[Op(r).users[2]]
            next == [To(r, "insert", <<Bond(x, y)>>) EXCEPT !.who = <<x, y>>]
<1>0. /\ Shaped /\ Typed(r) /\ RowTypes
      /\ At(r, "begin") /\ Is(r, Sends) /\ Is(r, Friendly) /\ req[r].at = "begin"
  BY DEF Base, BeginSend, At, Is, Friendly
<1>1. CASE Answer(r, "refused")
  BY <1>0, <1>1, Answering DEF Answers
<1>2. CASE Goes(r, next)
  <2>1. Op(r).users[1] \in Users /\ Op(r).users[2] \in Users
    BY <1>0, Names DEF Is
  <2>2. x \in People /\ y \in People
    BY <2>1, <1>0 DEF RowTypes
  <2>3. <<Bond(x, y)>> \in Seq(Lock) /\ Elements(<<Bond(x, y)>>) = {Bond(x, y)}
    BY <2>2, PairLocks, ElementsOf
  <2>4. /\ next \in Record(r) /\ next.at = "insert" /\ next.todo = <<Bond(x, y)>>
        /\ next.answer = "none" /\ next.who = <<x, y>>
    <3>1. <<x, y>> \in Seq(People)
      BY <2>2
    <3>. QED
      BY <3>1, <2>2, <2>3, <1>0 DEF To, Typed, Record, Op, Stages
  <2>5. /\ Shaped' /\ Typed(r)' /\ Turn(r) /\ Op(r)' = Op(r) /\ Unbegun(r)'
        /\ req'[r] = next /\ held'[r] = Locks(r)
        /\ Locks(r)' = Locks(r) \cup {Bond(x, y)}
    BY <2>3, <2>4, <1>0, <1>2, Going
  <2>6. FriendStaged(r)'
    <3>1. Len(<<x, y>>) = 2 /\ <<x, y>>[1] = x /\ <<x, y>>[2] = y
      OBVIOUS
    <3>2. ~Is(r, Answerings) /\ ~Is(r, Endings) /\ ~Is(r, {"accept_friend", "block", "unblock", "unfriend"})
      BY <1>0 DEF Is, Sends, Answerings, Endings
    <3>. HIDE DEF next
    <3>. QED
      BY <3>1, <3>2, <1>0, <2>4, <2>5 DEF FriendStaged, Stage, Is
  <2>. QED
    BY <1>0, <2>5, <2>6, FamilyStaged DEF Progress, Friendly
<1>. QED
  BY <1>1, <1>2 DEF BeginSend

LEMMA SendRowProgress ==
    ASSUME Base, NEW r \in Reqs, SendRow(r)
    PROVE  Progress(r)
<1>. DEFINE x == req[r].who[1]
            y == req[r].who[2]
<1>0. /\ Shaped /\ Typed(r) /\ RowTypes /\ FriendStaged(r)
      /\ At(r, "insert") /\ Is(r, Sends) /\ Is(r, Friendly) /\ req[r].at = "insert"
  BY DEF Base, SendRow, At, Is, Friendly, Staged
<1>1. CASE Answer(r, "refused")
  BY <1>0, <1>1, Answering DEF Answers
<1>2. Len(req[r].who) = 2 /\ Bond(x, y) \in Locks(r)
  BY <1>0 DEF FriendStaged, Stage, Is
<1>3. ~Is(r, Answerings) /\ ~Is(r, Endings) /\ ~Is(r, {"accept_friend", "block", "unblock", "unfriend"})
      /\ (Is(r, {"befriend"}) <=> ~Is(r, {"send"}))
  BY <1>0 DEF Is, Sends, Answerings, Endings
<1>4. CASE Is(r, {"send"}) /\ Goes(r, To(r, "people", Shares(r)))
  <2>1. Moved(r, "people", {<<"share", x>>, <<"share", y>>})
    <3>1. /\ Shares(r) \in Seq(Lock)
          /\ Elements(Shares(r)) = {<<"share", x>>, <<"share", y>>}
      BY <1>0, <1>2, PairOf
    <3>. QED
      BY <1>0, <1>4, <3>1, Moving DEF Stages
  <2>2. FriendStaged(r)'
    BY <1>0, <1>2, <1>3, <1>4, <2>1 DEF FriendStaged, Stage, Moved, Is, Bond, Block
  <2>. QED
    BY <1>0, <2>1, <2>2, FamilyStaged DEF Progress, Friendly, Moved
<1>5. CASE Is(r, {"befriend"}) /\ Goes(r, To(r, "mirror", Append(Shares(r), Bond(y, x))))
  <2>1. Moved(r, "mirror", {<<"share", x>>, <<"share", y>>} \cup {Bond(y, x)})
    <3>1. /\ Append(Shares(r), Bond(y, x)) \in Seq(Lock)
          /\ Elements(Append(Shares(r), Bond(y, x))) = {<<"share", x>>, <<"share", y>>} \cup {Bond(y, x)}
      BY <1>0, <1>2, PairOf
    <3>. QED
      BY <1>0, <1>5, <3>1, Moving DEF Stages
  <2>2. FriendStaged(r)'
    BY <1>0, <1>2, <1>3, <1>5, <2>1 DEF FriendStaged, Stage, Moved, Is, Bond, Block
  <2>. QED
    BY <1>0, <2>1, <2>2, FamilyStaged DEF Progress, Friendly, Moved
<1>. QED
  BY <1>1, <1>3, <1>4, <1>5 DEF SendRow

LEMMA MirrorRowProgress ==
    ASSUME Base, NEW r \in Reqs, MirrorRow(r)
    PROVE  Progress(r)
<1>. DEFINE x == req[r].who[1]
            y == req[r].who[2]
<1>0. /\ Shaped /\ Typed(r) /\ RowTypes /\ FriendStaged(r)
      /\ At(r, "mirror") /\ Is(r, {"befriend", "accept_friend"}) /\ Is(r, Friendly) /\ req[r].at = "mirror"
  BY DEF Base, MirrorRow, At, Is, Friendly, Staged, Sends, Answerings
<1>1. CASE Answer(r, "refused")
  BY <1>0, <1>1, Answering DEF Answers
<1>2. Len(req[r].who) = 2 /\ Bond(x, y) \in held[r] /\ Bond(y, x) \in Locks(r)
      /\ Is(r, Sends \cup {"accept_friend"})
  BY <1>0 DEF FriendStaged, Stage, Is, Sends, Answerings
<1>3. CASE Goes(r, To(r, "people", Shares(r)))
  <2>1. Moved(r, "people", {<<"share", x>>, <<"share", y>>})
    <3>1. /\ Shares(r) \in Seq(Lock)
          /\ Elements(Shares(r)) = {<<"share", x>>, <<"share", y>>}
      BY <1>0, <1>2, PairOf
    <3>. QED
      BY <1>0, <1>3, <3>1, Moving DEF Stages
  <2>2. Bond(x, y) \in Locks(r)
    BY <1>2 DEF Locks
  <2>3. ~Is(r, Endings) /\ ~Is(r, {"block", "unblock", "unfriend"})
    BY <1>0 DEF Is, Endings
  <2>4. FriendStaged(r)'
    BY <1>0, <1>2, <2>1, <2>2, <2>3 DEF FriendStaged, Stage, Moved, Is, Bond, Block, Sends, Answerings
  <2>. QED
    BY <1>0, <2>1, <2>4, FamilyStaged DEF Progress, Friendly, Moved
<1>. QED
  BY <1>1, <1>3 DEF MirrorRow

LEMMA RelatedPeopleProgress ==
    ASSUME Base, NEW r \in Reqs, RelatedPeople(r)
    PROVE  Progress(r)
<1>. DEFINE x == req[r].who[1]
            y == req[r].who[2]
<1>0. /\ Shaped /\ Typed(r) /\ RowTypes /\ FriendStaged(r)
      /\ At(r, "people") /\ Is(r, Sends \cup {"accept_friend"}) /\ Is(r, Friendly) /\ req[r].at = "people"
  BY DEF Base, RelatedPeople, At, Is, Friendly, Staged, Sends, Answerings
<1>1. CASE Answer(r, "error")
  BY <1>0, <1>1, Answering DEF Answers
<1>2. /\ Len(req[r].who) = 2 /\ Bond(x, y) \in held[r]
      /\ (Is(r, {"befriend", "accept_friend"}) => Bond(y, x) \in held[r])
      /\ {<<"share", x>>, <<"share", y>>} \subseteq Locks(r)
  BY <1>0 DEF FriendStaged, Stage, Is, Sends, Answerings
<1>3. CASE Goes(r, To(r, "commit", <<>>))
  <2>1. Moved(r, "commit", {})
    BY <1>0, <1>3, NoLocks, Moving DEF Stages
  <2>3. ~Is(r, Endings) /\ ~Is(r, {"block", "unblock", "unfriend"})
    BY <1>0 DEF Is, Endings, Sends
  <2>4. FriendStaged(r)'
    BY <1>0, <1>2, <2>1, <2>3 DEF FriendStaged, Stage, Moved, Is, Bond, Block, Locks
  <2>. QED
    BY <1>0, <2>1, <2>4, FamilyStaged DEF Progress, Friendly, Moved
<1>. QED
  BY <1>1, <1>3 DEF RelatedPeople

LEMMA CommitSendProgress ==
    ASSUME Base, NEW r \in Reqs, CommitSend(r)
    PROVE  Progress(r)
  BY Answering DEF CommitSend, Answers

LEMMA BeginAnswerProgress ==
    ASSUME Base, NEW r \in Reqs, BeginAnswer(r)
    PROVE  Progress(r)
<1>0. /\ Shaped /\ Typed(r) /\ RowTypes
      /\ At(r, "begin") /\ Is(r, Answerings) /\ Is(r, Friendly) /\ req[r].at = "begin"
  BY DEF Base, BeginAnswer, At, Is, Friendly
<1>1. CASE Answer(r, "refused")
  BY <1>0, <1>1, Answering DEF Answers
<1>2. ASSUME NEW row \in relation,
             Goes(r, [To(r, "request", <<Bond(row.from, row.to)>>) EXCEPT !.who = <<row.from, row.to>>])
      PROVE  Progress(r)
  <2>. DEFINE x == row.from
              y == row.to
              next == [To(r, "request", <<Bond(x, y)>>) EXCEPT !.who = <<x, y>>]
  <2>2. x \in People /\ y \in People
    BY <1>0 DEF RowTypes
  <2>. HIDE DEF x, y
  <2>3. <<Bond(x, y)>> \in Seq(Lock) /\ Elements(<<Bond(x, y)>>) = {Bond(x, y)}
    BY <2>2, PairLocks, ElementsOf
  <2>4. /\ next \in Record(r) /\ next.at = "request" /\ next.todo = <<Bond(x, y)>>
        /\ next.answer = "none" /\ next.who = <<x, y>>
    <3>1. <<x, y>> \in Seq(People)
      BY <2>2
    <3>. QED
      BY <3>1, <2>2, <2>3, <1>0 DEF To, Typed, Record, Op, Stages
  <2>5. /\ Shaped' /\ Typed(r)' /\ Turn(r) /\ Op(r)' = Op(r) /\ Unbegun(r)'
        /\ req'[r] = next /\ held'[r] = Locks(r)
        /\ Locks(r)' = Locks(r) \cup {Bond(x, y)}
    <3>1. Goes(r, next)
      BY <1>2 DEF x, y
    <3>. QED
      BY <2>3, <2>4, <1>0, <3>1, Going
  <2>6. FriendStaged(r)'
    <3>1. Len(<<x, y>>) = 2 /\ <<x, y>>[1] = x /\ <<x, y>>[2] = y
      OBVIOUS
    <3>2. ~Is(r, Sends) /\ ~Is(r, Endings) /\ ~Is(r, {"block", "unblock", "unfriend"})
      BY <1>0 DEF Is, Sends, Answerings, Endings
    <3>. HIDE DEF next
    <3>. QED
      BY <3>1, <3>2, <1>0, <2>4, <2>5 DEF FriendStaged, Stage, Is
  <2>. QED
    BY <1>0, <2>5, <2>6, FamilyStaged DEF Progress, Friendly
<1>. QED
  BY <1>1, <1>2 DEF BeginAnswer, Pending, WithId

LEMMA AnswerRowProgress ==
    ASSUME Base, NEW r \in Reqs, AnswerRow(r)
    PROVE  Progress(r)
<1>. DEFINE x == req[r].who[1]
            y == req[r].who[2]
<1>0. /\ Shaped /\ Typed(r) /\ RowTypes /\ FriendStaged(r)
      /\ At(r, "request") /\ Is(r, Answerings) /\ Is(r, Friendly) /\ req[r].at = "request"
  BY DEF Base, AnswerRow, At, Is, Friendly, Staged
<1>1. CASE Answer(r, "refused")
  BY <1>0, <1>1, Answering DEF Answers
<1>2. /\ Len(req[r].who) = 2 /\ Bond(x, y) \in Locks(r)
      /\ ~Is(r, Sends) /\ ~Is(r, Endings) /\ ~Is(r, {"befriend", "block", "unblock", "unfriend"})
      /\ (Is(r, {"withdraw"}) <=> ~Is(r, {"accept_friend"}))
  BY <1>0 DEF FriendStaged, Stage, Is, Sends, Answerings, Endings
<1>3. CASE Is(r, {"withdraw"}) /\ Goes(r, To(r, "commit", <<>>))
  <2>1. Moved(r, "commit", {})
    BY <1>0, <1>3, NoLocks, Moving DEF Stages
  <2>4. FriendStaged(r)'
    BY <1>0, <1>2, <1>3, <2>1 DEF FriendStaged, Stage, Moved, Is, Bond, Locks
  <2>. QED
    BY <1>0, <2>1, <2>4, FamilyStaged DEF Progress, Friendly, Moved
<1>4. CASE Is(r, {"accept_friend"}) /\ Goes(r, To(r, "mirror", <<Bond(y, x)>>))
  <2>1. Moved(r, "mirror", {Bond(y, x)})
    <3>1. x \in People /\ y \in People
      BY <1>0, <1>2, PairOf
    <3>2. <<Bond(y, x)>> \in Seq(Lock) /\ Elements(<<Bond(y, x)>>) = {Bond(y, x)}
      BY <3>1, PairLocks, ElementsOf
    <3>. QED
      BY <1>0, <1>4, <3>2, Moving DEF Stages
  <2>4. FriendStaged(r)'
    BY <1>0, <1>2, <1>4, <2>1 DEF FriendStaged, Stage, Moved, Is, Bond, Locks
  <2>. QED
    BY <1>0, <2>1, <2>4, FamilyStaged DEF Progress, Friendly, Moved
<1>. QED
  BY <1>1, <1>2, <1>3, <1>4 DEF AnswerRow

LEMMA CommitAnswerProgress ==
    ASSUME Base, NEW r \in Reqs, CommitAnswer(r)
    PROVE  Progress(r)
  BY Answering DEF CommitAnswer, Answers

LEMMA BeginEndingProgress ==
    ASSUME Base, NEW r \in Reqs, BeginEnding(r)
    PROVE  Progress(r)
<1>. DEFINE x == personOf[Op(r).users[1]]
            y == personOf[Op(r).users[2]]
            rows == IF Is(r, {"unblock"}) THEN Related(x, y, {"blocked"}) ELSE {}
            next(stage, locks) == [To(r, stage, locks) EXCEPT !.who = <<x, y>>, !.rows = rows]
<1>0. /\ Shaped /\ Typed(r) /\ RowTypes
      /\ At(r, "begin") /\ Is(r, Endings) /\ Is(r, Friendly) /\ req[r].at = "begin"
      /\ ~Is(r, Sends) /\ ~Is(r, Answerings) /\ ~Is(r, {"accept_friend", "befriend"})
  BY DEF Base, BeginEnding, At, Is, Friendly, Sends, Answerings, Endings
<1>1. CASE \E answer \in Answers : Answer(r, answer)
  BY <1>0, <1>1, Answering
<1>2. /\ x \in People /\ y \in People /\ <<x, y>> \in Seq(People) /\ Len(<<x, y>>) = 2
      /\ <<x, y>>[1] = x /\ <<x, y>>[2] = y /\ rows \subseteq Relations
  <2>1. Op(r).users[1] \in Users /\ Op(r).users[2] \in Users
    BY <1>0, Names DEF Is
  <2>2. x \in People /\ y \in People
    BY <2>1, <1>0 DEF RowTypes
  <2>3. rows \subseteq Relations
    BY <1>0 DEF RowTypes, Related, Relations
  <2>. QED
    BY <2>2, <2>3
<1>3. <<Block(x, y)>> \in Seq(Lock) /\ Elements(<<Block(x, y)>>) = {Block(x, y)}
  BY <1>2, PairLocks, ElementsOf
<1>. HIDE DEF x, y, rows
<1>4. ASSUME NEW stage \in {"delete", "insert", "unblock"}, NEW locks \in Seq(Lock), Goes(r, next(stage, locks)),
             Is(r, {"unfriend"}) => stage = "delete",
             Is(r, {"block"}) => stage = "insert" /\ Block(x, y) \in Elements(locks),
             Is(r, {"unblock"}) => stage = "unblock" /\ Block(x, y) \in Elements(locks)
      PROVE  Progress(r)
  <2>4. /\ next(stage, locks) \in Record(r) /\ next(stage, locks).at = stage /\ next(stage, locks).todo = locks
        /\ next(stage, locks).answer = "none" /\ next(stage, locks).who = <<x, y>>
        /\ next(stage, locks).rows = rows
    BY <1>2, <1>0 DEF To, Typed, Record, Op, Stages
  <2>5. /\ Shaped' /\ Typed(r)' /\ Turn(r) /\ Op(r)' = Op(r) /\ Unbegun(r)'
        /\ req'[r] = next(stage, locks) /\ held'[r] = Locks(r)
        /\ Locks(r)' = Locks(r) \cup Elements(locks)
    BY <2>4, <1>0, <1>4, Going
  <2>6. FriendStaged(r)'
    <3>1. Is(r, {"unfriend"}) \/ Is(r, {"block"}) \/ Is(r, {"unblock"})
      BY <1>0 DEF Is, Endings
    <3>. HIDE DEF next
    <3>. QED
      BY <1>0, <1>2, <1>4, <2>4, <2>5, <3>1 DEF FriendStaged, Stage, Is
  <2>. QED
    BY <1>0, <2>5, <2>6, FamilyStaged DEF Progress, Friendly
<1>5. \/ \E answer \in Answers : Answer(r, answer)
      \/ Is(r, {"unfriend"}) /\ Goes(r, next("delete", <<>>))
      \/ Is(r, {"block"}) /\ Goes(r, next("insert", <<Block(x, y)>>))
      \/ Is(r, {"unblock"}) /\ Goes(r, next("unblock", <<Block(x, y)>>))
  <2>1. Is(r, {"unfriend"}) \/ Is(r, {"block"}) \/ Is(r, {"unblock"})
    BY <1>0 DEF Is, Endings
  <2>. QED
    BY <2>1 DEF BeginEnding, Answers, x, y, rows
<1>6. /\ Is(r, {"unfriend"}) => ~Is(r, {"block"}) /\ ~Is(r, {"unblock"})
      /\ Is(r, {"block"}) => ~Is(r, {"unfriend"}) /\ ~Is(r, {"unblock"})
      /\ Is(r, {"unblock"}) => ~Is(r, {"block"}) /\ ~Is(r, {"unfriend"})
  BY DEF Is
<1>7. CASE Is(r, {"unfriend"}) /\ Goes(r, next("delete", <<>>))
  BY <1>4, <1>6, <1>7, NoLocks
<1>8. CASE Is(r, {"block"}) /\ Goes(r, next("insert", <<Block(x, y)>>))
  BY <1>3, <1>4, <1>6, <1>8
<1>9. CASE Is(r, {"unblock"}) /\ Goes(r, next("unblock", <<Block(x, y)>>))
  BY <1>3, <1>4, <1>6, <1>9
<1>. QED
  BY <1>1, <1>5, <1>7, <1>8, <1>9

LEMMA BlockRowProgress ==
    ASSUME Base, NEW r \in Reqs, BlockRow(r)
    PROVE  Progress(r)
<1>. DEFINE x == req[r].who[1]
            y == req[r].who[2]
<1>0. /\ Shaped /\ Typed(r) /\ RowTypes /\ FriendStaged(r)
      /\ At(r, "insert") /\ Is(r, {"block"}) /\ Is(r, Friendly) /\ req[r].at = "insert"
  BY DEF Base, BlockRow, At, Is, Friendly, Staged, Endings
<1>1. CASE \E answer \in {"same", "error"} : Answer(r, answer)
  BY <1>0, <1>1, Answering DEF Answers
<1>2. Len(req[r].who) = 2 /\ Block(x, y) \in Locks(r) /\ Is(r, Endings)
      /\ ~Is(r, Sends) /\ ~Is(r, Answerings) /\ ~Is(r, {"befriend", "accept_friend", "unblock"})
  BY <1>0 DEF FriendStaged, Stage, Is, Sends, Answerings, Endings
<1>3. CASE Goes(r, To(r, "delete", Shares(r)))
  <2>1. Moved(r, "delete", {<<"share", x>>, <<"share", y>>})
    <3>1. /\ Shares(r) \in Seq(Lock)
          /\ Elements(Shares(r)) = {<<"share", x>>, <<"share", y>>}
      BY <1>0, <1>2, PairOf
    <3>. QED
      BY <1>0, <1>3, <3>1, Moving DEF Stages
  <2>4. FriendStaged(r)'
    BY <1>0, <1>2, <2>1 DEF FriendStaged, Stage, Moved, Is, Block
  <2>. QED
    BY <1>0, <2>1, <2>4, FamilyStaged DEF Progress, Friendly, Moved
<1>. QED
  BY <1>1, <1>3 DEF BlockRow

LEMMA DeleteBetweenProgress ==
    ASSUME Base, NEW r \in Reqs, DeleteBetween(r)
    PROVE  Progress(r)
<1>. DEFINE x == req[r].who[1]
            y == req[r].who[2]
            rows == Between(x, y, IF Is(r, {"block"}) THEN {"friend", "request"} ELSE {"friend"})
            next(order) == [To(r, "deleted", order) EXCEPT !.rows = rows]
<1>0. /\ Shaped /\ Typed(r) /\ RowTypes /\ FriendStaged(r)
      /\ At(r, "delete") /\ Is(r, {"unfriend", "block"}) /\ Is(r, Friendly) /\ req[r].at = "delete"
  BY DEF Base, DeleteBetween, At, Is, Friendly, Staged, Endings
<1>1. CASE Answer(r, "error")
  BY <1>0, <1>1, Answering DEF Answers
<1>2. /\ Len(req[r].who) = 2
      /\ (Is(r, {"block"}) => Block(x, y) \in held[r] /\ {<<"share", x>>, <<"share", y>>} \subseteq Locks(r))
      /\ ~Is(r, Sends) /\ ~Is(r, Answerings) /\ ~Is(r, {"befriend", "accept_friend", "unblock"})
  BY <1>0 DEF FriendStaged, Stage, Is, Sends, Answerings, Endings
<1>3. ASSUME NEW order \in Orders(Bonds(rows)), Goes(r, next(order))
      PROVE  Progress(r)
  <2>1. rows \subseteq Relations
    BY <1>0 DEF RowTypes, Between, Related, Relations
  <2>2. order \in Seq(Lock) /\ Elements(order) = Bonds(rows)
    BY <2>1, BondOrder
  <2>. HIDE DEF rows
  <2>4. /\ next(order) \in Record(r) /\ next(order).at = "deleted" /\ next(order).todo = order
        /\ next(order).answer = "none" /\ next(order).who = req[r].who
        /\ next(order).rows = rows
    BY <2>1, <2>2, <1>0 DEF To, Typed, Record, Op, Stages
  <2>5. /\ Shaped' /\ Typed(r)' /\ Turn(r) /\ Op(r)' = Op(r) /\ Unbegun(r)'
        /\ req'[r] = next(order) /\ held'[r] = Locks(r)
        /\ Locks(r)' = Locks(r) \cup Bonds(rows)
    BY <2>2, <2>4, <1>0, <1>3, Going
  <2>6. FriendStaged(r)'
    <3>. HIDE DEF next
    <3>. QED
      BY <1>0, <1>2, <2>1, <2>4, <2>5 DEF FriendStaged, Stage, Is, Locks
  <2>. QED
    BY <1>0, <2>5, <2>6, FamilyStaged DEF Progress, Friendly
<1>. QED
  BY <1>1, <1>3 DEF DeleteBetween

LEMMA DeletedProgress ==
    ASSUME Base, NEW r \in Reqs, Deleted(r)
    PROVE  Progress(r)
<1>0. /\ Shaped /\ Typed(r) /\ RowTypes /\ FriendStaged(r)
      /\ At(r, "deleted") /\ Is(r, {"unfriend", "block"}) /\ Is(r, Friendly) /\ req[r].at = "deleted"
  BY DEF Base, Deleted, At, Is, Friendly, Staged, Endings
<1>1. CASE Answer(r, "refused")
  BY <1>0, <1>1, Answering DEF Answers
<1>2. ~Is(r, Sends) /\ ~Is(r, Answerings) /\ ~Is(r, {"befriend", "accept_friend", "unblock"})
  BY <1>0 DEF Is, Sends, Answerings
<1>3. CASE Goes(r, To(r, "commit", <<>>))
  <2>1. Moved(r, "commit", {})
    BY <1>0, <1>3, NoLocks, Moving DEF Stages
  <2>4. FriendStaged(r)'
    BY <1>0, <1>2, <2>1 DEF FriendStaged, Stage, Moved, Is, Locks
  <2>. QED
    BY <1>0, <2>1, <2>4, FamilyStaged DEF Progress, Friendly, Moved
<1>. QED
  BY <1>1, <1>3 DEF Deleted

LEMMA UnblockProgress ==
    ASSUME Base, NEW r \in Reqs, Unblock(r)
    PROVE  Progress(r)
<1>0. /\ Shaped /\ Typed(r) /\ RowTypes /\ FriendStaged(r)
      /\ At(r, "unblock") /\ Is(r, {"unblock"}) /\ Is(r, Friendly) /\ req[r].at = "unblock"
  BY DEF Base, Unblock, At, Is, Friendly, Staged, Endings
<1>1. CASE Answer(r, "refused")
  BY <1>0, <1>1, Answering DEF Answers
<1>2. ~Is(r, Sends) /\ ~Is(r, Answerings) /\ ~Is(r, {"befriend", "accept_friend", "block", "unfriend"})
  BY <1>0 DEF Is, Sends, Answerings
<1>3. CASE Goes(r, To(r, "commit", <<>>))
  <2>1. Moved(r, "commit", {})
    BY <1>0, <1>3, NoLocks, Moving DEF Stages
  <2>4. FriendStaged(r)'
    BY <1>0, <1>2, <2>1 DEF FriendStaged, Stage, Moved, Is, Locks
  <2>. QED
    BY <1>0, <2>1, <2>4, FamilyStaged DEF Progress, Friendly, Moved
<1>. QED
  BY <1>1, <1>3 DEF Unblock

LEMMA CommitEndingProgress ==
    ASSUME Base, NEW r \in Reqs, CommitEnding(r)
    PROVE  Progress(r)
  BY Answering DEF CommitEnding, Answers

\* A request in a cycle of waits has begun and not been answered.
LEMMA Waits ==
    ASSUME Base, NEW r \in Reqs, InCycle(r)
    PROVE  Stage(r) \notin {"begin", "done"}
<1>1. req[r].todo # <<>>
  BY DEF InCycle, Cycle, Deadlocked
<1>2. Unbegun(r)
  BY DEF Base, Staged
<1>. QED
  BY <1>1, <1>2 DEF Unbegun

LEMMA VictimProgress ==
    ASSUME Base, NEW r \in Reqs, Victim(r)
    PROVE  /\ Progress(r) /\ req'[r].at = "done" /\ req'[r].answer = "error"
<1>1. Shaped /\ Typed(r) /\ req[r].at # "done" /\ Answer(r, "error")
  BY Waits DEF Base, Victim, Stage
<1>. QED
  BY <1>1, AnswerTurn, DoneStaged DEF Progress, Answers, Stage

LEMMA UnfriendAgainProgress ==
    ASSUME Base, NEW r \in Reqs, UnfriendAgain(r)
    PROVE  Progress(r)
<1>0. /\ Shaped /\ Typed(r) /\ FriendStaged(r) /\ Stage(r) \notin {"begin", "done"}
      /\ Is(r, {"unfriend"}) /\ Is(r, Friendly) /\ Again(r, "delete", <<>>)
  BY Waits DEF Base, UnfriendAgain, Is, Friendly, Staged, Endings
<1>1. Len(req[r].who) = 2
  BY <1>0 DEF FriendStaged, Friendly
<1>2. /\ Shaped' /\ Typed(r)' /\ Turn(r) /\ held'[r] = {} /\ Op(r)' = Op(r)
      /\ \/ req'[r].at = "done" /\ req'[r].todo = <<>>
         \/ req'[r].at = "delete"
      /\ req'[r].who = req[r].who
  BY <1>0, AgainTurn, NoLocks DEF Stages, Stage
<1>3. CASE req'[r].at = "done" /\ req'[r].todo = <<>>
  BY <1>2, <1>3, DoneStaged DEF Progress, Stage
<1>4. CASE req'[r].at = "delete"
  <2>1. Unbegun(r)'
    BY <1>4 DEF Unbegun, Stage
  <2>2. FriendStaged(r)'
    BY <1>0, <1>1, <1>2, <1>4 DEF FriendStaged, Stage, Is, Sends, Answerings
  <2>. QED
    BY <1>0, <1>2, <2>1, <2>2, FamilyStaged DEF Progress, Friendly
<1>. QED
  BY <1>2, <1>3, <1>4

-----------------------------------------------------------------------------
(* Links                                                                   *)

LEMMA CodesRead ==
    ASSUME NEW u
    PROVE  CodesOf(u) \subseteq Codes /\ \A order \in Orders(CodeLocks(CodesOf(u))) :
                order \in Seq(Lock) /\ Elements(order) = CodeLocks(CodesOf(u))
<1>1. CodesOf(u) \subseteq Codes
  BY DEF CodesOf
<1>. QED
  BY <1>1, CodeOrder

LEMMA BeginIssueProgress ==
    ASSUME Base, NEW r \in Reqs, BeginIssue(r)
    PROVE  Progress(r)
<1>. DEFINE u == Op(r).users[1]
            next(order) == [To(r, "code", order) EXCEPT !.rows = CodesOf(u)]
<1>0. /\ Shaped /\ Typed(r) /\ RowTypes
      /\ At(r, "begin") /\ Is(r, {"issue"}) /\ Is(r, LinkOps) /\ req[r].at = "begin"
  BY DEF Base, BeginIssue, At, Is, LinkOps
<1>1. CASE Answer(r, "refused")
  BY <1>0, <1>1, Answering DEF Answers
<1>3. ASSUME NEW order \in Orders(CodeLocks(CodesOf(u))), Goes(r, next(order))
      PROVE  Progress(r)
  <2>1. CodesOf(u) \subseteq Codes /\ order \in Seq(Lock) /\ Elements(order) = CodeLocks(CodesOf(u))
    BY CodesRead
  <2>4. /\ next(order) \in Record(r) /\ next(order).at = "code" /\ next(order).todo = order
        /\ next(order).answer = "none" /\ next(order).rows = CodesOf(u)
    BY <2>1, <1>0 DEF To, Typed, Record, Op, Stages
  <2>5. /\ Shaped' /\ Typed(r)' /\ Turn(r) /\ Op(r)' = Op(r) /\ Unbegun(r)'
        /\ req'[r] = next(order) /\ held'[r] = Locks(r)
        /\ Locks(r)' = Locks(r) \cup CodeLocks(CodesOf(u))
    BY <2>1, <2>4, <1>0, <1>3, Going
  <2>6. LinkStaged(r)'
    <3>. HIDE DEF next
    <3>1. req'[r].rows = CodesOf(u) /\ req'[r].at = "code"
      BY <2>4, <2>5
    <3>2. CodeLocks(req[r].rows)' = CodeLocks(CodesOf(u))
      BY <3>1 DEF CodeLocks
    <3>. QED
      BY <1>0, <2>1, <2>5, <3>1, <3>2 DEF LinkStaged, Stage, Is
  <2>. QED
    BY <1>0, <2>5, <2>6, FamilyStaged DEF Progress
<1>. QED
  BY <1>1, <1>3 DEF BeginIssue

LEMMA CommitIssueProgress ==
    ASSUME Base, NEW r \in Reqs, CommitIssue(r)
    PROVE  Progress(r)
  BY Answering DEF CommitIssue, Answers

LEMMA BeginRedeemProgress ==
    ASSUME Base, NEW r \in Reqs, BeginRedeem(r)
    PROVE  Progress(r)
<1>. DEFINE p == personOf[Op(r).users[1]]
            next == [To(r, "issuer", <<>>) EXCEPT !.who = <<p>>]
<1>0. /\ Shaped /\ Typed(r) /\ RowTypes
      /\ At(r, "begin") /\ Is(r, {"redeem"}) /\ Is(r, LinkOps) /\ req[r].at = "begin"
  BY DEF Base, BeginRedeem, At, Is, LinkOps
<1>1. CASE Answer(r, "refused")
  BY <1>0, <1>1, Answering DEF Answers
<1>2. CASE Goes(r, next)
  <2>1. p \in People /\ <<p>> \in Seq(People) /\ Len(<<p>>) = 1
    <3>1. Op(r).users[1] \in Users
      BY <1>0, Names DEF Is
    <3>. QED
      BY <3>1, <1>0 DEF RowTypes
  <2>4. /\ next \in Record(r) /\ next.at = "issuer" /\ next.todo = <<>>
        /\ next.answer = "none" /\ next.who = <<p>>
    BY <2>1, <1>0, NoLocks DEF To, Typed, Record, Op, Stages
  <2>5. /\ Shaped' /\ Typed(r)' /\ Turn(r) /\ Op(r)' = Op(r) /\ Unbegun(r)'
        /\ req'[r] = next /\ held'[r] = Locks(r)
    BY <2>4, <1>0, <1>2, Going
  <2>6. LinkStaged(r)'
    <3>. HIDE DEF next
    <3>. QED
      BY <1>0, <2>1, <2>4, <2>5 DEF LinkStaged, Stage, Is
  <2>. QED
    BY <1>0, <2>5, <2>6, FamilyStaged DEF Progress
<1>. QED
  BY <1>1, <1>2 DEF BeginRedeem

LEMMA RedeemIssuerProgress ==
    ASSUME Base, NEW r \in Reqs, RedeemIssuer(r)
    PROVE  Progress(r)
<1>. DEFINE u == Op(r).item[1]
            c == <<"code", Op(r).item>>
            next == [To(r, "code", <<c>>) EXCEPT !.who = <<personOf[u]>> \o @]
<1>0. /\ Shaped /\ Typed(r) /\ RowTypes /\ LinkStaged(r)
      /\ At(r, "issuer") /\ Is(r, {"redeem"}) /\ Is(r, LinkOps) /\ req[r].at = "issuer"
  BY DEF Base, RedeemIssuer, At, Is, LinkOps, Staged
<1>1. CASE Answer(r, "refused")
  BY <1>0, <1>1, Answering DEF Answers
<1>2. CASE Goes(r, next)
  <2>1. /\ Len(req[r].who) = 1 /\ Op(r).item \in Codes /\ u \in Users
    BY <1>0, Names DEF LinkStaged, Is, Stage
  <2>2. <<personOf[u]>> \in Seq(People) /\ Len(<<personOf[u]>>) = 1
    BY <2>1, <1>0 DEF RowTypes
  <2>3. <<personOf[u]>> \o req[r].who \in Seq(People) /\ Len(<<personOf[u]>> \o req[r].who) = 2
    <3>1. req[r].who \in Seq(People)
      BY <1>0 DEF Typed, Record
    <3>2. <<personOf[u]>> \o req[r].who \in Seq(People)
          /\ Len(<<personOf[u]>> \o req[r].who) = Len(<<personOf[u]>>) + Len(req[r].who)
      BY <2>2, <3>1, ConcatProperties
    <3>. QED
      BY <2>1, <2>2, <3>2
  <2>6. <<c>> \in Seq(Lock) /\ Elements(<<c>>) = {c}
    <3>1. c \in Lock
      BY <2>1 DEF Lock, LockKinds, Things
    <3>. QED
      BY <3>1, ElementsOf
  <2>. HIDE DEF c
  <2>4. /\ next \in Record(r) /\ next.at = "code" /\ next.todo = <<c>>
        /\ next.answer = "none" /\ next.who = <<personOf[u]>> \o req[r].who
    <3>1. next = [To(r, "code", <<c>>) EXCEPT !.who = <<personOf[u]>> \o req[r].who]
      BY <1>0, <2>6 DEF To, Typed, Record
    <3>. QED
      BY <3>1, <2>3, <2>6, <1>0 DEF To, Typed, Record, Op, Stages
  <2>5. /\ Shaped' /\ Typed(r)' /\ Turn(r) /\ Op(r)' = Op(r) /\ Unbegun(r)'
        /\ req'[r] = next /\ held'[r] = Locks(r) /\ Locks(r)' = Locks(r) \cup {c}
    <3>1. Goes(r, next)
      BY <1>2 DEF c
    <3>. QED
      BY <2>4, <2>6, <1>0, <3>1, Going
  <2>7. LinkStaged(r)'
    <3>. HIDE DEF next
    <3>. QED
      BY <1>0, <2>3, <2>4, <2>5 DEF LinkStaged, Stage, Is, c
  <2>. QED
    BY <1>0, <2>5, <2>7, FamilyStaged DEF Progress
<1>. QED
  BY <1>1, <1>2 DEF RedeemIssuer

LEMMA TwoOf ==
    ASSUME NEW S, NEW s \in Seq(S), Len(s) = 2
    PROVE  /\ Range(s) = {s[1], s[2]} /\ s[1] \in S /\ s[2] \in S
           /\ Cardinality(Range(s)) = 1 <=> s[1] = s[2]
<1>1. Range(s) = {s[1], s[2]} /\ s[1] \in S /\ s[2] \in S
  <2>1. DOMAIN s = {1, 2}
    BY LenProperties
  <2>. QED
    BY <2>1, ElementOfSeq DEF Range
<1>2. CASE s[1] = s[2]
  <2>1. Range(s) = {s[1]}
    BY <1>1, <1>2
  <2>2. Cardinality({s[1]}) = 1
    BY FS_Singleton
  <2>. QED
    BY <1>1, <1>2, <2>1, <2>2
<1>3. CASE s[1] # s[2]
  <2>1. IsFiniteSet({s[2]}) /\ Cardinality({s[2]}) = 1
    BY FS_Singleton
  <2>2. Cardinality({s[2]} \cup {s[1]}) = Cardinality({s[2]}) + 1
    BY <1>3, <2>1, FS_AddElement
  <2>3. {s[2]} \cup {s[1]} = Range(s)
    BY <1>1
  <2>4. Cardinality(Range(s)) = 1 + 1
    BY <2>1, <2>2, <2>3
  <2>. QED
    BY <1>1, <1>3, <2>4
<1>. QED
  BY <1>1, <1>2, <1>3

LEMMA RedeemCodeProgress ==
    ASSUME Base, NEW r \in Reqs, RedeemCode(r)
    PROVE  Progress(r)
<1>. DEFINE people == Range(req[r].who)
<1>0. /\ Shaped /\ Typed(r) /\ RowTypes /\ LinkStaged(r)
      /\ At(r, "code") /\ Is(r, {"redeem"}) /\ Is(r, LinkOps) /\ req[r].at = "code"
  BY DEF Base, RedeemCode, At, Is, LinkOps, Staged
<1>1. CASE Answer(r, "refused")
  BY <1>0, <1>1, Answering DEF Answers
<1>2. /\ Len(req[r].who) = 2 /\ <<"code", Op(r).item>> \in Locks(r)
      /\ people \subseteq People /\ (Cardinality(people) = 1 <=> req[r].who[1] = req[r].who[2])
      /\ Members(r) = people
  <2>1. Len(req[r].who) = 2 /\ <<"code", Op(r).item>> \in Locks(r)
    BY <1>0 DEF LinkStaged, Stage, Is
  <2>2. req[r].who \in Seq(People)
    BY <1>0 DEF Typed, Record
  <2>. QED
    BY <2>1, <2>2, TwoOf DEF Members
<1>3. CASE Cardinality(people) = 1 /\ Goes(r, To(r, "commit", <<>>))
  <2>1. Moved(r, "commit", {})
    BY <1>0, <1>3, NoLocks, Moving DEF Stages
  <2>2. LinkStaged(r)'
    BY <1>0, <1>2, <1>3, <2>1 DEF LinkStaged, Stage, Moved, Is, Locks
  <2>. QED
    BY <1>0, <2>1, <2>2, FamilyStaged DEF Progress, Moved
<1>4. ASSUME Cardinality(people) # 1, NEW locks \in CountLocks(Capped, people), Goes(r, To(r, "counts", locks))
      PROVE  Progress(r)
  <2>1. locks \in Seq(Lock) /\ Elements(locks) = CountKeys(Capped, people)
    <3>1. Capped \subseteq Kinds
      BY DEF Capped
    <3>. QED
      BY <3>1, <1>2, CountOrder
  <2>2. Moved(r, "counts", CountKeys(Capped, people))
    BY <1>0, <1>4, <2>1, Moving DEF Stages
  <2>3. LinkStaged(r)'
    <3>1. <<"code", Op(r).item>> \in held'[r] /\ Op(r)' = Op(r)
      BY <1>2, <2>2 DEF Moved
    <3>2. CountKeys(Capped, Members(r))' = CountKeys(Capped, people)
      BY <1>2, <2>2 DEF Moved, CountKeys, Capped
    <3>. QED
      BY <1>0, <1>2, <1>4, <2>2, <3>1, <3>2 DEF LinkStaged, Stage, Moved, Is
  <2>. QED
    BY <1>0, <2>2, <2>3, FamilyStaged DEF Progress, Moved
<1>. QED
  BY <1>1, <1>3, <1>4 DEF RedeemCode

LEMMA RedeemCountsProgress ==
    ASSUME Base, NEW r \in Reqs, RedeemCounts(r)
    PROVE  Progress(r)
<1>. DEFINE people == Range(req[r].who)
            found == Overflows(people)
            next(locks) == [To(r, "people", locks) EXCEPT !.found = found]
<1>0. /\ Shaped /\ Typed(r) /\ RowTypes /\ LinkStaged(r)
      /\ At(r, "counts") /\ Is(r, {"redeem"}) /\ Is(r, LinkOps) /\ req[r].at = "counts"
  BY DEF Base, RedeemCounts, At, Is, LinkOps, Staged
<1>2. /\ Len(req[r].who) = 2 /\ <<"code", Op(r).item>> \in held[r] /\ req[r].who[1] # req[r].who[2]
      /\ people \subseteq People /\ CountKeys(Capped, people) \subseteq Locks(r)
  <2>1. /\ Len(req[r].who) = 2 /\ <<"code", Op(r).item>> \in held[r] /\ req[r].who[1] # req[r].who[2]
        /\ CountKeys(Capped, people) \subseteq Locks(r)
    BY <1>0 DEF LinkStaged, Stage, Is, Members
  <2>2. req[r].who \in Seq(People)
    BY <1>0 DEF Typed, Record
  <2>. QED
    BY <2>1, <2>2, TwoOf
<1>4. ASSUME NEW locks \in Erase(people), Goes(r, next(locks))
      PROVE  Progress(r)
  <2>1. locks \in Seq(Lock) /\ Elements(locks) = Erases(people)
    BY <1>2, EraseOrder
  <2>2. /\ next(locks) \in Record(r) /\ next(locks).at = "people" /\ next(locks).todo = locks
        /\ next(locks).answer = "none" /\ next(locks).who = req[r].who
    <3>1. found \in BOOLEAN
      BY DEF Overflows
    <3>. HIDE DEF found
    <3>. QED
      BY <3>1, <2>1, <1>0 DEF To, Typed, Record, Op, Stages
  <2>3. /\ Shaped' /\ Typed(r)' /\ Turn(r) /\ Op(r)' = Op(r) /\ Unbegun(r)'
        /\ req'[r] = next(locks) /\ held'[r] = Locks(r) /\ Locks(r)' = Locks(r) \cup Erases(people)
    BY <2>1, <2>2, <1>0, <1>4, Going
  <2>4. LinkStaged(r)'
    <3>. HIDE DEF next
    <3>1. /\ req'[r].at = "people" /\ req'[r].who = req[r].who /\ <<"code", Op(r).item>> \in held'[r]
          /\ Op(r)' = Op(r) /\ Erases(people) \subseteq Locks(r)' /\ held'[r] = Locks(r)
      BY <1>2, <2>2, <2>3 DEF Locks
    <3>2. /\ CountKeys(Capped, Members(r))' = CountKeys(Capped, people)
          /\ Erases(Members(r))' = Erases(people)
      BY <3>1 DEF CountKeys, Members, Erases, Capped
    <3>. QED
      BY <1>0, <1>2, <3>1, <3>2 DEF LinkStaged, Stage, Is
  <2>. QED
    BY <1>0, <2>3, <2>4, FamilyStaged DEF Progress
<1>. QED
  BY <1>4 DEF RedeemCounts

LEMMA RedeemPeopleProgress ==
    ASSUME Base, NEW r \in Reqs, RedeemPeople(r)
    PROVE  Progress(r)
<1>. DEFINE people == Range(req[r].who)
            rows == RowsAnywhere(Attached(r))
            who == <<Survivor(r), Attached(r)>>
            next(order) == [To(r, "commit", order) EXCEPT !.who = who, !.rows = rows]
<1>0. /\ Shaped /\ Typed(r) /\ RowTypes /\ LinkStaged(r)
      /\ At(r, "people") /\ Is(r, {"redeem"}) /\ Is(r, LinkOps) /\ req[r].at = "people"
  BY DEF Base, RedeemPeople, At, Is, LinkOps, Staged
<1>1. CASE \E answer \in Answers : Answer(r, answer)
  BY <1>0, <1>1, Answering
<1>2. /\ Len(req[r].who) = 2 /\ <<"code", Op(r).item>> \in held[r] /\ req[r].who[1] # req[r].who[2]
      /\ CountKeys(Capped, people) \subseteq held[r] /\ Erases(people) \subseteq Locks(r)
      /\ req[r].who[1] \in People /\ req[r].who[2] \in People /\ people = {req[r].who[1], req[r].who[2]}
  <2>1. /\ Len(req[r].who) = 2 /\ <<"code", Op(r).item>> \in held[r] /\ req[r].who[1] # req[r].who[2]
        /\ CountKeys(Capped, people) \subseteq held[r] /\ Erases(people) \subseteq Locks(r)
    BY <1>0 DEF LinkStaged, Stage, Is, Members
  <2>2. req[r].who \in Seq(People)
    BY <1>0 DEF Typed, Record
  <2>. QED
    BY <2>1, <2>2, TwoOf
<1>3. /\ Survivor(r) \in People /\ Attached(r) \in People /\ who \in Seq(People) /\ Len(who) = 2
      /\ Range(who) = people /\ Survivor(r) # Attached(r) /\ who[1] = Survivor(r) /\ who[2] = Attached(r)
  <2>1. /\ Survivor(r) \in People /\ Attached(r) \in People
        /\ people = {Survivor(r), Attached(r)} /\ Survivor(r) # Attached(r)
    BY <1>2 DEF Survivor, Attached
  <2>2. who \in Seq(People) /\ Len(who) = 2 /\ who[1] = Survivor(r) /\ who[2] = Attached(r)
    BY <2>1
  <2>3. Range(who) = {who[1], who[2]}
    BY <2>2, TwoOf
  <2>. QED
    BY <2>1, <2>2, <2>3
<1>4. ASSUME NEW order \in Orders(RowLocks(rows)), Goes(r, next(order))
      PROVE  Progress(r)
  <2>1. rows \subseteq RowIds
    BY DEF RowsAnywhere
  <2>2. order \in Seq(Lock) /\ Elements(order) = RowLocks(rows)
    BY <2>1, RowOrder
  <2>. HIDE DEF rows, who
  <2>3. /\ next(order) \in Record(r) /\ next(order).at = "commit" /\ next(order).todo = order
        /\ next(order).answer = "none" /\ next(order).who = who /\ next(order).rows = rows
    BY <1>3, <2>1, <2>2, <1>0 DEF To, Typed, Record, Op, Stages
  <2>4. /\ Shaped' /\ Typed(r)' /\ Turn(r) /\ Op(r)' = Op(r) /\ Unbegun(r)'
        /\ req'[r] = next(order) /\ held'[r] = Locks(r) /\ Locks(r)' = Locks(r) \cup RowLocks(rows)
    BY <2>2, <2>3, <1>0, <1>4, Going
  <2>5. LinkStaged(r)'
    <3>. HIDE DEF next
    <3>1. /\ req'[r].at = "commit" /\ req'[r].who = who /\ <<"code", Op(r).item>> \in held'[r]
          /\ req'[r].rows = rows /\ RowLocks(rows) \subseteq Locks(r)'
          /\ CountKeys(Capped, people) \subseteq held'[r] /\ Erases(people) \subseteq held'[r]
      BY <1>2, <2>3, <2>4 DEF Locks
    <3>2. /\ CountKeys(Capped, Members(r))' = CountKeys(Capped, people)
          /\ Erases(Members(r))' = Erases(people) /\ RowLocks(req[r].rows)' = RowLocks(rows)
      BY <3>1, <1>3 DEF CountKeys, Members, Erases, Capped, RowLocks
    <3>. QED
      BY <1>0, <1>3, <2>1, <2>4, <3>1, <3>2 DEF LinkStaged, Stage, Is
  <2>. QED
    BY <1>0, <2>4, <2>5, FamilyStaged DEF Progress
<1>. QED
  BY <1>1, <1>4 DEF RedeemPeople, Answers

LEMMA CommitRedeemProgress ==
    ASSUME Base, NEW r \in Reqs, CommitRedeem(r)
    PROVE  Progress(r)
  BY Answering DEF CommitRedeem, Answers

LEMMA BeginUnlinkProgress ==
    ASSUME Base, NEW r \in Reqs, BeginUnlink(r)
    PROVE  Progress(r)
<1>. DEFINE p == personOf[Op(r).users[1]]
            next(locks) == [To(r, "person", locks) EXCEPT !.who = <<p>>]
<1>0. /\ Shaped /\ Typed(r) /\ RowTypes
      /\ At(r, "begin") /\ Is(r, {"unlink"}) /\ Is(r, LinkOps) /\ req[r].at = "begin"
  BY DEF Base, BeginUnlink, At, Is, LinkOps
<1>2. ASSUME NEW locks \in Erase({p}), Goes(r, next(locks))
      PROVE  Progress(r)
  <2>1. p \in People /\ <<p>> \in Seq(People) /\ Len(<<p>>) = 1 /\ <<p>>[1] = p
    <3>1. Op(r).users[1] \in Users
      BY <1>0, Names DEF Is
    <3>. QED
      BY <3>1, <1>0 DEF RowTypes
  <2>2. locks \in Seq(Lock) /\ Elements(locks) = Erases({p})
    BY <2>1, EraseOrder
  <2>3. <<"erase", p>> \in Erases({p})
    BY DEF Erases
  <2>4. /\ next(locks) \in Record(r) /\ next(locks).at = "person" /\ next(locks).todo = locks
        /\ next(locks).answer = "none" /\ next(locks).who = <<p>>
    BY <2>1, <2>2, <1>0 DEF To, Typed, Record, Op, Stages
  <2>5. /\ Shaped' /\ Typed(r)' /\ Turn(r) /\ Op(r)' = Op(r) /\ Unbegun(r)'
        /\ req'[r] = next(locks) /\ held'[r] = Locks(r) /\ Locks(r)' = Locks(r) \cup Erases({p})
    BY <2>2, <2>4, <1>0, <1>2, Going
  <2>6. LinkStaged(r)'
    <3>. HIDE DEF next
    <3>. QED
      BY <1>0, <2>1, <2>3, <2>4, <2>5 DEF LinkStaged, Stage, Is, Person
  <2>. QED
    BY <1>0, <2>5, <2>6, FamilyStaged DEF Progress
<1>. QED
  BY <1>2 DEF BeginUnlink

LEMMA UnlinkPersonProgress ==
    ASSUME Base, NEW r \in Reqs, UnlinkPerson(r)
    PROVE  Progress(r)
<1>. DEFINE u == Op(r).users[1]
            p == Person(r)
            next(order) == [To(r, "commit", order) EXCEPT !.rows = CodesOf(u)]
<1>0. /\ Shaped /\ Typed(r) /\ RowTypes /\ LinkStaged(r)
      /\ At(r, "person") /\ Is(r, {"unlink"}) /\ Is(r, LinkOps) /\ req[r].at = "person"
  BY DEF Base, UnlinkPerson, At, Is, LinkOps, Staged
<1>1. CASE Answer(r, "refused")
  BY <1>0, <1>1, Answering DEF Answers
<1>2. ASSUME NEW order \in Orders(CodeLocks(CodesOf(u))), Goes(r, next(order))
      PROVE  Progress(r)
  <2>1. CodesOf(u) \subseteq Codes /\ order \in Seq(Lock) /\ Elements(order) = CodeLocks(CodesOf(u))
    BY CodesRead
  <2>2. Len(req[r].who) = 1 /\ <<"erase", p>> \in Locks(r)
    BY <1>0 DEF LinkStaged, Stage, Is
  <2>4. /\ next(order) \in Record(r) /\ next(order).at = "commit" /\ next(order).todo = order
        /\ next(order).answer = "none" /\ next(order).rows = CodesOf(u) /\ next(order).who = req[r].who
    BY <2>1, <1>0 DEF To, Typed, Record, Op, Stages
  <2>5. /\ Shaped' /\ Typed(r)' /\ Turn(r) /\ Op(r)' = Op(r) /\ Unbegun(r)'
        /\ req'[r] = next(order) /\ held'[r] = Locks(r)
        /\ Locks(r)' = Locks(r) \cup CodeLocks(CodesOf(u))
    BY <2>1, <2>4, <1>0, <1>2, Going
  <2>6. LinkStaged(r)'
    <3>. HIDE DEF next
    <3>1. req'[r].rows = CodesOf(u) /\ req'[r].at = "commit" /\ Person(r)' = p
      BY <2>4, <2>5 DEF Person
    <3>2. CodeLocks(req[r].rows)' = CodeLocks(CodesOf(u))
      BY <3>1 DEF CodeLocks
    <3>3. req'[r].who = req[r].who
      BY <2>4, <2>5
    <3>. QED
      BY <1>0, <2>1, <2>2, <2>5, <3>1, <3>2, <3>3 DEF LinkStaged, Stage, Is
  <2>. QED
    BY <1>0, <2>5, <2>6, FamilyStaged DEF Progress
<1>. QED
  BY <1>1, <1>2 DEF UnlinkPerson

LEMMA CommitUnlinkProgress ==
    ASSUME Base, NEW r \in Reqs, CommitUnlink(r)
    PROVE  Progress(r)
  BY Answering DEF CommitUnlink, Answers

-----------------------------------------------------------------------------
(* Every step                                                              *)

LEMMA TakeProgress ==
    ASSUME Base, NEW r \in Reqs, Take(r)
    PROVE  Progress(r)
<1>0. Shaped /\ Typed(r) /\ Staged(r)
  BY DEF Base
<1>1. req[r].at # "done" /\ req[r].at # "begin"
  <2>1. req[r].todo # <<>>
    BY DEF Take
  <2>. QED
    BY <1>0, <2>1 DEF Staged, Unbegun, Stage
<1>2. /\ Shaped' /\ Typed(r)' /\ Turn(r) /\ Op(r)' = Op(r)
      /\ req'[r] = [req[r] EXCEPT !.todo = Tail(req[r].todo)]
      /\ Locks(r)' = Locks(r) /\ held[r] \subseteq held'[r]
  BY <1>0, <1>1, TakeTurn
<1>3. /\ req'[r].at = req[r].at /\ req'[r].who = req[r].who /\ req'[r].rows = req[r].rows
      /\ req'[r].fresh = req[r].fresh
  BY <1>0, <1>2 DEF Typed, Record
<1>4. /\ Stage(r)' = Stage(r) /\ Group(r)' = Group(r) /\ Members(r)' = Members(r)
      /\ Referred(r)' = Referred(r) /\ Person(r)' = Person(r)
  BY <1>2, <1>3, ReferredSame DEF Stage, Group, Person
<1>5. \A kinds : Is(r, kinds)' <=> Is(r, kinds)
  BY <1>2 DEF Is
<1>6. Unbegun(r)'
  BY <1>1, <1>4 DEF Unbegun, Stage
<1>7. EntryStaged(r)'
  BY <1>0, <1>2, <1>3, <1>4, <1>5 DEF Staged, EntryStaged
<1>8. ChangeStaged(r)'
  BY <1>0, <1>2, <1>3, <1>4, <1>5 DEF Staged, ChangeStaged
<1>9. GroupStaged(r)'
  BY <1>0, <1>2, <1>3, <1>4, <1>5 DEF Staged, GroupStaged
<1>10. InviteStaged(r)'
  BY <1>0, <1>2, <1>3, <1>4, <1>5 DEF Staged, InviteStaged
<1>11. FriendStaged(r)'
  BY <1>0, <1>2, <1>3, <1>4, <1>5 DEF Staged, FriendStaged
<1>12. LinkStaged(r)'
  BY <1>0, <1>2, <1>3, <1>4, <1>5 DEF Staged, LinkStaged
<1>. QED
  BY <1>2, <1>6, <1>7, <1>8, <1>9, <1>10, <1>11, <1>12 DEF Progress, Staged

LEMMA StepProgress ==
    ASSUME Base, NEW r \in Reqs, Step(r)
    PROVE  Progress(r)
<1>1. CASE Take(r) \/ Victim(r)
  BY <1>1, TakeProgress, VictimProgress
<1>2. CASE Entry(r)
  BY <1>2, BeginEntryProgress, BeginImportProgress, BeginCreateProgress, EnterGroupProgress,
     ImportPeopleProgress, ImportRowsProgress, EnterCountsProgress, EnterInviteProgress,
     EnterRowProgress, EnterShareProgress, CommitEntryProgress DEF Entry
<1>3. CASE Change(r)
  BY <1>3, BeginChangeProgress, ChangeGroupProgress, ChangeRowProgress, SettleProgress,
     CommitChangeProgress DEF Change
<1>4. CASE GroupOp(r) \/ InviteOp(r)
  BY <1>4, BeginGroupProgress, RestoreListProgress, RestoreCountsProgress, GroupLockedProgress,
     CommitGroupProgress, BeginInviteProgress, WriteInviteProgress DEF GroupOp, InviteOp
<1>5. CASE Friend(r)
  BY <1>5, BeginSendProgress, SendRowProgress, MirrorRowProgress, RelatedPeopleProgress,
     CommitSendProgress, BeginAnswerProgress, AnswerRowProgress, CommitAnswerProgress,
     BeginEndingProgress, BlockRowProgress, DeleteBetweenProgress, DeletedProgress,
     UnblockProgress, CommitEndingProgress, UnfriendAgainProgress DEF Friend
<1>6. CASE Link(r)
  BY <1>6, BeginIssueProgress, CommitIssueProgress, BeginRedeemProgress, RedeemIssuerProgress,
     RedeemCodeProgress, RedeemCountsProgress, RedeemPeopleProgress, CommitRedeemProgress,
     BeginUnlinkProgress, UnlinkPersonProgress, CommitUnlinkProgress DEF Link
<1>. QED
  BY <1>1, <1>2, <1>3, <1>4, <1>5, <1>6 DEF Step

\* The steps that write: all others leave the rows as they are.
dataVars == <<rowVars, peopleVars, relation, code>>

Writes(r) ==
    \/ (CommitEntry(r) \/ CommitChange(r) \/ CommitGroup(r) \/ WriteInvite(r))
          /\ UNCHANGED <<relation, code>>
    \/ (CommitSend(r) \/ CommitAnswer(r) \/ CommitEnding(r)) /\ UNCHANGED code
    \/ CommitIssue(r) \/ CommitRedeem(r) \/ CommitUnlink(r)

LEMMA Quiet ==
    ASSUME NEW r, Step(r)
    PROVE  UNCHANGED dataVars \/ Writes(r)
<1>1. CASE (Take(r) \/ (Victim(r) /\ ~Is(r, {"unfriend"}))) /\ UNCHANGED <<rowVars, peopleVars, relation, code>>
  BY <1>1 DEF dataVars
<1>2. CASE Entry(r) /\ UNCHANGED <<relation, code>>
  BY <1>2 DEF dataVars, Writes, Entry, BeginEntry, BeginImport, BeginCreate, EnterGroup, ImportPeople,
     ImportRows, EnterCounts, EnterInvite, EnterRow, EnterShare
<1>3. CASE Change(r) /\ UNCHANGED <<relation, code>>
  BY <1>3 DEF dataVars, Writes, Change, BeginChange, ChangeGroup, ChangeRow, Settle
<1>4. CASE (GroupOp(r) \/ InviteOp(r)) /\ UNCHANGED <<relation, code>>
  BY <1>4 DEF dataVars, Writes, GroupOp, InviteOp, BeginGroup, RestoreList, RestoreCounts, GroupLocked,
     BeginInvite
<1>5. CASE Friend(r) /\ UNCHANGED code
  BY <1>5 DEF dataVars, Writes, Friend, BeginSend, SendRow, MirrorRow, RelatedPeople, BeginAnswer, AnswerRow,
     BeginEnding, BlockRow, DeleteBetween, Deleted, Unblock, UnfriendAgain
<1>6. CASE Link(r)
  BY <1>6 DEF dataVars, Writes, Link, BeginIssue, BeginRedeem, RedeemIssuer, RedeemCode, RedeemCounts,
     RedeemPeople, BeginUnlink, UnlinkPerson
<1>. QED
  BY <1>1, <1>2, <1>3, <1>4, <1>5, <1>6 DEF Step

LEMMA ExclusiveKept ==
    ASSUME Base, NEW r \in Reqs, Turn(r)
    PROVE  Exclusive'
<1>1. SUFFICES ASSUME NEW p \in Reqs, NEW q \in Reqs, p # q, NEW l \in held'[p], NEW m \in held'[q]
               PROVE  ~Conflict(l, m)
  BY DEF Exclusive
<1>2. Exclusive
  BY DEF Base
<1>3. CASE p # r /\ q # r
  BY <1>1, <1>2, <1>3 DEF Turn, Exclusive
<1>4. CASE p = r
  <2>1. m \in held[q]
    BY <1>1, <1>4 DEF Turn
  <2>2. CASE l \in held[r]
    BY <1>1, <1>2, <1>4, <2>1, <2>2 DEF Exclusive
  <2>3. CASE l \notin held[r]
    BY <1>1, <1>4, <2>1, <2>3 DEF Turn, Blockers
  <2>. QED
    BY <2>2, <2>3
<1>5. CASE q = r
  <2>1. l \in held[p]
    BY <1>1, <1>5 DEF Turn
  <2>2. CASE m \in held[r]
    BY <1>1, <1>2, <1>5, <2>1, <2>2 DEF Exclusive
  <2>3. CASE m \notin held[r]
    <3>1. ~Conflict(m, l)
      BY <1>1, <1>5, <2>1, <2>3 DEF Turn, Blockers
    <3>. QED
      BY <3>1 DEF Conflict
  <2>. QED
    BY <2>2, <2>3
<1>. QED
  BY <1>3, <1>4, <1>5

-----------------------------------------------------------------------------
(* The types of the rows                                                   *)

MemberRows == [person : People, status : {"none", "active", "left", "kicked", "banned"},
               version : Nat, noted : BOOLEAN]

Statuses == {"none", "active", "left", "kicked", "banned"}

LEMMA RowWith ==
    ASSUME NEW row \in MemberRows, NEW p \in People, NEW status \in Statuses, NEW noted \in BOOLEAN
    PROVE  /\ [row EXCEPT !.status = status] \in MemberRows
           /\ [row EXCEPT !.status = status, !.version = @ + 1] \in MemberRows
           /\ [row EXCEPT !.version = @ + 1, !.noted = noted, !.status = status] \in MemberRows
           /\ [row EXCEPT !.person = p, !.version = @ + 1] \in MemberRows
           /\ Row(p, status) \in MemberRows
<1>1. row.version + 1 \in Nat
  BY DEF MemberRows
<1>. QED
  BY <1>1 DEF MemberRows, Statuses, Row

\* A request that commits has not been answered, and can have the locks it wants.
LEMMA Committing ==
    ASSUME Base, NEW r \in Reqs, NEW stage, At(r, stage)
    PROVE  /\ Typed(r) /\ Staged(r) /\ Stage(r) = stage /\ RowTypes /\ Shaped
           /\ \A q \in Reqs \ {r} : \A l \in Locks(r), m \in held[q] : ~Conflict(l, m)
<1>1. Typed(r) /\ Staged(r) /\ Stage(r) = stage /\ RowTypes /\ Shaped /\ Exclusive
  BY DEF Base, At, Stage
<1>2. ASSUME NEW q \in Reqs \ {r}, NEW l \in Locks(r), NEW m \in held[q]
      PROVE  ~Conflict(l, m)
  <2>1. CASE l \in held[r]
    BY <1>1, <2>1 DEF Exclusive
  <2>2. CASE l \in Wanted(r)
    BY <2>2 DEF At, Blockers
  <2>. QED
    BY <2>1, <2>2 DEF Locks
<1>. QED
  BY <1>1, <1>2

LEMMA MembersTypes ==
    ASSUME Base, NEW r \in Reqs, CommitEntry(r) \/ CommitChange(r) \/ CommitGroup(r) \/ WriteInvite(r),
           UNCHANGED <<relation, code>>
    PROVE  RowTypes'
<1>1. CASE CommitEntry(r)
  <2>1. At(r, "commit") /\ Is(r, Entries)
    BY <1>1 DEF CommitEntry
  <2>2. RowTypes /\ Typed(r) /\ Group(r) \in Groups /\ (Is(r, {"accept"}) => Op(r).item \in Invites)
    BY <2>1, Names, Committing DEF Is
  <2>3. member' \in [RowIds -> MemberRows]
    <3>1. \A id \in RowIds : id[2] \in People
      BY DEF RowIds
    <3>2. ASSUME NEW id \in RowIds
          PROVE  member'[id] \in MemberRows
      <4>1. member[id] \in MemberRows
        BY <2>2 DEF RowTypes, MemberRows
      <4>2. /\ [member[id] EXCEPT !.status = "active", !.version = @ + 1] \in MemberRows
            /\ Row(id[2], "active") \in MemberRows
        BY <3>1, <4>1, RowWith DEF Statuses
      <4>3. \/ member'[id] = [member[id] EXCEPT !.status = "active", !.version = @ + 1]
            \/ member'[id] = Row(id[2], "active")
            \/ member'[id] = member[id]
        BY <1>1 DEF CommitEntry
      <4>. QED
        BY <4>1, <4>2, <4>3
    <3>. QED
      BY <1>1, <3>2 DEF CommitEntry
  <2>4. group' \in [Groups -> [status : {"none", "live", "deleted", "gone"}, idle : BOOLEAN]]
    BY <1>1, <2>2 DEF CommitEntry, RowTypes, Touched
  <2>5. invite' \in [Invites -> {"open", "used", "declined", "deleted"}]
    BY <1>1, <2>2 DEF CommitEntry, RowTypes
  <2>. QED
    BY <1>1, <2>2, <2>3, <2>4, <2>5 DEF CommitEntry, RowTypes, peopleVars, MemberRows
<1>2. CASE CommitChange(r)
  <2>1. At(r, "commit") /\ Is(r, Changes)
    BY <1>2 DEF CommitChange
  <2>2. RowTypes /\ Typed(r) /\ Group(r) \in Groups /\ Person(r) \in People
        /\ Op(r).kind \in Changes
    <3>1. RowTypes /\ Typed(r) /\ Group(r) \in Groups /\ Staged(r) /\ Stage(r) = "commit"
      BY <2>1, Names, Committing DEF Is
    <3>2. Len(req[r].who) = 1
      BY <2>1, <3>1 DEF Staged, ChangeStaged
    <3>. QED
      BY <2>1, <3>1, <3>2, ElementOfSeq DEF Person, Typed, Record, Is
  <2>3. member' \in [RowIds -> MemberRows]
    <3>1. \A id \in RowIds : id[2] \in People
      BY DEF RowIds
    <3>2. ~Is(r, Edits) => NewStatus[Op(r).kind] \in {"left", "kicked", "banned"}
      BY <2>2 DEF Is, Changes, Departures, NewStatus
    <3>4. ASSUME NEW id \in RowIds
          PROVE  member'[id] \in MemberRows
      <4>. DEFINE status == IF Is(r, Edits) THEN member[id].status ELSE NewStatus[Op(r).kind]
                  noted == member[id].noted \/ Is(r, Edits)
      <4>1. member[id] \in MemberRows
        BY <2>2 DEF RowTypes, MemberRows
      <4>2. status \in {"none", "active", "left", "kicked", "banned"} /\ noted \in BOOLEAN
        BY <3>2, <4>1 DEF MemberRows
      <4>3. \/ member'[id] = [member[id] EXCEPT !.version = @ + 1, !.noted = noted, !.status = status]
            \/ member'[id] = Row(id[2], "banned")
            \/ member'[id] = member[id]
        BY <1>2 DEF CommitChange
      <4>. HIDE DEF status, noted
      <4>4. /\ [member[id] EXCEPT !.version = @ + 1, !.noted = noted, !.status = status] \in MemberRows
            /\ Row(id[2], "banned") \in MemberRows
        BY <3>1, <4>1, <4>2, RowWith DEF Statuses
      <4>. QED
        BY <4>1, <4>3, <4>4
    <3>. QED
      BY <1>2, <3>4 DEF CommitChange
  <2>4. group' \in [Groups -> [status : {"none", "live", "deleted", "gone"}, idle : BOOLEAN]]
    BY <1>2, <2>2 DEF CommitChange, RowTypes, Touched
  <2>5. marked' \subseteq People
    BY <1>2, <2>2 DEF CommitChange, RowTypes
  <2>. QED
    BY <1>2, <2>2, <2>3, <2>4, <2>5 DEF CommitChange, RowTypes, MemberRows
<1>3. CASE CommitGroup(r)
  <2>1. At(r, "commit") /\ Is(r, GroupOps)
    BY <1>3 DEF CommitGroup
  <2>2. RowTypes /\ Group(r) \in Groups
    BY <2>1, Names, Committing DEF Is
  <2>3. member' \in [RowIds -> MemberRows]
    BY <1>3, <2>2 DEF CommitGroup, RowTypes, MemberRows
  <2>4. group' \in [Groups -> [status : {"none", "live", "deleted", "gone"}, idle : BOOLEAN]]
    BY <1>3, <2>2 DEF CommitGroup, RowTypes
  <2>5. invite' \in [Invites -> {"open", "used", "declined", "deleted"}]
    BY <1>3, <2>2 DEF CommitGroup, RowTypes
  <2>. QED
    BY <1>3, <2>2, <2>3, <2>4, <2>5 DEF CommitGroup, RowTypes, peopleVars, MemberRows
<1>4. CASE WriteInvite(r)
  <2>1. RowTypes
    BY DEF Base
  <2>2. invite' \in [Invites -> {"open", "used", "declined", "deleted"}]
    BY <1>4, <2>1 DEF WriteInvite, RowTypes
  <2>. QED
    BY <1>4, <2>1, <2>2 DEF WriteInvite, RowTypes, peopleVars
<1>. QED
  BY <1>1, <1>2, <1>3, <1>4

LEMMA FriendsTypes ==
    ASSUME Base, NEW r \in Reqs, CommitSend(r) \/ CommitAnswer(r) \/ CommitEnding(r), UNCHANGED code
    PROVE  RowTypes'
<1>. DEFINE x == req[r].who[1]
            y == req[r].who[2]
<1>1. At(r, "commit") /\ Is(r, Friendly)
  BY DEF CommitSend, CommitAnswer, CommitEnding, Is, Friendly
<1>2. RowTypes /\ Typed(r) /\ Staged(r) /\ Stage(r) = "commit"
  BY <1>1, Committing
<1>3. x \in People /\ y \in People
  <2>1. Len(req[r].who) = 2
    BY <1>1, <1>2 DEF Staged, FriendStaged, Friendly
  <2>. QED
    BY <2>1, <1>2, PairOf
<1>4. relation \subseteq Relations
  BY <1>2 DEF RowTypes, Relations
<1>5. \A k \in {1, 2}, type \in {"request", "friend", "blocked"} :
         Relation(<<r, k>>, x, y, type) \in Relations /\ Relation(<<r, k>>, y, x, type) \in Relations
  <2>1. \A k \in {1, 2} : <<r, k>> \in (Reqs \cup Earlier) \X {1, 2}
    OBVIOUS
  <2>. HIDE DEF x, y
  <2>. QED
    BY <1>3, <2>1 DEF Relation, Relations
<1>. HIDE DEF x, y
<1>6. relation' \subseteq Relations
  <2>1. CASE CommitSend(r)
    <3>1. SentType(r) \in {"request", "friend"}
      BY DEF SentType
    <3>. QED
      BY <1>4, <1>5, <2>1, <3>1 DEF CommitSend, x, y
  <2>2. CASE CommitAnswer(r)
    <3>1. \A row \in Relations : [row EXCEPT !.type = "friend"] \in Relations
      BY DEF Relations
    <3>2. WithId(Op(r).item) \subseteq relation
      BY DEF WithId
    <3>. QED
      BY <1>4, <1>5, <2>2, <3>1, <3>2 DEF CommitAnswer, x, y
  <2>3. CASE CommitEnding(r)
    BY <1>4, <1>5, <2>3 DEF CommitEnding, x, y
  <2>. QED
    BY <2>1, <2>2, <2>3
<1>7. UNCHANGED <<group, member, invite, person, personOf, marked, code>>
  BY DEF CommitSend, CommitAnswer, CommitEnding, rowVars, peopleVars
<1>. QED
  BY <1>2, <1>6, <1>7 DEF RowTypes, Relations

LEMMA LinksTypes ==
    ASSUME Base, NEW r \in Reqs, CommitIssue(r) \/ CommitRedeem(r) \/ CommitUnlink(r)
    PROVE  RowTypes'
<1>1. CASE CommitIssue(r)
  <2>1. RowTypes
    BY DEF Base
  <2>2. code' \in [Codes -> {"none", "live", "used", "deleted"}]
    BY <1>1, <2>1 DEF CommitIssue, RowTypes, Without
  <2>. QED
    BY <1>1, <2>1, <2>2 DEF CommitIssue, RowTypes, rowVars, peopleVars
<1>2. CASE CommitRedeem(r)
  <2>. DEFINE to == req[r].who[1]
              from == req[r].who[2]
  <2>1. At(r, "commit") /\ Is(r, {"redeem"})
    BY <1>2 DEF CommitRedeem
  <2>2. RowTypes /\ to \in People
    <3>1. RowTypes /\ Typed(r) /\ Staged(r) /\ Stage(r) = "commit"
      BY <2>1, Committing
    <3>2. Len(req[r].who) = 2
      BY <2>1, <3>1 DEF Staged, LinkStaged, Is, LinkOps
    <3>. QED
      BY <3>1, <3>2, PairOf
  <2>. HIDE DEF to
  <2>3. member' \in [RowIds -> MemberRows] /\ personOf' \in [Users -> People]
        /\ person' \in [People -> {"none", "here", "gone"}]
    <3>1. CASE UNCHANGED <<member, personOf, person>>
      BY <2>2, <3>1 DEF RowTypes, MemberRows
    <3>2. CASE Merge(r)
      <4>1. member' \in [RowIds -> MemberRows]
        <5>1. ASSUME NEW id \in RowIds
              PROVE  member'[id] \in MemberRows
          <6>1. member[id] \in MemberRows
            BY <2>2 DEF RowTypes, MemberRows
          <6>2. /\ [member[id] EXCEPT !.status = "none"] \in MemberRows
                /\ [member[id] EXCEPT !.person = to, !.version = @ + 1] \in MemberRows
            BY <2>2, <6>1, RowWith DEF Statuses
          <6>3. \/ member'[id] = [member[id] EXCEPT !.status = "none"]
                \/ member'[id] = [member[id] EXCEPT !.person = to, !.version = @ + 1]
                \/ member'[id] = member[id]
            BY <3>2 DEF Merge, to
          <6>. QED
            BY <6>1, <6>2, <6>3
        <5>. QED
          BY <3>2, <5>1 DEF Merge
      <4>2. personOf' \in [Users -> People] /\ person' \in [People -> {"none", "here", "gone"}]
        BY <2>2, <3>2 DEF Merge, RowTypes, to
      <4>. QED
        BY <4>1, <4>2
    <3>. QED
      BY <1>2, <3>1, <3>2 DEF CommitRedeem
  <2>4. code' \in [Codes -> {"none", "live", "used", "deleted"}]
    BY <1>2, <2>2 DEF CommitRedeem, RowTypes
  <2>. QED
    BY <1>2, <2>2, <2>3, <2>4 DEF CommitRedeem, RowTypes, MemberRows
<1>3. CASE CommitUnlink(r)
  <2>1. RowTypes
    BY DEF Base
  <2>2. NextPerson \in People
    BY <1>3 DEF CommitUnlink, NextPerson
  <2>3. code' \in [Codes -> {"none", "live", "used", "deleted"}]
    BY <1>3, <2>1 DEF CommitUnlink, RowTypes, Without
  <2>4. personOf' \in [Users -> People] /\ person' \in [People -> {"none", "here", "gone"}]
    BY <1>3, <2>1, <2>2 DEF CommitUnlink, RowTypes
  <2>. QED
    BY <1>3, <2>1, <2>3, <2>4 DEF CommitUnlink, RowTypes, rowVars
<1>. QED
  BY <1>1, <1>2, <1>3

-----------------------------------------------------------------------------
(* The invariant                                                           *)

LEMMA BaseInit ==
    ASSUME Init
    PROVE  Base
<1>1. ASSUME NEW r \in Reqs
      PROVE  /\ req[r].at = "begin" /\ req[r].todo = <<>> /\ req[r].who = <<>> /\ req[r].rows = {}
             /\ req[r].fresh = {} /\ req[r].seen = 0 /\ req[r].found = FALSE /\ req[r].again = FALSE
             /\ req[r].answer = "none" /\ req[r] = Fresh(Op(r)) /\ held[r] = {} /\ Legal(Op(r))
  <2>1. req[r] = Fresh(Op(r)) /\ held[r] = {} /\ Legal(Op(r))
    BY DEF Init
  <2>. QED
    BY <2>1 DEF Fresh
<1>2. Shaped
  <2>1. req = [r \in Reqs |-> req[r]]
    BY DEF Init
  <2>2. held \in [Reqs -> SUBSET Lock]
    BY DEF Init
  <2>. QED
    BY <2>1, <2>2 DEF Shaped
<1>3. Exclusive
  BY <1>1 DEF Exclusive
<1>4. ASSUME NEW r \in Reqs
      PROVE  Typed(r)
  <2>1. <<>> \in Seq(Lock) /\ <<>> \in Seq(People)
    BY EmptySeq
  <2>2. Fresh(Op(r)) \in Record(r)
    BY <2>1 DEF Fresh, Record, Stages, Answers
  <2>. QED
    BY <1>1, <2>2 DEF Typed
<1>5. ASSUME NEW r \in Reqs
      PROVE  Staged(r)
  <2>1. Stage(r) = "begin" /\ Unbegun(r)
    BY <1>1 DEF Stage, Unbegun
  <2>2. EntryStaged(r) /\ ChangeStaged(r)
    BY <2>1 DEF EntryStaged, ChangeStaged, Inside, Roomy
  <2>3. GroupStaged(r) /\ InviteStaged(r) /\ FriendStaged(r) /\ LinkStaged(r)
    BY <2>1 DEF GroupStaged, InviteStaged, FriendStaged, LinkStaged
  <2>. QED
    BY <2>1, <2>2, <2>3 DEF Staged
<1>6. RowTypes
  BY DEF Init, Consistent
<1>. QED
  BY <1>2, <1>3, <1>4, <1>5, <1>6 DEF Base

\* What Typed and Staged say of a request depends on the request alone.
LEMMA SameRequest ==
    ASSUME NEW q, req'[q] = req[q], held'[q] = held[q]
    PROVE  /\ Op(q)' = Op(q) /\ Stage(q)' = Stage(q) /\ Locks(q)' = Locks(q)
           /\ Group(q)' = Group(q) /\ Person(q)' = Person(q) /\ Members(q)' = Members(q)
           /\ Referred(q)' = Referred(q) /\ (\A kinds : Is(q, kinds)' <=> Is(q, kinds))
           /\ (Typed(q)' <=> Typed(q)) /\ (Staged(q)' <=> Staged(q))
<1>1. Op(q)' = Op(q) /\ Stage(q)' = Stage(q) /\ Locks(q)' = Locks(q)
  BY DEF Op, Stage, Locks, Wanted
<1>2. Group(q)' = Group(q) /\ Person(q)' = Person(q) /\ Members(q)' = Members(q)
  BY <1>1 DEF Group, Person, Members
<1>3. (\A kinds : Is(q, kinds)' <=> Is(q, kinds))
  BY <1>1 DEF Is
<1>4. Referred(q)' = Referred(q)
  BY <1>1, <1>2, ReferredSame
<1>5. Typed(q)' <=> Typed(q)
  BY <1>1 DEF Typed, Record
<1>6. Unbegun(q)' <=> Unbegun(q)
  BY <1>1 DEF Unbegun
<1>7. EntryStaged(q)' <=> EntryStaged(q)
  BY <1>1, <1>2, <1>3, <1>4 DEF EntryStaged
<1>8. ChangeStaged(q)' <=> ChangeStaged(q)
  BY <1>1, <1>2, <1>3, <1>4 DEF ChangeStaged
<1>9. (GroupStaged(q)' <=> GroupStaged(q)) /\ (InviteStaged(q)' <=> InviteStaged(q))
  BY <1>1, <1>2, <1>3 DEF GroupStaged, InviteStaged
<1>10. FriendStaged(q)' <=> FriendStaged(q)
  BY <1>1, <1>3 DEF FriendStaged
<1>11. LinkStaged(q)' <=> LinkStaged(q)
  BY <1>1, <1>2, <1>3 DEF LinkStaged
<1>. QED
  BY <1>1, <1>2, <1>3, <1>4, <1>5, <1>6, <1>7, <1>8, <1>9, <1>10, <1>11 DEF Staged

LEMMA BaseStep ==
    ASSUME Base, NEW r \in Reqs, Step(r)
    PROVE  Base' /\ Progress(r)
<1>1. Progress(r)
  BY StepProgress
<1>2. Exclusive'
  BY <1>1, ExclusiveKept DEF Progress
<1>3. RowTypes'
  <2>1. RowTypes
    BY DEF Base
  <2>2. CASE UNCHANGED dataVars
    BY <2>1, <2>2 DEF dataVars, rowVars, peopleVars, RowTypes
  <2>3. CASE Writes(r)
    BY <2>3, MembersTypes, FriendsTypes, LinksTypes DEF Writes
  <2>. QED
    BY <2>2, <2>3, Quiet
<1>4. ASSUME NEW q \in Reqs
      PROVE  Typed(q)' /\ Staged(q)'
  <2>1. CASE q = r
    BY <1>1, <2>1 DEF Progress
  <2>2. CASE q # r
    BY <1>1, <2>2, SameRequest DEF Progress, Turn, Base
  <2>. QED
    BY <2>1, <2>2
<1>. QED
  BY <1>1, <1>2, <1>3, <1>4 DEF Base, Progress

LEMMA BaseNext ==
    ASSUME Base, [Next]_vars
    PROVE  Base'
<1>1. CASE \E r \in Reqs : Step(r)
  BY <1>1, BaseStep
<1>2. CASE UNCHANGED vars
  <2>1. \A q \in Reqs : Typed(q)' /\ Staged(q)'
    BY <1>2, SameRequest DEF vars, Base
  <2>2. Shaped' /\ Exclusive' /\ RowTypes'
    BY <1>2 DEF vars, Base, Shaped, Exclusive, RowTypes
  <2>. QED
    BY <2>1, <2>2 DEF Base
<1>. QED
  BY <1>1, <1>2 DEF Next

\* Each request of members, friends and links holds at every stage of its handler
\* the locks that its statements took, no two requests hold locks that conflict,
\* and the rows have their types.
THEOREM LocksByStage == Spec => []Base
<1>1. Init => Base
  BY BaseInit
<1>2. Base /\ [Next]_vars => Base'
  BY BaseNext
<1>. QED
  BY <1>1, <1>2, PTL DEF Spec

\* The types of requests and rows, and that a request has an answer once it is done.
THEOREM MembersTypeOK == Spec => []TypeOK
<1>1. Base => TypeOK
  <2>1. SUFFICES ASSUME Base PROVE TypeOK
    OBVIOUS
  <2>2. ASSUME NEW r \in Reqs
        PROVE  /\ req[r].at \in Stages /\ req[r].answer \in Answers \cup {"none"}
               /\ Range(req[r].who) \subseteq People /\ req[r].fresh \subseteq People
               /\ req[r].at = "done" <=> req[r].answer # "none"
    <3>1. req[r] \in Record(r) /\ (req[r].at = "done" <=> req[r].answer # "none")
      BY <2>1 DEF Base, Typed
    <3>2. req[r].who \in Seq(People)
      BY <3>1 DEF Record
    <3>3. Range(req[r].who) \subseteq People
      BY <3>2, ElementOfSeq DEF Range
    <3>. QED
      BY <3>1, <3>3 DEF Record
  <2>. QED
    BY <2>1, <2>2 DEF TypeOK, Base
<1>. QED
  BY <1>1, LocksByStage, PTL

-----------------------------------------------------------------------------
(* What each request waits for                                             *)

\* Requests of which a cycle of waits may consist.
Backward == {"redeem", "erase", "restore", "issue"}
Loose == {"befriend", "accept_friend", "unfriend", "block"}

Only(S, kinds) == \A l \in S : l[1] \in kinds

\* It waits for its first lock, and for no other with it.
Unheld(r) == held[r] = {} /\ Len(req[r].todo) <= 1

Ascending(r) ==
    LET todo == req[r].todo IN
    /\ Wanted(r) \subseteq {"count"} \X (Kinds \X People)
    /\ \A i, j \in 1 .. Len(todo) : i < j => KeyRank[todo[i][2]] < KeyRank[todo[j][2]]
    /\ \A l \in held[r], i \in 1 .. Len(todo) : l[1] = "count" => KeyRank[l[2]] < KeyRank[todo[i][2]]

EntryWaits(r) ==
    Is(r, Entries) =>
    /\ Stage(r) = "group" => Unheld(r) /\ Only(Wanted(r), {"group"})
    /\ Stage(r) \in {"rows", "row"} => Only(Wanted(r), {"row"})
    /\ Stage(r) = "rows" => Only(held[r], {"group", "row"})
    /\ Stage(r) = "counts" => Ascending(r)
    /\ Stage(r) \in {"counts", "invite"} => Only(held[r], {"group", "row", "count"})
    /\ Stage(r) = "invite" => Only(Wanted(r), {"invite"}) /\ Len(req[r].todo) <= 1
    /\ Stage(r) = "share" => Only(Wanted(r), {"share"})
    /\ Stage(r) = "commit" => req[r].todo = <<>>
    /\ Only(Locks(r), {"group", "row", "count", "invite", "share"})
    /\ \A l \in Locks(r) : l[1] = "row" => ~Is(r, {"create"}) /\ l[2][1] = Group(r)

ChangeWaits(r) ==
    Is(r, Changes) =>
    /\ Stage(r) = "group" => Unheld(r)
    /\ Stage(r) = "row" => Only(Wanted(r), {"row"}) /\ (Is(r, Edits) => Unheld(r))
    /\ Stage(r) = "settle" => Only(Wanted(r), {"share"})
    /\ Stage(r) = "commit" => Only(Wanted(r), {"share"}) /\ (~Is(r, Edits) => req[r].todo = <<>>)
    /\ Only(Locks(r), {"group", "row", "share"})
    /\ ~Is(r, Edits) => \A l \in Locks(r) : l[1] = "row" => l[2][1] = Group(r)

GroupWaits(r) ==
    Is(r, {"delete", "sweep"}) =>
        (Stage(r) = "group" => Unheld(r)) /\ (Stage(r) = "commit" => req[r].todo = <<>>)

InviteWaits(r) == Is(r, InviteOps) => (Stage(r) = "invite" => Unheld(r))

FriendWaits(r) ==
    Is(r, Friendly) =>
    /\ Only(Locks(r), {"bond", "block", "share"})
    /\ Is(r, {"send", "withdraw", "unblock"}) =>
          /\ Stage(r) \in {"insert", "request", "unblock"} => Unheld(r)
          /\ Stage(r) = "people" => Only(Wanted(r), {"share"})
          /\ Stage(r) = "commit" => req[r].todo = <<>>

\* The id of an unlink stays with the person it locked.
UnlinkWaits(r) ==
    LET u == Op(r).users[1] IN
    Is(r, {"unlink"}) =>
    /\ Stage(r) = "person" => Unheld(r)
    /\ Stage(r) = "commit" => Only(Wanted(r), {"code"}) /\ personOf[u] = Person(r)
    /\ Only(Locks(r), {"erase", "code"})
    /\ \A l \in Locks(r) : l[1] = "code" => l[2][1] = u

Waiting(r) ==
    EntryWaits(r) /\ ChangeWaits(r) /\ GroupWaits(r) /\ InviteWaits(r) /\ FriendWaits(r) /\ UnlinkWaits(r)

\* Where a step goes: to a stage, with its locks to take before it.
Heads(r, stage, locks) ==
    /\ Stage(r)' = stage /\ req'[r].todo = locks /\ held'[r] = Locks(r)
    /\ Wanted(r)' = Elements(locks) /\ Locks(r)' = Locks(r) \cup Elements(locks)

LEMMA HeadsFor ==
    ASSUME Base, NEW r \in Reqs, NEW stage, NEW locks, NEW next, Goes(r, next),
           next.at = stage, next.todo = locks
    PROVE  Heads(r, stage, locks) /\ req'[r] = next
<1>1. req'[r] = next /\ held'[r] = Locks(r)
  BY DEF Goes, Base, Shaped, Locks
<1>. QED
  BY <1>1 DEF Heads, Stage, Wanted, Elements, Locks

LEMMA HeadsTo ==
    ASSUME Base, NEW r \in Reqs, NEW stage, NEW locks
    PROVE  /\ Goes(r, To(r, stage, locks)) => Heads(r, stage, locks)
           /\ \A who : Goes(r, [To(r, stage, locks) EXCEPT !.who = who]) => Heads(r, stage, locks)
           /\ \A rows : Goes(r, [To(r, stage, locks) EXCEPT !.rows = rows]) => Heads(r, stage, locks)
           /\ \A found : Goes(r, [To(r, stage, locks) EXCEPT !.found = found]) => Heads(r, stage, locks)
           /\ \A who, seen : Goes(r, [To(r, stage, locks) EXCEPT !.who = who, !.seen = seen])
                                => Heads(r, stage, locks)
           /\ \A who, fresh : Goes(r, [To(r, stage, locks) EXCEPT !.who = who, !.fresh = fresh])
                                => Heads(r, stage, locks)
           /\ \A who, rows : Goes(r, [To(r, stage, locks) EXCEPT !.who = who, !.rows = rows])
                                => Heads(r, stage, locks)
           /\ \A rows, fresh : Goes(r, [To(r, stage, locks) EXCEPT !.rows = rows, !.fresh = fresh])
                                => Heads(r, stage, locks)
           /\ \A who, rows, fresh :
                 Goes(r, [To(r, stage, locks) EXCEPT !.who = who, !.rows = rows, !.fresh = fresh])
                                => Heads(r, stage, locks)
           /\ \A who, rows, seen :
                 Goes(r, [To(r, stage, locks) EXCEPT !.who = who, !.rows = rows, !.seen = seen])
                                => Heads(r, stage, locks)
           /\ \A rows, fresh, found :
                 Goes(r, [To(r, stage, locks) EXCEPT !.rows = rows, !.fresh = fresh, !.found = found])
                                => Heads(r, stage, locks)
<1>. DEFINE next == To(r, stage, locks)
<1>0. Typed(r)
  BY DEF Base
<1>1. next.at = stage /\ next.todo = locks
  BY <1>0 DEF To, Typed, Record
<1>2. /\ \A who : [next EXCEPT !.who = who].at = stage /\ [next EXCEPT !.who = who].todo = locks
      /\ \A rows : [next EXCEPT !.rows = rows].at = stage /\ [next EXCEPT !.rows = rows].todo = locks
      /\ \A found : [next EXCEPT !.found = found].at = stage /\ [next EXCEPT !.found = found].todo = locks
  BY <1>0 DEF To, Typed, Record
<1>3. /\ \A who, seen : /\ [next EXCEPT !.who = who, !.seen = seen].at = stage
                        /\ [next EXCEPT !.who = who, !.seen = seen].todo = locks
      /\ \A who, fresh : /\ [next EXCEPT !.who = who, !.fresh = fresh].at = stage
                         /\ [next EXCEPT !.who = who, !.fresh = fresh].todo = locks
      /\ \A who, rows : /\ [next EXCEPT !.who = who, !.rows = rows].at = stage
                        /\ [next EXCEPT !.who = who, !.rows = rows].todo = locks
      /\ \A rows, fresh : /\ [next EXCEPT !.rows = rows, !.fresh = fresh].at = stage
                          /\ [next EXCEPT !.rows = rows, !.fresh = fresh].todo = locks
  BY <1>0 DEF To, Typed, Record
<1>. HIDE DEF next
<1>5. \A to : Goes(r, to) /\ to.at = stage /\ to.todo = locks => Heads(r, stage, locks)
  BY HeadsFor
<1>6. /\ Goes(r, next) => Heads(r, stage, locks)
      /\ \A who : Goes(r, [next EXCEPT !.who = who]) => Heads(r, stage, locks)
      /\ \A rows : Goes(r, [next EXCEPT !.rows = rows]) => Heads(r, stage, locks)
      /\ \A found : Goes(r, [next EXCEPT !.found = found]) => Heads(r, stage, locks)
  BY <1>1, <1>2, <1>5
<1>7. /\ \A who, seen : Goes(r, [next EXCEPT !.who = who, !.seen = seen]) => Heads(r, stage, locks)
      /\ \A who, fresh : Goes(r, [next EXCEPT !.who = who, !.fresh = fresh]) => Heads(r, stage, locks)
      /\ \A who, rows : Goes(r, [next EXCEPT !.who = who, !.rows = rows]) => Heads(r, stage, locks)
      /\ \A rows, fresh : Goes(r, [next EXCEPT !.rows = rows, !.fresh = fresh]) => Heads(r, stage, locks)
  BY <1>3, <1>5
<1>8. \A who, rows, fresh : Goes(r, [next EXCEPT !.who = who, !.rows = rows, !.fresh = fresh])
                              => Heads(r, stage, locks)
  <2>. TAKE who, rows, fresh
  <2>. DEFINE to == [next EXCEPT !.who = who, !.rows = rows, !.fresh = fresh]
  <2>1. to.at = stage /\ to.todo = locks
    BY <1>0 DEF next, To, Typed, Record
  <2>. HIDE DEF to
  <2>2. Goes(r, to) => Heads(r, stage, locks)
    BY <2>1, <1>5
  <2>. QED
    BY <2>2 DEF to
<1>9. \A who, rows, seen : Goes(r, [next EXCEPT !.who = who, !.rows = rows, !.seen = seen])
                              => Heads(r, stage, locks)
  <2>. TAKE who, rows, seen
  <2>. DEFINE to == [next EXCEPT !.who = who, !.rows = rows, !.seen = seen]
  <2>1. to.at = stage /\ to.todo = locks
    BY <1>0 DEF next, To, Typed, Record
  <2>. HIDE DEF to
  <2>2. Goes(r, to) => Heads(r, stage, locks)
    BY <2>1, <1>5
  <2>. QED
    BY <2>2 DEF to
<1>10. \A rows, fresh, found : Goes(r, [next EXCEPT !.rows = rows, !.fresh = fresh, !.found = found])
                              => Heads(r, stage, locks)
  <2>. TAKE rows, fresh, found
  <2>. DEFINE to == [next EXCEPT !.rows = rows, !.fresh = fresh, !.found = found]
  <2>1. to.at = stage /\ to.todo = locks
    BY <1>0 DEF next, To, Typed, Record
  <2>. HIDE DEF to
  <2>2. Goes(r, to) => Heads(r, stage, locks)
    BY <2>1, <1>5
  <2>. QED
    BY <2>2 DEF to
<1>. QED
  BY <1>6, <1>7, <1>8, <1>9, <1>10 DEF next

LEMMA OwnKinds ==
    ASSUME NEW r, Op(r)' = Op(r)
    PROVE  Group(r)' = Group(r) /\ \A kinds : Is(r, kinds)' <=> Is(r, kinds)
  BY DEF Group, Is

LEMMA DoneWaits ==
    ASSUME NEW r, Stage(r)' = "done", Locks(r)' = {}, held'[r] = {}, req'[r].todo = <<>>
    PROVE  Waiting(r)'
<1>1. Wanted(r)' = {}
  BY DEF Locks
<1>2. EntryWaits(r)' /\ ChangeWaits(r)'
  BY <1>1 DEF EntryWaits, ChangeWaits, Only
<1>3. GroupWaits(r)' /\ InviteWaits(r)' /\ FriendWaits(r)' /\ UnlinkWaits(r)'
  BY <1>1 DEF GroupWaits, InviteWaits, FriendWaits, UnlinkWaits, Only
<1>. QED
  BY <1>2, <1>3 DEF Waiting

\* A request that is done, or back at its first lock, holds nothing.
LEMMA Emptied ==
    ASSUME Base, NEW r \in Reqs, NEW answer, Answer(r, answer)
    PROVE  Stage(r)' = "done" /\ Locks(r)' = {} /\ held'[r] = {} /\ req'[r].todo = <<>>
<1>1. Typed(r)
  BY DEF Base
<1>2. req'[r] = [To(r, "done", <<>>) EXCEPT !.answer = answer] /\ held'[r] = {}
  BY DEF Answer, Base, Shaped
<1>3. Stage(r)' = "done" /\ req'[r].todo = <<>>
  BY <1>1, <1>2 DEF To, Typed, Record, Stage
<1>. QED
  BY <1>2, <1>3 DEF Locks, Wanted

LEMMA Restarted ==
    ASSUME Base, NEW r \in Reqs, NEW stage, NEW locks, Again(r, stage, locks), Len(locks) <= 1
    PROVE  \/ Waiting(r)' /\ Stage(r)' = "done"
           \/ Stage(r)' = stage /\ Unheld(r)' /\ Wanted(r)' = Elements(locks) /\ Locks(r)' = Elements(locks)
<1>1. CASE Answer(r, "error")
  BY <1>1, Emptied, DoneWaits
<1>2. CASE req' = [req EXCEPT ![r] = [To(r, stage, locks) EXCEPT !.again = TRUE]]
           /\ held' = [held EXCEPT ![r] = {}]
  <2>1. Typed(r)
    BY DEF Base
  <2>2. req'[r] = [To(r, stage, locks) EXCEPT !.again = TRUE] /\ held'[r] = {}
    BY <1>2 DEF Base, Shaped
  <2>3. req'[r].at = stage /\ req'[r].todo = locks
    BY <2>1, <2>2 DEF To, Typed, Record
  <2>4. Wanted(r)' = Elements(locks)
    BY <2>3 DEF Wanted, Elements
  <2>. QED
    BY <2>2, <2>3, <2>4 DEF Unheld, Stage, Locks
<1>. QED
  BY <1>1, <1>2 DEF Again
-----------------------------------------------------------------------------
(* Where requests wait for each other in a cycle                           *)

\* Nothing in a cycle is there for nothing: each request keeps another waiting.
LEMMA CycleHolds ==
    ASSUME Base, NEW S, S \subseteq Reqs, Cycle(S), NEW r \in S
    PROVE  /\ held[r] # {} /\ req[r].todo # <<>>
           /\ Head(req[r].todo) = req[r].todo[1] /\ 1 \in 1 .. Len(req[r].todo)
           /\ Head(req[r].todo) \in Wanted(r)
           /\ \E q \in S : q # r /\ \E m \in held[q] : Conflict(Head(req[r].todo), m)
<1>1. \A q \in S : req[q].todo # <<>> /\ Blockers(q, Head(req[q].todo)) \cap S # {}
  BY DEF Cycle, Deadlocked
<1>2. req[r].todo \in Seq(Lock) /\ req[r].todo # <<>>
  BY <1>1 DEF Base, Typed, Record
<1>3. Head(req[r].todo) = req[r].todo[1] /\ 1 \in 1 .. Len(req[r].todo)
  BY <1>2, HeadTailProperties, EmptySeq, LenProperties
<1>4. \E q \in S : q # r /\ \E m \in held[q] : Conflict(Head(req[r].todo), m)
  BY <1>1 DEF Blockers
<1>5. held[r] # {}
  <2>. DEFINE T == S \ {r}
  <2>1. T # {} /\ T # S /\ T \in SUBSET S
    BY <1>4
  <2>2. ~Deadlocked(T)
    BY <2>1 DEF Cycle
  <2>3. PICK q \in T : ~(req[q].todo # <<>> /\ Blockers(q, Head(req[q].todo)) \cap T # {})
    BY <2>2 DEF Deadlocked
  <2>4. r \in Blockers(q, Head(req[q].todo))
    BY <1>1, <2>3
  <2>. QED
    BY <2>4 DEF Blockers
<1>. QED
  BY <1>2, <1>3, <1>4, <1>5 DEF Wanted

LEMMA KindsOf ==
    ASSUME NEW r, Typed(r), ~Is(r, Backward)
    PROVE  \/ Is(r, Entries) \/ Is(r, Changes) \/ Is(r, {"delete", "sweep"}) \/ Is(r, InviteOps)
           \/ Is(r, {"send", "withdraw", "unblock"}) /\ Is(r, Friendly)
           \/ Is(r, Loose) /\ Is(r, Friendly)
           \/ Is(r, {"unlink"})
<1>1. Op(r).kind \in Entries \cup Changes \cup GroupOps \cup InviteOps \cup Sends \cup Answerings \cup Endings
                       \cup LinkOps
  BY DEF Typed, Legal
<1>. QED
  BY <1>1 DEF Is, Backward, Loose, GroupOps, Friendly, Sends, Answerings, Endings, LinkOps

\* The waits that are left in a cycle without them: for rows, counts and
\* invitations, and those of friends.
LEMMA CycleWaits ==
    ASSUME Base, \A x \in Reqs : Waiting(x), NEW S, S \subseteq Reqs, Cycle(S), \A x \in S : ~Is(x, Backward),
           NEW r \in S
    PROVE  \/ Is(r, Entries) /\ Stage(r) \in {"rows", "row", "counts", "invite"}
           \/ Is(r, Changes) /\ ~Is(r, Edits) /\ Stage(r) = "row"
           \/ Is(r, Loose) /\ Is(r, Friendly)
<1>. DEFINE Start(x) == Head(req[x].todo)
<1>0. /\ \A x \in S : /\ Typed(x) /\ Staged(x) /\ Waiting(x) /\ x \in Reqs
                      /\ held[x] # {} /\ req[x].todo # <<>> /\ Start(x) \in Wanted(x)
                      /\ \E q \in S : q # x /\ \E m \in held[q] : Conflict(Start(x), m)
      /\ Exclusive
  <2>1. ASSUME NEW x \in S
        PROVE  /\ Typed(x) /\ Staged(x) /\ Waiting(x) /\ x \in Reqs
               /\ held[x] # {} /\ req[x].todo # <<>> /\ Start(x) \in Wanted(x)
               /\ \E q \in S : q # x /\ \E m \in held[q] : Conflict(Start(x), m)
    BY <2>1, CycleHolds DEF Base
  <2>. QED
    BY <2>1 DEF Base
<1>1. \A x \in S : ~Unheld(x) /\ Stage(x) \notin {"begin", "done"}
  BY <1>0 DEF Unheld, Staged, Unbegun
<1>2. ASSUME NEW x \in S
      PROVE  ~Is(x, {"delete", "sweep"}) /\ ~Is(x, InviteOps)
  <2>1. GroupStaged(x) /\ InviteStaged(x) /\ GroupWaits(x) /\ InviteWaits(x) /\ req[x].todo # <<>>
    BY <1>0 DEF Staged, Waiting
  <2>2. ~Is(x, {"delete", "sweep"})
    BY <1>1, <2>1 DEF GroupStaged, GroupWaits, Is, GroupOps
  <2>3. ~Is(x, InviteOps)
    BY <1>1, <2>1 DEF InviteStaged, InviteWaits
  <2>. QED
    BY <2>2, <2>3
<1>3. ASSUME NEW x \in S, Is(x, {"unlink"})
      PROVE  /\ Stage(x) = "commit" /\ <<"erase", Person(x)>> \in held[x] /\ Only(Wanted(x), {"code"})
             /\ personOf[Op(x).users[1]] = Person(x)
             /\ \A l \in Locks(x) : l[1] = "code" => l[2][1] = Op(x).users[1]
  <2>1. LinkStaged(x) /\ UnlinkWaits(x) /\ Is(x, LinkOps)
    BY <1>0, <1>3 DEF Staged, Waiting, Is, LinkOps
  <2>. QED
    BY <1>1, <1>3, <2>1 DEF LinkStaged, UnlinkWaits
\* Only unlinks hold codes and people.
<1>4. ASSUME NEW x \in S, NEW l \in held[x], l[1] \in {"code", "erase"}
      PROVE  Is(x, {"unlink"})
  <2>1. l \in Locks(x) /\ Typed(x) /\ Waiting(x) /\ ~Is(x, Backward)
    BY <1>0, <1>4 DEF Locks
  <2>2. ~Is(x, Entries) /\ ~Is(x, Changes) /\ ~Is(x, Friendly)
    BY <1>4, <2>1 DEF Waiting, EntryWaits, ChangeWaits, FriendWaits, Only
  <2>. QED
    BY <1>2, <2>1, <2>2, KindsOf
\* Two unlinks that wait for one code hold one person.
<1>5. ASSUME NEW x \in S
      PROVE  ~Is(x, {"unlink"})
  <2>1. SUFFICES ASSUME Is(x, {"unlink"}) PROVE FALSE
    OBVIOUS
  <2>2. PICK q \in S : q # x /\ \E m \in held[q] : Conflict(Start(x), m)
    BY <1>0
  <2>3. PICK m \in held[q] : Conflict(Start(x), m)
    BY <2>2
  <2>4. Start(x)[1] = "code" /\ Start(x) \in Locks(x)
    BY <1>0, <1>3, <2>1 DEF Only, Locks
  <2>5. m[1] = "code" /\ m[2] = Start(x)[2]
    BY <2>3, <2>4 DEF Conflict
  <2>6. Is(q, {"unlink"})
    BY <1>4, <2>5
  <2>7. Op(q).users[1] = Op(x).users[1]
    BY <1>3, <2>1, <2>4, <2>5, <2>6 DEF Locks
  <2>8. Conflict(<<"erase", Person(q)>>, <<"erase", Person(x)>>)
    BY <1>3, <2>1, <2>6, <2>7 DEF Conflict
  <2>. QED
    BY <1>0, <1>3, <2>1, <2>2, <2>6, <2>8 DEF Exclusive
\* Nobody waits for a share.
<1>6. ASSUME NEW x \in S
      PROVE  ~Only(Wanted(x), {"share"})
  <2>1. SUFFICES ASSUME Only(Wanted(x), {"share"}) PROVE FALSE
    OBVIOUS
  <2>2. PICK q \in S : \E m \in held[q] : Conflict(Start(x), m)
    BY <1>0
  <2>3. PICK m \in held[q] : Conflict(Start(x), m)
    BY <2>2
  <2>4. Start(x)[1] = "share"
    BY <1>0, <2>1 DEF Only
  <2>5. m[1] = "erase"
    BY <2>3, <2>4 DEF Conflict
  <2>. QED
    BY <1>4, <1>5, <2>5
<1>7. EntryStaged(r) /\ ChangeStaged(r) /\ FriendStaged(r) /\ EntryWaits(r) /\ ChangeWaits(r) /\ FriendWaits(r)
  BY <1>0 DEF Staged, Waiting
<1>8. CASE Is(r, Entries)
  <2>1. Stage(r) \in {"group"} \cup Inside
    BY <1>1, <1>7, <1>8 DEF EntryStaged
  <2>2. Stage(r) \notin {"group", "share", "commit"}
    BY <1>0, <1>1, <1>6, <1>7, <1>8 DEF EntryWaits
  <2>. QED
    BY <1>8, <2>1, <2>2 DEF Inside
<1>9. CASE Is(r, Changes)
  <2>1. Stage(r) \in {"group", "row", "settle", "commit"}
    BY <1>1, <1>7, <1>9 DEF ChangeStaged
  <2>2. Stage(r) = "row" /\ ~Is(r, Edits)
    BY <1>1, <1>6, <1>7, <1>9, <2>1 DEF ChangeWaits
  <2>. QED
    BY <1>9, <2>2
<1>10. CASE Is(r, {"send", "withdraw", "unblock"}) /\ Is(r, Friendly)
  <2>1. Stage(r) \in {"insert", "request", "unblock", "people", "commit"}
    BY <1>1, <1>7, <1>10 DEF FriendStaged, Is, Sends, Answerings, Endings
  <2>. QED
    BY <1>0, <1>1, <1>6, <1>7, <1>10, <2>1 DEF FriendWaits
<1>. QED
  BY <1>0, <1>2, <1>5, <1>8, <1>9, <1>10, KindsOf
\* A cycle of waits goes through requests that may form one, or is one of friends.
LEMMA CycleKinds ==
    ASSUME Base, \A x \in Reqs : Waiting(x), NEW S, S \subseteq Reqs, Cycle(S), \A x \in S : ~Is(x, Backward),
           NEW r \in S
    PROVE  Is(r, Loose)
<1>. DEFINE Start(x) == Head(req[x].todo)
            Meets(x, q, m) == q \in S /\ q # x /\ m \in held[q] /\ m[2] = Start(x)[2] /\ m[1] = Start(x)[1]
<1>1. ASSUME NEW x \in S
      PROVE  /\ \/ Is(x, Entries) /\ Stage(x) \in {"rows", "row", "counts", "invite"}
                \/ Is(x, Changes) /\ ~Is(x, Edits) /\ Stage(x) = "row"
                \/ Is(x, Loose) /\ Is(x, Friendly)
             /\ x \in Reqs /\ Start(x) \in Wanted(x) /\ Start(x) = req[x].todo[1] /\ 1 \in 1 .. Len(req[x].todo)
             /\ EntryStaged(x) /\ ChangeStaged(x) /\ EntryWaits(x) /\ ChangeWaits(x) /\ FriendWaits(x)
  <2>1. x \in Reqs /\ Staged(x) /\ Waiting(x)
    BY DEF Base
  <2>2. \/ Is(x, Entries) /\ Stage(x) \in {"rows", "row", "counts", "invite"}
        \/ Is(x, Changes) /\ ~Is(x, Edits) /\ Stage(x) = "row"
        \/ Is(x, Loose) /\ Is(x, Friendly)
    BY CycleWaits
  <2>3. Start(x) \in Wanted(x) /\ Start(x) = req[x].todo[1] /\ 1 \in 1 .. Len(req[x].todo)
    BY CycleHolds
  <2>. QED
    BY <2>1, <2>2, <2>3 DEF Staged, Waiting
<1>2. ASSUME NEW x \in S, Start(x)[1] \in {"row", "count", "invite"}
      PROVE  \E q, m : Meets(x, q, m)
  <2>1. PICK q \in S : q # x /\ \E m \in held[q] : Conflict(Start(x), m)
    BY CycleHolds
  <2>2. PICK m \in held[q] : Conflict(Start(x), m)
    BY <2>1
  <2>. QED
    BY <1>2, <2>1, <2>2 DEF Conflict
<1>3. ASSUME NEW x \in S, NEW l \in Locks(x), l[1] = "row"
      PROVE  l[2][1] = Group(x) /\ <<"group", Group(x)>> \in held[x]
  <2>1. ~Is(x, Friendly)
    BY <1>1, <1>3 DEF FriendWaits, Only
  <2>2. CASE Is(x, Entries) /\ Stage(x) \in {"rows", "row", "counts", "invite"}
    BY <1>1, <1>3, <2>2 DEF EntryStaged, EntryWaits, Inside
  <2>3. CASE Is(x, Changes) /\ ~Is(x, Edits) /\ Stage(x) = "row"
    BY <1>1, <1>3, <2>3 DEF ChangeStaged, ChangeWaits
  <2>. QED
    BY <1>1, <2>1, <2>2, <2>3
\* Rows are locked inside their groups.
<1>4. ASSUME NEW x \in S
      PROVE  Start(x)[1] # "row"
  <2>1. SUFFICES ASSUME Start(x)[1] = "row" PROVE FALSE
    OBVIOUS
  <2>2. PICK q, m : Meets(x, q, m)
    BY <1>2, <2>1
  <2>3. Start(x) \in Locks(x) /\ m \in Locks(q) /\ m[1] = "row" /\ m[2] = Start(x)[2] /\ q \in S
    BY <1>1, <2>1, <2>2 DEF Locks
  <2>4. Start(x)[2][1] = Group(x) /\ <<"group", Group(x)>> \in held[x]
    BY <1>3, <2>1, <2>3
  <2>5. m[2][1] = Group(q) /\ <<"group", Group(q)>> \in held[q]
    BY <1>3, <2>3
  <2>6. Conflict(<<"group", Group(x)>>, <<"group", Group(q)>>)
    BY <2>3, <2>4, <2>5 DEF Conflict
  <2>. QED
    BY <1>1, <2>2, <2>3, <2>4, <2>5, <2>6 DEF Base, Exclusive
<1>5. ASSUME NEW x \in S
      PROVE  \/ Is(x, Entries) /\ Stage(x) \in {"counts", "invite"}
             \/ Is(x, Loose) /\ Is(x, Friendly)
  <2>1. CASE Is(x, Entries) /\ Stage(x) \in {"rows", "row"}
    BY <1>1, <1>4, <2>1 DEF EntryWaits, Only
  <2>2. CASE Is(x, Changes) /\ Stage(x) = "row"
    BY <1>1, <1>4, <2>2 DEF ChangeWaits, Only
  <2>. QED
    BY <1>1, <2>1, <2>2
\* An invitation is locked after the counts.
<1>6. ASSUME NEW x \in S, Is(x, Entries), Stage(x) = "invite"
      PROVE  FALSE
  <2>1. Start(x)[1] = "invite"
    BY <1>1, <1>6 DEF EntryWaits, Only
  <2>2. PICK q, m : Meets(x, q, m)
    BY <1>2, <2>1
  <2>3. m[1] = "invite" /\ m \in Locks(q)
    BY <2>1, <2>2 DEF Locks
  <2>4. ~Is(q, Friendly)
    BY <1>1, <2>2, <2>3 DEF FriendWaits, Only
  <2>. QED
    BY <1>1, <1>5, <2>2, <2>3, <2>4 DEF EntryWaits, Only
\* Of the requests that wait for a count, those that wait for a later one than
\* another does would be a cycle without it.
<1>7. ASSUME NEW x \in S, Is(x, Entries), Stage(x) = "counts"
      PROVE  FALSE
  <2>. DEFINE Rank(y) == KeyRank[Start(y)[2]]
              Counting(y) == Is(y, Entries) /\ Stage(y) = "counts"
              T == {y \in S : Counting(y) /\ Rank(x) < Rank(y)}
  <2>1. ASSUME NEW y \in S, Counting(y)
        PROVE  Start(y)[1] = "count" /\ Rank(y) \in Nat /\ Ascending(y)
    <3>1. Ascending(y)
      BY <1>1, <2>1 DEF EntryWaits
    <3>2. Start(y) \in {"count"} \X (Kinds \X People)
      BY <1>1, <3>1 DEF Ascending
    <3>3. KeyRank \in [Kinds \X People -> Nat]
      BY MembershipsAssumption DEF Injection
    <3>. QED
      BY <3>1, <3>2, <3>3
  <2>2. ASSUME NEW y \in S, Counting(y)
        PROVE  \E q \in S : Counting(q) /\ Rank(y) < Rank(q) /\ q \in Blockers(y, Start(y))
    <3>1. PICK q, m : Meets(y, q, m)
      BY <1>2, <2>1, <2>2
    <3>2. m[1] = "count" /\ m \in Locks(q)
      BY <2>1, <2>2, <3>1 DEF Locks
    <3>3. ~Is(q, Friendly)
      BY <1>1, <3>1, <3>2 DEF FriendWaits, Only
    <3>4. Counting(q)
      BY <1>5, <1>6, <3>1, <3>3
    <3>5. KeyRank[m[2]] < Rank(q)
      BY <1>1, <2>1, <3>1, <3>2, <3>4 DEF Ascending
    <3>6. q \in Blockers(y, Start(y))
      <4>1. q \in Reqs \ {y} /\ m \in held[q] /\ Conflict(Start(y), m)
        BY <1>1, <2>1, <2>2, <3>1, <3>2 DEF Conflict
      <4>. QED
        BY <4>1 DEF Blockers
    <3>. QED
      BY <3>1, <3>4, <3>5, <3>6
  <2>3. x \notin T /\ T # {} /\ T \in SUBSET S
    <3>1. ~(Rank(x) < Rank(x))
      BY <1>7, <2>1
    <3>2. T # {}
      BY <1>7, <2>2
    <3>. QED
      BY <3>1, <3>2
  <2>4. ASSUME NEW y \in T
        PROVE  req[y].todo # <<>> /\ Blockers(y, Head(req[y].todo)) \cap T # {}
    <3>1. PICK q \in S : Counting(q) /\ Rank(y) < Rank(q) /\ q \in Blockers(y, Start(y))
      BY <2>2
    <3>2. Rank(x) \in Nat /\ Rank(y) \in Nat /\ Rank(q) \in Nat /\ Rank(x) < Rank(y) /\ Rank(y) < Rank(q)
      BY <1>7, <2>1, <3>1
    <3>3. q \in T
      <4>. HIDE DEF Rank
      <4>1. Rank(x) < Rank(q)
        BY <3>2
      <4>. QED
        BY <3>1, <4>1
    <3>. QED
      BY <3>1, <3>3, CycleHolds
  <2>5. Deadlocked(T)
    BY <2>4 DEF Deadlocked
  <2>6. T \in (SUBSET S) \ {{}, S}
    BY <1>7, <2>3
  <2>. HIDE DEF T
  <2>. QED
    BY <2>5, <2>6 DEF Cycle
<1>. QED
  BY <1>5, <1>6, <1>7
-----------------------------------------------------------------------------
(* Every step keeps what requests wait for                                 *)

\* The counts of a statement in their one order.
LEMMA CountsAscend ==
    ASSUME NEW kinds, kinds \subseteq Kinds, NEW people, people \subseteq People,
           NEW s \in CountLocks(kinds, people)
    PROVE  /\ Elements(s) \subseteq {"count"} \X (Kinds \X People)
           /\ \A i, j \in 1 .. Len(s) : i < j => KeyRank[s[i][2]] < KeyRank[s[j][2]]
<1>1. s \in Seq(Lock) /\ Elements(s) = CountKeys(kinds, people)
  BY CountOrder
<1>2. \A i, j \in DOMAIN s : i < j => KeyRank[s[i][2]] < KeyRank[s[j][2]]
  BY DEF CountLocks, Sorted
<1>3. DOMAIN s = 1 .. Len(s)
  BY <1>1, LenProperties
<1>. QED
  BY <1>1, <1>2, <1>3 DEF CountKeys

LEMMA EntryHeads ==
    ASSUME NEW r, EntryWaits(r), Is(r, Entries), Op(r)' = Op(r),
           NEW stage, NEW locks, Heads(r, stage, locks)
    PROVE  /\ \/ stage = "group" /\ Locks(r) = {} /\ locks = GroupLock(Group(r))
              \/ /\ stage = "rows" /\ Only(Locks(r), {"group", "row"}) /\ ~Is(r, {"create"})
                 /\ \E rows \in SUBSET InGroup(Group(r)) : Elements(locks) = RowLocks(rows)
              \/ /\ stage = "invite" /\ Only(Locks(r), {"group", "row", "count"})
                 /\ locks = <<<<"invite", Op(r).item>>>>
              \/ stage = "share" /\ \E people : Elements(locks) = ShareLocks(people)
              \/ stage = "commit" /\ locks = <<>>
              \/ /\ stage = "row"
                 /\ \E rows \in SUBSET InGroup(Group(r)) :
                       Elements(locks) = RowLocks(rows) /\ (Is(r, {"create"}) => rows = {})
              => EntryWaits(r)'
           /\ /\ stage = "counts" /\ Only(Locks(r), {"group", "row"})
              /\ \E people \in SUBSET People : locks \in CountLocks({KindOf[Group(r)]}, people)
              /\ Group(r) \in Groups
              => EntryWaits(r)'
<1>. DEFINE g == Group(r)
            Fine(l) == /\ l[1] \in {"group", "row", "count", "invite", "share"}
                       /\ l[1] = "row" => ~Is(r, {"create"}) /\ l[2][1] = g
<1>0. /\ Stage(r)' = stage /\ req'[r].todo = locks /\ held'[r] = Locks(r)
      /\ Wanted(r)' = Elements(locks) /\ Locks(r)' = Locks(r) \cup Elements(locks)
      /\ Group(r)' = g /\ (\A kinds : Is(r, kinds)' <=> Is(r, kinds))
      /\ \A l \in Locks(r) : Fine(l)
  BY OwnKinds DEF Heads, EntryWaits, Only
<1>1. ASSUME \A l \in Elements(locks) : Fine(l)
      PROVE  /\ Only(Locks(r), {"group", "row", "count", "invite", "share"})'
             /\ \A l \in Locks(r)' : l[1] = "row" => ~Is(r, {"create"})' /\ l[2][1] = Group(r)'
  BY <1>0, <1>1 DEF Only
<1>2. ASSUME stage = "group", Locks(r) = {}, locks = GroupLock(g)
      PROVE  EntryWaits(r)'
  <2>1. Elements(locks) = {<<"group", g>>} /\ Len(locks) = 1
    BY <1>2, ElementsOf DEF GroupLock
  <2>. QED
    BY <1>0, <1>1, <1>2, <2>1 DEF EntryWaits, Unheld, Only
<1>3. ASSUME stage = "rows", Only(Locks(r), {"group", "row"}), ~Is(r, {"create"}),
             NEW rows \in SUBSET InGroup(g), Elements(locks) = RowLocks(rows)
      PROVE  EntryWaits(r)'
  <2>1. \A l \in Elements(locks) : l[1] = "row" /\ Fine(l)
    BY <1>3 DEF RowLocks, InGroup
  <2>. QED
    BY <1>0, <1>1, <1>3, <2>1 DEF EntryWaits, Only
<1>4. ASSUME stage = "invite", Only(Locks(r), {"group", "row", "count"}), locks = <<<<"invite", Op(r).item>>>>
      PROVE  EntryWaits(r)'
  <2>1. Elements(locks) = {<<"invite", Op(r).item>>} /\ Len(locks) = 1
    BY <1>4, ElementsOf
  <2>. QED
    BY <1>0, <1>1, <1>4, <2>1 DEF EntryWaits, Only
<1>5. ASSUME stage = "share", NEW people, Elements(locks) = ShareLocks(people)
      PROVE  EntryWaits(r)'
  <2>1. \A l \in Elements(locks) : l[1] = "share" /\ Fine(l)
    BY <1>5 DEF ShareLocks
  <2>. QED
    BY <1>0, <1>1, <1>5, <2>1 DEF EntryWaits, Only
<1>6. ASSUME stage = "commit", locks = <<>>
      PROVE  EntryWaits(r)'
  <2>1. Elements(locks) = {}
    BY <1>6, NoLocks
  <2>. QED
    BY <1>0, <1>1, <1>6, <2>1 DEF EntryWaits, Only
<1>7. ASSUME stage = "row", NEW rows \in SUBSET InGroup(g), Elements(locks) = RowLocks(rows),
             Is(r, {"create"}) => rows = {}
      PROVE  EntryWaits(r)'
  <2>1. \A l \in Elements(locks) : l[1] = "row" /\ Fine(l)
    BY <1>7 DEF RowLocks, InGroup
  <2>. QED
    BY <1>0, <1>1, <1>7, <2>1 DEF EntryWaits, Only
<1>8. ASSUME stage = "counts", Only(Locks(r), {"group", "row"}), g \in Groups,
             NEW people \in SUBSET People, locks \in CountLocks({KindOf[g]}, people)
      PROVE  EntryWaits(r)'
  <2>1. /\ Elements(locks) \subseteq {"count"} \X (Kinds \X People)
        /\ \A i, j \in 1 .. Len(locks) : i < j => KeyRank[locks[i][2]] < KeyRank[locks[j][2]]
    BY <1>8, CountsAscend DEF Kinds
  <2>2. \A l \in Elements(locks) : Fine(l)
    BY <2>1
  <2>3. Ascending(r)'
    BY <1>0, <1>8, <2>1 DEF Ascending, Only
  <2>. QED
    BY <1>0, <1>1, <1>8, <2>2, <2>3 DEF EntryWaits, Only
<1>. QED
  BY <1>2, <1>3, <1>4, <1>5, <1>6, <1>7, <1>8
LEMMA EntryStep ==
    ASSUME Base, NEW r \in Reqs, Waiting(r), Entry(r)
    PROVE  EntryWaits(r)'
<1>. DEFINE g == Group(r)
            Quits == \E answer \in Answers : Answer(r, answer)
<1>0. /\ EntryWaits(r) /\ Typed(r) /\ EntryStaged(r) /\ Unbegun(r) /\ RowTypes /\ Is(r, Entries)
      /\ Op(r)' = Op(r) /\ g \in Groups /\ KindOf[g] \in Kinds
  <2>1. Entry(r) => Is(r, Entries)
    BY DEF Entry, BeginEntry, BeginImport, BeginCreate, EnterGroup, ImportPeople, ImportRows, EnterCounts,
       EnterInvite, EnterRow, EnterShare, CommitEntry, Is, Entries
  <2>2. Op(r)' = Op(r)
    <3>1. Progress(r)
      BY BeginEntryProgress, BeginImportProgress, BeginCreateProgress, EnterGroupProgress,
         ImportPeopleProgress, ImportRowsProgress, EnterCountsProgress, EnterInviteProgress,
         EnterRowProgress, EnterShareProgress, CommitEntryProgress DEF Entry
    <3>. QED
      BY <3>1 DEF Progress
  <2>3. g \in Groups /\ KindOf[g] \in Kinds
    BY <2>1, Names DEF Base, Is, Kinds
  <2>. QED
    BY <2>1, <2>2, <2>3 DEF Base, Waiting, Staged
<1>1. CASE Quits
  BY <1>1, Emptied, DoneWaits DEF Waiting
<1>2. \A p : p \in People => {p} \subseteq People
  OBVIOUS
<1>3. CASE (BeginEntry(r) \/ BeginImport(r)) /\ ~Quits
  <2>1. Locks(r) = {} /\ Stage(r) = "begin"
    BY <1>0, <1>3 DEF Unbegun, Stage, BeginEntry, BeginImport, At, Locks, Wanted
  <2>2. \/ \E who, seen : Goes(r, [To(r, "group", GroupLock(g)) EXCEPT !.who = who, !.seen = seen])
        \/ Goes(r, To(r, "group", GroupLock(g)))
    BY <1>3 DEF BeginEntry, BeginImport, Answers
  <2>3. Heads(r, "group", GroupLock(g))
    BY <2>2, HeadsTo
  <2>. QED
    BY <1>0, <2>1, <2>3, EntryHeads
<1>4. CASE BeginCreate(r)
  <2>1. Locks(r) = {} /\ Stage(r) = "begin" /\ Op(r).users[1] \in Users
    BY <1>0, <1>4, Names DEF Unbegun, Stage, BeginCreate, At, Locks, Wanted, Is, Entries
  <2>2. PICK p \in People : p = personOf[Op(r).users[1]]
    BY <1>0, <2>1 DEF RowTypes
  <2>3. PICK locks \in CountLocks({KindOf[g]}, {p}) :
            \E who, fresh : Goes(r, [To(r, "counts", locks) EXCEPT !.who = who, !.fresh = fresh])
    BY <1>4, <2>2 DEF BeginCreate
  <2>4. Heads(r, "counts", locks)
    BY <2>3, HeadsTo
  <2>. QED
    BY <1>0, <1>2, <2>1, <2>3, <2>4, EntryHeads DEF Only
<1>5. CASE EnterGroup(r) /\ ~Quits
  <2>1. Stage(r) = "group" /\ Is(r, {"join", "add", "accept"})
    BY <1>5 DEF Stage, EnterGroup, At
  <2>2. Only(Locks(r), {"group", "row"})
    BY <1>0, <2>1 DEF EntryWaits, Unheld, Only, Locks
  <2>3. Len(req[r].who) = 1
    BY <1>0, <2>1 DEF EntryStaged, Is, Entries
  <2>4. PICK p \in People : p = Person(r)
    BY <1>0, <2>3 DEF Person, Typed, Record
  <2>5. PICK locks \in CountLocks({KindOf[g]}, {p}) :
            \E rows, fresh : Goes(r, [To(r, "counts", locks) EXCEPT !.rows = rows, !.fresh = fresh])
    BY <1>5, <2>4 DEF EnterGroup, Answers
  <2>6. Heads(r, "counts", locks)
    BY <2>5, HeadsTo
  <2>. QED
    BY <1>0, <1>2, <2>2, <2>5, <2>6, EntryHeads
<1>6. CASE ImportPeople(r) /\ ~Quits
  <2>1. Stage(r) = "group" /\ Is(r, {"import"}) /\ ~Is(r, {"create"})
    BY <1>6 DEF Stage, ImportPeople, At, Is
  <2>2. Only(Locks(r), {"group", "row"})
    BY <1>0, <2>1 DEF EntryWaits, Unheld, Only, Locks
  <2>3. PICK who, rows : /\ rows = UNION {RowsOf(g, who[i]) : i \in DOMAIN who}
                         /\ \E order \in Orders(RowLocks(rows)) :
                               Goes(r, [To(r, "rows", order) EXCEPT !.who = who])
    BY <1>6 DEF ImportPeople, Answers
  <2>4. rows \in SUBSET InGroup(g) /\ rows \subseteq RowIds
    BY <2>3 DEF RowsOf, InGroup
  <2>5. PICK order \in Orders(RowLocks(rows)) : Goes(r, [To(r, "rows", order) EXCEPT !.who = who])
    BY <2>3
  <2>6. Heads(r, "rows", order) /\ Elements(order) = RowLocks(rows)
    BY <2>4, <2>5, HeadsTo, RowOrder
  <2>. QED
    BY <1>0, <2>1, <2>2, <2>4, <2>6, EntryHeads
<1>7. CASE ImportRows(r) /\ ~Quits
  <2>1. Stage(r) = "rows"
    BY <1>7 DEF Stage, ImportRows, At
  <2>2. Only(Locks(r), {"group", "row"})
    BY <1>0, <2>1 DEF EntryWaits, Only, Locks
  <2>3. PICK entering : /\ entering = {p \in Range(req[r].who) : Status(g, p) # "active"}
                        /\ \E locks \in CountLocks({KindOf[g]}, entering) : \E who, rows, fresh :
                              Goes(r, [To(r, "counts", locks) EXCEPT !.who = who, !.rows = rows, !.fresh = fresh])
    BY <1>7 DEF ImportRows, Answers
  <2>4. entering \subseteq People
    <3>1. req[r].who \in Seq(People)
      BY <1>0 DEF Typed, Record
    <3>2. Range(req[r].who) \subseteq People
      BY <3>1, ElementOfSeq DEF Range
    <3>. QED
      BY <2>3, <3>2
  <2>5. PICK locks \in CountLocks({KindOf[g]}, entering) : Heads(r, "counts", locks)
    BY <2>3, HeadsTo
  <2>. QED
    BY <1>0, <2>2, <2>4, <2>5, EntryHeads
<1>8. CASE EnterCounts(r) /\ ~Quits
  <2>1. Stage(r) = "counts"
    BY <1>8 DEF Stage, EnterCounts, At
  <2>2. Only(Locks(r), {"group", "row", "count"})
    BY <1>0, <2>1 DEF EntryWaits, Only, Locks, Ascending
  <2>3. /\ req[r].rows \in SUBSET InGroup(g) /\ req[r].rows \subseteq RowIds
        /\ Is(r, {"create"}) => req[r].rows = {}
    BY <1>0, <2>1 DEF EntryStaged, InGroup
  <2>4. \/ Goes(r, To(r, "invite", <<<<"invite", Op(r).item>>>>))
        \/ \E order \in Orders(RowLocks(req[r].rows)) : Goes(r, To(r, "row", order))
    BY <1>8 DEF EnterCounts, Answers
  <2>5. CASE Goes(r, To(r, "invite", <<<<"invite", Op(r).item>>>>))
    BY <1>0, <2>2, <2>5, HeadsTo, EntryHeads
  <2>6. ASSUME NEW order \in Orders(RowLocks(req[r].rows)), Goes(r, To(r, "row", order))
        PROVE  EntryWaits(r)'
    <3>1. Heads(r, "row", order) /\ Elements(order) = RowLocks(req[r].rows)
      BY <2>3, <2>6, HeadsTo, RowOrder
    <3>. QED
      BY <1>0, <2>3, <3>1, EntryHeads
  <2>. QED
    BY <2>4, <2>5, <2>6
<1>9. CASE EnterInvite(r) /\ ~Quits
  <2>1. Stage(r) = "invite"
    BY <1>9 DEF Stage, EnterInvite, At
  <2>2. /\ req[r].rows \in SUBSET InGroup(g) /\ req[r].rows \subseteq RowIds
        /\ Is(r, {"create"}) => req[r].rows = {}
    BY <1>0, <2>1 DEF EntryStaged, InGroup, Roomy
  <2>3. PICK order \in Orders(RowLocks(req[r].rows)) : Goes(r, To(r, "row", order))
    BY <1>9 DEF EnterInvite, Answers
  <2>4. Heads(r, "row", order) /\ Elements(order) = RowLocks(req[r].rows)
    BY <2>2, <2>3, HeadsTo, RowOrder
  <2>. QED
    BY <1>0, <2>2, <2>4, EntryHeads
<1>10. CASE EnterRow(r) /\ ~Quits
  <2>1. Stage(r) = "row"
    BY <1>10 DEF Stage, EnterRow, At
  <2>2. Is(r, {"add", "import", "kick"}) \/ Len(req[r].who) = 1
    BY <1>0, <2>1 DEF EntryStaged, Is
  <2>3. PICK order \in Orders(ShareLocks(Referred(r))) : Goes(r, To(r, "share", order))
    BY <1>10 DEF EnterRow, Answers
  <2>4. Heads(r, "share", order) /\ Elements(order) = ShareLocks(Referred(r))
    BY <1>0, <2>2, <2>3, HeadsTo, ReferredOrder
  <2>. QED
    BY <1>0, <2>4, EntryHeads
<1>11. CASE EnterShare(r) /\ ~Quits
  <2>1. CASE Goes(r, To(r, "commit", <<>>))
    BY <1>0, <2>1, HeadsTo, EntryHeads
  <2>2. CASE Again(r, "group", GroupLock(g))
    <3>1. Elements(GroupLock(g)) = {<<"group", g>>} /\ Len(GroupLock(g)) = 1
      BY ElementsOf DEF GroupLock
    <3>2. \/ Waiting(r)'
          \/ Stage(r)' = "group" /\ Unheld(r)' /\ Locks(r)' = {<<"group", g>>} /\ Wanted(r)' = {<<"group", g>>}
      BY <2>2, <3>1, Restarted
    <3>. QED
      BY <3>2 DEF EntryWaits, Only, Waiting
  <2>. QED
    BY <1>11, <2>1, <2>2 DEF EnterShare, Answers
<1>12. CASE CommitEntry(r)
  BY <1>1, <1>12 DEF CommitEntry, Answers
<1>. HIDE DEF Quits
<1>. QED
  BY <1>1, <1>3, <1>4, <1>5, <1>6, <1>7, <1>8, <1>9, <1>10, <1>11, <1>12 DEF Entry

LEMMA ChangeHeads ==
    ASSUME NEW r, ChangeWaits(r), Is(r, Changes), Op(r)' = Op(r),
           NEW stage, NEW locks, Heads(r, stage, locks),
           \/ stage = "group" /\ Locks(r) = {} /\ locks = GroupLock(Group(r))
           \/ stage = "row" /\ Is(r, Edits) /\ Locks(r) = {} /\ \E id : locks = <<<<"row", id>>>>
           \/ /\ stage = "row" /\ ~Is(r, Edits)
              /\ \E rows \in SUBSET InGroup(Group(r)) : Elements(locks) = RowLocks(rows)
           \/ stage = "settle" /\ \E people : Elements(locks) = ShareLocks(people)
           \/ stage = "commit" /\ Is(r, Edits) /\ locks = <<<<"share", Group(r)>>>>
           \/ stage = "commit" /\ locks = <<>>
    PROVE  ChangeWaits(r)'
<1>. DEFINE g == Group(r)
            Fine(l) == /\ l[1] \in {"group", "row", "share"}
                       /\ ~Is(r, Edits) /\ l[1] = "row" => l[2][1] = g
<1>0. /\ Stage(r)' = stage /\ req'[r].todo = locks /\ held'[r] = Locks(r)
      /\ Wanted(r)' = Elements(locks) /\ Locks(r)' = Locks(r) \cup Elements(locks)
      /\ Group(r)' = g /\ (\A kinds : Is(r, kinds)' <=> Is(r, kinds))
      /\ \A l \in Locks(r) : Fine(l)
  BY OwnKinds DEF Heads, ChangeWaits, Only
<1>1. ASSUME \A l \in Elements(locks) : Fine(l)
      PROVE  /\ Only(Locks(r), {"group", "row", "share"})'
             /\ ~Is(r, Edits)' => \A l \in Locks(r)' : l[1] = "row" => l[2][1] = Group(r)'
  BY <1>0, <1>1 DEF Only
<1>2. CASE stage = "group" /\ Locks(r) = {} /\ locks = GroupLock(g)
  <2>1. Elements(locks) = {<<"group", g>>} /\ Len(locks) = 1
    BY <1>2, ElementsOf DEF GroupLock
  <2>. QED
    BY <1>0, <1>1, <1>2, <2>1 DEF ChangeWaits, Unheld
<1>3. ASSUME stage = "row", Is(r, Edits), Locks(r) = {}, NEW id, locks = <<<<"row", id>>>>
      PROVE  ChangeWaits(r)'
  <2>1. Elements(locks) = {<<"row", id>>} /\ Len(locks) = 1
    BY <1>3, ElementsOf
  <2>. QED
    BY <1>0, <1>1, <1>3, <2>1 DEF ChangeWaits, Unheld, Only
<1>4. ASSUME stage = "row", ~Is(r, Edits), NEW rows \in SUBSET InGroup(g), Elements(locks) = RowLocks(rows)
      PROVE  ChangeWaits(r)'
  <2>1. \A l \in Elements(locks) : l[1] = "row" /\ Fine(l)
    BY <1>4 DEF RowLocks, InGroup
  <2>. QED
    BY <1>0, <1>1, <1>4, <2>1 DEF ChangeWaits, Only
<1>5. ASSUME stage = "settle", NEW people, Elements(locks) = ShareLocks(people)
      PROVE  ChangeWaits(r)'
  <2>1. \A l \in Elements(locks) : l[1] = "share" /\ Fine(l)
    BY <1>5 DEF ShareLocks
  <2>. QED
    BY <1>0, <1>1, <1>5, <2>1 DEF ChangeWaits, Only
<1>6. CASE stage = "commit" /\ Is(r, Edits) /\ locks = <<<<"share", g>>>>
  <2>1. Elements(locks) = {<<"share", g>>}
    BY <1>6, ElementsOf
  <2>. QED
    BY <1>0, <1>1, <1>6, <2>1 DEF ChangeWaits, Only
<1>7. CASE stage = "commit" /\ locks = <<>>
  <2>1. Elements(locks) = {}
    BY <1>7, NoLocks
  <2>. QED
    BY <1>0, <1>1, <1>7, <2>1 DEF ChangeWaits, Only
<1>. QED
  BY <1>2, <1>3, <1>4, <1>5, <1>6, <1>7

LEMMA ChangeStep ==
    ASSUME Base, NEW r \in Reqs, Waiting(r), Change(r)
    PROVE  ChangeWaits(r)'
<1>. DEFINE g == Group(r)
            Quits == \E answer \in Answers : Answer(r, answer)
<1>0. /\ ChangeWaits(r) /\ Typed(r) /\ ChangeStaged(r) /\ Unbegun(r) /\ RowTypes /\ Is(r, Changes)
      /\ Op(r)' = Op(r)
  <2>1. Change(r) => Is(r, Changes)
    BY DEF Change, BeginChange, ChangeGroup, ChangeRow, Settle, CommitChange
  <2>2. Progress(r)
    BY BeginChangeProgress, ChangeGroupProgress, ChangeRowProgress, SettleProgress,
       CommitChangeProgress DEF Change
  <2>. QED
    BY <2>1, <2>2 DEF Base, Waiting, Staged, Progress
<1>1. CASE Quits
  BY <1>1, Emptied, DoneWaits DEF Waiting
<1>2. CASE BeginChange(r) /\ ~Quits
  <2>1. Locks(r) = {}
    BY <1>0, <1>2 DEF Unbegun, Stage, BeginChange, At, Locks, Wanted
  <2>2. PICK rows, stage : /\ stage = (IF Is(r, Edits) THEN "row" ELSE "group")
                           /\ \E who, seen : Goes(r, [To(r, stage, ChangeLocks(r, rows)) EXCEPT
                                                          !.who = who, !.rows = rows, !.seen = seen])
    BY <1>2 DEF BeginChange, Answers
  <2>3. Heads(r, stage, ChangeLocks(r, rows))
    BY <2>2, HeadsTo
  <2>4. CASE Is(r, Edits)
    <3>1. PICK id : ChangeLocks(r, rows) = <<<<"row", id>>>>
      BY <2>4 DEF ChangeLocks
    <3>. QED
      BY <1>0, <2>1, <2>2, <2>3, <2>4, <3>1, ChangeHeads
  <2>5. CASE ~Is(r, Edits)
    BY <1>0, <2>1, <2>2, <2>3, <2>5, ChangeHeads DEF ChangeLocks
  <2>. QED
    BY <2>4, <2>5
<1>3. CASE ChangeGroup(r) /\ ~Quits
  <2>1. Stage(r) = "group" /\ ~Is(r, Edits) /\ req[r].rows \subseteq InGroup(g)
    BY <1>0, <1>3 DEF Stage, ChangeGroup, At, ChangeStaged
  <2>2. PICK rows : /\ rows = IF Is(r, {"ban"}) THEN RowsOf(g, Person(r)) ELSE req[r].rows
                    /\ \E order \in Orders(RowLocks(rows)) : \E fresh, found :
                          Goes(r, [To(r, "row", order) EXCEPT !.rows = rows, !.fresh = fresh, !.found = found])
    BY <1>3 DEF ChangeGroup, Answers
  <2>3. rows \in SUBSET InGroup(g) /\ rows \subseteq RowIds
    BY <2>1, <2>2 DEF RowsOf, InGroup
  <2>4. PICK order \in Orders(RowLocks(rows)) : Heads(r, "row", order)
    BY <2>2, HeadsTo
  <2>5. Elements(order) = RowLocks(rows)
    BY <2>3, RowOrder
  <2>. QED
    BY <1>0, <2>1, <2>3, <2>4, <2>5, ChangeHeads
<1>4. CASE ChangeRow(r) /\ ~Quits
  <2>1. Len(req[r].who) = 1
    BY <1>0, <1>4 DEF Stage, ChangeRow, At, ChangeStaged
  <2>2. \/ Is(r, Edits) /\ Goes(r, To(r, "commit", <<<<"share", g>>>>))
        \/ \E order \in Orders(ShareLocks(Referred(r))) : Goes(r, To(r, "settle", order))
    BY <1>4 DEF ChangeRow, Answers
  <2>3. CASE Is(r, Edits) /\ Goes(r, To(r, "commit", <<<<"share", g>>>>))
    BY <1>0, <2>3, HeadsTo, ChangeHeads
  <2>4. ASSUME NEW order \in Orders(ShareLocks(Referred(r))), Goes(r, To(r, "settle", order))
        PROVE  ChangeWaits(r)'
    <3>1. Heads(r, "settle", order) /\ Elements(order) = ShareLocks(Referred(r))
      BY <1>0, <2>1, <2>4, HeadsTo, ReferredOrder
    <3>. QED
      BY <1>0, <3>1, ChangeHeads
  <2>. QED
    BY <2>2, <2>3, <2>4
<1>5. CASE Settle(r) /\ ~Quits
  <2>1. ~Is(r, Edits)
    BY <1>0, <1>5 DEF Stage, Settle, At, ChangeStaged
  <2>2. CASE \E found : Goes(r, [To(r, "commit", <<>>) EXCEPT !.found = found])
    BY <1>0, <2>2, HeadsTo, ChangeHeads
  <2>3. CASE Again(r, "group", GroupLock(g))
    <3>1. Elements(GroupLock(g)) = {<<"group", g>>} /\ Len(GroupLock(g)) = 1
      BY ElementsOf DEF GroupLock
    <3>2. \/ Waiting(r)'
          \/ Stage(r)' = "group" /\ Unheld(r)' /\ Locks(r)' = {<<"group", g>>} /\ Wanted(r)' = {<<"group", g>>}
      BY <2>3, <3>1, Restarted
    <3>. QED
      BY <3>2 DEF ChangeWaits, Only, Waiting
  <2>. QED
    BY <1>5, <2>2, <2>3 DEF Settle, Answers
<1>6. CASE CommitChange(r)
  BY <1>1, <1>6 DEF CommitChange, Answers
<1>. HIDE DEF Quits
<1>. QED
  BY <1>1, <1>2, <1>3, <1>4, <1>5, <1>6 DEF Change

LEMMA GroupStep ==
    ASSUME Base, NEW r \in Reqs, Waiting(r), GroupOp(r) \/ InviteOp(r)
    PROVE  GroupWaits(r)' /\ InviteWaits(r)'
<1>. DEFINE g == Group(r)
            Quits == \E answer \in Answers : Answer(r, answer)
<1>0. /\ Typed(r) /\ GroupStaged(r) /\ Unbegun(r) /\ Op(r)' = Op(r)
      /\ \A kinds : Is(r, kinds)' <=> Is(r, kinds)
  <2>1. Progress(r)
    BY BeginGroupProgress, RestoreListProgress, RestoreCountsProgress, GroupLockedProgress,
       CommitGroupProgress, BeginInviteProgress, WriteInviteProgress DEF GroupOp, InviteOp
  <2>. QED
    BY <2>1, OwnKinds DEF Base, Staged, Progress
<1>1. CASE Quits
  BY <1>1, Emptied, DoneWaits DEF Waiting
<1>2. CASE GroupOp(r) /\ ~Is(r, {"delete", "sweep"})
  <2>1. ~Is(r, InviteOps)
    BY <1>2 DEF GroupOp, BeginGroup, RestoreList, RestoreCounts, GroupLocked, CommitGroup, Is, GroupOps, InviteOps
  <2>. QED
    BY <1>0, <1>2, <2>1 DEF GroupWaits, InviteWaits
<1>3. CASE GroupOp(r) /\ Is(r, {"delete", "sweep"}) /\ ~Quits
  <2>0. ~Is(r, InviteOps) /\ ~Is(r, {"erase", "restore"})
    BY <1>3 DEF Is, InviteOps
  <2>1. CASE BeginGroup(r)
    <3>1. Goes(r, To(r, "group", GroupLock(g)))
      BY <1>3, <2>0, <2>1 DEF BeginGroup, Answers, Is
    <3>2. Heads(r, "group", GroupLock(g)) /\ Len(GroupLock(g)) = 1
      BY <3>1, HeadsTo DEF GroupLock
    <3>3. Locks(r) = {}
      BY <1>0, <2>1 DEF Unbegun, Stage, BeginGroup, At, Locks, Wanted
    <3>. QED
      BY <1>0, <2>0, <3>2, <3>3 DEF GroupWaits, InviteWaits, Heads, Unheld
  <2>2. CASE GroupLocked(r)
    <3>1. Goes(r, To(r, "commit", <<>>))
      BY <1>3, <2>0, <2>2 DEF GroupLocked, Answers, Is
    <3>2. Heads(r, "commit", <<>>)
      BY <3>1, HeadsTo
    <3>. QED
      BY <1>0, <2>0, <3>2 DEF GroupWaits, InviteWaits, Heads
  <2>3. ~RestoreList(r) /\ ~RestoreCounts(r) /\ ~CommitGroup(r)
    BY <1>3, <2>0 DEF RestoreList, RestoreCounts, CommitGroup, Answers, Is
  <2>. QED
    BY <1>3, <2>1, <2>2, <2>3 DEF GroupOp
<1>4. CASE InviteOp(r) /\ ~Quits
  <2>1. BeginInvite(r) /\ Is(r, InviteOps) /\ ~Is(r, {"delete", "sweep"})
    BY <1>4 DEF InviteOp, WriteInvite, BeginInvite, Answers, Is, InviteOps
  <2>2. Goes(r, To(r, "invite", <<<<"invite", Op(r).item>>>>))
    BY <1>4, <2>1 DEF BeginInvite, Answers
  <2>3. Heads(r, "invite", <<<<"invite", Op(r).item>>>>)
    BY <2>2, HeadsTo
  <2>4. Locks(r) = {}
    BY <1>0, <2>1 DEF Unbegun, Stage, BeginInvite, At, Locks, Wanted
  <2>. QED
    BY <1>0, <2>1, <2>3, <2>4 DEF GroupWaits, InviteWaits, Heads, Unheld
<1>. HIDE DEF Quits
<1>. QED
  BY <1>1, <1>2, <1>3, <1>4

LEMMA FriendHeads ==
    ASSUME NEW r, FriendWaits(r), Is(r, Friendly), Op(r)' = Op(r),
           NEW stage, NEW locks, Heads(r, stage, locks), Only(Elements(locks), {"bond", "block", "share"}),
           ~Is(r, {"send", "withdraw", "unblock"})
             \/ (/\ stage \in {"insert", "request", "unblock"} => Locks(r) = {} /\ Len(locks) <= 1
                 /\ stage = "people" => Only(Elements(locks), {"share"})
                 /\ stage = "commit" => locks = <<>>)
    PROVE  FriendWaits(r)'
<1>1. /\ Stage(r)' = stage /\ req'[r].todo = locks /\ held'[r] = Locks(r)
      /\ Wanted(r)' = Elements(locks) /\ Locks(r)' = Locks(r) \cup Elements(locks)
      /\ \A kinds : Is(r, kinds)' <=> Is(r, kinds)
  BY OwnKinds DEF Heads
<1>2. Only(Locks(r), {"bond", "block", "share"})'
  BY <1>1 DEF FriendWaits, Only
<1>3. Unheld(r)' <=> (Locks(r) = {} /\ Len(locks) <= 1)
  BY <1>1 DEF Unheld
<1>4. \A kinds : Only(Wanted(r), kinds)' <=> Only(Elements(locks), kinds)
  BY <1>1 DEF Only
<1>. QED
  BY <1>1, <1>2, <1>3, <1>4 DEF FriendWaits

LEMMA FriendStep ==
    ASSUME Base, NEW r \in Reqs, Waiting(r), Friend(r)
    PROVE  FriendWaits(r)'
<1>. DEFINE x == req[r].who[1]
            y == req[r].who[2]
            Quits == \E answer \in Answers : Answer(r, answer)
            Ties == {"bond", "block", "share"}
<1>0. /\ FriendWaits(r) /\ Typed(r) /\ FriendStaged(r) /\ Unbegun(r) /\ RowTypes /\ Is(r, Friendly)
      /\ Op(r)' = Op(r)
  <2>1. Friend(r) => Is(r, Friendly)
    BY DEF Friend, BeginSend, SendRow, MirrorRow, RelatedPeople, CommitSend, BeginAnswer, AnswerRow,
       CommitAnswer, BeginEnding, BlockRow, DeleteBetween, Deleted, Unblock, CommitEnding, UnfriendAgain,
       Is, Friendly, Sends, Answerings, Endings
  <2>2. Progress(r)
    BY BeginSendProgress, SendRowProgress, MirrorRowProgress, RelatedPeopleProgress,
       CommitSendProgress, BeginAnswerProgress, AnswerRowProgress, CommitAnswerProgress,
       BeginEndingProgress, BlockRowProgress, DeleteBetweenProgress, DeletedProgress,
       UnblockProgress, CommitEndingProgress, UnfriendAgainProgress DEF Friend
  <2>. QED
    BY <2>1, <2>2 DEF Base, Waiting, Staged, Progress
<1>1. CASE Quits
  BY <1>1, Emptied, DoneWaits DEF Waiting
<1>2. /\ Only(Elements(<<>>), Ties) /\ Only(Elements(Shares(r)), {"share"})
      /\ Only(Elements(Shares(r)), Ties)
      /\ \A p, q : Only(Elements(<<Bond(p, q)>>), Ties) /\ Len(<<Bond(p, q)>>) <= 1
      /\ \A p, q : Only(Elements(<<Block(p, q)>>), Ties) /\ Len(<<Block(p, q)>>) <= 1
  <2>1. \A p, q : Bond(p, q)[1] = "bond" /\ Block(p, q)[1] = "block"
    BY DEF Bond, Block
  <2>2. Elements(Shares(r)) = {<<"share", x>>, <<"share", y>>}
    BY ElementsOf DEF Shares
  <2>3. \A p, q : Elements(<<Bond(p, q)>>) = {Bond(p, q)} /\ Elements(<<Block(p, q)>>) = {Block(p, q)}
    BY ElementsOf
  <2>. QED
    BY <2>1, <2>2, <2>3, NoLocks DEF Only
<1>3. Stage(r) = "begin" => Locks(r) = {}
  BY <1>0 DEF Unbegun, Locks, Wanted
<1>4. CASE BeginSend(r) /\ ~Quits
  <2>1. Locks(r) = {}
    BY <1>3, <1>4 DEF Stage, BeginSend, At
  <2>2. PICK p, q : \E who : Goes(r, [To(r, "insert", <<Bond(p, q)>>) EXCEPT !.who = who])
    BY <1>4 DEF BeginSend, Answers
  <2>3. Heads(r, "insert", <<Bond(p, q)>>)
    BY <2>2, HeadsTo
  <2>. QED
    BY <1>0, <1>2, <2>1, <2>3, FriendHeads
<1>5. CASE SendRow(r) /\ ~Quits
  <2>1. \/ Goes(r, To(r, "people", Shares(r)))
        \/ Is(r, {"befriend"}) /\ Goes(r, To(r, "mirror", Append(Shares(r), Bond(y, x))))
    BY <1>5 DEF SendRow, Answers, Is, Sends
  <2>2. \/ Heads(r, "people", Shares(r))
        \/ Is(r, {"befriend"}) /\ Heads(r, "mirror", Append(Shares(r), Bond(y, x)))
    BY <2>1, HeadsTo
  <2>3. Is(r, {"befriend"}) => ~Is(r, {"send", "withdraw", "unblock"})
    BY DEF Is
  <2>4. Only(Elements(Append(Shares(r), Bond(y, x))), Ties)
    <3>1. Len(req[r].who) = 2
      BY <1>0, <1>5 DEF FriendStaged, Stage, SendRow, At, Friendly
    <3>2. Elements(Append(Shares(r), Bond(y, x))) = Elements(Shares(r)) \cup {Bond(y, x)}
      BY <1>0, <3>1, PairOf
    <3>. QED
      BY <1>2, <3>2 DEF Only, Bond
  <2>. QED
    BY <1>0, <1>2, <2>2, <2>3, <2>4, FriendHeads
<1>6. CASE MirrorRow(r) /\ ~Quits
  <2>1. Goes(r, To(r, "people", Shares(r)))
    BY <1>6 DEF MirrorRow, Answers
  <2>2. Heads(r, "people", Shares(r))
    BY <2>1, HeadsTo
  <2>. QED
    BY <1>0, <1>2, <2>2, FriendHeads
<1>7. CASE (RelatedPeople(r) \/ Deleted(r) \/ Unblock(r)) /\ ~Quits
  <2>1. Goes(r, To(r, "commit", <<>>))
    BY <1>7 DEF RelatedPeople, Deleted, Unblock, Answers
  <2>2. Heads(r, "commit", <<>>)
    BY <2>1, HeadsTo
  <2>. QED
    BY <1>0, <1>2, <2>2, FriendHeads
<1>8. CASE BeginAnswer(r) /\ ~Quits
  <2>1. Locks(r) = {}
    BY <1>3, <1>8 DEF Stage, BeginAnswer, At
  <2>2. PICK p, q : \E who : Goes(r, [To(r, "request", <<Bond(p, q)>>) EXCEPT !.who = who])
    BY <1>8 DEF BeginAnswer, Answers
  <2>3. Heads(r, "request", <<Bond(p, q)>>)
    BY <2>2, HeadsTo
  <2>. QED
    BY <1>0, <1>2, <2>1, <2>3, FriendHeads
<1>9. CASE AnswerRow(r) /\ ~Quits
  <2>1. \/ Goes(r, To(r, "commit", <<>>))
        \/ Is(r, {"accept_friend"}) /\ Goes(r, To(r, "mirror", <<Bond(y, x)>>))
    BY <1>9 DEF AnswerRow, Answers, Is, Answerings
  <2>2. \/ Heads(r, "commit", <<>>)
        \/ Is(r, {"accept_friend"}) /\ Heads(r, "mirror", <<Bond(y, x)>>)
    BY <2>1, HeadsTo
  <2>3. Is(r, {"accept_friend"}) => ~Is(r, {"send", "withdraw", "unblock"})
    BY DEF Is
  <2>. QED
    BY <1>0, <1>2, <2>2, <2>3, FriendHeads
<1>10. CASE BeginEnding(r) /\ ~Quits
  <2>1. Locks(r) = {}
    BY <1>3, <1>10 DEF Stage, BeginEnding, At
  <2>2. \E p, q, who, rows :
           \/ Is(r, {"unfriend"}) /\ Goes(r, [To(r, "delete", <<>>) EXCEPT !.who = who, !.rows = rows])
           \/ Goes(r, [To(r, "insert", <<Block(p, q)>>) EXCEPT !.who = who, !.rows = rows])
           \/ Goes(r, [To(r, "unblock", <<Block(p, q)>>) EXCEPT !.who = who, !.rows = rows])
    BY <1>10 DEF BeginEnding, Answers
  <2>3. \E p, q : \/ Is(r, {"unfriend"}) /\ Heads(r, "delete", <<>>)
                  \/ Heads(r, "insert", <<Block(p, q)>>) \/ Heads(r, "unblock", <<Block(p, q)>>)
    BY <2>2, HeadsTo
  <2>. QED
    BY <1>0, <1>2, <2>1, <2>3, FriendHeads
<1>11. CASE BlockRow(r) /\ ~Quits
  <2>1. Goes(r, To(r, "delete", Shares(r)))
    BY <1>11 DEF BlockRow, Answers
  <2>2. Heads(r, "delete", Shares(r))
    BY <2>1, HeadsTo
  <2>. QED
    BY <1>0, <1>2, <2>2, FriendHeads
<1>12. CASE DeleteBetween(r) /\ ~Quits
  <2>1. PICK rows : /\ rows \subseteq relation
                    /\ \E order \in Orders(Bonds(rows)) : Goes(r, [To(r, "deleted", order) EXCEPT !.rows = rows])
    BY <1>12 DEF DeleteBetween, Answers, Between, Related
  <2>2. rows \subseteq Relations
    BY <1>0, <2>1 DEF RowTypes, Relations
  <2>3. PICK order \in Orders(Bonds(rows)) : Heads(r, "deleted", order)
    BY <2>1, HeadsTo
  <2>4. Elements(order) = Bonds(rows)
    BY <2>2, BondOrder
  <2>5. Only(Elements(order), Ties)
    BY <2>4 DEF Only, Bonds, Bond
  <2>. QED
    BY <1>0, <2>3, <2>5, FriendHeads
<1>13. CASE UnfriendAgain(r)
  <2>1. Again(r, "delete", <<>>) /\ ~Is(r, {"send", "withdraw", "unblock"}) /\ Len(<<>>) <= 1
    BY <1>13 DEF UnfriendAgain, Is
  <2>2. \/ Waiting(r)'
        \/ Locks(r)' = {} /\ ~Is(r, {"send", "withdraw", "unblock"})'
    BY <1>0, <2>1, Restarted, NoLocks, OwnKinds
  <2>. QED
    BY <2>2 DEF FriendWaits, Only, Waiting
<1>14. CASE CommitSend(r) \/ CommitAnswer(r) \/ CommitEnding(r)
  BY <1>1, <1>14 DEF CommitSend, CommitAnswer, CommitEnding, Answers
<1>. HIDE DEF Quits
<1>. QED
  BY <1>1, <1>4, <1>5, <1>6, <1>7, <1>8, <1>9, <1>10, <1>11, <1>12, <1>13, <1>14 DEF Friend

LEMMA UnlinkStep ==
    ASSUME Base, NEW r \in Reqs, Waiting(r), Link(r)
    PROVE  UnlinkWaits(r)'
<1>. DEFINE u == Op(r).users[1]
            Quits == \E answer \in Answers : Answer(r, answer)
<1>0. /\ UnlinkWaits(r) /\ Typed(r) /\ LinkStaged(r) /\ Unbegun(r) /\ RowTypes /\ Op(r)' = Op(r)
      /\ \A kinds : Is(r, kinds)' <=> Is(r, kinds)
  <2>1. Progress(r)
    BY BeginIssueProgress, CommitIssueProgress, BeginRedeemProgress, RedeemIssuerProgress,
       RedeemCodeProgress, RedeemCountsProgress, RedeemPeopleProgress, CommitRedeemProgress,
       BeginUnlinkProgress, UnlinkPersonProgress, CommitUnlinkProgress DEF Link
  <2>. QED
    BY <2>1, OwnKinds DEF Base, Waiting, Staged, Progress
<1>1. CASE Quits
  BY <1>1, Emptied, DoneWaits DEF Waiting
<1>2. CASE ~Is(r, {"unlink"})
  BY <1>0, <1>2 DEF UnlinkWaits
<1>3. CASE BeginUnlink(r)
  <2>1. u \in Users
    BY <1>0, <1>3, Names DEF BeginUnlink, Is, LinkOps
  <2>2. PICK p \in People : p = personOf[u]
    BY <1>0, <2>1 DEF RowTypes
  <2>3. PICK locks \in Erase({p}) : \E who : Goes(r, [To(r, "person", locks) EXCEPT !.who = who])
    BY <1>3, <2>2 DEF BeginUnlink
  <2>4. Heads(r, "person", locks) /\ Elements(locks) = Erases({p})
    BY <2>3, HeadsTo, EraseOrder
  <2>5. Len(locks) = 1
    <3>1. locks \in Orders({"erase"} \X {p})
      BY DEF Erase, Sorted
    <3>2. {"erase"} \X {p} = {<<"erase", p>>}
      OBVIOUS
    <3>3. IsFiniteSet({<<"erase", p>>}) /\ Cardinality({<<"erase", p>>}) = 1
      BY FS_Singleton
    <3>. QED
      BY <3>1, <3>2, <3>3, SomeOrder
  <2>6. Locks(r) = {}
    BY <1>0, <1>3 DEF BeginUnlink, At, Unbegun, Stage, Locks, Wanted
  <2>7. Stage(r)' = "person" /\ Unheld(r)' /\ Locks(r)' = Erases({p})
    BY <2>4, <2>5, <2>6 DEF Heads, Unheld
  <2>. QED
    BY <2>7 DEF UnlinkWaits, Only, Erases
<1>4. CASE UnlinkPerson(r) /\ ~Quits
  <2>1. /\ personOf[u] = Person(r) /\ UNCHANGED personOf
        /\ \E order \in Orders(CodeLocks(CodesOf(u))) :
              Goes(r, [To(r, "commit", order) EXCEPT !.rows = CodesOf(u)])
    BY <1>4 DEF UnlinkPerson, Answers, peopleVars
  <2>2. PICK order \in Orders(CodeLocks(CodesOf(u))) :
            Goes(r, [To(r, "commit", order) EXCEPT !.rows = CodesOf(u)])
    BY <2>1
  <2>3. Heads(r, "commit", order) /\ Elements(order) = CodeLocks(CodesOf(u))
    BY <2>2, HeadsTo, CodesRead
  <2>4. Person(r)' = Person(r)
    <3>1. req'[r] = [To(r, "commit", order) EXCEPT !.rows = CodesOf(u)]
      BY <2>2 DEF Goes, Base, Shaped
    <3>2. req'[r].who = req[r].who
      BY <1>0, <3>1 DEF To, Typed, Record
    <3>. QED
      BY <3>2 DEF Person
  <2>5. \A l \in CodeLocks(CodesOf(u)) : l[1] = "code" /\ l[2][1] = u
    BY DEF CodeLocks, CodesOf
  <2>6. Stage(r)' = "commit" /\ Locks(r)' = Locks(r) \cup CodeLocks(CodesOf(u))
        /\ Wanted(r)' = CodeLocks(CodesOf(u))
    BY <2>3 DEF Heads
  <2>7. Is(r, {"unlink"})
    BY <1>4 DEF UnlinkPerson
  <2>8. u' = u /\ personOf'[u] = Person(r)'
    BY <1>0, <2>1, <2>4
  <2>. HIDE DEF u
  <2>9. Only(Locks(r), {"erase", "code"}) /\ \A l \in Locks(r) : l[1] = "code" => l[2][1] = u
    BY <1>0, <2>7 DEF UnlinkWaits, u
  <2>10. /\ Only(Locks(r), {"erase", "code"})' /\ Only(Wanted(r), {"code"})'
         /\ \A l \in Locks(r)' : l[1] = "code" => l[2][1] = u
    BY <2>5, <2>6, <2>9 DEF Only
  <2>. QED
    BY <1>0, <2>6, <2>8, <2>10 DEF UnlinkWaits, u
<1>5. CASE CommitUnlink(r)
  BY <1>1, <1>5 DEF CommitUnlink, Answers
<1>6. Is(r, {"unlink"}) => BeginUnlink(r) \/ UnlinkPerson(r) \/ CommitUnlink(r)
  BY DEF Link, BeginIssue, CommitIssue, BeginRedeem, RedeemIssuer, RedeemCode, RedeemCounts, RedeemPeople,
     CommitRedeem, Is
<1>. HIDE DEF Quits
<1>. QED
  BY <1>1, <1>2, <1>3, <1>4, <1>5, <1>6

LEMMA TakeWaits ==
    ASSUME Base, NEW r \in Reqs, Waiting(r), Take(r), UNCHANGED personOf
    PROVE  Waiting(r)'
<1>. DEFINE todo == req[r].todo
<1>1. Shaped /\ Typed(r) /\ req[r].at # "done" /\ Len(todo) > 1
  BY DEF Base, Take, Staged, Unbegun, Stage
<1>2. /\ req'[r] = [req[r] EXCEPT !.todo = Tail(todo)] /\ Locks(r)' = Locks(r) /\ Op(r)' = Op(r)
  BY <1>1, TakeTurn
<1>3. /\ todo \in Seq(Lock) /\ Head(todo) = todo[1] /\ Tail(todo) \in Seq(Lock) /\ Len(Tail(todo)) = Len(todo) - 1
      /\ \A i \in 1 .. Len(Tail(todo)) : Tail(todo)[i] = todo[i + 1]
      /\ Len(todo) \in Nat /\ todo # <<>>
  <2>1. todo \in Seq(Lock) /\ todo # <<>>
    BY <1>1 DEF Typed, Record
  <2>. QED
    BY <2>1, HeadTailProperties, LenProperties
<1>4. held'[r] = held[r] \cup {Head(todo)} /\ Head(todo) \in Wanted(r)
  BY <1>1, <1>3 DEF Take, Shaped, Wanted
<1>5. /\ Stage(r)' = Stage(r) /\ req'[r].todo = Tail(todo) /\ Person(r)' = Person(r)
      /\ Group(r)' = Group(r) /\ \A kinds : Is(r, kinds)' <=> Is(r, kinds)
  BY <1>1, <1>2, OwnKinds DEF Stage, Person, Typed, Record
<1>6. Wanted(r)' \subseteq Wanted(r)
  <2>1. ASSUME NEW i \in 1 .. Len(Tail(todo))
        PROVE  i + 1 \in 1 .. Len(todo)
    BY <1>3
  <2>. QED
    BY <2>1, <1>3, <1>5 DEF Wanted
<1>7. ~Unheld(r)
  BY <1>1 DEF Unheld
<1>8. \A kinds : Only(Wanted(r), kinds) => Only(Wanted(r), kinds)'
  BY <1>6 DEF Only
<1>9. \A kinds : Only(Locks(r), kinds) => Only(Locks(r), kinds)'
  BY <1>2 DEF Only
<1>10. \A kinds : Only(held[r], kinds) /\ Head(todo)[1] \in kinds => Only(held[r], kinds)'
  BY <1>4 DEF Only
<1>11. Ascending(r) => Ascending(r)' /\ Head(todo)[1] = "count"
  <2>1. SUFFICES ASSUME Ascending(r) PROVE Ascending(r)' /\ Head(todo)[1] = "count"
    OBVIOUS
  <2>2. Head(todo) \in {"count"} \X (Kinds \X People) /\ Wanted(r)' \subseteq {"count"} \X (Kinds \X People)
    BY <1>4, <1>6, <2>1 DEF Ascending
  <2>3. ASSUME NEW i \in 1 .. Len(Tail(todo))
        PROVE  /\ KeyRank[Head(todo)[2]] < KeyRank[Tail(todo)[i][2]]
               /\ \A l \in held[r] : l[1] = "count" => KeyRank[l[2]] < KeyRank[Tail(todo)[i][2]]
               /\ \A j \in 1 .. Len(Tail(todo)) : i < j => KeyRank[Tail(todo)[i][2]] < KeyRank[Tail(todo)[j][2]]
    <3>1. 1 \in 1 .. Len(todo) /\ i + 1 \in 1 .. Len(todo) /\ 1 < i + 1
      BY <1>3
    <3>2. \A j \in 1 .. Len(Tail(todo)) : i < j => j + 1 \in 1 .. Len(todo) /\ i + 1 < j + 1
      BY <1>3
    <3>. QED
      BY <1>3, <2>1, <3>1, <3>2 DEF Ascending
  <2>. HIDE DEF todo
  <2>. QED
    BY <1>4, <1>5, <2>2, <2>3 DEF Ascending
<1>12. todo # <<>> /\ ~(Len(todo) <= 1)
  BY <1>1, <1>3
<1>. HIDE DEF todo
<1>13. EntryWaits(r)'
  <2>1. SUFFICES ASSUME Is(r, Entries) PROVE EntryWaits(r)'
    BY <1>5 DEF EntryWaits
  <2>2. EntryWaits(r) /\ Stage(r) \notin {"group", "invite", "commit"}
    BY <1>7, <1>12, <2>1 DEF EntryWaits, Waiting, todo
  <2>3. CASE Stage(r) = "rows"
    <3>1. Head(todo)[1] = "row"
      BY <1>4, <2>1, <2>2, <2>3 DEF EntryWaits, Only
    <3>. QED
      BY <1>2, <1>5, <1>8, <1>9, <1>10, <2>1, <2>2, <2>3, <3>1 DEF EntryWaits
  <2>4. CASE Stage(r) = "counts"
    BY <1>2, <1>5, <1>8, <1>9, <1>10, <1>11, <2>1, <2>2, <2>4 DEF EntryWaits
  <2>5. CASE Stage(r) \notin {"rows", "counts"}
    BY <1>2, <1>5, <1>8, <1>9, <2>1, <2>2, <2>5 DEF EntryWaits
  <2>. QED
    BY <2>3, <2>4, <2>5
<1>14. ChangeWaits(r)'
  BY <1>2, <1>5, <1>7, <1>8, <1>9, <1>12 DEF ChangeWaits, Waiting, todo
<1>15. GroupWaits(r)' /\ InviteWaits(r)'
  BY <1>5, <1>7, <1>12 DEF GroupWaits, InviteWaits, Waiting, todo
<1>16. FriendWaits(r)'
  BY <1>5, <1>7, <1>8, <1>9, <1>12 DEF FriendWaits, Waiting, todo
<1>17. UnlinkWaits(r)'
  BY <1>2, <1>5, <1>7, <1>8, <1>9, <1>12 DEF UnlinkWaits, Waiting, todo
<1>. QED
  BY <1>13, <1>14, <1>15, <1>16, <1>17 DEF Waiting

LEMMA WaitsSame ==
    ASSUME NEW q, Waiting(q), req'[q] = req[q], held'[q] = held[q],
           Is(q, {"unlink"}) /\ Stage(q) = "commit" => personOf'[Op(q).users[1]] = personOf[Op(q).users[1]]
    PROVE  Waiting(q)'
<1>1. /\ Op(q)' = Op(q) /\ Stage(q)' = Stage(q) /\ Wanted(q)' = Wanted(q) /\ Locks(q)' = Locks(q)
      /\ Group(q)' = Group(q) /\ Person(q)' = Person(q) /\ \A kinds : Is(q, kinds)' <=> Is(q, kinds)
  BY OwnKinds DEF Op, Stage, Wanted, Locks, Person
<1>2. /\ Unheld(q)' <=> Unheld(q)
      /\ \A kinds : /\ Only(Wanted(q), kinds)' <=> Only(Wanted(q), kinds)
                    /\ Only(Locks(q), kinds)' <=> Only(Locks(q), kinds)
                    /\ Only(held[q], kinds)' <=> Only(held[q], kinds)
      /\ Ascending(q)' <=> Ascending(q)
  BY <1>1 DEF Unheld, Only, Ascending
<1>3. EntryWaits(q)' /\ ChangeWaits(q)'
  BY <1>1, <1>2 DEF EntryWaits, ChangeWaits, Waiting
<1>4. GroupWaits(q)' /\ InviteWaits(q)' /\ FriendWaits(q)'
  BY <1>1, <1>2 DEF GroupWaits, InviteWaits, FriendWaits, Waiting
<1>5. UnlinkWaits(q)'
  BY <1>1, <1>2 DEF UnlinkWaits, Waiting
<1>. QED
  BY <1>3, <1>4, <1>5 DEF Waiting

\* While an unlink holds a person, none of the person's ids moves.
LEMMA PersonStays ==
    ASSUME Base, \A x \in Reqs : Waiting(x), NEW q \in Reqs, NEW r \in Reqs, q # r, Step(r),
           Is(q, {"unlink"}), Stage(q) = "commit"
    PROVE  personOf'[Op(q).users[1]] = personOf[Op(q).users[1]]
<1>. DEFINE u == Op(q).users[1]
<1>1. u \in Users /\ personOf[u] = Person(q) /\ <<"erase", personOf[u]>> \in held[q]
  <2>1. Is(q, LinkOps) /\ LinkStaged(q) /\ UnlinkWaits(q) /\ Typed(q)
    BY DEF Is, LinkOps, Base, Staged, Waiting
  <2>. QED
    BY <2>1, Names DEF LinkStaged, UnlinkWaits, Is
<1>2. ASSUME NEW p, <<"erase", p>> \in held[r]
      PROVE  personOf[u] # p
  <2>1. Conflict(<<"erase", p>>, <<"erase", p>>)
    BY DEF Conflict
  <2>. QED
    BY <1>1, <1>2, <2>1 DEF Base, Exclusive
<1>3. CASE UNCHANGED dataVars
  BY <1>3 DEF dataVars, peopleVars
<1>4. CASE CommitRedeem(r)
  <2>1. /\ Is(r, {"redeem"}) /\ Is(r, LinkOps) /\ Stage(r) = "commit" /\ LinkStaged(r) /\ Typed(r)
        /\ personOf \in [Users -> People]
    BY <1>4 DEF CommitRedeem, At, Stage, Is, LinkOps, Base, Staged, RowTypes
  <2>2. Len(req[r].who) = 2
    BY <2>1 DEF LinkStaged
  <2>3. Range(req[r].who) = {req[r].who[1], req[r].who[2]}
    BY <2>1, <2>2 DEF Typed, Record, Range
  <2>4. CASE req[r].who[1] = req[r].who[2]
    <3>1. Range(req[r].who) = {req[r].who[1]}
      BY <2>3, <2>4
    <3>2. Cardinality(Range(req[r].who)) = 1
      BY <3>1, FS_Singleton
    <3>. QED
      BY <1>4, <3>2 DEF CommitRedeem
  <2>5. CASE req[r].who[1] # req[r].who[2]
    <3>1. <<"erase", req[r].who[2]>> \in held[r]
      BY <2>1, <2>3, <2>5 DEF LinkStaged, Erases, Members
    <3>2. personOf[u] # req[r].who[2]
      BY <1>2, <3>1
    <3>. QED
      BY <1>1, <1>4, <2>1, <3>2 DEF CommitRedeem, Merge
  <2>. QED
    BY <2>4, <2>5
<1>5. CASE CommitUnlink(r)
  <2>1. /\ Is(r, {"unlink"}) /\ Is(r, LinkOps) /\ Stage(r) = "commit" /\ LinkStaged(r) /\ UnlinkWaits(r)
        /\ personOf \in [Users -> People]
    BY <1>5 DEF CommitUnlink, At, Stage, Is, LinkOps, Base, Staged, Waiting, RowTypes
  <2>2. <<"erase", personOf[Op(r).users[1]]>> \in held[r]
    BY <2>1 DEF LinkStaged, UnlinkWaits
  <2>3. u # Op(r).users[1]
    BY <1>2, <2>2
  <2>. QED
    BY <1>1, <1>5, <2>1, <2>3 DEF CommitUnlink
<1>6. CASE Writes(r) /\ ~CommitRedeem(r) /\ ~CommitUnlink(r)
  BY <1>6 DEF Writes, CommitEntry, CommitChange, CommitGroup, WriteInvite, CommitSend, CommitAnswer,
     CommitEnding, CommitIssue, peopleVars
<1>. QED
  BY <1>3, <1>4, <1>5, <1>6, Quiet

LEMMA OwnWaits ==
    ASSUME Base, NEW r \in Reqs, Waiting(r), Step(r), Op(r)' = Op(r)
    PROVE  Waiting(r)'
<1>1. \A kinds : Is(r, kinds)' <=> Is(r, kinds)
  BY OwnKinds
<1>2. Is(r, {"delete", "sweep"}) => Is(r, GroupOps)
  BY DEF Is, GroupOps
<1>3. Is(r, {"unlink"}) => Is(r, LinkOps)
  BY DEF Is, LinkOps
<1>4. /\ ~Is(r, Entries) => EntryWaits(r)'
      /\ ~Is(r, Changes) => ChangeWaits(r)'
      /\ ~Is(r, GroupOps) => GroupWaits(r)'
      /\ ~Is(r, InviteOps) => InviteWaits(r)'
      /\ ~Is(r, Friendly) => FriendWaits(r)'
      /\ ~Is(r, LinkOps) => UnlinkWaits(r)'
  BY <1>1, <1>2, <1>3 DEF EntryWaits, ChangeWaits, GroupWaits, InviteWaits, FriendWaits, UnlinkWaits
<1>5. /\ Entry(r) => Is(r, Entries)
      /\ Change(r) => Is(r, Changes)
      /\ GroupOp(r) => Is(r, GroupOps)
      /\ InviteOp(r) => Is(r, InviteOps)
  <2>1. Entry(r) => Is(r, Entries)
    BY DEF Entry, BeginEntry, BeginImport, BeginCreate, EnterGroup, ImportPeople, ImportRows, EnterCounts,
       EnterInvite, EnterRow, EnterShare, CommitEntry, Is, Entries
  <2>2. Change(r) => Is(r, Changes)
    BY DEF Change, BeginChange, ChangeGroup, ChangeRow, Settle, CommitChange
  <2>3. GroupOp(r) => Is(r, GroupOps)
    BY DEF GroupOp, BeginGroup, RestoreList, RestoreCounts, GroupLocked, CommitGroup, Is, GroupOps
  <2>4. InviteOp(r) => Is(r, InviteOps)
    BY DEF InviteOp, BeginInvite, WriteInvite
  <2>. QED
    BY <2>1, <2>2, <2>3, <2>4
<1>6. Friend(r) => Is(r, Friendly)
  BY DEF Friend, BeginSend, SendRow, MirrorRow, RelatedPeople, CommitSend, BeginAnswer, AnswerRow,
     CommitAnswer, BeginEnding, BlockRow, DeleteBetween, Deleted, Unblock, CommitEnding, UnfriendAgain,
     Is, Friendly, Sends, Answerings, Endings
<1>7. Link(r) => Is(r, LinkOps)
  BY DEF Link, BeginIssue, CommitIssue, BeginRedeem, RedeemIssuer, RedeemCode, RedeemCounts, RedeemPeople,
     CommitRedeem, BeginUnlink, UnlinkPerson, CommitUnlink, Is, LinkOps
<1>8. CASE Take(r) /\ UNCHANGED peopleVars
  BY <1>8, TakeWaits DEF peopleVars
<1>9. CASE Victim(r)
  BY <1>9, Emptied, DoneWaits DEF Victim
<1>10. CASE Entry(r)
  BY <1>4, <1>5, <1>10, EntryStep, Families DEF Waiting, Friendly
<1>11. CASE Change(r)
  BY <1>4, <1>5, <1>11, ChangeStep, Families DEF Waiting, Friendly
<1>12. CASE GroupOp(r) \/ InviteOp(r)
  BY <1>4, <1>5, <1>12, GroupStep, Families DEF Waiting, Friendly
<1>13. CASE Friend(r)
  BY <1>4, <1>6, <1>13, FriendStep, Families DEF Waiting, Friendly
<1>14. CASE Link(r)
  BY <1>4, <1>7, <1>14, UnlinkStep, Families DEF Waiting, Friendly
<1>. QED
  BY <1>8, <1>9, <1>10, <1>11, <1>12, <1>13, <1>14 DEF Step

LEMMA WaitsInit ==
    ASSUME Init, NEW r \in Reqs
    PROVE  Waiting(r)
<1>1. Stage(r) = "begin" /\ req[r].todo = <<>> /\ held[r] = {}
  BY DEF Init, Fresh, Stage
<1>2. Wanted(r) = {} /\ Locks(r) = {}
  BY <1>1 DEF Wanted, Locks
<1>3. EntryWaits(r) /\ ChangeWaits(r)
  BY <1>1, <1>2 DEF EntryWaits, ChangeWaits, Only
<1>4. GroupWaits(r) /\ InviteWaits(r) /\ FriendWaits(r) /\ UnlinkWaits(r)
  BY <1>1, <1>2 DEF GroupWaits, InviteWaits, FriendWaits, UnlinkWaits, Only
<1>. QED
  BY <1>3, <1>4 DEF Waiting

LEMMA WaitsNext ==
    ASSUME Base, \A x \in Reqs : Waiting(x), [Next]_vars, NEW q \in Reqs
    PROVE  Waiting(q)'
<1>1. ASSUME NEW r \in Reqs, Step(r)
      PROVE  Waiting(q)'
  <2>1. Progress(r)
    BY <1>1, StepProgress
  <2>2. CASE q = r
    BY <1>1, <2>1, <2>2, OwnWaits DEF Progress
  <2>3. CASE q # r
    <3>1. req'[q] = req[q] /\ held'[q] = held[q]
      BY <2>1, <2>3 DEF Progress, Turn
    <3>2. Is(q, {"unlink"}) /\ Stage(q) = "commit" => personOf'[Op(q).users[1]] = personOf[Op(q).users[1]]
      BY <1>1, <2>3, PersonStays
    <3>. QED
      BY <3>1, <3>2, WaitsSame
  <2>. QED
    BY <2>2, <2>3
<1>2. CASE UNCHANGED vars
  BY <1>2, WaitsSame DEF vars, peopleVars
<1>. QED
  BY <1>1, <1>2 DEF Next

WaitsHold == \A r \in Reqs : Waiting(r)

\* What each request waits for, and holds while it waits, at every stage of its handler.
THEOREM WaitsByStage == Spec => [](Base /\ WaitsHold)
<1>1. Init => Base /\ WaitsHold
  BY BaseInit, WaitsInit DEF WaitsHold
<1>2. Base /\ WaitsHold /\ [Next]_vars => Base' /\ WaitsHold'
  <2>1. SUFFICES ASSUME Base, WaitsHold, [Next]_vars PROVE Base' /\ WaitsHold'
    OBVIOUS
  <2>2. \A r \in Reqs : Waiting(r)
    BY <2>1 DEF WaitsHold
  <2>. QED
    BY <2>1, <2>2, BaseNext, WaitsNext DEF WaitsHold
<1>. QED
  BY <1>1, <1>2, PTL DEF Spec

\* Requests wait for one another in a cycle only where the order of the code's
\* locks does not hold: a link, a hard delete, a restore or the issue of a code
\* is in the cycle, or all of it is of friends.
THEOREM LocksOrdered == Spec => []OrderedLocks
<1>1. Base /\ WaitsHold => OrderedLocks
  <2>1. SUFFICES ASSUME Base, WaitsHold, NEW S \in SUBSET Reqs, Cycle(S), ~\E r \in S : Is(r, Backward)
                 PROVE  \A r \in S : Is(r, Loose)
    BY DEF OrderedLocks, Backward, Loose
  <2>2. \A r \in Reqs : Waiting(r)
    BY <2>1 DEF WaitsHold
  <2>. QED
    BY <2>1, <2>2, CycleKinds
<1>. QED
  BY <1>1, WaitsByStage, PTL

=============================================================================
