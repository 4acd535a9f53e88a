---------------------------- MODULE MirrorProofs ----------------------------
(***************************************************************************)
(* The Java mirror, for any ids, any rows at first and any writes.         *)
(*                                                                         *)
(* First what the rows and the log of the server are: every id is one      *)
(* person's, and each event says how the rows before it became the rows    *)
(* after it.  Then what a state of the mirror says of them.                *)
(***************************************************************************)
EXTENDS GameMirror, FiniteSetTheorems, SequenceTheorems, TLAPS

-----------------------------------------------------------------------------
(* The rows at one position                                                *)

\* The ids of an id's person, the one linked first before the others.
Of(s, i) == s.ids[Holder(s, i)]

OneEach(ids) ==
    \A i \in Ids : \E p \in Ids : \E n \in DOMAIN ids[p] :
        /\ ids[p][n] = i
        /\ \A q \in Ids : \A m \in DOMAIN ids[q] : ids[q][m] = i => q = p /\ m = n

\* A row of the group: who made it and when; its version; what its parts say.
RowIds == {<<>>} \cup (Ids \X Nat)
RowType == [id : RowIds, v : Nat, says : [Parts -> Nat]]

RowState ==
    [ids : [Ids -> Seq(Ids)], marked : [Lists -> SUBSET Ids], version : [Ids -> Nat],
     members : [Ids -> RowType], group : Nat]

\* Only somebody with an id is moderated, and moderation has a version.
SoundRows(s) ==
    /\ s \in RowState
    /\ OneEach(s.ids)
    /\ \A p \in Ids : s.version[p] > 0 => s.ids[p] # <<>>
    /\ \A l \in Lists : \A p \in s.marked[l] : s.version[p] > 0

\* The holder of an id is the one person whose list has it.
LEMMA HolderIs ==
    ASSUME NEW s, SoundRows(s), NEW i \in Ids
    PROVE  /\ Holder(s, i) \in Ids
           /\ i \in ToSet(Of(s, i))
           /\ Of(s, i) # <<>>
           /\ \A q \in Ids : i \in ToSet(s.ids[q]) => q = Holder(s, i)
<1>1. PICK p \in Ids : i \in ToSet(s.ids[p]) /\ \A q \in Ids : i \in ToSet(s.ids[q]) => q = p
  BY DEF SoundRows, OneEach, ToSet
<1>2. Holder(s, i) \in Ids /\ i \in ToSet(Of(s, i))
  BY <1>1 DEF Holder, People, Of
<1>3. \A q \in Ids : i \in ToSet(s.ids[q]) => q = Holder(s, i)
  BY <1>1, <1>2 DEF Of
<1>4. Of(s, i) # <<>>
  BY <1>2 DEF ToSet
<1>. QED
  BY <1>2, <1>3, <1>4

\* The server names a person by an id of theirs.
LEMMA ShownIs ==
    ASSUME NEW s, SoundRows(s), NEW p \in Ids, s.ids[p] # <<>>
    PROVE  /\ Shown(s, p) \in Ids
           /\ Shown(s, p) \in ToSet(s.ids[p])
           /\ Holder(s, Shown(s, p)) = p
<1>1. s.ids[p] \in Seq(Ids)
  BY DEF SoundRows, RowState
<1>2. 1 \in DOMAIN s.ids[p] /\ Shown(s, p) = s.ids[p][1] /\ s.ids[p][1] \in Ids
  BY <1>1 DEF Shown
<1>3. Shown(s, p) \in ToSet(s.ids[p])
  BY <1>2 DEF ToSet
<1>. QED
  BY <1>2, <1>3, HolderIs

\* People who have one id in common are one.
LEMMA Together ==
    ASSUME NEW s, SoundRows(s), NEW i \in Ids, NEW j \in ToSet(Of(s, i))
    PROVE  j \in Ids /\ Holder(s, j) = Holder(s, i) /\ Of(s, j) = Of(s, i)
<1>1. Of(s, i) \in Seq(Ids)
  BY HolderIs DEF Of, SoundRows, RowState
<1>2. j \in Ids
  BY <1>1 DEF ToSet
<1>. QED
  BY <1>2, HolderIs DEF Of

-----------------------------------------------------------------------------
(* What one event says                                                     *)

Events ==
    [k : {"group", "deleted"}] \cup [k : {"member"}, who : Ids, v : Nat]
    \cup [k : {"moderated"}, who : Ids, list : Lists, on : BOOLEAN, v : Nat]
    \cup [k : {"linked", "unlinked"}, who : Ids, ids : SUBSET Ids, moved : Ids]

Same(s, t, i) == Of(t, i) = Of(s, i) /\ Holder(t, i) = Holder(s, i)

\* A ban or a sanction: one person's, in one list, with a later version.
Moderated(s, t, e) ==
    LET p == Holder(s, e.who)
    IN  /\ e \in [k : {"moderated"}, who : Ids, list : Lists, on : BOOLEAN, v : Nat]
        /\ t.ids = s.ids
        /\ e.v = t.version[p] /\ e.v > s.version[p]
        /\ \A q \in Ids : q # p => t.version[q] = s.version[q]
        /\ (p \in t.marked[e.list]) = e.on
        /\ \A l \in Lists : \A q \in Ids :
              l # e.list \/ q # p => (q \in t.marked[l]) = (q \in s.marked[l])

\* A link or an unlink: the ids of one person as they are now, and one that came
\* or left.  All of these have other ids than before, and nobody else has.
Relinked(s, t, e) ==
    /\ e \in [k : {"linked", "unlinked"}, who : Ids, ids : SUBSET Ids, moved : Ids]
    /\ t.marked = s.marked /\ t.version = s.version
    /\ e.who \in e.ids
    /\ \A i \in e.ids : ToSet(Of(t, i)) = e.ids
    /\ \/ e.k = "linked" /\ e.moved \in e.ids
       \/ e.k = "unlinked" /\ e.moved \notin e.ids /\ ToSet(Of(t, e.moved)) = {e.moved}
    /\ \A i \in Ids : i \notin e.ids \cup {e.moved} => Same(s, t, i)
    /\ \A i \in e.ids \cup {e.moved} : Of(t, i) # Of(s, i)

Wrote(s, t, e) ==
    \/ /\ e.k \in {"group", "deleted", "member"}
       /\ t.ids = s.ids /\ t.marked = s.marked /\ t.version = s.version
    \/ Moderated(s, t, e)
    \/ Relinked(s, t, e)

LEMMA MemberRowType ==
    ASSUME NEW s \in RowState, NEW p \in Ids
    PROVE  s.members[p] \in RowType
  BY DEF RowState

LEMMA RowTypes ==
    /\ NoRow \in RowType
    /\ \A p \in Ids, n \in Nat : NewRow(p, n) \in RowType
    /\ \A parts : \A row \in RowType, n \in Nat :
          /\ Changed(row, parts, n) \in RowType
          /\ row.v \in Nat /\ Changed(row, parts, n).v \in Nat
<1>1. <<>> \in RowIds /\ \A p \in Ids, n \in Nat : <<p, n>> \in RowIds
  BY DEF RowIds
<1>2. [part \in Parts |-> 0] \in [Parts -> Nat]
  OBVIOUS
<1>3. ASSUME NEW p \in Ids, NEW n \in Nat PROVE NewRow(p, n) \in RowType
  <2>1. [part \in Parts |-> n] \in [Parts -> Nat] /\ <<p, n>> \in RowIds
    BY <1>1
  <2>. QED
    BY <2>1 DEF NewRow, RowType
<1>4. ASSUME NEW row \in RowType, NEW parts, NEW n \in Nat
      PROVE  /\ Changed(row, parts, n) \in RowType
             /\ row.v \in Nat /\ Changed(row, parts, n).v \in Nat
  <2>1. row.id \in RowIds /\ row.v \in Nat /\ row.says \in [Parts -> Nat]
    BY DEF RowType
  <2>2. [part \in Parts |-> IF part \in parts THEN n ELSE row.says[part]] \in [Parts -> Nat]
    BY <2>1
  <2>. QED
    BY <2>1, <2>2 DEF Changed, RowType
<1>. QED
  BY <1>1, <1>2, <1>3, <1>4 DEF NoRow, RowType

LEMMA ModerateWrites ==
    ASSUME SoundRows(Now), NEW i \in Ids, NEW l \in Lists, Moderate(l, i)
    PROVE  \E s, e : /\ Write("moderate", s, e) /\ SoundRows(s) /\ e \in Events
                     /\ Wrote(Now, s, e)
<1> DEFINE p == Holder(Now, i)
           on == p \notin Now.marked[l]
           v == Now.version[p] + 1
           s == [Now EXCEPT !.marked[l] = IF on THEN @ \cup {p} ELSE @ \ {p}, !.version[p] = v]
           e == [k |-> "moderated", who |-> i, list |-> l, on |-> on, v |-> v]
<1>1. Write("moderate", s, e)
  BY DEF Moderate
<1>2. p \in Ids /\ Now.ids[p] # <<>>
  BY HolderIs DEF Of
<1>3. Now \in RowState /\ Now.version[p] \in Nat /\ v \in Nat /\ v > Now.version[p] /\ v > 0
  <2>1. Now \in RowState
    BY DEF SoundRows
  <2>2. Now.version[p] \in Nat
    BY <1>2, <2>1 DEF RowState
  <2>. QED
    BY <2>1, <2>2
<1>4. s.ids = Now.ids /\ s.version = [Now.version EXCEPT ![p] = v]
      /\ s.marked = [Now.marked EXCEPT ![l] = IF on THEN @ \cup {p} ELSE @ \ {p}]
  BY <1>3 DEF RowState
<1>5. s \in RowState
  BY <1>2, <1>3 DEF RowState
<1>6. s.version[p] = v /\ \A q \in Ids : q # p => s.version[q] = Now.version[q]
  BY <1>2, <1>3, <1>4 DEF RowState
<1>7. \A l2 \in Lists : l2 # l => s.marked[l2] = Now.marked[l2]
  BY <1>3, <1>4 DEF RowState
<1>8. s.marked[l] = IF on THEN Now.marked[l] \cup {p} ELSE Now.marked[l] \ {p}
  BY <1>3, <1>4 DEF RowState
<1>9. SoundRows(s)
  <2>1. OneEach(s.ids)
    BY <1>4 DEF SoundRows
  <2>2. \A q \in Ids : s.version[q] > 0 => s.ids[q] # <<>>
    BY <1>2, <1>4, <1>6 DEF SoundRows
  <2>3. \A l2 \in Lists : \A q \in s.marked[l2] : s.version[q] > 0
    <3> SUFFICES ASSUME NEW l2 \in Lists, NEW q \in s.marked[l2] PROVE s.version[q] > 0
      OBVIOUS
    <3>1. q \in Ids
      BY <1>5 DEF RowState
    <3>2. CASE q = p
      BY <3>2, <1>3, <1>6
    <3>3. CASE q # p
      BY <3>1, <3>3, <1>6, <1>7, <1>8 DEF SoundRows
    <3>. QED
      BY <3>2, <3>3
  <2>. QED
    BY <1>5, <2>1, <2>2, <2>3 DEF SoundRows
<1>10. e \in Events
  BY <1>3 DEF Events
<1>11. Moderated(Now, s, e)
  <2>1. e \in [k : {"moderated"}, who : Ids, list : Lists, on : BOOLEAN, v : Nat]
        /\ e.k = "moderated" /\ e.who = i /\ e.list = l /\ e.on = on /\ e.v = v
    BY <1>3
  <2>2. (p \in s.marked[l]) = on
    BY <1>8
  <2>3. \A l2 \in Lists : \A q \in Ids :
            l2 # l \/ q # p => (q \in s.marked[l2]) = (q \in Now.marked[l2])
    BY <1>7, <1>8
  <2>4. s.ids = Now.ids /\ e.v = s.version[p] /\ e.v > Now.version[p]
    BY <1>3, <1>4, <1>6, <2>1
  <2>. HIDE DEF s, e, p, on, v
  <2>5. p = Holder(Now, e.who)
    BY <2>1 DEF p
  <2>. QED
    BY <2>1, <2>2, <2>3, <2>4, <2>5, <1>6 DEF Moderated
<1>. QED
  BY <1>1, <1>9, <1>10, <1>11 DEF Wrote

LEMMA OthersWrite ==
    ASSUME SoundRows(Now), End \in Nat,
           (\E i \in Ids : ChangeMember(i)) \/ ChangeGroup \/ DeleteGroup
    PROVE  \E kind, s, e : /\ Write(kind, s, e) /\ SoundRows(s) /\ e \in Events
                           /\ Wrote(Now, s, e)
<1>0. Now \in RowState /\ End + 2 \in Nat
  BY DEF SoundRows
<1>1. CASE ChangeGroup
  <2> DEFINE s == [Now EXCEPT !.group = End + 2]  e == [k |-> "group"]
  <2>1. s \in RowState /\ s.ids = Now.ids /\ s.marked = Now.marked /\ s.version = Now.version
    BY <1>0 DEF RowState
  <2>2. SoundRows(s)
    BY <2>1 DEF SoundRows
  <2>3. Write("group", s, e) /\ e \in Events /\ Wrote(Now, s, e)
    BY <1>1, <2>1 DEF ChangeGroup, Wrote, Events
  <2>. QED
    BY <2>2, <2>3
<1>2. CASE DeleteGroup
  <2>0. PICK members \in {Now.members, [p \in People |-> NoRow]} :
           Write("delete", [Now EXCEPT !.group = 0, !.members = members], [k |-> "deleted"])
    BY <1>2 DEF DeleteGroup
  <2> DEFINE s == [Now EXCEPT !.group = 0, !.members = members]  e == [k |-> "deleted"]
  <2>4. members \in [Ids -> RowType]
    <3>1. Now.members \in [Ids -> RowType]
      BY <1>0 DEF RowState
    <3>. QED
      BY <3>1, <2>0, RowTypes DEF People
  <2>1. s \in RowState /\ s.ids = Now.ids /\ s.marked = Now.marked /\ s.version = Now.version
    BY <1>0, <2>4 DEF RowState
  <2>2. SoundRows(s)
    BY <2>1 DEF SoundRows
  <2>3. Write("delete", s, e) /\ e \in Events /\ Wrote(Now, s, e)
    BY <2>0, <2>1 DEF Wrote, Events
  <2>. QED
    BY <2>2, <2>3
<1>3. ASSUME NEW i \in Ids, ChangeMember(i)
      PROVE  \E kind, s, e : /\ Write(kind, s, e) /\ SoundRows(s) /\ e \in Events
                             /\ Wrote(Now, s, e)
  <2> DEFINE p == Holder(Now, i)
  <2>0. PICK row \in IF Now.members[p] = NoRow THEN {NewRow(p, End + 2)}
                     ELSE {Changed(Now.members[p], parts, End + 2) : parts \in Changes} :
           Write("member", [Now EXCEPT !.members[p] = row], [k |-> "member", who |-> i, v |-> row.v])
    BY <1>3 DEF ChangeMember
  <2> DEFINE s == [Now EXCEPT !.members[p] = row]
             e == [k |-> "member", who |-> i, v |-> row.v]
  <2>1. p \in Ids
    BY HolderIs
  <2>7. row \in RowType
    <3>1. Now.members[p] \in RowType
      BY <2>1, <1>0, MemberRowType
    <3>. QED
      BY <2>0, <2>1, <1>0, <3>1, RowTypes
  <2>2. row.v \in Nat
    BY <2>7 DEF RowType
  <2>3. s \in RowState /\ s.ids = Now.ids /\ s.marked = Now.marked /\ s.version = Now.version
    BY <1>0, <2>1, <2>7 DEF RowState
  <2>4. SoundRows(s)
    BY <2>3 DEF SoundRows
  <2>5. Write("member", s, e)
    BY <2>0
  <2>6. e \in Events /\ Wrote(Now, s, e)
    BY <2>2, <2>3 DEF Wrote, Events
  <2>. QED
    BY <2>4, <2>5, <2>6
<1>. QED
  BY <1>1, <1>2, <1>3

LEMMA OneEachIs ==
    ASSUME NEW ids \in [Ids -> Seq(Ids)]
    PROVE  OneEach(ids) <=>
           /\ \A i \in Ids : \E p \in Ids : \E n \in DOMAIN ids[p] : ids[p][n] = i
           /\ \A p, q \in Ids : \A n \in DOMAIN ids[p] : \A m \in DOMAIN ids[q] :
                 ids[p][n] = ids[q][m] => p = q /\ n = m
<1>1. \A p \in Ids : \A n \in DOMAIN ids[p] : ids[p][n] \in Ids
  OBVIOUS
<1>2. ASSUME OneEach(ids), NEW p \in Ids, NEW q \in Ids, NEW n \in DOMAIN ids[p],
             NEW m \in DOMAIN ids[q], ids[p][n] = ids[q][m]
      PROVE  p = q /\ n = m
  <2>1. PICK r \in Ids : \E x \in DOMAIN ids[r] :
           \A s \in Ids : \A y \in DOMAIN ids[s] : ids[s][y] = ids[p][n] => s = r /\ y = x
    BY <1>1, <1>2 DEF OneEach
  <2>2. PICK x \in DOMAIN ids[r] :
           \A s \in Ids : \A y \in DOMAIN ids[s] : ids[s][y] = ids[p][n] => s = r /\ y = x
    BY <2>1
  <2>3. p = r /\ n = x
    BY <2>2
  <2>4. q = r /\ m = x
    BY <2>2, <1>2
  <2>. QED
    BY <2>3, <2>4
<1>. QED
  BY <1>2 DEF OneEach

\* Without its element at k.
LEMMA RemovedAt ==
    ASSUME NEW S, NEW a \in Seq(S), NEW k \in 1 .. Len(a)
    PROVE  /\ RemoveAt(a, k) \in Seq(S)
           /\ Len(RemoveAt(a, k)) = Len(a) - 1
           /\ \A m \in 1 .. Len(a) - 1 :
                 RemoveAt(a, k)[m] = IF m < k THEN a[m] ELSE a[m + 1]
<1> DEFINE b == SubSeq(a, 1, k - 1)  c == SubSeq(a, k + 1, Len(a))
<1>1. b \in Seq(S) /\ Len(b) = k - 1 /\ \A m \in 1 .. k - 1 : b[m] = a[m]
  OBVIOUS
<1>2. c \in Seq(S) /\ Len(c) = Len(a) - k /\ \A m \in 1 .. Len(a) - k : c[m] = a[m + k]
  OBVIOUS
<1>3. RemoveAt(a, k) = b \o c
  BY DEF RemoveAt
<1> HIDE DEF b, c
<1>4. b \o c \in Seq(S) /\ Len(b \o c) = Len(a) - 1
      /\ \A i \in 1 .. Len(a) - 1 : (b \o c)[i] = IF i <= k - 1 THEN b[i] ELSE c[i - (k - 1)]
  <2>1. b \o c \in Seq(S) /\ Len(b \o c) = Len(b) + Len(c)
        /\ \A i \in 1 .. Len(b) + Len(c) : (b \o c)[i] = IF i <= Len(b) THEN b[i] ELSE c[i - Len(b)]
    BY <1>1, <1>2, ConcatProperties, Zenon
  <2>2. Len(b) + Len(c) = Len(a) - 1
    BY <1>1, <1>2
  <2>. QED
    BY <2>1, <2>2, <1>1
<1>5. ASSUME NEW m \in 1 .. Len(a) - 1
      PROVE  (b \o c)[m] = IF m < k THEN a[m] ELSE a[m + 1]
  <2>1. CASE m < k
    BY <2>1, <1>1, <1>4
  <2>2. CASE ~(m < k)
    <3>1. (b \o c)[m] = c[m - (k - 1)]
      BY <2>2, <1>4
    <3>2. m - (k - 1) \in 1 .. Len(a) - k /\ m - (k - 1) + k = m + 1
      BY <2>2
    <3>. QED
      BY <3>1, <3>2, <2>2, <1>2
  <2>. QED
    BY <2>1, <2>2
<1>. QED
  BY <1>3, <1>4, <1>5

LEMMA LinkWrites ==
    ASSUME SoundRows(Now), End \in Nat, NEW p \in Ids, NEW q \in Ids, Link(p, q)
    PROVE  \E s, e : /\ Write("link", s, e) /\ SoundRows(s) /\ e \in Events
                     /\ Wrote(Now, s, e)
<1> DEFINE a == Now.ids[p]
           b == Now.ids[q]
           ids == a \o b
           new == [Now.ids EXCEPT ![p] = ids, ![q] = <<>>]
           row == Now.members[q]
           kept == IF Now.members[p] = NoRow /\ row # NoRow
                   THEN Changed(row, {}, End) ELSE Now.members[p]
           members == [Now.members EXCEPT ![p] = kept, ![q] = NoRow]
           s == [Now EXCEPT !.ids = new, !.members = members]
           e == [k |-> "linked", who |-> Last(ids), ids |-> ToSet(ids), moved |-> Last(ids)]
<1>0. a = Now.ids[p] /\ b = Now.ids[q]
  OBVIOUS
<1>w. Write("link", s, e)
  BY DEF Link
<1>1. p # q /\ a # <<>> /\ Len(b) = 1 /\ Now.version[q] = 0
  BY DEF Link
<1>2. Now \in RowState /\ Now.ids \in [Ids -> Seq(Ids)] /\ a \in Seq(Ids) /\ b \in Seq(Ids)
      /\ row \in RowType /\ OneEach(Now.ids)
  BY DEF SoundRows, RowState
<1> HIDE DEF a, b, s, e, row
<1>3. ids \in Seq(Ids) /\ Len(ids) = Len(a) + 1 /\ (\A m \in 1 .. Len(a) : ids[m] = a[m])
      /\ ids[Len(a) + 1] = b[1] /\ b[1] \in Ids /\ Len(a) >= 1
  <2>1. ids \in Seq(Ids) /\ Len(ids) = Len(a) + Len(b)
        /\ \A m \in 1 .. Len(a) + Len(b) : ids[m] = IF m <= Len(a) THEN a[m] ELSE b[m - Len(a)]
    BY <1>2, ConcatProperties, Zenon
  <2>2. Len(a) \in Nat /\ Len(a) >= 1 /\ b[1] \in Ids
    <3>1. Len(a) # 0
      BY <1>1, <1>2, EmptySeq
    <3>2. a \in Seq(Ids) /\ b \in Seq(Ids)
      BY <1>2
    <3>3. Len(a) \in Nat /\ Len(a) >= 1
      BY <3>1, <3>2
    <3>4. Len(b) = 1
      BY <1>1
    <3>5. 1 \in 1 .. Len(b)
      BY <3>4
    <3>6. b[1] \in Ids
      BY <3>2, <3>5, ElementOfSeq, Zenon
    <3>. QED
      BY <3>3, <3>6
  <2> HIDE DEF ids
  <2>3. Len(a) + 1 \in 1 .. Len(a) + Len(b) /\ Len(a) + 1 - Len(a) = 1 /\ ~(Len(a) + 1 <= Len(a))
    BY <1>1, <2>2
  <2>4. ids[Len(a) + 1] = b[1]
    BY <2>1, <2>3
  <2>5. \A m \in 1 .. Len(a) : ids[m] = a[m]
    BY <1>1, <2>1, <2>2
  <2>. QED
    BY <1>1, <2>1, <2>2, <2>4, <2>5
<1>4. new \in [Ids -> Seq(Ids)] /\ new[p] = ids /\ new[q] = <<>>
      /\ \A r \in Ids : r \notin {p, q} => new[r] = Now.ids[r]
  <2>1. Now.ids \in [Ids -> Seq(Ids)] /\ ids \in Seq(Ids) /\ <<>> \in Seq(Ids) /\ p # q
    BY <1>1, <1>2, <1>3, EmptySeq
  <2> HIDE DEF ids
  <2>2. new = [[Now.ids EXCEPT ![p] = ids] EXCEPT ![q] = <<>>]
    OBVIOUS
  <2> HIDE DEF new
  <2>. QED
    BY <2>1, <2>2
<1>5. s \in RowState /\ s.ids = new /\ s.marked = Now.marked /\ s.version = Now.version
  <2>1. s = [Now EXCEPT !.ids = new, !.members = members]
    BY DEF s, new, members
  <2>2. members \in [Ids -> RowType]
    <3>1. NoRow \in RowType /\ kept \in RowType
      <4>1. row \in RowType /\ Now.members[p] \in RowType
        BY <1>2, MemberRowType
      <4>. QED
        BY <4>1, RowTypes
    <3>2. Now.members \in [Ids -> RowType]
      BY <1>2 DEF RowState
    <3> HIDE DEF kept
    <3>. QED
      BY <3>1, <3>2
  <2>3. Now \in RowState
    BY <1>2
  <2> HIDE DEF new, ids, members
  <2>. QED
    BY <2>1, <2>2, <2>3, <1>4 DEF RowState
<1> HIDE DEF new, ids
<1>6. \A x, y \in Ids : \A n \in DOMAIN Now.ids[x] : \A m \in DOMAIN Now.ids[y] :
         Now.ids[x][n] = Now.ids[y][m] => x = y /\ n = m
  BY <1>2, OneEachIs
<1>7. \A i \in Ids : \E x \in Ids : \E n \in DOMAIN Now.ids[x] : Now.ids[x][n] = i
  BY <1>2, OneEachIs
<1>8. DOMAIN a = 1 .. Len(a) /\ DOMAIN b = {1} /\ DOMAIN ids = 1 .. Len(a) + 1 /\ DOMAIN new[q] = {}
      /\ \A r \in Ids : r \notin {p, q} => DOMAIN new[r] = DOMAIN Now.ids[r]
  <2>1. DOMAIN a = 1 .. Len(a) /\ DOMAIN b = 1 .. 1 /\ DOMAIN ids = 1 .. Len(a) + 1
    BY <1>1, <1>2, <1>3
  <2>2. DOMAIN new[q] = {}
    BY <1>4
  <2>3. 1 .. 1 = {1}
    OBVIOUS
  <2>. QED
    BY <2>1, <2>2, <2>3, <1>4
<1>9. OneEach(new)
  <2>1. ASSUME NEW i \in Ids
        PROVE  \E x \in Ids : \E n \in DOMAIN new[x] : new[x][n] = i
    <3>1. PICK x \in Ids : \E n \in DOMAIN Now.ids[x] : Now.ids[x][n] = i
      BY <1>7
    <3>2. PICK n \in DOMAIN Now.ids[x] : Now.ids[x][n] = i
      BY <3>1
    <3>3. CASE x = p
      <4>1. n \in DOMAIN ids /\ ids[n] = i
        BY <3>2, <3>3, <1>0, <1>3, <1>8
      <4>. QED
        BY <4>1, <1>4
    <3>4. CASE x = q
      <4>1. Len(a) + 1 \in DOMAIN ids /\ ids[Len(a) + 1] = i
        BY <3>2, <3>4, <1>0, <1>3, <1>8
      <4>. QED
        BY <4>1, <1>4
    <3>5. CASE x \notin {p, q}
      BY <3>2, <3>5, <1>4
    <3>. QED
      BY <3>3, <3>4, <3>5
  <2>2. ASSUME NEW x \in Ids, NEW n \in DOMAIN new[x]
        PROVE  \E z \in Ids : \E k \in DOMAIN Now.ids[z] :
                  /\ new[x][n] = Now.ids[z][k]
                  /\ z = (IF x = p /\ n = Len(a) + 1 THEN q ELSE x)
                  /\ k = (IF x = p /\ n = Len(a) + 1 THEN 1 ELSE n)
                  /\ x # q
    <3>1. CASE x = p /\ n = Len(a) + 1
      BY <3>1, <1>0, <1>1, <1>3, <1>4, <1>8
    <3>2. CASE x = p /\ n # Len(a) + 1
      <4>1. n \in DOMAIN a /\ ids[n] = a[n]
        BY <3>2, <1>3, <1>4, <1>8
      <4>. QED
        BY <4>1, <3>2, <1>0, <1>1, <1>4
    <3>3. CASE x # p
      <4>1. x # q
        BY <1>8
      <4>2. new[x] = Now.ids[x]
        BY <4>1, <3>3, <1>4
      <4>. QED
        BY <4>1, <4>2, <3>3
    <3>. QED
      BY <3>1, <3>2, <3>3
  <2>3. ASSUME NEW x \in Ids, NEW y \in Ids, NEW n \in DOMAIN new[x], NEW m \in DOMAIN new[y],
               new[x][n] = new[y][m]
        PROVE  x = y /\ n = m
    <3> DEFINE z(r, h) == IF r = p /\ h = Len(a) + 1 THEN q ELSE r
               k(r, h) == IF r = p /\ h = Len(a) + 1 THEN 1 ELSE h
    <3>1. x # q /\ y # q
      BY <2>2
    <3>2. z(x, n) \in Ids /\ k(x, n) \in DOMAIN Now.ids[z(x, n)] /\ new[x][n] = Now.ids[z(x, n)][k(x, n)]
      BY <2>2
    <3>3. z(y, m) \in Ids /\ k(y, m) \in DOMAIN Now.ids[z(y, m)] /\ new[y][m] = Now.ids[z(y, m)][k(y, m)]
      BY <2>2
    <3>4. z(x, n) = z(y, m) /\ k(x, n) = k(y, m)
      <4> HIDE DEF z, k
      <4>1. Now.ids[z(x, n)][k(x, n)] = Now.ids[z(y, m)][k(y, m)]
        BY <2>3, <3>2, <3>3
      <4>. QED
        BY <4>1, <3>2, <3>3, <1>6
    <3>. QED
      BY <3>1, <3>4
  <2>. QED
    BY <2>1, <2>3, <1>4, OneEachIs
<1>10. SoundRows(s)
  <2>1. \A r \in Ids : s.version[r] > 0 => s.ids[r] # <<>>
    <3>1. ids # <<>>
      BY <1>3
    <3>2. ~(Now.version[q] > 0)
      BY <1>1
    <3>. QED
      BY <3>1, <3>2, <1>4, <1>5 DEF SoundRows
  <2>2. \A l \in Lists : \A r \in s.marked[l] : s.version[r] > 0
    BY <1>5 DEF SoundRows
  <2>. QED
    BY <2>1, <2>2, <1>5, <1>9 DEF SoundRows
<1>11. Last(ids) = b[1] /\ ToSet(ids) = ToSet(a) \cup {b[1]} /\ ToSet(b) = {b[1]}
       /\ ToSet(ids) \subseteq Ids
  <2>1. Last(ids) = b[1]
    BY <1>2, <1>3 DEF Last
  <2>2. ToSet(ids) = ToSet(a) \cup {b[1]}
    <3>1. ASSUME NEW i \in ToSet(ids) PROVE i \in ToSet(a) \cup {b[1]}
      <4>1. PICK n \in DOMAIN ids : ids[n] = i
        BY DEF ToSet
      <4>2. n \in DOMAIN a \/ n = Len(a) + 1
        BY <1>8, <1>3
      <4>. QED
        BY <4>1, <4>2, <1>3, <1>8 DEF ToSet
    <3>2. ASSUME NEW i \in ToSet(a) PROVE i \in ToSet(ids)
      <4>1. PICK n \in DOMAIN a : a[n] = i
        BY DEF ToSet
      <4>2. n \in DOMAIN ids /\ ids[n] = i
        BY <4>1, <1>3, <1>8
      <4>. QED
        BY <4>2 DEF ToSet
    <3>3. Len(a) + 1 \in DOMAIN ids /\ ids[Len(a) + 1] = b[1]
      BY <1>3, <1>8
    <3>4. b[1] \in ToSet(ids)
      BY <3>3 DEF ToSet
    <3>. QED
      BY <3>1, <3>2, <3>4
  <2>3. ToSet(b) = {b[1]}
    BY <1>8 DEF ToSet
  <2>4. ToSet(ids) \subseteq Ids
    BY <1>3 DEF ToSet
  <2>. QED
    BY <2>1, <2>2, <2>3, <2>4
<1>12. e \in [k : {"linked", "unlinked"}, who : Ids, ids : SUBSET Ids, moved : Ids]
       /\ e.k = "linked" /\ e.who = b[1] /\ e.ids = ToSet(ids) /\ e.moved = b[1]
  BY <1>3, <1>11 DEF e
<1>13. \A i \in e.ids : Holder(s, i) = p /\ Of(s, i) = ids
  <2> SUFFICES ASSUME NEW i \in e.ids PROVE Holder(s, i) = p /\ Of(s, i) = ids
    OBVIOUS
  <2>1. i \in Ids /\ i \in ToSet(s.ids[p])
    BY <1>4, <1>5, <1>11, <1>12
  <2>2. Holder(s, i) = p
    BY <2>1, <1>10, HolderIs
  <2>. QED
    BY <2>2, <1>4, <1>5 DEF Of
<1>14. \A i \in e.ids : Of(Now, i) # Of(s, i)
  <2> SUFFICES ASSUME NEW i \in e.ids PROVE Of(Now, i) # ids
    BY <1>13
  <2>1. i \in Ids /\ Holder(Now, i) \in {p, q}
    <3>1. i \in ToSet(a) \cup ToSet(b)
      BY <1>11, <1>12
    <3>2. i \in Ids
      BY <1>12
    <3>. QED
      BY <3>1, <3>2, <1>0, HolderIs
  <2>2. Of(Now, i) \in {a, b}
    BY <2>1, <1>0 DEF Of
  <2>3. a # ids /\ b # ids
    <3>0. a \in Seq(Ids)
      BY <1>2
    <3>1. Len(a) \in Nat /\ Len(a) >= 1
      BY <3>0, <1>3
    <3>2. Len(ids) = Len(a) + 1
      BY <1>3
    <3>3. Len(a) # Len(ids) /\ Len(b) # Len(ids)
      BY <1>1, <3>1, <3>2
    <3>. QED
      BY <3>3
  <2>. QED
    BY <2>2, <2>3
<1>15. ASSUME NEW i \in Ids, i \notin e.ids PROVE Same(Now, s, i)
  <2>1. i \notin ToSet(a) /\ i \notin ToSet(b)
    BY <1>11, <1>12, <1>15
  <2>2. Holder(Now, i) \in Ids /\ Holder(Now, i) \notin {p, q} /\ i \in ToSet(Now.ids[Holder(Now, i)])
    BY <2>1, <1>0, HolderIs DEF Of
  <2>3. s.ids[Holder(Now, i)] = Now.ids[Holder(Now, i)]
    BY <2>2, <1>4, <1>5
  <2>4. Holder(s, i) = Holder(Now, i)
    BY <2>2, <2>3, <1>10, HolderIs
  <2>. QED
    BY <2>3, <2>4 DEF Same, Of
<1>16. Relinked(Now, s, e)
  <2>1. e.who \in e.ids /\ e.moved \in e.ids
    BY <1>11, <1>12
  <2>2. \A i \in e.ids : ToSet(Of(s, i)) = e.ids
    BY <1>12, <1>13
  <2>. QED
    BY <2>1, <2>2, <1>5, <1>12, <1>14, <1>15 DEF Relinked
<1>. QED
  BY <1>w, <1>10, <1>12, <1>16 DEF Wrote, Events

\* While somebody has two ids, there is a name for another person.
LEMMA SomebodyNew ==
    ASSUME SoundRows(Now), NEW p \in Ids, Len(Now.ids[p]) > 1
    PROVE  \E q \in Ids : Now.ids[q] = <<>>
<1> SUFFICES ASSUME \A q \in Ids : Now.ids[q] # <<>> PROVE FALSE
  OBVIOUS
<1>1. Now.ids \in [Ids -> Seq(Ids)]
  BY DEF SoundRows, RowState
<1>2. \A x, y \in Ids : \A n \in DOMAIN Now.ids[x] : \A m \in DOMAIN Now.ids[y] :
         Now.ids[x][n] = Now.ids[y][m] => x = y /\ n = m
  BY <1>1, OneEachIs DEF SoundRows
<1>3. 2 \in DOMAIN Now.ids[p] /\ \A q \in Ids : 1 \in DOMAIN Now.ids[q]
  BY <1>1, EmptySeq
<1> DEFINE second == Now.ids[p][2]
           T == Ids \ {second}
           f == [q \in Ids |-> Now.ids[q][1]]
<1>4. second \in Ids
  BY <1>1, <1>3
<1>5. \A q \in Ids : Now.ids[q][1] \in T
  <2> SUFFICES ASSUME NEW q \in Ids PROVE Now.ids[q][1] \in T
    OBVIOUS
  <2>1. Now.ids[q][1] \in Ids
    BY <1>1, <1>3
  <2>2. Now.ids[q][1] # second
    BY <1>2, <1>3
  <2>. QED
    BY <2>1, <2>2
<1>6. f \in [Ids -> T]
  BY <1>5
<1>7. IsFiniteSet(Ids)
  BY BoundsAssumption
<1>8. IsFiniteSet(T) /\ Cardinality(T) = Cardinality(Ids) - 1 /\ Cardinality(Ids) \in Nat
  BY <1>4, <1>7, FS_RemoveElement, FS_CardinalityType
<1>9. Cardinality(T) < Cardinality(Ids)
  BY <1>8
<1> HIDE DEF T, f
<1>10. PICK x, y \in Ids : x # y /\ f[x] = f[y]
  BY <1>6, <1>7, <1>8, <1>9, FS_PigeonHole
<1>. QED
  BY <1>2, <1>3, <1>10 DEF f

LEMMA UnlinkWrites ==
    ASSUME SoundRows(Now), NEW i \in Ids, Unlink(i)
    PROVE  \E s, e : /\ Write("unlink", s, e) /\ SoundRows(s) /\ e \in Events
                     /\ Wrote(Now, s, e)
<1> DEFINE p == Holder(Now, i)
           a == Now.ids[p]
           k == CHOOSE n \in DOMAIN a : a[n] = i
           left == RemoveAt(a, k)
           q == CHOOSE x \in People : Now.ids[x] = <<>>
           new == [Now.ids EXCEPT ![p] = left, ![q] = <<i>>]
           s == [Now EXCEPT !.ids = new]
           e == [k |-> "unlinked", who |-> Head(left), ids |-> ToSet(left), moved |-> i]
<1>w. Write("unlink", s, e)
  BY DEF Unlink
<1>1. left # <<>>
  BY DEF Unlink
<1>2. p \in Ids /\ i \in ToSet(a) /\ a = Now.ids[p]
  BY HolderIs DEF Of
<1>3. Now \in RowState /\ Now.ids \in [Ids -> Seq(Ids)] /\ OneEach(Now.ids)
  BY DEF SoundRows, RowState
<1>4. a \in Seq(Ids)
  BY <1>2, <1>3
<1> HIDE DEF p, a
<1>5. k \in DOMAIN a /\ a[k] = i
  BY <1>2 DEF ToSet
<1> HIDE DEF k
<1>6. k \in 1 .. Len(a) /\ Len(a) \in Nat
  BY <1>4, <1>5
<1>7. left \in Seq(Ids) /\ Len(left) = Len(a) - 1
      /\ \A m \in 1 .. Len(a) - 1 : left[m] = IF m < k THEN a[m] ELSE a[m + 1]
  BY <1>4, <1>6, RemovedAt
<1> HIDE DEF left
<1>8. Len(left) >= 1 /\ Len(a) > 1
  <2>1. Len(left) # 0
    BY <1>1, <1>7, EmptySeq
  <2>. QED
    BY <1>6, <1>7, <2>1
<1>9. q \in Ids /\ Now.ids[q] = <<>> /\ q # p
  <2>1. \E x \in Ids : Now.ids[x] = <<>>
    BY <1>2, <1>8, SomebodyNew
  <2>2. q \in Ids /\ Now.ids[q] = <<>>
    BY <2>1 DEF People
  <2>3. a # <<>>
    BY <1>5
  <2>. QED
    BY <1>2, <2>2, <2>3
<1> HIDE DEF q
<1>10. new \in [Ids -> Seq(Ids)] /\ new[p] = left /\ new[q] = <<i>>
       /\ \A r \in Ids : r \notin {p, q} => new[r] = Now.ids[r]
  <2>1. <<i>> \in Seq(Ids)
    OBVIOUS
  <2>2. new = [[Now.ids EXCEPT ![p] = left] EXCEPT ![q] = <<i>>]
    OBVIOUS
  <2> HIDE DEF new
  <2>. QED
    BY <1>2, <1>3, <1>7, <1>9, <2>1, <2>2
<1> HIDE DEF new
<1>11. s \in RowState /\ s.ids = new /\ s.marked = Now.marked /\ s.version = Now.version
  BY <1>3, <1>10 DEF RowState
<1> HIDE DEF s
<1>12. \A x, y \in Ids : \A n \in DOMAIN Now.ids[x] : \A m \in DOMAIN Now.ids[y] :
         Now.ids[x][n] = Now.ids[y][m] => x = y /\ n = m
  BY <1>3, OneEachIs
<1>13. \A j \in Ids : \E x \in Ids : \E n \in DOMAIN Now.ids[x] : Now.ids[x][n] = j
  BY <1>3, OneEachIs
<1>14. DOMAIN a = 1 .. Len(a) /\ DOMAIN left = 1 .. Len(a) - 1 /\ DOMAIN new[q] = {1}
       /\ new[q][1] = i
  <2>1. DOMAIN left = 1 .. Len(left)
    BY <1>7
  <2>. QED
    BY <1>4, <1>7, <1>10, <2>1
<1>15. OneEach(new)
  <2>1. ASSUME NEW j \in Ids
        PROVE  \E x \in Ids : \E n \in DOMAIN new[x] : new[x][n] = j
    <3>1. PICK x \in Ids : \E n \in DOMAIN Now.ids[x] : Now.ids[x][n] = j
      BY <1>13
    <3>2. PICK n \in DOMAIN Now.ids[x] : Now.ids[x][n] = j
      BY <3>1
    <3>3. CASE x = p /\ n < k
      <4>1. n \in 1 .. Len(a) - 1
        BY <3>2, <3>3, <1>2, <1>6, <1>14
      <4>2. left[n] = j
        BY <4>1, <3>2, <3>3, <1>2, <1>7
      <4>. QED
        BY <4>1, <4>2, <1>2, <1>10, <1>14
    <3>4. CASE x = p /\ n = k
      <4>1. j = i
        BY <3>2, <3>4, <1>2, <1>5
      <4>. QED
        BY <4>1, <1>9, <1>14
    <3>5. CASE x = p /\ n > k
      <4>1. n - 1 \in 1 .. Len(a) - 1 /\ ~(n - 1 < k) /\ n - 1 + 1 = n
        BY <3>2, <3>5, <1>2, <1>6, <1>14
      <4>2. left[n - 1] = j
        BY <4>1, <3>2, <3>5, <1>2, <1>7
      <4>. QED
        BY <4>1, <4>2, <1>2, <1>10, <1>14
    <3>6. CASE x # p
      <4>1. x # q
        BY <3>2, <1>9
      <4>. QED
        BY <4>1, <3>2, <3>6, <1>10
    <3>7. x = p => n < k \/ n = k \/ n > k
      BY <3>2, <1>2, <1>6, <1>14
    <3>. QED
      BY <3>3, <3>4, <3>5, <3>6, <3>7
  <2>2. ASSUME NEW x \in Ids, NEW n \in DOMAIN new[x]
        PROVE  \E z \in Ids : \E h \in DOMAIN Now.ids[z] :
                  /\ new[x][n] = Now.ids[z][h]
                  /\ z = (IF x = q THEN p ELSE x)
                  /\ h = (IF x = q THEN k ELSE IF x = p /\ ~(n < k) THEN n + 1 ELSE n)
                  /\ (x = p => h # k) /\ (x = q => n = 1)
    <3>1. CASE x = q
      BY <3>1, <1>2, <1>5, <1>9, <1>14
    <3>2. CASE x = p /\ n < k
      <4>1. n \in 1 .. Len(a) - 1 /\ n \in DOMAIN a /\ left[n] = a[n]
        BY <3>2, <1>7, <1>10, <1>14
      <4>. QED
        BY <4>1, <3>2, <1>2, <1>6, <1>9, <1>10
    <3>3. CASE x = p /\ ~(n < k)
      <4>1. n \in 1 .. Len(a) - 1 /\ n + 1 \in DOMAIN a /\ left[n] = a[n + 1] /\ n + 1 # k
        BY <3>3, <1>6, <1>7, <1>10, <1>14
      <4>. QED
        BY <4>1, <3>3, <1>2, <1>9, <1>10
    <3>4. CASE x \notin {p, q}
      BY <3>4, <1>10
    <3>. QED
      BY <3>1, <3>2, <3>3, <3>4
  <2>3. ASSUME NEW x \in Ids, NEW y \in Ids, NEW n \in DOMAIN new[x], NEW m \in DOMAIN new[y],
               new[x][n] = new[y][m]
        PROVE  x = y /\ n = m
    <3> DEFINE z(r) == IF r = q THEN p ELSE r
               h(r, t) == IF r = q THEN k ELSE IF r = p /\ ~(t < k) THEN t + 1 ELSE t
    <3>1. z(x) \in Ids /\ h(x, n) \in DOMAIN Now.ids[z(x)] /\ new[x][n] = Now.ids[z(x)][h(x, n)]
          /\ (x = p => h(x, n) # k) /\ (x = q => n = 1)
      BY <2>2
    <3>2. z(y) \in Ids /\ h(y, m) \in DOMAIN Now.ids[z(y)] /\ new[y][m] = Now.ids[z(y)][h(y, m)]
          /\ (y = p => h(y, m) # k) /\ (y = q => m = 1)
      BY <2>2
    <3>3. z(x) = z(y) /\ h(x, n) = h(y, m)
      <4> HIDE DEF z, h
      <4>1. Now.ids[z(x)][h(x, n)] = Now.ids[z(y)][h(y, m)]
        BY <2>3, <3>1, <3>2
      <4>. QED
        BY <4>1, <3>1, <3>2, <1>12
    <3>4. x = y
      BY <3>1, <3>2, <3>3
    <3>5. CASE x = p
      <4>1. n \in Int /\ m \in Int
        BY <3>4, <3>5, <1>10, <1>14
      <4>2. h(x, n) = h(x, m)
        BY <3>3, <3>4
      <4>3. (IF n < k THEN n ELSE n + 1) = (IF m < k THEN m ELSE m + 1)
        BY <4>2, <3>5, <1>9
      <4>. QED
        BY <4>1, <4>3, <3>4, <1>6
    <3>6. CASE x = q
      BY <3>1, <3>2, <3>4, <3>6
    <3>7. CASE x \notin {p, q}
      BY <3>3, <3>4, <3>7
    <3>. QED
      BY <3>4, <3>5, <3>6, <3>7
  <2>. QED
    BY <2>1, <2>3, <1>10, OneEachIs
<1>16. SoundRows(s)
  <2>1. \A r \in Ids : s.version[r] > 0 => s.ids[r] # <<>>
    <3>1. left # <<>> /\ <<i>> # <<>>
      BY <1>1
    <3>. QED
      BY <3>1, <1>9, <1>10, <1>11 DEF SoundRows
  <2>2. \A l \in Lists : \A r \in s.marked[l] : s.version[r] > 0
    BY <1>11 DEF SoundRows
  <2>. QED
    BY <2>1, <2>2, <1>11, <1>15 DEF SoundRows
<1>17. ToSet(left) = ToSet(a) \ {i} /\ ToSet(left) \subseteq Ids /\ Head(left) \in ToSet(left)
  <2>1. ASSUME NEW j \in ToSet(left) PROVE j \in ToSet(a) /\ j # i
    <3>1. PICK n \in DOMAIN left : left[n] = j
      BY DEF ToSet
    <3>2. n \in 1 .. Len(a) - 1
      BY <1>14
    <3>3. PICK h \in DOMAIN a : h # k /\ a[h] = j
      <4>1. CASE n < k
        BY <4>1, <3>1, <3>2, <1>6, <1>7, <1>14
      <4>2. CASE ~(n < k)
        BY <4>2, <3>1, <3>2, <1>6, <1>7, <1>14
      <4>. QED
        BY <4>1, <4>2
    <3>4. j # i
      BY <3>3, <1>2, <1>5, <1>12
    <3>. QED
      BY <3>3, <3>4 DEF ToSet
  <2>2. ASSUME NEW j \in ToSet(a), j # i PROVE j \in ToSet(left)
    <3>1. PICK h \in DOMAIN a : a[h] = j
      BY DEF ToSet
    <3>2. h # k /\ h \in 1 .. Len(a)
      BY <2>2, <3>1, <1>5, <1>14
    <3>3. CASE h < k
      <4>1. h \in DOMAIN left /\ left[h] = j
        BY <3>1, <3>2, <3>3, <1>6, <1>7, <1>14
      <4>. QED
        BY <4>1 DEF ToSet
    <3>4. CASE h > k
      <4>0. h - 1 \in 1 .. Len(a) - 1 /\ ~(h - 1 < k) /\ h - 1 + 1 = h
        BY <3>2, <3>4, <1>6
      <4>1. h - 1 \in DOMAIN left /\ left[h - 1] = j
        BY <4>0, <3>1, <1>7, <1>14
      <4>. QED
        BY <4>1 DEF ToSet
    <3>. QED
      BY <3>2, <3>3, <3>4, <1>6
  <2>3. 1 \in DOMAIN left /\ Head(left) = left[1]
    BY <1>1, <1>7, <1>8
  <2>4. ToSet(left) \subseteq Ids
    BY <1>7 DEF ToSet
  <2>. QED
    BY <2>1, <2>2, <2>3, <2>4 DEF ToSet
<1>18. e \in [k : {"linked", "unlinked"}, who : Ids, ids : SUBSET Ids, moved : Ids]
       /\ e.k = "unlinked" /\ e.who = Head(left) /\ e.ids = ToSet(left) /\ e.moved = i
  BY <1>17
<1> HIDE DEF e
<1>19. \A j \in e.ids : Holder(s, j) = p /\ Of(s, j) = left
  <2> SUFFICES ASSUME NEW j \in e.ids PROVE Holder(s, j) = p /\ Of(s, j) = left
    OBVIOUS
  <2>1. j \in Ids /\ j \in ToSet(s.ids[p])
    BY <1>10, <1>11, <1>17, <1>18
  <2>2. Holder(s, j) = p
    BY <2>1, <1>2, <1>16, HolderIs
  <2>. QED
    BY <2>2, <1>10, <1>11 DEF Of
<1>20. Holder(s, i) = q /\ Of(s, i) = <<i>> /\ ToSet(Of(s, i)) = {i}
  <2>0. ToSet(<<i>>) = {i}
    BY DEF ToSet
  <2>1. ToSet(<<i>>) = {i} /\ i \in ToSet(s.ids[q])
    BY <2>0, <1>10, <1>11
  <2>2. Holder(s, i) = q
    BY <2>1, <1>9, <1>16, HolderIs
  <2>. QED
    BY <2>1, <2>2, <1>10, <1>11 DEF Of
<1>21. \A j \in ToSet(a) : j \in Ids /\ Of(Now, j) = a
  <2>1. Of(Now, i) = a
    BY <1>2 DEF Of, p, a
  <2>. QED
    BY <2>1, Together
<1>22. \A j \in e.ids \cup {e.moved} : Of(Now, j) # Of(s, j)
  <2>1. a # left /\ a # <<i>>
    <3>1. Len(<<i>>) = 1
      OBVIOUS
    <3>. QED
      BY <3>1, <1>6, <1>7, <1>8
  <2>. QED
    BY <2>1, <1>2, <1>17, <1>18, <1>19, <1>20, <1>21
<1>23. ASSUME NEW j \in Ids, j \notin e.ids \cup {e.moved} PROVE Same(Now, s, j)
  <2>1. j \notin ToSet(a)
    BY <1>17, <1>18, <1>23
  <2>2. Holder(Now, j) \in Ids /\ Holder(Now, j) \notin {p, q} /\ j \in ToSet(Now.ids[Holder(Now, j)])
        /\ Of(Now, j) # <<>>
    BY <2>1, <1>2, <1>9, HolderIs DEF Of
  <2>3. s.ids[Holder(Now, j)] = Now.ids[Holder(Now, j)]
    BY <2>2, <1>10, <1>11
  <2>4. Holder(s, j) = Holder(Now, j)
    BY <2>2, <2>3, <1>16, HolderIs
  <2>. QED
    BY <2>3, <2>4 DEF Same, Of
<1>24. Relinked(Now, s, e)
  <2>1. e.who \in e.ids /\ e.moved \notin e.ids
    BY <1>17, <1>18
  <2>2. \A j \in e.ids : ToSet(Of(s, j)) = e.ids
    BY <1>18, <1>19
  <2>. QED
    BY <2>1, <2>2, <1>11, <1>18, <1>20, <1>22, <1>23 DEF Relinked
<1>. QED
  BY <1>w, <1>16, <1>18, <1>24 DEF Wrote, Events

-----------------------------------------------------------------------------
(* The log and the rows at each of its positions                           *)

\* What changed between two positions is what the event of the second says.
Log ==
    /\ past \in Seq(RowState) /\ log \in Seq(Events)
    /\ Len(past) = Len(log) + 1
    /\ swept \in 0 .. End
    /\ \A n \in 0 .. End : SoundRows(At(n))
    /\ \A n \in 1 .. End : Wrote(At(n - 1), At(n), log[n])

\* An id whose person has had the same ids from a position on.
Since(n, i) == \A t \in n .. End : Of(At(t), i) = Of(Now, i)

\* Somebody's versions only grow.
Grow == \A n \in 0 .. End : \A t \in n .. End : \A p \in Ids :
            At(n).version[p] <= At(t).version[p]

\* A name is not given to somebody else while the ids are the same.
Stay == \A i \in Ids : \A n \in 0 .. End :
            Since(n, i) => \A t \in n .. End : Holder(At(t), i) = Holder(Now, i)

Content == Log /\ Grow /\ Stay

\* A step of the server, or none.
Appends(s, e) ==
    /\ past' = Append(past, s) /\ log' = Append(log, e) /\ swept' = swept
    /\ SoundRows(s) /\ e \in Events /\ Wrote(Now, s, e)

LEMMA WritesAppend ==
    ASSUME Log, Writes
    PROVE  \E s, e : Appends(s, e)
<1>1. End \in Nat /\ SoundRows(Now)
  BY DEF Log, End, Now
<1>2. \A kind, s, e : Write(kind, s, e) =>
         past' = Append(past, s) /\ log' = Append(log, e) /\ swept' = swept
  BY DEF Write
<1>3. ASSUME NEW i \in Ids, NEW l \in Lists, Moderate(l, i) PROVE \E s, e : Appends(s, e)
  BY <1>1, <1>2, <1>3, ModerateWrites DEF Appends
<1>4. CASE (\E i \in Ids : ChangeMember(i)) \/ ChangeGroup \/ DeleteGroup
  BY <1>1, <1>2, <1>4, OthersWrite DEF Appends
<1>5. ASSUME NEW i \in Ids, Unlink(i) PROVE \E s, e : Appends(s, e)
  BY <1>1, <1>2, <1>5, UnlinkWrites DEF Appends
<1>6. ASSUME NEW p \in Ids, NEW q \in Ids, Link(p, q) PROVE \E s, e : Appends(s, e)
  BY <1>1, <1>2, <1>6, LinkWrites DEF Appends
<1>. QED
  BY <1>3, <1>4, <1>5, <1>6 DEF Writes, People

\* What was so at a position stays so.
LEMMA Appended ==
    ASSUME Log, NEW s, NEW e, Appends(s, e)
    PROVE  /\ End \in Nat /\ End' = End + 1 /\ Now' = s
           /\ \A n \in 0 .. End : At(n)' = At(n)
           /\ \A n : n = End + 1 => At(n)' = s
           /\ \A n \in 1 .. End : log'[n] = log[n]
           /\ log'[End + 1] = e
           /\ past' \in Seq(RowState) /\ log' \in Seq(Events) /\ Len(past') = Len(log') + 1
<1>1. s \in RowState /\ past \in Seq(RowState) /\ log \in Seq(Events) /\ e \in Events
      /\ Len(past) = Len(log) + 1 /\ Len(log) \in Nat
  BY DEF Appends, Log, SoundRows
<1>2. past' = Append(past, s) /\ log' = Append(log, e)
  BY DEF Appends
<1>3. past' \in Seq(RowState) /\ Len(past') = Len(past) + 1 /\ past'[Len(past) + 1] = s
      /\ \A n \in 1 .. Len(past) : past'[n] = past[n]
  BY <1>1, <1>2, AppendProperties
<1>4. log' \in Seq(Events) /\ Len(log') = Len(log) + 1 /\ log'[Len(log) + 1] = e
      /\ \A n \in 1 .. Len(log) : log'[n] = log[n]
  BY <1>1, <1>2, AppendProperties
<1>5. \A n \in 0 .. End : At(n)' = At(n)
  BY <1>1, <1>3 DEF At, End
<1>6. End' = End + 1 /\ \A n : n = End + 1 => At(n)' = s
  BY <1>1, <1>3, <1>4 DEF At, End
<1>7. Now' = s
  BY <1>1, <1>3, <1>4 DEF Now, At, End
<1>. QED
  BY <1>1, <1>3, <1>4, <1>5, <1>6, <1>7 DEF End

LEMMA SinceBefore ==
    ASSUME Log, NEW s, NEW e, Appends(s, e), NEW n \in 0 .. End, NEW i \in Ids, Since(n, i)'
    PROVE  Since(n, i) /\ Of(s, i) = Of(Now, i)
<1>1. \A t \in n .. End + 1 : Of(At(t)', i) = Of(s, i)
  BY Appended DEF Since, Of, Holder, People
<1>2. \A t \in n .. End : Of(At(t), i) = Of(s, i)
  BY <1>1, Appended
<1>3. Of(Now, i) = Of(s, i)
  BY <1>2, Appended DEF Now
<1>. QED
  BY <1>2, <1>3 DEF Since

\* Somebody with the same ids as before is who they were.
LEMMA SameStays ==
    ASSUME NEW s, NEW t, NEW e, SoundRows(s), SoundRows(t), Wrote(s, t, e),
           NEW i \in Ids, Of(t, i) = Of(s, i)
    PROVE  Holder(t, i) = Holder(s, i)
<1>1. CASE t.ids = s.ids
  BY <1>1 DEF Holder
<1>2. CASE Relinked(s, t, e)
  BY <1>2 DEF Relinked, Same
<1>. QED
  BY <1>1, <1>2 DEF Wrote, Moderated

LEMMA VersionsGrow ==
    ASSUME NEW s, NEW t, NEW e, SoundRows(s), SoundRows(t), Wrote(s, t, e), NEW p \in Ids
    PROVE  s.version[p] <= t.version[p]
<1>1. s.version[p] \in Nat /\ t.version[p] \in Nat
  BY DEF SoundRows, RowState
<1>2. CASE t.version = s.version
  BY <1>1, <1>2
<1>3. CASE Moderated(s, t, e)
  <2>1. CASE p = Holder(s, e.who)
    <3>1. e.v = t.version[p] /\ e.v > s.version[p]
      BY <1>3, <2>1 DEF Moderated
    <3>. QED
      BY <1>1, <3>1
  <2>2. CASE p # Holder(s, e.who)
    <3>1. t.version[p] = s.version[p]
      BY <1>3, <2>2 DEF Moderated
    <3>. QED
      BY <1>1, <3>1
  <2>. QED
    BY <2>1, <2>2
<1>. QED
  BY <1>2, <1>3 DEF Wrote, Relinked

LEMMA ContentWrites ==
    ASSUME Content, Writes
    PROVE  Content'
<1>1. Log /\ Grow /\ Stay
  BY DEF Content
<1>2. PICK s, e : Appends(s, e)
  BY <1>1, WritesAppend
<1>3. SoundRows(s) /\ Wrote(Now, s, e) /\ SoundRows(Now)
  <2>1. End \in 0 .. End
    BY <1>1, <1>2, Appended
  <2>. QED
    BY <1>1, <1>2, <2>1 DEF Appends, Log, Now
<1>4. Log'
  <2>1. swept' \in 0 .. End'
    BY <1>1, <1>2, Appended DEF Appends, Log
  <2>2. \A n \in 0 .. End' : SoundRows(At(n))'
    <3> SUFFICES ASSUME NEW n \in 0 .. End' PROVE SoundRows(At(n)')
      BY DEF SoundRows, OneEach
    <3>1. n \in 0 .. End \/ n = End + 1
      BY <1>1, <1>2, Appended
    <3>2. CASE n \in 0 .. End
      <4>1. At(n)' = At(n) /\ SoundRows(At(n))
        BY <1>1, <1>2, <3>2, Appended DEF Log
      <4>. QED
        BY <4>1
    <3>3. CASE n = End + 1
      <4>1. At(n)' = s
        BY <1>1, <1>2, <3>3, Appended
      <4>. QED
        BY <4>1, <1>3
    <3>. QED
      BY <3>1, <3>2, <3>3
  <2>3. \A n \in 1 .. End' : Wrote(At(n - 1)', At(n)', log'[n])
    <3> SUFFICES ASSUME NEW n \in 1 .. End' PROVE Wrote(At(n - 1)', At(n)', log'[n])
      OBVIOUS
    <3>1. n \in 1 .. End \/ n = End + 1
      BY <1>1, <1>2, Appended
    <3>2. CASE n \in 1 .. End
      <4>1. n \in 0 .. End /\ n - 1 \in 0 .. End
        BY <1>1, <1>2, <3>2, Appended
      <4>2. At(n)' = At(n) /\ At(n - 1)' = At(n - 1) /\ log'[n] = log[n]
        BY <1>1, <1>2, <3>2, <4>1, Appended
      <4>3. Wrote(At(n - 1), At(n), log[n])
        BY <1>1, <3>2 DEF Log
      <4>. QED
        BY <4>2, <4>3
    <3>3. CASE n = End + 1
      <4>1. n - 1 = End /\ End \in 0 .. End
        BY <1>1, <1>2, <3>3, Appended
      <4>2. At(n)' = s /\ At(n - 1)' = Now /\ log'[n] = e
        BY <1>1, <1>2, <3>3, <4>1, Appended DEF Now
      <4>. QED
        BY <4>2, <1>3
    <3>. QED
      BY <3>1, <3>2, <3>3
  <2>. QED
    BY <1>1, <1>2, <2>1, <2>2, <2>3, Appended DEF Log, Wrote, Moderated, Relinked, Same, Of, Holder, SoundRows, OneEach
<1>5. Grow'
  <2> SUFFICES ASSUME NEW n \in 0 .. End', NEW t \in n .. End', NEW p \in Ids
               PROVE  At(n)'.version[p] <= At(t)'.version[p]
    BY DEF Grow
  <2>1. CASE t \in 0 .. End
    <3>1. n \in 0 .. End /\ At(n)' = At(n) /\ At(t)' = At(t)
      BY <1>1, <1>2, <2>1, Appended
    <3>. QED
      BY <1>1, <2>1, <3>1 DEF Grow
  <2>2. CASE t = End + 1 /\ n \in 0 .. End
    <3>1. At(n)' = At(n) /\ At(t)' = s /\ End \in n .. End /\ End \in Nat
      BY <1>1, <1>2, <2>2, Appended
    <3>2. At(n).version[p] <= Now.version[p]
      BY <1>1, <2>2, <3>1 DEF Grow, Now
    <3>3. Now.version[p] <= s.version[p]
      BY <1>3, VersionsGrow
    <3>4. SoundRows(At(n))
      BY <1>1, <2>2 DEF Log
    <3>5. At(n).version[p] \in Nat /\ Now.version[p] \in Nat /\ s.version[p] \in Nat
      BY <1>3, <3>4 DEF SoundRows, RowState
    <3>. QED
      BY <3>1, <3>2, <3>3, <3>5
  <2>3. CASE n = End + 1
    <3>1. t = n /\ At(n)' = s
      BY <1>1, <1>2, <2>3, Appended
    <3>2. s.version[p] \in Nat
      BY <1>3 DEF SoundRows, RowState
    <3>. QED
      BY <3>1, <3>2
  <2>. QED
    BY <1>1, <1>2, <2>1, <2>2, <2>3, Appended
<1>6. Stay'
  <2> SUFFICES ASSUME NEW i \in Ids, NEW n \in 0 .. End', Since(n, i)', NEW t \in n .. End'
               PROVE  Holder(At(t)', i) = Holder(s, i)
    <3>1. Now' = s
      BY <1>1, <1>2, Appended
    <3>. QED
      BY <3>1 DEF Stay, Holder, People
  <2>1. CASE t = End + 1
    BY <1>1, <1>2, <2>1, Appended
  <2>2. CASE t \in 0 .. End
    <3>1. n \in 0 .. End /\ At(t)' = At(t) /\ t \in n .. End
      BY <1>1, <1>2, <2>2, Appended
    <3>2. Since(n, i) /\ Of(s, i) = Of(Now, i)
      BY <1>1, <1>2, <3>1, SinceBefore
    <3>3. Holder(At(t), i) = Holder(Now, i)
      BY <1>1, <3>1, <3>2 DEF Stay
    <3>4. Holder(s, i) = Holder(Now, i)
      BY <1>3, <3>2, SameStays
    <3>. QED
      BY <3>1, <3>3, <3>4
  <2>. QED
    BY <1>1, <1>2, <2>1, <2>2, Appended
<1>. QED
  BY <1>4, <1>5, <1>6 DEF Content

-----------------------------------------------------------------------------
(* The states of the mirror                                                *)

Maps(S) == UNION {[D -> S] : D \in SUBSET Ids}
States ==
    [ready : BOOLEAN, position : Nat, group : Nat,
     marked : [Lists -> SUBSET Ids], known : [Lists -> [Ids -> Nat]],
     members : Maps([loaded : BOOLEAN, row : RowType]),
     people : Maps([ids : SUBSET Ids, key : Ids]), rendered : SUBSET Ids]

\* A person is kept under each of their ids.
Whole(m) ==
    /\ m \in States
    /\ \A i \in DOMAIN m.people : i \in m.people[i].ids /\ m.people[i].ids \subseteq DOMAIN m.people

\* The sets of ids that are kept as one person's.
Sets(m) == {m.people[i].ids : i \in DOMAIN m.people}

\* All but what is known of people.
Alike(m, s) ==
    /\ m.ready = s.ready /\ m.position = s.position /\ m.marked = s.marked /\ m.known = s.known

LEMMA MapsIs ==
    ASSUME NEW S, NEW f
    PROVE  f \in Maps(S) <=> DOMAIN f \subseteq Ids /\ f \in [DOMAIN f -> S]
  BY DEF Maps

IdSets == SUBSET Ids

Person(ids, key) == [ids |-> ids, key |-> key]
Entry(row) == [loaded |-> TRUE, row |-> row]
WithEntry(m, k, row) == [m EXCEPT !.members[k] = Entry(row)]
Entered(members, k, row) == [members EXCEPT ![k] = Entry(row)]

\* No sets of ids that are not kept in m, but for these ids.
Adds(s, m, ids) == Sets(s) \subseteq Sets(m) \cup {ids}
Fewer(s, m) == Sets(s) \subseteq Sets(m)

LEMMA PutIs ==
    ASSUME NEW f, NEW keys, NEW x
    PROVE  /\ DOMAIN Put(f, keys, x) = DOMAIN f \cup keys
           /\ \A k \in keys : Put(f, keys, x)[k] = x
           /\ \A k \in DOMAIN f : k \notin keys => Put(f, keys, x)[k] = f[k]
  BY DEF Put

LEMMA PutMaps ==
    ASSUME NEW S, NEW f \in Maps(S), NEW keys \in SUBSET Ids, NEW x \in S
    PROVE  Put(f, keys, x) \in Maps(S)
<1>1. DOMAIN f \subseteq Ids /\ f \in [DOMAIN f -> S]
  BY MapsIs
<1>2. keys \cup DOMAIN f \in SUBSET Ids
  BY <1>1
<1>3. Put(f, keys, x) \in [keys \cup DOMAIN f -> S]
  BY <1>1 DEF Put
<1>. QED
  BY <1>2, <1>3 DEF Maps

\* A state whose people have some ids put under one person.
LEMMA PutPeople ==
    ASSUME NEW m, Whole(m), NEW ids \in IdSets, NEW key \in Ids, NEW s,
           Alike(s, m), s \in States,
           s.people = Put(m.people, ids, Person(ids, key))
    PROVE  /\ Whole(s)
           /\ DOMAIN s.people = DOMAIN m.people \cup ids
           /\ Adds(s, m, ids)
<1>1. /\ DOMAIN s.people = DOMAIN m.people \cup ids
      /\ \A i \in ids : s.people[i].ids = ids
      /\ \A i \in DOMAIN m.people : i \notin ids => s.people[i] = m.people[i]
  BY DEF Put, Person
<1>2. \A i \in DOMAIN s.people : i \in s.people[i].ids /\ s.people[i].ids \subseteq DOMAIN s.people
  <2> SUFFICES ASSUME NEW i \in DOMAIN s.people
               PROVE  i \in s.people[i].ids /\ s.people[i].ids \subseteq DOMAIN s.people
    OBVIOUS
  <2>1. CASE i \in ids
    BY <2>1, <1>1
  <2>2. CASE i \notin ids
    <3>1. i \in DOMAIN m.people /\ s.people[i] = m.people[i]
      BY <2>2, <1>1
    <3>. QED
      BY <3>1, <1>1 DEF Whole
  <2>. QED
    BY <2>1, <2>2
<1>3. ASSUME NEW i \in DOMAIN s.people PROVE s.people[i].ids \in Sets(m) \cup {ids}
  <2>1. CASE i \in ids
    BY <2>1, <1>1
  <2>2. CASE i \notin ids
    <3>1. i \in DOMAIN m.people /\ s.people[i] = m.people[i]
      BY <2>2, <1>1
    <3>. QED
      BY <3>1 DEF Sets
  <2>. QED
    BY <2>1, <2>2
<1>. QED
  BY <1>1, <1>2, <1>3 DEF Whole, Sets, Adds

LEMMA WithPersonIs ==
    ASSUME NEW m, Whole(m), NEW ids \in IdSets, NEW key \in Ids
    PROVE  /\ Whole(WithPerson(m, ids, key))
           /\ Alike(WithPerson(m, ids, key), m)
           /\ WithPerson(m, ids, key).members = m.members
           /\ WithPerson(m, ids, key).group = m.group
           /\ WithPerson(m, ids, key).rendered = m.rendered \cup {key}
           /\ DOMAIN WithPerson(m, ids, key).people = DOMAIN m.people \cup ids
           /\ Adds(WithPerson(m, ids, key), m, ids)
<1> DEFINE f == Put(m.people, ids, Person(ids, key))
           s == WithPerson(m, ids, key)
<1>1. m \in States /\ m.people \in Maps([ids : SUBSET Ids, key : Ids])
  BY DEF Whole, States
<1>2. f \in Maps([ids : SUBSET Ids, key : Ids])
  <2>1. Person(ids, key) \in [ids : SUBSET Ids, key : Ids] /\ ids \in SUBSET Ids
    BY DEF IdSets, Person
  <2>. QED
    BY <1>1, <2>1, PutMaps
<1>3. s = [m EXCEPT !.people = f, !.rendered = m.rendered \cup {key}]
  BY DEF WithPerson, Person
<1> HIDE DEF f, s
<1>4. s \in States /\ s.people = f /\ s.rendered = m.rendered \cup {key} /\ Alike(s, m)
      /\ s.members = m.members /\ s.group = m.group
  BY <1>1, <1>2, <1>3 DEF States, Alike
<1>5. s.people = Put(m.people, ids, Person(ids, key))
  BY <1>4 DEF f
<1>6. /\ Whole(s)
      /\ DOMAIN s.people = DOMAIN m.people \cup ids
      /\ Adds(s, m, ids)
  BY <1>4, <1>5, PutPeople, Zenon
<1>. QED
  BY <1>4, <1>6, Zenon DEF s

LEMMA WithRenderedIs ==
    ASSUME NEW m, Whole(m), NEW i \in Ids
    PROVE  /\ Whole(WithRendered(m, i))
           /\ Alike(WithRendered(m, i), m)
           /\ WithRendered(m, i).members = m.members
           /\ WithRendered(m, i).group = m.group
           /\ WithRendered(m, i).rendered = m.rendered \cup {i}
           /\ DOMAIN WithRendered(m, i).people = DOMAIN m.people
           /\ Fewer(WithRendered(m, i), m)
<1>1. CASE i \in DOMAIN m.people
  <2>1. m.people[i].ids \in SUBSET Ids /\ m.people[i].ids \subseteq DOMAIN m.people
        /\ m.people[i].ids \in Sets(m)
    BY <1>1, MapsIs DEF Whole, States, Sets
  <2>2. WithRendered(m, i) = WithPerson(m, m.people[i].ids, i)
    BY <1>1 DEF WithRendered
  <2>3. PICK ids \in IdSets : ids = m.people[i].ids
    BY <2>1 DEF IdSets
  <2>4. PICK s : s = WithPerson(m, ids, i)
    OBVIOUS
  <2>5. /\ Whole(s) /\ Alike(s, m) /\ s.members = m.members /\ s.group = m.group
        /\ s.rendered = m.rendered \cup {i}
        /\ DOMAIN s.people = DOMAIN m.people \cup ids /\ Adds(s, m, ids)
    BY <2>4, WithPersonIs
  <2>6. WithRendered(m, i) = s /\ DOMAIN s.people = DOMAIN m.people /\ Fewer(s, m)
    BY <2>1, <2>2, <2>3, <2>4, <2>5 DEF Adds, Fewer
  <2>. QED
    BY <2>5, <2>6
<1>2. CASE i \notin DOMAIN m.people
  <2> DEFINE s == WithRendered(m, i)
  <2>1. s = [m EXCEPT !.rendered = m.rendered \cup {i}]
    BY <1>2 DEF WithRendered
  <2>2. m \in States
    BY DEF Whole
  <2> HIDE DEF s
  <2>3. s \in States /\ s.people = m.people /\ s.rendered = m.rendered \cup {i} /\ Alike(s, m)
        /\ s.members = m.members /\ s.group = m.group
    BY <2>1, <2>2 DEF States, Alike
  <2>. QED
    BY <2>3 DEF Whole, Sets, s, Fewer
<1>. QED
  BY <1>1, <1>2

LEMMA IdsWithIs ==
    ASSUME NEW m, Whole(m), NEW i \in Ids
    PROVE  /\ IdsWith(m, i) \in SUBSET Ids /\ i \in IdsWith(m, i)
           /\ i \in DOMAIN m.people => IdsWith(m, i) = m.people[i].ids /\ IdsWith(m, i) \in Sets(m)
           /\ i \notin DOMAIN m.people => IdsWith(m, i) = {i}
  BY MapsIs DEF Whole, States, IdsWith, Sets

LEMMA EmptyWhole == Whole(Empty) /\ Sets(Empty) = {} /\ Empty.people = Nothing
<1>1. Empty.people = Nothing /\ DOMAIN Nothing = {}
  BY DEF Empty, Nothing
<1>2. Nothing \in Maps([loaded : BOOLEAN, row : RowType]) /\ Nothing \in Maps([ids : SUBSET Ids, key : Ids])
  BY MapsIs DEF Nothing
<1>3. Empty \in States
  BY <1>2 DEF Empty, States
<1>. QED
  BY <1>1, <1>3 DEF Whole, Sets

-----------------------------------------------------------------------------
(* Ids whose person stayed the same                                        *)

\* The ids of an id's person, and the one that the server shows.
HeldBy(s, i) == ToSet(Of(s, i))
First(s, i) == Head(Of(s, i))

LEMMA FirstIs ==
    ASSUME NEW s, SoundRows(s), NEW i \in Ids
    PROVE  /\ First(s, i) \in Ids /\ First(s, i) \in HeldBy(s, i)
           /\ First(s, i) = Shown(s, Holder(s, i))
           /\ Holder(s, First(s, i)) = Holder(s, i)
           /\ First(s, First(s, i)) = First(s, i)
<1>1. Holder(s, i) \in Ids /\ s.ids[Holder(s, i)] # <<>>
  BY HolderIs DEF Of
<1>2. First(s, i) = Shown(s, Holder(s, i))
  BY DEF First, Shown, Of
<1>3. /\ Shown(s, Holder(s, i)) \in Ids
      /\ Shown(s, Holder(s, i)) \in ToSet(s.ids[Holder(s, i)])
      /\ Holder(s, Shown(s, Holder(s, i))) = Holder(s, i)
  BY <1>1, ShownIs
<1>4. First(s, First(s, i)) = First(s, i)
  BY <1>2, <1>3 DEF First, Of
<1>. QED
  BY <1>2, <1>3, <1>4 DEF HeldBy, Of

\* The one whom a person's shown id names is that person.
LEMMA ShownFirst ==
    ASSUME NEW s, SoundRows(s), NEW p \in Ids, s.ids[p] # <<>>
    PROVE  /\ Shown(s, p) \in Ids /\ Holder(s, Shown(s, p)) = p
           /\ First(s, Shown(s, p)) = Shown(s, p)
<1>1. Shown(s, p) \in Ids /\ Holder(s, Shown(s, p)) = p
  BY ShownIs
<1>. QED
  BY <1>1 DEF First, Of, Shown

LEMMA HeldIs ==
    ASSUME NEW s, SoundRows(s), NEW i \in Ids
    PROVE  /\ i \in HeldBy(s, i) /\ HeldBy(s, i) \subseteq Ids
           /\ \A x \in HeldBy(s, i) : /\ Of(s, x) = Of(s, i) /\ Holder(s, x) = Holder(s, i)
                                      /\ HeldBy(s, x) = HeldBy(s, i) /\ First(s, x) = First(s, i)
<1>1. i \in HeldBy(s, i)
  BY HolderIs DEF HeldBy
<1>2. \A x \in HeldBy(s, i) : x \in Ids /\ Of(s, x) = Of(s, i) /\ Holder(s, x) = Holder(s, i)
  BY Together DEF HeldBy
<1>. QED
  BY <1>1, <1>2 DEF HeldBy, First

LEMMA RowsSound ==
    ASSUME Content
    PROVE  /\ End \in Nat /\ End \in 0 .. End /\ Now = At(End) /\ SoundRows(Now)
           /\ \A n \in 0 .. End : SoundRows(At(n))
<1>1. End \in Nat /\ \A n \in 0 .. End : SoundRows(At(n))
  BY DEF Content, Log, End
<1>2. End \in 0 .. End
  BY <1>1
<1>. QED
  BY <1>1, <1>2 DEF Now

LEMMA SinceIs ==
    ASSUME Content, NEW n \in 0 .. End, NEW j \in Ids, Since(n, j), NEW t \in n .. End
    PROVE  /\ Of(At(t), j) = Of(Now, j) /\ Holder(At(t), j) = Holder(Now, j)
           /\ HeldBy(At(t), j) = HeldBy(Now, j) /\ First(At(t), j) = First(Now, j)
<1>1. Of(At(t), j) = Of(Now, j)
  BY DEF Since
<1>2. Holder(At(t), j) = Holder(Now, j)
  BY DEF Content, Stay
<1>. QED
  BY <1>1, <1>2 DEF HeldBy, First

\* The other ids of the person stayed too.
LEMMA SinceMates ==
    ASSUME Content, NEW n \in 0 .. End, NEW j \in Ids, Since(n, j),
           NEW t \in n .. End, NEW x \in HeldBy(At(t), j)
    PROVE  x \in Ids /\ Since(n, x) /\ x \in HeldBy(Now, j)
<1>1. HeldBy(At(t), j) = HeldBy(Now, j) /\ x \in HeldBy(Now, j) /\ x \in Ids
  BY SinceIs, RowsSound, HeldIs
<1>2. ASSUME NEW u \in n .. End PROVE Of(At(u), x) = Of(Now, x)
  <2>1. Of(At(u), j) = Of(Now, j) /\ x \in HeldBy(At(u), j)
    BY <1>1, SinceIs
  <2>2. u \in 0 .. End /\ SoundRows(At(u)) /\ SoundRows(Now)
    BY RowsSound
  <2>3. Of(At(u), x) = Of(At(u), j) /\ Of(Now, x) = Of(Now, j)
    BY <1>1, <2>1, <2>2, HeldIs
  <2>. QED
    BY <2>1, <2>3
<1>. QED
  BY <1>1, <1>2 DEF Since

LEMMA SinceLater ==
    ASSUME NEW n \in Nat, NEW t \in Nat, n <= t, NEW j, Since(n, j)
    PROVE  Since(t, j)
  BY DEF Since

LEMMA SinceWrites ==
    ASSUME Content, NEW s, NEW e, Appends(s, e), NEW n \in 0 .. End, NEW j \in Ids, Since(n, j)'
    PROVE  /\ Since(n, j) /\ Of(Now', j) = Of(Now, j) /\ Holder(Now', j) = Holder(Now, j)
           /\ HeldBy(Now', j) = HeldBy(Now, j) /\ First(Now', j) = First(Now, j)
<1>1. Now' = s /\ Log
  BY Appended DEF Content
<1>2. Since(n, j) /\ Of(s, j) = Of(Now, j)
  BY <1>1, SinceBefore
<1>3. Holder(s, j) = Holder(Now, j)
  BY <1>2, RowsSound, SameStays DEF Appends
<1>. QED
  BY <1>1, <1>2, <1>3 DEF HeldBy, First

\* What did not change with an event did not change since before it.
LEMMA SinceEvent ==
    ASSUME Content, NEW n \in 1 .. End, NEW j \in Ids, Since(n, j),
           Of(At(n), j) = Of(At(n - 1), j)
    PROVE  Since(n - 1, j)
<1> SUFFICES ASSUME NEW t \in n - 1 .. End PROVE Of(At(t), j) = Of(Now, j)
  BY DEF Since
<1>1. n \in n .. End /\ (t = n - 1 \/ t \in n .. End)
  BY RowsSound
<1>2. Of(At(n), j) = Of(Now, j)
  BY <1>1 DEF Since
<1>. QED
  BY <1>1, <1>2 DEF Since

-----------------------------------------------------------------------------
(* What a state of the mirror says truly, of the positions from one on     *)

\* Ids that are one person's have, among them, the one that the server shows.
Names(m, from) ==
    \A S \in Sets(m) : \A j \in S :
        Since(from, j) /\ S \subseteq HeldBy(Now, j) => First(Now, j) \in S

\* An id seen as rendered, whose person is not known, is the one shown.
Renders(m, from) ==
    \A i \in m.rendered : i \notin DOMAIN m.people /\ Since(from, i) => i = First(Now, i)

\* What is kept as the ids of one person is, but for mixed ones.
Kept(m, from, mix) ==
    \A S \in Sets(m) : \A j \in S :
        Since(from, j) /\ j \notin mix => S \subseteq HeldBy(Now, j)

\* A person is marked under the id shown alone, as they were at some position,
\* and no version is known that is later.
Right(m, from, l, j) ==
    /\ j \in m.marked[l] => j = First(Now, j)
    /\ j = First(Now, j) =>
          \E n \in from .. End : /\ (j \in m.marked[l]) = MarkedAt(At(n), l, j)
                                 /\ m.known[l][j] <= At(n).version[Holder(At(n), j)]

Marks(m, from, free) ==
    \A l \in Lists : \A j \in Ids :
        Since(from, j) /\ <<l, j>> \notin free => Right(m, from, l, j)

Truth(m, from, mix, free) ==
    Names(m, from) /\ Renders(m, from) /\ Kept(m, from, mix) /\ Marks(m, from, free)

LEMMA WholeIds ==
    ASSUME NEW m, Whole(m)
    PROVE  /\ \A S \in Sets(m) : S \subseteq Ids
           /\ m.rendered \subseteq Ids
           /\ \A l \in Lists : m.marked[l] \subseteq Ids /\ m.known[l] \in [Ids -> Nat]
<1>1. m \in States /\ m.people \in [DOMAIN m.people -> [ids : SUBSET Ids, key : Ids]]
  BY MapsIs DEF Whole, States
<1>. QED
  BY <1>1 DEF Sets, States

LEMMA RightWrites ==
    ASSUME Content, NEW s, NEW e, Appends(s, e), NEW from \in 0 .. End, NEW m,
           NEW l, NEW j \in Ids, Since(from, j)', Right(m, from, l, j)
    PROVE  Right(m, from, l, j)'
<1>1. First(Now', j) = First(Now, j)
  BY SinceWrites
<1>2. End \in Nat /\ End' = End + 1 /\ \A n \in 0 .. End : At(n)' = At(n)
  BY Appended DEF Content
<1>3. CASE j # First(Now, j)
  BY <1>1, <1>3 DEF Right
<1>4. CASE j = First(Now, j)
  <2>1. PICK n \in from .. End : /\ (j \in m.marked[l]) = MarkedAt(At(n), l, j)
                                 /\ m.known[l][j] <= At(n).version[Holder(At(n), j)]
    BY <1>4 DEF Right
  <2>2. n \in from .. End' /\ At(n)' = At(n)
    BY <1>2
  <2>. QED
    BY <1>1, <1>4, <2>1, <2>2 DEF Right
<1>. QED
  BY <1>3, <1>4

\* Of the people and the rendered alone.
LEMMA NamesWrites ==
    ASSUME Content, NEW s, NEW e, Appends(s, e), NEW from \in 0 .. End, NEW m, Whole(m),
           Names(m, from), Renders(m, from)
    PROVE  Names(m, from)' /\ Renders(m, from)'
<1>0. /\ \A S \in Sets(m) : S \subseteq Ids
      /\ m.rendered \subseteq Ids
  BY WholeIds
<1>1. Names(m, from)'
  <2> SUFFICES ASSUME NEW S \in Sets(m), NEW j \in S, Since(from, j)', S \subseteq HeldBy(Now', j)
               PROVE  First(Now', j) \in S
    BY DEF Names
  <2>1. Since(from, j) /\ S \subseteq HeldBy(Now, j) /\ First(Now', j) = First(Now, j)
    BY <1>0, SinceWrites
  <2>. QED
    BY <2>1 DEF Names
<1>2. Renders(m, from)'
  <2> SUFFICES ASSUME NEW i \in m.rendered, i \notin DOMAIN m.people, Since(from, i)'
               PROVE  i = First(Now', i)
    BY DEF Renders
  <2>1. Since(from, i) /\ First(Now', i) = First(Now, i)
    BY <1>0, SinceWrites
  <2>. QED
    BY <2>1 DEF Renders
<1>. QED
  BY <1>1, <1>2

LEMMA TruthWrites ==
    ASSUME Content, NEW s, NEW e, Appends(s, e), NEW from \in 0 .. End, NEW m, Whole(m),
           NEW mix, NEW free, Truth(m, from, mix, free)
    PROVE  Truth(m, from, mix, free)'
<1>0. \A S \in Sets(m) : S \subseteq Ids
  BY WholeIds
<1>1. Names(m, from)' /\ Renders(m, from)'
  BY NamesWrites DEF Truth
<1>3. Kept(m, from, mix)'
  <2> SUFFICES ASSUME NEW S \in Sets(m), NEW j \in S, Since(from, j)', j \notin mix
               PROVE  S \subseteq HeldBy(Now', j)
    BY DEF Kept
  <2>1. Since(from, j) /\ HeldBy(Now', j) = HeldBy(Now, j)
    BY <1>0, SinceWrites
  <2>. QED
    BY <2>1 DEF Truth, Kept
<1>4. Marks(m, from, free)'
  <2> SUFFICES ASSUME NEW l \in Lists, NEW j \in Ids, Since(from, j)', <<l, j>> \notin free
               PROVE  Right(m, from, l, j)'
    BY DEF Marks
  <2>1. Since(from, j)
    BY SinceWrites
  <2>2. Right(m, from, l, j)
    BY <2>1 DEF Truth, Marks
  <2>. QED
    BY <2>2, RightWrites
<1>. QED
  BY <1>1, <1>3, <1>4 DEF Truth

\* What is so of the positions from one on, is so from an earlier one on.
LEMMA TruthEarlier ==
    ASSUME Content, NEW from \in 0 .. End, NEW before \in 0 .. End, before <= from,
           NEW m, NEW mix, NEW free, Truth(m, from, mix, free)
    PROVE  Truth(m, before, mix, free)
<1>1. \A j : Since(before, j) => Since(from, j)
  BY SinceLater
<1>2. Names(m, before) /\ Renders(m, before) /\ Kept(m, before, mix)
  BY <1>1 DEF Truth, Names, Renders, Kept
<1>3. Marks(m, before, free)
  <2> SUFFICES ASSUME NEW l \in Lists, NEW j \in Ids, Since(before, j), <<l, j>> \notin free
               PROVE  Right(m, before, l, j)
    BY DEF Marks
  <2>1. Right(m, from, l, j)
    BY <1>1 DEF Truth, Marks
  <2>2. \A n \in from .. End : n \in before .. End
    BY RowsSound
  <2>. QED
    BY <2>1, <2>2 DEF Right
<1>. QED
  BY <1>2, <1>3 DEF Truth

\* The parts of a state that a part of the truth is about.
LEMMA TruthParts ==
    ASSUME NEW m, NEW w, NEW from, NEW mix, NEW free
    PROVE  /\ Sets(w) \subseteq Sets(m) /\ Names(m, from) => Names(w, from)
           /\ /\ w.rendered = m.rendered /\ DOMAIN m.people \subseteq DOMAIN w.people
              /\ Renders(m, from)
              => Renders(w, from)
           /\ w.marked = m.marked /\ w.known = m.known /\ Marks(m, from, free) =>
                 Marks(w, from, free)
<1>1. ASSUME Sets(w) \subseteq Sets(m), Names(m, from) PROVE Names(w, from)
  BY <1>1 DEF Names
<1>2. ASSUME w.rendered = m.rendered, DOMAIN m.people \subseteq DOMAIN w.people, Renders(m, from)
      PROVE  Renders(w, from)
  BY <1>2 DEF Renders
<1>3. ASSUME w.marked = m.marked, w.known = m.known, Marks(m, from, free)
      PROVE  Marks(w, from, free)
  BY <1>3 DEF Marks, Right
<1>. QED
  BY <1>1, <1>2, <1>3

LEMMA MarksFree ==
    ASSUME NEW m, NEW from, NEW free, NEW more, free \subseteq more, Marks(m, from, free)
    PROVE  Marks(m, from, more)
  BY DEF Marks

-----------------------------------------------------------------------------
(* Events: what was true of the positions before one, and what is after it *)

LEMMA EventIs ==
    ASSUME Content, NEW n \in 1 .. End
    PROVE  /\ n - 1 \in 0 .. End /\ n \in 0 .. End /\ n - 1 + 1 = n
           /\ SoundRows(At(n - 1)) /\ SoundRows(At(n)) /\ SoundRows(Now)
           /\ Wrote(At(n - 1), At(n), log[n]) /\ log[n] \in Events
<1>1. n - 1 \in 0 .. End /\ n \in 0 .. End /\ n - 1 + 1 = n
  BY RowsSound
<1>2. log \in Seq(Events) /\ End = Len(log)
  BY DEF Content, Log, End
<1>. QED
  BY <1>1, <1>2, RowsSound DEF Content, Log

LEMMA RightEvent ==
    ASSUME Content, NEW n \in 1 .. End, NEW m, NEW l \in Lists, NEW j \in Ids, Since(n - 1, j),
           MarkedAt(At(n), l, j) = MarkedAt(At(n - 1), l, j), Whole(m),
           Right(m, n - 1, l, j)
    PROVE  Right(m, n, l, j)
<1> SUFFICES ASSUME j = First(Now, j)
             PROVE  \E t \in n .. End : /\ (j \in m.marked[l]) = MarkedAt(At(t), l, j)
                                        /\ m.known[l][j] <= At(t).version[Holder(At(t), j)]
  BY DEF Right
<1>1. PICK t \in n - 1 .. End : /\ (j \in m.marked[l]) = MarkedAt(At(t), l, j)
                                /\ m.known[l][j] <= At(t).version[Holder(At(t), j)]
  BY DEF Right
<1>2. CASE t \in n .. End
  BY <1>1, <1>2
<1>3. CASE t = n - 1
  <2>1. n \in n .. End /\ n \in n - 1 .. End /\ n - 1 \in n - 1 .. End /\ n - 1 \in 0 .. End
    BY RowsSound
  <2>2. Holder(At(n), j) = Holder(At(n - 1), j) /\ Holder(At(n), j) \in Ids
    BY <2>1, EventIs, SinceIs, HolderIs
  <2>3. At(n - 1).version[Holder(At(n), j)] <= At(n).version[Holder(At(n), j)]
    BY <2>1, <2>2 DEF Content, Grow
  <2>4. At(n - 1).version[Holder(At(n), j)] \in Nat /\ At(n).version[Holder(At(n), j)] \in Nat
    BY <2>2, EventIs DEF SoundRows, RowState
  <2>5. m.known[l][j] \in Nat
    BY WholeIds
  <2>6. m.known[l][j] <= At(n).version[Holder(At(n), j)]
    BY <1>1, <1>3, <2>2, <2>3, <2>4, <2>5
  <2>. QED
    BY <1>1, <1>3, <2>1, <2>6
<1>4. t = n - 1 \/ t \in n .. End
  BY RowsSound
<1>. QED
  BY <1>2, <1>3, <1>4

\* An event that leaves the ids of people alone.
LEMMA NamesEvent ==
    ASSUME Content, NEW n \in 1 .. End, At(n).ids = At(n - 1).ids, NEW m, Whole(m),
           NEW mix, NEW free, Truth(m, n - 1, mix, free)
    PROVE  /\ Names(m, n) /\ Renders(m, n) /\ Kept(m, n, mix)
           /\ \A j \in Ids : Since(n, j) => Since(n - 1, j)
<1>1. \A j \in Ids : Since(n, j) => Since(n - 1, j)
  <2> SUFFICES ASSUME NEW j \in Ids, Since(n, j) PROVE Since(n - 1, j)
    OBVIOUS
  <2>1. Of(At(n), j) = Of(At(n - 1), j)
    BY DEF Of, Holder
  <2>. QED
    BY <2>1, SinceEvent
<1>2. (\A S \in Sets(m) : S \subseteq Ids) /\ m.rendered \subseteq Ids
  BY WholeIds
<1>3. Names(m, n)
  BY <1>1, <1>2 DEF Truth, Names
<1>4. Renders(m, n)
  BY <1>1, <1>2 DEF Truth, Renders
<1>5. Kept(m, n, mix)
  BY <1>1, <1>2 DEF Truth, Kept
<1>. QED
  BY <1>1, <1>3, <1>4, <1>5

LEMMA TruthPlain ==
    ASSUME Content, NEW n \in 1 .. End, log[n].k \in {"group", "deleted", "member"},
           NEW m, Whole(m), NEW mix, NEW free, Truth(m, n - 1, mix, free)
    PROVE  Truth(m, n, mix, free)
<1>1. At(n).ids = At(n - 1).ids /\ At(n).marked = At(n - 1).marked
  BY EventIs DEF Wrote, Moderated, Relinked
<1>2. /\ Names(m, n) /\ Renders(m, n) /\ Kept(m, n, mix)
      /\ \A j \in Ids : Since(n, j) => Since(n - 1, j)
  BY <1>1, NamesEvent
<1>3. Marks(m, n, free)
  <2> SUFFICES ASSUME NEW l \in Lists, NEW j \in Ids, Since(n, j), <<l, j>> \notin free
               PROVE  Right(m, n, l, j)
    BY DEF Marks
  <2>1. Since(n - 1, j)
    BY <1>2
  <2>2. Right(m, n - 1, l, j)
    BY <2>1 DEF Truth, Marks
  <2>3. MarkedAt(At(n), l, j) = MarkedAt(At(n - 1), l, j)
    BY <1>1 DEF MarkedAt, Holder
  <2>. QED
    BY <2>1, <2>2, <2>3, RightEvent
<1>. QED
  BY <1>2, <1>3 DEF Truth

\* A moderation names its person as the server did at some position since.
LEMMA ModeratedNames ==
    ASSUME Content, NEW n \in 1 .. End, log[n].k = "moderated", NEW d \in n .. End,
           NEW who, who = First(At(d), log[n].who)
    PROVE  /\ Moderated(At(n - 1), At(n), log[n]) /\ log[n].who \in Ids /\ who \in Ids
           /\ Since(n, who) => /\ who = First(Now, who)
                               /\ Holder(At(n), who) = Holder(At(n), log[n].who)
           /\ \A j \in Ids : Since(n, j) /\ Holder(At(n), j) = Holder(At(n), log[n].who)
                 => who = First(Now, j)
<1>1. Moderated(At(n - 1), At(n), log[n])
  BY EventIs DEF Wrote, Relinked
<1>2. log[n].who \in Ids
  BY <1>1 DEF Moderated
<1>3. d \in 0 .. End /\ n \in 0 .. End /\ n \in n .. End /\ SoundRows(At(d)) /\ SoundRows(At(n))
      /\ SoundRows(Now)
  BY RowsSound
<1>4. who \in Ids /\ who \in HeldBy(At(d), log[n].who) /\ First(At(d), who) = who
  BY <1>2, <1>3, FirstIs
<1>5. ASSUME Since(n, who)
      PROVE  who = First(Now, who) /\ Holder(At(n), who) = Holder(At(n), log[n].who)
  <2>1. First(At(d), who) = First(Now, who)
    BY <1>3, <1>4, <1>5, SinceIs
  <2>2. log[n].who \in HeldBy(At(d), who)
    BY <1>2, <1>3, <1>4, HeldIs
  <2>3. HeldBy(At(n), who) = HeldBy(At(d), who)
    BY <1>3, <1>4, <1>5, SinceIs
  <2>4. Holder(At(n), log[n].who) = Holder(At(n), who)
    BY <1>3, <1>4, <2>2, <2>3, HeldIs
  <2>. QED
    BY <1>4, <2>1, <2>4
<1>6. ASSUME NEW j \in Ids, Since(n, j), Holder(At(n), j) = Holder(At(n), log[n].who)
      PROVE  who = First(Now, j)
  <2>1. Of(At(n), j) = Of(At(n), log[n].who)
    BY <1>6 DEF Of
  <2>2. log[n].who \in HeldBy(At(n), j)
    BY <1>2, <1>3, <2>1, HeldIs DEF HeldBy
  <2>3. log[n].who \in HeldBy(At(d), j) /\ First(At(d), j) = First(Now, j)
    BY <1>3, <1>6, <2>2, SinceIs
  <2>4. First(At(d), log[n].who) = First(At(d), j)
    BY <1>3, <2>3, HeldIs
  <2>. QED
    BY <2>3, <2>4
<1>. QED
  BY <1>1, <1>2, <1>4, <1>5, <1>6

\* Whoever else it is, or in another list, is as before it.
LEMMA ModeratedOthers ==
    ASSUME Content, NEW n \in 1 .. End, log[n].k = "moderated",
           Moderated(At(n - 1), At(n), log[n]), NEW l \in Lists, NEW j \in Ids, Since(n - 1, j),
           l # log[n].list \/ Holder(At(n), j) # Holder(At(n), log[n].who)
    PROVE  MarkedAt(At(n), l, j) = MarkedAt(At(n - 1), l, j)
<1>1. n \in n - 1 .. End /\ n - 1 \in 0 .. End /\ n - 1 \in n - 1 .. End
  BY RowsSound
<1>2. Holder(At(n), j) = Holder(At(n - 1), j) /\ Holder(At(n), j) \in Ids
  BY <1>1, SinceIs, EventIs, HolderIs
<1>3. Holder(At(n), log[n].who) = Holder(At(n - 1), log[n].who)
  BY DEF Moderated, Holder
<1>. QED
  BY <1>2, <1>3 DEF Moderated, MarkedAt

\* It is not new: a version as late is known.
LEMMA TruthModeratedOld ==
    ASSUME Content, NEW n \in 1 .. End, log[n].k = "moderated", NEW d \in n .. End,
           NEW who, who = First(At(d), log[n].who),
           NEW m, Whole(m), NEW mix, NEW free, Truth(m, n - 1, mix, free),
           m.known[log[n].list][who] >= log[n].v
    PROVE  Truth(m, n, mix, free)
<1>1. /\ Moderated(At(n - 1), At(n), log[n]) /\ log[n].who \in Ids /\ who \in Ids
      /\ \A j \in Ids : Since(n, j) /\ Holder(At(n), j) = Holder(At(n), log[n].who)
             => who = First(Now, j)
  BY ModeratedNames
<1>2. /\ Names(m, n) /\ Renders(m, n) /\ Kept(m, n, mix)
      /\ \A j \in Ids : Since(n, j) => Since(n - 1, j)
  BY <1>1, NamesEvent DEF Moderated
<1>3. ASSUME NEW l \in Lists, NEW j \in Ids, Since(n, j), <<l, j>> \notin free
      PROVE  Right(m, n, l, j)
  <2>1. Since(n - 1, j) /\ Right(m, n - 1, l, j)
    BY <1>2, <1>3 DEF Truth, Marks
  <2>2. CASE l # log[n].list \/ Holder(At(n), j) # Holder(At(n), log[n].who)
    BY <1>1, <2>1, <2>2, ModeratedOthers, RightEvent
  <2>3. CASE l = log[n].list /\ Holder(At(n), j) = Holder(At(n), log[n].who)
    <3>1. who = First(Now, j)
      BY <1>1, <1>3, <2>3
    <3>2. CASE j # First(Now, j)
      BY <2>1, <3>2 DEF Right
    <3>3. CASE j = First(Now, j)
      <4>1. PICK t \in n - 1 .. End : /\ (j \in m.marked[l]) = MarkedAt(At(t), l, j)
                                      /\ m.known[l][j] <= At(t).version[Holder(At(t), j)]
        BY <2>1, <3>3 DEF Right
      <4>2. t \in n .. End
        <5>1. CASE t = n - 1
          <6>1. n - 1 \in n - 1 .. End /\ n \in n - 1 .. End /\ n - 1 \in 0 .. End
            BY RowsSound
          <6>2. Holder(At(n - 1), j) = Holder(At(n - 1), log[n].who)
            <7>1. Holder(At(n), log[n].who) = Holder(At(n - 1), log[n].who)
              BY <1>1 DEF Moderated, Holder
            <7>. QED
              BY <2>1, <2>3, <6>1, <7>1, SinceIs
          <6>3. log[n].v > At(n - 1).version[Holder(At(n - 1), j)]
            BY <1>1, <6>2 DEF Moderated
          <6>4. m.known[l][j] >= log[n].v
            BY <2>3, <3>1, <3>3
          <6>5. /\ m.known[l][j] \in Nat /\ log[n].v \in Nat
                /\ At(n - 1).version[Holder(At(n - 1), j)] \in Nat
            <7>1. m.known[l][j] \in Nat /\ log[n].v \in Nat
              BY <1>1, WholeIds DEF Moderated
            <7>2. Holder(At(n - 1), j) \in Ids /\ At(n - 1).version \in [Ids -> Nat]
              BY EventIs, HolderIs DEF SoundRows, RowState
            <7>. QED
              BY <7>1, <7>2
          <6>. QED
            BY <4>1, <5>1, <6>3, <6>4, <6>5
        <5>2. t = n - 1 \/ t \in n .. End
          BY RowsSound
        <5>. QED
          BY <5>1, <5>2
      <4>. QED
        BY <2>1, <4>1, <4>2 DEF Right
    <3>. QED
      BY <3>2, <3>3
  <2>. QED
    BY <2>2, <2>3
<1>. QED
  BY <1>2, <1>3 DEF Truth, Marks

\* It is new, and written under the id it names.
LEMMA TruthModerated ==
    ASSUME Content, NEW n \in 1 .. End, log[n].k = "moderated", NEW d \in n .. End,
           NEW who, who = First(At(d), log[n].who),
           NEW m, Whole(m), NEW mix, NEW free, Truth(m, n - 1, mix, free),
           NEW w, Fewer(w, m), DOMAIN w.people = DOMAIN m.people,
           w.rendered = m.rendered \cup {who},
           \A l \in Lists : \A j \in Ids : l # log[n].list \/ j # who =>
               (j \in w.marked[l]) = (j \in m.marked[l]) /\ w.known[l][j] = m.known[l][j],
           (who \in w.marked[log[n].list]) = log[n].on, w.known[log[n].list][who] = log[n].v
    PROVE  Truth(w, n, mix, free \ {<<log[n].list, who>>})
<1>1. /\ Moderated(At(n - 1), At(n), log[n]) /\ log[n].who \in Ids /\ who \in Ids
      /\ Since(n, who) => /\ who = First(Now, who)
                          /\ Holder(At(n), who) = Holder(At(n), log[n].who)
      /\ \A j \in Ids : Since(n, j) /\ Holder(At(n), j) = Holder(At(n), log[n].who)
             => who = First(Now, j)
  BY ModeratedNames
<1>2. /\ Names(m, n) /\ Renders(m, n) /\ Kept(m, n, mix)
      /\ \A j \in Ids : Since(n, j) => Since(n - 1, j)
  BY <1>1, NamesEvent DEF Moderated
<1>3. Names(w, n) /\ Kept(w, n, mix)
  BY <1>2 DEF Names, Kept, Fewer
<1>4. Renders(w, n)
  BY <1>1, <1>2 DEF Renders
<1>5. ASSUME NEW l \in Lists, NEW j \in Ids, Since(n, j),
             <<l, j>> \notin free \ {<<log[n].list, who>>}
      PROVE  Right(w, n, l, j)
  <2>1. CASE l = log[n].list /\ j = who
    <3>1. who = First(Now, who) /\ Holder(At(n), who) = Holder(At(n), log[n].who)
      BY <1>1, <1>5, <2>1
    <3>2. Holder(At(n), log[n].who) = Holder(At(n - 1), log[n].who)
      BY <1>1 DEF Moderated, Holder
    <3>3. MarkedAt(At(n), l, who) = log[n].on /\ At(n).version[Holder(At(n), who)] = log[n].v
      BY <1>1, <2>1, <3>1, <3>2 DEF Moderated, MarkedAt
    <3>4. n \in n .. End /\ log[n].v \in Nat
      BY <1>1, RowsSound DEF Moderated
    <3>. QED
      BY <2>1, <3>1, <3>3, <3>4 DEF Right
  <2>2. CASE l # log[n].list \/ j # who
    <3>1. Since(n - 1, j) /\ Right(m, n - 1, l, j)
      BY <1>2, <1>5, <2>2 DEF Truth, Marks
    <3>2. (j \in w.marked[l]) = (j \in m.marked[l]) /\ w.known[l][j] = m.known[l][j]
      BY <2>2
    <3>3. CASE j # First(Now, j)
      BY <3>1, <3>2, <3>3 DEF Right
    <3>4. CASE j = First(Now, j)
      <4>1. l # log[n].list \/ Holder(At(n), j) # Holder(At(n), log[n].who)
        BY <1>1, <1>5, <2>2, <3>4
      <4>2. Right(m, n, l, j)
        BY <1>1, <3>1, <4>1, ModeratedOthers, RightEvent
      <4>. QED
        BY <3>2, <4>2 DEF Right
    <3>. QED
      BY <3>3, <3>4
  <2>. QED
    BY <2>1, <2>2
<1>. QED
  BY <1>3, <1>4, <1>5 DEF Truth, Marks

\* A link or an unlink, as relink takes it: the id that left, the ids of the
\* person, and all of these.
Gone(e) == IF e.k = "unlinked" THEN {e.moved} ELSE {}
Theirs(e, who) == (e.ids \cup {who, e.moved}) \ Gone(e)
Touched(e, who) == Theirs(e, who) \cup {e.moved}

LEMMA RelinkedNames ==
    ASSUME Content, NEW n \in 1 .. End, log[n].k \in {"linked", "unlinked"},
           NEW d \in n .. End, NEW who, who = First(At(d), log[n].who)
    PROVE  /\ Relinked(At(n - 1), At(n), log[n]) /\ who \in Ids
           /\ Touched(log[n], who) \subseteq Ids
           /\ Since(n, who) => who \in log[n].ids
           /\ \A j \in Touched(log[n], who) : ~Since(n - 1, j)
           /\ \A j \in Ids : j \notin Touched(log[n], who) /\ Since(n, j) => Since(n - 1, j)
<1> DEFINE e == log[n]
<1>1. Relinked(At(n - 1), At(n), e)
  BY EventIs DEF Wrote, Moderated
<1>2. e.who \in Ids /\ e.who \in e.ids /\ e.ids \subseteq Ids /\ e.moved \in Ids
  BY <1>1 DEF Relinked
<1>3. d \in 0 .. End /\ n \in 0 .. End /\ n \in n .. End /\ SoundRows(At(d)) /\ SoundRows(At(n))
      /\ n - 1 \in 0 .. End /\ n \in n - 1 .. End /\ n - 1 \in n - 1 .. End /\ n - 1 <= n
      /\ n - 1 \in Nat /\ n \in Nat
  BY RowsSound
<1>4. who \in Ids /\ who \in HeldBy(At(d), e.who)
  BY <1>2, <1>3, FirstIs
<1>5. Touched(e, who) = e.ids \cup {who, e.moved}
  BY DEF Touched, Theirs, Gone
<1>6. ASSUME Since(n, who) PROVE who \in e.ids
  <2>1. e.who \in HeldBy(At(d), who)
    BY <1>2, <1>3, <1>4, HeldIs
  <2>2. e.who \in HeldBy(At(n), who) /\ who \in HeldBy(At(n), who)
    BY <1>3, <1>4, <1>6, <2>1, SinceIs, HeldIs
  <2>3. HeldBy(At(n), who) = HeldBy(At(n), e.who)
    BY <1>3, <1>4, <2>2, HeldIs
  <2>4. HeldBy(At(n), e.who) = e.ids
    BY <1>1, <1>2 DEF Relinked, HeldBy
  <2>. QED
    BY <2>2, <2>3, <2>4
<1>7. ASSUME NEW j \in e.ids \cup {e.moved}, Since(n - 1, j) PROVE FALSE
  <2>1. Of(At(n), j) = Of(Now, j) /\ Of(At(n - 1), j) = Of(Now, j)
    BY <1>3, <1>7 DEF Since
  <2>. QED
    BY <1>1, <2>1 DEF Relinked
<1>8. ASSUME NEW j \in Touched(e, who) PROVE ~Since(n - 1, j)
  <2>1. CASE j \in e.ids \cup {e.moved}
    BY <1>7, <2>1
  <2>2. CASE j = who /\ who \notin e.ids
    BY <1>3, <1>6, <2>2, SinceLater
  <2>. QED
    BY <1>5, <2>1, <2>2
<1>9. ASSUME NEW j \in Ids, j \notin Touched(e, who), Since(n, j) PROVE Since(n - 1, j)
  <2>1. Of(At(n), j) = Of(At(n - 1), j)
    BY <1>1, <1>5, <1>9 DEF Relinked, Same
  <2>. QED
    BY <1>9, <2>1, SinceEvent
<1>. QED
  BY <1>1, <1>2, <1>4, <1>5, <1>6, <1>8, <1>9

LEMMA TruthRelinked ==
    ASSUME Content, NEW n \in 1 .. End, log[n].k \in {"linked", "unlinked"},
           NEW d \in n .. End, NEW who, who = First(At(d), log[n].who),
           NEW m, Whole(m), NEW mix, NEW free, Truth(m, n - 1, mix, free),
           NEW w, w.marked = m.marked, w.known = m.known,
           w.rendered = m.rendered \cup {who} \cup Gone(log[n]),
           DOMAIN w.people = DOMAIN m.people \cup Touched(log[n], who),
           \A S \in Sets(w) : \/ S = Theirs(log[n], who)
                              \/ S = Gone(log[n])
                              \/ S \in Sets(m) /\ \E k \in S : k \notin Touched(log[n], who)
    PROVE  /\ Names(w, n) /\ Renders(w, n)
           /\ Marks(w, n, free \cup (Lists \X Touched(log[n], who)))
<1> DEFINE e == log[n]
<1>1. /\ Relinked(At(n - 1), At(n), e) /\ who \in Ids
      /\ Touched(e, who) \subseteq Ids
      /\ Since(n, who) => who \in e.ids
      /\ \A j \in Ids : j \notin Touched(e, who) /\ Since(n, j) => Since(n - 1, j)
  BY RelinkedNames
<1>2. /\ e.who \in e.ids /\ e.ids \subseteq Ids /\ e.moved \in Ids
      /\ \A j \in e.ids : HeldBy(At(n), j) = e.ids
      /\ \/ e.k = "linked" /\ e.moved \in e.ids
         \/ e.k = "unlinked" /\ e.moved \notin e.ids /\ HeldBy(At(n), e.moved) = {e.moved}
  BY <1>1 DEF Relinked, HeldBy
<1>3. /\ Touched(e, who) = e.ids \cup {who, e.moved} /\ e.ids \subseteq Theirs(e, who)
      /\ Theirs(e, who) \subseteq Touched(e, who) /\ Gone(e) \subseteq {e.moved}
      /\ Gone(e) # {} => e.moved \notin e.ids /\ HeldBy(At(n), e.moved) = {e.moved}
  BY <1>2 DEF Touched, Theirs, Gone
<1>4. n \in 0 .. End /\ n \in n .. End /\ SoundRows(At(n)) /\ SoundRows(Now)
  BY RowsSound
<1>5. ASSUME NEW S \in Sets(w), NEW j \in S, Since(n, j), S \subseteq HeldBy(Now, j)
      PROVE  First(Now, j) \in S
  <2>0. ASSUME NEW T, T \in {Theirs(e, who), Gone(e)} \/ T \in Sets(m) PROVE T \subseteq Ids
    BY <1>1, <1>3, <2>0, WholeIds
  <2>1. j \in Ids
    BY <2>0
  <2>2. HeldBy(At(n), j) = HeldBy(Now, j) /\ First(Now, j) \in HeldBy(Now, j)
    BY <1>4, <1>5, <2>1, SinceIs, FirstIs
  <2>3. CASE S = Theirs(e, who)
    <3>1. e.who \in HeldBy(At(n), j)
      BY <1>2, <1>3, <1>5, <2>2, <2>3
    <3>2. HeldBy(At(n), j) = e.ids
      BY <1>2, <1>4, <2>1, <3>1, HeldIs
    <3>. QED
      BY <1>3, <2>2, <2>3, <3>2
  <2>4. CASE S = Gone(e)
    BY <1>3, <2>2, <2>4
  <2>5. CASE S \in Sets(m) /\ \E k \in S : k \notin Touched(e, who)
    <3>1. CASE j \notin Touched(e, who)
      <4>1. Since(n - 1, j)
        BY <1>1, <1>5, <2>1, <3>1
      <4>. QED
        BY <1>5, <2>5, <4>1 DEF Truth, Names
    <3>2. CASE j \in Touched(e, who)
      <4>1. PICK k \in S : k \notin Touched(e, who)
        BY <2>5
      <4>2. k \in HeldBy(At(n), j)
        BY <1>5, <2>2
      <4>3. j \in e.ids \/ j = e.moved
        BY <1>1, <1>3, <1>5, <3>2
      <4>. QED
        BY <1>2, <1>3, <4>1, <4>2, <4>3
    <3>. QED
      BY <3>1, <3>2
  <2>. QED
    BY <2>3, <2>4, <2>5
<1>6. ASSUME NEW i \in w.rendered, i \notin DOMAIN w.people, Since(n, i)
      PROVE  i = First(Now, i)
  <2>1. i \in m.rendered /\ i \notin DOMAIN m.people /\ i \notin Touched(e, who)
    BY <1>3, <1>6
  <2>2. Since(n - 1, i)
    BY <1>1, <1>6, <2>1, WholeIds
  <2>. QED
    BY <2>1, <2>2 DEF Truth, Renders
<1>7. ASSUME NEW l \in Lists, NEW j \in Ids, Since(n, j),
             <<l, j>> \notin free \cup (Lists \X Touched(e, who))
      PROVE  Right(w, n, l, j)
  <2>1. j \notin Touched(e, who) /\ <<l, j>> \notin free
    BY <1>7
  <2>2. Since(n - 1, j) /\ Right(m, n - 1, l, j)
    BY <1>1, <1>7, <2>1 DEF Truth, Marks
  <2>3. MarkedAt(At(n), l, j) = MarkedAt(At(n - 1), l, j)
    <3>1. Same(At(n - 1), At(n), j) /\ At(n).marked = At(n - 1).marked
      BY <1>1, <1>3, <2>1 DEF Relinked
    <3>. QED
      BY <3>1 DEF Same, MarkedAt
  <2>4. Right(m, n, l, j)
    BY <2>2, <2>3, RightEvent
  <2>. QED
    BY <2>4 DEF Right
<1>. QED
  BY <1>5, <1>6, <1>7 DEF Names, Renders, Marks

-----------------------------------------------------------------------------
(* Answers of the server: what is kept of them is true                     *)

\* Who was moderated at a position still has an id.
LEMMA MarkedHas ==
    ASSUME Content, NEW t \in 0 .. End, NEW l \in Lists, NEW p \in At(t).marked[l]
    PROVE  p \in Ids /\ Now.ids[p] # <<>>
<1>1. SoundRows(At(t)) /\ SoundRows(Now) /\ End \in t .. End /\ Now = At(End) /\ End \in Nat
  BY RowsSound
<1>2. p \in Ids
  BY <1>1 DEF SoundRows, RowState
<1>3. At(t).version[p] > 0 /\ At(t).version[p] <= Now.version[p]
  BY <1>1, <1>2 DEF SoundRows, Content, Grow
<1>4. At(t).version[p] \in Nat /\ Now.version[p] \in Nat
  BY <1>1, <1>2 DEF SoundRows, RowState
<1>. QED
  BY <1>1, <1>2, <1>3, <1>4 DEF SoundRows

\* Both lists in full, and the versions that were read after them.
LEMMA TruthFull ==
    ASSUME Content, NEW from \in 0 .. End, NEW t \in from .. End, NEW mix, NEW free,
           NEW w, Sets(w) = {},
           \A l \in Lists : w.marked[l] = {Shown(Now, p) : p \in At(t).marked[l]},
           \A l \in Lists : \A i \in Ids : w.known[l][i] =
               IF i \in w.marked[l] THEN Now.version[Holder(Now, i)] ELSE 0,
           \A i \in w.rendered : \E l \in Lists : i \in w.marked[l],
           \A l \in Lists : \A j \in w.marked[l] :
               Now.version[Holder(Now, j)] # At(t).version[Holder(Now, j)] => <<l, j>> \in free
    PROVE  Truth(w, from, mix, free)
<1>1. t \in 0 .. End /\ SoundRows(At(t)) /\ SoundRows(Now) /\ End \in t .. End /\ Now = At(End)
  BY RowsSound
<1>2. ASSUME NEW l \in Lists, NEW j \in w.marked[l]
      PROVE  /\ j \in Ids /\ First(Now, j) = j /\ Holder(Now, j) \in At(t).marked[l]
  <2>1. PICK p \in At(t).marked[l] : j = Shown(Now, p)
    BY <1>2
  <2>2. p \in Ids /\ Now.ids[p] # <<>>
    BY <1>1, MarkedHas
  <2>. QED
    BY <1>1, <2>1, <2>2, ShownFirst
<1>3. Names(w, from) /\ Kept(w, from, mix)
  BY DEF Names, Kept
<1>4. Renders(w, from)
  BY <1>2 DEF Renders
<1>5. ASSUME NEW l \in Lists, NEW j \in Ids, Since(from, j), <<l, j>> \notin free
      PROVE  Right(w, from, l, j)
  <2>1. j \in w.marked[l] => j = First(Now, j)
    BY <1>2
  <2>2. ASSUME j = First(Now, j)
        PROVE  /\ (j \in w.marked[l]) = MarkedAt(At(t), l, j)
               /\ w.known[l][j] <= At(t).version[Holder(At(t), j)]
    <3>1. Holder(At(t), j) = Holder(Now, j) /\ Holder(Now, j) \in Ids
      BY <1>1, <1>5, SinceIs, HolderIs
    <3>2. j = Shown(Now, Holder(Now, j))
      BY <1>1, <2>2, FirstIs
    <3>3. (j \in w.marked[l]) = MarkedAt(At(t), l, j)
      BY <1>2, <3>1, <3>2 DEF MarkedAt
    <3>4. At(t).version[Holder(Now, j)] \in Nat
      BY <1>1, <3>1 DEF SoundRows, RowState
    <3>5. w.known[l][j] <= At(t).version[Holder(At(t), j)]
      <4>1. CASE j \in w.marked[l]
        BY <1>5, <3>1, <3>4, <4>1
      <4>2. CASE j \notin w.marked[l]
        BY <3>1, <3>4, <4>2
      <4>. QED
        BY <4>1, <4>2
    <3>. QED
      BY <3>3, <3>5
  <2>. QED
    BY <2>1, <2>2 DEF Right
<1>. QED
  BY <1>3, <1>4, <1>5 DEF Truth, Marks

\* One person's: of the row and the version, one was read at t, the other now.
Reads(t, l, id, first, p, on, v, key) ==
    /\ p = Holder(At(t), id)
    /\ on = (p \in (IF first = "rows" THEN At(t) ELSE Now).marked[l])
    /\ v = (IF first = "rows" THEN Now ELSE At(t)).version[p]
    /\ key = IF on THEN Shown(Now, p) ELSE id

\* Every id kept as theirs is cleared, and the answer is kept under the id shown.
Writes_(m, w, l, id, on, v, key, ids, carries) ==
    /\ ids = IdsWith(m, id) /\ (on => carries)
    /\ Fewer(w, m) /\ DOMAIN w.people = DOMAIN m.people
    /\ w.rendered = m.rendered \cup (IF on THEN {key} ELSE {})
    /\ \A k \in Lists : k # l => w.marked[k] = m.marked[k] /\ w.known[k] = m.known[k]
    /\ w.marked[l] = (m.marked[l] \ ids) \cup (IF on THEN {key} ELSE {})
    /\ \A j \in Ids : w.known[l][j] =
           IF j = key /\ carries THEN v ELSE IF j \in ids THEN 0 ELSE m.known[l][j]

\* Nothing else is known of than before.
Leaves(free, more, mix, t, l, p, v, key, ids) ==
    /\ \A x \in free : x \in more \/ x \in {l} \X (ids \cup {key})
    /\ \A j \in mix : <<l, j>> \in more
    /\ v > At(t).version[p] => <<l, key>> \in more

LEMMA TruthAdopt ==
    ASSUME Content, NEW from \in 0 .. End, NEW t \in from .. End,
           NEW m, Whole(m), NEW mix, NEW free, NEW more, Truth(m, from, mix, free),
           NEW l \in Lists, NEW id \in Ids, NEW first, NEW p, NEW on, NEW v, NEW key,
           NEW ids, NEW carries, NEW w, Reads(t, l, id, first, p, on, v, key),
           Writes_(m, w, l, id, on, v, key, ids, carries),
           Leaves(free, more, mix, t, l, p, v, key, ids)
    PROVE  Names(w, from) /\ Renders(w, from) /\ Marks(w, from, more)
<1>a. /\ p = Holder(At(t), id)
      /\ on = (p \in (IF first = "rows" THEN At(t) ELSE Now).marked[l])
      /\ v = (IF first = "rows" THEN Now ELSE At(t)).version[p]
      /\ key = IF on THEN Shown(Now, p) ELSE id
  BY Zenon DEF Reads
<1>b. /\ ids = IdsWith(m, id) /\ (on => carries)
      /\ Fewer(w, m) /\ DOMAIN w.people = DOMAIN m.people
      /\ w.rendered = m.rendered \cup (IF on THEN {key} ELSE {})
      /\ \A k \in Lists : k # l => w.marked[k] = m.marked[k] /\ w.known[k] = m.known[k]
      /\ w.marked[l] = (m.marked[l] \ ids) \cup (IF on THEN {key} ELSE {})
      /\ \A j \in Ids : w.known[l][j] =
             IF j = key /\ carries THEN v ELSE IF j \in ids THEN 0 ELSE m.known[l][j]
  BY Zenon DEF Writes_
<1>c. /\ \A x \in free : x \in more \/ x \in {l} \X (ids \cup {key})
      /\ \A j \in mix : <<l, j>> \in more
      /\ v > At(t).version[p] => <<l, key>> \in more
  BY Zenon DEF Leaves
<1> USE <1>a, <1>b, <1>c
<1>1. /\ t \in 0 .. End /\ SoundRows(At(t)) /\ SoundRows(Now) /\ End \in t .. End /\ Now = At(End)
      /\ End \in from .. End
  BY RowsSound
<1>2. p \in Ids
  BY <1>1, HolderIs
<1>3. on => key \in Ids /\ Holder(Now, key) = p /\ First(Now, key) = key
  <2> SUFFICES ASSUME on PROVE key \in Ids /\ Holder(Now, key) = p /\ First(Now, key) = key
    OBVIOUS
  <2>1. Now.ids[p] # <<>>
    <3>1. CASE first = "rows"
      <4>1. p \in At(t).marked[l]
        BY <3>1
      <4>. QED
        BY <1>1, <4>1, MarkedHas
    <3>2. CASE first # "rows"
      <4>1. p \in At(End).marked[l] /\ End \in 0 .. End
        BY <1>1, <3>2, RowsSound
      <4>. QED
        BY <4>1, MarkedHas
    <3>. QED
      BY <3>1, <3>2
  <2>. QED
    BY <1>1, <1>2, <2>1, ShownFirst
<1>4. Names(w, from) /\ Renders(w, from)
  BY <1>3 DEF Truth, Names, Renders, Fewer
<1>5. ids \in SUBSET Ids /\ id \in ids /\ (ids \in Sets(m) \/ ids = {id})
  BY IdsWithIs
<1>6. /\ At(t).version[p] \in Nat /\ Now.version[p] \in Nat /\ At(t).version[p] <= Now.version[p]
  BY <1>1, <1>2 DEF SoundRows, RowState, Content, Grow
<1>7. ASSUME NEW k \in Lists, NEW j \in Ids, Since(from, j), <<k, j>> \notin more
      PROVE  Right(w, from, k, j)
  <2>1. CASE k # l \/ j \notin ids \cup {key}
    <3>1. Right(m, from, k, j)
      BY <1>7, <2>1 DEF Truth, Marks
    <3>2. (j \in w.marked[k]) = (j \in m.marked[k]) /\ w.known[k][j] = m.known[k][j]
      BY <2>1
    <3>. QED
      BY <3>1, <3>2 DEF Right
  <2>2. CASE k = l /\ on /\ j = key
    <3>1. First(Now, j) = j /\ Holder(Now, j) = p /\ Holder(At(t), j) = p
      BY <1>3, <1>7, <2>2, SinceIs
    <3>2. w.known[l][j] = v /\ j \in w.marked[l]
      BY <2>2
    <3>3. v <= At(t).version[p]
      BY <1>6, <1>7, <2>2
    <3>4. CASE first = "rows"
      <4>1. MarkedAt(At(t), l, j) = TRUE /\ t \in from .. End
        BY <2>2, <3>1, <3>4 DEF MarkedAt
      <4>. QED
        BY <2>2, <3>1, <3>2, <3>3, <4>1 DEF Right
    <3>5. CASE first # "rows"
      <4>1. MarkedAt(At(End), l, j) = TRUE /\ v <= At(End).version[p]
        BY <1>1, <1>6, <2>2, <3>1, <3>5 DEF MarkedAt
      <4>. QED
        BY <1>1, <2>2, <3>1, <3>2, <4>1 DEF Right
    <3>. QED
      BY <3>4, <3>5
  <2>3. CASE k = l /\ j \in ids /\ ~(on /\ j = key)
    <3>1. j \notin w.marked[l]
      BY <2>3
    <3> SUFFICES ASSUME j = First(Now, j)
                 PROVE  \E n \in from .. End : /\ ~MarkedAt(At(n), l, j)
                                               /\ w.known[l][j] <= At(n).version[Holder(At(n), j)]
      BY <2>3, <3>1 DEF Right, MarkedAt
    <3>2. Holder(At(t), j) = p /\ Holder(Now, j) = p
      <4>1. id \in HeldBy(Now, j)
        <5>1. CASE ids \in Sets(m)
          BY <1>5, <1>7, <2>3, <5>1 DEF Truth, Kept
        <5>2. CASE ids = {id}
          BY <1>1, <2>3, <5>2, HeldIs
        <5>. QED
          BY <1>5, <5>1, <5>2
      <4>2. id \in HeldBy(At(t), j)
        BY <1>7, <4>1, SinceIs
      <4>3. Holder(At(t), j) = p
        BY <1>1, <4>2, HeldIs
      <4>. QED
        BY <1>7, <4>3, SinceIs
    <3>3. ~on
      <4>1. j = Shown(Now, p)
        BY <1>1, <3>2, FirstIs
      <4>. QED
        BY <2>3, <4>1
    <3>4. w.known[l][j] = v \/ w.known[l][j] = 0
      BY <2>3
    <3>5. w.known[l][j] = v => v <= At(t).version[p]
      <4>1. CASE j = key
        BY <1>6, <1>7, <2>3, <4>1
      <4>2. CASE j # key
        BY <1>6, <2>3, <4>2
      <4>. QED
        BY <4>1, <4>2
    <3>8. w.known[l][j] <= At(t).version[p] /\ w.known[l][j] <= Now.version[p]
      <4>1. v \in Nat
        BY <1>6
      <4>. QED
        BY <1>6, <3>4, <3>5, <4>1
    <3>6. CASE first = "rows"
      <4>1. ~MarkedAt(At(t), l, j)
        BY <3>2, <3>3, <3>6 DEF MarkedAt
      <4>. QED
        BY <3>2, <3>8, <4>1
    <3>7. CASE first # "rows"
      <4>1. ~MarkedAt(At(End), l, j)
        BY <1>1, <3>2, <3>3, <3>7 DEF MarkedAt
      <4>. QED
        BY <1>1, <3>2, <3>8, <4>1
    <3>. QED
      BY <3>6, <3>7
  <2>. QED
    BY <2>1, <2>2, <2>3, <1>5
<1>. QED
  BY <1>4, <1>7 DEF Marks

\* Ids put together that have, among them, the id shown for one of them.
LEMMA NamesPut ==
    ASSUME Content, NEW from \in 0 .. End, NEW t \in from .. End, NEW m, NEW w, NEW ids \in IdSets,
           Names(m, from), Adds(w, m, ids), NEW k \in ids,
           Since(t, k) => First(At(t), k) \in ids
    PROVE  Names(w, from)
<1> SUFFICES ASSUME NEW S \in Sets(w), NEW j \in S, Since(from, j), S \subseteq HeldBy(Now, j)
             PROVE  First(Now, j) \in S
  BY DEF Names
<1>1. CASE S \in Sets(m)
  BY <1>1 DEF Names
<1>2. CASE S = ids
  <2>1. j \in Ids /\ k \in HeldBy(Now, j) /\ SoundRows(Now) /\ End \in from .. End /\ Now = At(End)
    BY <1>2, RowsSound DEF IdSets
  <2>2. k \in Ids /\ Since(from, k)
    BY <2>1, SinceMates
  <2>3. First(At(t), k) = First(Now, k) /\ First(Now, k) = First(Now, j)
    BY <2>1, <2>2, SinceIs, HeldIs
  <2>4. Since(t, k)
    BY <2>2, SinceLater, RowsSound
  <2>. QED
    BY <1>2, <2>3, <2>4
<1>. QED
  BY <1>1, <1>2 DEF Adds

LEMMA RendersPut ==
    ASSUME Content, NEW from \in 0 .. End, NEW t \in from .. End, NEW m, NEW w, NEW x \in Ids,
           Renders(m, from), w.rendered = m.rendered \cup {x},
           DOMAIN m.people \subseteq DOMAIN w.people,
           x \in DOMAIN w.people \/ (Since(t, x) => First(At(t), x) = x)
    PROVE  Renders(w, from)
<1> SUFFICES ASSUME NEW i \in w.rendered, i \notin DOMAIN w.people, Since(from, i)
             PROVE  i = First(Now, i)
  BY DEF Renders
<1>1. CASE i \in m.rendered
  BY <1>1 DEF Renders
<1>2. CASE i = x
  <2>1. First(At(t), x) = First(Now, x)
    BY <1>2, SinceIs
  <2>2. Since(t, x)
    BY <1>2, SinceLater, RowsSound
  <2>. QED
    BY <1>2, <2>1, <2>2
<1>. QED
  BY <1>1, <1>2

LEMMA EntryIs ==
    ASSUME NEW m, Whole(m), NEW k, NEW row \in RowType,
           NEW w, w = WithEntry(m, k, row)
    PROVE  /\ Whole(w) /\ Alike(w, m) /\ w.group = m.group
           /\ w.people = m.people /\ w.rendered = m.rendered /\ Sets(w) = Sets(m)
           /\ w.members = Entered(m.members, k, row)
<1>1. m \in States
  BY DEF Whole
<1> DEFINE f == Entered(m.members, k, row)
<1>2. w = [m EXCEPT !.members = f]
  BY DEF WithEntry, Entered
<1>3. f \in Maps([loaded : BOOLEAN, row : RowType])
  <2>1. DOMAIN m.members \subseteq Ids
        /\ m.members \in [DOMAIN m.members -> [loaded : BOOLEAN, row : RowType]]
    BY <1>1, MapsIs DEF States
  <2>2. Entry(row) \in [loaded : BOOLEAN, row : RowType]
    BY DEF Entry
  <2>3. f \in [DOMAIN m.members -> [loaded : BOOLEAN, row : RowType]]
    BY <2>1, <2>2 DEF Entered
  <2>4. DOMAIN f = DOMAIN m.members
    BY DEF Entered
  <2>. QED
    BY <2>1, <2>3, <2>4 DEF Maps
<1> HIDE DEF f
<1>4. w \in States /\ Alike(w, m) /\ w.group = m.group /\ w.people = m.people
      /\ w.rendered = m.rendered /\ w.members = f
  BY <1>1, <1>2, <1>3 DEF States, Alike
<1>. QED
  BY <1>4 DEF Whole, Sets, f

\* The id is the one that the server shows for its person, if who has which ids
\* has not changed since.
Shows(t, x) == x \in Ids /\ (Since(t, x) => First(At(t), x) = x)

\* A member that was read, with the id that the server showed for its person.
LEMMA LoadedIs ==
    ASSUME Content, NEW from \in 0 .. End, NEW t \in from .. End, NEW m, Whole(m),
           NEW k \in Ids, NEW access, access.row \in RowType, Shows(t, access.shown),
           NEW w, w = WithLoaded(m, k, access)
    PROVE  /\ Whole(w) /\ Alike(w, m) /\ w.group = m.group
           /\ w.members = Entered(m.members, k, access.row)
           /\ DOMAIN m.people \subseteq DOMAIN w.people
           /\ Names(m, from) /\ Renders(m, from) => Names(w, from) /\ Renders(w, from)
<1>0. PICK row \in RowType : row = access.row
  OBVIOUS
<1>1. PICK e : e = WithEntry(m, k, row)
  OBVIOUS
<1>2. /\ Whole(e) /\ Alike(e, m) /\ e.group = m.group
      /\ e.people = m.people /\ e.rendered = m.rendered /\ Sets(e) = Sets(m)
      /\ e.members = Entered(m.members, k, row)
  BY <1>1, EntryIs
<1>3. Names(m, from) /\ Renders(m, from) => Names(e, from) /\ Renders(e, from)
  BY <1>2 DEF Names, Renders
<1>4. /\ access.shown \in Ids
      /\ Since(t, access.shown) => First(At(t), access.shown) = access.shown
  BY DEF Shows
<1>5. w = IF access.row = NoRow THEN e
          ELSE IF access.shown = k THEN WithRendered(e, k)
          ELSE WithPerson(e, IdsWith(m, k) \cup IdsWith(m, access.shown), access.shown)
  BY <1>0, <1>1 DEF WithLoaded, Entry, WithEntry
<1>6. CASE w = e
  BY <1>0, <1>2, <1>3, <1>6
<1>7. CASE w = WithRendered(e, k) /\ access.shown = k
  <2>1. /\ Whole(w) /\ Alike(w, e) /\ w.members = e.members /\ w.group = e.group
        /\ w.rendered = e.rendered \cup {k}
        /\ DOMAIN w.people = DOMAIN e.people /\ Fewer(w, e)
    BY <1>2, <1>7, WithRenderedIs
  <2>2. Names(e, from) => Names(w, from)
    BY <2>1 DEF Names, Fewer
  <2>3. ASSUME Renders(e, from) PROVE Renders(w, from)
    <3>1. Since(t, k) => First(At(t), k) = k
      BY <1>4, <1>7
    <3>. QED
      BY <2>1, <2>3, <3>1, RendersPut
  <2>. QED
    BY <1>0, <1>2, <1>3, <2>1, <2>2, <2>3 DEF Alike
<1>8. CASE w = WithPerson(e, IdsWith(m, k) \cup IdsWith(m, access.shown), access.shown)
  <2>1. PICK ids \in IdSets : /\ ids = IdsWith(m, k) \cup IdsWith(m, access.shown)
                              /\ k \in ids /\ access.shown \in ids
    <3>1. IdsWith(m, k) \in SUBSET Ids /\ k \in IdsWith(m, k)
      BY IdsWithIs
    <3>2. access.shown \in Ids
      BY <1>4
    <3>3. IdsWith(m, access.shown) \in SUBSET Ids /\ access.shown \in IdsWith(m, access.shown)
      BY <3>2, IdsWithIs
    <3>. QED
      BY <3>1, <3>3 DEF IdSets
  <2>2. w = WithPerson(e, ids, access.shown)
    BY <1>8, <2>1
  <2>3. /\ Whole(w) /\ Alike(w, e) /\ w.members = e.members /\ w.group = e.group
        /\ w.rendered = e.rendered \cup {access.shown}
        /\ DOMAIN w.people = DOMAIN e.people \cup ids /\ Adds(w, e, ids)
    BY <1>2, <1>4, <2>2, WithPersonIs
  <2>4. ASSUME Names(e, from) PROVE Names(w, from)
    <3>1. PICK x \in ids : x = access.shown
      BY <2>1
    <3>2. Since(t, x) => First(At(t), x) \in ids
      BY <1>4, <3>1
    <3>. QED
      BY <2>1, <2>3, <2>4, <3>2, NamesPut
  <2>5. ASSUME Renders(e, from) PROVE Renders(w, from)
    <3>1. access.shown \in DOMAIN w.people /\ DOMAIN e.people \subseteq DOMAIN w.people
      BY <2>1, <2>3
    <3>. QED
      BY <1>4, <2>3, <2>5, <3>1, RendersPut
  <2>. QED
    BY <1>0, <1>2, <1>3, <2>3, <2>4, <2>5 DEF Alike
<1>. QED
  BY <1>5, <1>6, <1>7, <1>8

\* A person that resolve found.
LEMMA ResolvedIs ==
    ASSUME Content, NEW from \in 0 .. End, NEW m, Whole(m), NEW i \in Ids,
           NEW w, w = Resolved(m, i)
    PROVE  /\ Whole(w) /\ Alike(w, m) /\ w.group = m.group /\ w.members = m.members
           /\ i \in DOMAIN w.people /\ w.people[i].key \in Ids
           /\ DOMAIN m.people \subseteq DOMAIN w.people
           /\ Names(m, from) => Names(w, from)
           /\ Renders(m, from) => Renders(w, from)
           /\ w.rendered = m.rendered
<1>0. SoundRows(Now) /\ End \in from .. End /\ Now = At(End)
  BY RowsSound
<1>1. CASE i \in DOMAIN m.people
  <2>1. w = m
    BY <1>1 DEF Resolved
  <2>2. m.people[i].key \in Ids
    <3>1. m.people \in Maps([ids : SUBSET Ids, key : Ids])
      BY DEF Whole, States
    <3>2. m.people[i] \in [ids : SUBSET Ids, key : Ids]
      BY <1>1, <3>1 DEF Maps
    <3>. QED
      BY <3>2
  <2>. QED
    BY <1>1, <2>1, <2>2 DEF Alike
<1>2. CASE i \notin DOMAIN m.people
  <2> DEFINE ids == Of(Now, i)
             seen == {n \in DOMAIN ids :
                        ids[n] \in m.rendered /\ \A x \in 1 .. n - 1 : ids[x] \notin m.rendered}
             key == IF seen = {} THEN Head(ids) ELSE ids[CHOOSE n \in seen : TRUE]
             people == Put(m.people, ToSet(ids), Person(ToSet(ids), key))
  <2>1. w = [m EXCEPT !.people = people]
    BY <1>2 DEF Resolved, Of, Person
  <2>2. ids \in Seq(Ids) /\ ids # <<>>
    BY <1>0, HolderIs DEF Of, SoundRows, RowState
  <2>3. ToSet(ids) \in IdSets /\ i \in ToSet(ids) /\ First(Now, i) \in ToSet(ids)
    BY <1>0, HeldIs, FirstIs DEF HeldBy, IdSets
  <2>4. key \in Ids
    <3>1. Head(ids) \in Ids
      BY <2>2
    <3>2. seen # {} => ids[CHOOSE n \in seen : TRUE] \in Ids
      BY <2>2
    <3>. QED
      BY <3>1, <3>2
  <2> HIDE DEF key, seen
  <2>5. m \in States /\ m.people \in Maps([ids : SUBSET Ids, key : Ids])
    BY DEF Whole, States
  <2>6. people \in Maps([ids : SUBSET Ids, key : Ids])
    <3>1. Person(ToSet(ids), key) \in [ids : SUBSET Ids, key : Ids]
      BY <2>3, <2>4 DEF IdSets, Person
    <3>2. ToSet(ids) \in SUBSET Ids
      BY <2>3 DEF IdSets
    <3>. QED
      BY <2>5, <3>1, <3>2, PutMaps
  <2> HIDE DEF people
  <2>7. w \in States /\ w.people = people /\ w.rendered = m.rendered /\ Alike(w, m)
        /\ w.group = m.group /\ w.members = m.members
    BY <2>1, <2>5, <2>6 DEF States, Alike
  <2>8. w.people = Put(m.people, ToSet(ids), Person(ToSet(ids), key))
    BY <2>7 DEF people
  <2> HIDE DEF ids
  <2>9. /\ Whole(w)
        /\ DOMAIN w.people = DOMAIN m.people \cup ToSet(ids)
        /\ Adds(w, m, ToSet(ids))
    <3>1. PICK S \in IdSets : S = ToSet(ids)
      BY <2>3
    <3>2. w.people = Put(m.people, S, Person(S, key))
      BY <2>8, <3>1
    <3>3. /\ Whole(w) /\ DOMAIN w.people = DOMAIN m.people \cup S
          /\ Adds(w, m, S)
      BY <2>4, <2>7, <3>2, PutPeople
    <3>. QED
      BY <3>1, <3>3
  <2>10. w.people[i].key = key
    BY <2>3, <2>8 DEF Put, Person
  <2>11. ASSUME Names(m, from) PROVE Names(w, from)
    BY <1>0, <2>3, <2>9, <2>11, NamesPut
  <2>12. Renders(m, from) => Renders(w, from)
    BY <2>7, <2>9 DEF Renders
  <2>. QED
    BY <2>3, <2>4, <2>7, <2>9, <2>10, <2>11, <2>12
<1>. QED
  BY <1>1, <1>2

-----------------------------------------------------------------------------
(* What the truth is for: an answer was right at one of the positions      *)

LEMMA AnswerHolds ==
    ASSUME Content, Whole(mirror), NEW from \in 0 .. End, NEW free,
           Truth(mirror, from, mixed, free), NEW l \in Lists, NEW i \in Ids,
           Answer(l, i) # "unknown", Since(from, i),
           \A j \in IdsWith(mirror, i) : j \notin mixed /\ <<l, j>> \notin free
    PROVE  \E n \in from .. End : (Answer(l, i) = "yes") = MarkedAt(At(n), l, i)
<1> DEFINE ids == IdsWith(mirror, i)
           marked == mirror.marked[l]
           s == First(Now, i)
<1>1. SoundRows(Now) /\ End \in from .. End /\ Now = At(End)
  BY RowsSound
<1>2. /\ ids \in SUBSET Ids /\ i \in ids
      /\ i \in DOMAIN mirror.people => ids \in Sets(mirror)
      /\ i \notin DOMAIN mirror.people => ids = {i}
  BY IdsWithIs
<1>3. ids \subseteq HeldBy(Now, i)
  <2>1. CASE i \in DOMAIN mirror.people
    <3>1. ids \in Sets(mirror) /\ i \notin mixed
      BY <1>2, <2>1
    <3>. QED
      BY <1>2, <3>1 DEF Truth, Kept
  <2>2. CASE i \notin DOMAIN mirror.people
    BY <1>1, <1>2, <2>2, HeldIs
  <2>. QED
    BY <2>1, <2>2
<1>4. ASSUME NEW j \in ids
      PROVE  /\ j \in Ids /\ Since(from, j) /\ First(Now, j) = s
             /\ \A n \in from .. End : Holder(At(n), j) = Holder(At(n), i)
             /\ Right(mirror, from, l, j)
  <2>1. j \in HeldBy(At(End), i) /\ j \in Ids
    BY <1>1, <1>2, <1>3
  <2>2. Since(from, j)
    BY <1>1, <2>1, SinceMates
  <2>3. First(Now, j) = s /\ Holder(Now, j) = Holder(Now, i)
    BY <1>1, <2>1, HeldIs
  <2>4. ASSUME NEW n \in from .. End PROVE Holder(At(n), j) = Holder(At(n), i)
    BY <2>1, <2>2, <2>3, SinceIs
  <2>5. Right(mirror, from, l, j)
    BY <2>1, <2>2 DEF Truth, Marks
  <2>. QED
    BY <2>1, <2>2, <2>3, <2>4, <2>5
<1>5. Answer(l, i) = "yes" <=> ids \cap marked # {}
  BY DEF Answer
<1>6. Answer(l, i) = "yes" => s \in ids /\ s \in marked
  BY <1>4, <1>5 DEF Right
<1>7. s \in ids
  <2>1. CASE Answer(l, i) = "yes"
    BY <1>6, <2>1
  <2>2. CASE Answer(l, i) # "yes" /\ i \in DOMAIN mirror.people
    BY <1>2, <1>3, <2>2 DEF Truth, Names
  <2>3. CASE Answer(l, i) # "yes" /\ i \notin DOMAIN mirror.people
    <3>1. i \in mirror.rendered
      BY <1>5, <2>3 DEF Answer
    <3>. QED
      BY <1>2, <2>3, <3>1 DEF Truth, Renders
  <2>. QED
    BY <2>1, <2>2, <2>3
<1>8. (Answer(l, i) = "yes") = (s \in marked)
  BY <1>5, <1>6, <1>7
<1>9. s = First(Now, s) /\ Right(mirror, from, l, s)
  BY <1>4, <1>7
<1>10. PICK n \in from .. End : (s \in marked) = MarkedAt(At(n), l, s)
  BY <1>9 DEF Right
<1>11. MarkedAt(At(n), l, s) = MarkedAt(At(n), l, i)
  BY <1>4, <1>7, <1>10 DEF MarkedAt
<1>. QED
  BY <1>8, <1>10, <1>11

\* Everything that is mixed is noted.
LEMMA MixedKept ==
    ASSUME Content', Whole(mirror)', (Applied \in 0 .. End)', (Mixed \subseteq mixed)'
    PROVE  Kept(mirror, Applied, mixed)'
<1> SUFFICES ASSUME NEW S \in Sets(mirror'), NEW j \in S, Since(Applied, j)', j \notin mixed'
             PROVE  S \subseteq HeldBy(Now', j)
  BY DEF Kept
<1>1. PICK i \in DOMAIN mirror'.people : S = mirror'.people[i].ids
  BY DEF Sets
<1>2. i \in S /\ S \subseteq Ids /\ i \in Ids /\ j \in Ids
  <2>1. i \in S /\ S \subseteq DOMAIN mirror'.people
    BY <1>1 DEF Whole
  <2>2. mirror'.people \in Maps([ids : SUBSET Ids, key : Ids])
    BY DEF Whole, States
  <2>3. DOMAIN mirror'.people \subseteq Ids
    BY <2>2, MapsIs
  <2>. QED
    BY <2>1, <2>3
<1>3. PICK n \in Applied' .. End' : S \subseteq HeldBy(At(n)', i)
  <2>1. ASSUME \A n \in Applied' .. End' : ~(S \subseteq HeldBy(At(n)', i))
        PROVE  S \subseteq mixed'
    BY <1>1, <2>1 DEF Mixed, HeldBy, Of
  <2>. QED
    BY <2>1
<1>4. SoundRows(At(n)')
  <2>1. n \in 0 .. End' /\ \A t \in 0 .. End' : SoundRows(At(t))'
    BY DEF Content, Log
  <2>. QED
    BY <2>1
<1>5. HeldBy(At(n)', i) = HeldBy(At(n)', j)
  BY <1>2, <1>3, <1>4, HeldIs
<1>6. Of(At(n)', j) = Of(Now', j)
  BY <1>3 DEF Since
<1>. QED
  BY <1>3, <1>5, <1>6 DEF HeldBy

-----------------------------------------------------------------------------
(* The invariant                                                           *)

\* The steps of a task.
Works ==
    [k : {"position", "group"}] \cup [k : {"subscribe"}, resume : BOOLEAN]
    \cup [k : {"rows", "versions"}, position : Nat]
    \cup [k : {"members", "access"}, keys : IdSets]
    \cup [k : {"loaded"}, keys : IdSets, left : IdSets]
    \cup [k : {"reload", "adopt"}, list : Lists, id : Ids]
    \cup [k : {"relinked"}, ids : IdSets, position : Nat]
    \cup [k : {"flushed"}, position : Nat]

\* Attempts to start, and retries of one request.
Attempts == {Start(TRUE), Start(FALSE)}
Retry(task) == task \in Seq(Works) /\ Len(task) = 1 /\ task[1].k \in {"rows", "members", "group", "reload"}

Items == [position : Nat, event : Events \cup {Told}]

TypeOK ==
    /\ Whole(mirror) /\ Whole(file.mirror)
    /\ todo \in Seq(Works) /\ \A task \in tasks : task \in Attempts \/ Retry(task)
    /\ deferred \in [group : BOOLEAN, members : IdSets, position : Nat]
    /\ loads \in IdSets /\ waiting \in IdSets
    /\ live \in BOOLEAN /\ read \in Nat /\ resync \in Nat
    /\ inbox \in Seq(Items)
    /\ torn \subseteq Lists \X Ids /\ file.torn \subseteq Lists \X Ids

\* The kind of the last step.
Ends(s) == IF s = <<>> THEN "nothing" ELSE s[Len(s)].k

Loading == {"position", "rows", "versions"}
Relinking == {"reload", "adopt"}

\* In which order the steps of a task come.
First_ == Loading \cup {"access", "loaded", "adopt"}
InPlace(k, n, len, ends) ==
    /\ k \in {"relinked", "flushed", "subscribe"} => n = len
    /\ k \in First_ => n = 1
    /\ k \in Loading => n = len \/ ends = "subscribe"
    /\ k \in Relinking => n = len \/ ends = "relinked"
    /\ ends = "relinked" => n = len \/ k \in Relinking
Tidy(s) == \A n \in 1 .. Len(s) : InPlace(s[n].k, n, Len(s), Ends(s))

Starting == Ends(todo) = "subscribe"

\* There is one attempt to start until the stream is open, and none after it.
Shape ==
    /\ Tidy(todo)
    /\ deferred # Quiet => todo = <<>> \/ Ends(todo) = "relinked"
    /\ live => ~Starting /\ ~Doing("position") /\ tasks \cap Attempts = {}
    /\ Starting => tasks \cap Attempts = {}
    /\ ~(Attempts \subseteq tasks)
    /\ ~live => /\ deferred = Quiet
                /\ Ends(todo) \notin {"relinked", "flushed"}
                /\ Doing("rows") \/ Doing("versions") \/ Doing("position") => Starting

\* A full load is owed.
Lapsed(owes) == \E w \in owes : w.k = "rows"

\* The applier has been told of every resync, and has handled it.
Aware == resync = 0 /\ \A n \in DOMAIN inbox : inbox[n].event # Told

\* An event as it was sent, when the rows were those at d.
Named(e, d) ==
    IF e.k \in {"group", "deleted"} THEN e ELSE [e EXCEPT !.who = First(At(d), e.who)]
Sent(x) ==
    x.position \in 1 .. End /\ \E d \in x.position .. End : x.event = Named(log[x.position], d)

\* What comes after the n-th of the queue.
Follows(n) ==
    /\ inbox[n].event = Told =>
          /\ FullLoad(inbox[n].position) \in owed
          /\ resync # 0 => inbox[n].position <= resync
          /\ \A m \in n + 1 .. Len(inbox) :
                /\ inbox[n].position <= inbox[m].position
                /\ inbox[m].event # Told => inbox[n].position # inbox[m].position
    /\ resync = 0 /\ (\A m \in n .. Len(inbox) : inbox[m].event # Told) =>
          inbox[n].position + Len(inbox) = read + n

Queued ==
    /\ read <= End /\ resync <= read
    /\ ~live => inbox = <<>> /\ resync = 0
    /\ resync # 0 => FullLoad(resync) \in owed
    /\ \A n \in 1 .. Len(inbox) :
          /\ inbox[n].position <= read
          /\ inbox[n].event # Told => Sent(inbox[n])
          /\ Follows(n)

\* All that is queued is later than a position.
Before(p) ==
    IF live THEN /\ p <= read /\ (resync # 0 => p <= resync)
                 /\ \A n \in 1 .. Len(inbox) :
                       /\ p <= inbox[n].position
                       /\ inbox[n].event # Told => p # inbox[n].position
            ELSE p <= End

\* No full load goes back behind what the applier has taken.
Ahead ==
    /\ Doing("rows") \/ Doing("versions") => Before(Work.position)
    /\ \A task \in tasks : Head(task).k = "rows" => live /\ Before(Head(task).position)

\* What the applier has read, and when.
Lately(t) == t \in 0 .. End /\ (~Lapsed(owed) => Applied <= t)
DraftRows ==
    Doing("versions") =>
        /\ draft.group \in Nat
        /\ \E t \in 0 .. End : /\ draft.marked = At(t).marked /\ draft.version = At(t).version
                               /\ Aware => (IF live THEN Applied ELSE Work.position) <= t
DraftPerson ==
    Doing("adopt") =>
        \E t \in 0 .. End :
            /\ Lately(t)
            /\ draft.person = Holder(At(t), Work.id)
            /\ draft.on = (draft.person \in At(t).marked[Work.list])
            /\ draft.version = At(t).version[draft.person]
DraftMembers ==
    /\ Doing("access") => Lately(draft.since)
    /\ Doing("loaded") =>
          /\ DOMAIN draft = {"edit", "access"}
          /\ Whole(draft.edit) /\ Work.left \subseteq Work.keys
          /\ \A k \in Work.keys :
                /\ draft.access[k].row \in RowType
                /\ \E t \in 0 .. End : Lately(t) /\ Shows(t, draft.access[k].shown)

\* What is not known of: what a failed load left, what is torn or mixed, and what
\* is about to be read again.
Missed(owes, t, mix) ==
    t \cup {x \in Lists \X Ids : Reload(x[1], x[2]) \in owes} \cup (Lists \X mix)
Coming ==
    {x \in Lists \X Ids :
        Ends(todo) = "relinked" /\ \E n \in 1 .. Len(todo) :
            todo[n].k \in Relinking /\ todo[n].list = x[1] /\ todo[n].id = x[2]}
Free == Missed(owed, torn, mixed) \cup Coming

\* The mirror is true of the positions from what the applier has taken on.
Holds == ~Lapsed(owed) /\ mirror.ready => Truth(mirror, Applied, mixed, Free)

\* No position that is published, or about to be, is later than one.
Upto(p) ==
    /\ mirror.position <= p
    /\ deferred # Quiet => deferred.position <= p
    /\ Ends(todo) \in {"relinked", "flushed"} => todo[Len(todo)].position <= p

Places == Upto(End) /\ (~Lapsed(owed) => Applied \in 0 .. End /\ Upto(Applied))

\* The people of what is about to be read again changed.
Unsettled == ~Lapsed(owed) => \A x \in Coming : ~Since(mirror.position, x[2])

Drafted ==
    Doing("loaded") =>
        /\ Alike(draft.edit, mirror) /\ DOMAIN mirror.people \subseteq DOMAIN draft.edit.people
        /\ ~Lapsed(owed) /\ mirror.ready => Names(draft.edit, Applied) /\ Renders(draft.edit, Applied)

Saved ==
    /\ DOMAIN file.mirror.people = {} => file.mixed = {}
    /\ file.mirror.position \in 0 .. End
    /\ ~Lapsed(file.owed) /\ file.mirror.ready =>
          Truth(file.mirror, file.mirror.position, file.mixed,
                Missed(file.owed, file.torn, file.mixed))

\* Where nobody's ids are kept, none are mixed.
Unmixed == DOMAIN mirror.people = {} => mixed = {}

IInv ==
    /\ Content /\ TypeOK /\ Shape /\ Queued /\ Ahead
    /\ DraftRows /\ DraftPerson /\ DraftMembers
    /\ Holds /\ Places /\ Unsettled /\ Drafted /\ Saved /\ Unmixed

-----------------------------------------------------------------------------
(* Tasks                                                                   *)

LEMMA OneIs ==
    ASSUME NEW w \in Works, NEW s, s = <<w>>
    PROVE  /\ s \in Seq(Works) /\ Len(s) = 1 /\ s # <<>> /\ Head(s) = w /\ s[1] = w
           /\ Ends(s) = w.k /\ Tidy(s)
<1> HIDE DEF Works
<1>1. s \in Seq(Works) /\ Len(s) = 1 /\ s # <<>> /\ Head(s) = w /\ s[1] = w
  OBVIOUS
<1>2. Ends(s) = w.k
  BY <1>1 DEF Ends
<1>3. Tidy(s)
  BY <1>1, <1>2 DEF Tidy, InPlace, First_, Loading, Relinking
<1>. QED
  BY <1>1, <1>2, <1>3

LEMMA TailIs ==
    ASSUME NEW s \in Seq(Works), s # <<>>, Tidy(s), NEW u, u = <<>> \o Tail(s)
    PROVE  /\ Head(s) = s[1] /\ Len(s) \in Nat /\ Len(s) >= 1 /\ s[1] \in Works
           /\ u \in Seq(Works) /\ Len(u) = Len(s) - 1
           /\ \A n \in 1 .. Len(u) : u[n] = s[n + 1]
           /\ Tidy(u) /\ Ends(u) = (IF Len(s) = 1 THEN "nothing" ELSE Ends(s))
           /\ Len(s) = 1 <=> u = <<>>
           /\ u # <<>> => Head(u).k \notin First_
<1> HIDE DEF Works
<1>1. Head(s) \in Works /\ Tail(s) \in Seq(Works) /\ Len(Tail(s)) = Len(s) - 1
      /\ \A n \in 1 .. Len(Tail(s)) : Tail(s)[n] = s[n + 1]
  BY HeadTailProperties, Zenon
<1>2. u = Tail(s)
  BY <1>1, ConcatEmptySeq, Zenon
<1>3. Len(s) \in Nat /\ Len(s) >= 1 /\ Head(s) = s[1]
  BY EmptySeq
<1>4. Len(u) = Len(s) - 1 /\ \A n \in 1 .. Len(u) : u[n] = s[n + 1]
  BY <1>1, <1>2
<1>5. Len(s) = 1 <=> u = <<>>
  BY <1>1, <1>2, <1>3, EmptySeq
<1>6. Ends(u) = (IF Len(s) = 1 THEN "nothing" ELSE Ends(s))
  BY <1>3, <1>4, <1>5 DEF Ends
<1>7. Tidy(u)
  <2> SUFFICES ASSUME NEW n \in 1 .. Len(u) PROVE InPlace(u[n].k, n, Len(u), Ends(u))
    BY DEF Tidy
  <2>1. n + 1 \in 1 .. Len(s) /\ u[n] = s[n + 1] /\ Len(u) = Len(s) - 1 /\ Ends(u) = Ends(s)
    BY <1>3, <1>4, <1>6
  <2>2. InPlace(s[n + 1].k, n + 1, Len(s), Ends(s))
    BY <2>1 DEF Tidy
  <2>3. PICK k : k = u[n].k /\ k = s[n + 1].k
    BY <2>1
  <2>4. PICK len, ends : len = Len(s) /\ ends = Ends(s)
    OBVIOUS
  <2>5. InPlace(k, n + 1, len, ends) /\ n \in Nat /\ n >= 1 /\ len \in Nat
    BY <1>3, <2>2, <2>3, <2>4
  <2>6. InPlace(k, n, len - 1, ends)
    BY <2>5 DEF InPlace, First_
  <2>. QED
    BY <2>1, <2>3, <2>4, <2>6
<1>8. ASSUME u # <<>> PROVE Head(u).k \notin First_
  <2>1. Len(s) >= 2 /\ 1 \in 1 .. Len(u) /\ 2 \in 1 .. Len(s)
    BY <1>3, <1>4, <1>5, <1>8
  <2>2. u[1] = s[2]
    BY <1>4, <2>1
  <2>3. Head(u) = u[1]
    BY <1>1, <1>2, <1>8, EmptySeq
  <2>4. InPlace(s[2].k, 2, Len(s), Ends(s))
    BY <2>1 DEF Tidy
  <2>5. PICK k : k = Head(u).k
    OBVIOUS
  <2>6. InPlace(k, 2, Len(s), Ends(s))
    BY <2>2, <2>3, <2>4, <2>5
  <2>7. k \notin First_
    BY <2>6 DEF InPlace
  <2>. QED
    BY <2>5, <2>7
<1>. QED
  BY <1>1, <1>2, <1>3, <1>4, <1>5, <1>6, <1>7, <1>8

\* A step that may come in the place of the first.
Fits(w, s) ==
    /\ w.k \in {"relinked", "flushed", "subscribe"} => Len(s) = 1
    /\ w.k \in Loading => Len(s) = 1 \/ Ends(s) = "subscribe"
    /\ w.k \in Relinking => Len(s) = 1 \/ Ends(s) = "relinked"
    /\ Ends(s) = "relinked" => Len(s) = 1 \/ w.k \in Relinking

Instead(w, s) == <<w>> \o Tail(s)

LEMMA NextIs ==
    ASSUME NEW s \in Seq(Works), s # <<>>, Tidy(s), NEW w \in Works, Fits(w, s),
           NEW u, u = Instead(w, s)
    PROVE  /\ u \in Seq(Works) /\ Len(u) = Len(s) /\ u # <<>> /\ u[1] = w /\ Head(u) = w
           /\ \A n \in 2 .. Len(u) : u[n] = s[n]
           /\ Tidy(u) /\ Ends(u) = (IF Len(s) = 1 THEN w.k ELSE Ends(s))
<1> HIDE DEF Works
<1>1. Head(s) \in Works /\ Tail(s) \in Seq(Works) /\ Len(Tail(s)) = Len(s) - 1
      /\ \A n \in 1 .. Len(Tail(s)) : Tail(s)[n] = s[n + 1]
  BY HeadTailProperties, Zenon
<1>2. Len(s) \in Nat /\ Len(s) >= 1
  BY EmptySeq
<1>3. PICK b \in Seq(Works) : b = <<w>> /\ Len(b) = 1 /\ b[1] = w
  BY OneIs
<1>4. /\ u \in Seq(Works) /\ Len(u) = Len(b) + Len(Tail(s))
      /\ \A n \in 1 .. Len(b) + Len(Tail(s)) :
            u[n] = IF n <= Len(b) THEN b[n] ELSE Tail(s)[n - Len(b)]
  <2>1. PICK c \in Seq(Works) : c = Tail(s)
    BY <1>1
  <2>2. u = b \o c
    BY <1>3, <2>1 DEF Instead
  <2>3. /\ u \in Seq(Works) /\ Len(u) = Len(b) + Len(c)
        /\ \A n \in 1 .. Len(b) + Len(c) : u[n] = IF n <= Len(b) THEN b[n] ELSE c[n - Len(b)]
    BY <2>2, ConcatProperties, ZenonT(30)
  <2>. QED
    BY <2>1, <2>3
<1> HIDE DEF Fits
<1>5. Len(u) = Len(s) /\ u[1] = w /\ \A n \in 2 .. Len(u) : u[n] = s[n]
  BY <1>1, <1>2, <1>3, <1>4
<1>6. u # <<>> /\ Head(u) = w
  BY <1>2, <1>4, <1>5, EmptySeq
<1>7. Ends(u) = (IF Len(s) = 1 THEN w.k ELSE Ends(s))
  BY <1>2, <1>5, <1>6 DEF Ends
<1>8. Tidy(u)
  <2> SUFFICES ASSUME NEW n \in 1 .. Len(u) PROVE InPlace(u[n].k, n, Len(u), Ends(u))
    BY DEF Tidy
  <2>1. CASE n = 1
    BY <1>2, <1>5, <1>7, <2>1 DEF Fits, InPlace
  <2>2. CASE n # 1
    <3>1. n \in 2 .. Len(u) /\ n \in 1 .. Len(s) /\ u[n] = s[n] /\ Ends(u) = Ends(s)
      BY <1>2, <1>5, <1>7, <2>2
    <3>2. InPlace(s[n].k, n, Len(s), Ends(s))
      BY <3>1 DEF Tidy
    <3>. QED
      BY <1>5, <3>1, <3>2
  <2>. QED
    BY <2>1, <2>2
<1>. QED
  BY <1>4, <1>5, <1>6, <1>7, <1>8

LEMMA StartIs ==
    ASSUME NEW resume \in BOOLEAN, NEW s, s = Start(resume)
    PROVE  /\ s \in Seq(Works) /\ s # <<>> /\ Tidy(s) /\ Ends(s) = "subscribe"
           /\ Head(s).k = (IF resume THEN "subscribe" ELSE "position")
           /\ Last(s).k = "subscribe" /\ Last(s).resume = resume
<1> DEFINE w == [k |-> "subscribe", resume |-> resume]
           v == [k |-> "position"]
<1>3. w \in Works /\ v \in Works
  BY DEF Works
<1>4. PICK b \in Seq(Works) : b = <<w>> /\ Len(b) = 1 /\ b[1] = w /\ Tidy(b)
                              /\ Ends(b) = "subscribe" /\ b # <<>> /\ Head(b) = w
  BY <1>3, OneIs
<1>5. w.k = "subscribe" /\ v.k = "position"
  OBVIOUS
<1>6. w.resume = resume
  BY Zenon
<1> HIDE DEF w, v, Works
<1>1. CASE resume
  <2>1. s = b
    BY <1>1, <1>4, ConcatEmptySeq, Zenon DEF Start, w
  <2>2. Last(s) = w
    BY <1>4, <2>1 DEF Last
  <2>3. Last(s).resume = resume /\ Last(s).k = "subscribe"
    BY <1>5, <1>6, <2>2, Zenon
  <2>4. Head(s).k = (IF resume THEN "subscribe" ELSE "position")
    BY <1>1, <1>4, <1>5, <2>1, Zenon
  <2>. QED
    BY <1>4, <2>1, <2>3, <2>4, Zenon
<1>2. CASE ~resume
  <2>1. PICK c \in Seq(Works) : c = <<v>> /\ Len(c) = 1 /\ c[1] = v
    BY <1>3, OneIs
  <2>2. s = c \o b
    BY <1>2, <1>4, <2>1, Zenon DEF Start, w, v
  <2>3. /\ s \in Seq(Works) /\ Len(s) = Len(c) + Len(b)
        /\ \A n \in 1 .. Len(c) + Len(b) : s[n] = IF n <= Len(c) THEN c[n] ELSE b[n - Len(c)]
    BY <2>2, ConcatProperties, ZenonT(30)
  <2>4. Len(s) = 2 /\ s[1] = v /\ s[2] = w /\ s # <<>>
    BY <1>4, <2>1, <2>3, EmptySeq
  <2>5. Ends(s) = "subscribe" /\ Head(s).k = "position" /\ Last(s) = w
    BY <1>5, <2>4 DEF Ends, Last
  <2>6. Tidy(s)
    BY <1>5, <2>4, <2>5 DEF Tidy, InPlace, First_, Loading, Relinking
  <2>. QED
    BY <1>2, <1>5, <1>6, <2>3, <2>4, <2>5, <2>6, Zenon
<1>. QED
  BY <1>1, <1>2

LEMMA AttemptsIs ==
    /\ Start(TRUE) # Start(FALSE)
    /\ \A task \in Attempts : /\ task \in Seq(Works) /\ task # <<>> /\ Tidy(task)
                              /\ Ends(task) = "subscribe"
                              /\ Head(task).k \in {"subscribe", "position"}
<1>1. PICK s, t : s = Start(TRUE) /\ t = Start(FALSE)
  OBVIOUS
<1>2. Head(s).k = "subscribe" /\ Head(t).k = "position"
  BY <1>1, StartIs
<1>3. \A r \in {s, t} : /\ r \in Seq(Works) /\ r # <<>> /\ Tidy(r)
                        /\ Ends(r) = "subscribe"
                        /\ Head(r).k \in {"subscribe", "position"}
  BY <1>1, StartIs
<1>. QED
  BY <1>1, <1>2, <1>3 DEF Attempts

LEMMA RetryIs ==
    ASSUME NEW task, Retry(task)
    PROVE  /\ task \in Seq(Works) /\ task # <<>> /\ Tidy(task) /\ Head(task) = task[1]
           /\ Ends(task) = Head(task).k /\ Len(task) = 1
           /\ Head(task).k \in {"rows", "members", "group", "reload"}
           /\ task \notin Attempts
<1> HIDE DEF Works
<1>1. /\ task \in Seq(Works) /\ task # <<>> /\ Tidy(task) /\ Head(task) = task[1]
      /\ Ends(task) = Head(task).k /\ Len(task) = 1
      /\ Head(task).k \in {"rows", "members", "group", "reload"}
  BY EmptySeq, SMTT(20) DEF Retry, Ends, Tidy, InPlace, First_, Loading, Relinking
<1>. QED
  BY <1>1, AttemptsIs

LEMMA WorkIs ==
    ASSUME NEW w \in Works
    PROVE  /\ w.k \in {"rows", "versions", "relinked", "flushed"} => w.position \in Nat
           /\ w.k \in {"members", "access", "loaded"} => w.keys \in IdSets
           /\ w.k = "loaded" => w.left \in IdSets
           /\ w.k \in Relinking => w.list \in Lists /\ w.id \in Ids
           /\ w.k = "relinked" => w.ids \in IdSets
           /\ w.k = "subscribe" => w.resume \in BOOLEAN
  BY DEF Works, Relinking

-----------------------------------------------------------------------------
(* What a step leaves as it was                                            *)

LEMMA SameRows ==
    ASSUME past' = past, log' = log
    PROVE  /\ End' = End /\ Now' = Now
           /\ \A t : At(t)' = At(t)
           /\ \A n, i : Since(n, i)' <=> Since(n, i)
  BY DEF End, Now, At, Since, Of, Holder, People

LEMMA SameContent ==
    ASSUME Content, past' = past, log' = log, swept' \in {swept, End}
    PROVE  Content'
<1>1. End' = End /\ End \in Nat /\ \A t : At(t)' = At(t)
  BY SameRows, RowsSound
<1>2. Log'
  BY <1>1 DEF Content, Log, End
<1>3. Grow' /\ Stay'
  BY <1>1, SameRows DEF Content, Grow, Stay, Now
<1>. QED
  BY <1>2, <1>3 DEF Content

LEMMA SameTruth ==
    ASSUME past' = past, log' = log, NEW m, NEW from, NEW mix, NEW free
    PROVE  /\ Names(m, from)' <=> Names(m, from)
           /\ Renders(m, from)' <=> Renders(m, from)
           /\ Kept(m, from, mix)' <=> Kept(m, from, mix)
           /\ Marks(m, from, free)' <=> Marks(m, from, free)
           /\ Truth(m, from, mix, free)' <=> Truth(m, from, mix, free)
<1>1. Now' = Now /\ End' = End /\ \A t : At(t)' = At(t)
  BY SameRows
<1>2. \A n, i : Since(n, i)' <=> Since(n, i)
  BY SameRows
<1>3. Names(m, from)' <=> Names(m, from)
  BY <1>1, <1>2 DEF Names
<1>4. Renders(m, from)' <=> Renders(m, from)
  BY <1>1, <1>2 DEF Renders
<1>5. Kept(m, from, mix)' <=> Kept(m, from, mix)
  BY <1>1, <1>2 DEF Kept
<1>6. \A l, j : Right(m, from, l, j)' <=> Right(m, from, l, j)
  BY <1>1 DEF Right
<1>7. Marks(m, from, free)' <=> Marks(m, from, free)
  BY <1>2, <1>6 DEF Marks
<1>. QED
  BY <1>3, <1>4, <1>5, <1>7 DEF Truth

LEMMA SameShape ==
    ASSUME Shape, todo' = todo, deferred' = deferred, live' = live, tasks' = tasks
    PROVE  Shape'
  BY DEF Shape, Starting, Doing

LEMMA SameQueued ==
    ASSUME Queued, past' = past, log' = log, inbox' = inbox, live' = live, read' = read,
           resync' = resync, \A w \in owed : w.k = "rows" => w \in owed'
    PROVE  Queued'
<1>1. End' = End /\ \A t : At(t)' = At(t)
  BY SameRows
<1>2. \A e, d : Named(e, d)' = Named(e, d)
  BY <1>1 DEF Named
<1>3. \A x : Sent(x)' <=> Sent(x)
  BY <1>1, <1>2 DEF Sent
<1>4. \A n : FullLoad(n) \in owed => FullLoad(n) \in owed'
  BY DEF FullLoad
<1>5. ASSUME NEW n, Follows(n) PROVE Follows(n)'
  BY <1>4, <1>5 DEF Follows
<1>. QED
  BY <1>1, <1>3, <1>4, <1>5 DEF Queued

LEMMA SameBefore ==
    ASSUME past' = past, log' = log, inbox' = inbox, live' = live, read' = read, resync' = resync,
           NEW p
    PROVE  Before(p)' <=> Before(p)
<1>1. End' = End
  BY SameRows
<1>. QED
  BY <1>1 DEF Before

LEMMA SameApplied ==
    ASSUME mirror'.position = mirror.position \/ live, inbox' = inbox, live' = live, read' = read,
           resync' = resync, live \in BOOLEAN
    PROVE  Applied' = Applied /\ (Aware' <=> Aware)
  BY DEF Applied, Aware

\* The draft of members, where what is noted in it stays true.
LEMMA MembersStay ==
    ASSUME DraftMembers, todo' = todo, draft' = draft,
           \A t \in 0 .. End : t \in 0 .. End' /\ (Lately(t) => Lately(t)'),
           \A t \in 0 .. End : \A x \in Ids : Shows(t, x) => Shows(t, x)'
    PROVE  DraftMembers'
<1>1. (\A k : Doing(k)' <=> Doing(k)) /\ Work' = Work
  BY DEF Doing, Work
<1>2. ASSUME Doing("access") PROVE Lately(draft.since)'
  <2>1. PICK since : since = draft.since /\ since = draft'.since
    OBVIOUS
  <2>2. Lately(since) /\ since \in 0 .. End
    BY <1>2, <2>1 DEF DraftMembers, Lately
  <2>3. Lately(since)'
    BY <2>2
  <2>. QED
    BY <2>1, <2>3 DEF Lately
<1>3. ASSUME Doing("loaded"), NEW k \in Work.keys
      PROVE  \E t \in 0 .. End' : Lately(t)' /\ Shows(t, draft.access[k].shown)'
  <2>1. PICK t \in 0 .. End : Lately(t) /\ Shows(t, draft.access[k].shown)
    BY <1>3 DEF DraftMembers
  <2>4. PICK x : x = draft.access[k].shown /\ x = draft'.access[k].shown
    OBVIOUS
  <2>2. Lately(t)' /\ t \in 0 .. End' /\ Shows(t, x)'
    BY <2>1, <2>4 DEF Shows
  <2>3. Shows(t, draft.access[k].shown)'
    BY <2>2, <2>4 DEF Shows
  <2>. QED
    BY <2>2, <2>3
<1>. QED
  BY <1>1, <1>2, <1>3 DEF DraftMembers

LEMMA SameShows ==
    ASSUME past' = past, log' = log
    PROVE  \A t, x : Shows(t, x)' <=> Shows(t, x)
<1> SUFFICES ASSUME NEW t, NEW x PROVE Shows(t, x)' <=> Shows(t, x)
  OBVIOUS
<1>1. First(At(t), x)' = First(At(t), x)
  BY DEF First, Of, Holder, People, At
<1>2. Since(t, x)' <=> Since(t, x)
  BY SameRows
<1>. QED
  BY <1>1, <1>2 DEF Shows

LEMMA SameDraft ==
    ASSUME past' = past, log' = log, todo' = todo, draft' = draft, live' = live, Applied' = Applied,
           Aware' => Aware, Lapsed(owed) => Lapsed(owed'), DraftRows, DraftPerson, DraftMembers
    PROVE  DraftRows' /\ DraftPerson' /\ DraftMembers'
<1>1. End' = End /\ \A t : At(t)' = At(t)
  BY SameRows
<1>2. \A t : Lately(t) => Lately(t)'
  BY <1>1 DEF Lately
<1>3. DraftRows'
  BY <1>1 DEF DraftRows, Doing, Work
<1>4. DraftPerson'
  BY <1>1, <1>2 DEF DraftPerson, Doing, Work
<1>5. DraftMembers'
  BY <1>1, <1>2, SameShows, MembersStay
<1>. QED
  BY <1>3, <1>4, <1>5

\* No step of a task is half done.
LEMMA NoDraft ==
    ASSUME todo' # <<>> => Head(todo').k \notin {"versions", "adopt", "access", "loaded"}
    PROVE  DraftRows' /\ DraftPerson' /\ DraftMembers' /\ Drafted'
  BY DEF DraftRows, DraftPerson, DraftMembers, Drafted, Doing

LEMMA SameSaved ==
    ASSUME Saved, past' = past, log' = log, file' = file
    PROVE  Saved'
<1>1. End' = End
  BY SameRows
<1>2. PICK m, from, mix, free : /\ m = file.mirror /\ from = file.mirror.position /\ mix = file.mixed
                                /\ free = Missed(file.owed, file.torn, file.mixed)
  OBVIOUS
<1>3. Truth(m, from, mix, free)' <=> Truth(m, from, mix, free)
  BY SameTruth
<1>4. Truth(file.mirror, file.mirror.position, file.mixed, Missed(file.owed, file.torn, file.mixed))
      => Truth(file.mirror, file.mirror.position, file.mixed, Missed(file.owed, file.torn, file.mixed))'
  BY <1>2, <1>3
<1>. QED
  BY <1>1, <1>4 DEF Saved

LEMMA MixedGrows ==
    ASSUME Unmixed, NoteMixed
    PROVE  /\ Unmixed' /\ (Mixed \subseteq mixed)'
           /\ DOMAIN mirror.people \subseteq DOMAIN mirror'.people => mixed \subseteq mixed'
<1>1. Unmixed'
  BY DEF Unmixed, NoteMixed, Mixed
<1>2. (Mixed \subseteq mixed)'
  BY DEF NoteMixed
<1>3. DOMAIN mirror.people \subseteq DOMAIN mirror'.people => mixed \subseteq mixed'
  BY DEF Unmixed, NoteMixed
<1>. QED
  BY <1>1, <1>2, <1>3

\* A new state is true of whom it keeps, as the mixed are noted.
LEMMA TruthNoted ==
    ASSUME Content', Whole(mirror'), Applied' \in 0 .. End', (Mixed \subseteq mixed)',
           NEW m, m = mirror', NEW from, from = Applied', NEW mix, mix = mixed', NEW free,
           Names(m, from)', Renders(m, from)', Marks(m, from, free)'
    PROVE  Truth(m, from, mix, free)'
<1>1. Kept(mirror, Applied, mixed)'
  BY MixedKept
<1>2. Kept(m, from, mix)'
  BY <1>1
<1>. QED
  BY <1>2 DEF Truth

LEMMA TruthMore ==
    ASSUME NEW m, NEW from, NEW mix, NEW more, mix \subseteq more, NEW free, NEW freer, free \subseteq freer,
           Truth(m, from, mix, free)
    PROVE  Truth(m, from, more, freer)
<1>1. Marks(m, from, freer)
  BY MarksFree DEF Truth
<1>2. Kept(m, from, more)
  BY DEF Truth, Kept
<1>. QED
  BY <1>1, <1>2 DEF Truth

\* The parts of a state that the truth is about.
Says(w, m) ==
    /\ w.people = m.people /\ w.rendered = m.rendered /\ w.ready = m.ready
    /\ w.marked = m.marked /\ w.known = m.known

LEMMA SaysTruth ==
    ASSUME NEW m, NEW w, Says(w, m), NEW from, NEW mix, NEW free, Truth(m, from, mix, free)
    PROVE  Truth(w, from, mix, free)
<1>1. Sets(w) = Sets(m)
  BY DEF Says, Sets
<1>2. Names(w, from) /\ Kept(w, from, mix)
  BY <1>1 DEF Truth, Names, Kept
<1>3. Renders(w, from)
  BY DEF Truth, Renders, Says
<1>4. Marks(w, from, free)
  BY DEF Truth, Marks, Right, Says
<1>. QED
  BY <1>2, <1>3, <1>4 DEF Truth

LEMMA SameHolds ==
    ASSUME Holds, past' = past, log' = log, Says(mirror', mirror), Applied' = Applied,
           Lapsed(owed) => Lapsed(owed'), mixed \subseteq mixed', Free \subseteq Free'
    PROVE  Holds'
<1> SUFFICES ASSUME ~Lapsed(owed'), mirror'.ready
             PROVE  Truth(mirror, Applied, mixed, Free)'
  BY DEF Holds
<1>1. PICK m, w, from, mix, more, free, freer :
          /\ m = mirror /\ w = mirror' /\ from = Applied /\ mix = mixed /\ more = mixed'
          /\ free = Free /\ freer = Free'
  OBVIOUS
<1>2. Truth(m, from, mix, free)
  BY <1>1 DEF Holds, Says
<1>3. Truth(m, from, more, freer)
  BY <1>1, <1>2, TruthMore
<1>4. Truth(w, from, more, freer)
  BY <1>1, <1>3, SaysTruth
<1>5. Truth(w, from, more, freer)'
  BY <1>4, SameTruth
<1>. QED
  BY <1>1, <1>5

\* A step of the applier alone.
LEMMA StreamStays ==
    ASSUME IInv, NoteMixed, UNCHANGED <<contentVars, streamVars, file>>,
           mirror'.position = mirror.position \/ live,
           \A w \in owed : w.k = "rows" => w \in owed'
    PROVE  /\ Content' /\ Queued' /\ Saved' /\ Unmixed' /\ (Mixed \subseteq mixed)'
           /\ Applied' = Applied /\ (Aware' <=> Aware)
           /\ Lapsed(owed) => Lapsed(owed')
           /\ \A p : Before(p)' <=> Before(p)
           /\ DOMAIN mirror.people \subseteq DOMAIN mirror'.people => mixed \subseteq mixed'
<1>1. past' = past /\ log' = log /\ swept' = swept /\ inbox' = inbox /\ live' = live /\ read' = read
      /\ resync' = resync /\ file' = file /\ live \in BOOLEAN
  BY DEF contentVars, streamVars, IInv, TypeOK
<1>2. Content' /\ Queued' /\ Saved'
  BY <1>1, SameContent, SameQueued, SameSaved DEF IInv
<1>3. Applied' = Applied /\ (Aware' <=> Aware)
  BY <1>1, SameApplied
<1>4. Lapsed(owed) => Lapsed(owed')
  BY DEF Lapsed
<1>5. ASSUME NEW p PROVE Before(p)' <=> Before(p)
  BY <1>1, SameBefore
<1>6. /\ Unmixed' /\ (Mixed \subseteq mixed)'
      /\ DOMAIN mirror.people \subseteq DOMAIN mirror'.people => mixed \subseteq mixed'
  BY MixedGrows DEF IInv
<1>. QED
  BY <1>2, <1>3, <1>4, <1>5, <1>6

\* The first step of a task is over.
LEMMA Tailed ==
    ASSUME TypeOK, Shape, ~Idle, Then(<<>>)
    PROVE  /\ Work \in Works /\ Work = todo[1]
           /\ todo' \in Seq(Works) /\ Tidy(todo')
           /\ todo' # <<>> => /\ Head(todo').k \notin First_ /\ Ends(todo') = Ends(todo)
                              /\ todo'[Len(todo')] = todo[Len(todo)]
           /\ todo' = <<>> => Ends(todo') = "nothing" /\ Ends(todo) = Work.k /\ todo[Len(todo)] = Work
           /\ Coming' \subseteq Coming
           /\ \A x \in Coming : x \in Coming' \/ (Work.k \in Relinking /\ x = <<Work.list, Work.id>>)
<1> HIDE DEF Works
<1>1. PICK s, u : s = todo /\ u = todo'
  OBVIOUS
<1>2. s \in Seq(Works) /\ s # <<>> /\ Tidy(s) /\ u = <<>> \o Tail(s)
  BY <1>1 DEF TypeOK, Shape, Then, Idle
<1>3. /\ Head(s) = s[1] /\ Len(s) \in Nat /\ Len(s) >= 1 /\ s[1] \in Works
      /\ u \in Seq(Works) /\ Len(u) = Len(s) - 1
      /\ \A n \in 1 .. Len(u) : u[n] = s[n + 1]
      /\ Tidy(u) /\ Ends(u) = (IF Len(s) = 1 THEN "nothing" ELSE Ends(s))
      /\ Len(s) = 1 <=> u = <<>>
      /\ u # <<>> => Head(u).k \notin First_
  BY <1>2, TailIs
<1>4. u # <<>> => Ends(u) = Ends(s) /\ u[Len(u)] = s[Len(s)]
  BY <1>3
<1>5. u = <<>> => Ends(u) = "nothing" /\ Ends(s) = s[1].k /\ s[Len(s)] = s[1]
  BY <1>2, <1>3 DEF Ends
<1>6. Coming' \subseteq Coming
  <2> SUFFICES ASSUME NEW x \in Coming' PROVE x \in Coming
    OBVIOUS
  <2>1. x \in Lists \X Ids /\ Ends(u) = "relinked"
    BY <1>1 DEF Coming
  <2>2. PICK n \in 1 .. Len(u) : u[n].k \in Relinking /\ u[n].list = x[1] /\ u[n].id = x[2]
    BY <1>1 DEF Coming
  <2>3. n + 1 \in 1 .. Len(s) /\ u[n] = s[n + 1] /\ Ends(s) = "relinked"
    BY <1>3, <2>1, <2>2
  <2>. QED
    BY <1>1, <2>1, <2>2, <2>3 DEF Coming
<1>7. ASSUME NEW x \in Coming PROVE x \in Coming' \/ (s[1].k \in Relinking /\ x = <<s[1].list, s[1].id>>)
  <2>1. x \in Lists \X Ids /\ Ends(s) = "relinked"
    BY <1>1 DEF Coming
  <2>2. PICK n \in 1 .. Len(s) : s[n].k \in Relinking /\ s[n].list = x[1] /\ s[n].id = x[2]
    BY <1>1 DEF Coming
  <2>3. CASE n = 1
    BY <2>1, <2>2, <2>3
  <2>4. CASE n # 1
    <3>1. n - 1 \in 1 .. Len(u) /\ u[n - 1] = s[n]
      BY <1>3, <2>4
    <3>2. Ends(u) = "relinked"
      BY <1>3, <2>1, <3>1
    <3>. QED
      BY <1>1, <2>1, <2>2, <3>1, <3>2 DEF Coming
  <2>. QED
    BY <2>3, <2>4
<1>. QED
  BY <1>1, <1>3, <1>4, <1>5, <1>6, <1>7 DEF Work

\* The first step of a task goes on as another.
LEMMA Replaced ==
    ASSUME TypeOK, Shape, ~Idle, NEW w \in Works, Fits(w, todo), Then(<<w>>),
           w.k \notin {"relinked", "flushed", "subscribe"},
           Ends(todo) = "relinked" => Work.k \in Relinking /\ w.list = Work.list /\ w.id = Work.id
    PROVE  /\ Work \in Works /\ Work = todo[1]
           /\ todo' \in Seq(Works) /\ Tidy(todo') /\ todo' # <<>> /\ Head(todo') = w
           /\ \/ Ends(todo') = Ends(todo) /\ todo'[Len(todo')] = todo[Len(todo)]
              \/ Ends(todo') = w.k /\ Ends(todo) = Work.k
           /\ Coming' = Coming
<1> HIDE DEF Works
<1>1. PICK s, u : s = todo /\ u = todo'
  OBVIOUS
<1>2. s \in Seq(Works) /\ s # <<>> /\ Tidy(s) /\ Fits(w, s) /\ u = Instead(w, s)
  BY <1>1 DEF TypeOK, Shape, Then, Idle, Instead
<1>3. /\ u \in Seq(Works) /\ Len(u) = Len(s) /\ u # <<>> /\ u[1] = w /\ Head(u) = w
      /\ \A n \in 2 .. Len(u) : u[n] = s[n]
      /\ Tidy(u) /\ Ends(u) = (IF Len(s) = 1 THEN w.k ELSE Ends(s))
  BY <1>2, NextIs
<1>4. Head(s) = s[1] /\ Len(s) \in Nat /\ Len(s) >= 1 /\ s[1] \in Works
  BY <1>2, TailIs
<1>5. \/ Ends(u) = Ends(s) /\ u[Len(u)] = s[Len(s)]
      \/ Ends(u) = w.k /\ Ends(s) = s[1].k
  BY <1>2, <1>3, <1>4 DEF Ends
<1>6. Coming' = Coming
  <2>1. CASE Ends(s) # "relinked"
    <3>1. Ends(u) # "relinked"
      BY <1>5, <2>1
    <3>. QED
      BY <1>1, <2>1, <3>1 DEF Coming
  <2>2. CASE Ends(s) = "relinked"
    <3>1. s[1].k \in Relinking /\ w.list = s[1].list /\ w.id = s[1].id
      BY <1>1, <1>4, <2>2 DEF Work
    <3>2. Len(s) # 1
      BY <1>2, <2>2, <3>1 DEF Ends, Relinking
    <3>3. Ends(u) = "relinked" /\ w.k \in Relinking
      BY <1>2, <1>3, <2>2, <3>2 DEF Fits
    <3>4. \A n \in 1 .. Len(s) : /\ u[n].k \in Relinking <=> s[n].k \in Relinking
                                 /\ s[n].k \in Relinking => u[n].list = s[n].list /\ u[n].id = s[n].id
      BY <1>3, <1>4, <3>1, <3>3
    <3>. QED
      BY <1>1, <1>3, <2>2, <3>3, <3>4 DEF Coming
  <2>. QED
    BY <2>1, <2>2
<1>. QED
  BY <1>1, <1>3, <1>4, <1>5, <1>6 DEF Work

LEMMA ShapeTask ==
    ASSUME Shape, todo # <<>>, live' = live, tasks' = tasks, deferred' = deferred, Tidy(todo'),
           Ends(todo') = Ends(todo) \/ Ends(todo') \notin {"subscribe", "relinked", "flushed"},
           Ends(todo) = "relinked" => todo' = <<>> \/ Ends(todo') = "relinked",
           todo' # <<>> => /\ Head(todo').k # "position"
                           /\ Head(todo').k \in Loading => /\ Head(todo).k \in Loading
                                                           /\ Ends(todo) = "subscribe" => Ends(todo') = "subscribe"
    PROVE  Shape'
  BY DEF Shape, Starting, Doing, Loading

\* A step of the applier that leaves what the mirror says of people.
LEMMA TaskKeeps ==
    ASSUME IInv, NoteMixed, UNCHANGED <<contentVars, streamVars, file>>,
           Says(mirror', mirror), mirror'.position = mirror.position \/ (live /\ Coming' = {}),
           TypeOK', Shape', Ahead', DraftRows', DraftPerson', DraftMembers', Drafted',
           \A w \in owed : w.k = "rows" => w \in owed',
           mixed \subseteq mixed' => Free \subseteq Free',
           Coming' \subseteq Coming,
           \A p : Upto(p) => Upto(p)'
    PROVE  IInv'
<1>1. /\ Content' /\ Queued' /\ Saved' /\ Unmixed' /\ (Mixed \subseteq mixed)'
      /\ Applied' = Applied /\ (Aware' <=> Aware)
      /\ Lapsed(owed) => Lapsed(owed')
      /\ DOMAIN mirror.people \subseteq DOMAIN mirror'.people => mixed \subseteq mixed'
  BY StreamStays
<1>2. past' = past /\ log' = log
  BY DEF contentVars
<1>3. mixed \subseteq mixed'
  BY <1>1 DEF Says
<1>4. Holds'
  BY <1>1, <1>2, <1>3, SameHolds DEF IInv
<1>5. End' = End
  BY <1>2, SameRows
<1>6. Places'
  BY <1>1, <1>5 DEF Places, IInv
<1>7. Unsettled'
  <2>1. \A n, i : Since(n, i)' <=> Since(n, i)
    BY <1>2, SameRows
  <2>. QED
    BY <1>1, <2>1 DEF Unsettled, IInv
<1>. QED
  BY <1>1, <1>4, <1>6, <1>7 DEF IInv

\* A step that goes on with its task.
LEMMA Following ==
    ASSUME mirror'.position = mirror.position, deferred' = deferred,
           Ends(todo') \in {"relinked", "flushed"} =>
               Ends(todo) = Ends(todo') /\ todo'[Len(todo')] = todo[Len(todo)]
    PROVE  \A p : Upto(p) => Upto(p)'
  BY DEF Upto

LEMMA SameAhead ==
    ASSUME Ahead, past' = past, log' = log, inbox' = inbox, live' = live, read' = read,
           resync' = resync,
           todo' # <<>> /\ Head(todo').k \in {"rows", "versions"} => Before(Head(todo').position),
           \A task \in tasks' : task \in tasks \/ (Head(task).k = "rows" => live /\ Before(Head(task).position))
    PROVE  Ahead'
<1>1. \A p : Before(p)' <=> Before(p)
  BY SameBefore
<1>. QED
  BY <1>1 DEF Ahead, Doing, Work

LEMMA MissedMore ==
    ASSUME NEW owes, NEW more, NEW t, NEW tt, NEW mix, NEW mm,
           \A w \in owes : w.k = "reload" => w \in more, t \subseteq tt, mix \subseteq mm
    PROVE  Missed(owes, t, mix) \subseteq Missed(more, tt, mm)
<1>1. \A l, i : Reload(l, i) \in owes => Reload(l, i) \in more
  BY DEF Reload
<1>. QED
  BY <1>1 DEF Missed

\* A step whose task goes on with another, and which changes the draft alone.
LEMMA GoesOn ==
    ASSUME IInv, NoteMixed, todo # <<>>, NEW w \in Works, Fits(w, todo), Then(<<w>>),
           w.k \notin {"relinked", "flushed", "subscribe", "position"},
           w.k \in Loading => Work.k \in Loading,
           Ends(todo) = "relinked" => Work.k \in Relinking /\ w.list = Work.list /\ w.id = Work.id,
           UNCHANGED <<contentVars, mirror, tasks, deferred, trackVars, streamVars, file, owed, torn>>,
           w.k \in {"rows", "versions"} => Before(w.position),
           todo' # <<>> /\ Head(todo') = w => DraftRows' /\ DraftPerson' /\ DraftMembers' /\ Drafted'
    PROVE  IInv'
<1> HIDE DEF Works
<1>1. UNCHANGED <<contentVars, streamVars, file>>
  OBVIOUS
<1>2. /\ past' = past /\ log' = log /\ inbox' = inbox /\ live' = live /\ read' = read /\ resync' = resync
      /\ file' = file /\ mirror' = mirror /\ tasks' = tasks /\ deferred' = deferred
      /\ loads' = loads /\ waiting' = waiting /\ owed' = owed /\ torn' = torn
  BY DEF contentVars, trackVars, streamVars
<1>3. TypeOK /\ Shape /\ ~Idle
  BY DEF IInv, Idle
<1>4. /\ todo' \in Seq(Works) /\ Tidy(todo') /\ todo' # <<>> /\ Head(todo') = w
      /\ \/ Ends(todo') = Ends(todo) /\ todo'[Len(todo')] = todo[Len(todo)]
         \/ Ends(todo') = w.k /\ Ends(todo) = Work.k
      /\ Coming' = Coming
  BY <1>3, Replaced
<1>5. TypeOK'
  BY <1>2, <1>3, <1>4 DEF TypeOK
<1>6. Ends(todo) = "relinked" => Ends(todo') = "relinked"
  BY <1>4 DEF Relinking
<1>7. w.k \in Loading /\ Ends(todo) = "subscribe" => Ends(todo') = "subscribe"
  BY <1>4 DEF Loading
<1>8. Shape'
  BY <1>2, <1>3, <1>4, <1>6, <1>7, ShapeTask DEF Work
<1>9. Ahead'
  BY <1>2, <1>4, SameAhead DEF IInv
<1>10. mixed \subseteq mixed' => Free \subseteq Free'
  BY <1>2, <1>4, MissedMore DEF Free
<1>11. Says(mirror', mirror) /\ mirror'.position = mirror.position /\ Places
  BY <1>2 DEF Says, IInv
<1>12. \A p : Upto(p) => Upto(p)'
  BY <1>2, <1>4, <1>11, Following
<1>. QED
  BY <1>1, <1>2, <1>4, <1>5, <1>8, <1>9, <1>10, <1>11, <1>12, TaskKeeps

\* A step that is the last of its request, and leaves what is said of people.
LEMMA GoesBy ==
    ASSUME IInv, NoteMixed, todo # <<>>, Then(<<>>), Work.k \notin Relinking,
           UNCHANGED <<contentVars, tasks, deferred, loads, streamVars, file, torn>>,
           Says(mirror', mirror), mirror'.position = mirror.position, Whole(mirror'), waiting' \in IdSets,
           \A w \in owed : w.k \in {"rows", "reload"} => w \in owed'
    PROVE  IInv'
<1> HIDE DEF Works
<1>1. UNCHANGED <<contentVars, streamVars, file>>
  OBVIOUS
<1>2. /\ past' = past /\ log' = log /\ inbox' = inbox /\ live' = live /\ read' = read /\ resync' = resync
      /\ file' = file /\ tasks' = tasks /\ deferred' = deferred /\ loads' = loads /\ torn' = torn
  BY DEF contentVars, streamVars
<1>3. TypeOK /\ Shape /\ ~Idle
  BY DEF IInv, Idle
<1>4. /\ todo' \in Seq(Works) /\ Tidy(todo')
      /\ todo' # <<>> => /\ Head(todo').k \notin First_ /\ Ends(todo') = Ends(todo)
                         /\ todo'[Len(todo')] = todo[Len(todo)]
      /\ todo' = <<>> => Ends(todo') = "nothing" /\ Ends(todo) = Work.k /\ todo[Len(todo)] = Work
      /\ Coming' \subseteq Coming
      /\ \A x \in Coming : x \in Coming' \/ (Work.k \in Relinking /\ x = <<Work.list, Work.id>>)
  BY <1>3, Tailed
<1>5. TypeOK'
  BY <1>2, <1>3, <1>4 DEF TypeOK
<1>6. Shape'
  BY <1>2, <1>3, <1>4, ShapeTask DEF First_, Loading
<1>7. Ahead'
  BY <1>2, <1>4, SameAhead DEF IInv, First_, Loading
<1>8. mixed \subseteq mixed' => Free \subseteq Free'
  BY <1>2, <1>4, MissedMore DEF Free
<1>9. \A p : Upto(p) => Upto(p)'
  BY <1>2, <1>4, Following DEF IInv
<1>10. DraftRows' /\ DraftPerson' /\ DraftMembers' /\ Drafted'
  BY <1>4, NoDraft DEF First_, Loading
<1>. QED
  BY <1>1, <1>4, <1>5, <1>6, <1>7, <1>8, <1>9, <1>10, TaskKeeps

LEMMA ReadPositionKeeps ==
    ASSUME IInv, ReadPosition, NoteMixed
    PROVE  IInv'
<1> HIDE DEF Works
<1>1. todo # <<>> /\ Work.k = "position" /\ Then(<<FullLoad(End)>>)
      /\ UNCHANGED <<contentVars, mirror, tasks, deferred, trackVars, streamVars, file, owed, torn>>
  BY DEF ReadPosition, Doing, Work
<1>2. Starting /\ ~live
  BY <1>1 DEF IInv, Shape, Doing, Work
<1>3. PICK w : w = FullLoad(End)
  OBVIOUS
<1>4. End \in Nat
  BY RowsSound DEF IInv
<1>5. w \in Works /\ w.k = "rows" /\ w.position = End
  BY <1>3, <1>4 DEF Works, FullLoad
<1>6. Fits(w, todo) /\ Before(w.position)
  BY <1>2, <1>4, <1>5 DEF Fits, Loading, Relinking, Starting, Before
<1>7. todo' # <<>> /\ Head(todo') = w => DraftRows' /\ DraftPerson' /\ DraftMembers' /\ Drafted'
  BY <1>5, NoDraft
<1>. QED
  BY <1>1, <1>2, <1>3, <1>5, <1>6, <1>7, GoesOn DEF Loading, Starting

LEMMA HeadIs ==
    ASSUME NEW s \in Seq(Works), s # <<>>, Tidy(s)
    PROVE  /\ Head(s) \in Works /\ InPlace(Head(s).k, 1, Len(s), Ends(s))
           /\ Len(s) = 1 => Ends(s) = Head(s).k
<1> HIDE DEF Works
<1>1. Head(s) = s[1] /\ Len(s) \in Nat /\ Len(s) >= 1 /\ s[1] \in Works
  <2>1. PICK u : u = <<>> \o Tail(s)
    OBVIOUS
  <2>. QED
    BY <2>1, TailIs
<1>2. InPlace(s[1].k, 1, Len(s), Ends(s))
  BY <1>1 DEF Tidy
<1>. QED
  BY <1>1, <1>2 DEF Ends

\* The applier is never ahead of the log.
LEMMA AppliedIs ==
    ASSUME Content, TypeOK, Queued
    PROVE  /\ End \in Nat /\ Applied \in Int
           /\ live => Applied <= read /\ Applied <= End /\ Applied = read - Len(inbox)
           /\ Len(inbox) \in Nat
<1>1. End \in Nat /\ read \in Nat /\ Len(inbox) \in Nat /\ mirror.position \in Nat
  BY RowsSound DEF TypeOK, Whole, States
<1>. QED
  BY <1>1 DEF Applied, Queued

\* Each statement of an answer reads at a position of its own.
Positions(since) ==
    {reads \in [ids : Nat, rows : Nat, roles : Nat, overrides : Nat, people : Nat] :
        /\ since <= reads.ids /\ reads.ids <= reads.rows
        /\ reads.rows <= reads.roles /\ reads.rows <= reads.overrides /\ reads.rows <= reads.people
        /\ reads.roles <= End /\ reads.overrides <= End /\ reads.people <= End}

LEMMA HangingIs ==
    ASSUME NEW s \in RowState, NEW id, NEW part \in Parts
    PROVE  Hanging(s, id, part) \in Nat
<1> DEFINE at == {p \in People : s.members[p].id = id}
<1>1. CASE at = {}
  BY <1>1 DEF Hanging
<1>2. CASE at # {}
  <2>1. PICK p \in Ids : p = CHOOSE x \in at : TRUE
    BY <1>2 DEF People
  <2>2. s.members[p] \in RowType
    BY MemberRowType
  <2>3. s.members[p].says[part] \in Nat
    BY <2>2 DEF RowType
  <2>. QED
    BY <1>2, <2>1, <2>3 DEF Hanging
<1>. QED
  BY <1>1, <1>2

\* What the statements found is a row, and an id that was shown when the people
\* were read, or of a person that a link has deleted since the ids were.
LEMMA FoundIs ==
    ASSUME Content, NEW since \in 0 .. End, NEW reads \in Positions(since), NEW k \in Ids
    PROVE  /\ Found(reads, k).row \in RowType
           /\ \E t \in since .. End : Shows(t, Found(reads, k).shown)
<1>1. PICK ids, rows, roles, overrides, people \in since .. End :
         /\ ids = reads.ids /\ rows = reads.rows /\ roles = reads.roles
         /\ overrides = reads.overrides /\ people = reads.people
         /\ ids <= people
  BY RowsSound DEF Positions
<1>2. /\ \A n \in since .. End : n \in 0 .. End /\ SoundRows(At(n)) /\ At(n) \in RowState
      /\ End \in Nat
  BY RowsSound DEF SoundRows
<1>3. PICK p \in Ids : p = Holder(At(ids), k)
  BY <1>1, <1>2, HolderIs
<1>4. Found(reads, k).row \in RowType
  <2>1. PICK row \in RowType :
          row = IF At(ids).group = 0 \/ Merged(p, ids, rows) THEN NoRow ELSE At(rows).members[p]
    <3>1. At(rows).members[p] \in RowType /\ NoRow \in RowType
      BY <1>2, MemberRowType, RowTypes
    <3>. QED
      BY <3>1
  <2>2. PICK says : says = [status |-> row.says.status, roles |-> Hanging(At(roles), row.id, "roles"),
                            overrides |-> Hanging(At(overrides), row.id, "overrides")]
    OBVIOUS
  <2>3. Found(reads, k).row = IF row = NoRow THEN NoRow ELSE [row EXCEPT !.says = says]
    BY <1>1, <1>3, <2>1, <2>2 DEF Found
  <2>4. row.says.status \in Nat /\ Hanging(At(roles), row.id, "roles") \in Nat
        /\ Hanging(At(overrides), row.id, "overrides") \in Nat
    <3>1. "status" \in Parts /\ "roles" \in Parts /\ "overrides" \in Parts
      BY DEF Parts
    <3>2. row.says \in [Parts -> Nat]
      BY DEF RowType
    <3>. QED
      BY <1>2, <3>1, <3>2, HangingIs
  <2>5. says \in [Parts -> Nat]
    BY <2>2, <2>4 DEF Parts
  <2>6. [row EXCEPT !.says = says] \in RowType
    BY <2>5 DEF RowType
  <2>. QED
    BY <2>3, <2>6, RowTypes
<1>5. CASE Merged(p, ids, people)
  <2>1. PICK n \in ids .. people : At(n).ids[p] = <<>>
    BY <1>5 DEF Merged
  <2>2. Found(reads, k).shown = k
    BY <1>1, <1>3, <1>5 DEF Found
  <2>3. n \in ids .. End /\ ids \in 0 .. End
    BY <1>1, <1>2, <2>1
  <2>4. ~Since(ids, k)
    <3>1. SUFFICES ASSUME Since(ids, k) PROVE FALSE
      OBVIOUS
    <3>2. Holder(At(n), k) = Holder(Now, k) /\ Holder(At(ids), k) = Holder(Now, k)
      <4>1. ids \in ids .. End
        BY <2>3, <1>2
      <4>. QED
        BY <2>3, <3>1, <4>1, SinceIs
    <3>3. n \in 0 .. End
      BY <2>3, <1>2
    <3>4. SoundRows(At(n))
      BY <3>3, RowsSound
    <3>5. Of(At(n), k) # <<>>
      BY <3>4, HolderIs
    <3>. QED
      BY <1>3, <2>1, <3>2, <3>5 DEF Of
  <2>5. Shows(ids, k)
    BY <2>4 DEF Shows
  <2>. QED
    BY <1>1, <1>4, <2>2, <2>5
<1>6. CASE ~Merged(p, ids, people)
  <2>1. Found(reads, k).shown = Shown(At(people), p)
    BY <1>1, <1>3, <1>6 DEF Found
  <2>2. people \in ids .. people
    BY <1>1, <1>2
  <2>3. At(people).ids[p] # <<>>
    BY <1>6, <2>2 DEF Merged
  <2>4. PICK x \in Ids : x = Shown(At(people), p) /\ First(At(people), x) = x
    BY <1>2, <2>3, ShownFirst
  <2>5. Shows(people, x)
    BY <2>4 DEF Shows
  <2>. QED
    BY <1>1, <1>4, <2>1, <2>4, <2>5
<1>. QED
  BY <1>5, <1>6

LEMMA ReadRowsKeeps ==
    ASSUME IInv, ReadRows, NoteMixed
    PROVE  IInv'
<1> HIDE DEF Works
<1>1. PICK w : w = [k |-> "versions", position |-> Work.position]
  OBVIOUS
<1>2. todo # <<>> /\ Work.k = "rows" /\ Then(<<w>>)
      /\ UNCHANGED <<contentVars, mirror, tasks, deferred, trackVars, streamVars, file, owed, torn>>
  BY <1>1 DEF ReadRows, Doing, Work
<1>3. /\ draft'.group = (IF mirror.group # 0 THEN Now.group ELSE 0)
      /\ draft'.marked = Now.marked /\ draft'.version = Now.version
  BY DEF ReadRows
<1>4. Work \in Works /\ InPlace(Work.k, 1, Len(todo), Ends(todo)) /\ Before(Work.position)
      /\ Work.position \in Nat
  <2>1. todo \in Seq(Works) /\ Tidy(todo)
    BY DEF IInv, TypeOK, Shape
  <2>2. Head(todo) \in Works /\ InPlace(Head(todo).k, 1, Len(todo), Ends(todo))
    BY <1>2, <2>1, HeadIs
  <2>. QED
    BY <1>2, <2>2, WorkIs DEF Work, IInv, Ahead, Doing
<1>5. w \in Works /\ w.k = "versions" /\ w.position = Work.position
  BY <1>1, <1>4 DEF Works
<1>6. Fits(w, todo) /\ Ends(todo) # "relinked"
  BY <1>2, <1>4, <1>5 DEF Fits, InPlace, Loading, Relinking, Ends, Work
<1>7. ASSUME todo' # <<>>, Head(todo') = w
      PROVE  DraftRows' /\ DraftPerson' /\ DraftMembers' /\ Drafted'
  <2>1. past' = past /\ log' = log /\ live' = live /\ Applied' = Applied /\ (live => Applied <= End)
    BY <1>2, SameApplied, AppliedIs DEF contentVars, streamVars, IInv, TypeOK
  <2>2. End' = End /\ Now' = Now /\ (\A t : At(t)' = At(t)) /\ End \in 0 .. End /\ Now = At(End)
        /\ Now \in RowState
    BY <2>1, SameRows, RowsSound DEF IInv, SoundRows
  <2>3. ~live => Work.position <= End
    BY <1>4 DEF Before
  <2>4. draft'.group \in Nat
    BY <1>3, <2>2 DEF RowState
  <2>5. Doing("versions")' /\ Work' = w /\ ~Doing("adopt")' /\ ~Doing("access")' /\ ~Doing("loaded")'
    BY <1>5, <1>7 DEF Doing, Work
  <2>6. DraftRows'
    BY <1>3, <1>5, <2>1, <2>2, <2>3, <2>4, <2>5 DEF DraftRows
  <2>. QED
    BY <2>5, <2>6 DEF DraftPerson, DraftMembers, Drafted
<1>. QED
  BY <1>2, <1>4, <1>5, <1>6, <1>7, GoesOn DEF Loading

LEMMA ReadMembersKeeps ==
    ASSUME IInv, ReadMembers, NoteMixed
    PROVE  IInv'
<1> HIDE DEF Works
<1> DEFINE keys == Work.keys \cap DOMAIN mirror.members
<1>1. PICK w : w = [k |-> "access", keys |-> keys]
  OBVIOUS
<1>2. todo # <<>> /\ Work.k = "members" /\ draft' = (IF keys = {} THEN <<>> ELSE [since |-> End])
      /\ UNCHANGED <<contentVars, mirror, tasks, deferred, trackVars, streamVars, file, owed, torn>>
  BY DEF ReadMembers, Doing, Work
<1>3. Work \in Works /\ InPlace(Work.k, 1, Len(todo), Ends(todo)) /\ (Len(todo) = 1 => Ends(todo) = Work.k)
      /\ keys \in IdSets
  <2>1. todo \in Seq(Works) /\ Tidy(todo)
    BY DEF IInv, TypeOK, Shape
  <2>2. Head(todo) \in Works /\ InPlace(Head(todo).k, 1, Len(todo), Ends(todo))
        /\ (Len(todo) = 1 => Ends(todo) = Head(todo).k)
    BY <1>2, <2>1, HeadIs
  <2>. QED
    BY <1>2, <2>2, WorkIs DEF Work, IdSets
<1>4. CASE keys = {}
  <2>1. Then(<<>>)
    BY <1>4 DEF ReadMembers
  <2>2. Says(mirror', mirror) /\ mirror'.position = mirror.position /\ Whole(mirror') /\ waiting' \in IdSets
        /\ UNCHANGED <<contentVars, tasks, deferred, loads, streamVars, file, torn>>
    BY <1>2 DEF Says, IInv, TypeOK, trackVars
  <2>. QED
    BY <1>2, <2>1, <2>2, GoesBy DEF Relinking
<1>5. CASE keys # {}
  <2>1. Then(<<w>>)
    BY <1>1, <1>5 DEF ReadMembers
  <2>2. w \in Works /\ w.k = "access" /\ w.keys = keys
    BY <1>1, <1>3 DEF Works
  <2>3. Fits(w, todo) /\ Ends(todo) # "relinked"
    BY <1>2, <1>3, <2>2 DEF Fits, InPlace, Loading, Relinking
  <2>4. ASSUME todo' # <<>>, Head(todo') = w
        PROVE  DraftRows' /\ DraftPerson' /\ DraftMembers' /\ Drafted'
    <3>1. Doing("access")' /\ Work' = w /\ ~Doing("adopt")' /\ ~Doing("versions")' /\ ~Doing("loaded")'
      BY <2>2, <2>4 DEF Doing, Work
    <3>2. past' = past /\ log' = log /\ Applied' = Applied /\ owed' = owed
      BY <1>2, SameApplied DEF contentVars, streamVars, IInv, TypeOK
    <3>3. draft'.since = End /\ End \in 0 .. End /\ End' = End
      BY <1>2, <1>5, <3>2, SameRows, RowsSound DEF IInv
    <3>5. Lately(End)'
      BY <3>2, <3>3 DEF Lately, IInv, Places
    <3>4. DraftMembers'
      BY <3>1, <3>3, <3>5 DEF DraftMembers
    <3>. QED
      BY <3>1, <3>4 DEF DraftPerson, DraftRows, Drafted
  <2>. QED
    BY <1>2, <2>1, <2>2, <2>3, <2>4, GoesOn DEF Loading
<1>. QED
  BY <1>4, <1>5

LEMMA ReadAccessKeeps ==
    ASSUME IInv, ReadAccess, NoteMixed
    PROVE  IInv'
<1> HIDE DEF Works
<1>1. PICK w : w = [k |-> "loaded", keys |-> Work.keys, left |-> Work.keys]
  OBVIOUS
<1>2. todo # <<>> /\ Work.k = "access" /\ Then(<<w>>)
      /\ UNCHANGED <<contentVars, mirror, tasks, deferred, trackVars, streamVars, file, owed, torn>>
  BY <1>1 DEF ReadAccess, Doing, Work
<1>3. Work \in Works /\ InPlace(Work.k, 1, Len(todo), Ends(todo)) /\ (Len(todo) = 1 => Ends(todo) = Work.k)
      /\ Work.keys \in IdSets /\ Lately(draft.since)
  <2>1. todo \in Seq(Works) /\ Tidy(todo)
    BY DEF IInv, TypeOK, Shape
  <2>2. Head(todo) \in Works /\ InPlace(Head(todo).k, 1, Len(todo), Ends(todo))
        /\ (Len(todo) = 1 => Ends(todo) = Head(todo).k)
    BY <1>2, <2>1, HeadIs
  <2>. QED
    BY <1>2, <2>2, WorkIs DEF Work, IInv, DraftMembers, Doing
<1>4. w \in Works /\ w.k = "loaded" /\ w.keys = Work.keys /\ w.left = Work.keys
  BY <1>1, <1>3 DEF Works
<1>5. Fits(w, todo) /\ Ends(todo) # "relinked"
  BY <1>2, <1>3, <1>4 DEF Fits, InPlace, Loading, Relinking
<1>8. PICK since \in 0 .. End : since = draft.since /\ Lately(since)
  BY <1>3 DEF Lately
<1>9. PICK reads \in Positions(since) :
        draft' = [edit |-> mirror, access |-> [k \in Work.keys |-> Found(reads, k)]]
  <2>4. \E ids, rows, roles, overrides, people \in draft.since .. End :
          /\ ids <= rows /\ \A n \in {roles, overrides, people} : rows <= n
          /\ draft' = [edit |-> mirror,
                       access |-> [k \in Work.keys |->
                           Found([ids |-> ids, rows |-> rows, roles |-> roles,
                                  overrides |-> overrides, people |-> people], k)]]
    BY <1>8, Zenon DEF ReadAccess
  <2>5. since .. End = draft.since .. End
    BY <1>8
  <2>1. PICK ids, rows, roles, overrides, people \in since .. End :
          /\ ids <= rows /\ \A n \in {roles, overrides, people} : rows <= n
          /\ draft' = [edit |-> mirror,
                       access |-> [k \in Work.keys |->
                           Found([ids |-> ids, rows |-> rows, roles |-> roles,
                                  overrides |-> overrides, people |-> people], k)]]
    BY <2>4, <2>5, Zenon
  <2>2. PICK reads : reads = [ids |-> ids, rows |-> rows, roles |-> roles,
                              overrides |-> overrides, people |-> people]
    OBVIOUS
  <2>3. reads \in Positions(since)
    BY <2>1, <2>2, RowsSound DEF Positions, IInv
  <2>. QED
    BY <2>1, <2>2, <2>3
<1>6. /\ draft'.edit = mirror /\ DOMAIN draft' = {"edit", "access"}
      /\ \A k \in Work.keys : draft'.access[k] = Found(reads, k)
  BY <1>9
<1>7. ASSUME todo' # <<>>, Head(todo') = w
      PROVE  DraftRows' /\ DraftPerson' /\ DraftMembers' /\ Drafted'
  <2>1. past' = past /\ log' = log /\ live' = live /\ Applied' = Applied /\ mirror' = mirror
        /\ (Aware' <=> Aware) /\ owed' = owed
    BY <1>2, SameApplied DEF contentVars, streamVars, IInv, TypeOK
  <2>2. End' = End /\ (\A t : At(t)' = At(t)) /\ End \in 0 .. End /\ Now = At(End) /\ SoundRows(Now)
    BY <2>1, SameRows, RowsSound DEF IInv
  <2>3. Doing("loaded")' /\ Work' = w /\ ~Doing("adopt")' /\ ~Doing("versions")' /\ ~Doing("access")'
    BY <1>4, <1>7 DEF Doing, Work
  <2>4. \A t \in since .. End : t \in 0 .. End' /\ Lately(t)'
    BY <1>8, <2>1, <2>2 DEF Lately, IInv, Places
  <2>8. \A t, x : Shows(t, x)' <=> Shows(t, x)
    BY <2>1, SameShows
  <2>5. ASSUME NEW k \in Work.keys
        PROVE  /\ draft'.access[k].row \in RowType
               /\ \E t \in 0 .. End' : Lately(t)' /\ Shows(t, draft.access[k].shown)'
    <3>1. k \in Ids
      BY <1>3 DEF IdSets
    <3>2. PICK access : access = draft'.access[k] /\ access = Found(reads, k)
      BY <1>6
    <3>3. access.row \in RowType /\ \E t \in since .. End : Shows(t, access.shown)
      BY <3>1, <3>2, FoundIs DEF IInv
    <3>4. PICK t \in since .. End : Shows(t, access.shown)
      BY <3>3
    <3>5. PICK x : x = access.shown /\ x = draft'.access[k].shown
      BY <3>2
    <3>6. Shows(t, x)'
      BY <2>8, <3>4, <3>5
    <3>7. Shows(t, draft.access[k].shown)'
      BY <3>5, <3>6 DEF Shows
    <3>. QED
      BY <2>4, <3>2, <3>3, <3>7
  <2>6. DraftMembers'
    BY <1>4, <1>6, <2>1, <2>2, <2>3, <2>4, <2>5 DEF DraftMembers, IInv, TypeOK
  <2>7. Drafted'
    <3> SUFFICES ASSUME ~Lapsed(owed'), mirror'.ready
                 PROVE  Names(draft.edit, Applied)' /\ Renders(draft.edit, Applied)'
      BY <1>6, <2>1, <2>3 DEF Drafted, Alike
    <3>1. PICK m, from, mix, free : m = mirror /\ from = Applied /\ mix = mixed /\ free = Free
      OBVIOUS
    <3>2. Truth(m, from, mix, free)
      BY <2>1, <3>1 DEF IInv, Holds
    <3>3. Names(m, from)' /\ Renders(m, from)'
      BY <2>1, <3>2, SameTruth DEF Truth
    <3>. QED
      BY <1>6, <2>1, <3>1, <3>3
  <2>. QED
    BY <2>3, <2>6, <2>7 DEF DraftRows, DraftPerson
<1>. QED
  BY <1>2, <1>4, <1>5, <1>7, GoesOn DEF Loading

LEMMA ReadPersonKeeps ==
    ASSUME IInv, ReadPerson, NoteMixed
    PROVE  IInv'
<1> HIDE DEF Works
<1>1. PICK w : w = [Work EXCEPT !.k = "adopt"]
  OBVIOUS
<1>2. todo # <<>> /\ Work.k = "reload" /\ Then(<<w>>)
      /\ UNCHANGED <<contentVars, mirror, tasks, deferred, trackVars, streamVars, file, owed, torn>>
  BY <1>1 DEF ReadPerson, Doing, Work
<1>3. Work \in Works /\ InPlace(Work.k, 1, Len(todo), Ends(todo)) /\ (Len(todo) = 1 => Ends(todo) = Work.k)
  <2>1. todo \in Seq(Works) /\ Tidy(todo)
    BY DEF IInv, TypeOK, Shape
  <2>. QED
    BY <1>2, <2>1, HeadIs DEF Work
<1>4. Work \in [k : {"reload", "adopt"}, list : Lists, id : Ids]
  BY <1>2, <1>3 DEF Works
<1>5. w \in Works /\ w.k = "adopt" /\ w.list = Work.list /\ w.id = Work.id
      /\ Work.list \in Lists /\ Work.id \in Ids
  BY <1>1, <1>4 DEF Works
<1>6. Fits(w, todo)
  BY <1>2, <1>3, <1>5 DEF Fits, InPlace, Loading, Relinking
<1>7. draft'.person = Holder(Now, Work.id) /\ draft'.version = Now.version[draft'.person]
  BY DEF ReadPerson
<1>8. draft'.on = (draft'.person \in Now.marked[Work.list])
  BY DEF ReadPerson
<1>9. ASSUME todo' # <<>>, Head(todo') = w
      PROVE  DraftRows' /\ DraftPerson' /\ DraftMembers' /\ Drafted'
  <2>1. past' = past /\ log' = log /\ live' = live /\ Applied' = Applied /\ owed' = owed
    BY <1>2, SameApplied DEF contentVars, streamVars, IInv, TypeOK
  <2>2. End' = End /\ (\A t : At(t)' = At(t)) /\ End \in 0 .. End /\ Now = At(End)
    BY <2>1, SameRows, RowsSound DEF IInv
  <2>3. Doing("adopt")' /\ Work' = w /\ ~Doing("loaded")' /\ ~Doing("versions")' /\ ~Doing("access")'
    BY <1>5, <1>9 DEF Doing, Work
  <2>8. PICK n : n = End
    OBVIOUS
  <2>4. Lately(n)'
    BY <2>1, <2>2, <2>8 DEF Lately, IInv, Places
  <2>5. At(n)' = Now /\ n \in 0 .. End'
    BY <2>2, <2>8
  <2>6. \E t \in 0 .. End' :
            /\ Lately(t)'
            /\ draft'.person = Holder(At(t)', w.id)
            /\ draft'.on = (draft'.person \in At(t)'.marked[w.list])
            /\ draft'.version = At(t)'.version[draft'.person]
    <3>1. draft'.person = Holder(At(n)', w.id) /\ draft'.version = At(n)'.version[draft'.person]
      BY <1>5, <1>7, <2>5
    <3>2. draft'.on = (draft'.person \in At(n)'.marked[w.list])
      BY <1>5, <1>8, <2>5, Zenon
    <3>. QED
      BY <2>4, <2>5, <3>1, <3>2, Zenon
  <2>7. DraftPerson'
    BY <2>3, <2>6, Zenon DEF DraftPerson
  <2>. QED
    BY <2>3, <2>7 DEF DraftRows, DraftMembers, Drafted
<1>. QED
  BY <1>2, <1>5, <1>6, <1>9, GoesOn DEF Loading, Relinking

LEMMA ReadGroupKeeps ==
    ASSUME IInv, ReadGroup, NoteMixed
    PROVE  IInv'
<1>1. todo # <<>> /\ Work.k = "group" /\ Then(<<>>) /\ owed' = owed \ {LoadGroup}
      /\ UNCHANGED <<contentVars, tasks, deferred, trackVars, streamVars, file, torn>>
  BY DEF ReadGroup, Doing, Work
<1>2. Whole(mirror) /\ mirror \in States /\ Now.group \in Nat
  BY RowsSound DEF IInv, TypeOK, Whole, SoundRows, RowState
<1>3. /\ mirror' \in States /\ Says(mirror', mirror) /\ mirror'.position = mirror.position
  <2>1. CASE Now.group = 0
    <3>1. Nothing \in Maps([loaded : BOOLEAN, row : RowType])
      BY MapsIs DEF Nothing
    <3>2. mirror' = [mirror EXCEPT !.group = 0, !.members = Nothing]
      BY <2>1 DEF ReadGroup, WithoutGroup
    <3>. QED
      BY <1>2, <3>1, <3>2 DEF States, Says
  <2>2. CASE Now.group # 0
    <3>1. mirror' = [mirror EXCEPT !.group = Now.group]
      BY <2>2 DEF ReadGroup
    <3>. QED
      BY <1>2, <3>1 DEF States, Says
  <2>. QED
    BY <2>1, <2>2
<1>4. Whole(mirror')
  BY <1>2, <1>3 DEF Whole, Says
<1>5. waiting' \in IdSets /\ loads' = loads
  BY <1>1 DEF trackVars, IInv, TypeOK
<1>6. \A w \in owed : w.k \in {"rows", "reload"} => w \in owed'
  BY <1>1 DEF LoadGroup
<1>. QED
  BY <1>1, <1>3, <1>4, <1>5, <1>6, GoesBy DEF Relinking

\* A step of the applier after which the mirror says something else of people.
LEMMA TruthKeep ==
    ASSUME IInv, NoteMixed, UNCHANGED <<contentVars, streamVars, file>>,
           NEW w, w = mirror', w.position = mirror.position, w.ready = mirror.ready,
           DOMAIN mirror.people \subseteq DOMAIN w.people, NEW free, free = Free',
           ~Lapsed(owed) /\ mirror.ready /\ mixed \subseteq mixed' =>
               Names(w, Applied) /\ Renders(w, Applied) /\ Marks(w, Applied, free),
           TypeOK', Shape', Ahead', DraftRows', DraftPerson', DraftMembers', Drafted',
           \A x \in owed : x.k = "rows" => x \in owed',
           Coming' \subseteq Coming,
           \A p : Upto(p) => Upto(p)'
    PROVE  IInv'
<1>1. mirror'.position = mirror.position /\ mirror'.ready = mirror.ready
  OBVIOUS
<1>2. /\ Content' /\ Queued' /\ Saved' /\ Unmixed' /\ (Mixed \subseteq mixed)'
      /\ Applied' = Applied /\ (Aware' <=> Aware)
      /\ Lapsed(owed) => Lapsed(owed')
      /\ mixed \subseteq mixed'
  BY <1>1, StreamStays
<1>3. past' = past /\ log' = log
  BY DEF contentVars
<1>4. End' = End /\ \A n, i : Since(n, i)' <=> Since(n, i)
  BY <1>3, SameRows
<1>5. Holds'
  <2> SUFFICES ASSUME ~Lapsed(owed'), mirror'.ready
               PROVE  Truth(mirror, Applied, mixed, Free)'
    BY DEF Holds
  <2>1. ~Lapsed(owed) /\ mirror.ready /\ Applied \in 0 .. End
    BY <1>1, <1>2 DEF IInv, Places
  <2>2. PICK from, mix : from = Applied /\ mix = mixed'
    OBVIOUS
  <2>3. Names(w, from) /\ Renders(w, from) /\ Marks(w, from, free)
    BY <1>2, <2>1, <2>2
  <2>4. Names(w, from)' /\ Renders(w, from)' /\ Marks(w, from, free)'
    BY <1>3, <2>3, SameTruth
  <2>5. Whole(mirror') /\ Applied' \in 0 .. End' /\ from = Applied'
    BY <1>2, <1>4, <2>1, <2>2 DEF TypeOK
  <2>6. Truth(w, from, mix, free)'
    BY <1>2, <2>2, <2>4, <2>5, TruthNoted
  <2>. QED
    BY <1>2, <2>2, <2>6
<1>6. Places'
  BY <1>1, <1>2, <1>4 DEF Places, IInv
<1>7. Unsettled'
  BY <1>1, <1>2, <1>4 DEF Unsettled, IInv
<1>. QED
  BY <1>2, <1>5, <1>6, <1>7 DEF IInv

\* One after which it says something else of who people are.
LEMMA PeopleKeep ==
    ASSUME IInv, NoteMixed, UNCHANGED <<contentVars, streamVars, file>>,
           NEW w, w = mirror', Alike(w, mirror), DOMAIN mirror.people \subseteq DOMAIN w.people,
           ~Lapsed(owed) /\ mirror.ready => Names(w, Applied) /\ Renders(w, Applied),
           TypeOK', Shape', Ahead', DraftRows', DraftPerson', DraftMembers', Drafted',
           \A x \in owed : x.k = "rows" => x \in owed',
           mixed \subseteq mixed' => Free \subseteq Free',
           Coming' \subseteq Coming,
           \A p : Upto(p) => Upto(p)'
    PROVE  IInv'
<1>1. PICK m, from, free, freer : m = mirror /\ from = Applied /\ free = Free /\ freer = Free'
  OBVIOUS
<1>2. ASSUME ~Lapsed(owed), mirror.ready, mixed \subseteq mixed'
      PROVE  Marks(w, from, freer)
  <2>1. Marks(m, from, free) /\ free \subseteq freer
    BY <1>1, <1>2 DEF IInv, Holds, Truth
  <2>2. Marks(m, from, freer)
    BY <2>1, MarksFree
  <2>. QED
    BY <1>1, <2>2, TruthParts DEF Alike
<1>3. ~Lapsed(owed) /\ mirror.ready /\ mixed \subseteq mixed' =>
          Names(w, Applied) /\ Renders(w, Applied) /\ Marks(w, Applied, freer)
  BY <1>1, <1>2
<1>4. w.position = mirror.position /\ w.ready = mirror.ready
  BY DEF Alike
<1>. QED
  BY <1>1, <1>3, <1>4, TruthKeep

LEMMA ApplyLoadedKeeps ==
    ASSUME IInv, ApplyLoaded, NoteMixed
    PROVE  IInv'
<1> HIDE DEF Works
<1>1. todo # <<>> /\ Work.k = "loaded" /\ Doing("loaded")
      /\ UNCHANGED <<contentVars, tasks, deferred, loads, streamVars, file, torn>>
  BY DEF ApplyLoaded, Doing, Work
<1>2. /\ past' = past /\ log' = log /\ inbox' = inbox /\ live' = live /\ read' = read /\ resync' = resync
      /\ file' = file /\ tasks' = tasks /\ deferred' = deferred /\ loads' = loads /\ torn' = torn
  BY <1>1 DEF contentVars, streamVars
<1>3. PICK k \in Work.left :
          LET m == WithLoaded(draft.edit, k, draft.access[k])
          IN  IF Work.left = {k}
              THEN /\ mirror' = m /\ draft' = <<>>
                   /\ Then(<<>>)
                   /\ waiting' = waiting \ Work.keys
                   /\ owed' = owed \ {LoadMembers({x}) : x \in Work.keys}
              ELSE /\ draft' = [draft EXCEPT !.edit = m]
                   /\ Then(<<[Work EXCEPT !.left = @ \ {k}]>>)
                   /\ UNCHANGED <<mirror, waiting, owed>>
  BY DEF ApplyLoaded
<1>4. Work \in Works /\ InPlace(Work.k, 1, Len(todo), Ends(todo)) /\ (Len(todo) = 1 => Ends(todo) = Work.k)
      /\ Work.keys \in IdSets
  <2>1. todo \in Seq(Works) /\ Tidy(todo)
    BY DEF IInv, TypeOK, Shape
  <2>2. Head(todo) \in Works /\ InPlace(Head(todo).k, 1, Len(todo), Ends(todo))
        /\ (Len(todo) = 1 => Ends(todo) = Head(todo).k)
    BY <1>1, <2>1, HeadIs
  <2>. QED
    BY <1>1, <2>2, WorkIs DEF Work
<1>5. PICK edit, access : edit = draft.edit /\ access = draft.access[k]
  OBVIOUS
<1>6. Whole(edit) /\ Work.left \subseteq Work.keys /\ k \in Ids /\ access.row \in RowType
  BY <1>1, <1>3, <1>4, <1>5 DEF IInv, DraftMembers, IdSets
<1>7. PICK t \in 0 .. End : Lately(t) /\ Shows(t, access.shown)
  BY <1>1, <1>3, <1>5, <1>6 DEF IInv, DraftMembers
<1>8. PICK from \in 0 .. End : t \in from .. End /\ (~Lapsed(owed) => from = Applied)
  <2>1. CASE Lapsed(owed)
    BY <2>1
  <2>2. CASE ~Lapsed(owed)
    BY <1>7, <2>2 DEF Lately, IInv, Places
  <2>. QED
    BY <2>1, <2>2
<1>9. PICK m : m = WithLoaded(edit, k, access)
  OBVIOUS
<1>10. /\ Whole(m) /\ Alike(m, edit)
       /\ DOMAIN edit.people \subseteq DOMAIN m.people
       /\ Names(edit, from) /\ Renders(edit, from) => Names(m, from) /\ Renders(m, from)
  BY <1>6, <1>7, <1>8, <1>9, LoadedIs DEF IInv
<1>11. /\ Alike(m, mirror) /\ DOMAIN mirror.people \subseteq DOMAIN m.people
       /\ ~Lapsed(owed) /\ mirror.ready => Names(m, Applied) /\ Renders(m, Applied)
  BY <1>1, <1>5, <1>8, <1>10 DEF IInv, Drafted, Alike
<1>12. CASE Work.left = {k}
  <2>1. /\ mirror' = m /\ Then(<<>>) /\ waiting' = waiting \ Work.keys
        /\ owed' = owed \ {LoadMembers({x}) : x \in Work.keys}
    BY <1>3, <1>5, <1>9, <1>12
  <2>2. TypeOK /\ Shape /\ ~Idle
    BY <1>1 DEF IInv, Idle
  <2>3. /\ todo' \in Seq(Works) /\ Tidy(todo')
        /\ todo' # <<>> => /\ Head(todo').k \notin First_ /\ Ends(todo') = Ends(todo)
                           /\ todo'[Len(todo')] = todo[Len(todo)]
        /\ todo' = <<>> => Ends(todo') = "nothing" /\ Ends(todo) = Work.k /\ todo[Len(todo)] = Work
        /\ Coming' \subseteq Coming
        /\ \A x \in Coming : x \in Coming' \/ (Work.k \in Relinking /\ x = <<Work.list, Work.id>>)
    BY <2>1, <2>2, Tailed
  <2>4. TypeOK'
    BY <1>2, <1>10, <2>1, <2>2, <2>3 DEF TypeOK, IdSets
  <2>5. Shape'
    BY <1>1, <1>2, <2>2, <2>3, ShapeTask DEF First_, Loading
  <2>6. Ahead'
    BY <1>2, <2>3, SameAhead DEF IInv, First_, Loading
  <2>7. \A w \in owed : w.k \in {"rows", "reload"} => w \in owed'
    BY <2>1 DEF LoadMembers
  <2>8. mixed \subseteq mixed' => Free \subseteq Free'
    BY <1>1, <1>2, <2>3, <2>7, MissedMore DEF Free, Relinking
  <2>9. \A p : Upto(p) => Upto(p)'
    BY <1>2, <1>11, <2>1, <2>3, Following DEF Alike
  <2>10. DraftRows' /\ DraftPerson' /\ DraftMembers' /\ Drafted'
    BY <2>3, NoDraft DEF First_, Loading
  <2>. QED
    BY <1>1, <1>11, <2>1, <2>3, <2>4, <2>5, <2>6, <2>7, <2>8, <2>9, <2>10, PeopleKeep
<1>13. CASE Work.left # {k}
  <2>1. PICK w : w = [Work EXCEPT !.left = @ \ {k}]
    OBVIOUS
  <2>2. draft' = [draft EXCEPT !.edit = m] /\ Then(<<w>>) /\ UNCHANGED <<mirror, waiting, owed>>
    BY <1>3, <1>5, <1>9, <1>13, <2>1
  <2>3. Work \in [k : {"loaded"}, keys : IdSets, left : IdSets]
    BY <1>1, <1>4 DEF Works
  <2>4. w \in Works /\ w.k = "loaded" /\ w.keys = Work.keys /\ w.left = Work.left \ {k}
    BY <2>1, <2>3 DEF Works, IdSets
  <2>5. Fits(w, todo) /\ Ends(todo) # "relinked"
    BY <1>1, <1>4, <2>4 DEF Fits, InPlace, Loading, Relinking
  <2>6. UNCHANGED <<contentVars, mirror, tasks, deferred, trackVars, streamVars, file, owed, torn>>
    BY <1>1, <2>2 DEF trackVars, ApplyLoaded
  <2>7. ASSUME todo' # <<>>, Head(todo') = w
        PROVE  DraftRows' /\ DraftPerson' /\ DraftMembers' /\ Drafted'
    <3>1. Applied' = Applied /\ mirror' = mirror /\ owed' = owed
      BY <1>2, <2>6, SameApplied DEF IInv, TypeOK
    <3>2. End' = End /\ (\A n : At(n)' = At(n))
      BY <1>2, SameRows
    <3>3. Doing("loaded")' /\ Work' = w /\ ~Doing("adopt")' /\ ~Doing("versions")' /\ ~Doing("access")'
      BY <2>4, <2>7 DEF Doing, Work
    <3>4. draft'.access = draft.access /\ draft'.edit = m /\ DOMAIN draft' = {"edit", "access"}
      <4>1. DOMAIN draft = {"edit", "access"}
        BY <1>1 DEF IInv, DraftMembers
      <4>. QED
        BY <2>2, <4>1
    <3>5. \A n : Lately(n)' <=> Lately(n)
      BY <3>1, <3>2 DEF Lately
    <3>8. ASSUME NEW x \in Work.keys
          PROVE  /\ draft'.access[x].row \in RowType
                 /\ \E n \in 0 .. End' : Lately(n)' /\ Shows(n, draft.access[x].shown)'
      <4>1. draft.access[x].row \in RowType
            /\ \E n \in 0 .. End : Lately(n) /\ Shows(n, draft.access[x].shown)
        BY <1>1 DEF IInv, DraftMembers
      <4>2. PICK n \in 0 .. End : Lately(n) /\ Shows(n, draft.access[x].shown)
        BY <4>1
      <4>5. PICK y : y = draft.access[x].shown /\ y = draft'.access[x].shown
        BY <3>4
      <4>3. Shows(n, y)'
        BY <1>2, <4>2, <4>5, SameShows
      <4>4. Shows(n, draft.access[x].shown)'
        BY <4>5, <4>3 DEF Shows
      <4>. QED
        BY <3>2, <3>4, <3>5, <4>1, <4>2, <4>4
    <3>6. DraftMembers'
      BY <1>6, <1>10, <2>4, <3>3, <3>4, <3>8 DEF DraftMembers
    <3>7. Drafted'
      <4>1. PICK n : n = Applied
        OBVIOUS
      <4>2. ~Lapsed(owed) /\ mirror.ready => Names(m, n)' /\ Renders(m, n)'
        BY <1>2, <1>11, <4>1, SameTruth
      <4>. QED
        BY <1>11, <3>1, <3>3, <3>4, <4>1, <4>2 DEF Drafted
    <3>. QED
      BY <3>3, <3>6, <3>7 DEF DraftRows, DraftPerson
  <2>. QED
    BY <1>1, <2>2, <2>4, <2>5, <2>6, <2>7, GoesOn DEF Loading
<1>. QED
  BY <1>12, <1>13

\* What a person's rows and version become, before the key is seen as rendered.
Cleared(m, l, ids, keys, known) == [m EXCEPT !.marked[l] = (@ \ ids) \cup keys, !.known[l] = known]

LEMMA ClearedIs ==
    ASSUME NEW m, Whole(m), NEW l \in Lists, NEW ids \in IdSets, NEW keys \in IdSets,
           NEW known \in [Ids -> Nat], NEW w, w = Cleared(m, l, ids, keys, known)
    PROVE  /\ Whole(w) /\ w.people = m.people /\ w.rendered = m.rendered /\ Sets(w) = Sets(m)
           /\ w.position = m.position /\ w.ready = m.ready
           /\ \A k \in Lists : k # l => w.marked[k] = m.marked[k] /\ w.known[k] = m.known[k]
           /\ w.marked[l] = (m.marked[l] \ ids) \cup keys /\ w.known[l] = known
<1>1. m \in States /\ m.marked \in [Lists -> SUBSET Ids] /\ m.known \in [Lists -> [Ids -> Nat]]
  BY DEF Whole, States
<1>2. PICK marked, all : /\ marked = [m.marked EXCEPT ![l] = (@ \ ids) \cup keys]
                         /\ all = [m.known EXCEPT ![l] = known]
  OBVIOUS
<1>3. marked \in [Lists -> SUBSET Ids] /\ all \in [Lists -> [Ids -> Nat]]
  BY <1>1, <1>2 DEF IdSets
<1>4. w = [m EXCEPT !.marked = marked, !.known = all]
  BY <1>2 DEF Cleared
<1>5. /\ w \in States /\ w.people = m.people /\ w.rendered = m.rendered
      /\ w.position = m.position /\ w.ready = m.ready /\ w.marked = marked /\ w.known = all
  BY <1>1, <1>3, <1>4 DEF States
<1>6. Whole(w)
  BY <1>5 DEF Whole
<1>7. Sets(w) = Sets(m)
  BY <1>5 DEF Sets
<1>. QED
  BY <1>1, <1>2, <1>5, <1>6, <1>7

\* What a reload writes, and what it leaves torn.
Known(old, key, ids, carries, v) ==
    [i \in Ids |-> IF i = key /\ carries THEN v ELSE IF i \in ids THEN 0 ELSE old[i]]
Adopted(l, key, ids, on, v) ==
    LET m == Cleared(mirror, l, ids, IF on THEN {key} ELSE {},
                     Known(mirror.known[l], key, ids, on \/ l # "bans", v))
    IN  IF ~on THEN m ELSE IF l = "bans" THEN WithRendered(m, key)
        ELSE [m EXCEPT !.rendered = @ \cup {key}]
Torn(l, key, ids, v) ==
    {x \in torn : x[1] # l \/ x[2] \notin ids \cup {key}}
    \cup (IF v > draft.version THEN {<<l, key>>} ELSE {})

LEMMA AdoptKeeps ==
    ASSUME IInv, Adopt, NoteMixed
    PROVE  IInv'
<1> HIDE DEF Works
<1>1. todo # <<>> /\ Work.k = "adopt" /\ Doing("adopt") /\ Then(<<>>)
      /\ owed' = owed \ {Reload(Work.list, Work.id)}
      /\ UNCHANGED <<contentVars, tasks, deferred, trackVars, streamVars, file>>
  BY DEF Adopt, Doing, Work
<1>2. /\ past' = past /\ log' = log /\ inbox' = inbox /\ live' = live /\ read' = read /\ resync' = resync
      /\ file' = file /\ tasks' = tasks /\ deferred' = deferred /\ loads' = loads /\ waiting' = waiting
  BY <1>1 DEF contentVars, streamVars, trackVars
<1>3. TypeOK /\ Shape /\ ~Idle
  BY <1>1 DEF IInv, Idle
<1>4. /\ Work \in Works
      /\ todo' \in Seq(Works) /\ Tidy(todo')
      /\ todo' # <<>> => /\ Head(todo').k \notin First_ /\ Ends(todo') = Ends(todo)
                         /\ todo'[Len(todo')] = todo[Len(todo)]
      /\ todo' = <<>> => Ends(todo') = "nothing" /\ Ends(todo) = Work.k /\ todo[Len(todo)] = Work
      /\ Coming' \subseteq Coming
      /\ \A x \in Coming : x \in Coming' \/ (Work.k \in Relinking /\ x = <<Work.list, Work.id>>)
  BY <1>1, <1>3, Tailed
<1>5. PICK l \in Lists, id \in Ids : l = Work.list /\ id = Work.id
  BY <1>1, <1>4, WorkIs DEF Relinking
<1>6. PICK t \in 0 .. End :
          /\ Lately(t)
          /\ draft.person = Holder(At(t), Work.id)
          /\ draft.on = (draft.person \in At(t).marked[Work.list])
          /\ draft.version = At(t).version[draft.person]
  BY <1>1 DEF IInv, DraftPerson
<1> DEFINE on_ == IF draft.first = "rows" THEN draft.on ELSE draft.person \in Now.marked[Work.list]
           v_ == IF draft.first = "rows" THEN Now.version[draft.person] ELSE draft.version
           key_ == IF on_ THEN Shown(Now, draft.person) ELSE Work.id
           ids_ == IdsWith(mirror, Work.id)
<1>7. PICK p, first : p = draft.person /\ first = draft.first
  OBVIOUS
<1>8. p = Holder(At(t), id) /\ p \in Ids /\ SoundRows(At(t)) /\ SoundRows(Now)
  BY <1>5, <1>6, <1>7, RowsSound, HolderIs DEF IInv
<1> DEFINE on == p \in (IF first = "rows" THEN At(t) ELSE Now).marked[l]
<1>9. on = (p \in (IF first = "rows" THEN At(t) ELSE Now).marked[l]) /\ on \in BOOLEAN
  OBVIOUS
<1> HIDE DEF on
<1>10. on = on_
  BY <1>5, <1>6, <1>7, <1>9, Zenon
<1>11. PICK v \in Nat : v = (IF first = "rows" THEN Now ELSE At(t)).version[p] /\ v = v_
  <2>1. Now.version[p] \in Nat /\ At(t).version[p] \in Nat
    BY <1>8 DEF SoundRows, RowState
  <2>. QED
    BY <1>6, <1>7, <2>1
<1>12. PICK key \in Ids : key = (IF on THEN Shown(Now, p) ELSE id)
  <2>1. CASE on
    <3>1. PICK n \in 0 .. End : p \in At(n).marked[l]
      BY <1>9, <2>1, RowsSound DEF IInv
    <3>2. Now.ids[p] # <<>>
      BY <3>1, MarkedHas DEF IInv
    <3>. QED
      BY <1>8, <2>1, <3>2, ShownFirst
  <2>2. CASE ~on
    BY <2>2
  <2>. QED
    BY <2>1, <2>2
<1>13. PICK ids \in IdSets : ids = IdsWith(mirror, id) /\ id \in ids
  BY <1>3, IdsWithIs DEF TypeOK, IdSets
<1> DEFINE carries == on \/ l # "bans"
<1>14. on => carries
  OBVIOUS
<1> HIDE DEF carries
<1>15. PICK keys \in IdSets : keys = (IF on THEN {key} ELSE {})
  BY DEF IdSets
<1>16. PICK known \in [Ids -> Nat] :
          /\ known = Known(mirror.known[l], key, ids, carries, v)
          /\ \A j \in Ids : known[j] =
                IF j = key /\ carries THEN v ELSE IF j \in ids THEN 0 ELSE mirror.known[l][j]
  <2>1. PICK old \in [Ids -> Nat] : old = mirror.known[l]
    BY <1>3, WholeIds DEF TypeOK
  <2>2. Known(old, key, ids, carries, v) \in [Ids -> Nat]
    BY DEF Known
  <2>3. \A j \in Ids : Known(old, key, ids, carries, v)[j] =
            IF j = key /\ carries THEN v ELSE IF j \in ids THEN 0 ELSE old[j]
    BY Zenon DEF Known
  <2>. QED
    BY <2>1, <2>2, <2>3
<1>17. PICK s, m : s = mirror /\ m = Cleared(s, l, ids, keys, known)
  OBVIOUS
<1>18. /\ Whole(m) /\ m.people = mirror.people /\ m.rendered = mirror.rendered
       /\ m.position = mirror.position /\ m.ready = mirror.ready
       /\ \A k \in Lists : k # l => m.marked[k] = mirror.marked[k] /\ m.known[k] = mirror.known[k]
       /\ m.marked[l] = (mirror.marked[l] \ ids) \cup keys /\ m.known[l] = known
       /\ Sets(m) = Sets(mirror)
  <2>1. Whole(s)
    BY <1>3, <1>17 DEF TypeOK
  <2>2. /\ Whole(m) /\ m.people = s.people /\ m.rendered = s.rendered /\ Sets(m) = Sets(s)
        /\ m.position = s.position /\ m.ready = s.ready
        /\ \A k \in Lists : k # l => m.marked[k] = s.marked[k] /\ m.known[k] = s.known[k]
        /\ m.marked[l] = (s.marked[l] \ ids) \cup keys /\ m.known[l] = known
    BY <2>1, <1>17, ClearedIs
  <2>. QED
    BY <1>17, <2>2
<1>19. mirror' = Adopted(l, key, ids, on, v)
  <2>1. mirror' = Adopted(Work.list, key_, ids_, on_, v_)
    BY Zenon DEF Adopt, Adopted, Cleared, Known
  <2>2. key_ = key /\ ids_ = ids
    BY <1>5, <1>7, <1>10, <1>12, <1>13
  <2> HIDE DEF on_, v_, key_, ids_
  <2>. QED
    BY <1>5, <1>10, <1>11, <2>1, <2>2, Zenon
<1>20. mirror' = IF ~on THEN m ELSE IF l = "bans" THEN WithRendered(m, key)
                 ELSE [m EXCEPT !.rendered = @ \cup {key}]
  BY <1>15, <1>16, <1>17, <1>19, Zenon DEF Adopted, carries
<1>21. torn' = {x \in torn : x[1] # l \/ x[2] \notin ids \cup {key}}
               \cup (IF v > draft.version THEN {<<l, key>>} ELSE {})
  <2>1. torn' = Torn(Work.list, key_, ids_, v_)
    BY Zenon DEF Adopt, Torn
  <2>3. key_ = key /\ ids_ = ids
    BY <1>5, <1>7, <1>10, <1>12, <1>13
  <2> HIDE DEF on_, v_, key_, ids_
  <2>2. torn' = Torn(l, key, ids, v)
    BY <1>5, <1>11, <2>1, <2>3, Zenon
  <2>. QED
    BY <2>2 DEF Torn
<1> HIDE DEF on_, v_, key_, ids_
<1>22. PICK w : w = mirror'
  OBVIOUS
<1>23. /\ Whole(w) /\ Fewer(w, mirror) /\ DOMAIN w.people = DOMAIN mirror.people
       /\ w.rendered = mirror.rendered \cup keys
       /\ w.position = mirror.position /\ w.ready = mirror.ready
       /\ w.marked = m.marked /\ w.known = m.known
  <2>1. CASE ~on
    BY <1>15, <1>18, <1>20, <1>22, <2>1 DEF Fewer, Sets
  <2>2. CASE on /\ l = "bans"
    <3>1. w = WithRendered(m, key) /\ keys = {key}
      BY <1>15, <1>20, <1>22, <2>2
    <3>2. /\ Whole(w) /\ Alike(w, m) /\ w.rendered = m.rendered \cup {key}
          /\ DOMAIN w.people = DOMAIN m.people /\ Fewer(w, m)
      BY <1>18, <3>1, WithRenderedIs
    <3>. QED
      BY <1>18, <3>1, <3>2 DEF Fewer, Alike
  <2>3. CASE on /\ l # "bans"
    <3>1. w = [m EXCEPT !.rendered = m.rendered \cup {key}] /\ keys = {key} /\ m \in States
      BY <1>15, <1>18, <1>20, <1>22, <2>3 DEF Whole
    <3>2. /\ w \in States /\ w.people = m.people /\ w.rendered = m.rendered \cup {key}
          /\ w.position = m.position /\ w.ready = m.ready /\ w.marked = m.marked /\ w.known = m.known
      BY <3>1 DEF States
    <3>. QED
      BY <1>18, <3>1, <3>2 DEF Whole, Fewer, Sets
  <2>. QED
    BY <2>1, <2>2, <2>3
<1>24. TypeOK'
  <2>1. torn' \subseteq Lists \X Ids /\ file'.torn \subseteq Lists \X Ids
    BY <1>2, <1>3, <1>21 DEF TypeOK
  <2>. QED
    BY <1>2, <1>3, <1>4, <1>22, <1>23, <2>1 DEF TypeOK
<1>25. Shape'
  BY <1>1, <1>2, <1>3, <1>4, ShapeTask DEF First_, Loading
<1>26. Ahead'
  BY <1>2, <1>4, SameAhead DEF IInv, First_, Loading
<1>27. \A x \in owed : x.k = "rows" => x \in owed'
  BY <1>1 DEF Reload
<1>28. \A x : Upto(x) => Upto(x)'
  BY <1>2, <1>4, <1>22, <1>23, Following
<1>29. DraftRows' /\ DraftPerson' /\ DraftMembers' /\ Drafted'
  BY <1>4, NoDraft DEF First_, Loading
<1>30. PICK more : more = Free'
  OBVIOUS
<1>31. ASSUME ~Lapsed(owed), mirror.ready, mixed \subseteq mixed'
       PROVE  Names(w, Applied) /\ Renders(w, Applied) /\ Marks(w, Applied, more)
  <2>1. PICK from \in 0 .. End : from = Applied /\ t \in from .. End
    BY <1>6, <1>31 DEF Lately, IInv, Places
  <2>2. PICK mix, free : mix = mixed /\ free = Free
    OBVIOUS
  <2>3. Whole(s) /\ Truth(s, from, mix, free)
    BY <1>17, <1>31, <2>1, <2>2 DEF IInv, TypeOK, Holds
  <2>4. \A x \in free : x \in more \/ x \in {l} \X (ids \cup {key})
    <3> SUFFICES ASSUME NEW x \in free, x \notin {l} \X (ids \cup {key}) PROVE x \in more
      OBVIOUS
    <3>1. CASE x \in torn
      <4>1. x \in Lists \X Ids
        BY <1>3, <3>1 DEF TypeOK
      <4>2. x \in torn'
        BY <1>21, <3>1, <4>1
      <4>. QED
        BY <1>30, <4>2 DEF Free, Missed
    <3>2. CASE x \in Lists \X Ids /\ Reload(x[1], x[2]) \in owed
      <4>1. Reload(x[1], x[2]) # Reload(l, id)
        BY <1>13, <3>2 DEF Reload
      <4>2. Reload(x[1], x[2]) \in owed'
        BY <1>1, <1>5, <3>2, <4>1
      <4>. QED
        BY <1>30, <3>2, <4>2 DEF Free, Missed
    <3>3. CASE x \in Lists \X mixed
      BY <1>30, <1>31, <3>3 DEF Free, Missed
    <3>4. CASE x \in Coming
      <4>1. x \in Coming'
        BY <1>4, <1>5, <1>13, <3>4
      <4>. QED
        BY <1>30, <4>1 DEF Free
    <3>. QED
      BY <2>2, <3>1, <3>2, <3>3, <3>4 DEF Free, Missed
  <2>5. \A j \in mix : <<l, j>> \in more
    BY <1>30, <1>31, <2>2 DEF Free, Missed
  <2>6. v > At(t).version[p] => <<l, key>> \in more
    BY <1>6, <1>7, <1>21, <1>30 DEF Free, Missed
  <2>7. /\ Fewer(w, s) /\ DOMAIN w.people = DOMAIN s.people
        /\ w.rendered = s.rendered \cup (IF on THEN {key} ELSE {})
        /\ \A k \in Lists : k # l => w.marked[k] = s.marked[k] /\ w.known[k] = s.known[k]
        /\ w.marked[l] = (s.marked[l] \ ids) \cup (IF on THEN {key} ELSE {})
        /\ ids = IdsWith(s, id)
    <3>1. s = mirror
      BY <1>17
    <3>2. ids = IdsWith(s, id)
      BY <1>13, <3>1
    <3>3. Fewer(w, s) /\ DOMAIN w.people = DOMAIN s.people
      BY <1>23, <3>1, Zenon
    <3>4. w.rendered = s.rendered \cup (IF on THEN {key} ELSE {})
      BY <1>15, <1>23, <3>1, Zenon
    <3>5. w.marked = m.marked /\ w.known = m.known
      BY <1>23
    <3>6. ASSUME NEW k \in Lists, k # l
          PROVE  w.marked[k] = s.marked[k] /\ w.known[k] = s.known[k]
      <4>1. m.marked[k] = mirror.marked[k] /\ m.known[k] = mirror.known[k]
        BY <1>18, <3>6, Zenon
      <4>. QED
        BY <3>1, <3>5, <4>1, Zenon
    <3>7. w.marked[l] = (s.marked[l] \ ids) \cup (IF on THEN {key} ELSE {})
      <4>1. m.marked[l] = (mirror.marked[l] \ ids) \cup keys
        BY <1>18
      <4>. QED
        BY <1>15, <3>1, <3>5, <4>1, Zenon
    <3>. QED
      BY <3>2, <3>3, <3>4, <3>6, <3>7, Zenon
  <2>8. \A j \in Ids : w.known[l][j] = IF j = key /\ carries THEN v ELSE IF j \in ids THEN 0 ELSE s.known[l][j]
    BY <1>16, <1>17, <1>18, <1>23
  <2>9. Reads(t, l, id, first, p, on, v, key)
    BY <1>8, <1>9, <1>11, <1>12, Zenon DEF Reads
  <2>11. Writes_(s, w, l, id, on, v, key, ids, carries)
    BY <1>14, <2>7, <2>8, Zenon DEF Writes_
  <2>12. Leaves(free, more, mix, t, l, p, v, key, ids)
    BY <2>4, <2>5, <2>6, Zenon DEF Leaves
  <2>10. Names(w, from) /\ Renders(w, from) /\ Marks(w, from, more)
    BY <2>1, <2>3, <2>9, <2>11, <2>12, TruthAdopt DEF IInv
  <2>. QED
    BY <2>1, <2>10
<1>32. UNCHANGED <<contentVars, streamVars, file>>
  BY <1>1
<1>. QED
  BY <1>4, <1>22, <1>23, <1>24, <1>25, <1>26, <1>27, <1>28, <1>29, <1>30, <1>31, <1>32, TruthKeep

-----------------------------------------------------------------------------
(* A full load                                                             *)

\* The state that a full load publishes.
Full(position, group, members, marked, known, rendered) ==
    [Empty EXCEPT !.ready = TRUE, !.position = position, !.group = group, !.members = members,
                  !.marked = marked, !.known = known, !.rendered = rendered]

Entries == [loaded : BOOLEAN, row : RowType]

LEMMA FullIs ==
    ASSUME NEW position \in Nat, NEW group \in Nat, NEW members \in Maps(Entries),
           NEW marked \in [Lists -> SUBSET Ids], NEW known \in [Lists -> [Ids -> Nat]],
           NEW rendered \in SUBSET Ids,
           NEW w, w = Full(position, group, members, marked, known, rendered)
    PROVE  /\ Whole(w) /\ Sets(w) = {} /\ DOMAIN w.people = {}
           /\ w.ready /\ w.position = position /\ w.marked = marked /\ w.known = known
           /\ w.rendered = rendered /\ w.members = members
<1>1. Whole(Empty) /\ Empty \in States /\ Empty.people = Nothing
  BY EmptyWhole DEF Whole
<1>2. w.ready = TRUE /\ w.position = position /\ w.group = group /\ w.members = members
      /\ w.marked = marked /\ w.known = known /\ w.rendered = rendered /\ w.people = Nothing
      /\ w \in States
  BY <1>1 DEF Full, States, Entries
<1>3. DOMAIN w.people = {}
  BY <1>2 DEF Nothing
<1>. QED
  BY <1>2, <1>3 DEF Whole, Sets

\* The queue with other debts: those of the resyncs it holds are kept.
LEMMA QueuedOwes ==
    ASSUME TypeOK, Queued, past' = past, log' = log, inbox' = inbox, live' = live, read' = read,
           resync' = resync, \A n : Untold(n) /\ FullLoad(n) \in owed => FullLoad(n) \in owed'
    PROVE  Queued'
<1>1. End' = End /\ \A t : At(t)' = At(t)
  BY SameRows
<1>2. \A e, d : Named(e, d)' = Named(e, d)
  BY <1>1 DEF Named
<1>3. \A x : Sent(x)' <=> Sent(x)
  BY <1>1, <1>2 DEF Sent
<1>4. resync # 0 => (resync # 0 /\ FullLoad(resync) \in owed')
  BY DEF Queued, Untold
<1>5. ASSUME NEW n \in 1 .. Len(inbox), Follows(n) PROVE Follows(n)'
  <2>1. inbox[n].event = Told => FullLoad(inbox[n].position) \in owed'
    <3> SUFFICES ASSUME inbox[n].event = Told PROVE FullLoad(inbox[n].position) \in owed'
      OBVIOUS
    <3>1. inbox[n] \in Items /\ inbox[n] \in Range(inbox)
      BY DEF TypeOK, Range
    <3>2. inbox[n] = [position |-> inbox[n].position, event |-> Told]
      BY <3>1 DEF Items
    <3>. QED
      BY <1>5, <3>1, <3>2 DEF Follows, Untold
  <2>. QED
    BY <1>5, <2>1 DEF Follows
<1>. QED
  BY <1>1, <1>3, <1>4, <1>5 DEF Queued

\* The applier has taken whatever is not in the queue.
LEMMA NextEvent ==
    ASSUME TypeOK, Queued, Aware, live, inbox # <<>>
    PROVE  /\ inbox[1].position = Applied + 1 /\ inbox[1].position <= read
           /\ inbox[1].event # Told /\ Sent(inbox[1])
<1>1. Len(inbox) \in Nat /\ Len(inbox) >= 1 /\ inbox \in Seq(Items) /\ read \in Nat
  BY EmptySeq DEF TypeOK
<1>2. 1 \in 1 .. Len(inbox) /\ inbox[1] \in Items
  BY <1>1
<1>3. inbox[1].position \in Nat
  BY <1>2 DEF Items
<1>4. inbox[1].position + Len(inbox) = read + 1
  BY <1>1, <1>2 DEF Queued, Follows, Aware
<1>5. inbox[1].position <= read /\ inbox[1].event # Told /\ Sent(inbox[1])
  BY <1>1, <1>2 DEF Queued, Aware
<1>. QED
  BY <1>1, <1>3, <1>4, <1>5 DEF Applied

\* A full load whose position the stream has passed is no later than the applier.
LEMMA BeforeApplied ==
    ASSUME TypeOK, Queued, Aware, live, NEW p \in Nat, Before(p)
    PROVE  p <= Applied
<1>1. CASE inbox = <<>>
  BY <1>1 DEF Before, Applied, TypeOK
<1>2. CASE inbox # <<>>
  <2>1. Len(inbox) \in Nat /\ Len(inbox) >= 1 /\ inbox \in Seq(Items)
    BY <1>2, EmptySeq DEF TypeOK
  <2>4. inbox[1].event # Told /\ 1 \in 1 .. Len(inbox) /\ inbox[1] \in Items
    BY <1>2, <2>1, NextEvent
  <2>2. p <= inbox[1].position /\ p # inbox[1].position /\ inbox[1].position \in Nat
    BY <2>4 DEF Before, Items
  <2>3. inbox[1].position = Applied + 1 /\ Applied \in Int
    BY <1>2, <2>1, NextEvent DEF Applied, TypeOK
  <2>. QED
    BY <2>2, <2>3
<1>. QED
  BY <1>1, <1>2

\* Of the resyncs not told of, or not handled, each is owed a full load.
LEMMA AwareIs ==
    ASSUME TypeOK, Queued,
           NEW owes, \A n : Untold(n) /\ FullLoad(n) \in owed => FullLoad(n) \in owes, ~Lapsed(owes)
    PROVE  Aware
<1>1. resync = 0
  <2> SUFFICES ASSUME resync # 0 PROVE FALSE
    OBVIOUS
  <2>1. FullLoad(resync) \in owed /\ Untold(resync)
    BY DEF Queued, Untold
  <2>. QED
    BY <2>1 DEF Lapsed, FullLoad
<1>2. ASSUME NEW n \in DOMAIN inbox, inbox[n].event = Told PROVE FALSE
  <2>1. inbox[n] \in Items /\ inbox[n] \in Range(inbox) /\ n \in 1 .. Len(inbox)
    BY DEF TypeOK, Range
  <2>2. inbox[n] = [position |-> inbox[n].position, event |-> Told]
    BY <1>2, <2>1 DEF Items
  <2>3. FullLoad(inbox[n].position) \in owed /\ Untold(inbox[n].position)
    BY <1>2, <2>1, <2>2 DEF Queued, Follows, Untold
  <2>. QED
    BY <2>3 DEF Lapsed, FullLoad
<1>. QED
  BY <1>1, <1>2 DEF Aware

LEMMA ReadVersionsKeeps ==
    ASSUME IInv, ReadVersions, NoteMixed
    PROVE  IInv'
<1> HIDE DEF Works
<1> DEFINE shown_ == [l \in Lists |-> {Shown(Now, p) : p \in draft.marked[l]}]
           known_ == [l \in Lists |-> [i \in Ids |->
                         IF i \in {Shown(Now, p) : p \in draft.marked[l]}
                         THEN Now.version[Holder(Now, i)] ELSE 0]]
           rendered_ == UNION {{Shown(Now, p) : p \in draft.marked[l]} : l \in Lists}
<1>1. /\ todo # <<>> /\ Work.k = "versions" /\ Doing("versions")
      /\ Then(ReloadMembers(DOMAIN mirror.members))
      /\ UNCHANGED <<contentVars, tasks, deferred, trackVars, streamVars, file>>
  BY DEF ReadVersions, Doing, Work
<1>2. mirror' = Full(Work.position, draft.group, mirror.members, shown_, known_, rendered_)
  BY Zenon DEF ReadVersions, Full
<1>3. \A work : work \in owed' <=>
          work \in owed /\ (work.k = "members" \/ (work.k = "rows" /\ Untold(work.position)))
  BY DEF ReadVersions
<1>4. torn' = {x \in Lists \X Ids :
                 /\ x[2] \in {Shown(Now, p) : p \in draft.marked[x[1]]}
                 /\ Now.version[Holder(Now, x[2])] # draft.version[Holder(Now, x[2])]}
  BY DEF ReadVersions
<1>5. /\ past' = past /\ log' = log /\ inbox' = inbox /\ live' = live /\ read' = read /\ resync' = resync
      /\ file' = file /\ tasks' = tasks /\ deferred' = deferred /\ loads' = loads /\ waiting' = waiting
      /\ swept' = swept
  BY <1>1 DEF contentVars, streamVars, trackVars
<1>6. TypeOK /\ Shape /\ Content /\ Queued /\ ~Idle
  BY <1>1 DEF IInv, Idle
<1>7. PICK t \in 0 .. End :
          /\ draft.marked = At(t).marked /\ draft.version = At(t).version
          /\ Aware => (IF live THEN Applied ELSE Work.position) <= t
  BY <1>1 DEF IInv, DraftRows
<1>8. draft.group \in Nat
  BY <1>1 DEF IInv, DraftRows
<1>9. /\ Work \in Works /\ InPlace(Work.k, 1, Len(todo), Ends(todo)) /\ Work.position \in Nat
      /\ Before(Work.position)
      /\ Len(todo) = 1 => Ends(todo) = "versions"
  <2>1. todo \in Seq(Works) /\ Tidy(todo) /\ todo # <<>>
    BY <1>1, <1>6 DEF TypeOK, Shape
  <2>2. /\ Head(todo) \in Works /\ InPlace(Head(todo).k, 1, Len(todo), Ends(todo))
        /\ Len(todo) = 1 => Ends(todo) = Head(todo).k
    BY <2>1, HeadIs
  <2>. QED
    BY <1>1, <2>2, WorkIs DEF Work, IInv, Ahead
<1>10. Len(todo) = 1 \/ Ends(todo) = "subscribe"
  BY <1>1, <1>9 DEF InPlace, Loading
<1>11. Ends(todo) \notin {"relinked", "flushed"}
  BY <1>9, <1>10
<1>12. PICK members \in Maps(Entries) : members = mirror.members /\ DOMAIN members \in IdSets
  BY <1>6, MapsIs DEF TypeOK, Whole, States, IdSets, Entries
<1>13. /\ todo' \in Seq(Works) /\ Tidy(todo') /\ Coming' = {}
       /\ todo' # <<>> => Head(todo').k \notin {"rows", "versions", "position", "adopt", "access", "loaded"}
       /\ Ends(todo') \notin {"relinked", "flushed"}
       /\ Ends(todo') = Ends(todo) \/ Ends(todo') \notin {"subscribe", "relinked", "flushed"}
  <2>1. CASE DOMAIN members = {}
    <3>1. Then(<<>>)
      BY <1>1, <1>12, <2>1 DEF ReloadMembers
    <3>2. /\ todo' \in Seq(Works) /\ Tidy(todo') 
          /\ todo' # <<>> => Head(todo').k \notin First_ /\ Ends(todo') = Ends(todo)
          /\ todo' = <<>> => Ends(todo') = "nothing"
      BY <1>6, <3>1, Tailed
    <3>. QED
      BY <1>11, <3>2 DEF First_, Loading, Coming
  <2>2. CASE DOMAIN members # {}
    <3>0. PICK keys \in IdSets : keys = DOMAIN members
      BY <1>12
    <3>1. PICK w \in Works : w = LoadMembers(DOMAIN members) /\ w.k = "members"
      <4>1. LoadMembers(keys) \in Works /\ LoadMembers(keys).k = "members"
        BY DEF LoadMembers, Works
      <4>. QED
        BY <3>0, <4>1
    <3>2. Then(<<w>>)
      BY <1>1, <1>12, <2>2, <3>1 DEF ReloadMembers
    <3>3. Fits(w, todo)
      BY <1>10, <1>11, <3>1 DEF Fits, Loading, Relinking
    <3>4. /\ todo' \in Seq(Works) /\ Tidy(todo') /\ todo' # <<>> /\ Head(todo') = w
          /\ Ends(todo') = Ends(todo) \/ Ends(todo') = w.k
      BY <1>6, <1>11, <3>1, <3>2, <3>3, Replaced
    <3>. QED
      BY <1>11, <3>1, <3>4 DEF Coming
  <2>. QED
    BY <2>1, <2>2
<1>14. /\ SoundRows(Now) /\ SoundRows(At(t)) /\ End \in Nat
       /\ \A l \in Lists : draft.marked[l] \subseteq Ids
       /\ \A l \in Lists : \A p \in draft.marked[l] :
              Shown(Now, p) \in Ids /\ Holder(Now, Shown(Now, p)) = p
  <2>1. SoundRows(Now) /\ SoundRows(At(t)) /\ End \in Nat
    BY <1>6, RowsSound
  <2>2. ASSUME NEW l \in Lists, NEW p \in draft.marked[l]
        PROVE  p \in Ids /\ Shown(Now, p) \in Ids /\ Holder(Now, Shown(Now, p)) = p
    <3>1. p \in At(t).marked[l]
      BY <1>7, <2>2
    <3>2. p \in Ids /\ Now.ids[p] # <<>>
      BY <1>6, <3>1, MarkedHas
    <3>. QED
      BY <2>1, <3>2, ShownIs
  <2>. QED
    BY <2>1, <2>2
<1>15. PICK marked \in [Lists -> SUBSET Ids] :
           marked = shown_ /\ \A l \in Lists : marked[l] = {Shown(Now, p) : p \in At(t).marked[l]}
  <2>1. \A l \in Lists : {Shown(Now, p) : p \in draft.marked[l]} \in SUBSET Ids
    BY <1>14
  <2>2. shown_ \in [Lists -> SUBSET Ids]
    BY <2>1
  <2>3. \A l \in Lists : shown_[l] = {Shown(Now, p) : p \in At(t).marked[l]}
    BY <1>7
  <2>. QED
    BY <2>2, <2>3
<1>16. PICK known \in [Lists -> [Ids -> Nat]] :
           known = known_ /\ \A l \in Lists : \A i \in Ids : known[l][i] =
               IF i \in marked[l] THEN Now.version[Holder(Now, i)] ELSE 0
  <2>1. \A i \in Ids : Now.version[Holder(Now, i)] \in Nat
    BY <1>14, HolderIs DEF SoundRows, RowState
  <2>2. \A l \in Lists : [i \in Ids |->
           IF i \in {Shown(Now, p) : p \in draft.marked[l]} THEN Now.version[Holder(Now, i)] ELSE 0]
           \in [Ids -> Nat]
    BY <2>1
  <2>3. known_ \in [Lists -> [Ids -> Nat]]
    BY <2>2
  <2>4. \A l \in Lists : \A i \in Ids : known_[l][i] =
             IF i \in marked[l] THEN Now.version[Holder(Now, i)] ELSE 0
    BY <1>15
  <2>. QED
    BY <2>3, <2>4
<1>17. PICK rendered \in SUBSET Ids :
           rendered = rendered_ /\ \A i \in rendered : \E l \in Lists : i \in marked[l]
  <2>1. \A i \in rendered_ : \E l \in Lists : i \in {Shown(Now, p) : p \in draft.marked[l]}
    OBVIOUS
  <2>2. \A l \in Lists : marked[l] = {Shown(Now, p) : p \in draft.marked[l]}
    BY <1>15
  <2>3. \A i \in rendered_ : \E l \in Lists : i \in marked[l]
    BY <2>1, <2>2
  <2> HIDE DEF rendered_
  <2>4. rendered_ \in SUBSET Ids
    BY <2>3
  <2>. QED
    BY <2>3, <2>4
<1> HIDE DEF shown_, known_, rendered_
<1>18. PICK w, position, group : /\ w = mirror' /\ position = Work.position /\ group = draft.group
                                 /\ position \in Nat /\ group \in Nat
  BY <1>8, <1>9
<1>19. w = Full(position, group, members, marked, known, rendered)
  BY <1>2, <1>12, <1>15, <1>16, <1>17, <1>18
<1>20. /\ Whole(w) /\ Sets(w) = {} /\ DOMAIN w.people = {}
       /\ w.ready /\ w.position = position /\ w.marked = marked /\ w.known = known
       /\ w.rendered = rendered
  BY <1>18, <1>19, FullIs
<1>21. TypeOK'
  <2>1. torn' \subseteq Lists \X Ids
    BY <1>4
  <2>. QED
    BY <1>5, <1>6, <1>13, <1>18, <1>20, <2>1 DEF TypeOK
<1>22. Shape'
  BY <1>1, <1>5, <1>6, <1>11, <1>13, ShapeTask DEF Loading
<1>23. \A n : Untold(n) /\ FullLoad(n) \in owed => FullLoad(n) \in owed'
  BY <1>3 DEF FullLoad
<1>24. Content' /\ Queued' /\ Saved' /\ Unmixed' /\ (Mixed \subseteq mixed)'
  BY <1>5, <1>6, <1>23, SameContent, QueuedOwes, SameSaved, MixedGrows DEF IInv
<1>25. Ahead' /\ DraftRows' /\ DraftPerson' /\ DraftMembers' /\ Drafted'
  BY <1>5, <1>13, SameAhead, NoDraft DEF IInv
<1>26. End' = End
  BY <1>5, SameRows
<1>27. ASSUME ~Lapsed(owed') PROVE Aware /\ Applied' \in 0 .. End /\ position <= Applied' /\ Applied' <= t
  <2>1. Aware
    BY <1>6, <1>23, <1>27, AwareIs
  <2>2. CASE live
    <3>1. Applied' = Applied /\ Applied \in Int /\ Applied <= End
      BY <1>5, <1>6, <2>2, AppliedIs DEF Applied
    <3>2. position <= Applied
      BY <1>6, <1>9, <1>18, <2>1, <2>2, BeforeApplied
    <3>. QED
      BY <1>7, <1>14, <1>18, <2>1, <2>2, <3>1, <3>2
  <2>3. CASE ~live
    <3>1. Applied' = position /\ position <= End
      BY <1>5, <1>9, <1>18, <1>20, <2>3 DEF Applied, Before
    <3>. QED
      BY <1>7, <1>14, <1>18, <2>1, <2>3, <3>1
  <2>. QED
    BY <1>6, <2>2, <2>3 DEF TypeOK
<1>28. Places'
  <2>1. deferred' = Quiet
    BY <1>1, <1>5, <1>6, <1>11 DEF Shape
  <2>2. position <= End
    <3>1. read \in Nat /\ read <= End /\ End \in Nat /\ position \in Nat /\ Before(position)
      BY <1>6, <1>9, <1>14, <1>18 DEF Queued, TypeOK
    <3>. QED
      BY <3>1 DEF Before
  <2>. QED
    BY <1>13, <1>18, <1>20, <1>26, <1>27, <2>1, <2>2 DEF Places, Upto
<1>29. Unsettled'
  BY <1>13 DEF Unsettled
<1>30. Holds'
  <2> SUFFICES ASSUME ~Lapsed(owed') PROVE Truth(mirror, Applied, mixed, Free)'
    BY DEF Holds
  <2>0. PICK mix, free : mix = mixed' /\ free = Free'
    OBVIOUS
  <2>1. PICK from \in 0 .. End : from = Applied' /\ t \in from .. End
    BY <1>14, <1>27
  <2>2. \A l \in Lists : \A j \in w.marked[l] :
            Now.version[Holder(Now, j)] # At(t).version[Holder(Now, j)] => <<l, j>> \in free
    <3> SUFFICES ASSUME NEW l \in Lists, NEW j \in w.marked[l],
                        Now.version[Holder(Now, j)] # At(t).version[Holder(Now, j)]
                 PROVE  <<l, j>> \in torn'
      BY <2>0 DEF Free, Missed
    <3>1. j \in Ids /\ j \in {Shown(Now, p) : p \in draft.marked[l]}
      BY <1>7, <1>15, <1>20
    <3>. QED
      BY <1>4, <1>7, <3>1
  <2>3. /\ \A l \in Lists : w.marked[l] = {Shown(Now, p) : p \in At(t).marked[l]}
        /\ \A l \in Lists : \A i \in Ids : w.known[l][i] =
               IF i \in w.marked[l] THEN Now.version[Holder(Now, i)] ELSE 0
        /\ \A i \in w.rendered : \E l \in Lists : i \in w.marked[l]
    BY <1>15, <1>16, <1>17, <1>20
  <2>4. Truth(w, from, mix, free)
    BY <1>6, <1>20, <2>1, <2>2, <2>3, TruthFull
  <2>5. Truth(w, from, mix, free)'
    BY <1>5, <2>4, SameTruth
  <2>. QED
    BY <1>18, <2>0, <2>1, <2>5
<1>. QED
  BY <1>21, <1>22, <1>24, <1>25, <1>28, <1>29, <1>30 DEF IInv

-----------------------------------------------------------------------------
(* The stream opens, and a task ends                                       *)

LEMMA NothingIs ==
    ASSUME NEW s, s = <<>>
    PROVE  s \in Seq(Works) /\ Tidy(s) /\ Ends(s) = "nothing"
<1> HIDE DEF Works
<1>1. s \in Seq(Works) /\ Len(s) = 0
  BY EmptySeq
<1>2. \A n \in 1 .. 0 : FALSE
  OBVIOUS
<1>. QED
  BY <1>1, <1>2 DEF Tidy, Ends

LEMMA SubscribeKeeps ==
    ASSUME IInv, Subscribe, NoteMixed
    PROVE  IInv'
<1> HIDE DEF Works
<1>1. /\ todo # <<>> /\ Work.k = "subscribe" /\ Doing("subscribe")
      /\ UNCHANGED <<contentVars, mirror, draft, deferred, trackVars, inbox, resync, file, owed, torn>>
  BY DEF Subscribe, Doing, Work
<1>2. /\ past' = past /\ log' = log /\ inbox' = inbox /\ resync' = resync /\ mirror' = mirror
      /\ file' = file /\ deferred' = deferred /\ loads' = loads /\ waiting' = waiting
      /\ swept' = swept /\ owed' = owed /\ torn' = torn
  BY <1>1 DEF contentVars, trackVars
<1>3. TypeOK /\ Shape /\ Content /\ Queued /\ Places /\ ~Idle
  BY <1>1 DEF IInv, Idle
<1>4. /\ Work \in Works /\ InPlace(Work.k, 1, Len(todo), Ends(todo)) /\ Work.resume \in BOOLEAN
      /\ todo \in Seq(Works) /\ Tidy(todo)
      /\ Len(todo) = 1 => Ends(todo) = "subscribe"
  <2>1. todo \in Seq(Works) /\ Tidy(todo) /\ todo # <<>>
    BY <1>1, <1>3 DEF TypeOK, Shape
  <2>2. /\ Head(todo) \in Works /\ InPlace(Head(todo).k, 1, Len(todo), Ends(todo))
        /\ Len(todo) = 1 => Ends(todo) = Head(todo).k
    BY <2>1, HeadIs
  <2>. QED
    BY <1>1, <2>1, <2>2, WorkIs DEF Work
<1>5. Len(todo) = 1 /\ Starting /\ Tail(todo) = <<>>
  <2>1. Len(todo) = 1
    BY <1>1, <1>4 DEF InPlace
  <2>2. Tail(todo) = <<>>
    <3>1. Tail(todo) \in Seq(Works) /\ Len(Tail(todo)) = 0
      BY <1>1, <1>4, <2>1
    <3>. QED
      BY <3>1, EmptySeq
  <2>. QED
    BY <1>4, <2>1, <2>2 DEF Starting
<1>6. ~live /\ inbox = <<>> /\ resync = 0 /\ deferred = Quiet /\ tasks \cap Attempts = {}
  BY <1>3, <1>5 DEF Shape, Queued
<1>7. PICK opens \in BOOLEAN : opens <=> mirror.position >= swept
  OBVIOUS
<1>8. /\ live' = (mirror.position >= swept)
      /\ read' = IF mirror.position >= swept THEN mirror.position ELSE read
      /\ Then(IF mirror.position >= swept \/ ~Work.resume THEN <<>> ELSE Start(FALSE))
      /\ tasks' = IF mirror.position >= swept \/ Work.resume THEN tasks ELSE tasks \cup {Start(FALSE)}
  BY DEF Subscribe
<1>9. /\ live' = opens /\ read' = IF opens THEN mirror.position ELSE read
      /\ todo' = IF opens \/ ~Work.resume THEN <<>> ELSE Start(FALSE)
      /\ tasks' = IF opens \/ Work.resume THEN tasks ELSE tasks \cup {Start(FALSE)}
  <2>1. live' = opens
    BY <1>7, <1>8
  <2>2. Start(FALSE) \in Seq(Works)
    BY StartIs
  <2>3. \A s \in Seq(Works) : s \o <<>> = s
    OBVIOUS
  <2>4. <<>> \o <<>> = <<>>
    OBVIOUS
  <2>. QED
    BY <1>5, <1>7, <1>8, <2>1, <2>2, <2>3, <2>4 DEF Then
<1>10. /\ todo' \in Seq(Works) /\ Tidy(todo')
       /\ todo' = <<>> => Ends(todo') = "nothing"
       /\ todo' # <<>> => Head(todo').k = "position" /\ Ends(todo') = "subscribe" /\ ~opens /\ Work.resume
  <2>1. CASE opens \/ ~Work.resume
    <3>1. todo' = <<>>
      BY <1>9, <2>1
    <3>. QED
      BY <3>1, NothingIs
  <2>2. CASE ~(opens \/ ~Work.resume)
    <3>1. todo' = Start(FALSE)
      BY <1>9, <2>2
    <3>2. /\ todo' \in Seq(Works) /\ todo' # <<>> /\ Tidy(todo') /\ Ends(todo') = "subscribe"
          /\ Head(todo').k = "position"
      BY <3>1, StartIs
    <3>. QED
      BY <2>2, <3>2
  <2>. QED
    BY <2>1, <2>2
<1>11. mirror.position \in Nat /\ mirror.position <= End /\ read' \in Nat /\ read' <= End
  BY <1>3, <1>9 DEF Places, Upto, TypeOK, Whole, States, Queued
<1>12. TypeOK'
  BY <1>2, <1>3, <1>9, <1>10, <1>11 DEF TypeOK, Attempts
<1>13. Shape'
  <2>1. tasks' \cap Attempts # {} => ~live' /\ todo' = <<>>
    BY <1>6, <1>9
  <2>2. ~(Attempts \subseteq tasks')
    BY <1>6, <1>9, AttemptsIs DEF Attempts
  <2>3. Starting' <=> Ends(todo') = "subscribe"
    BY DEF Starting
  <2>4. Doing("position")' => todo' # <<>>
    BY DEF Doing
  <2>5. todo' = <<>> => ~Doing("rows")' /\ ~Doing("versions")' /\ ~Doing("position")'
    BY DEF Doing
  <2>. QED
    BY <1>2, <1>6, <1>9, <1>10, <2>1, <2>2, <2>3, <2>4, <2>5 DEF Shape
<1>14. End' = End /\ Content' /\ Saved' /\ Unmixed' /\ (Mixed \subseteq mixed)' /\ mixed \subseteq mixed'
  BY <1>2, SameRows, SameContent, SameSaved, MixedGrows DEF IInv
<1>15. Queued'
  <2>1. inbox' = <<>> /\ resync' = 0 /\ Len(inbox') = 0
    BY <1>2, <1>6
  <2>. QED
    BY <1>11, <1>14, <2>1 DEF Queued
<1>16. Applied' = mirror.position /\ Applied = mirror.position
  BY <1>2, <1>6, <1>9, <1>11 DEF Applied
<1>17. Ahead'
  <2>1. ASSUME NEW task \in tasks' PROVE Head(task).k # "rows"
    <3>1. CASE task \in tasks
      BY <1>3, <1>6, <3>1 DEF IInv, Ahead
    <3>2. CASE task \notin tasks
      BY <1>9, <3>2, AttemptsIs DEF Attempts
    <3>. QED
      BY <3>1, <3>2
  <2>. QED
    BY <1>10, <2>1 DEF Ahead, Doing
<1>18. DraftRows' /\ DraftPerson' /\ DraftMembers' /\ Drafted'
  BY <1>10, NoDraft
<1>19. Coming' = {} /\ Coming = {}
  BY <1>4, <1>5, <1>10 DEF Coming
<1>20. Holds'
  <2> SUFFICES ASSUME ~Lapsed(owed), mirror.ready PROVE Truth(mirror, Applied, mixed, Free)'
    BY <1>2 DEF Holds
  <2>1. PICK m, from, mix, free, more, freer :
            /\ m = mirror /\ from = Applied /\ mix = mixed /\ free = Free /\ more = mixed' /\ freer = Free'
    OBVIOUS
  <2>2. Truth(m, from, mix, free)
    BY <2>1 DEF IInv, Holds
  <2>3. Missed(owed, torn, mixed) \subseteq Missed(owed, torn, mixed')
    BY <1>14, MissedMore
  <2>4. mix \subseteq more /\ free \subseteq freer
    BY <1>2, <1>14, <1>19, <2>1, <2>3 DEF Free
  <2>5. Truth(m, from, more, freer)
    BY <2>2, <2>4, TruthMore
  <2>6. Truth(m, from, more, freer)'
    BY <1>2, <2>5, SameTruth
  <2>. QED
    BY <1>2, <1>16, <2>1, <2>6
<1>21. Places'
  BY <1>2, <1>3, <1>6, <1>10, <1>11, <1>14, <1>16 DEF Places, Upto
<1>22. Unsettled'
  BY <1>19 DEF Unsettled
<1>. QED
  BY <1>12, <1>13, <1>14, <1>15, <1>17, <1>18, <1>20, <1>21, <1>22 DEF IInv

\* The states of the reloads that are deferred.
Deferrals == [group : BOOLEAN, members : IdSets, position : Nat]

LEMMA SettleIs ==
    ASSUME NEW m, Whole(m), NEW d \in Deferrals, NEW n \in Nat, Settle(m, d, n)
    PROVE  /\ Whole(mirror') /\ Says(mirror', m) /\ mirror'.members = m.members
           /\ deferred' \in Deferrals
           /\ \/ mirror'.position = n /\ deferred' = Quiet
              \/ mirror'.position = m.position /\ deferred'.position = n
<1>1. m \in States
  BY DEF Whole
<1>2. CASE d = Quiet
  <2>1. mirror' = [m EXCEPT !.position = n] /\ deferred' = Quiet
    BY <1>2 DEF Settle
  <2>2. /\ mirror' \in States /\ mirror'.position = n /\ mirror'.people = m.people
        /\ mirror'.rendered = m.rendered /\ mirror'.ready = m.ready
        /\ mirror'.marked = m.marked /\ mirror'.known = m.known /\ mirror'.members = m.members
    BY <1>1, <2>1 DEF States
  <2>. QED
    BY <1>2, <2>1, <2>2 DEF Whole, Says
<1>3. CASE d # Quiet
  <2>1. mirror' = m /\ deferred' = [d EXCEPT !.position = n]
    BY <1>3 DEF Settle
  <2>. QED
    BY <2>1 DEF Says, Deferrals
<1>. QED
  BY <1>2, <1>3

LEMMA EndRelinkKeeps ==
    ASSUME IInv, EndRelink, NoteMixed
    PROVE  IInv'
<1> HIDE DEF Works
<1>1. /\ todo # <<>> /\ Work.k = "relinked" /\ Then(<<>>)
      /\ UNCHANGED <<contentVars, draft, tasks, trackVars, streamVars, file, owed, torn>>
  BY DEF EndRelink, Doing, Work
<1>2. PICK d : /\ Settle(mirror, d, Work.position)
               /\ d = [deferred EXCEPT !.members = @ \cup (Work.ids \cap DOMAIN mirror.members)]
  BY DEF EndRelink
<1>3. /\ past' = past /\ log' = log /\ inbox' = inbox /\ resync' = resync /\ live' = live /\ read' = read
      /\ file' = file /\ tasks' = tasks /\ loads' = loads /\ waiting' = waiting
      /\ owed' = owed /\ torn' = torn
  BY <1>1 DEF contentVars, trackVars, streamVars
<1>4. TypeOK /\ Shape /\ ~Idle
  BY <1>1 DEF IInv, Idle
<1>5. /\ Work \in Works /\ Work.position \in Nat /\ Work.ids \in IdSets
      /\ todo' \in Seq(Works) /\ Tidy(todo')
      /\ todo' # <<>> => Ends(todo') = Ends(todo)
      /\ todo' = <<>> => Ends(todo') = "nothing" /\ Ends(todo) = Work.k /\ todo[Len(todo)] = Work
      /\ Coming' \subseteq Coming
      /\ \A x \in Coming : x \in Coming' \/ (Work.k \in Relinking /\ x = <<Work.list, Work.id>>)
  BY <1>1, <1>4, Tailed, WorkIs
<1>6. todo' = <<>>
  <2>1. PICK s, u : s = todo /\ u = <<>> \o Tail(s) /\ u = todo'
    BY <1>1 DEF Then
  <2>2. s \in Seq(Works) /\ Tidy(s) /\ s # <<>>
    BY <1>1, <1>4, <2>1 DEF TypeOK, Shape
  <2>3. InPlace(Head(s).k, 1, Len(s), Ends(s))
    BY <2>2, HeadIs
  <2>4. Len(s) = 1
    BY <1>1, <2>1, <2>3 DEF InPlace, Work
  <2>. QED
    BY <2>1, <2>2, <2>4, TailIs
<1>7. live
  BY <1>1, <1>4, <1>5, <1>6 DEF Shape
<1>8. Coming = {} /\ Coming' = {}
  BY <1>1, <1>5, <1>6 DEF Coming, Relinking
<1>9. d \in Deferrals
  BY <1>2, <1>4, <1>5 DEF Deferrals, TypeOK, IdSets
<1>10. /\ Whole(mirror') /\ Says(mirror', mirror) /\ deferred' \in Deferrals
       /\ \/ mirror'.position = Work.position /\ deferred' = Quiet
          \/ mirror'.position = mirror.position /\ deferred'.position = Work.position
  BY <1>2, <1>4, <1>5, <1>9, SettleIs DEF TypeOK
<1>11. TypeOK'
  BY <1>3, <1>4, <1>5, <1>10 DEF TypeOK, Deferrals
<1>12. Shape'
  <2>1. ~Starting' /\ ~Doing("position")' /\ ~Doing("rows")' /\ ~Doing("versions")'
    BY <1>5, <1>6 DEF Starting, Doing
  <2>. QED
    BY <1>3, <1>4, <1>5, <1>6, <1>7, <2>1 DEF Shape
<1>13. Ahead'
  BY <1>3, <1>6, SameAhead DEF IInv
<1>14. DraftRows' /\ DraftPerson' /\ DraftMembers' /\ Drafted'
  BY <1>6, NoDraft
<1>15. mixed \subseteq mixed' => Free \subseteq Free'
  BY <1>3, <1>8, MissedMore DEF Free
<1>16. \A p : Upto(p) => Upto(p)'
  BY <1>1, <1>5, <1>6, <1>10 DEF Upto
<1>. QED
  BY <1>1, <1>3, <1>7, <1>8, <1>10, <1>11, <1>12, <1>13, <1>14, <1>15, <1>16, TaskKeeps

LEMMA EndFlushKeeps ==
    ASSUME IInv, EndFlush, NoteMixed
    PROVE  IInv'
<1> HIDE DEF Works
<1>1. /\ todo # <<>> /\ Work.k = "flushed" /\ Then(<<>>)
      /\ mirror' = [mirror EXCEPT !.position = Work.position]
      /\ UNCHANGED <<contentVars, draft, tasks, deferred, trackVars, streamVars, file, owed, torn>>
  BY DEF EndFlush, Doing, Work
<1>3. /\ past' = past /\ log' = log /\ inbox' = inbox /\ resync' = resync /\ live' = live /\ read' = read
      /\ file' = file /\ tasks' = tasks /\ loads' = loads /\ waiting' = waiting
      /\ owed' = owed /\ torn' = torn /\ deferred' = deferred
  BY <1>1 DEF contentVars, trackVars, streamVars
<1>4. TypeOK /\ Shape /\ ~Idle
  BY <1>1 DEF IInv, Idle
<1>5. /\ Work \in Works /\ Work.position \in Nat
      /\ todo' \in Seq(Works) /\ Tidy(todo')
      /\ todo' # <<>> => Ends(todo') = Ends(todo)
      /\ todo' = <<>> => Ends(todo') = "nothing" /\ Ends(todo) = Work.k /\ todo[Len(todo)] = Work
      /\ Coming' \subseteq Coming
      /\ \A x \in Coming : x \in Coming' \/ (Work.k \in Relinking /\ x = <<Work.list, Work.id>>)
  BY <1>1, <1>4, Tailed, WorkIs
<1>6. todo' = <<>>
  <2>1. PICK s, u : s = todo /\ u = <<>> \o Tail(s) /\ u = todo'
    BY <1>1 DEF Then
  <2>2. s \in Seq(Works) /\ Tidy(s) /\ s # <<>>
    BY <1>1, <1>4, <2>1 DEF TypeOK, Shape
  <2>3. InPlace(Head(s).k, 1, Len(s), Ends(s))
    BY <2>2, HeadIs
  <2>4. Len(s) = 1
    BY <1>1, <2>1, <2>3 DEF InPlace, Work
  <2>. QED
    BY <2>1, <2>2, <2>4, TailIs
<1>7. live
  BY <1>1, <1>4, <1>5, <1>6 DEF Shape
<1>8. Coming = {} /\ Coming' = {}
  BY <1>1, <1>5, <1>6 DEF Coming, Relinking
<1>10. Whole(mirror') /\ Says(mirror', mirror) /\ mirror'.position = Work.position
  <2>1. mirror \in States
    BY <1>4 DEF TypeOK, Whole
  <2>2. /\ mirror' \in States /\ mirror'.position = Work.position /\ mirror'.people = mirror.people
        /\ mirror'.rendered = mirror.rendered /\ mirror'.ready = mirror.ready
        /\ mirror'.marked = mirror.marked /\ mirror'.known = mirror.known
    BY <1>1, <1>5, <2>1 DEF States
  <2>. QED
    BY <1>4, <2>2 DEF Whole, Says, TypeOK
<1>11. TypeOK'
  BY <1>3, <1>4, <1>5, <1>10 DEF TypeOK
<1>12. Shape'
  <2>1. ~Starting' /\ ~Doing("position")' /\ ~Doing("rows")' /\ ~Doing("versions")'
    BY <1>5, <1>6 DEF Starting, Doing
  <2>. QED
    BY <1>3, <1>4, <1>5, <1>6, <1>7, <2>1 DEF Shape
<1>13. Ahead'
  BY <1>3, <1>6, SameAhead DEF IInv
<1>14. DraftRows' /\ DraftPerson' /\ DraftMembers' /\ Drafted'
  BY <1>6, NoDraft
<1>15. mixed \subseteq mixed' => Free \subseteq Free'
  BY <1>3, <1>8, MissedMore DEF Free
<1>16. \A p : Upto(p) => Upto(p)'
  BY <1>1, <1>3, <1>5, <1>6, <1>10 DEF Upto
<1>. QED
  BY <1>1, <1>3, <1>7, <1>8, <1>10, <1>11, <1>12, <1>13, <1>14, <1>15, <1>16, TaskKeeps

-----------------------------------------------------------------------------
(* Other tasks                                                             *)

LEMMA RetryOne ==
    ASSUME NEW w \in Works, w.k \in {"rows", "members", "group", "reload"}, NEW s, s = <<w>>
    PROVE  Retry(s) /\ Head(s) = w
<1> HIDE DEF Works
<1>. QED
  BY OneIs DEF Retry

LEMMA TasksAre ==
    ASSUME TypeOK, NEW task \in tasks
    PROVE  /\ task \in Seq(Works) /\ task # <<>> /\ Tidy(task)
           /\ Ends(task) \notin {"relinked", "flushed"}
           /\ Head(task).k \notin {"versions", "adopt", "access", "loaded"}
           /\ task \in Attempts => Ends(task) = "subscribe" /\ Head(task).k # "rows"
           /\ task \notin Attempts => Ends(task) # "subscribe" /\ Head(task).k # "position"
<1> HIDE DEF Works
<1>1. CASE task \in Attempts
  BY <1>1, AttemptsIs
<1>2. CASE task \notin Attempts
  BY <1>2, RetryIs DEF TypeOK
<1>. QED
  BY <1>1, <1>2

\* A task begins when there is none, or what there is ends nowhere.
LEMMA RunTaskKeeps ==
    ASSUME IInv, RunTask, NoteMixed
    PROVE  IInv'
<1> HIDE DEF Works
<1>1. PICK task \in tasks : todo' = task /\ tasks' = tasks \ {task}
  BY DEF RunTask
<1>2. /\ todo = <<>> /\ deferred = Quiet
      /\ UNCHANGED <<contentVars, mirror, draft, deferred, trackVars, streamVars, file, owed, torn>>
  BY DEF RunTask, Calm, Idle
<1>3. /\ past' = past /\ log' = log /\ inbox' = inbox /\ resync' = resync /\ live' = live /\ read' = read
      /\ file' = file /\ loads' = loads /\ waiting' = waiting /\ mirror' = mirror
      /\ owed' = owed /\ torn' = torn /\ deferred' = deferred
  BY <1>2 DEF contentVars, trackVars, streamVars
<1>4. TypeOK /\ Shape /\ Ahead
  BY DEF IInv
<1>5. /\ task \in Seq(Works) /\ task # <<>> /\ Tidy(task)
      /\ Ends(task) \notin {"relinked", "flushed"}
      /\ Head(task).k \notin {"versions", "adopt", "access", "loaded"}
      /\ task \in Attempts => Ends(task) = "subscribe" /\ Head(task).k # "rows"
      /\ task \notin Attempts => Ends(task) # "subscribe" /\ Head(task).k # "position"
  BY <1>4, TasksAre
<1>6. TypeOK'
  BY <1>1, <1>3, <1>4, <1>5 DEF TypeOK
<1>7. Shape'
  <2>1. Starting' => task \in Attempts
    BY <1>1, <1>5 DEF Starting
  <2>2. live => task \notin Attempts
    BY <1>4 DEF Shape
  <2>3. task \in Attempts => tasks' \cap Attempts = {}
    BY <1>1, <1>4 DEF Shape, Attempts
  <2>4. Head(task).k = "rows" => live
    BY <1>4 DEF Ahead
  <2>5. Doing("position")' => task \in Attempts /\ Starting'
    BY <1>1, <1>5 DEF Doing, Starting
  <2>6. ~Doing("versions")' /\ (Doing("rows")' => live)
    BY <1>1, <1>5, <2>4 DEF Doing
  <2>7. Tidy(todo') /\ deferred' = Quiet /\ Ends(todo') \notin {"relinked", "flushed"}
    BY <1>1, <1>2, <1>3, <1>5
  <2>8. live' => ~Starting' /\ ~Doing("position")' /\ tasks' \cap Attempts = {}
    BY <1>1, <1>3, <1>4, <2>1, <2>2, <2>5 DEF Shape
  <2>9. (Starting' => tasks' \cap Attempts = {}) /\ ~(Attempts \subseteq tasks')
    BY <1>1, <1>4, <2>1, <2>3 DEF Shape
  <2>. QED
    BY <1>3, <2>5, <2>6, <2>7, <2>8, <2>9 DEF Shape
<1>8. Ahead'
  <2>1. todo' # <<>> /\ Head(todo').k \in {"rows", "versions"} => Before(Head(todo').position)
    BY <1>1, <1>4, <1>5 DEF Ahead
  <2>. QED
    BY <1>1, <1>3, <1>4, <2>1, SameAhead
<1>9. DraftRows' /\ DraftPerson' /\ DraftMembers' /\ Drafted'
  BY <1>1, <1>5, NoDraft
<1>10. Coming = {} /\ Coming' = {}
  BY <1>1, <1>2, <1>5 DEF Coming, Ends
<1>11. mixed \subseteq mixed' => Free \subseteq Free'
  BY <1>3, <1>10, MissedMore DEF Free
<1>12. \A p : Upto(p) => Upto(p)'
  BY <1>1, <1>3, <1>5 DEF Upto
<1>13. Says(mirror', mirror)
  BY <1>3 DEF Says
<1>. QED
  BY <1>2, <1>3, <1>6, <1>7, <1>8, <1>9, <1>10, <1>11, <1>12, <1>13, TaskKeeps

LEMMA FlushTracksKeeps ==
    ASSUME IInv, FlushTracks, NoteMixed
    PROVE  IInv'
<1> HIDE DEF Works
<1>2. /\ todo = <<>> /\ deferred = Quiet /\ todo' = <<LoadMembers(loads)>> /\ loads' = {}
      /\ UNCHANGED <<contentVars, mirror, draft, tasks, deferred, streamVars, file, owed, torn, waiting>>
  BY DEF FlushTracks, Calm, Idle
<1>3. /\ past' = past /\ log' = log /\ inbox' = inbox /\ resync' = resync /\ live' = live /\ read' = read
      /\ file' = file /\ tasks' = tasks /\ waiting' = waiting /\ mirror' = mirror
      /\ owed' = owed /\ torn' = torn /\ deferred' = deferred
  BY <1>2 DEF contentVars, trackVars, streamVars
<1>4. TypeOK /\ Shape /\ Ahead
  BY DEF IInv
<1>5. PICK w \in Works : w = LoadMembers(loads) /\ w.k = "members"
  <2>1. loads \in IdSets
    BY <1>4 DEF TypeOK
  <2>2. LoadMembers(loads) \in Works /\ LoadMembers(loads).k = "members"
    BY <2>1 DEF LoadMembers, Works
  <2>. QED
    BY <2>2
<1>6. /\ todo' \in Seq(Works) /\ todo' # <<>> /\ Head(todo') = w /\ Ends(todo') = "members" /\ Tidy(todo')
  BY <1>2, <1>5, OneIs
<1>7. TypeOK'
  BY <1>2, <1>3, <1>4, <1>6 DEF TypeOK, IdSets
<1>8. Shape'
  <2>1. ~Starting' /\ ~Doing("position")' /\ ~Doing("rows")' /\ ~Doing("versions")'
    BY <1>5, <1>6 DEF Starting, Doing
  <2>. QED
    BY <1>2, <1>3, <1>4, <1>6, <2>1 DEF Shape
<1>9. Ahead'
  BY <1>3, <1>4, <1>5, <1>6, SameAhead
<1>10. DraftRows' /\ DraftPerson' /\ DraftMembers' /\ Drafted'
  BY <1>5, <1>6, NoDraft
<1>11. Coming = {} /\ Coming' = {}
  BY <1>2, <1>6 DEF Coming, Ends
<1>12. mixed \subseteq mixed' => Free \subseteq Free'
  BY <1>3, <1>11, MissedMore DEF Free
<1>13. \A p : Upto(p) => Upto(p)'
  BY <1>3, <1>6 DEF Upto
<1>14. Says(mirror', mirror)
  BY <1>3 DEF Says
<1>. QED
  BY <1>2, <1>3, <1>7, <1>8, <1>9, <1>10, <1>11, <1>12, <1>13, <1>14, TaskKeeps

\* What a failure leaves to do, and what it leaves old.
LEMMA AgainIs ==
    ASSUME IInv, todo # <<>>, Work.k \notin {"loaded", "relinked", "flushed"}
    PROVE  /\ \A task \in Again : task \in Attempts \/ Retry(task)
           /\ ~Starting \/ Work.k \notin {"position", "rows", "versions", "subscribe"} =>
                  \A task \in Again : Retry(task)
           /\ Starting => \A task \in Again : task \in Attempts =>
                  task = Start(Last(todo).resume) /\ Last(todo).resume \in BOOLEAN
           /\ \A task \in Again : Head(task).k = "rows" => live /\ Before(Head(task).position)
           /\ Work.k \in Relinking => Again = {<<Reload(Work.list, Work.id)>>}
           /\ Work.k \in {"position", "rows", "versions", "subscribe"} =>
                  /\ Ends(todo) # "relinked"
                  /\ Ends(todo) # "subscribe" => Work.k \in {"rows", "versions"}
<1> HIDE DEF Works
<1>1. TypeOK /\ Shape /\ Ahead
  BY DEF IInv
<1>2. /\ Work \in Works /\ InPlace(Work.k, 1, Len(todo), Ends(todo))
      /\ todo \in Seq(Works) /\ Len(todo) \in Nat /\ Len(todo) >= 1
      /\ Len(todo) = 1 => Ends(todo) = Work.k
  <2>1. todo \in Seq(Works) /\ Tidy(todo)
    BY <1>1 DEF TypeOK, Shape
  <2>2. /\ Head(todo) \in Works /\ InPlace(Head(todo).k, 1, Len(todo), Ends(todo))
        /\ Len(todo) = 1 => Ends(todo) = Head(todo).k
    BY <2>1, HeadIs
  <2>3. Len(todo) # 0
    BY <2>1, EmptySeq
  <2>. QED
    BY <2>1, <2>2, <2>3 DEF Work
<1>3. Last(todo) \in Works /\ Last(todo).k = Ends(todo)
  BY <1>2 DEF Last, Ends
<1>4. Work.k \in {"position", "rows", "versions", "subscribe"} =>
          /\ Ends(todo) # "relinked"
          /\ Ends(todo) # "subscribe" => Work.k \in {"rows", "versions"}
  <2>1. Work.k = "subscribe" => Ends(todo) = "subscribe"
    BY <1>2 DEF InPlace
  <2>2. Work.k \in Loading => Ends(todo) = "subscribe" \/ Ends(todo) = Work.k
    BY <1>2 DEF InPlace, Loading
  <2>3. Work.k = "position" => Ends(todo) = "subscribe"
    <3>1. Doing("position") <=> Work.k = "position"
      BY DEF Doing, Work
    <3>. QED
      BY <1>1, <3>1 DEF Shape, Starting
  <2>. QED
    BY <2>1, <2>2, <2>3 DEF Loading
<1>5. CASE Work.k \in {"position", "rows", "versions", "subscribe"} /\ Ends(todo) = "subscribe"
  <2>1. Again = {Start(Last(todo).resume)}
    BY <1>3, <1>5 DEF Again
  <2>2. Last(todo).resume \in BOOLEAN
    BY <1>3, <1>5, WorkIs
  <2>3. Start(Last(todo).resume) \in Attempts
    BY <2>2 DEF Attempts
  <2>4. Head(Start(Last(todo).resume)).k # "rows"
    BY <2>3, AttemptsIs
  <2>. QED
    BY <1>4, <1>5, <2>1, <2>2, <2>3, <2>4 DEF Starting, Relinking
<1>6. CASE Work.k \in {"position", "rows", "versions", "subscribe"} /\ Ends(todo) # "subscribe"
  <2>1. Again = {<<FullLoad(Work.position)>>} /\ Work.k \in {"rows", "versions"}
    BY <1>3, <1>4, <1>6 DEF Again
  <2>2. Doing("rows") \/ Doing("versions")
    BY <2>1 DEF Doing, Work
  <2>3. live /\ Before(Work.position)
    BY <1>1, <1>6, <2>2 DEF Shape, Ahead, Starting
  <2>4. FullLoad(Work.position) \in Works /\ FullLoad(Work.position).k = "rows"
        /\ FullLoad(Work.position).position = Work.position
    <3>1. Work.position \in Nat
      BY <1>2, <2>1, WorkIs
    <3>. QED
      BY <3>1 DEF FullLoad, Works
  <2>5. Retry(<<FullLoad(Work.position)>>) /\ Head(<<FullLoad(Work.position)>>) = FullLoad(Work.position)
    BY <2>4, RetryOne
  <2>. QED
    BY <1>4, <1>6, <2>1, <2>3, <2>4, <2>5 DEF Starting, Relinking
<1>7. CASE Work.k \in {"members", "access"}
  <2>1. Again = {<<LoadMembers({k})>> : k \in Work.keys \cap DOMAIN mirror.members}
    BY <1>7 DEF Again
  <2>2. Work.keys \in IdSets
    BY <1>2, <1>7, WorkIs
  <2>3. ASSUME NEW task \in Again PROVE Retry(task) /\ Head(task).k = "members"
    <3>1. PICK k \in Work.keys : task = <<LoadMembers({k})>>
      BY <2>1
    <3>2. {k} \in IdSets
      BY <2>2 DEF IdSets
    <3>3. LoadMembers({k}) \in Works /\ LoadMembers({k}).k = "members"
      BY <3>2 DEF LoadMembers, Works
    <3>. QED
      BY <3>1, <3>3, RetryOne
  <2>. QED
    BY <1>7, <2>3, RetryIs DEF Relinking
<1>8. CASE Work.k = "group"
  <2>1. Again = {<<LoadGroup>>}
    BY <1>8 DEF Again
  <2>2. LoadGroup \in Works /\ LoadGroup.k = "group"
    BY DEF LoadGroup, Works
  <2>3. Retry(<<LoadGroup>>) /\ Head(<<LoadGroup>>) = LoadGroup
    BY <2>2, RetryOne
  <2>. QED
    BY <1>8, <2>1, <2>2, <2>3, RetryIs DEF Relinking
<1>9. CASE Work.k \in Relinking
  <2>1. Again = {<<Reload(Work.list, Work.id)>>}
    BY <1>9 DEF Again, Relinking
  <2>2. Reload(Work.list, Work.id) \in Works /\ Reload(Work.list, Work.id).k = "reload"
    <3>1. Work.list \in Lists /\ Work.id \in Ids
      BY <1>2, <1>9, WorkIs
    <3>. QED
      BY <3>1 DEF Reload, Works
  <2>3. Retry(<<Reload(Work.list, Work.id)>>) /\ Head(<<Reload(Work.list, Work.id)>>).k = "reload"
    BY <2>2, RetryOne
  <2>. QED
    BY <1>9, <2>1, <2>2, <2>3, RetryIs DEF Relinking
<1>10. Work.k \in {"position", "group", "subscribe", "rows", "versions", "members", "access", "reload", "adopt"}
  BY <1>2 DEF Works
<1>. QED
  BY <1>5, <1>6, <1>7, <1>8, <1>9, <1>10 DEF Relinking

LEMMA RequestFailsKeeps ==
    ASSUME IInv, RequestFails, NoteMixed
    PROVE  IInv'
<1> HIDE DEF Works
<1>1. /\ todo # <<>> /\ Work.k \notin {"loaded", "relinked", "flushed"}
      /\ tasks' = tasks \cup Again
      /\ owed' = owed \cup {w \in {Head(task) : task \in Again} : w.k \notin {"position", "subscribe"}}
      /\ waiting' = IF Work.k \in {"members", "access"} THEN waiting \ Work.keys ELSE waiting
      /\ UNCHANGED <<contentVars, mirror, deferred, loads, streamVars, file, torn>>
  BY DEF RequestFails, Idle
<1>2. IF Work.k \in {"position", "rows", "versions", "subscribe"} THEN todo' = <<>> ELSE Then(<<>>)
  BY DEF RequestFails
<1>3. /\ past' = past /\ log' = log /\ inbox' = inbox /\ resync' = resync /\ live' = live /\ read' = read
      /\ file' = file /\ loads' = loads /\ mirror' = mirror /\ torn' = torn /\ deferred' = deferred
  BY <1>1 DEF contentVars, streamVars
<1>4. TypeOK /\ Shape /\ Ahead /\ ~Idle
  BY <1>1 DEF IInv, Idle
<1>5. /\ \A task \in Again : task \in Attempts \/ Retry(task)
      /\ ~Starting \/ Work.k \notin {"position", "rows", "versions", "subscribe"} =>
             \A task \in Again : Retry(task)
      /\ Starting => \A task \in Again : task \in Attempts =>
             task = Start(Last(todo).resume) /\ Last(todo).resume \in BOOLEAN
      /\ \A task \in Again : Head(task).k = "rows" => live /\ Before(Head(task).position)
      /\ Work.k \in Relinking => Again = {<<Reload(Work.list, Work.id)>>}
      /\ Work.k \in {"position", "rows", "versions", "subscribe"} =>
             /\ Ends(todo) # "relinked"
             /\ Ends(todo) # "subscribe" => Work.k \in {"rows", "versions"}
  BY <1>1, AgainIs
<1>6. /\ todo' \in Seq(Works) /\ Tidy(todo')
      /\ todo' # <<>> => /\ Head(todo').k \notin First_ /\ Ends(todo') = Ends(todo)
                         /\ todo'[Len(todo')] = todo[Len(todo)]
                         /\ Work.k \notin {"position", "rows", "versions", "subscribe"}
      /\ todo' = <<>> => Ends(todo') = "nothing"
      /\ Coming' \subseteq Coming
      /\ \A x \in Coming : x \in Coming' \/ (Work.k \in Relinking /\ x = <<Work.list, Work.id>>)
  <2>1. CASE Work.k \in {"position", "rows", "versions", "subscribe"}
    <3>1. todo' = <<>>
      BY <1>2, <2>1
    <3>2. todo' \in Seq(Works) /\ Tidy(todo') /\ Ends(todo') = "nothing"
      BY <3>1, NothingIs
    <3>3. Coming = {} /\ Coming' = {}
      BY <1>5, <2>1, <3>2 DEF Coming
    <3>. QED
      BY <3>1, <3>2, <3>3
  <2>2. CASE Work.k \notin {"position", "rows", "versions", "subscribe"}
    <3>1. Then(<<>>)
      BY <1>2, <2>2
    <3>. QED
      BY <1>4, <2>2, <3>1, Tailed
  <2>. QED
    BY <2>1, <2>2
<1>7. TypeOK'
  <2>1. waiting' \in IdSets
    BY <1>1, <1>4 DEF TypeOK, IdSets
  <2>. QED
    BY <1>1, <1>3, <1>4, <1>5, <1>6, <2>1 DEF TypeOK
<1>8. Shape'
  <2>1. (\E task \in Again : task \in Attempts) =>
            Starting /\ Work.k \in {"position", "rows", "versions", "subscribe"} /\ todo' = <<>>
    BY <1>5, <1>6, RetryIs
  <2>2. Starting => ~live /\ tasks \cap Attempts = {}
    BY <1>4 DEF Shape
  <2>3. ~(Attempts \subseteq tasks')
    <3>1. CASE \E task \in Again : task \in Attempts
      <4>1. Starting /\ tasks \cap Attempts = {}
        BY <2>1, <2>2, <3>1
      <4>2. \A task \in tasks' : task \in Attempts => task = Start(Last(todo).resume)
        BY <1>1, <1>5, <4>1
      <4>. QED
        BY <4>2, AttemptsIs DEF Attempts
    <3>2. CASE ~ \E task \in Again : task \in Attempts
      BY <1>1, <1>4, <3>2 DEF Shape
    <3>. QED
      BY <3>1, <3>2
  <2>4. Starting' => Starting /\ todo' # <<>>
    BY <1>6 DEF Starting
  <2>5. Starting' => tasks' \cap Attempts = {}
    BY <1>1, <2>1, <2>2, <2>4
  <2>6. live => ~Starting' /\ tasks' \cap Attempts = {}
    BY <1>1, <1>4, <2>1, <2>2, <2>4 DEF Shape
  <2>7. ~Doing("position")' /\ ~Doing("rows")' /\ ~Doing("versions")'
    BY <1>6 DEF Doing, First_, Loading
  <2>8. ~live => deferred = Quiet /\ Ends(todo') \notin {"relinked", "flushed"}
    BY <1>4, <1>6 DEF Shape
  <2>9. deferred # Quiet => todo' = <<>> \/ Ends(todo') = "relinked"
    BY <1>1, <1>4, <1>6 DEF Shape
  <2>. QED
    BY <1>3, <1>6, <2>3, <2>5, <2>6, <2>7, <2>8, <2>9 DEF Shape
<1>9. Ahead'
  <2>1. \A task \in tasks' : task \in tasks \/ (Head(task).k = "rows" => live /\ Before(Head(task).position))
    BY <1>1, <1>5
  <2>2. todo' # <<>> => Head(todo').k \notin {"rows", "versions"}
    BY <1>6 DEF First_, Loading
  <2>. QED
    BY <1>3, <1>4, <2>1, <2>2, SameAhead
<1>10. DraftRows' /\ DraftPerson' /\ DraftMembers' /\ Drafted'
  BY <1>6, NoDraft DEF First_, Loading
<1>11. mixed \subseteq mixed' => Free \subseteq Free'
  <2> SUFFICES ASSUME mixed \subseteq mixed', NEW x \in Free PROVE x \in Free'
    OBVIOUS
  <2>1. Missed(owed, torn, mixed) \subseteq Missed(owed', torn', mixed')
    BY <1>1, <1>3, MissedMore
  <2>2. CASE x \in Coming /\ x \notin Coming'
    <3>1. Work.k \in Relinking /\ x = <<Work.list, Work.id>> /\ x \in Lists \X Ids
      BY <1>6, <2>2 DEF Coming
    <3>2. Reload(x[1], x[2]) = Reload(Work.list, Work.id)
      BY <3>1
    <3>3. Reload(Work.list, Work.id) \in {Head(task) : task \in Again}
      <4>1. PICK r : r = Reload(Work.list, Work.id)
        OBVIOUS
      <4>2. <<r>> \in Again /\ Head(<<r>>) = r
        BY <1>5, <3>1, <4>1
      <4>. QED
        BY <4>1, <4>2
    <3>4. Reload(Work.list, Work.id) \in owed'
      BY <1>1, <3>3 DEF Reload
    <3>. QED
      BY <3>1, <3>2, <3>4 DEF Free, Missed
  <2>. QED
    BY <2>1, <2>2 DEF Free
<1>12. \A p : Upto(p) => Upto(p)'
  BY <1>3, <1>6, Following
<1>13. Says(mirror', mirror)
  BY <1>3 DEF Says
<1>14. \A w \in owed : w.k = "rows" => w \in owed'
  BY <1>1
<1>. QED
  BY <1>1, <1>3, <1>6, <1>7, <1>8, <1>9, <1>10, <1>11, <1>12, <1>13, <1>14, TaskKeeps

\* A task of requests that end with a step that publishes a position.
Finished(a, c) == a \o <<c>>
Ending(a, c) ==
    \/ c.k = "flushed" /\ \A n \in 1 .. Len(a) : a[n].k \in {"group", "members"}
    \/ c.k = "relinked" /\ \A n \in 1 .. Len(a) : a[n].k = "reload"

LEMMA ConcatIs ==
    ASSUME NEW S, NEW a \in Seq(S), NEW b \in Seq(S), NEW s, s = a \o b
    PROVE  /\ s \in Seq(S) /\ Len(s) = Len(a) + Len(b) /\ Len(a) \in Nat /\ Len(b) \in Nat
           /\ \A n \in 1 .. Len(a) : s[n] = a[n]
           /\ \A n \in Len(a) + 1 .. Len(a) + Len(b) : s[n] = b[n - Len(a)]
<1>1. /\ s \in Seq(S) /\ Len(s) = Len(a) + Len(b)
      /\ \A n \in 1 .. Len(a) + Len(b) : s[n] = IF n <= Len(a) THEN a[n] ELSE b[n - Len(a)]
  BY ConcatProperties, Zenon
<1>2. Len(a) \in Nat /\ Len(b) \in Nat
  OBVIOUS
<1>. QED
  BY <1>1, <1>2

LEMMA FinishedIs ==
    ASSUME NEW a \in Seq(Works), NEW c \in Works, Ending(a, c), NEW s, s = Finished(a, c)
    PROVE  /\ s \in Seq(Works) /\ s # <<>> /\ Tidy(s) /\ Ends(s) = c.k /\ s[Len(s)] = c
           /\ Len(s) = Len(a) + 1 /\ \A n \in 1 .. Len(a) : s[n] = a[n]
           /\ Head(s).k \in {c.k, "group", "members", "reload"}
<1> HIDE DEF Works
<1>1. PICK one : one = <<c>> /\ one \in Seq(Works) /\ Len(one) = 1 /\ one[1] = c
  BY OneIs
<1>2. s = a \o one
  BY <1>1 DEF Finished
<1>3. /\ s \in Seq(Works) /\ Len(s) = Len(a) + Len(one) /\ Len(a) \in Nat /\ Len(one) \in Nat
      /\ \A n \in 1 .. Len(a) : s[n] = a[n]
      /\ \A n \in Len(a) + 1 .. Len(a) + Len(one) : s[n] = one[n - Len(a)]
  BY <1>1, <1>2, ConcatIs
<1>4. Len(s) = Len(a) + 1 /\ s[Len(s)] = c
  BY <1>1, <1>3
<1>5. s # <<>> /\ Head(s) = s[1]
  BY <1>3, <1>4, EmptySeq
<1>6. Ends(s) = c.k
  BY <1>4, <1>5 DEF Ends
<1>7. PICK e : e = c.k
  OBVIOUS
<1>8. e \in {"flushed", "relinked"}
  BY <1>7 DEF Ending
<1>9. \A n \in 1 .. Len(a) : \/ e = "flushed" /\ s[n].k \in {"group", "members"}
                             \/ e = "relinked" /\ s[n].k = "reload"
  BY <1>3, <1>7 DEF Ending
<1>10. ASSUME NEW n \in 1 .. Len(s) PROVE InPlace(s[n].k, n, Len(s), Ends(s))
  <2>1. PICK k : k = s[n].k
    OBVIOUS
  <2>2. CASE n = Len(s)
    <3>1. k = e
      BY <1>4, <1>7, <2>1, <2>2
    <3>2. InPlace(k, n, Len(s), e)
      BY <1>3, <1>4, <1>8, <2>2, <3>1 DEF InPlace, First_, Loading, Relinking
    <3>. QED
      BY <1>6, <1>7, <2>1, <3>2
  <2>3. CASE n # Len(s)
    <3>1. \/ e = "flushed" /\ k \in {"group", "members"}
          \/ e = "relinked" /\ k = "reload"
      BY <1>3, <1>4, <1>9, <2>1, <2>3
    <3>2. InPlace(k, n, Len(s), e)
      BY <3>1 DEF InPlace, First_, Loading, Relinking
    <3>. QED
      BY <1>6, <1>7, <2>1, <3>2
  <2>. QED
    BY <2>2, <2>3
<1>11. s[1].k \in {e, "group", "members", "reload"}
  <2>1. CASE Len(a) = 0
    BY <1>4, <1>7, <2>1
  <2>2. CASE Len(a) # 0
    <3>1. 1 \in 1 .. Len(a)
      BY <1>3, <2>2
    <3>. QED
      BY <1>9, <3>1
  <2>. QED
    BY <2>1, <2>2
<1>. QED
  BY <1>3, <1>4, <1>5, <1>6, <1>7, <1>10, <1>11 DEF Tidy

\* The reloads of a flush, in their order.
Flushed(p) == [k |-> "flushed", position |-> p]
Flushing(a, keys) == a \o ReloadMembers(keys)

LEMMA FlushedIs ==
    ASSUME NEW a, a = <<>> \/ a = <<LoadGroup>>, NEW keys \in IdSets, NEW p \in Nat,
           NEW b, b = Flushing(a, keys)
    PROVE  /\ b \in Seq(Works) /\ Flushed(p) \in Works /\ Ending(b, Flushed(p))
           /\ Flushed(p).k = "flushed" /\ Flushed(p).position = p
<1> HIDE DEF Works
<1>1. LoadGroup \in Works /\ LoadGroup.k = "group"
  BY DEF LoadGroup, Works
<1>2. LoadMembers(keys) \in Works /\ LoadMembers(keys).k = "members"
  BY DEF LoadMembers, Works
<1>3. /\ Flushed(p) \in Works /\ Flushed(p).k = "flushed" /\ Flushed(p).position = p
  BY DEF Works, Flushed
<1>4. a \in Seq(Works) /\ \A n \in 1 .. Len(a) : a[n].k = "group"
  <2>1. CASE a = <<>>
    <3>1. a \in Seq(Works) /\ Len(a) = 0
      BY <2>1, EmptySeq
    <3>. QED
      BY <3>1
  <2>2. CASE a = <<LoadGroup>>
    <3>1. a \in Seq(Works) /\ Len(a) = 1 /\ a[1] = LoadGroup
      BY <1>1, <2>2, OneIs
    <3>. QED
      BY <1>1, <3>1
  <2>. QED
    BY <2>1, <2>2
<1>5. PICK r : r = ReloadMembers(keys)
  OBVIOUS
<1>6. r \in Seq(Works) /\ \A n \in 1 .. Len(r) : r[n].k = "members"
  <2>1. CASE r = <<>>
    <3>1. r \in Seq(Works) /\ Len(r) = 0
      BY <2>1, EmptySeq
    <3>. QED
      BY <3>1
  <2>2. CASE r = <<LoadMembers(keys)>>
    <3>1. r \in Seq(Works) /\ Len(r) = 1 /\ r[1] = LoadMembers(keys)
      BY <1>2, <2>2, OneIs
    <3>. QED
      BY <1>2, <3>1
  <2>. QED
    BY <1>5, <2>1, <2>2 DEF ReloadMembers
<1>7. b = a \o r
  BY <1>5 DEF Flushing
<1>8. /\ b \in Seq(Works) /\ Len(b) = Len(a) + Len(r) /\ Len(a) \in Nat /\ Len(r) \in Nat
      /\ \A n \in 1 .. Len(a) : b[n] = a[n]
      /\ \A n \in Len(a) + 1 .. Len(a) + Len(r) : b[n] = r[n - Len(a)]
  BY <1>4, <1>6, <1>7, ConcatIs
<1>9. ASSUME NEW n \in 1 .. Len(b) PROVE b[n].k \in {"group", "members"}
  <2>1. CASE n <= Len(a)
    BY <1>4, <1>8, <2>1
  <2>2. CASE n > Len(a)
    <3>1. n - Len(a) \in 1 .. Len(r) /\ n \in Len(a) + 1 .. Len(a) + Len(r)
      BY <1>8, <2>2
    <3>. QED
      BY <1>6, <1>8, <3>1
  <2>. QED
    BY <1>8, <2>1, <2>2
<1>. QED
  BY <1>3, <1>8, <1>9 DEF Ending

LEMMA FlushKeeps ==
    ASSUME IInv, Flush, NoteMixed
    PROVE  IInv'
<1> HIDE DEF Works
<1>1. PICK a : /\ a = <<>> \/ a = <<LoadGroup>>
               /\ todo' = Finished(Flushing(a, deferred.members), Flushed(deferred.position))
  BY DEF Flush, Finished, Flushing, Flushed
<1>2. /\ todo = <<>> /\ deferred # Quiet /\ deferred' = Quiet
      /\ UNCHANGED <<contentVars, mirror, draft, tasks, trackVars, streamVars, file, owed, torn>>
  BY DEF Flush, Idle
<1>3. /\ past' = past /\ log' = log /\ inbox' = inbox /\ resync' = resync /\ live' = live /\ read' = read
      /\ file' = file /\ tasks' = tasks /\ waiting' = waiting /\ loads' = loads /\ mirror' = mirror
      /\ owed' = owed /\ torn' = torn
  BY <1>2 DEF contentVars, trackVars, streamVars
<1>4. TypeOK /\ Shape /\ Ahead
  BY DEF IInv
<1>5. PICK keys \in IdSets, p \in Nat : keys = deferred.members /\ p = deferred.position
  BY <1>4 DEF TypeOK
<1>6. PICK b, c : b = Flushing(a, keys) /\ c = Flushed(p)
  OBVIOUS
<1>7. PICK s : s = todo'
  OBVIOUS
<1>8. b \in Seq(Works) /\ c \in Works /\ Ending(b, c) /\ c.k = "flushed" /\ c.position = p
  BY <1>1, <1>6, FlushedIs
<1>9. s = Finished(b, c)
  BY <1>1, <1>5, <1>6, <1>7
<1>10. /\ s \in Seq(Works) /\ s # <<>> /\ Tidy(s) /\ Ends(s) = "flushed" /\ s[Len(s)] = c
       /\ Head(s).k \in {"flushed", "group", "members", "reload"}
  BY <1>8, <1>9, FinishedIs
<1>11. live
  BY <1>2, <1>4 DEF Shape
<1>12. TypeOK'
  <2>1. Quiet \in [group : BOOLEAN, members : IdSets, position : Nat]
    BY DEF Quiet, IdSets
  <2>. QED
    BY <1>2, <1>3, <1>4, <1>7, <1>10, <2>1 DEF TypeOK
<1>13. Shape'
  <2>1. ~Starting' /\ ~Doing("position")' /\ ~Doing("rows")' /\ ~Doing("versions")'
    BY <1>7, <1>10 DEF Starting, Doing
  <2>. QED
    BY <1>2, <1>3, <1>4, <1>7, <1>10, <1>11, <2>1 DEF Shape
<1>14. Ahead'
  BY <1>3, <1>4, <1>7, <1>10, SameAhead
<1>15. DraftRows' /\ DraftPerson' /\ DraftMembers' /\ Drafted'
  BY <1>7, <1>10, NoDraft
<1>16. Coming = {} /\ Coming' = {}
  BY <1>2, <1>7, <1>10 DEF Coming, Ends
<1>17. mixed \subseteq mixed' => Free \subseteq Free'
  BY <1>3, <1>16, MissedMore DEF Free
<1>18. \A n : Upto(n) => Upto(n)'
  BY <1>2, <1>3, <1>5, <1>7, <1>8, <1>10 DEF Upto
<1>19. Says(mirror', mirror)
  BY <1>3 DEF Says
<1>. QED
  BY <1>2, <1>3, <1>12, <1>13, <1>14, <1>15, <1>16, <1>17, <1>18, <1>19, TaskKeeps

-----------------------------------------------------------------------------
(* Events                                                                  *)

\* The applier takes what is first in the queue.
LEMMA Taken ==
    ASSUME Content, TypeOK, Queued, inbox # <<>>, inbox' = Tail(inbox), past' = past, log' = log,
           live' = live, read' = read, resync' = resync,
           \A w \in owed : w.k = "rows" => w \in owed'
    PROVE  /\ Queued' /\ live /\ inbox' \in Seq(Items) /\ Applied' = Applied + 1
           /\ Head(inbox) = inbox[1] /\ inbox[1].position \in Nat /\ inbox[1].position <= End
           /\ \A p : Before(p) => Before(p)'
           /\ Aware => Aware'
<1> HIDE DEF Items
<1>1. PICK s : s = inbox'
  OBVIOUS
<1>2. /\ s \in Seq(Items) /\ Len(s) = Len(inbox) - 1 /\ Len(inbox) \in Nat /\ Len(inbox) >= 1
      /\ \A n \in 1 .. Len(s) : s[n] = inbox[n + 1]
  <2>1. inbox \in Seq(Items)
    BY DEF TypeOK
  <2>2. Tail(inbox) \in Seq(Items) /\ Len(Tail(inbox)) = Len(inbox) - 1
        /\ \A n \in 1 .. Len(Tail(inbox)) : Tail(inbox)[n] = inbox[n + 1]
    BY <2>1, HeadTailProperties, Zenon
  <2>3. Len(inbox) \in Nat /\ Len(inbox) >= 1
    BY <2>1, EmptySeq
  <2>. QED
    BY <1>1, <2>2, <2>3
<1>3. live
  BY DEF Queued
<1>4. \A n \in 1 .. Len(s) : n \in Nat /\ n + 1 \in 1 .. Len(inbox)
  BY <1>2
<1>5. \A x : Sent(x)' <=> Sent(x)
  BY DEF Sent, Named, First, Of, At, Holder, End
<1>6. ASSUME NEW n \in 1 .. Len(inbox) PROVE inbox[n].position \in Nat
  <2>1. inbox[n] \in Items
    BY DEF TypeOK
  <2>. QED
    BY <2>1 DEF Items
<1>7. Queued'
  <2>1. End' = End
    BY DEF End
  <2>2. ASSUME NEW n \in 1 .. Len(s) PROVE Follows(n)'
    <3>1. Follows(n + 1)
      BY <1>4 DEF Queued
    <3>2. s[n] = inbox[n + 1] /\ n \in Nat
      BY <1>2
    <3>3. ASSUME s[n].event = Told
          PROVE  /\ FullLoad(s[n].position) \in owed'
                 /\ resync # 0 => s[n].position <= resync
                 /\ \A m \in n + 1 .. Len(s) :
                       /\ s[n].position <= s[m].position
                       /\ s[m].event # Told => s[n].position # s[m].position
      <4>1. FullLoad(s[n].position) \in owed' /\ (resync # 0 => s[n].position <= resync)
        <5>1. FullLoad(s[n].position) \in owed /\ FullLoad(s[n].position).k = "rows"
          BY <3>1, <3>2, <3>3 DEF Follows, FullLoad
        <5>. QED
          BY <3>1, <3>2, <3>3, <5>1 DEF Follows
      <4>2. ASSUME NEW m \in n + 1 .. Len(s)
            PROVE  /\ s[n].position <= s[m].position
                   /\ s[m].event # Told => s[n].position # s[m].position
        <5>1. m \in 1 .. Len(s) /\ m + 1 \in (n + 1) + 1 .. Len(inbox) /\ s[m] = inbox[m + 1]
          BY <1>2, <3>2
        <5>. QED
          BY <3>1, <3>2, <3>3, <5>1 DEF Follows
      <4>. QED
        BY <4>1, <4>2
    <3>4. ASSUME resync = 0, \A m \in n .. Len(s) : s[m].event # Told
          PROVE  s[n].position + Len(s) = read + n
      <4>1. ASSUME NEW m \in n + 1 .. Len(inbox) PROVE inbox[m].event # Told
        <5>1. m - 1 \in n .. Len(s) /\ m - 1 \in 1 .. Len(s) /\ (m - 1) + 1 = m
          BY <1>2, <3>2
        <5>2. s[m - 1] = inbox[m]
          BY <1>2, <5>1
        <5>. QED
          BY <3>4, <5>1, <5>2
      <4>2. inbox[n + 1].position + Len(inbox) = read + (n + 1)
        BY <3>1, <3>4, <4>1 DEF Follows
      <4>3. inbox[n + 1].position \in Nat /\ read \in Nat
        BY <1>4, <1>6 DEF TypeOK
      <4>4. PICK k \in Nat : k = inbox[n + 1].position /\ k = s[n].position
        BY <3>2, <4>3
      <4>5. k + Len(inbox) = read + (n + 1)
        BY <4>2, <4>4
      <4>6. PICK a \in Nat, b \in Nat : a = Len(inbox) /\ b = read
        BY <1>2, <4>3
      <4>7. Len(s) = a - 1 /\ n \in Nat /\ k + a = b + (n + 1)
        BY <1>2, <3>2, <4>5, <4>6
      <4>8. k + (a - 1) = b + n
        BY <4>6, <4>7
      <4>. QED
        BY <4>4, <4>6, <4>7, <4>8
    <3>. QED
      BY <1>1, <3>3, <3>4 DEF Follows
  <2>3. \A n \in 1 .. Len(s) : s[n].position <= read /\ (s[n].event # Told => Sent(s[n])')
    BY <1>2, <1>4, <1>5 DEF Queued
  <2>4. resync' # 0 => FullLoad(resync') \in owed'
    BY DEF Queued, FullLoad
  <2>5. read <= End /\ resync <= read /\ (~live => resync = 0)
    BY DEF Queued
  <2>. QED
    BY <1>1, <1>3, <2>1, <2>2, <2>3, <2>4, <2>5 DEF Queued
<1>8. Applied' = Applied + 1
  <2>1. read \in Nat
    BY DEF TypeOK
  <2>. QED
    BY <1>1, <1>2, <1>3, <2>1 DEF Applied
<1>9. Head(inbox) = inbox[1] /\ inbox[1].position \in Nat /\ inbox[1].position <= End
  <2>1. 1 \in 1 .. Len(inbox) /\ Head(inbox) = inbox[1]
    BY <1>2
  <2>2. inbox[1].position <= read /\ read <= End /\ read \in Nat /\ End \in Nat
    BY <2>1, RowsSound DEF Queued, TypeOK
  <2>. QED
    BY <1>6, <2>1, <2>2
<1>10. ASSUME NEW p, Before(p) PROVE Before(p)'
  <2>1. p <= read /\ (resync # 0 => p <= resync)
    BY <1>3, <1>10 DEF Before
  <2>2. \A n \in 1 .. Len(s) : p <= s[n].position /\ (s[n].event # Told => p # s[n].position)
    BY <1>2, <1>3, <1>4, <1>10 DEF Before
  <2>. QED
    BY <1>1, <1>3, <2>1, <2>2 DEF Before
<1>11. Aware => Aware'
  <2>1. DOMAIN s = 1 .. Len(s) /\ DOMAIN inbox = 1 .. Len(inbox)
    BY <1>2 DEF TypeOK
  <2>. QED
    BY <1>1, <1>2, <1>4, <2>1 DEF Aware
<1>. QED
  BY <1>1, <1>2, <1>3, <1>7, <1>8, <1>9, <1>10, <1>11

\* A step that leaves a full load owed: the mirror need not be true until then.
LEMMA LapsedKeeps ==
    ASSUME IInv, NoteMixed, UNCHANGED <<contentVars, mirror, draft, deferred, file>>,
           Lapsed(owed'), TypeOK', Shape', Queued', Ahead',
           \/ todo' = todo /\ ~Aware'
           \/ /\ todo' # <<>> /\ Ends(todo') \notin {"relinked", "flushed"}
              /\ Head(todo').k \notin {"versions", "adopt", "access", "loaded"}
    PROVE  IInv'
<1> HIDE DEF Works
<1>1. past' = past /\ log' = log /\ swept' = swept /\ mirror' = mirror /\ draft' = draft /\ file' = file
      /\ deferred' = deferred
  BY DEF contentVars
<1>2. Content' /\ Saved'
  BY <1>1, SameContent, SameSaved DEF IInv
<1>3. Unmixed'
  BY MixedGrows DEF IInv
<1>4. End' = End /\ \A t : At(t)' = At(t)
  BY <1>1, SameRows
<1>5. Holds' /\ Unsettled'
  BY DEF Holds, Unsettled
<1>6. Places'
  <2>1. Upto(End)
    BY DEF IInv, Places
  <2>2. Upto(End)'
    BY <1>1, <1>4, <2>1 DEF Upto
  <2>. QED
    BY <2>2 DEF Places
<1>7. DraftRows' /\ DraftPerson' /\ DraftMembers' /\ Drafted'
  <2>1. CASE todo' = todo /\ ~Aware'
    <3>1. \A t : t \in 0 .. End => Lately(t)'
      BY <1>4 DEF Lately
    <3>2. \A k : Doing(k)' <=> Doing(k)
      BY <2>1 DEF Doing
    <3>3. Work' = Work
      BY <2>1 DEF Work
    <3>4. DraftRows'
      BY <1>1, <1>4, <2>1, <3>2, <3>3 DEF IInv, DraftRows
    <3>5. DraftPerson'
      <4>1. ASSUME NEW t \in 0 .. End
            PROVE  Holder(At(t), Work.id)' = Holder(At(t), Work.id) /\ At(t)' = At(t)
        BY <1>4, <3>3 DEF Holder
      <4>. QED
        BY <1>1, <1>4, <3>1, <3>2, <3>3, <4>1 DEF IInv, DraftPerson
    <3>6. DraftMembers'
      <4>1. \A t, x : Shows(t, x)' <=> Shows(t, x)
        BY <1>1, SameShows
      <4>. QED
        BY <1>1, <1>4, <2>1, <3>1, <4>1, MembersStay DEF IInv
    <3>7. Drafted'
      BY <1>1, <3>2 DEF IInv, Drafted
    <3>. QED
      BY <3>4, <3>5, <3>6, <3>7
  <2>2. CASE todo' # <<>> /\ Head(todo').k \notin {"versions", "adopt", "access", "loaded"}
    BY <2>2, NoDraft
  <2>. QED
    BY <2>1, <2>2
<1>. QED
  BY <1>2, <1>3, <1>5, <1>6, <1>7 DEF IInv

LEMMA ResyncKeeps ==
    ASSUME IInv, Resync, NoteMixed
    PROVE  IInv'
<1> HIDE DEF Works, Items
<1>1. /\ todo = <<>> /\ deferred = Quiet /\ inbox # <<>> /\ inbox' = Tail(inbox)
      /\ Head(inbox).event.k = "resync" /\ todo' = <<FullLoad(Head(inbox).position)>>
      /\ UNCHANGED <<contentVars, mirror, draft, tasks, deferred, trackVars,
                     live, read, resync, file, owed, torn>>
  BY DEF Resync, Calm, Idle, Event, Position
<1>2. /\ past' = past /\ log' = log /\ resync' = resync /\ live' = live /\ read' = read
      /\ file' = file /\ tasks' = tasks /\ waiting' = waiting /\ loads' = loads /\ mirror' = mirror
      /\ owed' = owed /\ torn' = torn /\ deferred' = deferred
  BY <1>1 DEF contentVars, trackVars
<1>3. Content /\ TypeOK /\ Shape /\ Queued /\ Ahead
  BY DEF IInv
<1>4. /\ Queued' /\ live /\ inbox' \in Seq(Items)
      /\ Head(inbox) = inbox[1] /\ inbox[1].position \in Nat
      /\ \A p : Before(p) => Before(p)'
  BY <1>1, <1>2, <1>3, Taken
<1>5. PICK p \in Nat : p = inbox[1].position
  BY <1>4
<1>6. inbox \in Seq(Items) /\ 1 \in 1 .. Len(inbox) /\ Len(inbox) \in Nat
  BY <1>1, <1>3, EmptySeq DEF TypeOK
<1>7. inbox[1].event = Told
  <2>1. inbox[1] \in Items /\ inbox[1].event.k = "resync"
    BY <1>1, <1>4, <1>6
  <2>2. inbox[1].event \in Events \cup {Told}
    BY <2>1 DEF Items
  <2>3. \A e \in Events : e.k # "resync"
    BY DEF Events
  <2>. QED
    BY <2>1, <2>2, <2>3
<1>8. Follows(1) /\ p <= read
  BY <1>3, <1>5, <1>6 DEF Queued
<1>9. FullLoad(p) \in owed /\ FullLoad(p).k = "rows" /\ FullLoad(p).position = p
  BY <1>5, <1>7, <1>8 DEF Follows, FullLoad
<1>10. PICK w \in Works : w = FullLoad(p) /\ w.k = "rows" /\ w.position = p
  BY <1>9 DEF FullLoad, Works
<1>11. todo' \in Seq(Works) /\ todo' # <<>> /\ Head(todo') = w /\ Ends(todo') = "rows" /\ Tidy(todo')
  BY <1>1, <1>4, <1>5, <1>10, OneIs
<1>12. Before(p)'
  <2>1. /\ Tail(inbox) \in Seq(Items) /\ Len(Tail(inbox)) = Len(inbox) - 1
        /\ \A n \in 1 .. Len(Tail(inbox)) : Tail(inbox)[n] = inbox[n + 1]
    BY <1>1, <1>6, HeadTailProperties, Zenon
  <2>2. ASSUME NEW n \in 1 .. Len(inbox')
        PROVE  p <= inbox'[n].position /\ (inbox'[n].event # Told => p # inbox'[n].position)
    <3>1. n + 1 \in 1 + 1 .. Len(inbox) /\ inbox'[n] = inbox[n + 1]
      BY <1>1, <1>6, <2>1
    <3>. QED
      BY <1>5, <1>7, <1>8, <3>1 DEF Follows
  <2>3. resync # 0 => p <= resync
    BY <1>5, <1>7, <1>8 DEF Follows
  <2>. QED
    BY <1>2, <1>4, <1>8, <2>2, <2>3 DEF Before
<1>13. TypeOK'
  BY <1>2, <1>3, <1>4, <1>11 DEF TypeOK
<1>14. Shape'
  <2>1. ~Starting' /\ ~Doing("position")'
    BY <1>10, <1>11 DEF Starting, Doing
  <2>. QED
    BY <1>1, <1>2, <1>3, <1>4, <1>11, <2>1 DEF Shape
<1>15. Ahead'
  BY <1>2, <1>3, <1>4, <1>10, <1>11, <1>12 DEF Ahead, Doing, Work
<1>16. Lapsed(owed')
  BY <1>2, <1>9 DEF Lapsed
<1>. QED
  BY <1>1, <1>4, <1>10, <1>11, <1>13, <1>14, <1>15, <1>16, LapsedKeeps

LEMMA ExpiredKeeps ==
    ASSUME IInv, Expired, NoteMixed
    PROVE  IInv'
<1> HIDE DEF Works, Items
<1>1. /\ live /\ read < swept /\ read' = End /\ resync' = End /\ owed' = owed \cup {FullLoad(End)}
      /\ UNCHANGED <<contentVars, mirror, todo, draft, inbox, tasks, deferred, trackVars,
                     live, file, torn>>
  BY DEF Expired
<1>2. /\ past' = past /\ log' = log /\ inbox' = inbox /\ live' = live
      /\ file' = file /\ tasks' = tasks /\ waiting' = waiting /\ loads' = loads /\ mirror' = mirror
      /\ torn' = torn /\ deferred' = deferred /\ todo' = todo
  BY <1>1 DEF contentVars, trackVars
<1>3. Content /\ TypeOK /\ Shape /\ Queued /\ Ahead
  BY DEF IInv
<1>4. End' = End /\ End \in Nat /\ End # 0 /\ read \in Nat /\ read <= End
  BY <1>1, <1>2, <1>3, SameRows, RowsSound DEF TypeOK, Queued, Content, Log
<1>5. TypeOK'
  BY <1>1, <1>2, <1>3, <1>4 DEF TypeOK
<1>6. Shape'
  BY <1>2, <1>3, SameShape
<1>7. inbox \in Seq(Items) /\ Len(inbox) \in Nat
  BY <1>3 DEF TypeOK
<1>8. ASSUME NEW n \in 1 .. Len(inbox) PROVE inbox[n].position \in Nat /\ inbox[n].position <= End
  <2>1. inbox[n] \in Items /\ inbox[n].position <= read
    BY <1>3, <1>7, <1>8 DEF Queued
  <2>2. inbox[n].position \in Nat
    BY <2>1 DEF Items
  <2>. QED
    BY <1>4, <2>1, <2>2
<1>9. Queued'
  <2>1. ASSUME NEW n \in 1 .. Len(inbox) PROVE Follows(n)'
    BY <1>1, <1>2, <1>3, <1>4, <1>8, <2>1 DEF Queued, Follows
  <2>2. \A x : Sent(x)' <=> Sent(x)
    BY <1>2 DEF Sent, Named, First, Of, At, Holder, End
  <2>3. FullLoad(resync') \in owed'
    BY <1>1
  <2>. QED
    BY <1>1, <1>2, <1>3, <1>4, <1>8, <2>1, <2>2, <2>3 DEF Queued
<1>10. ASSUME NEW p \in Nat, Before(p) PROVE Before(p)'
  <2>1. p <= read /\ \A n \in 1 .. Len(inbox) :
            p <= inbox[n].position /\ (inbox[n].event # Told => p # inbox[n].position)
    BY <1>1, <1>10 DEF Before
  <2>2. p <= End
    BY <1>4, <2>1
  <2>. QED
    BY <1>1, <1>2, <2>1, <2>2 DEF Before
<1>11. Ahead'
  <2>1. Doing("rows") \/ Doing("versions") => Work.position \in Nat
    BY <1>3, HeadIs, WorkIs DEF Doing, Work, TypeOK, Shape
  <2>2. ASSUME NEW task \in tasks, Head(task).k = "rows" PROVE Head(task).position \in Nat
    <3>1. Head(task) \in Works
      BY <1>3, TasksAre, HeadIs
    <3>. QED
      BY <2>2, <3>1, WorkIs
  <2>. QED
    BY <1>2, <1>3, <1>10, <2>1, <2>2 DEF Ahead, Doing, Work
<1>12. Lapsed(owed')
  <2>1. FullLoad(End) \in owed' /\ FullLoad(End).k = "rows"
    BY <1>1 DEF FullLoad
  <2>. QED
    BY <2>1 DEF Lapsed
<1>13. ~Aware'
  BY <1>1, <1>4 DEF Aware
<1>. QED
  BY <1>1, <1>2, <1>5, <1>6, <1>9, <1>11, <1>12, <1>13, LapsedKeeps

\* What is put behind the queue.
LEMMA QueuedLast ==
    ASSUME TypeOK, NEW x \in Items, inbox' = Append(inbox, x)
    PROVE  /\ inbox' \in Seq(Items) /\ Len(inbox) \in Nat /\ Len(inbox') = Len(inbox) + 1
           /\ inbox'[Len(inbox) + 1] = x /\ \A n \in 1 .. Len(inbox) : inbox'[n] = inbox[n]
<1> HIDE DEF Items
<1>. QED
  BY AppendProperties DEF TypeOK

LEMMA TellResyncKeeps ==
    ASSUME IInv, TellResync, NoteMixed
    PROVE  IInv'
<1> HIDE DEF Works, Items
<1>1. /\ resync # 0 /\ resync' = 0
      /\ UNCHANGED <<contentVars, mirror, todo, draft, tasks, deferred, trackVars,
                     live, read, file, owed, torn>>
  BY DEF TellResync
<1>2. /\ past' = past /\ log' = log /\ live' = live /\ read' = read /\ owed' = owed
      /\ file' = file /\ tasks' = tasks /\ waiting' = waiting /\ loads' = loads /\ mirror' = mirror
      /\ torn' = torn /\ deferred' = deferred /\ todo' = todo
  BY <1>1 DEF contentVars, trackVars
<1>3. Content /\ TypeOK /\ Shape /\ Queued /\ Ahead
  BY DEF IInv
<1>4. End' = End /\ resync \in Nat
  BY <1>2, <1>3, SameRows DEF TypeOK
<1>5. PICK x \in Items : inbox' = Append(inbox, x) /\ x.position = resync /\ x.event = Told
  <2>1. [position |-> resync, event |-> Told] \in Items
    BY <1>4 DEF Items
  <2>. QED
    BY <2>1 DEF TellResync
<1>6. /\ inbox' \in Seq(Items) /\ Len(inbox) \in Nat /\ Len(inbox') = Len(inbox) + 1
      /\ inbox'[Len(inbox) + 1] = x /\ \A n \in 1 .. Len(inbox) : inbox'[n] = inbox[n]
  BY <1>3, <1>5, QueuedLast
<1>7. TypeOK'
  BY <1>1, <1>2, <1>3, <1>6 DEF TypeOK
<1>8. Shape'
  BY <1>2, <1>3, SameShape
<1>9. FullLoad(resync) \in owed /\ resync <= read /\ live
  BY <1>1, <1>3 DEF Queued
<1>10. Queued'
  <2>1. ASSUME NEW n \in 1 .. Len(inbox) PROVE Follows(n)'
    <3>1. Follows(n) /\ inbox'[n] = inbox[n]
      BY <1>3, <1>6 DEF Queued
    <3>2. ASSUME inbox[n].event = Told, NEW m \in n + 1 .. Len(inbox')
          PROVE  /\ inbox[n].position <= inbox'[m].position
                 /\ inbox'[m].event # Told => inbox[n].position # inbox'[m].position
      <4>1. CASE m = Len(inbox) + 1
        BY <1>1, <1>5, <1>6, <3>1, <3>2, <4>1 DEF Follows
      <4>2. CASE m # Len(inbox) + 1
        <5>1. m \in n + 1 .. Len(inbox) /\ m \in 1 .. Len(inbox)
          BY <1>6, <3>2, <4>2
        <5>. QED
          BY <1>6, <3>1, <3>2, <5>1 DEF Follows
      <4>. QED
        BY <4>1, <4>2
    <3>3. \E m \in n .. Len(inbox') : inbox'[m].event = Told
      <4>1. Len(inbox) + 1 \in n .. Len(inbox')
        BY <1>6
      <4>. QED
        BY <1>5, <1>6, <4>1
    <3>. QED
      BY <1>1, <1>2, <3>1, <3>2, <3>3 DEF Follows
  <2>z. PICK z : z = Len(inbox) + 1
    OBVIOUS
  <2>2. Follows(z)'
    <3>1. inbox'[z] = x /\ z \in z .. Len(inbox') /\ z + 1 .. Len(inbox') = {}
      BY <1>6, <2>z
    <3>. QED
      BY <1>1, <1>2, <1>5, <1>9, <3>1 DEF Follows
  <2>3. \A y : Sent(y)' <=> Sent(y)
    BY <1>2 DEF Sent, Named, First, Of, At, Holder, End
  <2>4. ASSUME NEW n \in 1 .. Len(inbox')
        PROVE  /\ inbox'[n].position <= read
               /\ inbox'[n].event # Told => Sent(inbox[n])'
               /\ Follows(n)'
    <3>1. CASE n = z
      BY <1>5, <1>6, <1>9, <2>z, <2>2, <3>1
    <3>2. CASE n # z
      <4>1. n \in 1 .. Len(inbox)
        BY <1>6, <2>z, <3>2
      <4>2. PICK y : y = inbox[n] /\ y = inbox'[n]
        BY <1>6, <4>1
      <4>3. y.position <= read /\ (y.event # Told => Sent(y))
        BY <1>3, <4>1, <4>2 DEF Queued
      <4>4. y.event # Told => Sent(y)'
        BY <2>3, <4>3
      <4>. QED
        BY <2>1, <4>1, <4>2, <4>3, <4>4
    <3>. QED
      BY <3>1, <3>2
  <2>. QED
    BY <1>1, <1>2, <1>3, <1>4, <1>9, <2>4 DEF Queued, TypeOK
<1>11. ASSUME NEW p, Before(p) PROVE Before(p)'
  <2>1. p <= read /\ p <= resync /\ \A n \in 1 .. Len(inbox) :
            p <= inbox[n].position /\ (inbox[n].event # Told => p # inbox[n].position)
    BY <1>1, <1>9, <1>11 DEF Before
  <2>2. ASSUME NEW n \in 1 .. Len(inbox')
        PROVE  p <= inbox'[n].position /\ (inbox'[n].event # Told => p # inbox'[n].position)
    <3>1. CASE n = Len(inbox) + 1
      BY <1>5, <1>6, <2>1, <3>1
    <3>2. CASE n # Len(inbox) + 1
      <4>1. n \in 1 .. Len(inbox)
        BY <1>6, <3>2
      <4>. QED
        BY <1>6, <2>1, <4>1
    <3>. QED
      BY <3>1, <3>2
  <2>. QED
    BY <1>1, <1>2, <1>9, <2>1, <2>2 DEF Before
<1>12. Ahead'
  BY <1>2, <1>3, <1>11 DEF Ahead, Doing, Work
<1>13. Lapsed(owed')
  BY <1>2, <1>9 DEF Lapsed, FullLoad
<1>14. ~Aware'
  <2>1. Len(inbox) + 1 \in DOMAIN inbox'
    BY <1>6
  <2>. QED
    BY <1>5, <1>6, <2>1 DEF Aware
<1>. QED
  BY <1>1, <1>2, <1>7, <1>8, <1>10, <1>12, <1>13, <1>14, LapsedKeeps

\* A step that leaves the applier and what it holds.
LEMMA HeldKeeps ==
    ASSUME IInv, UNCHANGED <<past, log, live, mirror, todo, draft, deferred, owed, torn>>,
           mixed \subseteq mixed', Unmixed',
           Content', TypeOK', Shape', Queued', Ahead', Saved', Applied' = Applied, Aware' => Aware
    PROVE  IInv'
<1> HIDE DEF Works
<1>1. /\ past' = past /\ log' = log /\ mirror' = mirror /\ draft' = draft /\ owed' = owed
      /\ deferred' = deferred /\ todo' = todo /\ torn' = torn /\ live' = live
  OBVIOUS
<1>2. DraftRows' /\ DraftPerson' /\ DraftMembers'
  BY <1>1, SameDraft DEF IInv
<1>3. Coming' = Coming /\ Missed(owed, torn, mixed) \subseteq Missed(owed', torn', mixed')
  BY <1>1, MissedMore DEF Coming
<1>4. Free \subseteq Free'
  BY <1>3 DEF Free
<1>5. Holds'
  BY <1>1, <1>4, SameHolds DEF IInv, Says
<1>6. End' = End /\ \A n, i : Since(n, i)' <=> Since(n, i)
  BY <1>1, SameRows
<1>7. Places'
  <2>1. \A p : Upto(p)' <=> Upto(p)
    BY <1>1 DEF Upto
  <2>2. Places
    BY DEF IInv
  <2>. QED
    BY <1>1, <1>6, <2>1, <2>2 DEF Places
<1>8. Unsettled'
  BY <1>1, <1>3, <1>6 DEF IInv, Unsettled
<1>9. Drafted'
  <2>1. PICK edit : edit = draft.edit /\ edit = draft'.edit
    BY <1>1
  <2>2. PICK from : from = Applied /\ from = Applied'
    OBVIOUS
  <2>3. (Names(edit, from)' <=> Names(edit, from)) /\ (Renders(edit, from)' <=> Renders(edit, from))
    BY <1>1, SameTruth
  <2>4. Drafted /\ (Doing("loaded")' <=> Doing("loaded"))
    BY <1>1 DEF IInv, Doing
  <2>. QED
    BY <1>1, <2>1, <2>2, <2>3, <2>4 DEF Drafted
<1>. QED
  BY <1>2, <1>5, <1>7, <1>8, <1>9 DEF IInv

LEMMA SweepKeeps ==
    ASSUME IInv, Sweep, NoteMixed
    PROVE  IInv'
<1> HIDE DEF Works, Items
<1>1. /\ swept' = End
      /\ UNCHANGED <<past, log, mirror, todo, draft, tasks, deferred, trackVars, streamVars, file, owed, torn>>
  BY DEF Sweep
<1>2. /\ past' = past /\ log' = log /\ inbox' = inbox /\ resync' = resync /\ live' = live /\ read' = read
      /\ file' = file /\ tasks' = tasks /\ waiting' = waiting /\ loads' = loads /\ mirror' = mirror
      /\ owed' = owed /\ torn' = torn /\ deferred' = deferred /\ todo' = todo
  BY <1>1 DEF streamVars, trackVars
<1>3. Content /\ TypeOK /\ Shape /\ Queued /\ Ahead /\ Saved /\ Unmixed
  BY DEF IInv
<1>4. Content' /\ Shape' /\ Queued' /\ Saved'
  BY <1>1, <1>2, <1>3, SameContent, SameShape, SameQueued, SameSaved
<1>5. TypeOK'
  BY <1>2, <1>3 DEF TypeOK
<1>6. Ahead'
  BY <1>2, <1>3, SameBefore DEF Ahead, Doing, Work
<1>7. Applied' = Applied /\ (Aware' <=> Aware)
  BY <1>2, <1>3, SameApplied DEF TypeOK
<1>8. Unmixed' /\ mixed \subseteq mixed'
  BY <1>2, <1>3, MixedGrows
<1>. QED
  BY <1>1, <1>2, <1>4, <1>5, <1>6, <1>7, <1>8, HeldKeeps

\* An event as it was sent has the kind and the rest of what the log says.
LEMMA NamedIs ==
    ASSUME Content, NEW e \in Events, NEW d \in 0 .. End, NEW x, x = Named(e, d)
    PROVE  /\ x \in Events /\ x.k = e.k /\ x # Told
           /\ e.k \notin {"group", "deleted"} => x.who = First(At(d), e.who)
           /\ e.k = "moderated" => x.list = e.list /\ x.on = e.on /\ x.v = e.v
           /\ e.k \in {"linked", "unlinked"} => x.ids = e.ids /\ x.moved = e.moved
<1>1. CASE e.k \in {"group", "deleted"}
  BY <1>1 DEF Named, Events, Told
<1>2. CASE e.k \notin {"group", "deleted"}
  <2>1. e.who \in Ids
    BY <1>2 DEF Events
  <2>2. First(At(d), e.who) \in Ids
    BY <2>1, RowsSound, FirstIs
  <2>3. PICK who \in Ids : who = First(At(d), e.who)
    BY <2>2
  <2>4. x = [e EXCEPT !.who = who]
    BY <1>2, <2>3 DEF Named
  <2>5. CASE e \in [k : {"member"}, who : Ids, v : Nat]
    BY <2>3, <2>4, <2>5 DEF Events, Told
  <2>6. CASE e \in [k : {"moderated"}, who : Ids, list : Lists, on : BOOLEAN, v : Nat]
    BY <2>3, <2>4, <2>6 DEF Events, Told
  <2>7. CASE e \in [k : {"linked", "unlinked"}, who : Ids, ids : SUBSET Ids, moved : Ids]
    BY <2>3, <2>4, <2>7 DEF Events, Told
  <2>. QED
    BY <1>2, <2>5, <2>6, <2>7 DEF Events
<1>. QED
  BY <1>1, <1>2

LEMMA DeliverKeeps ==
    ASSUME IInv, Deliver, NoteMixed
    PROVE  IInv'
<1> HIDE DEF Works, Items, Events
<1>1. /\ live /\ read < End /\ read' = read + 1
      /\ UNCHANGED <<contentVars, mirror, todo, draft, tasks, deferred,
                     trackVars, live, resync, file, owed, torn>>
  BY DEF Deliver
<1>2. /\ past' = past /\ log' = log /\ resync' = resync /\ live' = live
      /\ file' = file /\ tasks' = tasks /\ waiting' = waiting /\ loads' = loads /\ mirror' = mirror
      /\ owed' = owed /\ torn' = torn /\ deferred' = deferred /\ todo' = todo /\ swept' = swept /\ draft' = draft
  BY <1>1 DEF contentVars, trackVars
<1>3. Content /\ TypeOK /\ Shape /\ Queued /\ Ahead /\ Saved /\ Unmixed
  BY DEF IInv
<1>4. End' = End /\ End \in Nat /\ read \in Nat /\ read + 1 \in 1 .. End /\ End \in read + 1 .. End
      /\ End \in 0 .. End
  BY <1>1, <1>2, <1>3, SameRows, RowsSound DEF TypeOK
<1>5. log[read + 1] \in Events
  BY <1>3, <1>4 DEF Content, Log, End
<1>6. PICK x \in Items : /\ inbox' = Append(inbox, x) /\ x.position = read + 1
                         /\ x.event = Named(log[read + 1], End) /\ x.event # Told
  <2>1. PICK e : e = Named(log[read + 1], End)
    OBVIOUS
  <2>2. e \in Events /\ e # Told
    BY <1>3, <1>4, <1>5, <2>1, NamedIs
  <2>3. inbox' = Append(inbox, [position |-> read + 1, event |-> e])
    <3>1. PICK event : event = log[read + 1]
      OBVIOUS
    <3>2. Shown(Now, Holder(Now, event.who)) = First(At(End), event.who)
      BY DEF Shown, First, Of, Now
    <3>3. e = IF event.k \in {"group", "deleted"} THEN event
              ELSE [event EXCEPT !.who = First(At(End), event.who)]
      BY <2>1, <3>1 DEF Named
    <3>4. e = IF event.k \in {"group", "deleted"} THEN event
              ELSE [event EXCEPT !.who = Shown(Now, Holder(Now, @))]
      BY <3>2, <3>3
    <3>. QED
      BY <3>1, <3>4 DEF Deliver
  <2>4. [position |-> read + 1, event |-> e] \in Items
    BY <1>4, <2>2 DEF Items
  <2>. QED
    BY <2>1, <2>2, <2>3, <2>4
<1>7. Sent(x)'
  <2>1. Sent(x)' <=> Sent(x)
    BY <1>2 DEF Sent, Named, First, Of, At, Holder, End
  <2>2. Sent(x)
    BY <1>4, <1>6 DEF Sent
  <2>. QED
    BY <2>1, <2>2
<1>8. /\ inbox' \in Seq(Items) /\ Len(inbox) \in Nat /\ Len(inbox') = Len(inbox) + 1
      /\ inbox'[Len(inbox) + 1] = x /\ \A n \in 1 .. Len(inbox) : inbox'[n] = inbox[n]
  BY <1>3, <1>6, QueuedLast
<1>9. TypeOK'
  BY <1>1, <1>2, <1>3, <1>4, <1>8 DEF TypeOK
<1>10. Content' /\ Shape' /\ Saved'
  BY <1>2, <1>3, SameContent, SameShape, SameSaved
<1>z. PICK z : z = Len(inbox) + 1
  OBVIOUS
<1>11. ASSUME NEW n \in 1 .. Len(inbox) PROVE inbox[n].position \in Nat /\ inbox[n].position <= read
  <2>1. inbox[n] \in Items /\ inbox[n].position <= read
    BY <1>3, <1>11 DEF Queued, TypeOK
  <2>. QED
    BY <2>1 DEF Items
<1>12. Queued'
  <2>1. ASSUME NEW n \in 1 .. Len(inbox) PROVE Follows(n)'
    <3>1. Follows(n) /\ inbox'[n] = inbox[n] /\ n \in Nat
      BY <1>3, <1>8 DEF Queued
    <3>2. ASSUME inbox[n].event = Told, NEW m \in n + 1 .. Len(inbox')
          PROVE  /\ inbox[n].position <= inbox'[m].position
                 /\ inbox'[m].event # Told => inbox[n].position # inbox'[m].position
      <4>1. CASE m = z
        <5>1. inbox'[m].position = read + 1
          BY <1>6, <1>8, <1>z, <4>1
        <5>. QED
          BY <1>4, <1>11, <5>1
      <4>2. CASE m # z
        <5>1. m \in n + 1 .. Len(inbox) /\ m \in 1 .. Len(inbox)
          BY <1>8, <1>z, <3>2, <4>2
        <5>. QED
          BY <1>8, <3>1, <3>2, <5>1 DEF Follows
      <4>. QED
        BY <4>1, <4>2
    <3>3. ASSUME resync = 0, \A m \in n .. Len(inbox') : inbox'[m].event # Told
          PROVE  inbox[n].position + Len(inbox') = read' + n
      <4>1. \A m \in n .. Len(inbox) : inbox[m].event # Told
        BY <1>8, <3>3
      <4>2. inbox[n].position + Len(inbox) = read + n
        BY <3>1, <3>3, <4>1 DEF Follows
      <4>3. PICK k \in Nat : k = inbox[n].position
        BY <1>11
      <4>4. PICK a \in Nat : a = Len(inbox) /\ Len(inbox') = a + 1
        BY <1>8
      <4>5. k + (a + 1) = (read + 1) + n
        BY <1>4, <3>1, <4>2, <4>3, <4>4
      <4>. QED
        BY <1>1, <4>3, <4>4, <4>5
    <3>. QED
      BY <1>2, <3>1, <3>2, <3>3 DEF Follows
  <2>2. Follows(z)'
    <3>1. inbox'[z] = x /\ z \in z .. Len(inbox') /\ z = Len(inbox')
      BY <1>8, <1>z
    <3>2. x.position + z = read' + z
      BY <1>1, <1>6
    <3>. QED
      BY <1>6, <3>1, <3>2 DEF Follows
  <2>3. \A y : Sent(y)' <=> Sent(y)
    BY <1>2 DEF Sent, Named, First, Of, At, Holder, End
  <2>4. ASSUME NEW n \in 1 .. Len(inbox')
        PROVE  /\ inbox'[n].position <= read'
               /\ inbox'[n].event # Told => Sent(inbox[n])'
               /\ Follows(n)'
    <3>1. CASE n = z
      <4>1. inbox'[n] = x
        BY <1>8, <1>z, <3>1
      <4>2. x.position <= read'
        BY <1>1, <1>4, <1>6
      <4>. QED
        BY <1>7, <2>2, <3>1, <4>1, <4>2
    <3>2. CASE n # z
      <4>1. n \in 1 .. Len(inbox)
        BY <1>8, <1>z, <3>2
      <4>2. PICK y : y = inbox[n] /\ y = inbox'[n]
        BY <1>8, <4>1
      <4>3. y.position <= read /\ (y.event # Told => Sent(y)) /\ y.position \in Nat
        BY <1>3, <1>11, <4>1, <4>2 DEF Queued
      <4>4. y.event # Told => Sent(y)'
        BY <2>3, <4>3
      <4>5. y.position <= read'
        BY <1>1, <1>4, <4>3
      <4>. QED
        BY <2>1, <4>1, <4>2, <4>4, <4>5
    <3>. QED
      BY <3>1, <3>2
  <2>5. resync <= read' /\ read' <= End' /\ live'
    BY <1>1, <1>2, <1>3, <1>4 DEF Queued, TypeOK
  <2>6. resync' # 0 => FullLoad(resync') \in owed'
    BY <1>2, <1>3 DEF Queued
  <2>. QED
    BY <1>2, <2>4, <2>5, <2>6 DEF Queued
<1>13. ASSUME NEW p \in Nat, Before(p) PROVE Before(p)'
  <2>1. p <= read /\ (resync # 0 => p <= resync) /\ \A n \in 1 .. Len(inbox) :
            p <= inbox[n].position /\ (inbox[n].event # Told => p # inbox[n].position)
    BY <1>1, <1>13 DEF Before
  <2>2. ASSUME NEW n \in 1 .. Len(inbox')
        PROVE  p <= inbox'[n].position /\ (inbox'[n].event # Told => p # inbox'[n].position)
    <3>1. CASE n = z
      <4>1. inbox'[n].position = read + 1
        BY <1>6, <1>8, <1>z, <3>1
      <4>. QED
        BY <1>4, <2>1, <4>1
    <3>2. CASE n # z
      <4>1. n \in 1 .. Len(inbox)
        BY <1>8, <1>z, <3>2
      <4>. QED
        BY <1>8, <2>1, <4>1
    <3>. QED
      BY <3>1, <3>2
  <2>3. p <= read'
    BY <1>1, <1>4, <2>1
  <2>. QED
    BY <1>1, <1>2, <2>1, <2>2, <2>3 DEF Before
<1>14. Ahead'
  <2>1. Doing("rows") \/ Doing("versions") => Work.position \in Nat
    BY <1>3, HeadIs, WorkIs DEF Doing, Work, TypeOK, Shape
  <2>2. ASSUME NEW task \in tasks, Head(task).k = "rows" PROVE Head(task).position \in Nat
    <3>1. Head(task) \in Works
      BY <1>3, TasksAre, HeadIs
    <3>. QED
      BY <2>2, <3>1, WorkIs
  <2>. QED
    BY <1>2, <1>3, <1>13, <2>1, <2>2 DEF Ahead, Doing, Work
<1>15. Applied' = Applied
  BY <1>1, <1>2, <1>4, <1>8 DEF Applied
<1>16. Aware' => Aware
  <2>1. DOMAIN inbox = 1 .. Len(inbox) /\ DOMAIN inbox' = 1 .. Len(inbox')
    BY <1>3, <1>8 DEF TypeOK
  <2>2. \A n \in DOMAIN inbox : n \in DOMAIN inbox' /\ inbox'[n] = inbox[n]
    BY <1>8, <2>1
  <2>. QED
    BY <1>2, <2>2 DEF Aware
<1>17. Unmixed' /\ mixed \subseteq mixed'
  BY <1>2, <1>3, MixedGrows
<1>. QED
  BY <1>2, <1>9, <1>10, <1>12, <1>14, <1>15, <1>16, <1>17, HeldKeeps

-----------------------------------------------------------------------------
(* The server, the snapshot file and calls                                 *)

LEMMA ServerKeeps ==
    ASSUME IInv, Server, NoteMixed
    PROVE  IInv'
<1> HIDE DEF Works, Items
<1>1. Writes /\ UNCHANGED <<mirror, todo, draft, tasks, deferred, trackVars, streamVars, file, owed, torn>>
  BY DEF Server
<1>2. /\ inbox' = inbox /\ resync' = resync /\ live' = live /\ read' = read
      /\ file' = file /\ tasks' = tasks /\ waiting' = waiting /\ loads' = loads /\ mirror' = mirror
      /\ owed' = owed /\ torn' = torn /\ deferred' = deferred /\ todo' = todo /\ draft' = draft
  BY <1>1 DEF streamVars, trackVars
<1>3. Content /\ TypeOK /\ Shape /\ Queued /\ Ahead /\ Saved /\ Unmixed
  BY DEF IInv
<1>4. PICK s, e : Appends(s, e)
  BY <1>1, <1>3, WritesAppend DEF Content
<1>5. /\ End \in Nat /\ End' = End + 1
      /\ \A n \in 0 .. End : At(n)' = At(n)
      /\ \A n \in 1 .. End : log'[n] = log[n]
  BY <1>3, <1>4, Appended DEF Content
<1>6. Content'
  BY <1>1, <1>3, ContentWrites
<1>7. TypeOK'
  BY <1>2, <1>3 DEF TypeOK
<1>8. Shape'
  BY <1>2, <1>3, SameShape
<1>9. Unmixed' /\ mixed \subseteq mixed'
  BY <1>2, <1>3, MixedGrows
<1>10. \A n \in 0 .. End : n \in 0 .. End'
  BY <1>5
<1>11. ASSUME NEW x, Sent(x) PROVE Sent(x)'
  <2>1. PICK d \in x.position .. End : x.event = Named(log[x.position], d)
    BY <1>11 DEF Sent
  <2>2. x.position \in 1 .. End /\ d \in 0 .. End
    BY <1>5, <1>11, <2>1 DEF Sent
  <2>3. log'[x.position] = log[x.position] /\ At(d)' = At(d)
    BY <1>5, <2>2
  <2>4. PICK ev : ev = log[x.position] /\ ev = log'[x.position]
    BY <2>3
  <2>5. Named(ev, d)' = Named(ev, d)
    BY <2>3 DEF Named, First, Of, Holder
  <2>6. x.event = Named(ev, d)'
    BY <2>1, <2>4, <2>5
  <2>7. x.position \in 1 .. End' /\ d \in x.position .. End'
    BY <1>5, <2>1, <2>2
  <2>. QED
    BY <2>4, <2>6, <2>7 DEF Sent
<1>12. Queued'
  <2>1. \A n \in 1 .. Len(inbox) : Follows(n)'
    BY <1>2, <1>3 DEF Queued, Follows
  <2>2. ASSUME NEW n \in 1 .. Len(inbox), inbox[n].event # Told PROVE Sent(inbox[n])'
    <3>1. PICK y : y = inbox[n] /\ y = inbox'[n]
      BY <1>2
    <3>2. Sent(y)
      BY <1>3, <2>2, <3>1 DEF Queued
    <3>3. Sent(y)'
      BY <1>11, <3>2
    <3>. QED
      BY <3>1, <3>3
  <2>3. read <= End'
    BY <1>3, <1>5 DEF Queued, TypeOK
  <2>. QED
    BY <1>2, <1>3, <2>1, <2>2, <2>3 DEF Queued
<1>13. ASSUME NEW p \in Nat, Before(p) PROVE Before(p)'
  BY <1>2, <1>5, <1>13 DEF Before
<1>14. Ahead'
  <2>1. Doing("rows") \/ Doing("versions") => Work.position \in Nat
    BY <1>3, HeadIs, WorkIs DEF Doing, Work, TypeOK, Shape
  <2>2. ASSUME NEW task \in tasks, Head(task).k = "rows" PROVE Head(task).position \in Nat
    <3>1. Head(task) \in Works
      BY <1>3, TasksAre, HeadIs
    <3>. QED
      BY <2>2, <3>1, WorkIs
  <2>. QED
    BY <1>2, <1>3, <1>13, <2>1, <2>2 DEF Ahead, Doing, Work
<1>15. Applied' = Applied /\ (Aware' <=> Aware)
  BY <1>2, <1>3, SameApplied DEF TypeOK
<1>16. \A t : Lately(t) => Lately(t)'
  BY <1>2, <1>10, <1>15 DEF Lately
<1>17. DraftRows'
  BY <1>2, <1>5, <1>10, <1>15 DEF IInv, DraftRows, Doing, Work
<1>18. DraftPerson'
  <2> SUFFICES ASSUME Doing("adopt")
               PROVE  DraftPerson'
    BY <1>2 DEF DraftPerson, Doing
  <2>1. PICK t \in 0 .. End : /\ Lately(t)
            /\ draft.person = Holder(At(t), Work.id)
            /\ draft.on = (draft.person \in At(t).marked[Work.list])
            /\ draft.version = At(t).version[draft.person]
    BY DEF IInv, DraftPerson
  <2>2. t \in 0 .. End' /\ At(t)' = At(t) /\ Lately(t)'
    BY <1>5, <1>10, <1>16, <2>1
  <2>3. PICK i : i = Work.id /\ i = Work.id'
    BY <1>2 DEF Work
  <2>4. Holder(At(t), i)' = Holder(At(t), i)
    BY <2>2 DEF Holder
  <2>5. Work' = Work
    BY <1>2 DEF Work
  <2>. QED
    BY <1>2, <2>1, <2>2, <2>3, <2>4, <2>5 DEF DraftPerson
<1>19. DraftMembers'
  <2>1. ASSUME NEW t \in 0 .. End, NEW x \in Ids, Shows(t, x)
        PROVE  Shows(t, x)'
    <3>1. First(At(t), x)' = First(At(t), x)
      BY <1>5 DEF First, Of, Holder
    <3>2. Since(t, x)' => Since(t, x)
      BY <1>3, <1>4, SinceWrites
    <3>. QED
      BY <2>1, <3>1, <3>2 DEF Shows
  <2>2. \A t \in 0 .. End : t \in 0 .. End'
    BY <1>5, <1>10
  <2>. QED
    BY <1>2, <1>16, <2>1, <2>2, MembersStay DEF IInv
<1>20. Holds'
  <2> SUFFICES ASSUME ~Lapsed(owed), mirror.ready
               PROVE  Truth(mirror, Applied, mixed, Free)'
    BY <1>2 DEF Holds
  <2>1. PICK m, from, mix, more, free, freer :
            /\ m = mirror /\ m = mirror' /\ from = Applied /\ from = Applied'
            /\ mix = mixed /\ more = mixed' /\ free = Free /\ freer = Free'
    BY <1>2, <1>15
  <2>2. from \in 0 .. End /\ Whole(m) /\ Truth(m, from, mix, free)
    BY <1>3, <2>1 DEF IInv, Places, TypeOK, Holds
  <2>3. Coming' = Coming /\ Missed(owed, torn, mixed) \subseteq Missed(owed', torn', mixed')
    BY <1>2, <1>9, MissedMore DEF Coming
  <2>4. mix \subseteq more /\ free \subseteq freer
    BY <1>9, <2>1, <2>3 DEF Free
  <2>5. Truth(m, from, more, freer)
    BY <2>2, <2>4, TruthMore
  <2>6. Truth(m, from, more, freer)'
    BY <1>3, <1>4, <2>2, <2>5, TruthWrites
  <2>. QED
    BY <2>1, <2>6
<1>21. \A p : Upto(p)' <=> Upto(p)
  BY <1>2 DEF Upto
<1>22. Places'
  <2>1. Upto(End) /\ (~Lapsed(owed) => Applied \in 0 .. End /\ Upto(Applied))
    BY DEF IInv, Places
  <2>2. Upto(End + 1)
    <3>1. mirror.position <= End + 1
      BY <1>3, <1>5, <2>1 DEF Upto, TypeOK, Whole, States
    <3>2. deferred # Quiet => deferred.position <= End + 1
      BY <1>3, <1>5, <2>1 DEF Upto, TypeOK
    <3>3. ASSUME Ends(todo) \in {"relinked", "flushed"} PROVE todo[Len(todo)].position <= End + 1
      <4>1. todo # <<>>
        BY <3>3 DEF Ends
      <4>2. todo \in Seq(Works) /\ Len(todo) \in 1 .. Len(todo) /\ todo[Len(todo)] \in Works
        BY <1>3, <4>1, EmptySeq DEF TypeOK
      <4>3. todo[Len(todo)].k \in {"relinked", "flushed"}
        BY <3>3, <4>1 DEF Ends
      <4>4. todo[Len(todo)].position \in Nat
        BY <4>2, <4>3, WorkIs
      <4>5. todo[Len(todo)].position <= End
        BY <2>1, <3>3 DEF Upto
      <4>. QED
        BY <1>5, <4>4, <4>5
    <3>. QED
      BY <3>1, <3>2, <3>3 DEF Upto
  <2>. QED
    BY <1>2, <1>5, <1>10, <1>15, <1>21, <2>1, <2>2 DEF Places
<1>23. Unsettled'
  <2>1. Coming' = Coming
    BY <1>2 DEF Coming
  <2>2. mirror.position \in 0 .. End
    BY <1>3, <1>5 DEF IInv, Places, Upto, TypeOK, Whole, States
  <2>3. ASSUME NEW x \in Coming, Since(mirror.position, x[2])' PROVE Since(mirror.position, x[2])
    <3>1. x[2] \in Ids
      BY DEF Coming
    <3>2. PICK i \in Ids, p \in 0 .. End : i = x[2] /\ p = mirror.position /\ p = mirror'.position
      BY <1>2, <2>2, <3>1
    <3>3. Since(p, i)'
      BY <2>3, <3>2
    <3>4. Since(p, i)
      BY <1>3, <1>4, <3>3, SinceWrites
    <3>. QED
      BY <3>2, <3>4
  <2>. QED
    BY <1>2, <2>1, <2>3 DEF IInv, Unsettled
<1>24. Drafted'
  <2> SUFFICES ASSUME Doing("loaded") PROVE Drafted'
    BY <1>2 DEF Drafted, Doing
  <2>1. PICK edit, from : edit = draft.edit /\ edit = draft'.edit /\ from = Applied /\ from = Applied'
    BY <1>2, <1>15
  <2>2. /\ Alike(edit, mirror) /\ DOMAIN mirror.people \subseteq DOMAIN edit.people
        /\ ~Lapsed(owed) /\ mirror.ready => Names(edit, from) /\ Renders(edit, from)
    BY <2>1 DEF IInv, Drafted
  <2>3. Whole(edit)
    BY <2>1 DEF IInv, DraftMembers
  <2>4. ~Lapsed(owed) /\ mirror.ready => Names(edit, from)' /\ Renders(edit, from)'
    <3>1. ~Lapsed(owed) => from \in 0 .. End
      BY <2>1 DEF IInv, Places
    <3>. QED
      BY <1>3, <1>4, <2>2, <2>3, <3>1, NamesWrites
  <2>. QED
    BY <1>2, <2>1, <2>2, <2>4 DEF Drafted
<1>25. Saved'
  <2>1. PICK m, from, mix, free : /\ m = file.mirror /\ from = file.mirror.position /\ mix = file.mixed
                                  /\ free = Missed(file.owed, file.torn, file.mixed)
    OBVIOUS
  <2>2. from \in 0 .. End /\ Whole(m)
    BY <1>3, <2>1 DEF Saved, TypeOK
  <2>3. Truth(m, from, mix, free) => Truth(m, from, mix, free)'
    BY <1>3, <1>4, <2>2, TruthWrites
  <2>4. Truth(file.mirror, file.mirror.position, file.mixed, Missed(file.owed, file.torn, file.mixed))
        => Truth(file.mirror, file.mirror.position, file.mixed, Missed(file.owed, file.torn, file.mixed))'
    BY <1>2, <2>1, <2>3
  <2>. QED
    BY <1>2, <1>3, <1>10, <2>4 DEF Saved
<1>. QED
  BY <1>6, <1>7, <1>8, <1>9, <1>12, <1>14, <1>17, <1>18, <1>19, <1>20, <1>22, <1>23, <1>24, <1>25 DEF IInv

\* The state without the members that are still loading.
Loaded(m) ==
    [m EXCEPT !.members = Restrict(m.members, {k \in DOMAIN m.members : m.members[k].loaded})]

LEMMA RestrictMaps ==
    ASSUME NEW S, NEW f \in Maps(S), NEW keys \in SUBSET DOMAIN f
    PROVE  Restrict(f, keys) \in Maps(S)
<1>1. DOMAIN f \subseteq Ids /\ f \in [DOMAIN f -> S]
  BY MapsIs
<1>2. Restrict(f, keys) = [k \in keys |-> f[k]]
  BY DEF Restrict
<1>3. PICK g : g = Restrict(f, keys)
  OBVIOUS
<1>4. DOMAIN g = keys /\ g \in [DOMAIN g -> S]
  BY <1>1, <1>2, <1>3
<1>. QED
  BY <1>1, <1>3, <1>4, MapsIs

LEMMA LoadedOnly ==
    ASSUME NEW m, Whole(m), NEW w, w = Loaded(m)
    PROVE  Whole(w) /\ Says(w, m) /\ w.position = m.position
<1>1. m \in States /\ m.members \in Maps(Entries)
  BY DEF Whole, States, Entries
<1>2. PICK members \in Maps(Entries) :
          members = Restrict(m.members, {k \in DOMAIN m.members : m.members[k].loaded})
  BY <1>1, RestrictMaps
<1>3. w = [m EXCEPT !.members = members]
  BY <1>2 DEF Loaded
<1>4. w \in States
  BY <1>1, <1>2, <1>3 DEF States, Entries
<1>5. w.people = m.people
  BY <1>1, <1>3 DEF States
<1>6. Whole(w)
  BY <1>4, <1>5 DEF Whole
<1>7. Says(w, m) /\ w.position = m.position
  BY <1>1, <1>3 DEF Says, States
<1>. QED
  BY <1>6, <1>7

LEMMA SaveKeeps ==
    ASSUME IInv, Save, NoteMixed
    PROVE  IInv'
<1> HIDE DEF Works, Items
<1>1. /\ todo = <<>> /\ deferred = Quiet /\ mirror.ready
      /\ file' = [mirror |-> Loaded(mirror), owed |-> owed, torn |-> torn, mixed |-> mixed]
      /\ UNCHANGED <<contentVars, mirror, todo, draft, tasks, deferred,
                     trackVars, streamVars, owed, torn>>
  BY DEF Save, Calm, Idle, Loaded
<1>2. /\ past' = past /\ log' = log /\ inbox' = inbox /\ resync' = resync /\ live' = live /\ read' = read
      /\ tasks' = tasks /\ waiting' = waiting /\ loads' = loads /\ mirror' = mirror
      /\ owed' = owed /\ torn' = torn /\ deferred' = deferred /\ todo' = todo /\ swept' = swept
  BY <1>1 DEF contentVars, streamVars, trackVars
<1>3. Content /\ TypeOK /\ Shape /\ Queued /\ Ahead /\ Saved /\ Unmixed
  BY DEF IInv
<1>4. PICK w : w = Loaded(mirror)
  OBVIOUS
<1>5. Whole(w) /\ Says(w, mirror) /\ w.position = mirror.position
  BY <1>3, <1>4, LoadedOnly DEF TypeOK
<1>6. /\ file'.mirror = w /\ file'.owed = owed /\ file'.torn = torn /\ file'.mixed = mixed
  BY <1>1, <1>4
<1>7. Content' /\ Shape' /\ Queued'
  BY <1>2, <1>3, SameContent, SameShape, SameQueued
<1>8. TypeOK'
  BY <1>2, <1>3, <1>5, <1>6 DEF TypeOK
<1>9. Ahead'
  BY <1>2, <1>3, SameBefore DEF Ahead, Doing, Work
<1>10. Applied' = Applied /\ (Aware' <=> Aware)
  BY <1>2, <1>3, SameApplied DEF TypeOK
<1>11. Unmixed' /\ mixed \subseteq mixed'
  BY <1>2, <1>3, MixedGrows
<1>12. Saved'
  <2>1. DOMAIN file'.mirror.people = {} => file'.mixed = {}
    BY <1>3, <1>5, <1>6 DEF Unmixed, Says
  <2>2. End' = End /\ w.position \in 0 .. End
    BY <1>2, <1>3, <1>5, SameRows, RowsSound DEF IInv, Places, Upto, TypeOK, Whole, States
  <2>3. ASSUME ~Lapsed(owed)
        PROVE  Truth(w, w.position, mixed, Missed(owed, torn, mixed))
    <3>1. PICK m, from, before, mix, free : /\ m = mirror /\ from = Applied /\ before = w.position
              /\ mix = mixed /\ free = Missed(owed, torn, mixed)
      OBVIOUS
    <3>2. Free = free
      BY <1>1, <3>1 DEF Free, Coming, Ends
    <3>3. from \in 0 .. End /\ before \in 0 .. End /\ before <= from
      BY <1>5, <2>2, <2>3, <3>1 DEF IInv, Places, Upto
    <3>4. Truth(m, from, mix, free)
      BY <1>1, <2>3, <3>1, <3>2 DEF IInv, Holds
    <3>5. Truth(m, before, mix, free)
      BY <1>3, <3>3, <3>4, TruthEarlier
    <3>6. Truth(w, before, mix, free)
      BY <1>5, <3>1, <3>5, SaysTruth
    <3>. QED
      BY <3>1, <3>6
  <2>5. PICK before, mix, free : before = w.position /\ mix = mixed /\ free = Missed(owed, torn, mixed)
    OBVIOUS
  <2>6. ~Lapsed(owed) => Truth(w, before, mix, free)'
    BY <1>2, <2>3, <2>5, SameTruth
  <2>7. /\ before = file'.mirror.position /\ mix = file'.mixed
        /\ free = Missed(file'.owed, file'.torn, file'.mixed)
    BY <1>6, <2>5
  <2>. QED
    BY <1>6, <2>1, <2>2, <2>6, <2>7 DEF Saved
<1>. QED
  BY <1>1, <1>2, <1>7, <1>8, <1>9, <1>10, <1>11, <1>12, HeldKeeps

LEMMA StutterKeeps ==
    ASSUME IInv, UNCHANGED vars
    PROVE  IInv'
<1>1. /\ past' = past /\ log' = log /\ inbox' = inbox /\ resync' = resync /\ live' = live /\ read' = read
      /\ tasks' = tasks /\ waiting' = waiting /\ loads' = loads /\ mirror' = mirror /\ file' = file
      /\ owed' = owed /\ torn' = torn /\ deferred' = deferred /\ todo' = todo /\ swept' = swept
      /\ draft' = draft /\ mixed' = mixed
  BY DEF vars, contentVars, streamVars, trackVars
<1>2. Content /\ TypeOK /\ Shape /\ Queued /\ Ahead /\ Saved /\ Unmixed
  BY DEF IInv
<1>3. Content' /\ Shape' /\ Queued' /\ Saved'
  BY <1>1, <1>2, SameContent, SameShape, SameQueued, SameSaved
<1>4. TypeOK'
  BY <1>1, <1>2 DEF TypeOK
<1>5. Ahead'
  BY <1>1, <1>2, SameBefore DEF Ahead, Doing, Work
<1>6. Applied' = Applied /\ (Aware' <=> Aware)
  BY <1>1, <1>2, SameApplied DEF TypeOK
<1>7. Unmixed'
  BY <1>1, <1>2 DEF Unmixed
<1>. QED
  BY <1>1, <1>3, <1>4, <1>5, <1>6, <1>7, HeldKeeps

\* A call, which the applier takes when it has nothing else to do.
LEMMA CallKeeps ==
    ASSUME IInv, NoteMixed, todo = <<>>, deferred = Quiet,
           UNCHANGED <<contentVars, draft, tasks, deferred, streamVars, file, owed, torn>>,
           NEW w, w = mirror', Whole(w), Alike(w, mirror), DOMAIN mirror.people \subseteq DOMAIN w.people,
           ~Lapsed(owed) /\ mirror.ready => Names(w, Applied) /\ Renders(w, Applied),
           loads' \in IdSets, waiting' \in IdSets, todo' = <<>> \/ todo' = <<LoadGroup>>
    PROVE  IInv'
<1> HIDE DEF Works, Items
<1>1. /\ past' = past /\ log' = log /\ inbox' = inbox /\ resync' = resync /\ live' = live /\ read' = read
      /\ tasks' = tasks /\ file' = file /\ owed' = owed /\ torn' = torn /\ deferred' = deferred
  BY DEF contentVars, streamVars
<1>2. TypeOK /\ Shape /\ Ahead
  BY DEF IInv
<1>3. LoadGroup \in Works /\ LoadGroup.k = "group"
  BY DEF LoadGroup, Works
<1>4. /\ todo' \in Seq(Works) /\ Tidy(todo') /\ Ends(todo') \in {"nothing", "group"}
      /\ todo' # <<>> => Head(todo').k = "group"
  BY <1>3, OneIs, NothingIs
<1>5. TypeOK'
  BY <1>1, <1>2, <1>4 DEF TypeOK
<1>6. Shape'
  <2>1. ~Starting' /\ ~Doing("position")' /\ ~Doing("rows")' /\ ~Doing("versions")'
    BY <1>4 DEF Starting, Doing
  <2>. QED
    BY <1>1, <1>2, <1>4, <2>1 DEF Shape
<1>7. Ahead'
  BY <1>1, <1>2, <1>4, SameAhead
<1>8. DraftRows' /\ DraftPerson' /\ DraftMembers' /\ Drafted'
  BY <1>4, NoDraft
<1>9. Coming = {} /\ Coming' = {}
  BY <1>4 DEF Coming, Ends
<1>10. mixed \subseteq mixed' => Free \subseteq Free'
  BY <1>1, <1>9, MissedMore DEF Free
<1>11. \A p : Upto(p) => Upto(p)'
  BY <1>1, <1>4 DEF Upto, Alike
<1>. QED
  BY <1>1, <1>5, <1>6, <1>7, <1>8, <1>9, <1>10, <1>11, PeopleKeep

\* What resolve finds is true of the people it is about.
LEMMA ResolvedTrue ==
    ASSUME IInv, NEW i \in Ids, NEW m, m = Resolved(mirror, i)
    PROVE  /\ Whole(m) /\ Alike(m, mirror) /\ DOMAIN mirror.people \subseteq DOMAIN m.people
           /\ m.members = mirror.members /\ m.people[i].key \in Ids
           /\ ~Lapsed(owed) /\ mirror.ready => Names(m, Applied) /\ Renders(m, Applied)
<1>1. Content /\ TypeOK /\ Whole(mirror)
  BY DEF IInv, TypeOK
<1>2. 0 \in 0 .. End
  BY <1>1, RowsSound
<1>3. /\ Whole(m) /\ Alike(m, mirror) /\ DOMAIN mirror.people \subseteq DOMAIN m.people
      /\ m.members = mirror.members /\ m.people[i].key \in Ids
  BY <1>1, <1>2, ResolvedIs
<1>4. ASSUME ~Lapsed(owed), mirror.ready PROVE Names(m, Applied) /\ Renders(m, Applied)
  <2>1. PICK from : from = Applied
    OBVIOUS
  <2>2. from \in 0 .. End /\ Names(mirror, from) /\ Renders(mirror, from)
    BY <1>4, <2>1 DEF IInv, Places, Holds, Truth
  <2>3. Names(m, from) /\ Renders(m, from)
    BY <1>1, <2>2, ResolvedIs
  <2>. QED
    BY <2>1, <2>3
<1>. QED
  BY <1>3, <1>4

LEMMA ResolveKeeps ==
    ASSUME IInv, NEW i \in Ids, Resolve(i), NoteMixed
    PROVE  IInv'
<1>1. /\ todo = <<>> /\ deferred = Quiet /\ mirror' = Resolved(mirror, i)
      /\ UNCHANGED <<contentVars, draft, tasks, deferred, streamVars, file, owed, torn>>
      /\ todo' = todo /\ loads' = loads /\ waiting' = waiting
  BY DEF Resolve, Call, Calm, Idle
<1>2. PICK w : w = mirror'
  OBVIOUS
<1>3. /\ Whole(w) /\ Alike(w, mirror) /\ DOMAIN mirror.people \subseteq DOMAIN w.people
      /\ ~Lapsed(owed) /\ mirror.ready => Names(w, Applied) /\ Renders(w, Applied)
  BY <1>1, <1>2, ResolvedTrue
<1>4. loads' \in IdSets /\ waiting' \in IdSets
  BY <1>1 DEF IInv, TypeOK
<1>. QED
  BY <1>1, <1>2, <1>3, <1>4, CallKeeps

\* A state whose members alone are others.
WithMembers(m, members) == [m EXCEPT !.members = members]

LEMMA MembersOnly ==
    ASSUME NEW m, Whole(m), NEW members \in Maps(Entries), NEW w, w = WithMembers(m, members)
    PROVE  /\ Whole(w) /\ Says(w, m) /\ Alike(w, m) /\ w.members = members
           /\ w.people = m.people /\ Sets(w) = Sets(m)
           /\ \A from : Names(m, from) /\ Renders(m, from) => Names(w, from) /\ Renders(w, from)
<1>1. m \in States
  BY DEF Whole
<1>2. w \in States /\ w.people = m.people /\ Says(w, m) /\ Alike(w, m) /\ w.members = members
  BY <1>1 DEF States, Entries, Says, Alike, WithMembers
<1>3. Whole(w) /\ Sets(w) = Sets(m)
  BY <1>2 DEF Whole, Sets
<1>4. \A from : Names(m, from) /\ Renders(m, from) => Names(w, from) /\ Renders(w, from)
  BY <1>2, <1>3 DEF Names, Renders, Says
<1>. QED
  BY <1>2, <1>3, <1>4

LEMMA KeysAre ==
    ASSUME NEW m, Whole(m), NEW i \in Ids, NEW k \in Keys(m, i)
    PROVE  k \in DOMAIN m.members /\ k \in Ids
<1>1. k \in DOMAIN m.members
  BY DEF Keys
<1>2. m.members \in Maps(Entries)
  BY DEF Whole, States, Entries
<1>. QED
  BY <1>1, <1>2, MapsIs

LEMMA TrackKeeps ==
    ASSUME IInv, NEW i \in Ids, Track(i), NoteMixed
    PROVE  IInv'
<1>1. /\ todo = <<>> /\ deferred = Quiet
      /\ UNCHANGED <<contentVars, draft, tasks, deferred, streamVars, file, owed, torn>>
  BY DEF Track, Call, Calm, Idle
<1>2. PICK m : m = Resolved(mirror, i)
  OBVIOUS
<1>3. /\ Whole(m) /\ Alike(m, mirror) /\ DOMAIN mirror.people \subseteq DOMAIN m.people
      /\ m.members = mirror.members /\ m.people[i].key \in Ids
      /\ ~Lapsed(owed) /\ mirror.ready => Names(m, Applied) /\ Renders(m, Applied)
  BY <1>2, ResolvedTrue
<1>4. loads \in IdSets /\ waiting \in IdSets
  BY DEF IInv, TypeOK
<1>5. CASE \E k \in Keys(m, i) : /\ mirror' = m
                                 /\ waiting' = IF m.members[k].loaded /\ k \notin waiting THEN waiting
                                               ELSE waiting \cup {k}
                                 /\ UNCHANGED <<todo, loads>>
  <2>1. PICK k \in Keys(m, i) : /\ mirror' = m /\ todo' = todo /\ loads' = loads
                                /\ waiting' = waiting \/ waiting' = waiting \cup {k}
    BY <1>5
  <2>2. k \in Ids
    BY <1>3, KeysAre
  <2>3. loads' \in IdSets /\ waiting' \in IdSets
    BY <1>4, <2>1, <2>2 DEF IdSets
  <2>. QED
    BY <1>1, <1>3, <2>1, <2>3, CallKeeps
<1>6. CASE /\ Keys(m, i) = {}
           /\ mirror' = [m EXCEPT !.members = Put(@, {m.people[i].key}, Pending)]
           /\ waiting' = waiting \cup {m.people[i].key}
           /\ loads' = loads \cup {m.people[i].key}
           /\ todo' = IF m.group = 0 THEN <<LoadGroup>> ELSE <<>>
  <2>1. PICK key \in Ids : key = m.people[i].key
    BY <1>3
  <2>2. Pending \in Entries
    BY RowTypes DEF Pending, Entries
  <2>3. m.members \in Maps(Entries)
    BY <1>3 DEF Whole, States, Entries
  <2>4. PICK members \in Maps(Entries) : members = Put(m.members, {key}, Pending)
    BY <2>2, <2>3, PutMaps
  <2>5. PICK w : w = mirror' /\ w = WithMembers(m, members)
    BY <1>6, <2>1, <2>4 DEF WithMembers
  <2>6. /\ Whole(w) /\ Alike(w, m) /\ w.people = m.people
        /\ \A from : Names(m, from) /\ Renders(m, from) => Names(w, from) /\ Renders(w, from)
    BY <1>3, <2>5, MembersOnly
  <2>7. Alike(w, mirror)
    BY <1>3, <2>6 DEF Alike
  <2>8. loads' \in IdSets /\ waiting' \in IdSets
    BY <1>4, <1>6, <2>1 DEF IdSets
  <2>9. ~Lapsed(owed) /\ mirror.ready => Names(w, Applied) /\ Renders(w, Applied)
    BY <1>3, <2>6
  <2>10. todo' = <<>> \/ todo' = <<LoadGroup>>
    BY <1>6
  <2>11. DOMAIN mirror.people \subseteq DOMAIN w.people
    BY <1>3, <2>6
  <2>. QED
    BY <1>1, <2>5, <2>6, <2>7, <2>8, <2>9, <2>10, <2>11, CallKeeps
<1>. QED
  BY <1>2, <1>5, <1>6 DEF Track

LEMMA UntrackKeeps ==
    ASSUME IInv, NEW i \in Ids, Untrack(i), NoteMixed
    PROVE  IInv'
<1>1. /\ todo = <<>> /\ deferred = Quiet /\ todo' = todo /\ loads' = loads
      /\ UNCHANGED <<contentVars, draft, tasks, deferred, streamVars, file, owed, torn>>
  BY DEF Untrack, Call, Calm, Idle
<1>2. PICK k \in Keys(mirror, i) :
          /\ mirror' = [mirror EXCEPT !.members = Restrict(@, DOMAIN @ \ {k})]
          /\ waiting' = waiting \ {k}
  BY DEF Untrack
<1>3. Whole(mirror) /\ loads \in IdSets /\ waiting \in IdSets
  BY DEF IInv, TypeOK
<1>4. mirror.members \in Maps(Entries)
  BY <1>3 DEF Whole, States, Entries
<1>5. PICK members \in Maps(Entries) : members = Restrict(mirror.members, DOMAIN mirror.members \ {k})
  BY <1>4, RestrictMaps
<1>6. PICK w : w = mirror' /\ w = WithMembers(mirror, members)
  BY <1>2, <1>5 DEF WithMembers
<1>7. /\ Whole(w) /\ Alike(w, mirror) /\ w.people = mirror.people
      /\ \A from : Names(mirror, from) /\ Renders(mirror, from) => Names(w, from) /\ Renders(w, from)
  BY <1>3, <1>6, MembersOnly
<1>8. ~Lapsed(owed) /\ mirror.ready => Names(w, Applied) /\ Renders(w, Applied)
  BY <1>7 DEF IInv, Holds, Truth
<1>9. loads' \in IdSets /\ waiting' \in IdSets
  BY <1>1, <1>2, <1>3 DEF IdSets
<1>. QED
  BY <1>1, <1>6, <1>7, <1>8, <1>9, CallKeeps

\* A state with other people: those that a snapshot put back.
WithPeople(m, people) == [m EXCEPT !.people = people]

\* Whoever is put back was saved, but for the key.
LEMMA ReadBackIs ==
    ASSUME NEW m, Whole(m), NEW people \in ReadBack(m), NEW w, w = WithPeople(m, people)
    PROVE  /\ Whole(w) /\ Alike(w, m) /\ w.rendered = m.rendered
           /\ DOMAIN w.people = DOMAIN m.people /\ Fewer(w, m)
<1> DEFINE Person_ == [ids : SUBSET Ids, key : Ids]
<1>1. m \in States /\ DOMAIN m.people \subseteq Ids /\ m.people \in [DOMAIN m.people -> Person_]
  <2>1. m.people \in Maps(Person_)
    BY DEF Whole, States
  <2>. QED
    BY <2>1, MapsIs DEF Whole
<1>2. people \in [DOMAIN m.people ->
          {x \in Person_ : \E j \in DOMAIN m.people : x.ids = m.people[j].ids}]
  <2>1. PICK F : /\ people \in [DOMAIN m.people -> F]
                 /\ \A x \in F : x \in Person_ /\ \E j \in DOMAIN m.people : x.ids = m.people[j].ids
    <3> DEFINE saved == Range(m.people)
               alone(p) == \A q \in saved : q.ids = p.ids \/ q.ids \cap p.ids = {}
               keys(p) == LET seen == p.ids \cap m.rendered
                          IN  IF alone(p) /\ seen # {} THEN seen ELSE seen \cup {p.key}
               found == UNION {{[p EXCEPT !.key = key] : key \in keys(p)} : p \in saved}
    <3>1. people \in [DOMAIN m.people -> found]
      BY DEF ReadBack
    <3>2. ASSUME NEW x \in found
          PROVE  x \in Person_ /\ \E j \in DOMAIN m.people : x.ids = m.people[j].ids
      <4>1. PICK p \in saved : x \in {[p EXCEPT !.key = key] : key \in keys(p)}
        OBVIOUS
      <4>2. PICK key \in keys(p) : x = [p EXCEPT !.key = key]
        BY <4>1
      <4>3. PICK j \in DOMAIN m.people : p = m.people[j]
        BY DEF Range
      <4>4. p \in Person_
        BY <1>1, <4>3
      <4>5. key \in p.ids \/ key = p.key
        BY <4>2
      <4>6. key \in Ids
        BY <4>4, <4>5
      <4>7. x \in Person_ /\ x.ids = p.ids
        BY <4>2, <4>4, <4>6
      <4>. QED
        BY <4>3, <4>7
    <3>. QED
      BY <3>1, <3>2
  <2>2. DOMAIN people = DOMAIN m.people
    BY <2>1
  <2>. QED
    BY <2>1, <2>2
<1>3. \A i \in DOMAIN people : i \in people[i].ids
  BY DEF ReadBack
<1>4. DOMAIN people = DOMAIN m.people
      /\ \A i \in DOMAIN people : people[i] \in Person_ /\ \E j \in DOMAIN m.people :
            people[i].ids = m.people[j].ids
  BY <1>2
<1>5. people \in Maps(Person_)
  <2>1. people \in [DOMAIN people -> Person_]
    BY <1>2, <1>4
  <2>. QED
    BY <1>1, <1>4, <2>1, MapsIs
<1>6. w \in States /\ w.people = people /\ Alike(w, m) /\ w.rendered = m.rendered
  BY <1>1, <1>5 DEF States, Alike, WithPeople
<1>7. Whole(w)
  BY <1>3, <1>4, <1>6 DEF Whole
<1>8. Fewer(w, m)
  BY <1>4, <1>6 DEF Fewer, Sets
<1>. QED
  BY <1>4, <1>6, <1>7, <1>8

LEMMA RestartKeeps ==
    ASSUME IInv, Restart, mixed' = file.mixed
    PROVE  IInv'
<1> HIDE DEF Works, Items
<1>1. /\ past' = past /\ log' = log /\ file' = file /\ swept' \in {swept, End}
      /\ todo' = Start(file.mirror.ready) /\ owed' = file.owed /\ torn' = file.torn
      /\ deferred' = Quiet /\ draft' = <<>> /\ tasks' = {} /\ loads' = {} /\ waiting' = {}
      /\ inbox' = <<>> /\ live' = FALSE /\ read' = 0 /\ resync' = 0
  BY DEF Restart
<1>2. PICK people \in ReadBack(file.mirror) : mirror' = [file.mirror EXCEPT !.people = people]
  BY DEF Restart
<1>3. PICK w : w = mirror' /\ w = WithPeople(file.mirror, people)
  BY <1>2 DEF WithPeople
<1>4. Content /\ TypeOK /\ Saved
  BY DEF IInv
<1>5. /\ Whole(w) /\ Alike(w, file.mirror) /\ w.rendered = file.mirror.rendered
      /\ DOMAIN w.people = DOMAIN file.mirror.people /\ Fewer(w, file.mirror)
  BY <1>3, <1>4, ReadBackIs DEF TypeOK
<1>6. Content' /\ Saved'
  BY <1>1, <1>4, SameContent, SameSaved
<1>7. End' = End /\ End \in Nat
  BY <1>1, <1>4, SameRows, RowsSound
<1>8. /\ todo' \in Seq(Works) /\ todo' # <<>> /\ Tidy(todo') /\ Ends(todo') = "subscribe"
      /\ Head(todo').k \in {"subscribe", "position"}
  <2>1. PICK resume \in BOOLEAN : resume = file.mirror.ready
    BY <1>4 DEF TypeOK, Whole, States
  <2>2. PICK s : s = todo' /\ s = Start(resume)
    BY <1>1, <2>1
  <2>3. s \in Seq(Works) /\ s # <<>> /\ Tidy(s) /\ Ends(s) = "subscribe"
        /\ Head(s).k = (IF resume THEN "subscribe" ELSE "position")
    BY <2>2, StartIs
  <2>. QED
    BY <2>2, <2>3
<1>9. TypeOK'
  <2>1. Quiet \in [group : BOOLEAN, members : IdSets, position : Nat] /\ {} \in IdSets
    BY DEF Quiet, IdSets
  <2>2. <<>> \in Seq(Items)
    BY EmptySeq
  <2>. QED
    BY <1>1, <1>3, <1>4, <1>5, <1>8, <2>1, <2>2 DEF TypeOK
<1>10. Shape'
  <2>1. ~Doing("rows")' /\ ~Doing("versions")' /\ Starting'
    BY <1>8 DEF Doing, Starting
  <2>. QED
    BY <1>1, <1>8, <2>1 DEF Shape, Attempts
<1>11. Queued'
  <2>1. Len(<<>>) = 0
    BY EmptySeq
  <2>. QED
    BY <1>1, <1>7, <2>1 DEF Queued
<1>12. Ahead'
  BY <1>1, <1>8 DEF Ahead, Doing
<1>13. DraftRows' /\ DraftPerson' /\ DraftMembers' /\ Drafted'
  BY <1>8, NoDraft
<1>14. Coming' = {}
  BY <1>8 DEF Coming
<1>15. PICK from : from = Applied' /\ from = file.mirror.position
  BY <1>1, <1>3, <1>5 DEF Applied, Alike
<1>16. from \in 0 .. End
  BY <1>4, <1>15 DEF Saved
<1>17. Holds'
  <2> SUFFICES ASSUME ~Lapsed(owed'), mirror'.ready
               PROVE  Truth(mirror, Applied, mixed, Free)'
    BY DEF Holds
  <2>1. PICK m, mix, free : /\ m = file.mirror /\ mix = file.mixed
                            /\ free = Missed(file.owed, file.torn, file.mixed)
    OBVIOUS
  <2>2. Truth(m, from, mix, free)
    BY <1>1, <1>3, <1>5, <1>15, <2>1 DEF Saved, Alike, IInv
  <2>3. Names(w, from) /\ Renders(w, from) /\ Marks(w, from, free)
    BY <1>5, <2>1, <2>2, TruthParts DEF Truth, Fewer, Alike
  <2>4. Kept(w, from, mix)
    BY <1>5, <2>1, <2>2 DEF Truth, Kept, Fewer
  <2>5. Truth(w, from, mix, free)
    BY <2>3, <2>4 DEF Truth
  <2>6. Truth(w, from, mix, free)'
    BY <1>1, <2>5, SameTruth
  <2>7. free = Free' /\ mix = mixed'
    BY <1>1, <1>14, <2>1 DEF Free
  <2>. QED
    BY <1>3, <1>15, <2>6, <2>7
<1>18. Places'
  <2>1. mirror'.position = from
    BY <1>3, <1>5, <1>15 DEF Alike
  <2>. QED
    BY <1>1, <1>7, <1>8, <1>15, <1>16, <2>1 DEF Places, Upto
<1>19. Unsettled'
  BY <1>14 DEF Unsettled
<1>20. Unmixed'
  BY <1>3, <1>4, <1>5 DEF Unmixed, Saved
<1>. QED
  BY <1>6, <1>9, <1>10, <1>11, <1>12, <1>13, <1>17, <1>18, <1>19, <1>20 DEF IInv

-----------------------------------------------------------------------------
(* What the applier does of an event                                       *)

\* The applier takes an event, and leaves what the stream and the server hold.
TakesEvent ==
    /\ todo = <<>> /\ inbox # <<>> /\ inbox' = Tail(inbox) /\ Head(inbox).event.k # "resync"
    /\ UNCHANGED <<contentVars, draft, tasks, trackVars, live, read, resync, file>>
    /\ owed \subseteq owed' /\ \A w \in owed' : w \in owed \/ w.k = "members"

\* Members that are owed are neither a full load nor the reload of a list.
LEMMA OwesMembers ==
    ASSUME owed \subseteq owed', \A w \in owed' : w \in owed \/ w.k = "members"
    PROVE  /\ Lapsed(owed') <=> Lapsed(owed)
           /\ \A t, mix : Missed(owed', t, mix) = Missed(owed, t, mix)
<1>1. \A l, i : Reload(l, i) \in owed' <=> Reload(l, i) \in owed
  BY DEF Reload
<1>. QED
  BY <1>1 DEF Lapsed, Missed

LEMMA EventTaken ==
    ASSUME IInv, NoteMixed, TakesEvent
    PROVE  /\ Content' /\ Saved' /\ Unmixed' /\ (Mixed \subseteq mixed)'
           /\ DOMAIN mirror.people \subseteq DOMAIN mirror'.people => mixed \subseteq mixed'
           /\ Queued' /\ live /\ live' /\ inbox' \in Seq(Items) /\ (\A p : Before(p) => Before(p)')
           /\ past' = past /\ log' = log /\ End' = End /\ End \in Nat
           /\ Lapsed(owed') <=> Lapsed(owed)
           /\ \A t, mix : Missed(owed', t, mix) = Missed(owed, t, mix)
           /\ Position \in 1 .. End /\ \E d \in Position .. End : Event = Named(log[Position], d)
           /\ ~Lapsed(owed) => /\ Position = Applied + 1 /\ Applied' = Position
                               /\ Applied \in 0 .. End /\ Position - 1 = Applied
<1> HIDE DEF Works, Items
<1>1. /\ past' = past /\ log' = log /\ swept' = swept /\ live' = live /\ read' = read /\ resync' = resync
      /\ file' = file /\ \A w \in owed : w \in owed'
  BY DEF TakesEvent, contentVars
<1>2. Content /\ TypeOK /\ Queued /\ Saved /\ Unmixed
  BY DEF IInv
<1>3. /\ Queued' /\ live /\ inbox' \in Seq(Items) /\ Applied' = Applied + 1
      /\ Head(inbox) = inbox[1] /\ inbox[1].position \in Nat
      /\ \A p : Before(p) => Before(p)'
  BY <1>1, <1>2, Taken DEF TakesEvent
<1>4. Content' /\ Saved' /\ Unmixed' /\ (Mixed \subseteq mixed)'
      /\ (DOMAIN mirror.people \subseteq DOMAIN mirror'.people => mixed \subseteq mixed')
  BY <1>1, <1>2, SameContent, SameSaved, MixedGrows
<1>5. End' = End /\ End \in Nat
  BY <1>1, <1>2, SameRows, RowsSound
<1>6. 1 \in 1 .. Len(inbox)
  BY <1>2, EmptySeq DEF TakesEvent, TypeOK
<1>7. Sent(inbox[1])
  <2>1. inbox[1].event # Told
    BY <1>3 DEF TakesEvent, Told
  <2>. QED
    BY <1>2, <1>6, <2>1 DEF Queued
<1>8. Position \in 1 .. End /\ \E d \in Position .. End : Event = Named(log[Position], d)
  BY <1>3, <1>7 DEF Sent, Position, Event
<1>9. ASSUME ~Lapsed(owed)
      PROVE  /\ Position = Applied + 1 /\ Applied' = Position
             /\ Applied \in 0 .. End /\ Position - 1 = Applied
  <2>1. Aware
    BY <1>2, <1>9, AwareIs
  <2>2. inbox[1].position = Applied + 1
    BY <1>2, <1>3, <2>1, NextEvent DEF TakesEvent
  <2>3. Applied \in 0 .. End
    BY <1>9 DEF IInv, Places
  <2>. QED
    BY <1>3, <2>2, <2>3 DEF Position
<1>10. /\ Lapsed(owed') <=> Lapsed(owed)
       /\ \A t, mix : Missed(owed', t, mix) = Missed(owed, t, mix)
  BY OwesMembers DEF TakesEvent
<1>. QED
  BY <1>1, <1>3, <1>4, <1>5, <1>8, <1>9, <1>10

\* An event that is settled with the state it leaves.
LEMMA SettledKeeps ==
    ASSUME IInv, NoteMixed, TakesEvent, todo' = todo, torn' \subseteq Lists \X Ids,
           NEW m, Whole(m), m.position = mirror.position, m.ready = mirror.ready,
           DOMAIN mirror.people \subseteq DOMAIN m.people,
           NEW d \in Deferrals, Settle(m, d, Position),
           NEW n, n = Position, NEW free, free = Missed(owed, torn', mixed'),
           ~Lapsed(owed) /\ mirror.ready /\ mixed \subseteq mixed' =>
               Names(m, n) /\ Renders(m, n) /\ Marks(m, n, free)
    PROVE  IInv'
<1> HIDE DEF Works, Items
<1>1. /\ Content' /\ Saved' /\ Unmixed' /\ (Mixed \subseteq mixed)'
      /\ DOMAIN mirror.people \subseteq DOMAIN mirror'.people => mixed \subseteq mixed'
      /\ Queued' /\ live /\ live' /\ inbox' \in Seq(Items) /\ (\A p : Before(p) => Before(p)')
      /\ past' = past /\ log' = log /\ End' = End /\ End \in Nat
      /\ Lapsed(owed') <=> Lapsed(owed)
      /\ \A t, mix : Missed(owed', t, mix) = Missed(owed, t, mix)
      /\ n \in 1 .. End
      /\ ~Lapsed(owed) => n = Applied + 1 /\ Applied' = n /\ Applied \in 0 .. End /\ n - 1 = Applied
  BY EventTaken
<1>2. todo = <<>> /\ todo' = <<>>
  BY DEF TakesEvent
<1>3. /\ live' = live /\ read' = read /\ resync' = resync /\ file' = file /\ tasks' = tasks
      /\ loads' = loads /\ waiting' = waiting
  BY DEF TakesEvent, trackVars
<1>4. TypeOK /\ Shape /\ Ahead
  BY DEF IInv
<1>5. n \in Nat
  BY <1>1
<1>6. /\ Whole(mirror') /\ Says(mirror', m) /\ deferred' \in Deferrals
      /\ \/ mirror'.position = n /\ deferred' = Quiet
         \/ mirror'.position = m.position /\ deferred'.position = n
  BY <1>5, SettleIs
<1>7. TypeOK'
  BY <1>1, <1>2, <1>3, <1>4, <1>6 DEF TypeOK, Deferrals
<1>8. Shape'
  <2>1. Tidy(todo') /\ Ends(todo') = "nothing"
    BY <1>2, NothingIs
  <2>2. ~Starting' /\ ~Doing("position")'
    BY <1>2, <2>1 DEF Starting, Doing
  <2>. QED
    BY <1>1, <1>2, <1>3, <1>4, <2>1, <2>2 DEF Shape
<1>9. Ahead'
  BY <1>1, <1>2, <1>3, <1>4 DEF Ahead, Doing
<1>10. DraftRows' /\ DraftPerson' /\ DraftMembers' /\ Drafted'
  BY <1>2, NoDraft
<1>11. Coming' = {}
  BY <1>2 DEF Coming, Ends
<1>12. free = Free'
  BY <1>1, <1>11 DEF Free
<1>13. Holds'
  <2> SUFFICES ASSUME ~Lapsed(owed), mirror'.ready
               PROVE  Truth(mirror, Applied, mixed, Free)'
    BY <1>1 DEF Holds
  <2>1. mixed \subseteq mixed' /\ mirror.ready
    BY <1>1, <1>6 DEF Says
  <2>2. Names(m, n) /\ Renders(m, n) /\ Marks(m, n, free)
    BY <2>1
  <2>3. PICK w, mix : w = mirror' /\ mix = mixed'
    OBVIOUS
  <2>4. Sets(w) = Sets(m)
    BY <1>6, <2>3 DEF Says, Sets
  <2>5. Names(w, n) /\ Renders(w, n) /\ Marks(w, n, free)
    BY <1>6, <2>2, <2>3, <2>4, TruthParts DEF Says
  <2>6. Names(w, n)' /\ Renders(w, n)' /\ Marks(w, n, free)'
    BY <1>1, <2>5, SameTruth
  <2>7. Applied' \in 0 .. End'
    BY <1>1
  <2>8. Truth(w, n, mix, free)'
    BY <1>1, <1>6, <2>3, <2>6, <2>7, TruthNoted
  <2>. QED
    BY <1>1, <1>12, <2>3, <2>8
<1>14. Places'
  <2>1. mirror.position \in Nat /\ mirror.position <= End /\ (~Lapsed(owed) => mirror.position <= Applied)
    BY <1>4 DEF IInv, Places, Upto, TypeOK, Whole, States
  <2>2. ASSUME NEW p \in Nat, mirror.position <= p, n <= p PROVE Upto(p)'
    <3>1. mirror'.position <= p /\ (deferred' # Quiet => deferred'.position <= p)
      BY <1>6, <2>2
    <3>2. Ends(todo') = "nothing"
      BY <1>2 DEF Ends
    <3>. QED
      BY <3>1, <3>2 DEF Upto
  <2>3. Upto(End)'
    BY <1>1, <2>1, <2>2
  <2>4. ~Lapsed(owed) => Applied' \in 0 .. End /\ Upto(Applied)'
    <3> SUFFICES ASSUME ~Lapsed(owed) PROVE Applied' \in 0 .. End /\ Upto(n)'
      BY <1>1
    <3>1. mirror.position <= n
      BY <1>1, <2>1
    <3>. QED
      BY <1>1, <1>5, <2>2, <3>1
  <2>. QED
    BY <1>1, <2>3, <2>4 DEF Places
<1>15. Unsettled'
  BY <1>11 DEF Unsettled
<1>. QED
  BY <1>1, <1>7, <1>8, <1>9, <1>10, <1>13, <1>14, <1>15 DEF IInv

\* What the mirror is true of, before it takes the next event.
LEMMA TruthTaken ==
    ASSUME IInv, TakesEvent, NoteMixed, ~Lapsed(owed), mirror.ready, NEW n, n = Position
    PROVE  Truth(mirror, n - 1, mixed, Missed(owed, torn, mixed))
<1>1. n - 1 = Applied
  BY EventTaken
<1>2. Free = Missed(owed, torn, mixed)
  BY DEF Free, Coming, Ends, TakesEvent
<1>3. Truth(mirror, Applied, mixed, Free)
  BY DEF IInv, Holds
<1>4. PICK from, free : from = n - 1 /\ from = Applied /\ free = Free /\ free = Missed(owed, torn, mixed)
  BY <1>1, <1>2
<1>5. Truth(mirror, from, mixed, free)
  BY <1>3, <1>4
<1>. QED
  BY <1>4, <1>5

\* An event of the group or of a member.
LEMMA PlainKeeps ==
    ASSUME IInv, NoteMixed, TakesEvent, Event.k \in {"group", "deleted", "member"},
           todo' = todo, torn' = torn,
           NEW m, Whole(m), Says(m, mirror), m.position = mirror.position,
           NEW d \in Deferrals, Settle(m, d, Position)
    PROVE  IInv'
<1> HIDE DEF Works, Items, Events
<1>1. PICK n : n = Position
  OBVIOUS
<1>2. /\ n \in 1 .. End /\ past' = past /\ End \in Nat
      /\ \E x \in n .. End : Event = Named(log[n], x)
  BY <1>1, EventTaken
<1>3. Content /\ TypeOK
  BY DEF IInv
<1>4. log[n].k \in {"group", "deleted", "member"}
  <2>1. PICK x \in n .. End : Event = Named(log[n], x)
    BY <1>2
  <2>2. log[n] \in Events /\ x \in 0 .. End
    BY <1>2, <1>3, EventIs
  <2>3. Event.k = log[n].k
    BY <1>3, <2>1, <2>2, NamedIs
  <2>. QED
    BY <2>3
<1>5. PICK free : free = Missed(owed, torn', mixed')
  OBVIOUS
<1>6. ASSUME ~Lapsed(owed), mirror.ready, mixed \subseteq mixed'
      PROVE  Names(m, n) /\ Renders(m, n) /\ Marks(m, n, free)
  <2>1. PICK mix, less : mix = mixed /\ less = Missed(owed, torn, mixed)
    OBVIOUS
  <2>2. Truth(mirror, n - 1, mix, less) /\ Whole(mirror)
    BY <1>1, <1>3, <1>6, <2>1, TruthTaken DEF TypeOK
  <2>3. Truth(mirror, n, mix, less)
    BY <1>2, <1>3, <1>4, <2>2, TruthPlain
  <2>4. Truth(m, n, mix, less)
    BY <2>3, SaysTruth
  <2>5. less \subseteq free
    BY <1>5, <1>6, <2>1, MissedMore
  <2>. QED
    BY <2>4, <2>5, MarksFree DEF Truth
<1>7. torn' \subseteq Lists \X Ids
  BY <1>3 DEF TypeOK
<1>8. DOMAIN mirror.people \subseteq DOMAIN m.people /\ m.ready = mirror.ready
  BY DEF Says
<1>. QED
  BY <1>1, <1>5, <1>6, <1>7, <1>8, SettledKeeps

LEMMA ApplyGroupKeeps ==
    ASSUME IInv, NoteMixed, TakesEvent, ApplyGroup
    PROVE  IInv'
<1>1. Event.k = "group" /\ todo' = todo /\ torn' = torn
      /\ Settle(mirror, [deferred EXCEPT !.group = @ \/ mirror.group # 0], Position)
  BY DEF ApplyGroup, Takes
<1>2. Whole(mirror) /\ deferred \in Deferrals
  BY DEF IInv, TypeOK, Deferrals
<1>3. [deferred EXCEPT !.group = @ \/ mirror.group # 0] \in Deferrals
  BY <1>2 DEF Deferrals
<1>4. Says(mirror, mirror)
  BY DEF Says
<1>. QED
  BY <1>1, <1>2, <1>3, <1>4, PlainKeeps

LEMMA WithoutGroupIs ==
    ASSUME NEW m, Whole(m), NEW w, w = WithoutGroup(m)
    PROVE  Whole(w) /\ Says(w, m) /\ w.position = m.position
<1>1. m \in States
  BY DEF Whole
<1>2. Nothing \in Maps(Entries)
  <2>1. DOMAIN Nothing \subseteq Ids /\ Nothing \in [DOMAIN Nothing -> Entries]
    BY DEF Nothing
  <2>. QED
    BY <2>1, MapsIs
<1>3. w \in States /\ w.people = m.people /\ Says(w, m) /\ w.position = m.position
  BY <1>1, <1>2 DEF States, Entries, WithoutGroup, Says
<1>. QED
  BY <1>3 DEF Whole

LEMMA ApplyDeletedKeeps ==
    ASSUME IInv, NoteMixed, TakesEvent, ApplyDeleted
    PROVE  IInv'
<1>1. Event.k = "deleted" /\ todo' = todo /\ torn' = torn
      /\ Settle(WithoutGroup(mirror), [deferred EXCEPT !.group = FALSE], Position)
  BY DEF ApplyDeleted, Takes
<1>2. Whole(mirror) /\ deferred \in Deferrals
  BY DEF IInv, TypeOK, Deferrals
<1>3. [deferred EXCEPT !.group = FALSE] \in Deferrals
  BY <1>2 DEF Deferrals
<1>4. PICK m : m = WithoutGroup(mirror)
  OBVIOUS
<1>5. Whole(m) /\ Says(m, mirror) /\ m.position = mirror.position
  BY <1>2, <1>4, WithoutGroupIs
<1>. QED
  BY <1>1, <1>3, <1>4, <1>5, PlainKeeps

LEMMA ApplyMemberKeeps ==
    ASSUME IInv, NoteMixed, TakesEvent, ApplyMember
    PROVE  IInv'
<1> HIDE DEF Items, Events
<1>1. Event.k = "member" /\ todo' = todo /\ torn' = torn
  BY DEF ApplyMember, Takes
<1>2. Content /\ Whole(mirror) /\ deferred \in Deferrals
  BY DEF IInv, TypeOK, Deferrals
<1>3. Event.who \in Ids
  <2>1. PICK n : n = Position
    OBVIOUS
  <2>2. n \in 1 .. End /\ End \in Nat /\ \E x \in n .. End : Event = Named(log[n], x)
    BY <2>1, EventTaken
  <2>3. PICK x \in n .. End : Event = Named(log[n], x)
    BY <2>2
  <2>4. log[n] \in Events /\ x \in 0 .. End
    BY <1>2, <2>2, EventIs
  <2>5. Event \in Events
    BY <1>2, <2>3, <2>4, NamedIs
  <2>. QED
    BY <1>1, <2>5 DEF Events
<1>4. PICK d \in Deferrals : Settle(mirror, d, Position)
  <2>1. CASE Settle(mirror, deferred, Position)
    BY <1>2, <2>1
  <2>2. CASE \E k \in Keys(mirror, Event.who) :
                Settle(mirror, [deferred EXCEPT !.members = @ \cup {k}], Position)
    <3>1. PICK k \in Keys(mirror, Event.who) :
              Settle(mirror, [deferred EXCEPT !.members = @ \cup {k}], Position)
      BY <2>2
    <3>2. k \in Ids
      BY <1>2, <1>3, KeysAre
    <3>3. [deferred EXCEPT !.members = @ \cup {k}] \in Deferrals
      BY <1>2, <3>2 DEF Deferrals, IdSets
    <3>. QED
      BY <3>1, <3>3
  <2>3. Settle(mirror, deferred, Position) \/ \E k \in Keys(mirror, Event.who) :
            Settle(mirror, [deferred EXCEPT !.members = @ \cup {k}], Position)
    BY DEF ApplyMember
  <2>. QED
    BY <2>1, <2>2, <2>3
<1>5. Says(mirror, mirror)
  BY DEF Says
<1>. QED
  BY <1>1, <1>2, <1>4, <1>5, PlainKeeps

\* A ban or a sanction as the event says it, and the id it names.
Said(m, l, i, on, v) ==
    [m EXCEPT !.marked[l] = IF on THEN @ \cup {i} ELSE @ \ {i}, !.known[l][i] = v]

LEMMA SaidIs ==
    ASSUME NEW m, Whole(m), NEW l \in Lists, NEW i \in Ids, NEW on, NEW v \in Nat,
           NEW w, w = WithRendered(Said(m, l, i, on, v), i)
    PROVE  /\ Whole(w) /\ Fewer(w, m) /\ DOMAIN w.people = DOMAIN m.people
           /\ w.rendered = m.rendered \cup {i} /\ w.position = m.position /\ w.ready = m.ready
           /\ \A k \in Lists : \A j \in Ids : k # l \/ j # i =>
                 (j \in w.marked[k]) = (j \in m.marked[k]) /\ w.known[k][j] = m.known[k][j]
           /\ (i \in w.marked[l]) <=> on
           /\ w.known[l][i] = v
<1>1. PICK s : s = Said(m, l, i, on, v)
  OBVIOUS
<1>2. m \in States
  BY DEF Whole
<1>3. /\ s \in States /\ s.people = m.people /\ s.rendered = m.rendered
      /\ s.position = m.position /\ s.ready = m.ready
  BY <1>1, <1>2 DEF States, Said
<1>4. Whole(s) /\ Sets(s) = Sets(m)
  BY <1>3 DEF Whole, Sets
<1>5. /\ Whole(w) /\ Alike(w, s) /\ w.rendered = s.rendered \cup {i}
      /\ DOMAIN w.people = DOMAIN s.people /\ Fewer(w, s)
  BY <1>1, <1>4, WithRenderedIs
<1>6. /\ \A k \in Lists : \A j \in Ids : k # l \/ j # i =>
            (j \in s.marked[k]) = (j \in m.marked[k]) /\ s.known[k][j] = m.known[k][j]
      /\ (i \in s.marked[l]) <=> on
      /\ s.known[l][i] = v
  <2>1. m.marked \in [Lists -> SUBSET Ids] /\ m.known \in [Lists -> [Ids -> Nat]]
    BY <1>2 DEF States
  <2>2. s.marked = [m.marked EXCEPT ![l] = IF on THEN @ \cup {i} ELSE @ \ {i}]
        /\ s.known = [m.known EXCEPT ![l][i] = v]
    BY <1>1, <1>2 DEF Said, States
  <2>. QED
    BY <2>1, <2>2
<1>. QED
  BY <1>3, <1>4, <1>5, <1>6 DEF Alike, Fewer

LEMMA ApplyModeratedKeeps ==
    ASSUME IInv, NoteMixed, TakesEvent, ApplyModerated
    PROVE  IInv'
<1> HIDE DEF Items, Events
<1>1. Event.k = "moderated" /\ todo' = todo
  BY DEF ApplyModerated, Takes
<1>2. Content /\ TypeOK /\ Whole(mirror) /\ deferred \in Deferrals
  BY DEF IInv, TypeOK, Deferrals
<1>3. PICK n : n = Position
  OBVIOUS
<1>4. n \in 1 .. End /\ End \in Nat /\ \E x \in n .. End : Event = Named(log[n], x)
  BY <1>3, EventTaken
<1>5. PICK x \in n .. End : Event = Named(log[n], x)
  BY <1>4
<1>6. log[n] \in Events /\ x \in 0 .. End
  BY <1>2, <1>4, EventIs
<1>7. PICK l, i, on, v : l = Event.list /\ i = Event.who /\ on = Event.on /\ v = Event.v
  OBVIOUS
<1>8. /\ Event \in Events /\ log[n].k = "moderated" /\ i = First(At(x), log[n].who)
      /\ l = log[n].list /\ on = log[n].on /\ v = log[n].v
  BY <1>1, <1>2, <1>5, <1>6, <1>7, NamedIs
<1>9. l \in Lists /\ i \in Ids /\ on \in BOOLEAN /\ v \in Nat
  BY <1>1, <1>7, <1>8 DEF Events
<1>10. PICK old : old = (mirror.known[l][i] >= v)
  OBVIOUS
<1>11. /\ Settle(IF old THEN mirror ELSE WithRendered(Said(mirror, l, i, on, v), i), deferred, n)
       /\ torn' = IF old THEN torn ELSE torn \ {<<l, i>>}
  BY <1>3, <1>7, <1>10 DEF ApplyModerated, Said
<1>12. PICK free : free = Missed(owed, torn', mixed')
  OBVIOUS
<1>13. torn' \subseteq Lists \X Ids
  BY <1>2, <1>11 DEF TypeOK
<1>14. PICK mix, less : mix = mixed /\ less = Missed(owed, torn, mixed)
  OBVIOUS
<1>15. ~Lapsed(owed) /\ mirror.ready => Truth(mirror, n - 1, mix, less)
  BY <1>3, <1>14, TruthTaken
<1>16. CASE mirror.known[l][i] >= v
  <2>1. Settle(mirror, deferred, n) /\ torn' = torn
    BY <1>10, <1>11, <1>16
  <2>2. ASSUME ~Lapsed(owed), mirror.ready, mixed \subseteq mixed'
        PROVE  Names(mirror, n) /\ Renders(mirror, n) /\ Marks(mirror, n, free)
    <3>1. Truth(mirror, n - 1, mix, less)
      BY <1>15, <2>2
    <3>2. mirror.known[log[n].list][i] >= log[n].v
      BY <1>8, <1>16
    <3>3. Truth(mirror, n, mix, less)
      BY <1>2, <1>4, <1>8, <3>1, <3>2, TruthModeratedOld
    <3>4. less \subseteq free
      BY <1>12, <1>14, <2>1, <2>2, MissedMore
    <3>. QED
      BY <3>3, <3>4, MarksFree DEF Truth
  <2>. QED
    BY <1>1, <1>2, <1>3, <1>12, <1>13, <2>1, <2>2, SettledKeeps
<1>17. CASE ~(mirror.known[l][i] >= v)
  <2>1. PICK w : w = WithRendered(Said(mirror, l, i, on, v), i)
    OBVIOUS
  <2>2. Settle(w, deferred, n) /\ torn' = torn \ {<<l, i>>}
    BY <1>10, <1>11, <1>17, <2>1
  <2>3. /\ Whole(w) /\ Fewer(w, mirror) /\ DOMAIN w.people = DOMAIN mirror.people
        /\ w.rendered = mirror.rendered \cup {i} /\ w.position = mirror.position /\ w.ready = mirror.ready
        /\ \A k \in Lists : \A j \in Ids : k # l \/ j # i =>
              (j \in w.marked[k]) = (j \in mirror.marked[k]) /\ w.known[k][j] = mirror.known[k][j]
        /\ (i \in w.marked[l]) <=> on
        /\ w.known[l][i] = v
    BY <1>2, <1>9, <2>1, SaidIs
  <2>4. ASSUME ~Lapsed(owed), mirror.ready, mixed \subseteq mixed'
        PROVE  Names(w, n) /\ Renders(w, n) /\ Marks(w, n, free)
    <3>1. Truth(mirror, n - 1, mix, less)
      BY <1>15, <2>4
    <3>2. (i \in w.marked[l]) = on
      <4>1. on \in BOOLEAN /\ ((i \in w.marked[l]) <=> on)
        BY <1>9, <2>3
      <4>2. PICK S : S = w.marked[l]
        OBVIOUS
      <4>3. (i \in S) <=> on
        BY <4>1, <4>2
      <4>4. (i \in S) = on
        BY <4>1, <4>3, Zenon
      <4>. QED
        BY <4>2, <4>4
    <3>3. Truth(w, n, mix, less \ {<<log[n].list, i>>})
      <4>1. /\ \A k \in Lists : \A j \in Ids : k # log[n].list \/ j # i =>
                  (j \in w.marked[k]) = (j \in mirror.marked[k]) /\ w.known[k][j] = mirror.known[k][j]
            /\ (i \in w.marked[log[n].list]) = log[n].on
            /\ w.known[log[n].list][i] = log[n].v
        BY <1>8, <2>3, <3>2
      <4>. QED
        BY <1>2, <1>4, <1>8, <2>3, <3>1, <4>1, TruthModerated
    <3>4. less \ {<<l, i>>} \subseteq free
      BY <1>12, <1>14, <2>2, <2>4 DEF Missed
    <3>5. less \ {<<log[n].list, i>>} \subseteq free
      BY <1>8, <3>4
    <3>. QED
      BY <3>3, <3>5, MarksFree DEF Truth
  <2>. QED
    BY <1>1, <1>2, <1>3, <1>12, <1>13, <2>2, <2>3, <2>4, SettledKeeps
<1>. QED
  BY <1>16, <1>17

-----------------------------------------------------------------------------
(* A link and an unlink: a set of reloads, in any order                    *)

LEMMA ProductFinite ==
    ASSUME NEW S, NEW T, IsFiniteSet(S), IsFiniteSet(T)
    PROVE  IsFiniteSet(S \X T)
<1>1. PICK a \in Nat, b \in Nat : a = Cardinality(S) /\ b = Cardinality(T)
  BY FS_CardinalityType
<1>2. /\ IsFiniteSet(1 .. a) /\ Cardinality(1 .. a) = a
      /\ IsFiniteSet(1 .. b) /\ Cardinality(1 .. b) = b
  BY FS_Interval
<1>3. PICK f \in Bijection(S, 1 .. a) : TRUE
  BY <1>1, <1>2, FS_SameCardinalityBij DEF ExistsBijection
<1>4. PICK g \in Bijection(T, 1 .. b) : TRUE
  BY <1>1, <1>2, FS_SameCardinalityBij DEF ExistsBijection
<1>5. /\ f \in [S -> 1 .. a] /\ \A x, y \in S : f[x] = f[y] => x = y
      /\ g \in [T -> 1 .. b] /\ \A x, y \in T : g[x] = g[y] => x = y
  BY <1>3, <1>4 DEF Bijection, Injection, IsInjective
<1>7. ASSUME NEW i \in 1 .. a, NEW j \in 1 .. b
      PROVE  i * (b + 1) + j \in 0 .. a * (b + 1) + b
  <2>1. i * (b + 1) <= a * (b + 1)
    <3>1. (a - i) * (b + 1) >= 0
      BY SMTT(20)
    <3>. QED
      BY <3>1, SMTT(20)
  <2>2. i * (b + 1) \in Nat /\ a * (b + 1) \in Nat
    BY SMTT(20)
  <2>3. PICK p \in Nat, q \in Nat : p = i * (b + 1) /\ q = a * (b + 1) /\ p <= q
    BY <2>1, <2>2
  <2>4. p + j \in 0 .. q + b
    BY <2>3
  <2>. QED
    BY <2>3, <2>4
<1>8. ASSUME NEW i \in 1 .. a, NEW j \in 1 .. b, NEW k \in 1 .. a, NEW l \in 1 .. b,
             i * (b + 1) + j = k * (b + 1) + l
      PROVE  i = k /\ j = l
  <2>1. ASSUME NEW m \in 1 .. a, NEW n \in 1 .. a, m < n, NEW x \in 1 .. b, NEW y \in 1 .. b
        PROVE  m * (b + 1) + x < n * (b + 1) + y
    <3>1. (n - m - 1) * (b + 1) >= 0
      BY <2>1, SMTT(20)
    <3>2. n * (b + 1) >= m * (b + 1) + (b + 1)
      BY <3>1, SMTT(20)
    <3>3. m * (b + 1) \in Nat /\ n * (b + 1) \in Nat
      BY SMTT(20)
    <3>4. PICK p \in Nat, q \in Nat : p = m * (b + 1) /\ q = n * (b + 1) /\ q >= p + (b + 1)
      BY <3>2, <3>3
    <3>5. p + x < q + y
      BY <3>4
    <3>. QED
      BY <3>4, <3>5
  <2>2. ~(i < k) /\ ~(k < i)
    <3>1. i * (b + 1) + j \in Nat
      BY <1>7
    <3>. QED
      BY <1>8, <2>1, <3>1
  <2>3. i = k
    BY <2>2
  <2>4. PICK p \in Nat : p = i * (b + 1) /\ p = k * (b + 1)
    BY <2>3, SMTT(20)
  <2>5. p + j = p + l
    BY <1>8, <2>4
  <2>. QED
    BY <2>3, <2>5
<1>9. PICK U : U = 0 .. a * (b + 1) + b
  OBVIOUS
<1>10. IsFiniteSet(U)
  <2>1. a * (b + 1) + b \in Int
    BY SMTT(20)
  <2>. QED
    BY <1>9, <2>1, FS_Interval
<1>11. PICK c : c = [x \in S \X T |-> f[x[1]] * (b + 1) + g[x[2]]]
  OBVIOUS
<1>12. c \in [S \X T -> U]
  <2>1. ASSUME NEW x \in S \X T PROVE f[x[1]] * (b + 1) + g[x[2]] \in U
    <3>1. f[x[1]] \in 1 .. a /\ g[x[2]] \in 1 .. b
      BY <1>5
    <3>. QED
      BY <1>7, <1>9, <3>1
  <2>. QED
    BY <1>11, <2>1
<1>13. ASSUME NEW x \in S \X T, NEW y \in S \X T, c[x] = c[y] PROVE x = y
  <2>1. /\ f[x[1]] \in 1 .. a /\ g[x[2]] \in 1 .. b
        /\ f[y[1]] \in 1 .. a /\ g[y[2]] \in 1 .. b
    BY <1>5
  <2>2. f[x[1]] * (b + 1) + g[x[2]] = f[y[1]] * (b + 1) + g[y[2]]
    BY <1>11, <1>13
  <2>3. f[x[1]] = f[y[1]] /\ g[x[2]] = g[y[2]]
    <3>1. PICK i \in 1 .. a, j \in 1 .. b, k \in 1 .. a, l \in 1 .. b :
              i = f[x[1]] /\ j = g[x[2]] /\ k = f[y[1]] /\ l = g[y[2]]
      BY <2>1
    <3>2. i * (b + 1) + j = k * (b + 1) + l
      BY <2>2, <3>1, Zenon
    <3>3. i = k /\ j = l
      BY <1>8, <3>2
    <3>. QED
      BY <3>1, <3>3
  <2>4. x[1] = y[1] /\ x[2] = y[2]
    BY <1>5, <2>3
  <2>. QED
    BY <2>4
<1>14. c \in Injection(S \X T, U)
  BY <1>12, <1>13 DEF Injection, IsInjective
<1>. QED
  BY <1>10, <1>14, FS_Injection

LEMMA SetToSeqIs ==
    ASSUME NEW S, IsFiniteSet(S), NEW s, s = SetToSeq(S)
    PROVE  /\ s \in Seq(S)
           /\ \A x \in S : \E n \in 1 .. Len(s) : s[n] = x
<1>1. PICK c \in Nat : c = Cardinality(S)
  BY FS_CardinalityType
<1>2. \E f \in [1 .. c -> S] : IsInjective(f)
  <2>1. ExistsBijection(1 .. c, S)
    BY <1>1, FS_CardinalityType
  <2>. QED
    BY <2>1 DEF ExistsBijection, Bijection, Injection
<1>3. s = CHOOSE f \in [1 .. c -> S] : IsInjective(f)
  BY <1>1 DEF SetToSeq
<1>4. s \in [1 .. c -> S] /\ IsInjective(s)
  BY <1>2, <1>3
<1>5. s \in Injection(1 .. c, S)
  BY <1>4 DEF Injection
<1>6. s \in Surjection(1 .. c, S)
  BY <1>1, <1>5, FS_Injection, FS_Interval
<1>7. s \in Seq(S) /\ Len(s) = c
  BY <1>4
<1>. QED
  BY <1>6, <1>7 DEF Surjection

\* Reloads of both lists, for each of the ids that a link touches.
ReloadsOf(all) == {Reload(l, i) : l \in Lists, i \in all}
Reloads(all) == SetToSeq(ReloadsOf(all))
Relink(all, n) == [k |-> "relinked", ids |-> all, position |-> n]

LEMMA ReloadsIs ==
    ASSUME NEW all \in IdSets, NEW n \in Nat, NEW a, a = Reloads(all), NEW c, c = Relink(all, n)
    PROVE  /\ a \in Seq(Works) /\ c \in Works /\ Ending(a, c)
           /\ c.k = "relinked" /\ c.position = n
           /\ \A l \in Lists : \A i \in all : \E m \in 1 .. Len(a) :
                 a[m].k = "reload" /\ a[m].list = l /\ a[m].id = i
           /\ \A m \in 1 .. Len(a) : a[m].k = "reload" /\ a[m].list \in Lists /\ a[m].id \in all
<1>1. PICK S : S = ReloadsOf(all)
  OBVIOUS
<1>2. IsFiniteSet(S)
  <2>1. IsFiniteSet(all)
    BY BoundsAssumption, FS_Subset DEF IdSets
  <2>2. IsFiniteSet(Lists \X all)
    BY <2>1, ListsAssumption, ProductFinite
  <2>3. PICK f : f = [x \in Lists \X all |-> Reload(x[1], x[2])]
    OBVIOUS
  <2>4. f \in [Lists \X all -> S]
    BY <1>1, <2>3 DEF ReloadsOf
  <2>5. ASSUME NEW y \in S PROVE \E x \in Lists \X all : f[x] = y
    <3>1. PICK l \in Lists, i \in all : y = Reload(l, i)
      BY <1>1 DEF ReloadsOf
    <3>2. <<l, i>> \in Lists \X all /\ f[<<l, i>>] = Reload(l, i)
      BY <2>3
    <3>. QED
      BY <3>1, <3>2
  <2>6. f \in Surjection(Lists \X all, S)
    BY <2>4, <2>5 DEF Surjection
  <2>. QED
    BY <2>2, <2>6, FS_Surjection
<1>3. a \in Seq(S) /\ \A x \in S : \E m \in 1 .. Len(a) : a[m] = x
  BY <1>1, <1>2, SetToSeqIs DEF Reloads
<1>4. ASSUME NEW w \in S PROVE w \in Works /\ w.k = "reload" /\ w.list \in Lists /\ w.id \in all
  BY <1>1 DEF ReloadsOf, Reload, Works, IdSets
<1>5. c \in Works /\ c.k = "relinked" /\ c.position = n
  BY DEF Relink, Works
<1> HIDE DEF Works
<1>6. a \in Seq(Works)
  BY <1>3, <1>4
<1>7. ASSUME NEW m \in 1 .. Len(a) PROVE a[m].k = "reload" /\ a[m].list \in Lists /\ a[m].id \in all
  BY <1>3, <1>4
<1>8. ASSUME NEW l \in Lists, NEW i \in all
      PROVE  \E m \in 1 .. Len(a) : a[m].k = "reload" /\ a[m].list = l /\ a[m].id = i
  <2>1. Reload(l, i) \in S
    BY <1>1 DEF ReloadsOf
  <2>2. PICK m \in 1 .. Len(a) : a[m] = Reload(l, i)
    BY <1>3, <2>1
  <2>. QED
    BY <2>2 DEF Reload
<1>9. Ending(a, c)
  BY <1>5, <1>7 DEF Ending
<1>. QED
  BY <1>5, <1>6, <1>7, <1>8, <1>9

\* These ids are one person's, and the others whose they were.
Puts(w, m, ids, key) ==
    /\ Whole(w) /\ Alike(w, m) /\ w.rendered = m.rendered \cup {key}
    /\ DOMAIN w.people = DOMAIN m.people \cup ids
    /\ \A k \in ids : w.people[k].ids = ids
    /\ \A k \in DOMAIN m.people : k \notin ids => w.people[k] = m.people[k]

LEMMA WithPersonAt ==
    ASSUME NEW m, Whole(m), NEW ids \in IdSets, NEW key \in Ids,
           NEW w, w = WithPerson(m, ids, key)
    PROVE  Puts(w, m, ids, key)
<1> DEFINE f == Put(m.people, ids, Person(ids, key))
<1>1. m \in States
  BY DEF Whole
<1>2. w = [m EXCEPT !.people = f, !.rendered = m.rendered \cup {key}]
  BY DEF WithPerson, Person
<1> HIDE DEF f
<1>3. w.people = f
  BY <1>1, <1>2 DEF States
<1>p. Person(ids, key).ids = ids
  BY DEF Person
<1>x. PICK x : x = Person(ids, key)
  OBVIOUS
<1>4. x = Person(ids, key) /\ x.ids = ids
  BY <1>p, <1>x
<1>6. PICK people : people = m.people
  OBVIOUS
<1>7. f = Put(people, ids, x)
  BY <1>4, <1>6 DEF f
<1>8. /\ \A k \in ids : Put(people, ids, x)[k] = x
      /\ \A k \in DOMAIN people : k \notin ids => Put(people, ids, x)[k] = people[k]
  BY DEF Put
<1>5. /\ \A k \in ids : f[k] = x
      /\ \A k \in DOMAIN m.people : k \notin ids => f[k] = m.people[k]
  BY <1>6, <1>7, <1>8
<1>9. Whole(WithPerson(m, ids, key)) /\ Alike(WithPerson(m, ids, key), m)
  BY WithPersonIs
<1>10. WithPerson(m, ids, key).rendered = m.rendered \cup {key}
  BY WithPersonIs
<1>11. DOMAIN WithPerson(m, ids, key).people = DOMAIN m.people \cup ids
  BY WithPersonIs
<1>12. Whole(w) /\ Alike(w, m) /\ w.rendered = m.rendered \cup {key}
       /\ DOMAIN w.people = DOMAIN m.people \cup ids
  BY <1>9, <1>10, <1>11
<1>13. /\ \A k \in ids : w.people[k].ids = ids
       /\ \A k \in DOMAIN m.people : k \notin ids => w.people[k] = m.people[k]
  BY <1>3, <1>4, <1>5
<1>. QED
  BY <1>12, <1>13 DEF Puts

\* The people after a link or an unlink: the id that left is somebody else's.
Parted(m, e, who) ==
    LET met == WithPerson(m, Theirs(e, who), who)
    IN  IF Gone(e) = {} THEN met ELSE WithPerson(met, Gone(e), e.moved)

\* Some ids are put together, and then one is put apart.
PutsBoth(w, m, theirs, gone, who) ==
    /\ Whole(w) /\ Alike(w, m) /\ w.rendered = m.rendered \cup {who} \cup gone
    /\ DOMAIN w.people = DOMAIN m.people \cup (theirs \cup gone)
    /\ \A k \in gone : w.people[k].ids = gone
    /\ \A k \in theirs : w.people[k].ids = theirs
    /\ \A k \in DOMAIN m.people : k \notin theirs \cup gone => w.people[k] = m.people[k]

LEMMA PutsTwice ==
    ASSUME NEW m, NEW met, NEW w, NEW who, NEW theirs, NEW gone, NEW moved,
           theirs \cap gone = {}, gone = {moved},
           Puts(met, m, theirs, who), Puts(w, met, gone, moved)
    PROVE  PutsBoth(w, m, theirs, gone, who)
<1>1. Whole(w) /\ Alike(w, m)
  BY DEF Puts, Alike
<1>2. w.rendered = m.rendered \cup {who} \cup gone
  BY DEF Puts
<1>3. DOMAIN w.people = DOMAIN m.people \cup (theirs \cup gone)
  BY DEF Puts
<1>4. \A k \in gone : w.people[k].ids = gone
  BY DEF Puts
<1>5. \A k \in DOMAIN met.people : k \notin gone => w.people[k] = met.people[k]
  BY DEF Puts
<1>6. /\ DOMAIN met.people = DOMAIN m.people \cup theirs
      /\ \A k \in theirs : met.people[k].ids = theirs
      /\ \A k \in DOMAIN m.people : k \notin theirs => met.people[k] = m.people[k]
  BY DEF Puts
<1>7. ASSUME NEW k \in theirs PROVE w.people[k].ids = theirs
  BY <1>5, <1>6
<1>8. ASSUME NEW k \in DOMAIN m.people, k \notin theirs \cup gone PROVE w.people[k] = m.people[k]
  BY <1>5, <1>6, <1>8
<1>. QED
  BY <1>1, <1>2, <1>3, <1>4, <1>7, <1>8 DEF PutsBoth

LEMMA PutsOnce ==
    ASSUME NEW m, NEW w, NEW who, NEW theirs, Puts(w, m, theirs, who)
    PROVE  PutsBoth(w, m, theirs, {}, who)
  BY DEF Puts, PutsBoth

LEMMA PartedIs ==
    ASSUME NEW m, Whole(m), NEW e, NEW who \in Ids, e.moved \in Ids, e.ids \in IdSets,
           NEW w, w = Parted(m, e, who)
    PROVE  /\ Whole(w) /\ Alike(w, m)
           /\ w.rendered = m.rendered \cup {who} \cup Gone(e)
           /\ DOMAIN w.people = DOMAIN m.people \cup Touched(e, who)
           /\ \A S \in Sets(w) : \/ S = Theirs(e, who)
                                 \/ S = Gone(e)
                                 \/ S \in Sets(m) /\ \E k \in S : k \notin Touched(e, who)
<1>1. PICK theirs, gone, moved, all :
         theirs = Theirs(e, who) /\ gone = Gone(e) /\ moved = e.moved /\ all = Touched(e, who)
  OBVIOUS
<1>2. theirs \in IdSets /\ gone \in IdSets /\ moved \in Ids
  BY <1>1 DEF Theirs, Gone, IdSets
<1>3. theirs \cap gone = {} /\ all = theirs \cup gone /\ (gone = {} \/ gone = {moved})
  BY <1>1 DEF Theirs, Gone, Touched
<1>4. PICK met : met = WithPerson(m, theirs, who)
  OBVIOUS
<1>5. Puts(met, m, theirs, who) /\ Whole(met)
  <2>1. Puts(met, m, theirs, who)
    BY <1>2, <1>4, WithPersonAt
  <2>. QED
    BY <2>1 DEF Puts
<1>6. w = IF gone = {} THEN met ELSE WithPerson(met, gone, moved)
  BY <1>1, <1>4 DEF Parted
<1>7. PutsBoth(w, m, theirs, gone, who)
  <2>1. CASE gone = {}
    <3>1. PutsBoth(met, m, theirs, {}, who)
      BY <1>5, PutsOnce
    <3>. QED
      BY <2>1, <3>1, <1>6
  <2>2. CASE gone # {}
    <3>1. w = WithPerson(met, gone, moved)
      BY <2>2, <1>6
    <3>2. Puts(w, met, gone, moved)
      BY <1>2, <1>5, <3>1, WithPersonAt
    <3>3. gone = {moved} /\ theirs \cap gone = {}
      BY <2>2, <1>3
    <3>. QED
      BY <1>5, <3>2, <3>3, PutsTwice
  <2>. QED
    BY <2>1, <2>2
<1>p. /\ Whole(w) /\ Alike(w, m) /\ w.rendered = m.rendered \cup {who} \cup gone
      /\ DOMAIN w.people = DOMAIN m.people \cup (theirs \cup gone)
      /\ \A k \in gone : w.people[k].ids = gone
      /\ \A k \in theirs : w.people[k].ids = theirs
      /\ \A k \in DOMAIN m.people : k \notin theirs \cup gone => w.people[k] = m.people[k]
  BY <1>7 DEF PutsBoth
<1>8. ASSUME NEW k \in DOMAIN w.people
      PROVE  \/ w.people[k].ids = theirs
             \/ w.people[k].ids = gone
             \/ w.people[k].ids \in Sets(m) /\ \E x \in w.people[k].ids : x \notin all
  <2>1. CASE k \in all
    BY <2>1, <1>3, <1>p
  <2>2. CASE k \notin all
    <3>1. k \in DOMAIN m.people /\ w.people[k] = m.people[k]
      BY <2>2, <1>3, <1>p
    <3>2. k \in m.people[k].ids /\ m.people[k].ids \in Sets(m)
      BY <3>1 DEF Whole, Sets
    <3>. QED
      BY <3>1, <3>2, <2>2
  <2>. QED
    BY <2>1, <2>2
<1>9. \A S \in Sets(w) : \/ S = theirs
                         \/ S = gone
                         \/ S \in Sets(m) /\ \E x \in S : x \notin all
  BY <1>8 DEF Sets
<1>10. /\ w.rendered = m.rendered \cup {who} \cup Gone(e)
       /\ DOMAIN w.people = DOMAIN m.people \cup Touched(e, who)
  BY <1>1, <1>3, <1>p
<1>. QED
  BY <1>1, <1>p, <1>9, <1>10

\* What is reloaded after a link or an unlink is both lists of all it touches.
LEMMA ComingAll ==
    ASSUME NEW all \in IdSets, NEW n \in Nat, todo' = Finished(Reloads(all), Relink(all, n))
    PROVE  /\ todo' \in Seq(Works) /\ todo' # <<>> /\ Tidy(todo') /\ Ends(todo') = "relinked"
           /\ todo'[Len(todo')].position = n
           /\ Head(todo').k \in {"relinked", "group", "members", "reload"}
           /\ \A x \in Lists \X all : x \in Coming'
           /\ \A x \in Coming' : x[2] \in all
<1> HIDE DEF Works
<1>1. PICK a, c, s : a = Reloads(all) /\ c = Relink(all, n) /\ s = Finished(a, c) /\ s = todo'
  OBVIOUS
<1>2. /\ a \in Seq(Works) /\ c \in Works /\ Ending(a, c) /\ c.k = "relinked" /\ c.position = n
      /\ \A l \in Lists : \A i \in all : \E m \in 1 .. Len(a) :
            a[m].k = "reload" /\ a[m].list = l /\ a[m].id = i
      /\ \A m \in 1 .. Len(a) : a[m].k = "reload" /\ a[m].list \in Lists /\ a[m].id \in all
  BY <1>1, ReloadsIs
<1>3. /\ s \in Seq(Works) /\ s # <<>> /\ Tidy(s) /\ Ends(s) = c.k /\ s[Len(s)] = c
      /\ Len(s) = Len(a) + 1 /\ \A m \in 1 .. Len(a) : s[m] = a[m]
      /\ Head(s).k \in {c.k, "group", "members", "reload"}
  BY <1>1, <1>2, FinishedIs
<1>4. Len(a) \in Nat
  BY <1>2, LenProperties
<1>5. ASSUME NEW l \in Lists, NEW i \in all PROVE <<l, i>> \in Coming'
  <2>1. PICK m \in 1 .. Len(a) : a[m].k = "reload" /\ a[m].list = l /\ a[m].id = i
    BY <1>2
  <2>2. m \in 1 .. Len(s) /\ s[m].k \in Relinking /\ s[m].list = l /\ s[m].id = i
    BY <1>3, <1>4, <2>1 DEF Relinking
  <2>3. i \in Ids
    BY DEF IdSets
  <2>. QED
    BY <1>1, <1>2, <1>3, <2>2, <2>3 DEF Coming
<1>6. ASSUME NEW x \in Coming' PROVE x[2] \in all
  <2>1. PICK m \in 1 .. Len(s) : s[m].k \in Relinking /\ s[m].list = x[1] /\ s[m].id = x[2]
    BY <1>1 DEF Coming
  <2>2. m # Len(s)
    BY <1>2, <1>3, <2>1 DEF Relinking
  <2>3. m \in 1 .. Len(a)
    BY <1>3, <1>4, <2>2
  <2>. QED
    BY <1>2, <1>3, <2>1, <2>3
<1>. QED
  BY <1>1, <1>2, <1>3, <1>5, <1>6

LEMMA ApplyRelinkedKeeps ==
    ASSUME IInv, NoteMixed, TakesEvent, ApplyRelinked
    PROVE  IInv'
<1> HIDE DEF Items, Events, Works
<1>1. Event.k \in {"linked", "unlinked"} /\ deferred' = deferred /\ torn' = torn
  BY DEF ApplyRelinked, Takes
<1>2. Content /\ TypeOK /\ Whole(mirror) /\ Shape /\ Ahead /\ Unsettled /\ Places
  BY DEF IInv, TypeOK
<1>3. PICK n : n = Position
  OBVIOUS
<1>4. /\ Content' /\ Saved' /\ Unmixed' /\ (Mixed \subseteq mixed)'
      /\ DOMAIN mirror.people \subseteq DOMAIN mirror'.people => mixed \subseteq mixed'
      /\ Queued' /\ live /\ live' /\ inbox' \in Seq(Items) /\ (\A p : Before(p) => Before(p)')
      /\ past' = past /\ log' = log /\ End' = End /\ End \in Nat
      /\ Lapsed(owed') <=> Lapsed(owed)
      /\ \A t, mix : Missed(owed', t, mix) = Missed(owed, t, mix)
      /\ n \in 1 .. End /\ \E x \in n .. End : Event = Named(log[n], x)
      /\ ~Lapsed(owed) => n = Applied + 1 /\ Applied' = n /\ Applied \in 0 .. End /\ n - 1 = Applied
  BY <1>3, EventTaken
<1>5. PICK x \in n .. End : Event = Named(log[n], x)
  BY <1>4
<1>6. log[n] \in Events /\ x \in 0 .. End /\ n \in Nat
  BY <1>2, <1>4, EventIs
<1>7. PICK e, who : e = log[n] /\ who = Event.who
  OBVIOUS
<1>8. /\ Event \in Events /\ e.k = Event.k /\ who = First(At(x), e.who)
      /\ Event.ids = e.ids /\ Event.moved = e.moved
  BY <1>1, <1>2, <1>5, <1>6, <1>7, NamedIs
<1>9. who \in Ids /\ e.moved \in Ids /\ e.ids \in IdSets
  <2>1. Event.who \in Ids /\ Event.moved \in Ids /\ Event.ids \in SUBSET Ids
    BY <1>1, <1>8 DEF Events
  <2>. QED
    BY <2>1, <1>7, <1>8 DEF IdSets
<1>10. PICK all : all = Touched(e, who)
  OBVIOUS
<1>11. all \in IdSets /\ (\A j \in all : ~Since(n - 1, j))
  <2>1. e.k \in {"linked", "unlinked"}
    BY <1>1, <1>8
  <2>2. Touched(log[n], who) \subseteq Ids /\ \A j \in Touched(log[n], who) : ~Since(n - 1, j)
    BY <1>2, <1>4, <1>7, <1>8, <2>1, RelinkedNames
  <2>. QED
    BY <2>2, <1>7, <1>10 DEF IdSets
<1>12. PICK w : w = mirror'
  OBVIOUS
<1>13. w = Parted(mirror, e, who) /\ todo' = Finished(Reloads(all), Relink(all, n))
  <2>1. PICK event : event = Event
    OBVIOUS
  <2>2. Gone(e) = IF event.k = "unlinked" THEN {event.moved} ELSE {}
    BY <1>8, <2>1 DEF Gone
  <2>3. Theirs(e, who) = (event.ids \cup {event.who, event.moved}) \ Gone(e)
    BY <1>7, <1>8, <2>1 DEF Theirs
  <2>4. Touched(e, who) = Theirs(e, who) \cup {event.moved}
    BY <1>8, <2>1 DEF Touched
  <2>5. mirror' = IF Gone(e) = {} THEN WithPerson(mirror, Theirs(e, who), who)
                  ELSE WithPerson(WithPerson(mirror, Theirs(e, who), who), Gone(e), e.moved)
    BY <1>7, <1>8, <2>1, <2>2, <2>3 DEF ApplyRelinked
  <2>6. todo' = SetToSeq({Reload(l, i) : l \in Lists, i \in Touched(e, who)})
                   \o <<[k |-> "relinked", ids |-> Touched(e, who), position |-> Position]>>
    BY <2>1, <2>2, <2>3, <2>4 DEF ApplyRelinked
  <2>. QED
    BY <1>3, <1>10, <1>12, <2>5, <2>6 DEF Parted, Finished, Reloads, ReloadsOf, Relink
<1>14. /\ Whole(w) /\ Alike(w, mirror)
       /\ w.rendered = mirror.rendered \cup {who} \cup Gone(e)
       /\ DOMAIN w.people = DOMAIN mirror.people \cup Touched(e, who)
       /\ \A S \in Sets(w) : \/ S = Theirs(e, who)
                             \/ S = Gone(e)
                             \/ S \in Sets(mirror) /\ \E k \in S : k \notin Touched(e, who)
  BY <1>2, <1>9, <1>13, PartedIs
<1>15. /\ todo' \in Seq(Works) /\ todo' # <<>> /\ Tidy(todo') /\ Ends(todo') = "relinked"
       /\ todo'[Len(todo')].position = n
       /\ Head(todo').k \in {"relinked", "group", "members", "reload"}
       /\ \A y \in Lists \X all : y \in Coming'
       /\ \A y \in Coming' : y[2] \in all
  BY <1>6, <1>11, <1>13, ComingAll
<1>16. /\ live' = live /\ read' = read /\ resync' = resync /\ file' = file /\ tasks' = tasks
       /\ loads' = loads /\ waiting' = waiting
  BY DEF TakesEvent, trackVars
<1>17. TypeOK'
  BY <1>1, <1>2, <1>4, <1>12, <1>14, <1>15, <1>16 DEF TypeOK
<1>18. Shape'
  <2>1. ~Starting' /\ ~Doing("position")'
    BY <1>15 DEF Starting, Doing
  <2>. QED
    BY <1>1, <1>2, <1>4, <1>15, <1>16, <2>1 DEF Shape
<1>19. Ahead'
  <2>1. ~Doing("rows")' /\ ~Doing("versions")'
    BY <1>15 DEF Doing
  <2>. QED
    BY <1>2, <1>4, <1>16, <2>1 DEF Ahead
<1>20. DraftRows' /\ DraftPerson' /\ DraftMembers' /\ Drafted'
  BY <1>15, NoDraft
<1>21. mixed \subseteq mixed'
  BY <1>4, <1>12, <1>14
<1>22. PICK mix, less, free, new : mix = mixed /\ less = Missed(owed, torn, mixed) /\ free = Free' /\ new = mixed'
  OBVIOUS
<1>23. Holds'
  <2> SUFFICES ASSUME ~Lapsed(owed), mirror'.ready
               PROVE  Truth(mirror, Applied, mixed, Free)'
    BY <1>4 DEF Holds
  <2>1. mirror.ready
    BY <1>12, <1>14 DEF Alike
  <2>2. Truth(mirror, n - 1, mix, less)
    BY <1>3, <1>22, <2>1, TruthTaken
  <2>3. /\ Names(w, n) /\ Renders(w, n)
        /\ Marks(w, n, less \cup (Lists \X Touched(log[n], who)))
    <3>1. log[n].k \in {"linked", "unlinked"} /\ who = First(At(x), log[n].who)
      BY <1>1, <1>7, <1>8
    <3>2. w.marked = mirror.marked /\ w.known = mirror.known
      BY <1>14 DEF Alike
    <3>3. /\ w.rendered = mirror.rendered \cup {who} \cup Gone(log[n])
          /\ DOMAIN w.people = DOMAIN mirror.people \cup Touched(log[n], who)
          /\ \A S \in Sets(w) : \/ S = Theirs(log[n], who)
                                \/ S = Gone(log[n])
                                \/ S \in Sets(mirror) /\ \E k \in S : k \notin Touched(log[n], who)
      BY <1>7, <1>14
    <3>. QED
      BY <1>2, <1>4, <2>2, <3>1, <3>2, <3>3, TruthRelinked
  <2>4. less \cup (Lists \X Touched(log[n], who)) \subseteq free
    <3>1. less \subseteq Missed(owed, torn', new)
      BY <1>1, <1>21, <1>22, MissedMore
    <3>2. Missed(owed, torn', new) \cup Coming' = free
      BY <1>4, <1>22 DEF Free
    <3>3. Lists \X all \subseteq Coming'
      BY <1>15
    <3>. QED
      BY <3>1, <3>2, <3>3, <1>7, <1>10
  <2>5. Marks(w, n, free)
    BY <2>3, <2>4, MarksFree
  <2>6. Names(w, n)' /\ Renders(w, n)' /\ Marks(w, n, free)'
    BY <1>4, <2>3, <2>5, SameTruth
  <2>7. Applied' \in 0 .. End' /\ n = Applied'
    BY <1>4
  <2>8. Truth(w, n, new, free)'
    BY <1>4, <1>12, <1>14, <1>22, <2>6, <2>7, TruthNoted
  <2>. QED
    BY <1>12, <1>22, <2>7, <2>8
<1>24. mirror.position \in Nat /\ mirror.position <= End /\ (~Lapsed(owed) => mirror.position <= Applied)
       /\ mirror'.position = mirror.position
       /\ (deferred # Quiet => deferred.position <= End)
       /\ (~Lapsed(owed) /\ deferred # Quiet => deferred.position <= Applied)
       /\ deferred.position \in Nat
  <2>1. mirror.position \in Nat /\ deferred.position \in Nat
    BY <1>2 DEF TypeOK, Whole, States
  <2>2. mirror'.position = mirror.position
    BY <1>12, <1>14 DEF Alike
  <2>. QED
    BY <1>2, <2>1, <2>2 DEF Places, Upto
<1>25. Places'
  <2>1. ASSUME NEW p \in Nat, mirror.position <= p, deferred # Quiet => deferred.position <= p, n <= p
        PROVE  Upto(p)'
    <3>1. mirror'.position <= p /\ (deferred' # Quiet => deferred'.position <= p)
      BY <1>1, <1>24, <2>1
    <3>2. todo'[Len(todo')].position <= p
      BY <1>15, <2>1
    <3>. QED
      BY <3>1, <3>2 DEF Upto
  <2>2. Upto(End)'
    BY <1>4, <1>24, <2>1
  <2>3. ~Lapsed(owed) => Applied' \in 0 .. End /\ Upto(Applied)'
    <3> SUFFICES ASSUME ~Lapsed(owed) PROVE Applied' \in 0 .. End /\ Upto(n)'
      BY <1>4
    <3>1. mirror.position <= n /\ (deferred # Quiet => deferred.position <= n)
      BY <1>4, <1>24
    <3>. QED
      BY <1>4, <1>6, <2>1, <3>1
  <2>. QED
    BY <1>4, <2>2, <2>3 DEF Places
<1>26. Unsettled'
  <2> SUFFICES ASSUME ~Lapsed(owed), NEW y \in Coming' PROVE ~Since(mirror.position, y[2])'
    BY <1>4 DEF Unsettled
  <2>1. y[2] \in all /\ ~Since(n - 1, y[2])
    BY <1>11, <1>15
  <2>2. n - 1 \in Nat /\ mirror.position \in Nat /\ mirror.position <= n - 1
    BY <1>4, <1>24
  <2>3. PICK j, p, q : j = y[2] /\ p = mirror.position /\ p = mirror'.position /\ q = n - 1
    BY <1>24
  <2>4. ~Since(p, j)
    BY <2>1, <2>2, <2>3, SinceLater
  <2>5. ~Since(p, j)'
    BY <1>4, <2>4, SameRows
  <2>. QED
    BY <2>3, <2>5
<1>. QED
  BY <1>4, <1>17, <1>18, <1>19, <1>20, <1>23, <1>25, <1>26 DEF IInv

-----------------------------------------------------------------------------
(* The theorems                                                            *)

LEMMA ContentBegins ==
    ASSUME InitContent
    PROVE  Content /\ End = 0
<1>1. PICK s \in Starts :
          past = <<[ids |-> s.ids,
                    marked |-> s.marked,
                    version |-> [p \in People |->
                        IF \E l \in Lists : p \in s.marked[l] THEN 1 ELSE 0],
                    members |-> [p \in People |->
                        IF p \in s.joined THEN NewRow(p, 1) ELSE NoRow],
                    group |-> 1]>>
  BY DEF InitContent
<1>2. /\ s.ids \in [Ids -> Seq(Ids)] /\ s.marked \in [Lists -> SUBSET Ids]
      /\ \A i \in Ids : \E p \in Ids : \E n \in DOMAIN s.ids[p] :
            /\ s.ids[p][n] = i
            /\ \A q \in Ids : \A m \in DOMAIN s.ids[q] :
                  s.ids[q][m] = i => q = p /\ m = n
      /\ \A p \in Ids : s.ids[p] = <<>> =>
            p \notin s.joined /\ \A l \in Lists : p \notin s.marked[l]
  BY StartsAssumption
<1>3. PICK ids, marked, joined : ids = s.ids /\ marked = s.marked /\ joined = s.joined
  OBVIOUS
<1>4. ids \in [Ids -> Seq(Ids)] /\ marked \in [Lists -> SUBSET Ids] /\ OneEach(ids)
      /\ \A p \in Ids : ids[p] = <<>> => \A l \in Lists : p \notin marked[l]
  BY <1>2, <1>3 DEF OneEach
<1>5. PICK version : version = [p \in Ids |-> IF \E l \in Lists : p \in marked[l] THEN 1 ELSE 0]
  OBVIOUS
<1>6. PICK members : members = [p \in Ids |-> IF p \in joined THEN NewRow(p, 1) ELSE NoRow]
  OBVIOUS
<1>7. PICK row : row = [ids |-> ids, marked |-> marked, version |-> version, members |-> members, group |-> 1]
  OBVIOUS
<1>8. past = <<row>>
  BY <1>1, <1>3, <1>5, <1>6, <1>7 DEF People
<1>9. row \in RowState
  <2>1. version \in [Ids -> Nat]
    BY <1>5
  <2>2. members \in [Ids -> RowType]
    BY <1>6, RowTypes
  <2>. QED
    BY <1>4, <1>7, <2>1, <2>2 DEF RowState
<1>10. SoundRows(row)
  <2>1. row.ids = ids /\ row.marked = marked /\ row.version = version
    BY <1>7
  <2>2. \A p \in Ids : version[p] > 0 => \E l \in Lists : p \in marked[l]
    BY <1>5
  <2>3. \A l \in Lists : \A p \in marked[l] : p \in Ids /\ version[p] = 1
    BY <1>4, <1>5
  <2>4. \A p \in Ids : row.version[p] > 0 => row.ids[p] # <<>>
    BY <1>4, <2>1, <2>2
  <2>5. \A l \in Lists : \A p \in row.marked[l] : row.version[p] > 0
    BY <2>1, <2>3
  <2>. QED
    BY <1>4, <1>9, <2>1, <2>4, <2>5 DEF SoundRows
<1>11. /\ past \in Seq(RowState) /\ Len(past) = 1 /\ past[1] = row
       /\ log = <<>> /\ log \in Seq(Events) /\ Len(log) = 0 /\ swept = 0 /\ End = 0
  BY <1>8, <1>9 DEF InitContent, End
<1>12. \A n \in 0 .. End : n = 0 /\ At(n) = row
  BY <1>11 DEF At
<1>13. Log
  BY <1>10, <1>11, <1>12 DEF Log
<1>14. Grow
  <2>1. \A p \in Ids : row.version[p] \in Nat
    BY <1>9 DEF RowState
  <2>. QED
    BY <1>11, <1>12, <2>1 DEF Grow
<1>15. Stay
  BY <1>11, <1>12 DEF Stay, Now
<1>. QED
  BY <1>11, <1>13, <1>14, <1>15 DEF Content

LEMMA IInvBegins ==
    ASSUME Init
    PROVE  IInv
<1> HIDE DEF Works, Items, Events
<1>1. Content /\ End = 0
  BY ContentBegins DEF Init
<1>2. /\ mirror = Empty /\ todo = Start(FALSE) /\ tasks = {} /\ deferred = Quiet
      /\ loads = {} /\ waiting = {} /\ inbox = <<>> /\ live = FALSE /\ read = 0 /\ resync = 0
      /\ file = NoFile /\ owed = {} /\ torn = {} /\ mixed = {}
  BY DEF Init
<1>3. /\ todo \in Seq(Works) /\ todo # <<>> /\ Tidy(todo) /\ Ends(todo) = "subscribe"
      /\ Head(todo).k = "position"
  BY <1>2, StartIs
<1>4. /\ Whole(mirror) /\ mirror.position = 0 /\ ~mirror.ready /\ mirror.people = Nothing
      /\ file.mirror = mirror /\ file.owed = {} /\ file.torn = {} /\ file.mixed = {}
  BY <1>2, EmptyWhole DEF NoFile, Empty
<1>5. Len(inbox) = 0 /\ inbox \in Seq(Items)
  BY <1>2
<1>6. TypeOK
  BY <1>2, <1>3, <1>4, <1>5 DEF TypeOK, Quiet, IdSets
<1>7. Shape
  <2>1. Starting /\ tasks \cap Attempts = {} /\ ~(Attempts \subseteq tasks)
    BY <1>2, <1>3 DEF Starting, Attempts
  <2>. QED
    BY <1>2, <1>3, <2>1 DEF Shape
<1>8. Queued
  BY <1>1, <1>2, <1>5 DEF Queued
<1>9. ~Doing("rows") /\ ~Doing("versions") /\ ~Doing("adopt") /\ ~Doing("access") /\ ~Doing("loaded")
  BY <1>3 DEF Doing
<1>10. Ahead
  BY <1>2, <1>9 DEF Ahead
<1>11. DraftRows /\ DraftPerson /\ DraftMembers /\ Drafted
  BY <1>9 DEF DraftRows, DraftPerson, DraftMembers, Drafted
<1>12. Holds
  BY <1>4 DEF Holds
<1>13. Coming = {}
  BY <1>3 DEF Coming
<1>14. Unsettled
  BY <1>13 DEF Unsettled
<1>15. Applied = 0
  BY <1>2, <1>4 DEF Applied
<1>16. Places
  <2>1. ASSUME NEW p, p = 0 PROVE Upto(p)
    <3>1. mirror.position <= p
      BY <1>4, <2>1
    <3>2. deferred = Quiet /\ Ends(todo) \notin {"relinked", "flushed"}
      BY <1>2, <1>3
    <3>. QED
      BY <3>1, <3>2 DEF Upto
  <2>. QED
    BY <1>1, <1>15, <2>1 DEF Places
<1>17. Saved
  BY <1>1, <1>4 DEF Saved
<1>18. Unmixed
  BY <1>2 DEF Unmixed
<1>. QED
  BY <1>1, <1>6, <1>7, <1>8, <1>10, <1>11, <1>12, <1>14, <1>16, <1>17, <1>18 DEF IInv

LEMMA AppliesKeep ==
    ASSUME IInv, Apply, NoteMixed
    PROVE  IInv'
<1>1. TakesEvent
  <2>1. Event.k # "resync" /\ todo = <<>> /\ inbox # <<>> /\ inbox' = Tail(inbox)
    BY DEF Apply, ApplyGroup, ApplyDeleted, ApplyMember, ApplyModerated, ApplyRelinked, Takes, Idle
  <2>. QED
    <3>1. owed \subseteq owed' /\ \A w \in owed' : w \in owed \/ w.k = "members"
      <4>1. owed' = owed \/ \E keys : owed' = owed \cup {LoadMembers({j}) : j \in keys}
        <5>1. CASE ApplyMember
          <6>1. \/ owed' = owed
                \/ \E k : owed' = owed \cup {LoadMembers({j}) :
                       j \in {x \in DOMAIN mirror.members \ {k} : Holder(Now, x) = Holder(Now, Event.who)}}
            BY <5>1 DEF ApplyMember
          <6>. QED
            BY <6>1
        <5>2. CASE ApplyGroup \/ ApplyDeleted \/ ApplyModerated \/ ApplyRelinked
          <6>1. owed' = owed
            BY <5>2 DEF ApplyGroup, ApplyDeleted, ApplyModerated, ApplyRelinked
          <6>. QED
            BY <6>1
        <5>. QED
          BY <5>1, <5>2 DEF Apply
      <4>. QED
        BY <4>1 DEF LoadMembers
    <3>. QED
      BY <2>1, <3>1 DEF TakesEvent, Apply, Event
<1>. QED
  BY <1>1, ApplyGroupKeeps, ApplyDeletedKeeps, ApplyMemberKeeps, ApplyModeratedKeeps,
     ApplyRelinkedKeeps DEF Apply

LEMMA RequestsKeep ==
    ASSUME IInv, Requests, NoteMixed
    PROVE  IInv'
  BY ReadPositionKeeps, ReadRowsKeeps, ReadVersionsKeeps, SubscribeKeeps, ReadGroupKeeps,
     ReadMembersKeeps, ReadAccessKeeps, ApplyLoadedKeeps, ReadPersonKeeps, AdoptKeeps,
     EndRelinkKeeps, EndFlushKeeps DEF Requests

LEMMA IInvKept ==
    ASSUME IInv, [Next]_vars
    PROVE  IInv'
<1>1. CASE UNCHANGED vars
  BY <1>1, StutterKeeps
<1>2. CASE Restart /\ mixed' = file.mixed
  BY <1>2, RestartKeeps
<1>3. CASE (Server \/ Applier \/ Stream \/ Calls \/ Save \/ RequestFails \/ Sweep) /\ NoteMixed
  <2>1. CASE Applier
    BY <1>3, <2>1, AppliesKeep, RequestsKeep, FlushKeeps, ResyncKeeps, RunTaskKeeps,
       FlushTracksKeeps DEF Applier
  <2>2. CASE Stream
    BY <1>3, <2>2, DeliverKeeps, ExpiredKeeps, TellResyncKeeps DEF Stream
  <2>3. CASE Calls
    <3>1. PICK i \in Ids : Resolve(i) \/ Track(i) \/ Untrack(i)
      BY <2>3 DEF Calls
    <3>. QED
      BY <1>3, <3>1, ResolveKeeps, TrackKeeps, UntrackKeeps
  <2>. QED
    BY <1>3, <2>1, <2>2, <2>3, ServerKeeps, SaveKeeps, RequestFailsKeeps, SweepKeeps
<1>. QED
  BY <1>1, <1>2, <1>3 DEF Next

THEOREM MirrorStays == Spec => []IInv
<1>1. Init => IInv
  BY IInvBegins
<1>2. IInv /\ [Next]_vars => IInv'
  BY IInvKept
<1>. QED
  BY <1>1, <1>2, PTL DEF Spec

\* What is excused is all that the mirror is not known to be true of.
LEMMA Trusted ==
    ASSUME IInv, NEW l \in Lists, NEW i \in Ids, Answer(l, i) # "unknown", ~Excused(l, i),
           Since(mirror.position, i)
    PROVE  /\ ~Lapsed(owed) /\ mirror.ready
           /\ \A j \in IdsWith(mirror, i) : j \notin mixed /\ <<l, j>> \notin Free
<1>1. Content /\ Whole(mirror) /\ Places /\ Holds /\ Unsettled
  BY DEF IInv, TypeOK
<1>2. PICK ids : ids = IdsWith(mirror, i)
  OBVIOUS
<1>3. ids \subseteq Ids /\ i \in ids /\ (ids # {i} => ids \in Sets(mirror))
  BY <1>1, <1>2, IdsWithIs
<1>4. \A j \in ids : ~Owes(Reload(l, j)) /\ <<l, j>> \notin torn /\ j \notin mixed
  BY <1>2 DEF Excused
<1>5. ~Lapsed(owed)
  BY <1>3, <1>4 DEF Owes, Lapsed
<1>6. mirror.ready
  BY <1>1 DEF Answer
<1>7. PICK from, at : from = Applied /\ at = mirror.position
  OBVIOUS
<1>8. from \in 0 .. End /\ at \in 0 .. End /\ at <= from /\ End \in Nat /\ End \in at .. End
  <2>1. mirror.position \in Nat
    BY <1>1 DEF Whole, States
  <2>. QED
    BY <1>1, <1>5, <1>7, <2>1, RowsSound DEF Places, Upto
<1>9. Since(at, i)
  BY <1>7
<1>10. ASSUME NEW j \in ids PROVE Since(at, j)
  <2>1. CASE j = i
    BY <1>9, <2>1
  <2>2. CASE j # i
    <3>1. ids \in Sets(mirror)
      BY <1>3, <2>2
    <3>2. PICK mix, free : mix = mixed /\ free = Free
      OBVIOUS
    <3>3. Truth(mirror, from, mix, free)
      BY <1>1, <1>5, <1>6, <1>7, <3>2 DEF Holds
    <3>4. Since(from, i)
      BY <1>8, <1>9, SinceLater
    <3>5. ids \subseteq HeldBy(Now, i)
      BY <1>3, <1>4, <3>1, <3>2, <3>3, <3>4 DEF Truth, Kept
    <3>6. PICK t \in at .. End : t = End
      BY <1>8
    <3>7. j \in HeldBy(At(t), i)
      BY <3>5, <3>6 DEF Now
    <3>. QED
      BY <1>1, <1>8, <1>9, <3>7, SinceMates
  <2>. QED
    BY <2>1, <2>2
<1>11. ASSUME NEW j \in ids PROVE <<l, j>> \notin Free
  <2>1. <<l, j>> \notin Coming
    <3> SUFFICES ASSUME <<l, j>> \in Coming PROVE FALSE
      OBVIOUS
    <3>1. PICK x \in Coming : x = <<l, j>>
      OBVIOUS
    <3>2. ~Since(mirror.position, x[2])
      BY <1>1, <1>5 DEF Unsettled
    <3>3. x[2] = j
      BY <3>1
    <3>. QED
      BY <1>7, <1>10, <3>2, <3>3
  <2>2. Reload(l, j) \notin owed
    BY <1>4 DEF Owes
  <2>3. <<l, j>> \notin torn /\ j \notin mixed
    BY <1>4
  <2>4. <<l, j>> \notin Missed(owed, torn, mixed)
    BY <2>2, <2>3 DEF Missed
  <2>. QED
    BY <2>1, <2>4 DEF Free
<1>. QED
  BY <1>2, <1>4, <1>5, <1>6, <1>11

LEMMA SteadySince ==
    ASSUME NEW i \in Ids
    PROVE  Steady(i) <=> Since(mirror.position, i)
  BY DEF Steady, From, Since, Of

LEMMA MarksHoldNow ==
    ASSUME IInv
    PROVE  MarksHold
<1> SUFFICES ASSUME NEW l \in Lists, NEW i \in Ids, Answer(l, i) # "unknown", Steady(i), ~Excused(l, i)
             PROVE  \E n \in From : (Answer(l, i) = "yes") = MarkedAt(At(n), l, i)
  BY DEF MarksHold
<1>1. Since(mirror.position, i)
  BY SteadySince
<1>2. Content /\ Whole(mirror) /\ Places /\ Holds
  BY DEF IInv, TypeOK
<1>3. ~Lapsed(owed) /\ mirror.ready
  BY <1>1, Trusted
<1>4. \A j \in IdsWith(mirror, i) : j \notin mixed /\ <<l, j>> \notin Free
  BY <1>1, Trusted
<1>5. PICK from, at, free : from = Applied /\ at = mirror.position /\ free = Free
  OBVIOUS
<1>6. from \in 0 .. End /\ at \in 0 .. End /\ at <= from
  <2>1. mirror.position \in Nat /\ End \in Nat
    BY <1>2, RowsSound DEF Whole, States
  <2>. QED
    BY <1>2, <1>3, <1>5, <2>1 DEF Places, Upto
<1>7. Truth(mirror, from, mixed, free)
  BY <1>2, <1>3, <1>5 DEF Holds
<1>8. Truth(mirror, at, mixed, free)
  BY <1>2, <1>6, <1>7, TruthEarlier
<1>9. \E n \in at .. End : (Answer(l, i) = "yes") = MarkedAt(At(n), l, i)
  BY <1>1, <1>2, <1>4, <1>5, <1>6, <1>8, AnswerHolds
<1>. QED
  BY <1>5, <1>9 DEF From

\* "No change after the snapshot is missed".
THEOREM MarksStay == Spec => []MarksHold
<1>1. IInv => MarksHold
  BY MarksHoldNow
<1>. QED
  BY <1>1, MirrorStays, PTL

=============================================================================
