------------------------------ MODULE GameMirror ------------------------------
(***************************************************************************)
(* The Java mirror (GameMirror.java): a copy of GameContent, loaded with   *)
(* requests and kept current by the game stream, with a snapshot file.     *)
(* One applier thread runs tasks; each request of a task is a step, and    *)
(* the server writes between them.  Nothing but the applier changes the    *)
(* mirror, so that an answer is adopted in the step that reads it.         *)
(*                                                                         *)
(*   mirror    the published state, which reads answer from                *)
(*   todo      what is left of the applier's task; draft, what it has read *)
(*   inbox     events and resyncs queued for the applier                   *)
(*   tasks     its other tasks: retries                                    *)
(*   deferred  the reloads that events asked for, and their position       *)
(*   loads     members whose track waits for the shared read               *)
(*   waiting   members whose track future is not complete                  *)
(*   live      the stream is open; read, how far it has read; resync, the  *)
(*             position of a resync the applier has not been told of       *)
(*   file      the snapshot file, with the ghosts of the state it holds    *)
(*   owed      ghost: what a failed load left old, or an event that was    *)
(*             taken for another id of the person                        *)
(*   torn      ghost: ids whose moderation version is newer than the row   *)
(*   mixed     ghost: ids kept as one person's though no person held them  *)
(*                                                                         *)
(* The stream delivers every retained event in order, or resyncs: that is  *)
(* Subscription.  What a check answers is a function of the graph and the  *)
(* row, which stand for it.  The group is not one that the builder names,  *)
(* and retention is off, which is the default.                             *)
(***************************************************************************)
EXTENDS GameContent, Functions

CONSTANTS
    MaxCalls,    \* bound: calls of track and resolve
    MaxFaults    \* bound: failed requests, crashes and sweeps

ASSUME CallsAssumption == MaxCalls \in Nat /\ MaxFaults \in Nat

\* The lists that the mirror keeps: the bans, and a type of sanction.
ASSUME ListsAssumption == IsFiniteSet(Lists)

VARIABLES mirror, todo, draft, inbox, tasks, deferred, loads, waiting,
          live, read, resync, file, owed, torn, mixed, calls, faults

streamVars == <<inbox, live, read, resync>>
trackVars == <<loads, waiting, calls>>
vars == <<contentVars, mirror, todo, draft, tasks, deferred, trackVars,
          streamVars, file, owed, torn, mixed, faults>>

Nothing == [i \in {} |-> NoRow]
Pending == [loaded |-> FALSE, row |-> NoRow]
Empty == [ready |-> FALSE, position |-> 0, group |-> 0,
          marked |-> [l \in Lists |-> {}],
          known |-> [l \in Lists |-> [i \in Ids |-> 0]],
          members |-> Nothing, people |-> Nothing, rendered |-> {}]
Quiet == [group |-> FALSE, members |-> {}, position |-> 0]
NoFile == [mirror |-> Empty, owed |-> {}, torn |-> {}, mixed |-> {}]

-----------------------------------------------------------------------------
(* The state, and what a read finds in it                                  *)

\* Mutant: a check looks under the id it was given, and no other.
ExactId(m, i) == {i}

IdsWith(m, i) == {i} \cup (IF i \in DOMAIN m.people THEN m.people[i].ids ELSE {})

\* A map with x under each of the keys.
Put(f, keys, x) == [k \in keys \cup DOMAIN f |-> IF k \in keys THEN x ELSE f[k]]

WithPerson(m, ids, key) ==
    [m EXCEPT !.people = Put(@, ids, [ids |-> ids, key |-> key]),
              !.rendered = @ \cup {key}]

\* An id seen where the server renders ids: its person learns its key.
WithRendered(m, i) ==
    IF i \in DOMAIN m.people THEN WithPerson(m, m.people[i].ids, i)
    ELSE [m EXCEPT !.rendered = @ \cup {i}]

WithoutGroup(m) == [m EXCEPT !.group = 0, !.members = Nothing]

\* The keys that findMemberKey may answer: the exact id first.
Keys(m, i) ==
    IF i \in DOMAIN m.members THEN {i} ELSE IdsWith(m, i) \cap DOMAIN m.members

\* isBanned, isSanctioned
Answer(l, i) ==
    IF ~mirror.ready THEN "unknown"
    ELSE IF IdsWith(mirror, i) \cap mirror.marked[l] # {} THEN "yes"
    ELSE IF i \in DOMAIN mirror.people \cup mirror.rendered THEN "no" ELSE "unknown"

-----------------------------------------------------------------------------
(* Work: a task is a sequence of requests, and of what follows them        *)

LoadGroup == [k |-> "group"]
LoadMembers(keys) == [k |-> "members", keys |-> keys]
ReloadMembers(keys) == IF keys = {} THEN <<>> ELSE <<LoadMembers(keys)>>
Reload(l, i) == [k |-> "reload", list |-> l, id |-> i]
FullLoad(n) == [k |-> "rows", position |-> n]

\* attemptStart, with a saved state or without.
Start(resume) ==
    (IF resume THEN <<>> ELSE <<[k |-> "position"]>>)
        \o <<[k |-> "subscribe", resume |-> resume]>>

\* What the queue holds where the applier is told of a resync.
Told == [k |-> "resync"]

\* A resync that the applier has not been told of, or not yet handled.
Untold(n) == resync = n \/ [position |-> n, event |-> Told] \in Range(inbox)

Idle == todo = <<>>
Calm == Idle /\ deferred = Quiet
Doing(k) == todo # <<>> /\ Head(todo).k = k
Work == Head(todo)
Then(more) == todo' = more \o Tail(todo)

ReadPosition ==
    /\ Doing("position")
    /\ Then(<<FullLoad(End)>>)
    /\ UNCHANGED <<contentVars, mirror, draft, tasks, deferred, trackVars,
                   streamVars, file, owed, torn, faults>>

\* fullLoad reads the graph, if one is held, and the rows of the lists.
ReadRows ==
    /\ Doing("rows")
    /\ draft' = [group |-> IF mirror.group # 0 THEN Now.group ELSE 0,
                 marked |-> Now.marked, version |-> Now.version]
    /\ Then(<<[k |-> "versions", position |-> Work.position]>>)
    /\ UNCHANGED <<contentVars, mirror, tasks, deferred, trackVars,
                   streamVars, file, owed, torn, faults>>

\* The versions, read after the rows; then the state is published.  People are
\* dropped, tracked members carried over and reloaded.
ReadVersions ==
    LET shown(l) == {Shown(Now, p) : p \in draft.marked[l]}
        version(i) == Now.version[Holder(Now, i)]
    IN  /\ Doing("versions")
        /\ mirror' = [Empty EXCEPT
               !.ready = TRUE, !.position = Work.position,
               !.group = draft.group, !.members = mirror.members,
               !.marked = [l \in Lists |-> shown(l)],
               !.known = [l \in Lists |-> [i \in Ids |->
                   IF i \in shown(l) THEN version(i) ELSE 0]],
               !.rendered = UNION {shown(l) : l \in Lists}]
        /\ torn' = {x \in Lists \X Ids :
               x[2] \in shown(x[1]) /\ version(x[2]) # draft.version[Holder(Now, x[2])]}
        /\ owed' = {work \in owed : \/ work.k = "members"
                                    \/ work.k = "rows" /\ Untold(work.position)}
        /\ draft' = <<>>
        /\ Then(ReloadMembers(DOMAIN mirror.members))
        /\ UNCHANGED <<contentVars, tasks, deferred, trackVars,
                       streamVars, file, faults>>

\* The stream opens at the state's position.  An expired one, if saved, means a
\* full load at once, else another attempt.
Subscribe ==
    LET opens == mirror.position >= swept IN
    /\ Doing("subscribe")
    /\ live' = opens
    /\ read' = IF opens THEN mirror.position ELSE read
    /\ Then(IF opens \/ ~Work.resume THEN <<>> ELSE Start(FALSE))
    /\ tasks' = IF opens \/ Work.resume THEN tasks ELSE tasks \cup {Start(FALSE)}
    /\ UNCHANGED <<contentVars, mirror, draft, deferred, trackVars,
                   inbox, resync, file, owed, torn, faults>>

\* A group that is not found leaves with its members.
ReadGroup ==
    /\ Doing("group")
    /\ mirror' = IF Now.group = 0 THEN WithoutGroup(mirror)
                 ELSE [mirror EXCEPT !.group = Now.group]
    /\ owed' = owed \ {LoadGroup}
    /\ Then(<<>>)
    /\ UNCHANGED <<contentVars, draft, tasks, deferred, trackVars,
                   streamVars, file, torn, faults>>

\* loadMembers and reloadMember ask for what is still tracked.  loadMemberAccess
\* finds the group and the people of the ids, then the rows of members, then what
\* hangs on them: ReadAccess says where each statement may have read since.
ReadMembers ==
    LET keys == Work.keys \cap DOMAIN mirror.members IN
    /\ Doing("members")
    /\ draft' = IF keys = {} THEN <<>> ELSE [since |-> End]
    /\ Then(IF keys = {} THEN <<>> ELSE <<[k |-> "access", keys |-> keys]>>)
    /\ UNCHANGED <<contentVars, mirror, tasks, deferred, trackVars,
                   streamVars, file, owed, torn, faults>>

\* A link has deleted the person (whose name may be given again).
Merged(p, from, to) == \E n \in from .. to : At(n).ids[p] = <<>>

\* What hangs on the row of an id: no roles and no overrides where it is gone.
Hanging(s, id, part) ==
    LET at == {p \in People : s.members[p].id = id}
    IN  IF at = {} THEN 0 ELSE s.members[CHOOSE p \in at : TRUE].says[part]

\* What the statements found of k, each at its position.  A person that is gone
\* is named by the id that was asked for.
Found(reads, k) ==
    LET p == Holder(At(reads.ids), k)
        row == IF At(reads.ids).group = 0 \/ Merged(p, reads.ids, reads.rows) THEN NoRow
               ELSE At(reads.rows).members[p]
        says == [status |-> row.says.status,
                 roles |-> Hanging(At(reads.roles), row.id, "roles"),
                 overrides |-> Hanging(At(reads.overrides), row.id, "overrides")]
    IN  [row |-> IF row = NoRow THEN NoRow ELSE [row EXCEPT !.says = says],
         shown |-> IF Merged(p, reads.ids, reads.people) THEN k
                   ELSE Shown(At(reads.people), p)]

\* The answer.  Each statement has read at a position of its own: the ids, then
\* the rows, then roles, overrides and people in no order.
ReadAccess ==
    /\ Doing("access")
    /\ \E ids, rows, roles, overrides, people \in draft.since .. End :
          /\ ids <= rows /\ \A n \in {roles, overrides, people} : rows <= n
          /\ draft' = [edit |-> mirror,
                       access |-> [k \in Work.keys |->
                           Found([ids |-> ids, rows |-> rows, roles |-> roles,
                                  overrides |-> overrides, people |-> people], k)]]
    /\ Then(<<[k |-> "loaded", keys |-> Work.keys, left |-> Work.keys]>>)
    /\ UNCHANGED <<contentVars, mirror, tasks, deferred, trackVars,
                   streamVars, file, owed, torn, faults>>

\* applyLoaded for one member.
WithLoaded(m, k, access) ==
    LET entry == [m EXCEPT !.members[k] = [loaded |-> TRUE, row |-> access.row]]
    IN  IF access.row = NoRow THEN entry
        ELSE IF access.shown = k THEN WithRendered(entry, k)
        ELSE WithPerson(entry, IdsWith(m, k) \cup IdsWith(m, access.shown), access.shown)

\* applyLoaded: the members are put into one draft of the state, each seeing the
\* people that the ones before recorded, and are published at once.
ApplyLoaded ==
    /\ Doing("loaded")
    /\ \E k \in Work.left :
          LET m == WithLoaded(draft.edit, k, draft.access[k])
          IN  IF Work.left = {k}
              THEN /\ mirror' = m /\ draft' = <<>>
                   /\ Then(<<>>)
                   /\ waiting' = waiting \ Work.keys
                   /\ owed' = owed \ {LoadMembers({x}) : x \in Work.keys}
              ELSE /\ draft' = [draft EXCEPT !.edit = m]
                   /\ Then(<<[Work EXCEPT !.left = @ \ {k}]>>)
                   /\ UNCHANGED <<mirror, waiting, owed>>
    /\ UNCHANGED <<contentVars, tasks, deferred, loads, calls,
                   streamVars, file, torn, faults>>

\* reloadBan and reloadSanctions.  The server finds the person, then reads rows
\* and version; a person's sanctions and their version in any order.
ReadPerson ==
    LET p == Holder(Now, Work.id) IN
    /\ Doing("reload")
    /\ \E first \in {"rows"} \cup (IF Work.list = "bans" THEN {} ELSE {"version"}) :
          draft' = [person |-> p, first |-> first,
                    on |-> p \in Now.marked[Work.list], version |-> Now.version[p]]
    /\ Then(<<[Work EXCEPT !.k = "adopt"]>>)
    /\ UNCHANGED <<contentVars, mirror, tasks, deferred, trackVars,
                   streamVars, file, owed, torn, faults>>

\* Every id of the person is cleared, and what was found is kept under the id
\* the server shows.  No ban carries no version; no sanctions do.
Adopt ==
    LET l == Work.list
        p == draft.person
        on == IF draft.first = "rows" THEN draft.on ELSE p \in Now.marked[l]
        v == IF draft.first = "rows" THEN Now.version[p] ELSE draft.version
        key == IF on THEN Shown(Now, p) ELSE Work.id
        ids == IdsWith(mirror, Work.id)
        m == [mirror EXCEPT
                 !.marked[l] = (@ \ ids) \cup (IF on THEN {key} ELSE {}),
                 !.known[l] = [i \in Ids |->
                     IF i = key /\ (on \/ l # "bans") THEN v
                     ELSE IF i \in ids THEN 0 ELSE @[i]]]
    IN  /\ Doing("adopt")
        /\ mirror' = IF ~on THEN m
                     ELSE IF l = "bans" THEN WithRendered(m, key)
                     ELSE [m EXCEPT !.rendered = @ \cup {key}]
        /\ torn' = {x \in torn : x[1] # l \/ x[2] \notin ids \cup {key}}
                   \cup (IF v > draft.version THEN {<<l, key>>} ELSE {})
        /\ owed' = owed \ {Reload(l, Work.id)}
        /\ draft' = <<>>
        /\ Then(<<>>)
        /\ UNCHANGED <<contentVars, tasks, deferred, trackVars,
                       streamVars, file, faults>>

\* Mutant: the position moves at once, though reloads are deferred.
SettleAtOnce(m, d, n) ==
    /\ mirror' = [m EXCEPT !.position = n]
    /\ deferred' = IF d = Quiet THEN Quiet ELSE [d EXCEPT !.position = n]

\* The position moves once nothing is deferred.
Settle(m, d, n) ==
    IF d = Quiet THEN mirror' = [m EXCEPT !.position = n] /\ deferred' = Quiet
    ELSE mirror' = m /\ deferred' = [d EXCEPT !.position = n]

\* The end of relink: members of the ids are reloaded later.
EndRelink ==
    /\ Doing("relinked")
    /\ Settle(mirror,
              [deferred EXCEPT !.members = @ \cup (Work.ids \cap DOMAIN mirror.members)],
              Work.position)
    /\ Then(<<>>)
    /\ UNCHANGED <<contentVars, draft, tasks, trackVars,
                   streamVars, file, owed, torn, faults>>

EndFlush ==
    /\ Doing("flushed")
    /\ mirror' = [mirror EXCEPT !.position = Work.position]
    /\ Then(<<>>)
    /\ UNCHANGED <<contentVars, draft, tasks, deferred, trackVars,
                   streamVars, file, owed, torn, faults>>

Requests ==
    \/ ReadPosition \/ ReadRows \/ ReadVersions \/ Subscribe
    \/ ReadGroup \/ ReadMembers \/ ReadAccess \/ ApplyLoaded \/ ReadPerson \/ Adopt
    \/ EndRelink \/ EndFlush

\* What a failure leaves to retry: a start and a full load begin again.
Again ==
    IF Work.k \in {"position", "rows", "versions", "subscribe"}
    THEN IF Last(todo).k = "subscribe" THEN {Start(Last(todo).resume)}
         ELSE {<<FullLoad(Work.position)>>}
    ELSE IF Work.k \in {"members", "access"}
    THEN {<<LoadMembers({k})>> : k \in Work.keys \cap DOMAIN mirror.members}
    ELSE IF Work.k = "group" THEN {<<LoadGroup>>}
    ELSE {<<Reload(Work.list, Work.id)>>}

\* A request fails or times out: the state is kept, and the futures of tracks
\* end whatever the outcome.
RequestFails ==
    /\ ~Idle /\ Work.k \notin {"loaded", "relinked", "flushed"}
    /\ faults < MaxFaults
    /\ faults' = faults + 1
    /\ tasks' = tasks \cup Again
    /\ owed' = owed \cup {w \in {Head(task) : task \in Again} :
                            w.k \notin {"position", "subscribe"}}
    /\ IF Work.k \in {"position", "rows", "versions", "subscribe"} THEN todo' = <<>>
       ELSE Then(<<>>)
    /\ waiting' = IF Work.k \in {"members", "access"} THEN waiting \ Work.keys ELSE waiting
    /\ draft' = <<>>
    /\ UNCHANGED <<contentVars, mirror, deferred, loads, calls,
                   streamVars, file, torn>>

-----------------------------------------------------------------------------
(* Events                                                                  *)

Event == Head(inbox).event
Position == Head(inbox).position
Takes(k) == Idle /\ inbox # <<>> /\ Event.k = k /\ inbox' = Tail(inbox)

ApplyGroup ==
    /\ Takes("group")
    /\ Settle(mirror, [deferred EXCEPT !.group = @ \/ mirror.group # 0], Position)
    /\ UNCHANGED <<todo, torn, owed>>

ApplyDeleted ==
    /\ Takes("deleted")
    /\ Settle(WithoutGroup(mirror), [deferred EXCEPT !.group = FALSE], Position)
    /\ UNCHANGED <<todo, torn, owed>>

\* applyMember: a member known at that version or later is not reloaded.  Where
\* two ids of the person are tracked, the other one is left old.
ApplyMember ==
    LET old(k) == /\ mirror.members[k].loaded
                  /\ mirror.members[k].row.v >= Event.v
        later(keys) == [deferred EXCEPT !.members = @ \cup keys]
        same(k) == {j \in DOMAIN mirror.members \ {k} :
                       Holder(Now, j) = Holder(Now, Event.who)}
    IN  /\ Takes("member")
        /\ \/ /\ Keys(mirror, Event.who) = {}
              /\ Settle(mirror, deferred, Position)
              /\ UNCHANGED owed
           \/ \E k \in Keys(mirror, Event.who) :
                 /\ Settle(mirror, IF old(k) THEN deferred ELSE later({k}), Position)
                 /\ owed' = owed \cup {LoadMembers({j}) : j \in same(k)}
        /\ UNCHANGED <<todo, torn>>

\* applyBan and applySanction.
ApplyModerated ==
    LET l == Event.list
        i == Event.who
        m == [mirror EXCEPT
                 !.marked[l] = IF Event.on THEN @ \cup {i} ELSE @ \ {i},
                 !.known[l][i] = Event.v]
        old == mirror.known[l][i] >= Event.v
    IN  /\ Takes("moderated")
        /\ Settle(IF old THEN mirror ELSE WithRendered(m, i), deferred, Position)
        /\ torn' = IF old THEN torn ELSE torn \ {<<l, i>>}
        /\ UNCHANGED <<todo, owed>>

\* relink: the person's ids as the event says, and a reload of whatever is kept
\* under one of them.
ApplyRelinked ==
    LET gone == IF Event.k = "unlinked" THEN {Event.moved} ELSE {}
        ids == (Event.ids \cup {Event.who, Event.moved}) \ gone
        met == WithPerson(mirror, ids, Event.who)
        all == ids \cup {Event.moved}
    IN  /\ Takes("linked") \/ Takes("unlinked")
        /\ mirror' = IF gone = {} THEN met ELSE WithPerson(met, gone, Event.moved)
        /\ todo' = SetToSeq({Reload(l, i) : l \in Lists, i \in all})
                   \o <<[k |-> "relinked", ids |-> all, position |-> Position]>>
        /\ UNCHANGED <<deferred, torn, owed>>

Apply ==
    /\ ApplyGroup \/ ApplyDeleted \/ ApplyMember \/ ApplyModerated \/ ApplyRelinked
    /\ UNCHANGED <<contentVars, draft, tasks, trackVars,
                   live, read, resync, file, faults>>

\* Mutant: what is deferred is cleared before it is read.
FlushForgets ==
    /\ Idle /\ deferred # Quiet
    /\ deferred' = Quiet
    /\ UNCHANGED <<contentVars, mirror, todo, draft, tasks, trackVars,
                   streamVars, file, owed, torn, faults>>

\* flushDeferred: at the latest before a task that is not an event.
Flush ==
    /\ Idle /\ deferred # Quiet
    /\ todo' = (IF deferred.group /\ mirror.group # 0 THEN <<LoadGroup>> ELSE <<>>)
               \o ReloadMembers(deferred.members)
               \o <<[k |-> "flushed", position |-> deferred.position]>>
    /\ deferred' = Quiet
    /\ UNCHANGED <<contentVars, mirror, draft, tasks, trackVars,
                   streamVars, file, owed, torn, faults>>

Resync ==
    /\ Calm /\ inbox # <<>> /\ Event.k = "resync"
    /\ inbox' = Tail(inbox)
    /\ todo' = <<FullLoad(Position)>>
    /\ UNCHANGED <<contentVars, mirror, draft, tasks, deferred, trackVars,
                   live, read, resync, file, owed, torn, faults>>

RunTask ==
    /\ Calm
    /\ \E task \in tasks : todo' = task /\ tasks' = tasks \ {task}
    /\ UNCHANGED <<contentVars, mirror, draft, deferred, trackVars,
                   streamVars, file, owed, torn, faults>>

-----------------------------------------------------------------------------
(* The stream: an event names its person as the server does when it is sent *)

Deliver ==
    LET event == log[read + 1]
        named == IF event.k \in {"group", "deleted"} THEN event
                 ELSE [event EXCEPT !.who = Shown(Now, Holder(Now, @))]
    IN  /\ live /\ swept <= read /\ read < End
        /\ inbox' = Append(inbox, [position |-> read + 1, event |-> named])
        /\ read' = read + 1
        /\ UNCHANGED <<contentVars, mirror, todo, draft, tasks, deferred,
                       trackVars, live, resync, file, owed, torn, faults>>

\* The position of a reconnect has expired: the stream opens again at the end of
\* the log, and the applier is told after its first events may have come.
Expired ==
    /\ live /\ read < swept
    /\ read' = End /\ resync' = End
    /\ owed' = owed \cup {FullLoad(End)}
    /\ UNCHANGED <<contentVars, mirror, todo, draft, inbox, tasks, deferred,
                   trackVars, live, file, torn, faults>>

TellResync ==
    /\ resync # 0
    /\ inbox' = Append(inbox, [position |-> resync, event |-> Told])
    /\ resync' = 0
    /\ UNCHANGED <<contentVars, mirror, todo, draft, tasks, deferred,
                   trackVars, live, read, file, owed, torn, faults>>

\* Events go that the stream has not read; a sweep of what it has read changes
\* nothing but a later start, which Restart allows for.
Sweep ==
    /\ swept < End /\ (live => read < End)
    /\ faults < MaxFaults
    /\ faults' = faults + 1
    /\ swept' = End
    /\ UNCHANGED <<past, log, mirror, todo, draft, tasks, deferred, trackVars,
                   streamVars, file, owed, torn>>

-----------------------------------------------------------------------------
(* Calls, the snapshot file, crashes                                       *)

\* ensurePerson: an id seen as rendered is its person's key, else the first.
Resolved(m, i) ==
    LET ids == Now.ids[Holder(Now, i)]
        seen == {n \in DOMAIN ids :
                    ids[n] \in m.rendered /\ \A x \in 1 .. n - 1 : ids[x] \notin m.rendered}
        key == IF seen = {} THEN Head(ids) ELSE ids[CHOOSE n \in seen : TRUE]
    IN  IF i \in DOMAIN m.people THEN m
        ELSE [m EXCEPT !.people = Put(@, ToSet(ids), [ids |-> ToSet(ids), key |-> key])]

Call(more) ==
    /\ Calm /\ mirror.ready
    /\ calls + more <= MaxCalls
    /\ calls' = calls + more
    /\ UNCHANGED <<contentVars, draft, tasks, deferred, streamVars, file, owed,
                   torn, faults>>

Resolve(i) ==
    /\ i \notin DOMAIN mirror.people
    /\ mirror' = Resolved(mirror, i)
    /\ Call(1)
    /\ UNCHANGED <<todo, loads, waiting>>

Track(i) ==
    LET m == Resolved(mirror, i)
        key == m.people[i].key
    IN  /\ \/ \E k \in Keys(m, i) :
                 /\ mirror' = m
                 /\ waiting' = IF m.members[k].loaded /\ k \notin waiting THEN waiting
                               ELSE waiting \cup {k}
                 /\ UNCHANGED <<todo, loads>>
           \/ /\ Keys(m, i) = {}
              /\ mirror' = [m EXCEPT !.members = Put(@, {key}, Pending)]
              /\ waiting' = waiting \cup {key}
              /\ loads' = loads \cup {key}
              /\ todo' = IF m.group = 0 THEN <<LoadGroup>> ELSE <<>>
        /\ Call(1)

Untrack(i) ==
    /\ \E k \in Keys(mirror, i) :
          /\ mirror' = [mirror EXCEPT !.members = Restrict(@, DOMAIN @ \ {k})]
          /\ waiting' = waiting \ {k}
    /\ Call(0)
    /\ UNCHANGED <<todo, loads>>

\* flushTrackLoads: the tracks of a short while share a read.
FlushTracks ==
    /\ Calm /\ loads # {}
    /\ todo' = <<LoadMembers(loads)>>
    /\ loads' = {}
    /\ UNCHANGED <<contentVars, mirror, draft, tasks, deferred, waiting, calls,
                   streamVars, file, owed, torn, faults>>

\* Members still loading are not saved.  Bound: one save, and none that no
\* restart can follow.
Save ==
    LET members == Restrict(mirror.members,
                            {k \in DOMAIN mirror.members : mirror.members[k].loaded})
    IN  /\ Calm /\ mirror.ready
        /\ file = NoFile /\ faults < MaxFaults
        /\ file' = [mirror |-> [mirror EXCEPT !.members = members],
                    owed |-> owed, torn |-> torn, mixed |-> mixed]
        /\ UNCHANGED <<contentVars, mirror, todo, draft, tasks, deferred,
                       trackVars, streamVars, owed, torn, faults>>

\* MirrorSnapshot.load puts the saved people back one by one, in no order, and
\* then the rendered ids: an id gets one of the saved people it is in, and the
\* person any of its rendered ids as key.  Only people who share an id with
\* others may keep their key, or be put back for some of their ids.
ReadBack(m) ==
    LET saved == Range(m.people)
        alone(p) == \A q \in saved : q.ids = p.ids \/ q.ids \cap p.ids = {}
        keys(p) == LET seen == p.ids \cap m.rendered
                   IN  IF alone(p) /\ seen # {} THEN seen ELSE seen \cup {p.key}
        found == UNION {{[p EXCEPT !.key = key] : key \in keys(p)} : p \in saved}
    IN  {people \in [DOMAIN m.people -> found] :
            \A i \in DOMAIN people :
                /\ i \in people[i].ids
                /\ alone(people[i]) => \A j \in people[i].ids : people[j] = people[i]}

\* The process starts again from its file, perhaps so long after that events are
\* gone.
Restart ==
    /\ faults < MaxFaults
    /\ faults' = faults + 1
    /\ \E people \in ReadBack(file.mirror) :
          mirror' = [file.mirror EXCEPT !.people = people]
    /\ todo' = Start(file.mirror.ready)
    /\ owed' = file.owed /\ torn' = file.torn
    /\ deferred' = Quiet /\ draft' = <<>> /\ tasks' = {}
    /\ loads' = {} /\ waiting' = {}
    /\ inbox' = <<>> /\ live' = FALSE /\ read' = 0 /\ resync' = 0
    /\ swept' \in {swept, End}
    /\ UNCHANGED <<past, log, calls, file>>

-----------------------------------------------------------------------------
Init ==
    /\ InitContent
    /\ mirror = Empty /\ todo = Start(FALSE) /\ draft = <<>> /\ tasks = {}
    /\ deferred = Quiet /\ loads = {} /\ waiting = {} /\ calls = 0
    /\ inbox = <<>> /\ live = FALSE /\ read = 0 /\ resync = 0
    /\ file = NoFile /\ owed = {} /\ torn = {} /\ mixed = {} /\ faults = 0

Server == Writes /\ UNCHANGED <<mirror, todo, draft, tasks, deferred, trackVars,
                                streamVars, file, owed, torn, faults>>
Calls == \E i \in Ids : Resolve(i) \/ Track(i) \/ Untrack(i)
Applier == Requests \/ Apply \/ Flush \/ Resync \/ RunTask \/ FlushTracks
Stream == Deliver \/ Expired \/ TellResync

\* The last event that the applier has taken.
Applied == IF live THEN read - Len(inbox) ELSE mirror.position

\* What is kept as the ids of one person, and was never since.
Mixed ==
    LET held(n, i) == ToSet(At(n).ids[Holder(At(n), i)])
    IN  UNION {mirror.people[i].ids : i \in {j \in DOMAIN mirror.people :
            \A n \in Applied .. End : ~(mirror.people[j].ids \subseteq held(n, j))}}

\* Until a full load the reloads of one may touch what is kept of the other.
NoteMixed == mixed' = Mixed' \cup (IF DOMAIN mirror'.people = {} THEN {} ELSE mixed)

Next ==
    \/ /\ Server \/ Applier \/ Stream \/ Calls \/ Save \/ RequestFails \/ Sweep
       /\ NoteMixed
    \/ Restart /\ mixed' = file.mixed

Spec == Init /\ [][Next]_vars

-----------------------------------------------------------------------------
(* Properties                                                              *)

From == mirror.position .. End

\* The ids of the person did not change after the position.
Steady(i) ==
    \A n \in From : At(n).ids[Holder(At(n), i)] = Now.ids[Holder(Now, i)]

Owes(work) == work \in owed \/ \E w \in owed : w.k = "rows"

Excused(l, i) ==
    \E j \in IdsWith(mirror, i) : Owes(Reload(l, j)) \/ <<l, j>> \in torn \/ j \in mixed

\* "No change after the snapshot is missed": what the mirror says of a ban or a
\* sanction was so at the position it publishes, or later.
MarksHold ==
    \A l \in Lists, i \in Ids :
        Answer(l, i) # "unknown" /\ Steady(i) /\ ~Excused(l, i) =>
            \E n \in From : (Answer(l, i) = "yes") = MarkedAt(At(n), l, i)

LoadedKeys(i) == {k \in Keys(mirror, i) : mirror.members[k].loaded}

\* A full load is published, and the members read again after it.
Reading(k) ==
    \E n \in DOMAIN todo : todo[n].k \in {"members", "access", "loaded"} /\ k \in todo[n].keys

\* No id of the person is kept as somebody else's.
Clear(i) == ToSet(Now.ids[Holder(Now, i)]) \cap mixed = {}

\* The events of a member name the id the server shows.  Another id learns of
\* them where its row names its person.
Followed(k) == k = Shown(Now, Holder(Now, k)) \/ mirror.members[k].row # NoRow

\* A row with no part older than its version: the version and the status are those
\* of one position, and each other part was so then or later.  (The parts need not
\* have been so together at any position.)
AsOf(row, n, i) ==
    /\ row.v = Row(At(n), i).v /\ row.says["status"] = Row(At(n), i).says["status"]
    /\ \A part \in Parts : \E t \in n .. End : row.says[part] = Row(At(t), i).says[part]

\* The same for the graph and the access of a tracked member.
AccessHolds ==
    /\ mirror.group # 0 /\ ~Owes(LoadGroup) => \E n \in From : mirror.group = At(n).group
    /\ \A i \in Ids : \A k \in LoadedKeys(i) :
        Steady(i) /\ Clear(i) /\ Followed(k) /\ ~Owes(LoadMembers({k})) /\ ~Reading(k) =>
            \E n \in From : AsOf(mirror.members[k].row, n, i)

AtRest ==
    /\ live /\ Calm /\ inbox = <<>> /\ tasks = {} /\ loads = {}
    /\ read = End /\ resync = 0

\* At rest, the mirror says what the server says.
CurrentAtRest ==
    AtRest =>
        /\ \A l \in Lists, i \in Ids :
              Answer(l, i) # "unknown" /\ ~Excused(l, i) =>
                  (Answer(l, i) = "yes") = MarkedAt(Now, l, i)
        /\ \A i \in Ids : \A k \in LoadedKeys(i) :
              Clear(i) /\ Followed(k) /\ ~Owes(LoadMembers({k})) =>
                  mirror.members[k].row = Row(Now, i)
        /\ mirror.group # 0 /\ ~Owes(LoadGroup) => mirror.group = Now.group
        /\ waiting \cap DOMAIN mirror.members = {}

=============================================================================
