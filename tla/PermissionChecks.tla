--------------------------- MODULE PermissionChecks ---------------------------
(***************************************************************************)
(* Permission checks through the cache (routes/permissions.ts) beside the  *)
(* writes that change an answer, in one process.                           *)
(*                                                                         *)
(*   level    what each group's own rows say to the check: its overrides   *)
(*            and roles allow it ("yes"), deny it ("no"), or leave it open *)
(*            (also: the user is no active member)                         *)
(*   parent   of each group, or NoGroup                                    *)
(*   live     the groups that are not deleted                              *)
(*   cache    the process's cache                                          *)
(*   check    the requests that check: the keys they still have to answer, *)
(*            the chain of groups of the first one, how far it is walked,  *)
(*            and what the request has read of each level                  *)
(*   write    of each writer: its operation, its stage and the number of   *)
(*            its commit                                                   *)
(*   commits  the number of writes committed                               *)
(***************************************************************************)
EXTENDS PermissionCache

CONSTANTS
    Checkers,         \* bound: requests that check at one time
    Writers,          \* bound: writes of a behaviour
    Batches,          \* the checks a request may ask for: sequences of keys
    Ops,              \* the writes
    MaxDepth          \* MAX_PARENT_DEPTH

Levels == {"yes", "no", "open"}

\* Grants: entries, parents and holders of roles, and overrides, of a group.  Members:
\* a join, leave, kick or ban.  Links and configs change what every group says.
\* Remote: a grant committed by another process.
Kinds == {"grant", "member", "link", "remote", "reparent", "admin_reparent", "delete", "restore"}

ASSUME ChecksAssumption ==
    /\ MaxDepth \in Nat \ {0} /\ IsFiniteSet(Writers)
    /\ Batches \subseteq Seq(Keys) \ {<<>>}
    /\ Ops \subseteq [kind : Kinds, group : Groups, value : Levels, parent : Groups \cup {NoGroup}]

VARIABLES level, parent, live, cache, check, write, commits

vars == <<level, parent, live, cache, check, write, commits>>

\* Kinds that drop nothing from this cache.
Silent == {"member", "remote", "admin_reparent", "delete", "restore"}

Idle == [at |-> "idle", keys |-> <<>>, chain |-> <<>>, step |-> 1,
         memo |-> [g \in Groups |-> "unread"], from |-> 0]

-----------------------------------------------------------------------------
(* What an answer is                                                       *)

\* The n groups from g upwards, above it only such as are in Through.
Walks(g, n, Through) ==
    {s \in [1 .. n -> Groups] :
        /\ s[1] = g
        /\ \A i \in 1 .. n - 1 : s[i + 1] = parent[s[i]] /\ s[i + 1] \in Through}

\* loadAncestorChain: a deleted group ends the chain.
AncestorChain(g) ==
    LET lengths == {n \in 1 .. MaxDepth + 1 : Walks(g, n, live) # {}}
        longest == CHOOSE n \in lengths : \A m \in lengths : m <= n
    IN  IF g \in live THEN CHOOSE s \in Walks(g, longest, live) : TRUE ELSE <<>>

Answer(value, via) == [value |-> value, via |-> via]

\* The nearest group of the chain that decides.
Resolve(k) ==
    LET chain == AncestorChain(k[1])
        deciders == {i \in 1 .. Len(chain) : level[chain[i]] # "open"}
        nearest == CHOOSE i \in deciders : \A j \in deciders : i <= j
    IN  IF ~k[2] THEN Answer(level[k[1]], NoGroup)
        ELSE IF deciders = {} THEN Answer("open", NoGroup)
        ELSE Answer(level[chain[nearest]], chain[nearest])

-----------------------------------------------------------------------------
(* Checks                                                                  *)

Key(c) == Head(check[c].keys)
Stays(c, next) == check' = [check EXCEPT ![c] = next] /\ UNCHANGED <<level, parent, live, write, commits>>

\* The groups are looked up once, for all of the request.
BeginCheck(c) ==
    /\ check[c].at = "idle"
    /\ \E keys \in Batches :
          /\ \A i \in DOMAIN keys : keys[i][1] \in live
          /\ Stays(c, [Idle EXCEPT !.at = "get", !.keys = keys, !.from = commits])
    /\ UNCHANGED cache

\* Mutant: the walk of the next key goes on where the last one ended.
NextKeyWalked(c) ==
    IF Len(check[c].keys) = 1 THEN Idle ELSE [check[c] EXCEPT !.at = "get", !.keys = Tail(@)]

\* The next key of the request, if there is one.
NextKey(c) ==
    IF Len(check[c].keys) = 1 THEN Idle
    ELSE [check[c] EXCEPT !.at = "get", !.keys = Tail(@), !.chain = <<>>, !.step = 1]

GetCached(c) ==
    /\ check[c].at = "get"
    /\ IF Stored(cache, Key(c)) /\ ~Expired(cache, Key(c))
       THEN Stays(c, NextKey(c)) /\ cache' = Hit(cache, Key(c))
       ELSE /\ Stays(c, IF Key(c)[2] THEN [check[c] EXCEPT !.at = "chain"]
                        ELSE [check[c] EXCEPT !.at = "walk", !.chain = <<Key(c)[1]>>])
            /\ cache' = IF Expired(cache, Key(c)) THEN Evict(cache, {Key(c)}) ELSE cache

LoadChain(c) ==
    /\ check[c].at = "chain"
    /\ Stays(c, [check[c] EXCEPT !.at = "walk", !.chain = AncestorChain(Key(c)[1])])
    /\ UNCHANGED cache

\* Mutant: an inherited answer is filed under its own group only.
FilesItself(c) == {Key(c)[1]}

\* dependsOn: the groups walked so far.
Consulted(c) ==
    IF check[c].chain = <<>> THEN {Key(c)[1]} ELSE {check[c].chain[i] : i \in 1 .. check[c].step}

\* The group the walk has come to, and what it said to the request.
Reached(c) == check[c].chain[check[c].step]
Said(c) == IF check[c].chain = <<>> THEN "open" ELSE check[c].memo[Reached(c)]

\* A level is read once in a request.  The group that decides, or the last one,
\* ends the walk.
WalkLevel(c) ==
    LET g == Reached(c)
        value == IF check[c].memo[g] = "unread" THEN level[g] ELSE check[c].memo[g]
        next == IF value # "open" \/ check[c].step = Len(check[c].chain)
                THEN [check[c] EXCEPT !.at = "store"] ELSE [check[c] EXCEPT !.step = @ + 1]
    IN  /\ check[c].at = "walk"
        /\ Stays(c, IF check[c].chain = <<>> THEN [check[c] EXCEPT !.at = "store"]
                    ELSE [next EXCEPT !.memo[g] = value])
        /\ UNCHANGED cache

\* The answer is stored when the last read is back.
StoreAnswer(c) ==
    LET via == IF Key(c)[2] /\ Said(c) # "open" THEN Reached(c) ELSE NoGroup
        entry == Entry(Answer(Said(c), via), Consulted(c), check[c].from, check[c].from # commits)
    IN  /\ check[c].at = "store"
        /\ Stays(c, NextKey(c))
        /\ cache' = Put(cache, Key(c), entry)

Check(c) == BeginCheck(c) \/ GetCached(c) \/ LoadChain(c) \/ WalkLevel(c) \/ StoreAnswer(c)

-----------------------------------------------------------------------------
(* Writes                                                                  *)

Is(w, kinds) == write[w].op.kind \in kinds
On(w) == write[w].op.group

At(w, stage) == write[w].at = stage
Goes(w, stage) == write' = [write EXCEPT ![w].at = stage]

\* The number of its commit, and what is left to do: the invalidation.
Commits(w) ==
    /\ commits' = commits + 1
    /\ write' = [write EXCEPT ![w].when = commits + 1, ![w].at = IF Is(w, Silent) THEN "done" ELSE "drop"]

Levelled(w, groups) ==
    level' = [g \in Groups |-> IF g \in groups THEN write[w].op.value ELSE level[g]]

WriteLevel(w) ==
    /\ At(w, "begin")
    /\ \/ Is(w, {"grant", "member", "remote"}) /\ On(w) \in live /\ Levelled(w, {On(w)})
       \/ Is(w, {"link"}) /\ Levelled(w, Groups)
    /\ Commits(w)
    /\ UNCHANGED <<parent, live, cache, check>>

WriteLive(w) ==
    /\ At(w, "begin")
    /\ \/ Is(w, {"delete"}) /\ On(w) \in live /\ live' = live \ {On(w)}
       \/ Is(w, {"restore"}) /\ On(w) \notin live /\ live' = live \cup {On(w)}
    /\ Commits(w)
    /\ UNCHANGED <<level, parent, cache, check>>

Parented == {"reparent", "admin_reparent"}

\* Mutant: the game's group-graph lock is not taken.
NoGraphLock(w) == FALSE
GraphLocked(w) == \E v \in Writers \ {w} : At(v, "graph")

\* assertNoParentCycle looks MaxDepth levels above the new parent, deleted or not.
Closes(g, p) == \E n \in 1 .. MaxDepth + 1 : \E s \in Walks(p, n, Groups) : s[n] = g

\* Under the lock: a cycle, or a group that is not there, refuses.
CheckParent(w) ==
    LET p == write[w].op.parent IN
    /\ At(w, "begin") /\ Is(w, Parented) /\ ~GraphLocked(w)
    /\ On(w) \in live
    /\ p = NoGroup \/ (p \in live /\ ~Closes(On(w), p))
    /\ Goes(w, "graph")
    /\ UNCHANGED <<level, parent, live, cache, check, commits>>

WriteParent(w) ==
    /\ At(w, "graph")
    /\ parent' = [parent EXCEPT ![On(w)] = write[w].op.parent]
    /\ Commits(w)
    /\ UNCHANGED <<level, live, cache, check>>

\* After the commit: invalidateGroup, or clear.
Drop(w) ==
    /\ At(w, "drop")
    /\ cache' = IF Is(w, {"link"}) THEN Empty ELSE InvalidateGroup(cache, On(w))
    /\ Goes(w, "done")
    /\ UNCHANGED <<level, parent, live, check, commits>>

Write(w) == WriteLevel(w) \/ WriteLive(w) \/ CheckParent(w) \/ WriteParent(w) \/ Drop(w)

-----------------------------------------------------------------------------
(* Time, and the sweeper of the cache                                      *)

Tick == cache' = Older(cache) /\ cache' # cache /\ UNCHANGED <<level, parent, live, check, write, commits>>

Sweep ==
    /\ cache' = SweepExpired(cache) /\ cache' # cache
    /\ UNCHANGED <<level, parent, live, check, write, commits>>

Next == (\E c \in Checkers : Check(c)) \/ (\E w \in Writers : Write(w)) \/ Tick \/ Sweep

\* No cycle is closed, of as many groups as the walk of a write looks at, however
\* writes that each see none interleave, deleted groups included.
NoParentCycle == \A g \in Groups : parent[g] # NoGroup => ~Closes(g, parent[g])

Init ==
    /\ level \in [Groups -> Levels] /\ live \in SUBSET Groups
    /\ parent \in [Groups -> Groups \cup {NoGroup}]
    /\ NoParentCycle
    /\ cache = Empty /\ check = [c \in Checkers |-> Idle] /\ commits = 0
    /\ write \in [Writers -> {[op |-> op, at |-> "begin", when |-> 0] : op \in Ops}]

Spec == Init /\ [][Next]_vars

\* Time passes.
FairSpec == Spec /\ WF_vars(Tick)

-----------------------------------------------------------------------------
(* Properties                                                              *)

\* The types of the state.  An entry is in the order of use once, within the cap.
TypeOK ==
    /\ {k \in Keys : Stored(cache, k)} = {cache.used[i] : i \in DOMAIN cache.used}
    /\ Cardinality({k \in Keys : Stored(cache, k)}) = Len(cache.used) /\ Len(cache.used) <= MaxEntries
    /\ level \in [Groups -> Levels] /\ live \subseteq Groups
    /\ parent \in [Groups -> Groups \cup {NoGroup}]
    /\ \A c \in Checkers :
          /\ check[c].at \in {"idle", "get", "chain", "walk", "store"}
          /\ check[c].at \in {"walk", "store"} /\ check[c].chain # <<>> =>
                check[c].step \in DOMAIN check[c].chain
    /\ \A w \in Writers : /\ write[w].at \in {"begin", "graph", "drop", "done"}
                          /\ write[w].op.kind \in Kinds
    /\ commits \in 0 .. Cardinality(Writers)

\* The sets of the index hold exactly the keys of the entries that depend on
\* their groups: an invalidation misses none, and no set grows without end.
IndexExact == \A g \in Groups : cache.index[g] = {k \in Keys : g \in cache.entry[k].groups}

\* An answer the cache would give that is not what the rows say.
Stale(k) ==
    /\ Stored(cache, k) /\ ~Expired(cache, k)
    /\ cache.entry[k].answer # Resolve(k)

Dropping == \E w \in Writers : At(w, "drop")

Silenced(k) == \E w \in Writers : Is(w, Silent) /\ write[w].when > cache.entry[k].from

\* A stale answer has one of three causes: a write is about to drop it, a write
\* that drops nothing was committed since its request began, or a write was
\* committed while its request was at work.  To file an answer under the groups
\* walked, and to drop only the group that changed, leaves no other.
StaleForCause ==
    \A k \in Keys : Stale(k) => Dropping \/ Silenced(k) \/ cache.entry[k].raced

\* "a stale answer flips within one round-trip" (permissions.mdx:79): once writes
\* have dropped what they invalidate, no answer is stale.
FlipsAtOnce == \A k \in Keys : Stale(k) => Dropping \/ Silenced(k)

\* A stale answer goes, however often it is asked for.
StaleLeaves ==
    \A k \in UNION {{keys[i] : i \in DOMAIN keys} : keys \in Batches} : [](Stale(k) => <>~Stale(k))

=============================================================================
