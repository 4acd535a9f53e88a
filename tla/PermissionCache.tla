--------------------------- MODULE PermissionCache ---------------------------
(***************************************************************************)
(* The cache of permission answers of one process (permissionCache.ts), as *)
(* operators on a record:                                                  *)
(*                                                                         *)
(*   entry   what is stored under each key: the answer, the groups whose   *)
(*           index sets hold the key (none: no entry), the age of the      *)
(*           entry, the number of writes committed when its request began, *)
(*           and whether more were committed until it was stored           *)
(*   index   the keys filed under each group                               *)
(*   used    the keys of the entries, least recently used first            *)
(*                                                                         *)
(* A key is a group and whether the check inherits; its user, permission   *)
(* and context are the same throughout.                                    *)
(***************************************************************************)
EXTENDS Naturals, Sequences, FiniteSets

CONSTANTS
    Groups, NoGroup,
    Ttl,            \* bound: an entry is as old as this when it has expired
    MaxEntries

ASSUME CacheAssumption == NoGroup \notin Groups /\ Ttl \in Nat \ {0} /\ MaxEntries \in Nat \ {0}

Keys == Groups \X BOOLEAN

Entry(answer, groups, from, raced) ==
    [answer |-> answer, groups |-> groups, age |-> 0, from |-> from, raced |-> raced]

NoEntry == Entry([value |-> "open", via |-> NoGroup], {}, 0, FALSE)

Empty == [entry |-> [k \in Keys |-> NoEntry], index |-> [g \in Groups |-> {}], used |-> <<>>]

Stored(c, k) == c.entry[k].groups # {}

\* What is left of a sequence, in its order.
Without(s, S) ==
    LET kept == {i \in DOMAIN s : s[i] \notin S}
        rank(i) == Cardinality({j \in kept : j <= i})
    IN  [n \in 1 .. Cardinality(kept) |-> s[CHOOSE i \in kept : rank(i) = n]]

\* Mutant: the key is left in the sets of the other groups.
EvictHere(c, S) ==
    [entry |-> [k \in Keys |-> IF k \in S THEN NoEntry ELSE c.entry[k]],
     index |-> [g \in Groups |-> c.index[g] \ {k \in S : k[1] = g}],
     used  |-> Without(c.used, S)]

\* evict, of each key in S.
Evict(c, S) ==
    [entry |-> [k \in Keys |-> IF k \in S THEN NoEntry ELSE c.entry[k]],
     index |-> [g \in Groups |-> c.index[g] \ {k \in S : g \in c.entry[k].groups}],
     used  |-> Without(c.used, S)]

\* Mutant: a hit renews the entry.
HitRenews(c, k) ==
    [c EXCEPT !.used = Append(Without(@, {k}), k), !.entry[k].age = 0]

\* A hit is moved to the end; its age stays.
Hit(c, k) == [c EXCEPT !.used = Append(Without(@, {k}), k)]

\* Past the cap, the least recently used entry goes: evictOverflow.
Trim(c) == IF Len(c.used) > MaxEntries THEN Evict(c, {Head(c.used)}) ELSE c

File(c, k, e) ==
    [entry |-> [c.entry EXCEPT ![k] = e],
     index |-> [g \in Groups |-> IF g \in e.groups THEN c.index[g] \cup {k} ELSE c.index[g]],
     used  |-> Append(c.used, k)]

Put(c, k, e) == Trim(File(Evict(c, {k}), k, e))

InvalidateGroup(c, g) == [Evict(c, c.index[g]) EXCEPT !.index[g] = {}]

Expired(c, k) == Stored(c, k) /\ c.entry[k].age >= Ttl

SweepExpired(c) == Evict(c, {k \in Keys : Expired(c, k)})

\* Time passes.
Older(c) ==
    [c EXCEPT !.entry = [k \in Keys |->
        IF Stored(c, k) /\ ~Expired(c, k) THEN [c.entry[k] EXCEPT !.age = @ + 1] ELSE c.entry[k]]]

=============================================================================
