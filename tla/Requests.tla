------------------------------ MODULE Requests ------------------------------
(***************************************************************************)
(* Handlers of the API as Postgres transactions, READ COMMITTED.           *)
(*                                                                         *)
(* A handler reads before its transaction, then takes locks one after the  *)
(* other with its statements, decides, and commits.  Its writes show at    *)
(* its commit, which releases its locks; a refusal rolls back.             *)
(*                                                                         *)
(*   req    of each request: the operation, the stage of its handler, the  *)
(*          locks it still has to take before that stage, what it read     *)
(*          and its answer                                                 *)
(*   held   the locks of its transaction                                   *)
(*                                                                         *)
(* A lock is a tuple: a kind and what it is on.  "share" is the FOR KEY    *)
(* SHARE lock that the check of a foreign key takes on the row of a person *)
(* or a group, "erase" the FOR UPDATE lock of a delete, a merge or an      *)
(* unlink, "group" the FOR NO KEY UPDATE lock of a group.  Every lock but  *)
(* "share" excludes itself.                                                *)
(***************************************************************************)
EXTENDS Naturals, FiniteSets, Sequences

CONSTANTS Reqs    \* bound: the requests of a behaviour

VARIABLES req, held

\* ok: written; same: nothing to change; refused: a 4xx; error: a 5xx.
Answers == {"ok", "same", "refused", "error"}

Conflict(l, m) ==
    /\ l[2] = m[2]
    /\ (l[1] = m[1] /\ l[1] # "share") \/ {l[1], m[1]} \in {{"erase", "share"}, {"erase", "group"}}

Blockers(r, l) == {q \in Reqs \ {r} : \E m \in held[q] : Conflict(l, m)}

Wanted(r) == {req[r].todo[i] : i \in 1 .. Len(req[r].todo)}

\* r is at the stage, and has or can get the last lock before it.
At(r, stage) ==
    /\ req[r].at = stage /\ Len(req[r].todo) <= 1
    /\ \A l \in Wanted(r) : Blockers(r, l) = {}

To(r, stage, locks) == [req[r] EXCEPT !.at = stage, !.todo = locks]

Goes(r, next) ==
    /\ req' = [req EXCEPT ![r] = next]
    /\ held' = [held EXCEPT ![r] = held[r] \cup Wanted(r)]

\* Mutant: a handler goes on after it has answered.
AnswersOn(r, answer) ==
    req' = [req EXCEPT ![r].answer = answer] /\ held' = [held EXCEPT ![r] = {}]

\* The transaction ends, by a commit or a rollback, and the handler answers.
Answer(r, answer) ==
    /\ req' = [req EXCEPT ![r] = [To(r, "done", <<>>) EXCEPT !.answer = answer]]
    /\ held' = [held EXCEPT ![r] = {}]

\* A transaction is rolled back and run once more.
Again(r, stage, locks) ==
    IF req[r].again THEN Answer(r, "error")
    ELSE /\ req' = [req EXCEPT ![r] = [To(r, stage, locks) EXCEPT !.again = TRUE]]
         /\ held' = [held EXCEPT ![r] = {}]

Answered(r, answer) == req[r].at = "done" /\ req[r].answer = answer

\* One of several locks that a statement, or several, take in turn.
Take(r) ==
    /\ Len(req[r].todo) > 1 /\ Blockers(r, Head(req[r].todo)) = {}
    /\ req' = [req EXCEPT ![r].todo = Tail(@)]
    /\ held' = [held EXCEPT ![r] = @ \cup {Head(req[r].todo)}]

\* Every request in S waits for a lock of another one in S.
Deadlocked(S) ==
    \A r \in S : req[r].todo # <<>> /\ Blockers(r, Head(req[r].todo)) \cap S # {}

Cycle(S) == Deadlocked(S) /\ \A T \in (SUBSET S) \ {{}, S} : ~Deadlocked(T)

InCycle(r) == \E S \in SUBSET Reqs : r \in S /\ Cycle(S)

\* Postgres ends one transaction of a cycle of waits.
Victim(r) == InCycle(r) /\ Answer(r, "error")

Finished == \A r \in Reqs : req[r].at = "done"

=============================================================================
