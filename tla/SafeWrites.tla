----------------------------- MODULE SafeWrites -----------------------------
(***************************************************************************)
(* Writes that may be retried: the idempotency records of                  *)
(* idempotency.ts around the game ban routes of routes/bans.ts, whose      *)
(* If-Match names a moderation version (versions.ts).                      *)
(*                                                                         *)
(* Each write is a ban or a lift of one person, with its idempotency key   *)
(* and, when it is conditional, the version it names.  Its client sends    *)
(* it again, at any time, until it has a final answer, so that several     *)
(* requests for one write may run at once, in any server processes.        *)
(* A request reads a record less than IDEMPOTENCY_ABANDON_MS after it      *)
(* arrived.                                                                *)
(*                                                                         *)
(*   version, ban   the person's moderation version; the version at which  *)
(*                  the ban row was created, or 0                          *)
(*   applied        how often each write changed the person                *)
(*   record         of each key: None, or whose write claimed it, which    *)
(*                  claim (createdAt), its state and answer, and whether   *)
(*                  it is too old for its state                            *)
(*   reqs           the requests the server handles                        *)
(*   outcome        the final answer each client has, or "none"            *)
(*   lifted         the person was seen without a ban since the write was  *)
(*                  first sent                                             *)
(*   faults         failures so far                                        *)
(***************************************************************************)
EXTENDS Naturals, FiniteSets

CONSTANTS
    Writes, Keys, None,
    Kind,       \* of each write: "ban" or "lift"
    KeyOf,      \* its Idempotency-Key
    IfMatch,    \* the version it names, or None
    Start,      \* the moderation version at first; above 0, the person is banned
    Reqs,       \* bound: requests the server handles at once
    WriteOf,    \* the write each of them carries
    Faults,     \* kinds of failure that happen
    MaxFaults   \* bound: failures in a behaviour

ASSUME SafeWritesAssumption ==
    /\ Kind \in [Writes -> {"ban", "lift"}] /\ KeyOf \in [Writes -> Keys]
    /\ IfMatch \in [Writes -> Nat \cup {None}] /\ WriteOf \in [Reqs -> Writes]
    /\ Start \in Nat /\ MaxFaults \in Nat
    /\ IsFiniteSet(Keys) /\ IsFiniteSet(Reqs)

VARIABLES version, ban, applied, record, reqs, outcome, lifted, faults

personVars == <<version, ban, applied, lifted>>
vars == <<personVars, record, reqs, outcome, faults>>

Final == {"ok", "stale", "not_active", "reused"}
Answers == Final \cup {"busy", "error"}

Claims == 0 .. Cardinality(Keys) + Cardinality(Reqs)

Record == [write : Writes, claim : Claims, state : {"in_progress", "completed"},
           answer : Answers \cup {"none"}, old : BOOLEAN]

Phases == {"idle", "insert", "read", "take", "run", "lift", "store", "release"}

ASSUME NoneAssumption == None \notin Record

\* claim is the one the request made, or read.
Request == [phase : Phases, tries : 0 .. 2, claim : Claims,
            seen : {"none", "in_progress", "completed"}, row : Nat,
            answer : Answers \cup {"none"}]

Idle == [phase |-> "idle", tries |-> 0, claim |-> 0, seen |-> "none", row |-> 0,
         answer |-> "none"]

Init ==
    /\ version = Start /\ ban = Start
    /\ applied = [w \in Writes |-> 0]
    /\ record = [k \in Keys |-> None]
    /\ reqs = [r \in Reqs |-> Idle]
    /\ outcome = [w \in Writes |-> "unsent"]
    /\ lifted = [w \in Writes |-> FALSE]
    /\ faults = 0

Fault(kind) == kind \in Faults /\ faults < MaxFaults /\ faults' = faults + 1

In(r, phase) == reqs[r].phase = phase

Become(r, q) == reqs' = [reqs EXCEPT ![r] = q]

To(r, phase) == [reqs[r] EXCEPT !.phase = phase]

Key(r) == KeyOf[WriteOf[r]]

Keep(k, rec) == record' = [record EXCEPT ![k] = rec]

Holding(r) == reqs[r].phase \in {"run", "lift", "store", "release"}

\* The record is the one r claimed, and not taken over.
Mine(r) ==
    LET rec == record[Key(r)] IN
    rec # None /\ rec.claim = reqs[r].claim /\ rec.state = "in_progress"

UsedClaims ==
    {record[k].claim : k \in {k \in Keys : record[k] # None}} \cup {reqs[r].claim : r \in Reqs}

\* A time at which none of the claims in sight was made.
NewClaim == CHOOSE c \in Claims : c \notin UsedClaims

-----------------------------------------------------------------------------
(* The client                                                              *)

\* The first attempt, or another one after an error, a timeout or a busy answer.
Send(r) ==
    LET w == WriteOf[r] IN
    /\ In(r, "idle") /\ outcome[w] \in {"unsent", "waiting"}
    /\ Become(r, To(r, "insert"))
    /\ outcome' = [outcome EXCEPT ![w] = "waiting"]
    /\ lifted' = [lifted EXCEPT ![w] = lifted[w] \/ ban = 0]
    /\ UNCHANGED <<version, ban, applied, record, faults>>

Takes(w, answer) ==
    IF answer \in Final /\ outcome[w] = "waiting"
    THEN outcome' = [outcome EXCEPT ![w] = answer]
    ELSE UNCHANGED outcome

\* The answer goes out, and may be lost.
Answer(r, answer) ==
    /\ Become(r, Idle)
    /\ \/ Takes(WriteOf[r], answer) /\ UNCHANGED faults
       \/ Fault("lost") /\ UNCHANGED outcome

-----------------------------------------------------------------------------
(* claim                                                                   *)

Claimed(r) ==
    /\ Keep(Key(r), [write |-> WriteOf[r], claim |-> NewClaim, state |-> "in_progress",
                     answer |-> "none", old |-> FALSE])
    /\ Become(r, [Idle EXCEPT !.phase = "run", !.claim = NewClaim])
    /\ UNCHANGED <<outcome, faults>>

NextTry(r) ==
    IF reqs[r].tries < 2
    THEN /\ Become(r, [Idle EXCEPT !.phase = "insert", !.tries = reqs[r].tries + 1])
         /\ UNCHANGED <<outcome, faults>>
    ELSE Answer(r, "busy")

Insert(r) ==
    /\ In(r, "insert")
    /\ IF record[Key(r)] = None THEN Claimed(r)
       ELSE Become(r, To(r, "read")) /\ UNCHANGED <<record, outcome, faults>>
    /\ UNCHANGED personVars

\* Mutant of Read: the fingerprint is not compared.
ReadAnyFingerprint(r) ==
    /\ In(r, "read")
    /\ LET rec == record[Key(r)] IN
       IF rec = None THEN NextTry(r)
       ELSE IF rec.old
       THEN /\ Become(r, [To(r, "take") EXCEPT !.claim = rec.claim, !.seen = rec.state])
            /\ UNCHANGED <<outcome, faults>>
       ELSE IF rec.state = "in_progress" THEN Answer(r, "busy")
       ELSE Answer(r, rec.answer)
    /\ UNCHANGED <<personVars, record>>

\* Mutant of Read: an abandoned claim still answers "in progress".
ReadNeverAbandons(r) ==
    /\ In(r, "read")
    /\ LET rec == record[Key(r)] IN
       IF rec = None THEN NextTry(r)
       ELSE IF rec.write # WriteOf[r] THEN Answer(r, "reused")
       ELSE IF rec.state = "in_progress" THEN Answer(r, "busy")
       ELSE IF rec.old
       THEN /\ Become(r, [To(r, "take") EXCEPT !.claim = rec.claim, !.seen = rec.state])
            /\ UNCHANGED <<outcome, faults>>
       ELSE Answer(r, rec.answer)
    /\ UNCHANGED <<personVars, record>>

Read(r) ==
    /\ In(r, "read")
    /\ LET rec == record[Key(r)] IN
       IF rec = None THEN NextTry(r)
       ELSE IF rec.old
       THEN /\ Become(r, [To(r, "take") EXCEPT !.claim = rec.claim, !.seen = rec.state])
            /\ UNCHANGED <<outcome, faults>>
       ELSE IF rec.write # WriteOf[r] THEN Answer(r, "reused")
       ELSE IF rec.state = "in_progress" THEN Answer(r, "busy")
       ELSE Answer(r, rec.answer)
    /\ UNCHANGED <<personVars, record>>

\* Mutant of IsSeen: only the state is compared.
IsSeenState(rec, q) == rec # None /\ rec.state = q.seen

IsSeen(rec, q) == rec # None /\ rec.claim = q.claim /\ rec.state = q.seen

\* The old record is replaced, if it is still the one that was read.
Take(r) ==
    /\ In(r, "take")
    /\ IF IsSeen(record[Key(r)], reqs[r]) THEN Claimed(r)
       ELSE NextTry(r) /\ UNCHANGED record
    /\ UNCHANGED personVars

-----------------------------------------------------------------------------
(* The routes                                                              *)

\* What the transaction answers, or the handler before it.
Decided(r, answer) ==
    /\ \/ Become(r, [To(r, "store") EXCEPT !.answer = answer]) /\ UNCHANGED faults
       \/ Fault("late") /\ Become(r, [To(r, "release") EXCEPT !.answer = "error"])
    /\ UNCHANGED <<record, outcome>>

\* Mutant of Matches: a version that was passed is taken too.
MatchesPassed(w) == IfMatch[w] = None \/ IfMatch[w] \in 0 .. version

Matches(w) == IfMatch[w] \in {None, version}

\* The transaction writes: the version rises and the ban row is row.
Apply(w, row) ==
    /\ version' = version + 1
    /\ ban' = row
    /\ applied' = [applied EXCEPT ![w] = applied[w] + 1]
    /\ lifted' = [v \in Writes |-> lifted[v] \/ (row = 0 /\ outcome[v] # "unsent")]

\* POST: the version is locked and compared, and the row made or updated.
Ban(r) ==
    LET w == WriteOf[r] IN
    /\ In(r, "run") /\ Kind[w] = "ban"
    /\ IF Matches(w)
       THEN Apply(w, IF ban = 0 THEN version + 1 ELSE ban) /\ Decided(r, "ok")
       ELSE Decided(r, "stale") /\ UNCHANGED personVars

\* DELETE looks for the row before its transaction.
FindBan(r) ==
    /\ In(r, "run") /\ Kind[WriteOf[r]] = "lift"
    /\ IF ban = 0 THEN Decided(r, "not_active")
       ELSE /\ Become(r, [To(r, "lift") EXCEPT !.row = ban])
            /\ UNCHANGED <<record, outcome, faults>>
    /\ UNCHANGED personVars

\* Mutant of Lift: the version is compared first, as for a ban.
LiftChecksFirst(r) ==
    LET w == WriteOf[r] IN
    /\ In(r, "lift")
    /\ IF ~ Matches(w) \/ ban # reqs[r].row THEN Decided(r, "not_active") /\ UNCHANGED personVars
       ELSE Apply(w, 0) /\ Decided(r, "ok")

\* Its transaction: the row that was found is deleted, then the version is
\* compared.
Lift(r) ==
    LET w == WriteOf[r] IN
    /\ In(r, "lift")
    /\ IF ban # reqs[r].row THEN Decided(r, "not_active") /\ UNCHANGED personVars
       ELSE IF ~ Matches(w) THEN Decided(r, "stale") /\ UNCHANGED personVars
       ELSE Apply(w, 0) /\ Decided(r, "ok")

\* The handler answers 5xx or throws, and its transaction rolls back.
HandlerFails(r) ==
    /\ reqs[r].phase \in {"run", "lift"} /\ Fault("error")
    /\ Become(r, [To(r, "release") EXCEPT !.answer = "error"])
    /\ UNCHANGED <<personVars, record, outcome>>

-----------------------------------------------------------------------------
(* The record after the handler                                            *)

Store(r) ==
    /\ In(r, "store")
    /\ IF Mine(r)
       THEN Keep(Key(r), [record[Key(r)] EXCEPT
                !.state = "completed", !.answer = reqs[r].answer, !.old = FALSE])
       ELSE UNCHANGED record
    /\ Answer(r, reqs[r].answer)
    /\ UNCHANGED personVars

ReleaseKey(r) ==
    /\ In(r, "release")
    /\ IF Mine(r) THEN Keep(Key(r), None) ELSE UNCHANGED record
    /\ Answer(r, "error")
    /\ UNCHANGED personVars

\* The statement fails, which is logged, and the answer goes out all the same.
RecordFails(r) ==
    /\ reqs[r].phase \in {"store", "release"} /\ Fault("record")
    /\ Become(r, Idle)
    /\ Takes(WriteOf[r], reqs[r].answer)
    /\ UNCHANGED <<personVars, record>>

-----------------------------------------------------------------------------
(* Processes and time                                                      *)

\* The process that handles r dies.
Crash(r) ==
    /\ ~ In(r, "idle") /\ Fault("crash")
    /\ Become(r, Idle)
    /\ UNCHANGED <<personVars, record, outcome>>

Orphan(k) == \A r \in Reqs : ~ (Holding(r) /\ Key(r) = k /\ Mine(r))

\* An in-progress record whose request is gone, or takes too long, becomes
\* abandoned; the retention of a completed one ends while its client still
\* retries.
GrowOld(k) ==
    /\ record[k] # None /\ ~ record[k].old
    /\ \/ record[k].state = "in_progress" /\ Orphan(k) /\ UNCHANGED faults
       \/ record[k].state = "in_progress" /\ ~ Orphan(k) /\ Fault("slow")
       \/ record[k].state = "completed" /\ Fault("expire")
    /\ Keep(k, [record[k] EXCEPT !.old = TRUE])
    /\ UNCHANGED <<personVars, reqs, outcome>>

Sweep(k) ==
    /\ record[k] # None /\ record[k].old /\ Orphan(k)
    /\ Keep(k, None)
    /\ UNCHANGED <<personVars, reqs, outcome, faults>>

-----------------------------------------------------------------------------
Handle(r) == Ban(r) \/ FindBan(r) \/ Lift(r)

Progress(r) == Insert(r) \/ Read(r) \/ Take(r) \/ Handle(r) \/ Store(r) \/ ReleaseKey(r)

Next ==
    \/ \E r \in Reqs : Send(r) \/ Progress(r) \/ HandlerFails(r) \/ RecordFails(r) \/ Crash(r)
    \/ \E k \in Keys : GrowOld(k) \/ Sweep(k)

Spec == Init /\ [][Next]_vars

\* A client without a final answer tries again, requests get on, and time
\* passes.
Fairness ==
    /\ \A r \in Reqs : WF_vars(Send(r) \/ Progress(r))
    /\ \A k \in Keys : WF_vars(GrowOld(k))

FairSpec == Spec /\ Fairness

-----------------------------------------------------------------------------
TypeOK ==
    /\ version \in Nat /\ ban \in 0 .. version
    /\ applied \in [Writes -> Nat]
    /\ record \in [Keys -> Record \cup {None}]
    /\ reqs \in [Reqs -> Request]
    /\ outcome \in [Writes -> Final \cup {"unsent", "waiting"}]
    /\ lifted \in [Writes -> BOOLEAN]
    /\ faults \in 0 .. MaxFaults

\* A write that names a version changes the person once at most, whatever
\* crashes, expires or is sent again ("the server answers 412 instead of
\* overwriting newer state").
ConditionalOnce == \A w \in Writes : IfMatch[w] # None => applied[w] <= 1

\* Any other write changes the person once more for each failure at most.
RunsBounded == \A w \in Writes : applied[w] <= 1 + faults

\* A client is told that its write was made only if it was, and without a
\* failure it is told nothing else of a write that was made.
HonestAnswers ==
    \A w \in Writes :
        /\ outcome[w] = "ok" => applied[w] > 0
        /\ outcome[w] \in {"stale", "not_active", "reused"} /\ faults = 0 => applied[w] = 0

\* A lift that is answered "done" or "nothing to lift" found the person
\* without a ban at some time since it was first sent (the changeset
\* safe-writes.md: "a replayed lift can treat it as success").
LiftDone ==
    \A w \in Writes :
        Kind[w] = "lift" /\ outcome[w] \in {"ok", "not_active"} => lifted[w]

\* A client that keeps trying gets a final answer.
Answered == \A w \in Writes : outcome[w] = "waiting" ~> outcome[w] \in Final

=============================================================================
