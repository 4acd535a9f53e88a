-------------------------- MODULE SafeWritesProofs --------------------------
(* Theorems about SafeWrites. *)
EXTENDS SafeWrites, FiniteSetTheorems, TLAPS

USE SafeWritesAssumption

(***************************************************************************)
(* Why it holds.  A claim is made at a time of its own, so that of all     *)
(* requests only the one that made it can complete or release the record   *)
(* (Distinct, Owned).  An answer is true of its write when the handler     *)
(* gives it, stays true, and reaches only records and clients of that      *)
(* write (Decided, Kept, Told).  As long as nothing has failed, every      *)
(* claim has its request, no record is old, and a write that was made has  *)
(* its record to show for it (Clean).  A write is run again only when its  *)
(* record can be claimed again, and only a failure reopens it: the times a *)
(* write was made and the requests that may yet make it are one more than  *)
(* the failures at most, and as many only while its record is shut         *)
(* (Budget, and Looked for the records that are taken over).               *)
(***************************************************************************)

Distinct ==
    \A r, s \in Reqs : Holding(r) /\ Holding(s) /\ r # s => reqs[r].claim # reqs[s].claim

Owned ==
    \A r \in Reqs :
        Holding(r) /\ record[Key(r)] # None /\ record[Key(r)].claim = reqs[r].claim
            => record[Key(r)].write = WriteOf[r]

Sent == \A r \in Reqs : ~ In(r, "idle") => outcome[WriteOf[r]] # "unsent"

Cleared == ban = 0 => \A w \in Writes : outcome[w] # "unsent" => lifted[w]

Found ==
    \A r \in Reqs : In(r, "lift") => ban = reqs[r].row \/ lifted[WriteOf[r]]

Honest(w, answer) ==
    /\ answer = "ok" => applied[w] > 0
    /\ Kind[w] = "lift" /\ answer \in {"ok", "not_active"} => lifted[w]

Told == \A w \in Writes : Honest(w, outcome[w])

Kept ==
    \A k \in Keys :
        record[k] # None /\ record[k].state = "completed"
            => Honest(record[k].write, record[k].answer)

Settled ==
    \A r \in Reqs :
        /\ In(r, "store") => reqs[r].answer \in Final /\ Honest(WriteOf[r], reqs[r].answer)
        /\ In(r, "release") => reqs[r].answer = "error"

Passed ==
    \A w \in Writes :
        IfMatch[w] # None /\ applied[w] > 0 => applied[w] = 1 /\ version > IfMatch[w]

\* A record that nobody can claim as long as nothing fails.
Shut(k) ==
    /\ record[k] # None /\ ~ record[k].old
    /\ record[k].state = "in_progress" => ~ Orphan(k)

\* The requests that may yet make the write w, and all that it may come to.
Running(w) == {r \in Reqs : WriteOf[r] = w /\ reqs[r].phase \in {"run", "lift"}}

Runs(w) == applied[w] + Cardinality(Running(w))

Budget ==
    /\ \A w \in Writes : Runs(w) <= 1 + faults /\ (Runs(w) = 1 + faults => Shut(KeyOf[w]))
    /\ \A r \in Reqs : In(r, "release") /\ Mine(r) =>
          \A w \in Writes : KeyOf[w] = Key(r) => Runs(w) <= faults

Looked ==
    \A r \in Reqs :
        In(r, "take") /\ record[Key(r)] # None /\ record[Key(r)].claim = reqs[r].claim =>
            /\ reqs[r].seen = "completed" => record[Key(r)].state = "completed"
            /\ record[Key(r)].state = reqs[r].seen => record[Key(r)].old

-----------------------------------------------------------------------------
(* Claims                                                                  *)

\* There is always a time at which no claim in sight was made: claims can
\* be told apart.
LEMMA NewClaimFresh ==
    ASSUME TypeOK
    PROVE  NewClaim \in Claims /\ NewClaim \notin UsedClaims
<1> DEFINE K == {k \in Keys : record[k] # None}
           A == {record[k].claim : k \in K}
           B == {reqs[r].claim : r \in Reqs}
           f == [k \in K |-> record[k].claim]
           g == [r \in Reqs |-> reqs[r].claim]
<1>1. IsFiniteSet(K) /\ Cardinality(K) <= Cardinality(Keys)
  BY FS_Subset
<1>2. IsFiniteSet(A) /\ Cardinality(A) <= Cardinality(K)
  <2>1. f \in Surjection(K, A)
    BY DEF Surjection
  <2> QED  BY <2>1, <1>1, FS_Surjection
<1>3. IsFiniteSet(B) /\ Cardinality(B) <= Cardinality(Reqs)
  <2>1. g \in Surjection(Reqs, B)
    BY DEF Surjection
  <2> QED  BY <2>1, FS_Surjection
<1>4. /\ Cardinality(Keys) \in Nat /\ Cardinality(Reqs) \in Nat /\ Cardinality(K) \in Nat
      /\ Cardinality(A) \in Nat /\ Cardinality(B) \in Nat
  BY <1>1, <1>2, <1>3, FS_CardinalityType
<1>5. IsFiniteSet(UsedClaims) /\ Cardinality(UsedClaims) <= Cardinality(Keys) + Cardinality(Reqs)
  <2>1. UsedClaims = A \cup B
    BY DEF UsedClaims
  <2>2. IsFiniteSet(A \cup B) /\ Cardinality(A \cup B) = Cardinality(A) + Cardinality(B) - Cardinality(A \cap B)
    BY <1>2, <1>3, FS_Union
  <2>3. Cardinality(A \cap B) \in Nat
    <3>1. IsFiniteSet(A \cap B)
      BY <1>2, FS_Intersection
    <3> QED  BY <3>1, FS_CardinalityType
  <2> QED  BY <2>1, <2>2, <2>3, <1>1, <1>2, <1>3, <1>4
<1>6. Cardinality(Claims) = Cardinality(Keys) + Cardinality(Reqs) + 1
  BY <1>4, FS_Interval DEF Claims
<1>7. ~ (Claims \subseteq UsedClaims)
  <2>1. ASSUME Claims \subseteq UsedClaims PROVE FALSE
    <3>1. Cardinality(Claims) <= Cardinality(UsedClaims)
      BY <2>1, <1>5, FS_Subset
    <3> QED  BY <3>1, <1>4, <1>5, <1>6, FS_CardinalityType
  <2> QED  BY <2>1
<1> QED  BY <1>7 DEF NewClaim

-----------------------------------------------------------------------------
(* Types                                                                   *)

\* Idle, and a request in another phase, are requests.
LEMMA RequestTypes ==
    /\ Idle \in Request
    /\ TypeOK => \A r \in Reqs, phase \in Phases : To(r, phase) \in Request
<1>1. Idle \in Request
  <2>1. Cardinality(Keys) \in Nat /\ Cardinality(Reqs) \in Nat
    BY FS_CardinalityType
  <2> QED  BY <2>1 DEF Idle, Request, Phases, Claims
<1> QED  BY <1>1 DEF TypeOK, To, Request

\* A request that goes to another phase keeps the rest.
LEMMA ToKeeps ==
    ASSUME TypeOK, NEW r \in Reqs, NEW phase \in Phases
    PROVE  /\ To(r, phase) \in Request /\ To(r, phase).phase = phase
           /\ To(r, phase).claim = reqs[r].claim /\ To(r, phase).row = reqs[r].row
           /\ To(r, phase).answer = reqs[r].answer
<1>1. reqs[r] \in Request
  BY DEF TypeOK
<1> QED  BY <1>1, RequestTypes DEF To, Request

\* An answer leaves requests, outcomes and failures of their types.
LEMMA AnswerTypes ==
    ASSUME TypeOK, NEW r \in Reqs, NEW answer \in Answers, Answer(r, answer)
    PROVE  /\ reqs' \in [Reqs -> Request]
           /\ outcome' \in [Writes -> Final \cup {"unsent", "waiting"}]
           /\ faults' \in 0 .. MaxFaults
  BY RequestTypes DEF TypeOK, Answer, Takes, Become, Fault

\* A claim is a record, and its request a request.
LEMMA ClaimedTypes ==
    ASSUME TypeOK, NEW r \in Reqs, Claimed(r)
    PROVE  /\ reqs' \in [Reqs -> Request] /\ record' \in [Keys -> Record \cup {None}]
           /\ UNCHANGED <<outcome, faults>>
<1>1. [Idle EXCEPT !.phase = "run", !.claim = NewClaim] \in Request
  BY RequestTypes, NewClaimFresh DEF Request, Phases
<1>2. Key(r) \in Keys
  BY DEF Key
<1>3. [write |-> WriteOf[r], claim |-> NewClaim, state |-> "in_progress",
       answer |-> "none", old |-> FALSE] \in Record
  BY NewClaimFresh DEF Record
<1> QED  BY <1>1, <1>2, <1>3 DEF TypeOK, Claimed, Keep, Become

\* Another turn of the claim loop leaves everything of its type.
LEMMA NextTryTypes ==
    ASSUME TypeOK, NEW r \in Reqs, NextTry(r)
    PROVE  /\ reqs' \in [Reqs -> Request]
           /\ outcome' \in [Writes -> Final \cup {"unsent", "waiting"}]
           /\ faults' \in 0 .. MaxFaults
<1>1. CASE reqs[r].tries < 2
  <2>1. [Idle EXCEPT !.phase = "insert", !.tries = reqs[r].tries + 1] \in Request
    <3>1. reqs[r].tries \in 0 .. 2
      BY DEF TypeOK, Request
    <3>2. reqs[r].tries + 1 \in 0 .. 2
      BY <1>1, <3>1
    <3> QED  BY <3>2, RequestTypes DEF Request, Phases
  <2> QED  BY <1>1, <2>1 DEF NextTry, TypeOK, Become
<1>2. CASE ~ (reqs[r].tries < 2)
  BY <1>2, AnswerTypes DEF NextTry, Answers
<1> QED  BY <1>1, <1>2

\* What the handler decides is an answer.
LEMMA DecidedTypes ==
    ASSUME TypeOK, NEW r \in Reqs, NEW answer \in Final, Decided(r, answer)
    PROVE  /\ reqs' \in [Reqs -> Request] /\ faults' \in 0 .. MaxFaults
           /\ UNCHANGED <<record, outcome>>
<1>1. [To(r, "store") EXCEPT !.answer = answer] \in Request
  <2>1. To(r, "store") \in Request
    BY RequestTypes DEF Phases
  <2> QED  BY <2>1 DEF Request, Answers
<1>2. [To(r, "release") EXCEPT !.answer = "error"] \in Request
  <2>1. To(r, "release") \in Request
    BY RequestTypes DEF Phases
  <2> QED  BY <2>1 DEF Request, Answers
<1> QED  BY <1>1, <1>2 DEF TypeOK, Decided, Become, Fault

\* A ban row is never from a version to come.
LEMMA ApplyTypes ==
    ASSUME TypeOK, NEW w \in Writes, NEW row \in 0 .. version + 1, Apply(w, row)
    PROVE  /\ version' \in Nat /\ ban' \in 0 .. version'
           /\ applied' \in [Writes -> Nat] /\ lifted' \in [Writes -> BOOLEAN]
<1>1. lifted' \in [Writes -> BOOLEAN]
  BY DEF TypeOK, Apply
<1> QED  BY <1>1 DEF TypeOK, Apply

\* Every step keeps the types.
LEMMA TypeStep ==
    ASSUME TypeOK, [Next]_vars
    PROVE  TypeOK'
<1> USE DEF TypeOK
<1>1. ASSUME NEW r \in Reqs, Send(r) PROVE TypeOK'
  <2>1. To(r, "insert") \in Request
    BY RequestTypes DEF Phases
  <2>2. lifted' \in [Writes -> BOOLEAN]
    BY <1>1 DEF Send
  <2> QED  BY <1>1, <2>1, <2>2 DEF Send, Become
<1>2. ASSUME NEW r \in Reqs, Insert(r) PROVE TypeOK'
  <2>1. To(r, "read") \in Request
    BY RequestTypes DEF Phases
  <2> QED  BY <1>2, <2>1, ClaimedTypes DEF Insert, Become, personVars
<1>3. ASSUME NEW r \in Reqs, Read(r) PROVE TypeOK'
  <2>1. record[Key(r)] \in Record \cup {None}
    BY DEF Key
  <2>2. CASE record[Key(r)] = None
    BY <1>3, <2>2, NextTryTypes DEF Read, personVars
  <2>3. CASE record[Key(r)] # None /\ record[Key(r)].old
    <3>1. [To(r, "take") EXCEPT !.claim = record[Key(r)].claim, !.seen = record[Key(r)].state] \in Request
      <4>1. To(r, "take") \in Request
        BY RequestTypes DEF Phases
      <4>2. record[Key(r)].claim \in Claims /\ record[Key(r)].state \in {"in_progress", "completed"}
        BY <2>1, <2>3 DEF Record
      <4> QED  BY <4>1, <4>2 DEF Request
    <3> QED  BY <1>3, <2>3, <3>1 DEF Read, Become, personVars
  <2>4. CASE record[Key(r)] # None /\ ~ record[Key(r)].old
    <3>1. PICK a \in Answers \cup {"none"} : Answer(r, a)
      BY <1>3, <2>1, <2>4 DEF Read, Record, Answers, Final
    <3>2. CASE a = "none"
      BY <1>3, <3>1, <3>2, RequestTypes DEF Read, Answer, Takes, Become, Fault, Final, personVars
    <3>3. CASE a \in Answers
      BY <1>3, <2>4, <3>1, <3>3, AnswerTypes DEF Read, personVars
    <3> QED  BY <3>1, <3>2, <3>3
  <2> QED  BY <2>2, <2>3, <2>4
<1>4. ASSUME NEW r \in Reqs, Take(r) PROVE TypeOK'
  BY <1>4, ClaimedTypes, NextTryTypes DEF Take, personVars
<1>5. ASSUME NEW r \in Reqs, Ban(r) PROVE TypeOK'
  <2>1. CASE Matches(WriteOf[r])
    <3>1. Apply(WriteOf[r], IF ban = 0 THEN version + 1 ELSE ban) /\ Decided(r, "ok")
      BY <1>5, <2>1 DEF Ban
    <3>2. (IF ban = 0 THEN version + 1 ELSE ban) \in 0 .. version + 1
      OBVIOUS
    <3> QED  BY <3>1, <3>2, ApplyTypes, DecidedTypes DEF Final
  <2>2. CASE ~ Matches(WriteOf[r])
    BY <1>5, <2>2, DecidedTypes DEF Ban, Final, personVars
  <2> QED  BY <2>1, <2>2
<1>6. ASSUME NEW r \in Reqs, FindBan(r) PROVE TypeOK'
  <2>1. [To(r, "lift") EXCEPT !.row = ban] \in Request
    <3>1. To(r, "lift") \in Request
      BY RequestTypes DEF Phases
    <3> QED  BY <3>1 DEF Request
  <2> QED  BY <1>6, <2>1, DecidedTypes DEF FindBan, Become, Final, personVars
<1>7. ASSUME NEW r \in Reqs, Lift(r) PROVE TypeOK'
  <2>1. CASE ban = reqs[r].row /\ Matches(WriteOf[r])
    BY <1>7, <2>1, ApplyTypes, DecidedTypes DEF Lift, Final
  <2>2. CASE ~ (ban = reqs[r].row /\ Matches(WriteOf[r]))
    BY <1>7, <2>2, DecidedTypes DEF Lift, Final, personVars
  <2> QED  BY <2>1, <2>2
<1>8. ASSUME NEW r \in Reqs, Store(r) PROVE TypeOK'
  <2>1. record' \in [Keys -> Record \cup {None}]
    <3>1. CASE Mine(r)
      <4>1. record[Key(r)] \in Record /\ Key(r) \in Keys
        BY <3>1 DEF Mine, Key
      <4>2. [record[Key(r)] EXCEPT !.state = "completed", !.answer = reqs[r].answer, !.old = FALSE] \in Record
        BY <4>1 DEF Record, Request
      <4> QED  BY <1>8, <3>1, <4>1, <4>2 DEF Store, Keep
    <3>2. CASE ~ Mine(r)
      BY <1>8, <3>2 DEF Store
    <3> QED  BY <3>1, <3>2
  <2>2. Answer(r, reqs[r].answer) /\ UNCHANGED personVars
    BY <1>8 DEF Store
  <2> QED  BY <2>1, <2>2, RequestTypes DEF Answer, Takes, Become, Fault, personVars
<1>9. ASSUME NEW r \in Reqs, ReleaseKey(r) PROVE TypeOK'
  BY <1>9, AnswerTypes DEF ReleaseKey, Keep, Key, Answers, personVars
<1>10. ASSUME NEW r \in Reqs, HandlerFails(r) PROVE TypeOK'
  <2>1. [To(r, "release") EXCEPT !.answer = "error"] \in Request
    <3>1. To(r, "release") \in Request
      BY RequestTypes DEF Phases
    <3> QED  BY <3>1 DEF Request, Answers
  <2> QED  BY <1>10, <2>1 DEF HandlerFails, Become, Fault, personVars
<1>11. ASSUME NEW r \in Reqs, RecordFails(r) PROVE TypeOK'
  BY <1>11, RequestTypes DEF RecordFails, Become, Takes, Fault, personVars
<1>12. ASSUME NEW r \in Reqs, Crash(r) PROVE TypeOK'
  BY <1>12, RequestTypes DEF Crash, Become, Fault, personVars
<1>13. ASSUME NEW k \in Keys, GrowOld(k) PROVE TypeOK'
  <2>1. [record[k] EXCEPT !.old = TRUE] \in Record
    <3>1. record[k] \in Record
      BY <1>13 DEF GrowOld
    <3> QED  BY <3>1 DEF Record
  <2> QED  BY <1>13, <2>1 DEF GrowOld, Keep, Fault, personVars
<1>14. ASSUME NEW k \in Keys, Sweep(k) PROVE TypeOK'
  BY <1>14 DEF Sweep, Keep, personVars
<1>15. CASE UNCHANGED vars
  BY <1>15 DEF vars, personVars
<1> QED
  BY <1>1, <1>2, <1>3, <1>4, <1>5, <1>6, <1>7, <1>8, <1>9, <1>10, <1>11, <1>12, <1>13, <1>14, <1>15
  DEF Next, Progress, Handle

-----------------------------------------------------------------------------
(* Who holds a claim                                                       *)

\* A step in which nobody makes a claim: claims and the writes of records
\* stay or go.
Quiet ==
    /\ \A r \in Reqs : Holding(r)' => Holding(r) /\ reqs'[r].claim = reqs[r].claim
    /\ \A k \in Keys : record'[k] # None =>
          /\ record[k] # None
          /\ record'[k].claim = record[k].claim /\ record'[k].write = record[k].write

\* Every step is quiet, or claims a key for one request.
LEMMA QuietOrClaim ==
    ASSUME TypeOK, [Next]_vars
    PROVE  Quiet \/ \E r \in Reqs : Claimed(r)
<1> USE DEF TypeOK
<1> SUFFICES ASSUME ~ \E r \in Reqs : Claimed(r) PROVE Quiet
  OBVIOUS
<1>a. \A r \in Reqs : Key(r) \in Keys
  BY DEF Key
<1>b. ASSUME NEW r \in Reqs, NEW a, Answer(r, a), UNCHANGED record PROVE Quiet
  BY <1>b DEF Quiet, Answer, Become, Idle, Holding
<1>c. ASSUME NEW r \in Reqs, NextTry(r), UNCHANGED record PROVE Quiet
  <2>1. CASE reqs[r].tries < 2
    <3>1. reqs' = [reqs EXCEPT ![r] = [Idle EXCEPT !.phase = "insert", !.tries = reqs[r].tries + 1]]
      BY <1>c, <2>1 DEF NextTry, Become
    <3>2. \A s \in Reqs : Holding(s)' => s # r /\ reqs'[s] = reqs[s]
      BY <3>1 DEF Idle, Holding
    <3> QED  BY <1>c, <3>2 DEF Quiet, Holding
  <2>2. CASE ~ (reqs[r].tries < 2)
    BY <1>b, <1>c, <2>2 DEF NextTry
  <2> QED  BY <2>1, <2>2
<1>d. ASSUME NEW r \in Reqs, NEW a, Decided(r, a), Holding(r) PROVE Quiet
  <2>1. /\ reqs'[r].claim = reqs[r].claim /\ UNCHANGED record
        /\ \A s \in Reqs \ {r} : reqs'[s] = reqs[s]
    <3>1. \A phase \in {"store", "release"} :
             To(r, phase) \in Request /\ To(r, phase).claim = reqs[r].claim
      BY ToKeeps DEF Phases
    <3> QED  BY <1>d, <3>1 DEF Decided, Become, Request
  <2> QED  BY <1>d, <2>1 DEF Quiet, Holding
<1>1. ASSUME NEW r \in Reqs, Send(r) PROVE Quiet
  BY <1>1 DEF Send, Quiet, Become, To, Holding, Request
<1>2. ASSUME NEW r \in Reqs, Insert(r) PROVE Quiet
  BY <1>2 DEF Insert, Quiet, Become, To, Holding, Request
<1>3. ASSUME NEW r \in Reqs, Read(r) PROVE Quiet
  <2>1. CASE reqs' = [reqs EXCEPT ![r] = [To(r, "take") EXCEPT !.claim = record[Key(r)].claim,
                                                          !.seen = record[Key(r)].state]]
    BY <1>3, <2>1 DEF Read, Quiet, To, Holding, Request
  <2>2. CASE NextTry(r)
    BY <1>3, <1>c, <2>2 DEF Read
  <2>3. CASE \E a : Answer(r, a)
    BY <1>3, <1>b, <2>3 DEF Read
  <2> QED  BY <1>3, <2>1, <2>2, <2>3 DEF Read, Become
<1>4. ASSUME NEW r \in Reqs, Take(r) PROVE Quiet
  BY <1>4, <1>c DEF Take
<1>5. ASSUME NEW r \in Reqs, Ban(r) PROVE Quiet
  BY <1>5, <1>d DEF Ban, In, Holding
<1>6. ASSUME NEW r \in Reqs, FindBan(r) PROVE Quiet
  <2>1. CASE ban = 0
    BY <1>6, <1>d, <2>1 DEF FindBan, In, Holding
  <2>2. CASE ban # 0
    <3>1. To(r, "lift") \in Request /\ To(r, "lift").claim = reqs[r].claim
      BY ToKeeps DEF Phases
    <3>2. /\ reqs'[r].claim = reqs[r].claim /\ UNCHANGED record /\ Holding(r)
          /\ \A s \in Reqs \ {r} : reqs'[s] = reqs[s]
      BY <1>6, <2>2, <3>1 DEF FindBan, In, Holding, Become, Request
    <3> QED  BY <3>2 DEF Quiet, Holding
  <2> QED  BY <2>1, <2>2
<1>7. ASSUME NEW r \in Reqs, Lift(r) PROVE Quiet
  BY <1>7, <1>d DEF Lift, In, Holding
<1>8. ASSUME NEW r \in Reqs, Store(r) PROVE Quiet
  <2>1. \A s \in Reqs : Holding(s)' => Holding(s) /\ reqs'[s].claim = reqs[s].claim
    BY <1>8 DEF Store, Answer, Become, Idle, Holding
  <2>2. CASE ~ Mine(r)
    BY <1>8, <2>1, <2>2 DEF Store, Quiet
  <2>3. CASE Mine(r)
    <3>1. record[Key(r)] \in Record /\ record[Key(r)] # None
      BY <1>a, <2>3 DEF Mine
    <3>2. /\ record'[Key(r)].claim = record[Key(r)].claim
          /\ record'[Key(r)].write = record[Key(r)].write
          /\ \A k \in Keys \ {Key(r)} : record'[k] = record[k]
      <4> DEFINE done == [record[Key(r)] EXCEPT !.state = "completed",
                              !.answer = reqs[r].answer, !.old = FALSE]
      <4>1. done.claim = record[Key(r)].claim /\ done.write = record[Key(r)].write
        BY <3>1 DEF Record
      <4>2. record' = [record EXCEPT ![Key(r)] = done]
        BY <1>8, <2>3 DEF Store, Keep
      <4> HIDE DEF done
      <4> QED  BY <4>1, <4>2, <1>a
    <3> QED  BY <2>1, <3>1, <3>2 DEF Quiet
  <2> QED  BY <2>2, <2>3
<1>9. ASSUME NEW r \in Reqs, ReleaseKey(r) PROVE Quiet
  BY <1>9, <1>a DEF ReleaseKey, Answer, Quiet, Become, Idle, Holding, Keep, Mine
<1>10. ASSUME NEW r \in Reqs, HandlerFails(r) PROVE Quiet
  BY <1>10 DEF HandlerFails, Quiet, Become, To, Holding, Request
<1>11. ASSUME NEW r \in Reqs, RecordFails(r) PROVE Quiet
  BY <1>11 DEF RecordFails, Quiet, Become, Idle, Holding
<1>12. ASSUME NEW r \in Reqs, Crash(r) PROVE Quiet
  BY <1>12 DEF Crash, Quiet, Become, Idle, Holding
<1>13. ASSUME NEW k \in Keys, GrowOld(k) PROVE Quiet
  BY <1>13 DEF GrowOld, Quiet, Keep, Holding, Record
<1>14. ASSUME NEW k \in Keys, Sweep(k) PROVE Quiet
  BY <1>14 DEF Sweep, Quiet, Keep, Holding
<1>15. CASE UNCHANGED vars
  BY <1>15 DEF vars, Quiet, Holding
<1> QED
  BY <1>1, <1>2, <1>3, <1>4, <1>5, <1>6, <1>7, <1>8, <1>9, <1>10, <1>11, <1>12, <1>13, <1>14, <1>15
  DEF Next, Progress, Handle

\* A claim is made at a time that no other claim, held or recorded, has.
LEMMA ClaimsStep ==
    ASSUME TypeOK, Distinct, Owned, [Next]_vars
    PROVE  Distinct' /\ Owned'
<1>a. \A r \in Reqs : Key(r) \in Keys
  BY DEF Key
<1>1. CASE Quiet
  BY <1>1, <1>a DEF Quiet, Distinct, Owned, Key
<1>2. ASSUME NEW r \in Reqs, Claimed(r) PROVE Distinct' /\ Owned'
  <2>1. \A s \in Reqs : reqs[s].claim # NewClaim
    BY NewClaimFresh DEF UsedClaims
  <2>2. /\ reqs'[r].claim = NewClaim
        /\ \A s \in Reqs \ {r} : reqs'[s] = reqs[s]
    BY <1>2 DEF Claimed, Become, TypeOK, Idle
  <2>3. /\ record'[Key(r)].claim = NewClaim /\ record'[Key(r)].write = WriteOf[r]
        /\ \A k \in Keys \ {Key(r)} : record'[k] = record[k]
    BY <1>2, <1>a DEF Claimed, Keep, TypeOK
  <2>4. Distinct'
    BY <2>1, <2>2 DEF Distinct, Holding
  <2>5. Owned'
    BY <1>a, <2>1, <2>2, <2>3 DEF Owned, Holding, Key
  <2> QED  BY <2>4, <2>5
<1> QED  BY <1>1, <1>2, QuietOrClaim

-----------------------------------------------------------------------------
(* What is answered is true                                                *)

Truth == Sent /\ Cleared /\ Found /\ Told /\ Kept /\ Settled

\* What an answer says stays true while the person is not changed.
LEMMA AnswerTruth ==
    ASSUME TypeOK, Truth, UNCHANGED personVars, UNCHANGED record,
           NEW r \in Reqs, ~ In(r, "idle"), NEW a, Answer(r, a),
           a \in Final => Honest(WriteOf[r], a)
    PROVE  Truth'
<1>1. outcome' = outcome \/ (a \in Final /\ outcome' = [outcome EXCEPT ![WriteOf[r]] = a])
  BY DEF Answer, Takes
<1>2. reqs' = [reqs EXCEPT ![r] = Idle]
  BY DEF Answer, Become
<1> QED
  BY <1>1, <1>2 DEF Truth, TypeOK, Sent, Cleared, Found, Told, Kept, Settled, In, Idle, Honest, personVars, Final

\* The request goes on to another phase, with nothing else done.
LEMMA MoveTruth ==
    ASSUME TypeOK, Truth, UNCHANGED personVars, UNCHANGED outcome,
           NEW r \in Reqs, ~ In(r, "idle"), NEW q, reqs' = [reqs EXCEPT ![r] = q],
           q.phase # "store", q.phase = "lift" => q.row = ban,
           q.phase = "release" => q.answer = "error",
           \A k \in Keys : record'[k] # None /\ record'[k].state = "completed"
               => record[k] # None /\ record[k].state = "completed"
                  /\ record'[k].write = record[k].write /\ record'[k].answer = record[k].answer
    PROVE  Truth'
  BY DEF Truth, TypeOK, Sent, Cleared, Found, Told, Kept, Settled, In, Honest, personVars

\* The handler has its answer, which is true by now.
LEMMA DecidedTruth ==
    ASSUME TypeOK, Truth, NEW r \in Reqs, ~ In(r, "idle"), NEW a \in Final, Decided(r, a),
           \A w \in Writes : applied'[w] >= applied[w] /\ (lifted[w] => lifted'[w]),
           Cleared', ban' = ban \/ \A s \in Reqs : In(s, "lift") => ban' = reqs[s].row \/ lifted'[WriteOf[s]],
           applied' \in [Writes -> Nat],
           Honest(WriteOf[r], a)'
    PROVE  Truth'
<1>1. \A w \in Writes : \A b : Honest(w, b) => Honest(w, b)'
  BY DEF Honest, TypeOK
<1>2. PICK q : /\ reqs' = [reqs EXCEPT ![r] = q]
               /\ (q.phase = "store" /\ q.answer = a) \/ (q.phase = "release" /\ q.answer = "error")
  <2>1. [To(r, "store") EXCEPT !.answer = a].phase = "store"
        /\ [To(r, "store") EXCEPT !.answer = a].answer = a
        /\ [To(r, "release") EXCEPT !.answer = "error"].phase = "release"
        /\ [To(r, "release") EXCEPT !.answer = "error"].answer = "error"
    BY ToKeeps DEF Phases, Request
  <2> QED  BY <2>1 DEF Decided, Become
<1>3. UNCHANGED <<record, outcome>>
  BY DEF Decided
<1>4. Sent'
  BY <1>2, <1>3 DEF Truth, Sent, In, TypeOK
<1>5. Found'
  BY <1>2 DEF Truth, Found, In, TypeOK
<1>6. Told' /\ Kept'
  <2>1. Told'
    BY <1>1, <1>3 DEF Truth, Told, TypeOK
  <2>2. Kept'
    BY <1>1, <1>3 DEF Truth, Kept, TypeOK, Record
  <2> QED  BY <2>1, <2>2
<1>7. Settled'
  BY <1>1, <1>2 DEF Truth, Settled, In, TypeOK
<1> QED  BY <1>4, <1>5, <1>6, <1>7 DEF Truth

\* The transaction that writes tells the truth of its write, and makes no
\* other answer false.
LEMMA ApplyTruth ==
    ASSUME TypeOK, Truth, NEW r \in Reqs, ~ In(r, "idle"), NEW row \in 0 .. version + 1,
           row = 0 \/ ban = 0 \/ row = ban, Kind[WriteOf[r]] = "lift" => row = 0,
           Apply(WriteOf[r], row), Decided(r, "ok")
    PROVE  Truth'
<1>1. /\ \A w \in Writes : applied'[w] >= applied[w] /\ (lifted[w] => lifted'[w])
      /\ applied' \in [Writes -> Nat] /\ applied'[WriteOf[r]] > 0
  BY DEF Apply, TypeOK
<1>2. outcome' = outcome /\ outcome[WriteOf[r]] # "unsent"
  BY DEF Decided, Truth, Sent
<1>3. Cleared'
  <2>1. row = 0 => \A w \in Writes : outcome'[w] # "unsent" => lifted'[w]
    BY <1>2 DEF Apply
  <2> QED  BY <2>1 DEF Cleared, Apply
<1>4. \A s \in Reqs : In(s, "lift") => ban' = reqs[s].row \/ lifted'[WriteOf[s]]
  <2> SUFFICES ASSUME NEW s \in Reqs, In(s, "lift") PROVE ban' = reqs[s].row \/ lifted'[WriteOf[s]]
    OBVIOUS
  <2>1. outcome[WriteOf[s]] # "unsent"
    BY DEF Truth, Sent, In
  <2>2. CASE row = 0
    BY <2>1, <2>2 DEF Apply
  <2>3. CASE row # 0 /\ ban = 0
    BY <1>1, <2>1, <2>3 DEF Truth, Cleared
  <2>4. CASE row = ban
    BY <1>1, <2>4 DEF Truth, Found, Apply
  <2> QED  BY <2>2, <2>3, <2>4
<1>5. Honest(WriteOf[r], "ok")'
  <2>1. Kind[WriteOf[r]] = "lift" => lifted'[WriteOf[r]]
    BY <1>2 DEF Apply
  <2> QED  BY <1>1, <2>1 DEF Honest
<1> QED  BY <1>1, <1>3, <1>4, <1>5, DecidedTruth DEF Final

\* The transaction that refuses tells the truth of its write.
LEMMA RefusedTruth ==
    ASSUME TypeOK, Truth, NEW r \in Reqs, ~ In(r, "idle"), NEW a \in {"stale", "not_active"},
           a = "not_active" => lifted[WriteOf[r]], Decided(r, a), UNCHANGED personVars
    PROVE  Truth'
<1>1. /\ \A w \in Writes : applied'[w] >= applied[w] /\ (lifted[w] => lifted'[w])
      /\ applied' \in [Writes -> Nat] /\ ban' = ban
  BY DEF personVars, TypeOK
<1>2. Cleared'
  BY DEF personVars, Decided, Truth, Cleared
<1>3. Honest(WriteOf[r], a)'
  BY DEF personVars, Honest
<1> QED  BY <1>1, <1>2, <1>3, DecidedTruth DEF Final

\* A new claim has no answer that could be false.
LEMMA ClaimedTruth ==
    ASSUME TypeOK, Truth, UNCHANGED personVars, NEW r \in Reqs, ~ In(r, "idle"), Claimed(r)
    PROVE  Truth'
<1> DEFINE q == [Idle EXCEPT !.phase = "run", !.claim = NewClaim]
<1>1. reqs' = [reqs EXCEPT ![r] = q] /\ UNCHANGED outcome
  BY DEF Claimed, Become
<1>2. q.phase = "run"
  BY DEF Idle
<1>3. \A k \in Keys : record'[k] # None /\ record'[k].state = "completed"
               => record[k] # None /\ record[k].state = "completed"
                  /\ record'[k].write = record[k].write /\ record'[k].answer = record[k].answer
  BY DEF Claimed, Keep, TypeOK
<1> HIDE DEF q
<1> QED  BY <1>1, <1>2, <1>3, MoveTruth

\* Another turn of the claim loop, or giving it up, tells nothing.
LEMMA NextTryTruth ==
    ASSUME TypeOK, Truth, UNCHANGED personVars, UNCHANGED record,
           NEW r \in Reqs, ~ In(r, "idle"), NextTry(r)
    PROVE  Truth'
<1> DEFINE q == [Idle EXCEPT !.phase = "insert", !.tries = reqs[r].tries + 1]
<1>1. CASE reqs[r].tries < 2
  <2>1. reqs' = [reqs EXCEPT ![r] = q] /\ UNCHANGED outcome
    BY <1>1 DEF NextTry, Become
  <2>2. q.phase = "insert"
    BY DEF Idle
  <2> HIDE DEF q
  <2> QED  BY <2>1, <2>2, MoveTruth
<1>2. CASE ~ (reqs[r].tries < 2)
  BY <1>2, AnswerTruth DEF NextTry, Final
<1> QED  BY <1>1, <1>2

\* No step tells, stores or replays an answer that is not true of its
\* write.
LEMMA TruthStep ==
    ASSUME TypeOK, Owned, Truth, [Next]_vars
    PROVE  Truth'
<1>a. \A r \in Reqs : Key(r) \in Keys
  BY DEF Key
<1>1. ASSUME NEW r \in Reqs, Send(r) PROVE Truth'
  <2>1. To(r, "insert").phase = "insert"
    BY ToKeeps DEF Phases
  <2>2. /\ reqs' = [reqs EXCEPT ![r] = To(r, "insert")] /\ UNCHANGED <<ban, applied, record>>
        /\ outcome' = [outcome EXCEPT ![WriteOf[r]] = "waiting"]
        /\ lifted' = [lifted EXCEPT ![WriteOf[r]] = lifted[WriteOf[r]] \/ ban = 0]
    BY <1>1 DEF Send, Become
  <2>3. \A w \in Writes : lifted[w] => lifted'[w]
    BY <2>2 DEF TypeOK
  <2>4. \A w \in Writes : \A b : Honest(w, b) => Honest(w, b)'
    BY <2>2, <2>3 DEF Honest
  <2>5. Sent' /\ Cleared'
    BY <2>1, <2>2 DEF Truth, TypeOK, Sent, Cleared, In
  <2>6. Found' /\ Settled'
    BY <2>1, <2>2, <2>3, <2>4 DEF Truth, TypeOK, Found, Settled, In
  <2>7. Told'
    BY <2>2, <2>4 DEF Truth, TypeOK, Told, Honest
  <2>8. Kept'
    BY <2>2, <2>4 DEF Truth, TypeOK, Kept, Record
  <2> QED  BY <2>5, <2>6, <2>7, <2>8 DEF Truth
<1>2. ASSUME NEW r \in Reqs, Insert(r) PROVE Truth'
  <2>1. CASE record[Key(r)] = None
    BY <1>2, <2>1, ClaimedTruth DEF Insert, In
  <2>2. CASE record[Key(r)] # None
    <3>1. To(r, "read").phase = "read"
      BY ToKeeps DEF Phases
    <3> QED  BY <1>2, <2>2, <3>1, MoveTruth DEF Insert, In, Become
  <2> QED  BY <2>1, <2>2
<1>3. ASSUME NEW r \in Reqs, Read(r) PROVE Truth'
  <2>1. ~ In(r, "idle") /\ UNCHANGED personVars /\ UNCHANGED record
    BY <1>3 DEF Read, In
  <2>2. CASE record[Key(r)] = None
    BY <1>3, <2>1, <2>2, NextTryTruth DEF Read
  <2>3. CASE record[Key(r)] # None /\ record[Key(r)].old
    <3> DEFINE q == [To(r, "take") EXCEPT !.claim = record[Key(r)].claim, !.seen = record[Key(r)].state]
    <3>1. To(r, "take") \in Request /\ To(r, "take").phase = "take"
      BY ToKeeps DEF Phases
    <3>2. q.phase = "take"
      BY <3>1 DEF Request
    <3>3. reqs' = [reqs EXCEPT ![r] = q] /\ UNCHANGED outcome
      BY <1>3, <2>3 DEF Read, Become
    <3> HIDE DEF q
    <3> QED  BY <2>1, <3>2, <3>3, MoveTruth
  <2>4. CASE record[Key(r)] # None /\ ~ record[Key(r)].old
    <3>1. CASE Answer(r, "reused") \/ Answer(r, "busy")
      BY <2>1, <3>1, AnswerTruth DEF Honest, Final
    <3>2. CASE record[Key(r)].write = WriteOf[r] /\ record[Key(r)].state # "in_progress"
               /\ Answer(r, record[Key(r)].answer)
      <4>1. record[Key(r)].state = "completed"
        BY <1>a, <2>4, <3>2 DEF TypeOK, Record
      <4>2. Honest(WriteOf[r], record[Key(r)].answer)
        BY <1>a, <2>4, <3>2, <4>1 DEF Truth, Kept
      <4> QED  BY <2>1, <3>2, <4>2, AnswerTruth
    <3> QED  BY <1>3, <2>4, <3>1, <3>2 DEF Read
  <2> QED  BY <2>2, <2>3, <2>4
<1>4. ASSUME NEW r \in Reqs, Take(r) PROVE Truth'
  BY <1>4, ClaimedTruth, NextTryTruth DEF Take, In
<1>5. ASSUME NEW r \in Reqs, Ban(r) PROVE Truth'
  <2>1. CASE Matches(WriteOf[r])
    <3>1. Apply(WriteOf[r], IF ban = 0 THEN version + 1 ELSE ban) /\ Decided(r, "ok")
          /\ Kind[WriteOf[r]] = "ban" /\ ~ In(r, "idle")
      BY <1>5, <2>1 DEF Ban, In
    <3>2. (IF ban = 0 THEN version + 1 ELSE ban) \in 0 .. version + 1
      BY DEF TypeOK
    <3> QED  BY <3>1, <3>2, ApplyTruth
  <2>2. CASE ~ Matches(WriteOf[r])
    BY <1>5, <2>2, RefusedTruth DEF Ban, In
  <2> QED  BY <2>1, <2>2
<1>6. ASSUME NEW r \in Reqs, FindBan(r) PROVE Truth'
  <2>1. CASE ban = 0
    <3>1. lifted[WriteOf[r]]
      BY <1>6, <2>1 DEF FindBan, In, Truth, Sent, Cleared
    <3> QED  BY <1>6, <2>1, <3>1, RefusedTruth DEF FindBan, In
  <2>2. CASE ban # 0
    <3> DEFINE q == [To(r, "lift") EXCEPT !.row = ban]
    <3>1. To(r, "lift") \in Request /\ To(r, "lift").phase = "lift"
      BY ToKeeps DEF Phases
    <3>2. q.phase = "lift" /\ q.row = ban
      BY <3>1 DEF Request
    <3>3. reqs' = [reqs EXCEPT ![r] = q] /\ UNCHANGED <<outcome, record, personVars>>
      BY <1>6, <2>2 DEF FindBan, Become
    <3> HIDE DEF q
    <3> QED  BY <1>6, <3>2, <3>3, MoveTruth DEF FindBan, In
  <2> QED  BY <2>1, <2>2
<1>7. ASSUME NEW r \in Reqs, Lift(r) PROVE Truth'
  <2>1. CASE ban = reqs[r].row /\ Matches(WriteOf[r])
    <3>1. Apply(WriteOf[r], 0) /\ Decided(r, "ok") /\ ~ In(r, "idle")
      BY <1>7, <2>1 DEF Lift, In
    <3> QED  BY <3>1, ApplyTruth DEF TypeOK
  <2>2. CASE ban # reqs[r].row
    <3>1. lifted[WriteOf[r]]
      BY <1>7, <2>2 DEF Lift, Truth, Found
    <3> QED  BY <1>7, <2>2, <3>1, RefusedTruth DEF Lift, In
  <2>3. CASE ban = reqs[r].row /\ ~ Matches(WriteOf[r])
    BY <1>7, <2>3, RefusedTruth DEF Lift, In
  <2> QED  BY <2>1, <2>2, <2>3
<1>8. ASSUME NEW r \in Reqs, Store(r) PROVE Truth'
  <2>1. ~ In(r, "idle") /\ Answer(r, reqs[r].answer) /\ UNCHANGED personVars
        /\ Honest(WriteOf[r], reqs[r].answer)
    BY <1>8 DEF Store, In, Truth, Settled
  <2>2. CASE ~ Mine(r)
    BY <1>8, <2>1, <2>2, AnswerTruth DEF Store
  <2>3. CASE Mine(r)
    <3> DEFINE done == [record[Key(r)] EXCEPT !.state = "completed",
                            !.answer = reqs[r].answer, !.old = FALSE]
    <3>1. record[Key(r)] \in Record /\ record[Key(r)].write = WriteOf[r]
      BY <1>a, <1>8, <2>3 DEF Mine, Owned, Store, In, Holding, TypeOK
    <3>2. done.write = WriteOf[r] /\ done.answer = reqs[r].answer
      BY <3>1 DEF Record
    <3>3. record' = [record EXCEPT ![Key(r)] = done]
      BY <1>8, <2>3 DEF Store, Keep
    <3> HIDE DEF done
    <3>4. \A w \in Writes : \A b : Honest(w, b)' <=> Honest(w, b)
      BY <2>1 DEF Honest, personVars
    <3>5. outcome' = outcome
          \/ (reqs[r].answer \in Final /\ outcome' = [outcome EXCEPT ![WriteOf[r]] = reqs[r].answer])
      BY <2>1 DEF Answer, Takes
    <3>6. reqs' = [reqs EXCEPT ![r] = Idle] /\ Idle.phase = "idle"
      BY <2>1 DEF Answer, Become, Idle
    <3>7. Kept'
      <4> SUFFICES ASSUME NEW k \in Keys, record'[k] # None, record'[k].state = "completed"
                   PROVE  Honest(record[k].write, record[k].answer)'
        BY DEF Kept
      <4>1. CASE k = Key(r)
        <5>1. record'[k] = done
          BY <3>3, <4>1 DEF TypeOK
        <5> QED  BY <2>1, <3>2, <5>1 DEF Honest, personVars
      <4>2. CASE k # Key(r)
        <5>1. record'[k] = record[k]
          BY <3>3, <4>2 DEF TypeOK
        <5>2. Honest(record[k].write, record[k].answer)
          BY <5>1 DEF Truth, Kept
        <5> QED  BY <2>1, <5>1, <5>2 DEF Honest, personVars
      <4> QED  BY <4>1, <4>2
    <3>8. Told'
      BY <2>1, <3>4, <3>5 DEF Told, Truth, TypeOK
    <3>9. Sent' /\ Cleared' /\ Found' /\ Settled'
      BY <2>1, <3>4, <3>5, <3>6 DEF Truth, TypeOK, Sent, Cleared, Found, Settled, In, personVars, Final
    <3> QED  BY <3>7, <3>8, <3>9 DEF Truth
  <2> QED  BY <2>2, <2>3
<1>9. ASSUME NEW r \in Reqs, ReleaseKey(r) PROVE Truth'
  <2>1. /\ outcome' = outcome /\ reqs' = [reqs EXCEPT ![r] = Idle] /\ UNCHANGED personVars
        /\ ~ In(r, "idle") /\ Idle.phase = "idle"
    BY <1>9 DEF ReleaseKey, Answer, Takes, Become, Final, In, Idle
  <2>2. \A k \in Keys : record'[k] = record[k] \/ record'[k] = None
    BY <1>9 DEF ReleaseKey, Keep, TypeOK
  <2> QED  BY <2>1, <2>2, MoveTruth
<1>10. ASSUME NEW r \in Reqs, HandlerFails(r) PROVE Truth'
  <2> DEFINE q == [To(r, "release") EXCEPT !.answer = "error"]
  <2>1. To(r, "release") \in Request /\ To(r, "release").phase = "release"
    BY ToKeeps DEF Phases
  <2>2. q.phase = "release" /\ q.answer = "error"
    BY <2>1 DEF Request
  <2>3. reqs' = [reqs EXCEPT ![r] = q] /\ UNCHANGED <<outcome, record, personVars>> /\ ~ In(r, "idle")
    BY <1>10 DEF HandlerFails, Become, In
  <2> HIDE DEF q
  <2> QED  BY <2>2, <2>3, MoveTruth
<1>11. ASSUME NEW r \in Reqs, RecordFails(r) PROVE Truth'
  <2>1. /\ reqs' = [reqs EXCEPT ![r] = Idle] /\ UNCHANGED <<personVars, record>> /\ Idle.phase = "idle"
        /\ \/ outcome' = outcome
           \/ /\ reqs[r].answer \in Final /\ outcome' = [outcome EXCEPT ![WriteOf[r]] = reqs[r].answer]
    BY <1>11 DEF RecordFails, Become, Takes, Idle
  <2>2. CASE In(r, "store")
    <3>1. Honest(WriteOf[r], reqs[r].answer)
      BY <2>2 DEF Truth, Settled
    <3> QED  BY <2>1, <2>2, <3>1 DEF Truth, TypeOK, Sent, Cleared, Found, Told, Kept, Settled, In, Honest, personVars, Final
  <2>3. CASE In(r, "release")
    <3>1. reqs[r].answer = "error"
      BY <2>3 DEF Truth, Settled
    <3> QED  BY <2>1, <2>3, <3>1, MoveTruth DEF Final, In
  <2> QED  BY <1>11, <2>2, <2>3 DEF RecordFails, In
<1>12. ASSUME NEW r \in Reqs, Crash(r) PROVE Truth'
  <2>1. /\ reqs' = [reqs EXCEPT ![r] = Idle] /\ UNCHANGED <<personVars, record, outcome>>
        /\ ~ In(r, "idle") /\ Idle.phase = "idle"
    BY <1>12 DEF Crash, Become, Idle
  <2> QED  BY <2>1, MoveTruth
<1>13. ASSUME NEW k \in Keys, GrowOld(k) PROVE Truth'
  <2> DEFINE aged == [record[k] EXCEPT !.old = TRUE]
  <2>1. record[k] \in Record /\ record[k] # None
    BY <1>13 DEF GrowOld, TypeOK
  <2>2. aged.state = record[k].state /\ aged.write = record[k].write /\ aged.answer = record[k].answer
    BY <2>1 DEF Record
  <2>3. record' = [record EXCEPT ![k] = aged] /\ UNCHANGED <<personVars, reqs, outcome>>
    BY <1>13 DEF GrowOld, Keep
  <2> HIDE DEF aged
  <2> QED
    BY <2>1, <2>2, <2>3 DEF Truth, TypeOK, Sent, Cleared, Found, Told, Kept, Settled, In, Honest, personVars
<1>14. ASSUME NEW k \in Keys, Sweep(k) PROVE Truth'
  BY <1>14 DEF Sweep, Keep, Truth, TypeOK, Sent, Cleared, Found, Told, Kept, Settled, In, Honest, personVars
<1>15. CASE UNCHANGED vars
  BY <1>15 DEF vars, Truth, Sent, Cleared, Found, Told, Kept, Settled, In, Honest, personVars
<1> QED
  BY <1>1, <1>2, <1>3, <1>4, <1>5, <1>6, <1>7, <1>8, <1>9, <1>10, <1>11, <1>12, <1>13, <1>14, <1>15
  DEF Next, Progress, Handle

-----------------------------------------------------------------------------
(* Versions                                                                *)

\* The person changes only when a transaction that matches the version
\* raises it.
LEMMA PassedStep ==
    ASSUME TypeOK, Passed, [Next]_vars
    PROVE  Passed'
<1> DEFINE AsItWas == UNCHANGED <<version, applied>>
           Made == \E w \in Writes, row \in Nat : Matches(w) /\ Apply(w, row)
<1>1. AsItWas \/ Made
  <2>1. ASSUME NEW r \in Reqs, Ban(r) PROVE AsItWas \/ Made
    BY <2>1 DEF Ban, TypeOK, personVars
  <2>2. ASSUME NEW r \in Reqs, Lift(r) PROVE AsItWas \/ Made
    BY <2>2 DEF Lift, personVars
  <2> QED
    BY <2>1, <2>2 DEF Next, Progress, Handle, Send, Insert, Read, Take, FindBan, Store, ReleaseKey,
       HandlerFails, RecordFails, Crash, GrowOld, Sweep, personVars, vars
<1>2. CASE UNCHANGED <<version, applied>>
  BY <1>2 DEF Passed
<1>3. ASSUME NEW w \in Writes, NEW row \in Nat, Matches(w), Apply(w, row) PROVE Passed'
  <2>1. IfMatch[w] = None \/ (IfMatch[w] = version /\ applied[w] = 0)
    BY <1>3 DEF Matches, Passed, TypeOK
  <2> QED  BY <1>3, <2>1 DEF Passed, Apply, TypeOK
<1> QED  BY <1>1, <1>2, <1>3

-----------------------------------------------------------------------------
(* Before the first failure                                                *)

\* Every claim has its request, which has not failed, and every record is
\* young.
Tended ==
    /\ \A r \in Reqs :
          ~ In(r, "take") /\ (Holding(r) => Mine(r) /\ ~ In(r, "release"))
    /\ \A k \in Keys : record[k] # None =>
          /\ ~ record[k].old
          /\ record[k].state = "in_progress" => \E r \in Reqs : Holding(r) /\ Key(r) = k

\* A write that was made has its record, with the answer or about to have it.
Shown ==
    \A w \in Writes : applied[w] > 0 =>
        /\ record[KeyOf[w]] # None /\ record[KeyOf[w]].write = w
        /\ \/ record[KeyOf[w]].state = "completed" /\ record[KeyOf[w]].answer = "ok"
           \/ \E r \in Reqs : WriteOf[r] = w /\ In(r, "store") /\ reqs[r].answer = "ok"

Refusals == {"stale", "not_active", "reused"}

\* The record of a write that was refused says why.
Refused ==
    \A w \in Writes : outcome[w] \in Refusals =>
        /\ record[KeyOf[w]] # None
        /\ \/ record[KeyOf[w]].write # w
           \/ record[KeyOf[w]].state = "completed" /\ record[KeyOf[w]].answer # "ok"

Clean == faults = 0 => Tended /\ Shown /\ Refused

\* A request that holds no claim goes on, and may bring an answer.
LEMMA AsideClean ==
    ASSUME TypeOK, Tended, Shown, Refused, NEW r \in Reqs, ~ Holding(r),
           NEW q, reqs' = [reqs EXCEPT ![r] = q], q.phase \in {"idle", "insert", "read"},
           UNCHANGED <<record, applied>>,
           \A w \in Writes : outcome'[w] \in Refusals =>
               \/ outcome[w] \in Refusals
               \/ /\ record[KeyOf[w]] # None
                  /\ \/ record[KeyOf[w]].write # w
                     \/ record[KeyOf[w]].state = "completed" /\ record[KeyOf[w]].answer # "ok"
    PROVE  Tended' /\ Shown' /\ Refused'
<1>1. \A s \in Reqs \ {r} : reqs'[s] = reqs[s]
  BY DEF TypeOK
<1>2. reqs'[r] = q
  BY DEF TypeOK
<1>3. Tended'
  BY <1>1, <1>2 DEF Tended, Holding, Mine, In, Key
<1>4. Shown'
  BY <1>1, <1>2 DEF Shown, Holding, In
<1>5. Refused'
  BY DEF Refused
<1> QED  BY <1>3, <1>4, <1>5

\* A request claims a key that has no record.
LEMMA ClaimedClean ==
    ASSUME TypeOK, Tended, Shown, Refused, NEW r \in Reqs, record[Key(r)] = None, Claimed(r),
           UNCHANGED applied
    PROVE  Tended' /\ Shown' /\ Refused'
<1>1. Key(r) \in Keys /\ \A s \in Reqs : Key(s) \in Keys
  BY DEF Key
<1>2. /\ \A s \in Reqs \ {r} : reqs'[s] = reqs[s]
      /\ reqs'[r].phase = "run" /\ reqs'[r].claim = NewClaim
      /\ UNCHANGED outcome
  BY DEF TypeOK, Claimed, Become, Idle
<1>3. /\ \A k \in Keys \ {Key(r)} : record'[k] = record[k]
      /\ record'[Key(r)] = [write |-> WriteOf[r], claim |-> NewClaim, state |-> "in_progress",
                            answer |-> "none", old |-> FALSE]
  BY <1>1 DEF TypeOK, Claimed, Keep
<1>4. record'[Key(r)] # None
  <2>1. record'[Key(r)] \in Record
    BY <1>3, NewClaimFresh DEF Record
  <2> QED  BY <2>1, NoneAssumption
<1>5. Tended'
  BY <1>1, <1>2, <1>3, <1>4 DEF Tended, Holding, Mine, In, Key
<1>6. \A w \in Writes : KeyOf[w] = Key(r) => applied[w] = 0 /\ outcome[w] \notin Refusals
  BY DEF Shown, Refused, TypeOK
<1>7. Shown' /\ Refused'
  BY <1>1, <1>2, <1>3, <1>6 DEF Shown, Refused, In, Key
<1> QED  BY <1>5, <1>7

\* The handler of a tended request decides.
LEMMA DecidedClean ==
    ASSUME TypeOK, Owned, Tended, Shown, Refused,
           NEW r \in Reqs, reqs[r].phase \in {"run", "lift"},
           NEW a \in Final, Decided(r, a), UNCHANGED faults,
           applied' = applied
           \/ (a = "ok" /\ applied' = [applied EXCEPT ![WriteOf[r]] = applied[WriteOf[r]] + 1])
    PROVE  Tended' /\ Shown' /\ Refused'
<1> DEFINE q == [To(r, "store") EXCEPT !.answer = a]
<1>1. q.phase = "store" /\ q.answer = a /\ q.claim = reqs[r].claim
  BY ToKeeps DEF Phases, Request
<1>2. reqs' = [reqs EXCEPT ![r] = q] /\ UNCHANGED <<record, outcome>>
  BY DEF Decided, Become, Fault, TypeOK
<1> HIDE DEF q
<1>3. (\A s \in Reqs \ {r} : reqs'[s] = reqs[s]) /\ reqs'[r] = q
  BY <1>2 DEF TypeOK
<1>4. /\ record[Key(r)] # None /\ record[Key(r)].write = WriteOf[r]
      /\ record[Key(r)].state = "in_progress"
  BY DEF Tended, Owned, Holding, Mine
<1>5. Tended'
  <2>1. \A s \in Reqs : ~ In(s, "take")' /\ (Holding(s)' => Mine(s)' /\ ~ In(s, "release")')
    BY <1>1, <1>2, <1>3 DEF Tended, Holding, Mine, In, Key
  <2>2. \A s \in Reqs : Holding(s) => Holding(s)'
    BY <1>1, <1>3 DEF Holding
  <2> QED  BY <1>2, <2>1, <2>2 DEF Tended, Key
<1>6. Shown'
  <2> SUFFICES ASSUME NEW w \in Writes, applied'[w] > 0
               PROVE  /\ record[KeyOf[w]] # None /\ record[KeyOf[w]].write = w
                      /\ \/ record[KeyOf[w]].state = "completed" /\ record[KeyOf[w]].answer = "ok"
                         \/ \E s \in Reqs : WriteOf[s] = w /\ In(s, "store")' /\ reqs'[s].answer = "ok"
    BY <1>2 DEF Shown
  <2>1. CASE applied[w] > 0
    <3>1. ASSUME NEW s \in Reqs, WriteOf[s] = w, In(s, "store"), reqs[s].answer = "ok"
          PROVE  In(s, "store")' /\ reqs'[s].answer = "ok"
      BY <1>3, <3>1 DEF In
    <3> QED  BY <2>1, <3>1 DEF Shown
  <2>2. CASE ~ (applied[w] > 0)
    <3>1. w = WriteOf[r] /\ a = "ok"
      BY <2>2 DEF TypeOK
    <3> QED  BY <1>1, <1>3, <1>4, <3>1 DEF In, Key
  <2> QED  BY <2>1, <2>2
<1>7. Refused'
  BY <1>2 DEF Refused
<1> QED  BY <1>5, <1>6, <1>7

\* The handler's answer is stored and sent.
LEMMA StoreClean ==
    ASSUME TypeOK, Distinct, Owned, Settled, Tended, Shown, Refused,
           NEW r \in Reqs, Store(r), UNCHANGED faults
    PROVE  Tended' /\ Shown' /\ Refused'
<1> DEFINE done == [record[Key(r)] EXCEPT !.state = "completed",
                        !.answer = reqs[r].answer, !.old = FALSE]
<1>1. In(r, "store") /\ Holding(r) /\ Mine(r) /\ Key(r) \in Keys
  BY DEF Store, In, Holding, Tended, Key
<1>2. /\ record[Key(r)] \in Record /\ record[Key(r)] # None /\ record[Key(r)].write = WriteOf[r]
      /\ record[Key(r)].state = "in_progress"
  BY <1>1 DEF Mine, Owned, TypeOK
<1>3. /\ done.state = "completed" /\ done.answer = reqs[r].answer /\ ~ done.old
      /\ done.write = WriteOf[r] /\ done \in Record
  BY <1>2 DEF Record, TypeOK, Request
<1>4. record' = [record EXCEPT ![Key(r)] = done] /\ UNCHANGED applied
  BY <1>1 DEF Store, Keep, personVars
<1> HIDE DEF done
<1>5. done # None
  BY <1>3, NoneAssumption
<1>6. /\ \A k \in Keys \ {Key(r)} : record'[k] = record[k]
      /\ record'[Key(r)] = done
  BY <1>1, <1>4 DEF TypeOK
<1>7. /\ \A s \in Reqs \ {r} : reqs'[s] = reqs[s]
      /\ reqs'[r].phase = "idle"
  BY DEF Store, Answer, Become, Idle, TypeOK
<1>8. \A s \in Reqs : Holding(s) /\ s # r => Key(s) # Key(r)
  BY <1>1 DEF Tended, Mine, Distinct
<1>9. \A w \in Writes : outcome'[w] \in Refusals =>
          outcome[w] \in Refusals \/ (w = WriteOf[r] /\ reqs[r].answer \in Refusals)
  BY DEF Store, Answer, Takes, TypeOK
<1>10. Tended'
  <2>1. \A s \in Reqs : ~ In(s, "take")' /\ (Holding(s)' => Mine(s)' /\ ~ In(s, "release")')
    <3> SUFFICES ASSUME NEW s \in Reqs PROVE ~ In(s, "take")' /\ (Holding(s)' => Mine(s)' /\ ~ In(s, "release")')
      OBVIOUS
    <3>1. CASE s = r
      BY <1>7, <3>1 DEF In, Holding
    <3>2. CASE s # r
      BY <1>6, <1>7, <1>8, <3>2 DEF Tended, In, Holding, Mine, Key
    <3> QED  BY <3>1, <3>2
  <2>2. ASSUME NEW k \in Keys, record'[k] # None
        PROVE  /\ ~ record'[k].old
               /\ record'[k].state = "in_progress" => \E s \in Reqs : Holding(s)' /\ Key(s)' = k
    <3>1. CASE k = Key(r)
      BY <1>3, <1>6, <3>1
    <3>2. CASE k # Key(r)
      <4>1. record'[k] = record[k]
        BY <1>6, <3>2
      <4>2. ASSUME NEW s \in Reqs, Holding(s), Key(s) = k PROVE Holding(s)' /\ Key(s)' = k
        BY <1>7, <3>2, <4>2 DEF Holding, Key
      <4> QED  BY <2>2, <4>1, <4>2 DEF Tended
    <3> QED  BY <3>1, <3>2
  <2> QED  BY <2>1, <2>2 DEF Tended
<1>11. Shown'
  <2> SUFFICES ASSUME NEW w \in Writes, applied[w] > 0
               PROVE  /\ record'[KeyOf[w]] # None /\ record'[KeyOf[w]].write = w
                      /\ \/ record'[KeyOf[w]].state = "completed" /\ record'[KeyOf[w]].answer = "ok"
                         \/ \E s \in Reqs : WriteOf[s] = w /\ In(s, "store")' /\ reqs'[s].answer = "ok"
    BY <1>4 DEF Shown
  <2>1. CASE KeyOf[w] = Key(r)
    <3>1. PICK s \in Reqs : WriteOf[s] = w /\ In(s, "store") /\ reqs[s].answer = "ok"
      BY <1>2, <2>1 DEF Shown
    <3>2. s = r
      BY <1>8, <2>1, <3>1 DEF In, Holding, Key
    <3> QED  BY <1>3, <1>5, <1>6, <2>1, <3>1, <3>2
  <2>2. CASE KeyOf[w] # Key(r)
    <3>1. record'[KeyOf[w]] = record[KeyOf[w]]
      BY <1>6, <2>2
    <3>2. ASSUME NEW s \in Reqs, WriteOf[s] = w, In(s, "store"), reqs[s].answer = "ok"
          PROVE  In(s, "store")' /\ reqs'[s].answer = "ok"
      BY <1>7, <2>2, <3>2 DEF In, Key
    <3> QED  BY <3>1, <3>2 DEF Shown
  <2> QED  BY <2>1, <2>2
<1>12. Refused'
  <2> SUFFICES ASSUME NEW w \in Writes, outcome'[w] \in Refusals
               PROVE  /\ record'[KeyOf[w]] # None
                      /\ \/ record'[KeyOf[w]].write # w
                         \/ record'[KeyOf[w]].state = "completed" /\ record'[KeyOf[w]].answer # "ok"
    BY DEF Refused
  <2>1. CASE w = WriteOf[r] /\ reqs[r].answer \in Refusals
    BY <1>3, <1>5, <1>6, <2>1 DEF Key, Refusals
  <2>2. CASE outcome[w] \in Refusals /\ KeyOf[w] = Key(r)
    BY <1>2, <1>3, <1>5, <1>6, <2>2 DEF Refused
  <2>3. CASE outcome[w] \in Refusals /\ KeyOf[w] # Key(r)
    BY <1>6, <2>3 DEF Refused
  <2> QED  BY <1>9, <2>1, <2>2, <2>3
<1> QED  BY <1>10, <1>11, <1>12

\* A handler that has found the ban row goes on to its transaction.
LEMMA FoundClean ==
    ASSUME TypeOK, Tended, Shown, Refused, NEW r \in Reqs, In(r, "run"),
           NEW q, q.phase = "lift", q.claim = reqs[r].claim,
           reqs' = [reqs EXCEPT ![r] = q], UNCHANGED <<record, applied, outcome>>
    PROVE  Tended' /\ Shown' /\ Refused'
<1>1. (\A s \in Reqs \ {r} : reqs'[s] = reqs[s]) /\ reqs'[r] = q
  BY DEF TypeOK
<1>2. \A s \in Reqs : ~ In(s, "take")' /\ (Holding(s)' => Mine(s)' /\ ~ In(s, "release")')
  BY <1>1 DEF Tended, Holding, Mine, In, Key
<1>3. \A s \in Reqs : Holding(s) => Holding(s)'
  BY <1>1 DEF Holding
<1>4. Tended'
  BY <1>2, <1>3 DEF Tended, Key
<1>5. Shown'
  BY <1>1 DEF Shown, In
<1>6. Refused'
  BY DEF Refused
<1> QED  BY <1>4, <1>5, <1>6

\* As long as nothing fails, the state stays as clean as it was.
LEMMA CleanStep ==
    ASSUME TypeOK, Distinct, Owned, Truth, Clean, [Next]_vars
    PROVE  Clean'
<1> SUFFICES ASSUME faults' = 0 PROVE Tended' /\ Shown' /\ Refused'
  BY DEF Clean
<1>0. faults = 0 /\ \A kind : ~ Fault(kind)
  <2>1. \A kind : ~ Fault(kind)
    BY DEF Fault, TypeOK
  <2>2. faults' = faults
    BY <2>1 DEF Next, Progress, Handle, Send, Insert, Claimed, Read, NextTry, Answer, Take, Ban,
       FindBan, Lift, Decided, Store, ReleaseKey, HandlerFails, RecordFails, Crash, GrowOld, Sweep,
       vars
  <2> QED  BY <2>1, <2>2
<1>a. Tended /\ Shown /\ Refused /\ Settled
  BY <1>0 DEF Clean, Truth
<1>b. \A r \in Reqs : Key(r) \in Keys /\ Key(r) = KeyOf[WriteOf[r]]
  BY DEF Key
<1>c. ASSUME NEW r \in Reqs, ~ Holding(r), NEW a, Answer(r, a), UNCHANGED <<record, applied>>,
             a \in Refusals =>
                 /\ record[Key(r)] # None
                 /\ \/ record[Key(r)].write # WriteOf[r]
                    \/ record[Key(r)].state = "completed" /\ record[Key(r)].answer # "ok"
      PROVE  Tended' /\ Shown' /\ Refused'
  <2>1. reqs' = [reqs EXCEPT ![r] = Idle] /\ Idle.phase \in {"idle", "insert", "read"}
    BY <1>c DEF Answer, Become, Idle
  <2>2. \A w \in Writes : outcome'[w] \in Refusals =>
            outcome[w] \in Refusals \/ (w = WriteOf[r] /\ a \in Refusals)
    BY <1>0, <1>c DEF Answer, Takes, TypeOK
  <2> QED  BY <1>a, <1>b, <1>c, <2>1, <2>2, AsideClean
<1>d. ASSUME NEW r \in Reqs, ~ Holding(r), NextTry(r), UNCHANGED <<record, applied>>
      PROVE  Tended' /\ Shown' /\ Refused'
  <2>1. CASE reqs[r].tries < 2
    <3>1. [Idle EXCEPT !.phase = "insert", !.tries = reqs[r].tries + 1].phase = "insert"
      BY DEF Idle
    <3> QED  BY <1>a, <1>d, <2>1, <3>1, AsideClean DEF NextTry, Become
  <2>2. CASE ~ (reqs[r].tries < 2)
    BY <1>c, <1>d, <2>2 DEF NextTry, Refusals
  <2> QED  BY <2>1, <2>2
<1>1. ASSUME NEW r \in Reqs, Send(r) PROVE Tended' /\ Shown' /\ Refused'
  <2>1. To(r, "insert").phase = "insert"
    BY ToKeeps DEF Phases
  <2>2. ~ Holding(r) /\ reqs' = [reqs EXCEPT ![r] = To(r, "insert")] /\ UNCHANGED <<record, applied>>
    BY <1>1 DEF Send, Become, In, Holding
  <2>3. \A w \in Writes : outcome'[w] \in Refusals => outcome[w] \in Refusals
    BY <1>1 DEF Send, TypeOK, Refusals
  <2> QED  BY <1>a, <2>1, <2>2, <2>3, AsideClean
<1>2. ASSUME NEW r \in Reqs, Insert(r) PROVE Tended' /\ Shown' /\ Refused'
  <2>1. CASE record[Key(r)] = None
    BY <1>2, <1>a, <2>1, ClaimedClean DEF Insert, personVars
  <2>2. CASE record[Key(r)] # None
    <3>1. To(r, "read").phase = "read"
      BY ToKeeps DEF Phases
    <3>2. /\ ~ Holding(r) /\ reqs' = [reqs EXCEPT ![r] = To(r, "read")]
          /\ UNCHANGED <<record, applied, outcome>>
      BY <1>2, <2>2 DEF Insert, Become, In, Holding, personVars
    <3> QED  BY <1>a, <3>1, <3>2, AsideClean
  <2> QED  BY <2>1, <2>2
<1>3. ASSUME NEW r \in Reqs, Read(r) PROVE Tended' /\ Shown' /\ Refused'
  <2>1. ~ Holding(r) /\ UNCHANGED <<record, applied>>
    BY <1>3 DEF Read, In, Holding, personVars
  <2>2. CASE record[Key(r)] = None
    BY <1>3, <1>d, <2>1, <2>2 DEF Read
  <2>3. CASE record[Key(r)] # None
    <3>1. ~ record[Key(r)].old /\ record[Key(r)] \in Record
      BY <1>a, <1>b, <2>3 DEF Tended, TypeOK
    <3>2. CASE record[Key(r)].write # WriteOf[r]
      BY <1>3, <1>c, <2>1, <2>3, <3>1, <3>2 DEF Read
    <3>3. CASE record[Key(r)].write = WriteOf[r] /\ record[Key(r)].state = "in_progress"
      BY <1>3, <1>c, <2>1, <2>3, <3>1, <3>3 DEF Read, Refusals
    <3>4. CASE record[Key(r)].write = WriteOf[r] /\ record[Key(r)].state = "completed"
      <4>1. Answer(r, record[Key(r)].answer)
        BY <1>3, <2>3, <3>1, <3>4 DEF Read
      <4> QED  BY <1>c, <2>1, <2>3, <3>4, <4>1 DEF Refusals
    <3> QED  BY <3>1, <3>2, <3>3, <3>4 DEF Record
  <2> QED  BY <2>2, <2>3
<1>4. ASSUME NEW r \in Reqs, Take(r) PROVE FALSE
  BY <1>4, <1>a DEF Take, Tended
<1>5. ASSUME NEW r \in Reqs, Ban(r) PROVE Tended' /\ Shown' /\ Refused'
  <2>1. reqs[r].phase \in {"run", "lift"} /\ UNCHANGED faults
    BY <1>0, <1>5 DEF Ban, In
  <2>2. CASE Matches(WriteOf[r])
    BY <1>5, <1>a, <2>1, <2>2, DecidedClean DEF Ban, Apply, Final
  <2>3. CASE ~ Matches(WriteOf[r])
    BY <1>5, <1>a, <2>1, <2>3, DecidedClean DEF Ban, Final, personVars
  <2> QED  BY <2>2, <2>3
<1>6. ASSUME NEW r \in Reqs, FindBan(r) PROVE Tended' /\ Shown' /\ Refused'
  <2>1. CASE ban = 0
    BY <1>0, <1>6, <1>a, <2>1, DecidedClean DEF FindBan, In, Final, personVars
  <2>2. CASE ban # 0
    <3> DEFINE q == [To(r, "lift") EXCEPT !.row = ban]
    <3>1. q.phase = "lift" /\ q.claim = reqs[r].claim
      BY ToKeeps DEF Phases, Request
    <3>2. /\ In(r, "run") /\ reqs' = [reqs EXCEPT ![r] = q]
          /\ UNCHANGED <<record, applied, outcome>>
      BY <1>6, <2>2 DEF FindBan, Become, personVars
    <3> HIDE DEF q
    <3> QED  BY <1>a, <3>1, <3>2, FoundClean
  <2> QED  BY <2>1, <2>2
<1>7. ASSUME NEW r \in Reqs, Lift(r) PROVE Tended' /\ Shown' /\ Refused'
  <2>1. reqs[r].phase \in {"run", "lift"} /\ UNCHANGED faults
    BY <1>0, <1>7 DEF Lift, In
  <2>2. CASE ban = reqs[r].row /\ Matches(WriteOf[r])
    BY <1>7, <1>a, <2>1, <2>2, DecidedClean DEF Lift, Apply, Final
  <2>3. CASE ~ (ban = reqs[r].row /\ Matches(WriteOf[r]))
    BY <1>7, <1>a, <2>1, <2>3, DecidedClean DEF Lift, Final, personVars
  <2> QED  BY <2>2, <2>3
<1>8. ASSUME NEW r \in Reqs, Store(r) PROVE Tended' /\ Shown' /\ Refused'
  BY <1>0, <1>8, <1>a, StoreClean
<1>9. ASSUME NEW r \in Reqs, ReleaseKey(r) PROVE FALSE
  BY <1>9, <1>a DEF ReleaseKey, Tended, Holding, In
<1>10. ASSUME NEW r \in Reqs, HandlerFails(r) \/ RecordFails(r) \/ Crash(r) PROVE FALSE
  BY <1>0, <1>10 DEF HandlerFails, RecordFails, Crash
<1>11. ASSUME NEW k \in Keys, GrowOld(k) PROVE FALSE
  <2>1. record[k] \in Record /\ record[k] # None /\ record[k].state = "in_progress" /\ Orphan(k)
    BY <1>0, <1>11 DEF GrowOld, TypeOK
  <2> QED  BY <1>a, <2>1 DEF Tended, Orphan
<1>12. ASSUME NEW k \in Keys, Sweep(k) PROVE FALSE
  BY <1>12, <1>a DEF Sweep, Tended
<1>13. CASE UNCHANGED vars
  BY <1>13, <1>a DEF vars, personVars, Tended, Shown, Refused, Holding, Mine, In, Key
<1> QED
  BY <1>1, <1>2, <1>3, <1>4, <1>5, <1>6, <1>7, <1>8, <1>9, <1>10, <1>11, <1>12, <1>13
  DEF Next, Progress, Handle

-----------------------------------------------------------------------------
(* How often a write is made                                               *)

\* A request without a claim tries for one, or gives up.
Aside(r, q) == ~ Holding(r) /\ q.phase \in {"idle", "insert", "read"}

\* It has found an old record.
Looks(r, q) ==
    /\ ~ Holding(r) /\ q.phase = "take"
    /\ record[Key(r)] # None /\ record[Key(r)].old
    /\ q.claim = record[Key(r)].claim /\ q.seen = record[Key(r)].state

\* The handler of a claimed request gets on.
Works(r, q) ==
    /\ reqs[r].phase \in {"run", "lift"} /\ q.phase \in {"lift", "store"}
    /\ q.claim = reqs[r].claim

Fails(r, q) == Holding(r) /\ q.phase \in {"idle", "release"} /\ faults' = faults + 1

Writes1(r, q) ==
    /\ reqs[r].phase \in {"run", "lift"} /\ q.phase \in {"store", "release"}
    /\ applied' = [applied EXCEPT ![WriteOf[r]] = applied[WriteOf[r]] + 1]

\* What one request does, other than to claim a key or to finish its record.
Moves(r, q) ==
    /\ reqs' = [reqs EXCEPT ![r] = q] /\ UNCHANGED record
    /\ Aside(r, q) \/ Looks(r, q) \/ Works(r, q) \/ Fails(r, q)
    /\ UNCHANGED applied \/ Writes1(r, q)

Claiming(r) ==
    /\ Claimed(r) /\ UNCHANGED <<applied, faults>>
    /\ \/ In(r, "insert") /\ record[Key(r)] = None
       \/ In(r, "take") /\ IsSeen(record[Key(r)], reqs[r])

Finishing(r) == Store(r) \/ ReleaseKey(r)

Ageing(k) == GrowOld(k) \/ Sweep(k)

\* A request that has no claim stays without one.
LEMMA AnswerMoves ==
    ASSUME TypeOK, NEW r \in Reqs, NEW answer, ~ Holding(r), Answer(r, answer), UNCHANGED <<record, applied>>
    PROVE  \E q : Moves(r, q)
<1>1. Moves(r, Idle)
  BY DEF Moves, Aside, Answer, Become, Idle
<1> QED  BY <1>1

\* Another turn of the claim loop makes no claim.
LEMMA NextTryMoves ==
    ASSUME TypeOK, NEW r \in Reqs, ~ Holding(r), NextTry(r), UNCHANGED <<record, applied>>
    PROVE  \E q : Moves(r, q)
<1> DEFINE q == [Idle EXCEPT !.phase = "insert", !.tries = reqs[r].tries + 1]
<1>1. q.phase = "insert"
  BY DEF Idle
<1>2. CASE Become(r, q)
  <2>1. Moves(r, q)
    BY <1>1, <1>2 DEF Moves, Aside, Become
  <2> QED  BY <2>1
<1>3. CASE Answer(r, "busy")
  BY <1>3, AnswerMoves
<1> QED  BY <1>2, <1>3 DEF NextTry

\* The handler decides, and has written or not.
LEMMA DecidedMoves ==
    ASSUME TypeOK, NEW r \in Reqs, NEW answer, reqs[r].phase \in {"run", "lift"}, Decided(r, answer),
           \/ UNCHANGED applied
           \/ applied' = [applied EXCEPT ![WriteOf[r]] = applied[WriteOf[r]] + 1]
    PROVE  \E q : Moves(r, q)
<1>1. CASE Become(r, [To(r, "store") EXCEPT !.answer = answer])
  <2> DEFINE q == [To(r, "store") EXCEPT !.answer = answer]
  <2>1. q.phase = "store" /\ q.claim = reqs[r].claim
    BY ToKeeps DEF Phases, Request
  <2>2. Moves(r, q)
    BY <1>1, <2>1 DEF Moves, Works, Writes1, Decided, Become
  <2> QED  BY <2>2
<1>2. CASE Fault("late") /\ Become(r, [To(r, "release") EXCEPT !.answer = "error"])
  <2> DEFINE q == [To(r, "release") EXCEPT !.answer = "error"]
  <2>1. q.phase = "release"
    BY ToKeeps DEF Phases, Request
  <2>2. Moves(r, q)
    BY <1>2, <2>1 DEF Moves, Fails, Writes1, Decided, Become, Holding, Fault
  <2> QED  BY <2>2
<1> QED  BY <1>1, <1>2 DEF Decided

\* What a request does is one of these.
LEMMA RequestKinds ==
    ASSUME TypeOK, NEW r \in Reqs, Send(r) \/ Progress(r) \/ HandlerFails(r) \/ RecordFails(r) \/ Crash(r)
    PROVE  Claiming(r) \/ Finishing(r) \/ \E q : Moves(r, q)
<1>1. CASE Send(r)
  <2>1. To(r, "insert").phase = "insert"
    BY ToKeeps DEF Phases
  <2>2. Moves(r, To(r, "insert"))
    BY <1>1, <2>1 DEF Moves, Aside, Send, Become, In, Holding
  <2> QED  BY <2>2
<1>2. CASE Insert(r)
  <2>1. CASE record[Key(r)] = None
    BY <1>2, <2>1 DEF Insert, Claiming, Claimed, personVars
  <2>2. CASE record[Key(r)] # None
    <3>1. To(r, "read").phase = "read"
      BY ToKeeps DEF Phases
    <3>2. Moves(r, To(r, "read"))
      BY <1>2, <2>2, <3>1 DEF Moves, Aside, Insert, Become, In, Holding, personVars
    <3> QED  BY <3>2
  <2> QED  BY <2>1, <2>2
<1>3. CASE Read(r)
  <2>1. ~ Holding(r) /\ UNCHANGED <<record, applied>>
    BY <1>3 DEF Read, In, Holding, personVars
  <2>2. CASE record[Key(r)] # None /\ record[Key(r)].old
    <3> DEFINE q == [To(r, "take") EXCEPT !.claim = record[Key(r)].claim, !.seen = record[Key(r)].state]
    <3>1. q.phase = "take" /\ q.claim = record[Key(r)].claim /\ q.seen = record[Key(r)].state
      BY ToKeeps DEF Phases, Request
    <3>2. Moves(r, q)
      BY <1>3, <2>1, <2>2, <3>1 DEF Moves, Looks, Read, Become
    <3> QED  BY <3>2
  <2>3. CASE record[Key(r)] = None
    BY <1>3, <2>1, <2>3, NextTryMoves DEF Read
  <2>4. ASSUME NEW answer, Answer(r, answer)
        PROVE  \E q : Moves(r, q)
    BY <2>1, <2>4, AnswerMoves
  <2> QED  BY <1>3, <2>2, <2>3, <2>4 DEF Read
<1>4. CASE Take(r)
  <2>1. CASE IsSeen(record[Key(r)], reqs[r])
    BY <1>4, <2>1 DEF Take, Claiming, Claimed, personVars
  <2>2. CASE ~ IsSeen(record[Key(r)], reqs[r])
    BY <1>4, <2>2, NextTryMoves DEF Take, In, Holding, personVars
  <2> QED  BY <2>1, <2>2
<1>5. CASE Ban(r)
  BY <1>5, DecidedMoves DEF Ban, Apply, In, personVars
<1>6. CASE FindBan(r)
  <2>1. CASE ban = 0
    BY <1>6, <2>1, DecidedMoves DEF FindBan, In, personVars
  <2>2. CASE ban # 0
    <3> DEFINE q == [To(r, "lift") EXCEPT !.row = ban]
    <3>1. q.phase = "lift" /\ q.claim = reqs[r].claim
      BY ToKeeps DEF Phases, Request
    <3>2. Moves(r, q)
      BY <1>6, <2>2, <3>1 DEF Moves, Works, FindBan, Become, In, personVars
    <3> QED  BY <3>2
  <2> QED  BY <2>1, <2>2
<1>7. CASE Lift(r)
  BY <1>7, DecidedMoves DEF Lift, Apply, In, personVars
<1>8. CASE HandlerFails(r)
  <2> DEFINE q == [To(r, "release") EXCEPT !.answer = "error"]
  <2>1. q.phase = "release"
    BY ToKeeps DEF Phases, Request
  <2>2. Moves(r, q)
    BY <1>8, <2>1 DEF Moves, Fails, HandlerFails, Become, Holding, Fault, personVars
  <2> QED  BY <2>2
<1>9. CASE RecordFails(r)
  <2>1. Moves(r, Idle)
    BY <1>9 DEF Moves, Fails, RecordFails, Become, Holding, Fault, Idle, personVars
  <2> QED  BY <2>1
<1>10. CASE Crash(r)
  <2>1. Moves(r, Idle)
    BY <1>10 DEF Moves, Aside, Fails, Crash, Become, Holding, Fault, Idle, personVars
  <2> QED  BY <2>1
<1> QED  BY <1>1, <1>2, <1>3, <1>4, <1>5, <1>6, <1>7, <1>8, <1>9, <1>10 DEF Progress, Handle, Finishing

\* What a step is, as far as claims and writes go.
LEMMA StepKinds ==
    ASSUME TypeOK, [Next]_vars
    PROVE  \/ \E r \in Reqs : Claiming(r)
           \/ \E r \in Reqs : Finishing(r)
           \/ \E r \in Reqs : \E q : Moves(r, q)
           \/ \E k \in Keys : Ageing(k)
           \/ UNCHANGED vars
  BY RequestKinds DEF Next, Ageing

\* A step fails once at most.
LEMMA FaultsGrow ==
    ASSUME TypeOK, [Next]_vars
    PROVE  faults' \in {faults, faults + 1}
<1>1. ASSUME NEW r \in Reqs, NEW answer, Answer(r, answer) PROVE faults' \in {faults, faults + 1}
  BY <1>1 DEF Answer, Fault
<1>2. ASSUME NEW r \in Reqs, NextTry(r) PROVE faults' \in {faults, faults + 1}
  BY <1>1, <1>2 DEF NextTry
<1>3. ASSUME NEW r \in Reqs, NEW answer, Decided(r, answer) PROVE faults' \in {faults, faults + 1}
  BY <1>3 DEF Decided, Fault
<1>4. ASSUME NEW r \in Reqs, Insert(r) \/ Read(r) \/ Take(r) PROVE faults' \in {faults, faults + 1}
  BY <1>1, <1>2, <1>4 DEF Insert, Read, Take, Claimed
<1>5. ASSUME NEW r \in Reqs, Handle(r) PROVE faults' \in {faults, faults + 1}
  BY <1>3, <1>5 DEF Handle, Ban, FindBan, Lift
<1>6. ASSUME NEW r \in Reqs, Store(r) \/ ReleaseKey(r) PROVE faults' \in {faults, faults + 1}
  BY <1>1, <1>6 DEF Store, ReleaseKey
<1>7. ASSUME NEW r \in Reqs, Send(r) \/ HandlerFails(r) \/ RecordFails(r) \/ Crash(r)
      PROVE  faults' \in {faults, faults + 1}
  BY <1>7 DEF Send, HandlerFails, RecordFails, Crash, Fault
<1>8. ASSUME NEW k \in Keys, GrowOld(k) \/ Sweep(k) PROVE faults' \in {faults, faults + 1}
  BY <1>8 DEF GrowOld, Sweep, Fault
<1> QED  BY <1>4, <1>5, <1>6, <1>7, <1>8 DEF Next, Progress, vars

\* The runs of a write are counted.
LEMMA RunsCounted ==
    ASSUME TypeOK, NEW w \in Writes
    PROVE  /\ IsFiniteSet(Running(w)) /\ Cardinality(Running(w)) \in Nat
           /\ applied[w] \in Nat /\ Runs(w) \in Nat
<1>1. IsFiniteSet(Running(w))
  <2>1. Running(w) \subseteq Reqs
    BY DEF Running
  <2> QED  BY <2>1, FS_Subset
<1>2. Cardinality(Running(w)) \in Nat
  BY <1>1, FS_CardinalityType
<1> QED  BY <1>1, <1>2 DEF TypeOK, Runs

\* So they are after a step.
LEMMA RunsCountedAfter ==
    ASSUME TypeOK', NEW w \in Writes
    PROVE  /\ IsFiniteSet(Running(w)') /\ Cardinality(Running(w)') \in Nat
           /\ applied'[w] \in Nat /\ Runs(w)' \in Nat
<1>1. IsFiniteSet(Running(w)')
  <2>1. Running(w)' \subseteq Reqs
    BY DEF Running
  <2> QED  BY <2>1, FS_Subset
<1>2. Cardinality(Running(w)') \in Nat
  BY <1>1, FS_CardinalityType
<1> QED  BY <1>1, <1>2 DEF TypeOK, Runs

\* Only a claim adds a run.
LEMMA RunsFall ==
    ASSUME TypeOK, TypeOK', NEW w \in Writes,
           \/ \E r \in Reqs : Finishing(r)
           \/ \E r \in Reqs : \E q : Moves(r, q)
           \/ \E k \in Keys : Ageing(k)
           \/ UNCHANGED vars
    PROVE  Runs(w)' <= Runs(w)
<1>1. /\ IsFiniteSet(Running(w)) /\ Cardinality(Running(w)) \in Nat /\ applied[w] \in Nat
      /\ applied'[w] \in Nat /\ Cardinality(Running(w)') \in Nat
  BY RunsCounted, RunsCountedAfter
<1>2. ASSUME applied'[w] = applied[w], Running(w)' \subseteq Running(w)
      PROVE  Runs(w)' <= Runs(w)
  <2>1. Cardinality(Running(w)') <= Cardinality(Running(w))
    BY <1>1, <1>2, FS_Subset
  <2> QED  BY <1>1, <1>2, <2>1 DEF Runs
<1>3. ASSUME NEW r \in Reqs, Finishing(r) PROVE Runs(w)' <= Runs(w)
  <2>1. reqs' = [reqs EXCEPT ![r] = Idle] /\ UNCHANGED applied
    BY <1>3 DEF Finishing, Store, ReleaseKey, Answer, Become, personVars
  <2>2. Running(w)' \subseteq Running(w)
    BY <2>1 DEF Running, TypeOK, Idle
  <2> QED  BY <1>2, <2>1, <2>2
<1>4. ASSUME NEW r \in Reqs, NEW q, Moves(r, q) PROVE Runs(w)' <= Runs(w)
  <2>1. Running(w)' \subseteq Running(w)
    BY <1>4 DEF Running, TypeOK, Moves, Aside, Looks, Works, Fails
  <2>2. CASE UNCHANGED applied \/ WriteOf[r] # w
    BY <1>2, <1>4, <2>1, <2>2 DEF Moves, Writes1, TypeOK
  <2>3. CASE Writes1(r, q) /\ WriteOf[r] = w
    <3>1. r \in Running(w) /\ applied'[w] = applied[w] + 1
      BY <2>3 DEF Writes1, Running, TypeOK
    <3>2. Running(w)' \subseteq Running(w) \ {r}
      BY <1>4, <2>1, <2>3 DEF Running, TypeOK, Moves, Writes1
    <3>3. IsFiniteSet(Running(w) \ {r}) /\ Cardinality(Running(w) \ {r}) = Cardinality(Running(w)) - 1
      BY <1>1, <3>1, FS_RemoveElement
    <3>4. Cardinality(Running(w)') <= Cardinality(Running(w)) - 1
      BY <3>2, <3>3, FS_Subset
    <3> QED  BY <1>1, <3>1, <3>4 DEF Runs
  <2> QED  BY <1>4, <2>2, <2>3 DEF Moves
<1>5. ASSUME NEW k \in Keys, Ageing(k) PROVE Runs(w)' <= Runs(w)
  <2>1. UNCHANGED <<reqs, applied>>
    BY <1>5 DEF Ageing, GrowOld, Sweep, personVars
  <2> QED  BY <1>2, <2>1 DEF Running
<1>6. CASE UNCHANGED vars
  BY <1>2, <1>6 DEF vars, personVars, Running
<1> QED  BY <1>3, <1>4, <1>5, <1>6

\* Without a failure a record stays shut, unless its request gives it up.
LEMMA ShutKept ==
    ASSUME TypeOK, NEW k \in Keys, Shut(k), faults' = faults,
           \A r \in Reqs : ReleaseKey(r) /\ Mine(r) => Key(r) # k,
           \/ \E r \in Reqs : Finishing(r)
           \/ \E r \in Reqs : \E q : Moves(r, q)
           \/ \E j \in Keys : Ageing(j)
           \/ UNCHANGED vars
    PROVE  Shut(k)'
<1>1. record[k] \in Record /\ faults \in Nat /\ record[k] # None /\ ~ record[k].old
  BY DEF TypeOK, Shut
<1>2. record[k].state = "in_progress" =>
          \E s \in Reqs : Holding(s) /\ Key(s) = k /\ Mine(s)
  BY DEF Shut, Orphan
<1>3. ASSUME NEW r \in Reqs, record'[k] = record[k],
             \A s \in Reqs \ {r} : reqs'[s] = reqs[s],
             Holding(r) /\ Key(r) = k /\ Mine(r) => Holding(r)' /\ reqs'[r].claim = reqs[r].claim
      PROVE  Shut(k)'
  <2>1. ASSUME NEW s \in Reqs, Holding(s), Key(s) = k, Mine(s) PROVE (Holding(s) /\ Key(s) = k /\ Mine(s))'
    BY <1>3, <2>1 DEF Holding, Key, Mine
  <2> QED  BY <1>1, <1>2, <1>3, <2>1 DEF Shut, Orphan
<1>4. ASSUME NEW r \in Reqs, Finishing(r) PROVE Shut(k)'
  <2>1. reqs' = [reqs EXCEPT ![r] = Idle]
    BY <1>4 DEF Finishing, Store, ReleaseKey, Answer, Become
  <2>2. CASE Store(r) /\ Mine(r) /\ Key(r) = k
    <3>1. record'[k] = [record[k] EXCEPT !.state = "completed", !.answer = reqs[r].answer, !.old = FALSE]
      BY <2>2 DEF Store, Keep, TypeOK
    <3>2. record'[k] \in Record
      <4>1. reqs[r].answer \in Answers \cup {"none"}
        BY DEF TypeOK, Request
      <4> QED  BY <1>1, <3>1, <4>1 DEF Record
    <3> QED  BY <1>1, <3>1, <3>2, NoneAssumption DEF Shut, Record
  <2>3. CASE ~ (Mine(r) /\ Key(r) = k)
    <3>1. record'[k] = record[k]
      BY <1>4, <2>3 DEF Finishing, Store, ReleaseKey, Keep, TypeOK
    <3> QED  BY <1>3, <2>1, <2>3, <3>1 DEF TypeOK
  <2> QED  BY <1>4, <2>2, <2>3 DEF Finishing
<1>5. ASSUME NEW r \in Reqs, NEW q, Moves(r, q) PROVE Shut(k)'
  <2>1. \A s \in Reqs \ {r} : reqs'[s] = reqs[s]
    BY <1>5 DEF Moves, TypeOK
  <2>2. Holding(r) => Holding(r)' /\ reqs'[r].claim = reqs[r].claim
    BY <1>1, <1>5 DEF Moves, Aside, Looks, Works, Fails, Holding, TypeOK
  <2>3. record'[k] = record[k]
    BY <1>5 DEF Moves
  <2> QED  BY <1>3, <2>1, <2>2, <2>3
<1>6. ASSUME NEW j \in Keys, Ageing(j) PROVE Shut(k)'
  <2>1. UNCHANGED reqs /\ j # k
    BY <1>1, <1>2, <1>6 DEF Ageing, GrowOld, Sweep, Fault, Orphan
  <2>2. record'[k] = record[k]
    BY <1>6, <2>1 DEF Ageing, GrowOld, Sweep, Keep, TypeOK
  <2> QED  BY <1>1, <1>2, <2>1, <2>2 DEF Shut, Orphan, Holding, Key, Mine
<1>7. CASE UNCHANGED vars
  BY <1>1, <1>2, <1>7 DEF vars, Shut, Orphan, Holding, Key, Mine
<1> QED  BY <1>4, <1>5, <1>6, <1>7

\* Without a failure no request comes to give up its record.
LEMMA ReleaseKept ==
    ASSUME TypeOK, TypeOK', NEW r \in Reqs, In(r, "release")', Mine(r)', faults' = faults,
           \/ \E s \in Reqs : Finishing(s)
           \/ \E s \in Reqs : \E q : Moves(s, q)
           \/ \E k \in Keys : Ageing(k)
           \/ UNCHANGED vars
    PROVE  In(r, "release") /\ Mine(r)
<1>1. faults \in Nat /\ Key(r) \in Keys
  BY DEF TypeOK, Key
<1>2. ASSUME NEW s \in Reqs, Finishing(s) PROVE In(r, "release") /\ Mine(r)
  <2>1. reqs' = [reqs EXCEPT ![s] = Idle]
    BY <1>2 DEF Finishing, Store, ReleaseKey, Answer, Become
  <2>2. reqs'[r] = reqs[r]
    BY <2>1 DEF In, Idle, TypeOK
  <2>3. record'[Key(r)] = record[Key(r)]
    <3>1. CASE Store(s) /\ Mine(s) /\ Key(s) = Key(r)
      <4>1. record[Key(r)] \in Record
        BY <1>1, <3>1 DEF Mine, TypeOK
      <4>2. record'[Key(r)] = [record[Key(r)] EXCEPT
                !.state = "completed", !.answer = reqs[s].answer, !.old = FALSE]
        BY <1>1, <3>1 DEF Store, Keep, TypeOK
      <4>3. record'[Key(r)].state = "completed"
        BY <4>1, <4>2 DEF Record
      <4> QED  BY <4>3 DEF Mine, Key
    <3>2. CASE ReleaseKey(s) /\ Mine(s) /\ Key(s) = Key(r)
      BY <1>1, <3>2 DEF ReleaseKey, Keep, TypeOK, Mine, Key
    <3>3. CASE ~ (Mine(s) /\ Key(s) = Key(r))
      BY <1>1, <1>2, <3>3 DEF Finishing, Store, ReleaseKey, Keep, TypeOK
    <3> QED  BY <1>2, <3>1, <3>2, <3>3 DEF Finishing
  <2> QED  BY <2>2, <2>3 DEF In, Mine, Key
<1>3. ASSUME NEW s \in Reqs, NEW q, Moves(s, q) PROVE In(r, "release") /\ Mine(r)
  <2>1. s # r
    BY <1>1, <1>3 DEF Moves, Aside, Looks, Works, Fails, In, TypeOK
  <2> QED  BY <1>3, <2>1 DEF Moves, TypeOK, In, Mine, Key
<1>4. ASSUME NEW k \in Keys, Ageing(k) PROVE In(r, "release") /\ Mine(r)
  <2>1. UNCHANGED reqs
    BY <1>4 DEF Ageing, GrowOld, Sweep
  <2>2. CASE k = Key(r)
    <3>1. record[k] \in Record /\ GrowOld(k)
      BY <1>4, <2>2 DEF Ageing, GrowOld, Sweep, Keep, TypeOK, Mine, Key
    <3>2. record'[k].claim = record[k].claim /\ record'[k].state = record[k].state
      BY <3>1 DEF GrowOld, Keep, TypeOK, Record
    <3> QED  BY <2>1, <2>2, <3>1, <3>2 DEF GrowOld, In, Mine, Key
  <2>3. CASE k # Key(r)
    BY <1>1, <1>4, <2>1, <2>3 DEF Ageing, GrowOld, Sweep, Keep, TypeOK, In, Mine, Key
  <2> QED  BY <2>2, <2>3
<1>5. CASE UNCHANGED vars
  BY <1>5 DEF vars, In, Mine, Key
<1> QED  BY <1>2, <1>3, <1>4, <1>5

\* A request that is about to take an old record over has seen it old.
LEMMA LookedStep ==
    ASSUME TypeOK, TypeOK', Looked, [Next]_vars
    PROVE  Looked'
<1> SUFFICES ASSUME NEW r \in Reqs, In(r, "take")', record'[Key(r)] # None,
                    record'[Key(r)].claim = reqs'[r].claim
             PROVE  /\ reqs'[r].seen = "completed" => record'[Key(r)].state = "completed"
                    /\ record'[Key(r)].state = reqs'[r].seen => record'[Key(r)].old
  BY DEF Looked, Key
<1>1. Key(r) \in Keys
  BY DEF Key
<1>2. ASSUME reqs'[r] = reqs[r], record'[Key(r)] = record[Key(r)]
      PROVE  /\ reqs'[r].seen = "completed" => record'[Key(r)].state = "completed"
             /\ record'[Key(r)].state = reqs'[r].seen => record'[Key(r)].old
  BY <1>2 DEF Looked, In
<1>3. ASSUME NEW s \in Reqs, Claiming(s)
      PROVE  reqs'[r] = reqs[r] /\ record'[Key(r)] = record[Key(r)]
  <2>1. [Idle EXCEPT !.phase = "run", !.claim = NewClaim].phase = "run"
    BY DEF Idle
  <2>2. s # r /\ reqs'[r] = reqs[r]
    BY <1>3, <2>1 DEF Claiming, Claimed, Become, In, TypeOK
  <2>3. reqs[r].claim \in UsedClaims
    BY DEF UsedClaims
  <2>4. Key(s) # Key(r)
    BY <1>1, <1>3, <2>2, <2>3, NewClaimFresh DEF Claiming, Claimed, Keep, TypeOK
  <2> QED  BY <1>1, <1>3, <2>2, <2>4 DEF Claiming, Claimed, Keep, TypeOK
<1>4. ASSUME NEW s \in Reqs, Finishing(s)
      PROVE  /\ reqs'[r].seen = "completed" => record'[Key(r)].state = "completed"
             /\ record'[Key(r)].state = reqs'[r].seen => record'[Key(r)].old
  <2>1. reqs' = [reqs EXCEPT ![s] = Idle]
    BY <1>4 DEF Finishing, Store, ReleaseKey, Answer, Become
  <2>2. reqs'[r] = reqs[r]
    BY <2>1 DEF In, Idle, TypeOK
  <2>3. CASE Store(s) /\ Mine(s) /\ Key(s) = Key(r)
    <3>1. record[Key(r)] \in Record /\ record[Key(r)] # None /\ record[Key(r)].state = "in_progress"
      BY <1>1, <2>3 DEF Mine, TypeOK
    <3>2. record'[Key(r)].state = "completed" /\ record'[Key(r)].claim = record[Key(r)].claim
      <4>1. record'[Key(r)] = [record[Key(r)] EXCEPT
                !.state = "completed", !.answer = reqs[s].answer, !.old = FALSE]
        BY <1>1, <2>3 DEF Store, Keep, TypeOK
      <4> QED  BY <3>1, <4>1 DEF Record
    <3>3. reqs[r].seen # "completed"
      BY <2>2, <3>1, <3>2 DEF Looked, In
    <3> QED  BY <2>2, <3>2, <3>3
  <2>4. CASE ReleaseKey(s) /\ Mine(s) /\ Key(s) = Key(r)
    BY <1>1, <2>4 DEF ReleaseKey, Keep, TypeOK
  <2>5. CASE ~ (Mine(s) /\ Key(s) = Key(r))
    <3>1. record'[Key(r)] = record[Key(r)]
      BY <1>1, <1>4, <2>5 DEF Finishing, Store, ReleaseKey, Keep, TypeOK
    <3> QED  BY <1>2, <2>2, <3>1
  <2> QED  BY <1>4, <2>3, <2>4, <2>5 DEF Finishing
<1>5. ASSUME NEW s \in Reqs, NEW q, Moves(s, q)
      PROVE  /\ reqs'[r].seen = "completed" => record'[Key(r)].state = "completed"
             /\ record'[Key(r)].state = reqs'[r].seen => record'[Key(r)].old
  <2>1. CASE s # r
    BY <1>2, <1>5, <2>1 DEF Moves, TypeOK
  <2>2. CASE s = r
    <3>1. reqs'[r] = q /\ record' = record
      BY <1>5, <2>2 DEF Moves, TypeOK
    <3>2. Looks(r, q)
      BY <1>5, <2>2, <3>1 DEF Moves, Aside, Works, Fails, In
    <3> QED  BY <3>1, <3>2 DEF Looks
  <2> QED  BY <2>1, <2>2
<1>6. ASSUME NEW k \in Keys, Ageing(k)
      PROVE  /\ reqs'[r].seen = "completed" => record'[Key(r)].state = "completed"
             /\ record'[Key(r)].state = reqs'[r].seen => record'[Key(r)].old
  <2>1. UNCHANGED reqs
    BY <1>6 DEF Ageing, GrowOld, Sweep
  <2>2. CASE k = Key(r)
    <3>1. record[k] \in Record /\ record[k] # None /\ GrowOld(k)
      BY <1>6, <2>2 DEF Ageing, GrowOld, Sweep, Keep, TypeOK
    <3>2. /\ record'[k].claim = record[k].claim /\ record'[k].state = record[k].state
          /\ record'[k].old
      BY <3>1 DEF GrowOld, Keep, TypeOK, Record
    <3> QED  BY <2>1, <2>2, <3>1, <3>2 DEF Looked, In
  <2>3. CASE k # Key(r)
    BY <1>1, <1>2, <1>6, <2>1, <2>3 DEF Ageing, GrowOld, Sweep, Keep, TypeOK
  <2> QED  BY <2>2, <2>3
<1>7. CASE UNCHANGED vars
  BY <1>2, <1>7 DEF vars
<1> QED  BY <1>2, <1>3, <1>4, <1>5, <1>6, <1>7, StepKinds

\* A claim is made where the write has runs left, and uses one of them.
LEMMA ClaimingBudget ==
    ASSUME TypeOK, TypeOK', Budget, Looked, NEW r \in Reqs, Claiming(r)
    PROVE  Budget'
<1> DEFINE k == Key(r)
           q == [Idle EXCEPT !.phase = "run", !.claim = NewClaim]
           rec == [write |-> WriteOf[r], claim |-> NewClaim, state |-> "in_progress",
                   answer |-> "none", old |-> FALSE]
<1>1. q.phase = "run" /\ q.claim = NewClaim
  BY DEF Idle
<1>2. /\ reqs' = [reqs EXCEPT ![r] = q] /\ record' = [record EXCEPT ![k] = rec]
      /\ UNCHANGED <<applied, faults>>
  BY DEF Claiming, Claimed, Become, Keep
<1>3. k \in Keys /\ faults \in Nat /\ rec # None
  <2>1. rec \in Record
    BY NewClaimFresh DEF Record
  <2>2. rec # None
    BY <2>1, NoneAssumption
  <2>3. k \in Keys
    BY DEF Key
  <2> QED  BY <2>2, <2>3 DEF TypeOK
<1>4. rec.claim = NewClaim /\ rec.state = "in_progress" /\ ~ rec.old
  OBVIOUS
<1> HIDE DEF q, rec
<1>5. ~ Shut(k)
  BY <1>3 DEF Claiming, Shut, Looked, IsSeen
<1>6. ~ Holding(r) /\ reqs[r].phase \in {"insert", "take"}
  BY DEF Claiming, In, Holding
<1>7. Shut(k)'
  <2>1. record'[k] = rec /\ reqs'[r] = q
    BY <1>2, <1>3 DEF TypeOK
  <2> QED  BY <1>1, <1>3, <1>4, <2>1 DEF Shut, Orphan, Holding, Mine, Key
<1>8. ASSUME NEW w \in Writes, w # WriteOf[r] PROVE Runs(w)' = Runs(w)
  <2>1. Running(w)' = Running(w)
    BY <1>2, <1>8 DEF Running, TypeOK
  <2> QED  BY <1>2, <2>1 DEF Runs
<1>9. Runs(WriteOf[r])' <= Runs(WriteOf[r]) + 1
  <2> DEFINE w == WriteOf[r]
  <2>1. /\ IsFiniteSet(Running(w)) /\ Cardinality(Running(w)) \in Nat /\ applied[w] \in Nat
    BY RunsCounted
  <2>2. r \notin Running(w) /\ Running(w)' = Running(w) \cup {r}
    BY <1>1, <1>2, <1>6 DEF Running, TypeOK
  <2>3. Cardinality(Running(w) \cup {r}) = Cardinality(Running(w)) + 1
    BY <2>1, <2>2, FS_AddElement
  <2> QED  BY <1>2, <2>1, <2>2, <2>3 DEF Runs
<1>10. \A w \in Writes : Runs(w) \in Nat
  BY RunsCounted
<1>11. \A w \in Writes : KeyOf[w] = k => Runs(w) <= faults
  BY <1>3, <1>5, <1>10 DEF Budget
<1>12. ASSUME NEW j \in Keys, j # k, Shut(j) PROVE Shut(j)'
  <2>1. record'[j] = record[j] /\ \A s \in Reqs \ {r} : reqs'[s] = reqs[s]
    BY <1>2, <1>3, <1>12 DEF TypeOK
  <2> QED  BY <1>6, <1>12, <2>1 DEF Shut, Orphan, Holding, Mine, Key
<1>13. ASSUME NEW w \in Writes
       PROVE  Runs(w)' <= 1 + faults /\ (Runs(w)' = 1 + faults => Shut(KeyOf[w])')
  <2>1. CASE KeyOf[w] = k
    <3>1. Runs(w)' <= Runs(w) + 1
      BY <1>8, <1>9, <1>10
    <3>2. Runs(w)' \in Nat
      BY RunsCountedAfter
    <3> QED  BY <1>3, <1>7, <1>10, <1>11, <2>1, <3>1, <3>2
  <2>2. CASE KeyOf[w] # k
    <3>1. Runs(w)' = Runs(w) /\ KeyOf[w] \in Keys
      BY <1>8, <2>2 DEF Key
    <3> QED  BY <1>12, <2>2, <3>1 DEF Budget
  <2> QED  BY <2>1, <2>2
<1>14. ASSUME NEW s \in Reqs, In(s, "release")', Mine(s)', NEW w \in Writes, KeyOf[w] = Key(s)
       PROVE  Runs(w)' <= faults
  <2>1. s # r /\ reqs'[s] = reqs[s]
    BY <1>1, <1>2, <1>14 DEF In, TypeOK
  <2>2. Key(s) # k
    <3>1. reqs[s].claim \in UsedClaims
      BY DEF UsedClaims
    <3> QED  BY <1>2, <1>3, <1>4, <1>14, <2>1, <3>1, NewClaimFresh DEF Mine, Key, TypeOK
  <2>3. In(s, "release") /\ Mine(s)
    BY <1>2, <1>14, <2>1, <2>2 DEF In, Mine, Key, TypeOK
  <2>4. w # WriteOf[r]
    BY <1>14, <2>2 DEF Key
  <2> QED  BY <1>8, <1>14, <2>3, <2>4 DEF Budget
<1> QED  BY <1>2, <1>13, <1>14 DEF Budget, Key

\* No step spends more than there is.
LEMMA BudgetStep ==
    ASSUME TypeOK, TypeOK', Budget, Looked, [Next]_vars
    PROVE  Budget'
<1>1. CASE \E r \in Reqs : Claiming(r)
  BY <1>1, ClaimingBudget
<1>2. CASE \/ \E r \in Reqs : Finishing(r)
           \/ \E r \in Reqs : \E q : Moves(r, q)
           \/ \E k \in Keys : Ageing(k)
           \/ UNCHANGED vars
  <2>1. \A w \in Writes : Runs(w)' <= Runs(w)
    BY <1>2, RunsFall
  <2>2. \A w \in Writes : Runs(w) \in Nat /\ Runs(w)' \in Nat
    BY RunsCounted, RunsCountedAfter
  <2>3. faults \in Nat
    BY DEF TypeOK
  <2>4. CASE faults' = faults + 1
    BY <2>1, <2>2, <2>3, <2>4 DEF Budget
  <2>5. CASE faults' = faults
    <3>1. ASSUME NEW w \in Writes, Runs(w)' = 1 + faults PROVE Shut(KeyOf[w])'
      <4>1. Runs(w) = 1 + faults /\ Shut(KeyOf[w]) /\ KeyOf[w] \in Keys
        BY <2>1, <2>2, <2>3, <3>1 DEF Budget
      <4>2. ASSUME NEW r \in Reqs, ReleaseKey(r), Mine(r), Key(r) = KeyOf[w] PROVE FALSE
        BY <2>2, <2>3, <4>1, <4>2 DEF Budget, ReleaseKey
      <4> QED  BY <1>2, <2>5, <4>1, <4>2, ShutKept
    <3>2. ASSUME NEW r \in Reqs, In(r, "release")', Mine(r)', NEW w \in Writes, KeyOf[w] = Key(r)
          PROVE  Runs(w)' <= faults
      <4>1. In(r, "release") /\ Mine(r)
        BY <1>2, <2>5, <3>2, ReleaseKept
      <4> QED  BY <2>1, <2>2, <2>3, <3>2, <4>1 DEF Budget
    <3>3. ASSUME NEW w \in Writes PROVE Runs(w)' <= 1 + faults
      BY <2>1, <2>2, <2>3 DEF Budget
    <3> QED  BY <2>5, <3>1, <3>2, <3>3 DEF Budget, Key
  <2> QED  BY <2>4, <2>5, FaultsGrow
<1> QED  BY <1>1, <1>2, StepKinds

-----------------------------------------------------------------------------
(* The theorems                                                            *)

IInv == TypeOK /\ Distinct /\ Owned /\ Truth /\ Passed /\ Clean /\ Budget /\ Looked

\* Nothing is claimed, sent or answered at first.
LEMMA InitIInv ==
    ASSUME Init
    PROVE  IInv
<1>1. TypeOK
  BY RequestTypes DEF Init, TypeOK, Final
<1>2. \A r \in Reqs : reqs[r].phase = "idle"
  BY DEF Init, Idle
<1>3. Distinct /\ Owned
  BY <1>2 DEF Distinct, Owned, Holding
<1>4. Truth
  BY <1>2 DEF Init, Truth, Sent, Cleared, Found, Told, Kept, Settled, Honest, In
<1>5. Passed
  BY DEF Init, Passed
<1>6. Clean
  BY <1>2 DEF Init, Clean, Tended, Shown, Refused, Refusals, Holding, In
<1>7. Budget /\ Looked
  <2>1. ASSUME NEW w \in Writes PROVE Runs(w) = 0 /\ faults = 0
    <3>1. Running(w) = {}
      BY <1>2 DEF Running
    <3> QED  BY <3>1, FS_EmptySet DEF Init, Runs
  <2> QED  BY <1>2, <2>1 DEF Budget, Looked, In
<1> QED  BY <1>1, <1>3, <1>4, <1>5, <1>6, <1>7 DEF IInv

\* The invariant is inductive.
LEMMA StepIInv ==
    ASSUME IInv, [Next]_vars
    PROVE  IInv'
  BY TypeStep, ClaimsStep, TruthStep, PassedStep, CleanStep, BudgetStep, LookedStep DEF IInv

\* The invariant holds throughout.
LEMMA SpecIInv == Spec => []IInv
  BY InitIInv, StepIInv, PTL DEF Spec

\* Every write, record, request and answer stays of its type.
THEOREM SafeWritesTypeCorrect == Spec => []TypeOK
<1>1. IInv => TypeOK
  BY DEF IInv
<1> QED  BY <1>1, SpecIInv, PTL

\* A conditional write changes the person once at most, however often it is
\* sent, whatever fails and however many retries run at once.
THEOREM ConditionalWritesOnce == Spec => []ConditionalOnce
<1>1. IInv => ConditionalOnce
  BY DEF IInv, Passed, TypeOK, ConditionalOnce
<1> QED  BY <1>1, SpecIInv, PTL

\* Any write changes the person once, and once more for each failure at
\* most, however many retries run at once.
THEOREM RunsWithinFaults == Spec => []RunsBounded
<1>1. ASSUME IInv, NEW w \in Writes PROVE applied[w] <= 1 + faults
  <2>1. Runs(w) <= 1 + faults /\ faults \in Nat
    BY <1>1 DEF IInv, Budget, TypeOK
  <2>2. Cardinality(Running(w)) \in Nat /\ applied[w] \in Nat
    BY <1>1, RunsCounted DEF IInv
  <2> QED  BY <2>1, <2>2 DEF Runs
<1>2. IInv => RunsBounded
  BY <1>1 DEF RunsBounded
<1> QED  BY <1>2, SpecIInv, PTL

\* A client that is told "done" is told the truth, and without a failure so
\* is one that is refused.
THEOREM AnswersHonest == Spec => []HonestAnswers
<1>1. IInv => HonestAnswers
  <2> SUFFICES ASSUME IInv, NEW w \in Writes
               PROVE  /\ outcome[w] = "ok" => applied[w] > 0
                      /\ outcome[w] \in Refusals /\ faults = 0 => applied[w] = 0
    BY DEF HonestAnswers, Refusals
  <2>1. outcome[w] = "ok" => applied[w] > 0
    BY DEF IInv, Truth, Told, Honest
  <2>2. ASSUME outcome[w] \in Refusals, faults = 0 PROVE applied[w] = 0
    <3>1. Tended /\ Shown /\ Refused /\ applied[w] \in Nat
      BY <2>2 DEF IInv, Clean, TypeOK
    <3>2. ASSUME applied[w] > 0 PROVE FALSE
      <4>1. PICK s \in Reqs : WriteOf[s] = w /\ In(s, "store") /\ record[KeyOf[w]].state = "completed"
        BY <2>2, <3>1, <3>2 DEF Shown, Refused
      <4> QED  BY <3>1, <4>1 DEF Tended, Holding, Mine, In, Key
    <3> QED  BY <3>1, <3>2
  <2> QED  BY <2>1, <2>2
<1> QED  BY <1>1, SpecIInv, PTL

\* A lift that is answered "done" or "nothing to lift" found the person
\* without a ban at some time since it was first sent, even when the answer
\* comes from a record and a ban was made since.
THEOREM LiftsDone == Spec => []LiftDone
<1>1. IInv => LiftDone
  BY DEF IInv, Truth, Told, Honest, LiftDone
<1> QED  BY <1>1, SpecIInv, PTL

=============================================================================
