---------------------------- MODULE WebhookProofs ----------------------------
(* Theorems about WebhookWorker. *)
EXTENDS WebhookWorker, TLAPS

USE WebhookAssumption

(***************************************************************************)
(* Why it holds.  A row that is leased is in one lane, or in the list of   *)
(* rows that one tick will release, or waits for its lease to end; so none *)
(* is claimed or released under a lane (InOneHand, Apart, Kept).  Of the   *)
(* requests made for a row, all but the one under way were recorded or     *)
(* paid for with a failure, a stop among them: what a process that was     *)
(* told to stop has under way is paid for already (Counted).               *)
(***************************************************************************)

Apart == \A n \in lanes : n.row \notin n.rest

Kept ==
    \A p \in Procs : \A d \in untried[p] :
        /\ status[d] \in {"pending", "gone"} /\ due[d] = "leased"
        /\ \A n \in lanes : d \notin Held(n)
        /\ \A q \in Procs : d \in untried[q] => q = p

Hands == InOneHand /\ Apart /\ Kept

Leased(d) == status[d] \in {"pending", "gone"} /\ due[d] = "leased"

InUse(d) ==
    \/ \E n \in lanes : d \in Held(n)
    \/ \E p \in Procs : d \in untried[p]

Tried == \A d \in Rows : status[d] \in {"none", "pending"} => attempts[d] < MaxAttempts

UnderWay(d) == \E n \in lanes : n.row = d /\ ~ stopping[n.proc]

Counted ==
    \A d \in Rows : status[d] # "gone" =>
        sends[d] <= attempts[d] + faults + (IF UnderWay(d) THEN 1 ELSE 0)

Counts == Tried /\ Counted /\ SendsBounded

IInv == TypeOK /\ Hands /\ Counts

-----------------------------------------------------------------------------
(* Types                                                                   *)

\* What a lane is made of.
LEMMA LaneType ==
    ASSUME TypeOK, NEW n \in lanes
    PROVE  /\ n \in Lane
           /\ n.proc \in Procs /\ n.ep \in Endpoints /\ n.rest \subseteq Rows
           /\ n.row \in Rows \cup {NoRow} /\ n.live \in BOOLEAN
           /\ n.seen \in [failures : 0 .. Threshold, on : BOOLEAN]
  BY DEF TypeOK, Lane

\* A lane that ends leaves rows to its tick.
LEMMA LaneEndsType ==
    ASSUME TypeOK, NEW n \in lanes, NEW S \in SUBSET Rows, LaneEnds(n, S)
    PROVE  (lanes \subseteq Lane)' /\ (untried \in [Procs -> SUBSET Rows])'
  BY LaneType DEF TypeOK, LaneEnds

\* A step of a lane keeps the types: NextRow.
LEMMA NextRowType ==
    ASSUME TypeOK, NEW n \in lanes, NextRow(n)
    PROVE  TypeOK'
<1>1. /\ n \in Lane /\ n.rest \subseteq Rows
  BY LaneType
<1>2. CASE (stopping[n.proc] \/ n.rest = {}) /\ LaneEnds(n, n.rest) /\ UNCHANGED sends
  BY <1>1, <1>2, LaneEndsType DEF TypeOK, NextRow, tableVars
<1>3. ASSUME NEW d \in n.rest, status[d] = "pending",
             Become(n, [n EXCEPT
                          !.row = d, !.rest = n.rest \ {d},
                          !.seen = [failures |-> failures[n.ep], on |-> endpoint[n.ep] = "on"]]),
             sends' = [sends EXCEPT ![d] = sends[d] + 1], UNCHANGED untried
      PROVE  TypeOK'
  <2>1. [failures |-> failures[n.ep], on |-> endpoint[n.ep] = "on"]
           \in [failures : 0 .. Threshold, on : BOOLEAN]
    BY LaneType DEF TypeOK
  <2>2. [n EXCEPT !.row = d, !.rest = n.rest \ {d},
           !.seen = [failures |-> failures[n.ep], on |-> endpoint[n.ep] = "on"]] \in Lane
    BY <1>1, <2>1 DEF Lane
  <2>3. (lanes \subseteq Lane)'
    BY <1>3, <2>2 DEF TypeOK, Become
  <2>4. (sends \in [Rows -> Nat])'
    BY <1>1, <1>3 DEF TypeOK
  <2> QED  BY <1>3, <2>3, <2>4 DEF TypeOK, NextRow, tableVars
<1>4. ASSUME NEW d \in n.rest, Become(n, [n EXCEPT !.rest = n.rest \ {d}]),
             UNCHANGED <<sends, untried>>
      PROVE  TypeOK'
  <2>1. [n EXCEPT !.rest = n.rest \ {d}] \in Lane
    BY <1>1 DEF Lane
  <2>2. (lanes \subseteq Lane)'
    BY <1>4, <2>1 DEF TypeOK, Become
  <2> QED  BY <1>4, <2>2 DEF TypeOK, NextRow, tableVars
<1> QED  BY <1>2, <1>3, <1>4 DEF NextRow

\* Record.
LEMMA RecordType ==
    ASSUME TypeOK, Tried, InOneHand, NEW n \in lanes, Record(n)
    PROVE  TypeOK'
<1>1. /\ n \in Lane /\ n.row \in Rows /\ n.ep \in Endpoints /\ n.rest \subseteq Rows
      /\ n.seen.failures \in 0 .. Threshold
  BY LaneType DEF Record, Sending
<1>2. status[n.row] = "pending" /\ attempts[n.row] < MaxAttempts
  BY <1>1 DEF Record, Sending, InOneHand, Held, Tried
<1> DEFINE result(answer) == Outcome(n.row, answer)
           count(answer) == IF answer = "ok" THEN 0 ELSE Bump(n.seen.failures)
<1>3. PICK answer \in {"ok", "permanent", "retriable"} :
         /\ status' = [status EXCEPT ![n.row] = result(answer)]
         /\ attempts' = [attempts EXCEPT ![n.row] = attempts[n.row] + 1]
         /\ due' = [due EXCEPT ![n.row] = IF result(answer) = "pending" THEN "backoff" ELSE "never"]
         /\ failures' = [failures EXCEPT ![n.ep] = count(answer)]
         /\ endpoint' = IF answer # "ok" /\ n.seen.on /\ count(answer) >= Threshold
                        THEN [endpoint EXCEPT ![n.ep] = "off"] ELSE endpoint
         /\ IF result(answer) = "pending" THEN LaneEnds(n, n.rest)
            ELSE Become(n, [n EXCEPT !.row = NoRow]) /\ UNCHANGED untried
  BY DEF Record
<1>4. result(answer) \in {"pending", "delivered", "failed"} /\ count(answer) \in 0 .. Threshold
  BY <1>1 DEF Outcome, Bump
<1>5. (lanes \subseteq Lane)' /\ (untried \in [Procs -> SUBSET Rows])'
  <2>1. [n EXCEPT !.row = NoRow] \in Lane
    BY <1>1 DEF Lane
  <2> QED  BY <1>1, <1>3, <2>1, LaneEndsType DEF TypeOK, Become
<1>6. (status \in [Rows -> {"none", "pending", "delivered", "failed", "gone"}])'
  BY <1>1, <1>3, <1>4 DEF TypeOK
<1>7. (attempts \in [Rows -> 0 .. MaxAttempts])'
  BY <1>1, <1>2, <1>3 DEF TypeOK
<1>8. (due \in [Rows -> {"now", "backoff", "leased", "never"}])'
  BY <1>1, <1>3 DEF TypeOK
<1>9. (failures \in [Endpoints -> 0 .. Threshold])' /\ (endpoint \in [Endpoints -> {"on", "off", "gone"}])'
  BY <1>1, <1>3, <1>4 DEF TypeOK
<1> QED  BY <1>5, <1>6, <1>7, <1>8, <1>9 DEF TypeOK, Record

\* A lane whose tick has ended is a lane still.
LEMMA DetachType ==
    ASSUME NEW m \in Lane
    PROVE  [m EXCEPT !.live = FALSE] \in Lane
  BY DEF Lane

LEMMA LaneThrowsType ==
    ASSUME TypeOK, NEW n \in lanes, LaneThrows(n)
    PROVE  TypeOK'
<1>1. n.proc \in Procs
  BY LaneType
<1>2. faults' \in 0 .. MaxFaults
  BY DEF TypeOK, LaneThrows, Fault
<1>3. (lanes \subseteq Lane)'
  BY DetachType DEF TypeOK, LaneThrows
<1>4. (due \in [Rows -> {"now", "backoff", "leased", "never"}])'
  BY DEF TypeOK, LaneThrows, Release
<1>5. (untried \in [Procs -> SUBSET Rows])' /\ (running \in [Procs -> BOOLEAN])'
  BY <1>1 DEF TypeOK, LaneThrows
<1> QED  BY <1>2, <1>3, <1>4, <1>5 DEF TypeOK, LaneThrows

LEMMA LanesOfType ==
    ASSUME NEW p \in Procs, NEW S \in SUBSET Rows
    PROVE  LanesOf(p, S) \subseteq Lane
<1> SUFFICES ASSUME NEW d \in S
             PROVE  [proc |-> p, ep |-> Target[d], rest |-> {c \in S : Target[c] = Target[d]}, row |-> NoRow,
                     seen |-> [failures |-> 0, on |-> TRUE], live |-> TRUE] \in Lane
  BY DEF LanesOf
<1> QED  BY DEF Lane

LEMMA TickType ==
    ASSUME TypeOK, NEW p \in Procs, Tick(p)
    PROVE  TypeOK'
<1>1. PICK S \in SUBSET Rows : /\ due' = [d \in Rows |-> IF d \in S THEN "leased" ELSE due[d]]
                               /\ lanes' = lanes \cup LanesOf(p, S)
  BY DEF Tick
<1>2. (lanes \subseteq Lane)'
  BY <1>1, LanesOfType DEF TypeOK
<1>3. (due \in [Rows -> {"now", "backoff", "leased", "never"}])'
  BY <1>1 DEF TypeOK
<1> QED  BY <1>2, <1>3 DEF TypeOK, Tick

LEMMA VanishType ==
    ASSUME TypeOK, NEW p \in Procs, Vanish(p), faults' \in 0 .. MaxFaults
    PROVE  TypeOK'
  BY DEF TypeOK, Vanish, tableVars

\* Every step keeps the types.
LEMMA TypeStep ==
    ASSUME TypeOK, Tried, InOneHand, [Next]_vars
    PROVE  TypeOK'
<1>1. ASSUME NEW d \in Rows, Stage(d) \/ LeaseEnds(d) \/ BackoffEnds(d) \/ Sweep(d)
      PROVE  TypeOK'
  BY <1>1 DEF TypeOK, Stage, LeaseEnds, BackoffEnds, Sweep, workerVars
<1>2. ASSUME NEW e \in Endpoints, Toggle(e)
      PROVE  TypeOK'
  BY <1>2 DEF TypeOK, Toggle, workerVars
<1>3. ASSUME NEW e \in Endpoints, Delete(e)
      PROVE  TypeOK'
  BY <1>3 DEF TypeOK, Delete, Fault, workerVars
<1>4. ASSUME NEW p \in Procs, TickEnds(p)
      PROVE  TypeOK'
  BY <1>4 DEF TypeOK, TickEnds, Release, Fault
<1>5. ASSUME NEW p \in Procs, Stop(p)
      PROVE  TypeOK'
  BY <1>5 DEF TypeOK, Stop, Fault, tableVars
<1>6. ASSUME NEW p \in Procs, Crash(p) \/ Restart(p)
      PROVE  TypeOK'
  <2>1. Vanish(p) /\ faults' \in 0 .. MaxFaults
    BY <1>6 DEF TypeOK, Crash, Restart, Fault
  <2> QED  BY <2>1, VanishType
<1>7. CASE UNCHANGED vars
  BY <1>7 DEF TypeOK, vars, tableVars, workerVars
<1> QED  BY <1>1, <1>2, <1>3, <1>4, <1>5, <1>6, <1>7, TickType, NextRowType, RecordType, LaneThrowsType
         DEF Next, Working

-----------------------------------------------------------------------------
(* Hands                                                                   *)

\* Lanes and lists hold rows, which are leased.
LEMMA InUseLeased ==
    ASSUME TypeOK, Hands, NEW d, InUse(d)
    PROVE  d \in Rows /\ Leased(d)
<1>1. CASE \E n \in lanes : d \in Held(n)
  BY <1>1, LaneType DEF Hands, InOneHand, Held, Leased
<1>2. CASE \E p \in Procs : d \in untried[p]
  BY <1>2 DEF TypeOK, Hands, Kept, Leased
<1> QED  BY <1>1, <1>2 DEF InUse

\* Steps that leave the lanes and lists alone, and what is in them leased.
LEMMA TableHands ==
    ASSUME TypeOK, Hands, UNCHANGED <<lanes, untried>>,
           \A d \in Rows : InUse(d) => Leased(d)'
    PROVE  Hands'
<1>1. \A d : InUse(d) => Leased(d)'
  BY InUseLeased
<1>2. InOneHand'
  BY <1>1 DEF Hands, InOneHand, InUse, Leased
<1>3. Apart'
  BY DEF Hands, Apart
<1>4. Kept'
  BY <1>1 DEF Hands, Kept, InUse, Leased
<1> QED  BY <1>2, <1>3, <1>4 DEF Hands

\* A lane goes on with fewer rows, or other rows at hand.
LEMMA BecomeHands ==
    ASSUME TypeOK, Hands, NEW n \in lanes, NEW m, Become(n, m), UNCHANGED untried,
           Held(m) \subseteq Held(n), m.row \notin m.rest,
           \A d \in Rows : InUse(d) /\ d \notin Held(n) \ Held(m) => Leased(d)'
    PROVE  Hands'
<1>1. \A d : InUse(d) /\ d \notin Held(n) \ Held(m) => Leased(d)'
  BY InUseLeased
<1>2. \A k \in lanes' : k = m \/ (k \in lanes /\ k # n)
  BY DEF Become
<1>3. InOneHand'
  <2> SUFFICES ASSUME NEW k \in lanes', NEW d \in Held(k), NEW j \in lanes'
               PROVE  Leased(d)' /\ (d \in Held(j) => j = k)
    BY DEF InOneHand, Leased
  <2>1. d \in Held(m) \/ (k \in lanes /\ k # n /\ d \notin Held(n))
    BY <1>2 DEF Hands, InOneHand
  <2>2. InUse(d) /\ d \notin Held(n) \ Held(m)
    BY <1>2, <2>1 DEF InUse
  <2>3. d \in Held(j) => j = k
    BY <1>2 DEF Hands, InOneHand
  <2> QED  BY <1>1, <2>2, <2>3
<1>4. Apart'
  BY <1>2 DEF Hands, Apart
<1>5. Kept'
  <2> SUFFICES ASSUME NEW p \in Procs, NEW d \in untried[p]
               PROVE  /\ Leased(d)' /\ \A k \in lanes' : d \notin Held(k)
                      /\ \A q \in Procs : d \in untried[q] => q = p
    BY DEF Kept, Leased
  <2>1. \A k \in lanes : d \notin Held(k)
    BY DEF Hands, Kept
  <2>2. InUse(d) /\ d \notin Held(n)
    BY <2>1 DEF InUse
  <2> QED  BY <1>1, <1>2, <2>1, <2>2 DEF Hands, Kept
<1> QED  BY <1>3, <1>4, <1>5 DEF Hands

\* A lane ends and leaves what it had not begun.
LEMMA LaneEndsHands ==
    ASSUME TypeOK, Hands, NEW n \in lanes, LaneEnds(n, n.rest),
           \A d \in Rows : InUse(d) /\ d # n.row => Leased(d)'
    PROVE  Hands'
<1>1. \A d : InUse(d) /\ d # n.row => Leased(d)'
  BY InUseLeased
<1>2. lanes' = lanes \ {n} /\ n.proc \in Procs /\ NoRow \notin Held(n)
  BY LaneType DEF LaneEnds, Held
<1>3. \A p \in Procs : untried'[p] = untried[p] \/ (p = n.proc /\ untried'[p] = untried[p] \cup n.rest)
  BY <1>2 DEF LaneEnds, TypeOK
<1>4. n.row \notin n.rest /\ n.rest \subseteq Held(n)
  BY DEF Hands, Apart, Held
<1>5. \A d \in n.rest : Leased(d)'
  BY <1>1, <1>4 DEF InUse
<1>6. InOneHand'
  <2> SUFFICES ASSUME NEW k \in lanes', NEW d \in Held(k)
               PROVE  Leased(d)' /\ \A j \in lanes' : d \in Held(j) => j = k
    BY DEF InOneHand, Leased
  <2>1. k \in lanes /\ k # n /\ d \in Rows
    BY <1>2, LaneType DEF Held
  <2>2. d # n.row
    BY <2>1 DEF Hands, InOneHand, Held
  <2> QED  BY <1>1, <1>2, <2>1, <2>2 DEF Hands, InOneHand, InUse
<1>7. Apart'
  BY <1>2 DEF Hands, Apart
<1>8. Kept'
  <2> SUFFICES ASSUME NEW p \in Procs, NEW d \in untried'[p]
               PROVE  /\ Leased(d)' /\ \A k \in lanes' : d \notin Held(k)
                      /\ \A q \in Procs : d \in untried'[q] => q = p
    BY DEF Kept, Leased
  <2>1. CASE d \in n.rest
    <3>1. (\A q \in Procs : d \notin untried[q]) /\ (\A k \in lanes : d \in Held(k) => k = n)
      BY <1>4, <2>1 DEF Hands, InOneHand, Kept
    <3> QED  BY <1>2, <1>3, <1>5, <2>1, <3>1
  <2>2. CASE d \notin n.rest
    <3>1. d \in untried[p] /\ d \in Rows
      BY <1>3, <2>2 DEF TypeOK
    <3>2. (\A k \in lanes : d \notin Held(k)) /\ (\A q \in Procs : d \in untried[q] => q = p)
      BY <3>1 DEF Hands, Kept
    <3>3. d # n.row
      BY <3>1, <3>2 DEF Held
    <3> QED  BY <1>1, <1>2, <1>3, <2>2, <3>1, <3>2, <3>3 DEF InUse
  <2> QED  BY <2>1, <2>2
<1> QED  BY <1>6, <1>7, <1>8 DEF Hands

\* Lanes end or are left by their tick, whose list is released or dropped.
LEMMA FewerHands ==
    ASSUME TypeOK, Hands, UNCHANGED status,
           \A k \in lanes' : k.row \notin k.rest /\ \E m \in lanes : Held(m) = Held(k),
           \A k, j \in lanes' : \A d \in Held(k) : d \in Held(j) => j = k,
           \/ UNCHANGED <<due, untried>>
           \/ \E p \in Procs : /\ untried' = [untried EXCEPT ![p] = {}]
                               /\ UNCHANGED due \/ Release(untried[p])
    PROVE  Hands'
<1>1. ASSUME NEW q \in Procs
      PROVE  untried'[q] \subseteq untried[q]
  <2>1. CASE UNCHANGED untried
    BY <2>1
  <2>2. ASSUME NEW p \in Procs, untried' = [untried EXCEPT ![p] = {}]
        PROVE  untried'[q] \subseteq untried[q]
    BY <2>2 DEF TypeOK
  <2> QED  BY <2>1, <2>2
<1>2. ASSUME NEW d, InUse(d)'
      PROVE  Leased(d)'
    <2>1. InUse(d)
      BY <1>1, <1>2 DEF InUse
    <2>2. d \in Rows /\ Leased(d)
      BY <2>1, InUseLeased
    <2>3. CASE UNCHANGED due
      BY <2>2, <2>3 DEF Leased
    <2>4. ASSUME NEW p \in Procs, untried' = [untried EXCEPT ![p] = {}], Release(untried[p])
          PROVE  Leased(d)'
      <3>1. d \notin untried[p]
        <4>1. CASE \E k \in lanes' : d \in Held(k)
          BY <4>1 DEF Hands, Kept
        <4>2. CASE \E q \in Procs : d \in untried'[q]
          BY <2>4, <4>2 DEF TypeOK, Hands, Kept
        <4> QED  BY <1>2, <4>1, <4>2 DEF InUse
      <3> QED  BY <2>2, <2>4, <3>1 DEF Leased, Release
    <2> QED  BY <2>3, <2>4
<1>3. InOneHand'
  BY <1>2 DEF InOneHand, InUse, Leased
<1>4. Apart'
  BY DEF Apart
<1>5. Kept'
  <2> SUFFICES ASSUME NEW p \in Procs, NEW d \in untried'[p]
               PROVE  /\ Leased(d)' /\ \A k \in lanes' : d \notin Held(k)
                      /\ \A q \in Procs : d \in untried'[q] => q = p
    BY DEF Kept, Leased
  <2>1. InUse(d)'
    BY DEF InUse
  <2> QED  BY <1>1, <1>2, <2>1 DEF Hands, Kept
<1> QED  BY <1>3, <1>4, <1>5 DEF Hands

LEMMA LaneThrowsHands ==
    ASSUME TypeOK, Hands, NEW n \in lanes, LaneThrows(n)
    PROVE  Hands'
<1>1. CASE ~ n.live
  <2>1. lanes' = lanes \ {n} /\ UNCHANGED <<status, due, untried>>
    BY <1>1 DEF LaneThrows
  <2> QED  BY <2>1, FewerHands DEF Hands, InOneHand, Apart
<1>2. CASE n.live
  <2> DEFINE Detached(m) == IF m.proc = n.proc THEN [m EXCEPT !.live = FALSE] ELSE m
  <2>1. lanes' = {Detached(m) : m \in lanes \ {n}}
    BY <1>2 DEF LaneThrows
  <2>2. \A m \in lanes : Detached(m).row = m.row /\ Detached(m).rest = m.rest
    BY LaneType DEF Lane
  <2>3. \A m \in lanes : Held(Detached(m)) = Held(m)
    BY <2>2 DEF Held
  <2>4. \A k \in lanes' : \E m \in lanes : k = Detached(m)
    BY <2>1
  <2> HIDE DEF Detached
  <2>5. \A k \in lanes' : k.row \notin k.rest /\ \E m \in lanes : Held(m) = Held(k)
    BY <2>2, <2>3, <2>4 DEF Hands, Apart
  <2>6. \A k, j \in lanes' : \A d \in Held(k) : d \in Held(j) => j = k
    BY <2>3, <2>4 DEF Hands, InOneHand
  <2>7. /\ n.proc \in Procs /\ untried' = [untried EXCEPT ![n.proc] = {}]
        /\ UNCHANGED due \/ Release(untried[n.proc])
        /\ UNCHANGED status
    BY <1>2, LaneType DEF LaneThrows
  <2> QED  BY <2>5, <2>6, <2>7, FewerHands
<1> QED  BY <1>1, <1>2

LEMMA TickEndsHands ==
    ASSUME TypeOK, Hands, NEW p \in Procs, TickEnds(p)
    PROVE  Hands'
<1>1. /\ UNCHANGED <<status, lanes>> /\ untried' = [untried EXCEPT ![p] = {}]
      /\ UNCHANGED due \/ Release(untried[p])
  BY DEF TickEnds
<1> QED  BY <1>1, FewerHands DEF Hands, InOneHand, Apart

LEMMA VanishHands ==
    ASSUME TypeOK, Hands, NEW p \in Procs, Vanish(p)
    PROVE  Hands'
<1>1. /\ UNCHANGED <<status, due>> /\ untried' = [untried EXCEPT ![p] = {}]
      /\ lanes' \subseteq lanes
  BY DEF Vanish, tableVars
<1> QED  BY <1>1, FewerHands DEF Hands, InOneHand, Apart

\* What a tick claims was in no hand.
LEMMA TickHands ==
    ASSUME TypeOK, Hands, NEW p \in Procs, Tick(p)
    PROVE  Hands'
<1>1. PICK S \in SUBSET Rows : /\ S \subseteq Claimable
                               /\ due' = [d \in Rows |-> IF d \in S THEN "leased" ELSE due[d]]
                               /\ lanes' = lanes \cup LanesOf(p, S)
  BY DEF Tick, IsClaim
<1>2. UNCHANGED <<status, untried>>
  BY DEF Tick
<1>3. \A d \in S : ~ InUse(d) /\ status[d] = "pending"
  BY <1>1, InUseLeased DEF Claimable, Leased
<1>4. \A k \in LanesOf(p, S) : /\ Held(k) = {d \in S : Target[d] = k.ep} /\ k.row \notin k.rest
                               /\ \A j \in LanesOf(p, S) : j.ep = k.ep => j = k
  <2> DEFINE LaneFor(e) == [proc |-> p, ep |-> e, rest |-> {d \in S : Target[d] = e}, row |-> NoRow,
                            seen |-> [failures |-> 0, on |-> TRUE], live |-> TRUE]
  <2>1. \A k \in LanesOf(p, S) : k = LaneFor(k.ep)
    BY DEF LanesOf
  <2>2. \A k \in LanesOf(p, S) : k.rest = {d \in S : Target[d] = k.ep} /\ k.row = NoRow
    BY <2>1
  <2>3. \A k \in LanesOf(p, S) : Held(k) = {d \in S : Target[d] = k.ep} /\ k.row \notin k.rest
    BY <2>2 DEF Held
  <2> HIDE DEF LaneFor
  <2>4. \A k, j \in LanesOf(p, S) : j.ep = k.ep => j = k
    BY <2>1
  <2> QED  BY <2>3, <2>4
<1>5. \A d \in Rows : InUse(d) \/ d \in S => Leased(d)'
  BY <1>1, <1>2, <1>3, InUseLeased DEF Leased
<1>6. InOneHand'
  <2> SUFFICES ASSUME NEW k \in lanes', NEW d \in Held(k), NEW j \in lanes', d \in Held(j)
               PROVE  Leased(d)' /\ j = k
    BY <1>5 DEF InOneHand, Leased
  <2>1. CASE d \in S
    <3>1. k \in LanesOf(p, S) /\ j \in LanesOf(p, S)
      BY <1>1, <1>3, <2>1 DEF InUse
    <3> QED  BY <1>4, <1>5, <2>1, <3>1
  <2>2. CASE d \notin S
    <3>1. k \in lanes /\ j \in lanes
      BY <1>1, <1>4, <2>2
    <3>2. InUse(d)
      BY <3>1 DEF InUse
    <3> QED  BY <1>5, <3>1, <3>2, InUseLeased DEF Hands, InOneHand
  <2> QED  BY <2>1, <2>2
<1>7. Apart'
  BY <1>1, <1>4 DEF Hands, Apart
<1>8. Kept'
  <2> SUFFICES ASSUME NEW q \in Procs, NEW d \in untried[q]
               PROVE  /\ Leased(d)' /\ \A k \in lanes' : d \notin Held(k)
                      /\ \A r \in Procs : d \in untried[r] => r = q
    BY <1>2 DEF Kept, Leased
  <2>1. InUse(d) /\ d \in Rows
    BY DEF InUse, TypeOK
  <2> QED  BY <1>1, <1>3, <1>4, <1>5, <2>1 DEF Hands, Kept
<1> QED  BY <1>6, <1>7, <1>8 DEF Hands

LEMMA NextRowHands ==
    ASSUME TypeOK, Hands, NEW n \in lanes, NextRow(n)
    PROVE  Hands'
<1>1. \A d \in Rows : InUse(d) => Leased(d)'
  BY InUseLeased DEF NextRow, tableVars, Leased
<1>2. CASE LaneEnds(n, n.rest)
  BY <1>1, <1>2, LaneEndsHands
<1>3. ASSUME NEW d \in n.rest, UNCHANGED untried, NEW seen,
             Become(n, [n EXCEPT !.row = d, !.rest = n.rest \ {d}, !.seen = seen])
      PROVE  Hands'
  <2> DEFINE m == [n EXCEPT !.row = d, !.rest = n.rest \ {d}, !.seen = seen]
  <2>1. m.row = d /\ m.rest = n.rest \ {d}
    BY LaneType DEF Lane
  <2>2. Held(m) \subseteq Held(n) /\ m.row \notin m.rest
    BY <2>1 DEF Held
  <2> QED  BY <1>1, <1>3, <2>2, BecomeHands
<1>4. ASSUME NEW d \in n.rest, UNCHANGED untried, Become(n, [n EXCEPT !.rest = n.rest \ {d}])
      PROVE  Hands'
  <2> DEFINE m == [n EXCEPT !.rest = n.rest \ {d}]
  <2>1. m.row = n.row /\ m.rest = n.rest \ {d}
    BY LaneType DEF Lane
  <2>2. Held(m) \subseteq Held(n) /\ m.row \notin m.rest
    BY <2>1 DEF Held, Hands, Apart
  <2> QED  BY <1>1, <1>4, <2>2, BecomeHands
<1> QED  BY <1>2, <1>3, <1>4 DEF NextRow

LEMMA RecordHands ==
    ASSUME TypeOK, Hands, NEW n \in lanes, Record(n)
    PROVE  Hands'
<1>1. n.row \in Rows
  BY LaneType DEF Record, Sending
<1>2. PICK answer \in {"ok", "permanent", "retriable"} :
         /\ status' = [status EXCEPT ![n.row] = Outcome(n.row, answer)]
         /\ due' = [due EXCEPT ![n.row] = IF Outcome(n.row, answer) = "pending" THEN "backoff" ELSE "never"]
         /\ IF Outcome(n.row, answer) = "pending" THEN LaneEnds(n, n.rest)
            ELSE Become(n, [n EXCEPT !.row = NoRow]) /\ UNCHANGED untried
  BY DEF Record
<1>3. \A d \in Rows : InUse(d) /\ d # n.row => Leased(d)'
  BY <1>1, <1>2, InUseLeased DEF TypeOK, Leased
<1>4. CASE LaneEnds(n, n.rest)
  BY <1>3, <1>4, LaneEndsHands
<1>5. CASE Become(n, [n EXCEPT !.row = NoRow]) /\ UNCHANGED untried
  <2> DEFINE m == [n EXCEPT !.row = NoRow]
  <2>1. m.row = NoRow /\ m.rest = n.rest /\ NoRow \notin n.rest
    BY LaneType DEF Lane
  <2>2. Held(m) = n.rest /\ m.row \notin m.rest /\ Held(n) = n.rest \cup {n.row}
    BY <1>1, <2>1 DEF Held
  <2>3. n.row \in Held(n) \ Held(m)
    BY <2>2 DEF Hands, Apart
  <2> HIDE DEF m
  <2>4. Become(n, m)
    BY <1>5 DEF m
  <2> QED  BY <1>3, <1>5, <2>2, <2>3, <2>4, BecomeHands
<1> QED  BY <1>2, <1>4, <1>5

\* Every step keeps each row in one hand.
LEMMA HandsStep ==
    ASSUME TypeOK, Hands, [Next]_vars
    PROVE  Hands'
<1>1. ASSUME NEW d \in Rows, Stage(d)
      PROVE  Hands'
  <2>1. \A c \in Rows : InUse(c) => Leased(c)'
    BY <1>1, InUseLeased DEF TypeOK, Stage, Leased
  <2> QED  BY <1>1, <2>1, TableHands DEF Stage, workerVars
<1>2. ASSUME NEW d \in Rows, LeaseEnds(d) \/ BackoffEnds(d)
      PROVE  Hands'
  <2>1. ~ InUse(d)
    BY <1>2, InUseLeased DEF LeaseEnds, BackoffEnds, InUse, Leased
  <2>2. \A c \in Rows : InUse(c) => Leased(c)'
    BY <1>2, <2>1, InUseLeased DEF TypeOK, LeaseEnds, BackoffEnds, Leased
  <2> QED  BY <1>2, <2>2, TableHands DEF LeaseEnds, BackoffEnds, workerVars
<1>3. ASSUME NEW d \in Rows, Sweep(d)
      PROVE  Hands'
  <2>1. \A c \in Rows : InUse(c) => Leased(c)'
    BY <1>3, InUseLeased DEF TypeOK, Sweep, Leased
  <2> QED  BY <1>3, <2>1, TableHands DEF Sweep, workerVars
<1>4. ASSUME NEW e \in Endpoints, Toggle(e) \/ Delete(e)
      PROVE  Hands'
  <2>1. \A c \in Rows : InUse(c) => Leased(c)'
    BY <1>4, InUseLeased DEF TypeOK, Toggle, Delete, Leased
  <2> QED  BY <1>4, <2>1, TableHands DEF Toggle, Delete, workerVars
<1>5. ASSUME NEW p \in Procs, Stop(p)
      PROVE  Hands'
  <2>1. \A c \in Rows : InUse(c) => Leased(c)'
    BY <1>5, InUseLeased DEF Stop, tableVars, Leased
  <2> QED  BY <1>5, <2>1, TableHands DEF Stop
<1>6. ASSUME NEW p \in Procs, Crash(p) \/ Restart(p)
      PROVE  Hands'
  BY <1>6, VanishHands DEF Crash, Restart
<1>7. CASE UNCHANGED vars
  <2>1. \A c \in Rows : InUse(c) => Leased(c)'
    BY <1>7, InUseLeased DEF vars, tableVars, Leased
  <2> QED  BY <1>7, <2>1, TableHands DEF vars, workerVars
<1> QED  BY <1>1, <1>2, <1>3, <1>4, <1>5, <1>6, <1>7, TickHands, TickEndsHands, NextRowHands,
            RecordHands, LaneThrowsHands
         DEF Next, Working

-----------------------------------------------------------------------------
(* Counts                                                                  *)

\* Steps that send and record nothing, and lose no request but for a failure.
LEMMA CountsKept ==
    ASSUME TypeOK, TypeOK', Counts, UNCHANGED <<attempts, sends>>, faults' \in {faults, faults + 1},
           \A d \in Rows : status'[d] # status[d] => \/ status'[d] = "gone"
                                                     \/ status[d] = "none" /\ status'[d] = "pending",
           \A d \in Rows : UnderWay(d) /\ status'[d] # "gone" => UnderWay(d)' \/ faults' = faults + 1
    PROVE  Counts'
<1>1. Tried'
  BY DEF Counts, Tried
<1>2. Counted'
  <2> SUFFICES ASSUME NEW d \in Rows, status'[d] # "gone"
               PROVE  sends[d] <= attempts[d] + faults' + (IF UnderWay(d)' THEN 1 ELSE 0)
    BY DEF Counted
  <2>1. status[d] # "gone" \/ (status[d] = "none" /\ status'[d] = "pending")
    BY DEF TypeOK
  <2>2. sends[d] <= attempts[d] + faults + (IF UnderWay(d) THEN 1 ELSE 0)
    BY <2>1 DEF Counts, Counted
  <2>3. sends[d] \in Nat /\ attempts[d] \in Nat /\ faults \in Nat
    BY DEF TypeOK
  <2> QED  BY <2>2, <2>3
<1>3. SendsBounded'
  <2> SUFFICES ASSUME NEW d \in Rows
               PROVE  sends[d] <= MaxAttempts + faults'
    BY DEF SendsBounded
  <2>1. sends[d] <= MaxAttempts + faults /\ sends[d] \in Nat /\ faults \in Nat
    BY DEF Counts, SendsBounded, TypeOK
  <2> QED  BY <2>1
<1> QED  BY <1>1, <1>2, <1>3 DEF Counts

\* A lane without a request changes or ends.
LEMMA IdleLaneUnderWay ==
    ASSUME NEW n \in lanes, ~ Sending(n), lanes \ {n} \subseteq lanes', UNCHANGED stopping,
           NEW d \in Rows, UnderWay(d)
    PROVE  UnderWay(d)'
  BY DEF UnderWay, Sending

LEMMA NextRowCounts ==
    ASSUME TypeOK, TypeOK', Hands, Counts, NEW n \in lanes, NextRow(n)
    PROVE  Counts'
<1>1. /\ n.rest \subseteq Rows /\ n.proc \in Procs /\ ~ Sending(n)
      /\ UNCHANGED <<status, attempts, stopping, faults>>
  BY LaneType DEF NextRow, tableVars
<1>2. CASE UNCHANGED sends
  <2>1. lanes \ {n} \subseteq lanes'
    BY DEF NextRow, LaneEnds, Become
  <2> QED  BY <1>1, <1>2, <2>1, IdleLaneUnderWay, CountsKept
<1>3. ASSUME NEW d \in n.rest, NEW seen, ~ stopping[n.proc], status[d] = "pending",
             Become(n, [n EXCEPT !.row = d, !.rest = n.rest \ {d}, !.seen = seen]),
             sends' = [sends EXCEPT ![d] = sends[d] + 1]
      PROVE  Counts'
  <2> DEFINE m == [n EXCEPT !.row = d, !.rest = n.rest \ {d}, !.seen = seen]
  <2>1. m.row = d /\ m.proc = n.proc
    BY LaneType DEF Lane
  <2>2. lanes \ {n} \subseteq lanes' /\ m \in lanes'
    BY <1>3 DEF Become
  <2>3. UnderWay(d)'
    BY <1>1, <1>3, <2>1, <2>2 DEF UnderWay
  <2>4. ~ UnderWay(d)
    BY <1>1, <1>3 DEF UnderWay, Hands, InOneHand, Apart, Held
  <2>5. d \in Rows /\ sends[d] \in Nat /\ attempts[d] \in Nat /\ faults \in Nat
    BY <1>1 DEF TypeOK
  <2>6. sends[d] <= attempts[d] + faults /\ attempts[d] < MaxAttempts
    BY <1>3, <2>4, <2>5 DEF Counts, Counted, Tried
  <2>7. Tried'
    BY <1>1 DEF Counts, Tried
  <2>8. Counted'
    <3> SUFFICES ASSUME NEW c \in Rows, status[c] # "gone"
                 PROVE  sends'[c] <= attempts[c] + faults + (IF UnderWay(c)' THEN 1 ELSE 0)
      BY <1>1 DEF Counted
    <3>1. CASE c = d
      BY <1>3, <2>3, <2>5, <2>6, <3>1 DEF TypeOK
    <3>2. CASE c # d
      <4>1. sends'[c] = sends[c] /\ sends[c] \in Nat /\ attempts[c] \in Nat
        BY <1>3, <3>2 DEF TypeOK
      <4>2. UnderWay(c) => UnderWay(c)'
        BY <1>1, <2>2, IdleLaneUnderWay
      <4> QED  BY <2>5, <4>1, <4>2 DEF Counts, Counted
    <3> QED  BY <3>1, <3>2
  <2>9. SendsBounded'
    BY <1>1, <1>3, <2>5, <2>6 DEF Counts, SendsBounded, TypeOK
  <2> QED  BY <2>7, <2>8, <2>9 DEF Counts
<1> QED  BY <1>1, <1>2, <1>3 DEF NextRow

LEMMA RecordCounts ==
    ASSUME TypeOK, TypeOK', Hands, Counts, NEW n \in lanes, Record(n)
    PROVE  Counts'
<1>1. n.row \in Rows /\ status[n.row] = "pending" /\ UNCHANGED <<stopping, sends, faults>>
  BY LaneType DEF Record, Sending, Hands, InOneHand, Held
<1>2. PICK answer \in {"ok", "permanent", "retriable"} :
         status' = [status EXCEPT ![n.row] = Outcome(n.row, answer)]
  BY DEF Record
<1>3. attempts' = [attempts EXCEPT ![n.row] = attempts[n.row] + 1] /\ lanes \ {n} \subseteq lanes'
  BY DEF Record, LaneEnds, Become
<1>4. \A d \in Rows : sends[d] \in Nat /\ attempts[d] \in Nat /\ faults \in Nat
  BY DEF TypeOK
<1>5. Tried'
  <2>1. ASSUME NEW d \in Rows, d # n.row
        PROVE  status'[d] = status[d] /\ attempts'[d] = attempts[d]
    BY <1>1, <1>2, <1>3, <2>1 DEF TypeOK
  <2>2. Outcome(n.row, answer) \in {"none", "pending"} => attempts[n.row] + 1 < MaxAttempts
    BY <1>1, <1>4 DEF Outcome
  <2>3. status'[n.row] = Outcome(n.row, answer) /\ attempts'[n.row] = attempts[n.row] + 1
    BY <1>1, <1>2, <1>3 DEF TypeOK
  <2> QED  BY <2>1, <2>2, <2>3 DEF Counts, Tried
<1>6. Counted'
  <2> SUFFICES ASSUME NEW d \in Rows, status'[d] # "gone"
               PROVE  sends[d] <= attempts'[d] + faults + (IF UnderWay(d)' THEN 1 ELSE 0)
    BY <1>1 DEF Counted
  <2>1. CASE d = n.row
    <3>1. attempts'[d] = attempts[d] + 1
      BY <1>1, <1>3, <2>1 DEF TypeOK
    <3>2. sends[d] <= attempts[d] + faults + 1
      BY <1>1, <1>4, <2>1 DEF Counts, Counted
    <3> QED  BY <1>4, <3>1, <3>2
  <2>2. CASE d # n.row
    <3>1. attempts'[d] = attempts[d] /\ status'[d] = status[d]
      BY <1>1, <1>2, <1>3, <2>2 DEF TypeOK
    <3>2. UnderWay(d) => UnderWay(d)'
      BY <1>1, <1>3, <2>2 DEF UnderWay
    <3> QED  BY <1>4, <3>1, <3>2 DEF Counts, Counted
  <2> QED  BY <2>1, <2>2
<1>7. SendsBounded'
  BY <1>1 DEF Counts, SendsBounded
<1> QED  BY <1>5, <1>6, <1>7 DEF Counts

LEMMA LaneThrowsCounts ==
    ASSUME TypeOK, TypeOK', Counts, NEW n \in lanes, LaneThrows(n)
    PROVE  Counts'
<1>1. UNCHANGED <<status, attempts, stopping, sends>>
  BY DEF LaneThrows
<1>2. CASE faults' = faults + 1
  BY <1>1, <1>2, CountsKept
<1>3. CASE status[n.row] = "gone" /\ UNCHANGED faults
  <2> DEFINE Detached(m) == IF n.live /\ m.proc = n.proc THEN [m EXCEPT !.live = FALSE] ELSE m
  <2>1. \A m \in lanes : Detached(m).row = m.row /\ Detached(m).proc = m.proc
    BY LaneType DEF Lane
  <2>2. \A m \in lanes \ {n} : Detached(m) \in lanes'
    BY DEF LaneThrows
  <2> HIDE DEF Detached
  <2>3. \A d \in Rows : UnderWay(d) /\ status[d] # "gone" => UnderWay(d)'
    BY <1>1, <1>3, <2>1, <2>2 DEF UnderWay
  <2> QED  BY <1>1, <1>3, <2>3, CountsKept
<1> QED  BY <1>2, <1>3 DEF LaneThrows, Fault

\* Every step keeps the counts.
LEMMA CountsStep ==
    ASSUME TypeOK, TypeOK', Hands, Counts, [Next]_vars
    PROVE  Counts'
<1>1. ASSUME NEW d \in Rows, Stage(d) \/ LeaseEnds(d) \/ BackoffEnds(d) \/ Sweep(d)
      PROVE  Counts'
  <2>1. UNCHANGED <<attempts, sends, faults, lanes, stopping>>
    BY <1>1 DEF Stage, LeaseEnds, BackoffEnds, Sweep, workerVars
  <2>2. \A c \in Rows : status'[c] # status[c] => \/ status'[c] = "gone"
                                                  \/ status[c] = "none" /\ status'[c] = "pending"
    BY <1>1 DEF TypeOK, Stage, LeaseEnds, BackoffEnds, Sweep
  <2> QED  BY <2>1, <2>2, CountsKept DEF UnderWay
<1>2. ASSUME NEW e \in Endpoints, Toggle(e) \/ Delete(e)
      PROVE  Counts'
  <2>1. UNCHANGED <<attempts, sends, lanes, stopping>> /\ faults' \in {faults, faults + 1}
    BY <1>2 DEF Toggle, Delete, Fault, workerVars
  <2>2. \A c \in Rows : status'[c] # status[c] => status'[c] = "gone"
    BY <1>2 DEF TypeOK, Toggle, Delete
  <2> QED  BY <2>1, <2>2, CountsKept DEF UnderWay
<1>3. ASSUME NEW p \in Procs, Tick(p) \/ TickEnds(p)
      PROVE  Counts'
  <2>1. UNCHANGED <<status, attempts, sends, stopping>> /\ faults' \in {faults, faults + 1}
    BY <1>3 DEF Tick, TickEnds, Fault
  <2>2. lanes \subseteq lanes'
    BY <1>3 DEF Tick, TickEnds
  <2> QED  BY <2>1, <2>2, CountsKept DEF UnderWay
<1>4. ASSUME NEW p \in Procs, Crash(p) \/ Stop(p)
      PROVE  Counts'
  <2>1. UNCHANGED <<status, attempts, sends>> /\ faults' = faults + 1
    BY <1>4 DEF Crash, Stop, Vanish, Fault, tableVars
  <2> QED  BY <2>1, CountsKept
<1>5. ASSUME NEW p \in Procs, Restart(p)
      PROVE  Counts'
  <2>1. UNCHANGED <<status, attempts, sends, faults>> /\ stopping[p]
    BY <1>5 DEF Restart, Vanish, tableVars
  <2>2. \A n \in lanes : ~ stopping[n.proc] => n \in lanes' /\ ~ stopping'[n.proc]
    BY <1>5, <2>1, LaneType DEF TypeOK, Restart, Vanish
  <2> QED  BY <2>1, <2>2, CountsKept DEF UnderWay
<1>6. CASE UNCHANGED vars
  <2>1. UNCHANGED <<status, attempts, sends, faults, lanes, stopping>>
    BY <1>6 DEF vars, tableVars, workerVars
  <2> QED  BY <2>1, CountsKept DEF UnderWay
<1> QED  BY <1>1, <1>2, <1>3, <1>4, <1>5, <1>6, NextRowCounts, RecordCounts, LaneThrowsCounts
         DEF Next, Working

-----------------------------------------------------------------------------
(* Theorems                                                                *)

LEMMA InitIInv == Init => IInv
<1> SUFFICES ASSUME Init PROVE IInv
  OBVIOUS
<1>1. TypeOK
  BY DEF Init, TypeOK
<1>2. Hands
  BY DEF Init, Hands, InOneHand, Apart, Kept
<1>3. Counts
  BY DEF Init, Counts, Tried, Counted, SendsBounded
<1> QED  BY <1>1, <1>2, <1>3 DEF IInv

\* The invariant is inductive.
LEMMA StepIInv ==
    ASSUME IInv, [Next]_vars
    PROVE  IInv'
<1>1. TypeOK'
  BY TypeStep DEF IInv, Hands, Counts
<1> QED  BY <1>1, HandsStep, CountsStep DEF IInv

\* The invariant holds throughout.
LEMMA SpecIInv == Spec => []IInv
  BY InitIInv, StepIInv, PTL DEF Spec

\* Every endpoint, row, lane and list stays of its type.
THEOREM WebhookTypeCorrect == Spec => []TypeOK
<1>1. IInv => TypeOK
  BY DEF IInv
<1> QED  BY <1>1, SpecIInv, PTL

\* However many processes, ticks and lanes there are, and whatever fails, no
\* two lanes hold one row, and none can be claimed while a lane holds it.
THEOREM RowsInOneHand == Spec => []InOneHand
<1>1. IInv => InOneHand
  BY DEF IInv, Hands
<1> QED  BY <1>1, SpecIInv, PTL

\* A row is sent MaxAttempts times at most, and once more for each failure.
THEOREM RequestsBounded == Spec => []SendsBounded
<1>1. IInv => SendsBounded
  BY DEF IInv, Counts
<1> QED  BY <1>1, SpecIInv, PTL

\* What was delivered or given up stays so, and is not sent again.
THEOREM SettledStays == Spec => SettledForGood
<1> DEFINE Stays == \A d \in Rows : status[d] \in {"delivered", "failed"} =>
                        status'[d] \in {status[d], "gone"} /\ sends'[d] = sends[d]
<1>1. ASSUME IInv, [Next]_vars
      PROVE  [Stays]_vars
  <2> SUFFICES ASSUME NEW d \in Rows, status[d] \in {"delivered", "failed"}
               PROVE  status'[d] \in {status[d], "gone"} /\ sends'[d] = sends[d]
    OBVIOUS
  <2>1. TypeOK /\ \A n \in lanes : d \notin Held(n)
    BY <1>1 DEF IInv, Hands, InOneHand
  <2>2. ASSUME NEW n \in lanes, NextRow(n)
        PROVE  UNCHANGED status /\ sends'[d] = sends[d]
    BY <2>1, <2>2, LaneType DEF TypeOK, NextRow, tableVars
  <2>3. ASSUME NEW n \in lanes, Record(n)
        PROVE  status'[d] = status[d] /\ UNCHANGED sends
    <3>1. d # n.row
      BY <2>1, <2>3 DEF Record, Sending, Held
    <3> QED  BY <2>1, <2>3, <3>1 DEF TypeOK, Record
  <2>4. ASSUME NEW n \in lanes, LaneThrows(n)
        PROVE  UNCHANGED <<status, sends>>
    BY <2>4 DEF LaneThrows
  <2>5. ASSUME NEW c \in Rows, Stage(c) \/ LeaseEnds(c) \/ BackoffEnds(c) \/ Sweep(c)
        PROVE  status'[d] \in {status[d], "gone"} /\ UNCHANGED sends
    BY <2>1, <2>5 DEF TypeOK, Stage, LeaseEnds, BackoffEnds, Sweep
  <2>6. ASSUME NEW e \in Endpoints, Toggle(e) \/ Delete(e)
        PROVE  status'[d] \in {status[d], "gone"} /\ UNCHANGED sends
    BY <2>6 DEF Toggle, Delete
  <2>7. ASSUME NEW p \in Procs, Tick(p) \/ TickEnds(p) \/ Crash(p) \/ Stop(p) \/ Restart(p)
        PROVE  UNCHANGED <<status, sends>>
    BY <2>7 DEF Tick, TickEnds, Crash, Stop, Restart, Vanish, tableVars
  <2>8. CASE UNCHANGED vars
    BY <2>8 DEF vars, tableVars
  <2> QED  BY <1>1, <2>2, <2>3, <2>4, <2>5, <2>6, <2>7, <2>8 DEF Next, Working
<1> QED  BY <1>1, SpecIInv, PTL DEF Spec, SettledForGood

=============================================================================
