---------------------------- MODULE WebhookWorker ----------------------------
(***************************************************************************)
(* Webhook deliveries: the rows that mutations stage in their transaction  *)
(* (webhooks.ts), the worker of every server process that sends them       *)
(* (webhookWorker.ts), and the routes that disable, enable and delete an   *)
(* endpoint (routes/webhooks.ts).                                          *)
(*                                                                         *)
(* A tick claims due rows and serves them in one lane per endpoint, one    *)
(* request at a time.  The rows of a tick are a set: which due row comes   *)
(* first is left open, and a tick that claims none is no step.  A tick is  *)
(* taken to hold at most WEBHOOK_WORKER_CONCURRENCY endpoints, so that no  *)
(* lane waits for another, and a lease to outlast the lane that holds it.  *)
(*                                                                         *)
(*   endpoint   "on", "off" (disabledAt is set) or "gone"                  *)
(*   failures   consecutiveFailures of each endpoint, up to Threshold      *)
(*   status     of each row; "none" before it is staged, "gone" after it   *)
(*              is deleted                                                 *)
(*   attempts   attemptCount                                               *)
(*   due        nextAttemptAt: "now", "backoff", "leased" or "never"       *)
(*   running    the process's tick has not ended                           *)
(*   stopping   stop() was called                                          *)
(*   lanes      the lanes at work: the process, the endpoint, the rows     *)
(*              left, the row being sent, what was read of the endpoint    *)
(*              before, and whether its tick still waits for it            *)
(*   untried    rows the tick will release                                 *)
(*   sends      requests made for each row                                 *)
(*   faults     failures so far                                            *)
(***************************************************************************)
EXTENDS Naturals, FiniteSets

CONSTANTS
    Procs,        \* server processes
    Endpoints,
    Rows,         \* deliveries
    NoRow,
    Target,       \* the endpoint of each row
    MaxAttempts,  \* WEBHOOK_MAX_ATTEMPTS
    Threshold,    \* WEBHOOK_AUTO_DISABLE_THRESHOLD
    Batch,        \* WEBHOOK_WORKER_BATCH_SIZE
    Faults,       \* kinds of failure that happen
    MaxFaults     \* bound: failures in a behaviour

ASSUME WebhookAssumption ==
    /\ Target \in [Rows -> Endpoints] /\ NoRow \notin Rows
    /\ IsFiniteSet(Rows)
    /\ MaxAttempts \in Nat \ {0} /\ Threshold \in Nat \ {0} /\ Batch \in Nat \ {0}
    /\ MaxFaults \in Nat

VARIABLES endpoint, failures, status, attempts, due,
          running, stopping, lanes, untried, sends, faults

tableVars == <<endpoint, failures, status, attempts, due>>
workerVars == <<running, stopping, lanes, untried>>
vars == <<tableVars, workerVars, sends, faults>>

Lane == [proc : Procs, ep : Endpoints, rest : SUBSET Rows, row : Rows \cup {NoRow},
         seen : [failures : 0 .. Threshold, on : BOOLEAN], live : BOOLEAN]

Init ==
    /\ endpoint = [e \in Endpoints |-> "on"]
    /\ failures = [e \in Endpoints |-> 0]
    /\ status = [d \in Rows |-> "none"]
    /\ attempts = [d \in Rows |-> 0]
    /\ due = [d \in Rows |-> "never"]
    /\ running = [p \in Procs |-> FALSE]
    /\ stopping = [p \in Procs |-> FALSE]
    /\ lanes = {}
    /\ untried = [p \in Procs |-> {}]
    /\ sends = [d \in Rows |-> 0]
    /\ faults = 0

Fault(kind) == kind \in Faults /\ faults < MaxFaults /\ faults' = faults + 1

Held(n) == n.rest \cup ({n.row} \ {NoRow})

Sending(n) == n.row # NoRow

-----------------------------------------------------------------------------
(* The routes                                                              *)

\* A mutation stages a row for an enabled endpoint, in its transaction.
Stage(d) ==
    /\ status[d] = "none" /\ endpoint[Target[d]] = "on"
    /\ status' = [status EXCEPT ![d] = "pending"]
    /\ due' = [due EXCEPT ![d] = "now"]
    /\ UNCHANGED <<endpoint, failures, attempts, workerVars, sends, faults>>

\* PATCH: the failures already counted stay.
Toggle(e) ==
    /\ endpoint[e] # "gone"
    /\ endpoint' = [endpoint EXCEPT ![e] = IF endpoint[e] = "on" THEN "off" ELSE "on"]
    /\ UNCHANGED <<failures, status, attempts, due, workerVars, sends, faults>>

\* DELETE, with the endpoint's rows.
Delete(e) ==
    /\ endpoint[e] # "gone" /\ Fault("delete")
    /\ endpoint' = [endpoint EXCEPT ![e] = "gone"]
    /\ status' = [d \in Rows |-> IF Target[d] = e THEN "gone" ELSE status[d]]
    /\ UNCHANGED <<failures, attempts, due, workerVars, sends>>

-----------------------------------------------------------------------------
(* A tick                                                                  *)

Claimable ==
    {d \in Rows : status[d] = "pending" /\ due[d] = "now" /\ endpoint[Target[d]] = "on"}

\* Mutant of IsClaim: rows whose lease runs are claimed again.
IsClaimUnleased(S) ==
    /\ S # {} /\ Cardinality(S) <= Batch
    /\ S \subseteq {d \in Rows : status[d] = "pending" /\ due[d] \in {"now", "leased"}}

\* claimDueDeliveries answers S.
IsClaim(S) ==
    /\ S \subseteq Claimable /\ S # {}
    /\ Cardinality(S) = Batch \/ (Cardinality(S) < Batch /\ S = Claimable)

LanesOf(p, S) ==
    {[proc |-> p, ep |-> e, rest |-> {d \in S : Target[d] = e}, row |-> NoRow,
      seen |-> [failures |-> 0, on |-> TRUE], live |-> TRUE] : e \in {Target[d] : d \in S}}

Tick(p) ==
    /\ ~ stopping[p] /\ ~ running[p]
    /\ \E S \in SUBSET Rows :
          /\ IsClaim(S)
          /\ due' = [d \in Rows |-> IF d \in S THEN "leased" ELSE due[d]]
          /\ lanes' = lanes \cup LanesOf(p, S)
    /\ running' = [running EXCEPT ![p] = TRUE]
    /\ UNCHANGED <<endpoint, failures, status, attempts, stopping, untried, sends, faults>>

Become(n, m) == lanes' = (lanes \ {n}) \cup {m}

\* The lane ends, and leaves the rows S for the tick to release; nobody
\* looks any more at what a lane of an earlier tick leaves.
LaneEnds(n, S) ==
    /\ lanes' = lanes \ {n}
    /\ untried' = IF n.live THEN [untried EXCEPT ![n.proc] = untried[n.proc] \cup S]
                  ELSE untried

\* The next row of the lane: stop() is checked, the row and the endpoint
\* are read, and the request goes out.
NextRow(n) ==
    /\ n \in lanes /\ ~ Sending(n)
    /\ \/ /\ stopping[n.proc] \/ n.rest = {}
          /\ LaneEnds(n, n.rest)
          /\ UNCHANGED sends
       \/ /\ ~ stopping[n.proc]
          /\ \E d \in n.rest :
                IF status[d] = "pending"
                THEN /\ Become(n, [n EXCEPT
                            !.row = d, !.rest = n.rest \ {d},
                            !.seen = [failures |-> failures[n.ep], on |-> endpoint[n.ep] = "on"]])
                     /\ sends' = [sends EXCEPT ![d] = sends[d] + 1]
                ELSE Become(n, [n EXCEPT !.rest = n.rest \ {d}]) /\ UNCHANGED sends
          /\ UNCHANGED untried
    /\ UNCHANGED <<tableVars, running, stopping, faults>>

\* Mutant of Outcome: the last attempt is not counted.
OutcomeLenient(d, answer) ==
    IF answer = "ok" THEN "delivered"
    ELSE IF answer = "permanent" \/ attempts[d] >= MaxAttempts THEN "failed"
    ELSE "pending"

Outcome(d, answer) ==
    IF answer = "ok" THEN "delivered"
    ELSE IF answer = "permanent" \/ attempts[d] + 1 >= MaxAttempts THEN "failed"
    ELSE "pending"

Bump(n) == IF n < Threshold THEN n + 1 ELSE n

\* The answer, or the timeout, and the transaction that records it.  A
\* failure that will be retried ends the lane.
Record(n) ==
    /\ n \in lanes /\ Sending(n) /\ status[n.row] # "gone"
    /\ \E answer \in {"ok", "permanent", "retriable"} :
          LET d == n.row
              result == Outcome(d, answer)
              count == IF answer = "ok" THEN 0 ELSE Bump(n.seen.failures)
          IN  /\ status' = [status EXCEPT ![d] = result]
              /\ attempts' = [attempts EXCEPT ![d] = attempts[d] + 1]
              /\ due' = [due EXCEPT ![d] = IF result = "pending" THEN "backoff" ELSE "never"]
              /\ failures' = [failures EXCEPT ![n.ep] = count]
              /\ endpoint' = IF answer # "ok" /\ n.seen.on /\ count >= Threshold
                             THEN [endpoint EXCEPT ![n.ep] = "off"] ELSE endpoint
              /\ IF result = "pending" THEN LaneEnds(n, n.rest)
                 ELSE Become(n, [n EXCEPT !.row = NoRow]) /\ UNCHANGED untried
    /\ UNCHANGED <<running, stopping, sends, faults>>

\* releaseClaims.
Release(S) == due' = [d \in Rows |-> IF d \in S /\ status[d] = "pending" THEN "now" ELSE due[d]]

\* Mutant of LaneThrows: the lane retries its record until it is written.
LaneThrowsStuck(n) ==
    /\ n \in lanes /\ Sending(n)
    /\ (status[n.row] = "gone" /\ UNCHANGED faults) \/ Fault("record")
    /\ UNCHANGED <<tableVars, workerVars, sends>>

\* The transaction fails, or its rows were deleted under it: the tick ends
\* at once, and the lanes it started go on.  What it releases may stay
\* leased, as in TickEnds: a failed release is logged.
LaneThrows(n) ==
    /\ n \in lanes /\ Sending(n)
    /\ (status[n.row] = "gone" /\ UNCHANGED faults) \/ Fault("record")
    /\ IF n.live
       THEN /\ lanes' = {IF m.proc = n.proc THEN [m EXCEPT !.live = FALSE] ELSE m : m \in lanes \ {n}}
            /\ Release(untried[n.proc]) \/ UNCHANGED due
            /\ untried' = [untried EXCEPT ![n.proc] = {}]
            /\ running' = [running EXCEPT ![n.proc] = FALSE]
       ELSE lanes' = lanes \ {n} /\ UNCHANGED <<due, untried, running>>
    /\ UNCHANGED <<endpoint, failures, status, attempts, stopping, sends>>

TickEnds(p) ==
    /\ running[p] /\ \A n \in lanes : n.proc = p => ~ n.live
    /\ \/ Release(untried[p]) /\ UNCHANGED faults
       \/ Fault("release") /\ UNCHANGED due
    /\ untried' = [untried EXCEPT ![p] = {}]
    /\ running' = [running EXCEPT ![p] = FALSE]
    /\ UNCHANGED <<endpoint, failures, status, attempts, stopping, lanes, sends>>

-----------------------------------------------------------------------------
(* Processes, time and retention                                           *)

\* What is left of a process's worker when the process ends.
Vanish(p) ==
    /\ lanes' = {n \in lanes : n.proc # p}
    /\ running' = [running EXCEPT ![p] = FALSE]
    /\ untried' = [untried EXCEPT ![p] = {}]
    /\ stopping' = [stopping EXCEPT ![p] = FALSE]
    /\ UNCHANGED <<tableVars, sends>>

\* The process dies, or its drain runs out of time, and starts again.
Crash(p) == Fault("crash") /\ Vanish(p)

Stop(p) ==
    /\ ~ stopping[p] /\ Fault("stop")
    /\ stopping' = [stopping EXCEPT ![p] = TRUE]
    /\ UNCHANGED <<tableVars, running, lanes, untried, sends>>

\* stop() waits for the tick, then the process goes and another starts.
Restart(p) == stopping[p] /\ ~ running[p] /\ Vanish(p) /\ UNCHANGED faults

\* Mutant of LeaseEnds: the lease does not outlast the tick.
LeaseEndsEarly(d) ==
    /\ due[d] = "leased"
    /\ due' = [due EXCEPT ![d] = "now"]
    /\ UNCHANGED <<endpoint, failures, status, attempts, workerVars, sends, faults>>

LeaseEnds(d) ==
    /\ due[d] = "leased"
    /\ \A n \in lanes : d \notin Held(n)
    /\ \A p \in Procs : d \notin untried[p]
    /\ due' = [due EXCEPT ![d] = "now"]
    /\ UNCHANGED <<endpoint, failures, status, attempts, workerVars, sends, faults>>

BackoffEnds(d) ==
    /\ due[d] = "backoff"
    /\ due' = [due EXCEPT ![d] = "now"]
    /\ UNCHANGED <<endpoint, failures, status, attempts, workerVars, sends, faults>>

\* sweepWebhookDeliveries deletes old rows that are no longer pending.
Sweep(d) ==
    /\ status[d] \in {"delivered", "failed"}
    /\ status' = [status EXCEPT ![d] = "gone"]
    /\ UNCHANGED <<endpoint, failures, attempts, due, workerVars, sends, faults>>

-----------------------------------------------------------------------------
Working(n) == NextRow(n) \/ Record(n) \/ LaneThrows(n)

Next ==
    \/ \E d \in Rows : Stage(d) \/ LeaseEnds(d) \/ BackoffEnds(d) \/ Sweep(d)
    \/ \E e \in Endpoints : Toggle(e) \/ Delete(e)
    \/ \E p \in Procs : Tick(p) \/ TickEnds(p) \/ Crash(p) \/ Stop(p) \/ Restart(p)
    \/ \E n \in lanes : Working(n)

Spec == Init /\ [][Next]_vars

\* The tick timer fires, requests end (they time out), leases and backoffs
\* run out.
Fairness ==
    /\ \A p \in Procs : WF_vars(Tick(p)) /\ WF_vars(TickEnds(p)) /\ WF_vars(Restart(p))
    /\ \A p \in Procs, e \in Endpoints :
          WF_vars(\E n \in lanes : n.proc = p /\ n.ep = e /\ Working(n))
    /\ \A d \in Rows : WF_vars(LeaseEnds(d)) /\ WF_vars(BackoffEnds(d))

FairSpec == Spec /\ Fairness

-----------------------------------------------------------------------------
TypeOK ==
    /\ endpoint \in [Endpoints -> {"on", "off", "gone"}]
    /\ failures \in [Endpoints -> 0 .. Threshold]
    /\ status \in [Rows -> {"none", "pending", "delivered", "failed", "gone"}]
    /\ attempts \in [Rows -> 0 .. MaxAttempts]
    /\ due \in [Rows -> {"now", "backoff", "leased", "never"}]
    /\ running \in [Procs -> BOOLEAN]
    /\ stopping \in [Procs -> BOOLEAN]
    /\ lanes \subseteq Lane
    /\ untried \in [Procs -> SUBSET Rows]
    /\ sends \in [Rows -> Nat]
    /\ faults \in 0 .. MaxFaults

\* No two lanes, of one process or of several, hold the same row, and none
\* can be claimed while a lane holds it ("two workers (or two ticks) never
\* claim the same row while its lease runs").
InOneHand ==
    \A n \in lanes : \A d \in Held(n) :
        /\ status[d] \in {"pending", "gone"} /\ due[d] = "leased"
        /\ \A m \in lanes : d \in Held(m) => m = n

\* A row is sent MaxAttempts times at most, and once more for each crash or
\* failed record.
SendsBounded == \A d \in Rows : sends[d] <= MaxAttempts + faults

\* A row that was delivered or given up is not sent again, nor is its
\* record taken back.
SettledForGood ==
    [][\A d \in Rows : status[d] \in {"delivered", "failed"} =>
          status'[d] \in {status[d], "gone"} /\ sends'[d] = sends[d]]_vars

\* A worker has at most one request in flight to an endpoint ("Within one
\* worker an endpoint has at most one request in flight").
OneInFlight ==
    \A n, m \in lanes :
        Sending(n) /\ Sending(m) /\ n.proc = m.proc /\ n.ep = m.ep => n = m

\* A staged delivery is settled unless its endpoint is disabled or deleted,
\* whatever tick, lane or process it gets lost in.
Settles ==
    \A d \in Rows :
        status[d] = "pending" ~> status[d] # "pending" \/ endpoint[Target[d]] = "off"

=============================================================================
