----------------------------- MODULE WriteQueue -----------------------------
(***************************************************************************)
(* The durable write queue of the Java SDK: queue/WriteQueue.java over     *)
(* internal/DurableFiles.java.                                             *)
(*                                                                         *)
(* Callers append entries to a journal and wait until a force covers them; *)
(* one drain thread sends the entries in order, with the idempotency key   *)
(* of each, and records their end.  The process may crash or close at any  *)
(* time and opens again on the same journal.                               *)
(*                                                                         *)
(* The disk:                                                               *)
(*   file      the journal's records as the file system shows them         *)
(*   onDisk    how many of them a crash cannot take                        *)
(* The queue, lengths counted in records:                                  *)
(*   channel   the journal is open                                         *)
(*   written, durable, epoch, unforced, queue, doneSince   as in the code  *)
(*   target    the length the force under way covers; 0 on a closed file   *)
(*   life      "down", "running", "closing" (not accepting, flushing),     *)
(*             "stopping" (stopNow) or "closed"                            *)
(*   pc        pc[e]: the call that enqueues e; pc[Drain]: the drain thread *)
(*   mark      the record each waits to see forced                         *)
(* The server, which decides a key once and answers a resend alike:        *)
(*   sent      entries whose request is on its way                         *)
(*   verdict   its decision on each entry                                  *)
(* What the properties speak of:                                           *)
(*   line      the entries in the order their puts were written            *)
(*   acked     entries whose success the drain thread received             *)
(*   dead      times each entry went to the dead-letter file               *)
(*   settled   refused entries whose done record was seen forced           *)
(*   faults    failures so far                                             *)
(***************************************************************************)
EXTENDS Naturals, Sequences, FiniteSets

CONSTANTS
    Entries,    \* one enqueue each, from any thread
    Drain,      \* the drain thread
    Threshold,  \* compactThreshold
    Faults,     \* kinds of failure that happen
    MaxFaults   \* bound: failures in a behaviour

ASSUME QueueAssumption ==
    /\ IsFiniteSet(Entries) /\ Drain \notin Entries
    /\ Threshold \in Nat \ {0}
    /\ MaxFaults \in Nat

VARIABLES file, onDisk, channel, written, durable, epoch, unforced, queue,
          doneSince, target, life, pc, mark, sent, verdict,
          line, acked, dead, settled, faults

journalVars == <<file, onDisk, channel, written, durable>>
serverVars == <<sent, verdict>>
historyVars == <<line, acked, dead, settled>>
vars == <<journalVars, epoch, unforced, queue, doneSince, target, life, pc, mark,
          serverVars, historyVars, faults>>

Threads == Entries \cup {Drain}

Init ==
    /\ file = << >> /\ onDisk = 0
    /\ channel = FALSE
    /\ written = 0 /\ durable = 0 /\ epoch = 0 /\ doneSince = 0 /\ target = 0
    /\ unforced = << >> /\ queue = << >>
    /\ life = "down"
    /\ pc = [w \in Threads |-> IF w = Drain THEN "ended" ELSE "new"]
    /\ mark = [w \in Threads |-> [end |-> 0, epoch |-> 0]]
    /\ sent = {}
    /\ verdict = [e \in Entries |-> "none"]
    /\ line = << >> /\ acked = {} /\ settled = {}
    /\ dead = [e \in Entries |-> 0]
    /\ faults = 0

Fault(kind) == kind \in Faults /\ faults < MaxFaults /\ faults' = faults + 1

NoFault == UNCHANGED faults

Goto(w, p) == pc' = [pc EXCEPT ![w] = p]

InQueue(e) == \E i \in 1 .. Len(queue) : queue[i] = e

\* A thread is inside disk.force, outside the lock.
Forcing == \E w \in Threads : pc[w] = "forcing"

StopNow == life \in {"stopping", "closed"}

-----------------------------------------------------------------------------
(* The journal                                                             *)

Record(op, e) == [op |-> op, e |-> e]
Put(e) == Record("put", e)
Done(e) == Record("done", e)
Junk == Record("junk", Drain)  \* a line that fails its checksum
Torn == Record("torn", Drain)  \* one that also lacks its line end

\* What is appended to a torn line is one line with it.
Has(f, r) == \E i \in 1 .. Len(f) : f[i] = r /\ (i > 1 => f[i - 1] # Torn)

Pending(f) == {e \in Entries : Has(f, Put(e)) /\ ~ Has(f, Done(e))}

Before(f, d, e) == \E i, j \in 1 .. Len(f) : i < j /\ f[i] = Put(d) /\ f[j] = Put(e)

\* Mutant of IsReplay: the pending entries in any order.
IsReplayUnordered(q, f) ==
    /\ Len(q) = Cardinality(Pending(f))
    /\ \A e \in Pending(f) : \E i \in 1 .. Len(q) : q[i] = e

\* q is what replay reads from f: the pending entries in put order.
IsReplay(q, f) ==
    /\ \A i \in 1 .. Len(q) : q[i] \in Pending(f)
    /\ \A e \in Pending(f) : \E i \in 1 .. Len(q) : q[i] = e
    /\ \A i, j \in 1 .. Len(q) : i < j => Before(f, q[i], q[j])

Replays(f) ==
    {q \in UNION {[1 .. n -> Entries] : n \in 0 .. Cardinality(Entries)} : IsReplay(q, f)}

Write(r) ==
    /\ channel
    /\ file' = Append(file, r)
    /\ written' = written + 1
    /\ UNCHANGED <<onDisk, channel, durable>>

\* rewrite: a new journal with the puts of q only, or, when it cannot
\* replace the old one, the old journal as it is.
Rewrite(q) ==
    /\ channel' = TRUE
    /\ doneSince' = 0
    /\ \/ /\ NoFault
          /\ file' = [i \in 1 .. Len(q) |-> Put(q[i])]
          /\ onDisk' = Len(q)
       \/ /\ Fault("replace")
          /\ UNCHANGED file
          /\ onDisk' \in {onDisk, Len(file)}
    /\ written' = Len(file')
    /\ durable' = Len(file')

\* The new journal is in place and cannot be opened.
ReopenFails(q) ==
    /\ Fault("reopen")
    /\ channel' = FALSE
    /\ file' = [i \in 1 .. Len(q) |-> Put(q[i])]
    /\ onDisk' = Len(q)
    /\ UNCHANGED <<written, durable, doneSince>>

-----------------------------------------------------------------------------
(* enqueue                                                                 *)

Enqueue(e) ==
    /\ life = "running" /\ pc[e] = "new"
    /\ Write(Put(e))
    /\ mark' = [mark EXCEPT ![e] = [end |-> written', epoch |-> epoch]]
    /\ unforced' = Append(unforced, [entry |-> e, end |-> written'])
    /\ line' = Append(line, e)
    /\ Goto(e, "check")
    /\ UNCHANGED <<epoch, queue, doneSince, target, life, serverVars, acked, dead, settled, faults>>

\* The write fails and is cut off again, or the journal is closed.
EnqueueFails(e) ==
    /\ life = "running" /\ pc[e] = "new"
    /\ (~ channel /\ NoFault) \/ (channel /\ Fault("write"))
    /\ Goto(e, "failed")
    /\ UNCHANGED <<journalVars, epoch, unforced, queue, doneSince, target, life, mark, serverVars, historyVars>>

-----------------------------------------------------------------------------
(* forceThrough, of callers and of the drain thread                        *)

Return(w, outcome) ==
    /\ Goto(w, IF w = Drain THEN "callback" ELSE outcome)
    /\ settled' = IF w = Drain /\ outcome = "accepted" THEN settled \cup {Head(queue)} ELSE settled
    /\ UNCHANGED target

StartForce(w) ==
    /\ ~ Forcing
    /\ Goto(w, "forcing")
    /\ target' = IF channel THEN written ELSE 0
    /\ UNCHANGED settled

CheckForce(w) ==
    /\ pc[w] = "check"
    /\ \/ epoch # mark[w].epoch /\ Return(w, "failed")
       \/ epoch = mark[w].epoch /\ durable >= mark[w].end /\ Return(w, "accepted")
       \/ epoch = mark[w].epoch /\ durable < mark[w].end /\ StartForce(w)
    /\ UNCHANGED <<journalVars, epoch, unforced, queue, doneSince, life, mark, serverVars,
                   line, acked, dead, faults>>

\* The first n unforced entries are the ones the force covers.
Covered(n) ==
    /\ \A i \in 1 .. n : unforced[i].end <= target
    /\ n < Len(unforced) => unforced[n + 1].end > target

ForceDone(w) ==
    /\ pc[w] = "forcing" /\ channel
    /\ durable' = target
    /\ onDisk' = IF target > onDisk THEN target ELSE onDisk
    /\ \E n \in 0 .. Len(unforced) :
          /\ Covered(n)
          /\ queue' = queue \o [i \in 1 .. n |-> unforced[i].entry]
          /\ unforced' = SubSeq(unforced, n + 1, Len(unforced))
    /\ Goto(w, "check")
    /\ UNCHANGED <<file, channel, written, epoch, doneSince, target, life, mark,
                   serverVars, historyVars, faults>>

\* rollBack: every line that no force covered goes, and fails its writer.
ForceFails(w) ==
    /\ pc[w] = "forcing"
    /\ IF channel THEN Fault("force") ELSE NoFault
    /\ IF channel
       THEN file' = SubSeq(file, 1, durable) /\ onDisk' = durable
       ELSE UNCHANGED <<file, onDisk>>
    /\ written' = durable
    /\ epoch' = epoch + 1
    /\ unforced' = << >>
    /\ Goto(w, "check")
    /\ UNCHANGED <<channel, durable, queue, doneSince, target, life, mark, serverVars, historyVars>>

-----------------------------------------------------------------------------
(* The drain thread                                                        *)

DrainKeeps == UNCHANGED <<journalVars, epoch, unforced, queue, doneSince, target, life, mark>>

\* The head of the queue is sent, with its key.
Take ==
    /\ pc[Drain] = "idle" /\ ~ StopNow /\ queue # << >>
    /\ sent' = sent \cup {Head(queue)}
    /\ Goto(Drain, "flight")
    /\ DrainKeeps /\ UNCHANGED <<verdict, historyVars, faults>>

\* The server decides a request that reached it, even one given up since.
Serve(e) ==
    /\ e \in sent /\ verdict[e] = "none"
    /\ \E v \in {"success", "refused"} : verdict' = [verdict EXCEPT ![e] = v]
    /\ DrainKeeps /\ UNCHANGED <<pc, sent, historyVars, faults>>

\* Mutant of Answered: a refusal counts as handled.
AnsweredForgets ==
    /\ pc[Drain] = "flight" /\ verdict[Head(queue)] # "none"
    /\ IF verdict[Head(queue)] = "success"
       THEN acked' = acked \cup {Head(queue)}
       ELSE UNCHANGED acked
    /\ Goto(Drain, "record")
    /\ DrainKeeps /\ UNCHANGED <<serverVars, line, dead, settled, faults>>

Answered ==
    /\ pc[Drain] = "flight" /\ verdict[Head(queue)] # "none"
    /\ IF verdict[Head(queue)] = "success"
       THEN acked' = acked \cup {Head(queue)} /\ Goto(Drain, "record")
       ELSE Goto(Drain, "bury") /\ UNCHANGED acked
    /\ DrainKeeps /\ UNCHANGED <<serverVars, line, dead, settled, faults>>

\* No answer, or a transient one.
Retry ==
    /\ pc[Drain] = "flight"
    /\ Goto(Drain, "pause")
    /\ DrainKeeps /\ UNCHANGED <<serverVars, historyVars, faults>>

Paused ==
    /\ pc[Drain] = "pause" /\ ~ StopNow
    /\ Goto(Drain, "idle")
    /\ DrainKeeps /\ UNCHANGED <<serverVars, historyVars, faults>>

DrainEnds ==
    /\ pc[Drain] \in {"idle", "flight", "pause"} /\ StopNow
    /\ Goto(Drain, "ended")
    /\ DrainKeeps /\ UNCHANGED <<serverVars, historyVars, faults>>

\* A refused entry reaches the dead-letter file before anything else.
Bury ==
    /\ pc[Drain] = "bury"
    /\ dead' = [dead EXCEPT ![Head(queue)] = dead[Head(queue)] + 1]
    /\ Goto(Drain, "record")
    /\ DrainKeeps /\ UNCHANGED <<serverVars, line, acked, settled, faults>>

\* Mutant of BuryFails: the failure ends the drain thread.
BuryFailsEnds ==
    /\ pc[Drain] = "bury"
    /\ Fault("dead")
    /\ Goto(Drain, "ended")
    /\ DrainKeeps /\ UNCHANGED <<serverVars, historyVars>>

BuryFails ==
    /\ pc[Drain] = "bury"
    /\ Fault("dead")
    /\ Goto(Drain, "pause")
    /\ DrainKeeps /\ UNCHANGED <<serverVars, historyVars>>

\* The done record; that of a refusal is forced.
RecordDone ==
    /\ pc[Drain] = "record"
    /\ Write(Done(Head(queue)))
    /\ doneSince' = doneSince + 1
    /\ IF verdict[Head(queue)] = "refused"
       THEN /\ mark' = [mark EXCEPT ![Drain] = [end |-> written', epoch |-> epoch]]
            /\ Goto(Drain, "check")
       ELSE Goto(Drain, "callback") /\ UNCHANGED mark
    /\ UNCHANGED <<epoch, unforced, queue, target, life, serverVars, historyVars, faults>>

RecordFails ==
    /\ pc[Drain] = "record"
    /\ (~ channel /\ NoFault) \/ (channel /\ Fault("write"))
    /\ Goto(Drain, "callback")
    /\ DrainKeeps /\ UNCHANGED <<serverVars, historyVars>>

\* Compaction waits while a put is not covered by a force.
CompactionDue == doneSince >= Threshold /\ ~ Forcing /\ unforced = << >>

\* Mutant of Poll: the compacted journal still holds the finished head.
PollKeepsPut ==
    /\ pc[Drain] = "callback"
    /\ queue' = Tail(queue)
    /\ IF CompactionDue THEN Rewrite(queue) \/ ReopenFails(queue)
       ELSE UNCHANGED <<journalVars, doneSince, faults>>
    /\ Goto(Drain, "idle")
    /\ UNCHANGED <<epoch, unforced, target, life, mark, serverVars, historyVars>>

\* After the callback the entry leaves the queue.
Poll ==
    /\ pc[Drain] = "callback"
    /\ queue' = Tail(queue)
    /\ IF CompactionDue THEN Rewrite(queue') \/ ReopenFails(queue')
       ELSE UNCHANGED <<journalVars, doneSince, faults>>
    /\ Goto(Drain, "idle")
    /\ UNCHANGED <<epoch, unforced, target, life, mark, serverVars, historyVars>>

-----------------------------------------------------------------------------
(* close, crash and open                                                   *)

Close ==
    /\ life = "running" /\ channel
    /\ life' = "closing"
    /\ UNCHANGED <<journalVars, epoch, unforced, queue, doneSince, target, pc, mark,
                   serverVars, historyVars, faults>>

\* The queue is flushed, or the close timeout has passed.
Stop ==
    /\ life = "closing"
    /\ life' = "stopping"
    /\ UNCHANGED <<journalVars, epoch, unforced, queue, doneSince, target, pc, mark,
                   serverVars, historyVars, faults>>

\* The drain thread ended and no put waits for a force.  A force that fails
\* here is only logged.
CloseChannel ==
    /\ life = "stopping"
    /\ pc[Drain] = "ended" /\ ~ Forcing /\ unforced = << >>
    /\ IF written > durable
       THEN \/ NoFault /\ durable' = written /\ onDisk' = Len(file)
            \/ Fault("force") /\ UNCHANGED <<durable, onDisk>>
       ELSE NoFault /\ UNCHANGED <<durable, onDisk>>
    /\ channel' = FALSE
    /\ life' = "closed"
    /\ UNCHANGED <<file, written, epoch, unforced, queue, doneSince, target, pc, mark,
                   serverVars, historyVars>>

AfterCrash(p) == IF p \in {"check", "forcing"} THEN "lost" ELSE p

\* Of the journal there is left what was forced, and of the rest any lines,
\* the last of them perhaps torn.
Crash ==
    /\ life # "down"
    /\ Fault("crash")
    /\ \E n \in onDisk .. Len(file) : \E bad \in SUBSET (onDisk + 1 .. n) :
          LET lines == [i \in 1 .. n |-> IF i \in bad THEN Junk ELSE file[i]]
          IN  \/ file' = lines
              \/ "torn" \in Faults /\ n < Len(file) /\ file' = Append(lines, Torn)
    /\ channel' = FALSE
    /\ written' = 0 /\ durable' = 0 /\ epoch' = 0 /\ doneSince' = 0 /\ target' = 0
    /\ unforced' = << >> /\ queue' = << >>
    /\ life' = "down"
    /\ pc' = [w \in Threads |-> IF w = Drain THEN "ended" ELSE AfterCrash(pc[w])]
    /\ UNCHANGED <<onDisk, mark, serverVars, historyVars>>

\* The calls of the last opening have returned.
Quiet == pc[Drain] = "ended" /\ \A e \in Entries : pc[e] \notin {"check", "forcing"}

Open ==
    /\ life \in {"down", "closed"} /\ Quiet
    /\ \E q \in Replays(file) : queue' = q /\ Rewrite(q)
    /\ epoch' = 0 /\ target' = 0
    /\ unforced' = << >>
    /\ life' = "running"
    /\ Goto(Drain, "idle")
    /\ UNCHANGED <<mark, serverVars, historyVars>>

-----------------------------------------------------------------------------
ForceEnds(w) == ForceDone(w) \/ ForceFails(w)

Draining == Take \/ Paused \/ DrainEnds \/ Bury \/ RecordDone \/ RecordFails \/ Poll

Next ==
    \/ \E e \in Entries : Enqueue(e) \/ EnqueueFails(e) \/ Serve(e)
    \/ \E w \in Threads : CheckForce(w) \/ ForceEnds(w)
    \/ Draining \/ Answered \/ Retry \/ BuryFails
    \/ Close \/ Stop \/ CloseChannel \/ Crash \/ Open

Spec == Init /\ [][Next]_vars

\* Threads run, forces end, a close ends (its waits are bounded) and the
\* server decides; of the answers to a send that is repeated for ever one
\* gets through.  Nothing is assumed of callers, crashes or failures.
Fairness ==
    /\ \A w \in Threads : WF_vars(CheckForce(w)) /\ WF_vars(ForceEnds(w))
    /\ \A e \in Entries : WF_vars(Serve(e))
    /\ WF_vars(Draining)
    /\ SF_vars(Answered)
    /\ WF_vars(Stop) /\ SF_vars(CloseChannel)

FairSpec == Spec /\ Fairness

-----------------------------------------------------------------------------
TypeOK ==
    /\ file \in Seq([op : {"put", "done", "junk", "torn"}, e : Threads])
    /\ onDisk \in 0 .. Len(file)
    /\ channel \in BOOLEAN
    /\ written \in Nat /\ durable \in Nat /\ epoch \in Nat /\ doneSince \in Nat
    /\ target \in Nat
    /\ unforced \in Seq([entry : Entries, end : Nat])
    /\ queue \in Seq(Entries)
    /\ life \in {"down", "running", "closing", "stopping", "closed"}
    /\ pc \in [Threads -> {"new", "check", "forcing", "accepted", "failed", "lost",
                           "idle", "flight", "bury", "record", "callback", "pause", "ended"}]
    /\ mark \in [Threads -> [end : Nat, epoch : Nat]]
    /\ sent \subseteq Entries
    /\ verdict \in [Entries -> {"none", "success", "refused"}]
    /\ line \in Seq(Entries)
    /\ acked \subseteq Entries
    /\ dead \in [Entries -> Nat]
    /\ settled \subseteq Entries
    /\ faults \in 0 .. MaxFaults

Ended(e) == e \in acked \/ dead[e] > 0

\* An entry the caller saw accepted is never lost: until its success is
\* received or its dead letter written, the part of the journal that no
\* crash can take holds it as pending, and an open queue will send it
\* ("an entry the caller saw accepted is never lost").
AcceptedKept ==
    \A e \in Entries : pc[e] = "accepted" /\ ~ Ended(e) =>
        /\ e \in Pending(SubSeq(file, 1, onDisk))
        /\ life \in {"running", "closing", "stopping"} => InQueue(e)

\* Once the done record of a refused entry is forced, the entry is not
\* dead-lettered again, whatever is truncated, compacted or crashes later.
SettledForGood == [][\A e \in settled : dead'[e] = dead[e]]_vars

\* The entries reach the server in the order they were enqueued, across
\* rollbacks, compactions and restarts, and none that was accepted is
\* dropped on the way.
Gone ==
    {e \in Entries :
        /\ \E i \in 1 .. Len(line) : line[i] = e
        /\ verdict[e] = "none" /\ ~ Has(file, Put(e))}
Promise == INSTANCE Outbox WITH gone <- Gone, accepted <- {e \in Entries : pc[e] = "accepted"}
KeepsPromise == Promise!Spec

\* A queue that keeps running finishes every entry it accepted.
Drained ==
    <>[](life = "running")
      => \A e \in Entries : [](pc[e] = "accepted" => <>Ended(e))

\* A call of enqueue returns ("blocks the calling thread for one force").
EnqueueReturns ==
    \A e \in Entries : pc[e] = "check" ~> pc[e] \in {"accepted", "failed", "lost"}

=============================================================================
