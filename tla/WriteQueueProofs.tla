-------------------------- MODULE WriteQueueProofs --------------------------
(***************************************************************************)
(* Proofs about WriteQueue, for any entries, compaction threshold and      *)
(* number of failures: types; that no accepted entry is lost, and that a   *)
(* settled refusal stays so, on a file system that replaces the journal or *)
(* never tears a line (FileSystemKeeps); and that the queue implements     *)
(* Outbox on one that replaces the journal (FileSystemReplaces).           *)
(***************************************************************************)
EXTENDS WriteQueue, FiniteSetTheorems, SequenceTheorems, TLAPS

-----------------------------------------------------------------------------
(* The inductive invariant                                                 *)

Up == life \in {"running", "closing", "stopping"}

\* The put of e is where no crash takes it, nor the failure of a force.
Safe(e) ==
    \E i \in 1 .. onDisk : file[i] = Put(e) /\ (Up /\ channel => i <= durable)

Kept(e) == Ended(e) \/ (Safe(e) /\ (Up => InQueue(e)))

Waits(e) == \E k \in 1 .. Len(unforced) : unforced[k].entry = e

Lengths ==
    /\ Up /\ channel => written = Len(file) /\ durable <= written
    /\ ~ Up => ~ channel

\* One force at a time, and it covers what was written when it began.
OneForce ==
    /\ \A v, w \in Threads : pc[v] = "forcing" /\ pc[w] = "forcing" => v = w
    /\ \A w \in Threads :
          pc[w] = "forcing" /\ channel =>
              Up /\ durable <= target /\ target <= written

\* The puts no force covers lie past the durable length, in order.
Unforced ==
    /\ \A k \in 1 .. Len(unforced) :
          LET u == unforced[k]
          IN  /\ pc[u.entry] # "new"
              /\ mark[u.entry] = [end |-> u.end, epoch |-> epoch]
              /\ durable < u.end /\ u.end <= written
              /\ file[u.end] = Put(u.entry)
    /\ \A j, k \in 1 .. Len(unforced) : j < k => unforced[j].end < unforced[k].end
    /\ unforced # << >> => Up /\ channel

\* A caller that waits in the current epoch waits for a put that is kept or
\* not yet covered.
Waiting ==
    \A e \in Entries :
        pc[e] \in {"check", "forcing"} =>
            /\ mark[e].epoch <= epoch
            /\ mark[e].epoch = epoch => Kept(e) \/ Waits(e)

Accepted == \A e \in Entries : pc[e] = "accepted" => Kept(e)

\* Done records and torn lines in the journal.
DoneRecords ==
    /\ \A i \in 1 .. Len(file) : \A e \in Entries : file[i] = Done(e) => Ended(e)
    /\ \A i \in 1 .. Len(file) :
          file[i] = Torn => life = "down" /\ "torn" \in Faults /\ i > onDisk

\* The drain thread works on the head of an open queue.
Drains ==
    /\ pc[Drain] # "ended" => Up
    /\ pc[Drain] \in {"flight", "bury", "record", "check", "forcing", "callback"} =>
          queue # << >>
    /\ pc[Drain] \in {"record", "check", "forcing", "callback"} => Ended(Head(queue))

IInv ==
    /\ TypeOK /\ Lengths /\ OneForce /\ Unforced
    /\ Waiting /\ Accepted /\ DoneRecords /\ Drains

-----------------------------------------------------------------------------
(* Types                                                                   *)

\* The records the journal holds.
Records == [op : {"put", "done", "junk", "torn"}, e : Threads]

\* The kinds of record are records.
LEMMA RecordTypes ==
    /\ \A e \in Entries : Put(e) \in Records /\ Done(e) \in Records
    /\ Junk \in Records /\ Torn \in Records
BY DEF Records, Put, Done, Junk, Torn, Record, Threads

\* A journal of puts, as compaction writes it.
LEMMA PutsType ==
    ASSUME NEW q \in Seq(Entries)
    PROVE  /\ [i \in 1 .. Len(q) |-> Put(q[i])] \in Seq(Records)
           /\ Len([i \in 1 .. Len(q) |-> Put(q[i])]) = Len(q)
<1>1. \A i \in 1 .. Len(q) : Put(q[i]) \in Records
  BY RecordTypes
<1> QED BY <1>1

\* Rewriting the journal keeps its types.
LEMMA RewriteType ==
    ASSUME TypeOK, NEW q \in Seq(Entries), Rewrite(q) \/ ReopenFails(q)
    PROVE  /\ file' \in Seq(Records) /\ onDisk' \in 0 .. Len(file')
           /\ channel' \in BOOLEAN
           /\ written' \in Nat /\ durable' \in Nat /\ doneSince' \in Nat
           /\ faults' \in 0 .. MaxFaults
<1>0. [i \in 1 .. Len(q) |-> Put(q[i])] \in Seq(Records)
      /\ Len([i \in 1 .. Len(q) |-> Put(q[i])]) = Len(q) /\ Len(q) \in Nat
  BY PutsType
<1>1. file \in Seq(Records) /\ onDisk \in 0 .. Len(file) /\ Len(file) \in Nat
      /\ written \in Nat /\ durable \in Nat /\ doneSince \in Nat
      /\ faults \in 0 .. MaxFaults /\ MaxFaults \in Nat
  BY QueueAssumption DEF TypeOK, Records
<1>2. faults' \in 0 .. MaxFaults
  BY <1>1 DEF Rewrite, ReopenFails, Fault, NoFault
<1>3. file' \in Seq(Records)
  BY <1>0, <1>1 DEF Rewrite, ReopenFails
<1>4. onDisk' \in 0 .. Len(file')
  <2>1. CASE file' = [i \in 1 .. Len(q) |-> Put(q[i])] /\ onDisk' = Len(q)
    <3>1. Len(file') = Len(q)
      BY <1>0, <2>1
    <3> QED BY <1>0, <2>1, <3>1
  <2>2. CASE file' = file /\ onDisk' \in {onDisk, Len(file)}
    BY <1>1, <2>2
  <2> QED BY <2>1, <2>2 DEF Rewrite, ReopenFails
<1>5. Len(file') \in Nat
  BY <1>3
<1>6. written' \in Nat /\ durable' \in Nat /\ doneSince' \in Nat /\ channel' \in BOOLEAN
  <2>1. CASE Rewrite(q)
    BY <1>5, <2>1 DEF Rewrite
  <2>2. CASE ReopenFails(q)
    BY <1>1, <2>2 DEF ReopenFails
  <2> QED BY <2>1, <2>2
<1> QED BY <1>2, <1>3, <1>4, <1>6

\* Writing a record keeps the types of the journal.
LEMMA WriteType ==
    ASSUME TypeOK, NEW r \in Records, Write(r)
    PROVE  /\ file' \in Seq(Records) /\ onDisk' \in 0 .. Len(file')
           /\ channel' \in BOOLEAN /\ written' \in Nat /\ durable' \in Nat
BY DEF TypeOK, Records, Write

\* What a crash leaves of the journal: the lines on disk, and any of the rest.
LEMMA CrashFile ==
    ASSUME TypeOK, DoneRecords, Crash
    PROVE  /\ file' \in Seq(Records) /\ onDisk' = onDisk /\ onDisk \in 0 .. Len(file')
           /\ \A i \in 1 .. onDisk : file'[i] = file[i]
           /\ \A i \in 1 .. Len(file') :
                 file'[i] = Junk \/ (i \in 1 .. Len(file) /\ file'[i] = file[i])
                 \/ (file'[i] = Torn /\ i > onDisk /\ "torn" \in Faults)
<1>0. file \in Seq(Records) /\ onDisk \in 0 .. Len(file) /\ Len(file) \in Nat
  BY DEF TypeOK, Records
<1>1. PICK n \in onDisk .. Len(file) : \E bad \in SUBSET (onDisk + 1 .. n) :
          LET lines == [i \in 1 .. n |-> IF i \in bad THEN Junk ELSE file[i]]
          IN  \/ file' = lines
              \/ "torn" \in Faults /\ n < Len(file) /\ file' = Append(lines, Torn)
  BY DEF Crash
<1>2. PICK bad \in SUBSET (onDisk + 1 .. n) :
          LET lines == [i \in 1 .. n |-> IF i \in bad THEN Junk ELSE file[i]]
          IN  \/ file' = lines
              \/ "torn" \in Faults /\ n < Len(file) /\ file' = Append(lines, Torn)
  BY <1>1
<1> DEFINE lines == [i \in 1 .. n |-> IF i \in bad THEN Junk ELSE file[i]]
<1>3. n \in Nat /\ onDisk <= n /\ n <= Len(file)
  BY <1>0
<1>4. /\ lines \in Seq(Records) /\ Len(lines) = n
      /\ \A i \in 1 .. n : lines[i] = Junk \/ lines[i] = file[i]
      /\ \A i \in 1 .. onDisk : lines[i] = file[i]
  <2>1. \A i \in 1 .. n : lines[i] \in Records
    BY <1>0, <1>3, RecordTypes
  <2>2. lines \in Seq(Records) /\ Len(lines) = n
    BY <1>3, <2>1
  <2>3. \A i \in 1 .. onDisk : i \notin bad /\ i \in 1 .. n
    BY <1>0, <1>3
  <2> QED BY <2>2, <2>3
<1>5. file' = lines \/ ("torn" \in Faults /\ file' = Append(lines, Torn))
  BY <1>2
<1> HIDE DEF lines
<1>6. onDisk' = onDisk
  BY DEF Crash
<1>7. CASE file' = lines
  BY <1>0, <1>3, <1>4, <1>6, <1>7
<1>8. CASE "torn" \in Faults /\ file' = Append(lines, Torn)
  <2>1. /\ Append(lines, Torn) \in Seq(Records) /\ Len(Append(lines, Torn)) = n + 1
        /\ \A i \in 1 .. n : Append(lines, Torn)[i] = lines[i]
        /\ Append(lines, Torn)[n + 1] = Torn
    BY <1>3, <1>4, RecordTypes, AppendProperties
  <2>2. ASSUME NEW i \in 1 .. Len(file')
        PROVE  file'[i] = Junk \/ (i \in 1 .. Len(file) /\ file'[i] = file[i])
                 \/ (file'[i] = Torn /\ i > onDisk /\ "torn" \in Faults)
    <3>1. CASE i = n + 1
      BY <1>0, <1>3, <1>8, <2>1, <3>1
    <3>2. CASE i \in 1 .. n
      BY <1>0, <1>3, <1>4, <1>8, <2>1, <3>2
    <3> QED BY <1>3, <1>8, <2>1, <3>1, <3>2
  <2>3. \A i \in 1 .. onDisk : i \in 1 .. n
    BY <1>0, <1>3
  <2> QED BY <1>0, <1>3, <1>4, <1>6, <1>8, <2>1, <2>2, <2>3
<1> QED BY <1>5, <1>7, <1>8

\* A replayed queue holds entries.
LEMMA ReplayType ==
    ASSUME NEW f, NEW q \in Replays(f)
    PROVE  q \in Seq(Entries) /\ IsReplay(q, f)
<1>1. PICK n \in 0 .. Cardinality(Entries) : q \in [1 .. n -> Entries] /\ IsReplay(q, f)
  BY DEF Replays
<1>2. n \in Nat
  BY <1>1, FS_CardinalityType, QueueAssumption
<1> QED BY <1>1, <1>2

\* The types hold at first, and every step keeps them.
LEMMA TypeInit == Init => TypeOK
<1> SUFFICES ASSUME Init
             PROVE  TypeOK
  OBVIOUS
<1> USE DEF Init, TypeOK
<1>1. file \in Seq([op : {"put", "done", "junk", "torn"}, e : Threads])
      /\ unforced \in Seq([entry : Entries, end : Nat]) /\ queue \in Seq(Entries)
      /\ line \in Seq(Entries) /\ Len(file) = 0
  OBVIOUS
<1>2. pc \in [Threads -> {"new", "check", "forcing", "accepted", "failed", "lost",
                          "idle", "flight", "bury", "record", "callback", "pause", "ended"}]
  OBVIOUS
<1>3. mark \in [Threads -> [end : Nat, epoch : Nat]]
  OBVIOUS
<1>4. verdict \in [Entries -> {"none", "success", "refused"}] /\ dead \in [Entries -> Nat]
  OBVIOUS
<1>5. faults \in 0 .. MaxFaults /\ onDisk \in 0 .. Len(file)
  BY <1>1, QueueAssumption
<1>6. sent \subseteq Entries /\ acked \subseteq Entries /\ settled \subseteq Entries
  OBVIOUS
<1>7. channel \in BOOLEAN /\ life \in {"down", "running", "closing", "stopping", "closed"}
      /\ written \in Nat /\ durable \in Nat /\ epoch \in Nat /\ doneSince \in Nat
      /\ target \in Nat
  OBVIOUS
<1> HIDE DEF Init
<1> QED BY <1>1, <1>2, <1>3, <1>4, <1>5, <1>6, <1>7

\* The head of the queue that the drain thread works on.
LEMMA HeadType ==
    ASSUME TypeOK, Drains,
           pc[Drain] \in {"flight", "bury", "record", "check", "forcing", "callback"}
    PROVE  queue # << >> /\ Head(queue) \in Entries /\ Tail(queue) \in Seq(Entries)
<1>1. queue # << >> /\ queue \in Seq(Entries)
  BY DEF TypeOK, Drains
<1> QED BY <1>1

\* Every step keeps the types of the queue, its journal and its drain.
LEMMA TypeNext ==
    ASSUME IInv, [Next]_vars
    PROVE  TypeOK'
<1> USE DEF TypeOK, Records, IInv
<1> DEFINE Faulted == faults' \in 0 .. MaxFaults
<1>f. ASSUME NoFault \/ \E kind \in Faults : Fault(kind)
      PROVE  Faulted
  BY <1>f, QueueAssumption DEF NoFault, Fault
<1> HIDE DEF Faulted
<1>1. ASSUME NEW e \in Entries, Enqueue(e)
      PROVE  TypeOK'
  <2>1. Put(e) \in Records
    BY RecordTypes
  <2>2. Write(Put(e))
    BY <1>1 DEF Enqueue
  <2>3. /\ file' \in Seq(Records) /\ onDisk' \in 0 .. Len(file')
        /\ channel' \in BOOLEAN /\ written' \in Nat /\ durable' \in Nat
    BY <2>1, <2>2, WriteType
  <2>4. unforced' \in Seq([entry : Entries, end : Nat]) /\ line' \in Seq(Entries)
    BY <1>1, <2>3 DEF Enqueue
  <2>5. mark' \in [Threads -> [end : Nat, epoch : Nat]]
    BY <1>1, <2>3 DEF Enqueue
  <2> QED BY <1>1, <2>3, <2>4, <2>5 DEF Enqueue, Goto, serverVars
<1>2. ASSUME NEW e \in Entries, EnqueueFails(e)
      PROVE  TypeOK'
  BY <1>2, <1>f DEF EnqueueFails, Goto, Faulted, Fault, journalVars, serverVars, historyVars
<1>3. ASSUME NEW e \in Entries, Serve(e)
      PROVE  TypeOK'
  BY <1>3 DEF Serve, DrainKeeps, journalVars, historyVars
<1>4. ASSUME NEW w \in Threads, CheckForce(w)
      PROVE  TypeOK'
  <2>1. CASE Return(w, "failed") \/ Return(w, "accepted")
    <3>1. settled' \subseteq Entries
      <4>1. CASE settled' = settled
        BY <4>1
      <4>2. CASE w = Drain /\ Return(w, "accepted")
        BY <1>4, <4>2, HeadType DEF CheckForce, Return
      <4> QED BY <2>1, <4>1, <4>2 DEF Return
    <3> QED BY <1>4, <2>1, <3>1 DEF CheckForce, Return, Goto, journalVars, serverVars
  <2>2. CASE StartForce(w)
    BY <1>4, <2>2 DEF CheckForce, StartForce, Goto, journalVars, serverVars
  <2> QED BY <1>4, <2>1, <2>2 DEF CheckForce
<1>5. ASSUME NEW w \in Threads, ForceDone(w)
      PROVE  TypeOK'
  <2>1. PICK n \in 0 .. Len(unforced) :
           /\ queue' = queue \o [i \in 1 .. n |-> unforced[i].entry]
           /\ unforced' = SubSeq(unforced, n + 1, Len(unforced))
    BY <1>5 DEF ForceDone
  <2>2. unforced' \in Seq([entry : Entries, end : Nat])
    <3>1. \A i \in n + 1 .. Len(unforced) : unforced[i] \in [entry : Entries, end : Nat]
      <4>1. ASSUME NEW i \in n + 1 .. Len(unforced)
            PROVE  unforced[i] \in [entry : Entries, end : Nat]
        <5>1. i \in 1 .. Len(unforced)
          OBVIOUS
        <5> QED BY <5>1, ElementOfSeq
      <4> QED BY <4>1
    <3> QED BY <2>1, <3>1, SubSeqProperties
  <2>3. queue' \in Seq(Entries)
    <3>1. \A i \in 1 .. n : unforced[i].entry \in Entries
      <4>1. ASSUME NEW i \in 1 .. n
            PROVE  unforced[i] \in [entry : Entries, end : Nat]
        <5>1. i \in 1 .. Len(unforced)
          OBVIOUS
        <5> QED BY <5>1, ElementOfSeq
      <4> QED BY <4>1
    <3>2. [i \in 1 .. n |-> unforced[i].entry] \in Seq(Entries)
      BY <3>1
    <3> QED BY <2>1, <3>2
  <2>4. onDisk' \in 0 .. Len(file')
    BY <1>5 DEF ForceDone, OneForce, Lengths
  <2> QED BY <1>5, <2>2, <2>3, <2>4 DEF ForceDone, Goto, serverVars, historyVars
<1>6. ASSUME NEW w \in Threads, ForceFails(w)
      PROVE  TypeOK'
  <2>1. file' \in Seq(Records) /\ onDisk' \in 0 .. Len(file')
    <3>1. CASE channel
      <4>1. durable <= Len(file) /\ file \in Seq(Records) /\ durable \in Nat
        BY <3>1 DEF Lengths
      <4>2. file' = SubSeq(file, 1, durable) /\ onDisk' = durable
        BY <1>6, <3>1 DEF ForceFails
      <4>3. \A i \in 1 .. durable : file[i] \in Records
        <5>1. ASSUME NEW i \in 1 .. durable
              PROVE  file[i] \in Records
          <6>1. i \in 1 .. Len(file)
            BY <4>1
          <6> QED BY <4>1, <6>1, ElementOfSeq
        <5> QED BY <5>1
      <4>4. SubSeq(file, 1, durable) \in Seq(Records) /\ Len(SubSeq(file, 1, durable)) = durable
        <5>1. /\ SubSeq(file, 1, durable) \in Seq(Records)
              /\ Len(SubSeq(file, 1, durable)) = IF 1 <= durable THEN durable - 1 + 1 ELSE 0
          BY <4>1, <4>3, SubSeqProperties
        <5>2. (IF 1 <= durable THEN durable - 1 + 1 ELSE 0) = durable
          BY <4>1
        <5> QED BY <5>1, <5>2
      <4> QED BY <4>1, <4>2, <4>4
    <3>2. CASE ~ channel
      BY <1>6, <3>2 DEF ForceFails
    <3> QED BY <3>1, <3>2
  <2>2. Faulted
    BY <1>6, <1>f DEF ForceFails, Fault
  <2> QED BY <1>6, <2>1, <2>2 DEF ForceFails, Goto, Faulted, serverVars, historyVars
<1>7. CASE Take \/ Paused \/ DrainEnds \/ Retry \/ Answered \/ Bury \/ BuryFails \/ RecordFails
  <2>1. CASE Take
    <3>1. Head(queue) \in Entries
      BY <2>1 DEF Take
    <3> QED BY <2>1, <3>1 DEF Take, DrainKeeps, Goto, journalVars, historyVars
  <2>2. CASE Answered
    <3>1. Head(queue) \in Entries
      BY <2>2, HeadType DEF Answered
    <3> QED BY <2>2, <3>1 DEF Answered, DrainKeeps, Goto, journalVars, serverVars
  <2>3. CASE Bury
    <3>1. Head(queue) \in Entries
      BY <2>3, HeadType DEF Bury
    <3>2. dead' \in [Entries -> Nat]
      BY <2>3, <3>1 DEF Bury
    <3> QED BY <2>3, <3>2 DEF Bury, DrainKeeps, Goto, journalVars, serverVars
  <2>4. CASE Paused \/ DrainEnds \/ Retry
    BY <2>4 DEF Paused, DrainEnds, Retry, DrainKeeps, Goto, journalVars, serverVars, historyVars
  <2>5. CASE BuryFails \/ RecordFails
    <3>1. Faulted
      BY <2>5, <1>f DEF BuryFails, RecordFails, Fault
    <3> QED BY <2>5, <3>1
        DEF BuryFails, RecordFails, DrainKeeps, Goto, Faulted, journalVars, serverVars, historyVars
  <2> QED BY <1>7, <2>1, <2>2, <2>3, <2>4, <2>5
<1>8. CASE RecordDone
  <2>1. Done(Head(queue)) \in Records /\ Write(Done(Head(queue)))
    BY <1>8, HeadType, RecordTypes DEF RecordDone
  <2>2. /\ file' \in Seq(Records) /\ onDisk' \in 0 .. Len(file')
        /\ channel' \in BOOLEAN /\ written' \in Nat /\ durable' \in Nat
    BY <2>1, WriteType
  <2>3. mark' \in [Threads -> [end : Nat, epoch : Nat]]
    <3>1. [end |-> written', epoch |-> epoch] \in [end : Nat, epoch : Nat]
      BY <2>2
    <3> QED BY <1>8, <3>1 DEF RecordDone
  <2>4. pc' \in [Threads -> {"new", "check", "forcing", "accepted", "failed", "lost",
                             "idle", "flight", "bury", "record", "callback", "pause", "ended"}]
    BY <1>8 DEF RecordDone, Goto
  <2>5. doneSince' \in Nat /\ UNCHANGED <<epoch, unforced, queue, target, life, sent, verdict,
                                         line, acked, dead, settled, faults>>
    BY <1>8 DEF RecordDone, serverVars, historyVars
  <2> QED BY <2>2, <2>3, <2>4, <2>5
<1>9. CASE Poll
  <2>1. queue' \in Seq(Entries)
    BY <1>9, HeadType DEF Poll
  <2>2. CASE CompactionDue
    <3>1. /\ file' \in Seq(Records) /\ onDisk' \in 0 .. Len(file')
          /\ channel' \in BOOLEAN
          /\ written' \in Nat /\ durable' \in Nat /\ doneSince' \in Nat
          /\ faults' \in 0 .. MaxFaults
      BY <1>9, <2>1, <2>2, RewriteType DEF Poll
    <3> QED BY <1>9, <2>1, <3>1 DEF Poll, Goto, serverVars, historyVars
  <2>3. CASE ~ CompactionDue
    BY <1>9, <2>1, <2>3 DEF Poll, Goto, journalVars, serverVars, historyVars
  <2> QED BY <2>2, <2>3
<1>10. CASE Close \/ Stop
  BY <1>10 DEF Close, Stop, journalVars, serverVars, historyVars
<1>11. CASE CloseChannel
  <2>1. Faulted
    BY <1>11, <1>f DEF CloseChannel, Fault
  <2>2. onDisk' \in 0 .. Len(file') /\ durable' \in Nat
    BY <1>11 DEF CloseChannel
  <2> QED BY <1>11, <2>1, <2>2 DEF CloseChannel, Faulted, serverVars, historyVars
<1>12. CASE Crash
  <2>1. Faulted
    BY <1>12, <1>f DEF Crash, Fault
  <2>2. file' \in Seq(Records) /\ onDisk' \in 0 .. Len(file')
    BY <1>12, CrashFile
  <2>3. pc' \in [Threads -> {"new", "check", "forcing", "accepted", "failed", "lost",
                             "idle", "flight", "bury", "record", "callback", "pause", "ended"}]
    BY <1>12 DEF Crash, AfterCrash
  <2>4. unforced' \in Seq([entry : Entries, end : Nat]) /\ queue' \in Seq(Entries)
    BY <1>12 DEF Crash
  <2> QED BY <1>12, <2>1, <2>2, <2>3, <2>4 DEF Crash, Faulted, serverVars, historyVars
<1>13. CASE Open
  <2>1. PICK q \in Replays(file) : queue' = q /\ Rewrite(q)
    BY <1>13 DEF Open
  <2>2. q \in Seq(Entries)
    BY <2>1, ReplayType
  <2>3. /\ file' \in Seq(Records) /\ onDisk' \in 0 .. Len(file')
        /\ channel' \in BOOLEAN
        /\ written' \in Nat /\ durable' \in Nat /\ doneSince' \in Nat
        /\ faults' \in 0 .. MaxFaults
    BY <2>1, <2>2, RewriteType
  <2>4. unforced' \in Seq([entry : Entries, end : Nat])
    BY <1>13 DEF Open
  <2> QED BY <1>13, <2>1, <2>2, <2>3, <2>4 DEF Open, Goto, serverVars, historyVars
<1>14. CASE UNCHANGED vars
  BY <1>14 DEF vars, journalVars, serverVars, historyVars
<1> QED
  BY <1>1, <1>2, <1>3, <1>4, <1>5, <1>6, <1>7, <1>8, <1>9, <1>10, <1>11, <1>12, <1>13, <1>14
  DEF Next, ForceEnds, Draining

-----------------------------------------------------------------------------
(* What each kind of step keeps                                            *)

\* Kept entries stay kept when the part of the journal that holds them
\* stays where it is.
LEMMA KeptStays ==
    ASSUME TypeOK, TypeOK', NEW e \in Entries, Kept(e),
           Ended(e) => Ended(e)',
           Up' => Up,
           Up' /\ channel' => channel /\ durable <= durable',
           \A i \in 1 .. onDisk :
              (Up /\ channel => i <= durable) => i <= onDisk' /\ file'[i] = file[i],
           Up' /\ InQueue(e) => InQueue(e)'
    PROVE  Kept(e)'
<1>1. CASE Ended(e)
  BY <1>1 DEF Kept
<1>2. CASE ~ Ended(e)
  <2>1. Safe(e) /\ (Up => InQueue(e))
    BY <1>2 DEF Kept
  <2>2. PICK i \in 1 .. onDisk : file[i] = Put(e) /\ (Up /\ channel => i <= durable)
    BY <2>1 DEF Safe
  <2>3. onDisk \in Nat /\ onDisk' \in Nat /\ durable \in Nat /\ durable' \in Nat
    BY DEF TypeOK
  <2>4. i \in 1 .. onDisk' /\ file'[i] = Put(e)
    BY <2>2, <2>3
  <2>5. Up' /\ channel' => i <= durable'
    BY <2>2, <2>3
  <2>6. Safe(e)'
    BY <2>4, <2>5 DEF Safe, Put, Record
  <2> QED BY <2>1, <2>6 DEF Kept
<1> QED BY <1>1, <1>2

\* Steps that touch neither the journal nor the queue.
LEMMA QuietStep ==
    ASSUME IInv, TypeOK',
           UNCHANGED <<file, onDisk, channel, written, durable, unforced, queue>>,
           Up' = Up, (life = "down") = (life' = "down"),
           \A e \in Entries : Ended(e) => Ended(e)'
    PROVE  /\ Lengths' /\ DoneRecords'
           /\ \A e \in Entries : Kept(e) => Kept(e)'
           /\ \A e \in Entries : Waits(e) => Waits(e)'
<1>1. Lengths'
  BY DEF IInv, Lengths
<1>2. DoneRecords'
  BY DEF IInv, DoneRecords, Done, Torn, Record
<1>3. ASSUME NEW e \in Entries, Kept(e)
      PROVE  Kept(e)'
  <2>1. InQueue(e) => InQueue(e)'
    BY DEF InQueue
  <2>2. durable \in Nat /\ onDisk \in Nat
    BY DEF IInv, TypeOK
  <2> QED BY <1>3, <2>1, <2>2, KeptStays DEF IInv
<1>4. \A e \in Entries : Waits(e) => Waits(e)'
  BY DEF Waits
<1> QED BY <1>1, <1>2, <1>3, <1>4

\* Callers' marks and waits, when no put is covered and no epoch begins.
LEMMA WaitersStay ==
    ASSUME IInv, TypeOK', epoch' = epoch,
           \A e \in Entries : Kept(e) => Kept(e)',
           \A e \in Entries : Waits(e) => Waits(e)',
           \A e \in Entries :
              pc'[e] \in {"check", "forcing"} =>
                  pc[e] \in {"check", "forcing"} /\ mark'[e] = mark[e],
           \A e \in Entries : pc'[e] = "accepted" => pc[e] = "accepted"
    PROVE  Waiting' /\ Accepted'
BY DEF IInv, Waiting, Accepted

\* The unforced puts stay so when the journal only grows.
LEMMA UnforcedStays ==
    ASSUME IInv, TypeOK', epoch' = epoch, unforced' = unforced, durable' = durable,
           written' >= written,
           \A k \in 1 .. written : file'[k] = file[k],
           unforced # << >> => Up' /\ channel',
           \A e \in Entries : pc[e] # "new" => pc'[e] # "new" /\ mark'[e] = mark[e]
    PROVE  Unforced'
<1>1. ASSUME NEW k \in 1 .. Len(unforced)
      PROVE  LET u == unforced[k]
             IN  /\ pc'[u.entry] # "new"
                 /\ mark'[u.entry] = [end |-> u.end, epoch |-> epoch]
                 /\ durable < u.end /\ u.end <= written'
                 /\ file'[u.end] = Put(u.entry)
  <2>1. unforced[k] \in [entry : Entries, end : Nat]
    BY ElementOfSeq DEF IInv, TypeOK
  <2>2. /\ pc[unforced[k].entry] # "new"
        /\ mark[unforced[k].entry] = [end |-> unforced[k].end, epoch |-> epoch]
        /\ durable < unforced[k].end /\ unforced[k].end <= written
        /\ file[unforced[k].end] = Put(unforced[k].entry)
    BY DEF IInv, Unforced
  <2>3. written \in Nat /\ written' \in Nat /\ durable \in Nat
    BY DEF IInv, TypeOK
  <2>4. unforced[k].end \in 1 .. written
    BY <2>1, <2>2, <2>3
  <2> QED BY <2>1, <2>2, <2>3, <2>4
<1>2. \A j, k \in 1 .. Len(unforced) : j < k => unforced[j].end < unforced[k].end
  BY DEF IInv, Unforced
<1> QED BY <1>1, <1>2 DEF Unforced, Put, Record

-----------------------------------------------------------------------------
(* Every step keeps the invariant                                          *)

\* Steps of the drain thread, and of the server, outside the journal.
LEMMA DrainStep ==
    ASSUME IInv, TypeOK', DrainKeeps, NEW p \in {"idle", "flight", "bury", "record",
                                                "callback", "pause", "ended"},
           Goto(Drain, p) \/ UNCHANGED pc,
           \A e \in Entries : Ended(e) => Ended(e)'
    PROVE  /\ Lengths' /\ OneForce' /\ Unforced'
           /\ Waiting' /\ Accepted' /\ DoneRecords'
<1>1. /\ UNCHANGED <<file, onDisk, channel, written, durable, epoch, unforced, queue, life, mark, target>>
      /\ Up' = Up
  BY DEF DrainKeeps, journalVars, Up
<1>2. /\ \A e \in Entries : pc'[e] = pc[e]
      /\ \A w \in Threads : pc'[w] = "forcing" => pc[w] = "forcing"
  BY QueueAssumption DEF Goto, Threads, IInv, TypeOK
<1>3. /\ Lengths' /\ DoneRecords'
      /\ \A e \in Entries : Kept(e) => Kept(e)'
      /\ \A e \in Entries : Waits(e) => Waits(e)'
  BY <1>1, QuietStep
<1>4. Waiting' /\ Accepted'
  BY <1>1, <1>2, <1>3, WaitersStay
<1>5. OneForce'
  BY <1>1, <1>2 DEF IInv, OneForce
<1>6. Unforced'
  <2>1. unforced # << >> => Up /\ channel
    BY DEF IInv, Unforced
  <2>2. written \in Nat
    BY DEF IInv, TypeOK
  <2> QED BY <1>1, <1>2, <2>1, <2>2, UnforcedStays
<1> QED BY <1>3, <1>4, <1>5, <1>6

\* The steps of the drain keep the invariant.
LEMMA DrainSteps ==
    ASSUME IInv, TypeOK',
           \/ Take \/ Answered \/ Retry \/ Paused \/ DrainEnds
           \/ Bury \/ BuryFails \/ RecordFails \/ \E e \in Entries : Serve(e)
    PROVE  IInv'
<1>1. DrainKeeps /\ UNCHANGED <<queue, life>> /\ Up' = Up
  BY DEF Take, Answered, Retry, Paused, DrainEnds, Bury, BuryFails, RecordFails, Serve,
         DrainKeeps, Up
<1>2. \A e \in Entries : Ended(e) => Ended(e)'
  <2>1. ASSUME NEW e \in Entries, Ended(e)
        PROVE  Ended(e)'
    <3>1. acked \subseteq acked'
      BY DEF Take, Answered, Retry, Paused, DrainEnds, Bury, BuryFails, RecordFails, Serve,
             historyVars
    <3>2. CASE Bury
      <4>1. dead \in [Entries -> Nat] /\ dead' \in [Entries -> Nat]
        BY DEF IInv, TypeOK
      <4>2. dead' = [dead EXCEPT ![Head(queue)] = dead[Head(queue)] + 1]
        BY <3>2 DEF Bury
      <4>3. dead[e] \in Nat /\ dead'[e] \in {dead[e], dead[e] + 1}
        BY <4>1, <4>2
      <4> QED BY <2>1, <3>1, <4>3 DEF Ended
    <3>3. CASE ~ Bury
      <4>1. dead' = dead
        BY <3>3 DEF Take, Answered, Retry, Paused, DrainEnds, BuryFails, RecordFails, Serve,
               historyVars
      <4> QED BY <2>1, <3>1, <4>1 DEF Ended
    <3> QED BY <3>2, <3>3
  <2> QED BY <2>1
<1>3. pc \in [Threads -> {"new", "check", "forcing", "accepted", "failed", "lost",
                          "idle", "flight", "bury", "record", "callback", "pause", "ended"}]
      /\ Drain \in Threads
  BY DEF IInv, TypeOK, Threads
<1>4. Drains'
  <2>1. CASE Take
    BY <1>1, <1>3, <2>1 DEF Take, Goto, IInv, Drains
  <2>2. CASE Answered
    <3>1. queue # << >> /\ Head(queue) \in Entries
      BY <2>2, HeadType DEF Answered, IInv
    <3>2. CASE verdict[Head(queue)] = "success"
      BY <1>1, <1>3, <2>2, <3>1, <3>2 DEF Answered, Goto, IInv, Drains, Ended
    <3>3. CASE verdict[Head(queue)] # "success"
      BY <1>1, <1>3, <2>2, <3>1, <3>3 DEF Answered, Goto, IInv, Drains
    <3> QED BY <3>2, <3>3
  <2>3. CASE Retry \/ Paused \/ DrainEnds \/ BuryFails
    BY <1>1, <1>3, <2>3 DEF Retry, Paused, DrainEnds, BuryFails, Goto, IInv, Drains, Up
  <2>4. CASE Bury
    <3>1. queue # << >> /\ Head(queue) \in Entries
      BY <2>4, HeadType DEF Bury, IInv
    <3>2. dead'[Head(queue)] > 0
      <4>1. dead \in [Entries -> Nat]
            /\ dead' = [dead EXCEPT ![Head(queue)] = dead[Head(queue)] + 1]
        BY <2>4 DEF Bury, IInv, TypeOK
      <4>2. dead'[Head(queue)] = dead[Head(queue)] + 1 /\ dead[Head(queue)] \in Nat
        BY <3>1, <4>1
      <4> QED BY <4>2
    <3> QED BY <1>1, <1>3, <2>4, <3>1, <3>2 DEF Bury, Goto, IInv, Drains, Ended
  <2>5. CASE RecordFails
    <3>1. queue # << >> /\ Head(queue) \in Entries /\ Ended(Head(queue))
      BY <2>5, HeadType DEF RecordFails, IInv, Drains
    <3> QED BY <1>1, <1>2, <1>3, <2>5, <3>1 DEF RecordFails, Goto, IInv, Drains
  <2>6. CASE \E e \in Entries : Serve(e)
    BY <1>1, <1>2, <2>6, HeadType DEF Serve, IInv, Drains, historyVars, Ended
  <2> QED BY <2>1, <2>2, <2>3, <2>4, <2>5, <2>6
<1>5. \E p \in {"idle", "flight", "bury", "record", "callback", "pause", "ended"} :
         Goto(Drain, p) \/ UNCHANGED pc
  BY DEF Take, Answered, Retry, Paused, DrainEnds, Bury, BuryFails, RecordFails, Serve
<1> QED BY <1>1, <1>2, <1>4, <1>5, DrainStep DEF IInv

\* Steps of a caller outside the journal: a failed enqueue.
LEMMA EnqueueFailsStep ==
    ASSUME IInv, TypeOK', NEW e \in Entries, EnqueueFails(e)
    PROVE  IInv'
<1>1. /\ UNCHANGED <<file, onDisk, channel, written, durable, epoch, unforced, queue, life, mark,
                     target, acked, dead>>
      /\ Up' = Up
  BY DEF EnqueueFails, journalVars, historyVars, Up
<1>2. pc[e] = "new" /\ pc' = [pc EXCEPT ![e] = "failed"]
  BY DEF EnqueueFails, Goto
<1>3. /\ \A w \in Threads : pc'[w] = IF w = e THEN "failed" ELSE pc[w]
      /\ e \in Threads /\ e # Drain /\ Drain \in Threads
  BY <1>2, QueueAssumption DEF IInv, TypeOK, Threads
<1>4. /\ Lengths' /\ DoneRecords'
      /\ \A d \in Entries : Kept(d) => Kept(d)'
      /\ \A d \in Entries : Waits(d) => Waits(d)'
  BY <1>1, QuietStep DEF Ended
<1>5. Waiting' /\ Accepted'
  <2>1. \A d \in Entries : pc'[d] # "failed" => pc'[d] = pc[d] /\ mark'[d] = mark[d]
    BY <1>1, <1>3 DEF Threads
  <2>2. \A d \in Entries : pc'[d] \in {"check", "forcing"} =>
            pc[d] \in {"check", "forcing"} /\ mark'[d] = mark[d]
    BY <2>1
  <2>3. \A d \in Entries : pc'[d] = "accepted" => pc[d] = "accepted"
    BY <2>1
  <2> QED BY <1>1, <1>4, <2>2, <2>3, WaitersStay
<1>6. OneForce'
  BY <1>1, <1>3 DEF IInv, OneForce
<1>7. Unforced'
  <2>1. unforced # << >> => Up /\ channel
    BY DEF IInv, Unforced
  <2>2. written \in Nat
    BY DEF IInv, TypeOK
  <2>3. \A d \in Entries : pc[d] # "new" => pc'[d] # "new" /\ mark'[d] = mark[d]
    BY <1>1, <1>3 DEF Threads
  <2> QED BY <1>1, <2>1, <2>2, <2>3, UnforcedStays
<1>8. Drains'
  BY <1>1, <1>3 DEF IInv, Drains, Ended
<1> QED BY <1>4, <1>5, <1>6, <1>7, <1>8 DEF IInv

\* A record at the end of the journal leaves the rest as it was.
LEMMA WriteKeeps ==
    ASSUME IInv, TypeOK', NEW r \in Records, Write(r), UNCHANGED life,
           \A e \in Entries : Ended(e) => Ended(e)',
           \A e \in Entries : InQueue(e) => InQueue(e)'
    PROVE  /\ Lengths'
           /\ written' = Len(file) + 1 /\ written = Len(file) /\ Up /\ Up' /\ channel'
           /\ \A i \in 1 .. Len(file) : file'[i] = file[i]
           /\ file'[Len(file) + 1] = r /\ Len(file') = Len(file) + 1
           /\ \A e \in Entries : Kept(e) => Kept(e)'
<1>1. /\ file \in Seq(Records) /\ Len(file) \in Nat /\ onDisk \in 0 .. Len(file)
      /\ durable \in Nat /\ written \in Nat
  BY DEF IInv, TypeOK, Records
<1>2. channel /\ file' = Append(file, r) /\ written' = written + 1
      /\ UNCHANGED <<onDisk, channel, durable>>
  BY DEF Write
<1>3. Up /\ written = Len(file) /\ durable <= written
  BY <1>2 DEF IInv, Lengths
<1>4. Up' = Up
  BY DEF Up
<1>5. /\ Len(file') = Len(file) + 1 /\ file'[Len(file) + 1] = r
      /\ \A i \in 1 .. Len(file) : file'[i] = file[i]
  BY <1>1, <1>2, AppendProperties
<1>6. Lengths'
  BY <1>1, <1>2, <1>3, <1>4, <1>5 DEF Lengths
<1>7. ASSUME NEW e \in Entries, Kept(e)
      PROVE  Kept(e)'
  <2>1. \A i \in 1 .. onDisk : i <= onDisk' /\ file'[i] = file[i]
    BY <1>1, <1>2, <1>5
  <2> QED BY <1>1, <1>2, <1>4, <1>7, <2>1, KeptStays DEF IInv
<1> QED BY <1>2, <1>3, <1>4, <1>5, <1>6, <1>7

\* enqueue writes its put and waits for it.
LEMMA EnqueueStep ==
    ASSUME IInv, TypeOK', NEW e \in Entries, Enqueue(e)
    PROVE  IInv'
<1>1. /\ UNCHANGED <<epoch, queue, life, target, acked, dead>>
      /\ UNCHANGED <<onDisk, channel, durable>>
      /\ Put(e) \in Records /\ Write(Put(e))
  BY RecordTypes DEF Enqueue, Write
<1>2. /\ \A d \in Entries : Ended(d) => Ended(d)'
      /\ \A d \in Entries : InQueue(d) => InQueue(d)'
  BY <1>1 DEF Ended, InQueue
<1>3. /\ Lengths'
      /\ written' = Len(file) + 1 /\ written = Len(file) /\ Up /\ Up' /\ channel'
      /\ \A i \in 1 .. Len(file) : file'[i] = file[i]
      /\ file'[Len(file) + 1] = Put(e) /\ Len(file') = Len(file) + 1
      /\ \A d \in Entries : Kept(d) => Kept(d)'
  BY <1>1, <1>2, WriteKeeps
<1>4. /\ e \in Threads /\ e # Drain /\ Drain \in Threads
      /\ pc[e] = "new" /\ \A w \in Threads : pc'[w] = IF w = e THEN "check" ELSE pc[w]
      /\ \A w \in Threads :
            mark'[w] = IF w = e THEN [end |-> written', epoch |-> epoch] ELSE mark[w]
  BY QueueAssumption DEF Enqueue, Goto, Threads, IInv, TypeOK
<1> DEFINE u == [entry |-> e, end |-> written']
           l == Len(unforced)
<1>5. /\ Len(unforced') = l + 1 /\ l \in Nat
      /\ unforced'[l + 1] = u
      /\ \A k \in 1 .. l : unforced'[k] = unforced[k]
      /\ \A k \in 1 .. l : unforced[k] \in [entry : Entries, end : Nat]
  <2>1. unforced' = Append(unforced, u) /\ u \in [entry : Entries, end : Nat]
    BY DEF Enqueue, IInv, TypeOK
  <2>2. unforced \in Seq([entry : Entries, end : Nat])
    BY DEF IInv, TypeOK
  <2> HIDE DEF u
  <2>3. /\ Len(unforced') = l + 1 /\ unforced'[l + 1] = u
        /\ \A k \in 1 .. l : unforced'[k] = unforced[k]
    BY <2>1, <2>2, AppendProperties
  <2>4. \A k \in 1 .. l : unforced[k] \in [entry : Entries, end : Nat]
    BY <2>2, ElementOfSeq
  <2> QED BY <2>2, <2>3, <2>4
<1>u. u.entry = e /\ u.end = written' /\ Len(unforced) = l
  OBVIOUS
<1> HIDE DEF u, l
<1>6. /\ Len(file) \in Nat /\ durable \in Nat /\ durable <= Len(file)
  BY <1>1, <1>3 DEF IInv, TypeOK, Lengths, Write
<1>7. Unforced'
  <2>1. ASSUME NEW k \in 1 .. l
        PROVE  /\ unforced[k].entry \in Entries \ {e} /\ unforced[k].end \in Nat
               /\ unforced[k].end <= Len(file) /\ durable < unforced[k].end
               /\ file[unforced[k].end] = Put(unforced[k].entry)
               /\ pc[unforced[k].entry] # "new"
               /\ mark[unforced[k].entry] = [end |-> unforced[k].end, epoch |-> epoch]
    BY <1>3, <1>4, <1>5, <1>u DEF IInv, Unforced
  <2>2. ASSUME NEW k \in 1 .. l + 1
        PROVE  LET v == unforced'[k]
               IN  /\ pc'[v.entry] # "new"
                   /\ mark'[v.entry] = [end |-> v.end, epoch |-> epoch']
                   /\ durable' < v.end /\ v.end <= written'
                   /\ file'[v.end] = Put(v.entry)
    <3>1. CASE k = l + 1
      BY <1>1, <1>3, <1>4, <1>5, <1>6, <1>u, <3>1
    <3>2. CASE k \in 1 .. l
      <4>1. file'[unforced[k].end] = file[unforced[k].end]
        <5>1. unforced[k].end \in 1 .. Len(file)
          <6>1. unforced[k].end \in Nat /\ unforced[k].end <= Len(file)
                /\ durable < unforced[k].end
            BY <2>1, <3>2
          <6> QED BY <1>6, <6>1
        <5> QED BY <1>3, <5>1
      <4> QED BY <1>1, <1>3, <1>4, <1>5, <1>6, <2>1, <3>2, <4>1 DEF Threads
    <3> QED BY <1>5, <3>1, <3>2
  <2>3. ASSUME NEW j \in 1 .. l + 1, NEW k \in 1 .. l + 1, j < k
        PROVE  unforced'[j].end < unforced'[k].end
    <3>1. j \in 1 .. l /\ unforced'[j] = unforced[j]
      BY <1>5, <2>3
    <3>2. CASE k = l + 1
      <4>1. unforced[j].end \in Nat /\ unforced[j].end <= Len(file)
        BY <2>1, <3>1
      <4> QED BY <1>3, <1>5, <1>6, <1>u, <3>1, <3>2, <4>1
    <3>3. CASE k \in 1 .. l
      BY <1>5, <1>u, <2>3, <3>1, <3>3 DEF IInv, Unforced
    <3> QED BY <1>5, <3>2, <3>3
  <2> QED BY <1>3, <1>5, <1>u, <2>2, <2>3 DEF Unforced, Put, Record
<1>8. Waiting'
  <2>1. Waits(e)'
    BY <1>5, <1>u DEF Waits
  <2>2. ASSUME NEW d \in Entries, Waits(d)
        PROVE  Waits(d)'
    BY <1>5, <1>u, <2>2 DEF Waits
  <2>3. epoch \in Nat
    BY DEF IInv, TypeOK
  <2>4. ASSUME NEW d \in Entries, pc'[d] \in {"check", "forcing"}
        PROVE  mark'[d].epoch <= epoch' /\ (mark'[d].epoch = epoch' => Kept(d)' \/ Waits(d)')
    <3>1. CASE d = e
      BY <1>1, <1>4, <2>1, <2>3, <3>1
    <3>2. CASE d # e
      BY <1>1, <1>3, <1>4, <2>2, <2>4, <3>2 DEF IInv, Waiting, Threads
    <3> QED BY <3>1, <3>2
  <2> QED BY <2>4 DEF Waiting
<1>9. Accepted'
  BY <1>3, <1>4 DEF IInv, Accepted, Threads
<1>10. DoneRecords'
  <2>1. \A d \in Entries : Put(e) # Done(d)
    BY DEF Put, Done, Record
  <2>2. Put(e) # Torn
    BY DEF Put, Torn, Record
  <2>3. \A i \in 1 .. Len(file') : i \in 1 .. Len(file) \/ file'[i] = Put(e)
    BY <1>3, <1>6
  <2>4. \A i \in 1 .. Len(file') : file'[i] # Torn
    <3>1. life # "down"
      BY <1>3 DEF Up
    <3> QED BY <1>3, <2>2, <2>3, <3>1 DEF IInv, DoneRecords
  <2> QED BY <1>1, <1>2, <1>3, <2>1, <2>3, <2>4 DEF IInv, DoneRecords, Done, Torn, Record
<1>11. OneForce'
  <2>1. target \in Nat /\ written \in Nat
    BY DEF IInv, TypeOK
  <2> QED BY <1>1, <1>3, <1>4, <2>1 DEF IInv, OneForce
<1>12. Drains'
  BY <1>1, <1>3, <1>4 DEF IInv, Drains, Ended
<1> QED BY <1>3, <1>7, <1>8, <1>9, <1>10, <1>11, <1>12 DEF IInv

\* The drain thread writes a done record for an entry that ended.
LEMMA RecordDoneStep ==
    ASSUME IInv, TypeOK', RecordDone
    PROVE  IInv'
<1>1. /\ queue # << >> /\ Head(queue) \in Entries /\ Ended(Head(queue))
      /\ pc[Drain] = "record"
  BY HeadType DEF RecordDone, IInv, Drains
<1>2. /\ UNCHANGED <<epoch, unforced, queue, life, target, acked, dead>>
      /\ UNCHANGED <<onDisk, channel, durable>>
      /\ Done(Head(queue)) \in Records /\ Write(Done(Head(queue)))
  BY <1>1, RecordTypes DEF RecordDone, Write, historyVars
<1>3. /\ \A d \in Entries : Ended(d) => Ended(d)'
      /\ \A d \in Entries : InQueue(d) => InQueue(d)'
  BY <1>2 DEF Ended, InQueue
<1>4. /\ Lengths'
      /\ written' = Len(file) + 1 /\ written = Len(file) /\ Up /\ Up' /\ channel'
      /\ \A i \in 1 .. Len(file) : file'[i] = file[i]
      /\ file'[Len(file) + 1] = Done(Head(queue)) /\ Len(file') = Len(file) + 1
      /\ \A d \in Entries : Kept(d) => Kept(d)'
  BY <1>2, <1>3, WriteKeeps
<1>5. /\ Drain \in Threads /\ Entries \subseteq Threads /\ Drain \notin Entries
      /\ pc'[Drain] \in {"check", "callback"}
      /\ \A w \in Entries : pc'[w] = pc[w] /\ mark'[w] = mark[w]
  BY QueueAssumption DEF RecordDone, Goto, Threads, IInv, TypeOK
<1>6. Len(file) \in Nat /\ written \in Nat /\ written' \in Nat /\ target \in Nat
  BY DEF IInv, TypeOK
<1>7. Waiting' /\ Accepted'
  <2>1. \A d \in Entries : Waits(d) => Waits(d)'
    BY <1>2 DEF Waits
  <2> QED BY <1>2, <1>4, <1>5, <2>1, WaitersStay
<1>8. Unforced'
  <2>1. \A k \in 1 .. written : file'[k] = file[k]
    BY <1>4
  <2> QED BY <1>2, <1>4, <1>5, <1>6, <2>1, UnforcedStays
<1>9. OneForce'
  <2>1. \A w \in Threads : pc'[w] = "forcing" => pc[w] = "forcing"
    BY <1>5 DEF Threads
  <2> QED BY <1>2, <1>4, <1>6, <2>1 DEF IInv, OneForce
<1>10. DoneRecords'
  <2>1. ASSUME NEW i \in 1 .. Len(file'), NEW e \in Entries, file'[i] = Done(e)
        PROVE  Ended(e)'
    <3>1. CASE i \in 1 .. Len(file)
      BY <1>3, <1>4, <2>1, <3>1 DEF IInv, DoneRecords
    <3>2. CASE i = Len(file) + 1
      <4>1. e = Head(queue)
        BY <1>4, <2>1, <3>2 DEF Done, Record
      <4> QED BY <1>1, <1>3, <4>1
    <3> QED BY <1>4, <1>6, <3>1, <3>2
  <2>2. \A i \in 1 .. Len(file') : file'[i] # Torn
    <3>1. life # "down"
      BY <1>4 DEF Up
    <3>2. Done(Head(queue)) # Torn
      BY DEF Done, Torn, Record
    <3>3. \A i \in 1 .. Len(file') : i \in 1 .. Len(file) \/ i = Len(file) + 1
      BY <1>4, <1>6
    <3> QED BY <1>4, <3>1, <3>2, <3>3 DEF IInv, DoneRecords
  <2> QED BY <2>1, <2>2 DEF DoneRecords, Done, Torn, Record
<1>11. Drains'
  BY <1>1, <1>2, <1>3, <1>4, <1>5 DEF Drains
<1> QED BY <1>4, <1>7, <1>8, <1>9, <1>10, <1>11 DEF IInv

\* A thread looks whether a force covered its record, and starts one if not.
LEMMA CheckForceStep ==
    ASSUME IInv, TypeOK', NEW w \in Threads, CheckForce(w)
    PROVE  IInv'
<1>1. /\ UNCHANGED <<file, onDisk, channel, written, durable, epoch, unforced, queue, life, mark,
                     acked, dead>>
      /\ Up' = Up
  BY DEF CheckForce, journalVars, Up
<1>2. /\ Lengths' /\ DoneRecords'
      /\ \A d \in Entries : Kept(d) => Kept(d)'
      /\ \A d \in Entries : Waits(d) => Waits(d)'
  BY <1>1, QuietStep DEF Ended
<1>3. /\ pc \in [Threads -> {"new", "check", "forcing", "accepted", "failed", "lost",
                             "idle", "flight", "bury", "record", "callback", "pause", "ended"}]
      /\ Drain \in Threads /\ Entries \subseteq Threads /\ Drain \notin Entries
      /\ pc[w] = "check"
      /\ \A v \in Threads \ {w} : pc'[v] = pc[v]
      /\ pc'[w] \in {"callback", "failed", "accepted", "forcing"}
  BY QueueAssumption DEF CheckForce, Return, StartForce, Goto, IInv, TypeOK, Threads
<1>4. pc'[w] = "accepted" => w # Drain /\ epoch = mark[w].epoch /\ durable >= mark[w].end
  BY <1>3 DEF CheckForce, Return, StartForce, Goto
<1>5. pc'[w] = "forcing" => ~ Forcing /\ target' = IF channel THEN written ELSE 0
  BY <1>3 DEF CheckForce, Return, StartForce, Goto
<1>6. pc'[w] # "forcing" => target' = target
  BY <1>3 DEF CheckForce, Return, StartForce, Goto
<1>7. Unforced'
  <2>1. unforced # << >> => Up /\ channel
    BY DEF IInv, Unforced
  <2>2. written \in Nat
    BY DEF IInv, TypeOK
  <2>3. \A d \in Entries : pc[d] # "new" => pc'[d] # "new" /\ mark'[d] = mark[d]
    BY <1>1, <1>3
  <2> QED BY <1>1, <2>1, <2>2, <2>3, UnforcedStays
<1>8. OneForce'
  <2>1. CASE pc'[w] = "forcing"
    <3>1. \A v \in Threads : pc'[v] = "forcing" => v = w
      BY <1>3, <1>5, <2>1 DEF Forcing
    <3>2. channel => Up /\ durable <= target' /\ target' <= written
      BY <1>5, <2>1 DEF IInv, Lengths, TypeOK
    <3> QED BY <1>1, <3>1, <3>2 DEF OneForce
  <2>2. CASE pc'[w] # "forcing"
    <3>1. \A v \in Threads : pc'[v] = "forcing" => pc[v] = "forcing"
      BY <1>3, <2>2
    <3> QED BY <1>1, <1>6, <2>2, <3>1 DEF IInv, OneForce
  <2> QED BY <2>1, <2>2
<1>9. Waiting'
  <2>1. \A d \in Entries : pc'[d] \in {"check", "forcing"} => pc[d] \in {"check", "forcing"}
    BY <1>3
  <2> QED BY <1>1, <1>2, <2>1 DEF IInv, Waiting
<1>10. Accepted'
  <2>1. ASSUME NEW e \in Entries, pc'[e] = "accepted"
        PROVE  Kept(e)
    <3>1. CASE e # w
      BY <1>3, <2>1, <3>1 DEF IInv, Accepted
    <3>2. CASE e = w
      <4>1. epoch = mark[e].epoch /\ durable >= mark[e].end /\ pc[e] = "check"
        BY <1>3, <1>4, <2>1, <3>2
      <4>2. Kept(e) \/ Waits(e)
        BY <4>1 DEF IInv, Waiting
      <4>3. ~ Waits(e)
        <5>1. ASSUME NEW k \in 1 .. Len(unforced), unforced[k].entry = e
              PROVE  FALSE
          <6>1. unforced[k] \in [entry : Entries, end : Nat]
            BY ElementOfSeq DEF IInv, TypeOK
          <6>2. mark[e] = [end |-> unforced[k].end, epoch |-> epoch] /\ durable < unforced[k].end
            BY <5>1 DEF IInv, Unforced
          <6>3. durable \in Nat
            BY DEF IInv, TypeOK
          <6> QED BY <4>1, <6>1, <6>2, <6>3
        <5> QED BY <5>1 DEF Waits
      <4> QED BY <4>2, <4>3
    <3> QED BY <3>1, <3>2
  <2> QED BY <1>2, <2>1 DEF Accepted
<1>11. Drains'
  <2>1. pc'[Drain] = pc[Drain]
        \/ (pc[Drain] = "check" /\ pc'[Drain] \in {"callback", "forcing"})
    BY <1>3 DEF CheckForce, Return, StartForce, Goto
  <2> QED BY <1>1, <2>1 DEF IInv, Drains, Ended
<1> QED BY <1>2, <1>7, <1>8, <1>9, <1>10, <1>11 DEF IInv

\* The puts that a force covers move to the queue, in order.
LEMMA CoveredMoves ==
    ASSUME TypeOK, NEW n \in 0 .. Len(unforced),
           queue' = queue \o [i \in 1 .. n |-> unforced[i].entry],
           unforced' = SubSeq(unforced, n + 1, Len(unforced))
    PROVE  /\ Len(unforced') = Len(unforced) - n
           /\ \A k \in 1 .. Len(unforced) - n : unforced'[k] = unforced[n + k]
           /\ \A e \in Entries : InQueue(e) => InQueue(e)'
           /\ \A k \in 1 .. n : \E j \in 1 .. Len(queue') : queue'[j] = unforced[k].entry
           /\ queue # << >> => queue' # << >> /\ Head(queue') = Head(queue)
           /\ Len(queue') = Len(queue) + n
           /\ \A i \in 1 .. Len(queue) : queue'[i] = queue[i]
           /\ \A i \in 1 .. n : queue'[Len(queue) + i] = unforced[i].entry
<1> DEFINE cov == [i \in 1 .. n |-> unforced[i].entry]
<1>1. unforced \in Seq([entry : Entries, end : Nat]) /\ Len(unforced) \in Nat
      /\ queue \in Seq(Entries) /\ Len(queue) \in Nat /\ n \in Nat /\ n <= Len(unforced)
  BY DEF TypeOK
<1>2. \A i \in 1 .. n : unforced[i] \in [entry : Entries, end : Nat]
  <2>1. ASSUME NEW i \in 1 .. n
        PROVE  unforced[i] \in [entry : Entries, end : Nat]
    <3>1. i \in 1 .. Len(unforced)
      BY <1>1
    <3> QED BY <1>1, <3>1, ElementOfSeq
  <2> QED BY <2>1
<1>3. cov \in Seq(Entries) /\ Len(cov) = n /\ \A i \in 1 .. n : cov[i] = unforced[i].entry
  <2>1. \A i \in 1 .. n : unforced[i].entry \in Entries
    BY <1>2
  <2> QED BY <1>1, <2>1
<1>4. queue' = queue \o cov
  OBVIOUS
<1> HIDE DEF cov
<1>5. /\ Len(queue') = Len(queue) + n
      /\ \A i \in 1 .. Len(queue) : queue'[i] = queue[i]
      /\ \A i \in 1 .. n : queue'[Len(queue) + i] = cov[i]
  <2>1. /\ Len(queue') = Len(queue) + n
        /\ \A i \in 1 .. Len(queue) + n :
              queue'[i] = IF i <= Len(queue) THEN queue[i] ELSE cov[i - Len(queue)]
    BY <1>1, <1>3, <1>4, ConcatProperties
  <2>2. \A i \in 1 .. Len(queue) : queue'[i] = queue[i]
    BY <1>1, <2>1
  <2>3. ASSUME NEW i \in 1 .. n
        PROVE  queue'[Len(queue) + i] = cov[i]
    <3>1. /\ Len(queue) + i \in 1 .. Len(queue) + n /\ ~ (Len(queue) + i <= Len(queue))
          /\ (Len(queue) + i) - Len(queue) = i
      BY <1>1
    <3> QED BY <2>1, <3>1
  <2> QED BY <2>1, <2>2, <2>3
<1>6. ASSUME NEW e \in Entries, InQueue(e)
      PROVE  InQueue(e)'
  <2>1. PICK i \in 1 .. Len(queue) : queue[i] = e
    BY <1>6 DEF InQueue
  <2>2. i \in 1 .. Len(queue') /\ queue'[i] = e
    BY <1>1, <1>5, <2>1
  <2> QED BY <2>2 DEF InQueue
<1>7. ASSUME NEW k \in 1 .. n
      PROVE  \E j \in 1 .. Len(queue') : queue'[j] = unforced[k].entry
  <2>1. Len(queue) + k \in 1 .. Len(queue')
    BY <1>1, <1>5
  <2>2. queue'[Len(queue) + k] = unforced[k].entry
    BY <1>3, <1>5
  <2> QED BY <2>1, <2>2
<1>8. /\ Len(unforced') = Len(unforced) - n
      /\ \A k \in 1 .. Len(unforced) - n : unforced'[k] = unforced[n + k]
  BY <1>1
<1>9. queue # << >> => queue' # << >> /\ Head(queue') = Head(queue)
  <2>1. ASSUME queue # << >>
        PROVE  queue' # << >> /\ Head(queue') = Head(queue)
    <3>1. Len(queue) > 0
      BY <1>1, <2>1
    <3>2. 1 \in 1 .. Len(queue) /\ Len(queue') > 0 /\ queue' \in Seq(Entries)
      BY <1>1, <1>3, <1>4, <1>5, <3>1
    <3> QED BY <1>1, <1>5, <2>1, <3>1, <3>2
  <2> QED BY <2>1
<1> QED BY <1>3, <1>5, <1>6, <1>7, <1>8, <1>9

\* A force ends: what it covered is queued.
LEMMA ForceDoneStep ==
    ASSUME IInv, TypeOK', NEW w \in Threads, ForceDone(w)
    PROVE  IInv'
<1>1. /\ UNCHANGED <<file, channel, written, epoch, life, mark, target, acked, dead>>
      /\ Up' = Up /\ durable' = target
      /\ onDisk' = IF target > onDisk THEN target ELSE onDisk
      /\ pc[w] = "forcing" /\ channel
  BY DEF ForceDone, historyVars, Up
<1>2. /\ Up /\ channel /\ durable <= target /\ target <= written /\ written = Len(file)
      /\ \A v \in Threads : pc[v] = "forcing" => v = w
  BY <1>1 DEF IInv, OneForce, Lengths
<1>3. /\ durable \in Nat /\ target \in Nat /\ written \in Nat /\ onDisk \in Nat
      /\ Len(unforced) \in Nat
  BY DEF IInv, TypeOK
<1>4. PICK n \in 0 .. Len(unforced) :
         /\ Covered(n)
         /\ queue' = queue \o [i \in 1 .. n |-> unforced[i].entry]
         /\ unforced' = SubSeq(unforced, n + 1, Len(unforced))
  BY DEF ForceDone
<1>5. /\ Len(unforced') = Len(unforced) - n
      /\ \A k \in 1 .. Len(unforced) - n : unforced'[k] = unforced[n + k]
      /\ \A e \in Entries : InQueue(e) => InQueue(e)'
      /\ \A k \in 1 .. n : \E j \in 1 .. Len(queue') : queue'[j] = unforced[k].entry
      /\ queue # << >> => queue' # << >> /\ Head(queue') = Head(queue)
  BY <1>4, CoveredMoves DEF IInv
<1>6. /\ Drain \in Threads /\ Entries \subseteq Threads /\ Drain \notin Entries
      /\ \A v \in Threads : pc'[v] = IF v = w THEN "check" ELSE pc[v]
  BY QueueAssumption DEF ForceDone, Goto, IInv, TypeOK, Threads
<1>7. ASSUME NEW k \in 1 .. Len(unforced)
      PROVE  /\ unforced[k].entry \in Entries /\ unforced[k].end \in Nat
             /\ pc[unforced[k].entry] # "new"
             /\ mark[unforced[k].entry] = [end |-> unforced[k].end, epoch |-> epoch]
             /\ durable < unforced[k].end /\ unforced[k].end <= written
             /\ file[unforced[k].end] = Put(unforced[k].entry)
             /\ \A j \in 1 .. Len(unforced) : j < k => unforced[j].end < unforced[k].end
  <2>1. unforced[k] \in [entry : Entries, end : Nat]
    BY ElementOfSeq DEF IInv, TypeOK
  <2> QED BY <2>1 DEF IInv, Unforced
<1>8. Lengths'
  BY <1>1, <1>2 DEF IInv, Lengths
<1>9. \A e \in Entries : Kept(e) => Kept(e)'
  <2>1. \A e \in Entries : Ended(e) => Ended(e)'
    BY <1>1 DEF Ended
  <2>2. \A i \in 1 .. onDisk : i <= onDisk' /\ file'[i] = file[i]
    BY <1>1, <1>3
  <2> QED BY <1>1, <1>2, <1>5, <2>1, <2>2, KeptStays DEF IInv
<1>10. ASSUME NEW e \in Entries, Waits(e)
       PROVE  Waits(e)' \/ Kept(e)'
  <2>1. PICK k \in 1 .. Len(unforced) : unforced[k].entry = e
    BY <1>10 DEF Waits
  <2>2. CASE k \in 1 .. n
    <3>1. unforced[k].end <= target
      BY <1>4, <2>2 DEF Covered
    <3>2. unforced[k].end \in 1 .. onDisk' /\ unforced[k].end <= durable'
      <4>1. durable < unforced[k].end /\ unforced[k].end \in Nat
        BY <1>7, <2>1
      <4> QED BY <1>1, <1>3, <3>1, <4>1
    <3>3. file'[unforced[k].end] = Put(e)
      BY <1>1, <1>7, <2>1
    <3>4. Safe(e)'
      BY <3>2, <3>3 DEF Safe, Put, Record
    <3>5. InQueue(e)'
      BY <1>5, <2>1, <2>2 DEF InQueue
    <3> QED BY <3>4, <3>5 DEF Kept
  <2>3. CASE k > n
    <3>1. k - n \in 1 .. Len(unforced') /\ n + (k - n) = k
      BY <1>3, <1>5, <2>3
    <3>2. unforced'[k - n].entry = e
      BY <1>5, <2>1, <3>1
    <3> QED BY <3>1, <3>2 DEF Waits
  <2> QED BY <1>3, <2>2, <2>3
<1>11. Unforced'
  <2>1. ASSUME NEW k \in 1 .. Len(unforced')
        PROVE  /\ n + k \in 1 .. Len(unforced) /\ unforced'[k] = unforced[n + k]
               /\ target < unforced[n + k].end
    <3>1. n + k \in 1 .. Len(unforced) /\ n + 1 \in 1 .. Len(unforced) /\ n < Len(unforced)
      BY <1>3, <1>5
    <3>2. unforced[n + 1].end > target
      BY <1>4, <3>1 DEF Covered
    <3>3. k = 1 \/ n + 1 < n + k
      BY <1>3, <1>5
    <3>4. unforced[n + k].end >= unforced[n + 1].end
      <4>1. unforced[n + k].end \in Nat
        BY <1>7, <3>1
      <4>2. n + 1 < n + k => unforced[n + 1].end < unforced[n + k].end
        BY <1>7, <3>1
      <4>3. unforced[n + 1].end \in Nat
        BY <1>7, <3>1
      <4>4. CASE k = 1
        BY <4>1, <4>4
      <4>5. CASE n + 1 < n + k
        BY <4>1, <4>2, <4>3, <4>5
      <4> QED BY <3>3, <4>4, <4>5
    <3>5. unforced[n + k].end \in Nat /\ unforced[n + 1].end \in Nat
      BY <1>7, <3>1
    <3> QED BY <1>3, <1>5, <3>1, <3>2, <3>4, <3>5
  <2>2. ASSUME NEW k \in 1 .. Len(unforced')
        PROVE  LET u == unforced'[k]
               IN  /\ pc'[u.entry] # "new"
                   /\ mark'[u.entry] = [end |-> u.end, epoch |-> epoch']
                   /\ durable' < u.end /\ u.end <= written'
                   /\ file'[u.end] = Put(u.entry)
    <3>1. n + k \in 1 .. Len(unforced) /\ unforced'[k] = unforced[n + k]
          /\ target < unforced[n + k].end
      BY <2>1
    <3>2. unforced[n + k].entry \in Threads
      BY <1>6, <1>7, <3>1
    <3>3. pc'[unforced[n + k].entry] # "new"
      BY <1>6, <1>7, <3>1, <3>2
    <3> QED  BY <1>1, <1>7, <3>1, <3>3
  <2>3. ASSUME NEW j \in 1 .. Len(unforced'), NEW k \in 1 .. Len(unforced'), j < k
        PROVE  unforced'[j].end < unforced'[k].end
    <3>1. n + j < n + k
      BY <1>3, <1>5, <2>3
    <3> QED BY <1>7, <2>1, <3>1
  <2> QED BY <1>1, <1>2, <2>2, <2>3 DEF Unforced, Put, Record
<1>12. OneForce'
  BY <1>2, <1>6 DEF OneForce
<1>13. Waiting' /\ Accepted'
  <2>1. \A e \in Entries : pc'[e] \in {"check", "forcing"} => pc[e] \in {"check", "forcing"}
    BY <1>1, <1>6
  <2>2. \A e \in Entries : pc'[e] = "accepted" => pc[e] = "accepted"
    BY <1>6
  <2>3. Waiting'
    BY <1>1, <1>9, <1>10, <2>1 DEF IInv, Waiting
  <2>4. Accepted'
    BY <1>9, <2>2 DEF IInv, Accepted
  <2> QED BY <2>3, <2>4
<1>14. DoneRecords'
  <2>1. life # "down"
    BY <1>2 DEF Up
  <2> QED BY <1>1, <2>1 DEF IInv, DoneRecords, Ended, Done, Torn, Record
<1>15. Drains'
  <2>1. pc'[Drain] = pc[Drain] \/ (pc[Drain] = "forcing" /\ pc'[Drain] = "check")
    BY <1>1, <1>6
  <2> QED BY <1>1, <1>5, <2>1 DEF IInv, Drains, Ended
<1> QED BY <1>8, <1>11, <1>12, <1>13, <1>14, <1>15 DEF IInv

\* A force fails: the journal is cut back, and its writers fail.
LEMMA ForceFailsStep ==
    ASSUME IInv, TypeOK', NEW w \in Threads, ForceFails(w)
    PROVE  IInv'
<1>1. /\ UNCHANGED <<channel, durable, queue, life, mark, target, acked, dead>>
      /\ Up' = Up /\ written' = durable /\ epoch' = epoch + 1 /\ unforced' = << >>
      /\ pc[w] = "forcing"
      /\ \/ channel /\ file' = SubSeq(file, 1, durable) /\ onDisk' = durable
         \/ ~ channel /\ UNCHANGED <<file, onDisk>>
  BY DEF ForceFails, historyVars, Up
<1>2. channel => Up /\ durable <= Len(file)
  BY DEF IInv, Lengths
<1>3. /\ durable \in Nat /\ epoch \in Nat /\ onDisk \in Nat /\ Len(file) \in Nat
      /\ file \in Seq(Records)
  BY DEF IInv, TypeOK, Records
<1>4. channel => /\ Len(file') = durable
                 /\ \A i \in 1 .. durable : file'[i] = file[i]
  BY <1>1, <1>2, <1>3
<1>5. /\ Drain \in Threads /\ Entries \subseteq Threads /\ Drain \notin Entries
      /\ \A v \in Threads : pc'[v] = IF v = w THEN "check" ELSE pc[v]
      /\ \A v \in Threads : pc[v] = "forcing" => v = w
  BY <1>1, QueueAssumption DEF ForceFails, Goto, IInv, TypeOK, Threads, OneForce
<1>6. Lengths'
  BY <1>1, <1>3, <1>4 DEF IInv, Lengths
<1>7. \A e \in Entries : Kept(e) => Kept(e)'
  <2>1. \A e \in Entries : (Ended(e) => Ended(e)') /\ (InQueue(e) => InQueue(e)')
    BY <1>1 DEF Ended, InQueue
  <2>2. \A i \in 1 .. onDisk :
           (Up /\ channel => i <= durable) => i <= onDisk' /\ file'[i] = file[i]
    BY <1>1, <1>2, <1>3, <1>4
  <2> QED BY <1>1, <1>3, <2>1, <2>2, KeptStays DEF IInv
<1>8. Waiting'
  <2>1. \A e \in Entries : pc'[e] \in {"check", "forcing"} => pc[e] \in {"check", "forcing"}
    BY <1>1, <1>5
  <2>2. \A e \in Entries : mark[e].epoch \in Nat
    BY <1>5 DEF IInv, TypeOK
  <2> QED BY <1>1, <1>3, <2>1, <2>2 DEF IInv, Waiting
<1>9. Accepted'
  BY <1>5, <1>7 DEF IInv, Accepted
<1>10. Unforced'
  BY <1>1 DEF Unforced
<1>11. OneForce'
  BY <1>5 DEF OneForce
<1>12. DoneRecords'
  <2>1. CASE channel
    <3>1. life # "down"
      BY <1>2, <2>1 DEF Up
    <3>2. \A i \in 1 .. Len(file') : i \in 1 .. Len(file) /\ file'[i] = file[i]
      BY <1>2, <1>3, <1>4, <2>1
    <3> QED BY <1>1, <3>1, <3>2 DEF IInv, DoneRecords, Ended, Done, Torn, Record
  <2>2. CASE ~ channel
    BY <1>1, <2>2 DEF IInv, DoneRecords, Ended, Done, Torn, Record
  <2> QED BY <2>1, <2>2
<1>13. Drains'
  <2>1. pc'[Drain] = pc[Drain] \/ (pc[Drain] = "forcing" /\ pc'[Drain] = "check")
    BY <1>1, <1>5
  <2> QED BY <1>1, <2>1 DEF IInv, Drains, Ended
<1> QED BY <1>6, <1>8, <1>9, <1>10, <1>11, <1>12, <1>13 DEF IInv

\* close, up to the channel.
LEMMA CloseStep ==
    ASSUME IInv, TypeOK', Close \/ Stop
    PROVE  IInv'
<1>1. /\ UNCHANGED <<file, onDisk, channel, written, durable, epoch, unforced, queue, pc, mark,
                     target, acked, dead>>
      /\ Up' = Up /\ life # "down" /\ life' # "down" /\ Up
  BY DEF Close, Stop, journalVars, historyVars, Up
<1>2. /\ Lengths' /\ DoneRecords'
      /\ \A d \in Entries : Kept(d) => Kept(d)'
      /\ \A d \in Entries : Waits(d) => Waits(d)'
  BY <1>1, QuietStep DEF Ended
<1>3. Waiting' /\ Accepted'
  BY <1>1, <1>2, WaitersStay
<1>4. Unforced'
  BY <1>1 DEF IInv, Unforced, Put, Record
<1>5. OneForce' /\ Drains'
  BY <1>1 DEF IInv, OneForce, Drains, Ended
<1> QED BY <1>2, <1>3, <1>4, <1>5 DEF IInv

\* close shuts the channel when the drain thread ended and no put waits.
LEMMA CloseChannelStep ==
    ASSUME IInv, TypeOK', CloseChannel
    PROVE  IInv'
<1>1. /\ UNCHANGED <<file, written, epoch, unforced, queue, target, pc, mark, acked, dead>>
      /\ ~ Up' /\ ~ channel' /\ life' # "down" /\ life # "down"
      /\ pc[Drain] = "ended" /\ ~ Forcing /\ unforced = << >>
      /\ onDisk' \in {onDisk, Len(file)}
  BY DEF CloseChannel, historyVars, Up
<1>2. onDisk \in 0 .. Len(file) /\ Len(file) \in Nat
  BY DEF IInv, TypeOK
<1>3. \A e \in Entries : Kept(e) => Kept(e)'
  <2>1. \A e \in Entries : Ended(e) => Ended(e)'
    BY <1>1 DEF Ended
  <2>2. \A i \in 1 .. onDisk : i <= onDisk' /\ file'[i] = file[i]
    BY <1>1, <1>2
  <2> QED BY <1>1, <2>1, <2>2, KeptStays DEF IInv
<1>4. Waiting' /\ Accepted'
  <2>1. \A e \in Entries : Waits(e) => Waits(e)'
    BY <1>1 DEF Waits
  <2> QED BY <1>1, <1>3, <2>1, WaitersStay
<1>5. Lengths' /\ Unforced' /\ OneForce' /\ Drains'
  BY <1>1 DEF Lengths, Unforced, OneForce, Forcing, Drains
<1>6. DoneRecords'
  BY <1>1, <1>2 DEF IInv, DoneRecords, Ended, Done, Torn, Record
<1> QED BY <1>4, <1>5, <1>6 DEF IInv

\* A crash takes what is not on disk, and the callers' waits.
LEMMA CrashStep ==
    ASSUME IInv, TypeOK', Crash
    PROVE  IInv'
<1>1. /\ ~ Up' /\ life' = "down" /\ life # "down" /\ ~ channel'
      /\ unforced' = << >> /\ target' = 0 /\ epoch' = 0
      /\ UNCHANGED <<mark, acked, dead>>
      /\ \A w \in Threads : pc'[w] \notin {"check", "forcing"}
      /\ \A e \in Entries : pc'[e] = "accepted" => pc[e] = "accepted"
      /\ pc'[Drain] = "ended"
  BY QueueAssumption DEF Crash, AfterCrash, historyVars, Up, Threads, IInv, TypeOK
<1>2. /\ file' \in Seq(Records) /\ onDisk' = onDisk /\ onDisk \in 0 .. Len(file')
      /\ \A i \in 1 .. onDisk : file'[i] = file[i]
      /\ \A i \in 1 .. Len(file') :
            file'[i] = Junk \/ (i \in 1 .. Len(file) /\ file'[i] = file[i])
            \/ (file'[i] = Torn /\ i > onDisk /\ "torn" \in Faults)
  BY CrashFile DEF IInv
<1>3. \A e \in Entries : Kept(e) => Kept(e)'
  <2>1. \A e \in Entries : Ended(e) => Ended(e)'
    BY <1>1 DEF Ended
  <2>2. \A i \in 1 .. onDisk : i <= onDisk' /\ file'[i] = file[i]
    BY <1>2
  <2> QED BY <1>1, <2>1, <2>2, KeptStays DEF IInv
<1>4. Accepted' /\ Waiting'
  <2>1. Accepted'
    BY <1>1, <1>3 DEF IInv, Accepted
  <2>2. Waiting'
    BY <1>1 DEF Waiting, Threads
  <2> QED BY <2>1, <2>2
<1>5. Lengths' /\ Unforced' /\ OneForce' /\ Drains'
  BY <1>1 DEF Lengths, Unforced, OneForce, Drains
<1>6. DoneRecords'
  <2>1. ASSUME NEW i \in 1 .. Len(file'), NEW e \in Entries, file'[i] = Done(e)
        PROVE  Ended(e)'
    <3>1. Done(e) # Junk /\ Done(e) # Torn
      BY DEF Done, Junk, Torn, Record
    <3>2. i \in 1 .. Len(file) /\ file[i] = Done(e)
      BY <1>2, <2>1, <3>1
    <3> QED BY <1>1, <3>2 DEF IInv, DoneRecords, Ended
  <2>2. ASSUME NEW i \in 1 .. Len(file'), file'[i] = Torn
        PROVE  life' = "down" /\ "torn" \in Faults /\ i > onDisk'
    <3>1. Torn # Junk
      BY DEF Junk, Torn, Record
    <3> QED BY <1>1, <1>2, <2>2, <3>1 DEF IInv, DoneRecords
  <2> QED BY <2>1, <2>2 DEF DoneRecords, Done, Torn, Record
<1> QED BY <1>4, <1>5, <1>6 DEF IInv

\* The file system replaces the journal when asked, or never tears a line.
FileSystemKeeps == ~ ("torn" \in Faults /\ "replace" \in Faults)

\* A rewritten journal holds the queue, and nothing that hides its puts.
LEMMA RewriteKeeps ==
    ASSUME FileSystemKeeps, IInv, TypeOK', NEW q \in Seq(Entries),
           Rewrite(q) \/ ReopenFails(q), Up', UNCHANGED <<acked, dead>>
    PROVE  /\ Lengths' /\ DoneRecords'
           /\ \A e \in Entries :
                 Safe(e) /\ (\E i \in 1 .. Len(q) : q[i] = e) => Safe(e)'
<1>1. /\ Len(file) \in Nat /\ onDisk \in 0 .. Len(file) /\ Len(q) \in Nat
      /\ Len(file') \in Nat
  <2>1. Len(q) \in Nat
    OBVIOUS
  <2>2. file \in Seq(Records) /\ onDisk \in 0 .. Len(file)
    BY DEF IInv, TypeOK, Records
  <2>3. file' \in Seq(Records)
    BY DEF TypeOK, Records
  <2> QED  BY <2>1, <2>2, <2>3, LenProperties
<1> DEFINE puts == [i \in 1 .. Len(q) |-> Put(q[i])]
<1>2. /\ Len(puts) = Len(q)
      /\ \A i \in 1 .. Len(q) : puts[i] = Put(q[i])
  BY PutsType
<1>3. \/ file' = puts /\ onDisk' = Len(q)
      \/ "replace" \in Faults /\ file' = file /\ onDisk' \in {onDisk, Len(file)} /\ Rewrite(q)
  BY DEF Rewrite, ReopenFails, Fault
<1>4. \/ channel' /\ written' = Len(file') /\ durable' = Len(file')
      \/ ~ channel' /\ file' = puts
  BY DEF Rewrite, ReopenFails
<1> HIDE DEF puts
<1>5. Lengths'
  <2>1. channel' => written' = Len(file') /\ durable' = Len(file')
    BY <1>4
  <2> QED BY <1>1, <2>1 DEF Lengths
<1>6. DoneRecords'
  <2>1. CASE file' = puts
    <3>1. \A i \in 1 .. Len(file') : file'[i] = Put(q[i])
      BY <1>2, <2>1
    <3>2. \A d : Put(d).op = "put"
      BY DEF Put, Record
    <3>3. Torn.op = "torn" /\ \A d : Done(d).op = "done"
      BY DEF Torn, Done, Record
    <3>4. \A i \in 1 .. Len(file') : file'[i] # Torn /\ \A e \in Entries : file'[i] # Done(e)
      BY <3>1, <3>2, <3>3
    <3> QED BY <3>4 DEF DoneRecords, Done, Torn, Record
  <2>2. CASE "replace" \in Faults /\ file' = file
    <3>1. \A i \in 1 .. Len(file) : file[i] # Torn
      BY <2>2 DEF FileSystemKeeps, IInv, DoneRecords
    <3> QED BY <2>2, <3>1 DEF IInv, DoneRecords, Ended, Done, Torn, Record
  <2> QED BY <1>3, <2>1, <2>2
<1>7. ASSUME NEW e \in Entries, Safe(e), NEW k \in 1 .. Len(q), q[k] = e
      PROVE  Safe(e)'
  <2>1. CASE file' = puts /\ onDisk' = Len(q)
    <3>1. file'[k] = Put(e) /\ k \in 1 .. onDisk' /\ k <= Len(file')
      BY <1>1, <1>2, <1>7, <2>1
    <3>2. channel' => k <= durable'
      BY <1>4, <3>1
    <3> QED BY <3>1, <3>2 DEF Safe, Put, Record
  <2>2. CASE file' = file /\ onDisk' \in {onDisk, Len(file)} /\ Rewrite(q)
    <3>1. PICK i \in 1 .. onDisk : file[i] = Put(e)
      BY <1>7 DEF Safe
    <3>2. i \in 1 .. onDisk' /\ file'[i] = Put(e) /\ i <= Len(file')
      BY <1>1, <2>2, <3>1
    <3>3. durable' = Len(file')
      BY <2>2 DEF Rewrite
    <3> QED BY <3>2, <3>3 DEF Safe, Put, Record
  <2> QED BY <1>3, <2>1, <2>2
<1> QED BY <1>5, <1>6, <1>7

\* The drain thread drops the head, which ended, and may compact.
LEMMA PollStep ==
    ASSUME FileSystemKeeps, IInv, TypeOK', Poll
    PROVE  IInv'
<1>1. /\ queue # << >> /\ Head(queue) \in Entries /\ Tail(queue) \in Seq(Entries)
      /\ Ended(Head(queue)) /\ pc[Drain] = "callback" /\ queue \in Seq(Entries)
  BY HeadType DEF Poll, IInv, Drains, TypeOK
<1>2. /\ UNCHANGED <<epoch, unforced, target, life, mark, acked, dead>>
      /\ queue' = Tail(queue) /\ Up' = Up /\ Up
  BY <1>1 DEF Poll, historyVars, Up, IInv, Drains
<1>3. /\ Drain \in Threads /\ Entries \subseteq Threads /\ Drain \notin Entries
      /\ \A v \in Threads : pc'[v] = IF v = Drain THEN "idle" ELSE pc[v]
  BY QueueAssumption DEF Poll, Goto, IInv, TypeOK, Threads
<1>4. ASSUME NEW e \in Entries, InQueue(e), ~ Ended(e)
      PROVE  InQueue(e)'
  <2>1. PICK i \in 1 .. Len(queue) : queue[i] = e
    BY <1>4 DEF InQueue
  <2>2. i # 1
    BY <1>1, <1>4, <2>1
  <2>3. i - 1 \in 1 .. Len(queue') /\ queue'[i - 1] = e
    BY <1>1, <1>2, <2>1, <2>2
  <2> QED BY <2>3 DEF InQueue
<1>5. \A e \in Entries : Ended(e) => Ended(e)'
  BY <1>2 DEF Ended
<1>6. /\ Lengths' /\ DoneRecords' /\ Unforced' /\ OneForce'
      /\ \A e \in Entries : Safe(e) /\ InQueue(e)' => Safe(e)'
  <2>1. CASE CompactionDue
    <3>1. /\ Rewrite(queue') \/ ReopenFails(queue')
          /\ ~ Forcing /\ unforced' = << >>
      BY <1>2, <2>1 DEF Poll, CompactionDue
    <3>2. queue' \in Seq(Entries)
      BY <1>1, <1>2
    <3>3. /\ Lengths' /\ DoneRecords'
          /\ \A e \in Entries :
                Safe(e) /\ (\E i \in 1 .. Len(queue') : queue'[i] = e) => Safe(e)'
      BY <1>2, <3>1, <3>2, RewriteKeeps
    <3>4. OneForce'
      BY <1>3, <3>1 DEF OneForce, Forcing
    <3>5. Unforced'
      BY <3>1 DEF Unforced
    <3> QED BY <3>3, <3>4, <3>5 DEF InQueue
  <2>2. CASE ~ CompactionDue
    <3>1. UNCHANGED <<file, onDisk, channel, written, durable>>
      BY <2>2 DEF Poll, journalVars
    <3>2. Lengths' /\ DoneRecords'
      BY <1>2, <3>1 DEF IInv, Lengths, DoneRecords, Ended, Done, Torn, Record
    <3>3. OneForce'
      BY <1>2, <1>3, <3>1 DEF IInv, OneForce
    <3>4. Unforced'
      <4>1. unforced # << >> => Up /\ channel
        BY DEF IInv, Unforced
      <4>2. written \in Nat
        BY DEF IInv, TypeOK
      <4>3. \A d \in Entries : pc[d] # "new" => pc'[d] # "new" /\ mark'[d] = mark[d]
        BY <1>2, <1>3
      <4> QED BY <1>2, <3>1, <4>1, <4>2, <4>3, UnforcedStays
    <3>5. \A e \in Entries : Safe(e) => Safe(e)'
      BY <1>2, <3>1 DEF Safe, Put, Record
    <3> QED BY <3>2, <3>3, <3>4, <3>5
  <2> QED BY <2>1, <2>2
<1>7. \A e \in Entries : Kept(e) => Kept(e)'
  BY <1>2, <1>4, <1>5, <1>6 DEF Kept
<1>8. Waiting' /\ Accepted'
  <2>1. \A e \in Entries : Waits(e) => Waits(e)'
    BY <1>2 DEF Waits
  <2> QED BY <1>2, <1>3, <1>7, <2>1, WaitersStay
<1>9. Drains'
  BY <1>2, <1>3 DEF Drains
<1> QED BY <1>6, <1>8, <1>9 DEF IInv

\* A queue that opens replays what is pending.
LEMMA OpenStep ==
    ASSUME FileSystemKeeps, IInv, TypeOK', Open
    PROVE  IInv'
<1>1. PICK q \in Replays(file) : queue' = q /\ Rewrite(q)
  BY DEF Open
<1>2. q \in Seq(Entries) /\ IsReplay(q, file)
  BY ReplayType
<1>3. /\ UNCHANGED <<mark, acked, dead>>
      /\ epoch' = 0 /\ unforced' = << >>
      /\ ~ Up /\ Up' /\ Quiet
  BY DEF Open, historyVars, Up
<1>4. /\ Drain \in Threads /\ Entries \subseteq Threads /\ Drain \notin Entries
      /\ \A v \in Threads : pc'[v] = IF v = Drain THEN "idle" ELSE pc[v]
      /\ \A v \in Threads : pc'[v] \notin {"check", "forcing"}
  BY <1>3, QueueAssumption DEF Open, Goto, Quiet, IInv, TypeOK, Threads
<1>5. /\ Lengths' /\ DoneRecords'
      /\ \A e \in Entries :
            Safe(e) /\ (\E i \in 1 .. Len(q) : q[i] = e) => Safe(e)'
  BY <1>1, <1>2, <1>3, RewriteKeeps
<1>6. ASSUME NEW e \in Entries, Kept(e)
      PROVE  Kept(e)'
  <2>1. CASE Ended(e)
    BY <1>3, <2>1 DEF Kept, Ended
  <2>2. CASE ~ Ended(e)
    <3>1. PICK i \in 1 .. onDisk : file[i] = Put(e)
      BY <1>6, <2>2 DEF Kept, Safe
    <3>2. onDisk \in 0 .. Len(file) /\ Len(file) \in Nat
      BY DEF IInv, TypeOK
    <3>3. Has(file, Put(e))
      <4>1. i > 1 => i - 1 \in 1 .. Len(file) /\ ~ (i - 1 > onDisk)
        BY <3>1, <3>2
      <4>2. i > 1 => file[i - 1] # Torn
        BY <4>1 DEF IInv, DoneRecords
      <4>3. i \in 1 .. Len(file)
        BY <3>1, <3>2
      <4> QED BY <3>1, <4>2, <4>3 DEF Has
    <3>4. ~ Has(file, Done(e))
      BY <2>2 DEF Has, IInv, DoneRecords
    <3>5. \E k \in 1 .. Len(q) : q[k] = e
      BY <1>2, <3>3, <3>4 DEF IsReplay, Pending
    <3>6. Safe(e)
      BY <1>6, <2>2 DEF Kept
    <3>7. Safe(e)' /\ InQueue(e)'
      BY <1>1, <1>5, <3>5, <3>6 DEF InQueue
    <3> QED BY <3>7 DEF Kept
  <2> QED BY <2>1, <2>2
<1>7. Waiting' /\ Accepted'
  BY <1>4, <1>6 DEF IInv, Waiting, Accepted
<1>8. Unforced' /\ OneForce'
  BY <1>3, <1>4 DEF Unforced, OneForce
<1>9. Drains'
  BY <1>3, <1>4 DEF Drains
<1> QED BY <1>5, <1>7, <1>8, <1>9 DEF IInv

-----------------------------------------------------------------------------
(* The theorems                                                            *)

\* The invariant holds at first.
LEMMA InitIInv == Init => IInv
<1> SUFFICES ASSUME Init
             PROVE  IInv
  OBVIOUS
<1>1. TypeOK
  BY TypeInit
<1>2. /\ ~ Up /\ ~ channel /\ file = << >> /\ unforced = << >>
      /\ pc[Drain] = "ended" /\ \A e \in Entries : pc[e] = "new"
      /\ \A w \in Threads : pc[w] \in {"new", "ended"}
  BY QueueAssumption DEF Init, Up, Threads
<1>3. Lengths /\ OneForce /\ Unforced /\ Waiting /\ Accepted /\ DoneRecords /\ Drains
  BY <1>2 DEF Lengths, OneForce, Unforced, Waiting, Accepted, DoneRecords, Drains
<1> QED BY <1>1, <1>3 DEF IInv

\* Every step keeps it.
LEMMA NextIInv ==
    ASSUME FileSystemKeeps, IInv, [Next]_vars
    PROVE  IInv'
<1>t. TypeOK'
  BY TypeNext
<1>1. CASE Next
  <2>1. ASSUME NEW e \in Entries, Enqueue(e)
        PROVE  IInv'
    BY <1>t, <2>1, EnqueueStep
  <2>2. ASSUME NEW e \in Entries, EnqueueFails(e)
        PROVE  IInv'
    BY <1>t, <2>2, EnqueueFailsStep
  <2>3. ASSUME NEW w \in Threads, CheckForce(w)
        PROVE  IInv'
    BY <1>t, <2>3, CheckForceStep
  <2>4. ASSUME NEW w \in Threads, ForceEnds(w)
        PROVE  IInv'
    BY <1>t, <2>4, ForceDoneStep, ForceFailsStep DEF ForceEnds
  <2>5. CASE \/ Take \/ Answered \/ Retry \/ Paused \/ DrainEnds
             \/ Bury \/ BuryFails \/ RecordFails \/ \E e \in Entries : Serve(e)
    BY <1>t, <2>5, DrainSteps
  <2>6. CASE RecordDone
    BY <1>t, <2>6, RecordDoneStep
  <2>7. CASE Poll
    BY <1>t, <2>7, PollStep
  <2>8. CASE Close \/ Stop
    BY <1>t, <2>8, CloseStep
  <2>9. CASE CloseChannel
    BY <1>t, <2>9, CloseChannelStep
  <2>10. CASE Crash
    BY <1>t, <2>10, CrashStep
  <2>11. CASE Open
    BY <1>t, <2>11, OpenStep
  <2> QED
    BY <1>1, <2>1, <2>2, <2>3, <2>4, <2>5, <2>6, <2>7, <2>8, <2>9, <2>10, <2>11
    DEF Next, Draining
<1>2. CASE UNCHANGED vars
  <2>1. UNCHANGED <<file, onDisk, channel, written, durable, epoch, unforced, queue, life, mark,
                    target, acked, dead, pc>>
    BY <1>2 DEF vars, journalVars, historyVars
  <2> QED BY <1>t, <2>1
      DEF IInv, Lengths, OneForce, Unforced, Waiting, Accepted, DoneRecords, Drains, Up, Safe,
          Kept, Waits, InQueue, Ended, Put, Done, Torn, Record
<1> QED BY <1>1, <1>2

\* What the invariant says of accepted entries.
LEMMA KeptAccepted == IInv => AcceptedKept
<1> SUFFICES ASSUME IInv, NEW e \in Entries, pc[e] = "accepted", ~ Ended(e)
             PROVE  /\ e \in Pending(SubSeq(file, 1, onDisk))
                    /\ life \in {"running", "closing", "stopping"} => InQueue(e)
  BY DEF AcceptedKept
<1>1. Safe(e) /\ (Up => InQueue(e))
  BY DEF IInv, Accepted, Kept
<1>2. PICK i \in 1 .. onDisk : file[i] = Put(e)
  BY <1>1 DEF Safe
<1>3. file \in Seq(Records) /\ onDisk \in 0 .. Len(file) /\ Len(file) \in Nat
  BY DEF IInv, TypeOK, Records
<1> DEFINE disk == SubSeq(file, 1, onDisk)
<1>4. Len(disk) = onDisk /\ \A k \in 1 .. onDisk : disk[k] = file[k]
  BY <1>3
<1> HIDE DEF disk
<1>5. \A k \in 1 .. onDisk : file[k] # Torn /\ file[k] # Done(e)
  BY <1>3 DEF IInv, DoneRecords
<1>6. Has(disk, Put(e))
  <2>1. i > 1 => i - 1 \in 1 .. onDisk
    BY <1>2, <1>3
  <2> QED BY <1>2, <1>4, <1>5, <2>1 DEF Has
<1>7. ~ Has(disk, Done(e))
  BY <1>4, <1>5 DEF Has
<1> QED BY <1>1, <1>6, <1>7 DEF Pending, Up, disk

\* The invariant holds in every reachable state.
LEMMA Reached ==
    ASSUME FileSystemKeeps
    PROVE  Spec => []IInv
<1>1. IInv /\ [Next]_vars => IInv'
  BY NextIInv
<1> QED BY InitIInv, <1>1, PTL DEF Spec

\* Every variable of the write queue keeps its type, whatever is enqueued,
\* fails and crashes, on such a file system.
THEOREM QueueTypeCorrect ==
    ASSUME FileSystemKeeps
    PROVE  Spec => []TypeOK
<1>1. IInv => TypeOK
  BY DEF IInv
<1> QED BY Reached, <1>1, PTL

\* An entry whose enqueue returned is never lost before it has ended, for
\* any entries, threads, failures, crashes and compactions, on a file system
\* that replaces the journal or never tears a line: WriteQueue.enqueue's "an
\* entry the caller saw accepted is never lost".
THEOREM AcceptedNeverLost ==
    ASSUME FileSystemKeeps
    PROVE  Spec => []AcceptedKept
BY Reached, KeptAccepted, PTL

-----------------------------------------------------------------------------
(* The order of the entries: the queue implements its promise              *)

\* The file system replaces the journal whenever it is asked to.
FileSystemReplaces == "replace" \notin Faults

Lined(e) == \E i \in 1 .. Len(line) : line[i] = e

Earlier(d, e) == \E i, j \in 1 .. Len(line) : i < j /\ line[i] = d /\ line[j] = e

Written(e) == \E i \in 1 .. Len(file) : file[i] = Put(e)

\* Each entry is in line once, from its put on.
Enqueued ==
    /\ \A i, j \in 1 .. Len(line) : line[i] = line[j] => i = j
    /\ \A i \in 1 .. Len(line) : pc[line[i]] # "new"
    /\ \A e \in Entries : pc[e] \in {"check", "forcing"} => Lined(e)

\* The journal holds the puts in line order.
FileInLine ==
    /\ \A i \in 1 .. Len(file) : \A e \in Entries : file[i] = Put(e) => Lined(e)
    /\ \A i, j \in 1 .. Len(file) : \A d, e \in Entries :
          i < j /\ file[i] = Put(d) /\ file[j] = Put(e) => Earlier(d, e)

\* The queue is in line order, before the puts no force covers.
QueueInLine ==
    /\ \A i \in 1 .. Len(queue) : Lined(queue[i])
    /\ \A i, j \in 1 .. Len(queue) : i < j => Earlier(queue[i], queue[j])
    /\ \A i \in 1 .. Len(queue) : \A k \in 1 .. Len(unforced) :
          Earlier(queue[i], unforced[k].entry)

\* What ended was decided by the server.
EndedDecided ==
    /\ \A e \in Entries : Ended(e) => verdict[e] # "none"
    /\ pc[Drain] = "bury" => verdict[Head(queue)] # "none"

\* An undecided entry that was sent or is queued is where no crash takes it.
Held ==
    \A e \in Entries : verdict[e] = "none" /\ (e \in sent \/ InQueue(e)) => Safe(e)

\* An open queue has every undecided entry of the journal.
Queued ==
    Up => \A e \in Entries : Written(e) /\ verdict[e] = "none" => InQueue(e) \/ Waits(e)

\* What is sent has its turn.
Turns ==
    \A e \in sent : verdict[e] = "none" =>
        \A d \in Entries : Earlier(d, e) => d \in Gone \/ verdict[d] # "none"

OInv ==
    /\ Enqueued /\ FileInLine /\ QueueInLine
    /\ EndedDecided /\ Held /\ Queued /\ Turns

\* The line is a strict order.
LEMMA EarlierStrict ==
    ASSUME TypeOK, Enqueued, NEW d, NEW e, Earlier(d, e)
    PROVE  Lined(d) /\ Lined(e) /\ ~ Earlier(e, d) /\ d # e
<1>1. PICK i, j \in 1 .. Len(line) : i < j /\ line[i] = d /\ line[j] = e
  BY DEF Earlier
<1>2. Len(line) \in Nat
  BY DEF TypeOK
<1>3. ~ Earlier(e, d)
  <2>1. ASSUME NEW k \in 1 .. Len(line), NEW l \in 1 .. Len(line),
               k < l, line[k] = e, line[l] = d
        PROVE  FALSE
    <3>1. l = i /\ k = j
      BY <1>1, <2>1 DEF Enqueued
    <3> QED BY <1>1, <1>2, <2>1, <3>1
  <2> QED BY <2>1 DEF Earlier
<1>4. d # e
  <2>1. ASSUME d = e PROVE FALSE
    <3>1. i = j
      BY <1>1, <2>1 DEF Enqueued
    <3> QED BY <1>1, <1>2, <3>1
  <2> QED BY <2>1
<1> QED BY <1>1, <1>3, <1>4 DEF Lined

\* Lengths and positions are natural numbers.
LEMMA Lengthy ==
    ASSUME TypeOK
    PROVE  /\ durable \in Nat /\ target \in Nat /\ onDisk \in Nat
           /\ Len(unforced) \in Nat /\ Len(queue) \in Nat
<1>1. durable \in Nat /\ target \in Nat
  BY DEF TypeOK
<1>2. onDisk \in Nat
  <2>1. Len(file) \in Nat /\ onDisk \in 0 .. Len(file)
    BY DEF TypeOK
  <2> QED BY <2>1
<1>3. Len(unforced) \in Nat /\ Len(queue) \in Nat
  BY LenProperties DEF TypeOK
<1> QED BY <1>1, <1>2, <1>3

\* A put on disk is read back, and so is any put of a running process.
LEMMA SafeHas ==
    ASSUME TypeOK, DoneRecords, NEW e \in Entries
    PROVE  /\ Safe(e) => Has(file, Put(e))
           /\ Has(file, Put(e)) => Written(e)
           /\ life # "down" /\ Written(e) => Has(file, Put(e))
<1>1. Len(file) \in Nat /\ onDisk \in 0 .. Len(file)
  BY DEF TypeOK
<1>2. ASSUME NEW i \in 1 .. Len(file), file[i] = Put(e), life # "down" \/ i <= onDisk
      PROVE  Has(file, Put(e))
  <2>1. i > 1 => i - 1 \in 1 .. Len(file) /\ (i <= onDisk => ~ (i - 1 > onDisk))
    BY <1>1
  <2>2. i > 1 => file[i - 1] # Torn
    BY <1>2, <2>1 DEF DoneRecords
  <2> QED BY <1>2, <2>2 DEF Has
<1>3. Safe(e) => Has(file, Put(e))
  <2>1. ASSUME NEW i \in 1 .. onDisk, file[i] = Put(e)
        PROVE  Has(file, Put(e))
    <3>1. i \in 1 .. Len(file) /\ i <= onDisk
      BY <1>1
    <3> QED BY <1>2, <2>1, <3>1
  <2> QED BY <2>1 DEF Safe
<1> QED BY <1>2, <1>3 DEF Has, Written

\* An accepted entry is not withdrawn.
LEMMA AcceptedStays ==
    IInv /\ OInv => \A e \in Entries : pc[e] = "accepted" => e \notin Gone
<1> SUFFICES ASSUME IInv, OInv, NEW e \in Entries, pc[e] = "accepted"
             PROVE  e \notin Gone
  OBVIOUS
<1>1. Kept(e)
  BY DEF IInv, Accepted
<1>2. CASE Ended(e)
  BY <1>2 DEF OInv, EndedDecided, Gone
<1>3. CASE Safe(e)
  BY <1>3, SafeHas DEF IInv, Gone
<1> QED BY <1>1, <1>2, <1>3 DEF Kept

LEMMA AcceptedStaysNext ==
    (IInv /\ OInv => \A e \in Entries : pc[e] = "accepted" => e \notin Gone)'
BY AcceptedStays, PTL

\* A step withdraws what it makes gone.
LEMMA WithdrawStep ==
    ASSUME IInv, OInv, IInv', OInv', UNCHANGED <<line, verdict>>,
           \A e \in Entries : (pc[e] = "accepted") = (pc'[e] = "accepted"),
           Gone \subseteq Gone'
    PROVE  Promise!Next
<1> DEFINE acc == {e \in Entries : pc[e] = "accepted"}
           S == Gone' \ Gone
<1>1. S \in SUBSET Entries /\ Gone' = Gone \cup S
  BY DEF Gone
<1>2. UNCHANGED acc
  OBVIOUS
<1>3. \A e \in Entries : pc'[e] = "accepted" => e \notin Gone'
  BY AcceptedStaysNext
<1>4. ASSUME NEW e \in S
      PROVE  Promise!InLine(e) /\ e \notin acc /\ verdict[e] = "none"
  BY <1>1, <1>3, <1>4 DEF Gone, Promise!InLine
<1> HIDE DEF S
<1>5. Promise!Withdraw(S)
  BY <1>1, <1>2, <1>4 DEF Promise!Withdraw
<1> QED BY <1>1, <1>5 DEF Promise!Next

\* The part of the journal that holds an entry stays where it is.
LEMMA SafeStays ==
    ASSUME TypeOK, TypeOK', NEW e \in Entries, Safe(e),
           Up' => Up,
           Up' /\ channel' => channel /\ durable <= durable',
           \A i \in 1 .. onDisk :
              (Up /\ channel => i <= durable) => i <= onDisk' /\ file'[i] = file[i]
    PROVE  Safe(e)'
<1>1. PICK i \in 1 .. onDisk : file[i] = Put(e) /\ (Up /\ channel => i <= durable)
  BY DEF Safe
<1>2. onDisk \in Nat /\ onDisk' \in Nat /\ durable \in Nat /\ durable' \in Nat
  BY DEF TypeOK
<1>3. i \in 1 .. onDisk' /\ file'[i] = Put(e)
  BY <1>1, <1>2
<1>4. Up' /\ channel' => i <= durable'
  BY <1>1, <1>2
<1> QED BY <1>3, <1>4 DEF Safe, Put, Record

\* A step that leaves the line keeps the order of what the journal keeps.
LEMMA LineStays ==
    ASSUME IInv, OInv, TypeOK', UNCHANGED line,
           \A e \in Entries : pc[e] # "new" => pc'[e] # "new",
           \A e \in Entries : pc'[e] \in {"check", "forcing"} => pc[e] \in {"check", "forcing"}
    PROVE  /\ Enqueued'
           /\ \A d : Lined(d)' = Lined(d) /\ \A e : Earlier(d, e)' = Earlier(d, e)
<1>1. \A d : Lined(d)' = Lined(d) /\ \A e : Earlier(d, e)' = Earlier(d, e)
  BY DEF Lined, Earlier
<1>2. \A i \in 1 .. Len(line) : line[i] \in Entries
  BY ElementOfSeq DEF IInv, TypeOK
<1> QED BY <1>1, <1>2 DEF OInv, Enqueued

LEMMA FileShrinks ==
    ASSUME OInv, UNCHANGED line,
           \A i \in 1 .. Len(file') : \A e \in Entries :
              file'[i] = Put(e) => i \in 1 .. Len(file) /\ file[i] = Put(e)
    PROVE  FileInLine' /\ \A e \in Entries : Written(e)' => Written(e)
<1>l. \A d : Lined(d)' = Lined(d) /\ \A e : Earlier(d, e)' = Earlier(d, e)
  BY DEF Lined, Earlier
<1>1. FileInLine'
  <2>1. ASSUME NEW i \in 1 .. Len(file'), NEW e \in Entries, file'[i] = Put(e)
        PROVE  Lined(e)'
    BY <1>l, <2>1 DEF OInv, FileInLine
  <2>2. ASSUME NEW i \in 1 .. Len(file'), NEW j \in 1 .. Len(file'),
               NEW d \in Entries, NEW e \in Entries,
               i < j, file'[i] = Put(d), file'[j] = Put(e)
        PROVE  Earlier(d, e)'
    BY <1>l, <2>2 DEF OInv, FileInLine
  <2> QED BY <2>1, <2>2 DEF FileInLine, Put, Record
<1>2. \A e \in Entries : Written(e)' => Written(e)
  BY DEF Written, Put, Record
<1> QED BY <1>1, <1>2

\* Undecided entries that the journal no longer holds are gone for good.
LEMMA GoneStays ==
    ASSUME UNCHANGED <<line, verdict>>,
           \A e \in Entries :
              verdict[e] = "none" /\ Has(file', Put(e)) => Has(file, Put(e))
    PROVE  Gone \subseteq Gone'
BY DEF Gone, Has, Put, Torn, Record

LEMMA TurnsStay ==
    ASSUME OInv, UNCHANGED <<line, verdict, sent>>, Gone \subseteq Gone'
    PROVE  Turns'
BY DEF OInv, Turns, Earlier

\* Steps outside the journal, which may send the head of the queue.
LEMMA QuietOrder ==
    ASSUME IInv, OInv, TypeOK',
           UNCHANGED <<file, onDisk, channel, durable, unforced, queue, line, verdict>>,
           Up' = Up,
           \A e \in Entries : pc[e] # "new" => pc'[e] # "new",
           \A e \in Entries : pc'[e] \in {"check", "forcing"} => pc[e] \in {"check", "forcing"},
           \A e \in Entries : e \in sent' => e \in sent \/ InQueue(e)
    PROVE  /\ Enqueued' /\ FileInLine' /\ QueueInLine' /\ Held' /\ Queued'
           /\ Gone' = Gone /\ (sent' = sent => Turns')
<1>1. Enqueued'
  BY LineStays
<1>2. FileInLine'
  BY DEF OInv, FileInLine, Lined, Earlier, Put, Record
<1>3. QueueInLine'
  BY DEF OInv, QueueInLine, Lined, Earlier
<1>4. Held'
  <2>1. \A e \in Entries : Safe(e) => Safe(e)'
    BY DEF Safe, Put, Record
  <2>2. \A e \in Entries : InQueue(e)' = InQueue(e)
    BY DEF InQueue
  <2> QED BY <2>1, <2>2 DEF OInv, Held
<1>5. Queued'
  BY DEF OInv, Queued, Written, InQueue, Waits, Put, Record
<1>6. Gone' = Gone
  BY DEF Gone, Has, Put, Torn, Record
<1> QED BY <1>1, <1>2, <1>3, <1>4, <1>5, <1>6, TurnsStay

\* The steps of the drain thread outside the journal keep the order.
LEMMA DrainOrder ==
    ASSUME IInv, OInv, TypeOK',
           Take \/ Answered \/ Retry \/ Paused \/ DrainEnds \/ Bury \/ BuryFails \/ RecordFails
    PROVE  OInv' /\ Gone' = Gone
<1>1. /\ UNCHANGED <<file, onDisk, channel, durable, unforced, queue, line, verdict>>
      /\ Up' = Up
  BY DEF Take, Answered, Retry, Paused, DrainEnds, Bury, BuryFails, RecordFails,
         DrainKeeps, journalVars, serverVars, historyVars, Up
<1>2. \A e \in Entries : pc'[e] = pc[e]
  BY QueueAssumption
  DEF Take, Answered, Retry, Paused, DrainEnds, Bury, BuryFails, RecordFails, Goto,
      IInv, TypeOK, Threads
<1>3. \A e \in Entries : e \in sent' => e \in sent \/ InQueue(e)
  <2>1. CASE Take
    <3>1. queue # << >> /\ sent' = sent \cup {Head(queue)} /\ queue \in Seq(Entries)
      BY <2>1 DEF Take, IInv, TypeOK
    <3>2. 1 \in 1 .. Len(queue) /\ Head(queue) = queue[1]
      BY <3>1
    <3> QED BY <3>1, <3>2 DEF InQueue
  <2>2. CASE ~ Take
    BY <2>2 DEF Answered, Retry, Paused, DrainEnds, Bury, BuryFails, RecordFails, serverVars
  <2> QED BY <2>1, <2>2
<1>4. /\ Enqueued' /\ FileInLine' /\ QueueInLine' /\ Held' /\ Queued'
      /\ Gone' = Gone /\ (sent' = sent => Turns')
  BY <1>1, <1>2, <1>3, QuietOrder
<1>5. EndedDecided'
  <2>0. Drain \in Threads /\ pc \in [Threads -> {"new", "check", "forcing", "accepted", "failed",
           "lost", "idle", "flight", "bury", "record", "callback", "pause", "ended"}]
    BY DEF Threads, IInv, TypeOK
  <2>1. CASE Answered
    <3>1. Head(queue) \in Entries /\ verdict[Head(queue)] # "none"
      BY <2>1, HeadType DEF Answered, IInv
    <3>2. acked' \subseteq acked \cup {Head(queue)} /\ dead' = dead
      BY <2>1 DEF Answered
    <3> QED BY <1>1, <3>1, <3>2 DEF OInv, EndedDecided, Ended
  <2>2. CASE Bury
    <3>1. Head(queue) \in Entries /\ verdict[Head(queue)] # "none"
      BY <2>2, HeadType DEF Bury, IInv, OInv, EndedDecided
    <3>2. /\ dead' = [dead EXCEPT ![Head(queue)] = dead[Head(queue)] + 1]
          /\ acked' = acked /\ pc'[Drain] = "record"
      BY <2>0, <2>2 DEF Bury, Goto
    <3>3. \A e \in Entries : e # Head(queue) => dead'[e] = dead[e]
      BY <3>2 DEF IInv, TypeOK
    <3> QED BY <1>1, <3>1, <3>2, <3>3 DEF OInv, EndedDecided, Ended
  <2>3. CASE ~ Answered /\ ~ Bury
    <3>1. UNCHANGED <<acked, dead>>
      BY <2>3 DEF Take, Retry, Paused, DrainEnds, BuryFails, RecordFails, historyVars
    <3>2. pc'[Drain] # "bury"
      BY <2>0, <2>3 DEF Take, Retry, Paused, DrainEnds, BuryFails, RecordFails, Goto
    <3> QED BY <1>1, <3>1, <3>2 DEF OInv, EndedDecided, Ended
  <2> QED BY <2>1, <2>2, <2>3
<1>6. Turns'
  <2>1. CASE Take
    <3>1. queue # << >> /\ sent' = sent \cup {Head(queue)} /\ queue \in Seq(Entries)
          /\ pc[Drain] = "idle"
      BY <2>1 DEF Take, IInv, TypeOK
    <3>2. 1 \in 1 .. Len(queue) /\ Head(queue) = queue[1] /\ Up
      BY <3>1 DEF IInv, Drains
    <3>3. ASSUME NEW d \in Entries, Earlier(d, queue[1]), verdict[d] = "none"
          PROVE  d \in Gone
      <4>1. Lined(d) /\ d # queue[1] /\ ~ Earlier(queue[1], d)
        BY <3>3, EarlierStrict DEF IInv, OInv
      <4>2. ~ InQueue(d)
        <5>1. ASSUME NEW k \in 1 .. Len(queue), queue[k] = d
              PROVE  FALSE
          <6>1. 1 < k
            BY <3>2, <4>1, <5>1
          <6> QED BY <3>2, <4>1, <5>1, <6>1 DEF OInv, QueueInLine
        <5> QED BY <5>1 DEF InQueue
      <4>3. ~ Waits(d)
        BY <3>2, <4>1 DEF OInv, QueueInLine, Waits
      <4>4. ~ Has(file, Put(d))
        BY <3>2, <3>3, <4>2, <4>3, SafeHas DEF IInv, OInv, Queued
      <4> QED BY <3>3, <4>1, <4>4 DEF Gone, Lined
    <3>4. ASSUME NEW e \in sent', verdict[e] = "none", NEW d \in Entries, Earlier(d, e)
          PROVE  d \in Gone \/ verdict[d] # "none"
      BY <3>1, <3>2, <3>3, <3>4 DEF OInv, Turns
    <3> QED BY <1>1, <1>4, <3>4 DEF Turns, Earlier
  <2>2. CASE ~ Take
    BY <1>4, <2>2
    DEF Answered, Retry, Paused, DrainEnds, Bury, BuryFails, RecordFails, serverVars
  <2> QED BY <2>1, <2>2
<1> QED BY <1>4, <1>5, <1>6 DEF OInv

\* So do the steps of a caller outside the journal, and of close.
LEMMA CallerOrder ==
    ASSUME IInv, OInv, TypeOK',
           \/ \E e \in Entries : EnqueueFails(e)
           \/ \E w \in Threads : CheckForce(w)
           \/ Close \/ Stop
    PROVE  OInv' /\ Gone' = Gone
<1>0. /\ Drain \in Threads /\ Drain \notin Entries /\ Entries \subseteq Threads
      /\ pc \in [Threads -> {"new", "check", "forcing", "accepted", "failed",
           "lost", "idle", "flight", "bury", "record", "callback", "pause", "ended"}]
  BY QueueAssumption DEF Threads, IInv, TypeOK
<1>1. /\ UNCHANGED <<file, onDisk, channel, durable, unforced, queue, line, verdict>>
      /\ UNCHANGED <<sent, acked, dead>> /\ Up' = Up
  BY DEF EnqueueFails, CheckForce, Close, Stop, journalVars, serverVars, historyVars, Up
<1>2. /\ \A e \in Entries : pc[e] # "new" => pc'[e] # "new"
      /\ \A e \in Entries : pc'[e] \in {"check", "forcing"} => pc[e] \in {"check", "forcing"}
      /\ pc'[Drain] = "bury" => pc[Drain] = "bury"
  <2>1. ASSUME NEW e \in Entries, EnqueueFails(e) PROVE <1>2!1 /\ <1>2!2 /\ <1>2!3
    BY <1>0, <2>1 DEF EnqueueFails, Goto
  <2>2. ASSUME NEW w \in Threads, CheckForce(w) PROVE <1>2!1 /\ <1>2!2 /\ <1>2!3
    BY <1>0, <2>2 DEF CheckForce, Return, StartForce, Goto
  <2>3. CASE Close \/ Stop
    BY <2>3 DEF Close, Stop
  <2> QED BY <2>1, <2>2, <2>3
<1>3. /\ Enqueued' /\ FileInLine' /\ QueueInLine' /\ Held' /\ Queued' /\ Turns'
      /\ Gone' = Gone
  BY <1>1, <1>2, QuietOrder
<1>4. EndedDecided'
  BY <1>1, <1>2 DEF OInv, EndedDecided, Ended
<1> QED BY <1>3, <1>4 DEF OInv

\* What the server decides had its turn.
LEMMA ServeOrder ==
    ASSUME IInv, OInv, TypeOK', NEW e \in Entries, Serve(e)
    PROVE  OInv' /\ Promise!Next
<1>1. /\ UNCHANGED <<file, onDisk, channel, durable, unforced, queue, line>>
      /\ UNCHANGED <<pc, sent, acked, dead>> /\ Up' = Up
      /\ e \in sent /\ verdict[e] = "none"
  BY DEF Serve, DrainKeeps, journalVars, historyVars, Up
<1>2. PICK v \in {"success", "refused"} : verdict' = [verdict EXCEPT ![e] = v]
  BY DEF Serve
<1>3. \A d \in Entries : verdict'[d] = IF d = e THEN v ELSE verdict[d]
  BY <1>2 DEF IInv, TypeOK
<1>4. e \notin Gone /\ e \notin Gone'
  <2>1. Safe(e)
    BY <1>1 DEF OInv, Held
  <2> QED BY <1>3, <2>1, SafeHas DEF IInv, Gone
<1>5. Gone' = Gone
  <2>1. \A d \in Entries : d # e => (d \in Gone' <=> d \in Gone)
    BY <1>1, <1>3 DEF Gone, Has, Put, Torn, Record
  <2>2. Gone \subseteq Entries /\ Gone' \subseteq Entries
    BY DEF Gone
  <2> QED BY <1>4, <2>1, <2>2
<1>6. Lined(e)
  <2>1. Written(e)
    BY <1>1, SafeHas DEF IInv, OInv, Held
  <2> QED BY <2>1 DEF OInv, FileInLine, Written
<1>7. Promise!Decide(e, v)
  <2>1. PICK i \in 1 .. Len(line) : line[i] = e
    BY <1>6 DEF Lined
  <2>2. ASSUME NEW j \in 1 .. i - 1
        PROVE  line[j] \in Gone \/ verdict[line[j]] # "none"
    <3>0. line \in Seq(Entries) /\ Len(line) \in Nat
      BY DEF IInv, TypeOK
    <3>1. j \in 1 .. Len(line) /\ j < i /\ line[j] \in Entries
      <4>1. j \in 1 .. Len(line) /\ j < i
        BY <2>1, <3>0
      <4> QED BY <3>0, <4>1, ElementOfSeq
    <3>2. Earlier(line[j], e)
      BY <2>1, <3>1 DEF Earlier
    <3> QED BY <1>1, <3>1, <3>2 DEF OInv, Turns
  <2> QED BY <1>1, <1>2, <1>4, <1>5, <2>1, <2>2 DEF Promise!Decide
<1>8. Promise!Next
  BY <1>7 DEF Promise!Next
<1>9. Enqueued' /\ FileInLine' /\ QueueInLine'
  <2>1. Enqueued'
    BY <1>1, LineStays
  <2>2. FileInLine'
    BY <1>1, FileShrinks
  <2>3. QueueInLine'
    <3>1. \A d : Lined(d)' = Lined(d) /\ \A f : Earlier(d, f)' = Earlier(d, f)
      BY <1>1 DEF Lined, Earlier
    <3>2. QueueInLine
      BY DEF OInv
    <3> QED BY <1>1, <3>1, <3>2 DEF QueueInLine
  <2> QED BY <2>1, <2>2, <2>3
<1>10. \A d \in Entries : verdict'[d] = "none" => verdict[d] = "none"
  BY <1>1, <1>3
<1>11. Held'
  <2>1. \A d \in Entries : Safe(d) => Safe(d)'
    BY <1>1 DEF Safe, Put, Record
  <2> QED BY <1>1, <1>10, <2>1 DEF OInv, Held, InQueue
<1>12. Queued'
  BY <1>1, <1>10 DEF OInv, Queued, Written, InQueue, Waits, Put, Record
<1>13. EndedDecided'
  <2>1. pc[Drain] = "bury" => Head(queue) \in Entries
    BY HeadType DEF IInv
  <2> QED BY <1>1, <1>10, <2>1 DEF OInv, EndedDecided, Ended
<1>14. Turns'
  <2>1. sent \subseteq Entries
    BY DEF IInv, TypeOK
  <2> QED BY <1>1, <1>5, <1>10, <2>1 DEF OInv, Turns, Earlier
<1> QED BY <1>8, <1>9, <1>11, <1>12, <1>13, <1>14 DEF OInv

\* A done record hides no put.
LEMMA RecordOrder ==
    ASSUME IInv, OInv, TypeOK', RecordDone
    PROVE  OInv' /\ Gone \subseteq Gone'
<1>1. /\ UNCHANGED <<onDisk, channel, durable, unforced, queue, line, verdict, sent, acked, dead>>
      /\ Up' = Up /\ life # "down" /\ channel
      /\ file' = Append(file, Done(Head(queue)))
  BY DEF RecordDone, Write, serverVars, historyVars, Up, IInv, Lengths
<1>2. /\ Drain \in Threads /\ Drain \notin Entries /\ Entries \subseteq Threads
      /\ pc'[Drain] \in {"check", "callback"}
      /\ \A e \in Entries : pc'[e] = pc[e]
  BY QueueAssumption DEF RecordDone, Goto, Threads, IInv, TypeOK
<1>3. /\ Len(file) \in Nat /\ Len(file') = Len(file) + 1 /\ onDisk \in 0 .. Len(file)
      /\ file'[Len(file) + 1] = Done(Head(queue))
      /\ \A i \in 1 .. Len(file) : file'[i] = file[i]
  <2>1. file \in Seq(Records) /\ Done(Head(queue)) \in Records
    BY HeadType, RecordTypes DEF IInv, TypeOK, Records, RecordDone
  <2> QED BY <1>1, <2>1, AppendProperties DEF IInv, TypeOK
<1>4. ASSUME NEW i \in 1 .. Len(file'), NEW e \in Entries, file'[i] = Put(e)
      PROVE  i \in 1 .. Len(file) /\ file[i] = Put(e)
  <2>1. Done(Head(queue)) # Put(e)
    BY DEF Done, Put, Record
  <2> QED BY <1>3, <1>4, <2>1
<1>5. FileInLine' /\ \A e \in Entries : Written(e)' => Written(e)
  BY <1>1, <1>4, FileShrinks
<1>6. Gone \subseteq Gone'
  <2>1. ASSUME NEW e \in Entries, Has(file', Put(e))
        PROVE  Has(file, Put(e))
    <3>1. Written(e)
      BY <1>4, <2>1 DEF Has, Written
    <3> QED BY <1>1, <3>1, SafeHas DEF IInv
  <2> QED BY <1>1, <2>1, GoneStays
<1>7. Enqueued' /\ QueueInLine' /\ Turns'
  <2>1. Enqueued'
    BY <1>1, <1>2, LineStays
  <2>2. QueueInLine'
    BY <1>1 DEF OInv, QueueInLine, Lined, Earlier
  <2> QED BY <1>1, <1>6, <2>1, <2>2, TurnsStay
<1>8. Held'
  <2>1. ASSUME NEW e \in Entries, Safe(e)
        PROVE  Safe(e)'
    <3>1. \A i \in 1 .. onDisk : i <= onDisk' /\ file'[i] = file[i]
      BY <1>1, <1>3
    <3>2. Up' /\ channel' => channel /\ durable <= durable'
      BY <1>1 DEF IInv, TypeOK
    <3>3. TypeOK /\ (Up' => Up)
      BY <1>1 DEF IInv
    <3> QED BY <2>1, <3>1, <3>2, <3>3, SafeStays
  <2> QED BY <1>1, <2>1 DEF OInv, Held, InQueue
<1>9. Queued'
  BY <1>1, <1>5 DEF OInv, Queued, InQueue, Waits
<1>10. EndedDecided'
  BY <1>1, <1>2 DEF OInv, EndedDecided, Ended
<1> QED BY <1>5, <1>6, <1>7, <1>8, <1>9, <1>10 DEF OInv

\* An entry that is enqueued comes after all others.
LEMMA EnqueueOrder ==
    ASSUME IInv, OInv, TypeOK', NEW e \in Entries, Enqueue(e)
    PROVE  OInv' /\ Promise!Next
<1>1. /\ UNCHANGED <<onDisk, channel, durable, queue, verdict, sent, acked, dead>>
      /\ Up' = Up /\ life # "down" /\ life' # "down" /\ pc[e] = "new"
      /\ file' = Append(file, Put(e)) /\ line' = Append(line, e)
      /\ channel /\ written' = written + 1
      /\ unforced' = Append(unforced, [entry |-> e, end |-> written'])
  BY DEF Enqueue, Write, serverVars, Up, IInv, Lengths
<1>2. /\ Drain \in Threads /\ Drain \notin Entries /\ Entries \subseteq Threads
      /\ pc'[Drain] = pc[Drain]
      /\ \A d \in Entries : pc'[d] = IF d = e THEN "check" ELSE pc[d]
  BY QueueAssumption DEF Enqueue, Goto, Threads, IInv, TypeOK
<1>3. /\ Len(file) \in Nat /\ Len(file') = Len(file) + 1 /\ onDisk \in 0 .. Len(file)
      /\ file'[Len(file) + 1] = Put(e)
      /\ \A i \in 1 .. Len(file) : file'[i] = file[i]
  <2>1. file \in Seq(Records) /\ Put(e) \in Records /\ onDisk \in 0 .. Len(file)
    BY RecordTypes DEF IInv, TypeOK, Records
  <2> QED BY <1>1, <2>1, AppendProperties
<1>4. /\ Len(line) \in Nat /\ Len(line') = Len(line) + 1 /\ line'[Len(line) + 1] = e
      /\ \A i \in 1 .. Len(line) : line'[i] = line[i] /\ line[i] \in Entries
  <2>1. line \in Seq(Entries)
    BY DEF IInv, TypeOK
  <2> QED BY <1>1, <2>1, AppendProperties, ElementOfSeq
<1>5. /\ Len(unforced) \in Nat /\ Len(unforced') = Len(unforced) + 1
      /\ unforced'[Len(unforced) + 1].entry = e
      /\ \A k \in 1 .. Len(unforced) : unforced'[k] = unforced[k]
  <2> DEFINE u == [entry |-> e, end |-> written']
  <2>1. unforced \in Seq([entry : Entries, end : Nat]) /\ u \in [entry : Entries, end : Nat]
        /\ unforced' = Append(unforced, u) /\ u.entry = e
    BY <1>1 DEF IInv, TypeOK
  <2> HIDE DEF u
  <2> QED BY <2>1, AppendProperties
<1>6. ~ Lined(e) /\ Lined(e)'
  <2>1. ~ Lined(e)
    BY <1>1 DEF OInv, Enqueued, Lined
  <2> QED BY <1>4, <2>1 DEF Lined
<1>7. /\ \A d : Lined(d) => Lined(d)' /\ Earlier(d, e)'
      /\ \A d : Lined(d)' => Lined(d) \/ d = e
      /\ \A d, f : Earlier(d, f) => Earlier(d, f)'
      /\ \A d, f : Earlier(d, f)' /\ f # e => Earlier(d, f)
  <2>1. ASSUME NEW i \in 1 .. Len(line)
        PROVE  i \in 1 .. Len(line') /\ i < Len(line) + 1 /\ Len(line) + 1 \in 1 .. Len(line')
               /\ line'[i] = line[i]
    BY <1>4
  <2>2. ASSUME NEW i \in 1 .. Len(line')
        PROVE  i = Len(line) + 1 \/ i \in 1 .. Len(line)
    BY <1>4
  <2>3. ASSUME NEW d, Lined(d)
        PROVE  Lined(d)' /\ Earlier(d, e)'
    <3>1. PICK i \in 1 .. Len(line) : line[i] = d
      BY <2>3 DEF Lined
    <3> QED BY <1>4, <2>1, <3>1 DEF Lined, Earlier
  <2>4. ASSUME NEW d, Lined(d)'
        PROVE  Lined(d) \/ d = e
    BY <1>4, <2>2, <2>4 DEF Lined
  <2>5. ASSUME NEW d, NEW f, Earlier(d, f)
        PROVE  Earlier(d, f)'
    BY <2>1, <2>5 DEF Earlier
  <2>6. ASSUME NEW d, NEW f, Earlier(d, f)', f # e
        PROVE  Earlier(d, f)
    <3>1. PICK i \in 1 .. Len(line'), j \in 1 .. Len(line') :
             i < j /\ line'[i] = d /\ line'[j] = f
      BY <2>6 DEF Earlier
    <3>2. j \in 1 .. Len(line)
      BY <1>4, <2>2, <2>6, <3>1
    <3>3. i \in 1 .. Len(line)
      BY <1>4, <3>1, <3>2
    <3> QED BY <1>4, <3>1, <3>2, <3>3 DEF Earlier
  <2> QED BY <2>3, <2>4, <2>5, <2>6
<1>8. Enqueued'
  <2>1. \A i \in 1 .. Len(line) : line'[i] # e
    BY <1>4, <1>6 DEF Lined
  <2>2. \A i, j \in 1 .. Len(line') : line'[i] = line'[j] => i = j
    <3>1. ASSUME NEW i \in 1 .. Len(line'), NEW j \in 1 .. Len(line'), line'[i] = line'[j]
          PROVE  i = j
      <4>1. CASE i \in 1 .. Len(line) /\ j \in 1 .. Len(line)
        BY <1>4, <3>1, <4>1 DEF OInv, Enqueued
      <4>2. CASE i \notin 1 .. Len(line) \/ j \notin 1 .. Len(line)
        BY <1>4, <2>1, <3>1, <4>2
      <4> QED BY <4>1, <4>2
    <3> QED BY <3>1
  <2>3. \A i \in 1 .. Len(line') : pc'[line'[i]] # "new"
    <3>1. ASSUME NEW i \in 1 .. Len(line') PROVE pc'[line'[i]] # "new"
      <4>1. CASE i \in 1 .. Len(line)
        BY <1>2, <1>4, <4>1 DEF OInv, Enqueued
      <4>2. CASE i = Len(line) + 1
        BY <1>2, <1>4, <4>2
      <4> QED BY <1>4, <4>1, <4>2
    <3> QED BY <3>1
  <2>4. \A d \in Entries : pc'[d] \in {"check", "forcing"} => Lined(d)'
    BY <1>2, <1>6, <1>7 DEF OInv, Enqueued
  <2> QED BY <2>2, <2>3, <2>4 DEF Enqueued
<1>9. \A d \in Entries : Put(d) = Put(e) => d = e
  BY DEF Put, Record
<1>10. FileInLine'
  <2>1. ASSUME NEW i \in 1 .. Len(file'), NEW d \in Entries, file'[i] = Put(d)
        PROVE  Lined(d)' /\ (i \in 1 .. Len(file) => Lined(d))
    <3>1. CASE i \in 1 .. Len(file)
      BY <1>3, <1>7, <2>1, <3>1 DEF OInv, FileInLine
    <3>2. CASE i = Len(file) + 1
      BY <1>3, <1>6, <1>9, <2>1, <3>2
    <3> QED BY <1>3, <3>1, <3>2
  <2>2. ASSUME NEW i \in 1 .. Len(file'), NEW j \in 1 .. Len(file'),
               NEW d \in Entries, NEW f \in Entries,
               i < j, file'[i] = Put(d), file'[j] = Put(f)
        PROVE  Earlier(d, f)'
    <3>1. i \in 1 .. Len(file)
      BY <1>3, <2>2
    <3>2. CASE j \in 1 .. Len(file)
      BY <1>3, <1>7, <2>2, <3>1, <3>2 DEF OInv, FileInLine
    <3>3. CASE j = Len(file) + 1
      BY <1>3, <1>7, <1>9, <2>1, <2>2, <3>1, <3>3
    <3> QED BY <1>3, <3>2, <3>3
  <2> QED BY <2>1, <2>2 DEF FileInLine, Put, Record
<1>11. QueueInLine'
  <2>0. QueueInLine /\ queue' = queue
    BY <1>1 DEF OInv
  <2>1. ASSUME NEW i \in 1 .. Len(queue'), NEW k \in 1 .. Len(unforced')
        PROVE  Earlier(queue[i], unforced[k].entry)'
    <3>1. CASE k \in 1 .. Len(unforced)
      BY <1>5, <1>7, <2>0, <3>1 DEF QueueInLine
    <3>2. CASE k = Len(unforced) + 1
      BY <1>5, <1>7, <2>0, <3>2 DEF QueueInLine
    <3> QED BY <1>5, <3>1, <3>2
  <2>2. \A i \in 1 .. Len(queue') : Lined(queue[i])'
    BY <1>7, <2>0 DEF QueueInLine
  <2>3. \A i, j \in 1 .. Len(queue') : i < j => Earlier(queue[i], queue[j])'
    BY <1>7, <2>0 DEF QueueInLine
  <2> QED BY <2>1, <2>2, <2>3 DEF QueueInLine
<1>12. Held'
  <2>1. ASSUME NEW d \in Entries, Safe(d)
        PROVE  Safe(d)'
    <3>1. \A i \in 1 .. onDisk : i <= onDisk' /\ file'[i] = file[i]
      BY <1>1, <1>3
    <3>2. Up' /\ channel' => channel /\ durable <= durable'
      BY <1>1 DEF IInv, TypeOK
    <3>3. TypeOK /\ (Up' => Up)
      BY <1>1 DEF IInv
    <3> QED BY <2>1, <3>1, <3>2, <3>3, SafeStays
  <2> QED BY <1>1, <2>1 DEF OInv, Held, InQueue
<1>13. \A d \in Entries : Written(d)' => Written(d) \/ d = e
  <2>1. ASSUME NEW d \in Entries, NEW i \in 1 .. Len(file'), file'[i] = Put(d)
        PROVE  Written(d) \/ d = e
    <3>1. CASE i \in 1 .. Len(file)
      BY <1>3, <2>1, <3>1 DEF Written
    <3>2. CASE i = Len(file) + 1
      BY <1>3, <1>9, <2>1, <3>2
    <3> QED BY <1>3, <3>1, <3>2
  <2> QED BY <2>1 DEF Written, Put, Record
<1>14. Queued'
  <2>1. Waits(e)'
    BY <1>5 DEF Waits
  <2>2. ASSUME NEW d \in Entries, Waits(d)
        PROVE  Waits(d)'
    BY <1>5, <2>2 DEF Waits
  <2> QED BY <1>1, <1>13, <2>1, <2>2 DEF OInv, Queued, InQueue
<1>15. EndedDecided'
  BY <1>1, <1>2 DEF OInv, EndedDecided, Ended
<1>16. Gone' = Gone
  <2>1. ASSUME NEW d \in Entries, d # e
        PROVE  Has(file', Put(d)) <=> Has(file, Put(d))
    <3>1. Has(file', Put(d)) <=> Written(d)'
      <4>1. Written(d)' => Has(file', Put(d))
        <5>1. ASSUME NEW i \in 1 .. Len(file'), file'[i] = Put(d)
              PROVE  Has(file', Put(d))
          <6>1. i \in 1 .. Len(file)
            BY <1>3, <1>9, <2>1, <5>1
          <6>2. i > 1 => i - 1 \in 1 .. Len(file) /\ file'[i - 1] = file[i - 1]
            BY <1>3, <6>1
          <6>3. i > 1 => file'[i - 1] # Torn
            BY <1>1, <6>2 DEF IInv, DoneRecords
          <6> QED BY <5>1, <6>3 DEF Has
        <5> QED BY <5>1 DEF Written, Put, Record
      <4> QED BY <4>1 DEF Has, Written, Put, Record
    <3>2. Has(file, Put(d)) <=> Written(d)
      BY <1>1, SafeHas DEF IInv
    <3>3. Written(d) => Written(d)'
      BY <1>3 DEF Written, Put, Record
    <3> QED BY <1>13, <2>1, <3>1, <3>2, <3>3
  <2>2. Has(file', Put(e))
    <3>1. Len(file) + 1 > 1 => file'[Len(file)] # Torn
      BY <1>1, <1>3 DEF IInv, DoneRecords
    <3>2. Len(file) + 1 \in 1 .. Len(file') /\ (Len(file) + 1) - 1 = Len(file)
      BY <1>3
    <3> QED BY <1>3, <3>1, <3>2 DEF Has
  <2>3. e \notin Gone /\ e \notin Gone'
    BY <1>6, <2>2 DEF Gone, Lined, Has, Put, Torn, Record
  <2>4. \A d \in Entries : d # e => (d \in Gone' <=> d \in Gone)
    BY <1>1, <1>7, <2>1 DEF Gone, Lined, Has, Put, Torn, Record
  <2>5. Gone \subseteq Entries /\ Gone' \subseteq Entries
    BY DEF Gone
  <2> QED BY <2>3, <2>4, <2>5
<1>17. Turns'
  <2>1. ASSUME NEW f \in sent, verdict[f] = "none", NEW d \in Entries, Earlier(d, f)'
        PROVE  d \in Gone \/ verdict[d] # "none"
    <3>1. f \in Entries
      BY DEF IInv, TypeOK
    <3>2. Written(f)
      BY <2>1, <3>1, SafeHas DEF IInv, OInv, Held
    <3>3. f # e
      BY <1>6, <3>1, <3>2 DEF OInv, FileInLine, Written
    <3> QED BY <1>7, <2>1, <3>3 DEF OInv, Turns
  <2> QED BY <1>1, <1>16, <2>1 DEF Turns
<1>18. Promise!Submit(e)
  <2>1. UNCHANGED {d \in Entries : pc[d] = "accepted"}
    BY <1>1, <1>2
  <2>2. ~ Promise!InLine(e)
    BY <1>6 DEF Lined, Promise!InLine
  <2> QED BY <1>1, <1>16, <2>1, <2>2 DEF Promise!Submit
<1> QED BY <1>8, <1>10, <1>11, <1>12, <1>14, <1>15, <1>17, <1>18 DEF OInv, Promise!Next

\* The puts a force covers join the queue in line order.
LEMMA ForceDoneOrder ==
    ASSUME IInv, OInv, TypeOK', NEW w \in Threads, ForceDone(w)
    PROVE  OInv' /\ Gone' = Gone
<1>1. /\ UNCHANGED <<file, channel, line, verdict, sent, acked, dead>> /\ Up' = Up
      /\ durable' = target /\ onDisk' = IF target > onDisk THEN target ELSE onDisk
      /\ pc[w] = "forcing" /\ channel
  BY DEF ForceDone, serverVars, historyVars, Up
<1>2. /\ Drain \in Threads /\ Drain \notin Entries /\ Entries \subseteq Threads
      /\ \A v \in Threads : pc'[v] = IF v = w THEN "check" ELSE pc[v]
  BY QueueAssumption DEF ForceDone, Goto, IInv, TypeOK, Threads
<1>3. /\ Up /\ channel /\ durable <= target
      /\ durable \in Nat /\ target \in Nat /\ onDisk \in Nat
      /\ Len(unforced) \in Nat /\ Len(queue) \in Nat
  <2>1. Up /\ channel /\ durable <= target
    BY <1>1 DEF IInv, OneForce
  <2>2. /\ durable \in Nat /\ target \in Nat /\ onDisk \in Nat
        /\ Len(unforced) \in Nat /\ Len(queue) \in Nat
    BY Lengthy DEF IInv
  <2> QED BY <2>1, <2>2
<1>4. PICK n \in 0 .. Len(unforced) :
         /\ Covered(n)
         /\ queue' = queue \o [i \in 1 .. n |-> unforced[i].entry]
         /\ unforced' = SubSeq(unforced, n + 1, Len(unforced))
  BY DEF ForceDone
<1>5. /\ n \in Nat /\ n <= Len(unforced)
      /\ Len(unforced') = Len(unforced) - n
      /\ \A k \in 1 .. Len(unforced) - n : unforced'[k] = unforced[n + k]
      /\ \A e \in Entries : InQueue(e) => InQueue(e)'
      /\ Len(queue') = Len(queue) + n
      /\ \A i \in 1 .. Len(queue) : queue'[i] = queue[i]
      /\ \A i \in 1 .. n : queue'[Len(queue) + i] = unforced[i].entry
  <2>1. n \in Nat /\ n <= Len(unforced)
    BY <1>3
  <2> QED BY <1>4, <2>1, CoveredMoves DEF IInv
<1>6. ASSUME NEW k \in 1 .. Len(unforced)
      PROVE  /\ unforced[k].entry \in Entries /\ unforced[k].end \in 1 .. Len(file)
             /\ durable < unforced[k].end
             /\ file[unforced[k].end] = Put(unforced[k].entry)
             /\ Lined(unforced[k].entry)
             /\ \A j \in 1 .. Len(unforced) :
                   j < k => Earlier(unforced[j].entry, unforced[k].entry)
  <2>1. ASSUME NEW j \in 1 .. Len(unforced)
        PROVE  /\ unforced[j].entry \in Entries /\ unforced[j].end \in 1 .. Len(file)
               /\ durable < unforced[j].end
               /\ file[unforced[j].end] = Put(unforced[j].entry)
    <3>1. unforced[j] \in [entry : Entries, end : Nat]
      BY ElementOfSeq DEF IInv, TypeOK
    <3>2. /\ durable < unforced[j].end /\ unforced[j].end <= written
          /\ file[unforced[j].end] = Put(unforced[j].entry)
      BY DEF IInv, Unforced
    <3>3. written = Len(file)
      BY <1>3 DEF IInv, Lengths
    <3> QED BY <1>3, <3>1, <3>2, <3>3
  <2>2. \A j \in 1 .. Len(unforced) : j < k => unforced[j].end < unforced[k].end
    BY DEF IInv, Unforced
  <2>3. FileInLine
    BY DEF OInv
  <2>4. Lined(unforced[k].entry)
    BY <2>1, <2>3 DEF FileInLine
  <2>5. ASSUME NEW j \in 1 .. Len(unforced), j < k
        PROVE  Earlier(unforced[j].entry, unforced[k].entry)
    BY <2>1, <2>2, <2>3, <2>5 DEF FileInLine
  <2> QED BY <2>1, <2>4, <2>5
<1>l. \A d : Lined(d)' = Lined(d) /\ \A e : Earlier(d, e)' = Earlier(d, e)
  BY <1>1 DEF Lined, Earlier
<1>7. Enqueued' /\ FileInLine'
  <2>1. /\ \A e \in Entries : pc[e] # "new" => pc'[e] # "new"
        /\ \A e \in Entries : pc'[e] \in {"check", "forcing"} => pc[e] \in {"check", "forcing"}
    BY <1>1, <1>2
  <2> QED BY <1>1, <2>1, LineStays, FileShrinks
<1>8. Gone' = Gone
  BY <1>1 DEF Gone, Has, Put, Torn, Record
<1>9. QueueInLine'
  <2>0. QueueInLine
    BY DEF OInv
  <2>1. ASSUME NEW i \in 1 .. Len(queue')
        PROVE  \/ i \in 1 .. Len(queue) /\ queue'[i] = queue[i]
               \/ /\ i > Len(queue) /\ i - Len(queue) \in 1 .. n
                  /\ i - Len(queue) \in 1 .. Len(unforced)
                  /\ queue'[i] = unforced[i - Len(queue)].entry
    <3>1. CASE i <= Len(queue)
      BY <1>3, <1>5, <3>1
    <3>2. CASE i > Len(queue)
      <4>1. i - Len(queue) \in 1 .. n /\ Len(queue) + (i - Len(queue)) = i
        BY <1>3, <1>5, <3>2
      <4> QED BY <1>3, <1>5, <3>2, <4>1
    <3> QED BY <1>3, <3>1, <3>2
  <2>2. \A i \in 1 .. Len(queue') : Lined(queue'[i])
    BY <1>6, <2>0, <2>1 DEF QueueInLine
  <2>3. ASSUME NEW i \in 1 .. Len(queue'), NEW j \in 1 .. Len(queue'), i < j
        PROVE  Earlier(queue'[i], queue'[j])
    <3>1. CASE i \in 1 .. Len(queue) /\ j \in 1 .. Len(queue)
      BY <2>0, <2>1, <2>3, <3>1 DEF QueueInLine
    <3>2. CASE i \in 1 .. Len(queue) /\ j > Len(queue)
      BY <2>0, <2>1, <3>2 DEF QueueInLine
    <3>3. CASE i > Len(queue)
      <4>1. j > Len(queue) /\ i - Len(queue) < j - Len(queue)
        BY <1>3, <2>3, <3>3
      <4>2. i - Len(queue) \in 1 .. Len(unforced) /\ queue'[i] = unforced[i - Len(queue)].entry
        BY <1>3, <2>1, <3>3
      <4>3. j - Len(queue) \in 1 .. Len(unforced) /\ queue'[j] = unforced[j - Len(queue)].entry
        BY <1>3, <2>1, <4>1
      <4> QED BY <1>6, <4>1, <4>2, <4>3
    <3> QED BY <1>3, <2>1, <3>1, <3>2, <3>3
  <2>4. ASSUME NEW i \in 1 .. Len(queue'), NEW k \in 1 .. Len(unforced')
        PROVE  Earlier(queue'[i], unforced'[k].entry)
    <3>1. n + k \in 1 .. Len(unforced) /\ unforced'[k] = unforced[n + k]
      BY <1>3, <1>5
    <3>2. CASE i \in 1 .. Len(queue)
      BY <2>0, <2>1, <3>1, <3>2 DEF QueueInLine
    <3>3. CASE i > Len(queue)
      <4>1. /\ i - Len(queue) \in 1 .. Len(unforced) /\ i - Len(queue) < n + k
            /\ queue'[i] = unforced[i - Len(queue)].entry
        BY <1>3, <1>5, <2>1, <3>3
      <4> QED BY <1>6, <3>1, <4>1
    <3> QED BY <1>3, <2>1, <3>2, <3>3
  <2> QED BY <1>l, <2>2, <2>3, <2>4 DEF QueueInLine
<1>10. ASSUME NEW e \in Entries, Safe(e)
       PROVE  Safe(e)'
  <2>1. \A i \in 1 .. onDisk : i <= onDisk' /\ file'[i] = file[i]
    BY <1>1, <1>3
  <2>2. TypeOK /\ (Up' => Up) /\ (Up' /\ channel' => channel /\ durable <= durable')
    BY <1>1, <1>3 DEF IInv
  <2> QED BY <1>10, <2>1, <2>2, SafeStays
<1>11. ASSUME NEW e \in Entries, InQueue(e)'
       PROVE  InQueue(e) \/ Safe(e)'
  <2>1. PICK i \in 1 .. Len(queue') : queue'[i] = e
    BY <1>11 DEF InQueue
  <2>2. CASE i <= Len(queue)
    <3>1. i \in 1 .. Len(queue)
      BY <1>3, <1>5, <2>2
    <3>2. queue[i] = e
      BY <1>5, <2>1, <3>1
    <3> QED BY <3>1, <3>2 DEF InQueue
  <2>3. CASE i > Len(queue)
    <3> DEFINE k == i - Len(queue)
    <3>1. k \in 1 .. n /\ Len(queue) + k = i /\ k \in 1 .. Len(unforced)
      BY <1>3, <1>5, <2>3
    <3>2. unforced[k].entry = e /\ unforced[k].end <= target
      BY <1>4, <1>5, <2>1, <3>1 DEF Covered
    <3>3. unforced[k].end \in 1 .. onDisk' /\ unforced[k].end <= durable'
      BY <1>1, <1>3, <1>6, <3>1, <3>2
    <3>4. file'[unforced[k].end] = Put(e)
      BY <1>1, <1>6, <3>1, <3>2
    <3> QED BY <3>3, <3>4 DEF Safe, Put, Record
  <2> QED BY <1>3, <1>5, <2>2, <2>3
<1>12. Held'
  BY <1>1, <1>10, <1>11 DEF OInv, Held
<1>13. ASSUME NEW e \in Entries, Waits(e)
       PROVE  InQueue(e)' \/ Waits(e)'
  <2>1. PICK k \in 1 .. Len(unforced) : unforced[k].entry = e
    BY <1>13 DEF Waits
  <2>2. CASE k <= n
    <3>1. Len(queue) + k \in 1 .. Len(queue') /\ queue'[Len(queue) + k] = e
      BY <1>3, <1>5, <2>1, <2>2
    <3> QED BY <3>1 DEF InQueue
  <2>3. CASE k > n
    <3>1. k - n \in 1 .. Len(unforced') /\ n + (k - n) = k
      BY <1>3, <1>5, <2>3
    <3> QED BY <1>5, <2>1, <3>1 DEF Waits
  <2> QED BY <1>5, <2>2, <2>3
<1>14. Queued'
  BY <1>1, <1>5, <1>13 DEF OInv, Queued, Written, Put, Record
<1>15. EndedDecided'
  <2>1. pc'[Drain] = "bury" => pc[Drain] = "bury"
    BY <1>2
  <2>2. pc[Drain] = "bury" => Head(queue') = Head(queue)
    BY <1>4, CoveredMoves DEF IInv, Drains
  <2> QED BY <1>1, <2>1, <2>2 DEF OInv, EndedDecided, Ended
<1>16. Turns'
  BY <1>1, <1>8, TurnsStay
<1> QED BY <1>7, <1>8, <1>9, <1>12, <1>14, <1>15, <1>16 DEF OInv

\* The puts a failed force cuts off are gone.
LEMMA ForceFailsOrder ==
    ASSUME IInv, OInv, TypeOK', NEW w \in Threads, ForceFails(w)
    PROVE  OInv' /\ Gone \subseteq Gone'
<1>1. /\ UNCHANGED <<channel, durable, queue, life, line, verdict, sent, acked, dead>>
      /\ Up' = Up /\ unforced' = << >> /\ pc[w] = "forcing"
      /\ \/ channel /\ file' = SubSeq(file, 1, durable) /\ onDisk' = durable
         \/ ~ channel /\ UNCHANGED <<file, onDisk>>
  BY DEF ForceFails, serverVars, historyVars, Up
<1>2. /\ durable \in Nat /\ onDisk \in Nat /\ Len(file) \in Nat /\ file \in Seq(Records)
      /\ channel => Up /\ life # "down" /\ durable <= Len(file)
  <2>1. durable \in Nat /\ onDisk \in Nat /\ file \in Seq(Records) /\ Len(file) \in Nat
    BY DEF IInv, TypeOK, Records
  <2>2. channel => Up /\ durable <= Len(file)
    BY DEF IInv, Lengths
  <2> QED BY <2>1, <2>2 DEF Up
<1>3. channel => /\ Len(file') = durable
                 /\ \A i \in 1 .. durable : file'[i] = file[i] /\ i \in 1 .. Len(file)
  BY <1>1, <1>2
<1>4. /\ Drain \in Threads /\ Drain \notin Entries /\ Entries \subseteq Threads
      /\ \A v \in Threads : pc'[v] = IF v = w THEN "check" ELSE pc[v]
  BY QueueAssumption DEF ForceFails, Goto, IInv, TypeOK, Threads
<1>5. ASSUME NEW i \in 1 .. Len(file'), NEW e \in Entries, file'[i] = Put(e)
      PROVE  i \in 1 .. Len(file) /\ file[i] = Put(e)
  BY <1>1, <1>3, <1>5
<1>6. FileInLine' /\ \A e \in Entries : Written(e)' => Written(e)
  BY <1>1, <1>5, FileShrinks
<1>7. Enqueued'
  <2>1. /\ \A e \in Entries : pc[e] # "new" => pc'[e] # "new"
        /\ \A e \in Entries : pc'[e] \in {"check", "forcing"} => pc[e] \in {"check", "forcing"}
    BY <1>1, <1>4
  <2> QED BY <1>1, <2>1, LineStays
<1>8. Gone \subseteq Gone'
  <2>1. ASSUME NEW e \in Entries, Has(file', Put(e))
        PROVE  Has(file, Put(e))
    <3>1. CASE channel
      <4>1. Written(e)
        BY <1>5, <2>1 DEF Has, Written
      <4> QED BY <1>2, <3>1, <4>1, SafeHas DEF IInv
    <3>2. CASE ~ channel
      BY <1>1, <2>1, <3>2
    <3> QED BY <3>1, <3>2
  <2> QED BY <1>1, <2>1, GoneStays
<1>9. QueueInLine'
  <2>1. \A d : Lined(d)' = Lined(d) /\ \A e : Earlier(d, e)' = Earlier(d, e)
    BY <1>1 DEF Lined, Earlier
  <2>2. QueueInLine
    BY DEF OInv
  <2>3. Len(unforced') = 0
    BY <1>1
  <2> QED BY <1>1, <2>1, <2>2, <2>3 DEF QueueInLine
<1>10. Held'
  <2>1. ASSUME NEW e \in Entries, Safe(e)
        PROVE  Safe(e)'
    <3>1. \A i \in 1 .. onDisk :
             (Up /\ channel => i <= durable) => i <= onDisk' /\ file'[i] = file[i]
      BY <1>1, <1>2, <1>3
    <3>2. TypeOK /\ (Up' => Up) /\ (Up' /\ channel' => channel /\ durable <= durable')
      BY <1>1, <1>2 DEF IInv
    <3> QED BY <2>1, <3>1, <3>2, SafeStays
  <2> QED BY <1>1, <2>1 DEF OInv, Held, InQueue
<1>11. Queued'
  <2>1. ASSUME Up, NEW e \in Entries, NEW i \in 1 .. Len(file'), file'[i] = Put(e),
               verdict[e] = "none"
        PROVE  InQueue(e)
    <3>1. i \in 1 .. Len(file) /\ file[i] = Put(e)
      BY <1>5, <2>1
    <3>2. InQueue(e) \/ Waits(e)
      BY <2>1, <3>1 DEF OInv, Queued, Written
    <3>3. ~ Waits(e)
      <4>1. ASSUME NEW k \in 1 .. Len(unforced), unforced[k].entry = e
            PROVE  FALSE
        <5>1. unforced # << >>
          BY <4>1 DEF IInv, TypeOK
        <5>2. channel /\ i <= durable
          BY <1>3, <5>1 DEF IInv, Unforced
        <5>3. unforced[k] \in [entry : Entries, end : Nat]
          BY ElementOfSeq DEF IInv, TypeOK
        <5>4. /\ durable < unforced[k].end /\ unforced[k].end <= written /\ written = Len(file)
              /\ file[unforced[k].end] = Put(e)
          BY <2>1, <4>1, <5>2 DEF IInv, Unforced, Lengths
        <5>5. unforced[k].end \in 1 .. Len(file) /\ i < unforced[k].end
          BY <1>2, <5>2, <5>3, <5>4
        <5>6. Earlier(e, e)
          BY <3>1, <5>4, <5>5 DEF OInv, FileInLine
        <5> QED BY <5>6, EarlierStrict DEF IInv, OInv
      <4> QED BY <4>1 DEF Waits
    <3> QED BY <3>2, <3>3
  <2> QED BY <1>1, <2>1 DEF Queued, Written, InQueue, Put, Record
<1>12. EndedDecided'
  <2>1. pc'[Drain] = "bury" => pc[Drain] = "bury"
    BY <1>4
  <2> QED BY <1>1, <2>1 DEF OInv, EndedDecided, Ended
<1>13. Turns'
  BY <1>1, <1>8, TurnsStay
<1> QED BY <1>6, <1>7, <1>8, <1>9, <1>10, <1>11, <1>12, <1>13 DEF OInv

\* Closing the journal, and a crash, leave what is on disk.
LEMMA DownOrder ==
    ASSUME IInv, OInv, TypeOK', CloseChannel \/ Crash
    PROVE  OInv' /\ Gone \subseteq Gone'
<1>1. /\ UNCHANGED <<line, verdict, sent, acked, dead>>
      /\ ~ Up' /\ life # "down" /\ unforced' = << >> /\ pc'[Drain] = "ended"
      /\ \A e \in Entries : pc[e] # "new" => pc'[e] # "new"
      /\ \A e \in Entries : pc'[e] \in {"check", "forcing"} => pc[e] \in {"check", "forcing"}
  <2>1. CASE CloseChannel
    BY <2>1 DEF CloseChannel, serverVars, historyVars, Up
  <2>2. CASE Crash
    BY <2>2, QueueAssumption
    DEF Crash, AfterCrash, serverVars, historyVars, Up, Threads, IInv, TypeOK
  <2> QED BY <2>1, <2>2
<1>2. /\ \A i \in 1 .. onDisk : i <= onDisk' /\ file'[i] = file[i]
      /\ \A i \in 1 .. Len(file') : \A e \in Entries :
            file'[i] = Put(e) => i \in 1 .. Len(file) /\ file[i] = Put(e)
      /\ queue' = queue \/ queue' = << >>
  <2>1. CASE CloseChannel
    <3>1. onDisk \in 0 .. Len(file) /\ Len(file) \in Nat
      BY DEF IInv, TypeOK
    <3> QED BY <2>1, <3>1 DEF CloseChannel
  <2>2. CASE Crash
    <3>1. /\ onDisk' = onDisk /\ onDisk \in Nat
          /\ \A i \in 1 .. onDisk : file'[i] = file[i]
          /\ \A i \in 1 .. Len(file') :
                file'[i] = Junk \/ (i \in 1 .. Len(file) /\ file'[i] = file[i])
                \/ file'[i] = Torn
      <4>1. onDisk \in Nat
        BY DEF IInv, TypeOK
      <4> QED BY <2>2, <4>1, CrashFile DEF IInv
    <3>2. \A e \in Entries : Put(e) # Junk /\ Put(e) # Torn
      BY DEF Put, Junk, Torn, Record
    <3>3. queue' = << >>
      BY <2>2 DEF Crash
    <3> QED BY <3>1, <3>2, <3>3
  <2> QED BY <2>1, <2>2
<1>3. FileInLine' /\ \A e \in Entries : Written(e)' => Written(e)
  BY <1>1, <1>2, FileShrinks
<1>4. Enqueued' /\ \A d : Lined(d)' = Lined(d) /\ \A e : Earlier(d, e)' = Earlier(d, e)
  BY <1>1, LineStays
<1>5. Gone \subseteq Gone'
  <2>1. ASSUME NEW e \in Entries, Has(file', Put(e))
        PROVE  Has(file, Put(e))
    <3>1. Written(e)
      BY <1>2, <2>1 DEF Has, Written
    <3> QED BY <1>1, <3>1, SafeHas DEF IInv
  <2> QED BY <1>1, <2>1, GoneStays
<1>6. QueueInLine'
  <2>1. QueueInLine
    BY DEF OInv
  <2>2. Len(unforced') = 0
    BY <1>1
  <2>3. CASE queue' = queue
    BY <1>4, <2>1, <2>2, <2>3 DEF QueueInLine
  <2>4. CASE queue' = << >>
    BY <2>4 DEF QueueInLine
  <2> QED BY <1>2, <2>3, <2>4
<1>7. Held'
  <2>1. ASSUME NEW e \in Entries, Safe(e)
        PROVE  Safe(e)'
    BY <1>1, <1>2, <2>1, SafeStays DEF IInv
  <2>2. \A e \in Entries : InQueue(e)' => InQueue(e)
    BY <1>2 DEF InQueue
  <2> QED BY <1>1, <2>1, <2>2 DEF OInv, Held
<1>8. Queued' /\ EndedDecided'
  BY <1>1 DEF OInv, Queued, EndedDecided, Ended
<1>9. Turns'
  BY <1>1, <1>5, TurnsStay
<1> QED BY <1>3, <1>4, <1>5, <1>6, <1>7, <1>8, <1>9 DEF OInv

\* A journal rewritten from a queue in line order is in line order.
LEMMA RewriteOrder ==
    ASSUME FileSystemReplaces, TypeOK, TypeOK', NEW q \in Seq(Entries),
           Rewrite(q) \/ ReopenFails(q), queue' = q, unforced' = << >>,
           \A i \in 1 .. Len(q) : Lined(q[i])',
           \A i, j \in 1 .. Len(q) : i < j => Earlier(q[i], q[j])',
           \A e \in sent' : verdict'[e] = "none" => \E k \in 1 .. Len(q) : q[k] = e
    PROVE  /\ FileInLine' /\ QueueInLine' /\ Held' /\ Queued'
           /\ \A e \in Entries : Has(file', Put(e)) => InQueue(e)'
<1>1. /\ file' = [i \in 1 .. Len(q) |-> Put(q[i])] /\ onDisk' = Len(q)
      /\ channel' => durable' = Len(file')
  BY DEF Rewrite, ReopenFails, Fault, FileSystemReplaces
<1>2. /\ Len(q) \in Nat /\ Len(file') = Len(q)
      /\ \A i \in 1 .. Len(q) : file'[i] = Put(q[i])
  BY <1>1, PutsType
<1>3. \A d, e : Put(d) = Put(e) => d = e
  BY DEF Put, Record
<1>4. \A i \in 1 .. Len(q) : \A e \in Entries : file'[i] = Put(e) => q[i] = e
  BY <1>2, <1>3
<1>5. FileInLine'
  BY <1>2, <1>4 DEF FileInLine, Put, Record
<1>6. QueueInLine'
  <2>1. Len(unforced') = 0
    OBVIOUS
  <2> QED BY <2>1 DEF QueueInLine
<1>7. \A e \in Entries : InQueue(e)' <=> \E k \in 1 .. Len(q) : q[k] = e
  BY DEF InQueue
<1>8. Held'
  <2>1. ASSUME NEW e \in Entries, NEW k \in 1 .. Len(q), q[k] = e
        PROVE  Safe(e)'
    <3>1. k \in 1 .. onDisk' /\ file'[k] = Put(e) /\ (channel' => k <= durable')
      BY <1>1, <1>2, <2>1
    <3> QED BY <3>1 DEF Safe, Put, Record
  <2> QED BY <1>7, <2>1 DEF Held
<1>9. \A e \in Entries : Written(e)' => InQueue(e)'
  BY <1>2, <1>4, <1>7 DEF Written, Put, Record
<1>10. Queued'
  BY <1>9 DEF Queued
<1>11. \A e \in Entries : Has(file', Put(e)) => InQueue(e)'
  BY <1>9 DEF Has, Written, Put, Record
<1> QED BY <1>5, <1>6, <1>8, <1>10, <1>11

\* The head that leaves the queue was decided.
LEMMA PollOrder ==
    ASSUME FileSystemReplaces, IInv, OInv, TypeOK', Poll
    PROVE  OInv' /\ Gone \subseteq Gone'
<1>1. /\ queue # << >> /\ Head(queue) \in Entries /\ queue \in Seq(Entries)
      /\ verdict[Head(queue)] # "none" /\ pc[Drain] = "callback" /\ Up
      /\ queue' = Tail(queue) /\ queue' \in Seq(Entries)
  BY HeadType DEF Poll, IInv, OInv, EndedDecided, Drains, TypeOK
<1>2. /\ UNCHANGED <<unforced, life, line, verdict, sent, acked, dead>> /\ Up' = Up
  BY DEF Poll, serverVars, historyVars, Up
<1>3. /\ Drain \in Threads /\ Drain \notin Entries /\ Entries \subseteq Threads
      /\ \A v \in Threads : pc'[v] = IF v = Drain THEN "idle" ELSE pc[v]
  BY QueueAssumption DEF Poll, Goto, IInv, TypeOK, Threads
<1>4. /\ Len(queue) \in Nat /\ Len(queue') = Len(queue) - 1 /\ queue[1] = Head(queue)
      /\ \A i \in 1 .. Len(queue') : i + 1 \in 1 .. Len(queue) /\ queue'[i] = queue[i + 1]
      /\ \A i \in 1 .. Len(queue) : i # 1 => i - 1 \in 1 .. Len(queue') /\ queue'[i - 1] = queue[i]
  BY <1>1
<1>5. \A e \in Entries : /\ InQueue(e)' => InQueue(e)
                         /\ InQueue(e) /\ verdict[e] = "none" => InQueue(e)'
  <2>1. ASSUME NEW e \in Entries, InQueue(e)'
        PROVE  InQueue(e)
    BY <1>4, <2>1 DEF InQueue
  <2>2. ASSUME NEW e \in Entries, InQueue(e), verdict[e] = "none"
        PROVE  InQueue(e)'
    <3>1. PICK i \in 1 .. Len(queue) : queue[i] = e
      BY <2>2 DEF InQueue
    <3>2. i # 1
      BY <1>1, <1>4, <2>2, <3>1
    <3> QED BY <1>4, <3>1, <3>2 DEF InQueue
  <2> QED BY <2>1, <2>2
<1>6. Enqueued' /\ \A d : Lined(d)' = Lined(d) /\ \A e : Earlier(d, e)' = Earlier(d, e)
  BY <1>2, <1>3, LineStays
<1>7. /\ \A i \in 1 .. Len(queue') : Lined(queue'[i])
      /\ \A i, j \in 1 .. Len(queue') : i < j => Earlier(queue'[i], queue'[j])
      /\ \A i \in 1 .. Len(queue') : \A k \in 1 .. Len(unforced) :
            Earlier(queue'[i], unforced[k].entry)
  <2>1. QueueInLine
    BY DEF OInv
  <2> QED BY <1>4, <2>1 DEF QueueInLine
<1>8. /\ FileInLine' /\ QueueInLine' /\ Held' /\ Queued'
      /\ \A e \in Entries : verdict[e] = "none" /\ Has(file', Put(e)) => Has(file, Put(e))
  <2>1. CASE CompactionDue
    <3>1. /\ Rewrite(queue') \/ ReopenFails(queue')
          /\ unforced = << >> /\ unforced' = << >>
      BY <1>2, <2>1 DEF Poll, CompactionDue
    <3>2. ASSUME NEW e \in sent', verdict'[e] = "none"
          PROVE  \E k \in 1 .. Len(queue') : queue'[k] = e
      <4>1. e \in Entries /\ e \in sent /\ verdict[e] = "none"
        BY <1>2, <3>2 DEF IInv, TypeOK
      <4>2. Written(e)
        BY <4>1, SafeHas DEF IInv, OInv, Held
      <4>3. ~ Waits(e)
        BY <3>1 DEF Waits
      <4>4. InQueue(e)'
        BY <1>1, <1>5, <4>1, <4>2, <4>3 DEF OInv, Queued
      <4> QED BY <4>4 DEF InQueue
    <3> DEFINE q == queue'
    <3>3. q \in Seq(Entries) /\ queue' = q
      BY <1>1
    <3>4. /\ \A i \in 1 .. Len(q) : Lined(q[i])
          /\ \A i, j \in 1 .. Len(q) : i < j => Earlier(q[i], q[j])
      BY <1>7
    <3>5. Rewrite(q) \/ ReopenFails(q)
      BY <3>1
    <3>6. \A e \in sent' : verdict'[e] = "none" => \E k \in 1 .. Len(q) : q[k] = e
      BY <3>2
    <3>7. /\ \A i \in 1 .. Len(q) : Lined(queue[i])'
          /\ \A i, j \in 1 .. Len(q) : i < j => Earlier(queue[i], queue[j])'
      BY <1>6, <3>4
    <3>8. /\ FileInLine' /\ QueueInLine' /\ Held' /\ Queued'
          /\ \A e \in Entries : Has(file', Put(e)) => InQueue(e)'
      BY <3>1, <3>3, <3>5, <3>6, <3>7, RewriteOrder DEF IInv
    <3>9. ASSUME NEW e \in Entries, verdict[e] = "none", Has(file', Put(e))
          PROVE  Has(file, Put(e))
      BY <1>5, <3>8, <3>9, SafeHas DEF IInv, OInv, Held
    <3> QED BY <3>8, <3>9
  <2>2. CASE ~ CompactionDue
    <3>1. UNCHANGED <<file, onDisk, channel, written, durable>>
      BY <2>2 DEF Poll, journalVars
    <3>2. FileInLine'
      BY <1>2, <3>1, FileShrinks
    <3>3. QueueInLine'
      BY <1>2, <1>6, <1>7 DEF QueueInLine
    <3>4. Held'
      <4>1. \A e \in Entries : Safe(e) => Safe(e)'
        BY <1>2, <3>1 DEF Safe, Put, Record
      <4> QED BY <1>2, <1>5, <4>1 DEF OInv, Held
    <3>5. Queued'
      BY <1>2, <1>5, <3>1 DEF OInv, Queued, Written, Waits, Put, Record
    <3> QED BY <3>1, <3>2, <3>3, <3>4, <3>5
  <2> QED BY <2>1, <2>2
<1>9. Gone \subseteq Gone'
  BY <1>2, <1>8, GoneStays
<1>10. EndedDecided'
  BY <1>2, <1>3 DEF OInv, EndedDecided, Ended
<1>11. Turns'
  BY <1>2, <1>9, TurnsStay
<1> QED BY <1>6, <1>8, <1>9, <1>10, <1>11 DEF OInv

\* A queue opens on what is pending, in the order of the journal.
LEMMA OpenOrder ==
    ASSUME FileSystemReplaces, IInv, OInv, TypeOK', Open
    PROVE  OInv' /\ Gone \subseteq Gone'
<1>1. PICK q \in Replays(file) : queue' = q /\ Rewrite(q)
  BY DEF Open
<1>2. q \in Seq(Entries) /\ IsReplay(q, file)
  BY ReplayType
<1>3. /\ UNCHANGED <<line, verdict, sent, acked, dead>>
      /\ unforced' = << >> /\ ~ Up /\ Quiet
  BY DEF Open, serverVars, historyVars, Up
<1>4. /\ Drain \in Threads /\ Drain \notin Entries /\ Entries \subseteq Threads
      /\ \A v \in Threads : pc'[v] = IF v = Drain THEN "idle" ELSE pc[v]
  BY QueueAssumption DEF Open, Goto, IInv, TypeOK, Threads
<1>5. Enqueued' /\ \A d : Lined(d)' = Lined(d) /\ \A e : Earlier(d, e)' = Earlier(d, e)
  BY <1>3, <1>4, LineStays
<1>6. \A i \in 1 .. Len(q) : Lined(q[i])
  <2>1. ASSUME NEW i \in 1 .. Len(q)
        PROVE  Lined(q[i])
    <3>1. q[i] \in Entries /\ Has(file, Put(q[i]))
      BY <1>2 DEF IsReplay, Pending
    <3> QED BY <3>1 DEF Has, OInv, FileInLine
  <2> QED BY <2>1
<1>7. \A i, j \in 1 .. Len(q) : i < j => Earlier(q[i], q[j])
  <2>1. ASSUME NEW i \in 1 .. Len(q), NEW j \in 1 .. Len(q), i < j
        PROVE  Earlier(q[i], q[j])
    <3>1. q[i] \in Entries /\ q[j] \in Entries /\ Before(file, q[i], q[j])
      BY <1>2, <2>1 DEF IsReplay, Pending
    <3>2. PICK k, l \in 1 .. Len(file) : k < l /\ file[k] = Put(q[i]) /\ file[l] = Put(q[j])
      BY <3>1 DEF Before
    <3> QED BY <3>1, <3>2 DEF OInv, FileInLine
  <2> QED BY <2>1
<1>8. ASSUME NEW e \in sent', verdict'[e] = "none"
      PROVE  \E k \in 1 .. Len(q) : q[k] = e
  <2>1. e \in Entries /\ e \in sent /\ verdict[e] = "none"
    BY <1>3, <1>8 DEF IInv, TypeOK
  <2>2. Has(file, Put(e))
    BY <2>1, SafeHas DEF IInv, OInv, Held
  <2>3. ~ Has(file, Done(e))
    BY <2>1 DEF Has, IInv, DoneRecords, OInv, EndedDecided
  <2> QED BY <1>2, <2>1, <2>2, <2>3 DEF IsReplay, Pending
<1>9. /\ FileInLine' /\ QueueInLine' /\ Held' /\ Queued'
      /\ \A e \in Entries : Has(file', Put(e)) => InQueue(e)'
  <2>1. /\ \A i \in 1 .. Len(q) : Lined(q[i])'
        /\ \A i, j \in 1 .. Len(q) : i < j => Earlier(q[i], q[j])'
    BY <1>5, <1>6, <1>7
  <2> QED BY <1>1, <1>2, <1>3, <1>8, <2>1, RewriteOrder DEF IInv
<1>10. Gone \subseteq Gone'
  <2>1. ASSUME NEW e \in Entries, Has(file', Put(e))
        PROVE  Has(file, Put(e))
    <3>1. PICK k \in 1 .. Len(q) : q[k] = e
      BY <1>1, <1>9, <2>1 DEF InQueue
    <3> QED BY <1>2, <3>1 DEF IsReplay, Pending
  <2> QED BY <1>3, <2>1, GoneStays
<1>11. EndedDecided'
  BY <1>3, <1>4 DEF OInv, EndedDecided, Ended
<1>12. Turns'
  BY <1>3, <1>10, TurnsStay
<1> QED BY <1>5, <1>9, <1>10, <1>11, <1>12 DEF OInv

\* The order holds at first.
LEMMA InitOInv == Init => OInv
<1> SUFFICES ASSUME Init
             PROVE  OInv
  OBVIOUS
<1>1. Len(line) = 0 /\ Len(file) = 0 /\ Len(queue) = 0 /\ sent = {} /\ acked = {}
      /\ ~ Up /\ dead = [e \in Entries |-> 0] /\ Drain \in Threads /\ Entries \subseteq Threads
      /\ \A w \in Threads : pc[w] \in {"ended", "new"}
  BY DEF Init, Up, Threads
<1>2. \A e \in Entries : ~ Ended(e) /\ ~ InQueue(e)
  BY <1>1 DEF Ended, InQueue
<1> QED BY <1>1, <1>2
    DEF OInv, Enqueued, FileInLine, QueueInLine, EndedDecided, Held, Queued, Turns

\* What a step does to the entries the caller saw accepted.
LEMMA AcceptedSame ==
    ASSUME IInv, [Next]_vars, \A w \in Entries : ~ CheckForce(w)
    PROVE  \A e \in Entries : (pc[e] = "accepted") = (pc'[e] = "accepted")
<1>0. /\ Drain \in Threads /\ Drain \notin Entries /\ Entries \subseteq Threads
      /\ Threads = Entries \cup {Drain}
      /\ pc \in [Threads -> {"new", "check", "forcing", "accepted", "failed",
           "lost", "idle", "flight", "bury", "record", "callback", "pause", "ended"}]
  BY QueueAssumption DEF Threads, IInv, TypeOK
<1> DEFINE G == \A e \in Entries : (pc[e] = "accepted") = (pc'[e] = "accepted")
<1>1. ASSUME NEW e \in Entries, Enqueue(e) \/ EnqueueFails(e) \/ Serve(e)
      PROVE  G
  BY <1>0, <1>1 DEF Enqueue, EnqueueFails, Serve, Goto
<1>2. ASSUME CheckForce(Drain)
      PROVE  G
  BY <1>0, <1>2 DEF CheckForce, Return, StartForce, Goto
<1>3. ASSUME NEW w \in Threads, ForceEnds(w)
      PROVE  G
  BY <1>0, <1>3 DEF ForceEnds, ForceDone, ForceFails, Goto
<1>4. CASE Draining \/ Answered \/ Retry \/ BuryFails
  BY <1>0, <1>4
  DEF Draining, Take, Paused, DrainEnds, Bury, RecordDone, RecordFails, Poll,
      Answered, Retry, BuryFails, Goto
<1>5. CASE Close \/ Stop \/ CloseChannel
  BY <1>5 DEF Close, Stop, CloseChannel
<1>6. CASE Crash
  BY <1>0, <1>6 DEF Crash, AfterCrash
<1>7. CASE Open
  BY <1>0, <1>7 DEF Open, Goto
<1>8. CASE UNCHANGED vars
  BY <1>8 DEF vars
<1> QED BY <1>0, <1>1, <1>2, <1>3, <1>4, <1>5, <1>6, <1>7, <1>8 DEF Next

\* A caller sees its entry accepted, or nothing of the promise changes.
LEMMA AcceptOrder ==
    ASSUME IInv, OInv, IInv', OInv', NEW w \in Entries, CheckForce(w), Gone' = Gone
    PROVE  Promise!Next
<1> DEFINE acc == {e \in Entries : pc[e] = "accepted"}
<1>1. UNCHANGED <<line, verdict>> /\ pc[w] = "check" /\ w # Drain
  BY QueueAssumption DEF CheckForce, serverVars
<1>2. \A e \in Entries : e # w => pc'[e] = pc[e]
  BY DEF CheckForce, Return, StartForce, Goto, IInv, TypeOK, Threads
<1>3. CASE pc'[w] = "accepted"
  <2>1. acc' = acc \cup {w}
    BY <1>1, <1>2, <1>3
  <2>2. w \notin Gone
    BY <1>3, AcceptedStaysNext
  <2>3. Promise!InLine(w)
    BY <1>1 DEF OInv, Enqueued, Lined, Promise!InLine
  <2>4. Promise!Accept(w)
    BY <1>1, <2>1, <2>2, <2>3 DEF Promise!Accept
  <2> QED BY <2>4 DEF Promise!Next
<1>4. CASE pc'[w] # "accepted"
  <2>1. \A e \in Entries : (pc[e] = "accepted") = (pc'[e] = "accepted")
    BY <1>1, <1>2, <1>4
  <2> QED BY <1>1, <2>1, WithdrawStep
<1> QED BY <1>3, <1>4

\* Every step keeps the order, and is one the promise allows.
LEMMA NextPromise ==
    ASSUME FileSystemReplaces, IInv, OInv, IInv', [Next]_vars
    PROVE  OInv' /\ [Promise!Next]_(Promise!vars)
<1>t. TypeOK'
  BY DEF IInv
<1>1. ASSUME NEW e \in Entries, Enqueue(e) \/ Serve(e)
      PROVE  OInv' /\ Promise!Next
  BY <1>1, <1>t, EnqueueOrder, ServeOrder
<1>2. ASSUME NEW w \in Entries, CheckForce(w)
      PROVE  OInv' /\ Promise!Next
  <2>1. OInv' /\ Gone' = Gone
    BY <1>2, <1>t, CallerOrder DEF Threads
  <2> QED BY <1>2, <2>1, AcceptOrder
<1>3. ASSUME ~ (\E e \in Entries : Enqueue(e) \/ Serve(e) \/ CheckForce(e)), Next
      PROVE  OInv' /\ Promise!Next
  <2>1. OInv' /\ Gone \subseteq Gone'
    <3>1. CASE \/ \E e \in Entries : EnqueueFails(e)
               \/ \E w \in Threads : CheckForce(w)
               \/ Close \/ Stop
      BY <1>t, <3>1, CallerOrder
    <3>2. CASE \E w \in Threads : ForceEnds(w)
      BY <1>t, <3>2, ForceDoneOrder, ForceFailsOrder DEF ForceEnds
    <3>3. CASE Take \/ Answered \/ Retry \/ Paused \/ DrainEnds \/ Bury \/ BuryFails \/ RecordFails
      BY <1>t, <3>3, DrainOrder
    <3>4. CASE RecordDone
      BY <1>t, <3>4, RecordOrder
    <3>5. CASE Poll
      BY <1>t, <3>5, PollOrder
    <3>6. CASE CloseChannel \/ Crash
      BY <1>t, <3>6, DownOrder
    <3>7. CASE Open
      BY <1>t, <3>7, OpenOrder
    <3> QED
      BY <1>3, <3>1, <3>2, <3>3, <3>4, <3>5, <3>6, <3>7 DEF Next, Draining
  <2>2. \A e \in Entries : (pc[e] = "accepted") = (pc'[e] = "accepted")
    BY <1>3, AcceptedSame
  <2>3. UNCHANGED <<line, verdict>>
    BY <1>3
    DEF Next, EnqueueFails, CheckForce, ForceEnds, ForceDone, ForceFails, Draining, Take, Paused,
        DrainEnds, Bury, RecordDone, RecordFails, Poll, Answered, Retry, BuryFails, Close, Stop,
        CloseChannel, Crash, Open, DrainKeeps, serverVars, historyVars
  <2> QED BY <2>1, <2>2, <2>3, WithdrawStep
<1>4. CASE UNCHANGED vars
  <2>1. /\ UNCHANGED <<file, onDisk, channel, durable, unforced, queue, line, verdict>>
        /\ UNCHANGED <<pc, sent, acked, dead>> /\ Up' = Up
    BY <1>4 DEF vars, journalVars, serverVars, historyVars, Up
  <2>2. /\ Enqueued' /\ FileInLine' /\ QueueInLine' /\ Held' /\ Queued' /\ Turns'
        /\ Gone' = Gone
    BY <1>t, <2>1, QuietOrder
  <2>3. EndedDecided'
    BY <2>1 DEF OInv, EndedDecided, Ended
  <2> QED BY <2>1, <2>2, <2>3 DEF OInv, Promise!vars
<1> QED BY <1>1, <1>2, <1>3, <1>4

\* The write queue implements its promise on a file system that replaces the
\* journal: the server decides the entries one by one in the order they were
\* enqueued, across rollbacks, compactions, crashes and restarts, and none the
\* caller saw accepted is withdrawn ("one drain thread sends entries strictly
\* in enqueue order").
THEOREM QueueKeepsPromise ==
    ASSUME FileSystemReplaces
    PROVE  Spec => KeepsPromise
<1>0. FileSystemKeeps
  BY DEF FileSystemReplaces, FileSystemKeeps
<1>1. Spec => []IInv
  BY <1>0, Reached
<1>2. Init => Promise!Init
  <2> SUFFICES ASSUME Init
               PROVE  Promise!Init
    OBVIOUS
  <2>1. Gone = {} /\ {e \in Entries : pc[e] = "accepted"} = {}
    BY DEF Init, Gone, Threads
  <2> QED BY <2>1 DEF Init, Promise!Init
<1>3. IInv /\ OInv /\ IInv' /\ [Next]_vars => OInv' /\ [Promise!Next]_(Promise!vars)
  BY NextPromise
<1> QED BY <1>1, <1>2, <1>3, InitOInv, PTL DEF Spec, KeepsPromise, Promise!Spec

-----------------------------------------------------------------------------
(* A refusal that is settled stays so                                      *)

\* A done record of e is where no crash takes it, nor the failure of a force.
DoneSafe(e) ==
    \E i \in 1 .. onDisk : file[i] = Done(e) /\ (Up /\ channel => i <= durable)

\* An entry is put once, and queued once.
Once ==
    /\ \A i, j \in 1 .. Len(file) : \A e \in Entries :
          file[i] = Put(e) /\ file[j] = Put(e) => i = j
    /\ \A i, j \in 1 .. Len(queue) : queue[i] = queue[j] => i = j
    /\ \A e \in Entries : Written(e) \/ InQueue(e) => pc[e] # "new"
    /\ \A e \in Entries : InQueue(e) => ~ Waits(e)

\* The record the drain thread waits for is the done record of the head.
DoneMark ==
    pc[Drain] \in {"check", "forcing"} =>
        /\ channel /\ mark[Drain].epoch <= epoch
        /\ mark[Drain].epoch = epoch =>
              /\ mark[Drain].end \in 1 .. written
              /\ file[mark[Drain].end] = Done(Head(queue))
              /\ mark[Drain].end <= durable => mark[Drain].end <= onDisk

\* A settled entry has its done record, or no put, and is not sent again.
SettledSafe ==
    \A e \in settled :
        /\ pc[e] # "new" /\ ~ Waits(e)
        /\ InQueue(e) => pc[Drain] = "callback" /\ Head(queue) = e
        /\ DoneSafe(e) \/ ~ Written(e)

SInv == Once /\ DoneMark /\ SettledSafe

\* A done record stays with the part of the journal that holds it.
LEMMA DoneStays ==
    ASSUME TypeOK, TypeOK', NEW e \in Entries, DoneSafe(e),
           Up' => Up,
           Up' /\ channel' => channel /\ durable <= durable',
           \A i \in 1 .. onDisk :
              (Up /\ channel => i <= durable) => i <= onDisk' /\ file'[i] = file[i]
    PROVE  DoneSafe(e)'
<1>1. PICK i \in 1 .. onDisk : file[i] = Done(e) /\ (Up /\ channel => i <= durable)
  BY DEF DoneSafe
<1>2. onDisk \in Nat /\ onDisk' \in Nat /\ durable \in Nat /\ durable' \in Nat
  BY DEF TypeOK
<1>3. i \in 1 .. onDisk' /\ file'[i] = Done(e)
  BY <1>1, <1>2
<1>4. Up' /\ channel' => i <= durable'
  BY <1>1, <1>2
<1> QED BY <1>3, <1>4 DEF DoneSafe, Done, Record

\* A done record on disk is read back.
LEMMA DoneHas ==
    ASSUME TypeOK, DoneRecords, NEW e \in Entries, DoneSafe(e)
    PROVE  Has(file, Done(e))
<1>1. PICK i \in 1 .. onDisk : file[i] = Done(e)
  BY DEF DoneSafe
<1>2. Len(file) \in Nat /\ onDisk \in 0 .. Len(file)
  BY DEF TypeOK
<1>3. i > 1 => i - 1 \in 1 .. Len(file) /\ ~ (i - 1 > onDisk)
  BY <1>1, <1>2
<1>4. i > 1 => file[i - 1] # Torn
  BY <1>3 DEF DoneRecords
<1> QED BY <1>1, <1>2, <1>4 DEF Has

\* The entries that wait for a force differ, and none has a kept put.
LEMMA UnforcedOnce ==
    ASSUME IInv
    PROVE  /\ \A k \in 1 .. Len(unforced) : unforced[k].entry \in Entries
           /\ \A j, k \in 1 .. Len(unforced) :
                 unforced[j].entry = unforced[k].entry => j = k
<1>1. ASSUME NEW k \in 1 .. Len(unforced)
      PROVE  /\ unforced[k].entry \in Entries /\ unforced[k].end \in Nat
             /\ mark[unforced[k].entry].end = unforced[k].end
  <2>1. unforced[k] \in [entry : Entries, end : Nat]
    BY ElementOfSeq DEF IInv, TypeOK
  <2>2. mark[unforced[k].entry] = [end |-> unforced[k].end, epoch |-> epoch]
    BY DEF IInv, Unforced
  <2> QED BY <2>1, <2>2
<1>2. Len(unforced) \in Nat
  BY DEF IInv, TypeOK
<1>3. ASSUME NEW j \in 1 .. Len(unforced), NEW k \in 1 .. Len(unforced),
             unforced[j].entry = unforced[k].entry
      PROVE  j = k
  <2>1. unforced[j].end = unforced[k].end
    BY <1>1, <1>3
  <2>2. \A a, b \in 1 .. Len(unforced) : a < b => unforced[a].end < unforced[b].end
    BY DEF IInv, Unforced
  <2>3. ~ (j < k) /\ ~ (k < j)
    <3>1. unforced[j].end \in Nat /\ unforced[k].end \in Nat
      BY <1>1
    <3> QED BY <2>1, <2>2, <3>1
  <2> QED BY <1>2, <2>3
<1> QED BY <1>1, <1>3

\* What the journal still holds was put once.
LEMMA PutsOnce ==
    ASSUME Once,
           \A i \in 1 .. Len(file') : \A e \in Entries :
              file'[i] = Put(e) => i \in 1 .. Len(file) /\ file[i] = Put(e)
    PROVE  /\ \A i, j \in 1 .. Len(file') : \A e \in Entries :
                 file'[i] = Put(e) /\ file'[j] = Put(e) => i = j
           /\ \A e \in Entries : Written(e)' => Written(e)
<1>1. \A i, j \in 1 .. Len(file') : \A e \in Entries :
         file'[i] = Put(e) /\ file'[j] = Put(e) => i = j
  BY DEF Once
<1>2. \A e \in Entries : Written(e)' => Written(e)
  BY DEF Written, Put, Record
<1> QED BY <1>1, <1>2

\* Steps outside the journal that settle nothing.
LEMMA SettledQuiet ==
    ASSUME IInv, SInv,
           UNCHANGED <<file, onDisk, channel, written, durable, epoch, unforced, queue, settled>>,
           Up' = Up, mark'[Drain] = mark[Drain],
           \A e \in Entries : pc[e] # "new" => pc'[e] # "new",
           pc'[Drain] \in {"check", "forcing"} => pc[Drain] \in {"check", "forcing"},
           pc[Drain] = "callback" => pc'[Drain] = "callback"
    PROVE  SInv'
<1>1. \A e \in Entries : InQueue(e)' = InQueue(e) /\ Waits(e)' = Waits(e)
  BY DEF InQueue, Waits
<1>2. \A e \in Entries : Written(e)' = Written(e) /\ DoneSafe(e)' = DoneSafe(e)
  BY DEF Written, DoneSafe, Put, Done, Record
<1>3. Once'
  BY <1>1, <1>2 DEF SInv, Once, Put, Record
<1>4. DoneMark'
  BY DEF SInv, DoneMark, Done, Record
<1>5. SettledSafe'
  <2>1. settled \subseteq Entries
    BY DEF IInv, TypeOK
  <2> QED BY <1>1, <1>2, <2>1 DEF SInv, SettledSafe
<1> QED BY <1>3, <1>4, <1>5 DEF SInv

\* The steps of the drain thread outside the journal, of the server, of a
\* failed enqueue, and of close.
LEMMA DrainSettled ==
    ASSUME IInv, SInv,
           \/ Take \/ Answered \/ Retry \/ Paused \/ DrainEnds \/ Bury \/ BuryFails \/ RecordFails
           \/ \E e \in Entries : Serve(e) \/ EnqueueFails(e)
           \/ Close \/ Stop
    PROVE  SInv'
<1>0. /\ Drain \in Threads /\ Drain \notin Entries /\ Entries \subseteq Threads
      /\ pc \in [Threads -> {"new", "check", "forcing", "accepted", "failed",
           "lost", "idle", "flight", "bury", "record", "callback", "pause", "ended"}]
  BY QueueAssumption DEF Threads, IInv, TypeOK
<1>1. UNCHANGED <<file, onDisk, channel, written, durable, epoch, unforced, queue, settled, mark>>
      /\ Up' = Up
  BY DEF Take, Answered, Retry, Paused, DrainEnds, Bury, BuryFails, RecordFails, Serve,
         EnqueueFails, Close, Stop, DrainKeeps, journalVars, historyVars, Up
<1>2. /\ \A e \in Entries : pc[e] # "new" => pc'[e] # "new"
      /\ pc'[Drain] \in {"check", "forcing"} => pc[Drain] \in {"check", "forcing"}
      /\ pc[Drain] = "callback" => pc'[Drain] = "callback"
  <2>1. CASE Take \/ Answered \/ Retry \/ Paused
    BY <1>0, <2>1 DEF Take, Answered, Retry, Paused, Goto
  <2>2. CASE DrainEnds \/ Bury \/ BuryFails \/ RecordFails
    BY <1>0, <2>2 DEF DrainEnds, Bury, BuryFails, RecordFails, Goto
  <2>3. ASSUME NEW e \in Entries, Serve(e) \/ EnqueueFails(e)
        PROVE  <1>2!1 /\ <1>2!2 /\ <1>2!3
    BY <1>0, <2>3 DEF Serve, EnqueueFails, Goto
  <2>4. CASE Close \/ Stop
    BY <2>4 DEF Close, Stop
  <2> QED BY <2>1, <2>2, <2>3, <2>4
<1> QED BY <1>1, <1>2, SettledQuiet

\* A thread looks whether its record is forced: a refusal is settled.
LEMMA CheckSettled ==
    ASSUME IInv, SInv, NEW w \in Threads, CheckForce(w)
    PROVE  SInv'
<1>0. /\ Drain \in Threads /\ Drain \notin Entries /\ Entries \subseteq Threads
      /\ pc \in [Threads -> {"new", "check", "forcing", "accepted", "failed",
           "lost", "idle", "flight", "bury", "record", "callback", "pause", "ended"}]
      /\ pc[w] = "check"
  BY QueueAssumption DEF Threads, IInv, TypeOK, CheckForce
<1>1. UNCHANGED <<file, onDisk, channel, written, durable, epoch, unforced, queue, mark>>
      /\ Up' = Up
  BY DEF CheckForce, journalVars, Up
<1>2. /\ \A e \in Entries : pc[e] # "new" => pc'[e] # "new"
      /\ pc'[Drain] \in {"check", "forcing"} => pc[Drain] \in {"check", "forcing"}
      /\ pc[Drain] = "callback" => pc'[Drain] = "callback"
  BY <1>0 DEF CheckForce, Return, StartForce, Goto
<1>3. CASE settled' = settled
  BY <1>1, <1>2, <1>3, SettledQuiet
<1>4. CASE settled' # settled
  <2>1. /\ w = Drain /\ pc'[Drain] = "callback" /\ settled' = settled \cup {Head(queue)}
        /\ epoch = mark[Drain].epoch /\ durable >= mark[Drain].end
    BY <1>0, <1>4 DEF CheckForce, Return, StartForce, Goto
  <2>2. queue # << >> /\ Head(queue) \in Entries /\ queue \in Seq(Entries)
    BY <1>0, <2>1, HeadType DEF IInv, TypeOK
  <2>3. InQueue(Head(queue))
    <3>1. 1 \in 1 .. Len(queue) /\ Head(queue) = queue[1]
      BY <2>2
    <3> QED BY <3>1 DEF InQueue
  <2>4. DoneSafe(Head(queue))
    <3>1. /\ mark[Drain].end \in 1 .. written /\ file[mark[Drain].end] = Done(Head(queue))
          /\ mark[Drain].end <= durable => mark[Drain].end <= onDisk
      BY <1>0, <2>1 DEF SInv, DoneMark
    <3>2. durable \in Nat /\ onDisk \in Nat /\ written \in Nat
      BY DEF IInv, TypeOK
    <3>3. mark[Drain].end \in 1 .. onDisk /\ mark[Drain].end <= durable
      BY <2>1, <3>1, <3>2
    <3> QED BY <3>1, <3>3 DEF DoneSafe
  <2>5. \A e \in Entries : InQueue(e)' = InQueue(e) /\ Waits(e)' = Waits(e)
    BY <1>1 DEF InQueue, Waits
  <2>6. \A e \in Entries : Written(e)' = Written(e) /\ DoneSafe(e)' = DoneSafe(e)
    BY <1>1 DEF Written, DoneSafe, Put, Done, Record
  <2>7. Once'
    BY <1>1, <1>2, <2>5, <2>6 DEF SInv, Once, Put, Record
  <2>8. DoneMark'
    BY <2>1 DEF DoneMark
  <2>9. SettledSafe'
    <3>1. pc[Head(queue)] # "new" /\ ~ Waits(Head(queue))
      BY <2>2, <2>3 DEF SInv, Once
    <3>2. settled \subseteq Entries /\ pc[Drain] # "callback"
      BY <1>0, <2>1 DEF IInv, TypeOK
    <3> QED BY <1>1, <1>2, <2>1, <2>2, <2>4, <2>5, <2>6, <3>1, <3>2 DEF SInv, SettledSafe
  <2> QED BY <2>7, <2>8, <2>9 DEF SInv
<1> QED BY <1>3, <1>4

\* A record at the end of the journal settles nothing.
LEMMA WriteSettled ==
    ASSUME IInv, SInv, TypeOK', NEW r \in Records, Write(r),
           UNCHANGED <<epoch, queue, life, settled>>
    PROVE  /\ Len(file) \in Nat /\ Len(file') = Len(file) + 1
           /\ written = Len(file) /\ written' = Len(file) + 1
           /\ file'[Len(file) + 1] = r
           /\ \A i \in 1 .. Len(file) : file'[i] = file[i]
           /\ \A e \in Entries : Written(e)' => Written(e) \/ r = Put(e)
           /\ \A e \in Entries : InQueue(e)' = InQueue(e)
           /\ \A e \in Entries : DoneSafe(e) => DoneSafe(e)'
           /\ (\A e \in Entries : r = Put(e) => ~ Written(e)) =>
                 \A i, j \in 1 .. Len(file') : \A e \in Entries :
                    file'[i] = Put(e) /\ file'[j] = Put(e) => i = j
<1>1. /\ file \in Seq(Records) /\ Len(file) \in Nat /\ onDisk \in 0 .. Len(file)
      /\ durable \in Nat
  BY DEF IInv, TypeOK, Records
<1>2. channel /\ file' = Append(file, r) /\ written' = written + 1
      /\ UNCHANGED <<onDisk, channel, durable>> /\ Up' = Up
  BY DEF Write, Up
<1>3. written = Len(file)
  BY <1>2 DEF IInv, Lengths
<1>4. /\ Len(file') = Len(file) + 1 /\ file'[Len(file) + 1] = r
      /\ \A i \in 1 .. Len(file) : file'[i] = file[i]
  BY <1>1, <1>2, AppendProperties
<1>5. \A i \in 1 .. Len(file') : i = Len(file) + 1 \/ i \in 1 .. Len(file)
  BY <1>1, <1>4
<1>6. ASSUME NEW e \in Entries, Written(e)'
      PROVE  Written(e) \/ r = Put(e)
  BY <1>4, <1>5, <1>6 DEF Written, Put, Record
<1>7. ASSUME NEW e \in Entries, DoneSafe(e)
      PROVE  DoneSafe(e)'
  <2>1. \A i \in 1 .. onDisk : i <= onDisk' /\ file'[i] = file[i]
    BY <1>1, <1>2, <1>4
  <2>2. TypeOK /\ (Up' => Up) /\ (Up' /\ channel' => channel /\ durable <= durable')
    BY <1>1, <1>2 DEF IInv
  <2> QED BY <1>7, <2>1, <2>2, DoneStays
<1>8. ASSUME \A e \in Entries : r = Put(e) => ~ Written(e),
             NEW i \in 1 .. Len(file'), NEW j \in 1 .. Len(file'), NEW e \in Entries,
             file'[i] = Put(e), file'[j] = Put(e)
      PROVE  i = j
  <2>1. CASE i \in 1 .. Len(file) /\ j \in 1 .. Len(file)
    BY <1>4, <1>8, <2>1 DEF SInv, Once
  <2>2. CASE i = Len(file) + 1 /\ j = Len(file) + 1
    BY <2>2
  <2>3. CASE i = Len(file) + 1 /\ j \in 1 .. Len(file)
    BY <1>4, <1>8, <2>3 DEF Written
  <2>4. CASE i \in 1 .. Len(file) /\ j = Len(file) + 1
    BY <1>4, <1>8, <2>4 DEF Written
  <2> QED BY <1>5, <2>1, <2>2, <2>3, <2>4
<1>9. \A e \in Entries : InQueue(e)' = InQueue(e)
  BY DEF InQueue
<1> QED BY <1>1, <1>2, <1>3, <1>4, <1>6, <1>7, <1>8, <1>9

\* enqueue puts a new entry.
LEMMA EnqueueSettled ==
    ASSUME IInv, SInv, TypeOK', NEW e \in Entries, Enqueue(e)
    PROVE  SInv'
<1>1. /\ UNCHANGED <<epoch, queue, life, settled, onDisk, durable, channel>>
      /\ Put(e) \in Records /\ Write(Put(e)) /\ pc[e] = "new"
      /\ unforced' = Append(unforced, [entry |-> e, end |-> written'])
  BY RecordTypes DEF Enqueue, Write
<1>2. /\ Drain \in Threads /\ e # Drain /\ Entries \subseteq Threads
      /\ pc'[Drain] = pc[Drain] /\ mark'[Drain] = mark[Drain]
      /\ \A d \in Entries : pc'[d] = IF d = e THEN "check" ELSE pc[d]
  BY QueueAssumption DEF Enqueue, Goto, Threads, IInv, TypeOK
<1>3. ~ Written(e) /\ ~ InQueue(e) /\ e \notin settled
  BY <1>1 DEF SInv, Once, SettledSafe
<1>4. \A d \in Entries : Put(e) = Put(d) => d = e
  BY DEF Put, Record
<1>5. /\ Len(file) \in Nat /\ Len(file') = Len(file) + 1
      /\ written = Len(file) /\ written' = Len(file) + 1
      /\ \A i \in 1 .. Len(file) : file'[i] = file[i]
      /\ \A d \in Entries : Written(d)' => Written(d) \/ Put(e) = Put(d)
      /\ \A d \in Entries : InQueue(d)' = InQueue(d)
      /\ \A d \in Entries : DoneSafe(d) => DoneSafe(d)'
  BY <1>1, WriteSettled
<1>6. \A i, j \in 1 .. Len(file') : \A d \in Entries :
         file'[i] = Put(d) /\ file'[j] = Put(d) => i = j
  <2>1. \A d \in Entries : Put(e) = Put(d) => ~ Written(d)
    BY <1>3, <1>4
  <2> QED BY <1>1, <2>1, WriteSettled
<1>7. \A d \in Entries : Waits(d)' => Waits(d) \/ d = e
  <2> DEFINE u == [entry |-> e, end |-> written']
  <2>1. unforced \in Seq([entry : Entries, end : Nat]) /\ u \in [entry : Entries, end : Nat]
        /\ unforced' = Append(unforced, u) /\ u.entry = e /\ Len(unforced) \in Nat
    BY <1>1 DEF IInv, TypeOK
  <2> HIDE DEF u
  <2>2. /\ Len(unforced') = Len(unforced) + 1 /\ unforced'[Len(unforced) + 1] = u
        /\ \A k \in 1 .. Len(unforced) : unforced'[k] = unforced[k]
    BY <2>1, AppendProperties
  <2>3. ASSUME NEW k \in 1 .. Len(unforced')
        PROVE  unforced'[k].entry = e \/ (k \in 1 .. Len(unforced) /\ unforced'[k] = unforced[k])
    BY <2>1, <2>2
  <2> QED BY <2>3 DEF Waits
<1>8. Once'
  <2>1. \A i, j \in 1 .. Len(queue') : queue'[i] = queue'[j] => i = j
    BY <1>1 DEF SInv, Once
  <2>2. \A d \in Entries : Written(d)' \/ InQueue(d)' => pc'[d] # "new"
    BY <1>2, <1>4, <1>5 DEF SInv, Once
  <2>3. \A d \in Entries : InQueue(d)' => ~ Waits(d)'
    BY <1>3, <1>5, <1>7 DEF SInv, Once
  <2> QED BY <1>6, <2>1, <2>2, <2>3 DEF Once, Put, Record
<1>9. DoneMark'
  <2>1. mark[Drain].end \in 1 .. written =>
           mark[Drain].end \in 1 .. written' /\ file'[mark[Drain].end] = file[mark[Drain].end]
    BY <1>5
  <2> QED BY <1>1, <1>2, <2>1 DEF SInv, DoneMark, Done, Record
<1>10. SettledSafe'
  <2>1. settled \subseteq Entries
    BY DEF IInv, TypeOK
  <2> QED BY <1>1, <1>2, <1>3, <1>4, <1>5, <1>7, <2>1 DEF SInv, SettledSafe
<1> QED BY <1>8, <1>9, <1>10 DEF SInv

\* The drain thread writes the done record of the head.
LEMMA RecordSettled ==
    ASSUME IInv, SInv, TypeOK', RecordDone
    PROVE  SInv'
<1>1. /\ UNCHANGED <<epoch, queue, life, settled, onDisk, durable, channel, unforced>>
      /\ Done(Head(queue)) \in Records /\ Write(Done(Head(queue)))
      /\ channel /\ pc[Drain] = "record"
  BY HeadType, RecordTypes DEF RecordDone, Write, historyVars, IInv
<1>2. /\ Drain \in Threads /\ Drain \notin Entries /\ Entries \subseteq Threads
      /\ \A d \in Entries : pc'[d] = pc[d]
      /\ pc'[Drain] # "forcing"
      /\ pc'[Drain] = "check" => mark'[Drain] = [end |-> written', epoch |-> epoch]
  BY QueueAssumption DEF RecordDone, Goto, Threads, IInv, TypeOK
<1>3. \A d \in Entries : Done(Head(queue)) # Put(d)
  BY DEF Done, Put, Record
<1>4. /\ Len(file) \in Nat /\ Len(file') = Len(file) + 1
      /\ written = Len(file) /\ written' = Len(file) + 1
      /\ file'[Len(file) + 1] = Done(Head(queue))
      /\ \A d \in Entries : Written(d)' => Written(d)
      /\ \A d \in Entries : InQueue(d)' = InQueue(d)
      /\ \A d \in Entries : DoneSafe(d) => DoneSafe(d)'
      /\ \A i, j \in 1 .. Len(file') : \A d \in Entries :
            file'[i] = Put(d) /\ file'[j] = Put(d) => i = j
  BY <1>1, <1>3, WriteSettled
<1>5. \A d \in Entries : Waits(d)' = Waits(d)
  BY <1>1 DEF Waits
<1>6. Once'
  BY <1>1, <1>2, <1>4, <1>5 DEF SInv, Once, Put, Record
<1>7. DoneMark'
  <2>1. CASE pc'[Drain] = "check"
    <3>1. mark'[Drain].end = Len(file) + 1 /\ mark'[Drain].epoch = epoch /\ epoch \in Nat
      BY <1>2, <1>4, <2>1 DEF IInv, TypeOK
    <3>2. durable <= Len(file) /\ durable \in Nat
      BY <1>1, <1>4 DEF IInv, Lengths, TypeOK
    <3>3. ~ (mark'[Drain].end <= durable')
      BY <1>1, <1>4, <3>1, <3>2
    <3> QED BY <1>1, <1>4, <3>1, <3>3 DEF DoneMark, Done, Record
  <2>2. CASE pc'[Drain] # "check"
    BY <1>2, <2>2 DEF DoneMark
  <2> QED BY <2>1, <2>2
<1>8. SettledSafe'
  <2>1. settled \subseteq Entries
    BY DEF IInv, TypeOK
  <2> QED BY <1>1, <1>2, <1>4, <1>5, <2>1 DEF SInv, SettledSafe
<1> QED BY <1>6, <1>7, <1>8 DEF SInv

\* A force ends, and what it covered is queued once.
LEMMA ForceDoneSettled ==
    ASSUME IInv, SInv, TypeOK', NEW w \in Threads, ForceDone(w)
    PROVE  SInv'
<1>1. /\ UNCHANGED <<file, channel, written, epoch, mark, settled>> /\ Up' = Up
      /\ durable' = target /\ onDisk' = IF target > onDisk THEN target ELSE onDisk
      /\ pc[w] = "forcing" /\ channel
  BY DEF ForceDone, historyVars, Up
<1>2. /\ Drain \in Threads /\ Drain \notin Entries /\ Entries \subseteq Threads
      /\ \A v \in Threads : pc'[v] = IF v = w THEN "check" ELSE pc[v]
  BY QueueAssumption DEF ForceDone, Goto, IInv, TypeOK, Threads
<1>3. /\ durable \in Nat /\ target \in Nat /\ onDisk \in Nat
      /\ Len(unforced) \in Nat /\ Len(queue) \in Nat /\ mark[Drain].end \in Nat
  <2>1. /\ durable \in Nat /\ target \in Nat /\ onDisk \in Nat
        /\ Len(unforced) \in Nat /\ Len(queue) \in Nat
    BY Lengthy DEF IInv
  <2>2. mark[Drain] \in [end : Nat, epoch : Nat]
    BY <1>2 DEF IInv, TypeOK
  <2> QED BY <2>1, <2>2
<1>4. PICK n \in 0 .. Len(unforced) :
         /\ Covered(n)
         /\ queue' = queue \o [i \in 1 .. n |-> unforced[i].entry]
         /\ unforced' = SubSeq(unforced, n + 1, Len(unforced))
  BY DEF ForceDone
<1>5. /\ n \in Nat /\ n <= Len(unforced)
      /\ Len(unforced') = Len(unforced) - n
      /\ \A k \in 1 .. Len(unforced) - n : unforced'[k] = unforced[n + k]
      /\ Len(queue') = Len(queue) + n
      /\ \A i \in 1 .. Len(queue) : queue'[i] = queue[i]
      /\ \A i \in 1 .. n : queue'[Len(queue) + i] = unforced[i].entry
      /\ queue # << >> => Head(queue') = Head(queue)
  <2>1. n \in Nat /\ n <= Len(unforced)
    BY <1>3
  <2> QED BY <1>4, <2>1, CoveredMoves DEF IInv
<1>6. /\ \A k \in 1 .. Len(unforced) : unforced[k].entry \in Entries
      /\ \A j, k \in 1 .. Len(unforced) :
            unforced[j].entry = unforced[k].entry => j = k
  BY UnforcedOnce
<1>7. ASSUME NEW i \in 1 .. Len(queue')
      PROVE  \/ i \in 1 .. Len(queue) /\ queue'[i] = queue[i]
             \/ /\ i > Len(queue) /\ i - Len(queue) \in 1 .. n
                /\ i - Len(queue) \in 1 .. Len(unforced)
                /\ queue'[i] = unforced[i - Len(queue)].entry
  <2>1. CASE i <= Len(queue)
    BY <1>3, <1>5, <2>1
  <2>2. CASE i > Len(queue)
    <3>1. i - Len(queue) \in 1 .. n /\ Len(queue) + (i - Len(queue)) = i
      BY <1>3, <1>5, <2>2
    <3> QED BY <1>3, <1>5, <2>2, <3>1
  <2> QED BY <1>3, <2>1, <2>2
<1>8. ASSUME NEW k \in 1 .. Len(unforced')
      PROVE  n + k \in 1 .. Len(unforced) /\ n + k > n /\ unforced'[k] = unforced[n + k]
  BY <1>3, <1>5
<1>9. ASSUME NEW i \in 1 .. Len(queue), NEW k \in 1 .. Len(unforced)
      PROVE  queue[i] # unforced[k].entry
  <2>1. ASSUME queue[i] = unforced[k].entry PROVE FALSE
    <3>1. InQueue(unforced[k].entry) /\ Waits(unforced[k].entry)
      BY <2>1 DEF InQueue, Waits
    <3> QED BY <1>6, <3>1 DEF SInv, Once
  <2> QED BY <2>1
<1>10. ASSUME NEW e \in Entries, Waits(e)'
       PROVE  Waits(e) /\ ~ InQueue(e)'
  <2>1. PICK k \in 1 .. Len(unforced') : unforced'[k].entry = e
    BY <1>10 DEF Waits
  <2>2. n + k \in 1 .. Len(unforced) /\ n + k > n /\ unforced[n + k].entry = e
    BY <1>8, <2>1
  <2>3. ASSUME NEW i \in 1 .. Len(queue'), queue'[i] = e
        PROVE  FALSE
    <3>1. CASE i \in 1 .. Len(queue) /\ queue'[i] = queue[i]
      BY <1>9, <2>2, <2>3, <3>1
    <3>2. CASE /\ i - Len(queue) \in 1 .. n /\ i - Len(queue) \in 1 .. Len(unforced)
               /\ queue'[i] = unforced[i - Len(queue)].entry
      <4>1. i - Len(queue) = n + k
        BY <1>6, <2>2, <2>3, <3>2
      <4> QED BY <1>5, <2>2, <3>2, <4>1
    <3> QED BY <1>7, <3>1, <3>2
  <2> QED BY <2>2, <2>3 DEF Waits, InQueue
<1>11. ASSUME NEW e \in Entries, InQueue(e)'
       PROVE  InQueue(e) \/ Waits(e)
  <2>1. PICK i \in 1 .. Len(queue') : queue'[i] = e
    BY <1>11 DEF InQueue
  <2> QED BY <1>7, <2>1 DEF InQueue, Waits
<1>12. \A e \in Entries : Waits(e) => pc[e] # "new"
  BY DEF IInv, Unforced, Waits
<1>13. Once'
  <2>1. ASSUME NEW i \in 1 .. Len(queue'), NEW j \in 1 .. Len(queue'), queue'[i] = queue'[j]
        PROVE  i = j
    <3>1. CASE i \in 1 .. Len(queue) /\ j \in 1 .. Len(queue)
      <4>1. queue[i] = queue[j]
        BY <1>5, <2>1, <3>1
      <4> QED BY <3>1, <4>1 DEF SInv, Once
    <3>2. CASE i \in 1 .. Len(queue) /\ j > Len(queue)
      <4>1. j - Len(queue) \in 1 .. Len(unforced) /\ queue'[j] = unforced[j - Len(queue)].entry
        BY <1>3, <1>7, <3>2
      <4> QED BY <1>5, <1>9, <2>1, <3>2, <4>1
    <3>3. CASE i > Len(queue) /\ j \in 1 .. Len(queue)
      BY <1>3, <1>5, <1>7, <1>9, <2>1, <3>3
    <3>4. CASE i > Len(queue) /\ j > Len(queue)
      <4>1. i - Len(queue) \in 1 .. Len(unforced) /\ queue'[i] = unforced[i - Len(queue)].entry
        BY <1>3, <1>7, <3>4
      <4>2. j - Len(queue) \in 1 .. Len(unforced) /\ queue'[j] = unforced[j - Len(queue)].entry
        BY <1>3, <1>7, <3>4
      <4>3. i - Len(queue) = j - Len(queue)
        BY <1>6, <2>1, <4>1, <4>2
      <4> QED BY <1>3, <1>5, <4>3
    <3> QED BY <1>7, <3>1, <3>2, <3>3, <3>4
  <2>2. \A e \in Entries : Written(e)' => Written(e)
    BY <1>1 DEF Written, Put, Record
  <2>3. \A e \in Entries : Written(e)' \/ InQueue(e)' => pc'[e] # "new"
    <3>1. \A e \in Entries : pc[e] # "new" => pc'[e] # "new"
      BY <1>2
    <3> QED BY <1>11, <1>12, <2>2, <3>1 DEF SInv, Once
  <2>4. \A e \in Entries : InQueue(e)' => ~ Waits(e)'
    BY <1>10
  <2>5. \A i, j \in 1 .. Len(file') : \A e \in Entries :
           file'[i] = Put(e) /\ file'[j] = Put(e) => i = j
    BY <1>1 DEF SInv, Once
  <2> QED BY <2>1, <2>3, <2>4, <2>5 DEF Once, Put, Record
<1>14. DoneMark'
  <2>1. ASSUME pc'[Drain] \in {"check", "forcing"}
        PROVE  pc[Drain] \in {"check", "forcing"} /\ Head(queue') = Head(queue)
    <3>1. pc[Drain] \in {"check", "forcing"}
      BY <1>1, <1>2, <2>1
    <3> QED BY <1>5, <3>1 DEF IInv, Drains
  <2>2. mark[Drain].end <= durable' => mark[Drain].end <= onDisk'
    BY <1>1, <1>3
  <2> QED BY <1>1, <2>1, <2>2 DEF SInv, DoneMark, Done, Record
<1>15. SettledSafe'
  <2>1. settled \subseteq Entries
    BY DEF IInv, TypeOK
  <2>2. ASSUME NEW e \in Entries, DoneSafe(e)
        PROVE  DoneSafe(e)'
    <3>1. \A i \in 1 .. onDisk : i <= onDisk' /\ file'[i] = file[i]
      BY <1>1, <1>3
    <3>2. durable <= durable' /\ channel
      BY <1>1 DEF IInv, OneForce
    <3>3. TypeOK /\ (Up' => Up) /\ (Up' /\ channel' => channel /\ durable <= durable')
      BY <1>1, <3>2 DEF IInv
    <3> QED BY <2>2, <3>1, <3>3, DoneStays
  <2>3. \A e \in Entries : Written(e)' => Written(e)
    BY <1>1 DEF Written, Put, Record
  <2>4. pc[Drain] = "callback" => pc'[Drain] = "callback" /\ Head(queue') = Head(queue)
    BY <1>1, <1>2, <1>5 DEF IInv, Drains
  <2>5. \A e \in Entries : pc[e] # "new" => pc'[e] # "new"
    BY <1>2
  <2> QED BY <1>1, <1>10, <1>11, <2>1, <2>2, <2>3, <2>4, <2>5 DEF SInv, SettledSafe
<1> QED BY <1>13, <1>14, <1>15 DEF SInv

\* A force fails: what no force covered is cut off.
LEMMA ForceFailsSettled ==
    ASSUME IInv, SInv, TypeOK', NEW w \in Threads, ForceFails(w)
    PROVE  SInv'
<1>1. /\ UNCHANGED <<channel, durable, queue, life, settled, mark>>
      /\ Up' = Up /\ unforced' = << >> /\ pc[w] = "forcing" /\ epoch' = epoch + 1
      /\ \/ channel /\ file' = SubSeq(file, 1, durable) /\ onDisk' = durable
         \/ ~ channel /\ UNCHANGED <<file, onDisk>>
  BY DEF ForceFails, historyVars, Up
<1>2. /\ durable \in Nat /\ onDisk \in Nat /\ Len(file) \in Nat /\ file \in Seq(Records)
      /\ channel => Up /\ durable <= Len(file)
  <2>1. durable \in Nat /\ onDisk \in Nat /\ file \in Seq(Records) /\ Len(file) \in Nat
    BY DEF IInv, TypeOK, Records
  <2>2. channel => Up /\ durable <= Len(file)
    BY DEF IInv, Lengths
  <2> QED BY <2>1, <2>2
<1>3. channel => /\ Len(file') = durable
                 /\ \A i \in 1 .. durable : file'[i] = file[i] /\ i \in 1 .. Len(file)
  BY <1>1, <1>2
<1>4. /\ Drain \in Threads /\ Drain \notin Entries /\ Entries \subseteq Threads
      /\ \A v \in Threads : pc'[v] = IF v = w THEN "check" ELSE pc[v]
  BY QueueAssumption DEF ForceFails, Goto, IInv, TypeOK, Threads
<1>5. ASSUME NEW i \in 1 .. Len(file'), NEW e \in Entries, file'[i] = Put(e)
      PROVE  i \in 1 .. Len(file) /\ file[i] = Put(e)
  BY <1>1, <1>3, <1>5
<1>6. /\ \A i, j \in 1 .. Len(file') : \A e \in Entries :
            file'[i] = Put(e) /\ file'[j] = Put(e) => i = j
      /\ \A e \in Entries : Written(e)' => Written(e)
  BY <1>5, PutsOnce DEF SInv
<1>7. \A e \in Entries : InQueue(e)' = InQueue(e) /\ ~ Waits(e)'
  <2>1. Len(unforced') = 0
    BY <1>1
  <2> QED BY <1>1, <2>1 DEF InQueue, Waits
<1>8. Once'
  BY <1>1, <1>4, <1>6, <1>7 DEF SInv, Once, Put, Record
<1>9. DoneMark'
  <2>1. pc'[Drain] \in {"check", "forcing"} =>
           channel /\ mark[Drain].epoch <= epoch
    BY <1>1, <1>4 DEF SInv, DoneMark
  <2>2. mark[Drain].epoch \in Nat /\ epoch \in Nat
    <3>1. mark[Drain] \in [end : Nat, epoch : Nat]
      BY <1>4 DEF IInv, TypeOK
    <3> QED BY <3>1 DEF IInv, TypeOK
  <2>3. mark[Drain].epoch <= epoch => mark[Drain].epoch <= epoch' /\ mark[Drain].epoch # epoch'
    BY <1>1, <2>2
  <2> QED BY <1>1, <2>1, <2>3 DEF DoneMark
<1>10. SettledSafe'
  <2>1. settled \subseteq Entries
    BY DEF IInv, TypeOK
  <2>2. ASSUME NEW e \in Entries, DoneSafe(e)
        PROVE  DoneSafe(e)'
    <3>1. \A i \in 1 .. onDisk :
             (Up /\ channel => i <= durable) => i <= onDisk' /\ file'[i] = file[i]
      BY <1>1, <1>2, <1>3
    <3>2. TypeOK /\ (Up' => Up) /\ (Up' /\ channel' => channel /\ durable <= durable')
      BY <1>1, <1>2 DEF IInv
    <3> QED BY <2>2, <3>1, <3>2, DoneStays
  <2>3. pc[Drain] = "callback" => pc'[Drain] = "callback"
    BY <1>1, <1>4
  <2>4. \A e \in Entries : pc[e] # "new" => pc'[e] # "new"
    BY <1>4
  <2> QED BY <1>1, <1>6, <1>7, <2>1, <2>2, <2>3, <2>4 DEF SInv, SettledSafe
<1> QED BY <1>8, <1>9, <1>10 DEF SInv

\* Closing the journal, and a crash, leave what is on disk.
LEMMA DownSettled ==
    ASSUME IInv, SInv, TypeOK', CloseChannel \/ Crash
    PROVE  SInv'
<1>1. /\ UNCHANGED settled
      /\ ~ Up' /\ unforced' = << >> /\ pc'[Drain] = "ended"
      /\ \A e \in Entries : pc[e] # "new" => pc'[e] # "new"
  <2>1. CASE CloseChannel
    BY <2>1 DEF CloseChannel, historyVars, Up
  <2>2. CASE Crash
    BY <2>2, QueueAssumption DEF Crash, AfterCrash, historyVars, Up, Threads, IInv, TypeOK
  <2> QED BY <2>1, <2>2
<1>2. /\ \A i \in 1 .. onDisk : i <= onDisk' /\ file'[i] = file[i]
      /\ \A i \in 1 .. Len(file') : \A e \in Entries :
            file'[i] = Put(e) => i \in 1 .. Len(file) /\ file[i] = Put(e)
      /\ (queue' = queue /\ pc[Drain] = "ended") \/ queue' = << >>
  <2>1. CASE CloseChannel
    <3>1. onDisk \in 0 .. Len(file) /\ Len(file) \in Nat
      BY DEF IInv, TypeOK
    <3> QED BY <2>1, <3>1 DEF CloseChannel
  <2>2. CASE Crash
    <3>1. /\ onDisk' = onDisk /\ onDisk \in Nat
          /\ \A i \in 1 .. onDisk : file'[i] = file[i]
          /\ \A i \in 1 .. Len(file') :
                file'[i] = Junk \/ (i \in 1 .. Len(file) /\ file'[i] = file[i])
                \/ file'[i] = Torn
      <4>1. onDisk \in Nat
        BY DEF IInv, TypeOK
      <4> QED BY <2>2, <4>1, CrashFile DEF IInv
    <3>2. \A e \in Entries : Put(e) # Junk /\ Put(e) # Torn
      BY DEF Put, Junk, Torn, Record
    <3>3. queue' = << >>
      BY <2>2 DEF Crash
    <3> QED BY <3>1, <3>2, <3>3
  <2> QED BY <2>1, <2>2
<1>3. /\ \A i, j \in 1 .. Len(file') : \A e \in Entries :
            file'[i] = Put(e) /\ file'[j] = Put(e) => i = j
      /\ \A e \in Entries : Written(e)' => Written(e)
  BY <1>2, PutsOnce DEF SInv
<1>4. \A e \in Entries : (InQueue(e)' => InQueue(e) /\ pc[Drain] = "ended") /\ ~ Waits(e)'
  <2>1. Len(unforced') = 0
    BY <1>1
  <2>2. ASSUME NEW e \in Entries, InQueue(e)'
        PROVE  InQueue(e) /\ pc[Drain] = "ended"
    <3>1. queue' # << >>
      BY <2>2 DEF InQueue
    <3> QED BY <1>2, <2>2, <3>1 DEF InQueue
  <2> QED BY <2>1, <2>2 DEF Waits
<1>5. Once'
  <2>1. \A i, j \in 1 .. Len(queue') : queue'[i] = queue'[j] => i = j
    <3>1. CASE queue' = queue
      BY <3>1 DEF SInv, Once
    <3>2. CASE queue' = << >>
      <4>1. Len(queue') = 0
        BY <3>2
      <4> QED BY <4>1
    <3> QED BY <1>2, <3>1, <3>2
  <2>2. \A e \in Entries : Written(e)' \/ InQueue(e)' => pc'[e] # "new"
    BY <1>1, <1>3, <1>4 DEF SInv, Once
  <2> QED BY <1>3, <1>4, <2>1, <2>2 DEF Once, Put, Record
<1>6. DoneMark'
  BY <1>1 DEF DoneMark
<1>7. SettledSafe'
  <2>1. settled \subseteq Entries
    BY DEF IInv, TypeOK
  <2>2. ASSUME NEW e \in Entries, DoneSafe(e)
        PROVE  DoneSafe(e)'
    BY <1>1, <1>2, <2>2, DoneStays DEF IInv
  <2> QED BY <1>1, <1>3, <1>4, <2>1, <2>2 DEF SInv, SettledSafe
<1> QED BY <1>5, <1>6, <1>7 DEF SInv

\* A journal rewritten from a queue holds each entry once, or is the old one.
LEMMA RewriteSettled ==
    ASSUME IInv, SInv, TypeOK', NEW q \in Seq(Entries),
           Rewrite(q) \/ ReopenFails(q),
           \A i, j \in 1 .. Len(q) : q[i] = q[j] => i = j
    PROVE  /\ \A i, j \in 1 .. Len(file') : \A e \in Entries :
                 file'[i] = Put(e) /\ file'[j] = Put(e) => i = j
           /\ \A e \in Entries :
                 Written(e)' => Written(e) \/ \E k \in 1 .. Len(q) : q[k] = e
           /\ \A e \in Entries :
                 DoneSafe(e) => DoneSafe(e)' \/ (Written(e)' => \E k \in 1 .. Len(q) : q[k] = e)
<1> DEFINE puts == [i \in 1 .. Len(q) |-> Put(q[i])]
<1>1. /\ Len(puts) = Len(q) /\ Len(q) \in Nat
      /\ \A i \in 1 .. Len(q) : puts[i] = Put(q[i])
  BY PutsType
<1>2. \/ file' = puts
      \/ file' = file /\ onDisk' \in {onDisk, Len(file)} /\ channel' /\ durable' = Len(file)
  BY DEF Rewrite, ReopenFails
<1> HIDE DEF puts
<1>3. \A d, e : Put(d) = Put(e) => d = e
  BY DEF Put, Record
<1>4. CASE file' = puts
  <2>1. \A i \in 1 .. Len(file') : \A e \in Entries :
           file'[i] = Put(e) => i \in 1 .. Len(q) /\ q[i] = e
    BY <1>1, <1>3, <1>4
  <2>2. \A e \in Entries : Written(e)' => \E k \in 1 .. Len(q) : q[k] = e
    BY <2>1 DEF Written, Put, Record
  <2> QED BY <2>1, <2>2
<1>5. CASE file' = file /\ onDisk' \in {onDisk, Len(file)} /\ channel' /\ durable' = Len(file)
  <2>1. Len(file) \in Nat /\ onDisk \in 0 .. Len(file)
    BY DEF IInv, TypeOK
  <2>2. \A e \in Entries : Written(e)' = Written(e)
    BY <1>5 DEF Written, Put, Record
  <2>3. ASSUME NEW e \in Entries, DoneSafe(e)
        PROVE  DoneSafe(e)'
    <3>1. PICK i \in 1 .. onDisk : file[i] = Done(e)
      BY <2>3 DEF DoneSafe
    <3>2. i \in 1 .. onDisk' /\ file'[i] = Done(e) /\ i <= durable'
      BY <1>5, <2>1, <3>1
    <3> QED BY <3>2 DEF DoneSafe, Done, Record
  <2> QED BY <1>5, <2>2, <2>3 DEF SInv, Once
<1> QED BY <1>2, <1>4, <1>5

\* A head that is settled leaves the queue for good.
LEMMA PollSettled ==
    ASSUME IInv, SInv, TypeOK', Poll
    PROVE  SInv'
<1>1. /\ queue # << >> /\ Head(queue) \in Entries /\ queue \in Seq(Entries)
      /\ queue' = Tail(queue) /\ queue' \in Seq(Entries)
  BY HeadType DEF Poll, IInv, TypeOK
<1>2. UNCHANGED <<unforced, life, settled>> /\ Up' = Up
  BY DEF Poll, historyVars, Up
<1>3. /\ Drain \in Threads /\ Drain \notin Entries /\ Entries \subseteq Threads
      /\ \A v \in Threads : pc'[v] = IF v = Drain THEN "idle" ELSE pc[v]
  BY QueueAssumption DEF Poll, Goto, IInv, TypeOK, Threads
<1>4. /\ Len(queue) \in Nat /\ Len(queue') = Len(queue) - 1 /\ queue[1] = Head(queue)
      /\ 1 \in 1 .. Len(queue)
      /\ \A i \in 1 .. Len(queue') : i + 1 \in 1 .. Len(queue) /\ queue'[i] = queue[i + 1]
  BY <1>1
<1>5. \A i, j \in 1 .. Len(queue') : queue'[i] = queue'[j] => i = j
  <2>1. ASSUME NEW i \in 1 .. Len(queue'), NEW j \in 1 .. Len(queue'), queue'[i] = queue'[j]
        PROVE  i = j
    <3>1. i + 1 = j + 1
      BY <1>4, <2>1 DEF SInv, Once
    <3> QED BY <1>4, <3>1
  <2> QED BY <2>1
<1>6. \A e \in Entries : InQueue(e)' => InQueue(e) /\ e # Head(queue)
  <2>1. ASSUME NEW e \in Entries, NEW i \in 1 .. Len(queue'), queue'[i] = e
        PROVE  InQueue(e) /\ e # Head(queue)
    <3>1. i + 1 \in 1 .. Len(queue) /\ queue[i + 1] = e /\ i + 1 # 1
      BY <1>4, <2>1
    <3>2. e # queue[1]
      BY <1>4, <3>1 DEF SInv, Once
    <3> QED BY <1>4, <3>1, <3>2 DEF InQueue
  <2> QED BY <2>1 DEF InQueue
<1>7. \A e \in Entries : Waits(e)' = Waits(e)
  BY <1>2 DEF Waits
<1>8. /\ \A i, j \in 1 .. Len(file') : \A e \in Entries :
            file'[i] = Put(e) /\ file'[j] = Put(e) => i = j
      /\ \A e \in Entries : Written(e)' => Written(e) \/ InQueue(e)'
      /\ \A e \in Entries : DoneSafe(e) => DoneSafe(e)' \/ (Written(e)' => InQueue(e)')
  <2>1. CASE CompactionDue
    <3> DEFINE q == queue'
    <3>1. q \in Seq(Entries) /\ (Rewrite(q) \/ ReopenFails(q))
          /\ \A i, j \in 1 .. Len(q) : q[i] = q[j] => i = j
      BY <1>1, <1>5, <2>1 DEF Poll
    <3>2. \A e \in Entries : InQueue(e)' <=> \E k \in 1 .. Len(q) : q[k] = e
      BY DEF InQueue
    <3> HIDE DEF q
    <3> QED BY <3>1, <3>2, RewriteSettled
  <2>2. CASE ~ CompactionDue
    <3>1. UNCHANGED <<file, onDisk, channel, written, durable>>
      BY <2>2 DEF Poll, journalVars
    <3> QED BY <1>2, <3>1 DEF SInv, Once, Written, DoneSafe, Put, Done, Record
  <2> QED BY <2>1, <2>2
<1>9. Once'
  <2>1. \A e \in Entries : Written(e)' \/ InQueue(e)' => pc'[e] # "new"
    BY <1>3, <1>6, <1>8 DEF SInv, Once
  <2>2. \A e \in Entries : InQueue(e)' => ~ Waits(e)'
    BY <1>6, <1>7 DEF SInv, Once
  <2> QED BY <1>5, <1>8, <2>1, <2>2 DEF Once, Put, Record
<1>10. DoneMark'
  BY <1>3 DEF DoneMark
<1>11. SettledSafe'
  <2>1. ASSUME NEW e \in settled
        PROVE  /\ pc'[e] # "new" /\ ~ Waits(e)' /\ ~ InQueue(e)'
               /\ DoneSafe(e)' \/ ~ Written(e)'
    <3>1. e \in Entries
      BY DEF IInv, TypeOK
    <3>2. /\ pc[e] # "new" /\ ~ Waits(e) /\ (InQueue(e) => Head(queue) = e)
          /\ DoneSafe(e) \/ ~ Written(e)
      BY DEF SInv, SettledSafe
    <3>3. ~ InQueue(e)'
      BY <1>6, <3>1, <3>2
    <3>4. DoneSafe(e)' \/ ~ Written(e)'
      BY <1>8, <3>1, <3>2, <3>3
    <3> QED BY <1>3, <1>7, <3>1, <3>2, <3>3, <3>4
  <2> QED BY <1>2, <2>1 DEF SettledSafe
<1> QED BY <1>9, <1>10, <1>11 DEF SInv

\* A queue that opens does not take up what is settled.
LEMMA OpenSettled ==
    ASSUME IInv, SInv, TypeOK', Open
    PROVE  SInv'
<1>1. PICK q \in Replays(file) : queue' = q /\ Rewrite(q)
  BY DEF Open
<1>2. q \in Seq(Entries) /\ IsReplay(q, file)
  BY ReplayType
<1>3. settled' = settled /\ unforced' = << >>
  BY DEF Open, historyVars
<1>4. /\ Drain \in Threads /\ Drain \notin Entries /\ Entries \subseteq Threads
      /\ \A v \in Threads : pc'[v] = IF v = Drain THEN "idle" ELSE pc[v]
  BY QueueAssumption DEF Open, Goto, IInv, TypeOK, Threads
<1>5. \A i \in 1 .. Len(q) : q[i] \in Entries /\ Has(file, Put(q[i])) /\ ~ Has(file, Done(q[i]))
  BY <1>2 DEF IsReplay, Pending
<1>6. \A i, j \in 1 .. Len(q) : q[i] = q[j] => i = j
  <2>1. ASSUME NEW i \in 1 .. Len(q), NEW j \in 1 .. Len(q), i < j, q[i] = q[j]
        PROVE  FALSE
    <3>1. Before(file, q[i], q[j])
      BY <1>2, <2>1 DEF IsReplay
    <3>2. PICK k, l \in 1 .. Len(file) : k < l /\ file[k] = Put(q[i]) /\ file[l] = Put(q[j])
      BY <3>1 DEF Before
    <3>3. k = l
      BY <1>5, <2>1, <3>2 DEF SInv, Once
    <3>4. Len(file) \in Nat
      BY DEF IInv, TypeOK
    <3> QED BY <3>2, <3>3, <3>4
  <2>2. Len(q) \in Nat
    BY <1>2
  <2>3. \A i, j \in 1 .. Len(q) : i = j \/ i < j \/ j < i
    BY <2>2
  <2> QED BY <2>1, <2>3
<1>7. /\ \A e \in Entries : InQueue(e)' <=> \E k \in 1 .. Len(q) : q[k] = e
      /\ \A e \in Entries : InQueue(e)' => Written(e) /\ ~ Has(file, Done(e))
      /\ \A e \in Entries : ~ Waits(e)'
  <2>1. \A e \in Entries : InQueue(e)' <=> \E k \in 1 .. Len(q) : q[k] = e
    BY <1>1 DEF InQueue
  <2>2. \A e \in Entries : Has(file, Put(e)) => Written(e)
    BY SafeHas DEF IInv
  <2>3. Len(unforced') = 0
    BY <1>3
  <2> QED BY <1>5, <2>1, <2>2, <2>3 DEF Waits
<1>8. /\ \A i, j \in 1 .. Len(file') : \A e \in Entries :
            file'[i] = Put(e) /\ file'[j] = Put(e) => i = j
      /\ \A e \in Entries : Written(e)' => Written(e) \/ InQueue(e)'
      /\ \A e \in Entries : DoneSafe(e) => DoneSafe(e)' \/ (Written(e)' => InQueue(e)')
  BY <1>1, <1>2, <1>6, <1>7, RewriteSettled
<1>9. Once'
  <2>1. \A e \in Entries : Written(e)' \/ InQueue(e)' => pc'[e] # "new"
    BY <1>4, <1>7, <1>8 DEF SInv, Once
  <2> QED BY <1>1, <1>6, <1>7, <1>8, <2>1 DEF Once, Put, Record
<1>10. DoneMark'
  BY <1>4 DEF DoneMark
<1>11. SettledSafe'
  <2>1. ASSUME NEW e \in settled
        PROVE  /\ pc'[e] # "new" /\ ~ Waits(e)' /\ ~ InQueue(e)'
               /\ DoneSafe(e)' \/ ~ Written(e)'
    <3>1. e \in Entries
      BY DEF IInv, TypeOK
    <3>2. pc[e] # "new" /\ (DoneSafe(e) \/ ~ Written(e))
      BY DEF SInv, SettledSafe
    <3>3. ~ InQueue(e)'
      BY <1>7, <3>1, <3>2, DoneHas DEF IInv
    <3>4. DoneSafe(e)' \/ ~ Written(e)'
      BY <1>8, <3>1, <3>2, <3>3
    <3> QED BY <1>4, <1>7, <3>1, <3>2, <3>3, <3>4
  <2> QED BY <1>3, <2>1 DEF SettledSafe
<1> QED BY <1>9, <1>10, <1>11 DEF SInv

\* Nothing is settled at first.
LEMMA InitSInv == Init => SInv
<1> SUFFICES ASSUME Init
             PROVE  SInv
  OBVIOUS
<1>1. Len(file) = 0 /\ Len(queue) = 0 /\ settled = {} /\ pc[Drain] = "ended"
  BY DEF Init, Threads
<1> QED BY <1>1 DEF SInv, Once, DoneMark, SettledSafe, Written, InQueue

\* Every step keeps what is settled.
LEMMA NextSInv ==
    ASSUME IInv, IInv', SInv, [Next]_vars
    PROVE  SInv'
<1>t. TypeOK'
  BY DEF IInv
<1>1. CASE \/ Take \/ Answered \/ Retry \/ Paused \/ DrainEnds \/ Bury \/ BuryFails \/ RecordFails
           \/ \E e \in Entries : Serve(e) \/ EnqueueFails(e)
           \/ Close \/ Stop
  BY <1>1, DrainSettled
<1>2. CASE \E w \in Threads : CheckForce(w)
  BY <1>2, CheckSettled
<1>3. CASE \E e \in Entries : Enqueue(e)
  BY <1>t, <1>3, EnqueueSettled
<1>4. CASE \E w \in Threads : ForceEnds(w)
  BY <1>t, <1>4, ForceDoneSettled, ForceFailsSettled DEF ForceEnds
<1>5. CASE RecordDone \/ Poll
  BY <1>t, <1>5, RecordSettled, PollSettled
<1>6. CASE CloseChannel \/ Crash \/ Open
  BY <1>t, <1>6, DownSettled, OpenSettled
<1>7. CASE UNCHANGED vars
  <2>1. /\ UNCHANGED <<file, onDisk, channel, written, durable, epoch, unforced, queue, settled>>
        /\ UNCHANGED <<pc, mark>> /\ Up' = Up
    BY <1>7 DEF vars, journalVars, historyVars, Up
  <2> QED BY <2>1, SettledQuiet
<1> QED BY <1>1, <1>2, <1>3, <1>4, <1>5, <1>6, <1>7 DEF Next, Draining

\* An entry that is settled is not dead-lettered.
LEMMA SettledStep ==
    IInv /\ SInv /\ [Next]_vars => [\A e \in settled : dead'[e] = dead[e]]_vars
<1> SUFFICES ASSUME IInv, SInv, Next, NEW e \in settled
             PROVE  dead'[e] = dead[e]
  BY DEF vars
<1>1. CASE Bury
  <2>1. /\ Head(queue) \in Entries /\ queue # << >> /\ queue \in Seq(Entries)
        /\ pc[Drain] = "bury"
        /\ dead' = [dead EXCEPT ![Head(queue)] = dead[Head(queue)] + 1]
    BY <1>1, HeadType DEF Bury, IInv, TypeOK
  <2>2. 1 \in 1 .. Len(queue) /\ Head(queue) = queue[1]
    BY <2>1
  <2>3. e # Head(queue)
    BY <2>1, <2>2 DEF SInv, SettledSafe, InQueue
  <2>4. dead \in [Entries -> Nat] /\ e \in Entries
    BY DEF IInv, TypeOK
  <2> QED BY <2>1, <2>3, <2>4
<1>2. CASE ~ Bury
  <2>1. dead' = dead
    BY <1>2
    DEF Next, Enqueue, EnqueueFails, Serve, CheckForce, ForceEnds, ForceDone, ForceFails,
        Draining, Take, Paused, DrainEnds, RecordDone, RecordFails, Poll, Answered, Retry,
        BuryFails, Close, Stop, CloseChannel, Crash, Open, historyVars
  <2> QED BY <2>1
<1> QED BY <1>1, <1>2

\* Once the done record of a refused entry was seen forced, the entry is never
\* dead-lettered again, whatever is rolled back, compacted, closed, opened or
\* crashes later ("forced, so a refused entry is not dead-lettered twice").
THEOREM SettledOnce ==
    ASSUME FileSystemKeeps
    PROVE  Spec => SettledForGood
<1>1. Spec => []IInv
  BY Reached
<1>2. IInv /\ IInv' /\ SInv /\ [Next]_vars => SInv'
  BY NextSInv
<1> QED BY <1>1, <1>2, InitSInv, SettledStep, PTL DEF Spec, SettledForGood

=============================================================================
