-------------------------- MODULE GameEventsProofs --------------------------
(***************************************************************************)
(* The game events, for any processes, writers, connections, filter and    *)
(* bounds: the inductive invariant of the whole stack.  First the server's *)
(* side, the log, feed and stream parts; then the feeds' reference counts  *)
(* and the subscriber's connection; and the theorems.                      *)
(***************************************************************************)
EXTENDS GameEvents, SequenceTheorems, FiniteSetTheorems, TLAPS

-----------------------------------------------------------------------------
(* Sequences of consecutive positions, as the feed's window is one.        *)

\* The entries of s are consecutive and the last of them is h.
IsRun(s, h) == \A i \in 1 .. Len(s) : s[i] + (Len(s) - i) = h

\* A sequence of positions is one of numbers.
LEMMA PositionSeq ==
    ASSUME NEW max \in Nat, NEW s \in Seq(1 .. max)
    PROVE  /\ s \in Seq(Nat) /\ Len(s) \in Nat
           /\ \A i \in 1 .. Len(s) : s[i] \in Nat /\ s[i] \in 1 .. max
<1>1. 1 .. max \subseteq Nat
  OBVIOUS
<1>2. s \in Seq(Nat)
  BY <1>1, SeqMonotonic
<1>3. \A i \in 1 .. Len(s) : s[i] \in 1 .. max
  BY ElementOfSeq
<1>. QED
  BY <1>1, <1>2, <1>3, LenProperties

\* A suffix of a sequence, entry by entry.
LEMMA SuffixEntries ==
    ASSUME NEW S, NEW s \in Seq(S), NEW m \in 1 .. Len(s) + 1
    PROVE  /\ SubSeq(s, m, Len(s)) \in Seq(S)
           /\ Len(SubSeq(s, m, Len(s))) = Len(s) - m + 1
           /\ \A i \in 1 .. Len(s) - m + 1 :
                 SubSeq(s, m, Len(s))[i] = s[m + i - 1] /\ m + i - 1 \in m .. Len(s)
<1>1. Len(s) \in Nat /\ m \in Int
  BY LenProperties
<1>2. \A i \in m .. Len(s) : s[i] \in S
  BY <1>1, ElementOfSeq
<1>3. /\ SubSeq(s, m, Len(s)) \in Seq(S)
      /\ Len(SubSeq(s, m, Len(s))) = IF m <= Len(s) THEN Len(s) - m + 1 ELSE 0
      /\ \A i \in 1 .. Len(s) - m + 1 : SubSeq(s, m, Len(s))[i] = s[m + i - 1]
  BY <1>1, <1>2, SubSeqProperties
<1>. QED
  BY <1>1, <1>3

\* A suffix of a run is a run with the same end.
LEMMA RunSuffix ==
    ASSUME NEW s \in Seq(Nat), NEW h \in Nat,
           NEW m \in 1 .. Len(s) + 1,
           \A i \in m .. Len(s) : s[i] + (Len(s) - i) = h
    PROVE  IsRun(SubSeq(s, m, Len(s)), h)
<1>. DEFINE t == SubSeq(s, m, Len(s))
<1>1. /\ Len(s) \in Nat /\ Len(t) = Len(s) - m + 1
      /\ \A i \in 1 .. Len(t) : t[i] = s[m + i - 1] /\ m + i - 1 \in m .. Len(s)
  BY SuffixEntries, LenProperties
<1>2. \A i \in 1 .. Len(s) : s[i] \in Nat
  BY ElementOfSeq
<1>3. ASSUME NEW i \in 1 .. Len(t)
      PROVE  t[i] + (Len(t) - i) = h
  <2>1. s[m + i - 1] + (Len(s) - (m + i - 1)) = h /\ s[m + i - 1] \in Nat
    BY <1>1, <1>2
  <2>. QED
    BY <1>1, <2>1
<1>. QED
  BY <1>3 DEF IsRun

\* A run continues a run when it starts right after its end.
LEMMA RunConcat ==
    ASSUME NEW s \in Seq(Nat), NEW t \in Seq(Nat), t # << >>,
           NEW g \in Nat, NEW h \in Nat,
           IsRun(s, g), IsRun(t, h), t[1] = g + 1
    PROVE  IsRun(s \o t, h)
<1>. DEFINE u == s \o t
<1>1. /\ Len(s) \in Nat /\ Len(t) \in Nat \ {0} /\ Len(u) = Len(s) + Len(t)
      /\ \A i \in 1 .. Len(u) : u[i] = IF i <= Len(s) THEN s[i] ELSE t[i - Len(s)]
  BY LenProperties, EmptySeq, ConcatProperties
<1>2. (\A i \in 1 .. Len(s) : s[i] \in Nat) /\ (\A i \in 1 .. Len(t) : t[i] \in Nat)
  BY ElementOfSeq
<1>3. h = g + Len(t)
  <2>1. 1 \in 1 .. Len(t)
    BY <1>1
  <2>2. t[1] + (Len(t) - 1) = h
    BY <2>1 DEF IsRun
  <2>. DEFINE n == Len(t)
  <2>3. n \in Nat /\ (g + 1) + (n - 1) = h
    BY <1>1, <2>2
  <2>. HIDE DEF n
  <2>4. h = g + n
    BY <2>3
  <2>. QED
    BY <2>4 DEF n
<1>4. ASSUME NEW i \in 1 .. Len(u)
      PROVE  u[i] + (Len(u) - i) = h
  <2>1. CASE i <= Len(s)
    <3>1. i \in 1 .. Len(s)
      BY <1>1, <2>1
    <3>2. s[i] + (Len(s) - i) = g /\ s[i] \in Nat /\ u[i] = s[i]
      BY <1>1, <1>2, <3>1 DEF IsRun
    <3>. DEFINE m == Len(s)
                n == Len(t)
    <3>3. /\ m \in Nat /\ n \in Nat /\ i \in Nat /\ s[i] + (m - i) = g /\ s[i] \in Nat
          /\ h = g + n
      BY <1>1, <1>3, <3>1, <3>2
    <3>. HIDE DEF m, n
    <3>4. s[i] + ((m + n) - i) = h
      <4>1. (m + n) - i = (m - i) + n
        BY <3>3
      <4>2. m - i \in Int /\ s[i] \in Int /\ n \in Int
        BY <3>3
      <4>3. \A a \in Int, b \in Int, c \in Int : a + (b + c) = (a + b) + c
        OBVIOUS
      <4>4. s[i] + ((m - i) + n) = (s[i] + (m - i)) + n
        BY <4>2, <4>3
      <4>5. (s[i] + (m - i)) + n = h
        BY <3>3
      <4>. QED
        BY <4>1, <4>4, <4>5
    <3>. QED
      BY <1>1, <3>2, <3>4 DEF m, n
  <2>2. CASE ~ (i <= Len(s))
    <3>1. i - Len(s) \in 1 .. Len(t)
      BY <1>1, <2>2
    <3>2. /\ t[i - Len(s)] + (Len(t) - (i - Len(s))) = h
          /\ t[i - Len(s)] \in Nat /\ u[i] = t[i - Len(s)]
      BY <1>1, <1>2, <2>2, <3>1 DEF IsRun
    <3>. QED
      BY <1>1, <2>2, <3>1, <3>2
  <2>. QED
    BY <2>1, <2>2
<1>. QED
  BY <1>4 DEF IsRun

\* An entry of a run is its first entry plus the distance to it.
LEMMA RunEntry ==
    ASSUME NEW s \in Seq(Nat), NEW h \in Nat, IsRun(s, h),
           NEW i \in 1 .. Len(s)
    PROVE  s[i] \in Nat /\ s[i] = h - (Len(s) - i)
<1>1. s[i] \in Nat /\ Len(s) \in Nat
  BY ElementOfSeq, LenProperties
<1>. QED
  BY <1>1 DEF IsRun

-----------------------------------------------------------------------------
(* The order in which positions become visible, for any number of writers. *)

\* What the counter's row lock gives: at most one transaction holds
\* uncommitted rows, and they directly follow the counter.
OneWriter ==
    /\ \A w \in Writers : Writing(w) => alloc[w].from = counter
    /\ \A v, w \in Writers : Writing(v) /\ Writing(w) => v = w

LogInv == LogTypeOK /\ RowsBehindCounter /\ OneWriter

LogNext == LogStep \/ \E w \in Writers : Published(w)

\* The initial log satisfies the invariant.
LEMMA LogInitInv == LogInit => LogInv
  BY LogAssumption DEF LogInit, LogInv, LogTypeOK, RowsBehindCounter, OneWriter,
                       Writing, NoWrite, Position

\* Every step of a writer, of the sweeper and of the hub keeps it.
LEMMA LogStepInv == LogInv /\ [LogNext]_logVars => LogInv'
<1> SUFFICES ASSUME LogInv, [LogNext]_logVars PROVE LogInv'
  OBVIOUS
<1> USE LogAssumption DEF LogInv, LogTypeOK, RowsBehindCounter, OneWriter, Writing,
                          NoWrite, Position
<1>1. ASSUME NEW w \in Writers, NEW n \in 1 .. MaxBatch, WriteEventLog(w, n)
      PROVE  LogInv'
  BY <1>1 DEF WriteEventLog, CounterLocked
<1>2. ASSUME NEW w \in Writers, Commit(w)
      PROVE  LogInv'
  <2>1. /\ alloc[w].from = counter
        /\ alloc[w].to \in Position /\ counter < alloc[w].to
    BY <1>2 DEF Commit
  <2>. DEFINE last == alloc[w].to
  <2>4. rows' = rows \cup (counter + 1 .. last) /\ counter' = last
    BY <1>2, <2>1 DEF Commit
  <2>5. RowsBehindCounter' /\ rows' \subseteq 1 .. MaxSeq
    <3>1. ASSUME NEW s \in rows'
          PROVE  s \in 1 .. counter' /\ s \in 1 .. MaxSeq
      <4>1. CASE s \in rows
        BY <4>1, <2>1, <2>4
      <4>2. CASE s \in counter + 1 .. last
        BY <4>2, <2>1, <2>4
      <4>. QED
        BY <4>1, <4>2, <2>4
    <3>. QED
      BY <3>1
  <2>2. LogTypeOK' /\ RowsBehindCounter'
    BY <1>2, <2>1, <2>5 DEF Commit
  <2>3. \A v \in Writers : ~ Writing(v)'
    BY <1>2 DEF Commit
  <2>. QED
    BY <2>2, <2>3
<1>3. ASSUME NEW w \in Writers, Rollback(w)
      PROVE  LogInv'
  BY <1>3 DEF Rollback
<1>4. CASE SweepBatch
  BY <1>4 DEF SweepBatch
<1>5. ASSUME NEW w \in Writers, Published(w)
      PROVE  LogInv'
  BY <1>5 DEF Published
<1>6. CASE UNCHANGED logVars
  BY <1>6 DEF logVars
<1>. QED
  BY <1>1, <1>2, <1>3, <1>4, <1>5, <1>6 DEF LogNext, LogStep

\* A step reveals exactly the positions it adds to the counter.
LEMMA LogStepVisible ==
    LogInv /\ [LogNext]_logVars =>
        [rows' \ rows = counter + 1 .. counter']_<<counter, rows>>
<1> SUFFICES ASSUME LogInv, [LogNext]_logVars
             PROVE  [rows' \ rows = counter + 1 .. counter']_<<counter, rows>>
  OBVIOUS
<1> USE DEF LogInv, LogTypeOK, RowsBehindCounter, OneWriter, Position
<1>1. ASSUME NEW w \in Writers, Commit(w)
      PROVE  rows' \ rows = counter + 1 .. counter'
  BY <1>1 DEF Commit, Writing
<1>2. CASE SweepBatch
  BY <1>2 DEF SweepBatch
<1>3. CASE UNCHANGED <<counter, rows>>
  BY <1>3
<1>4. ASSUME NEW w \in Writers, NEW n \in 1 .. MaxBatch, WriteEventLog(w, n)
      PROVE  UNCHANGED <<counter, rows>>
  BY <1>4 DEF WriteEventLog
<1>5. ASSUME NEW w \in Writers, Rollback(w) \/ Published(w)
      PROVE  UNCHANGED <<counter, rows>>
  BY <1>5 DEF Rollback, Published
<1>. QED
  BY <1>1, <1>2, <1>3, <1>4, <1>5 DEF LogNext, LogStep, logVars

\* Positions become visible in order and without a hole (eventLog.ts: the
\* counter row is locked from the transaction's last statement on).
THEOREM LogVisibleInOrder == LogSpec => VisibleInOrder
<1>1. LogSpec => []LogInv
  BY LogInitInv, LogStepInv, PTL DEF LogSpec, LogNext
<1>. QED
  BY <1>1, LogStepVisible, PTL DEF LogSpec, VisibleInOrder, LogNext

-----------------------------------------------------------------------------
(* The inductive invariant                                                 *)

\* A feed lives while it is referenced; it never runs ahead of the log; it reads and holds events only while
\* it is on; its window is contiguous.
FeedInv ==
    /\ WindowContiguous
    /\ \A p \in Procs :
          /\ refs[p] = 0 <=> fPhase[p] = "off"
          /\ head[p] <= counter
          /\ fPhase[p] # "on" => rPhase[p] = "idle" /\ window[p] = << >>
          /\ rPhase[p] # "page" => page[p] = << >>
          /\ \A i \in 1 .. Len(page[p]) : head[p] < page[p][i] /\ page[p][i] <= counter

\* A stream's batch continues its cursor, within the log.
StreamInv ==
    \A k \in Conns :
        /\ cursor[k] <= counter
        /\ batch[k] # << >> => sPhase[k] \in {"send", "tail"}
        /\ sPhase[k] = "send" => batch[k] # << >>
        /\ \A i \in 1 .. Len(batch[k]) :
              batch[k][i] = cursor[k] + i /\ batch[k][i] <= counter

Waiting == {"fresh", "resume", "check", "slot", "acquire"}

Data(f) == f.kind \in {"event", "beat"}

\* Where the frames on the subscriber's wire go on from.
Base ==
    IF cPhase = "answer" /\ wire[conn] # << >> /\ wire[conn][1].kind = "start"
    THEN wire[conn][1].id ELSE position

\* The subscriber has a connection exactly while it waits for an answer or
\* reads one; frames are kept for that connection only.
ConnInv ==
    /\ conn = NoConn <=> cPhase \notin {"answer", "open"}
    /\ cPhase = "open" => mode = "resume"
    /\ \A k \in Conns : k # conn => wire[k] = << >>

\* What can be on the subscriber's wire: an answer first, then frames, and
\* nothing after the end of the stream.
WireInv ==
    conn # NoConn =>
        LET w == wire[conn] IN
        /\ sPhase[conn] \in Waiting => cPhase = "answer" /\ w = << >>
        /\ sPhase[conn] \in Looping =>
              /\ \A i \in 1 .. Len(w) : w[i].kind \in {"start", "event", "beat"}
              /\ cPhase = "answer" => Len(w) > 0
        /\ \A i \in 1 .. Len(w) :
              IF cPhase = "answer" /\ i = 1
              THEN ~ Data(w[i])
              ELSE w[i].kind \in {"event", "beat", "eof"}
        /\ cPhase = "answer" /\ Len(w) > 0 /\ w[1].kind = "start" =>
              /\ position <= w[1].id /\ w[1].id <= counter
              /\ mode = "resume" => w[1].id = position

\* The request of a resume carries the position; a fresh stream starts at
\* the counter, which is no less.
RequestInv ==
    conn # NoConn /\ sPhase[conn] \in Waiting =>
        IF mode = "resume" THEN sPhase[conn] # "fresh" /\ cursor[conn] = position
        ELSE sPhase[conn] \notin {"resume", "check"} /\ position <= cursor[conn]

\* The frames of w carry positions after base, in order, up to top; with
\* each of them come the events the filter lets through up to it.
OrderedFrom(w, base, top) ==
    /\ \A i \in 1 .. Len(w) : Data(w[i]) =>
          /\ base <= w[i].id /\ w[i].id <= top
          /\ w[i].kind = "event" => w[i].id \in Wanted /\ base < w[i].id
    /\ \A i \in 1 .. Len(w) : Data(w[i]) =>
          \A s \in Wanted : base < s /\ s <= w[i].id =>
             \E j \in 1 .. Len(w) : w[j].kind = "event" /\ w[j].id = s
    /\ \A i, j \in 1 .. Len(w) : i < j /\ Data(w[i]) /\ Data(w[j]) =>
          /\ w[i].id <= w[j].id
          /\ w[j].kind = "event" => w[i].id < w[j].id

\* The frames of w bring a reader at base to c.
Reaches(w, base, c) ==
    /\ base <= c
    /\ \A i \in 1 .. Len(w) : Data(w[i]) => w[i].id <= c
    /\ \A s \in Wanted : base < s /\ s <= c =>
          \E j \in 1 .. Len(w) : w[j].kind = "event" /\ w[j].id = s

\* What is on the subscriber's wire brings it to the cursor of its stream.
OrderInv ==
    conn # NoConn =>
        /\ OrderedFrom(wire[conn], Base, counter)
        /\ sPhase[conn] \in Looping => Reaches(wire[conn], Base, cursor[conn])

\* What the subscriber has seen.
SeenInv ==
    /\ position <= counter /\ snap <= counter
    /\ \A s \in got : s <= position
    /\ NoEventLost

IInv ==
    /\ TypeOK /\ LogInv /\ FeedInv /\ StreamInv /\ FeedHeld
    /\ ConnInv /\ WireInv /\ RequestInv /\ OrderInv /\ SeenInv

-----------------------------------------------------------------------------
(* The log under the whole system                                          *)

\* The steps of the log's own specification, and a crash.
LEMMA LogSteps ==
    [Next]_vars => [LogNext]_logVars \/ \E p \in Procs : Crash(p)
<1> SUFFICES ASSUME [Next]_vars
             PROVE  [LogNext]_logVars \/ \E p \in Procs : Crash(p)
  OBVIOUS
<1>1. CASE LogActs
  BY <1>1 DEF LogActs, LogNext
<1>2. ASSUME NEW w \in Writers, PublishAct(w)
      PROVE  LogNext
  BY <1>2 DEF PublishAct, Publish, LogNext
<1>3. ASSUME NEW p \in Procs,
             FeedActs(p) \/ PollAct(p) \/ FeedReads(p) \/ FeedQueryFails(p) \/ FeedStartFails(p)
      PROVE  UNCHANGED logVars
  BY <1>3 DEF FeedActs, PollAct, FeedReads, FeedQueryFails, FeedStartFails, Query, ReadStart,
              Start, Poll, ApplyPage, QueryFails
<1>4. ASSUME NEW k \in Conns, Accepting(k)
      PROVE  UNCHANGED logVars
  BY <1>4 DEF Accepting, ResolveFresh, ResolveResume, CheckRetained, TakeSlot, Accept
<1>5. ASSUME NEW k \in Conns,
             Streaming(k) \/ HeartbeatDue(k) \/ SendHeartbeat(k) \/ Abandoned(k) \/ ServerEnds(k)
      PROVE  UNCHANGED logVars
  BY <1>5 DEF Streaming, Top, ReadLog, Send, EndTurn, HeartbeatDue, SendHeartbeat, Abandoned,
              ServerEnds
<1>6. CASE Subscriber \/ Reload \/ Break
  BY <1>6 DEF Subscriber, Dial, Opened, RefusedGone, RefusedBusy, Ended, OnFrame, Reconnect,
              Reload, Break
<1>7. CASE UNCHANGED vars
  BY <1>7 DEF vars
<1>. QED
  BY <1>1, <1>2, <1>3, <1>4, <1>5, <1>6, <1>7 DEF Next

\* The log's invariant holds in the composed system.
LEMMA LogPart == LogInv /\ [Next]_vars => LogInv'
<1> SUFFICES ASSUME LogInv, [Next]_vars PROVE LogInv'
  OBVIOUS
<1>1. CASE [LogNext]_logVars
  BY <1>1, LogStepInv
<1>2. ASSUME NEW p \in Procs, Crash(p)
      PROVE  LogInv'
  <2>1. /\ counter' = counter /\ rows' = rows /\ unpublished' \subseteq unpublished
        /\ alloc' = [w \in Writers |-> IF Host[w] = p THEN NoWrite ELSE alloc[w]]
    BY <1>2 DEF Crash
  <2>. QED
    BY <2>1, LogAssumption
    DEF LogInv, LogTypeOK, RowsBehindCounter, OneWriter, Writing, NoWrite, Position
<1>. QED
  BY <1>1, <1>2, LogSteps

\* No step takes the counter back.
LEMMA CounterGrows == LogInv /\ [Next]_vars => counter <= counter'
<1> SUFFICES ASSUME LogInv, [Next]_vars PROVE counter <= counter'
  OBVIOUS
<1>. USE DEF LogInv, LogTypeOK, Position
<1>1. CASE [LogNext]_logVars
  BY <1>1, LogAssumption
  DEF LogNext, LogStep, WriteEventLog, Commit, Rollback, SweepBatch, Published, OneWriter,
      Writing, logVars
<1>2. ASSUME NEW p \in Procs, Crash(p)
      PROVE  counter <= counter'
  BY <1>2, LogAssumption DEF Crash
<1>. QED
  BY <1>1, <1>2, LogSteps

-----------------------------------------------------------------------------
(* The feeds                                                               *)

\* A row a reader gets lies after the position it asked from.
LEMMA PageRows ==
    ASSUME LogInv, NEW after \in Nat, NEW r \in PagesAfter(after)
    PROVE  /\ r \in Seq(1 .. MaxSeq)
           /\ \A i \in 1 .. Len(r) : after < r[i] /\ r[i] <= counter
<1>1. PICK n \in 0 .. Page : r \in [1 .. n -> rows]
  BY DEF PagesAfter
<1>2. rows \subseteq 1 .. MaxSeq /\ rows \subseteq 1 .. counter /\ n \in Nat
  BY <1>1, FeedAssumption DEF LogInv, LogTypeOK, RowsBehindCounter
<1>3. r \in [1 .. n -> 1 .. MaxSeq]
  BY <1>1, <1>2
<1>4. r \in Seq(1 .. MaxSeq)
  BY <1>2, <1>3, SeqDef
<1>5. Len(r) = n
  BY <1>2, <1>3, <1>4, LenProperties
<1>6. IsPage(r, after)
  BY DEF PagesAfter
<1>7. ASSUME NEW i \in 1 .. Len(r)
      PROVE  after < r[i] /\ r[i] <= counter
  <2>1. r[i] \in 1 .. counter
    BY <1>1, <1>2, <1>5
  <2>. QED
    BY <1>6, <2>1 DEF IsPage
<1>. QED
  BY <1>4, <1>7

\* A contiguous run keeps its shape when its oldest entries are dropped.
LEMMA TrimRun ==
    ASSUME NEW w \in Seq(1 .. MaxSeq), NEW h \in Nat, IsRun(w, h)
    PROVE  Trim(w) \in Seq(1 .. MaxSeq) /\ IsRun(Trim(w), h)
<1>1. CASE Len(w) > Window
  <2>. DEFINE m == Len(w) - Window + 1
  <2>1. m \in 1 .. Len(w) + 1 /\ Len(w) \in Nat
    BY <1>1, FeedAssumption, LenProperties
  <2>2. w \in Seq(Nat)
    BY PositionSeq, LogAssumption
  <2>3. \A i \in m .. Len(w) : w[i] + (Len(w) - i) = h
    BY <2>1 DEF IsRun
  <2>4. Trim(w) = SubSeq(w, m, Len(w))
    BY <1>1 DEF Trim
  <2>. HIDE DEF m
  <2>. QED
    BY <2>1, <2>2, <2>3, <2>4, RunSuffix, SuffixEntries
<1>2. CASE ~ (Len(w) > Window)
  BY <1>2 DEF Trim
<1>. QED
  BY <1>1, <1>2

\* The loop over a page leaves a contiguous run that ends at the page's
\* last row.
LEMMA ExtendRun ==
    ASSUME NEW p \in Procs, head[p] \in Nat, window[p] \in Seq(1 .. MaxSeq),
           IsRun(window[p], head[p]),
           NEW r \in Seq(1 .. MaxSeq), NEW i \in 1 .. Len(r), IsLastRun(r, i)
    PROVE  Extend(p, r, i) \in Seq(1 .. MaxSeq) /\ IsRun(Extend(p, r, i), r[Len(r)])
<1>0. /\ r \in Seq(Nat) /\ window[p] \in Seq(Nat) /\ Len(r) \in Nat /\ r # << >>
      /\ r[Len(r)] \in Nat
  <2>1. r \in Seq(Nat) /\ window[p] \in Seq(Nat) /\ Len(r) \in Nat
    BY PositionSeq, LogAssumption
  <2>2. Len(r) \in 1 .. Len(r) /\ r # << >>
    BY <2>1, EmptySeq
  <2>. QED
    BY <2>1, <2>2, ElementOfSeq
<1>1. \A j \in i .. Len(r) : r[j] + (Len(r) - j) = r[Len(r)]
  BY DEF IsLastRun
<1>2. CASE i = 1 /\ r[1] = head[p] + 1
  <2>1. IsRun(r, r[Len(r)])
    BY <1>1, <1>2 DEF IsRun
  <2>2. IsRun(window[p] \o r, r[Len(r)])
    BY <1>0, <1>2, <2>1, RunConcat
  <2>3. window[p] \o r \in Seq(1 .. MaxSeq)
    BY ConcatProperties
  <2>. QED
    BY <1>2, <2>2, <2>3 DEF Extend
<1>3. CASE ~ (i = 1 /\ r[1] = head[p] + 1)
  <2>1. i \in 1 .. Len(r) + 1
    BY <1>0
  <2>2. SubSeq(r, i, Len(r)) \in Seq(1 .. MaxSeq)
    BY <2>1, SuffixEntries
  <2>3. IsRun(SubSeq(r, i, Len(r)), r[Len(r)])
    BY <1>0, <1>1, <2>1, RunSuffix
  <2>. QED
    BY <1>3, <2>2, <2>3 DEF Extend
<1>. QED
  BY <1>2, <1>3

\* The feeds whose variables stay as they are keep their invariant, and so
\* they do when the log grows.
LEMMA FeedFrame ==
    ASSUME LogInv, LogInv', FeedTypeOK, FeedInv, UNCHANGED feedVars, counter <= counter'
    PROVE  FeedTypeOK' /\ FeedInv'
<1>1. /\ counter \in Nat /\ counter' \in Nat
      /\ \A p \in Procs : head[p] \in Nat
  BY LogAssumption DEF LogInv, LogTypeOK, FeedTypeOK, Position
<1>2. /\ refs' = refs /\ fPhase' = fPhase /\ head' = head /\ window' = window
      /\ rPhase' = rPhase /\ page' = page /\ again' = again
  BY DEF feedVars
<1>3. FeedTypeOK'
  BY <1>2 DEF FeedTypeOK
<1>4. WindowContiguous'
  BY <1>2 DEF FeedInv, WindowContiguous
<1>5. ASSUME NEW p \in Procs, NEW i \in 1 .. Len(page[p])
      PROVE  page[p][i] <= counter'
  <2>1. page[p][i] \in Nat
    BY PositionSeq, LogAssumption DEF FeedTypeOK
  <2>. QED
    BY <1>1, <2>1 DEF FeedInv
<1>. QED
  BY <1>1, <1>2, <1>3, <1>4, <1>5 DEF FeedInv

\* Stopping a feed, or losing its process, leaves an empty one.
LEMMA DiscardFeed ==
    ASSUME FeedTypeOK, FeedInv, LogInv, NEW p \in Procs, Discard(p), counter' = counter
    PROVE  FeedTypeOK' /\ FeedInv'
<1>1. counter \in Nat /\ 0 \in Position
  BY LogAssumption DEF LogInv, LogTypeOK, Position
<1>2. << >> \in Seq(1 .. MaxSeq) /\ Len(<< >>) = 0
  BY EmptySeq
<1>3. FeedTypeOK'
  BY <1>1, <1>2 DEF FeedTypeOK, Discard
<1>4. WindowContiguous'
  BY <1>2 DEF FeedTypeOK, FeedInv, WindowContiguous, Discard
<1>. QED
  BY <1>1, <1>2, <1>3, <1>4 DEF FeedTypeOK, FeedInv, Discard

\* A stream that leaves its feed keeps the feed's shape.
LEMMA ReleaseFeed ==
    ASSUME FeedTypeOK, FeedInv, LogInv, NEW p \in Procs, refs[p] \in Nat \ {0},
           Release(p), counter' = counter
    PROVE  FeedTypeOK' /\ FeedInv'
<1>1. CASE refs[p] = 1
  BY <1>1, DiscardFeed DEF Release
<1>2. CASE refs[p] # 1
  <2>1. refs[p] - 1 \in Nat \ {0}
    BY <1>2
  <2>2. /\ refs' = [refs EXCEPT ![p] = refs[p] - 1]
        /\ UNCHANGED <<fPhase, head, window, rPhase, page, again>>
    BY <1>2 DEF Release, readVars
  <2>. QED
    BY <2>1, <2>2 DEF FeedTypeOK, FeedInv, WindowContiguous
<1>. QED
  BY <1>1, <1>2

\* A stream that joins its feed keeps the feed's shape.
LEMMA AcquireFeed ==
    ASSUME FeedTypeOK, FeedInv, NEW p \in Procs, Acquire(p), counter' = counter
    PROVE  FeedTypeOK' /\ FeedInv'
BY DEF Acquire, FeedTypeOK, FeedInv, WindowContiguous, readVars

\* Applying a page keeps the feed's shape.
LEMMA ApplyFeed ==
    ASSUME FeedTypeOK, FeedInv, LogInv, NEW p \in Procs, ApplyPage(p), counter' = counter
    PROVE  FeedTypeOK' /\ FeedInv'
<1>. DEFINE r == page[p]
<1>1. /\ r \in Seq(1 .. MaxSeq) /\ window[p] \in Seq(1 .. MaxSeq)
      /\ head[p] \in Nat /\ IsRun(window[p], head[p]) /\ fPhase[p] = "on"
  BY LogAssumption DEF ApplyPage, FeedTypeOK, FeedInv, WindowContiguous, IsRun, Position
<1>2. /\ refs' = refs /\ fPhase' = fPhase /\ page' = [page EXCEPT ![p] = << >>]
      /\ rPhase' \in [Procs -> {"idle", "query", "page"}] /\ again' \in [Procs -> BOOLEAN]
      /\ \A q \in Procs \ {p} : rPhase'[q] = rPhase[q]
      /\ rPhase'[p] # "page"
  BY DEF ApplyPage, FeedTypeOK
<1>3. << >> \in Seq(1 .. MaxSeq) /\ Len(<< >>) = 0
  BY EmptySeq
<1>4. CASE r = << >>
  <2>1. UNCHANGED <<head, window>>
    BY <1>4 DEF ApplyPage
  <2>. QED
    BY <1>1, <1>2, <1>3, <2>1 DEF FeedTypeOK, FeedInv, WindowContiguous
<1>5. CASE r # << >>
  <2>1. PICK i \in 1 .. Len(r) :
          /\ IsLastRun(r, i)
          /\ head' = [head EXCEPT ![p] = r[Len(r)]]
          /\ window' = [window EXCEPT ![p] = Trim(Extend(p, r, i))]
    BY <1>5 DEF ApplyPage
  <2>2. /\ Len(r) \in 1 .. Len(r) /\ r[Len(r)] \in 1 .. MaxSeq /\ r[Len(r)] \in Nat
        /\ r[Len(r)] <= counter
    <3>1. Len(r) \in 1 .. Len(r)
      BY <1>1, <1>5, EmptySeq
    <3>. QED
      BY <1>1, <3>1, PositionSeq, LogAssumption DEF FeedInv
  <2>3. /\ Extend(p, r, i) \in Seq(1 .. MaxSeq) /\ IsRun(Extend(p, r, i), r[Len(r)])
    BY <1>1, <2>1, ExtendRun
  <2>. DEFINE w == Trim(Extend(p, r, i))
  <2>4. w \in Seq(1 .. MaxSeq) /\ IsRun(w, r[Len(r)])
    BY <2>2, <2>3, TrimRun
  <2>. HIDE DEF w
  <2>5. /\ head' \in [Procs -> Position] /\ window' \in [Procs -> Seq(1 .. MaxSeq)]
        /\ head'[p] = r[Len(r)] /\ window'[p] = w
        /\ \A q \in Procs \ {p} : head'[q] = head[q] /\ window'[q] = window[q]
    BY <2>1, <2>2, <2>4 DEF FeedTypeOK, Position, w
  <2>6. FeedTypeOK'
    BY <1>2, <1>3, <2>5 DEF FeedTypeOK
  <2>7. WindowContiguous'
    <3>1. ASSUME NEW q \in Procs
          PROVE  IsRun(window'[q], head'[q])
      <4>1. CASE q = p
        BY <2>4, <2>5, <4>1
      <4>2. CASE q # p
        BY <2>5, <4>2 DEF FeedInv, WindowContiguous, IsRun
      <4>. QED
        BY <4>1, <4>2
    <3>. QED
      BY <3>1 DEF WindowContiguous, IsRun
  <2>8. /\ page'[p] = << >> /\ \A q \in Procs \ {p} : page'[q] = page[q]
    BY <1>2 DEF FeedTypeOK
  <2>9. ASSUME NEW q \in Procs
        PROVE  /\ refs'[q] = 0 <=> fPhase'[q] = "off"
               /\ head'[q] <= counter'
               /\ fPhase'[q] # "on" => rPhase'[q] = "idle" /\ window'[q] = << >>
               /\ rPhase'[q] # "page" => page'[q] = << >>
               /\ \A j \in 1 .. Len(page'[q]) :
                     head'[q] < page'[q][j] /\ page'[q][j] <= counter'
    <3>1. CASE q = p
      BY <1>1, <1>2, <1>3, <2>2, <2>5, <2>8, <3>1 DEF FeedInv
    <3>2. CASE q # p
      <4>1. /\ refs'[q] = refs[q] /\ fPhase'[q] = fPhase[q] /\ head'[q] = head[q]
            /\ window'[q] = window[q] /\ rPhase'[q] = rPhase[q] /\ page'[q] = page[q]
        BY <1>2, <2>5, <2>8, <3>2
      <4>. QED
        BY <4>1 DEF FeedInv
    <3>. QED
      BY <3>1, <3>2
  <2>. QED
    BY <2>6, <2>7, <2>9 DEF FeedInv
<1>. QED
  BY <1>4, <1>5

\* A stream that holds a feed, or waits for it, is counted.
LEMMA UserCounted ==
    ASSUME FeedHeld, FeedTypeOK, NEW p \in Procs, NEW k \in Users(p)
    PROVE  refs[p] \in Nat \ {0}
<1>1. IsFiniteSet(Users(p)) /\ Users(p) # {}
  BY FS_Subset, StreamAssumption DEF Users
<1>2. Cardinality(Users(p)) # 0
  BY <1>1, FS_EmptySet
<1>. QED
  BY <1>2 DEF FeedHeld, FeedTypeOK

\* The steps that touch the feeds or the log, and what they do there.
LEMMA FeedSteps ==
    ASSUME [Next]_vars, StreamTypeOK
    PROVE  \/ UNCHANGED feedVars
           \/ \E p \in Procs :
                 \/ Poll(p) \/ Query(p) \/ QueryFails(p) \/ ReadStart(p) \/ Start(p)
                 \/ ApplyPage(p)
                 \/ StartFails(p) /\ counter' = counter
                 \/ Discard(p) /\ counter' = counter
                 \/ Acquire(p) /\ counter' = counter
                 \/ Release(p) /\ counter' = counter /\ Users(p) # {}
           \/ \E w \in Writers : Publish(w)
<1>1. CASE LogActs
  BY <1>1 DEF LogActs
<1>2. ASSUME NEW w \in Writers, PublishAct(w)
      PROVE  Publish(w)
  BY <1>2 DEF PublishAct
<1>3. ASSUME NEW p \in Procs, FeedActs(p) \/ PollAct(p) \/ FeedReads(p) \/ FeedQueryFails(p)
      PROVE  Poll(p) \/ Query(p) \/ QueryFails(p) \/ ReadStart(p) \/ Start(p) \/ ApplyPage(p)
  BY <1>3 DEF FeedActs, PollAct, FeedReads, FeedQueryFails
<1>4. ASSUME NEW p \in Procs, FeedStartFails(p)
      PROVE  StartFails(p) /\ counter' = counter
  BY <1>4 DEF FeedStartFails, logVars
<1>5. ASSUME NEW p \in Procs, Crash(p)
      PROVE  Discard(p) /\ counter' = counter
  BY <1>5 DEF Crash
<1>6. ASSUME NEW k \in Conns, Accepting(k)
      PROVE  UNCHANGED feedVars \/ \E p \in Procs : Acquire(p) /\ counter' = counter
  <2>1. CASE TakeSlot(k)
    BY <2>1 DEF TakeSlot, StreamTypeOK, logVars
  <2>2. CASE ResolveFresh(k) \/ ResolveResume(k) \/ CheckRetained(k) \/ Accept(k)
    BY <2>2 DEF ResolveFresh, ResolveResume, CheckRetained, Accept
  <2>. QED
    BY <1>6, <2>1, <2>2 DEF Accepting
<1>7. ASSUME NEW k \in Conns, sPhase[k] \in Looping, Close(k), UNCHANGED logVars
      PROVE  \E p \in Procs : Release(p) /\ counter' = counter /\ Users(p) # {}
  BY <1>7 DEF Close, StreamTypeOK, Users, logVars
<1>8. ASSUME NEW k \in Conns, Abandoned(k) \/ ServerEnds(k)
      PROVE  \E p \in Procs : Release(p) /\ counter' = counter /\ Users(p) # {}
  BY <1>7, <1>8 DEF Abandoned, ServerEnds
<1>9. ASSUME NEW k \in Conns, ReadLog(k)
      PROVE  \/ UNCHANGED feedVars
             \/ \E p \in Procs : Release(p) /\ counter' = counter /\ Users(p) # {}
  <2>1. UNCHANGED logVars /\ sPhase[k] \in Looping
    BY <1>9 DEF ReadLog, Looping
  <2>2. CASE Close(k)
    BY <1>7, <2>1, <2>2
  <2>3. CASE ~ Close(k)
    BY <1>9, <2>3 DEF ReadLog
  <2>. QED
    BY <2>2, <2>3
<1>10. ASSUME NEW k \in Conns,
              Top(k) \/ Send(k) \/ EndTurn(k) \/ HeartbeatDue(k) \/ SendHeartbeat(k)
       PROVE  UNCHANGED feedVars
  BY <1>10 DEF Top, Send, EndTurn, HeartbeatDue, SendHeartbeat
<1>11. CASE Subscriber \/ Reload \/ Break
  BY <1>11 DEF Subscriber, Dial, Opened, RefusedGone, RefusedBusy, Ended, OnFrame, Reconnect,
               Reload, Break
<1>12. CASE UNCHANGED vars
  BY <1>12 DEF vars
<1>. QED
  BY <1>1, <1>2, <1>3, <1>4, <1>5, <1>6, <1>8, <1>9, <1>10, <1>11, <1>12 DEF Next, Streaming

\* The feeds keep their invariant.
LEMMA FeedPart == IInv /\ [Next]_vars => FeedTypeOK' /\ FeedInv'
<1> SUFFICES ASSUME IInv, [Next]_vars PROVE FeedTypeOK' /\ FeedInv'
  OBVIOUS
<1>1. /\ LogInv /\ LogInv' /\ FeedTypeOK /\ FeedInv /\ FeedHeld /\ StreamTypeOK
      /\ counter <= counter'
  BY LogPart, CounterGrows DEF IInv, TypeOK
<1>2. /\ counter \in Position /\ counter \in Nat /\ \A p \in Procs : head[p] \in Nat
  BY <1>1, LogAssumption DEF LogInv, LogTypeOK, FeedTypeOK, Position
<1>. USE <1>1
<1>3. CASE UNCHANGED feedVars
  BY <1>3, FeedFrame
<1>4. ASSUME NEW p \in Procs, Poll(p) \/ QueryFails(p) \/ Start(p) \/ ReadStart(p)
      PROVE  FeedTypeOK' /\ FeedInv'
  <2>1. CASE Poll(p)
    BY <2>1 DEF Poll, WakeEffect, FeedTypeOK, FeedInv, WindowContiguous, logVars
  <2>2. CASE QueryFails(p)
    BY <2>2 DEF QueryFails, FeedTypeOK, FeedInv, WindowContiguous, logVars
  <2>3. CASE Start(p)
    BY <2>3 DEF Start, FeedTypeOK, FeedInv, WindowContiguous, logVars
  <2>4. CASE ReadStart(p)
    <3>1. window[p] = << >> /\ Len(window[p]) = 0 /\ page[p] = << >> /\ Len(page[p]) = 0
      BY <2>4, EmptySeq DEF ReadStart, FeedInv
    <3>. QED
      BY <1>2, <2>4, <3>1
      DEF ReadStart, FeedTypeOK, FeedInv, WindowContiguous, logVars, readVars
  <2>. QED
    BY <1>4, <2>1, <2>2, <2>3, <2>4
<1>5. ASSUME NEW w \in Writers, Publish(w)
      PROVE  FeedTypeOK' /\ FeedInv'
  BY <1>5 DEF Publish, Published, WakeEffect, FeedTypeOK, FeedInv, WindowContiguous
<1>6. ASSUME NEW p \in Procs, Query(p)
      PROVE  FeedTypeOK' /\ FeedInv'
  <2>1. PICK r \in PagesAfter(head[p]) : page' = [page EXCEPT ![p] = r]
    BY <1>6 DEF Query
  <2>2. /\ r \in Seq(1 .. MaxSeq)
        /\ \A i \in 1 .. Len(r) : head[p] < r[i] /\ r[i] <= counter
    BY <1>2, PageRows
  <2>. QED
    BY <1>6, <2>1, <2>2 DEF Query, FeedTypeOK, FeedInv, WindowContiguous, logVars
<1>7. ASSUME NEW p \in Procs, ApplyPage(p)
      PROVE  FeedTypeOK' /\ FeedInv'
  BY <1>7, ApplyFeed DEF ApplyPage, logVars
<1>8. ASSUME NEW p \in Procs, StartFails(p) \/ Discard(p), counter' = counter
      PROVE  FeedTypeOK' /\ FeedInv'
  BY <1>8, DiscardFeed DEF StartFails
<1>9. ASSUME NEW p \in Procs, Acquire(p), counter' = counter
      PROVE  FeedTypeOK' /\ FeedInv'
  BY <1>9, AcquireFeed
<1>10. ASSUME NEW p \in Procs, Release(p), counter' = counter, Users(p) # {}
       PROVE  FeedTypeOK' /\ FeedInv'
  BY <1>10, UserCounted, ReleaseFeed
<1>. QED
  BY <1>3, <1>4, <1>5, <1>6, <1>7, <1>8, <1>9, <1>10, FeedSteps

-----------------------------------------------------------------------------
(* The streams                                                             *)

\* What the window serves a cursor it reaches: the positions right after
\* the cursor, in order.
LEMMA ServedFromWindow ==
    ASSUME FeedTypeOK, FeedInv, LogInv, NEW p \in Procs, NEW c \in Position,
           ~ OutOfWindow(p, c)
    PROVE  /\ EventsAfter(p, c) \in Seq(1 .. MaxSeq)
           /\ \A i \in 1 .. Len(EventsAfter(p, c)) :
                 EventsAfter(p, c)[i] = c + i /\ EventsAfter(p, c)[i] <= counter
<1>. DEFINE w == window[p]
            n == Len(w)
            h == head[p]
<1>1. /\ w \in Seq(1 .. MaxSeq) /\ w \in Seq(Nat) /\ n \in Nat /\ h \in Nat /\ c \in Nat
      /\ IsRun(w, h) /\ h <= counter /\ counter \in Nat
  BY PositionSeq, LogAssumption
  DEF FeedTypeOK, FeedInv, WindowContiguous, IsRun, Position, LogInv, LogTypeOK
<1>2. CASE c >= h
  <2>1. EventsAfter(p, c) = << >>
    BY <1>2 DEF EventsAfter
  <2>2. << >> \in Seq(1 .. MaxSeq) /\ Len(<< >>) = 0
    BY EmptySeq
  <2>. QED
    BY <2>1, <2>2
<1>3. CASE ~ (c >= h)
  <2>1. w # << >>
    BY <1>1, <1>3 DEF OutOfWindow, First
  <2>2. 1 \in 1 .. n
    BY <1>1, <2>1, EmptySeq
  <2>3. w[1] \in Nat /\ w[1] = h - (n - 1) /\ First(p) = w[1]
    BY <1>1, <2>1, <2>2, RunEntry DEF First
  <2>. DEFINE m == c + 2 - w[1]
  <2>4. m \in 1 .. n + 1 /\ m = c + 2 - (h - (n - 1))
    <3>1. c + 1 >= w[1]
      BY <1>1, <2>3 DEF OutOfWindow
    <3>. HIDE DEF n, h
    <3>. QED
      BY <1>1, <1>3, <2>2, <2>3, <3>1
  <2>. DEFINE e == SubSeq(w, m, n)
  <2>5. EventsAfter(p, c) = e
    BY <1>3, <2>3 DEF EventsAfter
  <2>. HIDE DEF m
  <2>6. /\ e \in Seq(1 .. MaxSeq) /\ Len(e) = n - m + 1
        /\ \A i \in 1 .. n - m + 1 : e[i] = w[m + i - 1] /\ m + i - 1 \in m .. n
    BY <1>1, <2>4, SuffixEntries
  <2>7. ASSUME NEW i \in 1 .. Len(e)
        PROVE  e[i] = c + i /\ e[i] <= counter
    <3>1. e[i] = w[m + i - 1] /\ m + i - 1 \in 1 .. n
      BY <2>4, <2>6
    <3>2. w[m + i - 1] = h - (n - (m + i - 1))
      BY <1>1, <3>1, RunEntry
    <3>3. i \in Nat /\ i <= n - m + 1
      BY <2>6
    <3>. DEFINE x == e[i]
    <3>4. x = h - (n - (m + i - 1))
      BY <3>1, <3>2
    <3>. HIDE DEF e, n, h, x
    <3>5. x = c + i /\ x <= counter
      BY <1>1, <2>4, <3>3, <3>4
    <3>. QED
      BY <3>5 DEF x
  <2>. QED
    BY <2>5, <2>6, <2>7
<1>. QED
  BY <1>2, <1>3

\* The prefix of a page that continues the cursor.
LEMMA ServedFromLog ==
    ASSUME LogInv, StreamTypeOK, NEW k \in Conns, NEW r \in PagesAfter(cursor[k]),
           NEW n \in 0 .. Len(r), n # 0, ContiguousPrefix(k, r, n)
    PROVE  /\ SubSeq(r, 1, n) \in Seq(1 .. MaxSeq) /\ SubSeq(r, 1, n) # << >>
           /\ \A i \in 1 .. Len(SubSeq(r, 1, n)) :
                 SubSeq(r, 1, n)[i] = cursor[k] + i /\ SubSeq(r, 1, n)[i] <= counter
<1>1. cursor[k] \in Nat
  BY LogAssumption DEF StreamTypeOK, Position
<1>2. r \in Seq(1 .. MaxSeq) /\ \A i \in 1 .. Len(r) : r[i] <= counter
  BY <1>1, PageRows
<1>3. Len(r) \in Nat /\ n \in 1 .. Len(r) /\ \A i \in 1 .. n : r[i] \in 1 .. MaxSeq
  BY <1>2, PositionSeq, LogAssumption
<1>. DEFINE t == SubSeq(r, 1, n)
<1>4. t \in Seq(1 .. MaxSeq) /\ Len(t) = n /\ \A i \in 1 .. n : t[i] = r[i]
  BY <1>3, SubSeqProperties
<1>5. t # << >>
  BY <1>3, <1>4, EmptySeq
<1>6. ASSUME NEW i \in 1 .. Len(t)
      PROVE  t[i] = cursor[k] + i /\ t[i] <= counter
  BY <1>2, <1>3, <1>4 DEF ContiguousPrefix
<1>. QED
  BY <1>4, <1>5, <1>6

\* Sending a frame and giving up the connection keep the wire's type.
LEMMA PutType ==
    ASSUME StreamTypeOK, NEW k \in Conns, NEW f \in [kind : Kinds, id : Position], Put(k, f)
    PROVE  wire' \in [Conns -> Seq([kind : Kinds, id : Position])]
<1>1. Append(wire[k], f) \in Seq([kind : Kinds, id : Position])
  BY AppendProperties DEF StreamTypeOK
<1>. QED
  BY <1>1 DEF Put, StreamTypeOK

\* Steps that leave the streams alone.
StreamsIdle ==
    \/ LogActs \/ \E w \in Writers : PublishAct(w)
    \/ \E p \in Procs : FeedActs(p) \/ PollAct(p) \/ FeedQueryFails(p)
    \/ Reconnect \/ Reload \/ UNCHANGED vars

\* Steps of the log, the feeds and the subscriber leave the streams alone.
LEMMA IdleStreams == StreamsIdle => UNCHANGED streamVars
BY DEF StreamsIdle, LogActs, PublishAct, FeedActs, PollAct, FeedQueryFails, Reconnect, Reload, vars

\* Steps of one stream, but for closing it, that only move its phase or
\* refuse it.
LEMMA AcceptStream ==
    ASSUME IInv, counter' = counter, NEW k \in Conns, Accepting(k)
    PROVE  StreamTypeOK' /\ StreamInv'
<1>1. StreamTypeOK /\ StreamInv /\ counter \in Position /\ counter \in Nat /\ 0 \in Position
  BY LogAssumption DEF IInv, TypeOK, LogTypeOK, Position
<1>2. sPhase[k] \in Waiting
  BY DEF Accepting, ResolveFresh, ResolveResume, CheckRetained, TakeSlot, Accept, Waiting
<1>3. batch[k] = << >> /\ batch' = batch /\ more' = more /\ sHost' = sHost
  BY <1>1, <1>2
  DEF Accepting, ResolveFresh, ResolveResume, CheckRetained, TakeSlot, Accept, Waiting, StreamInv
<1>4. PICK phase \in {"free", "check", "slot", "acquire", "top"} :
         sPhase' = [sPhase EXCEPT ![k] = phase]
  BY DEF Accepting, ResolveFresh, ResolveResume, CheckRetained, TakeSlot, Accept, Refuse, Goto
<1>5. PICK c \in {0, counter, cursor[k]} : cursor' = [cursor EXCEPT ![k] = c]
  <2>1. CASE UNCHANGED cursor
    BY <1>1, <2>1 DEF StreamTypeOK
  <2>2. CASE ~ UNCHANGED cursor
    BY <2>2 DEF Accepting, ResolveFresh, ResolveResume, CheckRetained, TakeSlot, Accept, Refuse
  <2>. QED
    BY <2>1, <2>2
<1>6. wire' \in [Conns -> Seq([kind : Kinds, id : Position])]
  <2>1. CASE UNCHANGED wire
    BY <1>1, <2>1 DEF StreamTypeOK
  <2>2. ASSUME NEW kind \in {"gone", "busy"}, Put(k, Frame(kind, 0))
        PROVE  wire' \in [Conns -> Seq([kind : Kinds, id : Position])]
    BY <1>1, <2>2, PutType DEF Frame, Kinds
  <2>3. CASE Put(k, Frame("start", cursor[k]))
    BY <1>1, <2>3, PutType DEF Frame, Kinds, StreamTypeOK
  <2>. QED
    BY <2>1, <2>2, <2>3
    DEF Accepting, ResolveFresh, ResolveResume, CheckRetained, TakeSlot, Accept, Refuse
<1>7. c \in Position /\ c <= counter
  BY <1>1 DEF StreamTypeOK, StreamInv
<1>8. StreamTypeOK'
  BY <1>1, <1>3, <1>4, <1>5, <1>6, <1>7 DEF StreamTypeOK, Looping
<1>9. Len(batch[k]) = 0
  BY <1>3, EmptySeq
<1>10. ASSUME NEW j \in Conns
       PROVE  /\ cursor'[j] <= counter'
              /\ batch'[j] # << >> => sPhase'[j] \in {"send", "tail"}
              /\ sPhase'[j] = "send" => batch'[j] # << >>
              /\ \A i \in 1 .. Len(batch'[j]) :
                    batch'[j][i] = cursor'[j] + i /\ batch'[j][i] <= counter'
  <2>1. CASE j = k
    BY <1>1, <1>3, <1>4, <1>5, <1>7, <1>9, <2>1 DEF StreamTypeOK
  <2>2. CASE j # k
    <3>1. cursor'[j] = cursor[j] /\ batch'[j] = batch[j] /\ sPhase'[j] = sPhase[j]
      BY <1>1, <1>3, <1>4, <1>5, <2>2 DEF StreamTypeOK
    <3>. QED
      BY <1>1, <3>1 DEF StreamInv
  <2>. QED
    BY <2>1, <2>2
<1>. QED
  BY <1>8, <1>10 DEF StreamInv

\* A stream that closes keeps the shape of the streams.
LEMMA CloseStream ==
    ASSUME IInv, counter' = counter, UNCHANGED sHost, NEW k \in Conns, Close(k)
    PROVE  StreamTypeOK' /\ StreamInv'
<1>1. StreamTypeOK /\ StreamInv /\ counter \in Nat /\ 0 \in Position
  BY LogAssumption DEF IInv, TypeOK, LogTypeOK, Position
<1>2. << >> \in Seq(1 .. MaxSeq) /\ Len(<< >>) = 0
  BY EmptySeq
<1>3. wire' \in [Conns -> Seq([kind : Kinds, id : Position])]
  BY <1>1, PutType DEF Close, Frame, Kinds
<1>4. StreamTypeOK'
  BY <1>1, <1>2, <1>3 DEF Close, Goto, StreamTypeOK
<1>5. ASSUME NEW j \in Conns
      PROVE  /\ cursor'[j] <= counter'
             /\ batch'[j] # << >> => sPhase'[j] \in {"send", "tail"}
             /\ sPhase'[j] = "send" => batch'[j] # << >>
             /\ \A i \in 1 .. Len(batch'[j]) :
                   batch'[j][i] = cursor'[j] + i /\ batch'[j][i] <= counter'
  <2>1. CASE j = k
    BY <1>1, <1>2, <2>1 DEF Close, Goto, StreamTypeOK
  <2>2. CASE j # k
    <3>1. cursor'[j] = cursor[j] /\ batch'[j] = batch[j] /\ sPhase'[j] = sPhase[j]
      BY <1>1, <2>2 DEF Close, Goto, StreamTypeOK
    <3>. QED
      BY <1>1, <3>1 DEF StreamInv
  <2>. QED
    BY <2>1, <2>2
<1>. QED
  BY <1>4, <1>5 DEF StreamInv

\* A turn of the loop.
LEMMA TurnStream ==
    ASSUME IInv, counter' = counter, NEW k \in Conns,
           Streaming(k) \/ HeartbeatDue(k) \/ SendHeartbeat(k)
    PROVE  StreamTypeOK' /\ StreamInv'
<1>1. /\ StreamTypeOK /\ StreamInv /\ FeedTypeOK /\ FeedInv /\ LogInv
      /\ counter \in Nat /\ cursor[k] \in Position /\ cursor[k] \in Nat /\ sHost[k] \in Procs
  <2>1. StreamTypeOK /\ StreamInv /\ FeedTypeOK /\ FeedInv /\ LogInv /\ LogTypeOK
    BY DEF IInv, TypeOK
  <2>2. counter \in Position /\ cursor[k] \in Position /\ sHost[k] \in Procs
    BY <2>1 DEF LogTypeOK, StreamTypeOK
  <2>. QED
    BY <2>1, <2>2, LogAssumption DEF Position
<1>. USE <1>1
<1>2. CASE Top(k)
  <2>1. CASE OutOfWindow(sHost[k], cursor[k])
    <3>1. /\ sPhase[k] = "top" /\ sPhase' = [sPhase EXCEPT ![k] = "read"]
          /\ more' = [more EXCEPT ![k] = FALSE]
          /\ UNCHANGED <<sHost, cursor, batch, wire>>
      BY <1>2, <2>1 DEF Top, Goto
    <3>. QED
      BY <3>1 DEF StreamTypeOK, StreamInv, Looping
  <2>2. CASE ~ OutOfWindow(sHost[k], cursor[k])
    <3>. DEFINE e == EventsAfter(sHost[k], cursor[k])
    <3>1. e \in Seq(1 .. MaxSeq) /\ \A i \in 1 .. Len(e) : e[i] = cursor[k] + i /\ e[i] <= counter
      BY <2>2, ServedFromWindow
    <3>. HIDE DEF e
    <3>2. /\ batch' = [batch EXCEPT ![k] = e]
          /\ more' = [more EXCEPT ![k] = e # << >>]
          /\ sPhase' = [sPhase EXCEPT ![k] = IF e = << >> THEN "tail" ELSE "send"]
          /\ UNCHANGED <<sHost, cursor, wire>>
      BY <1>2, <2>2 DEF Top, Goto, e
    <3>. QED
      BY <3>1, <3>2 DEF StreamTypeOK, StreamInv, Looping
  <2>. QED
    BY <2>1, <2>2
<1>3. CASE ReadLog(k)
  <2>. DEFINE Takes(r, n) ==
          /\ ContiguousPrefix(k, r, n)
          /\ IF n = 0 THEN Close(k)
             ELSE /\ batch' = [batch EXCEPT ![k] = SubSeq(r, 1, n)]
                  /\ more' = [more EXCEPT ![k] = TRUE]
                  /\ Goto(k, "send")
                  /\ UNCHANGED <<feedVars, cursor, wire>>
  <2>0. PICK r \in PagesAfter(cursor[k]) : \E n \in 0 .. Len(r) : Takes(r, n)
    BY <1>3 DEF ReadLog
  <2>1. PICK n \in 0 .. Len(r) : Takes(r, n)
    BY <2>0
  <2>2. UNCHANGED sHost
    BY <1>3 DEF ReadLog
  <2>3. CASE n = 0
    BY <2>1, <2>2, <2>3, CloseStream
  <2>4. CASE n # 0
    <3>. DEFINE e == SubSeq(r, 1, n)
    <3>1. /\ e \in Seq(1 .. MaxSeq) /\ e # << >>
          /\ \A i \in 1 .. Len(e) : e[i] = cursor[k] + i /\ e[i] <= counter
      BY <2>1, <2>4, ServedFromLog
    <3>2. /\ batch' = [batch EXCEPT ![k] = e]
          /\ more' = [more EXCEPT ![k] = TRUE]
          /\ sPhase' = [sPhase EXCEPT ![k] = "send"]
          /\ UNCHANGED <<cursor, wire>>
      BY <2>1, <2>4 DEF Goto
    <3>. HIDE DEF e
    <3>. QED
      BY <2>2, <3>1, <3>2 DEF StreamTypeOK, StreamInv, Looping
  <2>. QED
    BY <2>3, <2>4
<1>4. CASE Send(k)
  <2>. DEFINE b == batch[k]
  <2>1. b \in Seq(1 .. MaxSeq) /\ b # << >> /\ Len(b) \in Nat /\ 1 \in 1 .. Len(b)
    BY <1>4, EmptySeq, LenProperties DEF Send, StreamTypeOK, StreamInv
  <2>2. Head(b) = b[1] /\ b[1] = cursor[k] + 1 /\ b[1] <= counter /\ b[1] \in 1 .. MaxSeq
    <3>1. Head(b) = b[1]
      BY <2>1, HeadTailProperties
    <3>2. b[1] \in 1 .. MaxSeq
      BY <2>1, ElementOfSeq
    <3>. QED
      BY <2>1, <3>1, <3>2 DEF StreamInv
  <2>3. /\ Tail(b) \in Seq(1 .. MaxSeq) /\ Len(Tail(b)) = Len(b) - 1
        /\ \A i \in 1 .. Len(Tail(b)) : Tail(b)[i] = b[i + 1]
    BY <2>1, HeadTailProperties
  <2>4. wire' \in [Conns -> Seq([kind : Kinds, id : Position])]
    <3>1. CASE UNCHANGED wire
      BY <3>1 DEF StreamTypeOK
    <3>2. CASE ~ UNCHANGED wire
      <4>1. Put(k, Frame("event", b[1]))
        BY <1>4, <2>2, <3>2 DEF Send
      <4>2. Frame("event", b[1]) \in [kind : Kinds, id : Position]
        BY <2>2, LogAssumption DEF Frame, Kinds, Position
      <4>. QED
        BY <4>1, <4>2, PutType
    <3>. QED
      BY <3>1, <3>2
  <2>5. /\ cursor' = [cursor EXCEPT ![k] = b[1]]
        /\ batch' = [batch EXCEPT ![k] = Tail(b)]
        /\ sPhase' = [sPhase EXCEPT ![k] = "tail"]
        /\ UNCHANGED <<sHost, more>>
    BY <1>4, <2>2 DEF Send, Goto
  <2>6. StreamTypeOK'
    <3>1. b[1] \in Position
      BY <2>2, LogAssumption DEF Position
    <3>. HIDE DEF b
    <3>. QED
      BY <2>3, <2>4, <2>5, <3>1 DEF StreamTypeOK, Looping
  <2>7. \A i \in 1 .. Len(Tail(b)) : Tail(b)[i] = b[1] + i /\ Tail(b)[i] <= counter
    <3>1. ASSUME NEW i \in 1 .. Len(Tail(b))
          PROVE  Tail(b)[i] = b[1] + i /\ Tail(b)[i] <= counter
      <4>1. i + 1 \in 1 .. Len(b) /\ i \in Nat
        BY <2>1, <2>3
      <4>2. b[i + 1] = cursor[k] + (i + 1) /\ b[i + 1] <= counter
        BY <4>1 DEF StreamInv
      <4>3. Tail(b)[i] = b[i + 1]
        BY <2>3
      <4>. QED
        BY <2>2, <4>1, <4>2, <4>3
    <3>. QED
      BY <3>1
  <2>. HIDE DEF b
  <2>8. /\ cursor'[k] = b[1] /\ batch'[k] = Tail(b) /\ sPhase'[k] = "tail"
        /\ \A j \in Conns \ {k} :
              cursor'[j] = cursor[j] /\ batch'[j] = batch[j] /\ sPhase'[j] = sPhase[j]
    BY <2>5 DEF StreamTypeOK
  <2>9. ASSUME NEW j \in Conns
        PROVE  /\ cursor'[j] <= counter'
               /\ batch'[j] # << >> => sPhase'[j] \in {"send", "tail"}
               /\ sPhase'[j] = "send" => batch'[j] # << >>
               /\ \A i \in 1 .. Len(batch'[j]) :
                     batch'[j][i] = cursor'[j] + i /\ batch'[j][i] <= counter'
    <3>1. CASE j = k
      BY <2>2, <2>7, <2>8, <3>1
    <3>2. CASE j # k
      <4>1. cursor'[j] = cursor[j] /\ batch'[j] = batch[j] /\ sPhase'[j] = sPhase[j]
        BY <2>8, <3>2
      <4>. QED
        BY <4>1 DEF StreamInv
    <3>. QED
      BY <3>1, <3>2
  <2>. QED
    BY <2>6, <2>9 DEF StreamInv
<1>5. CASE EndTurn(k) \/ HeartbeatDue(k) \/ SendHeartbeat(k)
  <2>1. wire' \in [Conns -> Seq([kind : Kinds, id : Position])]
    BY <1>5, PutType DEF EndTurn, HeartbeatDue, SendHeartbeat, Frame, Kinds, StreamTypeOK
  <2>2. UNCHANGED <<sHost, cursor, batch, more>>
    BY <1>5 DEF EndTurn, HeartbeatDue, SendHeartbeat
  <2>3. /\ sPhase' \in [Conns -> Looping \cup Waiting \cup {"free"}]
        /\ \A j \in Conns \ {k} : sPhase'[j] = sPhase[j]
        /\ sPhase[k] \in {"tail", "wait"}
        /\ sPhase'[k] = "send" <=> batch[k] # << >> /\ sPhase'[k] # "tail"
        /\ batch[k] # << >> => sPhase'[k] \in {"send", "tail"}
    BY <1>5 DEF EndTurn, HeartbeatDue, SendHeartbeat, Goto, StreamTypeOK, StreamInv, Looping, Waiting
  <2>. QED
    BY <2>1, <2>2, <2>3 DEF StreamTypeOK, StreamInv, Waiting
<1>. QED
  BY <1>2, <1>3, <1>4, <1>5 DEF Streaming

\* Frames read, and connections given up, keep the wire's type.
LEMMA ReadType ==
    ASSUME StreamTypeOK, NEW kind, Receive(kind), ReadFrame \/ HangUp
    PROVE  wire' \in [Conns -> Seq([kind : Kinds, id : Position])]
<1>. DEFINE Frames == [kind : Kinds, id : Position]
<1>1. wire \in [Conns -> Seq(Frames)] /\ << >> \in Seq(Frames)
  BY EmptySeq DEF StreamTypeOK
<1>2. CASE conn \in Conns
  <2>1. Tail(wire[conn]) \in Seq(Frames)
    BY <1>1, <1>2, HeadTailProperties DEF Receive
  <2>. QED
    BY <1>1, <2>1 DEF ReadFrame, HangUp
<1>3. CASE conn \notin Conns
  BY <1>1, <1>3 DEF ReadFrame, HangUp
<1>. QED
  BY <1>2, <1>3

\* The streams keep their invariant in the steps that touch their wires,
\* hosts and wake-ups only.
LEMMA QuietStreams ==
    ASSUME LogInv, LogInv', counter <= counter', StreamTypeOK, StreamInv,
           wire' \in [Conns -> Seq([kind : Kinds, id : Position])],
           more' \in [Conns -> BOOLEAN],
           UNCHANGED <<sHost, cursor, batch>>,
           DOMAIN sPhase' = Conns, sPhase' = [k \in DOMAIN sPhase' |-> sPhase'[k]],
           \A k \in Conns :
              \/ sPhase'[k] = sPhase[k]
              \/ sPhase[k] = "wait" /\ sPhase'[k] = "top"
    PROVE  StreamTypeOK' /\ StreamInv'
<1>1. counter \in Nat /\ counter' \in Nat /\ \A k \in Conns : cursor[k] \in Nat
  BY LogAssumption DEF LogInv, LogTypeOK, StreamTypeOK, Position
<1>2. StreamTypeOK'
  BY DEF StreamTypeOK, Looping
<1>3. ASSUME NEW k \in Conns
      PROVE  /\ cursor'[k] <= counter'
             /\ batch'[k] # << >> => sPhase'[k] \in {"send", "tail"}
             /\ sPhase'[k] = "send" => batch'[k] # << >>
             /\ \A i \in 1 .. Len(batch'[k]) :
                   batch'[k][i] = cursor'[k] + i /\ batch'[k][i] <= counter'
  <2>1. cursor'[k] = cursor[k] /\ batch'[k] = batch[k] /\ cursor[k] <= counter'
    BY <1>1 DEF StreamInv
  <2>3. ASSUME NEW i \in 1 .. Len(batch[k])
        PROVE  batch[k][i] = cursor[k] + i /\ batch[k][i] <= counter'
    <3>1. batch[k][i] = cursor[k] + i /\ batch[k][i] <= counter /\ i \in Nat
      BY DEF StreamInv
    <3>. QED
      BY <1>1, <3>1
  <2>. QED
    BY <2>1, <2>3 DEF StreamInv
<1>. QED
  BY <1>2, <1>3 DEF StreamInv

\* Streams end together.
LEMMA EndStreams ==
    ASSUME IInv, counter' = counter, NEW gone \in SUBSET Conns, NEW kind \in {"error", "eof"},
           EndAll(gone, kind)
    PROVE  StreamTypeOK' /\ StreamInv'
<1>1. StreamTypeOK /\ StreamInv /\ counter \in Nat /\ 0 \in Position
  <2>1. StreamTypeOK /\ StreamInv /\ LogTypeOK
    BY DEF IInv, TypeOK
  <2>. QED
    BY <2>1, LogAssumption DEF LogTypeOK, Position
<1>2. << >> \in Seq(1 .. MaxSeq) /\ Len(<< >>) = 0
  BY EmptySeq
<1>3. Frame(kind, 0) \in [kind : Kinds, id : Position]
  BY <1>1 DEF Frame, Kinds
<1>4. \A k \in Conns : Append(wire[k], Frame(kind, 0)) \in Seq([kind : Kinds, id : Position])
  BY <1>1, <1>3, AppendProperties DEF StreamTypeOK
<1>5. wire' \in [Conns -> Seq([kind : Kinds, id : Position])]
  BY <1>1, <1>4 DEF EndAll, StreamTypeOK
<1>6. StreamTypeOK'
  BY <1>1, <1>2, <1>5 DEF EndAll, StreamTypeOK
<1>7. ASSUME NEW k \in Conns
      PROVE  /\ cursor'[k] <= counter'
             /\ batch'[k] # << >> => sPhase'[k] \in {"send", "tail"}
             /\ sPhase'[k] = "send" => batch'[k] # << >>
             /\ \A i \in 1 .. Len(batch'[k]) :
                   batch'[k][i] = cursor'[k] + i /\ batch'[k][i] <= counter'
  <2>1. CASE k \in gone
    BY <1>1, <1>2, <2>1 DEF EndAll
  <2>2. CASE k \notin gone
    <3>1. cursor'[k] = cursor[k] /\ batch'[k] = batch[k] /\ sPhase'[k] = sPhase[k]
      BY <2>2 DEF EndAll
    <3>. QED
      BY <1>1, <3>1 DEF StreamInv
  <2>. QED
    BY <2>1, <2>2
<1>. QED
  BY <1>6, <1>7 DEF StreamInv

\* A new request is a stream of the right shape.
LEMMA DialStream ==
    ASSUME IInv, NEW k \in Conns, NEW p \in Procs, Dial(k, p)
    PROVE  StreamTypeOK' /\ StreamInv'
<1>1. /\ StreamTypeOK /\ StreamInv /\ ClientTypeOK /\ position <= counter
      /\ counter' = counter
  BY DEF IInv, TypeOK, SeenInv, Dial, logVars
<1>2. /\ sPhase[k] = "free"
      /\ \E phase \in {"fresh", "resume"} : sPhase' = [sPhase EXCEPT ![k] = phase]
      /\ sHost' = [sHost EXCEPT ![k] = p]
      /\ cursor' = [cursor EXCEPT ![k] = position]
      /\ UNCHANGED <<batch, more, wire>>
  BY DEF Dial, Goto
<1>3. StreamTypeOK'
  BY <1>1, <1>2 DEF StreamTypeOK, ClientTypeOK
<1>4. batch[k] = << >> /\ Len(batch[k]) = 0
  BY <1>1, <1>2, EmptySeq DEF StreamInv
<1>5. ASSUME NEW j \in Conns
      PROVE  /\ cursor'[j] <= counter'
             /\ batch'[j] # << >> => sPhase'[j] \in {"send", "tail"}
             /\ sPhase'[j] = "send" => batch'[j] # << >>
             /\ \A i \in 1 .. Len(batch'[j]) :
                   batch'[j][i] = cursor'[j] + i /\ batch'[j][i] <= counter'
  <2>1. CASE j = k
    BY <1>1, <1>2, <1>4, <2>1 DEF StreamTypeOK
  <2>2. CASE j # k
    <3>1. cursor'[j] = cursor[j] /\ batch'[j] = batch[j] /\ sPhase'[j] = sPhase[j]
      BY <1>1, <1>2, <2>2 DEF StreamTypeOK
    <3>. QED
      BY <1>1, <3>1 DEF StreamInv
  <2>. QED
    BY <2>1, <2>2
<1>. QED
  BY <1>3, <1>5 DEF StreamInv

\* The steps of the subscriber on an open connection.
Hears ==
    Opened \/ RefusedGone \/ RefusedBusy \/ Ended \/ OnFrame \/ Break

\* Every step keeps the shape of the streams.
LEMMA StreamPart == IInv /\ [Next]_vars => StreamTypeOK' /\ StreamInv'
<1> SUFFICES ASSUME IInv, [Next]_vars PROVE StreamTypeOK' /\ StreamInv'
  OBVIOUS
<1>1. LogInv /\ LogInv' /\ counter <= counter' /\ StreamTypeOK /\ StreamInv
  BY LogPart, CounterGrows DEF IInv, TypeOK
<1>. USE <1>1
<1>2. CASE StreamsIdle
  <2>1. UNCHANGED <<sPhase, sHost, cursor, batch, more, wire>>
    BY <1>2, IdleStreams DEF streamVars
  <2>. QED
    BY <2>1, QuietStreams DEF StreamTypeOK
<1>3. ASSUME NEW p \in Procs, FeedReads(p)
      PROVE  StreamTypeOK' /\ StreamInv'
  <2>1. PICK woken \in SUBSET Conns :
          /\ more' = [k \in Conns |-> more[k] \/ k \in woken]
          /\ sPhase' = [k \in Conns |->
                IF k \in woken /\ sPhase[k] = "wait" THEN "top" ELSE sPhase[k]]
    BY <1>3 DEF FeedReads
  <2>2. UNCHANGED <<sHost, cursor, batch, wire>>
    BY <1>3 DEF FeedReads
  <2>3. more' \in [Conns -> BOOLEAN] /\ wire' \in [Conns -> Seq([kind : Kinds, id : Position])]
    BY <2>1, <2>2 DEF StreamTypeOK
  <2>. QED
    BY <2>1, <2>2, <2>3, QuietStreams
<1>4. ASSUME NEW p \in Procs, FeedStartFails(p) \/ Crash(p)
      PROVE  StreamTypeOK' /\ StreamInv'
  <2>1. counter' = counter
    BY <1>4 DEF FeedStartFails, Crash, logVars
  <2>2. \E gone \in SUBSET Conns : EndAll(gone, "error") \/ EndAll(gone, "eof")
    BY <1>4 DEF FeedStartFails, Crash, Users
  <2>. QED
    BY <2>1, <2>2, EndStreams
<1>5. ASSUME NEW k \in Conns, Accepting(k)
      PROVE  StreamTypeOK' /\ StreamInv'
  <2>1. counter' = counter
    BY <1>5
    DEF Accepting, ResolveFresh, ResolveResume, CheckRetained, TakeSlot, Accept, logVars
  <2>. QED
    BY <1>5, <2>1, AcceptStream
<1>6. ASSUME NEW k \in Conns, Streaming(k) \/ HeartbeatDue(k) \/ SendHeartbeat(k)
      PROVE  StreamTypeOK' /\ StreamInv'
  <2>1. counter' = counter
    BY <1>6 DEF Streaming, Top, ReadLog, Send, EndTurn, HeartbeatDue, SendHeartbeat, logVars
  <2>. QED
    BY <1>6, <2>1, TurnStream
<1>7. ASSUME NEW k \in Conns, Abandoned(k) \/ ServerEnds(k)
      PROVE  StreamTypeOK' /\ StreamInv'
  <2>1. counter' = counter /\ UNCHANGED sHost /\ Close(k)
    BY <1>7 DEF Abandoned, ServerEnds, logVars
  <2>. QED
    BY <2>1, CloseStream
<1>8. ASSUME NEW k \in Conns, NEW p \in Procs, Dial(k, p)
      PROVE  StreamTypeOK' /\ StreamInv'
  BY <1>8, DialStream
<1>9. CASE Hears
  <2>1. UNCHANGED <<sPhase, sHost, cursor, batch, more>>
    BY <1>9 DEF Hears, Opened, RefusedGone, RefusedBusy, Ended, OnFrame, Break
  <2>2. wire' \in [Conns -> Seq([kind : Kinds, id : Position])]
    <3>1. CASE Break
      BY <3>1, EmptySeq DEF Break, HangUp, StreamTypeOK
    <3>2. CASE ~ Break
      <4>1. (\E kind \in Kinds : Receive(kind)) /\ (ReadFrame \/ HangUp)
        BY <1>9, <3>2 DEF Hears, Opened, RefusedGone, RefusedBusy, Ended, OnFrame, Kinds
      <4>. QED
        BY <4>1, ReadType
    <3>. QED
      BY <3>1, <3>2
  <2>. QED
    BY <2>1, <2>2, QuietStreams DEF StreamTypeOK
<1>. QED
  BY <1>2, <1>3, <1>4, <1>5, <1>6, <1>7, <1>8, <1>9
  DEF Next, StreamsIdle, Subscriber, Hears

-----------------------------------------------------------------------------
(* Reference counts                                                        *)

\* Nobody joins or leaves a feed, and no live feed stops.
LEMMA HeldFrame ==
    ASSUME FeedHeld, FeedTypeOK,
           refs' = refs, \A p \in Procs : Users(p)' = Users(p),
           \A k \in Conns : sPhase'[k] \in Looping =>
              sHost'[k] = sHost[k] /\ (sPhase[k] \in Looping \/ fPhase[sHost[k]] = "on"),
           \A k \in Conns : fPhase[sHost[k]] = "on" => fPhase'[sHost[k]] = "on"
    PROVE  FeedHeld'
<1>1. \A p \in Procs : refs'[p] = Cardinality(Users(p)')
  BY DEF FeedHeld
<1>2. \A k \in Conns : sPhase'[k] \in Looping => fPhase'[sHost'[k]] = "on"
  BY DEF FeedHeld
<1>. QED
  BY <1>1, <1>2 DEF FeedHeld

\* The streams that use a feed are finitely many.
LEMMA UsersFinite == \A p \in Procs : IsFiniteSet(Users(p))
<1>1. ASSUME NEW p \in Procs PROVE IsFiniteSet(Users(p))
  BY FS_Subset, StreamAssumption DEF Users
<1>. QED
  BY <1>1

\* A stream that takes a slot joins the feed of its process.
LEMMA JoinHeld ==
    ASSUME FeedHeld, FeedTypeOK, FeedInv, StreamTypeOK, NEW k \in Conns,
           sPhase[k] = "slot", Acquire(sHost[k]), Goto(k, "acquire"), UNCHANGED sHost
    PROVE  FeedHeld'
<1>. DEFINE h == sHost[k]
<1>1. /\ h \in Procs /\ k \notin Users(h) /\ refs[h] \in Nat
      /\ sPhase' = [sPhase EXCEPT ![k] = "acquire"]
  BY DEF Users, Looping, StreamTypeOK, FeedTypeOK, Goto
<1>2. Users(h)' = Users(h) \cup {k}
  BY <1>1 DEF Users, StreamTypeOK
<1>3. \A p \in Procs \ {h} : Users(p)' = Users(p)
  BY <1>1 DEF Users, StreamTypeOK
<1>4. Cardinality(Users(h)') = refs[h] + 1
  <2>1. IsFiniteSet(Users(h)) /\ Cardinality(Users(h)) = refs[h]
    BY <1>1, UsersFinite DEF FeedHeld
  <2>2. Cardinality(Users(h) \cup {k}) = Cardinality(Users(h)) + 1
    BY <1>1, <2>1, FS_AddElement
  <2>. QED
    BY <1>2, <2>1, <2>2
<1>5. \A p \in Procs : refs'[p] = Cardinality(Users(p)')
  BY <1>1, <1>3, <1>4 DEF Acquire, FeedTypeOK, FeedHeld
<1>6. \A j \in Conns : sPhase'[j] \in Looping => sPhase[j] \in Looping
  BY <1>1 DEF StreamTypeOK, Looping
<1>7. \A p \in Procs : fPhase[p] = "on" => fPhase'[p] = "on"
  BY <1>1 DEF Acquire, FeedTypeOK, FeedInv
<1>8. \A j \in Conns : sPhase'[j] \in Looping => fPhase'[sHost'[j]] = "on"
  BY <1>6, <1>7 DEF FeedHeld, StreamTypeOK
<1>. QED
  BY <1>5, <1>8 DEF FeedHeld

\* A stream that leaves its loop releases the feed; the others keep it.
LEMMA LeaveHeld ==
    ASSUME FeedHeld, FeedTypeOK, StreamTypeOK, NEW k \in Conns,
           sPhase[k] \in Looping, Close(k), UNCHANGED sHost
    PROVE  FeedHeld'
<1>. DEFINE h == sHost[k]
<1>1. /\ h \in Procs /\ k \in Users(h) /\ refs[h] \in Nat
      /\ sPhase' = [sPhase EXCEPT ![k] = "free"] /\ Release(h)
  BY DEF Users, StreamTypeOK, FeedTypeOK, Close, Goto
<1>2. Users(h)' = Users(h) \ {k}
  BY <1>1 DEF Users, StreamTypeOK, Looping
<1>3. \A p \in Procs \ {h} : Users(p)' = Users(p)
  BY <1>1 DEF Users, StreamTypeOK, Looping
<1>4. IsFiniteSet(Users(h)) /\ refs[h] = Cardinality(Users(h))
  BY <1>1, UsersFinite DEF FeedHeld
<1>5. Cardinality(Users(h)') = refs[h] - 1
  BY <1>1, <1>2, <1>4, FS_RemoveElement
<1>6. refs'[h] = refs[h] - 1 /\ \A p \in Procs \ {h} : refs'[p] = refs[p]
  BY <1>1 DEF Release, Discard, FeedTypeOK
<1>7. \A p \in Procs : refs'[p] = Cardinality(Users(p)')
  BY <1>3, <1>5, <1>6 DEF FeedHeld
<1>8. ASSUME NEW j \in Conns, sPhase'[j] \in Looping
      PROVE  fPhase'[sHost'[j]] = "on"
  <2>1. j # k /\ sPhase[j] \in Looping /\ fPhase[sHost[j]] = "on" /\ sHost[j] \in Procs
    BY <1>1, <1>8 DEF StreamTypeOK, Looping, FeedHeld
  <2>2. CASE refs[h] = 1
    <3>1. Users(h) = {k}
      <4>. DEFINE U == Users(h)
      <4>. HIDE DEF U
      <4>1. Cardinality(U) = 1 /\ IsFiniteSet(U) /\ k \in U
        BY <1>1, <1>4, <2>2 DEF U
      <4>2. PICK x : U = {x}
        BY <4>1, FS_Singleton
      <4>. QED
        BY <4>1, <4>2 DEF U
    <3>2. sHost[j] # h
      BY <2>1, <3>1 DEF Users
    <3>. QED
      BY <1>1, <2>1, <2>2, <3>2 DEF Release, Discard, FeedTypeOK
  <2>3. CASE refs[h] # 1
    BY <1>1, <2>1, <2>3 DEF Release
  <2>. QED
    BY <2>2, <2>3
<1>. QED
  BY <1>7, <1>8 DEF FeedHeld

\* A process's feed goes with all the streams that hold it.
LEMMA DropHeld ==
    ASSUME FeedHeld, FeedTypeOK, StreamTypeOK, NEW p \in Procs,
           NEW gone \in SUBSET Conns, NEW kind, Users(p) \subseteq gone,
           \A k \in gone : sHost[k] = p,
           Discard(p), EndAll(gone, kind)
    PROVE  FeedHeld'
<1>1. /\ sPhase' = [k \in Conns |-> IF k \in gone THEN "free" ELSE sPhase[k]]
      /\ sHost' = sHost
  BY DEF EndAll
<1>2. Users(p)' = {}
  BY <1>1 DEF Users, Looping
<1>3. \A q \in Procs \ {p} : Users(q)' = Users(q)
  BY <1>1 DEF Users
<1>4. \A q \in Procs : refs'[q] = Cardinality(Users(q)')
  BY <1>2, <1>3, FS_EmptySet DEF Discard, FeedTypeOK, FeedHeld
<1>5. ASSUME NEW j \in Conns, sPhase'[j] \in Looping
      PROVE  fPhase'[sHost'[j]] = "on"
  <2>1. j \notin gone /\ sPhase[j] \in Looping /\ sHost[j] \in Procs
    BY <1>1, <1>5 DEF Looping, StreamTypeOK
  <2>2. sHost[j] # p /\ fPhase[sHost[j]] = "on"
    BY <2>1 DEF Users, FeedHeld
  <2>. QED
    BY <1>1, <2>1, <2>2 DEF Discard, FeedTypeOK
<1>. QED
  BY <1>4, <1>5 DEF FeedHeld

\* Every step keeps the feeds of open streams held: FeedHeld is kept.
LEMMA HeldPart == IInv /\ [Next]_vars => FeedHeld'
<1> SUFFICES ASSUME IInv, [Next]_vars PROVE FeedHeld'
  OBVIOUS
<1>1. FeedHeld /\ FeedTypeOK /\ FeedInv /\ StreamTypeOK
  BY DEF IInv, TypeOK
<1>. USE <1>1
<1>2. CASE StreamsIdle
  <2>1. UNCHANGED <<sPhase, sHost>> /\ \A p \in Procs : Users(p)' = Users(p)
    BY <1>2, IdleStreams DEF streamVars, Users
  <2>2. refs' = refs /\ \A p \in Procs : fPhase[p] = "on" => fPhase'[p] = "on"
    BY <1>2
    DEF StreamsIdle, LogActs, PublishAct, Publish, FeedActs, Query, ReadStart, Start, PollAct, Poll,
        FeedQueryFails, QueryFails, Reconnect, Reload, feedVars, vars, FeedTypeOK
  <2>. QED
    BY <2>1, <2>2, HeldFrame DEF StreamTypeOK
<1>3. ASSUME NEW p \in Procs, FeedReads(p)
      PROVE  FeedHeld'
  <2>1. /\ sHost' = sHost /\ refs' = refs /\ fPhase' = fPhase
        /\ \A k \in Conns : \/ sPhase'[k] = sPhase[k]
                            \/ sPhase[k] = "wait" /\ sPhase'[k] = "top"
    BY <1>3 DEF FeedReads, ApplyPage
  <2>2. \A k \in Conns : (sPhase'[k] \in Looping <=> sPhase[k] \in Looping)
                      /\ (sPhase'[k] = "acquire" <=> sPhase[k] = "acquire")
    BY <2>1 DEF Looping
  <2>3. \A q \in Procs : Users(q)' = Users(q)
    BY <2>1, <2>2 DEF Users
  <2>. QED
    BY <2>1, <2>2, <2>3, HeldFrame
<1>4. ASSUME NEW p \in Procs, FeedStartFails(p)
      PROVE  FeedHeld'
  <2>1. Users(p) \in SUBSET Conns /\ \A k \in Users(p) : sHost[k] = p
    BY DEF Users
  <2>. QED
    BY <1>4, <2>1, DropHeld DEF FeedStartFails, StartFails
<1>5. ASSUME NEW p \in Procs, Crash(p)
      PROVE  FeedHeld'
  <2>. DEFINE gone == {k \in Conns : sHost[k] = p /\ sPhase[k] # "free"}
  <2>1. gone \in SUBSET Conns /\ Users(p) \subseteq gone /\ \A k \in gone : sHost[k] = p
    BY DEF Users, Looping
  <2>2. Discard(p) /\ EndAll(gone, "eof")
    BY <1>5 DEF Crash
  <2>. HIDE DEF gone
  <2>. QED
    BY <2>1, <2>2, DropHeld
<1>6. ASSUME NEW k \in Conns, TakeSlot(k)
      PROVE  FeedHeld'
  <2>1. CASE Cardinality(Users(sHost[k])) >= MaxStreams
    <3>1. /\ sPhase[k] = "slot" /\ sPhase' = [sPhase EXCEPT ![k] = "free"]
          /\ UNCHANGED <<sHost, refs, fPhase>>
      BY <1>6, <2>1 DEF TakeSlot, Refuse, Goto, feedVars
    <3>2. \A p \in Procs : Users(p)' = Users(p)
      BY <3>1 DEF Users, StreamTypeOK, Looping
    <3>. QED
      BY <3>1, <3>2, HeldFrame DEF StreamTypeOK, Looping
  <2>2. CASE ~ (Cardinality(Users(sHost[k])) >= MaxStreams)
    BY <1>6, <2>2, JoinHeld DEF TakeSlot
  <2>. QED
    BY <2>1, <2>2
<1>7. ASSUME NEW k \in Conns, ResolveFresh(k) \/ ResolveResume(k) \/ CheckRetained(k)
      PROVE  FeedHeld'
  <2>1. /\ sPhase[k] \in {"fresh", "resume", "check"}
        /\ \E phase \in {"free", "check", "slot"} : sPhase' = [sPhase EXCEPT ![k] = phase]
        /\ UNCHANGED <<sHost, refs, fPhase>>
    BY <1>7 DEF ResolveFresh, ResolveResume, CheckRetained, Refuse, Goto, feedVars
  <2>2. \A p \in Procs : Users(p)' = Users(p)
    BY <2>1 DEF Users, StreamTypeOK, Looping
  <2>. QED
    BY <2>1, <2>2, HeldFrame DEF StreamTypeOK, Looping
<1>8. ASSUME NEW k \in Conns, Accept(k)
      PROVE  FeedHeld'
  <2>1. /\ sPhase[k] = "acquire" /\ fPhase[sHost[k]] = "on"
        /\ sPhase' = [sPhase EXCEPT ![k] = "top"]
        /\ UNCHANGED <<sHost, refs, fPhase>>
    BY <1>8 DEF Accept, Goto, feedVars
  <2>2. \A p \in Procs : Users(p)' = Users(p)
    BY <2>1 DEF Users, StreamTypeOK, Looping
  <2>. QED
    BY <2>1, <2>2, HeldFrame DEF StreamTypeOK, Looping
<1>9. ASSUME NEW k \in Conns, sPhase[k] \in Looping, Close(k), UNCHANGED sHost
      PROVE  FeedHeld'
  BY <1>9, LeaveHeld
<1>10. ASSUME NEW k \in Conns, Abandoned(k) \/ ServerEnds(k)
       PROVE  FeedHeld'
  BY <1>9, <1>10 DEF Abandoned, ServerEnds
<1>11. ASSUME NEW k \in Conns, Streaming(k) \/ HeartbeatDue(k) \/ SendHeartbeat(k), ~ Close(k)
       PROVE  FeedHeld'
  <2>1. /\ sPhase[k] \in Looping
        /\ \E phase \in Looping : sPhase' = [sPhase EXCEPT ![k] = phase]
        /\ UNCHANGED <<sHost, refs, fPhase>>
    <3>1. sPhase' = sPhase => sPhase' = [sPhase EXCEPT ![k] = sPhase[k]]
      BY DEF StreamTypeOK
    <3>. QED
      BY <1>11, <3>1
      DEF Streaming, Top, ReadLog, Send, EndTurn, HeartbeatDue, SendHeartbeat, Goto, feedVars, Looping
  <2>2. \A p \in Procs : Users(p)' = Users(p)
    BY <2>1 DEF Users, StreamTypeOK
  <2>. QED
    BY <2>1, <2>2, HeldFrame DEF StreamTypeOK
<1>12. ASSUME NEW k \in Conns, ReadLog(k), Close(k)
       PROVE  FeedHeld'
  BY <1>9, <1>12 DEF ReadLog, Looping
<1>13. ASSUME NEW k \in Conns, Streaming(k) \/ HeartbeatDue(k) \/ SendHeartbeat(k), Close(k),
              ~ ReadLog(k)
       PROVE  FeedHeld'
  <2>1. sPhase[k] \in Looping /\ UNCHANGED sHost
    BY <1>13 DEF Streaming, Top, Send, EndTurn, HeartbeatDue, SendHeartbeat, Looping
  <2>. QED
    BY <1>9, <1>13, <2>1
<1>14. ASSUME NEW k \in Conns, NEW p \in Procs, Dial(k, p)
       PROVE  FeedHeld'
  <2>1. /\ sPhase[k] = "free"
        /\ \E phase \in {"fresh", "resume"} : sPhase' = [sPhase EXCEPT ![k] = phase]
        /\ sHost' = [sHost EXCEPT ![k] = p]
        /\ UNCHANGED <<refs, fPhase>>
    BY <1>14 DEF Dial, Goto, feedVars
  <2>2. \A q \in Procs : Users(q)' = Users(q)
    BY <2>1 DEF Users, StreamTypeOK, Looping
  <2>. QED
    BY <2>1, <2>2, HeldFrame DEF StreamTypeOK, Looping
<1>15. CASE Hears
  <2>1. UNCHANGED <<sPhase, sHost, refs, fPhase>>
    BY <1>15 DEF Hears, Opened, RefusedGone, RefusedBusy, Ended, OnFrame, Break, feedVars
  <2>2. \A p \in Procs : Users(p)' = Users(p)
    BY <2>1 DEF Users
  <2>. QED
    BY <2>1, <2>2, HeldFrame
<1>. QED
  BY <1>2, <1>3, <1>4, <1>5, <1>6, <1>7, <1>8, <1>10, <1>11, <1>12, <1>13, <1>14, <1>15
  DEF Next, StreamsIdle, Subscriber, Hears, Accepting

-----------------------------------------------------------------------------
(* The frames on a wire                                                    *)

Frames == [kind : Kinds, id : Position]

\* The entries of a wire a frame is added to, and of one its head is read
\* from.
LEMMA AppendFrame ==
    ASSUME NEW w \in Seq(Frames), NEW f \in Frames
    PROVE  /\ Append(w, f) \in Seq(Frames) /\ Append(w, f) # << >>
           /\ Len(Append(w, f)) = Len(w) + 1 /\ Len(w) \in Nat
           /\ \A i \in 1 .. Len(w) : i \in 1 .. Len(w) + 1 /\ Append(w, f)[i] = w[i]
           /\ Len(w) + 1 \in 1 .. Len(w) + 1 /\ Append(w, f)[Len(w) + 1] = f
           /\ \A i \in 1 .. Len(w) + 1 : i \in 1 .. Len(w) \/ i = Len(w) + 1
<1>1. /\ Append(w, f) \in Seq(Frames) /\ Len(Append(w, f)) = Len(w) + 1
      /\ \A i \in 1 .. Len(w) : Append(w, f)[i] = w[i]
      /\ Append(w, f)[Len(w) + 1] = f /\ Len(w) \in Nat
  BY AppendProperties, LenProperties
<1>2. Append(w, f) # << >>
  BY <1>1, EmptySeq
<1>. QED
  BY <1>1, <1>2

\* What is left of a wire when its first frame is read.
LEMMA TailFrames ==
    ASSUME NEW w \in Seq(Frames), w # << >>
    PROVE  /\ Tail(w) \in Seq(Frames) /\ Len(Tail(w)) = Len(w) - 1
           /\ Len(w) \in Nat /\ 1 \in 1 .. Len(w)
           /\ Head(w) = w[1] /\ w[1] \in Frames
           /\ \A i \in 1 .. Len(Tail(w)) : i + 1 \in 1 .. Len(w) /\ Tail(w)[i] = w[i + 1]
           /\ \A i \in 2 .. Len(w) : i - 1 \in 1 .. Len(Tail(w)) /\ Tail(w)[i - 1] = w[i]
<1>1. /\ Tail(w) \in Seq(Frames) /\ Len(Tail(w)) = Len(w) - 1
      /\ Len(w) \in Nat /\ Len(w) # 0 /\ Head(w) = w[1]
      /\ \A i \in 1 .. Len(Tail(w)) : Tail(w)[i] = w[i + 1]
  BY HeadTailProperties, LenProperties, EmptySeq
<1>2. 1 \in 1 .. Len(w)
  BY <1>1
<1>3. w[1] \in Frames
  BY <1>2, ElementOfSeq
<1>4. \A i \in 1 .. Len(Tail(w)) : i + 1 \in 1 .. Len(w)
  BY <1>1
<1>5. ASSUME NEW i \in 2 .. Len(w)
      PROVE  i - 1 \in 1 .. Len(Tail(w)) /\ Tail(w)[i - 1] = w[i]
  <2>1. i - 1 \in 1 .. Len(Tail(w)) /\ (i - 1) + 1 = i
    BY <1>1
  <2>. QED
    BY <1>1, <2>1
<1>. QED
  BY <1>1, <1>2, <1>3, <1>4, <1>5

\* Every frame of a wire has an id and a kind.
LEMMA FrameIds ==
    ASSUME NEW w \in Seq(Frames)
    PROVE  \A i \in 1 .. Len(w) : w[i] \in Frames /\ w[i].id \in Nat /\ w[i].kind \in Kinds
<1>1. ASSUME NEW i \in 1 .. Len(w)
      PROVE  w[i] \in Frames
  BY ElementOfSeq
<1>. QED
  BY <1>1, LogAssumption DEF Frames, Position

\* An empty wire brings nobody anywhere.
LEMMA EmptyWire ==
    ASSUME NEW b \in Nat, NEW top
    PROVE  OrderedFrom(<< >>, b, top) /\ Reaches(<< >>, b, b)
<1>1. Len(<< >>) = 0
  BY EmptySeq
<1>2. \A s \in Wanted : ~ (b < s /\ s <= b)
  BY StreamAssumption
<1>. QED
  BY <1>1, <1>2 DEF OrderedFrom, Reaches

\* A frame that carries no position: an answer, or the end of the stream.
LEMMA AppendOther ==
    ASSUME NEW w \in Seq(Frames), NEW f \in Frames, ~ Data(f), NEW b \in Nat, NEW top,
           NEW c
    PROVE  /\ OrderedFrom(w, b, top) => OrderedFrom(Append(w, f), b, top)
           /\ Reaches(w, b, c) => Reaches(Append(w, f), b, c)
<1>. DEFINE v == Append(w, f)
<1>1. /\ Len(v) = Len(w) + 1 /\ Len(w) \in Nat
      /\ \A i \in 1 .. Len(w) : i \in 1 .. Len(v) /\ v[i] = w[i]
      /\ \A i \in 1 .. Len(v) : i \in 1 .. Len(w) \/ ~ Data(v[i])
  BY AppendFrame
<1>. HIDE DEF v
<1>2. \A s : (\E j \in 1 .. Len(w) : w[j].kind = "event" /\ w[j].id = s)
             => \E j \in 1 .. Len(v) : v[j].kind = "event" /\ v[j].id = s
  BY <1>1
<1>3. ASSUME OrderedFrom(w, b, top)
      PROVE  OrderedFrom(v, b, top)
  <2>. USE <1>3
  <2>1. \A i \in 1 .. Len(v) : Data(v[i]) =>
          /\ b <= v[i].id /\ v[i].id <= top
          /\ v[i].kind = "event" => v[i].id \in Wanted /\ b < v[i].id
    BY <1>1 DEF OrderedFrom
  <2>2. \A i \in 1 .. Len(v) : Data(v[i]) =>
          \A s \in Wanted : b < s /\ s <= v[i].id =>
             \E j \in 1 .. Len(v) : v[j].kind = "event" /\ v[j].id = s
    BY <1>1, <1>2 DEF OrderedFrom
  <2>3. \A i, j \in 1 .. Len(v) : i < j /\ Data(v[i]) /\ Data(v[j]) =>
          /\ v[i].id <= v[j].id
          /\ v[j].kind = "event" => v[i].id < v[j].id
    BY <1>1 DEF OrderedFrom
  <2>. QED
    BY <2>1, <2>2, <2>3 DEF OrderedFrom
<1>4. Reaches(w, b, c) => Reaches(v, b, c)
  BY <1>1, <1>2 DEF Reaches
<1>. QED
  BY <1>3, <1>4 DEF v

\* A heartbeat at c, which the wire reaches already.
LEMMA AppendBeat ==
    ASSUME NEW w \in Seq(Frames), NEW b \in Nat, NEW top \in Nat, NEW c \in Position, c <= top,
           OrderedFrom(w, b, top), Reaches(w, b, c)
    PROVE  /\ OrderedFrom(Append(w, Frame("beat", c)), b, top)
           /\ Reaches(Append(w, Frame("beat", c)), b, c)
<1>. DEFINE f == Frame("beat", c)
            v == Append(w, f)
<1>1. f \in Frames /\ f.kind = "beat" /\ f.id = c /\ c \in Nat
  BY LogAssumption DEF Frame, Frames, Kinds, Position
<1>. HIDE DEF f
<1>2. /\ Len(v) = Len(w) + 1 /\ Len(w) \in Nat
      /\ \A i \in 1 .. Len(w) : i \in 1 .. Len(v) /\ v[i] = w[i]
      /\ v[Len(v)] = f
      /\ \A i \in 1 .. Len(v) : i \in 1 .. Len(w) \/ i = Len(v)
  BY <1>1, AppendFrame
<1>. HIDE DEF v
<1>3. \A s : (\E j \in 1 .. Len(w) : w[j].kind = "event" /\ w[j].id = s)
             => \E j \in 1 .. Len(v) : v[j].kind = "event" /\ v[j].id = s
  BY <1>2
<1>4. Reaches(v, b, c)
  <2>1. \A i \in 1 .. Len(v) : Data(v[i]) => v[i].id <= c
    BY <1>1, <1>2 DEF Reaches
  <2>2. \A s \in Wanted : b < s /\ s <= c =>
          \E j \in 1 .. Len(v) : v[j].kind = "event" /\ v[j].id = s
    BY <1>3 DEF Reaches
  <2>. QED
    BY <2>1, <2>2 DEF Reaches
<1>5. \A i \in 1 .. Len(v) : Data(v[i]) =>
        /\ b <= v[i].id /\ v[i].id <= top
        /\ v[i].kind = "event" => v[i].id \in Wanted /\ b < v[i].id
  BY <1>1, <1>2 DEF OrderedFrom, Reaches
<1>6. \A i \in 1 .. Len(v) : Data(v[i]) =>
        \A s \in Wanted : b < s /\ s <= v[i].id =>
           \E j \in 1 .. Len(v) : v[j].kind = "event" /\ v[j].id = s
  <2>1. ASSUME NEW i \in 1 .. Len(v), Data(v[i]), NEW s \in Wanted, b < s, s <= v[i].id
        PROVE  \E j \in 1 .. Len(v) : v[j].kind = "event" /\ v[j].id = s
    <3>1. CASE i \in 1 .. Len(w)
      BY <1>2, <1>3, <2>1, <3>1 DEF OrderedFrom
    <3>2. CASE i = Len(v)
      BY <1>1, <1>2, <1>3, <2>1, <3>2 DEF Reaches
    <3>. QED
      BY <1>2, <3>1, <3>2
  <2>. QED
    BY <2>1
<1>7. ASSUME NEW i \in 1 .. Len(v), NEW j \in 1 .. Len(v), i < j, Data(v[i]), Data(v[j])
      PROVE  /\ v[i].id <= v[j].id
             /\ v[j].kind = "event" => v[i].id < v[j].id
  <2>1. CASE j \in 1 .. Len(w)
    BY <1>2, <1>7, <2>1 DEF OrderedFrom
  <2>2. CASE j = Len(v)
    BY <1>1, <1>2, <1>7, <2>2 DEF Reaches
  <2>. QED
    BY <1>2, <2>1, <2>2
<1>. QED
  BY <1>4, <1>5, <1>6, <1>7 DEF OrderedFrom, f, v

\* The next position: its event when the filter lets it through, nothing
\* otherwise.
LEMMA AppendEvent ==
    ASSUME NEW w \in Seq(Frames), NEW b \in Nat, NEW top \in Nat, NEW c \in Position,
           c + 1 \in Position, c + 1 <= top, c + 1 \in Wanted,
           OrderedFrom(w, b, top), Reaches(w, b, c)
    PROVE  /\ OrderedFrom(Append(w, Frame("event", c + 1)), b, top)
           /\ Reaches(Append(w, Frame("event", c + 1)), b, c + 1)
<1>. DEFINE f == Frame("event", c + 1)
            v == Append(w, f)
<1>1. f \in Frames /\ f.kind = "event" /\ f.id = c + 1 /\ c \in Nat
  BY LogAssumption DEF Frame, Frames, Kinds, Position
<1>. HIDE DEF f
<1>2. /\ Len(v) = Len(w) + 1 /\ Len(w) \in Nat
      /\ \A i \in 1 .. Len(w) : i \in 1 .. Len(v) /\ v[i] = w[i] /\ w[i].id \in Nat
      /\ v[Len(v)] = f /\ Len(v) \in 1 .. Len(v)
      /\ \A i \in 1 .. Len(v) : i \in 1 .. Len(w) \/ i = Len(v)
  BY <1>1, AppendFrame, FrameIds
<1>. HIDE DEF v
<1>3. \A s : (\E j \in 1 .. Len(w) : w[j].kind = "event" /\ w[j].id = s) \/ s = c + 1
             => \E j \in 1 .. Len(v) : v[j].kind = "event" /\ v[j].id = s
  BY <1>1, <1>2
<1>4. \A s \in Wanted : b < s /\ s <= c + 1 =>
        \E j \in 1 .. Len(v) : v[j].kind = "event" /\ v[j].id = s
  <2>1. \A s \in Wanted : s <= c + 1 => s <= c \/ s = c + 1
    BY <1>1, StreamAssumption
  <2>. QED
    BY <1>3, <2>1 DEF Reaches
<1>5. Reaches(v, b, c + 1)
  <2>1. \A i \in 1 .. Len(v) : Data(v[i]) => v[i].id <= c + 1
    BY <1>1, <1>2 DEF Reaches
  <2>. QED
    BY <1>1, <1>4, <2>1 DEF Reaches
<1>6. \A i \in 1 .. Len(v) : Data(v[i]) =>
        /\ b <= v[i].id /\ v[i].id <= top
        /\ v[i].kind = "event" => v[i].id \in Wanted /\ b < v[i].id
  BY <1>1, <1>2 DEF OrderedFrom, Reaches
<1>7. \A i \in 1 .. Len(v) : Data(v[i]) =>
        \A s \in Wanted : b < s /\ s <= v[i].id =>
           \E j \in 1 .. Len(v) : v[j].kind = "event" /\ v[j].id = s
  <2>1. ASSUME NEW i \in 1 .. Len(v), Data(v[i]), NEW s \in Wanted, b < s, s <= v[i].id
        PROVE  \E j \in 1 .. Len(v) : v[j].kind = "event" /\ v[j].id = s
    <3>1. CASE i \in 1 .. Len(w)
      BY <1>2, <1>3, <2>1, <3>1 DEF OrderedFrom
    <3>2. CASE i = Len(v)
      BY <1>1, <1>2, <1>4, <2>1, <3>2
    <3>. QED
      BY <1>2, <3>1, <3>2
  <2>. QED
    BY <2>1
<1>8. ASSUME NEW i \in 1 .. Len(v), NEW j \in 1 .. Len(v), i < j, Data(v[i]), Data(v[j])
      PROVE  /\ v[i].id <= v[j].id
             /\ v[j].kind = "event" => v[i].id < v[j].id
  <2>1. CASE j \in 1 .. Len(w)
    BY <1>2, <1>8, <2>1 DEF OrderedFrom
  <2>2. CASE j = Len(v)
    <3>1. i \in 1 .. Len(w) /\ v[i].id = w[i].id /\ w[i].id <= c /\ v[j].id = c + 1
      BY <1>1, <1>2, <1>8, <2>2 DEF Reaches
    <3>. QED
      BY <1>1, <1>2, <3>1
  <2>. QED
    BY <1>2, <2>1, <2>2
<1>. QED
  BY <1>5, <1>6, <1>7, <1>8 DEF OrderedFrom, f, v

\* A wire that reaches up to an event reaches past one nobody wants.
LEMMA PassOver ==
    ASSUME NEW w \in Seq(Frames), NEW b \in Nat, NEW c \in Nat, c + 1 \notin Wanted,
           Reaches(w, b, c)
    PROVE  Reaches(w, b, c + 1)
<1>1. \A s \in Wanted : s <= c + 1 => s <= c
  BY StreamAssumption
<1>2. \A i \in 1 .. Len(w) : w[i].id \in Nat
  BY FrameIds
<1>. QED
  BY <1>1, <1>2 DEF Reaches

\* A reader that reads the first frame goes on from there.
LEMMA TailOrdered ==
    ASSUME NEW w \in Seq(Frames), w # << >>, NEW b \in Nat, NEW top \in Nat, NEW nb \in Nat,
           OrderedFrom(w, b, top),
           Data(w[1]) => nb = w[1].id,
           ~ Data(w[1]) => nb = b
    PROVE  /\ OrderedFrom(Tail(w), nb, top)
           /\ \A c \in Nat : Reaches(w, b, c) => Reaches(Tail(w), nb, c)
<1>. DEFINE v == Tail(w)
<1>1. /\ Len(v) = Len(w) - 1 /\ Len(w) \in Nat /\ 1 \in 1 .. Len(w)
      /\ \A i \in 1 .. Len(v) : i + 1 \in 1 .. Len(w) /\ v[i] = w[i + 1]
      /\ \A i \in 2 .. Len(w) : i - 1 \in 1 .. Len(v) /\ v[i - 1] = w[i]
      /\ \A i \in 1 .. Len(w) : w[i].id \in Nat
  BY TailFrames, FrameIds
<1>. HIDE DEF v
<1>2. b <= nb
  BY <1>1 DEF OrderedFrom
<1>3. ASSUME NEW s \in Wanted, nb < s,
             \E j \in 1 .. Len(w) : w[j].kind = "event" /\ w[j].id = s
      PROVE  \E j \in 1 .. Len(v) : v[j].kind = "event" /\ v[j].id = s
  <2>1. PICK j \in 1 .. Len(w) : w[j].kind = "event" /\ w[j].id = s
    BY <1>3
  <2>2. j # 1
    BY <1>1, <1>3, <2>1 DEF Data
  <2>3. j \in 2 .. Len(w)
    BY <1>1, <2>2
  <2>. QED
    BY <1>1, <2>1, <2>3
<1>4. ASSUME NEW i \in 1 .. Len(v), Data(v[i])
      PROVE  /\ nb <= v[i].id /\ v[i].id <= top
             /\ v[i].kind = "event" => v[i].id \in Wanted /\ nb < v[i].id
  <2>1. i + 1 \in 1 .. Len(w) /\ v[i] = w[i + 1] /\ 1 < i + 1
    BY <1>1
  <2>2. /\ b <= v[i].id /\ v[i].id <= top
        /\ v[i].kind = "event" => v[i].id \in Wanted /\ b < v[i].id
    BY <1>4, <2>1 DEF OrderedFrom
  <2>3. Data(w[1]) => nb <= v[i].id /\ (v[i].kind = "event" => nb < v[i].id)
    BY <1>1, <1>4, <2>1 DEF OrderedFrom
  <2>. QED
    BY <2>2, <2>3
<1>5. ASSUME NEW i \in 1 .. Len(v), Data(v[i]), NEW s \in Wanted, nb < s, s <= v[i].id
      PROVE  \E j \in 1 .. Len(v) : v[j].kind = "event" /\ v[j].id = s
  <2>1. i + 1 \in 1 .. Len(w) /\ v[i] = w[i + 1]
    BY <1>1
  <2>2. b < s
    BY <1>2, <1>5, StreamAssumption
  <2>3. \E j \in 1 .. Len(w) : w[j].kind = "event" /\ w[j].id = s
    BY <1>5, <2>1, <2>2 DEF OrderedFrom
  <2>. QED
    BY <1>3, <1>5, <2>3
<1>6. ASSUME NEW i \in 1 .. Len(v), NEW j \in 1 .. Len(v), i < j, Data(v[i]), Data(v[j])
      PROVE  /\ v[i].id <= v[j].id
             /\ v[j].kind = "event" => v[i].id < v[j].id
  <2>1. i + 1 \in 1 .. Len(w) /\ j + 1 \in 1 .. Len(w) /\ i + 1 < j + 1
    BY <1>1, <1>6
  <2>2. v[i] = w[i + 1] /\ v[j] = w[j + 1]
    BY <1>1
  <2>. QED
    BY <1>6, <2>1, <2>2 DEF OrderedFrom
<1>7. OrderedFrom(v, nb, top)
  BY <1>4, <1>5, <1>6 DEF OrderedFrom
<1>8. ASSUME NEW c \in Nat, Reaches(w, b, c)
      PROVE  Reaches(v, nb, c)
  <2>1. nb <= c
    BY <1>1, <1>8 DEF Reaches
  <2>2. \A i \in 1 .. Len(v) : Data(v[i]) => v[i].id <= c
    BY <1>1, <1>8 DEF Reaches
  <2>3. ASSUME NEW s \in Wanted, nb < s, s <= c
        PROVE  \E j \in 1 .. Len(v) : v[j].kind = "event" /\ v[j].id = s
    <3>1. b < s
      BY <1>2, <2>3, StreamAssumption
    <3>. QED
      BY <1>3, <1>8, <2>3, <3>1 DEF Reaches
  <2>. QED
    BY <2>1, <2>2, <2>3 DEF Reaches
<1>. QED
  BY <1>7, <1>8 DEF v

\* The log may grow under them.
LEMMA RaiseTop ==
    ASSUME NEW w \in Seq(Frames), NEW b, NEW top \in Nat, NEW higher \in Nat, top <= higher,
           OrderedFrom(w, b, top)
    PROVE  OrderedFrom(w, b, higher)
<1>1. \A i \in 1 .. Len(w) : w[i].id \in Nat
  BY FrameIds
<1>2. \A i \in 1 .. Len(w) : Data(w[i]) =>
        /\ b <= w[i].id /\ w[i].id <= higher
        /\ w[i].kind = "event" => w[i].id \in Wanted /\ b < w[i].id
  BY <1>1 DEF OrderedFrom
<1>. QED
  BY <1>2 DEF OrderedFrom

-----------------------------------------------------------------------------
(* What the server's steps do to the subscriber's connection c             *)

Quiet(c) ==
    /\ wire'[c] = wire[c] /\ cursor'[c] = cursor[c]
    /\ \/ sPhase'[c] = sPhase[c]
       \/ sPhase[c] \in Looping /\ sPhase'[c] \in Looping
       \/ sPhase[c] \in Waiting \ {"fresh"} /\ sPhase'[c] \in {"slot", "acquire"}
       \/ sPhase[c] = "resume" /\ sPhase'[c] = "check"

Positioned(c) ==
    /\ sPhase[c] = "fresh" /\ sPhase'[c] = "slot"
    /\ wire'[c] = wire[c] /\ cursor'[c] = counter

Refused(c) ==
    /\ sPhase[c] \in Waiting /\ sPhase'[c] = "free"
    /\ \E kind \in {"gone", "busy", "error", "eof"} : wire'[c] = Append(wire[c], Frame(kind, 0))

Accepted(c) ==
    /\ sPhase[c] = "acquire" /\ sPhase'[c] = "top"
    /\ cursor'[c] = cursor[c]
    /\ wire'[c] = Append(wire[c], Frame("start", cursor[c]))

Passed(c) ==
    /\ sPhase[c] \in Looping /\ sPhase'[c] \in Looping
    /\ cursor'[c] = cursor[c] + 1 /\ cursor[c] + 1 <= counter
    /\ wire'[c] = IF cursor[c] + 1 \in Wanted
                  THEN Append(wire[c], Frame("event", cursor[c] + 1)) ELSE wire[c]

Beaten(c) ==
    /\ sPhase[c] \in Looping /\ sPhase'[c] \in Looping
    /\ cursor'[c] = cursor[c]
    /\ wire'[c] = Append(wire[c], Frame("beat", cursor[c]))

Closed(c) ==
    /\ sPhase[c] \in Looping /\ sPhase'[c] = "free"
    /\ wire'[c] = Append(wire[c], Frame("eof", 0))

ServerStep ==
    /\ UNCHANGED clientVars
    /\ \A k \in Conns : k # conn => wire'[k] = wire[k]
    /\ conn # NoConn =>
          \/ Quiet(conn) \/ Positioned(conn) \/ Refused(conn) \/ Accepted(conn)
          \/ Passed(conn) \/ Beaten(conn) \/ Closed(conn)

\* The steps of the stream k are steps of the server.
LEMMA StreamServes ==
    ASSUME IInv, NEW k \in Conns,
           \/ Accepting(k) \/ Streaming(k) \/ HeartbeatDue(k) \/ SendHeartbeat(k)
           \/ Abandoned(k) \/ ServerEnds(k)
    PROVE  ServerStep
<1>1. StreamTypeOK /\ StreamInv /\ LogTypeOK
  BY DEF IInv, TypeOK
<1>2. UNCHANGED clientVars
  BY DEF Accepting, ResolveFresh, ResolveResume, CheckRetained, TakeSlot, Accept, Streaming, Top,
         ReadLog, Send, EndTurn, HeartbeatDue, SendHeartbeat, Abandoned, ServerEnds
<1>3. ASSUME NEW j \in Conns, j # conn
      PROVE  wire'[j] = wire[j]
  <2>1. wire' = wire \/ (conn = k /\ \E f : wire' = [wire EXCEPT ![k] = f])
    BY DEF Accepting, ResolveFresh, ResolveResume, CheckRetained, TakeSlot, Accept, Refuse,
           Streaming, Top, ReadLog, Send, EndTurn, HeartbeatDue, SendHeartbeat, Abandoned,
           ServerEnds, Close, Put
  <2>. QED
    BY <1>1, <1>3, <2>1 DEF StreamTypeOK
<1>4. CASE conn # k
  <2>1. \A j \in Conns \ {k} : sPhase'[j] = sPhase[j] /\ cursor'[j] = cursor[j]
    BY <1>1
    DEF Accepting, ResolveFresh, ResolveResume, CheckRetained, TakeSlot, Accept, Refuse,
        Streaming, Top, ReadLog, Send, EndTurn, HeartbeatDue, SendHeartbeat, Abandoned,
        ServerEnds, Close, Goto, StreamTypeOK
  <2>2. wire' = wire
    BY <1>4
    DEF Accepting, ResolveFresh, ResolveResume, CheckRetained, TakeSlot, Accept, Refuse,
        Streaming, Top, ReadLog, Send, EndTurn, HeartbeatDue, SendHeartbeat, Abandoned,
        ServerEnds, Close, Put
  <2>3. conn # NoConn => Quiet(conn)
    BY <1>4, <2>1, <2>2 DEF Quiet, IInv, TypeOK, ClientTypeOK
  <2>. QED
    BY <1>2, <1>3, <2>3 DEF ServerStep
<1>5. CASE conn = k
  <2>. USE <1>5
  <2>0. \A f : Put(k, f) => wire'[k] = Append(wire[k], f)
    BY <1>1 DEF Put, StreamTypeOK
  <2>1. \A phase : Goto(k, phase) => sPhase'[k] = phase
    BY <1>1 DEF Goto, StreamTypeOK
  <2>2. ASSUME NEW kind \in {"gone", "busy"}, Refuse(k, kind), sPhase[k] \in Waiting
        PROVE  Refused(k)
    BY <2>0, <2>1, <2>2 DEF Refuse, Refused
  <2>3. ASSUME Close(k), sPhase[k] \in Looping
        PROVE  Closed(k)
    BY <2>0, <2>1, <2>3 DEF Close, Closed
  <2>4. ASSUME ResolveFresh(k)
        PROVE  Positioned(k)
    BY <1>1, <2>1, <2>4 DEF ResolveFresh, Positioned, StreamTypeOK
  <2>5. ASSUME ResolveResume(k)
        PROVE  Quiet(k) \/ Refused(k)
    BY <2>1, <2>2, <2>5 DEF ResolveResume, Quiet, Waiting
  <2>6. ASSUME CheckRetained(k)
        PROVE  Quiet(k) \/ Refused(k)
    BY <2>1, <2>2, <2>6 DEF CheckRetained, Quiet, Waiting
  <2>7. ASSUME TakeSlot(k)
        PROVE  Quiet(k) \/ Refused(k)
    BY <2>1, <2>2, <2>7 DEF TakeSlot, Quiet, Waiting
  <2>8. ASSUME Accept(k)
        PROVE  Accepted(k)
    BY <2>0, <2>1, <2>8 DEF Accept, Accepted
  <2>9. ASSUME Top(k)
        PROVE  Quiet(k)
    BY <2>1, <2>9 DEF Top, Quiet, Looping
  <2>10. ASSUME ReadLog(k)
         PROVE  Quiet(k) \/ Closed(k)
    BY <2>1, <2>3, <2>10 DEF ReadLog, Quiet, Looping
  <2>11. ASSUME Send(k)
         PROVE  Passed(k)
    <3>1. Head(batch[k]) = cursor[k] + 1 /\ cursor[k] + 1 <= counter
      <4>1. batch[k] # << >> /\ batch[k] \in Seq(1 .. MaxSeq)
        BY <1>1, <2>11 DEF Send, StreamInv, StreamTypeOK
      <4>2. Head(batch[k]) = batch[k][1] /\ 1 \in 1 .. Len(batch[k])
        BY <4>1, HeadTailProperties, EmptySeq, LenProperties
      <4>. QED
        BY <1>1, <4>2 DEF StreamInv
    <3>2. cursor'[k] = cursor[k] + 1
      BY <1>1, <2>11, <3>1 DEF Send, StreamTypeOK
    <3>. QED
      BY <2>0, <2>1, <2>11, <3>1, <3>2 DEF Send, Passed, Looping
  <2>12. ASSUME EndTurn(k) \/ HeartbeatDue(k)
         PROVE  Quiet(k)
    BY <2>1, <2>12 DEF EndTurn, HeartbeatDue, Quiet, Looping
  <2>13. ASSUME SendHeartbeat(k)
         PROVE  Beaten(k)
    BY <2>0, <2>13 DEF SendHeartbeat, Beaten, Looping
  <2>14. ASSUME Abandoned(k) \/ ServerEnds(k)
         PROVE  Closed(k)
    BY <2>3, <2>14 DEF Abandoned, ServerEnds
  <2>. QED
    BY <1>2, <1>3, <2>4, <2>5, <2>6, <2>7, <2>8, <2>9, <2>10, <2>11, <2>12, <2>13, <2>14
    DEF ServerStep, Accepting, Streaming
<1>. QED
  BY <1>4, <1>5

\* So are those that touch many streams, and those that touch none.
LEMMA EndServes ==
    ASSUME IInv, NEW gone \in SUBSET Conns, NEW kind \in {"error", "eof"},
           \A k \in gone : \/ sPhase[k] \in Waiting
                           \/ sPhase[k] \in Looping /\ kind = "eof",
           EndAll(gone, kind), UNCHANGED clientVars
    PROVE  ServerStep
<1>1. \A k \in Conns : k # conn => wire'[k] = wire[k]
  BY DEF EndAll
<1>2. ASSUME conn # NoConn, conn \in gone
      PROVE  Refused(conn) \/ Closed(conn)
  <2>1. sPhase'[conn] = "free" /\ wire'[conn] = Append(wire[conn], Frame(kind, 0))
    BY <1>2 DEF EndAll
  <2>. QED
    BY <1>2, <2>1 DEF Refused, Closed
<1>3. ASSUME conn # NoConn, conn \notin gone
      PROVE  Quiet(conn)
  <2>1. conn \in Conns
    BY <1>3 DEF IInv, TypeOK, ClientTypeOK
  <2>. QED
    BY <1>3, <2>1 DEF EndAll, Quiet
<1>. QED
  BY <1>1, <1>2, <1>3 DEF ServerStep

\* A step that is not the subscriber's own is one of the server's.
LEMMA ServerSteps ==
    IInv /\ [Next]_vars =>
        \/ ServerStep
        \/ \E k \in Conns, p \in Procs : Dial(k, p)
        \/ Hears \/ Reconnect \/ Reload
<1> SUFFICES ASSUME IInv, [Next]_vars, ~ Reconnect, ~ Reload, ~ Hears,
                    ~ \E k \in Conns, p \in Procs : Dial(k, p)
             PROVE  ServerStep
  OBVIOUS
<1>1. StreamTypeOK /\ ClientTypeOK /\ FeedHeld
  BY DEF IInv, TypeOK
<1>2. CASE StreamsIdle
  <2>1. UNCHANGED streamVars /\ UNCHANGED clientVars
    BY <1>2, IdleStreams
    DEF StreamsIdle, LogActs, PublishAct, FeedActs, PollAct, FeedQueryFails, vars
  <2>. QED
    BY <2>1 DEF streamVars, ServerStep, Quiet
<1>3. ASSUME NEW p \in Procs, FeedReads(p)
      PROVE  ServerStep
  <2>1. /\ UNCHANGED <<cursor, wire, clientVars>>
        /\ \A k \in Conns : \/ sPhase'[k] = sPhase[k]
                            \/ sPhase[k] = "wait" /\ sPhase'[k] = "top"
    BY <1>3 DEF FeedReads
  <2>. QED
    BY <1>1, <2>1 DEF ServerStep, Quiet, Looping, ClientTypeOK
<1>4. ASSUME NEW p \in Procs, FeedStartFails(p)
      PROVE  ServerStep
  <2>1. fPhase[p] = "starting" /\ EndAll(Users(p), "error") /\ UNCHANGED clientVars
    BY <1>4 DEF FeedStartFails, StartFails
  <2>2. Users(p) \in SUBSET Conns /\ \A k \in Users(p) : sPhase[k] \in Waiting
    BY <1>1, <2>1 DEF Users, FeedHeld, Waiting
  <2>. QED
    BY <2>1, <2>2, EndServes
<1>5. ASSUME NEW p \in Procs, Crash(p)
      PROVE  ServerStep
  <2>. DEFINE gone == {k \in Conns : sHost[k] = p /\ sPhase[k] # "free"}
  <2>1. gone \in SUBSET Conns /\ \A k \in gone : sPhase[k] \in Waiting \/ sPhase[k] \in Looping
    BY <1>1 DEF StreamTypeOK, Waiting
  <2>2. EndAll(gone, "eof") /\ UNCHANGED clientVars
    BY <1>5 DEF Crash
  <2>. HIDE DEF gone
  <2>. QED
    BY <2>1, <2>2, EndServes
<1>. QED
  BY <1>2, <1>3, <1>4, <1>5, StreamServes DEF Next, StreamsIdle, Subscriber, Hears

-----------------------------------------------------------------------------
(* The subscriber's wire under the server's steps                          *)

\* What the invariant says of the connection, with its parts named.
LEMMA WireFacts ==
    ASSUME IInv, conn # NoConn
    PROVE  /\ conn \in Conns /\ wire[conn] \in Seq(Frames) /\ Len(wire[conn]) \in Nat
           /\ cursor[conn] \in Position /\ cursor[conn] \in Nat /\ cursor[conn] <= counter
           /\ position \in Position /\ position \in Nat /\ position <= counter
           /\ counter \in Nat /\ counter \in Position
           /\ Base \in Nat
           /\ OrderedFrom(wire[conn], Base, counter)
           /\ sPhase[conn] \in Looping => Reaches(wire[conn], Base, cursor[conn])
           /\ sPhase[conn] \in Waiting => wire[conn] = << >> /\ cPhase = "answer"
<1>1. /\ StreamTypeOK /\ ClientTypeOK /\ LogTypeOK /\ StreamInv /\ WireInv /\ OrderInv /\ SeenInv
  BY DEF IInv, TypeOK
<1>2. /\ conn \in Conns /\ wire[conn] \in Seq(Frames) /\ Len(wire[conn]) \in Nat
      /\ cursor[conn] \in Position /\ position \in Position /\ counter \in Position
  BY <1>1, LenProperties DEF StreamTypeOK, ClientTypeOK, LogTypeOK, Frames
<1>3. cursor[conn] \in Nat /\ position \in Nat /\ counter \in Nat
  BY <1>2, LogAssumption DEF Position
<1>4. cursor[conn] <= counter /\ position <= counter
  BY <1>1, <1>2 DEF StreamInv, SeenInv
<1>5. Base \in Nat
  <2>1. wire[conn] # << >> => wire[conn][1].id \in Nat
    BY <1>2, TailFrames, FrameIds
  <2>. QED
    BY <1>3, <2>1 DEF Base
<1>. QED
  BY <1>1, <1>2, <1>3, <1>4, <1>5 DEF OrderInv, WireInv

\* A frame added after the answer does not move Base.
LEMMA BaseStays ==
    ASSUME IInv, conn # NoConn, UNCHANGED clientVars, NEW f \in Frames,
           wire'[conn] = Append(wire[conn], f),
           \/ cPhase = "open" \/ wire[conn] # << >> \/ f.kind # "start"
    PROVE  Base' = Base
<1>. DEFINE w == wire[conn]
<1>1. w \in Seq(Frames) /\ cPhase' = cPhase /\ position' = position /\ conn' = conn
  BY WireFacts DEF clientVars
<1>2. CASE w # << >>
  <2>1. 1 \in 1 .. Len(w)
    BY <1>1, <1>2, TailFrames
  <2>2. wire'[conn'] # << >> /\ wire'[conn'][1] = w[1]
    BY <1>1, <2>1, AppendFrame
  <2>. QED
    BY <1>1, <1>2, <2>2 DEF Base
<1>3. CASE w = << >>
  <2>1. Len(w) = 0
    BY <1>3, EmptySeq
  <2>2. wire'[conn'] # << >> /\ wire'[conn'][1] = f
    BY <1>1, <2>1, AppendFrame
  <2>. QED
    BY <1>1, <1>3, <2>2 DEF Base
<1>. QED
  BY <1>2, <1>3

\* The wire's shape when frames come after the answer.
LEMMA MoreFrames ==
    ASSUME IInv, conn # NoConn, UNCHANGED clientVars, counter <= counter', counter' \in Nat,
           sPhase[conn] \in Looping, NEW f \in Frames, f.kind \in {"event", "beat", "eof"},
           wire'[conn] = Append(wire[conn], f),
           \/ sPhase'[conn] = "free"
           \/ sPhase'[conn] \in Looping /\ f.kind # "eof"
    PROVE  WireInv' /\ Base' = Base
<1>. DEFINE w == wire[conn]
            v == wire'[conn]
<1>1. /\ w \in Seq(Frames) /\ cPhase' = cPhase /\ position' = position /\ conn' = conn
      /\ mode' = mode /\ WireInv /\ ConnInv /\ position \in Nat /\ counter \in Nat
  BY WireFacts DEF clientVars, IInv
<1>2. /\ Len(v) = Len(w) + 1 /\ Len(w) \in Nat /\ v # << >>
      /\ \A i \in 1 .. Len(w) : i \in 1 .. Len(v) /\ v[i] = w[i]
      /\ v[Len(v)] = f /\ Len(v) \in 1 .. Len(v)
      /\ \A i \in 1 .. Len(v) : i \in 1 .. Len(w) \/ i = Len(v)
  BY <1>1, AppendFrame
<1>3. cPhase \in {"answer", "open"} /\ (cPhase = "answer" => Len(w) > 0)
  BY <1>1 DEF ConnInv, WireInv
<1>4. \A i \in 1 .. Len(w) : w[i].id \in Nat
  BY <1>1, FrameIds
<1>5. cPhase = "answer" => 1 \in 1 .. Len(w) /\ v[1] = w[1] /\ Len(v) > 1
  BY <1>2, <1>3
<1>6. Base' = Base
  BY <1>1, <1>3, <1>5, BaseStays, EmptySeq
<1>. HIDE DEF v
<1>7. sPhase'[conn] \in Looping => \A i \in 1 .. Len(v) : v[i].kind \in {"start", "event", "beat"}
  BY <1>1, <1>2 DEF WireInv, Looping
<1>8. \A i \in 1 .. Len(v) :
        IF cPhase = "answer" /\ i = 1 THEN ~ Data(v[i]) ELSE v[i].kind \in {"event", "beat", "eof"}
  <2>1. ASSUME NEW i \in 1 .. Len(v)
        PROVE  IF cPhase = "answer" /\ i = 1 THEN ~ Data(v[i])
               ELSE v[i].kind \in {"event", "beat", "eof"}
    <3>1. CASE i \in 1 .. Len(w)
      BY <1>1, <1>2, <3>1 DEF WireInv
    <3>2. CASE i = Len(v)
      BY <1>2, <1>5, <3>2
    <3>. QED
      BY <1>2, <3>1, <3>2
  <2>. QED
    BY <2>1
<1>9. cPhase = "answer" /\ Len(v) > 0 /\ v[1].kind = "start" =>
        /\ position <= v[1].id /\ v[1].id <= counter'
        /\ mode = "resume" => v[1].id = position
  BY <1>1, <1>3, <1>4, <1>5 DEF WireInv
<1>10. sPhase'[conn] \notin Waiting /\ (cPhase = "answer" => Len(v) > 0)
  BY <1>2 DEF Waiting, Looping
<1>. QED
  BY <1>1, <1>6, <1>7, <1>8, <1>9, <1>10 DEF WireInv, v

\* The wire's shape when the answer comes.
LEMMA FirstFrame ==
    ASSUME IInv, conn # NoConn, UNCHANGED clientVars, counter <= counter', counter' \in Nat,
           sPhase[conn] \in Waiting, NEW f \in Frames, ~ Data(f),
           wire'[conn] = Append(wire[conn], f),
           \/ sPhase'[conn] = "free" /\ f.kind # "start"
           \/ /\ sPhase'[conn] = "top" /\ f.kind = "start" /\ f.id \in Nat
              /\ position <= f.id /\ f.id <= counter
              /\ mode = "resume" => f.id = position
    PROVE  /\ WireInv'
           /\ Len(wire'[conn]) = 1 /\ wire'[conn][1] = f /\ conn' = conn
           /\ Base' = IF f.kind = "start" THEN f.id ELSE position
<1>. DEFINE v == wire'[conn]
<1>1. /\ wire[conn] \in Seq(Frames) /\ wire[conn] = << >> /\ cPhase = "answer"
      /\ cPhase' = cPhase /\ position' = position /\ conn' = conn /\ mode' = mode
      /\ counter \in Nat
  BY WireFacts DEF clientVars
<1>2. Len(wire[conn]) = 0
  BY <1>1, EmptySeq
<1>3. Len(v) = 1 /\ v # << >> /\ v[1] = f
  BY <1>1, <1>2, AppendFrame
<1>. HIDE DEF v
<1>4. Base' = IF f.kind = "start" THEN f.id ELSE position
  BY <1>1, <1>3 DEF Base, v
<1>5. \A i \in 1 .. Len(v) : i = 1
  BY <1>3
<1>6. sPhase'[conn] \notin Waiting
  BY DEF Waiting
<1>7. sPhase'[conn] \in Looping => f.kind = "start"
  BY DEF Looping
<1>8. f.kind = "start" =>
        /\ position <= f.id /\ f.id <= counter'
        /\ mode = "resume" => f.id = position
  BY <1>1
<1>. QED
  BY <1>1, <1>3, <1>4, <1>5, <1>6, <1>7, <1>8 DEF WireInv, v

\* What the server does keeps the subscriber's side: what is on the wire
\* goes on from where it reads.
LEMMA ServedPart ==
    ASSUME IInv, LogInv', StreamTypeOK', ServerStep, counter <= counter'
    PROVE  ConnInv' /\ WireInv' /\ RequestInv' /\ OrderInv' /\ SeenInv'
<1>1. /\ LogTypeOK /\ StreamTypeOK /\ ClientTypeOK /\ StreamInv
      /\ ConnInv /\ WireInv /\ RequestInv /\ OrderInv /\ SeenInv
      /\ counter \in Nat /\ counter' \in Nat /\ position \in Nat /\ snap \in Nat
  <2>1. LogTypeOK /\ StreamTypeOK /\ ClientTypeOK /\ LogTypeOK'
    BY DEF IInv, TypeOK, LogInv
  <2>2. counter \in Nat /\ counter' \in Nat /\ position \in Nat /\ snap \in Nat
    BY <2>1, LogAssumption DEF LogTypeOK, ClientTypeOK, Position
  <2>. QED
    BY <2>1, <2>2 DEF IInv
<1>2. /\ cPhase' = cPhase /\ mode' = mode /\ conn' = conn /\ position' = position
      /\ got' = got /\ snap' = snap /\ due' = due
  BY DEF ServerStep, clientVars
<1>3. ConnInv'
  BY <1>1, <1>2 DEF ConnInv, ServerStep
<1>4. SeenInv'
  BY <1>1, <1>2 DEF SeenInv, NoEventLost
<1>5. CASE conn = NoConn
  BY <1>2, <1>3, <1>4, <1>5 DEF WireInv, RequestInv, OrderInv
<1>6. CASE conn # NoConn
  <2>. DEFINE c == conn
              w == wire[c]
              v == wire'[c]
  <2>. USE <1>6
  <2>1. /\ w \in Seq(Frames) /\ Len(w) \in Nat /\ Base \in Nat
        /\ cursor[c] \in Position /\ cursor[c] \in Nat /\ cursor[c] <= counter
        /\ OrderedFrom(w, Base, counter)
        /\ sPhase[c] \in Looping => Reaches(w, Base, cursor[c])
        /\ sPhase[c] \in Waiting => w = << >> /\ cPhase = "answer"
    BY WireFacts
  <2>2. v \in Seq(Frames)
    BY <1>1 DEF ClientTypeOK, StreamTypeOK, Frames
  <2>3. UNCHANGED clientVars
    BY DEF ServerStep
  \* It is enough that the wire is ordered below the counter as it was.
  <2>4. ASSUME WireInv', RequestInv', OrderedFrom(v, Base', counter),
               sPhase'[c] \in Looping => Reaches(v, Base', cursor'[c])
        PROVE  ConnInv' /\ WireInv' /\ RequestInv' /\ OrderInv' /\ SeenInv'
    <3>1. OrderedFrom(v, Base', counter')
      BY <1>1, <2>2, <2>4, RaiseTop
    <3>. QED
      BY <1>2, <1>3, <1>4, <2>4, <3>1 DEF OrderInv
  <2>5. Looping \cap Waiting = {} /\ "free" \notin Looping /\ "free" \notin Waiting
    BY DEF Looping, Waiting
  <2>6. CASE Quiet(c) \/ Positioned(c)
    <3>1. v = w /\ Base' = Base
      BY <1>2, <2>6 DEF Quiet, Positioned, Base
    <3>2. /\ sPhase'[c] \in Looping => sPhase[c] \in Looping /\ cursor'[c] = cursor[c]
          /\ sPhase'[c] \in Waiting => sPhase[c] \in Waiting
      BY <2>6 DEF Quiet, Positioned, Looping, Waiting
    <3>3. RequestInv'
      BY <1>1, <1>2, <2>6, <3>2 DEF RequestInv, SeenInv, Quiet, Positioned, Waiting, Looping
    <3>4. WireInv'
      <4>1. \A i \in 1 .. Len(w) : w[i].id \in Nat
        BY <2>1, FrameIds
      <4>2. Len(w) > 0 => 1 \in 1 .. Len(w)
        BY <2>1
      <4>3. cPhase = "answer" /\ Len(w) > 0 /\ w[1].kind = "start" =>
              /\ position <= w[1].id /\ w[1].id <= counter'
              /\ mode = "resume" => w[1].id = position
        BY <1>1, <4>1, <4>2 DEF WireInv
      <4>. QED
        BY <1>1, <1>2, <3>1, <3>2, <4>3 DEF WireInv
    <3>. QED
      BY <2>1, <2>4, <3>1, <3>2, <3>3, <3>4
  <2>7. CASE Refused(c)
    <3>1. PICK kind \in {"gone", "busy", "error", "eof"} : v = Append(w, Frame(kind, 0))
      BY <2>7 DEF Refused
    <3>2. /\ Frame(kind, 0) \in Frames /\ ~ Data(Frame(kind, 0))
          /\ Frame(kind, 0).kind # "start"
      BY LogAssumption DEF Frame, Frames, Kinds, Data, Position
    <3>3. sPhase[c] \in Waiting /\ sPhase'[c] = "free"
      BY <2>7 DEF Refused
    <3>4. WireInv' /\ Base' = position
      BY <1>1, <2>3, <3>1, <3>2, <3>3, FirstFrame
    <3>5. Base = position
      BY <2>1, <3>3 DEF Base
    <3>6. OrderedFrom(v, Base', counter)
      BY <2>1, <3>1, <3>2, <3>4, <3>5, AppendOther
    <3>. QED
      BY <1>2, <2>4, <2>5, <3>3, <3>4, <3>6 DEF RequestInv
  <2>8. CASE Accepted(c)
    <3>. DEFINE f == Frame("start", cursor[c])
    <3>1. /\ v = Append(w, f) /\ sPhase[c] = "acquire" /\ sPhase'[c] = "top"
          /\ cursor'[c] = cursor[c]
      BY <2>8 DEF Accepted
    <3>2. f \in Frames /\ f.kind = "start" /\ f.id = cursor[c] /\ ~ Data(f)
      BY <2>1 DEF Frame, Frames, Kinds, Data
    <3>. HIDE DEF f
    <3>3. sPhase[c] \in Waiting /\ position <= f.id /\ (mode = "resume" => f.id = position)
      BY <1>1, <2>1, <3>1, <3>2 DEF RequestInv, Waiting
    <3>4. WireInv' /\ Base' = f.id
      BY <1>1, <2>1, <2>3, <3>1, <3>2, <3>3, FirstFrame
    <3>5. OrderedFrom(v, Base', counter) /\ Reaches(v, Base', cursor'[c])
      BY <2>1, <3>1, <3>2, <3>3, <3>4, EmptyWire, AppendOther
    <3>. QED
      BY <1>2, <2>4, <2>5, <3>1, <3>4, <3>5 DEF RequestInv, Waiting
  <2>9. CASE Passed(c)
    <3>1. /\ sPhase[c] \in Looping /\ sPhase'[c] \in Looping
          /\ cursor'[c] = cursor[c] + 1 /\ cursor[c] + 1 <= counter
      BY <2>9 DEF Passed
    <3>2. RequestInv'
      BY <1>2, <2>5, <3>1 DEF RequestInv
    <3>3. CASE cursor[c] + 1 \in Wanted
      <4>. DEFINE f == Frame("event", cursor[c] + 1)
      <4>1. v = Append(w, f)
        BY <2>9, <3>3 DEF Passed
      <4>2. cursor[c] + 1 \in Position
        BY <1>1, <2>1, <3>1, LogAssumption DEF Position, LogTypeOK
      <4>3. f \in Frames /\ f.kind = "event"
        BY <4>2 DEF Frame, Frames, Kinds
      <4>4. OrderedFrom(v, Base, counter) /\ Reaches(v, Base, cursor'[c])
        BY <1>1, <2>1, <3>1, <3>3, <4>1, <4>2, AppendEvent
      <4>. HIDE DEF f
      <4>5. WireInv' /\ Base' = Base
        BY <1>1, <2>3, <3>1, <4>1, <4>3, MoreFrames
      <4>. QED
        BY <2>4, <3>2, <4>4, <4>5
    <3>4. CASE cursor[c] + 1 \notin Wanted
      <4>1. v = w
        BY <2>9, <3>4 DEF Passed
      <4>2. Base' = Base
        BY <1>2, <4>1 DEF Base
      <4>3. Reaches(v, Base', cursor'[c])
        BY <2>1, <3>1, <3>4, <4>1, <4>2, PassOver
      <4>4. WireInv'
        <5>1. \A i \in 1 .. Len(w) : w[i].id \in Nat
          BY <2>1, FrameIds
        <5>2. Len(w) > 0 => 1 \in 1 .. Len(w)
          BY <2>1
        <5>3. cPhase = "answer" /\ Len(w) > 0 /\ w[1].kind = "start" =>
                /\ position <= w[1].id /\ w[1].id <= counter'
                /\ mode = "resume" => w[1].id = position
          BY <1>1, <5>1, <5>2 DEF WireInv
        <5>. QED
          BY <1>1, <1>2, <2>5, <3>1, <4>1, <5>3 DEF WireInv
      <4>. QED
        BY <2>1, <2>4, <3>2, <4>1, <4>2, <4>3, <4>4
    <3>. QED
      BY <3>3, <3>4
  <2>10. CASE Beaten(c)
    <3>. DEFINE f == Frame("beat", cursor[c])
    <3>1. /\ sPhase[c] \in Looping /\ sPhase'[c] \in Looping /\ cursor'[c] = cursor[c]
          /\ v = Append(w, f)
      BY <2>10 DEF Beaten
    <3>2. f \in Frames /\ f.kind = "beat"
      BY <2>1 DEF Frame, Frames, Kinds
    <3>3. OrderedFrom(v, Base, counter) /\ Reaches(v, Base, cursor'[c])
      BY <1>1, <2>1, <3>1, AppendBeat
    <3>. HIDE DEF f
    <3>4. WireInv' /\ Base' = Base
      BY <1>1, <2>3, <3>1, <3>2, MoreFrames
    <3>5. RequestInv'
      BY <1>2, <2>5, <3>1 DEF RequestInv
    <3>. QED
      BY <2>4, <3>3, <3>4, <3>5
  <2>11. CASE Closed(c)
    <3>. DEFINE f == Frame("eof", 0)
    <3>1. sPhase[c] \in Looping /\ sPhase'[c] = "free" /\ v = Append(w, f)
      BY <2>11 DEF Closed
    <3>2. f \in Frames /\ f.kind = "eof" /\ ~ Data(f)
      BY LogAssumption DEF Frame, Frames, Kinds, Data, Position
    <3>. HIDE DEF f
    <3>3. OrderedFrom(v, Base, counter)
      BY <2>1, <3>1, <3>2, AppendOther
    <3>4. WireInv' /\ Base' = Base
      BY <1>1, <2>3, <3>1, <3>2, MoreFrames
    <3>. QED
      BY <1>2, <2>4, <2>5, <3>1, <3>3, <3>4 DEF RequestInv
  <2>. QED
    BY <2>6, <2>7, <2>8, <2>9, <2>10, <2>11 DEF ServerStep
<1>. QED
  BY <1>5, <1>6

-----------------------------------------------------------------------------
(* The subscriber's own steps                                              *)

\* A new connection asks for what follows the subscriber's position.
LEMMA DialPart ==
    ASSUME IInv, NEW k \in Conns, NEW p \in Procs, Dial(k, p)
    PROVE  /\ ClientTypeOK' /\ faults' \in 0 .. MaxFaults
           /\ ConnInv' /\ WireInv' /\ RequestInv' /\ OrderInv' /\ SeenInv'
<1>1. /\ ClientTypeOK /\ StreamTypeOK /\ ConnInv /\ SeenInv /\ faults \in 0 .. MaxFaults
      /\ position \in Nat /\ counter \in Nat
  <2>1. ClientTypeOK /\ LogTypeOK /\ StreamTypeOK /\ faults \in 0 .. MaxFaults
    BY DEF IInv, TypeOK
  <2>2. position \in Nat /\ counter \in Nat
    BY <2>1, LogAssumption DEF ClientTypeOK, LogTypeOK, Position
  <2>. QED
    BY <2>1, <2>2 DEF IInv
<1>2. /\ cPhase = "dial" /\ conn = NoConn /\ conn' = k /\ cPhase' = "answer" /\ k # NoConn
      /\ wire' = wire /\ wire[k] = << >> /\ counter' = counter
      /\ UNCHANGED <<mode, position, got, snap, due, faults>>
      /\ sPhase' = [sPhase EXCEPT ![k] = IF mode = "resume" THEN "resume" ELSE "fresh"]
      /\ cursor' = [cursor EXCEPT ![k] = position]
  BY <1>1, StreamAssumption DEF Dial, Goto, ConnInv, logVars
<1>3. /\ sPhase'[k] = (IF mode = "resume" THEN "resume" ELSE "fresh")
      /\ cursor'[k] = position /\ sPhase'[k] \notin Looping /\ Len(wire[k]) = 0
  BY <1>1, <1>2, EmptySeq DEF StreamTypeOK, Looping
<1>4. ClientTypeOK' /\ faults' \in 0 .. MaxFaults
  BY <1>1, <1>2 DEF ClientTypeOK
<1>5. ConnInv'
  BY <1>1, <1>2, StreamAssumption DEF ConnInv
<1>6. WireInv'
  BY <1>2, <1>3 DEF WireInv
<1>7. RequestInv'
  BY <1>1, <1>2, <1>3 DEF RequestInv
<1>8. OrderInv'
  <2>1. Base' = position
    BY <1>2 DEF Base
  <2>. QED
    BY <1>1, <1>2, <1>3, <2>1, EmptyWire DEF OrderInv
<1>9. SeenInv'
  BY <1>1, <1>2 DEF SeenInv, NoEventLost
<1>. QED
  BY <1>4, <1>5, <1>6, <1>7, <1>8, <1>9

\* A connection that is given up.
LEMMA HangUpPart ==
    ASSUME IInv, HangUp, UNCHANGED <<counter, position, got, snap, due>>,
           cPhase' \notin {"answer", "open"}
    PROVE  ConnInv' /\ WireInv' /\ RequestInv' /\ OrderInv' /\ SeenInv'
<1>1. StreamTypeOK /\ ConnInv /\ SeenInv
  BY DEF IInv, TypeOK
<1>2. conn' = NoConn /\ wire' = [wire EXCEPT ![conn] = << >>]
  BY DEF HangUp
<1>3. \A k \in Conns : wire'[k] = << >>
  BY <1>1, <1>2 DEF ConnInv, StreamTypeOK
<1>4. ConnInv'
  BY <1>2, <1>3 DEF ConnInv
<1>5. SeenInv'
  BY <1>1 DEF SeenInv, NoEventLost
<1>. QED
  BY <1>2, <1>4, <1>5 DEF WireInv, RequestInv, OrderInv

\* The frame at the head of the wire.
LEMMA HeadFacts ==
    ASSUME IInv, NEW kind \in {"start", "event", "beat"}, Receive(kind), ReadFrame
    PROVE  /\ conn # NoConn /\ conn \in Conns /\ wire[conn] # << >>
           /\ Head(wire[conn]) = wire[conn][1] /\ wire[conn][1].kind = kind
           /\ wire'[conn] = Tail(wire[conn])
           /\ \A k \in Conns \ {conn} : wire'[k] = wire[k]
           /\ wire[conn][1].id \in Position /\ wire[conn][1].id \in Nat
           /\ 1 \in 1 .. Len(wire[conn])
<1>1. conn # NoConn /\ conn \in Conns /\ wire[conn] # << >> /\ wire[conn] \in Seq(Frames)
  BY WireFacts DEF Receive
<1>2. /\ Head(wire[conn]) = wire[conn][1] /\ wire[conn][1] \in Frames /\ 1 \in 1 .. Len(wire[conn])
  BY <1>1, TailFrames
<1>3. /\ wire'[conn] = Tail(wire[conn])
      /\ \A k \in Conns \ {conn} : wire'[k] = wire[k]
  BY <1>1 DEF ReadFrame, IInv, TypeOK, StreamTypeOK
<1>4. wire[conn][1].id \in Position /\ wire[conn][1].id \in Nat
  BY <1>2, LogAssumption DEF Frames, Position
<1>. QED
  BY <1>1, <1>2, <1>3, <1>4 DEF Receive

\* The first frame of an answer, which says where the stream begins, is
\* taken in.
LEMMA OpenedPart ==
    ASSUME IInv, Opened
    PROVE  /\ ClientTypeOK' /\ faults' \in 0 .. MaxFaults
           /\ ConnInv' /\ WireInv' /\ RequestInv' /\ OrderInv' /\ SeenInv'
<1>. DEFINE c == conn
            w == wire[c]
            v == wire'[c]
<1>1. /\ ClientTypeOK /\ StreamTypeOK /\ ConnInv /\ WireInv /\ SeenInv /\ StreamInv
      /\ faults \in 0 .. MaxFaults
  BY DEF IInv, TypeOK
<1>2. /\ cPhase = "answer" /\ cPhase' = "open" /\ mode' = "resume" /\ conn' = c
      /\ position' = Head(w).id /\ due' = (due \/ mode # "resume")
      /\ UNCHANGED <<got, snap, faults, counter, sPhase, cursor>>
      /\ Receive("start") /\ ReadFrame
  BY DEF Opened, logVars
<1>3. /\ c # NoConn /\ c \in Conns /\ w # << >> /\ Head(w) = w[1] /\ w[1].kind = "start"
      /\ v = Tail(w) /\ \A k \in Conns \ {c} : wire'[k] = wire[k]
      /\ w[1].id \in Position /\ w[1].id \in Nat /\ 1 \in 1 .. Len(w)
  BY <1>2, HeadFacts
<1>4. /\ w \in Seq(Frames) /\ counter \in Nat /\ position \in Nat
      /\ cursor[c] \in Nat /\ Base \in Nat
      /\ OrderedFrom(w, Base, counter)
      /\ sPhase[c] \in Looping => Reaches(w, Base, cursor[c])
      /\ sPhase[c] \notin Waiting
  BY <1>3, WireFacts
<1>5. Base = w[1].id /\ Base' = w[1].id /\ position' = w[1].id
  BY <1>2, <1>3 DEF Base
<1>6. ~ Data(w[1])
  BY <1>3 DEF Data
<1>7. /\ position <= w[1].id /\ w[1].id <= counter /\ (mode = "resume" => w[1].id = position)
  BY <1>1, <1>2, <1>3, <1>4, LenProperties DEF WireInv
<1>8. ClientTypeOK' /\ faults' \in 0 .. MaxFaults
  BY <1>1, <1>2, <1>3, <1>5 DEF ClientTypeOK
<1>9. ConnInv'
  BY <1>1, <1>2, <1>3 DEF ConnInv
<1>10. /\ Len(v) \in Nat
       /\ \A i \in 1 .. Len(v) : i + 1 \in 1 .. Len(w) /\ v[i] = w[i + 1] /\ i + 1 # 1
  BY <1>3, <1>4, TailFrames
<1>11. WireInv'
  <2>1. \A i \in 1 .. Len(v) : v[i].kind \in {"event", "beat", "eof"}
    BY <1>1, <1>2, <1>3, <1>10 DEF WireInv
  <2>2. sPhase[c] \in Looping => \A i \in 1 .. Len(v) : v[i].kind \in {"start", "event", "beat"}
    BY <1>1, <1>3, <1>10 DEF WireInv
  <2>. HIDE DEF v
  <2>. QED
    BY <1>2, <1>4, <2>1, <2>2 DEF WireInv, v
<1>12. RequestInv'
  BY <1>2, <1>4 DEF RequestInv
<1>13. OrderInv'
  <2>1. /\ OrderedFrom(v, Base', counter)
        /\ \A d \in Nat : Reaches(w, Base, d) => Reaches(v, Base', d)
    BY <1>3, <1>4, <1>5, <1>6, TailOrdered
  <2>. QED
    BY <1>2, <1>4, <2>1 DEF OrderInv
<1>14. SeenInv'
  <2>1. \A s \in got : s <= position'
    <3>1. \A s \in got : s \in Nat /\ s <= position
      BY <1>1, LogAssumption DEF ClientTypeOK, SeenInv
    <3>. QED
      BY <1>4, <1>3, <1>5, <1>7, <3>1
  <2>2. NoEventLost'
    <3>1. CASE mode = "resume"
      <4>1. position' = position /\ (due' <=> due)
        BY <1>1, <1>2, <1>5, <1>7, <3>1 DEF ClientTypeOK
      <4>. QED
        BY <1>1, <1>2, <4>1 DEF SeenInv, NoEventLost
    <3>2. CASE mode # "resume"
      BY <1>2, <3>2 DEF NoEventLost
    <3>. QED
      BY <3>1, <3>2
  <2>. QED
    BY <1>1, <1>2, <1>5, <1>7, <2>1, <2>2 DEF SeenInv
<1>. QED
  BY <1>8, <1>9, <1>11, <1>12, <1>13, <1>14

\* An event, a position, a reset or an end is taken in.
LEMMA OnFramePart ==
    ASSUME IInv, OnFrame
    PROVE  /\ ClientTypeOK' /\ faults' \in 0 .. MaxFaults
           /\ ConnInv' /\ WireInv' /\ RequestInv' /\ OrderInv' /\ SeenInv'
<1>. DEFINE c == conn
            w == wire[c]
            v == wire'[c]
            f == w[1]
<1>1. /\ ClientTypeOK /\ StreamTypeOK /\ LogTypeOK /\ ConnInv /\ WireInv /\ SeenInv
      /\ faults \in 0 .. MaxFaults
  BY DEF IInv, TypeOK
<1>2. PICK kind \in {"event", "beat"} : Receive(kind)
  BY DEF OnFrame
<1>3. /\ c # NoConn /\ c \in Conns /\ w # << >> /\ Head(w) = f /\ f.kind = kind
      /\ v = Tail(w) /\ \A k \in Conns \ {c} : wire'[k] = wire[k]
      /\ f.id \in Position /\ f.id \in Nat /\ 1 \in 1 .. Len(w)
  BY <1>2, HeadFacts DEF OnFrame
<1>4. /\ cPhase = "open" /\ cPhase' = "open" /\ mode' = mode /\ conn' = c
      /\ position' = f.id
      /\ got' = IF f.kind = "event" THEN got \cup {f.id} ELSE got
      /\ UNCHANGED <<snap, due, faults, counter, sPhase, cursor>>
  BY <1>3 DEF OnFrame, logVars
<1>5. /\ w \in Seq(Frames) /\ counter \in Nat /\ position \in Nat /\ counter \in Position
      /\ cursor[c] \in Nat
      /\ OrderedFrom(w, position, counter)
      /\ sPhase[c] \in Looping => Reaches(w, position, cursor[c])
      /\ sPhase[c] \notin Waiting
  BY <1>3, <1>4, WireFacts DEF Base
<1>6. Base' = f.id
  BY <1>4 DEF Base
<1>7. Data(f)
  BY <1>3 DEF Data
<1>8. /\ position <= f.id /\ f.id <= counter
      /\ f.kind = "event" => f.id \in Wanted /\ position < f.id
  BY <1>3, <1>5, <1>7 DEF OrderedFrom
<1>9. ClientTypeOK' /\ faults' \in 0 .. MaxFaults
  <2>1. f.kind = "event" => f.id \in 1 .. MaxSeq
    BY <1>3, <1>5, <1>8, LogAssumption DEF Position
  <2>. HIDE DEF f
  <2>. QED
    BY <1>1, <1>3, <1>4, <2>1 DEF ClientTypeOK
<1>10. ConnInv'
  BY <1>1, <1>3, <1>4 DEF ConnInv
<1>11. /\ Len(v) \in Nat
       /\ \A i \in 1 .. Len(v) : i + 1 \in 1 .. Len(w) /\ v[i] = w[i + 1] /\ i + 1 # 1
       /\ \A i \in 2 .. Len(w) : i \in 1 .. Len(w) /\ 1 < i
       /\ \A i \in 1 .. Len(w) : i = 1 \/ i \in 2 .. Len(w)
  BY <1>3, <1>5, TailFrames
<1>12. WireInv'
  <2>1. \A i \in 1 .. Len(v) : v[i].kind \in {"event", "beat", "eof"}
    BY <1>1, <1>3, <1>4, <1>11 DEF WireInv
  <2>2. sPhase[c] \in Looping => \A i \in 1 .. Len(v) : v[i].kind \in {"start", "event", "beat"}
    BY <1>1, <1>3, <1>11 DEF WireInv
  <2>. HIDE DEF v
  <2>. QED
    BY <1>4, <1>5, <2>1, <2>2 DEF WireInv, v
<1>13. RequestInv'
  BY <1>4, <1>5 DEF RequestInv
<1>14. OrderInv'
  <2>1. /\ OrderedFrom(v, f.id, counter)
        /\ \A d \in Nat : Reaches(w, position, d) => Reaches(v, f.id, d)
    BY <1>3, <1>5, <1>7, TailOrdered
  <2>. QED
    BY <1>4, <1>5, <1>6, <2>1 DEF OrderInv
<1>15. SeenInv'
  <2>1. \A s \in got' : s <= position'
    <3>1. \A s \in got : s \in Nat /\ s <= position
      BY <1>1, LogAssumption DEF ClientTypeOK, SeenInv
    <3>. HIDE DEF f
    <3>. QED
      BY <1>3, <1>4, <1>5, <1>8, <3>1
  <2>2. NoEventLost'
    <3>1. ASSUME ~ due, NEW s \in Wanted, 1 <= s, s <= f.id
          PROVE  s <= snap \/ s \in got'
      <4>1. CASE s <= position
        BY <1>1, <1>4, <3>1, <4>1 DEF SeenInv, NoEventLost
      <4>2. CASE ~ (s <= position)
        <5>1. position < s
          BY <1>5, <4>2, StreamAssumption
        <5>2. PICK j \in 1 .. Len(w) : w[j].kind = "event" /\ w[j].id = s
          BY <1>3, <1>5, <1>7, <3>1, <5>1 DEF OrderedFrom
        <5>3. j = 1
          <6>1. ASSUME j \in 2 .. Len(w) PROVE FALSE
            <7>1. Data(w[j]) /\ 1 < j
              BY <1>11, <5>2, <6>1 DEF Data
            <7>2. f.id < w[j].id
              BY <1>3, <1>5, <1>7, <5>2, <7>1 DEF OrderedFrom
            <7>. QED
              BY <1>3, <3>1, <5>2, <7>2, StreamAssumption
          <6>. QED
            BY <1>11, <6>1
        <5>. QED
          BY <1>4, <5>2, <5>3
      <4>. QED
        BY <4>1, <4>2
    <3>. QED
      BY <1>4, <3>1 DEF NoEventLost
  <2>3. snap <= counter
    BY <1>1 DEF SeenInv
  <2>. QED
    BY <1>4, <1>8, <2>1, <2>2, <2>3 DEF SeenInv
<1>. QED
  BY <1>9, <1>10, <1>12, <1>13, <1>14, <1>15

\* Refusals, the end of a stream and a broken connection.
LEMMA GivenUpPart ==
    ASSUME IInv, RefusedGone \/ RefusedBusy \/ Ended \/ Break
    PROVE  /\ ClientTypeOK' /\ faults' \in 0 .. MaxFaults
           /\ ConnInv' /\ WireInv' /\ RequestInv' /\ OrderInv' /\ SeenInv'
<1>1. ClientTypeOK /\ faults \in 0 .. MaxFaults
  BY DEF IInv, TypeOK
<1>2. /\ HangUp /\ UNCHANGED <<counter, position, got, snap, due>>
      /\ cPhase' \in {"dial", "failed", "backoff"}
      /\ mode' \in {"first", "resume", "resync"}
  BY <1>1 DEF RefusedGone, RefusedBusy, Ended, Break, RetryLater, logVars, ClientTypeOK
<1>3. faults' \in 0 .. MaxFaults
  BY <1>1, StreamAssumption DEF RefusedGone, RefusedBusy, Ended, Break, Fault
<1>4. ClientTypeOK'
  BY <1>1, <1>2 DEF HangUp, ClientTypeOK
<1>. QED
  BY <1>2, <1>3, <1>4, HangUpPart

\* The subscriber waits, or loads its state.
LEMMA WaitPart ==
    ASSUME IInv, Reconnect \/ Reload
    PROVE  /\ ClientTypeOK' /\ faults' \in 0 .. MaxFaults
           /\ ConnInv' /\ WireInv' /\ RequestInv' /\ OrderInv' /\ SeenInv'
<1>1. /\ ClientTypeOK /\ LogTypeOK /\ ConnInv /\ WireInv /\ RequestInv /\ OrderInv /\ SeenInv
      /\ faults \in 0 .. MaxFaults
  BY DEF IInv, TypeOK
<1>2. /\ UNCHANGED <<conn, mode, position, got, faults, counter, wire, sPhase, cursor>>
      /\ cPhase' = cPhase \/ (cPhase = "backoff" /\ cPhase' = "dial")
      /\ snap' \in {snap, counter} /\ due' \in BOOLEAN
      /\ snap' # snap \/ due' # due => snap' = counter
  <2>1. CASE Reconnect
    BY <1>1, <2>1 DEF Reconnect, logVars, streamVars, ClientTypeOK
  <2>2. CASE Reload
    BY <2>2 DEF Reload, logVars, streamVars
  <2>. QED
    BY <2>1, <2>2
<1>3. ClientTypeOK' /\ faults' \in 0 .. MaxFaults
  BY <1>1, <1>2 DEF ClientTypeOK, LogTypeOK
<1>4. cPhase' = "answer" <=> cPhase = "answer"
  BY <1>2
<1>5. ConnInv'
  BY <1>1, <1>2 DEF ConnInv
<1>6. WireInv' /\ RequestInv'
  BY <1>1, <1>2, <1>4 DEF WireInv, RequestInv
<1>7. OrderInv'
  BY <1>1, <1>2, <1>4 DEF OrderInv, Base
<1>8. SeenInv'
  <2>1. CASE snap' = snap /\ due' = due
    BY <1>1, <1>2, <2>1 DEF SeenInv, NoEventLost
  <2>2. CASE snap' = counter
    <3>1. position \in Nat /\ counter \in Nat /\ position <= counter
      BY <1>1, LogAssumption DEF ClientTypeOK, LogTypeOK, SeenInv, Position
    <3>2. \A s \in Wanted : s <= position => s <= counter
      BY <3>1, StreamAssumption
    <3>. QED
      BY <1>1, <1>2, <2>2, <3>1, <3>2 DEF SeenInv, NoEventLost
  <2>. QED
    BY <1>2, <2>1, <2>2
<1>. QED
  BY <1>3, <1>5, <1>6, <1>7, <1>8

\* The failures of a behaviour are counted.
LEMMA FaultsCounted ==
    ASSUME faults \in 0 .. MaxFaults, [Next]_vars
    PROVE  faults' \in 0 .. MaxFaults
<1>1. faults' = faults \/ Fault
  BY DEF Next, LogActs, PublishAct, FeedActs, PollAct, FeedReads, FeedQueryFails, FeedStartFails,
         Crash, Accepting, ResolveFresh, ResolveResume, CheckRetained, TakeSlot, Accept,
         Streaming, Top, ReadLog, Send, EndTurn, HeartbeatDue, SendHeartbeat, Abandoned,
         ServerEnds, Subscriber, Dial, Opened, RefusedGone, RefusedBusy, Ended, OnFrame,
         Reconnect, Reload, Break, vars
<1>. QED
  BY <1>1, StreamAssumption DEF Fault

-----------------------------------------------------------------------------
(* The theorems                                                            *)

\* At first nothing is written and nobody is connected.
LEMMA InitIInv == Init => IInv
<1> SUFFICES ASSUME Init PROVE IInv
  OBVIOUS
<1>1. 0 \in Position /\ 0 \in 0 .. MaxFaults
  BY LogAssumption, StreamAssumption DEF Position
<1>2. /\ \A S : << >> \in Seq(S)
      /\ Len(<< >>) = 0
  BY EmptySeq
<1>3. LogInv /\ counter = 0
  BY LogInitInv DEF Init, LogInit
<1>4. FeedTypeOK /\ FeedInv
  BY <1>1, <1>2, <1>3 DEF Init, FeedInit, FeedTypeOK, FeedInv, WindowContiguous
<1>5. StreamTypeOK /\ StreamInv
  BY <1>1, <1>2, <1>3 DEF Init, StreamTypeOK, StreamInv
<1>6. FeedHeld
  <2>1. \A p \in Procs : Users(p) = {}
    BY DEF Init, Users, Looping
  <2>. QED
    BY <2>1, FS_EmptySet DEF Init, FeedInit, FeedHeld, Looping
<1>7. ClientTypeOK /\ faults \in 0 .. MaxFaults
  BY <1>1 DEF Init, ClientTypeOK
<1>8. ConnInv /\ WireInv /\ RequestInv /\ OrderInv
  BY DEF Init, ConnInv, WireInv, RequestInv, OrderInv
<1>9. SeenInv
  <2>1. \A s \in Wanted : ~ (1 <= s /\ s <= 0)
    BY StreamAssumption
  <2>. QED
    BY <1>3, <2>1 DEF Init, SeenInv, NoEventLost
<1>10. TypeOK
  BY <1>3, <1>4, <1>5, <1>7 DEF TypeOK, LogInv
<1>. QED
  BY <1>3, <1>4, <1>5, <1>6, <1>8, <1>9, <1>10 DEF IInv

\* The invariant is inductive.
LEMMA NextIInv == IInv /\ [Next]_vars => IInv'
<1> SUFFICES ASSUME IInv, [Next]_vars PROVE IInv'
  OBVIOUS
<1>1. /\ LogInv /\ LogInv' /\ counter <= counter' /\ ClientTypeOK /\ faults \in 0 .. MaxFaults
  BY LogPart, CounterGrows DEF IInv, TypeOK
<1>2. FeedTypeOK' /\ FeedInv' /\ StreamTypeOK' /\ StreamInv' /\ FeedHeld'
  BY FeedPart, StreamPart, HeldPart
<1>3. faults' \in 0 .. MaxFaults
  BY <1>1, FaultsCounted
<1>4. ClientTypeOK' /\ ConnInv' /\ WireInv' /\ RequestInv' /\ OrderInv' /\ SeenInv'
  <2>1. CASE ServerStep
    <3>1. ClientTypeOK'
      BY <1>1, <2>1 DEF ServerStep, ClientTypeOK, clientVars
    <3>. QED
      BY <1>1, <1>2, <2>1, <3>1, ServedPart
  <2>2. CASE \E k \in Conns, p \in Procs : Dial(k, p)
    BY <2>2, DialPart
  <2>3. CASE Hears
    BY <2>3, OpenedPart, OnFramePart, GivenUpPart DEF Hears
  <2>4. CASE Reconnect \/ Reload
    BY <2>4, WaitPart
  <2>. QED
    BY <2>1, <2>2, <2>3, <2>4, ServerSteps
<1>5. LogTypeOK'
  BY <1>1 DEF LogInv
<1>. QED
  BY <1>1, <1>2, <1>3, <1>4, <1>5 DEF IInv, TypeOK

\* The invariant holds throughout.
LEMMA Invariant == Spec => []IInv
BY InitIInv, NextIInv, PTL DEF Spec

\* Every variable keeps its type.
THEOREM TypeCorrect == Spec => []TypeOK
<1>1. IInv => TypeOK
  BY DEF IInv
<1>. QED
  BY <1>1, Invariant, PTL

\* The window a feed serves streams from has no hole and ends at the head
\* of what the feed has read, whatever pages, trims, failures and restarts
\* it went through.
THEOREM WindowsContiguous == Spec => []WindowContiguous
<1>1. IInv => WindowContiguous
  BY DEF IInv, FeedInv
<1>. QED
  BY <1>1, Invariant, PTL

\* No stream loses its feed: a feed is counted once for each stream that
\* uses it, and stops with the last one only.
THEOREM FeedsHeld == Spec => []FeedHeld
<1>1. IInv => FeedHeld
  BY DEF IInv
<1>. QED
  BY <1>1, Invariant, PTL

\* No event is lost to a subscriber below its position, over any number of
\* processes, connections, restarts, breaks and sweeps.
THEOREM NothingLost == Spec => []NoEventLost
<1>1. IInv => NoEventLost
  BY DEF IInv, SeenInv
<1>. QED
  BY <1>1, Invariant, PTL

\* Events reach the handler in order, and none of them twice.
THEOREM OnceInOrder == Spec => AtMostOnceInOrder
<1>1. IInv /\ [Next]_vars =>
        (OnFrame /\ Head(wire[conn]).kind = "event" => \A s \in got : s < Head(wire[conn]).id)
  <2> SUFFICES ASSUME IInv, OnFrame, Head(wire[conn]).kind = "event", NEW s \in got
               PROVE  s < Head(wire[conn]).id
    OBVIOUS
  <2>1. PICK kind \in {"event", "beat"} : Receive(kind)
    BY DEF OnFrame
  <2>2. /\ conn # NoConn /\ Head(wire[conn]) = wire[conn][1] /\ wire[conn][1].id \in Nat
        /\ 1 \in 1 .. Len(wire[conn])
    BY <2>1, HeadFacts DEF OnFrame
  <2>3. OrderedFrom(wire[conn], position, counter) /\ position \in Nat
    BY <2>2, WireFacts DEF Base, OnFrame
  <2>4. position < wire[conn][1].id
    BY <2>2, <2>3 DEF OrderedFrom, Data
  <2>5. s \in Nat /\ s <= position
    BY LogAssumption DEF IInv, TypeOK, ClientTypeOK, SeenInv
  <2>. QED
    BY <2>2, <2>3, <2>4, <2>5
<1>. QED
  BY <1>1, Invariant, PTL DEF Spec, AtMostOnceInOrder

-----------------------------------------------------------------------------
(* Refinement                                                              *)

\* The first frame read brings nobody past an event it wants.
LEMMA HeadNext ==
    ASSUME NEW w \in Seq(Frames), NEW b \in Nat, NEW top, 1 \in 1 .. Len(w), Data(w[1]),
           OrderedFrom(w, b, top)
    PROVE  \A t \in Wanted : ~ (b < t /\ t <= w[1].id /\ (w[1].kind = "event" => t < w[1].id))
<1> SUFFICES ASSUME NEW t \in Wanted, b < t, t <= w[1].id,
                    w[1].kind = "event" => t < w[1].id
             PROVE  FALSE
  OBVIOUS
<1>1. PICK j \in 1 .. Len(w) : w[j].kind = "event" /\ w[j].id = t
  BY DEF OrderedFrom
<1>2. t \in Nat /\ w[1].id \in Nat /\ Len(w) \in Nat
  BY FrameIds, LenProperties, StreamAssumption
<1>3. CASE j = 1
  BY <1>1, <1>2, <1>3
<1>4. CASE j # 1
  <2>1. 1 < j /\ Data(w[j])
    BY <1>1, <1>2, <1>4 DEF Data
  <2>2. w[1].id < w[j].id
    BY <1>1, <2>1 DEF OrderedFrom
  <2>. QED
    BY <1>1, <1>2, <2>2
<1>. QED
  BY <1>3, <1>4

\* Each step of the stack is a step of the promise, or none.
LEMMA PromiseStep == IInv /\ [Next]_vars => [Promise!Next]_(Promise!vars)
<1> SUFFICES ASSUME IInv, [Next]_vars PROVE [Promise!Next]_(Promise!vars)
  OBVIOUS
<1>1. /\ LogInv' /\ counter <= counter' /\ ClientTypeOK
  BY LogPart, CounterGrows DEF IInv, TypeOK
<1>2. counter \in Nat /\ counter' \in Nat /\ position \in Nat /\ position <= counter
  <2>1. counter' \in Position /\ position \in Position /\ counter \in Position
    BY <1>1 DEF LogInv, LogTypeOK, ClientTypeOK, IInv, TypeOK
  <2>. QED
    BY <2>1, LogAssumption DEF Position, IInv, SeenInv
<1>3. CASE ServerStep
  <2>1. UNCHANGED <<position, got, snap, due>>
    BY <1>3 DEF ServerStep, clientVars
  <2>2. CASE counter' = counter
    BY <2>1, <2>2 DEF Promise!vars
  <2>3. CASE counter' # counter
    BY <1>1, <1>2, <2>1, <2>3 DEF Promise!Next, Promise!Commit
  <2>. QED
    BY <2>2, <2>3
<1>4. CASE (\E k \in Conns, p \in Procs : Dial(k, p)) \/ Reconnect
           \/ RefusedGone \/ RefusedBusy \/ Ended \/ Break
  BY <1>4 DEF Dial, Reconnect, RefusedGone, RefusedBusy, Ended, Break, logVars, Promise!vars
<1>5. CASE Reload
  BY <1>5 DEF Reload, Promise!Next, Promise!Reload, logVars
<1>6. CASE Opened
  <2>. DEFINE f == wire[conn][1]
  <2>1. /\ position' = f.id /\ f.id \in Nat /\ conn # NoConn /\ conn \in Conns
        /\ f.kind = "start" /\ 1 \in 1 .. Len(wire[conn])
        /\ UNCHANGED <<got, snap, counter>> /\ cPhase = "answer"
        /\ due' = (due \/ mode # "resume")
    BY <1>6, HeadFacts DEF Opened, logVars
  <2>2. /\ position <= f.id /\ f.id <= counter /\ (mode = "resume" => f.id = position)
    <3>1. Len(wire[conn]) \in Nat /\ WireInv
      BY <2>1, WireFacts DEF IInv
    <3>. QED
      BY <2>1, <3>1 DEF WireInv
  <2>. HIDE DEF f
  <2>3. CASE mode = "resume"
    <3>1. due' = due
      BY <1>1, <2>1, <2>3 DEF ClientTypeOK
    <3>. QED
      BY <1>2, <2>1, <2>2, <2>3, <3>1 DEF Promise!vars
  <2>4. CASE mode # "resume"
    <3>1. due' = TRUE /\ f.id \in 0 .. counter
      <4>1. due' = TRUE
        BY <2>1, <2>4
      <4>2. f.id \in 0 .. counter
        BY <1>2, <2>1, <2>2
      <4>. QED
        BY <4>1, <4>2
    <3>. QED
      BY <2>1, <2>2, <3>1 DEF Promise!Next, Promise!StartOver
  <2>. QED
    BY <2>3, <2>4
<1>7. CASE OnFrame
  <2>. DEFINE f == wire[conn][1]
  <2>1. PICK kind \in {"event", "beat"} : Receive(kind)
    BY <1>7 DEF OnFrame
  <2>2. /\ conn # NoConn /\ Head(wire[conn]) = f /\ f.kind = kind /\ f.id \in Nat
        /\ 1 \in 1 .. Len(wire[conn])
    BY <1>7, <2>1, HeadFacts DEF OnFrame
  <2>3. /\ position' = f.id /\ got' = (IF f.kind = "event" THEN got \cup {f.id} ELSE got)
        /\ UNCHANGED <<counter, snap, due>> /\ cPhase = "open"
    BY <1>7, <2>2 DEF OnFrame, logVars
  <2>4. wire[conn] \in Seq(Frames) /\ OrderedFrom(wire[conn], position, counter)
    BY <2>2, <2>3, WireFacts DEF Base
  <2>5. Data(f)
    BY <2>2 DEF Data
  <2>6. /\ position <= f.id /\ f.id <= counter
        /\ f.kind = "event" => f.id \in Wanted /\ position < f.id
    BY <2>2, <2>4, <2>5 DEF OrderedFrom
  <2>7. \A t \in Wanted : ~ (position < t /\ t <= f.id /\ (f.kind = "event" => t < f.id))
    BY <1>2, <2>2, <2>4, <2>5, HeadNext
  <2>8. f.id \in 0 .. counter
    BY <1>2, <2>2, <2>6
  <2>. HIDE DEF f
  <2>9. CASE f.kind = "event"
    <3>1. Promise!NextUpTo(f.id)
      BY <2>2, <2>6, <2>7, <2>9, StreamAssumption DEF Promise!NextUpTo
    <3>. QED
      BY <2>3, <2>6, <2>8, <2>9, <3>1 DEF Promise!Next, Promise!Deliver
  <2>10. CASE f.kind # "event" /\ f.id = position
    BY <2>3, <2>10 DEF Promise!vars
  <2>11. CASE f.kind # "event" /\ f.id # position
    <3>1. position < f.id /\ f.id \notin Wanted
      BY <1>2, <2>2, <2>6, <2>7, <2>11
    <3>2. Promise!NextUpTo(f.id)
      BY <2>2, <2>6, <2>7, <2>11, <3>1, StreamAssumption DEF Promise!NextUpTo
    <3>. QED
      BY <2>3, <2>8, <2>11, <3>1, <3>2 DEF Promise!Next, Promise!Skip
  <2>. QED
    BY <2>9, <2>10, <2>11
<1>. QED
  BY <1>3, <1>4, <1>5, <1>6, <1>7, ServerSteps DEF Hears

\* The stack implements the promise to a subscriber.
THEOREM PromiseKept == Spec => KeepsPromise
<1>1. Init => Promise!Init
  BY DEF Init, LogInit, Promise!Init
<1>. QED
  BY <1>1, PromiseStep, Invariant, PTL DEF Spec, KeepsPromise, Promise!Spec

=============================================================================
