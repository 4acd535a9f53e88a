----------------------------- MODULE GameEvents -----------------------------
(***************************************************************************)
(* The game-wide event stream end to end: the server's stream handler      *)
(* (routes/gameEvents.ts) and one subscriber (sdk/src/gameEvents.ts,       *)
(* sdk-java GameStream.java) over the feeds of GameFeed.                   *)
(*                                                                         *)
(* The subscriber dials any process, is accepted at a position, refused    *)
(* with 410 when the log no longer holds what follows its position, or     *)
(* refused otherwise.  It resumes after a lost connection and, after a     *)
(* 410, opens a fresh stream and reloads its state.                        *)
(*                                                                         *)
(* Per connection k:                                                       *)
(*   sPhase    the handler: "free"; "fresh" or "resume" (request without   *)
(*             or with Last-Event-ID), "check", "slot", "acquire"; then    *)
(*             its loop: "top", "read", "send", "tail", "wait"             *)
(*   sHost     the process that serves it                                  *)
(*   cursor    the last position the stream has dealt with                 *)
(*   batch     the positions still to send in this turn of the loop        *)
(*   more      this turn found events, or a wake-up arrived during it      *)
(*   wire      the frames sent and not read yet                            *)
(* The subscriber:                                                         *)
(*   cPhase    "dial", "answer" (waiting for the response), "open",        *)
(*             "backoff" or "failed"                                       *)
(*   mode      what the dial is: "first", "resume" or "resync"             *)
(*   conn      its connection                                              *)
(*   position  the last position seen                                      *)
(* What the properties speak of:                                           *)
(*   got       the events its handler was given                            *)
(*   snap      the position its last (re)load of the game's state covers   *)
(*   due       it still has to reload after a fresh start                  *)
(*   faults    failures so far                                             *)
(***************************************************************************)
EXTENDS GameFeed

CONSTANTS
    Conns,       \* connection identities, reused once free
    NoConn,
    Wanted,      \* the positions whose event type passes the filter
    MaxStreams,  \* MAX_GAME_STREAMS_PER_KEY: streams of a process
    WireCap,     \* bound: unread frames before a write has to wait
    MaxFaults    \* bound: failures in a behaviour

ASSUME StreamAssumption ==
    /\ IsFiniteSet(Conns) /\ NoConn \notin Conns
    /\ Wanted \subseteq Nat
    /\ MaxStreams \in Nat \ {0}
    /\ WireCap \in Nat \ {0}
    /\ MaxFaults \in Nat

VARIABLES sPhase, sHost, cursor, batch, more, wire,
          cPhase, mode, conn, position, got, snap, due, faults

streamVars == <<sPhase, sHost, cursor, batch, more, wire>>
clientVars == <<cPhase, mode, conn, position, got, snap, due>>
vars == <<logVars, feedVars, streamVars, clientVars, faults>>

Looping == {"top", "read", "send", "tail", "wait"}

\* Streams that wait for, or hold, the feed of process p.
Users(p) == {k \in Conns : sHost[k] = p /\ sPhase[k] \in Looping \cup {"acquire"}}

Init ==
    /\ LogInit
    /\ FeedInit
    /\ sPhase = [k \in Conns |-> "free"]
    /\ sHost \in [Conns -> Procs]
    /\ cursor = [k \in Conns |-> 0]
    /\ batch = [k \in Conns |-> << >>]
    /\ more = [k \in Conns |-> FALSE]
    /\ wire = [k \in Conns |-> << >>]
    /\ cPhase = "dial"
    /\ mode = "first"
    /\ conn = NoConn
    /\ position = 0
    /\ got = {}
    /\ snap = 0
    /\ due = FALSE
    /\ faults = 0

Fault == faults < MaxFaults /\ faults' = faults + 1

Frame(kind, id) == [kind |-> kind, id |-> id]

\* A frame to a connection the subscriber has given up goes nowhere.
Put(k, f) == wire' = IF conn = k THEN [wire EXCEPT ![k] = Append(wire[k], f)] ELSE wire

CanWrite(k) == conn = k => Len(wire[k]) < WireCap

Goto(k, phase) == sPhase' = [sPhase EXCEPT ![k] = phase]

-----------------------------------------------------------------------------
(* The server accepts or refuses a stream                                  *)

Refuse(k, kind) ==
    /\ Goto(k, "free")
    /\ cursor' = [cursor EXCEPT ![k] = 0]
    /\ Put(k, Frame(kind, 0))

\* resolveStartPosition.  Without Last-Event-ID: the current position.
ResolveFresh(k) ==
    /\ sPhase[k] = "fresh"
    /\ cursor' = [cursor EXCEPT ![k] = counter]
    /\ Goto(k, "slot")
    /\ UNCHANGED <<logVars, feedVars, sHost, batch, more, wire, clientVars, faults>>

\* With it, and the position of the request in cursor[k].
ResolveResume(k) ==
    /\ sPhase[k] = "resume"
    /\ \/ cursor[k] > counter /\ Refuse(k, "gone")
       \/ cursor[k] = counter /\ Goto(k, "slot") /\ UNCHANGED <<cursor, wire>>
       \/ cursor[k] < counter /\ Goto(k, "check") /\ UNCHANGED <<cursor, wire>>
    /\ UNCHANGED <<logVars, feedVars, sHost, batch, more, clientVars, faults>>

CheckRetained(k) ==
    /\ sPhase[k] = "check"
    /\ IF HasEventAfter(cursor[k]) THEN Goto(k, "slot") /\ UNCHANGED <<cursor, wire>>
       ELSE Refuse(k, "gone")
    /\ UNCHANGED <<logVars, feedVars, sHost, batch, more, clientVars, faults>>

\* StreamSlots.tryAcquire, then GameFeeds.acquire up to its await.
TakeSlot(k) ==
    /\ sPhase[k] = "slot"
    /\ IF Cardinality(Users(sHost[k])) >= MaxStreams
       THEN Refuse(k, "busy") /\ UNCHANGED feedVars
       ELSE Acquire(sHost[k]) /\ Goto(k, "acquire") /\ UNCHANGED <<cursor, wire>>
    /\ UNCHANGED <<logVars, sHost, batch, more, clientVars, faults>>

Accept(k) ==
    /\ sPhase[k] = "acquire"
    /\ fPhase[sHost[k]] = "on"
    /\ Goto(k, "top")
    /\ Put(k, Frame("start", cursor[k]))
    /\ UNCHANGED <<logVars, feedVars, sHost, cursor, batch, more, clientVars, faults>>

-----------------------------------------------------------------------------
(* The stream's loop                                                       *)

Top(k) ==
    /\ sPhase[k] = "top"
    /\ LET p == sHost[k] IN
       IF OutOfWindow(p, cursor[k])
       THEN /\ Goto(k, "read")
            /\ more' = [more EXCEPT ![k] = FALSE]
            /\ UNCHANGED batch
       ELSE LET events == EventsAfter(p, cursor[k]) IN
            /\ batch' = [batch EXCEPT ![k] = events]
            /\ more' = [more EXCEPT ![k] = events # << >>]
            /\ Goto(k, IF events = << >> THEN "tail" ELSE "send")
    /\ UNCHANGED <<logVars, feedVars, sHost, cursor, wire, clientVars, faults>>

\* The stream leaves its loop: the finally block.
Close(k) ==
    /\ Goto(k, "free")
    /\ cursor' = [cursor EXCEPT ![k] = 0]
    /\ batch' = [batch EXCEPT ![k] = << >>]
    /\ more' = [more EXCEPT ![k] = FALSE]
    /\ Put(k, Frame("eof", 0))
    /\ Release(sHost[k])

\* Mutant of ContiguousPrefix: the whole page is sent.
WholePage(k, r, n) == n = Len(r)

\* The first n rows of r continue the cursor, and no more do.
ContiguousPrefix(k, r, n) ==
    /\ \A i \in 1 .. n : r[i] = cursor[k] + i
    /\ n < Len(r) => r[n + 1] # cursor[k] + n + 1

\* A cursor the window does not reach: the stream reads the log itself, and
\* closes when the next event is gone.
ReadLog(k) ==
    /\ sPhase[k] = "read"
    /\ \E r \in PagesAfter(cursor[k]) : \E n \in 0 .. Len(r) :
          /\ ContiguousPrefix(k, r, n)
          /\ IF n = 0
             THEN Close(k)
             ELSE /\ batch' = [batch EXCEPT ![k] = SubSeq(r, 1, n)]
                  /\ more' = [more EXCEPT ![k] = TRUE]
                  /\ Goto(k, "send")
                  /\ UNCHANGED <<feedVars, cursor, wire>>
    /\ UNCHANGED <<logVars, sHost, clientVars, faults>>

Send(k) ==
    /\ sPhase[k] = "send"
    /\ LET seq == Head(batch[k]) IN
       /\ IF seq \in Wanted THEN CanWrite(k) /\ Put(k, Frame("event", seq))
          ELSE UNCHANGED wire
       /\ cursor' = [cursor EXCEPT ![k] = seq]
    /\ batch' = [batch EXCEPT ![k] = Tail(batch[k])]
    /\ Goto(k, "tail")
    /\ UNCHANGED <<logVars, feedVars, sHost, more, clientVars, faults>>

\* The heartbeat timer marks a heartbeat as due and wakes the stream; the
\* loop writes it between two frames.
HeartbeatDue(k) ==
    /\ sPhase[k] = "wait"
    /\ Goto(k, "top")
    /\ UNCHANGED <<logVars, feedVars, sHost, cursor, batch, more, wire, clientVars, faults>>

SendHeartbeat(k) ==
    /\ sPhase[k] = "tail"
    /\ CanWrite(k)
    /\ Put(k, Frame("beat", cursor[k]))
    /\ UNCHANGED <<logVars, feedVars, sPhase, sHost, cursor, batch, more, clientVars, faults>>

\* Mutant of EndTurn: a wake-up during the turn is forgotten.
EndTurnDeaf(k) ==
    /\ sPhase[k] = "tail"
    /\ Goto(k, IF batch[k] # << >> THEN "send" ELSE "wait")
    /\ UNCHANGED <<logVars, feedVars, sHost, cursor, batch, more, wire, clientVars, faults>>

EndTurn(k) ==
    /\ sPhase[k] = "tail"
    /\ Goto(k, IF batch[k] # << >> THEN "send" ELSE IF more[k] THEN "top" ELSE "wait")
    /\ UNCHANGED <<logVars, feedVars, sHost, cursor, batch, more, wire, clientVars, faults>>

\* A connection the subscriber gave up: the abort event, or a write that
\* fails or times out.
Abandoned(k) ==
    /\ sPhase[k] \in Looping /\ conn # k
    /\ Close(k)
    /\ UNCHANGED <<logVars, sHost, clientVars, faults>>

\* The server ends a live stream: a revoked key, a failed read, a stalled
\* client.
ServerEnds(k) ==
    /\ sPhase[k] \in Looping /\ conn = k
    /\ Fault
    /\ Close(k)
    /\ UNCHANGED <<logVars, sHost, clientVars>>

-----------------------------------------------------------------------------
(* The log and the feeds, under the streams                                *)

LogActs == LogStep /\ UNCHANGED <<feedVars, streamVars, clientVars, faults>>

FeedActs(p) ==
    /\ Query(p) \/ ReadStart(p) \/ Start(p)
    /\ UNCHANGED <<streamVars, clientVars, faults>>

PollAct(p) == Poll(p) /\ UNCHANGED <<streamVars, clientVars, faults>>

PublishAct(w) == Publish(w) /\ UNCHANGED <<streamVars, clientVars, faults>>

FeedQueryFails(p) == QueryFails(p) /\ Fault /\ UNCHANGED <<streamVars, clientVars>>

\* onAdvance: each stream of the process notes the wake-up, and goes on if
\* it was waiting.
FeedReads(p) ==
    /\ ApplyPage(p)
    /\ LET woken == IF page[p] = << >> THEN {}
                    ELSE {k \in Conns : sHost[k] = p /\ sPhase[k] \in Looping}
       IN /\ more' = [k \in Conns |-> more[k] \/ k \in woken]
          /\ sPhase' = [k \in Conns |->
                IF k \in woken /\ sPhase[k] = "wait" THEN "top" ELSE sPhase[k]]
    /\ UNCHANGED <<sHost, cursor, batch, wire, clientVars, faults>>

\* The streams in gone end at once; the subscriber's own learns it from its
\* next read.
EndAll(gone, kind) ==
    /\ sPhase' = [k \in Conns |-> IF k \in gone THEN "free" ELSE sPhase[k]]
    /\ batch' = [k \in Conns |-> IF k \in gone THEN << >> ELSE batch[k]]
    /\ more' = [k \in Conns |-> more[k] /\ k \notin gone]
    /\ wire' = [k \in Conns |->
          IF k \in gone /\ conn = k THEN Append(wire[k], Frame(kind, 0)) ELSE wire[k]]
    /\ cursor' = [k \in Conns |-> IF k \in gone THEN 0 ELSE cursor[k]]
    /\ UNCHANGED sHost

FeedStartFails(p) ==
    /\ Fault
    /\ StartFails(p)
    /\ EndAll(Users(p), "error")
    /\ UNCHANGED <<logVars, clientVars>>

\* A process dies: its open transactions roll back, its publishes, feed and
\* streams are gone.
Crash(p) ==
    /\ Fault
    /\ alloc' = [w \in Writers |-> IF Host[w] = p THEN NoWrite ELSE alloc[w]]
    /\ unpublished' = {w \in unpublished : Host[w] # p}
    /\ Discard(p)
    /\ EndAll({k \in Conns : sHost[k] = p /\ sPhase[k] # "free"}, "eof")
    /\ UNCHANGED <<counter, rows, clientVars>>

-----------------------------------------------------------------------------
(* The subscriber                                                          *)

Dial(k, p) ==
    /\ cPhase = "dial" /\ sPhase[k] = "free"
    /\ Goto(k, IF mode = "resume" THEN "resume" ELSE "fresh")
    /\ sHost' = [sHost EXCEPT ![k] = p]
    /\ cursor' = [cursor EXCEPT ![k] = position]
    /\ conn' = k
    /\ cPhase' = "answer"
    /\ UNCHANGED <<logVars, feedVars, batch, more, wire, mode, position, got, snap, due, faults>>

Receive(kind) ==
    /\ conn # NoConn
    /\ wire[conn] # << >>
    /\ Head(wire[conn]).kind = kind

\* Forget the connection and whatever is still unread on it.
HangUp ==
    /\ conn' = NoConn
    /\ wire' = [wire EXCEPT ![conn] = << >>]

\* schedule: resume from the last position after a delay.  The first
\* connection is not retried.
RetryLater ==
    /\ cPhase' = IF mode = "first" THEN "failed" ELSE "backoff"
    /\ mode' = IF mode = "first" THEN "first" ELSE "resume"

ReadFrame == wire' = [wire EXCEPT ![conn] = Tail(wire[conn])]

\* Accepted: read on from the position in the answer.  After a fresh start
\* the game's state is loaded next (onResync).
Opened ==
    /\ cPhase = "answer" /\ Receive("start")
    /\ ReadFrame
    /\ cPhase' = "open"
    /\ position' = Head(wire[conn]).id
    /\ due' = (due \/ mode # "resume")
    /\ mode' = "resume"
    /\ UNCHANGED <<logVars, feedVars, sPhase, sHost, cursor, batch, more, conn, got, snap, faults>>

\* 410: open a fresh stream.  To a fresh one it is final.
RefusedGone ==
    /\ cPhase = "answer" /\ Receive("gone")
    /\ HangUp
    /\ IF mode = "resume" THEN cPhase' = "dial" /\ mode' = "resync"
       ELSE cPhase' = "failed" /\ UNCHANGED mode
    /\ UNCHANGED <<logVars, feedVars, sPhase, sHost, cursor, batch, more, position, got, snap, due, faults>>

\* 429, as every 4xx but 408 and 410, ends the subscription.
RefusedBusy ==
    /\ cPhase = "answer" /\ Receive("busy")
    /\ HangUp
    /\ cPhase' = "failed"
    /\ UNCHANGED <<logVars, feedVars, sPhase, sHost, cursor, batch, more, mode, position, got, snap, due, faults>>

\* A 5xx answer, or the end of the response.
Ended ==
    /\ Receive("error") \/ Receive("eof")
    /\ HangUp
    /\ RetryLater
    /\ UNCHANGED <<logVars, feedVars, sPhase, sHost, cursor, batch, more, position, got, snap, due, faults>>

\* Mutant of OnFrame: the position moves with heartbeats only.
OnFrameLazy ==
    /\ cPhase = "open"
    /\ Receive("event") \/ Receive("beat")
    /\ ReadFrame
    /\ LET f == Head(wire[conn]) IN
       IF f.kind = "event" THEN got' = got \cup {f.id} /\ UNCHANGED position
       ELSE position' = f.id /\ UNCHANGED got
    /\ UNCHANGED <<logVars, feedVars, sPhase, sHost, cursor, batch, more, cPhase, mode, conn, snap, due, faults>>

\* The position moves with every frame; events go to the handler.
OnFrame ==
    /\ cPhase = "open"
    /\ Receive("event") \/ Receive("beat")
    /\ ReadFrame
    /\ LET f == Head(wire[conn]) IN
       /\ position' = f.id
       /\ got' = IF f.kind = "event" THEN got \cup {f.id} ELSE got
    /\ UNCHANGED <<logVars, feedVars, sPhase, sHost, cursor, batch, more, cPhase, mode, conn, snap, due, faults>>

\* The connection breaks, or the watchdog closes a silent one: what is on
\* the wire is lost, and the server need not know.
Break ==
    /\ cPhase \in {"answer", "open"}
    /\ Fault
    /\ HangUp
    /\ RetryLater
    /\ UNCHANGED <<logVars, feedVars, sPhase, sHost, cursor, batch, more, position, got, snap, due>>

Reconnect ==
    /\ cPhase = "backoff"
    /\ cPhase' = "dial"
    /\ UNCHANGED <<logVars, feedVars, streamVars, mode, conn, position, got, snap, due, faults>>

\* The caller reloads its state: a read of the database, so it covers every
\* position the counter shows.
Reload ==
    /\ due
    /\ snap' = counter
    /\ due' = FALSE
    /\ UNCHANGED <<logVars, feedVars, streamVars, cPhase, mode, conn, position, got, faults>>

-----------------------------------------------------------------------------
Accepting(k) ==
    ResolveFresh(k) \/ ResolveResume(k) \/ CheckRetained(k) \/ TakeSlot(k) \/ Accept(k)

Streaming(k) == Top(k) \/ ReadLog(k) \/ Send(k) \/ EndTurn(k)

Subscriber ==
    \/ \E k \in Conns, p \in Procs : Dial(k, p)
    \/ Opened \/ RefusedGone \/ RefusedBusy \/ Ended \/ OnFrame \/ Reconnect

Next ==
    \/ LogActs
    \/ \E w \in Writers : PublishAct(w)
    \/ \E p \in Procs :
          \/ FeedActs(p) \/ PollAct(p) \/ FeedReads(p)
          \/ FeedQueryFails(p) \/ FeedStartFails(p) \/ Crash(p)
    \/ \E k \in Conns :
          \/ Accepting(k) \/ Streaming(k)
          \/ HeartbeatDue(k) \/ SendHeartbeat(k) \/ Abandoned(k) \/ ServerEnds(k)
    \/ Subscriber
    \/ Reload
    \/ Break

Spec == Init /\ [][Next]_vars

\* Timers fire, reads answer and the subscriber reads its socket; nothing is
\* assumed of commits, publishes, sweeps, heartbeats or failures.
Fairness ==
    /\ \A p \in Procs :
          WF_vars(FeedActs(p)) /\ WF_vars(PollAct(p)) /\ WF_vars(FeedReads(p))
    /\ \A k \in Conns :
          WF_vars(Accepting(k)) /\ WF_vars(Streaming(k)) /\ WF_vars(Abandoned(k))
    /\ WF_vars(Subscriber)
    /\ WF_vars(Reload)

FairSpec == Spec /\ Fairness

-----------------------------------------------------------------------------
Kinds == {"start", "event", "beat", "gone", "busy", "error", "eof"}

StreamTypeOK ==
    /\ sPhase \in [Conns -> Looping \cup {"free", "fresh", "resume", "check", "slot", "acquire"}]
    /\ sHost \in [Conns -> Procs]
    /\ cursor \in [Conns -> Position]
    /\ batch \in [Conns -> Seq(1 .. MaxSeq)]
    /\ more \in [Conns -> BOOLEAN]
    /\ wire \in [Conns -> Seq([kind : Kinds, id : Position])]

ClientTypeOK ==
    /\ cPhase \in {"dial", "answer", "open", "backoff", "failed"}
    /\ mode \in {"first", "resume", "resync"}
    /\ conn \in Conns \cup {NoConn}
    /\ position \in Position
    /\ got \subseteq 1 .. MaxSeq
    /\ snap \in Position
    /\ due \in BOOLEAN

TypeOK ==
    /\ LogTypeOK /\ FeedTypeOK /\ StreamTypeOK /\ ClientTypeOK
    /\ faults \in 0 .. MaxFaults

\* Once the subscriber has loaded its state, every event its filter lets
\* through up to its position is in that state or was delivered to it,
\* whatever was swept, lost or restarted on the way (gameEvents.ts of the
\* SDK: "short of an expired position, none are skipped"; onResync for the
\* expired one).
NoEventLost ==
    ~ due => \A s \in Wanted : 1 <= s /\ s <= position => s <= snap \/ s \in got

\* Events are delivered in position order and each at most once, across
\* reconnects and resyncs ("the handler sees each event at most once").
AtMostOnceInOrder ==
    [][OnFrame /\ Head(wire[conn]).kind = "event"
         => \A s \in got : s < Head(wire[conn]).id]_vars

\* The window is a contiguous run of positions that ends at head
\* (gameFeed.ts).
WindowContiguous ==
    \A p \in Procs : \A i \in 1 .. Len(window[p]) :
        window[p][i] + (Len(window[p]) - i) = head[p]

\* A stream in its loop reads a live feed: a release by one stream, or a
\* failed start, never stops the feed under another (GameFeeds.refs).
FeedHeld ==
    /\ \A p \in Procs : refs[p] = Cardinality(Users(p))
    /\ \A k \in Conns : sPhase[k] \in Looping => fPhase[sHost[k]] = "on"

\* Every event the filter lets through reaches a subscriber that did not
\* fail, through the stream or through a reload, as long as the log keeps
\* that event or a later one.  (A feed that is 24 hours behind, and finds
\* the whole tail of the log swept, hears of it with the next event only.)
CaughtUp ==
    \A s \in 1 .. MaxSeq :
        s \in Wanted /\ <>[](\E t \in rows : t >= s)
          => <>(cPhase = "failed" \/ s <= snap \/ s \in got)

\* The whole stack behaves as the promise to a subscriber.
Promise == INSTANCE Subscription
KeepsPromise == Promise!Spec

=============================================================================
