------------------------------ MODULE GameFeed ------------------------------
(***************************************************************************)
(* One game's feed in every server process: gameFeed.ts and the game half  *)
(* of eventHub.ts, over the log of EventLog.                               *)
(*                                                                         *)
(* A feed tails the log for all the streams of its process.  It is created *)
(* by the first stream that acquires it and stopped by the last that       *)
(* releases it.  It reads when the hub says so and on a poll timer; the    *)
(* wake-ups that arrive during a read coalesce into one more read.         *)
(*                                                                         *)
(*   refs      the entry's reference count; no entry when it is 0          *)
(*   fPhase    "off", "starting" (position read under way), "positioned"   *)
(*             (answered, not yet subscribed to the hub) or "on"           *)
(*   head      the last position the feed has read                        *)
(*   window    the positions of the events held in memory, oldest first    *)
(*   rPhase    the read loop: "idle", "query" (asked the database) or      *)
(*             "page" (holding the answer)                                 *)
(*   page      that answer                                                 *)
(*   again     a wake-up arrived during the read                           *)
(***************************************************************************)
EXTENDS EventLog, Sequences

CONSTANTS
    Procs,     \* server processes
    Host,      \* the process each writer runs in
    Page,      \* EVENT_LOG_PAGE
    Window     \* GAME_FEED_WINDOW

ASSUME FeedAssumption ==
    /\ Host \in [Writers -> Procs]
    /\ Page \in Nat \ {0}
    /\ Window \in Nat \ {0}

VARIABLES refs, fPhase, head, window, rPhase, page, again

feedVars == <<refs, fPhase, head, window, rPhase, page, again>>
readVars == <<rPhase, page, again>>

FeedInit ==
    /\ refs = [p \in Procs |-> 0]
    /\ fPhase = [p \in Procs |-> "off"]
    /\ head = [p \in Procs |-> 0]
    /\ window = [p \in Procs |-> << >>]
    /\ rPhase = [p \in Procs |-> "idle"]
    /\ page = [p \in Procs |-> << >>]
    /\ again = [p \in Procs |-> FALSE]

-----------------------------------------------------------------------------
(* Reading the log                                                         *)

\* r is what readEventLog(after, Page) answers: the first Page rows after
\* the position, in order.
IsPage(r, after) ==
    /\ \A i \in 1 .. Len(r) : r[i] > after
    /\ \A i, j \in 1 .. Len(r) : i < j => r[i] < r[j]
    /\ \A s \in rows : s > after =>
          \/ \E i \in 1 .. Len(r) : r[i] = s
          \/ Len(r) = Page /\ s > r[Page]

PagesAfter(after) ==
    {r \in UNION {[1 .. n -> rows] : n \in 0 .. Page} : IsPage(r, after)}

\* The event right after the position is still logged.
HasEventAfter(position) == position + 1 \in rows

-----------------------------------------------------------------------------
(* Serving from memory                                                     *)

First(p) == IF window[p] = << >> THEN head[p] + 1 ELSE window[p][1]

\* eventsAfter answers null: the window does not reach back to the cursor.
OutOfWindow(p, cursor) == cursor + 1 < First(p)

EventsAfter(p, cursor) ==
    IF cursor >= head[p] THEN << >>
    ELSE SubSeq(window[p], cursor + 2 - First(p), Len(window[p]))

-----------------------------------------------------------------------------
(* The read loop                                                           *)

WakeEffect(ps) ==
    LET awake == {p \in ps : fPhase[p] = "on"}
        idle  == {p \in awake : rPhase[p] = "idle"}
    IN  /\ rPhase' = [p \in Procs |-> IF p \in idle THEN "query" ELSE rPhase[p]]
        /\ again' = [p \in Procs |-> IF p \in idle THEN FALSE
                                     ELSE again[p] \/ p \in awake]

\* The poll timer, which is how commits of other processes arrive.
Poll(p) ==
    /\ fPhase[p] = "on"
    /\ WakeEffect({p})
    /\ UNCHANGED <<logVars, refs, fPhase, head, window, page>>

\* After the commit the request publishes to its own process's hub.
Publish(w) ==
    /\ Published(w)
    /\ WakeEffect({Host[w]})
    /\ UNCHANGED <<refs, fPhase, head, window, page>>

Query(p) ==
    /\ rPhase[p] = "query"
    /\ \E r \in PagesAfter(head[p]) : page' = [page EXCEPT ![p] = r]
    /\ rPhase' = [rPhase EXCEPT ![p] = "page"]
    /\ UNCHANGED <<logVars, refs, fPhase, head, window, again>>

\* A failed read is logged; the next wake-up reads from the same head.
QueryFails(p) ==
    /\ rPhase[p] = "query"
    /\ rPhase' = [rPhase EXCEPT ![p] = "idle"]
    /\ UNCHANGED <<logVars, refs, fPhase, head, window, page, again>>

\* The last run of consecutive positions of page r starts at index i.
IsLastRun(r, i) ==
    /\ \A j \in i .. Len(r) : r[j] + (Len(r) - j) = r[Len(r)]
    /\ i > 1 => r[i - 1] + 1 < r[i]

Trim(w) == IF Len(w) > Window THEN SubSeq(w, Len(w) - Window + 1, Len(w)) ELSE w

\* Mutant of Extend: a jump in the positions goes unnoticed.
ExtendAcrossGap(p, r, i) == window[p] \o r

\* The loop over the rows of a page: a row that does not continue the
\* window restarts it there.
Extend(p, r, i) ==
    IF i = 1 /\ r[1] = head[p] + 1 THEN window[p] \o r ELSE SubSeq(r, i, Len(r))

ApplyPage(p) ==
    /\ rPhase[p] = "page"
    /\ LET r == page[p] IN
       /\ IF r = << >>
          THEN UNCHANGED <<head, window>>
          ELSE \E i \in 1 .. Len(r) :
                 /\ IsLastRun(r, i)
                 /\ head' = [head EXCEPT ![p] = r[Len(r)]]
                 /\ window' = [window EXCEPT ![p] = Trim(Extend(p, r, i))]
       /\ IF Len(r) = Page \/ again[p]
          THEN rPhase' = [rPhase EXCEPT ![p] = "query"]
          ELSE rPhase' = [rPhase EXCEPT ![p] = "idle"]
       /\ again' = [again EXCEPT ![p] = again[p] /\ Len(r) = Page]
    /\ page' = [page EXCEPT ![p] = << >>]
    /\ UNCHANGED <<logVars, refs, fPhase>>

-----------------------------------------------------------------------------
(* The feed's life: GameFeeds.acquire and release                          *)

Acquire(p) ==
    /\ refs' = [refs EXCEPT ![p] = refs[p] + 1]
    /\ fPhase' = [fPhase EXCEPT ![p] = IF refs[p] = 0 THEN "starting" ELSE fPhase[p]]
    /\ UNCHANGED <<head, window, readVars>>

ReadStart(p) ==
    /\ fPhase[p] = "starting"
    /\ fPhase' = [fPhase EXCEPT ![p] = "positioned"]
    /\ head' = [head EXCEPT ![p] = counter]
    /\ UNCHANGED <<logVars, refs, window, readVars>>

\* The feed subscribes to the hub and reads at once, for what was
\* published since the position was read.
Start(p) ==
    /\ fPhase[p] = "positioned"
    /\ fPhase' = [fPhase EXCEPT ![p] = "on"]
    /\ rPhase' = [rPhase EXCEPT ![p] = "query"]
    /\ UNCHANGED <<logVars, refs, head, window, page, again>>

\* What stopping a feed, or losing its process, leaves behind.
Discard(p) ==
    /\ refs' = [refs EXCEPT ![p] = 0]
    /\ fPhase' = [fPhase EXCEPT ![p] = "off"]
    /\ head' = [head EXCEPT ![p] = 0]
    /\ window' = [window EXCEPT ![p] = << >>]
    /\ rPhase' = [rPhase EXCEPT ![p] = "idle"]
    /\ page' = [page EXCEPT ![p] = << >>]
    /\ again' = [again EXCEPT ![p] = FALSE]

\* A failed start drops the entry, for all who wait for it.
StartFails(p) == fPhase[p] = "starting" /\ Discard(p)

\* Mutant of Release: a stream that leaves is still counted.
ReleaseLeaks(p) == UNCHANGED feedVars

Release(p) ==
    IF refs[p] = 1 THEN Discard(p)
    ELSE /\ refs' = [refs EXCEPT ![p] = refs[p] - 1]
         /\ UNCHANGED <<fPhase, head, window, readVars>>

-----------------------------------------------------------------------------
FeedTypeOK ==
    /\ refs \in [Procs -> Nat]
    /\ fPhase \in [Procs -> {"off", "starting", "positioned", "on"}]
    /\ head \in [Procs -> Position]
    /\ window \in [Procs -> Seq(1 .. MaxSeq)]
    /\ rPhase \in [Procs -> {"idle", "query", "page"}]
    /\ page \in [Procs -> Seq(1 .. MaxSeq)]
    /\ again \in [Procs -> BOOLEAN]

=============================================================================
