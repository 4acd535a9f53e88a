------------------------------ MODULE EventLog ------------------------------
(***************************************************************************)
(* The durable event log of one game: packages/server/src/eventLog.ts.     *)
(*                                                                         *)
(* A mutation's transaction writes its events as its last statement, which *)
(* bumps the game's counter row and inserts the rows.  The counter row     *)
(* stays locked until that transaction ends, so positions become visible   *)
(* in order.  A sweeper deletes aged rows in batches without an order.     *)
(*                                                                         *)
(*   counter      GameEventCounter.seq as other transactions see it        *)
(*   rows         the positions whose EventLog row is committed and kept   *)
(*   alloc        alloc[w]: writer w has written, and not yet committed,   *)
(*                the rows alloc[w].from + 1 .. alloc[w].to                *)
(*   unpublished  writers that committed and have not told the hub yet     *)
(***************************************************************************)
EXTENDS Naturals, FiniteSets

CONSTANTS
    Writers,   \* mutation requests that stage events, on any server process
    MaxSeq,    \* bound: positions a behaviour allocates
    MaxBatch   \* bound: events one transaction stages

ASSUME LogAssumption == MaxSeq \in Nat /\ MaxBatch \in Nat \ {0}

VARIABLES counter, rows, alloc, unpublished

logVars == <<counter, rows, alloc, unpublished>>

Position == 0 .. MaxSeq

NoWrite == [from |-> 0, to |-> 0]

Writing(w) == alloc[w].from < alloc[w].to

\* The counter row is locked by the transaction that bumped it.
CounterLocked == \E w \in Writers : Writing(w)

LogInit ==
    /\ counter = 0
    /\ rows = {}
    /\ alloc = [w \in Writers |-> NoWrite]
    /\ unpublished = {}

-----------------------------------------------------------------------------
\* Mutant of WriteEventLog: the next free positions, from a counter that is
\* not held until the commit.
WriteUnlocked(w, n) ==
    /\ ~ Writing(w) /\ w \notin unpublished
    /\ \E top \in {counter} \cup {alloc[v].to : v \in Writers} :
          /\ top >= counter /\ \A v \in Writers : top >= alloc[v].to
          /\ top + n <= MaxSeq
          /\ alloc' = [alloc EXCEPT ![w] = [from |-> top, to |-> top + n]]
    /\ UNCHANGED <<counter, rows, unpublished>>

\* The transaction's last statement: n positions after the counter.
WriteEventLog(w, n) ==
    /\ w \notin unpublished
    /\ ~ CounterLocked
    /\ counter + n <= MaxSeq
    /\ alloc' = [alloc EXCEPT ![w] = [from |-> counter, to |-> counter + n]]
    /\ UNCHANGED <<counter, rows, unpublished>>

Commit(w) ==
    /\ Writing(w)
    /\ counter' = alloc[w].to
    /\ rows' = rows \cup (alloc[w].from + 1 .. alloc[w].to)
    /\ alloc' = [alloc EXCEPT ![w] = NoWrite]
    /\ unpublished' = unpublished \cup {w}

Rollback(w) ==
    /\ Writing(w)
    /\ alloc' = [alloc EXCEPT ![w] = NoWrite]
    /\ UNCHANGED <<counter, rows, unpublished>>

\* One batch of the sweeper.  It deletes aged rows in no order, so the rows
\* it leaves need not be the newest ones.
SweepBatch ==
    /\ \E aged \in SUBSET rows : aged # {} /\ rows' = rows \ aged
    /\ UNCHANGED <<counter, alloc, unpublished>>

LogStep ==
    \/ \E w \in Writers : \E n \in 1 .. MaxBatch : WriteEventLog(w, n)
    \/ \E w \in Writers : Commit(w) \/ Rollback(w)
    \/ SweepBatch

\* After its commit the request tells the hub.
Published(w) ==
    /\ w \in unpublished
    /\ unpublished' = unpublished \ {w}
    /\ UNCHANGED <<counter, rows, alloc>>

LogSpec == LogInit /\ [][LogStep \/ \E w \in Writers : Published(w)]_logVars

-----------------------------------------------------------------------------
LogTypeOK ==
    /\ counter \in Position
    /\ rows \subseteq 1 .. MaxSeq
    /\ alloc \in [Writers -> [from : Position, to : Position]]
    /\ unpublished \subseteq Writers

\* A committed row is never ahead of the counter, so a position read from
\* the counter covers every row a reader can see.
RowsBehindCounter == rows \subseteq 1 .. counter

\* Rows become visible in position order and without a hole: whatever a
\* commit reveals lies directly after everything visible before it.  A
\* reader that has read up to the counter never has to look back
\* (eventLog.ts, the counter lock taken by the transaction's last
\* statement; GameEventMeta's "gapless" position).
VisibleInOrder ==
    [][rows' \ rows = counter + 1 .. counter']_<<counter, rows>>

=============================================================================
