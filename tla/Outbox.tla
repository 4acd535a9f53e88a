------------------------------- MODULE Outbox -------------------------------
(***************************************************************************)
(* What the write queue promises its caller, whatever crashes and restarts *)
(* lie between an enqueue and the server: an entry the caller saw accepted *)
(* is never withdrawn, and the server decides the entries one by one in    *)
(* the order they were enqueued.                                           *)
(***************************************************************************)
EXTENDS Naturals, Sequences

CONSTANTS Entries

VARIABLES
    line,      \* the entries in the order they were enqueued
    gone,      \* entries withdrawn before the server saw them
    accepted,  \* entries whose enqueue returned
    verdict    \* the server's decision on each entry

vars == <<line, gone, accepted, verdict>>

InLine(e) == \E i \in 1 .. Len(line) : line[i] = e

Init ==
    /\ line = << >>
    /\ gone = {} /\ accepted = {}
    /\ verdict = [e \in Entries |-> "none"]

Submit(e) ==
    /\ ~ InLine(e)
    /\ line' = Append(line, e)
    /\ UNCHANGED <<gone, accepted, verdict>>

Accept(e) ==
    /\ InLine(e) /\ e \notin gone
    /\ accepted' = accepted \cup {e}
    /\ UNCHANGED <<line, gone, verdict>>

Withdraw(S) ==
    /\ \A e \in S : InLine(e) /\ e \notin accepted /\ verdict[e] = "none"
    /\ gone' = gone \cup S
    /\ UNCHANGED <<line, accepted, verdict>>

Decide(e, v) ==
    /\ e \notin gone /\ verdict[e] = "none"
    /\ \E i \in 1 .. Len(line) :
          /\ line[i] = e
          /\ \A j \in 1 .. i - 1 : line[j] \in gone \/ verdict[line[j]] # "none"
    /\ verdict' = [verdict EXCEPT ![e] = v]
    /\ UNCHANGED <<line, gone, accepted>>

Next ==
    \/ \E e \in Entries :
          Submit(e) \/ Accept(e) \/ \E v \in {"success", "refused"} : Decide(e, v)
    \/ \E S \in SUBSET Entries : Withdraw(S)

Spec == Init /\ [][Next]_vars

=============================================================================
