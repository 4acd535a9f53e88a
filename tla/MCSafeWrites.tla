---------------------------- MODULE MCSafeWrites ----------------------------
(* A small instance of SafeWrites for TLC. *)
EXTENDS SafeWrites, TLC

CONSTANTS w1, w2, w3, k1, k2, r1, r2, r3, r4

\* A ban that names no version, a conditional lift, and a conditional ban
\* sent by mistake with the key of the lift.
MCKind == (w1 :> "ban") @@ (w2 :> "lift") @@ (w3 :> "ban")
MCKeyOf == (w1 :> k1) @@ (w2 :> k2) @@ (w3 :> k2)
MCIfMatch == (w1 :> None) @@ (w2 :> 1) @@ (w3 :> 2)

\* The ban is retried while its first request still runs.
MCWriteOf == (r1 :> w1) @@ (r2 :> w1) @@ (r3 :> w2) @@ (r4 :> w3)

=============================================================================
