---------------------------- MODULE MCGameMirror ----------------------------
(***************************************************************************)
(* GameMirror for TLC: two people of one id each, of whom one is muted at  *)
(* first and a member of the group.  (A mute and no ban, for a banned      *)
(* person is neither linked nor unlinked.)                                 *)
(***************************************************************************)
EXTENDS GameMirror

CONSTANTS a, b

MCStarts ==
    {[ids |-> [i \in Ids |-> <<i>>],
      marked |-> [l \in Lists |-> IF l = "mutes" THEN {a} ELSE {}],
      joined |-> {a}]}

=============================================================================
