---------------------------- MODULE MCMovement ----------------------------
(* One file on two or three of four hosts. *)
EXTENDS Movement

MCFiles == [n : 2..4, rl : {0, 1}, hash : {0, 1, 6, 11}, dir : {0}, size : {1, 4}]
MCExpandLists == {<<2>>, <<3>>, <<3, 4>>}
MCShrinkLists == {<<0>>, <<1>>, <<2, 0>>}
MCRebuildLists == {<<1, 2>>, <<1, 4, 0>>}

\* A case that the utilities do not handle is not followed further.
Handled == ~beyond

=============================================================================
