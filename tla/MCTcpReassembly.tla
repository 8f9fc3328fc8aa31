-------------------------- MODULE MCTcpReassembly --------------------------
(***************************************************************************)
(* Segment sets for TLC.                                                   *)
(***************************************************************************)
EXTENDS TcpReassembly

\* Any piece of up to three bytes, or of none, of a stream of six.
AnyPiece == {s \in (0..6) \X (0..6) : s[1] <= s[2] /\ s[2] - s[1] <= 3}

\* A stream of twelve bytes that is always cut at the same places.
FixedPieces == {<<0, 2>>, <<2, 3>>, <<3, 6>>, <<6, 7>>, <<7, 9>>, <<9, 12>>}
=============================================================================
