------------------------------ MODULE MCOutbox ------------------------------
(***************************************************************************)
(* Instances of Outbox for TLC.                                            *)
(***************************************************************************)
EXTENDS Outbox, TLC

CONSTANTS e1, e2, e3, p1, p2, key

\* Two events of one stream.
OneStream == [r \in Records |-> 0]
NoKey == [r \in Records |-> None]

\* Two events of a stream and one of the stream behind it in the scan, which shares
\* its key with the first.
TwoStreams == [r \in Records |-> IF r = e3 THEN 1 ELSE 0]
SharedKey == [r \in Records |-> IF r = e2 THEN None ELSE key]

PublisherSymmetry == Permutations({p1, p2})
=============================================================================
