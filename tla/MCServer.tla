------------------------------ MODULE MCServer ------------------------------
(***************************************************************************)
(* Small instances of Server for TLC.                                      *)
(***************************************************************************)
EXTENDS Server, UploadRefinement, TLC

CONSTANTS n1, c1, c2, v1

MCSeconds     == {9}
MCHeaderSize  == [s \in MCSeconds |-> 1]

(* Two sessions of one host and a reconnection of its client.              *)
MCNodes     == {n1}
MCHashes    == {1, 2}
MCWrites    == 1..3
MCNodeOf    == [w \in MCWrites |-> n1]
MCHashOf    == <<2, 1, 1>>
MCSecondsOf == [w \in MCWrites |-> 9]
MCEntrySize == [w \in MCWrites |-> 1]
MCConns     == {c1, c2}
MCConnNode  == [c \in MCConns |-> n1]
MCViewers   == {v1}

(* One session whose client reconnects: with two timestamps, whose headers *)
(* differ in length, and small enough for liveness.                        *)
LiveSeconds    == {9, 10}
LiveHeaderSize == [s \in LiveSeconds |-> IF s = 9 THEN 1 ELSE 2]
LiveHashes     == {1}
LiveWrites     == 1..2
LiveNodeOf     == [w \in LiveWrites |-> n1]
LiveHashOf     == [w \in LiveWrites |-> 1]
LiveSecondsOf  == <<9, 10>>
LiveEntrySize  == <<1, 2>>
=============================================================================
