------------------------------ MODULE MCUpload ------------------------------
(***************************************************************************)
(* Small instances of Upload for TLC.                                      *)
(***************************************************************************)
EXTENDS Upload, TLC

CONSTANTS n1, n2, c1, c2, c3

(* Timestamps 9 and 10: their headers differ in length by a digit.         *)
MCSeconds    == {9, 10}
MCHeaderSize == [s \in MCSeconds |-> IF s = 9 THEN 1 ELSE 2]

(* One host, one session, three connections of its client in turn.         *)
OneNode       == {n1}
OneHash       == {1}
ThreeWrites   == 1..3
OneNodeOf     == [w \in ThreeWrites |-> n1]
OneHashOf     == [w \in ThreeWrites |-> 1]
OneSecondsOf  == <<9, 10, 10>>
OneEntrySize  == <<1, 2, 1>>
ThreeConns    == {c1, c2, c3}
ThreeConnNode == [c \in ThreeConns |-> n1]
TwoConns      == {c1, c2}
TwoConnNode   == [c \in TwoConns |-> n1]

(* Two hosts.  Host n1 has two sessions, and n2 has one of its own.        *)
TwoNodes      == {n1, n2}
TwoHashes     == {1, 2}
TwoNodeOf     == <<n1, n1, n2>>
TwoHashOf     == <<1, 1, 2>>
TwoHostsConn  == (c1 :> n1) @@ (c2 :> n1) @@ (c3 :> n2)
=============================================================================
