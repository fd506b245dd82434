------------------------------ MODULE MCViewer ------------------------------
(* Recordings for TLC. *)
EXTENDS Viewer

NoLifted == {}
ThreeFiles == <<"1.cast", "2.cast", "3.cast">>
ThreeLabels == <<"pod1", "pod2", "pod3">>

=============================================================================
