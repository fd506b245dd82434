------------------------------ MODULE MCArray ------------------------------
(***************************************************************************)
(* Instances of ArrayUse for TLC: programs that build an array of up to    *)
(* ten elements and do two things with it, that do four with short ones,   *)
(* that build two arrays, cut one and join them, and that join long ones   *)
(* twice.                                                                  *)
(***************************************************************************)
EXTENDS ArrayUse

OneArray == [sizes |-> {0, 1, 3, 4, 7, 9, 10}, push |-> 10, cut |-> 7, len |-> 10, kept |-> 0,
             edits |-> 1, cuts |-> 1, joins |-> 1, ops |-> 2]

ShortArray == [sizes |-> {3, 4}, push |-> 0, cut |-> 7, len |-> 9, kept |-> 0,
               edits |-> 1, cuts |-> 2, joins |-> 2, ops |-> 4]

TwoArrays == [sizes |-> {3, 4, 10}, push |-> 0, cut |-> 7, len |-> 20, kept |-> 1,
              edits |-> 0, cuts |-> 1, joins |-> 1, ops |-> 2]

LongArrays == [sizes |-> {3, 4, 16}, push |-> 0, cut |-> 0, len |-> 23, kept |-> 1,
               edits |-> 0, cuts |-> 0, joins |-> 2, ops |-> 2]

MCPlans == {OneArray, ShortArray, TwoArrays, LongArrays}
=============================================================================
