--------------------------- MODULE UploadRefinement ---------------------------
(***************************************************************************)
(* The upload handlers implement SessionLog: the log of a hash is what a   *)
(* reader finds in its cast file.                                          *)
(***************************************************************************)
EXTENDS Upload, FiniteSets

(* Where in file f an event line stands whole, and its place among those.  *)
Starts(f) ==
  {i \in DOMAIN f : f[i].write \in Writes /\ EventAt(f, i - 1, f[i].write, f[i].base)}

Rank(i, starts) == Cardinality({j \in starts : j <= i})

Ranked(k, starts) == {i \in starts : Rank(i, starts) = k}

(* The writes whose event line stands whole in file f, in file order.      *)
Replay(f) ==
  LET starts == Starts(f)
  IN  [k \in 1..Cardinality(starts) |-> f[CHOOSE i \in Ranked(k, starts) : TRUE].write]

(* What a reader finds, of the files for which anything is promised.       *)
Replayed == [h \in Hashes |-> IF h \in contended THEN <<>> ELSE Replay(castData[h])]

Log == INSTANCE SessionLog WITH log <- Replayed, shared <- contended

(* Whatever handlers, failing writes and restarts do, what can be replayed *)
(* from an uncontended cast file changes only by one write of its session  *)
(* being added at the end, never twice: asciinema.Append through whichever *)
(* handle uploadHandler opened is an append to the session's log.          *)
ImplementsLog == Log!Spec
=============================================================================
