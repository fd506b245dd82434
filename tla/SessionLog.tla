----------------------------- MODULE SessionLog -----------------------------
(***************************************************************************)
(* What a reader of the recordings may rely on: one log of tty writes per  *)
(* session hash that only ever grows at its end, in which a write appears  *)
(* at most once and only in the log of its own hash.  A log two uploads    *)
(* share at the same time loses this promise for good.                     *)
(***************************************************************************)
EXTENDS Sequences, Integers

CONSTANTS Writes, Hashes, HashOf

VARIABLES
  log,     \* log[h]: the writes recorded for h, oldest first
  shared   \* the hashes for which nothing is promised any more

logVars == <<log, shared>>

Init ==
  /\ log = [h \in Hashes |-> <<>>]
  /\ shared = {}

Record(w) ==
  LET h == HashOf[w]
  IN  /\ h \notin shared
      /\ \A i \in DOMAIN log[h] : log[h][i] # w
      /\ log' = [log EXCEPT ![h] = Append(@, w)]
      /\ UNCHANGED shared

Share(h) ==
  /\ shared' = shared \union {h}
  /\ log' = [log EXCEPT ![h] = <<>>]

Next == (\E w \in Writes : Record(w)) \/ (\E h \in Hashes : Share(h))

Spec == Init /\ [][Next]_logVars
=============================================================================
