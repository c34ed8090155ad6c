----------------------------- MODULE ResultLog -----------------------------
(***************************************************************************)
(* What the transfer of a scan's results promises: the database is a log   *)
(* that grows by whole batches, and a batch is every result of the first   *)
(* scan saved under the configured name, once for every word.              *)
(***************************************************************************)
EXTENDS Sequences

CONSTANTS
  Runs,         \* the results a scan may save
  Wordlists,    \* the wordlists a transfer may read
  Batch(_, _)   \* the rows made of the results of a run and a wordlist

VARIABLES
  first,  \* what the first file holds: a run, or nothing readable
  log     \* the committed rows

vars == <<first, log>>

Nothing == [whole |-> FALSE, results |-> <<>>]

Init == first = Nothing /\ log = <<>>

\* Later scans are saved under other names.
Save == /\ first = Nothing /\ log = <<>>
        /\ first' \in {[whole |-> TRUE, results |-> r] : r \in Runs}
        /\ log' = log

Load == /\ first.whole
        /\ \E ws \in Wordlists : log' = log \o Batch(first.results, ws)
        /\ first' = first

Next == Save \/ Load

Spec == Init /\ [][Next]_vars
=============================================================================
