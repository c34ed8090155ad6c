---------------------------- MODULE ResultStore ----------------------------
(***************************************************************************)
(* The results of the scans on their way into the database: the JSON files *)
(* (Wire/FileWires.cs), the transfer command (CompilerToDB.cs) and the     *)
(* RequestLogs table (DB_Controller/DB.cs).  The shell runs one command at *)
(* a time; what a command has done so far is lost when the process dies.   *)
(***************************************************************************)
EXTENDS Integers, SequencesExt, TLC

CONSTANTS
  Results,    \* what one request may have reported: code, lat and message,
              \* the status line by its words
  Runs,       \* the results a scan may save, as sequences
  Wordlists,  \* the wordlists a transfer may find, as sequences
  MaxFiles,   \* bound: scans saved
  MaxRows,    \* bound: rows above which no further transfer begins
  MaxKills    \* bound: kills that leave a file or a model unfinished

ASSUME StoreAssumption ==
  /\ Results \subseteq [code : Nat, lat : Nat, message : Seq(STRING)]
  /\ Runs \subseteq Seq(Results)
  /\ Wordlists \subseteq Seq(STRING)
  /\ MaxFiles \in Nat /\ MaxRows \in Nat /\ MaxKills \in Nat

VARIABLES
  phase,   \* the command in progress, or "idle"
  files,   \* the result files, in the order of their names: f, f(1), f(2), ...
  table,   \* RequestLogs exists
  rows,    \* its committed rows
  stream,  \* what the log stream of a transfer has still to yield
  txn,     \* rows inserted and not committed
  kills    \* how often that has happened

storeVars == <<files, table, rows, stream, txn>>

\* The process is killed while it writes a file, or between two that belong
\* together.
Kill == kills < MaxKills /\ kills' = kills + 1

\* A file whose write was cut short is not a JSON document.
Torn == [whole |-> FALSE, results |-> <<>>]
Doc(run) == [whole |-> TRUE, results |-> run]

Protocols  == {"HTTP/1.0", "HTTP/1.1"}
CodeDigits == {ToString(n) : n \in 100..999}

\* The first word, if it is one of words and white space follows it, goes.
Strip(line, words) ==
  IF Len(line) > 1 /\ Head(line) \in words THEN Tail(line) ELSE line

\* The elements of s that are in S, in their order.
Kept(s, S) ==
  LET kept[i \in 0..Len(s)] ==
        IF i = 0 THEN <<>>
        ELSE IF s[i] \in S THEN Append(kept[i - 1], s[i]) ELSE kept[i - 1]
  IN kept[Len(s)]

\* The status line without protocol and code, and trimmed.
CleanReasonPhrase(line) ==
  Kept(Strip(Strip(line, Protocols), CodeDigits), STRING \ {""})

Row(result, word) ==
  [word |-> word, code |-> result.code, lat |-> result.lat,
   phrase |-> CleanReasonPhrase(result.message)]

\* Every result of the file with every word of the list, result by result.
FuzzerLogs(results, words) ==
  LET n == Len(words)
  IN [k \in 1..(Len(results) * n) |->
        Row(results[(k - 1) \div n + 1], words[((k - 1) % n) + 1])]

StoreInit ==
  /\ phase = "idle"
  /\ files = <<>>
  /\ table = FALSE /\ rows = <<>>
  /\ stream = <<>> /\ txn = <<>>
  /\ kills = 0

----------------------------------------------------------------------------
\* WriteToJsonAsync, under the first name that does not exist.
WriteToJson ==
  /\ phase = "idle" /\ Len(files) < MaxFiles
  /\ \E run \in Runs : files' = Append(files, Doc(run))
  /\ UNCHANGED <<kills, phase, table, rows, stream, txn>>

\* The process dies in WriteAllText, or that throws: the file exists, and its name
\* is taken.
KilledInWrite ==
  /\ phase = "idle" /\ Len(files) < MaxFiles
  /\ Kill
  /\ files' = Append(files, Torn)
  /\ UNCHANGED <<phase, table, rows, stream, txn>>

\* Mutant: the scan saved last is read.
BeginTransferNewest ==
  /\ phase = "idle" /\ phase' = "transfer"
  /\ Len(rows) <= MaxRows
  /\ table' = TRUE
  /\ \/ files = <<>> /\ stream' = <<>>
     \/ /\ files # <<>> /\ Last(files).whole
        /\ \E words \in Wordlists : stream' = FuzzerLogs(Last(files).results, words)
  /\ UNCHANGED <<kills, files, rows, txn>>

\* The wordlist is read first, or throws before anything has changed.  Then the
\* configured name is read, whatever names later scans were saved under;
\* without that file there is nothing to insert.
BeginTransfer ==
  /\ phase = "idle" /\ phase' = "transfer"
  /\ Len(rows) <= MaxRows
  /\ table' = TRUE
  /\ \/ files = <<>> /\ stream' = <<>>
     \/ /\ files # <<>> /\ files[1].whole
        /\ \E words \in Wordlists : stream' = FuzzerLogs(files[1].results, words)
  /\ UNCHANGED <<kills, files, rows, txn>>

\* JsonException, after InitializeDB: the shell prints it.
TransferUnreadable ==
  /\ phase = "idle"
  /\ files # <<>> /\ ~files[1].whole
  /\ table' = TRUE
  /\ UNCHANGED <<kills, phase, files, rows, stream, txn>>

InsertLog ==
  /\ phase = "transfer" /\ stream # <<>>
  /\ txn' = Append(txn, Head(stream))
  /\ stream' = Tail(stream)
  /\ UNCHANGED <<kills, phase, files, table, rows>>

EndTransfer ==
  /\ phase' = "idle"
  /\ stream' = <<>> /\ txn' = <<>>
  /\ UNCHANGED <<kills, files, table>>

CommitLogs ==
  /\ phase = "transfer" /\ stream = <<>>
  /\ rows' = rows \o txn
  /\ EndTransfer

\* Mutant: the inserts before the failing one are kept.
TransferKeepsRows ==
  /\ phase = "transfer"
  /\ rows' = rows \o txn
  /\ EndTransfer

\* An insert or the commit fails, or the process dies: the transaction is
\* disposed of, or found unfinished by the next connection.
TransferFails ==
  /\ phase = "transfer"
  /\ rows' = rows
  /\ EndTransfer

StoreNext == \/ WriteToJson \/ KilledInWrite \/ BeginTransfer \/ TransferUnreadable
             \/ InsertLog \/ CommitLogs \/ TransferFails
=============================================================================
