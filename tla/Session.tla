------------------------------ MODULE Session ------------------------------
(***************************************************************************)
(* A session of the shell (ReconSageShell.cs, Reco_Shell_Commands_         *)
(* Registry.cs): configurations are loaded, replaced and used by the       *)
(* commands that scan, transfer results to a database, train a forest on   *)
(* its latencies and score them.  Commands run one at a time, each with    *)
(* whatever configurations the session holds by then; a command that       *)
(* throws is reported, changes nothing modelled here, and the shell goes   *)
(* on.  A wordlist has one word (see ScanBatch for longer ones).           *)
(***************************************************************************)
EXTENDS ConfigFile

CONSTANTS
  Garbage,      \* what memory nothing was written to may hold
  DbNames, TreeNames,
  DbName(_),    \* the database of a target: without http(s):// and slashes
  TreeName(_),  \* its forest file: every . / : \ is an underscore
  MaxCommands   \* bound: commands that load or write something

Held == Values \cup {Zero} \cup Garbage

ASSUME SessionAssumption ==
  /\ \A g \in Garbage : g \in ValueType /\ Len(g.num) = 1
  /\ \A v \in Held : DbName(v) \in DbNames /\ TreeName(v) \in TreeNames
  /\ MaxCommands \in Nat

VARIABLES
  saved,   \* the targets scanned into each result file, by file name:
           \* name, name(1), name(2), ...
  db,      \* the databases: the key of each, and its rows
  forest,  \* the forest files
  given,   \* how many commands have loaded or written something
  score    \* what the scores the last command printed were made of

stored == <<saved, db, forest, given>>
vars   == <<configVars, stored, score>>

NoDb    == [key |-> Unset, rows |-> <<>>]
Nothing == <<>>

Init ==
  /\ ConfigInit
  /\ saved = [p \in Held |-> <<>>]
  /\ db = [d \in DbNames |-> NoDb]
  /\ forest = [n \in TreeNames |-> Nothing]
  /\ given = 0 /\ score = Nothing

\* What a command may find in a field of a loaded configuration.
Field(f, k) == IF model[f][k] = Unset THEN Garbage ELSE {model[f][k]}

Idle(needed) == reading = "none" /\ \A f \in needed : isLoaded(f)

\* Only a command that changes nothing else prints scores.
Changes == given < MaxCommands /\ given' = given + 1 /\ score' = Nothing

Int32(n) == ((n + IntMax + 1) % (2 * (IntMax + 1))) - (IntMax + 1)

\* Mutant: nobody looks at the bounds.
JitterUnchecked(delay, factor) == {delay, Int32(delay * factor) - 1}

\* Random.Next(Delay, Delay * factor), by its two extremes; it throws when the
\* upper bound is below the lower one.
Jitter(delay, factor) ==
  LET hi == Int32(delay * factor)
  IN IF hi < delay THEN {} ELSE {delay, IF hi = delay THEN delay ELSE hi - 1}

\* The factor of each scan: Tor, direct, and the two proxies.
Factors == {10, 100, 1000}
----------------------------------------------------------------------------
Max2(n) == IF n > 2 THEN n ELSE 2

\* start_scan_cpp and the three others: the wordlist is there, the delay can be
\* drawn, and the results are saved under the first free name.
StartScan ==
  /\ Idle({"rso", "rfo"})
  /\ \E t \in Field("rfo", "target"), p \in Field("rso", "json_file_path"),
        w \in Field("rso", "wordlist_path"), d \in Field("rso", "delay"),
        factor \in Factors :
       /\ p.form = "json" /\ w.form = "txt" /\ Jitter(d.num[1], factor) # {}
       /\ saved' = [saved EXCEPT ![p] = Append(@, t)]
  /\ Changes
  /\ UNCHANGED <<configVars, db, forest>>

\* The key is the one the file was first written with.
Opens(d, key) == db[d] = NoDb \/ db[d].key = key

Row(t, p, scanned) == [target |-> t, path |-> p, of |-> scanned]

\* Mutant: the newest results are transferred.
TransferNewest ==
  /\ Idle(Formats)
  /\ \E t \in Field("rfo", "target"), p \in Field("rso", "json_file_path"),
        w \in Field("rso", "wordlist_path"), key \in Field("rxo", "db_password") :
       LET d == DbName(t)
       IN /\ w.form = "txt" /\ Opens(d, key)
          /\ \E i \in {Len(saved[p])} \cap DOMAIN saved[p] :
               db' = [db EXCEPT ![d] = [key |-> key,
                                        rows |-> @.rows \o <<Row(t, p, saved[p][i])>>]]
  /\ Changes
  /\ UNCHANGED <<configVars, saved, forest>>

\* Mutant: the table is made anew.
TransferReplaces ==
  /\ Idle(Formats)
  /\ \E t \in Field("rfo", "target"), p \in Field("rso", "json_file_path"),
        w \in Field("rso", "wordlist_path"), key \in Field("rxo", "db_password") :
       LET d == DbName(t)
       IN /\ w.form = "txt" /\ Opens(d, key)
          /\ \E new \in {<<>>} \cup {<<Row(t, p, saved[p][i])>> : i \in {1} \cap DOMAIN saved[p]} :
               db' = [db EXCEPT ![d] = [key |-> key, rows |-> new]]
  /\ Changes
  /\ UNCHANGED <<configVars, saved, forest>>

\* transfer_json_to_db: the configured name is read, into the database of the
\* configured target, whoever was scanned.  The table is made first, and rows are
\* added in one transaction, which may fail.
TransferJsonToDb ==
  /\ Idle(Formats)
  /\ \E t \in Field("rfo", "target"), p \in Field("rso", "json_file_path"),
        w \in Field("rso", "wordlist_path"), key \in Field("rxo", "db_password") :
       LET d == DbName(t)
       IN /\ w.form = "txt" /\ Opens(d, key)
          /\ \E new \in {<<>>} \cup {<<Row(t, p, saved[p][i])>> : i \in {1} \cap DOMAIN saved[p]} :
               db' = [db EXCEPT ![d] = [key |-> key, rows |-> @.rows \o new]]
  /\ Changes
  /\ UNCHANGED <<configVars, saved, forest>>

\* GetAllLatency: there is a table only after a transfer.
Readable(t, key) == db[DbName(t)] # NoDb /\ db[DbName(t)].key = key

\* Mutant: the size is the configured one.
TrainRawSize ==
  /\ Idle({"rfo", "rxo"})
  /\ \E t \in Field("rfo", "target"), key \in Field("rxo", "db_password"),
        trees \in Field("rxo", "num_trees"), size \in Field("rxo", "sub_sample_size") :
       /\ Readable(t, key) /\ db[DbName(t)].rows # <<>> /\ trees.num[1] >= 1
       /\ forest' = [forest EXCEPT ![TreeName(t)] =
                       <<[target |-> t, rows |-> db[DbName(t)].rows,
                          size |-> size.num[1], by |-> from["rxo"]]>>]
  /\ Changes
  /\ UNCHANGED <<configVars, saved, db>>

\* reco_gan_trees_train: without rows, or trees, the old file stays.
TreesTrain ==
  /\ Idle({"rfo", "rxo"})
  /\ \E t \in Field("rfo", "target"), key \in Field("rxo", "db_password"),
        trees \in Field("rxo", "num_trees"), size \in Field("rxo", "sub_sample_size") :
       /\ Readable(t, key) /\ db[DbName(t)].rows # <<>> /\ trees.num[1] >= 1
       /\ forest' = [forest EXCEPT ![TreeName(t)] =
                       <<[target |-> t, rows |-> db[DbName(t)].rows,
                          size |-> Max2(size.num[1]), by |-> from["rxo"]]>>]
  /\ Changes
  /\ UNCHANGED <<configVars, saved, db>>

\* The rows of the database go through the forest file, on the scale of the
\* subsample size of the day.
Predict(t, key, size) ==
  /\ Readable(t, key) /\ forest[TreeName(t)] # Nothing
  /\ score' = <<[target |-> t, rows |-> db[DbName(t)].rows,
                 forest |-> forest[TreeName(t)][1],
                 size |-> size.num[1], by |-> from["rxo"]]>>
  /\ UNCHANGED <<configVars, stored>>

\* reco_gan_trees_predict.
TreesPredict ==
  /\ Idle({"rfo", "rxo"})
  /\ \E t \in Field("rfo", "target"), key \in Field("rxo", "db_password"),
        size \in Field("rxo", "sub_sample_size") : Predict(t, key, size)

\* reco_gan_catch_waf warns when something is not loaded, and goes on: the null
\* model throws.
CatchWaf ==
  /\ Idle(Formats)
  /\ \E t \in Field("rfo", "target"), key \in Field("rxo", "db_password"),
        size \in Field("rxo", "sub_sample_size") : Predict(t, key, size)

\* Every other way a command may go, reported by the shell.
CommandFails ==
  /\ Idle({})
  /\ score' = Nothing
  /\ UNCHANGED <<configVars, stored>>

Commands == CommandFails \/ StartScan \/ TransferJsonToDb \/ TreesTrain \/ TreesPredict \/ CatchWaf

Parsing == ParseStep /\ UNCHANGED <<stored, score>>

Load == /\ \E f \in Formats : BeginLoad(f) \/ LoadUnreadable(f)
        /\ Changes
        /\ UNCHANGED <<saved, db, forest>>

Next == Load \/ Parsing \/ Commands

Spec == Init /\ [][Next]_vars

----------------------------------------------------------------------------
Models(f) ==
  {m \in [Keys[f] -> Values \cup {Zero, Unset}] :
     \A k \in Keys[f] : m[k] \in Values => Accepts(k, m[k])}

Rows      == Seq([target : Held, path : Held, of : Held])
Origin    == [read : BOOLEAN, lines : Seq(Line)]
Forests   == [target : Held, rows : Rows, size : Int, by : Origin]

\* Every variable has its type: no field of a model has a value its validator
\* refuses, and no parse reads past the end of its file.
SessionTypeOK ==
  /\ reading \in Formats \cup {"none"}
  /\ lines \in Seq(Line) /\ at \in 1..(Len(lines) + 1)
  /\ draft \in IF reading = "none" THEN {NoModel} ELSE Models(reading)
  /\ \A f \in Formats : model[f] \in {NoModel} \cup Models(f) /\ from[f] \in Origin
  /\ saved \in [Held -> Seq(Held)]
  /\ db \in [DbNames -> [key : Held \cup {Unset}, rows : Rows]]
  /\ forest \in [TreeNames -> Seq(Forests)] /\ given \in 0..MaxCommands
  /\ score \in Seq([target : Held, rows : Rows, forest : Forests, size : Int, by : Origin])

\* Line i is the last of the first n that gives the key a value.
Last(f, ls, n, i, k) ==
  /\ i \in 1..n /\ Sets(f, ls[i]) /\ ls[i].key = k
  /\ \A j \in (i + 1)..n : ~(Sets(f, ls[j]) /\ ls[j].key = k)

\* What the first n lines make of the structure.
Written(f, ls, n, m) ==
  \A k \in Keys[f] :
    /\ \A i \in 1..n : Last(f, ls, n, i, k) => m[k] = ls[i].val
    /\ (\A i \in 1..n : ~Last(f, ls, n, i, k)) => m[k] = Fresh(f)[k]

AsWritten(f, origin, m) ==
  LET ls == origin.lines
  IN IF origin.read /\ \A i \in 1..Len(ls) : ~Bad(f, ls[i])
     THEN Written(f, ls, Len(ls), m)
     ELSE m = Default(f)

\* A loaded configuration is all of its file or nothing of it: each field has
\* the value of the last line that gives it one and only validated values, and
\* if any line of the file is bad, or the file cannot be read, every field is
\* zero, also those of the configuration loaded before (parser.cpp 94-196,
\* rso_parser.cpp 94-194, rxo_parser.cpp 62-170).
LoadedAsWritten ==
  \A f \in Formats : isLoaded(f) => AsWritten(f, from[f], model[f])

\* The wait a scan draws before a request is never shorter than the configured
\* delay nor longer than the factor allows, also where their product overflows,
\* and a product that does not overflow can be drawn from (HttpScan/scan.cs 67,
\* SocksScan/scan.cs 60, TorScan.cs 74, Warmup.cs 73).
DelayWithinRange ==
  isLoaded("rso") => \A d \in Field("rso", "delay"), factor \in Factors :
    LET delay == d.num[1]
    IN delay >= 0 =>
         /\ Jitter(delay, factor) \subseteq delay .. (delay * factor)
         /\ delay * factor <= IntMax => Jitter(delay, factor) # {}

\* Whatever is configured when, a row of a database is a result of the first
\* scan saved under the name it was read from, though it says it is of another
\* target (FileWires.cs 106-117, CompilerToDB.cs 41-60).
RowsOfFirstScan ==
  \A d \in DbNames : \A i \in DOMAIN db[d].rows :
    LET row == db[d].rows[i]
    IN DbName(row.target) = d /\ saved[row.path] # <<>> /\ row.of = saved[row.path][1]

Prefix(s, t) == Len(s) <= Len(t) /\ \A i \in DOMAIN s : s[i] = t[i]

\* A forest file holds what the first rows of the database of a target of its
\* name gave, and stays readable to that target while rows are added
\* (Training.cpp 156-188, CompilerToDB.cs 84-90).
ForestOfRows ==
  \A n \in TreeNames : forest[n] # Nothing =>
    LET tree == forest[n][1]
    IN /\ TreeName(tree.target) = n
       /\ tree.rows # <<>> /\ Prefix(tree.rows, db[DbName(tree.target)].rows)

\* A prediction uses the forest of another target only where their names become
\* one file name, and another scale than the forest was trained on only where
\* another .rxo was loaded since, or the configured size is below two
\* (Predict.cpp 37-54 and 70-75, Training.cpp 108-135).
ScoreExplained ==
  score # Nothing =>
    LET s == score[1]
    IN /\ TreeName(s.target) = TreeName(s.forest.target)
       /\ s.by = s.forest.by => Max2(s.size) = s.forest.size

----------------------------------------------------------------------------
\* rso_parser.cpp 106: "Zero out target memory space natively".
FieldsStartZero ==
  isLoaded("rso") => \A k \in Keys["rso"] : model["rso"][k] # Unset
=============================================================================
