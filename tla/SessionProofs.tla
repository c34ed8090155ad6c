--------------------------- MODULE SessionProofs ---------------------------
(***************************************************************************)
(* Proofs about Session: its type invariant; that a loaded configuration   *)
(* is all of its file or nothing of it; and where the rows of a database   *)
(* and the forests made of them come from.                                 *)
(***************************************************************************)
EXTENDS Session, SequenceTheorems, TLAPS

USE DEF Formats, Nothing

\* What the type invariant says of the part a parse works on, and of the rest.
ParseTypeOK ==
  /\ reading \in Formats \cup {"none"}
  /\ lines \in Seq(Line) /\ at \in 1..(Len(lines) + 1)
  /\ draft \in IF reading = "none" THEN {NoModel} ELSE Models(reading)
  /\ \A f \in Formats : model[f] \in {NoModel} \cup Models(f) /\ from[f] \in Origin
  /\ model = [f \in Formats |-> model[f]] /\ from = [f \in Formats |-> from[f]]

LEMMA KeysTyped ==
  /\ "none" \notin Formats
  /\ {"target"} \subseteq Keys["rfo"]
  /\ {"json_file_path", "wordlist_path", "delay"} \subseteq Keys["rso"]
  /\ {"db_password", "num_trees", "sub_sample_size"} \subseteq Keys["rxo"]
BY DEF Keys

\* A structure starts with a type and a line that sets a field keeps it.
LEMMA StructuresTyped ==
  ASSUME NEW f \in Formats
  PROVE  Fresh(f) \in Models(f) /\ Default(f) \in Models(f)
BY ConfigAssumption DEF Fresh, Default, Models

LEMMA SetTyped ==
  ASSUME NEW f \in Formats, NEW m \in Models(f), NEW line \in Line, Sets(f, line)
  PROVE  [m EXCEPT ![line.key] = line.val] \in Models(f)
<1>1. line.key \in Keys[f] /\ line.val \in Values /\ Accepts(line.key, line.val)
  BY DEF Sets, Bad, Line
<1>2. m \in [Keys[f] -> Values \cup {Zero, Unset}]
  BY DEF Models
<1>. DEFINE n == [m EXCEPT ![line.key] = line.val]
<1>3. n \in [Keys[f] -> Values \cup {Zero, Unset}]
  BY <1>1, <1>2
<1>4. ASSUME NEW k \in Keys[f], n[k] \in Values PROVE Accepts(k, n[k])
  <2>1. CASE k = line.key
    BY <2>1, <1>1, <1>2
  <2>2. CASE k # line.key
    BY <2>2, <1>2, <1>4 DEF Models
  <2>. QED BY <2>1, <2>2
<1>. QED BY <1>3, <1>4 DEF Models

LEMMA ParseTypeInit == ConfigInit => ParseTypeOK
BY DEF ConfigInit, ParseTypeOK, Origin, NoFile

LEMMA ParseTypeStep ==
  ASSUME ParseTypeOK, ParseStep
  PROVE  ParseTypeOK'
<1>1. CASE SkipLine
  BY <1>1 DEF SkipLine, ParseTypeOK
<1>2. CASE SetField
  <2>1. reading \in Formats /\ Current \in Line
    BY <1>2 DEF SetField, ParseTypeOK, Current
  <2>2. draft' \in Models(reading)
    BY <1>2, <2>1, SetTyped DEF SetField, ParseTypeOK
  <2>3. at' \in 1..(Len(lines') + 1)
    BY <1>2 DEF SetField, ParseTypeOK
  <2>4. reading' = reading /\ lines' = lines /\ model' = model /\ from' = from
    BY <1>2 DEF SetField
  <2>5. reading # "none"
    BY <2>1
  <2>6. draft' \in IF reading' = "none" THEN {NoModel} ELSE Models(reading')
    BY <2>2, <2>4, <2>5
  <2>. QED BY <2>3, <2>4, <2>6 DEF ParseTypeOK
<1>3. ASSUME NEW m, reading \in Formats, m \in Models(reading), Loads(m)
      PROVE  ParseTypeOK'
  <2>1. [read |-> TRUE, lines |-> lines] \in Origin
    BY DEF ParseTypeOK, Origin
  <2>2. /\ reading' = "none" /\ lines' = <<>> /\ at' = 1 /\ draft' = NoModel
        /\ model' = [model EXCEPT ![reading] = m]
        /\ from' = [from EXCEPT ![reading] = [read |-> TRUE, lines |-> lines]]
    BY <1>3 DEF Loads
  <2>3. \A g \in Formats : model'[g] \in {NoModel} \cup Models(g) /\ from'[g] \in Origin
    BY <1>3, <2>1, <2>2 DEF ParseTypeOK
  <2>4. model' = [g \in Formats |-> model'[g]] /\ from' = [g \in Formats |-> from'[g]]
    BY <2>2 DEF ParseTypeOK
  <2>5. lines' \in Seq(Line) /\ at' \in 1..(Len(lines') + 1)
    BY <2>2
  <2>. QED BY <2>2, <2>3, <2>4, <2>5 DEF ParseTypeOK
<1>4. CASE RejectLine
  BY <1>4, <1>3, StructuresTyped DEF RejectLine, ParseTypeOK
<1>5. CASE EndOfFile
  BY <1>5, <1>3 DEF EndOfFile, ParseTypeOK
<1>. QED BY <1>1, <1>2, <1>4, <1>5 DEF ParseStep

LEMMA ParseTypeLoad ==
  ASSUME ParseTypeOK, NEW f \in Formats, BeginLoad(f) \/ LoadUnreadable(f)
  PROVE  ParseTypeOK'
<1>1. CASE BeginLoad(f)
  BY <1>1, StructuresTyped, ConfigAssumption, KeysTyped DEF BeginLoad, ParseTypeOK
<1>2. CASE LoadUnreadable(f)
  <2>1. NoFile \in Origin /\ Default(f) \in Models(f)
    BY StructuresTyped DEF Origin, NoFile
  <2>2. /\ reading' = reading /\ lines' = lines /\ at' = at /\ draft' = draft
        /\ model' = [model EXCEPT ![f] = Default(f)] /\ from' = [from EXCEPT ![f] = NoFile]
    BY <1>2 DEF LoadUnreadable
  <2>3. \A g \in Formats : model'[g] \in {NoModel} \cup Models(g) /\ from'[g] \in Origin
    BY <2>1, <2>2 DEF ParseTypeOK
  <2>4. model' = [g \in Formats |-> model'[g]] /\ from' = [g \in Formats |-> from'[g]]
    BY <2>2 DEF ParseTypeOK
  <2>. QED BY <2>2, <2>3, <2>4 DEF ParseTypeOK
<1>. QED BY <1>1, <1>2

----------------------------------------------------------------------------
\* LoadedAsWritten is about whole files; a parse keeps it for the lines read.
DraftAsWritten ==
  reading # "none" =>
    /\ Written(reading, lines, at - 1, draft)
    /\ \A i \in 1..(at - 1) : ~Bad(reading, lines[i])

LEMMA WrittenNothing ==
  ASSUME NEW f, NEW ls
  PROVE  Written(f, ls, 0, Fresh(f))
BY DEF Written, Last

LEMMA WrittenSkip ==
  ASSUME NEW f, NEW ls, NEW n \in Nat, NEW m,
         Written(f, ls, n, m), ~Sets(f, ls[n + 1])
  PROVE  Written(f, ls, n + 1, m)
<1>1. ASSUME NEW i, NEW k PROVE Last(f, ls, n + 1, i, k) <=> Last(f, ls, n, i, k)
  BY DEF Last
<1>2. \A i \in 1..(n + 1) : \A k : Last(f, ls, n + 1, i, k) => i \in 1..n
  BY DEF Last
<1>. QED BY <1>1, <1>2 DEF Written

LEMMA WrittenSet ==
  ASSUME NEW f \in Formats, NEW ls, NEW n \in Nat, NEW m,
         m = [k \in Keys[f] |-> m[k]],
         Written(f, ls, n, m), Sets(f, ls[n + 1])
  PROVE  Written(f, ls, n + 1, [m EXCEPT ![ls[n + 1].key] = ls[n + 1].val])
<1>. DEFINE key == ls[n + 1].key
            w == [m EXCEPT ![key] = ls[n + 1].val]
<1>1. key \in Keys[f]
  BY DEF Sets
<1>2. ASSUME NEW i \in 1..(n + 1) PROVE Last(f, ls, n + 1, i, key) => i = n + 1
  BY DEF Last
<1>3. Last(f, ls, n + 1, n + 1, key)
  BY DEF Last
<1>4. w[key] = ls[n + 1].val
  BY <1>1
<1>5. ASSUME NEW k \in Keys[f], k # key
      PROVE  /\ w[k] = m[k]
             /\ \A i : Last(f, ls, n + 1, i, k) <=> Last(f, ls, n, i, k)
  BY <1>1, <1>5 DEF Last
<1>6. ASSUME NEW k \in Keys[f]
      PROVE  /\ \A i \in 1..(n + 1) : Last(f, ls, n + 1, i, k) => w[k] = ls[i].val
             /\ (\A i \in 1..(n + 1) : ~Last(f, ls, n + 1, i, k)) => w[k] = Fresh(f)[k]
  <2>1. CASE k = key
    BY <2>1, <1>2, <1>3, <1>4
  <2>2. CASE k # key
    <3>1. \A i : Last(f, ls, n, i, k) => i \in 1..n
      BY DEF Last
    <3>2. /\ \A i \in 1..n : Last(f, ls, n, i, k) => m[k] = ls[i].val
          /\ (\A i \in 1..n : ~Last(f, ls, n, i, k)) => m[k] = Fresh(f)[k]
      BY DEF Written
    <3>. QED BY <2>2, <1>5, <3>1, <3>2
  <2>. QED BY <2>1, <2>2
<1>. QED BY <1>6 DEF Written

LEMMA ParseWritten ==
  ASSUME ParseTypeOK, LoadedAsWritten, DraftAsWritten, ParseStep
  PROVE  LoadedAsWritten' /\ DraftAsWritten'
<1>1. reading \in Formats /\ reading # "none" /\ at \in Nat \ {0} /\ lines \in Seq(Line)
  BY DEF ParseStep, SkipLine, SetField, RejectLine, EndOfFile, ParseTypeOK
<1>2. Written(reading, lines, at - 1, draft) /\ \A i \in 1..(at - 1) : ~Bad(reading, lines[i])
  BY <1>1 DEF DraftAsWritten
<1>3. CASE SkipLine
  <2>1. /\ reading' = reading /\ lines' = lines /\ draft' = draft /\ at' - 1 = (at - 1) + 1
        /\ ~Sets(reading, lines[(at - 1) + 1]) /\ ~Bad(reading, lines[at])
    BY <1>1, <1>3 DEF SkipLine, Current
  <2>2. Written(reading, lines, (at - 1) + 1, draft)
    BY <1>1, <1>2, <2>1, WrittenSkip
  <2>3. LoadedAsWritten'
    BY <1>3 DEF SkipLine, LoadedAsWritten, isLoaded
  <2>. QED BY <1>1, <1>2, <2>1, <2>2, <2>3 DEF DraftAsWritten
<1>4. CASE SetField
  <2>1. /\ reading' = reading /\ lines' = lines /\ at' - 1 = (at - 1) + 1
        /\ Sets(reading, lines[(at - 1) + 1]) /\ ~Bad(reading, lines[at])
        /\ draft' = [draft EXCEPT ![lines[(at - 1) + 1].key] = lines[(at - 1) + 1].val]
    BY <1>1, <1>4 DEF SetField, Current, Sets
  <2>2. draft = [k \in Keys[reading] |-> draft[k]]
    BY <1>1 DEF ParseTypeOK, Models
  <2>3. Written(reading, lines, (at - 1) + 1, draft')
    BY <1>1, <1>2, <2>1, <2>2, WrittenSet
  <2>4. LoadedAsWritten'
    BY <1>4 DEF SetField, LoadedAsWritten, isLoaded
  <2>. QED BY <1>1, <1>2, <2>1, <2>3, <2>4 DEF DraftAsWritten
<1>5. ASSUME NEW m, Loads(m),
             IF \A i \in 1..Len(lines) : ~Bad(reading, lines[i])
             THEN Written(reading, lines, Len(lines), m) ELSE m = Default(reading)
      PROVE  LoadedAsWritten' /\ DraftAsWritten'
  <2>1. /\ reading' = "none"
        /\ model' = [model EXCEPT ![reading] = m]
        /\ from' = [from EXCEPT ![reading] = [read |-> TRUE, lines |-> lines]]
    BY <1>5 DEF Loads
  <2>2. ASSUME NEW f \in Formats, model'[f] # NoModel
        PROVE  AsWritten(f, from'[f], model'[f])
    <3>1. CASE f = reading
      <4>1. model'[f] = m /\ from'[f].read /\ from'[f].lines = lines
        BY <2>1, <3>1, <1>1 DEF ParseTypeOK
      <4>. QED BY <3>1, <4>1, <1>5 DEF AsWritten
    <3>2. CASE f # reading
      <4>1. model'[f] = model[f] /\ from'[f] = from[f]
        BY <2>1, <3>2 DEF ParseTypeOK
      <4>. QED BY <2>2, <4>1 DEF LoadedAsWritten, isLoaded
    <3>. QED BY <3>1, <3>2
  <2>. QED BY <2>1, <2>2 DEF LoadedAsWritten, DraftAsWritten, isLoaded
<1>6. CASE RejectLine
  BY <1>1, <1>5, <1>6 DEF RejectLine, Current
<1>7. CASE EndOfFile
  <2>1. at - 1 = Len(lines)
    BY <1>1, <1>7 DEF EndOfFile, ParseTypeOK
  <2>. QED BY <1>2, <1>5, <1>7, <2>1 DEF EndOfFile
<1>. QED BY <1>3, <1>4, <1>6, <1>7 DEF ParseStep

LEMMA LoadWritten ==
  ASSUME ParseTypeOK, LoadedAsWritten, DraftAsWritten,
         NEW g \in Formats, BeginLoad(g) \/ LoadUnreadable(g)
  PROVE  LoadedAsWritten' /\ DraftAsWritten'
<1>1. CASE BeginLoad(g)
  <2>1. LoadedAsWritten'
    BY <1>1 DEF BeginLoad, LoadedAsWritten, isLoaded
  <2>2. reading' = g /\ at' = 1 /\ draft' = Fresh(g)
    BY <1>1 DEF BeginLoad
  <2>. QED BY <2>1, <2>2, WrittenNothing DEF DraftAsWritten
<1>2. CASE LoadUnreadable(g)
  <2>1. /\ reading' = reading /\ lines' = lines /\ at' = at /\ draft' = draft
        /\ model' = [model EXCEPT ![g] = Default(g)] /\ from' = [from EXCEPT ![g] = NoFile]
    BY <1>2 DEF LoadUnreadable
  <2>2. \A f \in Formats : \/ f = g /\ model'[f] = Default(f) /\ ~from'[f].read
                           \/ model'[f] = model[f] /\ from'[f] = from[f]
    BY <2>1 DEF ParseTypeOK, NoFile
  <2>3. LoadedAsWritten'
    BY <2>2 DEF LoadedAsWritten, AsWritten, isLoaded
  <2>. QED BY <2>1, <2>3 DEF DraftAsWritten
<1>. QED BY <1>1, <1>2

----------------------------------------------------------------------------
\* The rest of the type invariant.
StoredTypeOK ==
  /\ saved \in [Held -> Seq(Held)]
  /\ db \in [DbNames -> [key : Held \cup {Unset}, rows : Rows]]
  /\ forest \in [TreeNames -> Seq(Forests)] /\ given \in 0..MaxCommands
  /\ score \in Seq([target : Held, rows : Rows, forest : Forests, size : Int, by : Origin])

\* What a command finds in a field.
LEMMA FieldHeld ==
  ASSUME ParseTypeOK, NEW f \in Formats, isLoaded(f), NEW k \in Keys[f]
  PROVE  Field(f, k) \subseteq Held
BY DEF ParseTypeOK, isLoaded, Field, Models, Held

\* A number is read as one, also where nothing was written.
LEMMA NumberRead ==
  ASSUME ParseTypeOK, NEW f \in Formats, isLoaded(f),
         NEW k \in Keys[f] \cap {"sub_sample_size", "delay"}, NEW v \in Field(f, k)
  PROVE  v.num[1] \in Int
<1>1. model[f] \in Models(f)
  BY DEF ParseTypeOK, isLoaded
<1>2. model[f][k] \in Values \cup {Zero, Unset}
  BY <1>1 DEF Models
<1>3. CASE model[f][k] = Unset
  BY <1>3, SessionAssumption DEF Field, ValueType
<1>4. CASE model[f][k] = Zero /\ Zero # Unset
  BY <1>4 DEF Field, Zero
<1>5. CASE model[f][k] \in Values
  <2>1. v = model[f][k] /\ v \in ValueType
    BY <1>5, ConfigAssumption DEF Field
  <2>2. Accepts(k, v)
    BY <1>1, <1>5, <2>1 DEF Models
  <2>3. CASE k = "delay"
    BY <2>1, <2>2, <2>3 DEF Accepts, Within, ValueType
  <2>4. CASE k = "sub_sample_size"
    BY <2>1, <2>2, <2>4 DEF Accepts, Within, ValueType
  <2>. QED BY <2>3, <2>4
<1>. QED BY <1>2, <1>3, <1>4, <1>5 DEF Zero, Unset

LEMMA ScanStep ==
  ASSUME ParseTypeOK, StoredTypeOK, RowsOfFirstScan, StartScan
  PROVE  StoredTypeOK' /\ RowsOfFirstScan'
<1>1. PICK t \in Field("rfo", "target"), p \in Field("rso", "json_file_path") :
        saved' = [saved EXCEPT ![p] = Append(@, t)]
  BY DEF StartScan
<1>2. t \in Held /\ p \in Held
  BY <1>1, FieldHeld, KeysTyped DEF StartScan, Idle
<1>3. UNCHANGED <<db, forest>> /\ score' = <<>> /\ given' \in 0..MaxCommands
  BY SessionAssumption DEF StartScan, Changes, StoredTypeOK
<1>4. saved' \in [Held -> Seq(Held)]
  BY <1>1, <1>2 DEF StoredTypeOK
<1>5. ASSUME NEW q \in Held, saved[q] # <<>>
      PROVE  saved'[q] # <<>> /\ saved'[q][1] = saved[q][1]
  <2>1. saved[q] \in Seq(Held) /\ saved'[q] = IF q = p THEN Append(saved[q], t) ELSE saved[q]
    BY <1>1, <1>2 DEF StoredTypeOK
  <2>2. /\ Append(saved[q], t) # <<>>
        /\ Append(saved[q], t)[1] = saved[q][1]
    BY <1>2, <1>5, <2>1, AppendProperties
  <2>3. CASE q = p
    BY <2>1, <2>2, <2>3
  <2>4. CASE q # p
    BY <2>1, <2>4, <1>5
  <2>. QED BY <2>3, <2>4
<1>6. ASSUME NEW d \in DbNames, NEW i \in DOMAIN db[d].rows
      PROVE  db[d].rows[i].path \in Held
  <2>. DEFINE S == [target : Held, path : Held, of : Held]
              r == db[d].rows
  <2>1. r \in Seq(S)
    BY DEF StoredTypeOK, Rows
  <2>2. i \in 1..Len(r)
    BY <1>6, <2>1
  <2>3. r[i] \in S
    BY <2>1, <2>2, ElementOfSeq
  <2>. QED BY <2>3
<1>7. RowsOfFirstScan'
  BY <1>3, <1>5, <1>6 DEF RowsOfFirstScan
<1>. QED BY <1>3, <1>4, <1>7 DEF StoredTypeOK

LEMMA TransferStep ==
  ASSUME ParseTypeOK, StoredTypeOK, RowsOfFirstScan, ForestOfRows, TransferJsonToDb
  PROVE  StoredTypeOK' /\ RowsOfFirstScan' /\ ForestOfRows'
<1>1. PICK t \in Field("rfo", "target"), p \in Field("rso", "json_file_path"),
           key \in Field("rxo", "db_password") :
        \E new \in {<<>>} \cup {<<Row(t, p, saved[p][i])>> : i \in {1} \cap DOMAIN saved[p]} :
          db' = [db EXCEPT ![DbName(t)] = [key |-> key, rows |-> @.rows \o new]]
  BY DEF TransferJsonToDb
<1>. DEFINE d == DbName(t)
<1>2. t \in Held /\ p \in Held /\ key \in Held /\ d \in DbNames
  BY <1>1, FieldHeld, KeysTyped, SessionAssumption DEF TransferJsonToDb, Idle
<1>3. PICK new \in {<<>>} \cup {<<Row(t, p, saved[p][i])>> : i \in {1} \cap DOMAIN saved[p]} :
        db' = [db EXCEPT ![d] = [key |-> key, rows |-> db[d].rows \o new]]
  BY <1>1
<1>4. saved' = saved /\ forest' = forest /\ score' = <<>> /\ given' \in 0..MaxCommands
  BY SessionAssumption DEF TransferJsonToDb, Changes, StoredTypeOK
<1>5. saved[p] \in Seq(Held)
  BY <1>2 DEF StoredTypeOK
<1>6. /\ new \in Rows
      /\ \A i \in DOMAIN new : DbName(new[i].target) = d /\ saved[new[i].path] # <<>>
                               /\ new[i].of = saved[new[i].path][1]
  <2>1. CASE new = <<>>
    BY <2>1 DEF Rows
  <2>2. CASE new = <<Row(t, p, saved[p][1])>> /\ 1 \in DOMAIN saved[p]
    <3>1. saved[p][1] \in Held /\ saved[p] # <<>>
      BY <2>2, <1>5
    <3>. QED BY <2>2, <3>1, <1>2 DEF Rows, Row
  <2>. QED BY <2>1, <2>2
<1>. DEFINE old == db[d].rows
<1>7. old \in Rows
  BY <1>2 DEF StoredTypeOK
<1>8. /\ old \o new \in Rows /\ Len(old \o new) = Len(old) + Len(new)
      /\ \A i \in 1..(Len(old) + Len(new)) :
           (old \o new)[i] = IF i <= Len(old) THEN old[i] ELSE new[i - Len(old)]
  BY <1>6, <1>7, ConcatProperties DEF Rows
<1>9. /\ db' \in [DbNames -> [key : Held \cup {Unset}, rows : Rows]]
      /\ db'[d].rows = old \o new
      /\ \A e \in DbNames : e # d => db'[e] = db[e]
  BY <1>2, <1>3, <1>8 DEF StoredTypeOK
<1>10. RowsOfFirstScan'
  <2>1. ASSUME NEW e \in DbNames, NEW i \in DOMAIN db'[e].rows
        PROVE  LET row == db'[e].rows[i]
               IN /\ DbName(row.target) = e /\ saved'[row.path] # <<>>
                  /\ row.of = saved'[row.path][1]
    <3>1. CASE e # d
      BY <2>1, <3>1, <1>4, <1>9 DEF RowsOfFirstScan
    <3>2. CASE e = d /\ i <= Len(old)
      <4>1. i \in DOMAIN old /\ db'[e].rows[i] = old[i]
        BY <2>1, <3>2, <1>6, <1>7, <1>8, <1>9 DEF Rows
      <4>. QED BY <3>2, <4>1, <1>2, <1>4 DEF RowsOfFirstScan
    <3>3. CASE e = d /\ ~(i <= Len(old))
      <4>1. i - Len(old) \in DOMAIN new /\ db'[e].rows[i] = new[i - Len(old)]
        BY <2>1, <3>3, <1>6, <1>7, <1>8, <1>9 DEF Rows
      <4>. QED BY <3>3, <4>1, <1>4, <1>6
    <3>. QED BY <3>1, <3>2, <3>3
  <2>. QED BY <2>1 DEF RowsOfFirstScan
<1>11. ForestOfRows'
  <2>1. ASSUME NEW n \in TreeNames, forest[n] # <<>>
        PROVE  LET tree == forest[n][1]
               IN /\ TreeName(tree.target) = n /\ tree.rows # <<>>
                  /\ Prefix(tree.rows, db'[DbName(tree.target)].rows)
    <3>. DEFINE tree == forest[n][1]
                e == DbName(tree.target)
    <3>1. tree \in Forests
      BY <2>1 DEF StoredTypeOK
    <3>2. tree.rows \in Rows /\ e \in DbNames
      BY <3>1, SessionAssumption DEF Forests
    <3>3. TreeName(tree.target) = n /\ tree.rows # <<>> /\ Prefix(tree.rows, db[e].rows)
      BY <2>1 DEF ForestOfRows
    <3>4. CASE e # d
      BY <3>2, <3>3, <3>4, <1>9
    <3>5. CASE e = d
      <4>. DEFINE r == tree.rows
      <4>1. /\ Len(r) \in Nat /\ DOMAIN r = 1..Len(r) /\ Len(old) \in Nat /\ Len(new) \in Nat
            /\ Len(r) <= Len(old) /\ \A i \in DOMAIN r : r[i] = old[i]
        BY <3>2, <3>3, <3>5, <1>6, <1>7 DEF Prefix, Rows
      <4>2. Len(r) <= Len(old \o new) /\ \A i \in DOMAIN r : r[i] = (old \o new)[i]
        BY <4>1, <1>8
      <4>. QED BY <3>3, <3>5, <4>2, <1>9 DEF Prefix
    <3>. QED BY <3>4, <3>5
  <2>. QED BY <2>1, <1>4 DEF ForestOfRows
<1>. QED BY <1>4, <1>9, <1>10, <1>11 DEF StoredTypeOK

LEMMA TrainStep ==
  ASSUME ParseTypeOK, StoredTypeOK, ForestOfRows, TreesTrain
  PROVE  StoredTypeOK' /\ ForestOfRows'
<1>1. PICK t \in Field("rfo", "target"), size \in Field("rxo", "sub_sample_size") :
        /\ db[DbName(t)].rows # <<>>
        /\ forest' = [forest EXCEPT ![TreeName(t)] =
                        <<[target |-> t, rows |-> db[DbName(t)].rows,
                           size |-> Max2(size.num[1]), by |-> from["rxo"]]>>]
  BY DEF TreesTrain
<1>. DEFINE new == [target |-> t, rows |-> db[DbName(t)].rows,
                    size |-> Max2(size.num[1]), by |-> from["rxo"]]
<1>2. t \in Held /\ TreeName(t) \in TreeNames /\ DbName(t) \in DbNames
  BY <1>1, FieldHeld, KeysTyped, SessionAssumption DEF TreesTrain, Idle
<1>3. size.num[1] \in Int
  BY NumberRead, KeysTyped DEF TreesTrain, Idle
<1>4. new \in Forests
  BY <1>2, <1>3 DEF Forests, StoredTypeOK, ParseTypeOK, Max2
<1>5. UNCHANGED <<saved, db>> /\ score' = <<>> /\ given' \in 0..MaxCommands
  BY SessionAssumption DEF TreesTrain, Changes, StoredTypeOK
<1>6. /\ forest' = [forest EXCEPT ![TreeName(t)] = <<new>>]
      /\ forest' \in [TreeNames -> Seq(Forests)]
  BY <1>1, <1>2, <1>4 DEF StoredTypeOK
<1>7. db[DbName(t)].rows \in Rows
  BY <1>2 DEF StoredTypeOK
<1>8. Prefix(new.rows, db[DbName(new.target)].rows)
  BY <1>7 DEF Prefix, Rows
<1>9. ASSUME NEW n \in TreeNames, forest'[n] # <<>>
      PROVE  LET tree == forest'[n][1]
             IN /\ TreeName(tree.target) = n /\ tree.rows # <<>>
                /\ Prefix(tree.rows, db'[DbName(tree.target)].rows)
  <2>1. CASE n = TreeName(t)
    BY <2>1, <1>1, <1>2, <1>5, <1>6, <1>8 DEF StoredTypeOK
  <2>2. CASE n # TreeName(t)
    BY <2>2, <1>5, <1>6, <1>9 DEF StoredTypeOK, ForestOfRows
  <2>. QED BY <2>1, <2>2
<1>. QED BY <1>5, <1>6, <1>9 DEF StoredTypeOK, ForestOfRows

LEMMA PredictStep ==
  ASSUME ParseTypeOK, StoredTypeOK, TreesPredict \/ CatchWaf
  PROVE  StoredTypeOK' /\ UNCHANGED <<configVars, saved, db, forest>>
<1>1. PICK t \in Field("rfo", "target"), key \in Field("rxo", "db_password"),
           size \in Field("rxo", "sub_sample_size") : Predict(t, key, size)
  BY DEF TreesPredict, CatchWaf
<1>2. t \in Held /\ TreeName(t) \in TreeNames /\ DbName(t) \in DbNames /\ size.num[1] \in Int
  BY <1>1, FieldHeld, NumberRead, KeysTyped, SessionAssumption
     DEF TreesPredict, CatchWaf, Idle
<1>3. forest[TreeName(t)][1] \in Forests
  BY <1>1, <1>2 DEF Predict, StoredTypeOK
<1>4. score' \in Seq([target : Held, rows : Rows, forest : Forests, size : Int, by : Origin])
  BY <1>1, <1>2, <1>3 DEF Predict, StoredTypeOK, ParseTypeOK
<1>5. UNCHANGED <<configVars, saved, db, forest, given>>
  BY <1>1 DEF Predict, stored
<1>. QED BY <1>4, <1>5 DEF StoredTypeOK

----------------------------------------------------------------------------
\* The file a forest was trained under says its subsample size.
SizesAsWritten ==
  \A n \in TreeNames : forest[n] # Nothing =>
    \E m : /\ AsWritten("rxo", forest[n][1].by, m)
           /\ forest[n][1].size = Max2(m["sub_sample_size"].num[1])

\* One file makes one structure.
LEMMA WrittenOnce ==
  ASSUME NEW f, NEW origin, NEW m, NEW w, NEW k \in Keys[f],
         AsWritten(f, origin, m), AsWritten(f, origin, w)
  PROVE  m[k] = w[k]
BY DEF AsWritten, Written

\* The .rxo structure has initialisers: its fields are as written, or zero.
LEMMA RxoField ==
  ASSUME ParseTypeOK, LoadedAsWritten, isLoaded("rxo")
  PROVE  /\ AsWritten("rxo", from["rxo"], model["rxo"])
         /\ Field("rxo", "sub_sample_size") = {model["rxo"]["sub_sample_size"]}
<1>. DEFINE k == "sub_sample_size"
            ls == from["rxo"].lines
<1>1. AsWritten("rxo", from["rxo"], model["rxo"])
  BY DEF LoadedAsWritten
<1>2. ls \in Seq(Line) /\ k \in Keys["rxo"]
  BY KeysTyped DEF ParseTypeOK, Origin
<1>3. Zero # Unset
  BY DEF Zero, Unset
<1>4. CASE model["rxo"] = Default("rxo")
  BY <1>1, <1>2, <1>3, <1>4 DEF Field, Default
<1>5. CASE Written("rxo", ls, Len(ls), model["rxo"])
  <2>1. CASE \E i \in 1..Len(ls) : Last("rxo", ls, Len(ls), i, k)
    <3>1. PICK i \in 1..Len(ls) : Last("rxo", ls, Len(ls), i, k)
      BY <2>1
    <3>2. model["rxo"][k] = ls[i].val /\ ls[i] \in Line
      BY <3>1, <1>2, <1>5 DEF Written
    <3>3. model["rxo"][k] \in Values
      BY <3>2 DEF Line
    <3>. QED BY <1>1, <3>3, ConfigAssumption DEF Field
  <2>2. CASE \A i \in 1..Len(ls) : ~Last("rxo", ls, Len(ls), i, k)
    <3>1. model["rxo"][k] = Zero
      BY <2>2, <1>2, <1>5 DEF Written, Fresh
    <3>. QED BY <1>1, <1>3, <3>1 DEF Field
  <2>. QED BY <2>1, <2>2
<1>. QED BY <1>1, <1>4, <1>5 DEF AsWritten

LEMMA TrainSize ==
  ASSUME ParseTypeOK, StoredTypeOK, LoadedAsWritten, SizesAsWritten, TreesTrain
  PROVE  SizesAsWritten'
<1>1. PICK t \in Field("rfo", "target"), size \in Field("rxo", "sub_sample_size") :
        forest' = [forest EXCEPT ![TreeName(t)] =
                     <<[target |-> t, rows |-> db[DbName(t)].rows,
                        size |-> Max2(size.num[1]), by |-> from["rxo"]]>>]
  BY DEF TreesTrain
<1>2. AsWritten("rxo", from["rxo"], model["rxo"]) /\ size = model["rxo"]["sub_sample_size"]
  BY <1>1, RxoField DEF TreesTrain, Idle
<1>3. ASSUME NEW n \in TreeNames, forest'[n] # <<>>
      PROVE  \E m : /\ AsWritten("rxo", forest'[n][1].by, m)
                    /\ forest'[n][1].size = Max2(m["sub_sample_size"].num[1])
  <2>1. CASE n = TreeName(t)
    <3>1. /\ forest'[n][1].by = from["rxo"]
          /\ forest'[n][1].size = Max2(model["rxo"]["sub_sample_size"].num[1])
      BY <1>1, <1>2, <2>1 DEF StoredTypeOK
    <3>. QED BY <1>2, <3>1
  <2>2. CASE n # TreeName(t)
    <3>1. forest'[n] = forest[n]
      BY <1>1, <2>2 DEF StoredTypeOK
    <3>. QED BY <1>3, <3>1 DEF SizesAsWritten
  <2>. QED BY <2>1, <2>2
<1>. QED BY <1>3 DEF SizesAsWritten

LEMMA PredictScore ==
  ASSUME ParseTypeOK, StoredTypeOK, LoadedAsWritten, ForestOfRows, SizesAsWritten,
         TreesPredict \/ CatchWaf
  PROVE  ScoreExplained'
<1>1. PICK t \in Field("rfo", "target"), key \in Field("rxo", "db_password"),
           size \in Field("rxo", "sub_sample_size") : Predict(t, key, size)
  BY DEF TreesPredict, CatchWaf
<1>. DEFINE tree == forest[TreeName(t)][1]
<1>2. TreeName(t) \in TreeNames
  BY <1>1, FieldHeld, KeysTyped, SessionAssumption DEF TreesPredict, CatchWaf, Idle
<1>3. forest[TreeName(t)] # <<>>
  BY <1>1 DEF Predict
<1>4. AsWritten("rxo", from["rxo"], model["rxo"]) /\ size = model["rxo"]["sub_sample_size"]
  BY <1>1, RxoField DEF TreesPredict, CatchWaf, Idle
<1>5. TreeName(tree.target) = TreeName(t)
  BY <1>2, <1>3 DEF ForestOfRows
<1>6. from["rxo"] = tree.by => Max2(size.num[1]) = tree.size
  <2>1. PICK m : AsWritten("rxo", tree.by, m) /\ tree.size = Max2(m["sub_sample_size"].num[1])
    BY <1>2, <1>3 DEF SizesAsWritten
  <2>2. from["rxo"] = tree.by => m["sub_sample_size"] = model["rxo"]["sub_sample_size"]
    BY <2>1, <1>4, WrittenOnce, KeysTyped
  <2>. QED BY <2>1, <2>2, <1>4
<1>7. /\ score'[1].target = t /\ score'[1].forest = tree
      /\ score'[1].size = size.num[1] /\ score'[1].by = from["rxo"]
  BY <1>1 DEF Predict
<1>. QED BY <1>5, <1>6, <1>7 DEF ScoreExplained

----------------------------------------------------------------------------
\* The inductive invariant.
IInv == /\ ParseTypeOK /\ StoredTypeOK
        /\ DraftAsWritten /\ LoadedAsWritten
        /\ RowsOfFirstScan /\ ForestOfRows /\ SizesAsWritten /\ ScoreExplained

LEMMA IInvInit == Init => IInv
<1>. SUFFICES ASSUME Init PROVE IInv
  OBVIOUS
<1>1. ParseTypeOK
  BY ParseTypeInit DEF Init
<1>2. StoredTypeOK
  BY SessionAssumption DEF Init, StoredTypeOK, NoDb, Rows
<1>3. DraftAsWritten /\ LoadedAsWritten
  BY DEF Init, ConfigInit, DraftAsWritten, LoadedAsWritten, isLoaded
<1>4. RowsOfFirstScan /\ ForestOfRows /\ SizesAsWritten /\ ScoreExplained
  BY DEF Init, NoDb, RowsOfFirstScan, ForestOfRows, SizesAsWritten, ScoreExplained
<1>. QED BY <1>1, <1>2, <1>3, <1>4 DEF IInv

\* The invariants of the stored state depend on nothing a load changes.
LEMMA StoredSame ==
  ASSUME IInv, UNCHANGED <<saved, db, forest>>
  PROVE  RowsOfFirstScan' /\ ForestOfRows' /\ SizesAsWritten'
BY DEF IInv, RowsOfFirstScan, ForestOfRows, SizesAsWritten

LEMMA ConfigSame ==
  ASSUME IInv, UNCHANGED configVars
  PROVE  ParseTypeOK' /\ DraftAsWritten' /\ LoadedAsWritten'
BY DEF IInv, configVars, ParseTypeOK, DraftAsWritten, LoadedAsWritten, isLoaded

LEMMA IInvStep ==
  ASSUME IInv, [Next]_vars
  PROVE  IInv'
<1>0. /\ ParseTypeOK /\ StoredTypeOK /\ DraftAsWritten /\ LoadedAsWritten
      /\ RowsOfFirstScan /\ ForestOfRows /\ SizesAsWritten /\ ScoreExplained
  BY DEF IInv
<1>1. CASE Load
  <2>1. PICK f \in Formats : BeginLoad(f) \/ LoadUnreadable(f)
    BY <1>1 DEF Load
  <2>2. ParseTypeOK' /\ DraftAsWritten' /\ LoadedAsWritten'
    BY <1>0, <2>1, ParseTypeLoad, LoadWritten
  <2>3. UNCHANGED <<saved, db, forest>> /\ score' = <<>> /\ given' \in 0..MaxCommands
    BY <1>0, <1>1, SessionAssumption DEF Load, Changes, StoredTypeOK
  <2>4. StoredTypeOK' /\ ScoreExplained'
    BY <1>0, <2>3 DEF StoredTypeOK, ScoreExplained
  <2>. QED BY <2>2, <2>3, <2>4, StoredSame DEF IInv
<1>2. CASE Parsing
  <2>1. ParseTypeOK' /\ DraftAsWritten' /\ LoadedAsWritten'
    BY <1>0, <1>2, ParseTypeStep, ParseWritten DEF Parsing
  <2>2. UNCHANGED <<saved, db, forest, given, score>>
    BY <1>2 DEF Parsing, stored
  <2>3. StoredTypeOK' /\ ScoreExplained'
    BY <1>0, <2>2 DEF StoredTypeOK, ScoreExplained
  <2>. QED BY <2>1, <2>2, <2>3, StoredSame DEF IInv
<1>3. CASE CommandFails
  <2>1. UNCHANGED <<configVars, saved, db, forest, given>> /\ score' = <<>>
    BY <1>3 DEF CommandFails, stored
  <2>2. StoredTypeOK' /\ ScoreExplained'
    BY <1>0, <2>1 DEF StoredTypeOK, ScoreExplained
  <2>. QED BY <2>1, <2>2, ConfigSame, StoredSame DEF IInv
<1>4. CASE StartScan
  <2>1. StoredTypeOK' /\ RowsOfFirstScan'
    BY <1>0, <1>4, ScanStep
  <2>2. UNCHANGED <<configVars, db, forest>> /\ score' = <<>>
    BY <1>4 DEF StartScan, Changes
  <2>3. ForestOfRows' /\ SizesAsWritten' /\ ScoreExplained'
    BY <1>0, <2>2 DEF ForestOfRows, SizesAsWritten, ScoreExplained
  <2>. QED BY <2>1, <2>2, <2>3, ConfigSame DEF IInv
<1>5. CASE TransferJsonToDb
  <2>1. StoredTypeOK' /\ RowsOfFirstScan' /\ ForestOfRows'
    BY <1>0, <1>5, TransferStep
  <2>2. UNCHANGED <<configVars, forest>> /\ score' = <<>>
    BY <1>5 DEF TransferJsonToDb, Changes
  <2>3. SizesAsWritten' /\ ScoreExplained'
    BY <1>0, <2>2 DEF SizesAsWritten, ScoreExplained
  <2>. QED BY <2>1, <2>2, <2>3, ConfigSame DEF IInv
<1>6. CASE TreesTrain
  <2>1. StoredTypeOK' /\ ForestOfRows' /\ SizesAsWritten'
    BY <1>0, <1>6, TrainStep, TrainSize
  <2>2. UNCHANGED <<configVars, saved, db>> /\ score' = <<>>
    BY <1>6 DEF TreesTrain, Changes
  <2>3. RowsOfFirstScan' /\ ScoreExplained'
    BY <1>0, <2>2 DEF RowsOfFirstScan, ScoreExplained
  <2>. QED BY <2>1, <2>2, <2>3, ConfigSame DEF IInv
<1>7. CASE TreesPredict \/ CatchWaf
  <2>1. StoredTypeOK' /\ UNCHANGED <<configVars, saved, db, forest>>
    BY <1>0, <1>7, PredictStep
  <2>2. ScoreExplained'
    BY <1>0, <1>7, PredictScore
  <2>. QED BY <2>1, <2>2, ConfigSame, StoredSame DEF IInv
<1>8. CASE UNCHANGED vars
  <2>1. UNCHANGED <<configVars, saved, db, forest, given, score>>
    BY <1>8 DEF vars, stored
  <2>2. StoredTypeOK' /\ ScoreExplained'
    BY <1>0, <2>1 DEF StoredTypeOK, ScoreExplained
  <2>. QED BY <2>1, <2>2, ConfigSame, StoredSame DEF IInv
<1>. QED BY <1>1, <1>2, <1>3, <1>4, <1>5, <1>6, <1>7, <1>8 DEF Next, Commands

\* What Random.Next is given, as a product that may have wrapped around.
LEMMA JitterBounds ==
  ASSUME NEW delay \in Nat, NEW factor \in Factors
  PROVE  /\ Jitter(delay, factor) \subseteq delay .. (delay * factor)
         /\ delay * factor <= IntMax => Jitter(delay, factor) # {}
<1>. DEFINE n == delay * factor
            M == IntMax + 1
<1>1. n \in Nat /\ n >= delay /\ M \in Nat \ {0} /\ 2 * M \in Nat \ {0}
  BY ConfigAssumption DEF Factors
<1>2. \A a \in Nat, b \in Nat \ {0} : a % b \in 0..a /\ (a < b => a % b = a)
  OBVIOUS
<1>. HIDE DEF n
<1>3. Int32(n) \in Int /\ Int32(n) <= n /\ (n <= IntMax => Int32(n) = n)
  <2>1. n + M \in Nat /\ n + IntMax + 1 = n + M
    BY <1>1, ConfigAssumption
  <2>2. (n + M) % (2 * M) \in 0..(n + M) /\ (n <= IntMax => (n + M) % (2 * M) = n + M)
    BY <1>1, <1>2, <2>1, ConfigAssumption
  <2>. QED BY <1>1, <2>1, <2>2, ConfigAssumption DEF Int32
<1>. DEFINE hi == Int32(n)
<1>4. Jitter(delay, factor) =
        IF hi < delay THEN {} ELSE {delay, IF hi = delay THEN delay ELSE hi - 1}
  BY DEF Jitter, n
<1>. HIDE DEF hi
<1>5. Jitter(delay, factor) \subseteq delay .. n
  BY <1>1, <1>3, <1>4 DEF hi
<1>6. n <= IntMax => Jitter(delay, factor) # {}
  BY <1>1, <1>3, <1>4 DEF hi
<1>. QED BY <1>5, <1>6 DEF n

----------------------------------------------------------------------------
\* Every variable keeps its type (parser.cpp, rso_parser.cpp, rxo_parser.cpp).
THEOREM SessionTypeCorrect == Spec => []SessionTypeOK
<1>1. IInv => SessionTypeOK
  BY DEF IInv, ParseTypeOK, StoredTypeOK, SessionTypeOK
<1>. QED BY <1>1, IInvInit, IInvStep, PTL DEF Spec

\* A loaded configuration is all of its file or nothing of it, for every file
\* (parser.cpp 94-196, rso_parser.cpp 94-194, rxo_parser.cpp 62-170).
THEOREM LoadedCorrect == Spec => []LoadedAsWritten
<1>1. IInv => LoadedAsWritten
  BY DEF IInv
<1>. QED BY <1>1, IInvInit, IInvStep, PTL DEF Spec

\* The rows of a database are results of the first scan saved under the name they
\* were read from, whatever was configured since (FileWires.cs 106-117,
\* CompilerToDB.cs 41-60).
THEOREM RowsOfFirstScanCorrect == Spec => []RowsOfFirstScan
<1>1. IInv => RowsOfFirstScan
  BY DEF IInv
<1>. QED BY <1>1, IInvInit, IInvStep, PTL DEF Spec

\* A forest is of the first rows of its name's target, for any naming of databases
\* and forest files (Training.cpp 156-188, CompilerToDB.cs 84-90).
THEOREM ForestOfRowsCorrect == Spec => []ForestOfRows
<1>1. IInv => ForestOfRows
  BY DEF IInv
<1>. QED BY <1>1, IInvInit, IInvStep, PTL DEF Spec

\* A prediction uses the forest and the scale its name and file say (Predict.cpp
\* 37-75, Training.cpp 108-135).
THEOREM ScoreExplainedCorrect == Spec => []ScoreExplained
<1>1. IInv => ScoreExplained
  BY DEF IInv
<1>. QED BY <1>1, IInvInit, IInvStep, PTL DEF Spec

\* No wait is shorter than the delay or longer than the factor allows, for every
\* delay and width of int (HttpScan/scan.cs 67).
THEOREM DelayCorrect == Spec => []DelayWithinRange
<1>1. IInv => DelayWithinRange
  <2>. SUFFICES ASSUME IInv, isLoaded("rso"), NEW d \in Field("rso", "delay"),
                       NEW factor \in Factors, d.num[1] >= 0
                PROVE  /\ Jitter(d.num[1], factor) \subseteq d.num[1] .. (d.num[1] * factor)
                       /\ d.num[1] * factor <= IntMax => Jitter(d.num[1], factor) # {}
    BY DEF DelayWithinRange
  <2>1. d.num[1] \in Nat
    BY NumberRead, KeysTyped DEF IInv
  <2>. QED BY <2>1, JitterBounds
<1>. QED BY <1>1, IInvInit, IInvStep, PTL DEF Spec
=============================================================================
