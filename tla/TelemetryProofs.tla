-------------------------- MODULE TelemetryProofs --------------------------
(***************************************************************************)
(* The telemetry pipeline, for every set of results, runs and wordlists    *)
(* and every chunk size.  First the transfer: the table grows by whole     *)
(* batches of the first scan saved, whatever fails or is killed between.   *)
(* Then what the model is built from, and what a compilation leaves in the *)
(* stash, a training in the files, and a prediction finds in them.         *)
(***************************************************************************)
EXTENDS Telemetry, SequenceTheorems, InductionLemmas

IsSeq(s) == s \in Seq({s[i] : i \in DOMAIN s})

\* A transfer in progress: some of the batch inserted, the rest still to come.
Splits(batch) ==
  \E S : txn \in Seq(S) /\ stream \in Seq(S) /\ txn \o stream = batch

\* Between transfers nothing is uncommitted; in one, what is inserted and what
\* is to come make a batch of the first file, or nothing without a file.
TransferInv ==
  IF phase = "transfer"
  THEN \/ txn = <<>> /\ stream = <<>>
       \/ /\ files # <<>> /\ files[1].whole
          /\ \E words \in Wordlists : Splits(FuzzerLogs(files[1].results, words))
  ELSE stream = <<>> /\ txn = <<>>

\* Files are only added, and there are no rows before the first one.
LogInv ==
  /\ files \in Seq({Doc(run) : run \in Runs} \cup {Torn})
  /\ IsSeq(rows)
  /\ files = <<>> => rows = <<>>
  /\ TransferInv

\* A sequence is one over its own elements.
LEMMA SeqOfItsOwn ==
  ASSUME NEW S, NEW s \in Seq(S)
  PROVE  IsSeq(s)
  <1>1. Len(s) \in Nat /\ DOMAIN s = 1..Len(s) /\ s \in [1..Len(s) -> S]
    BY LenProperties
  <1>2. s \in [1..Len(s) -> {s[i] : i \in DOMAIN s}]
    BY <1>1
  <1>3. QED
    BY <1>1, <1>2, SeqDef DEF IsSeq

\* What a wordlist makes of the results of a file is a sequence.
LEMMA BatchIsSeq ==
  ASSUME NEW results, Len(results) \in Nat, NEW words \in Wordlists
  PROVE  IsSeq(FuzzerLogs(results, words))
  <1> DEFINE n == Len(results) * Len(words)
             b == FuzzerLogs(results, words)
  <1>1. Len(words) \in Nat
    BY StoreAssumption, LenProperties
  <1>2. n \in Nat
    BY <1>1
  <1>3. b = [k \in 1..n |-> b[k]] /\ DOMAIN b = 1..n
    BY DEF FuzzerLogs
  <1> HIDE DEF n, b
  <1>4. b \in [1..n -> {b[i] : i \in DOMAIN b}]
    BY <1>3
  <1>5. b \in Seq({b[i] : i \in DOMAIN b})
    BY <1>2, <1>4, SeqDef
  <1>6. QED
    BY <1>5 DEF IsSeq, b

\* Committing rows leaves a sequence.
LEMMA ConcatIsSeq ==
  ASSUME NEW s, NEW t, IsSeq(s), IsSeq(t)
  PROVE  IsSeq(s \o t)
  <1> DEFINE S == {s[i] : i \in DOMAIN s} \cup {t[i] : i \in DOMAIN t}
  <1>1. s \in Seq(S) /\ t \in Seq(S)
    BY SeqMonotonic DEF IsSeq
  <1>2. s \o t \in Seq(S)
    BY <1>1, ConcatProperties
  <1>3. QED
    BY <1>2, SeqOfItsOwn

\* The next row moves from the stream into the transaction.
LEMMA InsertSplits ==
  ASSUME NEW S, NEW a \in Seq(S), NEW b \in Seq(S), b # <<>>
  PROVE  /\ Append(a, Head(b)) \in Seq(S) /\ Tail(b) \in Seq(S)
         /\ Append(a, Head(b)) \o Tail(b) = a \o b
  <1>1. Head(b) \in S /\ Tail(b) \in Seq(S) /\ <<Head(b)>> \in Seq(S)
    BY HeadTailProperties
  <1>2. Append(a, Head(b)) = a \o <<Head(b)>> /\ Append(a, Head(b)) \in Seq(S)
    BY <1>1, AppendIsConcat, AppendProperties
  <1>3. <<Head(b)>> \o Tail(b) = b
    BY <1>1
  <1>4. (a \o <<Head(b)>>) \o Tail(b) = a \o (<<Head(b)>> \o Tail(b))
    BY <1>1, ConcatAssociative
  <1>5. QED
    BY <1>1, <1>2, <1>3, <1>4

\* The first file saved, where it is one, holds a run.
LEMMA FirstRun ==
  ASSUME files \in Seq({Doc(run) : run \in Runs} \cup {Torn}), files # <<>>, files[1].whole
  PROVE  files[1].results \in Runs
  <1>1. files[1] \in {Doc(run) : run \in Runs} \cup {Torn}
    BY EmptySeq, ElementOfSeq, LenProperties
  <1>2. PICK run \in Runs : files[1] = Doc(run)
    <2>1. Torn.whole = FALSE
      BY DEF Torn
    <2>2. files[1] # Torn
      BY <2>1
    <2>3. QED
      BY <1>1, <2>2
  <1>3. QED
    BY <1>2 DEF Doc

\* A file's results have a length.
LEMMA FirstResults ==
  ASSUME LogInv, files # <<>>, files[1].whole
  PROVE  files[1].results \in Runs /\ Len(files[1].results) \in Nat
  <1>1. files[1].results \in Runs
    BY FirstRun DEF LogInv
  <1>2. QED
    BY <1>1, StoreAssumption, LenProperties

\* What a step outside a transfer leaves alone.
LEMMA OutsideTransfer ==
  ASSUME LogInv, phase # "transfer", phase' # "transfer",
         UNCHANGED <<files, rows, stream, txn>>
  PROVE  LogInv'
  BY DEF LogInv, TransferInv, IsSeq

\* The steps of compilations, trainings and predictions keep the invariant.
LEMMA LogOtherSteps ==
  ASSUME LogInv, CompileNext \/ GanNext
  PROVE  LogInv' /\ UNCHANGED <<files, rows>>
  <1> USE DEF storeVars
  <1>1. CASE CompileNext
    <2>1. phase # "transfer" /\ phase' # "transfer" /\ UNCHANGED storeVars
      BY <1>1 DEF CompileNext, BeginCompile, ReadRow, SaveChunk,
         EndCompile, CompileFails, KilledInSave, StopCompile, ChunkReady
    <2>2. QED
      BY <2>1, OutsideTransfer
  <1>2. CASE GanNext
    <2>1. phase # "transfer" /\ phase' # "transfer" /\ UNCHANGED storeVars
      BY <1>2 DEF GanNext, BeginTraining, WriteModel, EndTraining,
         KilledInTraining, StopTraining, Predict, EndPrediction
    <2>2. QED
      BY <2>1, OutsideTransfer
  <1>3. QED
    BY <1>1, <1>2

\* Initially the invariant holds.
LEMMA LogInitially ==
  ASSUME Init
  PROVE  LogInv
  BY EmptySeq DEF Init, StoreInit, LogInv, TransferInv, IsSeq

\* A new file is put after those there are.
LEMMA LogNewFile ==
  ASSUME LogInv, NEW doc \in {Doc(run) : run \in Runs} \cup {Torn},
         files' = Append(files, doc), phase = "idle",
         UNCHANGED <<phase, rows, stream, txn>>
  PROVE  LogInv' /\ (files # <<>> => files'[1] = files[1])
                 /\ (files = <<>> => files'[1] = doc) /\ files' # <<>>
  <1> DEFINE D == {Doc(run) : run \in Runs} \cup {Torn}
  <1>1. files \in Seq(D)
    BY DEF LogInv
  <1>2. files' \in Seq(D) /\ files' # <<>> /\ Len(files') = Len(files) + 1
        /\ \A i \in 1..Len(files) : files'[i] = files[i]
        /\ files'[Len(files) + 1] = doc
    BY <1>1, AppendProperties
  <1>3. files # <<>> => Len(files) \in Nat \ {0}
    BY <1>1, EmptySeq
  <1>4. files = <<>> => Len(files) = 0
    BY EmptySeq
  <1>5. LogInv'
    BY <1>2 DEF LogInv, TransferInv, IsSeq
  <1>6. QED
    BY <1>2, <1>3, <1>4, <1>5

\* The step of the log that a committed batch is.
LEMMA CommitIsLoad ==
  ASSUME LogInv, CommitLogs
  PROVE  /\ IsSeq(rows')
         /\ \/ rows' = rows
            \/ /\ files # <<>> /\ files[1].whole
               /\ \E words \in Wordlists : rows' = rows \o FuzzerLogs(files[1].results, words)
  <1>1. rows' = rows \o txn /\ stream = <<>> /\ phase = "transfer"
    BY DEF CommitLogs
  <1>2. CASE txn = <<>>
    <2>1. rows \o <<>> = rows
      BY ConcatEmptySeq DEF LogInv, IsSeq
    <2>2. QED
      BY <1>1, <1>2, <2>1 DEF LogInv
  <1>3. CASE txn # <<>>
    <2>1. files # <<>> /\ files[1].whole
      BY <1>1, <1>3 DEF LogInv, TransferInv
    <2>2. PICK words \in Wordlists : Splits(FuzzerLogs(files[1].results, words))
      BY <1>1, <1>3 DEF LogInv, TransferInv
    <2>3. txn = FuzzerLogs(files[1].results, words)
      BY <1>1, <2>2, ConcatEmptySeq DEF Splits
    <2>4. IsSeq(txn)
      BY <2>1, <2>3, FirstResults, BatchIsSeq
    <2>5. IsSeq(rows \o txn)
      BY <2>4, ConcatIsSeq DEF LogInv
    <2>6. QED
      BY <1>1, <2>1, <2>3, <2>5
  <1>4. QED
    BY <1>2, <1>3

\* A transfer begins with the whole batch still to come.
LEMMA LogBegins ==
  ASSUME LogInv, BeginTransfer
  PROVE  LogInv' /\ UNCHANGED <<files, rows>>
  <1>1. phase' = "transfer" /\ txn' = <<>> /\ UNCHANGED <<files, rows>>
    BY DEF BeginTransfer, LogInv, TransferInv
  <1>2. CASE files = <<>> /\ stream' = <<>>
    BY <1>1, <1>2 DEF LogInv, TransferInv, IsSeq
  <1>3. CASE /\ files # <<>> /\ files[1].whole
             /\ \E words \in Wordlists : stream' = FuzzerLogs(files[1].results, words)
    <2>1. PICK words \in Wordlists : stream' = FuzzerLogs(files[1].results, words)
      BY <1>3
    <2>2. IsSeq(stream')
      BY <1>3, <2>1, FirstResults, BatchIsSeq
    <2>3. PICK S : stream' \in Seq(S)
      BY <2>2 DEF IsSeq
    <2>4. <<>> \in Seq(S) /\ <<>> \o stream' = stream'
      BY <2>3, EmptySeq, ConcatEmptySeq
    <2>5. Splits(FuzzerLogs(files[1].results, words))'
      BY <1>1, <2>1, <2>3, <2>4 DEF Splits
    <2>6. QED
      BY <1>1, <1>3, <2>5 DEF LogInv, TransferInv, IsSeq
  <1>4. QED
    BY <1>2, <1>3 DEF BeginTransfer

\* An insert moves one row of the batch.
LEMMA LogInserts ==
  ASSUME LogInv, InsertLog
  PROVE  LogInv' /\ UNCHANGED <<files, rows>>
  <1>1. /\ phase = "transfer" /\ stream # <<>> /\ txn' = Append(txn, Head(stream))
        /\ stream' = Tail(stream) /\ UNCHANGED <<phase, files, rows>>
    BY DEF InsertLog
  <1>2. files # <<>> /\ files[1].whole
    BY <1>1 DEF LogInv, TransferInv
  <1>3. PICK words \in Wordlists : Splits(FuzzerLogs(files[1].results, words))
    BY <1>1 DEF LogInv, TransferInv
  <1>4. Splits(FuzzerLogs(files[1].results, words))'
    <2> DEFINE b == FuzzerLogs(files[1].results, words)
    <2>1. PICK S : txn \in Seq(S) /\ stream \in Seq(S) /\ txn \o stream = b
      BY <1>3 DEF Splits
    <2>2. txn' \in Seq(S) /\ stream' \in Seq(S) /\ txn' \o stream' = txn \o stream
      <3>1. stream # <<>> /\ txn \in Seq(S) /\ stream \in Seq(S)
        BY <1>1, <2>1
      <3>2. /\ Append(txn, Head(stream)) \in Seq(S) /\ Tail(stream) \in Seq(S)
            /\ Append(txn, Head(stream)) \o Tail(stream) = txn \o stream
        BY ONLY <3>1, InsertSplits
      <3>3. txn' = Append(txn, Head(stream)) /\ stream' = Tail(stream)
        BY <1>1
      <3>4. QED
        BY ONLY <3>2, <3>3
    <2>3. b' = b
      BY <1>1
    <2> HIDE DEF b
    <2>4. Splits(b)'
      BY <2>1, <2>2, <2>3 DEF Splits
    <2>5. QED
      BY <2>4 DEF b
  <1>5. QED
    BY <1>1, <1>2, <1>4 DEF LogInv, TransferInv, IsSeq

\* The steps of the store keep the invariant and are steps of the log.
LEMMA LogStoreSteps ==
  ASSUME LogInv, StoreNext
  PROVE  LogInv' /\ [Log!Next]_(Log!vars)
  <1> USE DEF FirstFile, Log!vars, Log!Next
  <1>1. ASSUME NEW doc \in {Doc(run) : run \in Runs} \cup {Torn},
               files' = Append(files, doc), phase = "idle",
               UNCHANGED <<phase, rows, stream, txn>>
        PROVE  LogInv' /\ [Log!Next]_(Log!vars)
    <2>1. LogInv' /\ files' # <<>> /\ (files # <<>> => FirstFile' = FirstFile)
          /\ (files = <<>> => FirstFile' = doc)
      BY <1>1, LogNewFile
    <2>2. CASE files # <<>>
      BY <1>1, <2>1, <2>2
    <2>3. CASE files = <<>>
      <3>1. FirstFile = Log!Nothing /\ rows = <<>>
        BY <2>3 DEF Torn, Log!Nothing, LogInv
      <3>2. doc = Torn \/ doc \in {[whole |-> TRUE, results |-> r] : r \in Runs}
        BY DEF Doc
      <3>3. QED
        BY <1>1, <2>1, <2>3, <3>1, <3>2 DEF Log!Save, Torn
    <2>4. QED
      BY <2>2, <2>3
  <1>2. CASE WriteToJson
    <2>1. PICK run \in Runs : files' = Append(files, Doc(run))
      BY <1>2 DEF WriteToJson
    <2>2. QED
      BY <1>1, <1>2, <2>1 DEF WriteToJson
  <1>3. CASE KilledInWrite
    BY <1>1, <1>3 DEF KilledInWrite
  <1>4. CASE BeginTransfer
    BY <1>4, LogBegins
  <1>5. CASE TransferUnreadable
    BY <1>5 DEF TransferUnreadable, LogInv, TransferInv, IsSeq
  <1>6. CASE InsertLog
    BY <1>6, LogInserts
  <1>7. CASE CommitLogs
    <2>1. phase' = "idle" /\ stream' = <<>> /\ txn' = <<>> /\ files' = files
      BY <1>7 DEF CommitLogs, EndTransfer
    <2>2. LogInv'
      BY <1>7, <2>1, CommitIsLoad DEF LogInv, TransferInv, IsSeq
    <2>3. [Log!Next]_(Log!vars)
      BY <1>7, <2>1, CommitIsLoad DEF Log!Load
    <2>4. QED
      BY <2>2, <2>3
  <1>8. CASE TransferFails
    BY <1>8 DEF TransferFails, EndTransfer, LogInv, TransferInv, IsSeq
  <1>9. QED
    BY <1>2, <1>3, <1>4, <1>5, <1>6, <1>7, <1>8 DEF StoreNext

\* The database grows by whole batches of the first scan saved, for every set
\* of runs and wordlists: a transfer that fails or is killed leaves nothing.
THEOREM LogPromiseHolds == Spec => KeepsLogPromise
  <1>1. Init => LogInv /\ Log!Init
    BY LogInitially DEF Init, StoreInit, FirstFile, Torn, Log!Init, Log!Nothing
  <1>2. LogInv /\ [Next]_vars => LogInv' /\ [Log!Next]_(Log!vars)
    <2>1. CASE Next
      <3>1. CASE StoreNext
        BY <3>1, LogStoreSteps
      <3>2. CASE CompileNext \/ GanNext
        BY <3>2, LogOtherSteps DEF FirstFile, Log!vars
      <3>3. QED
        BY <2>1, <3>1, <3>2 DEF Next
    <2>2. CASE UNCHANGED vars
      BY <2>2 DEF vars, storeVars, LogInv, TransferInv, IsSeq, Splits, FirstFile, Log!vars
    <2>3. QED
      BY <2>1, <2>2
  <1>3. QED
    BY <1>1, <1>2, PTL DEF Spec, KeepsLogPromise, Log!Spec

----------------------------------------------------------------------------
\* What is kept of a sequence is a sequence of its elements that are in S.
LEMMA KeptIsSeq ==
  ASSUME NEW T, NEW s \in Seq(T), NEW S
  PROVE  Kept(s, S) \in Seq(T \cap S)
  <1> DEFINE n == Len(s)
             U == Seq(T \cap S)
             Step(h) == h = [i \in 0..n |->
                               IF i = 0 THEN <<>>
                               ELSE IF s[i] \in S THEN Append(h[i - 1], s[i]) ELSE h[i - 1]]
             k == CHOOSE h : Step(h)
             g == [i \in 1..n |-> [u \in U |-> IF s[i] \in S THEN Append(u, s[i]) ELSE u]]
  <1>1. n \in Nat /\ <<>> \in U /\ \A i \in 1..n : s[i] \in T
    BY LenProperties, EmptySeq, ElementOfSeq
  <1>2. ASSUME NEW i \in 1..n, NEW u \in U, s[i] \in S
        PROVE  Append(u, s[i]) \in U
    BY <1>1, <1>2, AppendProperties
  <1>3. g \in [1..n -> [U -> U]]
    BY <1>2
  <1> HIDE DEF U, n
  <1>4. PICK f \in [0..n -> U] : Follows(f, n, <<>>, g)
    <2> HIDE DEF g
    <2>1. n \in Nat /\ <<>> \in U /\ g \in [1..n -> [U -> U]]
      BY <1>1, <1>3
    <2> QED BY ONLY <2>1, Recursion
  <1>5. Step(f)
    <2>1. ASSUME NEW i \in 1..n
          PROVE  f[i] = IF s[i] \in S THEN Append(f[i - 1], s[i]) ELSE f[i - 1]
      <3>1. f[i - 1] \in U
        BY <1>1
      <3>2. QED
        BY <1>4, <3>1 DEF Follows
    <2>2. f = [i \in 0..n |-> f[i]]
      OBVIOUS
    <2>3. ASSUME NEW i \in 0..n
          PROVE  f[i] = IF i = 0 THEN <<>>
                        ELSE IF s[i] \in S THEN Append(f[i - 1], s[i]) ELSE f[i - 1]
      <3>1. CASE i = 0
        BY <1>4, <3>1 DEF Follows
      <3>2. CASE i # 0
        <4>1. i \in 1..n
          BY <1>1, <3>2
        <4>2. QED
          BY <2>1, <3>2, <4>1
      <3>3. QED
        BY <3>1, <3>2
    <2>4. QED
      BY <2>2, <2>3
  <1>6. Step(k)
    <2> HIDE DEF Step
    <2> QED BY <1>5
  <1>7. Kept(s, S) = k[n]
    BY DEF Kept, n
  <1> HIDE DEF k
  <1> DEFINE A == {i \in 0..n : k[i] \in U}
  <1>8. 0 \in A
    BY <1>1, <1>6
  <1>9. ASSUME NEW i \in 0..(n - 1), i \in A
        PROVE  i + 1 \in A
    <2>1. i + 1 \in 1..n /\ i + 1 \in 0..n /\ (i + 1) - 1 = i /\ k[i] \in U
      BY <1>1, <1>9
    <2>2. k[i + 1] = IF s[i + 1] \in S THEN Append(k[i], s[i + 1]) ELSE k[i]
      <3>1. i + 1 # 0
        BY <1>1
      <3>2. QED
        BY <1>6, <2>1, <3>1
    <2>3. QED
      BY <1>2, <2>1, <2>2
  <1>10. 0..n \subseteq A
    <2> HIDE DEF A
    <2> QED BY <1>1, <1>8, <1>9, InductionTo
  <1>11. QED
    BY <1>1, <1>7, <1>10 DEF U

\* Sequences that are put one after the other begin with the first of them.
LEMMA FlattenBegins ==
  ASSUME NEW T, NEW n \in Nat \ {0}, NEW p \in [1..n -> Seq(T)]
  PROVE  /\ FlattenSeq(p) \in Seq(T)
         /\ Len(p[1]) <= Len(FlattenSeq(p))
         /\ \A j \in 1..Len(p[1]) : FlattenSeq(p)[j] = p[1][j]
  <1> DEFINE U == Seq(T)
             Step(h) == h = [i \in 1..n |-> IF i = 1 THEN p[i] ELSE h[i - 1] \o p[i]]
             k == CHOOSE h : Step(h)
             g == [i \in 1..(n - 1) |-> [u \in U |-> u \o p[i + 1]]]
             Begins(u) == /\ u \in U /\ Len(p[1]) <= Len(u)
                          /\ \A j \in 1..Len(p[1]) : u[j] = p[1][j]
  <1>1. 1 \in 1..n /\ n - 1 \in Nat /\ \A i \in 1..n : p[i] \in U
    OBVIOUS
  <1>2. ASSUME NEW i \in 1..n, NEW u \in U
        PROVE  u \o p[i] \in U
    BY <1>1, ConcatProperties
  <1>3. g \in [1..(n - 1) -> [U -> U]]
    BY <1>2
  <1>4. ASSUME NEW i \in 1..n, NEW u, Begins(u)
        PROVE  Begins(u \o p[i])
    <2>1. /\ u \o p[i] \in U /\ Len(u \o p[i]) = Len(u) + Len(p[i])
          /\ \A j \in 1..Len(u) : (u \o p[i])[j] = u[j]
      BY <1>1, <1>4, ConcatProperties
    <2>2. Len(u) \in Nat /\ Len(p[i]) \in Nat /\ Len(p[1]) \in Nat
      BY <1>1, <1>4, LenProperties
    <2>3. QED
      BY <1>4, <2>1, <2>2
  <1>5. Begins(p[1])
    BY <1>1, LenProperties
  <1> HIDE DEF U, Begins
  <1>6. PICK f \in [0..(n - 1) -> U] : Follows(f, n - 1, p[1], g)
    <2> HIDE DEF g
    <2>1. n - 1 \in Nat /\ p[1] \in U /\ g \in [1..(n - 1) -> [U -> U]]
      BY <1>1, <1>3
    <2> QED BY ONLY <2>1, Recursion
  <1> DEFINE h == [i \in 1..n |-> f[i - 1]]
  <1>7. Step(h)
    <2>1. ASSUME NEW i \in 1..n, i # 1
          PROVE  h[i] = h[i - 1] \o p[i]
      <3>1. i - 1 \in 1..(n - 1) /\ i - 1 \in 0..(n - 1) /\ (i - 1) - 1 \in 0..(n - 1)
            /\ (i - 1) + 1 = i /\ i - 1 \in 1..n
        BY <2>1
      <3>2. f[(i - 1) - 1] \in U
        BY <3>1
      <3>3. f[i - 1] = f[(i - 1) - 1] \o p[i]
        BY <1>6, <3>1, <3>2 DEF Follows
      <3>4. QED
        BY <3>1, <3>3
    <2>2. h[1] = p[1]
      BY <1>1, <1>6 DEF Follows
    <2>3. QED
      BY <2>1, <2>2
  <1>8. Step(k)
    <2> HIDE DEF Step, h
    <2> QED BY <1>7
  <1>9. FlattenSeq(p) = k[n]
    <2>1. Len(p) = n
      BY SeqDef, LenProperties, IsASeq
    <2>2. QED
      BY <2>1 DEF FlattenSeq
  <1> HIDE DEF k
  <1> DEFINE A == {i \in 0..(n - 1) : Begins(k[i + 1])}
  <1>10. 0 \in A
    BY <1>1, <1>5, <1>8
  <1>11. ASSUME NEW i \in 0..((n - 1) - 1), i \in A
         PROVE  i + 1 \in A
    <2>1. i + 1 \in 1..n /\ i + 2 \in 1..n /\ (i + 1) + 1 = i + 2 /\ (i + 2) - 1 = i + 1
          /\ i + 2 # 1 /\ i + 1 \in 0..(n - 1)
      OBVIOUS
    <2>2. k[i + 2] = k[i + 1] \o p[i + 2]
      BY <1>8, <2>1
    <2>3. Begins(k[i + 1] \o p[i + 2])
      BY <1>4, <1>11, <2>1
    <2>4. QED
      BY <2>1, <2>2, <2>3
  <1>12. 0..(n - 1) \subseteq A
    <2> HIDE DEF A
    <2> QED BY <1>1, <1>10, <1>11, InductionTo
  <1>13. n - 1 \in A /\ (n - 1) + 1 = n
    <2>1. n - 1 \in 0..(n - 1) /\ (n - 1) + 1 = n
      BY <1>1
    <2> HIDE DEF A
    <2>2. QED
      BY <1>12, <2>1
  <1>14. Begins(k[n])
    BY <1>13
  <1>15. QED
    BY <1>9, <1>14 DEF Begins, U

\* Rows of the database, and those with one status code.
Words == STRING \ {Missing}
RowType == [word : STRING, code : Nat, lat : Nat, phrase : Seq(Words)]
RowsOf(status) == {r \in RowType : r.code = status}

\* Lines that differ in nothing but the latency.
Alike(lines) ==
  \A i, j \in DOMAIN lines :
    /\ lines[i].code = lines[j].code
    /\ lines[i].tokens = lines[j].tokens
    /\ \A k \in DOMAIN lines[i].tokens : lines[i].tokens[k] # Missing

\* What is left of a status line is a sequence of the same words.
LEMMA StripIsSeq ==
  ASSUME NEW T, NEW line \in Seq(T), NEW W
  PROVE  Strip(line, W) \in Seq(T)
  <1>1. Len(line) \in Nat /\ (Len(line) > 1 => line # <<>>)
    BY LenProperties, EmptySeq
  <1>2. Len(line) > 1 => Tail(line) \in Seq(T)
    BY <1>1, HeadTailProperties
  <1>3. QED
    BY <1>2 DEF Strip

\* No phrase has a token that no status line has.
LEMMA PhraseIsSeq ==
  ASSUME NEW r \in Results
  PROVE  CleanReasonPhrase(r.message) \in Seq(Words)
  <1> DEFINE line == r.message
             s1 == Strip(line, Protocols)
             s2 == Strip(s1, CodeDigits)
  <1>1. r.message \in Seq(STRING) /\ \A i \in DOMAIN r.message : r.message[i] # Missing
    BY StoreAssumption, CompilerAssumption
  <1>2. line \in Seq(Words)
    <2>1. Len(line) \in Nat /\ line \in [1..Len(line) -> STRING] /\ DOMAIN line = 1..Len(line)
      BY <1>1, LenProperties
    <2>2. line \in [1..Len(line) -> Words]
      BY <1>1, <2>1 DEF Words
    <2>3. QED
      BY <2>1, <2>2, SeqDef
  <1> HIDE DEF line
  <1>3. s1 \in Seq(Words)
    BY <1>2, StripIsSeq
  <1> HIDE DEF s1
  <1>4. s2 \in Seq(Words)
    BY <1>3, StripIsSeq
  <1> HIDE DEF s2
  <1>5. Kept(s2, STRING \ {""}) \in Seq(Words \cap (STRING \ {""}))
    BY <1>4, KeptIsSeq
  <1>6. Kept(s2, STRING \ {""}) \in Seq(Words)
    <2>1. Words \cap (STRING \ {""}) \subseteq Words
      OBVIOUS
    <2>2. QED
      BY ONLY <1>5, <2>1, SeqMonotonic
  <1>7. QED
    BY <1>6 DEF CleanReasonPhrase, line, s1, s2

\* The k-th of m times n pairs.
LEMMA PairOf ==
  ASSUME NEW m \in Nat, NEW n \in Nat, NEW k \in 1..(m * n)
  PROVE  /\ n \in Nat \ {0}
         /\ ((k - 1) \div n) + 1 \in 1..m
         /\ ((k - 1) % n) + 1 \in 1..n
  <1>1. n # 0 /\ m * n \in Nat
    <2>1. n = 0 => m * n = 0
      OBVIOUS
    <2>2. QED
      BY <2>1
  <1>2. k - 1 \in Nat /\ k - 1 < m * n
    BY <1>1
  <1> DEFINE q == (k - 1) \div n
             r == (k - 1) % n
  <1>3. q \in Int /\ r \in 0..(n - 1) /\ k - 1 = n * q + r
    BY <1>1, <1>2
  <1> HIDE DEF q, r
  <1>4. q >= 0
    <2>1. SUFFICES ASSUME q <= -1 PROVE FALSE
      BY <1>3
    <2>2. n * q <= n * (-1)
      BY <1>1, <1>3, <2>1
    <2>3. QED
      BY <1>2, <1>3, <2>2
  <1>5. q < m
    <2>1. SUFFICES ASSUME q >= m PROVE FALSE
      BY <1>3
    <2>2. n * q >= n * m
      BY <1>1, <1>3, <2>1
    <2>3. QED
      BY <1>2, <1>3, <2>2
  <1>6. QED
    BY <1>1, <1>3, <1>4, <1>5 DEF q, r

\* The first and each of the elements of a sequence.
LEMMA Elements ==
  ASSUME NEW T, NEW s \in Seq(T)
  PROVE  /\ Len(s) \in Nat /\ DOMAIN s = 1..Len(s)
         /\ \A i \in 1..Len(s) : s[i] \in T
         /\ s # <<>> => 1 \in 1..Len(s)
  BY LenProperties, ElementOfSeq, EmptySeq

\* What a wordlist makes of a file's results is a sequence of their rows.
LEMMA BatchOf ==
  ASSUME NEW run \in Runs, NEW words \in Wordlists, NEW T,
         \A r \in Range(run), w \in STRING : Row(r, w) \in T
  PROVE  FuzzerLogs(run, words) \in Seq(T)
  <1> DEFINE m == Len(run)
             n == Len(words)
  <1>1. /\ m \in Nat /\ n \in Nat
        /\ \A i \in 1..m : run[i] \in Range(run)
        /\ \A i \in 1..n : words[i] \in STRING
    BY StoreAssumption, LenProperties, ElementOfSeq DEF Range
  <1>2. m * n \in Nat
    BY <1>1
  <1>3. \A r \in Range(run), w \in STRING : Row(r, w) \in T
    OBVIOUS
  <1> HIDE DEF m, n
  <1>4. ASSUME NEW k \in 1..(m * n)
        PROVE  Row(run[(k - 1) \div n + 1], words[((k - 1) % n) + 1]) \in T
    <2>1. ((k - 1) \div n) + 1 \in 1..m /\ ((k - 1) % n) + 1 \in 1..n
      BY <1>1, PairOf
    <2>2. QED
      BY <1>1, <1>3, <2>1
  <1>5. FuzzerLogs(run, words) \in [1..(m * n) -> T]
    BY <1>4 DEF FuzzerLogs, m, n
  <1>6. QED
    BY <1>2, <1>5, SeqDef

LEMMA BatchOfRows ==
  ASSUME NEW run \in Runs, NEW words \in Wordlists
  PROVE  FuzzerLogs(run, words) \in Seq(RowType)
  <1>1. Range(run) \subseteq Results
    BY StoreAssumption, Elements DEF Range
  <1>2. ASSUME NEW r \in Range(run), NEW w \in STRING
        PROVE  Row(r, w) \in RowType
    <2>1. r \in Results /\ r.code \in Nat /\ r.lat \in Nat
      BY <1>1, StoreAssumption
    <2>2. CleanReasonPhrase(r.message) \in Seq(Words)
      BY <2>1, PhraseIsSeq
    <2>3. QED
      BY <2>1, <2>2 DEF Row, RowType
  <1>3. QED
    BY <1>2, BatchOf

\* The number a status code becomes is one.
LEMMA ToHexIsNat ==
  ASSUME NEW c \in Nat
  PROVE  ToHex(c) \in Nat
  <1>1. c \in DOMAIN CommonCodes => CommonCodes[c] \in Nat
    BY DEF CommonCodes
  <1>2. c \in DOMAIN StatusCodesFallback => StatusCodesFallback[c] \in Nat
    BY DEF StatusCodesFallback
  <1>3. OtherHex(c) \in Nat
    BY DEF OtherHex
  <1>4. QED
    BY <1>1, <1>2, <1>3 DEF ToHex

\* The rows of a status code.
LEMMA MatchingIsSeq ==
  ASSUME rows \in Seq(RowType), NEW status
  PROVE  Matching(status) \in Seq(RowsOf(status))
  <1> DEFINE S == {rows[i] : i \in {j \in DOMAIN rows : rows[j].code = status}}
  <1>1. Kept(rows, S) \in Seq(RowType \cap S)
    BY KeptIsSeq
  <1>2. RowType \cap S \subseteq RowsOf(status)
    BY DEF RowsOf
  <1> HIDE DEF S
  <1>3. Kept(rows, S) \in Seq(RowsOf(status))
    BY <1>1, <1>2, SeqMonotonic
  <1>4. QED
    BY <1>3 DEF Matching, S

\* A chunk of rows of one status code becomes lines that are alike: the k-th row
\* is written from the phrases of the first k, which begin with the first one.
LEMMA MatrixAlike ==
  ASSUME NEW c, NEW packet \in Seq(RowsOf(c)), packet # <<>>
  PROVE  /\ Matrix(packet) \in Seq(Lines) /\ Alike(Matrix(packet))
         /\ Matrix(packet) # <<>>
        /\ Matrix(packet) = [k \in 1..Len(packet) |->
                              [code |-> ToHex(c), lat |-> packet[k].lat,
                               tokens |-> packet[1].phrase]]
  <1> DEFINE n == Len(packet)
             first == packet[1].phrase
             width == Len(first)
             m == Matrix(packet)
  <1>1. /\ n \in Nat /\ DOMAIN packet = 1..n /\ 1 \in 1..n
        /\ \A i \in 1..n : packet[i] \in RowsOf(c)
    BY Elements
  <1>2. \A i \in 1..n : /\ packet[i].code = c /\ c \in Nat
                        /\ packet[i].lat \in Nat /\ packet[i].phrase \in Seq(Words)
    BY <1>1 DEF RowsOf, RowType
  <1>3. /\ first \in Seq(Words) /\ width \in Nat
        /\ \A j \in 1..width : first[j] \in Tokens /\ first[j] # Missing
    BY <1>1, <1>2, Elements DEF Words, Tokens
  <1> HIDE DEF n
  <1>4. ASSUME NEW k \in 1..n
        PROVE  /\ CompileBatch(packet, k) \in Seq(Words)
               /\ Len(CompileBatch(packet, k)) \in Nat
               /\ width <= Len(CompileBatch(packet, k))
               /\ \A j \in 1..width : CompileBatch(packet, k)[j] = first[j]
    <2> DEFINE p == [i \in 1..k |-> packet[i].phrase]
    <2>1. k \in Nat \ {0} /\ 1..k \subseteq 1..n
      BY <1>1
    <2>2. p \in [1..k -> Seq(Words)] /\ p[1] = first
      BY <1>2, <2>1
    <2> HIDE DEF p
    <2>3. /\ FlattenSeq(p) \in Seq(Words) /\ Len(p[1]) <= Len(FlattenSeq(p))
          /\ \A j \in 1..Len(p[1]) : FlattenSeq(p)[j] = p[1][j]
      BY <2>1, <2>2, FlattenBegins
    <2>4. CompileBatch(packet, k) = FlattenSeq(p)
      BY DEF CompileBatch, p
    <2>5. QED
      BY <2>2, <2>3, <2>4, LenProperties
  <1>5. m = [k \in 1..n |-> [code |-> ToHex(c), lat |-> packet[k].lat,
                             tokens |-> [j \in 1..width |-> first[j]]]]
    <2>1. m = [k \in 1..n |->
                [code |-> ToHex(packet[k].code), lat |-> packet[k].lat,
                 tokens |-> [j \in 1..width |->
                    IF j <= Len(CompileBatch(packet, k)) THEN CompileBatch(packet, k)[j]
                                                         ELSE Missing]]]
      BY <1>1 DEF Matrix
    <2>2. ASSUME NEW k \in 1..n
          PROVE  [j \in 1..width |->
                    IF j <= Len(CompileBatch(packet, k)) THEN CompileBatch(packet, k)[j]
                                                         ELSE Missing]
                 = [j \in 1..width |-> first[j]]
      <3> DEFINE row == CompileBatch(packet, k)
      <3>1. width <= Len(row) /\ \A j \in 1..width : row[j] = first[j]
        BY <1>4
      <3>2. Len(row) \in Nat /\ width \in Nat
        BY <1>3, <1>4
      <3> HIDE DEF row, width, first
      <3>3. ASSUME NEW j \in 1..width
            PROVE  (IF j <= Len(row) THEN row[j] ELSE Missing) = first[j]
        BY <3>1, <3>2
      <3>4. [j \in 1..width |-> IF j <= Len(row) THEN row[j] ELSE Missing]
            = [j \in 1..width |-> first[j]]
        BY <3>3
      <3>5. QED
        BY ONLY <3>4 DEF row, width, first
    <2>3. QED
      BY <1>2, <2>1, <2>2
  <1> DEFINE tokens == [j \in 1..width |-> first[j]]
  <1>6. tokens \in Seq(Tokens) /\ DOMAIN tokens = 1..width
        /\ \A j \in 1..width : tokens[j] # Missing
    <2>1. tokens \in [1..width -> Tokens]
      BY <1>3
    <2>2. QED
      BY <1>3, <2>1, SeqDef
  <1>7. ToHex(c) \in Nat
    BY <1>1, <1>2, ToHexIsNat
  <1>14. tokens = first
    BY <1>3, Elements
  <1> HIDE DEF m, tokens, width, first
  <1>8. m = [k \in 1..n |-> [code |-> ToHex(c), lat |-> packet[k].lat, tokens |-> tokens]]
    BY <1>5 DEF tokens
  <1>9. m \in [1..n -> Lines]
    BY <1>2, <1>6, <1>7, <1>8 DEF Lines
  <1>10. m \in Seq(Lines)
    BY <1>1, <1>9, SeqDef
  <1>11. Alike(m)
    BY <1>6, <1>8 DEF Alike
  <1>12. m # <<>>
    BY <1>1, <1>9
  <1>13. m = [k \in 1..Len(packet) |-> [code |-> ToHex(c), lat |-> packet[k].lat,
                                        tokens |-> packet[1].phrase]]
    BY <1>8, <1>14 DEF n, first
  <1>15. QED
    BY <1>10, <1>11, <1>12, <1>13 DEF m

----------------------------------------------------------------------------
\* The rows on their way have the type of rows, and those a compilation has read
\* have the status code it filters by; there are none outside a compilation.
RowInv ==
  /\ rows \in Seq(RowType) /\ txn \in Seq(RowType) /\ stream \in Seq(RowType)
  /\ chunk \in Seq(RowsOf(code)) /\ cursor \in Seq(RowsOf(code))
  /\ phase # "compile" => chunk = <<>> /\ cursor = <<>>

TypeInv == TelemetryTypeOK /\ RowInv

\* What a kill leaves of a stash is lines.
LEMMA CutFilesAreLines ==
  ASSUME NEW lines \in Seq(Lines), NEW left \in CutFiles(lines)
  PROVE  left \in Seq(Lines)
  <1>1. /\ Len(lines) \in Nat
        /\ \A i \in 1..Len(lines) : lines[i] \in Lines
    BY Elements
  <1>2. ASSUME NEW n \in 0..Len(lines)
        PROVE  SubSeq(lines, 1, n) \in Seq(Lines)
    <2>1. 1 \in Int /\ n \in Int /\ \A i \in 1..n : lines[i] \in Lines
      BY <1>1
    <2>2. QED
      BY ONLY <2>1, SubSeqProperties
  <1>3. ASSUME NEW line \in Lines, NEW l \in CutLines(line)
        PROVE  l \in Lines
    <2>1. /\ line.tokens \in Seq(Tokens) /\ line.code \in Nat /\ line.lat \in Nat
          /\ Len(line.tokens) \in Nat
      BY LenProperties DEF Lines
    <2>2. ASSUME NEW n \in 0..Len(line.tokens)
          PROVE  SubSeq(line.tokens, 1, n) \in Seq(Tokens)
      <3>1. 1 \in Int /\ n \in Int /\ \A i \in 1..n : line.tokens[i] \in Tokens
        BY <2>1, Elements
      <3>2. QED
        BY ONLY <3>1, SubSeqProperties
    <2>3. ASSUME NEW t \in Seq(Tokens), NEW lat \in Nat
          PROVE  [line EXCEPT !.lat = lat, !.tokens = t] \in Lines
      BY <2>1 DEF Lines
    <2>4. ASSUME NEW t \in Seq(Tokens)
          PROVE  [line EXCEPT !.tokens = t] \in Lines
      BY <2>1 DEF Lines
    <2>5. <<>> \in Seq(Tokens) /\ 0 \in Nat
      BY EmptySeq
    <2>6. ASSUME NEW n \in 1..Len(line.tokens)
          PROVE  Append(SubSeq(line.tokens, 1, n - 1), Garbled) \in Seq(Tokens)
      <3>1. n - 1 \in 0..Len(line.tokens)
        BY <2>1
      <3>2. Garbled \in Tokens
        BY DEF Tokens
      <3>3. QED
        BY <2>2, <3>1, <3>2, AppendProperties
    <2>7. CASE l = [line EXCEPT !.lat = 0, !.tokens = <<>>]
      BY <2>3, <2>5, <2>7
    <2>8. CASE l \in {[line EXCEPT !.tokens = SubSeq(line.tokens, 1, n)] :
                        n \in 0..Len(line.tokens)}
      BY <2>2, <2>4, <2>8
    <2>9. CASE l \in {[line EXCEPT !.tokens = Append(SubSeq(line.tokens, 1, n - 1), Garbled)] :
                        n \in 1..Len(line.tokens)}
      BY <2>4, <2>6, <2>9
    <2>10. QED
      BY <1>3, <2>7, <2>8, <2>9 DEF CutLines
  <1>4. CASE left \in {SubSeq(lines, 1, n) : n \in 0..Len(lines)}
    BY <1>2, <1>4
  <1>5. ASSUME NEW n \in 1..Len(lines), NEW l \in CutLines(lines[n]),
               left = Append(SubSeq(lines, 1, n - 1), l)
        PROVE  left \in Seq(Lines)
    <2>1. n - 1 \in 0..Len(lines)
      BY <1>1
    <2>2. SubSeq(lines, 1, n - 1) \in Seq(Lines) /\ l \in Lines
      BY <1>1, <1>2, <1>3, <2>1
    <2>3. QED
      BY <1>5, <2>2, AppendProperties
  <1>6. QED
    BY <1>4, <1>5 DEF CutFiles

\* A chunk that is saved is not empty.
LEMMA ChunkHasRows ==
  ASSUME TypeInv, ChunkReady
  PROVE  chunk # <<>> /\ Matrix(chunk) \in Seq(Lines) /\ Alike(Matrix(chunk))
  <1>1. chunk # <<>>
    <2>1. chunk = <<>> => Len(chunk) = 0
      BY EmptySeq
    <2>2. QED
      BY <2>1, CompilerAssumption DEF ChunkReady
  <1>2. QED
    BY <1>1, MatrixAlike DEF TypeInv, RowInv

\* Initially every variable has its type.
LEMMA TypesInitially ==
  ASSUME Init
  PROVE  TypeInv
  <1>1. \A S : <<>> \in Seq(S)
    BY EmptySeq
  <1>2. Len(<<>>) = 0
    OBVIOUS
  <1>3. RowInv
    BY <1>1 DEF Init, StoreInit, CompileInit, RowInv
  <1>4. /\ phase = "idle" /\ files \in Seq({Doc(run) : run \in Runs} \cup {Torn})
        /\ table \in BOOLEAN /\ stash \in Seq(Lines)
    BY <1>1 DEF Init, StoreInit, CompileInit
  <1>5. Len(chunk) <= ChunkSize
    BY <1>2, CompilerAssumption DEF Init, CompileInit
  <1>6. data \in Seq(Lines) /\ step \in 1..5
    BY <1>1 DEF Init, GanInit
  <1>7. /\ cmd = "none" /\ code = 0 /\ last = "never"
        /\ cut \in BOOLEAN /\ writable \in BOOLEAN /\ plain \in BOOLEAN
        /\ wild \in BOOLEAN
    BY DEF Init, CompileInit, GanInit
  <1>8. scored \in [code : BOOLEAN, lat : BOOLEAN, token : BOOLEAN, guess : BOOLEAN]
    BY DEF Init, GanInit, Unscored
  <1>9. model \in [1..4 -> [state : {"none", "cut", "wild", "whole"}, of : Seq(Lines),
                           cut : BOOLEAN]]
    BY <1>1 DEF Init, GanInit, File
  <1>10. QED
    BY <1>3, <1>4, <1>5, <1>6, <1>7, <1>8, <1>9 DEF TypeInv, TelemetryTypeOK

\* The steps of the store keep the types.
LEMMA StoreTypes ==
  ASSUME TypeInv, StoreNext,
         UNCHANGED <<writable, compileVars, stashVars, trainVars, modelVars, scored>>
  PROVE  TypeInv'
  <1> USE DEF TypeInv, RowInv, TelemetryTypeOK, compileVars, stashVars, trainVars, modelVars
  <1> DEFINE D == {Doc(run) : run \in Runs} \cup {Torn}
  <1>1. \A S : <<>> \in Seq(S)
    BY EmptySeq
  <1>2. files \in Seq(D) /\ \A doc \in D : Append(files, doc) \in Seq(D)
    BY AppendProperties
  <1>3. CASE WriteToJson
    <2>1. files' \in Seq(D)
      BY <1>2, <1>3 DEF WriteToJson
    <2>2. QED
      BY <1>3, <2>1 DEF WriteToJson
  <1>4. CASE KilledInWrite
    <2>1. files' \in Seq(D)
      BY <1>2, <1>4 DEF KilledInWrite
    <2>2. QED
      BY <1>4, <2>1 DEF KilledInWrite
  <1> HIDE DEF D
  <1>5. CASE BeginTransfer
    <2>1. stream' \in Seq(RowType)
      <3>1. CASE stream' = <<>>
        BY <1>1, <3>1
      <3>2. CASE /\ files # <<>> /\ files[1].whole
                 /\ \E words \in Wordlists : stream' = FuzzerLogs(files[1].results, words)
        <4>1. files[1].results \in Runs
          BY <1>2, <3>2, FirstRun DEF D
        <4>2. QED
          BY <3>2, <4>1, BatchOfRows
      <3>3. QED
        BY <1>5, <3>1, <3>2 DEF BeginTransfer
    <2>2. QED
      BY <1>5, <2>1 DEF BeginTransfer
  <1>6. CASE TransferUnreadable
    BY <1>6 DEF TransferUnreadable
  <1>7. CASE InsertLog
    <2>1. Head(stream) \in RowType /\ Tail(stream) \in Seq(RowType)
      BY <1>7, HeadTailProperties DEF InsertLog
    <2>2. Append(txn, Head(stream)) \in Seq(RowType)
      BY <2>1, AppendProperties
    <2>3. QED
      BY <1>7, <2>1, <2>2 DEF InsertLog
  <1>8. CASE CommitLogs
    <2>1. rows \o txn \in Seq(RowType)
      BY ConcatProperties
    <2>2. QED
      BY <1>1, <1>8, <2>1 DEF CommitLogs, EndTransfer
  <1>9. CASE TransferFails
    BY <1>1, <1>9 DEF TransferFails, EndTransfer
  <1>10. QED
    BY <1>3, <1>4, <1>5, <1>6, <1>7, <1>8, <1>9 DEF StoreNext

\* The steps of a compilation keep the types.
LEMMA CompileTypes ==
  ASSUME TypeInv, CompileNext, UNCHANGED <<trainVars, modelVars, scored>>
  PROVE  TypeInv'
  <1> USE DEF TypeInv, RowInv, TelemetryTypeOK, storeVars, stashVars, trainVars, modelVars
  <1>1. (\A S : <<>> \in Seq(S)) /\ Len(<<>>) = 0
    BY EmptySeq
  <1>2. ASSUME StopCompile, phase = "compile", stash' \in Seq(Lines), cut' \in BOOLEAN,
               plain' = plain
        PROVE  TypeInv'
    BY <1>1, <1>2, CompilerAssumption DEF StopCompile
  <1>3. CASE BeginCompile
    <2>1. Matching(code') \in Seq(RowsOf(code'))
      BY MatchingIsSeq
    <2>2. chunk = <<>> => chunk \in Seq(RowsOf(code'))
      BY <1>1
    <2>3. QED
      BY <1>3, <2>1, <2>2 DEF BeginCompile
  <1>4. CASE ReadRow
    <2>1. Head(cursor) \in RowsOf(code) /\ Tail(cursor) \in Seq(RowsOf(code))
      BY <1>4, HeadTailProperties DEF ReadRow
    <2>2. /\ Append(chunk, Head(cursor)) \in Seq(RowsOf(code))
          /\ Len(Append(chunk, Head(cursor))) = Len(chunk) + 1 /\ Len(chunk) \in Nat
      BY <2>1, AppendProperties, LenProperties
    <2>3. Len(chunk') <= ChunkSize
      BY <1>4, <2>2, CompilerAssumption DEF ReadRow
    <2>4. QED
      BY <1>4, <2>1, <2>2, <2>3 DEF ReadRow
  <1>5. CASE SaveChunk
    <2>1. stash' \in Seq(Lines) /\ cut' \in BOOLEAN
      BY <1>5, ChunkHasRows DEF SaveChunk
    <2>2. QED
      BY <1>1, <1>5, <2>1, CompilerAssumption DEF SaveChunk
  <1>6. CASE EndCompile
    BY <1>2, <1>6 DEF EndCompile
  <1>7. CASE CompileFails
    BY <1>2, <1>7 DEF CompileFails
  <1>8. CASE KilledInSave
    <2>1. stash' \in Seq(Lines)
      BY <1>8, ChunkHasRows, CutFilesAreLines DEF KilledInSave
    <2>2. QED
      BY <1>2, <1>8, <2>1 DEF KilledInSave, ChunkReady
  <1>9. QED
    BY <1>3, <1>4, <1>5, <1>6, <1>7, <1>8 DEF CompileNext

\* The steps of trainings and predictions keep the types.
LEMMA GanTypes ==
  ASSUME TypeInv, GanNext
  PROVE  TypeInv'
  <1> USE DEF TypeInv, RowInv, storeVars, compileVars, stashVars, trainVars, modelVars
  <1> DEFINE Files == [state : {"none", "cut", "wild", "whole"}, of : Seq(Lines), cut : BOOLEAN]
             Scores == [code : BOOLEAN, lat : BOOLEAN, token : BOOLEAN, guess : BOOLEAN]
  <1>1. <<>> \in Seq(Lines)
    BY EmptySeq
  <1>2. ASSUME NEW f \in Files, model' = [model EXCEPT ![step] = f]
        PROVE  model' \in [1..4 -> Files]
    BY <1>2 DEF TelemetryTypeOK
  <1>3. UNCHANGED <<storeVars, writable, compileVars, stashVars>>
    BY DEF GanNext, BeginTraining, WriteModel, EndTraining,
           KilledInTraining, StopTraining, Predict, EndPrediction
  <1>4. phase # "compile" /\ phase' # "compile"
    BY DEF GanNext, BeginTraining, WriteModel, EndTraining,
           KilledInTraining, StopTraining, Predict, EndPrediction
  <1>5. SUFFICES /\ phase' \in {"idle", "train", "predicted"}
                 /\ data' \in Seq(Lines) /\ wild' \in BOOLEAN /\ step' \in 1..5
                 /\ model' \in [1..4 -> Files]
                 /\ last' \in {"never", "done", "killed"}
                 /\ scored' \in Scores
    BY <1>3, <1>4, <1>5 DEF TelemetryTypeOK
  <1> USE DEF TelemetryTypeOK
  <1>6. ASSUME NEW how \in {"done", "killed"}, StopTraining(how)
        PROVE  /\ phase' = "idle" /\ data' \in Seq(Lines) /\ wild' = FALSE /\ step' = 1
               /\ last' \in {"done", "killed"} /\ scored' \in Scores
    BY <1>1, <1>6 DEF StopTraining
  <1>7. CASE BeginTraining
    <2>1. FileToCompile \in Seq(Lines)
      BY <1>1 DEF FileToCompile
    <2>2. QED
      BY <1>7, <2>1 DEF BeginTraining, Ragged
  <1>8. CASE WriteModel
    <2>1. Computed \in Files
      BY DEF Computed, File
    <2>2. model' \in [1..4 -> Files]
      BY <1>2, <1>8, <2>1 DEF WriteModel
    <2>3. QED
      BY <1>8, <2>2 DEF WriteModel
  <1>9. CASE EndTraining
    BY <1>6, <1>9 DEF EndTraining
  <1>10. CASE KilledInTraining
    <2>1. File("cut", <<>>, FALSE) \in Files
      BY <1>1 DEF File
    <2>2. model' \in [1..4 -> Files]
      BY <1>2, <1>10, <2>1 DEF KilledInTraining
    <2>3. QED
      BY <1>6, <1>10, <2>2 DEF KilledInTraining
  <1>11. CASE Predict
    <2>1. \A d \in BOOLEAN : (FileToCompile # <<>> /\ d) \in BOOLEAN
      OBVIOUS
    <2>2. ASSUME NEW i, NEW d \in BOOLEAN
          PROVE  Deviates(i, d) \subseteq BOOLEAN
      BY DEF Deviates
    <2>3. TokenScores \subseteq BOOLEAN
      BY DEF TokenScores
    <2>4. scored' \in Scores
      BY <1>11, <2>2, <2>3 DEF Predict, CodesDiffer, LatenciesDiffer, Differ
    <2>5. QED
      BY <1>11, <2>4 DEF Predict
  <1>12. CASE EndPrediction
    BY <1>12 DEF EndPrediction, Unscored
  <1>13. QED
    BY <1>7, <1>8, <1>9, <1>10, <1>11, <1>12 DEF GanNext

\* The saved chunks were of full size, and the stash holds the last of them.
LastSaved(done) ==
  \E before, batch \in Seq(RowsOf(code)), q \in Nat :
    /\ done = before \o batch
    /\ Len(before) = ChunkSize * q /\ Len(batch) \in 1..ChunkSize
    /\ stash = Matrix(batch)

\* The matching rows are those of the saved chunks, the chunk in progress and the
\* rows still to come; only the last chunk may not be full.
Progressed(done) ==
  /\ Matching(code) = done \o (chunk \o cursor)
  /\ \/ \E q \in Nat : Len(done) = ChunkSize * q
     \/ chunk = <<>> /\ cursor = <<>>
  /\ writable /\ done # <<>> => LastSaved(done)

CompileInv ==
  phase = "compile" => \E done \in Seq(RowsOf(code)) : Progressed(done)

\* The last chunk of rows that are the full chunks before it and itself.
LEMMA LastChunkIs ==
  ASSUME NEW T, NEW before \in Seq(T), NEW batch \in Seq(T), NEW q \in Nat,
         Len(before) = ChunkSize * q, Len(batch) \in 1..ChunkSize
  PROVE  LastChunk(before \o batch) = batch
  <1> DEFINE C == ChunkSize
             b == Len(batch)
             all == before \o batch
  <1>1. C \in Nat \ {0} /\ b \in 1..C /\ C * q \in Nat
    BY CompilerAssumption
  <1>2. Len(all) = C * q + b
    BY ConcatProperties
  <1>3. (Len(all) - 1) \div C = q
    <2>1. SUFFICES ((C * q + b) - 1) \div C = q
      BY <1>2
    <2> HIDE DEF C, b
    <2> DEFINE k == (C * q + b) - 1
               d == k \div C
               r == k % C
    <2>2. k \in Nat /\ k = C * q + (b - 1) /\ b - 1 \in 0..(C - 1)
      BY <1>1
    <2>3. d \in Int /\ r \in 0..(C - 1) /\ k = C * d + r
      BY <1>1, <2>2
    <2> HIDE DEF k, d, r
    <2>4. ~(d < q)
      <3>1. SUFFICES ASSUME d + 1 <= q PROVE FALSE
        BY <2>3
      <3>2. C * (d + 1) <= C * q
        BY <1>1, <2>3, <3>1
      <3>3. C * (d + 1) = C * d + C
        BY <1>1, <2>3
      <3>4. C * d \in Int
        BY <1>1, <2>3
      <3>5. QED
        BY <1>1, <2>2, <2>3, <3>2, <3>3, <3>4
    <2>5. ~(q < d)
      <3>1. SUFFICES ASSUME q + 1 <= d PROVE FALSE
        BY <2>3
      <3>2. C * (q + 1) <= C * d
        BY <1>1, <2>3, <3>1
      <3>3. C * (q + 1) = C * q + C
        BY <1>1, <2>3
      <3>4. C * d \in Int
        BY <1>1, <2>3
      <3>5. QED
        BY <1>1, <2>2, <2>3, <3>2, <3>3, <3>4
    <2>6. QED
      BY <2>3, <2>4, <2>5 DEF d, k
  <1>4. LastChunk(all) = SubSeq(all, C * q + 1, C * q + b)
    BY <1>2, <1>3 DEF LastChunk
  <1>5. SubSeq(all, C * q + 1, C * q + b) = SubSeq(batch, 1, b)
    <2>1. /\ C * q + 1 \in (Len(before) + 1)..(Len(before) + Len(batch))
          /\ C * q + b \in (Len(before) + 1)..(Len(before) + Len(batch))
          /\ (C * q + 1) - Len(before) = 1 /\ (C * q + b) - Len(before) = b
      BY <1>1
    <2>2. SubSeq(all, C * q + 1, C * q + b)
          = SubSeq(batch, (C * q + 1) - Len(before), (C * q + b) - Len(before))
      <3> HIDE DEF C, b
      <3> QED BY <2>1, SubSeqOfConcat2
    <2>3. QED
      BY <2>1, <2>2
  <1>6. QED
    BY <1>4, <1>5, SubSeqFull

\* A compilation begins with nothing saved.
LEMMA CompileBegins ==
  ASSUME TypeInv, BeginCompile
  PROVE  CompileInv'
  <1>1. /\ chunk' = <<>> /\ cursor' = Matching(code') /\ rows' = rows
    BY DEF BeginCompile, storeVars, TypeInv, RowInv
  <1>2. Matching(code)' = Matching(code')
    BY <1>1 DEF Matching
  <1>3. Matching(code') \in Seq(RowsOf(code'))
    BY MatchingIsSeq DEF TypeInv, RowInv
  <1>4. <<>> \in Seq(RowsOf(code')) /\ Len(<<>>) = 0
    BY EmptySeq
  <1>5. <<>> \o Matching(code') = Matching(code')
    BY <1>3, ConcatEmptySeq
  <1>6. Matching(code)' = <<>> \o (chunk' \o cursor')
    BY <1>1, <1>2, <1>5
  <1>7. ChunkSize * 0 = 0 /\ 0 \in Nat
    BY CompilerAssumption
  <1>8. Progressed(<<>>)'
    BY <1>4, <1>6, <1>7 DEF Progressed
  <1>9. QED
    BY <1>4, <1>8 DEF CompileInv

\* A row that is read moves from the rows to come into the chunk.
LEMMA CompileReads ==
  ASSUME TypeInv, CompileInv, ReadRow
  PROVE  CompileInv'
  <1>1. /\ phase = "compile" /\ cursor # <<>> /\ chunk' = Append(chunk, Head(cursor))
        /\ cursor' = Tail(cursor)
        /\ UNCHANGED <<phase, rows, writable, code, stash>>
    BY DEF ReadRow, storeVars, stashVars
  <1>2. PICK done \in Seq(RowsOf(code)) : Progressed(done)
    BY <1>1 DEF CompileInv
  <1>3. chunk \in Seq(RowsOf(code)) /\ cursor \in Seq(RowsOf(code))
    BY DEF TypeInv, RowInv
  <1>4. chunk' \o cursor' = chunk \o cursor
    BY <1>1, <1>3, InsertSplits
  <1>5. Matching(code)' = Matching(code)
    BY <1>1 DEF Matching
  <1>6. Matching(code)' = done \o (chunk' \o cursor')
    BY <1>2, <1>4, <1>5 DEF Progressed
  <1>7. \E q \in Nat : Len(done) = ChunkSize * q
    BY <1>1, <1>2 DEF Progressed
  <1>8. writable' /\ done # <<>> => LastSaved(done)'
    BY <1>1, <1>2 DEF Progressed, LastSaved
  <1>9. Progressed(done)'
    BY <1>6, <1>7, <1>8 DEF Progressed
  <1>10. QED
    BY <1>1, <1>2, <1>9 DEF CompileInv

\* A chunk that is saved joins the saved ones.
LEMMA CompileSaves ==
  ASSUME TypeInv, CompileInv, SaveChunk
  PROVE  CompileInv'
  <1>1. /\ phase = "compile" /\ chunk' = <<>>
        /\ UNCHANGED <<phase, rows, writable, code, cursor>>
        /\ Len(chunk) >= ChunkSize \/ cursor = <<>>
        /\ writable => stash' = Matrix(chunk)
    BY DEF SaveChunk, ChunkReady, storeVars
  <1>2. PICK done \in Seq(RowsOf(code)) : Progressed(done)
    BY <1>1 DEF CompileInv
  <1>3. /\ chunk \in Seq(RowsOf(code)) /\ cursor \in Seq(RowsOf(code)) /\ chunk # <<>>
    BY ChunkHasRows DEF TypeInv, RowInv, SaveChunk
  <1>4. Len(chunk) \in 1..ChunkSize
    <2>1. Len(chunk) \in Nat /\ Len(chunk) # 0 /\ Len(chunk) <= ChunkSize
      BY <1>3, EmptySeq, LenProperties DEF TypeInv, TelemetryTypeOK
    <2>2. QED
      BY <2>1, CompilerAssumption
  <1>5. PICK q \in Nat : Len(done) = ChunkSize * q
    BY <1>2, <1>3 DEF Progressed
  <1>6. PICK next \in Seq(RowsOf(code)) :
          next = done \o chunk /\ Len(next) = ChunkSize * q + Len(chunk)
    <2>1. done \o chunk \in Seq(RowsOf(code)) /\ Len(done \o chunk) = Len(done) + Len(chunk)
      BY <1>3, ConcatProperties
    <2>2. QED
      BY <1>5, <2>1
  <1>7. Matching(code)' = next \o (chunk' \o cursor')
    <2>1. <<>> \o cursor = cursor
      BY <1>3, ConcatEmptySeq
    <2>2. next \o cursor = done \o (chunk \o cursor)
      BY <1>2, <1>3, <1>6, ConcatAssociative
    <2>3. Matching(code)' = Matching(code)
      BY <1>1 DEF Matching
    <2>4. QED
      BY <1>1, <1>2, <2>1, <2>2, <2>3 DEF Progressed
  <1>8. (\E p \in Nat : Len(next) = ChunkSize * p) \/ (chunk' = <<>> /\ cursor' = <<>>)
    <2>1. CASE cursor = <<>>
      BY <1>1, <2>1
    <2>2. CASE Len(chunk) >= ChunkSize
      <3>1. Len(chunk) = ChunkSize
        BY <1>4, <2>2, CompilerAssumption
      <3>2. ChunkSize * q + ChunkSize = ChunkSize * (q + 1) /\ q + 1 \in Nat
        BY CompilerAssumption
      <3>3. QED
        BY <1>6, <3>1, <3>2
    <2>3. QED
      BY <1>1, <2>1, <2>2
  <1>9. writable' => LastSaved(next)'
    <2>1. SUFFICES ASSUME writable' PROVE LastSaved(next)'
      OBVIOUS
    <2>2. /\ done \in Seq(RowsOf(code')) /\ chunk \in Seq(RowsOf(code')) /\ q \in Nat
          /\ next = done \o chunk
          /\ Len(done) = ChunkSize * q /\ Len(chunk) \in 1..ChunkSize
      BY <1>1, <1>2, <1>3, <1>4, <1>5, <1>6
    <2>3. stash' = Matrix(chunk)
      BY <1>1, <2>1
    <2>4. QED
      BY <2>2, <2>3 DEF LastSaved
  <1>10. Progressed(next)'
    BY <1>7, <1>8, <1>9 DEF Progressed
  <1>11. QED
    BY <1>1, <1>6, <1>10 DEF CompileInv

\* No other step disturbs a compilation.
LEMMA CompileStep ==
  ASSUME TypeInv, CompileInv, [Next]_vars
  PROVE  CompileInv'
  <1>1. CASE /\ StoreNext
             /\ UNCHANGED <<writable, compileVars, stashVars, trainVars, modelVars, scored>>
    <2>1. phase' # "compile"
      BY <1>1 DEF StoreNext, WriteToJson, KilledInWrite, BeginTransfer,
         TransferUnreadable, InsertLog, CommitLogs, TransferFails, EndTransfer
    <2>2. QED
      BY <2>1 DEF CompileInv
  <1>2. CASE CompileNext /\ UNCHANGED <<trainVars, modelVars, scored>>
    <2>1. CASE EndCompile \/ CompileFails \/ KilledInSave
      BY <2>1 DEF EndCompile, CompileFails, KilledInSave, StopCompile, CompileInv
    <2>2. QED
      BY <1>2, <2>1, CompileBegins, CompileReads, CompileSaves DEF CompileNext
  <1>3. CASE GanNext
    <2>1. phase' # "compile"
      BY <1>3 DEF GanNext, BeginTraining, WriteModel, EndTraining,
             KilledInTraining, StopTraining, Predict, EndPrediction
    <2>2. QED
      BY <2>1 DEF CompileInv
  <1>4. CASE UNCHANGED vars
    BY <1>4 DEF vars, storeVars, compileVars, stashVars, CompileInv, Progressed, LastSaved, Matching
  <1>5. QED
    BY <1>1, <1>2, <1>3, <1>4 DEF Next

\* What is saved when a compilation ends.
LEMMA CompileEnds ==
  ASSUME TypeInv, CompileInv
  PROVE  LastChunkWins
  <1> SUFFICES ASSUME phase = "compile", cursor = <<>>, chunk = <<>>, writable,
                      Matching(code) # <<>>
               PROVE  stash = Matrix(LastChunk(Matching(code)))
    BY DEF LastChunkWins
  <1>1. PICK done \in Seq(RowsOf(code)) : Progressed(done)
    BY DEF CompileInv
  <1>2. Matching(code) = done
    <2>1. <<>> \o <<>> = <<>>
      OBVIOUS
    <2>2. QED
      BY <1>1, <2>1, ConcatEmptySeq DEF Progressed
  <1>3. LastSaved(done)
    BY <1>1, <1>2 DEF Progressed
  <1>4. QED
    BY <1>2, <1>3, LastChunkIs DEF LastSaved

\* A training works on the stash as it is found; the files written so far are of
\* its lines.  Once it has ended they all are.
TrainInv ==
  IF phase = "train"
  THEN /\ data = FileToCompile /\ (wild => plain /\ cut)
       /\ writable => \A i \in 1..4 : i < step =>
            /\ model[i].of = data
            /\ i <= 2 => model[i].state = "whole"
  ELSE /\ ~wild /\ step = 1
       /\ last = "done" =>
            /\ \A i, j \in 1..4 : model[i].of = model[j].of
            /\ writable => model[1].state = "whole" /\ model[2].state = "whole"

\* A file of a stash that was written to its end is of lines that are alike.
FilesAlike ==
  \A i \in 1..4 : model[i].state = "whole" /\ ~model[i].cut => Alike(model[i].of)

\* Without the directories there are no files, and between predictions no scores.
ModelInv ==
  /\ ~writable => \A i \in 1..4 : model[i].of = <<>>
  /\ FilesAlike
  /\ phase # "predicted" => scored = Unscored

\* The lines of a stash that is not cut are alike.
LEMMA StashAlike == LinesAlike <=> (~cut => Alike(stash))
  BY DEF LinesAlike, Alike

\* So are the lines that a training finds.
LEMMA FoundAlike ==
  ASSUME stash \in Seq(Lines), LinesAlike
  PROVE  /\ FileToCompile \in Seq(Lines)
         /\ ~(plain /\ cut) => Alike(FileToCompile)
  <1>1. <<>> \in Seq(Lines) /\ DOMAIN <<>> = {}
    BY EmptySeq
  <1>2. Alike(<<>>)
    BY <1>1 DEF Alike
  <1>3. QED
    BY <1>1, <1>2, StashAlike DEF FileToCompile

\* Lines that are alike are of one length.
LEMMA AlikeNotRagged ==
  ASSUME NEW lines \in Seq(Lines), Alike(lines)
  PROVE  ~Ragged(lines)
  <1>1. SUFFICES ASSUME NEW i \in DOMAIN lines, Len(lines[i].tokens) < Width(lines)
                 PROVE  FALSE
    BY DEF Ragged
  <1>2. 1 \in DOMAIN lines /\ lines # <<>> /\ lines[i] \in Lines
    BY Elements
  <1>3. lines[i].tokens = lines[1].tokens
    BY <1>2 DEF Alike
  <1>4. Len(lines[i].tokens) \in Nat
    BY <1>2, LenProperties DEF Lines
  <1>5. QED
    BY <1>1, <1>2, <1>3, <1>4 DEF Width

\* Neither the codes nor the tokens of lines that are alike deviate.
LEMMA AlikeNotScored ==
  ASSUME NEW lines, Alike(lines)
  PROVE  ~CodesDiffer(lines) /\ \A j : ~TokensDiffer(lines, j)
  BY DEF Alike, CodesDiffer, TokensDiffer, Differ

\* Initially the invariants hold.
LEMMA TrainInitially ==
  ASSUME Init
  PROVE  CompileInv /\ LinesAlike /\ TrainInv /\ ModelInv
  <1>1. phase = "idle" /\ stash = <<>> /\ last = "never" /\ ~wild /\ step = 1
    BY DEF Init, StoreInit, CompileInit, GanInit
  <1>2. scored = Unscored /\ \A i \in 1..4 : model[i] = File("none", <<>>, FALSE)
    BY DEF Init, GanInit
  <1>3. LinesAlike
    BY <1>1 DEF LinesAlike
  <1>4. CompileInv /\ TrainInv
    BY <1>1 DEF CompileInv, TrainInv
  <1>5. ModelInv
    BY <1>1, <1>2 DEF ModelInv, FilesAlike, File
  <1>6. QED
    BY <1>3, <1>4, <1>5

Inv == TypeInv /\ CompileInv /\ LinesAlike /\ TrainInv /\ ModelInv

\* Only a save changes the stash.
LEMMA AlikeStep ==
  ASSUME TypeInv, LinesAlike, [Next]_vars
  PROVE  LinesAlike'
  <1>1. CASE UNCHANGED stashVars
    BY <1>1 DEF LinesAlike, stashVars
  <1>2. CASE SaveChunk
    <2>1. CASE writable
      <3>1. stash' = Matrix(chunk) /\ Alike(stash')
        BY <1>2, <2>1, ChunkHasRows DEF SaveChunk
      <3>2. QED
        BY <3>1 DEF Alike, LinesAlike
    <2>2. CASE ~writable
      BY <1>1, <1>2, <2>2 DEF SaveChunk, stashVars
    <2>3. QED
      BY <2>1, <2>2
  <1>3. CASE KilledInSave
    BY <1>3 DEF KilledInSave, LinesAlike
  <1>4. CASE GanNext
    <2>1. UNCHANGED stashVars
      BY <1>4 DEF GanNext, BeginTraining, WriteModel, EndTraining,
           KilledInTraining, StopTraining, Predict, EndPrediction
    <2>2. QED
      BY <1>1, <2>1
  <1>5. CASE BeginCompile \/ ReadRow \/ EndCompile \/ CompileFails
    BY <1>1, <1>5 DEF BeginCompile, ReadRow, EndCompile, CompileFails
  <1>6. QED
    BY <1>1, <1>2, <1>3, <1>4, <1>5 DEF Next, CompileNext, vars

\* Commands other than trainings and predictions leave both alone.
LEMMA TrainOtherSteps ==
  ASSUME TrainInv, ModelInv,
         phase # "train", phase' # "train", phase # "predicted",
         UNCHANGED <<writable, trainVars, modelVars, scored>>
  PROVE  TrainInv' /\ ModelInv'
  BY DEF TrainInv, ModelInv, FilesAlike, trainVars, modelVars

\* The steps of trainings and predictions keep their invariants.
LEMMA TrainGanSteps ==
  ASSUME Inv, GanNext
  PROVE  TrainInv' /\ ModelInv'
  <1> USE DEF Inv, TypeInv, storeVars, stashVars, trainVars, modelVars
  <1>1. model \in [1..4 -> [state : {"none", "cut", "wild", "whole"}, of : Seq(Lines),
                           cut : BOOLEAN]]
        /\ step \in 1..5 /\ stash \in Seq(Lines)
        /\ cut \in BOOLEAN /\ plain \in BOOLEAN
    BY DEF TelemetryTypeOK
  <1>2. CASE BeginTraining
    <2>1. /\ phase' = "train" /\ data' = FileToCompile
          /\ wild' = Ragged(FileToCompile) /\ step' = 1 /\ phase = "idle"
          /\ UNCHANGED <<stash, cut, plain, model, last, scored, writable>>
      BY <1>2 DEF BeginTraining
    <2>2. wild' => plain' /\ cut'
      BY <1>1, <2>1, FoundAlike, AlikeNotRagged
    <2>3. TrainInv'
      <3>1. FileToCompile' = FileToCompile
        BY <2>1 DEF FileToCompile
      <3>2. QED
        BY <2>1, <2>2, <3>1 DEF TrainInv
    <2>4. ModelInv'
      BY <2>1 DEF ModelInv, FilesAlike
    <2>5. QED
      BY <2>3, <2>4
  <1>3. CASE WriteModel
    <2>1. /\ phase = "train" /\ phase' = "train" /\ step \in 1..4 /\ step' = step + 1
          /\ UNCHANGED <<data, wild, stash, cut, plain, last, scored, writable>>
          /\ model' = IF writable THEN [model EXCEPT ![step] = Computed] ELSE model
      BY <1>1, <1>3 DEF WriteModel
    <2>2. /\ data = FileToCompile /\ (wild => plain /\ cut)
          /\ FileToCompile' = FileToCompile
      BY <2>1 DEF TrainInv, FileToCompile
    <2>3. /\ Computed.of = data /\ Computed.cut = (plain /\ cut)
          /\ step <= 2 => Computed.state = "whole"
      BY <2>1 DEF Computed, File
    <2>4. CASE writable
      <3>1. \A i \in 1..4 : model'[i] = IF i = step THEN Computed ELSE model[i]
        BY <1>1, <2>1, <2>4
      <3>2. TrainInv'
        <4>1. ASSUME NEW i \in 1..4, i < step'
              PROVE  model'[i].of = data /\ (i <= 2 => model'[i].state = "whole")
          <5>1. CASE i = step
            BY <2>3, <3>1, <5>1
          <5>2. CASE i # step
            <6>1. i < step
              BY <2>1, <4>1, <5>2
            <6>2. QED
              BY <2>1, <2>4, <3>1, <5>2, <6>1 DEF TrainInv
          <5>3. QED
            BY <5>1, <5>2
        <4>2. QED
          BY <2>1, <2>2, <4>1 DEF TrainInv
      <3>3. ~(plain /\ cut) => Alike(Computed.of)
        BY <1>1, <2>2, <2>3, FoundAlike
      <3>4. FilesAlike'
        BY <2>3, <3>1, <3>3 DEF ModelInv, FilesAlike
      <3>5. QED
        BY <2>1, <2>4, <3>2, <3>4 DEF ModelInv
    <2>5. CASE ~writable
      BY <2>1, <2>2, <2>5 DEF TrainInv, ModelInv, FilesAlike
    <2>6. QED
      BY <2>4, <2>5
  <1>4. CASE EndTraining
    <2>1. /\ phase = "train" /\ phase' = "idle" /\ step = 5 /\ wild' = FALSE /\ step' = 1
          /\ last' = "done" /\ UNCHANGED <<model, scored, writable>>
      BY <1>1, <1>4 DEF EndTraining, StopTraining
    <2>2. \A i, j \in 1..4 : model[i].of = model[j].of
      BY <2>1 DEF TrainInv, ModelInv
    <2>3. writable => model[1].state = "whole" /\ model[2].state = "whole"
      BY <2>1 DEF TrainInv
    <2>4. TrainInv'
      BY <2>1, <2>2, <2>3 DEF TrainInv
    <2>5. ModelInv'
      BY <2>1 DEF ModelInv, FilesAlike
    <2>6. QED
      BY <2>4, <2>5
  <1>5. CASE KilledInTraining
    <2>1. /\ phase = "train" /\ phase' = "idle" /\ wild' = FALSE /\ step' = 1
          /\ last' = "killed" /\ UNCHANGED <<scored, writable>> /\ step <= 4
      BY <1>5 DEF KilledInTraining, StopTraining
    <2>2. TrainInv'
      BY <2>1 DEF TrainInv
    <2>3. CASE model' = model
      BY <2>1, <2>2, <2>3 DEF ModelInv, FilesAlike
    <2>4. CASE writable /\ model' = [model EXCEPT ![step] = File("cut", <<>>, FALSE)]
      <3>1. \A i \in 1..4 : model'[i] = IF i = step THEN File("cut", <<>>, FALSE) ELSE model[i]
        BY <1>1, <2>1, <2>4
      <3>2. FilesAlike'
        BY <3>1 DEF ModelInv, FilesAlike, File
      <3>3. QED
        BY <2>1, <2>2, <2>4, <3>2 DEF ModelInv
    <2>5. QED
      BY <1>5, <2>3, <2>4 DEF KilledInTraining
  <1>6. ASSUME phase # "train", phase' # "train", UNCHANGED <<writable, trainVars, modelVars>>,
               phase' # "predicted" => scored' = Unscored
        PROVE  TrainInv' /\ ModelInv'
    BY <1>6 DEF TrainInv, ModelInv, FilesAlike
  <1>7. CASE Predict
    BY <1>6, <1>7 DEF Predict
  <1>8. CASE EndPrediction
    BY <1>6, <1>8 DEF EndPrediction
  <1>9. QED
    BY <1>2, <1>3, <1>4, <1>5, <1>7, <1>8 DEF GanNext

\* What a prediction uses and finds, while its scores stand.
ScoreInv == PredictionGrounded /\ OnlyLatencyScored

\* Between predictions nothing is scored.
LEMMA UnscoredHolds ==
  ASSUME scored = Unscored
  PROVE  ScoreInv
  BY DEF Unscored, ScoreInv, PredictionGrounded, OnlyLatencyScored

\* A prediction takes no deviation from files whose lines are alike.
LEMMA PredictScores ==
  ASSUME Inv, Predict
  PROVE  ScoreInv'
  <1>1. /\ phase = "idle" /\ UNCHANGED <<writable, model, last>>
        /\ scored'.code \in {FileToCompile # <<>> /\ d :
                              d \in Deviates(1, CodesDiffer(model[1].of))}
        /\ scored'.token \in TokenScores
        /\ scored'.guess \in {FileToCompile # <<>> /\ \E i \in {1, 2} : model[i].state # "whole"}
    BY DEF Predict, modelVars
  <1>2. scored'.guess => ~writable \/ last # "done"
    <2>1. last = "done" /\ writable => model[1].state = "whole" /\ model[2].state = "whole"
      BY <1>1 DEF Inv, TrainInv
    <2>2. scored'.guess => \E i \in {1, 2} : model[i].state # "whole"
      BY <1>1
    <2>3. QED
      BY <2>1, <2>2
  <1>3. scored'.code => model[1].state # "whole" \/ model[1].cut
    <2>1. SUFFICES ASSUME model[1].state = "whole", ~model[1].cut PROVE ~scored'.code
      OBVIOUS
    <2>2. Alike(model[1].of)
      BY <2>1 DEF Inv, ModelInv, FilesAlike
    <2>3. ~CodesDiffer(model[1].of)
      BY <2>2, AlikeNotScored
    <2>4. \A d \in Deviates(1, CodesDiffer(model[1].of)) : ~d
      BY <2>1, <2>3 DEF Deviates
    <2>5. QED
      BY <1>1, <2>4
  <1>4. scored'.token => model[3].state # "whole" \/ model[3].cut
    <2>1. SUFFICES ASSUME model[3].state = "whole", ~model[3].cut PROVE ~scored'.token
      OBVIOUS
    <2>2. Alike(model[3].of)
      BY <2>1 DEF Inv, ModelInv, FilesAlike
    <2>3. \A j : ~TokensDiffer(model[3].of, j)
      BY <2>2, AlikeNotScored
    <2>4. TokenScores = {\E j \in ScoredColumns : TokensDiffer(model[3].of, j)}
      BY <2>1 DEF TokenScores
    <2>5. QED
      BY <1>1, <2>3, <2>4
  <1>5. QED
    BY <1>1, <1>2, <1>3, <1>4 DEF ScoreInv, PredictionGrounded, OnlyLatencyScored

\* Scores are made by a prediction only, and gone before anything else happens.
LEMMA ScoreStep ==
  ASSUME Inv, ScoreInv, [Next]_vars, ModelInv'
  PROVE  ScoreInv'
  <1>1. CASE Predict
    BY <1>1, PredictScores
  <1>2. CASE UNCHANGED vars
    BY <1>2 DEF vars, modelVars, ScoreInv, PredictionGrounded, OnlyLatencyScored
  <1>3. CASE Next /\ ~Predict
    <2>1. phase' # "predicted"
      BY <1>3 DEF Next, StoreNext, WriteToJson, KilledInWrite, BeginTransfer,
         TransferUnreadable, InsertLog, CommitLogs, TransferFails, EndTransfer,
         CompileNext, BeginCompile, ReadRow, SaveChunk, ChunkReady,
         EndCompile, CompileFails, KilledInSave, StopCompile,
         GanNext, BeginTraining, WriteModel, EndTraining,
         KilledInTraining, StopTraining, EndPrediction
    <2>2. scored' = Unscored
      BY <2>1 DEF ModelInv
    <2>3. QED
      BY <2>2, UnscoredHolds DEF Unscored, ScoreInv, PredictionGrounded, OnlyLatencyScored
  <1>4. QED
    BY <1>1, <1>2, <1>3

\* Every step keeps the types.
LEMMA TypeStep ==
  ASSUME TypeInv, [Next]_vars
  PROVE  TypeInv'
  <1>1. CASE UNCHANGED vars
    BY <1>1 DEF vars, storeVars, compileVars, stashVars, trainVars, modelVars,
       TypeInv, TelemetryTypeOK, RowInv
  <1>2. QED
    BY <1>1, StoreTypes, CompileTypes, GanTypes DEF Next

\* Every step keeps what is said of trainings and model files.
LEMMA TrainStep ==
  ASSUME Inv, [Next]_vars
  PROVE  TrainInv' /\ ModelInv'
  <1>1. CASE /\ StoreNext
             /\ UNCHANGED <<writable, compileVars, stashVars, trainVars, modelVars, scored>>
    <2>1. phase # "train" /\ phase' # "train" /\ phase # "predicted"
      BY <1>1 DEF StoreNext, WriteToJson, KilledInWrite, BeginTransfer,
         TransferUnreadable, InsertLog, CommitLogs, TransferFails, EndTransfer
    <2>2. QED
      BY <1>1, <2>1, TrainOtherSteps DEF Inv
  <1>2. CASE CompileNext /\ UNCHANGED <<trainVars, modelVars, scored>>
    <2>1. /\ phase # "train" /\ phase' # "train" /\ phase # "predicted"
          /\ UNCHANGED writable
      BY <1>2 DEF CompileNext, BeginCompile, ReadRow, SaveChunk, ChunkReady,
         EndCompile, CompileFails, KilledInSave, StopCompile
    <2>2. QED
      BY <1>2, <2>1, TrainOtherSteps DEF Inv
  <1>3. CASE GanNext
    BY <1>3, TrainGanSteps
  <1>4. CASE UNCHANGED vars
    BY <1>4 DEF vars, stashVars, trainVars, modelVars, Inv, TrainInv, ModelInv, FilesAlike,
       FileToCompile
  <1>5. QED
    BY <1>1, <1>2, <1>3, <1>4 DEF Next

\* The inductive invariant, at every state of the pipeline: types, a compilation's
\* progress through the matching rows, the lines of the stash, the files a training
\* has written, and what a prediction made of them.
THEOREM PipelineInvHolds == Spec => [](Inv /\ ScoreInv)
  <1>1. Init => Inv /\ ScoreInv
    <2>1. Init => scored = Unscored
      BY DEF Init, GanInit
    <2>2. QED
      BY <2>1, TypesInitially, TrainInitially, UnscoredHolds DEF Inv
  <1>2. Inv /\ ScoreInv /\ [Next]_vars => (Inv /\ ScoreInv)'
    <2>1. SUFFICES ASSUME Inv, ScoreInv, [Next]_vars PROVE Inv' /\ ScoreInv'
      OBVIOUS
    <2>2. TypeInv' /\ CompileInv' /\ LinesAlike'
      BY <2>1, TypeStep, CompileStep, AlikeStep DEF Inv
    <2>3. TrainInv' /\ ModelInv'
      BY <2>1, TrainStep
    <2>4. ScoreInv'
      BY <2>1, <2>3, ScoreStep
    <2>5. QED
      BY <2>2, <2>3, <2>4 DEF Inv
  <1>3. QED
    BY <1>1, <1>2, PTL DEF Spec

\* Every variable keeps its type, for any results, runs, wordlists, codes and chunk
\* size: no chunk grows past its size, and what is written is lines (DB.cs 222-246).
THEOREM TelemetryTypesHold == Spec => []TelemetryTypeOK
  <1>1. Inv => TelemetryTypeOK
    BY DEF Inv, TypeInv
  <1>2. QED
    BY <1>1, PipelineInvHolds, PTL

\* The lines of a stash that was written to its end differ in the latency only and
\* are never read past their end, for any phrases (message_converter.cpp 24-44).
THEOREM LinesAlikeHolds == Spec => []LinesAlike
  <1>1. Inv => LinesAlike
    BY DEF Inv
  <1>2. QED
    BY <1>1, PipelineInvHolds, PTL

\* A compilation that ends leaves the matrix of its last chunk, for any number of
\* rows and any chunk size (DB.cs 228-244, compiler.cpp 118).
THEOREM LastChunkWinsHolds == Spec => []LastChunkWins
  <1>1. Inv => LastChunkWins
    BY CompileEnds DEF Inv
  <1>2. QED
    BY <1>1, PipelineInvHolds, PTL

\* Only a stash that was cut short makes a training read past the end of a line
\* (Reco_GAN_Training.cpp 200-212).
THEOREM TrainingInBoundsHolds == Spec => []TrainingInBounds
  <1>1. Inv => TrainingInBounds
    BY DEF Inv, TrainInv, TrainingInBounds
  <1>2. QED
    BY <1>1, PipelineInvHolds, PTL

\* A training that ended leaves four files of the same lines, whatever trainings
\* were killed before it (Reco_GAN_Training.cpp 273-292, 334-349).
THEOREM ModelOfOneStashHolds == Spec => []ModelOfOneStash
  <1>1. Inv => ModelOfOneStash
    BY DEF Inv, TrainInv, ModelOfOneStash
  <1>2. QED
    BY <1>1, PipelineInvHolds, PTL

\* A prediction uses a number no file gave only after a training that was cut short,
\* or where files cannot be written (Reco_GAN_Prediction_Module.cpp 199-223).
THEOREM PredictionGroundedHolds == Spec => []PredictionGrounded
  <1>1. ScoreInv => PredictionGrounded
    BY DEF ScoreInv
  <1>2. QED
    BY <1>1, PipelineInvHolds, PTL

\* On files of a whole stash a prediction scores latencies only, for any responses
\* scanned (DB.cs 211-214, Reco_GAN_Prediction_Module.cpp 145-228).
THEOREM OnlyLatencyScoredHolds == Spec => []OnlyLatencyScored
  <1>1. ScoreInv => OnlyLatencyScored
    BY DEF ScoreInv
  <1>2. QED
    BY <1>1, PipelineInvHolds, PTL

----------------------------------------------------------------------------
\* The rows a transfer of the first scan may insert.
FirstRows == {Row(r, w) : r \in Range(FirstFile.results), w \in STRING}

\* Whatever is on its way to a model file is of the first scan.
FirstInv ==
  /\ rows \in Seq(FirstRows) /\ txn \in Seq(FirstRows) /\ stream \in Seq(FirstRows)
  /\ chunk \in Seq(FirstRows) /\ cursor \in Seq(FirstRows)
  /\ ~cut => \A k \in DOMAIN stash : OfFirstScan(stash[k])
  /\ ModelOfFirstScan

\* Without one that is saved the first scan is the same.
LEMMA FirstFileSame ==
  ASSUME files' = files
  PROVE  FirstRows' = FirstRows /\ \A line : OfFirstScan(line)' <=> OfFirstScan(line)
  <1>1. FirstFile' = FirstFile
    BY DEF FirstFile
  <1>2. QED
    BY <1>1 DEF FirstRows, OfFirstScan

\* A scan that is saved does not take the first one's place.
LEMMA FirstFileStays ==
  ASSUME TypeInv, NEW doc \in {Doc(run) : run \in Runs} \cup {Torn},
         files' = files \/ files' = Append(files, doc)
  PROVE  /\ FirstRows \subseteq FirstRows'
         /\ \A line : OfFirstScan(line) => OfFirstScan(line)'
  <1>1. CASE files # <<>>
    <2>1. files'[1] = files[1] /\ files' # <<>>
      <3>1. CASE files' = files
        BY <1>1, <3>1
      <3>2. CASE files' = Append(files, doc)
        <4>1. /\ Len(files) \in Nat /\ 1 \in 1..Len(files) /\ files'[1] = files[1]
              /\ Len(files') = Len(files) + 1
          BY <1>1, <3>2, Elements, AppendProperties DEF TypeInv, TelemetryTypeOK
        <4>2. QED
          BY <4>1, EmptySeq
      <3>3. QED
        BY <3>1, <3>2
    <2>2. FirstFile' = FirstFile
      BY <1>1, <2>1 DEF FirstFile
    <2>3. QED
      BY <2>2 DEF FirstRows, OfFirstScan
  <1>2. CASE files = <<>>
    <2>1. Range(FirstFile.results) = {}
      BY <1>2 DEF FirstFile, Torn, Range
    <2>2. QED
      BY <2>1 DEF FirstRows, OfFirstScan
  <1>3. QED
    BY <1>1, <1>2

\* Sequences of such rows, and what is made of them, outlast a scan that is saved.
LEMMA FirstInvStays ==
  ASSUME TypeInv, FirstInv, NEW doc \in {Doc(run) : run \in Runs} \cup {Torn},
         files' = files \/ files' = Append(files, doc)
  PROVE  /\ \A s : s \in Seq(FirstRows) => s \in Seq(FirstRows')
         /\ UNCHANGED <<cut, stash>> => (~cut => \A k \in DOMAIN stash : OfFirstScan(stash[k]))'
         /\ UNCHANGED model => ModelOfFirstScan'
  <1>1. /\ FirstRows \subseteq FirstRows'
        /\ \A line : OfFirstScan(line) => OfFirstScan(line)'
    BY FirstFileStays
  <1>2. \A s : s \in Seq(FirstRows) => s \in Seq(FirstRows')
    BY <1>1, SeqMonotonic
  <1>3. UNCHANGED <<cut, stash>> => (~cut => \A k \in DOMAIN stash : OfFirstScan(stash[k]))'
    BY <1>1 DEF FirstInv
  <1>4. UNCHANGED model => ModelOfFirstScan'
    BY <1>1 DEF FirstInv, ModelOfFirstScan
  <1>5. QED
    BY <1>2, <1>3, <1>4

\* What a transfer reads is of the first scan.
LEMMA FirstBatch ==
  ASSUME TypeInv, files # <<>>, files[1].whole, NEW words \in Wordlists
  PROVE  FuzzerLogs(files[1].results, words) \in Seq(FirstRows)
  <1> DEFINE run == files[1].results
  <1>1. run \in Runs
    BY FirstRun DEF TypeInv, TelemetryTypeOK
  <1>2. \A r \in Range(run), w \in STRING : Row(r, w) \in FirstRows
    BY DEF FirstRows, FirstFile
  <1> HIDE DEF run
  <1>3. FuzzerLogs(run, words) \in Seq(FirstRows)
    BY <1>1, <1>2, BatchOf
  <1>4. QED
    BY <1>3 DEF run

\* The lines of a chunk of such rows are of the first scan: the latency of the
\* k-th row, the phrase of the first.
LEMMA FirstMatrix ==
  ASSUME TypeInv, ChunkReady, chunk \in Seq(FirstRows)
  PROVE  \A k \in DOMAIN Matrix(chunk) : OfFirstScan(Matrix(chunk)[k])
  <1>1. chunk # <<>> /\ chunk \in Seq(RowsOf(code))
    BY ChunkHasRows DEF TypeInv, RowInv
  <1>2. Matrix(chunk) = [k \in 1..Len(chunk) |->
                           [code |-> ToHex(code), lat |-> chunk[k].lat,
                            tokens |-> chunk[1].phrase]]
    BY <1>1, MatrixAlike
  <1>3. /\ 1 \in 1..Len(chunk)
        /\ \A k \in 1..Len(chunk) : chunk[k] \in FirstRows /\ chunk[k].code = code
    BY <1>1, Elements DEF RowsOf
  <1>4. ASSUME NEW k \in 1..Len(chunk)
        PROVE  OfFirstScan(Matrix(chunk)[k])
    <2>1. PICK timed \in Range(FirstFile.results), w \in STRING : chunk[k] = Row(timed, w)
      BY <1>3 DEF FirstRows
    <2>2. PICK named \in Range(FirstFile.results), v \in STRING : chunk[1] = Row(named, v)
      BY <1>3 DEF FirstRows
    <2>3. timed.code = code /\ chunk[k].lat = timed.lat
      BY <1>3, <2>1 DEF Row
    <2>4. named.code = code /\ chunk[1].phrase = CleanReasonPhrase(named.message)
      BY <1>3, <2>2 DEF Row
    <2>5. Matrix(chunk)[k] = [code |-> ToHex(timed.code), lat |-> timed.lat,
                              tokens |-> CleanReasonPhrase(named.message)]
      BY <1>2, <2>3, <2>4
    <2>6. QED
      BY <2>3, <2>4, <2>5 DEF OfFirstScan
  <1>5. QED
    BY <1>2, <1>4

\* Initially there is nothing.
LEMMA FirstInitially ==
  ASSUME Init
  PROVE  FirstInv
  <1>1. \A S : <<>> \in Seq(S)
    BY EmptySeq
  <1>2. \A i \in 1..4 : model[i].of = <<>>
    BY DEF Init, GanInit, File
  <1>3. stash = <<>> /\ DOMAIN <<>> = {}
    BY DEF Init, CompileInit
  <1>4. QED
    BY <1>1, <1>2, <1>3 DEF Init, StoreInit, CompileInit, FirstInv, ModelOfFirstScan

\* The steps of the store.
LEMMA FirstStoreSteps ==
  ASSUME TypeInv, FirstInv, StoreNext,
         UNCHANGED <<writable, compileVars, stashVars, trainVars, modelVars, scored>>
  PROVE  FirstInv'
  <1> USE DEF compileVars, stashVars, modelVars
  <1>1. ASSUME NEW doc \in {Doc(run) : run \in Runs} \cup {Torn},
               files' = Append(files, doc), UNCHANGED <<rows, stream, txn>>
        PROVE  FirstInv'
    BY <1>1, FirstInvStays DEF FirstInv
  <1>2. CASE WriteToJson \/ KilledInWrite
    BY <1>1, <1>2 DEF WriteToJson, KilledInWrite
  <1>3. ASSUME files' = files
        PROVE  /\ FirstRows' = FirstRows /\ ModelOfFirstScan'
               /\ (~cut => \A k \in DOMAIN stash : OfFirstScan(stash[k]))'
               /\ chunk' \in Seq(FirstRows) /\ cursor' \in Seq(FirstRows)
    <2>1. FirstRows' = FirstRows /\ \A line : OfFirstScan(line)' <=> OfFirstScan(line)
      BY <1>3, FirstFileSame
    <2>2. UNCHANGED <<stash, cut, model, chunk, cursor>>
      OBVIOUS
    <2>3. QED
      BY <2>1, <2>2 DEF FirstInv, ModelOfFirstScan
  <1>4. ASSUME files' = files, rows' \in Seq(FirstRows), txn' \in Seq(FirstRows),
               stream' \in Seq(FirstRows)
        PROVE  FirstInv'
    BY <1>3, <1>4 DEF FirstInv
  <1>5. /\ \A S : <<>> \in Seq(S)
        /\ rows \in Seq(FirstRows) /\ txn \in Seq(FirstRows) /\ stream \in Seq(FirstRows)
    BY EmptySeq DEF FirstInv
  <1>6. CASE BeginTransfer
    <2>1. stream' \in Seq(FirstRows)
      BY <1>5, <1>6, FirstBatch DEF BeginTransfer
    <2>2. QED
      BY <1>4, <1>5, <1>6, <2>1 DEF BeginTransfer
  <1>7. CASE TransferUnreadable
    BY <1>4, <1>5, <1>7 DEF TransferUnreadable
  <1>8. CASE InsertLog
    <2>1. Head(stream) \in FirstRows /\ Tail(stream) \in Seq(FirstRows)
      BY <1>5, <1>8, HeadTailProperties DEF InsertLog
    <2>2. Append(txn, Head(stream)) \in Seq(FirstRows)
      BY <1>5, <2>1, AppendProperties
    <2>3. QED
      BY <1>4, <1>5, <1>8, <2>1, <2>2 DEF InsertLog
  <1>9. CASE CommitLogs
    <2>1. rows \o txn \in Seq(FirstRows)
      BY <1>5, ConcatProperties
    <2>2. QED
      BY <1>4, <1>5, <1>9, <2>1 DEF CommitLogs, EndTransfer
  <1>10. CASE TransferFails
    BY <1>4, <1>5, <1>10 DEF TransferFails, EndTransfer
  <1>11. QED
    BY <1>2, <1>6, <1>7, <1>8, <1>9, <1>10 DEF StoreNext

\* The steps of a compilation.
LEMMA FirstCompileSteps ==
  ASSUME TypeInv, FirstInv, CompileNext, UNCHANGED <<trainVars, modelVars, scored>>
  PROVE  FirstInv'
  <1>1. UNCHANGED <<files, rows, stream, txn, model>>
    BY DEF CompileNext, BeginCompile, ReadRow, SaveChunk, EndCompile, CompileFails,
           KilledInSave, StopCompile, storeVars, modelVars
  <1>3. FirstRows' = FirstRows /\ \A line : OfFirstScan(line)' <=> OfFirstScan(line)
    BY <1>1, FirstFileSame
  <1>4. ModelOfFirstScan'
    BY <1>1, <1>3 DEF FirstInv, ModelOfFirstScan
  <1>5. /\ \A S : <<>> \in Seq(S)
        /\ rows \in Seq(FirstRows) /\ txn \in Seq(FirstRows) /\ stream \in Seq(FirstRows)
        /\ chunk \in Seq(FirstRows) /\ cursor \in Seq(FirstRows)
    BY EmptySeq DEF FirstInv
  <1>6. ASSUME chunk' \in Seq(FirstRows), cursor' \in Seq(FirstRows),
               ~cut' => \A k \in DOMAIN stash' : OfFirstScan(stash'[k])
        PROVE  FirstInv'
    BY <1>1, <1>3, <1>4, <1>5, <1>6 DEF FirstInv
  <1>7. UNCHANGED <<stash, cut>> => (~cut' => \A k \in DOMAIN stash' : OfFirstScan(stash'[k]))
    BY DEF FirstInv
  <1>8. CASE BeginCompile
    <2>1. Matching(code') \in Seq(FirstRows)
      <3> DEFINE S == {rows[i] : i \in {j \in DOMAIN rows : rows[j].code = code'}}
      <3>1. Kept(rows, S) \in Seq(FirstRows \cap S)
        BY <1>5, KeptIsSeq
      <3> HIDE DEF S
      <3>2. Kept(rows, S) \in Seq(FirstRows)
        BY <3>1, SeqMonotonic
      <3>3. QED
        BY <3>2 DEF Matching, S
    <2>2. QED
      BY <1>5, <1>6, <1>7, <1>8, <2>1 DEF BeginCompile, stashVars
  <1>9. CASE ReadRow
    <2>1. Head(cursor) \in FirstRows /\ Tail(cursor) \in Seq(FirstRows)
      BY <1>5, <1>9, HeadTailProperties DEF ReadRow
    <2>2. Append(chunk, Head(cursor)) \in Seq(FirstRows)
      BY <1>5, <2>1, AppendProperties
    <2>3. QED
      BY <1>6, <1>7, <1>9, <2>1, <2>2 DEF ReadRow, stashVars
  <1>10. CASE SaveChunk
    <2>1. chunk' = <<>> /\ cursor' = cursor /\ ChunkReady
      BY <1>10 DEF SaveChunk
    <2>2. CASE writable
      <3>1. stash' = Matrix(chunk)
        BY <1>10, <2>2 DEF SaveChunk
      <3>2. QED
        BY <1>5, <1>6, <2>1, <3>1, FirstMatrix
    <2>3. CASE ~writable
      BY <1>5, <1>6, <1>7, <1>10, <2>1, <2>3 DEF SaveChunk
    <2>4. QED
      BY <2>2, <2>3
  <1>11. CASE EndCompile \/ CompileFails
    BY <1>5, <1>6, <1>7, <1>11 DEF EndCompile, CompileFails, StopCompile, stashVars
  <1>12. CASE KilledInSave
    BY <1>5, <1>6, <1>12 DEF KilledInSave, StopCompile
  <1>13. QED
    BY <1>8, <1>9, <1>10, <1>11, <1>12 DEF CompileNext

\* The steps of trainings and predictions.
LEMMA FirstGanSteps ==
  ASSUME Inv, FirstInv, GanNext
  PROVE  FirstInv'
  <1>1. UNCHANGED <<files, rows, stream, txn, chunk, cursor, stash, cut>>
    BY DEF GanNext, BeginTraining, WriteModel, EndTraining, KilledInTraining,
           StopTraining, Predict, EndPrediction, storeVars, compileVars, stashVars
  <1>3. FirstRows' = FirstRows /\ \A line : OfFirstScan(line)' <=> OfFirstScan(line)
    BY <1>1, FirstFileSame
  <1>4. ASSUME \A i \in 1..4 : ~model'[i].cut =>
                 \A k \in DOMAIN model'[i].of : OfFirstScan(model'[i].of[k])
        PROVE  FirstInv'
    BY <1>1, <1>3, <1>4 DEF FirstInv, ModelOfFirstScan
  <1>5. ASSUME UNCHANGED model
        PROVE  FirstInv'
    BY <1>4, <1>5 DEF FirstInv, ModelOfFirstScan
  <1>6. ASSUME NEW f, ~f.cut => \A k \in DOMAIN f.of : OfFirstScan(f.of[k]),
               model' = [model EXCEPT ![step] = f]
        PROVE  FirstInv'
    <2>1. \A i \in 1..4 : model'[i] = f \/ model'[i] = model[i]
      BY <1>6 DEF Inv, TypeInv, TelemetryTypeOK
    <2>2. QED
      BY <1>4, <1>6, <2>1 DEF FirstInv, ModelOfFirstScan
  <1>7. CASE WriteModel
    <2>1. CASE writable
      <3>1. Computed.of = FileToCompile /\ Computed.cut = (plain /\ cut)
        BY <1>7 DEF WriteModel, Inv, TrainInv, Computed, File
      <3>2. ~(plain /\ cut) => \A k \in DOMAIN FileToCompile : OfFirstScan(FileToCompile[k])
        <4>1. DOMAIN <<>> = {}
          OBVIOUS
        <4>2. QED
          BY <4>1 DEF FileToCompile, FirstInv
      <3>3. model' = [model EXCEPT ![step] = Computed]
        BY <1>7, <2>1 DEF WriteModel
      <3>4. QED
        BY <1>6, <3>1, <3>2, <3>3
    <2>2. CASE ~writable
      BY <1>5, <1>7, <2>2 DEF WriteModel
    <2>3. QED
      BY <2>1, <2>2
  <1>8. CASE KilledInTraining
    <2>1. \A k \in DOMAIN File("cut", <<>>, FALSE).of :
            OfFirstScan(File("cut", <<>>, FALSE).of[k])
      BY DEF File
    <2>2. QED
      BY <1>5, <1>6, <1>8, <2>1 DEF KilledInTraining
  <1>9. CASE BeginTraining \/ EndTraining \/ Predict \/ EndPrediction
    BY <1>5, <1>9 DEF BeginTraining, EndTraining, Predict, EndPrediction, modelVars
  <1>10. QED
    BY <1>7, <1>8, <1>9 DEF GanNext

\* No line of a model file is of a later scan, except from a stash that was cut
\* short, for any scans, wordlists and number of transfers (FileWires.cs 106-117,
\* CompilerToDB.cs 43-56).
THEOREM ModelOfFirstScanHolds == Spec => []ModelOfFirstScan
  <1>1. Init => FirstInv
    BY FirstInitially
  <1>2. Inv /\ FirstInv /\ [Next]_vars => FirstInv'
    <2>1. SUFFICES ASSUME Inv, FirstInv, [Next]_vars PROVE FirstInv'
      OBVIOUS
    <2>2. CASE UNCHANGED vars
      <3>1. UNCHANGED <<files, rows, txn, stream, chunk, cursor, cut, stash, model>>
        BY <2>2 DEF vars, storeVars, compileVars, stashVars, modelVars
      <3>2. FirstRows' = FirstRows /\ \A line : OfFirstScan(line)' <=> OfFirstScan(line)
        BY <3>1, FirstFileSame
      <3>3. QED
        BY <2>1, <3>1, <3>2 DEF FirstInv, ModelOfFirstScan
    <2>3. QED
      BY <2>1, <2>2, FirstStoreSteps, FirstCompileSteps, FirstGanSteps DEF Inv, Next
  <1>3. FirstInv => ModelOfFirstScan
    BY DEF FirstInv
  <1>4. QED
    BY <1>1, <1>2, <1>3, PipelineInvHolds, PTL DEF Spec
=============================================================================
