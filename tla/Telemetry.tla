----------------------------- MODULE Telemetry -----------------------------
(***************************************************************************)
(* The telemetry pipeline: saved scans, database, stash, model.  Commands  *)
(* come in any order, and any of them may be cut short.                    *)
(***************************************************************************)
EXTENDS GanModel

Init == StoreInit /\ CompileInit /\ GanInit

Next ==
  \/ /\ StoreNext
     /\ UNCHANGED <<writable, compileVars, stashVars, trainVars, modelVars, scored>>
  \/ /\ CompileNext
     /\ UNCHANGED <<trainVars, modelVars, scored>>
  \/ GanNext

Spec == Init /\ [][Next]_vars

----------------------------------------------------------------------------
\* A line of a stash: each token stands for one of a phrase, or is what a kill
\* has left of one.
Tokens == STRING \cup {Garbled}
Lines  == [code : Nat, lat : Nat, tokens : Seq(Tokens)]

\* Every variable has its type.
TelemetryTypeOK ==
  /\ phase \in {"idle", "transfer", "compile", "train", "predicted"}
  /\ files \in Seq({Doc(run) : run \in Runs} \cup {Torn}) /\ table \in BOOLEAN
  /\ Len(chunk) <= ChunkSize /\ cmd \in {"none", "status", "latency"}
  /\ code \in Codes \cup {0}
  /\ stash \in Seq(Lines) /\ cut \in BOOLEAN
  /\ writable \in BOOLEAN /\ plain \in BOOLEAN
  /\ data \in Seq(Lines) /\ wild \in BOOLEAN /\ step \in 1..5
  /\ model \in [1..4 -> [state : {"none", "cut", "wild", "whole"}, of : Seq(Lines),
                       cut : BOOLEAN]]
  /\ last \in {"never", "done", "killed"}
  /\ scored \in [code : BOOLEAN, lat : BOOLEAN, token : BOOLEAN, guess : BOOLEAN]

\* The lines of a stash that was written to its end differ in nothing but the
\* latency, whatever phrases the compiled rows have, and no line is read past
\* its end while it is written (message_converter.cpp 24-44, compiler.cpp
\* 132-143): the phrases pile up, so each line starts with the first one.
LinesAlike ==
  ~cut => \A i, j \in DOMAIN stash :
            /\ stash[i].code = stash[j].code
            /\ stash[i].tokens = stash[j].tokens
            /\ \A k \in DOMAIN stash[i].tokens : stash[i].tokens[k] # Missing

LastChunk(records) ==
  SubSeq(records, ChunkSize * ((Len(records) - 1) \div ChunkSize) + 1, Len(records))

\* A compilation that ends leaves the matrix of its last chunk, and only that,
\* in the stash: each chunk writes over the one before (DB.cs 228-244,
\* compiler.cpp 118).
LastChunkWins ==
  phase = "compile" /\ cursor = <<>> /\ chunk = <<>> /\ writable /\ Matching(code) # <<>>
    => stash = Matrix(LastChunk(Matching(code)))

\* A training reads past the end of a line of tokens only on a stash whose
\* write was cut short (Reco_GAN_Training.cpp 200-212).
TrainingInBounds == wild => cut

\* After a training that ended, the four files come from the same lines, also
\* when these had no tokens to write (Reco_GAN_Training.cpp 273-292, 334-349).
ModelOfOneStash ==
  last = "done" /\ phase # "train" =>
    \A i, j \in 1..4 : model[i].of = model[j].of

\* A prediction uses a number no file gave only if no training has ended since
\* the last one was cut short, or if the files cannot be written.
PredictionGrounded ==
  scored.guess => ~writable \/ last # "done"

\* On files computed from a stash that was written to its end, a prediction
\* scores latencies only: status codes and tokens never deviate, whatever the
\* stash of the day (DB.cs 211-214, Reco_GAN_Prediction_Module.cpp 145-228).
OnlyLatencyScored ==
  /\ scored.code => model[1].state # "whole" \/ model[1].cut
  /\ scored.token => model[3].state # "whole" \/ model[3].cut

FirstFile == IF files = <<>> THEN Torn ELSE files[1]

\* The line has the status code and the latency of one result of the first scan
\* saved and the phrase of one with that status code.
OfFirstScan(line) ==
  \E timed, named \in Range(FirstFile.results) :
    /\ timed.code = named.code
    /\ line = [code   |-> ToHex(timed.code),
               lat    |-> timed.lat,
               tokens |-> CleanReasonPhrase(named.message)]

\* No later scan reaches the model, however often scans are saved, transferred,
\* compiled and trained on: each is saved under a name of its own, and a
\* transfer reads the configured one (FileWires.cs 106-117, CompilerToDB.cs 43-56).
\* Except on a stash whose write was cut short, each line is of the first scan.
ModelOfFirstScan ==
  \A i \in 1..4 : ~model[i].cut =>
    \A k \in DOMAIN model[i].of : OfFirstScan(model[i].of[k])

Log == INSTANCE ResultLog WITH Batch <- FuzzerLogs, first <- FirstFile, log <- rows

\* The database grows by whole batches of the first scan saved.
KeepsLogPromise == Log!Spec

----------------------------------------------------------------------------
\* Reco_Shell_Commands_Registry.cs 122: "Compile DB filtered by latency".
LatencyFiltered ==
  cmd = "latency" => \A i, j \in DOMAIN chunk : chunk[i].lat = chunk[j].lat
=============================================================================
