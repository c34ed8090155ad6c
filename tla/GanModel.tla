------------------------------ MODULE GanModel ------------------------------
(***************************************************************************)
(* Reco_GAN: a training turns the stash into four model files, one after   *)
(* the other (Reco_GAN_Training.cpp); a prediction scores the stash of the *)
(* day against whatever those files hold (Reco_GAN_Module.cpp,             *)
(* Reco_GAN_Prediction_Module.cpp).                                        *)
(*                                                                         *)
(* A mean and a deviation are functions of the lines they were taken from, *)
(* so a file is those lines, and what matters of a deviation is whether it *)
(* is 0: whether the lines differ.                                         *)
(***************************************************************************)
EXTENDS StashCompiler

VARIABLES
  data,    \* the lines a training has read
  wild,    \* it has read past the end of a line of tokens
  step,    \* the model file it writes next
  model,   \* the model files: 1 mean and deviation of code and latency,
           \* 2 their thresholds, 3 mean and deviation of the tokens, 4 theirs
  last,    \* how the last training ended: "never", "done" or "killed"
  scored   \* what the prediction in progress makes of the stash

trainVars == <<data, wild, step>>
modelVars == <<model, last>>
vars == <<kills, phase, storeVars, writable, compileVars, stashVars, trainVars, modelVars,
          scored>>

\* "none": there is no file; "cut": its write was cut short; "wild": computed
\* from memory past the end of a line; "whole": computed from the lines of, as
\* they were in a stash that may itself have been cut.
File(state, of, short) == [state |-> state, of |-> of, cut |-> short]

\* The standard deviation of a sequence of values is not 0.
Differ(values) == \E i, j \in DOMAIN values : values[i] # values[j]

CodesDiffer(lines)     == Differ([i \in DOMAIN lines |-> lines[i].code])
LatenciesDiffer(lines) == Differ([i \in DOMAIN lines |-> lines[i].lat])

\* Deviation of column j of the tokens is not 0.
TokensDiffer(lines, j) == Differ([i \in DOMAIN lines |-> lines[i].tokens[j]])

Width(lines) == IF lines = <<>> THEN 0 ELSE Len(lines[1].tokens)

\* mean_stddev_char_tokens_calc reads every line to the width of the first.
Ragged(lines) == \E i \in DOMAIN lines : Len(lines[i].tokens) < Width(lines)

Unscored == [code |-> FALSE, lat |-> FALSE, token |-> FALSE, guess |-> FALSE]

GanInit ==
  /\ data = <<>> /\ wild = FALSE /\ step = 1
  /\ model = [i \in 1..4 |-> File("none", <<>>, FALSE)]
  /\ last = "never"
  /\ scored = Unscored

----------------------------------------------------------------------------
\* FileToCompile reads the stash, or nothing if there is none under the name the
\* target has as it was given.
FileToCompile == IF plain THEN stash ELSE <<>>

BeginTraining ==
  /\ phase = "idle" /\ phase' = "train"
  /\ data' = FileToCompile
  /\ wild' = Ragged(FileToCompile)
  /\ step' = 1
  /\ UNCHANGED <<storeVars, writable, compileVars, stashVars, modelVars, scored, kills>>

\* What the next file is computed from; no write intervenes, so the stash still
\* is the one that was read.
Computed == File(IF wild /\ step >= 3 THEN "wild" ELSE "whole", data, plain /\ cut)

\* Mutant: a training with no data writes nothing.
WriteModelIfAny ==
  /\ phase = "train" /\ step <= 4
  /\ step' = step + 1
  /\ model' = IF writable /\ data # <<>> THEN [model EXCEPT ![step] = Computed] ELSE model
  /\ UNCHANGED <<kills, phase, storeVars, writable, compileVars, stashVars, data, wild,
                 last, scored>>

\* Mutant: the emptiness check comes before the file is opened.
WriteModelUnlessEmpty ==
  /\ phase = "train" /\ step <= 4
  /\ step' = step + 1
  /\ model' = IF writable /\ (step >= 3 => Width(data) > 0)
              THEN [model EXCEPT ![step] = Computed]
              ELSE model
  /\ UNCHANGED <<kills, phase, storeVars, writable, compileVars, stashVars, data, wild,
                 last, scored>>

\* The next file is truncated and written, empty if there is nothing to write;
\* one that cannot be opened is only printed.
WriteModel ==
  /\ phase = "train" /\ step <= 4
  /\ step' = step + 1
  /\ model' = IF writable
              THEN [model EXCEPT ![step] = Computed]
              ELSE model
  /\ UNCHANGED <<kills, phase, storeVars, writable, compileVars, stashVars, data, wild,
                 last, scored>>

StopTraining(how) ==
  /\ phase' = "idle"
  /\ data' = <<>> /\ wild' = FALSE /\ step' = 1
  /\ last' = how
  /\ UNCHANGED <<storeVars, writable, compileVars, stashVars, scored>>

EndTraining ==
  /\ phase = "train" /\ step > 4
  /\ StopTraining("done")
  /\ UNCHANGED <<kills, model>>

\* The process dies, at the latest in the write of the last file; reading past
\* the end of a line may be what kills it.
KilledInTraining ==
  /\ phase = "train" /\ step <= 4
  /\ StopTraining("killed")
  /\ Kill
  /\ \/ model' = model
     \/ writable /\ model' = [model EXCEPT ![step] = File("cut", <<>>, FALSE)]

\* The deviation a file gives: what its lines give; what the cut file or the
\* uninitialised struct happens to give.
Deviates(i, difference) ==
  IF model[i].state = "whole" THEN {difference} ELSE BOOLEAN

\* The columns that are scored: those of the stash the token file knows.
ScoredColumns ==
  1..Min({Width(FileToCompile), Width(model[3].of)})

TokenScores ==
  CASE model[3].state = "none"  -> {FALSE}
    [] model[3].state = "whole" -> {\E j \in ScoredColumns : TokensDiffer(model[3].of, j)}
    [] OTHER                    -> BOOLEAN

\* predict: which features get scores other than 0, and whether a mean, a
\* deviation or a threshold was used that no file gave. A latency's deviation may
\* be too small for the four decimals it is saved with; those of the other
\* features never are.
Predict ==
  /\ phase = "idle" /\ phase' = "predicted"
  /\ scored' \in
       [code  : {FileToCompile # <<>> /\ d : d \in Deviates(1, CodesDiffer(model[1].of))},
        lat   : {FileToCompile # <<>> /\ d :
                   d \in {FALSE} \cup Deviates(1, LatenciesDiffer(model[1].of))},
        token : TokenScores,
        guess : {FileToCompile # <<>> /\ \E i \in {1, 2} : model[i].state # "whole"}]
  /\ UNCHANGED <<storeVars, writable, compileVars, stashVars, trainVars, modelVars, kills>>

\* The scores have been printed; nothing keeps them.
EndPrediction ==
  /\ phase = "predicted" /\ phase' = "idle"
  /\ scored' = Unscored
  /\ UNCHANGED <<storeVars, writable, compileVars, stashVars, trainVars, modelVars, kills>>

GanNext == \/ BeginTraining \/ WriteModel \/ EndTraining \/ KilledInTraining
           \/ Predict \/ EndPrediction
=============================================================================
