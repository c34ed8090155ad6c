--------------------------- MODULE StashCompiler ---------------------------
(***************************************************************************)
(* The telemetry compiler: StatusCodeFilter (DB.cs) yields the rows of one *)
(* status code in chunks, and each chunk is compiled to a matrix that is   *)
(* written over the domain's stash file (Reco_novich/Compiler.cs,          *)
(* Compiler/compiler.cpp, Compiler/message_converter.cpp).                 *)
(***************************************************************************)
EXTENDS ResultStore, StatusCodes

CONSTANTS
  Codes,      \* status codes the extended options may name
  ChunkSize   \* records of a chunk (1000)

\* A token that no row has, and one whose digits were cut short.
Missing == "missing"
Garbled == "garbled"

ASSUME CompilerAssumption ==
  /\ Codes \subseteq Nat /\ ChunkSize \in Nat \ {0}
  /\ \A r \in Results : \A i \in DOMAIN r.message : r.message[i] # Missing

VARIABLES
  writable,  \* the data directories can be made and written
  cmd,       \* the compile command given: "status", "latency" or "none"
  code,      \* the status code it filters by
  cursor,    \* matching rows not read yet
  chunk,     \* currentChunk
  stash,     \* the lines of the stash file; <<>> also when there is none
  cut,       \* the last write of the stash was cut short
  plain      \* the target has neither a scheme nor slashes around it, which the
             \* name of the stash drops and whoever reads the stash does not

compileVars == <<cmd, code, cursor, chunk>>
stashVars   == <<stash, cut, plain>>

Matching(status) ==
  Kept(rows, {rows[i] : i \in {j \in DOMAIN rows : rows[j].code = status}})

\* Mutant: compiled_vector is emptied for each phrase.
CompilePhrase(packet, k) == packet[k].phrase

\* CompileBatch: compiled_vector is never emptied, so the k-th row holds the
\* phrases of the first k records.
CompileBatch(packet, k) == FlattenSeq([i \in 1..k |-> packet[i].phrase])

\* Synthesize, and save_file's loop: each row is written to the width of the
\* first, reading past the end of one that is shorter.
Matrix(packet) ==
  LET width == Len(packet[1].phrase)
      Token(k, j) == LET row == CompileBatch(packet, k)
                     IN IF j <= Len(row) THEN row[j] ELSE Missing
  IN [k \in DOMAIN packet |->
        [code   |-> ToHex(packet[k].code),
         lat    |-> packet[k].lat,
         tokens |-> [j \in 1..width |-> Token(k, j)]]]

\* What a kill may leave of a line that is read again (one without a latency is
\* not): its first tokens, the last one garbled, or a latency of fewer digits.
CutLines(line) ==
  {[line EXCEPT !.lat = 0, !.tokens = <<>>]}
    \cup {[line EXCEPT !.tokens = SubSeq(line.tokens, 1, n)] : n \in 0..Len(line.tokens)}
    \cup {[line EXCEPT !.tokens = Append(SubSeq(line.tokens, 1, n - 1), Garbled)] :
            n \in 1..Len(line.tokens)}

\* What a kill may leave of the file: its first lines, the last one cut.
CutFiles(lines) ==
  {SubSeq(lines, 1, n) : n \in 0..Len(lines)}
    \cup UNION {{Append(SubSeq(lines, 1, n - 1), l) : l \in CutLines(lines[n])} :
                  n \in 1..Len(lines)}

CompileInit ==
  /\ writable \in BOOLEAN /\ plain \in BOOLEAN
  /\ cmd = "none" /\ code = 0 /\ cursor = <<>> /\ chunk = <<>>
  /\ stash = <<>> /\ cut = FALSE

----------------------------------------------------------------------------
\* Mutant: the query has no WHERE.
BeginCompileAll ==
  /\ phase = "idle" /\ phase' = "compile"
  /\ table
  /\ cmd' \in {"status", "latency"}
  /\ code' \in Codes
  /\ cursor' = rows
  /\ UNCHANGED <<kills, storeVars, writable, chunk, stashVars>>

\* Both compile commands of the shell call StatusCodeBasedFilterCompile;
\* without the table the query throws and nothing happens.
BeginCompile ==
  /\ phase = "idle" /\ phase' = "compile"
  /\ table
  /\ cmd' \in {"status", "latency"}
  /\ code' \in Codes
  /\ cursor' = Matching(code')
  /\ UNCHANGED <<kills, storeVars, writable, chunk, stashVars>>

\* Mutant: a chunk is full when it is larger than chunkSize.
ReadRowPastFull ==
  /\ phase = "compile"
  /\ cursor # <<>> /\ Len(chunk) <= ChunkSize
  /\ chunk' = Append(chunk, Head(cursor))
  /\ cursor' = Tail(cursor)
  /\ UNCHANGED <<kills, phase, storeVars, writable, cmd, code, stashVars>>

\* The next matching row joins the chunk.
ReadRow ==
  /\ phase = "compile"
  /\ cursor # <<>> /\ Len(chunk) < ChunkSize
  /\ chunk' = Append(chunk, Head(cursor))
  /\ cursor' = Tail(cursor)
  /\ UNCHANGED <<kills, phase, storeVars, writable, cmd, code, stashVars>>

\* The chunk is full, or what remains of the last one.
ChunkReady ==
  /\ phase = "compile"
  /\ \/ Len(chunk) >= ChunkSize
     \/ cursor = <<>> /\ chunk # <<>>

\* Mutant: the stash is opened in append mode.
SaveAppends ==
  /\ ChunkReady
  /\ chunk' = <<>>
  /\ IF writable THEN stash' = stash \o Matrix(chunk) /\ cut' = FALSE
                 ELSE UNCHANGED <<stash, cut>>
  /\ UNCHANGED <<kills, phase, storeVars, writable, plain, cmd, code, cursor>>

\* CompileAndSave: the stash is truncated and written, unless it cannot be
\* opened, which is only printed.
SaveChunk ==
  /\ ChunkReady
  /\ chunk' = <<>>
  /\ IF writable THEN stash' = Matrix(chunk) /\ cut' = FALSE
                 ELSE UNCHANGED <<stash, cut>>
  /\ UNCHANGED <<kills, phase, storeVars, writable, plain, cmd, code, cursor>>

StopCompile ==
  /\ phase' = "idle"
  /\ cmd' = "none" /\ code' = 0 /\ cursor' = <<>> /\ chunk' = <<>>
  /\ UNCHANGED <<storeVars, writable>>

EndCompile ==
  /\ phase = "compile"
  /\ cursor = <<>> /\ chunk = <<>>
  /\ StopCompile
  /\ UNCHANGED <<kills, stashVars>>

\* The process dies between two saves, or the query fails.
CompileFails ==
  /\ phase = "compile"
  /\ StopCompile
  /\ UNCHANGED <<kills, stashVars>>

\* The process dies in save_file.
KilledInSave ==
  /\ ChunkReady /\ writable
  /\ Kill
  /\ stash' \in CutFiles(Matrix(chunk))
  /\ cut' = TRUE
  /\ UNCHANGED plain
  /\ StopCompile

CompileNext == \/ BeginCompile \/ ReadRow \/ SaveChunk \/ EndCompile
               \/ CompileFails \/ KilledInSave
=============================================================================
