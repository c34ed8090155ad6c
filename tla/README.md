# ReconSage_CLI: TLA+ models, checks and proofs

ReconSage_CLI is an interactive shell (C#) over a native library (C++). It sends a
wordlist of HTTP requests to a target, directly or through Tor, an HTTP proxy or a
SOCKS5 proxy, saves the answers as JSON, moves them into a SQLite database, compiles
them to numbers and trains and queries statistical models on them. These modules
specify that behaviour as the code in `src/` has it; `PROJECT.json` maps each
definition to the lines it stands for.

## The system

| Part | State it keeps | Operations | Interacts with |
|---|---|---|---|
| Shell, registry, session (`ReconSageShell.cs`, `Reco_Shell/`) | loaded configurations, one `CancellationTokenSource` | load, one command at a time, exceptions printed | everything below, by call |
| Batch loop (`RecoFunctIntegration/ScanFunc.cs`) | result list | one `SendAsync` per word, save at the end | a scan wrapper, result files |
| Scan wrappers (`Fingerprinter/`, `Tor/`, `Proxy_Module/`) | native engine handle, cancel flag, token registration | delay, check, P/Invoke call, copy, destroy | native scans, the token's callback |
| Native scans (`ScanModule/`, `TorScan/`, `Proxy_Scanning/`) | descriptor, SSL handle, result struct | tunnel, TLS, exchange, retry, release | kernel, OpenSSL, proxies, Tor control port |
| HTTP exchange (`interface_scan_module.cpp`) | bytes read | write, read until the header end | the scan's descriptor and handle, by reference |
| SOCKS5 tunnel (`SocksModule.cpp`), CONNECT tunnel (`Proxy_Scan.cpp`) | descriptor, reply buffers | handshake | proxy |
| DNS resolvers (`ReconDNS/`) | socket, query id | one query, one answer | DNS server |
| Body capture (`Response_Body_capture/`, `Capture.cs`) | body buffer | request, growing read | Tor or a proxy |
| Result files (`Wire/FileWires.cs`) | JSON and text files | write under a free name, stream back | batch loop, transfer |
| Database (`DB_Controller/DB.cs`) | table RequestLogs | create, insert in one transaction, select in chunks | transfer, compiler, forest |
| Telemetry compiler (`Compiler/`, `Reco_novich/`) | stash file of the domain | chunk to matrix, overwrite | database, Reco_GAN |
| Reco_GAN (`Reco_GAN/`) | four model files | train, predict | stash |
| Isolation forest, soft-404, WAF catcher (`Reco_GAN_Adv_Trees/`) | forest file | train, score | database, body file |
| Parsers (`parser.cpp`, `rso_parser.cpp`, `rxo_parser.cpp`) | none | text to struct | session |

What is hard here: a cancellation that arrives between any two steps of a request and
crosses from managed to native code; descriptors and SSL handles that several exits
release, some twice and some never, in a process whose other threads use the same
descriptor table; peers that answer in pieces, stop answering or close; waits without a
timeout; structs that no statement initialises; commands that read what an earlier one,
perhaps cut short, has left on disk; configurations replaced between two commands whose
files depend on each other; a recursion over random cuts whose result is written,
reloaded and walked by other code. What makes each part correct is stated as the
properties below and listed per hazard in `PROJECT.json`.

## Modules

Scans, the core:

- `ScanBase`: the shared state (configuration, position of the scan thread, token and
  flag, engine, descriptor table, SSL handle, result), the batch loop, the HTTP exchange
  and the environment (`Cancel`, `OtherOpens`, `OtherCloses`).
- `DirectScan`, `TorScan`, `ProxyScans`: one action per step of each wrapper and native
  scan. Every native early return is an action of its own or a named alternative.
- `ScanSystem`: their composition, the specification and the properties.
- `ScanBatch`: what a batch promises, abstractly. `ScanSystem` implements it under the
  mapping `Phase`, `reported`, `token`, and `drawn` for a delay a wait can be drawn from.

The SOCKS5 handshake, one level below the `Tunnel` steps of the scans:

- `SockTunnel`: `SockTunnel()` and the proxy's byte stream; a byte is its position in
  what the proxy sends, so that a misread byte is visible as a wrong position.
- `Dial`: what the scans assume of a tunnel. `SockTunnel` implements it.

The telemetry pipeline:

- `ResultStore` (files, transfer, database), `StatusCodes` and `StashCompiler`
  (compilation), `GanModel` (training, prediction), composed by `Telemetry`.
- `ResultLog`: what the database promises, abstractly. `Telemetry` implements it.

The session and its configurations:

- `ConfigFile`: the three parsers, line by line, and what the loaders leave in the
  session.
- `Session`: the commands of the shell over those configurations: scan, transfer, train,
  predict, catch. It says which target, file, key and size each command takes from which
  configuration; what happens inside a command is the business of the other modules.

The isolation forest:

- `IsoForest`: training call by call, the forest file, a write cut short, the reload and
  the walk of a prediction.

The capture of bodies and what reads it:

- `BodyReport`: pure operators. The text report as it is written, the reader of the
  soft-404 catcher, the signature test and the lines the WAF catcher prints.
- `BodyCapture`: the batch of `ScanFunc.cs`, the engine with its DNS lookup, the native
  scan with its early returns, the report on disk and the WAF command. It EXTENDS
  `BodyReport`.

How state corresponds to code: `pc` is the statement the scan thread is at; `cancelFlag`
is the managed local of a wrapper, `nflag` what `*cancel_flag` yields in native code;
`fds` is the kernel's table with the owner of each descriptor; `ssl` is `live`, `null`,
`freed` or `wild` (the member that the proxy scans' constructors do not set). A header
block is one of the classes its readers tell apart: a good status, 404, a bad status, a
block without a status line, none. `conf.delay` is the configured delay as
`Next(Delay, Delay * factor)` meets it: `drawn` (a number is drawn), `wrapped` (the
product overflows below the delay and `Next` throws), `unset` (the memory of a field that
no line set: it may draw a number, throw, ask for a wait that `Task.Delay` refuses, or one
that never ends). In the pipeline a row keeps its code, latency and
phrase; a model file is the lines it was computed from, since what a prediction makes of
it depends only on whether those lines differ. `plain` says whether the configured target
is the name its stash has: a compilation strips scheme and slashes from it, a training
and a prediction do not, and so find no stash for a target with either.

In `ConfigFile`, `draft` is the struct a parser fills, `model` the three models of the
session, `from` (history) the file each came from; a value is what the validators tell
apart: its length, its form, the number at its front. In `IsoForest`, `stack` holds the
calls of `buildTreeRecursive` still to make, next one first, `tree` is the vector of
nodes, and `grown` (history) remembers for each node its bucket, its depth and the cut
point that was drawn, before it was stored as an int. A double is a number of steps of
size 1/`Unit`. In `BodyCapture`, `data` is the struct the native scan returns, `answer`
what the peer sends, `lines` how many lines of its body have come, `disk` the reports
and `saved` (history) the records of every report that was written whole. A line
of a body is what its readers tell apart: blank, a row of dashes, a signature of an error
page, a quoted status line, a quoted `HTTP/` with no three digits after it (quote -1). An
answer's `via` is the same for its header: 0, or what another header with an `HTTP/` in
it leaves of the status.

Undefined behaviour is a choice of outcomes: entering OpenSSL through a handle that is
not live may kill the process or be tolerated; an uninitialised byte is any byte; a
struct that was not initialised is `garbage`; a model file that was cut, or a struct it
left unset, yields any deviation. A training that reads past the end of a line writes
some numbers or dies. A field of a configuration that no line set is any of `Garbage`
when a command reads it; a node that a cut forest file lacks is a node with any flag and
any split value; the body struct of a scan that is cancelled at once is any of
`Leftovers`; a read through the null pointer of an empty reply ends the process.

## Runs

| Run | Asks | Bounds |
|---|---|---|
| `scan` | the whole core | 2 descriptors, 2 words, 2 reads fill the buffer |
| `scan_cancel` | does a cancellation halt the native call | 1 word, direct scan |
| `scan_rerun` | does the second Tor query have a tunnel | 1 word, Tor scan |
| `sock_tunnel` | the handshake | replies of 10 (IPv4) and 22 (IPv6) bytes |
| `sock_tunnel_reply` | is a refusal always reported | the same |
| `telemetry` | the whole pipeline | 2 scans, 2 shapes of results, chunks of 2, transfers while there are at most 3 rows, 1 kill |
| `telemetry_latency` | does the latency command filter by latency | the same |
| `session` | which file, target and size a command works with | 3 files per format, 3 targets, 8 commands, `IntMax` 32767 |
| `session_unset` | is a field that no line sets zero | the same |
| `forest` | trees, their file and the walk | 1 training, 1 to 3 latencies, samples of 2 and 4, up to 2 trees, 2 steps in 1 |
| `capture` | the whole capture and its reader | 1 batch of 1 or 2 words, 3 answers, 2 reads fill the buffer |
| `capture_report` | does a second report leave the first alone | 2 batches |

Why the bounds suffice. Two descriptors let one be leaked or closed twice while another
thread takes the other, and let the table be full; a request has at most one descriptor
of its own at a time. Two words let anything survive from one request to the next, and
let the batch be abandoned with an answer already collected. Two reads distinguish an
empty, a partly filled and a full buffer. Chunks of two with up to five matching rows
give no chunk, a partial, a full, and several; the results have phrases of different
width, in both orders, and one without a phrase. One kill per behaviour is enough for a
torn file followed by any commands; two would multiply the cut files and nothing else.
The theorems below do not depend on these bounds.

In `session` the files are whole, incomplete, repeat a key, have a key nobody knows, or
end in a bad line; of the three targets two share a database and two share a forest
file. Eight commands are the shortest history after which a forest of one target is read
for another with a database of its own (three loads, a scan, a transfer, a training, a
load of the other target, a transfer); they include everything shorter. `IntMax` is
smaller than the real one, so that the delays whose product with a factor fits, overflows
below the delay, and overflows past it, are small numbers; `Delays` of `ScanBase` are
these classes with their effect on a request. In `forest` three latencies, two of them within the same whole number, give every kind of split: into some
and some, into all and nothing, and none; two steps in 1 let a cut lie between whole
numbers. A sample of 4 asks for a depth of 2, which three latencies reach. Two trees let
a file be cut before, in and after one. In `capture` two words let a struct survive from
one scan to the next; the answers have an error page, a quoted status line, a blank
line inside, and an `HTTP/` without digits in the body and in a header; two of the leftovers have a body and no target; one reply with an alias before the
address has every place where it can be cut; the buffer fills before and after the header ends.

What `scan` shows:

- `EngineLifecycle`: native code runs on live engines only; the one leak is a direct
  scan that leaves its delay by an exception, because it was cancelled in it or because
  no number could be drawn. The other wrappers wait before they have one.
- `NoForeignClose`: of all the cleanups, only the double close of the HTTP-proxy scan
  over TLS can hit a descriptor of another thread.
- `NothingHeldAtRest`: all scans but the direct one release everything on every exit;
  the direct one leaves one descriptor (and SSL object) per request.
- `HandleSafety`: an exact list of how a scan can enter OpenSSL through a dead handle.
- `ReportsAreAnswers`, `BadStatusWasRetried`: what can reach the result list, and that a
  bad Tor answer was retried.
- `PlainRequestReturns`, `SharedFlagHalts`: when a request returns, and that a flag
  native code could see would be enough for a cancelled one to return. A delay that was
  never loaded may hold the thread for ever, and is named among the waits.
- `KeepsBatchPromise`: the refinement of `ScanBatch`. A batch that ends has an answer per
  word and a whole file; one whose delays can be drawn is abandoned in the loop only by a
  cancellation; a save that fails leaves no file or a torn one.

`FlagModes` covers both readings of the flag: `copy`, what P/Invoke does with a
`ref bool`, and `shared`, what the `bool *` of the native interface promises a C caller.
The passing properties hold for both; `scan_cancel` fails for `copy`, the real one.

What `sock_tunnel` shows: when no read falls short a refusal passes for a grant only if
the proxy's bound address begins with 0; after a grant over IPv4 nothing of the reply is
left to be taken for HTTP; the function returns when a receive timeout is set; it never
fails with its descriptor open.

What `telemetry` shows: a stash that was written to its end has lines that differ in
latency only; a compilation leaves its last chunk; training stays in bounds unless the
stash was cut; after a training that ended the four files agree; a prediction uses
unset numbers only when no training has ended since; status codes and tokens never get a
score; the database is a log of whole batches of the first scan that was saved, so a torn
first file stops transfers for good; and every line a model was computed from, unless its
stash was cut, is of that first scan, whatever was scanned and transferred since
(`ModelOfFirstScan`).

What `session` shows:

- `LoadedAsWritten`: a configuration is all of its file or nothing of it. A rejected
  file still counts as loaded, with every field zero.
- `DelayWithinRange`: where `Delay * factor` overflows, the delay cannot be drawn or lies
  in the range all the same.
- `RowsOfFirstScan`: results are saved under a new name each time and transferred from
  the first, so the rows of a database are always those of the first scan under that
  name, filed under the target configured by then.
- `ForestOfRows`, `ScoreExplained`: a score comes from a forest of rows of a target with
  the same file name, and its scale is the one trained with unless an `.rxo` was loaded
  in between or the configured size is below two.

What `forest` shows: a tree is connected and no deeper than its subsample allows; each
latency is counted in one leaf; a prediction finds the leaf a latency was trained into
unless it lies between the drawn cut and the int kept of it; the score is 0 / 0 exactly
for one latency and a size of one or less; and a prediction from a whole file ends. One
from a file that was cut need not end: the property says so by its premise. A forest file
that cannot be opened stays as it was, with the forest of an earlier training or none.

What `capture` shows: every way out of a scan releases socket, TLS structure and engine;
the records follow the wordlist, whichever requests failed, and say what was answered,
or a status that the body quotes, for the last `HTTP/` in the buffer counts, or -1 where
no three digits follow that one: in prose, in another header, or in a line that the
segment cuts; once the header has ended -1 needs such a text in the answer. The reader
finds the records that were written, unless a body has a blank line or is too long for
it, or belongs to a record without a target and has a row of dashes; and what the WAF
catcher prints is so of those records.

What `sock_tunnel_reply` shows: the trace is a refusal that arrives whole, in one read
per `recv`, whose bound address begins with 0; the code takes it for a grant.

The six violations are real disagreements of the code with its own comments or
descriptions, quoted under `findings`.

Smaller things met on the way. `Capture.cs:70` computes a `cleanPath` that nothing uses.
The capture connects to the target directly; only its DNS query goes through the SOCKS
proxy. With a port other than 443 and 80 it connects with an unset port number. Nobody
cancels the session's token in the present program, so `Cancel` of `BodyCapture` models
what its interface allows. The repository's README lists `port` and `html_file` as keys
where the parsers read `cp_port` and `html_file_save`.

## Fairness

`ScanSystem` assumes weak fairness of `Thread`, the scan thread: it is scheduled while it
can run. Nothing is assumed of `Cancel`, of other threads or of peers: a read's outcome is
a choice within the thread's step, so a peer may stall a TLS read for ever, and states
`dns_blocked`, `ctrl_blocked` and `io_blocked` have no way out. `SockTunnel` assumes the
same of `Tunnel` and nothing of the proxy; a receive timeout makes `Recv` enabled, and
that is the only reason it returns. `IsoForest` assumes that a command which has begun
goes on, of `Training` and `Walking`, each one thread with nothing to wait for; that a
command is ever given is not assumed. `Telemetry`, `Session` and `BodyCapture` state
safety only, and no fairness: the loops of a telemetry command run over finite files and
could not fail to end in the model, and the capture's reads have a timeout but its connect
and its DNS lookup wait for peers.

## Proofs

`ScanInvariants` states the inductive invariant of the core; the theorems are in
`ScanTypeProofs`, `ScanSafetyProofs`, `SockTunnelProofs`, `TelemetryProofs`,
`SessionProofs`, `ForestProofs` and `CaptureProofs`, the lemmas they share in
`InductionLemmas`. They hold for all values of the constants that satisfy the named
assumptions (`ScanAssumption`, `ReplyAssumption`, `StoreAssumption`,
`CompilerAssumption`, `ConfigAssumption`, `SessionAssumption`, `ForestAssumption`,
`ReportAssumption`, `CaptureAssumption`). Every invariant and every refinement that a
passing run checks is one of the theorems.

- Core. The properties are not inductive: that a scan closes only its own descriptors
  depends on what `sock` holds at each position. The invariant says, per group of
  positions, whether the scan owns exactly `{sock}` or nothing, what `ssl` may be, that
  the engine is live, how often the query has run, and how the answer and the output
  relate. Each action preserves it; each property follows from it and the types.
- `NothingHeldAtRest` also needs the count of the direct scan's leaked descriptors to
  stay within the number of finished requests, with the cardinality theorems.
- `BatchPromiseHolds` maps each step to a step of `ScanBatch` or a stutter. The exits of a
  delay (`DelayThrows`, `DelayCancelled`) need that the batch is open with words to go,
  which the invariant says of every position between two requests' reports.
- SOCKS5. The invariant says how far into the stream each statement can be and from
  which position `res1` and `resp2` were taken when no read fell short. `TunnelReturns`
  apart from fairness is two safety facts: each step raises a rank of eight
  (`TunnelAdvancesHolds`), and with a receive timeout what the guards of each statement
  ask for is there (`NeverStuckHolds`).
- Pipeline, the database. `LogPromiseHolds` needs the transfer's invariant: the rows
  inserted so far followed by those still to come are one batch of the first file, which
  no step changes once it exists.
- Pipeline, the model. `PipelineInvHolds` is the invariant from which the rest follows:
  `TypeInv` types the rows and every line a file can hold, cut or whole; `CompileInv`
  relates the chunks read to the matching rows not read yet, so that what is saved is the
  last of them; `TrainInv` says what a training has written of the stash it reads, and
  `ModelInv` that between trainings the four files are of one stash. `MatrixAlike` is
  the lemma under `LinesAlike`: a chunk's padded lines have one width, whatever its
  phrases, and come from rows that pass one filter.
- Pipeline, the provenance. `ModelOfFirstScanHolds` carries one statement through every
  place data can be: `FirstInv` says of the batch to insert, the rows, the cursor, the
  chunk, an uncut stash, the data of a training and an uncut model file that what they
  hold is of the first file, and `FirstFileStays` that no step changes that file.
- Session. `LoadedAsWritten` says what a whole file makes of a struct; the invariant says
  it of the first `at - 1` lines and the draft, and that none of them is bad, which each
  line read extends by one. The provenance of rows, forests and scores needs the loaded
  models to be as written too: two commands under the same `.rxo` read the same size.
- Forest, the tree. `TreeShape` is not inductive: that a call's depth is within bounds
  depends on the split it was made for. `Shape` ties each call and each link to the side
  of the cut it stands for, and says that an inner node is above the greatest depth;
  `OwnLeaf` follows from it when no call is left. `Owed` says when there is a tree at
  all. `LeavesPartition` is `Partition` itself, kept under that invariant.
- Forest, the file. Sizes of nodes stay in range while trees are built (`BuildInv`),
  written, cut and reloaded (`FileInv`: what `Refilled` puts back is a node, or a ghost
  where the file was torn), and a walk is at a node of a tree it can be at (`WalkInv`),
  so that the score is of one of the classes and 0 / 0 only where `OneLatencyScore` says.
- Forest, the walk. In a tree with no call left each link goes to a later node of the tree
  (`TreeForward`), which a whole file keeps: a path from it stays in its tree and meets no
  node twice (`WalkInTreeCorrect`, `WalkForwardCorrect`). `PredictionEnds` needs this
  besides fairness; a path through a file cut short has neither.
- Capture, the scan. The invariant says which of socket, TLS structure and engine a
  statement may hold, that the struct in progress is of the word in progress and of its
  answer, and that the records so far and the words to come are one wordlist.
- Capture, the report. `RoundTrip` says that the reader finds in a report the named
  records it was written from, for any records, bodies and capacity. `BodyEndIs` and
  `WeightThere` find the end of a body where its block stands, `BlockRead` and
  `NamelessRead` read or pass over one block, `BlocksStand` finds each block in the
  report, and induction over the blocks joins them. `FileInv` says that a whole file is
  such a report; `WallsCounted` that the soft 404s counted in it are those written.

Induction over data. The models define by recursive functions what the code computes in
a loop over lines, rows or nodes. `InductionTo` states induction up to a bound with a set
in place of a predicate, `Recursion` and `Backwards` that a function exists whose values
are each made of the value before or of those after; each recursive function of a model
has one lemma (`WeightIs`, `ReportIs`, `NamedIs`, `ParsedIs`, and those of the pipeline
and the forest) that gives its type and its equations from them. `KeptIsSeq` and
`FlattenBegins` do the same for the folds `SelectSeq` and `FlattenSeq`.

What the proofs changed in the models. `Readable`, the premise of `RecordsReadBack`, now
says more: the proof got stuck on a record without a target whose body has a row of
dashes. Its first line is blank and skipped, so that the row under it stands for a target
and the lines of the body can make up a record that nobody wrote. The run has such
leftovers since, and finds the property false without the premise. `CompilerAssumption`
says that no phrase holds the token that stands for a missing one; `MaxWalk` is not zero.
`IsoForest` and `BodyReport` have the steps of the reload and of the reader as operators
of their own (`Refilled`, `Torn`, `Weight`, `RecordAt`), which is what the lemmas are
about.

Model-checked only: liveness (`PlainRequestReturns`, `SharedFlagHalts`,
`TunnelReturns`, `PredictionEnds`), which is beyond the proof system with fairness. The safety facts under `TunnelReturns` and `PredictionEnds` are proved.

## Not modelled

Formatting, logging, the banner, the progress bar, target sanitising and the parsing of
the headers file have no property: they are string handling without state. So have the
encoding of a DNS name and the run id. The files' contents beyond what later commands
read, and sizes of the fixed buffers, are abstracted. `help`, `exec` and `shell` print or
start other programs. `ReadLogs`, `ClearLogs` and `LatencyBasedFilterCompile` are called
by nothing, `LatencyFilter` only by the last of these. A wordlist of `Session` has one
word; longer ones are in `ScanSystem` and `BodyCapture`. The commands of `Session` are
single steps; what a kill in the middle of one leaves is in `Telemetry`, `IsoForest` and
`BodyCapture`.

Modelled, but claimed by no property, because what the code does there is the failure
itself: the waits without a timeout of the resolvers and the control port, the
uninitialised struct of the direct scan's early returns, the null pointer of a header
block without a status line, the walk over a forest file cut short, and the rest of a body
after a blank line. TLC reaches each of them, and the properties of the same module name
them as their exceptions; `hazards` lists them with a note.

Two parts are modelled by their outcome only: the HTTP CONNECT tunnel (a descriptor, -1,
or a wait without end), and the UDP resolver (resolved, not resolved, or a wait without
end), which walks its answer as the Tor resolver does in `BodyCapture`.

## Plan

1. The CONNECT tunnel: its single `recv` and its search for 200 against a proxy that
   answers in pieces, as a second implementation of `Dial`.
2. The UDP resolver over datagrams that are lost, late or of another query.
3. `Session` composed with `Telemetry` and `BodyCapture`, so that a kill inside a command
   meets a change of configuration.
4. Proofs: what the other liveness properties rest on apart from fairness, as action
   properties (a measure that each step of a scan lowers), and
   injectivity of `ToHex` on the common codes.
