----------------------------- MODULE ConfigFile -----------------------------
(***************************************************************************)
(* The three native parsers of the configuration files (parser.cpp for     *)
(* .rfo, rso_parser.cpp for .rso, rxo_parser.cpp for .rxo) and the session *)
(* data they fill (Reco_Session_Data.cs).  A parse goes over the file line *)
(* by line and fills a structure on the stack.                             *)
(***************************************************************************)
EXTENDS Integers, Sequences

CONSTANTS
  Values,   \* what may stand behind the "=" of a line, trimmed
  Files,    \* the files of each format, as sequences of lines
  IntMax    \* the largest int (2^31 - 1)

Formats == {"rfo", "rso", "rxo"}

\* A value by what the validators tell apart: its length, whether it has a
\* space, whether it reads as an address or ends in .txt or .json, the integer
\* stoi and stoll read at its front, and whether stod reads a number there.
ValueType ==
  [len : Nat, space : BOOLEAN, form : {"plain", "ip", "txt", "json", "zero", "unset"},
   num : Seq(Int), real : BOOLEAN]

\* Zeroed memory: the empty string, or 0.
Zero  == [len |-> 0, space |-> FALSE, form |-> "zero", num |-> <<0>>, real |-> TRUE]
\* Memory nothing was written to.
Unset == [len |-> 0, space |-> FALSE, form |-> "unset", num |-> <<0>>, real |-> TRUE]

\* A line is noise if it is empty, starts with "[", has no "=", or nothing
\* behind it.
Line == [noise : BOOLEAN, key : STRING, val : Values]

ASSUME ConfigAssumption ==
  /\ Values \subseteq ValueType /\ Zero \notin Values /\ Unset \notin Values
  /\ Files \in [Formats -> SUBSET Seq(Line)]
  /\ IntMax \in Nat

Keys ==
  [rfo |-> {"target", "password", "tor_ip", "proto_port", "dns_server", "cp_port",
            "tor_port"},
   rso |-> {"timeout", "delay", "wordlist_path", "json_file_path", "headers_file",
            "html_file_save"},
   rxo |-> {"db_password", "k_factor", "num_trees", "sub_sample_size", "status_code",
            "latency"}]

isValidUrl(v)      == v.len <= 255 /\ ~v.space
isIpAddress(v)     == v.len <= 255 /\ v.form = "ip"
isPasswordValid(v) == v.len <= 127
isTextFile(v)      == v.len \in 5..799 /\ v.form = "txt"
isJsonFile(v)      == v.len \in 5..799 /\ v.form = "json"
Within(v, lo, hi)  == v.num # <<>> /\ v.num[1] >= lo /\ v.num[1] <= hi

\* A value that does not end the parse when the file gives it for the key.
Accepts(key, v) ==
  CASE key = "target"                                    -> isValidUrl(v)
    [] key = "tor_ip"                                    -> isIpAddress(v)
    [] key \in {"password", "db_password", "proto_port"} -> isPasswordValid(v)
    [] key = "dns_server"                                -> v.len <= 255
    [] key \in {"cp_port", "tor_port"}                   -> Within(v, 1, 65535)
    [] key \in {"timeout", "delay"}                      -> Within(v, 0, IntMax)
    [] key \in {"wordlist_path", "headers_file",
                "html_file_save"}                        -> isTextFile(v)
    [] key = "json_file_path"                            -> isJsonFile(v)
    [] key \in {"num_trees", "sub_sample_size"}          -> Within(v, -IntMax - 1, IntMax)
    [] key = "status_code"                               -> Within(v, 100, IntMax)
    [] key \in {"k_factor", "latency"}                   -> v.real

\* The .rxo parser alone knows no other keys.
Bad(f, line) ==
  /\ ~line.noise
  /\ \/ line.key \in Keys[f] /\ ~Accepts(line.key, line.val)
     \/ line.key \notin Keys[f] /\ f = "rxo"

Sets(f, line) == ~line.noise /\ line.key \in Keys[f] /\ ~Bad(f, line)

\* The structure a rejected or unreadable file gives, and the one a parse
\* starts with: only RxoStruct has initialisers.
Default(f) == [k \in Keys[f] |-> Zero]
Fresh(f)   == [k \in Keys[f] |-> IF f = "rxo" THEN Zero ELSE Unset]

NoModel == <<>>
NoFile  == [read |-> FALSE, lines |-> <<>>]

VARIABLES
  reading,  \* the format being parsed, or "none"
  lines,    \* the lines of the file
  at,       \* the line read next
  draft,    \* out_config: what has been filled so far
  model,    \* rfoModel, rsoModel and rxoModel; NoModel is null
  from      \* the file each was last loaded from (history)

configVars == <<reading, lines, at, draft, model, from>>

ConfigInit ==
  /\ reading = "none" /\ lines = <<>> /\ at = 1 /\ draft = NoModel
  /\ model = [f \in Formats |-> NoModel]
  /\ from = [f \in Formats |-> NoFile]

isLoaded(f) == model[f] # NoModel

----------------------------------------------------------------------------
\* FileParse opens a file of the right extension.
BeginLoad(f) ==
  /\ reading = "none" /\ reading' = f
  /\ lines' \in Files[f] /\ at' = 1
  /\ draft' = Fresh(f)
  /\ UNCHANGED <<model, from>>

\* Another extension, or no such file: the shell says it is loaded all the same.
LoadUnreadable(f) ==
  /\ reading = "none"
  /\ model' = [model EXCEPT ![f] = Default(f)]
  /\ from' = [from EXCEPT ![f] = NoFile]
  /\ UNCHANGED <<reading, lines, at, draft>>

Current == lines[at]

\* Mutant: the line after a skipped one is not looked at.
SkipTwo ==
  /\ reading # "none" /\ at <= Len(lines)
  /\ ~Sets(reading, Current) /\ ~Bad(reading, Current)
  /\ at' = at + 2
  /\ UNCHANGED <<reading, lines, draft, model, from>>

SkipLine ==
  /\ reading # "none" /\ at <= Len(lines)
  /\ ~Sets(reading, Current) /\ ~Bad(reading, Current)
  /\ at' = at + 1
  /\ UNCHANGED <<reading, lines, draft, model, from>>

SetField ==
  /\ reading # "none" /\ at <= Len(lines)
  /\ Sets(reading, Current)
  /\ draft' = [draft EXCEPT ![Current.key] = Current.val]
  /\ at' = at + 1
  /\ UNCHANGED <<reading, lines, model, from>>

Loads(m) ==
  /\ model' = [model EXCEPT ![reading] = m]
  /\ from' = [from EXCEPT ![reading] = [read |-> TRUE, lines |-> lines]]
  /\ reading' = "none" /\ lines' = <<>> /\ at' = 1 /\ draft' = NoModel

\* Mutant: the fields read before the bad line are kept.
KeepsDraft ==
  /\ reading # "none" /\ at <= Len(lines)
  /\ Bad(reading, Current)
  /\ Loads(draft)

\* One bad line, and the whole file counts for nothing.
RejectLine ==
  /\ reading # "none" /\ at <= Len(lines)
  /\ Bad(reading, Current)
  /\ Loads(Default(reading))

EndOfFile ==
  /\ reading # "none" /\ at > Len(lines)
  /\ Loads(draft)

ParseStep == SkipLine \/ SetField \/ RejectLine \/ EndOfFile
=============================================================================
