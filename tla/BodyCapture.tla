----------------------------- MODULE BodyCapture -----------------------------
(***************************************************************************)
(* The batch that captures response bodies: for each word an engine that   *)
(* looks the target up through the SOCKS proxy (TorDomainStack.cpp), one   *)
(* request and its answer (res_body_captio.cpp, Capture.cs), and at the    *)
(* end one report (ScanFunc.cs, FileWires.cs) that the WAF catcher reads   *)
(* (Waf_Catcher.cpp).  Whatever the answer brings comes in reads of the    *)
(* network's choosing.                                                     *)
(***************************************************************************)
EXTENDS BodyReport

CONSTANTS
  WordLists,   \* the word lists of the batches
  Ports,       \* proto_port: "443", "80" or anything else
  Answers,     \* what a web server says: a status code, what follows the last "HTTP/"
               \* of another header (as BodyLines' quote), and the lines of a body
  DnsReplies,  \* replies to the DNS query, by their records
  Leftovers,   \* what a struct nothing was written to may hold
  Full,        \* lines of a body that make 4096 bytes, half the buffer
  MaxHead,     \* bound: reads without the end of the header that fill the buffer
  MaxBatches   \* bound: batches started

ASSUME CaptureAssumption ==
  /\ WordLists \subseteq Seq(Targets)
  /\ Answers \subseteq [code : Int \ {0}, via : Nat \cup {-1}, body : Seq(BodyLines)]
  /\ Leftovers \subseteq [target : Targets \cup {""}, status : Int, body : Seq(BodyLines)]
  /\ DnsReplies \subseteq Seq([address : BOOLEAN, len : Nat])
  /\ Full \in Nat \ {0} /\ MaxHead \in Nat /\ MaxBatches \in Nat

VARIABLES
  pc,        \* the statement the batch is about to execute
  port,      \* proto_port of this batch
  words,     \* words still to scan
  batches,   \* batches started, for the bound
  token,     \* the token is cancelled
  flag,      \* the copy of cancelFlag that native code was given
  engine,    \* an engine exists
  ip,        \* what ip_resolved is: no address, the target's, or part of it
  fd,        \* the socket is open
  ssl,       \* an SSL structure exists
  answer,    \* what the peer says, once there is one
  heads,     \* reads before the end of the header
  ended,     \* body_start is set
  lines,     \* lines of the body in the buffer
  data,      \* myData
  records,   \* mainScan.Result, each with the answer it was taken from (history)
  disk,      \* the reports: text, and the records it was written from (history)
  saved,     \* the records of every report that was written whole (history)
  verdict    \* what the WAF catcher printed, from what (history)

batchVars == <<port, words, batches, token>>
netVars   == <<ip, fd, ssl, answer>>
readVars  == <<heads, ended, lines>>
files     == <<disk, saved>>
vars == <<pc, batchVars, flag, engine, netVars, readVars, data, records, files, verdict>>

NoAnswer == [code |-> 0, via |-> 0, body |-> <<>>]
Zero     == [target |-> "", status |-> 0, body |-> <<>>]
NoReport == [text |-> <<>>, of |-> <<>>, whole |-> TRUE]
Least(a, b) == IF a < b THEN a ELSE b

NoVerdict == [line |-> "none", anomalies |-> 0, of |-> <<>>]

Init ==
  /\ pc = "idle" /\ port \in Ports /\ batches = 0
  /\ words = <<>> /\ token = FALSE /\ flag = FALSE /\ engine = FALSE
  /\ ip = "none" /\ fd = FALSE /\ ssl = FALSE /\ answer = NoAnswer
  /\ heads = 0 /\ ended = FALSE /\ lines = 0
  /\ data = Zero /\ records = <<>> /\ verdict = NoVerdict
  /\ disk = [name \in {"asked", "stamped"} |-> NoReport] /\ saved = {}

----------------------------------------------------------------------------
BeginBatch ==
  /\ pc = "idle" /\ batches < MaxBatches
  /\ batches' = batches + 1
  /\ words' \in WordLists /\ port' \in Ports
  /\ records' = <<>> /\ pc' = "next"
  /\ UNCHANGED <<token, flag, engine, netVars, readVars, data, files, verdict>>

\* Where record i of a DNS reply ends: a header of 12 bytes, a question of 20, and
\* 12 bytes before the data of each record.
RecordEnd(reply, i) ==
  LET end[n \in 0..i] == IF n = 0 THEN 32 ELSE end[n - 1] + 12 + reply[n].len
  IN end[i]

\* resolvede, when got bytes of the reply arrive: the first address whose record
\* header has come; the bytes of it that have not are zero.
Resolved(reply, got) ==
  LET Usable(i) == /\ RecordEnd(reply, i - 1) + 12 <= got
                   /\ reply[i].address /\ reply[i].len = 4
  IN IF \A i \in DOMAIN reply : ~Usable(i) THEN "none"
     ELSE LET first == CHOOSE i \in DOMAIN reply : Usable(i) /\ \A j \in 1..(i - 1) : ~Usable(j)
          IN IF RecordEnd(reply, first) <= got THEN "host" ELSE "part"

\* No tunnel, or fewer than the two bytes of the length, is no address either.
Resolutions ==
  {"none"} \cup UNION {{Resolved(r, got) : got \in 0..RecordEnd(r, Len(r))} : r \in DnsReplies}

CreateEngine ==
  /\ pc = "next" /\ words # <<>> /\ pc' = "check"
  /\ engine' = TRUE
  /\ ip' \in Resolutions
  /\ UNCHANGED <<batchVars, flag, fd, ssl, answer, readVars, data, records, files, verdict>>

\* A reply of no bytes: its header is read through the null pointer of an empty
\* buffer, and the process is gone.
EmptyReply ==
  /\ pc = "next" /\ words # <<>> /\ pc' = "crashed"
  /\ UNCHANGED <<batchVars, flag, engine, netVars, readVars, data, records, files, verdict>>

\* The result goes to the list; the engine is gone.
Kept(result, of) ==
  /\ records' = Append(records, [target |-> result.target, status |-> result.status,
                                 body |-> result.body, of |-> of])
  /\ words' = Tail(words)
  /\ engine' = FALSE /\ flag' = FALSE /\ ip' = "none" /\ answer' = NoAnswer /\ data' = Zero
  /\ heads' = 0 /\ ended' = FALSE /\ lines' = 0

CancelledBefore ==
  /\ pc = "check" /\ pc' = "next"
  /\ token
  /\ Kept(Zero, NoAnswer)
  /\ UNCHANGED <<port, batches, token, fd, ssl, files, verdict>>

NotCancelled ==
  /\ pc = "check" /\ pc' = "call"
  /\ ~token
  /\ UNCHANGED <<batchVars, flag, engine, netVars, readVars, data, records, files, verdict>>

\* The flag is copied for the call; the struct on the stack has what was there.
CallScan ==
  /\ pc = "call" /\ pc' = "scan"
  /\ flag' = token
  /\ data' \in Leftovers
  /\ UNCHANGED <<batchVars, engine, netVars, readVars, records, files, verdict>>

\* The first of the checks; the copy does not change for those that follow.
CancelledInside ==
  /\ pc = "scan" /\ pc' = "collect"
  /\ flag
  /\ UNCHANGED <<batchVars, flag, engine, netVars, readVars, data, records, files, verdict>>

\* socket(), which may fail, its result not looked at.
OpenSocket ==
  /\ pc = "scan" /\ pc' = "connect"
  /\ ~flag
  /\ data' = [data EXCEPT !.target = Head(words)]
  /\ fd' \in BOOLEAN
  /\ UNCHANGED <<batchVars, flag, engine, ip, ssl, answer, readVars, records, files, verdict>>

\* Mutant: the socket is left open.
GiveUpOpen ==
  /\ pc' = "collect"
  /\ ssl' = FALSE
  /\ data' = Zero
  /\ UNCHANGED <<batchVars, flag, engine, ip, fd, answer, readVars, records, files, verdict>>

\* Everything is closed and an empty struct returned.
GiveUp ==
  /\ pc' = "collect"
  /\ fd' = FALSE /\ ssl' = FALSE
  /\ data' = Zero
  /\ UNCHANGED <<batchVars, flag, engine, ip, answer, readVars, records, files, verdict>>

ConnectFails == pc = "connect" /\ GiveUp

\* Somebody answers, or connects and says nothing.
Connects ==
  /\ pc = "connect" /\ fd /\ ip # "none"
  /\ pc' = IF port = "443" THEN "tls" ELSE "read"
  /\ answer' \in Answers \cup {NoAnswer}
  /\ UNCHANGED <<batchVars, flag, engine, ip, fd, ssl, readVars, data, records, files, verdict>>

\* SSL_connect returns a negative number.
TlsFails == pc = "tls" /\ GiveUp

\* It returns 1, or 0 when the peer refuses, which is not looked at.
TlsConnects ==
  /\ pc = "tls" /\ pc' = "read"
  /\ ssl' = TRUE
  /\ answer' \in {answer, NoAnswer}
  /\ UNCHANGED <<batchVars, flag, engine, ip, fd, readVars, data, records, files, verdict>>

----------------------------------------------------------------------------
\* Mutant: extract_status_from_buffer takes the first status line in the buffer of
\* the read before this one.
StatusInLate(a, n) == {data.status}

\* What the last "HTTP/" of a whole header leads to.
HeaderStatus(a) == IF a.via = 0 THEN a.code ELSE a.via

\* extract_status_from_buffer: the three digits after the last "HTTP/" in the buffer,
\* or -1, when n lines of the body came with the end of its header, and with them
\* some part of the next: its "HTTP/" without the digits, or both, or neither.
StatusIn(a, n) ==
  LET quoting == {k \in 1..n : a.body[k].quote # 0}
      last    == CHOOSE k \in quoting : \A j \in quoting : j <= k
      cut     == {k \in {n + 1} \cap DOMAIN a.body : a.body[k].quote # 0}
  IN {IF quoting = {} THEN HeaderStatus(a) ELSE a.body[last].quote}
       \cup UNION {{-1, a.body[k].quote} : k \in cut}

\* A first read without "HTTP/" in it: strchr of a null pointer.
ReadJunk ==
  /\ pc = "read" /\ heads = 0 /\ ~ended /\ pc' = "crashed"
  /\ UNCHANGED <<batchVars, flag, engine, netVars, readVars, data, records, files, verdict>>

\* A read that does not bring the end of the header, and may end in the status line,
\* after it, or in or after another header with an "HTTP/" in it.
ReadHeader ==
  /\ pc = "read" /\ answer # NoAnswer /\ ~ended /\ heads < MaxHead
  /\ heads' = heads + 1
  /\ \E status \in {-1, answer.code, HeaderStatus(answer)} :
       data' = [data EXCEPT !.status = status]
  /\ UNCHANGED <<pc, batchVars, flag, engine, netVars, ended, lines, records, files, verdict>>

ReadHeaderEnd ==
  /\ pc = "read" /\ answer # NoAnswer /\ ~ended /\ heads < MaxHead
  /\ ended' = TRUE
  /\ \E n \in 0..Len(answer.body) :
       /\ lines' = n
       /\ \E status \in StatusIn(answer, n) : data' = [data EXCEPT !.status = status]
  /\ UNCHANGED <<pc, batchVars, flag, engine, netVars, heads, records, files, verdict>>

ReadBody ==
  /\ pc = "read" /\ ended /\ lines < Full
  /\ \E n \in (lines + 1)..Len(answer.body) : lines' = n
  /\ UNCHANGED <<pc, batchVars, flag, engine, netVars, heads, ended, data, records, files, verdict>>

\* The stream ends or fails or times out, the buffer is full, or enough has come.
EndOfAnswer ==
  /\ pc = "read" /\ pc' = "collect"
  /\ fd' = FALSE /\ ssl' = FALSE
  /\ data' = IF ended THEN [data EXCEPT !.body = SubSeq(answer.body, 1, Least(lines, Full))]
             ELSE data
  /\ UNCHANGED <<batchVars, flag, engine, ip, answer, readVars, records, files, verdict>>

Collect ==
  /\ pc = "collect" /\ pc' = "next"
  /\ Kept(data, IF ended THEN answer ELSE NoAnswer)
  /\ UNCHANGED <<port, batches, token, fd, ssl, files, verdict>>

----------------------------------------------------------------------------
Done == pc = "next" /\ words = <<>>

\* The path with a time stamp is made up when the file exists, and not used.
WriteReport ==
  /\ Done /\ pc' = "idle"
  /\ disk' = [disk EXCEPT !["asked"] = [text |-> Report(records), of |-> records, whole |-> TRUE]]
  /\ saved' = saved \cup {records}
  /\ UNCHANGED <<batchVars, flag, engine, netVars, readVars, data, records, verdict>>

\* The file cannot be opened.
WriteFails ==
  /\ Done /\ pc' = "idle"
  /\ UNCHANGED <<batchVars, flag, engine, netVars, readVars, data, records, files, verdict>>

\* The disk is full, or the process dies: the old text is gone.
WriteCutShort ==
  /\ Done /\ pc' \in {"idle", "crashed"}
  /\ \E n \in 0..(Len(Report(records)) - 1) :
       disk' = [disk EXCEPT !["asked"] = [text |-> SubSeq(Report(records), 1, n),
                                          of |-> records, whole |-> FALSE]]
  /\ UNCHANGED <<batchVars, flag, engine, netVars, readVars, data, records, saved, verdict>>

\* A new process: only the reports are left.
Restart ==
  /\ pc = "crashed" /\ pc' = "idle"
  /\ words' = <<>> /\ token' = FALSE /\ flag' = FALSE /\ engine' = FALSE
  /\ ip' = "none" /\ fd' = FALSE /\ ssl' = FALSE /\ answer' = NoAnswer
  /\ heads' = 0 /\ ended' = FALSE /\ lines' = 0
  /\ data' = Zero /\ records' = <<>> /\ verdict' = NoVerdict
  /\ UNCHANGED <<port, batches, files>>

\* Whoever owns the token cancels it.
Cancel ==
  /\ ~token /\ pc \notin {"idle", "crashed"}
  /\ token' = TRUE
  /\ UNCHANGED <<pc, port, words, batches, flag, engine, netVars, readVars, data, records, files,
                 verdict>>

\* The WAF command, once a forest is loaded, with that many anomalous latencies.
CatchWaf ==
  /\ pc = "idle"
  /\ \E n \in 0..2 :
       verdict' = [line |-> WafHit(n, Soft404s(Parsed(disk["asked"].text))),
                   anomalies |-> n,
                   of |-> IF disk["asked"].whole THEN disk["asked"].of ELSE <<>>]
  /\ UNCHANGED <<pc, batchVars, flag, engine, netVars, readVars, data, records, files>>

Next ==
  \/ BeginBatch \/ CreateEngine \/ EmptyReply
  \/ CancelledBefore \/ NotCancelled \/ CallScan \/ CancelledInside \/ OpenSocket
  \/ ConnectFails \/ Connects \/ TlsFails \/ TlsConnects
  \/ ReadJunk \/ ReadHeader \/ ReadHeaderEnd \/ ReadBody \/ EndOfAnswer \/ Collect
  \/ WriteReport \/ WriteFails \/ WriteCutShort
  \/ Restart \/ Cancel \/ CatchWaf

Spec == Init /\ [][Next]_vars

----------------------------------------------------------------------------
\* A body the reader sees the end of: no blank line but at the end, which it skips,
\* and no more than it takes for one body.
Plain(body) ==
  /\ \A n \in 1..(Len(body) - 1) : body[n] # Blank
  /\ Weight(body)[Len(body)] <= Cap

\* A record without a target, whose first line is blank, is not taken for another one
\* if its body has no row of dashes.
Readable(recs) ==
  \A i \in DOMAIN recs :
    /\ Plain(recs[i].body)
    /\ recs[i].target = "" => \A n \in DOMAIN recs[i].body : recs[i].body[n] # Dashes

\* A record as the reader should see it.
Seen(r) == [target |-> r.target, status |-> r.status,
            body |-> IF r.body = <<>> THEN <<NoBody>>
                     ELSE IF r.body[Len(r.body)] = Blank
                       THEN SubSeq(r.body, 1, Len(r.body) - 1) ELSE r.body]

\* The records it is promised to find: those of the first n that name a target.
Named(recs) ==
  LET named[n \in 0..Len(recs)] ==
        IF n = 0 THEN <<>>
        ELSE IF recs[n].target = "" THEN named[n - 1] ELSE Append(named[n - 1], Seen(recs[n]))
  IN named

\* Every way out of a scan leaves no socket, no TLS structure and no engine, whatever
\* failed and wherever the token was cancelled (res_body_captio.cpp:82-236,
\* Capture.cs:65-77): a batch is as many scans as there are words.
CaptureReleases ==
  /\ pc \in {"idle", "next"} => ~engine
  /\ pc \in {"idle", "next", "check", "call", "scan", "collect"} => ~fd /\ ~ssl
  /\ ssl => fd

\* What may stand as the status of an answer: what its header says, what its body
\* quotes, or -1 where its body names HTTP, whether the digits follow or not.
StatusOf(a, status) ==
  LET quoted == {a.body[n].quote : n \in DOMAIN a.body} \ {0}
  IN \/ status = HeaderStatus(a)
     \/ status \in quoted
     \/ status = -1 /\ quoted # {}

\* The records are those of the words in order (ScanFunc.cs:96-101); one whose header
\* came to its end names its word, has a front of the body that was sent, and the
\* status of its header, unless that body names HTTP (res_body_captio.cpp:177-185,
\* :238-244, wires.cpp:95-125).
RecordOfAnswer ==
  pc # "crashed" /\ records # <<>> =>
    \E list \in WordLists :
      /\ Len(list) = Len(records) + Len(words)
      /\ words = SubSeq(list, Len(records) + 1, Len(list))
      /\ \A i \in DOMAIN records :
           LET r == records[i]
           IN r.of # NoAnswer =>
                /\ r.target = list[i]
                /\ r.body = SubSeq(r.of.body, 1, Len(r.body))
                /\ StatusOf(r.of, r.status)

\* The soft-404 catcher reads back from a whole report the records it was written
\* from, all that name a target and no other (FileWires.cs:150-167 against
\* Soft_404_Catcher.cpp:81-140), unless a body has a blank line inside or weighs
\* more than the reader takes for one, or is that of a record without a target and
\* has a row of dashes.
RecordsReadBack ==
  LET file == disk["asked"]
  IN file.whole /\ Readable(file.of) => Parsed(file.text) = Named(file.of)[Len(file.of)]

\* What the WAF catcher prints is so of the records in a whole and readable report: a
\* block or a soft 404 route has two successful answers that look like error pages,
\* and nothing but latencies is blamed only when no answer does
\* (Waf_Catcher.cpp:82-97, Soft_404_Catcher.cpp:27-64).
VerdictGrounded ==
  LET walls == {i \in DOMAIN verdict.of :
                  /\ verdict.of[i].target # "" /\ verdict.of[i].status \in {200, 203, 206}
                  /\ \E n \in DOMAIN verdict.of[i].body : verdict.of[i].body[n].sig}
  IN verdict.of # <<>> /\ Readable(verdict.of) =>
       /\ verdict.line = "critical" => verdict.anomalies >= 2 /\ Cardinality(walls) >= 2
       /\ verdict.line = "soft404" => verdict.anomalies = 0 /\ Cardinality(walls) >= 2
       /\ verdict.line = "throttling" => walls = {}

\* A second report gets "a completely unique new name" (FileWires.cs:141) and leaves
\* the first alone: what was written whole is still there.  The code makes the name
\* up and writes to the old one (:170).
ReportKept ==
  \A recs \in saved : \E name \in DOMAIN disk : disk[name].whole /\ disk[name].of = recs
=============================================================================
