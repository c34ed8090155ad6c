----------------------------- MODULE BodyReport -----------------------------
(***************************************************************************)
(* The text report of captured bodies: how it is written (FileWires.cs),   *)
(* how the soft-404 catcher reads it back, and what the WAF catcher makes  *)
(* of it.  A line is blank, a row of dashes or some text; text is a target,*)
(* a status code, or a line of a body, which may hold a signature of an    *)
(* error page and may name HTTP, with a status code after it or without.   *)
(***************************************************************************)
EXTENDS Integers, Sequences, FiniteSets

CONSTANTS
  Targets,  \* what the first line of a record names
  Cap       \* what the lines the reader takes for one body weigh: 4095 bytes

ASSUME ReportAssumption == Cap \in Nat \ {0} /\ "" \notin Targets

Line(kind, of, code) ==
  [kind |-> kind, of |-> of, code |-> code, sig |-> FALSE, quote |-> 0, weight |-> 1]

Blank     == Line("blank", "", 0)
Dashes    == Line("dashes", "", 0)
Status(n) == Line("text", "status", n)
NoBody    == Line("text", "warning", 0)
Target(t) == IF t = "" THEN Blank ELSE Line("text", t, 0)

\* The lines of a body that has some: its signature, what follows the last "HTTP/"
\* in it (0: there is none, -1: not three digits), its bytes.
BodyLines == [kind : {"text"}, of : {"body"}, code : {0}, sig : BOOLEAN,
              quote : Nat \cup {-1}, weight : Nat \ {0}] \cup {Blank, Dashes}

\* Mutant: no line between one record and the next.
BlockTight(r) ==
  <<Target(r.target), Dashes, Status(r.status), Dashes>>
    \o (IF r.body = <<>> THEN <<NoBody>> ELSE r.body)

\* WriteTextResBody: the lines of one record, and a blank line.
Block(r) ==
  <<Target(r.target), Dashes, Status(r.status), Dashes>>
    \o (IF r.body = <<>> THEN <<NoBody>> ELSE r.body) \o <<Blank>>

\* All records and one more blank line.
Report(records) ==
  LET text[n \in 0..Len(records)] == IF n = 0 THEN <<>> ELSE text[n - 1] \o Block(records[n])
  IN Append(text[Len(records)], Blank)

\* What the first n lines of a text weigh.
Weight(text) ==
  LET sum[n \in 0..Len(text)] == IF n = 0 THEN 0 ELSE sum[n - 1] + text[n].weight IN sum

\* The line where a body that starts at line i ends: the blank line after it, the line
\* that fills it, or the last of the file.
BodyEnd(text, i) ==
  LET sum  == Weight(text)
      ends == {j \in i..Len(text) : text[j] = Blank \/ sum[j] - sum[i - 1] >= Cap}
  IN IF ends = {} THEN Len(text) ELSE CHOOSE j \in ends : \A k \in ends : j <= k

\* The record whose target is line i, with its two rows.
RecordAt(text, i) ==
  LET end == BodyEnd(text, i + 4)
  IN [target |-> text[i].of, status |-> text[i + 2].code,
      body |-> SubSeq(text, i + 4, IF text[end] = Blank THEN end - 1 ELSE end)]

IsRow(text, j) == j <= Len(text) /\ text[j] = Dashes

\* mainResponseBodyParser: blank lines are skipped, the next line is a target
\* whatever it says, and a record without its two rows of dashes is given up where
\* the row is missing.
Parsed(text) ==
  LET from[i \in 1..(Len(text) + 4)] ==
        IF i > Len(text) THEN <<>>
        ELSE IF text[i] = Blank THEN from[i + 1]
        ELSE IF ~IsRow(text, i + 1) THEN from[i + 2]
        ELSE IF ~IsRow(text, i + 3) THEN from[i + 4]
        ELSE <<RecordAt(text, i)>> \o from[BodyEnd(text, i + 4) + 1]
  IN from[1]

\* Mutant: the status is not looked at.
isItSoft404AnyStatus(r) == \E i \in DOMAIN r.body : r.body[i].sig

isItSoft404(r) ==
  /\ r.status \in {200, 203, 206}
  /\ \E i \in DOMAIN r.body : r.body[i].sig

Soft404s(records) == Cardinality({i \in DOMAIN records : isItSoft404(records[i])})

\* WafHit: the line printed for that many anomalous latencies and soft 404s.
WafHit(anomalies, soft404s) ==
  IF anomalies >= 2 /\ soft404s >= 2 THEN "critical"
  ELSE IF anomalies >= 1 /\ soft404s >= 1 THEN "warning"
  ELSE CASE anomalies >= 2 /\ soft404s = 0 -> "throttling"
         [] anomalies = 0 /\ soft404s >= 2 -> "soft404"
         [] OTHER -> "silent"
=============================================================================
