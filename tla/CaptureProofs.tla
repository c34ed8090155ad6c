---------------------------- MODULE CaptureProofs ----------------------------
(***************************************************************************)
(* The body capture, for any word lists, answers and DNS replies, and any  *)
(* number of reads and batches: what a scan holds at each statement, what  *)
(* stands in the record it leaves, that a report is read back as it was    *)
(* written, and what the WAF catcher's line says of it.                    *)
(***************************************************************************)
EXTENDS BodyCapture, SequenceTheorems, FiniteSetTheorems, InductionLemmas

Scanning == {"check", "call", "scan", "connect", "tls", "read", "collect"}
Statements == {"idle", "next", "crashed"} \cup Scanning

Texts == Targets \cup {""}
Data  == [target : Texts, status : Int, body : Seq(BodyLines)]

\* A record of word w: what RecordOfAnswer says of each.
Sound(r, w) ==
  r.of # NoAnswer =>
    /\ r.target = w
    /\ r.body = SubSeq(r.of.body, 1, Len(r.body))
    /\ StatusOf(r.of, r.status)

CaptureTypeOK ==
  /\ pc \in Statements
  /\ words \in Seq(Targets)
  /\ engine \in BOOLEAN /\ fd \in BOOLEAN /\ ssl \in BOOLEAN /\ ended \in BOOLEAN
  /\ answer \in Answers \cup {NoAnswer}
  /\ lines \in Nat
  /\ data \in Data
  /\ records \in Seq([target : Texts, status : Int, body : Seq(BodyLines),
                      of : Answers \cup {NoAnswer}])

\* What the scan holds at each statement.
HeldInv ==
  /\ pc \in {"idle", "next"} => ~engine
  /\ pc \in {"idle", "next", "check", "call", "scan", "collect"} => ~fd /\ ~ssl
  /\ pc \in {"connect", "tls"} => ~ssl
  /\ pc \in {"tls", "read"} => fd
  /\ ssl => fd

\* The struct of the scan in progress, once the end of its header was read.
DataInv ==
  /\ pc \in Scanning => words # <<>>
  /\ pc \in {"connect", "tls", "read"} => data.target = Head(words)
  /\ ended /\ pc # "crashed" =>
       /\ pc \in {"read", "collect"} /\ answer # NoAnswer
       /\ data.target = Head(words)
       /\ lines <= Len(answer.body)
       /\ StatusOf(answer, data.status)
  /\ ended /\ pc = "collect" => data.body = SubSeq(answer.body, 1, Len(data.body))

\* The words that are done are those of the records.
ListInv ==
  pc # "crashed" /\ (pc # "idle" \/ records # <<>>) =>
    \E list \in WordLists :
      /\ Len(list) = Len(records) + Len(words)
      /\ words = SubSeq(list, Len(records) + 1, Len(list))
      /\ \A i \in DOMAIN records : Sound(records[i], list[i])

CaptureInv == CaptureTypeOK /\ HeldInv /\ DataInv /\ ListInv

----------------------------------------------------------------------------
\* The statuses of an answer are integers, and the body of no answer is empty.
LEMMA AnswerType ==
  ASSUME NEW a \in Answers \cup {NoAnswer}
  PROVE  /\ a.code \in Int /\ HeaderStatus(a) \in Int
         /\ a.body \in Seq(BodyLines)
         /\ \A n \in DOMAIN a.body : a.body[n].quote \in Int
  <1>1. <<>> \in Seq(BodyLines)
    OBVIOUS
  <1>2. \A b \in Answers : b.code \in Int /\ b.via \in Int /\ b.body \in Seq(BodyLines)
    <2>1. ASSUME NEW b \in Answers
          PROVE  /\ b.code \in Int \ {0} /\ b.via \in Nat \cup {-1}
                 /\ b.body \in Seq(BodyLines)
      BY CaptureAssumption
    <2> QED BY <2>1
  <1>3. a.code \in Int /\ a.via \in Int /\ a.body \in Seq(BodyLines)
    <2>1. CASE a \in Answers
      BY <1>2, <2>1
    <2>2. CASE a = NoAnswer
      <3>1. NoAnswer.code = 0 /\ NoAnswer.via = 0 /\ NoAnswer.body = <<>>
        BY DEF NoAnswer
      <3> QED BY <1>1, <2>2, <3>1
    <2> QED BY <2>1, <2>2
  <1>4. Blank.quote = 0 /\ Dashes.quote = 0
    BY DEF Blank, Dashes, Line
  <1>5. \A b \in BodyLines : b.quote \in Int
    BY <1>4 DEF BodyLines
  <1>6. DOMAIN a.body = 1..Len(a.body) /\ \A n \in 1..Len(a.body) : a.body[n] \in BodyLines
    BY <1>3
  <1> QED BY <1>3, <1>5, <1>6 DEF HeaderStatus

\* Whatever is read with the end of the header is a status of the answer.
LEMMA StatusRead ==
  ASSUME NEW a \in Answers \cup {NoAnswer}, NEW n \in 0..Len(a.body),
         NEW status \in StatusIn(a, n)
  PROVE  status \in Int /\ StatusOf(a, status)
  <1> DEFINE quoting == {k \in 1..n : a.body[k].quote # 0}
             last    == CHOOSE k \in quoting : \A j \in quoting : j <= k
             quoted  == {a.body[k].quote : k \in DOMAIN a.body} \ {0}
  <1>1. CASE status = HeaderStatus(a)
    BY <1>1, AnswerType DEF StatusOf
  <1>2. ASSUME NEW k \in DOMAIN a.body, a.body[k].quote # 0,
               status \in {-1, a.body[k].quote}
        PROVE  status \in Int /\ StatusOf(a, status)
    <2>1. a.body[k].quote \in quoted /\ status \in Int
      BY <1>2, AnswerType
    <2> QED BY <1>2, <2>1 DEF StatusOf
  <1>3. CASE quoting # {} /\ status = a.body[last].quote
    <2>1. n \in Nat /\ quoting \in SUBSET (1..n)
      BY AnswerType
    <2>2. \E k \in quoting : \A j \in quoting : j <= k
      <3> HIDE DEF quoting
      <3> QED BY <1>3, <2>1, Greatest
    <2>3. last \in quoting
      <3> HIDE DEF quoting
      <3> QED BY <2>2
    <2>4. last \in DOMAIN a.body /\ a.body[last].quote # 0
      <3> HIDE DEF last
      <3> QED BY <2>1, <2>3, AnswerType
    <2> HIDE DEF last
    <2> QED BY <1>2, <1>3, <2>4
  <1>4. \/ status = HeaderStatus(a)
        \/ quoting # {} /\ status = a.body[last].quote
        \/ \E k \in DOMAIN a.body : a.body[k].quote # 0 /\ status \in {-1, a.body[k].quote}
    BY DEF StatusIn
  <1> HIDE DEF quoting, last
  <1> QED BY <1>1, <1>2, <1>3, <1>4

\* An empty struct is a struct, and whatever is left on the stack is one.
LEMMA StructType ==
  /\ Zero \in Data
  /\ Leftovers \subseteq Data
  <1>1. <<>> \in Seq(BodyLines)
    OBVIOUS
  <1>2. Zero \in Data
    BY <1>1 DEF Zero, Data, Texts
  <1> QED BY <1>2, CaptureAssumption DEF Data, Texts

\* A struct with another status is a struct.
LEMMA StatusSet ==
  ASSUME NEW d \in Data, NEW status \in Int
  PROVE  /\ [d EXCEPT !.status = status] \in Data
         /\ [d EXCEPT !.status = status].target = d.target
         /\ [d EXCEPT !.status = status].status = status
  BY DEF Data

\* What is copied from the buffer is a front of the body, as long as it says.
LEMMA FrontType ==
  ASSUME NEW a \in Answers \cup {NoAnswer}, NEW n \in Nat, n <= Len(a.body)
  PROVE  LET front == SubSeq(a.body, 1, Least(n, Full))
         IN front \in Seq(BodyLines) /\ front = SubSeq(a.body, 1, Len(front))
  <1> DEFINE m == Least(n, Full)
  <1>1. Full \in Nat
    BY CaptureAssumption
  <1>2. a.body \in Seq(BodyLines) /\ Len(a.body) \in Nat
    BY AnswerType
  <1>3. m \in 0..Len(a.body)
    BY <1>1, <1>2 DEF Least
  <1> HIDE DEF m
  <1> SUFFICES /\ SubSeq(a.body, 1, m) \in Seq(BodyLines)
               /\ Len(SubSeq(a.body, 1, m)) = m
    BY DEF m
  <1> QED BY <1>2, <1>3

\* A word is done: the list is the same, one record longer and one word shorter.
LEMMA WordDone ==
  ASSUME NEW list \in Seq(Targets), NEW rest \in Seq(Targets), rest # <<>>,
         NEW n \in Nat, Len(list) = n + Len(rest),
         rest = SubSeq(list, n + 1, Len(list))
  PROVE  /\ Head(rest) = list[n + 1]
         /\ Len(list) = (n + 1) + Len(Tail(rest))
         /\ Tail(rest) = SubSeq(list, (n + 1) + 1, Len(list))
  <1>1. Len(list) \in Nat /\ Len(rest) \in Nat \ {0}
    BY EmptySeq, LenProperties
  <1>2. n + 1 \in 1..Len(list) /\ Len(list) \in (n + 1)..Len(list)
    BY <1>1
  <1>3. Head(rest) = list[n + 1] /\ Tail(rest) = SubSeq(list, (n + 1) + 1, Len(list))
    BY <1>2, HeadTailOfSubSeq
  <1>4. Len(Tail(rest)) = Len(rest) - 1
    BY HeadTailProperties
  <1>5. Len(list) = (n + 1) + (Len(rest) - 1)
    <2>1. \A k, l \in Nat : l = n + k => l = (n + 1) + (k - 1)
      OBVIOUS
    <2> QED BY <1>1, <2>1, Zenon
  <1> QED BY <1>3, <1>4, <1>5, Zenon

\* A record is kept: it is sound for its word, or it is of no answer.
LEMMA RecordKept ==
  ASSUME CaptureTypeOK, ListInv, words # <<>>, pc \in Scanning,
         NEW result \in Data, NEW of \in Answers \cup {NoAnswer},
         Kept(result, of),
         of # NoAnswer =>
           /\ result.target = Head(words)
           /\ result.body = SubSeq(of.body, 1, Len(result.body))
           /\ StatusOf(of, result.status)
  PROVE  /\ \E list \in WordLists :
              /\ Len(list) = Len(records') + Len(words')
              /\ words' = SubSeq(list, Len(records') + 1, Len(list))
              /\ \A i \in DOMAIN records' : Sound(records'[i], list[i])
         /\ records' \in Seq([target : Texts, status : Int, body : Seq(BodyLines),
                               of : Answers \cup {NoAnswer}])
         /\ words' \in Seq(Targets)
  <1> DEFINE r == [target |-> result.target, status |-> result.status,
                   body |-> result.body, of |-> of]
             Recs == [target : Texts, status : Int, body : Seq(BodyLines),
                      of : Answers \cup {NoAnswer}]
             n == Len(records)
  <1>1. PICK list \in WordLists :
          /\ Len(list) = Len(records) + Len(words)
          /\ words = SubSeq(list, Len(records) + 1, Len(list))
          /\ \A i \in DOMAIN records : Sound(records[i], list[i])
    BY DEF ListInv, Scanning
  <1>2. list \in Seq(Targets) /\ words \in Seq(Targets) /\ records \in Seq(Recs) /\ n \in Nat
    <2>1. list \in Seq(Targets)
      BY CaptureAssumption
    <2>2. words \in Seq(Targets) /\ records \in Seq(Recs)
      BY DEF CaptureTypeOK
    <2> HIDE DEF Recs
    <2> QED BY <2>1, <2>2, LenProperties
  <1>3. r \in Recs
    BY DEF Data
  <1>4. records' = Append(records, r) /\ words' = Tail(words)
    BY DEF Kept
  <1>5. /\ records' \in Seq(Recs) /\ Len(records') = n + 1 /\ records'[n + 1] = r
        /\ \A i \in 1..n : records'[i] = records[i]
    <2> HIDE DEF Recs, r
    <2> QED BY <1>2, <1>3, <1>4, AppendProperties
  <1>6. Head(words) = list[n + 1] /\ Len(list) = (n + 1) + Len(Tail(words))
        /\ Tail(words) = SubSeq(list, (n + 1) + 1, Len(list))
    BY <1>1, <1>2, WordDone
  <1>7. Sound(r, list[n + 1])
    BY <1>6 DEF Sound
  <1>8. \A i \in DOMAIN records' : Sound(records'[i], list[i])
    <2> HIDE DEF r, Recs
    <2>1. DOMAIN records' = 1..(n + 1) /\ DOMAIN records = 1..n
      BY <1>2, <1>5
    <2>2. \A i \in 1..(n + 1) : i \in 1..n \/ i = n + 1
      BY <1>2
    <2> QED BY <1>1, <1>5, <1>7, <2>1, <2>2
  <1>9. words' \in Seq(Targets)
    BY <1>2, <1>4
  <1> HIDE DEF r, Recs, n
  <1>10. Len(list) = Len(records') + Len(words')
         /\ words' = SubSeq(list, Len(records') + 1, Len(list))
    BY <1>4, <1>5, <1>6
  <1> QED BY <1>1, <1>5, <1>8, <1>9, <1>10 DEF Recs

\* Initially the invariant holds.
LEMMA CaptureInitially ==
  ASSUME Init
  PROVE  CaptureInv
  <1>1. CaptureTypeOK
    <2>1. Zero \in Data
      BY StructType
    <2>2. words \in Seq(Targets)
      BY EmptySeq DEF Init
    <2>3. records \in Seq([target : Texts, status : Int, body : Seq(BodyLines),
                           of : Answers \cup {NoAnswer}])
      BY EmptySeq, Zenon DEF Init
    <2>4. lines \in Nat /\ pc \in Statements
      BY DEF Init, Statements
    <2> QED BY <2>1, <2>2, <2>3, <2>4, Zenon DEF Init, CaptureTypeOK
  <1>2. HeldInv /\ DataInv /\ ListInv
    BY DEF Init, HeldInv, DataInv, ListInv, Scanning
  <1> QED BY <1>1, <1>2 DEF CaptureInv

\* Every step keeps the types.
LEMMA TypeStep ==
  ASSUME CaptureInv, Next
  PROVE  CaptureTypeOK'
  <1> USE DEF CaptureTypeOK, Statements, Scanning
  <1>0. CaptureTypeOK /\ DataInv
    BY DEF CaptureInv
  <1>1. CASE BeginBatch
    <2>1. words' \in Seq(Targets) /\ records' = <<>>
      BY <1>1, CaptureAssumption DEF BeginBatch
    <2> QED BY <1>0, <1>1, <2>1 DEF BeginBatch, netVars, readVars
  <1>2. CASE CreateEngine
    BY <1>0, <1>2 DEF CreateEngine, batchVars, readVars
  <1>3. CASE EmptyReply \/ NotCancelled \/ CancelledInside \/ ReadJunk
    BY <1>0, <1>3 DEF EmptyReply, NotCancelled, CancelledInside, ReadJunk, batchVars, netVars,
      readVars
  <1>4. CASE CancelledBefore
    <2>1. words' \in Seq(Targets) /\ records' \in Seq([target : Texts, status : Int,
             body : Seq(BodyLines), of : Answers \cup {NoAnswer}])
      <3>1. words # <<>> /\ ListInv
        BY <1>4 DEF CancelledBefore, CaptureInv, DataInv
      <3> QED BY <1>0, <1>4, <3>1, StructType, RecordKept DEF CancelledBefore
    <2> QED BY <1>0, <1>4, <2>1, StructType DEF CancelledBefore, Kept
  <1>5. CASE CallScan
    BY <1>0, <1>5, StructType DEF CallScan, batchVars, netVars, readVars
  <1>6. CASE OpenSocket
    <2>1. Head(words) \in Targets
      BY <1>0, <1>6 DEF OpenSocket, DataInv
    <2>2. data' \in Data
      BY <1>0, <1>6, <2>1 DEF OpenSocket, Data, Texts
    <2> QED BY <1>0, <1>6, <2>2 DEF OpenSocket, batchVars, readVars
  <1>7. CASE ConnectFails \/ TlsFails
    BY <1>0, <1>7, StructType DEF ConnectFails, TlsFails, GiveUp, batchVars, readVars
  <1>8. CASE Connects \/ TlsConnects
    BY <1>0, <1>8 DEF Connects, TlsConnects, batchVars, readVars
  <1>9. CASE ReadHeader
    <2>1. PICK status \in {-1, answer.code, HeaderStatus(answer)} :
            data' = [data EXCEPT !.status = status]
      BY <1>9 DEF ReadHeader
    <2>2. status \in Int
      BY <1>0, AnswerType
    <2>3. data' \in Data
      BY <1>0, <2>1, <2>2, StatusSet
    <2> QED BY <1>0, <1>9, <2>3 DEF ReadHeader, batchVars, netVars
  <1>10. CASE ReadHeaderEnd
    <2>1. PICK n \in 0..Len(answer.body) :
            /\ lines' = n
            /\ \E status \in StatusIn(answer, n) : data' = [data EXCEPT !.status = status]
      BY <1>10 DEF ReadHeaderEnd
    <2>2. PICK status \in StatusIn(answer, n) : data' = [data EXCEPT !.status = status]
      BY <2>1
    <2>3. data' \in Data
      <3>1. status \in Int
        BY <1>0, StatusRead
      <3> QED BY <1>0, <2>2, <3>1, StatusSet
    <2>4. lines' \in Nat
      BY <2>1
    <2> QED BY <1>0, <1>10, <2>3, <2>4 DEF ReadHeaderEnd, batchVars, netVars
  <1>11. CASE ReadBody
    <2>1. lines' \in Nat
      BY <1>0, <1>11 DEF ReadBody
    <2> QED BY <1>0, <1>11, <2>1 DEF ReadBody, batchVars, netVars
  <1>12. CASE EndOfAnswer
    <2>1. ended => SubSeq(answer.body, 1, Least(lines, Full)) \in Seq(BodyLines)
      BY <1>0, <1>12, FrontType DEF EndOfAnswer, DataInv
    <2>2. data' \in Data
      BY <1>0, <1>12, <2>1 DEF EndOfAnswer, Data
    <2> QED BY <1>0, <1>12, <2>2 DEF EndOfAnswer, batchVars, readVars
  <1>13. CASE Collect
    <2>1. words' \in Seq(Targets) /\ records' \in Seq([target : Texts, status : Int,
             body : Seq(BodyLines), of : Answers \cup {NoAnswer}])
      <3> DEFINE of == IF ended THEN answer ELSE NoAnswer
      <3>1. words # <<>> /\ ListInv /\ pc \in Scanning
        BY <1>13 DEF Collect, CaptureInv, DataInv
      <3>2. of \in Answers \cup {NoAnswer} /\ Kept(data, of)
        BY <1>0, <1>13 DEF Collect
      <3>3. of # NoAnswer =>
              /\ data.target = Head(words)
              /\ data.body = SubSeq(of.body, 1, Len(data.body))
              /\ StatusOf(of, data.status)
        BY <1>0, <1>13 DEF Collect, DataInv
      <3> HIDE DEF of
      <3> QED BY <1>0, <3>1, <3>2, <3>3, RecordKept
    <2> QED BY <1>0, <1>13, <2>1, StructType DEF Collect, Kept
  <1>14. CASE WriteReport \/ WriteFails \/ WriteCutShort
    BY <1>0, <1>14 DEF WriteReport, WriteFails, WriteCutShort, batchVars, netVars, readVars
  <1>15. CASE Restart
    <2>1. words' \in Seq(Targets) /\ data' \in Data
      BY <1>15, StructType, EmptySeq DEF Restart
    <2>2. (records \in Seq([target : Texts, status : Int, body : Seq(BodyLines),
                            of : Answers \cup {NoAnswer}]))'
      BY <1>15, EmptySeq, Zenon DEF Restart
    <2> QED BY <1>0, <1>15, <2>1, <2>2 DEF Restart
  <1>16. CASE Cancel \/ CatchWaf
    BY <1>0, <1>16 DEF Cancel, CatchWaf, batchVars, netVars, readVars
  <1> QED BY <1>1, <1>2, <1>3, <1>4, <1>5, <1>6, <1>7, <1>8, <1>9, <1>10, <1>11, <1>12, <1>13,
             <1>14, <1>15, <1>16 DEF Next

\* Every step keeps what is held.
LEMMA HeldStep ==
  ASSUME CaptureInv, Next
  PROVE  HeldInv'
  <1> USE DEF HeldInv
  <1>0. HeldInv /\ fd \in BOOLEAN /\ ssl \in BOOLEAN
    BY DEF CaptureInv, CaptureTypeOK
  <1>1. CASE BeginBatch
    BY <1>0, <1>1 DEF BeginBatch, netVars
  <1>2. CASE CreateEngine \/ EmptyReply
    BY <1>0, <1>2 DEF CreateEngine, EmptyReply, netVars
  <1>3. CASE CancelledBefore \/ Collect
    BY <1>0, <1>3 DEF CancelledBefore, Collect, Kept
  <1>4. CASE NotCancelled \/ CallScan \/ CancelledInside
    BY <1>0, <1>4 DEF NotCancelled, CallScan, CancelledInside, netVars
  <1>5. CASE OpenSocket \/ Connects \/ TlsConnects
    BY <1>0, <1>5 DEF OpenSocket, Connects, TlsConnects
  <1>6. CASE ConnectFails \/ TlsFails \/ EndOfAnswer
    BY <1>0, <1>6 DEF ConnectFails, TlsFails, GiveUp, EndOfAnswer
  <1>7. CASE ReadJunk \/ ReadHeader \/ ReadHeaderEnd \/ ReadBody
    BY <1>0, <1>7 DEF ReadJunk, ReadHeader, ReadHeaderEnd, ReadBody, netVars
  <1>8. CASE WriteReport \/ WriteFails \/ WriteCutShort
    BY <1>0, <1>8 DEF WriteReport, WriteFails, WriteCutShort, Done, netVars
  <1>9. CASE Restart
    BY <1>0, <1>9 DEF Restart
  <1>10. CASE Cancel \/ CatchWaf
    BY <1>0, <1>10 DEF Cancel, CatchWaf, netVars
  <1> QED BY <1>1, <1>2, <1>3, <1>4, <1>5, <1>6, <1>7, <1>8, <1>9, <1>10 DEF Next

\* Every step keeps the record in progress.
LEMMA DataStep ==
  ASSUME CaptureInv, Next
  PROVE  DataInv'
  <1> USE DEF DataInv, Scanning
  <1>0. DataInv /\ data \in Data /\ answer \in Answers \cup {NoAnswer} /\ lines \in Nat
        /\ ended \in BOOLEAN /\ pc \in Statements
    BY DEF CaptureInv, CaptureTypeOK
  <1>1. CASE BeginBatch \/ EmptyReply
    BY <1>0, <1>1 DEF BeginBatch, EmptyReply, batchVars, netVars, readVars
  <1>2. CASE CreateEngine
    BY <1>0, <1>2 DEF CreateEngine, batchVars, readVars
  <1>3. CASE CancelledBefore \/ Collect
    BY <1>3 DEF CancelledBefore, Collect, Kept
  <1>4. CASE NotCancelled \/ CallScan \/ CancelledInside
    BY <1>0, <1>4 DEF NotCancelled, CallScan, CancelledInside, batchVars, netVars, readVars
  <1>5. CASE OpenSocket
    <2>1. data'.target = Head(words)
      BY <1>0, <1>5 DEF OpenSocket, Data
    <2> QED BY <1>0, <1>5, <2>1 DEF OpenSocket, batchVars, readVars
  <1>6. CASE Connects \/ TlsConnects
    BY <1>0, <1>6 DEF Connects, TlsConnects, batchVars, readVars
  <1>7. CASE ConnectFails \/ TlsFails
    BY <1>0, <1>7 DEF ConnectFails, TlsFails, GiveUp, batchVars, readVars
  <1>8. CASE ReadJunk
    BY <1>0, <1>8 DEF ReadJunk, batchVars, netVars, readVars
  <1>9. CASE ReadHeader
    <2>1. PICK status \in {-1, answer.code, HeaderStatus(answer)} :
            data' = [data EXCEPT !.status = status]
      BY <1>9 DEF ReadHeader
    <2>2. data'.target = data.target
      BY <1>0, <2>1 DEF Data
    <2> QED BY <1>0, <1>9, <2>2 DEF ReadHeader, batchVars, netVars
  <1>10. CASE ReadHeaderEnd
    <2>1. PICK n \in 0..Len(answer.body) :
            /\ lines' = n
            /\ \E status \in StatusIn(answer, n) : data' = [data EXCEPT !.status = status]
      BY <1>10 DEF ReadHeaderEnd
    <2>2. PICK status \in StatusIn(answer, n) : data' = [data EXCEPT !.status = status]
      BY <2>1
    <2>3. status \in Int /\ StatusOf(answer, status)
      BY <1>0, StatusRead
    <2>4. /\ data'.target = data.target /\ data'.status = status
          /\ StatusOf(answer, data'.status)
      BY <1>0, <2>2, <2>3, StatusSet
    <2>5. lines' <= Len(answer.body)
      BY <1>0, <2>1, AnswerType
    <2> QED BY <1>0, <1>10, <2>4, <2>5 DEF ReadHeaderEnd, batchVars, netVars
  <1>11. CASE ReadBody
    <2>1. lines' <= Len(answer.body)
      BY <1>0, <1>11, AnswerType DEF ReadBody
    <2> QED BY <1>0, <1>11, <2>1 DEF ReadBody, batchVars, netVars
  <1>12. CASE EndOfAnswer
    <2> DEFINE front == SubSeq(answer.body, 1, Least(lines, Full))
    <2>1. CASE ended
      <3>1. data'.target = data.target /\ data'.status = data.status /\ data'.body = front
        BY <1>0, <1>12, <2>1 DEF EndOfAnswer, Data
      <3>2. front = SubSeq(answer.body, 1, Len(front))
        BY <1>0, <1>12, <2>1, FrontType DEF EndOfAnswer
      <3> HIDE DEF front
      <3> QED BY <1>0, <1>12, <2>1, <3>1, <3>2 DEF EndOfAnswer, batchVars, readVars
    <2>2. CASE ~ended
      BY <1>0, <1>12, <2>2 DEF EndOfAnswer, batchVars, readVars
    <2> QED BY <1>0, <2>1, <2>2
  <1>13. CASE WriteReport \/ WriteFails \/ WriteCutShort
    BY <1>0, <1>13 DEF WriteReport, WriteFails, WriteCutShort, Done, batchVars, netVars, readVars
  <1>14. CASE Restart
    BY <1>14 DEF Restart
  <1>15. CASE Cancel \/ CatchWaf
    BY <1>0, <1>15 DEF Cancel, CatchWaf, batchVars, netVars, readVars
  <1> QED BY <1>1, <1>2, <1>3, <1>4, <1>5, <1>6, <1>7, <1>8, <1>9, <1>10, <1>11, <1>12, <1>13,
             <1>14, <1>15 DEF Next

\* Every step keeps the list.
LEMMA ListStep ==
  ASSUME CaptureInv, Next
  PROVE  ListInv'
  <1>0. CaptureTypeOK /\ DataInv /\ ListInv
    BY DEF CaptureInv
  <1>1. CASE BeginBatch
    <2>1. words' \in WordLists /\ words' \in Seq(Targets) /\ records' = <<>>
      BY <1>1, CaptureAssumption DEF BeginBatch
    <2>2. Len(words') = Len(records') + Len(words') /\ Len(records') = 0
          /\ words' = SubSeq(words', Len(records') + 1, Len(words'))
          /\ DOMAIN records' = {}
      BY <2>1, SubSeqFull, LenProperties
    <2> QED BY <2>1, <2>2 DEF ListInv
  <1>2. CASE CancelledBefore
    <2>1. words # <<>> /\ pc \in Scanning
      BY <1>0, <1>2 DEF CancelledBefore, DataInv, Scanning
    <2> QED BY <1>0, <1>2, <2>1, StructType, RecordKept DEF CancelledBefore, ListInv
  <1>3. CASE Collect
    <2> DEFINE of == IF ended THEN answer ELSE NoAnswer
    <2>1. words # <<>> /\ pc \in Scanning
      BY <1>0, <1>3 DEF Collect, DataInv, Scanning
    <2>2. of \in Answers \cup {NoAnswer} /\ Kept(data, of) /\ data \in Data
      BY <1>0, <1>3 DEF Collect, CaptureTypeOK
    <2>3. of # NoAnswer =>
            /\ data.target = Head(words)
            /\ data.body = SubSeq(of.body, 1, Len(data.body))
            /\ StatusOf(of, data.status)
      BY <1>0, <1>3 DEF Collect, DataInv
    <2> HIDE DEF of
    <2> QED BY <1>0, <2>1, <2>2, <2>3, RecordKept DEF ListInv
  <1>4. CASE Restart
    BY <1>4 DEF Restart, ListInv
  <1>5. CASE WriteReport \/ WriteFails \/ WriteCutShort
    <2>1. words' = words /\ records' = records /\ pc = "next"
      BY <1>5 DEF WriteReport, WriteFails, WriteCutShort, Done, batchVars
    <2> QED BY <1>0, <2>1 DEF ListInv
  <1>6. CASE \/ CreateEngine \/ EmptyReply \/ NotCancelled \/ CallScan \/ CancelledInside
             \/ OpenSocket \/ ConnectFails \/ Connects \/ TlsFails \/ TlsConnects
             \/ ReadJunk \/ ReadHeader \/ ReadHeaderEnd \/ ReadBody \/ EndOfAnswer
             \/ Cancel \/ CatchWaf
    <2>1. words' = words /\ records' = records
      BY <1>6 DEF CreateEngine, EmptyReply, NotCancelled, CallScan, CancelledInside, OpenSocket,
        ConnectFails, Connects, TlsFails, TlsConnects, GiveUp, ReadJunk, ReadHeader,
        ReadHeaderEnd, ReadBody, EndOfAnswer, Cancel, CatchWaf, batchVars
    <2>2. pc' \notin {"idle", "crashed"} => pc \notin {"idle", "crashed"}
      BY <1>6 DEF CreateEngine, EmptyReply, NotCancelled, CallScan, CancelledInside, OpenSocket,
        ConnectFails, Connects, TlsFails, TlsConnects, GiveUp, ReadJunk, ReadHeader,
        ReadHeaderEnd, ReadBody, EndOfAnswer, Cancel, CatchWaf
    <2>3. pc' = "idle" => pc = "idle"
      BY <1>6 DEF CreateEngine, EmptyReply, NotCancelled, CallScan, CancelledInside, OpenSocket,
        ConnectFails, Connects, TlsFails, TlsConnects, GiveUp, ReadJunk, ReadHeader,
        ReadHeaderEnd, ReadBody, EndOfAnswer, Cancel, CatchWaf
    <2> QED BY <1>0, <2>1, <2>2, <2>3 DEF ListInv
  <1> QED BY <1>1, <1>2, <1>3, <1>4, <1>5, <1>6 DEF Next

\* Whatever was done, the invariant holds.
LEMMA CaptureInvariant == Spec => []CaptureInv
  <1>1. CaptureInv /\ UNCHANGED vars => CaptureInv'
    <2> SUFFICES ASSUME CaptureInv, UNCHANGED vars
                 PROVE  CaptureInv'
      OBVIOUS
    <2>1. CaptureTypeOK'
      BY DEF CaptureInv, CaptureTypeOK, vars, batchVars, netVars, readVars
    <2>2. HeldInv' /\ DataInv'
      BY DEF CaptureInv, HeldInv, DataInv, vars, batchVars, netVars, readVars
    <2>3. ListInv'
      BY DEF CaptureInv, ListInv, vars, batchVars
    <2> QED BY <2>1, <2>2, <2>3 DEF CaptureInv
  <1>2. CaptureInv /\ Next => CaptureInv'
    BY TypeStep, HeldStep, DataStep, ListStep DEF CaptureInv
  <1>3. Init => CaptureInv
    BY CaptureInitially
  <1> QED BY <1>1, <1>2, <1>3, PTL DEF Spec

\* No way out of a scan leaves a socket, a TLS structure or an engine behind
\* (res_body_captio.cpp:82-236, Capture.cs:65-77).
THEOREM CaptureReleasesCorrect == Spec => []CaptureReleases
  <1>1. CaptureInv => CaptureReleases
    BY DEF CaptureInv, HeldInv, CaptureReleases
  <1> QED BY <1>1, CaptureInvariant, PTL

\* The records are those of the words, in order, and say of each what its answer says,
\* or -1 where its body names HTTP
\* (ScanFunc.cs:96-101, res_body_captio.cpp:177-185, :238-244, wires.cpp:95-125).
THEOREM RecordOfAnswerCorrect == Spec => []RecordOfAnswer
  <1>1. CaptureInv => RecordOfAnswer
    BY DEF CaptureInv, ListInv, Sound, RecordOfAnswer
  <1> QED BY <1>1, CaptureInvariant, PTL

-----------------------------------------------------------------------------
(* The lines of a report, what they weigh, and where a body ends. *)

\* The lines a report is made of.
LineType == BodyLines \cup {Blank, Dashes, NoBody} \cup {Status(n) : n \in Int}
                      \cup {Target(t) : t \in Texts}

RecType == [target : Texts, status : Int, body : Seq(BodyLines), of : Answers \cup {NoAnswer}]

\* What tells the lines apart.
LEMMA LineFacts ==
  /\ \A l \in LineType : l.weight \in Nat \ {0}
  /\ Blank # Dashes /\ NoBody # Blank /\ NoBody # Dashes /\ NoBody.weight = 1 /\ ~NoBody.sig
  /\ \A n \in Int : Status(n) # Dashes /\ Status(n).code = n
  /\ Target("") = Blank
  /\ \A t \in Texts : t # "" => Target(t) # Blank /\ Target(t).of = t
  /\ BodyLines \subseteq LineType /\ Blank \in LineType /\ Dashes \in LineType /\ NoBody \in LineType
  /\ \A n \in Int : Status(n) \in LineType
  /\ \A t \in Texts : Target(t) \in LineType
  <1>1. ASSUME NEW l \in BodyLines PROVE l.weight \in Nat \ {0}
    <2>1. Blank.weight = 1 /\ Dashes.weight = 1
      BY DEF Blank, Dashes, Line
    <2>2. 1 \in Nat \ {0}
      OBVIOUS
    <2>3. CASE l = Blank \/ l = Dashes
      BY <2>1, <2>2, <2>3, Zenon
    <2>4. CASE l # Blank /\ l # Dashes
      <3>1. l \in [kind : {"text"}, of : {"body"}, code : {0}, sig : BOOLEAN,
                   quote : Nat \cup {-1}, weight : Nat \ {0}]
        BY <2>4 DEF BodyLines
      <3> QED BY <3>1
    <2> QED BY <2>3, <2>4
  <1>2. /\ Blank.weight = 1 /\ Dashes.weight = 1 /\ NoBody.weight = 1
        /\ \A n \in Int : Status(n).weight = 1 /\ Status(n).kind = "text" /\ Status(n).code = n
        /\ Blank.kind = "blank" /\ Dashes.kind = "dashes" /\ NoBody.kind = "text"
        /\ \A t \in Texts : t # "" => /\ Target(t).weight = 1 /\ Target(t).kind = "text"
                                      /\ Target(t).of = t
        /\ Target("") = Blank /\ ~NoBody.sig
    BY DEF Blank, Dashes, NoBody, Status, Target, Line
  <1>3. \A t \in Texts : Target(t).weight = 1
    <2>1. ASSUME NEW t \in Texts PROVE Target(t).weight = 1
      BY <1>2, <2>1
    <2> QED BY <2>1
  <1>4. \A l \in LineType : l.weight \in Nat \ {0}
    <2>1. 1 \in Nat \ {0}
      OBVIOUS
    <2>2. ASSUME NEW l \in LineType PROVE l \in BodyLines \/ l.weight = 1
      <3>1. \/ l \in BodyLines \/ l = Blank \/ l = Dashes \/ l = NoBody
            \/ (\E n \in Int : l = Status(n)) \/ \E t \in Texts : l = Target(t)
        BY DEF LineType
      <3> QED BY <1>2, <1>3, <3>1, Zenon
    <2> QED BY <1>1, <2>1, <2>2, Zenon
  <1>5. /\ BodyLines \subseteq LineType /\ Blank \in LineType /\ Dashes \in LineType
        /\ NoBody \in LineType /\ (\A n \in Int : Status(n) \in LineType)
        /\ \A t \in Texts : Target(t) \in LineType
    BY DEF LineType
  <1>6. Blank # Dashes /\ NoBody # Blank /\ NoBody # Dashes
    BY <1>2
  <1>7. ASSUME NEW n \in Int PROVE Status(n) # Dashes
    BY <1>2
  <1>8. ASSUME NEW t \in Texts, t # "" PROVE Target(t) # Blank
    BY <1>2, <1>8
  <1> QED BY <1>2, <1>4, <1>5, <1>6, <1>7, <1>8

\* What the fronts of a text weigh.
LEMMA WeightIs ==
  ASSUME NEW text \in Seq(LineType)
  PROVE  /\ Weight(text) \in [0..Len(text) -> Nat]
         /\ Weight(text)[0] = 0
         /\ \A i \in 1..Len(text) : Weight(text)[i] = Weight(text)[i - 1] + text[i].weight
  <1> DEFINE n == Len(text)
             Step(h) == h = [i \in 0..n |-> IF i = 0 THEN 0 ELSE h[i - 1] + text[i].weight]
             k == CHOOSE h : Step(h)
             g == [i \in 1..n |-> [u \in Nat |-> u + text[i].weight]]
  <1>1. n \in Nat /\ \A i \in 1..n : text[i].weight \in Nat
    BY LenProperties, ElementOfSeq, LineFacts
  <1> HIDE DEF n
  <1>2. g \in [1..n -> [Nat -> Nat]]
    BY <1>1
  <1>3. PICK f \in [0..n -> Nat] : Follows(f, n, 0, g)
    <2> HIDE DEF g
    <2>1. n \in Nat /\ 0 \in Nat /\ g \in [1..n -> [Nat -> Nat]]
      BY <1>1, <1>2
    <2> QED BY ONLY <2>1, Recursion
  <1>4. ASSUME NEW i \in 1..n PROVE f[i] = f[i - 1] + text[i].weight
    <2>1. f[i - 1] \in Nat
      BY <1>1
    <2> QED BY <1>3, <2>1 DEF Follows
  <1>5. f[0] = 0
    BY <1>3 DEF Follows
  <1>6. Step(f)
    <2>1. f = [i \in 0..n |-> f[i]]
      OBVIOUS
    <2>2. ASSUME NEW i \in 0..n
          PROVE  f[i] = IF i = 0 THEN 0 ELSE f[i - 1] + text[i].weight
      <3>1. CASE i = 0
        BY <1>5, <3>1
      <3>2. CASE i # 0
        <4>1. i \in 1..n
          BY <1>1, <3>2
        <4> QED BY <1>4, <3>2, <4>1
      <3> QED BY <3>1, <3>2
    <2> QED BY <2>1, <2>2
  <1>7. Step(k)
    <2> HIDE DEF Step
    <2> QED BY <1>6
  <1>8. Weight(text) = k
    BY DEF Weight, n
  <1> HIDE DEF k
  <1>9. k[0] = 0 /\ \A i \in 1..n : k[i] = k[i - 1] + text[i].weight
    <2>1. 0 \in 0..n
      BY <1>1
    <2>2. k[0] = 0
      BY <1>7, <2>1
    <2>3. ASSUME NEW i \in 1..n PROVE k[i] = k[i - 1] + text[i].weight
      <3>1. i \in 0..n /\ i # 0
        BY <1>1
      <3> QED BY <1>7, <3>1
    <2> QED BY <2>2, <2>3
  <1> DEFINE A == {i \in 0..n : k[i] \in Nat}
  <1>10. 0 \in A
    BY <1>1, <1>9
  <1>11. ASSUME NEW i \in 0..(n - 1), i \in A PROVE i + 1 \in A
    <2>1. i + 1 \in 1..n /\ i + 1 \in 0..n /\ (i + 1) - 1 = i /\ k[i] \in Nat
      BY <1>1, <1>11
    <2>2. k[i + 1] = k[i] + text[i + 1].weight
      BY <1>9, <2>1
    <2>3. text[i + 1].weight \in Nat
      BY <1>1, <2>1
    <2>4. k[i + 1] \in Nat
      BY <2>1, <2>2, <2>3
    <2> QED BY <2>1, <2>4
  <1>12. 0..n \subseteq A
    <2> HIDE DEF A
    <2> QED BY <1>1, <1>10, <1>11, InductionTo
  <1>13. k \in [0..n -> Nat]
    <2>1. k = [i \in 0..n |-> k[i]]
      <3>1. DOMAIN k = 0..n
        BY <1>7
      <3>2. \E h : k = [i \in 0..n |-> h[i]]
        <4>1. PICK h : h = [i \in 0..n |-> IF i = 0 THEN 0 ELSE k[i - 1] + text[i].weight]
          OBVIOUS
        <4>2. k = [i \in 0..n |-> h[i]]
          BY <1>7, <4>1
        <4> QED BY <4>2
      <3> QED BY <3>2
    <2>2. \A i \in 0..n : k[i] \in Nat
      BY <1>12
    <2> HIDE DEF A
    <2> QED BY <2>1, <2>2
  <1> QED BY <1>8, <1>9, <1>13 DEF n

\* A longer front weighs more.
LEMMA WeightGrows ==
  ASSUME NEW text \in Seq(LineType), NEW j \in 0..Len(text), NEW m \in 0..Len(text), j < m
  PROVE  Weight(text)[j] < Weight(text)[m]
  <1> DEFINE n == Len(text)
             w == Weight(text)
             A == {i \in 0..n : i <= j \/ w[j] < w[i]}
  <1>1. /\ n \in Nat /\ w \in [0..n -> Nat]
        /\ \A i \in 1..n : w[i] = w[i - 1] + text[i].weight /\ text[i].weight \in Nat \ {0}
    BY WeightIs, LenProperties, ElementOfSeq, LineFacts
  <1> HIDE DEF n, w
  <1>2. j \in 0..n /\ m \in 0..n
    BY DEF n
  <1>3. 0 \in A
    BY <1>1, <1>2
  <1>4. ASSUME NEW i \in 0..(n - 1), i \in A PROVE i + 1 \in A
    <2>1. i + 1 \in 1..n /\ i + 1 \in 0..n /\ i \in 0..n /\ (i + 1) - 1 = i
      BY <1>1
    <2>2. w[i + 1] = w[i] + text[i + 1].weight /\ text[i + 1].weight \in Nat \ {0}
      BY <1>1, <2>1
    <2>3. w[i] \in Nat /\ w[j] \in Nat
      BY <1>1, <1>2, <2>1
    <2>4. w[i] < w[i + 1]
      BY <2>2, <2>3
    <2>5. i + 1 <= j \/ w[j] < w[i + 1]
      BY <1>2, <1>4, <2>2, <2>3, <2>4
    <2> QED BY <2>1, <2>5
  <1>5. 0..n \subseteq A
    <2> HIDE DEF A
    <2> QED BY <1>1, <1>3, <1>4, InductionTo
  <1>6. m \in A /\ ~(m <= j)
    BY <1>2, <1>5
  <1> QED BY <1>6 DEF w

\* A body that stands in a text from line p + 1 weighs the same there.
LEMMA WeightThere ==
  ASSUME NEW text \in Seq(LineType), NEW body \in Seq(LineType), NEW p \in Nat,
         p + Len(body) <= Len(text), \A i \in 1..Len(body) : text[p + i] = body[i],
         NEW m \in 0..Len(body)
  PROVE  Weight(text)[p + m] - Weight(text)[p] = Weight(body)[m]
  <1> DEFINE n == Len(body)
             w == Weight(text)
             v == Weight(body)
             A == {i \in 0..n : w[p + i] - w[p] = v[i]}
  <1>1. /\ n \in Nat /\ v \in [0..n -> Nat] /\ v[0] = 0
        /\ \A i \in 1..n : v[i] = v[i - 1] + body[i].weight /\ body[i].weight \in Nat
    BY WeightIs, LenProperties, ElementOfSeq, LineFacts
  <1>2. /\ w \in [0..Len(text) -> Nat] /\ Len(text) \in Nat
        /\ \A i \in 1..Len(text) : w[i] = w[i - 1] + text[i].weight
    BY WeightIs, LenProperties
  <1>3. p + n <= Len(text) /\ (\A i \in 1..n : text[p + i] = body[i]) /\ m \in 0..n
    BY DEF n
  <1> HIDE DEF n, w, v
  <1>4. 0 \in A
    <2>1. w[p] \in Nat /\ p + 0 = p
      BY <1>1, <1>2, <1>3
    <2> QED BY <1>1, <2>1
  <1>5. ASSUME NEW i \in 0..(n - 1), i \in A PROVE i + 1 \in A
    <2>1. i + 1 \in 1..n /\ i + 1 \in 0..n /\ i \in 0..n /\ (i + 1) - 1 = i
      BY <1>1
    <2>2. p + (i + 1) \in 1..Len(text) /\ p + (i + 1) - 1 = p + i /\ p + i \in 0..Len(text)
          /\ p \in 0..Len(text)
      BY <1>1, <1>2, <1>3, <2>1
    <2>3. w[p + (i + 1)] = w[p + i] + body[i + 1].weight
      <3>1. text[p + (i + 1)] = body[i + 1]
        BY <1>3, <2>1
      <3>2. w[p + (i + 1)] = w[p + (i + 1) - 1] + text[p + (i + 1)].weight
        BY <1>2, <2>2, SMTT(30)
      <3> QED BY <2>2, <3>1, <3>2, Zenon
    <2>4. v[i + 1] = v[i] + body[i + 1].weight /\ body[i + 1].weight \in Nat
      BY <1>1, <2>1
    <2>5. w[p + i] \in Nat /\ w[p] \in Nat /\ v[i] \in Nat /\ w[p + i] - w[p] = v[i]
      BY <1>1, <1>2, <1>5, <2>1, <2>2
    <2>6. w[p + (i + 1)] - w[p] = v[i + 1]
      <3>1. \A a, b, c, d \in Int : a - b = c => (a + d) - b = c + d
        OBVIOUS
      <3>2. body[i + 1].weight \in Int /\ w[p + i] \in Int /\ w[p] \in Int /\ v[i] \in Int
        BY <2>4, <2>5
      <3>3. (w[p + i] + body[i + 1].weight) - w[p] = v[i] + body[i + 1].weight
        BY <2>5, <3>1, <3>2
      <3> QED BY <2>3, <2>4, <3>3, Zenon
    <2> QED BY <2>1, <2>6
  <1>6. 0..n \subseteq A
    <2> HIDE DEF A
    <2> QED BY <1>1, <1>4, <1>5, InductionTo
  <1>7. m \in A
    BY <1>3, <1>6
  <1> QED BY <1>7 DEF w, v

\* The line where a body ends is there, and is the first to end it.
LEMMA BodyEndIs ==
  ASSUME NEW text \in Seq(LineType), NEW i \in 1..(Len(text) + 1)
  PROVE  /\ BodyEnd(text, i) \in Int /\ i - 1 <= BodyEnd(text, i) /\ BodyEnd(text, i) <= Len(text)
         /\ \A e \in i..Len(text) :
              /\ text[e] = Blank \/ Weight(text)[e] - Weight(text)[i - 1] >= Cap
              /\ \A k \in i..(e - 1) :
                   text[k] # Blank /\ ~(Weight(text)[k] - Weight(text)[i - 1] >= Cap)
              => BodyEnd(text, i) = e
  <1> DEFINE w == Weight(text)
             n == Len(text)
             Ends(j) == text[j] = Blank \/ w[j] - w[i - 1] >= Cap
             ends == {j \in i..n : Ends(j)}
             least == CHOOSE j \in ends : \A k \in ends : j <= k
  <1>1. n \in Nat /\ i \in Nat /\ i - 1 <= n
    BY LenProperties
  <1>2. BodyEnd(text, i) = IF ends = {} THEN n ELSE least
    BY DEF BodyEnd
  <1> HIDE DEF n, w, Ends
  <1>3. ends # {} => least \in ends /\ \A k \in ends : least <= k
    <2>1. ends \in SUBSET Nat
      BY <1>1
    <2> HIDE DEF ends
    <2> SUFFICES ASSUME ends # {} PROVE least \in ends /\ \A k \in ends : least <= k
      OBVIOUS
    <2>2. \E j \in ends : \A k \in ends : j <= k
      BY <2>1, LeastNat
    <2> QED BY <2>2
  <1> HIDE DEF least
  <1>4. BodyEnd(text, i) \in Int /\ i - 1 <= BodyEnd(text, i) /\ BodyEnd(text, i) <= n
    <2>1. CASE ends = {}
      <3>1. BodyEnd(text, i) = n
        BY <1>2, <2>1
      <3> HIDE DEF ends
      <3> QED BY <1>1, <3>1
    <2>2. CASE ends # {}
      <3>1. BodyEnd(text, i) = least
        BY <1>2, <2>2
      <3>2. least \in i..n
        BY <1>3, <2>2
      <3> HIDE DEF ends
      <3> QED BY <1>1, <3>1, <3>2
    <2> QED BY <2>1, <2>2
  <1>5. ASSUME NEW e \in i..n, Ends(e), \A k \in i..(e - 1) : ~Ends(k)
        PROVE  BodyEnd(text, i) = e
    <2>1. e \in ends
      BY <1>5
    <2>2. least \in ends /\ least <= e
      BY <1>3, <2>1
    <2>3. least \in i..n /\ Ends(least)
      BY <2>2
    <2>4. ~(least < e)
      <3>1. least < e => least \in i..(e - 1)
        BY <1>1, <2>3
      <3> QED BY <1>5, <2>3, <3>1
    <2>5. least = e
      BY <1>1, <2>2, <2>3, <2>4
    <2> QED BY <1>2, <2>1, <2>5
  <1> QED BY <1>4, <1>5 DEF n, w, Ends

-----------------------------------------------------------------------------
(* The blocks of a report, its text, and the records it promises. *)

\* The lines of a record's body, as they are written.
Body(r) == IF r.body = <<>> THEN <<NoBody>> ELSE r.body

\* The lines of a block.
LEMMA BlockLines ==
  ASSUME NEW r \in RecType
  PROVE  /\ Body(r) \in Seq(LineType) /\ Len(Body(r)) \in Nat \ {0}
         /\ Block(r) \in Seq(LineType) /\ Len(Block(r)) = Len(Body(r)) + 5
         /\ Block(r)[1] = Target(r.target) /\ Block(r)[2] = Dashes
         /\ Block(r)[3] = Status(r.status) /\ Block(r)[4] = Dashes
         /\ \A k \in 1..Len(Body(r)) : Block(r)[4 + k] = Body(r)[k]
         /\ Block(r)[Len(Body(r)) + 5] = Blank
  <1> DEFINE head == <<Target(r.target), Dashes, Status(r.status), Dashes>>
             b == Body(r)
             n == Len(Body(r))
             last == <<Blank>>
  <1>1. r.target \in Texts /\ r.status \in Int /\ r.body \in Seq(BodyLines)
    BY DEF RecType
  <1>2. head \in Seq(LineType) /\ Len(head) = 4 /\ head[1] = Target(r.target) /\ head[2] = Dashes
        /\ head[3] = Status(r.status) /\ head[4] = Dashes
    <2>1. Target(r.target) \in LineType /\ Dashes \in LineType /\ Status(r.status) \in LineType
      BY <1>1, LineFacts
    <2> QED BY <2>1
  <1>3. last \in Seq(LineType) /\ Len(last) = 1 /\ last[1] = Blank
    <2>1. Blank \in LineType
      BY LineFacts
    <2> QED BY <2>1
  <1>4. b \in Seq(LineType) /\ n \in Nat \ {0}
    <2>1. CASE r.body = <<>>
      <3>1. b = <<NoBody>> /\ NoBody \in LineType
        BY <2>1, LineFacts DEF Body
      <3> QED BY <3>1
    <2>2. CASE r.body # <<>>
      <3>1. b = r.body /\ r.body \in Seq(LineType)
        <4>1. BodyLines \subseteq LineType
          BY LineFacts
        <4> QED BY <1>1, <2>2, <4>1, SeqMonotonic DEF Body
      <3>2. n # 0 /\ n \in Nat
        BY <2>2, <3>1, EmptySeq, LenProperties
      <3> QED BY <3>1, <3>2
    <2> QED BY <2>1, <2>2
  <1>5. Block(r) = (head \o b) \o last
    BY DEF Block, Body
  <1> HIDE DEF head, b, last, n
  <1>0. Len(b) = n
    BY DEF b, n
  <1>6. /\ head \o b \in Seq(LineType) /\ Len(head \o b) = 4 + n
        /\ \A i \in 1..(4 + n) : (head \o b)[i] = IF i <= 4 THEN head[i] ELSE b[i - 4]
    <2>1. /\ head \o b \in Seq(LineType) /\ Len(head \o b) = Len(head) + Len(b)
          /\ \A i \in 1..(Len(head) + Len(b)) :
               (head \o b)[i] = IF i <= Len(head) THEN head[i] ELSE b[i - Len(head)]
      BY <1>2, <1>4, ConcatProperties, Zenon
    <2> QED BY <1>0, <1>2, <2>1
  <1>7. /\ Block(r) \in Seq(LineType) /\ Len(Block(r)) = 4 + n + 1
        /\ \A i \in 1..(4 + n + 1) :
             Block(r)[i] = IF i <= 4 + n THEN (head \o b)[i] ELSE last[i - (4 + n)]
    <2> DEFINE front == head \o b
    <2>1. front \in Seq(LineType) /\ Len(front) = 4 + n
      BY <1>6
    <2> HIDE DEF front
    <2>2. /\ front \o last \in Seq(LineType) /\ Len(front \o last) = Len(front) + Len(last)
          /\ \A i \in 1..(Len(front) + Len(last)) :
               (front \o last)[i] = IF i <= Len(front) THEN front[i] ELSE last[i - Len(front)]
      BY <1>3, <2>1, ConcatProperties, Zenon
    <2>3. Block(r) = front \o last
      BY <1>5 DEF front
    <2> QED BY <1>3, <2>1, <2>2, <2>3 DEF front
  <1>8. ASSUME NEW i \in 1..4 PROVE Block(r)[i] = head[i]
    <2>1. i \in 1..(4 + n) /\ i \in 1..(4 + n + 1) /\ i <= 4 /\ i <= 4 + n
      BY <1>4
    <2>2. (head \o b)[i] = head[i]
      BY ONLY <1>6, <2>1
    <2>3. Block(r)[i] = (head \o b)[i]
      BY ONLY <1>7, <2>1
    <2> QED BY <2>2, <2>3
  <1>9. ASSUME NEW k \in 1..n PROVE Block(r)[4 + k] = b[k]
    <2>1. PICK m \in Int : m = 4 + k
      OBVIOUS
    <2>2. m \in 1..(4 + n) /\ m \in 1..(4 + n + 1) /\ ~(m <= 4) /\ m - 4 = k /\ m <= 4 + n
      BY <1>4, <2>1
    <2>3. Block(r)[m] = b[m - 4]
      BY <1>6, <1>7, <2>2
    <2> QED BY <2>1, <2>2, <2>3
  <1>10. Block(r)[n + 5] = Blank
    <2>1. PICK m \in Int : m = n + 5
      BY <1>4
    <2>2. m \in 1..(4 + n + 1) /\ ~(m <= 4 + n) /\ m - (4 + n) = 1
      BY <1>4, <2>1
    <2>3. Block(r)[m] = last[m - (4 + n)]
      BY <1>7, <2>2
    <2> QED BY <1>3, <2>1, <2>2, <2>3
  <1>11. Len(Block(r)) = n + 5
    BY <1>4, <1>7
  <1>12. 1 \in 1..4 /\ 2 \in 1..4 /\ 3 \in 1..4 /\ 4 \in 1..4
    OBVIOUS
  <1> QED BY <1>2, <1>4, <1>7, <1>8, <1>9, <1>10, <1>11, <1>12 DEF n, b

\* The texts of a report: those of the blocks so far.
TextsOf(recs, text) ==
  /\ text[0] = <<>>
  /\ \A i \in 1..Len(recs) : text[i] = text[i - 1] \o Block(recs[i])

\* A report is the text of all its blocks, and one more blank line.
LEMMA ReportIs ==
  ASSUME NEW recs \in Seq(RecType)
  PROVE  \E text \in [0..Len(recs) -> Seq(LineType)] :
           TextsOf(recs, text) /\ Report(recs) = Append(text[Len(recs)], Blank)
  <1> DEFINE n == Len(recs)
             U == Seq(LineType)
             Step(h) == h = [i \in 0..n |-> IF i = 0 THEN <<>> ELSE h[i - 1] \o Block(recs[i])]
             k == CHOOSE h : Step(h)
             g == [i \in 1..n |-> [u \in U |-> u \o Block(recs[i])]]
  <1>1. n \in Nat /\ <<>> \in U /\ \A i \in 1..n : Block(recs[i]) \in U
    BY LenProperties, ElementOfSeq, EmptySeq, BlockLines
  <1>2. ASSUME NEW i \in 1..n, NEW u \in U PROVE u \o Block(recs[i]) \in U
    BY <1>1, ConcatProperties
  <1> HIDE DEF n, U
  <1>3. g \in [1..n -> [U -> U]]
    BY <1>2
  <1>4. PICK f \in [0..n -> U] : Follows(f, n, <<>>, g)
    <2> HIDE DEF g
    <2>1. n \in Nat /\ <<>> \in U /\ g \in [1..n -> [U -> U]]
      BY <1>1, <1>3
    <2> QED BY ONLY <2>1, Recursion
  <1>5. ASSUME NEW i \in 1..n PROVE f[i] = f[i - 1] \o Block(recs[i])
    <2>1. f[i - 1] \in U
      BY <1>1
    <2> QED BY <1>4, <2>1 DEF Follows
  <1>6. f[0] = <<>>
    BY <1>4 DEF Follows
  <1>7. Step(f)
    <2>1. f = [i \in 0..n |-> f[i]]
      OBVIOUS
    <2>2. ASSUME NEW i \in 0..n
          PROVE  f[i] = IF i = 0 THEN <<>> ELSE f[i - 1] \o Block(recs[i])
      <3>1. CASE i = 0
        BY <1>6, <3>1
      <3>2. CASE i # 0
        <4>1. i \in 1..n
          BY <1>1, <3>2
        <4> QED BY <1>5, <3>2, <4>1
      <3> QED BY <3>1, <3>2
    <2> QED BY <2>1, <2>2
  <1>8. Step(k)
    <2> HIDE DEF Step
    <2> QED BY <1>7
  <1>9. Report(recs) = Append(k[n], Blank)
    BY DEF Report, n
  <1> HIDE DEF k
  <1>10. k[0] = <<>> /\ \A i \in 1..n : k[i] = k[i - 1] \o Block(recs[i])
    <2>1. 0 \in 0..n
      BY <1>1
    <2>2. k[0] = <<>>
      BY <1>8, <2>1
    <2>3. ASSUME NEW i \in 1..n PROVE k[i] = k[i - 1] \o Block(recs[i])
      <3>1. i \in 0..n /\ i # 0
        BY <1>1
      <3> QED BY <1>8, <3>1
    <2> QED BY <2>2, <2>3
  <1> DEFINE A == {i \in 0..n : k[i] \in U}
  <1>11. 0 \in A
    BY <1>1, <1>10
  <1>12. ASSUME NEW i \in 0..(n - 1), i \in A PROVE i + 1 \in A
    <2>1. i + 1 \in 1..n /\ i + 1 \in 0..n /\ (i + 1) - 1 = i /\ k[i] \in U
      BY <1>1, <1>12
    <2>2. k[i + 1] = k[i] \o Block(recs[i + 1])
      BY <1>10, <2>1
    <2>3. k[i + 1] \in U
      BY <1>2, <2>1, <2>2
    <2> QED BY <2>1, <2>3
  <1>13. 0..n \subseteq A
    <2> HIDE DEF A
    <2> QED BY <1>1, <1>11, <1>12, InductionTo
  <1>14. k \in [0..n -> U]
    <2>1. \E h : k = [i \in 0..n |-> h[i]]
      <3>1. PICK h : h = [i \in 0..n |-> IF i = 0 THEN <<>> ELSE k[i - 1] \o Block(recs[i])]
        OBVIOUS
      <3>2. k = [i \in 0..n |-> h[i]]
        BY <1>8, <3>1
      <3> QED BY <3>2
    <2>2. k = [i \in 0..n |-> k[i]]
      BY <2>1
    <2>3. \A i \in 0..n : k[i] \in U
      BY <1>13
    <2> HIDE DEF A
    <2> QED BY <2>2, <2>3
  <1>15. TextsOf(recs, k)
    BY <1>10 DEF TextsOf, n
  <1> QED BY <1>9, <1>14, <1>15 DEF n, U

\* The records the reader is promised.
LEMMA NamedIs ==
  ASSUME NEW recs \in Seq(RecType), NEW T, \A i \in 1..Len(recs) : Seen(recs[i]) \in T
  PROVE  /\ Named(recs)[0] = <<>>
         /\ \A i \in 0..Len(recs) : Named(recs)[i] \in Seq(T)
         /\ \A i \in 1..Len(recs) :
              Named(recs)[i] = IF recs[i].target = "" THEN Named(recs)[i - 1]
                               ELSE Append(Named(recs)[i - 1], Seen(recs[i]))
  <1> DEFINE n == Len(recs)
             U == Seq(T)
             More(u, i) == IF recs[i].target = "" THEN u ELSE Append(u, Seen(recs[i]))
             Step(h) == h = [i \in 0..n |->
                               IF i = 0 THEN <<>>
                               ELSE IF recs[i].target = "" THEN h[i - 1]
                               ELSE Append(h[i - 1], Seen(recs[i]))]
             k == CHOOSE h : Step(h)
             g == [i \in 1..n |-> [u \in U |-> More(u, i)]]
  <1>1. n \in Nat /\ <<>> \in U
    BY LenProperties, EmptySeq
  <1>2. ASSUME NEW i \in 1..n, NEW u \in U PROVE More(u, i) \in U
    BY AppendProperties
  <1>0. Named(recs) = k
    BY DEF Named
  <1> HIDE DEF n, U
  <1>3. g \in [1..n -> [U -> U]]
    <2> HIDE DEF More
    <2> QED BY <1>2
  <1>4. PICK f \in [0..n -> U] : Follows(f, n, <<>>, g)
    <2> HIDE DEF g
    <2>1. n \in Nat /\ <<>> \in U /\ g \in [1..n -> [U -> U]]
      BY <1>1, <1>3
    <2> QED BY ONLY <2>1, Recursion
  <1>5. ASSUME NEW i \in 1..n PROVE f[i] = More(f[i - 1], i)
    <2>1. f[i - 1] \in U
      BY <1>1
    <2> HIDE DEF More
    <2> QED BY <1>4, <2>1 DEF Follows
  <1>6. f[0] = <<>>
    BY <1>4 DEF Follows
  <1>7. Step(f)
    <2>1. f = [i \in 0..n |-> f[i]]
      OBVIOUS
    <2>2. ASSUME NEW i \in 0..n
          PROVE  f[i] = IF i = 0 THEN <<>>
                        ELSE IF recs[i].target = "" THEN f[i - 1]
                        ELSE Append(f[i - 1], Seen(recs[i]))
      <3>1. CASE i = 0
        BY <1>6, <3>1
      <3>2. CASE i # 0
        <4>1. i \in 1..n
          BY <1>1, <3>2
        <4> QED BY <1>5, <3>2, <4>1
      <3> QED BY <3>1, <3>2
    <2> QED BY <2>1, <2>2
  <1>8. Step(k)
    <2> HIDE DEF Step
    <2> QED BY <1>7
  <1> HIDE DEF k
  <1>10. k[0] = <<>> /\ \A i \in 1..n : k[i] = More(k[i - 1], i)
    <2>1. 0 \in 0..n
      BY <1>1
    <2>2. k[0] = <<>>
      BY <1>8, <2>1
    <2>3. ASSUME NEW i \in 1..n PROVE k[i] = More(k[i - 1], i)
      <3>1. i \in 0..n /\ i # 0
        BY <1>1
      <3> QED BY <1>8, <3>1
    <2> QED BY <2>2, <2>3
  <1> HIDE DEF More
  <1> DEFINE A == {i \in 0..n : k[i] \in U}
  <1>11. 0 \in A
    BY <1>1, <1>10
  <1>12. ASSUME NEW i \in 0..(n - 1), i \in A PROVE i + 1 \in A
    <2>1. i + 1 \in 1..n /\ i + 1 \in 0..n /\ (i + 1) - 1 = i /\ k[i] \in U
      BY <1>1, <1>12
    <2>2. k[i + 1] = More(k[i], i + 1)
      BY <1>10, <2>1
    <2>3. k[i + 1] \in U
      BY <1>2, <2>1, <2>2
    <2> QED BY <2>1, <2>3
  <1>13. 0..n \subseteq A
    <2> HIDE DEF A
    <2> QED BY <1>1, <1>11, <1>12, InductionTo
  <1>14. \A i \in 0..n : k[i] \in U
    BY <1>13
  <1> QED BY <1>0, <1>10, <1>14 DEF n, U, More

-----------------------------------------------------------------------------
(* What the reader makes of a text, line by line. *)

\* What is read from line i on, if f is what is read from the lines after it.
Read(text, i, f) ==
  IF i > Len(text) THEN <<>>
  ELSE IF text[i] = Blank THEN f[i + 1]
  ELSE IF ~IsRow(text, i + 1) THEN f[i + 2]
  ELSE IF ~IsRow(text, i + 3) THEN f[i + 4]
  ELSE <<RecordAt(text, i)>> \o f[BodyEnd(text, i + 4) + 1]

Reads(text, f) == \A i \in 1..(Len(text) + 4) : f[i] = Read(text, i, f)

\* The records of a text are in T; f and h agree on what is read from later lines.
RecordsIn(text, T) == \A i \in 1..Len(text) : RecordAt(text, i) \in T
AgreeAfter(text, T, i, f, h) == \A j \in (i + 1)..(Len(text) + 4) : f[j] = h[j] /\ f[j] \in Seq(T)

\* What is read from a line on depends on what is read from later ones.
LEMMA ReadIs ==
  ASSUME NEW text \in Seq(LineType), NEW T, RecordsIn(text, T),
         NEW i \in 1..(Len(text) + 4), NEW f, NEW h, AgreeAfter(text, T, i, f, h)
  PROVE  Read(text, i, f) = Read(text, i, h) /\ Read(text, i, f) \in Seq(T)
  <1> USE DEF RecordsIn, AgreeAfter
  <1>1. Len(text) \in Nat /\ <<>> \in Seq(T)
    BY LenProperties, EmptySeq
  <1>2. CASE i > Len(text)
    BY <1>1, <1>2 DEF Read
  <1>3. CASE i <= Len(text) /\ ~(text[i] # Blank /\ IsRow(text, i + 1) /\ IsRow(text, i + 3))
    <2>1. ~(i > Len(text))
      BY <1>1, <1>3
    <2>2. /\ f[i + 1] = h[i + 1] /\ f[i + 1] \in Seq(T)
          /\ f[i + 2] = h[i + 2] /\ f[i + 2] \in Seq(T)
          /\ f[i + 4] = h[i + 4] /\ f[i + 4] \in Seq(T)
      <3>1. /\ i + 1 \in (i + 1)..(Len(text) + 4) /\ i + 2 \in (i + 1)..(Len(text) + 4)
            /\ i + 4 \in (i + 1)..(Len(text) + 4)
        BY <1>1, <1>3
      <3> QED BY <3>1, Zenon
    <2> QED BY <1>3, <2>1, <2>2, Zenon DEF Read
  <1>4. CASE i <= Len(text) /\ text[i] # Blank /\ IsRow(text, i + 1) /\ IsRow(text, i + 3)
    <2> DEFINE e == BodyEnd(text, i + 4) + 1
    <2>1. i + 3 <= Len(text)
      BY <1>4 DEF IsRow
    <2>2. i + 4 \in 1..(Len(text) + 1) /\ i + 4 - 1 = i + 3 /\ ~(i > Len(text))
      BY <1>1, <1>4, <2>1
    <2>3. BodyEnd(text, i + 4) \in Int /\ i + 3 <= BodyEnd(text, i + 4)
          /\ BodyEnd(text, i + 4) <= Len(text)
      BY <2>2, BodyEndIs
    <2>4. e \in (i + 1)..(Len(text) + 4)
      BY <1>1, <2>3
    <2> HIDE DEF e
    <2>5. f[e] = h[e] /\ f[e] \in Seq(T)
      BY <2>4
    <2>6. RecordAt(text, i) \in T
      BY <1>1, <1>4
    <2>7. <<RecordAt(text, i)>> \o f[e] \in Seq(T)
      <3>1. <<RecordAt(text, i)>> \in Seq(T)
        BY <2>6
      <3> QED BY <2>5, <3>1, ConcatProperties
    <2>8. /\ Read(text, i, f) = <<RecordAt(text, i)>> \o f[e]
          /\ Read(text, i, h) = <<RecordAt(text, i)>> \o h[e]
      BY <1>4, <2>2, Zenon DEF Read, e
    <2> QED BY <2>5, <2>7, <2>8, Zenon
  <1> QED BY <1>1, <1>2, <1>3, <1>4

\* What is read from each line on.
LEMMA ParsedIs ==
  ASSUME NEW text \in Seq(LineType), NEW T, RecordsIn(text, T)
  PROVE  \E from \in [1..(Len(text) + 4) -> Seq(T)] :
           Reads(text, from) /\ Parsed(text) = from[1]
  <1> DEFINE n == Len(text) + 4
             U == Seq(T)
             Step(f) == f = [i \in 1..n |->
                               IF i > Len(text) THEN <<>>
                               ELSE IF text[i] = Blank THEN f[i + 1]
                               ELSE IF ~IsRow(text, i + 1) THEN f[i + 2]
                               ELSE IF ~IsRow(text, i + 3) THEN f[i + 4]
                               ELSE <<RecordAt(text, i)>> \o f[BodyEnd(text, i + 4) + 1]]
             k == CHOOSE f : Step(f)
             g == [i \in 1..n |-> [f \in [1..n -> U] |-> Read(text, i, f)]]
  <1>1. n \in Nat /\ <<>> \in U
    BY LenProperties, EmptySeq
  <1>2. ASSUME NEW i \in 1..n, NEW f, NEW h, \A j \in (i + 1)..n : f[j] = h[j] /\ f[j] \in U
        PROVE  Read(text, i, f) = Read(text, i, h) /\ Read(text, i, f) \in U
    <2>1. i \in 1..(Len(text) + 4)
      OBVIOUS
    <2>2. AgreeAfter(text, T, i, f, h)
      BY <1>2 DEF AgreeAfter
    <2> QED BY <2>1, <2>2, ReadIs
  <1>3. \A f : Step(f) <=> f = [i \in 1..n |-> Read(text, i, f)]
    BY DEF Read
  <1>4. Parsed(text) = k[1]
    BY DEF Parsed
  <1>5. k = CHOOSE f : Step(f)
    OBVIOUS
  <1> HIDE DEF U, n, k, Step
  <1>6. g \in [1..n -> [[1..n -> U] -> U]]
    <2>1. ASSUME NEW i \in 1..n, NEW f \in [1..n -> U] PROVE Read(text, i, f) \in U
      <3>1. \A j \in (i + 1)..n : f[j] = f[j] /\ f[j] \in U
        BY <1>1
      <3> QED BY <1>2, <3>1
    <2> QED BY <2>1
  <1>7. \A i \in 1..n : \A f, h \in [1..n -> U] :
           (\A j \in (i + 1)..n : f[j] = h[j]) => g[i][f] = g[i][h]
    <2> SUFFICES ASSUME NEW i \in 1..n, NEW f \in [1..n -> U], NEW h \in [1..n -> U],
                        \A j \in (i + 1)..n : f[j] = h[j]
                 PROVE  g[i][f] = g[i][h]
      OBVIOUS
    <2>1. \A j \in (i + 1)..n : f[j] = h[j] /\ f[j] \in U
      BY <1>1
    <2>2. Read(text, i, f) = Read(text, i, h)
      BY <1>2, <2>1
    <2> QED BY <2>2
  <1>8. PICK f \in [1..n -> U] : Fixes(f, n, g)
    <2> HIDE DEF g
    <2> QED BY <1>1, <1>6, <1>7, Backwards
  <1>9. \A i \in 1..n : f[i] = Read(text, i, f)
    <2> SUFFICES ASSUME NEW i \in 1..n PROVE f[i] = Read(text, i, f)
      OBVIOUS
    <2>1. f[i] = g[i][f]
      <3> HIDE DEF g
      <3> QED BY <1>8 DEF Fixes
    <2>2. g[i][f] = Read(text, i, f)
      OBVIOUS
    <2> QED BY <2>1, <2>2
  <1>10. f = [i \in 1..n |-> Read(text, i, f)]
    <2>1. f = [i \in 1..n |-> f[i]]
      OBVIOUS
    <2> QED BY <1>9, <2>1
  <1>11. k = [i \in 1..n |-> Read(text, i, k)]
    <2>1. Step(f)
      BY <1>3, <1>10
    <2>2. Step(k)
      BY <1>5, <2>1
    <2> QED BY <1>3, <2>2
  <1> HIDE DEF g
  <1> DEFINE A == {m \in 0..n : \A j \in (n - m + 1)..n : f[j] = k[j]}
  <1>12. 0 \in A
    BY <1>1
  <1>13. ASSUME NEW m \in 0..(n - 1), m \in A PROVE m + 1 \in A
    <2>1. m + 1 \in 0..n /\ n - m \in 1..n
      BY <1>1
    <2>2. \A j \in ((n - m) + 1)..n : f[j] = k[j] /\ f[j] \in U
      BY <1>1, <1>13
    <2>3. Read(text, n - m, f) = Read(text, n - m, k)
      BY <1>2, <2>1, <2>2
    <2>4. f[n - m] = k[n - m]
      BY <1>9, <1>11, <2>1, <2>3
    <2>5. \A j \in (n - (m + 1) + 1)..n : j = n - m \/ j \in ((n - m) + 1)..n
      BY <1>1
    <2> QED BY <2>1, <2>2, <2>4, <2>5
  <1>14. 0..n \subseteq A
    <2> HIDE DEF A
    <2> QED BY <1>1, <1>12, <1>13, InductionTo
  <1>15. \A j \in 1..n : f[j] = k[j]
    <2>1. n \in A
      <3> HIDE DEF A
      <3> QED BY <1>1, <1>14
    <2>2. n - n + 1 = 1
      BY <1>1
    <2> QED BY <2>1, <2>2
  <1>16. f[1] = k[1]
    <2>1. 1 \in 1..n
      BY LenProperties DEF n
    <2> QED BY <1>15, <2>1
  <1>17. Reads(text, f)
    BY <1>9 DEF Reads, n
  <1> QED BY <1>4, <1>16, <1>17 DEF n, U

-----------------------------------------------------------------------------
(* One record, read from where its block stands. *)

\* A body of nothing is full.
LEMMA CapPositive == Cap \in Nat /\ 1 <= Cap
  <1>1. Cap \in Nat \ {0}
    BY ReportAssumption, Zenon
  <1> QED BY ONLY <1>1

\* A record whose first line is blank.
Nameless(r) == r.target = ""

\* What the first lines of a block say.
LEMMA NamelessLines ==
  ASSUME NEW r \in RecType
  PROVE  /\ Nameless(r) => Target(r.target) = Blank
         /\ ~Nameless(r) => Target(r.target) # Blank /\ Target(r.target).of = r.target
         /\ Status(r.status) # Dashes /\ Status(r.status).code = r.status
         /\ Blank # Dashes
  <1>1. r.target \in Texts /\ r.status \in Int
    BY DEF RecType
  <1> QED BY <1>1, LineFacts, Zenon DEF Nameless

\* The block of a record stands in a text after line p.
Stands(text, p, r) ==
  /\ p + Len(Block(r)) <= Len(text)
  /\ \A k \in 1..Len(Block(r)) : text[p + k] = Block(r)[k]

\* The lines of a block where it stands.
LEMMA StandingLines ==
  ASSUME NEW text \in Seq(LineType), NEW p \in Nat, NEW r \in RecType, Stands(text, p, r),
         NEW n \in Nat, n = Len(Body(r))
  PROVE  /\ n >= 1 /\ p + n + 5 <= Len(text) /\ Len(text) \in Nat
         /\ text[p + 1] = Target(r.target) /\ text[p + 2] = Dashes
         /\ text[p + 3] = Status(r.status) /\ text[p + 4] = Dashes
         /\ \A k \in 1..n : text[(p + 4) + k] = Body(r)[k]
         /\ text[p + 5 + n] = Blank
         /\ p + Len(Block(r)) = p + 5 + n
  <1>1. /\ n >= 1 /\ Len(Block(r)) = n + 5
        /\ Block(r)[1] = Target(r.target) /\ Block(r)[2] = Dashes
        /\ Block(r)[3] = Status(r.status) /\ Block(r)[4] = Dashes
        /\ \A k \in 1..n : Block(r)[4 + k] = Body(r)[k]
        /\ Block(r)[n + 5] = Blank
    BY BlockLines
  <1>2. p + (n + 5) <= Len(text) /\ \A k \in 1..(n + 5) : text[p + k] = Block(r)[k]
    BY <1>1 DEF Stands
  <1>3. Len(text) \in Nat
    BY LenProperties
  <1>4. 1 \in 1..(n + 5) /\ 2 \in 1..(n + 5) /\ 3 \in 1..(n + 5) /\ 4 \in 1..(n + 5)
        /\ n + 5 \in 1..(n + 5) /\ p + (n + 5) = p + 5 + n
    OBVIOUS
  <1>5. ASSUME NEW k \in 1..n PROVE text[(p + 4) + k] = Body(r)[k]
    <2>1. 4 + k \in 1..(n + 5) /\ p + (4 + k) = (p + 4) + k
      OBVIOUS
    <2>2. text[p + (4 + k)] = Block(r)[4 + k]
      BY <1>2, <2>1
    <2> QED BY <1>1, <2>1, <2>2
  <1>6. text[p + 5 + n] = Blank
    <2>1. text[p + (n + 5)] = Block(r)[n + 5]
      BY <1>2, <1>4
    <2> QED BY <1>1, <1>4, <2>1
  <1>7. /\ text[p + 1] = Target(r.target) /\ text[p + 2] = Dashes
        /\ text[p + 3] = Status(r.status) /\ text[p + 4] = Dashes
    BY <1>1, <1>2, <1>4
  <1>8. p + n + 5 <= Len(text) /\ p + Len(Block(r)) = p + 5 + n
    BY <1>1, <1>2, <1>4
  <1> QED BY <1>1, <1>3, <1>5, <1>6, <1>7, <1>8

\* A body the reader sees the end of, as it is written and as it is seen.
LEMMA PlainBody ==
  ASSUME NEW r \in RecType, Plain(r.body), NEW n \in Nat, n = Len(Body(r))
  PROVE  /\ \A k \in 1..(n - 1) : Body(r)[k] # Blank
         /\ Weight(Body(r))[n] <= Cap
         /\ Seen(r).body = IF Body(r)[n] = Blank THEN SubSeq(Body(r), 1, n - 1) ELSE Body(r)
         /\ Seen(r).target = r.target /\ Seen(r).status = r.status
  <1>1. Seen(r).target = r.target /\ Seen(r).status = r.status
    BY DEF Seen
  <1>2. CASE r.body = <<>>
    <2>1. Body(r) = <<NoBody>> /\ n = 1 /\ Body(r)[1] = NoBody
      BY <1>2 DEF Body
    <2>2. NoBody # Blank /\ NoBody.weight = 1 /\ Body(r) \in Seq(LineType)
      BY LineFacts, BlockLines
    <2>3. Weight(Body(r))[1] = Weight(Body(r))[1 - 1] + Body(r)[1].weight /\ Weight(Body(r))[0] = 0
      <3>1. 1 \in 1..Len(Body(r))
        BY <2>1
      <3> QED BY <2>1, <2>2, <3>1, WeightIs
    <2>4. 1 - 1 = 0 /\ 0 + 1 = 1
      OBVIOUS
    <2>5. Weight(Body(r))[1] = 1
      BY <2>1, <2>2, <2>3, <2>4
    <2>6. 1 <= Cap
      BY CapPositive
    <2>7. Seen(r).body = <<NoBody>>
      BY <1>2 DEF Seen
    <2> QED BY <1>1, <2>1, <2>2, <2>5, <2>6, <2>7
  <1>3. CASE r.body # <<>>
    <2>1. Body(r) = r.body
      BY <1>3 DEF Body
    <2> QED BY <1>1, <1>3, <2>1 DEF Seen, Plain
  <1> QED BY <1>2, <1>3

\* Lines of a text that are those of a sequence are its front.
LEMMA FrontThere ==
  ASSUME NEW text \in Seq(LineType), NEW body \in Seq(LineType), NEW p \in Nat,
         NEW m \in 0..Len(body), p + Len(body) <= Len(text),
         \A k \in 1..Len(body) : text[p + k] = body[k]
  PROVE  SubSeq(text, p + 1, p + m) = SubSeq(body, 1, m)
  <1> DEFINE s == SubSeq(text, p + 1, p + m)
             t == SubSeq(body, 1, m)
  <1>1. Len(text) \in Nat /\ Len(body) \in Nat /\ m \in Nat
    BY LenProperties
  <1>2. \A i \in (p + 1)..(p + m) : text[i] \in LineType
    BY <1>1, ElementOfSeq
  <1>3. \A i \in 1..m : body[i] \in LineType
    BY <1>1, ElementOfSeq
  <1>4. s \in Seq(LineType) /\ Len(s) = m /\ \A i \in 1..m : s[i] = text[p + i]
    <2>1. p + 1 \in Int /\ p + m \in Int /\ (p + m) - (p + 1) + 1 = m
          /\ (p + 1 <= p + m <=> 1 <= m)
      BY <1>1
    <2>2. /\ s \in Seq(LineType)
          /\ Len(s) = IF p + 1 <= p + m THEN (p + m) - (p + 1) + 1 ELSE 0
          /\ \A i \in 1..((p + m) - (p + 1) + 1) : s[i] = text[(p + 1) + i - 1]
      BY <1>2, <2>1, SubSeqProperties
    <2>3. Len(s) = m
      BY <1>1, <2>1, <2>2
    <2>4. ASSUME NEW i \in 1..m PROVE s[i] = text[p + i]
      <3>1. (p + 1) + i - 1 = p + i
        BY <1>1
      <3> QED BY <2>1, <2>2, <3>1
    <2> QED BY <2>2, <2>3, <2>4
  <1>5. t \in Seq(LineType) /\ Len(t) = m /\ \A i \in 1..m : t[i] = body[i]
    <2>1. 1 \in Int /\ m \in Int /\ m - 1 + 1 = m /\ \A i \in 1..m : 1 + i - 1 = i
      BY <1>1
    <2>2. /\ t \in Seq(LineType)
          /\ Len(t) = IF 1 <= m THEN m - 1 + 1 ELSE 0
          /\ \A i \in 1..(m - 1 + 1) : t[i] = body[1 + i - 1]
      BY <1>3, <2>1, SubSeqProperties
    <2> QED BY <1>1, <2>1, <2>2
  <1>6. \A i \in 1..m : s[i] = t[i]
    <2>1. \A i \in 1..m : i \in 1..Len(body)
      BY <1>1
    <2> HIDE DEF s, t
    <2> QED BY <1>4, <1>5, <2>1
  <1> HIDE DEF s, t
  <1>7. s = t
    BY <1>4, <1>5, <1>6, SeqEqual
  <1> QED BY <1>7 DEF s, t

\* A record that names its target is read back, and reading goes on after its block.
LEMMA BlockRead ==
  ASSUME NEW text \in Seq(LineType), NEW f, Reads(text, f), NEW p \in Nat,
         NEW r \in RecType, Stands(text, p, r), ~Nameless(r), Plain(r.body)
  PROVE  f[p + 1] = <<Seen(r)>> \o f[p + Len(Block(r)) + 1]
  <1> DEFINE n == Len(Body(r))
             b == Body(r)
             w == Weight(text)
             q == p + 4
             end == BodyEnd(text, p + 5)
             Enough(k) == w[k] - w[q] >= Cap
  <1>1. n \in Nat /\ b \in Seq(LineType)
    BY BlockLines
  <1>2. /\ n >= 1 /\ p + n + 5 <= Len(text) /\ Len(text) \in Nat
        /\ text[p + 1] = Target(r.target) /\ text[p + 2] = Dashes
        /\ text[p + 3] = Status(r.status) /\ text[p + 4] = Dashes
        /\ \A k \in 1..n : text[q + k] = b[k]
        /\ text[p + 5 + n] = Blank
        /\ p + Len(Block(r)) = p + 5 + n
    BY <1>1, StandingLines
  <1>3. /\ \A k \in 1..(n - 1) : b[k] # Blank
        /\ Weight(b)[n] <= Cap
        /\ Seen(r).body = IF b[n] = Blank THEN SubSeq(b, 1, n - 1) ELSE b
        /\ Seen(r).target = r.target /\ Seen(r).status = r.status
    BY <1>1, PlainBody
  <1>4. /\ text[p + 1] # Blank /\ text[p + 1].of = r.target /\ text[p + 3].code = r.status
    BY <1>2, NamelessLines
  <1>5. \A k \in 0..n : w[q + k] - w[q] = Weight(b)[k]
    <2>1. q \in Nat /\ q + n <= Len(text)
      BY ONLY <1>1, <1>2, p \in Nat
    <2>0. Len(b) = n /\ \A k \in 1..n : text[q + k] = b[k]
      BY <1>2
    <2> HIDE DEF q, b, n, w
    <2>2. \A k \in 0..Len(b) : Weight(text)[q + k] - Weight(text)[q] = Weight(b)[k]
      BY <1>1, <2>0, <2>1, WeightThere
    <2> QED BY <2>0, <2>2 DEF w
  <1>6. \A k \in 0..(n - 1) : Weight(b)[k] < Weight(b)[n]
    <2>1. \A k \in 0..(n - 1) : k \in 0..Len(b) /\ n \in 0..Len(b) /\ k < n
      BY <1>1
    <2> HIDE DEF b, n
    <2> QED BY <1>1, <2>1, WeightGrows
  <1>7. Weight(b) \in [0..n -> Nat] /\ Cap \in Nat
    BY <1>1, WeightIs, CapPositive
  <1> HIDE DEF b, n, w, q, end
  <1>8. f[p + 1] = <<RecordAt(text, p + 1)>> \o f[end + 1]
    <2>1. /\ p + 1 \in 1..(Len(text) + 4) /\ ~(p + 1 > Len(text))
          /\ (p + 1) + 1 = p + 2 /\ (p + 1) + 3 = p + 4 /\ (p + 1) + 4 = p + 5
          /\ p + 2 <= Len(text) /\ p + 4 <= Len(text)
      BY <1>1, <1>2
    <2>2. f[p + 1] = Read(text, p + 1, f)
      BY <2>1 DEF Reads
    <2>3. IsRow(text, p + 2) /\ IsRow(text, p + 4)
      BY <1>2, <2>1 DEF IsRow
    <2> QED BY <1>4, <2>1, <2>2, <2>3, Zenon DEF Read, end
  <1>9. /\ RecordAt(text, p + 1).target = r.target /\ RecordAt(text, p + 1).status = r.status
        /\ RecordAt(text, p + 1).body =
             SubSeq(text, p + 5, IF text[end] = Blank THEN end - 1 ELSE end)
        /\ DOMAIN RecordAt(text, p + 1) = {"target", "status", "body"}
        /\ RecordAt(text, p + 1) = [target |-> r.target, status |-> r.status,
             body |-> SubSeq(text, p + 5, IF text[end] = Blank THEN end - 1 ELSE end)]
    <2>1. (p + 1) + 2 = p + 3 /\ (p + 1) + 4 = p + 5
      OBVIOUS
    <2>2. RecordAt(text, p + 1) =
            [target |-> text[p + 1].of, status |-> text[p + 3].code,
             body |-> SubSeq(text, p + 5, IF text[end] = Blank THEN end - 1 ELSE end)]
      BY <2>1, Zenon DEF RecordAt, end
    <2> QED BY <1>4, <2>2
  <1>10. ASSUME NEW e \in (p + 5)..Len(text), text[e] = Blank \/ Enough(e),
                \A k \in (p + 5)..(e - 1) : text[k] # Blank /\ ~Enough(k)
         PROVE  end = e
    <2>1. p + 5 \in 1..(Len(text) + 1) /\ (p + 5) - 1 = q
      <3>1. (p + 5) - 1 = q
        BY DEF q
      <3>2. p + 5 \in 1..(Len(text) + 1)
        <4>1. n \in Nat /\ Len(text) \in Nat /\ p + n + 5 <= Len(text)
          BY <1>1, <1>2
        <4> QED BY ONLY <4>1, p \in Nat
      <3> QED BY <3>1, <3>2
    <2>2. /\ text[e] = Blank \/ Weight(text)[e] - Weight(text)[(p + 5) - 1] >= Cap
          /\ \A k \in (p + 5)..(e - 1) :
               text[k] # Blank /\ ~(Weight(text)[k] - Weight(text)[(p + 5) - 1] >= Cap)
      BY <1>10, <2>1 DEF w
    <2>3. BodyEnd(text, p + 5) = e
      BY <2>1, <2>2, BodyEndIs
    <2> QED BY <2>3 DEF end
  <1> HIDE DEF Enough
  <1>11. ASSUME NEW k \in (p + 5)..(q + n - 1)
         PROVE  text[k] # Blank /\ ~Enough(k)
    <2>1. PICK m \in Int : m = k - q
      BY DEF q
    <2>2. m \in 1..(n - 1) /\ m \in 1..n /\ m \in 0..(n - 1) /\ m \in 0..n /\ n \in 0..n
          /\ q + m = k
      BY <1>1, <2>1 DEF q
    <2>3. text[q + m] = b[m] /\ b[m] # Blank
      BY <1>2, <1>3, <2>2
    <2>4. w[q + m] - w[q] = Weight(b)[m] /\ Weight(b)[m] < Weight(b)[n]
          /\ Weight(b)[m] \in Nat /\ Weight(b)[n] \in Nat
      BY <1>5, <1>6, <1>7, <2>2
    <2>5. ~(Weight(b)[m] >= Cap)
      BY <1>3, <1>7, <2>4
    <2>6. ~Enough(k)
      BY <2>2, <2>4, <2>5 DEF Enough
    <2> QED BY <2>2, <2>3, <2>6
  <1>12. n \in 1..n /\ n \in 0..n /\ q + n \in (p + 5)..Len(text) /\ q + n + 1 = p + 5 + n
         /\ q + 1 = p + 5 /\ q \in Nat /\ text[q + n] = b[n]
    BY <1>1, <1>2 DEF q
  <1>13. SubSeq(text, p + 5, q + n) = b /\ SubSeq(text, p + 5, q + n - 1) = SubSeq(b, 1, n - 1)
    <2>1. n = Len(b) /\ n - 1 \in 0..n /\ q + (n - 1) = q + n - 1 /\ q + n <= Len(text)
      BY <1>1, <1>2, <1>12 DEF n, b
    <2>2. SubSeq(text, q + 1, q + n) = SubSeq(b, 1, n)
      BY <1>1, <1>2, <1>12, <2>1, FrontThere
    <2>3. SubSeq(text, q + 1, q + (n - 1)) = SubSeq(b, 1, n - 1)
      BY <1>1, <1>2, <1>12, <2>1, FrontThere
    <2>4. SubSeq(b, 1, n) = b
      BY <1>1, <2>1, SubSeqFull
    <2> QED BY <1>12, <2>1, <2>2, <2>3, <2>4
  <1>14. Seen(r) = [target |-> r.target, status |-> r.status, body |-> Seen(r).body]
    BY DEF Seen
  <1>15. p + Len(Block(r)) + 1 = q + n + 2 /\ q + n + 1 \in Nat /\ q + n + 1 <= Len(text)
         /\ text[q + n + 1] = Blank /\ (q + n) - 1 = q + n - 1
    <2>1. q + n + 1 = p + 5 + n
      BY <1>12
    <2>2. p + Len(Block(r)) + 1 = q + n + 2 /\ q + n + 1 <= Len(text)
      <3>1. p + Len(Block(r)) = q + n + 1
        BY <1>2, <2>1
      <3>2. q + n + 1 <= Len(text)
        BY <1>1, <1>2, <2>1
      <3> QED BY <1>1, <1>12, <3>1, <3>2
    <2>3. q + n + 1 \in Nat /\ (q + n) - 1 = q + n - 1
      BY ONLY <1>1, <1>12
    <2>4. text[q + n + 1] = Blank
      BY <1>2, <2>1, Zenon
    <2> QED BY <2>2, <2>3, <2>4
  \* The body ends at its last line: the blank line after it is skipped.
  <1>16. ASSUME end = q + n, RecordAt(text, p + 1) = Seen(r)
         PROVE  f[p + 1] = <<Seen(r)>> \o f[p + Len(Block(r)) + 1]
    <2>1. PICK m \in Nat : m = q + n + 1
      BY <1>15
    <2>2. m \in 1..(Len(text) + 4) /\ ~(m > Len(text)) /\ text[m] = Blank /\ m + 1 = q + n + 2
      BY <1>1, <1>2, <1>12, <1>15, <2>1, SMTT(30)
    <2>3. f[m] = f[m + 1]
      BY <2>2, Zenon DEF Reads, Read
    <2>4. end + 1 = m
      BY <1>16, <2>1
    <2> QED BY <1>8, <1>15, <1>16, <2>2, <2>3, <2>4, Zenon
  <1>17. CASE b[n] = Blank
    <2>1. end = q + n
      BY <1>10, <1>11, <1>12, <1>17
    <2>2. text[end] = Blank /\ end - 1 = q + n - 1
      BY <1>12, <1>17, <2>1
    <2>3. RecordAt(text, p + 1) = [target |-> r.target, status |-> r.status,
                                   body |-> SubSeq(b, 1, n - 1)]
      BY <1>9, <1>13, <2>2
    <2>4. Seen(r).body = SubSeq(b, 1, n - 1)
      BY <1>3, <1>17
    <2> QED BY <1>14, <1>16, <2>1, <2>3, <2>4
  <1>18. CASE b[n] # Blank /\ Weight(b)[n] = Cap
    <2>1. Enough(q + n)
      BY <1>5, <1>7, <1>12, <1>18 DEF Enough
    <2>2. end = q + n
      <3>1. q + n \in (p + 5)..Len(text) /\ (text[q + n] = Blank \/ Enough(q + n))
        BY <1>12, <2>1
      <3>2. \A k \in (p + 5)..(q + n - 1) : text[k] # Blank /\ ~Enough(k)
        BY <1>11
      <3>3. PICK e \in (p + 5)..Len(text) : e = q + n
        BY <3>1
      <3>4. text[e] = Blank \/ Enough(e)
        BY <3>1, <3>3, Zenon
      <3>5. ASSUME NEW k \in (p + 5)..(e - 1) PROVE text[k] # Blank /\ ~Enough(k)
        <4>1. q \in Nat /\ n \in Nat /\ e = q + n
          BY <1>1, <1>12, <3>3
        <4>2. k \in (p + 5)..(q + n - 1)
          BY <4>1
        <4> QED BY <3>2, <4>2
      <3>6. end = e
        BY <1>10, <3>4, <3>5, Zenon
      <3> QED BY <3>3, <3>6
    <2>3. text[end] # Blank
      BY <1>12, <1>18, <2>2
    <2>4. RecordAt(text, p + 1) = [target |-> r.target, status |-> r.status, body |-> b]
      BY <1>9, <1>13, <2>2, <2>3
    <2>5. Seen(r).body = b
      BY <1>3, <1>18
    <2> QED BY <1>14, <1>16, <2>2, <2>4, <2>5
  <1>19. CASE b[n] # Blank /\ Weight(b)[n] # Cap
    <2>1. Weight(b)[n] < Cap /\ w[q + n] - w[q] = Weight(b)[n] /\ Weight(b)[n] \in Nat
      BY <1>3, <1>5, <1>7, <1>12, <1>19
    <2>2. text[q + n] # Blank /\ ~Enough(q + n)
      BY <1>7, <1>12, <1>19, <2>1 DEF Enough
    <2>3. ASSUME NEW k \in (p + 5)..(q + n + 1 - 1)
          PROVE  text[k] # Blank /\ ~Enough(k)
      <3>1. k = q + n \/ k \in (p + 5)..(q + n - 1)
        BY <1>1, <1>12
      <3> QED BY <1>11, <2>2, <3>1
    <2>4. end = q + n + 1
      <3>1. q + n + 1 \in (p + 5)..Len(text)
        BY <1>1, <1>2, <1>12, <1>15
      <3>2. \A k \in (p + 5)..(q + n + 1 - 1) : text[k] # Blank /\ ~Enough(k)
        BY <2>3
      <3>3. PICK e \in (p + 5)..Len(text) : e = q + n + 1
        BY <3>1
      <3>4. text[e] = Blank \/ Enough(e)
        BY <1>15, <3>1, <3>3, Zenon
      <3>5. ASSUME NEW k \in (p + 5)..(e - 1) PROVE text[k] # Blank /\ ~Enough(k)
        <4>1. q \in Nat /\ n \in Nat /\ e = q + n + 1
          BY <1>1, <1>12, <3>3
        <4>2. k \in (p + 5)..(q + n + 1 - 1)
          BY <4>1
        <4> QED BY <3>2, <4>2
      <3>6. end = e
        BY <1>10, <3>4, <3>5, Zenon
      <3> QED BY <3>3, <3>6
    <2>5. text[end] = Blank /\ end - 1 = q + n /\ end + 1 = q + n + 2
      <3>1. text[end] = Blank
        BY <1>15, <2>4, Zenon
      <3>2. end - 1 = q + n /\ end + 1 = q + n + 2
        BY ONLY <1>1, <1>12, <2>4
      <3> QED BY <3>1, <3>2
    <2>6. RecordAt(text, p + 1) = [target |-> r.target, status |-> r.status, body |-> b]
      BY <1>9, <1>13, <2>5
    <2>7. Seen(r).body = b
      BY <1>3, <1>19
    <2>8. RecordAt(text, p + 1) = Seen(r)
      BY <1>14, <2>6, <2>7
    <2> QED BY <1>8, <1>15, <2>5, <2>8, Zenon
  <1> QED BY <1>17, <1>18, <1>19

-----------------------------------------------------------------------------
(* A record without a target, passed over. *)

\* What holds at the end and is handed back from one line or from two lines on.
LEMMA HandedBack ==
  ASSUME NEW f, NEW a \in Nat, NEW z \in Nat, a <= z,
         \A q \in a..(z - 1) : f[q] = f[q + 1] \/ (q + 2 <= z /\ f[q] = f[q + 2])
  PROVE  f[a] = f[z]
  <1> DEFINE n == z - a
             A == {m \in 0..n : \A q \in (z - m)..z : f[q] = f[z]}
  <1>1. n \in Nat /\ z - n = a
    OBVIOUS
  <1>2. 0 \in A
    BY <1>1
  <1>3. ASSUME NEW m \in 0..(n - 1), m \in A PROVE m + 1 \in A
    <2>1. PICK q \in Nat : q = z - (m + 1)
      BY <1>1
    <2>2. m + 1 \in 0..n /\ q \in a..(z - 1) /\ q + 1 = z - m /\ q + 1 <= z
      BY <1>1, <2>1
    <2>3. \A j \in (z - m)..z : f[j] = f[z]
      BY <1>3
    <2>4. f[q] = f[z]
      <3>1. CASE f[q] = f[q + 1]
        <4>1. q + 1 \in (z - m)..z
          BY <1>1, <2>2
        <4> QED BY <2>3, <3>1, <4>1
      <3>2. CASE q + 2 <= z /\ f[q] = f[q + 2]
        <4>1. q + 2 \in (z - m)..z
          BY <1>1, <2>2, <3>2
        <4> QED BY <2>3, <3>2, <4>1
      <3> QED BY <2>2, <3>1, <3>2
    <2>5. \A j \in (z - (m + 1))..z : j = q \/ j \in (z - m)..z
      BY <1>1, <2>1, <2>2
    <2> QED BY <2>2, <2>3, <2>4, <2>5
  <1>4. n \in A
    <2> HIDE DEF A
    <2> QED BY <1>1, <1>2, <1>3, InductionTo
  <1>5. a \in (z - n)..z
    BY <1>1
  <1> QED BY <1>4, <1>5

\* No line of a body is a row of dashes.
NoRows(body) == \A n \in DOMAIN body : body[n] # Dashes

\* A record that names no target is passed over.
LEMMA NamelessRead ==
  ASSUME NEW text \in Seq(LineType), NEW f, Reads(text, f), NEW p \in Nat,
         NEW r \in RecType, Stands(text, p, r), Nameless(r), NoRows(r.body)
  PROVE  f[p + 1] = f[p + Len(Block(r)) + 1]
  <1> DEFINE n == Len(Body(r))
             b == Body(r)
             len == Len(text)
             z == p + n + 6
  <1>1. n \in Nat /\ b \in Seq(LineType)
    BY BlockLines
  <1>2. /\ n >= 1 /\ p + n + 5 <= Len(text) /\ Len(text) \in Nat
        /\ text[p + 1] = Target(r.target) /\ text[p + 2] = Dashes
        /\ text[p + 3] = Status(r.status) /\ text[p + 4] = Dashes
        /\ \A k \in 1..n : text[(p + 4) + k] = b[k]
        /\ text[p + 5 + n] = Blank
        /\ p + Len(Block(r)) = p + 5 + n
    BY <1>1, StandingLines
  <1>3. text[p + 1] = Blank /\ text[p + 3] # Dashes /\ Blank # Dashes
    BY <1>2, NamelessLines
  <1>4. \A k \in 1..n : b[k] # Dashes
    <2>1. CASE r.body = <<>>
      <3>1. b = <<NoBody>> /\ n = 1 /\ b[1] = NoBody
        BY <2>1 DEF Body
      <3>2. NoBody # Dashes /\ \A k \in 1..1 : k = 1
        <4>1. NoBody # Dashes
          BY LineFacts, Zenon
        <4> QED BY <4>1
      <3> QED BY <3>1, <3>2
    <2>2. CASE r.body # <<>>
      <3>1. b = r.body /\ DOMAIN r.body = 1..n
        <4>1. r.body \in Seq(BodyLines)
          BY DEF RecType
        <4> QED BY <2>2, <4>1 DEF Body
      <3> QED BY <3>1 DEF NoRows
    <2> QED BY <2>1, <2>2
  <1> HIDE DEF n, b
  <1>0. len \in Nat /\ len = Len(text) /\ p + n + 5 <= len /\ n >= 1
    BY <1>2
  <1> HIDE DEF len
  <1>5. ASSUME NEW i \in 1..len
        PROVE  /\ text[i] = Blank => f[i] = f[i + 1]
               /\ text[i] # Blank /\ ~IsRow(text, i + 1) => f[i] = f[i + 2]
    <2>1. i \in 1..(Len(text) + 4) /\ ~(i > Len(text))
      BY <1>0
    <2> QED BY <2>1, Zenon DEF Reads, Read
  <1>6. f[p + 1] = f[p + 2]
    <2>1. p + 1 \in 1..len /\ (p + 1) + 1 = p + 2
      BY <1>0, <1>1
    <2> QED BY <1>3, <1>5, <2>1
  <1>7. f[p + 2] = f[p + 4]
    <2>1. p + 2 \in 1..len /\ (p + 2) + 1 = p + 3 /\ (p + 2) + 2 = p + 4
      BY <1>0, <1>1
    <2>2. text[p + 2] # Blank /\ ~IsRow(text, p + 3)
      BY <1>2, <1>3 DEF IsRow
    <2> QED BY <1>5, <2>1, <2>2
  <1>8. ASSUME NEW i \in (p + 4)..(p + 4 + n) PROVE text[i + 1] # Dashes
    <2>1. PICK k \in Int : k = i - (p + 3)
      BY <1>1
    <2>2. k \in 1..(n + 1) /\ (p + 4) + k = i + 1
      BY <1>1, <2>1
    <2>3. CASE k \in 1..n
      <3>1. text[(p + 4) + k] = b[k] /\ b[k] # Dashes
        BY <1>2, <1>4, <2>3
      <3> QED BY <2>2, <3>1
    <2>4. CASE k \notin 1..n
      <3>1. i + 1 = p + 5 + n
        BY <1>1, <2>2, <2>4
      <3> QED BY <1>2, <1>3, <3>1, Zenon
    <2> QED BY <2>3, <2>4
  <1>9. ASSUME NEW q \in (p + 4)..(z - 1)
        PROVE  f[q] = f[q + 1] \/ (q + 2 <= z /\ f[q] = f[q + 2])
    <2>1. q \in 1..len
      BY <1>0, <1>1
    <2>2. CASE text[q] = Blank
      BY <1>5, <2>1, <2>2
    <2>3. CASE text[q] # Blank
      <3>1. q # p + 5 + n
        BY <1>2, <2>3
      <3>2. q \in (p + 4)..(p + 4 + n) /\ q + 2 <= z
        BY <1>1, <3>1
      <3>3. ~IsRow(text, q + 1)
        BY <1>8, <3>2 DEF IsRow
      <3> QED BY <1>5, <2>1, <2>3, <3>2, <3>3
    <2> QED BY <2>2, <2>3
  <1>10. f[p + 4] = f[z]
    <2>1. p + 4 \in Nat /\ z \in Nat /\ p + 4 <= z
      BY <1>0, <1>1
    <2> HIDE DEF z
    <2> QED BY <1>9, <2>1, HandedBack
  <1>11. p + Len(Block(r)) + 1 = z
    <2>1. p + Len(Block(r)) = p + 5 + n
      BY <1>2
    <2> QED BY <1>1, <2>1
  <1> HIDE DEF z
  <1> QED BY <1>6, <1>7, <1>10, <1>11

-----------------------------------------------------------------------------
(* Where the blocks stand in a report. *)

\* One text is the front of another.
Front(s, t) == Len(s) <= Len(t) /\ \A j \in 1..Len(s) : t[j] = s[j]

\* The lines of two texts, one after the other.
LEMMA OneAfterOther ==
  ASSUME NEW s \in Seq(LineType), NEW t \in Seq(LineType)
  PROVE  /\ s \o t \in Seq(LineType) /\ Len(s \o t) = Len(s) + Len(t)
         /\ Front(s, s \o t)
         /\ \A k \in 1..Len(t) : (s \o t)[Len(s) + k] = t[k]
  <1> DEFINE n == Len(s)
             m == Len(t)
             u == s \o t
  <1>1. n \in Nat /\ m \in Nat
    BY LenProperties
  <1>2. /\ u \in Seq(LineType) /\ Len(u) = n + m
        /\ \A i \in 1..(n + m) : u[i] = IF i <= n THEN s[i] ELSE t[i - n]
    BY ConcatProperties, Zenon
  <1> HIDE DEF n, m, u
  <1>3. ASSUME NEW k \in 1..m PROVE u[n + k] = t[k]
    <2>1. PICK i \in Int : i = n + k
      BY <1>1
    <2>2. i \in 1..(n + m) /\ ~(i <= n) /\ i - n = k
      BY <1>1, <2>1
    <2>3. u[i] = t[i - n]
      BY <1>2, <2>2
    <2> QED BY <2>1, <2>2, <2>3
  <1>4. n <= n + m /\ \A j \in 1..n : u[j] = s[j]
    <2>1. \A j \in 1..n : j \in 1..(n + m) /\ j <= n
      BY <1>1
    <2> QED BY <1>1, <1>2, <2>1
  <1>5. Front(s, u)
    BY <1>2, <1>4 DEF Front, n
  <1> QED BY <1>2, <1>3, <1>5 DEF n, m, u

\* The front of a front is a front.
LEMMA FrontOfFront ==
  ASSUME NEW s \in Seq(LineType), NEW t \in Seq(LineType), NEW u \in Seq(LineType),
         Front(s, t), Front(t, u)
  PROVE  Front(s, u)
  <1>1. Len(s) \in Nat /\ Len(t) \in Nat /\ Len(u) \in Nat
    BY LenProperties
  <1>2. Len(s) <= Len(u)
    BY <1>1 DEF Front
  <1>3. ASSUME NEW j \in 1..Len(s) PROVE u[j] = s[j]
    <2>1. j \in 1..Len(t)
      BY <1>1 DEF Front
    <2>2. t[j] = s[j] /\ u[j] = t[j]
      BY <2>1, Zenon DEF Front
    <2> QED BY <2>2
  <1> QED BY <1>2, <1>3 DEF Front

\* The texts of the first blocks are fronts of the texts of more.
LEMMA TextsGrow ==
  ASSUME NEW recs \in Seq(RecType), NEW text \in [0..Len(recs) -> Seq(LineType)],
         TextsOf(recs, text), NEW i \in 0..Len(recs), NEW m \in i..Len(recs)
  PROVE  Front(text[i], text[m])
  <1> DEFINE n == Len(recs)
             A == {j \in 0..n : j < i \/ Front(text[i], text[j])}
  <1>1. n \in Nat /\ (\A j \in 0..n : text[j] \in Seq(LineType)) /\ i \in 0..n
        /\ \A j \in 1..n : text[j] = text[j - 1] \o Block(recs[j]) /\ recs[j] \in RecType
    BY LenProperties, ElementOfSeq DEF TextsOf
  <1> HIDE DEF n
  <1>2. Front(text[i], text[i])
    <2>1. Len(text[i]) \in Nat
      BY <1>1, LenProperties
    <2> QED BY <2>1 DEF Front
  <1>3. 0 \in A
    <2>1. 0 < i \/ i = 0
      BY <1>1
    <2> QED BY <1>1, <1>2, <2>1
  <1>4. ASSUME NEW j \in 0..(n - 1), j \in A PROVE j + 1 \in A
    <2>1. j + 1 \in 0..n /\ j + 1 \in 1..n /\ j \in 0..n /\ (j + 1) - 1 = j
      BY <1>1
    <2>2. CASE j < i
      <3>1. j + 1 < i \/ j + 1 = i
        BY <1>1, <2>2
      <3> QED BY <1>2, <2>1, <3>1
    <2>3. CASE Front(text[i], text[j])
      <3>1. text[j + 1] = text[j] \o Block(recs[j + 1]) /\ recs[j + 1] \in RecType
        BY <1>1, <2>1
      <3>2. text[i] \in Seq(LineType) /\ text[j] \in Seq(LineType)
            /\ text[j + 1] \in Seq(LineType) /\ Block(recs[j + 1]) \in Seq(LineType)
        BY <1>1, <2>1, <3>1, BlockLines
      <3>3. Front(text[j], text[j + 1])
        BY <3>1, <3>2, OneAfterOther, Zenon
      <3>4. Front(text[i], text[j + 1])
        BY <2>3, <3>2, <3>3, FrontOfFront
      <3> QED BY <2>1, <3>4
    <2> QED BY <1>4, <2>2, <2>3
  <1>5. 0..n \subseteq A
    <2> HIDE DEF A
    <2> QED BY <1>1, <1>3, <1>4, InductionTo
  <1>6. m \in 0..n /\ ~(m < i)
    BY <1>1 DEF n
  <1> QED BY <1>5, <1>6

\* The blocks stand in the report one after the other, and a blank line is last.
LEMMA BlocksStand ==
  ASSUME NEW recs \in Seq(RecType), NEW text \in [0..Len(recs) -> Seq(LineType)],
         TextsOf(recs, text), NEW report, report = Append(text[Len(recs)], Blank)
  PROVE  /\ report \in Seq(LineType) /\ Len(report) = Len(text[Len(recs)]) + 1
         /\ report[Len(report)] = Blank
         /\ \A i \in 1..Len(recs) :
              /\ Stands(report, Len(text[i - 1]), recs[i])
              /\ Len(text[i]) = Len(text[i - 1]) + Len(Block(recs[i]))
  <1> DEFINE n == Len(recs)
             all == text[n]
  <1>1. n \in Nat /\ n \in 0..n /\ (\A j \in 0..n : text[j] \in Seq(LineType))
        /\ \A j \in 1..n : text[j] = text[j - 1] \o Block(recs[j]) /\ recs[j] \in RecType
    <2>1. n \in Nat /\ \A j \in 1..n : recs[j] \in RecType
      BY LenProperties, ElementOfSeq
    <2>2. n \in 0..n
      BY <2>1
    <2> QED BY <2>1, <2>2 DEF TextsOf
  <1>2. Blank \in LineType /\ all \in Seq(LineType)
    BY <1>1, LineFacts
  <1>3. report = Append(all, Blank)
    OBVIOUS
  <1> HIDE DEF all
  <1>4. /\ report \in Seq(LineType) /\ Len(report) = Len(all) + 1 /\ Len(all) \in Nat
        /\ report[Len(all) + 1] = Blank /\ \A j \in 1..Len(all) : report[j] = all[j]
    BY <1>2, <1>3, AppendProperties, LenProperties
  <1>5. Front(all, report)
    BY <1>4 DEF Front
  <1>6. ASSUME NEW i \in 1..n
        PROVE  /\ Stands(report, Len(text[i - 1]), recs[i])
               /\ Len(text[i]) = Len(text[i - 1]) + Len(Block(recs[i]))
    <2> DEFINE p == Len(text[i - 1])
               b == Block(recs[i])
    <2>1. i - 1 \in 0..n /\ i \in 0..n /\ n \in i..n
      BY <1>1
    <2>2. text[i - 1] \in Seq(LineType) /\ text[i] \in Seq(LineType) /\ b \in Seq(LineType)
          /\ text[i] = text[i - 1] \o b
      BY <1>1, <2>1, BlockLines
    <2>3. Len(text[i]) = p + Len(b) /\ \A k \in 1..Len(b) : text[i][p + k] = b[k]
      <3> DEFINE s == text[i - 1]
      <3>1. s \in Seq(LineType) /\ text[i] = s \o b /\ p = Len(s)
        BY <2>2
      <3> HIDE DEF s, p, b
      <3>2. b \in Seq(LineType)
        BY <2>2
      <3>3. Len(s \o b) = Len(s) + Len(b) /\ \A k \in 1..Len(b) : (s \o b)[Len(s) + k] = b[k]
        BY <3>1, <3>2, OneAfterOther, Zenon
      <3> QED BY <3>1, <3>3
    <2>4. Front(text[i], all)
      BY <2>1, TextsGrow DEF all, n
    <2>5. Front(text[i], report)
      BY <1>2, <1>4, <1>5, <2>2, <2>4, FrontOfFront
    <2>6. p \in Nat /\ Len(b) \in Nat
      BY <2>2, LenProperties
    <2> HIDE DEF p, b
    <2>7. p + Len(b) <= Len(report)
      BY <2>3, <2>5 DEF Front
    <2>8. ASSUME NEW k \in 1..Len(b) PROVE report[p + k] = b[k]
      <3>1. PICK m \in Int : m = p + k
        BY <2>6
      <3>2. m \in 1..Len(text[i])
        BY <2>3, <2>6, <3>1
      <3>3. report[m] = text[i][m]
        BY <2>5, <3>2 DEF Front
      <3> QED BY <2>3, <3>1, <3>3
    <2> QED BY <2>3, <2>7, <2>8 DEF Stands, p, b
  <1> QED BY <1>4, <1>6 DEF n, all

-----------------------------------------------------------------------------
(* The whole report, read back. *)

\* One more record at the end of the first is one at the front of the rest.
LEMMA OneMoved ==
  ASSUME NEW T, NEW s \in Seq(T), NEW e \in T, NEW u \in Seq(T)
  PROVE  Append(s, e) \o u = s \o (<<e>> \o u)
  <1> DEFINE one == <<e>>
  <1>1. one \in Seq(T)
    OBVIOUS
  <1>2. Append(s, e) = s \o one
    BY AppendIsConcat
  <1> HIDE DEF one
  <1>3. (s \o one) \o u = s \o (one \o u)
    BY <1>1
  <1> QED BY <1>2, <1>3 DEF one

\* What the reader makes of a report are the named records it was written from.
LEMMA RoundTrip ==
  ASSUME NEW recs \in Seq(RecType), Readable(recs)
  PROVE  Parsed(Report(recs)) = Named(recs)[Len(recs)]
  <1> DEFINE n == Len(recs)
             report == Report(recs)
             nm == Named(recs)
             T == {RecordAt(report, i) : i \in 1..Len(report)} \cup {Seen(recs[i]) : i \in 1..n}
  <1>1. n \in Nat /\ \A i \in 1..n : recs[i] \in RecType
    BY LenProperties, ElementOfSeq
  <1>2. PICK text \in [0..n -> Seq(LineType)] :
          TextsOf(recs, text) /\ report = Append(text[n], Blank)
    BY ReportIs
  <1>3. /\ report \in Seq(LineType) /\ Len(report) = Len(text[n]) + 1
        /\ report[Len(report)] = Blank
        /\ \A i \in 1..n :
             /\ Stands(report, Len(text[i - 1]), recs[i])
             /\ Len(text[i]) = Len(text[i - 1]) + Len(Block(recs[i]))
    <2> HIDE DEF report
    <2> QED BY <1>2, BlocksStand
  <1>4. RecordsIn(report, T) /\ \A i \in 1..n : Seen(recs[i]) \in T
    BY DEF RecordsIn
  <1> HIDE DEF report, T
  <1>5. PICK from \in [1..(Len(report) + 4) -> Seq(T)] :
          Reads(report, from) /\ Parsed(report) = from[1]
    BY <1>3, <1>4, ParsedIs
  <1>6. /\ nm[0] = <<>> /\ \A i \in 0..n : nm[i] \in Seq(T)
        /\ \A i \in 1..n : nm[i] = IF recs[i].target = "" THEN nm[i - 1]
                                   ELSE Append(nm[i - 1], Seen(recs[i]))
    BY <1>4, NamedIs
  <1>7. ASSUME NEW i \in 0..n
        PROVE  Len(text[i]) \in Nat /\ from[Len(text[i]) + 1] \in Seq(T)
    <2>1. n \in i..n /\ text[i] \in Seq(LineType)
      BY <1>1
    <2>2. Len(text[i]) \in Nat /\ Len(text[n]) \in Nat
      BY <1>1, LenProperties
    <2>3. Len(text[i]) <= Len(text[n])
      BY <1>2, <2>1, TextsGrow DEF Front
    <2>4. Len(text[i]) + 1 \in 1..(Len(report) + 4)
      BY <1>3, <2>2, <2>3
    <2> QED BY <2>2, <2>4
  <1>8. from[Len(text[n]) + 1] = <<>>
    <2>1. PICK m \in Nat : m = Len(report)
      BY <1>3, LenProperties
    <2>2. m >= 1 /\ m = Len(text[n]) + 1 /\ report[m] = Blank
      <3>1. n \in 0..n
        BY <1>1
      <3> QED BY <1>3, <1>7, <2>1, <3>1
    <2>3. m \in 1..(Len(report) + 4) /\ m + 1 \in 1..(Len(report) + 4)
          /\ ~(m > Len(report)) /\ m + 1 > Len(report)
      BY <2>1, <2>2
    <2>4. from[m] = from[m + 1] /\ from[m + 1] = <<>>
      BY <1>5, <2>2, <2>3, Zenon DEF Reads, Read
    <2> QED BY <2>2, <2>4
  <1>9. ASSUME NEW i \in 1..n
        PROVE  nm[i] \o from[Len(text[i]) + 1] = nm[i - 1] \o from[Len(text[i - 1]) + 1]
    <2> DEFINE r == recs[i]
               p == Len(text[i - 1])
               rest == from[p + Len(Block(r)) + 1]
    <2>1. i - 1 \in 0..n /\ i \in 0..n /\ i \in DOMAIN recs
      BY <1>1
    <2>2. p \in Nat /\ r \in RecType /\ Stands(report, p, r)
          /\ nm[i - 1] \in Seq(T) /\ Seen(r) \in T
      BY <1>1, <1>3, <1>4, <1>6, <1>7, <2>1
    <2>3. Plain(r.body) /\ (Nameless(r) => NoRows(r.body))
      BY <2>1, Zenon DEF Readable, Nameless, NoRows
    <2>4. from[Len(text[i]) + 1] = rest /\ rest \in Seq(T)
      BY <1>3, <1>7, <2>1
    <2>5. nm[i] = IF Nameless(r) THEN nm[i - 1] ELSE Append(nm[i - 1], Seen(r))
      BY <1>6, Zenon DEF Nameless
    <2> HIDE DEF r, p
    <2>6. CASE Nameless(r)
      <3>1. from[p + 1] = rest
        BY <1>3, <1>5, <2>2, <2>3, <2>6, NamelessRead
      <3> HIDE DEF rest
      <3> QED BY <2>4, <2>5, <2>6, <3>1 DEF p
    <2>7. CASE ~Nameless(r)
      <3>1. from[p + 1] = <<Seen(r)>> \o rest
        BY <1>3, <1>5, <2>2, <2>3, <2>7, BlockRead
      <3>2. Append(nm[i - 1], Seen(r)) \o rest = nm[i - 1] \o (<<Seen(r)>> \o rest)
        <4> HIDE DEF rest
        <4> DEFINE front == nm[i - 1]
                   seen  == Seen(r)
        <4>1. front \in Seq(T) /\ seen \in T /\ rest \in Seq(T)
          BY <2>2, <2>4
        <4> HIDE DEF front, seen
        <4>2. Append(front, seen) \o rest = front \o (<<seen>> \o rest)
          BY ONLY <4>1, OneMoved
        <4> QED BY <4>2 DEF front, seen
      <3> HIDE DEF rest
      <3> QED BY <2>4, <2>5, <2>7, <3>1, <3>2, Zenon DEF p
    <2> QED BY <2>6, <2>7
  <1> HIDE DEF nm, n
  <1> DEFINE A == {i \in 0..n : nm[i] \o from[Len(text[i]) + 1] = from[1]}
  <1>10. 0 \in A
    <2>1. text[0] = <<>> /\ 0 \in 0..n
      BY <1>1, <1>2 DEF TextsOf
    <2>2. Len(text[0]) + 1 = 1
      BY <2>1
    <2>3. from[1] \in Seq(T)
      BY <1>7, <2>1, <2>2
    <2>4. <<>> \o from[1] = from[1]
      BY <2>3, ConcatEmptySeq
    <2> QED BY <1>6, <2>1, <2>2, <2>4
  <1>11. ASSUME NEW i \in 0..(n - 1), i \in A PROVE i + 1 \in A
    <2>1. i + 1 \in 1..n /\ i + 1 \in 0..n /\ (i + 1) - 1 = i
      BY <1>1
    <2> QED BY <1>9, <1>11, <2>1
  <1>12. n \in A
    <2> HIDE DEF A
    <2>1. 0..n \subseteq A
      BY <1>1, <1>10, <1>11, InductionTo
    <2> QED BY <1>1, <2>1
  <1>13. nm[n] \o <<>> = nm[n]
    <2>1. nm[n] \in Seq(T)
      <3>1. n \in 0..n
        BY <1>1
      <3> QED BY <1>6, <3>1, Zenon
    <2> QED BY <2>1, ConcatEmptySeq
  <1>14. nm[n] = from[1]
    BY <1>8, <1>12, <1>13
  <1> QED BY <1>5, <1>14 DEF nm, n, report

\* A file of nothing has no records.
LEMMA NothingRead == Parsed(<<>>) = <<>> /\ Named(<<>>)[Len(<<>>)] = <<>>
  <1>1. <<>> \in Seq(LineType) /\ <<>> \in Seq(RecType) /\ Len(<<>>) = 0
    OBVIOUS
  <1>2. RecordsIn(<<>>, {}) /\ \A i \in 1..0 : Seen(<<>>[i]) \in {}
    BY <1>1 DEF RecordsIn
  <1>3. PICK from \in [1..(Len(<<>>) + 4) -> Seq({})] :
          Reads(<<>>, from) /\ Parsed(<<>>) = from[1]
    BY <1>1, <1>2, ParsedIs
  <1>4. 1 \in 1..(Len(<<>>) + 4) /\ 1 > Len(<<>>)
    BY <1>1
  <1>5. from[1] = <<>>
    BY <1>3, <1>4, Zenon DEF Reads, Read
  <1>6. Named(<<>>)[0] = <<>>
    BY <1>1, <1>2, NamedIs
  <1> QED BY <1>1, <1>3, <1>5, <1>6

-----------------------------------------------------------------------------
(* The soft 404s among the records. *)

\* One more record is one more soft 404, or none.
LEMMA OneMoreSoft404 ==
  ASSUME NEW T, NEW s \in Seq(T), NEW e \in T
  PROVE  /\ Soft404s(s) \in Nat
         /\ Soft404s(Append(s, e)) = Soft404s(s) + (IF isItSoft404(e) THEN 1 ELSE 0)
  <1> DEFINE n == Len(s)
             S == {i \in DOMAIN s : isItSoft404(s[i])}
             more == Append(s, e)
             M == {i \in DOMAIN more : isItSoft404(more[i])}
  <1>1. n \in Nat /\ DOMAIN s = 1..n
    BY LenProperties
  <1>2. /\ DOMAIN more = 1..(n + 1) /\ more[n + 1] = e
        /\ \A i \in 1..n : more[i] = s[i]
    BY AppendProperties, LenProperties
  <1>3. Soft404s(s) = Cardinality(S) /\ Soft404s(more) = Cardinality(M)
    BY DEF Soft404s
  <1>4. S \subseteq 1..n /\ IsFiniteSet(S)
    <2>1. IsFiniteSet(1..n)
      BY <1>1, FS_Interval
    <2>2. S \subseteq 1..n
      BY <1>1
    <2> HIDE DEF S
    <2> QED BY <2>1, <2>2, FS_Subset
  <1>5. Cardinality(S) \in Nat /\ n + 1 \notin S
    <2> HIDE DEF S
    <2>1. n + 1 \notin 1..n
      BY <1>1
    <2> QED BY <1>4, <2>1, FS_CardinalityType
  <1>6. 1..(n + 1) = (1..n) \cup {n + 1}
    BY <1>1
  <1> HIDE DEF n, more
  <1>7. CASE isItSoft404(e)
    <2>1. M = S \cup {n + 1}
      <3>1. M = {i \in (1..n) \cup {n + 1} : isItSoft404(more[i])}
        BY <1>2, <1>6
      <3>2. S = {i \in 1..n : isItSoft404(s[i])}
        BY <1>1
      <3> HIDE DEF M, S
      <3> QED BY <1>2, <1>7, <3>1, <3>2
    <2> HIDE DEF S, M
    <2>2. Cardinality(S \cup {n + 1}) = Cardinality(S) + 1
      BY <1>4, <1>5, FS_AddElement
    <2> QED BY <1>3, <1>5, <1>7, <2>1, <2>2 DEF more
  <1>8. CASE ~isItSoft404(e)
    <2>1. M = S
      <3>1. M = {i \in (1..n) \cup {n + 1} : isItSoft404(more[i])}
        BY <1>2, <1>6
      <3>2. S = {i \in 1..n : isItSoft404(s[i])}
        BY <1>1
      <3> HIDE DEF M, S
      <3> QED BY <1>2, <1>8, <3>1, <3>2
    <2> HIDE DEF S, M
    <2> QED BY <1>3, <1>5, <1>8, <2>1 DEF more
  <1> QED BY <1>7, <1>8

\* An answer that looks like an error page under a status of success.
Wall(r) == /\ r.target # "" /\ r.status \in {200, 203, 206}
           /\ \E n \in DOMAIN r.body : r.body[n].sig

\* Neither the warning nor the blank line at the end tells.
LEMMA SeenWall ==
  ASSUME NEW r \in RecType, ~Nameless(r)
  PROVE  isItSoft404(Seen(r)) <=> Wall(r)
  <1>1. r.target # ""
    BY DEF Nameless
  <1>2. Seen(r).status = r.status
    BY DEF Seen
  <1> DEFINE b == r.body
             n == Len(b)
             Some(s) == \E i \in DOMAIN s : s[i].sig
  <1>3. b \in Seq(BodyLines) /\ n \in Nat /\ DOMAIN b = 1..n
    <2>1. b \in Seq(BodyLines)
      BY DEF RecType
    <2> QED BY <2>1, LenProperties
  <1>4. Some(Seen(r).body) <=> Some(b)
    <2>1. CASE b = <<>>
      <3>1. Seen(r).body = <<NoBody>>
        BY <2>1 DEF Seen
      <3>2. ~NoBody.sig
        BY LineFacts
      <3> QED BY <2>1, <3>1, <3>2
    <2>2. CASE b # <<>> /\ b[n] # Blank
      <3>1. Seen(r).body = b
        BY <2>2 DEF Seen
      <3> QED BY <3>1
    <2>3. CASE b # <<>> /\ b[n] = Blank
      <3> DEFINE c == SubSeq(b, 1, n - 1)
      <3>1. Seen(r).body = c
        BY <2>3 DEF Seen
      <3>2. n >= 1
        BY <1>3, <2>3, EmptySeq
      <3>3. DOMAIN c = 1..(n - 1) /\ \A i \in 1..(n - 1) : c[i] = b[i]
        <4>1. c \in Seq(BodyLines) /\ Len(c) = n - 1 /\ \A i \in 1..(n - 1) : c[i] = b[i]
          BY <1>3, <3>2, FrontType
        <4> HIDE DEF c
        <4> QED BY <4>1, LenProperties
      <3>4. ~Blank.sig
        BY DEF Blank, Line
      <3>5. ~b[n].sig /\ \A i \in 1..n : i = n \/ i \in 1..(n - 1)
        BY <1>3, <2>3, <3>4
      <3>6. 1..(n - 1) \subseteq 1..n
        BY <1>3
      <3> HIDE DEF b, n, c
      <3> QED BY <1>3, <3>1, <3>3, <3>5, <3>6
    <2> QED BY <2>1, <2>2, <2>3
  <1> QED BY <1>1, <1>2, <1>4, Zenon DEF isItSoft404, Wall

\* The soft 404s among the records that are read back are the walls among those that
\* were written.
LEMMA WallsCounted ==
  ASSUME NEW recs \in Seq(RecType)
  PROVE  /\ IsFiniteSet({i \in DOMAIN recs : Wall(recs[i])})
         /\ Soft404s(Named(recs)[Len(recs)]) = Cardinality({i \in DOMAIN recs : Wall(recs[i])})
  <1> DEFINE n == Len(recs)
             nm == Named(recs)
             T == {Seen(recs[i]) : i \in 1..n}
             W(m) == {i \in 1..m : Wall(recs[i])}
             A == {m \in 0..n : IsFiniteSet(W(m)) /\ Soft404s(nm[m]) = Cardinality(W(m))}
  <1>1. n \in Nat /\ (\A i \in 1..n : recs[i] \in RecType) /\ DOMAIN recs = 1..n
    BY LenProperties, ElementOfSeq
  <1>2. /\ nm[0] = <<>> /\ \A i \in 0..n : nm[i] \in Seq(T)
        /\ \A i \in 1..n : nm[i] = IF recs[i].target = "" THEN nm[i - 1]
                                   ELSE Append(nm[i - 1], Seen(recs[i]))
    <2>1. \A i \in 1..n : Seen(recs[i]) \in T
      OBVIOUS
    <2> HIDE DEF T
    <2> QED BY <2>1, NamedIs
  <1>3. \A i \in 1..n : Seen(recs[i]) \in T
    OBVIOUS
  <1> HIDE DEF n, nm, T
  <1>4. 0 \in A
    <2>1. W(0) = {}
      OBVIOUS
    <2>2. IsFiniteSet(W(0)) /\ Cardinality(W(0)) = 0
      BY <2>1, FS_EmptySet
    <2>3. Soft404s(nm[0]) = 0
      <3>1. {i \in DOMAIN nm[0] : isItSoft404(nm[0][i])} = {}
        <4>1. DOMAIN nm[0] = {}
          <5>1. DOMAIN <<>> = {}
            OBVIOUS
          <5> QED BY <1>2, <5>1, Zenon
        <4> QED BY <4>1
      <3> QED BY <3>1, FS_EmptySet DEF Soft404s
    <2> QED BY <1>1, <2>2, <2>3
  <1>5. ASSUME NEW m \in 0..(n - 1), m \in A PROVE m + 1 \in A
    <2> DEFINE r == recs[m + 1]
    <2>1. m + 1 \in 0..n /\ m + 1 \in 1..n /\ (m + 1) - 1 = m /\ m \in 0..n /\ m + 1 \notin 1..m
          /\ 1..(m + 1) = (1..m) \cup {m + 1}
      BY <1>1
    <2>2. IsFiniteSet(W(m)) /\ Soft404s(nm[m]) = Cardinality(W(m))
      BY <1>5
    <2>3. r \in RecType /\ nm[m] \in Seq(T) /\ Seen(r) \in T
      BY <1>1, <1>2, <1>3, <2>1
    <2>4. nm[m + 1] = IF Nameless(r) THEN nm[m] ELSE Append(nm[m], Seen(r))
      BY <1>2, <2>1, Zenon DEF Nameless
    <2>5. W(m + 1) = IF Wall(r) THEN W(m) \cup {m + 1} ELSE W(m)
      BY <2>1
    <2>6. m + 1 \notin W(m)
      BY <2>1
    <2>7. Nameless(r) => ~Wall(r)
      BY Zenon DEF Nameless, Wall
    <2>8. ~Nameless(r) => (isItSoft404(Seen(r)) <=> Wall(r))
      BY <2>3, SeenWall
    <2>9. /\ Soft404s(nm[m]) \in Nat
          /\ Soft404s(Append(nm[m], Seen(r))) =
               Soft404s(nm[m]) + (IF isItSoft404(Seen(r)) THEN 1 ELSE 0)
      <3> DEFINE s == nm[m]
                 e == Seen(r)
      <3>1. s \in Seq(T) /\ e \in T
        BY <2>3
      <3> HIDE DEF s, e
      <3>2. /\ Soft404s(s) \in Nat
            /\ Soft404s(Append(s, e)) = Soft404s(s) + (IF isItSoft404(e) THEN 1 ELSE 0)
        BY ONLY <3>1, OneMoreSoft404
      <3> QED BY <3>2 DEF s, e
    <2>10. IsFiniteSet(W(m + 1)) /\ Soft404s(nm[m + 1]) = Cardinality(W(m + 1))
      <3> HIDE DEF W, r
      <3>1. CASE Wall(r)
        <4>1. /\ IsFiniteSet(W(m) \cup {m + 1})
              /\ Cardinality(W(m) \cup {m + 1}) = Cardinality(W(m)) + 1
          BY <2>2, <2>6, FS_AddElement
        <4>2. Soft404s(nm[m + 1]) = Soft404s(nm[m]) + 1
          BY <2>4, <2>7, <2>8, <2>9, <3>1
        <4> QED BY <2>2, <2>5, <3>1, <4>1, <4>2
      <3>2. CASE ~Wall(r)
        <4>1. Soft404s(nm[m + 1]) = Soft404s(nm[m])
          BY <2>4, <2>7, <2>8, <2>9, <3>2
        <4> QED BY <2>2, <2>5, <3>2, <4>1
      <3> QED BY <3>1, <3>2
    <2> QED BY <2>1, <2>10
  <1>6. n \in A
    <2> HIDE DEF A
    <2>1. 0..n \subseteq A
      BY <1>1, <1>4, <1>5, InductionTo
    <2> QED BY <1>1, <2>1
  <1>7. {i \in DOMAIN recs : Wall(recs[i])} = W(n)
    BY <1>1
  <1> HIDE DEF W
  <1> QED BY <1>6, <1>7 DEF n, nm

-----------------------------------------------------------------------------
(* The files and the verdict at every state. *)

\* A report that is whole is that of its records, or there is none.
FileInv ==
  /\ DOMAIN disk = {"asked", "stamped"}
  /\ disk["asked"].whole =>
       \/ disk["asked"].of \in Seq(RecType) /\ disk["asked"].text = Report(disk["asked"].of)
       \/ disk["asked"].of = <<>> /\ disk["asked"].text = <<>>

\* What was printed was made of the report of those records.
LineInv ==
  verdict.of # <<>> =>
    /\ verdict.of \in Seq(RecType)
    /\ verdict.anomalies \in 0..2
    /\ verdict.line = WafHit(verdict.anomalies, Soft404s(Parsed(Report(verdict.of))))

\* Every step keeps the file and the verdict so.
LEMMA FileStep ==
  ASSUME CaptureInv, FileInv, LineInv, Next
  PROVE  FileInv' /\ LineInv'
  <1>1. records \in Seq(RecType)
    BY DEF CaptureInv, CaptureTypeOK, RecType
  <1>2. CASE WriteReport
    <2>1. disk' = [disk EXCEPT !["asked"] = [text |-> Report(records), of |-> records,
                                             whole |-> TRUE]]
          /\ verdict' = verdict
      BY <1>2 DEF WriteReport
    <2>2. LineInv'
      BY <2>1 DEF LineInv
    <2>3. DOMAIN disk' = {"asked", "stamped"} /\ disk'["asked"].of = records
          /\ disk'["asked"].text = Report(records)
      BY <2>1 DEF FileInv
    <2>4. FileInv'
      BY <1>1, <2>3 DEF FileInv
    <2> QED BY <2>2, <2>4
  <1>3. CASE WriteCutShort
    <2>1. PICK n \in 0..(Len(Report(records)) - 1) :
            disk' = [disk EXCEPT !["asked"] = [text |-> SubSeq(Report(records), 1, n),
                                               of |-> records, whole |-> FALSE]]
      BY <1>3 DEF WriteCutShort
    <2>2. LineInv'
      BY <1>3 DEF WriteCutShort, LineInv
    <2>3. DOMAIN disk' = {"asked", "stamped"} /\ ~disk'["asked"].whole
      BY <2>1 DEF FileInv
    <2>4. FileInv'
      BY <2>3 DEF FileInv
    <2> QED BY <2>2, <2>4
  <1>4. CASE CatchWaf
    <2>1. disk' = disk
      BY <1>4 DEF CatchWaf, files
    <2>2. FileInv'
      BY <2>1 DEF FileInv
    <2>3. PICK n \in 0..2 :
            verdict' = [line |-> WafHit(n, Soft404s(Parsed(disk["asked"].text))),
                        anomalies |-> n,
                        of |-> IF disk["asked"].whole THEN disk["asked"].of ELSE <<>>]
      BY <1>4 DEF CatchWaf
    <2>4. ASSUME verdict'.of # <<>>
          PROVE  /\ verdict'.of = disk["asked"].of /\ disk["asked"].of \in Seq(RecType)
                 /\ disk["asked"].text = Report(disk["asked"].of)
      <3>1. disk["asked"].whole /\ disk["asked"].of # <<>> /\ verdict'.of = disk["asked"].of
        BY <2>3, <2>4
      <3> QED BY <3>1 DEF FileInv
    <2>5. verdict'.line = WafHit(n, Soft404s(Parsed(disk["asked"].text)))
          /\ verdict'.anomalies = n
      BY <2>3
    <2>6. LineInv'
      BY <2>4, <2>5 DEF LineInv
    <2> QED BY <2>2, <2>6
  <1>5. CASE Restart
    <2>1. FileInv'
      BY <1>5 DEF Restart, FileInv, files
    <2>2. verdict'.of = <<>>
      BY <1>5 DEF Restart, NoVerdict
    <2> QED BY <2>1, <2>2 DEF LineInv
  <1>6. CASE disk' = disk /\ verdict' = verdict
    BY <1>6 DEF FileInv, LineInv
  <1>7. ASSUME Next, ~WriteReport, ~WriteCutShort, ~CatchWaf, ~Restart
        PROVE  disk' = disk /\ verdict' = verdict
    BY <1>7 DEF Next, files, BeginBatch, CreateEngine, EmptyReply, CancelledBefore, NotCancelled,
       CallScan, CancelledInside, OpenSocket, ConnectFails, GiveUp, Connects, TlsFails,
       TlsConnects, ReadJunk, ReadHeader, ReadHeaderEnd, ReadBody, EndOfAnswer, Collect,
       WriteFails, Cancel
  <1> QED BY <1>2, <1>3, <1>4, <1>5, <1>6, <1>7

\* The report and the verdict are what they are made of, at every state.
LEMMA FileInvariant == Spec => [](FileInv /\ LineInv)
  <1>1. Init => FileInv /\ LineInv
    <2> SUFFICES ASSUME Init PROVE FileInv /\ LineInv
      OBVIOUS
    <2>1. DOMAIN disk = {"asked", "stamped"} /\ disk["asked"].of = <<>> /\ disk["asked"].text = <<>>
      BY DEF Init, NoReport
    <2>2. verdict.of = <<>>
      BY DEF Init, NoVerdict
    <2> QED BY <2>1, <2>2 DEF FileInv, LineInv
  <1>2. CaptureInv /\ FileInv /\ LineInv /\ Next => FileInv' /\ LineInv'
    BY FileStep
  <1>3. FileInv /\ LineInv /\ UNCHANGED vars => FileInv' /\ LineInv'
    BY DEF FileInv, LineInv, vars, files
  <1> QED BY <1>1, <1>2, <1>3, CaptureInvariant, PTL DEF Spec

\* The soft-404 catcher reads back from a whole report the records it was written
\* from, all that name a target and no other.
THEOREM RecordsReadBackCorrect == Spec => []RecordsReadBack
  <1>1. FileInv => RecordsReadBack
    <2> SUFFICES ASSUME FileInv, disk["asked"].whole, Readable(disk["asked"].of)
                 PROVE  Parsed(disk["asked"].text)
                          = Named(disk["asked"].of)[Len(disk["asked"].of)]
      BY DEF RecordsReadBack
    <2>1. CASE disk["asked"].of \in Seq(RecType) /\ disk["asked"].text = Report(disk["asked"].of)
      BY <2>1, RoundTrip
    <2>2. CASE disk["asked"].of = <<>> /\ disk["asked"].text = <<>>
      BY <2>2, NothingRead
    <2> QED BY <2>1, <2>2 DEF FileInv
  <1> QED BY <1>1, FileInvariant, PTL

\* The line that is printed is so of the records that were written.
THEOREM VerdictGroundedCorrect == Spec => []VerdictGrounded
  <1>1. LineInv => VerdictGrounded
    <2> DEFINE of == verdict.of
               walls == {i \in DOMAIN of : Wall(of[i])}
               k == Soft404s(Parsed(Report(of)))
    <2>1. VerdictGrounded <=>
            (of # <<>> /\ Readable(of) =>
               /\ verdict.line = "critical" => verdict.anomalies >= 2 /\ Cardinality(walls) >= 2
               /\ verdict.line = "soft404" => verdict.anomalies = 0 /\ Cardinality(walls) >= 2
               /\ verdict.line = "throttling" => walls = {})
      BY Zenon DEF VerdictGrounded, Wall
    <2> SUFFICES ASSUME LineInv, of # <<>>, Readable(of)
                 PROVE  /\ verdict.line = "critical" =>
                             verdict.anomalies >= 2 /\ Cardinality(walls) >= 2
                        /\ verdict.line = "soft404" =>
                             verdict.anomalies = 0 /\ Cardinality(walls) >= 2
                        /\ verdict.line = "throttling" => walls = {}
      BY <2>1
    <2>2. of \in Seq(RecType) /\ verdict.anomalies \in 0..2
          /\ verdict.line = WafHit(verdict.anomalies, k)
      BY DEF LineInv
    <2>3. k = Cardinality(walls) /\ IsFiniteSet(walls)
      BY <2>2, RoundTrip, WallsCounted
    <2> HIDE DEF walls, k
    <2>4. Cardinality(walls) \in Nat /\ (Cardinality(walls) = 0 => walls = {})
      BY <2>3, FS_CardinalityType, FS_EmptySet
    <2>5. \A a \in 0..2 : \A c \in Nat :
            /\ WafHit(a, c) = "critical" => a >= 2 /\ c >= 2
            /\ WafHit(a, c) = "soft404" => a = 0 /\ c >= 2
            /\ WafHit(a, c) = "throttling" => c = 0
      BY DEF WafHit
    <2> QED BY <2>2, <2>3, <2>4, <2>5
  <1> QED BY <1>1, FileInvariant, PTL
=============================================================================
