---------------------------- MODULE CommandProofs ----------------------------
(***************************************************************************)
(* The commands that keep no corpus, proved for any number of queries,     *)
(* applications, scorers and failed requests: the end-to-end run, up and   *)
(* down, the scoring of one record, the non-regression gate and the        *)
(* scratch diagnostic.  Each has an inductive invariant, which holds at    *)
(* its start and after each of its steps; OperatorProofs puts them         *)
(* together.                                                               *)
(***************************************************************************)
EXTENDS EndToEnd, Deployment, RecordEvaluation, AcceptanceGate, ScratchDiagnostic,
        SequenceLemmas

---------------------------------------------------------------------------
(* The end-to-end batch *)

\* Where the client is: before the batch, at one query, and after the last.
Attempting == {"chat", "query", "wait_trace", "wait_failed_trace", "submit", "post", "finish",
               "cleanup", "record"}
Batch == {"start_trace", "shared_chat", "loop", "close_trace"} \cup Attempting
Closed == {"finally", "cleanup_pending", "down", "report", "done"}

RowRecords ==
    [index : 1..Queries, status : {"succeeded", "failed", "not_attempted"},
     scope : {"none", "individual", "systemic"}, posted : BOOLEAN,
     evaluation : {"skipped", "succeeded", "partial", "failed"}]
AttemptRecords ==
    [status : {"succeeded", "failed"}, scope : {"none", "individual", "systemic"}, posted : BOOLEAN,
     evaluation : {"skipped", "succeeded", "partial", "failed"}, raise : BOOLEAN]

SeenRecords == [posted : SUBSET (1..Queries), unknown : SUBSET Nat, lost : SUBSET (1..Queries),
                cut : BOOLEAN]

\* The row of each query, as far as the batch is.
E2ETypeOK ==
    /\ e2eMode \in [dataset : BOOLEAN, continuous : BOOLEAN]
    /\ e2ePc \in Batch \cup Closed \cup {"pre_down", "up", "corpus", "abort"}
    /\ e2eQuery \in 1..Queries + 1 /\ (e2ePc \in Attempting => e2eQuery <= Queries)
    /\ e2eTrace \in [id : Nat, started : BOOLEAN]
    /\ e2eAttempt \in AttemptRecords
    /\ e2eRecorder \in [rows : Seq(RowRecords), attempted : Nat, notAttempted : Nat]
    /\ e2eSeen \in SeenRecords
    /\ e2ePhase \in {"running", "failed", "passed"}

\* The client's trace session is the only one there is.
TraceHeld ==
    /\ e2eTraces \subseteq {e2eTrace.id}
    /\ e2ePc \in {"pre_down", "up", "corpus", "start_trace"} => e2eTraces = {}
    /\ e2ePc \in Batch \ {"start_trace"} => e2eTrace.started
    /\ e2ePhase # "failed" /\ e2ePc = "finally" => e2eTrace.started
    /\ e2ePhase # "failed" /\ e2ePc \in Closed \ {"finally"} => e2eTraces = {}

\* The attempt knows whether its query was posted, and how far it came.
AttemptTrue ==
    /\ \A q \in e2eSeen.posted : q <= e2eQuery
    /\ e2ePc \in Attempting => (e2eAttempt.posted <=> e2eQuery \in e2eSeen.posted)
    /\ e2ePc \in {"chat", "query"} => e2eAttempt = NoAttempt
    /\ e2ePc \in (Batch \ Attempting) \cup {"pre_down", "up", "corpus"} =>
          e2eQuery \notin e2eSeen.posted
    /\ e2ePc \in {"pre_down", "up", "corpus"} => e2eSeen.posted = {}
    /\ e2ePc \in Closed \cup {"abort"} /\ e2eQuery \in e2eSeen.posted => e2eQuery \in e2eSeen.lost
    /\ e2ePc \in Attempting /\ e2eAttempt.status = "succeeded" => e2eAttempt.posted
    /\ e2ePc \in {"wait_trace", "wait_failed_trace", "submit", "post", "finish"} => e2eAttempt.posted
    /\ e2ePc = "wait_failed_trace" => e2eAttempt.status = "failed"
    /\ e2eJob = "running" => e2ePc \in {"post", "finish"}
    /\ e2ePc = "post" => e2eJob = "running" \/ e2eAttempt.evaluation # "skipped"
    /\ e2ePc = "finish" /\ e2eAttempt.status = "succeeded" =>
          e2eJob = "running" \/ e2eAttempt.evaluation # "skipped"
    /\ e2ePc \in {"cleanup", "record"} /\ e2eAttempt.status = "succeeded" =>
          e2eAttempt.evaluation # "skipped"

\* The rows are those of the queries before this one, in order; of an aborted batch one may
\* be missing, and that of a dataset has the rest; before the batch there is none.
InPlace(n) == /\ Len(e2eRecorder.rows) = n
              /\ \A i \in DOMAIN e2eRecorder.rows : e2eRecorder.rows[i].index = i
OneMissing(n, gap) ==
    /\ gap \in e2eSeen.lost /\ Len(e2eRecorder.rows) = n - 1
    /\ \A i \in DOMAIN e2eRecorder.rows : e2eRecorder.rows[i].index = IF i < gap THEN i ELSE i + 1
RowsPlaced ==
    /\ e2ePc \notin Closed =>
          /\ e2eRecorder.attempted = e2eQuery - 1 /\ e2eRecorder.notAttempted = 0
          /\ InPlace(e2eQuery - 1) \/ (e2ePc = "abort" /\ OneMissing(e2eQuery - 1, e2eQuery - 1))
    /\ e2ePc \in {"pre_down", "up", "corpus"} => e2eQuery = 1
    /\ e2ePc \in Closed \ {"done"} /\ e2eMode.dataset =>
          \/ e2eRecorder.rows = <<>> /\ e2eSeen.posted = {}
          \/ InPlace(Queries)
          \/ \E gap \in 1..Queries : OneMissing(Queries, gap)
    /\ e2ePc \in Closed /\ e2ePhase # "failed" => InPlace(Queries) /\ e2eQuery = Queries + 1

\* What a row says, and what follows a systemic failure.
RowsTrue ==
    \A i \in DOMAIN e2eRecorder.rows :
        LET row == e2eRecorder.rows[i]
        IN /\ row.index \in e2eSeen.lost \/ (row.posted <=> row.index \in e2eSeen.posted)
           /\ row.scope = "systemic" /\ row.status = "failed" =>
                 e2ePc \in Closed \cup {"abort"} /\ \A q \in e2eSeen.posted : q <= row.index
           /\ e2ePhase # "failed" => row.status # "not_attempted"
           /\ row.status = "succeeded" => row.posted /\ row.evaluation # "skipped"

\* A chat session that the client knows of is still to be deleted, or was reported.
ChatsKnown ==
    /\ e2eMode.dataset /\ ~e2eSeen.cut =>
          \A chat \in e2eChats \ e2eSeen.unknown :
              chat \in e2ePending \/ (chat \in DOMAIN e2eCleanups /\ e2eCleanups[chat] = "failed")
    /\ e2ePc \in {"down", "report", "done"} /\ ~e2eSeen.cut => e2ePending = {}
    /\ e2ePc \in {"pre_down", "up", "corpus"} => e2eChats = {} /\ e2ePending = {}

\* Until something failed nothing is lost, and a session that nobody learned of has
\* made its query fail.
FaultsTold ==
    /\ e2ePhase # "failed" /\ e2ePc # "abort" => e2eSeen.lost = {} /\ ~e2eSeen.cut
    /\ e2ePhase # "failed" /\ e2ePc # "abort" =>
          \/ e2eSeen.unknown = {}
          \/ e2ePc = "record" /\ e2eAttempt.status = "failed"
          \/ \E i \in DOMAIN e2eRecorder.rows : e2eRecorder.rows[i].status = "failed"
    /\ e2ePhase = "passed" => e2ePc \in {"down", "report", "done"} /\ ~E2EBatchFailed
    /\ e2eSummary = "succeeded" => e2ePc = "done" /\ e2ePhase = "passed"

E2EInv == /\ E2ETypeOK /\ TraceHeld /\ AttemptTrue /\ RowsPlaced /\ RowsTrue /\ ChatsKnown
          /\ FaultsTold /\ EveryQueryAccounted

---------------------------------------------------------------------------
(* The values of an attempt *)

\* What an attempt is before anything was sent.
LEMMA NoAttemptFields ==
  /\ NoAttempt \in AttemptRecords /\ NoAttempt.status = "failed" /\ NoAttempt.posted = FALSE
  /\ NoAttempt.scope = "none" /\ NoAttempt.evaluation = "skipped"
BY DEF NoAttempt, AttemptRecords

\* An attempt that was posted, and one that was interrupted.
LEMMA NewAttempt ==
  ASSUME NEW sent \in BOOLEAN
  PROVE  /\ [NoAttempt EXCEPT !.posted = sent] \in AttemptRecords
         /\ [NoAttempt EXCEPT !.posted = sent].posted = sent
         /\ [NoAttempt EXCEPT !.posted = sent].status = "failed"
         /\ [NoAttempt EXCEPT !.posted = sent].evaluation = "skipped"
         /\ Interrupted(sent) \in AttemptRecords /\ Interrupted(sent).posted = sent
         /\ Interrupted(sent).status = "failed"
BY DEF NoAttempt, Interrupted, AttemptRecords

\* An attempt that failed.
LEMMA FailedAttempt ==
  ASSUME NEW attempt \in AttemptRecords, NEW scope_ \in {"none", "individual", "systemic"}
  PROVE  /\ E2EFailing(attempt, scope_) \in AttemptRecords
         /\ E2EFailing(attempt, scope_).status = "failed"
         /\ (E2EFailing(attempt, scope_).posted <=> attempt.posted)
         /\ E2EFailing(attempt, scope_).evaluation = attempt.evaluation
         /\ [E2EFailing(attempt, scope_) EXCEPT !.evaluation = "failed"] \in AttemptRecords
         /\ [E2EFailing(attempt, scope_) EXCEPT !.evaluation = "failed"].status = "failed"
         /\ ([E2EFailing(attempt, scope_) EXCEPT !.evaluation = "failed"].posted <=> attempt.posted)
         /\ [E2EFailing(attempt, scope_) EXCEPT !.evaluation = "failed"].evaluation = "failed"
<1>1. PICK n : n = E2EFailing(attempt, scope_)
  OBVIOUS
<1>2. n \in AttemptRecords /\ n.status = "failed" /\ n.evaluation = attempt.evaluation
  BY <1>1 DEF E2EFailing, AttemptRecords
<1>3. n.posted <=> attempt.posted
  BY <1>1 DEF E2EFailing, AttemptRecords
<1>4. PICK m : m = [n EXCEPT !.evaluation = "failed"]
  OBVIOUS
<1>5. m \in AttemptRecords /\ m.status = n.status /\ m.evaluation = "failed"
  BY <1>2, <1>4 DEF AttemptRecords
<1>6. m.posted <=> n.posted
  BY <1>2, <1>4 DEF AttemptRecords
<1> QED
  BY <1>1, <1>2, <1>3, <1>4, <1>5, <1>6
---------------------------------------------------------------------------
(* The rows *)

\* A row added at the end.
LEMMA RowAdded ==
  ASSUME NEW R, NEW s \in Seq(R), NEW r \in R
  PROVE  /\ Append(s, r) \in Seq(R) /\ Len(Append(s, r)) = Len(s) + 1
         /\ Append(s, r)[Len(s) + 1] = r /\ \A i \in DOMAIN s : Append(s, r)[i] = s[i]
         /\ DOMAIN Append(s, r) = DOMAIN s \cup {Len(s) + 1}
OBVIOUS

\* Rows added at the end: the first ones stay, the others follow in their order.
Joined(all, s, t) ==
    /\ Len(all) = Len(s) + Len(t)
    /\ \A i \in DOMAIN s : i \in DOMAIN all /\ all[i] = s[i]
    /\ \A i \in DOMAIN all :
          i \notin DOMAIN s => \E j \in DOMAIN t : j \in Nat \ {0} /\ i = Len(s) + j /\ all[i] = t[j]

\* A concatenation of lists joins them.
LEMMA RowsJoined ==
  ASSUME NEW R, NEW s \in Seq(R), NEW t \in Seq(R)
  PROVE  s \o t \in Seq(R) /\ Joined(s \o t, s, t)
<1>1. PICK all : all = s \o t
  OBVIOUS
<1>2. /\ all \in Seq(R) /\ Len(all) = Len(s) + Len(t) /\ Len(s) \in Nat /\ Len(t) \in Nat
      /\ \A i \in DOMAIN s : i \in DOMAIN all /\ all[i] = s[i]
  BY <1>1
<1>3. ASSUME NEW i \in DOMAIN all, i \notin DOMAIN s
      PROVE  \E j \in DOMAIN t : j \in Nat \ {0} /\ i = Len(s) + j /\ all[i] = t[j]
  <2>1. i \in 1..(Len(s) + Len(t)) /\ ~(i \in 1..Len(s))
    BY <1>2, <1>3
  <2>2. PICK j \in Nat \ {0} : j \in 1..Len(t) /\ i = Len(s) + j
    <3>1. PICK m, n : m = Len(s) /\ n = Len(t) /\ m \in Nat /\ n \in Nat
      BY <1>2
    <3>2. i - m \in Nat \ {0} /\ i - m \in 1..n /\ i = m + (i - m)
      BY <2>1, <3>1
    <3> QED
      BY <3>1, <3>2
  <2>3. j \in DOMAIN t /\ all[Len(s) + j] = t[j]
    BY <1>1, <1>2, <2>2
  <2> QED
    BY <2>2, <2>3
<1> QED
  BY <1>1, <1>2, <1>3 DEF Joined

\* The row of a query that was not attempted.
LEMMA NotAttemptedRow ==
  ASSUME NEW q \in 1..Queries
  PROVE  /\ NotAttempted(q) \in RowRecords /\ NotAttempted(q).index = q
         /\ NotAttempted(q).status = "not_attempted" /\ NotAttempted(q).posted = FALSE
<1>1. PICK n : n = [NoAttempt EXCEPT !.status = "not_attempted", !.scope = "systemic"]
  OBVIOUS
<1>2. /\ n.status = "not_attempted" /\ n.scope = "systemic" /\ n.posted = FALSE
      /\ n.evaluation = "skipped"
  BY <1>1 DEF NoAttempt
<1>3. NotAttempted(q) = [index |-> q, status |-> "not_attempted", scope |-> "systemic",
                         posted |-> FALSE, evaluation |-> "skipped"]
  BY <1>1, <1>2 DEF NotAttempted, Row
<1> QED
  BY <1>3 DEF RowRecords

\* The row of an attempt.
LEMMA AttemptRow ==
  ASSUME NEW q \in 1..Queries, NEW attempt \in AttemptRecords
  PROVE  /\ Row(q, attempt) \in RowRecords /\ Row(q, attempt).index = q
         /\ Row(q, attempt).status = attempt.status /\ Row(q, attempt).scope = attempt.scope
         /\ (Row(q, attempt).posted <=> attempt.posted)
         /\ Row(q, attempt).evaluation = attempt.evaluation
BY DEF Row, RowRecords, AttemptRecords

\* The client records the attempt, or loses its row.
LEMMA RecordAttemptKeeps ==
  ASSUME NEW ok \in BOOLEAN, E2EInv, RecordAttempt(ok)
  PROVE  E2EInv'
<1>1. PICK row, q, rows : /\ row = Row(e2eQuery, e2eAttempt) /\ q = e2eQuery /\ rows = e2eRecorder.rows
                          /\ q \in 1..Queries /\ rows \in Seq(RowRecords)
  BY QueriesAssumption DEF E2EInv, E2ETypeOK, SeenRecords, Attempting, RecordAttempt, E2EAt
<1>2. /\ row \in RowRecords /\ row.index = q /\ row.status = e2eAttempt.status
      /\ row.scope = e2eAttempt.scope /\ (row.posted <=> e2eAttempt.posted)
      /\ row.evaluation = e2eAttempt.evaluation
  BY <1>1, AttemptRow DEF E2EInv, E2ETypeOK, SeenRecords
<1>3. /\ e2ePc = "record" /\ e2ePc' \in {"loop", "abort"} /\ (~ok => e2ePc' = "abort")
      /\ (e2eAttempt.scope = "systemic" => e2ePc' = "abort")
      /\ e2eQuery' = q + 1 /\ e2eQuery' \in 1..Queries + 1 /\ q \in Nat
      /\ e2eJob' = "none" /\ UNCHANGED <<e2eMode, sessionVars, e2eAttempt, e2ePhase, e2eSummary>>
  BY <1>1, QueriesAssumption DEF RecordAttempt, E2EAt, E2EGo
<1>4. /\ e2eRecorder' \in [rows : Seq(RowRecords), attempted : Nat, notAttempted : Nat]
      /\ e2eRecorder'.attempted = e2eRecorder.attempted + 1
      /\ e2eRecorder'.notAttempted = e2eRecorder.notAttempted
      /\ e2eRecorder'.rows = IF ok THEN Append(rows, row) ELSE rows
  <2>1. PICK list : list = IF ok THEN Append(rows, row) ELSE rows
    OBVIOUS
  <2>2. list \in Seq(RowRecords)
    BY <1>1, <1>2, <2>1
  <2>3. e2eRecorder \in [rows : Seq(RowRecords), attempted : Nat, notAttempted : Nat]
    BY DEF E2EInv, E2ETypeOK, SeenRecords
  <2>4. PICK k : k = e2eRecorder.attempted + 1 /\ k \in Nat
    BY <2>3
  <2>5. e2eRecorder' = [e2eRecorder EXCEPT !.attempted = k, !.rows = list]
    BY <1>1, <2>1, <2>4 DEF RecordAttempt
  <2>6. /\ e2eRecorder' \in [rows : Seq(RowRecords), attempted : Nat, notAttempted : Nat]
        /\ e2eRecorder'.attempted = k /\ e2eRecorder'.notAttempted = e2eRecorder.notAttempted
        /\ e2eRecorder'.rows = list
    BY <2>2, <2>3, <2>4, <2>5
  <2> QED
    BY <2>1, <2>4, <2>6
<1>5. /\ e2eSeen' \in SeenRecords
      /\ e2eSeen'.posted = e2eSeen.posted /\ e2eSeen'.unknown = e2eSeen.unknown
      /\ e2eSeen'.lost = IF ok THEN e2eSeen.lost ELSE e2eSeen.lost \cup {q}
  BY <1>1 DEF RecordAttempt, E2EInv, E2ETypeOK, SeenRecords
<1>6. e2eSeen'.cut <=> e2eSeen.cut
  BY DEF RecordAttempt, E2EInv, E2ETypeOK, SeenRecords
<1>7. InPlace(q - 1) /\ e2eRecorder.attempted = q - 1 /\ e2eRecorder.notAttempted = 0
  BY <1>1, <1>3 DEF E2EInv, RowsPlaced, Closed
<1>8. /\ \A i \in DOMAIN rows : rows[i].index = i /\ i < q
      /\ Len(rows) = q - 1
  BY <1>1, <1>3, <1>7 DEF InPlace
<1>9. E2ETypeOK'
  BY <1>3, <1>4, <1>5 DEF E2EInv, E2ETypeOK, SeenRecords, Attempting, Batch, Closed, sessionVars
<1>10. TraceHeld'
  BY <1>3 DEF E2EInv, TraceHeld, Attempting, Batch, Closed, sessionVars
<1>11. AttemptTrue'
  <2>1. \A p \in e2eSeen.posted : p <= q /\ p \in Nat
    BY <1>1 DEF E2EInv, E2ETypeOK, SeenRecords, AttemptTrue
  <2>2. \A p \in e2eSeen'.posted : p <= q + 1 /\ p # q + 1
    BY <1>3, <1>5, <2>1
  <2> QED
    BY <1>3, <1>5, <2>2 DEF AttemptTrue, Attempting, Batch, Closed
<1>12. RowsPlaced'
  <2>1. CASE ok
    <3>1. InPlace(q)'
      BY <1>1, <1>2, <1>4, <1>8, <2>1, RowAdded DEF InPlace
    <3> QED
      BY <1>3, <1>4, <1>7, <3>1 DEF RowsPlaced, Closed
  <2>2. CASE ~ok
    <3>1. OneMissing(q, q)'
      BY <1>1, <1>4, <1>5, <1>8, <2>2 DEF OneMissing
    <3> QED
      BY <1>3, <1>4, <1>7, <2>2, <3>1 DEF RowsPlaced, Closed
  <2> QED
    BY <2>1, <2>2
<1>13. RowsTrue'
  <2>1. \A i \in DOMAIN rows :
           /\ rows[i].index \in e2eSeen.lost \/ (rows[i].posted <=> rows[i].index \in e2eSeen.posted)
           /\ ~(rows[i].scope = "systemic" /\ rows[i].status = "failed")
           /\ e2ePhase # "failed" => rows[i].status # "not_attempted"
           /\ rows[i].status = "succeeded" => rows[i].posted /\ rows[i].evaluation # "skipped"
    BY <1>1, <1>3 DEF E2EInv, RowsTrue, Closed
  <2>2. /\ row.posted <=> row.index \in e2eSeen.posted
        /\ row.status # "not_attempted"
        /\ row.status = "succeeded" => row.posted /\ row.evaluation # "skipped"
        /\ \A p \in e2eSeen.posted : p <= row.index
    BY <1>1, <1>2, <1>3 DEF E2EInv, AttemptTrue, Attempting, E2ETypeOK, SeenRecords, AttemptRecords
  <2>3. row.scope = "systemic" => e2ePc' = "abort"
    BY <1>2, <1>3
  <2>4. \A i \in DOMAIN e2eRecorder'.rows :
           \/ i \in DOMAIN rows /\ e2eRecorder'.rows[i] = rows[i]
           \/ e2eRecorder'.rows[i] = row
    BY <1>1, <1>2, <1>4, RowAdded
  <2> QED
    BY <1>3, <1>5, <2>1, <2>2, <2>3, <2>4 DEF RowsTrue
<1>14. ChatsKnown'
  BY <1>3, <1>5, <1>6 DEF E2EInv, ChatsKnown, sessionVars
<1>15. FaultsTold'
  <2>1. CASE e2ePc' = "abort"
    BY <1>3, <2>1 DEF E2EInv, FaultsTold
  <2>2. CASE e2ePc' # "abort"
    <3>1. ok /\ e2eRecorder'.rows = Append(rows, row)
      BY <1>3, <1>4, <2>2
    <3>2. /\ Len(rows) + 1 \in DOMAIN e2eRecorder'.rows /\ e2eRecorder'.rows[Len(rows) + 1] = row
          /\ \A i \in DOMAIN rows : i \in DOMAIN e2eRecorder'.rows /\ e2eRecorder'.rows[i] = rows[i]
      BY <1>1, <1>2, <3>1, RowAdded
    <3>3. e2ePhase # "failed" =>
             \/ e2eSeen.unknown = {}
             \/ \E i \in DOMAIN e2eRecorder'.rows : e2eRecorder'.rows[i].status = "failed"
      BY <1>1, <1>2, <1>3, <3>2 DEF E2EInv, FaultsTold
    <3> QED
      BY <1>3, <1>5, <1>6, <3>1, <3>3 DEF E2EInv, FaultsTold
  <2> QED
    BY <2>1, <2>2
<1>16. EveryQueryAccounted'
  BY <1>3 DEF EveryQueryAccounted, E2EAt
<1> QED
  BY <1>9, <1>10, <1>11, <1>12, <1>13, <1>14, <1>15, <1>16 DEF E2EInv

\* The rest of an aborted batch gets its rows.
LEMMA AbortBatchKeeps == E2EInv /\ AbortBatch => E2EInv'
<1> SUFFICES ASSUME E2EInv, AbortBatch PROVE E2EInv'
  OBVIOUS
<1>1. PICK q, rows : /\ q = e2eQuery /\ rows = e2eRecorder.rows /\ q \in 1..Queries + 1
                     /\ rows \in Seq(RowRecords)
  BY DEF E2EInv, E2ETypeOK, SeenRecords
<1>2. /\ e2ePc = "abort" /\ e2ePc' = "finally" /\ e2ePhase' = "failed"
      /\ UNCHANGED <<e2eMode, e2eQuery, sessionVars, e2eAttempt, e2eJob, e2eSummary, e2eSeen>>
  BY DEF AbortBatch, E2EAt, E2EGo
<1>3. /\ e2eRecorder.attempted = q - 1 /\ e2eRecorder.notAttempted = 0
      /\ InPlace(q - 1) \/ OneMissing(q - 1, q - 1)
  BY <1>1, <1>2 DEF E2EInv, RowsPlaced, Closed
<1> DEFINE Rest == [i \in 1..(Queries + 1 - q) |-> NotAttempted(q + i - 1)]
<1>4. /\ Rest \in Seq(RowRecords) /\ Len(Rest) = Queries + 1 - q
      /\ \A j \in DOMAIN Rest : /\ j \in 1..(Queries + 1 - q) /\ Rest[j].index = q + j - 1
                                /\ Rest[j].status = "not_attempted" /\ Rest[j].posted = FALSE
  <2>1. PICK n : n = Queries + 1 - q /\ n \in Nat
    BY <1>1, QueriesAssumption
  <2>2. \A j \in 1..n : q + j - 1 \in 1..Queries
    BY <1>1, <2>1, QueriesAssumption
  <2>3. \A j \in 1..n : /\ NotAttempted(q + j - 1) \in RowRecords
                        /\ NotAttempted(q + j - 1).index = q + j - 1
                        /\ NotAttempted(q + j - 1).status = "not_attempted"
                        /\ NotAttempted(q + j - 1).posted = FALSE
    BY <2>2, NotAttemptedRow
  <2>4. Rest \in [1..n -> RowRecords] /\ \A j \in 1..n : Rest[j] = NotAttempted(q + j - 1)
    BY <2>1, <2>3
  <2> HIDE DEF Rest
  <2>5. Rest \in Seq(RowRecords) /\ Len(Rest) = n /\ DOMAIN Rest = 1..n
    BY <2>1, <2>4
  <2> QED
    BY <2>1, <2>3, <2>4, <2>5
<1>5. PICK rest :
        /\ rest \in Seq(RowRecords) /\ Len(rest) = Queries + 1 - q
        /\ \A j \in DOMAIN rest : /\ j \in 1..(Queries + 1 - q) /\ rest[j].index = q + j - 1
                                  /\ rest[j].status = "not_attempted" /\ rest[j].posted = FALSE
        /\ e2eRecorder'.rows = IF e2eMode.dataset THEN rows \o rest ELSE rows
        /\ e2eRecorder' \in [rows : Seq(RowRecords), attempted : Nat, notAttempted : Nat]
  <2>1. e2eRecorder.attempted + e2eRecorder.notAttempted + 1 = q
    BY <1>1, <1>3, QueriesAssumption
  <2>2. e2eRecorder' = IF e2eMode.dataset
                       THEN [e2eRecorder EXCEPT !.rows = @ \o Rest, !.notAttempted = @ + Len(Rest)]
                       ELSE e2eRecorder
    BY <1>1, <2>1 DEF AbortBatch
  <2> HIDE DEF Rest
  <2>3. e2eRecorder \in [rows : Seq(RowRecords), attempted : Nat, notAttempted : Nat]
    BY DEF E2EInv, E2ETypeOK, SeenRecords
  <2>4. PICK list, k : /\ list = rows \o Rest /\ k = e2eRecorder.notAttempted + Len(Rest)
                       /\ k \in Nat /\ list \in Seq(RowRecords)
    <3>1. rows \o Rest \in Seq(RowRecords) /\ Len(Rest) \in Nat
      BY <1>1, <1>4
    <3>2. e2eRecorder.notAttempted + Len(Rest) \in Nat
      BY <2>3, <3>1
    <3> QED
      BY <3>1, <3>2, Zenon
  <2>5. e2eRecorder' = IF e2eMode.dataset THEN [e2eRecorder EXCEPT !.rows = list, !.notAttempted = k]
                       ELSE e2eRecorder
    BY <1>1, <2>2, <2>4
  <2>6. /\ e2eRecorder'.rows = IF e2eMode.dataset THEN list ELSE rows
        /\ e2eRecorder' \in [rows : Seq(RowRecords), attempted : Nat, notAttempted : Nat]
    BY <1>1, <2>3, <2>4, <2>5
  <2> QED
    BY <1>4, <2>4, <2>6
<1> HIDE DEF Rest
<1>6. Joined(rows \o rest, rows, rest)
  BY <1>1, <1>5, RowsJoined
<1>7. E2ETypeOK'
  BY <1>2, <1>5 DEF E2EInv, E2ETypeOK, SeenRecords, Attempting, Batch, Closed, sessionVars
<1>8. TraceHeld' /\ AttemptTrue'
  BY <1>2 DEF E2EInv, TraceHeld, AttemptTrue, Attempting, Batch, Closed, sessionVars
<1>9. RowsPlaced'
  <2>1. ASSUME e2eMode.dataset, InPlace(q - 1) PROVE InPlace(Queries)'
    <3>1. Len(rows) = q - 1 /\ \A i \in DOMAIN rows : rows[i].index = i
      BY <1>1, <2>1 DEF InPlace
    <3>2. PICK all : all = e2eRecorder'.rows /\ all = rows \o rest
      BY <1>5, <2>1
    <3>3. /\ Len(all) = Len(rows) + Len(rest)
          /\ \A i \in DOMAIN rows : all[i] = rows[i]
          /\ \A i \in DOMAIN all :
                i \notin DOMAIN rows =>
                   \E j \in DOMAIN rest : j \in Nat \ {0} /\ i = Len(rows) + j /\ all[i] = rest[j]
      BY <1>6, <3>2 DEF Joined
    <3>4. Len(all) = Queries
      BY <1>1, <1>5, <3>1, <3>3, QueriesAssumption
    <3>5. ASSUME NEW i \in DOMAIN all, i \notin DOMAIN rows PROVE all[i].index = i
      <4>1. PICK j \in DOMAIN rest : j \in Nat \ {0} /\ i = Len(rows) + j /\ all[i] = rest[j]
        BY <3>3, <3>5
      <4>2. rest[j].index = q + j - 1
        BY <1>5, <4>1
      <4> QED
        BY <1>1, <3>1, <4>1, <4>2, QueriesAssumption
    <3> QED
      BY <3>1, <3>2, <3>3, <3>4, <3>5 DEF InPlace
  <2>2. ASSUME e2eMode.dataset, OneMissing(q - 1, q - 1) PROVE OneMissing(Queries, q - 1)'
    <3>1. q - 1 \in e2eSeen.lost /\ q - 1 \in 1..Queries
      BY <2>2 DEF OneMissing, E2EInv, E2ETypeOK, SeenRecords
    <3>2. Len(rows) = q - 2 /\ \A i \in DOMAIN rows : i < q - 1 /\ rows[i].index = i
      <4>1. Len(rows) = q - 2 /\ \A i \in DOMAIN rows : i < q - 1
        BY <1>1, <2>2, QueriesAssumption DEF OneMissing
      <4> QED
        BY <1>1, <2>2, <4>1 DEF OneMissing
    <3>3. PICK all : all = e2eRecorder'.rows /\ all = rows \o rest
      BY <1>5, <2>2
    <3>4. /\ Len(all) = Len(rows) + Len(rest)
          /\ \A i \in DOMAIN rows : all[i] = rows[i]
          /\ \A i \in DOMAIN all :
                i \notin DOMAIN rows =>
                   \E j \in DOMAIN rest : j \in Nat \ {0} /\ i = Len(rows) + j /\ all[i] = rest[j]
      BY <1>6, <3>3 DEF Joined
    <3>5. Len(all) = Queries - 1
      BY <1>1, <1>5, <3>2, <3>4, QueriesAssumption
    <3>6. ASSUME NEW i \in DOMAIN all, i \notin DOMAIN rows PROVE all[i].index = i + 1 /\ ~(i < q - 1)
      <4>1. PICK j \in DOMAIN rest : j \in Nat \ {0} /\ i = Len(rows) + j /\ all[i] = rest[j]
        BY <3>4, <3>6
      <4>2. rest[j].index = q + j - 1
        BY <1>5, <4>1
      <4> QED
        BY <1>1, <3>2, <4>1, <4>2, QueriesAssumption
    <3>7. \A i \in DOMAIN all : all[i].index = IF i < q - 1 THEN i ELSE i + 1
      BY <3>2, <3>4, <3>6
    <3> QED
      BY <1>2, <3>1, <3>3, <3>5, <3>7 DEF OneMissing
  <2>3. OneMissing(q - 1, q - 1) => q - 1 \in 1..Queries
    BY DEF OneMissing, E2EInv, E2ETypeOK, SeenRecords
  <2> QED
    BY <1>2, <1>3, <2>1, <2>2, <2>3 DEF RowsPlaced, Closed
<1>10. RowsTrue'
  <2>1. \A i \in DOMAIN e2eRecorder'.rows :
           \/ i \in DOMAIN rows /\ e2eRecorder'.rows[i] = rows[i]
           \/ \E j \in DOMAIN rest : e2eRecorder'.rows[i] = rest[j]
    <3>1. CASE e2eMode.dataset
      <4>1. PICK all : all = e2eRecorder'.rows /\ all = rows \o rest
        BY <1>5, <3>1
      <4> QED
        BY <1>6, <4>1 DEF Joined
    <3>2. CASE ~e2eMode.dataset
      BY <1>5, <3>2
    <3> QED
      BY <3>1, <3>2
  <2>2. \A j \in DOMAIN rest : rest[j].index \in e2eSeen.lost \/ rest[j].index \notin e2eSeen.posted
    <3>1. \A p \in e2eSeen.posted : p <= q /\ p \in Nat /\ (p = q => p \in e2eSeen.lost)
      BY <1>1, <1>2 DEF E2EInv, E2ETypeOK, SeenRecords, AttemptTrue
    <3>2. ASSUME NEW j \in DOMAIN rest PROVE rest[j].index \in Nat /\ rest[j].index >= q
      <4>1. j \in 1..(Queries + 1 - q) /\ rest[j].index = q + j - 1
        BY <1>5, <3>2
      <4> QED
        BY <1>1, <4>1, QueriesAssumption
    <3> QED
      BY <1>1, <3>1, <3>2, QueriesAssumption
  <2>3. \A i \in DOMAIN rows :
           /\ rows[i].index \in e2eSeen.lost \/ (rows[i].posted <=> rows[i].index \in e2eSeen.posted)
           /\ rows[i].scope = "systemic" /\ rows[i].status = "failed" =>
                 \A p \in e2eSeen.posted : p <= rows[i].index
           /\ rows[i].status = "succeeded" => rows[i].posted /\ rows[i].evaluation # "skipped"
    BY <1>1 DEF E2EInv, RowsTrue
  <2> DEFINE Truth(row) ==
               /\ row.index \in e2eSeen.lost \/ (row.posted <=> row.index \in e2eSeen.posted)
               /\ row.scope = "systemic" /\ row.status = "failed" =>
                     \A p \in e2eSeen.posted : p <= row.index
               /\ row.status = "succeeded" => row.posted /\ row.evaluation # "skipped"
  <2>4. \A i \in DOMAIN rows : Truth(rows[i])
    BY <2>3, Zenon
  <2>5. \A j \in DOMAIN rest : Truth(rest[j])
    BY <1>5, <2>2
  <2> HIDE DEF Truth
  <2>6. \A i \in DOMAIN e2eRecorder'.rows : Truth(e2eRecorder'.rows[i])
    BY <2>1, <2>4, <2>5, Zenon
  <2>7. e2eSeen' = e2eSeen /\ e2ePhase' = "failed" /\ e2ePc' \in Closed \cup {"abort"}
    BY <1>2 DEF Closed
  <2>8. \A i \in DOMAIN e2eRecorder'.rows :
           LET row == e2eRecorder'.rows[i]
           IN /\ row.index \in e2eSeen.lost \/ (row.posted <=> row.index \in e2eSeen.posted)
              /\ row.scope = "systemic" /\ row.status = "failed" =>
                    \A p \in e2eSeen.posted : p <= row.index
              /\ row.status = "succeeded" => row.posted /\ row.evaluation # "skipped"
    BY <2>6, Zenon DEF Truth
  <2> QED
    BY <2>7, <2>8, Zenon DEF RowsTrue
<1>11. ChatsKnown' /\ FaultsTold' /\ EveryQueryAccounted'
  BY <1>2 DEF E2EInv, ChatsKnown, FaultsTold, EveryQueryAccounted, E2EAt, sessionVars
<1> QED
  BY <1>7, <1>8, <1>9, <1>10, <1>11 DEF E2EInv

\* The enumeration of a set that can be put in order.
Sorts(s, S) == S = {s[i] : i \in DOMAIN s} /\ \A i, j \in DOMAIN s : i < j => s[i] < s[j]

\* A set that can be put in order is: what the choice of its enumeration is like.
LEMMA Enumerated ==
  ASSUME NEW S, NEW w \in [1..Cardinality(S) -> S], Sorts(w, S)
  PROVE  /\ InOrder(S) \in [1..Cardinality(S) -> S]
         /\ \A x \in S : \E i \in 1..Cardinality(S) : InOrder(S)[i] = x
<1>1. InOrder(S) = CHOOSE s \in [1..Cardinality(S) -> S] : Sorts(s, S)
  BY DEF InOrder, Sorts
<1>2. InOrder(S) \in [1..Cardinality(S) -> S] /\ Sorts(InOrder(S), S)
  BY <1>1, Zenon
<1> QED
  BY <1>2 DEF Sorts

\* The sets of queries that may be without a row: none, one, or all.
LEMMA MissingEnumerated ==
  ASSUME NEW S, S = {} \/ (\E gap \in Nat : S = {gap}) \/ S = 1..Queries
  PROVE  /\ Cardinality(S) \in Nat
         /\ InOrder(S) \in [1..Cardinality(S) -> S]
         /\ \A x \in S : \E i \in 1..Cardinality(S) : InOrder(S)[i] = x
<1>1. CASE S = {}
  <2> DEFINE w == [i \in 1..0 |-> i]
  <2>1. Cardinality(S) = 0
    BY <1>1, FS_EmptySet
  <2>2. w \in [1..0 -> S] /\ Sorts(w, S)
    BY <1>1 DEF Sorts
  <2> HIDE DEF w
  <2>3. w \in [1..Cardinality(S) -> S] /\ Cardinality(S) \in Nat
    BY <2>1, <2>2
  <2> QED
    BY <2>2, <2>3, Enumerated
<1>2. CASE \E gap \in Nat : S = {gap}
  <2>1. PICK gap \in Nat : S = {gap}
    BY <1>2
  <2> DEFINE w == [i \in 1..1 |-> gap]
  <2>2. Cardinality(S) = 1
    BY <2>1, FS_Singleton
  <2>3. w \in [1..1 -> S] /\ DOMAIN w = {1} /\ w[1] = gap
    BY <2>1
  <2> HIDE DEF w
  <2>4. Sorts(w, S)
    BY <2>1, <2>3 DEF Sorts
  <2>5. w \in [1..Cardinality(S) -> S] /\ Cardinality(S) \in Nat
    BY <2>2, <2>3
  <2> QED
    BY <2>4, <2>5, Enumerated
<1>3. CASE S = 1..Queries
  <2> DEFINE w == [i \in 1..Queries |-> i]
  <2>1. Cardinality(S) = Queries /\ Queries \in Nat
    <3>1. Queries - 1 + 1 = Queries /\ (1 > Queries => Queries = 0) /\ 1 \in Int /\ Queries \in Int
      BY QueriesAssumption
    <3> QED
      BY <1>3, <3>1, FS_Interval, QueriesAssumption
  <2>2. w \in [1..Queries -> S] /\ DOMAIN w = 1..Queries /\ \A i \in 1..Queries : w[i] = i
    BY <1>3
  <2> HIDE DEF w
  <2>3. Sorts(w, S)
    BY <1>3, <2>2 DEF Sorts
  <2> QED
    BY <2>1, <2>2, <2>3, Enumerated
<1> QED
  BY <1>1, <1>2, <1>3

\* The queries without a row, when the report is written.
LEMMA RowsMissing ==
  ASSUME NEW rows \in Seq(RowRecords), NEW S, S = 1..Queries \ {rows[i].index : i \in DOMAIN rows}
  PROVE  /\ rows = <<>> => S = 1..Queries /\ Cardinality(S) = Queries
         /\ (Len(rows) = Queries /\ \A i \in DOMAIN rows : rows[i].index = i)
               => S = {} /\ Cardinality(S) = 0
         /\ \A gap \in 1..Queries :
               (/\ Len(rows) = Queries - 1
                /\ \A i \in DOMAIN rows : rows[i].index = IF i < gap THEN i ELSE i + 1)
                  => S = {gap} /\ Cardinality(S) = 1
<1>1. ASSUME rows = <<>> PROVE S = 1..Queries /\ Cardinality(S) = Queries
  <2>1. S = 1..Queries
    BY <1>1
  <2>2. Queries - 1 + 1 = Queries /\ (1 > Queries => Queries = 0) /\ 1 \in Int /\ Queries \in Int
    BY QueriesAssumption
  <2> QED
    BY <2>1, <2>2, FS_Interval, QueriesAssumption
<1>2. ASSUME Len(rows) = Queries, \A i \in DOMAIN rows : rows[i].index = i
      PROVE  S = {} /\ Cardinality(S) = 0
  <2>1. DOMAIN rows = 1..Queries
    BY <1>2
  <2>2. S = {}
    BY <1>2, <2>1
  <2> QED
    BY <2>2, FS_EmptySet
<1>3. ASSUME NEW gap \in 1..Queries, Len(rows) = Queries - 1,
             \A i \in DOMAIN rows : rows[i].index = IF i < gap THEN i ELSE i + 1
      PROVE  S = {gap} /\ Cardinality(S) = 1
  <2>1. DOMAIN rows = 1..(Queries - 1)
    BY <1>3
  <2>2. ASSUME NEW q \in 1..Queries, q # gap PROVE \E i \in DOMAIN rows : rows[i].index = q
    <3>1. CASE q < gap
      <4>1. q \in DOMAIN rows
        BY <2>1, <3>1, QueriesAssumption
      <4> QED
        BY <1>3, <3>1, <4>1
    <3>2. CASE ~(q < gap)
      <4>1. q - 1 \in DOMAIN rows /\ ~(q - 1 < gap) /\ q - 1 + 1 = q
        BY <2>1, <2>2, <3>2, QueriesAssumption
      <4> QED
        BY <1>3, <4>1
    <3> QED
      BY <3>1, <3>2
  <2>3. \A i \in DOMAIN rows : rows[i].index # gap
    BY <1>3, <2>1, QueriesAssumption
  <2>4. S = {gap}
    BY <2>2, <2>3
  <2> QED
    BY <2>4, FS_Singleton
<1> QED
  BY <1>1, <1>2, <1>3

\* The report gives a row to every query that has none.
LEMMA ReportKeeps == E2EInv /\ Report => E2EInv'
<1> SUFFICES ASSUME E2EInv, Report PROVE E2EInv'
  OBVIOUS
<1>1. PICK rows : rows = e2eRecorder.rows /\ rows \in Seq(RowRecords)
  BY DEF E2EInv, E2ETypeOK, SeenRecords
<1>2. /\ e2ePc = "report" /\ e2ePc' = "done" /\ (e2eSummary' = "succeeded" => e2ePhase = "passed")
      /\ UNCHANGED <<e2eMode, e2eQuery, sessionVars, e2eAttempt, e2eJob, e2ePhase, e2eSeen>>
  BY DEF Report, E2EAt, E2EGo
<1>3. e2eRecorder \in [rows : Seq(RowRecords), attempted : Nat, notAttempted : Nat]
  BY DEF E2EInv, E2ETypeOK, SeenRecords
<1>4. PICK S : S = 1..Queries \ {rows[i].index : i \in DOMAIN rows}
  OBVIOUS
<1>5. e2eMode.dataset =>
         \/ rows = <<>> /\ e2eSeen.posted = {} /\ S = 1..Queries /\ Cardinality(S) = Queries
         \/ Len(rows) = Queries /\ S = {} /\ Cardinality(S) = 0
         \/ \E gap \in 1..Queries : /\ gap \in e2eSeen.lost /\ Len(rows) = Queries - 1
                                    /\ S = {gap} /\ Cardinality(S) = 1
  <2>1. SUFFICES ASSUME e2eMode.dataset
                 PROVE  \/ /\ rows = <<>> /\ e2eSeen.posted = {}
                           /\ S = 1..Queries /\ Cardinality(S) = Queries
                        \/ Len(rows) = Queries /\ S = {} /\ Cardinality(S) = 0
                        \/ \E gap \in 1..Queries : /\ gap \in e2eSeen.lost /\ Len(rows) = Queries - 1
                                                   /\ S = {gap} /\ Cardinality(S) = 1
    OBVIOUS
  <2>2. \/ rows = <<>> /\ e2eSeen.posted = {}
        \/ Len(rows) = Queries /\ \A i \in DOMAIN rows : rows[i].index = i
        \/ \E gap \in 1..Queries :
              /\ gap \in e2eSeen.lost /\ Len(rows) = Queries - 1
              /\ \A i \in DOMAIN rows : rows[i].index = IF i < gap THEN i ELSE i + 1
    BY <1>1, <1>2, <2>1 DEF E2EInv, RowsPlaced, InPlace, OneMissing, Closed
  <2>3. CASE rows = <<>> /\ e2eSeen.posted = {}
    BY <1>1, <1>4, <2>3, RowsMissing
  <2>4. CASE Len(rows) = Queries /\ \A i \in DOMAIN rows : rows[i].index = i
    BY <1>1, <1>4, <2>4, RowsMissing
  <2>5. ASSUME NEW gap \in 1..Queries, gap \in e2eSeen.lost, Len(rows) = Queries - 1,
               \A i \in DOMAIN rows : rows[i].index = IF i < gap THEN i ELSE i + 1
        PROVE  S = {gap} /\ Cardinality(S) = 1
    BY <1>1, <1>4, <2>5, RowsMissing
  <2> QED
    BY <2>2, <2>3, <2>4, <2>5
<1> DEFINE Added == [i \in DOMAIN InOrder(S) |-> NotAttempted(InOrder(S)[i])]
<1>6. e2eMode.dataset =>
         /\ Added \in Seq(RowRecords) /\ Len(Added) = Cardinality(S) /\ Cardinality(S) \in Nat
         /\ Len(InOrder(S)) = Cardinality(S)
         /\ \A i \in DOMAIN Added : /\ Added[i].index \in S /\ Added[i].status = "not_attempted"
                                    /\ Added[i].posted = FALSE
         /\ \A x \in S : \E i \in DOMAIN Added : Added[i].index = x
  <2>1. SUFFICES ASSUME e2eMode.dataset
                 PROVE  /\ Added \in Seq(RowRecords) /\ Len(Added) = Cardinality(S)
                        /\ Cardinality(S) \in Nat
                        /\ Len(InOrder(S)) = Cardinality(S)
                        /\ \A i \in DOMAIN Added :
                              /\ Added[i].index \in S /\ Added[i].status = "not_attempted"
                              /\ Added[i].posted = FALSE
                        /\ \A x \in S : \E i \in DOMAIN Added : Added[i].index = x
    OBVIOUS
  <2>2. S = {} \/ (\E gap \in Nat : S = {gap}) \/ S = 1..Queries
    BY <1>5, <2>1, QueriesAssumption
  <2>3. PICK n, list : /\ n = Cardinality(S) /\ n \in Nat /\ list = InOrder(S) /\ list \in [1..n -> S]
                       /\ \A x \in S : \E i \in 1..n : list[i] = x
    BY <2>2, MissingEnumerated, SMTT(40)
  <2>4. S \subseteq 1..Queries
    BY <1>4
  <2>5. Added = [i \in 1..n |-> NotAttempted(list[i])]
    BY <2>3
  <2>6. \A i \in 1..n : /\ NotAttempted(list[i]) \in RowRecords /\ NotAttempted(list[i]).index = list[i]
                        /\ NotAttempted(list[i]).status = "not_attempted"
                        /\ NotAttempted(list[i]).posted = FALSE /\ list[i] \in S
    BY <2>3, <2>4, NotAttemptedRow
  <2>7. Added \in [1..n -> RowRecords] /\ \A i \in 1..n : Added[i] = NotAttempted(list[i])
    BY <2>5, <2>6
  <2> HIDE DEF Added
  <2>8. Added \in Seq(RowRecords) /\ Len(Added) = n /\ DOMAIN Added = 1..n /\ Len(list) = n
    BY <2>3, <2>7
  <2> QED
    BY <2>3, <2>6, <2>7, <2>8
<1>7. /\ e2eRecorder' \in [rows : Seq(RowRecords), attempted : Nat, notAttempted : Nat]
      /\ e2eMode.dataset => e2eRecorder'.rows = rows \o Added
      /\ ~e2eMode.dataset => e2eRecorder' = e2eRecorder
  <2>1. CASE e2eMode.dataset
    <3>1. e2eRecorder' = [e2eRecorder EXCEPT !.rows = @ \o Added, !.notAttempted = @ + Len(InOrder(S))]
      BY <1>1, <1>4, <2>1 DEF Report
    <3> HIDE DEF Added
    <3>2. rows \o Added \in Seq(RowRecords)
      BY <1>1, <1>6, <2>1
    <3>3. e2eRecorder.notAttempted + Len(InOrder(S)) \in Nat
      BY <1>3, <1>6, <2>1
    <3>4. PICK list, k : /\ list = rows \o Added /\ k = e2eRecorder.notAttempted + Len(InOrder(S))
                         /\ list \in Seq(RowRecords) /\ k \in Nat
      BY <3>2, <3>3, Zenon
    <3>5. e2eRecorder' = [e2eRecorder EXCEPT !.rows = list, !.notAttempted = k]
      BY <1>1, <3>1, <3>4
    <3> QED
      BY <1>3, <2>1, <3>4, <3>5
  <2>2. CASE ~e2eMode.dataset
    BY <1>1, <1>3, <2>2 DEF Report
  <2> QED
    BY <2>1, <2>2
<1> HIDE DEF Added
<1>8. e2eMode.dataset =>
         Joined(e2eRecorder'.rows, rows, Added)
  <2>1. ASSUME e2eMode.dataset PROVE Joined(rows \o Added, rows, Added)
    BY <1>1, <1>6, <2>1, RowsJoined
  <2> QED
    BY <1>7, <2>1
<1>9. E2ETypeOK'
  BY <1>2, <1>7 DEF E2EInv, E2ETypeOK, SeenRecords, Attempting, Batch, Closed, sessionVars
<1>10. TraceHeld' /\ AttemptTrue' /\ ChatsKnown'
  BY <1>2 DEF E2EInv, TraceHeld, AttemptTrue, ChatsKnown, Attempting, Batch, Closed, sessionVars
<1>11. e2ePhase # "failed" /\ e2eMode.dataset => e2eRecorder'.rows = rows
  <2>1. SUFFICES ASSUME e2ePhase # "failed", e2eMode.dataset PROVE rows \o Added = rows
    BY <1>7
  <2>2. InPlace(Queries)
    BY <1>2, <2>1 DEF E2EInv, RowsPlaced, Closed
  <2>3. S = {} /\ Cardinality(S) = 0
    BY <1>1, <1>4, <2>2, RowsMissing DEF InPlace
  <2>4. Added = <<>>
    BY <1>6, <2>1, <2>3
  <2> QED
    BY <1>1, <2>4
<1>12. RowsPlaced'
  BY <1>1, <1>2, <1>7, <1>11 DEF E2EInv, RowsPlaced, InPlace, Closed
<1>13. RowsTrue'
  <2>1. \A i \in DOMAIN e2eRecorder'.rows :
           \/ i \in DOMAIN rows /\ e2eRecorder'.rows[i] = rows[i]
           \/ e2eMode.dataset /\ \E j \in DOMAIN Added : e2eRecorder'.rows[i] = Added[j]
    BY <1>1, <1>7, <1>8 DEF Joined
  <2>2. ASSUME e2eMode.dataset, NEW j \in DOMAIN Added
        PROVE  Added[j].index \in e2eSeen.lost \/ Added[j].index \notin e2eSeen.posted
    BY <1>5, <1>6, <2>2
  <2>3. \A i \in DOMAIN rows :
           /\ rows[i].index \in e2eSeen.lost \/ (rows[i].posted <=> rows[i].index \in e2eSeen.posted)
           /\ rows[i].scope = "systemic" /\ rows[i].status = "failed" =>
                 \A p \in e2eSeen.posted : p <= rows[i].index
           /\ e2ePhase # "failed" => rows[i].status # "not_attempted"
           /\ rows[i].status = "succeeded" => rows[i].posted /\ rows[i].evaluation # "skipped"
    BY <1>1 DEF E2EInv, RowsTrue
  <2>4. CASE e2ePhase # "failed"
    <3>1. e2eRecorder'.rows = rows
      BY <1>1, <1>7, <1>11, <2>4
    <3> QED
      BY <1>2, <2>3, <3>1 DEF RowsTrue, Closed
  <2>5. CASE e2ePhase = "failed"
    BY <1>2, <1>6, <2>1, <2>2, <2>3, <2>5 DEF RowsTrue, Closed
  <2> QED
    BY <2>4, <2>5
<1>14. FaultsTold'
  <2>1. e2ePhase # "failed" => e2eRecorder'.rows = rows
    BY <1>1, <1>7, <1>11
  <2> QED
    BY <1>1, <1>2, <2>1 DEF E2EInv, FaultsTold, E2EBatchFailed, sessionVars
<1>15. EveryQueryAccounted'
  <2>1. SUFFICES ASSUME e2eMode.dataset
                 PROVE  /\ Len(e2eRecorder'.rows) = Queries
                        /\ \A q \in 1..Queries :
                              \E i \in DOMAIN e2eRecorder'.rows : e2eRecorder'.rows[i].index = q
    BY <1>2 DEF EveryQueryAccounted
  <2>2. PICK all : all = e2eRecorder'.rows /\ all = rows \o Added
    BY <1>7, <2>1
  <2>3. Joined(all, rows, Added)
    BY <1>8, <2>1, <2>2
  <2>4. Len(all) = Queries
    <3>1. PICK n : n = Cardinality(S) /\ n \in Nat /\ Len(all) = Len(rows) + n
      BY <1>6, <2>1, <2>3 DEF Joined
    <3> QED
      BY <1>5, <2>1, <3>1, QueriesAssumption
  <2>5. ASSUME NEW q \in 1..Queries PROVE \E i \in DOMAIN all : all[i].index = q
    <3>1. CASE q \in S
      <4>1. PICK j \in DOMAIN Added : Added[j].index = q
        BY <1>6, <2>1, <3>1
      <4>2. Len(rows) \in Nat /\ Len(Added) \in Nat /\ DOMAIN Added = 1..Len(Added)
        BY <1>1, <1>6, <2>1
      <4>3. Len(rows) + j \in DOMAIN all /\ all[Len(rows) + j] = Added[j]
        BY <1>1, <1>6, <2>1, <2>2, <4>2
      <4> QED
        BY <4>1, <4>3
    <3>2. CASE q \notin S
      <4>1. PICK i \in DOMAIN rows : rows[i].index = q
        BY <1>4, <3>2
      <4> QED
        BY <2>3, <4>1 DEF Joined
    <3> QED
      BY <3>1, <3>2
  <2> QED
    BY <2>2, <2>4, <2>5
<1> QED
  BY <1>9, <1>10, <1>12, <1>13, <1>14, <1>15 DEF E2EInv

\* The platform is stopped before the run.
LEMMA E2EPreDownKeeps ==
  ASSUME NEW ok \in BOOLEAN, E2EInv, E2EPreDown(ok)
  PROVE  E2EInv'
<1>1. RowsPlaced'
  <2>1. e2eQuery = 1 /\ InPlace(0) /\ e2eSeen.posted = {}
    BY DEF E2EInv, RowsPlaced, AttemptTrue, Closed, E2EPreDown, Lifecycle, E2EAt
  <2>2. e2eRecorder.rows = <<>>
    BY <2>1 DEF InPlace, E2EInv, E2ETypeOK, SeenRecords
  <2> QED
    BY <2>1, <2>2 DEF E2EInv, E2ETypeOK, SeenRecords, Attempting, Batch, Closed, E2EAt, E2EGo,
       sessionVars, recordVars, RowsPlaced, InPlace, OneMissing, E2EPreDown, Lifecycle
<1> USE DEF E2EInv, E2ETypeOK, SeenRecords, Attempting, Batch, Closed, E2EAt, E2EGo,
   sessionVars, recordVars, E2EPreDown, Lifecycle
<1>2. E2ETypeOK'
  BY DEF AttemptRecords
<1>3. TraceHeld'
  BY DEF TraceHeld
<1>4. AttemptTrue'
  BY DEF AttemptTrue, AttemptRecords
<1>5. RowsTrue'
  BY DEF RowsTrue, AttemptTrue
<1>6. ChatsKnown'
  BY DEF ChatsKnown
<1>7. FaultsTold'
  BY DEF FaultsTold, RowsPlaced, E2EBatchFailed
<1>8. EveryQueryAccounted'
  BY DEF EveryQueryAccounted
<1> QED
  BY <1>1, <1>2, <1>3, <1>4, <1>5, <1>6, <1>7, <1>8

\* It is started, or the run ends with its report.
LEMMA E2EUpKeeps ==
  ASSUME NEW ok \in BOOLEAN, E2EInv, E2EUp(ok)
  PROVE  E2EInv'
<1>1. RowsPlaced'
  <2>1. e2eQuery = 1 /\ InPlace(0) /\ e2eSeen.posted = {}
    BY DEF E2EInv, RowsPlaced, AttemptTrue, Closed, E2EUp, Lifecycle, E2EAt
  <2>2. e2eRecorder.rows = <<>>
    BY <2>1 DEF InPlace, E2EInv, E2ETypeOK, SeenRecords
  <2> QED
    BY <2>1, <2>2 DEF E2EInv, E2ETypeOK, SeenRecords, Attempting, Batch, Closed, E2EAt, E2EGo,
       sessionVars, recordVars, RowsPlaced, InPlace, OneMissing, E2EUp, Lifecycle
<1> USE DEF E2EInv, E2ETypeOK, SeenRecords, Attempting, Batch, Closed, E2EAt, E2EGo,
   sessionVars, recordVars, E2EUp, Lifecycle
<1>2. E2ETypeOK'
  BY DEF AttemptRecords
<1>3. TraceHeld'
  BY DEF TraceHeld
<1>4. AttemptTrue'
  BY DEF AttemptTrue, AttemptRecords
<1>5. RowsTrue'
  BY DEF RowsTrue, AttemptTrue
<1>6. ChatsKnown'
  BY DEF ChatsKnown
<1>7. FaultsTold'
  BY DEF FaultsTold, RowsPlaced, E2EBatchFailed
<1>8. EveryQueryAccounted'
  BY DEF EveryQueryAccounted
<1> QED
  BY <1>1, <1>2, <1>3, <1>4, <1>5, <1>6, <1>7, <1>8

\* The corpus is there, or nothing is sent.
LEMMA VerifyCorpusKeeps ==
  ASSUME NEW ok \in BOOLEAN, E2EInv, VerifyCorpus(ok)
  PROVE  E2EInv'
<1>1. RowsPlaced'
  <2>1. e2eQuery = 1 /\ InPlace(0) /\ e2eSeen.posted = {}
    BY DEF E2EInv, RowsPlaced, AttemptTrue, Closed, VerifyCorpus, E2EAt
  <2>2. e2eRecorder.rows = <<>>
    BY <2>1 DEF InPlace, E2EInv, E2ETypeOK, SeenRecords
  <2> QED
    BY <2>1, <2>2 DEF E2EInv, E2ETypeOK, SeenRecords, Attempting, Batch, Closed, E2EAt, E2EGo,
       sessionVars, recordVars, RowsPlaced, InPlace, OneMissing, VerifyCorpus
<1> USE DEF E2EInv, E2ETypeOK, SeenRecords, Attempting, Batch, Closed, E2EAt, E2EGo,
   sessionVars, recordVars, VerifyCorpus
<1>2. E2ETypeOK'
  BY DEF AttemptRecords
<1>3. TraceHeld'
  BY DEF TraceHeld
<1>4. AttemptTrue'
  BY DEF AttemptTrue, AttemptRecords
<1>5. RowsTrue'
  BY DEF RowsTrue, AttemptTrue
<1>6. ChatsKnown'
  BY DEF ChatsKnown
<1>7. FaultsTold'
  BY DEF FaultsTold, RowsPlaced, E2EBatchFailed
<1>8. EveryQueryAccounted'
  BY DEF EveryQueryAccounted
<1> QED
  BY <1>1, <1>2, <1>3, <1>4, <1>5, <1>6, <1>7, <1>8

\* The platform is stopped after the batch.
LEMMA E2EDownKeeps ==
  ASSUME NEW ok \in BOOLEAN, E2EInv, E2EDown(ok)
  PROVE  E2EInv'
<1> USE DEF E2EInv, E2ETypeOK, SeenRecords, Attempting, Batch, Closed, E2EAt, E2EGo,
   sessionVars, recordVars, E2EDown
<1>1. E2ETypeOK'
  BY DEF AttemptRecords
<1>2. TraceHeld'
  BY DEF TraceHeld
<1>3. AttemptTrue'
  BY DEF AttemptTrue, AttemptRecords
<1>4. RowsPlaced'
  BY DEF RowsPlaced, InPlace, OneMissing
<1>5. RowsTrue'
  BY DEF RowsTrue, AttemptTrue
<1>6. ChatsKnown'
  BY DEF ChatsKnown
<1>7. FaultsTold'
  BY DEF FaultsTold, RowsPlaced, E2EBatchFailed
<1>8. EveryQueryAccounted'
  BY DEF EveryQueryAccounted
<1> QED
  BY <1>1, <1>2, <1>3, <1>4, <1>5, <1>6, <1>7, <1>8

\* The trace session is due for its successor.
LEMMA RotateTraceKeeps ==
  ASSUME E2EInv, RotateTrace
  PROVE  E2EInv'
<1> USE DEF E2EInv, E2ETypeOK, SeenRecords, Attempting, Batch, Closed, E2EAt, E2EGo,
   sessionVars, recordVars, RotateTrace
<1>1. E2ETypeOK'
  BY DEF AttemptRecords
<1>2. TraceHeld'
  BY DEF TraceHeld
<1>3. AttemptTrue'
  BY DEF AttemptTrue, AttemptRecords
<1>4. RowsPlaced'
  BY DEF RowsPlaced, InPlace, OneMissing
<1>5. RowsTrue'
  BY DEF RowsTrue, AttemptTrue
<1>6. ChatsKnown'
  BY DEF ChatsKnown
<1>7. FaultsTold'
  BY DEF FaultsTold, RowsPlaced, E2EBatchFailed
<1>8. EveryQueryAccounted'
  BY DEF EveryQueryAccounted
<1> QED
  BY <1>1, <1>2, <1>3, <1>4, <1>5, <1>6, <1>7, <1>8

\* The next query, or the end of the batch: then every query has its row.
LEMMA NextQueryKeeps ==
  ASSUME E2EInv, NextQuery
  PROVE  E2EInv'
<1>1. E2ETypeOK'
  BY QueriesAssumption, NoAttemptFields DEF E2EInv, E2ETypeOK, SeenRecords, Attempting, Batch,
     Closed, E2EAt, E2EGo, sessionVars, recordVars, NextQuery
<1>2. RowsPlaced'
  <2>1. e2eQuery > Queries => e2eQuery - 1 = Queries /\ e2eQuery = Queries + 1
    BY QueriesAssumption DEF E2EInv, E2ETypeOK, SeenRecords
  <2> QED
    BY <2>1 DEF E2EInv, E2ETypeOK, SeenRecords, Attempting, Batch, Closed, E2EAt, E2EGo,
       sessionVars, recordVars, RowsPlaced, InPlace, OneMissing, NextQuery, NoAttempt,
       RotationDue
<1> USE DEF E2EInv, E2ETypeOK, SeenRecords, Attempting, Batch, Closed, E2EAt, E2EGo,
   sessionVars, recordVars, NextQuery, NoAttempt, RotationDue
<1>3. TraceHeld'
  BY DEF TraceHeld
<1>4. AttemptTrue'
  BY DEF AttemptTrue, AttemptRecords
<1>5. RowsTrue'
  BY DEF RowsTrue, AttemptTrue
<1>6. ChatsKnown'
  BY DEF ChatsKnown
<1>7. FaultsTold'
  BY DEF FaultsTold, RowsPlaced, E2EBatchFailed
<1>8. EveryQueryAccounted'
  BY DEF EveryQueryAccounted
<1> QED
  BY <1>1, <1>2, <1>3, <1>4, <1>5, <1>6, <1>7, <1>8

\* A trace session is started; there is no other.
LEMMA E2EStartTraceKeeps ==
  ASSUME NEW ok \in BOOLEAN, NEW effect \in BOOLEAN, E2EInv, E2EStartTrace(ok, effect)
  PROVE  E2EInv'
<1> USE DEF E2EInv, E2ETypeOK, SeenRecords, Attempting, Batch, Closed, E2EAt, E2EGo,
   sessionVars, recordVars, E2EStartTrace
<1>1. E2ETypeOK'
  BY DEF AttemptRecords
<1>2. TraceHeld'
  BY DEF TraceHeld
<1>3. AttemptTrue'
  BY DEF AttemptTrue, AttemptRecords
<1>4. RowsPlaced'
  BY DEF RowsPlaced, InPlace, OneMissing
<1>5. RowsTrue'
  BY DEF RowsTrue, AttemptTrue
<1>6. ChatsKnown'
  BY DEF ChatsKnown
<1>7. FaultsTold'
  BY DEF FaultsTold, RowsPlaced, E2EBatchFailed
<1>8. EveryQueryAccounted'
  BY DEF EveryQueryAccounted
<1> QED
  BY <1>1, <1>2, <1>3, <1>4, <1>5, <1>6, <1>7, <1>8

\* One is closed before the next is started.
LEMMA CloseTraceKeeps ==
  ASSUME NEW ok \in BOOLEAN, NEW effect \in BOOLEAN, E2EInv, CloseTrace(ok, effect)
  PROVE  E2EInv'
<1>1. E2ETypeOK'
  <2>1. e2eTrace' \in [id : Nat, started : BOOLEAN]
    BY DEF E2EInv, E2ETypeOK, SeenRecords, CloseTrace, E2EDeleteTrace
  <2> QED
    BY <2>1 DEF E2EInv, E2ETypeOK, SeenRecords, Attempting, Batch, Closed, E2EAt, E2EGo,
       sessionVars, recordVars, CloseTrace
<1> USE DEF E2EInv, E2ETypeOK, SeenRecords, Attempting, Batch, Closed, E2EAt, E2EGo,
   sessionVars, recordVars, CloseTrace, E2EDeleteTrace
<1>2. TraceHeld'
  BY DEF TraceHeld
<1>3. AttemptTrue'
  BY DEF AttemptTrue, AttemptRecords
<1>4. RowsPlaced'
  BY DEF RowsPlaced, InPlace, OneMissing
<1>5. RowsTrue'
  BY DEF RowsTrue, AttemptTrue
<1>6. ChatsKnown'
  BY DEF ChatsKnown
<1>7. FaultsTold'
  BY DEF FaultsTold, RowsPlaced, E2EBatchFailed
<1>8. EveryQueryAccounted'
  BY DEF EveryQueryAccounted
<1> QED
  BY <1>1, <1>2, <1>3, <1>4, <1>5, <1>6, <1>7, <1>8

\* The last one is closed, or the run has failed.
LEMMA FinalTraceKeeps ==
  ASSUME NEW ok \in BOOLEAN, NEW effect \in BOOLEAN, E2EInv, FinalTrace(ok, effect)
  PROVE  E2EInv'
<1>1. E2ETypeOK'
  <2>1. e2eTrace' \in [id : Nat, started : BOOLEAN]
    BY DEF E2EInv, E2ETypeOK, SeenRecords, FinalTrace, E2EDeleteTrace
  <2> QED
    BY <2>1 DEF E2EInv, E2ETypeOK, SeenRecords, Attempting, Batch, Closed, E2EAt, E2EGo,
       sessionVars, recordVars, FinalTrace
<1> USE DEF E2EInv, E2ETypeOK, SeenRecords, Attempting, Batch, Closed, E2EAt, E2EGo,
   sessionVars, recordVars, FinalTrace, E2EDeleteTrace
<1>2. TraceHeld'
  BY DEF TraceHeld
<1>3. AttemptTrue'
  BY DEF AttemptTrue, AttemptRecords
<1>4. RowsPlaced'
  BY DEF RowsPlaced, InPlace, OneMissing
<1>5. RowsTrue'
  BY DEF RowsTrue, AttemptTrue
<1>6. ChatsKnown'
  BY DEF ChatsKnown
<1>7. FaultsTold'
  BY DEF FaultsTold, RowsPlaced, E2EBatchFailed
<1>8. EveryQueryAccounted'
  BY DEF EveryQueryAccounted
<1> QED
  BY <1>1, <1>2, <1>3, <1>4, <1>5, <1>6, <1>7, <1>8

\* The chat session of all queries; one that the client did not learn of ends the batch.
LEMMA SharedChatKeeps ==
  ASSUME NEW ok \in BOOLEAN, NEW effect \in BOOLEAN, E2EInv, SharedChat(ok, effect)
  PROVE  E2EInv'
<1>1. E2ETypeOK'
  <2>1. e2eSeen' \in SeenRecords
    <3>1. Chat \in Nat /\ e2eSeen \in SeenRecords
      BY QueriesAssumption DEF E2EInv, E2ETypeOK, SeenRecords, Chat
    <3>2. e2eSeen' = e2eSeen \/ e2eSeen' = [e2eSeen EXCEPT !.unknown = @ \cup {Chat}]
      BY DEF SharedChat, HoldChat
    <3> QED
      BY <3>1, <3>2 DEF SeenRecords
  <2> QED
    BY <2>1 DEF E2EInv, E2ETypeOK, SeenRecords, Attempting, Batch, Closed, E2EAt, E2EGo,
       sessionVars, recordVars, SharedChat, HoldChat
<1> USE DEF E2EInv, E2ETypeOK, SeenRecords, Attempting, Batch, Closed, E2EAt, E2EGo,
   sessionVars, recordVars, SharedChat, HoldChat, Chat
<1>2. TraceHeld'
  BY DEF TraceHeld
<1>3. AttemptTrue'
  BY DEF AttemptTrue, AttemptRecords
<1>4. RowsPlaced'
  BY DEF RowsPlaced, InPlace, OneMissing
<1>5. RowsTrue'
  BY DEF RowsTrue, AttemptTrue
<1>6. ChatsKnown'
  BY DEF ChatsKnown
<1>7. FaultsTold'
  BY DEF FaultsTold, RowsPlaced, E2EBatchFailed
<1>8. EveryQueryAccounted'
  BY DEF EveryQueryAccounted
<1> QED
  BY <1>1, <1>2, <1>3, <1>4, <1>5, <1>6, <1>7, <1>8

\* The chat session of a query; without it the query fails.
LEMMA CreateChatKeeps ==
  ASSUME NEW outcome \in {"created", "lost", "refused", "interrupt"}, NEW held \in BOOLEAN,
         E2EInv, CreateChat(outcome, held)
  PROVE  E2EInv'
<1>1. E2ETypeOK'
  <2>1. e2eSeen' \in SeenRecords
    <3>1. Chat \in Nat /\ e2eSeen \in SeenRecords
      BY QueriesAssumption DEF E2EInv, E2ETypeOK, SeenRecords, Chat
    <3>2. e2eSeen' = e2eSeen \/ e2eSeen' = [e2eSeen EXCEPT !.unknown = @ \cup {Chat}]
      BY DEF CreateChat, HoldChat
    <3> QED
      BY <3>1, <3>2 DEF SeenRecords
  <2>2. e2eAttempt' \in AttemptRecords
    BY NoAttemptFields, NewAttempt, FailedAttempt DEF CreateChat
  <2> QED
    BY <2>1, <2>2 DEF E2EInv, E2ETypeOK, SeenRecords, Attempting, Batch, Closed, E2EAt, E2EGo,
       sessionVars, recordVars, CreateChat, HoldChat
<1> USE DEF E2EInv, E2ETypeOK, SeenRecords, Attempting, Batch, Closed, E2EAt, E2EGo,
   sessionVars, recordVars, CreateChat, HoldChat, Chat, Interrupted, E2EFailing, NoAttempt
<1>2. TraceHeld'
  BY DEF TraceHeld
<1>3. AttemptTrue'
  BY DEF AttemptTrue, AttemptRecords
<1>4. RowsPlaced'
  BY DEF RowsPlaced, InPlace, OneMissing
<1>5. RowsTrue'
  BY DEF RowsTrue, AttemptTrue
<1>6. ChatsKnown'
  BY DEF ChatsKnown
<1>7. FaultsTold'
  BY DEF FaultsTold, RowsPlaced, E2EBatchFailed
<1>8. EveryQueryAccounted'
  BY DEF EveryQueryAccounted
<1> QED
  BY <1>1, <1>2, <1>3, <1>4, <1>5, <1>6, <1>7, <1>8

\* The query is posted: no row has it yet.
LEMMA PostQueryKeeps ==
  ASSUME NEW outcome \in StreamOutcomes, E2EInv, PostQuery(outcome)
  PROVE  E2EInv'
<1>1. E2ETypeOK'
  <2>1. e2eSeen' \in SeenRecords
    <3>1. e2eQuery \in 1..Queries /\ e2eSeen \in SeenRecords
      BY QueriesAssumption DEF E2EInv, E2ETypeOK, SeenRecords, Attempting, PostQuery, E2EAt
    <3>2. e2eSeen' = [e2eSeen EXCEPT !.posted = @ \cup {e2eQuery}]
      BY DEF PostQuery
    <3> QED
      BY <3>1, <3>2 DEF SeenRecords
  <2>2. e2eAttempt' \in AttemptRecords
    <3>1. PICK n : n = [NoAttempt EXCEPT !.posted = TRUE] /\ n \in AttemptRecords
      BY NewAttempt
    <3>2. [n EXCEPT !.status = "succeeded"] \in AttemptRecords
      BY <3>1 DEF AttemptRecords
    <3> QED
      BY <3>1, <3>2, NewAttempt, FailedAttempt DEF PostQuery, StreamOutcomes
  <2> QED
    BY <2>1, <2>2 DEF E2EInv, E2ETypeOK, SeenRecords, Attempting, Batch, Closed, E2EAt, E2EGo,
       sessionVars, recordVars, PostQuery
<1>2. RowsTrue'
  <2>1. \A i \in DOMAIN e2eRecorder.rows : e2eRecorder.rows[i].index # e2eQuery
    BY QueriesAssumption DEF E2EInv, E2ETypeOK, SeenRecords, RowsPlaced, InPlace, Closed,
       PostQuery, E2EAt
  <2>2. \A i \in DOMAIN e2eRecorder.rows :
           ~(e2eRecorder.rows[i].scope = "systemic" /\ e2eRecorder.rows[i].status = "failed")
    BY DEF E2EInv, RowsTrue, Closed, PostQuery, E2EAt
  <2>3. e2eSeen'.posted = e2eSeen.posted \cup {e2eQuery} /\ e2eSeen'.lost = e2eSeen.lost
    BY DEF PostQuery, E2EInv, E2ETypeOK, SeenRecords
  <2>4. UNCHANGED <<e2eRecorder, e2ePhase>>
    BY DEF PostQuery, recordVars
  <2> QED
    BY <2>1, <2>2, <2>3, <2>4 DEF E2EInv, RowsTrue
<1> USE DEF E2EInv, E2ETypeOK, SeenRecords, Attempting, Batch, Closed, E2EAt, E2EGo,
   sessionVars, recordVars, PostQuery, StreamOutcomes, Interrupted, E2EFailing, NoAttempt
<1>3. TraceHeld'
  BY DEF TraceHeld
<1>4. AttemptTrue'
  BY DEF AttemptTrue, AttemptRecords
<1>5. RowsPlaced'
  BY DEF RowsPlaced, InPlace, OneMissing
<1>6. ChatsKnown'
  BY DEF ChatsKnown
<1>7. FaultsTold'
  BY DEF FaultsTold, RowsPlaced, E2EBatchFailed
<1>8. EveryQueryAccounted'
  BY DEF EveryQueryAccounted
<1> QED
  BY <1>1, <1>2, <1>3, <1>4, <1>5, <1>6, <1>7, <1>8

\* The trace of the answer.
LEMMA WaitTraceKeeps ==
  ASSUME NEW outcome \in EvidenceOutcomes, E2EInv, WaitTrace(outcome)
  PROVE  E2EInv'
<1>1. E2ETypeOK'
  <2>1. e2eAttempt' \in AttemptRecords
    BY NewAttempt, FailedAttempt DEF WaitTrace, EvidenceStep, EvidenceOutcomes, E2EInv,
       E2ETypeOK
  <2> QED
    BY <2>1 DEF E2EInv, E2ETypeOK, SeenRecords, Attempting, Batch, Closed, E2EAt, E2EGo,
       sessionVars,
       recordVars, WaitTrace, EvidenceStep, EvidenceOutcomes
<1>2. AttemptTrue'
  <2>1. e2eAttempt \in AttemptRecords
    BY DEF E2EInv, E2ETypeOK, SeenRecords
  <2>2. CASE outcome = "ok"
    BY <2>1, <2>2 DEF E2EInv, E2ETypeOK, SeenRecords, Attempting, Batch, Closed, E2EAt, E2EGo,
       AttemptTrue, WaitTrace, EvidenceStep
  <2>3. CASE outcome = "contract"
    <3>1. e2eAttempt'.status = "failed" /\ e2eAttempt'.posted /\ e2eAttempt'.evaluation = "failed"
      BY <2>1, <2>3, FailedAttempt DEF WaitTrace, EvidenceStep, E2EInv, AttemptTrue, E2EAt
    <3> QED
      BY <2>3, <3>1 DEF E2EInv, E2ETypeOK, SeenRecords, Attempting, Batch, Closed, E2EAt, E2EGo,
         AttemptTrue, WaitTrace, EvidenceStep
  <2>4. CASE outcome = "failed"
    <3>1. e2eAttempt'.status = "failed" /\ e2eAttempt'.posted
      BY <2>1, <2>4, FailedAttempt DEF WaitTrace, EvidenceStep, E2EInv, AttemptTrue, E2EAt
    <3> QED
      BY <2>4, <3>1 DEF E2EInv, E2ETypeOK, SeenRecords, Attempting, Batch, Closed, E2EAt, E2EGo,
         AttemptTrue, WaitTrace, EvidenceStep
  <2>5. CASE outcome = "interrupt"
    <3>1. e2eAttempt'.status = "failed" /\ e2eAttempt'.posted
      BY <2>5, NewAttempt DEF WaitTrace, EvidenceStep
    <3> QED
      BY <2>5, <3>1 DEF E2EInv, E2ETypeOK, SeenRecords, Attempting, Batch, Closed, E2EAt, E2EGo,
         AttemptTrue, WaitTrace, EvidenceStep
  <2> QED
    BY <2>2, <2>3, <2>4, <2>5 DEF EvidenceOutcomes
<1> USE DEF E2EInv, E2ETypeOK, SeenRecords, Attempting, Batch, Closed, E2EAt, E2EGo,
   sessionVars, recordVars, WaitTrace, EvidenceStep, EvidenceOutcomes, Interrupted, E2EFailing,
   NoAttempt
<1>3. TraceHeld'
  BY DEF TraceHeld
<1>4. RowsPlaced'
  BY DEF RowsPlaced, InPlace, OneMissing
<1>5. RowsTrue'
  BY DEF RowsTrue, AttemptTrue
<1>6. ChatsKnown'
  BY DEF ChatsKnown
<1>7. FaultsTold'
  BY DEF FaultsTold, RowsPlaced, E2EBatchFailed
<1>8. EveryQueryAccounted'
  BY DEF EveryQueryAccounted
<1> QED
  BY <1>1, <1>2, <1>3, <1>4, <1>5, <1>6, <1>7, <1>8

\* The tasks after the answer.
LEMMA PostGenerationKeeps ==
  ASSUME NEW outcome \in PostOutcomes, E2EInv, PostGeneration(outcome)
  PROVE  E2EInv'
<1>1. E2ETypeOK'
  <2>1. e2eAttempt' \in AttemptRecords
    BY NewAttempt, FailedAttempt DEF PostGeneration, EvidenceStep, PostOutcomes, E2EInv,
       E2ETypeOK
  <2> QED
    BY <2>1 DEF E2EInv, E2ETypeOK, SeenRecords, Attempting, Batch, Closed, E2EAt, E2EGo,
       sessionVars,
       recordVars, PostGeneration, EvidenceStep, PostOutcomes
<1>2. AttemptTrue'
  <2>1. e2eAttempt \in AttemptRecords
    BY DEF E2EInv, E2ETypeOK, SeenRecords
  <2>2. CASE outcome = "ok"
    BY <2>1, <2>2 DEF E2EInv, E2ETypeOK, SeenRecords, Attempting, Batch, Closed, E2EAt, E2EGo,
       AttemptTrue, PostGeneration, EvidenceStep
  <2>3. CASE outcome = "contract"
    <3>1. e2eAttempt'.status = "failed" /\ e2eAttempt'.posted /\ e2eAttempt'.evaluation = "failed"
      BY <2>1, <2>3, FailedAttempt DEF PostGeneration, EvidenceStep, E2EInv, AttemptTrue, E2EAt
    <3> QED
      BY <2>3, <3>1 DEF E2EInv, E2ETypeOK, SeenRecords, Attempting, Batch, Closed, E2EAt, E2EGo,
         AttemptTrue, PostGeneration, EvidenceStep
  <2>4. CASE outcome = "failed"
    <3>1. e2eAttempt'.status = "failed" /\ e2eAttempt'.posted
      BY <2>1, <2>4, FailedAttempt DEF PostGeneration, EvidenceStep, E2EInv, AttemptTrue, E2EAt
    <3> QED
      BY <2>4, <3>1 DEF E2EInv, E2ETypeOK, SeenRecords, Attempting, Batch, Closed, E2EAt, E2EGo,
         AttemptTrue, PostGeneration, EvidenceStep
  <2>5. CASE outcome = "interrupt"
    <3>1. e2eAttempt'.status = "failed" /\ e2eAttempt'.posted
      BY <2>5, NewAttempt DEF PostGeneration, EvidenceStep
    <3> QED
      BY <2>5, <3>1 DEF E2EInv, E2ETypeOK, SeenRecords, Attempting, Batch, Closed, E2EAt, E2EGo,
         AttemptTrue, PostGeneration, EvidenceStep
  <2> QED
    BY <2>2, <2>3, <2>4, <2>5 DEF PostOutcomes
<1> USE DEF E2EInv, E2ETypeOK, SeenRecords, Attempting, Batch, Closed, E2EAt, E2EGo,
   sessionVars, recordVars, PostGeneration, EvidenceStep, PostOutcomes, Interrupted, E2EFailing,
   NoAttempt
<1>3. TraceHeld'
  BY DEF TraceHeld
<1>4. RowsPlaced'
  BY DEF RowsPlaced, InPlace, OneMissing
<1>5. RowsTrue'
  BY DEF RowsTrue, AttemptTrue
<1>6. ChatsKnown'
  BY DEF ChatsKnown
<1>7. FaultsTold'
  BY DEF FaultsTold, RowsPlaced, E2EBatchFailed
<1>8. EveryQueryAccounted'
  BY DEF EveryQueryAccounted
<1> QED
  BY <1>1, <1>2, <1>3, <1>4, <1>5, <1>6, <1>7, <1>8

\* The evaluation of the answer starts, or has failed.
LEMMA SubmitEvaluationKeeps ==
  ASSUME NEW ok \in BOOLEAN, E2EInv, SubmitEvaluation(ok)
  PROVE  E2EInv'
<1> USE DEF E2EInv, E2ETypeOK, SeenRecords, Attempting, Batch, Closed, E2EAt, E2EGo,
   sessionVars, recordVars, SubmitEvaluation
<1>1. E2ETypeOK'
  BY DEF AttemptRecords
<1>2. TraceHeld'
  BY DEF TraceHeld
<1>3. AttemptTrue'
  BY DEF AttemptTrue, AttemptRecords
<1>4. RowsPlaced'
  BY DEF RowsPlaced, InPlace, OneMissing
<1>5. RowsTrue'
  BY DEF RowsTrue, AttemptTrue
<1>6. ChatsKnown'
  BY DEF ChatsKnown
<1>7. FaultsTold'
  BY DEF FaultsTold, RowsPlaced, E2EBatchFailed
<1>8. EveryQueryAccounted'
  BY DEF EveryQueryAccounted
<1> QED
  BY <1>1, <1>2, <1>3, <1>4, <1>5, <1>6, <1>7, <1>8

\* The trace of a stream that broke off.
LEMMA WaitFailedTraceKeeps ==
  ASSUME NEW outcome \in EvidenceOutcomes, E2EInv, WaitFailedTrace(outcome)
  PROVE  E2EInv'
<1>1. E2ETypeOK'
  <2>1. e2eSeen' \in SeenRecords
    <3>1. e2eQuery \in 1..Queries /\ e2eSeen \in SeenRecords
      BY QueriesAssumption DEF E2EInv, E2ETypeOK, SeenRecords, Attempting, WaitFailedTrace,
         E2EAt
    <3>2. e2eSeen' = e2eSeen \/ e2eSeen' = [e2eSeen EXCEPT !.lost = @ \cup {e2eQuery}]
      BY DEF WaitFailedTrace
    <3> QED
      BY <3>1, <3>2 DEF SeenRecords
  <2>2. e2eAttempt' \in AttemptRecords
    BY NewAttempt, FailedAttempt DEF WaitFailedTrace, EvidenceOutcomes, E2EInv, E2ETypeOK,
       SeenRecords
  <2> QED
    BY <2>1, <2>2 DEF E2EInv, E2ETypeOK, SeenRecords, Attempting, Batch, Closed, E2EAt, E2EGo,
       sessionVars, recordVars, WaitFailedTrace, AfterQuery, EvidenceOutcomes
<1>2. AttemptTrue'
  <2>1. e2eAttempt \in AttemptRecords
    BY DEF E2EInv, E2ETypeOK, SeenRecords
  <2>2. CASE outcome = "ok"
    <3>1. e2ePc = "wait_failed_trace" /\ e2ePc' = "finish" /\ e2eSeen' = e2eSeen
      BY <2>2 DEF WaitFailedTrace, E2EAt, E2EGo
    <3>2. UNCHANGED <<e2eAttempt, e2eJob, e2eQuery>>
      BY <2>2 DEF WaitFailedTrace
    <3>3. e2eAttempt.status = "failed"
      BY <3>1 DEF E2EInv, AttemptTrue
    <3> QED
      BY <3>1, <3>2, <3>3 DEF E2EInv, E2ETypeOK, SeenRecords, Attempting, Batch, Closed,
         AttemptTrue
  <2>3. CASE outcome = "contract"
    <3>1. e2eAttempt'.status = "failed" /\ e2eAttempt'.posted 
      BY <2>1, <2>3, FailedAttempt DEF WaitFailedTrace, AfterQuery, E2EInv, AttemptTrue, E2EAt
    <3> QED
      BY <2>3, <3>1 DEF E2EInv, E2ETypeOK, SeenRecords, Attempting, Batch, Closed, E2EAt, E2EGo,
         AttemptTrue, WaitFailedTrace, AfterQuery
  <2>4. CASE outcome = "failed"
    <3>1. e2eAttempt'.status = "failed" /\ e2eAttempt'.posted
      BY <2>1, <2>4, FailedAttempt DEF WaitFailedTrace, AfterQuery, E2EInv, AttemptTrue, E2EAt
    <3> QED
      BY <2>4, <3>1 DEF E2EInv, E2ETypeOK, SeenRecords, Attempting, Batch, Closed, E2EAt, E2EGo,
         AttemptTrue, WaitFailedTrace, AfterQuery
  <2>5. CASE outcome = "interrupt"
    <3>1. e2eAttempt'.status = "failed" /\ e2eAttempt'.posted
      BY <2>5, NewAttempt DEF WaitFailedTrace, AfterQuery
    <3> QED
      BY <2>5, <3>1 DEF E2EInv, E2ETypeOK, SeenRecords, Attempting, Batch, Closed, E2EAt, E2EGo,
         AttemptTrue, WaitFailedTrace, AfterQuery
  <2> QED
    BY <2>2, <2>3, <2>4, <2>5 DEF EvidenceOutcomes
<1> USE DEF E2EInv, E2ETypeOK, SeenRecords, Attempting, Batch, Closed, E2EAt, E2EGo,
   sessionVars, recordVars, WaitFailedTrace, EvidenceOutcomes, Interrupted, E2EFailing,
   NoAttempt, AfterQuery
<1>3. TraceHeld'
  BY DEF TraceHeld
<1>4. RowsPlaced'
  BY DEF RowsPlaced, InPlace, OneMissing
<1>5. RowsTrue'
  BY DEF RowsTrue, AttemptTrue
<1>6. ChatsKnown'
  BY DEF ChatsKnown
<1>7. FaultsTold'
  BY DEF FaultsTold, RowsPlaced, E2EBatchFailed
<1>8. EveryQueryAccounted'
  BY DEF EveryQueryAccounted
<1> QED
  BY <1>1, <1>2, <1>3, <1>4, <1>5, <1>6, <1>7, <1>8

\* The evaluation has ended, and its job with it.
LEMMA FinishQueryKeeps ==
  ASSUME NEW outcome \in EvaluationOutcomes, E2EInv, FinishQuery(outcome)
  PROVE  E2EInv'
<1>1. E2ETypeOK'
  <2>1. e2eAttempt \in AttemptRecords
    BY DEF E2EInv, E2ETypeOK, SeenRecords
  <2>2. [e2eAttempt EXCEPT !.evaluation = outcome] \in AttemptRecords \/ outcome = "interrupt"
    BY <2>1 DEF AttemptRecords, EvaluationOutcomes
  <2>3. e2eAttempt' \in AttemptRecords
    BY <2>1, <2>2, NewAttempt DEF FinishQuery
  <2> QED
    BY <2>3 DEF E2EInv, E2ETypeOK, SeenRecords, Attempting, Batch, Closed, E2EAt, E2EGo,
       sessionVars, recordVars, FinishQuery, AfterQuery
<1>2. AttemptTrue'
  <2>1. e2eAttempt \in AttemptRecords
    BY DEF E2EInv, E2ETypeOK, SeenRecords
  <2>2. CASE e2eJob # "running"
    BY <2>2 DEF E2EInv, E2ETypeOK, SeenRecords, Attempting, Batch, Closed, E2EAt, E2EGo,
       sessionVars, recordVars, AttemptTrue, FinishQuery, AfterQuery
  <2>3. CASE e2eJob = "running" /\ outcome = "interrupt"
    <3>1. e2eAttempt'.status = "failed" /\ e2eAttempt'.posted
      BY <2>3, NewAttempt DEF FinishQuery
    <3> QED
      BY <2>3, <3>1 DEF E2EInv, E2ETypeOK, SeenRecords, Attempting, Batch, Closed, E2EAt, E2EGo,
         sessionVars, recordVars, AttemptTrue, FinishQuery
  <2>4. CASE e2eJob = "running" /\ outcome # "interrupt"
    <3>1. e2eAttempt' = [e2eAttempt EXCEPT !.evaluation = outcome]
      BY <2>4 DEF FinishQuery
    <3>2. /\ e2eAttempt'.status = e2eAttempt.status
          /\ e2eAttempt'.evaluation # "skipped"
      BY <2>1, <2>4, <3>1 DEF AttemptRecords, EvaluationOutcomes
    <3>3. e2eAttempt'.posted <=> e2eAttempt.posted
      BY <2>1, <3>1 DEF AttemptRecords
    <3> QED
      BY <2>4, <3>2, <3>3 DEF E2EInv, E2ETypeOK, SeenRecords, Attempting, Batch, Closed, E2EAt,
         E2EGo, sessionVars, recordVars, AttemptTrue, FinishQuery, AfterQuery
  <2> QED
    BY <2>2, <2>3, <2>4
<1> USE DEF E2EInv, E2ETypeOK, SeenRecords, Attempting, Batch, Closed, E2EAt, E2EGo,
   sessionVars, recordVars, FinishQuery, EvaluationOutcomes, Interrupted, NoAttempt, AfterQuery
<1>3. TraceHeld'
  BY DEF TraceHeld
<1>4. RowsPlaced'
  BY DEF RowsPlaced, InPlace, OneMissing
<1>5. RowsTrue'
  BY DEF RowsTrue, AttemptTrue
<1>6. ChatsKnown'
  BY DEF ChatsKnown
<1>7. FaultsTold'
  BY DEF FaultsTold, RowsPlaced, E2EBatchFailed
<1>8. EveryQueryAccounted'
  BY DEF EveryQueryAccounted
<1> QED
  BY <1>1, <1>2, <1>3, <1>4, <1>5, <1>6, <1>7, <1>8

\* The session of the query is deleted, or reported.
LEMMA CleanupChatKeeps ==
  ASSUME NEW outcome \in CleanupOutcomes, NEW deleted \in BOOLEAN,
         E2EInv, CleanupChat(outcome, deleted)
  PROVE  E2EInv'
<1>1. E2ETypeOK'
  <2>1. e2eSeen' \in SeenRecords
    <3>1. e2eQuery \in 1..Queries /\ e2eSeen \in SeenRecords
      BY QueriesAssumption DEF E2EInv, E2ETypeOK, SeenRecords, Attempting, CleanupChat, E2EAt
    <3>2. e2eSeen' = e2eSeen \/ e2eSeen' = [e2eSeen EXCEPT !.cut = TRUE, !.lost = @ \cup {e2eQuery}]
      BY DEF CleanupChat
    <3> QED
      BY <3>1, <3>2 DEF SeenRecords
  <2> QED
    BY <2>1 DEF E2EInv, E2ETypeOK, SeenRecords, Attempting, Batch, Closed, E2EAt, E2EGo,
       sessionVars, recordVars, CleanupChat, CleanupSession
<1>2. ChatsKnown'
  <2>1. \A other \in e2ePending' : other \in e2ePending
    BY DEF CleanupChat, CleanupSession
  <2>2. ASSUME e2eMode'.dataset, ~e2eSeen'.cut, NEW other \in e2eChats' \ e2eSeen'.unknown
        PROVE  \/ other \in e2ePending'
               \/ other \in DOMAIN e2eCleanups' /\ e2eCleanups'[other] = "failed"
    <3>1. outcome # "interrupt" /\ UNCHANGED <<e2eMode, e2eSeen>>
      BY <2>2 DEF CleanupChat, CleanupSession, E2EInv, E2ETypeOK, SeenRecords
    <3>2. other \in e2eChats \ e2eSeen.unknown
      BY <2>2, <3>1 DEF CleanupChat, CleanupSession
    <3>3. other \in e2ePending \/ (other \in DOMAIN e2eCleanups /\ e2eCleanups[other] = "failed")
      BY <2>2, <3>1, <3>2 DEF E2EInv, ChatsKnown
    <3>4. e2eCleanups' = [x \in DOMAIN e2eCleanups \cup {Chat} |->
                             IF x = Chat THEN outcome ELSE e2eCleanups[x]]
      BY <3>1 DEF CleanupChat, CleanupSession
    <3>6. other = Chat => outcome = "failed"
      BY <2>2, <3>1 DEF CleanupChat, CleanupSession, CleanupOutcomes
    <3> QED
      BY <3>3, <3>4, <3>6 DEF CleanupChat, CleanupSession
  <2> QED
    BY <2>1, <2>2 DEF E2EInv, E2ETypeOK, SeenRecords, ChatsKnown, Attempting, E2EAt, E2EGo,
       CleanupChat, CleanupSession
<1> USE DEF E2EInv, E2ETypeOK, SeenRecords, Attempting, Batch, Closed, E2EAt, E2EGo,
   sessionVars, recordVars, CleanupChat, CleanupSession, CleanupOutcomes, Chat
<1>3. TraceHeld'
  BY DEF TraceHeld
<1>4. AttemptTrue'
  BY DEF AttemptTrue, AttemptRecords
<1>5. RowsPlaced'
  BY DEF RowsPlaced, InPlace, OneMissing
<1>6. RowsTrue'
  BY DEF RowsTrue, AttemptTrue
<1>7. FaultsTold'
  BY DEF FaultsTold, RowsPlaced, E2EBatchFailed
<1>8. EveryQueryAccounted'
  BY DEF EveryQueryAccounted
<1> QED
  BY <1>1, <1>2, <1>3, <1>4, <1>5, <1>6, <1>7, <1>8

\* One more of the pending sessions is deleted, or reported.
LEMMA CleanupPendingKeeps ==
  ASSUME NEW chat \in e2ePending, NEW outcome \in CleanupOutcomes, NEW deleted \in BOOLEAN,
         E2EInv, CleanupPending(chat, outcome, deleted)
  PROVE  E2EInv'
<1>1. E2ETypeOK'
  <2>1. e2eSeen' \in SeenRecords
    <3>1. e2eSeen \in SeenRecords
      BY DEF E2EInv, E2ETypeOK, SeenRecords
    <3>2. e2eSeen' = e2eSeen \/ e2eSeen' = [e2eSeen EXCEPT !.cut = TRUE]
      BY DEF CleanupPending
    <3> QED
      BY <3>1, <3>2 DEF SeenRecords
  <2> QED
    BY <2>1 DEF E2EInv, E2ETypeOK, SeenRecords, Attempting, Batch, Closed, E2EAt, E2EGo,
       sessionVars, recordVars, CleanupPending, CleanupSession
<1>2. ChatsKnown'
  <2>1. \A other \in e2ePending' : other \in e2ePending
    BY DEF CleanupPending, CleanupSession
  <2>2. ASSUME e2eMode'.dataset, ~e2eSeen'.cut, NEW other \in e2eChats' \ e2eSeen'.unknown
        PROVE  \/ other \in e2ePending'
               \/ other \in DOMAIN e2eCleanups' /\ e2eCleanups'[other] = "failed"
    <3>1. outcome # "interrupt" /\ UNCHANGED <<e2eMode, e2eSeen>>
      BY <2>2 DEF CleanupPending, CleanupSession, E2EInv, E2ETypeOK, SeenRecords
    <3>2. other \in e2eChats \ e2eSeen.unknown
      BY <2>2, <3>1 DEF CleanupPending, CleanupSession
    <3>3. other \in e2ePending \/ (other \in DOMAIN e2eCleanups /\ e2eCleanups[other] = "failed")
      BY <2>2, <3>1, <3>2 DEF E2EInv, ChatsKnown
    <3>4. e2eCleanups' = [x \in DOMAIN e2eCleanups \cup {chat} |->
                             IF x = chat THEN outcome ELSE e2eCleanups[x]]
      BY <3>1 DEF CleanupPending, CleanupSession
    <3>6. other = chat => outcome = "failed"
      BY <2>2, <3>1 DEF CleanupPending, CleanupSession, CleanupOutcomes
    <3> QED
      BY <3>3, <3>4, <3>6 DEF CleanupPending, CleanupSession
  <2> QED
    BY <2>1, <2>2 DEF E2EInv, E2ETypeOK, SeenRecords, ChatsKnown, Attempting, E2EAt, E2EGo,
       CleanupPending, CleanupSession
<1> USE DEF E2EInv, E2ETypeOK, SeenRecords, Attempting, Batch, Closed, E2EAt, E2EGo,
   sessionVars, recordVars, CleanupPending, CleanupSession, CleanupOutcomes
<1>3. TraceHeld'
  BY DEF TraceHeld
<1>4. AttemptTrue'
  BY DEF AttemptTrue, AttemptRecords
<1>5. RowsPlaced'
  BY DEF RowsPlaced, InPlace, OneMissing
<1>6. RowsTrue'
  BY DEF RowsTrue, AttemptTrue
<1>7. FaultsTold'
  BY DEF FaultsTold, RowsPlaced, E2EBatchFailed
<1>8. EveryQueryAccounted'
  BY DEF EveryQueryAccounted
<1> QED
  BY <1>1, <1>2, <1>3, <1>4, <1>5, <1>6, <1>7, <1>8

\* The batch passes when nothing of it failed.
LEMMA PhaseEndKeeps ==
  ASSUME E2EInv, PhaseEnd
  PROVE  E2EInv'
<1> USE DEF E2EInv, E2ETypeOK, SeenRecords, Attempting, Batch, Closed, E2EAt, E2EGo,
   sessionVars, recordVars, PhaseEnd
<1>1. E2ETypeOK'
  BY DEF AttemptRecords
<1>2. TraceHeld'
  BY DEF TraceHeld
<1>3. AttemptTrue'
  BY DEF AttemptTrue, AttemptRecords
<1>4. RowsPlaced'
  BY DEF RowsPlaced, InPlace, OneMissing
<1>5. RowsTrue'
  BY DEF RowsTrue, AttemptTrue
<1>6. ChatsKnown'
  BY DEF ChatsKnown
<1>7. FaultsTold'
  BY DEF FaultsTold, RowsPlaced, E2EBatchFailed
<1>8. EveryQueryAccounted'
  BY DEF EveryQueryAccounted
<1> QED
  BY <1>1, <1>2, <1>3, <1>4, <1>5, <1>6, <1>7, <1>8

\* The batch starts with nothing sent and no row.
LEMMA E2EStarts == E2EInit => E2EInv
<1> SUFFICES ASSUME E2EInit PROVE E2EInv
  OBVIOUS
<1>1. /\ e2eRecorder.rows = <<>> /\ e2eRecorder.attempted = 0 /\ e2eRecorder.notAttempted = 0
      /\ e2eRecorder \in [rows : Seq(RowRecords), attempted : Nat, notAttempted : Nat]
      /\ DOMAIN e2eRecorder.rows = {} /\ Len(e2eRecorder.rows) = 0
  BY DEF E2EInit
<1>2. /\ e2eSeen.posted = {} /\ e2eSeen.unknown = {} /\ e2eSeen.lost = {} /\ ~e2eSeen.cut
      /\ e2eSeen \in SeenRecords
  BY DEF E2EInit, SeenRecords
<1>3. /\ e2ePc = "pre_down" /\ e2eQuery = 1 /\ e2eTraces = {} /\ e2eChats = {} /\ e2ePending = {}
      /\ e2eAttempt = NoAttempt /\ e2eJob = "none" /\ e2ePhase = "running" /\ e2eSummary = "running"
      /\ e2eTrace \in [id : Nat, started : BOOLEAN]
      /\ e2eMode \in [dataset : BOOLEAN, continuous : BOOLEAN]
  BY DEF E2EInit
<1>4. E2ETypeOK
  BY <1>1, <1>2, <1>3, NoAttemptFields, QueriesAssumption
  DEF E2ETypeOK, SeenRecords, Attempting, Batch, Closed
<1>5. TraceHeld /\ AttemptTrue /\ ChatsKnown /\ FaultsTold
  BY <1>1, <1>2, <1>3 DEF TraceHeld, AttemptTrue, ChatsKnown, FaultsTold, Attempting, Batch, Closed
<1>6. RowsPlaced /\ RowsTrue /\ EveryQueryAccounted
  BY <1>1, <1>2, <1>3 DEF RowsPlaced, RowsTrue, InPlace, EveryQueryAccounted, E2EAt, Closed
<1> QED
  BY <1>4, <1>5, <1>6 DEF E2EInv

\* Nothing happens to the batch.
LEMMA E2EStutters == E2EInv /\ UNCHANGED e2eVars => E2EInv'
<1> SUFFICES ASSUME E2EInv, UNCHANGED e2eVars PROVE E2EInv'
  OBVIOUS
<1>1. UNCHANGED <<e2eMode, e2ePc, e2eQuery, e2eTraces, e2eChats, e2eTrace, e2ePending, e2eCleanups,
                  e2eAttempt, e2eJob, e2eRecorder, e2ePhase, e2eSummary, e2eSeen>>
  BY DEF e2eVars
<1>2. (E2ETypeOK /\ TraceHeld /\ AttemptTrue /\ ChatsKnown /\ FaultsTold)'
  BY <1>1 DEF E2EInv, E2ETypeOK, SeenRecords, TraceHeld, AttemptTrue, ChatsKnown, FaultsTold,
            E2EBatchFailed
<1>3. (RowsPlaced /\ RowsTrue /\ EveryQueryAccounted)'
  BY <1>1 DEF E2EInv, RowsPlaced, RowsTrue, InPlace, OneMissing, EveryQueryAccounted, E2EAt
<1> QED
  BY <1>2, <1>3 DEF E2EInv

\* Every step of the batch is one of those.
LEMMA E2EKeeps == E2EInv /\ [E2ENext]_e2eVars => E2EInv'
<1> SUFFICES ASSUME E2EInv, [E2ENext]_e2eVars PROVE E2EInv'
  OBVIOUS
<1>1. ASSUME NEW ok \in BOOLEAN,
             \/ E2EPreDown(ok) \/ E2EUp(ok) \/ VerifyCorpus(ok) \/ E2EDown(ok)
             \/ SubmitEvaluation(ok) \/ RecordAttempt(ok)
      PROVE  E2EInv'
  BY <1>1, E2EPreDownKeeps, E2EUpKeeps, VerifyCorpusKeeps, E2EDownKeeps, SubmitEvaluationKeeps,
     RecordAttemptKeeps
<1>2. ASSUME NEW ok \in BOOLEAN, NEW effect \in BOOLEAN,
             \/ E2EStartTrace(ok, effect) \/ CloseTrace(ok, effect)
             \/ SharedChat(ok, effect) \/ FinalTrace(ok, effect)
      PROVE  E2EInv'
  BY <1>2, E2EStartTraceKeeps, CloseTraceKeeps, SharedChatKeeps, FinalTraceKeeps
<1>3. ASSUME NEW outcome \in {"created", "lost", "refused", "interrupt"}, NEW held \in BOOLEAN,
             CreateChat(outcome, held)
      PROVE  E2EInv'
  BY <1>3, CreateChatKeeps
<1>4. ASSUME NEW outcome \in StreamOutcomes, PostQuery(outcome) PROVE E2EInv'
  BY <1>4, PostQueryKeeps
<1>5. ASSUME NEW outcome \in EvidenceOutcomes, WaitTrace(outcome) \/ WaitFailedTrace(outcome)
      PROVE  E2EInv'
  BY <1>5, WaitTraceKeeps, WaitFailedTraceKeeps
<1>6. ASSUME NEW outcome \in PostOutcomes, PostGeneration(outcome) PROVE E2EInv'
  BY <1>6, PostGenerationKeeps
<1>7. ASSUME NEW outcome \in EvaluationOutcomes, FinishQuery(outcome) PROVE E2EInv'
  BY <1>7, FinishQueryKeeps
<1>8. ASSUME NEW outcome \in CleanupOutcomes, NEW deleted \in BOOLEAN,
             \/ CleanupChat(outcome, deleted)
             \/ \E chat \in e2ePending : CleanupPending(chat, outcome, deleted)
      PROVE  E2EInv'
  BY <1>8, CleanupChatKeeps, CleanupPendingKeeps
<1>9. CASE RotateTrace \/ NextQuery \/ AbortBatch \/ PhaseEnd \/ Report
  BY <1>9, RotateTraceKeeps, NextQueryKeeps, AbortBatchKeeps, PhaseEndKeeps, ReportKeeps
<1>10. CASE E2EStop \/ UNCHANGED e2eVars
  BY <1>10, E2EStutters DEF E2EStop
<1> QED
  BY <1>1, <1>2, <1>3, <1>4, <1>5, <1>6, <1>7, <1>8, <1>9, <1>10 DEF E2ENext, E2EStep

\* The rows are the truth about the queries.
LEMMA BatchFaithful == E2EInv => EveryQueryAccounted /\ RowsTellTheTruth /\ NothingAfterSystemic
<1> SUFFICES ASSUME E2EInv PROVE RowsTellTheTruth /\ NothingAfterSystemic
  BY DEF E2EInv
<1>1. RowsTellTheTruth
  BY DEF E2EInv, RowsTrue, RowsTellTheTruth
<1>2. NothingAfterSystemic
  BY DEF E2EInv, RowsTrue, NothingAfterSystemic
<1> QED
  BY <1>1, <1>2

\* What the batch started is gone, or was reported.
LEMMA BatchCleansUp == E2EInv => OneTraceAtATime /\ ChatsCleanedUp /\ NoJobLeft
<1> SUFFICES ASSUME E2EInv PROVE OneTraceAtATime /\ ChatsCleanedUp /\ NoJobLeft
  OBVIOUS
<1>1. OneTraceAtATime
  <2>1. e2eTraces = {} \/ e2eTraces = {e2eTrace.id}
    BY DEF E2EInv, TraceHeld
  <2>2. Cardinality(e2eTraces) = 0 \/ Cardinality(e2eTraces) = 1
    BY <2>1, FS_EmptySet, FS_Singleton, Zenon
  <2> QED
    BY <2>2 DEF OneTraceAtATime
<1>2. ChatsCleanedUp
  BY DEF E2EInv, ChatsKnown, ChatsCleanedUp, E2EAt
<1>3. NoJobLeft
  BY DEF E2EInv, AttemptTrue, NoJobLeft
<1> QED
  BY <1>1, <1>2, <1>3

\* A batch that is reported as a success was one.
LEMMA SucceededBatch == E2EInv => SucceededMeansAll
<1> SUFFICES ASSUME E2EInv, e2eSummary = "succeeded"
             PROVE  /\ e2eSeen.posted = 1..Queries /\ e2eSeen.lost = {}
                    /\ [i \in DOMAIN e2eRecorder.rows |-> e2eRecorder.rows[i].index]
                          = [q \in 1..Queries |-> q]
                    /\ \A i \in DOMAIN e2eRecorder.rows :
                          /\ e2eRecorder.rows[i].status = "succeeded"
                          /\ e2eMode.dataset => e2eRecorder.rows[i].evaluation = "succeeded"
                    /\ e2eTraces = {}
                    /\ e2eMode.dataset => e2eChats = {}
  BY DEF SucceededMeansAll
<1>1. PICK rows : rows = e2eRecorder.rows /\ rows \in Seq(RowRecords)
  BY DEF E2EInv, E2ETypeOK, SeenRecords
<1>2. e2ePc = "done" /\ e2ePhase = "passed" /\ ~E2EBatchFailed /\ e2eSeen.lost = {} /\ ~e2eSeen.cut
  BY DEF E2EInv, FaultsTold
<1>3. Len(rows) = Queries /\ DOMAIN rows = 1..Queries /\ \A i \in 1..Queries : rows[i].index = i
  <2>1. InPlace(Queries)
    BY <1>2 DEF E2EInv, RowsPlaced, Closed
  <2> QED
    BY <1>1, <2>1 DEF InPlace
<1>4. \A i \in DOMAIN rows :
         rows[i] \in RowRecords /\ rows[i].status # "failed" /\ rows[i].status # "not_attempted"
  BY <1>1, <1>2 DEF E2EInv, RowsTrue, E2EBatchFailed
<1>5. \A i \in DOMAIN rows :
         rows[i].status = "succeeded" /\ rows[i].posted /\ rows[i].evaluation # "skipped"
  BY <1>1, <1>4 DEF E2EInv, RowsTrue, RowRecords
<1>6. e2eMode.dataset =>
         \A i \in DOMAIN rows : rows[i].evaluation = "succeeded"
  BY <1>1, <1>2, <1>4, <1>5 DEF E2EBatchFailed, RowRecords
<1>7. e2eSeen.posted = 1..Queries
  <2>1. \A i \in DOMAIN rows : rows[i].index \in e2eSeen.posted
    BY <1>1, <1>2, <1>5 DEF E2EInv, RowsTrue
  <2>2. e2eSeen.posted \subseteq 1..Queries
    BY DEF E2EInv, E2ETypeOK, SeenRecords
  <2>3. \A q \in 1..Queries : q \in e2eSeen.posted
    BY <1>3, <2>1
  <2> QED
    BY <2>2, <2>3
<1>8. e2eTraces = {}
  BY <1>2 DEF E2EInv, TraceHeld, Closed
<1>9. e2eMode.dataset => e2eChats = {}
  <2>1. e2eSeen.unknown = {}
    BY <1>1, <1>2, <1>4 DEF E2EInv, FaultsTold
  <2>2. e2eMode.dataset =>
           \A chat \in e2eChats : chat \in DOMAIN e2eCleanups /\ e2eCleanups[chat] = "failed"
    BY <1>2, <2>1 DEF E2EInv, ChatsKnown
  <2> QED
    BY <1>2, <2>2 DEF E2EBatchFailed
<1>10. [i \in DOMAIN rows |-> rows[i].index] = [q \in 1..Queries |-> q]
  BY <1>3
<1> QED
  BY <1>1, <1>2, <1>5, <1>6, <1>7, <1>8, <1>9, <1>10

---------------------------------------------------------------------------
(* up and down *)

\* The applications that down has still to stop, from the last one backwards.
DepTodos == {<<>>, <<"runtime">>, <<"qwen", "runtime">>, <<"granite", "qwen", "runtime">>}
ToStop(todo) == {todo[i] : i \in DOMAIN todo}

\* The steps of the two commands; how far up has come is where it is.
RuntimeUp == {"validate_runtime", "write_state"}
QwenUp == {"validate_qwen", "secret", "publish", "deploy_runtime"} \cup RuntimeUp
GraniteUp == {"validate_granite", "deploy_qwen"} \cup QwenUp
MachineUp == {"deploy_granite"} \cup GraniteUp
UpSteps == {"preflight", "certificate", "renew_cert", "renew_key", "compose", "rest", "grpc",
            "funnel_status", "verify_weaviate"} \cup MachineUp
DownSteps == {"stop", "rest_off", "grpc_off", "compose_down", "remove_state", "wait", "volume"}

DepTypeOK ==
    /\ depApps \in [Apps -> {"off", "starting", "serving", "draining"}]
    /\ depPc \in UpSteps \cup DownSteps \cup {"idle"}
    /\ depTodo \in DepTodos /\ (depPc # "stop" => depTodo = <<>>)
    /\ depResult \in {"none", "ready", "failed", "off", "down_failed", "killed"}
    /\ depPc # "idle" => depResult = "none"

\* What up has deployed is on when its next step begins.
DeployedSoFar ==
    /\ depPc \in {"verify_weaviate"} \cup MachineUp \/ depResult = "ready" => depFunnels = Funnels
    /\ depPc \in MachineUp \/ depResult = "ready" => depCompose
    /\ depPc \in GraniteUp \/ depResult = "ready" => AppOn("granite")
    /\ depPc \in QwenUp \/ depResult = "ready" => AppOn("qwen")
    /\ depPc \in RuntimeUp \/ depResult = "ready" => AppOn("runtime")
    /\ depResult = "ready" => depEndpoint

\* What runs is still to be stopped, or could not be.
StoppedSoFar ==
    /\ depPc \in DownSteps => \A app \in Apps : AppOn(app) => app \in depExcuse \cup ToStop(depTodo)
    /\ NothingLeftRunning

\* Before down reports that RAG is off, no container was listed and the endpoint is gone.
ListedBeforeOff ==
    /\ depPc \in {"wait", "volume"} => ~depEndpoint
    /\ depPc = "volume" /\ "listing" \notin depExcuse => \A app \in Apps : depApps[app] = "off"
    /\ OffWhenListed

DepInv == DepTypeOK /\ DeployedSoFar /\ StoppedSoFar /\ ListedBeforeOff /\ SecretRemoved

\* The applications are stopped one after the other.
LEMMA NextToStop ==
  ASSUME NEW todo \in DepTodos
  PROVE  /\ todo # <<>> => /\ Head(todo) \in Apps /\ Tail(todo) \in DepTodos
                           /\ ToStop(todo) = ToStop(Tail(todo)) \cup {Head(todo)}
         /\ ToStop(<<"granite", "qwen", "runtime">>) = Apps /\ ToStop(<<>>) = {}
<1>1. /\ ToStop(<<"granite", "qwen", "runtime">>) = {"granite", "qwen", "runtime"}
      /\ ToStop(<<"qwen", "runtime">>) = {"qwen", "runtime"}
      /\ ToStop(<<"runtime">>) = {"runtime"} /\ ToStop(<<>>) = {}
  BY DEF ToStop
<1>2. CASE todo = <<>>
  BY <1>1, <1>2 DEF Apps
<1>3. CASE todo = <<"runtime">>
  <2>1. Head(todo) = "runtime" /\ Tail(todo) = <<>>
    BY <1>3
  <2> QED
    BY <1>1, <1>3, <2>1 DEF Apps, DepTodos
<1>4. CASE todo = <<"qwen", "runtime">>
  <2>1. Head(todo) = "qwen" /\ Tail(todo) = <<"runtime">>
    BY <1>4
  <2> QED
    BY <1>1, <1>4, <2>1 DEF Apps, DepTodos
<1>5. CASE todo = <<"granite", "qwen", "runtime">>
  <2>1. Head(todo) = "granite" /\ Tail(todo) = <<"qwen", "runtime">>
    BY <1>5
  <2> QED
    BY <1>1, <1>5, <2>1 DEF Apps, DepTodos
<1> QED
  BY <1>2, <1>3, <1>4, <1>5 DEF DepTodos

\* down begins with all of them.
LEMMA DownBegins ==
  /\ BeginDown => depPc' = "stop" /\ depTodo' \in DepTodos /\ ToStop(depTodo') = Apps
  /\ <<>> \in DepTodos
BY NextToStop DEF BeginDown, DepTodos

\* Nothing runs at first.
LEMMA DepStarts == DepInit => DepInv
<1> SUFFICES ASSUME DepInit PROVE DepInv
  OBVIOUS
<1> QED
  BY DEF DepInit, DepInv, DepTypeOK, DepTodos, DeployedSoFar, StoppedSoFar, ListedBeforeOff, SecretRemoved,
         NothingLeftRunning, OffWhenListed, AppOn, MachineUp, GraniteUp, QwenUp, RuntimeUp, UpSteps,
         DownSteps

\* A command begins: its report is not made yet, and down has all to stop.
LEMMA DepBeginKeeps ==
  ASSUME NEW cmd \in {"up", "down"}, DepInv,
         \/ StartCommand(cmd)
  PROVE  DepInv'
<1> USE NextToStop, DownBegins DEF DepInv, DepTypeOK, DeployedSoFar, StoppedSoFar, ListedBeforeOff,
   SecretRemoved, NothingLeftRunning, OffWhenListed, AppOn, MachineUp, GraniteUp, QwenUp,
   RuntimeUp, UpSteps, DownSteps, depWorld, DepFault
<1>1. CASE StartCommand(cmd)
  BY <1>1 DEF StartCommand
<1> QED
  BY <1>1

\* A step of up that deploys no application leads to the next one or into down.
LEMMA DepUpKeeps ==
  ASSUME NEW ok \in BOOLEAN, DepInv,
         \/ Preflight(ok)
         \/ RenewCertificate(ok)
         \/ RenewKey(ok)
         \/ ComposeUp(ok)
         \/ ConfigureFunnel("rest", "grpc", ok)
         \/ ConfigureFunnel("grpc", "funnel_status", ok)
         \/ VerifyWeaviate(ok)
         \/ PublishSecret(ok)
         \/ CheckCertificate
         \/ FunnelStatus
         \/ WriteSecret
  PROVE  DepInv'
<1> USE NextToStop, DownBegins DEF DepInv, DepTypeOK, DeployedSoFar, StoppedSoFar, ListedBeforeOff,
   SecretRemoved, NothingLeftRunning, OffWhenListed, AppOn, MachineUp, GraniteUp, QwenUp,
   RuntimeUp, UpSteps, DownSteps, depWorld, DepFault
<1>1. CASE Preflight(ok)
  BY <1>1 DEF Preflight, HostedStep
<1>2. CASE RenewCertificate(ok)
  BY <1>2 DEF RenewCertificate, UpStep
<1>3. CASE RenewKey(ok)
  BY <1>3 DEF RenewKey, UpStep
<1>4. CASE ComposeUp(ok)
  BY <1>4 DEF ComposeUp, UpStep
<1>5. CASE ConfigureFunnel("rest", "grpc", ok)
  BY <1>5 DEF ConfigureFunnel, UpStep, Funnels
<1>6. CASE ConfigureFunnel("grpc", "funnel_status", ok)
  BY <1>6 DEF ConfigureFunnel, UpStep, Funnels
<1>7. CASE VerifyWeaviate(ok)
  BY <1>7 DEF VerifyWeaviate, UpStep
<1>8. CASE PublishSecret(ok)
  BY <1>8 DEF PublishSecret, HostedStep
<1>9. CASE CheckCertificate
  BY <1>9 DEF CheckCertificate, UpStep
<1>10. CASE FunnelStatus
  BY <1>10 DEF FunnelStatus
<1>11. CASE WriteSecret
  BY <1>11 DEF WriteSecret, UpStep
<1> QED
  BY <1>1, <1>2, <1>3, <1>4, <1>5, <1>6, <1>7, <1>8, <1>9, <1>10, <1>11

\* An application is deployed and validated before the next one, and reported with all.
LEMMA DeployKeeps ==
  ASSUME NEW app \in Apps, NEW ok \in BOOLEAN, DepInv,
         \/ Deploy(app, ok)
         \/ ValidateGranite(ok)
         \/ ValidateQwen(ok)
         \/ ValidateRuntime(ok)
         \/ WriteState
  PROVE  DepInv'
<1> USE NextToStop, DownBegins DEF DepInv, DepTypeOK, DeployedSoFar, StoppedSoFar, ListedBeforeOff,
   SecretRemoved, NothingLeftRunning, OffWhenListed, AppOn, MachineUp, GraniteUp, QwenUp,
   RuntimeUp, UpSteps, DownSteps, depWorld, DepFault
<1>1. CASE Deploy(app, ok)
  BY <1>1 DEF Deploy, HostedStep, Apps
<1>2. CASE ValidateGranite(ok)
  BY <1>2 DEF ValidateGranite, Healthy, UpStep
<1>3. CASE ValidateQwen(ok)
  BY <1>3 DEF ValidateQwen, Healthy, UpStep
<1>4. CASE ValidateRuntime(ok)
  BY <1>4 DEF ValidateRuntime, Healthy, HostedStep
<1>5. CASE WriteState
  BY <1>5 DEF WriteState, Apps
<1> QED
  BY <1>1, <1>2, <1>3, <1>4, <1>5

\* A step of down: what it could not stop is excused, and its end is what it listed.
LEMMA DownKeeps ==
  ASSUME NEW ok \in BOOLEAN, NEW funnel \in Funnels, DepInv,
         \/ StopApp(ok)
         \/ DisableFunnel(funnel, ok)
         \/ ComposeDown(ok)
         \/ StopRefused
         \/ AppsStopped
         \/ RemoveState
         \/ ContainersGone
         \/ ListingFails
         \/ WaitTimesOut
         \/ InspectVolume
  PROVE  DepInv'
<1> USE NextToStop, DownBegins DEF DepInv, DepTypeOK, DeployedSoFar, StoppedSoFar, ListedBeforeOff,
   SecretRemoved, NothingLeftRunning, OffWhenListed, AppOn, MachineUp, GraniteUp, QwenUp,
   RuntimeUp, UpSteps, DownSteps, depWorld, DepFault
<1>1. CASE StopApp(ok)
  BY <1>1 DEF StopApp
<1>2. CASE DisableFunnel(funnel, ok)
  BY <1>2 DEF DisableFunnel, DownStep, Funnels
<1>3. CASE ComposeDown(ok)
  BY <1>3 DEF ComposeDown, DownStep
<1>4. CASE StopRefused
  BY <1>4 DEF StopRefused, EndDown
<1>5. CASE AppsStopped
  BY <1>5 DEF AppsStopped, DownStep
<1>6. CASE RemoveState
  BY <1>6 DEF RemoveState, DownStep
<1>7. CASE ContainersGone
  BY <1>7 DEF ContainersGone, DownStep
<1>8. CASE ListingFails
  BY <1>8 DEF ListingFails, DownStep
<1>9. CASE WaitTimesOut
  BY <1>9 DEF WaitTimesOut, EndDown
<1>10. CASE InspectVolume
  BY <1>10 DEF InspectVolume, EndDown
<1> QED
  BY <1>1, <1>2, <1>3, <1>4, <1>5, <1>6, <1>7, <1>8, <1>9, <1>10

\* A container starts serving, fails or exits, the account changes, the command is killed.
LEMMA AroundKeeps ==
  ASSUME NEW app \in Apps, DepInv,
         \/ ContainerServes(app)
         \/ ContainerExits(app)
         \/ ContainerFails(app)
         \/ TargetChanges
         \/ DepKilled
         \/ UNCHANGED depVars
  PROVE  DepInv'
<1> USE NextToStop, DownBegins DEF DepInv, DepTypeOK, DeployedSoFar, StoppedSoFar, ListedBeforeOff,
   SecretRemoved, NothingLeftRunning, OffWhenListed, AppOn, MachineUp, GraniteUp, QwenUp,
   RuntimeUp, UpSteps, DownSteps, depWorld, DepFault
<1>1. CASE ContainerServes(app)
  BY <1>1 DEF ContainerServes, Apps
<1>2. CASE ContainerExits(app)
  BY <1>2 DEF ContainerExits, Apps
<1>3. CASE ContainerFails(app)
  BY <1>3 DEF ContainerFails, Apps
<1>4. CASE TargetChanges
  BY <1>4 DEF TargetChanges
<1>5. CASE DepKilled
  BY <1>5 DEF DepKilled
<1>6. CASE UNCHANGED depVars
  BY <1>6 DEF depVars
<1> QED
  BY <1>1, <1>2, <1>3, <1>4, <1>5, <1>6

\* Each step of the two commands, and of the platform, keeps the invariant.
LEMMA DepKeeps == DepInv /\ [DepNext]_depVars => DepInv'
<1> SUFFICES ASSUME DepInv, [DepNext]_depVars PROVE DepInv'
  OBVIOUS
<1>1. CASE DepStep
  <2>1. ASSUME NEW ok \in BOOLEAN, NEW app \in Apps, Deploy(app, ok) PROVE DepInv'
    BY <2>1, DeployKeeps
  <2>2. ASSUME NEW ok \in BOOLEAN, NEW funnel \in Funnels, DisableFunnel(funnel, ok)
        PROVE  DepInv'
    BY <2>2, DownKeeps
  <2>3. ASSUME NEW ok \in BOOLEAN, ValidateGranite(ok) \/ ValidateQwen(ok) \/ ValidateRuntime(ok)
        PROVE  DepInv'
    BY <2>3, DeployKeeps DEF Apps
  <2>4. ASSUME NEW ok \in BOOLEAN, StopApp(ok) \/ ComposeDown(ok) PROVE DepInv'
    BY <2>4, DownKeeps DEF Funnels
  <2>5. ASSUME NEW ok \in BOOLEAN,
               \/ Preflight(ok) \/ RenewCertificate(ok) \/ RenewKey(ok) \/ ComposeUp(ok)
               \/ ConfigureFunnel("rest", "grpc", ok) \/ ConfigureFunnel("grpc", "funnel_status", ok)
               \/ VerifyWeaviate(ok) \/ PublishSecret(ok)
        PROVE  DepInv'
    BY <2>5, DepUpKeeps
  <2>6. CASE CheckCertificate \/ FunnelStatus \/ WriteSecret
    BY <2>6, DepUpKeeps
  <2>7. CASE WriteState
    BY <2>7, DeployKeeps DEF Apps
  <2>8. CASE StopRefused \/ AppsStopped \/ RemoveState \/ ContainersGone \/ ListingFails
             \/ WaitTimesOut \/ InspectVolume
    BY <2>8, DownKeeps DEF Funnels
  <2> QED
    BY <1>1, <2>1, <2>2, <2>3, <2>4, <2>5, <2>6, <2>7, <2>8 DEF DepStep
<1>2. ASSUME NEW cmd \in {"up", "down"}, StartCommand(cmd) PROVE DepInv'
  BY <1>2, DepBeginKeeps
<1>3. ASSUME NEW app \in Apps, ContainerServes(app) \/ ContainerExits(app) \/ ContainerFails(app)
      PROVE  DepInv'
  BY <1>3, AroundKeeps
<1>4. CASE TargetChanges \/ DepKilled \/ UNCHANGED depVars
  BY <1>4, AroundKeeps DEF Apps
<1> QED
  BY <1>1, <1>2, <1>3, <1>4 DEF DepNext, Containers

\* What up's ready and down's off mean when they are reported.
LEMMA DeploymentTrue == DepInv => ReadyMeansDeployed /\ OffWhenListed
BY DEF DepInv, DeployedSoFar, ListedBeforeOff, ReadyMeansDeployed, Apps

---------------------------------------------------------------------------
(* The scoring of one record *)

Outcomes == [DOMAIN MetricPlans -> {"skipped", "failed", "succeeded"}]
RunRecords ==
    [at : {"load", "setup", "score", "conclude", "check", "write", "link", "unlink", "ended"},
     needs : {{"mandatory"}, {"mandatory", "reference"}, {"mandatory", "reference", "noise"}},
     outcomes : Outcomes \cup {<<>>}, setup : BOOLEAN,
     status : {"none", "failed", "partial", "succeeded"}, exit : {-1, 0, 1, 2, 9, 130}]

\* The status of a run is that of its outcomes, each applicable metric with its own.
Scored(run) ==
    /\ run.outcomes \in Outcomes
    /\ \A n \in DOMAIN MetricPlans : ~Skipped(run, MetricPlans[n]) => run.outcomes[n] # "skipped"
Concluded(run) ==
    /\ Scored(run)
    /\ run.status = OutcomeStatus(run)

\* Where a run has concluded, and what its exit code says.
RunSound(run) ==
    /\ run.at = "conclude" => Scored(run)
    /\ run.at \in {"check", "write", "link", "unlink"} => Concluded(run)
    /\ run.exit \in {0, 1} => run.at = "ended" /\ Concluded(run)
    /\ run.exit = 0 => run.status = "succeeded"
    /\ run.exit = 9 => run.at = "ended"

\* The file is of the run that made it, and says what this one scored; a run that goes
\* on from its link, or reports that it wrote, has made it.
WroteIt(s, run) == run.at = "unlink" \/ run.exit \in {0, 1} =>
    resultFile # NoResult /\ resultFile = [author |-> s, status |-> run.status]
MadeFile(run) == run.at \in {"unlink", "ended"} /\ Concluded(run) /\ run.status = resultFile.status

ScoreInv ==
    /\ scoring \in [Scorers -> RunRecords]
    /\ \A s \in Scorers : RunSound(scoring[s]) /\ WroteIt(s, scoring[s])
    /\ resultFile # NoResult => resultFile.author \in Scorers /\ MadeFile(scoring[resultFile.author])
    /\ resultTemps \subseteq Scorers /\ TemporaryRemoved

\* No run has begun.
LEMMA ScoreStarts == ScoreInit => ScoreInv
<1> SUFFICES ASSUME ScoreInit PROVE ScoreInv
  OBVIOUS
<1>1. PICK needs \in {{"mandatory"}, {"mandatory", "reference"}, {"mandatory", "reference", "noise"}} :
        scoring = [s \in Scorers |-> [at |-> "load", needs |-> needs, outcomes |-> <<>>,
                                      setup |-> FALSE, status |-> "none", exit |-> -1]]
  BY DEF ScoreInit
<1>2. scoring \in [Scorers -> RunRecords]
  BY <1>1 DEF RunRecords
<1>3. \A s \in Scorers : RunSound(scoring[s]) /\ WroteIt(s, scoring[s])
  BY <1>1 DEF RunSound, WroteIt
<1> QED
  BY <1>2, <1>3 DEF ScoreInit, ScoreInv, TemporaryRemoved

\* A run that goes on, or ends, leaves the file alone and knows whether it is its own.
LEMMA RunGoesOn ==
  ASSUME ScoreInv, NEW s \in Scorers, NEW run \in RunRecords, ScoreTo(s, run), RunSound(run),
         UNCHANGED resultFile, WroteIt(s, run),
         resultFile # NoResult /\ resultFile.author = s => MadeFile(run),
         resultTemps' \subseteq resultTemps \cup {s},
         s \in resultTemps' => run.at \in {"link", "unlink"} \/ run.exit = 9
  PROVE  ScoreInv'
<1> USE DEF ScoreInv
<1>1. scoring' \in [Scorers -> RunRecords] /\ scoring'[s] = run
      /\ \A t \in Scorers \ {s} : scoring'[t] = scoring[t]
  BY DEF ScoreTo
<1>2. \A t \in Scorers : (RunSound(scoring[t]) /\ WroteIt(t, scoring[t]))'
  BY <1>1 DEF WroteIt
<1>3. resultFile' # NoResult => resultFile'.author \in Scorers /\ MadeFile(scoring[resultFile.author])'
  BY <1>1 DEF MadeFile
<1>4. resultTemps' \subseteq Scorers /\ TemporaryRemoved'
  BY <1>1 DEF TemporaryRemoved
<1> QED
  BY <1>1, <1>2, <1>3, <1>4

\* So it is when a run ends: what it scored stays only with its file.
LEMMA RunEnds ==
  ASSUME ScoreInv, NEW s \in Scorers, NEW code \in {2, 9, 130}, ScoreExit(s, code),
         ~Scoring(s, "ended"), UNCHANGED resultFile, resultTemps' \subseteq resultTemps,
         s \in resultTemps' => code = 9
  PROVE  ScoreInv'
<1>1. scoring[s] \in RunRecords /\ RunSound(scoring[s]) /\ WroteIt(s, scoring[s])
  BY DEF ScoreInv
<1>2. PICK run : /\ ScoreTo(s, run) /\ run \in RunRecords /\ run.at = "ended" /\ run.exit = code
                 /\ resultFile.author = s => run.outcomes = scoring[s].outcomes /\ run.needs = scoring[s].needs
                       /\ run.setup = scoring[s].setup /\ run.status = scoring[s].status
  <2>1. CASE resultFile.author = s
    <3> DEFINE run == [scoring[s] EXCEPT !.at = "ended", !.exit = code]
    <3>1. ScoreTo(s, run)
      BY <2>1 DEF ScoreExit
    <3>2. /\ run \in RunRecords /\ run.at = "ended" /\ run.exit = code
          /\ run.outcomes = scoring[s].outcomes /\ run.needs = scoring[s].needs
          /\ run.setup = scoring[s].setup /\ run.status = scoring[s].status
      BY <1>1 DEF RunRecords
    <3> HIDE DEF run
    <3> QED
      BY <3>1, <3>2
  <2>2. CASE resultFile.author # s
    <3>1. PICK none \in Outcomes \cup {<<>>} : none = <<>>
      OBVIOUS
    <3> DEFINE run == [scoring[s] EXCEPT !.at = "ended", !.exit = code, !.outcomes = none,
                                         !.setup = FALSE, !.status = "none"]
    <3>2. ScoreTo(s, run)
      BY <2>2, <3>1 DEF ScoreExit
    <3>3. run \in RunRecords
      BY <1>1, ZenonT(40) DEF RunRecords
    <3>4. run.at = "ended" /\ run.exit = code
      BY <1>1, SMTT(30) DEF RunRecords
    <3> HIDE DEF run
    <3> QED
      BY <2>2, <3>2, <3>3, <3>4
  <2> QED
    BY <2>1, <2>2
<1>3. RunSound(run) /\ WroteIt(s, run)
  BY <1>2 DEF RunSound, WroteIt
<1>4. resultFile # NoResult /\ resultFile.author = s => MadeFile(run)
  BY <1>2 DEF ScoreInv, MadeFile, Concluded, Scored, OutcomeStatus, Skipped
<1> QED
  BY <1>2, <1>3, <1>4, RunGoesOn

\* A run goes on from a place before its link, where no file is its own.
LEMMA StepsOn ==
  ASSUME ScoreInv, NEW s \in Scorers, NEW run \in RunRecords, ScoreTo(s, run), RunSound(run),
         scoring[s].at \notin {"unlink", "ended"}, run.at \notin {"unlink", "ended"}, 
         UNCHANGED resultFile, resultTemps' \subseteq resultTemps \cup {s},
         s \in resultTemps' => run.at = "link"
  PROVE  ScoreInv'
<1>1. WroteIt(s, run)
  BY DEF WroteIt, RunSound
<1>2. resultFile # NoResult => resultFile.author # s
  BY DEF ScoreInv, MadeFile
<1> QED
  BY <1>1, <1>2, RunGoesOn

\* The temporary file is there only while it is linked, or after a kill.
LEMMA NoTemporary ==
  ScoreInv => \A s \in Scorers : scoring[s].at \notin {"link", "unlink", "ended"} => s \notin resultTemps
BY DEF ScoreInv, TemporaryRemoved, RunSound

\* One run takes a step.
LEMMA RunKeeps ==
  ASSUME ScoreInv, NEW s \in Scorers,
         \/ LoadRecord(s) \/ SetUpBackend(s) \/ ScoreMetrics(s) \/ Conclude(s) \/ CheckOutput(s)
         \/ WriteTemporary(s) \/ ScoreInterrupted(s) \/ ScoreKilled(s)
  PROVE  ScoreInv'
<1>1. scoring[s] \in RunRecords /\ RunSound(scoring[s])
  BY DEF ScoreInv
<1> USE DEF Scoring, OutputKept, RunRecords
<1>2. CASE LoadRecord(s)
  <2>1. CASE ScoreTo(s, [scoring[s] EXCEPT !.at = "setup"])
    BY <1>1, <1>2, <2>1, StepsOn, NoTemporary DEF LoadRecord, RunSound
  <2> QED
    BY <1>2, <2>1, RunEnds, NoTemporary DEF LoadRecord
<1>3. CASE SetUpBackend(s)
  <2> DEFINE scored == [n \in DOMAIN MetricPlans |->
                       IF Skipped(scoring[s], MetricPlans[n]) THEN "skipped" ELSE "failed"]
             run == [scoring[s] EXCEPT !.at = "conclude", !.setup = TRUE, !.outcomes = scored]
  <2>1. CASE ScoreTo(s, [scoring[s] EXCEPT !.at = "score"])
    BY <1>1, <1>3, <2>1, StepsOn, NoTemporary DEF SetUpBackend, RunSound
  <2>2. scored \in Outcomes /\ \A n \in DOMAIN MetricPlans :
           ~Skipped(scoring[s], MetricPlans[n]) => scored[n] # "skipped"
    BY DEF Outcomes
  <2>3. CASE ScoreTo(s, run)
    <3> HIDE DEF scored
    <3>1. run \in RunRecords /\ run.at = "conclude" /\ run.exit = scoring[s].exit
          /\ run.outcomes = scored /\ run.needs = scoring[s].needs
      BY <1>1, <2>2
    <3>2. RunSound(run)
      <4> HIDE DEF run
      <4> QED
        BY <1>1, <1>3, <2>2, <3>1 DEF SetUpBackend, RunSound, Scored, Skipped
    <3> HIDE DEF run
    <3> QED
      BY <1>3, <2>3, <3>1, <3>2, StepsOn, NoTemporary DEF SetUpBackend
  <2> QED
    BY <1>3, <2>1, <2>3 DEF SetUpBackend
<1>4. CASE ScoreMetrics(s)
  <2> DEFINE applicable == {n \in DOMAIN MetricPlans : ~Skipped(scoring[s], MetricPlans[n])}
  <2>1. PICK failed \in SUBSET applicable :
          ScoreTo(s, [scoring[s] EXCEPT !.at = "conclude", !.outcomes =
                         [n \in DOMAIN MetricPlans |->
                             IF n \notin applicable THEN "skipped"
                             ELSE IF n \in failed THEN "failed" ELSE "succeeded"]])
    BY <1>4 DEF ScoreMetrics
  <2> DEFINE scored == [n \in DOMAIN MetricPlans |->
                           IF n \notin applicable THEN "skipped"
                           ELSE IF n \in failed THEN "failed" ELSE "succeeded"]
             run == [scoring[s] EXCEPT !.at = "conclude", !.outcomes = scored]
  <2>2. scored \in Outcomes /\ \A n \in DOMAIN MetricPlans :
           ~Skipped(scoring[s], MetricPlans[n]) => scored[n] # "skipped"
    BY DEF Outcomes
  <2>3. ScoreTo(s, run)
    BY <2>1
  <2> HIDE DEF scored, applicable
  <2>4. run \in RunRecords /\ run.at = "conclude" /\ run.exit = scoring[s].exit
        /\ run.outcomes = scored /\ run.needs = scoring[s].needs
    BY <1>1, <2>2
  <2> HIDE DEF run
  <2>5. scoring[s].at = "score"
    BY <1>4 DEF ScoreMetrics
  <2>6. RunSound(run)
    BY <1>1, <2>2, <2>4, <2>5 DEF RunSound, Scored, Skipped
  <2> QED
    BY <1>4, <2>6, <2>3, <2>4, <2>5, StepsOn, NoTemporary DEF ScoreMetrics
<1>5. CASE Conclude(s)
  <2>1. PICK setup \in BOOLEAN :
          LET old == [scoring[s] EXCEPT !.setup = setup]
          IN ScoreTo(s, [old EXCEPT !.at = "check", !.status = OutcomeStatus(old)])
    <3>1. [scoring[s] EXCEPT !.setup = scoring[s].setup] = scoring[s]
      BY <1>1
    <3>2. scoring[s].setup \in BOOLEAN
      BY <1>1
    <3> QED
      BY <1>5, <3>1, <3>2 DEF Conclude
  <2> DEFINE old == [scoring[s] EXCEPT !.setup = setup]
             run == [old EXCEPT !.at = "check", !.status = OutcomeStatus(old)]
  <2>2. /\ old \in RunRecords /\ old.outcomes = scoring[s].outcomes /\ old.needs = scoring[s].needs
        /\ old.exit = scoring[s].exit
    BY <1>1
  <2>3. OutcomeStatus(old) \in {"failed", "partial", "succeeded"}
    BY DEF OutcomeStatus
  <2> HIDE DEF old
  <2>4. /\ run \in RunRecords /\ run.outcomes = old.outcomes /\ run.needs = old.needs
        /\ run.setup = old.setup /\ run.exit = old.exit /\ run.at = "check"
        /\ run.status = OutcomeStatus(old)
    BY <2>2, <2>3
  <2>5. ScoreTo(s, run)
    BY <2>1 DEF old
  <2> HIDE DEF run
  <2>6. OutcomeStatus(run) = OutcomeStatus(old)
    BY <2>4 DEF OutcomeStatus
  <2>7. RunSound(run)
    BY <1>1, <1>5, <2>2, <2>4, <2>6 DEF Conclude, RunSound, Concluded, Scored, Skipped
  <2> QED
    BY <1>5, <2>4, <2>5, <2>7, StepsOn, NoTemporary DEF Conclude
<1>6. CASE CheckOutput(s)
  <2>1. CASE ScoreTo(s, [scoring[s] EXCEPT !.at = "write"])
    BY <1>1, <1>6, <2>1, StepsOn, NoTemporary
       DEF CheckOutput, RunSound, Concluded, Scored, Skipped, OutcomeStatus
  <2> QED
    BY <1>6, <2>1, RunEnds, NoTemporary DEF CheckOutput
<1>7. CASE WriteTemporary(s)
  <2>1. CASE ScoreTo(s, [scoring[s] EXCEPT !.at = "link"]) /\ resultTemps' = resultTemps \cup {s}
    BY <1>1, <1>7, <2>1, StepsOn
       DEF WriteTemporary, RunSound, Concluded, Scored, Skipped, OutcomeStatus
  <2> QED
    BY <1>7, <2>1, RunEnds, NoTemporary DEF WriteTemporary
<1>8. CASE ScoreInterrupted(s)
  BY <1>8, RunEnds, NoTemporary DEF ScoreInterrupted
<1>9. CASE ScoreKilled(s)
  BY <1>9, RunEnds DEF ScoreKilled
<1> QED
  BY <1>2, <1>3, <1>4, <1>5, <1>6, <1>7, <1>8, <1>9

\* A run links its result where there is no file: that is its own from then on.
LEMMA LinkKeeps ==
  ASSUME ScoreInv, NEW s \in Scorers, LinkResult(s)
  PROVE  ScoreInv'
<1>1. scoring[s] \in RunRecords /\ RunSound(scoring[s]) /\ scoring[s].at = "link"
  BY DEF ScoreInv, LinkResult, Scoring
<1>2. CASE resultFile = NoResult
  <2> DEFINE run == [scoring[s] EXCEPT !.at = "unlink"]
  <2>1. /\ run \in RunRecords /\ run.at = "unlink" /\ run.exit = scoring[s].exit
        /\ run.outcomes = scoring[s].outcomes /\ run.needs = scoring[s].needs
        /\ run.setup = scoring[s].setup /\ run.status = scoring[s].status
    BY <1>1 DEF RunRecords
  <2>2. /\ scoring' = [scoring EXCEPT ![s] = run] /\ resultTemps' = resultTemps
        /\ resultFile' = [author |-> s, status |-> run.status]
    BY <1>2, <2>1 DEF LinkResult, ScoreTo
  <2> HIDE DEF run
  <2>3. RunSound(run) /\ Concluded(run)
    BY <1>1, <2>1 DEF RunSound, Concluded, Scored, Skipped, OutcomeStatus
  <2>4. scoring' \in [Scorers -> RunRecords] /\ scoring'[s] = run
        /\ \A t \in Scorers \ {s} : scoring'[t] = scoring[t]
    BY <2>1, <2>2 DEF ScoreInv
  <2>5. resultFile' # NoResult
    BY <2>2, <2>3 DEF Concluded, OutcomeStatus, NoResult
  <2>6. \A t \in Scorers : (RunSound(scoring[t]) /\ WroteIt(t, scoring[t]))'
    BY <1>2, <2>1, <2>2, <2>3, <2>4, <2>5 DEF ScoreInv, WroteIt
  <2>7. resultFile'.author \in Scorers /\ MadeFile(scoring[resultFile.author])'
    BY <2>1, <2>2, <2>3, <2>4 DEF MadeFile
  <2>8. resultTemps' \subseteq Scorers /\ TemporaryRemoved'
    BY <2>1, <2>2, <2>4 DEF ScoreInv, TemporaryRemoved
  <2> QED
    BY <2>4, <2>6, <2>7, <2>8 DEF ScoreInv
<1>3. CASE resultFile # NoResult
  BY <1>1, <1>3, RunEnds DEF LinkResult, Scoring
<1> QED
  BY <1>2, <1>3

\* The exit code of a run that linked its result is its status.
LEMMA UnlinkKeeps ==
  ASSUME ScoreInv, NEW s \in Scorers, UnlinkTemporary(s)
  PROVE  ScoreInv'
<1>1. /\ scoring[s] \in RunRecords /\ RunSound(scoring[s]) /\ scoring[s].at = "unlink"
      /\ Concluded(scoring[s]) /\ resultFile # NoResult
      /\ resultFile = [author |-> s, status |-> scoring[s].status]
  BY DEF ScoreInv, UnlinkTemporary, Scoring, RunSound, WroteIt
<1>2. resultTemps' = resultTemps \ {s} /\ UNCHANGED resultFile
  BY DEF UnlinkTemporary
<1>3. CASE ScoreExit(s, 2)
  BY <1>1, <1>2, <1>3, RunEnds DEF Scoring
<1>4. CASE ScoreExit(s, IF scoring[s].setup THEN 2
                       ELSE IF scoring[s].status = "succeeded" THEN 0 ELSE 1)
  <2>1. PICK code \in {0, 1, 2} : /\ ScoreTo(s, [scoring[s] EXCEPT !.at = "ended", !.exit = code])
                                  /\ code = 0 => scoring[s].status = "succeeded"
    <3> DEFINE code == IF scoring[s].setup THEN 2 ELSE IF scoring[s].status = "succeeded" THEN 0 ELSE 1
    <3>1. code \in {0, 1, 2} /\ (code = 0 => scoring[s].status = "succeeded")
      OBVIOUS
    <3>2. ScoreTo(s, [scoring[s] EXCEPT !.at = "ended", !.exit = code])
      BY <1>1, <1>4 DEF ScoreExit
    <3> HIDE DEF code
    <3> QED
      BY <3>1, <3>2
  <2> DEFINE run == [scoring[s] EXCEPT !.at = "ended", !.exit = code]
  <2>2. /\ run \in RunRecords /\ run.at = "ended" /\ run.exit = code
        /\ run.outcomes = scoring[s].outcomes /\ run.needs = scoring[s].needs
        /\ run.setup = scoring[s].setup /\ run.status = scoring[s].status
    BY <1>1 DEF RunRecords
  <2> HIDE DEF run
  <2>3. Concluded(run)
    BY <1>1, <2>2 DEF Concluded, Scored, Skipped, OutcomeStatus
  <2>4. RunSound(run) /\ WroteIt(s, run) /\ MadeFile(run)
    BY <1>1, <2>1, <2>2, <2>3 DEF RunSound, WroteIt, MadeFile
  <2> QED
    BY <1>2, <2>1, <2>2, <2>4, RunGoesOn DEF run
<1> QED
  BY <1>3, <1>4 DEF UnlinkTemporary

\* Every step of the runs keeps the invariant.
LEMMA ScoreKeeps == ScoreInv /\ [ScoreNext]_scoreVars => ScoreInv'
<1> SUFFICES ASSUME ScoreInv, [ScoreNext]_scoreVars PROVE ScoreInv'
  OBVIOUS
<1>1. CASE UNCHANGED scoreVars
  BY <1>1 DEF scoreVars, ScoreInv, WroteIt, MadeFile, TemporaryRemoved
<1>2. CASE ScoreNext
  BY <1>2, RunKeeps, LinkKeeps, UnlinkKeeps DEF ScoreNext, ScoreStep
<1> QED
  BY <1>1, <1>2

\* A file, and an exit code, say what the metrics did.
LEMMA ResultTrue == ScoreInv => ResultIsTheScores
<1> SUFFICES ASSUME ScoreInv PROVE ResultIsTheScores
  OBVIOUS
<1>1. \A s \in Scorers : scoring[s] \in RunRecords /\ RunSound(scoring[s]) /\ WroteIt(s, scoring[s])
  BY DEF ScoreInv
<1>2. ASSUME NEW run \in RunRecords, Concluded(run)
      PROVE  /\ run.status = "succeeded" => ToSet(run.outcomes) \subseteq {"succeeded", "skipped"}
             /\ run.status = "partial" => {"succeeded", "failed"} \subseteq ToSet(run.outcomes)
             /\ run.status = "succeeded" => \A n \in DOMAIN MetricPlans :
                    MetricPlans[n] = "mandatory" => run.outcomes[n] = "succeeded"
  <2>1. ToSet(run.outcomes) = {run.outcomes[n] : n \in DOMAIN MetricPlans}
        /\ \A n \in DOMAIN MetricPlans : run.outcomes[n] \in {"skipped", "failed", "succeeded"}
    BY <1>2 DEF Concluded, Scored, Outcomes, ToSet
  <2>2. "mandatory" \in run.needs
    BY DEF RunRecords
  <2> QED
    BY <1>2, <2>1, <2>2 DEF Concluded, Scored, OutcomeStatus, Skipped
<1>3. resultFile # NoResult =>
         LET scores == ToSet(scoring[resultFile.author].outcomes)
         IN /\ resultFile.status = "succeeded" => scores \subseteq {"succeeded", "skipped"}
            /\ resultFile.status = "partial" => {"succeeded", "failed"} \subseteq scores
  BY <1>1, <1>2 DEF ScoreInv, MadeFile
<1>4. ASSUME NEW s \in Scorers
      PROVE  /\ scoring[s].exit \in {0, 1} =>
                  resultFile = [author |-> s, status |-> scoring[s].status]
             /\ scoring[s].exit = 0 =>
                  \A n \in DOMAIN MetricPlans :
                      MetricPlans[n] = "mandatory" => scoring[s].outcomes[n] = "succeeded"
  BY <1>1, <1>2 DEF RunSound, WroteIt
<1> QED
  BY <1>3, <1>4 DEF ResultIsTheScores

---------------------------------------------------------------------------
(* The non-regression gate *)

GatePlaces == {"down", "up", "instance", "ask", "valid", "drain", "failing", "finally", "reserve",
               "base", "base_stream", "base_evaluation", "watch", "compared", "compared_stream",
               "compared_evaluation", "judge", "accepted", "start", "ended"}
PcRecords == [run : {"functional", "crossover", "contention"}, at : GatePlaces, block : Nat,
              ordinal : Nat, instance : Nat]
RuntimeRecords == [on : BOOLEAN, evidence : BOOLEAN, instance : Nat]
GateTypeOK ==
    /\ gateRuntime \in RuntimeRecords /\ gatePc \in PcRecords
    /\ gateVerdict \in [crossover : {"none", "passed", "failed"}, contention : {"none", "passed", "failed"},
                        result : {"none", "passed", "failed", "refused", "killed"}]

\* The performance run is of the configuration that passed the functional one, and no
\* result is given before the end.
SameConfig ==
    /\ gatePc.run # "functional" /\ gatePc.at \notin {"start", "ended"} => gateEvidence = gateConfig
    /\ gatePc.at # "ended" => gateVerdict.result = "none"
    /\ PassedMeansCompared

\* A donor is under way only beside its pair, or while it is waited for.
DonorKnown ==
    gatePc.at \notin {"watch", "compared", "compared_stream", "compared_evaluation", "drain", "ended"}
      => DonorIsGone

\* The runtime is stopped before the samples are judged, and the collector has the lock
\* during the request beside no evaluation.
StoppedBefore == gatePc.at \in {"judge", "accepted", "start"} => ~gateRuntime.on
LockKnown == gateLock = "collector" => gatePc.at \in {"base", "base_stream"}

GateInv == GateTypeOK /\ SameConfig /\ DonorKnown /\ StoppedBefore /\ LockKnown /\ GateCleanedUp

\* Nothing has been started.
LEMMA GateStarts == GateInit => GateInv
BY DEF GateInit, GateInv, GateTypeOK, PcRecords, RuntimeRecords, GatePlaces, SameConfig, PassedMeansCompared, DonorKnown, DonorIsGone,
       StoppedBefore, LockKnown, GateCleanedUp

\* The collector starts a runtime, asks it and stops it; what fails is drained first.
LEMMA CollectKeeps ==
  ASSUME GateInv,
         \/ StopFirst
         \/ StartRuntime
         \/ ReadInstance
         \/ AskSample
         \/ ValidateAsk
         \/ Drain
         \/ StopRuntime
  PROVE  GateInv'
<1> USE DEF GateInv, GateTypeOK, PcRecords, RuntimeRecords, GatePlaces, SameConfig,
   PassedMeansCompared, DonorKnown, DonorIsGone, StoppedBefore, LockKnown, GateCleanedUp,
   GateFails, GateGoes, GateTo, GateRaises, GateEnded, GateAt, pairVars, collectorOnly
<1>1. CASE StopFirst
  <2>1. gatePc.at = "down" /\ gateRuntime' \in RuntimeRecords /\ gatePc' \in PcRecords
        /\ gatePc'.run = gatePc.run /\ gatePc'.at \in {"up", "drain"}
    BY <1>1 DEF StopFirst
  <2>2. UNCHANGED <<gateEvidence, gateConfig, pairVars, gateVerdict, gateExcuse>>
    BY <1>1 DEF StopFirst
  <2> QED
    BY <2>1, <2>2
<1>2. CASE StartRuntime
  <2>1. /\ gatePc.at = "up" /\ gatePc'.run = gatePc.run /\ gatePc'.at \in {"ask", "instance", "drain"}
        /\ gatePc' \in PcRecords
    BY <1>2 DEF StartRuntime
  <2>2. gateRuntime' \in RuntimeRecords
    <3>1. WantsEvidence \in BOOLEAN /\ (~WantsEvidence) \in BOOLEAN
      BY DEF WantsEvidence
    <3>2. \A evidence \in BOOLEAN : StartedRuntime(evidence) \in RuntimeRecords
      BY DEF StartedRuntime
    <3> QED
      BY <1>2, <3>1, <3>2 DEF StartRuntime
  <2>3. UNCHANGED <<gateEvidence, gateConfig, pairVars, gateVerdict, gateExcuse>>
    BY <1>2 DEF StartRuntime
  <2> QED
    BY <2>1, <2>2, <2>3
<1>3. CASE ReadInstance
  <2>1. /\ gatePc.at = "instance" /\ gatePc'.run = gatePc.run
        /\ gatePc'.at \in {"valid", "ask", "reserve", "drain"}
        /\ gatePc' \in PcRecords
    BY <1>3 DEF ReadInstance
  <2>2. UNCHANGED <<gateRuntime, gateEvidence, gateConfig, pairVars, gateVerdict, gateExcuse>>
    BY <1>3 DEF ReadInstance
  <2> QED
    BY <2>1, <2>2
<1>4. CASE AskSample
  <2>1. /\ gatePc.at = "ask" /\ gatePc'.run = gatePc.run
        /\ gatePc'.at \in {"instance", "ask", "finally", "drain"}
        /\ gatePc' \in PcRecords
    <3>1. CASE GateRaises \/ GateTo("instance")
      BY <1>4, <3>1 DEF AskSample
    <3>2. CASE gatePc' = IF gatePc.ordinal + 1 < GateWarmups + GatePairs \div 2
                         THEN [gatePc EXCEPT !.ordinal = @ + 1]
                         ELSE [gatePc EXCEPT !.at = "finally"]
      <4>1. PICK next \in Nat : next = gatePc.ordinal + 1
        OBVIOUS
      <4> QED
        BY <1>4, <3>2, <4>1 DEF AskSample
    <3> QED
      BY <1>4, <3>1, <3>2 DEF AskSample
  <2>2. UNCHANGED <<gateRuntime, gateEvidence, gateConfig, pairVars, gateVerdict, gateExcuse>>
    BY <1>4 DEF AskSample
  <2> QED
    BY <2>1, <2>2
<1>5. CASE ValidateAsk
  BY <1>5 DEF ValidateAsk
<1>6. CASE Drain
  BY <1>6 DEF Drain
<1>7. CASE StopRuntime
  <2>1. gatePc.at \in {"finally", "failing"} /\ UNCHANGED <<gateEvidence, gateConfig, pairVars>>
    BY <1>7 DEF StopRuntime
  <2>2. /\ gatePc'.run = gatePc.run /\ gatePc'.at \in {"ended", "down", "judge"}
        /\ gatePc' \in PcRecords
    <3>1. PICK next \in Nat : next = gatePc.block + 1
      OBVIOUS
    <3>2. CASE gatePc' = [gatePc EXCEPT !.at = "down", !.block = @ + 1, !.ordinal = 0]
      <4>1. gatePc' = [gatePc EXCEPT !.at = "down", !.block = next, !.ordinal = 0]
        BY <3>1, <3>2
      <4> QED
        BY <4>1
    <3>3. CASE GateTo("ended") \/ GateTo("judge")
      BY <3>3
    <3> QED
      BY <1>7, <3>2, <3>3 DEF StopRuntime
  <2>3. /\ gateRuntime' \in RuntimeRecords
        /\ gateRuntime'.on => gatePc'.at = "ended" /\ gateExcuse'
    BY <1>7 DEF StopRuntime
  <2>4. \/ gatePc'.at # "ended" /\ gateVerdict' = gateVerdict
        \/ gatePc'.at = "ended" /\ gateVerdict' = [gateVerdict EXCEPT !.result = "refused"]
    BY <1>7 DEF StopRuntime
  <2> QED
    BY <2>1, <2>2, <2>3, <2>4
<1> QED
  BY <1>1, <1>2, <1>3, <1>4, <1>5, <1>6, <1>7

\* A pair: the request beside an idle evaluator, then the one beside the donor's judge.
LEMMA PairKeeps ==
  ASSUME GateInv,
         \/ ReserveIdle
         \/ AskBase
         \/ BaseAnswered
         \/ BaseEvaluated
         \/ WatchDonor
         \/ AskCompared
         \/ ComparedAnswered
         \/ JoinDonor
  PROVE  GateInv'
<1> USE DEF GateInv, GateTypeOK, PcRecords, RuntimeRecords, GatePlaces, SameConfig,
   PassedMeansCompared, DonorKnown, DonorIsGone, StoppedBefore, LockKnown, GateCleanedUp,
   GateFails, GateGoes, GateTo, GateRaises, GateEnded, GateAt, pairVars, collectorOnly
<1>1. CASE ReserveIdle
  BY <1>1 DEF ReserveIdle
<1>2. CASE AskBase
  BY <1>2 DEF AskBase
<1>3. CASE BaseAnswered
  BY <1>3 DEF BaseAnswered
<1>4. CASE BaseEvaluated
  BY <1>4 DEF BaseEvaluated
<1>5. CASE WatchDonor
  BY <1>5 DEF WatchDonor
<1>6. CASE AskCompared
  BY <1>6 DEF AskCompared
<1>7. CASE ComparedAnswered
  BY <1>7 DEF ComparedAnswered
<1>8. CASE JoinDonor
  <2>1. /\ gatePc.at = "compared_evaluation" /\ gatePc'.run = gatePc.run
        /\ gatePc'.at \in {"reserve", "finally", "drain"}
        /\ gatePc' \in PcRecords
    <3>1. CASE GateRaises \/ GateTo("drain")
      BY <1>8, <3>1 DEF JoinDonor
    <3>2. CASE gatePc' = IF gatePc.block < GatePairs
                         THEN [gatePc EXCEPT !.at = "reserve", !.block = @ + 1]
                         ELSE [gatePc EXCEPT !.at = "finally"]
      <4>1. PICK next \in Nat : next = gatePc.block + 1
        OBVIOUS
      <4> QED
        BY <1>8, <3>2, <4>1 DEF JoinDonor
    <3> QED
      BY <1>8, <3>1, <3>2 DEF JoinDonor
  <2>2. UNCHANGED <<gateRuntime, gateEvidence, gateConfig, gateVerdict, gateExcuse, gateLock>>
        /\ gateDonor' = "none"
    BY <1>8 DEF JoinDonor
  <2> QED
    BY <2>1, <2>2
<1> QED
  BY <1>1, <1>2, <1>3, <1>4, <1>5, <1>6, <1>7, <1>8

\* The two runs are judged, and the result is that of both comparisons.
LEMMA VerdictKeeps ==
  ASSUME GateInv,
         \/ FunctionalPasses
         \/ StartPerformance
         \/ ValidateSamples
         \/ ConcludePhase
  PROVE  GateInv'
<1> USE DEF GateInv, GateTypeOK, PcRecords, RuntimeRecords, GatePlaces, SameConfig,
   PassedMeansCompared, DonorKnown, DonorIsGone, StoppedBefore, LockKnown, GateCleanedUp,
   GateFails, GateGoes, GateTo, GateRaises, GateEnded, GateAt, pairVars, collectorOnly
<1>1. CASE FunctionalPasses
  BY <1>1 DEF FunctionalPasses
<1>2. CASE StartPerformance
  BY <1>2 DEF StartPerformance
<1>3. CASE ValidateSamples
  BY <1>3 DEF ValidateSamples
<1>4. CASE ConcludePhase
  <2>1. /\ gatePc.at = "accepted"
        /\ UNCHANGED <<gateRuntime, gateEvidence, gateConfig, pairVars, gateExcuse>>
    BY <1>4 DEF ConcludePhase
  <2>2. gatePc' \in PcRecords
    <3>1. CASE gatePc' = [gatePc EXCEPT !.run = "contention", !.at = "up", !.block = 1]
      BY <3>1
    <3>2. CASE GateTo("ended")
      BY <3>2
    <3> QED
      BY <1>4, <3>1, <3>2 DEF ConcludePhase
  <2>3. \/ gatePc'.at = "up" /\ gatePc.run # "functional" /\ UNCHANGED gateVerdict
        \/ gatePc'.at = "ended" /\ \E result \in {"failed", "refused"} :
              gateVerdict' = [gateVerdict EXCEPT !.result = result]
        \/ /\ gatePc'.at = "ended" /\ gatePc.run # "functional"
           /\ gateVerdict.crossover = "passed" /\ gateVerdict.contention = "passed"
           /\ gateVerdict' = [gateVerdict EXCEPT !.result = "passed"]
    BY <1>4 DEF ConcludePhase
  <2> QED
    BY <2>1, <2>2, <2>3
<1> QED
  BY <1>1, <1>2, <1>3, <1>4

\* The donor and the evaluations go on beside the collector, the runtime is replaced, it is killed.
LEMMA BesideKeeps ==
  ASSUME GateInv,
         \/ DonorStep
         \/ (\E who \in Evaluations : EvaluationStep(who))
         \/ StrangerStarts
         \/ RuntimeRestarts
         \/ GateKilled
         \/ UNCHANGED gateVars
  PROVE  GateInv'
<1> USE DEF GateInv, GateTypeOK, PcRecords, RuntimeRecords, GatePlaces, SameConfig,
   PassedMeansCompared, DonorKnown, DonorIsGone, StoppedBefore, LockKnown, GateCleanedUp,
   GateFails, GateGoes, GateTo, GateRaises, GateEnded, GateAt, pairVars, collectorOnly
<1>1. CASE DonorStep
  BY <1>1 DEF DonorStep
<1>2. CASE \E who \in Evaluations : EvaluationStep(who)
  BY <1>2 DEF EvaluationStep, Evaluations
<1>3. CASE StrangerStarts
  BY <1>3 DEF StrangerStarts
<1>4. CASE RuntimeRestarts
  BY <1>4 DEF RuntimeRestarts
<1>5. CASE GateKilled
  BY <1>5 DEF GateKilled
<1>6. CASE UNCHANGED gateVars
  BY <1>6 DEF gateVars
<1> QED
  BY <1>1, <1>2, <1>3, <1>4, <1>5, <1>6

\* Every step of the gate and beside it keeps the invariant.
LEMMA GateKeeps == GateInv /\ [GateNext]_gateVars => GateInv'
BY CollectKeeps, PairKeeps, VerdictKeeps, BesideKeeps DEF GateNext, GateStep, GateOthers

---------------------------------------------------------------------------
(* The samples of the gate *)

\* A request has no number, and what a judge does is numbered in its evaluation.
JudgeKinds == {"start", "end", "refused", "lost"}
EventRecords == [what : {"reserve", "request", "done"}, who : {"base", "compared"}, n : {0}]
                \cup [what : JudgeKinds, who : Evaluations, n : Nat \ {0}]

\* Whether a judge request of an evaluation is under way at a place of a log.
JudgingIn(events, who, place) ==
    \E i \in 1..place :
        /\ events[i].what = "start" /\ events[i].who = who
        /\ \A j \in (i + 1)..place : ~(events[j].who = who /\ events[j].n = events[i].n)

\* Who judges has the lock.
LockLog(events, lock) ==
    /\ events \in Seq(EventRecords)
    /\ \A who \in Evaluations : JudgingIn(events, who, Len(events)) => lock = who

\* The donor's judge requests: each starts once and ends at most once, later; only the
\* last may be under way.
OfDonor(event) == event.who = "donor" /\ event.n > 0
StartsIn(events, who) == {n \in DOMAIN events : events[n].what = "start" /\ events[n].who = who}
DonorLog(events) ==
    LET requested == Cardinality(StartsIn(events, "donor")) IN
    /\ \A i, j \in DOMAIN events :
          OfDonor(events[i]) /\ OfDonor(events[j]) /\ events[i].n = events[j].n
          /\ (events[i].what = "start" <=> events[j].what = "start") => i = j
    /\ \A i \in DOMAIN events : OfDonor(events[i]) => events[i].n <= requested
    /\ \A i \in DOMAIN events :
          OfDonor(events[i]) /\ events[i].what = "start" /\ events[i].n < requested =>
              \E j \in DOMAIN events : j > i /\ OfDonor(events[j]) /\ events[j].n = events[i].n
    /\ \A j \in DOMAIN events :
          OfDonor(events[j]) /\ events[j].what # "start" =>
              \E i \in DOMAIN events :
                  i < j /\ OfDonor(events[i]) /\ events[i].n = events[j].n /\ events[i].what = "start"

\* The requests of a pair are where the collector is, and nobody judged beside the first.
IsRequest(events, i, what, who) == i \in DOMAIN events /\ events[i] = EventOf(what, who)
OnlyJudges(events, places) == \A i \in places : events[i].n > 0
BaseAsked(events, d) ==
    /\ d - 2 \in Nat
    /\ IsRequest(events, d - 1, "request", "base") /\ IsRequest(events, d, "done", "base")
    /\ OnlyJudges(events, DOMAIN events \ {d - 2, d - 1, d})
    /\ IsRequest(events, d - 2, "reserve", "base")
    /\ \A who \in Evaluations : ~JudgingIn(events, who, d - 1) /\ ~JudgingIn(events, who, d)
PairLog(events, at) ==
    LET length == Len(events) IN
    /\ at \in {"start", "down", "up", "instance", "reserve", "watch", "compared"} =>
          OnlyJudges(events, 1..length)
    /\ at = "base" => /\ IsRequest(events, length, "reserve", "base")
                      /\ OnlyJudges(events, 1..(length - 1))
    /\ at = "base_stream" => /\ IsRequest(events, length - 1, "reserve", "base")
                             /\ IsRequest(events, length, "request", "base")
                             /\ OnlyJudges(events, 1..(length - 2))
    /\ at = "base_evaluation" => \E d \in DOMAIN events : BaseAsked(events, d)
    /\ at \in {"compared_stream", "compared_evaluation"} =>
          \E q \in DOMAIN events : IsRequest(events, q, "request", "compared")
    /\ at = "compared_evaluation" => \E d \in DOMAIN events : IsRequest(events, d, "done", "compared")

\* Nobody evaluates before the requests are compared.
LogInv ==
    /\ gateLock \in Evaluations \cup {"none", "collector"} /\ LockLog(gateEvents, gateLock)
    /\ DonorLog(gateEvents)
    /\ gatePc.at \in {"base", "base_stream"} => gateLock = "collector"
    /\ IF gatePc.run = "contention" THEN PairLog(gateEvents, gatePc.at)
       ELSE /\ gateEvents = <<>> /\ gateLock = "none" /\ gateWaiting = {} /\ gateDonor = "none"
            /\ gatePc.at \notin {"reserve", "base", "base_stream", "base_evaluation", "watch", "compared",
                                "compared_stream", "compared_evaluation"}

\* The samples of the first comparison: blocks that are complete, each on a later runtime.
LastOrdinal == Max({0, GateWarmups + GatePairs \div 2 - 1})
QueryOf(ordinal) == Max({0, ordinal - GateWarmups})
Stopped == {"drain", "failing", "ended"}
CrossoverRow(row) ==
    /\ row.block \in 1..4 /\ row.ordinal \in 0..LastOrdinal /\ row.worker \in Nat
    /\ row.mode = BlockModes[row.block] /\ row.query = QueryOf(row.ordinal)
    /\ row.pair = <<(row.block + 1) \div 2, QueryOf(row.ordinal)>>
Asked(rows, b, ordinal) == \E n \in DOMAIN rows : rows[n].block = b /\ rows[n].ordinal = ordinal
CrossSamples(rows, at, block, ordinal, instance) ==
    /\ block \in 1..4 /\ ordinal \in 0..LastOrdinal /\ instance \in Nat
    /\ at \in {"start", "down", "up", "instance", "ask", "finally", "judge", "accepted"}
    /\ \A n \in DOMAIN rows :
          CrossoverRow(rows[n]) /\ rows[n].block <= block /\ rows[n].worker <= instance
    /\ \A n \in DOMAIN rows :
          at \in {"instance", "ask"} /\ rows[n].block < block => rows[n].worker < instance
    /\ \A n, m \in DOMAIN rows : rows[n].block < rows[m].block => rows[n].worker < rows[m].worker
    /\ \A b \in 1..4 :
          b < block \/ (b = block /\ at \in {"finally", "judge", "accepted"}) =>
              \A asked \in 0..LastOrdinal : Asked(rows, b, asked)
    /\ at = "ask" => \A asked \in 0..(ordinal - 1) : Asked(rows, block, asked)
    /\ at \in {"start", "down", "up", "instance"} => ordinal = 0
    /\ at \in {"judge", "accepted"} => block = 4
    /\ at = "accepted" => \A n \in DOMAIN rows : rows[n].evidence = (rows[n].mode = "on")

\* The samples of the second: of each query one beside a judge and one beside none.
PairPlaces == {"up", "instance", "reserve", "base", "base_stream", "base_evaluation", "watch", "compared",
               "compared_stream", "compared_evaluation", "finally", "judge", "accepted"}
PairRow(row) ==
    /\ row.mode \in {"contended", "uncontended"}
    /\ row.mode = "contended" /\ RequestOverlaps(row) => row.beside
    /\ row.mode = "uncontended" /\ row.idle => row.undisturbed
Sampled(rows, mode, q) == \E n \in DOMAIN rows : rows[n].mode = mode /\ rows[n].query = q
ContentionOf(rows) ==
    \A n \in DOMAIN rows :
        IF rows[n].mode = "contended" THEN RequestOverlaps(rows[n]) ELSE rows[n].idle
PairSamples(rows, at, block) ==
    /\ at \in PairPlaces /\ block \in Nat \ {0}
    /\ \A n \in DOMAIN rows : PairRow(rows[n])
    /\ \A q \in 1..(block - 1) : Sampled(rows, "contended", q) /\ Sampled(rows, "uncontended", q)
    /\ at \in {"watch", "compared", "compared_stream", "compared_evaluation"} =>
          Sampled(rows, "uncontended", block)
    /\ at \in {"finally", "judge", "accepted"} =>
          \A q \in 1..GatePairs : Sampled(rows, "contended", q) /\ Sampled(rows, "uncontended", q)
    /\ at = "accepted" => ContentionOf(rows)

RowsInv ==
    /\ \E S : gateRows \in Seq(S)
    /\ gatePc.run = "functional" =>
          gatePc.at # "accepted" /\ gateRows = <<>> /\ gatePc.block = 1 /\ gatePc.ordinal = 0
    /\ gatePc.run = "crossover" /\ gatePc.at \notin Stopped =>
          CrossSamples(gateRows, gatePc.at, gatePc.block, gatePc.ordinal, gateRuntime.instance)
    /\ gatePc.run = "contention" /\ gatePc.at \notin Stopped =>
          PairSamples(gateRows, gatePc.at, gatePc.block)

SampleInv == LogInv /\ RowsInv

---------------------------------------------------------------------------
(* The events of a pair *)

\* The log is the events that happened.
LEMMA LogRead ==
  /\ \A who, place : JudgingAt(who, place) <=> JudgingIn(gateEvents, who, place)
  /\ \A who : JudgeBusy(who) <=> JudgingIn(gateEvents, who, Len(gateEvents))
  /\ \A who : JudgeRequested(who) = Cardinality(StartsIn(gateEvents, who))
BY DEF JudgingAt, JudgeBusy, JudgeRequested, JudgingIn, StartsIn

\* What an event is made of.
LEMMA EventFields ==
  ASSUME NEW e \in EventRecords
  PROVE  /\ e.n \in Nat /\ e.who \in Evaluations
         /\ e.who = "donor" => e.n > 0
         /\ e.n > 0 <=> e.what \in JudgeKinds
         /\ e.what = "start" => e.n > 0
BY DEF EventRecords, JudgeKinds, Evaluations

\* The place after the last.
LEMMA EventAppended ==
  ASSUME NEW E \in Seq(EventRecords), NEW e \in EventRecords, NEW F, F = Append(E, e)
  PROVE  /\ F \in Seq(EventRecords) /\ Len(F) = Len(E) + 1 /\ Len(E) \in Nat
         /\ DOMAIN E = 1..Len(E) /\ DOMAIN F = 1..(Len(E) + 1)
         /\ F[Len(E) + 1] = e
         /\ \A i \in 1..Len(E) : F[i] = E[i] /\ E[i] \in EventRecords
OBVIOUS

\* What was judged at a place does not change.
LEMMA JudgingKept ==
  ASSUME NEW E \in Seq(EventRecords), NEW e \in EventRecords, NEW F, F = Append(E, e),
         NEW who, NEW place \in 0..Len(E)
  PROVE  JudgingIn(F, who, place) <=> JudgingIn(E, who, place)
<1>1. \A i \in 1..place : F[i] = E[i]
  BY EventAppended
<1>2. \A i \in 1..place : \A j \in (i + 1)..place : F[j] = E[j]
  BY <1>1, EventAppended
<1>3. JudgingIn(E, who, place) => JudgingIn(F, who, place)
  BY <1>1, <1>2 DEF JudgingIn
<1>4. JudgingIn(F, who, place) => JudgingIn(E, who, place)
  BY <1>1, <1>2 DEF JudgingIn
<1> QED
  BY <1>3, <1>4

\* A request of nobody's judge, or an end, makes no one busy.
LEMMA NoneBusier ==
  ASSUME NEW E \in Seq(EventRecords), NEW e \in EventRecords, NEW F, F = Append(E, e),
         NEW who, e.what # "start" \/ e.who # who, JudgingIn(F, who, Len(F))
  PROVE  JudgingIn(E, who, Len(E))
<1>1. PICK i \in 1..Len(F) :
        /\ F[i].what = "start" /\ F[i].who = who
        /\ \A j \in (i + 1)..Len(F) : ~(F[j].who = who /\ F[j].n = F[i].n)
  BY DEF JudgingIn
<1>2. i \in 1..Len(E)
  <2>1. i # Len(E) + 1
    BY <1>1, EventAppended
  <2> QED
    BY <2>1, EventAppended
<1>3. F[i] = E[i]
  BY <1>2, EventAppended
<1>4. \A j \in (i + 1)..Len(E) : j \in (i + 1)..Len(F) /\ F[j] = E[j]
  BY <1>2, EventAppended
<1> QED
  BY <1>1, <1>2, <1>3, <1>4 DEF JudgingIn

\* At a place where an event that is no start happens, only those judge that did before it.
LEMMA JudgingPassed ==
  ASSUME NEW E \in Seq(EventRecords), NEW who, NEW place \in 1..Len(E),
         E[place].what # "start", JudgingIn(E, who, place)
  PROVE  JudgingIn(E, who, place - 1)
<1>1. PICK i \in 1..place :
        /\ E[i].what = "start" /\ E[i].who = who
        /\ \A j \in (i + 1)..place : ~(E[j].who = who /\ E[j].n = E[i].n)
  BY DEF JudgingIn
<1>2. i \in 1..(place - 1)
  BY <1>1
<1>3. \A j \in (i + 1)..(place - 1) : j \in (i + 1)..place
  BY <1>2
<1> QED
  BY <1>1, <1>2, <1>3, Zenon DEF JudgingIn

\* The starts of an evaluation are at places of the log.
LEMMA StartsFinite ==
  ASSUME NEW E \in Seq(EventRecords), NEW who
  PROVE  /\ StartsIn(E, who) \subseteq 1..Len(E) /\ IsFiniteSet(StartsIn(E, who))
         /\ Cardinality(StartsIn(E, who)) \in Nat
<1>1. StartsIn(E, who) \subseteq 1..Len(E)
  BY DEF StartsIn
<1>2. 1 \in Int /\ Len(E) \in Int
  OBVIOUS
<1>3. IsFiniteSet(1..Len(E))
  BY <1>2, FS_Interval
<1>4. IsFiniteSet(StartsIn(E, who))
  BY <1>1, <1>3, FS_Subset
<1> QED
  BY <1>1, <1>4, FS_CardinalityType

\* A start counts.
LEMMA StartCounts ==
  ASSUME NEW E \in Seq(EventRecords), NEW e \in EventRecords, NEW F, F = Append(E, e), NEW who,
         e.what = "start", e.who = who
  PROVE  Cardinality(StartsIn(F, who)) = Cardinality(StartsIn(E, who)) + 1
<1>1. \A n \in 1..(Len(E) + 1) : n \in StartsIn(F, who) <=> n \in StartsIn(E, who) \cup {Len(E) + 1}
  BY EventAppended DEF StartsIn
<1>2. StartsIn(F, who) = StartsIn(E, who) \cup {Len(E) + 1}
  BY <1>1, StartsFinite, EventAppended DEF StartsIn
<1>3. Len(E) + 1 \notin StartsIn(E, who)
  BY StartsFinite, EventAppended
<1> QED
  BY <1>2, <1>3, StartsFinite, FS_AddElement, ZenonT(40)

\* Nothing else does.
LEMMA OthersCountNot ==
  ASSUME NEW E \in Seq(EventRecords), NEW e \in EventRecords, NEW F, F = Append(E, e), NEW who,
         e.what # "start" \/ e.who # who
  PROVE  Cardinality(StartsIn(F, who)) = Cardinality(StartsIn(E, who))
<1>1. \A n \in 1..(Len(E) + 1) : n \in StartsIn(F, who) <=> n \in StartsIn(E, who)
  BY EventAppended DEF StartsIn
<1>2. StartsIn(F, who) = StartsIn(E, who)
  BY <1>1, StartsFinite, EventAppended DEF StartsIn
<1> QED
  BY <1>2

\* An end does not.
LEMMA EndsCountNot ==
  ASSUME NEW E \in Seq(EventRecords), NEW e \in EventRecords, NEW F, F = Append(E, e), e.what # "start"
  PROVE  \A who : Cardinality(StartsIn(F, who)) = Cardinality(StartsIn(E, who))
<1>1. SUFFICES ASSUME NEW who PROVE StartsIn(F, who) = StartsIn(E, who)
  OBVIOUS
<1>2. \A n \in 1..(Len(E) + 1) : n \in StartsIn(F, who) <=> n \in StartsIn(E, who)
  BY EventAppended DEF StartsIn
<1> QED
  BY <1>2, StartsFinite, EventAppended DEF StartsIn

\* A log without the donor.
LEMMA NoDonor ==
  ASSUME NEW E, \A i \in DOMAIN E : ~OfDonor(E[i])
  PROVE  DonorLog(E)
BY DEF DonorLog

\* What others do leaves the donor's log as it is.
LEMMA DonorUntouched ==
  ASSUME NEW E \in Seq(EventRecords), NEW e \in EventRecords, NEW F, F = Append(E, e),
         DonorLog(E), ~OfDonor(e)
  PROVE  DonorLog(F)
<1>1. Cardinality(StartsIn(F, "donor")) = Cardinality(StartsIn(E, "donor"))
  <2>1. e.what # "start" \/ e.who # "donor"
    BY EventFields DEF OfDonor
  <2> QED
    BY <2>1, OthersCountNot, ZenonT(40)
<1>2. \A i \in DOMAIN F : OfDonor(F[i]) => i \in DOMAIN E /\ F[i] = E[i]
  BY EventAppended
<1>3. \A i \in DOMAIN E : i \in DOMAIN F /\ F[i] = E[i]
  BY EventAppended
<1> QED
  BY <1>1, <1>2, <1>3 DEF DonorLog

\* A judge request of the donor that starts when none is under way.
LEMMA DonorStarts ==
  ASSUME NEW E \in Seq(EventRecords), NEW e \in EventRecords, NEW F, F = Append(E, e),
         DonorLog(E), e.who = "donor", e.what = "start",
         e.n = Cardinality(StartsIn(E, "donor")) + 1, ~JudgingIn(E, "donor", Len(E))
  PROVE  DonorLog(F)
<1>1. PICK requested \in Nat, total \in Nat :
        /\ requested = Cardinality(StartsIn(E, "donor")) /\ total = requested + 1
        /\ Cardinality(StartsIn(F, "donor")) = total
  <2>1. Cardinality(StartsIn(F, "donor")) = Cardinality(StartsIn(E, "donor")) + 1
    BY StartCounts
  <2> QED
    BY <2>1, StartsFinite
<1>2. PICK length \in Nat : length = Len(E)
  BY EventAppended
<1>3. /\ DOMAIN E = 1..length /\ DOMAIN F = 1..(length + 1) /\ F[length + 1] = e
      /\ \A i \in 1..length : F[i] = E[i]
  BY <1>2, EventAppended
<1>4. \A i \in 1..length : OfDonor(E[i]) => E[i].n <= requested /\ E[i].n \in Nat
  BY <1>1, <1>3, EventFields, EventAppended DEF DonorLog
<1>5. e.n = requested + 1 /\ OfDonor(e)
  BY <1>1 DEF OfDonor
<1>6. ASSUME NEW i \in DOMAIN F, NEW j \in DOMAIN F, OfDonor(F[i]), OfDonor(F[j]), F[i].n = F[j].n,
             F[i].what = "start" <=> F[j].what = "start"
      PROVE  i = j
  <2>1. CASE i \in 1..length /\ j \in 1..length
    BY <1>3, <1>6, <2>1 DEF DonorLog
  <2>2. CASE i = length + 1 \/ j = length + 1
    BY <1>3, <1>4, <1>5, <1>6, <2>2
  <2> QED
    BY <1>3, <2>1, <2>2
<1>7. \A i \in DOMAIN F : OfDonor(F[i]) => F[i].n <= total
  BY <1>1, <1>3, <1>4, <1>5
<1>8. ASSUME NEW i \in DOMAIN F, OfDonor(F[i]), F[i].what = "start", F[i].n < total
      PROVE  \E j \in DOMAIN F : j > i /\ OfDonor(F[j]) /\ F[j].n = F[i].n
  <2>1. i \in 1..length /\ F[i] = E[i]
    BY <1>1, <1>3, <1>5, <1>8
  <2>2. PICK j \in (i + 1)..length : E[j].who = "donor" /\ E[j].n = E[i].n
    BY <1>1, <1>2, <1>8, <2>1 DEF JudgingIn, OfDonor
  <2>3. j \in 1..length /\ F[j] = E[j] /\ j > i
    BY <1>3, <2>1, <2>2
  <2> QED
    BY <1>3, <1>8, <2>1, <2>2, <2>3 DEF OfDonor
<1>9. ASSUME NEW j \in DOMAIN F, OfDonor(F[j]), F[j].what # "start"
      PROVE  \E i \in DOMAIN F :
                 i < j /\ OfDonor(F[i]) /\ F[i].n = F[j].n /\ F[i].what = "start"
  <2>1. j \in 1..length /\ F[j] = E[j]
    BY <1>3, <1>9
  <2>2. PICK i \in 1..length : i < j /\ OfDonor(E[i]) /\ E[i].n = E[j].n /\ E[i].what = "start"
    BY <1>3, <1>9, <2>1 DEF DonorLog
  <2> QED
    BY <1>3, <2>1, <2>2
<1>10. \A i \in DOMAIN F : OfDonor(F[i]) => F[i].n <= Cardinality(StartsIn(F, "donor"))
  BY <1>1, <1>7
<1>11. \A i \in DOMAIN F :
          OfDonor(F[i]) /\ F[i].what = "start" /\ F[i].n < Cardinality(StartsIn(F, "donor")) =>
              \E j \in DOMAIN F : j > i /\ OfDonor(F[j]) /\ F[j].n = F[i].n
  BY <1>1, <1>8
<1> QED
  BY <1>6, <1>9, <1>10, <1>11, ZenonT(40) DEF DonorLog

\* The end of the donor's judge request that is under way.
LEMMA DonorEnds ==
  ASSUME NEW E \in Seq(EventRecords), NEW e \in EventRecords, NEW F, F = Append(E, e),
         DonorLog(E), e.who = "donor", e.what # "start",
         e.n = Cardinality(StartsIn(E, "donor")), JudgingIn(E, "donor", Len(E))
  PROVE  DonorLog(F)
<1>1. Cardinality(StartsIn(F, "donor")) = Cardinality(StartsIn(E, "donor"))
  BY EndsCountNot, ZenonT(40)
<1>2. PICK requested \in Nat : /\ requested = Cardinality(StartsIn(E, "donor"))
                               /\ Cardinality(StartsIn(F, "donor")) = requested
  BY <1>1, StartsFinite
<1>3. PICK length \in Nat : length = Len(E)
  BY EventAppended
<1>4. /\ DOMAIN E = 1..length /\ DOMAIN F = 1..(length + 1) /\ F[length + 1] = e
      /\ \A i \in 1..length : F[i] = E[i]
  BY <1>3, EventAppended
<1>5. \A i \in 1..length : OfDonor(E[i]) => E[i].n <= requested /\ E[i].n \in Nat
  BY <1>2, <1>4, EventFields, EventAppended DEF DonorLog
<1>6. e.n = requested /\ OfDonor(e)
  BY <1>2, EventFields DEF OfDonor
<1>7. PICK busy \in 1..length :
        /\ E[busy].what = "start" /\ E[busy].who = "donor"
        /\ \A j \in (busy + 1)..length : ~(E[j].who = "donor" /\ E[j].n = E[busy].n)
  BY <1>3 DEF JudgingIn
<1>8. OfDonor(E[busy])
  BY <1>7, <1>4, EventFields, EventAppended DEF OfDonor
<1>9. E[busy].n = requested
  <2>1. SUFFICES ASSUME E[busy].n < requested PROVE FALSE
    BY <1>5, <1>8
  <2>2. PICK j \in 1..length : j > busy /\ OfDonor(E[j]) /\ E[j].n = E[busy].n
    BY <1>2, <1>4, <1>7, <1>8, <2>1 DEF DonorLog
  <2> QED
    BY <1>7, <2>2 DEF OfDonor
<1>10. \A j \in 1..length : OfDonor(E[j]) /\ E[j].what # "start" => E[j].n # requested
  <2>1. SUFFICES ASSUME NEW j \in 1..length, OfDonor(E[j]), E[j].what # "start", E[j].n = requested
                 PROVE  FALSE
    OBVIOUS
  <2>2. PICK i \in 1..length : i < j /\ OfDonor(E[i]) /\ E[i].n = E[j].n /\ E[i].what = "start"
    BY <1>4, <2>1 DEF DonorLog
  <2>3. i = busy
    BY <1>4, <1>7, <1>8, <1>9, <2>1, <2>2 DEF DonorLog
  <2> QED
    BY <1>7, <1>9, <2>1, <2>2, <2>3 DEF OfDonor
<1>11. ASSUME NEW i \in DOMAIN F, NEW j \in DOMAIN F, OfDonor(F[i]), OfDonor(F[j]), F[i].n = F[j].n,
              F[i].what = "start" <=> F[j].what = "start"
       PROVE  i = j
  <2>1. CASE i \in 1..length /\ j \in 1..length
    BY <1>4, <1>11, <2>1 DEF DonorLog
  <2>2. CASE i = length + 1 \/ j = length + 1
    BY <1>4, <1>6, <1>10, <1>11, <2>2
  <2> QED
    BY <1>4, <2>1, <2>2
<1>12. \A i \in DOMAIN F : OfDonor(F[i]) => F[i].n <= requested
  BY <1>4, <1>5, <1>6
<1>13. ASSUME NEW i \in DOMAIN F, OfDonor(F[i]), F[i].what = "start", F[i].n < requested
       PROVE  \E j \in DOMAIN F : j > i /\ OfDonor(F[j]) /\ F[j].n = F[i].n
  <2>1. i \in 1..length /\ F[i] = E[i]
    BY <1>4, <1>6, <1>13
  <2>2. PICK j \in 1..length : j > i /\ OfDonor(E[j]) /\ E[j].n = E[i].n
    BY <1>2, <1>4, <1>13, <2>1 DEF DonorLog
  <2> QED
    BY <1>4, <2>1, <2>2
<1>14. ASSUME NEW j \in DOMAIN F, OfDonor(F[j]), F[j].what # "start"
       PROVE  \E i \in DOMAIN F :
                  i < j /\ OfDonor(F[i]) /\ F[i].n = F[j].n /\ F[i].what = "start"
  <2>1. CASE j = length + 1
    BY <1>4, <1>6, <1>7, <1>8, <1>9, <2>1
  <2>2. CASE j \in 1..length
    <3>1. PICK i \in 1..length : i < j /\ OfDonor(E[i]) /\ E[i].n = E[j].n /\ E[i].what = "start"
      BY <1>4, <1>14, <2>2 DEF DonorLog
    <3> QED
      BY <1>4, <2>2, <3>1
  <2> QED
    BY <1>4, <2>1, <2>2
<1> QED
  BY <1>2, <1>11, <1>12, <1>13, <1>14, SMTT(40) DEF DonorLog

\* What is left of a pair is of an evaluation that goes on, and which nobody here asked for.
LEMMA OthersRead ==
  ASSUME gateEvents \in Seq(EventRecords)
  PROVE  /\ OthersEvents \in Seq(EventRecords)
         /\ \A i \in DOMAIN OthersEvents : OthersEvents[i].who = "stranger"
         /\ OthersEvents # <<>> => gateLock = "stranger"
<1> DEFINE N == Len(gateEvents)
           Theirs == {s \in Seq(EventRecords) : \A i \in 1..Len(s) : s[i].who = "stranger"}
           T == [n \in 0..N |-> Theirs]
           next == [n \in 1..N |-> [s \in Theirs |->
                      IF gateEvents[n].who = "stranger" THEN Append(s, gateEvents[n]) ELSE s]]
           Def(g) == [n \in 0..N |->
                        IF n = 0 THEN <<>>
                        ELSE IF gateEvents[n].who = "stranger" THEN Append(g[n - 1], gateEvents[n])
                        ELSE g[n - 1]]
           f == CHOOSE g : g = Def(g)
<1>1. N \in Nat /\ \A n \in 1..N : gateEvents[n] \in EventRecords
  OBVIOUS
<1>2. ASSUME NEW s \in Theirs, NEW n \in 1..N, gateEvents[n].who = "stranger"
      PROVE  Append(s, gateEvents[n]) \in Theirs
  <2>1. PICK e \in EventRecords : e = gateEvents[n] /\ e.who = "stranger"
    BY <1>1, <1>2
  <2>2. PICK t : t = Append(s, e)
    OBVIOUS
  <2>3. t \in Seq(EventRecords) /\ \A i \in 1..Len(t) : t[i].who = "stranger"
    <3>1. s \in Seq(EventRecords) /\ \A i \in 1..Len(s) : s[i].who = "stranger"
      OBVIOUS
    <3>2. /\ t \in Seq(EventRecords) /\ Len(t) = Len(s) + 1 /\ Len(s) \in Nat /\ t[Len(s) + 1] = e
          /\ \A i \in 1..Len(s) : t[i] = s[i]
      BY <2>2, <3>1, EventAppended
    <3> QED
      BY <2>1, <3>1, <3>2
  <2> QED
    BY <2>1, <2>2, <2>3
<1>3. <<>> \in Theirs
  OBVIOUS
<1> HIDE DEF Theirs
<1>4. PICK g : Solves(g, next, T, <<>>, N)
  <2>1. StepsInto(next, T, <<>>, N)
    <3>1. <<>> \in T[0]
      BY <1>1, <1>3
    <3>2. ASSUME NEW n \in 1..N, NEW s \in T[n - 1] PROVE next[n][s] \in T[n]
      <4>1. s \in Theirs /\ T[n] = Theirs
        BY <1>1, <3>2
      <4>2. next[n][s] = IF gateEvents[n].who = "stranger" THEN Append(s, gateEvents[n]) ELSE s
        BY <4>1
      <4> QED
        BY <1>2, <4>1, <4>2
    <3> QED
      BY <3>1, <3>2, Zenon DEF StepsInto
  <2> HIDE DEF T, next, f, N
  <2> QED
    BY <1>1, <2>1, Iterates
<1>5. g[0] = <<>> /\ \A n \in 0..N : g[n] \in Theirs
  BY <1>4 DEF Solves
<1>6. \A n \in 1..N : g[n] = IF gateEvents[n].who = "stranger" THEN Append(g[n - 1], gateEvents[n])
                               ELSE g[n - 1]
  <2>1. \A n \in 1..N : n - 1 \in 0..N
    BY <1>1
  <2>2. \A n \in 1..N : next[n][g[n - 1]] =
            IF gateEvents[n].who = "stranger" THEN Append(g[n - 1], gateEvents[n]) ELSE g[n - 1]
    BY <1>5, <2>1
  <2> HIDE DEF T, next
  <2> QED
    BY <1>4, <2>2 DEF Solves
<1> HIDE DEF T, next
<1> DEFINE h == [n \in 0..N |-> g[n]]
<1>7. h = Def(h)
  <2>1. \A n \in 0..N : n # 0 => n - 1 \in 0..N /\ n \in 1..N
    BY <1>1
  <2>2. h = [n \in 0..N |-> IF n = 0 THEN <<>>
                            ELSE IF gateEvents[n].who = "stranger" THEN Append(h[n - 1], gateEvents[n])
                            ELSE h[n - 1]]
    BY <1>5, <1>6, <2>1
  <2> QED
    BY <2>2
<1>8. f = Def(f)
  <2> HIDE DEF h
  <2> QED
    BY <1>7, Zenon
<1>9. OthersEvents = IF gateLock = "stranger" THEN f[N] ELSE <<>>
  BY Zenon DEF OthersEvents
<1> HIDE DEF f
<1>10. \A n \in 0..N : f[n] = g[n]
  <2> DEFINE G == {n \in 0..N : f[n] = g[n]}
  <2>1. 0 \in G
    BY <1>1, <1>5, <1>8
  <2>2. ASSUME NEW n \in 1..N, n - 1 \in G PROVE n \in G
    <3>1. n \in 0..N /\ n # 0 /\ f[n - 1] = g[n - 1]
      BY <1>1, <2>2
    <3>2. f[n] = IF gateEvents[n].who = "stranger" THEN Append(f[n - 1], gateEvents[n]) ELSE f[n - 1]
      BY <1>8, <3>1
    <3> QED
      BY <1>6, <3>1, <3>2
  <2> HIDE DEF G
  <2>3. \A n \in 0..N : n \in G
    BY <1>1, <2>1, <2>2, Upward
  <2> USE DEF G
  <2> QED
    BY <2>3
<1>11. OthersEvents \in Theirs
  <2>1. f[N] \in Theirs
    BY <1>1, <1>5, <1>10
  <2> QED
    BY <1>3, <1>9, <2>1
<1>12. OthersEvents # <<>> => gateLock = "stranger"
  BY <1>9
<1> QED
  BY <1>11, <1>12 DEF Theirs

---------------------------------------------------------------------------
(* What is added to the events of a pair *)

\* A request, or what is no start of a judge, leaves the lock with who has it.
LEMMA LockRequest ==
  ASSUME NEW E, NEW lock, LockLog(E, lock), NEW e \in EventRecords, e.what # "start", NEW F, F = Append(E, e)
  PROVE  LockLog(F, lock)
<1>1. F \in Seq(EventRecords)
  BY EventAppended DEF LockLog
<1>2. ASSUME NEW who \in Evaluations, JudgingIn(F, who, Len(F)) PROVE lock = who
  <2>1. JudgingIn(E, who, Len(E))
    BY <1>2, NoneBusier DEF LockLog
  <2> QED
    BY <2>1 DEF LockLog
<1> QED
  BY <1>1, <1>2 DEF LockLog

\* Who has the lock judges.
LEMMA LockJudged ==
  ASSUME NEW E, NEW lock, LockLog(E, lock), NEW e \in EventRecords, e.who = lock, NEW F, F = Append(E, e)
  PROVE  LockLog(F, lock)
<1>1. F \in Seq(EventRecords)
  BY EventAppended DEF LockLog
<1>2. ASSUME NEW who \in Evaluations, JudgingIn(F, who, Len(F)), who # lock PROVE FALSE
  <2>1. e.what # "start" \/ e.who # who
    BY <1>2
  <2>2. JudgingIn(E, who, Len(E))
    BY <1>2, <2>1, NoneBusier DEF LockLog
  <2> QED
    BY <1>2, <2>2 DEF LockLog
<1> QED
  BY <1>1, <1>2 DEF LockLog

\* The requests of a pair stay where they are, and nobody judged beside the first.
LEMMA BaseKept ==
  ASSUME NEW E \in Seq(EventRecords), NEW e \in EventRecords, e.n > 0, NEW F, F = Append(E, e),
         NEW d \in DOMAIN E, BaseAsked(E, d)
  PROVE  d \in DOMAIN F /\ BaseAsked(F, d)
<1>1. PICK length \in Nat : length = Len(E)
  BY EventAppended
<1>2. /\ DOMAIN E = 1..length /\ DOMAIN F = 1..(length + 1) /\ F[length + 1] = e
      /\ \A i \in 1..length : F[i] = E[i]
  BY <1>1, EventAppended
<1>3. d \in 1..length /\ d - 1 \in 1..length /\ d - 2 \in 1..length /\ d \in DOMAIN F
  BY <1>2 DEF BaseAsked, IsRequest
<1>4. /\ d - 2 \in Nat /\ IsRequest(F, d - 2, "reserve", "base")
      /\ IsRequest(F, d - 1, "request", "base") /\ IsRequest(F, d, "done", "base")
  BY <1>2, <1>3 DEF BaseAsked, IsRequest
<1>5. OnlyJudges(F, DOMAIN F \ {d - 2, d - 1, d})
  BY <1>2 DEF BaseAsked, OnlyJudges
<1>6. ASSUME NEW who \in Evaluations PROVE ~JudgingIn(F, who, d - 1) /\ ~JudgingIn(F, who, d)
  <2>1. d \in 0..Len(E) /\ d - 1 \in 0..Len(E)
    BY <1>1, <1>3
  <2>2. JudgingIn(F, who, d) <=> JudgingIn(E, who, d)
    BY <2>1, JudgingKept
  <2>3. PICK before : before = d - 1
    OBVIOUS
  <2>4. JudgingIn(F, who, before) <=> JudgingIn(E, who, before)
    BY <2>1, <2>3, JudgingKept
  <2> QED
    BY <2>2, <2>3, <2>4 DEF BaseAsked
<1> QED
  BY <1>3, <1>4, <1>5, <1>6, Zenon DEF BaseAsked

\* What a judge does leaves the requests where they are.
LEMMA PairJudged ==
  ASSUME NEW E \in Seq(EventRecords), NEW e \in EventRecords, e.n > 0, NEW F, F = Append(E, e),
         NEW at, at \notin {"base", "base_stream"}, PairLog(E, at)
  PROVE  PairLog(F, at)
<1>1. PICK length \in Nat : length = Len(E)
  BY EventAppended
<1>2. /\ DOMAIN E = 1..length /\ DOMAIN F = 1..(length + 1) /\ F[length + 1] = e /\ Len(F) = length + 1
      /\ \A i \in 1..length : F[i] = E[i]
  BY <1>1, EventAppended
<1>3. at \in {"start", "down", "up", "instance", "reserve", "watch", "compared"} =>
           OnlyJudges(F, 1..Len(F))
  BY <1>1, <1>2 DEF PairLog, OnlyJudges
<1>4. at = "base_evaluation" => \E d \in DOMAIN F : BaseAsked(F, d)
  <2>1. SUFFICES ASSUME at = "base_evaluation" PROVE \E d \in DOMAIN F : BaseAsked(F, d)
    OBVIOUS
  <2>2. PICK d \in DOMAIN E : BaseAsked(E, d)
    BY <2>1 DEF PairLog
  <2> QED
    BY <2>2, BaseKept
<1>5. \A q, what, who : IsRequest(E, q, what, who) => q \in DOMAIN F /\ IsRequest(F, q, what, who)
  BY <1>2 DEF IsRequest
<1> QED
  BY <1>3, <1>4, <1>5 DEF PairLog

\* No events.
LEMMA EmptyLog == DonorLog(<<>>) /\ \A lock : LockLog(<<>>, lock)
<1>1. \A i : i \notin DOMAIN <<>>
  OBVIOUS
<1>2. DonorLog(<<>>)
  BY <1>1 DEF DonorLog
<1>3. <<>> \in Seq(EventRecords) /\ Len(<<>>) = 0 /\ \A i : i \notin 1..0
  OBVIOUS
<1>4. \A who : ~JudgingIn(<<>>, who, Len(<<>>))
  BY <1>3 DEF JudgingIn
<1> QED
  BY <1>2, <1>3, <1>4 DEF LockLog

\* What is left of a pair is a log without requests and without a donor.
LEMMA OthersLog ==
  ASSUME LockLog(gateEvents, gateLock)
  PROVE  /\ LockLog(OthersEvents, gateLock) /\ DonorLog(OthersEvents)
         /\ OnlyJudges(OthersEvents, 1..Len(OthersEvents))
<1>1. PICK O : O = OthersEvents
  OBVIOUS
<1>2. /\ O \in Seq(EventRecords) /\ \A i \in DOMAIN O : O[i].who = "stranger"
      /\ O # <<>> => gateLock = "stranger"
  BY <1>1, OthersRead DEF LockLog
<1>3. DOMAIN O = 1..Len(O) /\ \A i \in DOMAIN O : O[i] \in EventRecords
  BY <1>2
<1>4. DonorLog(O)
  BY <1>2, NoDonor DEF OfDonor
<1>5. OnlyJudges(O, 1..Len(O))
  BY <1>2, <1>3 DEF OnlyJudges, EventRecords
<1>6. ASSUME NEW who \in Evaluations, JudgingIn(O, who, Len(O)) PROVE gateLock = who
  <2>1. PICK i \in 1..Len(O) : O[i].who = who
    BY <1>6 DEF JudgingIn
  <2>2. O # <<>> /\ who = "stranger"
    BY <1>2, <1>3, <2>1
  <2> QED
    BY <1>2, <2>2
<1>7. LockLog(O, gateLock)
  BY <1>2, <1>6 DEF LockLog
<1> QED
  BY <1>1, <1>4, <1>5, <1>7

---------------------------------------------------------------------------
(* The events stay in order *)

\* Places at which no request of a pair is under way.
QuietPlaces == {"ask", "valid", "drain", "failing", "finally", "judge", "accepted", "ended"}
Before == {"start", "down", "up", "instance", "reserve", "watch", "compared"}

\* Where the collector is at such a place, or before a request.
LEMMA QuietLog ==
  ASSUME NEW E
  PROVE  /\ \A at \in QuietPlaces : PairLog(E, at)
         /\ \A at \in Before : OnlyJudges(E, 1..Len(E)) => PairLog(E, at)
         /\ \A at \in Before : PairLog(E, at) => OnlyJudges(E, 1..Len(E))
BY DEF QuietPlaces, Before, PairLog

\* A step that adds no event and leaves the lock.
LEMMA LogFramed ==
  ASSUME LogInv, UNCHANGED <<gateEvents, gateLock, gateWaiting, gateDonor>>,
         gatePc'.at \in QuietPlaces \cup Before,
         \/ gatePc'.run # "contention" /\ gatePc.run # "contention"
            /\ gatePc'.at \notin {"reserve", "watch", "compared"}
         \/ gatePc'.run = "contention" /\ gatePc.run # "contention"
         \/ gatePc'.run = "contention" /\ gatePc.run = "contention"
            /\ (gatePc'.at \in QuietPlaces \/ gatePc.at \in Before)
  PROVE  LogInv'
<1>1. gatePc'.at \notin {"base", "base_stream"}
  BY DEF QuietPlaces, Before
<1>2. CASE gatePc'.run # "contention" /\ gatePc.run # "contention"
            /\ gatePc'.at \notin {"reserve", "watch", "compared"}
  <2>1. gatePc'.at \notin {"reserve", "base", "base_stream", "base_evaluation", "watch", "compared",
                           "compared_stream", "compared_evaluation"}
    BY <1>2 DEF QuietPlaces, Before
  <2> QED
    BY <1>1, <1>2, <2>1, Zenon DEF LogInv
<1>3. CASE gatePc'.run = "contention" /\ gatePc.run # "contention"
  <2>1. gateEvents = <<>> /\ Len(<<>>) = 0 /\ \A i : i \notin 1..0
    BY <1>3 DEF LogInv
  <2>2. OnlyJudges(gateEvents, 1..Len(gateEvents))
    BY <2>1 DEF OnlyJudges
  <2>3. PairLog(gateEvents, gatePc'.at)
    BY <2>2, QuietLog
  <2> QED
    BY <1>1, <1>3, <2>3, Zenon DEF LogInv
<1>4. CASE gatePc'.run = "contention" /\ gatePc.run = "contention"
            /\ (gatePc'.at \in QuietPlaces \/ gatePc.at \in Before)
  <2>1. PairLog(gateEvents, gatePc.at)
    BY <1>4 DEF LogInv
  <2>2. PairLog(gateEvents, gatePc'.at)
    BY <1>4, <2>1, QuietLog
  <2> QED
    BY <1>1, <1>4, <2>2, Zenon DEF LogInv
<1> QED
  BY <1>2, <1>3, <1>4

\* What the collector does without the evaluator.
LEMMA CollectLog ==
  ASSUME GateTypeOK, LogInv,
         \/ StopFirst \/ StartRuntime \/ ReadInstance \/ AskSample \/ ValidateAsk \/ Drain \/ StopRuntime
         \/ FunctionalPasses \/ StartPerformance \/ ValidateSamples \/ ConcludePhase
         \/ RuntimeRestarts \/ WatchDonor
  PROVE  LogInv'
<1> USE DEF GateRaises, GateTo, GateEnded, GateAt, pairVars, collectorOnly, QuietPlaces, Before
<1>1. /\ UNCHANGED <<gateEvents, gateLock, gateWaiting, gateDonor>>
      /\ gatePc'.at \in QuietPlaces \cup Before
      /\ \/ gatePc'.run # "contention" /\ gatePc.run # "contention"
            /\ gatePc'.at \notin {"reserve", "watch", "compared"}
         \/ gatePc'.run = "contention" /\ gatePc.run # "contention"
         \/ gatePc'.run = "contention" /\ gatePc.run = "contention"
            /\ (gatePc'.at \in QuietPlaces \/ gatePc.at \in Before)
  <2> USE DEF GateTypeOK, PcRecords
  <2>1. CASE StopFirst
    BY <2>1 DEF StopFirst
  <2>2. CASE StartRuntime
    BY <2>2 DEF StartRuntime
  <2>3. CASE ReadInstance
    BY <2>3 DEF ReadInstance
  <2>4. CASE AskSample
    <3>1. /\ gatePc.at = "ask" /\ gatePc'.run = gatePc.run
          /\ gatePc'.at \in QuietPlaces \/ (gatePc.run = "functional" /\ gatePc'.at = "instance")
      BY <2>4 DEF AskSample
    <3> QED
      BY <2>4, <3>1 DEF AskSample
  <2>5. CASE ValidateAsk
    BY <2>5 DEF ValidateAsk
  <2>6. CASE Drain
    BY <2>6 DEF Drain
  <2>7. CASE StopRuntime
    <3>1. /\ gatePc.at \in {"finally", "failing"} /\ gatePc'.run = gatePc.run
          /\ gatePc'.at \in {"ended", "judge"} \/ (gatePc.run = "crossover" /\ gatePc'.at = "down")
      BY <2>7 DEF StopRuntime
    <3> QED
      BY <2>7, <3>1 DEF StopRuntime
  <2>8. CASE FunctionalPasses
    BY <2>8 DEF FunctionalPasses
  <2>9. CASE StartPerformance
    BY <2>9 DEF StartPerformance
  <2>10. CASE ValidateSamples
    BY <2>10 DEF ValidateSamples
  <2>11. CASE ConcludePhase
    BY <2>11 DEF ConcludePhase
  <2>12. CASE RuntimeRestarts
    BY <2>12 DEF RuntimeRestarts
  <2>13. CASE WatchDonor
    <3>1. gatePc.at = "watch" /\ gatePc.run = "contention"
      BY <2>13 DEF WatchDonor, LogInv
    <3> QED
      BY <2>13, <3>1 DEF WatchDonor
  <2> QED
    BY <2>1, <2>2, <2>3, <2>4, <2>5, <2>6, <2>7, <2>8, <2>9, <2>10, <2>11, <2>12, <2>13
<1> QED
  BY <1>1, LogFramed

\* Which evaluation has the lock changes when nobody judges.
LEMMA LockPassed ==
  ASSUME NEW E, NEW lock, NEW next, LockLog(E, lock),
         \A who \in Evaluations : lock = who => ~JudgingIn(E, who, Len(E))
  PROVE  LockLog(E, next)
BY DEF LockLog

\* A judge request that is under way has started.
LEMMA BusyStarted ==
  ASSUME NEW E \in Seq(EventRecords), NEW who, JudgingIn(E, who, Len(E))
  PROVE  Cardinality(StartsIn(E, who)) \in Nat \ {0}
<1>1. StartsIn(E, who) # {}
  BY DEF JudgingIn, StartsIn
<1>2. IsFiniteSet(StartsIn(E, who)) /\ Cardinality(StartsIn(E, who)) \in Nat
  BY StartsFinite
<1>3. Cardinality(StartsIn(E, who)) # 0
  BY <1>1, <1>2, FS_EmptySet
<1> QED
  BY <1>2, <1>3

\* What an evaluation does with the lock, and what it logs.
LEMMA JudgeLog ==
  ASSUME LogInv, NEW who \in Evaluations, EvaluationStep(who)
  PROVE  /\ gateLock' \in Evaluations \cup {"none"} /\ gateLock \in Evaluations \cup {"none"}
         /\ LockLog(gateEvents', gateLock') /\ DonorLog(gateEvents')
         /\ \/ UNCHANGED gateEvents
            \/ \E e \in EventRecords : e.n > 0 /\ gateEvents' = Append(gateEvents, e)
         /\ UNCHANGED <<gatePc, gateDonor>>
         /\ gatePc.run = "contention"
<1>1. PICK E, lock : E = gateEvents /\ lock = gateLock
  OBVIOUS
<1>2. E \in Seq(EventRecords) /\ LockLog(E, lock) /\ DonorLog(E)
  BY <1>1 DEF LogInv, LockLog
<1>3. JudgeBusy(who) <=> JudgingIn(E, who, Len(E))
  BY <1>1, LogRead
<1>4. PICK requested \in Nat : JudgeRequested(who) = requested /\ requested = Cardinality(StartsIn(E, who))
  <2>1. JudgeRequested(who) = Cardinality(StartsIn(E, who))
    BY <1>1, LogRead
  <2> QED
    BY <1>2, <2>1, StartsFinite
<1>5. UNCHANGED <<gatePc, gateDonor>>
  BY DEF EvaluationStep
<1>6. gatePc.run = "contention"
  <2>1. SUFFICES ASSUME gatePc.run # "contention" PROVE FALSE
    OBVIOUS
  <2>2. gateLock = "none" /\ gateWaiting = {}
    BY <2>1 DEF LogInv
  <2>3. "none" # who
    BY DEF Evaluations
  <2> QED
    BY <2>2, <2>3 DEF EvaluationStep
<1>7. CASE /\ who \in gateWaiting /\ gateLock = "none"
           /\ gateLock' = who /\ gateEvents' = gateEvents
  <2>1. \A other \in Evaluations : lock = other => ~JudgingIn(E, other, Len(E))
    BY <1>1, <1>7 DEF Evaluations
  <2>2. LockLog(E, who)
    BY <1>2, <2>1, LockPassed
  <2> QED
    BY <1>1, <1>2, <1>5, <1>6, <1>7, <2>2
<1>8. CASE /\ gateLock = who /\ ~JudgeBusy(who)
           /\ gateEvents' = Append(gateEvents, [what |-> "start", who |-> who, n |-> JudgeRequested(who) + 1])
           /\ UNCHANGED gateLock
  <2>1. PICK e : e = [what |-> "start", who |-> who, n |-> requested + 1]
    OBVIOUS
  <2>2. e \in EventRecords /\ e.n > 0 /\ e.n = requested + 1 /\ e.who = who /\ e.what = "start"
    BY <2>1 DEF EventRecords, JudgeKinds
  <2>3. PICK F : F = Append(E, e)
    OBVIOUS
  <2>4. F = gateEvents'
    BY <1>1, <1>4, <1>8, <2>1, <2>3
  <2>5. LockLog(F, lock)
    BY <1>1, <1>2, <1>8, <2>2, <2>3, LockJudged
  <2>6. DonorLog(F)
    <3>1. CASE who = "donor"
      <4>1. ~JudgingIn(E, "donor", Len(E)) /\ e.n = Cardinality(StartsIn(E, "donor")) + 1
        BY <1>3, <1>4, <1>8, <2>2, <3>1
      <4> QED
        BY <1>2, <2>2, <2>3, <3>1, <4>1, DonorStarts
    <3>2. CASE who # "donor"
      <4>1. ~OfDonor(e)
        BY <2>2, <3>2 DEF OfDonor
      <4> QED
        BY <1>2, <2>2, <2>3, <4>1, DonorUntouched
    <3> QED
      BY <3>1, <3>2
  <2> QED
    BY <1>1, <1>5, <1>6, <1>8, <2>2, <2>3, <2>4, <2>5, <2>6
<1>9. CASE /\ gateLock = who /\ JudgeBusy(who)
           /\ \E what \in {"end", "refused", "lost"} :
                 gateEvents' = Append(gateEvents, [what |-> what, who |-> who, n |-> JudgeRequested(who)])
           /\ UNCHANGED gateLock
  <2>1. PICK what \in {"end", "refused", "lost"} :
          gateEvents' = Append(gateEvents, [what |-> what, who |-> who, n |-> JudgeRequested(who)])
    BY <1>9
  <2>2. PICK e : e = [what |-> what, who |-> who, n |-> requested]
    OBVIOUS
  <2>3. requested > 0
    BY <1>2, <1>3, <1>4, <1>9, BusyStarted
  <2>4. e \in EventRecords /\ e.n > 0 /\ e.n = requested /\ e.who = who /\ e.what # "start"
    BY <2>2, <2>3 DEF EventRecords, JudgeKinds
  <2>5. PICK F : F = Append(E, e)
    OBVIOUS
  <2>6. F = gateEvents'
    BY <1>1, <1>4, <2>1, <2>2, <2>5
  <2>7. LockLog(F, lock)
    BY <1>1, <1>2, <1>9, <2>4, <2>5, LockJudged
  <2>8. DonorLog(F)
    <3>1. CASE who = "donor"
      <4>1. JudgingIn(E, "donor", Len(E)) /\ e.n = Cardinality(StartsIn(E, "donor"))
        BY <1>3, <1>4, <1>9, <2>4, <3>1
      <4> QED
        BY <1>2, <2>4, <2>5, <3>1, <4>1, DonorEnds
    <3>2. CASE who # "donor"
      <4>1. ~OfDonor(e)
        BY <2>4, <3>2 DEF OfDonor
      <4> QED
        BY <1>2, <2>4, <2>5, <4>1, DonorUntouched
    <3> QED
      BY <3>1, <3>2
  <2> QED
    BY <1>1, <1>5, <1>6, <1>9, <2>4, <2>5, <2>6, <2>7, <2>8
<1>10. CASE gateLock = who /\ ~JudgeBusy(who) /\ gateLock' = "none" /\ gateEvents' = gateEvents
  <2>1. \A other \in Evaluations : lock = other => ~JudgingIn(E, other, Len(E))
    BY <1>1, <1>3, <1>10
  <2>2. LockLog(E, "none")
    BY <1>2, <2>1, LockPassed
  <2> QED
    BY <1>1, <1>2, <1>5, <1>6, <1>10, <2>2
<1> QED
  BY <1>7, <1>8, <1>9, <1>10 DEF EvaluationStep, Happens

\* The donor and the evaluations, a stranger's too, and a kill.
LEMMA BesideLog ==
  ASSUME GateTypeOK, LogInv,
         \/ DonorStep \/ (\E who \in Evaluations : EvaluationStep(who)) \/ StrangerStarts \/ GateKilled
         \/ UNCHANGED gateVars
  PROVE  LogInv'
<1>1. CASE DonorStep
  <2>1. UNCHANGED <<gatePc, gateEvents, gateLock>> /\ gateDonor # "none"
    BY <1>1 DEF DonorStep
  <2> QED
    BY <2>1, Zenon DEF LogInv
<1>2. CASE \E who \in Evaluations : EvaluationStep(who)
  <2>1. PICK who \in Evaluations : EvaluationStep(who)
    BY <1>2
  <2>2. /\ gateLock' \in Evaluations \cup {"none"} /\ gateLock \in Evaluations \cup {"none"}
        /\ LockLog(gateEvents', gateLock') /\ DonorLog(gateEvents')
        /\ \/ UNCHANGED gateEvents
           \/ \E e \in EventRecords : e.n > 0 /\ gateEvents' = Append(gateEvents, e)
        /\ UNCHANGED <<gatePc, gateDonor>>
        /\ gatePc.run = "contention"
    BY <2>1, JudgeLog
  <2>3. gatePc.at \notin {"base", "base_stream"}
    BY <2>2 DEF LogInv, Evaluations
  <2>4. PairLog(gateEvents, gatePc.at) /\ gateEvents \in Seq(EventRecords)
    BY <2>2 DEF LogInv, LockLog
  <2>5. PairLog(gateEvents', gatePc.at)
    BY <2>2, <2>3, <2>4, PairJudged
  <2>6. gatePc' = gatePc /\ gateLock' \in Evaluations \cup {"none", "collector"}
    BY <2>2
  <2> QED
    BY <2>2, <2>3, <2>5, <2>6 DEF LogInv
<1>3. CASE StrangerStarts
  <2>1. /\ UNCHANGED <<gatePc, gateEvents>> /\ gateLock = "none" /\ gateLock' = "stranger"
        /\ gatePc.run = "contention"
    BY <1>3 DEF StrangerStarts, collectorOnly
  <2>2. gatePc.at \notin {"base", "base_stream"}
    BY <2>1 DEF LogInv
  <2>3. \A who \in Evaluations : gateLock = who => ~JudgingIn(gateEvents, who, Len(gateEvents))
    BY <2>1 DEF Evaluations
  <2>4. LockLog(gateEvents, "stranger")
    BY <2>3, LockPassed DEF LogInv
  <2>5. "stranger" \in Evaluations
    BY DEF Evaluations
  <2> QED
    BY <2>1, <2>2, <2>4, <2>5 DEF LogInv
<1>4. CASE GateKilled
  <2>1. /\ UNCHANGED <<gateEvents, gateWaiting, gateDonor>> /\ gatePc'.at = "ended" /\ gatePc'.run = gatePc.run
        /\ gateLock' = IF gateLock = "collector" THEN "none" ELSE gateLock
    BY <1>4 DEF GateKilled, GateEnded, GateTypeOK, PcRecords
  <2>2. LockLog(gateEvents, gateLock')
    <3>1. CASE gateLock = "collector"
      <4>1. \A who \in Evaluations : gateLock = who => ~JudgingIn(gateEvents, who, Len(gateEvents))
        BY <3>1 DEF Evaluations
      <4> QED
        BY <4>1, LockPassed DEF LogInv
    <3>2. CASE gateLock # "collector"
      BY <2>1, <3>2 DEF LogInv
    <3> QED
      BY <3>1, <3>2
  <2>3. PairLog(gateEvents, "ended")
    BY QuietLog DEF QuietPlaces
  <2>4. gateLock' \in Evaluations \cup {"none", "collector"} /\ (gateLock = "none" => gateLock' = "none")
    BY <2>1 DEF LogInv
  <2> QED
    BY <2>1, <2>2, <2>3, <2>4 DEF LogInv
<1>5. CASE UNCHANGED gateVars
  BY <1>5, Zenon DEF gateVars, LogInv
<1> QED
  BY <1>1, <1>2, <1>3, <1>4, <1>5

\* A request, or its answer, joins the log.
LEMMA RequestLogged ==
  ASSUME NEW E, NEW lock, LockLog(E, lock), DonorLog(E),
         NEW what \in {"reserve", "request", "done"}, NEW who \in {"base", "compared"},
         NEW F, F = Append(E, EventOf(what, who))
  PROVE  LockLog(F, lock) /\ DonorLog(F)
<1>1. PICK e : e = EventOf(what, who)
  OBVIOUS
<1>2. e \in EventRecords /\ e.what # "start" /\ ~OfDonor(e)
  BY <1>1 DEF EventOf, EventRecords, OfDonor
<1>3. E \in Seq(EventRecords) /\ F = Append(E, e)
  BY <1>1 DEF LockLog
<1> QED
  BY <1>2, <1>3, LockRequest, DonorUntouched

\* The place after the last is that of the request, and the others keep theirs.
LEMMA RequestPlaced ==
  ASSUME NEW E \in Seq(EventRecords), NEW length, length = Len(E),
         NEW what \in {"reserve", "request", "done"}, NEW who \in {"base", "compared"}
  PROVE  \A F : F = Append(E, EventOf(what, who)) =>
            /\ Len(F) = length + 1 /\ DOMAIN F = 1..(length + 1) /\ DOMAIN E = 1..length
            /\ IsRequest(F, length + 1, what, who)
            /\ \A i \in 1..length : F[i] = E[i]
<1>1. PICK e : e = EventOf(what, who)
  OBVIOUS
<1>2. SUFFICES ASSUME NEW F, F = Append(E, e)
               PROVE  /\ Len(F) = length + 1 /\ DOMAIN F = 1..(length + 1) /\ DOMAIN E = 1..length
                      /\ IsRequest(F, length + 1, what, who)
                      /\ \A i \in 1..length : F[i] = E[i]
  BY <1>1
<1>3. e \in EventRecords
  BY <1>1 DEF EventOf, EventRecords
<1>4. /\ Len(F) = Len(E) + 1 /\ DOMAIN F = 1..(Len(E) + 1) /\ DOMAIN E = 1..Len(E)
      /\ F[Len(E) + 1] = e /\ \A i \in 1..Len(E) : F[i] = E[i] /\ Len(E) \in Nat
  BY <1>2, <1>3, EventAppended
<1> QED
  BY <1>1, <1>4 DEF IsRequest

\* The collector asks beside nobody.
LEMMA BaseLog ==
  ASSUME GateTypeOK, LogInv, ReserveIdle \/ AskBase
  PROVE  LogInv'
<1>1. PICK E \in Seq(EventRecords), length \in Nat : E = gateEvents /\ Len(E) = length
  BY DEF LogInv, LockLog
<1>2. CASE ReserveIdle
  <2>1. /\ gatePc.at = "reserve" /\ gateLock = "none" /\ gateLock' = "collector" /\ gatePc'.at = "base"
        /\ gatePc'.run = gatePc.run /\ gateEvents' = Append(E, EventOf("reserve", "base"))
        /\ UNCHANGED <<gateWaiting, gateDonor>>
    BY <1>1, <1>2 DEF ReserveIdle, Happens, GateTo, GateTypeOK, PcRecords, collectorOnly
  <2>2. PICK F : F = Append(E, EventOf("reserve", "base"))
    OBVIOUS
  <2>3. gateEvents' = F
    BY <2>1, <2>2
  <2>4. LockLog(E, "collector")
    <3>1. \A who \in Evaluations : gateLock = who => ~JudgingIn(E, who, Len(E))
      BY <2>1 DEF Evaluations
    <3> QED
      BY <1>1, <3>1, LockPassed DEF LogInv
  <2>5. LockLog(F, "collector") /\ DonorLog(F)
    BY <1>1, <2>2, <2>4, RequestLogged DEF LogInv
  <2>7. gatePc.run = "contention"
    BY <2>1 DEF LogInv
  <2>6. PairLog(F, "base")
    <3>2. OnlyJudges(E, 1..length)
      BY <1>1, <2>1, <2>7 DEF LogInv, PairLog
    <3>3. /\ Len(F) = length + 1 /\ IsRequest(F, length + 1, "reserve", "base")
          /\ \A i \in 1..length : F[i] = E[i]
      <4>1. \A f : f = Append(E, EventOf("reserve", "base")) => Len(f) = length + 1
        BY <1>1, RequestPlaced
      <4>2. \A f : f = Append(E, EventOf("reserve", "base")) => DOMAIN f = 1..(length + 1)
        BY <1>1, RequestPlaced
      <4>3. \A f : f = Append(E, EventOf("reserve", "base")) => IsRequest(f, length + 1, "reserve", "base")
        BY <1>1, RequestPlaced
      <4>4. \A f : f = Append(E, EventOf("reserve", "base")) => (\A i \in 1..length : f[i] = E[i])
        BY <1>1, RequestPlaced
      <4> QED
        BY <1>1, <2>2, <4>1, <4>2, <4>3, <4>4
    <3>4. OnlyJudges(F, 1..(Len(F) - 1))
      BY <3>2, <3>3 DEF OnlyJudges
    <3> QED
      BY <3>3, <3>4 DEF PairLog
  <2> QED
    BY <2>1, <2>3, <2>5, <2>6, <2>7 DEF LogInv
<1>3. CASE AskBase
  <2>1. /\ gatePc.at = "base" /\ gateLock = "collector" /\ gateLock' = gateLock /\ gatePc'.at = "base_stream"
        /\ gatePc'.run = gatePc.run /\ gateEvents' = Append(E, EventOf("request", "base"))
        /\ UNCHANGED <<gateWaiting, gateDonor>>
    BY <1>1, <1>3 DEF AskBase, Happens, GateTo, GateTypeOK, PcRecords, collectorOnly, LogInv
  <2>2. PICK F : F = Append(E, EventOf("request", "base"))
    OBVIOUS
  <2>3. gateEvents' = F
    BY <2>1, <2>2
  <2>4. LockLog(F, "collector") /\ DonorLog(F)
    BY <1>1, <2>1, <2>2, RequestLogged DEF LogInv
  <2>5. gatePc.run = "contention"
    BY <2>1 DEF LogInv
  <2>6. PairLog(F, "base_stream")
    <3>1. IsRequest(E, length, "reserve", "base") /\ OnlyJudges(E, 1..(length - 1))
      BY <1>1, <2>1, <2>5 DEF LogInv, PairLog
    <3>2. /\ Len(F) = length + 1 /\ IsRequest(F, length + 1, "request", "base")
          /\ \A i \in 1..length : F[i] = E[i]
          /\ DOMAIN E = 1..length /\ DOMAIN F = 1..(length + 1)
      <4>1. \A f : f = Append(E, EventOf("request", "base")) => Len(f) = length + 1
        BY <1>1, RequestPlaced
      <4>2. \A f : f = Append(E, EventOf("request", "base")) => DOMAIN f = 1..(length + 1)
        BY <1>1, RequestPlaced
      <4>3. \A f : f = Append(E, EventOf("request", "base")) => IsRequest(f, length + 1, "request", "base")
        BY <1>1, RequestPlaced
      <4>4. \A f : f = Append(E, EventOf("request", "base")) => (\A i \in 1..length : f[i] = E[i])
        BY <1>1, RequestPlaced
      <4>5. DOMAIN E = 1..length
        BY <1>1
      <4> QED
        BY <1>1, <2>2, <4>1, <4>2, <4>3, <4>4, <4>5
    <3>5. IsRequest(F, length, "reserve", "base")
      BY <3>1, <3>2 DEF IsRequest
    <3>3. Len(F) - 1 = length /\ Len(F) - 2 = length - 1 /\ \A i \in 1..(length - 1) : i \in 1..length
      BY <3>2
    <3>4. OnlyJudges(F, 1..(Len(F) - 2))
      BY <3>1, <3>2, <3>3 DEF OnlyJudges
    <3> QED
      BY <3>2, <3>3, <3>4, <3>5 DEF PairLog
  <2> QED
    BY <2>1, <2>3, <2>4, <2>5, <2>6 DEF LogInv
<1> QED
  BY <1>2, <1>3

\* The answer beside nobody is complete.
LEMMA AnswerLog ==
  ASSUME GateTypeOK, LogInv, BaseAnswered
  PROVE  LogInv'
<1>1. PICK E \in Seq(EventRecords), length \in Nat : E = gateEvents /\ Len(E) = length
  BY DEF LogInv, LockLog
<1>2. /\ gatePc.at = "base_stream" /\ gateLock = "collector" /\ gateLock' = "none"
      /\ gatePc'.run = gatePc.run /\ UNCHANGED gateDonor
      /\ \/ gatePc'.at = "base_evaluation" /\ gateEvents' = Append(E, EventOf("done", "base"))
         \/ gatePc'.at = "drain" /\ UNCHANGED gateEvents
  BY <1>1 DEF BaseAnswered, Happens, GateRaises, GateTo, GateTypeOK, PcRecords, collectorOnly, LogInv
<1>3. gatePc.run = "contention"
  BY <1>2 DEF LogInv
<1>4. \A who \in Evaluations : ~JudgingIn(E, who, length)
  BY <1>1, <1>2 DEF LogInv, LockLog, Evaluations
<1>5. LockLog(E, "none") /\ LockLog(E, "collector") /\ DonorLog(E)
  BY <1>1, <1>4, LockPassed DEF LogInv
<1>6. CASE gatePc'.at = "drain" /\ UNCHANGED gateEvents
  <2>1. PairLog(gateEvents, "drain")
    BY QuietLog DEF QuietPlaces
  <2> QED
    BY <1>1, <1>2, <1>3, <1>5, <1>6, <2>1 DEF LogInv
<1>7. CASE gatePc'.at = "base_evaluation" /\ gateEvents' = Append(E, EventOf("done", "base"))
  <2>1. PICK F : F = Append(E, EventOf("done", "base"))
    OBVIOUS
  <2>2. gateEvents' = F
    BY <1>7, <2>1
  <2>3. LockLog(F, "none") /\ DonorLog(F)
    BY <1>5, <2>1, RequestLogged
  <2>4. /\ IsRequest(E, length - 1, "reserve", "base") /\ IsRequest(E, length, "request", "base")
        /\ OnlyJudges(E, 1..(length - 2))
    BY <1>1, <1>2, <1>3 DEF LogInv, PairLog
  <2>5. PICK d \in Nat : d = length + 1 /\ d - 1 = length /\ d - 2 = length - 1
    OBVIOUS
  <2>12. /\ DOMAIN F = 1..d /\ DOMAIN E = 1..length /\ IsRequest(F, d, "done", "base")
         /\ \A i \in 1..length : F[i] = E[i]
    <3>1. \A f : f = Append(E, EventOf("done", "base")) => Len(f) = length + 1
      BY <1>1, RequestPlaced
    <3>2. \A f : f = Append(E, EventOf("done", "base")) => DOMAIN f = 1..(length + 1)
      BY <1>1, RequestPlaced
    <3>3. \A f : f = Append(E, EventOf("done", "base")) => IsRequest(f, length + 1, "done", "base")
      BY <1>1, RequestPlaced
    <3>4. \A f : f = Append(E, EventOf("done", "base")) => (\A i \in 1..length : f[i] = E[i])
      BY <1>1, RequestPlaced
    <3>5. DOMAIN E = 1..length
      BY <1>1
    <3> QED
      BY <1>1, <2>1, <2>5, <3>1, <3>2, <3>3, <3>4, <3>5
  <2>6. /\ DOMAIN F = 1..d /\ DOMAIN E = 1..length /\ IsRequest(F, d, "done", "base")
        /\ IsRequest(F, d - 1, "request", "base") /\ IsRequest(F, d - 2, "reserve", "base")
        /\ \A i \in 1..length : F[i] = E[i]
    BY <2>4, <2>5, <2>12 DEF IsRequest
  <2>7. d - 2 \in Nat /\ d \in DOMAIN F
    BY <2>4, <2>5, <2>6 DEF IsRequest
  <2>8. OnlyJudges(F, DOMAIN F \ {d - 2, d - 1, d})
    <3>1. \A i \in DOMAIN F \ {d - 2, d - 1, d} : i \in 1..(length - 2) /\ i \in 1..length
      BY <2>5, <2>6
    <3> QED
      BY <2>4, <2>6, <3>1 DEF OnlyJudges
  <2>9. ASSUME NEW who \in Evaluations PROVE ~JudgingIn(F, who, d - 1) /\ ~JudgingIn(F, who, d)
    <3>1. PICK e : e = EventOf("done", "base")
      OBVIOUS
    <3>2. e \in EventRecords /\ e.what # "start" /\ F = Append(E, e)
      BY <2>1, <3>1 DEF EventOf, EventRecords
    <3>3. length \in 0..Len(E) /\ d = Len(F)
      BY <1>1, <2>5, <3>2, EventAppended
    <3>4. JudgingIn(F, who, length) <=> JudgingIn(E, who, length)
      BY <1>1, <3>2, <3>3, JudgingKept
    <3>5. JudgingIn(F, who, d) => JudgingIn(E, who, length)
      BY <1>1, <3>2, <3>3, NoneBusier
    <3> QED
      BY <1>4, <2>5, <3>4, <3>5
  <2>10. BaseAsked(F, d)
    BY <2>6, <2>7, <2>8, <2>9, Zenon DEF BaseAsked
  <2>11. PairLog(F, "base_evaluation")
    BY <2>7, <2>10 DEF PairLog
  <2> QED
    BY <1>2, <1>3, <1>7, <2>2, <2>3, <2>11 DEF LogInv
<1> QED
  BY <1>2, <1>6, <1>7

\* The request beside the donor's judge.
LEMMA ComparedLog ==
  ASSUME GateTypeOK, LogInv, AskCompared \/ ComparedAnswered
  PROVE  LogInv'
<1>1. PICK E \in Seq(EventRecords), length \in Nat : E = gateEvents /\ Len(E) = length
  BY DEF LogInv, LockLog
<1>2. CASE AskCompared
  <2>1. /\ gatePc.at = "compared" /\ UNCHANGED gateLock /\ gatePc'.at = "compared_stream"
        /\ gatePc'.run = gatePc.run /\ gateEvents' = Append(E, EventOf("request", "compared"))
        /\ UNCHANGED <<gateWaiting, gateDonor>>
    BY <1>1, <1>2 DEF AskCompared, Happens, GateTo, GateTypeOK, PcRecords, collectorOnly
  <2>2. PICK F : F = Append(E, EventOf("request", "compared"))
    OBVIOUS
  <2>3. gateEvents' = F
    BY <2>1, <2>2
  <2>4. LockLog(F, gateLock) /\ DonorLog(F)
    BY <1>1, <2>2, RequestLogged DEF LogInv
  <2>5. IsRequest(F, length + 1, "request", "compared") /\ DOMAIN F = 1..(length + 1)
    <3>1. \A f : f = Append(E, EventOf("request", "compared")) => Len(f) = length + 1
      BY <1>1, RequestPlaced
    <3>2. \A f : f = Append(E, EventOf("request", "compared")) => DOMAIN f = 1..(length + 1)
      BY <1>1, RequestPlaced
    <3>3. \A f : f = Append(E, EventOf("request", "compared")) => IsRequest(f, length + 1, "request", "compared")
      BY <1>1, RequestPlaced
    <3>4. \A f : f = Append(E, EventOf("request", "compared")) => (\A i \in 1..length : f[i] = E[i])
      BY <1>1, RequestPlaced
    <3> QED
      BY <1>1, <2>2, <3>1, <3>2, <3>3, <3>4
  <2>6. PairLog(F, "compared_stream")
    BY <2>5 DEF PairLog
  <2>7. gatePc.run = "contention"
    BY <2>1 DEF LogInv
  <2> QED
    BY <2>1, <2>3, <2>4, <2>6, <2>7 DEF LogInv
<1>3. CASE ComparedAnswered
  <2>1. /\ gatePc.at = "compared_stream" /\ UNCHANGED <<gateLock, gateDonor>> /\ gatePc'.run = gatePc.run
        /\ \/ gatePc'.at = "compared_evaluation" /\ gateEvents' = Append(E, EventOf("done", "compared"))
           \/ gatePc'.at = "drain" /\ UNCHANGED gateEvents
    BY <1>1, <1>3 DEF ComparedAnswered, Happens, GateRaises, GateTo, GateTypeOK, PcRecords, collectorOnly
  <2>4. gatePc.run = "contention"
    BY <2>1 DEF LogInv
  <2>2. CASE gatePc'.at = "drain" /\ UNCHANGED gateEvents
    <3>1. PairLog(gateEvents, "drain")
      BY QuietLog DEF QuietPlaces
    <3> QED
      BY <2>1, <2>2, <2>4, <3>1 DEF LogInv
  <2>3. CASE gatePc'.at = "compared_evaluation" /\ gateEvents' = Append(E, EventOf("done", "compared"))
    <3>1. PICK F : F = Append(E, EventOf("done", "compared"))
      OBVIOUS
    <3>2. gateEvents' = F
      BY <2>3, <3>1
    <3>3. LockLog(F, gateLock) /\ DonorLog(F)
      BY <1>1, <3>1, RequestLogged DEF LogInv
    <3>4. IsRequest(F, length + 1, "done", "compared") /\ DOMAIN F = 1..(length + 1)
      <4>1. \A f : f = Append(E, EventOf("done", "compared")) => Len(f) = length + 1
        BY <1>1, RequestPlaced
      <4>2. \A f : f = Append(E, EventOf("done", "compared")) => DOMAIN f = 1..(length + 1)
        BY <1>1, RequestPlaced
      <4>3. \A f : f = Append(E, EventOf("done", "compared")) => IsRequest(f, length + 1, "done", "compared")
        BY <1>1, RequestPlaced
      <4>4. \A f : f = Append(E, EventOf("done", "compared")) => (\A i \in 1..length : f[i] = E[i])
        BY <1>1, RequestPlaced
      <4> QED
        BY <1>1, <3>1, <4>1, <4>2, <4>3, <4>4
    <3>5. PairLog(F, "compared_evaluation")
      <4>2. PICK q \in DOMAIN E : IsRequest(E, q, "request", "compared")
        BY <1>1, <2>1, <2>4 DEF LogInv, PairLog
      <4>4. DOMAIN E \subseteq DOMAIN F /\ \A i \in DOMAIN E : F[i] = E[i]
        BY <1>1, <3>1, RequestPlaced
      <4>3. q \in DOMAIN F /\ IsRequest(F, q, "request", "compared")
        BY <4>2, <4>4 DEF IsRequest
      <4> QED
        BY <3>4, <4>3 DEF PairLog
    <3> QED
      BY <2>1, <2>3, <2>4, <3>2, <3>3, <3>5 DEF LogInv
  <2> QED
    BY <2>1, <2>2, <2>3
<1> QED
  BY <1>2, <1>3

\* A pair, or its first half, is over.
LEMMA SampleLog ==
  ASSUME GateTypeOK, LogInv, BaseEvaluated \/ JoinDonor
  PROVE  LogInv'
<1>1. /\ UNCHANGED gateLock /\ gatePc'.run = gatePc.run
      /\ gatePc'.at \in {"watch", "drain", "reserve", "finally"}
      /\ gateEvents' = OthersEvents \/ (UNCHANGED gateEvents /\ gatePc'.at = "drain")
      /\ gatePc.at \in {"base_evaluation", "compared_evaluation"}
  <2>1. CASE BaseEvaluated
    BY <2>1 DEF BaseEvaluated, GateRaises, GateTo, GateTypeOK, PcRecords
  <2>2. CASE JoinDonor
    BY <2>2 DEF JoinDonor, GateRaises, GateTo, GateTypeOK, PcRecords
  <2> QED
    BY <2>1, <2>2
<1>2. PICK F : F = gateEvents'
  OBVIOUS
<1>3. /\ LockLog(F, gateLock) /\ DonorLog(F)
      /\ gatePc'.at = "drain" \/ OnlyJudges(F, 1..Len(F))
  BY <1>1, <1>2, OthersLog DEF LogInv
<1>4. PairLog(F, gatePc'.at)
  BY <1>1, <1>3, QuietLog DEF QuietPlaces, Before
<1>5. gatePc.run = "contention"
  BY <1>1 DEF LogInv
<1> QED
  BY <1>1, <1>2, <1>3, <1>4, <1>5 DEF LogInv

---------------------------------------------------------------------------
(* The samples are of complete blocks and pairs *)

\* A sample joins the others.
LEMMA RowAppended ==
  ASSUME NEW S, NEW R \in Seq(S), NEW row, NEW F, F = Append(R, row)
  PROVE  /\ F \in Seq(S \cup {row}) /\ DOMAIN R = 1..Len(R) /\ DOMAIN F = 1..(Len(R) + 1) /\ Len(R) \in Nat
         /\ F[Len(R) + 1] = row
         /\ \A i \in 1..Len(R) : F[i] = R[i]
<1>1. R \in Seq(S \cup {row}) /\ row \in S \cup {row}
  OBVIOUS
<1> QED
  BY <1>1, Appended

\* The last request of a block.
LEMMA LastAsked ==
  /\ LastOrdinal \in Nat
  /\ \A ordinal \in Nat : ordinal + 1 < GateWarmups + GatePairs \div 2 => ordinal + 1 <= LastOrdinal
  /\ \A ordinal \in Nat : ~(ordinal + 1 < GateWarmups + GatePairs \div 2) => LastOrdinal <= ordinal
<1>1. PICK asked \in Nat : asked = GateWarmups + GatePairs \div 2
  <2>1. GateWarmups \in Nat /\ GatePairs \in Nat
    BY GateBounds
  <2>2. GatePairs \div 2 \in Nat
    BY <2>1
  <2> QED
    BY <2>1, <2>2
<1>2. LastOrdinal = Max({0, asked - 1})
  <2>1. PICK half \in Nat, warmups \in Nat : half = GatePairs \div 2 /\ warmups = GateWarmups
    BY GateBounds
  <2>2. warmups + half - 1 = asked - 1
    BY <1>1, <2>1
  <2>3. GateWarmups + GatePairs \div 2 - 1 = asked - 1
    BY <2>1, <2>2, Zenon
  <2> QED
    BY <2>3, Zenon DEF LastOrdinal
<1>3. /\ Max({0, asked - 1}) \in {0, asked - 1}
      /\ 0 <= Max({0, asked - 1}) /\ asked - 1 <= Max({0, asked - 1})
  <2>1. {0, asked - 1} \subseteq (-1)..asked /\ {0, asked - 1} # {} /\ -1 \in Int /\ asked \in Int
    OBVIOUS
  <2> QED
    BY <2>1, IntegerExtremes
<1>4. PICK last \in Int : last = LastOrdinal /\ last \in {0, asked - 1} /\ 0 <= last /\ asked - 1 <= last
  BY <1>2, <1>3
<1> QED
  BY <1>1, <1>4

\* Each block is asked by a runtime of its own; what is done before and after the requests.
LEMMA BlockSteps ==
  ASSUME NEW rows, NEW at, NEW block, NEW ordinal, NEW instance,
         CrossSamples(rows, at, block, ordinal, instance)
  PROVE  /\ at = "start" => CrossSamples(rows, "down", block, ordinal, instance)
         /\ at = "down" => CrossSamples(rows, "up", block, ordinal, instance)
         /\ at = "up" => CrossSamples(rows, "instance", block, ordinal, instance + 1)
         /\ at = "instance" => CrossSamples(rows, "ask", block, ordinal, instance)
         /\ at = "ask" => CrossSamples(rows, "ask", block, ordinal, instance + 1)
         /\ at = "finally" /\ block < 4 => CrossSamples(rows, "down", block + 1, 0, instance)
         /\ at = "finally" /\ ~(block < 4) => CrossSamples(rows, "judge", block, ordinal, instance)
         /\ at = "judge" /\ (\A n \in DOMAIN rows : rows[n].evidence = (rows[n].mode = "on")) =>
               CrossSamples(rows, "accepted", block, ordinal, instance)
<1>1. /\ block \in 1..4 /\ ordinal \in 0..LastOrdinal /\ instance \in Nat /\ LastOrdinal \in Nat
      /\ \A n \in DOMAIN rows : rows[n].block \in 1..4 /\ rows[n].worker \in Nat
  BY LastAsked DEF CrossSamples, CrossoverRow
<1>2. at = "start" => CrossSamples(rows, "down", block, ordinal, instance)
  BY <1>1 DEF CrossSamples
<1>3. at = "down" => CrossSamples(rows, "up", block, ordinal, instance)
  BY <1>1 DEF CrossSamples
<1>4. at = "up" => CrossSamples(rows, "instance", block, ordinal, instance + 1)
  BY <1>1 DEF CrossSamples
<1>5. at = "instance" => CrossSamples(rows, "ask", block, ordinal, instance)
  BY <1>1 DEF CrossSamples
<1>6. at = "ask" => CrossSamples(rows, "ask", block, ordinal, instance + 1)
  BY <1>1 DEF CrossSamples
<1>7. at = "finally" /\ block < 4 => CrossSamples(rows, "down", block + 1, 0, instance)
  BY <1>1 DEF CrossSamples
<1>8. at = "finally" /\ ~(block < 4) => CrossSamples(rows, "judge", block, ordinal, instance)
  BY <1>1 DEF CrossSamples
<1>9. at = "judge" /\ (\A n \in DOMAIN rows : rows[n].evidence = (rows[n].mode = "on")) =>
               CrossSamples(rows, "accepted", block, ordinal, instance)
  BY <1>1 DEF CrossSamples
<1> QED
  BY <1>2, <1>3, <1>4, <1>5, <1>6, <1>7, <1>8, <1>9

\* A request of a block, the last of it or not.
LEMMA BlockAsked ==
  ASSUME NEW S, NEW rows \in Seq(S), NEW block, NEW ordinal, NEW instance,
         CrossSamples(rows, "ask", block, ordinal, instance),
         NEW row, CrossoverRow(row), row.block = block, row.ordinal = ordinal, row.worker = instance,
         NEW F, F = Append(rows, row)
  PROVE  IF ordinal + 1 < GateWarmups + GatePairs \div 2
         THEN CrossSamples(F, "ask", block, ordinal + 1, instance)
         ELSE CrossSamples(F, "finally", block, ordinal, instance)
<1>1. /\ block \in 1..4 /\ ordinal \in 0..LastOrdinal /\ instance \in Nat /\ LastOrdinal \in Nat
      /\ \A n \in DOMAIN rows : rows[n].block \in 1..4 /\ rows[n].worker \in Nat
  BY LastAsked DEF CrossSamples, CrossoverRow
<1>2. PICK length \in Nat : /\ DOMAIN rows = 1..length /\ DOMAIN F = 1..(length + 1) /\ F[length + 1] = row
                            /\ \A i \in 1..length : F[i] = rows[i]
  <2>1. \A f : f = Append(rows, row) =>
          /\ DOMAIN f = 1..(Len(rows) + 1) /\ f[Len(rows) + 1] = row
          /\ \A i \in 1..Len(rows) : f[i] = rows[i]
    BY RowAppended
  <2>2. DOMAIN rows = 1..Len(rows) /\ Len(rows) \in Nat
    OBVIOUS
  <2>3. /\ DOMAIN F = 1..(Len(rows) + 1) /\ F[Len(rows) + 1] = row
        /\ \A i \in 1..Len(rows) : F[i] = rows[i]
    BY <2>1, Zenon
  <2> QED
    BY <2>2, <2>3, Zenon
<1>3. \A n \in DOMAIN F : CrossoverRow(F[n]) /\ F[n].block <= block /\ F[n].worker <= instance
  BY <1>1, <1>2 DEF CrossSamples
<1>4. \A n \in DOMAIN F : F[n].block < block => F[n].worker < instance
  BY <1>1, <1>2 DEF CrossSamples
<1>5. \A n, m \in DOMAIN F : F[n].block < F[m].block => F[n].worker < F[m].worker
  <2>1. SUFFICES ASSUME NEW n \in DOMAIN F, NEW m \in DOMAIN F, F[n].block < F[m].block
                 PROVE  F[n].worker < F[m].worker
    OBVIOUS
  <2>2. CASE n = length + 1
    BY <1>1, <1>2, <1>3, <2>1, <2>2, SMTT(40) DEF CrossoverRow
  <2>3. CASE m = length + 1 /\ n # length + 1
    BY <1>1, <1>2, <1>4, <2>1, <2>3
  <2>4. CASE m # length + 1 /\ n # length + 1
    <3>1. \A i, j \in DOMAIN rows : rows[i].block < rows[j].block => rows[i].worker < rows[j].worker
      BY Zenon DEF CrossSamples
    <3>2. n \in DOMAIN rows /\ m \in DOMAIN rows /\ F[n] = rows[n] /\ F[m] = rows[m]
      BY <1>2, <2>4
    <3> QED
      BY <2>1, <3>1, <3>2, Zenon
  <2> QED
    BY <2>2, <2>3, <2>4
<1>6. \A b, asked : Asked(rows, b, asked) => Asked(F, b, asked)
  BY <1>2 DEF Asked
<1>7. \A asked \in 0..ordinal : Asked(F, block, asked)
  <2>1. SUFFICES ASSUME NEW asked \in 0..ordinal PROVE Asked(F, block, asked)
    OBVIOUS
  <2>2. CASE asked = ordinal
    BY <1>2, <2>2 DEF Asked
  <2>3. CASE asked \in 0..(ordinal - 1)
    BY <1>6, <2>3 DEF CrossSamples
  <2> QED
    BY <1>1, <2>2, <2>3
<1>8. \A b \in 1..4 : b < block => \A asked \in 0..LastOrdinal : Asked(F, b, asked)
  BY <1>6 DEF CrossSamples
<1>9. CASE ordinal + 1 < GateWarmups + GatePairs \div 2
  <2>1. ordinal + 1 \in 0..LastOrdinal /\ (ordinal + 1) - 1 = ordinal
    <3>1. ordinal \in Nat /\ LastOrdinal \in Nat
      BY <1>1
    <3>2. ordinal + 1 <= LastOrdinal
      BY <1>9, <3>1, LastAsked, Zenon
    <3> QED
      BY <3>1, <3>2
  <2> QED
    BY <1>1, <1>3, <1>4, <1>5, <1>7, <1>8, <1>9, <2>1 DEF CrossSamples
<1>10. CASE ~(ordinal + 1 < GateWarmups + GatePairs \div 2)
  <2>1. \A asked \in 0..LastOrdinal : asked \in 0..ordinal
    BY <1>1, <1>10, LastAsked
  <2> QED
    BY <1>1, <1>3, <1>4, <1>5, <1>7, <1>8, <1>10, <2>1 DEF CrossSamples
<1> QED
  BY <1>9, <1>10

\* What is done before and after a pair.
LEMMA PairSteps ==
  ASSUME NEW rows, NEW at, NEW block, PairSamples(rows, at, block)
  PROVE  /\ at = "up" => PairSamples(rows, "instance", block)
         /\ at = "instance" => PairSamples(rows, "reserve", block)
         /\ at = "reserve" => PairSamples(rows, "base", block)
         /\ at = "base" => PairSamples(rows, "base_stream", block)
         /\ at = "base_stream" => PairSamples(rows, "base_evaluation", block)
         /\ at = "watch" => PairSamples(rows, "compared", block)
         /\ at = "compared" => PairSamples(rows, "compared_stream", block)
         /\ at = "compared_stream" => PairSamples(rows, "compared_evaluation", block)
         /\ at = "finally" => PairSamples(rows, "judge", block)
         /\ at = "judge" /\ ContentionOf(rows) => PairSamples(rows, "accepted", block)
BY DEF PairSamples, PairPlaces, ContentionOf

\* A query was asked beside no evaluation.
LEMMA BaseSampled ==
  ASSUME NEW S, NEW rows \in Seq(S), NEW block, PairSamples(rows, "base_evaluation", block),
         NEW row, PairRow(row), row.mode = "uncontended", row.query = block, NEW F, F = Append(rows, row)
  PROVE  PairSamples(F, "watch", block)
<1>1. PICK length \in Nat : /\ DOMAIN rows = 1..length /\ DOMAIN F = 1..(length + 1) /\ F[length + 1] = row
                            /\ \A i \in 1..length : F[i] = rows[i]
  BY RowAppended
<1>2. \A mode, q : Sampled(rows, mode, q) => Sampled(F, mode, q)
  BY <1>1 DEF Sampled
<1>3. Sampled(F, "uncontended", block)
  BY <1>1 DEF Sampled
<1>4. \A n \in DOMAIN F : PairRow(F[n])
  BY <1>1 DEF PairSamples
<1> QED
  BY <1>2, <1>3, <1>4 DEF PairSamples, PairPlaces

\* It was asked again beside a judge.
LEMMA PairSampled ==
  ASSUME NEW S, NEW rows \in Seq(S), NEW block, PairSamples(rows, "compared_evaluation", block),
         NEW row, PairRow(row), row.mode = "contended", row.query = block, NEW F, F = Append(rows, row)
  PROVE  IF block < GatePairs THEN PairSamples(F, "reserve", block + 1) ELSE PairSamples(F, "finally", block)
<1>1. PICK length \in Nat : /\ DOMAIN rows = 1..length /\ DOMAIN F = 1..(length + 1) /\ F[length + 1] = row
                            /\ \A i \in 1..length : F[i] = rows[i]
  BY RowAppended
<1>2. \A mode, q : Sampled(rows, mode, q) => Sampled(F, mode, q)
  BY <1>1 DEF Sampled
<1>3. Sampled(F, "contended", block)
  BY <1>1 DEF Sampled
<1>4. \A n \in DOMAIN F : PairRow(F[n])
  BY <1>1 DEF PairSamples
<1>5. block \in Nat \ {0} /\ GatePairs \in Nat
  BY GateBounds DEF PairSamples
<1>6. \A q \in 1..block : Sampled(F, "contended", q) /\ Sampled(F, "uncontended", q)
  <2>1. SUFFICES ASSUME NEW q \in 1..block PROVE Sampled(F, "contended", q) /\ Sampled(F, "uncontended", q)
    OBVIOUS
  <2>2. CASE q = block
    BY <1>2, <1>3, <2>2 DEF PairSamples
  <2>3. CASE q \in 1..(block - 1)
    BY <1>2, <2>3 DEF PairSamples
  <2> QED
    BY <1>5, <2>2, <2>3
<1>7. CASE block < GatePairs
  <2>1. (block + 1) - 1 = block /\ block + 1 \in Nat \ {0}
    BY <1>5
  <2> QED
    BY <1>4, <1>6, <1>7, <2>1 DEF PairSamples, PairPlaces
<1>8. CASE ~(block < GatePairs)
  <2>1. (\A q \in 1..GatePairs : q \in 1..block) /\ (\A q \in 1..(block - 1) : q \in 1..block)
    BY <1>5, <1>8
  <2> QED
    BY <1>4, <1>5, <1>6, <1>8, <2>1 DEF PairSamples, PairPlaces
<1> QED
  BY <1>7, <1>8
\* The collector goes on with the samples it has.
LEMMA RowsAdvanced ==
  ASSUME RowsInv, UNCHANGED gateRows, gatePc'.run = gatePc.run,
         gatePc.run = "functional" => gatePc'.at # "accepted" /\ gatePc'.block = gatePc.block
                                      /\ gatePc'.ordinal = gatePc.ordinal,
         gatePc.run = "crossover" /\ gatePc'.at \notin Stopped =>
             CrossSamples(gateRows, gatePc'.at, gatePc'.block, gatePc'.ordinal, gateRuntime'.instance),
         gatePc.run = "contention" /\ gatePc'.at \notin Stopped =>
             PairSamples(gateRows, gatePc'.at, gatePc'.block)
  PROVE  RowsInv'
<1>1. PICK R, p : R = gateRows /\ p = gatePc'
  OBVIOUS
<1>2. gateRows' = R
  BY <1>1
<1>3. \E S : gateRows' \in Seq(S)
  BY <1>1, <1>2 DEF RowsInv
<1>4. gatePc'.run = "functional" =>
          gatePc'.at # "accepted" /\ gateRows' = <<>> /\ gatePc'.block = 1 /\ gatePc'.ordinal = 0
  BY <1>1, <1>2 DEF RowsInv
<1> QED
  BY <1>1, <1>2, <1>3, <1>4 DEF RowsInv

\* A collection that stops has no samples to speak of.
LEMMA RowsStopped ==
  ASSUME RowsInv, UNCHANGED gateRows, gatePc'.run = gatePc.run, gatePc'.at \in Stopped,
         gatePc'.block = gatePc.block, gatePc'.ordinal = gatePc.ordinal
  PROVE  RowsInv'
BY RowsAdvanced DEF Stopped

\* A step that only moves the collector.
LEMMA Moved ==
  ASSUME GateTypeOK, NEW at, GateTo(at)
  PROVE  /\ gatePc'.at = at /\ gatePc'.run = gatePc.run /\ gatePc'.block = gatePc.block
         /\ gatePc'.ordinal = gatePc.ordinal
BY DEF GateTypeOK, GateTo, PcRecords

\* The end of a collection, whatever its result.
LEMMA Finished ==
  ASSUME GateTypeOK, NEW result, GateEnded(result)
  PROVE  /\ gatePc'.at = "ended" /\ gatePc'.run = gatePc.run /\ gatePc'.block = gatePc.block
         /\ gatePc'.ordinal = gatePc.ordinal
BY DEF GateTypeOK, GateEnded, PcRecords

\* The runtime is stopped, started and identified before the first request.
LEMMA RuntimeRows ==
  ASSUME GateTypeOK, SampleInv, StopFirst \/ StartRuntime \/ ReadInstance \/ RuntimeRestarts
  PROVE  RowsInv'
<1>1. RowsInv /\ LogInv
  BY DEF SampleInv
<1>2. ASSUME gatePc.run = "crossover", gatePc.at \notin Stopped
      PROVE  CrossSamples(gateRows, gatePc.at, gatePc.block, gatePc.ordinal, gateRuntime.instance)
  BY <1>1, <1>2 DEF RowsInv
<1>3. ASSUME gatePc.run = "contention", gatePc.at \notin Stopped
      PROVE  PairSamples(gateRows, gatePc.at, gatePc.block)
  BY <1>1, <1>3 DEF RowsInv
<1>4. CASE StopFirst
  <2>1. gatePc.at = "down" /\ UNCHANGED gateRows /\ gateRuntime'.instance = gateRuntime.instance
        /\ (GateTo("up") \/ GateTo("drain"))
    BY <1>4 DEF StopFirst, GateRaises, GateTypeOK, RuntimeRecords
  <2>2. CASE GateTo("drain")
    BY <1>1, <2>1, <2>2, Moved, RowsStopped DEF Stopped
  <2>3. CASE GateTo("up")
    <3>1. gatePc.run = "crossover" =>
              CrossSamples(gateRows, "up", gatePc.block, gatePc.ordinal, gateRuntime.instance)
      BY <1>2, <2>1, BlockSteps DEF Stopped
    <3>2. gatePc.run # "contention"
      BY <1>3, <2>1 DEF Stopped, PairSamples, PairPlaces
    <3> QED
      BY <1>1, <2>1, <2>3, <3>1, <3>2, Moved, RowsAdvanced
  <2> QED
    BY <2>1, <2>2, <2>3
<1>5. CASE StartRuntime
  <2>1. /\ gatePc.at = "up" /\ UNCHANGED gateRows
        /\ \/ /\ gateRuntime'.instance = gateRuntime.instance + 1
              /\ GateTo(IF gatePc.run = "functional" THEN "ask" ELSE "instance")
           \/ GateTo("drain")
    BY <1>5 DEF StartRuntime, GateRaises, StartedRuntime
  <2>2. CASE GateTo("drain")
    BY <1>1, <2>1, <2>2, Moved, RowsStopped DEF Stopped
  <2>3. CASE /\ gateRuntime'.instance = gateRuntime.instance + 1
             /\ GateTo(IF gatePc.run = "functional" THEN "ask" ELSE "instance")
    <3>1. gatePc.run = "crossover" =>
              CrossSamples(gateRows, "instance", gatePc.block, gatePc.ordinal, gateRuntime.instance + 1)
      BY <1>2, <2>1, BlockSteps DEF Stopped
    <3>2. gatePc.run = "contention" => PairSamples(gateRows, "instance", gatePc.block)
      BY <1>3, <2>1, PairSteps DEF Stopped
    <3>3. /\ gatePc'.at = IF gatePc.run = "functional" THEN "ask" ELSE "instance"
          /\ gatePc'.run = gatePc.run /\ gatePc'.block = gatePc.block /\ gatePc'.ordinal = gatePc.ordinal
      BY <2>3, Moved
    <3> QED
      BY <1>1, <2>1, <2>3, <3>1, <3>2, <3>3, RowsAdvanced
  <2> QED
    BY <2>1, <2>2, <2>3
<1>6. CASE ReadInstance
  <2>1. /\ gatePc.at = "instance" /\ UNCHANGED <<gateRows, gateRuntime>>
        /\ \/ /\ gatePc'.at = (CASE gatePc.run = "functional" -> "valid"
                                 [] gatePc.run = "crossover" -> "ask"
                                 [] OTHER -> "reserve")
              /\ gatePc'.run = gatePc.run /\ gatePc'.block = gatePc.block
              /\ gatePc'.ordinal = gatePc.ordinal
           \/ GateTo("drain")
    BY <1>6 DEF ReadInstance, GateRaises, GateTypeOK, PcRecords
  <2>2. CASE GateTo("drain")
    BY <1>1, <2>1, <2>2, Moved, RowsStopped DEF Stopped
  <2>3. CASE ~GateTo("drain")
    <3>1. gatePc.run = "crossover" =>
              CrossSamples(gateRows, "ask", gatePc.block, gatePc.ordinal, gateRuntime.instance)
      BY <1>2, <2>1, BlockSteps DEF Stopped
    <3>2. gatePc.run = "contention" => PairSamples(gateRows, "reserve", gatePc.block)
      BY <1>3, <2>1, PairSteps DEF Stopped
    <3>3. /\ gatePc.run = "functional" => gatePc'.at = "valid"
          /\ gatePc.run = "crossover" => gatePc'.at = "ask"
          /\ gatePc.run = "contention" => gatePc'.at = "reserve"
      BY <2>1, <2>3
    <3> QED
      BY <1>1, <2>1, <2>3, <3>1, <3>2, <3>3, RowsAdvanced
  <2> QED
    BY <2>2, <2>3
<1>7. CASE RuntimeRestarts
  <2>1. gatePc.at = "ask" /\ UNCHANGED <<gateRows, gatePc>>
        /\ gateRuntime'.instance = gateRuntime.instance + 1
    BY <1>7 DEF RuntimeRestarts, GateTypeOK, RuntimeRecords
  <2>2. gatePc.run = "crossover" =>
            CrossSamples(gateRows, "ask", gatePc.block, gatePc.ordinal, gateRuntime.instance + 1)
    BY <1>2, <2>1, BlockSteps DEF Stopped
  <2>3. gatePc.run # "contention"
    BY <1>3, <2>1 DEF Stopped, PairSamples, PairPlaces
  <2> QED
    BY <1>1, <2>1, <2>2, <2>3, RowsAdvanced
<1> QED
  BY <1>4, <1>5, <1>6, <1>7

\* A request of a block, or of the functional run.
LEMMA AskRows ==
  ASSUME GateTypeOK, SampleInv, AskSample
  PROVE  RowsInv'
<1>1. RowsInv /\ LogInv
  BY DEF SampleInv
<1>2. CASE gatePc.run = "functional" /\ GateGoes /\ GateTo("instance") /\ UNCHANGED gateRows
  BY <1>1, <1>2, Moved, RowsAdvanced
<1>3. CASE GateRaises /\ UNCHANGED gateRows
  BY <1>1, <1>3, Moved, RowsStopped DEF GateRaises, Stopped
<1>4. CASE /\ gatePc.run = "crossover"
           /\ \E slow \in IF IsWarmup \/ BlockModes[gatePc.block] = "off" THEN {FALSE} ELSE BOOLEAN,
                sound \in BOOLEAN :
               /\ gateRows' = Append(gateRows, CrossoverSample(sound))
               /\ IF sound THEN GateGoes ELSE GateFails
           /\ gatePc' = IF gatePc.ordinal + 1 < GateWarmups + GatePairs \div 2
                        THEN [gatePc EXCEPT !.ordinal = @ + 1]
                        ELSE [gatePc EXCEPT !.at = "finally"]
  <2>1. PICK sound \in BOOLEAN : gateRows' = Append(gateRows, CrossoverSample(sound))
    BY <1>4
  <2>2. gatePc.at = "ask" /\ UNCHANGED gateRuntime
    BY DEF AskSample
  <2>3. PICK row : row = CrossoverSample(sound)
    OBVIOUS
  <2>4. PICK R : R = gateRows
    OBVIOUS
  <2>5. PICK S : R \in Seq(S)
    BY <1>1, <2>4 DEF RowsInv
  <2>6. PICK F : F = Append(R, row)
    OBVIOUS
  <2>7. gateRows' = F /\ F \in Seq(S \cup {row})
    <3>1. \A f : f = Append(R, row) => f \in Seq(S \cup {row})
      BY <2>5, RowAppended
    <3> QED
      BY <2>1, <2>3, <2>4, <2>6, <3>1
  <2>8. CrossSamples(R, "ask", gatePc.block, gatePc.ordinal, gateRuntime.instance)
    BY <1>1, <1>4, <2>2, <2>4 DEF RowsInv, Stopped
  <2>9. PICK block \in 1..4, ordinal \in Nat, instance \in Nat :
          block = gatePc.block /\ ordinal = gatePc.ordinal /\ instance = gateRuntime.instance
    BY <2>8, LastAsked DEF CrossSamples
  <2>10. /\ row.block = block /\ row.ordinal = ordinal /\ row.worker = instance
         /\ row.mode = BlockModes[block] /\ row.query = QueryOf(ordinal)
         /\ row.pair = <<(block + 1) \div 2, QueryOf(ordinal)>>
    BY <2>3, <2>9 DEF CrossoverSample, ScheduleIndex, QueryOf
  <2>11. ordinal \in 0..LastOrdinal
    BY <2>8, <2>9 DEF CrossSamples
  <2>12. CrossoverRow(row)
    BY <2>9, <2>10, <2>11, Zenon DEF CrossoverRow
  <2>13. IF ordinal + 1 < GateWarmups + GatePairs \div 2
         THEN CrossSamples(F, "ask", block, ordinal + 1, instance)
         ELSE CrossSamples(F, "finally", block, ordinal, instance)
    BY <2>5, <2>6, <2>8, <2>9, <2>10, <2>12, BlockAsked
  <2>14. CASE ordinal + 1 < GateWarmups + GatePairs \div 2
    <3>1. gatePc'.at = "ask" /\ gatePc'.run = "crossover" /\ gatePc'.block = block
          /\ gatePc'.ordinal = ordinal + 1
      BY <1>4, <2>2, <2>9, <2>14 DEF GateTypeOK, PcRecords
    <3>2. CrossSamples(gateRows', gatePc'.at, gatePc'.block, gatePc'.ordinal, gateRuntime'.instance)
      BY <2>2, <2>7, <2>9, <2>13, <2>14, <3>1
    <3> QED
      BY <2>7, <3>1, <3>2 DEF RowsInv
  <2>15. CASE ~(ordinal + 1 < GateWarmups + GatePairs \div 2)
    <3>1. gatePc'.at = "finally" /\ gatePc'.run = "crossover" /\ gatePc'.block = block
          /\ gatePc'.ordinal = ordinal
      BY <1>4, <2>2, <2>9, <2>15 DEF GateTypeOK, PcRecords
    <3>2. CrossSamples(gateRows', gatePc'.at, gatePc'.block, gatePc'.ordinal, gateRuntime'.instance)
      BY <2>2, <2>7, <2>9, <2>13, <2>15, <3>1
    <3> QED
      BY <2>7, <3>1, <3>2 DEF RowsInv
  <2> QED
    BY <2>14, <2>15
<1> QED
  BY <1>2, <1>3, <1>4 DEF AskSample

\* A block, or the contention of the pairs, has been asked.
LEMMA StoppedRows ==
  ASSUME GateTypeOK, SampleInv, ValidateAsk \/ Drain \/ StopRuntime \/ GateKilled
  PROVE  RowsInv'
<1>1. RowsInv /\ LogInv
  BY DEF SampleInv
<1>2. ASSUME gatePc.run = "crossover", gatePc.at \notin Stopped
      PROVE  CrossSamples(gateRows, gatePc.at, gatePc.block, gatePc.ordinal, gateRuntime.instance)
  BY <1>1, <1>2 DEF RowsInv
<1>3. ASSUME gatePc.run = "contention", gatePc.at \notin Stopped
      PROVE  PairSamples(gateRows, gatePc.at, gatePc.block)
  BY <1>1, <1>3 DEF RowsInv
<1>4. CASE ValidateAsk
  <2>1. gatePc.at = "valid" /\ UNCHANGED gateRows /\ (GateTo("finally") \/ GateTo("drain"))
    BY <1>4 DEF ValidateAsk, GateRaises
  <2>2. gatePc.run = "functional"
    BY <1>2, <1>3, <2>1 DEF CrossSamples, PairSamples, PairPlaces, Stopped, GateTypeOK, PcRecords
  <2> QED
    BY <1>1, <2>1, <2>2, Moved, RowsAdvanced
<1>5. CASE Drain
  BY <1>1, <1>5, Moved, RowsStopped DEF Drain, Stopped
<1>6. CASE GateKilled
  BY <1>1, <1>6, Finished, RowsStopped DEF GateKilled, Stopped
<1>7. CASE StopRuntime
  <2>1. gatePc.at \in {"finally", "failing"} /\ UNCHANGED gateRows
        /\ gateRuntime'.instance = gateRuntime.instance
    BY <1>7 DEF StopRuntime, GateTypeOK, RuntimeRecords
  <2>2. \/ GateEnded("refused")
        \/ /\ gatePc.at = "finally" /\ gatePc.run = "crossover" /\ gatePc.block < 4
           /\ gatePc' = [gatePc EXCEPT !.at = "down", !.block = @ + 1, !.ordinal = 0]
        \/ /\ gatePc.at = "finally" /\ ~(gatePc.run = "crossover" /\ gatePc.block < 4) /\ GateTo("judge")
    BY <1>7, <2>1 DEF StopRuntime
  <2>3. CASE GateEnded("refused")
    BY <1>1, <2>1, <2>3, Finished, RowsStopped DEF Stopped
  <2>4. CASE /\ gatePc.at = "finally" /\ gatePc.run = "crossover" /\ gatePc.block < 4
             /\ gatePc' = [gatePc EXCEPT !.at = "down", !.block = @ + 1, !.ordinal = 0]
    <3>1. CrossSamples(gateRows, "down", gatePc.block + 1, 0, gateRuntime.instance)
      BY <1>2, <2>4, BlockSteps DEF Stopped
    <3>2. gatePc'.at = "down" /\ gatePc'.run = gatePc.run /\ gatePc'.block = gatePc.block + 1
          /\ gatePc'.ordinal = 0
      BY <2>4 DEF GateTypeOK, PcRecords
    <3> QED
      BY <1>1, <2>1, <2>4, <3>1, <3>2, RowsAdvanced
  <2>5. CASE /\ gatePc.at = "finally" /\ ~(gatePc.run = "crossover" /\ gatePc.block < 4)
             /\ GateTo("judge")
    <3>1. gatePc.run = "crossover" =>
              CrossSamples(gateRows, "judge", gatePc.block, gatePc.ordinal, gateRuntime.instance)
      BY <1>2, <2>5, BlockSteps DEF Stopped
    <3>2. gatePc.run = "contention" => PairSamples(gateRows, "judge", gatePc.block)
      BY <1>3, <2>5, PairSteps DEF Stopped
    <3> QED
      BY <1>1, <2>1, <2>5, <3>1, <3>2, Moved, RowsAdvanced
  <2> QED
    BY <2>2, <2>3, <2>4, <2>5
<1> QED
  BY <1>4, <1>5, <1>6, <1>7

\* A pair is asked; its samples come later.
LEMMA PairRows ==
  ASSUME GateTypeOK, SampleInv,
         ReserveIdle \/ AskBase \/ BaseAnswered \/ WatchDonor \/ AskCompared \/ ComparedAnswered
  PROVE  RowsInv'
<1>1. RowsInv /\ LogInv
  BY DEF SampleInv
<1>2. /\ UNCHANGED gateRows
      /\ \/ GateTo("drain")
         \/ gatePc.at = "reserve" /\ GateTo("base")
         \/ gatePc.at = "base" /\ GateTo("base_stream")
         \/ gatePc.at = "base_stream" /\ GateTo("base_evaluation")
         \/ gatePc.at = "watch" /\ GateTo("compared")
         \/ gatePc.at = "compared" /\ GateTo("compared_stream")
         \/ gatePc.at = "compared_stream" /\ GateTo("compared_evaluation")
  BY DEF ReserveIdle, AskBase, BaseAnswered, WatchDonor, AskCompared, ComparedAnswered, GateRaises
<1>3. CASE GateTo("drain")
  BY <1>1, <1>2, <1>3, Moved, RowsStopped DEF Stopped
<1>4. CASE ~GateTo("drain")
  <2>1. gatePc.run = "contention"
    BY <1>1, <1>2, <1>4 DEF LogInv, GateTypeOK, PcRecords
  <2>2. PairSamples(gateRows, gatePc.at, gatePc.block)
    BY <1>1, <1>2, <1>4, <2>1 DEF RowsInv, Stopped
  <2>3. PICK at : GateTo(at) /\ PairSamples(gateRows, at, gatePc.block)
    BY <1>2, <1>4, <2>2, PairSteps
  <2> QED
    BY <1>1, <1>2, <2>1, <2>3, Moved, RowsAdvanced
<1> QED
  BY <1>3, <1>4

\* The collection goes to its next run, or to its verdict.
LEMMA PhaseRows ==
  ASSUME GateTypeOK, SampleInv, FunctionalPasses \/ StartPerformance \/ ValidateSamples \/ ConcludePhase
  PROVE  RowsInv'
<1>1. RowsInv /\ LogInv
  BY DEF SampleInv
<1>2. ASSUME gatePc.run = "crossover", gatePc.at \notin Stopped
      PROVE  CrossSamples(gateRows, gatePc.at, gatePc.block, gatePc.ordinal, gateRuntime.instance)
  BY <1>1, <1>2 DEF RowsInv
<1>3. ASSUME gatePc.run = "contention", gatePc.at \notin Stopped
      PROVE  PairSamples(gateRows, gatePc.at, gatePc.block)
  BY <1>1, <1>3 DEF RowsInv
<1>4. CASE FunctionalPasses
  <2>1. gatePc.run = "functional" /\ UNCHANGED <<gateRows, gateRuntime>>
        /\ (GateEnded("refused") \/ gatePc' = [gatePc EXCEPT !.run = "crossover", !.at = "start"])
    BY <1>4 DEF FunctionalPasses, GateAt
  <2>2. CASE GateEnded("refused")
    BY <1>1, <2>1, <2>2, Finished, RowsStopped DEF Stopped
  <2>3. CASE gatePc' = [gatePc EXCEPT !.run = "crossover", !.at = "start"]
    <3>1. gatePc'.run = "crossover" /\ gatePc'.at = "start" /\ gatePc'.block = 1 /\ gatePc'.ordinal = 0
          /\ gateRows' = <<>>
      BY <1>1, <2>1, <2>3 DEF GateTypeOK, PcRecords, RowsInv
    <3>2. gateRuntime'.instance \in Nat
      BY <2>1 DEF GateTypeOK, RuntimeRecords
    <3>3. \A instance \in Nat : CrossSamples(<<>>, "start", 1, 0, instance)
      BY LastAsked DEF CrossSamples
    <3>4. \E S : gateRows' \in Seq(S)
      BY <1>1, <2>1 DEF RowsInv
    <3> QED
      BY <3>1, <3>2, <3>3, <3>4 DEF RowsInv
  <2> QED
    BY <2>1, <2>2, <2>3
<1>5. CASE StartPerformance
  <2>1. gatePc.at = "start" /\ UNCHANGED <<gateRows, gateRuntime>>
        /\ (GateEnded("refused") \/ GateTo("down"))
    BY <1>5 DEF StartPerformance
  <2>2. CASE GateEnded("refused")
    BY <1>1, <2>1, <2>2, Finished, RowsStopped DEF Stopped
  <2>3. CASE GateTo("down")
    <3>1. gatePc.run = "crossover" =>
              CrossSamples(gateRows, "down", gatePc.block, gatePc.ordinal, gateRuntime.instance)
      BY <1>2, <2>1, BlockSteps DEF Stopped
    <3>2. gatePc.run # "contention"
      BY <1>3, <2>1 DEF Stopped, PairSamples, PairPlaces
    <3> QED
      BY <1>1, <2>1, <2>3, <3>1, <3>2, Moved, RowsAdvanced
  <2> QED
    BY <2>1, <2>2, <2>3
<1>6. CASE ValidateSamples
  <2>1. gatePc.at = "judge" /\ gatePc.run # "functional" /\ UNCHANGED <<gateRows, gateRuntime>>
        /\ \/ GateEnded("refused")
           \/ GateTo("accepted") /\ IF gatePc.run = "crossover" THEN CrossoverValid ELSE ContentionValid
    BY <1>6 DEF ValidateSamples
  <2>2. CASE GateEnded("refused")
    BY <1>1, <2>1, <2>2, Finished, RowsStopped DEF Stopped
  <2>3. CASE GateTo("accepted") /\ IF gatePc.run = "crossover" THEN CrossoverValid ELSE ContentionValid
    <3>1. gatePc.run = "crossover" =>
              CrossSamples(gateRows, "accepted", gatePc.block, gatePc.ordinal, gateRuntime.instance)
      <4>1. ASSUME gatePc.run = "crossover"
            PROVE  CrossSamples(gateRows, "accepted", gatePc.block, gatePc.ordinal, gateRuntime.instance)
        <5>1. \A n \in DOMAIN gateRows : gateRows[n].evidence = (gateRows[n].mode = "on")
          BY <2>3, <4>1 DEF CrossoverValid
        <5> QED
          BY <1>2, <2>1, <4>1, <5>1, BlockSteps DEF Stopped
      <4> QED
        BY <4>1
    <3>2. gatePc.run = "contention" => PairSamples(gateRows, "accepted", gatePc.block)
      <4>1. ASSUME gatePc.run = "contention"
            PROVE  PairSamples(gateRows, "accepted", gatePc.block)
        <5>1. ContentionOf(gateRows)
          BY <2>3, <4>1 DEF ContentionValid, ContentionOf
        <5> QED
          BY <1>3, <2>1, <4>1, <5>1, PairSteps DEF Stopped
      <4> QED
        BY <4>1
    <3> QED
      BY <1>1, <2>1, <2>3, <3>1, <3>2, Moved, RowsAdvanced
  <2> QED
    BY <2>1, <2>2, <2>3
<1>7. CASE ConcludePhase
  <2>1. gatePc.at = "accepted" /\ gateRows' = <<>>
        /\ \/ \E result : GateEnded(result)
           \/ gatePc.run = "crossover" /\ gatePc' = [gatePc EXCEPT !.run = "contention", !.at = "up", !.block = 1]
    BY <1>7 DEF ConcludePhase
  <2>2. \E S : gateRows' \in Seq(S)
    <3>1. <<>> \in Seq(Nat)
      OBVIOUS
    <3> QED
      BY <2>1, <3>1
  <2>3. gatePc.run # "functional"
    BY <1>1, <2>1 DEF RowsInv
  <2>4. CASE \E result : GateEnded(result)
    BY <2>2, <2>3, <2>4, Finished DEF RowsInv, Stopped
  <2>5. CASE gatePc.run = "crossover" /\ gatePc' = [gatePc EXCEPT !.run = "contention", !.at = "up", !.block = 1]
    <3>1. gatePc'.run = "contention" /\ gatePc'.at = "up" /\ gatePc'.block = 1
      BY <2>5 DEF GateTypeOK, PcRecords
    <3>2. PairSamples(<<>>, "up", 1)
      BY DEF PairSamples, PairPlaces
    <3> QED
      BY <2>1, <2>2, <3>1, <3>2 DEF RowsInv
  <2> QED
    BY <2>1, <2>4, <2>5
<1> QED
  BY <1>4, <1>5, <1>6, <1>7

\* Where the requests of a pair are in its log.
LEMMA BasePlaces ==
  ASSUME NEW d \in DOMAIN gateEvents, BaseAsked(gateEvents, d)
  PROVE  PlaceOf("request", "base") = d - 1 /\ PlaceOf("done", "base") = d
<1>1. /\ d - 2 \in Nat /\ d - 2 \in DOMAIN gateEvents /\ d - 1 \in DOMAIN gateEvents
      /\ gateEvents[d - 2] = EventOf("reserve", "base") /\ gateEvents[d - 1] = EventOf("request", "base")
      /\ gateEvents[d] = EventOf("done", "base")
      /\ \A n \in DOMAIN gateEvents \ {d - 2, d - 1, d} : gateEvents[n].n > 0
  BY DEF BaseAsked, IsRequest, OnlyJudges
<1>2. \A what, who : EventOf(what, who).n = 0 /\ EventOf(what, who).what = what
  BY DEF EventOf
<1>3. \A n \in DOMAIN gateEvents : gateEvents[n] = EventOf("request", "base") => n = d - 1
  <2>1. SUFFICES ASSUME NEW n \in DOMAIN gateEvents, gateEvents[n] = EventOf("request", "base"), n # d - 1
                 PROVE  FALSE
    OBVIOUS
  <2>2. gateEvents[n].n = 0 /\ gateEvents[n].what = "request"
    BY <1>2, <2>1
  <2>3. n # d - 2 /\ n # d
    <3>1. gateEvents[d - 2].what = "reserve" /\ gateEvents[d].what = "done"
      BY <1>1, <1>2
    <3> QED
      BY <2>2, <3>1
  <2>4. gateEvents[n].n > 0
    BY <1>1, <2>1, <2>3
  <2> QED
    BY <2>2, <2>4
<1>4. \A n \in DOMAIN gateEvents : gateEvents[n] = EventOf("done", "base") => n = d
  <2>1. SUFFICES ASSUME NEW n \in DOMAIN gateEvents, gateEvents[n] = EventOf("done", "base"), n # d
                 PROVE  FALSE
    OBVIOUS
  <2>2. gateEvents[n].n = 0 /\ gateEvents[n].what = "done"
    BY <1>2, <2>1
  <2>3. n # d - 2 /\ n # d - 1
    <3>1. gateEvents[d - 2].what = "reserve" /\ gateEvents[d - 1].what = "request"
      BY <1>1, <1>2
    <3> QED
      BY <2>2, <3>1
  <2>4. gateEvents[n].n > 0
    BY <1>1, <2>1, <2>3
  <2> QED
    BY <2>2, <2>4
<1> QED
  BY <1>1, <1>3, <1>4, Zenon DEF PlaceOf

\* A request beside none was disturbed by none.
LEMMA BaseRow ==
  ASSUME SampleInv, gatePc.run = "contention", gatePc.at = "base_evaluation"
  PROVE  PairRow(BaseSample) /\ BaseSample.mode = "uncontended" /\ BaseSample.query = gatePc.block
<1>1. PICK d \in DOMAIN gateEvents : BaseAsked(gateEvents, d)
  BY DEF SampleInv, LogInv, PairLog
<1>2. PlaceOf("request", "base") = d - 1 /\ PlaceOf("done", "base") = d
  BY <1>1, BasePlaces
<1>3. d \in Nat /\ \A who \in Evaluations : ~JudgingIn(gateEvents, who, d - 1) /\ ~JudgingIn(gateEvents, who, d)
  BY <1>1 DEF BaseAsked, SampleInv, LogInv, LockLog
<1>4. \A n \in (d - 1)..d : \A who \in Evaluations : ~JudgingIn(gateEvents, who, n)
  <2>1. \A n \in (d - 1)..d : n = d - 1 \/ n = d
    BY <1>3
  <2> QED
    BY <1>3, <2>1
<1>5. Undisturbed
  BY <1>2, <1>4, LogRead, Zenon DEF Undisturbed
<1>6. /\ BaseSample.mode = "uncontended" /\ BaseSample.query = gatePc.block
      /\ BaseSample.undisturbed = Undisturbed
  BY DEF BaseSample
<1> QED
  BY <1>5, <1>6 DEF PairRow

\* A request after the start of a judge request and before its end is beside it.
LEMMA BesideJudge ==
  ASSUME NEW E \in Seq(EventRecords), DonorLog(E), NEW seen, NEW start \in DOMAIN E, NEW end \in DOMAIN E,
         E[start] = DonorStart(seen), E[end].what # "start", E[end].who = "donor", E[end].n = seen,
         NEW q \in DOMAIN E, start < q, q < end
  PROVE  JudgingIn(E, "donor", q)
<1>1. /\ E[start].what = "start" /\ E[start].who = "donor" /\ E[start].n = seen
  BY DEF DonorStart
<1>2. \A i \in DOMAIN E : E[i] \in EventRecords /\ i \in Nat /\ i > 0
  OBVIOUS
<1>3. \A i \in DOMAIN E : E[i].who = "donor" => OfDonor(E[i])
  BY <1>2, EventFields DEF OfDonor
<1>4. ASSUME NEW j \in (start + 1)..q, E[j].who = "donor", E[j].n = seen
      PROVE  FALSE
  <2>1. j \in DOMAIN E /\ j # start /\ j # end
    <3>1. PICK length \in Nat : DOMAIN E = 1..length
      OBVIOUS
    <3> QED
      BY <1>2, <1>4, <3>1
  <2>2. OfDonor(E[j]) /\ OfDonor(E[start]) /\ OfDonor(E[end])
    BY <1>1, <1>3, <1>4, <2>1
  <2>3. CASE E[j].what = "start"
    BY <1>1, <1>4, <2>1, <2>2, <2>3, Zenon DEF DonorLog
  <2>4. CASE E[j].what # "start"
    BY <1>4, <2>1, <2>2, <2>4, Zenon DEF DonorLog
  <2> QED
    BY <2>3, <2>4
<1>5. start \in 1..q
  BY <1>2
<1> QED
  BY <1>1, <1>4, <1>5, Zenon DEF JudgingIn

\* The other request of a pair was beside the donor's judge, if it overlapped it.
LEMMA ComparedRow ==
  ASSUME SampleInv, gatePc.run = "contention", gatePc.at = "compared_evaluation",
         NEW judge \in JudgeInterval
  PROVE  /\ PairRow(ContendedSample(judge)) /\ ContendedSample(judge).mode = "contended"
         /\ ContendedSample(judge).query = gatePc.block
<1>1. PICK E \in Seq(EventRecords) : E = gateEvents /\ DonorLog(E)
  BY DEF SampleInv, LogInv, LockLog
<1>2. PICK start \in DOMAIN E, end \in DOMAIN E :
        /\ judge[1] = start /\ judge[2] = end
        /\ E[start] = DonorStart(gateSeen) /\ E[end].what \in {"end", "refused"} /\ E[end].who = "donor"
        /\ E[end].n = gateSeen
  BY <1>1 DEF JudgeInterval
<1>3. PICK q \in DOMAIN E : q = PlaceOf("request", "compared")
  <2>1. \E place \in DOMAIN E : E[place] = EventOf("request", "compared")
    BY <1>1 DEF SampleInv, LogInv, PairLog, IsRequest
  <2> QED
    BY <1>1, <2>1 DEF PlaceOf
<1>4. PICK done \in DOMAIN E : done = PlaceOf("done", "compared")
  <2>1. \E place \in DOMAIN E : E[place] = EventOf("done", "compared")
    BY <1>1 DEF SampleInv, LogInv, PairLog, IsRequest
  <2> QED
    BY <1>1, <2>1 DEF PlaceOf
<1>5. /\ ContendedSample(judge).mode = "contended" /\ ContendedSample(judge).query = gatePc.block
      /\ ContendedSample(judge).after = (judge[1] < PlaceOf("request", "compared"))
      /\ ContendedSample(judge).during =
            (PlaceOf("request", "compared") < Min({PlaceOf("done", "compared"), judge[2]}))
      /\ ContendedSample(judge).beside = JudgingAt("donor", PlaceOf("request", "compared"))
  BY DEF ContendedSample
<1>6. Min({done, end}) <= end /\ Min({done, end}) \in Int
  <2>1. PICK length \in Nat : DOMAIN E = 1..length
    BY <1>1
  <2>2. {done, end} \subseteq 1..length /\ {done, end} # {} /\ 1 \in Int /\ length \in Int
    BY <2>1
  <2>3. \A S : S = {done, end} => Min(S) \in S /\ \A x \in S : Min(S) <= x
    BY <2>2, IntegerExtremes
  <2>4. Min({done, end}) \in {done, end} /\ \A x \in {done, end} : Min({done, end}) <= x
    BY <2>3, Zenon
  <2>5. done \in Int /\ end \in Int
    BY <2>2
  <2> QED
    BY <2>4, <2>5, Zenon
<1>7. ASSUME RequestOverlaps(ContendedSample(judge))
      PROVE  ContendedSample(judge).beside
  <2>1. start < q /\ q < Min({done, end})
    BY <1>2, <1>3, <1>4, <1>5, <1>7, Zenon DEF RequestOverlaps
  <2>2. q < end
    <3>1. PICK least \in Int : least = Min({done, end})
      BY <1>6
    <3>2. q \in Int /\ end \in Int
      BY <1>1
    <3> QED
      BY <1>6, <2>1, <3>1, <3>2
  <2>3. JudgingIn(E, "donor", q)
    <3>1. E[end].what # "start"
      BY <1>2
    <3> QED
      BY <1>1, <1>2, <2>1, <2>2, <3>1, BesideJudge
  <2> QED
    BY <1>1, <1>3, <1>5, <2>3, LogRead, Zenon
<1> QED
  BY <1>5, <1>7 DEF PairRow

\* A sample of a pair.
LEMMA SampleRows ==
  ASSUME GateTypeOK, SampleInv, BaseEvaluated \/ JoinDonor
  PROVE  RowsInv'
<1>1. RowsInv /\ LogInv
  BY DEF SampleInv
<1>2. gatePc.at \in {"base_evaluation", "compared_evaluation"}
  BY DEF BaseEvaluated, JoinDonor
<1>3. gatePc.run = "contention" /\ PairSamples(gateRows, gatePc.at, gatePc.block)
  BY <1>1, <1>2 DEF LogInv, RowsInv, Stopped, GateTypeOK, PcRecords
<1>4. PICK R : R = gateRows
  OBVIOUS
<1>5. PICK S : R \in Seq(S)
  BY <1>1, <1>4 DEF RowsInv
<1>6. PICK block \in Nat : block = gatePc.block
  BY DEF GateTypeOK, PcRecords
<1>7. \A row, F : F = Append(R, row) => F \in Seq(S \cup {row})
  BY <1>5, RowAppended
<1>8. CASE UNCHANGED gateRows /\ GateTo("drain")
  BY <1>1, <1>8, Moved, RowsStopped DEF Stopped
<1>9. CASE BaseEvaluated /\ ~(UNCHANGED gateRows /\ GateTo("drain"))
  <2>1. gateRows' = Append(gateRows, BaseSample) /\ GateTo("watch") /\ gatePc.at = "base_evaluation"
    BY <1>9 DEF BaseEvaluated, GateRaises
  <2>2. PICK row : row = BaseSample
    OBVIOUS
  <2>3. PairRow(row) /\ row.mode = "uncontended" /\ row.query = block
    BY <1>3, <1>6, <2>1, <2>2, BaseRow
  <2>4. PICK F : F = Append(R, row)
    OBVIOUS
  <2>5. gateRows' = F
    BY <1>4, <2>1, <2>2, <2>4
  <2>6. PairSamples(F, "watch", block)
    BY <1>3, <1>4, <1>5, <1>6, <2>1, <2>3, <2>4, BaseSampled
  <2>7. \E T : F \in Seq(T)
    BY <1>7, <2>4
  <2> QED
    BY <1>3, <1>6, <2>1, <2>5, <2>6, <2>7, Moved DEF RowsInv
<1>10. CASE JoinDonor /\ ~(UNCHANGED gateRows /\ GateTo("drain"))
  <2>1. /\ gatePc.at = "compared_evaluation"
        /\ \E judge \in JudgeInterval : gateRows' = Append(gateRows, ContendedSample(judge))
        /\ gatePc' = IF gatePc.block < GatePairs
                     THEN [gatePc EXCEPT !.at = "reserve", !.block = @ + 1]
                     ELSE [gatePc EXCEPT !.at = "finally"]
    BY <1>10 DEF JoinDonor, GateRaises
  <2>2. PICK judge \in JudgeInterval : gateRows' = Append(gateRows, ContendedSample(judge))
    BY <2>1
  <2>3. PICK row : row = ContendedSample(judge)
    OBVIOUS
  <2>4. PairRow(row) /\ row.mode = "contended" /\ row.query = block
    BY <1>3, <1>6, <2>1, <2>3, ComparedRow
  <2>5. PICK F : F = Append(R, row)
    OBVIOUS
  <2>6. gateRows' = F
    BY <1>4, <2>2, <2>3, <2>5
  <2>7. IF block < GatePairs THEN PairSamples(F, "reserve", block + 1) ELSE PairSamples(F, "finally", block)
    BY <1>3, <1>4, <1>5, <1>6, <2>1, <2>4, <2>5, PairSampled
  <2>8. \E T : F \in Seq(T)
    BY <1>7, <2>5
  <2>9. /\ gatePc'.run = "contention"
        /\ gatePc'.at = IF block < GatePairs THEN "reserve" ELSE "finally"
        /\ gatePc'.block = IF block < GatePairs THEN block + 1 ELSE block
    BY <1>3, <1>6, <2>1 DEF GateTypeOK, PcRecords
  <2> QED
    BY <2>6, <2>7, <2>8, <2>9 DEF RowsInv
<1> QED
  BY <1>8, <1>9, <1>10

\* A collection begins with nothing measured.
LEMMA SampleStarts == GateInit => SampleInv
<1>1. SUFFICES ASSUME GateInit PROVE SampleInv
  OBVIOUS
<1>2. LogInv
  BY <1>1, EmptyLog DEF GateInit, LogInv, Evaluations
<1>3. RowsInv
  <2>1. <<>> \in Seq(Nat)
    OBVIOUS
  <2>2. \E S : gateRows \in Seq(S)
    BY <1>1, <2>1 DEF GateInit
  <2> QED
    BY <1>1, <2>2 DEF GateInit, RowsInv
<1> QED
  BY <1>2, <1>3 DEF SampleInv

\* What the evaluations do beside the collector leaves the samples alone.
LEMMA BesideRows ==
  ASSUME GateTypeOK, SampleInv,
         \/ DonorStep \/ (\E who \in Evaluations : EvaluationStep(who)) \/ StrangerStarts
         \/ UNCHANGED gateVars
  PROVE  RowsInv'
<1>1. RowsInv
  BY DEF SampleInv
<1>2. UNCHANGED <<gateRows, gatePc, gateRuntime>>
  BY DEF DonorStep, EvaluationStep, StrangerStarts, gateVars, collectorOnly
<1> QED
  BY <1>1, <1>2, RowsAdvanced DEF RowsInv

\* Every step keeps the log and the samples.
LEMMA SampleKeeps == GateTypeOK /\ SampleInv /\ [GateNext]_gateVars => SampleInv'
<1>1. SUFFICES ASSUME GateTypeOK, SampleInv, [GateNext]_gateVars PROVE LogInv' /\ RowsInv'
  BY DEF SampleInv
<1>2. LogInv
  BY <1>1 DEF SampleInv
<1>3. CASE \/ StopFirst \/ StartRuntime \/ ReadInstance \/ AskSample \/ ValidateAsk \/ Drain \/ StopRuntime
           \/ FunctionalPasses \/ StartPerformance \/ ValidateSamples \/ ConcludePhase
  BY <1>1, <1>2, <1>3, CollectLog, RuntimeRows, AskRows, StoppedRows, PhaseRows
<1>4. CASE ReserveIdle \/ AskBase \/ BaseAnswered \/ AskCompared \/ ComparedAnswered
  BY <1>1, <1>2, <1>4, BaseLog, AnswerLog, ComparedLog, PairRows
<1>5. CASE WatchDonor
  BY <1>1, <1>2, <1>5, CollectLog, PairRows
<1>6. CASE BaseEvaluated \/ JoinDonor
  BY <1>1, <1>2, <1>6, SampleLog, SampleRows
<1>7. CASE \/ DonorStep \/ (\E who \in Evaluations : EvaluationStep(who)) \/ StrangerStarts
           \/ UNCHANGED gateVars
  BY <1>1, <1>2, <1>7, BesideLog, BesideRows
<1>8. CASE GateKilled
  BY <1>1, <1>2, <1>8, BesideLog, StoppedRows
<1>9. CASE RuntimeRestarts
  BY <1>1, <1>2, <1>9, CollectLog, RuntimeRows
<1> QED
  BY <1>1, <1>3, <1>4, <1>5, <1>6, <1>7, <1>8, <1>9 DEF GateNext, GateStep, GateOthers

\* The blocks of a pair of blocks differ in their evidence, and one is on a later runtime.
LEMMA PartnerBlock ==
  ASSUME NEW b \in 1..4
  PROVE  \E c \in 1..4 : /\ c # b /\ (c + 1) \div 2 = (b + 1) \div 2
                         /\ (BlockModes[c] = "on") # (BlockModes[b] = "on")
<1>1. BlockModes[1] = "off" /\ BlockModes[2] = "on" /\ BlockModes[3] = "on" /\ BlockModes[4] = "off"
  BY DEF BlockModes
<1>2. (1 + 1) \div 2 = 1 /\ (2 + 1) \div 2 = 1 /\ (3 + 1) \div 2 = 2 /\ (4 + 1) \div 2 = 2
  OBVIOUS
<1>3. b = 1 \/ b = 2 \/ b = 3 \/ b = 4
  OBVIOUS
<1>4. CASE b = 1
  <2> WITNESS 2 \in 1..4
  <2> QED
    BY <1>1, <1>2, <1>4
<1>5. CASE b = 2
  <2> WITNESS 1 \in 1..4
  <2> QED
    BY <1>1, <1>2, <1>5
<1>6. CASE b = 3
  <2> WITNESS 4 \in 1..4
  <2> QED
    BY <1>1, <1>2, <1>6
<1>7. CASE b = 4
  <2> WITNESS 3 \in 1..4
  <2> QED
    BY <1>1, <1>2, <1>7
<1> QED
  BY <1>3, <1>4, <1>5, <1>6, <1>7

\* Each query of a complete crossover was asked without and with evidence.
LEMMA CrossMeasured ==
  ASSUME NEW rows, NEW ordinal, NEW instance, CrossSamples(rows, "accepted", 4, ordinal, instance),
         NEW n \in DOMAIN rows
  PROVE  \E m \in DOMAIN rows \ {n} :
            /\ rows[m].pair = rows[n].pair /\ rows[m].query = rows[n].query
            /\ rows[m].evidence # rows[n].evidence /\ rows[m].worker # rows[n].worker
<1>1. CrossoverRow(rows[n])
  BY DEF CrossSamples
<1>2. PICK b \in 1..4, asked \in 0..LastOrdinal : b = rows[n].block /\ asked = rows[n].ordinal
  BY <1>1 DEF CrossoverRow
<1>3. PICK c \in 1..4 : /\ c # b /\ (c + 1) \div 2 = (b + 1) \div 2
                        /\ (BlockModes[c] = "on") # (BlockModes[b] = "on")
  BY PartnerBlock
<1>4. Asked(rows, c, asked)
  <2>1. c < 4 \/ c = 4
    OBVIOUS
  <2>2. \A x \in 1..4 : x < 4 \/ x = 4 => \A o \in 0..LastOrdinal : Asked(rows, x, o)
    BY DEF CrossSamples
  <2> QED
    BY <2>1, <2>2
<1>5. PICK m \in DOMAIN rows : rows[m].block = c /\ rows[m].ordinal = asked
  BY <1>4 DEF Asked
<1>6. CrossoverRow(rows[m])
  BY DEF CrossSamples
<1>7. rows[m].pair = rows[n].pair /\ rows[m].query = rows[n].query
  <2>1. /\ rows[m].pair = <<(c + 1) \div 2, QueryOf(asked)>> /\ rows[m].query = QueryOf(asked)
        /\ rows[n].pair = <<(b + 1) \div 2, QueryOf(asked)>> /\ rows[n].query = QueryOf(asked)
    <3>1. /\ rows[m].pair = <<(rows[m].block + 1) \div 2, QueryOf(rows[m].ordinal)>>
          /\ rows[m].query = QueryOf(rows[m].ordinal)
      BY <1>6 DEF CrossoverRow
    <3>2. /\ rows[n].pair = <<(rows[n].block + 1) \div 2, QueryOf(rows[n].ordinal)>>
          /\ rows[n].query = QueryOf(rows[n].ordinal)
      BY <1>1 DEF CrossoverRow
    <3> QED
      BY <1>2, <1>5, <3>1, <3>2, Zenon
  <2> QED
    BY <1>3, <2>1, Zenon
<1>8. rows[m].evidence # rows[n].evidence
  <2>1. rows[m].evidence = (rows[m].mode = "on") /\ rows[n].evidence = (rows[n].mode = "on")
    BY DEF CrossSamples
  <2>2. rows[m].mode = BlockModes[c] /\ rows[n].mode = BlockModes[b]
    BY <1>1, <1>2, <1>5, <1>6 DEF CrossoverRow
  <2> QED
    BY <1>3, <2>1, <2>2
<1>9. rows[m].worker # rows[n].worker
  <2>1. rows[m].worker \in Nat /\ rows[n].worker \in Nat
    BY <1>1, <1>6 DEF CrossoverRow
  <2>2. c < b \/ b < c
    BY <1>3
  <2>3. \A i, j \in DOMAIN rows : rows[i].block < rows[j].block => rows[i].worker < rows[j].worker
    BY DEF CrossSamples
  <2>4. rows[m].worker < rows[n].worker \/ rows[n].worker < rows[m].worker
    BY <1>2, <1>5, <2>2, <2>3
  <2> QED
    BY <2>1, <2>4
<1>10. m # n
  BY <1>2, <1>3, <1>5
<1> QED
  BY <1>7, <1>8, <1>9, <1>10

\* Samples from which a verdict is calculated are what they are called
\* (non_regression_gate.py:657-858).
LEMMA SamplesAreMeasured == GateTypeOK /\ SampleInv => SamplesMeasured
<1>1. SUFFICES ASSUME GateTypeOK, SampleInv, gatePc.at = "accepted"
               PROVE  IF gatePc.run = "crossover"
                      THEN \A n \in DOMAIN gateRows : ~gateRows[n].warmup =>
                             \E m \in DOMAIN gateRows \ {n} :
                                /\ gateRows[m].pair = gateRows[n].pair
                                /\ gateRows[m].query = gateRows[n].query
                                /\ gateRows[m].evidence # gateRows[n].evidence
                                /\ gateRows[m].worker # gateRows[n].worker
                      ELSE /\ \A n \in DOMAIN gateRows :
                                IF gateRows[n].mode = "contended" THEN gateRows[n].beside
                                ELSE gateRows[n].undisturbed
                           /\ \A q \in 1..GatePairs :
                                {gateRows[n].mode : n \in {k \in DOMAIN gateRows : gateRows[k].query = q}}
                                    = {"contended", "uncontended"}
  BY DEF SamplesMeasured
<1>2. RowsInv
  BY <1>1 DEF SampleInv
<1>3. CASE gatePc.run = "crossover"
  <2>1. CrossSamples(gateRows, "accepted", gatePc.block, gatePc.ordinal, gateRuntime.instance)
    BY <1>1, <1>2, <1>3 DEF RowsInv, Stopped
  <2>2. gatePc.block = 4
    BY <2>1 DEF CrossSamples
  <2>3. \A n \in DOMAIN gateRows :
          \E m \in DOMAIN gateRows \ {n} :
              /\ gateRows[m].pair = gateRows[n].pair /\ gateRows[m].query = gateRows[n].query
              /\ gateRows[m].evidence # gateRows[n].evidence /\ gateRows[m].worker # gateRows[n].worker
    BY <2>1, <2>2, CrossMeasured
  <2> QED
    BY <1>3, <2>3, Zenon
<1>4. CASE gatePc.run = "contention"
  <2>1. PairSamples(gateRows, "accepted", gatePc.block)
    BY <1>1, <1>2, <1>4 DEF RowsInv, Stopped
  <2>2. /\ \A n \in DOMAIN gateRows : PairRow(gateRows[n])
        /\ \A q \in 1..GatePairs : Sampled(gateRows, "contended", q) /\ Sampled(gateRows, "uncontended", q)
        /\ ContentionOf(gateRows)
    BY <2>1 DEF PairSamples
  <2>3. \A n \in DOMAIN gateRows :
          IF gateRows[n].mode = "contended" THEN gateRows[n].beside ELSE gateRows[n].undisturbed
    BY <2>2 DEF PairRow, ContentionOf
  <2>4. ASSUME NEW q \in 1..GatePairs
        PROVE  {gateRows[n].mode : n \in {k \in DOMAIN gateRows : gateRows[k].query = q}}
                   = {"contended", "uncontended"}
    BY <2>2 DEF PairRow, Sampled
  <2> QED
    BY <1>4, <2>3, <2>4, Zenon
<1>5. gatePc.run # "functional"
  BY <1>1, <1>2 DEF RowsInv
<1> QED
  BY <1>1, <1>3, <1>4, <1>5 DEF GateTypeOK, PcRecords

---------------------------------------------------------------------------
(* The scratch diagnostic *)

Wizards == {"k", "p", "o"}
SaveOps == {"save", "edit", "fifo_a", "fifo_b", "p_save", "o_save"}
TaskRecords == [op : SaveOps \cup {"invalid", "delete"}, w : Wizards]
Texts == SaveOps \cup Uploads \cup {"o_upload", "invalid", ""}
ScratchChunks == (1..4) \X Texts
WizardRecords == [present : BOOLEAN, text : Texts, map : SUBSET ScratchChunks,
                  store : SUBSET ScratchChunks, stray : SUBSET ScratchChunks]

ScratchTypeOK ==
    /\ wizards \in [Wizards -> WizardRecords]
    /\ tasks \in Seq(TaskRecords) /\ finished \in Seq(TaskRecords)
    /\ step \in 1..47 /\ known \in Seq(Wizards)
    /\ verdict \in [script : {"running", "failed", "passed"}, cleanup : SUBSET Wizards, deleting : BOOLEAN]

\* The wizards whose identifier the client learned, in the order of their creation.
Created(w) == IF w = "k" THEN 1 ELSE IF w = "p" THEN 2 ELSE 3
Learned(w) == step > Created(w)

\* The client knows the first of them, all while the script runs; a learned wizard is
\* still known, or is gone, or is reported.
EachCleaned ==
    /\ Len(known) <= IF step > 3 THEN 3 ELSE step - 1
    /\ verdict.script = "running" => Len(known) = IF step > 3 THEN 3 ELSE step - 1
    /\ \A i \in 1..Len(known) : Created(known[i]) = i
    /\ \A w \in Wizards : Learned(w) =>
          /\ Bad("still_found", w) => wizards[w].present
          /\ Created(w) <= Len(known) \/ w \in verdict.cleanup \/ ~wizards[w].present
ScratchInv == ScratchTypeOK /\ EachCleaned

\* The script: where it creates, and what it submits.
LEMMA ScriptRead ==
  /\ Len(Script) = 46
  /\ \A i \in 1..46 : Script[i].w \in Wizards
  /\ Script[1].w = "k" /\ Script[2].w = "p" /\ Script[3].w = "o"
  /\ \A i \in 1..46 : Script[i].do = "create" <=> i < 4
  /\ \A i \in 1..46 : Script[i].do = "submit" =>
        [op |-> Script[i].op, w |-> Script[i].w] \in TaskRecords /\ Script[i].op # "delete"
  /\ \A i \in 1..46 : Script[i].do = "upload" => Script[i].op \in Texts
<1>1. Len(Script) = 46
  BY DEF Script
<1>2. \A i \in 1..46 : Script[i].w \in Wizards
  BY SMTT(30) DEF Script, Do, Wizards
<1>3. Script[1].w = "k" /\ Script[2].w = "p" /\ Script[3].w = "o"
  BY DEF Script, Do
<1>4. \A i \in 1..46 : Script[i].do = "create" <=> i < 4
  BY SMTT(30) DEF Script, Do
<1>5. \A i \in 1..46 : Script[i].do = "submit" => Script[i].op \in SaveOps \cup {"invalid"}
  BY SMTT(30) DEF Script, Do, SaveOps
<1>6. \A i \in 1..46 : Script[i].do = "upload" => Script[i].op \in Texts
  <2>1. \A i \in 1..46 : Script[i].do = "upload" =>
           Script[i].op \in {"unsupported", "empty", "whitespace", "invalid_modified", "upload",
                             "p_upload", "o_upload"}
    BY SMTT(30) DEF Script, Do
  <2> QED
    BY <2>1 DEF Texts, Uploads
<1> QED
  BY <1>1, <1>2, <1>3, <1>4, <1>5, <1>6 DEF TaskRecords, SaveOps

\* The last wizard of the list, and the list without it.
LEMMA LastKnown ==
  ASSUME NEW list \in Seq(Wizards), list # <<>>
  PROVE  \E n \in Nat : /\ Len(list) = n + 1 /\ Last(list) \in Wizards /\ Last(list) = list[n + 1]
                       /\ Front(list) \in Seq(Wizards) /\ Len(Front(list)) = n
                       /\ \A i \in 1..n : Front(list)[i] = list[i]
<1>1. PICK n \in Nat : Len(list) = n + 1
  OBVIOUS
<1>2. Last(list) = list[n + 1] /\ Last(list) \in Wizards
  BY <1>1 DEF Last
<1>3. Front(list) = SubSeq(list, 1, n)
  BY <1>1 DEF Front
<1> QED
  BY <1>1, <1>2, <1>3, Slice

\* A task changes what its wizard holds, and only a deletion whether there is one.
LEMMA TaskApplied ==
  ASSUME NEW task \in TaskRecords, NEW old \in WizardRecords
  PROVE  /\ Applied(task, old) \in WizardRecords
         /\ Applied(task, old).present =
               IF task.op = "delete" THEN Bad("still_found", task.w) ELSE old.present
<1>1. CASE task.op = "delete"
  BY <1>1 DEF Applied, Bad, WizardRecords, Texts
<1>2. CASE task.op = "invalid"
  BY <1>2 DEF Applied, Bad, WizardRecords, Texts
<1>3. CASE task.op \in SaveOps
  <2>1. Changed(task.op) \subseteq 1..4 /\ task.op \in Texts
    <3>1. /\ Changed("save") = {1, 2} /\ Changed("edit") = {2} /\ Changed("p_save") = {1}
          /\ Changed("o_save") = {1} /\ Changed("fifo_a") = {3} /\ Changed("fifo_b") = {4}
      BY DEF Changed
    <3>2. {1, 2} \subseteq 1..4 /\ {1} \subseteq 1..4 /\ {2} \subseteq 1..4 /\ {3} \subseteq 1..4 /\ {4} \subseteq 1..4
      OBVIOUS
    <3>3. \A op \in SaveOps : Changed(op) \subseteq 1..4
      <4> HIDE <1>3
      <4> QED
        BY <3>1, <3>2, Zenon DEF SaveOps
    <3> QED
      BY <1>3, <3>3 DEF Texts
  <2>2. /\ SavedWizard(old, task.op) \in WizardRecords
        /\ SavedWizard(old, task.op).present = old.present
    <3> DEFINE op == task.op
               new == Changed(op) \X {op}
               replaced == IF Bad("rechunks", op) THEN old.map
                           ELSE {c \in old.map : c[1] \in Changed(op)}
               remade == IF Bad("rechunks", op) THEN {<<c[1], op>> : c \in replaced} ELSE {}
               after(chunks) == (chunks \ replaced) \cup new \cup remade
               store == CASE Bad("keeps_old", op) -> old.store \cup new
                          [] Bad("drops", op) -> after(old.store) \ {<<Max(Changed(op)), op>>}
                          [] Bad("loses_all", op) -> {}
                          [] OTHER -> after(old.store)
               stray == IF Bad("strays", op) THEN new ELSE old.stray
    <3>1. SavedWizard(old, op) =
            [old EXCEPT !.text = op, !.map = after(old.map), !.store = store, !.stray = stray]
      BY DEF SavedWizard
    <3>2. new \subseteq ScratchChunks /\ replaced \subseteq ScratchChunks
      BY <2>1 DEF ScratchChunks, WizardRecords
    <3>3. remade \subseteq ScratchChunks
      BY <2>1, <3>2 DEF ScratchChunks
    <3>4. after(old.map) \subseteq ScratchChunks /\ after(old.store) \subseteq ScratchChunks
      BY <3>2, <3>3 DEF WizardRecords
    <3>5. store \subseteq ScratchChunks /\ stray \subseteq ScratchChunks
      BY <3>2, <3>4 DEF WizardRecords
    <3> HIDE DEF store, stray, after, new
    <3> QED
      BY <2>1, <3>1, <3>4, <3>5 DEF WizardRecords
  <2> QED
    BY <1>3, <2>2 DEF Applied, SaveOps
<1> QED
  BY <1>1, <1>2, <1>3 DEF TaskRecords

\* A task leaves the queue.
LEMMA Removed ==
  ASSUME NEW S, NEW s \in Seq(S), NEW i \in DOMAIN s
  PROVE  RemoveAt(s, i) \in Seq(S)
<1>1. PICK a \in Nat : i = a + 1 /\ a + 1 \in 1..Len(s)
  <2>1. DOMAIN s = 1..Len(s) /\ Len(s) \in Nat
    OBVIOUS
  <2>2. i \in Nat \ {0} /\ i \in 1..Len(s)
    BY <2>1
  <2>3. i - 1 \in Nat /\ i = (i - 1) + 1
    BY <2>2
  <2> QED
    BY <2>2, <2>3
<1>2. SubSeq(s, 1, a) \in Seq(S)
  BY <1>1, Slice
<1>3. SubSeq(s, i + 1, Len(s)) \in Seq(S)
  BY <1>1, Slice
<1> QED
  BY <1>1, <1>2, <1>3 DEF RemoveAt

\* Nothing has been created.
LEMMA ScratchStarts == ScratchInit => ScratchInv
<1>1. SUFFICES ASSUME ScratchInit PROVE ScratchInv
  OBVIOUS
<1>2. Empty \in WizardRecords
  BY DEF Empty, WizardRecords, Texts
<1>3. ScratchTypeOK
  <2>1. wizards \in [Wizards -> WizardRecords]
    BY <1>1, <1>2 DEF ScratchInit, Wizards
  <2>2. tasks \in Seq(TaskRecords) /\ finished \in Seq(TaskRecords) /\ known \in Seq(Wizards)
    BY <1>1 DEF ScratchInit
  <2>3. verdict \in [script : {"running", "failed", "passed"}, cleanup : SUBSET Wizards,
                     deleting : BOOLEAN]
    BY <1>1, Zenon DEF ScratchInit
  <2>4. step \in 1..47
    BY <1>1 DEF ScratchInit
  <2> QED
    BY <2>1, <2>2, <2>3, <2>4, Zenon DEF ScratchTypeOK
<1>4. step = 1 /\ Len(known) = 0
  BY <1>1 DEF ScratchInit
<1>5. EachCleaned
  BY <1>4 DEF EachCleaned, Learned, Created
<1> QED
  BY <1>3, <1>5 DEF ScratchInv

\* What a step of the script makes of the verdict and the place in the script.
ScriptMoves ==
    /\ verdict' \in [script : {"running", "failed", "passed"}, cleanup : SUBSET Wizards,
                     deleting : BOOLEAN]
    /\ verdict'.cleanup = verdict.cleanup
    /\ step' \in 1..47 /\ step > 3 /\ (step' = step \/ step' = step + 1)
    /\ verdict.script = "running" \/ verdict'.script # "running"

\* The frame: a step of the script after the creations leaves who exists and who is known.
LEMMA ScriptFramed ==
  ASSUME ScratchInv, ScriptMoves, known' = known, defect' = defect,
         wizards' \in [Wizards -> WizardRecords],
         \A w \in Wizards : wizards'[w].present = wizards[w].present,
         tasks' \in Seq(TaskRecords), finished' \in Seq(TaskRecords)
  PROVE  ScratchInv'
<1>1. ScratchTypeOK'
  BY Zenon DEF ScratchInv, ScratchTypeOK, ScriptMoves
<1>2. \A w \in Wizards : Created(w) \in 1..3
  BY DEF Created
<1>3. step \in 1..47 /\ step' \in 1..47 /\ step > 3 /\ step' > 3
  BY DEF ScratchInv, ScratchTypeOK, ScriptMoves
<1>4. \A w \in Wizards : Learned(w) /\ (Learned(w))'
  BY <1>2, <1>3 DEF Learned
<1>5. \A w \in Wizards : (Bad("still_found", w))' = Bad("still_found", w)
  BY DEF Bad
<1>6. Len(known) <= 3 /\ (verdict.script = "running" => Len(known) = 3)
  BY <1>3 DEF ScratchInv, EachCleaned
<1>7. /\ Len(known') <= IF step' > 3 THEN 3 ELSE step' - 1
      /\ verdict'.script = "running" => Len(known') = IF step' > 3 THEN 3 ELSE step' - 1
  BY <1>3, <1>6 DEF ScriptMoves
<1>8. \A w \in Wizards :
          /\ (Bad("still_found", w))' => wizards'[w].present
          /\ Created(w) <= Len(known') \/ w \in verdict'.cleanup \/ ~wizards'[w].present
  BY <1>4, <1>5, Zenon DEF ScratchInv, EachCleaned, ScriptMoves
<1>9. \A i \in 1..Len(known') : Created(known'[i]) = i
  BY DEF ScratchInv, EachCleaned
<1>10. EachCleaned'
  BY <1>7, <1>8, <1>9, Zenon DEF EachCleaned, Created
<1> QED
  BY <1>1, <1>10 DEF ScratchInv

\* A request of the script passes, fails, or is the last.
LEMMA ScriptVerdict ==
  ASSUME ScratchInv, NEW ok, Verdict(ok), verdict.script = "running", step <= Len(Script),
         Script[step].do # "create"
  PROVE  ScriptMoves
<1>1. step \in 4..46
  <2>1. step \in 1..46
    BY ScriptRead DEF ScratchInv, ScratchTypeOK
  <2> QED
    BY <2>1, ScriptRead
<1>2. CASE ok
  <2>1. step' = step + 1 /\ verdict' = verdict
    BY <1>2 DEF Verdict, Pass
  <2>2. \A n \in 4..46 : n \in 1..47 /\ n + 1 \in 1..47 /\ n > 3
    OBVIOUS
  <2>3. step' \in 1..47 /\ step > 3
    BY <1>1, <2>1, <2>2, Zenon
  <2> QED
    BY <2>1, <2>3, Zenon DEF ScriptMoves, ScratchInv, ScratchTypeOK
<1>3. CASE ~ok
  <2>1. step' = step /\ verdict' = [verdict EXCEPT !.script = "failed"]
    BY <1>3 DEF Verdict, Fail
  <2>2. /\ verdict' \in [script : {"running", "failed", "passed"}, cleanup : SUBSET Wizards,
                         deleting : BOOLEAN]
        /\ verdict'.cleanup = verdict.cleanup /\ verdict'.script = "failed"
    BY <2>1, Zenon DEF ScratchInv, ScratchTypeOK
  <2>3. step' \in 1..47 /\ step > 3 /\ step' = step
    <3>1. step' = step
      BY <2>1
    <3>2. \A n \in 4..46 : n \in 1..47 /\ n > 3
      OBVIOUS
    <3> QED
      BY <1>1, <3>1, <3>2, Zenon
  <2>4. verdict'.script # "running"
    BY <2>2
  <2> QED
    BY <2>2, <2>3, <2>4, Zenon DEF ScriptMoves
<1> QED
  BY <1>2, <1>3

\* The checks of the script leave the backend alone.
LEMMA ChecksKeep ==
  ASSUME ScratchInv,
         \/ ExpectRefusal \/ PollTask \/ VerifySave \/ Remember \/ VerifyPartialResave
         \/ FailedSaveUnchanged \/ VerifyFifo \/ VerifyPersisted \/ VerifyIsolation
  PROVE  ScratchInv'
<1>1. /\ UNCHANGED <<defect, tasks, finished, wizards, known>>
      /\ verdict.script = "running" /\ step <= Len(Script) /\ Script[step].do # "create"
      /\ \E ok : Verdict(ok)
  <2>1. CASE ExpectRefusal
    BY <2>1 DEF ExpectRefusal, Running, Quiet
  <2>2. CASE PollTask
    BY <2>2 DEF PollTask, Running, Quiet
  <2>3. CASE VerifySave
    BY <2>3 DEF VerifySave, Running, Quiet
  <2>4. CASE Remember
    BY <2>4 DEF Remember, Running, Quiet
  <2>5. CASE VerifyPartialResave
    BY <2>5 DEF VerifyPartialResave, Running, Quiet
  <2>6. CASE FailedSaveUnchanged
    BY <2>6 DEF FailedSaveUnchanged, Running, Quiet
  <2>7. CASE VerifyFifo
    BY <2>7 DEF VerifyFifo, Running, Quiet
  <2>8. CASE VerifyPersisted
    BY <2>8 DEF VerifyPersisted, Running, Quiet
  <2>9. CASE VerifyIsolation
    BY <2>9 DEF VerifyIsolation, Running, Quiet
  <2> QED
    BY <2>1, <2>2, <2>3, <2>4, <2>5, <2>6, <2>7, <2>8, <2>9
<1>2. ScriptMoves
  BY <1>1, ScriptVerdict
<1> QED
  BY <1>1, <1>2, ScriptFramed, Zenon DEF ScratchInv, ScratchTypeOK

\* A request fails, or the script is over.
LEMMA StopsKeep ==
  ASSUME ScratchInv, RequestFails \/ ScriptEnds
  PROVE  ScratchInv'
<1>1. UNCHANGED <<defect, tasks, finished, wizards, known>>
  BY DEF RequestFails, ScriptEnds, Quiet
<1>2. CASE RequestFails
  <2>1. Verdict(FALSE) /\ verdict.script = "running" /\ step <= Len(Script) /\ Script[step].do # "create"
    BY <1>2 DEF RequestFails, Verdict
  <2>2. ScriptMoves
    BY <2>1, ScriptVerdict
  <2> QED
    BY <1>1, <2>2, ScriptFramed, Zenon DEF ScratchInv, ScratchTypeOK
<1>3. CASE ScriptEnds
  <2>1. step > 46 /\ step' = step /\ verdict' = [verdict EXCEPT !.script = "passed"]
    BY <1>3, ScriptRead DEF ScriptEnds
  <2>2. /\ verdict' \in [script : {"running", "failed", "passed"}, cleanup : SUBSET Wizards,
                         deleting : BOOLEAN]
        /\ verdict'.cleanup = verdict.cleanup /\ verdict'.script = "passed"
    BY <2>1, Zenon DEF ScratchInv, ScratchTypeOK
  <2>3. step' \in 1..47 /\ step > 3 /\ step' = step
    <3>1. step' = step /\ step > 46
      BY <2>1
    <3>2. step \in 1..47
      BY DEF ScratchInv, ScratchTypeOK
    <3> HIDE <2>1, <2>2
    <3> QED
      BY <3>1, <3>2, SMTT(30)
  <2>4. verdict'.script # "running"
    BY <2>2
  <2>5. ScriptMoves
    BY <2>2, <2>3, <2>4, Zenon DEF ScriptMoves
  <2> QED
    BY <1>1, <2>5, ScriptFramed, Zenon DEF ScratchInv, ScratchTypeOK
<1> QED
  BY <1>2, <1>3

\* A defective upload stores a text or a chunk, and creates or deletes no wizard.
LEMMA UploadKeeps ==
  ASSUME ScratchInv, UploadUnchanged
  PROVE  ScratchInv'
<1>1. /\ UNCHANGED <<defect, tasks, finished, known>>
      /\ verdict.script = "running" /\ step <= Len(Script) /\ Script[step].do = "upload"
      /\ \E ok : Verdict(ok)
      /\ wizards' = [wizards EXCEPT ![Wizard] =
              CASE Bad("saves", Op) -> [@ EXCEPT !.text = Op]
                [] Bad("stores", Op) -> [@ EXCEPT !.store = @ \cup {<<1, Op>>}]
                [] OTHER -> @]
  BY DEF UploadUnchanged, Running, Quiet
<1>2. ScriptMoves
  BY <1>1, ScriptVerdict
<1>3. step \in 1..46
  BY <1>1, ScriptRead DEF ScratchInv, ScratchTypeOK
<1>4. Op \in Texts /\ Wizard \in Wizards
  BY <1>1, <1>3, ScriptRead DEF Op, Wizard
<1>5. PICK op, w, stored : /\ op = Op /\ w = Wizard /\ op \in Texts /\ w \in Wizards
                           /\ stored = CASE Bad("saves", op) -> [wizards[w] EXCEPT !.text = op]
                                         [] Bad("stores", op) -> [wizards[w] EXCEPT !.store = @ \cup {<<1, op>>}]
                                         [] OTHER -> wizards[w]
  BY <1>4
<1>6. wizards[w] \in WizardRecords /\ wizards \in [Wizards -> WizardRecords]
  BY <1>5 DEF ScratchInv, ScratchTypeOK
<1>7. stored \in WizardRecords /\ stored.present = wizards[w].present
  <2>1. {<<1, op>>} \subseteq ScratchChunks
    BY <1>5 DEF ScratchChunks
  <2> QED
    BY <1>5, <1>6, <2>1 DEF WizardRecords
<1>8. wizards' = [wizards EXCEPT ![w] = stored]
  BY <1>1, <1>5
<1>9. /\ wizards' \in [Wizards -> WizardRecords]
      /\ \A v \in Wizards : wizards'[v].present = wizards[v].present
  BY <1>5, <1>6, <1>7, <1>8
<1> QED
  BY <1>1, <1>2, <1>9, ScriptFramed, Zenon DEF ScratchInv, ScratchTypeOK

\* A submitted save joins the queue.
LEMMA SubmitSaveKeeps ==
  ASSUME ScratchInv, SubmitSave
  PROVE  ScratchInv'
<1>1. /\ UNCHANGED <<defect, wizards, finished, known>>
      /\ verdict.script = "running" /\ step <= Len(Script) /\ Script[step].do = "submit"
      /\ Verdict(TRUE)
      /\ tasks' = Append(tasks, [op |-> Op, w |-> Wizard])
  BY DEF SubmitSave, Running, Verdict
<1>2. ScriptMoves
  BY <1>1, ScriptVerdict
<1>3. step \in 1..46
  BY <1>1, ScriptRead DEF ScratchInv, ScratchTypeOK
<1>4. [op |-> Op, w |-> Wizard] \in TaskRecords
  BY <1>1, <1>3, ScriptRead DEF Op, Wizard
<1>5. tasks' \in Seq(TaskRecords)
  BY <1>1, <1>4 DEF ScratchInv, ScratchTypeOK
<1> QED
  BY <1>1, <1>2, <1>5, ScriptFramed, Zenon DEF ScratchInv, ScratchTypeOK

\* A creation: the wizard is there whether or not its identifier is answered, and is the
\* next one the client learns.
LEMMA CreateKeeps ==
  ASSUME ScratchInv, NEW answered \in BOOLEAN, CreateWizard(answered)
  PROVE  ScratchInv'
<1>1. /\ UNCHANGED <<defect, tasks, finished>>
      /\ verdict.script = "running" /\ step <= Len(Script) /\ Script[step].do = "create"
      /\ wizards' = [wizards EXCEPT ![Wizard].present = TRUE]
  BY DEF CreateWizard, Running
<1>2. step \in 1..3
  <2>1. step \in 1..46
    BY <1>1, ScriptRead DEF ScratchInv, ScratchTypeOK
  <2> QED
    BY <1>1, <2>1, ScriptRead
<1>3. PICK w \in Wizards : w = Wizard /\ Created(w) = step
  <2>1. Wizard \in Wizards /\ Created(Wizard) = step
    BY <1>2, ScriptRead DEF Wizard, Created, Wizards
  <2> QED
    BY <2>1
<1>4. /\ wizards' \in [Wizards -> WizardRecords] /\ wizards'[w].present
      /\ \A v \in Wizards : v # w => wizards'[v] = wizards[v]
  <2>1. wizards \in [Wizards -> WizardRecords] /\ wizards[w] \in WizardRecords
    BY <1>3 DEF ScratchInv, ScratchTypeOK
  <2>2. [wizards[w] EXCEPT !.present = TRUE] \in WizardRecords
    BY <2>1, Zenon DEF WizardRecords
  <2>3. [wizards[w] EXCEPT !.present = TRUE].present
    BY <2>1, Zenon DEF WizardRecords
  <2>4. wizards' = [wizards EXCEPT ![w] = [wizards[w] EXCEPT !.present = TRUE]]
    BY <1>1, <1>3
  <2> QED
    BY <1>3, <2>1, <2>2, <2>3, <2>4, Zenon
<1>5. \A v \in Wizards : (Bad("still_found", v))' = Bad("still_found", v)
  BY <1>1 DEF Bad
<1>6. PICK n \in Nat : Len(known) = n /\ n + 1 = step
  BY <1>1, <1>2 DEF ScratchInv, ScratchTypeOK, EachCleaned
<1>7. CASE answered
  <2>1. step' = step + 1 /\ verdict' = verdict /\ known' = Append(known, w)
    BY <1>3, <1>7 DEF CreateWizard, Pass
  <2>2. /\ known' \in Seq(Wizards) /\ Len(known') = n + 1 /\ \A i \in 1..n : known'[i] = known[i]
        /\ known'[n + 1] = w
    BY <1>6, <2>1, Appended DEF ScratchInv, ScratchTypeOK
  <2>3. ScratchTypeOK'
    <3>1. step' \in 1..47
      <4>1. step' = step + 1
        BY <2>1
      <4> HIDE <2>1
      <4> QED
        BY <1>2, <4>1
    <3> QED
      BY <1>1, <1>4, <2>1, <2>2, <3>1, Zenon DEF ScratchInv, ScratchTypeOK
  <2>4. \A i \in 1..Len(known') : Created(known'[i]) = i
    BY <1>3, <1>6, <2>2 DEF ScratchInv, EachCleaned
  <2>5. /\ Len(known') <= IF step' > 3 THEN 3 ELSE step' - 1
        /\ Len(known') = IF step' > 3 THEN 3 ELSE step' - 1
    BY <1>2, <1>6, <2>1, <2>2
  <2>6. \A v \in Wizards : (Learned(v))' =>
          /\ (Bad("still_found", v))' => wizards'[v].present
          /\ Created(v) <= Len(known') \/ v \in verdict'.cleanup \/ ~wizards'[v].present
    <3>1. SUFFICES ASSUME NEW v \in Wizards, (Learned(v))'
                   PROVE  /\ (Bad("still_found", v))' => wizards'[v].present
                          /\ Created(v) <= n + 1
      BY <1>3, <2>2
    <3>2. step' > Created(v)
      BY <3>1 DEF Learned, Created
    <3>3. Created(v) \in 1..3 /\ (v # w => Created(v) # Created(w))
      BY <1>3 DEF Created, Wizards
    <3>4. Created(v) <= n + 1
      BY <1>2, <1>6, <2>1, <3>2, <3>3
    <3>5. v # w => Learned(v)
      BY <1>2, <1>3, <2>1, <3>2, <3>3 DEF Learned
    <3> QED
      BY <1>4, <1>5, <3>1, <3>4, <3>5 DEF ScratchInv, EachCleaned
  <2>7. EachCleaned'
    BY <2>4, <2>5, <2>6, Zenon DEF EachCleaned, Created
  <2> QED
    BY <2>3, <2>7 DEF ScratchInv
<1>8. CASE ~answered
  <2>1. step' = step /\ known' = known
    BY <1>8 DEF CreateWizard, Fail
  <2>2. verdict' = [verdict EXCEPT !.script = "failed"]
    BY <1>8 DEF CreateWizard, Fail
  <2>3. /\ verdict' \in [script : {"running", "failed", "passed"}, cleanup : SUBSET Wizards,
                         deleting : BOOLEAN]
        /\ verdict'.cleanup = verdict.cleanup /\ verdict'.script # "running"
    <3>1. /\ verdict' \in [script : {"running", "failed", "passed"}, cleanup : SUBSET Wizards,
                           deleting : BOOLEAN]
          /\ verdict'.cleanup = verdict.cleanup /\ verdict'.script = "failed"
      BY <2>2, Zenon DEF ScratchInv, ScratchTypeOK
    <3> QED
      BY <3>1
  <2> HIDE <2>2
  <2>4. ScratchTypeOK'
    BY <1>1, <1>4, <2>1, <2>3, Zenon DEF ScratchInv, ScratchTypeOK
  <2>5. \A v \in Wizards : (Learned(v))' => Learned(v) /\ v # w
    BY <1>2, <1>3, <2>1 DEF Learned, Created
  <2>6. \A v \in Wizards : (Learned(v))' =>
          /\ (Bad("still_found", v))' => wizards'[v].present
          /\ Created(v) <= Len(known') \/ v \in verdict'.cleanup \/ ~wizards'[v].present
    BY <1>4, <1>5, <2>1, <2>3, <2>5 DEF ScratchInv, EachCleaned
  <2>7. EachCleaned'
    BY <2>1, <2>3, <2>6, Zenon DEF EachCleaned, Created, ScratchInv
  <2> QED
    BY <2>4, <2>7 DEF ScratchInv
<1> QED
  BY <1>7, <1>8

\* A task runs: only a deletion changes whether its wizard is there.
LEMMA RunTaskKeeps ==
  ASSUME ScratchInv, RunTask
  PROVE  ScratchInv'
<1>1. PICK i \in DOMAIN tasks :
        /\ wizards' = [wizards EXCEPT ![tasks[i].w] = Applied(tasks[i], @)]
        /\ tasks' = RemoveAt(tasks, i)
        /\ finished' = Append(finished, tasks[i])
        /\ UNCHANGED <<defect, step, known, remembered, verdict, scratchFaults>>
  BY DEF RunTask
<1>2. PICK task \in TaskRecords : task = tasks[i]
  BY <1>1 DEF ScratchInv, ScratchTypeOK
<1>3. PICK w \in Wizards : w = task.w
  BY <1>2 DEF TaskRecords
<1>4. wizards \in [Wizards -> WizardRecords] /\ wizards[w] \in WizardRecords
  BY DEF ScratchInv, ScratchTypeOK
<1>5. PICK new \in WizardRecords :
        /\ new = Applied(task, wizards[w])
        /\ new.present = IF task.op = "delete" THEN Bad("still_found", w) ELSE wizards[w].present
  BY <1>3, <1>4, TaskApplied
<1>6. wizards' = [wizards EXCEPT ![w] = new]
  BY <1>1, <1>2, <1>3, <1>5
<1>7. /\ wizards' \in [Wizards -> WizardRecords]
      /\ wizards'[w] = new /\ \A v \in Wizards : v # w => wizards'[v] = wizards[v]
  BY <1>4, <1>6
<1>8. tasks' \in Seq(TaskRecords) /\ finished' \in Seq(TaskRecords)
  BY <1>1, <1>2, Removed, Appended DEF ScratchInv, ScratchTypeOK
<1>9. ScratchTypeOK'
  BY <1>1, <1>7, <1>8, Zenon DEF ScratchInv, ScratchTypeOK
<1>10. \A v \in Wizards : /\ (Bad("still_found", v))' = Bad("still_found", v)
                         /\ (Learned(v))' = Learned(v)
  BY <1>1 DEF Bad, Learned, Created
<1>11. \A v \in Wizards : Learned(v) =>
          /\ Bad("still_found", v) => wizards'[v].present
          /\ ~wizards[v].present => ~wizards'[v].present
  BY <1>5, <1>7 DEF ScratchInv, EachCleaned
<1>12. EachCleaned'
  BY <1>1, <1>10, <1>11 DEF ScratchInv, EachCleaned, Created
<1> QED
  BY <1>9, <1>12 DEF ScratchInv

\* A deletion is submitted.
LEMMA SubmitDeleteKeeps ==
  ASSUME ScratchInv, SubmitDelete
  PROVE  ScratchInv'
<1>1. /\ UNCHANGED <<defect, wizards, finished, step, known>>
      /\ tasks' = Append(tasks, [op |-> "delete", w |-> Last(known)])
      /\ known # <<>>
  BY DEF SubmitDelete, Cleaning
<1>2. verdict' = [verdict EXCEPT !.deleting = TRUE]
  BY DEF SubmitDelete
<1>3. /\ verdict' \in [script : {"running", "failed", "passed"}, cleanup : SUBSET Wizards,
                       deleting : BOOLEAN]
      /\ verdict'.cleanup = verdict.cleanup /\ verdict'.script = verdict.script
  BY <1>2, Zenon DEF ScratchInv, ScratchTypeOK
<1> HIDE <1>2
<1>4. known \in Seq(Wizards)
  BY DEF ScratchInv, ScratchTypeOK
<1>5. Last(known) \in Wizards
  BY <1>1, <1>4, LastKnown
<1>6. [op |-> "delete", w |-> Last(known)] \in TaskRecords
  BY <1>5 DEF TaskRecords
<1>7. tasks' \in Seq(TaskRecords)
  BY <1>1, <1>6 DEF ScratchInv, ScratchTypeOK
<1>8. ScratchTypeOK'
  BY <1>1, <1>3, <1>7, Zenon DEF ScratchInv, ScratchTypeOK
<1>9. EachCleaned'
  BY <1>1, <1>3 DEF ScratchInv, EachCleaned, Bad, Learned, Created
<1> QED
  BY <1>8, <1>9 DEF ScratchInv

\* A deletion is over: its wizard is gone or reported, and no longer known.
LEMMA DeletedKeeps ==
  ASSUME ScratchInv, NEW ok \in BOOLEAN, Deleted(ok), Cleaning,
         ok => ~wizards[Last(known)].present,
         UNCHANGED <<defect, wizards, tasks, finished, step>>
  PROVE  ScratchInv'
<1>1. known \in Seq(Wizards) /\ known # <<>>
  BY DEF ScratchInv, ScratchTypeOK, Cleaning
<1>2. PICK n \in Nat : /\ Len(known) = n + 1 /\ Last(known) \in Wizards /\ Last(known) = known[n + 1]
                       /\ Front(known) \in Seq(Wizards) /\ Len(Front(known)) = n
                       /\ \A i \in 1..n : Front(known)[i] = known[i]
  BY <1>1, LastKnown
<1>3. PICK last \in Wizards : last = Last(known)
  BY <1>2
<1>4. known' \in Seq(Wizards) /\ Len(known') = n /\ \A i \in 1..n : known'[i] = known[i]
  BY <1>2 DEF Deleted
<1>5. verdict' = [verdict EXCEPT !.deleting = FALSE, !.cleanup = IF ok THEN @ ELSE @ \cup {last}]
  BY <1>3 DEF Deleted
<1>6. PICK cleanup \in SUBSET Wizards : cleanup = IF ok THEN verdict.cleanup ELSE verdict.cleanup \cup {last}
  BY DEF ScratchInv, ScratchTypeOK
<1>7. verdict' = [verdict EXCEPT !.deleting = FALSE, !.cleanup = cleanup]
  BY <1>5, <1>6
<1> HIDE <1>5
<1>8. /\ verdict' \in [script : {"running", "failed", "passed"}, cleanup : SUBSET Wizards,
                       deleting : BOOLEAN]
      /\ verdict'.cleanup = cleanup /\ verdict'.script = verdict.script
  BY <1>7, Zenon DEF ScratchInv, ScratchTypeOK
<1> HIDE <1>7
<1>9. ScratchTypeOK'
  BY <1>4, <1>8, Zenon DEF ScratchInv, ScratchTypeOK
<1>10. /\ verdict.script # "running" /\ Created(last) = n + 1
       /\ n + 1 <= IF step > 3 THEN 3 ELSE step - 1
  <2>1. verdict.script # "running"
    BY DEF Cleaning
  <2> QED
    BY <1>2, <1>3, <2>1 DEF ScratchInv, EachCleaned
<1>11. /\ Len(known') <= IF step' > 3 THEN 3 ELSE step' - 1
       /\ verdict'.script # "running"
       /\ \A i \in 1..Len(known') : Created(known'[i]) = i
  <2>1. step' = step /\ step \in 1..47
    BY DEF ScratchInv, ScratchTypeOK
  <2>2. Len(known') <= IF step' > 3 THEN 3 ELSE step' - 1
    BY <1>4, <1>10, <2>1
  <2>3. verdict'.script # "running"
    BY <1>8, <1>10
  <2>4. \A i \in 1..n : Created(known'[i]) = i
    BY <1>2, <1>4 DEF ScratchInv, EachCleaned
  <2> QED
    BY <1>4, <2>2, <2>3, <2>4
<1>12. \A v \in Wizards : (Learned(v))' =>
          /\ (Bad("still_found", v))' => wizards'[v].present
          /\ Created(v) <= Len(known') \/ v \in verdict'.cleanup \/ ~wizards'[v].present
  <2>1. SUFFICES ASSUME NEW v \in Wizards, (Learned(v))'
                 PROVE  /\ Bad("still_found", v) => wizards[v].present
                        /\ Created(v) <= n \/ v \in cleanup \/ ~wizards[v].present
    BY <1>4, <1>8 DEF Bad
  <2>2. /\ Bad("still_found", v) => wizards[v].present
        /\ Created(v) <= n + 1 \/ v \in verdict.cleanup \/ ~wizards[v].present
    BY <1>2, <2>1 DEF ScratchInv, EachCleaned, Learned, Created
  <2>3. v # last => Created(v) \in Nat /\ Created(v) # n + 1
    BY <1>10 DEF Created, Wizards
  <2> QED
    BY <1>3, <1>6, <2>2, <2>3
<1>13. EachCleaned'
  BY <1>11, <1>12, Zenon DEF EachCleaned, Created
<1> QED
  BY <1>9, <1>13 DEF ScratchInv

\* Every step of the script, of the deletions and of the backend.
LEMMA ScratchKeeps == ScratchInv /\ [ScratchNext]_scratchVars => ScratchInv'
<1>1. SUFFICES ASSUME ScratchInv, [ScratchNext]_scratchVars PROVE ScratchInv'
  OBVIOUS
<1>2. CASE \E answered \in BOOLEAN : CreateWizard(answered)
  BY <1>1, <1>2, CreateKeeps
<1>3. CASE \/ ExpectRefusal \/ PollTask \/ VerifySave \/ Remember \/ VerifyPartialResave
           \/ FailedSaveUnchanged \/ VerifyFifo \/ VerifyPersisted \/ VerifyIsolation
  BY <1>1, <1>3, ChecksKeep
<1>4. CASE UploadUnchanged \/ SubmitSave \/ SubmitDelete \/ RunTask
  BY <1>1, <1>4, UploadKeeps, SubmitSaveKeeps, SubmitDeleteKeeps, RunTaskKeeps
<1>5. CASE RequestFails \/ ScriptEnds
  BY <1>1, <1>5, StopsKeep
<1>6. CASE VerifyDelete
  <2>1. /\ Deleted(DeleteVerified(Last(known))) /\ Cleaning
        /\ UNCHANGED <<defect, wizards, tasks, finished, step>>
    BY <1>6 DEF VerifyDelete, Quiet
  <2>2. DeleteVerified(Last(known)) \in BOOLEAN /\ (DeleteVerified(Last(known)) => ~wizards[Last(known)].present)
    BY DEF DeleteVerified
  <2> QED
    BY <1>1, <2>1, <2>2, DeletedKeeps
<1>7. CASE DeleteTimesOut \/ DeleteRefused
  <2>1. Deleted(FALSE) /\ Cleaning /\ UNCHANGED <<defect, wizards, tasks, finished, step>>
    BY <1>7 DEF DeleteTimesOut, DeleteRefused
  <2> QED
    BY <1>1, <2>1, DeletedKeeps
<1>8. CASE UNCHANGED scratchVars
  BY <1>1, <1>8 DEF scratchVars, ScratchInv, ScratchTypeOK, EachCleaned, Learned, Created, Bad
<1> QED
  BY <1>1, <1>2, <1>3, <1>4, <1>5, <1>6, <1>7, <1>8 DEF ScratchNext, ScratchClient, ScratchRest

\* At the end no wizard is known: each one learned is gone or reported.
LEMMA WizardsCleanedUp == ScratchInv => ScratchCleanedUp
<1>1. SUFFICES ASSUME ScratchInv, ScratchOver, NEW i \in 1..(Min({step, 4}) - 1)
               PROVE  wizards[Script[i].w].present =>
                        Script[i].w \in verdict.cleanup /\ ScratchResult = "failed"
  BY DEF ScratchCleanedUp
<1>2. Min({step, 4}) \in {step, 4} /\ Min({step, 4}) <= step /\ Min({step, 4}) <= 4
  <2>1. {step, 4} \subseteq 0..47
    BY <1>1 DEF ScratchInv, ScratchTypeOK
  <2> QED
    BY <2>1, Extremes
<1>3. i \in 1..3 /\ i < step
  BY <1>1, <1>2 DEF ScratchInv, ScratchTypeOK
<1>4. Script[i].w \in Wizards /\ Created(Script[i].w) = i
  BY <1>3, ScriptRead DEF Wizards, Created
<1>5. Learned(Script[i].w) /\ Len(known) = 0
  BY <1>1, <1>3, <1>4 DEF Learned, ScratchOver
<1>6. Script[i].w \in verdict.cleanup \/ ~wizards[Script[i].w].present
  BY <1>1, <1>3, <1>4, <1>5 DEF ScratchInv, EachCleaned
<1> QED
  BY <1>6 DEF ScratchResult

==============================================================================
