-------------------------- MODULE Documents_proofs --------------------------
(***************************************************************************)
(* Proofs about Documents, for any ranges, subjects and handlers.          *)
(***************************************************************************)
EXTENDS Documents, Sums, TLAPS

\* A counter stays inside its range, or one past it.
Counters == \A s \in Series : Start[s] <= next[s] /\ next[s] <= Last[s] + 1

\* A document's number is one its series has handed out ...
Numbered ==
    \A d \in DOMAIN docs :
        Start[docs[d].series] <= docs[d].serial /\ docs[d].serial < next[docs[d].series]

\* ... every number handed out is a document ...
NoGaps ==
    \A s \in Series, n \in Nat :
        Start[s] <= n /\ n < next[s] =>
            \E d \in DOMAIN docs : docs[d].series = s /\ docs[d].serial = n

\* ... and only one.
OnceEach ==
    \A d, e \in DOMAIN docs :
        docs[d].series = docs[e].series /\ docs[d].serial = docs[e].serial => d = e

SpoiledHaveNoSubject ==
    \A d \in DOMAIN docs : docs[d].status = "spoiled" <=> docs[d].subject = NoSubject

\* The document in force is the last one of its subject: why replacements lead forward.
LatestInForce ==
    \A d, e \in DOMAIN docs :
        /\ docs[d].subject = docs[e].subject
        /\ docs[e].status = "issued"
        => d <= e

OneActive == \A s, t \in Active : s = t

\* What a transaction that holds a series row relies on until it commits.
WritersSound ==
    \A h \in Handlers : job[h].at = "write" =>
        /\ job[h].series \in Series
        /\ status[job[h].series] = "active"
        /\ job[h].serial = next[job[h].series]
        /\ job[h].serial <= Last[job[h].series]
        /\ \A g \in Handlers : job[g].at = "write" /\ job[g].series = job[h].series => g = h

\* What a canceller keeps of the document it cancels, and of its replacement.
CancellersSound ==
    \A h \in Handlers :
        /\ job[h].at \in {"cancel", "reissue", "link", "linkBack"} \/ job[h].replace =>
              /\ job[h].doc \in DOMAIN docs
              /\ docs[job[h].doc].subject = job[h].subject
              /\ job[h].subject # NoSubject
              /\ job[h].at # "cancel" => docs[job[h].doc].status = "cancelled"
        /\ job[h].at \in {"link", "linkBack"} =>
              /\ job[h].found \in DOMAIN docs
              /\ job[h].doc < job[h].found
              /\ docs[job[h].found].subject = job[h].subject
        /\ job[h].at = "lock" => job[h].series \in Series

IInv ==
    /\ TypeOK
    /\ Counters /\ Numbered /\ NoGaps /\ OnceEach
    /\ SpoiledHaveNoSubject /\ LatestInForce /\ OneActive
    /\ WritersSound /\ CancellersSound
    /\ ReplacementIsLater

----------------------------------------------------------------------------
LEMMA InitIInv ==
    ASSUME Init PROVE IInv
<1> USE RangeAssumption, NamesAssumption DEF Init
<1>1. Idle \in Job
  BY DEF Idle, Job, Stages
<1>2. TypeOK
  BY <1>1 DEF TypeOK, SeriesStatus
<1>3. DOMAIN docs = {}
  OBVIOUS
<1>4. Active = {}
  BY DEF Active
<1>5. \A h \in Handlers : job[h].at = "idle" /\ ~job[h].replace
  BY DEF Idle
<1>6. Counters /\ NoGaps
  BY DEF Counters, NoGaps
<1>7. Numbered /\ OnceEach /\ SpoiledHaveNoSubject /\ LatestInForce /\ ReplacementIsLater
  BY <1>3 DEF Numbered, OnceEach, SpoiledHaveNoSubject, LatestInForce, ReplacementIsLater
<1>8. OneActive /\ WritersSound /\ CancellersSound
  BY <1>4, <1>5 DEF OneActive, WritersSound, CancellersSound
<1> QED
  BY <1>2, <1>6, <1>7, <1>8 DEF IInv

\* A step that changes neither rows nor counters keeps what is said of them.
LEMMA RowsUntouched ==
    ASSUME IInv, UNCHANGED <<next, docs>>
    PROVE  /\ Counters' /\ Numbered' /\ NoGaps' /\ OnceEach'
           /\ SpoiledHaveNoSubject' /\ LatestInForce' /\ ReplacementIsLater'
<1>1. UNCHANGED <<Counters, Numbered, NoGaps, OnceEach, SpoiledHaveNoSubject, LatestInForce,
                  ReplacementIsLater>>
  BY DEF Counters, Numbered, NoGaps, OnceEach, SpoiledHaveNoSubject, LatestInForce,
         ReplacementIsLater
<1> QED
  BY <1>1 DEF IInv

\* A handler's step that changes no row: only what the handler then keeps is to be shown.
LEMMA JobStep ==
    ASSUME IInv, UNCHANGED <<status, next, docs>>,
           NEW h \in Handlers, NEW j \in Job, job' = [job EXCEPT ![h] = j],
           j.at = "write" =>
              /\ j.series \in Series
              /\ status[j.series] = "active"
              /\ j.serial = next[j.series]
              /\ j.serial <= Last[j.series]
              /\ SeriesFree(j.series),
           j.at \in {"cancel", "reissue", "link", "linkBack"} \/ j.replace =>
              /\ j.doc \in DOMAIN docs
              /\ docs[j.doc].subject = j.subject
              /\ j.subject # NoSubject
              /\ j.at # "cancel" => docs[j.doc].status = "cancelled",
           j.at \in {"link", "linkBack"} =>
              /\ j.found \in DOMAIN docs
              /\ j.doc < j.found
              /\ docs[j.found].subject = j.subject,
           j.at = "lock" => j.series \in Series
    PROVE  IInv'
<1>1. TypeOK'
  BY DEF IInv, TypeOK
<1>2. \A g \in Handlers : job'[g] = IF g = h THEN j ELSE job[g]
  BY DEF IInv, TypeOK
<1>3. WritersSound'
  BY <1>2 DEF IInv, WritersSound, SeriesFree
<1>4. CancellersSound'
  BY <1>2 DEF IInv, CancellersSound
<1>5. OneActive'
  BY DEF IInv, OneActive, Active
<1> QED
  BY <1>1, <1>3, <1>4, <1>5, RowsUntouched DEF IInv

LEMMA IdleStep ==
    ASSUME IInv, UNCHANGED <<status, next, docs>>,
           NEW h \in Handlers, job' = [job EXCEPT ![h] = Idle]
    PROVE  IInv'
<1>1. Idle \in Job /\ Idle.at = "idle" /\ ~Idle.replace
  BY DEF Idle, Job, Stages
<1> QED
  BY <1>1, JobStep

\* Registering a series, or setting its status, under the rows' locks.
LEMMA SeriesStep ==
    ASSUME IInv,
           \/ \E s \in Series : SeriesRegistered(s)
           \/ \E s \in Series, to \in HandStatuses : SeriesSet(s, to)
    PROVE  IInv'
<1>1. UNCHANGED <<next, docs, job>>
  BY DEF SeriesRegistered, SeriesSet
<1>2. PICK s \in Series : (\E to \in HandStatuses : SeriesSet(s, to)) \/ SeriesRegistered(s)
  OBVIOUS
<1>3. TypeOK'
  BY <1>1, <1>2, NamesAssumption
  DEF IInv, TypeOK, SeriesRegistered, SeriesSet, SeriesStatus, Active
<1>4. OneActive'
  BY <1>2 DEF IInv, TypeOK, OneActive, Active, SeriesRegistered, SeriesSet
<1>5. WritersSound'
  <2> SUFFICES ASSUME NEW h \in Handlers, job[h].at = "write"
               PROVE  status'[job[h].series] = "active"
    BY <1>1 DEF IInv, WritersSound
  <2>1. job[h].series \in Series /\ status[job[h].series] = "active"
    BY DEF IInv, WritersSound
  <2>2. job[h].series # s
    BY <1>2, <2>1 DEF SeriesRegistered, SeriesSet, SeriesFree
  <2>3. job[h].series \in Active /\ ~SeriesFree(job[h].series)
    BY <2>1 DEF Active, SeriesFree
  <2> QED
    BY <1>2, <2>1, <2>2, <2>3 DEF SeriesRegistered, SeriesSet, IInv, TypeOK
<1>6. CancellersSound'
  BY <1>1 DEF IInv, CancellersSound
<1> QED
  BY <1>1, <1>3, <1>4, <1>5, <1>6, RowsUntouched DEF IInv

\* One row of documents is rewritten: the others, and the number of rows, stay.
LEMMA RowRewritten ==
    ASSUME docs \in Seq(Document), NEW d \in DOMAIN docs, NEW r \in Document,
           docs' = [docs EXCEPT ![d] = r]
    PROVE  /\ docs' \in Seq(Document)
           /\ DOMAIN docs' = DOMAIN docs
           /\ \A e \in DOMAIN docs : docs'[e] = IF e = d THEN r ELSE docs[e]
OBVIOUS

LEMMA RowAppended ==
    ASSUME docs \in Seq(Document), NEW r \in Document, docs' = Append(docs, r)
    PROVE  /\ docs' \in Seq(Document)
           /\ Len(docs) \in Nat
           /\ DOMAIN docs = 1 .. Len(docs)
           /\ DOMAIN docs' = 1 .. Len(docs) + 1
           /\ \A e \in DOMAIN docs : docs'[e] = docs[e]
           /\ docs'[Len(docs) + 1] = r
OBVIOUS

\* A rewritten row that keeps its number and its subject, and is not brought back to life.
LEMMA RowStep ==
    ASSUME IInv, UNCHANGED <<status, next>>,
           NEW d \in DOMAIN docs, NEW r \in Document, docs' = [docs EXCEPT ![d] = r],
           r.series = docs[d].series, r.serial = docs[d].serial,
           r.subject = docs[d].subject,
           r.status \in {docs[d].status, "cancelled"}, docs[d].subject # NoSubject,
           r.replacedBy # 0 =>
              /\ r.status = "cancelled"
              /\ d < r.replacedBy /\ r.replacedBy \in DOMAIN docs
              /\ docs[r.replacedBy].subject = docs[d].subject,
           r.replaces # 0 =>
              /\ r.replaces < d
              /\ docs[r.replaces].status = "cancelled",
           NEW h \in Handlers, NEW j \in Job, job' = [job EXCEPT ![h] = j],
           j.at # "write" /\ j.at # "lock",
           j.at \in {"cancel", "reissue", "link", "linkBack"} \/ j.replace =>
              /\ j.doc \in DOMAIN docs
              /\ docs[j.doc].subject = j.subject
              /\ j.subject # NoSubject
              /\ j.at # "cancel" => docs'[j.doc].status = "cancelled",
           j.at \in {"link", "linkBack"} =>
              /\ j.found \in DOMAIN docs
              /\ j.doc < j.found
              /\ docs[j.found].subject = j.subject
    PROVE  IInv'
<1>1. /\ docs' \in Seq(Document)
      /\ DOMAIN docs' = DOMAIN docs
      /\ \A e \in DOMAIN docs : docs'[e] = IF e = d THEN r ELSE docs[e]
  BY RowRewritten DEF IInv, TypeOK
<1>2. DOMAIN docs \subseteq Nat
  BY DEF IInv, TypeOK
<1>3. \A g \in Handlers : job'[g] = IF g = h THEN j ELSE job[g]
  BY DEF IInv, TypeOK
<1>4. TypeOK'
  BY <1>1 DEF IInv, TypeOK
<1>5. Counters' /\ Numbered' /\ NoGaps'
  BY <1>1 DEF IInv, Counters, Numbered, NoGaps
<1>6. OnceEach'
  BY <1>1 DEF IInv, OnceEach
<1>7. docs[d].status # "spoiled"
  BY DEF IInv, SpoiledHaveNoSubject
<1>8. SpoiledHaveNoSubject'
  BY <1>1, <1>7 DEF IInv, SpoiledHaveNoSubject
<1>9. LatestInForce'
  BY <1>1, <1>2 DEF IInv, LatestInForce
<1>10. OneActive'
  BY DEF IInv, OneActive, Active
<1>11. WritersSound'
  BY <1>3 DEF IInv, WritersSound
<1>12. CancellersSound'
  <2> SUFFICES ASSUME NEW g \in Handlers, g # h
               PROVE  /\ job[g].at \in {"cancel", "reissue", "link", "linkBack"} \/ job[g].replace =>
                            /\ job[g].doc \in DOMAIN docs'
                            /\ docs'[job[g].doc].subject = job[g].subject
                            /\ job[g].subject # NoSubject
                            /\ job[g].at # "cancel" => docs'[job[g].doc].status = "cancelled"
                      /\ job[g].at \in {"link", "linkBack"} =>
                            /\ job[g].found \in DOMAIN docs'
                            /\ job[g].doc < job[g].found
                            /\ docs'[job[g].found].subject = job[g].subject
                      /\ job[g].at = "lock" => job[g].series \in Series
    BY <1>1, <1>3 DEF CancellersSound
  <2> QED
    BY <1>1 DEF IInv, CancellersSound
<1>13. ReplacementIsLater'
  BY <1>1, <1>2 DEF IInv, ReplacementIsLater
<1> QED
  BY <1>4, <1>5, <1>6, <1>8, <1>9, <1>10, <1>11, <1>12, <1>13 DEF IInv

\* The document a transaction inserts when it commits: the next number, the last row.
LEMMA DocumentStep ==
    ASSUME IInv, NEW h \in Handlers, DocumentWritten(h) PROVE IInv'
<1> DEFINE j == job[h]
           r == NewDocument(j)
           n == Len(docs) + 1
<1>1. j \in Job /\ j.at = "write"
  BY DEF IInv, TypeOK, DocumentWritten
<1>2. /\ j.series \in Series /\ status[j.series] = "active"
      /\ j.serial = next[j.series] /\ j.serial <= Last[j.series]
      /\ \A g \in Handlers : job[g].at = "write" /\ job[g].series = j.series => g = h
  BY <1>1 DEF IInv, WritersSound
<1>3. r \in Document
  BY <1>1, <1>2 DEF NewDocument, Document, Job
<1>4. /\ docs' \in Seq(Document) /\ Len(docs) \in Nat
      /\ DOMAIN docs = 1 .. Len(docs) /\ DOMAIN docs' = 1 .. n
      /\ \A e \in DOMAIN docs : docs'[e] = docs[e]
      /\ docs'[n] = r
  <2>1. docs \in Seq(Document) /\ docs' = Append(docs, r)
    BY DEF IInv, TypeOK, DocumentWritten
  <2> QED
    BY <1>3, <2>1, RowAppended
<1>5. /\ r.series = j.series /\ r.serial = j.serial /\ r.subject = j.subject
      /\ r.status = IF j.subject = NoSubject THEN "spoiled" ELSE "issued"
      /\ r.replaces = 0 /\ r.replacedBy = 0
  BY DEF NewDocument
<1>6. /\ j.subject # NoSubject => \A e \in DOMAIN docs : docs[e].subject = j.subject =>
                                       docs[e].status # "issued"
      /\ \A e \in DOMAIN docs : docs[e].series # j.series \/ docs[e].serial # j.serial
  BY DEF DocumentWritten, Duplicate, InForce
<1>7. \A s \in Series : next'[s] = IF s = j.series THEN j.serial + 1 ELSE next[s]
  BY DEF DocumentWritten, IInv, TypeOK
<1>8. next \in [Series -> Nat] /\ next' \in [Series -> Nat] /\ j.serial \in Nat
  BY <1>1, <1>2 DEF DocumentWritten, IInv, TypeOK, Job
<1> DEFINE k == IF j.replace
                THEN [Idle EXCEPT !.at = "link", !.subject = j.subject, !.doc = j.doc, !.found = n]
                ELSE Idle
<1>9. k \in Job /\ k.at \in {"idle", "link"} /\ (k.at = "link" <=> j.replace) /\ ~k.replace
      /\ (j.replace => k.subject = j.subject /\ k.doc = j.doc /\ k.found = n)
  <2>1. /\ j.replace \in BOOLEAN /\ j.doc \in Nat /\ n \in Nat
        /\ j.subject \in Subjects \union {NoSubject}
    BY <1>1, <1>4 DEF Job
  <2>2. CASE j.replace
    <3>1. k = [at |-> "link", subject |-> j.subject, series |-> NoSeries, serial |-> 0,
               doc |-> j.doc, replace |-> FALSE, found |-> n]
      BY <2>2 DEF Idle
    <3> HIDE DEF k
    <3>2. [at |-> "link", subject |-> j.subject, series |-> NoSeries, serial |-> 0,
           doc |-> j.doc, replace |-> FALSE, found |-> n] \in Job
      BY <2>1 DEF Job, Stages
    <3>3. /\ k.at = "link" /\ ~k.replace
          /\ k.subject = j.subject /\ k.doc = j.doc /\ k.found = n
      BY <3>1
    <3> QED
      BY <2>2, <3>1, <3>2, <3>3
  <2>3. CASE ~j.replace
    <3>1. k = Idle
      BY <2>3
    <3> QED
      BY <2>3, <3>1 DEF Idle, Job, Stages
  <2> QED
    BY <2>2, <2>3
<1>10. \A g \in Handlers : job'[g] = IF g = h THEN k ELSE job[g]
  BY DEF DocumentWritten, IInv, TypeOK
<1>11. TypeOK'
  <2>1. status' \in [Series -> SeriesStatus]
    BY <1>2 DEF DocumentWritten, IInv, TypeOK, SeriesStatus
  <2>2. job' \in [Handlers -> Job]
    BY <1>9 DEF DocumentWritten, IInv, TypeOK
  <2> QED
    BY <1>4, <1>8, <2>1, <2>2 DEF TypeOK
<1>12. Counters'
  BY <1>2, <1>7, <1>8, RangeAssumption DEF IInv, Counters
<1>13. Numbered'
  <2>1. \A e \in DOMAIN docs : docs[e] \in Document
    BY <1>4 DEF IInv, TypeOK
  <2>2. Start[r.series] <= r.serial /\ r.serial < next'[r.series]
    BY <1>2, <1>5, <1>7, <1>8, RangeAssumption DEF IInv, Counters
  <2>3. \A e \in DOMAIN docs : Start[docs[e].series] <= docs[e].serial
                               /\ docs[e].serial < next'[docs[e].series]
    BY <1>2, <1>7, <1>8, <2>1 DEF IInv, Numbered, Document
  <2> QED
    BY <1>4, <2>2, <2>3 DEF Numbered
<1>14. NoGaps'
  <2> SUFFICES ASSUME NEW s \in Series, NEW m \in Nat, Start[s] <= m, m < next'[s]
               PROVE  \E d \in DOMAIN docs' : docs'[d].series = s /\ docs'[d].serial = m
    BY DEF NoGaps
  <2>1. CASE m < next[s]
    BY <1>4, <2>1 DEF IInv, NoGaps
  <2>2. CASE ~(m < next[s])
    <3>1. s = j.series /\ m = j.serial
      BY <1>2, <1>7, <1>8, <2>2
    <3> QED
      BY <1>4, <1>5, <3>1
  <2> QED
    BY <2>1, <2>2
<1>15. OnceEach'
  BY <1>4, <1>5, <1>6 DEF IInv, OnceEach
<1>16. SpoiledHaveNoSubject'
  BY <1>4, <1>5 DEF IInv, SpoiledHaveNoSubject
<1>17. LatestInForce'
  BY <1>4, <1>5, <1>6 DEF IInv, LatestInForce, SpoiledHaveNoSubject
<1>18. OneActive'
  BY <1>2 DEF DocumentWritten, IInv, TypeOK, OneActive, Active
<1>19. WritersSound'
  <2>1. \A s \in Series : s # j.series => next'[s] = next[s] /\ status'[s] = status[s]
    BY <1>7 DEF DocumentWritten, IInv, TypeOK
  <2> SUFFICES ASSUME NEW g \in Handlers, job'[g].at = "write"
               PROVE  /\ job'[g].series \in Series
                      /\ status'[job'[g].series] = "active"
                      /\ job'[g].serial = next'[job'[g].series]
                      /\ job'[g].serial <= Last[job'[g].series]
                      /\ \A f \in Handlers : job'[f].at = "write" /\ job'[f].series = job'[g].series
                                            => f = g
    BY DEF WritersSound
  <2>2. k.at # "write"
    BY <1>9
  <2>3. g # h /\ job'[g] = job[g]
    BY <1>10, <2>2
  <2>4. /\ job[g].series \in Series
        /\ status[job[g].series] = "active"
        /\ job[g].serial = next[job[g].series]
        /\ job[g].serial <= Last[job[g].series]
        /\ \A f \in Handlers : job[f].at = "write" /\ job[f].series = job[g].series => f = g
    BY <2>3 DEF IInv, WritersSound
  <2>5. job[g].series # j.series
    BY <1>1, <2>3, <2>4
  <2>6. \A f \in Handlers : job'[f].at = "write" => job'[f] = job[f]
    BY <1>10, <2>2
  <2> QED
    BY <2>1, <2>3, <2>4, <2>5, <2>6
<1>20. CancellersSound'
  <2>1. \A g \in Handlers : g # h /\ job[g].at \in {"link", "linkBack"} =>
           job[g].found \in DOMAIN docs' /\ docs'[job[g].found].subject = job[g].subject
    BY <1>4 DEF IInv, CancellersSound
  <2>2. j.replace => j.doc \in DOMAIN docs /\ docs[j.doc].subject = j.subject
                     /\ j.subject # NoSubject /\ docs[j.doc].status = "cancelled"
    BY <1>1 DEF IInv, CancellersSound
  <2>3. \A e \in DOMAIN docs : e \in DOMAIN docs' /\ docs'[e] = docs[e] /\ e < n
    BY <1>4
  <2>4. n \in DOMAIN docs' /\ docs'[n].subject = j.subject
    BY <1>4, <1>5
  <2>5. \A g \in Handlers \ {h} :
          /\ job[g].at \in {"cancel", "reissue", "link", "linkBack"} \/ job[g].replace =>
                /\ job[g].doc \in DOMAIN docs'
                /\ docs'[job[g].doc].subject = job[g].subject
                /\ job[g].subject # NoSubject
                /\ job[g].at # "cancel" => docs'[job[g].doc].status = "cancelled"
          /\ job[g].at \in {"link", "linkBack"} => job[g].doc < job[g].found
          /\ job[g].at = "lock" => job[g].series \in Series
    BY <2>3 DEF IInv, CancellersSound
  <2>6. /\ k.at \in {"cancel", "reissue", "link", "linkBack"} \/ k.replace =>
              /\ k.doc \in DOMAIN docs'
              /\ docs'[k.doc].subject = k.subject
              /\ k.subject # NoSubject
              /\ docs'[k.doc].status = "cancelled"
        /\ k.at \in {"link", "linkBack"} =>
              /\ k.found \in DOMAIN docs'
              /\ k.doc < k.found
              /\ docs'[k.found].subject = k.subject
        /\ k.at # "lock"
    BY <1>9, <2>2, <2>3, <2>4
  <2> SUFFICES ASSUME NEW g \in Handlers
               PROVE  /\ job'[g].at \in {"cancel", "reissue", "link", "linkBack"} \/ job'[g].replace =>
                            /\ job'[g].doc \in DOMAIN docs'
                            /\ docs'[job'[g].doc].subject = job'[g].subject
                            /\ job'[g].subject # NoSubject
                            /\ job'[g].at # "cancel" => docs'[job'[g].doc].status = "cancelled"
                      /\ job'[g].at \in {"link", "linkBack"} =>
                            /\ job'[g].found \in DOMAIN docs'
                            /\ job'[g].doc < job'[g].found
                            /\ docs'[job'[g].found].subject = job'[g].subject
                      /\ job'[g].at = "lock" => job'[g].series \in Series
    BY DEF CancellersSound
  <2>7. CASE g = h
    <3>1. job'[g] = k
      BY <1>10, <2>7
    <3> HIDE DEF k
    <3> QED
      BY <2>6, <3>1
  <2>8. CASE g # h
    <3>1. job'[g] = job[g]
      BY <1>10, <2>8
    <3> QED
      BY <2>1, <2>5, <2>8, <3>1
  <2> QED
    BY <2>7, <2>8
<1>21. ReplacementIsLater'
  <2>1. \A e \in DOMAIN docs : docs[e] \in Document /\ e \in Nat
    BY <1>4 DEF IInv, TypeOK
  <2>2. \A e \in DOMAIN docs : docs[e].replaces # 0 => docs[e].replaces \in DOMAIN docs
    BY <1>4, <2>1 DEF IInv, ReplacementIsLater, Document
  <2> QED
    BY <1>4, <1>5, <2>2 DEF IInv, ReplacementIsLater
<1> QED
  BY <1>11, <1>12, <1>13, <1>14, <1>15, <1>16, <1>17, <1>18, <1>19, <1>20, <1>21 DEF IInv

LEMMA StepInductive ==
    ASSUME IInv, NEW h \in Handlers, Step(h) PROVE IInv'
<1> USE DEF Step
<1>0. job[h] \in Job
  BY DEF IInv, TypeOK
<1>1. ASSUME NEW x \in Subjects, IssueRequested(h, x) PROVE IInv'
  <2> DEFINE j == [Idle EXCEPT !.at = "draw", !.subject = x]
  <2>1. j \in Job /\ j.at = "draw" /\ ~j.replace
    BY DEF Idle, Job, Stages
  <2> QED
    BY <1>1, <2>1, JobStep DEF IssueRequested
<1>2. CASE SpoilRequested(h)
  <2> DEFINE j == [Idle EXCEPT !.at = "draw"]
  <2>1. j \in Job /\ j.at = "draw" /\ ~j.replace
    BY DEF Idle, Job, Stages
  <2> QED
    BY <1>2, <2>1, JobStep DEF SpoilRequested
<1>3. CASE SeriesSeen(h)
  <2>1. PICK s \in Active : job' = [job EXCEPT ![h] = [job[h] EXCEPT !.at = "lock", !.series = s]]
    BY <1>3 DEF SeriesSeen, IInv, TypeOK
  <2> DEFINE j == [job[h] EXCEPT !.at = "lock", !.series = s]
  <2>2. /\ j \in Job /\ j.at = "lock" /\ j.series = s /\ s \in Series
        /\ j.replace = job[h].replace /\ j.doc = job[h].doc /\ j.subject = job[h].subject
    BY <1>0 DEF Job, Stages, Active
  <2>3. job[h].at = "draw"
    BY <1>3 DEF SeriesSeen
  <2>4. j.replace => /\ j.doc \in DOMAIN docs /\ docs[j.doc].subject = j.subject
                     /\ j.subject # NoSubject /\ docs[j.doc].status = "cancelled"
    BY <2>2, <2>3 DEF IInv, CancellersSound
  <2> HIDE DEF j
  <2>5. job' = [job EXCEPT ![h] = j] /\ UNCHANGED <<status, next, docs>>
    BY <1>3, <2>1 DEF SeriesSeen, j
  <2> QED
    BY <2>2, <2>4, <2>5, JobStep
<1>4. CASE SeriesLocked(h)
  <2> DEFINE s == job[h].series
             j == [job[h] EXCEPT !.at = "write", !.serial = next[s]]
  <2>1. job[h].at = "lock" /\ s \in Series /\ next[s] \in Nat
    BY <1>4 DEF SeriesLocked, IInv, CancellersSound, TypeOK
  <2>2. /\ j \in Job /\ j.at = "write" /\ j.series = s /\ j.serial = next[s]
        /\ j.replace = job[h].replace /\ j.doc = job[h].doc /\ j.subject = job[h].subject
    BY <1>0, <2>1 DEF Job, Stages
  <2>3. j.replace => /\ j.doc \in DOMAIN docs /\ docs[j.doc].subject = j.subject
                     /\ j.subject # NoSubject /\ docs[j.doc].status = "cancelled"
    BY <2>1, <2>2 DEF IInv, CancellersSound
  <2>4. job' = [job EXCEPT ![h] = j] /\ UNCHANGED <<status, next, docs>>
    BY <1>4 DEF SeriesLocked, IInv, TypeOK
  <2>5. status[s] = "active" /\ next[s] <= Last[s] /\ SeriesFree(s)
    BY <1>4 DEF SeriesLocked
  <2> HIDE DEF j
  <2> QED
    BY <2>1, <2>2, <2>3, <2>4, <2>5, JobStep
<1>5. CASE NoSerial(h) \/ DocumentRefused(h) \/ HandlerDies(h)
  BY <1>5, IdleStep DEF NoSerial, DocumentRefused, HandlerDies
<1>6. CASE DocumentWritten(h)
  BY <1>6, DocumentStep
<1>7. ASSUME NEW d \in DOMAIN docs, NEW replace \in BOOLEAN, CancelRequested(h, d, replace)
      PROVE  IInv'
  <2> DEFINE j == [Idle EXCEPT !.at = "cancel", !.subject = docs[d].subject,
                               !.doc = d, !.replace = replace]
  <2>1. docs[d] \in Document /\ d \in Nat /\ docs[d].status = "issued"
    <3>1. docs \in Seq(Document)
      BY DEF IInv, TypeOK
    <3>2. docs[d] \in Document /\ d \in Nat
      BY <3>1
    <3> QED
      BY <1>7, <3>2 DEF CancelRequested
  <2>2. docs[d].subject # NoSubject
    BY <2>1 DEF IInv, SpoiledHaveNoSubject
  <2>3. /\ j \in Job /\ j.at = "cancel" /\ j.doc = d /\ j.subject = docs[d].subject
    BY <2>1 DEF Idle, Job, Stages, Document
  <2> HIDE DEF j
  <2>4. job' = [job EXCEPT ![h] = j] /\ UNCHANGED <<status, next, docs>>
    BY <1>7 DEF CancelRequested, j
  <2> QED
    BY <2>2, <2>3, <2>4, JobStep
<1>8. CASE CancelWritten(h)
  <2> DEFINE d == job[h].doc
             r == [docs[d] EXCEPT !.status = "cancelled"]
             j == IF job[h].replace THEN [job[h] EXCEPT !.at = "reissue"] ELSE Idle
  <2>1. /\ job[h].at = "cancel" /\ d \in DOMAIN docs
        /\ docs[d].subject = job[h].subject /\ job[h].subject # NoSubject
    BY <1>8 DEF CancelWritten, IInv, CancellersSound
  <2>2. docs[d] \in Document /\ docs \in Seq(Document)
    BY <2>1 DEF IInv, TypeOK
  <2>3. /\ r \in Document /\ r.series = docs[d].series /\ r.serial = docs[d].serial
        /\ r.subject = docs[d].subject /\ r.status = "cancelled"
        /\ r.replaces = docs[d].replaces /\ r.replacedBy = docs[d].replacedBy
    BY <2>2 DEF Document
  <2>4. /\ j \in Job /\ j.at \in {"idle", "reissue"}
        /\ j.at = "reissue" \/ j.replace => j.doc = d /\ j.subject = job[h].subject
    BY <1>0 DEF Idle, Job, Stages
  <2> HIDE DEF r, j
  <2>5. docs' = [docs EXCEPT ![d] = r] /\ job' = [job EXCEPT ![h] = j]
        /\ UNCHANGED <<status, next>>
    BY <1>8, <2>2 DEF CancelWritten, IInv, TypeOK, r, j
  <2>6. docs'[d].status = "cancelled"
    BY <2>1, <2>2, <2>3, <2>5
  <2>7. /\ r.replacedBy # 0 => /\ d < r.replacedBy /\ r.replacedBy \in DOMAIN docs
                               /\ docs[r.replacedBy].subject = docs[d].subject
        /\ r.replaces # 0 => r.replaces < d /\ docs[r.replaces].status = "cancelled"
    BY <2>1, <2>3 DEF IInv, ReplacementIsLater
  <2> QED
    BY <2>1, <2>3, <2>4, <2>5, <2>6, <2>7, RowStep
<1>9. CASE ReplacementFound(h)
  <2>1. PICK e \in InForce(job[h].subject) :
           job' = [job EXCEPT ![h] = [job[h] EXCEPT !.at = "link", !.found = e]]
    BY <1>9 DEF ReplacementFound, IInv, TypeOK
  <2> DEFINE j == [job[h] EXCEPT !.at = "link", !.found = e]
  <2>2. /\ e \in DOMAIN docs /\ e \in Nat
        /\ docs[e].subject = job[h].subject /\ docs[e].status = "issued"
    BY DEF InForce, IInv, TypeOK
  <2>3. /\ j \in Job /\ j.at = "link" /\ j.found = e
        /\ j.doc = job[h].doc /\ j.subject = job[h].subject
    BY <1>0, <2>2 DEF Job, Stages
  <2>4. /\ j.doc \in DOMAIN docs /\ docs[j.doc].subject = j.subject
        /\ j.subject # NoSubject /\ docs[j.doc].status = "cancelled"
    BY <1>9, <2>3 DEF ReplacementFound, IInv, CancellersSound
  <2>5. j.doc < e
    <3>1. j.doc <= e
      BY <2>2, <2>3, <2>4 DEF IInv, LatestInForce
    <3>2. j.doc # e /\ j.doc \in Nat
      BY <2>2, <2>4 DEF IInv, TypeOK
    <3> QED
      BY <2>2, <3>1, <3>2
  <2> HIDE DEF j
  <2>6. job' = [job EXCEPT ![h] = j] /\ UNCHANGED <<status, next, docs>>
    BY <1>9, <2>1 DEF ReplacementFound, j
  <2> QED
    BY <2>2, <2>3, <2>4, <2>5, <2>6, JobStep
<1>10. CASE ReplacementDrawn(h)
  <2> DEFINE j == [job[h] EXCEPT !.at = "draw"]
  <2>1. /\ j \in Job /\ j.at = "draw"
        /\ j.replace = job[h].replace /\ j.doc = job[h].doc /\ j.subject = job[h].subject
    BY <1>0 DEF Job, Stages
  <2>2. /\ j.doc \in DOMAIN docs /\ docs[j.doc].subject = j.subject
        /\ j.subject # NoSubject /\ docs[j.doc].status = "cancelled"
    BY <1>10, <2>1 DEF ReplacementDrawn, IInv, CancellersSound
  <2>3. job' = [job EXCEPT ![h] = j] /\ UNCHANGED <<status, next, docs>>
    BY <1>10 DEF ReplacementDrawn, IInv, TypeOK
  <2> HIDE DEF j
  <2> QED
    BY <2>1, <2>2, <2>3, JobStep
<1>11. CASE LinkedOld(h)
  <2> DEFINE d == job[h].doc
             r == [docs[d] EXCEPT !.replacedBy = job[h].found]
             j == [job[h] EXCEPT !.at = "linkBack"]
  <2>1. /\ job[h].at = "link" /\ d \in DOMAIN docs /\ docs[d].subject = job[h].subject
        /\ job[h].subject # NoSubject /\ docs[d].status = "cancelled"
        /\ job[h].found \in DOMAIN docs /\ d < job[h].found
        /\ docs[job[h].found].subject = job[h].subject
    BY <1>11 DEF LinkedOld, IInv, CancellersSound
  <2>2. docs[d] \in Document /\ docs \in Seq(Document) /\ job[h].found \in Nat
    BY <1>0, <2>1 DEF IInv, TypeOK, Job
  <2>3. /\ r \in Document /\ r.series = docs[d].series /\ r.serial = docs[d].serial
        /\ r.subject = docs[d].subject /\ r.status = docs[d].status
        /\ r.replaces = docs[d].replaces /\ r.replacedBy = job[h].found
    BY <2>2 DEF Document
  <2>4. /\ j \in Job /\ j.at = "linkBack" /\ j.doc = d /\ j.found = job[h].found
        /\ j.subject = job[h].subject
    BY <1>0 DEF Job, Stages
  <2> HIDE DEF r, j
  <2>5. docs' = [docs EXCEPT ![d] = r] /\ job' = [job EXCEPT ![h] = j]
        /\ UNCHANGED <<status, next>>
    BY <1>11, <2>2 DEF LinkedOld, IInv, TypeOK, r, j
  <2>6. docs'[d].status = "cancelled"
    BY <2>1, <2>2, <2>3, <2>5
  <2>7. r.replaces # 0 => r.replaces < d /\ docs[r.replaces].status = "cancelled"
    BY <2>1, <2>3 DEF IInv, ReplacementIsLater
  <2> QED
    BY <2>1, <2>3, <2>4, <2>5, <2>6, <2>7, RowStep
<1>12. CASE LinkedNew(h)
  <2> DEFINE d == job[h].found
             r == [docs[d] EXCEPT !.replaces = job[h].doc]
  <2>1. /\ job[h].at = "linkBack" /\ d \in DOMAIN docs /\ docs[d].subject = job[h].subject
        /\ job[h].subject # NoSubject /\ docs[job[h].doc].status = "cancelled"
        /\ job[h].doc \in DOMAIN docs /\ job[h].doc < d
    BY <1>12 DEF LinkedNew, IInv, CancellersSound
  <2>2. docs[d] \in Document /\ docs \in Seq(Document) /\ job[h].doc \in Nat
    BY <1>0, <2>1 DEF IInv, TypeOK, Job
  <2>3. /\ r \in Document /\ r.series = docs[d].series /\ r.serial = docs[d].serial
        /\ r.subject = docs[d].subject /\ r.status = docs[d].status
        /\ r.replacedBy = docs[d].replacedBy /\ r.replaces = job[h].doc
    BY <2>2 DEF Document
  <2>4. Idle \in Job /\ Idle.at = "idle" /\ ~Idle.replace
    BY DEF Idle, Job, Stages
  <2> HIDE DEF r
  <2>5. docs' = [docs EXCEPT ![d] = r] /\ job' = [job EXCEPT ![h] = Idle]
        /\ UNCHANGED <<status, next>>
    BY <1>12, <2>2 DEF LinkedNew, IInv, TypeOK, r
  <2>6. r.replacedBy # 0 => /\ r.status = "cancelled"
                            /\ d < r.replacedBy /\ r.replacedBy \in DOMAIN docs
                            /\ docs[r.replacedBy].subject = docs[d].subject
    BY <2>1, <2>3 DEF IInv, ReplacementIsLater
  <2> QED
    BY <2>1, <2>3, <2>4, <2>5, <2>6, RowStep
<1> QED
  BY <1>1, <1>2, <1>3, <1>4, <1>5, <1>6, <1>7, <1>8, <1>9, <1>10, <1>11, <1>12

LEMMA Inductive == IInv /\ [Next]_vars => IInv'
<1> SUFFICES ASSUME IInv, [Next]_vars PROVE IInv'
  OBVIOUS
<1>1. CASE UNCHANGED vars
  <2>1. UNCHANGED <<status, next, docs, job>>
    BY <1>1 DEF vars
  <2>2. TypeOK' /\ OneActive' /\ WritersSound' /\ CancellersSound'
    BY <2>1 DEF IInv, TypeOK, OneActive, Active, WritersSound, CancellersSound
  <2> QED
    BY <2>1, <2>2, RowsUntouched DEF IInv
<1>2. CASE Next
  BY <1>2, SeriesStep, StepInductive DEF Next
<1> QED
  BY <1>1, <1>2

----------------------------------------------------------------------------
\* The inductive invariant: what is on file, and what open transactions and cancellations
\* remember of it, stay sound whichever handlers interleave.
THEOREM Invariance == Spec => []IInv
BY InitIInv, Inductive, PTL DEF Spec

\* Every reachable state is well typed.
THEOREM TypeCorrect == Spec => []TypeOK
<1>1. IInv => TypeOK
  BY DEF IInv
<1> QED
  BY <1>1, Invariance, PTL

\* The numbers gone from any series are exactly those below its counter, one document each.
THEOREM NumbersHaveNoGaps == Spec => []SerialsAccounted
<1>1. IInv => SerialsAccounted
  <2> SUFFICES ASSUME IInv PROVE SerialsAccounted
    OBVIOUS
  <2>1. ASSUME NEW s \in Series
        PROVE {docs[d].serial : d \in {d \in DOMAIN docs : docs[d].series = s}}
                 = Start[s] .. next[s] - 1
    <3> docs \in Seq(Document)
      BY DEF IInv, TypeOK
    <3>0. \A d \in DOMAIN docs : docs[d] \in Document
      OBVIOUS
    <3>1. /\ Start[s] \in Nat /\ next[s] \in Nat
          /\ \A d \in DOMAIN docs : docs[d].serial \in Nat
      BY <3>0, RangeAssumption DEF IInv, TypeOK, Document
    <3>2. \A d \in DOMAIN docs : docs[d].series = s =>
             Start[s] <= docs[d].serial /\ docs[d].serial < next[s]
      BY DEF IInv, Numbered
    <3>3. \A n \in Start[s] .. next[s] - 1 :
             \E d \in DOMAIN docs : docs[d].series = s /\ docs[d].serial = n
      BY <3>1 DEF IInv, NoGaps
    <3>4. {docs[d].serial : d \in {d \in DOMAIN docs : docs[d].series = s}}
             \subseteq Start[s] .. next[s] - 1
      BY <3>1, <3>2
    <3>5. Start[s] .. next[s] - 1
             \subseteq {docs[d].serial : d \in {d \in DOMAIN docs : docs[d].series = s}}
      BY <3>3
    <3> QED
      BY <3>4, <3>5
  <2> QED
    BY <2>1 DEF SerialsAccounted, IInv, OnceEach
<1> QED
  BY <1>1, Invariance, PTL

\* One document in force per subject, one active series, whoever issues or replaces at once.
THEOREM OneIsInForce == Spec => []OneInForce
<1>1. IInv => OneInForce
  <2> SUFFICES ASSUME IInv PROVE OneInForce
    OBVIOUS
  <2>1. \A d \in DOMAIN docs : d \in Nat
    BY DEF IInv, TypeOK
  <2>2. \A x \in Subjects, d, e \in DOMAIN docs : d \in InForce(x) /\ e \in InForce(x) => d = e
    BY <2>1 DEF IInv, LatestInForce, InForce
  <2> QED
    BY <2>2 DEF OneInForce, IInv, OneActive
<1> QED
  BY <1>1, Invariance, PTL

\* Chains of replacements only lead to later documents.
THEOREM ReplacementsLeadForward == Spec => []ReplacementIsLater
<1>1. IInv => ReplacementIsLater
  BY DEF IInv
<1> QED
  BY <1>1, Invariance, PTL

----------------------------------------------------------------------------
\* Rows that keep number and status leave the register of used numbers alone.
LEMMA UsedKept ==
    ASSUME DOMAIN docs' = DOMAIN docs,
           \A d \in DOMAIN docs : /\ docs'[d].series = docs[d].series
                                  /\ docs'[d].serial = docs[d].serial
                                  /\ docs'[d].status = docs[d].status
    PROVE  UNCHANGED NumbersUsed
BY DEF NumbersUsed

LEMMA StepKeepsBook ==
    ASSUME IInv, NEW h \in Handlers, Step(h)
    PROVE  Register!Next \/ UNCHANGED <<next, NumbersUsed>>
<1> docs \in Seq(Document) /\ job[h] \in Job
  BY DEF IInv, TypeOK
<1>1. CASE DocumentWritten(h)
  <2> DEFINE j == job[h]
             fate == IF j.subject = NoSubject THEN "spoiled" ELSE "issued"
             r == NewDocument(j)
             n == Len(docs) + 1
             entry == [series |-> j.series, serial |-> j.serial, fate |-> fate]
  <2>1. /\ j.series \in Series /\ j.serial = next[j.series] /\ j.serial <= Last[j.series]
        /\ fate \in {"issued", "spoiled"}
    BY <1>1 DEF DocumentWritten, IInv, WritersSound
  <2>2. r \in Document /\ r.series = j.series /\ r.serial = j.serial /\ r.status = fate
    BY <2>1 DEF NewDocument, Document, Job
  <2>3. docs' = Append(docs, r)
    BY <1>1 DEF DocumentWritten
  <2> HIDE DEF r
  <2>4. /\ Len(docs) \in Nat
        /\ DOMAIN docs' = DOMAIN docs \union {n}
        /\ \A d \in DOMAIN docs : docs'[d] = docs[d]
        /\ docs'[n] = r
    BY <2>2, <2>3, RowAppended
  <2> HIDE DEF n
  <2>5. NumbersUsed' = {[series |-> docs'[d].series, serial |-> docs'[d].serial,
                         fate |-> docs'[d].status] : d \in DOMAIN docs'}
    BY DEF NumbersUsed
  <2>6. NumbersUsed' = NumbersUsed \union {entry}
    <3>1. [series |-> docs'[n].series, serial |-> docs'[n].serial,
           fate |-> docs'[n].status] = entry
      BY <2>2, <2>4
    <3>2. NumbersUsed' = NumbersUsed \union {[series |-> docs'[n].series,
                           serial |-> docs'[n].serial, fate |-> docs'[n].status]}
      BY <2>4, <2>5 DEF NumbersUsed
    <3> QED
      BY <3>1, <3>2
  <2>7. next' = [next EXCEPT ![j.series] = @ + 1]
    BY <1>1, <2>1 DEF DocumentWritten, IInv, TypeOK
  <2>8. Register!Consume(j.series, fate)
    BY <2>1, <2>6, <2>7 DEF Register!Consume, Register!Entry
  <2> HIDE DEF fate
  <2> QED
    BY <2>1, <2>8 DEF Register!Next
<1>2. CASE CancelWritten(h)
  <2> DEFINE d == job[h].doc
             r == [docs[d] EXCEPT !.status = "cancelled"]
             Was(e) == [series |-> docs[e].series, serial |-> docs[e].serial,
                        fate |-> docs[e].status]
             Now(e) == [series |-> docs'[e].series, serial |-> docs'[e].serial,
                        fate |-> docs'[e].status]
  <2>1. /\ d \in DOMAIN docs /\ docs[d].subject # NoSubject /\ docs[d] \in Document
        /\ next' = next
    BY <1>2 DEF CancelWritten, IInv, CancellersSound
  <2>2. /\ r \in Document /\ r.series = docs[d].series /\ r.serial = docs[d].serial
        /\ r.status = "cancelled" /\ docs' = [docs EXCEPT ![d] = r]
    BY <1>2, <2>1 DEF CancelWritten, Document
  <2> HIDE DEF r
  <2>3. /\ DOMAIN docs' = DOMAIN docs
        /\ \A e \in DOMAIN docs : docs'[e] = IF e = d THEN r ELSE docs[e]
    BY <2>1, <2>2, RowRewritten
  <2>4. CASE docs[d].status = "cancelled"
    BY <2>1, <2>2, <2>3, <2>4, UsedKept
  <2>5. CASE docs[d].status = "issued"
    <3>1. NumbersUsed = {Was(e) : e \in DOMAIN docs}
      BY DEF NumbersUsed
    <3>2. NumbersUsed' = {Now(e) : e \in DOMAIN docs}
      BY <2>3 DEF NumbersUsed
    <3>3. \A e \in DOMAIN docs : e # d => Now(e) = Was(e)
      BY <2>3
    <3>4. Now(d) = [series |-> docs[d].series, serial |-> docs[d].serial,
                    fate |-> "cancelled"]
      BY <2>1, <2>2, <2>3
    <3>5. \A e \in DOMAIN docs : e # d => Was(e) # Was(d)
      <4>1. \A e \in DOMAIN docs : e # d => docs[e].series # docs[d].series
                                          \/ docs[e].serial # docs[d].serial
        BY <2>1 DEF IInv, OnceEach
      <4> QED
        BY <4>1
    <3> HIDE DEF Was, Now
    <3>6. NumbersUsed' = (NumbersUsed \ {Was(d)}) \union {Now(d)}
      BY <2>1, <3>1, <3>2, <3>3, <3>5
    <3>7. /\ Was(d) \in NumbersUsed /\ Was(d).fate = "issued"
          /\ Was(d).series = docs[d].series /\ Was(d).serial = docs[d].serial
      BY <2>1, <2>5, <3>1 DEF Was
    <3>8. Register!Cancel(Was(d))
      BY <2>1, <3>4, <3>6, <3>7 DEF Register!Cancel, Register!Entry
    <3> QED
      BY <3>7, <3>8 DEF Register!Next
  <2> QED
    BY <2>1, <2>4, <2>5 DEF Document, IInv, SpoiledHaveNoSubject
<1>3. CASE LinkedOld(h)
  <2> DEFINE r == [docs[job[h].doc] EXCEPT !.replacedBy = job[h].found]
  <2>1. job[h].doc \in DOMAIN docs /\ docs' = [docs EXCEPT ![job[h].doc] = r] /\ next' = next
    BY <1>3 DEF LinkedOld, IInv, CancellersSound
  <2>2. /\ docs[job[h].doc] \in Document /\ job[h].found \in Nat
    BY <2>1 DEF Job
  <2>3. /\ r \in Document /\ r.series = docs[job[h].doc].series
        /\ r.serial = docs[job[h].doc].serial /\ r.status = docs[job[h].doc].status
    BY <2>2 DEF Document
  <2> HIDE DEF r
  <2> QED
    BY <2>1, <2>3, RowRewritten, UsedKept
<1>4. CASE LinkedNew(h)
  <2> DEFINE r == [docs[job[h].found] EXCEPT !.replaces = job[h].doc]
  <2>1. job[h].found \in DOMAIN docs /\ docs' = [docs EXCEPT ![job[h].found] = r] /\ next' = next
    BY <1>4 DEF LinkedNew, IInv, CancellersSound
  <2>2. /\ docs[job[h].found] \in Document /\ job[h].doc \in Nat
    BY <2>1 DEF Job
  <2>3. /\ r \in Document /\ r.series = docs[job[h].found].series
        /\ r.serial = docs[job[h].found].serial /\ r.status = docs[job[h].found].status
    BY <2>2 DEF Document
  <2> HIDE DEF r
  <2> QED
    BY <2>1, <2>3, RowRewritten, UsedKept
<1>5. CASE UNCHANGED <<next, docs>>
  BY <1>5 DEF NumbersUsed
<1> QED
  BY <1>1, <1>2, <1>3, <1>4, <1>5
  DEF Step, IssueRequested, SpoilRequested, SeriesSeen, SeriesLocked, NoSerial,
      DocumentRefused, CancelRequested, ReplacementFound, ReplacementDrawn, HandlerDies

\* Every handler's step consumes the next number of a series, cancels an issued one, or
\* leaves the serial book alone.
THEOREM ImplementsBook == Spec => KeepsBook
<1>1. Init => Register!Init
  BY DEF Init, Register!Init, NumbersUsed
<1>2. IInv /\ [Next]_vars => [Register!Next]_<<next, NumbersUsed>>
  <2> SUFFICES ASSUME IInv, [Next]_vars
               PROVE  Register!Next \/ UNCHANGED <<next, NumbersUsed>>
    OBVIOUS
  <2>1. CASE UNCHANGED vars
    BY <2>1 DEF vars, NumbersUsed
  <2>2. CASE (\E s \in Series : SeriesRegistered(s))
             \/ (\E s \in Series, to \in HandStatuses : SeriesSet(s, to))
    BY <2>2 DEF SeriesRegistered, SeriesSet, NumbersUsed
  <2> QED
    BY <2>1, <2>2, StepKeepsBook DEF Next
<1> QED
  BY <1>1, <1>2, Invariance, PTL DEF Spec, KeepsBook, Register!Book

----------------------------------------------------------------------------
\* The liquidation report: the loop over the range, whatever documents there are.
LoopStart == [rows |-> <<>>, run |-> 0]

LoopUpTo(s, b, f) ==
    f = [n \in From[s] .. b |->
            IF n = From[s] THEN LoopStart ELSE Looked(s, f[n - 1], n - 1)]

LoopOf(s) == CHOOSE f : LoopUpTo(s, Last[s] + 1, f)

LEMMA ReportIsLoop ==
    ASSUME NEW s
    PROVE  LiquidationRows(s) = Flush(LoopOf(s)[Last[s] + 1], Last[s] + 1).rows
BY DEF LiquidationRows, LoopOf, LoopUpTo, LoopStart

\* The loop runs to the end of any range.
LEMMA LoopExists ==
    ASSUME NEW s \in Series
    PROVE  LoopUpTo(s, Last[s] + 1, LoopOf(s))
<1> DEFINE a == From[s]
           A == {m \in Nat : \E f : LoopUpTo(s, a + m, f)}
<1>1. a \in Nat /\ Last[s] + 1 - a \in Nat /\ a + (Last[s] + 1 - a) = Last[s] + 1
  BY RangeAssumption
<1>2. 0 \in A
  <2>1. LoopUpTo(s, a, [n \in a .. a |-> LoopStart])
    BY <1>1 DEF LoopUpTo
  <2>2. a + 0 = a
    BY <1>1
  <2> QED BY <2>1, <2>2
<1>3. ASSUME NEW m \in Nat, m \in A PROVE m + 1 \in A
  <2> DEFINE b == a + m
  <2>1. PICK f : LoopUpTo(s, b, f)
    BY <1>3
  <2> DEFINE g == [n \in a .. b + 1 |-> IF n = b + 1 THEN Looked(s, f[b], b) ELSE f[n]]
             h == [n \in a .. b + 1 |->
                      IF n = a THEN LoopStart ELSE Looked(s, g[n - 1], n - 1)]
  <2>2. ASSUME NEW n \in a .. b + 1 PROVE g[n] = h[n]
    <3>1. CASE n = b + 1
      <4>1. n - 1 = b /\ n # a /\ b \in a .. b + 1 /\ b # b + 1
        BY <1>1, <3>1
      <4> QED BY <3>1, <4>1
    <3>2. CASE n # b + 1
      <4>1. n \in a .. b /\ g[n] = f[n]
        BY <1>1, <3>2
      <4>2. f[n] = IF n = a THEN LoopStart ELSE Looked(s, f[n - 1], n - 1)
        BY <2>1, <4>1 DEF LoopUpTo
      <4>3. n # a => n - 1 \in a .. b + 1 /\ n - 1 # b + 1
        BY <1>1, <4>1
      <4>4. n # a => g[n - 1] = f[n - 1]
        BY <4>3
      <4> QED BY <4>1, <4>2, <4>4
    <3> QED BY <3>1, <3>2
  <2>3. g = h
    <3>1. \A n \in a .. b + 1 : g[n] = h[n]
      BY <2>2
    <3> QED BY <3>1
  <2>4. a + (m + 1) = b + 1
    BY <1>1
  <2> HIDE DEF a, b
  <2>5. LoopUpTo(s, b + 1, g)
    BY <2>3 DEF LoopUpTo, a
  <2> QED BY <2>4, <2>5 DEF a
<1>4. Last[s] + 1 - a \in A
  <2>1. \A n \in Nat : n < Last[s] + 1 - a /\ n \in A => n + 1 \in A
    BY <1>3
  <2> HIDE DEF A, a
  <2> QED BY <1>1, <1>2, <2>1, AllUpTo
<1>5. \E f : LoopUpTo(s, Last[s] + 1, f)
  BY <1>1, <1>4
<1> QED BY <1>5 DEF LoopOf

Rows(s) == [from : Nat, to : Nat, fate : {"unused"} \union {Fate(s, n) : n \in Nat}]

\* The rows account for the numbers below m, one after the other.
Tiled(s, rows, m) ==
    /\ rows \in Seq(Rows(s))
    /\ rows = <<>> => m = From[s]
    /\ rows # <<>> => rows[1].from = From[s] /\ rows[Len(rows)].to = m - 1
    /\ \A i \in DOMAIN rows :
          /\ rows[i].from <= rows[i].to
          /\ \A n \in rows[i].from .. rows[i].to : Fate(s, n) = rows[i].fate
          /\ i > 1 => /\ rows[i].from = rows[i - 1].to + 1
                      /\ rows[i].fate = "unused" => rows[i - 1].fate # "unused"

LEMMA TiledFurther ==
    ASSUME NEW s \in Series, NEW rows, NEW m \in Nat, Tiled(s, rows, m), NEW to \in Nat, m <= to,
           NEW fate \in {"unused"} \union {Fate(s, n) : n \in Nat},
           \A n \in m .. to : Fate(s, n) = fate,
           fate = "unused" /\ rows # <<>> => rows[Len(rows)].fate # "unused"
    PROVE  Tiled(s, Append(rows, Row(m, to, fate)), to + 1)
<1> DEFINE r == Row(m, to, fate)
           q == Append(rows, r)
           L == Len(rows)
<1>1. r \in Rows(s) /\ r.from = m /\ r.to = to /\ r.fate = fate
  BY DEF Row, Rows
<1>2. rows \in Seq(Rows(s)) /\ L \in Nat
  BY DEF Tiled
<1> HIDE DEF r
<1>3. /\ q \in Seq(Rows(s)) /\ Len(q) = L + 1 /\ DOMAIN q = 1 .. L + 1 /\ q # <<>>
      /\ \A i \in 1 .. L : q[i] = rows[i]
      /\ q[L + 1] = r
      /\ DOMAIN rows = 1 .. L
  BY <1>1, <1>2
<1>3a. rows = <<>> <=> L = 0
  BY <1>2
<1>4. q[1].from = From[s] /\ q[Len(q)].to = (to + 1) - 1
  <2>1. CASE L = 0
    BY <1>1, <1>3, <1>3a, <2>1 DEF Tiled
  <2>2. CASE L # 0
    <3>1. 1 \in 1 .. L
      BY <1>2, <2>2
    <3> QED BY <1>1, <1>3, <1>3a, <2>2, <3>1 DEF Tiled
  <2> QED BY <2>1, <2>2
<1>5. ASSUME NEW i \in DOMAIN q
      PROVE  /\ q[i].from <= q[i].to
             /\ \A n \in q[i].from .. q[i].to : Fate(s, n) = q[i].fate
             /\ i > 1 => /\ q[i].from = q[i - 1].to + 1
                         /\ q[i].fate = "unused" => q[i - 1].fate # "unused"
  <2>1. CASE i \in 1 .. L
    <3>1. q[i] = rows[i] /\ i \in DOMAIN rows /\ (i > 1 => q[i - 1] = rows[i - 1])
      BY <1>2, <1>3, <2>1
    <3> HIDE DEF q
    <3> QED BY <3>1 DEF Tiled
  <2>2. CASE i = L + 1
    <3>1. q[i] = r
      BY <1>3, <2>2
    <3>2. i > 1 => L # 0 /\ L \in 1 .. L /\ q[i - 1] = rows[L] /\ rows[L] \in Rows(s)
      <4> HIDE DEF q, L
      <4>1. i > 1 => L # 0 /\ L \in 1 .. L /\ i - 1 = L
        BY <1>2, <2>2
      <4>2. i > 1 => rows[L] \in Rows(s)
        BY <1>2, <1>3, <4>1
      <4> QED BY <1>3, <4>1, <4>2
    <3>3. i > 1 => rows[L].to = m - 1 /\ (fate = "unused" => rows[L].fate # "unused")
      BY <1>3a, <3>2 DEF Tiled
    <3> HIDE DEF q
    <3>4. i > 1 => r.from = rows[L].to + 1
      BY <1>1, <3>2, <3>3
    <3> QED BY <1>1, <3>1, <3>2, <3>3, <3>4
  <2> QED BY <1>2, <1>3, <2>1, <2>2
<1> HIDE DEF q, L
<1>6. Tiled(s, q, to + 1)
  BY <1>3, <1>4, <1>5 DEF Tiled
<1> QED BY <1>6 DEF q, r

\* What the loop holds when it comes to number n.
Accounted(s, w, n) ==
    /\ w.run \in Nat
    /\ w = [rows |-> w.rows, run |-> w.run]
    /\ Tiled(s, w.rows, IF w.run = 0 THEN n ELSE w.run)
    /\ w.run # 0 => w.run < n /\ \A k \in w.run .. n - 1 : Fate(s, k) = "unused"
    /\ w.rows # <<>> => w.rows[Len(w.rows)].fate # "unused"

LEMMA FlushTiles ==
    ASSUME NEW s \in Series, NEW n \in Nat, n # 0, NEW w, Accounted(s, w, n)
    PROVE  Tiled(s, Flush(w, n).rows, n)
<1>1. CASE w.run = 0
  BY <1>1 DEF Flush, Accounted
<1>2. CASE w.run # 0
  <2>1. w.run \in Nat /\ n - 1 \in Nat /\ w.run <= n - 1 /\ (n - 1) + 1 = n
    BY <1>2 DEF Accounted
  <2>2. Tiled(s, w.rows, w.run)
    BY <1>2 DEF Accounted
  <2>3. \A k \in w.run .. n - 1 : Fate(s, k) = "unused"
    BY <1>2 DEF Accounted
  <2>4. w.rows # <<>> => w.rows[Len(w.rows)].fate # "unused"
    BY DEF Accounted
  <2> DEFINE run == w.run
             to == n - 1
             rows == w.rows
             unused == "unused"
  <2>5. unused \in {"unused"} \union {Fate(s, k) : k \in Nat}
    OBVIOUS
  <2> HIDE DEF run, to, rows
  <2>6. Tiled(s, Append(rows, Row(run, to, unused)), to + 1)
    BY <2>1, <2>2, <2>3, <2>4, <2>5, TiledFurther DEF run, to, rows
  <2> QED BY <1>2, <2>1, <2>6 DEF Flush, run, to, rows
<1> QED BY <1>1, <1>2

LEMMA LookedAccounts ==
    ASSUME NEW s \in Series, NEW n \in Nat, n # 0, NEW w, Accounted(s, w, n)
    PROVE  Accounted(s, Looked(s, w, n), n + 1)
<1> DEFINE fate == Fate(s, n)
           v == Looked(s, w, n)
<1>1. CASE fate # "unused"
  <2> DEFINE rows == Flush(w, n).rows
             q == Append(rows, Row(n, n, fate))
  <2>1. Tiled(s, rows, n)
    BY FlushTiles
  <2>2. fate \in {"unused"} \union {Fate(s, k) : k \in Nat}
    OBVIOUS
  <2>3. \A k \in n .. n : Fate(s, k) = fate
    OBVIOUS
  <2>3a. n <= n
    OBVIOUS
  <2>4. v = [rows |-> q, run |-> 0]
    BY <1>1 DEF Looked
  <2> HIDE DEF rows, fate, v
  <2>5. Tiled(s, q, n + 1)
    BY <1>1, <2>1, <2>2, <2>3, <2>3a, TiledFurther
  <2>6. q[Len(q)].fate = fate
    <3>1. rows \in Seq(Rows(s)) /\ Row(n, n, fate).fate = fate
      BY <2>1 DEF Tiled, Row
    <3> QED BY <3>1
  <2> HIDE DEF q
  <2>7. v.rows = q /\ v.run = 0
    BY <2>4
  <2> QED BY <1>1, <2>4, <2>5, <2>6, <2>7 DEF Accounted, v
<1>2. CASE fate = "unused" /\ w.run = 0
  <2>1. v = [rows |-> w.rows, run |-> n]
    BY <1>2 DEF Looked, Accounted
  <2>2. \A k \in n .. (n + 1) - 1 : k = n
    OBVIOUS
  <2>3. \A k \in n .. (n + 1) - 1 : Fate(s, k) = "unused"
    BY <1>2, <2>2
  <2> HIDE DEF v, fate
  <2>4. v.rows = w.rows /\ v.run = n
    BY <2>1
  <2>5. Tiled(s, v.rows, n)
    BY <1>2, <2>4 DEF Accounted
  <2>6. v.rows # <<>> => v.rows[Len(v.rows)].fate # "unused"
    BY <2>4 DEF Accounted
  <2> QED BY <2>1, <2>3, <2>4, <2>5, <2>6 DEF Accounted, v
<1>3. CASE fate = "unused" /\ w.run # 0
  <2>1. v = w
    BY <1>3 DEF Looked
  <2>2. w.run \in Nat /\ w.run < n + 1
    BY <1>3 DEF Accounted
  <2>3. \A k \in w.run .. (n + 1) - 1 : k \in w.run .. n - 1 \/ k = n
    BY <2>2
  <2>4. \A k \in w.run .. (n + 1) - 1 : Fate(s, k) = "unused"
    BY <1>3, <2>3 DEF Accounted
  <2> HIDE DEF v, fate
  <2> QED BY <1>3, <2>1, <2>2, <2>4 DEF Accounted, v
<1> QED BY <1>1, <1>2, <1>3

LEMMA LoopAccounts ==
    ASSUME NEW s \in Series
    PROVE  Accounted(s, LoopOf(s)[Last[s] + 1], Last[s] + 1)
<1> DEFINE a == From[s]
           z == Last[s] + 1
           f == LoopOf(s)
           A == {m \in Nat : a + m <= z => Accounted(s, f[a + m], a + m)}
<1>1. a \in Nat /\ a # 0 /\ z - a \in Nat /\ a + (z - a) = z /\ z \in Nat
  BY RangeAssumption
<1>2. LoopUpTo(s, z, f)
  BY LoopExists
<1> HIDE DEF f, z, a
<1>3. f[a] = LoopStart
  <2>1. a \in a .. z
    BY <1>1
  <2> QED BY <1>2, <2>1 DEF LoopUpTo, a
<1>4. Accounted(s, LoopStart, a)
  <2>1. LoopStart.rows = <<>> /\ LoopStart.run = 0 /\ LoopStart = [rows |-> <<>>, run |-> 0]
    BY DEF LoopStart
  <2>2. Tiled(s, <<>>, a)
    BY DEF Tiled, a
  <2> QED BY <2>1, <2>2 DEF Accounted
<1>5. 0 \in A
  <2>1. a + 0 = a
    BY <1>1
  <2> QED BY <1>3, <1>4, <2>1
<1>6. ASSUME NEW m \in Nat, m \in A PROVE m + 1 \in A
  <2>1. SUFFICES ASSUME a + (m + 1) <= z PROVE Accounted(s, f[a + (m + 1)], a + (m + 1))
    OBVIOUS
  <2> DEFINE n == a + m
  <2>2. n \in Nat /\ n # 0 /\ n <= z /\ a + (m + 1) = n + 1 /\ n + 1 \in a .. z /\ n + 1 # a
        /\ (n + 1) - 1 = n
    BY <1>1, <2>1
  <2>3. Accounted(s, f[n], n)
    BY <1>6, <2>2
  <2> HIDE DEF n
  <2>4. f[n + 1] = Looked(s, f[n], n)
    BY <1>2, <2>2 DEF LoopUpTo, a
  <2>5. Accounted(s, Looked(s, f[n], n), n + 1)
    BY <2>2, <2>3, LookedAccounts
  <2> QED BY <2>2, <2>4, <2>5
<1>7. z - a \in A
  <2>1. \A n \in Nat : n < z - a /\ n \in A => n + 1 \in A
    BY <1>6
  <2> HIDE DEF A
  <2> QED BY <1>1, <1>5, <2>1, AllUpTo
<1>8. Accounted(s, f[z], z)
  BY <1>1, <1>7
<1> QED BY <1>8 DEF f, z

LEMMA ReportComplete == RegisterIsComplete
<1> SUFFICES ASSUME NEW s \in Series
             PROVE  LET rows == LiquidationRows(s)
                    IN /\ rows[1].from = From[s] /\ rows[Len(rows)].to = Last[s]
                       /\ \A i \in DOMAIN rows :
                             /\ rows[i].from <= rows[i].to
                             /\ \A n \in rows[i].from .. rows[i].to : Fate(s, n) = rows[i].fate
                             /\ i > 1 => /\ rows[i].from = rows[i - 1].to + 1
                                         /\ "unused" \in {rows[i].fate} =>
                                                rows[i - 1].fate # "unused"
  BY DEF RegisterIsComplete
<1> DEFINE rows == LiquidationRows(s)
           z == Last[s] + 1
<1>1. z \in Nat /\ z # 0 /\ z # From[s] /\ z - 1 = Last[s]
  BY RangeAssumption
<1>2. rows = Flush(LoopOf(s)[z], z).rows
  BY ReportIsLoop
<1>3. Accounted(s, LoopOf(s)[z], z)
  BY LoopAccounts
<1> HIDE DEF z, rows
<1>4. Tiled(s, rows, z)
  BY <1>1, <1>2, <1>3, FlushTiles
<1>5. rows # <<>>
  BY <1>1, <1>4 DEF Tiled
<1> QED BY <1>1, <1>4, <1>5 DEF Tiled, rows

\* The liquidation report of any range, in any state the documents can be in, accounts for
\* every number once and in order, with its fate on record, and no run of unused numbers
\* is split (assembleLiquidationRows, getLiquidationRegister).
THEOREM ReportAccountsForEveryNumber == Spec => []RegisterIsComplete
<1> QED BY ReportComplete, PTL

=============================================================================
