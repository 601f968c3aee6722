----------------------------- MODULE Documents -----------------------------
(***************************************************************************)
(* The numbered tax documents of one hotel and one document type           *)
(* (finance/documents.ts): ranges of serial numbers, the documents drawn   *)
(* from them, and the staff who issue, spoil, cancel and replace them at   *)
(* the same time.  A subject is what a document is for: a folio, a payment *)
(* or a dining order.                                                      *)
(***************************************************************************)
EXTENDS Integers, Sequences

CONSTANTS
    Series, NoSeries,       \* ranges that may be registered
    From, Start, Last,      \* [Series -> Nat]: bounds of a range, first number handed out
    Subjects, NoSubject,    \* folios, payments, dining orders
    Issuers,                \* issueInvoice, issueOfficialReceipt, issueDiningDocument
    Spoilers,               \* spoilSerial
    Cancellers,             \* cancelDocument, cancelDiningReceipt
    HandStatuses            \* the statuses a series is given by hand

Handlers == Issuers \union Spoilers \union Cancellers

ASSUME RangeAssumption ==
    /\ From \in [Series -> Nat \ {0}]
    /\ Start \in [Series -> Nat]
    /\ Last \in [Series -> Nat]
    /\ \A s \in Series : From[s] <= Start[s] /\ Start[s] <= Last[s]

ASSUME NamesAssumption ==
    /\ NoSeries \notin Series
    /\ NoSubject \notin Subjects
    /\ HandStatuses \subseteq {"active", "exhausted", "superseded", "cancelled"}

VARIABLES
    status,     \* document_series.status; "none" before the range is registered
    next,       \* document_series.next_serial
    docs,       \* the rows of documents in the order of their insertion
    job         \* what a handler keeps between its steps

vars == <<status, next, docs, job>>

SeriesStatus == {"none", "active", "exhausted", "superseded", "cancelled"}

Document ==
    [series : Series, serial : Nat, subject : Subjects \union {NoSubject},
     status : {"issued", "spoiled", "cancelled"}, replaces : Nat, replacedBy : Nat]

Stages == {"idle", "draw", "lock", "write", "cancel", "reissue", "link", "linkBack"}

Job ==
    [at : Stages, subject : Subjects \union {NoSubject}, series : Series \union {NoSeries},
     serial : Nat,
     doc : Nat,             \* the document being cancelled or replaced, 0 if none
     replace : BOOLEAN,     \* opts.issueReplacement
     found : Nat]           \* its replacement

Idle == [at |-> "idle", subject |-> NoSubject, series |-> NoSeries, serial |-> 0,
         doc |-> 0, replace |-> FALSE, found |-> 0]

Init ==
    /\ status = [s \in Series |-> "none"]
    /\ next = Start
    /\ docs = <<>>
    /\ job = [h \in Handlers |-> Idle]

----------------------------------------------------------------------------
\* Mutant: the replacement is looked up without its status.
AnyDocument(x) == {d \in DOMAIN docs : docs[d].subject = x}

\* The issued document of a subject.
InForce(x) == {d \in DOMAIN docs : docs[d].subject = x /\ docs[d].status = "issued"}

\* No open transaction holds the row of series s (SELECT ... FOR UPDATE).
SeriesFree(s) == \A h \in Handlers : job[h].at = "write" => job[h].series # s

Active == {s \in Series : status[s] = "active"}

\* createDocumentSeries: the active series is superseded, the new one inserted.
SeriesRegistered(s) ==
    /\ status[s] = "none"
    /\ \A a \in Active : SeriesFree(a)
    /\ status' = [a \in Series |-> IF a = s THEN "active"
                                   ELSE IF a \in Active THEN "superseded" ELSE status[a]]
    /\ UNCHANGED <<next, docs, job>>

\* setDocumentSeriesStatus: any status by hand; "active" demotes the other first.
SeriesSet(s, to) ==
    /\ status[s] # "none"
    /\ SeriesFree(s)
    /\ IF to = "active"
       THEN /\ \A a \in Active : SeriesFree(a)
            /\ status' = [a \in Series |-> IF a = s THEN "active"
                                           ELSE IF a \in Active THEN "superseded" ELSE status[a]]
       ELSE status' = [status EXCEPT ![s] = to]
    /\ UNCHANGED <<next, docs, job>>

----------------------------------------------------------------------------
\* issue...: an existing document is returned, otherwise a serial is drawn.
IssueRequested(h, x) ==
    /\ h \in Issuers
    /\ job[h] = Idle
    /\ InForce(x) = {}
    /\ job' = [job EXCEPT ![h] = [Idle EXCEPT !.at = "draw", !.subject = x]]
    /\ UNCHANGED <<status, next, docs>>

SpoilRequested(h) ==
    /\ h \in Spoilers
    /\ job[h] = Idle
    /\ job' = [job EXCEPT ![h] = [Idle EXCEPT !.at = "draw"]]
    /\ UNCHANGED <<status, next, docs>>

\* allocateSerial: the statement's snapshot finds the active row ...
SeriesSeen(h) ==
    /\ job[h].at = "draw"
    /\ \E s \in Active : job' = [job EXCEPT ![h].at = "lock", ![h].series = s]
    /\ UNCHANGED <<status, next, docs>>

\* ... waits for its lock, and reads it as it then is.
SeriesLocked(h) ==
    /\ job[h].at = "lock"
    /\ SeriesFree(job[h].series)
    /\ status[job[h].series] = "active"
    /\ next[job[h].series] <= Last[job[h].series]
    /\ job' = [job EXCEPT ![h].at = "write", ![h].serial = next[job[h].series]]
    /\ UNCHANGED <<status, next, docs>>

\* No active series; one that stopped being active during the wait; one used up,
\* whose "exhausted" is rolled back by the throw.
NoSerial(h) ==
    /\ \/ job[h].at = "draw" /\ Active = {}
       \/ /\ job[h].at = "lock"
          /\ SeriesFree(job[h].series)
          /\ \/ status[job[h].series] # "active"
             \/ next[job[h].series] > Last[job[h].series]
    /\ job' = [job EXCEPT ![h] = Idle]
    /\ UNCHANGED <<status, next, docs>>

\* Mutant: a document is a draft until it is printed.
NewDraft(j) ==
    [series |-> j.series, serial |-> j.serial, subject |-> j.subject,
     status |-> IF j.subject = NoSubject THEN "spoiled" ELSE "draft",
     replaces |-> 0, replacedBy |-> 0]

NewDocument(j) ==
    [series |-> j.series, serial |-> j.serial, subject |-> j.subject,
     status |-> IF j.subject = NoSubject THEN "spoiled" ELSE "issued",
     replaces |-> 0, replacedBy |-> 0]

\* Mutant: no partial unique index on the live document of a subject.
DuplicateSerialOnly(j) ==
    \E d \in DOMAIN docs : docs[d].series = j.series /\ docs[d].serial = j.serial

\* What the unique indexes of documents refuse.
Duplicate(j) ==
    \/ j.subject # NoSubject /\ InForce(j.subject) # {}
    \/ \E d \in DOMAIN docs : docs[d].series = j.series /\ docs[d].serial = j.serial

\* The commit of the document with the counter's bump.
DocumentWritten(h) ==
    /\ job[h].at = "write"
    /\ ~Duplicate(job[h])
    /\ docs' = Append(docs, NewDocument(job[h]))
    /\ next' = [next EXCEPT ![job[h].series] = job[h].serial + 1]
    /\ status' = [status EXCEPT ![job[h].series] =
                    IF job[h].serial >= Last[job[h].series] THEN "exhausted" ELSE "active"]
    /\ job' = [job EXCEPT ![h] =
                    IF job[h].replace
                    THEN [Idle EXCEPT !.at = "link", !.subject = job[h].subject,
                                      !.doc = job[h].doc, !.found = Len(docs) + 1]
                    ELSE Idle]

\* Mutant: the serial is drawn in a transaction of its own, before the insert.
DocumentRefusedAfterBump(h) ==
    /\ job[h].at = "write"
    /\ Duplicate(job[h])
    /\ next' = [next EXCEPT ![job[h].series] = job[h].serial + 1]
    /\ job' = [job EXCEPT ![h] = Idle]
    /\ UNCHANGED <<status, docs>>

\* A unique violation rolls the counter back with the document.
DocumentRefused(h) ==
    /\ job[h].at = "write"
    /\ Duplicate(job[h])
    /\ job' = [job EXCEPT ![h] = Idle]
    /\ UNCHANGED <<status, next, docs>>

----------------------------------------------------------------------------
\* cancelDocument reads the document (one of a dining order is never replaced: replace = FALSE) ...
CancelRequested(h, d, replace) ==
    /\ h \in Cancellers
    /\ job[h] = Idle
    /\ docs[d].status = "issued"
    /\ job' = [job EXCEPT ![h] = [Idle EXCEPT !.at = "cancel", !.subject = docs[d].subject,
                                              !.doc = d, !.replace = replace]]
    /\ UNCHANGED <<status, next, docs>>

\* Mutant: the number of a cancelled document is handed out again.
CancelReusesNumber(h) ==
    /\ job[h].at = "cancel"
    /\ docs' = [docs EXCEPT ![job[h].doc].status = "cancelled"]
    /\ next' = [next EXCEPT ![docs[job[h].doc].series] = docs[job[h].doc].serial]
    /\ job' = [job EXCEPT ![h] = IF @.replace THEN [@ EXCEPT !.at = "reissue"] ELSE Idle]
    /\ UNCHANGED status

\* ... updates it by id alone, ...
CancelWritten(h) ==
    /\ job[h].at = "cancel"
    /\ docs' = [docs EXCEPT ![job[h].doc].status = "cancelled"]
    /\ job' = [job EXCEPT ![h] = IF @.replace THEN [@ EXCEPT !.at = "reissue"] ELSE Idle]
    /\ UNCHANGED <<status, next>>

\* ... issues the replacement, which may be a document somebody else has issued meanwhile, ...
ReplacementFound(h) ==
    /\ job[h].at = "reissue"
    /\ \E e \in InForce(job[h].subject) :
           job' = [job EXCEPT ![h].at = "link", ![h].found = e]
    /\ UNCHANGED <<status, next, docs>>

ReplacementDrawn(h) ==
    /\ job[h].at = "reissue"
    /\ InForce(job[h].subject) = {}
    /\ job' = [job EXCEPT ![h].at = "draw"]
    /\ UNCHANGED <<status, next, docs>>

\* ... and links the two in two updates.
LinkedOld(h) ==
    /\ job[h].at = "link"
    /\ docs' = [docs EXCEPT ![job[h].doc].replacedBy = job[h].found]
    /\ job' = [job EXCEPT ![h].at = "linkBack"]
    /\ UNCHANGED <<status, next>>

LinkedNew(h) ==
    /\ job[h].at = "linkBack"
    /\ docs' = [docs EXCEPT ![job[h].found].replaces = job[h].doc]
    /\ job' = [job EXCEPT ![h] = Idle]
    /\ UNCHANGED <<status, next>>

\* An exception or a restart: the open transaction is rolled back, committed rows stay.
HandlerDies(h) ==
    /\ job[h] # Idle
    /\ job' = [job EXCEPT ![h] = Idle]
    /\ UNCHANGED <<status, next, docs>>

Step(h) ==
    \/ \E x \in Subjects : IssueRequested(h, x)
    \/ SpoilRequested(h)
    \/ SeriesSeen(h) \/ SeriesLocked(h) \/ NoSerial(h)
    \/ DocumentWritten(h) \/ DocumentRefused(h)
    \/ \E d \in DOMAIN docs, replace \in BOOLEAN : CancelRequested(h, d, replace)
    \/ CancelWritten(h) \/ ReplacementFound(h) \/ ReplacementDrawn(h)
    \/ LinkedOld(h) \/ LinkedNew(h)
    \/ HandlerDies(h)

Next ==
    \/ \E s \in Series : SeriesRegistered(s)
    \/ \E s \in Series, to \in HandStatuses : SeriesSet(s, to)
    \/ \E h \in Handlers : Step(h)

Spec == Init /\ [][Next]_vars

----------------------------------------------------------------------------
\* getLiquidationRegister: what became of number n of a range.
Fate(s, n) ==
    IF \E d \in DOMAIN docs : docs[d].series = s /\ docs[d].serial = n
    THEN docs[CHOOSE d \in DOMAIN docs : docs[d].series = s /\ docs[d].serial = n].status
    ELSE "unused"

Row(from, to, fate) == [from |-> from, to |-> to, fate |-> fate]

\* Mutant: a run of unused numbers is closed one number too late.
UnflushedAtNumber(w, n) ==
    IF w.run = 0 THEN w
    ELSE [rows |-> Append(w.rows, Row(w.run, n, "unused")), run |-> 0]

\* assembleLiquidationRows: one row per consumed number, a run of unused ones is one row.
\* run = 0 when no run is open.
Flush(w, n) ==
    IF w.run = 0 THEN w
    ELSE [rows |-> Append(w.rows, Row(w.run, n - 1, "unused")), run |-> 0]

\* What the loop holds once it has looked at number n.
Looked(s, w, n) ==
    IF Fate(s, n) # "unused"
    THEN [rows |-> Append(Flush(w, n).rows, Row(n, n, Fate(s, n))), run |-> 0]
    ELSE IF w.run = 0 THEN [w EXCEPT !.run = n] ELSE w

LiquidationRows(s) ==
    LET Walk[n \in From[s] .. Last[s] + 1] ==
            IF n = From[s] THEN [rows |-> <<>>, run |-> 0] ELSE Looked(s, Walk[n - 1], n - 1)
    IN Flush(Walk[Last[s] + 1], Last[s] + 1).rows

----------------------------------------------------------------------------
TypeOK ==
    /\ status \in [Series -> SeriesStatus]
    /\ next \in [Series -> Nat]
    /\ docs \in Seq(Document)
    /\ job \in [Handlers -> Job]

\* Whatever is refused, rolled back, cancelled or interrupted, the numbers of a series
\* that are gone are exactly the ones below its counter, and each is one document
\* (allocateSerial: "the range is consumed gaplessly").
SerialsAccounted ==
    /\ \A s \in Series :
          {docs[d].serial : d \in {d \in DOMAIN docs : docs[d].series = s}}
             = Start[s] .. next[s] - 1
    /\ \A d, e \in DOMAIN docs :
          docs[d].series = docs[e].series /\ docs[d].serial = docs[e].serial => d = e

\* Two issuers, or an issuer and a replacement, never leave two documents in force for one
\* folio, payment or order, nor two series handing out numbers.
OneInForce ==
    /\ \A x \in Subjects, d, e \in DOMAIN docs : d \in InForce(x) /\ e \in InForce(x) => d = e
    /\ \A s, t \in Active : s = t

\* Replacement links only lead forward, from a dead document to a later one of the
\* same subject: two clerks replacing one document can never close a circle
\* (cancelDocument returns "the fresh replacement", also when somebody else issued it).
ReplacementIsLater ==
    \A d \in DOMAIN docs :
        /\ docs[d].replacedBy # 0 =>
              /\ docs[d].status = "cancelled"
              /\ d < docs[d].replacedBy /\ docs[d].replacedBy \in DOMAIN docs
              /\ docs[docs[d].replacedBy].subject = docs[d].subject
        /\ docs[d].replaces # 0 =>
              /\ docs[d].replaces < d
              /\ docs[docs[d].replaces].status = "cancelled"

\* The liquidation report accounts for every number of the range once and in order, shows
\* the fate on record, and never splits a run of unused numbers.
RegisterIsComplete ==
    \A s \in Series :
        LET rows == LiquidationRows(s)
        IN /\ rows[1].from = From[s] /\ rows[Len(rows)].to = Last[s]
           /\ \A i \in DOMAIN rows :
                 /\ rows[i].from <= rows[i].to
                 /\ \A n \in rows[i].from .. rows[i].to : Fate(s, n) = rows[i].fate
                 /\ i > 1 => /\ rows[i].from = rows[i - 1].to + 1
                             /\ "unused" \in {rows[i].fate} => rows[i - 1].fate # "unused"

\* Every step of every handler is a step of the serial book or leaves it alone: numbers
\* are consumed in order and once, and only an issued document is ever cancelled.
NumbersUsed == {[series |-> docs[d].series, serial |-> docs[d].serial,
                 fate |-> docs[d].status] : d \in DOMAIN docs}

Register == INSTANCE SerialBook WITH used <- NumbersUsed
KeepsBook == Register!Book

=============================================================================
