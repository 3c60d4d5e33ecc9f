------------------------------ MODULE SqlLedger ------------------------------
(***************************************************************************)
(* adapters/sql_ledger.py over adapters/sqlite_ledger.py or another host   *)
(* of atomic batches, and adapters/ledger_api.py in front of it.  A caller *)
(* reads a verified snapshot, compiles one batch of guarded statements     *)
(* from it and hands the batch to the host, which executes all of it or    *)
(* nothing.  Between the two steps other callers append; the answer of a   *)
(* batch may be lost although the batch was executed, and the caller then  *)
(* repeats the operation under the same operation id.                      *)
(*                                                                         *)
(* A digest is what it is computed from: that of an entry (and of the head *)
(* behind it) is the sequence of drafts up to it, that of a request is the *)
(* request.                                                                *)
(***************************************************************************)
EXTENDS SequencesExt, FiniteSets, Naturals

CONSTANTS
  Caller,         \* clients of one stream, each with one call at a time
  OperationId,    \* operation ids the callers choose
  Draft,          \* what a record says, its timestamp included
  Principal,      \* subjects of requests
  Local,          \* the subject of calls that do not come through the API
  MayAppend,      \* subjects to whom the API grants "append"
  Imported,       \* the drafts of the JSONL file that import_jsonl reads
  Limit,          \* records per page
  MaxTries,       \* optimistic attempts (16 in the code)
  MaxEntries,     \* bound: no call begins on a longer ledger
  MaxFailures     \* bound: answers that get lost

(* An append as its caller states it; expected holds the head it expects,  *)
(* if any.                                                                 *)
Request == [op : OperationId, draft : Draft, principal : Principal,
            expected : SUBSET Seq(Draft)]

ASSUME SqlLedgerAssumption ==
  /\ MayAppend \subseteq Principal /\ Local \in Principal
  /\ Imported \in Seq(Draft)
  /\ Limit \in Nat \ {0} /\ MaxTries \in Nat \ {0}
  /\ MaxEntries \in Nat /\ MaxFailures \in Nat

VARIABLES
  entries,   \* weftmark_ledger_entries, in order of sequence
  receipts,  \* weftmark_ledger_receipts
  head,      \* weftmark_ledger_streams: the digest of the head
  calls,     \* what each caller is doing
  known,     \* the head each caller last learned of
  pages,     \* the records each caller has paged through
  answers,   \* every answer that reached a caller
  failures

store == <<entries, receipts, head>>
vars == <<entries, receipts, head, calls, known, pages, answers, failures>>

ImportId(i) == <<"import", i>>

Ids == OperationId \cup {ImportId(i) : i \in DOMAIN Imported}

(* A request as it is recorded, the ones of an import included.            *)
Recorded == [op : Ids, draft : Draft, principal : Principal \cup {"import"},
             expected : SUBSET Seq(Draft)]

Entry == [op : Ids, draft : Draft, request : Recorded]

(* A call that raised remembers its request; one that lost its last race,  *)
(* how many it has lost.                                                   *)
Call ==
  [at : {"idle"}] \cup
  [at : {"idle"}, error : {"conflict", "head_changed", "storage"}, request : Recorded] \cup
  [at : {"idle"}, error : {"head_changed"}, request : Recorded, lost : Nat, began : Nat] \cup
  [at : {"read"}, request : Recorded, tries : Nat, began : Nat] \cup
  [at : {"write"}, request : Recorded, tries : Nat, began : Nat, seen : Seq(Draft)]

TypeOK ==
  /\ entries \in Seq(Entry)
  /\ receipts \subseteq [op : Ids, request : Recorded, sequence : Nat]
  /\ head \in Seq(Draft)
  /\ calls \in [Caller -> Call]
  /\ known \in [Caller -> Seq(Draft)]
  /\ pages \in [Caller -> [records : Seq(Entry), cursor : Nat]]
  /\ answers \subseteq [request : Recorded, sequence : Nat]
  /\ failures \in 0..MaxFailures

Idle == [at |-> "idle"]

Init ==
  /\ entries = <<>> /\ receipts = {} /\ head = <<>>
  /\ calls = [c \in Caller |-> Idle]
  /\ known = [c \in Caller |-> <<>>]
  /\ pages = [c \in Caller |-> [records |-> <<>>, cursor |-> 0]]
  /\ answers = {}
  /\ failures = 0
-----------------------------------------------------------------------------
DigestAt(n) == [i \in 1..n |-> entries[i].draft]

ReceiptsOf(op) == {r \in receipts : r.op = op}

(* What a snapshot verifies of the three tables.  It raises LedgerStorage- *)
(* Error when they disagree; that no call ever meets this is the invariant *)
(* StoreStaysReadable.                                                     *)
Verified ==
  /\ head = DigestAt(Len(entries))
  /\ Cardinality(receipts) = Len(entries)
  /\ \A i \in DOMAIN entries : \E r \in ReceiptsOf(entries[i].op) :
       /\ r.sequence = i
       /\ r.request = entries[i].request
       /\ r.request.draft = entries[i].draft
       /\ r.request.expected \subseteq {DigestAt(i - 1)}

(* Mutant: an operation id is looked up with its principal.                *)
OnRecordPerPrincipal(q) ==
  {i \in DOMAIN entries : /\ entries[i].op = q.op
                          /\ entries[i].request.principal = q.principal}

OnRecord(q) == {i \in DOMAIN entries : entries[i].op = q.op}

(* Mutant: the expectation is left to the batch.                           *)
AnyHead(q) == TRUE

ExpectedHead(q) == q.expected \subseteq {head}

Becomes(c, call) == calls' = [calls EXCEPT ![c] = call]

Raise(c, error, q) == Becomes(c, [at |-> "idle", error |-> error, request |-> q])

(* An entry is returned: the caller knows the head behind it.              *)
Return(c, q, i, list) ==
  /\ Becomes(c, Idle)
  /\ known' = [known EXCEPT ![c] = [j \in 1..i |-> list[j].draft]]
  /\ answers' = answers \cup {[request |-> q, sequence |-> i]}

AtIdle(c) == calls[c].at = "idle"
Reading(c) == calls[c].at = "read"
Writing(c) == calls[c].at = "write"
-----------------------------------------------------------------------------
Enter(c, q) ==
  /\ Becomes(c, [at |-> "read", request |-> q, tries |-> 0, began |-> Len(entries)])
  /\ UNCHANGED <<store, known, pages, answers, failures>>

(* append, append_if_head or append_idempotent; the API refuses a caller   *)
(* without permission and an append that expects no head.                  *)
Begin(c, op, draft, principal, expects) ==
  LET q == [op |-> op, draft |-> draft, principal |-> principal,
            expected |-> IF expects THEN {known[c]} ELSE {}]
  IN /\ AtIdle(c)
     /\ Len(entries) < MaxEntries
     /\ principal = Local \/ (principal \in MayAppend /\ expects)
     /\ Enter(c, q)

(* The caller does not know what became of its operation and repeats it.   *)
Repeat(c) ==
  /\ AtIdle(c)
  /\ "error" \in DOMAIN calls[c] /\ calls[c].error = "storage"
  /\ Enter(c, calls[c].request)

(* The snapshot shows the operation already recorded: its entry if it was  *)
(* this request, a conflict if it was another.                             *)
Recognise(c) ==
  LET q == calls[c].request IN
  /\ Reading(c) /\ Verified
  /\ \E i \in OnRecord(q) :
       IF entries[i].request = q
       THEN Return(c, q, i, entries)
       ELSE Raise(c, "conflict", q) /\ UNCHANGED <<known, answers>>
  /\ UNCHANGED <<store, pages, failures>>

HeadMoved(c) ==
  LET q == calls[c].request IN
  /\ Reading(c) /\ Verified
  /\ OnRecord(q) = {} /\ ~ ExpectedHead(q)
  /\ Raise(c, "head_changed", q)
  /\ UNCHANGED <<store, known, pages, answers, failures>>

(* append_plan is compiled against the snapshot's head.                    *)
Compile(c) ==
  LET q == calls[c].request IN
  /\ Reading(c) /\ Verified
  /\ OnRecord(q) = {} /\ ExpectedHead(q)
  /\ Becomes(c, [at |-> "write", request |-> q, tries |-> calls[c].tries,
                 began |-> calls[c].began, seen |-> head])
  /\ UNCHANGED <<store, known, pages, answers, failures>>

(* The guard of the batch's INSERT: the head is the one compiled against   *)
(* and the operation is new.                                               *)
Inserts(c) == head = calls[c].seen /\ OnRecord(calls[c].request) = {}

Row(q) == [op |-> q.op, draft |-> q.draft, request |-> q]

(* The four statements of append_plan, executed as one transaction: entry, *)
(* receipt and head change together or not at all.                         *)
Execute(c) ==
  LET q == calls[c].request IN
  IF Inserts(c)
  THEN /\ entries' = Append(entries, Row(q))
       /\ receipts' = receipts \cup
            {[op |-> q.op, request |-> q, sequence |-> Len(entries) + 1]}
       /\ head' = Append(head, q.draft)
  ELSE UNCHANGED store

(* The batch's last statement finds a receipt of the operation.            *)
Accepted(c) ==
  LET q == calls[c].request IN
  /\ Writing(c)
  /\ Execute(c)
  /\ \E r \in receipts' : r.op = q.op /\
       IF r.request = q
       THEN Return(c, q, r.sequence, entries')
       ELSE Raise(c, "conflict", q) /\ UNCHANGED <<known, answers>>
  /\ UNCHANGED <<pages, failures>>

LostRace(c) == Writing(c) /\ ~ Inserts(c) /\ ReceiptsOf(calls[c].request.op) = {}

AttemptLeft(c) ==
  calls[c].request.expected = {} /\ calls[c].tries + 1 < MaxTries

(* Mutant: the same batch is offered again.                                *)
RetryStale(c) ==
  /\ LostRace(c) /\ AttemptLeft(c)
  /\ Becomes(c, [calls[c] EXCEPT !.tries = @ + 1])
  /\ UNCHANGED <<store, known, pages, answers, failures>>

Retry(c) ==
  /\ LostRace(c) /\ AttemptLeft(c)
  /\ Becomes(c, [at |-> "read", request |-> calls[c].request,
                 tries |-> calls[c].tries + 1, began |-> calls[c].began])
  /\ UNCHANGED <<store, known, pages, answers, failures>>

(* "ledger head changed during append", or busy after bounded retries.     *)
GiveUp(c) ==
  /\ LostRace(c) /\ ~ AttemptLeft(c)
  /\ Becomes(c, [at |-> "idle", error |-> "head_changed", request |-> calls[c].request,
                 lost |-> calls[c].tries + 1, began |-> calls[c].began])
  /\ UNCHANGED <<store, known, pages, answers, failures>>

(* The host fails, or the caller's process dies: before the batch is       *)
(* executed, or after it.                                                  *)
Fail(c) ==
  /\ ~ AtIdle(c)
  /\ failures < MaxFailures
  /\ failures' = failures + 1
  /\ (UNCHANGED store) \/ (Writing(c) /\ Execute(c))
  /\ Raise(c, "storage", calls[c].request)
  /\ UNCHANGED <<known, pages, answers>>
-----------------------------------------------------------------------------
(* SqliteLedger.import_jsonl: one transaction, into an empty stream only.  *)
ImportRequest(i) ==
  [op |-> ImportId(i), draft |-> Imported[i], principal |-> "import",
   expected |-> {}]

Import ==
  /\ entries = <<>> /\ receipts = {} /\ head = <<>>
  /\ Imported # <<>>
  /\ entries' = [i \in DOMAIN Imported |-> Row(ImportRequest(i))]
  /\ receipts' = {[op |-> ImportId(i), request |-> ImportRequest(i), sequence |-> i] :
                    i \in DOMAIN Imported}
  /\ head' = Imported
  /\ UNCHANGED <<calls, known, pages, answers, failures>>

Look(c) ==
  /\ AtIdle(c) /\ Verified
  /\ known[c] # head
  /\ known' = [known EXCEPT ![c] = head]
  /\ UNCHANGED <<store, calls, pages, answers, failures>>

After(n) == SubSeq(entries, n + 1, Len(entries))

(* LedgerApi.entries: the records after the cursor, and the next cursor as *)
(* long as the head lies beyond them.                                      *)
Page(c) ==
  LET cursor == pages[c].cursor
      rest   == After(cursor)
      page   == SubSeq(rest, 1, IF Len(rest) < Limit THEN Len(rest) ELSE Limit)
      reached == cursor + Len(page)
  IN /\ AtIdle(c) /\ Verified
     /\ pages' = [pages EXCEPT ![c] =
          [records |-> (IF cursor = 0 THEN <<>> ELSE pages[c].records) \o page,
           cursor  |-> IF page # <<>> /\ reached < Len(head) THEN reached ELSE 0]]
     /\ pages' # pages
     /\ UNCHANGED <<store, calls, known, answers, failures>>

Next ==
  \/ Import
  \/ \E c \in Caller :
       \/ \E op \in OperationId, d \in Draft, p \in Principal, e \in BOOLEAN :
            Begin(c, op, d, p, e)
       \/ Repeat(c) \/ Recognise(c) \/ HeadMoved(c) \/ Compile(c)
       \/ Accepted(c) \/ Retry(c) \/ GiveUp(c) \/ Fail(c)
       \/ Look(c) \/ Page(c)

Spec == Init /\ [][Next]_vars
-----------------------------------------------------------------------------
(* An answer names the record of its own request and of no other, for as   *)
(* long as the ledger exists: whatever was lost and repeated, two answers  *)
(* to one operation id are answers to one request and name one entry.      *)
AnswersAgree ==
  /\ \A a \in answers : /\ a.sequence \in DOMAIN entries
                        /\ entries[a.sequence].request = a.request
  /\ \A a, b \in answers : a.request.op = b.request.op => a = b

(* No race, lost answer or repetition leaves the three tables in a state   *)
(* that the next snapshot refuses as inconsistent, which would end the     *)
(* ledger: nothing repairs it.                                             *)
StoreStaysReadable == Verified

(* "ledger remained busy" and "changed during append" are contention: as   *)
(* many entries of others were recorded as attempts were lost.             *)
LostRacesAreProgress ==
  \A c \in Caller : "lost" \in DOMAIN calls[c] =>
    calls[c].began + calls[c].lost <= Len(entries)

(* A caller that pages through a growing ledger collects the ledger itself,*)
(* with no entry skipped or repeated at a page boundary.                   *)
PagesAreTheLog ==
  \A c \in Caller : IsPrefix(pages[c].records, entries)

(* The tables as the log of LedgerLog.  A caller whose operation failed in *)
(* the storage does not know what became of it; that of any other call     *)
(* that raised was refused.                                                *)
Answered ==
  IF answers = {} THEN 0
  ELSE CHOOSE n \in {a.sequence : a \in answers} : \A a \in answers : a.sequence <= n

InDoubt(c) ==
  ~ AtIdle(c) \/ ("error" \in DOMAIN calls[c] /\ calls[c].error = "storage")

Wanted ==
  [c \in Caller |->
    IF InDoubt(c)
    THEN {[draft |-> calls[c].request.draft, expected |-> calls[c].request.expected]}
    ELSE {}]

Drafts == DigestAt(Len(entries))

SqlPort == INSTANCE LedgerLog WITH
  log <- Drafts, promised <- Answered, view <- known, asked <- Wanted

(* What callers have been told, by answers and by pages, is one log, the   *)
(* one that LedgerLog promises, whatever races, repetitions and lost       *)
(* answers there are.                                                      *)
CallersSeeOneLog == SqlPort!Spec /\ [](AnswersAgree /\ PagesAreTheLog)
=============================================================================
